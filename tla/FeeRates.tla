------------------------------ MODULE FeeRates ------------------------------
(***************************************************************************)
(* Where a fee rate comes from: what the node estimates, floored by the    *)
(* configuration, for a payment; what the host asks for, or a bump of an   *)
(* earlier rate, for a replacement. Rates are satoshis per 1000 vbytes.    *)
(***************************************************************************)
EXTENDS Integers, SequencesExt

CONSTANTS
  MinFees,      \* Config.MinFees
  MinFeeRate    \* Config.MinFeeRate

ASSUME FeesAssumption == MinFees \in Nat /\ MinFeeRate \in Nat

\* An estimate that is not known, or not positive.
NoRate == 0

\* The empty string where the host may give a rate. A given 0 is another thing.
NotGiven == -1

FallbackFeeRate ==
  IF MinFeeRate > 0 THEN MinFeeRate ELSE IF MinFees > 0 THEN MinFees ELSE 1000

EnforceMinFeeRate(rate) == Max({rate, FallbackFeeRate})

\* estimatesmartfee first, the older estimatefee where it has no answer, and
\* the configured rate where neither has: the call never fails.
EstimateFeeRate(answer) ==
  IF answer.smart > NoRate THEN EnforceMinFeeRate(answer.smart)
  ELSE IF answer.legacy > NoRate THEN EnforceMinFeeRate(answer.legacy)
  ELSE FallbackFeeRate

\* createBTCTransfer, createBTCSummary: the node is asked when the host does not say.
RateOf(asked, answer) == IF asked = NotGiven THEN EstimateFeeRate(answer) ELSE asked

\* applySpeedUpFeeRate: the rates of a speed-up `su`, none for an error. `asked`
\* is the rate of the request, the base of a bump that names none.
ApplySpeedUpFeeRate(su, asked) ==
  LET base == IF su.baseFeeRate = NotGiven THEN asked ELSE su.baseFeeRate
      bumped == (base * (100 + su.feeBumpPercent) + 50) \div 100 + su.feeBumpWei
  IN {rate \in {IF su.feeRate = NotGiven THEN bumped ELSE su.feeRate} :
        rate > 0 /\ (su.feeRate # NotGiven \/ base # NotGiven)}
=============================================================================
