--------------------------- MODULE FeeAccounting ---------------------------
(***************************************************************************)
(* How the scanner books a transaction of the wallet: it takes the shares  *)
(* the host's trade order remembers (sendOut), compares them with what the *)
(* chain says every funding address gave and got back, and either has the  *)
(* fee of every funding address or fails, and with it the block. The rows  *)
(* that follow are those of ExtractRows.                                   *)
(*                                                                         *)
(* A transaction pays one output per address at most, as the transactions  *)
(* of TxBuild do.                                                          *)
(***************************************************************************)
EXTENDS TxBuild

CONSTANT Managed      \* the addresses of the one account that is scanned

Tolerance == 1        \* feeAccountingSatTolerance

Differ(a, b) == a - b > Tolerance \/ b - a > Tolerance

Vin(tx, a) == VinOf(tx.ins, a)
Vout(tx, a) == At(tx.outs, a)

\* computeBTCTransactionFee: nothing for a transaction without known inputs.
ChainFee(tx) == IF tx.ins = <<>> THEN 0 ELSE Max({0, Total(tx.ins) - SumFunction(tx.outs)})

\* An output is change if it does not exceed what the address put in.
SelfChange(tx, p) == IF Vout(tx, p) > Vin(tx, p) THEN 0 ELSE Vout(tx, p)

HasIllegalPeerIn(tx, payers) ==
  \E p \in payers : Vin(tx, p) = 0 \/ Vout(tx, p) > SelfChange(tx, p)

\* collectBTCPayerLegs: the funding addresses that lost something.
PayerLegs(tx) == {p \in Managed \cap Payers(tx.ins) : Vin(tx, p) > Vout(tx, p)}

RequiresAccounting(tx) == PayerLegs(tx) # {}

\* With several payers in the order, its legs are booked; else the chain's.
BookedPayers(tx, sendOut) ==
  IF Cardinality(DOMAIN sendOut) > 1 THEN DOMAIN sendOut ELSE PayerLegs(tx)

NetOut(tx, p) == Vin(tx, p) - SelfChange(tx, p)

\* Mutant of ExternalOut: change counts as a payment.
EverythingOut(tx, sendOut) == SumFunction(tx.outs)

\* What goes to addresses that are not booked as payers.
ExternalOut(tx, sendOut) ==
  SumFunctionOnSet(tx.outs, DOMAIN tx.outs \ BookedPayers(tx, sendOut))

FeeOf(tx, sendOut, p) == NetOut(tx, p) - sendOut[p]

FeesAddUp(tx, sendOut) ==
  LET booked == BookedPayers(tx, sendOut)
      fees == [p \in booked |-> FeeOf(tx, sendOut, p)]
  IN ~Differ(SumFunction(fees), ChainFee(tx))

SendOutAddsUp(tx, sendOut) ==
  LET external == ExternalOut(tx, sendOut)
  IN external > 0 => ~Differ(SumFunction(sendOut), external)

\* tryBusinessPayerLegAccounting finds nothing wrong with the order.
Reconciles(tx, sendOut) ==
  /\ sendOut # NotWritten
  /\ ~HasIllegalPeerIn(tx, DOMAIN sendOut)
  /\ BookedPayers(tx, sendOut) \subseteq DOMAIN sendOut
  /\ \A p \in BookedPayers(tx, sendOut) : sendOut[p] <= NetOut(tx, p)
  /\ SendOutAddsUp(tx, sendOut)
  /\ FeesAddUp(tx, sendOut)
=============================================================================
