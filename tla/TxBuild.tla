------------------------------ MODULE TxBuild ------------------------------
(***************************************************************************)
(* How the decoder builds a payment: which coins it takes, what it pays in *)
(* fees, what becomes of the change, how a replacement of a pending        *)
(* payment is built, how an account is swept to one address, and how a     *)
(* payment is shared among the addresses that fund it (payerSendOut), for  *)
(* the host's trade order.                                                 *)
(*                                                                         *)
(* Amounts are satoshis, fee rates satoshis per 1000 vbytes. Operators     *)
(* that may fail return the set of raw transactions they may return: empty *)
(* for an error.                                                           *)
(***************************************************************************)
EXTENDS FeeRates

CONSTANTS
  DustLimit,            \* Config.DustLimitBTC
  OmitChangeBelowDust,  \* Config.OmitChangeBelowDust
  MaxTxInputs,          \* Config.MaxTxInputs
  Int64Half             \* 2^63; a payment of the model overflows where it is less

ASSUME DustAssumption == DustLimit \in Nat
ASSUME OmitAssumption == OmitChangeBelowDust \in BOOLEAN
ASSUME InputsAssumption == MaxTxInputs \in Nat \ {0}
ASSUME Int64Assumption == Int64Half \in Nat \ {0}

\* A coin (Unspent): which transaction made it, which output, whose, how much.
Amounts(coins) == [i \in DOMAIN coins |-> coins[i].amount]
Total(coins) == SumFunction(Amounts(coins))
Payers(coins) == {coins[i].addr : i \in DOMAIN coins}

\* What function f holds at x, nothing where it is not defined.
At(f, x) == IF x \in DOMAIN f THEN f[x] ELSE 0

-----------------------------------------------------------------------------
(* Fees.                                                                   *)

EstimateTxVsize(inputs, outputs) == 68 * inputs + 31 * outputs + 11

EstimateFee(inputs, outputs, rate) ==
  Max({MinFees, (EstimateTxVsize(inputs, outputs) * rate + 500) \div 1000})

EstimateMarginalOutputFee(rate) == (31 * rate + 999) \div 1000

-----------------------------------------------------------------------------
(* selectUTXOsForPayment.                                                  *)

\* The orders sort.Sort may leave the coins in: ascending, ties anyhow.
AscendingOrders(coins) ==
  {q \in SetToSeqs(coins) : \A i \in 2..Len(q) : q[i - 1].amount <= q[i].amount}

Funds(coins, k) == SumFunctionOnSet(Amounts(coins), 1..k)

\* The shortest prefix worth `need`, 0 when all the coins are not.
Cover(coins, need) ==
  LET enough == {k \in 1..Len(coins) : Funds(coins, k) >= need}
  IN IF enough = {} THEN 0 ELSE Min(enough)

\* How many coins pay for `send` and for the fee of taking them, 0 when the
\* balance is not enough: a fee the prefix does not cover lengthens it.
SettledCount(coins, send, slots, rate) ==
  LET settle[k \in 0..Len(coins)] ==
        LET need == send + EstimateFee(k, slots, rate)
        IN IF k = 0 \/ Funds(coins, k) >= need THEN k ELSE settle[Cover(coins, need)]
  IN settle[Cover(coins, send)]

\* Mutant of ChangePayer: change goes to the address of the first input.
FirstPayer(ins) == Head(ins).addr

\* The owner of the largest coin taken.
ChangePayer(ins) == Last(ins).addr

-----------------------------------------------------------------------------
(* applyChangePolicy.                                                      *)

ShouldDonate(change, rate) ==
  \/ change < DustLimit
  \/ change - EstimateMarginalOutputFee(rate) < DustLimit

\* Mutant of ChangePolicy: what is left to the miner is not counted as fee.
DustNotCounted(surplus, fee, rate) ==
  LET donated == OmitChangeBelowDust /\ surplus > fee /\ ShouldDonate(surplus - fee, rate)
  IN [fee |-> fee, change |-> IF donated THEN 0 ELSE surplus - fee]

\* What the payment costs and what returns, once `fee` is known to be covered.
\* Change that is not worth its output is left to the miner.
ChangePolicy(surplus, fee, rate) ==
  IF /\ OmitChangeBelowDust
     /\ surplus > fee
     /\ ShouldDonate(surplus - fee, rate)
    THEN [fee |-> surplus, change |-> 0]
    ELSE [fee |-> fee, change |-> surplus - fee]

AppendOutput(outs, addr, amount) ==
  [a \in DOMAIN outs \cup {addr} |-> At(outs, a) + (IF a = addr THEN amount ELSE 0)]

-----------------------------------------------------------------------------
(* writePayerSendOutExtParam: the share of the external payment that each  *)
(* funding address owes.                                                   *)

NotWritten == [p \in {} |-> 0]

\* The funding addresses in the order of their first input.
PayerOrder(ins) ==
  FoldLeft(LAMBDA order, c : IF Contains(order, c.addr) THEN order
                             ELSE Append(order, c.addr),
           <<>>, ins)

VinOf(ins, p) == SumFunctionOnSet(Amounts(ins), {i \in DOMAIN ins : ins[i].addr = p})

\* Shares by position become shares by address.
ByPayer(order, shares) ==
  [p \in ToSet(order) |-> shares[CHOOSE i \in DOMAIN order : order[i] = p]]

\* int64 arithmetic, and its division.
Int64(x) == ((x + Int64Half) % (2 * Int64Half)) - Int64Half
TruncatedDiv(a, b) == IF a >= 0 THEN a \div b ELSE -((-a) \div b)

CoverExternalInOrder(vins, external) ==
  [i \in DOMAIN vins |->
     Min({vins[i], Max({0, external - SumFunctionOnSet(vins, 1..(i - 1))})})]

OneFunds(shares) == \A i, j \in DOMAIN shares : shares[i] > 0 /\ shares[j] > 0 => i = j

\* Mutant of ProportionalShares: everybody owes the same.
EvenShares(gross, external) ==
  LET part == [i \in 1..(Len(gross) - 1) |-> external \div Len(gross)]
  IN Append(part, external - SumFunction(part))

\* Shares in proportion to what each address gives, the last takes what is left.
ProportionalShares(gross, external) ==
  LET last == Len(gross)
      part == [i \in 1..(last - 1) |->
                 TruncatedDiv(Int64(external * gross[i]), SumFunction(gross))]
  IN Append(part, external - SumFunction(part))

PayableFromGross(order, gross, external) ==
  LET shares == ProportionalShares(gross, external)
  IN IF /\ \A i \in DOMAIN gross : gross[i] >= 0
        /\ external <= SumFunction(gross)
        /\ \A i \in DOMAIN shares : 0 <= shares[i] /\ shares[i] <= gross[i]
       THEN ByPayer(order, shares)
       ELSE NotWritten

\* Mutant of AssignPayable: shares in proportion to inputs, change not taken off.
SharedByInputs(order, vins, gross, external) == PayableFromGross(order, vins, external)

AssignPayable(order, vins, gross, external) ==
  LET greedy == CoverExternalInOrder(vins, external)
  IN IF external <= SumFunction(vins) /\ OneFunds(greedy)
       THEN ByPayer(order, greedy)
       ELSE PayableFromGross(order, gross, external)

PayerSendOut(ins, to, outs) ==
  LET order == PayerOrder(ins)
      external == SumFunction(to)
      vins == [i \in DOMAIN order |-> VinOf(ins, order[i])]
      gross == [i \in DOMAIN order |-> vins[i] - At(outs, order[i])]
  IN IF Len(order) = 1 \/ external = 0
       THEN [p \in ToSet(order) |-> external]
       ELSE AssignPayable(order, vins, gross, external)

\* buildRawTransaction
RawTx(ins, to, outs, fee) ==
  [ins |-> ins, to |-> to, outs |-> outs, fee |-> fee,
   sendOut |-> PayerSendOut(ins, to, outs)]

\* The payment `to` with its change, if there is any.
WithChange(to, addr, change) == IF change > 0 THEN AppendOutput(to, addr, change) ELSE to

-----------------------------------------------------------------------------
(* createBTCTransfer                                                       *)

TransferOf(ins, to, rate) ==
  LET send == SumFunction(to)
      fee == EstimateFee(Len(ins), Cardinality(DOMAIN to) + 1, rate)
      policy == ChangePolicy(Total(ins) - send, fee, rate)
  IN RawTx(ins, to, WithChange(to, ChangePayer(ins), policy.change), policy.fee)

\* Change is never negative: applyChangePolicy fails when the fee is not covered.
CoversFee(ins, to, rate) ==
  Total(ins) - SumFunction(to) >= EstimateFee(Len(ins), Cardinality(DOMAIN to) + 1, rate)

CreateBTCTransfer(unspents, to, rate) ==
  LET count(q) == SettledCount(q, SumFunction(to), Cardinality(DOMAIN to) + 1, rate)
      taken == {SubSeq(q, 1, count(q)) :
                  q \in {q \in AscendingOrders(unspents) : count(q) \in 1..MaxTxInputs}}
  IN {TransferOf(ins, to, rate) : ins \in {ins \in taken : CoversFee(ins, to, rate)}}

-----------------------------------------------------------------------------
(* createBTCSummary: the coins of one address after another fill a batch,  *)
(* which is sent to `to` when it is full or at the last address. What a    *)
(* full batch has no room for stays where it is.                           *)

\* A batch that is worth its fee becomes a transaction, another is given up.
SweepOf(batch, to, rate) ==
  LET fee == EstimateFee(Len(batch), 1, rate)
      pays == [a \in {to} |-> Total(batch) - fee]
  IN IF Total(batch) > fee THEN <<RawTx(batch, pays, pays, fee)>> ELSE <<>>

\* coins[i] are those of the i-th address.
CreateBTCSummary(coins, to, rate) ==
  LET add(acc, i) ==
        LET room == Min({Len(coins[i]), MaxTxInputs - Len(acc.batch)})
            batch == acc.batch \o SubSeq(coins[i], 1, room)
        IN IF i = Len(coins) \/ Len(batch) >= MaxTxInputs
             THEN [batch |-> <<>>, made |-> acc.made \o SweepOf(batch, to, rate)]
             ELSE [acc EXCEPT !.batch = batch]
  IN FoldLeft(add, [batch |-> <<>>, made |-> <<>>], [i \in DOMAIN coins |-> i]).made

-----------------------------------------------------------------------------
(* createRBFTransfer: the inputs are those of the origin; `pinned` is       *)
(* speedUp.fromAddress, if given; `paid` is what the origin is known to pay.*)

NoAddress == "none"

\* Mutant of ResolveRBFChangeAddress: no address is taken when none is pinned.
PinnedOnly(ins, pinned) == pinned

ResolveRBFChangeAddress(ins, pinned) ==
  IF pinned = NoAddress THEN Head(ins).addr ELSE pinned

\* Mutant of EnforceRBFMinimumFee: the origin's fee alone is the floor.
FeeOfOriginAsFloor(paid, inputs, outputs, fee) == Max({fee, paid})

EnforceRBFMinimumFee(paid, inputs, outputs, fee) ==
  IF paid = 0 THEN fee ELSE Max({fee, paid + EstimateTxVsize(inputs, outputs)})

RBFFee(paid, inputs, outputs, rate) ==
  EnforceRBFMinimumFee(paid, inputs, outputs, EstimateFee(inputs, outputs, rate))

\* A speed-up goes without a change slot when it cannot pay for one.
SpeedUpOf(ins, to, rate, pinned, paid) ==
  LET outputs == Cardinality(DOMAIN to)
      surplus == Total(ins) - SumFunction(to)
      withChange == RBFFee(paid, Len(ins), outputs + 1, rate)
      fee == IF surplus >= withChange THEN withChange
             ELSE RBFFee(paid, Len(ins), outputs, rate)
      policy == ChangePolicy(surplus, fee, rate)
      changeAddr == ResolveRBFChangeAddress(ins, pinned)
  IN IF surplus < fee THEN {}
     ELSE {RawTx(ins, to, WithChange(to, changeAddr, policy.change), policy.fee)}

\* A cancel returns everything but the fee, and keeps even dust.
CancelOf(ins, rate, pinned, paid) ==
  LET fee == RBFFee(paid, Len(ins), 1, rate)
      nothing == [a \in {} |-> 0]
      back == AppendOutput(nothing, ResolveRBFChangeAddress(ins, pinned), Total(ins) - fee)
  IN IF Total(ins) <= fee THEN {} ELSE {RawTx(ins, nothing, back, fee)}
=============================================================================
