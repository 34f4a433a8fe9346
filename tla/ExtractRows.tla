----------------------------- MODULE ExtractRows -----------------------------
(***************************************************************************)
(* The rows the scanner hands to the host for a transaction of the wallet. *)
(* Every managed address it touches has one row: what the address gave     *)
(* (from), what it got (to) and its kind. Where the trade order's shares   *)
(* were found right, the row of a funding address is rewritten: it gives   *)
(* its share, to the recipients in proportion, its change is taken out,    *)
(* and what it pays in fees becomes a row of its own.                      *)
(*                                                                         *)
(* With one row to an address, collapsing a payer's inputs and dropping    *)
(* its doubles (collapseSamePayerFromLegs, dedupeBTCPayerOutboundExtract-  *)
(* Items) leave the rows as they are. Funding addresses are managed.       *)
(***************************************************************************)
EXTENDS FeeAccounting

NoAmounts == [a \in {} |-> 0]

Touched(tx) == Managed \cap (Payers(tx.ins) \cup DOMAIN tx.outs)

Item(tx, a) ==
  [addr |-> a,
   kind |-> "item",
   from |-> Restrict([p \in Payers(tx.ins) |-> Vin(tx, p)], Payers(tx.ins) \cap {a}),
   to   |-> Restrict(tx.outs, DOMAIN tx.outs \cap {a})]

\* Mutant of OutboundTargets: change counts as a target.
EveryOutput(booked, order) == order

\* collectOutboundVoutTargets, in the order of the outputs.
OutboundTargets(booked, order) ==
  FoldLeft(LAMBDA targets, a : IF a \in booked THEN targets ELSE Append(targets, a),
           <<>>, order)

\* attachSendOutTargets: a share is split over the targets in proportion, the
\* last of them takes what is left; nothing is written for a target that gets none.
TargetParts(tx, share, targets) ==
  LET last == Len(targets)
      value == [i \in 1..last |-> tx.outs[targets[i]]]
      part == [i \in 1..(last - 1) |-> (share * value[i]) \div SumFunction(value)]
      parts == Append(part, share - SumFunction(part))
      paid == {i \in 1..last : parts[i] > 0}
  IN IF share = 0 THEN NoAmounts
     ELSE [a \in {targets[i] : i \in paid} |-> parts[CHOOSE i \in paid : targets[i] = a]]

\* Mutant of ExternalOutboundLegs: the change stays among the recipients.
ChangeKept(to, payer) == to

ExternalOutboundLegs(to, payer) == Restrict(to, DOMAIN to \ {payer})

\* The legs that attachSendOutTargets writes over those of the item.
Written(parts, to) ==
  [a \in DOMAIN parts \cup DOMAIN to |-> IF a \in DOMAIN parts THEN parts[a] ELSE to[a]]

\* normalizePayerOutboundLeg
SendRow(item, share, parts) ==
  [item EXCEPT !.from = [p \in {item.addr} |-> share],
               !.to = ExternalOutboundLegs(Written(parts, item.to), item.addr)]

FeeRow(p, fee) ==
  [addr |-> p, kind |-> "fee", from |-> [q \in {p} |-> fee], to |-> NoAmounts]

\* filterPayerSelfChangeReceive: who pays gets no receiving row beside it.
WithoutPayersReceiving(rows) ==
  {r \in rows : r.from = NoAmounts /\ r.to # NoAmounts =>
                  ~\E q \in rows : q.addr = r.addr /\ q.from # NoAmounts}

FollowsOrder(tx, sendOut) == RequiresAccounting(tx) /\ Reconciles(tx, sendOut)

\* appendBTCTransactionFeeItems, once a transaction is not refused; `order` is
\* the order of its outputs.
Rows(tx, sendOut, order) ==
  LET booked == IF FollowsOrder(tx, sendOut) THEN BookedPayers(tx, sendOut) ELSE {}
      fees == [p \in booked |-> FeeOf(tx, sendOut, p)]
      targets == OutboundTargets(booked, order)
      parts(p) == IF targets = <<>> THEN NoAmounts ELSE TargetParts(tx, sendOut[p], targets)
      rewritten == {p \in booked : sendOut[p] > 0 \/ fees[p] > 0}
  IN WithoutPayersReceiving(
       {Item(tx, a) : a \in Touched(tx) \ rewritten}
         \cup {SendRow(Item(tx, p), sendOut[p], parts(p)) : p \in rewritten}
         \cup {FeeRow(p, fees[p]) : p \in {q \in booked : fees[q] > 0}})

OutputOrders(tx) == SetToSeqs(DOMAIN tx.outs)

\* What a set of rows does to the balance the host keeps of an address.
Effect(rows, a) ==
  SumFunction([r \in {r \in rows : r.addr = a} |-> At(r.to, a) - At(r.from, a)])
=============================================================================
