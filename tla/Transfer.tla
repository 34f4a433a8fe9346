------------------------------ MODULE Transfer ------------------------------
(***************************************************************************)
(* The life of payments: the host drafts them (CreateRawTransaction, with  *)
(* or without speedUp, and CreateSummaryRawTransaction), submits them to   *)
(* the node and keeps a trade order for each; the node holds them in its   *)
(* mempool, replaces and mines them; the scanner reads block after block   *)
(* and extracts the rows by which the host keeps every address's balance.  *)
(*                                                                         *)
(* The node and the host are external: of the node's mempool only BIP125   *)
(* replacement is modelled, of the host the order and the balances.        *)
(***************************************************************************)
EXTENDS ExtractRows

CONSTANTS
  Genesis,      \* the coins of the wallet, all scanned
  Payments,     \* what the host may ask to pay: functions from address to amount
  Rates,        \* fee rates it may ask for, NotGiven for none
  NodeRates,    \* what estimatesmartfee and estimatefee may answer
  SpeedUps,     \* what it may ask for a replacement
  Sweeps,       \* summary addresses it may ask to collect its coins at
  MinTransfer,  \* the balance from which on an address is collected
  Incoming,     \* payments of others to the wallet
  MaxTxs,       \* transactions of one behaviour
  EnableRBF     \* Config.EnableRBF

ASSUME RBFAssumption == EnableRBF \in BOOLEAN
ASSUME TxsAssumption == MaxTxs \in Nat \ {0}

ASSUME ManagedAssumption ==
  IsFiniteSet(Managed) /\ Managed \subseteq STRING /\ NoAddress \notin Managed

ASSUME GenesisAssumption ==
  /\ IsFiniteSet(Genesis)
  /\ Genesis \subseteq [tx : {0}, out : STRING, addr : Managed, amount : Nat \ {0}]

\* Nothing that is paid is zero: the decoder refuses it, the network drops it.
ASSUME PaymentAssumption ==
  \A to \in Payments \cup Incoming :
    IsFiniteSet(DOMAIN to) /\ DOMAIN to # {} /\ to \in [DOMAIN to -> Nat \ {0}]

ASSUME RateAssumption ==
  /\ Rates \subseteq Nat \cup {NotGiven}
  /\ NodeRates \subseteq [smart : Int, legacy : Int]

ASSUME SpeedUpAssumption ==
  SpeedUps \subseteq [feeRate : Nat \cup {NotGiven}, baseFeeRate : Nat \cup {NotGiven},
                    feeBumpPercent : Nat, feeBumpWei : Int,
                    fromAddress : Managed \cup {NoAddress}]

VARIABLES
  txs,      \* every transaction drafted or seen, numbered
  status,   \* where each of them is
  chain,    \* the mined ones, one to a block
  orders,   \* those whose trade order the host has stored
  cursor,   \* blocks scanned
  raw,      \* the scanned payments whose rows do not follow their order
  ledger    \* the host's balance of every address of the account

scanner == <<cursor, raw, ledger>>
vars == <<txs, status, chain, orders, scanner>>

Statuses == {"draft", "pending", "mined", "evicted"}

Ids == DOMAIN txs
In(s) == {t \in Ids : status[t] = s}

Balance(coins, a) == SumFunction([c \in {c \in coins : c.addr = a} |-> c.amount])

Init ==
  /\ txs = <<>> /\ status = <<>> /\ chain = <<>>
  /\ orders = {}
  /\ cursor = 0 /\ raw = {}
  /\ ledger = [a \in Managed |-> Balance(Genesis, a)]

-----------------------------------------------------------------------------
(* The node's view of the coins.                                           *)

Spent(t) == ToSet(txs[t].ins)

\* The outputs of t, as coins.
Made(t) ==
  {[tx |-> t, out |-> a, addr |-> a, amount |-> txs[t].outs[a]] : a \in DOMAIN txs[t].outs}

\* Coins left by the transactions in T, the wallet's first coins included.
CoinsAfter(T) ==
  (Genesis \cup UNION {Made(t) : t \in T}) \ UNION {Spent(t) : t \in T}

Live == In("pending") \cup In("mined")

\* ListUnspent(0, addresses...) has unconfirmed coins too.
ListUnspent(confirms, addresses) ==
  {c \in CoinsAfter(Live) : c.addr \in addresses /\ (confirms > 0 => c.tx \notin In("pending"))}

GetBalance(a) == Balance(ListUnspent(0, {a}), a)

Conflicts(t) == {u \in In("pending") \ {t} : Spent(u) \cap Spent(t) # {}}

\* The transactions in T and all that spend what they make. A transaction is
\* numbered after those it spends from.
WithDescendants(T) ==
  LET gone[u \in Ids] == u \in T \/ \E c \in Spent(u) : c.tx \in 1..(u - 1) /\ gone[c.tx]
  IN {u \in In("pending") : gone[u]}

Vsize(t) == EstimateTxVsize(Len(txs[t].ins), Cardinality(DOMAIN txs[t].outs))

FeeSum(T) == SumFunction([u \in T |-> txs[u].fee])

PaysMorePerByte(t, u) == txs[t].fee * Vsize(u) > txs[u].fee * Vsize(t)

\* The node's policy, BIP125 included: a transaction pays for its own relay and
\* for all it evicts, and at a better rate than what it conflicts with.
Accepts(t) ==
  LET evicted == WithDescendants(Conflicts(t))
  IN /\ Spent(t) \subseteq CoinsAfter(Live \ evicted)
     /\ evicted # {} => EnableRBF
     /\ txs[t].fee >= FeeSum(evicted) + Vsize(t)
     /\ \A u \in Conflicts(t) : PaysMorePerByte(t, u)

-----------------------------------------------------------------------------
(* The host and the decoder.                                               *)

\* The record the model keeps of a raw transaction: what it replaces, and the fee
\* its builder knew the origin to pay.
Drafted(built, origin, paid) ==
  [ins |-> built.ins, to |-> built.to, outs |-> built.outs, fee |-> built.fee,
   sendOut |-> built.sendOut, origin |-> origin, paid |-> paid]

Draft(raws, origin, paid) ==
  /\ Len(txs) + Len(raws) <= MaxTxs
  /\ txs' = txs \o [i \in DOMAIN raws |-> Drafted(raws[i], origin, paid)]
  /\ status' = status \o [i \in DOMAIN raws |-> "draft"]
  /\ UNCHANGED <<chain, orders, scanner>>

\* The host may exclude the coins of payments it has not submitted yet.
Exclusions == {{}, UNION {Spent(t) : t \in In("draft")}}

CreateRawTransaction(to, rate) ==
  \E exclude \in Exclusions :
    \E made \in CreateBTCTransfer(ListUnspent(0, Managed) \ exclude, to, rate) :
      Draft(<<made>>, 0, 0)

\* The balances come in any order, the coins of an address in that of the node.
CreateSummaryRawTransaction(to, rate, confirms) ==
  LET collected == {a \in Managed : GetBalance(a) >= MinTransfer}
  IN \E exclude \in Exclusions, order \in SetToSeqs(collected) :
       LET coins == [i \in DOMAIN order |->
                       SetToSeq(ListUnspent(confirms, {order[i]}) \ exclude)]
           made == CreateBTCSummary(coins, to, rate)
       IN made # <<>> /\ Draft(made, 0, 0)

\* The fee of the origin is unknown (0) when getmempoolentry fails and the node
\* gives no amounts for its inputs.
SpeedUp(t, su, asked, paid) ==
  /\ EnableRBF
  /\ t \in Live
  /\ txs[t].to # NoAmounts
  /\ \E rate \in ApplySpeedUpFeeRate(su, asked) :
       \E made \in SpeedUpOf(txs[t].ins, txs[t].to, rate, su.fromAddress, paid) :
         Draft(<<made>>, t, paid)

Cancel(t, su, asked, paid) ==
  /\ EnableRBF
  /\ t \in Live
  /\ txs[t].ins # <<>>
  /\ \E rate \in ApplySpeedUpFeeRate(su, asked) :
       \E made \in CancelOf(txs[t].ins, rate, su.fromAddress, paid) :
         Draft(<<made>>, t, paid)

\* SendRawTransaction: what it replaces is evicted with all that depends on it.
Submit(t) ==
  /\ status[t] = "draft"
  /\ Accepts(t)
  /\ status' = [u \in Ids |-> IF u = t THEN "pending"
                             ELSE IF u \in WithDescendants(Conflicts(t)) THEN "evicted"
                             ELSE status[u]]
  /\ UNCHANGED <<txs, chain, orders, scanner>>

\* The host stores the order, payerSendOut with it, at its own pace. One that is
\* stored before it submits makes no difference: nothing looks at it till then.
RecordOrder(t) ==
  /\ t \notin orders
  /\ status[t] # "draft"
  /\ txs[t].ins # <<>>
  /\ orders' = orders \cup {t}
  /\ UNCHANGED <<txs, status, chain, scanner>>

-----------------------------------------------------------------------------
(* The chain.                                                              *)

Mine(t) ==
  /\ status[t] = "pending"
  /\ Spent(t) \subseteq CoinsAfter(In("mined"))
  /\ status' = [status EXCEPT ![t] = "mined"]
  /\ chain' = Append(chain, t)
  /\ UNCHANGED <<txs, orders, scanner>>

\* Somebody else pays to the wallet.
Receive(outs) ==
  /\ Len(txs) < MaxTxs
  /\ txs' = Append(txs, [ins |-> <<>>, to |-> NoAmounts, outs |-> outs, fee |-> 0,
                         sendOut |-> NotWritten, origin |-> 0, paid |-> 0])
  /\ status' = Append(status, "mined")
  /\ chain' = Append(chain, Len(txs) + 1)
  /\ UNCHANGED <<orders, scanner>>

-----------------------------------------------------------------------------
(* The scanner.                                                            *)

\* Mutant of Snapshot: a replacement is looked up under the payment it replaces.
SnapshotOfOrigin(t) ==
  LET first == IF txs[t].origin = 0 THEN t ELSE txs[t].origin
  IN IF first \in orders THEN txs[first].sendOut ELSE NotWritten

\* GetTradeOrderOutbound: nothing while the order is not stored.
Snapshot(t) == IF t \in orders THEN txs[t].sendOut ELSE NotWritten

Extractable(t) == RequiresAccounting(txs[t]) => Reconciles(txs[t], Snapshot(t))

\* The next block. One that fails moves nothing: the cursor stays before it. The
\* order is looked up again before the rows are written, and without an answer
\* then they are left as they are.
ScanBlock ==
  /\ cursor < Len(chain)
  /\ LET t == chain[cursor + 1]
     IN /\ Extractable(t)
        /\ \E again \in {Snapshot(t), NotWritten}, order \in OutputOrders(txs[t]) :
             LET rows == Rows(txs[t], again, order)
             IN /\ ledger' = [a \in Managed |-> ledger[a] + Effect(rows, a)]
                /\ raw' = IF RequiresAccounting(txs[t]) /\ again = NotWritten
                            THEN raw \cup {t} ELSE raw
  /\ cursor' = cursor + 1
  /\ UNCHANGED <<txs, status, chain, orders>>

-----------------------------------------------------------------------------
Wallet ==
  \E asked \in Rates, answer \in NodeRates :
    LET rate == RateOf(asked, answer)
    IN \/ \E to \in Payments : CreateRawTransaction(to, rate)
       \/ \E to \in Sweeps, confirms \in {0, 1} : CreateSummaryRawTransaction(to, rate, confirms)
       \/ \E t \in Ids, su \in SpeedUps :
            \E paid \in {txs[t].fee, 0} :
              SpeedUp(t, su, asked, paid) \/ Cancel(t, su, asked, paid)

Network ==
  \/ \E t \in Ids : Submit(t)
  \/ \E t \in Ids : Mine(t)
  \/ \E outs \in Incoming : Receive(outs)

Next ==
  \/ Wallet
  \/ Network
  \/ \E t \in Ids : RecordOrder(t)
  \/ ScanBlock

Spec == Init /\ [][Next]_vars

(***************************************************************************)
(* The scan loop comes back to a failed block for ever (see ScanLoop), the *)
(* host stores the order of what it has submitted and answers in the end.  *)
(***************************************************************************)
Fairness ==
  /\ WF_vars(ScanBlock)
  /\ \A t \in 1..MaxTxs : WF_vars(t \in Ids /\ RecordOrder(t))

FairSpec == Spec /\ Fairness

-----------------------------------------------------------------------------
(* Properties.                                                             *)

Addresses == Managed \cup Sweeps \cup UNION {DOMAIN to : to \in Payments \cup Incoming}

\* A payment of amounts to some of the addresses.
IsPaying(f, addresses) == DOMAIN f \subseteq addresses /\ \A a \in DOMAIN f : f[a] \in Nat

TypeOK ==
  /\ \A t \in Ids :
       /\ txs[t].ins \in Seq([tx : 0..MaxTxs, out : STRING, addr : Managed, amount : Nat])
       /\ IsPaying(txs[t].to, Addresses)
       /\ IsPaying(txs[t].outs, Addresses)
       /\ IsPaying(txs[t].sendOut, Payers(txs[t].ins))
       /\ txs[t].fee \in Nat /\ txs[t].paid \in Nat
       /\ txs[t].origin \in 0..(t - 1)
  /\ status \in Seq(Statuses) /\ Len(status) = Len(txs)
  /\ chain \in Seq(In("mined"))
  /\ orders \subseteq Ids
  /\ cursor \in 0..Len(chain)
  /\ raw \subseteq {chain[i] : i \in 1..cursor}
  /\ ledger \in [Managed -> Int]

Scanned == {chain[i] : i \in 1..cursor}

\* The books follow the chain: the balance the host keeps by the extracted rows
\* is, for every address, what the scanned part of the chain leaves it.
LedgerMatchesChain == \A a \in Managed : ledger[a] = Balance(CoinsAfter(Scanned), a)

\* What rows of payers say that an address got.
SaidToGet(rows, a) ==
  SumFunction([r \in {r \in rows : r.from # NoAmounts} |-> At(r.to, a)])

\* The shares of all payers, split over the recipients and rounded each time,
\* still give every recipient what the chain gave it, up to a satoshi for every
\* payer and further recipient.
RecipientsGetTheirs ==
  \A t \in Scanned \ raw : RequiresAccounting(txs[t]) =>
    LET payers == BookedPayers(txs[t], txs[t].sendOut)
        recipients == DOMAIN txs[t].outs \ payers
        slack == Tolerance + Cardinality(payers) * (Cardinality(recipients) - 1)
    IN \A order \in OutputOrders(txs[t]), a \in recipients :
         SaidToGet(Rows(txs[t], txs[t].sendOut, order), a) - Vout(txs[t], a) \in -slack..slack

\* "one Mongo query per tx": whatever was let pass is booked by its order.
OrderIsFollowed == raw = {}

\* The fee a raw transaction reports is the one its inputs and outputs pay.
FeeIsWhatIsPaid ==
  \A t \in Ids : txs[t].ins # <<>> =>
    Total(txs[t].ins) - SumFunction(txs[t].outs) = txs[t].fee

Fresh(t) == txs[t].origin = 0 /\ txs[t].ins # <<>>

\* Of a payment to others, change never exceeds what its receiver put in: the
\* scanner would refuse it as a credit to a sibling.
ChangeFitsPayer ==
  \A t \in Ids : Fresh(t) =>
    \A p \in Payers(txs[t].ins) \ DOMAIN txs[t].to : Vout(txs[t], p) < Vin(txs[t], p)

\* A replacement of what pays to others, built while the origin's fee is known, is
\* taken by the node as long as the origin is pending and nothing spends from it:
\* it pays enough more, in all and per byte, whatever became of its change.
ReplacementAccepted ==
  \A t \in In("draft") :
    LET origin == txs[t].origin
    IN /\ origin \in In("pending")
       /\ txs[t].paid = txs[origin].fee
       /\ DOMAIN txs[origin].to \cap Managed = {}
       /\ WithDescendants({origin}) = {origin}
       => Accepts(t)

PaysOthers(t) == txs[t].ins # <<>> /\ Payers(txs[t].ins) \cap DOMAIN txs[t].to = {}

CanBeBooked(t) == RequiresAccounting(txs[t]) => Reconciles(txs[t], txs[t].sendOut)

\* What is not sent returns to who paid.
ReturnsToPayers(t) ==
  \A a \in DOMAIN txs[t].outs \ Payers(txs[t].ins) : Vout(txs[t], a) = At(txs[t].to, a)

\* What one address funds and pays to others can be booked; so can what replaces
\* it, unless the host has the change sent to another address.
OnePayerCanBeBooked ==
  \A t \in Ids :
    /\ PaysOthers(t) /\ ReturnsToPayers(t)
    /\ Cardinality(Payers(txs[t].ins)) = 1
    => CanBeBooked(t)

\* So can what two addresses fund with a coin each.
TwoPayersCanBeBooked ==
  \A t \in Ids :
    /\ Fresh(t) /\ PaysOthers(t)
    /\ Len(txs[t].ins) = 2 /\ Cardinality(Payers(txs[t].ins)) = 2
    => CanBeBooked(t)

\* What an address gives and does not get back.
Given(t, p) == Vin(txs[t], p) - Vout(txs[t], p)

SharesFit(t) ==
  /\ DOMAIN txs[t].sendOut = Payers(txs[t].ins)
  /\ \A p \in Payers(txs[t].ins) : txs[t].sendOut[p] <= Given(t, p)

\* Of a payment to others, or a replacement, that returns what is left to who paid,
\* the order is refused just when it is missing or charges an address with more
\* than it gave: the sums always close, by whichever rule the shares were made.
RefusedIfOvercharged ==
  \A t \in Ids :
    PaysOthers(t) /\ ReturnsToPayers(t) /\ RequiresAccounting(txs[t]) =>
      (Reconciles(txs[t], txs[t].sendOut) <=> SharesFit(t))

\* The first of several to fund does not get more back than the payment leaves of
\* what it put in, and the last gives enough for the roundings of all the others:
\* its part of the fee is a satoshi for each of them but one.
LeavesRoom(t) ==
  LET order == PayerOrder(txs[t].ins)
      send == SumFunction(txs[t].to)
  IN /\ Vin(txs[t], Head(order)) >= send => Given(t, Head(order)) >= send
     /\ txs[t].fee * Given(t, Last(order)) >= (Len(order) - 2) * (send + txs[t].fee)

\* Then what any number of addresses fund with any coins can be booked.
PayersWithRoomCanBeBooked ==
  \A t \in Ids :
    /\ Fresh(t) /\ PaysOthers(t)
    /\ Cardinality(Payers(txs[t].ins)) >= 2 /\ LeavesRoom(t)
    => CanBeBooked(t)

\* "fee_i = (vin_i - change_i) - sendOut_i" closes for every payment to others.
TransferCanBeBooked == \A t \in Ids : Fresh(t) /\ PaysOthers(t) => CanBeBooked(t)

\* A replacement of a payment that can be booked can be booked.
ReplacementCanBeBooked ==
  \A t \in Ids :
    /\ txs[t].origin # 0 /\ PaysOthers(t)
    /\ CanBeBooked(txs[t].origin)
    => CanBeBooked(t)

\* A block is scanned in the end when its payment, and those before it, can be
\* booked, however late their orders are stored.
MinedIsScanned ==
  \A n \in 1..MaxTxs :
    (Len(chain) >= n /\ \A i \in 1..n : CanBeBooked(chain[i])) ~> (cursor >= n)
=============================================================================
