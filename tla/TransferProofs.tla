-------------------------- MODULE TransferProofs --------------------------
(***************************************************************************)
(* What holds of the life of payments, for all coins, payments, rates and  *)
(* replacements: transactions balance, no coin is spent twice, the books   *)
(* follow the chain, a replacement is taken by the node, and the order of  *)
(* a payment is booked unless it charges an address with more than it gave. *)
(***************************************************************************)
EXTENDS Transfer, TxBuildProofs, SequenceTheorems

-----------------------------------------------------------------------------
(* The inductive invariant.                                                *)

(* The coins transaction t may spend: none of later ones, nor of itself.   *)
CoinsBefore(t) == [tx : 0..(t - 1), out : STRING, addr : Managed, amount : Nat \ {0}]

(* A payment of others.                                                    *)
IsReceived(tx) ==
  /\ tx.ins = <<>> /\ tx.to = NoAmounts /\ tx.outs \in Incoming /\ tx.fee = 0
  /\ tx.sendOut = NotWritten /\ tx.origin = 0 /\ tx.paid = 0

(* What a builder makes of some of the coins, no coin twice.               *)
IsBuilt(tx, coins) ==
  /\ Balanced(tx, Managed)
  /\ tx.ins \in Seq(coins) /\ tx.ins # <<>> /\ Distinct(tx.ins)
  /\ DOMAIN tx.to \subseteq Addresses

IsFresh(tx) == DOMAIN tx.to # {} /\ Fits(tx) /\ ReturnsToLast(tx)

(* A payment of the account's.                                             *)
IsOwn(tx, t) ==
  /\ IsBuilt(tx, CoinsBefore(t))
  /\ tx.paid \in Nat /\ tx.origin \in 0..(t - 1)
  /\ tx.origin = 0 => IsFresh(tx)

(* A replacement spends what its origin spends, pays what it pays or       *)
(* nothing, and pays for its own relay on top of the fee it is told of.    *)
Replaces(tx, origin) ==
  /\ EnableRBF
  /\ tx.ins = origin.ins
  /\ tx.to = origin.to \/ (tx.to = NoAmounts /\ Cardinality(DOMAIN tx.outs) = 1)
  /\ tx.paid # 0 => \/ tx.fee >= tx.paid + Size(tx)
                    \/ tx.to = origin.to /\ ~(OmitChangeBelowDust /\ DustLimit >= 31)

TxsInv ==
  /\ txs \in Seq(ToSet(txs))
  /\ \A t \in Ids : IsReceived(txs[t]) \/ IsOwn(txs[t], t)
  /\ \A t \in Ids : txs[t].origin # 0 => Replaces(txs[t], txs[txs[t].origin])

StatusInv ==
  /\ Len(txs) <= MaxTxs
  /\ status \in Seq(Statuses) /\ Len(status) = Len(txs)
  /\ chain \in Seq(Ids) /\ Distinct(chain) /\ ToSet(chain) = In("mined")
  /\ orders \subseteq Ids
  /\ cursor \in 0..Len(chain)
  /\ raw \subseteq Scanned

(* No two live transactions spend the same coin, and none spends a coin    *)
(* that is not made by a live one; its own fee pays for its relay.         *)
LiveInv ==
  \A u \in Live :
    /\ Spent(u) \subseteq CoinsAfter(Live \ {u})
    /\ txs[u].ins # <<>> => txs[u].fee >= Size(txs[u])

(* A mined transaction spends what those mined before it leave.            *)
ChainInv ==
  \A i \in DOMAIN chain : Spent(chain[i]) \subseteq CoinsAfter({chain[j] : j \in 1..(i - 1)})

BooksInv == ledger \in [Managed -> Int] /\ LedgerMatchesChain
-----------------------------------------------------------------------------
(* Sets as sequences, and rates.                                           *)

LEMMA SetToSeqFacts ==
  ASSUME NEW S, IsFiniteSet(S)
  PROVE  SetToSeq(S) \in Seq(S) /\ Distinct(SetToSeq(S)) /\ ToSet(SetToSeq(S)) = S
<1> DEFINE n == Cardinality(S)
<1>1. n \in Nat /\ ExistsBijection(1..n, S)
      BY FS_CardinalityType
<1>2. PICK f \in Bijection(1..n, S) : TRUE
      BY <1>1 DEF ExistsBijection
<1>3. f \in [1..n -> S] /\ IsInjective(f)
      BY <1>2 DEF Bijection, Injection
<1> DEFINE s == SetToSeq(S)
<1>4. s \in [1..n -> S] /\ IsInjective(s)
      BY <1>3 DEF SetToSeq
<1>5. IsFiniteSet(1..n) /\ Cardinality(1..n) = n
      BY <1>1, FS_Interval, 1 \in Int /\ n \in Int
<1>6. s \in Injection(1..n, S)
      BY <1>4 DEF Injection
<1>7. s \in Surjection(1..n, S)
      BY <1>5, <1>6, FS_Injection
<1>8. s \in Seq(S) /\ DOMAIN s = 1..n
      BY <1>1, <1>4
<1>9. Distinct(s)
      BY <1>4 DEF IsInjective, Distinct
<1>10. ToSet(s) = S
       BY <1>7, <1>8 DEF ToSet, Surjection
<1> QED
    BY <1>8, <1>9, <1>10

LEMMA SetToSeqsFacts ==
  ASSUME NEW S, IsFiniteSet(S), NEW order \in SetToSeqs(S)
  PROVE  order \in Seq(S) /\ Distinct(order) /\ DOMAIN order = 1..Len(order)
<1>1. Cardinality(S) \in Nat
      BY FS_CardinalityType
<1>2. order \in [1..Cardinality(S) -> S]
      BY DEF SetToSeqs
<1>3. order \in Seq(S)
      BY <1>1, <1>2
<1>4. Distinct(order)
      BY DEF SetToSeqs, Distinct
<1> QED
    BY <1>3, <1>4

LEMMA FallbackType == FallbackFeeRate \in Nat
BY FeesAssumption DEF FallbackFeeRate

LEMMA RateOfType ==
  ASSUME NEW asked \in Rates, NEW answer \in NodeRates
  PROVE  RateOf(asked, answer) \in Nat
<1>1. asked \in Nat \cup {NotGiven} /\ answer.smart \in Int /\ answer.legacy \in Int
      BY RateAssumption
<1>2. FallbackFeeRate \in Int /\ FallbackFeeRate \in Nat
      BY FallbackType
<1>3. ASSUME NEW rate \in Int PROVE EnforceMinFeeRate(rate) \in Nat
  <2>1. \/ Max({rate, FallbackFeeRate}) = rate \/ Max({rate, FallbackFeeRate}) = FallbackFeeRate
        BY <1>2, <1>3, MaxOfTwo
  <2>2. Max({rate, FallbackFeeRate}) >= FallbackFeeRate
        BY <1>2, <1>3, MaxOfTwo
  <2>3. Max({rate, FallbackFeeRate}) \in Nat
    <3> DEFINE m == Max({rate, FallbackFeeRate})
    <3> HIDE DEF m
    <3> QED
        BY <1>2, <1>3, <2>1, <2>2 DEF m
  <2> QED
      BY <2>3 DEF EnforceMinFeeRate
<1>4. EstimateFeeRate(answer) \in Nat
      BY <1>1, <1>2, <1>3 DEF EstimateFeeRate
<1> QED
    BY <1>1, <1>4 DEF RateOf

LEMMA SpeedUpRateType ==
  ASSUME NEW su \in SpeedUps, NEW asked \in Nat \cup {NotGiven}, NEW rate \in ApplySpeedUpFeeRate(su, asked)
  PROVE  rate \in Nat
<1>1. /\ su.feeRate \in Nat \cup {NotGiven} /\ su.baseFeeRate \in Nat \cup {NotGiven}
      /\ su.feeBumpPercent \in Nat
      /\ su.feeBumpWei \in Int
      BY SpeedUpAssumption
<1> DEFINE base == IF su.baseFeeRate = NotGiven THEN asked ELSE su.baseFeeRate
           percent == 100 + su.feeBumpPercent
           bumped == (base * percent + 50) \div 100 + su.feeBumpWei
<1>2. base \in Int /\ percent \in Nat
      BY <1>1 DEF NotGiven
<1>3. (base * percent + 50) \div 100 \in Int
  <2> HIDE DEF base, percent
  <2>1. base * percent \in Int
        BY <1>2
  <2> DEFINE product == base * percent
  <2> HIDE DEF product
  <2>2. product \in Int
        BY <2>1 DEF product
  <2>3. (product + 50) \div 100 \in Int
        BY <2>2
  <2> QED
      BY <2>3 DEF product
<1>4. bumped \in Int
  <2> HIDE DEF base, percent
  <2> QED
      BY <1>1, <1>3
<1>5. rate \in {IF su.feeRate = NotGiven THEN bumped ELSE su.feeRate} /\ rate > 0
      BY Zenon DEF ApplySpeedUpFeeRate
<1>6. rate \in Int
  <2> HIDE DEF base, bumped
  <2> QED
      BY <1>1, <1>4, <1>5
<1> QED
    BY <1>5, <1>6
-----------------------------------------------------------------------------
(* Transactions and their coins.                                           *)

LEMMA OutputsPositive ==
  ASSUME NEW tx, NEW t, IsReceived(tx) \/ IsOwn(tx, t)
  PROVE  IsPositive(tx.outs) /\ DOMAIN tx.outs \subseteq Addresses
<1>1. CASE IsReceived(tx)
  <2>1. tx.outs \in Incoming
        BY <1>1 DEF IsReceived
  <2>2. IsFiniteSet(DOMAIN tx.outs) /\ tx.outs \in [DOMAIN tx.outs -> Nat \ {0}]
        BY <2>1, PaymentAssumption
  <2>3. DOMAIN tx.outs \subseteq Addresses
        BY <2>1 DEF Addresses
  <2> QED
      BY <2>2, <2>3 DEF IsPositive
<1>2. CASE IsOwn(tx, t)
  <2>1. Balanced(tx, Managed) /\ DOMAIN tx.to \subseteq Addresses
        BY <1>2 DEF IsOwn, IsBuilt
  <2>2. IsPositive(tx.outs) /\ DOMAIN tx.outs \subseteq DOMAIN tx.to \cup Managed
        BY <2>1, BalancedOutputs
  <2> QED
      BY <2>1, <2>2 DEF Addresses
<1> QED
    BY <1>1, <1>2

LEMMA IdsFacts ==
  ASSUME TxsInv
  PROVE  Len(txs) \in Nat /\ Ids = 1..Len(txs) /\ Ids \subseteq Nat \ {0} /\ IsFiniteSet(Ids)
<1>1. Len(txs) \in Nat /\ Ids = 1..Len(txs)
      BY DEF TxsInv, Ids
<1>2. IsFiniteSet(1..Len(txs))
      BY <1>1, 1 \in Int /\ Len(txs) \in Int, FS_Interval
<1> QED
    BY <1>1, <1>2

LEMMA MadeFacts ==
  ASSUME TxsInv, NEW t \in Ids
  PROVE  /\ IsFiniteSet(Made(t))
         /\ \A c \in Made(t) : /\ c.tx = t /\ c.out = c.addr /\ c.addr \in DOMAIN txs[t].outs
                               /\ c.amount = txs[t].outs[c.addr] /\ c.amount \in Nat \ {0}
                               /\ c.addr \in Managed => c \in CoinsBefore(Len(txs) + 1)
<1> DEFINE outs == txs[t].outs
           coin(a) == [tx |-> t, out |-> a, addr |-> a, amount |-> outs[a]]
<1>1. IsPositive(outs)
  <2>1. IsReceived(txs[t]) \/ IsOwn(txs[t], t)
        BY DEF TxsInv
  <2> QED
      BY <2>1, OutputsPositive
<1>2. IsFiniteSet(DOMAIN outs) /\ \A a \in DOMAIN outs : outs[a] \in Nat \ {0}
      BY <1>1 DEF IsPositive
<1>3. Made(t) = {coin(a) : a \in DOMAIN outs}
      BY DEF Made
<1>4. [a \in DOMAIN outs |-> coin(a)] \in Surjection(DOMAIN outs, Made(t))
      BY <1>3 DEF Surjection
<1>5. IsFiniteSet(Made(t))
      BY <1>2, <1>4, FS_Surjection
<1>6. t \in 0..((Len(txs) + 1) - 1)
      BY IdsFacts
<1>7. ASSUME NEW a \in DOMAIN outs
      PROVE  /\ coin(a).tx = t /\ coin(a).out = coin(a).addr /\ coin(a).addr \in DOMAIN outs
             /\ coin(a).amount = outs[coin(a).addr] /\ coin(a).amount \in Nat \ {0}
             /\ coin(a).addr \in Managed => coin(a) \in CoinsBefore(Len(txs) + 1)
      BY <1>2, <1>6, ManagedAssumption DEF CoinsBefore
<1> QED
    BY <1>3, <1>5, <1>7

LEMMA SpentFacts ==
  ASSUME TxsInv, NEW t \in Ids
  PROVE  Spent(t) \subseteq CoinsBefore(t) /\ IsFiniteSet(Spent(t))
<1> DEFINE ins == txs[t].ins
<1>1. \E S \in SUBSET CoinsBefore(t) : ins \in Seq(S)
  <2>1. CASE IsReceived(txs[t])
        BY <2>1 DEF IsReceived
  <2>2. CASE IsOwn(txs[t], t)
        BY <2>2 DEF IsOwn, IsBuilt
  <2> QED
      BY <2>1, <2>2 DEF TxsInv
<1>2. PICK S \in SUBSET CoinsBefore(t) : ins \in Seq(S)
      BY <1>1
<1>3. Len(ins) \in Nat /\ DOMAIN ins = 1..Len(ins) /\ \A i \in DOMAIN ins : ins[i] \in S
      BY <1>2
<1>4. IsFiniteSet(DOMAIN ins)
      BY <1>3, 1 \in Int /\ Len(ins) \in Int, FS_Interval
<1>5. [i \in DOMAIN ins |-> ins[i]] \in Surjection(DOMAIN ins, Spent(t))
      BY DEF Surjection, Spent, ToSet
<1>6. IsFiniteSet(Spent(t))
      BY <1>4, <1>5, FS_Surjection
<1>7. Spent(t) \subseteq CoinsBefore(t)
      BY <1>3 DEF Spent, ToSet
<1> QED
    BY <1>6, <1>7

LEMMA CoinsAfterFacts ==
  ASSUME TxsInv, NEW T, T \subseteq Ids
  PROVE  /\ IsFiniteSet(CoinsAfter(T))
         /\ \A c \in CoinsAfter(T) :
              /\ c.amount \in Nat \ {0}
              /\ \/ c \in Genesis /\ c.tx = 0
                 \/ \E t \in T : c \in Made(t) /\ c.tx = t
              /\ c.addr \in Managed => c \in CoinsBefore(Len(txs) + 1)
<1>1. IsFiniteSet(T)
      BY IdsFacts, FS_Subset
<1>2. IsFiniteSet({Made(t) : t \in T})
  <2>1. [t \in T |-> Made(t)] \in Surjection(T, {Made(t) : t \in T})
        BY DEF Surjection
  <2> QED
      BY <1>1, <2>1, FS_Surjection
<1>3. \A M \in {Made(t) : t \in T} : IsFiniteSet(M)
      BY MadeFacts
<1>4. IsFiniteSet(UNION {Made(t) : t \in T})
      BY <1>2, <1>3, FS_UNION
<1>5. IsFiniteSet(Genesis \cup UNION {Made(t) : t \in T})
      BY <1>4, GenesisAssumption, FS_Union
<1>6. CoinsAfter(T) \subseteq Genesis \cup UNION {Made(t) : t \in T}
      BY DEF CoinsAfter
<1>7. IsFiniteSet(CoinsAfter(T))
      BY <1>5, <1>6, FS_Subset
<1>8. ASSUME NEW c \in Genesis
      PROVE  c.amount \in Nat \ {0} /\ c.tx = 0 /\ c \in CoinsBefore(Len(txs) + 1)
  <2>1. c \in [tx : {0}, out : STRING, addr : Managed, amount : Nat \ {0}]
        BY GenesisAssumption
  <2>2. 0 \in 0..((Len(txs) + 1) - 1)
        BY IdsFacts
  <2> QED
      BY <2>1, <2>2 DEF CoinsBefore
<1>9. ASSUME NEW t \in T, NEW c \in Made(t)
      PROVE  /\ c.amount \in Nat \ {0} /\ c.tx = t
             /\ c.addr \in Managed => c \in CoinsBefore(Len(txs) + 1)
      BY MadeFacts
<1>10. \A c \in CoinsAfter(T) : c \in Genesis \/ \E t \in T : c \in Made(t)
       BY <1>6
<1> QED
    BY <1>7, <1>8, <1>9, <1>10
-----------------------------------------------------------------------------
(* Drafting.                                                               *)

(* The transactions so far stay as they are, and where they are.           *)
Extended ==
  /\ Len(txs) \in Nat /\ Len(txs') \in Nat /\ Len(txs) <= Len(txs')
  /\ Ids = 1..Len(txs) /\ Ids' = 1..Len(txs')
  /\ txs' \in Seq(ToSet(txs'))
  /\ \A t \in Ids : txs'[t] = txs[t]

(* A step that drafts: the new ones are drafts.                            *)
DraftStep ==
  /\ Extended /\ Len(txs') <= MaxTxs
  /\ status' \in Seq(Statuses) /\ Len(status') = Len(txs')
  /\ \A t \in Ids : status'[t] = status[t]
  /\ \A t \in Ids' \ Ids : status'[t] = "draft"
  /\ UNCHANGED <<chain, orders, scanner>>

LEMMA SequenceOfItself ==
  ASSUME NEW S, NEW s \in Seq(S)
  PROVE  s \in Seq(ToSet(s))
<1>1. Len(s) \in Nat /\ s \in [1..Len(s) -> S]
      OBVIOUS
<1>2. s \in [1..Len(s) -> ToSet(s)]
      BY <1>1 DEF ToSet
<1> QED
    BY <1>1, <1>2

LEMMA OwnLater ==
  ASSUME NEW tx, NEW t \in Nat, NEW u \in Nat, t <= u, IsOwn(tx, t)
  PROVE  IsOwn(tx, u)
<1>1. 0..(t - 1) \subseteq 0..(u - 1)
      OBVIOUS
<1>2. CoinsBefore(t) \subseteq CoinsBefore(u)
      BY <1>1 DEF CoinsBefore
<1>3. tx.ins \in Seq(CoinsBefore(u))
      BY <1>2, SeqMonotonic DEF IsOwn, IsBuilt
<1> QED
    BY <1>1, <1>3 DEF IsOwn, IsBuilt

LEMMA DraftFacts ==
  ASSUME TxsInv, StatusInv, NEW S, NEW raws \in Seq(S), NEW origin, NEW paid,
         Draft(raws, origin, paid)
  PROVE  /\ DraftStep /\ Len(txs') = Len(txs) + Len(raws)
         /\ \A i \in 1..Len(raws) : txs'[Len(txs) + i] = Drafted(raws[i], origin, paid)
<1> DEFINE new == [i \in DOMAIN raws |-> Drafted(raws[i], origin, paid)]
           marks == [i \in DOMAIN raws |-> "draft"]
           V == ToSet(txs) \cup ToSet(new)
<1>1. Len(raws) \in Nat /\ DOMAIN raws = 1..Len(raws)
      OBVIOUS
<1>2. new \in Seq(ToSet(new)) /\ Len(new) = Len(raws)
  <2>1. new \in [1..Len(raws) -> ToSet(new)]
        BY <1>1 DEF ToSet
  <2> QED
      BY <1>1, <2>1
<1>3. txs \in Seq(V) /\ new \in Seq(V)
      BY <1>2, SeqMonotonic DEF TxsInv
<1>4. txs' = txs \o new /\ status' = status \o marks
      BY DEF Draft
<1>5. /\ txs' \in Seq(V) /\ Len(txs') = Len(txs) + Len(raws)
      /\ \A i \in 1..(Len(txs) + Len(raws)) :
           txs'[i] = IF i <= Len(txs) THEN txs[i] ELSE new[i - Len(txs)]
  <2> HIDE DEF new, V
  <2>1. txs \o new \in Seq(V) /\ Len(txs \o new) = Len(txs) + Len(new)
        BY <1>3, ConcatProperties
  <2>2. \A i \in 1..(Len(txs) + Len(new)) :
          (txs \o new)[i] = IF i <= Len(txs) THEN txs[i] ELSE new[i - Len(txs)]
        BY <1>3, ConcatProperties
  <2> QED
      BY <1>2, <1>4, <2>1, <2>2
<1>6. Len(txs) \in Nat /\ Ids = 1..Len(txs) /\ Ids' = 1..Len(txs')
      BY <1>5, IdsFacts DEF Ids
<1>7. marks \in Seq(Statuses) /\ Len(marks) = Len(raws)
  <2>1. marks \in [1..Len(raws) -> Statuses]
        BY <1>1 DEF Statuses
  <2> QED
      BY <1>1, <2>1
<1>8. /\ status' \in Seq(Statuses) /\ Len(status') = Len(status) + Len(raws)
      /\ \A i \in 1..(Len(status) + Len(raws)) :
           status'[i] = IF i <= Len(status) THEN status[i] ELSE marks[i - Len(status)]
  <2> HIDE DEF marks
  <2> QED
      BY <1>4, <1>7, ConcatProperties DEF StatusInv
<1>9. Len(status) = Len(txs)
      BY DEF StatusInv
<1>10. txs' \in Seq(ToSet(txs'))
       BY <1>5, SequenceOfItself
<1>11. \A t \in Ids : txs'[t] = txs[t] /\ status'[t] = status[t]
  <2> TAKE t \in Ids
  <2>1. t \in 1..(Len(txs) + Len(raws)) /\ t <= Len(txs)
        BY <1>1, <1>6
  <2>2. txs'[t] = txs[t]
        BY <1>5, <2>1
  <2>3. status'[t] = status[t]
        BY <1>8, <1>9, <2>1
  <2> QED
      BY <2>2, <2>3
<1>12. ASSUME NEW i \in 1..Len(raws)
       PROVE  txs'[Len(txs) + i] = Drafted(raws[i], origin, paid)
  <2>1. /\ Len(txs) + i \in 1..(Len(txs) + Len(raws)) /\ ~(Len(txs) + i <= Len(txs))
        /\ (Len(txs) + i) - Len(txs) = i
        BY <1>1, <1>6
  <2>2. txs'[Len(txs) + i] = new[i]
        BY <1>5, <2>1
  <2> QED
      BY <1>1, <2>2
<1>13. ASSUME NEW t \in Ids' \ Ids
       PROVE  status'[t] = "draft"
  <2>1. t \in 1..(Len(txs) + Len(raws)) /\ ~(t <= Len(txs)) /\ t - Len(txs) \in 1..Len(raws)
        BY <1>1, <1>5, <1>6
  <2>2. status'[t] = marks[t - Len(txs)]
        BY <1>8, <1>9, <2>1
  <2> QED
      BY <1>1, <2>1, <2>2
<1>14. Extended
       BY <1>1, <1>5, <1>6, <1>10, <1>11 DEF Extended
<1>15. Len(txs') <= MaxTxs /\ UNCHANGED <<chain, orders, scanner>>
       BY <1>5 DEF Draft
<1>16. DraftStep
       BY <1>5, <1>8, <1>9, <1>11, <1>13, <1>14, <1>15 DEF DraftStep
<1> QED
    BY <1>5, <1>12, <1>16

(* What is drafted of the coins there are is a payment of the account's.   *)
LEMMA DraftKeepsTxs ==
  ASSUME TxsInv, StatusInv, NEW S, NEW raws \in Seq(S), NEW origin, NEW paid,
         Draft(raws, origin, paid),
         \A i \in 1..Len(raws) : IsOwn(Drafted(raws[i], origin, paid), Len(txs) + 1),
         origin # 0 => \A i \in 1..Len(raws) :
                         Replaces(Drafted(raws[i], origin, paid), txs[origin])
  PROVE  TxsInv' /\ DraftStep
<1>0. DraftStep
      BY DraftFacts
<1>1. /\ Extended /\ Len(txs') = Len(txs) + Len(raws)
      /\ \A i \in 1..Len(raws) : txs'[Len(txs) + i] = Drafted(raws[i], origin, paid)
      BY <1>0, DraftFacts DEF DraftStep
<1>2. Len(raws) \in Nat
      OBVIOUS
<1>3. ASSUME NEW t \in Ids
      PROVE  /\ txs'[t] = txs[t]
             /\ IsReceived(txs'[t]) \/ IsOwn(txs'[t], t)
             /\ txs'[t].origin # 0 => Replaces(txs'[t], txs'[txs'[t].origin])
  <2>1. txs'[t] = txs[t]
        BY <1>1 DEF Extended
  <2>2. IsReceived(txs[t]) \/ IsOwn(txs[t], t)
        BY DEF TxsInv
  <2>3. txs[t].origin \in 0..(t - 1)
        BY <2>2, IdsFacts DEF IsReceived, IsOwn
  <2>4. txs[t].origin # 0 => txs[t].origin \in Ids
        BY <2>3, IdsFacts
  <2>5. txs[t].origin # 0 => Replaces(txs[t], txs[txs[t].origin])
        BY DEF TxsInv
  <2> QED
      BY <1>1, <2>1, <2>2, <2>4, <2>5 DEF Extended
<1>4. ASSUME NEW t \in Ids' \ Ids
      PROVE  /\ IsOwn(txs'[t], t)
             /\ txs'[t].origin # 0 => Replaces(txs'[t], txs'[txs'[t].origin])
  <2> DEFINE i == t - Len(txs)
  <2>1. i \in 1..Len(raws) /\ t = Len(txs) + i /\ Len(txs) + 1 <= t /\ t \in Nat
        BY <1>1, <1>2 DEF Extended
  <2>2. txs'[t] = Drafted(raws[i], origin, paid)
        BY <1>1, <2>1
  <2>3. IsOwn(txs'[t], Len(txs) + 1)
        BY <2>1, <2>2
  <2>4. IsOwn(txs'[t], t)
        BY <2>1, <2>3, Len(txs) + 1 \in Nat, IdsFacts, OwnLater
  <2>5. txs'[t].origin = origin
        BY <2>2 DEF Drafted
  <2>6. origin \in 0..Len(txs)
        BY <2>3, <2>5, IdsFacts DEF IsOwn
  <2>7. origin # 0 => origin \in Ids /\ txs'[origin] = txs[origin]
        BY <1>1, <2>6, IdsFacts DEF Extended
  <2>8. origin # 0 => Replaces(txs'[t], txs[origin])
        BY <2>1, <2>2
  <2> QED
      BY <2>4, <2>5, <2>7, <2>8
<1>5. /\ txs' \in Seq(ToSet(txs')) /\ Ids' = Ids \cup (Ids' \ Ids)
      BY <1>1 DEF Extended
<1>6. \A t \in Ids' : /\ IsReceived(txs'[t]) \/ IsOwn(txs'[t], t)
                      /\ txs'[t].origin # 0 => Replaces(txs'[t], txs'[txs'[t].origin])
      BY <1>3, <1>4, <1>5
<1>7. TxsInv'
      BY <1>5, <1>6 DEF TxsInv
<1> QED
    BY <1>0, <1>7
LEMMA ListUnspentFacts ==
  ASSUME TxsInv, NEW confirms, NEW addresses, addresses \subseteq Managed
  PROVE  /\ IsFiniteSet(ListUnspent(confirms, addresses))
         /\ \A c \in ListUnspent(confirms, addresses) :
              /\ c.amount \in Nat \ {0} /\ c.addr \in addresses
              /\ c \in CoinsBefore(Len(txs) + 1)
<1>1. Live \subseteq Ids
      BY DEF Live, In
<1>2. ListUnspent(confirms, addresses) \subseteq CoinsAfter(Live)
      BY DEF ListUnspent
<1>3. IsFiniteSet(ListUnspent(confirms, addresses))
      BY <1>1, <1>2, CoinsAfterFacts, FS_Subset
<1>4. ASSUME NEW c \in ListUnspent(confirms, addresses)
      PROVE  c.amount \in Nat \ {0} /\ c.addr \in addresses /\ c \in CoinsBefore(Len(txs) + 1)
  <2>1. c \in CoinsAfter(Live) /\ c.addr \in addresses
        BY DEF ListUnspent
  <2> QED
      BY <1>1, <2>1, CoinsAfterFacts
<1> QED
    BY <1>3, <1>4

LEMMA DraftedIsOwn ==
  ASSUME NEW made, NEW t \in Nat, IsBuilt(made, CoinsBefore(t)),
         NEW origin \in 0..(t - 1), NEW paid \in Nat, origin = 0 => IsFresh(made)
  PROVE  IsOwn(Drafted(made, origin, paid), t)
<1> DEFINE tx == Drafted(made, origin, paid)
<1>1. /\ tx.ins = made.ins /\ tx.to = made.to /\ tx.outs = made.outs /\ tx.fee = made.fee
      /\ tx.sendOut = made.sendOut /\ tx.origin = origin /\ tx.paid = paid
      BY DEF Drafted
<1> HIDE DEF tx
<1>2. Balanced(tx, Managed)
      BY <1>1 DEF IsBuilt, Balanced
<1>3. IsBuilt(tx, CoinsBefore(t))
      BY <1>1, <1>2 DEF IsBuilt
<1>4. origin = 0 => IsFresh(tx)
      BY <1>1 DEF IsFresh, Fits, ReturnsToLast
<1> QED
    BY <1>1, <1>3, <1>4 DEF IsOwn, tx

LEMMA CreateRawTransactionTxs ==
  ASSUME TxsInv, StatusInv, NEW to \in Payments, NEW rate \in Nat,
         CreateRawTransaction(to, rate)
  PROVE  TxsInv' /\ DraftStep
<1>1. PICK exclude \in Exclusions :
        \E made \in CreateBTCTransfer(ListUnspent(0, Managed) \ exclude, to, rate) :
          Draft(<<made>>, 0, 0)
      BY DEF CreateRawTransaction
<1> DEFINE coins == ListUnspent(0, Managed) \ exclude
<1>2. PICK made \in CreateBTCTransfer(coins, to, rate) : Draft(<<made>>, 0, 0)
      BY <1>1
<1>3. /\ IsFiniteSet(coins) /\ coins \subseteq CoinsBefore(Len(txs) + 1)
      /\ \A c \in coins : c.amount \in Nat \ {0} /\ c.addr \in Managed
  <2>1. coins \subseteq ListUnspent(0, Managed)
        OBVIOUS
  <2>2. IsFiniteSet(coins)
        BY <2>1, ListUnspentFacts, FS_Subset
  <2> QED
      BY <2>1, <2>2, ListUnspentFacts
<1>4. IsPositive(to) /\ DOMAIN to # {} /\ DOMAIN to \subseteq Addresses
      BY PaymentAssumption DEF IsPositive, Addresses
<1> HIDE DEF coins
<1>5. /\ Balanced(made, Managed) /\ made.to = to /\ Fits(made) /\ ReturnsToLast(made)
      /\ made.ins \in Seq(coins) /\ made.ins # <<>> /\ Distinct(made.ins)
      BY <1>2, <1>3, <1>4, CreateBTCTransferFacts
<1>6. made.ins \in Seq(CoinsBefore(Len(txs) + 1))
      BY <1>3, <1>5, SeqMonotonic
<1>7. IsBuilt(made, CoinsBefore(Len(txs) + 1)) /\ IsFresh(made)
      BY <1>4, <1>5, <1>6 DEF IsBuilt, IsFresh
<1>8. Len(txs) + 1 \in Nat /\ 0 \in 0..((Len(txs) + 1) - 1)
      BY IdsFacts
<1>9. IsOwn(Drafted(made, 0, 0), Len(txs) + 1)
      BY <1>7, <1>8, DraftedIsOwn
<1>10. <<made>> \in Seq({made}) /\ Len(<<made>>) = 1 /\ <<made>>[1] = made
       OBVIOUS
<1>11. \A i \in 1..Len(<<made>>) : IsOwn(Drafted(<<made>>[i], 0, 0), Len(txs) + 1)
       BY <1>9, <1>10
<1> HIDE DEF Draft
<1> QED
    BY <1>2, <1>10, <1>11, DraftKeepsTxs

LEMMA CreateSummaryTxs ==
  ASSUME TxsInv, StatusInv, NEW to \in Sweeps, NEW rate \in Nat, NEW confirms,
         CreateSummaryRawTransaction(to, rate, confirms)
  PROVE  TxsInv' /\ DraftStep
<1> DEFINE collected == {a \in Managed : GetBalance(a) >= MinTransfer}
           C == CoinsBefore(Len(txs) + 1)
<1>1. PICK exclude \in Exclusions, order \in SetToSeqs(collected) :
        LET coins == [i \in DOMAIN order |->
                       SetToSeq(ListUnspent(confirms, {order[i]}) \ exclude)]
            made == CreateBTCSummary(coins, to, rate)
        IN made # <<>> /\ Draft(made, 0, 0)
      BY DEF CreateSummaryRawTransaction
<1> DEFINE purse(i) == ListUnspent(confirms, {order[i]}) \ exclude
           coins == [i \in DOMAIN order |-> SetToSeq(purse(i))]
           made == CreateBTCSummary(coins, to, rate)
<1>2. Draft(made, 0, 0)
      BY <1>1
<1>3. IsFiniteSet(collected)
  <2>1. collected \subseteq Managed
        OBVIOUS
  <2> QED
      BY <2>1, ManagedAssumption, FS_Subset
<1>4. /\ order \in Seq(collected) /\ DOMAIN order = 1..Len(order) /\ Len(order) \in Nat
      /\ Distinct(order)
  <2> HIDE DEF collected
  <2> QED
      BY <1>3, SetToSeqsFacts
<1>5. ASSUME NEW i \in DOMAIN order
      PROVE  /\ order[i] \in Managed /\ IsFiniteSet(purse(i)) /\ purse(i) \subseteq C
             /\ \A c \in purse(i) : c.addr = order[i]
  <2>1. order[i] \in collected
        BY <1>4
  <2>2. order[i] \in Managed
        BY <2>1
  <2>3. {order[i]} \subseteq Managed /\ purse(i) \subseteq ListUnspent(confirms, {order[i]})
        BY <2>2
  <2>4. IsFiniteSet(purse(i))
        BY <2>3, ListUnspentFacts, FS_Subset
  <2> QED
      BY <2>2, <2>3, <2>4, ListUnspentFacts
<1>6. ASSUME NEW i \in DOMAIN order
      PROVE  /\ coins[i] \in Seq(C) /\ Distinct(coins[i])
             /\ \A c \in ToSet(coins[i]) : c.addr = order[i]
  <2>1. coins[i] = SetToSeq(purse(i))
        OBVIOUS
  <2>2. /\ SetToSeq(purse(i)) \in Seq(purse(i)) /\ Distinct(SetToSeq(purse(i)))
        /\ ToSet(SetToSeq(purse(i))) = purse(i)
    <3> HIDE DEF purse
    <3> QED
        BY <1>5, SetToSeqFacts
  <2>3. SetToSeq(purse(i)) \in Seq(C)
    <3> HIDE DEF purse, C
    <3> QED
        BY <1>5, <2>2, SeqMonotonic
  <2> HIDE DEF purse, coins, C
  <2> QED
      BY <1>5, <2>1, <2>2, <2>3
<1>7. Purses(coins, C)
  <2>1. Len(coins) = Len(order) /\ DOMAIN coins = 1..Len(order)
        BY <1>4
  <2> HIDE DEF coins, C
  <2>2. ASSUME NEW i \in DOMAIN coins, NEW j \in DOMAIN coins, i # j
        PROVE  ToSet(coins[i]) \cap ToSet(coins[j]) = {}
    <3>1. order[i] # order[j]
          BY <1>4, <2>1, <2>2 DEF Distinct
    <3> QED
        BY <1>4, <1>6, <2>1, <2>2, <3>1
  <2> QED
      BY <1>4, <1>6, <2>1, <2>2 DEF Purses
<1> HIDE DEF C, coins, purse, collected
<1>8. /\ made \in Seq({SweepTx(b, to, rate) : b \in Seq(C)})
      /\ \A m \in DOMAIN made : IsSweep(made[m], C, to, rate)
      BY <1>7, CreateBTCSummaryMade
<1>9. \A c \in C : c.amount \in Nat \ {0} /\ c.addr \in Managed
      BY DEF C, CoinsBefore
<1> HIDE DEF made
<1>10. Len(txs) + 1 \in Nat /\ 0 \in 0..((Len(txs) + 1) - 1)
       BY IdsFacts
<1>11. ASSUME NEW m \in 1..Len(made)
       PROVE  IsOwn(Drafted(made[m], 0, 0), Len(txs) + 1)
  <2> DEFINE sweep == made[m]
  <2>1. IsSweep(sweep, C, to, rate)
    <3>1. m \in DOMAIN made
          BY <1>8
    <3> QED
        BY <1>8, <3>1
  <2> HIDE DEF sweep
  <2>2. /\ Balanced(sweep, Managed) /\ DOMAIN sweep.to = {to} /\ Fits(sweep) /\ ReturnsToLast(sweep)
        /\ sweep.ins \in Seq(C) /\ sweep.ins # <<>> /\ Distinct(sweep.ins)
        BY <1>9, <2>1, SweepFacts
  <2>3. IsBuilt(sweep, C) /\ IsFresh(sweep)
        BY <2>2 DEF IsBuilt, IsFresh, Addresses
  <2>4. IsOwn(Drafted(sweep, 0, 0), Len(txs) + 1)
        BY <1>10, <2>3, DraftedIsOwn DEF C
  <2> QED
      BY <2>4 DEF sweep
<1> QED
    BY <1>2, <1>8, <1>11, DraftKeepsTxs
LEMMA PayersOf ==
  ASSUME NEW C, NEW ins \in Seq(C), NEW A, \A c \in C : c.addr \in A
  PROVE  Payers(ins) \subseteq A
BY DEF Payers

(* What the origin of a replacement is, and what it spends.                *)
LEMMA OriginFacts ==
  ASSUME TxsInv, NEW t \in Live, txs[t].ins # <<>> \/ txs[t].to # NoAmounts
  PROVE  /\ t \in Ids /\ IsOwn(txs[t], t) /\ IsCoins(txs[t].ins) /\ txs[t].fee \in Nat
         /\ txs[t].ins \in Seq(CoinsBefore(t)) /\ txs[t].ins # <<>>
         /\ Payers(txs[t].ins) \subseteq Managed /\ IsPositive(txs[t].to)
<1>1. t \in Ids
      BY DEF Live, In
<1>2. IsOwn(txs[t], t)
      BY <1>1 DEF TxsInv, IsReceived
<1>3. /\ Balanced(txs[t], Managed)
      /\ txs[t].ins \in Seq(CoinsBefore(t)) /\ txs[t].ins # <<>>
      BY <1>2 DEF IsOwn, IsBuilt
<1>4. \A c \in CoinsBefore(t) : c.addr \in Managed
      BY DEF CoinsBefore
<1>5. Payers(txs[t].ins) \subseteq Managed
      BY <1>3, <1>4, PayersOf
<1> QED
    BY <1>1, <1>2, <1>3, <1>5 DEF Balanced

LEMMA ReplacementIsOwn ==
  ASSUME TxsInv, NEW t \in Live, IsOwn(txs[t], t), NEW made, NEW paid \in Nat,
         Balanced(made, Managed), made.ins = txs[t].ins,
         made.to = txs[t].to \/ made.to = NoAmounts
  PROVE  IsOwn(Drafted(made, t, paid), Len(txs) + 1)
<1>1. t \in Ids
      BY DEF Live, In
<1>2. /\ t \in Nat /\ Len(txs) + 1 \in Nat /\ t <= Len(txs) + 1 /\ t # 0
      /\ t \in 0..((Len(txs) + 1) - 1)
      BY <1>1, IdsFacts
<1>3. IsOwn(txs[t], Len(txs) + 1)
      BY <1>2, OwnLater
<1>4. IsBuilt(made, CoinsBefore(Len(txs) + 1))
      BY <1>3 DEF IsOwn, IsBuilt, NoAmounts
<1> QED
    BY <1>2, <1>4, DraftedIsOwn

LEMMA SpeedUpIsBuilt ==
  ASSUME TxsInv, NEW t \in Live, txs[t].to # NoAmounts, NEW rate \in Nat, NEW paid \in Nat,
         NEW pinned, pinned \in Managed \/ pinned = NoAddress,
         NEW made \in SpeedUpOf(txs[t].ins, txs[t].to, rate, pinned, paid)
  PROVE  Balanced(made, Managed) /\ made.ins = txs[t].ins /\ made.to = txs[t].to
<1>1. /\ IsCoins(txs[t].ins) /\ txs[t].ins \in Seq(CoinsBefore(t)) /\ txs[t].ins # <<>>
      /\ Payers(txs[t].ins) \subseteq Managed /\ IsPositive(txs[t].to)
      BY OriginFacts
<1> DEFINE ins == txs[t].ins
           to == txs[t].to
           C == CoinsBefore(t)
<1>2. /\ ins \in Seq(C) /\ ins # <<>> /\ IsCoins(ins) /\ IsPositive(to)
      /\ Payers(ins) \subseteq Managed /\ made \in SpeedUpOf(ins, to, rate, pinned, paid)
      BY <1>1
<1> HIDE DEF ins, to, C
<1>3. Balanced(made, Managed) /\ made.ins = ins /\ made.to = to
      BY <1>2, SpeedUpFacts
<1> QED
    BY <1>3 DEF ins, to

LEMMA SpeedUpTxs ==
  ASSUME TxsInv, StatusInv, NEW t \in Ids, NEW su \in SpeedUps,
         NEW asked \in Nat \cup {NotGiven}, NEW paid \in {txs[t].fee, 0},
         SpeedUp(t, su, asked, paid)
  PROVE  TxsInv' /\ DraftStep
<1>1. EnableRBF /\ t \in Live /\ txs[t].to # NoAmounts
      BY DEF SpeedUp
<1>2. /\ IsOwn(txs[t], t) /\ IsCoins(txs[t].ins) /\ txs[t].fee \in Nat
      /\ txs[t].ins \in Seq(CoinsBefore(t)) /\ txs[t].ins # <<>>
      /\ Payers(txs[t].ins) \subseteq Managed /\ IsPositive(txs[t].to)
      BY <1>1, OriginFacts
<1>3. PICK rate \in ApplySpeedUpFeeRate(su, asked) :
        \E made \in SpeedUpOf(txs[t].ins, txs[t].to, rate, su.fromAddress, paid) :
          Draft(<<made>>, t, paid)
      BY DEF SpeedUp
<1>4. PICK made \in SpeedUpOf(txs[t].ins, txs[t].to, rate, su.fromAddress, paid) :
        Draft(<<made>>, t, paid)
      BY <1>3
<1>5. rate \in Nat /\ paid \in Nat
      BY <1>2, SpeedUpRateType
<1>6. su.fromAddress \in Managed \/ su.fromAddress = NoAddress
      BY SpeedUpAssumption
<1>7. Balanced(made, Managed) /\ made.ins = txs[t].ins /\ made.to = txs[t].to
  <2> DEFINE pinned == su.fromAddress
  <2>1. made \in SpeedUpOf(txs[t].ins, txs[t].to, rate, pinned, paid)
        BY <1>4
  <2>2. pinned \in Managed \/ pinned = NoAddress
        BY <1>6
  <2> HIDE DEF pinned
  <2> QED
      BY <1>1, <1>5, <2>1, <2>2, SpeedUpIsBuilt
<1>8. OmitChangeBelowDust /\ DustLimit >= 31 /\ paid # 0 => made.fee >= paid + Size(made)
      BY <1>2, <1>4, <1>5, SpeedUpPays
<1>9. IsOwn(Drafted(made, t, paid), Len(txs) + 1)
      BY <1>1, <1>2, <1>5, <1>7, ReplacementIsOwn
<1>10. Replaces(Drafted(made, t, paid), txs[t])
       BY <1>1, <1>7, <1>8 DEF Replaces, Drafted, Size
<1>11. <<made>> \in Seq({made}) /\ Len(<<made>>) = 1 /\ <<made>>[1] = made
       OBVIOUS
<1>12. \A i \in 1..Len(<<made>>) : /\ IsOwn(Drafted(<<made>>[i], t, paid), Len(txs) + 1)
                                   /\ Replaces(Drafted(<<made>>[i], t, paid), txs[t])
       BY <1>9, <1>10, <1>11
<1> QED
    BY <1>4, <1>11, <1>12, DraftKeepsTxs

LEMMA CancelTxs ==
  ASSUME TxsInv, StatusInv, NEW t \in Ids, NEW su \in SpeedUps,
         NEW asked \in Nat \cup {NotGiven}, NEW paid \in {txs[t].fee, 0},
         Cancel(t, su, asked, paid)
  PROVE  TxsInv' /\ DraftStep
<1>1. EnableRBF /\ t \in Live /\ txs[t].ins # <<>>
      BY DEF Cancel
<1>2. /\ IsOwn(txs[t], t) /\ IsCoins(txs[t].ins) /\ txs[t].fee \in Nat
      /\ txs[t].ins \in Seq(CoinsBefore(t)) /\ txs[t].ins # <<>>
      /\ Payers(txs[t].ins) \subseteq Managed
      BY <1>1, OriginFacts
<1>3. PICK rate \in ApplySpeedUpFeeRate(su, asked) :
        \E made \in CancelOf(txs[t].ins, rate, su.fromAddress, paid) :
          Draft(<<made>>, t, paid)
      BY DEF Cancel
<1>4. PICK made \in CancelOf(txs[t].ins, rate, su.fromAddress, paid) :
        Draft(<<made>>, t, paid)
      BY <1>3
<1>5. rate \in Nat /\ paid \in Nat
      BY <1>2, SpeedUpRateType
<1>6. su.fromAddress \in Managed \/ su.fromAddress = NoAddress
      BY SpeedUpAssumption
<1>7. /\ Balanced(made, Managed) /\ made.ins = txs[t].ins /\ made.to = NoAmounts
      /\ Cardinality(DOMAIN made.outs) = 1
      /\ paid # 0 => made.fee >= paid + Size(made)
      BY <1>2, <1>4, <1>5, <1>6, CancelFacts DEF NoAmounts
<1>8. IsOwn(Drafted(made, t, paid), Len(txs) + 1)
      BY <1>1, <1>2, <1>5, <1>7, ReplacementIsOwn
<1>9. Replaces(Drafted(made, t, paid), txs[t])
      BY <1>1, <1>7 DEF Replaces, Drafted, Size
<1>10. <<made>> \in Seq({made}) /\ Len(<<made>>) = 1 /\ <<made>>[1] = made
       OBVIOUS
<1>11. \A i \in 1..Len(<<made>>) : /\ IsOwn(Drafted(<<made>>[i], t, paid), Len(txs) + 1)
                                   /\ Replaces(Drafted(<<made>>[i], t, paid), txs[t])
       BY <1>8, <1>9, <1>10
<1> QED
    BY <1>4, <1>10, <1>11, DraftKeepsTxs
LEMMA WalletTxs ==
  ASSUME TxsInv, StatusInv, Wallet
  PROVE  TxsInv' /\ DraftStep
<1>1. PICK asked \in Rates, answer \in NodeRates :
        LET rate == RateOf(asked, answer)
        IN \/ \E to \in Payments : CreateRawTransaction(to, rate)
           \/ \E to \in Sweeps, confirms \in {0, 1} :
                CreateSummaryRawTransaction(to, rate, confirms)
           \/ \E t \in Ids, su \in SpeedUps :
                \E paid \in {txs[t].fee, 0} :
                  SpeedUp(t, su, asked, paid) \/ Cancel(t, su, asked, paid)
      BY DEF Wallet
<1> DEFINE rate == RateOf(asked, answer)
<1>2. rate \in Nat /\ asked \in Nat \cup {NotGiven}
      BY RateOfType, RateAssumption
<1> HIDE DEF rate
<1>3. CASE \E to \in Payments : CreateRawTransaction(to, rate)
      BY <1>2, <1>3, CreateRawTransactionTxs
<1>4. CASE \E to \in Sweeps, confirms \in {0, 1} :
             CreateSummaryRawTransaction(to, rate, confirms)
      BY <1>2, <1>4, CreateSummaryTxs
<1>5. CASE \E t \in Ids, su \in SpeedUps :
             \E paid \in {txs[t].fee, 0} :
               SpeedUp(t, su, asked, paid) \/ Cancel(t, su, asked, paid)
  <2>1. PICK t \in Ids, su \in SpeedUps :
          \E paid \in {txs[t].fee, 0} :
            SpeedUp(t, su, asked, paid) \/ Cancel(t, su, asked, paid)
        BY <1>5
  <2>2. PICK paid \in {txs[t].fee, 0} :
          SpeedUp(t, su, asked, paid) \/ Cancel(t, su, asked, paid)
        BY <2>1
  <2>3. CASE SpeedUp(t, su, asked, paid)
        BY <1>2, <2>3, SpeedUpTxs
  <2>4. CASE Cancel(t, su, asked, paid)
        BY <1>2, <2>4, CancelTxs
  <2> QED
      BY <2>2, <2>3, <2>4
<1> QED
    BY <1>1, <1>3, <1>4, <1>5 DEF rate
LEMMA SameTxs ==
  ASSUME TxsInv, txs' = txs
  PROVE  TxsInv' /\ Extended
<1>1. Ids' = Ids
      BY DEF Ids
<1>2. TxsInv'
      BY <1>1 DEF TxsInv
<1>3. Extended
      BY <1>1, IdsFacts DEF Extended, TxsInv
<1> QED
    BY <1>2, <1>3

(* A payment of others is the next transaction, and mined.                 *)
ReceiveStep ==
  /\ Extended /\ Len(txs') = Len(txs) + 1 /\ Len(txs') <= MaxTxs
  /\ status' \in Seq(Statuses) /\ Len(status') = Len(txs')
  /\ \A t \in Ids : status'[t] = status[t]
  /\ txs'[Len(txs')].ins = <<>> /\ status'[Len(txs')] = "mined"
  /\ chain' = Append(chain, Len(txs'))
  /\ UNCHANGED <<orders, scanner>>

LEMMA ReceiveTxs ==
  ASSUME TxsInv, StatusInv, NEW outs \in Incoming, Receive(outs)
  PROVE  TxsInv' /\ ReceiveStep
<1> DEFINE tx == [ins |-> <<>>, to |-> NoAmounts, outs |-> outs, fee |-> 0,
                  sendOut |-> NotWritten, origin |-> 0, paid |-> 0]
           n == Len(txs) + 1
           V == ToSet(txs) \cup {tx}
<1>1. IsReceived(tx)
      BY DEF IsReceived
<1>2. txs' = Append(txs, tx) /\ Len(txs) < MaxTxs
      BY DEF Receive
<1> HIDE DEF tx
<1>3. txs \in Seq(V)
      BY SeqMonotonic DEF TxsInv
<1>4. Len(txs) \in Nat /\ Ids = 1..Len(txs)
      BY IdsFacts
<1>5. /\ txs' \in Seq(V) /\ Len(txs') = n /\ Ids' = 1..n /\ txs'[n] = tx
      /\ \A t \in Ids : txs'[t] = txs[t]
  <2>1. txs' \in Seq(V) /\ Len(txs') = n /\ txs'[n] = tx /\ \A t \in Ids : txs'[t] = txs[t]
    <3> HIDE DEF V
    <3>1. tx \in V
          BY DEF V
    <3> QED
        BY <1>2, <1>3, <1>4, <3>1, AppendProperties
  <2> QED
      BY <2>1 DEF Ids
<1>6. txs' \in Seq(ToSet(txs'))
      BY <1>5, SequenceOfItself
<1>7. Extended
      BY <1>4, <1>5, <1>6 DEF Extended
<1>8. /\ Len(status) = Len(txs) /\ status \in Seq(Statuses) /\ "mined" \in Statuses
      /\ status' = Append(status, "mined")
      BY DEF StatusInv, Statuses, Receive
<1>9. /\ status' \in Seq(Statuses) /\ Len(status') = n
      /\ \A t \in Ids : status'[t] = status[t]
      /\ status'[n] = "mined"
      BY <1>4, <1>8, AppendProperties
<1>10. Len(txs') <= MaxTxs
       BY <1>2, <1>4, <1>5, TxsAssumption
<1>11. /\ txs'[n].ins = <<>> /\ chain' = Append(chain, n) /\ UNCHANGED <<orders, scanner>>
       BY <1>5 DEF Receive, tx
<1>12. ReceiveStep
       BY <1>5, <1>7, <1>9, <1>10, <1>11 DEF ReceiveStep
<1>13. ASSUME NEW t \in Ids
       PROVE  /\ IsReceived(txs'[t]) \/ IsOwn(txs'[t], t)
              /\ txs'[t].origin # 0 => Replaces(txs'[t], txs'[txs'[t].origin])
  <2>1. txs'[t] = txs[t] /\ (IsReceived(txs[t]) \/ IsOwn(txs[t], t))
        BY <1>5 DEF TxsInv
  <2>2. txs[t].origin \in 0..(t - 1)
        BY <2>1, IdsFacts DEF IsReceived, IsOwn
  <2>3. txs[t].origin # 0 => txs[t].origin \in Ids
        BY <2>2, IdsFacts
  <2>4. txs[t].origin # 0 => Replaces(txs[t], txs[txs[t].origin])
        BY DEF TxsInv
  <2> QED
      BY <1>5, <2>1, <2>3, <2>4
<1>14. txs'[n].origin = 0
       BY <1>5 DEF tx
<1>15. Ids' = Ids \cup {n}
       BY <1>4, <1>5
<1>16. TxsInv'
       BY <1>1, <1>5, <1>6, <1>13, <1>14, <1>15 DEF TxsInv
<1> QED
    BY <1>12, <1>16

LEMMA DraftStatus ==
  ASSUME TxsInv, StatusInv, DraftStep
  PROVE  StatusInv' /\ Live' = Live /\ In("mined")' = In("mined") /\ In("pending")' = In("pending")
<1>1. Ids \subseteq Ids'
      BY DEF DraftStep, Extended
<1>2. In("mined")' = In("mined") /\ In("pending")' = In("pending")
      BY <1>1 DEF DraftStep, In
<1>3. Live' = Live
      BY <1>2 DEF Live
<1>4. chain' \in Seq(Ids') /\ orders' \subseteq Ids'
      BY <1>1, SeqMonotonic DEF DraftStep, StatusInv
<1>5. raw' \subseteq Scanned' /\ cursor' \in 0..Len(chain')
      BY DEF DraftStep, StatusInv, Scanned, scanner
<1>6. StatusInv'
      BY <1>2, <1>4, <1>5 DEF DraftStep, StatusInv
<1> QED
    BY <1>2, <1>3, <1>6

LEMMA ReceiveStatus ==
  ASSUME TxsInv, TxsInv', StatusInv, ReceiveStep
  PROVE  /\ StatusInv' /\ Live' = Live \cup {Len(txs')} /\ Len(txs') \notin Ids
         /\ Scanned' = Scanned
<1> DEFINE n == Len(txs')
<1>1. /\ n \in Nat /\ Ids' = Ids \cup {n} /\ n \notin Ids
      BY DEF ReceiveStep, Extended
<1>2. In("mined")' = In("mined") \cup {n} /\ In("pending")' = In("pending")
      BY <1>1 DEF ReceiveStep, In
<1>3. Live' = Live \cup {n}
      BY <1>2 DEF Live
<1>4. chain \in Seq(Ids') /\ n \in Ids' /\ Len(chain) \in Nat /\ DOMAIN chain = 1..Len(chain)
      BY <1>1, SeqMonotonic DEF StatusInv
<1>5. /\ chain' \in Seq(Ids') /\ Len(chain') = Len(chain) + 1
      /\ chain'[Len(chain) + 1] = n
      /\ \A i \in DOMAIN chain : chain'[i] = chain[i]
      /\ DOMAIN chain' = DOMAIN chain \cup {Len(chain) + 1}
      BY <1>4, AppendProperties DEF ReceiveStep
<1>6. ToSet(chain') = ToSet(chain) \cup {n}
      BY <1>4, <1>5 DEF ToSet
<1>7. n \notin ToSet(chain)
      BY <1>1 DEF StatusInv, In
<1>8. Distinct(chain')
      BY <1>4, <1>5, <1>7 DEF StatusInv, Distinct, ToSet
<1>9. Scanned' = Scanned /\ cursor' \in 0..Len(chain')
      BY <1>4, <1>5 DEF Scanned, ReceiveStep, StatusInv, scanner
<1>10. raw' \subseteq Scanned' /\ orders' \subseteq Ids'
       BY <1>1, <1>9 DEF ReceiveStep, StatusInv, scanner
<1>11. ToSet(chain)' = In("mined")'
       BY <1>2, <1>6 DEF StatusInv
<1>12. StatusInv'
       BY <1>5, <1>8, <1>9, <1>10, <1>11 DEF ReceiveStep, StatusInv
<1> QED
    BY <1>1, <1>3, <1>9, <1>12
-----------------------------------------------------------------------------
(* What is evicted: the smallest set that holds what conflicts and whatever *)
(* spends from it.                                                         *)

SpendFrom(S, T) == {u \in Ids : u \in T \/ \E c \in Spent(u) : c.tx \in 1..(u - 1) /\ c.tx \in S}

GoneTable(g, T) ==
  g = [u \in Ids |-> u \in T \/ \E c \in Spent(u) : c.tx \in 1..(u - 1) /\ g[c.tx]]

LEMMA DescendantsAreTable ==
  ASSUME NEW T
  PROVE  WithDescendants(T) = {u \in In("pending") : (CHOOSE g : GoneTable(g, T))[u]}
BY Zenon DEF WithDescendants, GoneTable

LEMMA GoneTableExists ==
  ASSUME TxsInv, NEW T
  PROVE  \E g : GoneTable(g, T)
<1> DEFINE L == {u \in Ids : \A S \in SUBSET Ids : SpendFrom(S, T) \subseteq S => u \in S}
           g == [u \in Ids |-> u \in L]
<1>1. ASSUME NEW S \in SUBSET Ids, SpendFrom(S, T) \subseteq S
      PROVE  L \subseteq S
      BY <1>1
<1>2. ASSUME NEW S, NEW R, S \subseteq R
      PROVE  SpendFrom(S, T) \subseteq SpendFrom(R, T)
      BY <1>2 DEF SpendFrom
<1>3. SpendFrom(L, T) \subseteq L
  <2>1. ASSUME NEW u \in SpendFrom(L, T), NEW S \in SUBSET Ids, SpendFrom(S, T) \subseteq S
        PROVE  u \in S
        BY <1>1, <1>2, <2>1
  <2>2. \A u \in SpendFrom(L, T) : u \in Ids
        BY DEF SpendFrom
  <2> QED
      BY <2>1, <2>2
<1>4. L \subseteq SpendFrom(L, T)
  <2>1. SpendFrom(SpendFrom(L, T), T) \subseteq SpendFrom(L, T)
        BY <1>2, <1>3
  <2>2. SpendFrom(L, T) \in SUBSET Ids
        BY DEF SpendFrom
  <2> HIDE DEF L
  <2> QED
      BY <1>1, <2>1, <2>2
<1>5. L = SpendFrom(L, T)
      BY <1>3, <1>4
<1>6. L \subseteq Ids
      OBVIOUS
<1> HIDE DEF L
<1>7. ASSUME NEW u \in Ids
      PROVE  g[u] = (u \in T \/ \E c \in Spent(u) : c.tx \in 1..(u - 1) /\ g[c.tx])
  <2>1. u \in L <=> u \in T \/ \E c \in Spent(u) : c.tx \in 1..(u - 1) /\ c.tx \in L
        BY <1>5 DEF SpendFrom
  <2>2. \A c \in Spent(u) : c.tx \in 1..(u - 1) => c.tx \in Ids
        BY IdsFacts
  <2>3. \A v \in Ids : g[v] = (v \in L)
        BY Zenon
  <2>4. \A c \in Spent(u) : c.tx \in 1..(u - 1) => g[c.tx] = (c.tx \in L)
        BY <2>2, <2>3
  <2>5. g[u] = (u \in L)
        BY <2>3
  <2> HIDE DEF g
  <2>6. (\E c \in Spent(u) : c.tx \in 1..(u - 1) /\ c.tx \in L)
          <=> \E c \in Spent(u) : c.tx \in 1..(u - 1) /\ g[c.tx]
        BY <2>4, Zenon
  <2>7. (u \in L) = (u \in T \/ \E c \in Spent(u) : c.tx \in 1..(u - 1) /\ g[c.tx])
        BY <2>1, <2>6
  <2> QED
      BY <2>5, <2>7, Zenon
<1>8. g = [u \in Ids |-> u \in T \/ \E c \in Spent(u) : c.tx \in 1..(u - 1) /\ g[c.tx]]
  <2> DEFINE h == [u \in Ids |-> u \in T \/ \E c \in Spent(u) : c.tx \in 1..(u - 1) /\ g[c.tx]]
  <2>1. \A u \in Ids : h[u] = (u \in T \/ \E c \in Spent(u) : c.tx \in 1..(u - 1) /\ g[c.tx])
        BY Zenon
  <2>2. \A u \in Ids : g[u] = h[u]
    <3> HIDE DEF g, h
    <3> QED
        BY <1>7, <2>1, Zenon
  <2>3. g = [u \in Ids |-> g[u]] /\ h = [u \in Ids |-> h[u]]
        BY Zenon
  <2> HIDE DEF g, h
  <2>4. g = h
        BY <2>2, <2>3
  <2> QED
      BY <2>4 DEF h
<1>9. GoneTable(g, T)
  <2> HIDE DEF g
  <2> QED
      BY <1>8 DEF GoneTable
<1> QED
    BY <1>9

LEMMA DescendantsFacts ==
  ASSUME TxsInv, NEW T
  PROVE  /\ WithDescendants(T) \subseteq In("pending")
         /\ T \cap In("pending") \subseteq WithDescendants(T)
         /\ \A u \in In("pending") : \A c \in Spent(u) :
              c.tx \in WithDescendants(T) => u \in WithDescendants(T)
<1> DEFINE g == CHOOSE g : GoneTable(g, T)
<1>1. WithDescendants(T) = {u \in In("pending") : g[u]}
      BY DescendantsAreTable
<1>2. GoneTable(g, T)
      BY GoneTableExists
<1> HIDE DEF g
<1>3. ASSUME NEW u \in Ids
      PROVE  g[u] = (u \in T \/ \E c \in Spent(u) : c.tx \in 1..(u - 1) /\ g[c.tx])
      BY <1>2, Zenon DEF GoneTable
<1>4. In("pending") \subseteq Ids
      BY DEF In
<1>5. ASSUME NEW u \in In("pending"), NEW c \in Spent(u), c.tx \in WithDescendants(T)
      PROVE  u \in WithDescendants(T)
  <2>1. c.tx \in 0..(u - 1) /\ c.tx \in Ids
        BY <1>1, <1>4, <1>5, SpentFacts DEF CoinsBefore
  <2>2. c.tx \in 1..(u - 1)
        BY <1>4, <2>1, IdsFacts
  <2>3. g[c.tx]
        BY <1>1, <1>5
  <2>4. g[u]
        BY <1>3, <1>4, <1>5, <2>2, <2>3, Zenon
  <2> QED
      BY <1>1, <1>5, <2>4
<1>6. \A u \in T \cap In("pending") : g[u]
      BY <1>3, <1>4, Zenon
<1> QED
    BY <1>1, <1>5, <1>6
-----------------------------------------------------------------------------
(* Where the transactions are.                                             *)

LEMMA SubmitStatus ==
  ASSUME TxsInv, StatusInv, NEW t \in Ids, Submit(t)
  PROVE  /\ StatusInv' /\ t \notin Live /\ In("mined")' = In("mined")
         /\ Live' = (Live \ WithDescendants(Conflicts(t))) \cup {t}
<1> DEFINE evicted == WithDescendants(Conflicts(t))
<1>1. evicted \subseteq In("pending")
      BY DescendantsFacts
<1>2. Len(txs) \in Nat /\ Ids = 1..Len(txs) /\ Ids' = Ids
      BY IdsFacts DEF Submit, Ids
<1>3. /\ status[t] = "draft" /\ UNCHANGED <<txs, chain, orders, cursor, raw>>
      /\ status' = [u \in Ids |-> IF u = t THEN "pending"
                                  ELSE IF u \in evicted THEN "evicted" ELSE status[u]]
      BY DEF Submit, scanner
<1> HIDE DEF evicted
<1>4. /\ status'[t] = "pending"
      /\ \A u \in Ids \ {t} : status'[u] = IF u \in evicted THEN "evicted" ELSE status[u]
      BY <1>3
<1>5. In("mined")' = In("mined") /\ t \notin Live
      BY <1>1, <1>2, <1>3, <1>4 DEF In, Live
<1>6. In("pending")' = (In("pending") \ evicted) \cup {t}
      BY <1>1, <1>2, <1>3, <1>4 DEF In
<1>7. In("mined") \cap evicted = {}
      BY <1>1 DEF In
<1>8. Live' = (Live \ evicted) \cup {t}
      BY <1>5, <1>6, <1>7 DEF Live
<1>9. \A u \in Ids : status[u] \in Statuses
      BY <1>2 DEF StatusInv
<1>10. status' \in [1..Len(txs) -> Statuses]
       BY <1>2, <1>3, <1>9 DEF Statuses
<1>11. status' \in Seq(Statuses) /\ Len(status') = Len(txs)
       BY <1>2, <1>10
<1>12. Scanned' = Scanned
       BY <1>3 DEF Scanned
<1>13. StatusInv'
       BY <1>2, <1>3, <1>5, <1>11, <1>12 DEF StatusInv
<1> QED
    BY <1>5, <1>8, <1>13 DEF evicted

(* A block with one more transaction.                                      *)
Mined(t) ==
  /\ t \in Ids' /\ t \notin In("mined") /\ chain' = Append(chain, t)
  /\ Len(chain) \in Nat /\ DOMAIN chain = 1..Len(chain) /\ Len(chain') = Len(chain) + 1
  /\ chain'[Len(chain) + 1] = t
  /\ \A i \in DOMAIN chain : chain'[i] = chain[i]
  /\ DOMAIN chain' = DOMAIN chain \cup {Len(chain) + 1}

LEMMA MineStatus ==
  ASSUME TxsInv, StatusInv, NEW t \in Ids, Mine(t)
  PROVE  StatusInv' /\ Live' = Live /\ t \in In("pending") /\ Mined(t)
<1>1. /\ status[t] = "pending" /\ UNCHANGED <<txs, orders, cursor, raw>>
      /\ status' = [status EXCEPT ![t] = "mined"] /\ chain' = Append(chain, t)
      BY DEF Mine, scanner
<1>2. Len(txs) \in Nat /\ Ids = 1..Len(txs) /\ Ids' = Ids
      BY <1>1, IdsFacts DEF Ids
<1>3. status \in Seq(Statuses) /\ Len(status) = Len(txs) /\ "mined" \in Statuses
      BY DEF StatusInv, Statuses
<1>4. /\ status' \in Seq(Statuses) /\ Len(status') = Len(txs)
      /\ \A u \in Ids : status'[u] = IF u = t THEN "mined" ELSE status[u]
      BY <1>1, <1>2, <1>3
<1>5. /\ In("mined")' = In("mined") \cup {t} /\ In("pending")' = In("pending") \ {t}
      /\ t \in In("pending") /\ t \notin In("mined")
      BY <1>1, <1>2, <1>4 DEF In
<1>6. Live' = Live
      BY <1>5 DEF Live
<1>7. chain \in Seq(Ids) /\ Len(chain) \in Nat /\ DOMAIN chain = 1..Len(chain)
      BY DEF StatusInv
<1>8. /\ chain' \in Seq(Ids) /\ Len(chain') = Len(chain) + 1
      /\ chain'[Len(chain) + 1] = t
      /\ \A i \in DOMAIN chain : chain'[i] = chain[i]
      /\ DOMAIN chain' = DOMAIN chain \cup {Len(chain) + 1}
      BY <1>1, <1>7, AppendProperties
<1>9. Mined(t)
      BY <1>1, <1>2, <1>5, <1>7, <1>8 DEF Mined
<1>10. ToSet(chain') = ToSet(chain) \cup {t}
       BY <1>7, <1>8 DEF ToSet
<1>11. Distinct(chain')
       BY <1>5, <1>7, <1>8 DEF StatusInv, Distinct, ToSet
<1>12. Scanned' = Scanned /\ cursor' \in 0..Len(chain')
       BY <1>1, <1>7, <1>8 DEF Scanned, StatusInv
<1>13. ToSet(chain)' = In("mined")'
       BY <1>5, <1>10 DEF StatusInv
<1>14. StatusInv'
       BY <1>1, <1>2, <1>4, <1>8, <1>11, <1>12, <1>13 DEF StatusInv
<1> QED
    BY <1>5, <1>6, <1>9, <1>14

LEMMA ReceiveMined ==
  ASSUME TxsInv, StatusInv, ReceiveStep
  PROVE  Mined(Len(txs'))
<1> DEFINE n == Len(txs')
<1>1. n \in Ids' /\ n \notin In("mined")
      BY DEF ReceiveStep, Extended, In
<1>2. chain \in Seq(Ids') /\ Len(chain) \in Nat /\ DOMAIN chain = 1..Len(chain)
  <2>1. Ids \subseteq Ids'
        BY DEF ReceiveStep, Extended
  <2> QED
      BY <2>1, SeqMonotonic DEF StatusInv
<1>3. /\ Len(chain') = Len(chain) + 1 /\ chain'[Len(chain) + 1] = n /\ chain' = Append(chain, n)
      /\ \A i \in DOMAIN chain : chain'[i] = chain[i]
      /\ DOMAIN chain' = DOMAIN chain \cup {Len(chain) + 1}
      BY <1>1, <1>2, AppendProperties DEF ReceiveStep
<1> QED
    BY <1>1, <1>2, <1>3 DEF Mined

LEMMA RecordStatus ==
  ASSUME TxsInv, StatusInv, NEW t \in Ids, RecordOrder(t)
  PROVE  StatusInv' /\ Live' = Live
<1>1. UNCHANGED <<txs, status, chain, cursor, raw>> /\ orders' = orders \cup {t}
      BY DEF RecordOrder, scanner
<1>2. Ids' = Ids /\ Live' = Live /\ In("mined")' = In("mined") /\ Scanned' = Scanned
      BY <1>1 DEF Ids, Live, In, Scanned
<1> QED
    BY <1>1, <1>2 DEF StatusInv

LEMMA ScanStatus ==
  ASSUME TxsInv, StatusInv, ScanBlock
  PROVE  /\ StatusInv' /\ Live' = Live
         /\ Scanned' = Scanned \cup {chain[cursor + 1]}
         /\ Scanned = {chain[j] : j \in 1..((cursor + 1) - 1)}
         /\ cursor + 1 \in DOMAIN chain /\ chain[cursor + 1] \in Ids \ Scanned
<1> DEFINE t == chain[cursor + 1]
<1>1. /\ UNCHANGED <<txs, status, chain, orders>> /\ cursor < Len(chain) /\ cursor' = cursor + 1
      /\ raw' \subseteq raw \cup {t}
      BY DEF ScanBlock
<1>2. Ids' = Ids /\ Live' = Live /\ In("mined")' = In("mined")
      BY <1>1 DEF Ids, Live, In
<1>3. /\ chain \in Seq(Ids) /\ Len(chain) \in Nat /\ DOMAIN chain = 1..Len(chain)
      /\ cursor \in Nat /\ cursor + 1 \in DOMAIN chain
      BY <1>1 DEF StatusInv
<1>4. Scanned' = Scanned \cup {t}
  <2>1. 1..(cursor + 1) = (1..cursor) \cup {cursor + 1}
        BY <1>3
  <2>2. Scanned' = {chain[i] : i \in 1..(cursor + 1)}
        BY <1>1 DEF Scanned
  <2> QED
      BY <2>1, <2>2 DEF Scanned
<1>5. Scanned = {chain[j] : j \in 1..((cursor + 1) - 1)}
      BY <1>3 DEF Scanned
<1>6. t \in Ids \ Scanned
      BY <1>3 DEF Scanned, StatusInv, Distinct
<1>7. cursor' \in 0..Len(chain') /\ raw' \subseteq Scanned'
      BY <1>1, <1>3, <1>4 DEF StatusInv
<1>8. StatusInv'
      BY <1>1, <1>2, <1>7 DEF StatusInv
<1> QED
    BY <1>2, <1>3, <1>4, <1>5, <1>6, <1>8
-----------------------------------------------------------------------------
(* No coin is spent twice.                                                 *)

LEMMA CoinsStay ==
  ASSUME Extended
  PROVE  /\ \A t \in Ids : Spent(t)' = Spent(t) /\ Made(t)' = Made(t)
         /\ \A T \in SUBSET Ids : CoinsAfter(T)' = CoinsAfter(T)
<1>1. \A t \in Ids : Spent(t)' = Spent(t)
      BY DEF Extended, Spent
<1>2. \A t \in Ids : Made(t)' = Made(t)
      BY DEF Extended, Made
<1>3. ASSUME NEW T \in SUBSET Ids
      PROVE  CoinsAfter(T)' = CoinsAfter(T)
  <2>1. UNION {Made(t)' : t \in T} = UNION {Made(t) : t \in T}
        BY <1>2
  <2>2. UNION {Spent(t)' : t \in T} = UNION {Spent(t) : t \in T}
        BY <1>1
  <2> QED
      BY <2>1, <2>2 DEF CoinsAfter
<1> QED
    BY <1>1, <1>2, <1>3

LEMMA LiveKept ==
  ASSUME TxsInv, LiveInv, Extended, Live' = Live
  PROVE  LiveInv'
<1>1. Live \subseteq Ids
      BY DEF Live, In
<1> SUFFICES ASSUME NEW u \in Live
             PROVE  /\ Spent(u)' \subseteq CoinsAfter(Live \ {u})'
                    /\ txs'[u].ins # <<>> => txs'[u].fee >= Size(txs'[u])
    BY DEF LiveInv
<1>2. Spent(u)' = Spent(u) /\ txs'[u] = txs[u]
      BY <1>1, CoinsStay DEF Extended
<1>3. Live \ {u} \in SUBSET Ids
      BY <1>1
<1>4. CoinsAfter(Live \ {u})' = CoinsAfter(Live \ {u})
  <2> DEFINE T == Live \ {u}
  <2>1. T' = T
        OBVIOUS
  <2>2. PICK S \in SUBSET Ids : S = T
        BY <1>3
  <2>3. CoinsAfter(S)' = CoinsAfter(S)
        BY CoinsStay
  <2>4. CoinsAfter(T)' = CoinsAfter(S)'
        BY <2>1, <2>2 DEF CoinsAfter
  <2> QED
      BY <2>2, <2>3, <2>4
<1> QED
    BY <1>2, <1>4 DEF LiveInv

LEMMA LiveReceived ==
  ASSUME TxsInv, TxsInv', StatusInv, LiveInv, ReceiveStep
  PROVE  LiveInv'
<1>0. PICK n : n = Len(txs')
      OBVIOUS
<1>1. Live \subseteq Ids /\ Live' = Live \cup {n} /\ n \notin Ids /\ Extended
      BY <1>0, ReceiveStatus DEF Live, In, ReceiveStep
<1>2. txs'[n].ins = <<>> /\ Spent(n)' = {}
  <2>1. txs'[n].ins = <<>>
        BY <1>0 DEF ReceiveStep
  <2> QED
      BY <2>1 DEF Spent, ToSet
<1>3. ASSUME NEW u \in Live
      PROVE  /\ Spent(u)' \subseteq CoinsAfter(Live \ {u})'
             /\ txs'[u].ins # <<>> => txs'[u].fee >= Size(txs'[u])
  <2>1. Spent(u)' = Spent(u) /\ txs'[u] = txs[u]
        BY <1>1, CoinsStay DEF Extended
  <2>2. Spent(u) \subseteq CoinsAfter(Live \ {u})
        BY DEF LiveInv
  <2>3. ASSUME NEW c \in Spent(u)
        PROVE  c \in CoinsAfter(Live \ {u})'
    <3>1. c \in CoinsAfter(Live \ {u})
          BY <2>2
    <3>2. c \in Genesis \/ \E v \in Live \ {u} : c \in Made(v)
          BY <3>1 DEF CoinsAfter
    <3>3. \A w \in Live \ {u} : c \notin Spent(w)
          BY <3>1 DEF CoinsAfter
    <3>4. \A v \in Live : Made(v)' = Made(v) /\ Spent(v)' = Spent(v)
          BY <1>1, CoinsStay
    <3>5. c \in Genesis \/ \E v \in Live' \ {u} : c \in Made(v)'
          BY <1>1, <3>2, <3>4
    <3>6. \A w \in Live' \ {u} : c \notin Spent(w)'
          BY <1>1, <1>2, <3>3, <3>4
    <3> QED
        BY <3>5, <3>6 DEF CoinsAfter
  <2> QED
      BY <2>1, <2>3 DEF LiveInv
<1> QED
    BY <1>1, <1>2, <1>3 DEF LiveInv

(* Coins a mined transaction spends are of the mined ones, or the first.   *)
LEMMA MinedSources ==
  ASSUME TxsInv, StatusInv, ChainInv, NEW u \in In("mined"), NEW c \in Spent(u)
  PROVE  c.tx = 0 \/ c.tx \in In("mined")
<1>1. PICK i \in DOMAIN chain : u = chain[i]
      BY DEF StatusInv, ToSet
<1> DEFINE T == {chain[j] : j \in 1..(i - 1)}
<1>2. c \in CoinsAfter(T)
      BY <1>1 DEF ChainInv
<1>3. T \subseteq In("mined")
      BY <1>1 DEF StatusInv, ToSet
<1>4. T \subseteq Ids
      BY <1>3 DEF In
<1> HIDE DEF T
<1> QED
    BY <1>2, <1>3, <1>4, CoinsAfterFacts

LEMMA FeeSumType ==
  ASSUME TxsInv, NEW T, T \subseteq Ids
  PROVE  FeeSum(T) \in Nat
<1> DEFINE f == [u \in T |-> txs[u].fee]
<1>1. IsFiniteSet(T)
      BY IdsFacts, FS_Subset
<1>2. \A u \in Ids : txs[u].fee \in Nat
      BY DEF TxsInv, IsReceived, IsOwn, IsBuilt, Balanced
<1>3. IsFiniteSet(DOMAIN f) /\ \A u \in DOMAIN f : f[u] \in Nat
      BY <1>1, <1>2
<1> HIDE DEF f
<1>4. SumFunction(f) \in Nat
      BY <1>3, AmountsSum DEF IsAmounts
<1> QED
    BY <1>4 DEF FeeSum, f

LEMMA LiveSubmitted ==
  ASSUME TxsInv, StatusInv, LiveInv, ChainInv, NEW t \in Ids, Submit(t)
  PROVE  LiveInv'
<1> DEFINE evicted == WithDescendants(Conflicts(t))
<1>1. /\ t \notin Live /\ Live' = (Live \ evicted) \cup {t} /\ Live \subseteq Ids
      BY SubmitStatus DEF Live, In
<1>2. /\ Spent(t) \subseteq CoinsAfter(Live \ evicted)
      /\ txs[t].fee >= FeeSum(evicted) + Vsize(t)
      BY DEF Submit, Accepts
<1>3. /\ evicted \subseteq In("pending")
      /\ \A u \in In("pending") : \A c \in Spent(u) : c.tx \in evicted => u \in evicted
      BY DescendantsFacts
<1>4. txs' = txs /\ Extended
      BY SameTxs DEF Submit
<1>5. \A u \in Ids : Spent(u)' = Spent(u) /\ Made(u)' = Made(u)
      BY <1>4, CoinsStay
<1>6. FeeSum(evicted) \in Nat
  <2>1. evicted \subseteq Ids
        BY <1>3 DEF In
  <2> QED
      BY <2>1, FeeSumType
<1> HIDE DEF evicted
<1>7. txs[t].fee >= Size(txs[t])
  <2>1. Size(txs[t]) = Vsize(t)
        BY DEF Size, Vsize
  <2>2. Vsize(t) \in Int /\ txs[t].fee \in Int
    <3>1. txs[t].fee \in Nat
          BY DEF TxsInv, IsReceived, IsOwn, IsBuilt, Balanced
    <3>2. Len(txs[t].ins) \in Nat
          BY DEF TxsInv, IsReceived, IsOwn, IsBuilt
    <3>3. IsFiniteSet(DOMAIN txs[t].outs)
          BY OutputsPositive DEF TxsInv, IsPositive
    <3>4. Cardinality(DOMAIN txs[t].outs) \in Nat
          BY <3>3, FS_CardinalityType
    <3>5. EstimateTxVsize(Len(txs[t].ins), Cardinality(DOMAIN txs[t].outs)) \in Nat
          BY <3>2, <3>4, VsizeType
    <3> QED
        BY <3>1, <3>5 DEF Vsize
  <2> QED
      BY <1>2, <1>6, <2>1, <2>2
<1>8. ASSUME NEW c \in Spent(t)
      PROVE  c \in CoinsAfter(Live \ {t})'
  <2>1. c \in CoinsAfter(Live \ evicted)
        BY <1>2
  <2>2. Live' \ {t} = Live \ evicted
        BY <1>1
  <2>3. c \in Genesis \/ \E v \in Live \ evicted : c \in Made(v)
        BY <2>1 DEF CoinsAfter
  <2>4. \A w \in Live \ evicted : c \notin Spent(w)
        BY <2>1 DEF CoinsAfter
  <2>5. c \in Genesis \/ \E v \in Live' \ {t} : c \in Made(v)'
        BY <1>1, <1>5, <2>2, <2>3
  <2>6. \A w \in Live' \ {t} : c \notin Spent(w)'
        BY <1>1, <1>5, <2>2, <2>4
  <2> QED
      BY <2>5, <2>6 DEF CoinsAfter
<1>9. ASSUME NEW u \in Live \ evicted, NEW c \in Spent(u)
      PROVE  c \in CoinsAfter(Live \ {u})'
  <2>1. c \in CoinsAfter(Live \ {u})
        BY DEF LiveInv
  <2>2. c \in Genesis \/ \E v \in Live \ {u} : c \in Made(v)
        BY <2>1 DEF CoinsAfter
  <2>3. \A w \in Live \ {u} : c \notin Spent(w)
        BY <2>1 DEF CoinsAfter
  <2>4. ASSUME NEW v \in Live \ {u}, c \in Made(v)
        PROVE  v \notin evicted
    <3>1. c.tx = v
          BY <1>1, <2>4, MadeFacts
    <3>2. CASE u \in In("pending")
          BY <1>3, <3>1, <3>2
    <3>3. CASE u \in In("mined")
      <4>1. v = 0 \/ v \in In("mined")
            BY <3>1, <3>3, MinedSources
      <4>2. v # 0
            BY <1>1, IdsFacts
      <4> QED
          BY <1>3, <4>1, <4>2 DEF In
    <3> QED
        BY <3>2, <3>3 DEF Live
  <2>5. c \in Genesis \/ \E v \in Live' \ {u} : c \in Made(v)'
        BY <1>1, <1>5, <2>2, <2>4
  <2>6. c \notin Spent(t)
    <3>1. c \notin CoinsAfter(Live \ evicted)
          BY DEF CoinsAfter
    <3> QED
        BY <1>2, <3>1
  <2>7. \A w \in Live' \ {u} : c \notin Spent(w)'
        BY <1>1, <1>5, <2>3, <2>6
  <2> QED
      BY <2>5, <2>7 DEF CoinsAfter
<1>10. \A u \in Live' : Spent(u)' \subseteq CoinsAfter(Live \ {u})'
       BY <1>1, <1>5, <1>8, <1>9
<1>11. \A u \in Live' : txs'[u].ins # <<>> => txs'[u].fee >= Size(txs'[u])
       BY <1>1, <1>4, <1>7 DEF LiveInv
<1> QED
    BY <1>10, <1>11 DEF LiveInv
LEMMA ChainGrows ==
  ASSUME TxsInv, StatusInv, ChainInv, Extended, NEW t,
         chain' = chain \/ (Mined(t) /\ \A c \in Spent(t)' : c \in CoinsAfter(In("mined")))
  PROVE  ChainInv'
<1>1. chain \in Seq(Ids) /\ Len(chain) \in Nat /\ DOMAIN chain = 1..Len(chain)
      BY DEF StatusInv
<1> DEFINE Before(i) == {chain[j] : j \in 1..(i - 1)}
<1>2. ASSUME NEW i \in DOMAIN chain, chain'[i] = chain[i],
             \A j \in 1..(i - 1) : chain'[j] = chain[j]
      PROVE  Spent(chain[i])' \subseteq CoinsAfter({chain[j] : j \in 1..(i - 1)})'
  <2>1. PICK u \in Ids : u = chain[i]
        BY <1>1
  <2>2. Before(i) \in SUBSET Ids
        BY <1>1
  <2>3. PICK T \in SUBSET Ids : T = Before(i)
        BY <2>2
  <2>4. Spent(u) \subseteq CoinsAfter(T)
        BY <2>1, <2>3 DEF ChainInv
  <2>5. Spent(u)' \subseteq CoinsAfter(T)'
        BY <2>4, CoinsStay
  <2>6. Before(i)' = T
        BY <1>2, <2>3
  <2>7. Spent(chain[i])' = Spent(u)'
        BY <1>2, <2>1 DEF Spent
  <2>8. CoinsAfter(Before(i))' = CoinsAfter(T)'
    <3> HIDE DEF Before
    <3> QED
        BY <2>6 DEF CoinsAfter
  <2> QED
      BY <2>5, <2>7, <2>8
<1>3. CASE chain' = chain
      BY <1>2, <1>3 DEF ChainInv
<1>4. CASE Mined(t) /\ \A c \in Spent(t)' : c \in CoinsAfter(In("mined"))
  <2> DEFINE n == Len(chain) + 1
  <2>1. /\ chain'[n] = t /\ DOMAIN chain' = DOMAIN chain \cup {n}
        /\ \A i \in DOMAIN chain : chain'[i] = chain[i]
        BY <1>4 DEF Mined
  <2>2. \A i \in DOMAIN chain : \A j \in 1..(i - 1) : j \in DOMAIN chain
        BY <1>1
  <2>3. \A i \in DOMAIN chain :
          Spent(chain[i])' \subseteq CoinsAfter({chain[j] : j \in 1..(i - 1)})'
        BY <1>2, <2>1, <2>2
  <2>4. PICK T \in SUBSET Ids : T = In("mined")
        BY DEF In
  <2>5. {chain'[j] : j \in 1..(n - 1)} = T
    <3>1. 1..(n - 1) = DOMAIN chain
          BY <1>1
    <3>2. {chain'[j] : j \in DOMAIN chain} = {chain[j] : j \in DOMAIN chain}
          BY <2>1
    <3>3. {chain[j] : j \in DOMAIN chain} = T
          BY <2>4 DEF StatusInv, ToSet
    <3> QED
        BY <3>1, <3>2, <3>3
  <2>6. Spent(t)' \subseteq CoinsAfter(T)'
        BY <1>4, <2>4, CoinsStay
  <2>7. PICK m : m = n
        OBVIOUS
  <2>8. Spent(chain[m])' = Spent(t)'
        BY <2>1, <2>7 DEF Spent
  <2>9. CoinsAfter({chain[j] : j \in 1..(m - 1)})' = CoinsAfter(T)'
        BY <2>5, <2>7 DEF CoinsAfter
  <2>10. Spent(chain[m])' \subseteq CoinsAfter({chain[j] : j \in 1..(m - 1)})'
         BY <2>6, <2>8, <2>9
  <2>11. DOMAIN chain' = DOMAIN chain \cup {m}
         BY <2>1, <2>7
  <2> QED
      BY <2>3, <2>10, <2>11 DEF ChainInv
<1> QED
    BY <1>3, <1>4
-----------------------------------------------------------------------------
PaymentsInv == TxsInv /\ StatusInv /\ LiveInv /\ ChainInv

LEMMA PaymentsInit == Init => PaymentsInv
<1> SUFFICES ASSUME Init PROVE PaymentsInv
    OBVIOUS
<1>1. txs = <<>> /\ status = <<>> /\ chain = <<>> /\ orders = {} /\ cursor = 0 /\ raw = {}
      BY DEF Init
<1>2. Ids = {} /\ Live = {} /\ In("mined") = {} /\ ToSet(chain) = {} /\ Len(txs) = 0
      BY <1>1 DEF Ids, Live, In, ToSet
<1>3. TxsInv
      BY <1>1, <1>2 DEF TxsInv
<1>4. StatusInv
  <2>1. status \in Seq(Statuses) /\ Len(status) = 0 /\ chain \in Seq(Ids) /\ Len(chain) = 0
        BY <1>1, EmptySeq
  <2>2. Distinct(chain) /\ raw \subseteq Scanned /\ cursor \in 0..Len(chain)
        BY <1>1, <2>1 DEF Distinct
  <2>3. Len(txs) <= MaxTxs /\ Len(status) = Len(txs)
        BY <1>2, <2>1, TxsAssumption
  <2>4. ToSet(chain) = In("mined") /\ orders \subseteq Ids
        BY <1>1, <1>2
  <2> QED
      BY ONLY <2>1, <2>2, <2>3, <2>4 DEF StatusInv
<1>5. LiveInv /\ ChainInv
      BY <1>1, <1>2 DEF LiveInv, ChainInv
<1> QED
    BY <1>3, <1>4, <1>5 DEF PaymentsInv

LEMMA PaymentsStep == PaymentsInv /\ [Next]_vars => PaymentsInv'
<1> SUFFICES ASSUME PaymentsInv, [Next]_vars PROVE PaymentsInv'
    OBVIOUS
<1>1. TxsInv /\ StatusInv /\ LiveInv /\ ChainInv
      BY DEF PaymentsInv
<1>2. CASE Wallet
  <2>1. TxsInv' /\ DraftStep
        BY <1>1, <1>2, WalletTxs
  <2>2. Extended /\ chain' = chain
        BY <2>1 DEF DraftStep
  <2>3. StatusInv' /\ Live' = Live
        BY <1>1, <2>1, DraftStatus
  <2>4. LiveInv'
        BY <1>1, <2>2, <2>3, LiveKept
  <2>5. ChainInv'
        BY <1>1, <2>2, ChainGrows
  <2> QED
      BY <2>1, <2>3, <2>4, <2>5 DEF PaymentsInv
<1>3. ASSUME NEW t \in Ids, Submit(t)
      PROVE  PaymentsInv'
  <2>1. txs' = txs /\ chain' = chain
        BY <1>3 DEF Submit
  <2>2. TxsInv' /\ Extended
        BY <1>1, <2>1, SameTxs
  <2>3. StatusInv'
        BY <1>1, <1>3, SubmitStatus
  <2>4. LiveInv'
        BY <1>1, <1>3, LiveSubmitted
  <2>5. ChainInv'
        BY <1>1, <2>1, <2>2, ChainGrows
  <2> QED
      BY <2>2, <2>3, <2>4, <2>5 DEF PaymentsInv
<1>4. ASSUME NEW t \in Ids, Mine(t)
      PROVE  PaymentsInv'
  <2>1. txs' = txs /\ Spent(t) \subseteq CoinsAfter(In("mined"))
        BY <1>4 DEF Mine
  <2>2. TxsInv' /\ Extended
        BY <1>1, <2>1, SameTxs
  <2>3. StatusInv' /\ Live' = Live /\ Mined(t)
        BY <1>1, <1>4, MineStatus
  <2>4. LiveInv'
        BY <1>1, <2>2, <2>3, LiveKept
  <2>5. Spent(t)' = Spent(t)
        BY <1>4, <2>2, CoinsStay
  <2>6. ChainInv'
        BY <1>1, <2>1, <2>2, <2>3, <2>5, ChainGrows
  <2> QED
      BY <2>2, <2>3, <2>4, <2>6 DEF PaymentsInv
<1>5. ASSUME NEW outs \in Incoming, Receive(outs)
      PROVE  PaymentsInv'
  <2>1. TxsInv' /\ ReceiveStep
        BY <1>1, <1>5, ReceiveTxs
  <2>2. StatusInv'
        BY <1>1, <2>1, ReceiveStatus
  <2>3. LiveInv'
        BY <1>1, <2>1, LiveReceived
  <2>4. PICK n : n = Len(txs')
        OBVIOUS
  <2>5. Mined(n)
        BY <1>1, <2>1, <2>4, ReceiveMined
  <2>6. Spent(n)' = {}
    <3>1. txs'[n].ins = <<>>
          BY <2>1, <2>4 DEF ReceiveStep
    <3> QED
        BY <3>1 DEF Spent, ToSet
  <2>7. ChainInv'
        BY <1>1, <2>1, <2>5, <2>6, ChainGrows DEF ReceiveStep
  <2> QED
      BY <2>1, <2>2, <2>3, <2>7 DEF PaymentsInv
<1>6. ASSUME NEW t \in Ids, RecordOrder(t)
      PROVE  PaymentsInv'
  <2>1. txs' = txs /\ chain' = chain
        BY <1>6 DEF RecordOrder
  <2>2. TxsInv' /\ Extended
        BY <1>1, <2>1, SameTxs
  <2>3. StatusInv' /\ Live' = Live
        BY <1>1, <1>6, RecordStatus
  <2>4. LiveInv' /\ ChainInv'
        BY <1>1, <2>1, <2>2, <2>3, LiveKept, ChainGrows
  <2> QED
      BY <2>2, <2>3, <2>4 DEF PaymentsInv
<1>7. CASE ScanBlock
  <2>1. txs' = txs /\ chain' = chain
        BY <1>7 DEF ScanBlock
  <2>2. TxsInv' /\ Extended
        BY <1>1, <2>1, SameTxs
  <2>3. StatusInv' /\ Live' = Live
        BY <1>1, <1>7, ScanStatus
  <2>4. LiveInv' /\ ChainInv'
        BY <1>1, <2>1, <2>2, <2>3, LiveKept, ChainGrows
  <2> QED
      BY <2>2, <2>3, <2>4 DEF PaymentsInv
<1>8. CASE UNCHANGED vars
  <2>1. UNCHANGED <<txs, status, chain, orders, cursor, raw>>
        BY <1>8 DEF vars, scanner
  <2>2. TxsInv' /\ Extended
        BY <1>1, <2>1, SameTxs
  <2>3. /\ Ids' = Ids /\ Live' = Live /\ In("mined")' = In("mined") /\ Scanned' = Scanned
        /\ ToSet(chain)' = ToSet(chain)
        BY <2>1 DEF Ids, Live, In, Scanned
  <2>4. StatusInv'
        BY <1>1, <2>1, <2>3 DEF StatusInv
  <2>5. LiveInv' /\ ChainInv'
        BY <1>1, <2>1, <2>2, <2>3, LiveKept, ChainGrows
  <2> QED
      BY <2>2, <2>4, <2>5 DEF PaymentsInv
<1> QED
    BY <1>2, <1>3, <1>4, <1>5, <1>6, <1>7, <1>8 DEF Next, Network

THEOREM PaymentsInvariant == Spec => []PaymentsInv
BY PaymentsInit, PaymentsStep, PTL DEF Spec
-----------------------------------------------------------------------------
(* What follows of every transaction.                                      *)

LEMMA OwnFacts ==
  ASSUME TxsInv, NEW t \in Ids, txs[t].ins # <<>>
  PROVE  /\ IsOwn(txs[t], t) /\ Balanced(txs[t], Managed) /\ IsCoins(txs[t].ins)
         /\ IsAmounts(txs[t].outs) /\ IsAmounts(txs[t].to)
         /\ DOMAIN txs[t].to \subseteq DOMAIN txs[t].outs
         /\ Total(txs[t].ins) \in Nat /\ SumFunction(txs[t].outs) \in Nat /\ txs[t].fee \in Nat
         /\ Total(txs[t].ins) = SumFunction(txs[t].outs) + txs[t].fee
<1>1. IsOwn(txs[t], t)
      BY DEF TxsInv, IsReceived
<1>2. Balanced(txs[t], Managed)
      BY <1>1 DEF IsOwn, IsBuilt
<1>3. /\ IsCoins(txs[t].ins) /\ IsPositive(txs[t].to) /\ txs[t].fee \in Nat
      /\ Total(txs[t].ins) = SumFunction(txs[t].outs) + txs[t].fee
      BY <1>2 DEF Balanced
<1>4. IsPositive(txs[t].outs) /\ DOMAIN txs[t].to \subseteq DOMAIN txs[t].outs
      BY <1>2, BalancedOutputs
<1>5. IsAmounts(txs[t].outs) /\ IsAmounts(txs[t].to) /\ SumFunction(txs[t].outs) \in Nat
      BY <1>3, <1>4, PositiveAmounts
<1>6. Total(txs[t].ins) \in Nat
      BY <1>3, TotalType
<1> QED
    BY <1>1, <1>2, <1>3, <1>4, <1>5, <1>6

(* The fee a raw transaction reports is what its inputs leave to the miner, *)
(* whichever builder made it: payment, sweep, speed-up or cancel.          *)
THEOREM FeePaid == Spec => []FeeIsWhatIsPaid
<1>1. ASSUME PaymentsInv PROVE FeeIsWhatIsPaid
  <2> SUFFICES ASSUME NEW t \in Ids, txs[t].ins # <<>>
               PROVE  Total(txs[t].ins) - SumFunction(txs[t].outs) = txs[t].fee
      BY DEF FeeIsWhatIsPaid
  <2>1. TxsInv
        BY <1>1 DEF PaymentsInv
  <2>2. /\ Total(txs[t].ins) \in Nat /\ SumFunction(txs[t].outs) \in Nat /\ txs[t].fee \in Nat
        /\ Total(txs[t].ins) = SumFunction(txs[t].outs) + txs[t].fee
        BY <2>1, OwnFacts
  <2> QED
      BY <2>2
<1> QED
    BY <1>1, PaymentsInvariant, PTL

(* The change of a payment is less than what its receiver put in, so that  *)
(* the scanner never takes it for a credit to a sibling.                   *)
THEOREM ChangeFits == Spec => []ChangeFitsPayer
<1>1. ASSUME PaymentsInv PROVE ChangeFitsPayer
  <2> SUFFICES ASSUME NEW t \in Ids, Fresh(t), NEW p \in Payers(txs[t].ins) \ DOMAIN txs[t].to
               PROVE  Vout(txs[t], p) < Vin(txs[t], p)
      BY DEF ChangeFitsPayer
  <2>1. IsOwn(txs[t], t) /\ txs[t].origin = 0
        BY <1>1, OwnFacts DEF PaymentsInv, Fresh
  <2> QED
      BY <2>1 DEF IsOwn, IsFresh, Fits, Vout, Vin
<1> QED
    BY <1>1, PaymentsInvariant, PTL

-----------------------------------------------------------------------------
(* What an order has to be for the scanner to book by it.                  *)

(* What is not the payers' adds up to the payment.                         *)
LEMMA OthersArePaid ==
  ASSUME NEW tx, IsAmounts(tx.outs), IsAmounts(tx.to), DOMAIN tx.to \subseteq DOMAIN tx.outs,
         NEW P, P \cap DOMAIN tx.to = {},
         \A a \in DOMAIN tx.outs \ P : Vout(tx, a) = At(tx.to, a)
  PROVE  SumFunctionOnSet(tx.outs, DOMAIN tx.outs \ P) = SumFunction(tx.to)
<1> DEFINE others == DOMAIN tx.outs \ P
           f == [a \in others |-> At(tx.to, a)]
<1>1. IsFiniteSet(others)
      BY FS_Subset DEF IsAmounts
<1>2. \A a \in others : tx.outs[a] = f[a]
      BY DEF Vout, At
<1>3. \A a \in others : f[a] \in Int /\ (a \notin DOMAIN tx.to => f[a] = 0)
      BY DEF At, IsAmounts
<1>4. DOMAIN tx.to \subseteq others /\ IsFiniteSet(DOMAIN tx.to)
      BY DEF IsAmounts
<1>5. \A a \in DOMAIN tx.to : f[a] = tx.to[a]
      BY <1>4 DEF At
<1> HIDE DEF f, others
<1>6. SumFunctionOnSet(tx.outs, others) = SumFunctionOnSet(f, others)
      BY <1>1, <1>2, SumEqual
<1>7. SumFunctionOnSet(f, others) = SumFunctionOnSet(f, DOMAIN tx.to)
      BY <1>1, <1>3, <1>4, SumExtended
<1>8. SumFunctionOnSet(f, DOMAIN tx.to) = SumFunctionOnSet(tx.to, DOMAIN tx.to)
      BY <1>4, <1>5, SumEqual
<1>9. SumFunctionOnSet(tx.to, DOMAIN tx.to) = SumFunction(tx.to)
      BY SumFunctionIs
<1> QED
    BY <1>6, <1>7, <1>8, <1>9 DEF others

(* The shares that are written are those of all that pay.                  *)
LEMMA SendOutDomain ==
  ASSUME NEW ins, IsCoins(ins), NEW to, NEW outs, PayerSendOut(ins, to, outs) # NotWritten
  PROVE  DOMAIN PayerSendOut(ins, to, outs) = Payers(ins)
<1> DEFINE order == PayerOrder(ins)
<1>1. ToSet(order) = Payers(ins)
      BY PayerOrderListed DEF Listed, IsCoins
<1>2. \A shares : DOMAIN ByPayer(order, shares) = Payers(ins)
      BY <1>1 DEF ByPayer
<1> QED
    BY <1>1, <1>2 DEF PayerSendOut, AssignPayable, PayableFromGross

(* What is paid goes to some addresses or to the others.                   *)
LEMMA OutsSplit ==
  ASSUME NEW outs, IsAmounts(outs), NEW P, IsFiniteSet(P),
         NEW vout, \A p \in P : vout[p] = At(outs, p)
  PROVE  /\ SumFunctionOnSet(vout, P) \in Nat
         /\ SumFunctionOnSet(outs, DOMAIN outs \ P) \in Nat
         /\ SumFunction(outs)
              = SumFunctionOnSet(vout, P) + SumFunctionOnSet(outs, DOMAIN outs \ P)
<1> DEFINE D == DOMAIN outs
           mine == D \cap P
           others == D \ P
<1>1. /\ IsFiniteSet(D) /\ (\A a \in D : outs[a] \in Nat)
      /\ IsFiniteSet(mine) /\ IsFiniteSet(others)
      BY FS_Subset DEF IsAmounts
<1>2. /\ mine \cap others = {} /\ mine \cup others = D /\ mine \subseteq P
      /\ \A a \in mine : vout[a] = outs[a] /\ outs[a] \in Nat
      /\ \A a \in P \ mine : vout[a] = 0
      /\ \A a \in P : vout[a] \in Nat
      /\ \A a \in others : outs[a] \in Nat
      BY <1>1 DEF At
<1>3. SumFunction(outs) = SumFunctionOnSet(outs, D)
      BY SumFunctionIs
<1> HIDE DEF D, mine, others
<1>4. SumFunctionOnSet(outs, mine \cup others)
        = SumFunctionOnSet(outs, mine) + SumFunctionOnSet(outs, others)
  <2>1. \A a \in mine \cup others : outs[a] \in Int
        BY <1>1, <1>2
  <2> QED
      BY <1>1, <1>2, <2>1, SumUnion
<1>5. SumFunctionOnSet(vout, P) = SumFunctionOnSet(vout, mine)
  <2>1. \A a \in P : vout[a] \in Int
        BY <1>2
  <2> QED
      BY <1>2, <2>1, SumExtended
<1>6. SumFunctionOnSet(vout, mine) = SumFunctionOnSet(outs, mine)
      BY <1>1, <1>2, SumEqual
<1>7. SumFunctionOnSet(vout, P) \in Nat /\ SumFunctionOnSet(outs, others) \in Nat
      BY <1>1, <1>2, SumNat
<1>8. SumFunctionOnSet(outs, mine \cup others) = SumFunctionOnSet(outs, D)
      BY <1>2
<1> QED
    BY <1>3, <1>4, <1>5, <1>6, <1>7, <1>8 DEF D, others

LEMMA BookedAreAll ==
  ASSUME NEW tx, Payers(tx.ins) \subseteq Managed, NEW sendOut, DOMAIN sendOut = Payers(tx.ins),
         RequiresAccounting(tx)
  PROVE  BookedPayers(tx, sendOut) = Payers(tx.ins)
<1> DEFINE D == DOMAIN sendOut
<1>1. CASE Cardinality(D) > 1
      BY <1>1 DEF BookedPayers
<1>2. CASE ~(Cardinality(D) > 1)
  <2>1. IsFiniteSet(D) /\ Cardinality(D) \in Nat
        BY ManagedAssumption, FS_Subset, FS_CardinalityType
  <2>2. BookedPayers(tx, sendOut) = PayerLegs(tx)
        BY <1>2 DEF BookedPayers
  <2>3. PayerLegs(tx) \subseteq D /\ PayerLegs(tx) # {}
        BY DEF RequiresAccounting, PayerLegs
  <2>4. PICK p \in PayerLegs(tx) : p \in D
        BY <2>3
  <2>5. Cardinality(D \ {p}) = Cardinality(D) - 1 /\ IsFiniteSet(D \ {p})
        BY <2>1, <2>4, FS_RemoveElement
  <2>6. Cardinality(D \ {p}) \in Nat
        BY <2>5, FS_CardinalityType
  <2>7. Cardinality(D \ {p}) = 0
        BY <1>2, <2>1, <2>5, <2>6
  <2>8. D \ {p} = {}
        BY <2>5, <2>7, FS_EmptySet
  <2> QED
      BY <2>2, <2>3, <2>4, <2>8
<1> QED
    BY <1>1, <1>2

(* What the funding addresses give, all told, is the payment and the fee.  *)
LEMMA NetAddsUp ==
  ASSUME NEW ins, IsCoins(ins), NEW outs, IsAmounts(outs), NEW P, P = Payers(ins),
         NEW fee \in Nat, Total(ins) - SumFunction(outs) = fee,
         NEW E \in Nat, SumFunctionOnSet(outs, DOMAIN outs \ P) = E,
         NEW net, \A p \in P : net[p] = VinOf(ins, p) - At(outs, p)
  PROVE  SumFunctionOnSet(net, P) = E + fee
<1> DEFINE vin == [p \in P |-> VinOf(ins, p)]
           vout == [p \in P |-> At(outs, p)]
<1>1. SumFunctionOnSet(vin, P) = Total(ins) /\ IsFiniteSet(P)
      BY VinsAddUp
<1>2. ASSUME NEW p \in P
      PROVE  vin[p] \in Nat /\ vout[p] \in Nat /\ net[p] \in Int /\ vin[p] = net[p] + vout[p]
  <2>1. VinOf(ins, p) \in Nat
        BY VinType
  <2>2. At(outs, p) \in Nat
        BY DEF At, IsAmounts
  <2>3. net[p] = VinOf(ins, p) - At(outs, p)
        OBVIOUS
  <2> QED
      BY <2>1, <2>2, <2>3
<1>3. SumFunction(outs) = SumFunctionOnSet(vout, P) + E /\ SumFunctionOnSet(vout, P) \in Nat
  <2>1. \A p \in P : vout[p] = At(outs, p)
        OBVIOUS
  <2> HIDE DEF vout
  <2> QED
      BY <1>1, <2>1, OutsSplit
<1> HIDE DEF vin, vout
<1>4. SumFunctionOnSet(vin, P) = SumFunctionOnSet(net, P) + SumFunctionOnSet(vout, P)
  <2>1. \A p \in P : net[p] \in Int /\ vout[p] \in Int /\ vin[p] = net[p] + vout[p]
        BY <1>2
  <2> QED
      BY <1>1, <2>1, SumPlus
<1>5. SumFunctionOnSet(net, P) \in Int
      BY <1>1, <1>2, SumInt
<1> DEFINE a == SumFunctionOnSet(net, P)
           b == SumFunctionOnSet(vout, P)
<1>6. /\ a \in Int /\ b \in Nat /\ Total(ins) = a + b /\ SumFunction(outs) = b + E
      BY <1>1, <1>3, <1>4, <1>5
<1> HIDE DEF a, b
<1>7. a = E + fee
      BY <1>6
<1> QED
    BY <1>7 DEF a

(* Shares that add up to the payment close the books of all that fund it,  *)
(* as long as nobody is charged with more than it gave.                    *)
LEMMA SharesReconcile ==
  ASSUME NEW tx, NEW P, P = Payers(tx.ins), P \subseteq Managed, IsFiniteSet(P), P # {},
         tx.ins # <<>>, IsCoins(tx.ins), IsAmounts(tx.outs), NEW fee \in Nat,
         Total(tx.ins) - SumFunction(tx.outs) = fee,
         NEW E \in Nat, SumFunctionOnSet(tx.outs, DOMAIN tx.outs \ P) = E,
         NEW s, DOMAIN s = P, \A p \in P : s[p] \in Nat, SumFunction(s) = E,
         \A p \in P : s[p] <= Vin(tx, p) - Vout(tx, p),
         \A p \in P : Vin(tx, p) > 0,
         RequiresAccounting(tx)
  PROVE  Reconciles(tx, s)
<1> DEFINE net == [p \in P |-> NetOut(tx, p)]
           fees == [p \in P |-> FeeOf(tx, s, p)]
<1>1. s # NotWritten
      BY DEF NotWritten
<1>2. BookedPayers(tx, s) = P
      BY BookedAreAll
<1>3. ASSUME NEW p \in P
      PROVE  /\ Vin(tx, p) \in Nat /\ Vout(tx, p) \in Nat /\ s[p] \in Nat
             /\ SelfChange(tx, p) = Vout(tx, p) /\ NetOut(tx, p) = Vin(tx, p) - Vout(tx, p)
             /\ s[p] <= NetOut(tx, p)
  <2>1. Vin(tx, p) \in Nat
        BY VinType DEF Vin
  <2>2. Vout(tx, p) \in Nat
        BY DEF Vout, At, IsAmounts
  <2>3. s[p] \in Nat /\ s[p] <= Vin(tx, p) - Vout(tx, p)
        OBVIOUS
  <2>4. SelfChange(tx, p) = Vout(tx, p)
        BY <2>1, <2>2, <2>3 DEF SelfChange
  <2> QED
      BY <2>1, <2>2, <2>3, <2>4 DEF NetOut
<1>4. ~HasIllegalPeerIn(tx, P)
  <2> SUFFICES ASSUME NEW p \in P PROVE Vin(tx, p) # 0 /\ ~(Vout(tx, p) > SelfChange(tx, p))
      BY DEF HasIllegalPeerIn
  <2>1. Vin(tx, p) > 0
        OBVIOUS
  <2> QED
      BY <1>3, <2>1
<1>5. SendOutAddsUp(tx, s)
  <2>1. ExternalOut(tx, s) = E
        BY <1>2 DEF ExternalOut
  <2>2. ~Differ(E, E)
        BY DEF Differ, Tolerance
  <2> QED
      BY <2>1, <2>2 DEF SendOutAddsUp
<1>6. net \in [P -> Int] /\ fees \in [P -> Int]
  <2>1. ASSUME NEW p \in P PROVE FeeOf(tx, s, p) \in Int
        BY <1>3 DEF FeeOf
  <2> QED
      BY <1>3, <2>1
<1>7. SumFunctionOnSet(net, P) = E + fee
  <2>1. \A p \in P : net[p] = VinOf(tx.ins, p) - At(tx.outs, p)
        BY <1>3 DEF Vin, Vout
  <2> HIDE DEF net
  <2> QED
      BY <2>1, NetAddsUp
<1>8. SumFunctionOnSet(net, P) = SumFunctionOnSet(fees, P) + E
  <2>1. ASSUME NEW p \in P
        PROVE  fees[p] \in Int /\ s[p] \in Int /\ net[p] = fees[p] + s[p]
    <3> DEFINE got == NetOut(tx, p)
               part == s[p]
    <3>1. net[p] = got /\ fees[p] = got - part
          BY DEF FeeOf
    <3>2. got \in Int /\ part \in Int
          BY <1>3
    <3> HIDE DEF net, fees, got, part
    <3>3. fees[p] \in Int /\ net[p] = fees[p] + part
          BY ONLY <3>1, <3>2
    <3> QED
        BY <3>2, <3>3 DEF part
  <2>2. SumFunctionOnSet(s, P) = E
        BY SumFunctionIs
  <2> HIDE DEF net, fees
  <2> QED
      BY <2>1, <2>2, SumPlus
<1>9. SumFunctionOnSet(fees, P) = fee
  <2>1. SumFunctionOnSet(fees, P) \in Int /\ SumFunctionOnSet(net, P) \in Int
    <3>1. \A p \in P : fees[p] \in Int /\ net[p] \in Int
          BY <1>6
    <3> HIDE DEF fees, net
    <3> QED
        BY <3>1, SumInt
  <2> DEFINE a == SumFunctionOnSet(fees, P)
  <2>2. E + fee = a + E /\ a \in Int
        BY <1>7, <1>8, <2>1
  <2> HIDE DEF a
  <2>3. a = fee
        BY <2>2
  <2> QED
      BY <2>3 DEF a
<1>10. FeesAddUp(tx, s)
  <2>1. SumFunction(fees) = fee
        BY <1>9, SumFunctionIs
  <2>2. ChainFee(tx) = fee
    <3>1. (Max({0, fee}) = 0 \/ Max({0, fee}) = fee) /\ Max({0, fee}) >= fee /\ Max({0, fee}) >= 0
          BY 0 \in Int /\ fee \in Int, MaxOfTwo
    <3>2. Max({0, fee}) = fee
          BY <3>1
    <3> QED
        BY <3>2 DEF ChainFee
  <2>3. ~Differ(fee, fee)
        BY DEF Differ, Tolerance
  <2> QED
      BY <1>2, <2>1, <2>2, <2>3 DEF FeesAddUp
<1>11. \A p \in P : s[p] <= NetOut(tx, p)
       BY <1>3
<1> QED
    BY <1>1, <1>2, <1>4, <1>5, <1>10, <1>11 DEF Reconciles

(* A funding address gave something.                                       *)
LEMMA VinPositive ==
  ASSUME NEW t \in Nat, NEW ins \in Seq(CoinsBefore(t)), IsCoins(ins), NEW p \in Payers(ins)
  PROVE  VinOf(ins, p) \in Nat /\ VinOf(ins, p) > 0
<1>1. PICK i \in DOMAIN ins : ins[i].addr = p
      BY DEF Payers
<1>2. ins[i] \in CoinsBefore(t)
      OBVIOUS
<1>3. ins[i].amount \in Nat \ {0}
      BY <1>2 DEF CoinsBefore
<1>4. ins[i].amount <= VinOf(ins, p)
      BY <1>1, VinAtLeast
<1>5. VinOf(ins, p) \in Nat
      BY VinType
<1> QED
    BY <1>3, <1>4, <1>5

(* What a payment that returns the rest to its payers comes to.            *)
LEMMA PaysOthersFacts ==
  ASSUME TxsInv, NEW t \in Ids, PaysOthers(t), ReturnsToPayers(t),
         NEW tx, tx = txs[t], NEW P, P = Payers(tx.ins), NEW E, E = SumFunction(tx.to)
  PROVE  /\ tx.ins # <<>> /\ IsCoins(tx.ins) /\ IsAmounts(tx.outs) /\ IsAmounts(tx.to)
         /\ P \subseteq Managed /\ IsFiniteSet(P) /\ P # {} /\ E \in Nat
         /\ tx.sendOut = PayerSendOut(tx.ins, tx.to, tx.outs)
         /\ tx.fee \in Nat /\ Total(tx.ins) - SumFunction(tx.outs) = tx.fee
         /\ SumFunctionOnSet(tx.outs, DOMAIN tx.outs \ P) = E
         /\ \A p \in P : Vin(tx, p) \in Nat /\ Vin(tx, p) > 0 /\ Vout(tx, p) \in Nat
<1>1. tx.ins # <<>> /\ P \cap DOMAIN tx.to = {}
      BY DEF PaysOthers
<1>2. /\ IsOwn(tx, t) /\ Balanced(tx, Managed) /\ IsCoins(tx.ins)
      /\ IsAmounts(tx.outs) /\ IsAmounts(tx.to) /\ DOMAIN tx.to \subseteq DOMAIN tx.outs
      /\ Total(tx.ins) \in Nat /\ SumFunction(tx.outs) \in Nat /\ tx.fee \in Nat
      /\ Total(tx.ins) = SumFunction(tx.outs) + tx.fee
      BY <1>1, OwnFacts
<1>3. tx.ins \in Seq(CoinsBefore(t)) /\ tx.sendOut = PayerSendOut(tx.ins, tx.to, tx.outs)
      BY <1>2 DEF IsOwn, IsBuilt, Balanced
<1>4. t \in Nat
      BY IdsFacts
<1>5. P \subseteq Managed
  <2> SUFFICES ASSUME NEW i \in DOMAIN tx.ins PROVE tx.ins[i].addr \in Managed
      BY DEF Payers
  <2>1. tx.ins[i] \in CoinsBefore(t)
        BY <1>3
  <2> QED
      BY <2>1 DEF CoinsBefore
<1>6. IsFiniteSet(P)
      BY <1>5, ManagedAssumption, FS_Subset
<1>7. P # {}
  <2>1. 1 \in DOMAIN tx.ins
        BY <1>1, <1>2 DEF IsCoins
  <2> QED
      BY <2>1 DEF Payers
<1>8. E \in Nat
      BY <1>2, AmountsSum
<1>9. \A a \in DOMAIN tx.outs \ P : Vout(tx, a) = At(tx.to, a)
      BY DEF ReturnsToPayers
<1>10. SumFunctionOnSet(tx.outs, DOMAIN tx.outs \ P) = E
       BY <1>1, <1>2, <1>9, OthersArePaid
<1>11. ASSUME NEW p \in P PROVE Vin(tx, p) \in Nat /\ Vin(tx, p) > 0 /\ Vout(tx, p) \in Nat
  <2>1. VinOf(tx.ins, p) \in Nat /\ VinOf(tx.ins, p) > 0
        BY <1>2, <1>3, <1>4, VinPositive
  <2>2. Vout(tx, p) \in Nat
        BY <1>2 DEF Vout, At, IsAmounts
  <2> QED
      BY <2>1, <2>2 DEF Vin
<1>12. Total(tx.ins) - SumFunction(tx.outs) = tx.fee
       BY <1>2
<1> QED
    BY <1>1, <1>2, <1>3, <1>5, <1>6, <1>7, <1>8, <1>10, <1>11, <1>12

(* Shares that fit close the books ...                                     *)
LEMMA FittingReconciles ==
  ASSUME TxsInv, NEW t \in Ids, PaysOthers(t), ReturnsToPayers(t),
         RequiresAccounting(txs[t]), SharesFit(t)
  PROVE  Reconciles(txs[t], txs[t].sendOut)
<1> DEFINE tx == txs[t]
           P == Payers(tx.ins)
           E == SumFunction(tx.to)
           s == tx.sendOut
           fee == tx.fee
<1>1. /\ tx.ins # <<>> /\ IsCoins(tx.ins) /\ IsAmounts(tx.outs) /\ IsAmounts(tx.to)
      /\ P \subseteq Managed /\ IsFiniteSet(P) /\ P # {} /\ E \in Nat
      /\ s = PayerSendOut(tx.ins, tx.to, tx.outs)
      /\ fee \in Nat /\ Total(tx.ins) - SumFunction(tx.outs) = fee
      /\ SumFunctionOnSet(tx.outs, DOMAIN tx.outs \ P) = E
      /\ \A p \in P : Vin(tx, p) \in Nat /\ Vin(tx, p) > 0 /\ Vout(tx, p) \in Nat
      BY PaysOthersFacts
<1>2. DOMAIN s = P /\ \A p \in P : s[p] <= Vin(tx, p) - Vout(tx, p)
      BY DEF SharesFit, Given
<1>3. RequiresAccounting(tx)
      OBVIOUS
<1> HIDE DEF tx
<1>4. s # NotWritten
      BY <1>1, <1>2 DEF NotWritten
<1>5. \A p \in P : s[p] \in Nat
      BY <1>1, <1>2, SendOutType
<1>6. SumFunction(s) = E
      BY <1>1, <1>4, SendOutSum
<1> HIDE DEF s, E, fee
<1>7. Reconciles(tx, s)
      BY <1>1, <1>2, <1>3, <1>5, <1>6, SharesReconcile
<1> QED
    BY <1>7 DEF s, tx

(* ... and no others do.                                                   *)
LEMMA ReconcilingFits ==
  ASSUME TxsInv, NEW t \in Ids, PaysOthers(t), ReturnsToPayers(t),
         RequiresAccounting(txs[t]), Reconciles(txs[t], txs[t].sendOut)
  PROVE  SharesFit(t)
<1> DEFINE tx == txs[t]
           P == Payers(tx.ins)
           s == tx.sendOut
<1>1. /\ IsCoins(tx.ins) /\ P \subseteq Managed
      /\ s = PayerSendOut(tx.ins, tx.to, tx.outs)
      /\ \A p \in P : Vin(tx, p) \in Nat /\ Vout(tx, p) \in Nat
      BY PaysOthersFacts
<1>2. RequiresAccounting(tx) /\ Reconciles(tx, s)
      OBVIOUS
<1> HIDE DEF tx
<1>3. s # NotWritten /\ ~HasIllegalPeerIn(tx, DOMAIN s)
      /\ \A p \in BookedPayers(tx, s) : s[p] <= NetOut(tx, p)
      BY <1>2 DEF Reconciles
<1>4. DOMAIN s = P
      BY <1>1, <1>3, SendOutDomain
<1>5. BookedPayers(tx, s) = P
      BY <1>1, <1>2, <1>4, BookedAreAll
<1>6. ASSUME NEW p \in P PROVE s[p] <= Vin(tx, p) - Vout(tx, p)
  <2>1. ~(Vout(tx, p) > SelfChange(tx, p)) /\ s[p] <= NetOut(tx, p)
        BY <1>3, <1>4, <1>5 DEF HasIllegalPeerIn
  <2>2. Vin(tx, p) \in Nat /\ Vout(tx, p) \in Nat
        BY <1>1
  <2>3. SelfChange(tx, p) = Vout(tx, p)
        BY <2>1, <2>2 DEF SelfChange
  <2> QED
      BY <2>1, <2>3 DEF NetOut
<1> QED
    BY <1>4, <1>6 DEF SharesFit, Given, s, tx

(* RefusedIfOvercharged: of the checks of tryBusinessPayerLegAccounting,   *)
(* those of the sums never fail on the order of such a payment, whichever  *)
(* rule made the shares and whatever its 64 bits did: the shares that are  *)
(* written add up to the payment, and what the payers give, to the payment *)
(* and the fee. It is refused for a share above what an address gave.      *)
THEOREM OverchargeAlone == Spec => []RefusedIfOvercharged
<1>1. PaymentsInv => RefusedIfOvercharged
      BY FittingReconciles, ReconcilingFits DEF PaymentsInv, RefusedIfOvercharged
<1> QED
    BY <1>1, PaymentsInvariant, PTL

(* What one address funds and pays to others is booked by its own order,   *)
(* and so is what replaces it while the change stays with that address.    *)
THEOREM OnePayerBooked == Spec => []OnePayerCanBeBooked
<1>1. ASSUME PaymentsInv PROVE OnePayerCanBeBooked
  <2> SUFFICES ASSUME NEW t \in Ids, PaysOthers(t), ReturnsToPayers(t),
                      Cardinality(Payers(txs[t].ins)) = 1, RequiresAccounting(txs[t])
               PROVE  Reconciles(txs[t], txs[t].sendOut)
      BY DEF OnePayerCanBeBooked, CanBeBooked
  <2> DEFINE tx == txs[t]
             P == Payers(tx.ins)
             E == SumFunction(tx.to)
             given == [p \in P |-> Vin(tx, p) - Vout(tx, p)]
  <2>1. /\ IsCoins(tx.ins) /\ IsAmounts(tx.outs) /\ IsFiniteSet(P) /\ E \in Nat /\ tx.fee \in Nat
        /\ tx.sendOut = PayerSendOut(tx.ins, tx.to, tx.outs)
        /\ Total(tx.ins) - SumFunction(tx.outs) = tx.fee
        /\ SumFunctionOnSet(tx.outs, DOMAIN tx.outs \ P) = E
        /\ \A p \in P : Vin(tx, p) \in Nat /\ Vout(tx, p) \in Nat
        BY <1>1, PaysOthersFacts DEF PaymentsInv
  <2>2. PICK p : P = {p}
        BY <2>1, FS_Singleton
  <2>3. tx.sendOut = [q \in {p} |-> E]
    <3>1. IsCoins(tx.ins) /\ Payers(tx.ins) = {p}
          BY <2>1, <2>2
    <3>2. PayerSendOut(tx.ins, tx.to, tx.outs) = [q \in {p} |-> SumFunction(tx.to)]
          BY ONLY <3>1, SendOutOfOnly
    <3> QED
        BY <2>1, <3>2
  <2>4. given[p] = E + tx.fee
    <3>1. \A q \in P : given[q] = VinOf(tx.ins, q) - At(tx.outs, q)
          BY DEF Vin, Vout
    <3>2. given[p] \in Int
          BY <2>1, <2>2
    <3> HIDE DEF tx, given, E
    <3>3. SumFunctionOnSet(given, P) = E + tx.fee
          BY <2>1, <3>1, NetAddsUp
    <3>4. SumFunctionOnSet(given, {p}) = given[p]
          BY <3>2, SumOne
    <3> QED
        BY <2>2, <3>3, <3>4
  <2>5. SharesFit(t)
    <3>1. E <= Vin(tx, p) - Vout(tx, p)
      <4>1. Vin(tx, p) - Vout(tx, p) = E + tx.fee
            BY <2>2, <2>4
      <4> HIDE DEF E
      <4> QED
          BY <2>1, <4>1
    <3> QED
        BY <2>2, <2>3, <3>1 DEF SharesFit, Given
  <2> QED
      BY <1>1, <2>5, FittingReconciles DEF PaymentsInv
<1> QED
    BY <1>1, PaymentsInvariant, PTL
-----------------------------------------------------------------------------
(* A replacement pays more than its origin, in all and per byte.           *)

LEMMA ProductMonotone ==
  ASSUME NEW a \in Nat, NEW b \in Nat, NEW x \in Nat, a >= b
  PROVE  a * x >= b * x
<1>1. PICK d \in Nat : a = b + d
  <2>1. a - b \in Nat /\ a = b + (a - b)
        OBVIOUS
  <2> QED
      BY <2>1
<1>2. a * x = b * x + d * x
      BY <1>1
<1>3. d * x \in Nat /\ b * x \in Nat
      OBVIOUS
<1> DEFINE dx == d * x
           bx == b * x
<1> HIDE DEF dx, bx
<1>4. dx \in Nat /\ bx \in Nat
      BY <1>3 DEF dx, bx
<1>5. bx + dx >= bx
      BY <1>4
<1> QED
    BY <1>2, <1>5 DEF dx, bx

LEMMA ProductsGrow ==
  ASSUME NEW a \in Nat, NEW b \in Nat, NEW x \in Nat, NEW y \in Nat, a > b, x >= y, x > 0
  PROVE  a * x > b * y
<1> DEFINE ax == a * x
           bx == b * x
           by == b * y
<1>1. a >= b + 1 /\ b + 1 \in Nat
      OBVIOUS
<1>2. ax >= (b + 1) * x
      BY <1>1, ProductMonotone
<1>3. (b + 1) * x = bx + x
      OBVIOUS
<1>4. bx >= by
  <2>1. x * b >= y * b
        BY ProductMonotone
  <2>2. x * b = bx /\ y * b = by
        OBVIOUS
  <2> QED
      BY <2>1, <2>2
<1>5. ax \in Nat /\ bx \in Nat /\ by \in Nat
      OBVIOUS
<1> HIDE DEF ax, bx, by
<1>6. ax > by
      BY <1>2, <1>3, <1>4, <1>5
<1> QED
    BY <1>6 DEF ax, by

(* The more a replacement pays, the less change it has left.               *)
LEMMA NoMoreOutputs ==
  ASSUME NEW tx, NEW o, Balanced(tx, Managed), Balanced(o, Managed), tx.ins = o.ins,
         tx.fee > o.fee, DOMAIN o.to \cap Managed = {},
         tx.to = o.to \/ Cardinality(DOMAIN tx.outs) = 1
  PROVE  /\ Cardinality(DOMAIN tx.outs) \in Nat /\ Cardinality(DOMAIN o.outs) \in Nat
         /\ Cardinality(DOMAIN tx.outs) <= Cardinality(DOMAIN o.outs)
<1>1. /\ tx.fee \in Nat /\ o.fee \in Nat /\ IsPositive(o.to) /\ IsPositive(tx.to)
      /\ SumFunction(tx.outs) + tx.fee = SumFunction(o.outs) + o.fee
      BY DEF Balanced
<1>2. /\ IsPositive(tx.outs) /\ IsPositive(o.outs)
      /\ DOMAIN o.to \subseteq DOMAIN o.outs
      BY BalancedOutputs
<1>3. SumFunction(tx.outs) \in Nat /\ SumFunction(o.outs) \in Nat /\ IsAmounts(o.to)
      /\ SumFunction(o.to) \in Nat
      BY <1>1, <1>2, PositiveAmounts
<1>4. IsFiniteSet(DOMAIN tx.outs) /\ IsFiniteSet(DOMAIN o.outs) /\ IsFiniteSet(DOMAIN o.to)
      BY <1>1, <1>2 DEF IsPositive
<1>5. /\ Cardinality(DOMAIN tx.outs) \in Nat /\ Cardinality(DOMAIN o.outs) \in Nat
      /\ Cardinality(DOMAIN o.to) \in Nat
      BY <1>4, FS_CardinalityType
<1>6. SumFunction(tx.outs) < SumFunction(o.outs)
      BY <1>1, <1>3
<1>7. CASE Cardinality(DOMAIN tx.outs) = 1
  <2>1. DOMAIN o.outs # {}
    <3>1. ASSUME DOMAIN o.outs = {} PROVE FALSE
      <4>1. SumFunction(o.outs) = 0
            BY <3>1, SumFunctionIs, SumEmpty
      <4> QED
          BY <1>3, <1>6, <4>1
    <3> QED
        BY <3>1
  <2>2. Cardinality(DOMAIN o.outs) # 0
        BY <1>4, <2>1, FS_EmptySet
  <2> QED
      BY <1>5, <1>7, <2>2
<1>8. CASE tx.to = o.to /\ tx.outs = o.to
  <2>1. Cardinality(DOMAIN o.to) <= Cardinality(DOMAIN o.outs)
        BY <1>2, <1>4, FS_Subset
  <2> QED
      BY <1>5, <1>8, <2>1
<1>9. CASE tx.to = o.to /\ tx.outs # o.to
  <2>1. PICK a \in Managed, c \in Nat \ {0} : tx.outs = AppendOutput(o.to, a, c)
        BY <1>9 DEF Balanced
  <2>2. DOMAIN tx.outs = DOMAIN o.to \cup {a} /\ SumFunction(tx.outs) = SumFunction(o.to) + c
    <3>1. c \in Nat /\ IsAmounts(o.to)
          BY <1>3
    <3>2. PICK outs : outs = tx.outs
          OBVIOUS
    <3>3. outs = AppendOutput(o.to, a, c)
          BY <2>1, <3>2
    <3>4. SumFunction(outs) = SumFunction(o.to) + c
          BY ONLY <3>1, <3>3, AppendFacts
    <3>5. DOMAIN outs = DOMAIN o.to \cup {a}
          BY ONLY <3>1, <3>3, AppendFacts
    <3> QED
        BY <3>2, <3>4, <3>5
  <2>3. o.outs # o.to
        BY <1>3, <1>6, <2>2
  <2>4. PICK b \in Managed, d \in Nat \ {0} : o.outs = AppendOutput(o.to, b, d)
        BY <2>3 DEF Balanced
  <2>5. DOMAIN o.outs = DOMAIN o.to \cup {b}
    <3>1. d \in Nat /\ IsAmounts(o.to)
          BY <1>3
    <3> QED
        BY ONLY <2>4, <3>1, AppendFacts
  <2>6. a \notin DOMAIN o.to /\ b \notin DOMAIN o.to
        BY <2>1, <2>4
  <2>7. /\ Cardinality(DOMAIN tx.outs) = Cardinality(DOMAIN o.to) + 1
        /\ Cardinality(DOMAIN o.outs) = Cardinality(DOMAIN o.to) + 1
        BY <1>4, <2>2, <2>5, <2>6, FS_AddElement
  <2> QED
      BY <1>5, <2>7
<1> QED
    BY <1>5, <1>7, <1>8, <1>9

LEMMA SizeType ==
  ASSUME NEW tx, Balanced(tx, Managed)
  PROVE  Size(tx) \in Nat /\ Size(tx) >= 11
<1>1. Len(tx.ins) \in Nat
      BY DEF Balanced, IsCoins
<1>2. IsFiniteSet(DOMAIN tx.outs)
      BY BalancedOutputs DEF IsPositive
<1>3. Cardinality(DOMAIN tx.outs) \in Nat
      BY <1>2, FS_CardinalityType
<1> QED
    BY <1>1, <1>3, VsizeType DEF Size

(* A replacement that knows what its origin pays is taken by the node as   *)
(* long as the origin is pending and unspent: it conflicts with nothing    *)
(* else, spends what there is, and pays more, in all and per byte. Change  *)
(* must be donated below a dust limit of at least the size of an output,   *)
(* as it is by default (546): the fee without a change slot is not enough  *)
(* for a transaction that has one.                                         *)
THEOREM ReplacementTaken ==
  OmitChangeBelowDust /\ DustLimit >= 31 => (Spec => []ReplacementAccepted)
<1>1. ASSUME OmitChangeBelowDust, DustLimit >= 31, PaymentsInv,
             NEW t \in In("draft"), NEW o, o = txs[t].origin, o \in In("pending"),
             txs[t].paid = txs[o].fee, DOMAIN txs[o].to \cap Managed = {},
             WithDescendants({o}) = {o}
      PROVE  Accepts(t)
  <2>1. TxsInv /\ LiveInv
        BY <1>1 DEF PaymentsInv
  <2>2. /\ t \in Ids /\ o \in Ids /\ o \in Live /\ t \notin Live /\ t # o
        /\ In("pending") \subseteq Live
        BY <1>1 DEF In, Live
  <2>3. o # 0
        BY <2>1, <2>2, IdsFacts
  <2>4. Replaces(txs[t], txs[o])
        BY <1>1, <2>1, <2>2, <2>3 DEF TxsInv
  <2>5. txs[t].ins # <<>> /\ txs[o].ins # <<>> /\ txs[t].ins = txs[o].ins /\ EnableRBF
    <3>1. IsOwn(txs[t], t)
          BY <1>1, <2>1, <2>2, <2>3 DEF TxsInv, IsReceived
    <3> QED
        BY <2>4, <3>1 DEF IsOwn, IsBuilt, Replaces
  <2>6. /\ Balanced(txs[t], Managed) /\ Balanced(txs[o], Managed)
        /\ txs[t].fee \in Nat /\ txs[o].fee \in Nat /\ Len(txs[t].ins) \in Nat
        BY <2>1, <2>2, <2>5, OwnFacts DEF IsCoins
  <2>7. txs[o].fee >= Size(txs[o]) /\ Size(txs[o]) \in Nat /\ Size(txs[o]) >= 11
        BY <2>1, <2>2, <2>5, <2>6, SizeType DEF LiveInv
  <2>8. Size(txs[t]) \in Nat /\ Size(txs[t]) >= 11
        BY <2>6, SizeType
  <2>9. txs[t].paid # 0
        BY <1>1, <2>6, <2>7
  <2>10. txs[t].fee >= txs[o].fee + Size(txs[t])
         BY <1>1, <2>4, <2>9 DEF Replaces
  <2>11. txs[t].fee > txs[o].fee
         BY <2>6, <2>8, <2>10
  <2>12. Spent(t) = Spent(o)
         BY <2>5 DEF Spent
  <2>13. Spent(o) \subseteq CoinsAfter(Live \ {o})
         BY <2>1, <2>2 DEF LiveInv
  <2>14. Spent(o) # {}
    <3>1. txs[o].ins[1] \in Spent(o)
          BY <2>5, <2>6 DEF Spent, ToSet, Balanced, IsCoins
    <3> QED
        BY <3>1
  <2>15. Conflicts(t) = {o}
    <3>1. o \in Conflicts(t)
          BY <1>1, <2>2, <2>12, <2>14 DEF Conflicts
    <3>2. ASSUME NEW u \in Conflicts(t), u # o
          PROVE  FALSE
      <4>1. u \in Live \ {o} /\ \E c \in Spent(u) : c \in Spent(o)
            BY <2>2, <2>12, <3>2 DEF Conflicts
      <4> QED
          BY <2>13, <4>1 DEF CoinsAfter
    <3> QED
        BY <3>1, <3>2
  <2>16. FeeSum({o}) = txs[o].fee
    <3> DEFINE f == [u \in {o} |-> txs[u].fee]
    <3>1. f[o] = txs[o].fee /\ DOMAIN f = {o}
          OBVIOUS
    <3>2. FeeSum({o}) = SumFunction(f)
          BY DEF FeeSum
    <3> HIDE DEF f
    <3>3. SumFunction(f) = SumFunctionOnSet(f, {o})
          BY <3>1, SumFunctionIs
    <3> QED
        BY <2>6, <3>1, <3>2, <3>3, SumOne
  <2>17. Size(txs[t]) <= Size(txs[o])
    <3>1. /\ Cardinality(DOMAIN txs[t].outs) \in Nat /\ Cardinality(DOMAIN txs[o].outs) \in Nat
          /\ Cardinality(DOMAIN txs[t].outs) <= Cardinality(DOMAIN txs[o].outs)
          BY <1>1, <2>4, <2>5, <2>6, <2>11, NoMoreOutputs DEF Replaces
    <3> QED
        BY <2>5, <2>6, <3>1, VsizeMonotone DEF Size
  <2>18. PaysMorePerByte(t, o)
    <3>1. txs[t].fee * Size(txs[o]) > txs[o].fee * Size(txs[t])
          BY <2>6, <2>7, <2>8, <2>11, <2>17, ProductsGrow
    <3> QED
        BY <3>1 DEF PaysMorePerByte, Vsize, Size
  <2>19. Vsize(t) = Size(txs[t])
         BY DEF Vsize, Size
  <2> QED
      BY <1>1, <2>5, <2>10, <2>12, <2>13, <2>15, <2>16, <2>18, <2>19 DEF Accepts
<1>2. ASSUME OmitChangeBelowDust, DustLimit >= 31
      PROVE  PaymentsInv => ReplacementAccepted
      BY <1>1, <1>2 DEF ReplacementAccepted
<1> SUFFICES ASSUME OmitChangeBelowDust, DustLimit >= 31 PROVE Spec => []ReplacementAccepted
    OBVIOUS
<1> QED
    BY <1>2, PaymentsInvariant, PTL
-----------------------------------------------------------------------------
(* Whatever becomes of the order, the rows of a transaction change every   *)
(* address's balance by what the chain gives it less what it spends.       *)

LEMMA VinOfNone ==
  ASSUME NEW ins, NEW a, a \notin Payers(ins)
  PROVE  VinOf(ins, a) = 0
<1>1. {i \in DOMAIN ins : ins[i].addr = a} = {}
      BY DEF Payers
<1> QED
    BY <1>1, SumEmpty DEF VinOf

LEMMA ItemFacts ==
  ASSUME NEW tx, NEW a, IsCoins(tx.ins), IsAmounts(tx.outs)
  PROVE  /\ Item(tx, a).addr = a
         /\ Vout(tx, a) \in Nat /\ Vin(tx, a) \in Nat
         /\ At(Item(tx, a).to, a) = Vout(tx, a) /\ At(Item(tx, a).from, a) = Vin(tx, a)
<1> DEFINE to == Restrict(tx.outs, DOMAIN tx.outs \cap {a})
           from == Restrict([p \in Payers(tx.ins) |-> Vin(tx, p)], Payers(tx.ins) \cap {a})
<1>1. Item(tx, a).addr = a /\ Item(tx, a).to = to /\ Item(tx, a).from = from
      BY DEF Item
<1>2. At(to, a) = Vout(tx, a)
      BY DEF At, Vout, Restrict
<1>3. At(from, a) = Vin(tx, a)
  <2>1. CASE a \in Payers(tx.ins)
        BY <2>1 DEF At, Restrict
  <2>2. CASE a \notin Payers(tx.ins)
    <3>1. At(from, a) = 0
          BY <2>2 DEF At, Restrict
    <3> QED
        BY <2>2, <3>1, VinOfNone DEF Vin
  <2> QED
      BY <2>1, <2>2
<1>4. Vout(tx, a) \in Nat
      BY DEF Vout, At, IsAmounts
<1>5. Vin(tx, a) \in Nat
      BY VinType DEF Vin
<1> QED
    BY <1>1, <1>2, <1>3, <1>4, <1>5

LEMMA SendRowFacts ==
  ASSUME NEW tx, NEW a, NEW share \in Nat, NEW parts
  PROVE  LET row == SendRow(Item(tx, a), share, parts)
         IN /\ row.addr = a /\ row.kind # "fee" /\ row.from # NoAmounts
            /\ At(row.to, a) - At(row.from, a) = -share
<1> DEFINE item == Item(tx, a)
           row == SendRow(item, share, parts)
<1>1. /\ item.addr = a /\ item.kind # "fee"
      BY DEF Item
<1>2. /\ row.addr = item.addr /\ row.kind = item.kind
      /\ row.from = [p \in {item.addr} |-> share]
      /\ row.to = ExternalOutboundLegs(Written(parts, item.to), item.addr)
      BY DEF SendRow, Item
<1>3. DOMAIN row.from = {a} /\ row.from[a] = share
      BY <1>1, <1>2
<1>4. row.from # NoAmounts
      BY <1>3 DEF NoAmounts
<1>5. a \notin DOMAIN row.to
      BY <1>1, <1>2 DEF ExternalOutboundLegs, Restrict
<1> HIDE DEF row, item
<1>6. At(row.to, a) - At(row.from, a) = -share
      BY <1>3, <1>5 DEF At
<1> QED
    BY <1>1, <1>2, <1>4, <1>6 DEF row, item

LEMMA FeeRowFacts ==
  ASSUME NEW a, NEW fee \in Nat
  PROVE  LET row == FeeRow(a, fee)
         IN /\ row.addr = a /\ row.kind = "fee" /\ row.from # NoAmounts
            /\ At(row.to, a) - At(row.from, a) = -fee
<1> DEFINE row == FeeRow(a, fee)
<1>1. /\ row.addr = a /\ row.kind = "fee" /\ row.to = NoAmounts
      /\ row.from = [q \in {a} |-> fee]
      BY DEF FeeRow
<1>2. DOMAIN row.from = {a} /\ row.from[a] = fee /\ DOMAIN row.to = {}
      BY <1>1 DEF NoAmounts
<1>3. row.from # NoAmounts
      BY <1>2 DEF NoAmounts
<1> HIDE DEF row
<1>4. At(row.to, a) - At(row.from, a) = -fee
      BY <1>2 DEF At
<1> QED
    BY <1>1, <1>3, <1>4 DEF row

(* What an order that reconciles says of a booked payer.                   *)
LEMMA BookedFacts ==
  ASSUME NEW tx, IsCoins(tx.ins), IsAmounts(tx.outs), NEW sendOut,
         DOMAIN sendOut \subseteq Payers(tx.ins), \A p \in DOMAIN sendOut : sendOut[p] \in Nat,
         Reconciles(tx, sendOut), NEW p \in BookedPayers(tx, sendOut)
  PROVE  /\ p \in Payers(tx.ins) /\ sendOut[p] \in Nat /\ FeeOf(tx, sendOut, p) \in Nat
         /\ sendOut[p] + FeeOf(tx, sendOut, p) = Vin(tx, p) - Vout(tx, p)
<1>1. p \in DOMAIN sendOut /\ p \in Payers(tx.ins) /\ sendOut[p] \in Nat
      BY DEF Reconciles
<1>2. sendOut[p] <= NetOut(tx, p) /\ ~(Vin(tx, p) = 0 \/ Vout(tx, p) > SelfChange(tx, p))
      BY <1>1 DEF Reconciles, HasIllegalPeerIn
<1>3. Vin(tx, p) \in Nat /\ Vout(tx, p) \in Nat
      BY ItemFacts
<1>4. SelfChange(tx, p) = Vout(tx, p)
      BY <1>2, <1>3 DEF SelfChange
<1>5. NetOut(tx, p) = Vin(tx, p) - Vout(tx, p)
      BY <1>4 DEF NetOut
<1>6. FeeOf(tx, sendOut, p) = (Vin(tx, p) - Vout(tx, p)) - sendOut[p]
      BY <1>5 DEF FeeOf
<1> QED
    BY <1>1, <1>2, <1>3, <1>5, <1>6

LEMMA EffectOfOne ==
  ASSUME NEW rows, NEW a, NEW r, {q \in rows : q.addr = a} = {r},
         At(r.to, a) - At(r.from, a) \in Int
  PROVE  Effect(rows, a) = At(r.to, a) - At(r.from, a)
<1> DEFINE S == {q \in rows : q.addr = a}
           f == [q \in S |-> At(q.to, a) - At(q.from, a)]
<1>1. Effect(rows, a) = SumFunction(f)
      BY DEF Effect
<1>2. f[r] = At(r.to, a) - At(r.from, a) /\ DOMAIN f = {r}
      OBVIOUS
<1> HIDE DEF f
<1>3. SumFunction(f) = SumFunctionOnSet(f, {r})
      BY <1>2, SumFunctionIs
<1>4. SumFunctionOnSet(f, {r}) = f[r]
      BY <1>2, SumOne
<1> QED
    BY <1>1, <1>2, <1>3, <1>4

LEMMA EffectOfTwo ==
  ASSUME NEW rows, NEW a, NEW r, NEW s, {q \in rows : q.addr = a} = {r, s}, r # s,
         At(r.to, a) - At(r.from, a) \in Int, At(s.to, a) - At(s.from, a) \in Int
  PROVE  Effect(rows, a) = (At(r.to, a) - At(r.from, a)) + (At(s.to, a) - At(s.from, a))
<1> DEFINE S == {q \in rows : q.addr = a}
           f == [q \in S |-> At(q.to, a) - At(q.from, a)]
<1>1. Effect(rows, a) = SumFunction(f)
      BY DEF Effect
<1>2. /\ f[r] = At(r.to, a) - At(r.from, a) /\ f[s] = At(s.to, a) - At(s.from, a)
      /\ DOMAIN f = {s} \cup {r}
      OBVIOUS
<1> HIDE DEF f
<1>3. SumFunction(f) = SumFunctionOnSet(f, {s} \cup {r})
      BY <1>2, SumFunctionIs
<1>4. SumFunctionOnSet(f, {s} \cup {r}) = f[r] + SumFunctionOnSet(f, {s})
  <2>1. IsFiniteSet({s}) /\ r \notin {s} /\ \A x \in {s} \cup {r} : f[x] \in Int
        BY <1>2, FS_Singleton
  <2> QED
      BY <2>1, SumAdd
<1>5. SumFunctionOnSet(f, {s}) = f[s]
      BY <1>2, SumOne
<1> QED
    BY <1>1, <1>2, <1>3, <1>4, <1>5
(* A set of rows that has all of an address's rows that give something.    *)
LEMMA GivingRowsStay ==
  ASSUME NEW rows, NEW r \in rows, r.from # NoAmounts
  PROVE  r \in WithoutPayersReceiving(rows)
BY DEF WithoutPayersReceiving

LEMMA OnlyRowStays ==
  ASSUME NEW rows, NEW r \in rows, \A q \in rows : q.addr = r.addr => q = r
  PROVE  r \in WithoutPayersReceiving(rows)
BY DEF WithoutPayersReceiving

LEMMA RowsEffect ==
  ASSUME NEW tx, IsCoins(tx.ins), IsAmounts(tx.outs), Payers(tx.ins) \subseteq Managed,
         NEW sendOut, DOMAIN sendOut \subseteq Payers(tx.ins),
         \A p \in DOMAIN sendOut : sendOut[p] \in Nat,
         NEW order, NEW a \in Managed
  PROVE  Effect(Rows(tx, sendOut, order), a) = Vout(tx, a) - Vin(tx, a)
<1> DEFINE booked == IF FollowsOrder(tx, sendOut) THEN BookedPayers(tx, sendOut) ELSE {}
           fees == [p \in booked |-> FeeOf(tx, sendOut, p)]
           targets == OutboundTargets(booked, order)
           parts(p) == IF targets = <<>> THEN NoAmounts ELSE TargetParts(tx, sendOut[p], targets)
           rewritten == {p \in booked : sendOut[p] > 0 \/ fees[p] > 0}
           send(p) == SendRow(Item(tx, p), sendOut[p], parts(p))
           items == {Item(tx, b) : b \in Touched(tx) \ rewritten}
           sends == {send(p) : p \in rewritten}
           paid == {FeeRow(p, fees[p]) : p \in {q \in booked : fees[q] > 0}}
           R == items \cup sends \cup paid
           W == WithoutPayersReceiving(R)
           mine == {r \in W : r.addr = a}
<1>1. Rows(tx, sendOut, order) = W
      BY DEF Rows
<1>2. ASSUME NEW p \in booked
      PROVE  /\ p \in Touched(tx) /\ sendOut[p] \in Nat /\ fees[p] \in Nat
             /\ sendOut[p] + fees[p] = Vin(tx, p) - Vout(tx, p)
  <2>1. Reconciles(tx, sendOut) /\ p \in BookedPayers(tx, sendOut)
        BY <1>2 DEF FollowsOrder
  <2>2. /\ p \in Payers(tx.ins) /\ sendOut[p] \in Nat /\ FeeOf(tx, sendOut, p) \in Nat
        /\ sendOut[p] + FeeOf(tx, sendOut, p) = Vin(tx, p) - Vout(tx, p)
        BY <2>1, BookedFacts
  <2>3. fees[p] = FeeOf(tx, sendOut, p)
        BY <1>2
  <2> QED
      BY <2>2, <2>3 DEF Touched
<1>3. ASSUME NEW p \in rewritten
      PROVE  /\ send(p).addr = p /\ send(p).kind # "fee" /\ send(p).from # NoAmounts
             /\ At(send(p).to, p) - At(send(p).from, p) = -sendOut[p]
  <2>1. sendOut[p] \in Nat
        BY <1>2
  <2> HIDE DEF parts
  <2> QED
      BY <2>1, SendRowFacts
<1>4. ASSUME NEW p \in booked
      PROVE  LET row == FeeRow(p, fees[p])
             IN /\ row.addr = p /\ row.kind = "fee" /\ row.from # NoAmounts
                /\ At(row.to, p) - At(row.from, p) = -fees[p]
  <2>1. fees[p] \in Nat
        BY <1>2
  <2> HIDE DEF fees
  <2> QED
      BY <2>1, FeeRowFacts
<1>5. \A b : Item(tx, b).addr = b
      BY ItemFacts
<1>6. Vout(tx, a) \in Nat /\ Vin(tx, a) \in Nat
      BY ItemFacts
<1>7. W \subseteq R
      BY DEF WithoutPayersReceiving
<1>8. rewritten \subseteq booked
      OBVIOUS
<1>9. Effect(W, a) = Vout(tx, a) - Vin(tx, a)
  <2> HIDE DEF booked, fees, parts, rewritten, send, W
  <2>1. ASSUME NEW r \in R, r.addr = a
        PROVE  \/ a \in Touched(tx) \ rewritten /\ r = Item(tx, a)
               \/ a \in rewritten /\ r = send(a)
               \/ a \in booked /\ fees[a] > 0 /\ r = FeeRow(a, fees[a])
        BY <1>3, <1>4, <1>5, <2>1
  <2>2. CASE a \notin Touched(tx)
    <3>1. mine = {}
          BY <1>2, <1>7, <1>8, <2>1, <2>2
    <3>2. a \notin Payers(tx.ins) /\ a \notin DOMAIN tx.outs
          BY <2>2 DEF Touched
    <3>3. Vin(tx, a) = 0 /\ Vout(tx, a) = 0
          BY <3>2, VinOfNone DEF Vin, Vout, At
    <3>4. Effect(W, a) = 0
      <4> DEFINE f == [r \in mine |-> At(r.to, a) - At(r.from, a)]
      <4>1. Effect(W, a) = SumFunction(f)
            BY DEF Effect
      <4>2. DOMAIN f = {}
            BY <3>1
      <4> HIDE DEF f
      <4> QED
          BY <4>1, <4>2, SumFunctionIs, SumEmpty
    <3> QED
        BY <3>3, <3>4
  <2>3. CASE a \in Touched(tx) \ rewritten
    <3>1. Item(tx, a) \in R
          BY <2>3
    <3>2. \A r \in R : r.addr = a => r = Item(tx, a)
      <4>1. a \in booked => ~(fees[a] > 0)
            BY <2>3 DEF rewritten
      <4> QED
          BY <2>1, <2>3, <4>1
    <3>3. Item(tx, a) \in W
          BY <1>5, <3>1, <3>2, OnlyRowStays DEF W
    <3>4. mine = {Item(tx, a)}
          BY <1>5, <1>7, <3>2, <3>3
    <3>5. At(Item(tx, a).to, a) = Vout(tx, a) /\ At(Item(tx, a).from, a) = Vin(tx, a)
          BY ItemFacts
    <3> HIDE DEF mine
    <3>6. {r \in W : r.addr = a} = {Item(tx, a)}
          BY <3>4 DEF mine
    <3> QED
        BY <1>6, <3>5, <3>6, EffectOfOne
  <2>4. CASE a \in rewritten
    <3>1. a \in booked /\ sendOut[a] \in Nat /\ fees[a] \in Nat
          BY <1>2, <1>8, <2>4
    <3>2. sendOut[a] + fees[a] = Vin(tx, a) - Vout(tx, a)
          BY <1>2, <3>1
    <3>3. /\ send(a).addr = a /\ send(a).kind # "fee" /\ send(a).from # NoAmounts
          /\ At(send(a).to, a) - At(send(a).from, a) = -sendOut[a]
          BY <1>3, <2>4
    <3>4. send(a) \in W
      <4>1. send(a) \in R
            BY <2>4
      <4> QED
          BY <3>3, <4>1, GivingRowsStay DEF W
    <3>5. CASE fees[a] = 0
      <4>1. mine = {send(a)}
            BY <1>7, <2>1, <2>4, <3>3, <3>4, <3>5
      <4> HIDE DEF mine
      <4>2. {r \in W : r.addr = a} = {send(a)}
            BY <4>1 DEF mine
      <4>3. Effect(W, a) = -sendOut[a]
            BY <3>1, <3>3, <4>2, EffectOfOne
      <4> QED
          BY <1>6, <3>1, <3>2, <3>5, <4>3
    <3>6. CASE fees[a] # 0
      <4> DEFINE row == FeeRow(a, fees[a])
      <4>1. /\ row.addr = a /\ row.kind = "fee" /\ row.from # NoAmounts
            /\ At(row.to, a) - At(row.from, a) = -fees[a]
            BY <1>4, <3>1
      <4>2. row \in R
            BY <3>1, <3>6
      <4> HIDE DEF row
      <4>3. row \in W
            BY <4>1, <4>2, GivingRowsStay DEF W
      <4>4. \A r \in R : r.addr = a => r = send(a) \/ r = row
            BY <2>1, <2>4 DEF row
      <4>5. mine = {send(a), row}
            BY <1>7, <3>3, <3>4, <4>1, <4>3, <4>4
      <4> HIDE DEF mine
      <4>6. {r \in W : r.addr = a} = {send(a), row}
            BY <4>5 DEF mine
      <4>7. send(a) # row
            BY <3>3, <4>1
      <4>8. Effect(W, a) = (-sendOut[a]) + (-fees[a])
        <5>1. At(send(a).to, a) - At(send(a).from, a) \in Int /\ At(row.to, a) - At(row.from, a) \in Int
              BY <3>1, <3>3, <4>1
        <5> QED
            BY <3>3, <4>1, <4>6, <4>7, <5>1, EffectOfTwo
      <4> QED
          BY <1>6, <3>1, <3>2, <4>8
    <3> QED
        BY <3>5, <3>6
  <2> QED
      BY <2>2, <2>3, <2>4
<1> QED
    BY <1>1, <1>9
-----------------------------------------------------------------------------
(* The books follow the chain.                                             *)

(* What a set of coins is worth to an address.                             *)
LEMMA BalanceIs ==
  ASSUME NEW coins, IsFiniteSet(coins), NEW all, coins \subseteq all, NEW a
  PROVE  /\ IsFiniteSet({c \in coins : c.addr = a})
         /\ Balance(coins, a)
              = SumFunctionOnSet([c \in all |-> c.amount], {c \in coins : c.addr = a})
<1> DEFINE own == {c \in coins : c.addr = a}
           f == [c \in own |-> c.amount]
           g == [c \in all |-> c.amount]
<1>1. IsFiniteSet(own)
      BY FS_Subset
<1>2. Balance(coins, a) = SumFunctionOnSet(f, own)
      BY SumFunctionIs DEF Balance
<1>3. \A c \in own : f[c] = g[c]
      OBVIOUS
<1>4. SumFunctionOnSet(f, own) = SumFunctionOnSet(g, own)
  <2> HIDE DEF own, f, g
  <2> QED
      BY <1>1, <1>3, SumEqual
<1> QED
    BY <1>1, <1>2, <1>4

LEMMA BalanceUnion ==
  ASSUME NEW C, NEW D, IsFiniteSet(C), IsFiniteSet(D), C \cap D = {},
         \A c \in C \cup D : c.amount \in Nat, NEW a
  PROVE  /\ Balance(C, a) \in Int /\ Balance(D, a) \in Int
         /\ Balance(C \cup D, a) = Balance(C, a) + Balance(D, a)
<1> DEFINE all == C \cup D
           f == [c \in all |-> c.amount]
           own(S) == {c \in S : c.addr = a}
<1>1. IsFiniteSet(all)
      BY FS_Union
<1>2. /\ Balance(C, a) = SumFunctionOnSet(f, own(C)) /\ IsFiniteSet(own(C))
      /\ Balance(D, a) = SumFunctionOnSet(f, own(D)) /\ IsFiniteSet(own(D))
      /\ Balance(all, a) = SumFunctionOnSet(f, own(all))
      BY <1>1, BalanceIs
<1>3. own(all) = own(C) \cup own(D) /\ own(C) \cap own(D) = {}
      OBVIOUS
<1>4. \A c \in own(C) \cup own(D) : f[c] \in Int
      OBVIOUS
<1> DEFINE P == own(C)
           Q == own(D)
<1>5. /\ SumFunctionOnSet(f, P) \in Int /\ SumFunctionOnSet(f, Q) \in Int
      /\ SumFunctionOnSet(f, P \cup Q) = SumFunctionOnSet(f, P) + SumFunctionOnSet(f, Q)
  <2>1. IsFiniteSet(P) /\ IsFiniteSet(Q) /\ P \cap Q = {} /\ \A c \in P \cup Q : f[c] \in Int
        BY <1>2, <1>3, <1>4
  <2> HIDE DEF P, Q, f
  <2> QED
      BY <2>1, SumUnion, SumInt
<1> QED
    BY <1>2, <1>3, <1>5

(* An address gets the one output that pays it.                            *)
LEMMA BalanceMade ==
  ASSUME TxsInv, NEW t \in Ids, NEW a
  PROVE  Balance(Made(t), a) = Vout(txs[t], a)
<1> DEFINE outs == txs[t].outs
           M == Made(t)
           f == [c \in M |-> c.amount]
           own == {c \in M : c.addr = a}
           coin == [tx |-> t, out |-> a, addr |-> a, amount |-> outs[a]]
<1>1. IsFiniteSet(M) /\ \A c \in M : c.amount \in Nat
      BY MadeFacts
<1>2. IsFiniteSet(own) /\ Balance(M, a) = SumFunctionOnSet(f, own)
      BY <1>1, BalanceIs
<1>3. CASE a \in DOMAIN outs
  <2>1. own = {coin}
        BY <1>3 DEF Made
  <2>2. coin \in M /\ f[coin] = outs[a] /\ f[coin] \in Int
        BY <1>1, <1>3 DEF Made
  <2>3. SumFunctionOnSet(f, {coin}) = f[coin]
    <3> HIDE DEF f, coin
    <3> QED
        BY <2>2, SumOne
  <2>4. Vout(txs[t], a) = outs[a]
        BY <1>3 DEF Vout, At
  <2> QED
      BY <1>2, <2>1, <2>2, <2>3, <2>4
<1>4. CASE a \notin DOMAIN outs
  <2>1. own = {}
        BY <1>4 DEF Made
  <2>2. Vout(txs[t], a) = 0
        BY <1>4 DEF Vout, At
  <2> QED
      BY <1>2, <2>1, <2>2, SumEmpty
<1> QED
    BY <1>3, <1>4

(* It gives the inputs that are its coins, none of them twice.             *)
LEMMA BalanceSpent ==
  ASSUME TxsInv, NEW t \in Ids, NEW a
  PROVE  Balance(Spent(t), a) = Vin(txs[t], a)
<1> DEFINE ins == txs[t].ins
           S == {i \in DOMAIN ins : ins[i].addr = a}
           f == Amounts(ins)
           h == [i \in DOMAIN ins |-> ins[i]]
           P == Spent(t)
           g == [c \in P |-> c.amount]
           own == {c \in P : c.addr = a}
<1>1. IsFiniteSet(P) /\ P \subseteq CoinsBefore(t)
      BY SpentFacts
<1>2. Balance(P, a) = SumFunctionOnSet(g, own)
      BY <1>1, BalanceIs
<1>3. /\ Len(ins) \in Nat /\ DOMAIN ins = 1..Len(ins) /\ Distinct(ins)
      /\ \A i \in DOMAIN ins : ins[i] \in P
  <2>1. CASE IsReceived(txs[t])
        BY <2>1 DEF IsReceived, Distinct
  <2>2. CASE IsOwn(txs[t], t)
        BY <2>2 DEF IsOwn, IsBuilt, Spent, ToSet
  <2> QED
      BY <2>1, <2>2 DEF TxsInv
<1>4. IsFiniteSet(DOMAIN ins)
      BY <1>3, 1 \in Int /\ Len(ins) \in Int, FS_Interval
<1>5. IsFiniteSet(S)
      BY <1>4, FS_Subset
<1>6. own = {h[i] : i \in S}
      BY DEF Spent, ToSet
<1>7. \A i \in S : f[i] \in Int /\ g[h[i]] = f[i]
      BY <1>1, <1>3 DEF Amounts, CoinsBefore
<1>8. \A i, j \in S : h[i] = h[j] => i = j
      BY <1>3 DEF Distinct
<1>9. SumFunctionOnSet(g, {h[i] : i \in S}) = SumFunctionOnSet(f, S)
  <2> HIDE DEF f, g, h, S
  <2> QED
      BY <1>5, <1>7, <1>8, SumImage
<1> QED
    BY <1>2, <1>6, <1>9 DEF Vin, VinOf

(* A transaction takes the coins it spends and leaves those it makes.      *)
LEMMA CoinsAfterOneMore ==
  ASSUME TxsInv, NEW S, S \subseteq Ids, NEW t \in Ids \ S, Spent(t) \subseteq CoinsAfter(S),
         \A u \in S : \A c \in Spent(u) : c.tx # t
  PROVE  /\ CoinsAfter(S \cup {t}) = (CoinsAfter(S) \ Spent(t)) \cup Made(t)
         /\ Made(t) \cap CoinsAfter(S) = {}
<1>1. \A c \in Made(t) : c.tx = t
      BY MadeFacts
<1>2. t \notin S /\ t # 0 /\ t \in Nat
      BY IdsFacts
<1>3. Made(t) \cap CoinsAfter(S) = {}
  <2>1. ASSUME NEW c \in CoinsAfter(S) PROVE c.tx # t
    <3>1. c.tx = 0 \/ \E u \in S : c.tx = u
          BY CoinsAfterFacts
    <3> QED
        BY <1>2, <3>1
  <2> QED
      BY <1>1, <2>1
<1>4. \A c \in Spent(t) : c.tx # t
  <2>1. \A c \in Spent(t) : c.tx \in 0..(t - 1)
        BY SpentFacts DEF CoinsBefore
  <2> QED
      BY <1>2, <2>1
<1>5. ASSUME NEW c
      PROVE  c \in CoinsAfter(S \cup {t}) <=> c \in (CoinsAfter(S) \ Spent(t)) \cup Made(t)
  <2>1. \A T : c \in CoinsAfter(T) <=> /\ c \in Genesis \/ \E u \in T : c \in Made(u)
                                      /\ \A u \in T : c \notin Spent(u)
        BY DEF CoinsAfter
  <2>2. c \in CoinsAfter(S \cup {t})
          <=> /\ c \in Genesis \/ (\E u \in S : c \in Made(u)) \/ c \in Made(t)
              /\ \A u \in S : c \notin Spent(u)
              /\ c \notin Spent(t)
        BY <2>1
  <2>3. c \in CoinsAfter(S) <=> /\ c \in Genesis \/ \E u \in S : c \in Made(u)
                                /\ \A u \in S : c \notin Spent(u)
        BY <2>1
  <2>4. c \in Made(t) => c \notin Spent(t) /\ \A u \in S : c \notin Spent(u)
        BY <1>1, <1>4
  <2> QED
      BY <2>2, <2>3, <2>4
<1> QED
    BY <1>3, <1>5

LEMMA BalanceAfterOneMore ==
  ASSUME TxsInv, NEW S, S \subseteq Ids, NEW t \in Ids \ S, Spent(t) \subseteq CoinsAfter(S),
         \A u \in S : \A c \in Spent(u) : c.tx # t, NEW a
  PROVE  /\ Balance(CoinsAfter(S), a) \in Int
         /\ Vout(txs[t], a) \in Int /\ Vin(txs[t], a) \in Int
         /\ Balance(CoinsAfter(S \cup {t}), a)
              = Balance(CoinsAfter(S), a) + (Vout(txs[t], a) - Vin(txs[t], a))
<1> DEFINE C == CoinsAfter(S)
           P == Spent(t)
           M == Made(t)
           Rest == C \ P
<1>1. /\ IsFiniteSet(C) /\ \A c \in C : c.amount \in Nat
      /\ IsFiniteSet(P) /\ P \subseteq C
      /\ IsFiniteSet(M) /\ \A c \in M : c.amount \in Nat
      BY CoinsAfterFacts, SpentFacts, MadeFacts
<1>2. CoinsAfter(S \cup {t}) = Rest \cup M /\ M \cap C = {}
      BY CoinsAfterOneMore
<1>3. Balance(M, a) = Vout(txs[t], a) /\ Balance(P, a) = Vin(txs[t], a)
      BY BalanceMade, BalanceSpent
<1> HIDE DEF C, P, M
<1>4. /\ IsFiniteSet(Rest) /\ Rest \cap P = {} /\ Rest \cap M = {} /\ Rest \cup P = C
      /\ \A c \in Rest \cup P : c.amount \in Nat
      /\ \A c \in Rest \cup M : c.amount \in Nat
      BY <1>1, <1>2, FS_Subset
<1> HIDE DEF Rest
<1>5. /\ Balance(Rest, a) \in Int /\ Balance(P, a) \in Int
      /\ Balance(C, a) = Balance(Rest, a) + Balance(P, a)
  <2>1. Balance(Rest \cup P, a) = Balance(Rest, a) + Balance(P, a)
        /\ Balance(Rest, a) \in Int /\ Balance(P, a) \in Int
        BY ONLY <1>1, <1>4, BalanceUnion
  <2> QED
      BY <1>4, <2>1
<1>6. Balance(M, a) \in Int /\ Balance(Rest \cup M, a) = Balance(Rest, a) + Balance(M, a)
      BY <1>1, <1>4, BalanceUnion
<1>7. Balance(C, a) \in Int
      BY <1>5
<1>8. Balance(Rest \cup M, a) = Balance(C, a) + (Balance(M, a) - Balance(P, a))
      BY <1>5, <1>6
<1> QED
    BY <1>2, <1>3, <1>5, <1>6, <1>7, <1>8 DEF C

LEMMA BooksInit == Init => BooksInv
<1> SUFFICES ASSUME Init PROVE BooksInv
    OBVIOUS
<1>1. chain = <<>> /\ cursor = 0 /\ ledger = [a \in Managed |-> Balance(Genesis, a)]
      BY DEF Init
<1>2. Scanned = {}
      BY <1>1 DEF Scanned
<1>3. CoinsAfter({}) = Genesis
      BY DEF CoinsAfter
<1>4. IsFiniteSet({}) /\ IsFiniteSet(Genesis) /\ \A c \in Genesis : c.amount \in Nat
      BY GenesisAssumption, FS_EmptySet
<1>5. \A a : Balance(Genesis, a) \in Int
      BY <1>4, BalanceUnion
<1> QED
    BY <1>1, <1>2, <1>3, <1>5 DEF BooksInv, LedgerMatchesChain

(* Nothing but the scanner changes what it has scanned, or the books.      *)
LEMMA BooksKept ==
  ASSUME TxsInv, StatusInv, BooksInv, Extended, Scanned' = Scanned, ledger' = ledger
  PROVE  BooksInv'
<1>1. Scanned \subseteq Ids
      BY DEF StatusInv, Scanned
<1>2. CoinsAfter(Scanned)' = CoinsAfter(Scanned)
  <2>1. PICK S \in SUBSET Ids : S = Scanned
        BY <1>1
  <2>2. CoinsAfter(S)' = CoinsAfter(S)
        BY CoinsStay
  <2>3. CoinsAfter(Scanned)' = CoinsAfter(S)'
        BY <2>1 DEF CoinsAfter
  <2> QED
      BY <2>1, <2>2, <2>3
<1>3. \A a : Balance(CoinsAfter(Scanned), a)' = Balance(CoinsAfter(Scanned), a)
      BY <1>2 DEF Balance
<1> QED
    BY <1>3 DEF BooksInv, LedgerMatchesChain

(* What the order remembers of a transaction is what its builder shared.   *)
LEMMA SnapshotFacts ==
  ASSUME TxsInv, NEW t \in Ids, NEW again \in {Snapshot(t), NotWritten}
  PROVE  DOMAIN again \subseteq Payers(txs[t].ins) /\ \A p \in DOMAIN again : again[p] \in Nat
<1>1. DOMAIN NotWritten = {}
      BY DEF NotWritten
<1>2. CASE again = NotWritten
      BY <1>1, <1>2
<1>3. CASE again = txs[t].sendOut /\ again # NotWritten
  <2> DEFINE tx == txs[t]
  <2>1. Balanced(tx, Managed)
        BY <1>3 DEF TxsInv, IsReceived, IsOwn, IsBuilt
  <2>2. IsCoins(tx.ins) /\ IsPositive(tx.to) /\ again = PayerSendOut(tx.ins, tx.to, tx.outs)
        BY <1>3, <2>1 DEF Balanced
  <2>3. IsPositive(tx.outs)
        BY <2>1, BalancedOutputs
  <2>4. IsAmounts(tx.to) /\ IsAmounts(tx.outs)
        BY <2>2, <2>3, PositiveAmounts
  <2> QED
      BY <2>2, <2>4, SendOutType
<1> QED
    BY <1>2, <1>3 DEF Snapshot

(* A scanned block moves every balance by what its payment does.           *)
LEMMA BooksScanned ==
  ASSUME PaymentsInv, BooksInv, ScanBlock
  PROVE  BooksInv'
<1>1. TxsInv /\ StatusInv /\ ChainInv
      BY DEF PaymentsInv
<1>2. PICK t : t = chain[cursor + 1]
      OBVIOUS
<1>3. PICK S : S = Scanned
      OBVIOUS
<1>4. /\ Scanned' = S \cup {t} /\ S = {chain[j] : j \in 1..((cursor + 1) - 1)}
      /\ cursor + 1 \in DOMAIN chain /\ t \in Ids \ S
      BY <1>1, <1>2, <1>3, ScanStatus
<1>5. PICK again \in {Snapshot(t), NotWritten}, order \in OutputOrders(txs[t]) :
        ledger' = [a \in Managed |-> ledger[a] + Effect(Rows(txs[t], again, order), a)]
      BY <1>2 DEF ScanBlock
<1>6. S \subseteq Ids /\ cursor \in Nat /\ DOMAIN chain = 1..Len(chain) /\ Len(chain) \in Nat
      BY <1>1, <1>3 DEF StatusInv, Scanned
<1>7. Spent(t) \subseteq CoinsAfter(S)
      BY <1>1, <1>2, <1>4 DEF ChainInv
<1>8. ASSUME NEW u \in S, NEW c \in Spent(u) PROVE c.tx # t
  <2>1. PICK j \in 1..cursor : u = chain[j]
        BY <1>3 DEF Scanned
  <2> DEFINE T == {chain[i] : i \in 1..(j - 1)}
  <2>2. T \subseteq S
        BY <1>3, <1>6, <2>1 DEF Scanned
  <2>3. c \in CoinsAfter(T)
        BY <1>1, <1>4, <1>6, <2>1 DEF ChainInv
  <2>4. c.tx = 0 \/ c.tx \in T
    <3> HIDE DEF T
    <3> QED
        BY <1>1, <1>6, <2>2, <2>3, CoinsAfterFacts
  <2>5. t # 0
        BY <1>1, <1>4, IdsFacts
  <2> QED
      BY <1>4, <2>2, <2>4, <2>5
<1>9. ASSUME NEW a \in Managed
      PROVE  /\ Effect(Rows(txs[t], again, order), a) = Vout(txs[t], a) - Vin(txs[t], a)
             /\ Balance(CoinsAfter(S), a) \in Int
             /\ Vout(txs[t], a) \in Int /\ Vin(txs[t], a) \in Int
             /\ Balance(CoinsAfter(S \cup {t}), a)
                  = Balance(CoinsAfter(S), a) + (Vout(txs[t], a) - Vin(txs[t], a))
  <2> DEFINE tx == txs[t]
  <2>1. IsReceived(tx) \/ IsOwn(tx, t)
        BY <1>1, <1>4 DEF TxsInv
  <2>2. IsAmounts(tx.outs)
    <3>1. IsPositive(tx.outs)
          BY <2>1, OutputsPositive
    <3> QED
        BY <3>1, PositiveAmounts
  <2>3. IsCoins(tx.ins) /\ Payers(tx.ins) \subseteq Managed
    <3>1. CASE IsReceived(tx)
      <4>1. tx.ins = <<>>
            BY <3>1 DEF IsReceived
      <4> QED
          BY <4>1 DEF IsCoins, Payers
    <3>2. CASE IsOwn(tx, t)
      <4>1. IsCoins(tx.ins) /\ tx.ins \in Seq(CoinsBefore(t))
            BY <3>2 DEF IsOwn, IsBuilt, Balanced
      <4>2. \A c \in CoinsBefore(t) : c.addr \in Managed
            BY DEF CoinsBefore
      <4> QED
          BY <4>1, <4>2, PayersOf
    <3> QED
        BY <2>1, <3>1, <3>2
  <2>4. DOMAIN again \subseteq Payers(tx.ins) /\ \A p \in DOMAIN again : again[p] \in Nat
        BY <1>1, <1>4, SnapshotFacts
  <2>5. Effect(Rows(tx, again, order), a) = Vout(tx, a) - Vin(tx, a)
    <3> HIDE DEF tx
    <3> QED
        BY <2>2, <2>3, <2>4, RowsEffect
  <2>6. /\ Balance(CoinsAfter(S), a) \in Int
        /\ Vout(txs[t], a) \in Int /\ Vin(txs[t], a) \in Int
        /\ Balance(CoinsAfter(S \cup {t}), a)
             = Balance(CoinsAfter(S), a) + (Vout(txs[t], a) - Vin(txs[t], a))
        BY <1>1, <1>4, <1>6, <1>7, <1>8, BalanceAfterOneMore
  <2> QED
      BY <2>5, <2>6
<1>10. ledger \in [Managed -> Int] /\ \A a \in Managed : ledger[a] = Balance(CoinsAfter(S), a)
       BY <1>3 DEF BooksInv, LedgerMatchesChain
<1>11. CoinsAfter(S \cup {t})' = CoinsAfter(S \cup {t})
  <2>1. txs' = txs
        BY DEF ScanBlock
  <2> QED
      BY <2>1 DEF CoinsAfter, Made, Spent
<1>12. CoinsAfter(Scanned)' = CoinsAfter(S \cup {t})
  <2>1. CoinsAfter(Scanned)' = CoinsAfter(S \cup {t})'
        BY <1>4 DEF CoinsAfter
  <2> QED
      BY <1>11, <2>1
<1>13. \A a : Balance(CoinsAfter(Scanned), a)' = Balance(CoinsAfter(S \cup {t}), a)
       BY <1>12 DEF Balance
<1>14. ASSUME NEW a \in Managed
       PROVE  ledger'[a] \in Int /\ ledger'[a] = Balance(CoinsAfter(S \cup {t}), a)
  <2>1. ledger'[a] = ledger[a] + Effect(Rows(txs[t], again, order), a)
        BY <1>5
  <2>2. ledger[a] = Balance(CoinsAfter(S), a)
        BY <1>10
  <2>3. PICK before, after, in, out :
          /\ before = Balance(CoinsAfter(S), a) /\ after = Balance(CoinsAfter(S \cup {t}), a)
          /\ in = Vin(txs[t], a) /\ out = Vout(txs[t], a)
        OBVIOUS
  <2>4. /\ before \in Int /\ in \in Int /\ out \in Int /\ after = before + (out - in)
        /\ Effect(Rows(txs[t], again, order), a) = out - in
        BY <1>9, <2>3
  <2> QED
      BY ONLY <2>1, <2>2, <2>3, <2>4
<1>15. ledger' \in [Managed -> Int]
  <2>1. DOMAIN ledger' = Managed /\ ledger' = [a \in Managed |-> ledger'[a]]
        BY <1>5
  <2> QED
      BY <1>14, <2>1
<1> QED
    BY <1>13, <1>14, <1>15 DEF BooksInv, LedgerMatchesChain

LEMMA BooksStep == PaymentsInv /\ BooksInv /\ [Next]_vars => BooksInv'
<1> SUFFICES ASSUME PaymentsInv, BooksInv, [Next]_vars PROVE BooksInv'
    OBVIOUS
<1>1. TxsInv /\ StatusInv
      BY DEF PaymentsInv
<1>2. CASE Wallet
  <2>1. DraftStep
        BY <1>1, <1>2, WalletTxs
  <2>2. Extended /\ chain' = chain /\ cursor' = cursor /\ ledger' = ledger
        BY <2>1 DEF DraftStep, scanner
  <2>3. Scanned' = Scanned
        BY <2>2 DEF Scanned
  <2> QED
      BY <1>1, <2>2, <2>3, BooksKept
<1>3. ASSUME NEW t \in Ids, Submit(t) \/ RecordOrder(t)
      PROVE  BooksInv'
  <2>1. txs' = txs /\ chain' = chain /\ cursor' = cursor /\ ledger' = ledger
        BY <1>3 DEF Submit, RecordOrder, scanner
  <2>2. Scanned' = Scanned
        BY <2>1 DEF Scanned
  <2>3. Extended
        BY <1>1, <2>1, SameTxs
  <2> QED
      BY <1>1, <2>1, <2>2, <2>3, BooksKept
<1>4. ASSUME NEW t \in Ids, Mine(t)
      PROVE  BooksInv'
  <2>1. txs' = txs /\ chain' = Append(chain, t) /\ cursor' = cursor /\ ledger' = ledger
        BY <1>4 DEF Mine, scanner
  <2>2. Scanned' = Scanned
        BY <1>1, <2>1 DEF Scanned, StatusInv
  <2>3. Extended
        BY <1>1, <2>1, SameTxs
  <2> QED
      BY <1>1, <2>1, <2>2, <2>3, BooksKept
<1>5. ASSUME NEW outs \in Incoming, Receive(outs)
      PROVE  BooksInv'
  <2>1. TxsInv' /\ ReceiveStep
        BY <1>1, <1>5, ReceiveTxs
  <2>2. Scanned' = Scanned
        BY <1>1, <2>1, ReceiveStatus
  <2>3. Extended /\ ledger' = ledger
        BY <1>5, <2>1 DEF ReceiveStep, Receive, scanner
  <2> QED
      BY <1>1, <2>2, <2>3, BooksKept
<1>6. CASE ScanBlock
      BY <1>6, BooksScanned
<1>7. CASE UNCHANGED vars
  <2>1. txs' = txs /\ chain' = chain /\ cursor' = cursor /\ ledger' = ledger
        BY <1>7 DEF vars, scanner
  <2>2. Scanned' = Scanned
        BY <2>1 DEF Scanned
  <2>3. Extended
        BY <1>1, <2>1, SameTxs
  <2> QED
      BY <1>1, <2>1, <2>2, <2>3, BooksKept
<1> QED
    BY <1>2, <1>3, <1>4, <1>5, <1>6, <1>7 DEF Next, Network

(* LedgerMatchesChain: whatever is drafted, replaced, mined, received and  *)
(* scanned in whatever order, with or without the shares of the trade      *)
(* order, the rows of appendBTCTransactionFeeItems keep the balance of     *)
(* every address at what the scanned blocks leave it.                      *)
THEOREM BooksFollowChain == Spec => []LedgerMatchesChain
<1>1. Init => PaymentsInv /\ BooksInv
      BY PaymentsInit, BooksInit
<1>2. (PaymentsInv /\ BooksInv) /\ [Next]_vars => (PaymentsInv /\ BooksInv)'
      BY PaymentsStep, BooksStep
<1>3. BooksInv => LedgerMatchesChain
      BY DEF BooksInv
<1> QED
    BY <1>1, <1>2, <1>3, PTL DEF Spec

LEMMA TypesFollow ==
  ASSUME PaymentsInv, BooksInv
  PROVE  TypeOK
<1>1. TxsInv /\ StatusInv
      BY DEF PaymentsInv
<1>2. ASSUME NEW t \in Ids
      PROVE  /\ txs[t].ins \in Seq([tx : 0..MaxTxs, out : STRING, addr : Managed, amount : Nat])
             /\ IsPaying(txs[t].to, Addresses)
             /\ IsPaying(txs[t].outs, Addresses)
             /\ IsPaying(txs[t].sendOut, Payers(txs[t].ins))
             /\ txs[t].fee \in Nat /\ txs[t].paid \in Nat
             /\ txs[t].origin \in 0..(t - 1)
  <2> DEFINE tx == txs[t]
             C == [tx : 0..MaxTxs, out : STRING, addr : Managed, amount : Nat]
  <2>1. t \in Nat \ {0} /\ t <= MaxTxs /\ MaxTxs \in Nat
        BY <1>1, IdsFacts, TxsAssumption DEF StatusInv
  <2>2. CoinsBefore(t) \subseteq C
        BY <2>1 DEF CoinsBefore
  <2>3. IsReceived(tx) \/ IsOwn(tx, t)
        BY <1>1 DEF TxsInv
  <2>4. IsPaying(tx.outs, Addresses)
        BY <2>3, OutputsPositive DEF IsPositive, IsPaying
  <2>5. CASE IsReceived(tx)
    <3>1. tx.ins \in Seq(C)
          BY <2>5 DEF IsReceived
    <3>2. DOMAIN tx.to = {} /\ DOMAIN tx.sendOut = {}
          BY <2>5 DEF IsReceived, NoAmounts, NotWritten
    <3>3. IsPaying(tx.to, Addresses) /\ IsPaying(tx.sendOut, Payers(tx.ins))
          BY <3>2 DEF IsPaying
    <3> QED
        BY <2>1, <2>4, <2>5, <3>1, <3>3 DEF IsReceived
  <2>6. CASE IsOwn(tx, t)
    <3>1. IsBuilt(tx, CoinsBefore(t)) /\ tx.paid \in Nat /\ tx.origin \in 0..(t - 1)
          BY <2>6 DEF IsOwn
    <3>2. /\ Balanced(tx, Managed) /\ tx.ins \in Seq(CoinsBefore(t))
          /\ DOMAIN tx.to \subseteq Addresses
          BY <3>1 DEF IsBuilt
    <3>3. tx.ins \in Seq(C)
      <4> HIDE DEF C
      <4> QED
          BY <2>2, <3>2
    <3>4. /\ IsCoins(tx.ins) /\ IsPositive(tx.to) /\ tx.fee \in Nat
          /\ tx.sendOut = PayerSendOut(tx.ins, tx.to, tx.outs)
          BY <3>2 DEF Balanced
    <3>5. IsPositive(tx.outs)
          BY <3>2, BalancedOutputs
    <3>6. IsAmounts(tx.to) /\ IsAmounts(tx.outs)
          BY <3>4, <3>5, PositiveAmounts
    <3>7. IsPaying(tx.sendOut, Payers(tx.ins))
          BY <3>4, <3>6, SendOutType DEF IsPaying
    <3>8. IsPaying(tx.to, Addresses)
          BY <3>2, <3>4 DEF IsPositive, IsPaying
    <3> QED
        BY <2>4, <3>1, <3>3, <3>4, <3>7, <3>8
  <2> QED
      BY <2>3, <2>5, <2>6
<1>3. chain \in Seq(In("mined"))
  <2>1. chain \in Seq(Ids) /\ ToSet(chain) = In("mined")
        BY <1>1 DEF StatusInv
  <2>2. chain \in Seq(ToSet(chain))
        BY <2>1, SequenceOfItself
  <2> QED
      BY <2>1, <2>2
<1>4. /\ status \in Seq(Statuses) /\ Len(status) = Len(txs) /\ orders \subseteq Ids
      /\ cursor \in 0..Len(chain) /\ raw \subseteq {chain[i] : i \in 1..cursor}
      BY <1>1 DEF StatusInv, Scanned
<1>5. ledger \in [Managed -> Int]
      BY DEF BooksInv
<1> QED
    BY <1>2, <1>3, <1>4, <1>5 DEF TypeOK

(* Transfer!TypeOK: coins, payments, shares, fees, statuses, blocks and    *)
(* books have the types of the structs they stand for.                     *)
THEOREM PaymentsTyped == Spec => []TypeOK
<1>1. Init => PaymentsInv /\ BooksInv
      BY PaymentsInit, BooksInit
<1>2. (PaymentsInv /\ BooksInv) /\ [Next]_vars => (PaymentsInv /\ BooksInv)'
      BY PaymentsStep, BooksStep
<1>3. PaymentsInv /\ BooksInv => TypeOK
      BY TypesFollow
<1> QED
    BY <1>1, <1>2, <1>3, PTL DEF Spec
-----------------------------------------------------------------------------
(* What the recipients are said to get.                                    *)

KeepStep(targets, B, a) == IF a \in B THEN targets ELSE Append(targets, a)

TargetTable(t, B, order) ==
  t = [s \in SUBSET DOMAIN order |->
         IF s = {} THEN <<>> ELSE KeepStep(t[s \ {Max(s)}], B, order[Max(s)])]

LEMMA OutboundTargetsIsTable ==
  ASSUME NEW B, NEW order
  PROVE  OutboundTargets(B, order) = (CHOOSE t : TargetTable(t, B, order))[DOMAIN order]
BY Zenon DEF OutboundTargets, FoldLeft, MapThenFoldSet, TargetTable, KeepStep

(* Every output that does not go to a payer is a target, once.             *)
LEMMA TargetsListed ==
  ASSUME NEW S, NEW order, Listed(order, S), NEW B
  PROVE  Listed(OutboundTargets(B, order), S \ B)
<1> DEFINE n == Len(order)
           V == Seq(S)
           step == [q \in V \X (1..n) |-> KeepStep(q[1], B, order[q[2]])]
           t == CHOOSE u : TargetTable(u, B, order)
           P(k) == {order[i] : i \in 1..k} \ B
<1>1. n \in Nat /\ DOMAIN order = 1..n /\ \A i \in 1..n : order[i] \in S
      BY DEF Listed
<1>2. step \in [V \X (1..n) -> V]
  <2> SUFFICES ASSUME NEW q \in V, NEW i \in 1..n
               PROVE  KeepStep(q, B, order[i]) \in V
      OBVIOUS
  <2> QED
      BY <1>1 DEF KeepStep
<1>3. \E u : TargetTable(u, B, order)
  <2>1. <<>> \in V
        OBVIOUS
  <2>2. PICK g : FoldTable(g, <<>>, step, n) /\ g \in [SUBSET (1..n) -> V]
    <3> HIDE DEF V, step, n
    <3> QED
        BY <1>1, <1>2, <2>1, FoldTableExists
  <2> DEFINE Next1(s) == KeepStep(g[s \ {Max(s)}], B, order[Max(s)])
             e == [s \in SUBSET (1..n) |-> IF s = {} THEN <<>> ELSE Next1(s)]
  <2> HIDE DEF n
  <2>3. ASSUME NEW s \in SUBSET (1..n) PROVE g[s] = e[s]
    <3>1. CASE s = {}
          BY <2>2, <3>1 DEF FoldTable
    <3>2. CASE s # {}
      <4>1. Max(s) \in 1..n /\ s \ {Max(s)} \in SUBSET (1..n)
            BY <1>1, <3>2, MaxOfPart
      <4>2. g[s \ {Max(s)}] \in V
            BY <2>2, <4>1
      <4>3. g[s] = step[<<g[s \ {Max(s)}], Max(s)>>]
        <5> HIDE DEF step, V
        <5> QED
            BY <2>2, <3>2 DEF FoldTable
      <4>4. step[<<g[s \ {Max(s)}], Max(s)>>] = Next1(s)
        <5> DEFINE v == g[s \ {Max(s)}]
                   m == Max(s)
        <5> HIDE DEF v, m, V
        <5>1. <<v, m>> \in V \X (1..n)
              BY <4>1, <4>2 DEF v, m
        <5>2. step[<<v, m>>] = KeepStep(v, B, order[m])
              BY <5>1
        <5> QED
            BY <5>2 DEF v, m
      <4> QED
          BY <3>2, <4>3, <4>4
    <3> QED
        BY <3>1, <3>2
  <2>4. g = e
    <3>1. g = [s \in SUBSET (1..n) |-> g[s]] /\ e = [s \in SUBSET (1..n) |-> e[s]]
          BY <2>2
    <3> HIDE DEF e
    <3> QED
        BY <2>3, <3>1
  <2>5. TargetTable(g, B, order)
        BY <1>1, <2>4, Zenon DEF TargetTable
  <2> QED
      BY <2>5
<1> HIDE DEF n
<1>4. t = [s \in SUBSET (1..n) |->
             IF s = {} THEN <<>> ELSE KeepStep(t[s \ {Max(s)}], B, order[Max(s)])]
  <2>1. TargetTable(t, B, order)
        BY <1>3
  <2> HIDE DEF t
  <2> QED
      BY <1>1, <2>1 DEF TargetTable
<1> HIDE DEF t, step, V
<1>5. t[1..0] = <<>>
  <2>1. 1..0 = {} /\ 1..0 \in SUBSET (1..n)
        OBVIOUS
  <2> QED
      BY <1>4, <2>1
<1>6. ASSUME NEW k \in 1..n PROVE t[1..k] = KeepStep(t[1..(k - 1)], B, order[k])
  <2> DEFINE s == 1..k
  <2>0. n \in Nat /\ k \in Nat /\ 1 <= k /\ k <= n
        BY <1>1
  <2>1. s \in SUBSET (1..n) /\ s # {} /\ k \in Nat \ {0}
        BY <2>0
  <2>2. Max(s) = k /\ s \ {Max(s)} = 1..(k - 1)
        BY <2>1, MaxOfPrefix
  <2>3. t[s] = KeepStep(t[s \ {Max(s)}], B, order[Max(s)])
    <3> HIDE DEF s
    <3> QED
        BY <1>4, <2>1
  <2> QED
      BY <2>2, <2>3
<1>7. ASSUME NEW k \in 0..n PROVE Listed(t[1..k], P(k))
  <2> DEFINE Fine(j) == Listed(t[1..j], P(j))
             F == {j \in 0..n : ~Fine(j)}
  <2> SUFFICES ASSUME F # {} PROVE FALSE
      OBVIOUS
  <2>1. PICK j \in F : \A i \in F : j <= i
    <3>1. F \subseteq Nat
          OBVIOUS
    <3> HIDE DEF F
    <3> QED
        BY <3>1, LeastNatural
  <2> HIDE DEF Fine
  <2>2. j \in 0..n /\ ~Fine(j)
        OBVIOUS
  <2>3. CASE j = 0
    <3>1. P(0) = {} /\ Listed(<<>>, {})
          BY DEF Listed, ToSet
    <3> QED
        BY <1>5, <2>2, <2>3, <3>1 DEF Fine
  <2>4. CASE j # 0
    <3>1. j - 1 \in 0..n /\ j - 1 < j /\ j \in 1..n
          BY <1>1, <2>2, <2>4
    <3>2. Listed(t[1..(j - 1)], P(j - 1))
      <4>1. Fine(j - 1)
            BY <2>1, <2>2, <3>1
      <4> QED
          BY <4>1 DEF Fine
    <3>3. 1..j = 1..(j - 1) \cup {j}
          BY <3>1
    <3>4. P(j) = IF order[j] \in B THEN P(j - 1) ELSE P(j - 1) \cup {order[j]}
          BY <3>3
    <3>5. CASE order[j] \in B
          BY <1>6, <2>2, <3>1, <3>2, <3>4, <3>5 DEF Fine, KeepStep
    <3>6. CASE order[j] \notin B
      <4>1. order[j] \notin P(j - 1)
        <5>1. \A i \in 1..(j - 1) : order[i] # order[j]
              BY <1>1, <3>1 DEF Listed
        <5> QED
            BY <5>1
      <4> DEFINE q == t[1..(j - 1)]
                 Q == P(j - 1)
      <4>2. Listed(q, Q) /\ order[j] \notin Q
            BY <3>2, <4>1
      <4> HIDE DEF q, Q
      <4>3. OrderStep(q, order[j]) = Append(q, order[j])
            BY <4>2 DEF OrderStep, Contains, Listed, ToSet
      <4>4. Listed(Append(q, order[j]), Q \cup {order[j]})
        <5>1. Listed(OrderStep(q, order[j]), Q \cup {order[j]})
              BY <4>2, ListedAppend
        <5> QED
            BY <4>3, <5>1
      <4>5. t[1..j] = Append(q, order[j])
            BY <1>6, <3>1, <3>6 DEF KeepStep, q
      <4>6. P(j) = Q \cup {order[j]}
            BY <3>4, <3>6 DEF Q
      <4> QED
          BY <2>2, <4>4, <4>5, <4>6 DEF Fine
    <3> QED
        BY <3>5, <3>6
  <2> QED
      BY <2>3, <2>4
<1>8. P(n) = S \ B /\ n \in 0..n
      BY <1>1 DEF Listed, ToSet
<1>9. OutboundTargets(B, order) = t[1..n]
      BY <1>1, OutboundTargetsIsTable, Zenon DEF t
<1> HIDE DEF P
<1> QED
    BY <1>7, <1>8, <1>9

LEMMA DivFacts ==
  ASSUME NEW x \in Nat, NEW y \in Nat \ {0}
  PROVE  x \div y \in Nat /\ y * (x \div y) <= x /\ x < y * (x \div y) + y
OBVIOUS

LEMMA IntervalSize ==
  ASSUME NEW n \in Nat
  PROVE  IsFiniteSet(1..n) /\ Cardinality(1..n) = n
<1>1. 1 \in Int /\ n \in Int
      OBVIOUS
<1>2. IsFiniteSet(1..n)
      BY <1>1, FS_Interval
<1>3. Cardinality(1..n) = IF 1 > n THEN 0 ELSE n - 1 + 1
      BY <1>1, FS_Interval
<1> QED
    BY <1>2, <1>3

(* The rounded shares of all targets but the last, in multiples of the     *)
(* whole.                                                                  *)
LEMMA PartsRounded ==
  ASSUME NEW last \in Nat \ {0}, NEW value, \A i \in 1..last : value[i] \in Nat,
         NEW E \in Nat \ {0}, E = SumFunctionOnSet(value, 1..last),
         NEW share \in Nat, NEW part,
         \A i \in 1..(last - 1) : part[i] = (share * value[i]) \div E
  PROVE  LET P == SumFunctionOnSet(part, 1..(last - 1))
         IN /\ P \in Nat
            /\ E * P <= share * (E - value[last])
            /\ share * (E - value[last]) <= E * P + E * (last - 1)
<1> DEFINE S == 1..(last - 1)
           P == SumFunctionOnSet(part, S)
           V == SumFunctionOnSet(value, S)
           low == [i \in S |-> E * part[i]]
           mid == [i \in S |-> share * value[i]]
           high == [i \in S |-> low[i] + E]
           whole == [i \in S |-> E]
<1>1. /\ IsFiniteSet(S) /\ last \notin S /\ 1..last = S \cup {last}
      /\ Cardinality(S) = last - 1
  <2>1. PICK m \in Nat : m = last - 1
        OBVIOUS
  <2>2. IsFiniteSet(1..m) /\ Cardinality(1..m) = m
        BY IntervalSize
  <2> QED
      BY <2>1, <2>2
<1>2. \A i \in S : value[i] \in Nat /\ part[i] = (share * value[i]) \div E
      OBVIOUS
<1> HIDE DEF S
<1>3. ASSUME NEW i \in S
      PROVE  /\ part[i] \in Nat /\ low[i] \in Nat /\ mid[i] \in Nat /\ high[i] \in Nat
             /\ low[i] <= mid[i] /\ mid[i] <= high[i]
             /\ low[i] = E * part[i] /\ mid[i] = share * value[i] /\ high[i] = low[i] + whole[i]
             /\ whole[i] = E
  <2>1. share * value[i] \in Nat
        BY <1>2
  <2>2. PICK x \in Nat : x = share * value[i]
        BY <2>1
  <2>3. part[i] = x \div E
        BY <1>2, <2>2
  <2>4. part[i] \in Nat /\ E * part[i] <= x /\ x < E * part[i] + E
        BY <2>3, DivFacts
  <2>5. low[i] = E * part[i] /\ mid[i] = x /\ high[i] = E * part[i] + E /\ whole[i] = E
        BY <2>2
  <2>6. E * part[i] \in Nat
        BY <2>4
  <2> QED
      BY <2>2, <2>4, <2>5, <2>6
<1> HIDE DEF low, mid, high, whole
<1>4. P \in Nat /\ V \in Nat
      BY <1>1, <1>2, <1>3, SumNat
<1>5. SumFunctionOnSet(low, S) = E * P
      BY <1>1, <1>3, SumScaled
<1>6. SumFunctionOnSet(mid, S) = share * V
      BY <1>1, <1>2, <1>3, SumScaled
<1>7. SumFunctionOnSet(whole, S) = E * (last - 1)
  <2>1. IsFiniteSet(S) /\ E \in Int /\ (\A i \in S : whole[i] = E) /\ Cardinality(S) = last - 1
        BY <1>1, <1>3
  <2>2. SumFunctionOnSet(whole, S) = E * Cardinality(S)
        BY ONLY <2>1, SumConstant
  <2> QED
      BY <2>1, <2>2
<1>8. SumFunctionOnSet(high, S) = SumFunctionOnSet(low, S) + SumFunctionOnSet(whole, S)
  <2>1. \A i \in S : low[i] \in Int /\ whole[i] \in Int /\ high[i] = low[i] + whole[i]
        BY <1>3
  <2> QED
      BY <1>1, <2>1, SumPlus
<1>9. SumFunctionOnSet(low, S) <= SumFunctionOnSet(mid, S)
      BY <1>1, <1>3, SumMonotone
<1>10. SumFunctionOnSet(mid, S) <= SumFunctionOnSet(high, S)
       BY <1>1, <1>3, SumMonotone
<1>11. E = value[last] + V /\ value[last] \in Nat
  <2>1. \A x \in S \cup {last} : value[x] \in Int
        BY <1>1
  <2>2. SumFunctionOnSet(value, S \cup {last}) = value[last] + V
        BY <1>1, <2>1, SumAdd
  <2> QED
      BY <1>1, <2>2
<1>12. E - value[last] = V
       BY <1>4, <1>11
<1> QED
    BY <1>4, <1>5, <1>6, <1>7, <1>8, <1>9, <1>10, <1>12 DEF S

(* A share is split over the targets in proportion to what they are paid,  *)
(* but for what the rounding takes from the others for the last of them.   *)
LEMMA PartFacts ==
  ASSUME NEW tx, IsPositive(tx.outs), NEW R, R \subseteq DOMAIN tx.outs,
         NEW targets, Listed(targets, R), NEW share \in Nat, NEW a \in R
  PROVE  LET E == SumFunctionOnSet(tx.outs, R)
             got == At(TargetParts(tx, share, targets), a)
             off == E * (Cardinality(R) - 1)
         IN /\ got \in Nat /\ E \in Nat \ {0} /\ tx.outs[a] \in Nat /\ tx.outs[a] <= E
            /\ Cardinality(R) \in Nat \ {0}
            /\ E * got <= share * tx.outs[a] + off
            /\ share * tx.outs[a] <= E * got + off
<1> DEFINE outs == tx.outs
           last == Len(targets)
           value == [i \in 1..last |-> outs[targets[i]]]
           E == SumFunctionOnSet(outs, R)
           part == [i \in 1..(last - 1) |-> (share * value[i]) \div SumFunction(value)]
           rest == share - SumFunction(part)
           parts == Append(part, rest)
           paid == {i \in 1..last : parts[i] > 0}
           at(b) == CHOOSE i \in paid : targets[i] = b
           split == [b \in {targets[i] : i \in paid} |-> parts[at(b)]]
           got == At(TargetParts(tx, share, targets), a)
           off == E * (Cardinality(R) - 1)
<1>1. /\ last \in Nat /\ DOMAIN targets = 1..last /\ targets \in Seq(R)
      /\ \A i, j \in 1..last : targets[i] = targets[j] => i = j
      /\ R = {targets[i] : i \in 1..last}
      BY DEF Listed, ToSet
<1>2. PICK k \in 1..last : targets[k] = a
      BY <1>1
<1>3. last \in Nat \ {0}
      BY <1>1, <1>2
<1>4. IsFiniteSet(1..last) /\ Cardinality(1..last) = last
      BY <1>1, IntervalSize
<1>5. IsFiniteSet(R) /\ Cardinality(R) = last
  <2> DEFINE f == [i \in 1..last |-> targets[i]]
  <2>1. f \in Bijection(1..last, R)
        BY <1>1 DEF Bijection, Injection, Surjection, IsInjective
  <2>2. ExistsBijection(1..last, R)
        BY <2>1 DEF ExistsBijection
  <2> QED
      BY <1>4, <2>2, FS_Bijection
<1>6. /\ IsFiniteSet(R) /\ \A b \in R : outs[b] \in Nat \ {0}
      BY <1>5 DEF IsPositive
<1>7. \A i \in 1..last : value[i] \in Nat \ {0} /\ value[i] = outs[targets[i]]
      BY <1>1, <1>6
<1>8. SumFunction(value) = E
  <2> DEFINE h == [i \in 1..last |-> targets[i]]
             S == 1..last
  <2>1. \A i \in S : value[i] \in Int /\ outs[h[i]] = value[i]
        BY <1>7
  <2>2. \A i, j \in S : h[i] = h[j] => i = j
        BY <1>1
  <2>3. {h[i] : i \in S} = R
        BY <1>1
  <2>4. SumFunctionOnSet(outs, {h[i] : i \in S}) = SumFunctionOnSet(value, S)
    <3>1. IsFiniteSet(S)
          BY <1>4
    <3> HIDE DEF value, h, S
    <3> QED
        BY <2>1, <2>2, <3>1, SumImage
  <2>5. SumFunction(value) = SumFunctionOnSet(value, S)
        BY SumFunctionIs
  <2> QED
      BY <2>3, <2>4, <2>5
<1>9. E \in Nat /\ outs[a] <= E /\ outs[a] \in Nat \ {0}
  <2>1. outs[a] \in Nat \ {0} /\ {a} \subseteq R /\ \A b \in R : outs[b] \in Nat
        BY <1>6
  <2>2. SumFunctionOnSet(outs, R) \in Nat
        BY <1>6, <2>1, SumNat
  <2>3. SumFunctionOnSet(outs, {a}) <= SumFunctionOnSet(outs, R)
        BY <1>6, <2>1, SumPart
  <2>4. SumFunctionOnSet(outs, {a}) = outs[a]
    <3>1. outs[a] \in Int
          BY <2>1
    <3> QED
        BY <3>1, SumOne
  <2> QED
      BY <2>1, <2>2, <2>3, <2>4
<1>10. E \in Nat \ {0}
  <2> HIDE DEF E, outs
  <2> QED
      BY <1>9
<1>11. E = SumFunctionOnSet(value, 1..last)
       BY <1>8, SumFunctionIs
<1>12. \A i \in 1..(last - 1) : part[i] = (share * value[i]) \div E
       BY <1>8
<1>13. /\ DOMAIN part = 1..(last - 1) /\ last - 1 \in Nat
       /\ SumFunction(part) = SumFunctionOnSet(part, 1..(last - 1))
       BY <1>3, SumFunctionIs
<1> DEFINE P == SumFunctionOnSet(part, 1..(last - 1))
<1> HIDE DEF E, part, value, last, outs
<1>14. /\ P \in Nat
       /\ E * P <= share * (E - value[last])
       /\ share * (E - value[last]) <= E * P + E * (last - 1)
  <2>1. \A i \in 1..last : value[i] \in Nat
        BY <1>7
  <2> QED
      BY <1>3, <1>10, <1>11, <1>12, <2>1, PartsRounded
<1>15. ASSUME NEW i \in 1..(last - 1)
       PROVE  /\ part[i] \in Nat
              /\ E * part[i] <= share * value[i]
              /\ share * value[i] <= E * part[i] + E
  <2>1. value[i] \in Nat
        BY <1>3, <1>7
  <2>2. share * value[i] \in Nat
        BY <2>1
  <2>3. PICK x \in Nat : x = share * value[i]
        BY <2>2
  <2>4. part[i] = x \div E
        BY <1>12, <2>3
  <2>5. part[i] \in Nat /\ E * part[i] <= x /\ x < E * part[i] + E
        BY <1>10, <2>4, DivFacts
  <2>6. E * part[i] \in Nat
        BY <1>10, <2>5
  <2> QED
      BY <1>10, <2>3, <2>5, <2>6
<1>16. rest = share - P
       BY <1>13
<1>17. /\ rest \in Nat
       /\ E * rest <= share * value[last] + E * (last - 1)
       /\ share * value[last] <= E * rest
  <2> DEFINE v == value[last]
  <2>1. v \in Nat /\ v <= E
    <3>1. last \in 1..last
          BY <1>3
    <3>2. value[last] \in Nat
          BY <1>7, <3>1
    <3>3. {last} \subseteq 1..last /\ \A i \in 1..last : value[i] \in Nat
          BY <1>7, <3>1
    <3>4. SumFunctionOnSet(value, {last}) <= SumFunctionOnSet(value, 1..last)
          BY <1>4, <3>3, SumPart DEF last
    <3>5. SumFunctionOnSet(value, {last}) = value[last]
      <4>1. value[last] \in Int
            BY <3>2
      <4> QED
          BY <4>1, SumOne
    <3> QED
        BY <1>11, <3>2, <3>4, <3>5
  <2> HIDE DEF v, P
  <2>2. share * (E - v) = share * E - share * v
        BY <1>10, <2>1
  <2>3. share * v \in Nat /\ share * E \in Nat /\ E * P \in Nat /\ E * (last - 1) \in Nat
        BY <1>3, <1>10, <1>14, <2>1
  <2>4. E * P <= share * E - share * v /\ share * E - share * v <= E * P + E * (last - 1)
        BY <1>14, <2>2 DEF v
  <2>5. E * (share - P) = share * E - E * P
        BY <1>10, <1>14
  <2>6. E * P <= E * share
        BY <1>10, <2>3, <2>4
  <2>7. P <= share
    <3> SUFFICES ASSUME share < P PROVE FALSE
        BY <1>14
    <3>1. share + 1 <= P
          BY <1>14
    <3>2. (share + 1) * E <= P * E
          BY <1>10, <1>14, <3>1, ProductMonotone
    <3>3. (share + 1) * E = share * E + E
          BY <1>10
    <3> QED
        BY <1>10, <1>14, <2>3, <2>6, <3>2, <3>3
  <2>8. share - P \in Nat
        BY <1>14, <2>7
  <2>9. E * (share - P) <= share * v + E * (last - 1) /\ share * v <= E * (share - P)
        BY <2>3, <2>4, <2>5
  <2> QED
      BY <1>16, <2>8, <2>9 DEF v
<1> HIDE DEF rest, P
<1>18. /\ part \in Seq(Nat) /\ Len(part) = last - 1
  <2>1. part = [i \in 1..(last - 1) |-> part[i]] /\ \A i \in 1..(last - 1) : part[i] \in Nat
        BY <1>13, <1>15 DEF part
  <2>2. part \in [1..(last - 1) -> Nat]
        BY <2>1
  <2> QED
      BY <1>13, <2>2
<1>19. /\ \A i \in 1..(last - 1) : parts[i] = part[i]
       /\ parts[last] = rest
       BY <1>3, <1>17, <1>18
<1> HIDE DEF parts
<1>20. /\ parts[k] \in Nat
       /\ E * parts[k] <= share * value[k] + E * (last - 1)
       /\ share * value[k] <= E * parts[k] + E * (last - 1)
  <2>1. CASE k = last
    <3>1. E * (last - 1) \in Nat /\ E * rest \in Nat
          BY <1>3, <1>10, <1>17
    <3>2. value[k] \in Nat /\ share * value[k] \in Nat
          BY <1>7
    <3> QED
        BY <1>17, <1>19, <2>1, <3>1, <3>2
  <2>2. CASE k # last
    <3>1. k \in 1..(last - 1)
          BY <1>3, <2>2
    <3>2. last - 1 >= 1 /\ last - 1 \in Nat
          BY <1>3, <3>1
    <3>3. (last - 1) * E >= 1 * E
          BY <1>10, <3>2, ProductMonotone
    <3>4. E * (last - 1) >= E /\ E * (last - 1) \in Nat
          BY <1>3, <1>10, <3>3
    <3>5. value[k] \in Nat
          BY <1>7
    <3>6. share * value[k] \in Nat /\ part[k] \in Nat
          BY <1>15, <3>1, <3>5
    <3>7. E * part[k] \in Nat
          BY <1>10, <3>6
    <3>8. E * part[k] <= share * value[k] /\ share * value[k] <= E * part[k] + E
          BY <1>15, <3>1
    <3> QED
        BY <1>10, <1>19, <3>1, <3>4, <3>6, <3>7, <3>8
  <2> QED
      BY <2>1, <2>2
<1>21. got = parts[k]
  <2>1. CASE share = 0
    <3>1. TargetParts(tx, share, targets) = NoAmounts
          BY <2>1 DEF TargetParts
    <3>2. got = 0
          BY <3>1 DEF At, NoAmounts
    <3>3. E * parts[k] <= E * (last - 1) /\ parts[k] \in Nat
      <4>1. share * value[k] = 0
            BY <1>7, <2>1
      <4> QED
          BY <1>3, <1>10, <1>20, <4>1
    <3>4. parts[k] = 0
      <4>1. CASE k = last
        <5>1. E * P <= 0 /\ rest = -P /\ rest \in Nat /\ P \in Nat
          <6>1. share * (E - value[last]) = 0
            <7>1. value[last] \in Nat
                  BY <1>3, <1>7
            <7> QED
                BY <1>10, <2>1, <7>1
          <6> QED
              BY <1>14, <1>16, <1>17, <2>1, <6>1
        <5> QED
            BY <1>19, <4>1, <5>1
      <4>2. CASE k # last
        <5>1. k \in 1..(last - 1) /\ value[k] \in Nat
              BY <1>3, <1>7, <4>2
        <5>2. E * part[k] <= 0 /\ part[k] \in Nat
          <6>1. share * value[k] = 0
                BY <2>1, <5>1
          <6> QED
              BY <1>15, <5>1, <6>1
        <5>3. part[k] = 0
          <6> SUFFICES ASSUME part[k] >= 1 PROVE FALSE
              BY <5>2
          <6>1. part[k] * E >= 1 * E
                BY <1>10, <5>2, ProductMonotone
          <6> QED
              BY <1>10, <5>2, <6>1
        <5> QED
            BY <1>19, <5>1, <5>3
      <4> QED
          BY <4>1, <4>2
    <3> QED
        BY <3>2, <3>4
  <2>2. CASE share # 0
    <3>1. TargetParts(tx, share, targets) = split
          BY <2>2 DEF TargetParts, parts, part, rest, value, last, outs
    <3>2. CASE parts[k] > 0
      <4>1. k \in paid
            BY <3>2
      <4>2. at(a) = k
        <5>1. \A i \in paid : targets[i] = a => i = k
              BY <1>1, <1>2
        <5> QED
            BY <1>2, <4>1, <5>1
      <4>3. a \in DOMAIN split /\ split[a] = parts[k]
            BY <1>2, <4>1, <4>2
      <4> QED
          BY <3>1, <4>3 DEF At
    <3>3. CASE ~(parts[k] > 0)
      <4>1. a \notin DOMAIN split
            BY <1>1, <1>2, <3>3
      <4>2. parts[k] = 0
            BY <1>20, <3>3
      <4> QED
          BY <3>1, <4>1, <4>2 DEF At
    <3> QED
        BY <3>2, <3>3
  <2> QED
      BY <2>1, <2>2
<1>22. value[k] = outs[a]
       BY <1>2, <1>7
<1>23. outs[a] \in Nat /\ outs[a] <= E /\ Cardinality(R) = last /\ last \in Nat \ {0}
       BY <1>3, <1>5, <1>9
<1> QED
    BY <1>10, <1>20, <1>21, <1>22, <1>23 DEF outs, E

(* The rewritten rows carry the shares; no other row of a payer names who  *)
(* does not pay.                                                           *)
LEMMA SaidIsParts ==
  ASSUME NEW tx, IsCoins(tx.ins), IsAmounts(tx.outs), Payers(tx.ins) \subseteq Managed,
         NEW sendOut, \A p \in Payers(tx.ins) : sendOut[p] \in Nat,
         FollowsOrder(tx, sendOut), BookedPayers(tx, sendOut) = Payers(tx.ins),
         NEW order, NEW targets, targets = OutboundTargets(Payers(tx.ins), order),
         targets # <<>>,
         NEW a, a \notin Payers(tx.ins),
         NEW got,
         \A p \in Payers(tx.ins) : /\ got[p] = At(TargetParts(tx, sendOut[p], targets), a)
                                   /\ got[p] \in Nat
  PROVE  SaidToGet(Rows(tx, sendOut, order), a) = SumFunctionOnSet(got, Payers(tx.ins))
<1> DEFINE B == Payers(tx.ins)
           fees == [p \in B |-> FeeOf(tx, sendOut, p)]
           parts(p) == IF targets = <<>> THEN NoAmounts ELSE TargetParts(tx, sendOut[p], targets)
           rewritten == {p \in B : sendOut[p] > 0 \/ fees[p] > 0}
           send(p) == SendRow(Item(tx, p), sendOut[p], parts(p))
           items == {Item(tx, b) : b \in Touched(tx) \ rewritten}
           sends == {send(p) : p \in rewritten}
           paying == {q \in B : fees[q] > 0}
           paid == {FeeRow(p, fees[p]) : p \in paying}
           R == items \cup sends \cup paid
           W == WithoutPayersReceiving(R)
           giving == {r \in W : r.from # NoAmounts}
           g == [r \in giving |-> At(r.to, a)]
           h == [p \in rewritten |-> send(p)]
<1>1. Rows(tx, sendOut, order) = W
      BY DEF Rows
<1>2. SaidToGet(W, a) = SumFunctionOnSet(g, giving)
      BY SumFunctionIs DEF SaidToGet
<1>3. ASSUME NEW p \in rewritten
      PROVE  send(p).addr = p /\ send(p).from # NoAmounts /\ At(send(p).to, a) = got[p]
  <2>1. sendOut[p] \in Nat /\ p # a
        OBVIOUS
  <2>2. send(p).addr = p /\ send(p).from # NoAmounts
    <3> DEFINE q == parts(p)
    <3> HIDE DEF q
    <3>1. LET row == SendRow(Item(tx, p), sendOut[p], q)
          IN row.addr = p /\ row.from # NoAmounts
          BY <2>1, SendRowFacts
    <3> QED
        BY ONLY <3>1 DEF q
  <2>3. send(p).to = ExternalOutboundLegs(Written(parts(p), Item(tx, p).to), p)
        BY DEF SendRow, Item
  <2>4. parts(p) = TargetParts(tx, sendOut[p], targets)
        OBVIOUS
  <2>5. DOMAIN Item(tx, p).to \subseteq {p}
        BY DEF Item, Restrict
  <2> DEFINE q == parts(p)
             to == Item(tx, p).to
  <2>6. At(ExternalOutboundLegs(Written(q, to), p), a) = At(q, a)
    <3> HIDE DEF q, to
    <3> QED
        BY <2>1, <2>5 DEF ExternalOutboundLegs, Written, Restrict, At, to
  <2> QED
      BY <2>2, <2>3, <2>4, <2>6
<1>4. IsFiniteSet(B) /\ IsFiniteSet(rewritten) /\ IsFiniteSet(paying)
      BY ManagedAssumption, FS_Subset
<1>5. IsFiniteSet(giving)
  <2>1. IsFiniteSet(Touched(tx) \ rewritten)
    <3>1. Touched(tx) \ rewritten \subseteq Managed
          BY DEF Touched
    <3> QED
        BY <3>1, ManagedAssumption, FS_Subset
  <2>2. IsFiniteSet(items)
    <3> DEFINE k == [b \in Touched(tx) \ rewritten |-> Item(tx, b)]
    <3>1. k \in Surjection(Touched(tx) \ rewritten, items)
          BY DEF Surjection
    <3> QED
        BY <2>1, <3>1, FS_Surjection
  <2>3. IsFiniteSet(sends)
    <3>1. h \in Surjection(rewritten, sends)
          BY DEF Surjection
    <3> QED
        BY <1>4, <3>1, FS_Surjection
  <2>4. IsFiniteSet(paid)
    <3> DEFINE k == [p \in paying |-> FeeRow(p, fees[p])]
    <3>1. k \in Surjection(paying, paid)
          BY DEF Surjection
    <3> QED
        BY <1>4, <3>1, FS_Surjection
  <2> HIDE DEF items, sends, paid
  <2>5. IsFiniteSet(R)
        BY <2>2, <2>3, <2>4, FS_Union
  <2>6. giving \subseteq R
        BY DEF WithoutPayersReceiving
  <2> QED
      BY <2>5, <2>6, FS_Subset
<1>6. sends \subseteq giving
  <2> SUFFICES ASSUME NEW p \in rewritten PROVE send(p) \in giving
      OBVIOUS
  <2>1. send(p) \in R
        OBVIOUS
  <2> HIDE DEF send, R
  <2>2. send(p).from # NoAmounts
        BY <1>3
  <2> QED
      BY <2>1, <2>2, GivingRowsStay
<1>7. ASSUME NEW r \in giving \ sends PROVE g[r] = 0
  <2>1. r \in R /\ r.from # NoAmounts /\ g[r] = At(r.to, a)
        BY DEF WithoutPayersReceiving
  <2>2. CASE r \in paid
    <3>1. r.to = NoAmounts
      <4>1. PICK p \in paying : r = FeeRow(p, fees[p])
            BY <2>2
      <4> QED
          BY <4>1 DEF FeeRow
    <3> QED
        BY <2>1, <3>1 DEF At, NoAmounts
  <2>3. CASE r \in items
    <3>1. PICK b \in Touched(tx) : r = Item(tx, b)
          BY <2>3
    <3>2. r.from = Restrict([p \in B |-> Vin(tx, p)], B \cap {b})
          BY <3>1 DEF Item
    <3>3. b \in B
      <4> SUFFICES ASSUME b \notin B PROVE FALSE
          OBVIOUS
      <4>1. r.from = [p \in {} |-> 0]
        <5>1. B \cap {b} = {}
              OBVIOUS
        <5> QED
            BY <3>2, <5>1 DEF Restrict
      <4> QED
          BY <2>1, <4>1 DEF NoAmounts
    <3>4. DOMAIN r.to \subseteq {b}
          BY <3>1 DEF Item, Restrict
    <3> QED
        BY <2>1, <3>3, <3>4 DEF At
  <2> QED
      BY <2>1, <2>2, <2>3
<1>8. ASSUME NEW p \in B \ rewritten PROVE got[p] = 0
  <2>1. sendOut[p] = 0
    <3>1. sendOut[p] \in Nat /\ ~(sendOut[p] > 0)
          OBVIOUS
    <3> QED
        BY <3>1
  <2>2. TargetParts(tx, sendOut[p], targets) = NoAmounts
        BY <2>1 DEF TargetParts
  <2> QED
      BY <2>2 DEF At, NoAmounts
<1>9. \A p \in rewritten : got[p] \in Int /\ g[h[p]] = got[p] /\ h[p].addr = p
  <2> SUFFICES ASSUME NEW p \in rewritten
               PROVE  got[p] \in Int /\ g[h[p]] = got[p] /\ h[p].addr = p
      OBVIOUS
  <2>1. send(p).addr = p /\ At(send(p).to, a) = got[p]
        BY <1>3
  <2>2. send(p) \in giving /\ h[p] = send(p)
        BY <1>6
  <2>3. got[p] \in Int
        OBVIOUS
  <2> HIDE DEF send, giving, h
  <2> QED
      BY <2>1, <2>2, <2>3
<1>10. sends = {h[p] : p \in rewritten} /\ rewritten \subseteq B
       OBVIOUS
<1> HIDE DEF g, h, giving, sends, rewritten, W, B
<1>11. \A r \in giving : g[r] \in Int
  <2>1. \A r \in sends : g[r] \in Int
        BY <1>9, <1>10
  <2> QED
      BY <1>7, <2>1
<1>12. SumFunctionOnSet(g, giving) = SumFunctionOnSet(g, sends)
       BY <1>5, <1>6, <1>7, <1>11, SumExtended
<1>13. SumFunctionOnSet(g, {h[p] : p \in rewritten}) = SumFunctionOnSet(got, rewritten)
  <2>1. \A p, q \in rewritten : h[p] = h[q] => p = q
        BY <1>9
  <2> QED
      BY <1>4, <1>9, <2>1, SumImage
<1>14. SumFunctionOnSet(got, B) = SumFunctionOnSet(got, rewritten)
  <2>1. \A p \in B : got[p] \in Int
        BY DEF B
  <2> QED
      BY <1>4, <1>8, <1>10, <2>1, SumExtended
<1> QED
    BY <1>1, <1>2, <1>10, <1>12, <1>13, <1>14 DEF B

(* What differs by so much of the whole in multiples of the whole, differs *)
(* by so much.                                                             *)
LEMMA WithinSlack ==
  ASSUME NEW E \in Nat \ {0}, NEW x \in Int, NEW v \in Int, NEW s \in Int,
         E * x <= E * v + E * s
  PROVE  x <= v + s
<1> SUFFICES ASSUME x >= v + s + 1 PROVE FALSE
    OBVIOUS
<1>1. PICK d \in Nat : x = (v + s + 1) + d
  <2>1. x - (v + s + 1) \in Nat /\ x = (v + s + 1) + (x - (v + s + 1))
        OBVIOUS
  <2> QED
      BY <2>1
<1>2. E * x = E * v + E * s + E + E * d
      BY <1>1
<1>3. E * d \in Nat /\ E * v \in Int /\ E * s \in Int
      OBVIOUS
<1> DEFINE ed == E * d
           ev == E * v
           es == E * s
           ex == E * x
<1>4. ex = ev + es + E + ed /\ ed \in Nat /\ ev \in Int /\ es \in Int /\ ex <= ev + es
      BY <1>2, <1>3
<1> HIDE DEF ed, ev, es, ex
<1> QED
    BY <1>4

LEMMA SharesAddUp ==
  ASSUME NEW B, IsFiniteSet(B), NEW got, NEW share,
         \A p \in B : got[p] \in Nat /\ share[p] \in Nat,
         NEW E \in Nat \ {0}, NEW v \in Nat, v <= E, NEW more \in Nat,
         \A p \in B : /\ E * got[p] <= share[p] * v + E * more
                      /\ share[p] * v <= E * got[p] + E * more,
         NEW S, S = SumFunctionOnSet(share, B), ~Differ(S, E)
  PROVE  LET slack == Tolerance + Cardinality(B) * more
         IN SumFunctionOnSet(got, B) - v \in -slack..slack
<1> DEFINE X == SumFunctionOnSet(got, B)
           n == Cardinality(B)
           mine == [p \in B |-> E * got[p]]
           theirs == [p \in B |-> v * share[p]]
           off == [p \in B |-> E * more]
           mineMore == [p \in B |-> mine[p] + off[p]]
           theirsMore == [p \in B |-> theirs[p] + off[p]]
           slack == Tolerance + n * more
<1>1. X \in Nat /\ S \in Nat /\ n \in Nat /\ E * more \in Nat
      BY SumNat, FS_CardinalityType
<1>2. ASSUME NEW p \in B
      PROVE  /\ mine[p] \in Nat /\ theirs[p] \in Nat /\ off[p] \in Nat
             /\ mineMore[p] \in Nat /\ theirsMore[p] \in Nat
             /\ mine[p] = E * got[p] /\ theirs[p] = v * share[p] /\ off[p] = E * more
             /\ mineMore[p] = mine[p] + off[p] /\ theirsMore[p] = theirs[p] + off[p]
             /\ mine[p] <= theirsMore[p] /\ theirs[p] <= mineMore[p]
  <2>1. got[p] \in Nat /\ share[p] \in Nat
        OBVIOUS
  <2>2. E * got[p] \in Nat /\ v * share[p] \in Nat /\ v * share[p] = share[p] * v
        BY <2>1
  <2>3. /\ E * got[p] <= share[p] * v + E * more
        /\ share[p] * v <= E * got[p] + E * more
        OBVIOUS
  <2> QED
      BY <1>1, <2>2, <2>3
<1> HIDE DEF mine, theirs, off, mineMore, theirsMore
<1>3. SumFunctionOnSet(mine, B) = E * X
      BY <1>2, SumScaled
<1>4. SumFunctionOnSet(theirs, B) = v * S
      BY <1>2, SumScaled
<1>5. SumFunctionOnSet(off, B) = (E * more) * n
      BY <1>1, <1>2, SumConstant
<1>6. SumFunctionOnSet(mineMore, B) = SumFunctionOnSet(mine, B) + SumFunctionOnSet(off, B)
  <2>1. \A p \in B : mine[p] \in Int /\ off[p] \in Int /\ mineMore[p] = mine[p] + off[p]
        BY <1>2
  <2> QED
      BY <2>1, SumPlus
<1>7. SumFunctionOnSet(theirsMore, B) = SumFunctionOnSet(theirs, B) + SumFunctionOnSet(off, B)
  <2>1. \A p \in B : theirs[p] \in Int /\ off[p] \in Int /\ theirsMore[p] = theirs[p] + off[p]
        BY <1>2
  <2> QED
      BY <2>1, SumPlus
<1>8. SumFunctionOnSet(mine, B) <= SumFunctionOnSet(theirsMore, B)
  <2>1. \A p \in B : mine[p] \in Int /\ theirsMore[p] \in Int /\ mine[p] <= theirsMore[p]
        BY <1>2
  <2> QED
      BY <2>1, SumMonotone
<1>9. SumFunctionOnSet(theirs, B) <= SumFunctionOnSet(mineMore, B)
  <2>1. \A p \in B : theirs[p] \in Int /\ mineMore[p] \in Int /\ theirs[p] <= mineMore[p]
        BY <1>2
  <2> QED
      BY <2>1, SumMonotone
<1> HIDE DEF X, n
<1>10. (E * more) * n = E * (n * more) /\ n * more \in Nat /\ E * (n * more) \in Nat
       BY <1>1
<1>11. v * S <= E * v + E /\ E * v <= v * S + E /\ v * S \in Nat /\ E * v \in Nat
  <2>1. S <= E + 1 /\ E <= S + 1
        BY <1>1 DEF Differ, Tolerance
  <2>2. (E + 1) * v >= S * v /\ (S + 1) * v >= E * v
        BY <1>1, <2>1, ProductMonotone
  <2>3. (E + 1) * v = E * v + v /\ (S + 1) * v = S * v + v /\ S * v = v * S
        BY <1>1
  <2>4. v * S \in Nat /\ E * v \in Nat
        BY <1>1
  <2> QED
      BY <2>2, <2>3, <2>4
<1> DEFINE d == n * more
<1>12. d \in Nat /\ E * d \in Nat /\ E * (1 + d) = E + E * d
       BY <1>10
<1>13. E * X <= v * S + E * d /\ v * S <= E * X + E * d /\ E * X \in Nat
       BY <1>1, <1>3, <1>4, <1>5, <1>6, <1>7, <1>8, <1>9, <1>10
<1> HIDE DEF d
<1>14. E * X <= E * v + E * (1 + d)
       BY <1>11, <1>12, <1>13
<1>15. E * v <= E * X + E * (1 + d)
       BY <1>11, <1>12, <1>13
<1>16. X <= v + (1 + d) /\ v <= X + (1 + d)
       BY <1>1, <1>12, <1>14, <1>15, WithinSlack
<1>17. slack = 1 + d
       BY DEF Tolerance, d
<1> HIDE DEF slack
<1>18. X - v \in -slack..slack
       BY <1>1, <1>12, <1>16, <1>17
<1> QED
    BY <1>18 DEF slack, X, n

(* The shares of an order that reconciles, split over the recipients, give *)
(* every one of them what the chain gives it, up to the roundings.         *)
LEMMA RecipientShare ==
  ASSUME NEW tx, IsCoins(tx.ins), IsPositive(tx.outs), Payers(tx.ins) \subseteq Managed,
         NEW sendOut, DOMAIN sendOut = Payers(tx.ins), \A p \in DOMAIN sendOut : sendOut[p] \in Nat,
         FollowsOrder(tx, sendOut), BookedPayers(tx, sendOut) = Payers(tx.ins),
         NEW order, Listed(order, DOMAIN tx.outs),
         NEW a \in DOMAIN tx.outs \ Payers(tx.ins)
  PROVE  LET slack == Tolerance + Cardinality(Payers(tx.ins))
                                   * (Cardinality(DOMAIN tx.outs \ Payers(tx.ins)) - 1)
         IN SaidToGet(Rows(tx, sendOut, order), a) - Vout(tx, a) \in -slack..slack
<1> DEFINE B == Payers(tx.ins)
           R == DOMAIN tx.outs \ B
           targets == OutboundTargets(B, order)
           E == SumFunctionOnSet(tx.outs, R)
           v == tx.outs[a]
           more == Cardinality(R) - 1
           got == [p \in B |-> At(TargetParts(tx, sendOut[p], targets), a)]
<1>1. Listed(targets, R)
      BY TargetsListed
<1>2. targets # <<>>
  <2>1. a \in R
        OBVIOUS
  <2> HIDE DEF targets, R
  <2> QED
      BY <1>1, <2>1 DEF Listed, ToSet
<1>3. R \subseteq DOMAIN tx.outs /\ a \in R /\ a \notin B /\ B \subseteq Managed
      OBVIOUS
<1>4. \A p \in B : sendOut[p] \in Nat
      OBVIOUS
<1>5. Vout(tx, a) = v
      BY DEF Vout, At
<1>6. ASSUME NEW share \in Nat
      PROVE  LET part == At(TargetParts(tx, share, targets), a)
             IN /\ part \in Nat /\ E \in Nat \ {0} /\ v \in Nat /\ v <= E
                /\ more \in Nat
                /\ E * part <= share * v + E * more
                /\ share * v <= E * part + E * more
  <2> DEFINE part == At(TargetParts(tx, share, targets), a)
  <2> HIDE DEF targets, R
  <2>1. /\ part \in Nat /\ E \in Nat \ {0} /\ v \in Nat /\ v <= E
        /\ Cardinality(R) \in Nat \ {0}
        /\ E * part <= share * v + E * (Cardinality(R) - 1)
        /\ share * v <= E * part + E * (Cardinality(R) - 1)
        BY <1>1, <1>3, PartFacts
  <2>2. more \in Nat
    <3> HIDE DEF part, E, v
    <3> QED
        BY <2>1
  <2> QED
      BY <2>1, <2>2
<1>7. /\ E \in Nat \ {0} /\ v \in Nat /\ v <= E /\ more \in Nat
  <2>1. 0 \in Nat
        OBVIOUS
  <2> HIDE DEF E, v, more, targets
  <2> QED
      BY <1>6, <2>1
<1>8. ASSUME NEW p \in B
      PROVE  /\ got[p] = At(TargetParts(tx, sendOut[p], targets), a) /\ got[p] \in Nat
             /\ E * got[p] <= sendOut[p] * v + E * more
             /\ sendOut[p] * v <= E * got[p] + E * more
  <2>1. got[p] = At(TargetParts(tx, sendOut[p], targets), a)
        OBVIOUS
  <2>2. sendOut[p] \in Nat
        OBVIOUS
  <2> HIDE DEF E, v, more, targets, got
  <2> QED
      BY <1>6, <2>1, <2>2
<1>9. IsAmounts(tx.outs)
      BY PositiveAmounts
<1>10. SaidToGet(Rows(tx, sendOut, order), a) = SumFunctionOnSet(got, B)
  <2>1. \A p \in B : got[p] = At(TargetParts(tx, sendOut[p], targets), a) /\ got[p] \in Nat
        BY <1>8
  <2>2. targets = OutboundTargets(B, order)
        OBVIOUS
  <2> HIDE DEF got, targets
  <2> QED
      BY <1>2, <1>4, <1>9, <2>1, <2>2, SaidIsParts
<1> DEFINE S == SumFunctionOnSet(sendOut, B)
<1>11. ~Differ(S, E)
  <2>1. Reconciles(tx, sendOut)
        BY DEF FollowsOrder
  <2>2. ExternalOut(tx, sendOut) = E
        BY DEF ExternalOut
  <2>3. SumFunction(sendOut) = S
        BY SumFunctionIs
  <2> HIDE DEF E, S
  <2>4. E > 0
        BY <1>7
  <2> QED
      BY <2>1, <2>2, <2>3, <2>4 DEF Reconciles, SendOutAddsUp
<1>12. IsFiniteSet(B)
       BY ManagedAssumption, FS_Subset
<1>13. SumFunctionOnSet(got, B) - v \in -(Tolerance + Cardinality(B) * more)..(Tolerance + Cardinality(B) * more)
  <2>1. \A p \in B : got[p] \in Nat /\ sendOut[p] \in Nat
        BY <1>4, <1>8
  <2>2. \A p \in B : /\ E * got[p] <= sendOut[p] * v + E * more
                     /\ sendOut[p] * v <= E * got[p] + E * more
        BY <1>8
  <2>3. S = SumFunctionOnSet(sendOut, B)
        OBVIOUS
  <2> HIDE DEF got, E, v, more, S, B
  <2> QED
      BY <1>7, <1>11, <1>12, <2>1, <2>2, <2>3, SharesAddUp
<1> QED
    BY <1>5, <1>10, <1>13

LEMMA SetToSeqsListed ==
  ASSUME NEW S, IsFiniteSet(S), NEW order \in SetToSeqs(S)
  PROVE  Listed(order, S)
<1> DEFINE n == Cardinality(S)
<1>1. n \in Nat
      BY FS_CardinalityType
<1>2. order \in [1..n -> S] /\ IsInjective(order)
      BY DEF SetToSeqs, IsInjective
<1>3. order \in Injection(1..n, S)
      BY <1>2 DEF Injection
<1>4. IsFiniteSet(1..n) /\ Cardinality(1..n) = n
      BY <1>1, IntervalSize
<1>5. order \in Surjection(1..n, S)
      BY <1>3, <1>4, FS_Injection
<1>6. order \in Seq(S) /\ DOMAIN order = 1..n
      BY <1>1, <1>2
<1>7. ToSet(order) = S
      BY <1>5, <1>6 DEF ToSet, Surjection
<1> QED
    BY <1>2, <1>6, <1>7 DEF Listed, IsInjective

(* What was scanned and does not stay raw has been found right.            *)
BookedInv ==
  \A t \in Scanned \ raw :
    RequiresAccounting(txs[t]) => Reconciles(txs[t], txs[t].sendOut)

LEMMA BookedInit == Init => BookedInv
<1> SUFFICES ASSUME Init PROVE BookedInv
    OBVIOUS
<1>1. Scanned = {}
      BY DEF Init, Scanned
<1> QED
    BY <1>1 DEF BookedInv

LEMMA BookedKept ==
  ASSUME StatusInv, BookedInv, Extended, Scanned' = Scanned, raw' = raw
  PROVE  BookedInv'
<1>1. Scanned \subseteq Ids
      BY DEF StatusInv, Scanned
<1>2. \A t \in Scanned : txs'[t] = txs[t]
      BY <1>1 DEF Extended
<1> QED
    BY <1>2 DEF BookedInv

LEMMA BookedScanned ==
  ASSUME TxsInv, StatusInv, BookedInv, ScanBlock
  PROVE  BookedInv'
<1>1. PICK t : t = chain[cursor + 1]
      OBVIOUS
<1>2. Scanned' = Scanned \cup {t} /\ txs' = txs
      BY <1>1, ScanStatus DEF ScanBlock
<1>3. PICK again \in {Snapshot(t), NotWritten} :
        /\ Extractable(t)
        /\ raw' = IF RequiresAccounting(txs[t]) /\ again = NotWritten THEN raw \cup {t} ELSE raw
      BY <1>1 DEF ScanBlock
<1>4. t \notin raw' /\ RequiresAccounting(txs[t]) => Reconciles(txs[t], txs[t].sendOut)
  <2> SUFFICES ASSUME t \notin raw', RequiresAccounting(txs[t])
               PROVE  Reconciles(txs[t], txs[t].sendOut)
      OBVIOUS
  <2>1. again # NotWritten
        BY <1>3
  <2>2. Snapshot(t) = txs[t].sendOut
        BY <2>1 DEF Snapshot
  <2> QED
      BY <1>3, <2>2 DEF Extractable
<1>5. raw \subseteq raw'
      BY <1>3
<1> QED
    BY <1>2, <1>4, <1>5 DEF BookedInv

LEMMA BookedStep == PaymentsInv /\ BookedInv /\ [Next]_vars => BookedInv'
<1> SUFFICES ASSUME PaymentsInv, BookedInv, [Next]_vars PROVE BookedInv'
    OBVIOUS
<1>1. TxsInv /\ StatusInv
      BY DEF PaymentsInv
<1>2. CASE Wallet
  <2>1. DraftStep
        BY <1>1, <1>2, WalletTxs
  <2>2. Extended /\ chain' = chain /\ cursor' = cursor /\ raw' = raw
        BY <2>1 DEF DraftStep, scanner
  <2>3. Scanned' = Scanned
        BY <2>2 DEF Scanned
  <2> QED
      BY <1>1, <2>2, <2>3, BookedKept
<1>3. ASSUME NEW t \in Ids, Submit(t) \/ RecordOrder(t) \/ Mine(t)
      PROVE  BookedInv'
  <2>1. /\ txs' = txs /\ cursor' = cursor /\ raw' = raw
        /\ chain' = chain \/ chain' = Append(chain, t)
        BY <1>3 DEF Submit, RecordOrder, Mine, scanner
  <2>2. Scanned' = Scanned
        BY <1>1, <2>1 DEF Scanned, StatusInv
  <2>3. Extended
        BY <1>1, <2>1, SameTxs
  <2> QED
      BY <1>1, <2>1, <2>2, <2>3, BookedKept
<1>4. ASSUME NEW outs \in Incoming, Receive(outs)
      PROVE  BookedInv'
  <2>1. TxsInv' /\ ReceiveStep
        BY <1>1, <1>4, ReceiveTxs
  <2>2. Scanned' = Scanned
        BY <1>1, <2>1, ReceiveStatus
  <2>3. Extended /\ raw' = raw
        BY <1>4, <2>1 DEF ReceiveStep, Receive, scanner
  <2> QED
      BY <1>1, <2>2, <2>3, BookedKept
<1>5. CASE ScanBlock
      BY <1>1, <1>5, BookedScanned
<1>6. CASE UNCHANGED vars
  <2>1. txs' = txs /\ chain' = chain /\ cursor' = cursor /\ raw' = raw
        BY <1>6 DEF vars, scanner
  <2>2. Scanned' = Scanned
        BY <2>1 DEF Scanned
  <2>3. Extended
        BY <1>1, <2>1, SameTxs
  <2> QED
      BY <1>1, <2>1, <2>2, <2>3, BookedKept
<1> QED
    BY <1>2, <1>3, <1>4, <1>5, <1>6 DEF Next, Network

(* RecipientsGetTheirs: attachSendOutTargets splits the shares of all      *)
(* payers over the recipients, rounding every part down and giving the     *)
(* last what is left; what the rows say that a recipient got differs from  *)
(* its output by a satoshi and one for each payer and further recipient at *)
(* most, however many there are of either.                                 *)
THEOREM RecipientsServed == Spec => []RecipientsGetTheirs
<1>1. ASSUME PaymentsInv, BookedInv
      PROVE  RecipientsGetTheirs
  <2> SUFFICES ASSUME NEW t \in Scanned \ raw, RequiresAccounting(txs[t]),
                      NEW order \in OutputOrders(txs[t]),
                      NEW a \in DOMAIN txs[t].outs \ BookedPayers(txs[t], txs[t].sendOut)
               PROVE  LET payers == BookedPayers(txs[t], txs[t].sendOut)
                          recipients == DOMAIN txs[t].outs \ payers
                          slack == Tolerance + Cardinality(payers) * (Cardinality(recipients) - 1)
                      IN SaidToGet(Rows(txs[t], txs[t].sendOut, order), a) - Vout(txs[t], a)
                           \in -slack..slack
      BY DEF RecipientsGetTheirs
  <2> DEFINE tx == txs[t]
             sendOut == tx.sendOut
  <2>1. TxsInv /\ t \in Ids
        BY <1>1 DEF PaymentsInv, StatusInv, Scanned
  <2>2. Reconciles(tx, sendOut) /\ FollowsOrder(tx, sendOut) /\ sendOut # NotWritten
        BY <1>1 DEF BookedInv, FollowsOrder, Reconciles
  <2>3. IsOwn(tx, t)
        BY <2>1, <2>2 DEF TxsInv, IsReceived
  <2>4. Balanced(tx, Managed) /\ tx.ins \in Seq(CoinsBefore(t))
        BY <2>3 DEF IsOwn, IsBuilt
  <2>5. /\ IsCoins(tx.ins) /\ IsPositive(tx.to) /\ IsPositive(tx.outs)
        /\ sendOut = PayerSendOut(tx.ins, tx.to, tx.outs)
        BY <2>4, BalancedOutputs DEF Balanced
  <2>6. Payers(tx.ins) \subseteq Managed
    <3>1. \A c \in CoinsBefore(t) : c.addr \in Managed
          BY DEF CoinsBefore
    <3> QED
        BY <2>4, <3>1, PayersOf
  <2>7. DOMAIN sendOut = Payers(tx.ins)
        BY <2>2, <2>5, SendOutDomain
  <2>8. \A p \in DOMAIN sendOut : sendOut[p] \in Nat
    <3>1. IsAmounts(tx.to) /\ IsAmounts(tx.outs)
          BY <2>5, PositiveAmounts
    <3> QED
        BY <2>5, <3>1, SendOutType
  <2>9. BookedPayers(tx, sendOut) = Payers(tx.ins)
        BY <2>2, <2>6, <2>7, BookedAreAll DEF FollowsOrder
  <2>10. Listed(order, DOMAIN tx.outs)
         BY <2>5, SetToSeqsListed DEF OutputOrders, IsPositive
  <2>11. a \in DOMAIN tx.outs \ Payers(tx.ins)
         BY <2>9
  <2> HIDE DEF tx, sendOut
  <2>12. LET slack == Tolerance + Cardinality(Payers(tx.ins))
                                   * (Cardinality(DOMAIN tx.outs \ Payers(tx.ins)) - 1)
         IN SaidToGet(Rows(tx, sendOut, order), a) - Vout(tx, a) \in -slack..slack
         BY <2>2, <2>5, <2>6, <2>7, <2>8, <2>9, <2>10, <2>11, RecipientShare
  <2> QED
      BY <2>9, <2>12 DEF tx, sendOut
<1>2. Init => PaymentsInv /\ BookedInv
      BY PaymentsInit, BookedInit
<1>3. (PaymentsInv /\ BookedInv) /\ [Next]_vars => (PaymentsInv /\ BookedInv)'
      BY PaymentsStep, BookedStep
<1> QED
    BY <1>1, <1>2, <1>3, PTL DEF Spec
-----------------------------------------------------------------------------
(* A payment that several addresses fund.                                  *)

(* "ext * gross[i]" fits an int64 for every funding address of every payment. *)
ProductsFit ==
  \A t \in Ids : \A p \in Payers(txs[t].ins) :
    SumFunction(txs[t].to) * Vin(txs[t], p) < Int64Half

LEMMA WithinInt64 ==
  ASSUME NEW x \in Nat, x < Int64Half
  PROVE  Int64(x) = x
<1> DEFINE h == Int64Half
<1>1. h \in Nat \ {0}
      BY Int64Assumption
<1> HIDE DEF h
<1>2. (x + h) % (2 * h) = x + h
  <2>1. 0 <= x + h /\ x + h < 2 * h
        BY <1>1 DEF h
  <2> DEFINE m == 2 * h
             y == x + h
  <2>2. m \in Nat \ {0} /\ y \in Nat /\ y < m
        BY <1>1, <2>1
  <2> HIDE DEF m, y
  <2>3. y % m = y
        BY <2>2
  <2> QED
      BY <2>3 DEF m, y
<1> QED
    BY <1>1, <1>2 DEF Int64, h

(* What is left for the last of n, when each of the others is charged with *)
(* a part of E in proportion to what it gives: the roundings of all of     *)
(* them (R) are made up for by the last one's part of the fee.             *)
LEMMA RestFits ==
  ASSUME NEW E \in Nat, NEW fee \in Nat, NEW G \in Nat \ {0}, G = E + fee,
         NEW A \in Nat, NEW last \in Nat, A + last = G,
         NEW F \in Nat, NEW R \in Nat, E * A = G * F + R,
         NEW n \in Nat, n >= 2, R <= (G - 1) * (n - 1),
         fee * last >= (n - 2) * G
  PROVE  E - F >= 0 /\ E - F <= last
<1> DEFINE ea == E * A
           el == E * last
           eg == E * G
           gf == G * F
           lf == fee * last
           lg == last * G
           ng == (n - 1) * G
<1>1. /\ ea \in Nat /\ el \in Nat /\ eg \in Nat /\ gf \in Nat /\ lf \in Nat /\ lg \in Nat
      /\ ng \in Nat
      OBVIOUS
<1>2. eg = ea + el
      OBVIOUS
<1>3. ea = gf + R
      OBVIOUS
<1>4. lg = el + lf
      OBVIOUS
<1>5. lf + G >= ng
  <2>1. (n - 2) * G + G = ng
        OBVIOUS
  <2> DEFINE m == (n - 2) * G
  <2>2. m \in Int /\ lf >= m
        OBVIOUS
  <2> HIDE DEF m, lf, ng
  <2> QED
      BY <1>1, <2>1, <2>2 DEF m
<1>6. R < ng
  <2>1. (G - 1) * (n - 1) = ng - (n - 1)
        OBVIOUS
  <2> DEFINE m == (G - 1) * (n - 1)
  <2>2. m \in Int /\ R <= m
        OBVIOUS
  <2> HIDE DEF m, ng
  <2> QED
      BY <1>1, <2>1, <2>2 DEF m
<1>7. E - F >= 0
  <2> SUFFICES ASSUME F >= E + 1 PROVE FALSE
      OBVIOUS
  <2>1. F * G >= (E + 1) * G
        BY ProductMonotone
  <2>2. F * G = gf /\ (E + 1) * G = eg + G
        OBVIOUS
  <2> HIDE DEF ea, el, eg, gf
  <2> QED
      BY <1>1, <1>2, <1>3, <2>1, <2>2
<1>8. E - F <= last
  <2> SUFFICES ASSUME E - F >= last + 1 PROVE FALSE
      OBVIOUS
  <2>1. (E - F) * G >= (last + 1) * G
        BY <1>7, ProductMonotone
  <2>2. (E - F) * G = eg - gf /\ (last + 1) * G = lg + G
        OBVIOUS
  <2> HIDE DEF ea, el, eg, gf, lf, lg, ng
  <2> QED
      BY <1>1, <1>2, <1>3, <1>4, <1>5, <1>6, <2>1, <2>2
<1> QED
    BY <1>7, <1>8

(* A part in proportion is not more than what it is a part of.             *)
LEMMA PartOfGiven ==
  ASSUME NEW E \in Nat, NEW G \in Nat \ {0}, E <= G, NEW g \in Nat,
         NEW part, part = (E * g) \div G
  PROVE  part \in Nat /\ part <= g /\ E * g - G * part \in 0..(G - 1)
<1> DEFINE x == E * g
           y == G * part
<1>1. x \in Nat
      OBVIOUS
<1>2. part \in Nat /\ y <= x /\ x < y + G
  <2> HIDE DEF x
  <2> QED
      BY <1>1, DivFacts DEF x
<1>3. y \in Nat
      BY <1>2
<1>4. part <= g
  <2> SUFFICES ASSUME part >= g + 1 PROVE FALSE
      BY <1>2
  <2>1. part * G >= (g + 1) * G
        BY <1>2, ProductMonotone
  <2>2. G * g >= E * g
        BY ProductMonotone
  <2>3. (g + 1) * G = G * g + G /\ part * G = y
        BY <1>2
  <2> DEFINE b == G * g
  <2>4. b \in Nat
        OBVIOUS
  <2> HIDE DEF b, x, y
  <2> QED
      BY <1>1, <1>2, <1>3, <2>1, <2>2, <2>3, <2>4 DEF b, x
<1>5. x - y \in 0..(G - 1)
  <2> HIDE DEF x, y
  <2> QED
      BY <1>1, <1>2, <1>3
<1> QED
    BY <1>2, <1>4, <1>5

(* The shares of many: none is negative, none exceeds what is given.       *)
LEMMA ProportionOfMany ==
  ASSUME NEW n \in Nat, n >= 2, NEW gross, DOMAIN gross = 1..n, Len(gross) = n,
         \A i \in 1..n : gross[i] \in Nat,
         NEW E \in Nat \ {0}, NEW fee \in Nat, SumFunction(gross) = E + fee,
         \A i \in 1..n : E * gross[i] < Int64Half,
         fee * gross[n] >= (n - 2) * (E + fee)
  PROVE  /\ DOMAIN ProportionalShares(gross, E) = 1..n
         /\ \A i \in 1..n : 0 <= ProportionalShares(gross, E)[i]
                            /\ ProportionalShares(gross, E)[i] <= gross[i]
<1> DEFINE G == SumFunction(gross)
           S == 1..(n - 1)
           part == [i \in S |-> TruncatedDiv(Int64(E * gross[i]), G)]
           rest == E - SumFunction(part)
           last == gross[n]
<1>1. G \in Nat \ {0} /\ G = E + fee /\ E <= G /\ last \in Nat /\ n \in 1..n
      OBVIOUS
<1>2. IsFiniteSet(S) /\ Cardinality(S) = n - 1 /\ n \notin S /\ S \cup {n} = 1..n /\ S \subseteq 1..n
  <2>1. IsFiniteSet(S) /\ Cardinality(S) = n - 1
        BY 1 \in Int, n - 1 \in Int, FS_Interval
  <2> QED
      BY <2>1
<1> HIDE DEF G
<1>3. ASSUME NEW i \in S
      PROVE  /\ part[i] \in Nat /\ part[i] <= gross[i]
             /\ E * gross[i] - G * part[i] \in 0..(G - 1)
  <2> DEFINE x == E * gross[i]
  <2>1. gross[i] \in Nat /\ x \in Nat /\ x < Int64Half
        BY <1>2
  <2>2. part[i] = TruncatedDiv(Int64(x), G)
        OBVIOUS
  <2>3. part[i] = x \div G
    <3> HIDE DEF x, part
    <3>1. Int64(x) = x
          BY <2>1, WithinInt64
    <3> QED
        BY <2>1, <2>2, <3>1 DEF TruncatedDiv
  <2> HIDE DEF part
  <2> QED
      BY <1>1, <2>1, <2>3, PartOfGiven
<1>4. Len(part) = n - 1 /\ DOMAIN part = S /\ part \in Seq(Nat)
  <2>1. part \in [1..(n - 1) -> Nat] /\ n - 1 \in Nat
        BY <1>3
  <2> QED
      BY <2>1
<1>5. SumFunction(part) = SumFunctionOnSet(part, S)
      BY <1>4, SumFunctionIs
<1>6. ProportionalShares(gross, E) = Append(part, rest)
      BY DEF ProportionalShares, G
<1> HIDE DEF part
<1> DEFINE A == SumFunctionOnSet(gross, S)
           F == SumFunctionOnSet(part, S)
           eg == [i \in S |-> E * gross[i]]
           gp == [i \in S |-> G * part[i]]
           left == [i \in S |-> eg[i] - gp[i]]
           R == SumFunctionOnSet(left, S)
           most == [i \in S |-> G - 1]
<1>7. ASSUME NEW i \in S
      PROVE  /\ gross[i] \in Nat /\ part[i] \in Nat /\ eg[i] \in Nat /\ gp[i] \in Nat
             /\ left[i] \in 0..(G - 1)
  <2>1. gross[i] \in Nat /\ part[i] \in Nat /\ left[i] \in 0..(G - 1)
        BY <1>2, <1>3
  <2>2. eg[i] \in Nat /\ gp[i] \in Nat
    <3>1. gross[i] \in Nat /\ part[i] \in Nat /\ G \in Nat /\ E \in Nat
          BY <1>1, <2>1
    <3> QED
        BY ONLY <3>1, i \in S
  <2> QED
      BY <2>1, <2>2
<1>8. A \in Nat /\ F \in Nat /\ R \in Nat
  <2>1. \A i \in S : gross[i] \in Nat /\ part[i] \in Nat /\ left[i] \in Nat
        BY <1>1, <1>7
  <2> HIDE DEF S, left
  <2> QED
      BY <1>2, <2>1, SumNat
<1>9. A + last = G
  <2>1. G = SumFunctionOnSet(gross, S \cup {n})
        BY <1>2, SumFunctionIs DEF G
  <2>2. \A i \in S \cup {n} : gross[i] \in Int
        BY <1>2
  <2>3. SumFunctionOnSet(gross, S \cup {n}) = gross[n] + SumFunctionOnSet(gross, S)
    <3> HIDE DEF S
    <3> QED
        BY <1>2, <2>2, SumAdd
  <2>4. G = last + A
        BY <2>1, <2>3
  <2> HIDE DEF A, last
  <2> QED
      BY <1>1, <1>8, <2>4
<1>10. SumFunctionOnSet(eg, S) = E * A
  <2>1. \A i \in S : gross[i] \in Int /\ eg[i] = E * gross[i]
        BY <1>7
  <2> HIDE DEF S, eg
  <2>2. IsFiniteSet(S) /\ E \in Int
        BY <1>2
  <2> QED
      BY ONLY <2>1, <2>2, SumScaled
<1>11. SumFunctionOnSet(gp, S) = G * F
  <2>1. \A i \in S : part[i] \in Int /\ gp[i] = G * part[i]
        BY <1>7
  <2>2. G \in Int
        BY <1>1
  <2> HIDE DEF S, gp
  <2>3. IsFiniteSet(S)
        BY <1>2
  <2> QED
      BY ONLY <2>1, <2>2, <2>3, SumScaled
<1>12. SumFunctionOnSet(eg, S) = SumFunctionOnSet(gp, S) + R
  <2>1. ASSUME NEW i \in S PROVE gp[i] \in Int /\ left[i] \in Int /\ eg[i] = gp[i] + left[i]
    <3>1. eg[i] \in Nat /\ gp[i] \in Nat /\ left[i] = eg[i] - gp[i]
          BY <1>7
    <3> HIDE DEF eg, gp
    <3> QED
        BY <3>1
  <2> HIDE DEF S, eg, gp, left
  <2>2. IsFiniteSet(S)
        BY <1>2
  <2> QED
      BY ONLY <2>1, <2>2, SumPlus
<1>13. R <= (G - 1) * (n - 1)
  <2>1. SumFunctionOnSet(most, S) = (G - 1) * (n - 1)
    <3>1. \A i \in S : most[i] = G - 1
          OBVIOUS
    <3>2. G - 1 \in Int
          BY <1>1
    <3> HIDE DEF S, most
    <3> QED
        BY <1>2, <3>1, <3>2, SumConstant
  <2>2. ASSUME NEW i \in S PROVE left[i] \in Int /\ most[i] \in Int /\ left[i] <= most[i]
    <3>1. left[i] \in 0..(G - 1) /\ most[i] = G - 1
          BY <1>7
    <3> HIDE DEF left, most
    <3> QED
        BY <1>1, <3>1
  <2>3. SumFunctionOnSet(left, S) <= SumFunctionOnSet(most, S)
    <3> HIDE DEF S, left, most
    <3> QED
        BY <1>2, <2>2, SumMonotone
  <2> QED
      BY <2>1, <2>3
<1> HIDE DEF A, F, R, last, eg, gp, left, most
<1>14. E - F >= 0 /\ E - F <= last
  <2>1. E * A = G * F + R
        BY <1>10, <1>11, <1>12
  <2>2. fee * last >= (n - 2) * G
        BY <1>1 DEF last
  <2>3. E \in Nat
        OBVIOUS
  <2> QED
      BY ONLY <1>1, <1>8, <1>9, <1>13, <2>1, <2>2, <2>3, E \in Nat, fee \in Nat, n \in Nat,
         n >= 2, RestFits
<1>15. 0 <= rest /\ rest <= gross[n]
  <2>1. rest = E - F
        BY <1>5 DEF F
  <2> HIDE DEF rest
  <2> QED
      BY <1>8, <1>14, <2>1 DEF last
<1> HIDE DEF rest
<1>16. /\ DOMAIN Append(part, rest) = 1..n /\ Append(part, rest)[n] = rest
       /\ \A i \in S : Append(part, rest)[i] = part[i]
  <2>1. DOMAIN Append(part, rest) = 1..n
        BY <1>4
  <2> QED
      BY <1>4, <2>1
<1>17. ASSUME NEW i \in 1..n
       PROVE  0 <= Append(part, rest)[i] /\ Append(part, rest)[i] <= gross[i]
  <2>1. CASE i \in S
    <3>1. part[i] \in Nat /\ part[i] <= gross[i]
          BY <1>3, <2>1
    <3>2. Append(part, rest)[i] = part[i]
          BY <1>16, <2>1
    <3> QED
        BY ONLY <3>1, <3>2
  <2>2. CASE i = n
        BY <1>15, <1>16, <2>2
  <2> QED
      BY <1>2, <2>1, <2>2
<1> QED
    BY <1>6, <1>16, <1>17

(* Several addresses that fund a payment of E and its fee, all that is left *)
(* goes back to them: room for the first, and for the last of them.        *)
ManyFund(ins, to, outs, E, fee) ==
  LET P == Payers(ins)
      order == PayerOrder(ins)
      given(p) == VinOf(ins, p) - At(outs, p)
  IN /\ IsCoins(ins) /\ IsAmounts(outs) /\ Len(order) >= 2
     /\ E \in Nat \ {0} /\ E = SumFunction(to) /\ fee \in Nat
     /\ Total(ins) - SumFunction(outs) = fee
     /\ SumFunctionOnSet(outs, DOMAIN outs \ P) = E
     /\ \A p \in P : VinOf(ins, p) > 0 /\ given(p) >= 0 /\ E * VinOf(ins, p) < Int64Half
     /\ VinOf(ins, order[1]) >= E => given(order[1]) >= E
     /\ fee * given(order[Len(order)]) >= (Len(order) - 2) * (E + fee)

LEMMA SharesOfMany ==
  ASSUME NEW ins, NEW to, NEW outs, NEW E, NEW fee, ManyFund(ins, to, outs, E, fee),
         NEW P, P = Payers(ins), NEW s, s = PayerSendOut(ins, to, outs)
  PROVE  DOMAIN s = P /\ \A p \in P : s[p] <= VinOf(ins, p) - At(outs, p)
<1> DEFINE order == PayerOrder(ins)
           n == Len(order)
           vins == [i \in DOMAIN order |-> VinOf(ins, order[i])]
           gross == [i \in DOMAIN order |-> vins[i] - At(outs, order[i])]
           greedy == CoverExternalInOrder(vins, E)
           parts == ProportionalShares(gross, E)
<1>1. /\ IsCoins(ins) /\ IsAmounts(outs) /\ n >= 2 /\ E \in Nat \ {0} /\ E = SumFunction(to)
      /\ fee \in Nat /\ Total(ins) - SumFunction(outs) = fee
      /\ SumFunctionOnSet(outs, DOMAIN outs \ P) = E
      /\ \A p \in P : /\ VinOf(ins, p) > 0 /\ VinOf(ins, p) - At(outs, p) >= 0
                      /\ E * VinOf(ins, p) < Int64Half
      /\ VinOf(ins, order[1]) >= E => VinOf(ins, order[1]) - At(outs, order[1]) >= E
      /\ fee * (VinOf(ins, order[n]) - At(outs, order[n])) >= (n - 2) * (E + fee)
      BY DEF ManyFund
<1>2. Listed(order, P)
      BY <1>1, PayerOrderListed DEF IsCoins
<1>3. s = AssignPayable(order, vins, gross, E)
      BY <1>1 DEF PayerSendOut
<1> HIDE DEF order
<1>4. /\ n \in Nat /\ DOMAIN order = 1..n /\ 1 \in 1..n /\ n \in 1..n
      /\ P = {order[i] : i \in 1..n}
      /\ \A i, j \in 1..n : order[i] = order[j] => i = j
  <2>1. n \in Nat /\ DOMAIN order = 1..n /\ ToSet(order) = P
        BY <1>2 DEF Listed
  <2>2. P = {order[i] : i \in 1..n}
        BY <2>1 DEF ToSet
  <2>3. n >= 2
        BY <1>1
  <2>4. \A i, j \in 1..n : order[i] = order[j] => i = j
        BY <1>2, <2>1 DEF Listed
  <2> HIDE DEF n
  <2> QED
      BY <2>1, <2>2, <2>3, <2>4
<1>5. ASSUME NEW i \in 1..n
      PROVE  /\ vins[i] = VinOf(ins, order[i]) /\ vins[i] \in Nat
             /\ gross[i] = vins[i] - At(outs, order[i]) /\ gross[i] \in Nat
             /\ gross[i] <= vins[i] /\ order[i] \in P /\ vins[i] > 0
  <2>1. order[i] \in P /\ vins[i] = VinOf(ins, order[i])
        /\ gross[i] = vins[i] - At(outs, order[i])
        BY <1>4
  <2>2. VinOf(ins, order[i]) \in Nat
        BY <1>1, VinType
  <2>3. At(outs, order[i]) \in Nat
        BY <1>1 DEF At, IsAmounts
  <2>4. VinOf(ins, order[i]) - At(outs, order[i]) >= 0 /\ VinOf(ins, order[i]) > 0
        BY <1>1, <2>1
  <2> QED
      BY <2>1, <2>2, <2>3, <2>4
<1>6. /\ vins \in [1..n -> Nat] /\ DOMAIN gross = 1..n /\ Len(gross) = n
      /\ \A i \in 1..n : gross[i] \in Nat
      BY <1>4, <1>5
<1> HIDE DEF n, vins, gross
<1>7. ASSUME NEW shares, \A i \in 1..n : shares[i] \in Int /\ shares[i] <= gross[i],
             s = ByPayer(order, shares)
      PROVE  DOMAIN s = P /\ \A p \in P : s[p] <= VinOf(ins, p) - At(outs, p)
  <2>1. DOMAIN s = P /\ \A i \in 1..n : s[order[i]] = shares[i]
        BY <1>2, <1>4, <1>7, ByPayerSum
  <2>2. ASSUME NEW p \in P PROVE s[p] <= VinOf(ins, p) - At(outs, p)
    <3>1. PICK i \in 1..n : order[i] = p
          BY <1>4
    <3>2. s[p] = shares[i] /\ shares[i] <= gross[i] /\ gross[i] = VinOf(ins, p) - At(outs, p)
          BY <1>5, <1>7, <2>1, <3>1
    <3> QED
        BY <3>2
  <2> QED
      BY <2>1, <2>2
<1>8. CASE E <= SumFunction(vins) /\ OneFunds(greedy)
  <2>1. s = ByPayer(order, greedy)
        BY <1>3, <1>8 DEF AssignPayable
  <2>2. greedy \in [1..n -> Nat]
        BY <1>1, <1>4, <1>6, GreedyType
  <2>3. SumFunctionOnSet(greedy, 1..n) = E
    <3>1. E <= SumFunctionOnSet(vins, 1..n)
          BY <1>6, <1>8, SumFunctionIs
    <3>2. E \in Nat
          BY <1>1
    <3> QED
        BY <1>4, <1>6, <3>1, <3>2, GreedyAddsUp
  <2>4. greedy[1] <= vins[1] /\ greedy[1] > 0
    <3> DEFINE v == vins[1]
               most == Max({0, E - SumFunctionOnSet(vins, 1..(1 - 1))})
    <3>1. greedy[1] = Min({v, most})
          BY <1>4, <1>6 DEF CoverExternalInOrder
    <3>2. SumFunctionOnSet(vins, 1..(1 - 1)) = 0
      <4>1. 1..(1 - 1) = {}
            OBVIOUS
      <4> QED
          BY <4>1, SumEmpty
    <3>3. most = E
      <4>1. E \in Int /\ E - 0 = E
            BY <1>1
      <4>2. (Max({0, E}) = 0 \/ Max({0, E}) = E) /\ Max({0, E}) >= E
            BY <4>1, 0 \in Int, MaxOfTwo
      <4>3. Max({0, E}) = E
            BY <1>1, <4>2
      <4> QED
          BY <3>2, <4>1, <4>3
    <3>4. v \in Nat /\ v > 0
          BY <1>4, <1>5
    <3> HIDE DEF v, most
    <3>5. Min({v, E}) <= v /\ (Min({v, E}) = v \/ Min({v, E}) = E)
          BY <1>1, <3>4, v \in Int, E \in Int, MinOfTwo
    <3>6. greedy[1] = Min({v, E})
          BY <3>1, <3>3
    <3> HIDE DEF greedy
    <3>7. greedy[1] <= v /\ greedy[1] > 0
          BY <1>1, <3>4, <3>5, <3>6
    <3> QED
        BY <3>7 DEF v
  <2>5. \A i, j \in 1..n : greedy[i] > 0 /\ greedy[j] > 0 => i = j
        BY <1>8, <2>2 DEF OneFunds
  <2> HIDE DEF greedy
  <2>6. ASSUME NEW i \in 1..n, i # 1 PROVE greedy[i] = 0
    <3>1. greedy[i] \in Nat /\ ~(greedy[i] > 0)
          BY <1>4, <2>2, <2>4, <2>5, <2>6
    <3> QED
        BY <3>1
  <2>7. greedy[1] = E
    <3> DEFINE S == 1..n
    <3>1. /\ IsFiniteSet(S) /\ 1 \in S /\ greedy[1] \in Int
          /\ \A i \in S \ {1} : greedy[i] = 0
          BY <1>4, <2>2, <2>6, 1 \in Int, n \in Int, FS_Interval
    <3> HIDE DEF S
    <3>2. SumFunctionOnSet(greedy, S) = greedy[1]
          BY <3>1, SumSpike
    <3> QED
        BY <2>3, <3>2 DEF S
  <2>8. gross[1] >= E
    <3>1. vins[1] >= E /\ vins[1] = VinOf(ins, order[1])
          /\ gross[1] = VinOf(ins, order[1]) - At(outs, order[1])
          BY <1>4, <1>5, <2>4, <2>7
    <3> QED
        BY <1>1, <3>1
  <2>9. ASSUME NEW i \in 1..n PROVE greedy[i] \in Int /\ greedy[i] <= gross[i]
    <3>1. greedy[i] \in Nat /\ gross[i] \in Nat
          BY <1>5, <2>2
    <3>2. CASE i = 1
          BY <2>7, <2>8, <3>1, <3>2
    <3>3. CASE i # 1
          BY <2>6, <3>1, <3>3
    <3> QED
        BY <3>1, <3>2, <3>3
  <2> QED
      BY <1>7, <2>1, <2>9
<1>9. CASE ~(E <= SumFunction(vins) /\ OneFunds(greedy))
  <2>1. s = PayableFromGross(order, gross, E)
        BY <1>3, <1>9 DEF AssignPayable
  <2>2. SumFunction(gross) = E + fee
    <3> DEFINE net == [p \in P |-> VinOf(ins, p) - At(outs, p)]
    <3>1. \A p \in P : net[p] = VinOf(ins, p) - At(outs, p)
          OBVIOUS
    <3>2. \A i \in 1..n : net[order[i]] = gross[i]
          BY <1>5
    <3> HIDE DEF net
    <3>3. SumFunctionOnSet(net, P) = E + fee
      <4>1. E \in Nat
            BY <1>1
      <4> QED
          BY <1>1, <3>1, <4>1, NetAddsUp
    <3> DEFINE S == 1..n
    <3>4. SumFunctionOnSet(net, {order[i] : i \in S}) = SumFunctionOnSet(gross, S)
      <4>1. IsFiniteSet(S)
            BY <1>4, 1 \in Int, n \in Int, FS_Interval
      <4>2. \A i \in S : gross[i] \in Int /\ net[order[i]] = gross[i]
            BY <1>5, <3>2
      <4>3. \A i, j \in S : order[i] = order[j] => i = j
            BY <1>4
      <4> HIDE DEF S
      <4> QED
          BY ONLY <4>1, <4>2, <4>3, SumImage
    <3> QED
        BY <1>4, <1>6, <3>3, <3>4, SumFunctionIs
  <2>3. ASSUME NEW i \in 1..n PROVE E * gross[i] < Int64Half
    <3> DEFINE v == vins[i]
               g == gross[i]
    <3>1. v \in Nat /\ g \in Nat /\ v >= g /\ E * v < Int64Half /\ E \in Nat
          BY <1>1, <1>5
    <3> HIDE DEF v, g
    <3>2. v * E >= g * E
          BY <3>1, ProductMonotone
    <3>3. v * E = E * v /\ g * E = E * g /\ E * v \in Nat /\ E * g \in Nat
          BY <3>1
    <3> DEFINE a == E * v
               b == E * g
    <3>4. a >= b /\ a \in Nat /\ b \in Nat /\ a < Int64Half /\ Int64Half \in Nat
          BY <3>1, <3>2, <3>3, Int64Assumption
    <3> HIDE DEF a, b
    <3>5. b < Int64Half
          BY <3>4
    <3> QED
        BY <3>5 DEF b, g
  <2>4. fee * gross[n] >= (n - 2) * (E + fee)
    <3>1. gross[n] = VinOf(ins, order[n]) - At(outs, order[n])
          BY <1>4, <1>5
    <3> QED
        BY <1>1, <3>1 DEF n
  <2>5. DOMAIN parts = 1..n /\ \A i \in 1..n : 0 <= parts[i] /\ parts[i] <= gross[i]
        BY <1>1, <1>4, <1>6, <2>2, <2>3, <2>4, ProportionOfMany DEF n
  <2>6. \A i \in 1..n : parts[i] \in Int
    <3>1. n \in Nat \ {0} /\ E <= SumFunction(gross)
          BY <1>1, <1>4, <2>2
    <3> QED
        BY <1>1, <1>6, <3>1, ProportionalType
  <2>7. E <= SumFunction(gross) /\ \A i \in DOMAIN gross : gross[i] >= 0
        BY <1>1, <1>6, <2>2
  <2> HIDE DEF parts
  <2>8. s = ByPayer(order, parts)
        BY <1>6, <2>1, <2>5, <2>7 DEF PayableFromGross, parts
  <2> QED
      BY <1>7, <2>5, <2>6, <2>8
<1> QED
    BY <1>8, <1>9

(* What several addresses fund with room for all shares has shares that fit. *)
LEMMA RoomFits ==
  ASSUME TxsInv, ProductsFit, NEW t \in Ids, Fresh(t), PaysOthers(t),
         Cardinality(Payers(txs[t].ins)) >= 2, LeavesRoom(t)
  PROVE  ReturnsToPayers(t) /\ SharesFit(t)
<1> DEFINE tx == txs[t]
           ins == tx.ins
           outs == tx.outs
           P == Payers(ins)
           order == PayerOrder(ins)
           E == SumFunction(tx.to)
           fee == tx.fee
<1>1. /\ IsOwn(tx, t) /\ IsCoins(ins) /\ IsFresh(tx) /\ IsPositive(tx.to)
      BY OwnFacts DEF Fresh, IsOwn, Balanced
<1>2. P \cap DOMAIN tx.to = {} /\ ins # <<>>
      BY DEF PaysOthers
<1>3. ReturnsToPayers(t)
  <2> SUFFICES ASSUME NEW a \in DOMAIN outs \ P PROVE Vout(tx, a) = At(tx.to, a)
      BY DEF ReturnsToPayers
  <2>1. a # ChangePayer(ins)
    <3>1. Len(ins) \in DOMAIN ins /\ ChangePayer(ins) = ins[Len(ins)].addr
          BY <1>1, <1>2 DEF IsCoins, ChangePayer, Last
    <3> QED
        BY <3>1 DEF Payers
  <2> QED
      BY <1>1, <2>1 DEF IsFresh, ReturnsToLast, Vout
<1>4. /\ IsAmounts(outs) /\ IsFiniteSet(P) /\ E \in Nat
      /\ tx.sendOut = PayerSendOut(ins, tx.to, outs)
      /\ fee \in Nat /\ Total(ins) - SumFunction(outs) = fee
      /\ SumFunctionOnSet(outs, DOMAIN outs \ P) = E
      /\ \A p \in P : Vin(tx, p) \in Nat /\ Vin(tx, p) > 0 /\ Vout(tx, p) \in Nat
      BY <1>3, PaysOthersFacts
<1>5. E \in Nat \ {0}
      BY <1>1, PositiveAmounts DEF IsFresh
<1>6. Len(order) >= 2 /\ Head(order) = order[1] /\ Last(order) = order[Len(order)]
  <2>1. Listed(order, P)
        BY <1>1, PayerOrderListed DEF IsCoins
  <2> HIDE DEF order
  <2>2. Len(order) \in Nat /\ P = {order[i] : i \in 1..Len(order)}
        BY <2>1 DEF Listed, ToSet
  <2>3. Cardinality(P) >= 2
        OBVIOUS
  <2> HIDE DEF P
  <2>4. Len(order) # 0
    <3> SUFFICES ASSUME Len(order) = 0 PROVE FALSE
        OBVIOUS
    <3>1. P = {}
          BY <2>2
    <3> QED
        BY <2>3, <3>1, FS_EmptySet
  <2>5. Len(order) # 1
    <3> SUFFICES ASSUME Len(order) = 1 PROVE FALSE
        OBVIOUS
    <3> DEFINE p == order[1]
    <3>1. P = {p}
          BY <2>2
    <3> HIDE DEF p
    <3>2. Cardinality({p}) = 1
          BY FS_Singleton
    <3> QED
        BY <2>3, <3>1, <3>2
  <2>6. order \in Seq(P)
        BY <2>1 DEF Listed
  <2>7. Len(order) >= 2
    <3> DEFINE n == Len(order)
    <3>1. n \in Nat /\ n # 0 /\ n # 1
          BY <2>2, <2>4, <2>5
    <3> HIDE DEF n
    <3>2. n >= 2
          BY ONLY <3>1
    <3> QED
        BY <3>2 DEF n
  <2>8. Head(order) = order[1]
        BY <2>6, <2>7
  <2>9. Last(order) = order[Len(order)]
        BY DEF Last
  <2> QED
      BY <2>7, <2>8, <2>9
<1>7. ASSUME NEW p \in P
      PROVE  VinOf(ins, p) > 0 /\ VinOf(ins, p) - At(outs, p) >= 0 /\ E * VinOf(ins, p) < Int64Half
  <2>1. Vout(tx, p) < Vin(tx, p)
        BY <1>1, <1>2 DEF IsFresh, Fits, Vout, Vin
  <2> QED
      BY <1>4, <2>1 DEF Vin, Vout, ProductsFit
<1>8. ManyFund(ins, tx.to, outs, E, fee)
  <2>1. VinOf(ins, order[1]) >= E => VinOf(ins, order[1]) - At(outs, order[1]) >= E
        BY <1>6 DEF LeavesRoom, Given, Vin, Vout
  <2>2. fee * (VinOf(ins, order[Len(order)]) - At(outs, order[Len(order)]))
          >= (Len(order) - 2) * (E + fee)
        BY <1>6 DEF LeavesRoom, Given, Vin, Vout
  <2> QED
      BY <1>1, <1>4, <1>5, <1>6, <1>7, <2>1, <2>2 DEF ManyFund
<1>9. DOMAIN tx.sendOut = P /\ \A p \in P : tx.sendOut[p] <= VinOf(ins, p) - At(outs, p)
      BY <1>4, <1>8, SharesOfMany
<1> QED
    BY <1>3, <1>9 DEF SharesFit, Given, Vin, Vout

(* PayersWithRoomCanBeBooked: what any number of addresses fund with any   *)
(* coins, and pay to others, is booked by its own order when the first and *)
(* the last of them have room for what the greedy rule and the roundings   *)
(* charge them with, as long as the products that payableFromGross divides *)
(* do not overflow.                                                        *)
THEOREM ManyPayersBooked == Spec => [](ProductsFit => PayersWithRoomCanBeBooked)
<1>1. ASSUME PaymentsInv, ProductsFit PROVE PayersWithRoomCanBeBooked
      BY <1>1, RoomFits, FittingReconciles DEF PaymentsInv, PayersWithRoomCanBeBooked, CanBeBooked
<1> QED
    BY <1>1, PaymentsInvariant, PTL

(* TwoPayersCanBeBooked: what two addresses fund with a coin each leaves    *)
(* room. The change goes to the second of them, so that a greedy share is  *)
(* never more than the first gives, and there are no roundings but one.    *)
THEOREM TwoPayersBooked == Spec => [](ProductsFit => TwoPayersCanBeBooked)
<1>1. ASSUME PaymentsInv, PayersWithRoomCanBeBooked PROVE TwoPayersCanBeBooked
  <2> SUFFICES ASSUME NEW t \in Ids, Fresh(t), PaysOthers(t), Len(txs[t].ins) = 2,
                      Cardinality(Payers(txs[t].ins)) = 2
               PROVE  CanBeBooked(t)
      BY DEF TwoPayersCanBeBooked
  <2> DEFINE tx == txs[t]
             ins == tx.ins
             p == ins[1].addr
             q == ins[2].addr
             order == PayerOrder(ins)
             E == SumFunction(tx.to)
  <2>1. /\ IsOwn(tx, t) /\ IsFresh(tx) /\ IsCoins(ins) /\ IsAmounts(tx.outs) /\ tx.fee \in Nat
        /\ IsPositive(tx.to)
        BY <1>1, OwnFacts DEF PaymentsInv, Fresh, IsOwn, Balanced
  <2>2. DOMAIN ins = 1..2 /\ Cardinality(Payers(ins)) = 2
        /\ Payers(ins) \cap DOMAIN tx.to = {}
        BY <2>1 DEF IsCoins, PaysOthers
  <2> HIDE DEF tx
  <2>3. p # q
    <3> SUFFICES ASSUME p = q PROVE FALSE
        OBVIOUS
    <3>1. \A i \in DOMAIN ins : i = 1 \/ i = 2
          BY <2>2
    <3>2. Payers(ins) = {p}
          BY <2>2, <3>1 DEF Payers
    <3> HIDE DEF p
    <3>3. Cardinality({p}) = 1
          BY FS_Singleton
    <3> QED
        BY <2>2, <3>2, <3>3
  <2>4. Len(order) = 2 /\ order[1] = p /\ order[2] = q
        BY <2>2, <2>3, PayerOrderOfTwo
  <2>5. p \in Payers(ins) /\ q \in Payers(ins) /\ ChangePayer(ins) = q
        BY <2>1, <2>2 DEF Payers, ChangePayer, Last, IsCoins
  <2>6. Head(order) = p /\ Last(order) = q
    <3>1. order \in Seq(Payers(ins))
          BY <2>2, PayerOrderListed, 2 \in Nat DEF Listed
    <3> HIDE DEF order
    <3>2. Head(order) = order[1]
          BY <2>4, <3>1
    <3>3. Last(order) = order[2]
          BY <2>4 DEF Last
    <3> QED
        BY <2>4, <3>2, <3>3
  <2>7. Vout(tx, p) = 0
        BY <2>1, <2>2, <2>3, <2>5 DEF IsFresh, ReturnsToLast, Vout, At
  <2>8. Vin(tx, p) \in Nat /\ Vin(tx, q) \in Nat /\ Vout(tx, q) \in Nat /\ Vout(tx, q) < Vin(tx, q)
    <3>1. VinOf(ins, p) \in Nat /\ VinOf(ins, q) \in Nat
          BY <2>1, VinType
    <3>2. Vout(tx, q) \in Nat
          BY <2>1 DEF Vout, At, IsAmounts
    <3>3. Vout(tx, q) < Vin(tx, q)
          BY <2>1, <2>2, <2>5 DEF IsFresh, Fits, Vout, Vin
    <3> QED
        BY <3>1, <3>2, <3>3 DEF Vin
  <2>9. LeavesRoom(t)
    <3>1. Given(t, p) = Vin(tx, p) /\ Given(t, q) \in Nat
          BY <2>7, <2>8 DEF Given, tx
    <3>2. tx.fee * Given(t, q) \in Nat
          BY <2>1, <3>1
    <3>3. (Len(order) - 2) * (E + tx.fee) = 0
      <4>1. E + tx.fee \in Int
            BY <2>1, PositiveAmounts
      <4> QED
          BY <2>4, <4>1
    <3>4. tx.fee * Given(t, q) >= (Len(order) - 2) * (E + tx.fee)
          BY <3>2, <3>3
    <3> QED
        BY <2>6, <3>1, <3>4 DEF LeavesRoom, tx
  <2>10. Cardinality(Payers(txs[t].ins)) >= 2
         BY <2>2 DEF tx
  <2> QED
      BY <1>1, <2>9, <2>10 DEF PayersWithRoomCanBeBooked
<1> QED
    BY <1>1, PaymentsInvariant, ManyPayersBooked, PTL
=============================================================================
