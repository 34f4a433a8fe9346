--------------------------- MODULE TxBuildProofs ---------------------------
(***************************************************************************)
(* What the decoder's payments obey, for all coins, amounts and rates: the *)
(* coins taken are the fewest that pay for their own fee, and inputs,      *)
(* outputs and fee add up in every transaction that is built.              *)
(***************************************************************************)
EXTENDS TxBuild, SumProofs

(* A sequence of coins, and an amount for each of finitely many addresses. *)
IsCoins(coins) ==
  /\ Len(coins) \in Nat /\ DOMAIN coins = 1..Len(coins)
  /\ \A i \in DOMAIN coins : coins[i].amount \in Nat

IsAmounts(f) == IsFiniteSet(DOMAIN f) /\ \A a \in DOMAIN f : f[a] \in Nat

-----------------------------------------------------------------------------
(* Fees.                                                                   *)

LEMMA MaxOfTwo ==
  ASSUME NEW a \in Int, NEW b \in Int
  PROVE  /\ Max({a, b}) = a \/ Max({a, b}) = b
         /\ Max({a, b}) >= a /\ Max({a, b}) >= b
<1>1. \E x \in {a, b} : \A y \in {a, b} : x >= y
      OBVIOUS
<1>2. Max({a, b}) \in {a, b} /\ \A y \in {a, b} : Max({a, b}) >= y
      BY <1>1 DEF Max
<1> QED
    BY <1>2

LEMMA MinOfTwo ==
  ASSUME NEW a \in Int, NEW b \in Int
  PROVE  /\ Min({a, b}) = a \/ Min({a, b}) = b
         /\ Min({a, b}) <= a /\ Min({a, b}) <= b
<1>1. \E x \in {a, b} : \A y \in {a, b} : x <= y
      OBVIOUS
<1>2. Min({a, b}) \in {a, b} /\ \A y \in {a, b} : Min({a, b}) <= y
      BY <1>1 DEF Min
<1> QED
    BY <1>2

LEMMA LeastOfNat ==
  ASSUME NEW T, T \subseteq Nat, T # {}
  PROVE  Min(T) \in T /\ \A n \in T : Min(T) <= n
<1>1. \E m \in T : \A n \in T : m <= n
      BY LeastNatural
<1> QED
    BY <1>1 DEF Min

LEMMA VsizeType ==
  ASSUME NEW n \in Nat, NEW m \in Nat
  PROVE  EstimateTxVsize(n, m) \in Nat /\ EstimateTxVsize(n, m) >= 11
BY DEF EstimateTxVsize

LEMMA VsizeMonotone ==
  ASSUME NEW n \in Nat, NEW m \in Nat, NEW k \in Nat, NEW j \in Nat, n <= k, m <= j
  PROVE  EstimateTxVsize(n, m) <= EstimateTxVsize(k, j)
BY DEF EstimateTxVsize

(* Satoshis for a size at a rate.                                          *)
LEMMA RoundedType ==
  ASSUME NEW v \in Nat, NEW rate \in Nat
  PROVE  (v * rate + 500) \div 1000 \in Nat
<1> DEFINE p == v * rate
<1>1. p \in Nat
      OBVIOUS
<1> HIDE DEF p
<1>2. (p + 500) \div 1000 \in Nat
      BY <1>1
<1> QED
    BY <1>2 DEF p

LEMMA RoundedMonotone ==
  ASSUME NEW v \in Nat, NEW w \in Nat, NEW rate \in Nat, v <= w
  PROVE  (v * rate + 500) \div 1000 <= (w * rate + 500) \div 1000
<1> DEFINE p == v * rate
           q == w * rate
           d == w - v
<1>1. p \in Nat /\ q \in Nat /\ d \in Nat /\ d * rate \in Nat
      OBVIOUS
<1>2. w = v + d
      OBVIOUS
<1>3. (v + d) * rate = v * rate + d * rate
      BY <1>1
<1>4. p <= q
  <2> HIDE DEF d
  <2> QED
      BY <1>1, <1>2, <1>3
<1> HIDE DEF p, q
<1>5. (p + 500) \div 1000 <= (q + 500) \div 1000
      BY <1>1, <1>4
<1> QED
    BY <1>5 DEF p, q

LEMMA FeeType ==
  ASSUME NEW n \in Nat, NEW m \in Nat, NEW rate \in Nat
  PROVE  EstimateFee(n, m, rate) \in Nat
<1> DEFINE v == EstimateTxVsize(n, m)
           r == (v * rate + 500) \div 1000
<1>1. r \in Nat /\ MinFees \in Nat
  <2>1. v \in Nat
        BY VsizeType
  <2> HIDE DEF v
  <2> QED
      BY <2>1, RoundedType, FeesAssumption
<1> HIDE DEF r
<1>2. Max({MinFees, r}) = MinFees \/ Max({MinFees, r}) = r
      BY <1>1, MaxOfTwo
<1>3. Max({MinFees, r}) \in Nat
      BY <1>1, <1>2
<1> QED
    BY <1>3 DEF EstimateFee, r

(* More inputs or outputs never cost less.                                 *)
LEMMA FeeMonotone ==
  ASSUME NEW n \in Nat, NEW k \in Nat, NEW m \in Nat, NEW j \in Nat, NEW rate \in Nat,
         n <= k, m <= j
  PROVE  EstimateFee(n, m, rate) <= EstimateFee(k, j, rate)
<1> DEFINE v == EstimateTxVsize(n, m)
           w == EstimateTxVsize(k, j)
           r == (v * rate + 500) \div 1000
           s == (w * rate + 500) \div 1000
<1>1. r \in Nat /\ s \in Nat /\ MinFees \in Nat /\ r <= s
  <2>1. v \in Nat /\ w \in Nat /\ v <= w
        BY VsizeType, VsizeMonotone
  <2> HIDE DEF v, w
  <2> QED
      BY <2>1, RoundedType, RoundedMonotone, FeesAssumption
<1>2. Max({MinFees, r}) <= Max({MinFees, s})
  <2> HIDE DEF r, s
  <2> QED
      BY <1>1, MaxOfTwo
<1> QED
    BY <1>2 DEF EstimateFee

-----------------------------------------------------------------------------
(* selectUTXOsForPayment: the loop that takes coins, sees what they cost   *)
(* and takes more.                                                         *)

LEMMA FundsFacts ==
  ASSUME NEW coins, IsCoins(coins)
  PROVE  /\ \A k \in 0..Len(coins) : Funds(coins, k) \in Nat
         /\ \A j, k \in 0..Len(coins) : j <= k => Funds(coins, j) <= Funds(coins, k)
         /\ \A k \in 1..Len(coins) : Funds(coins, k) = Funds(coins, k - 1) + coins[k].amount
         /\ Total(coins) = Funds(coins, Len(coins))
<1> DEFINE f == Amounts(coins)
<1>1. /\ Len(coins) \in Nat /\ DOMAIN f = 1..Len(coins)
      /\ \A i \in 1..Len(coins) : f[i] = coins[i].amount /\ f[i] \in Nat
      BY DEF IsCoins, Amounts
<1> HIDE DEF f
<1>2. \A k \in 0..Len(coins) : IsFiniteSet(1..k) /\ 1..k \subseteq 1..Len(coins)
      BY <1>1, FS_Interval
<1>3. ASSUME NEW k \in 0..Len(coins) PROVE SumFunctionOnSet(f, 1..k) \in Nat
  <2>1. \A i \in 1..k : f[i] \in Nat
        BY <1>1, <1>2
  <2> DEFINE K == 1..k
  <2>2. IsFiniteSet(K) /\ \A i \in K : f[i] \in Nat
        BY <1>2, <2>1
  <2> HIDE DEF K
  <2>3. SumFunctionOnSet(f, K) \in Nat
        BY <2>2, SumNat
  <2> QED
      BY <2>3 DEF K
<1>4. ASSUME NEW j \in 0..Len(coins), NEW k \in 0..Len(coins), j <= k
      PROVE  SumFunctionOnSet(f, 1..j) <= SumFunctionOnSet(f, 1..k)
  <2> DEFINE J == 1..j
             K == 1..k
  <2>1. IsFiniteSet(K) /\ J \subseteq K /\ \A i \in K : f[i] \in Nat
        BY <1>1, <1>2, <1>4
  <2> HIDE DEF J, K
  <2>2. SumFunctionOnSet(f, J) <= SumFunctionOnSet(f, K)
        BY <2>1, SumPart
  <2> QED
      BY <2>2 DEF J, K
<1>5. ASSUME NEW k \in 1..Len(coins)
      PROVE  SumFunctionOnSet(f, 1..k) = SumFunctionOnSet(f, 1..(k - 1)) + coins[k].amount
  <2> DEFINE J == 1..(k - 1)
  <2>1. k - 1 \in 0..Len(coins) /\ 1..k = J \cup {k} /\ k \notin J /\ f[k] = coins[k].amount
        BY <1>1
  <2>2. IsFiniteSet(J) /\ \A i \in J \cup {k} : f[i] \in Int
        BY <1>1, <1>2, <2>1
  <2>3. SumFunctionOnSet(f, J) \in Nat /\ f[k] \in Nat
        BY <1>1, <1>3, <2>1
  <2> HIDE DEF J
  <2>4. SumFunctionOnSet(f, J \cup {k}) = f[k] + SumFunctionOnSet(f, J)
        BY <2>1, <2>2, SumAdd
  <2>5. SumFunctionOnSet(f, 1..k) = f[k] + SumFunctionOnSet(f, J)
        BY <2>1, <2>4, Zenon
  <2>6. SumFunctionOnSet(f, 1..k) = SumFunctionOnSet(f, J) + coins[k].amount
        BY <2>1, <2>3, <2>5
  <2> QED
      BY <2>6 DEF J
<1>6. SumFunction(f) = SumFunctionOnSet(f, 1..Len(coins))
      BY <1>1, Zenon DEF SumFunction
<1> QED
    BY <1>3, <1>4, <1>5, <1>6 DEF Funds, Total, f

Need(send, slots, rate, k) == send + EstimateFee(k, slots, rate)

LEMMA NeedType ==
  ASSUME NEW coins, IsCoins(coins), NEW send \in Nat, NEW slots \in Nat, NEW rate \in Nat
  PROVE  \A k \in 0..Len(coins) :
           /\ k \in Nat /\ Funds(coins, k) \in Nat
           /\ EstimateFee(k, slots, rate) \in Nat
           /\ Need(send, slots, rate, k) = send + EstimateFee(k, slots, rate)
           /\ Need(send, slots, rate, k) \in Nat
<1> SUFFICES ASSUME NEW k \in 0..Len(coins)
             PROVE  /\ k \in Nat /\ Funds(coins, k) \in Nat
                    /\ EstimateFee(k, slots, rate) \in Nat
                    /\ Need(send, slots, rate, k) = send + EstimateFee(k, slots, rate)
                    /\ Need(send, slots, rate, k) \in Nat
    OBVIOUS
<1>1. k \in Nat /\ Funds(coins, k) \in Nat
      BY FundsFacts DEF IsCoins
<1>2. EstimateFee(k, slots, rate) \in Nat
      BY <1>1, FeeType
<1>3. Need(send, slots, rate, k) = send + EstimateFee(k, slots, rate)
      BY DEF Need
<1> QED
    BY <1>1, <1>2, <1>3

SettleTable(t, coins, send, slots, rate) ==
  t = [k \in 0..Len(coins) |->
         IF k = 0 \/ Funds(coins, k) >= Need(send, slots, rate, k) THEN k
         ELSE t[Cover(coins, Need(send, slots, rate, k))]]

LEMMA SettledIsTable ==
  ASSUME NEW coins, NEW send, NEW slots, NEW rate
  PROVE  SettledCount(coins, send, slots, rate)
           = (CHOOSE t : SettleTable(t, coins, send, slots, rate))[Cover(coins, send)]
BY Zenon DEF SettledCount, SettleTable, Need

(* The prefixes from the k-th on that pay for `send` and for themselves.   *)
Paying(coins, send, slots, rate, k) ==
  {j \in k..Len(coins) : Funds(coins, j) >= Need(send, slots, rate, j)}

First(T) == IF T = {} THEN 0 ELSE Min(T)

LEMMA FirstFacts ==
  ASSUME NEW T, T \subseteq Nat \ {0}
  PROVE  /\ First(T) \in Nat
         /\ First(T) = 0 <=> T = {}
         /\ T # {} => First(T) \in T /\ \A n \in T : First(T) <= n
BY LeastOfNat DEF First

LEMMA CoverFacts ==
  ASSUME NEW coins, IsCoins(coins), NEW need \in Nat
  PROVE  /\ Cover(coins, need) \in 0..Len(coins)
         /\ Cover(coins, need) = 0 => \A j \in 1..Len(coins) : Funds(coins, j) < need
         /\ Cover(coins, need) # 0 =>
              /\ Funds(coins, Cover(coins, need)) >= need
              /\ \A j \in 1..Len(coins) : j < Cover(coins, need) => Funds(coins, j) < need
<1> DEFINE T == {k \in 1..Len(coins) : Funds(coins, k) >= need}
<1>1. Cover(coins, need) = First(T)
      BY DEF Cover, First
<1>2. T \subseteq Nat \ {0} /\ T \subseteq 1..Len(coins) /\ Len(coins) \in Nat
      BY DEF IsCoins
<1>3. /\ First(T) \in Nat /\ (First(T) = 0 <=> T = {})
      /\ T # {} => First(T) \in T /\ \A n \in T : First(T) <= n
  <2> HIDE DEF T
  <2> QED
      BY <1>2, FirstFacts
<1>4. \A j \in 1..Len(coins) : Funds(coins, j) \in Nat
      BY FundsFacts DEF IsCoins
<1>5. \A j \in 1..Len(coins) : j \notin T => Funds(coins, j) < need
      BY <1>4
<1> DEFINE c == First(T)
<1>6. /\ c \in 0..Len(coins) /\ (c = 0 => \A j \in 1..Len(coins) : Funds(coins, j) < need)
      BY <1>2, <1>3, <1>5
<1>7. ASSUME c # 0
      PROVE  /\ Funds(coins, c) >= need
             /\ \A j \in 1..Len(coins) : j < c => Funds(coins, j) < need
  <2>1. c \in T /\ \A n \in T : c <= n
        BY <1>3, <1>7
  <2>2. Funds(coins, c) >= need
        BY <2>1
  <2>3. ASSUME NEW j \in 1..Len(coins), j < c PROVE j \notin T
    <3> HIDE DEF T
    <3> QED
        BY <1>2, <1>3, <2>1, <2>3
  <2> QED
      BY <1>5, <2>2, <2>3
<1> QED
    BY <1>1, <1>6, <1>7

(* A prefix that does not pay for itself: nor does any up to the one that  *)
(* would pay what it costs.                                                *)
LEMMA NextCover ==
  ASSUME NEW coins, IsCoins(coins), NEW send \in Nat, NEW slots \in Nat, NEW rate \in Nat,
         NEW k \in 1..Len(coins), Funds(coins, k) < Need(send, slots, rate, k),
         NEW c, c = Cover(coins, Need(send, slots, rate, k))
  PROVE  /\ c \in 0..Len(coins)
         /\ c = 0 => Paying(coins, send, slots, rate, k) = {}
         /\ c # 0 => /\ k < c
                     /\ Paying(coins, send, slots, rate, k) = Paying(coins, send, slots, rate, c)
<1> DEFINE need == Need(send, slots, rate, k)
<1>1. Len(coins) \in Nat /\ k \in Nat
      BY DEF IsCoins
<1>2. \A j \in 0..Len(coins) : Funds(coins, j) \in Nat /\ Need(send, slots, rate, j) \in Nat
      BY NeedType
<1>3. \A j \in k..Len(coins) : need <= Need(send, slots, rate, j)
  <2> SUFFICES ASSUME NEW j \in k..Len(coins) PROVE need <= Need(send, slots, rate, j)
      OBVIOUS
  <2>1. j \in Nat /\ k <= j
        BY <1>1
  <2>2. EstimateFee(k, slots, rate) <= EstimateFee(j, slots, rate)
        BY <1>1, <2>1, FeeMonotone
  <2>3. j \in 0..Len(coins) /\ k \in 0..Len(coins)
        BY <1>1, <2>1
  <2>4. /\ EstimateFee(k, slots, rate) \in Nat
        /\ EstimateFee(j, slots, rate) \in Nat
        BY <2>3, NeedType
  <2>5. /\ Need(send, slots, rate, k) = send + EstimateFee(k, slots, rate)
        /\ Need(send, slots, rate, j) = send + EstimateFee(j, slots, rate)
        BY DEF Need
  <2> QED
      BY <2>2, <2>4, <2>5
<1>4. need \in Nat /\ k \in 0..Len(coins)
      BY <1>1, <1>2
<1> HIDE DEF need
<1>5. /\ c \in 0..Len(coins)
      /\ c = 0 => \A j \in 1..Len(coins) : Funds(coins, j) < need
      /\ c # 0 => /\ Funds(coins, c) >= need
                  /\ \A j \in 1..Len(coins) : j < c => Funds(coins, j) < need
      BY <1>4, CoverFacts DEF need
<1>6. ASSUME NEW j \in k..Len(coins), Funds(coins, j) < need
      PROVE  ~(Funds(coins, j) >= Need(send, slots, rate, j))
  <2>1. j \in 0..Len(coins)
        BY <1>1
  <2> QED
      BY <1>2, <1>3, <1>4, <1>6, <2>1
<1>7. CASE c = 0
  <2>1. \A j \in k..Len(coins) : Funds(coins, j) < need
        BY <1>1, <1>5, <1>7
  <2> QED
      BY <1>5, <1>6, <1>7, <2>1 DEF Paying
<1>8. CASE c # 0
  <2>1. c \in 1..Len(coins)
        BY <1>1, <1>5, <1>8
  <2>2. k < c
    <3>1. CASE c <= k
      <4>1. c \in 0..Len(coins) /\ Funds(coins, c) <= Funds(coins, k)
            BY <1>1, <1>4, <2>1, <3>1, FundsFacts
      <4> QED
          BY <1>2, <1>4, <1>5, <1>8, <4>1 DEF need
    <3> QED
        BY <1>1, <2>1, <3>1
  <2>3. \A j \in k..Len(coins) : j < c => Funds(coins, j) < need
        BY <1>1, <1>5, <1>8
  <2>4. \A j \in k..Len(coins) : j < c => ~(Funds(coins, j) >= Need(send, slots, rate, j))
        BY <1>6, <2>3
  <2>5. \A j : j \in k..Len(coins) /\ ~(j < c) <=> j \in c..Len(coins)
        BY <1>1, <2>1, <2>2
  <2>6. Paying(coins, send, slots, rate, k) = Paying(coins, send, slots, rate, c)
        BY <2>4, <2>5 DEF Paying
  <2> QED
      BY <1>5, <2>2, <2>6, <1>8
<1> QED
    BY <1>7, <1>8

SettledFrom(coins, send, slots, rate, k) ==
  IF k = 0 THEN 0 ELSE First(Paying(coins, send, slots, rate, k))

LEMMA SettledFromNext ==
  ASSUME NEW coins, IsCoins(coins), NEW send \in Nat, NEW slots \in Nat, NEW rate \in Nat,
         NEW k \in 0..Len(coins)
  PROVE  SettledFrom(coins, send, slots, rate, k)
           = IF k = 0 \/ Funds(coins, k) >= Need(send, slots, rate, k) THEN k
             ELSE SettledFrom(coins, send, slots, rate,
                              Cover(coins, Need(send, slots, rate, k)))
<1>1. Len(coins) \in Nat
      BY DEF IsCoins
<1>2. CASE k = 0
      BY <1>2 DEF SettledFrom
<1>3. CASE k # 0 /\ Funds(coins, k) >= Need(send, slots, rate, k)
  <2> DEFINE T == Paying(coins, send, slots, rate, k)
  <2>1. k \in T /\ T \subseteq k..Len(coins) /\ T \subseteq Nat \ {0}
        BY <1>1, <1>3 DEF Paying
  <2> HIDE DEF T
  <2>2. First(T) \in T /\ First(T) <= k
        BY <2>1, FirstFacts
  <2>3. First(T) = k
    <3>1. k \in Nat /\ \A j \in k..Len(coins) : j \in Nat /\ j >= k
          BY <1>1
    <3>2. First(T) \in Nat /\ First(T) >= k
          BY <2>1, <2>2, <3>1
    <3> QED
        BY <2>2, <3>1, <3>2
  <2> QED
      BY <1>3, <2>3 DEF T, SettledFrom
<1>4. CASE k # 0 /\ ~(Funds(coins, k) >= Need(send, slots, rate, k))
  <2> DEFINE c == Cover(coins, Need(send, slots, rate, k))
  <2>1. k \in 1..Len(coins) /\ Funds(coins, k) < Need(send, slots, rate, k)
    <3>1. Funds(coins, k) \in Nat /\ Need(send, slots, rate, k) \in Nat
          BY NeedType
    <3> QED
        BY <1>1, <1>4, <3>1
  <2>2. /\ c = 0 => Paying(coins, send, slots, rate, k) = {}
        /\ c # 0 => Paying(coins, send, slots, rate, k) = Paying(coins, send, slots, rate, c)
        BY <2>1, NextCover
  <2> HIDE DEF c
  <2>3. SettledFrom(coins, send, slots, rate, k) = SettledFrom(coins, send, slots, rate, c)
        BY <1>4, <2>2 DEF SettledFrom, First
  <2> QED
      BY <1>4, <2>3 DEF c
<1> QED
    BY <1>2, <1>3, <1>4

(* The loop of selectUTXOsForPayment ends with the fewest coins, in their  *)
(* order, that pay for `send` and for the fee of taking them, and fails    *)
(* only when there are none.                                               *)
THEOREM SettledIsShortest ==
  ASSUME NEW coins, IsCoins(coins), NEW send \in Nat, NEW slots \in Nat, NEW rate \in Nat
  PROVE  SettledCount(coins, send, slots, rate) = First(Paying(coins, send, slots, rate, 1))
<1> DEFINE From(k) == SettledFrom(coins, send, slots, rate, k)
           Enough(k) == k = 0 \/ Funds(coins, k) >= Need(send, slots, rate, k)
           Next(k) == Cover(coins, Need(send, slots, rate, k))
           n == Len(coins)
           t == CHOOSE u : SettleTable(u, coins, send, slots, rate)
           d == [k \in 0..n |-> From(k)]
<1>1. n \in Nat
      BY DEF IsCoins
<1>2. \A k \in 0..n : Next(k) \in 0..n
  <2> SUFFICES ASSUME NEW k \in 0..n PROVE Next(k) \in 0..n
      OBVIOUS
  <2>1. Need(send, slots, rate, k) \in Nat
        BY NeedType
  <2> QED
      BY <2>1, CoverFacts
<1>3. \A k \in 0..n : From(k) = IF Enough(k) THEN k ELSE From(Next(k))
      BY SettledFromNext
<1>4. SettleTable(d, coins, send, slots, rate)
  <2> HIDE DEF From, n
  <2>1. \A k \in 0..n : ~Enough(k) => d[Next(k)] = From(Next(k))
        BY <1>2
  <2>2. d = [k \in 0..n |-> IF Enough(k) THEN k ELSE d[Next(k)]]
        BY <1>3, <2>1
  <2> QED
      BY <2>2 DEF SettleTable, n
<1>5. t = [k \in 0..n |-> IF Enough(k) THEN k ELSE t[Next(k)]]
  <2>1. SettleTable(t, coins, send, slots, rate)
        BY <1>4
  <2> HIDE DEF t
  <2> QED
      BY <2>1 DEF SettleTable
<1> HIDE DEF t, From
<1>6. \A k \in 0..n : t[k] = From(k)
  <2> DEFINE F == {m \in 0..n : t[n - m] # From(n - m)}
  <2> SUFFICES ASSUME F # {} PROVE FALSE
    <3>1. ASSUME NEW k \in 0..n, t[k] # From(k) PROVE n - k \in F
      <4>1. n - k \in 0..n /\ n - (n - k) = k
            BY <1>1
      <4> QED
          BY <3>1, <4>1
    <3> QED
        BY <3>1
  <2>1. PICK m \in F : \A j \in F : m <= j
    <3>1. F \subseteq Nat
          BY <1>1
    <3> HIDE DEF F
    <3> QED
        BY <3>1, LeastNatural
  <2> DEFINE k == n - m
             c == Next(k)
  <2>2. k \in 0..n /\ c \in 0..n /\ m \in 0..n
    <3>1. m \in 0..n
          OBVIOUS
    <3>2. k \in 0..n
          BY <1>1, <3>1
    <3> QED
        BY <1>2, <3>1, <3>2
  <2>3. t[k] = (IF Enough(k) THEN k ELSE t[c]) /\ From(k) = IF Enough(k) THEN k ELSE From(c)
        BY <1>3, <1>5, <2>2
  <2>4. ~Enough(k) /\ t[c] # From(c)
    <3>1. t[k] # From(k)
          BY <2>1
    <3> HIDE DEF k, c
    <3> QED
        BY ONLY <2>3, <3>1
  <2>5. CASE c = 0
    <3>1. t[0] = 0 /\ From(0) = 0
          BY <1>1, <1>3, <1>5
    <3> QED
        BY <2>4, <2>5, <3>1
  <2>6. CASE c # 0
    <3>1. k \in 1..n /\ Funds(coins, k) < Need(send, slots, rate, k)
      <4>1. Funds(coins, k) \in Nat /\ Need(send, slots, rate, k) \in Nat
            BY <2>2, NeedType
      <4> QED
          BY <1>1, <2>2, <2>4, <4>1
    <3>2. k < c
          BY <2>6, <3>1, NextCover
    <3>3. n - c \in 0..n /\ n - (n - c) = c /\ n - c < m
          BY <1>1, <2>2, <3>2
    <3>4. n - c \in F
          BY <2>4, <3>3
    <3> QED
        BY <1>1, <2>1, <2>2, <3>3, <3>4
  <2> QED
      BY <2>5, <2>6
<1> DEFINE c == Cover(coins, send)
<1>7. /\ c \in 0..n
      /\ c = 0 => \A j \in 1..n : Funds(coins, j) < send
      /\ c # 0 => \A j \in 1..n : j < c => Funds(coins, j) < send
      BY CoverFacts
<1>8. SettledCount(coins, send, slots, rate) = From(c)
  <2>1. SettledCount(coins, send, slots, rate) = t[c]
        BY SettledIsTable DEF t
  <2> HIDE DEF c
  <2> QED
      BY <1>6, <1>7, <2>1
<1>9. \A j \in 1..n : Funds(coins, j) < send => ~(Funds(coins, j) >= Need(send, slots, rate, j))
  <2> SUFFICES ASSUME NEW j \in 1..n, Funds(coins, j) < send
               PROVE  ~(Funds(coins, j) >= Need(send, slots, rate, j))
      OBVIOUS
  <2>1. j \in Nat /\ j \in 0..n
        BY <1>1
  <2>2. Funds(coins, j) \in Nat /\ EstimateFee(j, slots, rate) \in Nat
        BY <2>1, NeedType
  <2>3. Need(send, slots, rate, j) = send + EstimateFee(j, slots, rate)
        BY <2>1, NeedType
  <2> QED
      BY <2>2, <2>3
<1> HIDE DEF c
<1>10. CASE c = 0
  <2>1. Paying(coins, send, slots, rate, 1) = {}
        BY <1>7, <1>9, <1>10 DEF Paying
  <2> QED
      BY <1>8, <1>10, <2>1 DEF From, SettledFrom, First
<1>11. CASE c # 0
  <2>1. \A j : j \in 1..n /\ ~(j < c) <=> j \in c..n
        BY <1>1, <1>7, <1>11
  <2>2. Paying(coins, send, slots, rate, 1) = Paying(coins, send, slots, rate, c)
        BY <1>7, <1>9, <1>11, <2>1 DEF Paying
  <2> QED
      BY <1>8, <1>11, <2>2 DEF From, SettledFrom
<1> QED
    BY <1>10, <1>11

-----------------------------------------------------------------------------
(* applyChangePolicy, and the outputs with the change.                     *)

LEMMA ChangePolicyFacts ==
  ASSUME NEW surplus \in Int, NEW fee \in Nat, NEW rate, surplus >= fee,
         NEW policy, policy = ChangePolicy(surplus, fee, rate)
  PROVE  /\ policy.fee \in Nat /\ policy.change \in Nat
         /\ policy.fee >= fee /\ policy.fee + policy.change = surplus
         /\ policy.change # 0 => policy.fee = fee
BY DEF ChangePolicy

LEMMA AppendFacts ==
  ASSUME NEW to, IsAmounts(to), NEW a, NEW c \in Nat,
         NEW outs, outs = AppendOutput(to, a, c)
  PROVE  /\ IsAmounts(outs) /\ DOMAIN outs = DOMAIN to \cup {a}
         /\ SumFunction(outs) = SumFunction(to) + c
<1> DEFINE D == DOMAIN to \cup {a}
           old == [x \in D |-> At(to, x)]
           add == [x \in D |-> IF x = a THEN c ELSE 0]
<1>1. IsFiniteSet(D) /\ a \in D /\ DOMAIN to \subseteq D
      BY FS_AddElement DEF IsAmounts
<1>2. /\ \A x \in D : old[x] \in Nat /\ add[x] \in Nat
      /\ \A x \in D \ DOMAIN to : old[x] = 0
      /\ \A x \in DOMAIN to : old[x] = to[x]
      /\ \A x \in D \ {a} : add[x] = 0
      /\ add[a] = c
      BY DEF IsAmounts, At
<1>3. /\ DOMAIN outs = D
      /\ \A x \in D : outs[x] = old[x] + add[x]
      BY DEF AppendOutput
<1> HIDE DEF D, old, add
<1>6. \A x \in D : outs[x] \in Nat
      BY <1>2, <1>3
<1>7. SumFunctionOnSet(outs, D) = SumFunctionOnSet(old, D) + SumFunctionOnSet(add, D)
      BY <1>1, <1>2, <1>3, SumPlus
<1>8. SumFunctionOnSet(add, D) = c
      BY <1>1, <1>2, SumSpike
<1>9. SumFunctionOnSet(old, D) = SumFunctionOnSet(to, DOMAIN to)
  <2> DEFINE S == DOMAIN to
  <2>1. IsFiniteSet(S) /\ S \subseteq D /\ \A x \in S : old[x] = to[x]
        BY <1>1, <1>2 DEF IsAmounts
  <2>2. \A x \in D \ S : old[x] = 0
        BY <1>2
  <2> HIDE DEF S
  <2>3. SumFunctionOnSet(old, D) = SumFunctionOnSet(old, S)
        BY <1>1, <1>2, <2>1, <2>2, SumExtended
  <2>4. SumFunctionOnSet(old, S) = SumFunctionOnSet(to, S)
        BY <2>1, SumEqual
  <2> QED
      BY <2>3, <2>4 DEF S
<1>10. SumFunction(outs) = SumFunctionOnSet(outs, D)
       BY <1>3, Zenon DEF SumFunction
<1>11. SumFunction(to) = SumFunctionOnSet(to, DOMAIN to)
       BY Zenon DEF SumFunction
<1>12. SumFunction(outs) = SumFunction(to) + c
       BY <1>7, <1>8, <1>9, <1>10, <1>11
<1>13. DOMAIN outs = DOMAIN to \cup {a}
       BY <1>3 DEF D
<1> QED
    BY <1>1, <1>3, <1>6, <1>12, <1>13 DEF IsAmounts

LEMMA AppendValues ==
  ASSUME NEW to, IsAmounts(to), NEW a, NEW c \in Nat,
         NEW outs, outs = AppendOutput(to, a, c)
  PROVE  /\ outs[a] = At(to, a) + c
         /\ \A x \in DOMAIN outs : x # a => x \in DOMAIN to /\ outs[x] = to[x]
<1>1. /\ DOMAIN outs = DOMAIN to \cup {a}
      /\ \A x \in DOMAIN outs : outs[x] = At(to, x) + (IF x = a THEN c ELSE 0)
      BY DEF AppendOutput
<1>2. \A x \in DOMAIN outs : At(to, x) \in Nat /\ (x \in DOMAIN to => At(to, x) = to[x])
      BY DEF IsAmounts, At
<1> QED
    BY <1>1, <1>2

LEMMA AmountsSum ==
  ASSUME NEW f, IsAmounts(f)
  PROVE  SumFunction(f) \in Nat
<1> DEFINE S == DOMAIN f
<1>1. IsFiniteSet(S) /\ \A x \in S : f[x] \in Nat
      BY DEF IsAmounts
<1>2. SumFunctionOnSet(f, S) \in Nat
  <2> HIDE DEF S
  <2> QED
      BY <1>1, SumNat
<1> QED
    BY <1>2 DEF SumFunction

LEMMA TotalType ==
  ASSUME NEW coins, IsCoins(coins)
  PROVE  Total(coins) \in Nat
<1>1. Len(coins) \in 0..Len(coins)
      BY DEF IsCoins
<1> QED
    BY <1>1, FundsFacts

-----------------------------------------------------------------------------
(* Folds over a sequence: a step is a function on the values a fold takes, *)
(* tables are extended by one element of the sequence at a time.           *)

LEMMA MaxOfPart ==
  ASSUME NEW n \in Nat, NEW s, s \subseteq 1..n, s # {}
  PROVE  Max(s) \in s /\ \A x \in s : x <= Max(s)
<1> DEFINE T == {n - x : x \in s}
<1>5. \A x \in s : x \in Int /\ n - x \in Nat
      OBVIOUS
<1>1. T \subseteq Nat /\ T # {}
      BY <1>5
<1>2. PICK m \in T : \A y \in T : m <= y
  <2> HIDE DEF T
  <2> QED
      BY <1>1, LeastNatural
<1>3. PICK x \in s : m = n - x
      OBVIOUS
<1>4. ASSUME NEW y \in s PROVE x >= y
  <2>1. m <= n - y
        BY <1>2
  <2> QED
      BY <1>3, <1>5, <2>1
<1>6. Max(s) \in s /\ \A y \in s : Max(s) >= y
      BY <1>4 DEF Max
<1>7. \A y \in s : y <= Max(s)
      BY <1>5, <1>6
<1> QED
    BY <1>6, <1>7

LEMMA MaxOfPrefix ==
  ASSUME NEW k \in Nat \ {0}
  PROVE  Max(1..k) = k /\ (1..k) \ {Max(1..k)} = 1..(k - 1)
<1> DEFINE s == 1..k
<1>1. s \subseteq 1..k /\ s # {} /\ k \in s /\ \A x \in s : x \in Nat /\ x <= k
      OBVIOUS
<1>2. Max(s) \in s /\ k <= Max(s)
  <2> HIDE DEF s
  <2> QED
      BY <1>1, MaxOfPart
<1>3. Max(s) = k
      BY <1>1, <1>2
<1> QED
    BY <1>3

FoldTable(g, base, step, n) ==
  g = [s \in SUBSET (1..n) |-> IF s = {} THEN base ELSE step[<<g[s \ {Max(s)}], Max(s)>>]]

LEMMA FoldTableExists ==
  ASSUME NEW n \in Nat, NEW V, NEW base \in V, NEW step \in [V \X (1..n) -> V]
  PROVE  \E g : FoldTable(g, base, step, n) /\ g \in [SUBSET (1..n) -> V]
<1> DEFINE Good(k) == \E g : FoldTable(g, base, step, k) /\ g \in [SUBSET (1..k) -> V]
           F == {k \in 0..n : ~Good(k)}
<1> SUFFICES ASSUME F # {} PROVE FALSE
  <2>1. n \in 0..n
        OBVIOUS
  <2> QED
      BY <2>1
<1>1. PICK k \in F : \A j \in F : k <= j
  <2>1. F \subseteq Nat
        OBVIOUS
  <2> HIDE DEF F
  <2> QED
      BY <2>1, LeastNatural
<1> HIDE DEF Good
<1>2. k \in 0..n /\ ~Good(k) /\ k \in Nat
      OBVIOUS
<1>3. CASE k = 0
  <2> DEFINE g == [s \in SUBSET (1..0) |-> base]
  <2>1. \A s : s \in SUBSET (1..0) <=> s = {}
        OBVIOUS
  <2>2. g = [s \in SUBSET (1..0) |->
               IF s = {} THEN base ELSE step[<<g[s \ {Max(s)}], Max(s)>>]]
        BY <2>1
  <2>3. FoldTable(g, base, step, 0) /\ g \in [SUBSET (1..0) -> V]
        BY <2>2, Zenon DEF FoldTable
  <2> QED
      BY <1>2, <1>3, <2>3 DEF Good
<1>4. CASE k # 0
  <2> DEFINE j == k - 1
  <2>1. j \in 0..n /\ j < k /\ j \in Nat /\ k \in 1..n
        BY <1>2, <1>4
  <2>2. Good(j)
        BY <1>1, <1>2, <2>1
  <2>3. PICK g : FoldTable(g, base, step, j) /\ g \in [SUBSET (1..j) -> V]
        BY <2>2 DEF Good
  <2> DEFINE Rest(s) == s \ {Max(s)}
             At1(f, s) == IF s = {} THEN base ELSE step[<<f[Rest(s)], Max(s)>>]
             h == [s \in SUBSET (1..k) |-> At1(g, s)]
  <2>4. ASSUME NEW s \in SUBSET (1..k), s # {}
        PROVE  Rest(s) \in SUBSET (1..j) /\ Max(s) \in 1..n
    <3>1. Max(s) \in s /\ \A x \in s : x <= Max(s)
          BY <1>2, <2>4, MaxOfPart
    <3>2. \A x \in Rest(s) : x \in 1..j
      <4> SUFFICES ASSUME NEW x \in Rest(s) PROVE x \in 1..j
          OBVIOUS
      <4>1. x \in s /\ x # Max(s) /\ x <= Max(s) /\ x \in 1..k /\ Max(s) \in 1..k
            BY <3>1
      <4> QED
          BY <2>1, <4>1
    <3>3. 1..k \subseteq 1..n
          BY <2>1
    <3>4. Max(s) \in 1..k
          BY <3>1
    <3> HIDE DEF Rest
    <3> QED
        BY <3>2, <3>3, <3>4
  <2>5. \A s \in SUBSET (1..j) : g[s] = At1(g, s)
        BY <2>3 DEF FoldTable
  <2>6. \A s \in SUBSET (1..j) : s \in SUBSET (1..k)
        BY <2>1
  <2>7. \A s \in SUBSET (1..j) : h[s] = g[s]
        BY <2>5, <2>6
  <2>8. ASSUME NEW s \in SUBSET (1..k) PROVE h[s] = At1(h, s) /\ h[s] \in V
    <3>1. CASE s = {}
          BY <3>1
    <3>2. CASE s # {}
      <4>1. Rest(s) \in SUBSET (1..j) /\ Max(s) \in 1..n
            BY <2>4, <3>2
      <4>2. h[Rest(s)] = g[Rest(s)] /\ g[Rest(s)] \in V
            BY <2>3, <2>7, <4>1
      <4>3. <<g[Rest(s)], Max(s)>> \in V \X (1..n)
            BY <4>1, <4>2
      <4> HIDE DEF Rest
      <4>4. h[s] = step[<<g[Rest(s)], Max(s)>>]
            BY <3>2
      <4> QED
          BY <3>2, <4>2, <4>3, <4>4
    <3> QED
        BY <3>1, <3>2
  <2>9. DOMAIN h = SUBSET (1..k)
        OBVIOUS
  <2> DEFINE e == [s \in SUBSET (1..k) |-> At1(h, s)]
  <2>10. h = e
    <3>1. h = [s \in SUBSET (1..k) |-> h[s]] /\ e = [s \in SUBSET (1..k) |-> e[s]]
          OBVIOUS
    <3>2. \A s \in SUBSET (1..k) : h[s] = e[s]
          BY <2>8
    <3> QED
        BY <3>1, <3>2
  <2>11. FoldTable(h, base, step, k)
         BY <2>10, Zenon DEF FoldTable
  <2>12. h \in [SUBSET (1..k) -> V]
         BY <2>8, <2>9
  <2> QED
      BY <1>2, <2>11, <2>12 DEF Good
<1> QED
    BY <1>3, <1>4

-----------------------------------------------------------------------------
(* writePayerSendOutExtParam: the funding addresses, one after another.    *)

OrderStep(order, a) == IF Contains(order, a) THEN order ELSE Append(order, a)

OrderTable(t, ins) ==
  t = [s \in SUBSET DOMAIN ins |->
         IF s = {} THEN <<>> ELSE OrderStep(t[s \ {Max(s)}], ins[Max(s)].addr)]

LEMMA PayerOrderIsTable ==
  ASSUME NEW ins
  PROVE  PayerOrder(ins) = (CHOOSE t : OrderTable(t, ins))[DOMAIN ins]
BY Zenon DEF PayerOrder, FoldLeft, MapThenFoldSet, OrderTable, OrderStep

(* A list of addresses, each once.                                         *)
Listed(order, P) ==
  /\ order \in Seq(P) /\ ToSet(order) = P
  /\ \A i, j \in DOMAIN order : order[i] = order[j] => i = j

LEMMA ListedAppend ==
  ASSUME NEW order, NEW P, Listed(order, P), NEW a
  PROVE  Listed(OrderStep(order, a), P \cup {a})
<1>1. Len(order) \in Nat /\ DOMAIN order = 1..Len(order)
      BY DEF Listed
<1>2. Contains(order, a) <=> a \in P
      BY <1>1 DEF Contains, Listed, ToSet
<1>3. CASE a \in P
  <2>1. P \cup {a} = P
        BY <1>3
  <2> QED
      BY <1>2, <1>3, <2>1 DEF OrderStep
<1>4. CASE a \notin P
  <2> DEFINE longer == Append(order, a)
             Q == P \cup {a}
             n == Len(order)
  <2>1. OrderStep(order, a) = longer
        BY <1>2, <1>4 DEF OrderStep
  <2>2. order \in Seq(Q) /\ a \in Q
        BY DEF Listed
  <2>3. /\ longer \in Seq(Q) /\ DOMAIN longer = 1..(n + 1) /\ longer[n + 1] = a
        /\ \A i \in 1..n : longer[i] = order[i]
        BY <2>2
  <2>4. \A i \in 1..n : order[i] \in P
        BY <1>1 DEF Listed
  <2>5. \A i \in DOMAIN longer : i \in 1..n \/ i = n + 1
        BY <1>1, <2>3
  <2> HIDE DEF longer
  <2>6. ToSet(longer) = Q
    <3>1. ASSUME NEW x \in ToSet(longer) PROVE x \in Q
          BY <2>3, <2>4, <2>5 DEF ToSet
    <3>2. ASSUME NEW x \in P PROVE x \in ToSet(longer)
      <4>1. PICK i \in 1..n : order[i] = x
            BY <1>1 DEF Listed, ToSet
      <4>2. i \in DOMAIN longer /\ longer[i] = x
            BY <1>1, <2>3, <4>1
      <4> QED
          BY <4>2 DEF ToSet
    <3>3. a \in ToSet(longer)
      <4>1. n + 1 \in DOMAIN longer
            BY <1>1, <2>3
      <4> QED
          BY <2>3, <4>1 DEF ToSet
    <3> QED
        BY <3>1, <3>2, <3>3
  <2>7. \A i, j \in 1..n : order[i] = order[j] => i = j
        BY <1>1 DEF Listed
  <2>8. \A i, j \in DOMAIN longer : longer[i] = longer[j] => i = j
        BY <1>4, <2>3, <2>4, <2>5, <2>7
  <2> QED
      BY <2>1, <2>3, <2>6, <2>8 DEF Listed
<1> QED
    BY <1>3, <1>4

(* The table of the fold over the inputs, one input at a time.             *)
OrderFound(t, ins, n) ==
  /\ t[1..0] = <<>>
  /\ \A k \in 1..n : t[1..k] = OrderStep(t[1..(k - 1)], ins[k].addr)
  /\ PayerOrder(ins) = t[1..n]

LEMMA PayerOrderSteps ==
  ASSUME NEW ins, NEW n \in Nat, DOMAIN ins = 1..n
  PROVE  \E t : OrderFound(t, ins, n)
<1> DEFINE V == Seq(Payers(ins))
           step == [q \in V \X (1..n) |-> OrderStep(q[1], ins[q[2]].addr)]
           t == CHOOSE u : OrderTable(u, ins)
<1>1. \A i \in 1..n : ins[i].addr \in Payers(ins)
      BY DEF Payers
<1>2. step \in [V \X (1..n) -> V]
  <2> SUFFICES ASSUME NEW order \in V, NEW i \in 1..n
               PROVE  OrderStep(order, ins[i].addr) \in V
      OBVIOUS
  <2> QED
      BY <1>1 DEF OrderStep
<1>3. \E u : OrderTable(u, ins)
  <2>1. <<>> \in V
        OBVIOUS
  <2>2. PICK g : FoldTable(g, <<>>, step, n) /\ g \in [SUBSET (1..n) -> V]
    <3> HIDE DEF V, step
    <3> QED
        BY <1>2, <2>1, FoldTableExists
  <2> DEFINE Next(s) == OrderStep(g[s \ {Max(s)}], ins[Max(s)].addr)
             e == [s \in SUBSET (1..n) |-> IF s = {} THEN <<>> ELSE Next(s)]
  <2>3. ASSUME NEW s \in SUBSET (1..n) PROVE g[s] = e[s]
    <3>1. CASE s = {}
          BY <2>2, <3>1 DEF FoldTable
    <3>2. CASE s # {}
      <4>1. Max(s) \in 1..n /\ s \ {Max(s)} \in SUBSET (1..n)
            BY <3>2, MaxOfPart
      <4>2. g[s \ {Max(s)}] \in V
            BY <2>2, <4>1
      <4>3. g[s] = step[<<g[s \ {Max(s)}], Max(s)>>]
        <5> HIDE DEF step, V
        <5> QED
            BY <2>2, <3>2 DEF FoldTable
      <4>4. step[<<g[s \ {Max(s)}], Max(s)>>] = Next(s)
        <5> DEFINE v == g[s \ {Max(s)}]
                   m == Max(s)
        <5> HIDE DEF v, m, V
        <5>1. <<v, m>> \in V \X (1..n)
              BY <4>1, <4>2 DEF v, m
        <5>2. step[<<v, m>>] = OrderStep(v, ins[m].addr)
              BY <5>1
        <5> QED
            BY <5>2 DEF v, m
      <4> QED
          BY <3>2, <4>3, <4>4
    <3> QED
        BY <3>1, <3>2
  <2>4. g = e
    <3>1. g = [s \in SUBSET (1..n) |-> g[s]] /\ e = [s \in SUBSET (1..n) |-> e[s]]
          BY <2>2
    <3> HIDE DEF e
    <3> QED
        BY <2>3, <3>1
  <2>5. OrderTable(g, ins)
        BY <2>4, Zenon DEF OrderTable
  <2> QED
      BY <2>5
<1>4. t = [s \in SUBSET (1..n) |->
             IF s = {} THEN <<>> ELSE OrderStep(t[s \ {Max(s)}], ins[Max(s)].addr)]
  <2>1. OrderTable(t, ins)
        BY <1>3
  <2> HIDE DEF t
  <2> QED
      BY <2>1 DEF OrderTable
<1> HIDE DEF t, step, V
<1>5. t[1..0] = <<>>
  <2>1. 1..0 = {} /\ 1..0 \in SUBSET (1..n)
        OBVIOUS
  <2> QED
      BY <1>4, <2>1
<1>6. ASSUME NEW k \in 1..n PROVE t[1..k] = OrderStep(t[1..(k - 1)], ins[k].addr)
  <2> DEFINE s == 1..k
  <2>1. s \in SUBSET (1..n) /\ s # {} /\ k \in Nat \ {0}
        OBVIOUS
  <2>2. Max(s) = k /\ s \ {Max(s)} = 1..(k - 1)
        BY <2>1, MaxOfPrefix
  <2>3. t[s] = OrderStep(t[s \ {Max(s)}], ins[Max(s)].addr)
    <3> HIDE DEF s
    <3> QED
        BY <1>4, <2>1
  <2> QED
      BY <2>2, <2>3
<1>7. PayerOrder(ins) = t[1..n]
      BY PayerOrderIsTable, Zenon DEF t
<1> QED
    BY <1>5, <1>6, <1>7 DEF OrderFound

LEMMA PayerOrderListed ==
  ASSUME NEW ins, NEW n \in Nat, DOMAIN ins = 1..n
  PROVE  Listed(PayerOrder(ins), Payers(ins))
<1> DEFINE P(k) == {ins[i].addr : i \in 1..k}
<1>1. PICK t : OrderFound(t, ins, n)
      BY PayerOrderSteps
<1>2. ASSUME NEW k \in 0..n PROVE Listed(t[1..k], P(k))
  <2> DEFINE Fine(j) == Listed(t[1..j], P(j))
             F == {j \in 0..n : ~Fine(j)}
  <2> SUFFICES ASSUME F # {} PROVE FALSE
      OBVIOUS
  <2>1. PICK j \in F : \A i \in F : j <= i
    <3>1. F \subseteq Nat
          OBVIOUS
    <3> HIDE DEF F
    <3> QED
        BY <3>1, LeastNatural
  <2> HIDE DEF Fine
  <2>2. j \in 0..n /\ ~Fine(j)
        OBVIOUS
  <2>3. CASE j = 0
    <3>1. P(0) = {} /\ Listed(<<>>, {})
          BY DEF Listed, ToSet
    <3> QED
        BY <1>1, <2>2, <2>3, <3>1 DEF Fine, OrderFound
  <2>4. CASE j # 0
    <3>1. j - 1 \in 0..n /\ j - 1 < j /\ j \in 1..n
          BY <2>2, <2>4
    <3>2. Listed(t[1..(j - 1)], P(j - 1))
      <4>1. Fine(j - 1)
            BY <2>1, <2>2, <3>1
      <4> QED
          BY <4>1 DEF Fine
    <3>3. P(j) = P(j - 1) \cup {ins[j].addr}
      <4>1. 1..j = 1..(j - 1) \cup {j}
            BY <3>1
      <4> QED
          BY <4>1
    <3> HIDE DEF P
    <3>4. Listed(OrderStep(t[1..(j - 1)], ins[j].addr), P(j - 1) \cup {ins[j].addr})
          BY <3>2, ListedAppend
    <3> QED
        BY <1>1, <2>2, <3>1, <3>3, <3>4 DEF Fine, OrderFound
  <2> QED
      BY <2>3, <2>4
<1>3. Payers(ins) = P(n) /\ n \in 0..n
      BY DEF Payers
<1> QED
    BY <1>1, <1>2, <1>3 DEF OrderFound

(* Two coins of two addresses: the first to fund is the first to be charged. *)
LEMMA PayerOrderOfTwo ==
  ASSUME NEW ins, DOMAIN ins = 1..2, ins[1].addr # ins[2].addr
  PROVE  /\ Len(PayerOrder(ins)) = 2
         /\ PayerOrder(ins)[1] = ins[1].addr /\ PayerOrder(ins)[2] = ins[2].addr
<1> DEFINE p == ins[1].addr
           q == ins[2].addr
<1>1. PICK t : OrderFound(t, ins, 2)
      BY 2 \in Nat, PayerOrderSteps
<1>2. t[1..1] = OrderStep(t[1..0], p) /\ t[1..2] = OrderStep(t[1..1], q)
  <2>1. 1 \in 1..2 /\ 1 - 1 = 0 /\ 2 \in 1..2 /\ 2 - 1 = 1
        OBVIOUS
  <2> QED
      BY <1>1, <2>1 DEF OrderFound
<1> HIDE DEF p, q
<1>3. OrderStep(<<>>, p) = <<p>>
      BY DEF OrderStep, Contains
<1>4. OrderStep(<<p>>, q) = Append(<<p>>, q)
  <2>1. p # q
        BY DEF p, q
  <2>2. \A i \in 1..Len(<<p>>) : <<p>>[i] = p
        OBVIOUS
  <2>3. ~Contains(<<p>>, q)
        BY <2>1, <2>2 DEF Contains
  <2> QED
      BY <2>3 DEF OrderStep
<1>5. /\ Len(Append(<<p>>, q)) = 2
      /\ Append(<<p>>, q)[1] = p /\ Append(<<p>>, q)[2] = q
  <2>1. <<p>> \in Seq({p, q}) /\ q \in {p, q} /\ Len(<<p>>) = 1
        OBVIOUS
  <2> QED
      BY <2>1
<1> QED
    BY <1>1, <1>2, <1>3, <1>4, <1>5 DEF p, q, OrderFound

(* What the addresses give, and what their shares are.                     *)
LEMMA VinType ==
  ASSUME NEW ins, IsCoins(ins), NEW p
  PROVE  VinOf(ins, p) \in Nat
<1> DEFINE f == Amounts(ins)
           S == {i \in DOMAIN ins : ins[i].addr = p}
<1>1. /\ IsFiniteSet(1..Len(ins)) /\ S \in SUBSET (1..Len(ins))
      /\ \A i \in S : f[i] \in Nat
      BY FS_Interval DEF IsCoins, Amounts
<1> HIDE DEF f, S
<1>2. IsFiniteSet(S)
      BY <1>1, FS_Subset
<1>3. SumFunctionOnSet(f, S) \in Nat
      BY <1>1, <1>2, SumNat
<1> QED
    BY <1>3 DEF VinOf, f, S

LEMMA ByPayerType ==
  ASSUME NEW order, NEW P, Listed(order, P), NEW shares,
         \A i \in DOMAIN order : shares[i] \in Nat
  PROVE  ByPayer(order, shares) \in [P -> Nat]
<1> SUFFICES ASSUME NEW p \in P
             PROVE  shares[CHOOSE i \in DOMAIN order : order[i] = p] \in Nat
    BY DEF ByPayer, Listed
<1>1. \E i \in DOMAIN order : order[i] = p
      BY DEF Listed, ToSet
<1>2. (CHOOSE i \in DOMAIN order : order[i] = p) \in DOMAIN order
      BY <1>1
<1> QED
    BY <1>2

LEMMA GreedyType ==
  ASSUME NEW n \in Nat, NEW vins \in [1..n -> Nat], NEW external \in Nat
  PROVE  CoverExternalInOrder(vins, external) \in [1..n -> Nat]
<1> SUFFICES ASSUME NEW i \in 1..n
             PROVE  Min({vins[i], Max({0, external - SumFunctionOnSet(vins, 1..(i - 1))})}) \in Nat
    BY DEF CoverExternalInOrder
<1> DEFINE S == 1..(i - 1)
           rest == external - SumFunctionOnSet(vins, S)
           most == Max({0, rest})
<1>1. IsFiniteSet(S) /\ \A j \in S : vins[j] \in Nat
  <2>1. 0 \in Int /\ 1 \in Int /\ i - 1 \in Int
        OBVIOUS
  <2>2. IsFiniteSet(S)
        BY <2>1, FS_Interval
  <2>3. \A j \in S : j \in 1..n
        OBVIOUS
  <2> QED
      BY <2>2, <2>3
<1>2. SumFunctionOnSet(vins, S) \in Nat
  <2> HIDE DEF S
  <2> QED
      BY <1>1, SumNat
<1>3. rest \in Int
      BY <1>2
<1> HIDE DEF rest
<1>4. most \in Nat
  <2>1. 0 \in Int /\ (most = 0 \/ most = rest) /\ most >= 0
        BY <1>3, MaxOfTwo
  <2> HIDE DEF most
  <2> QED
      BY <1>3, <2>1
<1> HIDE DEF most
<1> DEFINE v == vins[i]
           least == Min({v, most})
<1>5. v \in Nat
      OBVIOUS
<1> HIDE DEF v
<1>6. least \in Nat
  <2>1. least = v \/ least = most
    <3>1. v \in Int /\ most \in Int
          BY <1>4, <1>5
    <3> QED
        BY <3>1, MinOfTwo
  <2> HIDE DEF least
  <2> QED
      BY <1>4, <1>5, <2>1
<1> QED
    BY <1>6 DEF most, rest, v

LEMMA TruncatedType ==
  ASSUME NEW x \in Int, NEW b \in Nat \ {0}
  PROVE  TruncatedDiv(Int64(x), b) \in Int
<1> DEFINE a == Int64(x)
<1>1. Int64Half \in Nat \ {0} /\ 2 * Int64Half \in Nat \ {0}
      BY Int64Assumption
<1>2. (x + Int64Half) % (2 * Int64Half) \in Int
      BY <1>1
<1>3. a \in Int
      BY <1>1, <1>2 DEF Int64
<1> HIDE DEF a
<1>4. a \div b \in Int /\ (-a) \div b \in Int
      BY <1>3
<1>5. TruncatedDiv(a, b) \in Int
      BY <1>3, <1>4 DEF TruncatedDiv
<1> QED
    BY <1>5 DEF a

LEMMA ProportionalType ==
  ASSUME NEW n \in Nat \ {0}, NEW gross, DOMAIN gross = 1..n, Len(gross) = n,
         \A i \in 1..n : gross[i] \in Nat,
         NEW external \in Nat \ {0}, external <= SumFunction(gross)
  PROVE  /\ Len(ProportionalShares(gross, external)) = n
         /\ DOMAIN ProportionalShares(gross, external) = 1..n
         /\ \A i \in 1..n : ProportionalShares(gross, external)[i] \in Int
<1> DEFINE sum == SumFunction(gross)
           part == [i \in 1..(n - 1) |-> TruncatedDiv(Int64(external * gross[i]), sum)]
           rest == external - SumFunction(part)
<1>1. sum \in Nat \ {0}
  <2> DEFINE S == 1..n
  <2>1. IsFiniteSet(S) /\ \A j \in S : gross[j] \in Nat
    <3>1. 1 \in Int /\ n \in Int
          OBVIOUS
    <3> QED
        BY <3>1, FS_Interval
  <2>2. SumFunctionOnSet(gross, S) \in Nat
    <3> HIDE DEF S
    <3> QED
        BY <2>1, SumNat
  <2>3. sum = SumFunctionOnSet(gross, S)
        BY SumFunctionIs
  <2> QED
      BY <2>2, <2>3
<1> HIDE DEF sum
<1>2. ASSUME NEW i \in 1..(n - 1) PROVE part[i] \in Int
  <2>1. external * gross[i] \in Int
        OBVIOUS
  <2> QED
      BY <1>1, <2>1, TruncatedType
<1>3. part \in Seq(Int) /\ Len(part) = n - 1 /\ DOMAIN part = 1..(n - 1)
  <2>1. n - 1 \in Nat
        OBVIOUS
  <2>2. part \in [1..(n - 1) -> Int]
        BY <1>2
  <2> QED
      BY <2>1, <2>2
<1> HIDE DEF part
<1>4. rest \in Int
  <2> DEFINE S == 1..(n - 1)
  <2>1. IsFiniteSet(S) /\ \A j \in S : part[j] \in Int
    <3>1. 1 \in Int /\ n - 1 \in Int
          OBVIOUS
    <3> QED
        BY <1>2, <3>1, FS_Interval
  <2>2. SumFunctionOnSet(part, S) \in Int
    <3> HIDE DEF S
    <3> QED
        BY <2>1, SumInt
  <2>3. SumFunction(part) = SumFunctionOnSet(part, S)
        BY <1>3, SumFunctionIs
  <2> QED
      BY <2>2, <2>3
<1>5. ProportionalShares(gross, external) = Append(part, rest)
      BY DEF ProportionalShares, part, sum
<1> HIDE DEF rest
<1>6. /\ Append(part, rest) \in Seq(Int) /\ Len(Append(part, rest)) = n
      BY <1>3, <1>4
<1> QED
    BY <1>5, <1>6

(* A share of the payment, where there is one, is that of a funding        *)
(* address and not negative, whatever the arithmetic of 64 bits does.      *)
LEMMA SendOutType ==
  ASSUME NEW ins, IsCoins(ins), NEW to, IsAmounts(to), NEW outs, IsAmounts(outs)
  PROVE  /\ DOMAIN PayerSendOut(ins, to, outs) \subseteq Payers(ins)
         /\ \A p \in DOMAIN PayerSendOut(ins, to, outs) : PayerSendOut(ins, to, outs)[p] \in Nat
<1> DEFINE order == PayerOrder(ins)
           external == SumFunction(to)
           vins == [i \in DOMAIN order |-> VinOf(ins, order[i])]
           gross == [i \in DOMAIN order |-> vins[i] - At(outs, order[i])]
           n == Len(order)
           P == Payers(ins)
           Good(f) == DOMAIN f \subseteq P /\ \A p \in DOMAIN f : f[p] \in Nat
<1>1. external \in Nat
      BY AmountsSum
<1>2. Listed(order, P)
      BY PayerOrderListed DEF IsCoins
<1> HIDE DEF order, external
<1>3. /\ n \in Nat /\ DOMAIN order = 1..n /\ ToSet(order) = P
      BY <1>2 DEF Listed
<1>4. vins \in [1..n -> Nat]
      BY <1>3, VinType
<1> HIDE DEF vins, P
<1>5. Good(NotWritten)
      BY DEF NotWritten
<1>6. Good([p \in ToSet(order) |-> external])
      BY <1>1, <1>3
<1>7. ASSUME NEW shares, \A i \in 1..n : shares[i] \in Nat PROVE Good(ByPayer(order, shares))
  <2>1. ByPayer(order, shares) \in [P -> Nat]
        BY <1>2, <1>3, <1>7, ByPayerType
  <2> QED
      BY <2>1
<1> HIDE DEF Good
<1>8. Good(PayableFromGross(order, gross, external)) \/ n = 0 \/ external = 0
  <2> SUFFICES ASSUME n # 0, external # 0,
                      \A i \in DOMAIN gross : gross[i] >= 0,
                      external <= SumFunction(gross),
                      \A i \in DOMAIN ProportionalShares(gross, external) :
                        0 <= ProportionalShares(gross, external)[i]
               PROVE  Good(ByPayer(order, ProportionalShares(gross, external)))
      BY <1>5 DEF PayableFromGross
  <2>1. \A i \in 1..n : At(outs, order[i]) \in Nat
        BY DEF IsAmounts, At
  <2>2. DOMAIN gross = 1..n /\ Len(gross) = n
        BY <1>3
  <2>3. \A i \in 1..n : gross[i] \in Nat
    <3> SUFFICES ASSUME NEW i \in 1..n PROVE gross[i] \in Nat
        OBVIOUS
    <3>1. gross[i] >= 0 /\ gross[i] = vins[i] - At(outs, order[i]) /\ vins[i] \in Nat
          BY <1>3, <1>4, <2>2
    <3> QED
        BY <2>1, <3>1
  <2> HIDE DEF gross
  <2>4. /\ DOMAIN ProportionalShares(gross, external) = 1..n
        /\ \A i \in 1..n : ProportionalShares(gross, external)[i] \in Int
        BY <1>1, <1>3, <2>2, <2>3, ProportionalType
  <2>5. \A i \in 1..n : ProportionalShares(gross, external)[i] \in Nat
        BY <2>4
  <2> QED
      BY <1>7, <2>5
<1>9. Good(ByPayer(order, CoverExternalInOrder(vins, external)))
  <2>1. CoverExternalInOrder(vins, external) \in [1..n -> Nat]
        BY <1>1, <1>3, <1>4, GreedyType
  <2> QED
      BY <1>7, <2>1
<1>10. n = 0 => Good(ByPayer(order, ProportionalShares(gross, external)))
  <2> SUFFICES ASSUME n = 0 PROVE Good(ByPayer(order, ProportionalShares(gross, external)))
      OBVIOUS
  <2>1. \A i \in 1..n : ProportionalShares(gross, external)[i] \in Nat
        BY <1>3
  <2> QED
      BY <1>7, <2>1
<1>11. Good(PayableFromGross(order, gross, external)) \/ external = 0
       BY <1>5, <1>8, <1>10 DEF PayableFromGross
<1>12. Good(PayerSendOut(ins, to, outs))
       BY <1>6, <1>9, <1>11
          DEF PayerSendOut, AssignPayable, order, external, vins
<1> QED
    BY <1>12 DEF Good, P

LEMMA SendOutOfOnly ==
  ASSUME NEW ins, IsCoins(ins), NEW p, Payers(ins) = {p}, NEW to, NEW outs
  PROVE  PayerSendOut(ins, to, outs) = [q \in {p} |-> SumFunction(to)]
<1> DEFINE order == PayerOrder(ins)
<1>1. Listed(order, {p})
      BY PayerOrderListed DEF IsCoins
<1> HIDE DEF order
<1>2. Len(order) = 1
  <2>1. Len(order) \in Nat /\ DOMAIN order = 1..Len(order)
        BY <1>1 DEF Listed
  <2>2. \A i \in DOMAIN order : order[i] = p
        BY <1>1 DEF Listed, ToSet
  <2>3. \E i \in DOMAIN order : order[i] = p
        BY <1>1 DEF Listed, ToSet
  <2>4. \A i, j \in DOMAIN order : i = j
        BY <1>1, <2>2 DEF Listed
  <2> QED
      BY <2>1, <2>3, <2>4
<1>3. ToSet(order) = {p}
      BY <1>1 DEF Listed
<1> QED
    BY <1>2, <1>3 DEF PayerSendOut, order

(* What all that fund give is what the coins are worth.                    *)
LEMMA VinsAddUp ==
  ASSUME NEW ins, IsCoins(ins), NEW vin, \A p \in Payers(ins) : vin[p] = VinOf(ins, p)
  PROVE  /\ IsFiniteSet(Payers(ins))
         /\ SumFunctionOnSet(vin, Payers(ins)) = Total(ins)
<1> DEFINE f == Amounts(ins)
           h == [i \in DOMAIN ins |-> ins[i].addr]
           S == DOMAIN ins
           T == Payers(ins)
<1>1. /\ IsFiniteSet(S) /\ DOMAIN f = S
      /\ \A i \in S : f[i] \in Int /\ h[i] \in T
  <2>1. S = 1..Len(ins) /\ Len(ins) \in Nat
        BY DEF IsCoins
  <2>2. IsFiniteSet(S)
        BY <2>1, 1 \in Int, FS_Interval
  <2>3. \A i \in S : f[i] = ins[i].amount /\ ins[i].amount \in Nat
        BY DEF IsCoins, Amounts
  <2> QED
      BY <2>2, <2>3 DEF Amounts, Payers
<1>2. IsFiniteSet(T)
  <2>1. h \in Surjection(S, T)
        BY DEF Surjection, Payers
  <2> QED
      BY <1>1, <2>1, FS_Surjection
<1>3. ASSUME NEW p \in T PROVE vin[p] = GroupSums(f, h, S, T)[p]
  <2>1. {i \in S : h[i] = p} = {i \in DOMAIN ins : ins[i].addr = p}
        OBVIOUS
  <2> QED
      BY <2>1 DEF VinOf, GroupSums
<1>4. Total(ins) = SumFunctionOnSet(f, S)
      BY <1>1, SumFunctionIs DEF Total
<1> HIDE DEF f, h, S, T
<1>5. SumFunctionOnSet(GroupSums(f, h, S, T), T) = SumFunctionOnSet(f, S)
      BY <1>1, <1>2, SumGrouped
<1>6. SumFunctionOnSet(vin, T) = SumFunctionOnSet(GroupSums(f, h, S, T), T)
      BY <1>2, <1>3, SumEqual
<1> QED
    BY <1>2, <1>4, <1>5, <1>6 DEF T

(* Shares by address are worth what they are worth by position.            *)
LEMMA ByPayerSum ==
  ASSUME NEW order, NEW P, Listed(order, P), NEW shares,
         \A i \in DOMAIN order : shares[i] \in Int
  PROVE  /\ DOMAIN ByPayer(order, shares) = P
         /\ \A i \in DOMAIN order : ByPayer(order, shares)[order[i]] = shares[i]
         /\ SumFunction(ByPayer(order, shares)) = SumFunctionOnSet(shares, DOMAIN order)
<1> DEFINE g == ByPayer(order, shares)
           S == DOMAIN order
<1>1. DOMAIN g = P /\ P = {order[i] : i \in S} /\ ToSet(order) = P
      BY DEF ByPayer, Listed, ToSet
<1>2. IsFiniteSet(S) /\ \A i, j \in S : order[i] = order[j] => i = j
      BY FS_Interval DEF Listed
<1>3. ASSUME NEW i \in S PROVE g[order[i]] = shares[i]
  <2>1. (CHOOSE j \in DOMAIN order : order[j] = order[i]) = i
        BY <1>2
  <2>2. order[i] \in ToSet(order)
        BY <1>1
  <2> QED
      BY <2>1, <2>2 DEF ByPayer
<1> HIDE DEF g
<1>4. SumFunctionOnSet(g, {order[i] : i \in S}) = SumFunctionOnSet(shares, S)
  <2>1. \A i \in S : shares[i] \in Int /\ g[order[i]] = shares[i]
        BY <1>3
  <2> HIDE DEF S
  <2> QED
      BY <1>2, <2>1, SumImage
<1>5. SumFunction(g) = SumFunctionOnSet(g, P)
      BY <1>1, SumFunctionIs
<1> QED
    BY <1>1, <1>3, <1>4, <1>5 DEF g

(* Who comes first pays until the payment is paid.                         *)
LEMMA GreedyAddsUp ==
  ASSUME NEW n \in Nat, NEW vins \in [1..n -> Nat], NEW E \in Nat,
         E <= SumFunctionOnSet(vins, 1..n)
  PROVE  SumFunctionOnSet(CoverExternalInOrder(vins, E), 1..n) = E
<1> DEFINE f == CoverExternalInOrder(vins, E)
           G(k) == SumFunctionOnSet(f, 1..k)
           V(k) == SumFunctionOnSet(vins, 1..k)
           Fine(k) == (G(k) = E /\ V(k) >= E) \/ (G(k) = V(k) /\ V(k) <= E)
           F == {k \in 0..n : ~Fine(k)}
<1>1. f \in [1..n -> Nat]
      BY GreedyType
<1>2. ASSUME NEW k \in 0..n PROVE V(k) \in Nat /\ IsFiniteSet(1..k) /\ 1..k \subseteq 1..n
  <2> DEFINE S == 1..k
  <2>1. S \subseteq 1..n /\ IsFiniteSet(S)
        BY FS_Interval
  <2>2. \A j \in S : vins[j] \in Nat
        BY <2>1
  <2>3. SumFunctionOnSet(vins, S) \in Nat
    <3> HIDE DEF S
    <3> QED
        BY <2>1, <2>2, SumNat
  <2> QED
      BY <2>1, <2>3
<1>3. ASSUME NEW g, g \in [1..n -> Nat], NEW k \in 1..n
      PROVE  SumFunctionOnSet(g, 1..k) = g[k] + SumFunctionOnSet(g, 1..(k - 1))
  <2> DEFINE S == 1..(k - 1)
  <2>1. /\ IsFiniteSet(S) /\ k \notin S /\ S \cup {k} = 1..k
        /\ \A x \in S \cup {k} : g[x] \in Int
    <3>1. k - 1 \in 0..n
          OBVIOUS
    <3>2. \A x \in S \cup {k} : x \in 1..n
          OBVIOUS
    <3>3. \A x \in 1..n : g[x] \in Int
          BY <1>3
    <3> QED
        BY <1>2, <3>1, <3>2, <3>3
  <2> HIDE DEF S
  <2>2. SumFunctionOnSet(g, S \cup {k}) = g[k] + SumFunctionOnSet(g, S)
        BY <2>1, SumAdd
  <2> QED
      BY <2>1, <2>2 DEF S
<1>4. ASSUME F # {} PROVE FALSE
  <2>1. PICK k \in F : \A j \in F : k <= j
    <3>1. F \subseteq Nat
          OBVIOUS
    <3> HIDE DEF F
    <3> QED
        BY <1>4, <3>1, LeastNatural
  <2>2. k \in 0..n /\ ~Fine(k)
        OBVIOUS
  <2>3. k # 0
    <3>1. G(0) = 0 /\ V(0) = 0
      <4>1. 1..0 = {}
            OBVIOUS
      <4> QED
          BY <4>1, SumEmpty
    <3> HIDE DEF G, V
    <3> QED
        BY <2>2, <3>1
  <2>4. k - 1 \in 0..n /\ k \in 1..n /\ k - 1 < k
        BY <2>2, <2>3
  <2>5. (G(k - 1) = E /\ V(k - 1) >= E) \/ (G(k - 1) = V(k - 1) /\ V(k - 1) <= E)
    <3>1. Fine(k - 1)
      <4> HIDE DEF Fine
      <4> QED
          BY <2>1, <2>4
    <3> HIDE DEF G, V
    <3> QED
        BY <3>1
  <2> DEFINE v == vins[k]
             rest == E - V(k - 1)
  <2>6. G(k) = f[k] + G(k - 1) /\ V(k) = v + V(k - 1)
        BY <1>1, <1>3, <2>4
  <2>7. f[k] = Min({v, Max({0, rest})})
        BY <2>4 DEF CoverExternalInOrder
  <2>8. v \in Nat /\ V(k - 1) \in Nat /\ rest \in Int
        BY <1>2, <2>4
  <2> DEFINE most == Max({0, rest})
  <2>9. (most = 0 \/ most = rest) /\ most >= 0 /\ most >= rest
        BY <2>8, 0 \in Int, MaxOfTwo
  <2> HIDE DEF most
  <2>10. most \in Int
         BY <2>8, <2>9
  <2>11. (f[k] = v \/ f[k] = most) /\ f[k] <= v /\ f[k] <= most
    <3>1. f[k] = Min({v, most})
          BY <2>7 DEF most
    <3>2. v \in Int
          BY <2>8
    <3> HIDE DEF v, f, rest
    <3> QED
        BY ONLY <2>10, <3>1, <3>2, MinOfTwo
  <2> DEFINE fk == f[k]
             gk == G(k - 1)
             vk == V(k - 1)
  <2>12. rest = E - vk /\ ((gk = E /\ vk >= E) \/ (gk = vk /\ vk <= E))
    <3> HIDE DEF G, V
    <3> QED
        BY <2>5
  <2>13. G(k) = fk + gk /\ V(k) = v + vk
         BY <2>6
  <2> HIDE DEF f, G, V, v, rest, fk, gk, vk
  <2>14. /\ v \in Nat /\ vk \in Nat /\ rest \in Int
         /\ (fk = v \/ fk = most) /\ fk <= v /\ fk <= most
         BY <2>8, <2>11 DEF fk, vk
  <2>15. Fine(k)
    <3> DEFINE a == G(k)
               b == V(k)
    <3>1. a = fk + gk /\ b = v + vk
          BY <2>13
    <3> HIDE DEF a, b, Fine
    <3>2. (a = E /\ b >= E) \/ (a = b /\ b <= E)
          BY ONLY <2>9, <2>10, <2>12, <2>14, <3>1, E \in Nat
    <3> QED
        BY <3>2 DEF a, b, Fine
  <2> HIDE DEF Fine
  <2> QED
      BY <2>2, <2>15
<1>5. Fine(n)
      BY <1>4
<1>6. G(n) = E
  <2>1. V(n) >= E /\ V(n) \in Nat
        BY <1>2
  <2> HIDE DEF G, V
  <2> QED
      BY <1>5, <2>1
<1> QED
    BY <1>6

LEMMA ProportionalAddsUp ==
  ASSUME NEW n \in Nat \ {0}, NEW gross, DOMAIN gross = 1..n, Len(gross) = n,
         \A i \in 1..n : gross[i] \in Nat,
         NEW E \in Nat \ {0}, E <= SumFunction(gross)
  PROVE  SumFunctionOnSet(ProportionalShares(gross, E), 1..n) = E
<1> DEFINE shares == ProportionalShares(gross, E)
           part == [i \in 1..(n - 1) |->
                      TruncatedDiv(Int64(E * gross[i]), SumFunction(gross))]
           rest == E - SumFunction(part)
           S == 1..(n - 1)
<1>1. DOMAIN shares = 1..n /\ \A i \in 1..n : shares[i] \in Int
      BY ProportionalType
<1>2. shares = Append(part, rest)
      BY DEF ProportionalShares
<1>3. \A i \in S : shares[i] = part[i]
  <2>1. Len(part) = n - 1
        OBVIOUS
  <2> QED
      BY <1>2, <2>1
<1>4. shares[n] = rest
  <2>1. Len(part) = n - 1
        OBVIOUS
  <2> HIDE DEF part, rest
  <2> QED
      BY <1>2, <2>1
<1>5. IsFiniteSet(S) /\ n \notin S /\ S \cup {n} = 1..n
  <2>1. IsFiniteSet(S)
        BY 1 \in Int, n - 1 \in Int, FS_Interval
  <2> QED
      BY <2>1
<1>6. SumFunction(part) = SumFunctionOnSet(part, S)
      BY SumFunctionIs
<1> HIDE DEF shares, part
<1>7. SumFunctionOnSet(part, S) = SumFunctionOnSet(shares, S)
  <2> HIDE DEF S
  <2> QED
      BY <1>3, <1>5, SumEqual
<1>8. SumFunctionOnSet(shares, S \cup {n}) = shares[n] + SumFunctionOnSet(shares, S)
  <2>1. \A x \in S \cup {n} : shares[x] \in Int
        BY <1>1, <1>5
  <2> HIDE DEF S
  <2> QED
      BY <1>5, <2>1, SumAdd
<1>9. SumFunctionOnSet(shares, S) \in Int
  <2>1. \A x \in S : shares[x] \in Int
        BY <1>1, <1>5
  <2> HIDE DEF S
  <2> QED
      BY <1>5, <2>1, SumInt
<1> DEFINE sum == SumFunctionOnSet(shares, S)
           last == shares[n]
<1>10. SumFunctionOnSet(shares, 1..n) = last + sum /\ last = E - sum /\ sum \in Int
       BY <1>4, <1>5, <1>6, <1>7, <1>8, <1>9
<1> HIDE DEF sum, last
<1>11. SumFunctionOnSet(shares, 1..n) = E
       BY <1>10
<1> QED
    BY <1>11 DEF shares

(* Whatever is written for a payment adds up to it.                        *)
LEMMA SendOutSum ==
  ASSUME NEW ins, IsCoins(ins), ins # <<>>, NEW to, IsAmounts(to), NEW outs, IsAmounts(outs),
         PayerSendOut(ins, to, outs) # NotWritten
  PROVE  SumFunction(PayerSendOut(ins, to, outs)) = SumFunction(to)
<1> DEFINE order == PayerOrder(ins)
           E == SumFunction(to)
           vins == [i \in DOMAIN order |-> VinOf(ins, order[i])]
           gross == [i \in DOMAIN order |-> vins[i] - At(outs, order[i])]
           n == Len(order)
           P == Payers(ins)
           greedy == CoverExternalInOrder(vins, E)
           parts == ProportionalShares(gross, E)
<1>1. E \in Nat
      BY AmountsSum
<1>2. Listed(order, P)
      BY PayerOrderListed DEF IsCoins
<1>3. P # {}
  <2>1. 1 \in DOMAIN ins
        BY DEF IsCoins
  <2> QED
      BY <2>1 DEF Payers
<1> HIDE DEF order, E, P
<1>4. /\ n \in Nat \ {0} /\ DOMAIN order = 1..n /\ ToSet(order) = P /\ n \in 1..n
      /\ \A i, j \in 1..n : order[i] = order[j] => i = j
      /\ IsFiniteSet(P) /\ P = {order[i] : i \in 1..n}
  <2>1. n \in Nat /\ DOMAIN order = 1..n /\ ToSet(order) = P
        BY <1>2 DEF Listed
  <2>2. n # 0
        BY <1>3, <2>1 DEF ToSet
  <2>3. P = {order[i] : i \in 1..n}
        BY <2>1 DEF ToSet
  <2>4. IsFiniteSet(P)
    <3> DEFINE vin == [p \in Payers(ins) |-> VinOf(ins, p)]
    <3>1. \A p \in Payers(ins) : vin[p] = VinOf(ins, p)
          OBVIOUS
    <3> HIDE DEF vin
    <3> QED
        BY <3>1, VinsAddUp DEF P
  <2> QED
      BY <1>2, <2>1, <2>2, <2>3, <2>4 DEF Listed
<1>5. vins \in [1..n -> Nat]
      BY <1>4, VinType
<1> HIDE DEF vins
<1>6. ASSUME NEW shares, \A i \in 1..n : shares[i] \in Int, SumFunctionOnSet(shares, 1..n) = E
      PROVE  SumFunction(ByPayer(order, shares)) = E
      BY <1>2, <1>4, <1>6, ByPayerSum
<1>7. CASE n = 1 \/ E = 0
  <2> DEFINE s == [p \in P |-> E]
  <2>1. PayerSendOut(ins, to, outs) = [p \in ToSet(order) |-> E]
        BY <1>7 DEF PayerSendOut, order, E
  <2>2. PayerSendOut(ins, to, outs) = s
        BY <1>4, <2>1
  <2>3. SumFunctionOnSet(s, P) = E
    <3>1. CASE E = 0
      <4>1. \A p \in P : s[p] = 0
            BY <3>1
      <4> HIDE DEF s
      <4> QED
          BY <1>4, <3>1, <4>1, SumZero
    <3>2. CASE n = 1
      <4>1. P = {order[1]}
            BY <1>4, <3>2
      <4>2. s[order[1]] = E
            BY <4>1
      <4> HIDE DEF s
      <4>3. SumFunctionOnSet(s, {order[1]}) = E
        <5> DEFINE p == order[1]
        <5>1. s[p] \in Int /\ s[p] = E
              BY <1>1, <4>2
        <5> HIDE DEF p, s
        <5>2. SumFunctionOnSet(s, {p}) = s[p]
              BY <5>1, SumOne
        <5> QED
            BY <5>1, <5>2 DEF p
      <4> QED
          BY <4>1, <4>3
    <3> QED
        BY <1>7, <3>1, <3>2
  <2>4. SumFunction(s) = SumFunctionOnSet(s, P)
        BY SumFunctionIs
  <2> QED
      BY <2>2, <2>3, <2>4 DEF E
<1>8. CASE n # 1 /\ E # 0
  <2>1. PayerSendOut(ins, to, outs) = AssignPayable(order, vins, gross, E)
        BY <1>8 DEF PayerSendOut, order, E, vins
  <2>2. CASE E <= SumFunction(vins) /\ OneFunds(greedy)
    <3>1. AssignPayable(order, vins, gross, E) = ByPayer(order, greedy)
          BY <2>2 DEF AssignPayable
    <3>2. greedy \in [1..n -> Nat]
          BY <1>1, <1>4, <1>5, GreedyType
    <3>3. SumFunction(vins) = SumFunctionOnSet(vins, 1..n)
          BY <1>5, SumFunctionIs
    <3>4. SumFunctionOnSet(greedy, 1..n) = E
          BY <1>1, <1>4, <1>5, <2>2, <3>3, GreedyAddsUp
    <3> HIDE DEF greedy
    <3>5. SumFunction(ByPayer(order, greedy)) = E
          BY <1>6, <3>2, <3>4
    <3> QED
        BY <2>1, <3>1, <3>5 DEF E
  <2>3. CASE ~(E <= SumFunction(vins) /\ OneFunds(greedy))
    <3>1. PayerSendOut(ins, to, outs) = PayableFromGross(order, gross, E)
          BY <2>1, <2>3 DEF AssignPayable
    <3>2. /\ PayableFromGross(order, gross, E) = ByPayer(order, parts)
          /\ \A i \in DOMAIN gross : gross[i] >= 0
          /\ E <= SumFunction(gross)
          BY <3>1 DEF PayableFromGross
    <3>3. \A i \in 1..n : At(outs, order[i]) \in Nat
          BY DEF IsAmounts, At
    <3>4. DOMAIN gross = 1..n /\ Len(gross) = n
          BY <1>4
    <3>5. \A i \in 1..n : gross[i] \in Nat
      <4> SUFFICES ASSUME NEW i \in 1..n PROVE gross[i] \in Nat
          OBVIOUS
      <4>1. gross[i] >= 0 /\ gross[i] = vins[i] - At(outs, order[i]) /\ vins[i] \in Nat
            BY <1>4, <1>5, <3>2, <3>4
      <4> QED
          BY <3>3, <4>1
    <3> HIDE DEF gross
    <3>6. E \in Nat \ {0}
          BY <1>1, <1>8
    <3>7. \A i \in 1..n : parts[i] \in Int
          BY <1>4, <3>2, <3>4, <3>5, <3>6, ProportionalType
    <3>8. SumFunctionOnSet(parts, 1..n) = E
          BY <1>4, <3>2, <3>4, <3>5, <3>6, ProportionalAddsUp
    <3> HIDE DEF parts
    <3>9. SumFunction(ByPayer(order, parts)) = E
          BY <1>6, <3>7, <3>8
    <3> QED
        BY <3>1, <3>2, <3>9 DEF E
  <2> QED
      BY <2>2, <2>3
<1> QED
    BY <1>7, <1>8

-----------------------------------------------------------------------------
(* The transactions the decoder builds.                                    *)

(* The outputs are the payment and, if there is any, one change to an      *)
(* address of A; what is not in the outputs is the fee.                    *)
IsPositive(f) == IsFiniteSet(DOMAIN f) /\ \A a \in DOMAIN f : f[a] \in Nat \ {0}

Balanced(tx, A) ==
  /\ IsCoins(tx.ins) /\ IsPositive(tx.to) /\ tx.fee \in Nat
  /\ \/ tx.outs = tx.to
     \/ \E a \in A, c \in Nat \ {0} : tx.outs = AppendOutput(tx.to, a, c)
  /\ Total(tx.ins) = SumFunction(tx.outs) + tx.fee
  /\ tx.sendOut = PayerSendOut(tx.ins, tx.to, tx.outs)

LEMMA PositiveAmounts ==
  ASSUME NEW f, IsPositive(f)
  PROVE  IsAmounts(f) /\ SumFunction(f) \in Nat /\ (DOMAIN f # {} => SumFunction(f) > 0)
<1>1. IsAmounts(f)
      BY DEF IsPositive, IsAmounts
<1>2. SumFunction(f) \in Nat
      BY <1>1, AmountsSum
<1>3. ASSUME NEW a \in DOMAIN f PROVE SumFunction(f) > 0
  <2> DEFINE S == DOMAIN f
             T == {a}
  <2>1. IsFiniteSet(S) /\ T \subseteq S /\ (\A x \in S : f[x] \in Nat) /\ f[a] > 0
        BY DEF IsPositive
  <2>2. SumFunctionOnSet(f, T) <= SumFunctionOnSet(f, S)
    <3> HIDE DEF S, T
    <3> QED
        BY <2>1, SumPart
  <2>3. SumFunctionOnSet(f, T) = f[a]
    <3>1. f[a] \in Int
          BY <2>1
    <3> QED
        BY <3>1, SumOne
  <2>4. SumFunction(f) = SumFunctionOnSet(f, S)
        BY SumFunctionIs
  <2>5. f[a] \in Nat
        BY <2>1
  <2> QED
      BY <1>2, <2>1, <2>2, <2>3, <2>4, <2>5
<1> QED
    BY <1>1, <1>2, <1>3

LEMMA BalancedOutputs ==
  ASSUME NEW tx, NEW A, Balanced(tx, A)
  PROVE  /\ IsPositive(tx.outs) /\ DOMAIN tx.to \subseteq DOMAIN tx.outs
         /\ DOMAIN tx.outs \subseteq DOMAIN tx.to \cup A
<1>1. IsPositive(tx.to) /\ IsAmounts(tx.to)
      BY PositiveAmounts DEF Balanced
<1>2. CASE tx.outs = tx.to
      BY <1>1, <1>2
<1>3. CASE \E a \in A, c \in Nat \ {0} : tx.outs = AppendOutput(tx.to, a, c)
  <2>1. PICK a \in A, c \in Nat \ {0} : tx.outs = AppendOutput(tx.to, a, c)
        BY <1>3
  <2> DEFINE to == tx.to
             outs == tx.outs
  <2>5. IsAmounts(to) /\ c \in Nat /\ outs = AppendOutput(to, a, c)
        BY <1>1, <2>1
  <2> HIDE DEF to, outs
  <2>2. /\ IsAmounts(outs) /\ DOMAIN outs = DOMAIN to \cup {a}
        /\ outs[a] = At(to, a) + c
        /\ \A x \in DOMAIN outs : x # a => x \in DOMAIN to /\ outs[x] = to[x]
    <3>1. IsAmounts(outs) /\ DOMAIN outs = DOMAIN to \cup {a}
          BY <2>5, AppendFacts
    <3>2. /\ outs[a] = At(to, a) + c
          /\ \A x \in DOMAIN outs : x # a => x \in DOMAIN to /\ outs[x] = to[x]
          BY <2>5, AppendValues
    <3> QED
        BY <3>1, <3>2
  <2>3. At(to, a) \in Nat
        BY <1>1 DEF IsAmounts, At, to
  <2>4. \A x \in DOMAIN outs : outs[x] \in Nat \ {0}
        BY <1>1, <2>2, <2>3 DEF IsPositive, to
  <2> QED
      BY <2>2, <2>4 DEF IsPositive, IsAmounts, to, outs
<1> QED
    BY <1>2, <1>3 DEF Balanced

(* The outputs of a payment with its change.                               *)
LEMMA WithChangeFacts ==
  ASSUME NEW ins, IsCoins(ins), NEW to, IsPositive(to), NEW A, NEW a \in A,
         NEW change \in Nat, NEW fee \in Nat,
         Total(ins) = SumFunction(to) + fee + change
  PROVE  Balanced(RawTx(ins, to, WithChange(to, a, change), fee), A)
<1> DEFINE outs == WithChange(to, a, change)
           tx == RawTx(ins, to, outs, fee)
<1>1. IsAmounts(to) /\ SumFunction(to) \in Nat
      BY PositiveAmounts
<1>2. /\ tx.ins = ins /\ tx.to = to /\ tx.outs = outs /\ tx.fee = fee
      /\ tx.sendOut = PayerSendOut(ins, to, outs)
      BY DEF RawTx
<1>3. CASE change = 0
  <2>1. outs = to
        BY <1>3 DEF WithChange
  <2>2. Total(ins) = SumFunction(outs) + fee
        BY <1>1, <1>3, <2>1
  <2> HIDE DEF outs, tx
  <2>3. Balanced(tx, A)
        BY <1>2, <2>1, <2>2 DEF Balanced
  <2> QED
      BY <2>3 DEF tx, outs
<1>4. CASE change # 0
  <2>1. change \in Nat \ {0} /\ outs = AppendOutput(to, a, change)
        BY <1>4 DEF WithChange
  <2> HIDE DEF outs, tx
  <2>5. change \in Nat /\ outs = AppendOutput(to, a, change) /\ IsAmounts(to)
        BY <1>1, <2>1
  <2>2. SumFunction(outs) = SumFunction(to) + change
        BY ONLY <2>5, AppendFacts
  <2>3. Total(ins) = SumFunction(outs) + fee
        BY <1>1, <2>2
  <2>4. Balanced(tx, A)
        BY <1>2, <2>1, <2>3 DEF Balanced
  <2> QED
      BY <2>4 DEF tx, outs
<1> QED
    BY <1>3, <1>4

-----------------------------------------------------------------------------
(* createRBFTransfer.                                                      *)

LEMMA RBFFeeFacts ==
  ASSUME NEW paid \in Nat, NEW n \in Nat, NEW m \in Nat, NEW rate \in Nat
  PROVE  /\ RBFFee(paid, n, m, rate) \in Nat
         /\ paid = 0 => RBFFee(paid, n, m, rate) = EstimateFee(n, m, rate)
         /\ paid # 0 =>
              /\ \/ RBFFee(paid, n, m, rate) = EstimateFee(n, m, rate)
                 \/ RBFFee(paid, n, m, rate) = paid + EstimateTxVsize(n, m)
              /\ RBFFee(paid, n, m, rate) >= EstimateFee(n, m, rate)
              /\ RBFFee(paid, n, m, rate) >= paid + EstimateTxVsize(n, m)
<1> DEFINE e == EstimateFee(n, m, rate)
           v == EstimateTxVsize(n, m)
           x == paid + v
           r == RBFFee(paid, n, m, rate)
<1>1. e \in Nat
      BY FeeType
<1>2. v \in Nat
      BY VsizeType
<1>3. r = IF paid = 0 THEN e ELSE Max({e, x})
      BY DEF RBFFee, EnforceRBFMinimumFee
<1> HIDE DEF e, r
<1>4. x \in Nat
      BY <1>2
<1> HIDE DEF v, x
<1>5. /\ Max({e, x}) = e \/ Max({e, x}) = x
      /\ Max({e, x}) >= e /\ Max({e, x}) >= x
      BY <1>1, <1>4, MaxOfTwo
<1>6. /\ r \in Nat /\ (paid = 0 => r = e)
      /\ paid # 0 => (r = e \/ r = x) /\ r >= e /\ r >= x
      BY <1>1, <1>3, <1>4, <1>5
<1> QED
    BY <1>6 DEF e, r, v, x

(* One more output costs at most its marginal fee.                         *)
LEMMA MarginalFee ==
  ASSUME NEW n \in Nat, NEW m \in Nat, NEW rate \in Nat
  PROVE  /\ EstimateMarginalOutputFee(rate) \in Nat
         /\ EstimateFee(n, m + 1, rate) <= EstimateFee(n, m, rate) + EstimateMarginalOutputFee(rate)
<1> DEFINE v == EstimateTxVsize(n, m)
           p == v * rate
           q == 31 * rate
           r == (p + 500) \div 1000
           s == (p + q + 500) \div 1000
           d == (q + 999) \div 1000
<1>1. v \in Nat /\ EstimateTxVsize(n, m + 1) = v + 31
      BY VsizeType DEF EstimateTxVsize
<1>2. (v + 31) * rate = p + q /\ p \in Nat /\ q \in Nat
  <2> HIDE DEF v
  <2> QED
      BY <1>1
<1>3. EstimateTxVsize(n, m + 1) * rate = p + q
      BY <1>1, <1>2
<1>10. EstimateFee(n, m, rate) = Max({MinFees, r})
       BY Zenon DEF EstimateFee
<1>11. EstimateFee(n, m + 1, rate) = Max({MinFees, s})
  <2>1. EstimateFee(n, m + 1, rate)
          = Max({MinFees, (EstimateTxVsize(n, m + 1) * rate + 500) \div 1000})
        BY Zenon DEF EstimateFee
  <2> DEFINE w == EstimateTxVsize(n, m + 1) * rate
             z == p + q
  <2>2. w = z
        BY <1>3
  <2>3. EstimateFee(n, m + 1, rate) = Max({MinFees, (w + 500) \div 1000})
        BY <2>1
  <2> HIDE DEF w, z
  <2>4. EstimateFee(n, m + 1, rate) = Max({MinFees, (z + 500) \div 1000})
        BY <2>2, <2>3
  <2> QED
      BY <2>4 DEF z
<1>12. EstimateMarginalOutputFee(rate) = d
       BY Zenon DEF EstimateMarginalOutputFee
<1>4. /\ EstimateFee(n, m, rate) = Max({MinFees, r})
      /\ EstimateFee(n, m + 1, rate) = Max({MinFees, s})
      /\ EstimateMarginalOutputFee(rate) = d
  <2> HIDE DEF r, s, d
  <2> QED
      BY <1>10, <1>11, <1>12, Zenon
<1> HIDE DEF p, q
<1>5. r \in Nat /\ s \in Nat /\ d \in Nat /\ r <= s /\ s <= r + d
      BY <1>2
<1> HIDE DEF r, s, d
<1>6. MinFees \in Nat
      BY FeesAssumption
<1> DEFINE less == Max({MinFees, r})
           more == Max({MinFees, s})
<1>7. (less = MinFees \/ less = r) /\ less >= MinFees /\ less >= r
      BY <1>5, <1>6, MaxOfTwo
<1>8. more = MinFees \/ more = s
  <2>1. s \in Int /\ MinFees \in Int
        BY <1>5, <1>6
  <2> QED
      BY <2>1, MaxOfTwo
<1> HIDE DEF less, more
<1>9. more <= less + d
      BY <1>5, <1>6, <1>7, <1>8
<1> QED
    BY <1>4, <1>5, <1>9 DEF less, more

Size(tx) == EstimateTxVsize(Len(tx.ins), Cardinality(DOMAIN tx.outs))

LEMMA ChangeAddrIsOfAccount ==
  ASSUME NEW C, NEW ins \in Seq(C), ins # <<>>, NEW A, Payers(ins) \subseteq A,
         NEW pinned, pinned \in A \/ pinned = NoAddress
  PROVE  ResolveRBFChangeAddress(ins, pinned) \in A
<1>1. 1 \in DOMAIN ins /\ Head(ins) = ins[1]
      OBVIOUS
<1>2. Head(ins).addr \in A
      BY <1>1 DEF Payers
<1> QED
    BY <1>2 DEF ResolveRBFChangeAddress

LEMMA SpeedUpFacts ==
  ASSUME NEW C, NEW ins \in Seq(C), ins # <<>>, IsCoins(ins), NEW to, IsPositive(to),
         NEW A, Payers(ins) \subseteq A, NEW pinned, pinned \in A \/ pinned = NoAddress,
         NEW rate \in Nat, NEW paid \in Nat,
         NEW made \in SpeedUpOf(ins, to, rate, pinned, paid)
  PROVE  Balanced(made, A) /\ made.ins = ins /\ made.to = to
<1> DEFINE outputs == Cardinality(DOMAIN to)
           surplus == Total(ins) - SumFunction(to)
           withChange == RBFFee(paid, Len(ins), outputs + 1, rate)
           without == RBFFee(paid, Len(ins), outputs, rate)
           fee == IF surplus >= withChange THEN withChange ELSE without
           policy == ChangePolicy(surplus, fee, rate)
           a == ResolveRBFChangeAddress(ins, pinned)
<1>1. Len(ins) \in Nat /\ outputs \in Nat /\ outputs + 1 \in Nat
      BY FS_CardinalityType DEF IsPositive
<1>2. withChange \in Nat /\ without \in Nat
  <2> HIDE DEF outputs
  <2> QED
      BY <1>1, RBFFeeFacts
<1>3. Total(ins) \in Nat /\ SumFunction(to) \in Nat
      BY TotalType, PositiveAmounts
<1>4. /\ ~(surplus < fee)
      /\ made = RawTx(ins, to, WithChange(to, a, policy.change), policy.fee)
      BY DEF SpeedUpOf
<1>5. a \in A
      BY ChangeAddrIsOfAccount
<1> HIDE DEF withChange, without, a
<1>6. surplus \in Int /\ fee \in Nat /\ surplus >= fee
      BY <1>2, <1>3, <1>4
<1>7. surplus = Total(ins) - SumFunction(to)
      OBVIOUS
<1> HIDE DEF surplus, fee
<1>8. policy.fee \in Nat /\ policy.change \in Nat /\ policy.fee + policy.change = surplus
      BY <1>6, ChangePolicyFacts
<1> HIDE DEF policy
<1>9. Total(ins) = SumFunction(to) + policy.fee + policy.change
  <2> DEFINE t == Total(ins)
             u == SumFunction(to)
             x == policy.fee
             y == policy.change
  <2>1. t \in Nat /\ u \in Nat /\ x \in Nat /\ y \in Nat /\ x + y = t - u
        BY <1>3, <1>7, <1>8
  <2> HIDE DEF t, u, x, y
  <2>2. t = u + x + y
        BY <2>1
  <2> QED
      BY <2>2 DEF t, u, x, y
<1>10. Balanced(made, A)
       BY <1>4, <1>5, <1>8, <1>9, WithChangeFacts
<1> QED
    BY <1>4, <1>10 DEF RawTx

(* A replacement pays for its origin and for its own relay, even where it  *)
(* cannot afford a change output: what is left then is dust.               *)
LEMMA SpeedUpPays ==
  ASSUME NEW C, NEW ins \in Seq(C), ins # <<>>, IsCoins(ins), NEW to, IsPositive(to),
         NEW pinned, NEW rate \in Nat, NEW paid \in Nat \ {0},
         NEW made \in SpeedUpOf(ins, to, rate, pinned, paid),
         OmitChangeBelowDust, DustLimit >= 31
  PROVE  made.fee >= paid + Size(made)
<1> DEFINE n == Len(ins)
           outputs == Cardinality(DOMAIN to)
           surplus == Total(ins) - SumFunction(to)
           withChange == RBFFee(paid, n, outputs + 1, rate)
           without == RBFFee(paid, n, outputs, rate)
           fee == IF surplus >= withChange THEN withChange ELSE without
           policy == ChangePolicy(surplus, fee, rate)
           a == ResolveRBFChangeAddress(ins, pinned)
           outs == WithChange(to, a, policy.change)
           v == EstimateTxVsize(n, outputs)
           w == EstimateTxVsize(n, outputs + 1)
           e == EstimateFee(n, outputs, rate)
           f == EstimateFee(n, outputs + 1, rate)
           g == EstimateMarginalOutputFee(rate)
<1>1. n \in Nat /\ outputs \in Nat /\ outputs + 1 \in Nat /\ IsFiniteSet(DOMAIN to)
      BY FS_CardinalityType DEF IsPositive
<1>2. Total(ins) \in Nat /\ SumFunction(to) \in Nat
      BY TotalType, PositiveAmounts
<1>3. /\ ~(surplus < fee)
      /\ made = RawTx(ins, to, outs, policy.fee)
      BY DEF SpeedUpOf
<1>4. made.ins = ins /\ made.outs = outs /\ made.fee = policy.fee
      BY <1>3 DEF RawTx
<1>5. Size(made) = EstimateTxVsize(n, Cardinality(DOMAIN outs))
      BY <1>4 DEF Size
<1>6. policy.change = 0 => Cardinality(DOMAIN outs) = outputs
      BY DEF WithChange
<1>7. Cardinality(DOMAIN outs) = outputs \/ Cardinality(DOMAIN outs) = outputs + 1
  <2>1. DOMAIN outs = DOMAIN to \/ DOMAIN outs = DOMAIN to \cup {a}
        BY DEF WithChange, AppendOutput
  <2> HIDE DEF a, outs
  <2>2. \/ Cardinality(DOMAIN to \cup {a}) = outputs
        \/ Cardinality(DOMAIN to \cup {a}) = outputs + 1
        BY <1>1, FS_AddElement
  <2> QED
      BY <2>1, <2>2
<1> HIDE DEF outs
<1>8. v \in Nat /\ w = v + 31
      BY <1>1, VsizeType DEF EstimateTxVsize
<1>9. Size(made) = v \/ Size(made) = w
      BY <1>5, <1>7
<1>10. policy.change = 0 => Size(made) = v
       BY <1>5, <1>6
<1>11. e \in Nat /\ f \in Nat /\ g \in Nat /\ f <= e + g
  <2> HIDE DEF outputs, n
  <2> QED
      BY <1>1, FeeType, MarginalFee
<1>12. /\ withChange \in Nat /\ without \in Nat
       /\ withChange >= f /\ withChange >= paid + w /\ (withChange = f \/ withChange = paid + w)
       /\ without >= e /\ without >= paid + v
  <2> DEFINE more == outputs + 1
  <2>1. more \in Nat /\ paid \in Nat /\ paid # 0
        BY <1>1
  <2> HIDE DEF outputs, n, more
  <2>2. /\ RBFFee(paid, n, more, rate) \in Nat
        /\ RBFFee(paid, n, more, rate) >= EstimateFee(n, more, rate)
        /\ RBFFee(paid, n, more, rate) >= paid + EstimateTxVsize(n, more)
        BY <1>1, <2>1, RBFFeeFacts
  <2>4. \/ RBFFee(paid, n, more, rate) = EstimateFee(n, more, rate)
        \/ RBFFee(paid, n, more, rate) = paid + EstimateTxVsize(n, more)
        BY <1>1, <2>1, RBFFeeFacts
  <2>3. /\ RBFFee(paid, n, outputs, rate) \in Nat
        /\ RBFFee(paid, n, outputs, rate) >= EstimateFee(n, outputs, rate)
        /\ RBFFee(paid, n, outputs, rate) >= paid + EstimateTxVsize(n, outputs)
        BY <1>1, <2>1, RBFFeeFacts
  <2> QED
      BY <2>2, <2>3, <2>4 DEF more
<1>13. surplus \in Int
       BY <1>2
<1>14. fee = IF surplus >= withChange THEN withChange ELSE without
       OBVIOUS
<1>15. policy = IF surplus > fee /\ (surplus - fee < DustLimit \/ surplus - fee - g < DustLimit)
                  THEN [fee |-> surplus, change |-> 0]
                  ELSE [fee |-> fee, change |-> surplus - fee]
       BY DEF ChangePolicy, ShouldDonate
<1> HIDE DEF v, w, e, f, g, withChange, without, surplus, policy, fee
<1>16. fee \in Nat /\ surplus >= fee
       BY <1>3, <1>12, <1>13, <1>14
<1>17. policy.fee \in Int /\ policy.fee >= fee
       BY <1>13, <1>15, <1>16
<1>18. CASE surplus >= withChange
  <2>1. policy.fee >= paid + w
        BY <1>12, <1>14, <1>17, <1>18, <1>8
  <2> QED
      BY <1>4, <1>8, <1>9, <1>17, <2>1
<1>19. CASE ~(surplus >= withChange)
  <2>1. fee = without /\ surplus < withChange
        BY <1>12, <1>13, <1>14, <1>19
  <2>2. surplus > fee => surplus - fee < DustLimit \/ surplus - fee - g < DustLimit
        BY <1>8, <1>11, <1>12, <1>13, <1>16, <2>1, DustAssumption
  <2>3. policy.change = 0
        BY <1>13, <1>15, <1>16, <2>2
  <2>4. Size(made) = v /\ policy.fee >= paid + v
        BY <1>8, <1>10, <1>12, <1>17, <2>1, <2>3
  <2> QED
      BY <1>4, <2>4
<1> QED
    BY <1>18, <1>19

LEMMA CancelFacts ==
  ASSUME NEW C, NEW ins \in Seq(C), ins # <<>>, IsCoins(ins),
         NEW A, Payers(ins) \subseteq A, NEW pinned, pinned \in A \/ pinned = NoAddress,
         NEW rate \in Nat, NEW paid \in Nat,
         NEW made \in CancelOf(ins, rate, pinned, paid)
  PROVE  /\ Balanced(made, A) /\ made.ins = ins /\ made.to = [a \in {} |-> 0]
         /\ Cardinality(DOMAIN made.outs) = 1
         /\ paid # 0 => made.fee >= paid + Size(made)
<1> DEFINE fee == RBFFee(paid, Len(ins), 1, rate)
           nothing == [a \in {} |-> 0]
           b == ResolveRBFChangeAddress(ins, pinned)
           c == Total(ins) - fee
           outs == AppendOutput(nothing, b, c)
<1>1. Len(ins) \in Nat /\ 1 \in Nat
      OBVIOUS
<1>2. fee \in Nat /\ (paid # 0 => fee >= paid + EstimateTxVsize(Len(ins), 1))
      BY <1>1, RBFFeeFacts
<1>3. Total(ins) \in Nat
      BY TotalType
<1>4. ~(Total(ins) <= fee) /\ made = RawTx(ins, nothing, outs, fee)
      BY DEF CancelOf
<1>5. b \in A
      BY ChangeAddrIsOfAccount
<1> HIDE DEF fee, b
<1>6. c \in Nat /\ c # 0 /\ Total(ins) = fee + c
      BY <1>2, <1>3, <1>4
<1>7. IsPositive(nothing) /\ SumFunction(nothing) = 0 /\ DOMAIN nothing = {}
  <2>1. DOMAIN nothing = {}
        OBVIOUS
  <2>2. SumFunction(nothing) = SumFunctionOnSet(nothing, {})
        BY <2>1, SumFunctionIs
  <2> HIDE DEF nothing
  <2> QED
      BY <2>1, <2>2, SumEmpty, FS_EmptySet DEF IsPositive
<1>8. DOMAIN outs = {b}
      BY DEF AppendOutput
<1> HIDE DEF c
<1>9. outs = WithChange(nothing, b, c)
      BY <1>6 DEF WithChange
<1> HIDE DEF nothing, outs
<1>10. Total(ins) = SumFunction(nothing) + fee + c
       BY <1>2, <1>3, <1>6, <1>7
<1>11. Balanced(made, A)
       BY <1>2, <1>4, <1>5, <1>6, <1>7, <1>9, <1>10, WithChangeFacts
<1>12. made.ins = ins /\ made.to = nothing /\ made.outs = outs /\ made.fee = fee
       BY <1>4 DEF RawTx
<1>13. Cardinality(DOMAIN made.outs) = 1
       BY <1>8, <1>12, FS_Singleton
<1>14. Size(made) = EstimateTxVsize(Len(ins), 1)
       BY <1>12, <1>13 DEF Size
<1> QED
    BY <1>2, <1>11, <1>12, <1>13, <1>14 DEF nothing

-----------------------------------------------------------------------------
(* createBTCTransfer.                                                      *)

(* The first k of the coins q, which are in C.                             *)
TakenFrom(ins, q, k, C) ==
  /\ ins \in Seq(C) /\ Len(ins) = k /\ IsCoins(ins)
  /\ \A i \in 1..k : i \in DOMAIN q /\ ins[i] = q[i]
  /\ Payers(ins) \subseteq Payers(q)
  /\ Total(ins) = Funds(q, k)

LEMMA PrefixFacts ==
  ASSUME NEW C, NEW q \in Seq(C), IsCoins(q), NEW k \in 0..Len(q),
         NEW ins, ins = SubSeq(q, 1, k)
  PROVE  TakenFrom(ins, q, k, C)
<1>1. k \in Nat /\ Len(q) \in Nat /\ DOMAIN q = 1..Len(q)
      OBVIOUS
<1>2. /\ ins \in Seq(C) /\ Len(ins) = k /\ DOMAIN ins = 1..k
      /\ \A i \in 1..k : i \in DOMAIN q /\ ins[i] = q[i]
      BY <1>1
<1>3. IsCoins(ins)
      BY <1>1, <1>2 DEF IsCoins
<1>4. Payers(ins) \subseteq Payers(q)
      BY <1>2 DEF Payers
<1>5. Total(ins) = SumFunctionOnSet(Amounts(ins), 1..k)
  <2>1. DOMAIN Amounts(ins) = 1..k
        BY <1>2 DEF Amounts
  <2> QED
      BY <2>1, SumFunctionIs DEF Total
<1>6. SumFunctionOnSet(Amounts(ins), 1..k) = SumFunctionOnSet(Amounts(q), 1..k)
  <2> DEFINE K == 1..k
  <2>1. IsFiniteSet(K)
    <3>1. 1 \in Int /\ k \in Int
          BY <1>1
    <3> QED
        BY <3>1, FS_Interval
  <2>2. \A i \in K : Amounts(ins)[i] = Amounts(q)[i]
        BY <1>2 DEF Amounts
  <2>3. SumFunctionOnSet(Amounts(ins), K) = SumFunctionOnSet(Amounts(q), K)
    <3> HIDE DEF K
    <3> QED
        BY <2>1, <2>2, SumEqual
  <2> QED
      BY <2>3
<1> QED
    BY <1>2, <1>3, <1>4, <1>5, <1>6 DEF Funds, TakenFrom

LEMMA VinAtLeast ==
  ASSUME NEW ins, IsCoins(ins), NEW i \in DOMAIN ins
  PROVE  ins[i].amount <= VinOf(ins, ins[i].addr)
<1> DEFINE f == Amounts(ins)
           S == {j \in DOMAIN ins : ins[j].addr = ins[i].addr}
           T == {i}
<1>5. Len(ins) \in Nat /\ DOMAIN ins = 1..Len(ins) /\ \A j \in DOMAIN ins : ins[j].amount \in Nat
      BY DEF IsCoins
<1>6. IsFiniteSet(1..Len(ins))
  <2>1. 1 \in Int /\ Len(ins) \in Int
        BY <1>5
  <2> QED
      BY <2>1, FS_Interval
<1>1. /\ IsFiniteSet(1..Len(ins)) /\ S \in SUBSET (1..Len(ins)) /\ T \subseteq S
      /\ (\A j \in S : f[j] \in Nat) /\ f[i] = ins[i].amount /\ f[i] \in Int
      BY <1>5, <1>6 DEF Amounts
<1>2. SumFunctionOnSet(f, {i}) = f[i]
  <2> HIDE DEF f
  <2> QED
      BY <1>1, SumOne
<1>3. SumFunctionOnSet(f, T) <= SumFunctionOnSet(f, S)
  <2> HIDE DEF f, S, T
  <2>1. IsFiniteSet(S)
        BY <1>1, FS_Subset
  <2> QED
      BY <1>1, <2>1, SumPart
<1>4. VinOf(ins, ins[i].addr) = SumFunctionOnSet(f, S)
      BY DEF VinOf
<1> QED
    BY <1>1, <1>2, <1>3, <1>4

(* The coins that are taken pay for everything, and would not without the  *)
(* last of them.                                                           *)
LEMMA SettledFacts ==
  ASSUME NEW q, IsCoins(q), NEW send \in Nat \ {0}, NEW slots \in Nat, NEW rate \in Nat,
         NEW k \in 1..Len(q), k = SettledCount(q, send, slots, rate)
  PROVE  /\ Funds(q, k) >= send + EstimateFee(k, slots, rate)
         /\ Funds(q, k) - send - EstimateFee(k, slots, rate) < q[k].amount
<1> DEFINE T == Paying(q, send, slots, rate, 1)
           F(j) == Funds(q, j)
           N(j) == Need(send, slots, rate, j)
           E(j) == EstimateFee(j, slots, rate)
<1>1. Len(q) \in Nat /\ k \in Nat /\ k # 0 /\ k - 1 \in 0..Len(q) /\ k \in 0..Len(q)
      BY DEF IsCoins
<1>2. k = First(T)
      BY SettledIsShortest
<1>3. T \subseteq Nat \ {0}
      BY <1>1 DEF Paying
<1>4. k \in T /\ \A j \in T : k <= j
  <2> HIDE DEF T
  <2>1. T # {}
        BY <1>1, <1>2 DEF First
  <2>2. First(T) \in T /\ \A j \in T : First(T) <= j
        BY <1>3, <2>1, FirstFacts
  <2> QED
      BY <1>2, <2>2
<1>5. F(k) >= N(k)
      BY <1>4 DEF Paying
<1>6. k = 1 \/ ~(F(k - 1) >= N(k - 1))
  <2> SUFFICES ASSUME k # 1, F(k - 1) >= N(k - 1) PROVE FALSE
      OBVIOUS
  <2>1. k - 1 \in 1..Len(q)
        BY <1>1
  <2>2. k - 1 \in T
        BY <2>1 DEF Paying
  <2> QED
      BY <1>1, <1>4, <2>2
<1> HIDE DEF T
<1>7. \A j \in 0..Len(q) : F(j) \in Nat /\ E(j) \in Nat /\ N(j) = send + E(j)
      BY NeedType
<1>8. F(k) = F(k - 1) + q[k].amount
      BY FundsFacts
<1>9. F(0) = 0
  <2>1. 1..0 = {}
        OBVIOUS
  <2> QED
      BY <2>1, SumEmpty DEF Funds
<1>10. E(k - 1) <= E(k)
  <2>1. k - 1 \in Nat /\ k - 1 <= k
        BY <1>1
  <2> QED
      BY <1>1, <2>1, FeeMonotone
<1>11. q[k].amount \in Nat
       BY <1>1 DEF IsCoins
<1> HIDE DEF N
<1> DEFINE x == F(k)
           y == F(k - 1)
           e == E(k)
           d == E(k - 1)
           c == q[k].amount
<1>12. /\ x \in Nat /\ y \in Nat /\ e \in Nat /\ d \in Nat /\ c \in Nat
       /\ N(k) = send + e /\ N(k - 1) = send + d
       BY <1>1, <1>7, <1>11
<1>13. x = y + c /\ d <= e /\ x >= send + e
       BY <1>5, <1>8, <1>10, <1>12
<1>14. k = 1 => y = 0
       BY <1>9
<1>15. k # 1 => ~(y >= send + d)
       BY <1>6, <1>12
<1> HIDE DEF x, y, e, d, c
<1>16. x - send - e < c
       BY <1>12, <1>13, <1>14, <1>15
<1> QED
    BY <1>13, <1>16 DEF x, e, c

Fits(tx) ==
  \A p \in Payers(tx.ins) \ DOMAIN tx.to : At(tx.outs, p) < VinOf(tx.ins, p)

PositiveCoins(q) == IsCoins(q) /\ \A i \in DOMAIN q : q[i].amount > 0

(* Nobody but the owner of the last coin gets more than the payment.       *)
ReturnsToLast(tx) ==
  \A a \in DOMAIN tx.outs \ {ChangePayer(tx.ins)} : At(tx.outs, a) = At(tx.to, a)

(* A payment `to` by the coins `ins` whose change fits who gets it.        *)
PaysFrom(tx, ins, to, A) ==
  /\ Balanced(tx, A) /\ tx.ins = ins /\ tx.to = to
  /\ Fits(tx) /\ ReturnsToLast(tx)

LEMMA TransferOfFacts ==
  ASSUME NEW C, NEW q \in Seq(C), PositiveCoins(q),
         NEW to, IsPositive(to), DOMAIN to # {}, NEW rate \in Nat,
         NEW A, Payers(q) \subseteq A, NEW k \in 1..Len(q),
         k = SettledCount(q, SumFunction(to), Cardinality(DOMAIN to) + 1, rate),
         NEW ins, ins = SubSeq(q, 1, k), NEW made, made = TransferOf(ins, to, rate)
  PROVE  PaysFrom(made, ins, to, A)
<1> DEFINE slots == Cardinality(DOMAIN to) + 1
           send == SumFunction(to)
           fee == EstimateFee(Len(ins), slots, rate)
           surplus == Total(ins) - send
           policy == ChangePolicy(surplus, fee, rate)
           a == ChangePayer(ins)
           outs == WithChange(to, a, policy.change)
<1>18. IsCoins(q) /\ \A i \in DOMAIN q : q[i].amount > 0
       BY DEF PositiveCoins
<1>1. slots \in Nat /\ send \in Nat \ {0}
      BY FS_CardinalityType, PositiveAmounts DEF IsPositive
<1>2. k \in 0..Len(q) /\ k \in Nat /\ k # 0 /\ Len(q) \in Nat
      OBVIOUS
<1>3. /\ ins \in Seq(C) /\ Len(ins) = k /\ IsCoins(ins)
      /\ \A i \in 1..k : i \in DOMAIN q /\ ins[i] = q[i]
      /\ Payers(ins) \subseteq Payers(q)
      /\ Total(ins) = Funds(q, k)
  <2>1. TakenFrom(ins, q, k, C)
        BY <1>2, <1>18, PrefixFacts
  <2> QED
      BY <2>1 DEF TakenFrom
<1>4. made = RawTx(ins, to, outs, policy.fee)
      BY DEF TransferOf
<1>5. fee \in Nat /\ Total(ins) \in Nat
  <2> HIDE DEF slots
  <2> QED
      BY <1>1, <1>2, <1>3, FeeType, TotalType
<1>6. Total(ins) >= send + fee /\ Total(ins) - send - fee < q[k].amount
  <2> HIDE DEF slots, send
  <2>1. /\ Funds(q, k) >= send + EstimateFee(k, slots, rate)
        /\ Funds(q, k) - send - EstimateFee(k, slots, rate) < q[k].amount
        BY <1>1, <1>18, SettledFacts DEF slots, send
  <2>2. fee = EstimateFee(k, slots, rate) /\ Total(ins) = Funds(q, k)
        BY <1>3
  <2> HIDE DEF fee
  <2> QED
      BY ONLY <2>1, <2>2
<1>7. k \in DOMAIN ins /\ a = ins[k].addr /\ a \in Payers(ins) /\ a \in A
      BY <1>2, <1>3 DEF ChangePayer, Last, Payers
<1>8. surplus \in Int /\ surplus >= fee /\ surplus = Total(ins) - send
      BY <1>1, <1>5, <1>6
<1> HIDE DEF slots, send, fee, a, surplus
<1>9. policy.fee \in Nat /\ policy.change \in Nat /\ policy.fee + policy.change = surplus
      BY <1>5, <1>8, ChangePolicyFacts
<1>10. policy.change # 0 => policy.fee = fee
       BY <1>5, <1>8, ChangePolicyFacts
<1> HIDE DEF policy
<1>11. Total(ins) = send + policy.fee + policy.change
  <2> DEFINE x == policy.fee
             y == policy.change
  <2>1. x \in Nat /\ y \in Nat /\ x + y = surplus
        BY <1>9
  <2> HIDE DEF x, y
  <2> DEFINE all == Total(ins)
  <2>3. all \in Nat /\ surplus = all - send
        BY <1>5, <1>8
  <2> HIDE DEF all
  <2>4. all = send + x + y
        BY <1>1, <2>1, <2>3
  <2>2. Total(ins) = send + x + y
        BY <2>4 DEF all
  <2> QED
      BY <2>2 DEF x, y
<1>12. Balanced(made, A)
       BY <1>3, <1>4, <1>7, <1>9, <1>11, WithChangeFacts DEF send
<1>13. made.ins = ins /\ made.to = to /\ made.outs = outs
       BY <1>4 DEF RawTx
<1>14. ASSUME NEW i \in DOMAIN ins PROVE 0 < VinOf(ins, ins[i].addr)
  <2>1. ins[i].amount \in Nat /\ ins[i].amount > 0
        BY <1>2, <1>3, <1>18 DEF IsCoins
  <2>2. ins[i].amount <= VinOf(ins, ins[i].addr) /\ VinOf(ins, ins[i].addr) \in Nat
        BY <1>3, VinAtLeast, VinType
  <2> QED
      BY <2>1, <2>2
<1>15. policy.change < VinOf(ins, a)
  <2>1. ins[k].amount <= VinOf(ins, a) /\ VinOf(ins, a) \in Nat
        BY <1>3, <1>7, VinAtLeast, VinType
  <2>2. q[k].amount \in Nat /\ q[k].amount > 0 /\ q[k] = ins[k]
        BY <1>2, <1>3, <1>18 DEF IsCoins
  <2>3. policy.change < q[k].amount
    <3>1. CASE policy.change = 0
          BY <2>2, <3>1
    <3>2. CASE policy.change # 0
      <4> DEFINE all == Total(ins)
                 rest == policy.change
                 most == q[k].amount
      <4>1. all \in Nat /\ most \in Nat /\ rest \in Nat
            BY <1>5, <1>9, <2>2
      <4>2. all - send - fee < most
            BY <1>6
      <4>3. all = send + fee + rest
            BY <1>10, <1>11, <3>2
      <4>4. send \in Nat /\ fee \in Nat
            BY <1>1, <1>5
      <4> HIDE DEF all, rest, most
      <4>5. rest < most
            BY ONLY <4>1, <4>2, <4>3, <4>4
      <4> QED
          BY <4>5 DEF rest, most
    <3> QED
        BY <3>1, <3>2
  <2> QED
      BY <1>9, <2>1, <2>2, <2>3
<1>16. ASSUME NEW p \in Payers(ins) \ DOMAIN to
       PROVE  At(outs, p) < VinOf(ins, p)
  <2>1. PICK i \in DOMAIN ins : ins[i].addr = p
        BY DEF Payers
  <2>2. 0 < VinOf(ins, p)
        BY <1>14, <2>1
  <2>3. CASE policy.change = 0
    <3>1. outs = to
          BY <2>3 DEF WithChange
    <3> HIDE DEF outs
    <3> QED
        BY <2>2, <3>1 DEF At
  <2>4. CASE policy.change # 0
    <3>1. outs = AppendOutput(to, a, policy.change)
          BY <1>9, <2>4 DEF WithChange
    <3> HIDE DEF outs
    <3>2. /\ DOMAIN outs = DOMAIN to \cup {a}
          /\ \A x \in DOMAIN outs : outs[x] = At(to, x) + (IF x = a THEN policy.change ELSE 0)
          BY <3>1 DEF AppendOutput
    <3>3. At(to, p) = 0
          BY DEF At
    <3>4. CASE p = a
      <4>1. outs[p] = policy.change
            BY <1>9, <3>2, <3>3, <3>4
      <4> QED
          BY <1>15, <3>2, <3>4, <4>1 DEF At
    <3>5. CASE p # a
          BY <2>2, <3>2, <3>5 DEF At
    <3> QED
        BY <3>4, <3>5
  <2> QED
      BY <2>3, <2>4
<1>17. ASSUME NEW p \in DOMAIN outs \ {a} PROVE At(outs, p) = At(to, p)
  <2>1. CASE policy.change = 0
        BY <2>1 DEF WithChange
  <2>2. CASE policy.change # 0
    <3>1. outs = AppendOutput(to, a, policy.change)
          BY <1>9, <2>2 DEF WithChange
    <3> HIDE DEF outs
    <3>2. outs[p] = At(to, p) + 0
          BY <3>1 DEF AppendOutput
    <3>3. At(to, p) \in Int
          BY DEF At, IsPositive
    <3> QED
        BY <3>2, <3>3 DEF At
  <2> QED
      BY <2>1, <2>2
<1> HIDE DEF outs
<1>19. Fits(made)
       BY <1>13, <1>16 DEF Fits
<1>20. ReturnsToLast(made)
       BY <1>13, <1>17 DEF ReturnsToLast, a
<1> QED
    BY <1>12, <1>13, <1>19, <1>20 DEF PaysFrom

Distinct(s) == \A i, j \in DOMAIN s : s[i] = s[j] => i = j

(* The coins, the payment and the change of whatever createBTCTransfer     *)
(* returns.                                                                *)
LEMMA CreateBTCTransferFacts ==
  ASSUME NEW unspents, IsFiniteSet(unspents), NEW A,
         \A c \in unspents : c.amount \in Nat \ {0} /\ c.addr \in A,
         NEW to, IsPositive(to), DOMAIN to # {}, NEW rate \in Nat,
         NEW made \in CreateBTCTransfer(unspents, to, rate)
  PROVE  /\ Balanced(made, A) /\ made.to = to /\ Fits(made) /\ ReturnsToLast(made)
         /\ made.ins \in Seq(unspents) /\ made.ins # <<>> /\ Distinct(made.ins)
<1> DEFINE taken(q) == SettledCount(q, SumFunction(to), Cardinality(DOMAIN to) + 1, rate)
<1>1. PICK q \in AscendingOrders(unspents) :
        /\ taken(q) \in 1..MaxTxInputs
        /\ made = TransferOf(SubSeq(q, 1, taken(q)), to, rate)
      BY DEF CreateBTCTransfer
<1> DEFINE n == Cardinality(unspents)
           k == taken(q)
           ins == SubSeq(q, 1, k)
<1>2. n \in Nat
      BY FS_CardinalityType
<1>3. q \in [1..n -> unspents] /\ \A i, j \in 1..n : i # j => q[i] # q[j]
      BY DEF AscendingOrders, SetToSeqs
<1> HIDE DEF n
<1>4. q \in Seq(unspents) /\ Len(q) = n /\ DOMAIN q = 1..n
      BY <1>2, <1>3
<1>5. PositiveCoins(q) /\ IsCoins(q) /\ Payers(q) \subseteq A
      BY <1>2, <1>3, <1>4 DEF IsCoins, Payers, PositiveCoins
<1>6. k \in 1..Len(q)
  <2>1. SumFunction(to) \in Nat \ {0} /\ Cardinality(DOMAIN to) + 1 \in Nat
        BY FS_CardinalityType, PositiveAmounts DEF IsPositive
  <2> DEFINE send == SumFunction(to)
             slots == Cardinality(DOMAIN to) + 1
             T == Paying(q, send, slots, rate, 1)
  <2>2. send \in Nat /\ slots \in Nat
        BY <2>1
  <2> HIDE DEF send, slots
  <2>3. SettledCount(q, send, slots, rate) = First(T)
        BY <1>5, <2>2, SettledIsShortest
  <2>4. T \subseteq 1..Len(q) /\ T \subseteq Nat \ {0}
        BY <1>2, <1>4 DEF Paying
  <2> HIDE DEF T
  <2>5. First(T) # 0 => First(T) \in 1..Len(q)
        BY <2>4, FirstFacts
  <2>6. k # 0
        BY <1>1, InputsAssumption
  <2> QED
      BY <2>3, <2>5, <2>6 DEF send, slots
<1>7. /\ Balanced(made, A) /\ made.ins = ins /\ made.to = to
      /\ Fits(made) /\ ReturnsToLast(made)
  <2>1. /\ k = SettledCount(q, SumFunction(to), Cardinality(DOMAIN to) + 1, rate)
        /\ made = TransferOf(ins, to, rate) /\ ins = SubSeq(q, 1, k)
        BY <1>1
  <2> HIDE DEF k, ins
  <2>2. PaysFrom(made, ins, to, A)
        BY <1>4, <1>5, <1>6, <2>1, TransferOfFacts
  <2> QED
      BY <2>2 DEF PaysFrom
<1> HIDE DEF k
<1>8. /\ ins \in Seq(unspents) /\ Len(ins) = k /\ DOMAIN ins = 1..k
      /\ \A i \in 1..k : i \in 1..n /\ ins[i] = q[i]
  <2>1. k \in 0..Len(q) /\ k \in Nat
        BY <1>2, <1>4, <1>6
  <2>2. TakenFrom(ins, q, k, unspents)
        BY <1>4, <1>5, <2>1, PrefixFacts
  <2> QED
      BY <1>4, <2>2 DEF TakenFrom
<1>9. Distinct(ins)
      BY <1>3, <1>8 DEF Distinct
<1>10. ins # <<>>
       BY <1>2, <1>4, <1>6, <1>8
<1> QED
    BY <1>7, <1>8, <1>9, <1>10

-----------------------------------------------------------------------------
(* createBTCSummary.                                                       *)

SweepTx(batch, to, rate) ==
  LET fee == EstimateFee(Len(batch), 1, rate)
      pays == [a \in {to} |-> Total(batch) - fee]
  IN RawTx(batch, pays, pays, fee)

SweepStep(acc, i, coins, to, rate) ==
  LET room == Min({Len(coins[i]), MaxTxInputs - Len(acc.batch)})
      batch == acc.batch \o SubSeq(coins[i], 1, room)
  IN IF i = Len(coins) \/ Len(batch) >= MaxTxInputs
       THEN [batch |-> <<>>, made |-> acc.made \o SweepOf(batch, to, rate)]
       ELSE [acc EXCEPT !.batch = batch]

SweepTable(t, coins, to, rate) ==
  t = [s \in SUBSET DOMAIN [i \in DOMAIN coins |-> i] |->
         IF s = {} THEN [batch |-> <<>>, made |-> <<>>]
         ELSE SweepStep(t[s \ {Max(s)}], [i \in DOMAIN coins |-> i][Max(s)], coins, to, rate)]

LEMMA SummaryIsTable ==
  ASSUME NEW coins, NEW to, NEW rate
  PROVE  CreateBTCSummary(coins, to, rate)
           = (CHOOSE t : SweepTable(t, coins, to, rate))[DOMAIN [i \in DOMAIN coins |-> i]].made
BY Zenon DEF CreateBTCSummary, FoldLeft, MapThenFoldSet, SweepTable, SweepStep

LEMMA DistinctConcat ==
  ASSUME NEW C, NEW s \in Seq(C), NEW r \in Seq(C), Distinct(s), Distinct(r),
         \A i \in DOMAIN s, j \in DOMAIN r : s[i] # r[j]
  PROVE  Distinct(s \o r)
<1> DEFINE n == Len(s)
           m == Len(r)
           q == s \o r
<1>1. /\ n \in Nat /\ m \in Nat /\ DOMAIN s = 1..n /\ DOMAIN r = 1..m /\ DOMAIN q = 1..(n + m)
      /\ \A i \in 1..n : q[i] = s[i]
      /\ \A i \in (n + 1)..(n + m) : q[i] = r[i - n]
      OBVIOUS
<1> HIDE DEF n, m, q
<1>2. ASSUME NEW i \in DOMAIN q, NEW j \in DOMAIN q, q[i] = q[j] PROVE i = j
  <2>1. CASE i \in 1..n /\ j \in 1..n
        BY <1>1, <1>2, <2>1 DEF Distinct
  <2>2. CASE i \in 1..n /\ j \notin 1..n
    <3>1. j \in (n + 1)..(n + m) /\ j - n \in 1..m
          BY <1>1, <2>2
    <3> QED
        BY <1>1, <1>2, <2>2, <3>1
  <2>3. CASE i \notin 1..n /\ j \in 1..n
    <3>1. i \in (n + 1)..(n + m) /\ i - n \in 1..m
          BY <1>1, <2>3
    <3> QED
        BY <1>1, <1>2, <2>3, <3>1
  <2>4. CASE i \notin 1..n /\ j \notin 1..n
    <3>1. /\ i \in (n + 1)..(n + m) /\ i - n \in 1..m
          /\ j \in (n + 1)..(n + m) /\ j - n \in 1..m
          BY <1>1, <2>4
    <3>2. i - n = j - n
          BY <1>1, <1>2, <3>1 DEF Distinct
    <3> QED
        BY <1>1, <3>1, <3>2
  <2> QED
      BY <2>1, <2>2, <2>3, <2>4
<1>3. Distinct(q)
      BY <1>2 DEF Distinct
<1> QED
    BY <1>3 DEF q

(* What a sweep is: it pays what its coins are worth, less the fee.        *)
IsSweep(tx, C, to, rate) ==
  \E b \in Seq(C) : /\ Distinct(b) /\ Total(b) > EstimateFee(Len(b), 1, rate)
                    /\ tx = SweepTx(b, to, rate)

(* The addresses' coins before a sweep: nothing twice.                     *)
Purses(coins, C) ==
  /\ Len(coins) \in Nat /\ DOMAIN coins = 1..Len(coins)
  /\ \A i \in DOMAIN coins : coins[i] \in Seq(C) /\ Distinct(coins[i])
  /\ \A i, j \in DOMAIN coins : i # j => ToSet(coins[i]) \cap ToSet(coins[j]) = {}

(* After k addresses.                                                      *)
Collecting(acc, coins, k, C, to, rate) ==
  /\ \A x \in DOMAIN acc.batch : \E i \in 1..k : acc.batch[x] \in ToSet(coins[i])
  /\ Distinct(acc.batch)
  /\ \A m \in DOMAIN acc.made : IsSweep(acc.made[m], C, to, rate)

SweepValues(C, to, rate) ==
  [batch : {b \in Seq(C) : Len(b) < MaxTxInputs},
   made : Seq({SweepTx(b, to, rate) : b \in Seq(C)})]

LEMMA SweepStepFacts ==
  ASSUME NEW C, NEW coins, Purses(coins, C), NEW to, NEW rate,
         NEW acc \in SweepValues(C, to, rate), NEW i \in 1..Len(coins)
  PROVE  /\ SweepStep(acc, i, coins, to, rate) \in SweepValues(C, to, rate)
         /\ Collecting(acc, coins, i - 1, C, to, rate)
              => Collecting(SweepStep(acc, i, coins, to, rate), coins, i, C, to, rate)
<1> DEFINE TX == {SweepTx(b, to, rate) : b \in Seq(C)}
           room == Min({Len(coins[i]), MaxTxInputs - Len(acc.batch)})
           own == SubSeq(coins[i], 1, room)
           batch == acc.batch \o own
           next == SweepStep(acc, i, coins, to, rate)
           done == i = Len(coins) \/ Len(batch) >= MaxTxInputs
           sweep == SweepOf(batch, to, rate)
<1>1. /\ acc = [batch |-> acc.batch, made |-> acc.made]
      /\ acc.batch \in Seq(C) /\ Len(acc.batch) < MaxTxInputs /\ acc.made \in Seq(TX)
      BY DEF SweepValues
<1>2. i \in DOMAIN coins /\ coins[i] \in Seq(C) /\ Distinct(coins[i])
      BY DEF Purses
<1>3. room \in 0..Len(coins[i])
  <2> DEFINE a == Len(coins[i])
             b == MaxTxInputs - Len(acc.batch)
  <2>1. a \in Nat /\ b \in Nat
        BY <1>1, <1>2, InputsAssumption
  <2> HIDE DEF a, b
  <2>4. a \in Int /\ b \in Int
        BY <2>1
  <2>2. (Min({a, b}) = a \/ Min({a, b}) = b) /\ Min({a, b}) <= a /\ Min({a, b}) <= b
        BY <2>4, MinOfTwo
  <2>3. Min({a, b}) \in 0..a
        BY <2>1, <2>2
  <2> QED
      BY <2>3 DEF a, b
<1>4. /\ own \in Seq(C) /\ Len(own) = room /\ DOMAIN own = 1..room
      /\ \A x \in 1..room : x \in DOMAIN coins[i] /\ own[x] = coins[i][x]
  <2> HIDE DEF room
  <2> QED
      BY <1>2, <1>3
<1> HIDE DEF room, own
<1>5. batch \in Seq(C) /\ Len(batch) \in Nat
      BY <1>1, <1>4
<1>6. sweep \in Seq(TX)
  <2>1. SweepTx(batch, to, rate) \in TX
        BY <1>5
  <2>2. sweep = <<SweepTx(batch, to, rate)>> \/ sweep = <<>>
        BY Zenon DEF SweepOf, SweepTx
  <2> DEFINE e == SweepTx(batch, to, rate)
  <2>3. e \in TX /\ (sweep = <<e>> \/ sweep = <<>>)
        BY <2>1, <2>2
  <2> HIDE DEF TX, sweep, e
  <2>4. <<e>> \in Seq(TX) /\ <<>> \in Seq(TX)
        BY <2>3
  <2> QED
      BY <2>3, <2>4
<1>7. next = IF done THEN [batch |-> <<>>, made |-> acc.made \o sweep]
                     ELSE [batch |-> batch, made |-> acc.made]
  <2>1. next = IF done THEN [batch |-> <<>>, made |-> acc.made \o sweep]
                       ELSE [acc EXCEPT !.batch = batch]
        BY Zenon DEF SweepStep, room, own
  <2>2. [acc EXCEPT !.batch = batch] = [batch |-> batch, made |-> acc.made]
    <3> HIDE DEF batch
    <3> QED
        BY <1>1
  <2> HIDE DEF next, done, batch, sweep
  <2> QED
      BY <2>1, <2>2
<1>8. ~done => Len(batch) < MaxTxInputs
      BY <1>5, InputsAssumption
<1>9. next \in SweepValues(C, to, rate)
  <2>1. 0 < MaxTxInputs /\ <<>> \in Seq(C) /\ Len(<<>>) = 0
        BY InputsAssumption
  <2>2. acc.made \o sweep \in Seq(TX)
    <3> HIDE DEF sweep, TX
    <3> QED
        BY <1>1, <1>6
  <2> HIDE DEF next, done, batch, sweep
  <2> QED
      BY <1>1, <1>5, <1>7, <1>8, <2>1, <2>2 DEF SweepValues
<1>10. ASSUME Collecting(acc, coins, i - 1, C, to, rate)
       PROVE  Collecting(next, coins, i, C, to, rate)
  <2>1. /\ \A x \in DOMAIN acc.batch : \E j \in 1..(i - 1) : acc.batch[x] \in ToSet(coins[j])
        /\ Distinct(acc.batch)
        /\ \A m \in DOMAIN acc.made : IsSweep(acc.made[m], C, to, rate)
        BY <1>10 DEF Collecting
  <2>2. \A x \in DOMAIN own : own[x] \in ToSet(coins[i])
        BY <1>4 DEF ToSet
  <2>3. Distinct(own)
        BY <1>2, <1>4 DEF Distinct
  <2>4. ASSUME NEW x \in DOMAIN acc.batch, NEW y \in DOMAIN own PROVE acc.batch[x] # own[y]
    <3>1. PICK j \in 1..(i - 1) : acc.batch[x] \in ToSet(coins[j])
          BY <2>1
    <3>2. j \in DOMAIN coins /\ j # i
          BY DEF Purses
    <3>3. ToSet(coins[i]) \cap ToSet(coins[j]) = {}
          BY <1>2, <3>2 DEF Purses
    <3> QED
        BY <2>2, <3>1, <3>3
  <2>5. Distinct(batch)
        BY <1>1, <1>4, <2>1, <2>3, <2>4, DistinctConcat
  <2>6. \A x \in DOMAIN batch : \E j \in 1..i : batch[x] \in ToSet(coins[j])
    <3> SUFFICES ASSUME NEW x \in DOMAIN batch
                 PROVE  \E j \in 1..i : batch[x] \in ToSet(coins[j])
        OBVIOUS
    <3>1. CASE x \in DOMAIN acc.batch
      <4>1. batch[x] = acc.batch[x]
            BY <1>1, <1>4, <3>1
      <4>2. PICK j \in 1..(i - 1) : acc.batch[x] \in ToSet(coins[j])
            BY <2>1, <3>1
      <4>3. j \in 1..i
            OBVIOUS
      <4> HIDE DEF batch
      <4> QED
          BY <4>1, <4>2, <4>3
    <3>2. CASE x \notin DOMAIN acc.batch
      <4> DEFINE y == x - Len(acc.batch)
      <4>1. y \in DOMAIN own /\ batch[x] = own[y]
            BY <1>1, <1>4, <3>2
      <4>2. i \in 1..i
            OBVIOUS
      <4> HIDE DEF batch, y
      <4> QED
          BY <2>2, <4>1, <4>2
    <3> QED
        BY <3>1, <3>2
  <2>7. \A m \in DOMAIN sweep : IsSweep(sweep[m], C, to, rate)
    <3>1. CASE Total(batch) > EstimateFee(Len(batch), 1, rate)
      <4>1. IsSweep(SweepTx(batch, to, rate), C, to, rate)
            BY <1>5, <2>5, <3>1 DEF IsSweep
      <4>2. sweep = <<SweepTx(batch, to, rate)>>
            BY <3>1, Zenon DEF SweepOf, SweepTx
      <4> HIDE DEF sweep
      <4> QED
          BY <4>1, <4>2
    <3>2. CASE ~(Total(batch) > EstimateFee(Len(batch), 1, rate))
          BY <3>2 DEF SweepOf
    <3> QED
        BY <3>1, <3>2
  <2>8. \A m \in DOMAIN (acc.made \o sweep) : IsSweep((acc.made \o sweep)[m], C, to, rate)
    <3> DEFINE all == acc.made \o sweep
               n == Len(acc.made)
    <3> SUFFICES ASSUME NEW m \in DOMAIN all PROVE IsSweep(all[m], C, to, rate)
        OBVIOUS
    <3> HIDE DEF sweep, TX
    <3>1. CASE m \in DOMAIN acc.made
      <4>1. all[m] = acc.made[m]
            BY <1>1, <1>6, <3>1
      <4> QED
          BY <2>1, <3>1, <4>1
    <3>2. CASE m \notin DOMAIN acc.made
      <4>1. m - n \in DOMAIN sweep /\ all[m] = sweep[m - n]
            BY <1>1, <1>6, <3>2
      <4> QED
          BY <2>7, <4>1
    <3> QED
        BY <3>1, <3>2
  <2>9. Distinct(<<>>) /\ DOMAIN <<>> = {}
        BY DEF Distinct
  <2> HIDE DEF next, done, batch, sweep
  <2>10. CASE done
    <3>1. next.batch = <<>> /\ next.made = acc.made \o sweep
          BY <1>7, <2>10
    <3> QED
        BY <2>8, <2>9, <3>1 DEF Collecting
  <2>11. CASE ~done
    <3>1. next.batch = batch /\ next.made = acc.made
          BY <1>7, <2>11
    <3> QED
        BY <2>1, <2>5, <2>6, <3>1 DEF Collecting
  <2> QED
      BY <2>10, <2>11
<1> QED
    BY <1>9, <1>10

LEMMA CreateBTCSummaryMade ==
  ASSUME NEW C, NEW coins, Purses(coins, C), NEW to, NEW rate
  PROVE  /\ CreateBTCSummary(coins, to, rate) \in Seq({SweepTx(b, to, rate) : b \in Seq(C)})
         /\ \A m \in DOMAIN CreateBTCSummary(coins, to, rate) :
              IsSweep(CreateBTCSummary(coins, to, rate)[m], C, to, rate)
<1> DEFINE n == Len(coins)
           V == SweepValues(C, to, rate)
           base == [batch |-> <<>>, made |-> <<>>]
           S(acc, i) == SweepStep(acc, i, coins, to, rate)
           index == [i \in DOMAIN coins |-> i]
           step == [q \in V \X (1..n) |-> S(q[1], q[2])]
           t == CHOOSE u : SweepTable(u, coins, to, rate)
<1>1. n \in Nat /\ DOMAIN coins = 1..n /\ DOMAIN index = 1..n /\ \A i \in 1..n : index[i] = i
      BY DEF Purses
<1> HIDE DEF index
<1>2. \A acc \in V, i \in 1..n : S(acc, i) \in V
  <2> HIDE DEF V
  <2> QED
      BY SweepStepFacts DEF V
<1> HIDE DEF S
<1>3. step \in [V \X (1..n) -> V]
  <2> HIDE DEF V
  <2> QED
      BY <1>2
<1>4. base \in V
      BY InputsAssumption DEF SweepValues
<1>5. PICK g : FoldTable(g, base, step, n) /\ g \in [SUBSET (1..n) -> V]
  <2> HIDE DEF V, step, base
  <2> QED
      BY <1>1, <1>3, <1>4, FoldTableExists
<1>6. g = [s \in SUBSET (1..n) |-> IF s = {} THEN base ELSE S(g[s \ {Max(s)}], Max(s))]
  <2> DEFINE N(s) == S(g[s \ {Max(s)}], Max(s))
             e == [s \in SUBSET (1..n) |-> IF s = {} THEN base ELSE N(s)]
  <2>1. ASSUME NEW s \in SUBSET (1..n) PROVE g[s] = e[s]
    <3>1. CASE s = {}
          BY <1>5, <3>1 DEF FoldTable
    <3>2. CASE s # {}
      <4> DEFINE r == s \ {Max(s)}
                 m == Max(s)
      <4>1. m \in 1..n /\ r \in SUBSET (1..n)
            BY <1>1, <3>2, MaxOfPart
      <4>2. g[r] \in V
            BY <1>5, <4>1
      <4>3. g[s] = step[<<g[r], m>>]
        <5> HIDE DEF step, base
        <5> QED
            BY <1>5, <3>2 DEF FoldTable
      <4>4. step[<<g[r], m>>] = S(g[r], m)
        <5> DEFINE v == g[r]
        <5> HIDE DEF v, m, V
        <5>1. <<v, m>> \in V \X (1..n)
              BY <4>1, <4>2 DEF v, m
        <5>2. step[<<v, m>>] = S(v, m)
              BY <5>1
        <5> QED
            BY <5>2 DEF v, m
      <4>5. e[s] = S(g[r], m)
            BY <3>2
      <4> QED
          BY <4>3, <4>4, <4>5
    <3> QED
        BY <3>1, <3>2
  <2>2. g = [s \in SUBSET (1..n) |-> g[s]] /\ e = [s \in SUBSET (1..n) |-> e[s]]
        BY <1>5
  <2>3. g = e
    <3> HIDE DEF e
    <3> QED
        BY <2>1, <2>2
  <2> QED
      BY <2>3
<1>7. t = [s \in SUBSET (1..n) |-> IF s = {} THEN base ELSE S(t[s \ {Max(s)}], Max(s))]
  <2> DEFINE Table(u) ==
        u = [s \in SUBSET (1..n) |-> IF s = {} THEN base ELSE S(u[s \ {Max(s)}], index[Max(s)])]
  <2>1. \A s \in SUBSET (1..n) : s # {} => index[Max(s)] = Max(s)
        BY <1>1, MaxOfPart
  <2>2. \A u : SweepTable(u, coins, to, rate) <=> Table(u)
        BY <1>1, Zenon DEF SweepTable, S, index
  <2>3. g = [s \in SUBSET (1..n) |-> IF s = {} THEN base ELSE S(g[s \ {Max(s)}], index[Max(s)])]
        BY <1>6, <2>1
  <2>4. SweepTable(t, coins, to, rate)
        BY <2>2, <2>3
  <2> HIDE DEF t
  <2>5. t = [s \in SUBSET (1..n) |-> IF s = {} THEN base ELSE S(t[s \ {Max(s)}], index[Max(s)])]
        BY <2>2, <2>4
  <2> QED
      BY <2>1, <2>5
<1> HIDE DEF t, step
<1>8. t[1..0] = base
  <2>1. 1..0 = {} /\ 1..0 \in SUBSET (1..n)
        OBVIOUS
  <2> HIDE DEF base
  <2> QED
      BY <1>7, <2>1
<1>9. ASSUME NEW k \in 1..n PROVE t[1..k] = S(t[1..(k - 1)], k)
  <2> DEFINE s == 1..k
  <2>1. s \in SUBSET (1..n) /\ s # {} /\ k \in Nat \ {0}
    <3> HIDE DEF n, base
    <3>1. k \in Nat /\ 1 <= k /\ k <= n /\ n \in Nat
          BY <1>1
    <3>2. k \in s /\ \A x \in s : x \in 1..n
          BY <3>1
    <3> QED
        BY <3>1, <3>2
  <2>2. Max(s) = k /\ s \ {Max(s)} = 1..(k - 1)
        BY <2>1, MaxOfPrefix
  <2>3. t[s] = S(t[s \ {Max(s)}], Max(s))
    <3> HIDE DEF s, base
    <3> QED
        BY <1>7, <2>1
  <2> QED
      BY <2>2, <2>3
<1>10. ASSUME NEW k \in 0..n
       PROVE  t[1..k] \in V /\ Collecting(t[1..k], coins, k, C, to, rate)
  <2> DEFINE Fine(j) == t[1..j] \in V /\ Collecting(t[1..j], coins, j, C, to, rate)
             F == {j \in 0..n : ~Fine(j)}
  <2> HIDE DEF Fine, V
  <2> SUFFICES ASSUME F # {} PROVE FALSE
      BY DEF Fine
  <2>1. PICK j \in F : \A i \in F : j <= i
    <3>1. F \subseteq Nat
          BY <1>1
    <3> HIDE DEF F
    <3> QED
        BY <3>1, LeastNatural
  <2>2. j \in 0..n /\ ~Fine(j)
        OBVIOUS
  <2>3. CASE j = 0
    <3>1. base.batch = <<>> /\ base.made = <<>> /\ DOMAIN <<>> = {}
          OBVIOUS
    <3> HIDE DEF base
    <3>2. Collecting(base, coins, 0, C, to, rate)
          BY <3>1 DEF Collecting, Distinct
    <3> QED
        BY <1>4, <1>8, <2>2, <2>3, <3>2 DEF Fine
  <2>4. CASE j # 0
    <3>1. j - 1 \in 0..n /\ j - 1 < j /\ j \in 1..n
          BY <1>1, <2>2, <2>4
    <3>2. Fine(j - 1)
          BY <1>1, <2>1, <2>2, <3>1
    <3>3. /\ SweepStep(t[1..(j - 1)], j, coins, to, rate) \in V
          /\ Collecting(SweepStep(t[1..(j - 1)], j, coins, to, rate), coins, j, C, to, rate)
          BY <3>1, <3>2, SweepStepFacts DEF Fine, V
    <3>4. t[1..j] = SweepStep(t[1..(j - 1)], j, coins, to, rate)
          BY <1>9, <3>1 DEF S
    <3> QED
        BY <2>2, <3>3, <3>4 DEF Fine
  <2> QED
      BY <2>3, <2>4
<1>11. CreateBTCSummary(coins, to, rate) = t[1..n].made
  <2>1. CreateBTCSummary(coins, to, rate) = t[DOMAIN index].made
        BY SummaryIsTable DEF t, index
  <2> QED
      BY <1>1, <2>1
<1>12. t[1..n] \in V /\ Collecting(t[1..n], coins, n, C, to, rate)
       BY <1>1, <1>10
<1>13. t[1..n].made \in Seq({SweepTx(b, to, rate) : b \in Seq(C)})
       BY <1>12 DEF SweepValues
<1> QED
    BY <1>11, <1>12, <1>13 DEF Collecting

LEMMA SweepFacts ==
  ASSUME NEW C, NEW A, \A c \in C : c.amount \in Nat \ {0} /\ c.addr \in A,
         NEW to, NEW rate \in Nat, NEW made, IsSweep(made, C, to, rate)
  PROVE  /\ Balanced(made, A) /\ DOMAIN made.to = {to} /\ Fits(made) /\ ReturnsToLast(made)
         /\ made.ins \in Seq(C) /\ made.ins # <<>> /\ Distinct(made.ins)
<1>1. PICK b \in Seq(C) : /\ Distinct(b) /\ Total(b) > EstimateFee(Len(b), 1, rate)
                          /\ made = SweepTx(b, to, rate)
      BY DEF IsSweep
<1> DEFINE fee == EstimateFee(Len(b), 1, rate)
           v == Total(b) - fee
           pays == [a \in {to} |-> v]
<1>2. IsCoins(b) /\ \A i \in DOMAIN b : b[i] \in C
      BY DEF IsCoins
<1>3. fee \in Nat /\ Total(b) \in Nat
      BY <1>2, FeeType, TotalType
<1>4. made.ins = b /\ made.to = pays /\ made.outs = pays /\ made.fee = fee
      /\ made.sendOut = PayerSendOut(b, pays, pays)
      BY <1>1 DEF SweepTx, RawTx
<1> HIDE DEF fee
<1>5. v \in Nat \ {0} /\ Total(b) = v + fee
      BY <1>1, <1>3 DEF fee
<1> HIDE DEF v
<1>6. DOMAIN pays = {to} /\ pays[to] = v
      OBVIOUS
<1> HIDE DEF pays
<1>7. IsPositive(pays)
  <2>1. IsFiniteSet({to})
        BY FS_Singleton
  <2> QED
      BY ONLY <1>5, <1>6, <2>1 DEF IsPositive
<1>8. SumFunction(pays) = v
  <2>1. pays[to] \in Int
        BY <1>5, <1>6
  <2>2. SumFunctionOnSet(pays, {to}) = v
        BY <1>6, <2>1, SumOne
  <2> QED
      BY <1>6, <2>2, SumFunctionIs
<1>9. Total(b) = SumFunction(pays) + fee
      BY <1>5, <1>8
<1>10. Balanced(made, A)
       BY <1>2, <1>3, <1>4, <1>7, <1>9 DEF Balanced
<1>11. ASSUME NEW p \in Payers(b) \ DOMAIN pays PROVE At(pays, p) < VinOf(b, p)
  <2>1. PICK i \in DOMAIN b : b[i].addr = p
        BY DEF Payers
  <2>2. b[i].amount \in Nat /\ b[i].amount > 0
        BY <1>2
  <2>3. b[i].amount <= VinOf(b, p) /\ VinOf(b, p) \in Nat
        BY <1>2, <2>1, VinAtLeast, VinType
  <2>4. At(pays, p) = 0
        BY DEF At
  <2> QED
      BY <2>2, <2>3, <2>4
<1>12. Fits(made) /\ ReturnsToLast(made)
       BY <1>4, <1>11 DEF Fits, ReturnsToLast
<1>13. b # <<>>
  <2> SUFFICES ASSUME b = <<>> PROVE FALSE
      OBVIOUS
  <2>1. DOMAIN Amounts(b) = {}
        BY DEF Amounts
  <2>2. Total(b) = 0
        BY <2>1, SumFunctionIs, SumEmpty DEF Total
  <2> QED
      BY <1>3, <1>5, <2>2
<1> QED
    BY <1>1, <1>4, <1>6, <1>10, <1>12, <1>13
=============================================================================
