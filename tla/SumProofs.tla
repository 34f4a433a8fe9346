----------------------------- MODULE SumProofs -----------------------------
(***************************************************************************)
(* What the sums of satoshis in TxBuild, FeeAccounting and Transfer obey,  *)
(* whatever is summed. Induction is by a smallest counterexample: of the   *)
(* subsets of a finite set, some are the smallest with a given property.   *)
(***************************************************************************)
EXTENDS Integers, FiniteSets, FiniteSetsExt, FiniteSetTheorems, WellFoundedInduction, TLAPS

LEMMA SmallestSubset ==
  ASSUME NEW S, IsFiniteSet(S), NEW F, F \subseteq SUBSET S, F # {}
  PROVE  \E M \in F : \A U \in F : U \subseteq M => U = M
<1>1. IsWellFoundedOn(StrictSubsetOrdering(S), FiniteSubsetsOf(S))
      BY FS_StrictSubsetOrderingWellFounded
<1>2. FiniteSubsetsOf(S) = SUBSET S
      BY FS_FiniteSubsetsOfFinite
<1>3. F \subseteq FiniteSubsetsOf(S)
      BY <1>2
<1>4. \E M \in F : \A U \in F : <<U, M>> \notin StrictSubsetOrdering(S)
      BY <1>1, <1>3, WFMin
<1>5. PICK M \in F : \A U \in F : <<U, M>> \notin StrictSubsetOrdering(S)
      BY <1>4
<1>6. ASSUME NEW U \in F, U \subseteq M PROVE U = M
      BY <1>5, <1>6 DEF StrictSubsetOrdering
<1> QED
    BY <1>6

LEMMA LeastNatural ==
  ASSUME NEW T, T \subseteq Nat, T # {}
  PROVE  \E m \in T : \A n \in T : m <= n
<1>1. PICK k \in T : TRUE
      OBVIOUS
<1> DEFINE Below == {1..n : n \in {t \in T : t <= k}}
<1>2. IsFiniteSet(1..k)
      BY <1>1, FS_Interval
<1>3. Below \subseteq SUBSET (1..k) /\ Below # {}
      BY <1>1
<1>4. PICK M \in Below : \A U \in Below : U \subseteq M => U = M
  <2> DEFINE K == 1..k
  <2>1. IsFiniteSet(K) /\ Below \subseteq SUBSET K /\ Below # {}
        BY <1>2, <1>3
  <2> HIDE DEF Below, K
  <2> QED
      BY <2>1, SmallestSubset
<1>5. PICK m \in T : m <= k /\ M = 1..m
      BY <1>4
<1>6. ASSUME NEW n \in T PROVE m <= n
  <2>1. m \in Nat /\ n \in Nat /\ k \in Nat
        OBVIOUS
  <2>2. CASE n < m
    <3>1. 1..n \in Below
          BY <1>5, <2>1, <2>2
    <3>2. 1..n \subseteq 1..m /\ m \in 1..m /\ m \notin 1..n
          BY <2>1, <2>2
    <3> QED
        BY <1>4, <1>5, <3>1, <3>2
  <2> QED
      BY <2>1, <2>2
<1> QED
    BY <1>6

-----------------------------------------------------------------------------
(* The definition of a sum is one of a recursive function, whose existence *)
(* has to be shown first.                                                  *)

Chosen(s) == CHOOSE x \in s : TRUE

SumTable(sums, f, S) ==
  sums = [s \in SUBSET S |-> IF s = {} THEN 0 ELSE f[Chosen(s)] + sums[s \ {Chosen(s)}]]

LEMMA ChosenIsElement == \A s : s # {} => Chosen(s) \in s
BY DEF Chosen

LEMMA TableAt ==
  ASSUME NEW f, NEW S, NEW g, SumTable(g, f, S), NEW s \in SUBSET S
  PROVE  g[s] = IF s = {} THEN 0 ELSE f[Chosen(s)] + g[s \ {Chosen(s)}]
BY DEF SumTable

LEMMA TablesAgree ==
  ASSUME NEW f, NEW S, NEW T, IsFiniteSet(S), NEW g, NEW h,
         SumTable(g, f, S), SumTable(h, f, T), NEW s, s \subseteq S, s \subseteq T
  PROVE  g[s] = h[s]
<1> DEFINE F == {r \in SUBSET s : g[r] # h[r]}
<1> SUFFICES ASSUME F # {} PROVE FALSE
    OBVIOUS
<1>1. PICK M \in F : \A U \in F : U \subseteq M => U = M
  <2>1. F \subseteq SUBSET S
        OBVIOUS
  <2> HIDE DEF F
  <2> QED
      BY <2>1, SmallestSubset
<1>2. M \in SUBSET S /\ M \in SUBSET T
      OBVIOUS
<1>3. CASE M = {}
      BY <1>2, <1>3, TableAt
<1>4. CASE M # {}
  <2> DEFINE r == M \ {Chosen(M)}
  <2>1. r \subseteq M /\ r # M
        BY <1>4, ChosenIsElement
  <2>2. g[r] = h[r]
        BY <1>1, <2>1
  <2>3. g[M] = f[Chosen(M)] + g[r] /\ h[M] = f[Chosen(M)] + h[r]
        BY <1>2, <1>4, TableAt
  <2> QED
      BY <2>2, <2>3
<1> QED
    BY <1>3, <1>4

LEMMA TableExists ==
  ASSUME NEW f, NEW S, IsFiniteSet(S)
  PROVE  \E g : SumTable(g, f, S)
<1> DEFINE F == {s \in SUBSET S : ~ \E g : SumTable(g, f, s)}
<1> SUFFICES ASSUME F # {} PROVE FALSE
    OBVIOUS
<1>1. PICK M \in F : \A U \in F : U \subseteq M => U = M
  <2>1. F \subseteq SUBSET S
        OBVIOUS
  <2> HIDE DEF F
  <2> QED
      BY <2>1, SmallestSubset
<1> DEFINE G(s) == CHOOSE g : SumTable(g, f, s)
           g == [s \in SUBSET M |->
                   IF s = {} THEN 0 ELSE f[Chosen(s)] + G(s \ {Chosen(s)})[s \ {Chosen(s)}]]
<1>2. ASSUME NEW s, s \subseteq M, s # M PROVE SumTable(G(s), f, s)
  <2>1. s \in SUBSET S /\ s \notin F
        BY <1>1, <1>2
  <2>2. \E h : SumTable(h, f, s)
        BY <2>1
  <2> QED
      BY <2>2
<1>3. ASSUME NEW s, s \subseteq M, s # M PROVE g[s] = G(s)[s]
  <2>1. SumTable(G(s), f, s)
        BY <1>2, <1>3
  <2>2. CASE s = {}
    <3>1. G(s)[s] = 0
          BY <2>1, <2>2, TableAt
    <3> QED
        BY <2>2, <3>1
  <2>3. CASE s # {}
    <3> DEFINE r == s \ {Chosen(s)}
    <3>1. r \subseteq s /\ r \subseteq M /\ r # M
          BY <1>3, <2>3, ChosenIsElement
    <3>2. SumTable(G(r), f, r)
          BY <1>2, <3>1
    <3>3. IsFiniteSet(s)
          BY <1>3, FS_Subset, M \in SUBSET S, s \in SUBSET S
    <3>4. G(s)[r] = G(r)[r]
      <4>1. r \in SUBSET s /\ r \in SUBSET r
            BY <3>1
      <4> HIDE DEF G, r
      <4> QED
          BY <2>1, <3>1, <3>2, <3>3, <4>1, TablesAgree
    <3>5. G(s)[s] = f[Chosen(s)] + G(s)[r]
          BY <2>1, <2>3, TableAt, s \in SUBSET s
    <3>6. g[s] = f[Chosen(s)] + G(r)[r]
          BY <1>3, <2>3
    <3> QED
        BY <3>4, <3>5, <3>6
  <2> QED
      BY <2>2, <2>3
<1> HIDE DEF G
<1>4. ASSUME NEW s \in SUBSET M, s # {}
      PROVE  G(s \ {Chosen(s)})[s \ {Chosen(s)}] = g[s \ {Chosen(s)}]
  <2>1. s \ {Chosen(s)} \subseteq M /\ s \ {Chosen(s)} # M
        BY <1>4, ChosenIsElement
  <2> QED
      BY <1>3, <2>1
<1>5. g = [s \in SUBSET M |-> IF s = {} THEN 0 ELSE f[Chosen(s)] + g[s \ {Chosen(s)}]]
  <2>1. \A s \in SUBSET M :
          g[s] = IF s = {} THEN 0 ELSE f[Chosen(s)] + g[s \ {Chosen(s)}]
        BY <1>4
  <2> DEFINE h == [s \in SUBSET M |-> IF s = {} THEN 0 ELSE f[Chosen(s)] + g[s \ {Chosen(s)}]]
  <2>2. \A s \in SUBSET M : h[s] = g[s]
        BY <2>1
  <2>3. DOMAIN g = SUBSET M /\ DOMAIN h = SUBSET M
        OBVIOUS
  <2>4. g = [s \in SUBSET M |-> g[s]] /\ h = [s \in SUBSET M |-> h[s]]
        BY <2>3
  <2> QED
      BY <2>2, <2>4
<1>6. SumTable(g, f, M)
      BY <1>5 DEF SumTable
<1> QED
    BY <1>1, <1>6

-----------------------------------------------------------------------------
(* Sums over a set of indices.                                             *)

LEMMA SumIsTable ==
  ASSUME NEW f, NEW S
  PROVE  SumFunctionOnSet(f, S) = (CHOOSE g : SumTable(g, f, S))[S]
BY Zenon DEF SumFunctionOnSet, FoldFunctionOnSet, MapThenFoldSet, SumTable, Chosen

LEMMA SumEmpty == \A f : SumFunctionOnSet(f, {}) = 0
<1> SUFFICES ASSUME NEW f PROVE SumFunctionOnSet(f, {}) = 0
    OBVIOUS
<1> DEFINE g == CHOOSE h : SumTable(h, f, {})
<1>1. SumTable(g, f, {})
      BY TableExists, FS_EmptySet
<1>2. g[{}] = 0
      BY <1>1, TableAt, {} \in SUBSET {}
<1> QED
    BY <1>2, SumIsTable

LEMMA SumDef ==
  ASSUME NEW f, NEW S, IsFiniteSet(S), S # {}
  PROVE  SumFunctionOnSet(f, S) = f[Chosen(S)] + SumFunctionOnSet(f, S \ {Chosen(S)})
<1> DEFINE T == S \ {Chosen(S)}
           g == CHOOSE h : SumTable(h, f, S)
           k == CHOOSE h : SumTable(h, f, T)
<1>1. IsFiniteSet(T) /\ T \subseteq S
      BY FS_RemoveElement
<1>2. SumTable(g, f, S) /\ SumTable(k, f, T)
      BY <1>1, TableExists
<1>3. g[T] = k[T]
  <2>1. ASSUME NEW r, r \subseteq S, NEW a, NEW b, SumTable(a, f, S), SumTable(b, f, r)
        PROVE  a[r] = b[r]
    <3>1. r \subseteq r
          OBVIOUS
    <3> QED
        BY <2>1, <3>1, TablesAgree
  <2> HIDE DEF g, k, T
  <2> QED
      BY <1>1, <1>2, <2>1
<1>4. g[S] = f[Chosen(S)] + g[T]
      BY <1>2, TableAt, S \in SUBSET S
<1>5. SumFunctionOnSet(f, S) = g[S] /\ SumFunctionOnSet(f, T) = k[T]
      BY SumIsTable
<1> HIDE DEF g, k
<1> QED
    BY <1>3, <1>4, <1>5

LEMMA SumInt ==
  ASSUME NEW f, NEW S, IsFiniteSet(S), \A x \in S : f[x] \in Int
  PROVE  SumFunctionOnSet(f, S) \in Int
<1> DEFINE F == {s \in SUBSET S : SumFunctionOnSet(f, s) \notin Int}
<1> SUFFICES ASSUME F # {} PROVE FALSE
    OBVIOUS
<1>1. PICK M \in F : \A U \in F : U \subseteq M => U = M
  <2>1. F \subseteq SUBSET S
        OBVIOUS
  <2> HIDE DEF F
  <2> QED
      BY <2>1, SmallestSubset
<1>2. M # {}
      BY SumEmpty
<1>3. Chosen(M) \in M /\ M \subseteq S /\ IsFiniteSet(M)
      BY <1>2, ChosenIsElement, FS_Subset
<1>4. SumFunctionOnSet(f, M \ {Chosen(M)}) \in Int
      BY <1>1, <1>3
<1>5. SumFunctionOnSet(f, M) = f[Chosen(M)] + SumFunctionOnSet(f, M \ {Chosen(M)})
      BY <1>2, <1>3, SumDef
<1> QED
    BY <1>3, <1>4, <1>5

LEMMA SumNat ==
  ASSUME NEW f, NEW S, IsFiniteSet(S), \A x \in S : f[x] \in Nat
  PROVE  SumFunctionOnSet(f, S) \in Nat
<1> DEFINE F == {s \in SUBSET S : SumFunctionOnSet(f, s) \notin Nat}
<1> SUFFICES ASSUME F # {} PROVE FALSE
    OBVIOUS
<1>1. PICK M \in F : \A U \in F : U \subseteq M => U = M
  <2>1. F \subseteq SUBSET S
        OBVIOUS
  <2> HIDE DEF F
  <2> QED
      BY <2>1, SmallestSubset
<1>2. M # {}
      BY SumEmpty
<1>3. Chosen(M) \in M /\ M \subseteq S /\ IsFiniteSet(M)
      BY <1>2, ChosenIsElement, FS_Subset
<1>4. SumFunctionOnSet(f, M \ {Chosen(M)}) \in Nat
      BY <1>1, <1>3
<1>5. SumFunctionOnSet(f, M) = f[Chosen(M)] + SumFunctionOnSet(f, M \ {Chosen(M)})
      BY <1>2, <1>3, SumDef
<1> QED
    BY <1>3, <1>4, <1>5

(* Any element may be taken out first.                                     *)
LEMMA SumTakeOut ==
  ASSUME NEW f, NEW S, IsFiniteSet(S), \A x \in S : f[x] \in Int, NEW y \in S
  PROVE  SumFunctionOnSet(f, S) = f[y] + SumFunctionOnSet(f, S \ {y})
<1> DEFINE Bad(s) == \E x \in s : SumFunctionOnSet(f, s) # f[x] + SumFunctionOnSet(f, s \ {x})
           F == {s \in SUBSET S : Bad(s)}
<1> SUFFICES ASSUME F # {} PROVE FALSE
    OBVIOUS
<1>1. PICK M \in F : \A U \in F : U \subseteq M => U = M
  <2>1. F \subseteq SUBSET S
        OBVIOUS
  <2> HIDE DEF F
  <2> QED
      BY <2>1, SmallestSubset
<1>2. PICK x \in M : SumFunctionOnSet(f, M) # f[x] + SumFunctionOnSet(f, M \ {x})
      BY <1>1
<1> DEFINE c == Chosen(M)
<1>3. c \in M /\ M \subseteq S /\ IsFiniteSet(M)
      BY ChosenIsElement, FS_Subset
<1> HIDE DEF c
<1>4. SumFunctionOnSet(f, M) = f[c] + SumFunctionOnSet(f, M \ {c})
      BY <1>3, SumDef DEF c
<1>5. x # c
      BY <1>2, <1>4
<1>6. M \ {c} \notin F /\ M \ {x} \notin F
      BY <1>1, <1>3
<1>7. x \in M \ {c} /\ c \in M \ {x}
      BY <1>3, <1>5
<1>8. SumFunctionOnSet(f, M \ {c}) = f[x] + SumFunctionOnSet(f, (M \ {c}) \ {x})
      BY <1>3, <1>6, <1>7
<1>9. SumFunctionOnSet(f, M \ {x}) = f[c] + SumFunctionOnSet(f, (M \ {x}) \ {c})
      BY <1>3, <1>6, <1>7
<1>10. (M \ {c}) \ {x} = (M \ {x}) \ {c}
       OBVIOUS
<1>11. SumFunctionOnSet(f, (M \ {x}) \ {c}) \in Int /\ f[x] \in Int /\ f[c] \in Int
  <2>1. IsFiniteSet((M \ {x}) \ {c}) /\ (M \ {x}) \ {c} \subseteq S
        BY <1>3, FS_RemoveElement
  <2> QED
      BY <1>3, <2>1, SumInt
<1> DEFINE r == SumFunctionOnSet(f, (M \ {x}) \ {c})
<1>12. SumFunctionOnSet(f, M) = f[c] + (f[x] + r)
       BY <1>4, <1>8, <1>10
<1>13. f[x] + SumFunctionOnSet(f, M \ {x}) = f[x] + (f[c] + r)
       BY <1>9
<1>14. f[c] + (f[x] + r) = f[x] + (f[c] + r)
  <2> HIDE DEF r
  <2> QED
      BY <1>11 DEF r
<1> QED
    BY <1>2, <1>12, <1>13, <1>14

LEMMA SumOne ==
  ASSUME NEW f, NEW x, f[x] \in Int
  PROVE  SumFunctionOnSet(f, {x}) = f[x]
<1>1. IsFiniteSet({x}) /\ {x} \ {x} = {}
      BY FS_Singleton
<1>2. SumFunctionOnSet(f, {x}) = f[x] + SumFunctionOnSet(f, {x} \ {x})
      BY <1>1, SumTakeOut
<1> QED
    BY <1>1, <1>2, SumEmpty

LEMMA SumAdd ==
  ASSUME NEW f, NEW S, IsFiniteSet(S), NEW y, y \notin S, \A x \in S \cup {y} : f[x] \in Int
  PROVE  SumFunctionOnSet(f, S \cup {y}) = f[y] + SumFunctionOnSet(f, S)
<1>1. IsFiniteSet(S \cup {y}) /\ (S \cup {y}) \ {y} = S
      BY FS_AddElement
<1> QED
    BY <1>1, SumTakeOut

(* Two functions with the same values have the same sum.                   *)
LEMMA SumEqual ==
  ASSUME NEW f, NEW g, NEW S, IsFiniteSet(S), \A x \in S : f[x] = g[x]
  PROVE  SumFunctionOnSet(f, S) = SumFunctionOnSet(g, S)
<1> DEFINE F == {s \in SUBSET S : SumFunctionOnSet(f, s) # SumFunctionOnSet(g, s)}
<1> SUFFICES ASSUME F # {} PROVE FALSE
    OBVIOUS
<1>1. PICK M \in F : \A U \in F : U \subseteq M => U = M
  <2>1. F \subseteq SUBSET S
        OBVIOUS
  <2> HIDE DEF F
  <2> QED
      BY <2>1, SmallestSubset
<1>2. M # {}
      BY SumEmpty
<1>3. Chosen(M) \in M /\ M \subseteq S /\ IsFiniteSet(M)
      BY <1>2, ChosenIsElement, FS_Subset
<1>4. SumFunctionOnSet(f, M \ {Chosen(M)}) = SumFunctionOnSet(g, M \ {Chosen(M)})
      BY <1>1, <1>3
<1>5. /\ SumFunctionOnSet(f, M) = f[Chosen(M)] + SumFunctionOnSet(f, M \ {Chosen(M)})
      /\ SumFunctionOnSet(g, M) = g[Chosen(M)] + SumFunctionOnSet(g, M \ {Chosen(M)})
      BY <1>2, <1>3, SumDef
<1>6. f[Chosen(M)] = g[Chosen(M)]
      BY <1>3
<1> QED
    BY <1>4, <1>5, <1>6

LEMMA SumMonotone ==
  ASSUME NEW f, NEW g, NEW S, IsFiniteSet(S),
         \A x \in S : f[x] \in Int /\ g[x] \in Int /\ f[x] <= g[x]
  PROVE  SumFunctionOnSet(f, S) <= SumFunctionOnSet(g, S)
<1> DEFINE F == {s \in SUBSET S : ~(SumFunctionOnSet(f, s) <= SumFunctionOnSet(g, s))}
<1> SUFFICES ASSUME F # {} PROVE FALSE
    OBVIOUS
<1>1. PICK M \in F : \A U \in F : U \subseteq M => U = M
  <2>1. F \subseteq SUBSET S
        OBVIOUS
  <2> HIDE DEF F
  <2> QED
      BY <2>1, SmallestSubset
<1>2. M # {}
      BY SumEmpty
<1> DEFINE c == Chosen(M)
           r == M \ {c}
<1>3. c \in M /\ M \subseteq S /\ IsFiniteSet(M) /\ r \subseteq M /\ r # M /\ IsFiniteSet(r)
      BY <1>2, ChosenIsElement, FS_Subset, FS_RemoveElement
<1>4. SumFunctionOnSet(f, r) <= SumFunctionOnSet(g, r)
      BY <1>1, <1>3
<1>5. /\ SumFunctionOnSet(f, M) = f[c] + SumFunctionOnSet(f, r)
      /\ SumFunctionOnSet(g, M) = g[c] + SumFunctionOnSet(g, r)
      BY <1>2, <1>3, SumDef
<1>6. /\ SumFunctionOnSet(f, r) \in Int /\ SumFunctionOnSet(g, r) \in Int
      /\ f[c] \in Int /\ g[c] \in Int /\ f[c] <= g[c]
      BY <1>3, SumInt
<1>7. SumFunctionOnSet(f, M) <= SumFunctionOnSet(g, M)
  <2> HIDE DEF c, r
  <2> QED
      BY <1>4, <1>5, <1>6
<1> QED
    BY <1>1, <1>7

LEMMA SumUnion ==
  ASSUME NEW f, NEW S, NEW T, IsFiniteSet(S), IsFiniteSet(T), S \cap T = {},
         \A x \in S \cup T : f[x] \in Int
  PROVE  SumFunctionOnSet(f, S \cup T) = SumFunctionOnSet(f, S) + SumFunctionOnSet(f, T)
<1> DEFINE F == {s \in SUBSET T : SumFunctionOnSet(f, S \cup s)
                                    # SumFunctionOnSet(f, S) + SumFunctionOnSet(f, s)}
<1> SUFFICES ASSUME F # {} PROVE FALSE
    OBVIOUS
<1>1. PICK M \in F : \A U \in F : U \subseteq M => U = M
  <2>1. F \subseteq SUBSET T
        OBVIOUS
  <2> HIDE DEF F
  <2> QED
      BY <2>1, SmallestSubset
<1>2. SumFunctionOnSet(f, S) \in Int
      BY SumInt
<1>3. M # {}
  <2>1. S \cup {} = S
        OBVIOUS
  <2> QED
      BY <1>2, <2>1, SumEmpty
<1> DEFINE c == Chosen(M)
           r == M \ {c}
<1>4. c \in M /\ M \subseteq T /\ r \subseteq M /\ r # M
      BY <1>3, ChosenIsElement
<1>5. IsFiniteSet(M) /\ IsFiniteSet(r) /\ IsFiniteSet(S \cup r)
      BY <1>4, FS_Subset, FS_RemoveElement, FS_Union
<1>6. SumFunctionOnSet(f, S \cup r) = SumFunctionOnSet(f, S) + SumFunctionOnSet(f, r)
      BY <1>1, <1>4
<1> HIDE DEF c
<1>7. c \notin S \cup r /\ S \cup M = (S \cup r) \cup {c} /\ f[c] \in Int
      BY <1>4
<1>8. SumFunctionOnSet(f, S \cup M) = f[c] + SumFunctionOnSet(f, S \cup r)
  <2>1. \A x \in (S \cup r) \cup {c} : f[x] \in Int
        BY <1>4
  <2> HIDE DEF r
  <2> QED
      BY <1>5, <1>7, <2>1, SumAdd
<1>9. SumFunctionOnSet(f, M) = f[c] + SumFunctionOnSet(f, r)
      BY <1>4, <1>5, SumTakeOut
<1>10. SumFunctionOnSet(f, r) \in Int
       BY <1>4, <1>5, SumInt
<1>11. SumFunctionOnSet(f, S \cup M) = SumFunctionOnSet(f, S) + SumFunctionOnSet(f, M)
  <2> HIDE DEF r
  <2> QED
      BY <1>2, <1>6, <1>7, <1>8, <1>9, <1>10
<1> QED
    BY <1>1, <1>11

(* A part of natural numbers is worth no more than all of them.            *)
LEMMA SumPart ==
  ASSUME NEW f, NEW S, IsFiniteSet(S), \A x \in S : f[x] \in Nat, NEW T, T \subseteq S
  PROVE  SumFunctionOnSet(f, T) <= SumFunctionOnSet(f, S)
<1> DEFINE R == S \ T
<1>1. IsFiniteSet(T) /\ IsFiniteSet(R) /\ T \cap R = {} /\ T \cup R = S
      BY FS_Subset
<1>2. SumFunctionOnSet(f, T) \in Nat /\ SumFunctionOnSet(f, R) \in Nat
      BY <1>1, SumNat
<1>3. \A x \in T \cup R : f[x] \in Int
      BY <1>1
<1>4. SumFunctionOnSet(f, T \cup R) = SumFunctionOnSet(f, T) + SumFunctionOnSet(f, R)
  <2> HIDE DEF R
  <2> QED
      BY <1>1, <1>3, SumUnion
<1> HIDE DEF R
<1>5. T \cup R = S
      BY <1>1
<1>6. SumFunctionOnSet(f, S) = SumFunctionOnSet(f, T) + SumFunctionOnSet(f, R)
      BY <1>4, <1>5, Zenon
<1> QED
    BY <1>2, <1>6

(* The sum of sums, and of differences.                                    *)
LEMMA SumPlus ==
  ASSUME NEW f, NEW g, NEW h, NEW S, IsFiniteSet(S),
         \A x \in S : f[x] \in Int /\ g[x] \in Int /\ h[x] = f[x] + g[x]
  PROVE  SumFunctionOnSet(h, S) = SumFunctionOnSet(f, S) + SumFunctionOnSet(g, S)
<1> DEFINE F == {s \in SUBSET S : SumFunctionOnSet(h, s)
                                    # SumFunctionOnSet(f, s) + SumFunctionOnSet(g, s)}
<1> SUFFICES ASSUME F # {} PROVE FALSE
    OBVIOUS
<1>1. PICK M \in F : \A U \in F : U \subseteq M => U = M
  <2>1. F \subseteq SUBSET S
        OBVIOUS
  <2> HIDE DEF F
  <2> QED
      BY <2>1, SmallestSubset
<1>2. M # {}
  <2>1. /\ SumFunctionOnSet(f, {}) = 0 /\ SumFunctionOnSet(g, {}) = 0
        /\ SumFunctionOnSet(h, {}) = 0
        BY SumEmpty
  <2>2. SumFunctionOnSet(h, {}) = SumFunctionOnSet(f, {}) + SumFunctionOnSet(g, {})
        BY <2>1
  <2> QED
      BY <2>2
<1> DEFINE c == Chosen(M)
           r == M \ {c}
<1>3. c \in M /\ M \subseteq S /\ IsFiniteSet(M) /\ r \subseteq M /\ r # M /\ IsFiniteSet(r)
      BY <1>2, ChosenIsElement, FS_Subset, FS_RemoveElement
<1>4. SumFunctionOnSet(h, r) = SumFunctionOnSet(f, r) + SumFunctionOnSet(g, r)
      BY <1>1, <1>3
<1>5. /\ SumFunctionOnSet(f, M) = f[c] + SumFunctionOnSet(f, r)
      /\ SumFunctionOnSet(g, M) = g[c] + SumFunctionOnSet(g, r)
      /\ SumFunctionOnSet(h, M) = h[c] + SumFunctionOnSet(h, r)
      BY <1>2, <1>3, SumDef
<1>6. /\ SumFunctionOnSet(f, r) \in Int /\ SumFunctionOnSet(g, r) \in Int
      /\ f[c] \in Int /\ g[c] \in Int /\ h[c] = f[c] + g[c]
      BY <1>3, SumInt
<1>7. SumFunctionOnSet(h, M) = SumFunctionOnSet(f, M) + SumFunctionOnSet(g, M)
  <2> HIDE DEF c, r
  <2> QED
      BY <1>4, <1>5, <1>6
<1> QED
    BY <1>1, <1>7

(* What is summed may be numbered otherwise.                               *)
LEMMA SumImage ==
  ASSUME NEW f, NEW g, NEW h, NEW S, IsFiniteSet(S),
         \A x \in S : f[x] \in Int /\ g[h[x]] = f[x],
         \A x, y \in S : h[x] = h[y] => x = y
  PROVE  SumFunctionOnSet(g, {h[x] : x \in S}) = SumFunctionOnSet(f, S)
<1> DEFINE Image(s) == {h[x] : x \in s}
           F == {s \in SUBSET S : SumFunctionOnSet(g, Image(s)) # SumFunctionOnSet(f, s)}
<1> SUFFICES ASSUME F # {} PROVE FALSE
    OBVIOUS
<1>1. PICK M \in F : \A U \in F : U \subseteq M => U = M
  <2>1. F \subseteq SUBSET S
        OBVIOUS
  <2> HIDE DEF F
  <2> QED
      BY <2>1, SmallestSubset
<1>2. M # {}
  <2>1. Image({}) = {}
        OBVIOUS
  <2> QED
      BY <2>1, SumEmpty
<1> DEFINE c == Chosen(M)
           r == M \ {c}
<1>3. c \in M /\ M \subseteq S /\ IsFiniteSet(M) /\ r \subseteq M /\ r # M /\ IsFiniteSet(r)
      BY <1>2, ChosenIsElement, FS_Subset, FS_RemoveElement
<1>4. SumFunctionOnSet(g, Image(r)) = SumFunctionOnSet(f, r)
      BY <1>1, <1>3
<1>5. SumFunctionOnSet(f, M) = f[c] + SumFunctionOnSet(f, r)
      BY <1>2, <1>3, SumDef
<1>6. h[c] \notin Image(r) /\ Image(M) = Image(r) \cup {h[c]}
      BY <1>3
<1>7. IsFiniteSet(Image(r))
  <2> DEFINE k == [x \in r |-> h[x]]
  <2>1. k \in Surjection(r, Image(r))
        BY DEF Surjection
  <2> QED
      BY <1>3, <2>1, FS_Surjection
<1>8. \A y \in Image(r) \cup {h[c]} : g[y] \in Int
      BY <1>3
<1>9. SumFunctionOnSet(g, Image(M)) = g[h[c]] + SumFunctionOnSet(g, Image(r))
  <2> DEFINE I == Image(r)
             d == h[c]
  <2>1. IsFiniteSet(I) /\ d \notin I /\ Image(M) = I \cup {d} /\ (\A y \in I \cup {d} : g[y] \in Int)
        BY <1>6, <1>7, <1>8
  <2> HIDE DEF I, d
  <2>2. SumFunctionOnSet(g, I \cup {d}) = g[d] + SumFunctionOnSet(g, I)
        BY <2>1, SumAdd
  <2> QED
      BY <2>1, <2>2 DEF I, d
<1>10. g[h[c]] = f[c]
       BY <1>3
<1> QED
    BY <1>4, <1>5, <1>9, <1>10

(* Nothing is added by zeros.                                              *)
LEMMA SumZero ==
  ASSUME NEW f, NEW S, IsFiniteSet(S), \A x \in S : f[x] = 0
  PROVE  SumFunctionOnSet(f, S) = 0
<1>1. \A x \in S : f[x] \in Int /\ f[x] = f[x] + f[x]
      OBVIOUS
<1>2. SumFunctionOnSet(f, S) \in Int
      BY <1>1, SumInt
<1>3. SumFunctionOnSet(f, S) = SumFunctionOnSet(f, S) + SumFunctionOnSet(f, S)
      BY <1>1, SumPlus
<1> QED
    BY <1>2, <1>3

LEMMA SumExtended ==
  ASSUME NEW f, NEW S, NEW T, IsFiniteSet(T), S \subseteq T,
         \A x \in T : f[x] \in Int, \A x \in T \ S : f[x] = 0
  PROVE  SumFunctionOnSet(f, T) = SumFunctionOnSet(f, S)
<1> DEFINE R == T \ S
<1>1. /\ IsFiniteSet(S) /\ IsFiniteSet(R) /\ S \cap R = {} /\ S \cup R = T
      /\ \A x \in S \cup R : f[x] \in Int
      /\ \A x \in R : f[x] = 0
      BY FS_Subset
<1> HIDE DEF R
<1>2. SumFunctionOnSet(f, R) = 0
      BY <1>1, SumZero
<1>3. SumFunctionOnSet(f, S \cup R) = SumFunctionOnSet(f, S) + SumFunctionOnSet(f, R)
      BY <1>1, SumUnion
<1>4. SumFunctionOnSet(f, S) \in Int
      BY <1>1, SumInt
<1>5. SumFunctionOnSet(f, S \cup R) = SumFunctionOnSet(f, S)
      BY <1>2, <1>3, <1>4
<1> QED
    BY <1>1, <1>5, Zenon

(* A sum with one element that counts.                                     *)
LEMMA SumSpike ==
  ASSUME NEW f, NEW S, IsFiniteSet(S), NEW y \in S, f[y] \in Int,
         \A x \in S \ {y} : f[x] = 0
  PROVE  SumFunctionOnSet(f, S) = f[y]
<1> DEFINE Y == {y}
<1>1. /\ Y \subseteq S /\ \A x \in S : f[x] \in Int
      /\ \A x \in S \ Y : f[x] = 0
      OBVIOUS
<1>2. SumFunctionOnSet(f, S) = SumFunctionOnSet(f, Y)
  <2> HIDE DEF Y
  <2> QED
      BY <1>1, SumExtended
<1>3. SumFunctionOnSet(f, {y}) = f[y]
      BY SumOne
<1> QED
    BY <1>2, <1>3

LEMMA SumFunctionIs == \A f : SumFunction(f) = SumFunctionOnSet(f, DOMAIN f)
BY DEF SumFunction

(* The sum of multiples, and of one value many times.                      *)
LEMMA SumScaled ==
  ASSUME NEW f, NEW h, NEW S, IsFiniteSet(S), NEW k \in Int,
         \A x \in S : f[x] \in Int /\ h[x] = k * f[x]
  PROVE  SumFunctionOnSet(h, S) = k * SumFunctionOnSet(f, S)
<1> DEFINE F == {s \in SUBSET S : SumFunctionOnSet(h, s) # k * SumFunctionOnSet(f, s)}
<1> SUFFICES ASSUME F # {} PROVE FALSE
    OBVIOUS
<1>1. PICK M \in F : \A U \in F : U \subseteq M => U = M
  <2>1. F \subseteq SUBSET S
        OBVIOUS
  <2> HIDE DEF F
  <2> QED
      BY <2>1, SmallestSubset
<1>2. M # {}
  <2>1. SumFunctionOnSet(f, {}) = 0 /\ SumFunctionOnSet(h, {}) = 0
        BY SumEmpty
  <2>2. SumFunctionOnSet(h, {}) = k * SumFunctionOnSet(f, {})
        BY <2>1
  <2> QED
      BY <2>2
<1> DEFINE c == Chosen(M)
           r == M \ {c}
<1>3. c \in M /\ M \subseteq S /\ IsFiniteSet(M) /\ r \subseteq M /\ r # M /\ IsFiniteSet(r)
      BY <1>2, ChosenIsElement, FS_Subset, FS_RemoveElement
<1>4. SumFunctionOnSet(h, r) = k * SumFunctionOnSet(f, r)
      BY <1>1, <1>3
<1>5. /\ SumFunctionOnSet(f, M) = f[c] + SumFunctionOnSet(f, r)
      /\ SumFunctionOnSet(h, M) = h[c] + SumFunctionOnSet(h, r)
      BY <1>2, <1>3, SumDef
<1>6. SumFunctionOnSet(f, r) \in Int /\ f[c] \in Int /\ h[c] = k * f[c]
      BY <1>3, SumInt
<1>7. SumFunctionOnSet(h, M) = k * SumFunctionOnSet(f, M)
  <2> DEFINE rest == SumFunctionOnSet(f, r)
             one == f[c]
  <2>1. k * (one + rest) = k * one + k * rest
    <3> HIDE DEF rest, one, c, r
    <3> QED
        BY <1>6 DEF rest, one
  <2> QED
      BY <1>4, <1>5, <1>6, <2>1
<1> QED
    BY <1>1, <1>7

LEMMA SumConstant ==
  ASSUME NEW f, NEW S, IsFiniteSet(S), NEW k \in Int, \A x \in S : f[x] = k
  PROVE  SumFunctionOnSet(f, S) = k * Cardinality(S)
<1> DEFINE F == {s \in SUBSET S : SumFunctionOnSet(f, s) # k * Cardinality(s)}
<1> SUFFICES ASSUME F # {} PROVE FALSE
    OBVIOUS
<1>1. PICK M \in F : \A U \in F : U \subseteq M => U = M
  <2>1. F \subseteq SUBSET S
        OBVIOUS
  <2> HIDE DEF F
  <2> QED
      BY <2>1, SmallestSubset
<1>2. M # {}
  <2>1. SumFunctionOnSet(f, {}) = 0 /\ Cardinality({}) = 0
        BY SumEmpty, FS_EmptySet
  <2>2. SumFunctionOnSet(f, {}) = k * Cardinality({})
        BY <2>1
  <2> QED
      BY <2>2
<1> DEFINE c == Chosen(M)
           r == M \ {c}
<1>3. c \in M /\ M \subseteq S /\ IsFiniteSet(M) /\ r \subseteq M /\ r # M /\ IsFiniteSet(r)
      BY <1>2, ChosenIsElement, FS_Subset, FS_RemoveElement
<1>4. SumFunctionOnSet(f, r) = k * Cardinality(r)
      BY <1>1, <1>3
<1>5. SumFunctionOnSet(f, M) = f[c] + SumFunctionOnSet(f, r) /\ f[c] = k
      BY <1>2, <1>3, SumDef
<1>6. Cardinality(r) = Cardinality(M) - 1 /\ Cardinality(M) \in Nat /\ Cardinality(r) \in Nat
      BY <1>3, FS_RemoveElement, FS_CardinalityType
<1>7. SumFunctionOnSet(f, M) = k * Cardinality(M)
  <2> DEFINE n == Cardinality(r)
             all == Cardinality(M)
  <2>1. all = n + 1 /\ n \in Nat
        BY <1>6
  <2>2. k * (n + 1) = k + k * n
    <3> HIDE DEF n
    <3> QED
        BY <2>1
  <2> QED
      BY <1>4, <1>5, <2>1, <2>2
<1> QED
    BY <1>1, <1>7

(* A sum may be taken group by group.                                      *)
GroupSums(f, h, S, T) == [y \in T |-> SumFunctionOnSet(f, {x \in S : h[x] = y})]

LEMMA SumGrouped ==
  ASSUME NEW f, NEW h, NEW S, NEW T, IsFiniteSet(S), IsFiniteSet(T),
         \A x \in S : f[x] \in Int /\ h[x] \in T
  PROVE  SumFunctionOnSet(GroupSums(f, h, S, T), T) = SumFunctionOnSet(f, S)
<1> DEFINE g == GroupSums(f, h, S, T)
           Of(U) == {x \in S : h[x] \in U}
           F == {U \in SUBSET T : SumFunctionOnSet(g, U) # SumFunctionOnSet(f, Of(U))}
<1>1. ASSUME F # {} PROVE FALSE
  <2>1. PICK M \in F : \A U \in F : U \subseteq M => U = M
    <3>1. F \subseteq SUBSET T
          OBVIOUS
    <3> HIDE DEF F
    <3> QED
        BY <1>1, <3>1, SmallestSubset
  <2>2. M # {}
    <3>1. Of({}) = {}
          OBVIOUS
    <3> QED
        BY <3>1, SumEmpty
  <2> DEFINE c == Chosen(M)
             r == M \ {c}
             own == {x \in S : h[x] = c}
             rest == Of(r)
  <2>3. c \in M /\ M \subseteq T /\ IsFiniteSet(M) /\ r \subseteq M /\ r # M
        BY <2>2, ChosenIsElement, FS_Subset
  <2>4. SumFunctionOnSet(g, r) = SumFunctionOnSet(f, rest)
        BY <2>1, <2>3
  <2>5. SumFunctionOnSet(g, M) = g[c] + SumFunctionOnSet(g, r)
        BY <2>2, <2>3, SumDef
  <2>6. /\ IsFiniteSet(own) /\ IsFiniteSet(rest) /\ own \cap rest = {} /\ own \cup rest = Of(M)
        /\ \A x \in own \cup rest : f[x] \in Int
    <3>1. own \subseteq S /\ rest \subseteq S
          OBVIOUS
    <3>2. IsFiniteSet(own) /\ IsFiniteSet(rest)
          BY <3>1, FS_Subset
    <3> HIDE DEF c
    <3> QED
        BY <2>3, <3>2
  <2>7. g[c] = SumFunctionOnSet(f, own)
        BY <2>3 DEF GroupSums
  <2>8. SumFunctionOnSet(f, Of(M)) = SumFunctionOnSet(f, own) + SumFunctionOnSet(f, rest)
    <3> HIDE DEF own, rest, Of
    <3>1. SumFunctionOnSet(f, own \cup rest) = SumFunctionOnSet(f, own) + SumFunctionOnSet(f, rest)
          BY <2>6, SumUnion
    <3> QED
        BY <2>6, <3>1
  <2> QED
      BY <2>1, <2>4, <2>5, <2>7, <2>8
<1>2. Of(T) = S
      OBVIOUS
<1> QED
    BY <1>1, <1>2
=============================================================================
