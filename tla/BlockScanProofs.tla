-------------------------- MODULE BlockScanProofs --------------------------
(***************************************************************************)
(* A scan of a block implements AtomicScan and keeps deposits, for all     *)
(* blocks and addresses and every number of faults.                        *)
(***************************************************************************)
EXTENDS BlockScan, FiniteSetTheorems, TLAPS

-----------------------------------------------------------------------------
(* The inductive invariant.                                                *)

(* The places of a call, from the transaction that is scanned backwards.   *)
InTx == {"touch", "refill", "again", "vins", "param"}
InTxs == InTx \cup {"end"}
Prepared == InTxs \cup {"candidate"}
Loaded == Prepared \cup {"batch", "fill"}
Accepted == Loaded \cup {"load"}

(* The first transactions of the block, those that are loaded.             *)
IsLoaded(k) ==
  index = {entries[i] : i \in 1..k} /\ IsFiniteSet(index) /\ Cardinality(index) = k

BlockInv ==
  /\ pc \notin {"idle", "hash"} => hash \in Blocks /\ hash \in since
  /\ pc \in Accepted => entries = Content[hash] /\ IsInjective(entries)
  /\ pc = "load" => index # ToSet(entries) /\ \E k \in 0..Len(entries) : IsLoaded(k)
  /\ pc \in Loaded => index = ToSet(entries)
  /\ pc \in InTx => todo # <<>>
  /\ pc = "end" => todo = <<>>
  /\ pc \notin InTxs => rows = {} /\ failed = {} /\ params = {}
  /\ pc \notin Accepted => entries = <<>> /\ index = {} /\ todo = <<>>
  /\ pc # "idle" => best \in since

(* Nobody takes an address for managed that is not, while no caller of a   *)
(* verification has said so.                                               *)
HitsReal ==
  /\ hits \subseteq registered /\ params \subseteq registered
  /\ pc \in InTxs => rows \subseteq LegsOf(hash, registered)

RealInv ==
  /\ caching <=> pc \in Accepted
  /\ \A l \in late : l.addr \in Addresses
  /\ knew \subseteq registered
  /\ "caller" \notin happened => HitsReal
  /\ RowsAreReal

(* The host has answered, in time, and for the account.                    *)
Truthful == happened \cap BadLookups = {}

(* All that t does to managed addresses is in the rows, except for inputs  *)
(* when a prevout did not come.                                            *)
Settled(t) ==
  /\ \A a \in Outs[t] : a \in misses \/ Leg(t, "out", [made |-> t, addr |-> a]) \in rows
  /\ "prevout" \notin happened =>
       \A c \in Ins[t] : c.addr \in misses \/ Leg(t, "in", c) \in rows

(* What the loop at pc has left.                                           *)
LoopInv ==
  /\ pc = "candidate" => \A t \in index : Candidates(filled, t) \subseteq left \cup misses
  /\ pc \in {"touch", "again"} => Candidates(filled, Current) \subseteq left \cup misses
  /\ pc = "vins" => \A c \in Ins[Current] : AddressKnown(filled, Current, c) =>
                      c.addr \in left \cup misses \/ <<Current, c>> \in filled
  /\ pc = "param" =>
       /\ Candidates(filled, Current) \subseteq left \cup misses \cup params
       /\ \A c \in Ins[Current] : AddressKnown(filled, Current, c) =>
            c.addr \in misses \/ <<Current, c>> \in filled

DoneInv ==
  pc \in InTxs => \A t \in ToSet(entries) : t \in ToSet(todo) \cup failed \/ Settled(t)

TruthInv ==
  pc # "idle" /\ Truthful =>
    /\ misses \cap knew = {}
    /\ params \subseteq hits
    /\ pc \in InTxs => rows \subseteq LegsOf(hash, hits)
    /\ LoopInv
    /\ DoneInv

(* Every input has its address, or takes it from the same block.           *)
PrevoutInv ==
  pc \in Prepared /\ "prevout" \notin happened =>
    \A t \in index : Unresolved(t) = {}

IInv == TypeOK /\ BlockInv /\ RealInv /\ TruthInv /\ PrevoutInv /\ DepositsKept

-----------------------------------------------------------------------------
(* The data.                                                               *)

LEMMA BlockTxs ==
  ASSUME NEW b \in Blocks
  PROVE  Content[b] \in Seq(Txs) /\ Content[b] # <<>> /\ ToSet(Content[b]) \subseteq Txs
<1>1. Content[b] \in Seq(Txs) /\ Content[b] # <<>>
      BY BlockDataAssumption
<1>2. ToSet(Content[b]) \subseteq Txs
      BY <1>1 DEF ToSet
<1> QED
    BY <1>1, <1>2

LEMMA TxAddresses ==
  ASSUME NEW t \in Txs
  PROVE  /\ Ins[t] \subseteq Coins /\ Outs[t] \subseteq Addresses
         /\ \A c \in Ins[t] : c.addr \in Addresses
         /\ \A fill : Candidates(fill, t) \subseteq Addresses
<1>1. Ins[t] \subseteq Coins /\ Outs[t] \subseteq Addresses
      BY DEF Coins, Addresses
<1>2. ASSUME NEW c \in Ins[t]
      PROVE  c.addr \in Addresses
  <2>1. c \in UNION {Ins[u] : u \in Txs}
        OBVIOUS
  <2>2. c.addr \in {d.addr : d \in UNION {Ins[u] : u \in Txs}}
        BY <2>1
  <2> QED
      BY <2>2 DEF Addresses
<1> QED
    BY <1>1, <1>2 DEF Candidates

LEMMA Elements ==
  ASSUME NEW S, NEW s \in Seq(S)
  PROVE  /\ ToSet(s) \subseteq S /\ s \in Seq(ToSet(s))
         /\ s = <<>> <=> ToSet(s) = {}
         /\ s # <<>> => /\ Head(s) \in ToSet(s) /\ Tail(s) \in Seq(S)
                        /\ ToSet(s) = {Head(s)} \cup ToSet(Tail(s))
<1>1. ToSet(s) \subseteq S /\ s \in Seq(ToSet(s))
      BY DEF ToSet
<1>2. ASSUME s # <<>>
      PROVE  /\ Head(s) \in ToSet(s) /\ Tail(s) \in Seq(S)
             /\ ToSet(s) = {Head(s)} \cup ToSet(Tail(s))
  <2>1. Len(s) \in Nat \ {0} /\ Tail(s) \in Seq(S) /\ Head(s) = s[1]
        BY <1>2
  <2>2. Len(Tail(s)) = Len(s) - 1 /\ \A i \in 1..(Len(s) - 1) : Tail(s)[i] = s[i + 1]
        BY <1>2
  <2>3. DOMAIN s = 1..Len(s) /\ DOMAIN Tail(s) = 1..(Len(s) - 1)
        BY <2>1, <2>2
  <2>4. ASSUME NEW i \in DOMAIN s
        PROVE  s[i] \in {Head(s)} \cup ToSet(Tail(s))
    <3>1. CASE i = 1
          BY <2>1, <3>1
    <3>2. CASE i # 1
      <4>1. i - 1 \in 1..(Len(s) - 1) /\ s[i] = Tail(s)[i - 1]
            BY <2>1, <2>2, <2>3, <3>2
      <4> QED
          BY <2>3, <4>1 DEF ToSet
    <3> QED
        BY <3>1, <3>2
  <2>5. ASSUME NEW i \in DOMAIN Tail(s)
        PROVE  Tail(s)[i] \in ToSet(s)
    <3>1. i + 1 \in DOMAIN s /\ Tail(s)[i] = s[i + 1]
          BY <2>1, <2>2, <2>3
    <3> QED
        BY <3>1 DEF ToSet
  <2>6. Head(s) \in ToSet(s)
        BY <2>1, <2>3 DEF ToSet
  <2> QED
      BY <2>1, <2>4, <2>5, <2>6 DEF ToSet
<1>3. s = <<>> => ToSet(s) = {}
      BY DEF ToSet
<1> QED
    BY <1>1, <1>2, <1>3

(* Of all answers only the block that was asked for is accepted.           *)
LEMMA Genuine ==
  ASSUME hash \in Blocks, NEW r \in Answers(hash) \cup BadAnswers(hash), BlockIntegrity(r)
  PROVE  r.entries = Content[hash] /\ IsInjective(r.entries)
<1> DEFINE txs == Content[hash]
<1>1. txs \in Seq(Txs) /\ txs # <<>> /\ Len(txs) \in Nat \ {0}
      BY BlockTxs
<1>2. CASE r \in Answers(hash)
      BY <1>2 DEF Answers, BlockIntegrity
<1>3. CASE r \in BadAnswers(hash)
  <2>1. r.hash = hash /\ Len(r.entries) = Len(txs)
        BY <1>1, <1>3 DEF BadAnswers, BlockIntegrity
  <2>2. r.entries \in {Front(txs), Append(Front(txs), Head(txs))}
        BY <1>3, <2>1 DEF BadAnswers
  <2>3. /\ Front(txs) \in Seq(Txs) /\ Len(Front(txs)) = Len(txs) - 1
        /\ \A i \in 1..(Len(txs) - 1) : Front(txs)[i] = txs[i]
        BY <1>1 DEF Front
  <2>4. r.entries = Append(Front(txs), Head(txs))
        BY <1>1, <2>1, <2>2, <2>3
  <2>5. CASE Len(txs) = 1
    <3>1. Front(txs) = <<>>
          BY <2>3, <2>5
    <3>2. r.entries = <<Head(txs)>> /\ txs = <<Head(txs)>>
          BY <1>1, <2>4, <2>5, <3>1
    <3> QED
        BY <3>2 DEF BlockIntegrity
  <2>6. CASE Len(txs) # 1
    <3>1. 1 \in DOMAIN r.entries /\ Len(txs) \in DOMAIN r.entries
          BY <1>1, <2>1, <2>3, <2>4
    <3>2. Head(txs) = txs[1] /\ Head(txs) \in Txs
          BY <1>1
    <3>3. r.entries[1] = txs[1]
          BY <1>1, <2>3, <2>4, <2>6, <3>2
    <3>4. r.entries[Len(txs)] = txs[1]
          BY <1>1, <2>3, <2>4, <3>2
    <3> QED
        BY <1>1, <2>6, <3>1, <3>3, <3>4 DEF BlockIntegrity, IsInjective
  <2> QED
      BY <2>5, <2>6
<1> QED
    BY <1>2, <1>3

-----------------------------------------------------------------------------
(* The steps.                                                              *)

(* A call that ends. With Success it has come to its end or found nothing. *)
Ends(ok) ==
  /\ pc # "idle"
  /\ Return(ok)
  /\ NoFault \/ \E kind \in FaultKinds : Fault(kind)
  /\ ok => NoFault /\ ((pc = "end" /\ failed = {}) \/ (pc = "candidate" /\ left = {}))

Accepts(r) ==
  /\ pc = "block"
  /\ BlockIntegrity(r)
  /\ NoFault \/ Fault("response")
  /\ AcceptBlock(r)

Loads ==
  /\ pc = "load"
  /\ NoFault
  /\ index' = index \cup {entries[Cardinality(index) + 1]}
  /\ pc' = IF index' = ToSet(entries) THEN "batch" ELSE "load"
  /\ UNCHANGED <<chainVars, hash, entries, filled, loopVars, resVars, result, cacheVars,
                 late, since, knew>>

Asks(a, hit) ==
  AskCandidate(a, hit) \/ AskTouch(a, hit) \/ AskVin(a, hit) \/ AskParam(a, hit)

Verifies(a) == \E hit \in BOOLEAN : VerifyQueries(a, hit) \/ VerifyAsks(a, hit)

LEMMA Steps ==
  ASSUME Next
  PROVE  \/ Begin \/ GetBlockHash \/ Loads \/ BatchLookup \/ FillPrevouts \/ RefillPrevouts
         \/ NotTouched \/ VinsAsked \/ ExtractTx \/ VerifyStores
         \/ \E ok \in BOOLEAN : Ends(ok)
         \/ \E r \in Answers(hash) \cup BadAnswers(hash) : Accepts(r)
         \/ \E a \in left : \E hit \in BOOLEAN : Asks(a, hit)
         \/ \E b \in Blocks : NodeReorganises(b)
         \/ \E a \in Addresses : HostRegisters(a) \/ Verifies(a)
<1>1. CASE RPCFails
  <2>1. Ends(FALSE)
        BY <1>1 DEF RPCFails, Ends, FaultKinds
  <2> QED
      BY <2>1
<1>2. ASSUME NEW r \in Answers(hash) \cup BadAnswers(hash), GetBlock(r)
      PROVE  Accepts(r) \/ Ends(FALSE)
      BY <1>2 DEF GetBlock, Accepts, Ends, FaultKinds
<1>3. CASE LoadTx
  <2>1. Loads \/ Ends(FALSE)
        BY <1>3 DEF LoadTx, Loads, Ends
  <2> QED
      BY <2>1
<1>4. CASE NoCandidate
  <2>1. Ends(TRUE)
        BY <1>4 DEF NoCandidate, Ends
  <2> QED
      BY <2>1
<1>5. CASE Finalize
  <2>1. PICK ok \in BOOLEAN : ok = Succeeded
        BY DEF Succeeded
  <2>2. pc = "end" /\ NoFault /\ Return(ok)
        BY <1>5, <2>1 DEF Finalize
  <2>3. ok => failed = {}
        BY <2>1 DEF Succeeded
  <2>4. Ends(ok)
        BY <2>2, <2>3 DEF Ends
  <2> QED
      BY <2>4
<1>6. CASE \E r \in (IF pc = "block" THEN Answers(hash) \cup BadAnswers(hash) ELSE {}) :
             GetBlock(r)
      BY <1>2, <1>6
<1>7. CASE Others
      BY <1>7 DEF Others, Verifies
<1>8. CASE \E a \in left : \E hit \in BOOLEAN :
             AskCandidate(a, hit) \/ AskTouch(a, hit) \/ AskVin(a, hit) \/ AskParam(a, hit)
      BY <1>8 DEF Asks
<1> QED
    BY <1>1, <1>3, <1>4, <1>5, <1>6, <1>7, <1>8 DEF Next, Scan

LEMMA FaultFacts ==
  ASSUME TypeOK, NoFault \/ \E kind \in FaultKinds : Fault(kind)
  PROVE  /\ faults' \in 0..MaxFaults /\ happened' \subseteq Faults
         /\ happened \subseteq happened'
<1>1. faults \in 0..MaxFaults /\ MaxFaults \in Nat /\ happened \subseteq Faults
      BY FaultsAssumption DEF TypeOK
<1>2. CASE NoFault
      BY <1>1, <1>2 DEF NoFault, faultVars
<1>3. ASSUME NEW kind \in FaultKinds, Fault(kind)
      PROVE  /\ faults' \in 0..MaxFaults /\ happened' \subseteq Faults
             /\ happened \subseteq happened'
  <2>1. faults' = faults + 1 /\ faults < MaxFaults /\ kind \in Faults
        BY <1>3 DEF Fault
  <2>2. happened' = happened \cup {kind}
        BY <1>3 DEF Fault
  <2> QED
      BY <1>1, <2>1, <2>2
<1> QED
    BY <1>2, <1>3

(* The cache after a lookup of one address.                                *)
LEMMA QueryFacts ==
  ASSUME TypeOK, NEW a \in Addresses, NEW hit \in BOOLEAN, Query(a, hit)
  PROVE  /\ NoFault \/ Fault("lookup")
         /\ caching' = caching
         /\ hits \subseteq hits' /\ hits' \subseteq hits \cup ({a} \cap registered)
         /\ misses \subseteq misses' /\ misses' \subseteq misses \cup ({a} \ registered)
         /\ hits' \cap misses' = {}
         /\ hit => a \in hits'
         /\ ~hit => a \in misses' \/ "lookup" \in happened'
<1>1. hits \cap misses = {}
      BY DEF TypeOK
<1>2. CASE a \in hits \cup misses /\ hit = (a \in hits) /\ NoFault /\ UNCHANGED cacheVars
      BY <1>1, <1>2 DEF cacheVars, TypeOK
<1>3. CASE /\ a \notin hits \cup misses /\ hit = (a \in registered)
           /\ IF hit THEN Store({a}, {}) ELSE Store({}, {a})
           /\ NoFault /\ UNCHANGED caching
      BY <1>1, <1>3 DEF Store
<1>4. CASE a \notin hits \cup misses /\ ~hit /\ Fault("lookup") /\ UNCHANGED cacheVars
      BY <1>1, <1>4 DEF cacheVars, Fault, TypeOK
<1> QED
    BY <1>2, <1>3, <1>4 DEF Query

(* The inputs after fillVinAddresses.                                      *)
LEMMA FillFacts ==
  ASSUME TypeOK, NEW T, T \subseteq index, FillVins(T)
  PROVE  /\ NoFault \/ Fault("prevout")
         /\ filled \subseteq filled' /\ filled' \subseteq Txs \X Coins
         /\ "prevout" \notin happened' =>
              \A t \in T : \A c \in Ins[t] : <<t, c>> \in filled' \/ c.made \in index
<1> DEFINE needy == {t \in T : Unresolved(t) # {}}
           local == {i \in Inputs(needy) : i[2].made \in index}
           missing == UNION {{t} \X Unresolved(t) : t \in needy}
<1>1. \/ filled' = filled \cup local \cup missing /\ NoFault
      \/ \E lost \in (SUBSET missing) \ {{}} :
           filled' = filled \cup local \cup (missing \ lost) /\ Fault("prevout")
      BY DEF FillVins
<1>2. needy \subseteq Txs
  <2>1. entries \in Seq(Txs) /\ index \subseteq ToSet(entries)
        BY DEF TypeOK
  <2> QED
      BY <2>1, Elements
<1>3. local \subseteq Txs \X Coins /\ missing \subseteq Txs \X Coins
      BY <1>2, TxAddresses DEF Inputs, Unresolved
<1>4. NoFault \/ Fault("prevout")
      BY <1>1
<1>5. filled \subseteq filled' /\ filled' \subseteq Txs \X Coins
      BY <1>1, <1>3 DEF TypeOK
<1>6. ASSUME "prevout" \notin happened', NEW t \in T, NEW c \in Ins[t]
      PROVE  <<t, c>> \in filled' \/ c.made \in index
  <2>1. filled' = filled \cup local \cup missing
        BY <1>1, <1>6 DEF Fault
  <2>2. CASE c \in Unresolved(t)
    <3>1. t \in needy /\ <<t, c>> \in {t} \X Unresolved(t)
          BY <2>2
    <3>2. <<t, c>> \in missing
          BY <3>1
    <3> QED
        BY <2>1, <3>2
  <2>3. CASE c \notin Unresolved(t)
        BY <2>1, <2>3 DEF Unresolved, AddressKnown
  <2> QED
      BY <2>2, <2>3
<1> QED
    BY <1>4, <1>5, <1>6

LEMMA GoToFacts ==
  ASSUME TypeOK, NEW txs \in Seq(ToSet(entries)), GoTo(txs)
  PROVE  /\ todo' = txs /\ params' = {} /\ left' \subseteq Addresses
         /\ pc' = IF txs = <<>> THEN "end" ELSE "touch"
<1>1. entries \in Seq(Txs)
      BY DEF TypeOK
<1>2. txs # <<>> => Head(txs) \in Txs
      BY <1>1, Elements
<1> QED
    BY <1>2, TxAddresses DEF GoTo

LEMMA CurrentFacts ==
  ASSUME TypeOK, todo # <<>>
  PROVE  /\ Current \in Txs /\ Current \in ToSet(entries) /\ Tail(todo) \in Seq(ToSet(entries))
         /\ ToSet(todo) = {Current} \cup ToSet(Tail(todo))
<1>1. entries \in Seq(Txs) /\ todo \in Seq(ToSet(entries))
      BY DEF TypeOK
<1> QED
    BY <1>1, Elements DEF Current

-----------------------------------------------------------------------------
(* Types.                                                                  *)

LEMMA EndsType ==
  ASSUME TypeOK, NEW ok \in BOOLEAN, Ends(ok)
  PROVE  TypeOK'
<1>1. faults' \in 0..MaxFaults /\ happened' \subseteq Faults
      BY FaultFacts DEF Ends
<1>2. /\ UNCHANGED <<best, registered>> /\ pc' = "idle"
      /\ hash' = NoHash /\ entries' = <<>> /\ index' = {} /\ filled' = {}
      /\ todo' = <<>> /\ left' = {} /\ params' = {} /\ failed' = {}
      /\ hits' = {} /\ misses' = {}
      BY DEF Ends, Return, ClearCache, chainVars
<1> QED
    BY <1>1, <1>2 DEF TypeOK, Locations

LEMMA AskType ==
  ASSUME TypeOK, BlockInv, RealInv, NEW a \in left, NEW hit \in BOOLEAN, Asks(a, hit)
  PROVE  TypeOK'
<1>1. a \in Addresses
      BY DEF TypeOK
<1>2. /\ Query(a, hit)
      /\ UNCHANGED <<best, registered, hash, entries, index, failed>>
      /\ pc \in {"candidate", "touch", "again", "vins", "param"}
      BY DEF Asks, AskCandidate, AskTouch, AskVin, AskParam, Ask, chainVars, blockVars
<1>3. /\ faults' \in 0..MaxFaults /\ happened' \subseteq Faults
      BY <1>1, <1>2, QueryFacts, FaultFacts DEF FaultKinds
<1>4. hits' \subseteq Addresses /\ misses' \subseteq Addresses /\ hits' \cap misses' = {}
      BY <1>1, <1>2, QueryFacts DEF TypeOK
<1>5. pc' \in Locations /\ todo' \in Seq(ToSet(entries)) /\ left' \subseteq Addresses
      /\ params' \subseteq Addresses /\ filled' \subseteq Txs \X Coins
  <2>1. CASE AskCandidate(a, hit)
    <3>1. entries \in Seq(ToSet(entries)) /\ filled' = filled
          BY <2>1, Elements DEF TypeOK, AskCandidate
    <3>2. CASE hit
      <4>1. GoTo(entries)
            BY <2>1, <3>2 DEF AskCandidate
      <4> QED
          BY <3>1, <4>1, GoToFacts DEF TypeOK, Locations
    <3>3. CASE ~hit
          BY <2>1, <3>1, <3>3 DEF AskCandidate, StayAsking, TypeOK
    <3> QED
        BY <3>2, <3>3
  <2>2. CASE AskTouch(a, hit)
    <3>1. todo' = todo /\ params' = params /\ filled' = filled
          BY <2>2 DEF AskTouch, StayAsking
    <3>2. pc' \in Locations
          BY <2>2 DEF AskTouch, StayAsking, TypeOK, Locations
    <3>3. left' \subseteq Addresses
      <4>1. pc = "again" => Current \in Txs
            BY CurrentFacts DEF BlockInv, InTx
      <4> QED
          BY <2>2, <4>1, TxAddresses DEF AskTouch, StayAsking, TypeOK
    <3> QED
        BY <3>1, <3>2, <3>3 DEF TypeOK
  <2>3. CASE AskVin(a, hit)
    <3>1. Current \in Txs
          BY <2>3, CurrentFacts DEF BlockInv, InTx, AskVin
    <3>2. filled' \subseteq Txs \X Coins
          BY <2>3, <3>1, TxAddresses DEF AskVin, TypeOK
    <3> QED
        BY <2>3, <3>2 DEF AskVin, StayAsking, TypeOK
  <2>4. CASE AskParam(a, hit)
        BY <1>1, <2>4 DEF AskParam, TypeOK
  <2> QED
      BY <2>1, <2>2, <2>3, <2>4 DEF Asks
<1>6. caching'
      BY <1>1, <1>2, QueryFacts DEF RealInv, Accepted, Loaded, Prepared, InTxs, InTx
<1> QED
    BY <1>2, <1>3, <1>4, <1>5, <1>6 DEF TypeOK

LEMMA TypeStep == TypeOK /\ BlockInv /\ RealInv /\ [Next]_vars => TypeOK'
<1> SUFFICES ASSUME TypeOK, BlockInv, RealInv, Next
             PROVE  TypeOK'
    BY DEF TypeOK, vars, chainVars, blockVars, loopVars, resVars, cacheVars, faultVars
<1>1. entries \in Seq(Txs) /\ ToSet(entries) \subseteq Txs /\ index \subseteq ToSet(entries)
      BY Elements DEF TypeOK
<1>2. ASSUME NEW ok \in BOOLEAN, Ends(ok)
      PROVE  TypeOK'
      BY <1>2, EndsType
<1>3. ASSUME NEW a \in left, NEW hit \in BOOLEAN, Asks(a, hit)
      PROVE  TypeOK'
      BY <1>3, AskType
<1>4. CASE Begin
      BY <1>4 DEF Begin, TypeOK, Locations, chainVars, blockVars, loopVars, resVars,
                  cacheVars
<1>5. CASE GetBlockHash
      BY <1>5 DEF GetBlockHash, TypeOK, Locations, NoFault, chainVars, loopVars, resVars,
                  cacheVars, faultVars
<1>6. ASSUME NEW r \in Answers(hash) \cup BadAnswers(hash), Accepts(r)
      PROVE  TypeOK'
  <2>1. hash \in Blocks
        BY <1>6 DEF Accepts, BlockInv
  <2>2. r.entries = Content[hash]
        BY <1>6, <2>1, Genuine DEF Accepts
  <2>3. entries' \in Seq(Txs) /\ index' \subseteq ToSet(entries')
        BY <1>6, <2>1, <2>2, BlockTxs DEF Accepts, AcceptBlock, ToSet
  <2>4. filled' \subseteq Txs \X Coins
        BY <1>6, TxAddresses DEF Accepts, AcceptBlock, Inputs
  <2>5. todo' = <<>> /\ failed' = {}
        BY <1>6 DEF Accepts, AcceptBlock, BlockInv, Accepted, Loaded, Prepared, InTxs, InTx,
                    loopVars, resVars
  <2>6. faults' \in 0..MaxFaults /\ happened' \subseteq Faults
        BY <1>6, FaultFacts DEF Accepts, FaultKinds
  <2>7. pc' \in Locations
        BY <1>6 DEF Accepts, AcceptBlock, Locations
  <2> QED
      BY <1>6, <2>1, <2>3, <2>4, <2>5, <2>6, <2>7
      DEF Accepts, AcceptBlock, TypeOK, chainVars, loopVars
<1>7. CASE Loads
  <2>1. PICK k \in 0..Len(entries) : IsLoaded(k)
        BY <1>7 DEF Loads, BlockInv
  <2>2. k # Len(entries)
    <3>1. index # ToSet(entries) /\ DOMAIN entries = 1..Len(entries)
          BY <1>1, <1>7 DEF Loads, BlockInv
    <3> QED
        BY <2>1, <3>1 DEF IsLoaded, ToSet
  <2>3. entries[Cardinality(index) + 1] \in ToSet(entries)
    <3>1. k + 1 \in DOMAIN entries /\ Cardinality(index) = k
          BY <1>1, <2>1, <2>2 DEF IsLoaded
    <3> QED
        BY <3>1 DEF ToSet
  <2>4. index' \subseteq ToSet(entries)
        BY <1>1, <1>7, <2>3 DEF Loads
  <2> QED
      BY <1>7, <2>4 DEF Loads, TypeOK, Locations, NoFault, chainVars, loopVars, resVars,
                        cacheVars, faultVars
<1>8. CASE BatchLookup
  <2> DEFINE asked == UNION {Candidates(filled, t) : t \in index}
  <2>1. asked \subseteq Addresses
        BY <1>1, TxAddresses
  <2>2. faults' \in 0..MaxFaults /\ happened' \subseteq Faults
        BY <1>8, FaultFacts DEF BatchLookup, FaultKinds
  <2>3. caching
        BY <1>8 DEF BatchLookup, RealInv, Accepted, Loaded
  <2>4. hits' \subseteq Addresses /\ misses' \subseteq Addresses /\ hits' \cap misses' = {}
        BY <1>8, <2>1 DEF BatchLookup, Store, TypeOK
  <2> QED
      BY <1>8, <2>2, <2>3, <2>4
      DEF BatchLookup, TypeOK, Locations, chainVars, blockVars, loopVars, resVars
<1>9. CASE FillPrevouts
  <2>1. filled' \subseteq Txs \X Coins /\ faults' \in 0..MaxFaults /\ happened' \subseteq Faults
        BY <1>9, FillFacts, FaultFacts DEF FillPrevouts, FaultKinds
  <2>2. left' \subseteq Addresses
        BY <1>1, <1>9, TxAddresses DEF FillPrevouts
  <2> QED
      BY <1>9, <2>1, <2>2 DEF FillPrevouts, TypeOK, Locations, chainVars, blockVars, resVars,
                              cacheVars
<1>10. CASE RefillPrevouts
  <2>1. Current \in Txs /\ Current \in ToSet(entries) /\ index = ToSet(entries)
        BY <1>10, CurrentFacts DEF RefillPrevouts, BlockInv, InTx, Loaded, Prepared, InTxs
  <2>2. filled' \subseteq Txs \X Coins /\ faults' \in 0..MaxFaults /\ happened' \subseteq Faults
    <3>1. {Current} \subseteq index /\ FillVins({Current})
          BY <1>10, <2>1 DEF RefillPrevouts
    <3> QED
        BY <3>1, FillFacts, FaultFacts DEF FaultKinds
  <2>3. left' \subseteq Addresses
        BY <1>10, <2>1, TxAddresses DEF RefillPrevouts
  <2> QED
      BY <1>10, <2>2, <2>3 DEF RefillPrevouts, TypeOK, Locations, chainVars, blockVars,
                               resVars, cacheVars
<1>11. CASE NotTouched
  <2>1. Tail(todo) \in Seq(ToSet(entries)) /\ GoTo(Tail(todo))
        BY <1>11, CurrentFacts DEF NotTouched, BlockInv, InTx
  <2> QED
      BY <1>11, <2>1, GoToFacts DEF NotTouched, TypeOK, Locations, NoFault, chainVars,
                                    blockVars, resVars, cacheVars, faultVars
<1>12. CASE VinsAsked
  <2>1. Current \in Txs
        BY <1>12, CurrentFacts DEF VinsAsked, BlockInv, InTx
  <2>2. left' \subseteq Addresses
        BY <1>12, <2>1, TxAddresses DEF VinsAsked
  <2> QED
      BY <1>12, <2>2 DEF VinsAsked, TypeOK, Locations, NoFault, chainVars, blockVars,
                         resVars, cacheVars, faultVars
<1>13. CASE ExtractTx
  <2>1. /\ Current \in ToSet(entries) /\ Tail(todo) \in Seq(ToSet(entries))
        /\ GoTo(Tail(todo))
        BY <1>13, CurrentFacts DEF ExtractTx, BlockInv, InTx
  <2>2. failed' \subseteq ToSet(entries)
        BY <1>13, <2>1 DEF ExtractTx, TypeOK
  <2>3. NoFault \/ \E kind \in FaultKinds : Fault(kind)
        BY <1>13 DEF ExtractTx, ExtractionFails, FaultKinds
  <2>4. faults' \in 0..MaxFaults /\ happened' \subseteq Faults
        BY <2>3, FaultFacts
  <2> QED
      BY <1>13, <2>1, <2>2, <2>4, GoToFacts
      DEF ExtractTx, TypeOK, Locations, chainVars, blockVars, cacheVars
<1>14. ASSUME NEW b \in Blocks, NodeReorganises(b)
       PROVE  TypeOK'
       BY <1>14 DEF NodeReorganises, TypeOK, blockVars, loopVars, resVars, cacheVars, faultVars
<1>15. ASSUME NEW a \in Addresses, HostRegisters(a) \/ Verifies(a)
       PROVE  TypeOK'
  <2>1. CASE HostRegisters(a)
        BY <2>1 DEF HostRegisters, TypeOK, blockVars, loopVars, resVars, cacheVars, faultVars
  <2>2. ASSUME NEW hit \in BOOLEAN, VerifyQueries(a, hit)
        PROVE  TypeOK'
    <3>1. hits' \subseteq Addresses /\ misses' \subseteq Addresses /\ hits' \cap misses' = {}
          BY <2>2 DEF VerifyQueries, Store, TypeOK
    <3>2. faults' \in 0..MaxFaults /\ happened' \subseteq Faults
          BY <2>2, FaultFacts DEF VerifyQueries, FaultKinds
    <3> QED
        BY <2>2, <3>1, <3>2 DEF VerifyQueries, TypeOK, chainVars, blockVars, loopVars, resVars
  <2>3. ASSUME NEW hit \in BOOLEAN, VerifyAsks(a, hit)
        PROVE  TypeOK'
        BY <2>3 DEF VerifyAsks, TypeOK, chainVars, blockVars, loopVars, resVars, cacheVars,
                    faultVars
  <2> QED
      BY <1>15, <2>1, <2>2, <2>3 DEF Verifies
<1>16. CASE VerifyStores
  <2>1. PICK l \in late : IF l.hit THEN Store({l.addr}, {}) ELSE Store({}, {l.addr})
        BY <1>16 DEF VerifyStores
  <2>2. l.addr \in Addresses
        BY <2>1 DEF RealInv
  <2>3. hits' \subseteq Addresses /\ misses' \subseteq Addresses /\ hits' \cap misses' = {}
        BY <2>1, <2>2 DEF Store, TypeOK
  <2>4. faults' \in 0..MaxFaults /\ happened' \subseteq Faults
        BY <1>16, FaultFacts DEF VerifyStores, FaultKinds
  <2> QED
      BY <1>16, <2>3, <2>4 DEF VerifyStores, TypeOK, chainVars, blockVars, loopVars, resVars
<1> QED
    BY <1>2, <1>3, <1>4, <1>5, <1>6, <1>7, <1>8, <1>9, <1>10, <1>11, <1>12, <1>13, <1>14,
       <1>15, <1>16, Steps

-----------------------------------------------------------------------------
(* The block.                                                              *)

LEMMA BlockStep == TypeOK /\ BlockInv /\ [Next]_vars => BlockInv'
<1> SUFFICES ASSUME TypeOK, BlockInv, Next
             PROVE  BlockInv'
    BY DEF BlockInv, vars, chainVars, blockVars, loopVars, resVars, cacheVars, faultVars, IsLoaded
<1> USE DEF InTx, InTxs, Prepared, Loaded, Accepted
<1>1. entries \in Seq(Txs) /\ index \subseteq ToSet(entries)
      BY DEF TypeOK
<1>2. ASSUME NEW ok \in BOOLEAN, Ends(ok)
      PROVE  BlockInv'
      BY <1>2 DEF Ends, Return, BlockInv
<1>3. ASSUME NEW a \in left, NEW hit \in BOOLEAN, Asks(a, hit)
      PROVE  BlockInv'
  <2>1. UNCHANGED <<best, hash, entries, index, rows, failed, since>>
        BY <1>3 DEF Asks, AskCandidate, AskTouch, AskVin, AskParam, Ask, chainVars, blockVars
  <2>2. CASE AskCandidate(a, hit)
    <3>1. CASE hit
      <4>1. entries \in Seq(ToSet(entries)) /\ GoTo(entries)
            BY <1>1, <2>2, <3>1, Elements DEF AskCandidate
      <4> QED
          BY <2>1, <2>2, <4>1, GoToFacts DEF AskCandidate, BlockInv
    <3>2. CASE ~hit
          BY <2>1, <2>2, <3>2 DEF AskCandidate, StayAsking, BlockInv
    <3> QED
        BY <3>1, <3>2
  <2>3. CASE AskTouch(a, hit)
        BY <2>1, <2>3 DEF AskTouch, StayAsking, BlockInv
  <2>4. CASE AskVin(a, hit)
        BY <2>1, <2>4 DEF AskVin, StayAsking, BlockInv
  <2>5. CASE AskParam(a, hit)
        BY <2>1, <2>5 DEF AskParam, BlockInv
  <2> QED
      BY <1>3, <2>2, <2>3, <2>4, <2>5 DEF Asks
<1>4. CASE Begin
      BY <1>4 DEF Begin, BlockInv, chainVars, blockVars, loopVars, resVars
<1>5. CASE GetBlockHash
      BY <1>5 DEF GetBlockHash, BlockInv, TypeOK, chainVars, loopVars, resVars
<1>6. ASSUME NEW r \in Answers(hash) \cup BadAnswers(hash), Accepts(r)
      PROVE  BlockInv'
  <2>1. pc = "block" /\ hash \in Blocks /\ index = {}
        BY <1>6 DEF Accepts, BlockInv
  <2>2. entries' = Content[hash] /\ IsInjective(entries') /\ hash' = hash
        BY <1>6, <2>1, Genuine DEF Accepts, AcceptBlock
  <2>3. entries' \in Seq(Txs) /\ entries' # <<>>
        BY <2>1, <2>2, BlockTxs
  <2>4. CASE r.verbose
        BY <1>6, <2>1, <2>2, <2>4 DEF Accepts, AcceptBlock, BlockInv, chainVars, loopVars, resVars
  <2>5. CASE ~r.verbose
    <3>1. pc' = "load" /\ index' = {}
          BY <1>6, <2>5 DEF Accepts, AcceptBlock
    <3>2. index' # ToSet(entries')
          BY <2>3, <3>1, Elements
    <3>3. IsLoaded(0)'
          BY <3>1, FS_EmptySet DEF IsLoaded
    <3>4. 0 \in 0..Len(entries')
          BY <2>3
    <3> QED
        BY <1>6, <2>1, <2>2, <3>1, <3>2, <3>3, <3>4
        DEF Accepts, AcceptBlock, BlockInv, chainVars, loopVars, resVars
  <2> QED
      BY <2>4, <2>5
<1>7. CASE Loads
  <2>1. PICK k \in 0..Len(entries) : IsLoaded(k)
        BY <1>7 DEF Loads, BlockInv
  <2>2. DOMAIN entries = 1..Len(entries) /\ Len(entries) \in Nat
        BY <1>1
  <2>3. k # Len(entries)
    <3>1. index # ToSet(entries)
          BY <1>7 DEF Loads, BlockInv
    <3> QED
        BY <2>1, <2>2, <3>1 DEF IsLoaded, ToSet
  <2>4. k + 1 \in DOMAIN entries /\ k + 1 \in 0..Len(entries) /\ Cardinality(index) = k
    <3>1. Cardinality(index) = k
          BY <2>1 DEF IsLoaded
    <3>2. k \in Nat /\ k + 1 <= Len(entries)
          BY <1>1, <2>3
    <3> QED
        BY <2>2, <3>1, <3>2
  <2>5. entries[k + 1] \notin index
    <3>1. IsInjective(entries)
          BY <1>7 DEF Loads, BlockInv
    <3> QED
        BY <2>1, <2>2, <2>4, <3>1 DEF IsLoaded, IsInjective
  <2>6. index' = index \cup {entries[k + 1]} /\ entries' = entries
        BY <1>7, <2>4 DEF Loads
  <2>7. index' = {entries[i] : i \in 1..(k + 1)}
        BY <2>1, <2>2, <2>4, <2>6 DEF IsLoaded
  <2>8. IsFiniteSet(index') /\ Cardinality(index') = k + 1
        BY <2>1, <2>4, <2>5, <2>6, FS_AddElement DEF IsLoaded
  <2>9. IsLoaded(k + 1)'
        BY <2>6, <2>7, <2>8 DEF IsLoaded
  <2> QED
      BY <1>7, <2>4, <2>6, <2>9 DEF Loads, BlockInv, chainVars, loopVars, resVars
<1>8. CASE BatchLookup
      BY <1>8 DEF BatchLookup, BlockInv, chainVars, blockVars, loopVars, resVars
<1>9. CASE FillPrevouts
      BY <1>9 DEF FillPrevouts, BlockInv, chainVars, blockVars, resVars
<1>10. CASE RefillPrevouts
       BY <1>10 DEF RefillPrevouts, BlockInv, chainVars, blockVars, resVars
<1>11. CASE NotTouched
  <2>1. Tail(todo) \in Seq(ToSet(entries)) /\ GoTo(Tail(todo))
        BY <1>11, CurrentFacts DEF NotTouched, BlockInv
  <2> QED
      BY <1>11, <2>1, GoToFacts DEF NotTouched, BlockInv, chainVars, blockVars, resVars
<1>12. CASE VinsAsked
       BY <1>12 DEF VinsAsked, BlockInv, chainVars, blockVars, resVars
<1>13. CASE ExtractTx
  <2>1. Tail(todo) \in Seq(ToSet(entries)) /\ GoTo(Tail(todo))
        BY <1>13, CurrentFacts DEF ExtractTx, BlockInv
  <2> QED
      BY <1>13, <2>1, GoToFacts DEF ExtractTx, BlockInv, chainVars, blockVars
<1>14. ASSUME NEW b \in Blocks, NodeReorganises(b)
       PROVE  BlockInv'
  <2>1. \A k : IsLoaded(k)' = IsLoaded(k)
        BY <1>14 DEF NodeReorganises, blockVars, IsLoaded
  <2> QED
      BY <1>14, <2>1 DEF NodeReorganises, BlockInv, blockVars, loopVars, resVars
<1>15. ASSUME \/ VerifyStores
              \/ \E a \in Addresses : HostRegisters(a) \/ Verifies(a)
       PROVE  BlockInv'
  <2>1. UNCHANGED <<best, pc, hash, entries, index, todo, params, rows, failed, since>>
        BY <1>15 DEF HostRegisters, Verifies, VerifyQueries, VerifyAsks, VerifyStores,
                     chainVars, blockVars, loopVars, resVars
  <2> QED
      BY <2>1 DEF BlockInv, IsLoaded
<1> QED
    BY <1>2, <1>3, <1>4, <1>5, <1>6, <1>7, <1>8, <1>9, <1>10, <1>11, <1>12, <1>13, <1>14,
       <1>15, Steps

-----------------------------------------------------------------------------
(* The rows are real.                                                      *)

(* What happened to a call stays with it.                                  *)
LEMMA HappenedGrows ==
  ASSUME TypeOK, Next, ~Begin
  PROVE  happened \subseteq happened'
<1>1. ASSUME NoFault \/ \E kind \in FaultKinds : Fault(kind)
      PROVE  happened \subseteq happened'
      BY <1>1, FaultFacts
<1>2. CASE GetBlockHash \/ Loads \/ NotTouched \/ VinsAsked
      BY <1>1, <1>2 DEF GetBlockHash, Loads, NotTouched, VinsAsked
<1>3. CASE BatchLookup \/ FillPrevouts \/ RefillPrevouts
      BY <1>1, <1>3 DEF BatchLookup, FillPrevouts, RefillPrevouts, FillVins, FaultKinds
<1>4. CASE ExtractTx
      BY <1>1, <1>4 DEF ExtractTx, ExtractionFails, FaultKinds
<1>5. CASE VerifyStores
      BY <1>1, <1>5 DEF VerifyStores, FaultKinds
<1>6. ASSUME NEW ok \in BOOLEAN, Ends(ok)
      PROVE  happened \subseteq happened'
      BY <1>1, <1>6 DEF Ends
<1>7. ASSUME NEW r \in Answers(hash) \cup BadAnswers(hash), Accepts(r)
      PROVE  happened \subseteq happened'
      BY <1>1, <1>7 DEF Accepts, FaultKinds
<1>8. ASSUME NEW a \in left, NEW hit \in BOOLEAN, Asks(a, hit)
      PROVE  happened \subseteq happened'
  <2>1. Query(a, hit)
        BY <1>8 DEF Asks, AskCandidate, AskTouch, AskVin, AskParam, Ask
  <2> QED
      BY <1>1, <2>1 DEF Query, FaultKinds
<1>9. ASSUME NEW b \in Blocks, NodeReorganises(b)
      PROVE  happened \subseteq happened'
      BY <1>9 DEF NodeReorganises, faultVars
<1>10. ASSUME NEW a \in Addresses, HostRegisters(a) \/ Verifies(a)
       PROVE  happened \subseteq happened'
       BY <1>1, <1>10 DEF HostRegisters, Verifies, VerifyQueries, VerifyAsks, FaultKinds, faultVars
<1> QED
    BY <1>2, <1>3, <1>4, <1>5, <1>6, <1>7, <1>8, <1>9, <1>10, Steps

LEMMA LegsGrow ==
  ASSUME NEW K, NEW M, K \subseteq M
  PROVE  /\ \A t : Legs(t, K) \subseteq Legs(t, M)
         /\ \A b : LegsOf(b, K) \subseteq LegsOf(b, M)
<1>1. \A t : Legs(t, K) \subseteq Legs(t, M)
      BY DEF Legs
<1>2. \A b : LegsOf(b, K) \subseteq LegsOf(b, M)
      BY <1>1 DEF LegsOf
<1> QED
    BY <1>1, <1>2

LEMMA ExtractedInBlock ==
  ASSUME TypeOK, BlockInv, pc = "param", NEW K, params \subseteq K
  PROVE  ExtractedLegs \subseteq LegsOf(hash, K)
<1>1. Current \in ToSet(Content[hash])
      BY CurrentFacts DEF BlockInv, InTx, InTxs, Prepared, Loaded, Accepted
<1>2. Legs(Current, params) \subseteq Legs(Current, K)
      BY LegsGrow
<1> QED
    BY <1>1, <1>2 DEF ExtractedLegs, LegsOf

LEMMA RealStep == TypeOK /\ BlockInv /\ RealInv /\ [Next]_vars => RealInv'
<1> SUFFICES ASSUME TypeOK, BlockInv, RealInv, Next
             PROVE  RealInv'
    BY DEF RealInv, HitsReal, RowsAreReal, vars, chainVars, blockVars, loopVars, resVars, cacheVars,
           faultVars
<1> USE DEF InTx, InTxs, Prepared, Loaded, Accepted
<1>0. ASSUME ~Begin, "caller" \notin happened'
      PROVE  HitsReal /\ "caller" \notin happened
      BY <1>0, HappenedGrows DEF RealInv
<1>1. ASSUME NEW ok \in BOOLEAN, Ends(ok)
      PROVE  RealInv'
  <2>1. /\ pc' = "idle" /\ ~caching' /\ hits' = {} /\ params' = {} /\ knew' = {}
        /\ rows' = {} /\ late' = late /\ registered' = registered
        BY <1>1 DEF Ends, Return, ClearCache, chainVars
  <2>2. pc # "idle" /\ ~Begin
        BY <1>1 DEF Ends, Begin
  <2>3. rows # {} /\ "caller" \notin happened' => rows \subseteq LegsOf(hash, registered)
        BY <1>0, <2>2 DEF BlockInv, HitsReal
  <2>4. result'.rows = rows /\ result'.hash = hash /\ result'.happened = happened'
        BY <1>1 DEF Ends, Return
  <2>5. RowsAreReal'
        BY <2>1, <2>3, <2>4 DEF RowsAreReal
  <2> QED
      BY <2>1, <2>5 DEF RealInv, HitsReal
<1>2. ASSUME NEW a \in left, NEW hit \in BOOLEAN, Asks(a, hit)
      PROVE  RealInv'
  <2>1. /\ UNCHANGED <<registered, hash, rows, result, late, knew>> /\ Query(a, hit)
        /\ pc \in Prepared
        BY <1>2 DEF Asks, AskCandidate, AskTouch, AskVin, AskParam, Ask, chainVars, blockVars
  <2>2. /\ caching' = caching /\ hits' \subseteq hits \cup ({a} \cap registered)
        /\ hit => a \in hits'
    <3>1. a \in Addresses
          BY DEF TypeOK
    <3> QED
        BY <2>1, <3>1, QueryFacts
  <2>3. ASSUME "caller" \notin happened'
        PROVE  HitsReal /\ hits' \subseteq registered'
    <3>1. ~Begin
          BY <2>1 DEF Begin
    <3> QED
        BY <1>0, <2>1, <2>2, <2>3, <3>1 DEF HitsReal
  <2>4. pc' \in Prepared /\ ("caller" \notin happened' => HitsReal')
    <3>1. CASE AskCandidate(a, hit)
      <4>1. CASE hit
        <5>1. entries \in Seq(ToSet(entries)) /\ GoTo(entries)
              BY <3>1, <4>1, Elements DEF AskCandidate, TypeOK
        <5>2. pc' \in {"touch", "end"} /\ params' = {} /\ rows = {}
              BY <3>1, <5>1, GoToFacts DEF AskCandidate, BlockInv
        <5> QED
            BY <2>1, <2>3, <5>2 DEF HitsReal
      <4>2. CASE ~hit
            BY <2>1, <2>3, <3>1, <4>2 DEF AskCandidate, StayAsking, HitsReal
      <4> QED
          BY <4>1, <4>2
    <3>2. CASE AskTouch(a, hit)
      <4>1. pc \in InTxs /\ pc' \in InTxs /\ params' = params
            BY <3>2 DEF AskTouch, StayAsking
      <4> QED
          BY <2>1, <2>3, <4>1 DEF HitsReal
    <3>3. CASE AskVin(a, hit)
          BY <2>1, <2>3, <3>3 DEF AskVin, StayAsking, HitsReal
    <3>4. CASE AskParam(a, hit)
      <4>1. "caller" \notin happened' => params' \subseteq registered
            BY <2>1, <2>2, <2>3, <3>4 DEF AskParam, HitsReal
      <4> QED
          BY <2>1, <2>3, <3>4, <4>1 DEF AskParam, HitsReal
    <3> QED
        BY <1>2, <3>1, <3>2, <3>3, <3>4 DEF Asks
  <2> QED
      BY <2>1, <2>2, <2>4 DEF RealInv, RowsAreReal
<1>3. CASE Begin
  <2>1. hits = {} /\ params = {} /\ knew' = registered
        BY <1>3 DEF Begin, BlockInv, RealInv, TypeOK
  <2> QED
      BY <1>3, <2>1 DEF Begin, RealInv, HitsReal, RowsAreReal, chainVars, blockVars, loopVars,
                        resVars, cacheVars
<1>4. CASE GetBlockHash \/ Loads \/ VinsAsked
  <2>1. /\ UNCHANGED <<registered, params, rows, result, late, knew, caching, hits>>
        /\ (pc' \in Accepted) = (pc \in Accepted) /\ (pc' \in InTxs) = (pc \in InTxs)
        /\ pc \in InTxs => hash' = hash
        /\ ~Begin
        BY <1>4 DEF GetBlockHash, Loads, VinsAsked, Begin, chainVars, blockVars, loopVars, resVars,
                    cacheVars
  <2> QED
      BY <1>0, <2>1 DEF RealInv, HitsReal, RowsAreReal
<1>5. ASSUME NEW r \in Answers(hash) \cup BadAnswers(hash), Accepts(r)
      PROVE  RealInv'
  <2>1. rows = {} /\ UNCHANGED <<registered, hash, params, rows, result, hits, late, knew>>
        BY <1>5 DEF Accepts, AcceptBlock, BlockInv, chainVars, loopVars, resVars
  <2>2. caching' /\ pc' \in Accepted /\ ~Begin
        BY <1>5 DEF Accepts, AcceptBlock, Begin
  <2> QED
      BY <1>0, <2>1, <2>2 DEF RealInv, HitsReal, RowsAreReal
<1>6. CASE BatchLookup
  <2>1. ~Begin /\ pc' = "fill" /\ pc = "batch"
        BY <1>6 DEF BatchLookup, Begin
  <2>2. "caller" \notin happened' => hits' \subseteq registered
        BY <1>0, <1>6, <2>1 DEF BatchLookup, Store, HitsReal
  <2> QED
      BY <1>0, <1>6, <2>1, <2>2 DEF BatchLookup, RealInv, HitsReal, RowsAreReal, chainVars,
                                    blockVars, loopVars, resVars
<1>7. CASE FillPrevouts \/ RefillPrevouts
  <2>1. /\ UNCHANGED <<registered, hash, params, rows, result, late, knew, caching, hits>>
        /\ pc \in Accepted /\ pc' \in Accepted /\ (pc' \in InTxs) = (pc \in InTxs)
        /\ ~Begin
        BY <1>7 DEF FillPrevouts, RefillPrevouts, Begin, chainVars, blockVars, resVars, cacheVars
  <2> QED
      BY <1>0, <2>1 DEF RealInv, HitsReal, RowsAreReal
<1>8. CASE NotTouched
  <2>1. Tail(todo) \in Seq(ToSet(entries)) /\ GoTo(Tail(todo)) /\ ~Begin
        BY <1>8, CurrentFacts DEF NotTouched, BlockInv, Begin
  <2>2. pc' \in {"touch", "end"} /\ params' = {}
        BY <2>1, GoToFacts
  <2> QED
      BY <1>0, <1>8, <2>1, <2>2 DEF NotTouched, RealInv, HitsReal, RowsAreReal, chainVars,
                                    blockVars, resVars, cacheVars
<1>9. CASE ExtractTx
  <2>1. Tail(todo) \in Seq(ToSet(entries)) /\ GoTo(Tail(todo)) /\ ~Begin
        BY <1>9, CurrentFacts DEF ExtractTx, BlockInv, Begin
  <2>2. pc' \in {"touch", "end"} /\ params' = {}
        BY <2>1, GoToFacts
  <2>3. HitsReal => ExtractedLegs \subseteq LegsOf(hash, registered)
        BY <1>9, ExtractedInBlock DEF ExtractTx, HitsReal
  <2>4. HitsReal => rows' \subseteq LegsOf(hash, registered)
        BY <1>9, <2>3 DEF ExtractTx, HitsReal
  <2> QED
      BY <1>0, <1>9, <2>1, <2>2, <2>4 DEF ExtractTx, RealInv, HitsReal, RowsAreReal, chainVars,
                                          blockVars, cacheVars
<1>10. ASSUME NEW b \in Blocks, NodeReorganises(b)
       PROVE  RealInv'
       BY <1>10 DEF NodeReorganises, RealInv, HitsReal, RowsAreReal, blockVars, loopVars, resVars,
                    cacheVars, faultVars
<1>11. ASSUME NEW a \in Addresses, HostRegisters(a)
       PROVE  RealInv'
  <2>1. registered \subseteq registered'
        BY <1>11 DEF HostRegisters
  <2>2. \A b : LegsOf(b, registered) \subseteq LegsOf(b, registered')
        BY <2>1, LegsGrow
  <2> QED
      BY <1>11, <2>1, <2>2 DEF HostRegisters, RealInv, HitsReal, RowsAreReal, blockVars, loopVars,
                               resVars, cacheVars, faultVars
<1>12. ASSUME NEW a \in Addresses, NEW hit \in BOOLEAN, VerifyQueries(a, hit)
       PROVE  RealInv'
  <2>1. /\ UNCHANGED <<registered, pc, hash, params, rows, result, knew, late, caching>>
        /\ caching
        BY <1>12 DEF VerifyQueries, chainVars, blockVars, loopVars, resVars
  <2>2. ~Begin
        BY <2>1 DEF Begin, RealInv
  <2>3. hits' \subseteq hits \cup {a} /\ (a \in hits' /\ a \notin hits => hit)
        BY <1>12 DEF VerifyQueries, Store
  <2>4. "caller" \notin happened' => hit = (a \in registered)
        BY <1>12 DEF VerifyQueries, Fault
  <2>5. "caller" \notin happened' => HitsReal'
    <3> SUFFICES ASSUME "caller" \notin happened' PROVE HitsReal'
        OBVIOUS
    <3>1. HitsReal
          BY <1>0, <2>2
    <3>2. hits' \subseteq registered
      <4>1. CASE a \in hits' /\ a \notin hits
            BY <2>3, <2>4, <3>1, <4>1 DEF HitsReal
      <4>2. CASE a \notin hits' \/ a \in hits
            BY <2>3, <3>1, <4>2 DEF HitsReal
      <4> QED
          BY <4>1, <4>2
    <3> QED
        BY <2>1, <3>1, <3>2 DEF HitsReal
  <2> QED
      BY <2>1, <2>5 DEF RealInv, RowsAreReal
<1>13. ASSUME NEW a \in Addresses, NEW hit \in BOOLEAN, VerifyAsks(a, hit)
       PROVE  RealInv'
  <2>1. /\ UNCHANGED <<registered, pc, hash, params, rows, result, knew, caching, hits, happened>>
        /\ late' = {[addr |-> a, hit |-> hit]}
        BY <1>13 DEF VerifyAsks, chainVars, blockVars, loopVars, resVars, cacheVars, faultVars
  <2> QED
      BY <2>1 DEF RealInv, HitsReal, RowsAreReal
<1>14. CASE VerifyStores
  <2>1. PICK l \in late :
          /\ Fault(IF l.hit /\ l.addr \notin registered THEN "caller" ELSE "late")
          /\ IF l.hit THEN Store({l.addr}, {}) ELSE Store({}, {l.addr})
        BY <1>14 DEF VerifyStores
  <2>2. /\ UNCHANGED <<registered, pc, hash, params, rows, result, knew, caching>>
        /\ late' = {} /\ caching
        BY <1>14 DEF VerifyStores, chainVars, blockVars, loopVars, resVars
  <2>3. ~Begin
        BY <2>2 DEF Begin, RealInv
  <2>4. "caller" \notin happened' => ~(l.hit /\ l.addr \notin registered)
        BY <2>1 DEF Fault
  <2>5. "caller" \notin happened' => HitsReal'
        BY <1>0, <2>1, <2>2, <2>3, <2>4 DEF Store, HitsReal
  <2> QED
      BY <2>2, <2>5 DEF RealInv, RowsAreReal
<1> QED
    BY <1>1, <1>2, <1>3, <1>4, <1>5, <1>6, <1>7, <1>8, <1>9, <1>10, <1>11, <1>12, <1>13, <1>14,
       Steps DEF Verifies

-----------------------------------------------------------------------------
(* Prevouts.                                                               *)

LEMMA AskFacts ==
  ASSUME TypeOK, BlockInv, NEW a \in left, NEW hit \in BOOLEAN, Asks(a, hit)
  PROVE  /\ Query(a, hit) /\ happened \subseteq happened'
         /\ UNCHANGED <<chainVars, hash, entries, index, rows, failed, result, late, since, knew>>
         /\ filled \subseteq filled' /\ pc \in Prepared /\ pc' \in Prepared
<1>1. a \in Addresses /\ Query(a, hit)
      BY DEF TypeOK, Asks, AskCandidate, AskTouch, AskVin, AskParam, Ask
<1>2. happened \subseteq happened'
      BY <1>1, QueryFacts, FaultFacts DEF FaultKinds
<1>3. UNCHANGED <<chainVars, hash, entries, index, rows, failed, result, late, since, knew>>
      BY DEF Asks, AskCandidate, AskTouch, AskVin, AskParam, Ask, blockVars
<1>4. filled \subseteq filled'
      BY DEF Asks, AskCandidate, AskTouch, AskVin, AskParam
<1>5. pc \in Prepared /\ pc' \in Prepared
      BY DEF Asks, AskCandidate, AskTouch, AskVin, AskParam, StayAsking, GoTo, Prepared, InTxs,
             InTx
<1> QED
    BY <1>1, <1>2, <1>3, <1>4, <1>5

(* The facts on fillVinAddresses that extractTransaction repeats.          *)
LEMMA RefillFacts ==
  ASSUME TypeOK, BlockInv, RefillPrevouts
  PROVE  /\ happened \subseteq happened' /\ filled \subseteq filled'
         /\ NoFault \/ Fault("prevout")
<1>1. {Current} \subseteq index
      BY CurrentFacts DEF RefillPrevouts, BlockInv, InTx, Loaded, Prepared, InTxs
<1>2. filled \subseteq filled' /\ (NoFault \/ Fault("prevout"))
      BY <1>1, FillFacts DEF RefillPrevouts
<1> QED
    BY <1>2, FaultFacts DEF FaultKinds

LEMMA PrevoutStep == TypeOK /\ BlockInv /\ PrevoutInv /\ [Next]_vars => PrevoutInv'
<1> SUFFICES ASSUME TypeOK, BlockInv, PrevoutInv, [Next]_vars
             PROVE  PrevoutInv'
    OBVIOUS
<1> USE DEF Prepared, InTxs, InTx
<1>1. ASSUME index' = index, filled \subseteq filled', happened \subseteq happened',
             pc' \in Prepared => pc \in Prepared
      PROVE  PrevoutInv'
      BY <1>1 DEF PrevoutInv, Unresolved, AddressKnown
<1>2. CASE FillPrevouts
  <2>1. /\ index' = index
        /\ "prevout" \notin happened' =>
             \A t \in index : \A c \in Ins[t] : <<t, c>> \in filled' \/ c.made \in index
        BY <1>2, FillFacts DEF FillPrevouts, blockVars
  <2> QED
      BY <2>1 DEF PrevoutInv, Unresolved, AddressKnown
<1>3. CASE RefillPrevouts
      BY <1>1, <1>3, RefillFacts DEF RefillPrevouts, blockVars
<1>4. ASSUME NEW a \in left, NEW hit \in BOOLEAN, Asks(a, hit)
      PROVE  PrevoutInv'
      BY <1>1, <1>4, AskFacts
<1>5. CASE NotTouched \/ VinsAsked
  <2>1. /\ index' = index /\ filled' = filled /\ happened' = happened
        /\ pc \in Prepared
        BY <1>5 DEF NotTouched, VinsAsked, NoFault, faultVars, blockVars
  <2> QED
      BY <1>1, <2>1
<1>6. CASE ExtractTx
  <2>1. NoFault \/ \E kind \in FaultKinds : Fault(kind)
        BY <1>6 DEF ExtractTx, ExtractionFails, FaultKinds
  <2>2. happened \subseteq happened'
        BY <2>1, FaultFacts
  <2>3. index' = index /\ filled' = filled /\ pc \in Prepared
        BY <1>6 DEF ExtractTx, blockVars
  <2> QED
      BY <1>1, <2>2, <2>3
<1>7. ASSUME \/ VerifyStores \/ UNCHANGED vars
             \/ \E b \in Blocks : NodeReorganises(b)
             \/ \E a \in Addresses : HostRegisters(a) \/ Verifies(a)
      PROVE  PrevoutInv'
  <2>1. index' = index /\ filled' = filled /\ pc' = pc
        BY <1>7 DEF VerifyStores, vars, NodeReorganises, HostRegisters, Verifies, VerifyQueries,
                    VerifyAsks, blockVars
  <2>2. happened \subseteq happened'
    <3>1. CASE Next
          BY <2>1, <3>1, HappenedGrows DEF Begin
    <3>2. CASE UNCHANGED vars
          BY <3>2 DEF vars, faultVars
    <3> QED
        BY <3>1, <3>2
  <2> QED
      BY <1>1, <2>1, <2>2
<1>8. ASSUME \/ Begin \/ GetBlockHash \/ Loads \/ BatchLookup
             \/ \E ok \in BOOLEAN : Ends(ok)
             \/ \E r \in Answers(hash) \cup BadAnswers(hash) : Accepts(r)
      PROVE  PrevoutInv'
  <2>1. pc' \notin Prepared
        BY <1>8 DEF Begin, GetBlockHash, Loads, BatchLookup, Ends, Return, Accepts, AcceptBlock
  <2> QED
      BY <2>1 DEF PrevoutInv
<1> QED
    BY <1>2, <1>3, <1>4, <1>5, <1>6, <1>7, <1>8, Steps

-----------------------------------------------------------------------------
(* The rows are complete.                                                  *)

LEMMA SettledGrows ==
  ASSUME misses \subseteq misses', rows \subseteq rows', happened \subseteq happened',
         NEW t, Settled(t)
  PROVE  Settled(t)'
BY DEF Settled

(* All of a transaction settled: nothing of it is managed.                 *)
LEMMA UntouchedSettled ==
  ASSUME NEW t \in index, Candidates(filled, t) \subseteq misses,
         "prevout" \notin happened => Unresolved(t) = {}
  PROVE  Settled(t)
<1>1. \A a \in Outs[t] : a \in misses
      BY DEF Candidates
<1>2. ASSUME "prevout" \notin happened, NEW c \in Ins[t]
      PROVE  c.addr \in misses
  <2>1. AddressKnown(filled, t, c)
        BY <1>2 DEF Unresolved
  <2>2. c.addr \in Candidates(filled, t)
        BY <2>1 DEF Candidates
  <2> QED
      BY <2>2
<1> QED
    BY <1>1, <1>2 DEF Settled

(* Or it is extracted.                                                     *)
LEMMA ExtractedSettled ==
  ASSUME NEW t, t = Current, pc = "param", left = {}, LoopInv, rows' = rows \cup ExtractedLegs,
         UNCHANGED <<misses, happened>>,
         "prevout" \notin happened => Unresolved(t) = {}
  PROVE  Settled(t)'
<1>1. /\ Candidates(filled, t) \subseteq misses \cup params
      /\ \A c \in Ins[t] : AddressKnown(filled, t, c) =>
           c.addr \in misses \/ <<t, c>> \in filled
      BY DEF LoopInv
<1>2. ASSUME NEW a \in Outs[t], a \notin misses
      PROVE  Leg(t, "out", [made |-> t, addr |-> a]) \in rows'
  <2>1. a \in params
        BY <1>1, <1>2 DEF Candidates
  <2>2. Leg(t, "out", [made |-> t, addr |-> a]) \in Legs(t, params)
        BY <2>1 DEF Legs
  <2>3. Leg(t, "out", [made |-> t, addr |-> a]).way # "in"
        BY DEF Leg
  <2> QED
      BY <2>2, <2>3 DEF ExtractedLegs
<1>3. ASSUME "prevout" \notin happened, NEW c \in Ins[t], c.addr \notin misses
      PROVE  Leg(t, "in", c) \in rows'
  <2>1. AddressKnown(filled, t, c)
        BY <1>3 DEF Unresolved
  <2>2. c.addr \in Candidates(filled, t) /\ <<t, c>> \in filled
        BY <1>1, <1>3, <2>1 DEF Candidates
  <2>3. c.addr \in params
        BY <1>1, <1>3, <2>2
  <2>4. Leg(t, "in", c) \in Legs(t, params)
        BY <2>3 DEF Legs
  <2>5. Leg(t, "in", c).coin = c
        BY DEF Leg
  <2> QED
      BY <2>2, <2>4, <2>5 DEF ExtractedLegs
<1> QED
    BY <1>2, <1>3 DEF Settled

(* The next transaction is asked about anew.                               *)
LEMMA GoToLoop ==
  ASSUME TypeOK, NEW txs \in Seq(ToSet(entries)), GoTo(txs), UNCHANGED <<index, filled>>
  PROVE  LoopInv'
<1>1. pc' \in {"touch", "end"} /\ todo' = txs
      BY GoToFacts
<1>2. pc' = "touch" => left' = Candidates(filled, Head(txs))
      BY DEF GoTo
<1>3. pc' = "touch" => Candidates(filled, Current)' \subseteq left'
  <2>1. Candidates(filled, Current)' = Candidates(filled, Current')
        BY DEF Candidates, AddressKnown
  <2> QED
      BY <1>1, <1>2, <2>1 DEF Current
<1> QED
    BY <1>1, <1>3 DEF LoopInv

(* What TruthInv says of a call that goes on and has been told the truth.  *)
TruthFacts ==
  /\ misses \cap knew = {}
  /\ params \subseteq hits
  /\ pc \in InTxs => rows \subseteq LegsOf(hash, hits)
  /\ LoopInv
  /\ DoneInv

(* A step that only fills the cache.                                       *)
LEMMA CacheGrows ==
  ASSUME TruthFacts, hits \subseteq hits', misses \subseteq misses', misses' \cap knew' = {},
         UNCHANGED <<pc, hash, entries, index, filled, todo, left, params, rows, failed>>,
         happened \subseteq happened'
  PROVE  TruthFacts'
<1>1. \A t : Candidates(filled, t)' = Candidates(filled, t)
      BY DEF Candidates, AddressKnown
<1>2. \A t, c : AddressKnown(filled, t, c)' = AddressKnown(filled, t, c)
      BY DEF AddressKnown
<1>3. LoopInv'
      BY <1>1, <1>2 DEF TruthFacts, LoopInv, Current
<1>4. DoneInv'
      BY SettledGrows DEF TruthFacts, DoneInv
<1>5. LegsOf(hash, hits) \subseteq LegsOf(hash, hits')
      BY LegsGrow
<1> QED
    BY <1>3, <1>4, <1>5 DEF TruthFacts

LEMMA AskTruth ==
  ASSUME TypeOK, BlockInv, RealInv, PrevoutInv, TruthFacts, Truthful',
         NEW a \in left, NEW hit \in BOOLEAN, Asks(a, hit)
  PROVE  TruthFacts'
<1> USE DEF InTx, InTxs
<1>1. /\ UNCHANGED <<chainVars, hash, entries, index, rows, failed, result, late, since, knew>>
      /\ happened \subseteq happened' /\ filled \subseteq filled' /\ Query(a, hit)
      BY AskFacts
<1>2. /\ hits \subseteq hits' /\ misses \subseteq misses'
      /\ misses' \subseteq misses \cup ({a} \ registered) /\ hits' \cap misses' = {}
      /\ hit => a \in hits'
      /\ ~hit => a \in misses'
  <2>1. a \in Addresses
        BY DEF TypeOK
  <2>2. "lookup" \notin happened'
        BY DEF Truthful, BadLookups
  <2> QED
      BY <1>1, <2>1, <2>2, QueryFacts
<1>3. misses' \cap knew' = {}
      BY <1>1, <1>2 DEF TruthFacts, RealInv
<1>4. pc \in InTxs => rows' \subseteq LegsOf(hash', hits')
  <2>1. LegsOf(hash, hits) \subseteq LegsOf(hash, hits')
        BY <1>2, LegsGrow
  <2> QED
      BY <1>1, <2>1 DEF TruthFacts
<1>5. ASSUME pc \in InTxs, todo' = todo
      PROVE  DoneInv'
      BY <1>1, <1>2, <1>5, SettledGrows DEF TruthFacts, DoneInv
<1>6. filled' = filled => /\ \A t : Candidates(filled, t)' = Candidates(filled, t)
                          /\ \A t, c : AddressKnown(filled, t, c)' = AddressKnown(filled, t, c)
      BY <1>1 DEF Candidates, AddressKnown
<1>7. CASE AskCandidate(a, hit)
  <2>1. filled' = filled /\ pc = "candidate"
        BY <1>7 DEF AskCandidate
  <2>2. CASE hit
    <3>1. entries \in Seq(ToSet(entries)) /\ GoTo(entries)
          BY <1>7, <2>2, Elements DEF AskCandidate, TypeOK
    <3>2. params' = {} /\ todo' = entries
          BY <3>1, GoToFacts
    <3>3. LoopInv'
          BY <1>1, <2>1, <3>1, GoToLoop
    <3>4. DoneInv'
          BY <1>1, <3>2 DEF DoneInv
    <3>5. rows' = {}
          BY <1>1, <2>1 DEF BlockInv
    <3> QED
        BY <1>3, <3>2, <3>3, <3>4, <3>5 DEF TruthFacts
  <2>3. CASE ~hit
    <3>1. left' = left \ {a} /\ UNCHANGED <<pc, todo, params>>
          BY <1>7, <2>3 DEF AskCandidate, StayAsking
    <3>2. LoopInv'
          BY <1>1, <1>2, <1>6, <2>1, <2>3, <3>1 DEF TruthFacts, LoopInv
    <3> QED
        BY <1>2, <1>3, <2>1, <3>1, <3>2 DEF TruthFacts, DoneInv
  <2> QED
      BY <2>2, <2>3
<1>8. CASE AskTouch(a, hit)
  <2>1. /\ filled' = filled /\ pc \in {"touch", "again"} /\ todo' = todo /\ params' = params
        /\ pc' \in InTxs
        BY <1>8 DEF AskTouch, StayAsking
  <2>2. LoopInv'
    <3>1. CASE ~hit
      <4>1. left' = left \ {a} /\ pc' = pc
            BY <1>8, <3>1 DEF AskTouch, StayAsking
      <4> QED
          BY <1>1, <1>2, <1>6, <2>1, <3>1, <4>1 DEF TruthFacts, LoopInv, Current
    <3>2. CASE hit /\ pc = "touch"
      <4>1. pc' = "refill"
            BY <1>8, <3>2 DEF AskTouch
      <4> QED
          BY <4>1 DEF LoopInv
    <3>3. CASE hit /\ pc = "again"
      <4>1. pc' = "vins" /\ left' = {c.addr : c \in {c \in Ins[Current] :
                                                      AddressKnown(filled, Current, c)}}
            BY <1>8, <3>3 DEF AskTouch
      <4>2. Current' = Current
            BY <2>1 DEF Current
      <4>3. \A c \in Ins[Current] : AddressKnown(filled, Current, c) => c.addr \in left'
            BY <4>1
      <4> QED
          BY <4>1, <4>2, <4>3, <1>1, <2>1 DEF LoopInv, AddressKnown
    <3> QED
        BY <2>1, <3>1, <3>2, <3>3
  <2> QED
      BY <1>2, <1>3, <1>4, <1>5, <2>1, <2>2 DEF TruthFacts
<1>9. CASE AskVin(a, hit)
  <2>1. /\ pc = "vins" /\ pc' = "vins" /\ todo' = todo /\ params' = params
        /\ left' = left \ {a}
        BY <1>9 DEF AskVin, StayAsking
  <2>2. Current' = Current
        BY <2>1 DEF Current
  <2>3. ASSUME NEW c \in Ins[Current], AddressKnown(filled', Current, c)
        PROVE  c.addr \in left' \cup misses' \/ <<Current, c>> \in filled'
    <3>1. AddressKnown(filled, Current, c)
          BY <1>9, <2>3 DEF AskVin, AddressKnown
    <3>2. c.addr \in left \cup misses \/ <<Current, c>> \in filled
          BY <2>1, <3>1 DEF TruthFacts, LoopInv
    <3>3. CASE c.addr = a /\ hit
          BY <1>1, <1>9, <3>1, <3>3 DEF AskVin, AddressKnown
    <3>4. CASE c.addr = a /\ ~hit
          BY <1>2, <3>4
    <3>5. CASE c.addr # a
          BY <1>1, <1>2, <2>1, <3>2, <3>5
    <3> QED
        BY <3>3, <3>4, <3>5
  <2>4. LoopInv'
        BY <1>1, <2>1, <2>2, <2>3 DEF LoopInv, AddressKnown
  <2> QED
      BY <1>2, <1>3, <1>4, <1>5, <2>1, <2>4 DEF TruthFacts
<1>10. CASE AskParam(a, hit)
  <2>1. /\ pc = "param" /\ pc' = "param" /\ todo' = todo /\ filled' = filled
        /\ left' = left \ {a} /\ params' = IF hit THEN params \cup {a} ELSE params
        BY <1>10 DEF AskParam
  <2>2. Current' = Current
        BY <2>1 DEF Current
  <2>3. left \cup misses \cup params \subseteq left' \cup misses' \cup params'
        BY <1>2, <2>1
  <2>4. Candidates(filled, Current)' = Candidates(filled, Current)
        BY <1>1, <2>1, <2>2 DEF Candidates, AddressKnown
  <2>5. LoopInv'
        BY <1>1, <1>2, <2>1, <2>2, <2>3, <2>4 DEF TruthFacts, LoopInv, AddressKnown
  <2>6. params' \subseteq hits'
        BY <1>2, <2>1 DEF TruthFacts
  <2> QED
      BY <1>3, <1>4, <1>5, <2>1, <2>5, <2>6 DEF TruthFacts
<1> QED
    BY <1>7, <1>8, <1>9, <1>10 DEF Asks

LEMMA TruthStep ==
  ASSUME TypeOK, BlockInv, RealInv, PrevoutInv, TruthInv, [Next]_vars
  PROVE  TruthInv'
<1> SUFFICES ASSUME pc' # "idle", Truthful'
             PROVE  TruthFacts'
    BY DEF TruthInv, TruthFacts
<1> USE DEF InTx, InTxs, Prepared, Loaded, Accepted
<1>1. ASSUME pc # "idle", happened \subseteq happened'
      PROVE  TruthFacts
      BY <1>1 DEF TruthInv, TruthFacts, Truthful
<1>2. CASE Begin
  <2>1. pc' = "hash" /\ misses' = {} /\ params' = {}
        BY <1>2 DEF Begin, BlockInv, TypeOK, RealInv, loopVars, cacheVars
  <2> QED
      BY <2>1 DEF TruthFacts, LoopInv, DoneInv
<1>3. CASE GetBlockHash \/ Loads
  <2>1. /\ UNCHANGED <<misses, knew, params, hits, happened>>
        /\ pc # "idle" /\ pc' \in {"block", "load", "batch"}
        BY <1>3 DEF GetBlockHash, Loads, NoFault, loopVars, cacheVars, faultVars
  <2> QED
      BY <1>1, <2>1 DEF TruthFacts, LoopInv, DoneInv
<1>4. ASSUME NEW r \in Answers(hash) \cup BadAnswers(hash), Accepts(r)
      PROVE  TruthFacts'
  <2>1. /\ UNCHANGED <<misses, knew, params, hits>>
        /\ pc # "idle" /\ pc' \in {"load", "batch"}
        BY <1>4 DEF Accepts, AcceptBlock, loopVars
  <2>2. happened \subseteq happened'
        BY <1>4, FaultFacts DEF Accepts, FaultKinds
  <2> QED
      BY <1>1, <2>1, <2>2 DEF TruthFacts, LoopInv, DoneInv
<1>5. CASE BatchLookup
  <2> DEFINE asked == UNION {Candidates(filled, t) : t \in index}
  <2>1. NoFault \/ Fault("lookup")
        BY <1>5 DEF BatchLookup
  <2>2. happened \subseteq happened' /\ ~Fault("lookup")
        BY <2>1, FaultFacts DEF FaultKinds, Fault, Truthful, BadLookups
  <2>3. Store(asked \cap registered, asked \ registered)
        BY <1>5, <2>2 DEF BatchLookup
  <2>4. pc # "idle" /\ pc' = "fill" /\ params = {} /\ params' = {} /\ knew' = knew
        BY <1>5 DEF BatchLookup, BlockInv, loopVars
  <2>5. misses' \cap knew' = {}
        BY <1>1, <2>2, <2>3, <2>4 DEF Store, TruthFacts, RealInv
  <2> QED
      BY <2>4, <2>5 DEF TruthFacts, LoopInv, DoneInv
<1>6. CASE FillPrevouts
  <2>1. happened \subseteq happened'
        BY <1>6, FillFacts, FaultFacts DEF FillPrevouts, FaultKinds
  <2>2. /\ pc = "fill" /\ pc' = "candidate" /\ UNCHANGED <<misses, knew, params, hits, index>>
        /\ left' = UNION {Candidates(filled', t) : t \in index}
        BY <1>6 DEF FillPrevouts, blockVars, cacheVars
  <2>3. \A t : Candidates(filled, t)' = Candidates(filled', t)
        BY <2>2 DEF Candidates, AddressKnown
  <2>4. LoopInv'
        BY <2>2, <2>3 DEF LoopInv
  <2> QED
      BY <1>1, <2>1, <2>2, <2>4 DEF TruthFacts, DoneInv
<1>7. CASE RefillPrevouts
  <2>1. happened \subseteq happened' /\ filled \subseteq filled'
        BY <1>7, RefillFacts
  <2>2. /\ pc = "refill" /\ pc' = "again" /\ left' = Candidates(filled', Current)
        /\ UNCHANGED <<hash, entries, index, todo, params, rows, failed, hits, misses, knew>>
        BY <1>7 DEF RefillPrevouts, blockVars, resVars, cacheVars
  <2>3. Candidates(filled, Current)' = Candidates(filled', Current)
        BY <2>2 DEF Candidates, AddressKnown, Current
  <2>4. LoopInv'
        BY <2>2, <2>3 DEF LoopInv
  <2>5. DoneInv'
        BY <1>1, <2>1, <2>2, SettledGrows DEF TruthFacts, DoneInv
  <2> QED
      BY <1>1, <2>1, <2>2, <2>4, <2>5 DEF TruthFacts
<1>8. ASSUME NEW a \in left, NEW hit \in BOOLEAN, Asks(a, hit)
      PROVE  TruthFacts'
  <2>1. happened \subseteq happened' /\ pc # "idle"
        BY <1>8, AskFacts
  <2> QED
      BY <1>1, <1>8, <2>1, AskTruth
<1>9. CASE NotTouched
  <2>1. /\ UNCHANGED <<hash, entries, index, filled, rows, failed, hits, misses, knew, happened>>
        /\ left = {} /\ pc \in {"touch", "again"} /\ GoTo(Tail(todo))
        BY <1>9 DEF NotTouched, NoFault, blockVars, resVars, cacheVars, faultVars
  <2>2. TruthFacts
        BY <1>1, <2>1
  <2>3. /\ Current \in index /\ Tail(todo) \in Seq(ToSet(entries))
        /\ ToSet(todo) = {Current} \cup ToSet(Tail(todo))
        BY <2>1, CurrentFacts DEF BlockInv
  <2>4. todo' = Tail(todo) /\ params' = {} /\ pc' \in {"touch", "end"}
        BY <2>1, <2>3, GoToFacts
  <2>5. LoopInv'
        BY <2>1, <2>3, GoToLoop
  <2>6. Settled(Current)
    <3>1. Candidates(filled, Current) \subseteq misses
          BY <2>1, <2>2 DEF TruthFacts, LoopInv
    <3>2. "prevout" \notin happened => Unresolved(Current) = {}
          BY <2>1, <2>3 DEF PrevoutInv
    <3> QED
        BY <2>3, <3>1, <3>2, UntouchedSettled
  <2>7. \A t : Settled(t) => Settled(t)'
        BY <2>1, SettledGrows
  <2>8. DoneInv'
        BY <2>1, <2>2, <2>3, <2>4, <2>6, <2>7 DEF TruthFacts, DoneInv
  <2> QED
      BY <2>1, <2>2, <2>4, <2>5, <2>8 DEF TruthFacts
<1>10. CASE VinsAsked
  <2>1. /\ UNCHANGED <<hash, entries, index, filled, todo, params, rows, failed, hits, misses,
                       knew, happened>>
        /\ left = {} /\ pc = "vins" /\ pc' = "param" /\ left' = Candidates(filled, Current)
        BY <1>10 DEF VinsAsked, NoFault, blockVars, resVars, cacheVars, faultVars
  <2>2. TruthFacts
        BY <1>1, <2>1
  <2>3. Candidates(filled, Current)' = Candidates(filled, Current)
        BY <2>1 DEF Candidates, AddressKnown, Current
  <2>4. LoopInv'
        BY <2>1, <2>2, <2>3 DEF TruthFacts, LoopInv, AddressKnown, Current
  <2>5. DoneInv'
        BY <2>1, <2>2, SettledGrows DEF TruthFacts, DoneInv
  <2> QED
      BY <2>1, <2>2, <2>4, <2>5 DEF TruthFacts
<1>11. CASE ExtractTx
  <2>1. /\ UNCHANGED <<hash, entries, index, filled, hits, misses, knew>>
        /\ left = {} /\ pc = "param" /\ GoTo(Tail(todo)) /\ rows \subseteq rows'
        BY <1>11 DEF ExtractTx, blockVars, cacheVars
  <2>2. happened \subseteq happened'
    <3>1. NoFault \/ \E kind \in FaultKinds : Fault(kind)
          BY <1>11 DEF ExtractTx, ExtractionFails, FaultKinds
    <3> QED
        BY <3>1, FaultFacts
  <2>3. TruthFacts
        BY <1>1, <2>1, <2>2
  <2>4. /\ Current \in index /\ Tail(todo) \in Seq(ToSet(entries))
        /\ ToSet(todo) = {Current} \cup ToSet(Tail(todo))
        BY <2>1, CurrentFacts DEF BlockInv
  <2>5. todo' = Tail(todo) /\ params' = {} /\ pc' \in {"touch", "end"}
        BY <2>1, <2>4, GoToFacts
  <2>6. LoopInv'
        BY <2>1, <2>4, GoToLoop
  <2>7. failed \subseteq failed' /\ \A t : t = Current => t \in failed' \/ Settled(t)'
    <3>1. CASE rows' = rows \cup ExtractedLegs /\ NoFault /\ UNCHANGED failed
      <4>1. "prevout" \notin happened => Unresolved(Current) = {}
            BY <2>1, <2>4 DEF PrevoutInv
      <4>2. happened' = happened
            BY <3>1 DEF NoFault, faultVars
      <4>3. \A t : t = Current => Settled(t)'
            BY <2>1, <2>3, <3>1, <4>1, <4>2, ExtractedSettled DEF TruthFacts
      <4> QED
          BY <3>1, <4>3
    <3>2. CASE failed' = failed \cup {Current}
          BY <3>2
    <3> QED
        BY <1>11, <3>1, <3>2 DEF ExtractTx
  <2>8. \A t : Settled(t) => Settled(t)'
        BY <2>1, <2>2, SettledGrows
  <2>9. DoneInv'
    <3>1. \A t \in ToSet(entries) : t \in ToSet(todo) \cup failed \/ Settled(t)
          BY <2>1, <2>3 DEF TruthFacts, DoneInv
    <3>2. \A t \in ToSet(entries) : t \in ToSet(todo') \cup failed' \/ Settled(t)'
          BY <2>4, <2>5, <2>7, <2>8, <3>1
    <3> QED
        BY <2>1, <3>2 DEF DoneInv
  <2>10. rows' \subseteq LegsOf(hash', hits')
    <3>1. ExtractedLegs \subseteq LegsOf(hash, hits)
          BY <2>1, <2>3, ExtractedInBlock DEF TruthFacts
    <3> QED
        BY <1>11, <2>1, <2>3, <3>1 DEF ExtractTx, TruthFacts
  <2> QED
      BY <2>1, <2>3, <2>5, <2>6, <2>9, <2>10 DEF TruthFacts
<1>12. ASSUME NEW b \in Blocks, NodeReorganises(b)
       PROVE  TruthFacts'
  <2>1. UNCHANGED <<pc, hash, entries, index, filled, todo, left, params, rows, failed, hits,
                    misses, knew, happened>>
        BY <1>12 DEF NodeReorganises, blockVars, loopVars, resVars, cacheVars, faultVars
  <2>2. TruthFacts
        BY <1>1, <2>1
  <2> QED
      BY <2>1, <2>2, CacheGrows DEF TruthFacts
<1>13. ASSUME NEW a \in Addresses, HostRegisters(a) \/ Verifies(a)
       PROVE  TruthFacts'
  <2>1. UNCHANGED <<pc, hash, entries, index, filled, todo, left, params, rows, failed, knew>>
        BY <1>13 DEF HostRegisters, Verifies, VerifyQueries, VerifyAsks, chainVars, blockVars,
                     loopVars, resVars
  <2>2. happened' = happened
        BY <1>13 DEF HostRegisters, Verifies, VerifyQueries, VerifyAsks, Fault, NoFault, faultVars,
                     Truthful, BadLookups
  <2>3. TruthFacts
        BY <1>1, <2>1, <2>2
  <2> DEFINE Told == /\ hits \subseteq hits' /\ misses \subseteq misses'
                     /\ misses' \subseteq misses \cup ({a} \ registered)
  <2>4. Told
    <3>1. CASE HostRegisters(a)
          BY <3>1 DEF HostRegisters, cacheVars
    <3>2. ASSUME NEW hit \in BOOLEAN, VerifyQueries(a, hit)
          PROVE  Told
      <4>1. hit = (a \in registered)
            BY <3>2 DEF VerifyQueries, Fault, Truthful, BadLookups
      <4> QED
          BY <3>2, <4>1 DEF VerifyQueries, Store
    <3>3. ASSUME NEW hit \in BOOLEAN, VerifyAsks(a, hit)
          PROVE  Told
          BY <3>3 DEF VerifyAsks, cacheVars
    <3> QED
        BY <1>13, <3>1, <3>2, <3>3 DEF Verifies
  <2>5. misses' \cap knew' = {}
        BY <2>1, <2>3, <2>4 DEF TruthFacts, RealInv
  <2> QED
      BY <2>1, <2>2, <2>3, <2>4, <2>5, CacheGrows
<1>14. ASSUME VerifyStores
       PROVE  FALSE
       BY <1>14 DEF VerifyStores, Fault, Truthful, BadLookups
<1>15. ASSUME NEW ok \in BOOLEAN, Ends(ok)
       PROVE  FALSE
       BY <1>15 DEF Ends, Return
<1>16. CASE UNCHANGED vars
  <2>1. UNCHANGED <<pc, hash, entries, index, filled, todo, left, params, rows, failed, hits,
                    misses, knew, happened>>
        BY <1>16 DEF vars, blockVars, loopVars, resVars, cacheVars, faultVars
  <2>2. TruthFacts
        BY <1>1, <2>1
  <2> QED
      BY <2>1, <2>2, CacheGrows DEF TruthFacts
<1> QED
    BY <1>2, <1>3, <1>4, <1>5, <1>6, <1>7, <1>8, <1>9, <1>10, <1>11, <1>12, <1>13, <1>14,
       <1>15, <1>16, Steps

-----------------------------------------------------------------------------
(* The result.                                                             *)

LEMMA AllSettled ==
  ASSUME IInv, Truthful,
         (pc = "end" /\ failed = {}) \/ (pc = "candidate" /\ left = {})
  PROVE  \A t \in ToSet(Content[hash]) : Settled(t)
<1> USE DEF InTx, InTxs, Prepared, Loaded, Accepted
<1>1. /\ entries = Content[hash] /\ index = ToSet(entries) /\ LoopInv /\ DoneInv
      BY DEF IInv, BlockInv, TruthInv
<1>2. CASE pc = "end" /\ failed = {}
  <2>1. ToSet(todo) = {}
        BY <1>2 DEF IInv, BlockInv, ToSet
  <2> QED
      BY <1>1, <1>2, <2>1 DEF DoneInv
<1>3. CASE pc = "candidate" /\ left = {}
  <2>1. ASSUME NEW t \in index
        PROVE  Settled(t)
    <3>1. Candidates(filled, t) \subseteq misses
          BY <1>1, <1>3 DEF LoopInv
    <3>2. "prevout" \notin happened => Unresolved(t) = {}
          BY <1>3 DEF IInv, PrevoutInv
    <3> QED
        BY <3>1, <3>2, UntouchedSettled
  <2> QED
      BY <1>1, <2>1
<1> QED
    BY <1>2, <1>3

(* The rows of a call that ends well are all there are for addresses that  *)
(* the call has not been told to be unmanaged.                             *)
LEMMA AllRows ==
  ASSUME IInv, Truthful,
         (pc = "end" /\ failed = {}) \/ (pc = "candidate" /\ left = {}),
         NEW K, misses \cap K = {}
  PROVE  \A l \in LegsOf(hash, K) : l.way = "out" \/ "prevout" \notin happened => l \in rows
<1> SUFFICES ASSUME NEW l \in LegsOf(hash, K), l.way = "out" \/ "prevout" \notin happened
             PROVE  l \in rows
    OBVIOUS
<1>1. PICK t \in ToSet(Content[hash]) : l \in Legs(t, K)
      BY DEF LegsOf
<1>2. Settled(t)
      BY <1>1, AllSettled
<1>3. CASE \E c \in Ins[t] : c.addr \in K /\ l = Leg(t, "in", c)
  <2>1. l.way = "in"
        BY <1>3 DEF Leg
  <2> QED
      BY <1>2, <1>3, <2>1 DEF Settled
<1>4. CASE \E a \in Outs[t] \cap K : l = Leg(t, "out", [made |-> t, addr |-> a])
      BY <1>2, <1>4 DEF Settled
<1> QED
    BY <1>1, <1>3, <1>4 DEF Legs

LEMMA DepositsStep == IInv /\ [Next]_vars => DepositsKept'
<1> SUFFICES ASSUME IInv, [Next]_vars
             PROVE  DepositsKept'
    OBVIOUS
<1>1. CASE result' = result
      BY <1>1 DEF IInv, DepositsKept, LookupsWorked, Expected
<1>2. ASSUME NEW ok \in BOOLEAN, Ends(ok)
      PROVE  DepositsKept'
  <2>1. result' = [success |-> ok, hash |-> hash, rows |-> rows, knew |-> knew,
                   happened |-> happened']
        BY <1>2 DEF Ends, Return
  <2>2. ASSUME ok, LookupsWorked'
        PROVE  Expected("out")' \subseteq rows
    <3>1. happened' = happened /\ pc # "idle"
          BY <1>2, <2>2 DEF Ends, NoFault, faultVars
    <3>2. Truthful
          BY <2>1, <2>2, <3>1 DEF LookupsWorked, Truthful
    <3>3. misses \cap knew = {}
          BY <3>1, <3>2 DEF IInv, TruthInv
    <3>4. \A l \in LegsOf(hash, knew) : l.way = "out" => l \in rows
          BY <1>2, <2>2, <3>2, <3>3, AllRows DEF Ends
    <3> QED
        BY <2>1, <3>4 DEF Expected
  <2>3. result'.success = ok /\ result'.rows = rows
        BY <2>1
  <2> QED
      BY <2>2, <2>3 DEF DepositsKept
<1>3. ASSUME Next, ~\E ok \in BOOLEAN : Ends(ok)
      PROVE  result' = result
      BY <1>3, Steps DEF Begin, GetBlockHash, Loads, BatchLookup, FillPrevouts, RefillPrevouts,
        NotTouched, VinsAsked, ExtractTx, VerifyStores, Accepts, AcceptBlock, Asks,
        AskCandidate, AskTouch, AskVin, AskParam, Ask, NodeReorganises, HostRegisters,
        Verifies, VerifyQueries, VerifyAsks
<1> QED
    BY <1>1, <1>2, <1>3 DEF vars

LEMMA InitInv == Init => IInv
<1> SUFFICES ASSUME Init
             PROVE  IInv
    OBVIOUS
<1>1. TypeOK
      BY FaultsAssumption, ManagedAssumption DEF Init, TypeOK, Locations
<1>2. BlockInv /\ RealInv /\ TruthInv /\ PrevoutInv /\ DepositsKept
      BY DEF Init, BlockInv, RealInv, HitsReal, RowsAreReal, TruthInv, PrevoutInv, DepositsKept, InTx,
             InTxs, Prepared, Loaded, Accepted
<1> QED
    BY <1>1, <1>2 DEF IInv

LEMMA NextInv == IInv /\ [Next]_vars => IInv'
BY TypeStep, BlockStep, RealStep, TruthStep, PrevoutStep, DepositsStep DEF IInv

LEMMA Invariant == Spec => []IInv
<1>1. Init => IInv
      BY InitInv
<1>2. IInv /\ [Next]_vars => IInv'
      BY NextInv
<1> QED
    BY <1>1, <1>2, PTL DEF Spec

(* At every place of ScanBlockWithResult its locals are of the block they  *)
(* came from, and the cache of address lookups never has an address both   *)
(* with and without an account.                                            *)
THEOREM TypeCorrect == Spec => []TypeOK
<1>1. IInv => TypeOK
      BY DEF IInv
<1> QED
    BY <1>1, Invariant, PTL

(* The deferred clearAccountTargetCache leaves no answer of scanTargetFunc *)
(* to another block, on whatever path the call returns.                    *)
THEOREM CacheEnds == Spec => []CacheEndsWithCall
<1>1. IInv => CacheEndsWithCall
      BY DEF IInv, RealInv, CacheEndsWithCall, InTx, InTxs, Prepared, Loaded, Accepted
<1> QED
    BY <1>1, Invariant, PTL

(* Every row a call returns is one of the block it names, for an address   *)
(* that scanTargetFunc found, unless a verification with a function of its *)
(* own put another into the cache.                                         *)
THEOREM NothingInvented == Spec => []RowsAreReal
<1>1. IInv => RowsAreReal
      BY DEF IInv, RealInv
<1> QED
    BY <1>1, Invariant, PTL

(* A call with Success has every payment to an address the account had     *)
(* when it began, unless scanTargetFunc failed, answered too late or was   *)
(* another one.                                                            *)
THEOREM NoDepositLost == Spec => []DepositsKept
<1>1. IInv => DepositsKept
      BY DEF IInv
<1> QED
    BY <1>1, Invariant, PTL

-----------------------------------------------------------------------------
(* The refinement. The set of addresses a successful call looks as though  *)
(* it had used is what it has been told to be managed, with all that was   *)
(* managed when it began.                                                  *)

(* The two specifications speak of the same blocks.                        *)
LEMMA SameData ==
  /\ Atomic!Addresses = Addresses
  /\ \A b, K : Atomic!LegsOf(b, K) = LegsOf(b, K)
<1>1. \A s : Atomic!ToSet(s) = ToSet(s)
      BY DEF ToSet, Atomic!ToSet
<1>2. Atomic!Txs = Txs
      BY <1>1 DEF Txs, Atomic!Txs
<1>3. Atomic!Addresses = Addresses
      BY <1>2 DEF Addresses, Atomic!Addresses
<1>4. \A t, K : Atomic!Legs(t, K) = Legs(t, K)
      BY DEF Legs, Leg, Atomic!Legs, Atomic!Leg
<1>5. \A b, K : Atomic!LegsOf(b, K) = LegsOf(b, K)
      BY <1>1, <1>4 DEF LegsOf, Atomic!LegsOf
<1> QED
    BY <1>3, <1>5

LEMMA EndsIsReturn ==
  ASSUME IInv, NEW ok \in BOOLEAN, Ends(ok)
  PROVE  Atomic!Return
<1>1. /\ result' = [success |-> ok, hash |-> hash, rows |-> rows, knew |-> knew,
                    happened |-> happened']
      /\ pc # "idle" /\ pc' = "idle" /\ since' = {} /\ knew' = {}
      /\ UNCHANGED <<best, registered>>
      BY DEF Ends, Return, chainVars
<1>2. ASSUME ok, happened' \cap BadLookups = {}, "prevout" \notin happened'
      PROVE  \E b \in since : \E K \in SUBSET registered :
               knew \subseteq K /\ Answer' = Atomic!Success(b, K)
  <2> DEFINE K == hits \cup knew
  <2>1. happened' = happened /\ ((pc = "end" /\ failed = {}) \/ (pc = "candidate" /\ left = {}))
        BY <1>2 DEF Ends, NoFault, faultVars
  <2>2. Truthful /\ "prevout" \notin happened
        BY <1>2, <2>1 DEF Truthful
  <2>3. K \in SUBSET registered /\ hash \in since
        BY <2>1, <2>2 DEF IInv, RealInv, HitsReal, Truthful, BadLookups, BlockInv
  <2>4. misses \cap K = {}
        BY <1>1, <2>2 DEF IInv, TypeOK, TruthInv
  <2>5. LegsOf(hash, K) \subseteq rows
        BY <2>1, <2>2, <2>4, AllRows
  <2>6. rows \subseteq LegsOf(hash, K)
    <3>1. rows \subseteq LegsOf(hash, hits)
          BY <1>1, <2>2 DEF IInv, TruthInv, BlockInv
    <3>2. LegsOf(hash, hits) \subseteq LegsOf(hash, K)
          BY LegsGrow
    <3> QED
        BY <3>1, <3>2
  <2>7. Answer' = [success |-> TRUE, hash |-> hash, rows |-> rows]
        BY <1>1, <1>2 DEF Answer, LookupsWorked
  <2>8. Answer' = Atomic!Success(hash, K)
    <3> HIDE DEF K
    <3>1. rows = Atomic!LegsOf(hash, K)
          BY <2>5, <2>6, SameData
    <3> QED
        BY <2>7, <3>1 DEF Atomic!Success
  <2> QED
      BY <2>3, <2>8
<1>3. ASSUME ~(ok /\ happened' \cap BadLookups = {} /\ "prevout" \notin happened')
      PROVE  Answer' = Atomic!Failure
      BY <1>1, <1>3 DEF Answer, LookupsWorked, Atomic!Failure
<1> QED
    BY <1>1, <1>2, <1>3 DEF Atomic!Return

LEMMA StepRefines ==
  ASSUME IInv, [Next]_vars
  PROVE  [Atomic!Next]_(Atomic!atomicVars)
<1>1. result' = result => Answer' = Answer
      BY DEF Answer, LookupsWorked
<1>2. ASSUME NEW ok \in BOOLEAN, Ends(ok)
      PROVE  Atomic!Next
      BY <1>2, EndsIsReturn DEF Atomic!Next
<1>3. CASE Begin
  <2>1. Atomic!Call
        BY <1>1, <1>3 DEF Begin, Atomic!Call, chainVars
  <2> QED
      BY <2>1 DEF Atomic!Next
<1>4. ASSUME NEW b \in Blocks, NodeReorganises(b)
      PROVE  Atomic!Next
  <2>1. Atomic!Reorganise
        BY <1>1, <1>4 DEF NodeReorganises, Atomic!Reorganise
  <2> QED
      BY <2>1 DEF Atomic!Next
<1>5. ASSUME NEW a \in Addresses, HostRegisters(a)
      PROVE  Atomic!Next
  <2>1. \E d \in Atomic!Addresses : registered' = registered \cup {d}
        BY <1>5, SameData DEF HostRegisters
  <2>2. Atomic!Register
        BY <1>1, <1>5, <2>1 DEF HostRegisters, Atomic!Register
  <2> QED
      BY <2>2 DEF Atomic!Next
<1>6. ASSUME \/ GetBlockHash \/ Loads \/ BatchLookup \/ FillPrevouts \/ RefillPrevouts
             \/ NotTouched \/ VinsAsked \/ ExtractTx \/ VerifyStores \/ UNCHANGED vars
             \/ \E r \in Answers(hash) \cup BadAnswers(hash) : Accepts(r)
             \/ \E a \in left : \E hit \in BOOLEAN : Asks(a, hit)
             \/ \E a \in Addresses : Verifies(a)
      PROVE  UNCHANGED Atomic!atomicVars
  <2>1. UNCHANGED <<best, registered, result, since, knew>>
        BY <1>6 DEF GetBlockHash, Loads, BatchLookup, FillPrevouts, RefillPrevouts, NotTouched,
          VinsAsked, ExtractTx, VerifyStores, Accepts, AcceptBlock, Asks, AskCandidate,
          AskTouch, AskVin, AskParam, Ask, Verifies, VerifyQueries, VerifyAsks, chainVars, vars
  <2>2. (pc' # "idle") = (pc # "idle")
        BY <1>6 DEF GetBlockHash, Loads, BatchLookup, FillPrevouts, RefillPrevouts, NotTouched,
          VinsAsked, ExtractTx, VerifyStores, Accepts, AcceptBlock, Asks, AskCandidate,
          AskTouch, AskVin, AskParam, StayAsking, GoTo, Verifies, VerifyQueries, VerifyAsks, vars
  <2> QED
      BY <1>1, <2>1, <2>2 DEF Atomic!atomicVars
<1> QED
    BY <1>2, <1>3, <1>4, <1>5, <1>6, Steps

LEMMA InitRefines == Init => Atomic!Init
BY SameData, ManagedAssumption DEF Init, Answer, LookupsWorked, Atomic!Init, Atomic!Failure

(* While the host answers and prevouts come, a call that ends with Success *)
(* looks as though it had read one block and one set of addresses at once. *)
THEOREM ScanIsAtomic == Spec => LooksAtomic
<1>1. Init => Atomic!Init
      BY InitRefines
<1>2. IInv /\ [Next]_vars => [Atomic!Next]_(Atomic!atomicVars)
      BY StepRefines
<1> QED
    BY <1>1, <1>2, Invariant, PTL DEF Spec, LooksAtomic, Atomic!Spec
=============================================================================
