----------------------------- MODULE BlockScan -----------------------------
(***************************************************************************)
(* ScanBlockWithResult of BtcBlockScanner, step by step: the hash, the     *)
(* block and its checks, the transactions of a block that lists their ids  *)
(* only, the one lookup of all its addresses, the prevouts the node left   *)
(* out, the search for managed transactions and the rows of each of them.  *)
(* Meanwhile the chain is reorganised, the host registers addresses and    *)
(* VerifyTransactionByTxID calls share the cache of address lookups.       *)
(*                                                                         *)
(* The mutex that keeps a second scan out is in ScanLoop, amounts and fees *)
(* are in FeeAccounting: here the accounting of a spend may fail.          *)
(***************************************************************************)
EXTENDS BlockData, Naturals, FiniteSets

CONSTANTS
  Managed,    \* the account's first addresses
  Faults,     \* what may go wrong: a subset of FaultKinds
  MaxFaults   \* how often, in one behaviour

FaultKinds == {"rpc", "response", "order", "prevout", "lookup", "late", "caller"}

ASSUME FaultsAssumption == Faults \subseteq FaultKinds /\ MaxFaults \in Nat

ASSUME ManagedAssumption == Managed \subseteq Addresses

VARIABLES
  best,        \* the node's best block at the height
  registered,  \* the addresses scanTargetFunc finds
  pc,          \* where the scan is
  hash,        \* local: the hash that was asked for
  entries,     \* local: block.TxDetails or block.TxIDs
  index,       \* local txIndex: the transactions that are loaded
  filled,      \* local: the inputs that carry their address
  todo,        \* local: transactions left, the current one first
  left,        \* local: addresses the loop at pc has still to ask for
  params,      \* local param.ScanTarget
  rows,        \* res.ExtractData
  failed,      \* res.FailedTxIDs
  result,      \* what the last call returned
  caching,     \* accountTargetCache # nil
  hits, misses, \* its addresses with and without an account
  late,        \* an answer a verification has not stored yet
  faults,      \* faults so far
  \* history, read by no action of the code:
  since, knew, \* the blocks that were best since the call began; its addresses
  happened     \* the faults since then

chainVars == <<best, registered>>
blockVars == <<hash, entries, index>>
loopVars == <<todo, left, params>>
resVars == <<rows, failed>>
cacheVars == <<caching, hits, misses>>
faultVars == <<faults, happened>>
vars == <<chainVars, pc, blockVars, filled, loopVars, resVars, result, cacheVars, late,
          faultVars, since, knew>>

Current == Head(todo)
NoHash == "none"

Locations == {"idle", "hash", "block", "load", "batch", "fill", "candidate", "touch",
              "refill", "again", "vins", "param", "end"}

Coins == UNION {Ins[t] : t \in Txs}

TypeOK ==
  /\ best \in Blocks /\ registered \subseteq Addresses
  /\ pc \in Locations
  /\ hash \in Blocks \cup {NoHash}
  /\ entries \in Seq(Txs) /\ index \subseteq ToSet(entries)
  /\ filled \subseteq Txs \X Coins
  /\ todo \in Seq(ToSet(entries))
  /\ left \subseteq Addresses /\ params \subseteq Addresses
  /\ failed \subseteq ToSet(entries)
  /\ hits \subseteq Addresses /\ misses \subseteq Addresses
  /\ hits \cap misses = {}
  /\ caching \/ hits \cup misses = {}
  /\ faults \in 0..MaxFaults /\ happened \subseteq Faults

Init ==
  /\ best \in Blocks
  /\ registered = Managed
  /\ pc = "idle"
  /\ hash = NoHash /\ entries = <<>> /\ index = {} /\ filled = {}
  /\ todo = <<>> /\ left = {} /\ params = {}
  /\ rows = {} /\ failed = {}
  /\ result = [success |-> FALSE, hash |-> NoHash, rows |-> {}, knew |-> {}, happened |-> {}]
  /\ caching = FALSE /\ hits = {} /\ misses = {}
  /\ late = {}
  /\ faults = 0 /\ happened = {}
  /\ since = {} /\ knew = {}

Fault(kind) ==
  /\ kind \in Faults
  /\ faults < MaxFaults
  /\ faults' = faults + 1
  /\ happened' = happened \cup {kind}

NoFault == UNCHANGED faultVars

-----------------------------------------------------------------------------
(* The call and its end.                                                   *)

Begin ==
  /\ pc = "idle"
  /\ pc' = "hash"
  /\ since' = {best} /\ knew' = registered
  /\ happened' = {}
  /\ UNCHANGED <<chainVars, blockVars, filled, loopVars, resVars, result, cacheVars, late,
                 faults>>

\* Mutant of ClearCache: the call leaves its cache to the next one.
KeepCache == UNCHANGED cacheVars

\* The deferred clearAccountTargetCache.
ClearCache == caching' = FALSE /\ hits' = {} /\ misses' = {}

\* The result is returned and the call's locals go out of scope.
Return(ok) ==
  /\ result' = [success |-> ok, hash |-> hash, rows |-> rows, knew |-> knew,
                happened |-> happened']
  /\ pc' = "idle"
  /\ hash' = NoHash /\ entries' = <<>> /\ index' = {} /\ filled' = {}
  /\ todo' = <<>> /\ left' = {} /\ params' = {}
  /\ rows' = {} /\ failed' = {}
  /\ ClearCache
  /\ since' = {} /\ knew' = {}
  /\ UNCHANGED <<chainVars, late>>

\* getblockhash, getblock or the transaction of a listed id does not come.
RPCFails ==
  /\ pc \in {"hash", "block", "load"}
  /\ Fault("rpc")
  /\ Return(FALSE)

-----------------------------------------------------------------------------
(* The block.                                                              *)

GetBlockHash ==
  /\ pc = "hash"
  /\ pc' = "block"
  /\ hash' = best
  /\ NoFault
  /\ UNCHANGED <<chainVars, entries, index, filled, loopVars, resVars, result, cacheVars,
                 late, since, knew>>

\* The answers to getblock that are in order: transactions or ids, with or
\* without prevouts, with or without nTx.
Answers(h) ==
  [hash : {h}, nTx : {0, Len(Content[h])}, entries : {Content[h]},
   verbose : BOOLEAN, prevouts : BOOLEAN]

\* Those that are not: another block, an entry missing, an entry twice.
BadAnswers(h) ==
  LET txs == Content[h]
  IN {[hash |-> b, nTx |-> Len(Content[b]), entries |-> Content[b],
       verbose |-> TRUE, prevouts |-> TRUE] : b \in Blocks \ {h}}
     \cup
     {[hash |-> h, nTx |-> Len(txs), entries |-> e, verbose |-> TRUE, prevouts |-> TRUE] :
        e \in {Front(txs), Append(Front(txs), Head(txs))}}

\* Mutants of BlockIntegrity: one check left out.
HashUnchecked(r) == (r.nTx > 0 => Len(r.entries) = r.nTx) /\ IsInjective(r.entries)
CountUnchecked(r) == r.hash = hash /\ IsInjective(r.entries)

\* verifyRequestedBlockHash and verifyBlockPackageIntegrity.
BlockIntegrity(r) ==
  /\ r.hash = hash
  /\ r.nTx > 0 => Len(r.entries) = r.nTx
  /\ IsInjective(r.entries)

\* The inputs of the transactions in T.
Inputs(T) == UNION {{t} \X Ins[t] : t \in T}

\* The block is accepted and the cache of this call is made.
AcceptBlock(r) ==
  /\ entries' = r.entries
  /\ index' = IF r.verbose THEN ToSet(r.entries) ELSE {}
  /\ filled' = IF r.prevouts THEN Inputs(Txs) ELSE {}
  /\ pc' = IF r.verbose THEN "batch" ELSE "load"
  /\ caching' = TRUE
  /\ UNCHANGED <<chainVars, hash, loopVars, resVars, result, hits, misses, late, since,
                 knew>>

GetBlock(r) ==
  /\ pc = "block"
  /\ IF r \in Answers(hash) THEN NoFault ELSE Fault("response")
  /\ IF BlockIntegrity(r) THEN AcceptBlock(r) ELSE Return(FALSE)

\* The block the node says transaction t is in; nothing while it is in none.
BlockHashOf(t) == IF t \in ToSet(Content[best]) THEN best ELSE NoHash

\* One round of resolveBlockTxList, when the block lists ids only. A
\* transaction that a reorganisation put into another block is refused.
LoadTx ==
  /\ pc = "load"
  /\ NoFault
  /\ LET t == entries[Cardinality(index) + 1]
     IN IF BlockHashOf(t) \in {NoHash, hash}
          THEN /\ index' = index \cup {t}
               /\ pc' = IF index' = ToSet(entries) THEN "batch" ELSE "load"
               /\ UNCHANGED <<chainVars, hash, entries, filled, loopVars, resVars, result,
                              cacheVars, late, since, knew>>
          ELSE Return(FALSE)

-----------------------------------------------------------------------------
(* Inputs and the addresses they belong to.                                *)

\* vinCandidateAddress finds one: on the input, or in the same block.
AddressKnown(fill, t, c) == <<t, c>> \in fill \/ c.made \in index

Candidates(fill, t) ==
  Outs[t] \cup {c.addr : c \in {c \in Ins[t] : AddressKnown(fill, t, c)}}

Unresolved(t) == {c \in Ins[t] : ~AddressKnown(filled, t, c)}

\* fillVinAddresses of the transactions in T: those that need it get all their
\* inputs but the ones whose prevout does not come.
FillVins(T) ==
  LET needy == {t \in T : Unresolved(t) # {}}
      local == {i \in Inputs(needy) : i[2].made \in index}
      missing == UNION {{t} \X Unresolved(t) : t \in needy}
  IN \/ filled' = filled \cup local \cup missing /\ NoFault
     \/ \E lost \in (SUBSET missing) \ {{}} :
          filled' = filled \cup local \cup (missing \ lost) /\ Fault("prevout")

-----------------------------------------------------------------------------
(* The lookups.                                                            *)

\* Mutant of Store: an address whose account changed keeps the old entry too.
StoredTwice(found, lost) == hits' = hits \cup found /\ misses' = misses \cup lost

\* The cache takes what a lookup found and did not find.
Store(found, lost) ==
  /\ hits' = (hits \ lost) \cup found
  /\ misses' = (misses \ found) \cup lost

\* beginBlockAccountTargetCache: all addresses known so far, in one lookup.
BatchLookup ==
  /\ pc = "batch"
  /\ pc' = "fill"
  /\ LET asked == UNION {Candidates(filled, t) : t \in index}
     IN \/ Store(asked \cap registered, asked \ registered) /\ NoFault
        \/ UNCHANGED <<hits, misses>> /\ Fault("lookup")
  /\ UNCHANGED <<chainVars, blockVars, filled, loopVars, resVars, result, caching, late,
                 since, knew>>

\* queryAccountTarget: a lookup that fails finds nothing and is not kept.
Query(a, hit) ==
  \/ /\ a \in hits \cup misses
     /\ hit = (a \in hits)
     /\ NoFault
     /\ UNCHANGED cacheVars
  \/ /\ a \notin hits \cup misses
     /\ hit = (a \in registered)
     /\ IF hit THEN Store({a}, {}) ELSE Store({}, {a})
     /\ NoFault
     /\ UNCHANGED caching
  \/ /\ a \notin hits \cup misses
     /\ ~hit
     /\ Fault("lookup")
     /\ UNCHANGED cacheVars

\* The loop at pc asks for one of the addresses it has left.
Ask(a, hit) ==
  /\ a \in left
  /\ Query(a, hit)
  /\ UNCHANGED <<chainVars, blockVars, rows, failed, result, late, since, knew>>

FillPrevouts ==
  /\ pc = "fill"
  /\ FillVins(index)
  /\ pc' = "candidate"
  /\ left' = UNION {Candidates(filled', t) : t \in index}
  /\ UNCHANGED <<chainVars, blockVars, todo, params, resVars, result, cacheVars, late,
                 since, knew>>

\* The next transaction of txList, if there is one.
GoTo(txs) ==
  /\ todo' = txs
  /\ pc' = IF txs = <<>> THEN "end" ELSE "touch"
  /\ left' = IF txs = <<>> THEN {} ELSE Candidates(filled, Head(txs))
  /\ params' = {}

\* A loop that stops at the first managed address.
StayAsking(a) ==
  /\ left' = left \ {a}
  /\ UNCHANGED <<pc, todo, params>>

\* blockHasManagedCandidate
AskCandidate(a, hit) ==
  /\ pc = "candidate"
  /\ Ask(a, hit)
  /\ IF hit THEN GoTo(entries) ELSE StayAsking(a)
  /\ UNCHANGED filled

NoCandidate ==
  /\ pc = "candidate"
  /\ left = {}
  /\ NoFault
  /\ Return(TRUE)

\* txTouchesManaged, of ScanBlockWithResult and then of extractTransaction.
AskTouch(a, hit) ==
  /\ pc \in {"touch", "again"}
  /\ Ask(a, hit)
  /\ IF ~hit
       THEN StayAsking(a)
       ELSE IF pc = "touch"
         THEN pc' = "refill" /\ left' = {} /\ UNCHANGED <<todo, params>>
         ELSE /\ pc' = "vins"
              /\ left' = {c.addr : c \in {c \in Ins[Current] :
                                           AddressKnown(filled, Current, c)}}
              /\ UNCHANGED <<todo, params>>
  /\ UNCHANGED filled

NotTouched ==
  /\ pc \in {"touch", "again"}
  /\ left = {}
  /\ GoTo(Tail(todo))
  /\ NoFault
  /\ UNCHANGED <<chainVars, blockVars, filled, resVars, result, cacheVars, late, since,
                 knew>>

\* extractTransaction tries the prevouts once more.
RefillPrevouts ==
  /\ pc = "refill"
  /\ FillVins({Current})
  /\ pc' = "again"
  /\ left' = Candidates(filled', Current)
  /\ UNCHANGED <<chainVars, blockVars, todo, params, resVars, result, cacheVars, late,
                 since, knew>>

\* fillVinAddresses for a block: managed inputs take the address of a coin made
\* in the same block. The inputs of one address are asked for at once.
AskVin(a, hit) ==
  /\ pc = "vins"
  /\ Ask(a, hit)
  /\ StayAsking(a)
  /\ filled' = IF hit
       THEN filled \cup {<<Current, c>> : c \in {c \in Ins[Current] :
                                                 c.addr = a /\ c.made \in index}}
       ELSE filled

VinsAsked ==
  /\ pc = "vins"
  /\ left = {}
  /\ pc' = "param"
  /\ left' = Candidates(filled, Current)
  /\ NoFault
  /\ UNCHANGED <<chainVars, blockVars, filled, todo, params, resVars, result, cacheVars,
                 late, since, knew>>

\* buildManagedScanTargetParam
AskParam(a, hit) ==
  /\ pc = "param"
  /\ Ask(a, hit)
  /\ left' = left \ {a}
  /\ params' = IF hit THEN params \cup {a} ELSE params
  /\ UNCHANGED <<pc, todo, filled>>

\* The rows of the current transaction: inputs without an address have none.
ExtractedLegs ==
  {l \in Legs(Current, params) : l.way = "in" => <<Current, l.coin>> \in filled}

\* A transaction with managed addresses must have rows: it has none when the
\* lookups changed their answer in between.
NothingExtracted == params # {} /\ ExtractedLegs = {}

\* Else the accounting of a spend fails for want of its order, and may fail where
\* an input counts for nothing.
ExtractionFails ==
  IF NothingExtracted
    THEN NoFault
    ELSE /\ \E l \in ExtractedLegs : l.way = "in"
         /\ IF \A c \in Ins[Current] : <<Current, c>> \in filled
              THEN Fault("order")
              ELSE NoFault

\* appendBlockTxExtract
ExtractTx ==
  /\ pc = "param"
  /\ left = {}
  /\ \/ /\ ~NothingExtracted
        /\ rows' = rows \cup ExtractedLegs
        /\ NoFault
        /\ UNCHANGED failed
     \/ /\ ExtractionFails
        /\ failed' = failed \cup {Current}
        /\ UNCHANGED rows
  /\ GoTo(Tail(todo))
  /\ UNCHANGED <<chainVars, blockVars, filled, result, cacheVars, late, since, knew>>

\* Mutant of Succeeded: failed transactions do not fail the block.
SucceedsAnyway == TRUE

Succeeded == failed = {}

\* finalizeBlockScanResult
Finalize ==
  /\ pc = "end"
  /\ NoFault
  /\ Return(Succeeded)

-----------------------------------------------------------------------------
(* The others.                                                             *)

NodeReorganises(b) ==
  /\ b # best
  /\ best' = b
  /\ since' = IF pc = "idle" THEN since ELSE since \cup {b}
  /\ UNCHANGED <<registered, pc, blockVars, filled, loopVars, resVars, result, cacheVars,
                 late, faultVars, knew>>

HostRegisters(a) ==
  /\ a \notin registered
  /\ registered' = registered \cup {a}
  /\ UNCHANGED <<best, pc, blockVars, filled, loopVars, resVars, result, cacheVars, late,
                 faultVars, since, knew>>

\* VerifyTransactionByTxID comes to queryAccountTarget while a scan is on. It asks
\* the function its caller gave it: one that knows other addresses than the
\* scanner's is a fault. When it fails nothing is stored.
VerifyQueries(a, hit) ==
  /\ caching
  /\ a \notin hits \cup misses
  /\ IF hit = (a \in registered) THEN NoFault ELSE Fault("caller")
  /\ IF hit THEN Store({a}, {}) ELSE Store({}, {a})
  /\ UNCHANGED <<chainVars, pc, blockVars, filled, loopVars, resVars, result, caching, late,
                 since, knew>>

\* The same, when the host answers slowly: the cache that takes the answer is
\* not the one that was consulted before.
VerifyAsks(a, hit) ==
  /\ "late" \in Faults
  /\ hit = (a \in registered) \/ "caller" \in Faults
  /\ late = {}
  /\ a \notin hits \cup misses
  /\ late' = {[addr |-> a, hit |-> hit]}
  /\ UNCHANGED <<chainVars, pc, blockVars, filled, loopVars, resVars, result, cacheVars,
                 faultVars, since, knew>>

VerifyStores ==
  /\ caching
  /\ \E l \in late :
       /\ Fault(IF l.hit /\ l.addr \notin registered THEN "caller" ELSE "late")
       /\ IF l.hit THEN Store({l.addr}, {}) ELSE Store({}, {l.addr})
  /\ late' = {}
  /\ UNCHANGED <<chainVars, pc, blockVars, filled, loopVars, resVars, result, caching,
                 since, knew>>

-----------------------------------------------------------------------------
Scan ==
  \/ Begin
  \/ RPCFails
  \/ GetBlockHash
  \/ \E r \in (IF pc = "block" THEN Answers(hash) \cup BadAnswers(hash) ELSE {}) : GetBlock(r)
  \/ LoadTx
  \/ BatchLookup
  \/ FillPrevouts
  \/ \E a \in left : \E hit \in BOOLEAN : AskCandidate(a, hit)
  \/ NoCandidate
  \/ \E a \in left : \E hit \in BOOLEAN : AskTouch(a, hit)
  \/ NotTouched
  \/ RefillPrevouts
  \/ \E a \in left : \E hit \in BOOLEAN : AskVin(a, hit)
  \/ VinsAsked
  \/ \E a \in left : \E hit \in BOOLEAN : AskParam(a, hit)
  \/ ExtractTx
  \/ Finalize

Others ==
  \/ \E b \in Blocks : NodeReorganises(b)
  \/ \E a \in Addresses : HostRegisters(a)
  \/ \E a \in Addresses, hit \in BOOLEAN : VerifyQueries(a, hit)
  \/ \E a \in Addresses, hit \in BOOLEAN : VerifyAsks(a, hit)
  \/ VerifyStores

Next == Scan \/ Others

Spec == Init /\ [][Next]_vars

-----------------------------------------------------------------------------
(* Properties.                                                             *)

\* No call leaves a cache behind: what it knows of addresses is never used for
\* another block ("block-scoped").
CacheEndsWithCall == caching => pc \notin {"idle", "hash", "block"}

\* Whatever fails, nothing is invented: every row of a result is one of the
\* block the result names, for an address of the account, unless a caller's own
\* function called another address managed.
RowsAreReal ==
  result.rows # {} /\ "caller" \notin result.happened =>
    result.rows \subseteq LegsOf(result.hash, registered)

\* The lookups that do not answer in time, or not for the account.
BadLookups == {"lookup", "late", "caller"}

LookupsWorked == result.happened \cap BadLookups = {}

Expected(way) == {l \in LegsOf(result.hash, result.knew) : l.way = way}

\* No deposit is lost: while the host answers, a result with Success has every
\* payment to an address the account had when the scan began, even if
\* prevouts are missing, transactions were reloaded or the chain moved.
DepositsKept ==
  result.success /\ LookupsWorked => Expected("out") \subseteq result.rows

\* "... so summary -> external spends are not skipped as unrelated".
SpendsKept ==
  result.success /\ LookupsWorked => Expected("in") \subseteq result.rows

\* When all prevouts come and the host answers in time, the whole call looks
\* atomic (see AtomicScan), whatever other calls with the same address book share
\* its cache. A call that met one of the faults it does not report promises no
\* more than a failed one.
Answer ==
  IF result.success /\ LookupsWorked /\ "prevout" \notin result.happened
    THEN [success |-> TRUE, hash |-> result.hash, rows |-> result.rows]
    ELSE [success |-> FALSE]

Atomic == INSTANCE AtomicScan WITH scanning <- pc # "idle", answer <- Answer

LooksAtomic == Atomic!Spec
=============================================================================
