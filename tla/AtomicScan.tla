----------------------------- MODULE AtomicScan -----------------------------
(***************************************************************************)
(* What ScanBlockWithResult promises: a call either fails, or it returns   *)
(* every row of one block that was the best at its height while the call   *)
(* was going on, for one set of addresses: all that were the account's     *)
(* when the call began and perhaps some that became so meanwhile. It looks *)
(* as though the block and the addresses were read at once.                *)
(***************************************************************************)
EXTENDS BlockData

VARIABLES
  best,        \* the best block at the height
  registered,  \* the account's addresses
  scanning,    \* a call is going on
  since,       \* the blocks that were best since it began
  knew,        \* the addresses the account had when it began
  answer       \* what the last call returned

atomicVars == <<best, registered, scanning, since, knew, answer>>

Failure == [success |-> FALSE]
Success(b, K) == [success |-> TRUE, hash |-> b, rows |-> LegsOf(b, K)]

Init ==
  /\ best \in Blocks
  /\ registered \subseteq Addresses
  /\ ~scanning
  /\ since = {} /\ knew = {}
  /\ answer = Failure

Reorganise ==
  /\ best' \in Blocks
  /\ since' = IF scanning THEN since \cup {best'} ELSE since
  /\ UNCHANGED <<registered, scanning, knew, answer>>

Register ==
  /\ \E a \in Addresses : registered' = registered \cup {a}
  /\ UNCHANGED <<best, scanning, since, knew, answer>>

Call ==
  /\ ~scanning /\ scanning'
  /\ since' = {best}
  /\ knew' = registered
  /\ UNCHANGED <<best, registered, answer>>

Return ==
  /\ scanning /\ ~scanning'
  /\ \/ answer' = Failure
     \/ \E b \in since : \E K \in SUBSET registered :
          knew \subseteq K /\ answer' = Success(b, K)
  /\ since' = {} /\ knew' = {}
  /\ UNCHANGED <<best, registered>>

Next == Reorganise \/ Register \/ Call \/ Return

Spec == Init /\ [][Next]_atomicVars
=============================================================================
