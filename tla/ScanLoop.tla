------------------------------ MODULE ScanLoop ------------------------------
(***************************************************************************)
(* RunScanLoop of BtcBlockScanner: the one goroutine that walks the chain  *)
(* from the cursor to the node's tip and hands every block result to the   *)
(* host's HandleBlock, the priority heights it serves on the way, and the  *)
(* calls other goroutines (or the handler itself) may make meanwhile:      *)
(* ResetScanHeight, ScanBlockPrioritize, ScanBlockOnce, Pause and Run.     *)
(*                                                                         *)
(* What one call of ScanBlockWithResult does inside is left to BlockScan:  *)
(* here a scan takes scanBlockMu, succeeds or fails, and gives the mutex   *)
(* back before the handler runs.                                           *)
(***************************************************************************)
EXTENDS Naturals, Sequences, Functions

CONSTANTS
  MaxHeight,       \* highest block the chain ever has
  BatchLimit,      \* maxBlocksPerScanRound
  MaxRequests,     \* how often ScanBlockPrioritize accepts the same height
  MaxResets,       \* calls of ResetScanHeight in one behaviour
  ResetsInRound    \* TRUE: the host may call ResetScanHeight at any moment
                   \* FALSE: only while the loop is between two rounds

ASSUME MaxHeightAssumption == MaxHeight \in Nat \ {0}
ASSUME BatchLimitAssumption == BatchLimit \in Nat \ {0}
ASSUME BoundsAssumption == MaxRequests \in Nat /\ MaxResets \in Nat
ASSUME ResetsInRoundAssumption == ResetsInRound \in BOOLEAN

VARIABLES
  pc,          \* where the loop's goroutine is
  cursor,      \* scanLoopCursor
  latest,      \* local: the tip the round works from
  next,        \* local h: the height the round is at, 0 between two rounds
  scanTo,      \* local: the last height of the round
  result,      \* local: the result that is being handled
  queue,       \* priorityHeights
  batch,       \* local heights of processPriorityScan, those left to do
  paused,      \* LoopPause
  mu,          \* who holds scanBlockMu
  tip,         \* the node's best height
  resets,      \* calls of ResetScanHeight so far
  \* history, read by no action of the code:
  base,        \* heights up to it were passed over at the host's request
  delivered,   \* heights handed over with Success since that request
  accepted,    \* how often ScanBlockPrioritize accepted a height
  served,      \* how often the handler got a Once result for a height
  sincePause   \* scans the loop has begun since Pause

roundVars == <<latest, next, scanTo>>
prioVars == <<queue, batch, accepted, served>>
hostVars == <<base, delivered>>
callVars == <<tip, resets>>
vars == <<pc, cursor, roundVars, result, prioVars, paused, mu, callVars, hostVars,
          sincePause>>

Heights == 1..MaxHeight

Locations == {"stopped", "gate", "drain", "prioGate", "prioScan", "prioScanning",
              "prioHandle", "tip", "tipHandle", "plan", "scan", "scanning", "handle",
              "advance", "sleep"}

Holders == {"free", "loop", "nested", "once"}

\* The loop is inside `for h := scanFrom; h <= scanTo; h++`.
InRound == next # 0

\* Handlers run on the loop's goroutine, with scanBlockMu released.
Handling == pc \in {"prioHandle", "tipHandle", "handle"}

LowerOf(a, b) == IF a < b THEN a ELSE b
HigherOf(a, b) == IF a < b THEN b ELSE a

\* Mutant of CursorBefore: height 0 is not told apart and falls below 0.
CursorBeforeUnchecked(h) == h - 1

\* The cursor that makes h the next height; height 0 is read as height 1.
CursorBefore(h) == IF h = 0 THEN 0 ELSE h - 1

TypeOK ==
  /\ pc \in Locations
  /\ cursor \in 0..MaxHeight
  /\ latest \in 0..MaxHeight
  /\ next \in 0..MaxHeight
  /\ scanTo \in 0..MaxHeight
  /\ result \in {"none", "success", "failure"}
  /\ queue \in Seq(Heights)
  /\ batch \in Seq(Heights)
  /\ paused \in BOOLEAN
  /\ mu \in Holders
  /\ tip \in Heights
  /\ resets \in 0..MaxResets
  /\ base \in 0..MaxHeight
  /\ delivered \in SUBSET Heights
  /\ accepted \in [Heights -> Nat]
  /\ served \in [Heights -> Nat]
  /\ sincePause \in Nat

Init ==
  /\ pc = "stopped"
  /\ cursor = 0 /\ latest = 0 /\ next = 0 /\ scanTo = 0
  /\ result = "none"
  /\ queue = <<>> /\ batch = <<>>
  /\ paused = FALSE
  /\ mu = "free"
  /\ tip \in Heights
  /\ resets = 0
  /\ base = 0 /\ delivered = {}
  /\ accepted = [h \in Heights |-> 0]
  /\ served = [h \in Heights |-> 0]
  /\ sincePause = 0

-----------------------------------------------------------------------------
(* The loop's goroutine.                                                   *)

\* A step of the goroutine that changes nothing but its place.
Move(from, to) ==
  /\ pc = from
  /\ pc' = to
  /\ UNCHANGED <<cursor, roundVars, result, prioVars, paused, mu, callVars, hostVars,
                 sincePause>>

RunScanLoop(start) ==
  /\ pc = "stopped"
  /\ pc' = "gate"
  /\ cursor' = CursorBefore(start)
  /\ base' = CursorBefore(start)
  /\ delivered' = {}
  /\ UNCHANGED <<roundVars, result, prioVars, paused, mu, callVars, sincePause>>

\* BlockIfPaused, at the top of the outer loop and of the round.
Gate == ~paused /\ Move("gate", "drain")

\* Where the loop goes when no priority height is left: both of its loops
\* call processPriorityScan.
AfterPriority == IF InRound THEN "scan" ELSE "tip"

\* Mutant of QueueAfterDrain: the queue is copied and never cleared.
QueueKept == queue

\* priorityHeights once its heights are copied out.
QueueAfterDrain == <<>>

\* The copy-and-clear under priorityScanMu.
DrainPriority ==
  /\ pc = "drain"
  /\ batch' = queue
  /\ queue' = QueueAfterDrain
  /\ pc' = IF queue = <<>> THEN AfterPriority ELSE "prioGate"
  /\ UNCHANGED <<cursor, roundVars, result, accepted, served, paused, mu,
                 callVars, hostVars, sincePause>>

\* Mutant of PriorityGateOpen: only the outer gate looks at the pause.
PriorityGateNotGuarded == TRUE

PriorityGateOpen == ~paused

\* BlockIfPaused, before each priority height.
PriorityGate == PriorityGateOpen /\ Move("prioGate", "prioScan")

\* ScanBlockWithResult begins: scanBlockMu is free and the loop takes it.
BeginScan(from, to) ==
  /\ pc = from
  /\ mu = "free"
  /\ mu' = "loop"
  /\ pc' = to
  /\ sincePause' = IF paused THEN sincePause + 1 ELSE sincePause
  /\ UNCHANGED <<cursor, roundVars, result, prioVars, paused, callVars, hostVars>>

BeginPriorityScan == BeginScan("prioScan", "prioScanning")
BeginMainScan == BeginScan("scan", "scanning")

\* ScanBlockWithResult returns. A block above the tip has no hash to fetch.
EndScan(from, to, h, ok) ==
  /\ pc = from
  /\ ok => h <= tip
  /\ result' = IF ok THEN "success" ELSE "failure"
  /\ mu' = "free"
  /\ pc' = to
  /\ UNCHANGED <<cursor, roundVars, prioVars, paused, callVars, hostVars,
                 sincePause>>

EndPriorityScan(ok) == EndScan("prioScanning", "prioHandle", Head(batch), ok)
EndMainScan(ok) == EndScan("scanning", "handle", next, ok)

\* Mutant of HeightsLeft: a failed height returns from processPriorityScan.
HeightsLeftOnSuccess == IF result = "success" THEN Tail(batch) ELSE <<>>

HeightsLeft == Tail(batch)

\* The handler returns from a Once result; a failed height is not tried again.
PriorityHandled ==
  /\ pc = "prioHandle"
  /\ mu # "nested"
  /\ served' = [served EXCEPT ![Head(batch)] = @ + 1]
  /\ batch' = HeightsLeft
  /\ pc' = IF HeightsLeft = <<>> THEN AfterPriority ELSE "prioGate"
  /\ result' = "none"
  /\ UNCHANGED <<cursor, roundVars, queue, accepted, paused, mu, callVars,
                 hostVars, sincePause>>

\* getblockcount fails or answers 0: the handler hears of it.
TipFails == Move("tip", "tipHandle")

TipFailureHandled == mu # "nested" /\ Move("tipHandle", "sleep")

TipAnswers ==
  /\ pc = "tip"
  /\ latest' = tip
  /\ pc' = "plan"
  /\ UNCHANGED <<cursor, next, scanTo, result, prioVars, paused, mu, callVars,
                 hostVars, sincePause>>

\* Mutant of NothingToScan: the tip itself is left for later.
NothingBelowTip == cursor + 1 >= latest

NothingToScan == cursor + 1 > latest

\* The cursor is loaded after the tip is known, and nothing is to be scanned.
PlanNothing ==
  /\ pc = "plan"
  /\ NothingToScan
  /\ pc' = "sleep"
  /\ latest' = 0
  /\ UNCHANGED <<cursor, next, scanTo, result, prioVars, paused, mu, callVars,
                 hostVars, sincePause>>

\* The cursor is loaded and a round of at most BatchLimit blocks begins.
PlanRound ==
  /\ pc = "plan"
  /\ ~NothingToScan
  /\ next' = cursor + 1
  /\ scanTo' = LowerOf(latest, cursor + BatchLimit)
  /\ pc' = "gate"
  /\ UNCHANGED <<cursor, latest, result, prioVars, paused, mu, callVars, hostVars,
                 sincePause>>

\* After the round: straight on while blocks remain, else sleep. The locals of
\* the round go out of scope.
EndRound ==
  /\ next' = 0 /\ scanTo' = 0 /\ latest' = 0
  /\ pc' = IF scanTo < latest THEN "gate" ELSE "sleep"

\* Mutant of RoundGoesOn: a failed block does not break the round.
RoundNeverBreaks == TRUE

\* Not `err != nil || res == nil || !res.Success`.
RoundGoesOn == (result = "success")

\* HandleBlock returns; a result without Success breaks the round.
BlockHandled ==
  /\ pc = "handle"
  /\ mu # "nested"
  /\ delivered' = IF result = "success" THEN delivered \cup {next} ELSE delivered
  /\ IF RoundGoesOn
       THEN pc' = "advance" /\ UNCHANGED <<latest, next, scanTo>>
       ELSE EndRound
  /\ result' = "none"
  /\ UNCHANGED <<cursor, prioVars, paused, mu, callVars, base, sincePause>>

\* Mutant of CursorAfterBlock: the cursor is moved to the tip of the round.
CursorAtTip == latest

CursorAfterBlock == next

\* scanLoopCursor.Store(h), whatever the cursor has become meanwhile.
Advance ==
  /\ pc = "advance"
  /\ cursor' = CursorAfterBlock
  /\ IF next = scanTo
       THEN EndRound
       ELSE /\ next' = next + 1
            /\ pc' = "gate"
            /\ UNCHANGED <<latest, scanTo>>
  /\ UNCHANGED <<result, prioVars, paused, mu, callVars, hostVars, sincePause>>

\* WaitInterruptible(interval) is over.
WakeUp == Move("sleep", "gate")

-----------------------------------------------------------------------------
(* Calls of other goroutines; the first two also come from the handler.    *)

\* What a rewind between two rounds asks for is everything from h on, anew;
\* one inside a round cannot ask for that, see Advance.
ResetScanHeight(h) ==
  /\ pc # "stopped"
  /\ resets < MaxResets
  /\ InRound => ResetsInRound
  /\ resets' = resets + 1
  /\ cursor' = CursorBefore(h)
  /\ IF InRound
       THEN /\ base' = HigherOf(base, CursorBefore(h))
            /\ UNCHANGED delivered
       ELSE /\ base' = CursorBefore(h)
            /\ delivered' = {}
  /\ UNCHANGED <<pc, roundVars, result, prioVars, paused, mu, tip, sincePause>>

\* A height that is queued already is dropped; one being scanned is not.
ScanBlockPrioritize(h) ==
  /\ pc # "stopped"
  /\ accepted[h] < MaxRequests
  /\ h \notin Range(queue)
  /\ queue' = Append(queue, h)
  /\ accepted' = [accepted EXCEPT ![h] = @ + 1]
  /\ UNCHANGED <<pc, cursor, roundVars, result, batch, served, paused, mu,
                 callVars, hostVars, sincePause>>

\* ScanBlockOnce of another goroutine, and of the handler on the loop's own.
OnceBegins(who) ==
  /\ mu = "free"
  /\ who = "nested" => Handling
  /\ mu' = who
  /\ UNCHANGED <<pc, cursor, roundVars, result, prioVars, paused, callVars,
                 hostVars, sincePause>>

OnceReturns ==
  /\ mu \in {"nested", "once"}
  /\ mu' = "free"
  /\ UNCHANGED <<pc, cursor, roundVars, result, prioVars, paused, callVars,
                 hostVars, sincePause>>

Pause ==
  /\ ~paused
  /\ paused' = TRUE
  /\ sincePause' = 0
  /\ UNCHANGED <<pc, cursor, roundVars, result, prioVars, mu, callVars, hostVars>>

Run ==
  /\ paused
  /\ paused' = FALSE
  /\ sincePause' = 0
  /\ UNCHANGED <<pc, cursor, roundVars, result, prioVars, mu, callVars, hostVars>>

\* The node follows the chain; a reorganisation or another node may lower it.
NodeTip(t) ==
  /\ t # tip
  /\ tip' = t
  /\ UNCHANGED <<pc, cursor, roundVars, result, prioVars, paused, mu, resets,
                 hostVars, sincePause>>

-----------------------------------------------------------------------------
Loop ==
  \/ Gate
  \/ DrainPriority
  \/ PriorityGate
  \/ BeginPriorityScan
  \/ \E ok \in BOOLEAN : EndPriorityScan(ok)
  \/ PriorityHandled
  \/ TipFails
  \/ TipFailureHandled
  \/ TipAnswers
  \/ PlanNothing
  \/ PlanRound
  \/ BeginMainScan
  \/ \E ok \in BOOLEAN : EndMainScan(ok)
  \/ BlockHandled
  \/ Advance
  \/ WakeUp

Callers ==
  \/ \E h \in Heights : RunScanLoop(h)
  \/ \E h \in 0..MaxHeight : ResetScanHeight(h)
  \/ \E h \in Heights : ScanBlockPrioritize(h)
  \/ \E who \in {"nested", "once"} : OnceBegins(who)
  \/ OnceReturns
  \/ Pause
  \/ Run
  \/ \E t \in Heights : NodeTip(t)

Next == Loop \/ Callers

Spec == Init /\ [][Next]_vars

(***************************************************************************)
(* The loop is one goroutine: whenever it is repeatedly able to go on, it  *)
(* goes on (a Go mutex does not starve a waiter, a handler returns, and a  *)
(* pause that is lifted lets a blocked loop through). A nested or foreign  *)
(* ScanBlockOnce ends, and a paused loop is resumed. Of the node only this *)
(* is assumed: asked again and again, it answers in the end.               *)
(***************************************************************************)
Fairness ==
  /\ SF_vars(Loop)
  /\ SF_vars(TipAnswers)
  /\ SF_vars(EndMainScan(TRUE))
  /\ WF_vars(OnceReturns)
  /\ WF_vars(Run)

FairSpec == Spec /\ Fairness

-----------------------------------------------------------------------------
(* Properties.                                                             *)

\* The cursor never runs ahead of the host: every height up to the cursor was
\* handed to HandleBlock with Success since the last rewind the loop obeys, or
\* lies below the height the host asked to begin at. It is what lets the host
\* take "cursor = h" for "no deposit up to h was missed".
NoGap ==
  \A h \in Heights : base < h /\ h <= cursor => h \in delivered

\* How often h stands in a queue without repetitions.
Waiting(h, q) == IF h \in Range(q) THEN 1 ELSE 0

\* No height accepted by ScanBlockPrioritize is lost and none is scanned more
\* often than it was accepted, whatever is enqueued while a batch is drained
\* and scanned.
PriorityConserved ==
  \A h \in Heights : accepted[h] = served[h] + Waiting(h, queue) + Waiting(h, batch)

\* After Pause returns, the loop begins at most two more scans: a priority
\* height and the main height that are both past their last look at the pause.
PauseStopsScans == paused => sincePause <= 2

\* A height accepted for priority scanning is scanned in the end, even while
\* the main loop keeps failing at a block.
PriorityServed ==
  \A h \in Heights : \A n \in 1..MaxRequests :
    (accepted[h] >= n) ~> (served[h] >= n)

\* The loop, once started, catches up with the node again and again: no
\* interleaving of resets, pauses, nested scans and failures strands it.
CatchesUp == (pc # "stopped") ~> (cursor >= tip)

\* Between two rounds the loop is a feed that offers the height after its
\* position and moves there only when the host has taken it (see OrderedFeed).
Offered ==
  IF (pc = "handle" /\ result = "success") \/ pc = "advance" THEN next ELSE 0

Feed == INSTANCE OrderedFeed WITH position <- cursor, offered <- Offered

FeedSpec == Feed!Spec
=============================================================================
