--------------------------- MODULE ScanLoopProofs ---------------------------
(***************************************************************************)
(* For every chain height, round length and number of requests: the types  *)
(* of ScanLoop and the safety properties of its runs a host relies on.     *)
(***************************************************************************)
EXTENDS ScanLoop, TLAPS

USE MaxHeightAssumption, BatchLimitAssumption, BoundsAssumption, ResetsInRoundAssumption

-----------------------------------------------------------------------------
(* Facts about the data.                                                   *)

\* Heights by membership: the interval itself stays out of the obligations.
LEMMA HeightsFacts ==
  \A h : h \in Heights <=> h \in Nat /\ 1 <= h /\ h <= MaxHeight
  BY DEF Heights

LEMMA NonzeroHeight ==
  \A h \in 0..MaxHeight : h # 0 => h \in Heights
  BY DEF Heights

LEMMA HeadTail ==
  ASSUME NEW S, NEW s \in Seq(S), s # <<>>
  PROVE  Head(s) \in S /\ Tail(s) \in Seq(S)
  OBVIOUS

LEMMA CountUp ==
  ASSUME NEW S, NEW f \in [S -> Nat], NEW x \in S
  PROVE  [f EXCEPT ![x] = @ + 1] \in [S -> Nat]
  OBVIOUS

LEMMA CursorBeforeType ==
  \A h \in 0..MaxHeight : CursorBefore(h) \in 0..MaxHeight
  BY DEF CursorBefore

-----------------------------------------------------------------------------
(* Type correctness.                                                       *)

\* Where the goroutine is inside processPriorityScan, with a height in hand.
InBatch == pc \in {"prioGate", "prioScan", "prioScanning", "prioHandle"}

\* The locals of the goroutine make sense where it uses them.
LocalsOK ==
  /\ InBatch <=> batch # <<>>
  /\ pc = "plan" => latest \in Heights
  /\ pc \in {"scan", "scanning", "handle", "advance"} => next # 0
  /\ pc \in {"stopped", "tip", "tipHandle", "plan", "sleep"} => next = 0
  /\ next <= scanTo

TypeInv == TypeOK /\ LocalsOK

LEMMA InitTypeInv == Init => TypeInv
<1> SUFFICES ASSUME Init PROVE TypeInv
  OBVIOUS
<1> USE DEF Init
<1>1. queue \in Seq(Heights) /\ batch \in Seq(Heights)
  OBVIOUS
<1>2. accepted \in [Heights -> Nat] /\ served \in [Heights -> Nat]
  OBVIOUS
<1>3. tip \in Heights /\ delivered \in SUBSET Heights /\ resets \in 0..MaxResets
  OBVIOUS
<1>4. 0 \in 0..MaxHeight
  OBVIOUS
<1>5. TypeOK
  BY <1>1, <1>2, <1>3, <1>4 DEF TypeOK, Locations, Holders
<1>6. LocalsOK
  BY DEF LocalsOK, InBatch
<1> QED BY <1>5, <1>6 DEF TypeInv

LEMMA StepTypeInv == TypeInv /\ [Next]_vars => TypeInv'
<1> SUFFICES ASSUME TypeInv, [Next]_vars PROVE TypeInv'
  OBVIOUS
<1> USE HeightsFacts DEF TypeInv, TypeOK, LocalsOK, InBatch, InRound, Locations, Holders,
        roundVars, prioVars, callVars, hostVars, vars, Move
<1>1. CASE Gate BY <1>1 DEF Gate
<1>2. CASE DrainPriority
  BY <1>2 DEF DrainPriority, QueueAfterDrain, AfterPriority
<1>3. CASE PriorityGate BY <1>3 DEF PriorityGate, PriorityGateOpen
<1>4. CASE BeginPriorityScan BY <1>4 DEF BeginPriorityScan, BeginScan
<1>5. ASSUME NEW ok \in BOOLEAN, EndPriorityScan(ok) PROVE TypeInv'
  BY <1>5 DEF EndPriorityScan, EndScan
<1>6. CASE PriorityHandled
  <2> USE <1>6 DEF PriorityHandled, HeightsLeft, AfterPriority
  <2>1. Head(batch) \in Heights /\ Tail(batch) \in Seq(Heights)
    BY HeadTail
  <2>2. served' \in [Heights -> Nat]
    BY <2>1, CountUp
  <2> QED BY <2>1, <2>2
<1>7. CASE TipFails BY <1>7 DEF TipFails
<1>8. CASE TipFailureHandled BY <1>8 DEF TipFailureHandled
<1>9. CASE TipAnswers BY <1>9 DEF TipAnswers
<1>10. CASE PlanNothing BY <1>10 DEF PlanNothing
<1>11. CASE PlanRound BY <1>11 DEF PlanRound, NothingToScan, LowerOf
<1>12. CASE BeginMainScan BY <1>12 DEF BeginMainScan, BeginScan
<1>13. ASSUME NEW ok \in BOOLEAN, EndMainScan(ok) PROVE TypeInv'
  BY <1>13 DEF EndMainScan, EndScan
<1>14. CASE BlockHandled
  <2>1. next \in Heights
    <3>1. next # 0 /\ next \in 0..MaxHeight
      BY <1>14 DEF BlockHandled
    <3> QED BY <3>1, NonzeroHeight
  <2>2. delivered' \in SUBSET Heights
    BY <1>14, <2>1 DEF BlockHandled
  <2> QED BY <1>14, <2>2 DEF BlockHandled, EndRound
<1>15. CASE Advance
  BY <1>15 DEF Advance, CursorAfterBlock, EndRound
<1>16. CASE WakeUp BY <1>16 DEF WakeUp
<1>17. ASSUME NEW h \in Heights, RunScanLoop(h) PROVE TypeInv'
  <2>1. CursorBefore(h) \in 0..MaxHeight
    BY CursorBeforeType
  <2> QED BY <1>17, <2>1 DEF RunScanLoop
<1>18. ASSUME NEW h \in 0..MaxHeight, ResetScanHeight(h) PROVE TypeInv'
  <2>1. CursorBefore(h) \in 0..MaxHeight
    BY CursorBeforeType
  <2>2. HigherOf(base, CursorBefore(h)) \in 0..MaxHeight
    BY <2>1 DEF HigherOf
  <2>3. base' \in 0..MaxHeight /\ delivered' \in SUBSET Heights
    BY <1>18, <2>1, <2>2 DEF ResetScanHeight
  <2> QED BY <1>18, <2>1, <2>3 DEF ResetScanHeight
<1>19. ASSUME NEW h \in Heights, ScanBlockPrioritize(h) PROVE TypeInv'
  BY <1>19 DEF ScanBlockPrioritize
<1>20. ASSUME NEW who \in {"nested", "once"}, OnceBegins(who) PROVE TypeInv'
  BY <1>20 DEF OnceBegins
<1>21. CASE OnceReturns BY <1>21 DEF OnceReturns
<1>22. CASE Pause BY <1>22 DEF Pause
<1>23. CASE Run BY <1>23 DEF Run
<1>24. ASSUME NEW t \in Heights, NodeTip(t) PROVE TypeInv'
  BY <1>24 DEF NodeTip
<1>25. CASE UNCHANGED vars BY <1>25
<1> QED
  BY <1>1, <1>2, <1>3, <1>4, <1>5, <1>6, <1>7, <1>8, <1>9, <1>10, <1>11, <1>12, <1>13,
     <1>14, <1>15, <1>16, <1>17, <1>18, <1>19, <1>20, <1>21, <1>22, <1>23, <1>24, <1>25
  DEF Next, Loop, Callers

LEMMA TypeInvariant == Spec => []TypeInv
<1>1. Init => TypeInv BY InitTypeInv
<1>2. TypeInv /\ [Next]_vars => TypeInv' BY StepTypeInv
<1> QED BY <1>1, <1>2, PTL DEF Spec

\* Every variable of the scan loop keeps its type: in particular the cursor and
\* the heights of a round never leave 0..MaxHeight.
THEOREM TypeCorrect == Spec => []TypeOK
<1>1. TypeInv => TypeOK
  BY DEF TypeInv
<1> QED BY <1>1, TypeInvariant, PTL

-----------------------------------------------------------------------------
(* The cursor never runs ahead of the host.                                *)

\* NoGap is not inductive: the round stores its own h, so what the round has
\* behind it counts, not the cursor, which a reset may have moved.
RoundInv ==
  /\ NoGap
  /\ next # 0 => \A h \in Heights : base < h /\ h < next => h \in delivered
  /\ pc = "advance" => next \in delivered

LEMMA StepRoundInv == TypeInv /\ RoundInv /\ [Next]_vars => RoundInv'
<1> SUFFICES ASSUME TypeInv, RoundInv, [Next]_vars PROVE RoundInv'
  OBVIOUS
<1>0. /\ pc = "plan" => next = 0
      /\ pc = "advance" => next # 0
      /\ base \in Nat /\ cursor \in Nat /\ next \in Nat
      /\ \A h \in Heights : h \in Nat /\ h # 0
  BY HeightsFacts DEF TypeInv, TypeOK, LocalsOK
<1> USE <1>0 DEF RoundInv, NoGap
<1>1. CASE PlanRound BY <1>1 DEF PlanRound, hostVars
<1>2. CASE BlockHandled
  <2>1. base' = base /\ cursor' = cursor /\ delivered \subseteq delivered'
        /\ next' \in {0, next}
    BY <1>2 DEF BlockHandled, EndRound
  <2>2. pc' = "advance" => next' \in delivered'
    BY <1>2 DEF BlockHandled, EndRound, RoundGoesOn
  <2> QED BY <2>1, <2>2
<1>3. CASE Advance
  <2>1. base' = base /\ cursor' = next /\ delivered' = delivered
        /\ next' \in {0, next + 1} /\ pc' # "advance" /\ next \in delivered
    BY <1>3 DEF Advance, CursorAfterBlock, EndRound, hostVars
  <2> QED BY <2>1
<1>4. ASSUME NEW h \in Heights, RunScanLoop(h) PROVE RoundInv'
  <2>1. base' = cursor' /\ next' = 0 /\ pc' # "advance" /\ cursor' \in Nat
    BY <1>4, CursorBeforeType, HeightsFacts
    DEF RunScanLoop, roundVars, TypeInv, TypeOK, LocalsOK
  <2> QED BY <2>1
<1>5. ASSUME NEW h \in 0..MaxHeight, ResetScanHeight(h) PROVE RoundInv'
  <2>1. CursorBefore(h) \in Nat
    BY CursorBeforeType
  <2>2. CASE next = 0
    <3>1. base' = cursor' /\ next' = 0 /\ pc' # "advance" /\ cursor' \in Nat
      BY <1>5, <2>1, <2>2 DEF ResetScanHeight, InRound, roundVars
    <3> QED BY <3>1
  <2>3. CASE next # 0
    <3>1. base' \in Nat /\ base <= base' /\ cursor' <= base' /\ cursor' \in Nat
      BY <1>5, <2>1, <2>3 DEF ResetScanHeight, InRound, HigherOf
    <3>2. next' = next /\ pc' = pc /\ delivered' = delivered
      BY <1>5, <2>3 DEF ResetScanHeight, InRound, roundVars
    <3> QED BY <3>1, <3>2
  <2> QED BY <2>2, <2>3
<1>6. CASE /\ UNCHANGED <<base, cursor, delivered, next>>
           /\ pc' # "advance" \/ pc' = pc
  BY <1>6
<1>7. ASSUME NEW from, NEW to, to # "advance", Move(from, to) PROVE RoundInv'
  BY <1>6, <1>7 DEF Move, roundVars, hostVars
<1>8. CASE Gate \/ PriorityGate \/ TipFails \/ TipFailureHandled \/ WakeUp
  BY <1>7, <1>8 DEF Gate, PriorityGate, TipFails, TipFailureHandled, WakeUp
<1>9. CASE BeginPriorityScan \/ BeginMainScan
  BY <1>6, <1>9
  DEF BeginPriorityScan, BeginMainScan, BeginScan, roundVars, hostVars
<1>10. ASSUME NEW ok \in BOOLEAN, EndPriorityScan(ok) \/ EndMainScan(ok)
       PROVE  RoundInv'
  BY <1>6, <1>10 DEF EndPriorityScan, EndMainScan, EndScan, roundVars, hostVars
<1>11. CASE DrainPriority \/ PriorityHandled
  BY <1>6, <1>11 DEF DrainPriority, PriorityHandled, AfterPriority, roundVars, hostVars
<1>12. CASE TipAnswers \/ PlanNothing
  BY <1>6, <1>12 DEF TipAnswers, PlanNothing, hostVars
<1>13. CASE \E h \in Heights : ScanBlockPrioritize(h) \/ NodeTip(h)
  BY <1>6, <1>13 DEF ScanBlockPrioritize, NodeTip, roundVars, hostVars
<1>14. CASE \E who \in {"nested", "once"} : OnceBegins(who)
  BY <1>6, <1>14 DEF OnceBegins, roundVars, hostVars
<1>15. CASE OnceReturns \/ Pause \/ Run \/ UNCHANGED vars
  BY <1>6, <1>15 DEF OnceReturns, Pause, Run, vars, roundVars, hostVars
<1> QED
  BY <1>1, <1>2, <1>3, <1>4, <1>5, <1>8, <1>9, <1>10, <1>11, <1>12, <1>13, <1>14, <1>15
  DEF Next, Loop, Callers

\* Every height up to the cursor was handed to the host with Success since
\* the last rewind the loop obeys, or lies below where the host asked to begin.
THEOREM GapFree == Spec => []NoGap
<1>1. Init => RoundInv
  BY HeightsFacts DEF Init, RoundInv, NoGap
<1>2. RoundInv => NoGap
  BY DEF RoundInv
<1> QED BY <1>1, <1>2, StepRoundInv, TypeInvariant, PTL DEF Spec

-----------------------------------------------------------------------------
(* Pause stops the loop's scans.                                           *)

\* Past a gate no scan has begun since a pause; past a priority scan, one.
PauseInv ==
  paused =>
    /\ pc \in {"drain", "prioScan"} => sincePause = 0
    /\ pc \in {"prioScanning", "prioHandle", "scan", "prioGate", "tip"} =>
         sincePause <= 1
    /\ sincePause <= 2

LEMMA StepPauseInv == TypeInv /\ PauseInv /\ [Next]_vars => PauseInv'
<1> SUFFICES ASSUME TypeInv, PauseInv, [Next]_vars PROVE PauseInv'
  OBVIOUS
<1>0. sincePause \in Nat
  BY DEF TypeInv, TypeOK
<1> USE <1>0 DEF PauseInv
<1>1. CASE Gate \/ PriorityGate
  BY <1>1 DEF Gate, PriorityGate, PriorityGateOpen, Move
<1>2. CASE DrainPriority BY <1>2 DEF DrainPriority, AfterPriority
<1>3. CASE BeginPriorityScan BY <1>3 DEF BeginPriorityScan, BeginScan
<1>4. CASE BeginMainScan BY <1>4 DEF BeginMainScan, BeginScan
<1>5. ASSUME NEW ok \in BOOLEAN, EndPriorityScan(ok) PROVE PauseInv'
  BY <1>5 DEF EndPriorityScan, EndScan
<1>6. ASSUME NEW ok \in BOOLEAN, EndMainScan(ok) PROVE PauseInv'
  BY <1>6 DEF EndMainScan, EndScan
<1>7. CASE PriorityHandled BY <1>7 DEF PriorityHandled, AfterPriority
<1>8. CASE TipFails \/ TipFailureHandled \/ WakeUp
  BY <1>8 DEF TipFails, TipFailureHandled, WakeUp, Move
<1>9. CASE TipAnswers \/ PlanNothing \/ PlanRound
  BY <1>9 DEF TipAnswers, PlanNothing, PlanRound
<1>10. CASE BlockHandled \/ Advance
  BY <1>10 DEF BlockHandled, Advance, EndRound
<1>11. CASE \E h \in Heights : RunScanLoop(h)
  BY <1>11 DEF RunScanLoop
<1>12. CASE \E h \in 0..MaxHeight : ResetScanHeight(h)
  BY <1>12 DEF ResetScanHeight
<1>13. CASE \E h \in Heights : ScanBlockPrioritize(h) \/ NodeTip(h)
  BY <1>13 DEF ScanBlockPrioritize, NodeTip
<1>14. CASE \E who \in {"nested", "once"} : OnceBegins(who)
  BY <1>14 DEF OnceBegins
<1>15. CASE OnceReturns \/ UNCHANGED vars
  BY <1>15 DEF OnceReturns, vars
<1>16. CASE Pause \/ Run
  <2>1. sincePause' = 0
    BY <1>16 DEF Pause, Run
  <2> QED BY <2>1
<1> QED
  BY <1>1, <1>2, <1>3, <1>4, <1>5, <1>6, <1>7, <1>8, <1>9, <1>10, <1>11, <1>12, <1>13,
     <1>14, <1>15, <1>16 DEF Next, Loop, Callers

\* Once Pause has returned the loop begins at most two more scans.
THEOREM PauseBound == Spec => []PauseStopsScans
<1>1. Init => PauseInv
  BY DEF Init, PauseInv
<1>2. PauseInv => PauseStopsScans
  BY DEF PauseInv, PauseStopsScans
<1> QED BY <1>1, <1>2, StepPauseInv, TypeInvariant, PTL DEF Spec

-----------------------------------------------------------------------------
(* No priority height is lost or scanned too often.                        *)

NoRepeat(q) == \A i, j \in 1..Len(q) : q[i] = q[j] => i = j

LEMMA AppendFacts ==
  ASSUME NEW S, NEW q \in Seq(S), NEW x \in S, NoRepeat(q), x \notin Range(q)
  PROVE  NoRepeat(Append(q, x)) /\ Range(Append(q, x)) = Range(q) \cup {x}
<1>1. \A i \in 1..Len(q) : q[i] # x
  BY DEF Range
<1>2. /\ Append(q, x) \in Seq(S)
      /\ Len(Append(q, x)) = Len(q) + 1
      /\ \A i \in 1..Len(q) : Append(q, x)[i] = q[i]
      /\ Append(q, x)[Len(q) + 1] = x
  OBVIOUS
<1>3. NoRepeat(Append(q, x))
  BY <1>1, <1>2 DEF NoRepeat
<1>4. /\ DOMAIN Append(q, x) = 1..(Len(q) + 1)
      /\ DOMAIN q = 1..Len(q) /\ Len(q) \in Nat
  BY <1>2
<1>5. Range(Append(q, x)) = Range(q) \cup {x}
  BY <1>2, <1>4 DEF Range
<1> QED BY <1>3, <1>5

LEMMA TailFacts ==
  ASSUME NEW S, NEW q \in Seq(S), q # <<>>, NoRepeat(q)
  PROVE  /\ NoRepeat(Tail(q))
         /\ Head(q) \in Range(q)
         /\ Range(Tail(q)) = Range(q) \ {Head(q)}
<1>1. /\ Len(q) \in Nat /\ Len(q) > 0
      /\ Head(q) = q[1]
      /\ Tail(q) \in Seq(S) /\ Len(Tail(q)) = Len(q) - 1
      /\ \A i \in 1..(Len(q) - 1) : Tail(q)[i] = q[i + 1]
  OBVIOUS
<1>2. NoRepeat(Tail(q))
  BY <1>1 DEF NoRepeat
<1>3. DOMAIN q = 1..Len(q) /\ DOMAIN Tail(q) = 1..(Len(q) - 1)
  BY <1>1
<1>4. Head(q) \in Range(q)
  BY <1>1, <1>3 DEF Range
<1>5. Range(Tail(q)) \subseteq Range(q) \ {Head(q)}
  BY <1>1, <1>3 DEF Range, NoRepeat
<1>6. ASSUME NEW y \in Range(q), y # Head(q) PROVE y \in Range(Tail(q))
  <2>1. PICK i \in 1..Len(q) : y = q[i]
    BY <1>3 DEF Range
  <2>2. i - 1 \in 1..(Len(q) - 1) /\ Tail(q)[i - 1] = y
    BY <1>1, <1>6, <2>1
  <2> QED BY <1>3, <2>2 DEF Range
<1> QED BY <1>2, <1>4, <1>5, <1>6

LEMMA EmptyRange == Range(<<>>) = {} /\ NoRepeat(<<>>)
  BY DEF Range, NoRepeat

\* Conservation is inductive only while neither sequence holds a height twice.
PriorityInv == PriorityConserved /\ NoRepeat(queue) /\ NoRepeat(batch)

LEMMA StepPriorityInv == TypeInv /\ PriorityInv /\ [Next]_vars => PriorityInv'
<1> SUFFICES ASSUME TypeInv, PriorityInv, [Next]_vars PROVE PriorityInv'
  OBVIOUS
<1>0. /\ queue \in Seq(Heights) /\ batch \in Seq(Heights)
      /\ accepted \in [Heights -> Nat] /\ served \in [Heights -> Nat]
  BY DEF TypeInv, TypeOK
<1>1. CASE DrainPriority
  <2>1. batch = <<>>
    BY <1>1 DEF DrainPriority, TypeInv, LocalsOK, InBatch
  <2>2. batch' = queue /\ queue' = <<>> /\ accepted' = accepted /\ served' = served
    BY <1>1 DEF DrainPriority, QueueAfterDrain
  <2> QED
    BY <1>0, <2>1, <2>2, EmptyRange DEF PriorityInv, PriorityConserved, Waiting
<1>2. CASE PriorityHandled
  <2>1. batch # <<>>
    BY <1>2 DEF PriorityHandled, TypeInv, LocalsOK, InBatch
  <2>2. /\ batch' = Tail(batch) /\ queue' = queue /\ accepted' = accepted
        /\ served' = [served EXCEPT ![Head(batch)] = @ + 1]
    BY <1>2 DEF PriorityHandled, HeightsLeft
  <2>3. /\ NoRepeat(Tail(batch)) /\ Head(batch) \in Range(batch)
        /\ Range(Tail(batch)) = Range(batch) \ {Head(batch)}
        /\ Head(batch) \in Heights
    BY <1>0, <2>1, TailFacts, HeadTail DEF PriorityInv
  <2>4. ASSUME NEW h \in Heights
        PROVE  accepted[h] = served'[h] + Waiting(h, queue) + Waiting(h, Tail(batch))
    <3>1. accepted[h] = served[h] + Waiting(h, queue) + Waiting(h, batch)
      BY DEF PriorityInv, PriorityConserved
    <3>2. CASE h = Head(batch)
      BY <1>0, <2>2, <2>3, <3>1, <3>2 DEF Waiting
    <3>3. CASE h # Head(batch)
      BY <1>0, <2>2, <2>3, <3>1, <3>3 DEF Waiting
    <3> QED BY <3>2, <3>3
  <2> QED BY <2>2, <2>3, <2>4 DEF PriorityInv, PriorityConserved, Waiting
<1>3. ASSUME NEW x \in Heights, ScanBlockPrioritize(x) PROVE PriorityInv'
  <2>1. /\ x \notin Range(queue) /\ queue' = Append(queue, x)
        /\ accepted' = [accepted EXCEPT ![x] = @ + 1]
        /\ batch' = batch /\ served' = served
    BY <1>3 DEF ScanBlockPrioritize
  <2>2. NoRepeat(queue') /\ Range(queue') = Range(queue) \cup {x}
    BY <1>0, <2>1, AppendFacts DEF PriorityInv
  <2>3. ASSUME NEW h \in Heights
        PROVE  accepted'[h] = served[h] + Waiting(h, queue') + Waiting(h, batch)
    <3>1. accepted[h] = served[h] + Waiting(h, queue) + Waiting(h, batch)
      BY DEF PriorityInv, PriorityConserved
    <3>2. CASE h = x
      BY <1>0, <2>1, <2>2, <3>1, <3>2 DEF Waiting
    <3>3. CASE h # x
      BY <1>0, <2>1, <2>2, <3>1, <3>3 DEF Waiting
    <3> QED BY <3>2, <3>3
  <2> QED BY <2>1, <2>2, <2>3 DEF PriorityInv, PriorityConserved, Waiting
<1>4. CASE UNCHANGED prioVars
  BY <1>4 DEF prioVars, PriorityInv, PriorityConserved, NoRepeat, Waiting
<1>5. CASE Gate \/ PriorityGate \/ TipFails \/ TipFailureHandled \/ WakeUp
  BY <1>4, <1>5 DEF Gate, PriorityGate, TipFails, TipFailureHandled, WakeUp, Move
<1>6. CASE BeginPriorityScan \/ BeginMainScan
  BY <1>4, <1>6 DEF BeginPriorityScan, BeginMainScan, BeginScan
<1>7. ASSUME NEW ok \in BOOLEAN, EndPriorityScan(ok) \/ EndMainScan(ok)
      PROVE  PriorityInv'
  BY <1>4, <1>7 DEF EndPriorityScan, EndMainScan, EndScan
<1>8. CASE TipAnswers \/ PlanNothing \/ PlanRound \/ BlockHandled \/ Advance
  BY <1>4, <1>8 DEF TipAnswers, PlanNothing, PlanRound, BlockHandled, Advance
<1>9. CASE \/ \E h \in Heights : RunScanLoop(h) \/ NodeTip(h)
           \/ \E h \in 0..MaxHeight : ResetScanHeight(h)
           \/ \E who \in {"nested", "once"} : OnceBegins(who)
  BY <1>4, <1>9 DEF RunScanLoop, NodeTip, ResetScanHeight, OnceBegins
<1>10. CASE OnceReturns \/ Pause \/ Run \/ UNCHANGED vars
  BY <1>4, <1>10 DEF OnceReturns, Pause, Run, vars
<1> QED
  BY <1>1, <1>2, <1>3, <1>5, <1>6, <1>7, <1>8, <1>9, <1>10 DEF Next, Loop, Callers

\* Every acceptance of a priority height is still waiting or was served, once.
THEOREM PriorityKept == Spec => []PriorityConserved
<1>1. Init => PriorityInv
  BY EmptyRange DEF Init, PriorityInv, PriorityConserved, Waiting
<1>2. PriorityInv => PriorityConserved
  BY DEF PriorityInv
<1> QED BY <1>1, <1>2, StepPriorityInv, TypeInvariant, PTL DEF Spec
-----------------------------------------------------------------------------
(* Between two rounds the loop is an OrderedFeed.                          *)

\* The height a round is at is the one after the cursor, unless a reset came
\* in between.
FeedInv == next # 0 => next = cursor + 1

LEMMA StepFeed ==
  ASSUME ~ResetsInRound
  PROVE  TypeInv /\ FeedInv /\ [Next]_vars =>
           FeedInv' /\ (Feed!Next \/ UNCHANGED <<cursor, Offered>>)
<1> SUFFICES ASSUME TypeInv, FeedInv, [Next]_vars
             PROVE  FeedInv' /\ (Feed!Next \/ UNCHANGED <<cursor, Offered>>)
  OBVIOUS
<1>0. /\ cursor \in 0..MaxHeight /\ next \in Nat
      /\ pc \in {"scan", "scanning", "handle", "advance"} => next # 0
      /\ pc \in {"stopped", "tip", "tipHandle", "plan", "sleep"} => next = 0
  BY DEF TypeInv, TypeOK, LocalsOK
<1> USE <1>0 DEF FeedInv, Offered
<1>1. CASE \E h \in Heights : RunScanLoop(h)
  <2>1. cursor' \in 0..MaxHeight /\ next = 0 /\ next' = 0 /\ Offered = 0 /\ Offered' = 0
    BY <1>1, CursorBeforeType, HeightsFacts DEF RunScanLoop, roundVars
  <2> QED BY <2>1 DEF Feed!Next, Feed!Seek
<1>2. CASE \E h \in 0..MaxHeight : ResetScanHeight(h)
  <2>1. next = 0
    BY <1>2 DEF ResetScanHeight, InRound
  <2>2. cursor' \in 0..MaxHeight /\ next' = 0 /\ Offered = 0 /\ Offered' = 0
    BY <1>2, <2>1, CursorBeforeType DEF ResetScanHeight, roundVars
  <2> QED BY <2>1, <2>2 DEF Feed!Next, Feed!Seek
<1>3. CASE PlanRound
  BY <1>3 DEF PlanRound
<1>4. ASSUME NEW ok \in BOOLEAN, EndMainScan(ok)
      PROVE  FeedInv' /\ (Feed!Next \/ UNCHANGED <<cursor, Offered>>)
  <2>1. /\ cursor' = cursor /\ next' = next /\ next = cursor + 1
        /\ Offered = 0 /\ Offered' \in {0, next}
    BY <1>4 DEF EndMainScan, EndScan, roundVars
  <2> QED BY <2>1 DEF Feed!Next, Feed!Offer
<1>5. CASE BlockHandled
  <2>1. cursor' = cursor /\ next' \in {0, next} /\ Offered' = Offered
    BY <1>5 DEF BlockHandled, RoundGoesOn, EndRound
  <2> QED BY <2>1
<1>6. CASE Advance
  <2>1. /\ cursor' = next /\ next' \in {0, next + 1}
        /\ Offered = next /\ Offered' = 0 /\ next # 0
    BY <1>6 DEF Advance, CursorAfterBlock, EndRound
  <2> QED BY <2>1 DEF Feed!Next, Feed!Take
<1>7. CASE /\ UNCHANGED <<cursor, next>>
           /\ pc \notin {"handle", "advance"} /\ pc' \notin {"handle", "advance"}
  BY <1>7
<1>8. CASE UNCHANGED <<cursor, next, pc, result>>
  BY <1>8
<1>9. CASE Gate \/ PriorityGate \/ TipFails \/ TipFailureHandled \/ WakeUp
  BY <1>7, <1>9
  DEF Gate, PriorityGate, TipFails, TipFailureHandled, WakeUp, Move, roundVars
<1>10. CASE \/ BeginPriorityScan \/ BeginMainScan \/ DrainPriority
            \/ \E ok \in BOOLEAN : EndPriorityScan(ok)
            \/ PriorityHandled \/ TipAnswers \/ PlanNothing
  BY <1>7, <1>10
  DEF BeginPriorityScan, BeginMainScan, BeginScan, EndPriorityScan, EndScan, roundVars,
      DrainPriority, PriorityHandled, AfterPriority, TipAnswers, PlanNothing
<1>11. CASE \/ \E h \in Heights : ScanBlockPrioritize(h) \/ NodeTip(h)
            \/ \E who \in {"nested", "once"} : OnceBegins(who)
            \/ OnceReturns \/ Pause \/ Run \/ UNCHANGED vars
  BY <1>8, <1>11
  DEF ScanBlockPrioritize, NodeTip, OnceBegins, OnceReturns, Pause, Run, vars, roundVars
<1> QED
  BY <1>1, <1>2, <1>3, <1>4, <1>5, <1>6, <1>9, <1>10, <1>11 DEF Next, Loop, Callers

\* When the host rewinds only between two rounds, the scan loop implements the
\* ordered feed: it offers the height after its position and moves there only
\* once the host has taken it.
THEOREM LoopIsFeed ==
  ASSUME ~ResetsInRound
  PROVE  Spec => FeedSpec
<1>1. Init => FeedInv /\ Feed!Init
  BY DEF Init, FeedInv, Feed!Init, Offered
<1>2. TypeInv /\ FeedInv /\ [Next]_vars => FeedInv' /\ [Feed!Next]_(Feed!feedVars)
  BY StepFeed DEF Feed!feedVars
<1> QED BY <1>1, <1>2, TypeInvariant, PTL DEF Spec, FeedSpec, Feed!Spec
=============================================================================
