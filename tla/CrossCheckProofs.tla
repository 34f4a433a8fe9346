-------------------------- MODULE CrossCheckProofs --------------------------
(***************************************************************************)
(* The cross check implements AtomicCheck for all sets of nodes, chains,   *)
(* anchors and calls: a verdict pieced together from several calls to a    *)
(* peer is what the peer would have said at one moment.                    *)
(***************************************************************************)
EXTENDS CrossCheck, TLAPS

-----------------------------------------------------------------------------
(* What a call knows of the peer it asks.                                  *)

(* An answer that matched is about the block asked for, and the height in  *)
(* it, if any, is where that block lies.                                   *)
AnswerFits(anchor, tx) ==
  /\ tx.block \in Holding /\ tx.block = anchor.hash
  /\ tx.height # 0 => \E one \in Chains : tx.height \in DOMAIN one /\ one[tx.height] = tx.block

(* What holds of a call that is at the step. *)
StepFits(c, step) ==
  /\ verdict[c] = "open" /\ call[c].anchor \in Anchors /\ step.i \in Nat \ {0}
  /\ step.pc \in {"again", "wallet"} => KindOf[PoolOf(c)[step.i]] = Core
  /\ step.pc = "hash" => AnswerFits(call[c].anchor, step.tx)

CallInv == \A c \in Checks : check[c].pc # "idle" => StepFits(c, check[c])

IInv == TypeOK /\ CallInv

-----------------------------------------------------------------------------
(* The data.                                                               *)

LEMMA ChainFacts ==
  ASSUME TypeOK, NEW n \in Nodes
  PROVE  /\ chain[n] \in Chains /\ chain[n] \in Seq(Blocks)
         /\ DOMAIN chain[n] = 1..Len(chain[n])
         /\ \A h \in DOMAIN chain[n] : chain[n][h] \in Blocks
<1>1. chain[n] \in Chains
      BY DEF TypeOK
<1>2. chain[n] \in Seq(Blocks)
      BY <1>1, CrossCheckAssumption
<1> QED
    BY <1>1, <1>2

LEMMA HoldsOnce ==
  ASSUME TypeOK, NEW n \in Nodes, NEW h \in HeightsHeld(n), NEW i \in HeightsHeld(n)
  PROVE  h = i
BY ChainFacts, CrossCheckAssumption DEF HeightsHeld

LEMMA HoldsHeld ==
  ASSUME TypeOK, NEW n \in Nodes, NEW anchor, Atomic!Holds(n, anchor)
  PROVE  anchor.height \in HeightsHeld(n) /\ chain[n][anchor.height] = anchor.hash
BY ChainFacts DEF HeightsHeld, Atomic!Holds

(* An answer of the node: from its chain, or of what its chain lacks.      *)
LEMMA ToldMined ==
  ASSUME TypeOK, NEW n \in Nodes, NEW tx \in Mined(n)
  PROVE  /\ tx \in Answers /\ tx.confirmations >= 1 /\ tx.block \in Holding
         /\ \E h \in HeightsHeld(n) : tx.block = chain[n][h] /\ tx.height \in {0, h}
<1>1. PICK h \in HeightsHeld(n) :
        tx = [block |-> chain[n][h], confirmations |-> Len(chain[n]) - h + 1,
              height |-> HeightTold(n, h)]
      BY DEF Mined
<1>2. h \in 1..Len(chain[n]) /\ chain[n][h] \in Holding /\ Len(chain[n]) \in Nat
      BY ChainFacts DEF HeightsHeld
<1>3. HeightTold(n, h) \in {0, h}
      BY DEF HeightTold
<1> QED
    BY <1>1, <1>2, <1>3, CrossCheckAssumption DEF Answers

LEMMA ToldUnmined ==
  ASSUME NEW tx \in Unmined
  PROVE  tx \in Answers /\ tx.confirmations = 0
BY CrossCheckAssumption DEF Unmined, NoAnswer, Answers

LEMMA ToldFacts ==
  ASSUME TypeOK, NEW n \in Nodes, NEW tx \in Told(n)
  PROVE  tx \in Mined(n) \/ (tx \in Unmined /\ HeightsHeld(n) = {})
BY DEF Told

-----------------------------------------------------------------------------
(* The inductive invariant.                                                *)

LEMMA PeerFacts ==
  ASSUME TypeOK, NEW c \in Checks, check[c].pc \notin {"idle", "peer"}
  PROVE  /\ check[c].i \in 1..Len(call[c].peers)
         /\ Peer(c) = call[c].peers[check[c].i] /\ Peer(c) \in Nodes
<1>1. call[c].peers \in Seq(Nodes) /\ check[c].i \in 1..Len(call[c].peers)
      BY DEF TypeOK
<1> QED
    BY <1>1 DEF Peer, PoolOf

LEMMA InitInv == Init => IInv
<1> SUFFICES ASSUME Init PROVE IInv
    OBVIOUS
<1>1. MaxPools \in Nat /\ MaxReorgs \in Nat
      BY CrossCheckAssumption
<1>2. TypeOK
      BY <1>1 DEF Init, TypeOK, NoCall, NoSetter, CheckSteps, NoAnswer, Answers
<1>3. CallInv
      BY DEF Init, CallInv
<1> QED
    BY <1>2, <1>3 DEF IInv

(* What the steps of a call leave as they are.                             *)
LEMMA StepType ==
  ASSUME TypeOK, NEW c \in Checks,
         NEW step \in [pc : CheckSteps, i : Nat, tx : Answers, denied : BOOLEAN],
         step.pc \notin {"idle", "peer"} => step.i \in 1..Len(call[c].peers),
         Goes(c, step)
  PROVE  TypeOK'
<1>1. check' = [check EXCEPT ![c] = step]
      BY DEF Goes
<1>2. check' \in [Checks -> [pc : CheckSteps, i : Nat, tx : Answers, denied : BOOLEAN]]
      BY <1>1 DEF TypeOK
<1>3. \A d \in Checks : check'[d].pc \notin {"idle", "peer"} => check'[d].i \in 1..Len(call[d].peers)
      BY <1>1 DEF TypeOK
<1> QED
    BY <1>2, <1>3 DEF TypeOK, Goes

LEMMA DecideType ==
  ASSUME TypeOK, NEW c \in Checks, NEW v \in {"ok", "no", "error"}, Decide(c, v)
  PROVE  TypeOK'
<1>1. check' = [check EXCEPT ![c].pc = "idle"] /\ verdict' = [verdict EXCEPT ![c] = v]
      BY DEF Decide
<1>2. check' \in [Checks -> [pc : CheckSteps, i : Nat, tx : Answers, denied : BOOLEAN]]
  <2> DEFINE Call == [pc : CheckSteps, i : Nat, tx : Answers, denied : BOOLEAN]
  <2>1. check \in [Checks -> Call]
        BY DEF TypeOK
  <2>2. [check[c] EXCEPT !.pc = "idle"] \in Call
        BY <2>1 DEF CheckSteps
  <2> HIDE DEF Call
  <2>3. check' \in [Checks -> Call]
        BY <1>1, <2>1, <2>2
  <2> QED
      BY <2>3 DEF Call
<1>3. \A d \in Checks : check'[d].pc \notin {"idle", "peer"} => check'[d].i \in 1..Len(call[d].peers)
      BY <1>1 DEF TypeOK
<1>4. verdict' \in [Checks -> {"none", "open", "ok", "no", "error"}]
      BY <1>1 DEF TypeOK
<1> QED
    BY <1>2, <1>3, <1>4 DEF TypeOK, Decide

LEMMA MatchType ==
  ASSUME TypeOK, NEW c \in Checks, check[c].pc \notin {"idle", "peer"},
         NEW tx \in Answers, Match(c, tx)
  PROVE  TypeOK'
<1>1. CASE Matches(c, tx)
  <2>1. Goes(c, [check[c] EXCEPT !.pc = "hash", !.tx = tx])
        BY <1>1 DEF Match
  <2>2. check[c] \in [pc : CheckSteps, i : Nat, tx : Answers, denied : BOOLEAN]
        BY DEF TypeOK
  <2> QED
      BY <2>1, <2>2, PeerFacts, StepType DEF CheckSteps
<1>2. CASE ~Matches(c, tx)
      BY <1>2, DecideType DEF Match
<1> QED
    BY <1>1, <1>2

LEMMA TypeStep == IInv /\ [Next]_vars => TypeOK'
<1> SUFFICES ASSUME IInv, [Next]_vars PROVE TypeOK'
    OBVIOUS
<1>1. TypeOK /\ CallInv
      BY DEF IInv
<1>2. ASSUME NEW c \in Checks
      PROVE  /\ check[c] \in [pc : CheckSteps, i : Nat, tx : Answers, denied : BOOLEAN]
             /\ verdict[c] \in {"none", "open", "ok", "no", "error"}
      BY <1>1 DEF TypeOK
<1>3. ASSUME NEW n \in Nodes, Reorganise(n)
      PROVE  TypeOK'
  <2>1. chain' \in [Nodes -> Chains]
        BY <1>1, <1>3 DEF TypeOK, Reorganise
  <2>2. bounds' \in [pools : 0..MaxPools, reorgs : 0..MaxReorgs]
    <3>1. MaxReorgs \in Nat
          BY CrossCheckAssumption
    <3>2. bounds \in [pools : 0..MaxPools, reorgs : 0..MaxReorgs]
          BY <1>1 DEF TypeOK
    <3>3. bounds.reorgs + 1 \in 0..MaxReorgs
          BY <1>3, <3>1, <3>2 DEF Reorganise
    <3> QED
        BY <1>3, <3>2, <3>3 DEF Reorganise
  <2> QED
      BY <1>1, <1>3, <2>1, <2>2 DEF TypeOK, Reorganise
<1>4. ASSUME NEW kind \in Kinds, NEW urls \in PoolURLs, SetVerifyAPIs(kind, urls)
      PROVE  TypeOK'
  <2>1. urls \in Seq(Nodes)
        BY CrossCheckAssumption
  <2>2. setter' \in [kind : Kinds \cup {NotSetting}, left : Seq(Nodes), peers : Seq(Nodes)]
        BY <1>4, <2>1 DEF SetVerifyAPIs
  <2>3. bounds' \in [pools : 0..MaxPools, reorgs : 0..MaxReorgs]
    <3>1. MaxPools \in Nat
          BY CrossCheckAssumption
    <3>2. bounds \in [pools : 0..MaxPools, reorgs : 0..MaxReorgs]
          BY <1>1 DEF TypeOK
    <3>3. bounds.pools + 1 \in 0..MaxPools
          BY <1>4, <3>1, <3>2 DEF SetVerifyAPIs
    <3> QED
        BY <1>4, <3>2, <3>3 DEF SetVerifyAPIs
  <2> QED
      BY <1>1, <1>4, <2>2, <2>3 DEF TypeOK, SetVerifyAPIs
<1>5. CASE Dial
  <2>1. setter \in [kind : Kinds \cup {NotSetting}, left : Seq(Nodes), peers : Seq(Nodes)]
        BY <1>1 DEF TypeOK
  <2>2. setter.left \in Seq(Nodes) /\ setter.left # <<>> /\ setter.peers \in Seq(Nodes)
        BY <1>5, <2>1 DEF Dial
  <2>3. Tail(setter.left) \in Seq(Nodes) /\ Append(setter.peers, Head(setter.left)) \in Seq(Nodes)
        BY <2>2
  <2>4. [setter EXCEPT !.left = Tail(@)]
          \in [kind : Kinds \cup {NotSetting}, left : Seq(Nodes), peers : Seq(Nodes)]
        BY <2>1, <2>3
  <2>5. [setter EXCEPT !.left = Tail(@), !.peers = Append(@, Head(setter.left))]
          \in [kind : Kinds \cup {NotSetting}, left : Seq(Nodes), peers : Seq(Nodes)]
        BY <2>1, <2>3
  <2>6. setter' \in [kind : Kinds \cup {NotSetting}, left : Seq(Nodes), peers : Seq(Nodes)]
        BY <1>5, <2>4, <2>5 DEF Dial
  <2> QED
      BY <1>1, <1>5, <2>6 DEF TypeOK, Dial
<1>6. CASE SwapPool
  <2>1. setter' \in [kind : Kinds \cup {NotSetting}, left : Seq(Nodes), peers : Seq(Nodes)]
        BY <1>6 DEF SwapPool, NoSetter
  <2>2. pool' \in Seq(Nodes)
        BY <1>1, <1>6 DEF SwapPool, TypeOK
  <2> QED
      BY <1>1, <1>6, <2>1, <2>2 DEF TypeOK, SwapPool
<1>7. ASSUME NEW c \in Checks, Refuse(c) \/ AllFailed(c) \/ NotFound(c) \/ GetBlockHash(c)
      PROVE  TypeOK'
      BY <1>1, <1>7, DecideType DEF Refuse, AllFailed, NotFound, GetBlockHash
<1>8. ASSUME NEW c \in Checks, NEW anchor \in Anchors, VerifyBeforePromote(c, anchor)
      PROVE  TypeOK'
  <2>1. check' = [check EXCEPT ![c] = [@ EXCEPT !.pc = "peer", !.i = 1]]
        BY <1>1, <1>8 DEF VerifyBeforePromote, TypeOK
  <2>2. check' \in [Checks -> [pc : CheckSteps, i : Nat, tx : Answers, denied : BOOLEAN]]
        BY <1>1, <1>2, <2>1 DEF TypeOK, CheckSteps
  <2>3. call' \in [Checks -> [anchor : Anchors \cup {NoAnchor}, peers : Seq(Nodes)]]
        BY <1>1, <1>8 DEF VerifyBeforePromote, TypeOK
  <2>4. ASSUME NEW d \in Checks, check'[d].pc \notin {"idle", "peer"}
        PROVE  check'[d].i \in 1..Len(call'[d].peers)
    <3>1. d # c
          BY <1>1, <1>2, <2>1, <2>4 DEF TypeOK
    <3>2. check'[d] = check[d] /\ call'[d] = call[d]
          BY <1>1, <1>8, <2>1, <3>1 DEF TypeOK, VerifyBeforePromote
    <3> QED
        BY <1>1, <2>4, <3>2 DEF TypeOK
  <2>5. verdict' \in [Checks -> {"none", "open", "ok", "no", "error"}]
        BY <1>1, <1>8 DEF VerifyBeforePromote, TypeOK
  <2> QED
      BY <1>1, <1>8, <2>2, <2>3, <2>4, <2>5 DEF TypeOK, VerifyBeforePromote
<1>9. ASSUME NEW c \in Checks, Expire(c)
      PROVE  TypeOK'
      BY <1>1, <1>9 DEF TypeOK, Expire
<1>10. ASSUME NEW c \in Checks, AskPeer(c)
       PROVE  TypeOK'
  <2>1. check[c].i \in 1..Len(call[c].peers)
    <3>1. call[c].peers \in Seq(Nodes)
          BY <1>1 DEF TypeOK
    <3>2. check[c].i \in Nat \ {0} /\ check[c].i <= Len(call[c].peers)
          BY <1>1, <1>10 DEF AskPeer, MorePeers, PoolOf, CallInv, StepFits, At
    <3> QED
        BY <3>1, <3>2
  <2>2. Goes(c, [check[c] EXCEPT !.pc = "ask", !.denied = FALSE])
        BY <1>10 DEF AskPeer
  <2> QED
      BY <1>1, <1>2, <2>1, <2>2, StepType DEF CheckSteps
<1>11. ASSUME NEW c \in Checks, SkipPeer(c) \/ PeerFails(c)
       PROVE  TypeOK'
  <2>1. Goes(c, [check[c] EXCEPT !.pc = "peer", !.i = @ + 1])
        BY <1>11 DEF SkipPeer, PeerFails, NextPeer
  <2>2. [check[c] EXCEPT !.pc = "peer", !.i = @ + 1]
          \in [pc : CheckSteps, i : Nat, tx : Answers, denied : BOOLEAN]
    <3>1. check[c].i + 1 \in Nat
          BY <1>2
    <3> QED
        BY <1>2, <3>1 DEF CheckSteps
  <2> QED
      BY <1>1, <1>2, <2>1, <2>2, StepType
<1>12. ASSUME NEW c \in Checks, GetTransaction(c)
       PROVE  TypeOK'
  <2>1. check[c].pc \notin {"idle", "peer"}
        BY <1>12 DEF GetTransaction
  <2>2. PICK tx \in Told(Peer(c)) : Match(c, tx)
        BY <1>12 DEF GetTransaction
  <2>3. tx \in Answers
        BY <1>1, <2>1, <2>2, PeerFacts, ToldFacts, ToldMined, ToldUnmined
  <2> QED
      BY <1>1, <2>1, <2>2, <2>3, MatchType
<1>13. ASSUME NEW c \in Checks, AskAgain(c)
       PROVE  TypeOK'
      BY <1>1, <1>2, <1>13, PeerFacts, StepType DEF AskAgain, GoesTo, At, CheckSteps
<1>14. ASSUME NEW c \in Checks, AskWallet(c)
       PROVE  TypeOK'
  <2>1. PICK denied \in BOOLEAN : Goes(c, [check[c] EXCEPT !.pc = "wallet", !.denied = denied])
        BY <1>14 DEF AskWallet
  <2> QED
      BY <1>1, <1>2, <1>14, <2>1, PeerFacts, StepType DEF AskWallet, At, CheckSteps
<1>15. ASSUME NEW c \in Checks, GetTransactionByWallet(c)
       PROVE  TypeOK'
  <2>1. NoAnswer \in Answers
        BY DEF NoAnswer, Answers
  <2> QED
      BY <1>1, <1>15, <2>1, MatchType DEF GetTransactionByWallet, At
<1>16. CASE UNCHANGED vars
       BY <1>1, <1>16 DEF TypeOK, vars
<1> QED
    BY <1>3, <1>4, <1>5, <1>6, <1>7, <1>8, <1>9, <1>10, <1>11, <1>12, <1>13, <1>14, <1>15, <1>16 DEF Next

(* The same of what a call knows.                                          *)
LEMMA StepFitted ==
  ASSUME TypeOK, CallInv, NEW c \in Checks,
         NEW step \in [pc : CheckSteps, i : Nat, tx : Answers, denied : BOOLEAN],
         StepFits(c, step), Goes(c, step)
  PROVE  CallInv'
<1> SUFFICES ASSUME NEW d \in Checks, check'[d].pc # "idle"
             PROVE  StepFits(d, check[d])'
    BY DEF CallInv
<1>1. call' = call /\ verdict' = verdict /\ check'[d] = IF d = c THEN step ELSE check[d]
      BY DEF Goes, TypeOK
<1> QED
    BY <1>1 DEF CallInv, StepFits, PoolOf

LEMMA DecideFitted ==
  ASSUME TypeOK, CallInv, NEW c \in Checks, NEW v, Decide(c, v)
  PROVE  CallInv'
<1> SUFFICES ASSUME NEW d \in Checks, check'[d].pc # "idle"
             PROVE  StepFits(d, check[d])'
    BY DEF CallInv
<1>1. d # c
      BY DEF Decide, TypeOK, CheckSteps
<1>2. call' = call /\ verdict'[d] = verdict[d] /\ check'[d] = check[d]
      BY <1>1 DEF Decide, TypeOK
<1> QED
    BY <1>2 DEF CallInv, StepFits, PoolOf

LEMMA MatchFitted ==
  ASSUME TypeOK, CallInv, NEW c \in Checks, check[c].pc \notin {"idle", "peer"},
         NEW tx \in Answers, Match(c, tx),
         tx.block = call[c].anchor.hash /\ tx.confirmations >= 1 => AnswerFits(call[c].anchor, tx)
  PROVE  CallInv'
<1>1. CASE Matches(c, tx)
  <2> DEFINE step == [check[c] EXCEPT !.pc = "hash", !.tx = tx]
  <2>1. check[c] \in [pc : CheckSteps, i : Nat, tx : Answers, denied : BOOLEAN]
        BY DEF TypeOK
  <2>2. step \in [pc : CheckSteps, i : Nat, tx : Answers, denied : BOOLEAN]
        BY <2>1 DEF CheckSteps
  <2>3. step.pc = "hash" /\ step.tx = tx /\ step.i = check[c].i
        BY <2>1
  <2>4. AnswerFits(call[c].anchor, tx)
        BY <1>1 DEF Matches
  <2>5. StepFits(c, step)
        BY <2>3, <2>4 DEF CallInv, StepFits
  <2>6. Goes(c, step)
        BY <1>1 DEF Match
  <2> QED
      BY <2>2, <2>5, <2>6, StepFitted
<1>2. CASE ~Matches(c, tx)
      BY <1>2, DecideFitted DEF Match
<1> QED
    BY <1>1, <1>2

LEMMA CallStep == IInv /\ [Next]_vars => CallInv'
<1> SUFFICES ASSUME IInv, [Next]_vars PROVE CallInv'
    OBVIOUS
<1>1. TypeOK /\ CallInv
      BY DEF IInv
<1>2. ASSUME NEW c \in Checks
      PROVE  check[c] \in [pc : CheckSteps, i : Nat, tx : Answers, denied : BOOLEAN]
      BY <1>1 DEF TypeOK
<1>3. CASE UNCHANGED <<call, verdict, check>>
      BY <1>1, <1>3 DEF CallInv, StepFits, PoolOf
<1>4. ASSUME NEW c \in Checks, Refuse(c) \/ AllFailed(c) \/ NotFound(c) \/ GetBlockHash(c)
      PROVE  CallInv'
      BY <1>1, <1>4, DecideFitted DEF Refuse, AllFailed, NotFound, GetBlockHash
<1>5. ASSUME NEW c \in Checks, NEW anchor \in Anchors, VerifyBeforePromote(c, anchor)
      PROVE  CallInv'
  <2> SUFFICES ASSUME NEW d \in Checks, check'[d].pc # "idle"
               PROVE  StepFits(d, check[d])'
      BY DEF CallInv
  <2>1. CASE d = c
    <3>1. check' = [check EXCEPT ![c] = [@ EXCEPT !.pc = "peer", !.i = 1]]
          BY <1>1, <1>5 DEF VerifyBeforePromote, TypeOK
    <3>2. check'[c].pc = "peer" /\ check'[c].i = 1
          BY <1>1, <1>2, <3>1 DEF TypeOK
    <3>3. verdict'[c] = "open" /\ call'[c].anchor = anchor
          BY <1>1, <1>5 DEF VerifyBeforePromote, TypeOK
    <3> QED
        BY <2>1, <3>2, <3>3 DEF StepFits
  <2>2. CASE d # c
    <3>1. call'[d] = call[d] /\ verdict'[d] = verdict[d] /\ check'[d] = check[d]
          BY <1>1, <1>5, <2>2 DEF VerifyBeforePromote, TypeOK
    <3> QED
        BY <1>1, <3>1 DEF CallInv, StepFits, PoolOf
  <2> QED
      BY <2>1, <2>2
<1>6. ASSUME NEW c \in Checks, AskPeer(c)
      PROVE  CallInv'
  <2> DEFINE step == [check[c] EXCEPT !.pc = "ask", !.denied = FALSE]
  <2>1. step \in [pc : CheckSteps, i : Nat, tx : Answers, denied : BOOLEAN]
        BY <1>2 DEF CheckSteps
  <2>2. step.pc = "ask" /\ step.i = check[c].i
        BY <1>2
  <2>3. StepFits(c, step)
        BY <1>1, <1>6, <2>2 DEF CallInv, StepFits, AskPeer, At
  <2> QED
      BY <1>1, <1>6, <2>1, <2>3, StepFitted DEF AskPeer
<1>7. ASSUME NEW c \in Checks, SkipPeer(c) \/ PeerFails(c)
      PROVE  CallInv'
  <2> DEFINE step == [check[c] EXCEPT !.pc = "peer", !.i = @ + 1]
  <2>1. check[c].pc # "idle" /\ check[c].i \in Nat \ {0}
        BY <1>1, <1>7 DEF CallInv, StepFits, SkipPeer, PeerFails, ExplorerFails, At
  <2>2. step \in [pc : CheckSteps, i : Nat, tx : Answers, denied : BOOLEAN]
    <3>1. check[c].i + 1 \in Nat
          BY <2>1
    <3> QED
        BY <1>2, <3>1 DEF CheckSteps
  <2>3. step.pc = "peer" /\ step.i = check[c].i + 1
        BY <1>2
  <2>4. StepFits(c, step)
        BY <1>1, <2>1, <2>3 DEF CallInv, StepFits
  <2>5. Goes(c, step)
        BY <1>7 DEF SkipPeer, PeerFails, NextPeer
  <2> QED
      BY <1>1, <2>2, <2>4, <2>5, StepFitted
<1>8. ASSUME NEW c \in Checks, GetTransaction(c)
      PROVE  CallInv'
  <2>1. check[c].pc \notin {"idle", "peer"}
        BY <1>8 DEF GetTransaction
  <2>2. PICK tx \in Told(Peer(c)) : Match(c, tx)
        BY <1>8 DEF GetTransaction
  <2>3. Peer(c) \in Nodes
        BY <1>1, <2>1, PeerFacts
  <2>4. tx \in Answers /\ (tx \in Mined(Peer(c)) \/ tx.confirmations = 0)
        BY <1>1, <2>2, <2>3, ToldFacts, ToldMined, ToldUnmined
  <2>5. ASSUME tx.block = call[c].anchor.hash, tx.confirmations >= 1
        PROVE  AnswerFits(call[c].anchor, tx)
    <3>1. tx \in Mined(Peer(c))
          BY <2>4, <2>5
    <3>2. PICK h \in HeightsHeld(Peer(c)) : tx.block = chain[Peer(c)][h] /\ tx.height \in {0, h}
          BY <1>1, <2>3, <3>1, ToldMined
    <3>3. chain[Peer(c)] \in Chains /\ tx.block \in Holding
          BY <1>1, <2>3, <3>1, ToldMined, ChainFacts
    <3> QED
        BY <2>5, <3>2, <3>3 DEF AnswerFits, HeightsHeld
  <2> QED
      BY <1>1, <2>1, <2>2, <2>4, <2>5, MatchFitted
<1>9. ASSUME NEW c \in Checks, AskAgain(c)
      PROVE  CallInv'
  <2> DEFINE step == [check[c] EXCEPT !.pc = "again"]
  <2>1. step \in [pc : CheckSteps, i : Nat, tx : Answers, denied : BOOLEAN]
        BY <1>2 DEF CheckSteps
  <2>2. step.pc = "again" /\ step.i = check[c].i
        BY <1>2
  <2>3. StepFits(c, step)
        BY <1>1, <1>9, <2>2 DEF CallInv, StepFits, AskAgain, At, Peer, PoolOf
  <2> QED
      BY <1>1, <1>9, <2>1, <2>3, StepFitted DEF AskAgain, GoesTo
<1>10. ASSUME NEW c \in Checks, AskWallet(c)
       PROVE  CallInv'
  <2>1. PICK denied \in BOOLEAN : Goes(c, [check[c] EXCEPT !.pc = "wallet", !.denied = denied])
        BY <1>10 DEF AskWallet
  <2> DEFINE step == [check[c] EXCEPT !.pc = "wallet", !.denied = denied]
  <2>2. step \in [pc : CheckSteps, i : Nat, tx : Answers, denied : BOOLEAN]
        BY <1>2 DEF CheckSteps
  <2>3. step.pc = "wallet" /\ step.i = check[c].i
        BY <1>2
  <2>4. StepFits(c, step)
        BY <1>1, <1>10, <2>3 DEF CallInv, StepFits, AskWallet, At, PoolOf
  <2> QED
      BY <1>1, <2>1, <2>2, <2>4, StepFitted
<1>11. ASSUME NEW c \in Checks, GetTransactionByWallet(c)
       PROVE  CallInv'
  <2>1. NoAnswer \in Answers /\ NoAnswer.confirmations = 0
        BY DEF NoAnswer, Answers
  <2> QED
      BY <1>1, <1>11, <2>1, MatchFitted DEF GetTransactionByWallet, At
<1> QED
    BY <1>3, <1>4, <1>5, <1>6, <1>7, <1>8, <1>9, <1>10, <1>11
    DEF Next, Reorganise, SetVerifyAPIs, Dial, SwapPool, Expire, vars

THEOREM CheckInvariant == Spec => []IInv
<1>1. IInv /\ [Next]_vars => IInv'
      BY TypeStep, CallStep DEF IInv
<1> QED
    BY InitInv, <1>1, PTL DEF Spec

(* What a cross check stores stays of its type: the peer it asks is one    *)
(* of the pool it found, whatever SetVerifyAPIs does in between.           *)
THEOREM TypeCorrect == Spec => []TypeOK
<1>1. IInv => TypeOK
      BY DEF IInv
<1> QED
    BY CheckInvariant, <1>1, PTL

-----------------------------------------------------------------------------
(* The refinement.                                                         *)

LEMMA VerdictOpen ==
  ASSUME TypeOK, CallInv, NEW c \in Checks
  PROVE  /\ check[c].pc \notin {"idle", "wallet"} => Verdict[c] = "open"
         /\ At(c, "wallet") /\ ~check[c].denied => Verdict[c] = "open"
         /\ At(c, "wallet") /\ check[c].denied => Verdict[c] = "no"
         /\ verdict[c] = "none" => Verdict[c] = "none"
BY DEF Verdict, At, CallInv, StepFits

LEMMA DecideShows ==
  ASSUME TypeOK, NEW c \in Checks, NEW v, Decide(c, v)
  PROVE  Atomic!Decide(c, v)
<1>1. ASSUME NEW d \in Checks
      PROVE  Verdict'[d] = IF d = c THEN v ELSE Verdict[d]
  <2>1. CASE d = c
    <3>1. check'[c].pc = "idle" /\ verdict'[c] = v
          BY DEF Decide, TypeOK
    <3> QED
        BY <2>1, <3>1 DEF Verdict, At
  <2>2. CASE d # c
    <3>1. check'[d] = check[d] /\ verdict'[d] = verdict[d]
          BY <2>2 DEF Decide, TypeOK
    <3> QED
        BY <2>2, <3>1 DEF Verdict, At
  <2> QED
      BY <2>1, <2>2
<1>2. Verdict' = [Verdict EXCEPT ![c] = v]
      BY <1>1 DEF Verdict
<1> QED
    BY <1>2 DEF Decide, Atomic!Decide

LEMMA GoesShows ==
  ASSUME TypeOK, NEW c \in Checks, NEW step, Goes(c, step),
         ~(At(c, "wallet") /\ check[c].denied), ~(step.pc = "wallet" /\ step.denied)
  PROVE  UNCHANGED <<chain, pool, call, Verdict>>
<1>1. ASSUME NEW d \in Checks
      PROVE  Verdict'[d] = Verdict[d]
  <2>1. check'[d] = IF d = c THEN step ELSE check[d]
        BY DEF Goes, TypeOK
  <2> QED
      BY <2>1 DEF Verdict, At, Goes
<1>2. Verdict' = Verdict
      BY <1>1 DEF Verdict
<1> QED
    BY <1>2 DEF Goes

(* What makes a "no" right.                                                *)
LEMMA NoIsRight ==
  ASSUME TypeOK, NEW c \in Checks, check[c].pc \notin {"idle", "peer"}, Verdict[c] = "open",
         Atomic!Decide(c, "no"),
         ~Atomic!Holds(Peer(c), call[c].anchor) \/ Peer(c) \notin ExactNodes
  PROVE  Atomic!Next
BY PeerFacts DEF Atomic!Reject, Atomic!Next

LEMMA DeniedIsRight ==
  ASSUME TypeOK, NEW c \in Checks, check[c].pc \notin {"idle", "peer"}, Denies(Peer(c))
  PROVE  ~Atomic!Holds(Peer(c), call[c].anchor) \/ Peer(c) \notin ExactNodes
BY PeerFacts, HoldsHeld DEF Denies, ExactNodes

LEMMA AnswerIsRight ==
  ASSUME TypeOK, NEW c \in Checks, check[c].pc \notin {"idle", "peer"},
         NEW tx \in Told(Peer(c)), ~Matches(c, tx)
  PROVE  ~Atomic!Holds(Peer(c), call[c].anchor)
<1> SUFFICES ASSUME Atomic!Holds(Peer(c), call[c].anchor) PROVE FALSE
    OBVIOUS
<1>1. Peer(c) \in Nodes
      BY PeerFacts
<1> DEFINE h == call[c].anchor.height
<1>2. h \in HeightsHeld(Peer(c)) /\ chain[Peer(c)][h] = call[c].anchor.hash
      BY <1>1, HoldsHeld
<1>3. tx \in Mined(Peer(c))
      BY <1>1, <1>2, ToldFacts
<1>4. PICK i \in HeightsHeld(Peer(c)) : tx.block = chain[Peer(c)][i]
      BY <1>1, <1>3, ToldMined
<1>5. i = h
      BY <1>1, <1>2, <1>4, HoldsOnce
<1>6. tx.block = call[c].anchor.hash /\ tx.confirmations >= 1 /\ tx.block # NoBlock
      BY <1>1, <1>2, <1>3, <1>4, <1>5, ToldMined, CrossCheckAssumption
<1> QED
    BY <1>6 DEF Matches

LEMMA GetTransactionShows ==
  ASSUME IInv, NEW c \in Checks, GetTransaction(c)
  PROVE  Atomic!Next \/ UNCHANGED <<chain, pool, call, Verdict>>
<1>1. TypeOK /\ CallInv /\ check[c].pc \notin {"idle", "peer", "wallet"}
      BY DEF IInv, GetTransaction
<1>2. PICK tx \in Told(Peer(c)) : Match(c, tx)
      BY DEF GetTransaction
<1>3. CASE Matches(c, tx)
  <2> DEFINE step == [check[c] EXCEPT !.pc = "hash", !.tx = tx]
  <2>1. Goes(c, step)
        BY <1>2, <1>3 DEF Match
  <2>2. step.pc = "hash"
        BY <1>1 DEF TypeOK
  <2>3. ~At(c, "wallet") /\ step.pc # "wallet"
        BY <1>1, <2>2 DEF At
  <2> QED
      BY <1>1, <2>1, <2>3, GoesShows
<1>4. CASE ~Matches(c, tx)
  <2>1. Atomic!Decide(c, "no")
        BY <1>1, <1>2, <1>4, DecideShows DEF Match
  <2> QED
      BY <1>1, <1>2, <1>4, <2>1, AnswerIsRight, NoIsRight, VerdictOpen
<1> QED
    BY <1>3, <1>4

LEMMA AskWalletShows ==
  ASSUME IInv, NEW c \in Checks, AskWallet(c)
  PROVE  Atomic!Next \/ UNCHANGED <<chain, pool, call, Verdict>>
<1>1. TypeOK /\ CallInv /\ check[c].pc = "again"
      BY DEF IInv, AskWallet, At
<1>2. PICK denied \in BOOLEAN :
        /\ denied => Denies(Peer(c))
        /\ Goes(c, [check[c] EXCEPT !.pc = "wallet", !.denied = denied])
      BY DEF AskWallet
<1> DEFINE step == [check[c] EXCEPT !.pc = "wallet", !.denied = denied]
<1>3. step.pc = "wallet" /\ step.denied = denied
      BY <1>1 DEF TypeOK
<1>4. CASE ~denied
      BY <1>1, <1>2, <1>3, <1>4, GoesShows DEF At
<1>5. CASE denied
  <2>1. ASSUME NEW d \in Checks
        PROVE  Verdict'[d] = IF d = c THEN "no" ELSE Verdict[d]
    <3>1. check'[d] = IF d = c THEN step ELSE check[d]
          BY <1>1, <1>2 DEF Goes, TypeOK
    <3> QED
        BY <1>2, <1>3, <1>5, <3>1 DEF Verdict, At, Goes
  <2>2. Verdict' = [Verdict EXCEPT ![c] = "no"]
        BY <2>1 DEF Verdict
  <2>3. Atomic!Decide(c, "no")
        BY <1>2, <2>2 DEF Atomic!Decide, Goes
  <2> QED
      BY <1>1, <1>2, <1>5, <2>3, DeniedIsRight, NoIsRight, VerdictOpen
<1> QED
    BY <1>4, <1>5

(* A "no" said again of a call that was denied before.                     *)
LEMMA DeniedStays ==
  ASSUME TypeOK, CallInv, NEW c \in Checks, At(c, "wallet"), check[c].denied, Decide(c, "no")
  PROVE  UNCHANGED <<chain, pool, call, Verdict>>
<1>1. Verdict[c] = "no" /\ Atomic!Decide(c, "no")
      BY VerdictOpen, DecideShows
<1> QED
    BY <1>1 DEF Atomic!Decide, Verdict

LEMMA WalletShows ==
  ASSUME IInv, NEW c \in Checks, GetTransactionByWallet(c)
  PROVE  Atomic!Next \/ UNCHANGED <<chain, pool, call, Verdict>>
<1>1. TypeOK /\ CallInv /\ At(c, "wallet") /\ Peer(c) \in Wallets
      BY DEF IInv, GetTransactionByWallet
<1>2. Decide(c, "no")
      BY DEF GetTransactionByWallet, Match, Matches, NoAnswer
<1>3. KindOf[Peer(c)] = Core
      BY <1>1 DEF CallInv, StepFits, At, Peer
<1>4. Peer(c) \notin ExactNodes
      BY <1>1, <1>3 DEF ExactNodes, Core, Explorer
<1>5. CASE check[c].denied
      BY <1>1, <1>2, <1>5, DeniedStays
<1>6. CASE ~check[c].denied
      BY <1>1, <1>2, <1>4, <1>6, DecideShows, NoIsRight, VerdictOpen DEF At
<1> QED
    BY <1>5, <1>6

LEMMA GetBlockHashShows ==
  ASSUME IInv, NEW c \in Checks, GetBlockHash(c)
  PROVE  Atomic!Next \/ UNCHANGED <<chain, pool, call, Verdict>>
<1> DEFINE n == Peer(c)
           anchor == call[c].anchor
<1>1. /\ TypeOK /\ CallInv /\ At(c, "hash") /\ n \in Nodes /\ Verdict[c] = "open"
      /\ anchor.height \in DOMAIN chain[n]
      BY PeerFacts, VerdictOpen DEF IInv, GetBlockHash, At
<1>2. AnswerFits(anchor, check[c].tx)
      BY <1>1 DEF CallInv, StepFits, At
<1>3. chain[n] \in Chains /\ DOMAIN chain[n] = 1..Len(chain[n])
      BY <1>1, ChainFacts
<1>4. CASE HashMatches(c) /\ HeightMatches(c)
  <2>1. Atomic!Decide(c, "ok")
        BY <1>1, <1>4, DecideShows DEF GetBlockHash
  <2>2. Atomic!Holds(n, anchor)
        BY <1>1, <1>2, <1>3, <1>4 DEF Atomic!Holds, HashMatches, AnswerFits
  <2> QED
      BY <1>1, <2>1, <2>2, PeerFacts DEF Atomic!Accept, Atomic!Next, At
<1>5. CASE ~(HashMatches(c) /\ HeightMatches(c))
  <2>1. Atomic!Decide(c, "no")
        BY <1>1, <1>5, DecideShows DEF GetBlockHash
  <2>2. ~Atomic!Holds(n, anchor)
    <3> SUFFICES ASSUME Atomic!Holds(n, anchor), ~HeightMatches(c) PROVE FALSE
        BY <1>5 DEF Atomic!Holds, HashMatches
    <3>1. check[c].tx.height # 0 /\ check[c].tx.height # anchor.height
          BY DEF HeightMatches
    <3>2. PICK one \in Chains : /\ check[c].tx.height \in DOMAIN one
                                /\ one[check[c].tx.height] = anchor.hash
          BY <1>2, <3>1 DEF AnswerFits
    <3>3. chain[n][anchor.height] = anchor.hash
          BY DEF Atomic!Holds
    <3> QED
        BY <1>1, <1>3, <3>1, <3>2, <3>3, CrossCheckAssumption
  <2> QED
      BY <1>1, <2>1, <2>2, NoIsRight DEF At
<1> QED
    BY <1>4, <1>5

LEMMA StepShows ==
  IInv /\ [Next]_vars => [Atomic!Next]_<<chain, pool, call, Verdict>>
<1> SUFFICES ASSUME IInv, [Next]_vars
             PROVE  Atomic!Next \/ UNCHANGED <<chain, pool, call, Verdict>>
    OBVIOUS
<1>1. TypeOK /\ CallInv
      BY DEF IInv
<1>2. ASSUME UNCHANGED <<verdict, check>>
      PROVE  Verdict' = Verdict
      BY <1>2 DEF Verdict, At
<1>3. ASSUME NEW m \in Nodes, Reorganise(m)
      PROVE  Atomic!Next
  <2>1. chain' \in [Nodes -> Chains]
        BY <1>1, <1>3 DEF TypeOK, Reorganise
  <2> QED
      BY <1>2, <1>3, <2>1 DEF Reorganise, Atomic!Reorganise, Atomic!Next
<1>4. CASE SwapPool
  <2>1. pool' \in Seq(Nodes)
        BY <1>1, <1>4 DEF TypeOK, SwapPool
  <2> QED
      BY <1>2, <1>4, <2>1 DEF SwapPool, Atomic!Configure, Atomic!Next
<1>5. ASSUME NEW c \in Checks, Refuse(c)
      PROVE  Atomic!Next
      BY <1>1, <1>5, DecideShows, VerdictOpen DEF Refuse, Atomic!Refuse, Atomic!Next
<1>6. ASSUME NEW c \in Checks, NEW anchor \in Anchors, VerifyBeforePromote(c, anchor)
      PROVE  Atomic!Next
  <2>1. check' = [check EXCEPT ![c] = [@ EXCEPT !.pc = "peer", !.i = 1]]
        BY <1>1, <1>6 DEF VerifyBeforePromote, TypeOK
  <2>2. check[c] \in [pc : CheckSteps, i : Nat, tx : Answers, denied : BOOLEAN]
        BY <1>1 DEF TypeOK
  <2>3. check'[c].pc = "peer" /\ verdict'[c] = "open"
        BY <1>1, <1>6, <2>1, <2>2 DEF TypeOK, VerifyBeforePromote
  <2>4. ASSUME NEW d \in Checks
        PROVE  Verdict'[d] = IF d = c THEN "open" ELSE Verdict[d]
    <3>1. CASE d = c
          BY <2>3, <3>1 DEF Verdict, At
    <3>2. CASE d # c
      <4>1. check'[d] = check[d] /\ verdict'[d] = verdict[d]
            BY <1>1, <1>6, <3>2 DEF TypeOK, VerifyBeforePromote
      <4> QED
          BY <3>2, <4>1 DEF Verdict, At
    <3> QED
        BY <3>1, <3>2
  <2>5. Verdict' = [Verdict EXCEPT ![c] = "open"]
        BY <2>4 DEF Verdict
  <2> QED
      BY <1>1, <1>6, <2>5, VerdictOpen DEF VerifyBeforePromote, Atomic!Begin, Atomic!Next
<1>7. ASSUME NEW c \in Checks, AllFailed(c)
      PROVE  Atomic!Next
      BY <1>1, <1>7, DecideShows, VerdictOpen DEF AllFailed, At, Atomic!GiveUp, Atomic!Next
<1>8. ASSUME NEW c \in Checks, NotFound(c)
      PROVE  Atomic!Next \/ UNCHANGED <<chain, pool, call, Verdict>>
  <2>1. CASE ExplorerFails(c) /\ Denies(Peer(c))
        BY <1>1, <1>8, <2>1, DecideShows, DeniedIsRight, NoIsRight, VerdictOpen
        DEF NotFound, ExplorerFails, At
  <2>2. CASE At(c, "wallet") /\ check[c].denied
        BY <1>1, <1>8, <2>2, DeniedStays DEF NotFound
  <2> QED
      BY <1>8, <2>1, <2>2 DEF NotFound
<1>9. ASSUME NEW c \in Checks, AskPeer(c) \/ SkipPeer(c) \/ PeerFails(c) \/ AskAgain(c)
      PROVE  UNCHANGED <<chain, pool, call, Verdict>>
  <2>1. check[c] \in [pc : CheckSteps, i : Nat, tx : Answers, denied : BOOLEAN]
        BY <1>1 DEF TypeOK
  <2>2. ~(At(c, "wallet") /\ check[c].denied)
        BY <1>9 DEF AskPeer, SkipPeer, PeerFails, AskAgain, ExplorerFails, At
  <2>3. PICK step \in {[check[c] EXCEPT !.pc = "ask", !.denied = FALSE],
                      [check[c] EXCEPT !.pc = "peer", !.i = @ + 1],
                      [check[c] EXCEPT !.pc = "again"]} : Goes(c, step)
        BY <1>9 DEF AskPeer, SkipPeer, PeerFails, NextPeer, AskAgain, GoesTo
  <2>4. step.pc # "wallet"
        BY <2>1, <2>3
  <2> QED
      BY <1>1, <2>2, <2>3, <2>4, GoesShows
<1>10. CASE UNCHANGED vars
       BY <1>2, <1>10 DEF vars
<1>11. ASSUME Dial \/ \E kind \in Kinds, urls \in PoolURLs : SetVerifyAPIs(kind, urls)
       PROVE  UNCHANGED <<chain, pool, call, Verdict>>
       BY <1>2, <1>11 DEF Dial, SetVerifyAPIs
<1>12. ASSUME NEW c \in Checks, Expire(c)
       PROVE  UNCHANGED <<chain, pool, call, Verdict>>
       BY <1>2, <1>12 DEF Expire
<1> QED
    BY <1>3, <1>4, <1>5, <1>6, <1>7, <1>8, <1>9, <1>10, <1>11, <1>12,
       GetTransactionShows, AskWalletShows, WalletShows, GetBlockHashShows DEF Next

(* The verdict of a cross check, pieced together from several calls while  *)
(* the nodes reorganise and the pool is swapped, is one that a peer of the *)
(* pool found at the beginning would have given at one moment.             *)
THEOREM CrossCheckIsAtomic == Spec => LooksAtomic
<1>1. Init => Atomic!Init
  <2> SUFFICES ASSUME Init PROVE Atomic!Init
      OBVIOUS
  <2>1. Verdict = [c \in Checks |-> "none"]
        BY DEF Init, Verdict, At
  <2> QED
      BY <2>1 DEF Init, Atomic!Init, NoCall, NoAnchor, Atomic!NoCall, Atomic!NoAnchor
<1> QED
    BY <1>1, StepShows, CheckInvariant, PTL
    DEF Spec, LooksAtomic, Atomic!Spec, Atomic!atomicVars
=============================================================================
