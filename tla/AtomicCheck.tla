---------------------------- MODULE AtomicCheck ----------------------------
(***************************************************************************)
(* What VerifyBeforePromote promises: the verdict about an anchor (a block *)
(* hash and height said to hold a transaction) is what one peer, of the    *)
(* pool configured when the call began, would say if the transaction and   *)
(* the block at the height were read at once. Only a peer that is not      *)
(* exact may deny what it has.                                             *)
(***************************************************************************)
EXTENDS Naturals, Sequences

CONSTANTS
  Peers,      \* the nodes that may serve as peers
  Exact,      \* those that can look up every transaction of their chain
  Blocks,
  Holding,    \* the blocks that hold the transaction
  Chains,     \* the chains a node may follow: sequences of blocks
  Checks,     \* calls to VerifyBeforePromote
  Anchors     \* what they may ask: records of a hash and a height

VARIABLES
  chain,     \* the chain each node follows
  pool,      \* the peers configured
  call,      \* what each call asks, and the pool it found
  verdict    \* of each call

atomicVars == <<chain, pool, call, verdict>>

NoAnchor == [hash |-> "none", height |-> 0]
NoCall   == [anchor |-> NoAnchor, peers |-> <<>>]

Holds(n, anchor) ==
  /\ anchor.height \in 1..Len(chain[n])
  /\ chain[n][anchor.height] = anchor.hash
  /\ anchor.hash \in Holding

Init ==
  /\ chain \in [Peers -> Chains]
  /\ pool = <<>>
  /\ call = [c \in Checks |-> NoCall]
  /\ verdict = [c \in Checks |-> "none"]

Reorganise ==
  /\ chain' \in [Peers -> Chains]
  /\ UNCHANGED <<pool, call, verdict>>

Configure ==
  /\ pool' \in Seq(Peers)
  /\ UNCHANGED <<chain, call, verdict>>

Decide(c, v) ==
  /\ verdict' = [verdict EXCEPT ![c] = v]
  /\ UNCHANGED <<chain, pool, call>>

(* An incomplete anchor is refused without asking. *)
Refuse(c) == verdict[c] = "none" /\ Decide(c, "no")

Begin(c) ==
  /\ verdict[c] = "none"
  /\ \E a \in Anchors : call' = [call EXCEPT ![c] = [anchor |-> a, peers |-> pool]]
  /\ verdict' = [verdict EXCEPT ![c] = "open"]
  /\ UNCHANGED <<chain, pool>>

Accept(c) ==
  /\ verdict[c] = "open"
  /\ \E i \in 1..Len(call[c].peers) : Holds(call[c].peers[i], call[c].anchor)
  /\ Decide(c, "ok")

Reject(c) ==
  /\ verdict[c] = "open"
  /\ \E i \in 1..Len(call[c].peers) :
       ~Holds(call[c].peers[i], call[c].anchor) \/ call[c].peers[i] \notin Exact
  /\ Decide(c, "no")

GiveUp(c) == verdict[c] \in {"none", "open"} /\ Decide(c, "error")

Next ==
  \/ Reorganise \/ Configure
  \/ \E c \in Checks : Refuse(c) \/ Begin(c) \/ Accept(c) \/ Reject(c) \/ GiveUp(c)

Spec == Init /\ [][Next]_atomicVars
=============================================================================
