---------------------------- MODULE CrossCheck ----------------------------
(***************************************************************************)
(* The cross check of a transaction before the host counts it as final:    *)
(* SetVerifyAPIs dials the peers with the settings of the wallet manager   *)
(* and swaps the pool under crossCheckMu, VerifyBeforePromote asks the     *)
(* peers of the pool it found one after another. A peer answers each call  *)
(* from the chain it follows at that moment, or fails.                     *)
(***************************************************************************)
EXTENDS Servers, Sequences

CONSTANTS
  Indexed,     \* the nodes with an index of all transactions
  Wallets,     \* the nodes whose own wallet knows the transaction
  Fronted,     \* the nodes behind a proxy that may say "not found" itself
  Blocks, Holding, Chains,   \* see AtomicCheck
  Checks, Anchors,
  PoolURLs,    \* the lists of URLs the host configures
  MaxPools,    \* bound: calls to SetVerifyAPIs
  MaxReorgs    \* bound: changes of the nodes' chains

NoBlock == "no block"   \* no block hash: the transaction waits in the mempool

ASSUME CrossCheckAssumption ==
  /\ MaxPools \in Nat /\ MaxReorgs \in Nat
  /\ Indexed \subseteq Nodes /\ Wallets \subseteq Nodes /\ Fronted \subseteq Nodes
  /\ \A n \in Nodes : KindOf[n] = Explorer => n \in Indexed
  /\ Holding \subseteq Blocks /\ NoBlock \notin Blocks
  /\ Chains \subseteq Seq(Blocks)
  /\ Anchors \subseteq [hash : Blocks, height : Nat \ {0}]
  /\ PoolURLs \subseteq Seq(Nodes)
  /\ \A one, other \in Chains : \A h \in DOMAIN one, i \in DOMAIN other :
       one[h] = other[i] => h = i
  /\ \A one \in Chains : \A h, i \in DOMAIN one :
       one[h] \in Holding /\ one[i] \in Holding => h = i

VARIABLES
  chain, pool, call, verdict,   \* see AtomicCheck
  setter,    \* SetVerifyAPIs: the kind it read, URLs left, peers dialled
  check,     \* where each call is: step, peer, its answer or denial
  expired,   \* the calls whose context has ended
  bounds     \* pools configured and reorganisations so far

vars == <<chain, pool, call, verdict, setter, check, expired, bounds>>

NoAnchor == [hash |-> "none", height |-> 0]
NoCall   == [anchor |-> NoAnchor, peers |-> <<>>]
NotSetting == "not setting"
NoSetter == [kind |-> NotSetting, left |-> <<>>, peers |-> <<>>]
NoAnswer == [block |-> NoBlock, confirmations |-> 0, height |-> 0]

CheckSteps == {"idle", "peer", "ask", "again", "wallet", "hash"}
Answers == [block : Blocks \cup {NoBlock}, confirmations : Nat, height : Nat]

TypeOK ==
  /\ chain \in [Nodes -> Chains]
  /\ pool \in Seq(Nodes)
  /\ call \in [Checks -> [anchor : Anchors \cup {NoAnchor}, peers : Seq(Nodes)]]
  /\ verdict \in [Checks -> {"none", "open", "ok", "no", "error"}]
  /\ setter \in [kind : Kinds \cup {NotSetting}, left : Seq(Nodes), peers : Seq(Nodes)]
  /\ check \in [Checks -> [pc : CheckSteps, i : Nat, tx : Answers, denied : BOOLEAN]]
  /\ \A c \in Checks : check[c].pc \notin {"idle", "peer"} => check[c].i \in 1..Len(call[c].peers)
  /\ expired \subseteq Checks
  /\ bounds \in [pools : 0..MaxPools, reorgs : 0..MaxReorgs]

Init ==
  /\ chain \in [Nodes -> Chains]
  /\ pool = <<>>
  /\ call = [c \in Checks |-> NoCall]
  /\ verdict = [c \in Checks |-> "none"]
  /\ setter = NoSetter
  /\ check = [c \in Checks |-> [pc |-> "idle", i |-> 0, tx |-> NoAnswer, denied |-> FALSE]]
  /\ expired = {}
  /\ bounds = [pools |-> 0, reorgs |-> 0]

Reorganise(n) ==
  /\ bounds.reorgs < MaxReorgs
  /\ \E to \in Chains : chain' = [chain EXCEPT ![n] = to]
  /\ bounds' = [bounds EXCEPT !.reorgs = @ + 1]
  /\ UNCHANGED <<pool, call, verdict, setter, check, expired>>

(***************************************************************************)
(* SetVerifyAPIs. Peers are dialled with the kind of server the manager is *)
(* set to, each on a manager of its own; one that fails is left out.       *)
(***************************************************************************)
SetVerifyAPIs(kind, urls) ==
  /\ setter.kind = NotSetting /\ bounds.pools < MaxPools
  /\ setter' = [kind |-> kind, left |-> urls, peers |-> <<>>]
  /\ bounds' = [bounds EXCEPT !.pools = @ + 1]
  /\ UNCHANGED <<chain, pool, call, verdict, check, expired>>

Dial ==
  /\ setter.kind # NotSetting /\ setter.left # <<>>
  /\ LET url == Head(setter.left) IN
     \/ setter' = [setter EXCEPT !.left = Tail(@)]
     \/ /\ Understands(setter.kind, url)
        /\ setter' = [setter EXCEPT !.left = Tail(@), !.peers = Append(@, url)]
  /\ UNCHANGED <<chain, pool, call, verdict, check, expired, bounds>>

SwapPool ==
  /\ setter.kind # NotSetting /\ setter.left = <<>>
  /\ pool' = setter.peers
  /\ setter' = NoSetter
  /\ UNCHANGED <<chain, call, verdict, check, expired, bounds>>

(***************************************************************************)
(* VerifyBeforePromote.                                                    *)
(***************************************************************************)
Decide(c, v) ==
  /\ verdict' = [verdict EXCEPT ![c] = v]
  /\ check' = [check EXCEPT ![c].pc = "idle"]
  /\ UNCHANGED <<chain, pool, call, setter, expired, bounds>>

Goes(c, step) ==
  /\ check' = [check EXCEPT ![c] = step]
  /\ UNCHANGED <<chain, pool, call, verdict, setter, expired, bounds>>

At(c, pc) == check[c].pc = pc
GoesTo(c, pc) == Goes(c, [check[c] EXCEPT !.pc = pc])

(* An anchor without transaction, height or hash. *)
Refuse(c) == verdict[c] = "none" /\ Decide(c, "no")

(* The pool is taken under the lock that swaps it. A nil pool answers as   *)
(* an empty one does.                                                      *)
VerifyBeforePromote(c, anchor) ==
  /\ verdict[c] = "none"
  /\ call' = [call EXCEPT ![c] = [anchor |-> anchor, peers |-> pool]]
  /\ verdict' = [verdict EXCEPT ![c] = "open"]
  /\ check' = [check EXCEPT ![c].pc = "peer", ![c].i = 1]
  /\ UNCHANGED <<chain, pool, setter, expired, bounds>>

Expire(c) ==
  /\ verdict[c] = "open" /\ c \notin expired
  /\ expired' = expired \cup {c}
  /\ UNCHANGED <<chain, pool, call, verdict, setter, check, bounds>>

PoolOfNow(c) == pool
PoolOf(c) == call[c].peers
Peer(c) == PoolOf(c)[check[c].i]

OneMorePeer(c) == check[c].i <= Len(PoolOf(c)) + 1
MorePeers(c) == check[c].i <= Len(PoolOf(c))

InTime(c) == c \notin expired

AskPeer(c) ==
  /\ At(c, "peer") /\ MorePeers(c) /\ InTime(c)
  /\ Goes(c, [check[c] EXCEPT !.pc = "ask", !.denied = FALSE])

(* The call failed at this peer, or its context had ended before. *)
NextPeer(c) == Goes(c, [check[c] EXCEPT !.pc = "peer", !.i = @ + 1])

SkipPeer(c) ==
  /\ At(c, "peer") /\ MorePeers(c) /\ ~InTime(c)
  /\ NextPeer(c)

AllFailed(c) ==
  /\ At(c, "peer") /\ ~MorePeers(c)
  /\ Decide(c, "error")

(* What a node says of the transaction: its block and confirmations, and,  *)
(* if an explorer, its height; of one in a block that was reorganised out, *)
(* or in the mempool, no confirmation.                                     *)
HeightsHeld(n) == {h \in DOMAIN chain[n] : chain[n][h] \in Holding}
HeightTold(n, h) == IF KindOf[n] = Explorer THEN h ELSE 0

Mined(n) ==
  {[block |-> chain[n][h], confirmations |-> Len(chain[n]) - h + 1,
    height |-> HeightTold(n, h)] : h \in HeightsHeld(n)}
Unmined == {[NoAnswer EXCEPT !.block = b] : b \in Holding \cup {NoBlock}}

Told(n) ==
  IF HeightsHeld(n) = {} THEN Unmined ELSE IF n \in Indexed THEN Mined(n) ELSE {}

(* A node denies what its chain lacks, and, without an index, what it has. *)
(* An error that says "not found" of something else counts as a denial too.*)
Denies(n) == HeightsHeld(n) = {} \/ n \notin Indexed \/ n \in Fronted

(* matchBTCAnchor up to the question for the hash at the height. *)
Matches(c, tx) ==
  /\ tx.block # NoBlock
  /\ tx.confirmations >= 1
  /\ tx.block = call[c].anchor.hash

Match(c, tx) ==
  IF Matches(c, tx) THEN Goes(c, [check[c] EXCEPT !.pc = "hash", !.tx = tx])
                    ELSE Decide(c, "no")

(* GetTransaction: getrawtransaction, on a Core server once more when it   *)
(* fails, and then the node's wallet, whose answer names no block.         *)
GetTransaction(c) ==
  /\ check[c].pc \in {"ask", "again"}
  /\ \E tx \in Told(Peer(c)) : Match(c, tx)

AskAgain(c) ==
  /\ At(c, "ask") /\ KindOf[Peer(c)] = Core
  /\ GoesTo(c, "again")

AskWallet(c) ==
  /\ At(c, "again")
  /\ \E denied \in BOOLEAN :
       /\ denied => Denies(Peer(c))
       /\ Goes(c, [check[c] EXCEPT !.pc = "wallet", !.denied = denied])

GetTransactionByWallet(c) ==
  /\ At(c, "wallet") /\ Peer(c) \in Wallets
  /\ Match(c, NoAnswer)

ExplorerFails(c) == At(c, "ask") /\ KindOf[Peer(c)] = Explorer

(* "not found" and "no such mempool" deny, another error is a failure. The *)
(* error is the one of getrawtransaction, whatever the wallet's was.       *)
NotFound(c) ==
  /\ \/ ExplorerFails(c) /\ Denies(Peer(c))
     \/ At(c, "wallet") /\ check[c].denied
  /\ Decide(c, "no")

PeerFails(c) ==
  /\ \/ ExplorerFails(c) \/ At(c, "hash")
     \/ At(c, "wallet") /\ ~check[c].denied
  /\ NextPeer(c)

(* The rest of matchBTCAnchor: the hash at the height asked for. For a     *)
(* height above its tip a node answers with an error: the peer fails.      *)
HashNotAsked(c) == TRUE
HashMatches(c) == chain[Peer(c)][call[c].anchor.height] = call[c].anchor.hash

HeightMatches(c) == check[c].tx.height \in {0, call[c].anchor.height}

GetBlockHash(c) ==
  /\ At(c, "hash") /\ call[c].anchor.height \in DOMAIN chain[Peer(c)]
  /\ Decide(c, IF HashMatches(c) /\ HeightMatches(c) THEN "ok" ELSE "no")

Next ==
  \/ \E n \in Nodes : Reorganise(n)
  \/ \E kind \in Kinds, urls \in PoolURLs : SetVerifyAPIs(kind, urls)
  \/ Dial \/ SwapPool
  \/ \E c \in Checks :
       \/ Refuse(c) \/ \E anchor \in Anchors : VerifyBeforePromote(c, anchor)
       \/ Expire(c)
       \/ AskPeer(c) \/ SkipPeer(c) \/ AllFailed(c)
       \/ GetTransaction(c) \/ AskAgain(c) \/ AskWallet(c)
       \/ GetTransactionByWallet(c) \/ NotFound(c) \/ PeerFails(c)
       \/ GetBlockHash(c)

Spec == Init /\ [][Next]_vars

(***************************************************************************)
(* Properties.                                                             *)
(***************************************************************************)

(* A verdict is what one peer of the pool found at the beginning says of   *)
(* the anchor as of one moment, though it is pieced together from several  *)
(* calls with reorganisations, failures and swaps of the pool between      *)
(* them. A "no" may be wrong only of a node without an index, behind a     *)
(* proxy, or whose wallet answers for an index that failed.                *)
ExactNodes == {n \in Indexed \ Fronted : KindOf[n] = Explorer \/ n \notin Wallets}

(* A call that was denied says "no" whatever the wallet answers.           *)
Verdict == [c \in Checks |-> IF At(c, "wallet") /\ check[c].denied THEN "no" ELSE verdict[c]]

Atomic == INSTANCE AtomicCheck WITH Peers <- Nodes, Exact <- ExactNodes, verdict <- Verdict
LooksAtomic == Atomic!Spec
=============================================================================
