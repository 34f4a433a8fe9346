------------------------------ MODULE Servers ------------------------------
(***************************************************************************)
(* The nodes a manager may call, each a Bitcoin Core or an explorer.       *)
(***************************************************************************)
EXTENDS Naturals

CONSTANTS
  Nodes,       \* the URLs of nodes
  KindOf       \* the kind of server each node is

Core     == "core"
Explorer == "explorer"
Kinds    == {Core, Explorer}

NoURL == "no url"   \* the empty URL, and a client of it

ASSUME ServersAssumption == KindOf \in [Nodes -> Kinds] /\ NoURL \notin Nodes

Understands(kind, url) == url # NoURL /\ KindOf[url] = kind
=============================================================================
