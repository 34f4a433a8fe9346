---------------------------- MODULE MCCrossCheck ----------------------------
EXTENDS CrossCheck

(* Two Core nodes, exact and not, and two explorers, one behind a proxy. *)
MCKindOf == [n \in Nodes |-> IF n \in {"explorer", "proxied"} THEN Explorer ELSE Core]

(* The transaction is in a1 or, after a reorganisation, in b2. *)
MCChains == {<<"a1">>, <<"b1">>, <<"b1", "b2">>}

(* The right anchors, and the hash of one with the height of the other. *)
MCAnchors == {[hash |-> "a1", height |-> 1], [hash |-> "b2", height |-> 2],
              [hash |-> "b2", height |-> 1]}

MCPoolURLs == {<<"exact", "plain">>, <<"explorer", "exact", "proxied">>}
=============================================================================
