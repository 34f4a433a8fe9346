---------------------------- MODULE MCBlockScan ----------------------------
(***************************************************************************)
(* Instances of BlockScan for TLC: a height with two rival blocks. t1      *)
(* spends coins of both of the account's addresses, of which only A is     *)
(* known from the start, and pays change, t2 spends that change, in the    *)
(* same block or, in the rival, after t1 was mined below; t3 is a deposit  *)
(* by a stranger.                                                          *)
(***************************************************************************)
EXTENDS BlockScan

TheBlocks == {"b1", "b2"}
TheContent == [b1 |-> <<"t1", "t2">>, b2 |-> <<"t3", "t2">>]
Coin(t, a) == [made |-> t, addr |-> a]
TheIns == [t1 |-> {Coin("p1", "A"), Coin("p2", "B")},
           t2 |-> {Coin("t1", "B")},
           t3 |-> {Coin("p3", "X")}]
TheOuts == [t1 |-> {"B"}, t2 |-> {"X"}, t3 |-> {"B"}]
OneManaged == {"A"}
=============================================================================
