---------------------------- MODULE OrderedFeed ----------------------------
(***************************************************************************)
(* What a block scanner promises its host: a position in the chain; the    *)
(* height right after it is offered, and the position moves on only by the *)
(* height that was offered and taken. The host may move the position       *)
(* anywhere while nothing is on offer.                                     *)
(***************************************************************************)
EXTENDS Naturals

CONSTANT MaxHeight

VARIABLES
  position,  \* everything up to here is done
  offered    \* the height the host is being handed, 0 when none is

feedVars == <<position, offered>>

Init == position = 0 /\ offered = 0

Offer ==
  /\ offered = 0
  /\ offered' = position + 1
  /\ UNCHANGED position

Take ==
  /\ offered # 0
  /\ position' = offered
  /\ offered' = 0

Seek ==
  /\ offered = 0
  /\ position' \in 0..MaxHeight
  /\ UNCHANGED offered

Next == Offer \/ Take \/ Seek

Spec == Init /\ [][Next]_feedVars
=============================================================================
