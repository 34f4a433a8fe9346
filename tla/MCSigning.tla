----------------------------- MODULE MCSigning -----------------------------
EXTENDS Signing

MCKindOf == [n \in Nodes |-> IF n = "explorer" THEN Explorer ELSE Core]

MCPrevOutOf == [c \in Coins |-> IF c \in Legacy THEN "p2pkh_1000" ELSE "v0_3000"]
=============================================================================
