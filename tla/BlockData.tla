----------------------------- MODULE BlockData -----------------------------
(***************************************************************************)
(* The blocks a node may have at one height, and the rows that are to be   *)
(* extracted from them. A coin is known by the transaction that made it    *)
(* and by the address that owns it; amounts do not matter here, see        *)
(* FeeAccounting.                                                          *)
(***************************************************************************)
EXTENDS Sequences, SequencesExt

CONSTANTS
  Blocks,   \* the blocks that may be best at the height
  Content,  \* their transactions, in order
  Ins,      \* the coins a transaction spends: records of made and addr
  Outs      \* the addresses it pays to

Txs == UNION {ToSet(Content[b]) : b \in Blocks}

Leg(t, way, coin) == [tx |-> t, way |-> way, coin |-> coin]

\* A block has a first transaction, the coinbase.
ASSUME BlockDataAssumption == Content \in [Blocks -> Seq(Txs) \ {<<>>}]

\* What transaction t does to the addresses in K.
Legs(t, K) ==
  {Leg(t, "in", c) : c \in {c \in Ins[t] : c.addr \in K}}
    \cup {Leg(t, "out", [made |-> t, addr |-> a]) : a \in Outs[t] \cap K}

\* All rows of block b for the addresses in K.
LegsOf(b, K) == UNION {Legs(t, K) : t \in ToSet(Content[b])}

Addresses ==
  (UNION {Outs[t] : t \in Txs}) \cup {c.addr : c \in UNION {Ins[t] : t \in Txs}}
=============================================================================
