----------------------------- MODULE MCTransfer -----------------------------
(***************************************************************************)
(* Instances of Transfer for TLC. Amounts are small but the fees, the dust *)
(* limit and the sizes are the real ones, so that dust and fee boundaries  *)
(* fall between them.                                                      *)
(***************************************************************************)
EXTENDS Transfer

Coin(n, a, v) == [tx |-> 0, out |-> n, addr |-> a, amount |-> v]

Pay(a, v) == a :> v

\* Two addresses that fund together: a small coin, and a large one of each.
TwoWallet == {"A", "B"}
TwoGenesis == {Coin("g1", "A", 2000), Coin("g2", "B", 3000), Coin("g3", "A", 10000)}
TwoPayments == {Pay("X", 1950), Pay("X", 3500), Pay("X", 12000), Pay("B", 1500)}
OnePayment == {Pay("X", 1950)}
TwoIncoming == {Pay("B", 4000)}

\* Three that fund together, with the change for the last.
ThreeWallet == TwoWallet \cup {"C"}
ThreeGenesis == TwoGenesis \cup {Coin("g4", "C", 4000)}
ThreePayments == {Pay("X", 5500), Pay("X", 1250) @@ Pay("Y", 701)}

\* Where the account may be collected.
Sweep == {"S"}

\* A node without a smart estimate, and an older one below the floor.
LegacyNode == {[smart |-> NoRate, legacy |-> 800]}
NodeDecides == {NotGiven}

\* A rate of its own, and one that is bumped from the origin's.
Replace(rate, base, percent, increment, from) ==
  [feeRate |-> rate, baseFeeRate |-> base, feeBumpPercent |-> percent,
   feeBumpWei |-> increment, fromAddress |-> from]
TwoReplacements ==
  {Replace(3000, NotGiven, 0, 0, NoAddress), Replace(NotGiven, 1000, 10, 1, "B")}
OneReplacement == {Replace(NotGiven, 1000, 200, 0, NoAddress)}

Nothing == {}
=============================================================================
