----------------------------- MODULE MCScanLoop -----------------------------
(***************************************************************************)
(* Instances of ScanLoop for TLC: a chain of a few blocks, rounds shorter  *)
(* than the chain, and enough requests for a batch to fill and a height to *)
(* be asked for again while it is being scanned.                           *)
(***************************************************************************)
EXTENDS ScanLoop
=============================================================================
