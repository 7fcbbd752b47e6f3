---------------------------- MODULE MCBlockLedger ----------------------------
(***************************************************************************)
(* Small instances of BlockLedger.                                         *)
(***************************************************************************)
EXTENDS BlockLedger, TLC

\* Blocks and requests are each interchangeable.
Symmetry == Permutations(Blocks) \cup Permutations(Requests)
=============================================================================
