---------------------------- MODULE MCPtySessions ----------------------------
(* Small instances of PtySessions for TLC. *)
EXTENDS PtySessions, TLC

CONSTANTS c1, c2, c3, i1, i2, i3

\* Tool calls and identifiers are interchangeable.
CallSymmetry == Permutations(Calls) \cup Permutations(Ids)
=============================================================================
