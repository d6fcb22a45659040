----------------------------- MODULE MCA2AServer -----------------------------
(* Small instances of A2AServer for TLC. *)
EXTENDS A2AServer, TLC

CONSTANTS r1, r2, r3, r4, t1, t2, t3, t4

\* Requests, and the identifiers the server generates, are interchangeable.
RequestSymmetry == Permutations(Requests) \cup Permutations(TaskIds \ SuppliedIds)
=============================================================================
