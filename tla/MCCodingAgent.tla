---------------------------- MODULE MCCodingAgent ----------------------------
(* Small instances of CodingAgent for TLC. *)
EXTENDS CodingAgent, TLC

CONSTANTS t1, t2

\* One command writes two chunks, the other none.
Chatty == [t \in Tasks |-> IF t = t1 THEN 2 ELSE 0]
=============================================================================
