---------------------------- MODULE MCMemoryStore ----------------------------
EXTENDS MemoryStore

CONSTANTS m1, m2, m3, planner, writer, r1, t1

SomeMemories == {m1, m2, m3}
SomeAgents == {planner, writer}
SomeReaders == {r1}
Owners == (m1 :> planner) @@ (m2 :> planner) @@ (m3 :> writer)
SomeTasks == {t1}
TasksOf == (m1 :> t1) @@ (m2 :> None) @@ (m3 :> t1)
SomeTypes == (m1 :> "semantic") @@ (m2 :> "semantic") @@ (m3 :> "episodic")
Texts == (m1 :> "plan") @@ (m2 :> "plan") @@ (m3 :> "draft")
Importances == (m1 :> 8) @@ (m2 :> 5) @@ (m3 :> 5)
SomeKinds == {None, "semantic"}
SomeShares == {<<writer, planner>>}
Sizes == [plan |-> 2, draft |-> 3]

=============================================================================
