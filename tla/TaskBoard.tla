------------------------------ MODULE TaskBoard ------------------------------
(***************************************************************************)
(* What the A2A server promises about its table of tasks when every        *)
(* request works on a task of its own: a task is opened once, by the       *)
(* request whose message it keeps for ever; that request settles it at     *)
(* most once, or abandons it; after that only cancellation touches it.     *)
(***************************************************************************)
CONSTANTS Requests, TaskIds, NoTask, Nothing

VARIABLES
  board,   \* what tasks/get answers: a task, or NoTask
  open     \* tasks whose request may still settle them

vars == <<board, open>>

Entry(state, r, artifact) == [state |-> state, message |-> r, artifact |-> artifact]

Init == board = [id \in TaskIds |-> NoTask] /\ open = {}

Open(id, r) ==
  /\ board[id] = NoTask
  /\ board' = [board EXCEPT ![id] = Entry("working", r, Nothing)]
  /\ open' = open \cup {id}

\* A cancellation does not keep the request from settling its task.
Settle(id) ==
  /\ id \in open
  /\ LET r == board[id].message
     IN  \/ board' = [board EXCEPT ![id] = Entry("completed", r, r)]
         \/ board' = [board EXCEPT ![id] = Entry("failed", r, Nothing)]
  /\ open' = open \ {id}

Abandon(id) == id \in open /\ open' = open \ {id} /\ UNCHANGED board

Cancel(id) ==
  /\ board[id] # NoTask
  /\ board' = [board EXCEPT ![id].state = "canceled"]
  /\ UNCHANGED open

Next == \E id \in TaskIds :
  Settle(id) \/ Abandon(id) \/ Cancel(id) \/ \E r \in Requests : Open(id, r)

Spec == Init /\ [][Next]_vars
=============================================================================
