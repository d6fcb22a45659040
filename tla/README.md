# Argus Panoptes: TLA+ models, checks and proofs

Argus Panoptes is a system of cooperating agents. A user talks to a **coordinator** (over a
terminal or a Telegram bridge). The coordinator asks an LLM which agent a request is for and
delegates it over the **A2A protocol**, JSON-RPC with server-sent events. Each agent (coding,
research, planning, writing, review, testing) is a process of its own behind the same **A2A
server**. The coding agent drives interactive programs through the **PTY MCP server**, agents
remember what they did in a layered **memory store**, and everybody calls models through one
**LLM client** with retries.

This directory holds TLA+ modules of that code, the TLC configurations that check them on
small instances, and TLAPS proofs for every instance. `PROJECT.json` is the index: runs,
properties, the lines every definition models, hazards, findings and theorems. Paths below are
relative to `crates/`.

## Inventory

| Component | State | Operations | Interacts with | What is hard |
|---|---|---|---|---|
| A2A server (`a2a/src/server.rs`) | the task table (DashMap), per stream a broadcast and a oneshot channel | message/send, message/stream, tasks/get, tasks/cancel | coordinator (HTTP, SSE), one agent (call, progress channel) | check-then-act on the table, futures dropped by `select!`, disconnects, cancellation |
| PTY server (`pty-mcp/src/session.rs`, `server.rs`) | session map with TTLs; per session slave, child handle, flags, output buffer, reader thread | create, spawn, write, read, status, kill, list | coding agent (MCP calls), operating system (terminal, process) | flags written by two threads, check-then-create, three-lock reads, orphaned processes |
| Coding agent (`agents/src/coding.rs`, `pty_client.rs`, `pty_tools/`) | busy flag, connection to the PTY server, one session per task | process_task: spawn, poll, time out | A2A server (its handler can be dropped), PTY server | busy flag without a guard, timeout against late output, sessions left behind |
| Other agents (`agents/src/*.rs`, `a2a_bridge.rs`) | busy flag or semaphore; memory client | phases with fallbacks, report building, parsers | A2A server, LLM client, memory store, commands | partial failure of phases, parsers of tool output |
| Coordinator (`coordinator/src/orchestrator.rs`, `triage.rs`, `discovery.rs`) | table of agents | triage with a keyword fallback, delegate, delegate_streaming | A2A servers, LLM client | streams without a terminal status, broken connections, answers that do not parse |
| Telegram bridge (`coordinator/src/bin/telegram.rs`) | offset in memory | poll, forward, answer in parts | Telegram, coordinator | restarts, failed answers, splitting of messages |
| LLM client (`llm/src/retry.rs`, `config.rs`) | semaphore, attempt counter | complete with retries | model APIs | backoff, retry-after, permit held while sleeping |
| Memory store (`memory/src/store.rs`, `retrieval.rs`) | working, episodic, semantic, procedural memory; access policies | add, search, get, context building | agents, embeddings | two stores that can differ, access checks, budgets |

The properties that make each component correct:

* **A2A server**: the table stays consistent with the requests that own its entries; nobody is
  told of an end the table does not show; colliding requests do not mix results; limits hold up
  to the concurrency of the runtime; every request reaches a terminal answer.
* **PTY server**: the session limit; one command per session; flags and status agree with the
  command; every call is answered; reader threads end; output reaches a reader.
* **Agents**: a busy agent becomes free again unless its task was dropped or panicked; each phase
  fails on its own; answers are readable; a report says what the tools said.
* **Coordinator and bridge**: an answer says completed only if the agent completed; an update is
  handled before Telegram forgets it and in the end, and an answer's parts are the answer.
* **LLM client**: attempts are bounded, permits come back.
* **Memory**: what was reported as persisted stays; important memories are not lost by eviction;
  readers of two layers miss nothing that moves between them; the parts of contexts fit their budget.

## Modules

| Module | What it is |
|---|---|
| `TaskBoard` | abstract: what the A2A server promises about its table |
| `A2AServer` | the A2A server with its agent runs, streams and clients |
| `PtySessions` | the PTY server: manager, tool calls, session objects, reader threads, commands |
| `OutputBuffer` | the bounded buffer of a session's output |
| `CodingAgent` | the coding agent: busy flag, connection, poll loop, against a server modelled by what its tools do |
| `Delegation` | the coordinator: discovery, triage, delegation, against an agent's server as one connection sees it |
| `TelegramBridge` | extends `Delegation` with the Telegram loop: the two composed |
| `LlmClient` | the shared client of the model: permits, retries, what counts as an answer |
| `TaskAgents` | extends `LlmClient` with the planning, writing, review, testing and research agents |
| `MemoryStore` | the two layers of memory, their writers, readers and contexts |
| `MessageParts`, `ReplyObject`, `AgentReports` | pure algorithms: message splitting, JSON in a reply, parsers and reports |
| `ReportInputs`, `Texts` | the programs whose output the reports are about; all text algorithms with their inputs |
| `MC*` | constants (and symmetry where there is no liveness) for TLC |
| `A2AServerProofs`, `PtySessionsProofs`, `CodingAgentProofs`, `TelegramBridgeProofs`, `MemoryStoreProofs`, `TaskAgentsProofs`, `TextsProofs` | theorems (those of `Delegation` in `TelegramBridgeProofs`) |
| `FoldLemmas` | lemmas about folds, sums and sequences that three of them rest on |

Definitions whose comment starts with "Deviation" are not part of a specification: each is an
action as a plausible mistake would have it, and shows which property notices.

### A2AServer

One request is one JSON-RPC call; `pc` says how far its handler or stream has come. The prefix
of both message methods, capacity check, collision check and insert, has no await, so it runs on
one worker thread: at most `Threads` requests are inside it, and its three DashMap operations
interleave with those of others. `message/send` then awaits the agent in the handler
(`SendReturns`), and is dropped with its connection (`SendDropped`). `message/stream` spawns the
agent (`AgentProgress`, `AgentEnds`, `AgentReports`: the progress sender is dropped before the
result is sent) and answers with a stream. A turn of the stream's `select!` is `SelectPends`
(nothing is ready; the future of the result branch has taken the receiver out of the `Option`),
`SelectProgress` or `SelectResult`. When the progress branch wins, the other branch's future is
dropped: `ReceiverAfterProgress` says what is left of the receiver, including the case that
`select!` polled the result branch first. A client that goes away is `StreamDropped`. A message's
content is the request itself; a result is named by the request it belongs to.

Events of the stream are abstracted to the last one the client got (`told`). The text of
messages, timestamps and JSON are left out. The channel capacity of 64 and MAX_TASKS of 10,000 are
constants.

### PtySessions

One tool call is one MCP request; calls run concurrently. A session object is named by the call
that created it. The manager's lock makes `get`, `cleanup_expired`, `create` after its cleanup and
`remove` single steps. `get_or_create` is two. `spawn()` does not await, but shares its session
with other calls, the reader thread and the process: the running check, taking the slave, forking,
storing the child handle and the two flag stores are six steps. `pty_read` is three: the copy of
the buffer, during which the reader thread's `try_write` fails, its end, and the clearing. The
reader thread reads chunks, sees the end of output when nobody holds the slave side of the
terminal (`TtyOpen`: the session object as long as it is reachable, a handler in the middle of
`spawn()`, the process unless it detached), waits for the process if its handle was stored, and
then stores the two flags in two steps.

Time is abstracted to `expired`: an entry may expire at any moment, and an access before that
moment keeps it. Since an entry that is not expired has no age in the model, `touch` changes
nothing. Output is a set of numbered chunks.
The verdict of the command whitelist is a free choice. The command itself is external: it
writes, closes its terminal and ends as it likes. A write to the terminal changes no state of the
server. `pty_confirm` is not dispatched by `call_tool` and so is not a tool here. At the limit of the
buffer its oldest chunks go (`Newest`): `Fits` is the family of the sets of chunks that are together
within the limit, closed under subsets; a chunk alone always is, since the reader thread takes 4096
bytes at most. How the code counts the bytes and cuts a chunk is the subject of `OutputBuffer`, where
bytes are numbered in the order of arrival and a chunk is an interval of them.

### CodingAgent

One task is one call of `process_task`; `pc` names the call it awaits. `Claim` is the
compare-exchange on `busy`, `Return` the end of the function on every path, which resets the flag.
A turn of `run_session` is `Check` (the time limit), `Status`, `Read` (the server copies its
buffer) and `ReadEnds` (the server has cleared it, the reply is there); a session seen as ended is
read once more. Steps between two calls touch only locals and are part of the call before them.
An error of a call ends the task without a kill (`CallFails`). The future of `process_task` can be
dropped at every await (`Dropped`): `message/send` runs it inside the HTTP handler.

The server is what `PtySessions` shows of it to a client that makes one call at a time per session:
`Spawns` has the three outcomes of `pty_spawn` (a running command; a command whose reader thread
ended first, so that the session reads running for ever; with the `read` fault a reader thread that
ended before its command), `ReaderReads` may drop a chunk while a read copies and clears, and the oldest
ones at the limit of the buffer (`Kept`). Sessions
of tasks that no longer poll can expire, those that are polled are touched every turn. The server
process can die (`ServerDies`); since `connected` is never reset, `Connect` does not replace it.
`awaiting_confirmation` is never true, so the branch that answers prompts has no action.
`ClaudeCodeTool` runs the same loop inside `process_task`; a generic tool is not modelled.

### Delegation

A call to the coordinator goes through `stage`: triage (`TriageByModel`, `TriageByKeywords` when the
model's call or reply fails, `TriageRefuses`), then `Decide`, then one HTTP request to the agent.
`Discover` runs once before anything is served: an agent whose card was not read then stays unknown.
The keyword groups are tried in the order of `Precedence`. The agent's server is what `A2AServer`
shows to one connection: it admits or refuses, reports progress, and ends with a result, a failure or
the connection; events queue in `wire`. A chunk may end inside an event (`ReadHalf`) and, since each
chunk is turned into text on its own, inside a character (`Artifact`, "garbled"). `DelegateFails` is
every error of the connection, the status, the body and `delegate_timeout`. The future of a
`message/send` to the coordinator is dropped when its caller goes away (`CallerLeaves`), and the agent's
with it (`AgentDropped`); one of `message/stream` runs in a task of its own. `EndsUntold` is the one
situation in which the loop takes the end of a stream for success; it is a state predicate and not an
action, because `EndIsTold` shows that it is never reached.

### TelegramBridge

One loop: `Poll` confirms the updates below the offset (kept in memory, none after a start) and
takes a first part of the rest; each update is then taken, *which moves the offset first*, and
ignored, answered with the help text, or forwarded as a call of `Delegation` (`Forward` contains
`Request`). `Answered` and `GivesUp` (the bridge's time limit, which closes the connection:
`CallerLeaves`) make an answer in parts; `SendFails` drops the rest. `Crash` may happen at any step
and loses the loop's variables; a panic of the splitting is one. `Loads` selects what users and
other clients send in an instance.

### LlmClient and TaskAgents

`complete()` takes a permit (`Acquire`) and gives it back when it ends (`Ends`) or its future is
dropped (`Forget`). `Fails` decides by the text of the error whether there is another attempt; the
sleep before it (`Wakes`) has no length. Requests have no time limit (`Hangs`). The body of an
answer is a string or an array of items and some other fields; `ContentOf` and `Accepted` say what the
two clients make of it: the OpenAI client turns a blank answer into an error, the Anthropic client
passes it on.

A task of one of the five agents runs a pipeline of awaits (`Pipeline`), each of which is made as often
as `Turns` says, and may fail without failing the task. What happens between two awaits is part of the
step that ends the first. Three awaits may never end (`Untimed`): a command, a search of the memory and the
storing of a result. None has a time limit, and the first use of the memory loads the model of the embeddings,
synchronously, inside the await (`memory/src/embedding.rs:140`). Searches and fetches of research go
through a client with a limit of 30 seconds (`agents/src/research.rs:109`). Four agents set
and reset a flag by statements; research holds a permit.
`Drop` is the future dropped at any await; `Panics` is the summary that planning and writing cut at
a byte, inside a character. The answer is a template unless the model's answer replaces it
(`Enhances`).

### MemoryStore

`Add` is one step under the lock of working memory: append, evict from the front, hand what is
important to a spawned task (`SaveEvicted`). `Persist` or `PersistFails` follows if asked for.
The table counts rows per memory, since nothing looks for an earlier row of the same one. Readers
(`search`, `get_by_agent`, `get_by_agent_authorized`, `get_by_task`, `build_context`) look at the
two layers in two steps; the check of access is a third. What a query returns of more rows than its
limit is a free choice (`Found`), as is which memories are similar. A context takes its parts layer by
layer; `Take` is the budget and the look for duplicates. The budget counts the parts, as the code does, and not
the header and the joins that are put around them afterwards.

### Text algorithms

`MessageParts` is the loop of `split_message_for_telegram` over characters of one or more bytes,
`ReplyObject` the scan for the JSON object, `AgentReports` the parsers of cargo test, clippy, fmt and
grep output, the plan and the synthesis of findings. A line or fragment is what the code tells apart
of it, and so is a character, which has a name (`"quote"` is the quote, `"escape"` the backslash).
`ReportInputs` produces outputs together with what the tools found, so that the reports can be
compared with it. Cargo stops at the first test binary that fails; a test may be ignored for a reason,
which its line says; a binary may be aborted after some of its tests, or not be compiled, and then prints
no summary (`BreaksOff`). Clippy prints lints, which are errors (`-D warnings`), errors of the code, and
lines of cargo's own, some of which the parser knows (`emitted`, `ends`) and some not (`own`:
"build failed, waiting for other jobs to finish..."). A check of the format may fail without a word. A command
that cannot start prints to stderr only (`NotStarted`). Assumed of the tools: no other line of theirs starts
like a result, and no message of a lint has the words by which the parser knows cargo's lines. `Texts` enumerates
all bounded inputs, one algorithm per initial state (`subject`).

## Runs

| Run | Shows | Bounds |
|---|---|---|
| `a2a_safety` | ownership of entries, agreement of answers and table, no reopening, what the race does to the limit | 3 requests, 1 client-chosen identifier and 2 UUIDs, 2 threads, limit 1, 1 progress event |
| `a2a_live` | implements `TaskBoard`; every request ends unless the receiver is lost | 2 requests, UUIDs only, channel capacity 1, 2 progress events (so the channel overflows) |
| `a2a_hang` | violation: a stream waits for ever | 1 request, capacity 1, 2 events |
| `pty_safety` | one command per session, flags only with a command, final ends, where output is lost | 3 calls (spawn, clearing read, kill), 1 identifier, limit 2, 2 chunks of which the buffer holds one |
| `pty_live` | session limit, calls and reader threads end, exits are recorded | 2 calls of any tool, 2 identifiers, limit 1, no output, expiries, terminal failures, commands that detach |
| `pty_stuck` | violation: a dead command reads Running for ever | 2 spawns |
| `coding_live` | the flag is held and given back, output in order and complete, tasks end | 2 tasks, 1 session, 2 chunks from one command and none from the other, every fault |
| `coding_busy` | violation: a dropped task leaves the agent busy | 1 task, dropped futures |
| `bridge` | Ok means completed, streams are told of their end, updates are handled before they are forgotten and in the end | 3 updates (a text, one to ignore, help) or 2 other callers (one streaming), 1 agent of 2 routes, 2 events on the wire, 2 parts, 1 crash |
| `memory` | nothing persisted or important is lost, readers miss nothing, the parts of contexts fit | 3 memories (1 important, 2 of equal text, 2 agents, 1 task), working memory of 2, limit of 2 rows, budget of 5 with texts of 2 and 3, 1 crash |
| `agents` | permits and claims, readable answers, tasks end unless a command, the memory or a request hangs | 2 tasks of each of 7 setups (5 agents), 1 permit, 1 retry, 2 slots of research |
| `texts` | parts keep the message, the buffer is a suffix, the object is found, reports are right | messages of 8 characters cut at 4 or 5, 20 bytes in chunks of up to 7 against a limit of 5, replies of 8 characters, 3 test binaries of 2 tests, 3 lines of clippy, 3 fragments |

Why the bounds are enough. The races of the A2A server are between two handlers, or a handler and a
thread; three requests add a bystander that has already stored, collided or read. Two threads against
a limit of one reach the bound on the table. A channel of capacity one overflows on the second
event. With one identifier and a limit of two the check-then-create race of `pty_spawn` replaces a
session while a third call uses the old one; the second of two chunks that do not fit together evicts the
first, before or after a read; with two identifiers and a limit of one, creations are
refused. In `coding_live` the second task finds the agent busy, free again or kept by a dropped
task, and the session of the first in the way or expired; two chunks are the least that have an order.
In `bridge` a batch may hold any number of the three updates, so a crash comes before, between and
after them; the configured agent answers for one route and the other has none, so refusals by the
coordinator happen too; an answer in two parts can be cut after none or one. In
`memory` three memories overflow a working memory of two, a second row takes the place of
another memory within a limit of two, and two texts fill the budget exactly. In `agents` one
permit makes a sleeping or hanging caller block the other; one retry has a first, a last and no further
attempt. The splitting has all of its branches within two parts of five. `Faults`, `Tools`,
`Loads`, `Setups` and `subject` select the environment's events, the tools or the program of an
instance, only to keep the state space small; each is part of a passing run, and the theorems hold for
every selection. Deadlock is not checked: an instance serves a finite set of requests and then rests.

Fairness. `A2AServer!Fairness` says that the runtime polls what is ready, a connected client reads
its stream, and the agent returns (`EndsUnlessHung` and `TaskEnds` say when it does). No request,
progress event, cancellation or disconnect is assumed. `PtySessions!Fairness` says that handlers
and reader threads are scheduled, and nothing about commands, time or the arrival of calls; a
`pty_write` may block on a command that does not read, so its end is neither assumed nor claimed. It writes
synchronously and so keeps a worker thread of the runtime (`pty-mcp/src/server.rs:104`): what is assumed of
the other handlers holds while fewer writes are stuck than there are workers.
`CodingAgent!Fairness` says that a task is polled and its calls are answered or fail (`CallsEnd` of
`PtySessions` justifies it: the loop calls no `pty_write`), that time passes and reader threads
run; commands owe nothing. `TelegramBridge!Fairness` says that the loop goes on: a poll succeeds at
last (one that fails is retried after a pause), the bridge's HTTP client ends what it sends, and the
time for the coordinator passes; nothing is assumed of the coordinator and the agents but that
discovery ends, since each of its requests has a time limit. `TaskAgents!Fairness` says that
a task is polled, and that its searches and fetches in the web and its sleeps end, which have a limit. It says
nothing of commands, of the memory and of requests to the model, which have none (`Untimed`, `Hangs`).
A load of the embeddings' model also keeps the worker it runs on, so the rest is assumed of a runtime that has
another.

## Findings

* **A stream can lose its result** (`a2a_hang`). The receiver is taken out of the `Option` inside
  the future that `select!` builds anew each turn (`a2a/src/server.rs:396`). A progress event that
  wins after that future was polled drops it, receiver included, and the stream pends for ever.
  Every agent that reports progress while the client is connected is exposed. `HeldReceiverEnds`
  and `AnsweredUnlessLost` show that this is the only way a stream fails to end.
* **A session reads Running for ever** (`pty_stuck`) when its command ends before `spawn()` stores
  the flags. The orders of the four stores also allow running and status to disagree.
  `ExitRecorded` shows that an exit after the call was answered is recorded.
* **A dropped task keeps the coding agent busy** (`coding_busy`): the flag is reset by statements,
  not by a guard. `BusyHeld` shows that this is the only way it is kept. The planning, writing,
  review and testing agents have the same code.

Seen while modelling, and not made a run of their own:

* `pty_kill` is described as forceful (`pty-mcp/src/server.rs:268`), but only removes the entry from
  the map (`server.rs:192`); the reader thread keeps the terminal and nobody signals the child. In
  `PtySessions`, `Kill` changes nothing of the command.
* The coding agent is documented to answer confirmation prompts (`agents/src/coding.rs:67`). The loop
  waits for a status no code sets, the prompt parser has no caller, and `pty_confirm` is not dispatched.
* `split_message_for_telegram` cuts one byte past the hard limit when the only line end is early and
  there is no space (`coordinator/src/bin/telegram.rs:213`). If a character of several bytes is
  there, it panics; after a restart the update, unconfirmed, is delivered
  again, and an answer of the same shape crashes the bridge again.
  `PartsKeepAll` says that this is the only input it cannot cut.
* A stream's chunks are turned into text one by one (`coordinator/src/orchestrator.rs:241`): a
  character cut by a chunk boundary is replaced in the answer.
* Plans are stored as semantic memories and searched as procedural ones (`agents/src/planning.rs:297`).
* A memory that was persisted and is evicted as important gets a second row.
* `timeout_secs` of the testing and review agents is used by nothing; a command may hang, and so may the
  memory, whose first use loads a model, from the network if need be, synchronously inside the task
  (`EndsUnlessHung`). A retry-after has no cap, and the permit is held while it lasts.
* When cargo cannot be started the test report says PASS and the review calls the code clean: the
  verdict counts what was parsed (`Verdict`, `CannotStart`). So does that of a run that was not compiled or
  whose binary was aborted: PASS unless a test was reported as failed before (`agents/src/testing.rs:329`).
* A review counts lines cargo writes of itself as findings (`agents/src/review.rs:209`): a failing clippy in a
  workspace adds a warning for "build failed, waiting for other jobs to finish...".
* `tasks/cancel` stops no agent, so an entry that was canceled becomes completed when the agent returns
  (`Settle` of `TaskBoard` allows it); a session that a second `pty_spawn` replaced runs on under no
  identifier (`Insert` of `PtySessions`). No document promises otherwise.
* A research counts a page it fetched as a source besides the result it is from
  (`SynthesisIsRight`); a plan item is never of the last priority.
* MAX_TASKS (`a2a/src/server.rs:24`) can be exceeded by up to `Threads - 1` tasks
  (`CapacityOvershoot`), and a PTY server that died is never replaced (`Connect`), though a comment at
  `agents/src/coding.rs:174` plans to.

## Proofs

TLAPS proves, for all constants that satisfy the named ASSUMEs:

* `A2AServerProofs`: `TypeOK`; by the invariant `TableInv` (an entry's message is of a request
  inserted under that identifier and, if it reads working, not ended; only ended requests were told
  so; artifacts match messages) `WorkingIsOwned`, `ToldIsStored`, `ArtifactIsOwn` and the action
  property `NoReopening`. `CapacityOvershoot` and `CollisionBound` are not inductive: `CountInv`
  counts the handlers past a check together with what they will insert, and bounds the sum by what
  was stored when the last one passed plus the threads. Without client-chosen identifiers
  `UniqueInv` (no two requests share an identifier) gives the refinement of `TaskBoard`, step by
  step.
* `PtySessionsProofs`: `TypeOK` with `HeldInv` (a handler at a step that uses a session holds one);
  by `LifeInv`, `SpawnedOnce` and `RunningHasChild`. Its parts: objects exist before anybody names
  them, a call that got a command has spent the slave of its object alone, and a call's position
  says how much of the command exists. `LossExplained`, for every limit and every size of chunks, needs only that
  the buffer is not ahead of the reader thread (`BufferBehind`): the newest chunk then stays (`NewestKeeps`),
  and an older one goes only when it does not fit with those after it. `ExitFinal` follows: only
  a call in the middle of `spawn()`
  or a live reader thread writes the flags, and after the answer there is neither. `SessionLimit`
  is inductive with types; the proof is about cardinalities.
* `CodingAgentProofs`: `TypeOK`; `OneAtATime` and `BusyHeld`, which are inductive together: a step
  takes the free agent, keeps it, or gives it back (`ActsOnAgent`). By `SessionInv`,
  `OutputInOrder` and `OkIsComplete`. Its part `OrderInv` says that what is in the buffer comes
  after what was read, but while a read is between its copy and its clear; `LoopInv` that a
  loop which knows its session has ended is right, and a reader thread that is through stays so.
  Lemmas about sequences say what appending, joining and dropping the oldest (`KeptFacts`) do to an
  increasing sequence.

* `TelegramBridgeProofs`: of `Delegation`, types, `OkIsCompleted` and `EndIsTold`. Neither of the two
  is inductive: `CallInv` says for each stage of a call what its connection can carry: nothing before
  the agent admitted it, the one reply, or a stream whose end, once the task has one, is its last
  event, before which the artifact is on the wire or already read. A step concerns one call; the
  frame (`OthersSame`) keeps the rest. Every behaviour of the composition is one of `Delegation`
  (`ImplementsDelegation`), so what is proved there holds under the bridge; `ConfirmedIsHandled` by
  `OffsetInv` (the batch is the updates from the next one on), `FateInv` (what is before the next
  one is handled, but for the one in hand) and `AskedInv` (an update that is still to come was
  forwarded no more often than the bridge crashed).
* `MemoryStoreProofs`: `TypeOK`, with the size of working memory, `PersistedIsKept` and
  `ImportantIsKept`, by `LayerInv`, which adds the memories whose `add()` is not through: what is
  appended is kept or evicted, what is evicted and important is handed to a task. `AgentSeesAll` and
  `ContextFits` follow from `ReaderInv`, which describes a reader's record at each of its steps:
  between its two looks, what it must find and has not (`Misses`) has a row; a context in the making
  is within its budget and repeats no text behind its first layer (`Fits`).
* `TaskAgentsProofs`: `PermitsConserved`, `ClaimsOwned` and `AnswersReadable`, by `LlmInv` (calls
  are records, and free and held permits add up), `ClaimInv` (with the flags as numbers of tasks at
  an await), `ReplyInv` (what the OpenAI client returns is not blank) and `AnswerInv`. The lemmas say
  which set a step makes larger or smaller by one. `TypeOK` by `Typed`: a call that sleeps has a retry
  left, so no attempt is counted past the last one, and a request's body is always read as one of the
  contents (`ContentTyped`).
* `TextsProofs`: `BufferIsSuffix` for every limit and size of chunks. What the eviction loop pops is
  the least number that suffices (`PopsIs`, by the well-foundedness of the naturals), and what is left
  then is what the bytes say (`AfterIs`). `PartsKeepAll` for every limit and answer: the parts and the
  rest put together are the answer (`PartsInv`), and the only cut inside a character is the branch
  of `ChunkEndIs` one byte past the limit. `ObjectFound` by `ReplyInv`: while the object is written, the
  scan of what is written of it is where `opened` and `quoted` say (`Unclosed`), and once it is closed
  the scan has stopped there and stays so whatever follows (`Closed`). `ReportsAreRight`, for any
  number of test binaries, described tasks, results and pages, by `ReportsInv`, one part for each
  report. The failures of a test run are what its lines show, and the summary a binary prints at its end
  replaces the count by the same number (`TestInv`): cargo goes on only while nothing failed, and a binary that
  breaks off leaves the count of its lines (`RunsLines`, `BreaksOffKeeps`). That a PASS means
  success is not claimed, because it does not. Each finding is in the review as often as it was found, and
  each line of cargo's own that the parser does not know once (`ReviewInv`, with one lemma for what
  each parser reads out of its tool's output; `ReadAs` and `ReadsCount` for clippy's lines in any
  order). The fragments of a description differ (`PlanInv`), so the tasks
  among them are as many as their set and take the sum of its times (`TasksAddUp`); the four
  quadrants share any items out, whole and with their time (`PartsWhole`, `PlanOfItems`).

`FoldLemmas` makes folds provable. An operator cannot be a parameter of a lemma the provers use, so a
fold is stated of a function on pairs (`Folded`), the functions by which the community modules define
`FoldLeft`, `FlattenSeq` and sums are shown to exist (`StepsExist`, by induction stated of sets of
numbers, `FromZeroOn`, of sets, `SubsetInduction`, and of sequences, `SequenceInduction`), and to give
what `Folded` does (`FoldIs`). The scan of a reply, the parts of an answer, the tokens of a context and
what a report selects and counts (`Selected`, `CountLine`) are folds.

The assumptions are those of the modules: limits are numbers, positive where the code divides by them or
could not run otherwise, sets of callers, identifiers and memories that a count is taken of are
finite, a bridge's overhead is less than the length of a message, and what fits into an output buffer is
closed under subsets and has every single chunk.

Only model-checked: liveness (`AnsweredUnlessLost`, `HeldReceiverEnds`, `CallsEnd`, `ReaderEnds`,
`ExitRecorded`, `TaskEnds`, `AllConfirmed`, `EndsUnlessHung`), which is out of the prover's reach. Every
safety property of the passing runs is a theorem.

## Plan

What would come next, in this order:

1. `CodingAgent` over `PtySessions`, and `Delegation` over `A2AServer`: mappings from the servers'
   steps to the effects their clients assume, so that the interfaces are shown and not only described.
2. `MemoryStore` under `TaskAgents`: what a task stores and a later one recalls.
3. The generic tool of the coding agent, and the branch for prompts once a server sets the status.

## Not modelled

Prompt texts and templates, request formats of HTTP clients, HTML cleaning and URL filters, embeddings
(floating point), the command whitelist and path checks (string tables, the file system), MCP
transport, the prompt parser no session calls, the coding agent's generic tool (one awaited command),
binaries that read the environment and start a server, configuration files, deployment scripts.
