# Verification project for GRAMS memory

TLA+ models, TLC configurations and TLAPS proofs for the GRAMS supervisor
(`grams-app/supervisor`), the OpenCode plugin (`grams-opencode/opencode_plugin`) and the
Memory MCP service (`grams-app/memory-mcp`). Paths below are relative to `src/`.

## 1. The system

OpenCode runs a coding agent. A plugin inside it turns what happens into events and posts
them to the supervisor service. The service stores them in an Inbox (SQLite), a worker
drains the Inbox one cohort of events per root session at a time, and a LangGraph graph
reads the cohort, keeps the project's memory (in a second service, the Memory MCP) up to
date and may decide to intervene: a message is queued for the session and the plugin
appends it to the system prompt of the next model call.

| Component | State it keeps | Operations | Hard behaviour |
| --- | --- | --- | --- |
| Event Inbox (`supervisor/inbox`) | table `supervisor_events`: status, lease, cycle, retry count, availability | insert, claim a cohort, renew, acknowledge, fail, recover | leases that lapse, several processes, crashes, retries of the same cohort |
| Worker and runtime (`agent/worker.py`, `agent/runtime.py`) | the claimed cohort, a heartbeat task, a graph task | poll, run a cycle, heartbeat, fail, shut down | cancellation at every await, a heartbeat racing the acknowledgement |
| Pending interventions (`interventions/`, `send_intervention.py`, `record_intervention.py`, `api/interventions.py`) | table `supervisor_interventions`, audit memories | enqueue, claim, consume, fall back to prompt_async, mark, audit | lost answers, retried cycles, plugin and fallback racing for a row, restarts with another mode |
| Shared connection (`app.py`, `platform/sqlite/db.py`) | one SQLite transaction, two asyncio locks | the statements of both repositories | two repositories with a lock each write through one connection |
| Process lifecycle (`process_service.py`, four nodes; Memory MCP processes) | processes, their status, predecessors, summaries | ensure active, close, create successor | a retry after a crash between close and create |
| Supervisor graph (`agent/graph.py`, `agent/nodes`) | the cycle's state, expansion depth | route, assess, expand, decide | bounded expansion, retried cycles, recursion limit |
| Memory update (`curate`, `materialize`, `apply_memory_update`) | memories and edges of a project | curate, create, update, relate | a partial update that is retried |
| Jev service (`jev_service.py`) | none across calls | split, compact, merge | token budgets, recursion |
| Memory MCP (`memory-mcp/internal/memory`) | sessions, projects, processes, categories, memories, edges | CRUD, search, neighbours | read-modify-write updates, unique ACTIVE process |
| Plugin events (`opencode_plugin/src/index.ts`) | maps of sessions, messages, parts, tools | event hooks, timers | check-then-await races, lossy emission |
| Configuration, logging, metrics, prompts, transports, Harbor adapter | none that a decision depends on | | not modelled |

Interactions. The plugin calls the ingress API (a new row) and the intervention API
(claim, consume). The worker calls the runtime, the runtime claims from the Inbox and runs
the graph next to a heartbeat; FINALIZE acknowledges the cohort. SEND_INTERVENTION writes
the queue and an audit memory. All tables of the supervisor share one SQLite connection.
The cycle key, the identifier of the cohort, ties the retries of a cycle together: memory
and intervention writes are made idempotent by it, which is why the Inbox must retry
exactly the same events under the same identifier.

What makes each part correct, in a sentence, and where it is stated:

- Inbox: the retries of a cycle get exactly its events; a row is owned once and completed
  once; every event ends as long as somewhere a worker's loop runs (`CohortUniform`, `SoleHolder`, `CompletedOnce`, `ImplementsQueue`,
  `EverySettles`).
- Interventions: a message reaches the agent at most once and no status or audit claims more
  than happened (`AtMostOnce`, `OneAudit`, `NothingConfirmedFalsely`).
- Shared connection: what a repository method has answered is durable, and a transaction is
  whole (`AnsweredIsDurable`, `WholeOrNothing`).
- Process lifecycle: a pivot or a closure is carried through once although it is three calls
  to another service (`OneSuccessor`, `ClosesOnce`, `AckedIsFinished`).
- Supervisor graph: a node finds what it needs, the graph ends, events are acknowledged when
  their work is durable (`ContractsHold`, `WithinLimit`, `AcknowledgedIsRemembered`).
- Memory update: a retry completes what the first attempt began, without doubles
  (`OwnFactsOnce`, `FactsKept`, `LinksSound`).
- Plugin events: what the agent said in a turn is stored before the turn is reported as
  completed, and not again later with other words, and edits are filed under their session
  (`CompletedTurnIsWhole`,
  `NoLateCopy`, `FileToItsSession`).
- Jev service: a question is asked with what it is about, a call is given up unasked only
  when one of its questions or its least state does not fit, and a halved one returns all
  that was answered (`AskedInContext`, `RefusedOnlyIfUnfit`,
  `AnswersComplete`, `PostedOnce`).
- Memory MCP: a walk beside other calls returns what lasted and nothing that never was;
  calls that do not overlap do what they promise (`NeighborsBetween`, `RowsAsPromised`).

## 2. Modules

| Module | Models | Role |
| --- | --- | --- |
| `CohortQueue` | what the Inbox promises | abstract specification |
| `Inbox` | `inbox/`, `agent/worker.py`, `agent/runtime.py`, FINALIZE | detailed specification |
| `InboxQueue` | the refinement mapping from `Inbox` to `CohortQueue` | refinement |
| `Interventions` | the queue, SEND/RECORD_INTERVENTION and the plugin's transform hook | detailed specification |
| `SharedConnection` | the statements of both repositories on one SQLite connection | what makes (or breaks) the atomic steps of the two above |
| `ProcessLifecycle` | `process_service.py`, the four process nodes, processes in the Memory MCP | detailed specification |
| `SupervisorCycle` | `agent/graph.py` and every node, for one cohort | composition of the nodes |
| `MemoryUpdate` | extraction to `apply_memory_update.py`, memories and edges in the Memory MCP | detailed specification |
| `PluginEvents` | the event hooks of `opencode_plugin/src/index.ts` | detailed specification |
| `JevRequests` | `jev_service.py` and `compact_jev_state` | detailed specification |
| `MemoryGraph` | `graph.go`, relations, update, archive and restore of memories in the Memory MCP and its client | detailed specification |
| `InboxProofs` | theorems about `Inbox`, that it implements `CohortQueue`, what it inherits from it, and that the connection makes its steps atomic | proofs |
| `InterventionsProofs`, `LifecycleProofs`, `SupervisorCycleProofs`, `MemoryUpdateProofs`, `PluginEventsProofs`, `JevRequestsProofs`, `MemoryGraphProofs` | theorems about the modules they extend | proofs |
| `MCInbox`, `MCInterventions`, `MCSharedConnection`, `MCLifecycle`, `MCSupervisorCycle`, `MCMemoryUpdate`, `MCPluginEvents`, `MCJevRequests`, `MCMemoryGraph` | constants of the small instances | model checking |

The modules overlap on purpose. `Inbox` treats the graph as a step that ends or raises;
`SupervisorCycle` opens that step and treats each node as one step that may be interrupted
with any part of its effect; `ProcessLifecycle`, `MemoryUpdate` and `Interventions` open the
nodes that write to other services, call by call; `SharedConnection` opens the transactions
that `Inbox` and `Interventions` take as atomic. `PluginEvents` is the producer of the events
that `Inbox` stores, `JevRequests` one call of the model that `SupervisorCycle` asks, and
`MemoryGraph` the calls of the Memory MCP that read or change what `MemoryUpdate` has made.

Definitions named `...Bug` are mistakes a programmer could plausibly make in the code that
the definition after them models. No action uses them; each shows that a property is able
to fail when it is put in place of its neighbour.

### Inbox

One row of the table is one event `e`; the columns are the functions `status`, `cycle`,
`attempts`, `lease`, `leaseLeft`, `wait` and `processedLease`. Events are numbered by
`received_at`, which is stamped before the insertion, so events may be stored out of order.
Lease identifiers are uuids in the code; here they are numbered by the claims of the row,
which makes them as unique and keeps them finite. `lease_until` and `available_at` are kept
as the time that is left. A worker is a supervisor process: `pc` says where it is in
`run_forever` and `run_cycle`, `todo` is the list of roots of the current pass, `claims`
the cohort it works on.

Every method of the repository is one action because each runs in one SQLite transaction
that takes the write lock: `Persist`, `Claim`, `Renew`, `Ack`, `Fail`, `Restart` (the
recovery in `EventInbox.initialize`; its statements are guarded by the lease they read, so
what other processes do between the read and the first write cannot be undone by them).
`Raise` is any failure or cancellation of the graph, `FailLost` the failure of
`fail_batch` itself, `Crash` the death of the process at any point, which also stands for
a cancellation between the commit of a claim and the `try` of `run_cycle`.

A storage error in the worker's loop is one of two. `ClaimFails` is raised by a cycle and
caught (`worker.py:87-105`), the loop goes on with the next root. `PollFails` is raised by
`claimable_roots` (line 77), outside that `try`: `run_forever` ends for good, the process
lives and takes requests, and `app.py:82` does not start the task again. Only a crash and a
restart bring such a process back, and nothing obliges it to crash.

### Interventions

One row per delivery key. A run is one attempt of a cycle that decided to intervene; its
text is a fresh answer of the language model, so every attempt has another. `Search`,
`Enqueue`, `Reserve`, `Send`, `Mark`, `WriteAudit` and `Record` are the awaits of the two
nodes in their order; `Abort` ends a run between any two of them. The plugin is `Claim`
(a transform hook asks, the service serves), `Inject` or `LoseGrant` (the answer arrives
or not) and `Consume` (one of the requests is served, at any time, or never). A hook needs
no identity: it makes one claim. Audit memories are written through the Memory MCP. The
answer of a write may be lost, and after 30 seconds the client gives the call up while the
service still has it (`memory/client.py:54`): then the run is `crossing` and `LandAudit`
executes the call at any later time, or never, whatever other attempts have searched and
written by then. Audits live in the evidence category of the process that was
active when the node began (`home`), and are searched in the one that is active now:
`StartProcess` stands for a `START_NEW_PROCESS` of a cycle of the session, a retry of the
same cycle included, so an attempt after it does not see the audit of an earlier one and
writes a second.

A cycle can therefore have two audits in one process, against what its change document says:
the create is given up, the retry searches and finds nothing, writes its own, and the first is
executed. `OneAudit` says how far it goes: of the audits in one process at
most one was created in time, every other came behind the back of its caller
(`CreatedLate`). `OneText` says that all of them have the same text, since the row keeps it
(checked for one process and one late call, proved for any number).

### SharedConnection

`app.py` opens one connection and gives it to both repositories, each with an asyncio lock
of its own. A task is one call of a repository method: it takes its lock, begins (or lets
its first write begin), executes its writes one at a time, commits, or rolls back when it
finds its leases stale. The connection has the rules of Python's `sqlite3` module: BEGIN
fails inside a transaction, COMMIT and ROLLBACK settle whatever was written since, by
whomever. A cancelled call stops awaiting; the statement it was in still runs in the
thread of the connection.

Which calls can meet follows from who makes them. `WorkerOps` are those of the loop and of the
nodes of its cycle, `fail_batch` and `set_objective` included: one sequential task makes them, so no two of
them are ever under way. The heartbeat (`renew`) and the handlers of the API (`insert`, `claim`
and `consume` of the interventions) run beside them, and `recover` runs before everything else,
in the startup.

`shared_inbox_alone` justifies the atomic steps of `Inbox`: while the intervention queue is
idle, calls are durable when answered and transactions are whole, which is also proved for
any Inbox calls. It is not so beside the queue: in `shared_answered` the plugin's consume
writes inside the transaction of an acknowledgement, which finds its lease stale and rolls
back, and consume answers as done; with other outcomes half a cohort becomes
durable. `Inbox` and `Interventions` describe the system as long as that does not happen.

A transaction can be left with nobody in it. `BEGIN IMMEDIATE` of `renew_leases` is awaited before the
`try` (`repository.py:327`): when `run_cycle` cancels the heartbeat there (`runtime.py:146-150`), the
statement still runs and nobody ends the transaction (`CancelInBegin`). And `set_objective`
(`repository.py:458-465`, called at `runtime.py:105`) writes without BEGIN and without a rollback: cancelled
before its commit, it leaves its row uncommitted. From then on every BEGIN fails with "cannot start a
transaction within a transaction", that of the failure report too, until some other call
commits. `WholeOrNothing` says what such a transaction can hold: at most that objective, never a row of an event.

### ProcessLifecycle

The processes of one project, with one root session, numbered by name (`process_00n`), and
the summaries in them. One step of a run is one call to the Memory MCP and what the node
does before the next: `GetActive` to `LastSummary` are ENSURE_ACTIVE_PROCESS, `Decide` what
the graph concludes, `SearchTitle` to `Close` are CLOSE_CURRENT_PROCESS with its summary,
`NextName` to `Create` are `create_successor`. `Fault` ends a run between two calls,
`Abandon` ends it in a write that the service executes later (`Deliver`), `Lapse` lets the
leases of a run lapse while the run goes on. `closer` is a history field.

Calls to the Memory MCP are not fenced by the lease: after a lapse two runs can work on the
same cycle. `OneSuccessor`, `ClosesOnce`, `LeavesWhatItClosed` and `AckedIsFinished` are
therefore stated under `Undisturbed`: no lapse and at most one late write. Without the
premise TLC refutes them, and `SupersededIsSucceeded`. With two runs and a lapse, the run that
lost the cohort creates the first process and supersedes it while the other is about to
create one of its own: the latter has no predecessor and stands where the successor
belongs. Two late creates of one run do the same. `SuccessorAfterClose` and
`SummaryBeforeClose` hold always and are proved. The lapse in the run is that of a run whose
cohort nobody else takes: its acknowledgement is refused and it starts over.

### SupervisorCycle

One cohort on its way through the nodes of `agent/graph.py`: one action per node (one for
the three nodes that propose memories, a step for each), which includes the route that the
graph takes after it.
`graph` is the graph state, empty at the start of every attempt; `processes`, `delivery`
and `late` are what lasts. `Interrupt` ends an attempt inside any node, with each partial
effect that the node can leave behind, and a memory may be written late (`Land`). Answers
of Jev and of the text model are chosen freely among those that the validation accepts. A
page of the context is a set of memories cut at `PageSize`, the graph around them is a
radius up to `reach`, the length of its longest relation; relatedness is one flag. `health`,
what the events say of the agent, is a constant of the cohort because the cohort is frozen.

`RecursionLimit` is 25, the default of langgraph 0.6.11 (`requirements.txt`): `graph.ainvoke`
is called without another. It is external, as is the rule that a run that has executed so
many nodes raises. The longest path, a pivot followed by three expansions and an
intervention, runs exactly 25 nodes. FINALIZE is the 25th, so the events are acknowledged by
then; whether the library still reports the limit after the last node is not modelled.
`MaxDepth` is 1 to 3 because `graph.py` and `supervision_decision.py` reject anything else.

### MemoryUpdate

The memories one cohort leaves in a process and the relations between them. A text is a
category and a fact, the wording stands for the fact. A memory carries the references of
the candidates it was tagged for (`cycle` and `candidate` tags); `mine` says that the tag is of
this cohort. `Load`, `Propose` and `Plan` are the read and the three proposal nodes; `Create` and `Link`
are one call each, in the order of `apply_memory_update.py`, first all creates, then the
relations. `Interrupt` ends an attempt in any call, whose write may have happened, may
happen later (`Land`) or never.

A page holds the 50 newest memories of a category; a cohort has at most 6 candidates, so that
its own memories are always in the page: that is the assumption `PageSize >= MaxCandidates`.
An attempt creates only what has no memory with its reference, so that a category holds no
more memories of the cohort than it has references. The search by tag behind the page is a safeguard.

Two premises are needed, TLC refutes the properties without them. `crossed` says that a late
create was executed after a later attempt had read its context (`overtaken` says that it
was read and the write is still out): then a fact is stored twice. It does not matter
whether that attempt is still running: with three attempts a late write may land
between two of them, when the first has read without it and the second is about to. `Consistent` says that attempts number their facts alike: candidates are recognised
by position (`candidate:<ref>`), so an extraction that answers the same facts in another
order makes the retry take the memory of one fact for another
(`apply_memory_update.py:169`), and the second fact is lost. The change documents speak both ways:
`openspec/changes/jev-supervision-regression/proposal.md:33` against
`openspec/changes/apply-memory-update-self-edge/proposal.md:79-82`; the tests
`test_supervisor_v2_nodes.py:908` and `:943` fix the behaviour that is modelled, so it is
stated as a premise and not as a finding. A pivot between two attempts moves the memories
to another process and is left to `SupervisorCycle`.

### PluginEvents

JavaScript runs one hook at a time and gives way only while a post is awaited; OpenCode
does not wait for its `event` hooks. So a step is what happens between two awaits: `UpdatePart`
remembers a part and, when it ends, puts its post out; `PartPosted` is the rest of that
hook. `Idle` begins `flushSession`, `FlushPosted` continues it after each post (`GoOn` looks for
the next part in the `Map` as it is then) and at the end forgets the session and posts
MESSAGE_COMPLETED. The parts are those of one session, in turns; a text is the number of the
update. `maps` keeps every `Map` that `pendingParts` has held, because a flush goes on over
the one it began with while the next turn fills a new one; `Put` and `Drop` are JavaScript's
rules for a `Map` under an iterator. Posts are stored or lost alike, `emit` swallows failures: `settled`
says that a post is over.

Tool calls of two sessions run beside it; `FileEdited` is the global file.edited event, which
comes from inside a running call and names its session, no session or an unusable one.
Heartbeats and session.error post an event and change nothing that other hooks read.

`finalizedParts` is tested before the post and filled after it (320-326), so an update and
a flush can have the same part out at once, with two event ids. The flush waits for its own
post only: the other may be stored behind MESSAGE_COMPLETED. What is certain at the
completion is that a post of the last text of each part is over and that nothing else
than copies of it is out (`CompletedTurnIsWhole`), and `NoLateCopy` says that posts that are out at once are the only
way to a second copy.

`pace` says how a message came, and both properties are about messages that came while no
flush of the session was under way. The end of a flush deletes the messages and parts of
the session (229-234), with those of a next turn that was announced while the flush awaited
its posts. Such a message is then unknown, its parts are ignored when they end, and the
next completion goes out without them, although the document says that each is emitted.
What the plugin promises about such messages is little, and no property states it.

### JevRequests

One call of `system_one`. A batch is a set of questions and the candidates left in its state;
`stack` holds the batches that were halved, as the recursion of
`_system_one_with_question_splitting` does. `Post` sends what `Compacted` left of the state for the
budget of the attempt, `RejectSize` is a 413 or a 400 about sizes, after which the budget is
halved three times before the questions are. Bytes are small numbers: an item of a list
counts one, a candidate and a text have constant sizes, `context_compaction` is added as soon
as anything was left out. `Reduce` is one turn of the loop of `compact_jev_state`: the first
list of `DropPaths` that has items loses its oldest, and when all are empty the longest text
is halved. The five collections of `expanded_memory` are one list, ordered by key as the code drops
them; `context_compaction` has a constant size here, in the code it grows with what it lists.
`Narrowed` filters the candidates that the levels above have left, so one that is left out stays out.

Answers are kept as a function from names to the batch that was given them, `received` is all
that any response held. A response may have any names: it may miss a question, answer
one of another batch or one nobody asked (up to `MaxStray` names a response, and as many
too many in all responses together); only the merge of two halves looks at them, at collisions first and then at the set of names.

What the runs made plain: a retry whose halved budget is still above the size of the state
would send the same request, which the signature test turns into a halving of the questions
(`SplitForRejection`); a state that exceeds the limit with all its candidates is refused
without halving although a half would need fewer, hence the first disjunct of
`RefusedOnlyIfUnfit`; a call that was not halved is returned with the answers it has, so
`AnswersComplete` speaks of halved ones; and since the names are compared after the merge, two
halves that answer each other's questions pass. `fits_single_question` (63-75), which runs the same
computation without sending, has no action.

### MemoryGraph

Memories and relations of a project, with one row per memory reduced to what the calls treat
differently: tier, whether `archived_at` is set, content. The service has one connection
(`SetMaxOpenConns(1)`) and a transaction only for writing one memory, so every statement is a
step and those of other calls come in between. `BeginWalk`, `ListOutgoing`, `ListIncoming`, `Visit` and
`Advance` are `GraphService.Neighbors`; `CreateEdge` and `DeleteEdge` are memory_link and memory_unlink, atomic
because what is read before the INSERT never changes. `Update` is the read of
`MCPMemoryClient.update`, `ToolGet` that of the tool, `ServiceGet` that of `UpdateMemory` and `Save` the write of
all fields; `Abandon` ends a call before its write, and a call may also stay where it is for as long as it
likes. `had`, `ever` and `always` record what was true during the walk, `wanted` what the calls
promise, `overlapped` the memories of which two calls were under way at once: they are
history variables, no action reads them.

`archived_at` follows the calls and not the tier: an update that names ACTIVE leaves it set
on an archived memory, one that names COLD leaves it unset, and `Promised` says so. Archiving between
the reads of an update leaves a COLD row without `archived_at`; that is an overlap.

`NeighborsBetween` compares what a walk returns with the memories that a way of at most
`depth` relations leads to, once in what lasted all the time of the walk and once in what was
there at some time. A way is a function from step numbers to memories that may stay where
it is (`Ways`), so that the definition needs no recursion.

## 3. Runs

| Run | Bounds | Shows |
| --- | --- | --- |
| `inbox_refines` | 2 processes, 3 events of a root in any order, batch 2, 2 attempts, 3 claims per event, 2 faults | implements `CohortQueue`; cohorts move as one; a row has one owner and is completed once |
| `inbox_one_worker` | 1 process, 4 events, 2 roots, batch 2, 2 attempts, 2 faults, fairness | every event settles unless the loop has ended for good; extra attempts are paid for by faults |
| `interventions_mixed` | 2 cycles of a session, 2 attempts that may overlap, 1 process, both modes | at most one arrival; the first text; nothing confirmed falsely; claimed in order |
| `interventions_transform` | 2 cycles, 2 attempts, 2 processes, 1 late call, one mode, fairness | everything queued is resolved; of the audits in a process at most one was created in time |
| `shared_inbox_alone` | the 7 writing methods of the Inbox, 2 rows per cohort | answered is durable; transactions are whole, an abandoned one holds at most an objective |
| `shared_answered` | `ack` of the worker beside `consume` of the plugin | violation: an answered consume is rolled back by the acknowledgement |
| `lifecycle_retries` | 1 supervisor process, 2 cycles, 3 attempts, 2 final outcomes of 3, 2 faults, 1 late write, 1 lapse, fairness | a transition is carried through, once; the summary comes before the close |
| `supervisor_cycle` | 3 attempts, 3 expansions, pages of 2, 2 older memories in a category, relations of length 3 | contracts of the nodes; 25 nodes suffice; the context is current; a review sees something new and misses no page; recovery is delivered; acknowledged is remembered |
| `memory_update` | 2 facts, 2 candidates, 2 attempts, one relation target, 0 or 2 newer memories, pages of 2 | own facts once, facts kept, relations sound |
| `plugin_events` | 2 turns, 3 messages with a part of 2 versions each, 2 tool calls in 2 sessions | a completed turn is whole; no late copy; edits go to their session |
| `jev_requests` | 4 questions, 2 candidates, 9 items in 6 lists, 3 texts, limits 1 to 33, responses that differ from their batch by a name | asked in context; refused only if unfit; nothing posted twice; a halved call returns all that was received, one answer each |
| `memory_graph` | 3 memories, 3 relations of 2 kinds, depths 0, 2 and 11, 2 calls by 2 writers, 2 changes of relations | a walk returns between what lasted and what was there; calls do as promised |

Why the bounds are enough. The Inbox needs a batch that fills up, one event left behind it
and another root (three and one events, batch two), a retry and the attempt after the last
(two attempts, two to three claims) and two processes to take a lease over. The queue
needs two rows for order and two attempts for a retry; the audits need two as well, a late create and one in
time. The seven Inbox calls are the methods that write in the
service, the one-row variants that nothing calls left aside. The
lifecycle needs a cycle that pivots, is retried and given up, and a next cycle that picks up
what is left; three attempts are the default of the service. The graph needs more
memories than a page, and as many expansions as `graph.py` allows. A memory update needs two
candidates for a relation and for a collision, an attempt and its retry, and enough newer
memories to push an old one out of the page of two. A second relation target adds
proposals of the same kind (4 in the code). The plugin needs a turn with two messages, so
that a flush posts one part while another changes, a turn behind it, a second version of
a text and a call of another session. The limits of `jev_requests` go from one that fits
no question to one that fits the whole state, through every size between; four questions are
halved twice, so a call is answered in one to four parts. One name by which a response differs is enough
for a collision, a hole, a stranger, and for two halves that make up for each other. The walk needs a relation in each direction, one of another kind, a way
around and depth two; two calls suffice for an overlap and for one after the other.

Symmetry, only in runs without liveness properties: the two processes in `inbox_refines`
(its temporal properties are all safety), the two keys in `interventions_mixed`, the two
facts in `memory_update`, the two writers in `memory_graph`.

Fairness. `Inbox!FairSpec` assumes that `run_forever` goes on while it has not ended (an error
of a cycle is caught, one of `claimable_roots` ends it, and `EverySettles` has as its premise that some loop
runs again and again), that a cycle ends (`Ack` or `Raise`: graph calls have timeouts), that a dead
process is restarted and that time passes. Nothing obliges events to arrive, leases to be
renewed or faults to happen. `Interventions!FairSpec` assumes only that time passes and
that each session goes on calling its model. `ProcessLifecycle!FairSpec` assumes that the
worker claims what can be claimed, its loop not having ended, and that a run goes on: every call has a
timeout. Faults, lapses and late writes are free.

`CHECK_DEADLOCK FALSE` everywhere but in `jev_requests`, which checks that a call always ends
in an answer or an error: a drained queue, a finished cohort or walk stops by design.

Where the code and its documents disagree:

- Two repositories in one transaction lose an answered consume (`shared_answered`): the plugin
  injects the message, its row stays CLAIMED and is offered again when the claim lapses.
  `openspec/changes/pending-intervention-system-transform/proposal.md:266-267` asks for atomic
  transitions.
- `claim_pending` reclaims a lapsed row whatever its `retry_count` (`repository.py:226`), so a process that dies
  in the last attempt, or a lost `fail_batch`, buys another one;
  `openspec/changes/align-supervisor-memory-mcp-process-active/proposal.md:130-131` wants FAILED.
  `AttemptsPaidByFaults` says exactly how far it goes: one attempt per fault.
- After a restart from prompt_async to system_transform a row left in FALLBACK_SENDING is
  labelled PENDING (`send_intervention.py:212-217`) and the cycle is acknowledged although nobody
  will send it. `Interventions` has these steps (`AllModes`, `LabelOf`); `AtMostOnce` and
  `NothingConfirmedFalsely` hold all the same, that it is delivered is not claimed.
- A cycle can have two audits in one process, see Interventions above:
  `openspec/changes/jev-supervision-intervention-budget/proposal.md:24` wants at most one.
- Messages announced during a flush may never be emitted, see PluginEvents above:
  `docs/v0/opencode-intercepter-v0.md:192-194` says that they are.
- A heartbeat cancelled in BEGIN, or a cancelled `set_objective`, leaves a transaction that blocks the
  claims, see SharedConnection above; an error of `claimable_roots` ends the worker's loop, see Inbox.

## 4. Proofs

Each proofs module has an inductive invariant, one lemma per action for its step, and the
theorems as consequences. All hold for every value of the constants that satisfies the
module's assumption; a further hypothesis of a theorem is named below with its reason. The
invariants were checked by TLC on the small instances before they were proved.

| Module | Theorems (the property each states) |
| --- | --- |
| `InboxProofs` | `InboxTyped` (`TypeOK`), `CohortsMoveTogether` (`CohortUniform`), `OneOwner` (`SoleHolder`), `OneCompletes` (`CompletedOnce`), `FaultsPayForAttempts` (`AttemptsPaidByFaults`), `InboxImplementsQueue` (`ImplementsQueue`), `QueueIsExclusive`, `QueueIsOrdered`; of the connection `InboxAnswersAreDurable` (`AnsweredIsDurable`), `InboxCallsAreAtomic` (`WholeOrNothing`) |
| `InterventionsProofs` | `DeliveredOnce` (`AtMostOnce`), `DeliveredInOneText` (`OneText`), `ConfirmedTruly` (`NothingConfirmedFalsely`), `TakenInOrder` (`ClaimedInOrder`), `AuditedOnce` (`OneAudit`) |
| `LifecycleProofs` | `LifecycleTyped` (`TypeOK`), `ClosedWithSummary` (`SummaryBeforeClose`), `ChainOfSuperseded` (`SuccessorAfterClose`), `SucceededOnce` (`OneSuccessor`), `ClosedOnce` (`ClosesOnce`), `FinishedBeforeAck` (`AckedIsFinished`), `LeavesClosedAlone` (`LeavesWhatItClosed`) |
| `SupervisorCycleProofs` | `TypeCorrect` (`TypeOK`), `Contracts` (`ContractsHold`), `Terminates` (`WithinLimit`), `ContextHeld` (`ContextIsCurrent`), `NothingAskedTwice` (`AsksSomethingNew`), `PagesJoin` (`NoPageSkipped`), `RecoverySent` (`RecoveryIsDelivered`), `MemoriesComplete` (`AcknowledgedIsRemembered`) |
| `MemoryUpdateProofs` | `StoredOnce` (`OwnFactsOnce`), `FactsAreKept` (`FactsKept`), `RelationsSound` (`LinksSound`) |
| `PluginEventsProofs` | `TurnsAreWhole` (`CompletedTurnIsWhole`), `NothingPostedAgain` (`NoLateCopy`, an action property), `EditsAreAttributed` (`FileToItsSession`) |
| `JevRequestsProofs` | `ContextAsked` (`AskedInContext`), `RefusalJustified` (`RefusedOnlyIfUnfit`), `HalvesAddUp` (`AnswersComplete`), `NothingPostedTwice` (`PostedOnce`, an action property) |
| `MemoryGraphProofs` | `CallsDoAsPromised` (`RowsAsPromised`), `WalkReturnsBetween` (`NeighborsBetween`) |

`InboxProofs`, from `InboxAssumption`. `IInv` strengthens `CohortUniform` with the shape
of the rows (a row has a lease only while it is processed, and a cycle as soon as it was
claimed), the shape of a worker's claims (a set of rows of one cycle, all under the lease
named by the claim) and the uniqueness of leases: a lease number is never above the attempts
of its row, so a fresh one differs from all that any process remembers. Without the shapes
the invariant is not inductive, because `Ack` and `Fail` move the rows a worker remembers
and not the rows of a cycle.

`PaidInv` counts, for one process, that a row nobody works on and that is still PROCESSING
(an orphan: its lease will lapse and `claim_pending` will take it whatever its
`retry_count`) has fewer attempts than the limit and the faults so far together. The hypothesis of
`FaultsPayForAttempts`, one process, is needed: with two a lease may lapse and be taken over without a fault.

The refinement needs `RInv`, which adds to `IInv` that a
fresh row has nothing to wait for (`FreshIsDue`), which makes the oldest eligible rows the
oldest waiting ones, and that the cycles made so far are those of some row (`CyclesUsed`), so that
`CohortOf` names each cohort. `Mapped` restates the mapping as functions of single rows. Each
step then maps to a step of the queue: `Persist` to `Arrive`, `Claim` to `Form` or `Rerun`, `Ack` to `Complete`, `Fail`
and `Restart` to `Release`, `Tick` to `Lapse` or a stutter, everything else to a stutter. What the
queue promises is proved of the queue and carried over to the Inbox by the refinement: `QueueIsExclusive`
(an event waits or is in one cohort, a cohort is of one root, one cohort of a root runs under
a live lease) and `QueueIsOrdered` (cohorts are never broken up, done and dead are final, what
a cohort leaves waiting is younger).

The end of `InboxProofs` is about the connection, for Inbox calls (`OnlyInbox`; beside the queue both
theorems are false, which is the finding). It is the reason for taking the steps of `Inbox` as atomic, so the
two are kept together: `InboxProofs` extends both modules, hence the names
`ConnectionInit`, `ConnectionNext` and `ConnectionSpec`. `ConnectionInv` says that one call at a time holds the lock, that the open
transaction holds writes of that call alone, and how far each call has come at each place.

`InterventionsProofs`, for finitely many keys, without which there need be no oldest row. `IInv` has the shape of a run at
each of its awaits, of a row for each of its statuses (which of them can still be injected or sent) and of
a grant that the plugin holds: a message that may still arrive has not arrived, and only one
of the grant, the fallback and the row may bring it. `AuditInv` says that an audit in a process is
the one its cycle finds there, or came late: a run that is about to write has looked for it in the process
that the write goes to, and nothing was written since but by calls that were given up. The latter is why `AuditedOnce` is for
attempts of a cycle that do not overlap (`~Overlap`); TLC has two audits created in time otherwise.

`LifecycleProofs`, from `LifecycleAssumption`, for any number of runs, lapses and late
writes. `IInv` adds to the first three properties `QueueSound` (the current cycle and its attempts) and
`Sound`, what a run has read and relies on at each of its calls: a run that is closing has
its summary written, a run that is creating has read its predecessor SUPERSEDED. Late
writes are frozen runs, so `Sound` is stated for them too; it is stable because rows are
never removed, a closed row never changes and summaries are only added.

The other four properties have `Undisturbed` as their premise, which a state can lose and not regain, so
that their invariant is an implication: `CalmInv == Undisturbed => Calm`. `Calm` says that one run at a time
makes calls, that every process but the first follows the one before it (`OneAfterAnother`), that the
processes closed by one cycle differ in how they were closed, and, for each call of the run and
for the one late write, which process it is about and that its place in the chain is the
next one or already taken.

`SupervisorCycleProofs`, from `CycleAssumption` (one to three expansions, a limit of 25
nodes). `IInv` is `Shapes`; `ProcessHeld`, `TransitionHeld` and
`DecisionHeld`, what the graph state holds of the active process, of the transition under
way and of the decision at each node; `StepsCounted`, an upper bound on the nodes run at
each node that depends on the depth and on whether the attempt has changed process: its
greatest value is 24 before FINALIZE; and `ContextIsCurrent`. `ReviewInv` follows the pages and the
radius of an expansion from the load to the next review: what has been read is a beginning
of what there is, without a gap, and the review before an expansion has seen less.
`OutcomeInv` follows the delivery and the processes across attempts: once the memory update of the cohort
is complete the active process holds its memories and a closed one keeps all of its own, what a
closing process leaves goes to its successor, and a cohort that needs recovery is not finalized before a delivery.

`MemoryUpdateProofs`, from `UpdateAssumption`. `IInv` says of the store that the cohort's own memories are
the newest ones and tell what some attempt has answered; of a late write that it is still new unless
`overtaken`; of the context, that it holds all own memories and the relations of every memory in it;
and of the plan, that a candidate without a memory has none in the store and that relations no
longer open are written or not wanted. That own memories fill no page is a counting argument
over the references.

`PluginEventsProofs`, from `PluginAssumption`, for any messages, parts and turns. `IInv` is led by `Whole`: the last text of
each part of a turn that came without a flush is posted or pending, that is, in the current map
ahead of the flush's iterator. `LastTextsOver` says what is still out of a completed turn, for which
`TextsSound` bounds the texts of all posts by the version of their part. `MapsSound` and `FlushesSound` say what `Put` and `Drop` do under an iterator, `OpenSound`
and `CalmUnposted` relate the five collections of the hook. `NothingPostedAgain` is proved from the same
invariant, step by step. `EditsAreAttributed` has an invariant of its own (`CallsInv`); that
the open calls are finitely many is part of it, because the code asks how many there are.

`JevRequestsProofs`, from `JevAssumption` (finitely many questions, candidates and dated items, texts
that are not empty, positive limits). Its first half is about the data. The recursive functions of the model (the sums over a
finite set and `Reductions`, the states that the loop goes through) are shown to exist and to be
unique from the least argument at which that would fail; then a turn of the loop that changes a state
lowers its `Mass`, so the loop ends in `MaxReductions` turns, with a state that fits or with the least one of
its candidates (`LoopEnds`), and a smaller budget only goes further (`SmallerBudget`). The second half is the invariant of the
recursion, which `stack` holds. `StackOfHalves` and `BatchOfStack` say that a batch is part of the half that
each frame below it is asking, and that its candidates, like those of every half that waits, are at least those of
its questions and at most those of each question alone and of the call; without the half about frames
`AskedInContext` is not inductive, because a right half is entered with what its frame has kept. The two refusals follow from the upper bound by `FloorGrows`. `RightsUnasked`
says that of a right half that waits nothing was asked. `Visit` says that the requests with the questions of the batch have states of
the loop up to the one posted last, and the next is no earlier: if it is one of them, then it equals
the last (`LoopIsOrdered`), which the comparison with `previous_state_content` refuses. `Counted` divides the accepted responses among
the frames, and `Kept` says where everything received is: in the left halves of the frames and in the answers that
have just returned, so that merging without a collision loses nothing.

`MemoryGraphProofs`, from `GraphAssumption`. `IInv` says that calls of a memory
that overlap have been noted, and what a call has read is still the row as long as it has
not been noted; that each writes what it promised follows call by call. `WInv` is the invariant of the
breadth-first search beside them: what was found is within reach by what was there at some
time (`FoundNear`), what lasts has been found up to the level and its relations have been listed
except at the memories ahead (`NearFound`), and a relation that was met is returned unless one
of its ends did not always pass (`MetReturned`). Ways are lengthened, joined and shortened in lemmas of their
own; the one that needs induction (what is found with nothing ahead is closed under
relations, `NearClosed`) is by the least step of a way that leaves the set.

What the proofs made plain about the models. Two guards of the route after LOAD_PROCESS_CONTEXT
could hold together in an earlier `Route`, which was a `CASE` and so left the choice open; the order
of the tests is now the code's (`AfterReload`). An earlier `crossed` only looked at the attempt under
way, and with three attempts `OwnFactsOnce` did not follow from it: hence `overtaken`. And the page of
MemoryUpdate need only hold one memory per candidate, not one per candidate and attempt.

Left to TLC. Every safety invariant and action property that a passing run checks is stated by one of these
theorems. What is left is what has fairness in its specification or its statement
(`EverySettles`, `EveryQueuedResolved`, `SupersededIsSucceeded`) and ENABLED, which are beyond this
prover, and that `jev_requests` does not deadlock. The violation of `shared_answered` is a run by nature. `FaultsPayForAttempts`, `AuditedOnce` and the two theorems of
the connection have a hypothesis without which they are false, as the paragraphs above say. No module declares a RECURSIVE operator.

## 5. Plan

Modelling, in order:

1. `Interventions` over the statements of `SharedConnection`.
2. Two runs of `ProcessLifecycle` whose leases are those of `Inbox`.
3. The registration of sessions and projects (`client.py:153-228`), when two supervisors see a
   project for the first time.

Proving, in order:

1. The new modules of the list above, each with its invariant.
2. The shape of `Compacted` further than the properties need: that it drops nothing of a later list of
   `DropPaths` while an earlier one has items.
3. That `SupervisorCycle` ends every attempt in FINALIZE or in an error: a measure that each node lowers, as an
   action property, which is the part of termination that needs no fairness.

Not modelled: the wording of prompts and the form of the models' answers
(`prompts.py`, `openrouter_service.py`, `schemas.py` beyond what is named above), which are inputs here;
configuration, logging and metrics; the transport of the Memory MCP and the decoding of
arguments; the validation and status codes of the ingress API; heartbeats, which post and
change nothing; the manifest and the registration of sessions; the one-row variants of the
Inbox and the path of SEND_INTERVENTION without a repository, which nothing in the service calls;
and the Harbor adapter, which installs the plugin in a container.
