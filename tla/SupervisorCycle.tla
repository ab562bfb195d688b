--------------------------- MODULE SupervisorCycle ---------------------------
(* One cohort of events on its way through the nodes of the supervisor      *)
(* graph. An attempt runs the graph from READ_INBOX with an empty graph      *)
(* state; it may be interrupted inside any node, and then only what its      *)
(* nodes have written outside the graph state is left for the next attempt.  *)
EXTENDS Integers, Sequences, FiniteSets

CONSTANTS
  MaxDepth,        \* max_expansion_depth
  PageSize,        \* memories in one page of a category
  RecursionLimit,  \* nodes that one run of the graph may execute
  MaxAttempts,     \* attempts at the cohort before its events are FAILED
  MaxMemories,     \* bound: memories in a category at the start
  MaxReach         \* bound: length of the relations around the memories of a process

ASSUME CycleAssumption ==
  /\ MaxDepth \in 1 .. 3
  /\ RecursionLimit = 25
  /\ {PageSize, MaxAttempts} \subseteq Nat \ {0}
  /\ {MaxMemories, MaxReach} \subseteq Nat

VARIABLES
  node,       \* the node that runs next, END after an acknowledgement, or FAILED
  graph,      \* the graph state of the attempt
  steps,      \* nodes that the attempt has run
  asked,      \* what the attempt has put to Jev for a supervision decision
  attempts,   \* attempts begun
  processes,  \* the processes of the session, oldest first
  delivery,   \* the cycle's message: none, known (queued or delivered) or unknown
  late,       \* the process that a memory is still under way to, or 0
  health,     \* what the events of the cohort say of the agent
  reach       \* how far the relations around the memories go

vars == <<node, graph, steps, asked, attempts, processes, delivery, late, health, reach>>
cohort == <<health, reach>>

Final == {"SUCCEEDED", "FAILED", "ABANDONED"}
Outcomes == Final \cup {"SUPERSEDED"}
Actions == {"CONTINUE", "NEED_MORE_MEMORY", "INTERVENE", "CLOSE_PROCESS"}
Categories == {"STRATEGY", "EVIDENCE"}

\* summary is the outcome in the summary that this cycle has left in the process;
\* remembered says that this cycle's memory update is complete in it.
Process(status, sizes) ==
  [status |-> status, summary |-> "none", remembered |-> FALSE, size |-> sizes]
Sizes == [Categories -> 0 .. MaxMemories]
Empty == [c \in Categories |-> 0]

NoView == [pages |-> [c \in Categories |-> {}], radius |-> 0, related |-> FALSE]
NoContext == [process |-> 0, remembered |-> FALSE, size |-> Empty, related |-> FALSE]
NoDecision == [action |-> "none", outcome |-> "none", evidence |-> {}]
Fresh == [active |-> 0, health |-> "none", reload |-> "none", context |-> NoContext,
          continuity |-> "none", predecessor |-> 0, depth |-> 0, view |-> NoView,
          exhausted |-> [c \in Categories |-> FALSE], decision |-> NoDecision,
          summary |-> "none", message |-> FALSE]

\* The session has no process, one, or a last one that another cycle ended or succeeded.
Init ==
  /\ node = "READ_INBOX" /\ graph = Fresh /\ steps = 0 /\ asked = {} /\ attempts = 1
  /\ processes \in {<<>>, <<Process("SUPERSEDED", Empty)>>, <<Process("SUCCEEDED", Empty)>>}
                   \cup {<<Process("ACTIVE", s)>> : s \in Sizes}
                   \cup {<<Process("SUPERSEDED", Empty), Process("ACTIVE", s)>> : s \in Sizes}
  /\ delivery = "none" /\ late = 0
  /\ health \in {"heartbeat", "recover", "normal"} /\ reach \in 0 .. MaxReach

-----------------------------------------------------------------------------
(* The processes, as the Memory MCP keeps them. *)

Last == Len(processes)

\* A process succeeds the one before it when that one was SUPERSEDED.
HasPredecessor(p) == p > 1 /\ processes[p - 1].status = "SUPERSEDED"

Ended(rows, p, outcome) == [rows EXCEPT ![p].status = outcome]
Started(rows) == Append(rows, Process("ACTIVE", Empty))

\* A memory update adds to each category what the curation kept.
Grown(p, kept) ==
  [processes EXCEPT ![p].size = [c \in Categories |-> @[c] + IF c \in kept THEN 1 ELSE 0]]

-----------------------------------------------------------------------------
(* The run of the graph. *)

Done == {"END", "FAILED"}

\* A node returns: the next one runs on the graph state it leaves.
Go(next, after) ==
  /\ steps < RecursionLimit
  /\ node' = next /\ graph' = after /\ steps' = steps + 1
  /\ UNCHANGED <<attempts, late, cohort>>

\* A node that writes nothing outside the graph state.
Think(next, after) == Go(next, after) /\ UNCHANGED <<asked, processes, delivery>>

ReadInbox == node = "READ_INBOX" /\ Think("ASSESS_AGENT_HEALTH", graph)

AssessAgentHealth ==
  /\ node = "ASSESS_AGENT_HEALTH"
  /\ Think(IF health = "heartbeat" THEN "FINALIZE" ELSE "ENSURE_ACTIVE_PROCESS",
           [graph EXCEPT !.health = health, !.message = (health = "recover")])

-----------------------------------------------------------------------------
(* ENSURE_ACTIVE_PROCESS: carry through what an earlier attempt has left, or start. *)

OwnSummary == Last > 0 /\ processes[Last].summary # "none"
\* The outcome that a summary of this cycle promised, now the status of its process.
CarriedThrough == Ended(processes, Last, processes[Last].summary)

AwaitsSuccessorBug(rows) == FALSE
AwaitsSuccessor(rows) == Len(rows) > 0 /\ rows[Len(rows)].status = "SUPERSEDED"

\* The last process succeeded one that this cycle has summarised.
Recovers ==
  /\ HasPredecessor(Last) /\ processes[Last].status = "ACTIVE"
  /\ processes[Last - 1].summary # "none"

\* With every summary of the cycle carried through, the processes that the node goes on with.
Settled == IF OwnSummary THEN CarriedThrough ELSE processes
Completed == OwnSummary /\ ~AwaitsSuccessor(Settled)
Ensured ==
  IF Completed \/ (Last > 0 /\ Settled[Last].status = "ACTIVE") THEN Settled
  ELSE Started(Settled)

EnsureActiveProcess ==
  /\ node = "ENSURE_ACTIVE_PROCESS"
  /\ processes' = Ensured
  /\ Go(IF Completed THEN "FINALIZE" ELSE "LOAD_PROCESS_CONTEXT",
        [graph EXCEPT !.active = Len(Ensured),
                      !.reload = IF ~Completed /\ (AwaitsSuccessor(Settled) \/ Recovers)
                                 THEN "new_process" ELSE "none"])
  /\ UNCHANGED <<asked, delivery>>

-----------------------------------------------------------------------------
(* LOAD_PROCESS_CONTEXT *)

AfterReload ==
  [memory_update |-> "SUPERVISION_DECISION", new_process |-> "EXTRACT_MEMORY_CANDIDATES",
   none |-> "ASSESS_PROCESS_CONTINUITY"]

RouteBug ==
  IF graph.health = "recover" /\ graph.reload = "none" THEN "SEND_INTERVENTION"
  ELSE AfterReload[graph.reload]
RouteAgainBug ==
  IF graph.health = "recover" THEN "SEND_INTERVENTION"
  ELSE AfterReload[IF graph.reload = "new_process" THEN "none" ELSE graph.reload]
\* A recovery comes before whatever the context was loaded again for.
Route ==
  IF graph.health = "recover" THEN "SEND_INTERVENTION" ELSE AfterReload[graph.reload]

\* The newest page of each category, and whether there is anything beside the process.
Snapshot(p) ==
  [process |-> p, remembered |-> processes[p].remembered, size |-> processes[p].size,
   related |-> HasPredecessor(p) \/ processes[p].summary # "none"]

LoadProcessContext ==
  /\ node = "LOAD_PROCESS_CONTEXT"
  /\ Think(Route, [graph EXCEPT !.context = Snapshot(graph.active), !.reload = "none"])

-----------------------------------------------------------------------------
(* Continuity and the memory update. *)

AssessProcessContinuity ==
  /\ node = "ASSESS_PROCESS_CONTINUITY"
  /\ \/ Think("EXTRACT_MEMORY_CANDIDATES", [graph EXCEPT !.continuity = "SAME_PROCESS"])
     \/ Think("WRITE_PROCESS_SUMMARY", [graph EXCEPT !.continuity = "NEW_PROCESS",
                                                    !.predecessor = graph.active])

AfterThinking ==
  [EXTRACT_MEMORY_CANDIDATES |-> "CURATE_MEMORY_CANDIDATES",
   CURATE_MEMORY_CANDIDATES |-> "MATERIALIZE_MEMORIES",
   MATERIALIZE_MEMORIES |-> "APPLY_MEMORY_UPDATE"]

ProposeMemories ==
  /\ node \in DOMAIN AfterThinking
  /\ Think(AfterThinking[node], graph)

AfterApplyBug == "SUPERVISION_DECISION"
AfterApply == "LOAD_PROCESS_CONTEXT"

ApplyMemoryUpdate ==
  /\ node = "APPLY_MEMORY_UPDATE"
  /\ \E kept \in SUBSET Categories :
       processes' = [Grown(graph.active, kept) EXCEPT ![graph.active].remembered = TRUE]
  /\ Go(AfterApply, [graph EXCEPT !.reload = "memory_update"])
  /\ UNCHANGED <<asked, delivery>>

-----------------------------------------------------------------------------
(* SUPERVISION_DECISION and EXPAND_GRAPH. Memories of a category are numbered *)
(* from the oldest; a search answers the newest first.                        *)

PageBug(size, k) == {i \in 1 .. size : size - (k + 2) * PageSize < i /\ i <= size - (k + 1) * PageSize}
\* The memories at offset k * PageSize.
Page(size, k) == {i \in 1 .. size : size - (k + 1) * PageSize < i /\ i <= size - k * PageSize}

Loaded(c) == {i \in 1 .. graph.context.size[c] : i > graph.context.size[c] - PageSize}
Seen(c) == Loaded(c) \cup graph.view.pages[c]

\* What may ground an intervention: EVIDENCE memories, loaded or paged in.
Evidence == Seen("EVIDENCE")

\* Jev's action is authoritative, except that memory is not expanded beyond MaxDepth and
\* that a process is not closed on a doubtful or superseding outcome.
Selected(proposed, confident, likely, outcome, sure) ==
  IF proposed = "NEED_MORE_MEMORY" /\ graph.depth >= MaxDepth
  THEN IF graph.depth >= 3 /\ confident /\ likely /\ Evidence # {} THEN "INTERVENE" ELSE "CONTINUE"
  ELSE IF proposed = "CLOSE_PROCESS" /\ (~sure \/ outcome = "SUPERSEDED") THEN "CONTINUE"
  ELSE proposed

\* The decision of an action: an intervention names one to three of the evidence memories.
Decisions(action, outcome) ==
  LET chosen == {s \in SUBSET Evidence : Cardinality(s) \in 1 .. 3}
  IN  {[action |-> action,
        outcome |-> IF action = "CLOSE_PROCESS" THEN outcome ELSE "none",
        evidence |-> e] : e \in IF action = "INTERVENE" THEN chosen ELSE {{}}}

AfterDecision ==
  [CONTINUE |-> "FINALIZE", NEED_MORE_MEMORY |-> "EXPAND_GRAPH",
   INTERVENE |-> "BUILD_INTERVENTION", CLOSE_PROCESS |-> "WRITE_PROCESS_SUMMARY"]

Question == <<graph.context, graph.view>>

SupervisionDecision ==
  /\ node = "SUPERVISION_DECISION"
  /\ graph.depth \in 0 .. MaxDepth
  /\ \E proposed \in Actions, outcome \in Outcomes, confident, likely, sure \in BOOLEAN :
       \E d \in Decisions(Selected(proposed, confident, likely, outcome, sure), outcome) :
         Go(AfterDecision[d.action], [graph EXCEPT !.decision = d])
  /\ asked' = asked \cup {Question}
  /\ UNCHANGED <<processes, delivery>>

\* Categories that have more than the pages read so far.
Unread == {c \in Categories : graph.context.size[c] > PageSize /\ ~graph.exhausted[c]}
NextPage(c) == Page(processes[graph.active].size[c], graph.depth + 1)

\* The requested memories are all in the context; what surrounds them is read one relation
\* further at each depth, with the memories of the next page and, once, related processes.
Expanded ==
  LET scoped == \E c \in Categories : Seen(c) # {}
      further == IF graph.depth + 1 < reach THEN graph.depth + 1 ELSE reach
  IN  [pages |-> [c \in Categories |->
                    graph.view.pages[c] \cup IF c \in Unread THEN NextPage(c) ELSE {}],
       radius |-> IF scoped THEN 1 + further ELSE 0,
       related |-> graph.context.related]

UnchangedBug == graph.depth + 1 > MaxDepth
Unchanged == Expanded = graph.view

CanExpand == graph.decision.action = "NEED_MORE_MEMORY" /\ graph.depth < MaxDepth

ExpandGraph ==
  /\ node = "EXPAND_GRAPH" /\ CanExpand
  /\ Think(IF Unchanged THEN "FINALIZE" ELSE "SUPERVISION_DECISION",
           [graph EXCEPT
              !.depth = @ + 1, !.view = Expanded,
              !.exhausted = [c \in Categories |->
                 @[c] \/ (c \in Unread /\ Cardinality(NextPage(c)) < PageSize)]])

-----------------------------------------------------------------------------
(* Interventions. How the queue delivers one is the subject of Interventions. *)

CanBuild ==
  /\ graph.decision.action = "INTERVENE"
  /\ graph.decision.evidence # {} /\ graph.decision.evidence \subseteq Evidence

BuildIntervention ==
  /\ node = "BUILD_INTERVENTION" /\ CanBuild
  /\ Think("SEND_INTERVENTION", [graph EXCEPT !.message = TRUE])

\* The message is durable under the key of the cycle, and so is not knowing its fate.
Deliveries == IF delivery = "none" THEN {"known", "unknown"} ELSE {delivery}

SendIntervention ==
  /\ node = "SEND_INTERVENTION" /\ graph.message
  /\ delivery' \in Deliveries
  /\ Go("RECORD_INTERVENTION", graph)
  /\ UNCHANGED <<asked, processes>>

RecordIntervention ==
  /\ node = "RECORD_INTERVENTION" /\ delivery = "known"
  /\ Think("FINALIZE", graph)

-----------------------------------------------------------------------------
(* Ending the process, with a successor when the continuity asks for one. *)

Pivot == graph.continuity = "NEW_PROCESS"
PlannedOutcome == IF Pivot THEN "SUPERSEDED" ELSE graph.decision.outcome

WriteProcessSummary ==
  /\ node = "WRITE_PROCESS_SUMMARY" /\ PlannedOutcome \in Outcomes
  /\ Think("CLOSE_CURRENT_PROCESS", [graph EXCEPT !.summary = PlannedOutcome])

CanClose ==
  /\ graph.summary \in Outcomes
  /\ IF Pivot THEN graph.summary = "SUPERSEDED" ELSE TRUE
  /\ processes[graph.active].status \in {"ACTIVE", graph.summary}

Summarised == [processes EXCEPT ![graph.active].summary = graph.summary]
Closed == Ended(Summarised, graph.active, graph.summary)

CloseCurrentProcess ==
  /\ node = "CLOSE_CURRENT_PROCESS" /\ CanClose
  /\ processes' = Closed
  /\ Go(IF Pivot THEN "START_NEW_PROCESS" ELSE "FINALIZE", graph)
  /\ UNCHANGED <<asked, delivery>>

CanStart ==
  /\ graph.predecessor = graph.active
  /\ processes[graph.active].status = "SUPERSEDED"

AfterStartBug ==
  [graph EXCEPT !.active = Last + 1, !.reload = "new_process",
                !.predecessor = 0, !.depth = 0, !.view = NoView, !.summary = "none"]
\* What the graph state keeps of the process that ended: nothing.
AfterStart ==
  [graph EXCEPT !.active = Last + 1, !.reload = "new_process", !.continuity = "none",
                !.predecessor = 0, !.depth = 0, !.view = NoView, !.summary = "none",
                !.exhausted = [c \in Categories |-> FALSE]]

StartNewProcess ==
  /\ node = "START_NEW_PROCESS" /\ CanStart
  /\ processes' = Started(processes)
  /\ Go("LOAD_PROCESS_CONTEXT", AfterStart)
  /\ UNCHANGED <<asked, delivery>>

\* FINALIZE acknowledges the cohort and clears the graph state.
Finalize ==
  /\ node = "FINALIZE"
  /\ Think("END", Fresh)

-----------------------------------------------------------------------------
(* Interruptions: an error of a call, an answer that a node rejects, a check of *)
(* a node that fails, the recursion limit, a cancellation or a crash.           *)

\* The processes as an interrupted node may leave them: its writes up to some call.
Partial ==
  {processes} \cup
  CASE node = "ENSURE_ACTIVE_PROCESS" -> {Settled, Ensured}
    [] node = "APPLY_MEMORY_UPDATE" -> {Grown(graph.active, kept) : kept \in SUBSET Categories}
    [] node = "CLOSE_CURRENT_PROCESS" /\ CanClose -> {Summarised, Closed}
    [] node = "START_NEW_PROCESS" /\ CanStart -> {Started(processes)}
    [] OTHER -> {}

\* The node raises. A memory that it was creating may still arrive later.
Interrupt ==
  /\ node \notin Done
  /\ node' = IF attempts = MaxAttempts THEN "FAILED" ELSE "READ_INBOX"
  /\ attempts' = IF attempts = MaxAttempts THEN attempts ELSE attempts + 1
  /\ graph' = Fresh /\ steps' = 0 /\ asked' = {}
  /\ processes' \in Partial
  /\ delivery' \in {delivery} \cup IF node = "SEND_INTERVENTION" THEN Deliveries ELSE {}
  /\ late' \in {late} \cup IF node = "APPLY_MEMORY_UPDATE" THEN {graph.active} ELSE {}
  /\ UNCHANGED cohort

\* The Memory MCP executes a create whose caller gave up.
Land ==
  /\ late # 0 /\ late' = 0
  /\ \E c \in Categories : processes' = Grown(late, {c})
  /\ UNCHANGED <<node, graph, steps, asked, attempts, delivery, cohort>>

Next ==
  \/ ReadInbox \/ AssessAgentHealth \/ EnsureActiveProcess \/ LoadProcessContext
  \/ AssessProcessContinuity \/ ProposeMemories \/ ApplyMemoryUpdate
  \/ SupervisionDecision \/ ExpandGraph
  \/ BuildIntervention \/ SendIntervention \/ RecordIntervention
  \/ WriteProcessSummary \/ CloseCurrentProcess \/ StartNewProcess \/ Finalize
  \/ Interrupt \/ Land

Spec == Init /\ [][Next]_vars

-----------------------------------------------------------------------------
(* Properties *)

Nodes == {"READ_INBOX", "ASSESS_AGENT_HEALTH", "ENSURE_ACTIVE_PROCESS", "LOAD_PROCESS_CONTEXT",
          "ASSESS_PROCESS_CONTINUITY", "EXTRACT_MEMORY_CANDIDATES", "CURATE_MEMORY_CANDIDATES",
          "MATERIALIZE_MEMORIES", "APPLY_MEMORY_UPDATE", "SUPERVISION_DECISION", "EXPAND_GRAPH",
          "BUILD_INTERVENTION", "SEND_INTERVENTION", "RECORD_INTERVENTION",
          "WRITE_PROCESS_SUMMARY", "CLOSE_CURRENT_PROCESS", "START_NEW_PROCESS", "FINALIZE"}

\* Every row and every field of the graph state keeps its shape, the depth of the expansion
\* stays within its limit, and only the last process of the session is ACTIVE.
TypeOK ==
  /\ node \in Nodes \cup Done /\ attempts \in 1 .. MaxAttempts
  /\ \A p \in DOMAIN processes :
       /\ processes[p].status \in Outcomes \cup {"ACTIVE"}
       /\ processes[p].summary \in Outcomes \cup {"none"}
       /\ processes[p].status = "ACTIVE" => p = Last
  /\ delivery \in {"none", "known", "unknown"}
  /\ graph.active \in {0, Last} /\ graph.depth \in 0 .. MaxDepth
  /\ \A c \in Categories : graph.view.pages[c] \subseteq Nat

\* The checks that nodes make of each other's results never fail: what the graph state holds
\* when a node is reached is what the node requires, along every path through the graph.
ContractsHold ==
  /\ node = "SUPERVISION_DECISION" => graph.depth \in 0 .. MaxDepth
  /\ node = "EXPAND_GRAPH" => CanExpand
  /\ node = "BUILD_INTERVENTION" => CanBuild
  /\ node = "SEND_INTERVENTION" => graph.message
  /\ node = "WRITE_PROCESS_SUMMARY" => PlannedOutcome \in Outcomes
  /\ node = "CLOSE_CURRENT_PROCESS" => CanClose
  /\ node = "START_NEW_PROCESS" => CanStart

\* The longest path, a pivot followed by every expansion and an intervention, acknowledges
\* its events before the graph has run the number of nodes at which the library stops it.
WithinLimit == node \notin Done => steps < RecursionLimit

UsesContext == {"ASSESS_PROCESS_CONTINUITY", "EXTRACT_MEMORY_CANDIDATES",
                "CURATE_MEMORY_CANDIDATES", "MATERIALIZE_MEMORIES", "APPLY_MEMORY_UPDATE",
                "SUPERVISION_DECISION", "EXPAND_GRAPH", "BUILD_INTERVENTION", "SEND_INTERVENTION",
                "WRITE_PROCESS_SUMMARY", "CLOSE_CURRENT_PROCESS"}
\* A node that reads the process context reads that of the active process, loaded after the
\* last memory update that the cycle has applied to it.
ContextIsCurrent ==
  node \in UsesContext =>
    /\ graph.context.process = graph.active
    /\ graph.context.remembered = processes[graph.active].remembered

\* An attempt never puts the same context and the same expansion to Jev twice.
AsksSomethingNew == node = "SUPERVISION_DECISION" => Question \notin asked

\* The memories that a review has seen of a category have no gap, although each expansion
\* reads one more page by its offset and memories may arrive in between; a category that is
\* taken for exhausted has been seen down to its oldest memory.
NoPageSkipped ==
  \A c \in Categories :
    /\ \A i, j \in Seen(c) : (i .. j) \subseteq Seen(c)
    /\ graph.exhausted[c] => 1 \in Seen(c)

\* Events that report an internal error of the agent are acknowledged only after its recovery
\* message was queued or delivered, whatever earlier attempts have left behind.
RecoveryIsDelivered == node = "END" /\ health = "recover" => delivery = "known"

\* Other events are acknowledged only after their memories were written to the process that
\* the session is left in, even if attempts differ in whether and how they end a process.
AcknowledgedIsRemembered == node = "END" /\ health = "normal" => processes[Last].remembered
==============================================================================
