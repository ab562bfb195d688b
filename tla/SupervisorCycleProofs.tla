----------------------- MODULE SupervisorCycleProofs -----------------------
(* Safety of SupervisorCycle for every depth of the expansion, every page   *)
(* size, any number of attempts and any memories of the session.            *)
EXTENDS SupervisorCycle, FiniteSetTheorems, SequenceTheorems, TLAPS

Row == [status : Outcomes \cup {"ACTIVE"}, summary : Outcomes \cup {"none"},
        remembered : BOOLEAN, size : [Categories -> Nat]]

\* Only the last process can be ACTIVE.
Sessions == {rows \in Seq(Row) : \A p \in DOMAIN rows : rows[p].status = "ACTIVE" => p = Len(rows)}

Contexts == [process : Nat, remembered : BOOLEAN, size : [Categories -> Nat], related : BOOLEAN]
Views == [pages : [Categories -> SUBSET Nat], radius : Nat, related : BOOLEAN]
DecisionRecords == [action : Actions \cup {"none"}, outcome : Outcomes \cup {"none"},
                    evidence : SUBSET Nat]

GraphStates ==
  [active : Nat, health : {"none", "heartbeat", "recover", "normal"},
   reload : {"none", "memory_update", "new_process"}, context : Contexts,
   continuity : {"none", "SAME_PROCESS", "NEW_PROCESS"}, predecessor : Nat,
   depth : 0 .. MaxDepth, view : Views, exhausted : [Categories -> BOOLEAN],
   decision : DecisionRecords, summary : Outcomes \cup {"none"}, message : BOOLEAN]

Shapes ==
  /\ node \in Nodes \cup Done /\ graph \in GraphStates /\ steps \in Nat
  /\ attempts \in 1 .. MaxAttempts /\ processes \in Sessions
  /\ delivery \in {"none", "known", "unknown"} /\ late \in Nat
  /\ health \in {"heartbeat", "recover", "normal"} /\ reach \in Nat

\* Nodes that run before the active process is known, and the ends of an attempt.
Early == {"READ_INBOX", "ASSESS_AGENT_HEALTH", "ENSURE_ACTIVE_PROCESS"}
Ends == Done \cup {"FINALIZE"}
Ending == {"WRITE_PROCESS_SUMMARY", "CLOSE_CURRENT_PROCESS", "START_NEW_PROCESS"}

\* The active process is the last one, and ACTIVE until CLOSE_CURRENT_PROCESS has run.
ProcessHeld ==
  /\ node \in Early => graph.active = 0
  /\ node \notin Early \cup Ends =>
       /\ graph.active = Len(processes) /\ graph.active > 0
       /\ processes[graph.active].status =
            IF node = "START_NEW_PROCESS" THEN "SUPERSEDED" ELSE "ACTIVE"
  /\ graph.active \in {0, Len(processes)}

\* A decision for a new process is in the graph state only while the process is being ended
\* and succeeded; without it, the decision of the review tells the outcome.
TransitionHeld ==
  /\ Pivot => node \in Ending /\ graph.predecessor = graph.active
  /\ node = "START_NEW_PROCESS" => Pivot
  /\ node = "WRITE_PROCESS_SUMMARY" /\ ~Pivot => graph.decision.outcome \in Outcomes
  /\ node = "CLOSE_CURRENT_PROCESS" =>
       graph.summary \in Outcomes /\ (Pivot => graph.summary = "SUPERSEDED")

\* What the other nodes require of the graph state.
DecisionHeld ==
  /\ node = "EXPAND_GRAPH" => CanExpand
  /\ node = "BUILD_INTERVENTION" => CanBuild
  /\ graph.health = "recover" \/ node = "SEND_INTERVENTION" => graph.message

\* Nodes run so far: a pivot comes before the review, and each expansion adds two nodes to it.
StepsCounted ==
  /\ node = "READ_INBOX" => steps = 0
  /\ node = "ASSESS_AGENT_HEALTH" => steps <= 1
  /\ node = "ENSURE_ACTIVE_PROCESS" => steps <= 2
  /\ node = "LOAD_PROCESS_CONTEXT" =>
       steps <= (IF graph.reload = "none" THEN 3 ELSE IF graph.reload = "new_process" THEN 8 ELSE 13)
  /\ node = "ASSESS_PROCESS_CONTINUITY" => steps <= 4
  /\ node = "START_NEW_PROCESS" => steps <= 7
  /\ node = "EXTRACT_MEMORY_CANDIDATES" => steps <= 9
  /\ node = "CURATE_MEMORY_CANDIDATES" => steps <= 10
  /\ node = "MATERIALIZE_MEMORIES" => steps <= 11
  /\ node = "APPLY_MEMORY_UPDATE" => steps <= 12
  /\ node = "SUPERVISION_DECISION" => steps <= 14 + 2 * graph.depth
  /\ node \in {"EXPAND_GRAPH", "BUILD_INTERVENTION"} => steps <= 15 + 2 * graph.depth
  /\ node = "SEND_INTERVENTION" => steps <= 16 + 2 * graph.depth
  /\ node = "RECORD_INTERVENTION" => steps <= 17 + 2 * graph.depth
  /\ node = "FINALIZE" => steps <= 18 + 2 * graph.depth
  /\ node = "WRITE_PROCESS_SUMMARY" => steps <= (IF Pivot THEN 5 ELSE 15 + 2 * graph.depth)
  /\ node = "CLOSE_CURRENT_PROCESS" => steps <= (IF Pivot THEN 6 ELSE 16 + 2 * graph.depth)

IInv ==
  Shapes /\ ProcessHeld /\ TransitionHeld /\ DecisionHeld /\ StepsCounted /\ ContextIsCurrent

-----------------------------------------------------------------------------
(* The processes of the session. *)

LEMMA StartedKeeps ==
  ASSUME NEW rows \in Sessions, rows # <<>> => rows[Len(rows)].status # "ACTIVE"
  PROVE  /\ Started(rows) \in Sessions /\ Len(Started(rows)) = Len(rows) + 1
         /\ Started(rows)[Len(rows) + 1].status = "ACTIVE"
         /\ Started(rows)[Len(rows) + 1].remembered = FALSE
         /\ Started(rows)[Len(rows) + 1].summary = "none"
         /\ \A p \in DOMAIN rows : Started(rows)[p] = rows[p]
<1> DEFINE row == Process("ACTIVE", Empty)
<1>1. row \in Row /\ row.status = "ACTIVE" /\ row.remembered = FALSE /\ row.summary = "none"
  BY DEF Process, Empty, Row
<1>2. Started(rows) = Append(rows, row)
  BY DEF Started
<1> HIDE DEF row
<1>3. rows \in Seq(Row) /\ \A p \in DOMAIN rows : rows[p].status = "ACTIVE" => p = Len(rows)
  BY DEF Sessions
<1>4. /\ Append(rows, row) \in Seq(Row) /\ Len(Append(rows, row)) = Len(rows) + 1
      /\ Append(rows, row)[Len(rows) + 1] = row
      /\ \A p \in 1 .. Len(rows) : Append(rows, row)[p] = rows[p]
  BY <1>1, <1>3
<1>5. \A p \in 1 .. Len(rows) : rows[p].status # "ACTIVE"
  BY <1>3
<1>6. \A p \in 1 .. Len(rows) + 1 : Append(rows, row)[p].status = "ACTIVE" => p = Len(rows) + 1
  BY <1>3, <1>4, <1>5
<1>7. DOMAIN Append(rows, row) = 1 .. Len(rows) + 1
  BY <1>1, <1>3
<1>8. Append(rows, row) \in Sessions
  BY <1>4, <1>6, <1>7 DEF Sessions
<1> QED
  BY <1>1, <1>2, <1>3, <1>4, <1>8

\* Rewriting the row of a process keeps the sequence, if it does not make an ended one ACTIVE.
LEMMA RowRewritten ==
  ASSUME NEW rows \in Sessions, NEW p \in DOMAIN rows, NEW row \in Row,
         row.status = "ACTIVE" => rows[p].status = "ACTIVE"
  PROVE  /\ [rows EXCEPT ![p] = row] \in Sessions
         /\ Len([rows EXCEPT ![p] = row]) = Len(rows)
         /\ [rows EXCEPT ![p] = row][p] = row
<1> DEFINE new == [rows EXCEPT ![p] = row]
<1>1. rows \in Seq(Row) /\ \A q \in DOMAIN rows : rows[q].status = "ACTIVE" => q = Len(rows)
  BY DEF Sessions
<1>2. new \in Seq(Row) /\ Len(new) = Len(rows) /\ DOMAIN new = DOMAIN rows
  BY <1>1
<1>3. \A q \in DOMAIN rows : new[q] = IF q = p THEN row ELSE rows[q]
  BY <1>1
<1>4. \A q \in DOMAIN new : new[q].status = "ACTIVE" => q = Len(new)
  BY <1>1, <1>2, <1>3
<1> QED
  BY <1>2, <1>3, <1>4 DEF Sessions

LEMMA EndedKeeps ==
  ASSUME NEW rows \in Sessions, NEW p \in DOMAIN rows, NEW o \in Outcomes
  PROVE  /\ Ended(rows, p, o) \in Sessions /\ Len(Ended(rows, p, o)) = Len(rows)
         /\ Ended(rows, p, o)[p].status = o
         /\ \A q \in DOMAIN rows : /\ Ended(rows, p, o)[q].summary = rows[q].summary
                                   /\ Ended(rows, p, o)[q].remembered = rows[q].remembered
<1> DEFINE row == [rows[p] EXCEPT !.status = o]
<1>1. rows[p] \in Row
  BY DEF Sessions
<1>2. /\ row \in Row /\ row.status = o /\ o # "ACTIVE"
      /\ row.remembered = rows[p].remembered /\ row.summary = rows[p].summary
  BY <1>1 DEF Row, Outcomes, Final
<1>3. Ended(rows, p, o) = [rows EXCEPT ![p] = row]
  BY DEF Ended
<1> HIDE DEF row
<1>4. /\ [rows EXCEPT ![p] = row] \in Sessions
      /\ Len([rows EXCEPT ![p] = row]) = Len(rows)
      /\ [rows EXCEPT ![p] = row][p] = row
  BY <1>2, RowRewritten
<1>5. \A q \in DOMAIN rows : [rows EXCEPT ![p] = row][q] = IF q = p THEN row ELSE rows[q]
  BY DEF Sessions
<1> QED
  BY <1>2, <1>3, <1>4, <1>5

LEMMA GrownKeeps ==
  ASSUME processes \in Sessions, NEW p \in Nat, NEW kept
  PROVE  /\ Grown(p, kept) \in Sessions /\ Len(Grown(p, kept)) = Len(processes)
         /\ \A q \in DOMAIN processes :
              /\ Grown(p, kept)[q].status = processes[q].status
              /\ Grown(p, kept)[q].summary = processes[q].summary
              /\ Grown(p, kept)[q].remembered = processes[q].remembered
              /\ \A c \in Categories :
                   LET size == processes[q].size[c] IN
                   Grown(p, kept)[q].size[c] \in {size, size + 1}
<1> DEFINE row == [processes[p] EXCEPT !.size =
                     [c \in Categories |-> @[c] + IF c \in kept THEN 1 ELSE 0]]
<1>1. Grown(p, kept) = [processes EXCEPT ![p] = row]
  BY DEF Grown
<1>2. processes \in Seq(Row)
  BY DEF Sessions
<1>3. CASE p \notin DOMAIN processes
  <2>1. [processes EXCEPT ![p] = row] = processes
    BY <1>2, <1>3
  <2> QED
    BY <1>1, <2>1
<1>4. CASE p \in DOMAIN processes
  <2>1. processes[p] \in Row
    BY <1>2, <1>4
  <2>2. /\ row \in Row /\ row.status = processes[p].status
        /\ row.summary = processes[p].summary /\ row.remembered = processes[p].remembered
        /\ \A c \in Categories : row.size[c] \in {processes[p].size[c], processes[p].size[c] + 1}
    BY <2>1 DEF Row
  <2> HIDE DEF row
  <2>3. /\ [processes EXCEPT ![p] = row] \in Sessions
        /\ Len([processes EXCEPT ![p] = row]) = Len(processes)
    BY <1>4, <2>2, RowRewritten
  <2>4. \A q \in DOMAIN processes :
          [processes EXCEPT ![p] = row][q] = IF q = p THEN row ELSE processes[q]
    BY <1>2
  <2> QED
    BY <1>1, <2>2, <2>3, <2>4
<1> QED
  BY <1>3, <1>4

-----------------------------------------------------------------------------
(* The initial states and the nodes that write nothing outside the graph state. *)

LEMMA FreshIsAState == Fresh \in GraphStates
  BY CycleAssumption DEF Fresh, GraphStates, NoContext, NoView, NoDecision, Contexts, Views,
    DecisionRecords, Empty

LEMMA Starts == Init => IInv
<1> SUFFICES ASSUME Init PROVE IInv
  OBVIOUS
<1> USE CycleAssumption DEF Init
<1>1. Fresh \in GraphStates
  BY FreshIsAState
<1>2. processes \in Sessions
  <2>1. \A st \in Outcomes \cup {"ACTIVE"}, sz \in Sizes \cup {Empty} :
          Process(st, sz) \in Row /\ Process(st, sz).status = st
    BY DEF Process, Row, Sizes, Empty
  <2>2. <<>> \in Sessions
    BY DEF Sessions
  <2>3. \A r \in Row : <<r>> \in Sessions
    BY DEF Sessions
  <2>4. \A r, q \in Row : r.status # "ACTIVE" => <<r, q>> \in Sessions
    BY DEF Sessions
  <2>5. Empty \in Sizes
    BY DEF Empty, Sizes
  <2> QED
    BY <2>1, <2>2, <2>3, <2>4, <2>5 DEF Outcomes, Final
<1>3. Shapes
  BY <1>1, <1>2 DEF Shapes, Nodes
<1> QED
  BY <1>3 DEF IInv, ProcessHeld, TransitionHeld, DecisionHeld, StepsCounted, ContextIsCurrent,
    Early, Ends, Done, Ending, UsesContext, Pivot, Fresh, NoDecision

-----------------------------------------------------------------------------
(* The invariant is kept by each node. A node that leaves the graph state   *)
(* otherwise alone disturbs only what depends on the node that runs next.   *)

LEMMA ReadInboxStep == IInv /\ ReadInbox => IInv'
<1> SUFFICES ASSUME IInv, ReadInbox PROVE IInv'
  OBVIOUS
<1> USE DEF IInv, ReadInbox, Think, Go, cohort
<1>1. Shapes'
  BY CycleAssumption DEF Shapes, GraphStates, Nodes, Done
<1>2. ProcessHeld'
  BY DEF Shapes, GraphStates, ProcessHeld, Early, Ends, Done
<1>3. TransitionHeld'
  BY DEF Shapes, GraphStates, TransitionHeld, Pivot, Ending
<1>4. DecisionHeld'
  BY DEF Shapes, GraphStates, DecisionHeld
<1>5. StepsCounted'
  BY CycleAssumption DEF Shapes, GraphStates, StepsCounted, Pivot, TransitionHeld, Ending
<1>6. ContextIsCurrent'
  BY DEF Shapes, GraphStates, ContextIsCurrent, UsesContext, ProcessHeld, Early, Ends, Done
<1> QED
  BY <1>1, <1>2, <1>3, <1>4, <1>5, <1>6

LEMMA AssessAgentHealthStep == IInv /\ AssessAgentHealth => IInv'
<1> SUFFICES ASSUME IInv, AssessAgentHealth PROVE IInv'
  OBVIOUS
<1> USE DEF IInv, AssessAgentHealth, Think, Go, cohort
<1>1. Shapes'
  <2> DEFINE m == (health = "recover")
  <2>1. m \in BOOLEAN
    OBVIOUS
  <2> HIDE DEF m
  <2>2. [graph EXCEPT !.health = health, !.message = m] \in GraphStates
    BY <2>1 DEF Shapes, GraphStates
  <2>3. graph' \in GraphStates
    BY <2>2 DEF m
  <2> QED
    BY <2>3, CycleAssumption DEF Shapes, Nodes, Done
<1>2. ProcessHeld'
  BY DEF Shapes, GraphStates, ProcessHeld, Early, Ends, Done
<1>3. TransitionHeld'
  BY DEF Shapes, GraphStates, TransitionHeld, Pivot, Ending
<1>4. DecisionHeld'
  BY DEF Shapes, GraphStates, DecisionHeld
<1>5. StepsCounted'
  BY CycleAssumption DEF Shapes, GraphStates, StepsCounted, Pivot, TransitionHeld, Ending
<1>6. ContextIsCurrent'
  BY DEF Shapes, GraphStates, ContextIsCurrent, UsesContext, ProcessHeld, Early, Ends, Done
<1> QED
  BY <1>1, <1>2, <1>3, <1>4, <1>5, <1>6

LEMMA LoadProcessContextStep == IInv /\ LoadProcessContext => IInv'
<1> SUFFICES ASSUME IInv, LoadProcessContext PROVE IInv'
  OBVIOUS
<1> USE DEF IInv, LoadProcessContext, Think, Go, cohort, Route, AfterReload
<1>1. Shapes'
  <2>1. Snapshot(graph.active) \in Contexts
    <3>1. /\ graph.active \in DOMAIN processes /\ processes \in Seq(Row)
      BY DEF Shapes, Sessions, ProcessHeld, Early, Ends, Done
    <3>2. processes[graph.active] \in Row
      BY <3>1
    <3> DEFINE r == HasPredecessor(graph.active) \/ processes[graph.active].summary # "none"
    <3>3. r \in BOOLEAN
      OBVIOUS
    <3> HIDE DEF r
    <3>4. [process |-> graph.active, remembered |-> processes[graph.active].remembered,
           size |-> processes[graph.active].size, related |-> r] \in Contexts
      BY <3>1, <3>2, <3>3 DEF Contexts, Row
    <3> QED
      BY <3>4 DEF Snapshot, r
  <2>2. graph' \in GraphStates
    BY <2>1 DEF Shapes, GraphStates
  <2>3. node' \in Nodes
    BY DEF Shapes, GraphStates, Nodes
  <2> QED
    BY <2>2, <2>3 DEF Shapes
<1>2. ProcessHeld'
  BY DEF Shapes, GraphStates, ProcessHeld, Early, Ends, Done
<1>3. TransitionHeld'
  BY DEF Shapes, GraphStates, TransitionHeld, Pivot, Ending
<1>4. DecisionHeld'
  BY DEF Shapes, GraphStates, DecisionHeld
<1>5. StepsCounted'
  BY CycleAssumption DEF Shapes, GraphStates, StepsCounted, Pivot, TransitionHeld, Ending
<1>6. ContextIsCurrent'
  BY DEF Shapes, GraphStates, ContextIsCurrent, UsesContext, ProcessHeld, Early, Ends, Done,
    Snapshot
<1> QED
  BY <1>1, <1>2, <1>3, <1>4, <1>5, <1>6

LEMMA AssessProcessContinuityStep == IInv /\ AssessProcessContinuity => IInv'
<1> SUFFICES ASSUME IInv, AssessProcessContinuity PROVE IInv'
  OBVIOUS
<1> USE DEF IInv, AssessProcessContinuity, Think, Go, cohort
<1>1. Shapes'
  <2>1. /\ [graph EXCEPT !.continuity = "SAME_PROCESS"] \in GraphStates
        /\ [graph EXCEPT !.continuity = "NEW_PROCESS", !.predecessor = graph.active] \in GraphStates
    BY DEF Shapes, GraphStates
  <2> QED
    BY <2>1 DEF Shapes, Nodes, Done
<1>2. ProcessHeld'
  BY DEF Shapes, GraphStates, ProcessHeld, Early, Ends, Done
<1>3. TransitionHeld'
  BY DEF Shapes, GraphStates, TransitionHeld, Pivot, Ending
<1>4. DecisionHeld'
  BY DEF Shapes, GraphStates, DecisionHeld
<1>5. StepsCounted'
  <2>1. steps \in Nat /\ steps <= 4 /\ steps' = steps + 1
    BY DEF Shapes, StepsCounted
  <2>2. CASE node' = "EXTRACT_MEMORY_CANDIDATES"
    BY <2>1, <2>2 DEF StepsCounted
  <2>3. CASE node' = "WRITE_PROCESS_SUMMARY"
    <3>1. Pivot'
      BY <2>3 DEF Shapes, GraphStates, Pivot
    <3> QED
      BY <2>1, <2>3, <3>1 DEF StepsCounted
  <2> QED
    BY <2>2, <2>3
<1>6. ContextIsCurrent'
  BY DEF Shapes, GraphStates, ContextIsCurrent, UsesContext, ProcessHeld, Early, Ends, Done
<1> QED
  BY <1>1, <1>2, <1>3, <1>4, <1>5, <1>6

LEMMA ProposeMemoriesStep == IInv /\ ProposeMemories => IInv'
<1> SUFFICES ASSUME IInv, ProposeMemories PROVE IInv'
  OBVIOUS
<1> USE DEF IInv, ProposeMemories, Think, Go, cohort, AfterThinking
<1>1. Shapes'
  BY CycleAssumption DEF Shapes, GraphStates, Nodes, Done
<1>2. ProcessHeld'
  BY DEF Shapes, GraphStates, ProcessHeld, Early, Ends, Done
<1>3. TransitionHeld'
  BY DEF Shapes, GraphStates, TransitionHeld, Pivot, Ending
<1>4. DecisionHeld'
  BY DEF Shapes, GraphStates, DecisionHeld
<1>5. StepsCounted'
  BY CycleAssumption DEF Shapes, GraphStates, StepsCounted, Pivot, TransitionHeld, Ending
<1>6. ContextIsCurrent'
  BY DEF Shapes, GraphStates, ContextIsCurrent, UsesContext, ProcessHeld, Early, Ends, Done
<1> QED
  BY <1>1, <1>2, <1>3, <1>4, <1>5, <1>6

LEMMA BuildInterventionStep == IInv /\ BuildIntervention => IInv'
<1> SUFFICES ASSUME IInv, BuildIntervention PROVE IInv'
  OBVIOUS
<1> USE DEF IInv, BuildIntervention, Think, Go, cohort
<1>1. Shapes'
  <2>1. [graph EXCEPT !.message = TRUE] \in GraphStates
    BY DEF Shapes, GraphStates
  <2> QED
    BY <2>1 DEF Shapes, Nodes, Done
<1>2. ProcessHeld'
  BY DEF Shapes, GraphStates, ProcessHeld, Early, Ends, Done
<1>3. TransitionHeld'
  BY DEF Shapes, GraphStates, TransitionHeld, Pivot, Ending
<1>4. DecisionHeld'
  BY DEF Shapes, GraphStates, DecisionHeld
<1>5. StepsCounted'
  BY CycleAssumption DEF Shapes, GraphStates, StepsCounted, Pivot, TransitionHeld, Ending
<1>6. ContextIsCurrent'
  BY DEF Shapes, GraphStates, ContextIsCurrent, UsesContext, ProcessHeld, Early, Ends, Done
<1> QED
  BY <1>1, <1>2, <1>3, <1>4, <1>5, <1>6

LEMMA RecordInterventionStep == IInv /\ RecordIntervention => IInv'
<1> SUFFICES ASSUME IInv, RecordIntervention PROVE IInv'
  OBVIOUS
<1> USE DEF IInv, RecordIntervention, Think, Go, cohort
<1>1. Shapes'
  BY CycleAssumption DEF Shapes, GraphStates, Nodes, Done
<1>2. ProcessHeld'
  BY DEF Shapes, GraphStates, ProcessHeld, Early, Ends, Done
<1>3. TransitionHeld'
  BY DEF Shapes, GraphStates, TransitionHeld, Pivot, Ending
<1>4. DecisionHeld'
  BY DEF Shapes, GraphStates, DecisionHeld
<1>5. StepsCounted'
  BY CycleAssumption DEF Shapes, GraphStates, StepsCounted, Pivot, TransitionHeld, Ending
<1>6. ContextIsCurrent'
  BY DEF Shapes, GraphStates, ContextIsCurrent, UsesContext, ProcessHeld, Early, Ends, Done
<1> QED
  BY <1>1, <1>2, <1>3, <1>4, <1>5, <1>6

LEMMA WriteProcessSummaryStep == IInv /\ WriteProcessSummary => IInv'
<1> SUFFICES ASSUME IInv, WriteProcessSummary PROVE IInv'
  OBVIOUS
<1> USE DEF IInv, WriteProcessSummary, Think, Go, cohort, PlannedOutcome
<1>1. Shapes'
  BY CycleAssumption DEF Shapes, GraphStates, Nodes, Done, Outcomes, Final
<1>2. ProcessHeld'
  BY DEF Shapes, GraphStates, ProcessHeld, Early, Ends, Done
<1>3. TransitionHeld'
  BY DEF Shapes, GraphStates, TransitionHeld, Pivot, Ending, Outcomes, Final
<1>4. DecisionHeld'
  BY DEF Shapes, GraphStates, DecisionHeld
<1>5. StepsCounted'
  BY CycleAssumption DEF Shapes, GraphStates, StepsCounted, Pivot, TransitionHeld, Ending
<1>6. ContextIsCurrent'
  BY DEF Shapes, GraphStates, ContextIsCurrent, UsesContext, ProcessHeld, Early, Ends, Done
<1> QED
  BY <1>1, <1>2, <1>3, <1>4, <1>5, <1>6

LEMMA FinalizeStep == IInv /\ Finalize => IInv'
<1> SUFFICES ASSUME IInv, Finalize PROVE IInv'
  OBVIOUS
<1> USE DEF IInv, Finalize, Think, Go, cohort
<1>1. Shapes'
  BY FreshIsAState DEF Shapes, Nodes, Done
<1>2. ProcessHeld'
  BY DEF Shapes, GraphStates, ProcessHeld, Early, Ends, Done, Fresh
<1>3. TransitionHeld'
  BY DEF Shapes, GraphStates, TransitionHeld, Pivot, Ending, Fresh, NoDecision
<1>4. DecisionHeld'
  BY DEF Shapes, GraphStates, DecisionHeld, Fresh
<1>5. StepsCounted'
  BY CycleAssumption DEF Shapes, GraphStates, StepsCounted, Pivot, TransitionHeld, Ending
<1>6. ContextIsCurrent'
  BY DEF Shapes, GraphStates, ContextIsCurrent, UsesContext, ProcessHeld, Early, Ends, Done
<1> QED
  BY <1>1, <1>2, <1>3, <1>4, <1>5, <1>6

LEMMA SendInterventionStep == IInv /\ SendIntervention => IInv'
<1> SUFFICES ASSUME IInv, SendIntervention PROVE IInv'
  OBVIOUS
<1> USE DEF IInv, SendIntervention, Think, Go, cohort, Deliveries
<1>1. Shapes'
  BY CycleAssumption DEF Shapes, GraphStates, Nodes, Done
<1>2. ProcessHeld'
  BY DEF Shapes, GraphStates, ProcessHeld, Early, Ends, Done
<1>3. TransitionHeld'
  BY DEF Shapes, GraphStates, TransitionHeld, Pivot, Ending
<1>4. DecisionHeld'
  BY DEF Shapes, GraphStates, DecisionHeld
<1>5. StepsCounted'
  BY CycleAssumption DEF Shapes, GraphStates, StepsCounted, Pivot, TransitionHeld, Ending
<1>6. ContextIsCurrent'
  BY DEF Shapes, GraphStates, ContextIsCurrent, UsesContext, ProcessHeld, Early, Ends, Done
<1> QED
  BY <1>1, <1>2, <1>3, <1>4, <1>5, <1>6

\* A memory update of the active process leaves every status alone.
LEMMA UpdateKeeps ==
  ASSUME processes \in Sessions, NEW p \in DOMAIN processes, NEW kept
  PROVE  LET new == [Grown(p, kept) EXCEPT ![p].remembered = TRUE]
         IN  /\ new \in Sessions /\ Len(new) = Len(processes)
             /\ new[p].status = processes[p].status /\ new[p].remembered = TRUE
             /\ \A q \in DOMAIN processes :
                  /\ new[q].summary = processes[q].summary
                  /\ processes[q].remembered => new[q].remembered
<1> DEFINE rows == Grown(p, kept)
           row == [rows[p] EXCEPT !.remembered = TRUE]
<1>1. processes \in Seq(Row) /\ p \in Nat
  BY DEF Sessions
<1>2. /\ rows \in Sessions /\ Len(rows) = Len(processes)
      /\ rows[p].status = processes[p].status
      /\ \A q \in DOMAIN processes : /\ rows[q].summary = processes[q].summary
                                     /\ rows[q].remembered = processes[q].remembered
  BY <1>1, GrownKeeps
<1> HIDE DEF rows
<1>3. p \in DOMAIN rows /\ rows[p] \in Row
  BY <1>1, <1>2 DEF Sessions
<1>4. /\ row \in Row /\ row.status = rows[p].status
      /\ row.summary = rows[p].summary /\ row.remembered = TRUE
  BY <1>3 DEF Row
<1> HIDE DEF row
<1>5. /\ [rows EXCEPT ![p] = row] \in Sessions
      /\ Len([rows EXCEPT ![p] = row]) = Len(rows)
      /\ [rows EXCEPT ![p] = row][p] = row
  BY <1>2, <1>3, <1>4, RowRewritten
<1>6. [rows EXCEPT ![p].remembered = TRUE] = [rows EXCEPT ![p] = row]
  BY DEF row
<1>7. /\ \A q \in DOMAIN rows : [rows EXCEPT ![p] = row][q] = IF q = p THEN row ELSE rows[q]
      /\ DOMAIN rows = DOMAIN processes
  BY <1>1, <1>2 DEF Sessions
<1> QED
  BY <1>2, <1>4, <1>5, <1>6, <1>7 DEF rows

LEMMA ApplyMemoryUpdateStep == IInv /\ ApplyMemoryUpdate => IInv'
<1> SUFFICES ASSUME IInv, ApplyMemoryUpdate PROVE IInv'
  OBVIOUS
<1> USE DEF IInv, ApplyMemoryUpdate, Think, Go, cohort, AfterApply
<1>0. /\ processes' \in Sessions /\ Len(processes') = Len(processes)
      /\ processes'[graph.active].status = processes[graph.active].status
  <2>1. graph.active \in DOMAIN processes /\ processes \in Sessions
    BY DEF Shapes, Sessions, ProcessHeld, Early, Ends, Done
  <2>2. PICK kept \in SUBSET Categories :
          processes' = [Grown(graph.active, kept) EXCEPT ![graph.active].remembered = TRUE]
    OBVIOUS
  <2> QED
    BY <2>1, <2>2, UpdateKeeps
<1>1. Shapes'
  <2>1. [graph EXCEPT !.reload = "memory_update"] \in GraphStates
    BY DEF Shapes, GraphStates
  <2> QED
    BY <1>0, <2>1 DEF Shapes, Nodes, Done
<1>2. ProcessHeld'
  BY <1>0 DEF Shapes, GraphStates, ProcessHeld, Early, Ends, Done
<1>3. TransitionHeld'
  BY DEF Shapes, GraphStates, TransitionHeld, Pivot, Ending
<1>4. DecisionHeld'
  BY DEF Shapes, GraphStates, DecisionHeld
<1>5. StepsCounted'
  BY CycleAssumption DEF Shapes, GraphStates, StepsCounted, Pivot, TransitionHeld, Ending
<1>6. ContextIsCurrent'
  BY DEF Shapes, GraphStates, ContextIsCurrent, UsesContext, ProcessHeld, Early, Ends, Done
<1> QED
  BY <1>1, <1>2, <1>3, <1>4, <1>5, <1>6

\* Summarising and closing a process keep the session well formed.
LEMMA ClosedKeeps ==
  ASSUME processes \in Sessions, graph.active \in DOMAIN processes, graph.summary \in Outcomes
  PROVE  /\ Summarised \in Sessions /\ Closed \in Sessions
         /\ Len(Closed) = Len(processes) /\ Closed[graph.active].status = graph.summary
         /\ DOMAIN Summarised = DOMAIN processes
         /\ \A q \in DOMAIN processes, rows \in {Summarised, Closed} :
              /\ rows[q].summary = IF q = graph.active THEN graph.summary ELSE processes[q].summary
              /\ rows[q].remembered = processes[q].remembered
<1> DEFINE p == graph.active
           row == [processes[p] EXCEPT !.summary = graph.summary]
<1>1. processes[p] \in Row
  BY DEF Sessions
<1>2. /\ row \in Row /\ row.status = processes[p].status
      /\ row.summary = graph.summary /\ row.remembered = processes[p].remembered
  BY <1>1 DEF Row
<1>3. Summarised = [processes EXCEPT ![p] = row]
  BY DEF Summarised
<1> HIDE DEF row
<1>4. Summarised \in Sessions /\ Len(Summarised) = Len(processes)
  <2>1. row.status = "ACTIVE" => processes[p].status = "ACTIVE"
    BY <1>2
  <2>2. /\ [processes EXCEPT ![p] = row] \in Sessions
        /\ Len([processes EXCEPT ![p] = row]) = Len(processes)
    BY <1>2, <2>1, RowRewritten
  <2> QED
    BY <1>3, <2>2
<1>5. /\ DOMAIN Summarised = DOMAIN processes
      /\ \A q \in DOMAIN processes : Summarised[q] = IF q = p THEN row ELSE processes[q]
  BY <1>3, <1>4 DEF Sessions
<1>6. /\ Closed \in Sessions /\ Len(Closed) = Len(Summarised)
      /\ Closed[p].status = graph.summary
      /\ \A q \in DOMAIN processes : /\ Closed[q].summary = Summarised[q].summary
                                     /\ Closed[q].remembered = Summarised[q].remembered
  <2>1. p \in DOMAIN Summarised /\ graph.summary \in Outcomes
    BY <1>5
  <2> DEFINE ended == Ended(Summarised, p, graph.summary)
  <2>2. /\ ended \in Sessions /\ Len(ended) = Len(Summarised)
        /\ ended[p].status = graph.summary
        /\ \A q \in DOMAIN Summarised : /\ ended[q].summary = Summarised[q].summary
                                        /\ ended[q].remembered = Summarised[q].remembered
    BY <1>4, <2>1, EndedKeeps
  <2> QED
    BY <1>5, <2>2 DEF Closed
<1> QED
  BY <1>2, <1>4, <1>5, <1>6

LEMMA CloseCurrentProcessStep == IInv /\ CloseCurrentProcess => IInv'
<1> SUFFICES ASSUME IInv, CloseCurrentProcess PROVE IInv'
  OBVIOUS
<1> USE DEF IInv, CloseCurrentProcess, Think, Go, cohort
<1>0. /\ processes' \in Sessions /\ Len(processes') = Len(processes)
      /\ processes'[graph.active].status = graph.summary
  <2>1. graph.active \in DOMAIN processes /\ processes \in Sessions
    BY DEF Shapes, Sessions, ProcessHeld, Early, Ends, Done
  <2>2. graph.summary \in Outcomes
    BY DEF CanClose
  <2> QED
    BY <2>1, <2>2, ClosedKeeps
<1>1. Shapes'
  BY <1>0 DEF Shapes, Nodes, Done
<1>2. ProcessHeld'
  BY <1>0 DEF Shapes, GraphStates, ProcessHeld, TransitionHeld, Pivot, Ending, Early, Ends, Done
<1>3. TransitionHeld'
  BY DEF Shapes, GraphStates, TransitionHeld, Pivot, Ending
<1>4. DecisionHeld'
  BY DEF Shapes, GraphStates, DecisionHeld
<1>5. StepsCounted'
  BY CycleAssumption DEF Shapes, GraphStates, StepsCounted, Pivot, TransitionHeld, Ending
<1>6. ContextIsCurrent'
  BY DEF Shapes, GraphStates, ContextIsCurrent, UsesContext, ProcessHeld, Early, Ends, Done
<1> QED
  BY <1>1, <1>2, <1>3, <1>4, <1>5, <1>6

LEMMA StartNewProcessStep == IInv /\ StartNewProcess => IInv'
<1> SUFFICES ASSUME IInv, StartNewProcess PROVE IInv'
  OBVIOUS
<1> USE DEF IInv, StartNewProcess, Think, Go, cohort
<1>0. /\ processes' \in Sessions /\ Len(processes') = Len(processes) + 1
      /\ processes'[Len(processes) + 1].status = "ACTIVE"
  BY StartedKeeps DEF Shapes, ProcessHeld, Early, Ends, Done, CanStart
<1>1. Shapes'
  <2> DEFINE unread == [c \in Categories |-> FALSE]
  <2>1. NoView \in Views /\ unread \in [Categories -> BOOLEAN] /\ Last + 1 \in Nat
    BY DEF NoView, Views, Shapes, Sessions, Last
  <2> HIDE DEF unread
  <2> DEFINE moved == [graph EXCEPT !.active = Last + 1, !.reload = "new_process",
                         !.continuity = "none", !.predecessor = 0]
  <2>2. moved \in GraphStates
    BY <2>1 DEF Shapes, GraphStates
  <2> HIDE DEF moved
  <2>3. [moved EXCEPT !.depth = 0, !.view = NoView, !.summary = "none",
                      !.exhausted = unread] \in GraphStates
    <3>1. 0 \in 0 .. MaxDepth /\ "none" \in Outcomes \cup {"none"}
      BY CycleAssumption
    <3>2. [moved EXCEPT !.depth = 0, !.summary = "none"] \in GraphStates
      BY <2>2, <3>1 DEF GraphStates
    <3> QED
      BY <2>1, <2>2, <3>1, <3>2 DEF GraphStates
  <2>4. AfterStart \in GraphStates
    BY <2>3 DEF AfterStart, unread, moved
  <2> QED
    BY <1>0, <2>4 DEF Shapes, Nodes, Done
<1>2. ProcessHeld'
  BY <1>0 DEF Shapes, GraphStates, ProcessHeld, Early, Ends, Done, AfterStart, Last, Sessions
<1>3. TransitionHeld'
  BY DEF Shapes, GraphStates, TransitionHeld, Pivot, Ending, AfterStart
<1>4. DecisionHeld'
  BY DEF Shapes, GraphStates, DecisionHeld, AfterStart
<1>5. StepsCounted'
  BY CycleAssumption DEF Shapes, GraphStates, StepsCounted, Pivot, TransitionHeld, Ending,
    AfterStart
<1>6. ContextIsCurrent'
  BY DEF Shapes, GraphStates, ContextIsCurrent, UsesContext, ProcessHeld, Early, Ends, Done
<1> QED
  BY <1>1, <1>2, <1>3, <1>4, <1>5, <1>6

\* ENSURE_ACTIVE_PROCESS ends with an ACTIVE process, unless it has carried an ending through.
LEMMA EnsuredKeeps ==
  ASSUME processes \in Sessions
  PROVE  /\ Settled \in Sessions /\ Ensured \in Sessions /\ Len(Ensured) \in Nat
         /\ ~Completed => Len(Ensured) > 0 /\ Ensured[Len(Ensured)].status = "ACTIVE"
         /\ Len(Settled) = Last /\ Len(Ensured) \in {Last, Last + 1}
         /\ Completed => Ensured = Settled
         /\ \A q \in DOMAIN Ensured :
              IF q \in DOMAIN processes
              THEN /\ Settled[q].summary = processes[q].summary
                   /\ Ensured[q].summary = processes[q].summary
                   /\ Settled[q].remembered = processes[q].remembered
                   /\ Ensured[q].remembered = processes[q].remembered
              ELSE Ensured[q].summary = "none"
<1>1. /\ Settled \in Sessions /\ Len(Settled) = Last
      /\ \A q \in DOMAIN processes : /\ Settled[q].summary = processes[q].summary
                                     /\ Settled[q].remembered = processes[q].remembered
  <2>1. CASE OwnSummary
    <3>1. Last \in DOMAIN processes /\ processes[Last] \in Row
      BY <2>1 DEF OwnSummary, Last, Sessions
    <3>2. processes[Last].summary \in Outcomes
      BY <2>1, <3>1 DEF OwnSummary, Row
    <3> QED
      BY <2>1, <3>1, <3>2, EndedKeeps DEF Settled, CarriedThrough, Last
  <2>2. CASE ~OwnSummary
    BY <2>2 DEF Settled, Last
  <2> QED
    BY <2>1, <2>2
<1>2. Last \in Nat /\ DOMAIN processes = 1 .. Last /\ DOMAIN Settled = 1 .. Last
  BY <1>1 DEF Last, Sessions
<1>3. CASE Completed \/ (Last > 0 /\ Settled[Last].status = "ACTIVE")
  BY <1>1, <1>2, <1>3 DEF Ensured
<1>4. CASE ~(Completed \/ (Last > 0 /\ Settled[Last].status = "ACTIVE"))
  <2>1. Ensured = Started(Settled)
    BY <1>4 DEF Ensured
  <2>2. Settled # <<>> => Settled[Len(Settled)].status # "ACTIVE"
    BY <1>1, <1>2, <1>4 DEF Sessions
  <2>3. /\ Started(Settled) \in Sessions /\ Len(Started(Settled)) = Len(Settled) + 1
        /\ Started(Settled)[Len(Settled) + 1].status = "ACTIVE"
        /\ Started(Settled)[Len(Settled) + 1].summary = "none"
        /\ \A q \in DOMAIN Settled : Started(Settled)[q] = Settled[q]
    BY <1>1, <2>2, StartedKeeps
  <2>4. DOMAIN Ensured = 1 .. Last + 1
    BY <1>1, <2>1, <2>3 DEF Sessions
  <2> QED
    BY <1>1, <1>2, <1>4, <2>1, <2>3, <2>4
<1> QED
  BY <1>1, <1>3, <1>4

LEMMA EnsureActiveProcessStep == IInv /\ EnsureActiveProcess => IInv'
<1> SUFFICES ASSUME IInv, EnsureActiveProcess PROVE IInv'
  OBVIOUS
<1> USE DEF IInv, EnsureActiveProcess, Think, Go, cohort
<1>0. /\ Ensured \in Sessions /\ Len(Ensured) \in Nat
      /\ ~Completed => Len(Ensured) > 0 /\ Ensured[Len(Ensured)].status = "ACTIVE"
  BY EnsuredKeeps DEF Shapes
<1>1. Shapes'
  <2> DEFINE r == IF ~Completed /\ (AwaitsSuccessor(Settled) \/ Recovers) THEN "new_process" ELSE "none"
  <2>1. r \in {"none", "memory_update", "new_process"}
    OBVIOUS
  <2> HIDE DEF r
  <2>2. [graph EXCEPT !.active = Len(Ensured), !.reload = r] \in GraphStates
    BY <1>0, <2>1 DEF Shapes, GraphStates
  <2>3. graph' \in GraphStates
    BY <2>2 DEF r
  <2> QED
    BY <1>0, <2>3 DEF Shapes, Nodes, Done
<1>2. ProcessHeld'
  BY <1>0 DEF Shapes, GraphStates, ProcessHeld, Early, Ends, Done
<1>3. TransitionHeld'
  BY DEF Shapes, GraphStates, TransitionHeld, Pivot, Ending
<1>4. DecisionHeld'
  BY DEF Shapes, GraphStates, DecisionHeld
<1>5. StepsCounted'
  BY CycleAssumption DEF Shapes, GraphStates, StepsCounted, Pivot, TransitionHeld, Ending
<1>6. ContextIsCurrent'
  BY DEF Shapes, GraphStates, ContextIsCurrent, UsesContext, ProcessHeld, Early, Ends, Done
<1> QED
  BY <1>1, <1>2, <1>3, <1>4, <1>5, <1>6

\* A decision carries the outcome or the evidence that its action needs.
LEMMA DecisionKeeps ==
  ASSUME Shapes, NEW a \in Actions, NEW o \in Outcomes, NEW d \in Decisions(a, o)
  PROVE  /\ d \in DecisionRecords /\ d.action = a
         /\ a = "CLOSE_PROCESS" => d.outcome \in Outcomes
         /\ a = "INTERVENE" => d.evidence # {} /\ d.evidence \subseteq Evidence
<1> DEFINE chosen == {s \in SUBSET Evidence : Cardinality(s) \in 1 .. 3}
<1>1. Evidence \subseteq Nat
  <2>1. graph.view.pages["EVIDENCE"] \subseteq Nat
    BY DEF Shapes, GraphStates, Views, Categories
  <2>2. Loaded("EVIDENCE") \subseteq Nat
    BY DEF Loaded
  <2> QED
    BY <2>1, <2>2 DEF Evidence, Seen
<1>2. \A s \in chosen : s # {} /\ s \subseteq Evidence
  BY FS_EmptySet
<1>3. PICK e \in IF a = "INTERVENE" THEN chosen ELSE {{}} :
        d = [action |-> a, outcome |-> IF a = "CLOSE_PROCESS" THEN o ELSE "none", evidence |-> e]
  BY DEF Decisions
<1>4. e \in SUBSET Nat /\ (a = "INTERVENE" => e # {} /\ e \subseteq Evidence)
  BY <1>1, <1>2, <1>3
<1> HIDE DEF chosen
<1> QED
  BY <1>3, <1>4 DEF DecisionRecords

\* Beyond MaxDepth no expansion is selected.
LEMMA SelectedAction ==
  ASSUME Shapes, NEW proposed \in Actions, NEW confident, NEW likely, NEW outcome, NEW sure
  PROVE  LET a == Selected(proposed, confident, likely, outcome, sure)
         IN  a \in Actions /\ (a = "NEED_MORE_MEMORY" => graph.depth < MaxDepth)
<1>1. graph.depth \in Int /\ MaxDepth \in Int
  BY CycleAssumption DEF Shapes, GraphStates
<1> QED
  BY <1>1 DEF Selected, Actions

\* What a supervision decision changes.
LEMMA DecisionMade ==
  ASSUME Shapes, SupervisionDecision
  PROVE  \E d \in DecisionRecords :
           /\ node = "SUPERVISION_DECISION" /\ graph' = [graph EXCEPT !.decision = d]
           /\ steps' = steps + 1 /\ node' = AfterDecision[d.action] /\ asked' = asked \cup {Question}
           /\ UNCHANGED <<attempts, late, cohort, processes, delivery>>
           /\ d.action \in Actions
           /\ d.action = "NEED_MORE_MEMORY" => graph.depth < MaxDepth
           /\ d.action = "CLOSE_PROCESS" => d.outcome \in Outcomes
           /\ d.action = "INTERVENE" => d.evidence # {} /\ d.evidence \subseteq Evidence
<1>1. PICK proposed \in Actions, outcome \in Outcomes, confident, likely, sure \in BOOLEAN :
        \E d \in Decisions(Selected(proposed, confident, likely, outcome, sure), outcome) :
          Go(AfterDecision[d.action], [graph EXCEPT !.decision = d])
  BY DEF SupervisionDecision
<1> DEFINE a == Selected(proposed, confident, likely, outcome, sure)
<1>2. PICK d \in Decisions(a, outcome) : Go(AfterDecision[d.action], [graph EXCEPT !.decision = d])
  BY <1>1
<1>3. a \in Actions /\ (a = "NEED_MORE_MEMORY" => graph.depth < MaxDepth)
  BY SelectedAction
<1> HIDE DEF a
<1>4. /\ d \in DecisionRecords /\ d.action = a
      /\ a = "CLOSE_PROCESS" => d.outcome \in Outcomes
      /\ a = "INTERVENE" => d.evidence # {} /\ d.evidence \subseteq Evidence
  BY <1>3, DecisionKeeps
<1>5. /\ node = "SUPERVISION_DECISION" /\ asked' = asked \cup {Question}
      /\ UNCHANGED <<processes, delivery>>
  BY DEF SupervisionDecision
<1> QED
  BY <1>2, <1>3, <1>4, <1>5 DEF Go

LEMMA SupervisionDecisionStep == IInv /\ SupervisionDecision => IInv'
<1> SUFFICES ASSUME IInv, SupervisionDecision PROVE IInv'
  OBVIOUS
<1> USE DEF IInv, cohort
<1>0. PICK d \in DecisionRecords :
        /\ node = "SUPERVISION_DECISION" /\ graph' = [graph EXCEPT !.decision = d]
        /\ steps' = steps + 1 /\ node' = AfterDecision[d.action]
        /\ UNCHANGED <<attempts, late, cohort, processes, delivery>>
        /\ d.action \in Actions
        /\ d.action = "NEED_MORE_MEMORY" => graph.depth < MaxDepth
        /\ d.action = "CLOSE_PROCESS" => d.outcome \in Outcomes
        /\ d.action = "INTERVENE" => d.evidence # {} /\ d.evidence \subseteq Evidence
  BY DecisionMade
<1>1. Shapes'
  <2>1. graph' \in GraphStates
    BY <1>0 DEF Shapes, GraphStates
  <2> QED
    BY <1>0, <2>1 DEF Shapes, Nodes, Done, Actions, AfterDecision
<1>2. ProcessHeld'
  BY <1>0 DEF Shapes, GraphStates, ProcessHeld, Early, Ends, Done, Actions, AfterDecision
<1>3. TransitionHeld'
  BY <1>0 DEF Shapes, GraphStates, TransitionHeld, Pivot, Ending, Actions, AfterDecision
<1>4. DecisionHeld'
  <2>1. graph'.depth = graph.depth /\ graph'.decision = d /\ Evidence' = Evidence
    BY <1>0 DEF Shapes, GraphStates, Evidence, Seen, Loaded
  <2>2. graph'.health = graph.health /\ graph'.message = graph.message
    BY <1>0 DEF Shapes, GraphStates
  <2> QED
    BY <1>0, <2>1, <2>2 DEF DecisionHeld, CanExpand, CanBuild, Actions, AfterDecision
<1>5. StepsCounted'
  <2>1. graph'.depth = graph.depth /\ graph'.continuity = graph.continuity /\ ~Pivot
    BY <1>0 DEF Shapes, GraphStates, TransitionHeld, Pivot, Ending
  <2>2. graph.depth \in Nat /\ steps \in Nat /\ steps <= 14 + 2 * graph.depth
    BY <1>0, CycleAssumption DEF Shapes, GraphStates, StepsCounted
  <2> QED
    BY <1>0, <2>1, <2>2 DEF StepsCounted, Pivot, Actions, AfterDecision
<1>6. ContextIsCurrent'
  BY <1>0 DEF Shapes, GraphStates, ContextIsCurrent, UsesContext
<1> QED
  BY <1>1, <1>2, <1>3, <1>4, <1>5, <1>6

\* What an expansion has seen is a set of memories of each category.
LEMMA ExpandedKeeps ==
  ASSUME Shapes
  PROVE  Expanded \in Views
<1>1. \A c \in Categories : NextPage(c) \subseteq Nat
  BY DEF NextPage, Page
<1>2. /\ graph.view.pages \in [Categories -> SUBSET Nat] /\ graph.context.related \in BOOLEAN
      /\ graph.depth \in Nat /\ reach \in Nat
  BY CycleAssumption DEF Shapes, GraphStates, Views, Contexts
<1> DEFINE pages == [c \in Categories |->
                      graph.view.pages[c] \cup IF c \in Unread THEN NextPage(c) ELSE {}]
           further == IF graph.depth + 1 < reach THEN graph.depth + 1 ELSE reach
           radius == IF \E c \in Categories : Seen(c) # {} THEN 1 + further ELSE 0
<1>3. pages \in [Categories -> SUBSET Nat]
  BY <1>1, <1>2
<1>4. radius \in Nat
  BY <1>2
<1> HIDE DEF pages, radius
<1>5. [pages |-> pages, radius |-> radius, related |-> graph.context.related] \in Views
  BY <1>2, <1>3, <1>4 DEF Views
<1> QED
  BY <1>5 DEF Expanded, pages, radius

LEMMA ExpandGraphStep == IInv /\ ExpandGraph => IInv'
<1> SUFFICES ASSUME IInv, ExpandGraph PROVE IInv'
  OBVIOUS
<1> USE DEF IInv, ExpandGraph, Think, Go, cohort
<1> DEFINE read == [c \in Categories |-> graph.exhausted[c] \/
                     (c \in Unread /\ Cardinality(NextPage(c)) < PageSize)]
<1>d. /\ node = "EXPAND_GRAPH" /\ steps' = steps + 1
      /\ node' \in {"FINALIZE", "SUPERVISION_DECISION"}
      /\ graph' = [graph EXCEPT !.depth = graph.depth + 1, !.view = Expanded, !.exhausted = read]
      /\ UNCHANGED <<attempts, late, cohort, asked, processes, delivery>>
  OBVIOUS
<1>e. read \in [Categories -> BOOLEAN]
  OBVIOUS
<1>f. graph.depth + 1 \in 0 .. MaxDepth
  BY CycleAssumption DEF Shapes, GraphStates, CanExpand
<1> HIDE DEF read, ExpandGraph
<1>0. /\ node = "EXPAND_GRAPH" /\ steps' = steps + 1
      /\ node' \in {"FINALIZE", "SUPERVISION_DECISION"}
      /\ graph' \in GraphStates /\ graph'.depth = graph.depth + 1
      /\ graph'.active = graph.active /\ graph'.context = graph.context
      /\ graph'.continuity = graph.continuity /\ graph'.predecessor = graph.predecessor
      /\ graph'.health = graph.health /\ graph'.message = graph.message
      /\ UNCHANGED <<attempts, late, cohort, asked, processes, delivery>>
  BY <1>d, <1>e, <1>f, ExpandedKeeps DEF Shapes, GraphStates
<1>1. Shapes'
  BY <1>0 DEF Shapes, Nodes, Done
<1>2. ProcessHeld'
  BY <1>0 DEF Shapes, ProcessHeld, Early, Ends, Done
<1>3. TransitionHeld'
  BY <1>0 DEF Shapes, TransitionHeld, Pivot, Ending
<1>4. DecisionHeld'
  BY <1>0 DEF Shapes, DecisionHeld
<1>5. StepsCounted'
  <2>1. graph.depth \in Nat /\ steps \in Nat /\ steps <= 15 + 2 * graph.depth
    BY <1>0, CycleAssumption DEF Shapes, GraphStates, StepsCounted
  <2> QED
    BY <1>0, <2>1 DEF StepsCounted
<1>6. ContextIsCurrent'
  BY <1>0 DEF ContextIsCurrent, UsesContext
<1> QED
  BY <1>1, <1>2, <1>3, <1>4, <1>5, <1>6

\* However far an interrupted node has come, the session it leaves is well formed.
LEMMA PartialKeeps ==
  ASSUME Shapes, ProcessHeld, processes' \in Partial
  PROVE  processes' \in Sessions
<1>1. processes \in Sessions
  BY DEF Shapes
<1>2. node \notin Early \cup Ends => graph.active \in DOMAIN processes
  BY DEF Shapes, Sessions, ProcessHeld
<1>3. CASE processes' = processes
  BY <1>1, <1>3
<1>4. CASE node = "ENSURE_ACTIVE_PROCESS" /\ processes' \in {Settled, Ensured}
  BY <1>1, <1>4, EnsuredKeeps
<1>5. CASE node = "APPLY_MEMORY_UPDATE"
           /\ processes' \in {Grown(graph.active, kept) : kept \in SUBSET Categories}
  BY <1>1, <1>5, GrownKeeps DEF Shapes, GraphStates
<1>6. CASE node = "CLOSE_CURRENT_PROCESS" /\ CanClose /\ processes' \in {Summarised, Closed}
  BY <1>1, <1>2, <1>6, ClosedKeeps DEF CanClose, Early, Ends, Done
<1>7. CASE node = "START_NEW_PROCESS" /\ CanStart /\ processes' \in {Started(processes)}
  <2>1. processes # <<>> => processes[Len(processes)].status # "ACTIVE"
    BY <1>7 DEF ProcessHeld, Early, Ends, Done
  <2> QED
    BY <1>1, <1>7, <2>1, StartedKeeps
<1> QED
  BY <1>3, <1>4, <1>5, <1>6, <1>7 DEF Partial

LEMMA InterruptStep == IInv /\ Interrupt => IInv'
<1> SUFFICES ASSUME IInv, Interrupt PROVE IInv'
  OBVIOUS
<1> USE DEF IInv, Interrupt, cohort, Fresh
<1>1. Shapes'
  <2>1. processes' \in Sessions
    BY PartialKeeps DEF Shapes
  <2>2. graph' \in GraphStates
    BY FreshIsAState
  <2>3. attempts' \in 1 .. MaxAttempts
    BY CycleAssumption DEF Shapes
  <2>4. late' \in Nat
    BY DEF Shapes, GraphStates
  <2>5. delivery' \in {"none", "known", "unknown"}
    BY DEF Shapes, Deliveries
  <2>6. node' \in Nodes \cup Done /\ steps' \in Nat
    BY DEF Nodes, Done
  <2> QED
    BY <2>1, <2>2, <2>3, <2>4, <2>5, <2>6 DEF Shapes
<1>2. ProcessHeld'
  BY DEF Shapes, GraphStates, ProcessHeld, Early, Ends, Done, Fresh
<1>3. TransitionHeld'
  BY DEF Shapes, GraphStates, TransitionHeld, Pivot, Ending
<1>4. DecisionHeld'
  BY DEF Shapes, GraphStates, DecisionHeld, Fresh
<1>5. StepsCounted'
  BY CycleAssumption DEF Shapes, GraphStates, StepsCounted, Pivot, TransitionHeld, Ending
<1>6. ContextIsCurrent'
  BY DEF Shapes, GraphStates, ContextIsCurrent, UsesContext, ProcessHeld, Early, Ends, Done
<1> QED
  BY <1>1, <1>2, <1>3, <1>4, <1>5, <1>6

LEMMA LandStep == IInv /\ Land => IInv'
<1> SUFFICES ASSUME IInv, Land PROVE IInv'
  OBVIOUS
<1> USE DEF IInv, Land, cohort
<1>a. node \notin Early \cup Ends => graph.active \in DOMAIN processes
  BY DEF Shapes, Sessions, ProcessHeld
<1>0. /\ processes' \in Sessions /\ Len(processes') = Len(processes)
      /\ \A p \in DOMAIN processes : /\ processes'[p].status = processes[p].status
                                     /\ processes'[p].remembered = processes[p].remembered
  BY GrownKeeps DEF Shapes
<1>1. Shapes'
  BY <1>0 DEF Shapes
<1>2. ProcessHeld'
  BY <1>0, <1>a DEF Shapes, ProcessHeld
<1>3. TransitionHeld'
  BY DEF TransitionHeld, Pivot
<1>4. DecisionHeld'
  BY DEF DecisionHeld, CanExpand, CanBuild, Evidence, Seen, Loaded
<1>5. StepsCounted'
  BY DEF StepsCounted, Pivot
<1>6. ContextIsCurrent'
  <2>1. node \in UsesContext => node \notin Early \cup Ends
    BY DEF UsesContext, Early, Ends, Done
  <2> QED
    BY <1>0, <1>a, <2>1 DEF ContextIsCurrent
<1> QED
  BY <1>1, <1>2, <1>3, <1>4, <1>5, <1>6

-----------------------------------------------------------------------------
LEMMA Stutters == IInv /\ UNCHANGED vars => IInv'
  BY DEF vars, cohort, IInv, Shapes, ProcessHeld, TransitionHeld, DecisionHeld, StepsCounted,
    ContextIsCurrent, Pivot, CanExpand, CanBuild, Evidence, Seen, Loaded

\* The invariant is inductive.
THEOREM Invariance == Spec => []IInv
<1>1. IInv /\ [Next]_vars => IInv'
  BY Stutters, ReadInboxStep, AssessAgentHealthStep, EnsureActiveProcessStep,
    LoadProcessContextStep, AssessProcessContinuityStep, ProposeMemoriesStep,
    ApplyMemoryUpdateStep, SupervisionDecisionStep, ExpandGraphStep, BuildInterventionStep,
    SendInterventionStep, RecordInterventionStep, WriteProcessSummaryStep,
    CloseCurrentProcessStep, StartNewProcessStep, FinalizeStep, InterruptStep, LandStep
    DEF Next
<1> QED
  BY Starts, <1>1, PTL DEF Spec

\* Every row and every field of the graph state keeps its shape (supervisor/agent/state.py,
\* schemas.py): the depth of the expansion stays within its limit and only the last process
\* of the session is ACTIVE.
THEOREM TypeCorrect == Spec => []TypeOK
<1>1. IInv => TypeOK
  <2> SUFFICES ASSUME IInv PROVE TypeOK
    OBVIOUS
  <2>1. \A p \in DOMAIN processes :
          /\ processes[p] \in Row
          /\ processes[p].status = "ACTIVE" => p = Last
    BY DEF IInv, Shapes, Sessions, Last
  <2>2. \A p \in DOMAIN processes :
          /\ processes[p].status \in Outcomes \cup {"ACTIVE"}
          /\ processes[p].summary \in Outcomes \cup {"none"}
    BY <2>1 DEF Row
  <2>3. graph.active \in {0, Last} /\ graph.depth \in 0 .. MaxDepth
    BY DEF IInv, Shapes, GraphStates, ProcessHeld, Last
  <2>4. \A c \in Categories : graph.view.pages[c] \subseteq Nat
    BY DEF IInv, Shapes, GraphStates, Views
  <2> QED
    BY <2>1, <2>2, <2>3, <2>4 DEF IInv, Shapes, TypeOK
<1> QED
  BY Invariance, <1>1, PTL

\* The checks of the nodes never fail (route_after_decision and the guards at the head of
\* EXPAND_GRAPH, BUILD_INTERVENTION, SEND_INTERVENTION, WRITE_PROCESS_SUMMARY,
\* CLOSE_CURRENT_PROCESS and START_NEW_PROCESS), whatever limit the expansion is given.
THEOREM Contracts == Spec => []ContractsHold
<1>1. IInv => ContractsHold
  <2> SUFFICES ASSUME IInv PROVE ContractsHold
    OBVIOUS
  <2>1. node = "SUPERVISION_DECISION" => graph.depth \in 0 .. MaxDepth
    BY DEF IInv, Shapes, GraphStates
  <2>2. /\ node = "EXPAND_GRAPH" => CanExpand
        /\ node = "BUILD_INTERVENTION" => CanBuild
        /\ node = "SEND_INTERVENTION" => graph.message
    BY DEF IInv, DecisionHeld
  <2>3. node = "WRITE_PROCESS_SUMMARY" => PlannedOutcome \in Outcomes
    BY DEF IInv, TransitionHeld, PlannedOutcome, Outcomes
  <2>4. node = "CLOSE_CURRENT_PROCESS" => CanClose
    BY DEF IInv, TransitionHeld, ProcessHeld, CanClose, Early, Ends, Done
  <2>5. node = "START_NEW_PROCESS" => CanStart
    BY DEF IInv, TransitionHeld, ProcessHeld, CanStart, Early, Ends, Done
  <2> QED
    BY <2>1, <2>2, <2>3, <2>4, <2>5 DEF ContractsHold
<1> QED
  BY Invariance, <1>1, PTL

\* build_supervisor_graph compiles the graph with the library's limit of 25 nodes: no path
\* reaches it with max_expansion_depth up to 3.
THEOREM Terminates == Spec => []WithinLimit
<1>1. IInv => WithinLimit
  <2> SUFFICES ASSUME IInv, node \notin Done PROVE steps < RecursionLimit
    BY DEF WithinLimit
  <2>1. steps \in Nat /\ graph.depth \in 0 .. 3 /\ RecursionLimit = 25 /\ node \in Nodes
    BY CycleAssumption DEF IInv, Shapes, GraphStates
  <2> QED
    BY <2>1 DEF IInv, StepsCounted, Nodes
<1> QED
  BY Invariance, <1>1, PTL

\* Curation, the review, the expansion and the closing of a process all use the context of
\* the active process, loaded again after the memory update and after a pivot
\* (graph.py, load_process_context.py).
THEOREM ContextHeld == Spec => []ContextIsCurrent
<1>1. IInv => ContextIsCurrent
  BY DEF IInv
<1> QED
  BY Invariance, <1>1, PTL

-----------------------------------------------------------------------------
(* What the review has asked and seen. *)

\* Nodes that an attempt runs before its first supervision decision.
BeforeReview ==
  Early \cup {"LOAD_PROCESS_CONTEXT", "ASSESS_PROCESS_CONTINUITY", "EXTRACT_MEMORY_CANDIDATES",
              "CURATE_MEMORY_CANDIDATES", "MATERIALIZE_MEMORIES", "APPLY_MEMORY_UPDATE",
              "START_NEW_PROCESS"}
Reviewing == {"SUPERVISION_DECISION", "EXPAND_GRAPH"}

\* Until then, and while a process is being succeeded, nothing was asked or expanded.
ReviewFresh ==
  node \in BeforeReview \/ Pivot =>
    /\ asked = {} /\ graph.view = NoView /\ graph.depth = 0
    /\ \A c \in Categories : ~graph.exhausted[c]

\* Expansions only add to what is seen.
AtMost(v, w) ==
  /\ \A c \in Categories : v.pages[c] \subseteq w.pages[c]
  /\ v.radius <= w.radius
  /\ v.related => w.related

\* Whatever was asked was about this context and a part of what has been expanded.
AskedHeld ==
  node \in Reviewing =>
    /\ \A q \in asked : \E v \in Views : q = <<graph.context, v>> /\ AtMost(v, graph.view)
    /\ node = "SUPERVISION_DECISION" => Question \notin asked
    /\ graph.view.related => graph.context.related
    /\ graph.view.radius > 0 =>
         /\ \E c \in Categories : Seen(c) # {}
         /\ graph.view.radius <= 1 + graph.depth /\ graph.view.radius <= 1 + reach

\* During a review a category grows by one memory at most, the late one.
SizeHeld ==
  node \in Reviewing =>
    \A c \in Categories :
      LET now == processes[graph.active].size[c] IN
      /\ graph.context.size[c] <= now /\ now <= graph.context.size[c] + 1
      /\ late # 0 => now = graph.context.size[c]

\* What is seen of a category is its newest part, and reaches as far as the pages read so far.
PagesHeld ==
  \A c \in Categories :
    LET size == graph.context.size[c] IN
    /\ Seen(c) \subseteq 1 .. size
    /\ \A i \in Seen(c), j \in 1 .. size : j >= i => j \in Seen(c)
    /\ graph.exhausted[c] => 1 \in Seen(c)
    /\ node \in Reviewing /\ ~graph.exhausted[c] /\ size > PageSize =>
         \A i \in 1 .. size :
           i > processes[graph.active].size[c] - (graph.depth + 1) * PageSize => i \in Seen(c)

ReviewInv == ReviewFresh /\ AskedHeld /\ SizeHeld /\ PagesHeld

\* In a state that is not reviewing, the invariant depends on little.
LEMMA NotReviewing ==
  ASSUME IInv, ReviewInv, graph' \in GraphStates, node' \notin Reviewing, UNCHANGED asked,
         graph'.view = graph.view, graph'.context = graph.context, graph'.depth = graph.depth,
         graph'.exhausted = graph.exhausted,
         node' \in BeforeReview \/ Pivot' => node \in BeforeReview \/ Pivot
  PROVE  ReviewInv'
<1>1. ReviewFresh'
  BY DEF ReviewInv, ReviewFresh
<1>2. AskedHeld' /\ SizeHeld'
  BY DEF AskedHeld, SizeHeld
<1>3. \A c \in Categories : Seen(c)' = Seen(c)
  BY DEF Seen, Loaded
<1>4. PagesHeld'
  BY <1>3 DEF ReviewInv, PagesHeld
<1> QED
  BY <1>1, <1>2, <1>4 DEF ReviewInv

LEMMA PlainReviewSteps ==
  ASSUME IInv, IInv', ReviewInv,
         \/ ReadInbox \/ AssessAgentHealth \/ EnsureActiveProcess
         \/ AssessProcessContinuity \/ ProposeMemories \/ ApplyMemoryUpdate
         \/ BuildIntervention \/ SendIntervention \/ RecordIntervention
         \/ WriteProcessSummary \/ CloseCurrentProcess
  PROVE  ReviewInv'
<1>1. graph \in GraphStates /\ graph' \in GraphStates
  BY DEF IInv, Shapes
<1> USE DEF Think, Go
<1>2. CASE ReadInbox
  <2>1. graph' = graph /\ node' = "ASSESS_AGENT_HEALTH" /\ node \in BeforeReview /\ UNCHANGED asked
    BY <1>2 DEF ReadInbox, BeforeReview, Early
  <2> QED
    BY <1>1, <2>1, NotReviewing DEF Reviewing
<1>3. CASE AssessAgentHealth
  <2> DEFINE m == (health = "recover")
  <2>1. /\ graph' = [graph EXCEPT !.health = health, !.message = m]
        /\ node' \in {"FINALIZE", "ENSURE_ACTIVE_PROCESS"} /\ node \in BeforeReview /\ UNCHANGED asked
    BY <1>3 DEF AssessAgentHealth, BeforeReview, Early
  <2> HIDE DEF m
  <2>2. /\ graph'.view = graph.view /\ graph'.context = graph.context
        /\ graph'.depth = graph.depth /\ graph'.exhausted = graph.exhausted
    BY <1>1, <2>1 DEF GraphStates
  <2> QED
    BY <1>1, <2>1, <2>2, NotReviewing DEF Reviewing
<1>4. CASE EnsureActiveProcess
  <2> DEFINE r == IF ~Completed /\ (AwaitsSuccessor(Settled) \/ Recovers) THEN "new_process" ELSE "none"
  <2>1. /\ graph' = [graph EXCEPT !.active = Len(Ensured), !.reload = r]
        /\ node' \in {"FINALIZE", "LOAD_PROCESS_CONTEXT"} /\ node \in BeforeReview /\ UNCHANGED asked
    BY <1>4 DEF EnsureActiveProcess, BeforeReview, Early
  <2> HIDE DEF r
  <2>2. /\ graph'.view = graph.view /\ graph'.context = graph.context
        /\ graph'.depth = graph.depth /\ graph'.exhausted = graph.exhausted
    BY <1>1, <2>1 DEF GraphStates
  <2> QED
    BY <1>1, <2>1, <2>2, NotReviewing DEF Reviewing
<1>5. CASE AssessProcessContinuity \/ ProposeMemories \/ ApplyMemoryUpdate
  <2>1. node' \notin Reviewing /\ node \in BeforeReview /\ UNCHANGED asked
    BY <1>5 DEF AssessProcessContinuity, ProposeMemories, ApplyMemoryUpdate, AfterThinking,
      AfterApply, BeforeReview, Reviewing
  <2>2. \/ graph' = graph
        \/ graph' = [graph EXCEPT !.continuity = "SAME_PROCESS"]
        \/ graph' = [graph EXCEPT !.continuity = "NEW_PROCESS", !.predecessor = graph.active]
        \/ graph' = [graph EXCEPT !.reload = "memory_update"]
    BY <1>5 DEF AssessProcessContinuity, ProposeMemories, ApplyMemoryUpdate
  <2>3. /\ graph'.view = graph.view /\ graph'.context = graph.context
        /\ graph'.depth = graph.depth /\ graph'.exhausted = graph.exhausted
    BY <1>1, <2>2 DEF GraphStates
  <2> QED
    BY <1>1, <2>1, <2>3, NotReviewing
<1>6. CASE \/ BuildIntervention \/ SendIntervention \/ RecordIntervention
           \/ WriteProcessSummary \/ CloseCurrentProcess
  <2>1. /\ node' \in {"SEND_INTERVENTION", "RECORD_INTERVENTION", "FINALIZE",
                      "CLOSE_CURRENT_PROCESS", "START_NEW_PROCESS"}
        /\ node' = "START_NEW_PROCESS" => Pivot
        /\ UNCHANGED asked /\ graph'.continuity = graph.continuity
        /\ graph'.view = graph.view /\ graph'.context = graph.context
        /\ graph'.depth = graph.depth /\ graph'.exhausted = graph.exhausted
    BY <1>1, <1>6 DEF BuildIntervention, SendIntervention, RecordIntervention,
      WriteProcessSummary, CloseCurrentProcess, GraphStates
  <2>2. node' \notin Reviewing /\ (node' \in BeforeReview \/ Pivot' => node \in BeforeReview \/ Pivot)
    BY <2>1 DEF Reviewing, BeforeReview, Early, Pivot
  <2> QED
    BY <1>1, <2>1, <2>2, NotReviewing
<1> QED
  BY <1>2, <1>3, <1>4, <1>5, <1>6

\* Nothing is asked or seen in a graph state that is empty.
LEMMA NothingSeen ==
  ASSUME ReviewInv, graph' = Fresh, node' \notin Reviewing, node' \in BeforeReview => asked' = {}
  PROVE  ReviewInv'
<1>1. /\ graph'.view = NoView /\ graph'.depth = 0 /\ ~Pivot'
      /\ \A c \in Categories : ~graph'.exhausted[c] /\ graph'.context.size[c] = 0
  BY DEF Fresh, NoContext, Empty, Pivot
<1>2. \A c \in Categories : Seen(c)' = {}
  BY <1>1 DEF Seen, Loaded, NoView
<1>3. ReviewFresh' /\ AskedHeld' /\ SizeHeld'
  BY <1>1 DEF ReviewFresh, AskedHeld, SizeHeld
<1>4. PagesHeld'
  BY <1>1, <1>2 DEF PagesHeld
<1> QED
  BY <1>3, <1>4 DEF ReviewInv

LEMMA StartReviewStep ==
  ASSUME IInv, IInv', ReviewInv, StartNewProcess
  PROVE  ReviewInv'
<1>1. graph \in GraphStates
  BY DEF IInv, Shapes
<1>2. /\ node = "START_NEW_PROCESS" /\ node' = "LOAD_PROCESS_CONTEXT" /\ UNCHANGED asked
      /\ graph' = AfterStart
  BY DEF StartNewProcess, Go
<1>3. asked = {} /\ graph.view = NoView /\ graph.depth = 0 /\ \A c \in Categories : ~graph.exhausted[c]
  BY <1>2 DEF ReviewInv, ReviewFresh, BeforeReview
<1>4. /\ graph'.view = NoView /\ graph'.context = graph.context /\ graph'.depth = 0
      /\ \A c \in Categories : ~graph'.exhausted[c]
  BY <1>1, <1>2 DEF AfterStart, GraphStates
<1>5. \A c \in Categories : Seen(c)' = Seen(c)
  BY <1>3, <1>4 DEF Seen, Loaded
<1>6. ReviewFresh' /\ AskedHeld' /\ SizeHeld'
  BY <1>2, <1>3, <1>4 DEF ReviewFresh, AskedHeld, SizeHeld, Reviewing
<1>7. PagesHeld'
  BY <1>2, <1>4, <1>5 DEF ReviewInv, PagesHeld, Reviewing
<1> QED
  BY <1>6, <1>7 DEF ReviewInv

\* The context is read anew: it holds the newest page of each category.
LEMMA LoadReviewStep ==
  ASSUME IInv, IInv', ReviewInv, LoadProcessContext
  PROVE  ReviewInv'
<1>1. graph \in GraphStates /\ graph' \in GraphStates
  BY DEF IInv, Shapes
<1>2. /\ node = "LOAD_PROCESS_CONTEXT" /\ node' = Route /\ UNCHANGED <<asked, processes, late>>
      /\ graph' = [graph EXCEPT !.context = Snapshot(graph.active), !.reload = "none"]
  BY DEF LoadProcessContext, Think, Go
<1>3. asked = {} /\ graph.view = NoView /\ graph.depth = 0 /\ \A c \in Categories : ~graph.exhausted[c]
  BY <1>2 DEF ReviewInv, ReviewFresh, BeforeReview
<1>4. /\ graph'.view = NoView /\ graph'.depth = 0 /\ graph'.active = graph.active
      /\ \A c \in Categories : ~graph'.exhausted[c]
      /\ graph'.context = Snapshot(graph.active)
  BY <1>1, <1>2, <1>3 DEF GraphStates
<1>5. /\ graph'.context.size = processes[graph.active].size
      /\ \A c \in Categories : graph'.context.size[c] \in Nat
  <2>1. graph'.context \in Contexts
    BY <1>1 DEF GraphStates
  <2> QED
    BY <1>4, <2>1 DEF Snapshot, Contexts
<1>6. ReviewFresh' /\ AskedHeld' /\ SizeHeld'
  BY <1>2, <1>3, <1>4, <1>5 DEF ReviewFresh, AskedHeld, SizeHeld, NoView
<1>7. PagesHeld'
  <2>1. PageSize \in Nat \ {0}
    BY CycleAssumption
  <2>2. ASSUME NEW c \in Categories
        PROVE  Seen(c)' = {i \in 1 .. graph'.context.size[c] : i > graph'.context.size[c] - PageSize}
    BY <1>4 DEF Seen, Loaded, NoView
  <2> QED
    BY <1>2, <1>4, <1>5, <2>1, <2>2 DEF PagesHeld
<1> QED
  BY <1>6, <1>7 DEF ReviewInv

\* The question is put; the expansion that it was about stays.
LEMMA DecisionReviewStep ==
  ASSUME IInv, IInv', ReviewInv, SupervisionDecision
  PROVE  ReviewInv'
<1>1. Shapes /\ Shapes' /\ TransitionHeld'
  BY DEF IInv
<1>2. PICK d \in DecisionRecords :
        /\ node = "SUPERVISION_DECISION" /\ graph' = [graph EXCEPT !.decision = d]
        /\ node' = AfterDecision[d.action] /\ asked' = asked \cup {Question}
        /\ UNCHANGED <<late, cohort, processes>> /\ d.action \in Actions
  BY <1>1, DecisionMade
<1>3. /\ graph'.view = graph.view /\ graph'.context = graph.context /\ graph'.active = graph.active
      /\ graph'.depth = graph.depth /\ graph'.exhausted = graph.exhausted
      /\ graph.view \in Views /\ UNCHANGED <<late, processes, reach>>
  BY <1>1, <1>2 DEF Shapes, GraphStates, cohort
<1>4. node' \in {"FINALIZE", "EXPAND_GRAPH", "BUILD_INTERVENTION", "WRITE_PROCESS_SUMMARY"}
  BY <1>2 DEF AfterDecision, Actions
<1>5. node \in Reviewing /\ node' \notin BeforeReview /\ node' # "SUPERVISION_DECISION"
  BY <1>2, <1>4 DEF Reviewing, BeforeReview, Early
<1>6. \A c \in Categories : Seen(c)' = Seen(c)
  BY <1>3 DEF Seen, Loaded
<1>7. ReviewFresh'
  <2>1. ~Pivot'
    BY <1>1, <1>2 DEF Shapes, GraphStates, IInv, TransitionHeld, Pivot, Ending
  <2> QED
    BY <1>5, <2>1 DEF ReviewFresh
<1>8. AskedHeld'
  <2>1. AtMost(graph.view, graph.view)
    BY <1>3 DEF AtMost, Views
  <2>2. \A q \in asked' : \E v \in Views : q = <<graph.context, v>> /\ AtMost(v, graph.view)
    BY <1>2, <1>3, <1>5, <2>1 DEF ReviewInv, AskedHeld, Question
  <2> QED
    BY <1>3, <1>5, <1>6, <2>2 DEF ReviewInv, AskedHeld
<1>9. SizeHeld' /\ PagesHeld'
  BY <1>3, <1>5, <1>6 DEF ReviewInv, SizeHeld, PagesHeld
<1> QED
  BY <1>7, <1>8, <1>9 DEF ReviewInv

\* Two expansions of which each is part of the other are the same.
LEMMA AtMostBoth ==
  ASSUME NEW v \in Views, NEW w \in Views, AtMost(v, w), AtMost(w, v)
  PROVE  v = w
<1>1. v.pages = w.pages
  <2>1. \A c \in Categories : v.pages[c] = w.pages[c]
    BY DEF AtMost
  <2> QED
    BY <2>1 DEF Views
<1>2. v.radius = w.radius
  BY DEF AtMost, Views
<1>3. v.related = w.related
  BY DEF AtMost, Views
<1> QED
  BY <1>1, <1>2, <1>3 DEF Views

LEMMA AtMostThrough ==
  ASSUME NEW u \in Views, NEW v \in Views, NEW w \in Views, AtMost(u, v), AtMost(v, w)
  PROVE  AtMost(u, w)
<1>1. \A c \in Categories : u.pages[c] \subseteq w.pages[c]
  BY DEF AtMost
<1>2. u.radius <= w.radius
  BY DEF AtMost, Views
<1>3. u.related => w.related
  BY DEF AtMost, Views
<1> QED
  BY <1>1, <1>2, <1>3 DEF AtMost

\* An expansion only adds to what was seen before.
LEMMA ExpandedMore ==
  ASSUME IInv, ReviewInv, node = "EXPAND_GRAPH"
  PROVE  /\ AtMost(graph.view, Expanded)
         /\ Expanded.related => graph.context.related
         /\ Expanded.radius > 0 =>
              /\ \E c \in Categories : Seen(c) # {}
              /\ Expanded.radius <= 2 + graph.depth /\ Expanded.radius <= 1 + reach
<1>1. /\ graph.depth \in Nat /\ reach \in Nat /\ graph.view \in Views
      /\ graph.context.related \in BOOLEAN
  BY CycleAssumption DEF IInv, Shapes, GraphStates, Contexts
<1>2. AskedHeld /\ node \in Reviewing
  BY DEF ReviewInv, Reviewing
<1> DEFINE further == IF graph.depth + 1 < reach THEN graph.depth + 1 ELSE reach
           radius == IF \E c \in Categories : Seen(c) # {} THEN 1 + further ELSE 0
<1>3. /\ further \in Nat /\ further <= graph.depth + 1 /\ further <= reach
      /\ further = graph.depth + 1 \/ further = reach
  BY <1>1
<1> HIDE DEF further
<1>4. /\ radius \in Nat
      /\ radius > 0 => /\ \E c \in Categories : Seen(c) # {}
                        /\ radius <= 2 + graph.depth /\ radius <= 1 + reach
      /\ (\E c \in Categories : Seen(c) # {}) => radius = 1 + further
  BY <1>1, <1>3
<1> HIDE DEF radius
<1>5. /\ Expanded.radius = radius /\ Expanded.related = graph.context.related
      /\ \A c \in Categories : graph.view.pages[c] \subseteq Expanded.pages[c]
  BY DEF Expanded, radius, further
<1>6. graph.view.radius <= radius
  <2>1. graph.view.radius \in Nat
    BY <1>1 DEF Views
  <2>2. CASE graph.view.radius = 0
    BY <1>4, <2>2
  <2>3. CASE graph.view.radius > 0
    <3>1. /\ radius = 1 + further
          /\ graph.view.radius <= 1 + graph.depth /\ graph.view.radius <= 1 + reach
      BY <1>2, <1>4, <2>3 DEF AskedHeld
    <3> QED
      BY <1>1, <1>3, <2>1, <3>1
  <2> QED
    BY <2>1, <2>2, <2>3
<1>7. graph.view.related => graph.context.related
  BY <1>2 DEF AskedHeld
<1> QED
  BY <1>4, <1>5, <1>6, <1>7 DEF AtMost

\* A page ends where the ones before it begin. A short one reaches the oldest memory.
LEMMA NextPageIs ==
  ASSUME NEW n \in Nat, NEW k \in Nat
  PROVE  LET top == n - k * PageSize IN
         /\ top \in Int /\ n - (k + 1) * PageSize = top - PageSize
         /\ Page(n, k) = {i \in 1 .. n : top - PageSize < i /\ i <= top}
         /\ Cardinality(Page(n, k)) < PageSize => top - PageSize < 0
<1>1. PageSize \in Nat \ {0}
  BY CycleAssumption
<1> DEFINE top == n - k * PageSize
<1>2. top \in Int /\ top <= n
  BY <1>1
<1>3. n - (k + 1) * PageSize = top - PageSize
  BY <1>1
<1> HIDE DEF top
<1>4. Page(n, k) = {i \in 1 .. n : top - PageSize < i /\ i <= top}
  BY <1>3 DEF Page, top
<1>5. ASSUME top - PageSize >= 0
      PROVE  Cardinality(Page(n, k)) = PageSize
  <2>1. Page(n, k) = (top - PageSize + 1) .. top
    BY <1>1, <1>2, <1>4, <1>5
  <2>2. Cardinality((top - PageSize + 1) .. top) = top - (top - PageSize + 1) + 1
    BY <1>1, <1>2, FS_Interval
  <2> QED
    BY <1>1, <1>2, <2>1, <2>2
<1> QED
  BY <1>1, <1>2, <1>3, <1>4, <1>5 DEF top

\* One more page keeps the seen part of a category its newest, without a gap.
LEMMA ExpandPagesStep ==
  ASSUME IInv, ReviewInv, ExpandGraph
  PROVE  PagesHeld'
<1> DEFINE read == [c \in Categories |-> graph.exhausted[c] \/
                     (c \in Unread /\ Cardinality(NextPage(c)) < PageSize)]
<1>1. graph \in GraphStates /\ PageSize \in Nat \ {0}
  BY CycleAssumption DEF IInv, Shapes
<1>2. /\ node = "EXPAND_GRAPH" /\ processes' = processes
      /\ graph' = [graph EXCEPT !.depth = graph.depth + 1, !.view = Expanded, !.exhausted = read]
  BY DEF ExpandGraph, Think, Go
<1> HIDE DEF read
<1>3. /\ graph'.depth = graph.depth + 1 /\ graph'.view = Expanded /\ graph'.exhausted = read
      /\ graph'.context = graph.context /\ graph'.active = graph.active
  BY <1>1, <1>2 DEF GraphStates
<1> SUFFICES ASSUME NEW c \in Categories
             PROVE  LET size == graph.context.size[c] IN
                    /\ Seen(c)' \subseteq 1 .. size
                    /\ \A i \in Seen(c)', j \in 1 .. size : j >= i => j \in Seen(c)'
                    /\ graph'.exhausted[c] => 1 \in Seen(c)'
                    /\ ~graph'.exhausted[c] /\ size > PageSize =>
                         \A i \in 1 .. size :
                           i > processes[graph.active].size[c] - (graph'.depth + 1) * PageSize =>
                             i \in Seen(c)'
  BY <1>2, <1>3 DEF PagesHeld
<1> DEFINE size == graph.context.size[c]
           n == processes[graph.active].size[c]
           k == graph.depth + 1
           top == n - k * PageSize
<1>4. /\ size \in Nat /\ n \in Nat /\ k \in Nat /\ k >= 1 /\ n <= size + 1
  <2>1. graph.active \in DOMAIN processes /\ processes \in Seq(Row)
    BY <1>2 DEF IInv, Shapes, Sessions, ProcessHeld, Early, Ends, Done
  <2>2. processes[graph.active] \in Row
    BY <2>1
  <2>3. graph.context \in Contexts /\ graph.depth \in Nat
    BY <1>1, CycleAssumption DEF GraphStates
  <2>4. n <= size + 1
    BY <1>2 DEF ReviewInv, SizeHeld, Reviewing
  <2> QED
    BY <2>2, <2>3, <2>4 DEF Row, Contexts
<1>5. /\ Seen(c) \subseteq 1 .. size
      /\ \A i \in Seen(c), j \in 1 .. size : j >= i => j \in Seen(c)
      /\ graph.exhausted[c] => 1 \in Seen(c)
      /\ ~graph.exhausted[c] /\ size > PageSize => \A i \in 1 .. size : i > top => i \in Seen(c)
  BY <1>2 DEF ReviewInv, PagesHeld, Reviewing
<1>6. /\ Seen(c)' = Seen(c) \cup (IF c \in Unread THEN NextPage(c) ELSE {})
      /\ read[c] = (graph.exhausted[c] \/ (c \in Unread /\ Cardinality(NextPage(c)) < PageSize))
      /\ c \in Unread <=> size > PageSize /\ ~graph.exhausted[c]
  BY <1>3 DEF Seen, Loaded, Expanded, Unread, read
<1>7. /\ top \in Int /\ n - (k + 1) * PageSize = top - PageSize
      /\ NextPage(c) = {i \in 1 .. n : top - PageSize < i /\ i <= top}
      /\ Cardinality(NextPage(c)) < PageSize => top - PageSize < 0
  BY <1>4, NextPageIs DEF NextPage
<1>8. top <= n - 1
  <2> HIDE DEF n, k
  <2> DEFINE m == k * PageSize
  <2>1. m \in Int /\ m >= 1
    BY <1>1, <1>4
  <2> HIDE DEF m
  <2>2. n - m <= n - 1
    BY <1>4, <2>1
  <2> QED
    BY <2>2 DEF m
<1>9. n - (graph'.depth + 1) * PageSize = top - PageSize
  BY <1>3, <1>7
<1> DEFINE short == Cardinality(NextPage(c)) < PageSize
<1>10. graph'.exhausted[c] <=> graph.exhausted[c] \/ (c \in Unread /\ short)
  BY <1>3, <1>6
<1>11. short => top - PageSize < 0
  BY <1>7
<1> HIDE DEF size, n, k, top, short
<1>12. CASE c \in Unread
  <2>1. Seen(c)' = Seen(c) \cup NextPage(c) /\ size > PageSize /\ ~graph.exhausted[c]
    BY <1>6, <1>12
  <2>2. \A i \in 1 .. size : i > top - PageSize => i \in Seen(c)'
    <3> SUFFICES ASSUME NEW i \in 1 .. size, i > top - PageSize PROVE i \in Seen(c)'
      OBVIOUS
    <3>1. CASE i > top
      BY <1>5, <2>1, <3>1
    <3>2. CASE i <= top
      <4>1. i \in 1 .. n
        BY <1>4, <1>7, <1>8, <3>2
      <4> QED
        BY <1>7, <2>1, <3>2, <4>1
    <3> QED
      BY <1>7, <3>1, <3>2
  <2>3. Seen(c)' \subseteq 1 .. size
    <3>1. NextPage(c) \subseteq 1 .. size
      BY <1>4, <1>7, <1>8
    <3> QED
      BY <1>5, <2>1, <3>1
  <2>4. \A i \in Seen(c)', j \in 1 .. size : j >= i => j \in Seen(c)'
    <3> SUFFICES ASSUME NEW i \in Seen(c)', NEW j \in 1 .. size, j >= i PROVE j \in Seen(c)'
      OBVIOUS
    <3>1. CASE i \in Seen(c)
      BY <1>5, <2>1, <3>1
    <3>2. CASE i \in NextPage(c)
      <4>1. j > top - PageSize
        BY <1>1, <1>7, <3>2
      <4> QED
        BY <2>2, <4>1
    <3> QED
      BY <2>1, <3>1, <3>2
  <2>5. short => 1 \in Seen(c)'
    <3>1. 1 \in 1 .. size
      BY <1>1, <1>4, <2>1
    <3> QED
      BY <1>1, <1>7, <1>11, <2>2, <3>1
  <2> QED
    BY <1>9, <1>10, <2>1, <2>2, <2>3, <2>4, <2>5 DEF size, n
<1>13. CASE c \notin Unread
  <2>1. Seen(c)' = Seen(c) /\ (graph'.exhausted[c] <=> graph.exhausted[c])
    BY <1>6, <1>10, <1>13
  <2> QED
    BY <1>5, <1>6, <1>13, <2>1 DEF size
<1> QED
  BY <1>12, <1>13

LEMMA ExpandReviewStep ==
  ASSUME IInv, IInv', ReviewInv, ExpandGraph
  PROVE  ReviewInv'
<1>1. graph \in GraphStates /\ Expanded \in Views
  BY ExpandedKeeps DEF IInv, Shapes
<1>2. /\ node = "EXPAND_GRAPH" /\ UNCHANGED <<asked, processes, late, reach>>
      /\ node' = IF Unchanged THEN "FINALIZE" ELSE "SUPERVISION_DECISION"
      /\ graph'.view = Expanded /\ graph'.context = graph.context /\ graph'.active = graph.active
      /\ graph'.depth = graph.depth + 1 /\ graph'.continuity = graph.continuity
  BY <1>1 DEF ExpandGraph, Think, Go, cohort, GraphStates
<1>3. ReviewFresh'
  BY <1>2 DEF ReviewFresh, BeforeReview, Early, IInv, TransitionHeld, Ending, Pivot
<1>4. AskedHeld'
  <2> SUFFICES ASSUME node' = "SUPERVISION_DECISION" PROVE AskedHeld'
    BY <1>2 DEF AskedHeld, Reviewing
  <2>1. AskedHeld /\ node \in Reviewing /\ Expanded # graph.view
    BY <1>2 DEF ReviewInv, Reviewing, Unchanged
  <2>2. /\ AtMost(graph.view, Expanded)
        /\ Expanded.related => graph.context.related
        /\ Expanded.radius > 0 =>
             /\ \E c \in Categories : Seen(c) # {}
             /\ Expanded.radius <= 2 + graph.depth /\ Expanded.radius <= 1 + reach
    BY <1>2, ExpandedMore
  <2>3. graph.view \in Views
    BY <1>1 DEF GraphStates
  <2>4. \A q \in asked : \E v \in Views : /\ q = <<graph.context, v>>
                                         /\ AtMost(v, Expanded) /\ v # Expanded
    <3> SUFFICES ASSUME NEW q \in asked
                 PROVE  \E v \in Views : /\ q = <<graph.context, v>>
                                        /\ AtMost(v, Expanded) /\ v # Expanded
      OBVIOUS
    <3>1. PICK v \in Views : q = <<graph.context, v>> /\ AtMost(v, graph.view)
      BY <2>1 DEF AskedHeld
    <3>2. AtMost(v, Expanded)
      BY <1>1, <2>2, <2>3, <3>1, AtMostThrough
    <3>3. v # Expanded
      BY <1>1, <2>1, <2>2, <2>3, <3>1, AtMostBoth
    <3> QED
      BY <3>1, <3>2, <3>3
  <2>5. Question' = <<graph.context, Expanded>> /\ Question' \notin asked
    BY <1>2, <2>4 DEF Question
  <2>6. \A c \in Categories : Seen(c) # {} => Seen(c)' # {}
    <3>1. \A c \in Categories : Seen(c) \subseteq Seen(c)'
      BY <1>2, <2>2 DEF Seen, Loaded, AtMost
    <3> QED
      BY <3>1
  <2>7. 2 + graph.depth = 1 + graph'.depth
    BY <1>1, <1>2 DEF GraphStates
  <2> QED
    BY <1>2, <2>2, <2>4, <2>5, <2>6, <2>7 DEF AskedHeld
<1>5. SizeHeld'
  BY <1>2 DEF ReviewInv, SizeHeld, Reviewing
<1>6. PagesHeld'
  BY ExpandPagesStep
<1> QED
  BY <1>3, <1>4, <1>5, <1>6 DEF ReviewInv

\* A late memory moves the pages by one, towards those already read.
LEMMA LandReviewStep ==
  ASSUME IInv, IInv', ReviewInv, Land
  PROVE  ReviewInv'
<1>1. processes \in Sessions /\ late \in Nat /\ graph \in GraphStates /\ PageSize \in Nat
  BY CycleAssumption DEF IInv, Shapes
<1>2. late # 0 /\ late' = 0 /\ UNCHANGED <<node, graph, asked, reach>>
  BY DEF Land, cohort
<1>3. \A p \in DOMAIN processes, c \in Categories :
        processes'[p].size[c] \in {processes[p].size[c], processes[p].size[c] + 1}
  <2>1. PICK c \in Categories : processes' = Grown(late, {c})
    BY DEF Land
  <2> QED
    BY <1>1, <2>1, GrownKeeps
<1>4. \A c \in Categories : Seen(c)' = Seen(c)
  BY <1>2 DEF Seen, Loaded
<1>5. ReviewFresh' /\ AskedHeld'
  BY <1>2, <1>4 DEF ReviewInv, ReviewFresh, AskedHeld, Question, Pivot
<1>6. node \in Reviewing => graph.active \in DOMAIN processes
  BY <1>1 DEF IInv, ProcessHeld, Sessions, Reviewing, Early, Ends, Done
<1>7. ASSUME node \in Reviewing, NEW c \in Categories
      PROVE  LET now == processes'[graph.active].size[c] IN
             /\ now \in Nat /\ processes[graph.active].size[c] \in Nat
             /\ now >= processes[graph.active].size[c]
             /\ graph.context.size[c] <= now /\ now <= graph.context.size[c] + 1
  <2>1. processes[graph.active] \in Row
    BY <1>1, <1>6, <1>7 DEF Sessions
  <2>2. processes[graph.active].size[c] \in Nat
    BY <2>1 DEF Row
  <2>3. processes[graph.active].size[c] = graph.context.size[c]
    BY <1>2, <1>7 DEF ReviewInv, SizeHeld
  <2> QED
    BY <1>3, <1>6, <1>7, <2>2, <2>3
<1>8. SizeHeld'
  BY <1>2, <1>7 DEF SizeHeld
<1>9. PagesHeld'
  <2> SUFFICES ASSUME NEW c \in Categories, node \in Reviewing,
                      ~graph.exhausted[c], graph.context.size[c] > PageSize,
                      NEW i \in 1 .. graph.context.size[c],
                      i > processes'[graph.active].size[c] - (graph.depth + 1) * PageSize
               PROVE  i \in Seen(c)
    BY <1>2, <1>4 DEF ReviewInv, PagesHeld
  <2> DEFINE read == (graph.depth + 1) * PageSize
  <2>1. read \in Int
    BY <1>1 DEF GraphStates
  <2> HIDE DEF read
  <2>2. i > processes[graph.active].size[c] - read
    <3>1. i > processes'[graph.active].size[c] - read
      BY DEF read
    <3> QED
      BY <1>7, <2>1, <3>1
  <2> QED
    BY <2>2 DEF ReviewInv, PagesHeld, read
<1> QED
  BY <1>5, <1>8, <1>9 DEF ReviewInv

LEMMA ReviewStarts == Init => ReviewInv
<1> SUFFICES ASSUME Init PROVE ReviewInv
  OBVIOUS
<1>1. /\ graph.view = NoView /\ graph.depth = 0 /\ ~Pivot /\ node \notin Reviewing /\ asked = {}
      /\ \A c \in Categories : ~graph.exhausted[c] /\ graph.context.size[c] = 0
  BY DEF Init, Fresh, NoContext, Empty, Pivot, Reviewing
<1>2. \A c \in Categories : Seen(c) = {}
  BY <1>1 DEF Seen, Loaded, NoView
<1> QED
  BY <1>1, <1>2 DEF ReviewInv, ReviewFresh, AskedHeld, SizeHeld, PagesHeld

LEMMA ReviewStutters == ReviewInv /\ UNCHANGED vars => ReviewInv'
<1> SUFFICES ASSUME ReviewInv, UNCHANGED vars PROVE ReviewInv'
  OBVIOUS
<1>1. \A c \in Categories : Seen(c)' = Seen(c)
  BY DEF vars, Seen, Loaded
<1> QED
  BY <1>1 DEF vars, cohort, ReviewInv, ReviewFresh, AskedHeld, SizeHeld, PagesHeld, Question, Pivot

\* What has been asked and seen of the memories stays as described, in every attempt.
LEMMA ReviewInvariant == Spec => [](IInv /\ ReviewInv)
<1>1. IInv /\ IInv' /\ ReviewInv /\ [Next]_vars => ReviewInv'
  <2> SUFFICES ASSUME IInv, IInv', ReviewInv, Next PROVE ReviewInv'
    BY ReviewStutters
  <2>1. CASE Finalize
    BY <2>1, NothingSeen DEF Finalize, Think, Go, Reviewing, BeforeReview, Early
  <2>2. CASE Interrupt
    BY <2>2, NothingSeen DEF Interrupt, Reviewing
  <2> QED
    BY <2>1, <2>2, PlainReviewSteps, LoadReviewStep, DecisionReviewStep, ExpandReviewStep,
      StartReviewStep, LandReviewStep DEF Next
<1> QED
  BY Invariance, ReviewStarts, <1>1, PTL DEF Spec

\* supervision_decision calls Jev only when the expansion before it has found something
\* (memory_expansion_exhausted in nodes/expand_graph.py): no attempt asks the same twice.
THEOREM NothingAskedTwice == Spec => []AsksSomethingNew
<1>1. ReviewInv => AsksSomethingNew
  BY DEF ReviewInv, AskedHeld, AsksSomethingNew, Reviewing
<1> QED
  BY ReviewInvariant, <1>1, PTL

\* The pages that EXPAND_GRAPH reads by offset join up, though a memory may arrive between two
\* expansions, and a short page has reached the oldest memory (nodes/expand_graph.py).
THEOREM PagesJoin == Spec => []NoPageSkipped
<1>1. IInv /\ ReviewInv => NoPageSkipped
  <2> SUFFICES ASSUME IInv, ReviewInv, NEW c \in Categories
               PROVE  /\ \A i, j \in Seen(c) : (i .. j) \subseteq Seen(c)
                      /\ graph.exhausted[c] => 1 \in Seen(c)
    BY DEF NoPageSkipped
  <2>1. /\ Seen(c) \subseteq 1 .. graph.context.size[c]
        /\ \A i \in Seen(c), j \in 1 .. graph.context.size[c] : j >= i => j \in Seen(c)
        /\ graph.exhausted[c] => 1 \in Seen(c)
    BY DEF ReviewInv, PagesHeld
  <2>2. graph.context.size[c] \in Nat
    BY DEF IInv, Shapes, GraphStates, Contexts
  <2>3. ASSUME NEW i \in Seen(c), NEW j \in Seen(c), NEW l \in i .. j
        PROVE  l \in Seen(c)
    <3>1. l \in 1 .. graph.context.size[c] /\ l >= i
      BY <2>1, <2>2
    <3> QED
      BY <2>1, <3>1
  <2> QED
    BY <2>1, <2>3
<1> QED
  BY ReviewInvariant, <1>1, PTL

-----------------------------------------------------------------------------
(* What an acknowledged cycle has delivered and remembered. *)

\* A recovery leads to its message, and leaves the processes as they are.
RecoveryHeld ==
  health = "recover" =>
    /\ \A p \in DOMAIN processes : processes[p].summary = "none"
    /\ node \in Early \cup Ends \cup {"LOAD_PROCESS_CONTEXT", "SEND_INTERVENTION", "RECORD_INTERVENTION"}
    /\ node \in {"ENSURE_ACTIVE_PROCESS", "LOAD_PROCESS_CONTEXT"} => graph.health = "recover"
    /\ node \in {"FINALIZE", "END"} => delivery = "known"

\* From here to the end of the attempt the memory update is complete in the active process.
AfterUpdate == {"SUPERVISION_DECISION", "EXPAND_GRAPH", "BUILD_INTERVENTION", "SEND_INTERVENTION",
                "RECORD_INTERVENTION", "FINALIZE", "END"}
Updated ==
  \/ node \in AfterUpdate
  \/ node = "LOAD_PROCESS_CONTEXT" /\ graph.reload = "memory_update"
  \/ node \in {"WRITE_PROCESS_SUMMARY", "CLOSE_CURRENT_PROCESS"} /\ ~Pivot

\* Unless a process is being succeeded, it is summarised only when its memories are complete.
SummariesHeld == \A p \in DOMAIN processes : processes[p].summary \in Final => processes[p].remembered
MemoriesHeld ==
  health = "normal" =>
    /\ SummariesHeld
    /\ Updated => Last > 0 /\ processes[Last].remembered
    /\ graph.health \in {"none", "normal"}

OutcomeInv == RecoveryHeld /\ MemoriesHeld

LEMMA OutcomeStarts == Init => OutcomeInv
<1> SUFFICES ASSUME Init PROVE OutcomeInv
  OBVIOUS
<1>1. node = "READ_INBOX" /\ graph = Fresh /\ graph.health = "none"
  BY DEF Init, Fresh
<1>2. \A p \in DOMAIN processes : processes[p].summary = "none"
  BY DEF Init, Process
<1>3. ~Updated
  BY <1>1 DEF Updated, AfterUpdate
<1> QED
  BY <1>1, <1>2, <1>3 DEF OutcomeInv, RecoveryHeld, MemoriesHeld, SummariesHeld, Early, Final

\* The nodes that write no process: where the update is complete, it was so before.
LEMMA ThinkingOutcome ==
  ASSUME IInv, IInv', OutcomeInv, UNCHANGED <<processes, health>>,
         health = "recover" =>
           /\ node' \in Early \cup Ends \cup {"LOAD_PROCESS_CONTEXT", "SEND_INTERVENTION",
                                              "RECORD_INTERVENTION"}
           /\ node' \in {"ENSURE_ACTIVE_PROCESS", "LOAD_PROCESS_CONTEXT"} => graph'.health = "recover"
           /\ node' \in {"FINALIZE", "END"} => delivery' = "known",
         health = "normal" => (Updated' => Updated) /\ graph'.health \in {"none", "normal"}
  PROVE  OutcomeInv'
<1>1. RecoveryHeld'
  BY DEF OutcomeInv, RecoveryHeld
<1>2. MemoriesHeld'
  BY DEF OutcomeInv, MemoriesHeld, SummariesHeld, Last
<1> QED
  BY <1>1, <1>2 DEF OutcomeInv

LEMMA ThinkingSteps ==
  ASSUME IInv, IInv', OutcomeInv,
         \/ ReadInbox \/ AssessAgentHealth \/ LoadProcessContext \/ AssessProcessContinuity
         \/ ProposeMemories \/ SupervisionDecision \/ ExpandGraph
         \/ BuildIntervention \/ SendIntervention \/ RecordIntervention
         \/ WriteProcessSummary \/ Finalize
  PROVE  OutcomeInv'
<1> USE DEF Think, Go, cohort
<1>1. graph \in GraphStates /\ node \in Nodes \cup Done
  BY DEF IInv, Shapes
<1>2. /\ health = "recover" => node \in Early \cup Ends \cup
           {"LOAD_PROCESS_CONTEXT", "SEND_INTERVENTION", "RECORD_INTERVENTION"}
      /\ health = "normal" => graph.health \in {"none", "normal"}
  BY DEF OutcomeInv, RecoveryHeld, MemoriesHeld
<1>3. CASE ReadInbox
  BY <1>2, <1>3, ThinkingOutcome DEF ReadInbox, Early, Updated, AfterUpdate
<1>4. CASE AssessAgentHealth
  <2> DEFINE m == (health = "recover")
  <2>1. /\ graph' = [graph EXCEPT !.health = health, !.message = m]
        /\ node' = IF health = "heartbeat" THEN "FINALIZE" ELSE "ENSURE_ACTIVE_PROCESS"
        /\ UNCHANGED <<processes, health>>
    BY <1>4 DEF AssessAgentHealth
  <2> HIDE DEF m
  <2>2. graph'.health = health
    BY <1>1, <2>1 DEF GraphStates
  <2> QED
    BY <2>1, <2>2, ThinkingOutcome DEF Early, Updated, AfterUpdate
<1>5. CASE LoadProcessContext
  <2>1. /\ node = "LOAD_PROCESS_CONTEXT" /\ node' = Route /\ UNCHANGED <<processes, health>>
        /\ graph'.health = graph.health
    BY <1>1, <1>5 DEF LoadProcessContext, GraphStates
  <2>2. health = "recover" => node' = "SEND_INTERVENTION"
    BY <2>1 DEF OutcomeInv, RecoveryHeld, Route
  <2>3. health = "normal" => (Updated' => Updated)
    BY <1>1, <1>2, <2>1 DEF Route, AfterReload, Updated, AfterUpdate, GraphStates
  <2> QED
    BY <1>2, <2>1, <2>2, <2>3, ThinkingOutcome
<1>6. CASE AssessProcessContinuity
  <2>1. /\ node = "ASSESS_PROCESS_CONTINUITY" /\ UNCHANGED <<processes, health>>
        /\ graph'.health = graph.health
        /\ \/ node' = "EXTRACT_MEMORY_CANDIDATES"
           \/ node' = "WRITE_PROCESS_SUMMARY" /\ graph'.continuity = "NEW_PROCESS"
    BY <1>1, <1>6 DEF AssessProcessContinuity, GraphStates
  <2> QED
    BY <1>2, <2>1, ThinkingOutcome DEF Updated, AfterUpdate, Pivot, Early, Ends, Done
<1>7. CASE ProposeMemories
  <2>1. /\ node \in DOMAIN AfterThinking /\ node' = AfterThinking[node]
        /\ UNCHANGED <<graph, processes, health>>
    BY <1>7 DEF ProposeMemories
  <2> QED
    BY <1>2, <2>1, ThinkingOutcome DEF AfterThinking, Updated, AfterUpdate, Early, Ends, Done
<1>8. CASE SupervisionDecision
  <2>1. Shapes /\ TransitionHeld
    BY DEF IInv
  <2>2. PICK d \in DecisionRecords :
          /\ node = "SUPERVISION_DECISION" /\ graph' = [graph EXCEPT !.decision = d]
          /\ UNCHANGED <<processes, cohort>>
    BY <1>8, <2>1, DecisionMade
  <2>3. graph'.health = graph.health
    BY <1>1, <2>2 DEF GraphStates
  <2> QED
    BY <1>2, <2>2, <2>3, ThinkingOutcome DEF Updated, AfterUpdate, Early, Ends, Done
<1>9. CASE ExpandGraph \/ BuildIntervention \/ SendIntervention \/ RecordIntervention
  <2>1. /\ UNCHANGED <<processes, health>>
        /\ graph'.health = graph.health
        /\ node \in {"EXPAND_GRAPH", "BUILD_INTERVENTION", "SEND_INTERVENTION", "RECORD_INTERVENTION"}
        /\ node = "SEND_INTERVENTION" => node' = "RECORD_INTERVENTION"
        /\ node = "RECORD_INTERVENTION" => node' = "FINALIZE" /\ delivery' = "known"
    BY <1>1, <1>9 DEF ExpandGraph, BuildIntervention, SendIntervention, RecordIntervention, GraphStates
  <2> QED
    BY <1>2, <2>1, ThinkingOutcome DEF Updated, AfterUpdate, Early, Ends, Done
<1>10. CASE WriteProcessSummary
  <2>1. /\ node = "WRITE_PROCESS_SUMMARY" /\ node' = "CLOSE_CURRENT_PROCESS"
        /\ UNCHANGED <<processes, health>>
        /\ graph'.health = graph.health /\ graph'.continuity = graph.continuity
    BY <1>1, <1>10 DEF WriteProcessSummary, GraphStates
  <2> QED
    BY <1>2, <2>1, ThinkingOutcome DEF Updated, AfterUpdate, Pivot, Early, Ends, Done
<1>11. CASE Finalize
  <2>1. /\ node = "FINALIZE" /\ node' = "END" /\ UNCHANGED <<processes, health, delivery>>
        /\ graph'.health = "none"
    BY <1>11 DEF Finalize, Fresh
  <2>2. health = "recover" => delivery' = "known"
    BY <2>1 DEF OutcomeInv, RecoveryHeld
  <2> QED
    BY <2>1, <2>2, ThinkingOutcome DEF Updated, AfterUpdate, Ends, Done
<1> QED
  BY <1>3, <1>4, <1>5, <1>6, <1>7, <1>8, <1>9, <1>10, <1>11

\* The nodes that write processes, and an interruption inside any of them.
LEMMA EnsureOutcome ==
  ASSUME IInv, IInv', OutcomeInv, EnsureActiveProcess
  PROVE  OutcomeInv'
<1>1. processes \in Sessions /\ graph \in GraphStates
  BY DEF IInv, Shapes
<1> DEFINE r == IF ~Completed /\ (AwaitsSuccessor(Settled) \/ Recovers) THEN "new_process" ELSE "none"
<1>2. /\ node = "ENSURE_ACTIVE_PROCESS" /\ processes' = Ensured /\ health' = health
      /\ node' = IF Completed THEN "FINALIZE" ELSE "LOAD_PROCESS_CONTEXT"
      /\ graph' = [graph EXCEPT !.active = Len(Ensured), !.reload = r]
  BY DEF EnsureActiveProcess, Go, cohort
<1>3. r \in {"new_process", "none"}
  OBVIOUS
<1> HIDE DEF r
<1>4. graph'.health = graph.health /\ graph'.reload # "memory_update"
  BY <1>1, <1>2, <1>3 DEF GraphStates
<1>5. /\ Len(Settled) = Last /\ (Completed => Ensured = Settled)
      /\ \A q \in DOMAIN Ensured :
           IF q \in DOMAIN processes
           THEN /\ Ensured[q].summary = processes[q].summary
                /\ Ensured[q].remembered = processes[q].remembered
           ELSE Ensured[q].summary = "none"
  BY <1>1, EnsuredKeeps
<1>6. Completed => /\ Last > 0 /\ processes[Last].summary \in Outcomes
                   /\ processes[Last].summary # "SUPERSEDED"
  <2> SUFFICES ASSUME OwnSummary, ~AwaitsSuccessor(Settled)
               PROVE  /\ Last > 0 /\ processes[Last].summary \in Outcomes
                      /\ processes[Last].summary # "SUPERSEDED"
    BY DEF Completed
  <2>1. Last \in DOMAIN processes /\ processes[Last] \in Row /\ Last \in Nat
    BY <1>1 DEF OwnSummary, Last, Sessions
  <2>2. processes[Last].summary \in Outcomes
    BY <2>1 DEF OwnSummary, Row
  <2>3. Settled[Last].status = processes[Last].summary
    BY <1>1, <2>1, <2>2, EndedKeeps DEF Settled, CarriedThrough
  <2>4. Settled[Len(Settled)].status # "SUPERSEDED"
    BY <1>5, <2>1 DEF OwnSummary, AwaitsSuccessor
  <2> QED
    BY <1>5, <2>2, <2>3, <2>4 DEF OwnSummary
<1>7. RecoveryHeld'
  <2> SUFFICES ASSUME health = "recover" PROVE RecoveryHeld'
    BY <1>2 DEF RecoveryHeld
  <2>1. /\ \A p \in DOMAIN processes : processes[p].summary = "none"
        /\ graph.health = "recover"
    BY <1>2 DEF OutcomeInv, RecoveryHeld
  <2>2. ~Completed
    BY <1>1, <2>1 DEF Completed, OwnSummary, Last, Sessions
  <2> QED
    BY <1>2, <1>4, <1>5, <2>1, <2>2 DEF RecoveryHeld
<1>8. MemoriesHeld'
  <2> SUFFICES ASSUME health = "normal" PROVE MemoriesHeld'
    BY <1>2 DEF MemoriesHeld
  <2>1. SummariesHeld /\ graph.health \in {"none", "normal"}
    BY DEF OutcomeInv, MemoriesHeld
  <2>2. SummariesHeld'
    BY <1>2, <1>5, <2>1 DEF SummariesHeld, Final
  <2>3. Updated' => Last' > 0 /\ processes'[Last'].remembered
    <3> SUFFICES ASSUME Updated' PROVE Last' > 0 /\ processes'[Last'].remembered
      OBVIOUS
    <3>1. Completed
      BY <1>2, <1>4 DEF Updated, AfterUpdate
    <3>2. Last' = Last /\ Last > 0 /\ Last \in DOMAIN processes /\ Last \in DOMAIN Ensured
      BY <1>1, <1>2, <1>5, <1>6, <3>1, EnsuredKeeps DEF Last, Sessions
    <3>3. processes[Last].remembered
      BY <1>6, <2>1, <3>1, <3>2 DEF SummariesHeld, Outcomes
    <3> QED
      BY <1>2, <1>5, <3>2, <3>3
  <2> QED
    BY <1>4, <2>1, <2>2, <2>3 DEF MemoriesHeld
<1> QED
  BY <1>7, <1>8 DEF OutcomeInv

LEMMA ApplyOutcome ==
  ASSUME IInv, IInv', OutcomeInv, ApplyMemoryUpdate
  PROVE  OutcomeInv'
<1>1. processes \in Sessions /\ graph \in GraphStates
  BY DEF IInv, Shapes
<1>2. /\ node = "APPLY_MEMORY_UPDATE" /\ node' = "LOAD_PROCESS_CONTEXT" /\ health' = health
      /\ graph'.health = graph.health
  BY <1>1 DEF ApplyMemoryUpdate, AfterApply, Go, cohort, GraphStates
<1>3. graph.active = Last /\ Last \in DOMAIN processes /\ Last > 0
  BY <1>1, <1>2 DEF IInv, ProcessHeld, Early, Ends, Done, Last, Sessions
<1>4. PICK kept \in SUBSET Categories :
        processes' = [Grown(Last, kept) EXCEPT ![Last].remembered = TRUE]
  BY <1>3 DEF ApplyMemoryUpdate
<1>5. /\ Len(processes') = Len(processes) /\ processes'[Last].remembered
      /\ \A q \in DOMAIN processes : /\ processes'[q].summary = processes[q].summary
                                     /\ processes[q].remembered => processes'[q].remembered
  <2> DEFINE new == [Grown(Last, kept) EXCEPT ![Last].remembered = TRUE]
  <2>1. /\ Len(new) = Len(processes) /\ new[Last].remembered = TRUE
        /\ \A q \in DOMAIN processes : /\ new[q].summary = processes[q].summary
                                       /\ processes[q].remembered => new[q].remembered
    BY <1>1, <1>3, UpdateKeeps
  <2> QED
    BY <1>4, <2>1
<1>6. DOMAIN processes' = DOMAIN processes /\ Last' = Last
  BY <1>1, <1>5 DEF IInv, Shapes, Sessions, Last
<1>7. health # "recover"
  BY <1>2 DEF OutcomeInv, RecoveryHeld, Early, Ends, Done
<1> QED
  BY <1>2, <1>3, <1>5, <1>6, <1>7 DEF OutcomeInv, RecoveryHeld, MemoriesHeld, SummariesHeld

\* A summary is written only for a process that is succeeded or whose memories are complete.
LEMMA ClosedOutcome ==
  ASSUME IInv, OutcomeInv, node = "CLOSE_CURRENT_PROCESS", CanClose
  PROVE  /\ health # "recover" /\ Last > 0 /\ graph.active = Last
         /\ graph.summary \in Outcomes /\ (health = "normal" /\ ~Pivot => processes[Last].remembered)
         /\ \A rows \in {Summarised, Closed} :
              /\ DOMAIN rows = DOMAIN processes
              /\ \A p \in DOMAIN processes :
                   /\ rows[p].remembered = processes[p].remembered
                   /\ health = "normal" /\ rows[p].summary \in Final => rows[p].remembered
<1>1. processes \in Sessions /\ graph \in GraphStates
  BY DEF IInv, Shapes
<1>2. graph.active = Last /\ Last \in DOMAIN processes /\ Last > 0
  BY <1>1 DEF IInv, ProcessHeld, Early, Ends, Done, Last, Sessions
<1>3. health # "recover"
  BY DEF OutcomeInv, RecoveryHeld, Early, Ends, Done
<1>4. graph.summary \in Outcomes /\ (Pivot => graph.summary = "SUPERSEDED")
  BY DEF CanClose
<1>5. health = "normal" /\ ~Pivot => processes[Last].remembered
  BY DEF OutcomeInv, MemoriesHeld, Updated
<1>6. /\ Len(Closed) = Len(processes) /\ Closed \in Sessions /\ DOMAIN Summarised = DOMAIN processes
      /\ \A q \in DOMAIN processes, rows \in {Summarised, Closed} :
           /\ rows[q].summary = IF q = graph.active THEN graph.summary ELSE processes[q].summary
           /\ rows[q].remembered = processes[q].remembered
  BY <1>1, <1>2, <1>4, ClosedKeeps
<1>7. DOMAIN Closed = DOMAIN processes
  BY <1>1, <1>6 DEF Sessions
<1>8. "SUPERSEDED" \notin Final
  BY DEF Final
<1> QED
  BY <1>2, <1>3, <1>4, <1>5, <1>6, <1>7, <1>8 DEF OutcomeInv, MemoriesHeld, SummariesHeld

LEMMA CloseOutcome ==
  ASSUME IInv, IInv', OutcomeInv, CloseCurrentProcess
  PROVE  OutcomeInv'
<1>1. /\ node = "CLOSE_CURRENT_PROCESS" /\ CanClose /\ processes' = Closed
      /\ node' = IF Pivot THEN "START_NEW_PROCESS" ELSE "FINALIZE"
      /\ graph' = graph /\ health' = health
  BY DEF CloseCurrentProcess, Go, cohort
<1>2. /\ health # "recover" /\ Last > 0
      /\ health = "normal" /\ ~Pivot => processes[Last].remembered
      /\ DOMAIN Closed = DOMAIN processes
      /\ \A p \in DOMAIN processes :
           /\ Closed[p].remembered = processes[p].remembered
           /\ health = "normal" /\ Closed[p].summary \in Final => Closed[p].remembered
  BY <1>1, ClosedOutcome
<1>3. Last' = Last /\ Last \in DOMAIN processes
  BY <1>1, <1>2 DEF IInv, Shapes, Sessions, Last
<1>4. Updated' => ~Pivot
  BY <1>1 DEF Updated, AfterUpdate
<1> QED
  BY <1>1, <1>2, <1>3, <1>4 DEF OutcomeInv, RecoveryHeld, MemoriesHeld, SummariesHeld

LEMMA StartOutcome ==
  ASSUME IInv, IInv', OutcomeInv, StartNewProcess
  PROVE  OutcomeInv'
<1>1. processes \in Sessions /\ graph \in GraphStates
  BY DEF IInv, Shapes
<1>2. /\ node = "START_NEW_PROCESS" /\ node' = "LOAD_PROCESS_CONTEXT" /\ health' = health
      /\ processes' = Started(processes)
      /\ graph'.health = graph.health /\ graph'.reload = "new_process"
  BY <1>1 DEF StartNewProcess, AfterStart, Go, cohort, GraphStates
<1>3. processes # <<>> => processes[Len(processes)].status # "ACTIVE"
  BY <1>2 DEF IInv, ProcessHeld, Early, Ends, Done
<1>4. /\ Len(Started(processes)) = Len(processes) + 1
      /\ Started(processes)[Len(processes) + 1].summary = "none"
      /\ \A p \in DOMAIN processes : Started(processes)[p] = processes[p]
  BY <1>1, <1>3, StartedKeeps
<1>5. \A p \in DOMAIN processes' : p \in DOMAIN processes \/ p = Len(processes) + 1
  BY <1>1, <1>2, <1>4 DEF IInv, Shapes, Sessions
<1>6. health # "recover"
  BY <1>2 DEF OutcomeInv, RecoveryHeld, Early, Ends, Done
<1>7. ~Updated'
  BY <1>2 DEF Updated, AfterUpdate
<1>8. SummariesHeld => SummariesHeld'
  BY <1>2, <1>4, <1>5 DEF SummariesHeld, Final
<1> QED
  BY <1>2, <1>6, <1>7, <1>8 DEF OutcomeInv, RecoveryHeld, MemoriesHeld

LEMMA PartialOutcome ==
  ASSUME IInv, OutcomeInv, processes' \in Partial
  PROVE  /\ health = "recover" => \A p \in DOMAIN processes' : processes'[p].summary = "none"
         /\ health = "normal" => SummariesHeld'
<1>1. processes \in Sessions /\ graph \in GraphStates
  BY DEF IInv, Shapes
<1>2. /\ health = "recover" =>
           /\ \A p \in DOMAIN processes : processes[p].summary = "none"
           /\ node \in Early \cup Ends \cup
                {"LOAD_PROCESS_CONTEXT", "SEND_INTERVENTION", "RECORD_INTERVENTION"}
      /\ health = "normal" => SummariesHeld
  BY DEF OutcomeInv, RecoveryHeld, MemoriesHeld
<1>3. CASE processes' = processes
  BY <1>2, <1>3 DEF SummariesHeld
<1>4. CASE node = "ENSURE_ACTIVE_PROCESS" /\ processes' \in {Settled, Ensured}
  <2>1. \A q \in DOMAIN processes' :
          IF q \in DOMAIN processes
          THEN /\ processes'[q].summary = processes[q].summary
               /\ processes'[q].remembered = processes[q].remembered
          ELSE processes'[q].summary = "none"
    <3>1. /\ Settled \in Sessions /\ Ensured \in Sessions /\ Last \in Nat
          /\ Len(Settled) = Last /\ Len(Ensured) \in {Last, Last + 1}
      BY <1>1, EnsuredKeeps DEF Sessions, Last
    <3>2. DOMAIN Settled = DOMAIN processes /\ DOMAIN Settled \subseteq DOMAIN Ensured
      BY <1>1, <3>1 DEF Sessions, Last
    <3> QED
      BY <1>1, <1>4, <3>2, EnsuredKeeps
  <2> QED
    BY <1>2, <2>1 DEF SummariesHeld, Final
<1>5. CASE node = "APPLY_MEMORY_UPDATE"
           /\ processes' \in {Grown(graph.active, kept) : kept \in SUBSET Categories}
  <2>1. PICK kept \in SUBSET Categories : processes' = Grown(graph.active, kept)
    BY <1>5
  <2>2. graph.active \in Nat
    BY <1>1 DEF GraphStates
  <2>3. /\ processes' \in Sessions /\ Len(processes') = Len(processes)
        /\ \A q \in DOMAIN processes : /\ processes'[q].summary = processes[q].summary
                                       /\ processes'[q].remembered = processes[q].remembered
    BY <1>1, <2>1, <2>2, GrownKeeps
  <2>4. DOMAIN processes' = DOMAIN processes
    BY <1>1, <2>3 DEF Sessions
  <2>5. health # "recover"
    BY <1>2, <1>5 DEF Early, Ends, Done
  <2> QED
    BY <1>2, <2>3, <2>4, <2>5 DEF SummariesHeld
<1>6. CASE node = "CLOSE_CURRENT_PROCESS" /\ CanClose /\ processes' \in {Summarised, Closed}
  BY <1>6, ClosedOutcome DEF SummariesHeld
<1>7. CASE node = "START_NEW_PROCESS" /\ CanStart /\ processes' \in {Started(processes)}
  <2>1. processes # <<>> => processes[Len(processes)].status # "ACTIVE"
    BY <1>7 DEF IInv, ProcessHeld, Early, Ends, Done
  <2>2. /\ Started(processes) \in Sessions
        /\ Len(Started(processes)) = Len(processes) + 1
        /\ Started(processes)[Len(processes) + 1].summary = "none"
        /\ \A p \in DOMAIN processes : Started(processes)[p] = processes[p]
    BY <1>1, <2>1, StartedKeeps
  <2>3. \A p \in DOMAIN processes' : p \in DOMAIN processes \/ p = Len(processes) + 1
    BY <1>1, <1>7, <2>2 DEF Sessions
  <2> QED
    BY <1>2, <1>7, <2>2, <2>3 DEF SummariesHeld, Final
<1> QED
  BY <1>3, <1>4, <1>5, <1>6, <1>7 DEF Partial

LEMMA InterruptOutcome ==
  ASSUME IInv, IInv', OutcomeInv, Interrupt
  PROVE  OutcomeInv'
<1>1. /\ node' \in {"FAILED", "READ_INBOX"} /\ graph'.health = "none" /\ health' = health
      /\ processes' \in Partial
  BY DEF Interrupt, Fresh, cohort
<1>2. ~Updated'
  BY <1>1 DEF Updated, AfterUpdate
<1> QED
  BY <1>1, <1>2, PartialOutcome
    DEF OutcomeInv, RecoveryHeld, MemoriesHeld, Early, Ends, Done

LEMMA LandOutcome ==
  ASSUME IInv, IInv', OutcomeInv, Land
  PROVE  OutcomeInv'
<1>1. processes \in Sessions /\ late \in Nat
  BY DEF IInv, Shapes
<1>2. UNCHANGED <<node, graph, delivery, health>> /\ \E c \in Categories : processes' = Grown(late, {c})
  BY DEF Land, cohort
<1>3. /\ processes' \in Sessions /\ Len(processes') = Len(processes)
      /\ \A q \in DOMAIN processes : /\ processes'[q].summary = processes[q].summary
                                     /\ processes'[q].remembered = processes[q].remembered
  BY <1>1, <1>2, GrownKeeps
<1>4. DOMAIN processes' = DOMAIN processes /\ Last' = Last /\ (Last > 0 => Last \in DOMAIN processes)
  BY <1>1, <1>3 DEF Sessions, Last
<1> QED
  BY <1>2, <1>3, <1>4 DEF OutcomeInv, RecoveryHeld, MemoriesHeld, SummariesHeld, Updated, Pivot

LEMMA OutcomeStutters == OutcomeInv /\ UNCHANGED vars => OutcomeInv'
  BY DEF vars, cohort, OutcomeInv, RecoveryHeld, MemoriesHeld, SummariesHeld, Updated, Pivot, Last

\* What a cycle owes to its events is done by the time it comes to acknowledge them.
LEMMA OutcomeInvariant == Spec => [](IInv /\ OutcomeInv)
<1>1. IInv /\ IInv' /\ OutcomeInv /\ [Next]_vars => OutcomeInv'
  BY OutcomeStutters, ThinkingSteps, EnsureOutcome, ApplyOutcome, CloseOutcome, StartOutcome,
    InterruptOutcome, LandOutcome DEF Next
<1> QED
  BY Invariance, OutcomeStarts, <1>1, PTL DEF Spec

\* Events that report an internal error of the agent are acknowledged by FINALIZE only when the
\* recovery message of SEND_INTERVENTION was queued or delivered, whatever the processes are in.
THEOREM RecoverySent == Spec => []RecoveryIsDelivered
<1>1. OutcomeInv => RecoveryIsDelivered
  BY DEF OutcomeInv, RecoveryHeld, RecoveryIsDelivered
<1> QED
  BY OutcomeInvariant, <1>1, PTL

\* Other events are acknowledged only after apply_memory_update has completed in the process that
\* the session is left in, also when ENSURE_ACTIVE_PROCESS finds the cycle already carried out.
THEOREM MemoriesComplete == Spec => []AcknowledgedIsRemembered
<1>1. OutcomeInv => AcknowledgedIsRemembered
  BY DEF OutcomeInv, MemoriesHeld, Updated, AfterUpdate, AcknowledgedIsRemembered
<1> QED
  BY OutcomeInvariant, <1>1, PTL
=============================================================================
