-------------------------- MODULE ProcessLifecycle --------------------------
(* The processes of one project: the Memory MCP keeps them, the cycles of   *)
(* the project's root session close and succeed them, and every cycle may   *)
(* be retried after a failure at any await. One step of a run is one MCP    *)
(* call of ENSURE_ACTIVE_PROCESS, CLOSE_CURRENT_PROCESS or                  *)
(* START_NEW_PROCESS together with what the node does before the next call. *)
EXTENDS Integers, Sequences, FiniteSets

CONSTANTS
  Runs,         \* supervisor processes that can run a cycle of the session
  Final,        \* outcomes that end a process without a successor
  Cycles,       \* number of cohorts that the session produces
  MaxAttempts,  \* attempts at a cycle before its events are FAILED
  MaxFaults,    \* bound: failures and cancellations of runs
  MaxLate,      \* bound: writes, in all, that the service executes after their caller gave up
  MaxLapses     \* bound: leases that lapse under a run that goes on

ASSUME LifecycleAssumption ==
  /\ Runs # {} /\ 0 \notin Runs
  /\ Final # {} /\ Final \subseteq {"SUCCEEDED", "FAILED", "ABANDONED"}
  /\ {Cycles, MaxAttempts} \subseteq Nat \ {0}
  /\ {MaxFaults, MaxLate, MaxLapses} \subseteq Nat

VARIABLES
  processes,  \* rows of table processes; the row named process_00n is at position n
  summaries,  \* memories in the SUMMARY categories, oldest first
  run,        \* where each run is, and what its node has read
  holder,     \* the run that holds the leases of the current cohort, or 0
  settled,    \* cycles that are PROCESSED or FAILED; the next one is current
  attempts,   \* attempts at the current cycle
  late,       \* writes under way whose caller gave up
  faults, abandoned, lapses

vars == <<processes, summaries, run, holder, settled, attempts, late, faults, abandoned, lapses>>
service == <<processes, summaries, late>>
bounds == <<faults, abandoned, lapses>>
queue == <<holder, settled, attempts, bounds>>

Outcomes == Final \cup {"SUPERSEDED"}
Cycle == 1 .. Cycles

\* process is active_process_id; predecessor is the process to succeed, 0 for none;
\* recovered says that the context is reloaded for a new process.
Idle == [pc |-> "idle", cycle |-> 0, process |-> 0, predecessor |-> 0,
         outcome |-> "none", name |-> 0, recovered |-> FALSE]

Init ==
  /\ processes = <<>> /\ summaries = <<>>
  /\ run = [r \in Runs |-> Idle]
  /\ holder = 0 /\ settled = 0 /\ attempts = 0
  /\ late = {} /\ faults = 0 /\ abandoned = 0 /\ lapses = 0

-----------------------------------------------------------------------------
(* What the Memory MCP answers. *)

Status(p) == processes[p].status

\* The unique index lets at most one process of a project be ACTIVE.
Active == {p \in DOMAIN processes : Status(p) = "ACTIVE"}

Successors(p) == {q \in DOMAIN processes : processes[q].predecessor = p}

LatestBug == 1
\* The process with the highest number.
Latest == Len(processes)

SummariesOfBug(c, p) == {i \in DOMAIN summaries : summaries[i].cycle = c}
\* The summaries that cycle c has left in the key of process p.
SummariesOf(c, p) ==
  {i \in DOMAIN summaries : summaries[i].cycle = c /\ summaries[i].process = p}

\* A search answers the most recently written memory first.
NewestOutcome(c, p) ==
  LET found == SummariesOf(c, p)
  IN  summaries[CHOOSE i \in found : \A j \in found : j <= i].outcome

HasTitle(c, p, o) == \E i \in SummariesOf(c, p) : summaries[i].outcome = o

AddSummary(c, p, o) ==
  summaries' = Append(summaries, [process |-> p, cycle |-> c, outcome |-> o])

ClosableBug(p) == TRUE
Closable(p) == Status(p) = "ACTIVE"

\* The UPDATE matches an ACTIVE row only. The closing cycle is recorded for the properties.
SetClosed(c, p, o) ==
  processes' = [processes EXCEPT ![p] =
                  [status |-> o, predecessor |-> @.predecessor, closer |-> c]]

\* Names are unique in a project, and so is the ACTIVE process. Every name was one above
\* the highest when it was chosen, so the free ones start there.
CanCreate(name) == Active = {} /\ name = Len(processes) + 1

AddProcess(predecessor) ==
  processes' = Append(processes,
                      [status |-> "ACTIVE", predecessor |-> predecessor, closer |-> 0])

-----------------------------------------------------------------------------
(* The cohorts, as the Inbox hands them out. *)

Spent == attempts = MaxAttempts

\* The leases end without an acknowledgement: the cohort is PENDING again, or FAILED.
Release ==
  /\ holder' = 0
  /\ settled' = IF Spent THEN settled + 1 ELSE settled
  /\ attempts' = IF Spent THEN 0 ELSE attempts

Move(r, next) == run' = [run EXCEPT ![r] = next]

\* The graph raises: the cohort is failed if the run still holds it.
GiveUp(r) ==
  /\ Move(r, Idle)
  /\ IF holder = r THEN Release ELSE UNCHANGED <<holder, settled, attempts>>

\* An error inside a node, which is no fault of the surroundings.
Raises(r) == GiveUp(r) /\ UNCHANGED <<service, bounds>>

Claim(r) ==
  /\ run[r].pc = "idle" /\ holder = 0 /\ settled < Cycles
  /\ holder' = r /\ attempts' = attempts + 1
  /\ Move(r, [Idle EXCEPT !.pc = "start", !.cycle = settled + 1])
  /\ UNCHANGED <<service, settled, bounds>>

\* FINALIZE: ack_batch accepts the leases of the current holder only.
Ack(r) ==
  /\ run[r].pc = "ack"
  /\ IF holder = r
     THEN /\ holder' = 0 /\ settled' = settled + 1 /\ attempts' = 0
          /\ Move(r, Idle)
          /\ UNCHANGED <<service, bounds>>
     ELSE Raises(r)

\* Any failure between two calls; a call whose answer is lost has had its effect.
Fault(r) ==
  /\ run[r].pc # "idle" /\ faults < MaxFaults
  /\ faults' = faults + 1
  /\ GiveUp(r) /\ UNCHANGED <<service, abandoned, lapses>>

\* The leases lapse while the run goes on: another run may claim the cohort.
Lapse ==
  /\ holder # 0 /\ lapses < MaxLapses
  /\ lapses' = lapses + 1
  /\ Release /\ UNCHANGED <<service, run, faults, abandoned>>

-----------------------------------------------------------------------------
(* ENSURE_ACTIVE_PROCESS *)

\* A call that changes nothing in the service.
Read(r, next) == Move(r, next) /\ UNCHANGED <<service, queue>>
Goto(r, pc) == Read(r, [run[r] EXCEPT !.pc = pc])

GetActive(r) ==
  /\ run[r].pc = "start"
  /\ \/ /\ Active = {}
        /\ Goto(r, "list")
     \/ \E p \in Active : Read(r, [run[r] EXCEPT !.pc = "own", !.process = p])

\* A summary of this cycle in the ACTIVE process: an attempt got as far as writing it, so
\* its outcome is carried through. Otherwise the predecessor is looked at.
OwnSummary(r) ==
  LET c == run[r].cycle  p == run[r].process IN
  /\ run[r].pc = "own"
  /\ IF SummariesOf(c, p) # {}
     THEN Read(r, [run[r] EXCEPT !.pc = "reading", !.outcome = NewestOutcome(c, p)])
     ELSE Goto(r, IF processes[p].predecessor = 0 THEN "working" ELSE "before")

RecoversBug(c, p) == FALSE
\* The ACTIVE process succeeded one that this cycle has summarised.
Recovers(c, p) == SummariesOf(c, processes[p].predecessor) # {}

PredecessorSummary(r) ==
  /\ run[r].pc = "before"
  /\ Read(r, [run[r] EXCEPT !.pc = "working",
                            !.recovered = Recovers(run[r].cycle, run[r].process)])

AwaitsSuccessorBug(p) == FALSE
AwaitsSuccessor(p) == Status(p) = "SUPERSEDED"

\* No ACTIVE process: the first one is created, a superseded one is succeeded.
ListLatest(r) ==
  /\ run[r].pc = "list"
  /\ \/ /\ processes = <<>>
        /\ Read(r, [run[r] EXCEPT !.pc = "creating", !.name = 1])
     \/ /\ processes # <<>> /\ AwaitsSuccessor(Latest)
        /\ Read(r, [run[r] EXCEPT !.pc = "naming", !.predecessor = Latest])
     \/ /\ processes # <<>> /\ ~AwaitsSuccessor(Latest)
        /\ Read(r, [run[r] EXCEPT !.pc = "last", !.process = Latest])

\* cycle_complete: the last process was closed by an earlier attempt at this cycle.
LastSummary(r) ==
  /\ run[r].pc = "last"
  /\ Goto(r, IF SummariesOf(run[r].cycle, run[r].process) # {} THEN "ack" ELSE "naming")

-----------------------------------------------------------------------------
(* From LOAD_PROCESS_CONTEXT to a decision. The memory nodes do not touch   *)
(* processes. A run on a fresh or recovered process skips the continuity    *)
(* question, and only a pivot may close with SUPERSEDED.                    *)

Decide(r) ==
  /\ run[r].pc = "working"
  /\ \/ Goto(r, "ack")
     \/ \E o \in IF run[r].recovered THEN Final ELSE Outcomes :
          Read(r, [run[r] EXCEPT !.pc = "summary", !.outcome = o])

(* CLOSE_CURRENT_PROCESS; ENSURE_ACTIVE_PROCESS joins it at close_current. *)

SearchTitle(r) ==
  /\ run[r].pc = "summary"
  /\ Goto(r, IF HasTitle(run[r].cycle, run[r].process, run[r].outcome)
             THEN "reading" ELSE "writing")

WriteSummary(r) ==
  /\ run[r].pc = "writing"
  /\ AddSummary(run[r].cycle, run[r].process, run[r].outcome)
  /\ Move(r, [run[r] EXCEPT !.pc = "reading"])
  /\ UNCHANGED <<processes, late, queue>>

AfterCloseBug(o) == IF o = "SUPERSEDED" THEN "naming" ELSE "working"
\* A superseded process is succeeded, any other outcome ends the cycle.
AfterClose(o) == IF o = "SUPERSEDED" THEN "naming" ELSE "ack"

Closed(r) ==
  Move(r, [run[r] EXCEPT !.pc = AfterClose(run[r].outcome),
                         !.predecessor = IF run[r].outcome = "SUPERSEDED"
                                         THEN run[r].process ELSE 0])

\* close_current: a process that has the outcome already counts as closed.
ReadBeforeClose(r) ==
  /\ run[r].pc = "reading"
  /\ \/ /\ Status(run[r].process) = run[r].outcome
        /\ Closed(r) /\ UNCHANGED <<service, queue>>
     \/ /\ Status(run[r].process) = "ACTIVE"
        /\ Goto(r, "closing")
     \/ /\ Status(run[r].process) \notin {"ACTIVE", run[r].outcome}
        /\ Raises(r)

Close(r) ==
  /\ run[r].pc = "closing"
  /\ IF Closable(run[r].process)
     THEN /\ SetClosed(run[r].cycle, run[r].process, run[r].outcome)
          /\ Closed(r) /\ UNCHANGED <<summaries, late, queue>>
     ELSE Raises(r)

-----------------------------------------------------------------------------
(* next_process_name and create_successor, in START_NEW_PROCESS and in     *)
(* ENSURE_ACTIVE_PROCESS                                                    *)

Work(r, p) ==
  Move(r, [Idle EXCEPT !.pc = "working", !.cycle = run[r].cycle, !.process = p,
                       !.recovered = run[r].predecessor # 0])

NextName(r) ==
  LET open == Active \cap Successors(run[r].predecessor) IN
  /\ run[r].pc = "naming"
  /\ \E n \in IF run[r].predecessor # 0 /\ open # {} THEN open ELSE {Len(processes) + 1} :
       Read(r, [run[r] EXCEPT !.name = n,
                  !.pc = IF run[r].predecessor = 0 THEN "creating" ELSE "checking"])

CheckPredecessor(r) ==
  /\ run[r].pc = "checking"
  /\ IF Status(run[r].predecessor) = "SUPERSEDED" THEN Goto(r, "looking") ELSE Raises(r)

LookForActive(r) ==
  /\ run[r].pc = "looking"
  /\ \/ /\ Active = {}
        /\ Goto(r, "creating")
     \/ \E p \in Active :
          IF p \in Successors(run[r].predecessor)
          THEN Work(r, p) /\ UNCHANGED <<service, queue>>
          ELSE Raises(r)

Create(r) ==
  /\ run[r].pc = "creating"
  /\ IF CanCreate(run[r].name)
     THEN /\ AddProcess(run[r].predecessor)
          /\ Work(r, run[r].name)
          /\ UNCHANGED <<summaries, late, queue>>
     ELSE Raises(r)

-----------------------------------------------------------------------------
(* Writes whose caller gave up: a timeout or a cancellation ends the run,   *)
(* the service executes the request afterwards.                             *)

Abandon(r) ==
  /\ run[r].pc \in {"writing", "closing", "creating"}
  /\ abandoned < MaxLate
  /\ abandoned' = abandoned + 1
  /\ late' = late \cup {run[r]}
  /\ GiveUp(r) /\ UNCHANGED <<processes, summaries, faults, lapses>>

Deliver(call) ==
  /\ late' = late \ {call}
  /\ \/ /\ call.pc = "writing"
        /\ AddSummary(call.cycle, call.process, call.outcome) /\ UNCHANGED processes
     \/ /\ call.pc = "closing"
        /\ IF Closable(call.process)
           THEN SetClosed(call.cycle, call.process, call.outcome)
           ELSE UNCHANGED processes
        /\ UNCHANGED summaries
     \/ /\ call.pc = "creating"
        /\ IF CanCreate(call.name) THEN AddProcess(call.predecessor) ELSE UNCHANGED processes
        /\ UNCHANGED summaries
  /\ UNCHANGED <<run, queue>>

Step(r) ==
  \/ GetActive(r) \/ OwnSummary(r) \/ PredecessorSummary(r)
  \/ ListLatest(r) \/ LastSummary(r)
  \/ Decide(r)
  \/ SearchTitle(r) \/ WriteSummary(r) \/ ReadBeforeClose(r) \/ Close(r)
  \/ NextName(r) \/ CheckPredecessor(r) \/ LookForActive(r) \/ Create(r)
  \/ Ack(r)

Next ==
  \/ \E r \in Runs : Claim(r) \/ Step(r) \/ Fault(r) \/ Abandon(r)
  \/ \E call \in late : Deliver(call)
  \/ Lapse

Spec == Init /\ [][Next]_vars

\* A cycle that is claimed goes on: every call has a timeout. The worker polls for ever.
\* Nothing obliges faults, lapses and late writes to happen.
FairSpec == Spec /\ \A r \in Runs : WF_vars(Claim(r) \/ Step(r))

-----------------------------------------------------------------------------
ProcessRow == [status : Outcomes \cup {"ACTIVE"}, predecessor : Nat, closer : 0 .. Cycles]
SummaryRow == [process : Nat, cycle : Cycle, outcome : Outcomes]
RunState ==
  [pc : {"idle", "start", "own", "before", "list", "last", "working", "summary", "writing",
         "reading", "closing", "naming", "checking", "looking", "creating", "ack"},
   cycle : 0 .. Cycles, process : Nat, predecessor : Nat,
   outcome : Outcomes \cup {"none"}, name : Nat, recovered : BOOLEAN]

\* Rows, summaries and runs have their shapes, and only the current cycle has a holder.
TypeOK ==
  /\ processes \in Seq(ProcessRow) /\ summaries \in Seq(SummaryRow)
  /\ run \in [Runs -> RunState]
  /\ holder \in Runs \cup {0} /\ settled \in 0 .. Cycles /\ attempts \in 0 .. MaxAttempts
  /\ late \subseteq RunState
  /\ faults \in 0 .. MaxFaults /\ abandoned \in 0 .. MaxLate /\ lapses \in 0 .. MaxLapses

\* No call to the Memory MCP carries the lease or the attempt. The transitions are safe as
\* long as no run goes on after its leases lapsed and no two writes are executed late: a
\* late create may otherwise put an unrelated process where a successor belongs.
Undisturbed == lapses = 0 /\ abandoned <= 1

\* As long as calls are undisturbed, START_NEW_PROCESS and its recovery in
\* ensure_active, retried or executed late, give a process one successor at most.
OneSuccessor ==
  Undisturbed => \A p \in DOMAIN processes : Cardinality(Successors(p)) <= 1

\* A successor comes after its predecessor was SUPERSEDED, and that stays its outcome.
SuccessorAfterClose ==
  \A q \in DOMAIN processes :
    processes[q].predecessor # 0 =>
      processes[q].predecessor < q /\ Status(processes[q].predecessor) = "SUPERSEDED"

\* As long as calls are undisturbed, a cycle, however often it is retried, supersedes one
\* process at most and closes one for good at most: the summary it wrote decides what a
\* retry does.
ClosesOnce ==
  Undisturbed =>
    \A c \in Cycle :
      LET closed == {p \in DOMAIN processes : processes[p].closer = c}
      IN  /\ Cardinality({p \in closed : Status(p) = "SUPERSEDED"}) <= 1
          /\ Cardinality({p \in closed : Status(p) \in Final}) <= 1

\* A process is closed only after the closing cycle persisted a summary, in that process,
\* that names the very outcome.
SummaryBeforeClose ==
  \A p \in DOMAIN processes :
    Status(p) # "ACTIVE" =>
      \E i \in DOMAIN summaries :
        summaries[i] = [process |-> p, cycle |-> processes[p].closer, outcome |-> Status(p)]

\* As long as calls are undisturbed, a cycle is not acknowledged before every process that it
\* superseded has a successor.
AckedIsFinished ==
  Undisturbed =>
    \A r \in Runs : run[r].pc = "ack" =>
      \A p \in DOMAIN processes :
        processes[p].closer = run[r].cycle /\ Status(p) = "SUPERSEDED" => Successors(p) # {}

\* As long as calls are undisturbed, a cycle never extracts memory for, or decides about, a
\* process that it has closed itself: a retry goes to the successor or straight to FINALIZE.
LeavesWhatItClosed ==
  Undisturbed =>
    \A r \in Runs : run[r].pc = "working" => processes[run[r].process].closer # run[r].cycle

\* With one supervisor process and one late write, a process that is superseded before the
\* last cycle gets its successor: from a retry or, when the superseding cycle was given up,
\* from the next one.
SupersededIsSucceeded ==
  \A p \in 1 .. 2 * Cycles :
    (p \in DOMAIN processes /\ Status(p) = "SUPERSEDED" /\ settled < Cycles - 1)
      ~> Successors(p) # {}
=============================================================================
