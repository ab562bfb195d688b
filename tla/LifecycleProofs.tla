-------------------------- MODULE LifecycleProofs --------------------------
(* Safety of ProcessLifecycle for any number of runs, cycles and attempts,  *)
(* and any number of failures, late writes and lapses.                      *)
EXTENDS ProcessLifecycle, WellFoundedInduction, FiniteSetTheorems, TLAPS

\* The cycle of c has persisted the summary that c is about to act on.
Written(c, sums) ==
  \E i \in DOMAIN sums :
    sums[i] = [process |-> c.process, cycle |-> c.cycle, outcome |-> c.outcome]

\* What a run, or a write it has left behind, knows of the processes and the summaries.
\* All of it is stable: processes and summaries are not deleted and a closed process stays
\* as it is.
Sound(c, procs, sums) ==
  /\ c.pc # "idle" => c.cycle \in Cycle
  /\ c.pc \in {"own", "before", "last", "working", "summary", "writing", "reading", "closing"}
       => c.process \in DOMAIN procs
  /\ c.pc \in {"summary", "writing", "reading", "closing"} => c.outcome \in Outcomes
  /\ c.pc \in {"reading", "closing"} => Written(c, sums)
  /\ c.pc \in {"naming", "checking"} => c.predecessor \in DOMAIN procs \cup {0}
  /\ c.pc = "checking" => c.predecessor # 0
  /\ c.pc \notin {"naming", "checking", "looking", "creating"} => c.predecessor = 0
  /\ c.pc \in {"looking", "creating"} /\ c.predecessor # 0
       => /\ c.predecessor \in DOMAIN procs
          /\ procs[c.predecessor].status = "SUPERSEDED"

\* A cohort can be claimed only while attempts are left, and is held only while it is open.
QueueSound ==
  /\ holder = 0 => attempts < MaxAttempts
  /\ holder # 0 => settled < Cycles /\ attempts > 0

IInv ==
  /\ TypeOK /\ QueueSound
  /\ \A r \in Runs : Sound(run[r], processes, summaries)
  /\ \A c \in late : Sound(c, processes, summaries)
  /\ SuccessorAfterClose /\ SummaryBeforeClose

-----------------------------------------------------------------------------
(* Steps of the service. *)

\* What every step of the service keeps.
Grows ==
  /\ processes' \in Seq(ProcessRow) /\ summaries' \in Seq(SummaryRow)
  /\ DOMAIN processes \subseteq DOMAIN processes'
  /\ \A p \in DOMAIN processes : Status(p) # "ACTIVE" => processes'[p] = processes[p]
  /\ DOMAIN summaries \subseteq DOMAIN summaries'
  /\ \A i \in DOMAIN summaries : summaries'[i] = summaries[i]

LEMMA SoundIsStable ==
  ASSUME Grows, NEW c, Sound(c, processes, summaries)
  PROVE  Sound(c, processes', summaries')
<1>1. Written(c, summaries) => Written(c, summaries')
  BY DEF Grows, Written
<1>2. ASSUME c.predecessor \in DOMAIN processes,
             processes[c.predecessor].status = "SUPERSEDED"
      PROVE  /\ c.predecessor \in DOMAIN processes'
             /\ processes'[c.predecessor].status = "SUPERSEDED"
  BY <1>2 DEF Grows, Status
<1> QED
  BY <1>1, <1>2 DEF Grows, Sound

\* A service that nobody calls keeps what it promises.
LEMMA ServiceIdle ==
  ASSUME IInv, UNCHANGED <<processes, summaries>>
  PROVE  Grows /\ SuccessorAfterClose' /\ SummaryBeforeClose'
BY DEF IInv, TypeOK, Grows, SuccessorAfterClose, SummaryBeforeClose, Status

LEMMA SummaryAdded ==
  ASSUME IInv, NEW c \in Cycle, NEW p \in Nat, NEW o \in Outcomes,
         AddSummary(c, p, o), UNCHANGED processes
  PROVE  /\ Grows /\ SuccessorAfterClose' /\ SummaryBeforeClose'
         /\ \E i \in DOMAIN summaries' :
              summaries'[i] = [process |-> p, cycle |-> c, outcome |-> o]
<1> DEFINE row == [process |-> p, cycle |-> c, outcome |-> o]
<1>1. row \in SummaryRow /\ summaries \in Seq(SummaryRow) /\ processes \in Seq(ProcessRow)
  BY DEF SummaryRow, IInv, TypeOK
<1>2. summaries' = Append(summaries, row)
  BY DEF AddSummary
<1> HIDE DEF row
<1>3. /\ summaries' \in Seq(SummaryRow)
      /\ DOMAIN summaries' = 1 .. Len(summaries) + 1 /\ DOMAIN summaries = 1 .. Len(summaries)
      /\ \A i \in DOMAIN summaries : summaries'[i] = summaries[i]
      /\ summaries'[Len(summaries) + 1] = row
  BY <1>1, <1>2
<1>4. DOMAIN summaries \subseteq DOMAIN summaries' /\ Len(summaries) + 1 \in DOMAIN summaries'
  BY <1>1, <1>3
<1>5. Grows
  BY <1>1, <1>3, <1>4 DEF Grows
<1>6. SuccessorAfterClose'
  BY DEF IInv, SuccessorAfterClose, Status
<1>7. SummaryBeforeClose'
  BY <1>3, <1>4 DEF IInv, SummaryBeforeClose, Status
<1> QED
  BY <1>3, <1>4, <1>5, <1>6, <1>7 DEF row

LEMMA ProcessClosed ==
  ASSUME IInv, NEW c \in Cycle, NEW p \in DOMAIN processes, NEW o \in Outcomes,
         Closable(p), SetClosed(c, p, o), UNCHANGED summaries,
         \E i \in DOMAIN summaries :
           summaries[i] = [process |-> p, cycle |-> c, outcome |-> o]
  PROVE  Grows /\ SuccessorAfterClose' /\ SummaryBeforeClose' /\ processes'[p].status = o
<1>1. processes \in Seq(ProcessRow) /\ summaries \in Seq(SummaryRow)
  BY DEF IInv, TypeOK
<1>2. processes[p] \in ProcessRow /\ processes[p].status = "ACTIVE"
  BY <1>1 DEF Closable, Status
<1> DEFINE row == [status |-> o, predecessor |-> processes[p].predecessor, closer |-> c]
<1>3. row \in ProcessRow
  BY <1>2 DEF ProcessRow, Cycle
<1>4. processes' = [processes EXCEPT ![p] = row]
  BY <1>2 DEF SetClosed, ProcessRow
<1>5. /\ DOMAIN processes' = DOMAIN processes
      /\ \A q \in DOMAIN processes : q # p => processes'[q] = processes[q]
      /\ processes'[p] = row
  BY <1>4
<1>6. /\ processes'[p].status = o /\ processes'[p].closer = c
      /\ processes'[p].predecessor = processes[p].predecessor
  BY <1>5
<1>7. processes' \in Seq(ProcessRow)
  BY <1>1, <1>3, <1>4
<1> HIDE DEF row
<1>8. Grows
  BY <1>1, <1>2, <1>5, <1>7 DEF Grows, Status
<1>9. SuccessorAfterClose'
  <2> SUFFICES ASSUME NEW q \in DOMAIN processes, processes'[q].predecessor # 0
               PROVE  /\ processes'[q].predecessor < q
                      /\ processes'[processes'[q].predecessor].status = "SUPERSEDED"
    BY <1>5 DEF SuccessorAfterClose, Status
  <2>1. processes'[q].predecessor = processes[q].predecessor
    BY <1>5, <1>6
  <2>2. /\ processes[q].predecessor < q
        /\ processes[processes[q].predecessor].status = "SUPERSEDED"
    BY <2>1 DEF IInv, SuccessorAfterClose, Status
  <2>3. processes[q].predecessor \in DOMAIN processes
    <3>1. processes[q] \in ProcessRow /\ q \in 1 .. Len(processes) /\ Len(processes) \in Nat
      BY <1>1
    <3>2. processes[q].predecessor \in Nat
      BY <3>1 DEF ProcessRow
    <3> QED
      BY <1>1, <2>1, <2>2, <3>1, <3>2
  <2> QED
    BY <1>2, <1>5, <2>1, <2>2, <2>3
<1>10. SummaryBeforeClose'
  BY <1>5, <1>6 DEF IInv, SummaryBeforeClose, Status
<1> QED
  BY <1>6, <1>8, <1>9, <1>10

LEMMA ProcessAdded ==
  ASSUME IInv, NEW b \in Nat, AddProcess(b), UNCHANGED summaries,
         b # 0 => b \in DOMAIN processes /\ Status(b) = "SUPERSEDED"
  PROVE  /\ Grows /\ SuccessorAfterClose' /\ SummaryBeforeClose'
         /\ Len(processes) + 1 \in DOMAIN processes'
<1> DEFINE row == [status |-> "ACTIVE", predecessor |-> b, closer |-> 0]
           n == Len(processes) + 1
<1>1. processes \in Seq(ProcessRow) /\ summaries \in Seq(SummaryRow) /\ row \in ProcessRow
  BY LifecycleAssumption DEF IInv, TypeOK, ProcessRow
<1>2. processes' = Append(processes, row)
  BY DEF AddProcess
<1>3. row.status = "ACTIVE" /\ row.predecessor = b
  OBVIOUS
<1> HIDE DEF row
<1>4. /\ processes' \in Seq(ProcessRow)
      /\ DOMAIN processes' = DOMAIN processes \cup {n} /\ n \in Nat
      /\ \A q \in DOMAIN processes : q \in Nat /\ q < n /\ processes'[q] = processes[q]
      /\ processes'[n] = row
  BY <1>1, <1>2
<1> HIDE DEF n
<1>5. Grows
  BY <1>1, <1>4 DEF Grows
<1>6. SuccessorAfterClose'
  <2> SUFFICES ASSUME NEW q \in DOMAIN processes', processes'[q].predecessor # 0
               PROVE  /\ processes'[q].predecessor < q
                      /\ processes'[processes'[q].predecessor].status = "SUPERSEDED"
    BY DEF SuccessorAfterClose, Status
  <2>1. CASE q = n
    <3>1. processes'[q].predecessor = b /\ b \in DOMAIN processes
      BY <1>3, <1>4, <2>1
    <3> QED
      BY <1>4, <2>1, <3>1 DEF Status
  <2>2. CASE q \in DOMAIN processes
    <3>1. /\ processes[q].predecessor # 0 /\ processes[q].predecessor < q
          /\ processes[processes[q].predecessor].status = "SUPERSEDED"
      BY <1>4, <2>2 DEF IInv, SuccessorAfterClose, Status
    <3>2. processes[q].predecessor \in DOMAIN processes
      <4>1. processes[q] \in ProcessRow /\ q \in 1 .. Len(processes) /\ Len(processes) \in Nat
        BY <1>1, <2>2
      <4>2. processes[q].predecessor \in Nat
        BY <4>1 DEF ProcessRow
      <4> QED
        BY <1>1, <3>1, <4>1, <4>2
    <3> QED
      BY <1>4, <2>2, <3>1, <3>2
  <2> QED
    BY <1>4, <2>1, <2>2
<1>7. SummaryBeforeClose'
  BY <1>3, <1>4 DEF IInv, SummaryBeforeClose, Status
<1> QED
  BY <1>4, <1>5, <1>6, <1>7 DEF n

-----------------------------------------------------------------------------
(* The summary that a search answers is one of those it looked for. *)

LEMMA NewestExists ==
  ASSUME NEW n \in Nat, NEW S \in SUBSET (1 .. n), S # {}
  PROVE  \E i \in S : \A j \in S : j <= i
<1> DEFINE R == {ss \in Nat \X Nat : ss[1] < ss[2]}
           D == {n - i : i \in S}
<1>1. IsWellFoundedOn(R, Nat)
  BY NatLessThanWellFounded DEF OpToRel
<1>2. D \in SUBSET Nat /\ D # {}
  <2>1. \A i \in S : n - i \in Nat
    OBVIOUS
  <2>2. PICK i \in S : TRUE
    OBVIOUS
  <2>3. n - i \in D
    BY <2>2
  <2> QED
    BY <2>1, <2>3
<1> HIDE DEF R, D
<1>3. PICK x \in D : \A y \in D : ~ (<<y, x>> \in R)
  BY <1>1, <1>2, WFMin
<1>4. PICK i \in S : x = n - i
  BY DEF D
<1>5. ASSUME NEW j \in S PROVE j <= i
  <2>1. n - j \in D /\ n - j \in Nat /\ x \in Nat
    BY <1>2 DEF D
  <2>2. ~ (n - j < x)
    BY <1>3, <2>1 DEF R
  <2> QED
    BY <1>4, <2>2
<1> QED
  BY <1>5

LEMMA NewestIsWritten ==
  ASSUME TypeOK, NEW c \in Cycle, NEW p \in Nat, SummariesOf(c, p) # {}
  PROVE  /\ NewestOutcome(c, p) \in Outcomes
         /\ \E i \in DOMAIN summaries :
              summaries[i] = [process |-> p, cycle |-> c, outcome |-> NewestOutcome(c, p)]
<1> DEFINE found == SummariesOf(c, p)
           i == CHOOSE k \in found : \A j \in found : j <= k
<1>1. found \in SUBSET (1 .. Len(summaries)) /\ Len(summaries) \in Nat
  BY DEF TypeOK, SummariesOf
<1>2. \E k \in found : \A j \in found : j <= k
  BY <1>1, NewestExists
<1>3. i \in found
  BY <1>2
<1>4. NewestOutcome(c, p) = summaries[i].outcome
  BY DEF NewestOutcome
<1> HIDE DEF i
<1>5. i \in DOMAIN summaries /\ summaries[i].cycle = c /\ summaries[i].process = p
  BY <1>3 DEF SummariesOf
<1>6. summaries[i] \in SummaryRow
  BY <1>5 DEF TypeOK
<1> QED
  BY <1>4, <1>5, <1>6 DEF SummaryRow

-----------------------------------------------------------------------------
(* Steps of the runs. *)

QueueTyped ==
  /\ holder \in Runs \cup {0} /\ settled \in 0 .. Cycles /\ attempts \in 0 .. MaxAttempts
  /\ faults \in 0 .. MaxFaults /\ abandoned \in 0 .. MaxLate /\ lapses \in 0 .. MaxLapses

\* What a step must show: the service grew, and whoever changed knows what is so.
LEMMA Preserved ==
  ASSUME IInv, Grows, SuccessorAfterClose', SummaryBeforeClose', QueueTyped', QueueSound',
         run' \in [Runs -> RunState],
         \A q \in Runs : run'[q] = run[q] \/ Sound(run'[q], processes', summaries'),
         \A c \in late' : c \in late \/ (c \in RunState /\ Sound(c, processes', summaries'))
  PROVE  IInv'
<1>1. \A q \in Runs : Sound(run'[q], processes', summaries')
  BY SoundIsStable DEF IInv
<1>2. \A c \in late' : Sound(c, processes', summaries')
  BY SoundIsStable DEF IInv
<1>3. TypeOK'
  BY DEF IInv, TypeOK, Grows, QueueTyped
<1> QED
  BY <1>1, <1>2, <1>3 DEF IInv

LEMMA IdleIsSound ==
  /\ Idle \in RunState
  /\ \A procs, sums : Sound(Idle, procs, sums)
BY LifecycleAssumption DEF Idle, RunState, Sound

LEMMA ReadStep ==
  ASSUME IInv, NEW r \in Runs, NEW rec \in RunState, Read(r, rec),
         Sound(rec, processes, summaries)
  PROVE  IInv'
<1>1. Grows /\ SuccessorAfterClose' /\ SummaryBeforeClose'
  BY ServiceIdle DEF Read, service
<1>2. QueueTyped' /\ QueueSound'
  BY DEF IInv, TypeOK, Read, queue, bounds, QueueTyped, QueueSound
<1>3. /\ run' \in [Runs -> RunState]
      /\ \A q \in Runs : run'[q] = run[q] \/ Sound(run'[q], processes', summaries')
  BY DEF IInv, TypeOK, Read, Move, service
<1>4. late' = late
  BY DEF Read, service
<1> QED
  BY <1>1, <1>2, <1>3, <1>4, Preserved

LEMMA ReleaseKeepsQueue ==
  ASSUME IInv, holder # 0, Release
  PROVE  /\ holder' \in Runs \cup {0} /\ settled' \in 0 .. Cycles
         /\ attempts' \in 0 .. MaxAttempts /\ QueueSound'
BY LifecycleAssumption DEF IInv, TypeOK, QueueSound, Release, Spent

LEMMA GiveUpStep ==
  ASSUME IInv, NEW r \in Runs, GiveUp(r)
  PROVE  /\ holder' \in Runs \cup {0} /\ settled' \in 0 .. Cycles
         /\ attempts' \in 0 .. MaxAttempts /\ QueueSound'
         /\ run' \in [Runs -> RunState]
         /\ \A q \in Runs : run'[q] = run[q] \/ Sound(run'[q], processes', summaries')
<1>1. CASE holder = r
  BY <1>1, ReleaseKeepsQueue, LifecycleAssumption, IdleIsSound DEF GiveUp, Move, IInv, TypeOK
<1>2. CASE holder # r
  BY <1>2, IdleIsSound DEF GiveUp, Move, IInv, TypeOK, QueueSound
<1> QED
  BY <1>1, <1>2

LEMMA RaisesStep ==
  ASSUME IInv, NEW r \in Runs, Raises(r)
  PROVE  IInv'
<1>1. QueueTyped' /\ QueueSound'
  BY GiveUpStep DEF Raises, bounds, QueueTyped, IInv, TypeOK
<1>2. Grows /\ SuccessorAfterClose' /\ SummaryBeforeClose' /\ late' = late
  BY ServiceIdle DEF Raises, service
<1>3. /\ run' \in [Runs -> RunState]
      /\ \A q \in Runs : run'[q] = run[q] \/ Sound(run'[q], processes', summaries')
  BY GiveUpStep DEF Raises
<1> QED
  BY <1>1, <1>2, <1>3, Preserved

-----------------------------------------------------------------------------
(* Each action preserves the invariant. *)

LEMMA InitIInv == Init => IInv
<1> SUFFICES ASSUME Init PROVE IInv
  OBVIOUS
<1>1. TypeOK /\ QueueSound
  BY LifecycleAssumption, IdleIsSound DEF Init, TypeOK, QueueSound
<1>2. \A r \in Runs : Sound(run[r], processes, summaries)
  BY IdleIsSound DEF Init
<1> QED
  BY <1>1, <1>2 DEF Init, IInv, SuccessorAfterClose, SummaryBeforeClose

\* The reads of ENSURE_ACTIVE_PROCESS.
LEMMA EnsureSteps ==
  ASSUME IInv, NEW r \in Runs,
         \/ GetActive(r) \/ OwnSummary(r) \/ PredecessorSummary(r)
         \/ ListLatest(r) \/ LastSummary(r)
  PROVE  IInv'
<1>1. run[r] \in RunState /\ Sound(run[r], processes, summaries)
  BY DEF IInv, TypeOK
<1>2. /\ processes \in Seq(ProcessRow) /\ Len(processes) \in Nat
      /\ DOMAIN processes = 1 .. Len(processes)
  BY DEF IInv, TypeOK
<1>3. CASE GetActive(r)
  <2>1. CASE Goto(r, "list")
    BY <1>1, <1>3, <2>1, ReadStep DEF GetActive, Goto, RunState, Sound
  <2>2. ASSUME NEW p \in Active, Read(r, [run[r] EXCEPT !.pc = "own", !.process = p])
        PROVE  IInv'
    <3>1. p \in DOMAIN processes /\ p \in Nat
      BY <1>2 DEF Active
    <3> QED
      BY <1>1, <1>3, <2>2, <3>1, ReadStep DEF GetActive, RunState, Sound
  <2> QED
    BY <1>3, <2>1, <2>2 DEF GetActive
<1>4. CASE OwnSummary(r)
  <2> DEFINE c == run[r].cycle
             p == run[r].process
             o == NewestOutcome(c, p)
  <2>1. c \in Cycle /\ p \in Nat
    BY <1>1, <1>4 DEF OwnSummary, RunState, Sound
  <2>2. CASE SummariesOf(c, p) # {}
    <3>1. /\ o \in Outcomes
          /\ \E i \in DOMAIN summaries :
                summaries[i] = [process |-> p, cycle |-> c, outcome |-> o]
      BY <2>1, <2>2, NewestIsWritten DEF IInv
    <3>2. Read(r, [run[r] EXCEPT !.pc = "reading", !.outcome = o]) /\ run[r].pc = "own"
      BY <1>4, <2>2 DEF OwnSummary
    <3> HIDE DEF o
    <3> QED
      BY <1>1, <3>1, <3>2, ReadStep DEF RunState, Sound, Written
  <2>3. CASE SummariesOf(c, p) = {}
    BY <1>1, <1>4, <2>3, ReadStep DEF OwnSummary, Goto, RunState, Sound
  <2> QED
    BY <2>2, <2>3
<1>5. CASE PredecessorSummary(r)
  BY <1>1, <1>5, ReadStep DEF PredecessorSummary, Recovers, RunState, Sound
<1>6. CASE ListLatest(r)
  <2>1. processes # <<>> => Latest \in DOMAIN processes /\ Latest \in Nat
    BY <1>2 DEF Latest
  <2>2. CASE processes = <<>> /\ Read(r, [run[r] EXCEPT !.pc = "creating", !.name = 1])
    BY <1>1, <1>6, <2>2, ReadStep DEF ListLatest, RunState, Sound
  <2>3. CASE processes # <<>> /\ Read(r, [run[r] EXCEPT !.pc = "naming", !.predecessor = Latest])
    BY <1>1, <1>6, <2>3, <2>1, ReadStep DEF ListLatest, RunState, Sound
  <2>4. CASE processes # <<>> /\ Read(r, [run[r] EXCEPT !.pc = "last", !.process = Latest])
    BY <1>1, <1>6, <2>4, <2>1, ReadStep DEF ListLatest, RunState, Sound
  <2> QED
    BY <1>6, <2>2, <2>3, <2>4 DEF ListLatest
<1>7. CASE LastSummary(r)
  BY <1>1, <1>7, ReadStep DEF LastSummary, Goto, RunState, Sound
<1> QED
  BY <1>3, <1>4, <1>5, <1>6, <1>7

LEMMA DecideStep ==
  ASSUME IInv, NEW r \in Runs, Decide(r)
  PROVE  IInv'
<1>1. run[r] \in RunState /\ Sound(run[r], processes, summaries)
  BY DEF IInv, TypeOK
<1>2. CASE Goto(r, "ack")
  BY <1>1, <1>2, ReadStep DEF Decide, Goto, RunState, Sound
<1>3. ASSUME NEW o \in Outcomes, Read(r, [run[r] EXCEPT !.pc = "summary", !.outcome = o])
      PROVE  IInv'
  BY <1>1, <1>3, ReadStep DEF Decide, RunState, Sound
<1> QED
  BY <1>2, <1>3 DEF Decide, Outcomes

\* CLOSE_CURRENT_PROCESS up to the summary.
LEMMA SummarySteps ==
  ASSUME IInv, NEW r \in Runs, SearchTitle(r) \/ WriteSummary(r)
  PROVE  IInv'
<1> DEFINE c == run[r].cycle
           p == run[r].process
           o == run[r].outcome
           found == \E i \in DOMAIN summaries :
                      summaries[i] = [process |-> p, cycle |-> c, outcome |-> o]
<1>1. run[r] \in RunState /\ Sound(run[r], processes, summaries)
  BY DEF IInv, TypeOK
<1>2. CASE SearchTitle(r)
  <2>1. ASSUME HasTitle(c, p, o) PROVE found
    <3>1. PICK i \in DOMAIN summaries :
             summaries[i].cycle = c /\ summaries[i].process = p /\ summaries[i].outcome = o
      BY <2>1 DEF HasTitle, SummariesOf
    <3>2. summaries[i] \in SummaryRow
      BY DEF IInv, TypeOK
    <3> QED
      BY <3>1, <3>2 DEF SummaryRow
  <2>2. CASE HasTitle(c, p, o)
    BY <1>1, <1>2, <2>1, <2>2, ReadStep DEF SearchTitle, Goto, RunState, Sound, Written
  <2>3. CASE ~HasTitle(c, p, o)
    BY <1>1, <1>2, <2>3, ReadStep DEF SearchTitle, Goto, RunState, Sound
  <2> QED
    BY <2>2, <2>3
<1>3. CASE WriteSummary(r)
  <2>1. /\ run[r].pc = "writing" /\ AddSummary(c, p, o)
        /\ Move(r, [run[r] EXCEPT !.pc = "reading"])
        /\ processes' = processes /\ late' = late /\ UNCHANGED queue
    BY <1>3 DEF WriteSummary
  <2>2. c \in Cycle /\ p \in Nat /\ o \in Outcomes
    BY <1>1, <2>1 DEF RunState, Sound
  <2>3. /\ Grows /\ SuccessorAfterClose' /\ SummaryBeforeClose'
        /\ \E i \in DOMAIN summaries' :
              summaries'[i] = [process |-> p, cycle |-> c, outcome |-> o]
    BY <2>1, <2>2, SummaryAdded
  <2>4. Sound(run[r], processes', summaries')
    BY <1>1, <2>3, SoundIsStable
  <2>5. LET next == [run[r] EXCEPT !.pc = "reading"]
        IN  next \in RunState /\ Sound(next, processes', summaries')
    BY <1>1, <2>1, <2>3, <2>4 DEF RunState, Sound, Written
  <2>6. QueueTyped' /\ QueueSound'
    BY <2>1 DEF IInv, TypeOK, queue, bounds, QueueTyped, QueueSound
  <2>7. /\ run' \in [Runs -> RunState]
        /\ \A q \in Runs : run'[q] = run[q] \/ Sound(run'[q], processes', summaries')
    BY <2>1, <2>5 DEF IInv, TypeOK, Move
  <2> QED
    BY <2>1, <2>3, <2>6, <2>7, Preserved
<1> QED
  BY <1>2, <1>3

\* CLOSE_CURRENT_PROCESS from the read of the status on.
LEMMA CloseSteps ==
  ASSUME IInv, NEW r \in Runs, ReadBeforeClose(r) \/ Close(r)
  PROVE  IInv'
<1> DEFINE p == run[r].process
           o == run[r].outcome
           next == [run[r] EXCEPT !.pc = AfterClose(o),
                                  !.predecessor = IF o = "SUPERSEDED" THEN p ELSE 0]
<1>1. run[r] \in RunState /\ Sound(run[r], processes, summaries)
  BY DEF IInv, TypeOK
<1>2. /\ run[r].pc \in {"reading", "closing"}
      /\ run[r].cycle \in Cycle /\ p \in DOMAIN processes /\ p \in Nat
      /\ o \in Outcomes /\ Written(run[r], summaries)
  BY <1>1 DEF ReadBeforeClose, Close, RunState, Sound
<1>3. next \in RunState
  <2>1. CASE o = "SUPERSEDED"
    BY <1>1, <1>2, <2>1 DEF AfterClose, RunState
  <2>2. CASE o # "SUPERSEDED"
    BY <1>1, <1>2, <2>2 DEF AfterClose, RunState
  <2> QED
    BY <2>1, <2>2
<1>4. ASSUME NEW procs, NEW sums, p \in DOMAIN procs
      PROVE  Sound(next, procs, sums)
  <2>1. CASE o = "SUPERSEDED"
    BY <1>1, <1>2, <1>4, <2>1 DEF AfterClose, RunState, Sound
  <2>2. CASE o # "SUPERSEDED"
    BY <1>1, <1>2, <1>4, <2>2 DEF AfterClose, RunState, Sound
  <2> QED
    BY <2>1, <2>2
<1>5. CASE Closed(r) /\ UNCHANGED <<service, queue>>
  BY <1>2, <1>3, <1>4, <1>5, ReadStep DEF Closed, Read
<1>6. CASE ReadBeforeClose(r) /\ Goto(r, "closing")
  BY <1>1, <1>2, <1>6, ReadStep DEF ReadBeforeClose, Goto, RunState, Sound, Written
<1>7. CASE Close(r) /\ Closable(p)
  <2>1. /\ SetClosed(run[r].cycle, p, o) /\ Move(r, next)
        /\ summaries' = summaries /\ late' = late /\ UNCHANGED queue
    BY <1>7 DEF Close, Closed
  <2>2. Grows /\ SuccessorAfterClose' /\ SummaryBeforeClose'
    BY <1>2, <1>7, <2>1, ProcessClosed DEF Written
  <2>3. Sound(next, processes', summaries')
    BY <1>2, <1>4, <2>2 DEF Grows
  <2>4. QueueTyped' /\ QueueSound'
    BY <2>1 DEF IInv, TypeOK, queue, bounds, QueueTyped, QueueSound
  <2> HIDE DEF next
  <2>5. /\ run' \in [Runs -> RunState]
        /\ \A q \in Runs : run'[q] = run[q] \/ Sound(run'[q], processes', summaries')
    BY <1>3, <2>1, <2>3 DEF IInv, TypeOK, Move
  <2> QED
    BY <2>1, <2>2, <2>4, <2>5, Preserved
<1> QED
  BY <1>5, <1>6, <1>7, RaisesStep DEF ReadBeforeClose, Close

LEMMA WorkIsSound ==
  ASSUME IInv, NEW r \in Runs, NEW p \in Nat, NEW b \in BOOLEAN, run[r].pc # "idle"
  PROVE  LET next == [Idle EXCEPT !.pc = "working", !.cycle = run[r].cycle, !.process = p,
                                  !.recovered = b]
         IN  /\ next \in RunState
             /\ \A procs, sums : p \in DOMAIN procs => Sound(next, procs, sums)
<1>1. run[r] \in RunState /\ Sound(run[r], processes, summaries)
  BY DEF IInv, TypeOK
<1>2. run[r].cycle \in Cycle /\ run[r].cycle \in 0 .. Cycles
  BY <1>1 DEF RunState, Sound
<1> QED
  BY <1>2 DEF Idle, RunState, Sound

\* START_NEW_PROCESS up to the create.
LEMMA SuccessorSteps ==
  ASSUME IInv, NEW r \in Runs, NextName(r) \/ CheckPredecessor(r) \/ LookForActive(r)
  PROVE  IInv'
<1>1. run[r] \in RunState /\ Sound(run[r], processes, summaries)
  BY DEF IInv, TypeOK
<1>2. Len(processes) + 1 \in Nat /\ Active \subseteq Nat
  BY DEF IInv, TypeOK, Active
<1>3. CASE NextName(r)
  <2>1. PICK n \in Nat :
           Read(r, [run[r] EXCEPT !.name = n,
                      !.pc = IF run[r].predecessor = 0 THEN "creating" ELSE "checking"])
    BY <1>2, <1>3 DEF NextName
  <2>2. CASE run[r].predecessor = 0
    BY <1>1, <1>3, <2>1, <2>2, ReadStep DEF NextName, RunState, Sound
  <2>3. CASE run[r].predecessor # 0
    BY <1>1, <1>3, <2>1, <2>3, ReadStep DEF NextName, RunState, Sound
  <2> QED
    BY <2>2, <2>3
<1>4. CASE CheckPredecessor(r) /\ Goto(r, "looking") /\ Status(run[r].predecessor) = "SUPERSEDED"
  BY <1>1, <1>4, ReadStep DEF CheckPredecessor, Goto, Status, RunState, Sound
<1>5. CASE LookForActive(r) /\ Goto(r, "creating")
  BY <1>1, <1>5, ReadStep DEF LookForActive, Goto, RunState, Sound
<1>6. ASSUME LookForActive(r), NEW p \in Active, Work(r, p), UNCHANGED <<service, queue>>
      PROVE  IInv'
  BY <1>2, <1>6, WorkIsSound, ReadStep DEF LookForActive, Active, Work, Read
<1> QED
  BY <1>3, <1>4, <1>5, <1>6, RaisesStep DEF CheckPredecessor, LookForActive

LEMMA CreateStep ==
  ASSUME IInv, NEW r \in Runs, Create(r)
  PROVE  IInv'
<1> DEFINE b == run[r].predecessor
           n == Len(processes) + 1
           next == [Idle EXCEPT !.pc = "working", !.cycle = run[r].cycle, !.process = n,
                                !.recovered = (b # 0)]
<1>1. run[r] \in RunState /\ Sound(run[r], processes, summaries) /\ run[r].pc = "creating"
  BY DEF IInv, TypeOK, Create
<1>2. CASE CanCreate(run[r].name)
  <2>1. /\ AddProcess(b) /\ run[r].name = n /\ Move(r, next)
        /\ summaries' = summaries /\ late' = late /\ UNCHANGED queue
    BY <1>2 DEF Create, CanCreate, Work
  <2>2. b \in Nat /\ (b # 0 => b \in DOMAIN processes /\ Status(b) = "SUPERSEDED")
    BY <1>1 DEF RunState, Sound, Status
  <2>3. Grows /\ SuccessorAfterClose' /\ SummaryBeforeClose' /\ n \in DOMAIN processes'
    BY <2>1, <2>2, ProcessAdded
  <2>4. next \in RunState /\ Sound(next, processes', summaries')
    <3>1. n \in Nat /\ (b # 0) \in BOOLEAN
      BY DEF IInv, TypeOK
    <3> HIDE DEF n
    <3> QED
      BY <1>1, <2>3, <3>1, WorkIsSound
  <2>5. QueueTyped' /\ QueueSound'
    BY <2>1 DEF IInv, TypeOK, queue, bounds, QueueTyped, QueueSound
  <2> HIDE DEF next
  <2>6. /\ run' \in [Runs -> RunState]
        /\ \A q \in Runs : run'[q] = run[q] \/ Sound(run'[q], processes', summaries')
    BY <2>1, <2>4 DEF IInv, TypeOK, Move
  <2> QED
    BY <2>1, <2>3, <2>5, <2>6, Preserved
<1> QED
  BY <1>2, RaisesStep DEF Create

LEMMA QueueSteps ==
  ASSUME IInv, NEW r \in Runs, Claim(r) \/ Ack(r) \/ Fault(r)
  PROVE  IInv'
<1>1. Grows /\ SuccessorAfterClose' /\ SummaryBeforeClose' /\ late' = late
  BY ServiceIdle DEF Claim, Ack, Fault, Raises, service
<1>2. CASE Claim(r)
  <2> DEFINE next == [Idle EXCEPT !.pc = "start", !.cycle = settled + 1]
  <2>1. settled + 1 \in Cycle /\ settled + 1 \in 0 .. Cycles
    BY <1>2, LifecycleAssumption DEF Claim, Cycle, IInv, TypeOK
  <2>2. next \in RunState /\ \A procs, sums : Sound(next, procs, sums)
    BY <2>1 DEF Idle, RunState, Sound
  <2> HIDE DEF next
  <2>3. /\ run' \in [Runs -> RunState]
        /\ \A q \in Runs : run'[q] = run[q] \/ Sound(run'[q], processes', summaries')
    BY <1>2, <2>2 DEF Claim, Move, IInv, TypeOK, next
  <2>4. QueueTyped' /\ QueueSound'
    BY <1>2, LifecycleAssumption DEF Claim, IInv, TypeOK, bounds, QueueTyped, QueueSound
  <2> QED
    BY <1>1, <2>3, <2>4, Preserved
<1>3. CASE Ack(r) /\ holder = r
  <2>1. /\ run' \in [Runs -> RunState]
        /\ \A q \in Runs : run'[q] = run[q] \/ Sound(run'[q], processes', summaries')
    BY <1>3, IdleIsSound DEF Ack, Move, IInv, TypeOK
  <2>2. QueueTyped' /\ QueueSound'
    BY <1>3, LifecycleAssumption DEF Ack, IInv, TypeOK, bounds, QueueTyped, QueueSound
  <2> QED
    BY <1>1, <2>1, <2>2, Preserved
<1>4. CASE Fault(r)
  <2>1. QueueTyped' /\ QueueSound'
    BY <1>4, GiveUpStep, LifecycleAssumption DEF Fault, IInv, TypeOK, QueueTyped
  <2>2. /\ run' \in [Runs -> RunState]
        /\ \A q \in Runs : run'[q] = run[q] \/ Sound(run'[q], processes', summaries')
    BY <1>4, GiveUpStep DEF Fault
  <2> QED
    BY <1>1, <2>1, <2>2, Preserved
<1> QED
  BY <1>2, <1>3, <1>4, RaisesStep DEF Ack

LEMMA LapseStep ==
  ASSUME IInv, Lapse
  PROVE  IInv'
<1>1. Grows /\ SuccessorAfterClose' /\ SummaryBeforeClose' /\ late' = late /\ run' = run
  BY ServiceIdle DEF Lapse, service
<1>2. QueueTyped' /\ QueueSound'
  BY ReleaseKeepsQueue, LifecycleAssumption DEF Lapse, IInv, TypeOK, QueueTyped
<1>3. run' \in [Runs -> RunState]
  BY <1>1 DEF IInv, TypeOK
<1> QED
  BY <1>1, <1>2, <1>3, Preserved

\* What a caller knew when it gave up, its write knows when it is executed.
LEMMA AbandonStep ==
  ASSUME IInv, NEW r \in Runs, Abandon(r)
  PROVE  IInv'
<1>1. /\ Grows /\ SuccessorAfterClose' /\ SummaryBeforeClose'
      /\ processes' = processes /\ summaries' = summaries
  BY ServiceIdle DEF Abandon
<1>2. \A c \in late' : c \in late \/ (c \in RunState /\ Sound(c, processes', summaries'))
  BY <1>1 DEF Abandon, IInv, TypeOK
<1>3. QueueTyped' /\ QueueSound'
  BY GiveUpStep, LifecycleAssumption DEF Abandon, IInv, TypeOK, QueueTyped
<1>4. /\ run' \in [Runs -> RunState]
      /\ \A q \in Runs : run'[q] = run[q] \/ Sound(run'[q], processes', summaries')
  BY GiveUpStep DEF Abandon
<1> QED
  BY <1>1, <1>2, <1>3, <1>4, Preserved

LEMMA DeliverStep ==
  ASSUME IInv, NEW call \in late, Deliver(call)
  PROVE  IInv'
<1>1. call \in RunState /\ Sound(call, processes, summaries)
  BY DEF IInv, TypeOK
<1>2. QueueTyped' /\ QueueSound' /\ run' = run /\ late' \subseteq late
  BY DEF Deliver, IInv, TypeOK, queue, bounds, QueueTyped, QueueSound
<1>3. Grows /\ SuccessorAfterClose' /\ SummaryBeforeClose'
  <2>1. CASE call.pc = "writing"
    <3>1. call.cycle \in Cycle /\ call.process \in Nat /\ call.outcome \in Outcomes
      BY <1>1, <2>1 DEF RunState, Sound
    <3>2. AddSummary(call.cycle, call.process, call.outcome) /\ processes' = processes
      BY <2>1 DEF Deliver
    <3> QED
      BY <3>1, <3>2, SummaryAdded
  <2>2. CASE call.pc = "closing" /\ Closable(call.process)
    <3>1. /\ call.cycle \in Cycle /\ call.process \in DOMAIN processes
          /\ call.outcome \in Outcomes
          /\ \E i \in DOMAIN summaries :
                summaries[i] = [process |-> call.process, cycle |-> call.cycle,
                                outcome |-> call.outcome]
      BY <1>1, <2>2 DEF RunState, Sound, Written
    <3>2. SetClosed(call.cycle, call.process, call.outcome) /\ summaries' = summaries
      BY <2>2 DEF Deliver
    <3> QED
      BY <2>2, <3>1, <3>2, ProcessClosed
  <2>3. CASE call.pc = "creating" /\ CanCreate(call.name)
    <3>1. /\ call.predecessor \in Nat
          /\ call.predecessor # 0 =>
               call.predecessor \in DOMAIN processes /\ Status(call.predecessor) = "SUPERSEDED"
      BY <1>1, <2>3 DEF RunState, Sound, Status
    <3>2. AddProcess(call.predecessor) /\ summaries' = summaries
      BY <2>3 DEF Deliver
    <3> QED
      BY <3>1, <3>2, ProcessAdded
  <2>4. CASE processes' = processes /\ summaries' = summaries
    BY <2>4, ServiceIdle
  <2> QED
    BY <2>1, <2>2, <2>3, <2>4 DEF Deliver
<1>4. run' \in [Runs -> RunState]
  BY <1>2 DEF IInv, TypeOK
<1> QED
  BY <1>2, <1>3, <1>4, Preserved

LEMMA Inductive == IInv /\ [Next]_vars => IInv'
<1> SUFFICES ASSUME IInv, [Next]_vars PROVE IInv'
  OBVIOUS
<1>1. ASSUME NEW r \in Runs, Step(r) PROVE IInv'
  BY <1>1, EnsureSteps, DecideStep, SummarySteps, CloseSteps, SuccessorSteps, CreateStep,
     QueueSteps DEF Step
<1>2. ASSUME NEW r \in Runs, Claim(r) \/ Fault(r) \/ Abandon(r) PROVE IInv'
  BY <1>2, QueueSteps, AbandonStep
<1>3. CASE UNCHANGED vars
  <2>1. Grows /\ SuccessorAfterClose' /\ SummaryBeforeClose'
    BY <1>3, ServiceIdle DEF vars
  <2>2. QueueTyped' /\ QueueSound' /\ run' \in [Runs -> RunState] /\ run' = run /\ late' = late
    BY <1>3 DEF vars, IInv, TypeOK, QueueTyped, QueueSound
  <2> QED
    BY <2>1, <2>2, Preserved
<1> QED
  BY <1>1, <1>2, <1>3, DeliverStep, LapseStep DEF Next

LEMMA Invariance == Spec => []IInv
BY InitIInv, Inductive, PTL DEF Spec

-----------------------------------------------------------------------------
\* Rows, summaries, runs and late writes keep their shapes; a cohort is held only while it
\* is open, and is attempted MaxAttempts times at most (claim_pending, mark_failed_batch).
THEOREM LifecycleTyped == Spec => []TypeOK
<1>1. IInv => TypeOK
  BY DEF IInv
<1> QED
  BY <1>1, Invariance, PTL

\* However many runs, retries, lapses and late writes there are, the Memory MCP never holds
\* a closed process without a summary of the closing cycle that names the outcome
\* (write_process_summary before close_current, and its retry in ensure_active).
THEOREM ClosedWithSummary == Spec => []SummaryBeforeClose
<1>1. IInv => SummaryBeforeClose
  BY DEF IInv
<1> QED
  BY <1>1, Invariance, PTL

\* A successor is always younger than its predecessor, which is and stays SUPERSEDED: the
\* successions of a project are chains without cycles, whoever created them and however
\* late (create_successor, CreateProcessWithMemory).
THEOREM ChainOfSuperseded == Spec => []SuccessorAfterClose
<1>1. IInv => SuccessorAfterClose
  BY DEF IInv
<1> QED
  BY <1>1, Invariance, PTL

-----------------------------------------------------------------------------
(* The calls that nothing disturbs: one run at a time, and one late write at most. *)

SameClass(o, u) == o = "SUPERSEDED" <=> u = "SUPERSEDED"

\* Cycle c has closed no process other than p in the class of outcome o.
Room(c, p, o) ==
  \A q \in DOMAIN processes :
    q # p /\ processes[q].closer = c => ~SameClass(Status(q), o)

\* Processes follow one another, each as the one before demands, and the current cycle has
\* closed none for good but the latest.
OneAfterAnother ==
  \A q \in DOMAIN processes :
    /\ q < Latest => Status(q) # "ACTIVE"
    /\ Status(q) = "ACTIVE" => processes[q].closer = 0
    /\ processes[q].predecessor =
         IF q > 1 /\ processes[q - 1].status = "SUPERSEDED" THEN q - 1 ELSE 0
    /\ processes[q].closer <= settled + 1
    /\ q < Latest /\ Status(q) # "SUPERSEDED" => processes[q].closer < settled + 1
    /\ \A p \in DOMAIN processes :
         p < q /\ Status(q) # "ACTIVE" => processes[p].closer <= processes[q].closer

ClosersDiffer ==
  \A p, q \in DOMAIN processes :
    p # q /\ Status(p) # "ACTIVE" /\ Status(q) # "ACTIVE" /\ SameClass(Status(p), Status(q))
      => processes[p].closer # processes[q].closer

\* A summary that a retry may still carry through leaves its cycle room to do so.
SummariesFit ==
  \A i \in DOMAIN summaries :
    /\ summaries[i].process \in DOMAIN processes
    /\ Status(summaries[i].process) = "ACTIVE" =>
         Room(summaries[i].cycle, summaries[i].process, summaries[i].outcome)

\* The process that c is about to create belongs after the latest one.
Follows(c) ==
  /\ Active = {}
  /\ c.predecessor = IF Latest > 0 /\ Status(Latest) = "SUPERSEDED" THEN Latest ELSE 0
  /\ Latest > 0 /\ c.predecessor = 0 => processes[Latest].closer < c.cycle

\* The one late write has been executed, and there will be no other.
Over == late = {} /\ abandoned > 0

LateFits(d) ==
  /\ d.pc \in {"writing", "closing", "creating"}
  /\ d.cycle <= settled + 1
  /\ d.pc # "creating" =>
       \A q \in DOMAIN processes : q < d.process => processes[q].closer <= d.cycle
  /\ d.pc = "writing" /\ Status(d.process) = "ACTIVE" => Room(d.cycle, d.process, d.outcome)
  /\ d.pc = "creating" => d.name <= Latest \/ (d.name = Latest + 1 /\ Follows(d))

RunFits(x) ==
  /\ x.pc # "idle" => x.cycle = settled + 1
  /\ x.pc \in {"own", "before", "working", "summary", "writing", "reading", "closing"} =>
       x.process = Latest /\ (Status(Latest) = "ACTIVE" \/ Over)
  /\ x.pc \in {"before", "working", "summary", "writing"} => processes[Latest].closer # x.cycle
  /\ x.pc = "working" /\ ~x.recovered =>
       \A q \in DOMAIN processes :
         q < Latest /\ Status(q) = "SUPERSEDED" => processes[q].closer # x.cycle
  /\ x.pc \in {"summary", "writing"} => Room(x.cycle, x.process, x.outcome)
  /\ x.pc \in {"before", "working", "summary", "writing", "ack"} =>
       \A d \in late : d.pc = "closing" /\ d.cycle = x.cycle => Status(d.process) # "ACTIVE"
  /\ x.pc = "list" => Active = {} \/ Over
  /\ x.pc = "last" =>
       \/ x.process = Latest /\ Active = {} /\ Status(Latest) # "SUPERSEDED"
       \/ Over /\ Active # {}
  /\ x.pc \in {"naming", "checking", "looking", "creating"} =>
       \/ Follows(x) /\ (x.pc # "naming" => x.name = Latest + 1)
       \/ Over /\ Active # {}
  /\ x.pc = "ack" =>
       \A p \in DOMAIN processes :
         processes[p].closer = x.cycle /\ Status(p) = "SUPERSEDED" => p < Latest

OneAtATime ==
  /\ \A r \in Runs : r = holder \/ run[r].pc = "idle"
  /\ \A c, d \in late : c = d
  /\ late # {} => abandoned > 0

Calm ==
  /\ OneAtATime /\ OneAfterAnother /\ ClosersDiffer /\ SummariesFit
  /\ \A d \in late : LateFits(d)
  /\ \A r \in Runs : RunFits(run[r])

\* What nothing disturbs stays calm.
CalmInv == Undisturbed => Calm

-----------------------------------------------------------------------------
(* Rows of the Memory MCP. *)

LEMMA Rows ==
  ASSUME IInv
  PROVE  /\ Latest \in Nat /\ settled \in Nat /\ DOMAIN processes = 1 .. Latest
         /\ \A p \in DOMAIN processes :
              /\ processes[p].status \in Outcomes \cup {"ACTIVE"}
              /\ processes[p].predecessor \in Nat /\ processes[p].closer \in Nat
              /\ processes[p].status # "ACTIVE" => processes[p].closer \in Cycle
         /\ Cycle \subseteq Nat \ {0} /\ "SUPERSEDED" \in Outcomes /\ "ACTIVE" \notin Outcomes
<1>1. /\ Latest \in Nat /\ settled \in Nat /\ DOMAIN processes = 1 .. Latest
      /\ \A p \in DOMAIN processes : processes[p] \in ProcessRow
  BY LifecycleAssumption DEF IInv, TypeOK, Latest
<1>2. Cycle \subseteq Nat \ {0} /\ "SUPERSEDED" \in Outcomes /\ "ACTIVE" \notin Outcomes
  BY LifecycleAssumption DEF Cycle, Outcomes
<1>3. ASSUME NEW p \in DOMAIN processes, processes[p].status # "ACTIVE"
      PROVE  processes[p].closer \in Cycle
  <2>1. PICK i \in DOMAIN summaries :
           summaries[i] = [process |-> p, cycle |-> processes[p].closer, outcome |-> Status(p)]
    BY <1>3 DEF IInv, SummaryBeforeClose, Status
  <2>2. summaries[i] \in SummaryRow
    BY DEF IInv, TypeOK
  <2> QED
    BY <2>1, <2>2 DEF SummaryRow
<1>4. \A p \in DOMAIN processes :
         /\ processes[p].status \in Outcomes \cup {"ACTIVE"}
         /\ processes[p].predecessor \in Nat /\ processes[p].closer \in Nat
  BY <1>1, LifecycleAssumption DEF ProcessRow
<1> QED
  BY <1>1, <1>2, <1>3, <1>4

LEMMA OnlyTheLatest ==
  ASSUME IInv, OneAfterAnother
  PROVE  /\ \A p \in Active : p = Latest
         /\ Latest > 0 => (Active = {} <=> Status(Latest) # "ACTIVE")
         /\ Latest = 0 => Active = {}
BY Rows DEF OneAfterAnother, Active

\* What the current cycle has superseded is the latest process or the one before it.
LEMMA SupersededLately ==
  ASSUME IInv, OneAfterAnother, ClosersDiffer, NEW q \in DOMAIN processes, q < Latest,
         Status(q) = "SUPERSEDED", processes[q].closer = settled + 1
  PROVE  q = Latest - 1 /\ processes[Latest].predecessor = q
<1>1. q \in Nat /\ q > 0 /\ Latest \in Nat /\ q + 1 \in DOMAIN processes /\ settled \in Nat
  BY Rows
<1>2. processes[q + 1].predecessor = q
  BY <1>1 DEF OneAfterAnother, Status
<1>3. CASE q + 1 < Latest
  <2>1. Status(q + 1) # "ACTIVE" /\ processes[q + 1].closer = settled + 1
    BY <1>1, <1>3, Rows DEF OneAfterAnother
  <2>2. Status(q + 1) = "SUPERSEDED"
    BY <1>1, <1>3, <2>1 DEF OneAfterAnother
  <2> QED
    BY <1>1, <2>1, <2>2 DEF ClosersDiffer, SameClass
<1> QED
  BY <1>1, <1>2, <1>3

-----------------------------------------------------------------------------
(* What the steps of the service keep. *)

LEMMA RowsKept ==
  ASSUME IInv, OneAfterAnother, ClosersDiffer, UNCHANGED processes,
         settled' \in {settled, settled + 1}
  PROVE  /\ OneAfterAnother' /\ ClosersDiffer'
         /\ \A d \in late : LateFits(d) => LateFits(d)'
<1>1. \A q \in DOMAIN processes : processes[q].closer \in Nat /\ settled \in Nat
  BY Rows
<1>2. OneAfterAnother' /\ ClosersDiffer'
  BY <1>1 DEF OneAfterAnother, ClosersDiffer, Status, Latest
<1>3. ASSUME NEW d \in late, LateFits(d) PROVE LateFits(d)'
  <2>1. d.cycle \in Nat /\ settled \in Nat
    BY Rows DEF IInv, TypeOK, RunState
  <2> QED
    BY <1>3, <2>1 DEF LateFits, Follows, Room, Status, Latest, Active
<1> QED
  BY <1>2, <1>3

LEMMA WriteKeeps ==
  ASSUME IInv, SummariesFit, NEW c \in Cycle, NEW p \in DOMAIN processes, NEW o \in Outcomes,
         AddSummary(c, p, o), UNCHANGED processes, Status(p) = "ACTIVE" => Room(c, p, o)
  PROVE  SummariesFit'
<1> DEFINE row == [process |-> p, cycle |-> c, outcome |-> o]
<1>1. summaries \in Seq(SummaryRow) /\ row \in SummaryRow
  BY DEF IInv, TypeOK, SummaryRow
<1>2. summaries' = Append(summaries, row)
  BY DEF AddSummary
<1> HIDE DEF row
<1>3. \A i \in DOMAIN summaries' :
         summaries'[i] = row \/ (i \in DOMAIN summaries /\ summaries'[i] = summaries[i])
  BY <1>1, <1>2
<1>4. row.process = p /\ row.cycle = c /\ row.outcome = o
  BY DEF row
<1> QED
  BY <1>3, <1>4 DEF SummariesFit, Room, Status

LEMMA CloseKeeps ==
  ASSUME IInv, OneAfterAnother, ClosersDiffer, SummariesFit,
         NEW c \in Cycle, c <= settled + 1, NEW p \in DOMAIN processes, NEW o \in Outcomes,
         Closable(p), SetClosed(c, p, o), UNCHANGED <<summaries, settled>>, Room(c, p, o),
         \A q \in DOMAIN processes : q < p => processes[q].closer <= c
  PROVE  /\ p = Latest /\ Latest' = Latest /\ DOMAIN processes' = DOMAIN processes
         /\ \A q \in DOMAIN processes : q # p => processes'[q] = processes[q]
         /\ processes'[p].status = o /\ processes'[p].closer = c
         /\ Active' = {}
         /\ OneAfterAnother' /\ ClosersDiffer' /\ SummariesFit'
         /\ \A d \in late : LateFits(d) => LateFits(d)'
<1>1. p = Latest /\ Latest \in Nat /\ settled \in Nat
  BY OnlyTheLatest, Rows DEF Closable, Active
<1>2. /\ DOMAIN processes' = DOMAIN processes
      /\ \A q \in DOMAIN processes : q # p => processes'[q] = processes[q]
      /\ processes'[p] = [status |-> o, predecessor |-> processes[p].predecessor, closer |-> c]
  BY DEF SetClosed
<1>3. /\ processes'[p].status = o /\ processes'[p].closer = c
      /\ processes'[p].predecessor = processes[p].predecessor
  BY <1>2
<1>4. Latest' = Latest
  <2>1. processes' \in Seq(ProcessRow)
    <3>1. processes \in Seq(ProcessRow) /\ processes[p] \in ProcessRow
      BY DEF IInv, TypeOK
    <3>2. [status |-> o, predecessor |-> processes[p].predecessor, closer |-> c] \in ProcessRow
      BY <3>1 DEF ProcessRow, Cycle
    <3> QED
      BY <3>1, <3>2 DEF SetClosed
  <2>2. Len(processes') \in Nat /\ 1 .. Len(processes') = 1 .. Latest
    BY <1>2, <2>1, Rows
  <2> QED
    BY <1>1, <2>2 DEF Latest
<1>5. Active' = {}
  BY <1>1, <1>2, <1>3, OnlyTheLatest, Rows DEF Active, Status
<1>6. OneAfterAnother'
  <2> SUFFICES ASSUME NEW q \in DOMAIN processes
               PROVE  /\ q < Latest => processes'[q].status # "ACTIVE"
                      /\ processes'[q].status = "ACTIVE" => processes'[q].closer = 0
                      /\ processes'[q].predecessor =
                           IF q > 1 /\ processes'[q - 1].status = "SUPERSEDED" THEN q - 1 ELSE 0
                      /\ processes'[q].closer <= settled + 1
                      /\ q < Latest /\ processes'[q].status # "SUPERSEDED"
                           => processes'[q].closer < settled + 1
                      /\ \A u \in DOMAIN processes :
                           u < q /\ processes'[q].status # "ACTIVE"
                             => processes'[u].closer <= processes'[q].closer
    BY <1>2, <1>4 DEF OneAfterAnother, Status
  <2>1. \A u \in DOMAIN processes : u < q => processes'[u] = processes[u]
    BY <1>1, <1>2, Rows
  <2>2. processes'[q].predecessor =
          IF q > 1 /\ processes'[q - 1].status = "SUPERSEDED" THEN q - 1 ELSE 0
    <3>1. processes'[q].predecessor = processes[q].predecessor
      BY <1>2, <1>3
    <3>2. q > 1 => q - 1 \in DOMAIN processes /\ q - 1 < q
      BY Rows
    <3> QED
      BY <2>1, <3>1, <3>2 DEF OneAfterAnother
  <2>3. CASE q = p
    BY <1>1, <1>3, <2>1, <2>2, <2>3, Rows
  <2>4. CASE q # p
    BY <1>2, <2>1, <2>2, <2>4 DEF OneAfterAnother, Status
  <2> QED
    BY <2>3, <2>4
<1>7. ClosersDiffer'
  BY <1>2, <1>3 DEF ClosersDiffer, Room, SameClass, Status
<1>8. SummariesFit'
  BY <1>2, <1>3, <1>5 DEF SummariesFit, Active, Status
<1>9. ASSUME NEW d \in late, LateFits(d) PROVE LateFits(d)'
  <2>1. p \in Active /\ p > 0
    BY <1>1, Rows DEF Closable, Active
  <2>2. ~Follows(d)
    BY <2>1 DEF Follows
  <2>3. d.pc \in {"writing", "closing"} => d.process \in DOMAIN processes
    BY DEF IInv, Sound
  <2>4. d.pc # "creating" =>
           \A q \in DOMAIN processes' : q < d.process => processes'[q].closer <= d.cycle
    BY <1>1, <1>2, <1>9, <2>3, Rows DEF LateFits
  <2>5. d.pc = "writing" /\ Status(d.process)' = "ACTIVE" => Room(d.cycle, d.process, d.outcome)'
    BY <1>2, <1>5, <2>3 DEF Active, Status
  <2> QED
    BY <1>4, <1>9, <2>2, <2>4, <2>5 DEF LateFits
<1> QED
  BY <1>1, <1>2, <1>3, <1>4, <1>5, <1>6, <1>7, <1>8, <1>9

LEMMA AddKeeps ==
  ASSUME IInv, OneAfterAnother, ClosersDiffer, SummariesFit,
         NEW x, x.predecessor \in Nat, x.cycle \in Nat, x.cycle <= settled + 1, Follows(x),
         AddProcess(x.predecessor), UNCHANGED <<summaries, settled>>
  PROVE  /\ Latest' = Latest + 1 /\ DOMAIN processes' = DOMAIN processes \cup {Latest + 1}
         /\ \A q \in DOMAIN processes : processes'[q] = processes[q]
         /\ processes'[Latest + 1].status = "ACTIVE" /\ processes'[Latest + 1].closer = 0
         /\ OneAfterAnother' /\ ClosersDiffer' /\ SummariesFit'
         /\ \A d \in late : LateFits(d) => LateFits(d)'
<1> DEFINE row == [status |-> "ACTIVE", predecessor |-> x.predecessor, closer |-> 0]
           n == Latest + 1
<1>1. processes \in Seq(ProcessRow) /\ row \in ProcessRow
  BY LifecycleAssumption DEF IInv, TypeOK, ProcessRow
<1>2. processes' = Append(processes, row)
  BY DEF AddProcess
<1>3. row.status = "ACTIVE" /\ row.predecessor = x.predecessor /\ row.closer = 0
  OBVIOUS
<1> HIDE DEF row
<1>4. /\ Latest' = Latest + 1 /\ DOMAIN processes' = DOMAIN processes \cup {n}
      /\ \A q \in DOMAIN processes : processes'[q] = processes[q]
      /\ processes'[n] = row
  BY <1>1, <1>2 DEF Latest
<1>5. /\ Latest \in Nat /\ settled \in Nat /\ DOMAIN processes = 1 .. Latest
      /\ n \in Nat /\ n > Latest /\ n \notin DOMAIN processes /\ n - 1 = Latest
  BY Rows
<1> HIDE DEF n
<1>6. \A q \in DOMAIN processes : Status(q) # "ACTIVE"
  BY DEF Follows, Active
<1>7. OneAfterAnother'
  <2> SUFFICES ASSUME NEW q \in DOMAIN processes'
               PROVE  /\ q < n => processes'[q].status # "ACTIVE"
                      /\ processes'[q].status = "ACTIVE" => processes'[q].closer = 0
                      /\ processes'[q].predecessor =
                           IF q > 1 /\ processes'[q - 1].status = "SUPERSEDED" THEN q - 1 ELSE 0
                      /\ processes'[q].closer <= settled + 1
                      /\ q < n /\ processes'[q].status # "SUPERSEDED"
                           => processes'[q].closer < settled + 1
                      /\ \A u \in DOMAIN processes' :
                           u < q /\ processes'[q].status # "ACTIVE"
                             => processes'[u].closer <= processes'[q].closer
    BY <1>4 DEF OneAfterAnother, Status, n
  <2>1. CASE q = n
    <3>1. CASE Latest > 0 /\ Status(Latest) = "SUPERSEDED"
      <4>1. x.predecessor = Latest /\ processes'[Latest].status = "SUPERSEDED" /\ n > 1
        BY <1>4, <1>5, <3>1 DEF Follows, Status
      <4> QED
        BY <1>3, <1>4, <1>5, <2>1, <4>1
    <3>2. CASE ~(Latest > 0 /\ Status(Latest) = "SUPERSEDED")
      <4>1. x.predecessor = 0 /\ ~(n > 1 /\ processes'[Latest].status = "SUPERSEDED")
        BY <1>4, <1>5, <3>2 DEF Follows, Status
      <4> QED
        BY <1>3, <1>4, <1>5, <2>1, <4>1
    <3> QED
      BY <3>1, <3>2
  <2>2. CASE q \in DOMAIN processes
    <3>1. processes'[q] = processes[q] /\ (q > 1 => q - 1 \in DOMAIN processes)
      BY <1>4, <1>5, <2>2
    <3>2. processes[q].predecessor =
            IF q > 1 /\ processes'[q - 1].status = "SUPERSEDED" THEN q - 1 ELSE 0
      BY <1>4, <2>2, <3>1 DEF OneAfterAnother
    <3>3. processes[q].status # "SUPERSEDED" => processes[q].closer < settled + 1
      <4>1. CASE q = Latest
        <5>1. processes[q].status # "SUPERSEDED" => processes[Latest].closer < x.cycle
          BY <1>5, <2>2, <4>1 DEF Follows, Status
        <5> QED
          BY <1>5, <2>2, <4>1, <5>1, Rows
      <4>2. CASE q < Latest
        BY <2>2, <4>2 DEF OneAfterAnother, Status
      <4> QED
        BY <1>5, <2>2, <4>1, <4>2
    <3>4. \A u \in DOMAIN processes' : u < q => u \in DOMAIN processes
      BY <1>4, <1>5, <2>2
    <3>5. /\ processes[q].closer <= settled + 1
          /\ \A u \in DOMAIN processes : u < q => processes[u].closer <= processes[q].closer
      BY <1>6, <2>2 DEF OneAfterAnother
    <3> QED
      BY <1>4, <1>6, <2>2, <3>1, <3>2, <3>3, <3>4, <3>5 DEF Status
  <2> QED
    BY <1>4, <2>1, <2>2
<1>8. ClosersDiffer'
  BY <1>3, <1>4 DEF ClosersDiffer, Status
<1>9. SummariesFit'
  BY <1>4, <1>6 DEF SummariesFit, Status
<1>10. ASSUME NEW d \in late, LateFits(d) PROVE LateFits(d)'
  <2>1. /\ d.pc \in {"writing", "closing", "creating"} /\ d.name \in Nat /\ d.cycle # 0
        /\ d.pc \in {"writing", "closing"} => d.process \in DOMAIN processes
    BY <1>10, Rows DEF LateFits, IInv, TypeOK, RunState, Sound
  <2>2. d.pc # "creating" =>
           \A q \in DOMAIN processes' : q < d.process => processes'[q].closer <= d.cycle
    BY <1>4, <1>5, <1>10, <2>1 DEF LateFits
  <2>3. d.pc # "writing" \/ Status(d.process)' # "ACTIVE"
    BY <1>4, <1>6, <2>1 DEF Status
  <2>4. d.pc = "creating" => d.name <= Latest'
    BY <1>4, <1>5, <1>10, <2>1 DEF LateFits
  <2> QED
    BY <1>10, <2>2, <2>3, <2>4 DEF LateFits
<1> QED
  BY <1>3, <1>4, <1>7, <1>8, <1>9, <1>10 DEF n

-----------------------------------------------------------------------------
(* Each action stays calm. *)

LEMMA Alone ==
  ASSUME IInv, Calm, NEW r \in Runs, run[r].pc # "idle"
  PROVE  /\ holder = r /\ \A q \in Runs : q # r => run[q].pc = "idle"
         /\ run[r] \in RunState /\ Sound(run[r], processes, summaries)
         /\ run[r].cycle = settled + 1 /\ run[r].cycle \in Cycle /\ run[r].cycle \in Nat \ {0}
         /\ RunFits(run[r])
BY Rows DEF Calm, OneAtATime, RunFits, IInv, TypeOK, Sound

LEMMA CalmRead ==
  ASSUME IInv, Calm, NEW r \in Runs, run[r].pc # "idle", NEW rec, Read(r, rec), RunFits(rec)
  PROVE  Calm'
<1>1. /\ run'[r] = rec /\ \A q \in Runs : q # r => run'[q] = run[q]
      /\ UNCHANGED <<processes, summaries, late, holder, settled, attempts, bounds>>
  BY DEF Read, Move, service, queue, IInv, TypeOK
<1>2. OneAtATime'
  BY <1>1, Alone DEF Calm, OneAtATime, bounds
<1>3. OneAfterAnother' /\ ClosersDiffer' /\ SummariesFit' /\ \A d \in late' : LateFits(d)'
  BY <1>1, RowsKept DEF Calm, SummariesFit, Room, Status
<1>4. ASSUME NEW q \in Runs PROVE RunFits(run[q])'
  <2>1. RunFits(run'[q])
    BY <1>1 DEF Calm
  <2> QED
    BY <1>1, <2>1 DEF RunFits, Over, Follows, Room, Status, Active, Latest, bounds
<1> QED
  BY <1>2, <1>3, <1>4 DEF Calm

\* A run ends, and its cohort is released or settled.
LEMMA CalmEnd ==
  ASSUME IInv, Calm, NEW r \in Runs, run[r].pc # "idle", Move(r, Idle), holder' = 0,
         settled' \in {settled, settled + 1}, UNCHANGED <<service, abandoned>>
  PROVE  Calm'
<1>1. \A q \in Runs : run'[q].pc = "idle"
  BY Alone DEF Move, Idle, IInv, TypeOK
<1>2. OneAtATime' /\ \A q \in Runs : RunFits(run[q])'
  BY <1>1 DEF Calm, OneAtATime, RunFits, service
<1>3. OneAfterAnother' /\ ClosersDiffer' /\ SummariesFit' /\ \A d \in late' : LateFits(d)'
  BY RowsKept DEF Calm, SummariesFit, Room, Status, service
<1> QED
  BY <1>2, <1>3 DEF Calm

LEMMA CalmRaises ==
  ASSUME IInv, Calm, NEW r \in Runs, run[r].pc # "idle", GiveUp(r),
         UNCHANGED <<service, abandoned>>
  PROVE  Calm'
<1>1. Move(r, Idle) /\ Release
  BY Alone DEF GiveUp
<1> QED
  BY <1>1, CalmEnd DEF Release

\* A cycle without a summary in a process has not closed it.
LEMMA NotClosedBy ==
  ASSUME IInv, OneAfterAnother, NEW c \in Cycle, NEW p \in DOMAIN processes,
         SummariesOf(c, p) = {}
  PROVE  processes[p].closer # c
<1>1. CASE Status(p) = "ACTIVE"
  BY <1>1, Rows DEF OneAfterAnother
<1>2. CASE Status(p) # "ACTIVE" /\ processes[p].closer = c
  <2>1. PICK i \in DOMAIN summaries :
           summaries[i] = [process |-> p, cycle |-> c, outcome |-> Status(p)]
    BY <1>2 DEF IInv, SummaryBeforeClose
  <2>2. i \in SummariesOf(c, p)
    BY <2>1 DEF SummariesOf
  <2> QED
    BY <2>2
<1> QED
  BY <1>1, <1>2

LEMMA LateKnows ==
  ASSUME IInv, Calm, NEW d \in late
  PROVE  /\ d.pc \in {"writing", "closing", "creating"}
         /\ d.cycle \in Cycle /\ d.cycle <= settled + 1 /\ d.outcome \in Outcomes \cup {"none"}
         /\ d.process \in Nat /\ d.predecessor \in Nat /\ d.name \in Nat
         /\ d.pc \in {"writing", "closing"} =>
              d.process \in DOMAIN processes /\ d.outcome \in Outcomes
         /\ d.pc = "closing" => SummariesOf(d.cycle, d.process) # {}
         /\ d.pc = "closing" => Written(d, summaries)
<1>1. d \in RunState /\ Sound(d, processes, summaries) /\ LateFits(d)
  BY DEF IInv, TypeOK, Calm
<1>2. d.pc = "closing" => Written(d, summaries)
  BY <1>1 DEF Sound
<1>3. Written(d, summaries) => SummariesOf(d.cycle, d.process) # {}
  BY DEF Written, SummariesOf
<1> QED
  BY <1>1, <1>2, <1>3 DEF RunState, Sound, LateFits

LEMMA CalmEnsure ==
  ASSUME IInv, Calm, NEW r \in Runs,
         \/ GetActive(r) \/ OwnSummary(r) \/ PredecessorSummary(r)
         \/ ListLatest(r) \/ LastSummary(r)
  PROVE  Calm'
<1> DEFINE x == run[r]
           c == x.cycle
<1>1. x.pc \in {"start", "own", "before", "list", "last"}
  BY DEF GetActive, OwnSummary, PredecessorSummary, ListLatest, LastSummary
<1>2. /\ x \in RunState /\ Sound(x, processes, summaries) /\ RunFits(x)
      /\ c = settled + 1 /\ c \in Cycle /\ c \in Nat \ {0}
  BY <1>1, Alone
<1>3. OneAfterAnother /\ ClosersDiffer /\ Latest \in Nat /\ DOMAIN processes = 1 .. Latest
  BY Rows DEF Calm
<1>4. Active = {} => \A d \in late : d.pc = "closing" => Status(d.process) # "ACTIVE"
  BY LateKnows DEF Active
<1> HIDE DEF x
<1>5. ASSUME NEW rec, Read(r, rec), RunFits(rec) PROVE Calm'
  BY <1>1, <1>5, CalmRead DEF x
<1>6. CASE GetActive(r)
  <2>1. CASE Active = {} /\ Goto(r, "list")
    <3>1. RunFits([x EXCEPT !.pc = "list"])
      BY <1>2, <2>1 DEF RunFits, RunState
    <3> QED
      BY <1>5, <2>1, <3>1 DEF Goto, x
  <2>2. ASSUME NEW p \in Active, Read(r, [x EXCEPT !.pc = "own", !.process = p])
        PROVE  Calm'
    <3>1. p = Latest /\ Status(Latest) = "ACTIVE"
      BY <1>3, OnlyTheLatest DEF Active
    <3>2. RunFits([x EXCEPT !.pc = "own", !.process = p])
      BY <1>2, <3>1 DEF RunFits, RunState
    <3> QED
      BY <1>5, <2>2, <3>2
  <2> QED
    BY <1>6, <2>1, <2>2 DEF GetActive, x
<1>7. CASE OwnSummary(r)
  <2>1. /\ x.pc = "own" /\ x.process = Latest /\ (Status(Latest) = "ACTIVE" \/ Over)
        /\ Latest \in DOMAIN processes
    BY <1>2, <1>7 DEF OwnSummary, RunFits, Sound, x
  <2>2. CASE SummariesOf(c, x.process) # {}
    <3> DEFINE o == NewestOutcome(c, x.process)
    <3>1. Read(r, [x EXCEPT !.pc = "reading", !.outcome = o])
      BY <1>7, <2>2 DEF OwnSummary, x
    <3> HIDE DEF o
    <3>2. RunFits([x EXCEPT !.pc = "reading", !.outcome = o])
      BY <1>2, <2>1 DEF RunFits, RunState
    <3> QED
      BY <1>5, <3>1, <3>2
  <2>3. CASE SummariesOf(c, x.process) = {}
    <3>1. processes[Latest].closer # c
      BY <1>2, <1>3, <2>1, <2>3, NotClosedBy
    <3>2. \A d \in late : d.pc = "closing" /\ d.cycle = c => Status(d.process) # "ACTIVE"
      BY <1>3, <2>1, <2>3, LateKnows, OnlyTheLatest DEF Active
    <3>3. CASE processes[Latest].predecessor = 0
      <4>1. \A q \in DOMAIN processes :
               q < Latest /\ Status(q) = "SUPERSEDED" => processes[q].closer # c
        BY <1>2, <1>3, <3>3, SupersededLately
      <4>2. RunFits([x EXCEPT !.pc = "working"])
        BY <1>2, <2>1, <3>1, <3>2, <4>1 DEF RunFits, RunState
      <4> QED
        BY <1>5, <1>7, <2>1, <2>3, <3>3, <4>2 DEF OwnSummary, Goto, x
    <3>4. CASE processes[Latest].predecessor # 0
      <4>1. RunFits([x EXCEPT !.pc = "before"])
        BY <1>2, <2>1, <3>1, <3>2 DEF RunFits, RunState
      <4> QED
        BY <1>5, <1>7, <2>1, <2>3, <3>4, <4>1 DEF OwnSummary, Goto, x
    <3> QED
      BY <3>3, <3>4
  <2> QED
    BY <2>2, <2>3
<1>8. CASE PredecessorSummary(r)
  <2> DEFINE known == Recovers(c, x.process)
  <2>1. x.pc = "before" /\ Read(r, [x EXCEPT !.pc = "working", !.recovered = known])
    BY <1>8 DEF PredecessorSummary, x
  <2>2. ~known => \A q \in DOMAIN processes :
                     q < Latest /\ Status(q) = "SUPERSEDED" => processes[q].closer # c
    <3> SUFFICES ASSUME ~known, NEW q \in DOMAIN processes, q < Latest,
                        Status(q) = "SUPERSEDED", processes[q].closer = c
                 PROVE  FALSE
      OBVIOUS
    <3>1. processes[Latest].predecessor = q /\ x.process = Latest
      BY <1>2, <1>3, <2>1, SupersededLately DEF RunFits
    <3>2. SummariesOf(c, q) = {}
      BY <3>1 DEF Recovers
    <3> QED
      BY <1>2, <1>3, <3>2, NotClosedBy
  <2> HIDE DEF known
  <2>3. known \in BOOLEAN
    BY DEF known, Recovers
  <2>4. RunFits([x EXCEPT !.pc = "working", !.recovered = known])
    BY <1>2, <2>1, <2>2, <2>3 DEF RunFits, RunState
  <2> QED
    BY <1>5, <2>1, <2>4
<1>9. CASE ListLatest(r)
  <2>1. x.pc = "list" /\ x.predecessor = 0 /\ (Active = {} \/ Over)
    BY <1>2, <1>9 DEF ListLatest, RunFits, Sound, x
  <2>2. processes = <<>> <=> Latest = 0
    BY DEF Latest, IInv, TypeOK
  <2>3. CASE processes = <<>> /\ Read(r, [x EXCEPT !.pc = "creating", !.name = 1])
    <3>1. Follows([x EXCEPT !.pc = "creating", !.name = 1])
      BY <1>2, <1>3, <2>1, <2>2, <2>3, OnlyTheLatest DEF Follows, RunState
    <3>2. RunFits([x EXCEPT !.pc = "creating", !.name = 1])
      BY <1>2, <2>2, <2>3, <3>1 DEF RunFits, RunState
    <3> QED
      BY <1>5, <2>3, <3>2
  <2>4. CASE /\ processes # <<>> /\ AwaitsSuccessor(Latest)
             /\ Read(r, [x EXCEPT !.pc = "naming", !.predecessor = Latest])
    <3>1. Follows([x EXCEPT !.pc = "naming", !.predecessor = Latest])
      BY <1>2, <1>3, <2>2, <2>4, OnlyTheLatest DEF AwaitsSuccessor, Follows, RunState
    <3>2. RunFits([x EXCEPT !.pc = "naming", !.predecessor = Latest])
      BY <1>2, <3>1 DEF RunFits, RunState
    <3> QED
      BY <1>5, <2>4, <3>2
  <2>5. CASE /\ processes # <<>> /\ ~AwaitsSuccessor(Latest)
             /\ Read(r, [x EXCEPT !.pc = "last", !.process = Latest])
    <3>1. RunFits([x EXCEPT !.pc = "last", !.process = Latest])
      BY <1>2, <2>1, <2>5 DEF AwaitsSuccessor, RunFits, RunState
    <3> QED
      BY <1>5, <2>5, <3>1
  <2> QED
    BY <1>9, <2>3, <2>4, <2>5 DEF ListLatest, x
<1>10. CASE LastSummary(r)
  <2>1. /\ x.pc = "last" /\ x.predecessor = 0 /\ x.process \in DOMAIN processes
        /\ \/ x.process = Latest /\ Active = {} /\ Status(Latest) # "SUPERSEDED"
           \/ Over /\ Active # {}
    BY <1>2, <1>10 DEF LastSummary, RunFits, Sound, x
  <2>2. CASE SummariesOf(c, x.process) # {}
    <3>1. /\ Latest \in DOMAIN processes /\ Status(Latest) # "SUPERSEDED"
          /\ \A d \in late : d.pc = "closing" => Status(d.process) # "ACTIVE"
      BY <1>3, <1>4, <2>1, OnlyTheLatest DEF Over, Active
    <3>2. RunFits([x EXCEPT !.pc = "ack"])
      BY <1>2, <1>3, <3>1 DEF RunFits, RunState
    <3> QED
      BY <1>5, <1>10, <2>2, <3>2 DEF LastSummary, Goto, x
  <2>3. CASE SummariesOf(c, x.process) = {}
    <3>1. Active = {} => Follows([x EXCEPT !.pc = "naming"])
      <4> SUFFICES ASSUME Active = {} PROVE Follows([x EXCEPT !.pc = "naming"])
        OBVIOUS
      <4>1. Latest \in DOMAIN processes /\ Status(Latest) # "SUPERSEDED"
        BY <2>1
      <4>2. processes[Latest].closer < c
        <5>1. processes[Latest].closer # c
          BY <1>2, <1>3, <2>1, <2>3, NotClosedBy
        <5>2. processes[Latest].closer <= settled + 1 /\ processes[Latest].closer \in Nat
          BY <1>3, <4>1, Rows DEF OneAfterAnother
        <5> QED
          BY <1>2, <5>1, <5>2
      <4> QED
        BY <1>2, <2>1, <4>1, <4>2 DEF Follows, RunState
    <3>2. RunFits([x EXCEPT !.pc = "naming"])
      BY <1>2, <2>1, <3>1 DEF RunFits, RunState
    <3> QED
      BY <1>5, <1>10, <2>3, <3>2 DEF LastSummary, Goto, x
  <2> QED
    BY <2>2, <2>3
<1> QED
  BY <1>6, <1>7, <1>8, <1>9, <1>10

LEMMA CalmDecide ==
  ASSUME IInv, Calm, NEW r \in Runs, Decide(r) \/ SearchTitle(r)
  PROVE  Calm'
<1> DEFINE x == run[r]
           c == x.cycle
<1>1. x.pc \in {"working", "summary"}
  BY DEF Decide, SearchTitle
<1>2. /\ x \in RunState /\ Sound(x, processes, summaries) /\ RunFits(x)
      /\ c = settled + 1 /\ c \in Cycle /\ c \in Nat \ {0}
  BY <1>1, Alone
<1>3. OneAfterAnother /\ Latest \in Nat /\ DOMAIN processes = 1 .. Latest
  BY Rows DEF Calm
<1> HIDE DEF x
<1>4. x.process = Latest /\ (Status(Latest) = "ACTIVE" \/ Over) /\ processes[Latest].closer # c
  BY <1>1, <1>2 DEF RunFits
<1>5. ASSUME NEW rec, Read(r, rec), RunFits(rec) PROVE Calm'
  BY <1>1, <1>5, CalmRead DEF x
<1>6. CASE x.pc = "working" /\ Goto(r, "ack")
  <2>1. \A p \in DOMAIN processes :
           processes[p].closer = c /\ Status(p) = "SUPERSEDED" => p < Latest
    BY <1>3, <1>4
  <2>2. RunFits([x EXCEPT !.pc = "ack"])
    BY <1>2, <1>6, <2>1 DEF RunFits, RunState
  <2> QED
    BY <1>5, <1>6, <2>2 DEF Goto, x
<1>7. ASSUME NEW o \in IF x.recovered THEN Final ELSE Outcomes, x.pc = "working",
             Read(r, [x EXCEPT !.pc = "summary", !.outcome = o])
      PROVE  Calm'
  <2>1. Room(c, Latest, o)
    <3> SUFFICES ASSUME NEW q \in DOMAIN processes, q # Latest, processes[q].closer = c,
                        SameClass(Status(q), o)
                 PROVE  FALSE
      BY DEF Room
    <3>1. q < Latest /\ Status(q) = "SUPERSEDED"
      BY <1>2, <1>3 DEF OneAfterAnother
    <3>2. o = "SUPERSEDED" /\ o \notin Final
      BY <3>1, LifecycleAssumption DEF SameClass
    <3>3. ~x.recovered
      BY <1>7, <3>2
    <3> QED
      BY <1>2, <1>7, <3>1, <3>3 DEF RunFits
  <2>2. RunFits([x EXCEPT !.pc = "summary", !.outcome = o])
    BY <1>2, <1>4, <1>7, <2>1 DEF RunFits, RunState
  <2> QED
    BY <1>5, <1>7, <2>2
<1>8. CASE SearchTitle(r)
  <2>1. /\ RunFits([x EXCEPT !.pc = "reading"]) /\ RunFits([x EXCEPT !.pc = "writing"])
    BY <1>2, <1>8 DEF SearchTitle, RunFits, RunState, x
  <2> QED
    BY <1>5, <1>8, <2>1 DEF SearchTitle, Goto, x
<1> QED
  BY <1>6, <1>7, <1>8 DEF Decide, x

LEMMA CalmWrite ==
  ASSUME IInv, Calm, NEW r \in Runs, WriteSummary(r)
  PROVE  Calm'
<1> DEFINE x == run[r]
<1>1. x.pc = "writing"
  BY DEF WriteSummary
<1>2. /\ x \in RunState /\ Sound(x, processes, summaries) /\ RunFits(x)
      /\ x.cycle \in Cycle /\ x.process \in DOMAIN processes /\ x.outcome \in Outcomes
      /\ \A q \in Runs : q # r => run[q].pc = "idle"
  BY <1>1, Alone DEF Sound
<1>3. /\ AddSummary(x.cycle, x.process, x.outcome)
      /\ run'[r] = [x EXCEPT !.pc = "reading"] /\ \A q \in Runs : q # r => run'[q] = run[q]
      /\ UNCHANGED <<processes, late, holder, settled, abandoned>>
  BY DEF WriteSummary, Move, queue, bounds, IInv, TypeOK
<1> HIDE DEF x
<1>4. Room(x.cycle, x.process, x.outcome)
  BY <1>1, <1>2 DEF RunFits
<1>5. SummariesFit'
  BY <1>2, <1>3, <1>4, WriteKeeps DEF Calm
<1>6. OneAfterAnother' /\ ClosersDiffer' /\ \A d \in late' : LateFits(d)'
  BY <1>3, RowsKept DEF Calm
<1>7. RunFits(run[r])'
  <2>1. /\ run'[r].pc = "reading" /\ run'[r].cycle = x.cycle /\ run'[r].process = x.process
    BY <1>2, <1>3 DEF RunState
  <2>2. x.cycle = settled + 1 /\ x.process = Latest /\ (Status(Latest) = "ACTIVE" \/ Over)
    BY <1>1, <1>2 DEF RunFits
  <2> QED
    BY <1>3, <2>1, <2>2 DEF RunFits, Over, Status, Latest
<1>8. \A q \in Runs : q # r => RunFits(run[q])'
  BY <1>2, <1>3 DEF RunFits
<1>9. OneAtATime'
  BY <1>3, <1>1, Alone DEF Calm, OneAtATime, x
<1> QED
  BY <1>5, <1>6, <1>7, <1>8, <1>9 DEF Calm

\* What the run of the current cycle is about to write for good.
LEMMA RoomToClose ==
  ASSUME IInv, Calm, NEW x, x.process \in DOMAIN processes, Written(x, summaries),
         Closable(x.process)
  PROVE  Room(x.cycle, x.process, x.outcome)
BY DEF Calm, SummariesFit, Written, Closable

LEMMA CalmClose ==
  ASSUME IInv, Calm, NEW r \in Runs, ReadBeforeClose(r) \/ Close(r)
  PROVE  Calm'
<1> DEFINE x == run[r]
           c == x.cycle
           o == x.outcome
           next == [x EXCEPT !.pc = AfterClose(o),
                             !.predecessor = IF o = "SUPERSEDED" THEN x.process ELSE 0]
<1>1. x.pc \in {"reading", "closing"}
  BY DEF ReadBeforeClose, Close
<1>2. /\ x \in RunState /\ RunFits(x) /\ Written(x, summaries)
      /\ c = settled + 1 /\ c \in Cycle /\ c \in Nat \ {0}
      /\ x.process \in DOMAIN processes /\ o \in Outcomes
      /\ \A q \in Runs : q # r => run[q].pc = "idle"
  BY <1>1, Alone DEF Sound
<1>3. OneAfterAnother /\ Latest \in Nat /\ DOMAIN processes = 1 .. Latest
  BY Rows DEF Calm
<1>4. Closed(r) = Move(r, next)
  BY DEF Closed
<1> HIDE DEF x
<1>5. x.process = Latest /\ (Status(Latest) = "ACTIVE" \/ Over)
  BY <1>1, <1>2 DEF RunFits
<1>6. /\ next.pc = (IF o = "SUPERSEDED" THEN "naming" ELSE "ack")
      /\ next.predecessor = (IF o = "SUPERSEDED" THEN Latest ELSE 0)
      /\ next.cycle = c
  BY <1>2, <1>5 DEF AfterClose, RunState
<1> HIDE DEF next
<1>7. ASSUME NEW rec, Read(r, rec), RunFits(rec) PROVE Calm'
  BY <1>1, <1>7, CalmRead DEF x
<1>8. CASE ReadBeforeClose(r) /\ Status(x.process) = o /\ Closed(r) /\ UNCHANGED <<service, queue>>
  <2>1. Status(Latest) = o /\ Active = {} /\ Latest > 0
    BY <1>2, <1>3, <1>5, <1>8, OnlyTheLatest, Rows
  <2>2. \A d \in late : d.pc = "closing" => Status(d.process) # "ACTIVE"
    BY <2>1, LateKnows DEF Active
  <2>3. next.pc = "naming" => Follows(next)
    BY <1>6, <2>1 DEF Follows
  <2>4. next.pc = "ack" => \A p \in DOMAIN processes : Status(p) = "SUPERSEDED" => p < Latest
    BY <1>3, <1>6, <2>1
  <2>5. RunFits(next)
    BY <1>2, <1>6, <2>2, <2>3, <2>4 DEF RunFits
  <2> QED
    BY <1>4, <1>7, <1>8, <2>5 DEF Read
<1>9. CASE ReadBeforeClose(r) /\ Goto(r, "closing")
  <2>1. RunFits([x EXCEPT !.pc = "closing"])
    BY <1>2, <1>5 DEF RunFits, RunState
  <2> QED
    BY <1>7, <1>9, <2>1 DEF Goto, x
<1>10. CASE Close(r) /\ Closable(x.process)
  <2>1. /\ SetClosed(c, x.process, o)
        /\ run'[r] = next /\ \A q \in Runs : q # r => run'[q] = run[q]
        /\ UNCHANGED <<summaries, late, holder, settled, abandoned>>
    BY <1>4, <1>10 DEF Close, Move, queue, bounds, x, IInv, TypeOK
  <2>2. /\ Room(c, x.process, o)
        /\ \A q \in DOMAIN processes : q < x.process => processes[q].closer <= c
    BY <1>2, <1>3, <1>10, RoomToClose DEF OneAfterAnother
  <2>3. /\ Latest' = Latest /\ DOMAIN processes' = DOMAIN processes
        /\ processes'[Latest].status = o /\ Active' = {}
        /\ OneAfterAnother' /\ ClosersDiffer' /\ SummariesFit'
        /\ \A d \in late : LateFits(d) => LateFits(d)'
    BY <1>2, <1>5, <1>10, <2>1, <2>2, CloseKeeps DEF Calm
  <2>4. \A d \in late : d.pc = "closing" => Status(d.process)' # "ACTIVE"
    BY <2>3, LateKnows DEF Active
  <2>5. next.pc = "naming" => next.predecessor = Latest /\ Latest > 0 /\ o = "SUPERSEDED"
    BY <1>2, <1>3, <1>5, <1>6
  <2>6. next.pc = "ack" =>
           \A p \in DOMAIN processes' : Status(p)' = "SUPERSEDED" => p < Latest'
    BY <1>3, <1>6, <2>3 DEF Status
  <2>7. RunFits(run[r])'
    <3>1. run'[r].pc = "naming" => Follows(run[r])'
      BY <2>1, <2>3, <2>5 DEF Follows, Status
    <3>2. run'[r].pc \in {"naming", "ack"} /\ run'[r].cycle = settled' + 1
      BY <1>2, <1>6, <2>1
    <3> QED
      BY <2>1, <2>4, <2>6, <3>1, <3>2 DEF RunFits
  <2>8. \A q \in Runs : q # r => RunFits(run[q])'
    BY <1>2, <2>1 DEF RunFits
  <2>9. OneAtATime' /\ \A d \in late' : LateFits(d)'
    BY <1>1, <2>1, <2>3, Alone DEF Calm, OneAtATime, x
  <2> QED
    BY <2>3, <2>7, <2>8, <2>9 DEF Calm
<1>11. CASE Raises(r)
  BY <1>1, <1>11, CalmRaises DEF Raises, bounds, x
<1> QED
  BY <1>8, <1>9, <1>10, <1>11 DEF ReadBeforeClose, Close, x

LEMMA CalmSuccessor ==
  ASSUME IInv, Calm, NEW r \in Runs, NextName(r) \/ CheckPredecessor(r) \/ LookForActive(r)
  PROVE  Calm'
<1> DEFINE x == run[r]
           c == x.cycle
<1>1. x.pc \in {"naming", "checking", "looking"}
  BY DEF NextName, CheckPredecessor, LookForActive
<1>2. /\ x \in RunState /\ Sound(x, processes, summaries) /\ RunFits(x)
      /\ c = settled + 1 /\ c \in Cycle /\ c \in Nat \ {0}
  BY <1>1, Alone
<1>3. OneAfterAnother /\ ClosersDiffer /\ Latest \in Nat /\ DOMAIN processes = 1 .. Latest
  BY Rows DEF Calm
<1>4. ASSUME NEW rec, Read(r, rec), RunFits(rec) PROVE Calm'
  BY <1>1, <1>4, CalmRead
<1> HIDE DEF x
<1>5. \/ Follows(x) /\ (x.pc # "naming" => x.name = Latest + 1)
      \/ Over /\ Active # {}
  BY <1>1, <1>2 DEF RunFits
<1>6. CASE NextName(r)
  <2> DEFINE next(n) == [x EXCEPT !.name = n,
                           !.pc = IF x.predecessor = 0 THEN "creating" ELSE "checking"]
  <2>1. PICK n : Read(r, next(n)) /\ (Active = {} => n = Latest + 1)
    BY <1>6 DEF NextName, Latest, x
  <2>2. /\ next(n).name = n /\ next(n).predecessor = x.predecessor /\ next(n).cycle = c
        /\ next(n).pc \in {"creating", "checking"}
    BY <1>2 DEF RunState
  <2> HIDE DEF next
  <2>3. Follows(x) => Follows(next(n)) /\ n = Latest + 1
    BY <2>1, <2>2 DEF Follows
  <2>4. RunFits(next(n))
    BY <1>2, <1>5, <2>2, <2>3 DEF RunFits
  <2> QED
    BY <1>4, <2>1, <2>4
<1>7. CASE CheckPredecessor(r) /\ Goto(r, "looking")
  <2>1. Follows(x) => Follows([x EXCEPT !.pc = "looking"])
    BY <1>2 DEF Follows, RunState
  <2>2. RunFits([x EXCEPT !.pc = "looking"])
    BY <1>2, <1>5, <1>7, <2>1 DEF CheckPredecessor, RunFits, RunState, x
  <2> QED
    BY <1>4, <1>7, <2>2 DEF Goto, x
<1>8. CASE LookForActive(r) /\ Active = {} /\ Goto(r, "creating")
  <2>1. Follows(x) => Follows([x EXCEPT !.pc = "creating"])
    BY <1>2 DEF Follows, RunState
  <2>2. RunFits([x EXCEPT !.pc = "creating"])
    BY <1>2, <1>5, <1>8, <2>1 DEF LookForActive, RunFits, RunState, x
  <2> QED
    BY <1>4, <1>8, <2>2 DEF Goto, x
<1>9. ASSUME NEW p \in Active, p \in Successors(x.predecessor), Work(r, p),
             UNCHANGED <<service, queue>>
      PROVE  Calm'
  <2> DEFINE next == [Idle EXCEPT !.pc = "working", !.cycle = c, !.process = p,
                                  !.recovered = x.predecessor # 0]
  <2>1. /\ p = Latest /\ Latest \in DOMAIN processes /\ Status(Latest) = "ACTIVE"
        /\ processes[Latest].closer = 0 /\ processes[Latest].predecessor = x.predecessor
    BY <1>3, <1>9, OnlyTheLatest DEF Active, Successors, OneAfterAnother
  <2>2. Over
    BY <1>5, <1>9 DEF Follows
  <2>3. /\ next.pc = "working" /\ next.cycle = c /\ next.process = p
        /\ next.recovered = (x.predecessor # 0)
    BY DEF Idle
  <2>4. Read(r, next)
    BY <1>9 DEF Work, Read, x
  <2> HIDE DEF next
  <2>5. ~next.recovered => \A q \in DOMAIN processes :
                             q < Latest /\ Status(q) = "SUPERSEDED" => processes[q].closer # c
    <3> SUFFICES ASSUME x.predecessor = 0, NEW q \in DOMAIN processes, q < Latest,
                        Status(q) = "SUPERSEDED", processes[q].closer = c
                 PROVE  FALSE
      BY <2>3
    <3>1. processes[Latest].predecessor = q
      BY <1>2, <1>3, SupersededLately
    <3> QED
      BY <1>3, <2>1, <3>1
  <2>6. RunFits(next)
    BY <1>2, <2>1, <2>2, <2>3, <2>5 DEF RunFits, Over
  <2> QED
    BY <1>4, <2>4, <2>6
<1>10. CASE Raises(r)
  BY <1>1, <1>10, CalmRaises DEF Raises, bounds, x
<1> QED
  BY <1>6, <1>7, <1>8, <1>9, <1>10 DEF CheckPredecessor, LookForActive, x

LEMMA CalmCreate ==
  ASSUME IInv, Calm, NEW r \in Runs, Create(r)
  PROVE  Calm'
<1> DEFINE x == run[r]
           c == x.cycle
<1>1. x.pc = "creating"
  BY DEF Create
<1>2. /\ x \in RunState /\ RunFits(x) /\ x.predecessor \in Nat
      /\ c = settled + 1 /\ c \in Cycle /\ c \in Nat \ {0}
      /\ \A q \in Runs : q # r => run[q].pc = "idle"
  BY <1>1, Alone DEF RunState
<1>3. OneAfterAnother /\ Latest \in Nat /\ DOMAIN processes = 1 .. Latest /\ settled \in Nat
  BY Rows DEF Calm
<1>4. CASE CanCreate(x.name)
  <2> DEFINE next == [Idle EXCEPT !.pc = "working", !.cycle = c, !.process = x.name,
                                  !.recovered = x.predecessor # 0]
  <2>1. /\ AddProcess(x.predecessor)
        /\ run'[r] = next /\ \A q \in Runs : q # r => run'[q] = run[q]
        /\ UNCHANGED <<summaries, late, holder, settled, abandoned>>
    BY <1>4 DEF Create, Work, Move, queue, bounds, IInv, TypeOK
  <2>2. /\ next.pc = "working" /\ next.cycle = c /\ next.process = x.name
        /\ next.recovered = (x.predecessor # 0)
    BY DEF Idle
  <2> HIDE DEF next, x
  <2>3. Active = {} /\ x.name = Latest + 1 /\ Follows(x)
    BY <1>1, <1>2, <1>4 DEF CanCreate, Latest, RunFits
  <2>4. /\ Latest' = Latest + 1 /\ DOMAIN processes' = DOMAIN processes \cup {Latest + 1}
        /\ \A q \in DOMAIN processes : processes'[q] = processes[q]
        /\ processes'[Latest + 1].status = "ACTIVE" /\ processes'[Latest + 1].closer = 0
        /\ OneAfterAnother' /\ ClosersDiffer' /\ SummariesFit'
        /\ \A d \in late : LateFits(d) => LateFits(d)'
    <3>1. PICK y : y = x
      OBVIOUS
    <3>2. /\ y.predecessor \in Nat /\ y.cycle \in Nat /\ y.cycle <= settled + 1
          /\ Follows(y) /\ AddProcess(y.predecessor)
      BY <1>2, <1>3, <2>1, <2>3, <3>1
    <3> QED
      BY <2>1, <3>2, AddKeeps DEF Calm
  <2>5. \A d \in late : d.pc = "closing" => Status(d.process)' # "ACTIVE"
    BY <2>3, <2>4, LateKnows DEF Active, Status
  <2>6. x.predecessor = 0 =>
           \A q \in DOMAIN processes : Status(q) = "SUPERSEDED" => processes[q].closer # c
    <3> SUFFICES ASSUME x.predecessor = 0, NEW q \in DOMAIN processes,
                        Status(q) = "SUPERSEDED", processes[q].closer = c
                 PROVE  FALSE
      OBVIOUS
    <3>1. /\ Latest \in DOMAIN processes /\ Status(Latest) # "SUPERSEDED"
          /\ Status(Latest) # "ACTIVE" /\ processes[Latest].closer < c
      BY <1>3, <2>3 DEF Follows, Active
    <3>2. q < Latest /\ processes[q].closer <= processes[Latest].closer
      BY <1>3, <3>1 DEF OneAfterAnother
    <3> QED
      BY <1>2, <3>1, <3>2, Rows
  <2>7. \A q \in DOMAIN processes' : q < Latest' => q \in DOMAIN processes
    BY <1>3, <2>4
  <2>8. RunFits(run[r])'
    <3>1. /\ run'[r].pc = "working" /\ run'[r].cycle = c /\ run'[r].process = Latest'
          /\ run'[r].recovered = (x.predecessor # 0) /\ c = settled' + 1
      BY <1>2, <2>1, <2>2, <2>3, <2>4
    <3>2. processes'[Latest'].status = "ACTIVE" /\ processes'[Latest'].closer # c
      BY <1>2, <2>4
    <3>3. ~run'[r].recovered =>
             \A q \in DOMAIN processes' :
               q < Latest' /\ Status(q)' = "SUPERSEDED" => processes'[q].closer # c
      BY <2>4, <2>6, <2>7, <3>1 DEF Status
    <3> QED
      BY <2>1, <2>5, <3>1, <3>2, <3>3 DEF RunFits, Status
  <2>9. \A q \in Runs : q # r => RunFits(run[q])'
    BY <1>2, <2>1 DEF RunFits
  <2>10. OneAtATime' /\ \A d \in late' : LateFits(d)'
    BY <1>1, <2>1, <2>4, Alone DEF Calm, OneAtATime, x
  <2> QED
    BY <2>4, <2>8, <2>9, <2>10 DEF Calm
<1>5. CASE Raises(r)
  BY <1>1, <1>5, CalmRaises DEF Raises, bounds
<1> QED
  BY <1>4, <1>5 DEF Create

LEMMA CalmQueue ==
  ASSUME IInv, Calm, NEW r \in Runs, Claim(r) \/ Ack(r) \/ Fault(r)
  PROVE  Calm'
<1>1. CASE Claim(r)
  <2>1. /\ run'[r].pc = "start" /\ run'[r].cycle = settled + 1 /\ holder' = r
        /\ \A q \in Runs : q # r => run'[q] = run[q]
        /\ UNCHANGED <<processes, summaries, late, settled, abandoned>>
    BY <1>1 DEF Claim, Move, Idle, service, bounds, IInv, TypeOK
  <2>2. \A q \in Runs : q # r => run[q].pc = "idle"
    BY <1>1, LifecycleAssumption DEF Claim, Calm, OneAtATime
  <2>3. OneAfterAnother' /\ ClosersDiffer' /\ SummariesFit' /\ \A d \in late' : LateFits(d)'
    BY <2>1, RowsKept DEF Calm, SummariesFit, Room, Status
  <2>4. \A q \in Runs : RunFits(run[q])'
    BY <2>1, <2>2 DEF RunFits
  <2>5. OneAtATime'
    BY <2>1, <2>2 DEF Calm, OneAtATime
  <2> QED
    BY <2>3, <2>4, <2>5 DEF Calm
<1>2. CASE Ack(r) /\ holder = r
  BY <1>2, CalmEnd DEF Ack, bounds
<1>3. CASE Ack(r) /\ holder # r
  BY <1>3, CalmRaises DEF Ack, Raises, bounds
<1>4. CASE Fault(r)
  BY <1>4, CalmRaises DEF Fault
<1> QED
  BY <1>1, <1>2, <1>3, <1>4

\* The one write that may be executed late is given up.
LEMMA CalmAbandon ==
  ASSUME IInv, Calm, NEW r \in Runs, Abandon(r), abandoned' <= 1
  PROVE  Calm'
<1> DEFINE x == run[r]
<1>1. /\ x.pc \in {"writing", "closing", "creating"} /\ abandoned' = abandoned + 1
      /\ late' = late \cup {x} /\ Move(r, Idle) /\ Release
      /\ UNCHANGED <<processes, summaries>>
  BY Alone DEF Abandon, GiveUp
<1>2. abandoned = 0 /\ late = {} /\ abandoned' > 0
  BY <1>1 DEF Calm, OneAtATime, IInv, TypeOK
<1>3. /\ x \in RunState /\ Sound(x, processes, summaries) /\ RunFits(x)
      /\ x.cycle = settled + 1
  BY <1>1, Alone
<1>4. holder' = 0 /\ settled' \in {settled, settled + 1} /\ settled \in Nat
  BY <1>1, Rows DEF Release
<1>5. \A q \in Runs : run'[q].pc = "idle"
  BY <1>1, Alone DEF Move, Idle, IInv, TypeOK
<1> HIDE DEF x
<1>6. LateFits(x)
  <2>1. OneAfterAnother /\ ~Over /\ Latest \in Nat /\ DOMAIN processes = 1 .. Latest
    BY <1>2, Rows DEF Over, Calm
  <2>2. CASE x.pc = "creating"
    BY <1>3, <1>4, <2>1, <2>2 DEF RunFits, LateFits
  <2>3. CASE x.pc \in {"writing", "closing"}
    BY <1>3, <1>4, <2>1, <2>3 DEF RunFits, LateFits, OneAfterAnother
  <2> QED
    BY <1>1, <2>2, <2>3
<1>7. \A d \in late' : LateFits(d)'
  BY <1>1, <1>2, <1>3, <1>4, <1>6 DEF LateFits, Follows, Room, Status, Latest, Active
<1>8. OneAfterAnother' /\ ClosersDiffer' /\ SummariesFit'
  BY <1>1, <1>4, RowsKept DEF Calm, SummariesFit, Room, Status
<1>9. OneAtATime' /\ \A q \in Runs : RunFits(run[q])'
  BY <1>1, <1>2, <1>5 DEF OneAtATime, RunFits
<1> QED
  BY <1>7, <1>8, <1>9 DEF Calm

\* The write is executed late: what the run has read is out of date, and it will find out.
LEMMA CalmDeliver ==
  ASSUME IInv, Calm, NEW call \in late, Deliver(call)
  PROVE  Calm'
<1>1. /\ late' = {} /\ Over' /\ late # {} /\ ~Over
      /\ UNCHANGED <<run, holder, settled, abandoned>>
  BY DEF Deliver, queue, bounds, Calm, OneAtATime, Over
<1>2. /\ OneAtATime' /\ \A d \in late' : LateFits(d)'
      /\ OneAfterAnother /\ ClosersDiffer /\ SummariesFit
  BY <1>1 DEF Calm, OneAtATime
<1>3. \A r \in Runs : RunFits(run[r])
  BY DEF Calm
<1>4. /\ Latest \in Nat /\ DOMAIN processes = 1 .. Latest /\ settled \in Nat
      /\ call.cycle \in Cycle /\ call.cycle \in Nat /\ call.cycle <= settled + 1
      /\ LateFits(call)
  BY LateKnows, Rows DEF Calm
<1>5. CASE UNCHANGED processes
  <2>1. \A r \in Runs : RunFits(run[r])'
    <3> SUFFICES ASSUME NEW r \in Runs PROVE RunFits(run[r])'
      OBVIOUS
    <3> QED
      BY <1>1, <1>3, <1>5 DEF RunFits, Follows, Room, Status, Active, Latest
  <2>2. OneAfterAnother' /\ ClosersDiffer'
    BY <1>1, <1>2, <1>5, RowsKept
  <2>3. SummariesFit'
    <3>1. CASE call.pc = "writing"
      BY <1>4, <1>5, <3>1, LateKnows, WriteKeeps DEF Deliver, LateFits, Calm
    <3>2. CASE call.pc # "writing"
      BY <1>2, <1>5, <3>2 DEF Deliver, SummariesFit, Room, Status
    <3> QED
      BY <3>1, <3>2
  <2> QED
    BY <1>2, <2>1, <2>2, <2>3 DEF Calm
<1>6. CASE call.pc = "closing" /\ Closable(call.process)
  <2> DEFINE p == call.process
  <2>1. /\ SetClosed(call.cycle, p, call.outcome) /\ UNCHANGED summaries
        /\ p \in DOMAIN processes /\ call.outcome \in Outcomes /\ Written(call, summaries)
    BY <1>6, LateKnows DEF Deliver
  <2>2. /\ Room(call.cycle, p, call.outcome)
        /\ \A q \in DOMAIN processes : q < p => processes[q].closer <= call.cycle
    BY <1>4, <1>6, <2>1, RoomToClose DEF LateFits
  <2>3. /\ p = Latest /\ Latest' = Latest /\ DOMAIN processes' = DOMAIN processes
        /\ \A q \in DOMAIN processes : q # p => processes'[q] = processes[q]
        /\ processes'[p].closer = call.cycle
        /\ OneAfterAnother' /\ ClosersDiffer' /\ SummariesFit'
    BY <1>1, <1>2, <1>4, <1>6, <2>1, <2>2, CloseKeeps
  <2>4. Active # {}
    BY <1>6, <2>1 DEF Closable, Active
  <2>5. ASSUME NEW r \in Runs PROVE RunFits(run[r])'
    <3>1. RunFits(run[r]) /\ run'[r] = run[r]
      BY <1>1, <1>3
    <3>2. run[r].pc \in {"before", "working", "summary", "writing", "ack"}
            => call.cycle # run[r].cycle
      BY <1>6, <3>1 DEF RunFits, Closable
    <3>3. run[r].pc \notin {"list", "last", "naming", "checking", "looking", "creating"}
      BY <1>1, <2>4, <3>1 DEF RunFits, Follows
    <3>4. run[r].pc \in {"summary", "writing"}
            => Room(run[r].cycle, run[r].process, run[r].outcome)'
      BY <2>3, <3>1, <3>2 DEF RunFits, Room, Status
    <3>5. run[r].pc = "ack" =>
             \A q \in DOMAIN processes' :
               processes'[q].closer = run[r].cycle /\ Status(q)' = "SUPERSEDED" => q < Latest'
      BY <2>3, <3>1, <3>2 DEF RunFits, Status
    <3>6. run[r].pc = "working" /\ ~run[r].recovered =>
             \A q \in DOMAIN processes' :
               q < Latest' /\ Status(q)' = "SUPERSEDED" => processes'[q].closer # run[r].cycle
      BY <1>4, <2>3, <3>1 DEF RunFits, Status
    <3>7. run[r].pc \in {"before", "working", "summary", "writing"}
            => processes'[Latest'].closer # run[r].cycle
      BY <2>3, <3>2
    <3> QED
      BY <1>1, <2>3, <3>1, <3>3, <3>4, <3>5, <3>6, <3>7 DEF RunFits
  <2> QED
    BY <1>2, <2>3, <2>5 DEF Calm
<1>7. CASE call.pc = "creating" /\ CanCreate(call.name)
  <2>1. /\ AddProcess(call.predecessor) /\ UNCHANGED summaries
        /\ call.predecessor \in Nat /\ call.name = Latest + 1 /\ Active = {}
    BY <1>7, LateKnows DEF Deliver, CanCreate, Latest
  <2>2. Follows(call)
    BY <1>4, <1>7, <2>1 DEF LateFits
  <2>3. /\ Latest' = Latest + 1 /\ DOMAIN processes' = DOMAIN processes \cup {Latest + 1}
        /\ \A q \in DOMAIN processes : processes'[q] = processes[q]
        /\ processes'[Latest + 1].status = "ACTIVE"
        /\ OneAfterAnother' /\ ClosersDiffer' /\ SummariesFit'
    BY <1>1, <1>2, <1>4, <2>1, <2>2, AddKeeps
  <2>4. Active' # {}
    BY <2>3 DEF Active, Status
  <2>5. ASSUME NEW r \in Runs PROVE RunFits(run[r])'
    <3>1. RunFits(run[r]) /\ run'[r] = run[r] /\ Sound(run[r], processes, summaries)
      BY <1>1, <1>3 DEF IInv
    <3>2. run[r].pc \notin {"own", "before", "working", "summary", "writing", "reading", "closing"}
      BY <1>1, <2>1, <3>1 DEF RunFits, Sound, Active
    <3>3. run[r].pc = "ack" =>
             \A q \in DOMAIN processes' :
               processes'[q].closer = run[r].cycle /\ Status(q)' = "SUPERSEDED" => q < Latest'
      BY <1>4, <2>3 DEF Status
    <3> QED
      BY <1>1, <2>4, <3>1, <3>2, <3>3 DEF RunFits
  <2> QED
    BY <1>2, <2>3, <2>5 DEF Calm
<1> QED
  BY <1>5, <1>6, <1>7 DEF Deliver

LEMMA CalmInit == Init => CalmInv
BY LifecycleAssumption
   DEF Init, CalmInv, Calm, OneAtATime, OneAfterAnother, ClosersDiffer, SummariesFit, RunFits, Idle

LEMMA CalmInductive == IInv /\ IInv' /\ CalmInv /\ [Next]_vars => CalmInv'
<1> SUFFICES ASSUME IInv, IInv', CalmInv, [Next]_vars, Undisturbed' PROVE Calm'
  BY DEF CalmInv
<1>1. lapses' = 0 /\ abandoned' <= 1
  BY DEF Undisturbed
<1>2. /\ lapses \in Nat /\ abandoned \in Nat
      /\ lapses' \in {lapses, lapses + 1} /\ abandoned' \in {abandoned, abandoned + 1}
  <2>1. ASSUME NEW r \in Runs, Step(r) PROVE UNCHANGED bounds
    <3>1. CASE GetActive(r) \/ OwnSummary(r) \/ PredecessorSummary(r) \/ ListLatest(r) \/ LastSummary(r)
      BY <3>1 DEF GetActive, OwnSummary, PredecessorSummary, ListLatest, LastSummary,
                  Goto, Read, queue
    <3>2. CASE Decide(r) \/ SearchTitle(r) \/ WriteSummary(r)
      BY <3>2 DEF Decide, SearchTitle, WriteSummary, Goto, Read, queue
    <3>3. CASE ReadBeforeClose(r) \/ Close(r) \/ Ack(r)
      BY <3>3 DEF ReadBeforeClose, Close, Ack, Raises, Goto, Read, queue
    <3>4. CASE NextName(r) \/ CheckPredecessor(r) \/ LookForActive(r) \/ Create(r)
      BY <3>4 DEF NextName, CheckPredecessor, LookForActive, Create, Raises, Goto, Read, queue
    <3> QED
      BY <2>1, <3>1, <3>2, <3>3, <3>4 DEF Step
  <2>2. lapses \in Nat /\ abandoned \in Nat
    BY LifecycleAssumption DEF IInv, TypeOK
  <2> QED
    BY <2>1, <2>2 DEF Next, vars, bounds, Claim, Fault, Abandon, Lapse, Deliver, queue
<1>3. Calm
  BY <1>1, <1>2 DEF CalmInv, Undisturbed
<1>4. CASE \E r \in Runs : Claim(r) \/ Step(r) \/ Fault(r) \/ Abandon(r)
  BY <1>1, <1>3, <1>4, CalmEnsure, CalmDecide, CalmWrite, CalmClose, CalmSuccessor, CalmCreate,
     CalmQueue, CalmAbandon DEF Step
<1>5. CASE \E call \in late : Deliver(call)
  BY <1>3, <1>5, CalmDeliver
<1>6. CASE Lapse
  BY <1>1, <1>2, <1>6 DEF Lapse
<1>7. CASE UNCHANGED vars
  <2>1. UNCHANGED <<processes, summaries, run, holder, settled, late, abandoned>>
    BY <1>7 DEF vars
  <2>2. OneAfterAnother' /\ ClosersDiffer' /\ SummariesFit' /\ \A d \in late' : LateFits(d)'
    BY <1>3, <2>1, RowsKept DEF Calm, SummariesFit, Room, Status
  <2>3. OneAtATime' /\ \A r \in Runs : RunFits(run[r])'
    BY <1>3, <2>1
       DEF Calm, OneAtATime, RunFits, Over, Follows, Room, Status, Active, Latest
  <2> QED
    BY <2>2, <2>3 DEF Calm
<1> QED
  BY <1>4, <1>5, <1>6, <1>7 DEF Next

LEMMA StaysCalm == Spec => [](IInv /\ CalmInv)
<1>1. Init => IInv /\ CalmInv
  BY InitIInv, CalmInit
<1>2. (IInv /\ CalmInv) /\ [Next]_vars => (IInv /\ CalmInv)'
  BY Inductive, CalmInductive
<1> QED
  BY <1>1, <1>2, PTL DEF Spec

LEMMA AtMostOne ==
  ASSUME NEW S, \A a, b \in S : a = b
  PROVE  Cardinality(S) <= 1
<1>1. CASE S = {}
  BY <1>1, FS_EmptySet
<1>2. ASSUME NEW a \in S PROVE Cardinality(S) <= 1
  <2>1. S = {a}
    OBVIOUS
  <2> QED
    BY <2>1, FS_Singleton
<1> QED
  BY <1>1, <1>2

-----------------------------------------------------------------------------
(* The theorems about undisturbed calls. *)

\* START_NEW_PROCESS, its recovery in ensure_active and a create that the service executes late
\* give a process one successor between them: whatever is created follows the latest process.
THEOREM SucceededOnce == Spec => []OneSuccessor
<1>1. ASSUME IInv, CalmInv, Undisturbed, NEW p \in DOMAIN processes
      PROVE  Cardinality(Successors(p)) <= 1
  <2>1. \A q \in Successors(p) : q = p + 1
    BY <1>1, Rows DEF CalmInv, Calm, OneAfterAnother, Successors
  <2>2. \A a, b \in Successors(p) : a = b
    BY <2>1
  <2> QED
    BY <2>2, AtMostOne
<1>2. IInv /\ CalmInv => OneSuccessor
  BY <1>1 DEF OneSuccessor
<1> QED
  BY <1>2, StaysCalm, PTL

\* A cycle, retried or executed late, supersedes one process and closes one for good at most:
\* close_current carries the outcome of the summary through that the first attempt wrote.
THEOREM ClosedOnce == Spec => []ClosesOnce
<1>1. ASSUME IInv, CalmInv, Undisturbed, NEW c \in Cycle
      PROVE  LET closed == {p \in DOMAIN processes : processes[p].closer = c}
             IN  /\ Cardinality({p \in closed : Status(p) = "SUPERSEDED"}) <= 1
                 /\ Cardinality({p \in closed : Status(p) \in Final}) <= 1
  <2> DEFINE closed == {p \in DOMAIN processes : processes[p].closer = c}
             superseded == {p \in closed : Status(p) = "SUPERSEDED"}
             final == {p \in closed : Status(p) \in Final}
  <2>1. "SUPERSEDED" \notin Final /\ "ACTIVE" \notin Final
    BY LifecycleAssumption
  <2>2. ClosersDiffer
    BY <1>1 DEF CalmInv, Calm
  <2>3. \A a, b \in superseded : a = b
    BY <2>2 DEF ClosersDiffer, SameClass
  <2>4. \A a, b \in final : a = b
    BY <2>1, <2>2 DEF ClosersDiffer, SameClass
  <2> QED
    BY <2>3, <2>4, AtMostOne
<1>2. IInv /\ CalmInv => ClosesOnce
  BY <1>1 DEF ClosesOnce
<1> QED
  BY <1>2, StaysCalm, PTL

\* FINALIZE acknowledges a cycle only when each process that it superseded has its successor.
THEOREM FinishedBeforeAck == Spec => []AckedIsFinished
<1>1. ASSUME IInv, CalmInv, Undisturbed, NEW r \in Runs, run[r].pc = "ack",
             NEW p \in DOMAIN processes, processes[p].closer = run[r].cycle,
             Status(p) = "SUPERSEDED"
      PROVE  Successors(p) # {}
  <2>1. p < Latest /\ OneAfterAnother /\ p \in Nat /\ p > 0 /\ p + 1 \in DOMAIN processes
    BY <1>1, Rows DEF CalmInv, Calm, RunFits
  <2>2. processes[p + 1].predecessor = p
    BY <1>1, <2>1 DEF OneAfterAnother, Status
  <2> QED
    BY <2>1, <2>2 DEF Successors
<1>2. IInv /\ CalmInv => AckedIsFinished
  BY <1>1 DEF AckedIsFinished
<1> QED
  BY <1>2, StaysCalm, PTL

\* A retry never extracts memory for, or decides about, a process that its own cycle has closed,
\* even if the close was executed late.
THEOREM LeavesClosedAlone == Spec => []LeavesWhatItClosed
<1>1. ASSUME IInv, CalmInv, Undisturbed, NEW r \in Runs, run[r].pc = "working"
      PROVE  processes[run[r].process].closer # run[r].cycle
  BY <1>1 DEF CalmInv, Calm, RunFits
<1>2. IInv /\ CalmInv => LeavesWhatItClosed
  BY <1>1 DEF LeavesWhatItClosed
<1> QED
  BY <1>2, StaysCalm, PTL
=============================================================================
