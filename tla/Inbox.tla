------------------------------- MODULE Inbox -------------------------------
(***************************************************************************)
(* The durable event Inbox (grams-app/supervisor/inbox) and the processes  *)
(* that drain it: the background worker loop (agent/worker.py) that claims *)
(* one cohort of events at a time, and the runtime (agent/runtime.py) that *)
(* renews the cohort's leases while the graph runs and acknowledges or     *)
(* fails the cohort at the end.                                            *)
(*                                                                         *)
(* Every SQL transaction is one step.  Events are numbered by received_at, *)
(* rowid; the stamp is taken when the request is read, so an insertion     *)
(* that had to wait for the database may be overtaken by a younger one.    *)
(* Time is kept as what is left of each lease and each backoff; Tick lets  *)
(* it pass, at any speed.                                                  *)
(***************************************************************************)
EXTENDS Naturals, FiniteSets, FiniteSetsExt

CONSTANTS
    Workers,       \* supervisor processes on the same database
    NumEvents,     \* events that are ever inserted
    Roots,         \* root sessions
    Root,          \* Root[e]: the root session of event e
    BatchSize,     \* GRAMS_BATCH_SIZE
    MaxAttempts,   \* GRAMS_MAX_ATTEMPTS
    LeaseTicks,    \* lease_seconds, in ticks
    BackoffTicks,  \* the delay before a failed cohort is available again
    MaxClaims,     \* bound: claims of one event that are explored
    MaxFaults,     \* bound: crashes and storage failures that are explored
    MaxOvertaken   \* bound: older events, not stored yet, that an insertion overtakes

Events == 1..NumEvents
NoLease == 0
NoCycle == 0

ASSUME InboxAssumption ==
    /\ NumEvents \in Nat /\ BatchSize \in Nat \ {0}
    /\ Root \in [Events -> Roots]
    /\ MaxAttempts \in Nat \ {0}
    /\ LeaseTicks \in Nat \ {0} /\ BackoffTicks \in Nat
    /\ MaxClaims \in Nat /\ MaxFaults \in Nat /\ MaxOvertaken \in Nat

VARIABLES
    status,          \* status[e], "ABSENT" before the row exists
    cycle,           \* cycle_id, numbered in the order of creation
    attempts,        \* retry_count
    lease,           \* lease_id: a fresh uuid, named by the claim that made it
    leaseLeft,       \* lease_until - now, never below zero
    wait,            \* available_at - now, never below zero
    processedLease,  \* processed_lease_id
    cycles,          \* cycle ids created so far
    pc,              \* where each process is in run_forever / run_cycle
    todo,            \* roots still to visit in this pass of run_forever
    claims,          \* claims[w][e]: the lease_id w holds for e
    faults           \* crashes and storage failures so far

rows == <<status, cycle, attempts, lease, leaseLeft, wait, processedLease, cycles>>
vars == <<rows, pc, todo, claims, faults>>

Terminal == {"PROCESSED", "FAILED"}
Unfinished == {"PENDING", "PROCESSING"}

TypeOK ==
    /\ status \in [Events -> {"ABSENT"} \cup Unfinished \cup Terminal]
    /\ cycle \in [Events -> Nat] /\ cycles \in Nat
    /\ attempts \in [Events -> Nat]
    /\ lease \in [Events -> Nat] /\ processedLease \in [Events -> Nat]
    /\ leaseLeft \in [Events -> 0..LeaseTicks]
    /\ wait \in [Events -> 0..BackoffTicks]
    /\ pc \in [Workers -> {"down", "idle", "running", "acked", "failing", "stopped"}]
    /\ todo \in [Workers -> SUBSET Roots]
    /\ claims \in [Workers -> [Events -> Nat]]
    /\ faults \in 0..MaxFaults

NoClaims == [e \in Events |-> NoLease]

Init ==
    /\ status = [e \in Events |-> "ABSENT"]
    /\ cycle = [e \in Events |-> NoCycle] /\ cycles = 0
    /\ attempts = [e \in Events |-> 0]
    /\ lease = [e \in Events |-> NoLease]
    /\ processedLease = [e \in Events |-> NoLease]
    /\ leaseLeft = [e \in Events |-> 0]
    /\ wait = [e \in Events |-> 0]
    /\ pc = [w \in Workers |-> "idle"]
    /\ todo = [w \in Workers |-> {}]
    /\ claims = [w \in Workers |-> NoClaims]
    /\ faults = 0

-----------------------------------------------------------------------------
(* What the queries see. *)

(* Definitions named ...Bug are the ones a plausible mistake would put in    *)
(* place of the definition that follows; no action uses them.                *)

Live(e) == status[e] = "PROCESSING" /\ lease[e] # NoLease /\ leaseLeft[e] > 0

Expired(e) == status[e] = "PROCESSING" /\ (lease[e] = NoLease \/ leaseLeft[e] = 0)

EligiblePendingBug(r) == {e \in Events : Root[e] = r /\ status[e] = "PENDING" /\ wait[e] = 0}

\* Rows of root r that a claim may take: due retries, fresh rows, and rows
\* whose lease ran out.
Eligible(r) ==
    {e \in Events : Root[e] = r /\ (Expired(e) \/ (status[e] = "PENDING" /\ wait[e] = 0))}

Busy(r) == \E e \in Events : Root[e] = r /\ Live(e)

ClaimableRoots == {r \in Roots : Eligible(r) # {} /\ ~Busy(r)}

Retried(r) == {e \in Eligible(r) : cycle[e] # NoCycle}

\* The unfinished rows of the cycle with identifier c.
UnfinishedOf(c) == {e \in Events : cycle[e] = c /\ status[e] \in Unfinished}

\* The first n of S by received_at, rowid.
Oldest(S, n) == {e \in S : Cardinality({f \in S : f <= e}) <= n}

RetryCycle(r) == cycle[Min(Retried(r))]

BatchToppedUpBug(r) == IF Busy(r) THEN {} ELSE Oldest(Eligible(r), BatchSize)

\* The rows the next claim of r takes: all of the oldest eligible retry cohort
\* or nothing; fresh rows only when no eligible row belongs to a cohort.
Batch(r) ==
    IF Busy(r) THEN {}
    ELSE IF Retried(r) = {} THEN Oldest(Eligible(r), BatchSize)
    ELSE IF UnfinishedOf(RetryCycle(r)) \subseteq Eligible(r)
         THEN UnfinishedOf(RetryCycle(r))
         ELSE {}

BatchCycle(r) == IF Retried(r) = {} THEN cycles + 1 ELSE RetryCycle(r)

FreshLeaseKeptBug(e) == IF lease[e] # NoLease THEN lease[e] ELSE attempts[e] + 1
FreshLease(e) == attempts[e] + 1

Claimed(w) == {e \in Events : claims[w][e] # NoLease}

\* Row e is being processed under the lease that w holds for it.
Holds(w, e) == status[e] = "PROCESSING" /\ lease[e] = claims[w][e]

AcknowledgedByAnyoneBug(w, e) == status[e] = "PROCESSED"

\* Row e was acknowledged under the lease that w holds for it.
Acknowledged(w, e) == status[e] = "PROCESSED" /\ processedLease[e] = claims[w][e]

ValidClaimExpiredBug(w, e) == Holds(w, e) \/ Acknowledged(w, e)

\* The validity test that ack_batch and renew_leases share.
ValidClaim(w, e) == (Holds(w, e) /\ leaseLeft[e] > 0) \/ Acknowledged(w, e)

SpentLateBug(e) == attempts[e] > MaxAttempts
Spent(e) == attempts[e] >= MaxAttempts

Elapsed(t) == IF t > 0 THEN t - 1 ELSE 0

-----------------------------------------------------------------------------
(* Ingress. *)

\* A repeated id is stored again under a fresh one, so it is one more event.
Persist(e) ==
    /\ status[e] = "ABSENT"
    /\ Cardinality({f \in Events : f < e /\ status[f] = "ABSENT"}) <= MaxOvertaken
    /\ status' = [status EXCEPT ![e] = "PENDING"]
    /\ UNCHANGED <<cycle, attempts, lease, leaseLeft, wait, processedLease, cycles,
                   pc, todo, claims, faults>>

-----------------------------------------------------------------------------
(* The worker loop and one cycle of the runtime. *)

\* A pass of run_forever starts with a snapshot of the claimable roots.
Poll(w) ==
    /\ pc[w] = "idle" /\ todo[w] = {} /\ ClaimableRoots # {}
    /\ todo' = [todo EXCEPT ![w] = ClaimableRoots]
    /\ UNCHANGED <<rows, pc, claims, faults>>

\* claimable_roots is read outside the loop's own try: its error leaves
\* run_forever for good, and the process goes on without a loop.
PollFails(w) ==
    /\ pc[w] = "idle" /\ todo[w] = {} /\ faults < MaxFaults
    /\ pc' = [pc EXCEPT ![w] = "stopped"]
    /\ faults' = faults + 1
    /\ UNCHANGED <<rows, todo, claims>>

\* The next root of the pass has nothing to claim any more (NO_EVENTS).
FindNothing(w, r) ==
    /\ pc[w] = "idle" /\ r \in todo[w] /\ Batch(r) = {}
    /\ todo' = [todo EXCEPT ![w] = @ \ {r}]
    /\ UNCHANGED <<rows, pc, claims, faults>>

Claim(w, r) ==
    LET batch == Batch(r) IN
    /\ pc[w] = "idle" /\ r \in todo[w] /\ batch # {}
    /\ \A e \in batch : attempts[e] < MaxClaims
    /\ todo' = [todo EXCEPT ![w] = @ \ {r}]
    /\ status' = [e \in Events |-> IF e \in batch THEN "PROCESSING" ELSE status[e]]
    /\ attempts' = [e \in Events |-> IF e \in batch THEN attempts[e] + 1 ELSE attempts[e]]
    /\ lease' = [e \in Events |-> IF e \in batch THEN FreshLease(e) ELSE lease[e]]
    /\ leaseLeft' = [e \in Events |-> IF e \in batch THEN LeaseTicks ELSE leaseLeft[e]]
    /\ cycle' = [e \in Events |-> IF e \in batch THEN BatchCycle(r) ELSE cycle[e]]
    /\ cycles' = IF Retried(r) = {} THEN cycles + 1 ELSE cycles
    /\ claims' = [claims EXCEPT ![w] =
                    [e \in Events |-> IF e \in batch THEN lease'[e] ELSE NoLease]]
    /\ pc' = [pc EXCEPT ![w] = "running"]
    /\ UNCHANGED <<wait, processedLease, faults>>

\* claim_pending itself raises: run_forever goes on to the next root.
ClaimFails(w, r) ==
    /\ pc[w] = "idle" /\ r \in todo[w] /\ faults < MaxFaults
    /\ todo' = [todo EXCEPT ![w] = @ \ {r}]
    /\ faults' = faults + 1
    /\ UNCHANGED <<rows, pc, claims>>

\* The heartbeat renews every lease of the cohort or none; a lost lease
\* cancels the graph and the cohort is failed.
Renew(w) ==
    /\ pc[w] \in {"running", "acked"}
    /\ IF \A e \in Claimed(w) : ValidClaim(w, e)
       THEN /\ leaseLeft' = [e \in Events |->
                               IF e \in Claimed(w) /\ Holds(w, e) THEN LeaseTicks
                                                                  ELSE leaseLeft[e]]
            /\ UNCHANGED pc
       ELSE /\ pc' = [pc EXCEPT ![w] = "failing"]
            /\ UNCHANGED leaseLeft
    /\ UNCHANGED <<status, cycle, attempts, lease, wait, processedLease, cycles,
                   todo, claims, faults>>

\* FINALIZE acknowledges the whole cohort, or raises when any lease is stale.
Ack(w) ==
    /\ pc[w] = "running"
    /\ IF \A e \in Claimed(w) : ValidClaim(w, e)
       THEN LET done == {e \in Claimed(w) : Holds(w, e)} IN
            /\ status' = [e \in Events |-> IF e \in done THEN "PROCESSED" ELSE status[e]]
            /\ processedLease' =
                 [e \in Events |-> IF e \in done THEN lease[e] ELSE processedLease[e]]
            /\ lease' = [e \in Events |-> IF e \in done THEN NoLease ELSE lease[e]]
            /\ leaseLeft' = [e \in Events |-> IF e \in done THEN 0 ELSE leaseLeft[e]]
            /\ pc' = [pc EXCEPT ![w] = "acked"]
       ELSE /\ pc' = [pc EXCEPT ![w] = "failing"]
            /\ UNCHANGED <<status, processedLease, lease, leaseLeft>>
    /\ UNCHANGED <<cycle, attempts, wait, cycles, todo, claims, faults>>

\* Any node of the graph raises, or shutdown cancels the cycle; the latter
\* also between the acknowledgement and the return of the graph.
Raise(w) ==
    /\ pc[w] \in {"running", "acked"}
    /\ pc' = [pc EXCEPT ![w] = "failing"]
    /\ UNCHANGED <<rows, todo, claims, faults>>

Return(w) ==
    /\ pc[w] = "acked"
    /\ pc' = [pc EXCEPT ![w] = "idle"]
    /\ claims' = [claims EXCEPT ![w] = NoClaims]
    /\ UNCHANGED <<rows, todo, faults>>

\* _fail_claimed: the whole cohort is rescheduled or given up, unless any of
\* its rows is no longer held; the expiry of the lease is not looked at.
Fail(w) ==
    /\ pc[w] = "failing"
    /\ pc' = [pc EXCEPT ![w] = "idle"]
    /\ claims' = [claims EXCEPT ![w] = NoClaims]
    /\ IF \A e \in Claimed(w) : Holds(w, e)
       THEN LET spent == \E e \in Claimed(w) : Spent(e) IN
            /\ status' = [e \in Events |-> IF e \notin Claimed(w) THEN status[e]
                                           ELSE IF spent THEN "FAILED" ELSE "PENDING"]
            /\ wait' = [e \in Events |-> IF e \in Claimed(w) THEN BackoffTicks ELSE wait[e]]
            /\ lease' = [e \in Events |-> IF e \in Claimed(w) THEN NoLease ELSE lease[e]]
            /\ leaseLeft' = [e \in Events |-> IF e \in Claimed(w) THEN 0 ELSE leaseLeft[e]]
       ELSE UNCHANGED <<status, wait, lease, leaseLeft>>
    /\ UNCHANGED <<cycle, attempts, processedLease, cycles, todo, faults>>

\* fail_batch itself raises (60 "database is locked" answers, or an open
\* transaction): run_forever goes on and the rows keep their leases.
FailLost(w) ==
    /\ pc[w] = "failing" /\ faults < MaxFaults
    /\ pc' = [pc EXCEPT ![w] = "idle"]
    /\ claims' = [claims EXCEPT ![w] = NoClaims]
    /\ faults' = faults + 1
    /\ UNCHANGED <<rows, todo>>

-----------------------------------------------------------------------------
(* Crashes, restarts and time. *)

Crash(w) ==
    /\ pc[w] # "down" /\ faults < MaxFaults
    /\ pc' = [pc EXCEPT ![w] = "down"]
    /\ todo' = [todo EXCEPT ![w] = {}]
    /\ claims' = [claims EXCEPT ![w] = NoClaims]
    /\ faults' = faults + 1
    /\ UNCHANGED rows

\* EventInbox.initialize: expired rows are released or given up one by one;
\* rows under a live lease, another process's or the crashed one's, are left.
Restart(w) ==
    /\ pc[w] = "down"
    /\ pc' = [pc EXCEPT ![w] = "idle"]
    /\ status' = [e \in Events |-> IF ~Expired(e) THEN status[e]
                                   ELSE IF Spent(e) THEN "FAILED" ELSE "PENDING"]
    /\ lease' = [e \in Events |-> IF Expired(e) THEN NoLease ELSE lease[e]]
    /\ leaseLeft' = [e \in Events |-> IF Expired(e) THEN 0 ELSE leaseLeft[e]]
    /\ UNCHANGED <<cycle, attempts, wait, processedLease, cycles, todo, claims, faults>>

Tick ==
    /\ \E e \in Events : leaseLeft[e] > 0 \/ wait[e] > 0
    /\ leaseLeft' = [e \in Events |-> Elapsed(leaseLeft[e])]
    /\ wait' = [e \in Events |-> Elapsed(wait[e])]
    /\ UNCHANGED <<status, cycle, attempts, lease, processedLease, cycles,
                   pc, todo, claims, faults>>

-----------------------------------------------------------------------------

Step(w) ==
    \/ Poll(w) \/ PollFails(w)
    \/ \E r \in Roots : FindNothing(w, r) \/ Claim(w, r) \/ ClaimFails(w, r)
    \/ Renew(w) \/ Ack(w) \/ Raise(w) \/ Return(w) \/ Fail(w) \/ FailLost(w)
    \/ Crash(w) \/ Restart(w)

Next == (\E e \in Events : Persist(e)) \/ (\E w \in Workers : Step(w)) \/ Tick

Spec == Init /\ [][Next]_vars

\* A loop that has not ended goes on, a cycle ends one way or the other, a
\* crashed process is restarted and time passes.  Events need not arrive, nothing
\* need fail, and nobody restarts a process whose loop alone has ended.
Fairness ==
    /\ WF_vars(Tick)
    /\ \A w \in Workers :
         /\ WF_vars(Poll(w))
         /\ WF_vars(\E r \in Roots : FindNothing(w, r) \/ Claim(w, r))
         /\ WF_vars(Ack(w) \/ Raise(w)) /\ WF_vars(Return(w))
         /\ WF_vars(Fail(w)) /\ WF_vars(Restart(w))

FairSpec == Spec /\ Fairness

-----------------------------------------------------------------------------
(* Properties. *)

\* The rows of one cycle move together: same root, status, attempts, lease and
\* timers, whatever claims, failures, crashes and recoveries they went through.
\* claim_pending, mark_processed_batch, mark_failed_batch, recover_expired.
CohortUniform ==
    \A e, f \in Events : cycle[e] = cycle[f] /\ cycle[e] # NoCycle =>
        /\ Root[e] = Root[f]
        /\ status[e] = status[f] /\ attempts[e] = attempts[f]
        /\ lease[e] = lease[f] /\ processedLease[e] = processedLease[f]
        /\ leaseLeft[e] = leaseLeft[f] /\ wait[e] = wait[f]

\* Two processes never hold the current lease of the same row: the one whose
\* lease was taken over can neither renew, acknowledge nor fail it.
SoleHolder ==
    \A v, w \in Workers, e \in Events :
        e \in Claimed(v) /\ e \in Claimed(w) /\ Holds(v, e) /\ Holds(w, e) => v = w

\* ack_batch answers true for an event to one process only: a cycle that ran
\* twice because its lease expired is completed by one of the two.
CompletedOnce ==
    \A v, w \in Workers : pc[v] = "acked" /\ pc[w] = "acked" /\ v # w =>
        Claimed(v) \cap Claimed(w) = {}

\* Only faults buy attempts beyond the limit: one each, through a lease that
\* expires unattended and is reclaimed without asking for retry_count.
AttemptsPaidByFaults == \A e \in Events : attempts[e] <= MaxAttempts + faults

\* Every persisted event is eventually processed or given up, across crashes,
\* unless from some moment on no process has a loop: run_forever ends on the
\* first error of its own query, and nothing starts it again (worker.py:77).
EverySettles ==
    []<>(\E w \in Workers : pc[w] # "stopped") =>
        \A e \in Events : status[e] = "PENDING" ~> status[e] \in Terminal

=============================================================================
