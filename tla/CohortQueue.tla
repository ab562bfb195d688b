---------------------------- MODULE CohortQueue ----------------------------
(***************************************************************************)
(* What the Inbox promises, without rows, timers, processes or retry       *)
(* counts: the waiting events of a root session are cut into cohorts from  *)
(* the oldest; a cohort keeps its members, one cohort of a root runs at a  *)
(* time unless its lease lapsed, and it is done or dead once and as a      *)
(* whole.                                                                  *)
(***************************************************************************)
EXTENDS Naturals, FiniteSets

CONSTANTS Events, Roots, Root, BatchSize

VARIABLES
    waiting, \* waiting[r]: events of r, by number from old to young, in no cohort
    stage    \* stage[b]: what became of cohort b, a set of events

Cohorts == DOMAIN stage
Of(r, b) == \E e \in b : Root[e] = r

\* A cohort of r holds a live lease.
Running(r) == \E b \in Cohorts : Of(r, b) /\ stage[b] = "leased"

Init == waiting = [r \in Roots |-> {}] /\ stage = [b \in {} |-> "waiting"]

Arrive(e) ==
    /\ \A r \in Roots : e \notin waiting[r]
    /\ \A b \in Cohorts : e \notin b
    /\ waiting' = [waiting EXCEPT ![Root[e]] = @ \cup {e}]
    /\ UNCHANGED stage

Oldest(S) == {e \in S : Cardinality({f \in S : f <= e}) <= BatchSize}

\* The oldest events become a cohort that runs at once.
Form(r) ==
    LET b == Oldest(waiting[r])
    IN  /\ b # {} /\ ~Running(r)
        /\ waiting' = [waiting EXCEPT ![r] = @ \ b]
        /\ stage' = [c \in Cohorts \cup {b} |-> IF c = b THEN "leased" ELSE stage[c]]

\* A waiting or lapsed cohort runs again.
Rerun(r, b) ==
    /\ Of(r, b) /\ ~Running(r) /\ stage[b] \in {"waiting", "lapsed"}
    /\ stage' = [stage EXCEPT ![b] = "leased"]
    /\ UNCHANGED waiting

\* Only a cohort whose lease is live is completed.
Complete(b) ==
    /\ stage[b] = "leased"
    /\ stage' = [stage EXCEPT ![b] = "done"]
    /\ UNCHANGED waiting

\* Cohorts are released for a retry or given up.
Release ==
    /\ \E S \in SUBSET Cohorts, t \in [Cohorts -> {"waiting", "dead"}] :
         /\ \A b \in S : stage[b] \in {"leased", "lapsed"}
         /\ stage' = [b \in Cohorts |-> IF b \in S THEN t[b] ELSE stage[b]]
    /\ UNCHANGED waiting

\* Leases run out.
Lapse ==
    /\ \E S \in SUBSET Cohorts :
         /\ \A b \in S : stage[b] = "leased"
         /\ stage' = [b \in Cohorts |-> IF b \in S THEN "lapsed" ELSE stage[b]]
    /\ UNCHANGED waiting

Next ==
    \/ \E e \in Events : Arrive(e)
    \/ \E r \in Roots : Form(r) \/ (\E b \in Cohorts : Rerun(r, b))
    \/ \E b \in Cohorts : Complete(b)
    \/ Release \/ Lapse

Spec == Init /\ [][Next]_<<waiting, stage>>
=============================================================================
