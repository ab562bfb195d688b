----------------------------- MODULE InboxQueue -----------------------------
(***************************************************************************)
(* The refinement mapping from the rows of the Inbox to CohortQueue.       *)
(***************************************************************************)
EXTENDS Inbox

Fresh(r) == {e \in Events : Root[e] = r /\ status[e] = "PENDING" /\ cycle[e] = NoCycle}

WaitingRows == [r \in Roots |-> Fresh(r)]

CohortOf(c) == {e \in Events : cycle[e] = c}

StageOf(e) ==
    CASE status[e] = "PENDING" -> "waiting"
      [] status[e] = "PROCESSED" -> "done"
      [] status[e] = "FAILED" -> "dead"
      [] OTHER -> IF Live(e) THEN "leased" ELSE "lapsed"

CohortStages == [b \in {CohortOf(c) : c \in 1..cycles} |-> StageOf(Min(b))]

Queue == INSTANCE CohortQueue WITH waiting <- WaitingRows, stage <- CohortStages

\* The tables, leases and retries of the Inbox implement the cohort queue.
ImplementsQueue == Queue!Spec
=============================================================================
