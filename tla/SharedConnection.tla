-------------------------- MODULE SharedConnection --------------------------
(***************************************************************************)
(* The Inbox and the intervention queue write through ONE SQLite           *)
(* connection (app.py), each under a lock of its own: statements of their  *)
(* transactions may alternate, and a connection has one transaction.       *)
(*                                                                         *)
(* A task is one call of a repository method; only its writes matter here, *)
(* numbered in the order of its statements.  The rules of the connection   *)
(* are those of Python's sqlite3 module: a write opens a transaction when  *)
(* none is open, BEGIN fails when one is, COMMIT and ROLLBACK settle       *)
(* everything that was written since.                                      *)
(***************************************************************************)
EXTENDS Naturals

CONSTANTS
    Tasks,       \* calls
    Op,          \* Op[t]: the method that call t runs
    CohortSize   \* rows of a claimed cohort

InboxOps == {"insert", "claim", "set_objective", "ack", "renew", "fail", "recover"}
QueueOps == {"enqueue", "claim_intervention", "consume", "begin_fallback", "mark"}

ASSUME SharedAssumption ==
    /\ Op \in [Tasks -> InboxOps \cup QueueOps]
    /\ CohortSize \in Nat \ {0}

VARIABLES
    stage,     \* stage[t]: where call t is
    written,   \* written[t]: write statements of t that ran
    holder,    \* holder[l]: the calls that hold lock l, at most one
    open,      \* the connection is in a transaction
    pending,   \* writes of the open transaction
    durable    \* committed writes

connectionVars == <<stage, written, holder, open, pending, durable>>

Locks == {"inbox", "queue"}
LockOf(t) == IF Op[t] \in InboxOps THEN "inbox" ELSE "queue"

\* Methods that BEGIN IMMEDIATE; the others let their first write begin.
Begins(t) == Op[t] \in {"claim", "ack", "renew", "fail", "claim_intervention"}

\* Methods that may find their leases stale (claim: the root busy) and roll back.
MayReject(t) == Op[t] \in {"claim", "ack", "renew", "fail"}

\* Calls of the worker's loop and of its graph, which never overlap: the loop
\* runs one cycle at a time and the nodes of a cycle follow each other.
WorkerOps ==
    {"claim", "set_objective", "ack", "fail", "enqueue", "begin_fallback", "mark"}

\* Calls that get cancelled, with the loop or with the heartbeat, which is a task
\* of its own; the API handlers and the startup run to their end.
Cancellable(t) == Op[t] \in WorkerOps \cup {"renew"}

\* A cohort is written row by row; claiming an intervention reaps first.
Writes(t) ==
    IF MayReject(t) \/ Op[t] = "recover" THEN CohortSize ELSE IF Begins(t) THEN 2 ELSE 1

Over == {"ok", "rejected", "raised", "cancelled"}
Active(t) == stage[t] \in {"begin", "writing"}
AllWrites(t) == {<<t, i>> : i \in 1..Writes(t)}

ConnectionTypeOK ==
    /\ stage \in [Tasks -> {"new", "begin", "writing"} \cup Over]
    /\ written \in [Tasks -> Nat]
    /\ holder \in [Locks -> SUBSET Tasks]
    /\ open \in BOOLEAN
    /\ pending \in SUBSET (Tasks \X Nat) /\ durable \in SUBSET (Tasks \X Nat)

ConnectionInit ==
    /\ stage = [t \in Tasks |-> "new"]
    /\ written = [t \in Tasks |-> 0]
    /\ holder = [l \in Locks |-> {}]
    /\ open = FALSE /\ pending = {} /\ durable = {}

-----------------------------------------------------------------------------
(* The connection. *)

Commit == open' = FALSE /\ pending' = {} /\ durable' = durable \cup pending
Rollback == open' = FALSE /\ pending' = {} /\ UNCHANGED durable

Leave(t, outcome) ==
    /\ stage' = [stage EXCEPT ![t] = outcome]
    /\ holder' = [holder EXCEPT ![LockOf(t)] = @ \ {t}]

-----------------------------------------------------------------------------
(* One call. *)

LockFreeIgnoredBug(l) == TRUE
LockFree(l) == holder[l] = {}

\* The worker is in no other call, and initialize has recovered the rows before
\* the service takes requests and the worker starts.
MayCall(t) ==
    \A u \in Tasks \ {t} :
        /\ Op[t] \in WorkerOps /\ Op[u] \in WorkerOps => ~Active(u)
        /\ Op[u] = "recover" => stage[u] \in Over

Start(t) ==
    /\ stage[t] = "new" /\ LockFree(LockOf(t)) /\ MayCall(t)
    /\ holder' = [holder EXCEPT ![LockOf(t)] = @ \cup {t}]
    /\ stage' = [stage EXCEPT ![t] = IF Begins(t) THEN "begin" ELSE "writing"]
    /\ UNCHANGED <<written, open, pending, durable>>

\* BEGIN stands before the try block: when it fails nothing is rolled back.
Begin(t) ==
    /\ stage[t] = "begin"
    /\ IF open THEN Leave(t, "raised") /\ UNCHANGED open
               ELSE /\ open' = TRUE /\ stage' = [stage EXCEPT ![t] = "writing"]
                    /\ UNCHANGED holder
    /\ UNCHANGED <<written, pending, durable>>

Write(t) ==
    /\ stage[t] = "writing" /\ written[t] < Writes(t)
    /\ written' = [written EXCEPT ![t] = @ + 1]
    /\ pending' = pending \cup {<<t, written[t] + 1>>}
    /\ open' = TRUE
    /\ UNCHANGED <<stage, holder, durable>>

Reject(t) ==
    /\ stage[t] = "writing" /\ MayReject(t) /\ written[t] = 0
    /\ Rollback /\ Leave(t, "rejected")
    /\ UNCHANGED written

Finish(t) ==
    /\ stage[t] = "writing" /\ written[t] = Writes(t)
    /\ Commit /\ Leave(t, "ok")
    /\ UNCHANGED written

\* The statement runs in the connection's thread whether or not the task that
\* awaits it is cancelled: the transaction is left open, with nobody in it.
CancelInBegin(t) ==
    /\ stage[t] = "begin" /\ Cancellable(t)
    /\ open' = TRUE /\ Leave(t, "cancelled")
    /\ UNCHANGED <<written, pending, durable>>

RollsBackNotBug(t) == FALSE
\* "except BaseException: rollback" stands in the methods that BEGIN.
RollsBack(t) == Begins(t)

\* Cancelled at a later await; the COMMIT that was awaited may have run.
Cancel(t) ==
    /\ stage[t] = "writing" /\ Cancellable(t)
    /\ \/ written[t] = Writes(t) /\ Commit
       \/ IF RollsBack(t) THEN Rollback ELSE UNCHANGED <<open, pending, durable>>
    /\ Leave(t, "cancelled")
    /\ UNCHANGED written

ProcessDies ==
    /\ \E t \in Tasks : Active(t)
    /\ stage' = [t \in Tasks |-> IF Active(t) THEN "raised" ELSE stage[t]]
    /\ holder' = [l \in Locks |-> {}]
    /\ Rollback
    /\ UNCHANGED written

-----------------------------------------------------------------------------

Call(t) ==
    \/ Start(t) \/ Begin(t) \/ Write(t) \/ Reject(t) \/ Finish(t)
    \/ CancelInBegin(t) \/ Cancel(t)

ConnectionNext == (\E t \in Tasks : Call(t)) \/ ProcessDies

ConnectionSpec == ConnectionInit /\ [][ConnectionNext]_connectionVars

-----------------------------------------------------------------------------
(* Properties. *)

\* A method that answered its caller without an error has its writes on disk:
\* an acknowledged event stays acknowledged, a consumed message consumed, a
\* queued one queued (proposal.md 266-267 of pending-intervention-system-transform
\* for the queue; the commit at the end of every method for both).
AnsweredIsDurable == \A t \in Tasks : stage[t] = "ok" => AllWrites(t) \subseteq durable

\* A call that is over has written all of its rows or none, however it ended:
\* what makes a cohort move as one in the Inbox (mark_processed_batch,
\* mark_failed_batch, claim_pending).  A transaction that is left with nobody in
\* it, as a heartbeat cancelled while it waits for BEGIN leaves one
\* (renew_leases, 327), holds no row of an event: at most the objective whose
\* set_objective (458) was cancelled between its INSERT and its COMMIT, which
\* the next commit of anybody stores.
WholeOrNothing ==
    /\ \A t \in Tasks : stage[t] \in Over =>
          AllWrites(t) \subseteq durable \/ AllWrites(t) \cap durable = {}
    /\ (\A t \in Tasks : ~Active(t)) =>
          \A x \in pending : stage[x[1]] = "cancelled" /\ Op[x[1]] = "set_objective"

=============================================================================
