--------------------------- MODULE Interventions ---------------------------
(***************************************************************************)
(* The queue of pending interventions (interventions/repository.py), the   *)
(* graph nodes that fill it (agent/nodes/send_intervention.py and          *)
(* record_intervention.py) and the OpenCode plugin that takes messages out *)
(* of it and appends them to the system prompt (opencode_plugin).          *)
(*                                                                         *)
(* A key is the durable cycle key of an Inbox cycle that decided to        *)
(* intervene; it is the delivery key of at most one row.  The cycle may be *)
(* attempted several times: a run is one attempt, a pair of the key and    *)
(* the number of the attempt.  Every attempt has a text of its own from    *)
(* the language model, named by the number of the attempt.                 *)
(***************************************************************************)
EXTENDS Naturals, Sequences, FiniteSets

CONSTANTS
    Keys,         \* delivery keys
    Sessions,     \* OpenCode sessions
    Session,      \* Session[k]: the root session of cycle k
    MaxAttempts,  \* attempts of one cycle (GRAMS_MAX_ATTEMPTS)
    Modes,        \* values GRAMS_INTERVENTION_FALLBACK takes across restarts
    Overlap,      \* an attempt may outlive its Inbox lease and meet the next one
    ClaimTicks,   \* GRAMS_INTERVENTION_CLAIM_LEASE, in ticks
    MaxProcesses, \* bound: processes of a session's project
    MaxLate       \* bound: audit calls executed after they were given up

AllModes == {"system_transform", "prompt_async"}
Attempts == 1..MaxAttempts
Runs == Keys \X Attempts
None == 0

ASSUME InterventionsAssumption ==
    /\ Session \in [Keys -> Sessions]
    /\ MaxAttempts \in Nat \ {0} /\ ClaimTicks \in Nat \ {0} /\ MaxProcesses \in Nat \ {0}
    /\ MaxLate \in Nat
    /\ Modes \subseteq AllModes /\ Overlap \in BOOLEAN

VARIABLES
    \* the table supervisor_interventions, one row per key
    status,       \* status[k], "ABSENT" before the row exists
    born,         \* rank of the row by created_at, rowid
    message,      \* the text of the row
    token,        \* claim_token, numbered by the claims of the row
    leaseLeft,    \* claim_until - now, never below zero
    consumed,     \* consumed_claim_token
    fallback,     \* fallback_token, named by the attempt that made it
    granted,      \* claim responses on their way to the plugin
    acks,         \* consume requests the plugin has sent
    claimsMade,   \* claims of the row so far
    arrived,      \* what reached the session for k, in order
    \* the runs
    pc,           \* where the run is in the two nodes
    text,         \* durable_message
    seen,         \* the audit memory the search found
    label,        \* delivery_status
    audits,       \* audits[k]: the audit memories of k
    home,         \* the process whose evidence category the run uses
    process       \* the active process of the session's project, by number

table == <<status, born, message, token, leaseLeft, consumed, fallback, claimsMade>>
plugin == <<granted, acks, arrived>>
context == <<home, process>>
runs == <<pc, text, seen, label, audits, context>>
vars == <<table, plugin, runs>>

Statuses == {"PENDING", "CLAIMED", "CONSUMED", "FALLBACK_SENDING",
             "FALLBACK_DELIVERED", "DELIVERY_UNKNOWN"}
Labels == {"PENDING", "CONSUMED", "FALLBACK_DELIVERED", "DELIVERY_UNKNOWN"}
Stages == {"new", "searched", "reserving", "sending", "sent", "refused",
           "auditing", "recording", "acked", "ended", "crossing", "landed"}
Arrivals == [via : AllModes, text : Attempts]
Audits == [by : Attempts, in : Nat, label : Labels, text : Attempts]

TypeOK ==
    /\ status \in [Keys -> Statuses \cup {"ABSENT"}]
    /\ born \in [Keys -> Nat]
    /\ message \in [Keys -> Attempts \cup {None}]
    /\ token \in [Keys -> Nat] /\ consumed \in [Keys -> Nat]
    /\ claimsMade \in [Keys -> Nat]
    /\ leaseLeft \in [Keys -> 0..ClaimTicks]
    /\ fallback \in [Keys -> Attempts \cup {None}]
    /\ granted \in SUBSET (Keys \X Nat) /\ acks \in SUBSET (Keys \X Nat)
    /\ arrived \in [Keys -> Seq(Arrivals)]
    /\ pc \in [Runs -> Stages]
    /\ text \in [Runs -> Attempts \cup {None}]
    /\ seen \in [Runs -> Attempts \cup {None}]
    /\ label \in [Runs -> Labels]
    /\ audits \in [Keys -> SUBSET Audits]
    /\ home \in [Runs -> Nat] /\ process \in [Sessions -> Nat]

Init ==
    /\ status = [k \in Keys |-> "ABSENT"]
    /\ born = [k \in Keys |-> 0] /\ message = [k \in Keys |-> None]
    /\ token = [k \in Keys |-> None] /\ consumed = [k \in Keys |-> None]
    /\ claimsMade = [k \in Keys |-> 0] /\ leaseLeft = [k \in Keys |-> 0]
    /\ fallback = [k \in Keys |-> None]
    /\ granted = {} /\ acks = {} /\ arrived = [k \in Keys |-> <<>>]
    /\ pc = [r \in Runs |-> "new"]
    /\ text = [r \in Runs |-> None] /\ seen = [r \in Runs |-> None]
    /\ label = [r \in Runs |-> "PENDING"]
    /\ audits = [k \in Keys |-> {}]
    /\ home = [r \in Runs |-> 0] /\ process = [s \in Sessions |-> 1]

Key(r) == r[1]
Number(r) == r[2]

-----------------------------------------------------------------------------
(* SEND_INTERVENTION and RECORD_INTERVENTION, by one attempt of a cycle.     *)
(* Definitions named ...Bug are what a plausible mistake would put in place  *)
(* of the definition that follows; no action uses them.                      *)

Active(r) == pc[r] \notin {"new", "acked", "ended", "crossing", "landed"}

\* The Inbox starts the next attempt when the last one is over, and runs one
\* cycle of a root at a time, unless the lease of an attempt still running
\* ran out.
MayStart(r) ==
    /\ pc[r] = "new"
    /\ \A q \in Runs : Key(q) = Key(r) =>
         /\ pc[q] # "acked"
         /\ Number(q) < Number(r) => pc[q] # "new"
    /\ Overlap \/ \A q \in Runs : Session[Key(q)] = Session[Key(r)] => ~Active(q)

\* No later attempt of the cycle has taken the Inbox lease over.
HoldsInbox(r) ==
    \A q \in Runs : Key(q) = Key(r) /\ Number(q) > Number(r) => pc[q] = "new"

ProcessOf(r) == process[Session[Key(r)]]

\* Audits of k in the evidence category of process p.
AuditsIn(k, p) == {a \in audits[k] : a.in = p}

\* memory.search by the cycle key, in the category of the process that is
\* active: an audit that is found lends its text.
Search(r) ==
    LET found == AuditsIn(Key(r), ProcessOf(r)) IN
    /\ MayStart(r)
    /\ pc' = [pc EXCEPT ![r] = "searched"]
    /\ home' = [home EXCEPT ![r] = ProcessOf(r)]
    /\ \/ /\ found = {}
          /\ text' = [text EXCEPT ![r] = Number(r)]
          /\ UNCHANGED seen
       \/ \E a \in found :
          /\ text' = [text EXCEPT ![r] = a.text]
          /\ seen' = [seen EXCEPT ![r] = a.by]
    /\ UNCHANGED <<table, plugin, label, audits, process>>

Initial(m) == IF m = "prompt_async" THEN "FALLBACK_SENDING" ELSE "PENDING"

\* delivery_status as read off a row.
LabelOf(s) == IF s \in Labels THEN s ELSE "PENDING"

\* The label of a run that will not send: under prompt_async, a row that an
\* earlier owner left in FALLBACK_SENDING counts as unknown.
UnsentLabel(m, s, created) ==
    IF m = "prompt_async" /\ s = "FALLBACK_SENDING" /\ ~created
    THEN "DELIVERY_UNKNOWN" ELSE LabelOf(s)

AfterEnqueueResendBug(m, s, created) ==
    IF m = "prompt_async" /\ s = "PENDING" THEN "reserving"
    ELSE IF m = "prompt_async" /\ s = "FALLBACK_SENDING" THEN "sending"
    ELSE "auditing"
AfterEnqueue(m, s, created) ==
    IF m = "prompt_async" /\ s = "PENDING" THEN "reserving"
    ELSE IF m = "prompt_async" /\ s = "FALLBACK_SENDING" /\ created THEN "sending"
    ELSE "auditing"

DurableTextOwnBug(r, stored) == text[r]
\* What enqueue returns: the text of the row, whoever created it.
DurableText(r, stored) == stored

\* INSERT OR IGNORE on (session_id, delivery_key).
Enqueue(r, m) ==
    LET k == Key(r)
        created == status[k] = "ABSENT"
        s == IF created THEN Initial(m) ELSE status[k]
        stored == IF created THEN text[r] ELSE message[k]
    IN
    /\ pc[r] = "searched"
    /\ status' = [status EXCEPT ![k] = s]
    /\ message' = [message EXCEPT ![k] = stored]
    /\ born' = [born EXCEPT ![k] = IF created
                  THEN Cardinality({j \in Keys : status[j] # "ABSENT"}) + 1 ELSE @]
    /\ fallback' = [fallback EXCEPT ![k] =
                      IF created /\ m = "prompt_async" THEN Number(r) ELSE @]
    /\ text' = [text EXCEPT ![r] = DurableText(r, stored)]
    /\ label' = [label EXCEPT ![r] = UnsentLabel(m, s, created)]
    /\ pc' = [pc EXCEPT ![r] = AfterEnqueue(m, s, created)]
    /\ UNCHANGED <<token, leaseLeft, consumed, claimsMade, plugin, seen, audits, context>>

Reservable(k) == status[k] = "PENDING"

\* begin_fallback: a PENDING row is taken away from the plugin, or the plugin
\* was faster and the run goes on without sending, its label unrefreshed.
Reserve(r) ==
    LET k == Key(r) IN
    /\ pc[r] = "reserving"
    /\ \/ /\ Reservable(k)
          /\ status' = [status EXCEPT ![k] = "FALLBACK_SENDING"]
          /\ token' = [token EXCEPT ![k] = None]
          /\ leaseLeft' = [leaseLeft EXCEPT ![k] = 0]
          /\ fallback' = [fallback EXCEPT ![k] = Number(r)]
          /\ pc' = [pc EXCEPT ![r] = "sending"]
       \/ /\ ~Reservable(k)
          /\ pc' = [pc EXCEPT ![r] = "auditing"]
          /\ UNCHANGED <<status, token, leaseLeft, fallback>>
    /\ UNCHANGED <<born, message, consumed, claimsMade, plugin, text, seen, label, audits, context>>

Arrive(k, via, t) == arrived' = [arrived EXCEPT ![k] = Append(@, [via |-> via, text |-> t])]

\* The prompt_async request reaches OpenCode or not, and an answer to one
\* that did may be lost.
Send(r) ==
    /\ pc[r] = "sending"
    /\ \/ Arrive(Key(r), "prompt_async", text[r]) /\ pc' = [pc EXCEPT ![r] = "sent"]
       \/ Arrive(Key(r), "prompt_async", text[r]) /\ pc' = [pc EXCEPT ![r] = "refused"]
       \/ UNCHANGED arrived /\ pc' = [pc EXCEPT ![r] = "refused"]
    /\ UNCHANGED <<table, granted, acks, text, seen, label, audits, context>>

Owns(r) == status[Key(r)] = "FALLBACK_SENDING" /\ fallback[Key(r)] = Number(r)

OutcomeAlwaysDeliveredBug(r) == "FALLBACK_DELIVERED"
Outcome(r) == IF pc[r] = "sent" THEN "FALLBACK_DELIVERED" ELSE "DELIVERY_UNKNOWN"

\* mark_fallback_delivered raises when rejected, mark_delivery_unknown does not.
Mark(r) ==
    LET k == Key(r) IN
    /\ pc[r] \in {"sent", "refused"}
    /\ status' = [status EXCEPT ![k] = IF Owns(r) THEN Outcome(r) ELSE @]
    /\ token' = [token EXCEPT ![k] = IF Owns(r) THEN None ELSE @]
    /\ label' = [label EXCEPT ![r] = Outcome(r)]
    /\ pc' = [pc EXCEPT ![r] = IF pc[r] = "sent" /\ ~Owns(r) THEN "ended" ELSE "auditing"]
    /\ UNCHANGED <<born, message, leaseLeft, consumed, fallback, claimsMade,
                   plugin, text, seen, audits, context>>

AuditIdNewBug(r) == Number(r)
\* The audit a run writes: the one its search found, or a new one.
AuditId(r) == IF seen[r] = None THEN Number(r) ELSE seen[r]

AuditOf(r) == [by |-> AuditId(r), in |-> home[r], label |-> label[r], text |-> text[r]]

Put(k, a) == audits' = [audits EXCEPT ![k] = {b \in @ : b.by # a.by} \cup {a}]

\* memory.create or memory.update.  The answer may be lost, and the run fails;
\* or the client gives up after 30 seconds, and the service has the call still
\* before it.
WriteAudit(r) ==
    /\ pc[r] = "auditing"
    /\ \/ /\ Put(Key(r), AuditOf(r))
          /\ \E next \in {"recording", "ended"} : pc' = [pc EXCEPT ![r] = next]
       \/ /\ Cardinality({q \in Runs : pc[q] \in {"crossing", "landed"}}) < MaxLate
          /\ pc' = [pc EXCEPT ![r] = "crossing"]
          /\ UNCHANGED audits
    /\ UNCHANGED <<table, plugin, text, seen, label, context>>

\* The Memory MCP executes a call whose caller is gone, whatever was done since.
LandAudit(r) ==
    /\ pc[r] = "crossing"
    /\ Put(Key(r), AuditOf(r))
    /\ pc' = [pc EXCEPT ![r] = "landed"]
    /\ UNCHANGED <<table, plugin, text, seen, label, context>>

Recordable(r) == label[r] \in {"CONSUMED", "FALLBACK_DELIVERED", "PENDING"}

\* RECORD_INTERVENTION refuses an unknown delivery; FINALIZE acknowledges the
\* cycle while its Inbox lease is held.
Record(r) ==
    /\ pc[r] = "recording"
    /\ pc' = [pc EXCEPT ![r] = IF Recordable(r) /\ HoldsInbox(r) THEN "acked" ELSE "ended"]
    /\ UNCHANGED <<table, plugin, text, seen, label, audits, context>>

\* A call raises, the graph is cancelled, or the process crashes.
Abort(r) ==
    /\ Active(r)
    /\ pc' = [pc EXCEPT ![r] = "ended"]
    /\ UNCHANGED <<table, plugin, text, seen, label, audits, context>>

\* A cycle of the session, a retried one before its SEND_INTERVENTION included,
\* starts another process; cycles of a session run one at a time unless a lease
\* ran out.
StartProcess(s) ==
    /\ process[s] < MaxProcesses
    /\ Overlap \/ \A r \in Runs : Session[Key(r)] = s => ~Active(r)
    /\ process' = [process EXCEPT ![s] = @ + 1]
    /\ UNCHANGED <<table, plugin, pc, text, seen, label, audits, home>>

-----------------------------------------------------------------------------
(* The plugin, at each model call of a session. *)

PendingOf(s) == {k \in Keys : Session[k] = s /\ status[k] = "PENDING"}

LapsedOfNoneBug(s) == {}
LapsedOf(s) == {k \in Keys : Session[k] = s /\ status[k] = "CLAIMED" /\ leaseLeft[k] = 0}

OldestAnyBug(s) == PendingOf(s)
Oldest(s) == {k \in PendingOf(s) : \A j \in PendingOf(s) : born[k] <= born[j]}

LapsedTo(k) == "DELIVERY_UNKNOWN"

\* claim: expired claims become unknown, the oldest pending row is claimed.
Claim(s) ==
    LET reaped == [k \in Keys |-> IF k \in LapsedOf(s) THEN LapsedTo(k) ELSE status[k]] IN
    /\ \/ /\ PendingOf(s) = {} /\ LapsedOf(s) # {}
          /\ status' = reaped
          /\ token' = [k \in Keys |-> IF k \in LapsedOf(s) THEN None ELSE token[k]]
          /\ UNCHANGED <<leaseLeft, claimsMade, granted>>
       \/ \E h \in Oldest(s) :
          /\ status' = [reaped EXCEPT ![h] = "CLAIMED"]
          /\ claimsMade' = [claimsMade EXCEPT ![h] = @ + 1]
          /\ token' = [k \in Keys |-> IF k = h THEN claimsMade[h] + 1
                                      ELSE IF k \in LapsedOf(s) THEN None ELSE token[k]]
          /\ leaseLeft' = [leaseLeft EXCEPT ![h] = ClaimTicks]
          /\ granted' = granted \cup {<<h, claimsMade[h] + 1>>}
    /\ UNCHANGED <<born, message, consumed, fallback, acks, arrived, runs>>

\* The answer to a claim is lost, arrives after the plugin gave up, or the
\* plugin dies.
LoseGrant(g) ==
    /\ g \in granted
    /\ granted' = granted \ {g}
    /\ UNCHANGED <<table, acks, arrived, runs>>

\* The message is appended to output.system[0] and its consumption reported.
Inject(g) ==
    /\ g \in granted
    /\ granted' = granted \ {g}
    /\ acks' = acks \cup {g}
    /\ Arrive(g[1], "system_transform", message[g[1]])
    /\ UNCHANGED <<table, runs>>

Consumable(g) == status[g[1]] = "CLAIMED" /\ token[g[1]] = g[2]

\* One of the up to three requests is served, sooner or later; one whose claim
\* was reaped is refused, one that was served before changes nothing.
Consume(g) ==
    LET k == g[1] IN
    /\ g \in acks /\ Consumable(g)
    /\ status' = [status EXCEPT ![k] = "CONSUMED"]
    /\ consumed' = [consumed EXCEPT ![k] = token[k]]
    /\ token' = [token EXCEPT ![k] = None]
    /\ leaseLeft' = [leaseLeft EXCEPT ![k] = 0]
    /\ UNCHANGED <<born, message, fallback, claimsMade, plugin, runs>>

Tick ==
    /\ \E k \in Keys : leaseLeft[k] > 0
    /\ leaseLeft' = [k \in Keys |-> IF leaseLeft[k] > 0 THEN leaseLeft[k] - 1 ELSE 0]
    /\ UNCHANGED <<status, born, message, token, consumed, fallback, claimsMade, plugin, runs>>

-----------------------------------------------------------------------------

Run(r) ==
    \/ Search(r) \/ (\E m \in Modes : Enqueue(r, m)) \/ Reserve(r) \/ Send(r)
    \/ Mark(r) \/ WriteAudit(r) \/ LandAudit(r) \/ Record(r) \/ Abort(r)

Hook ==
    \/ \E s \in Sessions : Claim(s)
    \/ \E g \in granted : LoseGrant(g) \/ Inject(g)
    \/ \E g \in acks : Consume(g)

Next == (\E r \in Runs : Run(r)) \/ (\E s \in Sessions : StartProcess(s)) \/ Hook \/ Tick

Spec == Init /\ [][Next]_vars

\* Time passes and every session goes on calling its model: a hook that finds
\* nothing changes nothing, so only claims that matter are asked for.
FairSpec == Spec /\ WF_vars(Tick) /\ \A s \in Sessions : WF_vars(Claim(s))

-----------------------------------------------------------------------------
(* Properties. *)

\* A session sees the message of a cycle at most once, injected or sent through
\* prompt_async but never both: whatever is retried, whichever answer is lost,
\* even when the mode changes between attempts or two attempts overlap.
AtMostOnce == \A k \in Keys : Len(arrived[k]) <= 1

\* A retry never replaces the durable message: what arrives, and what every
\* audit says, is the text of the first attempt that queued it.
OneText ==
    \A k \in Keys :
        /\ \A i \in DOMAIN arrived[k] : arrived[k][i].text = message[k]
        /\ \A a \in audits[k] : a.text = message[k]

\* No false confirmation: CONSUMED means that the claim that consumed it was
\* injected, FALLBACK_DELIVERED that prompt_async got it, and an audit that
\* reports a delivery reports one that happened.
NothingConfirmedFalsely ==
    \A k \in Keys :
        /\ status[k] = "CONSUMED" =>
             \E i \in DOMAIN arrived[k] : arrived[k][i].via = "system_transform"
        /\ status[k] = "FALLBACK_DELIVERED" =>
             \E i \in DOMAIN arrived[k] : arrived[k][i].via = "prompt_async"
        /\ (\E a \in audits[k] : a.label \in {"CONSUMED", "FALLBACK_DELIVERED"})
             => arrived[k] # <<>>

\* The plugin takes the messages of a session in the order they were queued:
\* none that was ever claimed is younger than one that still waits.
ClaimedInOrder ==
    \A j, k \in Keys :
        Session[j] = Session[k] /\ status[j] = "PENDING" /\ claimsMade[k] > 0
            => born[k] < born[j]

\* The audit that attempt n of cycle k was to create came after its caller had
\* given it up.
CreatedLate(k, n) == pc[<<k, n>>] = "landed" /\ seen[<<k, n>>] = None

\* However often a cycle is retried and whichever answer of the Memory MCP is
\* lost or late, of its audits in one process at most one was created in time,
\* as long as attempts do not overlap: a second one is paid for by a create that
\* was executed behind its caller's back, or is in another process, because the
\* search looks into the active one only.
OneAudit ==
    \A k \in Keys : \A a, b \in audits[k] :
        a # b /\ a.in = b.in => CreatedLate(k, a.by) \/ CreatedLate(k, b.by)

\* A queued message does not wait for ever, nor does a claim the plugin lost:
\* both end consumed or unknown while the session goes on.
EveryQueuedResolved ==
    \A k \in Keys : status[k] = "PENDING" ~>
        status[k] \in {"CONSUMED", "DELIVERY_UNKNOWN"}

=============================================================================
