------------------------ MODULE InterventionsProofs ------------------------
(***************************************************************************)
(* Delivery of interventions, for any number of cycles, sessions and       *)
(* attempts, under every sequence of modes and with overlapping attempts.  *)
(***************************************************************************)
EXTENDS Interventions, FiniteSetTheorems, TLAPS

(* The inductive invariant. *)

\* A row can be delivered in one of two ways only, each tried once: the plugin
\* claimed it, or an attempt took it for prompt_async.
RowShape ==
    \A k \in Keys :
        /\ status[k] \in {"ABSENT", "PENDING"} =>
             claimsMade[k] = 0 /\ fallback[k] = None /\ arrived[k] = <<>>
        /\ status[k] = "ABSENT" => audits[k] = {}
        /\ status[k] # "ABSENT" => message[k] \in Attempts
        /\ claimsMade[k] > 0 => claimsMade[k] = 1 /\ fallback[k] = None

GrantShape ==
    /\ \A g \in granted \cup acks : claimsMade[g[1]] = 1 /\ g[2] = 1
    /\ \A g \in granted : arrived[g[1]] = <<>>
    /\ \A g \in acks : \E i \in DOMAIN arrived[g[1]] : arrived[g[1]][i].via = "system_transform"

Queued == {"reserving", "sending", "sent", "refused", "auditing", "recording", "crossing"}

ShapeOf(r) ==
    /\ pc[r] = "searched" => text[r] \in Attempts
    /\ pc[r] \in Queued => text[r] = message[Key(r)] /\ status[Key(r)] # "ABSENT"
    /\ pc[r] \in {"sending", "sent", "refused"} => Owns(r)
    /\ pc[r] = "sending" => arrived[Key(r)] = <<>>
    /\ pc[r] = "sent" =>
         \E i \in DOMAIN arrived[Key(r)] : arrived[Key(r)][i].via = "prompt_async"
    /\ label[r] \in {"CONSUMED", "FALLBACK_DELIVERED"} => arrived[Key(r)] # <<>>

RunShape == \A r \in Runs : ShapeOf(r)

\* Rows are numbered as they are inserted.
Present == {k \in Keys : status[k] # "ABSENT"}
BornShape ==
    /\ \A k \in Present : born[k] <= Cardinality(Present)
    /\ \A j, k \in Present : born[j] = born[k] => j = k

Delivery == AtMostOnce /\ OneText /\ NothingConfirmedFalsely

IInv == /\ TypeOK /\ RowShape /\ GrantShape /\ RunShape /\ Delivery
        /\ BornShape /\ ClaimedInOrder

-----------------------------------------------------------------------------

LEMMA FirstArrival ==
    ASSUME NEW x
    PROVE  /\ Append(<<>>, x) # <<>> /\ Len(Append(<<>>, x)) = 1
           /\ DOMAIN Append(<<>>, x) = 1..1 /\ Append(<<>>, x)[1] = x
OBVIOUS

LEMMA RunsAre == ASSUME NEW r \in Runs PROVE Key(r) \in Keys /\ Number(r) \in Attempts /\ r = <<Key(r), Number(r)>>
BY DEF Runs, Key, Number

LEMMA AuditsAre ==
    ASSUME IInv, NEW k \in Keys, NEW a \in audits[k]
    PROVE  a.by \in Attempts /\ <<k, a.by>> \in Runs
<1>1. a \in Audits
  BY DEF IInv, TypeOK
<1>2. a.by \in Attempts
  BY <1>1 DEF Audits
<1> QED
  BY <1>2 DEF Runs

LEMMA InitIInv == ASSUME IsFiniteSet(Keys) PROVE Init => IInv
<1> SUFFICES ASSUME Init PROVE IInv
  OBVIOUS
<1>1. TypeOK
  BY InterventionsAssumption DEF Init, TypeOK, Stages, Labels, None
<1>2. RowShape /\ GrantShape
  BY DEF Init, RowShape, GrantShape
<1>3. RunShape
  BY RunsAre DEF Init, RunShape, ShapeOf, Queued
<1>4. Delivery
  BY DEF Init, Delivery, AtMostOnce, OneText, NothingConfirmedFalsely
<1>5. BornShape /\ ClaimedInOrder
  BY DEF Init, BornShape, ClaimedInOrder, Present
<1> QED
  BY <1>1, <1>2, <1>3, <1>4, <1>5 DEF IInv

\* Steps of a run that leave the row and what arrived alone.
LEMMA SearchStep ==
    ASSUME IInv, NEW r \in Runs, Search(r)
    PROVE  IInv'
<1>1. /\ pc' = [pc EXCEPT ![r] = "searched"]
      /\ UNCHANGED <<table, plugin, label, audits, process>>
      /\ home' = [home EXCEPT ![r] = ProcessOf(r)] /\ ProcessOf(r) \in Nat
      /\ \E t \in Attempts : text' = [text EXCEPT ![r] = t]
      /\ \E a \in Attempts \cup {None} : seen' = [seen EXCEPT ![r] = a]
  <2>0. ProcessOf(r) \in Nat
    BY RunsAre, InterventionsAssumption DEF ProcessOf, IInv, TypeOK
  <2>1. CASE text' = [text EXCEPT ![r] = Number(r)] /\ UNCHANGED seen
    <3>1. seen' = [seen EXCEPT ![r] = seen[r]] /\ seen[r] \in Attempts \cup {None}
      BY <2>1 DEF IInv, TypeOK
    <3> QED
      BY <2>0, <2>1, <3>1, RunsAre DEF Search
  <2>2. CASE \E a \in AuditsIn(Key(r), ProcessOf(r)) : /\ text' = [text EXCEPT ![r] = a.text]
                                                       /\ seen' = [seen EXCEPT ![r] = a.by]
    <3>1. \A a \in AuditsIn(Key(r), ProcessOf(r)) : a.text \in Attempts /\ a.by \in Attempts
      BY RunsAre DEF IInv, TypeOK, Audits, AuditsIn
    <3> QED
      BY <2>0, <2>2, <3>1 DEF Search
  <2> QED
    BY <2>1, <2>2 DEF Search
<1>2. TypeOK'
  BY <1>1 DEF IInv, TypeOK, context, table, plugin, Stages
<1>3. RunShape'
  BY <1>1 DEF IInv, TypeOK, RunShape, ShapeOf, table, plugin, Queued, Owns
<1>4. RowShape' /\ GrantShape' /\ Delivery' /\ BornShape' /\ ClaimedInOrder'
  BY <1>1 DEF IInv, RowShape, GrantShape, Delivery, AtMostOnce, OneText, NothingConfirmedFalsely,
              BornShape, ClaimedInOrder, Present, table, plugin
<1> QED
  BY <1>2, <1>3, <1>4 DEF IInv

LEMMA EndStep ==
    ASSUME IInv, NEW r \in Runs, Record(r) \/ Abort(r)
    PROVE  IInv'
<1>1. /\ \E s \in {"acked", "ended"} : pc' = [pc EXCEPT ![r] = s]
      /\ UNCHANGED <<table, plugin, text, seen, label, audits, context>>
  BY DEF Record, Abort
<1>2. TypeOK'
  BY <1>1 DEF IInv, TypeOK, context, table, plugin, Stages
<1>3. RunShape'
  BY <1>1 DEF IInv, TypeOK, RunShape, ShapeOf, table, plugin, Queued, Owns
<1>4. RowShape' /\ GrantShape' /\ Delivery' /\ BornShape' /\ ClaimedInOrder'
  BY <1>1 DEF IInv, RowShape, GrantShape, Delivery, AtMostOnce, OneText, NothingConfirmedFalsely,
              BornShape, ClaimedInOrder, Present, table, plugin
<1> QED
  BY <1>2, <1>3, <1>4 DEF IInv

LEMMA WriteAuditStep ==
    ASSUME IInv, NEW r \in Runs, WriteAudit(r) \/ LandAudit(r)
    PROVE  IInv'
<1> DEFINE k == Key(r)
           a == AuditOf(r)
<1>1. /\ pc[r] \in {"auditing", "crossing"} /\ k \in Keys
      /\ Put(k, a) \/ audits' = audits
      /\ \E s \in {"recording", "ended", "crossing", "landed"} : pc' = [pc EXCEPT ![r] = s]
      /\ UNCHANGED <<table, plugin, text, seen, label, context>>
  BY RunsAre DEF WriteAudit, LandAudit
<1>2. /\ a \in Audits /\ a.text = message[k] /\ status[k] # "ABSENT"
      /\ a.label \in {"CONSUMED", "FALLBACK_DELIVERED"} => arrived[k] # <<>>
  <2>1. text[r] = message[k] /\ status[k] # "ABSENT" /\ message[k] \in Attempts
    BY <1>1 DEF IInv, RunShape, ShapeOf, Queued, RowShape
  <2>2. AuditId(r) \in Attempts /\ label[r] \in Labels /\ home[r] \in Nat
    BY RunsAre DEF AuditId, IInv, TypeOK
  <2>3. label[r] \in {"CONSUMED", "FALLBACK_DELIVERED"} => arrived[k] # <<>>
    BY DEF IInv, RunShape, ShapeOf
  <2> QED
    BY <2>1, <2>2, <2>3 DEF Audits, AuditOf
<1> HIDE DEF a
<1>3. \A j \in Keys : \A b \in audits'[j] : b \in audits[j] \/ (j = k /\ b = a)
  <2>1. CASE Put(k, a)
    <3>1. audits' = [audits EXCEPT ![k] = {b \in @ : b.by # a.by} \cup {a}]
      BY <2>1 DEF Put
    <3>2. audits'[k] = {b \in audits[k] : b.by # a.by} \cup {a}
      BY <1>1, <3>1 DEF IInv, TypeOK
    <3>3. \A j \in Keys : j # k => audits'[j] = audits[j]
      BY <3>1 DEF IInv, TypeOK
    <3> QED
      BY <3>2, <3>3
  <2>2. CASE audits' = audits
    BY <2>2
  <2> QED
    BY <1>1, <2>1, <2>2
<1>4. TypeOK'
  <2>1. audits' \in [Keys -> SUBSET Audits]
    <3>1. \A j \in Keys : audits'[j] \subseteq Audits
      BY <1>2, <1>3 DEF IInv, TypeOK
    <3>2. audits' = [j \in Keys |-> audits'[j]]
      BY <1>1 DEF IInv, TypeOK, Put
    <3> QED
      BY <3>1, <3>2
  <2> QED
    BY <1>1, <2>1 DEF IInv, TypeOK, context, table, plugin, Stages
<1>5. RunShape'
  BY <1>1 DEF IInv, TypeOK, RunShape, ShapeOf, table, plugin, Queued, Owns
<1>6. RowShape'
  BY <1>1, <1>2, <1>3 DEF IInv, TypeOK, RowShape, table, plugin
<1>7. Delivery'
  BY <1>1, <1>2, <1>3 DEF IInv, Delivery, AtMostOnce, OneText, NothingConfirmedFalsely, table, plugin
<1>8. GrantShape' /\ BornShape' /\ ClaimedInOrder'
  BY <1>1 DEF IInv, GrantShape, BornShape, ClaimedInOrder, Present, table, plugin
<1> QED
  BY <1>4, <1>5, <1>6, <1>7, <1>8 DEF IInv

\* A row that exists already is read, not changed.
LEMMA EnqueueKnownStep ==
    ASSUME IInv, NEW r \in Runs, NEW m \in Modes, Enqueue(r, m), status[Key(r)] # "ABSENT"
    PROVE  IInv'
<1> DEFINE k == Key(r)
<1>1. /\ pc[r] = "searched" /\ k \in Keys
      /\ UNCHANGED <<status, message, born, fallback>>
      /\ text' = [text EXCEPT ![r] = message[k]]
      /\ label' = [label EXCEPT ![r] = UnsentLabel(m, status[k], FALSE)]
      /\ pc' = [pc EXCEPT ![r] = AfterEnqueue(m, status[k], FALSE)]
      /\ UNCHANGED <<token, leaseLeft, consumed, claimsMade, plugin, seen, audits, context>>
  <2>1. (status[k] = "ABSENT") = FALSE
    OBVIOUS
  <2> QED
    BY <2>1, RunsAre DEF Enqueue, DurableText, IInv, TypeOK
<1>2. AfterEnqueue(m, status[k], FALSE) \in {"reserving", "auditing"} /\ message[k] \in Attempts
  BY <1>1 DEF AfterEnqueue, IInv, RowShape
<1>3. /\ UnsentLabel(m, status[k], FALSE) \in Labels
      /\ UnsentLabel(m, status[k], FALSE) \in {"CONSUMED", "FALLBACK_DELIVERED"} => arrived[k] # <<>>
  BY <1>1 DEF UnsentLabel, LabelOf, Labels, IInv, Delivery, NothingConfirmedFalsely
<1>4. TypeOK'
  BY <1>1, <1>2, <1>3 DEF IInv, TypeOK, context, plugin, Stages
<1>5. RunShape'
  BY <1>1, <1>2, <1>3 DEF IInv, TypeOK, RunShape, ShapeOf, plugin, Queued, Owns
<1>6. RowShape' /\ GrantShape' /\ Delivery' /\ BornShape' /\ ClaimedInOrder'
  BY <1>1 DEF IInv, RowShape, GrantShape, Delivery, AtMostOnce, OneText, NothingConfirmedFalsely,
              BornShape, ClaimedInOrder, Present, plugin
<1> QED
  BY <1>4, <1>5, <1>6 DEF IInv

LEMMA EnqueueNewStep ==
    ASSUME IsFiniteSet(Keys), IInv, NEW r \in Runs, NEW m \in Modes, Enqueue(r, m),
           status[Key(r)] = "ABSENT"
    PROVE  IInv'
<1> DEFINE k == Key(r)
           n == Cardinality(Present) + 1
<1>1. /\ pc[r] = "searched" /\ k \in Keys /\ m \in AllModes
      /\ status' = [status EXCEPT ![k] = Initial(m)]
      /\ message' = [message EXCEPT ![k] = text[r]]
      /\ born' = [born EXCEPT ![k] = n]
      /\ fallback' = [fallback EXCEPT ![k] = IF m = "prompt_async" THEN Number(r) ELSE @]
      /\ text' = [text EXCEPT ![r] = text[r]]
      /\ label' = [label EXCEPT ![r] = UnsentLabel(m, Initial(m), TRUE)]
      /\ pc' = [pc EXCEPT ![r] = AfterEnqueue(m, Initial(m), TRUE)]
      /\ UNCHANGED <<token, leaseLeft, consumed, claimsMade, plugin, seen, audits, context>>
  <2>1. (status[k] = "ABSENT") = TRUE
    OBVIOUS
  <2> QED
    BY <2>1, RunsAre, InterventionsAssumption DEF Enqueue, DurableText, Present
<1>2. /\ text[r] \in Attempts /\ arrived[k] = <<>> /\ claimsMade[k] = 0 /\ audits[k] = {}
      /\ fallback[k] = None
  BY <1>1 DEF IInv, RunShape, ShapeOf, RowShape
<1>3. \/ m = "prompt_async" /\ Initial(m) = "FALLBACK_SENDING"
         /\ AfterEnqueue(m, Initial(m), TRUE) = "sending"
      \/ m = "system_transform" /\ Initial(m) = "PENDING"
         /\ AfterEnqueue(m, Initial(m), TRUE) = "auditing"
  BY <1>1 DEF AfterEnqueue, Initial, AllModes
<1>4. UnsentLabel(m, Initial(m), TRUE) = "PENDING"
  BY <1>3 DEF UnsentLabel, LabelOf, Labels
<1>5. text' = text /\ Number(r) \in Attempts
  BY <1>1, RunsAre DEF IInv, TypeOK
<1>6. n \in Nat /\ Present' = Present \cup {k} /\ Cardinality(Present') = n
  <2>1. Present' = Present \cup {k} /\ k \notin Present
    BY <1>1, <1>3 DEF Present, IInv, TypeOK
  <2>2. IsFiniteSet(Present)
    BY FS_Subset DEF Present
  <2> QED
    BY <2>1, <2>2, FS_AddElement, FS_CardinalityType
<1> HIDE DEF n
<1>7. TypeOK'
  BY <1>1, <1>2, <1>3, <1>4, <1>5, <1>6 DEF IInv, TypeOK, context, plugin, Stages, Statuses, Labels
<1>8. \A q \in Runs : q # r /\ Key(q) = k => pc[q] \notin Queued
  BY <1>1 DEF IInv, RunShape, ShapeOf
<1>9. RunShape'
  <2>1. ASSUME NEW q \in Runs, q # r, Key(q) = k
        PROVE  pc'[q] = pc[q] /\ pc[q] \notin Queued /\ label'[q] = label[q]
    BY <1>1, <1>8, <2>1 DEF IInv, TypeOK
  <2>2. ASSUME NEW q \in Runs, Key(q) # k
        PROVE  /\ pc'[q] = pc[q] /\ label'[q] = label[q] /\ message'[Key(q)] = message[Key(q)]
               /\ status'[Key(q)] = status[Key(q)] /\ (Owns(q) => Owns(q)')
    BY <1>1, <2>2, RunsAre DEF IInv, TypeOK, Owns
  <2>3. /\ pc'[r] \in {"sending", "auditing"} /\ label'[r] = "PENDING"
        /\ message'[k] = text[r] /\ status'[k] # "ABSENT"
        /\ pc'[r] = "sending" => Owns(r)'
    BY <1>1, <1>3, <1>4 DEF IInv, TypeOK, Owns
  <2>4. arrived' = arrived /\ \A q \in Runs : ShapeOf(q)
    BY <1>1 DEF IInv, RunShape, ShapeOf, plugin
  <2>5. ASSUME NEW q \in Runs, q # r, Key(q) = k PROVE ShapeOf(q)'
    BY <1>5, <2>1, <2>4, <2>5 DEF Queued, ShapeOf
  <2>6. ASSUME NEW q \in Runs, Key(q) # k PROVE ShapeOf(q)'
    BY <1>5, <2>2, <2>4, <2>6 DEF ShapeOf
  <2>7. ShapeOf(r)'
    BY <1>2, <1>5, <2>3, <2>4 DEF ShapeOf, Queued
  <2> QED
    BY <2>5, <2>6, <2>7 DEF RunShape, ShapeOf
<1>10. RowShape'
  <2>1. \A j \in Keys : j # k => /\ message'[j] = message[j] /\ status'[j] = status[j]
                                 /\ fallback'[j] = fallback[j]
    BY <1>1 DEF IInv, TypeOK
  <2>2. /\ status'[k] \in {"PENDING", "FALLBACK_SENDING"} /\ message'[k] = text[r]
        /\ status'[k] = "PENDING" => fallback'[k] = None
    BY <1>1, <1>2, <1>3 DEF IInv, TypeOK
  <2> QED
    BY <1>1, <1>2, <2>1, <2>2 DEF IInv, RowShape, plugin
<1>11. Delivery'
  <2>1. \A j \in Keys : j # k => message'[j] = message[j] /\ status'[j] = status[j]
    BY <1>1 DEF IInv, TypeOK
  <2>2. status'[k] \in {"PENDING", "FALLBACK_SENDING"}
    BY <1>1, <1>3 DEF IInv, TypeOK
  <2> QED
    BY <1>1, <1>2, <2>1, <2>2 DEF IInv, Delivery, AtMostOnce, OneText, NothingConfirmedFalsely, plugin
<1>12. GrantShape'
  BY <1>1 DEF IInv, GrantShape, plugin
<1>13. \A j \in Present : j # k /\ born'[j] = born[j] /\ born[j] < n /\ born[j] \in Nat
  <2>1. \A j \in Present : j # k /\ j \in Keys
    BY DEF Present
  <2>2. Cardinality(Present) \in Nat
    BY FS_Subset, FS_CardinalityType DEF Present
  <2> QED
    BY <1>1, <2>1, <2>2 DEF IInv, TypeOK, BornShape, n
<1>14. born'[k] = n
  BY <1>1 DEF IInv, TypeOK
<1>15. BornShape'
  BY <1>6, <1>13, <1>14 DEF IInv, BornShape
<1>16. ClaimedInOrder'
  <2>1. ASSUME NEW i \in Keys, NEW j \in Keys, Session[i] = Session[j], status'[i] = "PENDING",
               claimsMade[j] > 0
        PROVE  born'[j] < born'[i]
    <3>1. j # k /\ j \in Present
      BY <1>2, <2>1 DEF Present, IInv, RowShape
    <3>2. CASE i = k
      BY <1>13, <1>14, <3>1, <3>2
    <3>3. CASE i # k
      <4>1. status[i] = "PENDING" /\ i \in Present
        BY <1>1, <2>1, <3>3 DEF IInv, TypeOK, Present
      <4> QED
        BY <1>13, <2>1, <3>1, <4>1 DEF IInv, ClaimedInOrder
    <3> QED
      BY <3>2, <3>3
  <2> QED
    BY <1>1, <2>1 DEF ClaimedInOrder
<1> QED
  BY <1>7, <1>9, <1>10, <1>11, <1>12, <1>15, <1>16 DEF IInv

LEMMA ReserveStep ==
    ASSUME IInv, NEW r \in Runs, Reserve(r)
    PROVE  IInv'
<1> DEFINE k == Key(r)
<1>1. CASE /\ pc' = [pc EXCEPT ![r] = "auditing"] /\ pc[r] = "reserving"
           /\ UNCHANGED <<table, plugin, text, seen, label, audits, context>>
  <2>1. TypeOK'
    BY <1>1 DEF IInv, TypeOK, context, table, plugin, Stages
  <2>2. RunShape'
    BY <1>1 DEF IInv, TypeOK, RunShape, ShapeOf, table, plugin, Queued, Owns
  <2>3. RowShape' /\ GrantShape' /\ Delivery' /\ BornShape' /\ ClaimedInOrder'
    BY <1>1 DEF IInv, RowShape, GrantShape, Delivery, AtMostOnce, OneText,
                NothingConfirmedFalsely, BornShape, ClaimedInOrder, Present, table, plugin
  <2> QED
    BY <2>1, <2>2, <2>3 DEF IInv
<1>2. CASE /\ Reservable(k) /\ pc[r] = "reserving"
           /\ status' = [status EXCEPT ![k] = "FALLBACK_SENDING"]
           /\ token' = [token EXCEPT ![k] = None]
           /\ leaseLeft' = [leaseLeft EXCEPT ![k] = 0]
           /\ fallback' = [fallback EXCEPT ![k] = Number(r)]
           /\ pc' = [pc EXCEPT ![r] = "sending"]
           /\ UNCHANGED <<born, message, consumed, claimsMade, plugin, text, seen, label, audits, context>>
  <2>1. /\ k \in Keys /\ Number(r) \in Attempts /\ status[k] = "PENDING"
        /\ arrived[k] = <<>> /\ claimsMade[k] = 0
    BY <1>2, RunsAre DEF Reservable, IInv, RowShape
  <2>2. TypeOK'
    <3>1. /\ status' \in [Keys -> Statuses \cup {"ABSENT"}] /\ token' \in [Keys -> Nat]
          /\ leaseLeft' \in [Keys -> 0..ClaimTicks]
          /\ fallback' \in [Keys -> Attempts \cup {None}] /\ pc' \in [Runs -> Stages]
      BY <1>2, <2>1, InterventionsAssumption DEF IInv, TypeOK, Stages, Statuses, None
    <3> QED
      BY <1>2, <3>1 DEF IInv, TypeOK, context, plugin
  <2>3. /\ status'[k] = "FALLBACK_SENDING" /\ fallback'[k] = Number(r)
        /\ \A j \in Keys : j # k => status'[j] = status[j] /\ fallback'[j] = fallback[j]
    BY <1>2, <2>1 DEF IInv, TypeOK
  <2>4. RunShape'
    <3>1. ASSUME NEW q \in Runs, q # r, Key(q) = k PROVE ShapeOf(q)'
      BY <1>2, <2>1, <2>3, <3>1 DEF IInv, TypeOK, RunShape, ShapeOf, plugin, Queued, Owns
    <3>2. ASSUME NEW q \in Runs, Key(q) # k PROVE ShapeOf(q)'
      <4>1. Key(q) \in Keys /\ pc'[q] = pc[q]
        BY <1>2, <3>2, RunsAre DEF IInv, TypeOK
      <4>2. Owns(q) => Owns(q)'
        BY <2>3, <3>2, <4>1 DEF Owns
      <4> QED
        BY <1>2, <2>3, <3>2, <4>1, <4>2 DEF IInv, RunShape, ShapeOf, plugin
    <3>3. ShapeOf(r)'
      BY <1>2, <2>1, <2>3 DEF IInv, TypeOK, RunShape, ShapeOf, plugin, Queued, Owns
    <3> QED
      BY <3>1, <3>2, <3>3 DEF RunShape
  <2>5. RowShape' /\ Delivery'
    BY <1>2, <2>1, <2>3 DEF IInv, RowShape, Delivery, AtMostOnce, OneText,
                            NothingConfirmedFalsely, plugin
  <2>6. GrantShape' /\ BornShape' /\ ClaimedInOrder'
    <3>1. Present' = Present
      BY <2>1, <2>3 DEF Present
    <3> QED
      BY <1>2, <2>3, <3>1 DEF IInv, GrantShape, BornShape, ClaimedInOrder, plugin
  <2> QED
    BY <2>2, <2>4, <2>5, <2>6 DEF IInv
<1> QED
  BY <1>1, <1>2 DEF Reserve, table

\* What arrives is the first thing that arrives, with the text of the row.
LEMMA SendStep ==
    ASSUME IInv, NEW r \in Runs, Send(r)
    PROVE  IInv'
<1> DEFINE k == Key(r)
           x == [via |-> "prompt_async", text |-> text[r]]
<1>1. /\ k \in Keys /\ arrived[k] = <<>> /\ text[r] = message[k] /\ text[r] \in Attempts
      /\ Owns(r) /\ pc[r] = "sending" /\ claimsMade[k] = 0 /\ status[k] = "FALLBACK_SENDING"
      /\ \A g \in acks : g[1] # k
  <2>1. /\ arrived[k] = <<>> /\ text[r] = message[k] /\ Owns(r) /\ pc[r] = "sending"
        /\ k \in Keys /\ Number(r) \in Attempts
    BY RunsAre DEF Send, IInv, RunShape, ShapeOf, Queued
  <2>2. status[k] = "FALLBACK_SENDING" /\ fallback[k] # None
    BY <2>1 DEF Owns, None, Attempts
  <2>3. claimsMade[k] = 0 /\ message[k] \in Attempts
    BY <2>1, <2>2 DEF IInv, RowShape, TypeOK
  <2> QED
    BY <2>1, <2>2, <2>3 DEF IInv, GrantShape
<1>2. /\ UNCHANGED <<table, granted, acks, text, seen, label, audits, context>>
      /\ \/ /\ arrived' = [arrived EXCEPT ![k] = Append(<<>>, x)]
            /\ \E s \in {"sent", "refused"} : pc' = [pc EXCEPT ![r] = s]
         \/ UNCHANGED arrived /\ pc' = [pc EXCEPT ![r] = "refused"]
  BY <1>1 DEF Send, Arrive
<1> HIDE DEF x
<1>3. x \in Arrivals /\ x.via = "prompt_async" /\ x.text = message[k]
  BY <1>1 DEF x, Arrivals, AllModes
<1>4. Append(<<>>, x) \in Seq(Arrivals)
  BY <1>3
<1>5. /\ arrived'[k] = arrived[k] \/ arrived'[k] = Append(<<>>, x)
      /\ \A j \in Keys : j # k => arrived'[j] = arrived[j]
      /\ arrived' \in [Keys -> Seq(Arrivals)]
      /\ pc'[r] \in {"sent", "refused"} /\ (pc'[r] = "sent" => arrived'[k] = Append(<<>>, x))
      /\ \A q \in Runs : q # r => pc'[q] = pc[q]
  BY <1>1, <1>2, <1>4 DEF IInv, TypeOK
<1>6. TypeOK'
  BY <1>2, <1>5 DEF IInv, TypeOK, context, table, Stages
<1>7. \A q \in Runs : q # r /\ Key(q) = k => pc[q] \notin {"sending", "sent", "refused"}
  <2>1. ASSUME NEW q \in Runs, q # r, Key(q) = k, Owns(q) PROVE FALSE
    BY <1>1, <2>1, RunsAre DEF Owns
  <2> QED
    BY <2>1 DEF IInv, RunShape, ShapeOf
<1>8. RunShape'
  <2>1. ASSUME NEW q \in Runs, q # r, Key(q) = k PROVE ShapeOf(q)'
    <3>1. pc'[q] = pc[q] /\ pc[q] \notin {"sending", "sent", "refused"}
      BY <1>5, <1>7, <2>1
    <3> QED
      BY <1>1, <1>2, <2>1, <3>1 DEF IInv, RunShape, ShapeOf, Queued, table
  <2>2. ASSUME NEW q \in Runs, Key(q) # k PROVE ShapeOf(q)'
    <3>1. arrived'[Key(q)] = arrived[Key(q)] /\ pc'[q] = pc[q]
      BY <1>5, <2>2, RunsAre
    <3> QED
      BY <1>2, <3>1 DEF IInv, RunShape, ShapeOf, Queued, table, Owns
  <2>3. ShapeOf(r)'
    BY <1>1, <1>2, <1>3, <1>5, FirstArrival DEF IInv, RunShape, ShapeOf, Queued, table, Owns
  <2> QED
    BY <2>1, <2>2, <2>3 DEF RunShape
<1>9. RowShape'
  BY <1>1, <1>2, <1>5 DEF IInv, RowShape, table
<1>10. GrantShape'
  <2>1. \A g \in granted \cup acks : g[1] # k /\ g[1] \in Keys
    BY <1>1 DEF IInv, GrantShape, TypeOK
  <2> QED
    BY <1>2, <1>5, <2>1 DEF IInv, GrantShape, table
<1>11. Delivery'
  <2> DEFINE q == arrived'[k]
  <2>1. q = <<>> \/ (Len(q) = 1 /\ DOMAIN q = 1..1 /\ q[1] = x)
    <3>1. CASE q = Append(<<>>, x)
      BY <3>1, FirstArrival
    <3> QED
      BY <1>1, <1>5, <3>1
  <2>2. AtMostOnce'
    <3>1. \A n : n = 0 \/ n = 1 => n <= 1
      OBVIOUS
    <3>2. ASSUME NEW j \in Keys, j # k PROVE Len(arrived'[j]) <= 1
      BY <1>5, <3>2 DEF IInv, Delivery, AtMostOnce
    <3>3. Len(arrived'[k]) <= 1
      <4>1. CASE q = <<>>
        BY <4>1
      <4>2. CASE Len(q) = 1
        BY <3>1, <4>2
      <4> QED
        BY <2>1, <4>1, <4>2
    <3> QED
      BY <3>2, <3>3 DEF AtMostOnce
  <2>3. OneText'
    BY <1>2, <1>3, <1>5, <2>1 DEF IInv, Delivery, OneText, table
  <2>4. NothingConfirmedFalsely'
    <3>1. q # arrived[k] => q # <<>>
      BY <1>1
    <3>2. ASSUME NEW j \in Keys, j # k
          PROVE  arrived'[j] = arrived[j]
      BY <1>5, <3>2
    <3>3. status'[k] = "FALLBACK_SENDING" /\ audits' = audits /\ status' = status
      BY <1>1, <1>2 DEF table
    <3>4. ASSUME \E b \in audits[k] : b.label \in {"CONSUMED", "FALLBACK_DELIVERED"} PROVE FALSE
      BY <1>1, <3>4 DEF IInv, Delivery, NothingConfirmedFalsely
    <3> QED
      BY <3>2, <3>3, <3>4 DEF IInv, Delivery, NothingConfirmedFalsely
  <2> QED
    BY <2>2, <2>3, <2>4 DEF Delivery
<1>12. BornShape' /\ ClaimedInOrder'
  BY <1>2 DEF IInv, BornShape, ClaimedInOrder, Present, table
<1> QED
  BY <1>6, <1>8, <1>9, <1>10, <1>11, <1>12 DEF IInv

LEMMA MarkStep ==
    ASSUME IInv, NEW r \in Runs, Mark(r)
    PROVE  IInv'
<1> DEFINE k == Key(r)
<1>1. /\ k \in Keys /\ pc[r] \in {"sent", "refused"} /\ Owns(r)
      /\ status[k] = "FALLBACK_SENDING" /\ text[r] = message[k]
      /\ pc[r] = "sent" => \E i \in DOMAIN arrived[k] : arrived[k][i].via = "prompt_async"
  BY RunsAre DEF Mark, IInv, RunShape, ShapeOf, Queued, Owns
<1>2. /\ status' = [status EXCEPT ![k] = Outcome(r)]
      /\ token' = [token EXCEPT ![k] = None]
      /\ label' = [label EXCEPT ![r] = Outcome(r)]
      /\ pc' = [pc EXCEPT ![r] = "auditing"]
      /\ UNCHANGED <<born, message, leaseLeft, consumed, fallback, claimsMade, plugin, text,
                     seen, audits, context>>
  BY <1>1 DEF Mark
<1>3. \/ Outcome(r) = "FALLBACK_DELIVERED" /\ pc[r] = "sent"
      \/ Outcome(r) = "DELIVERY_UNKNOWN"
  BY DEF Outcome
<1>4. TypeOK'
  BY <1>2, <1>3 DEF IInv, TypeOK, context, plugin, Stages, Statuses, Labels, None
<1>5. /\ status'[k] = Outcome(r)
      /\ \A j \in Keys : j # k => status'[j] = status[j]
      /\ pc'[r] = "auditing" /\ label'[r] = Outcome(r)
      /\ \A q \in Runs : q # r => pc'[q] = pc[q] /\ label'[q] = label[q]
  BY <1>1, <1>2 DEF IInv, TypeOK
<1>6. RunShape'
  <2>1. ASSUME NEW q \in Runs, q # r, Key(q) = k PROVE ShapeOf(q)'
    <3>1. ~Owns(q)
      BY <1>1, <2>1, RunsAre DEF Owns
    <3> QED
      BY <1>2, <1>3, <1>5, <2>1, <3>1 DEF IInv, RunShape, ShapeOf, Queued, plugin
  <2>2. ASSUME NEW q \in Runs, Key(q) # k PROVE ShapeOf(q)'
    <3>1. Key(q) \in Keys /\ q # r
      BY <2>2, RunsAre
    <3>2. status'[Key(q)] = status[Key(q)] /\ (Owns(q) => Owns(q)')
      BY <1>2, <1>5, <2>2, <3>1 DEF Owns
    <3> QED
      BY <1>2, <1>5, <3>1, <3>2 DEF IInv, RunShape, ShapeOf, plugin
  <2>3. ShapeOf(r)'
    BY <1>1, <1>2, <1>3, <1>5 DEF ShapeOf, Queued, plugin
  <2> QED
    BY <2>1, <2>2, <2>3 DEF RunShape
<1>7. RowShape' /\ Delivery'
  BY <1>1, <1>2, <1>3, <1>5 DEF IInv, RowShape, Delivery, AtMostOnce, OneText,
                                NothingConfirmedFalsely, plugin
<1>8. GrantShape' /\ BornShape' /\ ClaimedInOrder'
  <2>1. Present' = Present
    BY <1>1, <1>3, <1>5 DEF Present
  <2> QED
    BY <1>2, <1>3, <1>5, <2>1 DEF IInv, GrantShape, BornShape, ClaimedInOrder, plugin
<1> QED
  BY <1>4, <1>6, <1>7, <1>8 DEF IInv

\* claim: expired claims of the session become unknown; the oldest pending row,
\* if there is one, is claimed for the first time.
LEMMA ClaimStep ==
    ASSUME IInv, NEW s \in Sessions, Claim(s)
    PROVE  IInv'
<1> DEFINE reaped == [k \in Keys |-> IF k \in LapsedOf(s) THEN "DELIVERY_UNKNOWN" ELSE status[k]]
<1>1. UNCHANGED <<born, message, consumed, fallback, acks, arrived, runs>>
  BY DEF Claim
<1>2. \A k \in LapsedOf(s) : k \in Keys /\ status[k] = "CLAIMED"
  BY DEF LapsedOf
<1>3. PICK H \in SUBSET Oldest(s) :
        /\ \A h, j \in H : h = j
        /\ status' = [k \in Keys |-> IF k \in H THEN "CLAIMED" ELSE reaped[k]]
        /\ claimsMade' = [k \in Keys |-> IF k \in H THEN claimsMade[k] + 1 ELSE claimsMade[k]]
        /\ token' = [k \in Keys |-> IF k \in H THEN claimsMade[k] + 1
                                    ELSE IF k \in LapsedOf(s) THEN None ELSE token[k]]
        /\ leaseLeft' = [k \in Keys |-> IF k \in H THEN ClaimTicks ELSE leaseLeft[k]]
        /\ granted' = granted \cup {<<h, claimsMade[h] + 1>> : h \in H}
  <2>1. CASE /\ status' = reaped
             /\ token' = [k \in Keys |-> IF k \in LapsedOf(s) THEN None ELSE token[k]]
             /\ UNCHANGED <<leaseLeft, claimsMade, granted>>
    <3>1. /\ claimsMade = [k \in Keys |-> claimsMade[k]] /\ leaseLeft = [k \in Keys |-> leaseLeft[k]]
          /\ {} \in SUBSET Oldest(s)
      BY DEF IInv, TypeOK
    <3>2. {<<h, claimsMade[h] + 1>> : h \in {}} = {}
      OBVIOUS
    <3> QED
      BY <2>1, <3>1, <3>2
  <2>2. ASSUME NEW h \in Oldest(s), status' = [reaped EXCEPT ![h] = "CLAIMED"],
               claimsMade' = [claimsMade EXCEPT ![h] = @ + 1],
               token' = [k \in Keys |-> IF k = h THEN claimsMade[h] + 1
                                        ELSE IF k \in LapsedOf(s) THEN None ELSE token[k]],
               leaseLeft' = [leaseLeft EXCEPT ![h] = ClaimTicks],
               granted' = granted \cup {<<h, claimsMade[h] + 1>>}
        PROVE  /\ status' = [k \in Keys |-> IF k \in {h} THEN "CLAIMED" ELSE reaped[k]]
               /\ claimsMade' = [k \in Keys |-> IF k \in {h} THEN claimsMade[k] + 1 ELSE claimsMade[k]]
               /\ leaseLeft' = [k \in Keys |-> IF k \in {h} THEN ClaimTicks ELSE leaseLeft[k]]
               /\ token' = [k \in Keys |-> IF k \in {h} THEN claimsMade[k] + 1
                                           ELSE IF k \in LapsedOf(s) THEN None ELSE token[k]]
               /\ granted' = granted \cup {<<j, claimsMade[j] + 1>> : j \in {h}}
    BY <2>2 DEF IInv, TypeOK
  <2>3. CASE \E h \in Oldest(s) :
               /\ status' = [reaped EXCEPT ![h] = "CLAIMED"]
               /\ claimsMade' = [claimsMade EXCEPT ![h] = @ + 1]
               /\ token' = [k \in Keys |-> IF k = h THEN claimsMade[h] + 1
                                           ELSE IF k \in LapsedOf(s) THEN None ELSE token[k]]
               /\ leaseLeft' = [leaseLeft EXCEPT ![h] = ClaimTicks]
               /\ granted' = granted \cup {<<h, claimsMade[h] + 1>>}
    <3>1. PICK h \in Oldest(s) :
               /\ status' = [reaped EXCEPT ![h] = "CLAIMED"]
               /\ claimsMade' = [claimsMade EXCEPT ![h] = @ + 1]
               /\ token' = [k \in Keys |-> IF k = h THEN claimsMade[h] + 1
                                           ELSE IF k \in LapsedOf(s) THEN None ELSE token[k]]
               /\ leaseLeft' = [leaseLeft EXCEPT ![h] = ClaimTicks]
               /\ granted' = granted \cup {<<h, claimsMade[h] + 1>>}
      BY <2>3
    <3> HIDE DEF reaped
    <3>2. {h} \in SUBSET Oldest(s) /\ \A i, j \in {h} : i = j
      OBVIOUS
    <3> QED
      BY <2>2, <3>1, <3>2
  <2> QED
    BY <2>1, <2>3 DEF Claim, LapsedTo
<1>4. \A h \in H : /\ h \in Keys /\ Session[h] = s /\ status[h] = "PENDING" /\ h \notin LapsedOf(s)
                   /\ claimsMade[h] = 0 /\ arrived[h] = <<>> /\ fallback[h] = None
                   /\ \A j \in PendingOf(s) : born[h] <= born[j]
  BY <1>2, <1>3 DEF Oldest, PendingOf, IInv, RowShape
<1>5. \A k \in Keys :
        /\ k \in H => status'[k] = "CLAIMED" /\ claimsMade'[k] = 1
        /\ k \notin H => claimsMade'[k] = claimsMade[k]
        /\ k \in LapsedOf(s) => status'[k] = "DELIVERY_UNKNOWN"
        /\ k \notin H /\ k \notin LapsedOf(s) => status'[k] = status[k]
  BY <1>3, <1>4
<1>6. \A g \in granted' : g \in granted \/ (g[1] \in H /\ g[2] = 1 /\ g = <<g[1], 1>>)
  BY <1>3, <1>4
<1>7. TypeOK'
  <2>1. status' \in [Keys -> Statuses \cup {"ABSENT"}] /\ claimsMade' \in [Keys -> Nat]
    BY <1>3 DEF IInv, TypeOK, Statuses
  <2>2. token' \in [Keys -> Nat] /\ leaseLeft' \in [Keys -> 0..ClaimTicks]
    BY <1>3, InterventionsAssumption DEF IInv, TypeOK, None
  <2>3. granted' \in SUBSET (Keys \X Nat)
    BY <1>4, <1>6 DEF IInv, TypeOK
  <2> QED
    BY <1>1, <2>1, <2>2, <2>3 DEF IInv, TypeOK, context, runs
<1>8. RowShape'
  BY <1>1, <1>2, <1>4, <1>5 DEF IInv, RowShape, runs
<1>9. GrantShape'
  <2>1. \A g \in granted \cup acks : g[1] \in Keys /\ g[1] \notin H
    BY <1>4 DEF IInv, GrantShape, TypeOK
  <2> QED
    BY <1>1, <1>4, <1>5, <1>6, <2>1 DEF IInv, GrantShape
<1>10. RunShape'
  <2>1. ASSUME NEW r \in Runs PROVE Owns(r) => Owns(r)'
    BY <1>1, <1>2, <1>4, <1>5, RunsAre DEF Owns
  <2>2. ASSUME NEW r \in Runs PROVE status[Key(r)] # "ABSENT" => status'[Key(r)] # "ABSENT"
    BY <1>5, RunsAre
  <2> QED
    BY <1>1, <2>1, <2>2 DEF IInv, RunShape, ShapeOf, runs
<1>11. Delivery'
  BY <1>1, <1>5 DEF IInv, Delivery, AtMostOnce, OneText, NothingConfirmedFalsely, runs
<1>12. BornShape'
  <2>1. Present' = Present
    BY <1>2, <1>4, <1>5 DEF Present
  <2> QED
    BY <1>1, <2>1 DEF IInv, BornShape
<1>13. ClaimedInOrder'
  <2>1. ASSUME NEW j \in Keys, NEW k \in Keys, Session[j] = Session[k], status'[j] = "PENDING",
               claimsMade'[k] > 0
        PROVE  born[k] < born[j]
    <3>1. status[j] = "PENDING" /\ j \notin H
      BY <1>5, <2>1
    <3>2. CASE k \notin H
      BY <1>5, <2>1, <3>1, <3>2 DEF IInv, ClaimedInOrder
    <3>3. CASE k \in H
      <4>1. j \in PendingOf(s) /\ born[k] <= born[j] /\ j # k
        BY <1>4, <2>1, <3>1, <3>3 DEF PendingOf
      <4>2. born[j] # born[k]
        BY <1>4, <3>1, <3>3, <4>1 DEF IInv, BornShape, Present
      <4>3. born[j] \in Nat /\ born[k] \in Nat
        BY DEF IInv, TypeOK
      <4> QED
        BY <4>1, <4>2, <4>3
    <3> QED
      BY <3>2, <3>3
  <2> QED
    BY <1>1, <2>1 DEF ClaimedInOrder
<1> QED
  BY <1>7, <1>8, <1>9, <1>10, <1>11, <1>12, <1>13 DEF IInv

LEMMA InjectStep ==
    ASSUME IInv, NEW g \in granted, Inject(g)
    PROVE  IInv'
<1> DEFINE k == g[1]
           x == [via |-> "system_transform", text |-> message[k]]
<1>1. /\ k \in Keys /\ g \in Keys \X Nat /\ claimsMade[k] = 1 /\ g = <<k, 1>> /\ arrived[k] = <<>>
      /\ fallback[k] = None /\ status[k] # "ABSENT" /\ message[k] \in Attempts
  BY DEF IInv, TypeOK, GrantShape, RowShape
<1>2. /\ granted' = granted \ {g} /\ acks' = acks \cup {g} /\ UNCHANGED <<table, runs>>
      /\ arrived' = [arrived EXCEPT ![k] = Append(<<>>, x)]
  BY <1>1 DEF Inject, Arrive
<1> HIDE DEF x
<1>3. x \in Arrivals /\ x.via = "system_transform" /\ x.text = message[k]
  BY <1>1 DEF x, Arrivals, AllModes
<1>4. /\ arrived'[k] = Append(<<>>, x) /\ arrived' \in [Keys -> Seq(Arrivals)]
      /\ \A j \in Keys : j # k => arrived'[j] = arrived[j]
  <2>1. Append(<<>>, x) \in Seq(Arrivals)
    BY <1>3
  <2> QED
    BY <1>1, <1>2, <2>1 DEF IInv, TypeOK
<1>5. /\ arrived'[k] # <<>> /\ Len(arrived'[k]) = 1 /\ DOMAIN (arrived'[k]) = 1..1
      /\ arrived'[k][1] = x
  BY <1>4, FirstArrival
<1>6. TypeOK'
  BY <1>1, <1>2, <1>4 DEF IInv, TypeOK, context, table, runs
<1>7. RowShape'
  <2>1. status[k] \notin {"ABSENT", "PENDING"}
    BY <1>1 DEF IInv, RowShape
  <2> QED
    BY <1>2, <1>4, <2>1 DEF IInv, RowShape, table, runs
<1>8. GrantShape'
  <2>1. ASSUME NEW h \in granted' PROVE h[1] # k /\ h[1] \in Keys
    <3>1. h \in granted /\ h # g /\ h \in Keys \X Nat /\ h[2] = 1
      BY <1>2 DEF IInv, GrantShape, TypeOK
    <3>2. h = <<h[1], 1>>
      BY <3>1
    <3> QED
      BY <1>1, <3>1, <3>2
  <2>2. \E i \in DOMAIN (arrived'[k]) : arrived'[k][i].via = "system_transform"
    BY <1>3, <1>5
  <2>3. \A h \in acks' : h \in acks \/ h = g
    BY <1>2
  <2>4. \A h \in acks' : h[1] = k \/ (h \in acks /\ arrived'[h[1]] = arrived[h[1]])
    BY <1>4, <2>3 DEF IInv, TypeOK
  <2>5. \A h \in granted' \cup acks' : h \in granted \cup acks
    BY <1>2
  <2>6. \A h \in acks' : \E i \in DOMAIN (arrived'[h[1]]) : arrived'[h[1]][i].via = "system_transform"
    BY <2>2, <2>4 DEF IInv, GrantShape
  <2> QED
    BY <1>2, <1>4, <2>1, <2>5, <2>6 DEF IInv, GrantShape, table
<1>9. RunShape'
  <2>1. ASSUME NEW r \in Runs, Key(r) = k PROVE ShapeOf(r)'
    <3>1. pc[r] \notin {"sending", "sent", "refused"}
      BY <1>1, <2>1, RunsAre DEF IInv, RunShape, ShapeOf, Owns, None, Attempts
    <3> QED
      BY <1>2, <1>5, <2>1, <3>1 DEF IInv, RunShape, ShapeOf, table, runs
  <2>2. ASSUME NEW r \in Runs, Key(r) # k PROVE ShapeOf(r)'
    <3>1. arrived'[Key(r)] = arrived[Key(r)]
      BY <1>4, <2>2, RunsAre
    <3> QED
      BY <1>2, <3>1 DEF IInv, RunShape, ShapeOf, Owns, table, runs
  <2> QED
    BY <2>1, <2>2 DEF RunShape
<1>10. Delivery'
  <2>1. AtMostOnce'
    BY <1>4, <1>5 DEF IInv, Delivery, AtMostOnce
  <2>2. OneText'
    BY <1>2, <1>3, <1>4, <1>5 DEF IInv, Delivery, OneText, table, runs
  <2>3. NothingConfirmedFalsely'
    <3>1. status[k] # "FALLBACK_DELIVERED" /\ status[k] # "CONSUMED"
      BY <1>1 DEF IInv, Delivery, NothingConfirmedFalsely
    <3> QED
      BY <1>2, <1>4, <1>5, <3>1 DEF IInv, Delivery, NothingConfirmedFalsely, table, runs
  <2> QED
    BY <2>1, <2>2, <2>3 DEF Delivery
<1>11. BornShape' /\ ClaimedInOrder'
  BY <1>2 DEF IInv, BornShape, ClaimedInOrder, Present, table
<1> QED
  BY <1>6, <1>7, <1>8, <1>9, <1>10, <1>11 DEF IInv

LEMMA ConsumeStep ==
    ASSUME IInv, NEW g \in acks, Consume(g)
    PROVE  IInv'
<1> DEFINE k == g[1]
<1>1. /\ k \in Keys /\ status[k] = "CLAIMED" /\ fallback[k] = None /\ claimsMade[k] = 1
      /\ \E i \in DOMAIN arrived[k] : arrived[k][i].via = "system_transform"
  <2>1. k \in Keys /\ claimsMade[k] = 1
    BY DEF IInv, TypeOK, GrantShape
  <2>2. fallback[k] = None
    BY <2>1 DEF IInv, RowShape
  <2>3. \E i \in DOMAIN arrived[k] : arrived[k][i].via = "system_transform"
    BY DEF IInv, GrantShape
  <2> QED
    BY <2>1, <2>2, <2>3 DEF Consume, Consumable
<1>2. /\ status' = [status EXCEPT ![k] = "CONSUMED"]
      /\ consumed' = [consumed EXCEPT ![k] = token[k]]
      /\ token' = [token EXCEPT ![k] = None]
      /\ leaseLeft' = [leaseLeft EXCEPT ![k] = 0]
      /\ UNCHANGED <<born, message, fallback, claimsMade, plugin, runs>>
  BY DEF Consume
<1>3. /\ status'[k] = "CONSUMED" /\ \A j \in Keys : j # k => status'[j] = status[j]
  BY <1>1, <1>2 DEF IInv, TypeOK
<1>4. TypeOK'
  <2>1. /\ status' \in [Keys -> Statuses \cup {"ABSENT"}] /\ token' \in [Keys -> Nat]
        /\ leaseLeft' \in [Keys -> 0..ClaimTicks] /\ consumed' \in [Keys -> Nat]
    BY <1>1, <1>2, InterventionsAssumption DEF IInv, TypeOK, Statuses, None
  <2> QED
    BY <1>2, <2>1 DEF IInv, TypeOK, context, plugin, runs
<1>5. RowShape' /\ Delivery'
  BY <1>1, <1>2, <1>3 DEF IInv, RowShape, Delivery, AtMostOnce, OneText, NothingConfirmedFalsely,
                         plugin, runs
<1>6. RunShape'
  <2>1. ASSUME NEW r \in Runs PROVE Owns(r) => Owns(r)'
    BY <1>1, <1>2, <1>3, RunsAre DEF Owns
  <2>2. ASSUME NEW r \in Runs PROVE status[Key(r)] # "ABSENT" => status'[Key(r)] # "ABSENT"
    BY <1>3, RunsAre
  <2> QED
    BY <1>2, <2>1, <2>2 DEF IInv, RunShape, ShapeOf, plugin, runs
<1>7. GrantShape' /\ BornShape' /\ ClaimedInOrder'
  <2>1. Present' = Present
    BY <1>1, <1>3 DEF Present
  <2> QED
    BY <1>2, <1>3, <2>1 DEF IInv, GrantShape, BornShape, ClaimedInOrder, plugin
<1> QED
  BY <1>4, <1>5, <1>6, <1>7 DEF IInv

\* Steps that only lose a grant or let time pass.
LEMMA QuietStep ==
    ASSUME IInv,
           \/ UNCHANGED vars
           \/ Tick
           \/ \E g \in granted : LoseGrant(g)
    PROVE  IInv'
<1>1. /\ granted' \subseteq granted /\ leaseLeft' \in [Keys -> 0..ClaimTicks]
      /\ UNCHANGED <<status, born, message, token, consumed, fallback, claimsMade, acks, arrived, runs>>
  <2>1. CASE Tick
    <3>1. \A k \in Keys : leaseLeft[k] \in 0..ClaimTicks
      BY DEF IInv, TypeOK
    <3> QED
      BY <2>1, <3>1, InterventionsAssumption DEF Tick, plugin
  <2> QED
    BY <2>1 DEF LoseGrant, vars, table, plugin, IInv, TypeOK
<1>2. TypeOK'
  BY <1>1 DEF IInv, TypeOK, context, runs
<1>3. RunShape'
  BY <1>1 DEF IInv, RunShape, ShapeOf, Owns, runs
<1>4. RowShape' /\ GrantShape' /\ Delivery' /\ BornShape' /\ ClaimedInOrder'
  BY <1>1 DEF IInv, RowShape, GrantShape, Delivery, AtMostOnce, OneText, NothingConfirmedFalsely,
              BornShape, ClaimedInOrder, Present, runs
<1> QED
  BY <1>2, <1>3, <1>4 DEF IInv

\* The table, the plugin and the runs do not see a process start.
LEMMA StartProcessStep ==
    ASSUME IInv, NEW s \in Sessions, StartProcess(s)
    PROVE  IInv'
<1>1. /\ process' = [process EXCEPT ![s] = @ + 1]
      /\ UNCHANGED <<table, plugin, pc, text, seen, label, audits, home>>
  BY DEF StartProcess
<1>2. TypeOK'
  <2>1. process' \in [Sessions -> Nat]
    BY <1>1 DEF IInv, TypeOK
  <2> QED
    BY <1>1, <2>1 DEF IInv, TypeOK, table, plugin
<1>3. RunShape'
  BY <1>1 DEF IInv, RunShape, ShapeOf, Owns, table, plugin
<1>4. RowShape' /\ GrantShape' /\ Delivery' /\ BornShape' /\ ClaimedInOrder'
  BY <1>1 DEF IInv, RowShape, GrantShape, Delivery, AtMostOnce, OneText, NothingConfirmedFalsely,
              BornShape, ClaimedInOrder, Present, table, plugin
<1> QED
  BY <1>2, <1>3, <1>4 DEF IInv

LEMMA Invariance == ASSUME IsFiniteSet(Keys) PROVE Spec => []IInv
<1>1. ASSUME IInv, [Next]_vars PROVE IInv'
  BY <1>1, SearchStep, EndStep, WriteAuditStep, EnqueueKnownStep, EnqueueNewStep, ReserveStep,
     SendStep, MarkStep, ClaimStep, InjectStep, ConsumeStep, QuietStep,
     StartProcessStep
     DEF Next, Run, Hook
<1> QED
  BY <1>1, InitIInv, PTL DEF Spec

-----------------------------------------------------------------------------
(* The audits of a cycle whose attempts do not overlap. *)

\* From the search to the write of its audit a run knows the audit of its home process, but for
\* those that come late: no other run of the cycle comes in between.  A call that was given up
\* still finds the audit it is to update.
Unaudited == {"searched", "reserving", "sending", "sent", "refused", "auditing"}
Written == {"recording", "acked", "ended", "landed"}

Solo == \A q, r \in Runs : Key(q) = Key(r) /\ Active(q) /\ Active(r) => q = r

AuditKnown(r) ==
    /\ pc[r] = "new" => seen[r] = None
    /\ pc[r] \in Unaudited /\ seen[r] = None =>
         \A a \in AuditsIn(Key(r), home[r]) : CreatedLate(Key(r), a.by)
    /\ pc[r] \in Unaudited \cup {"crossing"} /\ seen[r] # None =>
         \E a \in AuditsIn(Key(r), home[r]) : a.by = seen[r]

\* An audit is named by the run that created it, which is beyond its write.
AuditNames ==
    \A k \in Keys : \A a \in audits[k] :
        /\ pc[<<k, a.by>>] \in Written
        /\ \A b \in audits[k] : b.by = a.by => b = a

AuditInv == Solo /\ AuditNames /\ (\A r \in Runs : AuditKnown(r)) /\ OneAudit

LEMMA AuditStarts == Init => AuditInv
BY DEF Init, AuditInv, Solo, AuditNames, Active, AuditKnown, Unaudited, OneAudit

\* A step that writes no audit and starts no run.
LEMMA AuditQuiet ==
    ASSUME IInv, AuditInv, audits' = audits, seen' = seen, home' = home,
           \A q \in Runs : \/ pc'[q] = pc[q]
                           \/ pc[q] \in Unaudited /\ pc'[q] \in Unaudited \cup {"ended"}
                           \/ Active(q) /\ pc'[q] \in {"acked", "ended"}
    PROVE  AuditInv'
<1>1. \A q \in Runs : /\ Active(q)' => Active(q)
                      /\ pc'[q] \in Unaudited => pc[q] \in Unaudited
                      /\ pc'[q] \in {"new", "crossing"} => pc'[q] = pc[q]
                      /\ pc[q] = "landed" => pc'[q] = "landed"
                      /\ pc[q] \in Written => pc'[q] \in Written
  BY DEF Active, Unaudited, Written
<1>2. Solo'
  BY <1>1 DEF AuditInv, Solo
<1>3. \A k \in Keys : \A a \in audits[k] : <<k, a.by>> \in Runs
  BY DEF IInv, TypeOK, Audits, Runs
<1>4. AuditNames'
  BY <1>1, <1>3 DEF AuditInv, AuditNames
<1>5. \A k \in Keys : \A a \in audits[k] : CreatedLate(k, a.by) => CreatedLate(k, a.by)'
  BY <1>1, <1>3 DEF CreatedLate
<1>6. ASSUME NEW q \in Runs PROVE AuditKnown(q)'
  <2>1. AuditKnown(q) /\ Key(q) \in Keys
    BY RunsAre DEF AuditInv
  <2>2. AuditsIn(Key(q), home[q])' = AuditsIn(Key(q), home[q])
    BY DEF AuditsIn
  <2>3. \A a \in AuditsIn(Key(q), home[q]) : a \in audits[Key(q)]
    BY DEF AuditsIn
  <2> QED
    BY <1>1, <1>5, <2>1, <2>2, <2>3 DEF AuditKnown
<1>7. OneAudit'
  BY <1>5 DEF AuditInv, OneAudit
<1> QED
  BY <1>2, <1>4, <1>6, <1>7 DEF AuditInv

LEMMA AuditSearch ==
    ASSUME ~Overlap, IInv, AuditInv, NEW r \in Runs, Search(r)
    PROVE  AuditInv'
<1> DEFINE k == Key(r)
           found == AuditsIn(k, ProcessOf(r))
<1>1. /\ pc[r] = "new" /\ pc' = [pc EXCEPT ![r] = "searched"]
      /\ home' = [home EXCEPT ![r] = ProcessOf(r)]
      /\ audits' = audits
      /\ \/ found = {} /\ seen' = seen
         \/ \E a \in found : seen' = [seen EXCEPT ![r] = a.by]
  BY DEF Search, MayStart
<1>2. \A q \in Runs : Key(q) = Key(r) => ~Active(q)
  BY DEF Search, MayStart
<1>3. \A q \in Runs : q # r => pc'[q] = pc[q] /\ home'[q] = home[q] /\ seen'[q] = seen[q]
  BY <1>1 DEF IInv, TypeOK
<1>4. pc'[r] = "searched" /\ home'[r] = ProcessOf(r)
  BY <1>1 DEF IInv, TypeOK
<1>5. Solo'
  BY <1>2, <1>3 DEF AuditInv, Solo, Active
<1>6. \A j \in Keys : \A a \in audits[j] :
        /\ <<j, a.by>> \in Runs /\ <<j, a.by>> # r
        /\ CreatedLate(j, a.by) => CreatedLate(j, a.by)'
  <2>1. \A j \in Keys : \A a \in audits[j] : <<j, a.by>> \in Runs /\ <<j, a.by>> # r
    <3>1. \A j \in Keys : \A a \in audits[j] : pc[<<j, a.by>>] \in Written
      BY DEF AuditInv, AuditNames
    <3> QED
      BY <1>1, <3>1, AuditsAre DEF Written
  <2> QED
    BY <1>3, <2>1 DEF CreatedLate
<1>7. AuditNames'
  BY <1>1, <1>3, <1>6 DEF AuditInv, AuditNames
<1>8. ASSUME NEW q \in Runs, q # r PROVE AuditKnown(q)'
  <2>1. AuditKnown(q) /\ Key(q) \in Keys
    BY RunsAre DEF AuditInv
  <2>2. AuditsIn(Key(q), home[q])' = AuditsIn(Key(q), home[q])
    BY <1>1, <1>3, <1>8 DEF AuditsIn
  <2>3. \A a \in AuditsIn(Key(q), home[q]) : a \in audits[Key(q)]
    BY DEF AuditsIn
  <2> QED
    BY <1>3, <1>6, <1>8, <2>1, <2>2, <2>3 DEF AuditKnown
<1>9. AuditKnown(r)'
  <2>1. CASE found = {} /\ seen' = seen
    <3>1. seen'[r] = None
      BY <1>1, <2>1 DEF AuditInv, AuditKnown
    <3> QED
      BY <1>1, <1>4, <2>1, <3>1 DEF AuditKnown, AuditsIn
  <2>2. CASE \E a \in found : seen' = [seen EXCEPT ![r] = a.by]
    <3>1. PICK a \in found : seen' = [seen EXCEPT ![r] = a.by]
      BY <2>2
    <3>2. a \in audits[k] /\ a.in = ProcessOf(r) /\ k \in Keys
      BY RunsAre DEF AuditsIn
    <3>3. a.by \in Attempts
      BY <3>2 DEF IInv, TypeOK, Audits
    <3>4. seen'[r] = a.by /\ a.by # None
      BY <3>1, <3>3 DEF IInv, TypeOK, Attempts, None
    <3> QED
      BY <1>1, <1>4, <3>2, <3>4 DEF AuditKnown, AuditsIn
  <2> QED
    BY <1>1, <2>1, <2>2
<1>10. OneAudit'
  BY <1>1, <1>6 DEF AuditInv, OneAudit
<1> QED
  BY <1>5, <1>7, <1>8, <1>9, <1>10 DEF AuditInv

\* Putting an audit in place, by a run in time or by a call that was given up.
LEMMA AuditPut ==
    ASSUME IInv, AuditInv, NEW r \in Runs, Put(Key(r), AuditOf(r)), UNCHANGED <<seen, home>>,
           NEW next \in Written, pc' = [pc EXCEPT ![r] = next],
           \/ pc[r] = "auditing"
           \/ pc[r] = "crossing" /\ next = "landed"
    PROVE  AuditInv'
<1>0. PICK k, n, a : k = Key(r) /\ n = AuditId(r) /\ a = AuditOf(r)
  OBVIOUS
<1>1. /\ k \in Keys /\ n \in Attempts /\ a.by = n /\ a.in = home[r]
      /\ audits' = [audits EXCEPT ![k] = {b \in @ : b.by # n} \cup {a}]
  <2>1. k \in Keys /\ n \in Attempts
    BY <1>0, RunsAre DEF AuditId, IInv, TypeOK
  <2>2. a.by = n /\ a.in = home[r]
    BY <1>0 DEF AuditOf
  <2>3. audits' = [audits EXCEPT ![k] = {b \in @ : b.by # a.by} \cup {a}]
    BY <1>0 DEF Put
  <2> QED
    BY <2>1, <2>2, <2>3
<1>2. /\ \A q \in Runs : q # r => pc'[q] = pc[q]
      /\ pc'[r] = next /\ next \notin Unaudited \cup {"new", "crossing"}
  BY DEF IInv, TypeOK, Unaudited, Written
<1>3. /\ \A j \in Keys : j # k => audits'[j] = audits[j]
      /\ audits'[k] = {b \in audits[k] : b.by # n} \cup {a}
  BY <1>1 DEF IInv, TypeOK
<1>4. /\ \A j \in Keys : \A b \in audits[j] : <<j, b.by>> \in Runs
      /\ <<k, n>> \in Runs
      /\ \A j \in Keys : \A b \in audits[j] : pc[<<j, b.by>>] \in Written /\ <<j, b.by>> # r
      /\ \A b \in audits[k] : \A c \in audits[k] : b.by = c.by => b = c
  <2>1. \A j \in Keys : \A b \in audits[j] : <<j, b.by>> \in Runs
    BY AuditsAre
  <2>2. <<k, n>> \in Runs
    BY <1>1 DEF Runs
  <2>3. pc[r] \notin Written
    BY DEF Written
  <2>4. \A j \in Keys : \A b \in audits[j] : pc[<<j, b.by>>] \in Written
    BY DEF AuditInv, AuditNames
  <2>5. \A b \in audits[k] : \A c \in audits[k] : b.by = c.by => b = c
    BY <1>1 DEF AuditInv, AuditNames
  <2> QED
    BY <2>1, <2>2, <2>3, <2>4, <2>5
<1>5. CASE seen[r] # None
  <2>1. PICK c \in audits[k] : c.by = n /\ c.in = home[r]
    <3>1. seen[r] = n
      BY <1>0, <1>5 DEF AuditId
    <3> QED
      BY <1>0, <1>5, <3>1 DEF AuditInv, AuditKnown, AuditsIn, Unaudited
  <2>2. Solo'
    BY <1>2 DEF AuditInv, Solo, Active, Written
  <2>3. \A j \in Keys : \A b \in audits[j] : CreatedLate(j, b.by) => CreatedLate(j, b.by)'
    BY <1>2, <1>4 DEF CreatedLate
  <2>4. AuditNames'
    <3>1. \A j \in Keys : \A b \in audits[j] : pc'[<<j, b.by>>] \in Written
      BY <1>2, <1>4
    <3>2. pc'[<<k, n>>] \in Written
      BY <1>1, <2>1, <3>1
    <3>3. \A j \in Keys : \A b \in audits'[j] : pc'[<<j, b.by>>] \in Written
      BY <1>1, <1>3, <3>1, <3>2
    <3>4. \A b, e \in audits'[k] : b.by = e.by => b = e
      BY <1>1, <1>3, <1>4
    <3>5. \A j \in Keys : j # k => \A b, e \in audits'[j] : b.by = e.by => b = e
      BY <1>3 DEF AuditInv, AuditNames
    <3> QED
      BY <3>3, <3>4, <3>5 DEF AuditNames
  <2>5. ASSUME NEW q \in Runs PROVE AuditKnown(q)'
    <3>1. CASE q = r
      BY <1>2, <3>1 DEF AuditKnown
    <3>2. CASE Key(q) # k
      <4>1. q # r /\ Key(q) \in Keys /\ audits'[Key(q)] = audits[Key(q)]
        BY <1>0, <1>3, <3>2, RunsAre
      <4> QED
        BY <1>2, <2>3, <4>1 DEF AuditInv, AuditKnown, AuditsIn
    <3>3. CASE Key(q) = k /\ q # r
      <4>1. pc'[q] = pc[q] /\ AuditKnown(q)
        BY <1>2, <3>3 DEF AuditInv
      <4>2. \A b \in audits'[k] : b \in audits[k] \/ (b = a /\ b.by = c.by /\ b.in = c.in)
        BY <1>1, <1>3, <2>1
      <4>3. \A b \in audits[k] : b \in audits'[k] \/ (a \in audits'[k] /\ b.by = a.by /\ b.in = a.in)
        BY <1>1, <1>3, <1>4, <2>1
      <4>4. pc[q] \in Unaudited /\ seen[q] = None =>
              \A b \in AuditsIn(k, home[q])' : CreatedLate(k, b.by)'
        BY <1>1, <2>1, <2>3, <3>3, <4>1, <4>2 DEF AuditKnown, AuditsIn
      <4>5. pc[q] \in Unaudited \cup {"crossing"} /\ seen[q] # None =>
              \E b \in AuditsIn(k, home[q])' : b.by = seen[q]
        BY <3>3, <4>1, <4>3 DEF AuditKnown, AuditsIn
      <4> QED
        BY <3>3, <4>1, <4>4, <4>5 DEF AuditKnown
    <3> QED
      BY <3>1, <3>2, <3>3
  <2>6. OneAudit'
    <3>1. ASSUME NEW b \in audits[k], b.by # n, b.in = a.in
          PROVE  CreatedLate(k, b.by)' \/ CreatedLate(k, n)'
      BY <1>1, <2>1, <2>3, <3>1 DEF AuditInv, OneAudit
    <3> QED
      BY <1>1, <1>3, <2>3, <3>1 DEF AuditInv, OneAudit
  <2> QED
    BY <2>2, <2>4, <2>5, <2>6 DEF AuditInv
<1>6. CASE seen[r] = None
  <2>1. n = Number(r) /\ <<k, n>> = r
    BY <1>0, <1>6, RunsAre DEF AuditId
  <2>2. \A b \in audits[k] : b.by # n
    <3>1. \A b \in audits[k] : <<k, b.by>> # r
      BY <1>1, <1>4
    <3> QED
      BY <2>1, <3>1, ZenonT(20)
  <2>3. audits'[k] = audits[k] \cup {a}
    BY <1>3, <2>2
  <2>4. \A j \in Keys : \A b \in audits[j] : CreatedLate(j, b.by) => CreatedLate(j, b.by)'
    BY <1>2, <1>4 DEF CreatedLate
  <2>5. Solo'
    BY <1>2 DEF AuditInv, Solo, Active, Written
  <2>6. AuditNames'
    <3>1. \A j \in Keys : \A b \in audits[j] : pc'[<<j, b.by>>] \in Written
      BY <1>2, <1>4
    <3>2. pc'[<<k, n>>] \in Written
      BY <1>2, <2>1
    <3>3. \A j \in Keys : \A b \in audits'[j] : pc'[<<j, b.by>>] \in Written
      BY <1>1, <1>3, <3>1, <3>2
    <3>4. \A b, c \in audits'[k] : b.by = c.by => b = c
      BY <1>1, <1>3, <1>4
    <3>5. \A j \in Keys : j # k => \A b, c \in audits'[j] : b.by = c.by => b = c
      BY <1>3 DEF AuditInv, AuditNames
    <3> QED
      BY <3>3, <3>4, <3>5 DEF AuditNames
  <2>7. pc[r] = "crossing" => CreatedLate(k, n)'
    BY <1>2, <1>6, <2>1 DEF CreatedLate
  <2>8. ASSUME NEW q \in Runs PROVE AuditKnown(q)'
    <3>1. CASE q = r
      BY <1>2, <3>1 DEF AuditKnown
    <3>2. CASE Key(q) # k
      <4>1. q # r /\ Key(q) \in Keys /\ audits'[Key(q)] = audits[Key(q)]
        BY <1>0, <1>3, <3>2, RunsAre
      <4> QED
        BY <1>2, <2>4, <4>1 DEF AuditInv, AuditKnown, AuditsIn
    <3>3. CASE Key(q) = k /\ q # r
      <4>1. pc'[q] = pc[q] /\ AuditKnown(q)
        BY <1>2, <3>3 DEF AuditInv
      <4>2. pc[q] \in Unaudited => pc[r] = "crossing"
        BY <1>0, <3>3 DEF AuditInv, Solo, Active, Unaudited
      <4>3. pc[q] \in Unaudited /\ seen[q] = None =>
              \A b \in AuditsIn(k, home[q])' : CreatedLate(k, b.by)'
        BY <1>1, <2>3, <2>4, <2>7, <3>3, <4>1, <4>2 DEF AuditKnown, AuditsIn
      <4>4. pc[q] \in Unaudited \cup {"crossing"} /\ seen[q] # None =>
              \E b \in AuditsIn(k, home[q])' : b.by = seen[q]
        BY <2>3, <3>3, <4>1 DEF AuditKnown, AuditsIn
      <4> QED
        BY <3>3, <4>1, <4>3, <4>4 DEF AuditKnown
    <3> QED
      BY <3>1, <3>2, <3>3
  <2>9. OneAudit'
    <3>1. ASSUME NEW b \in audits[k], b.in = a.in
          PROVE  CreatedLate(k, b.by)' \/ CreatedLate(k, n)'
      <4>1. CASE pc[r] = "crossing"
        BY <2>7, <4>1
      <4>2. CASE pc[r] = "auditing"
        BY <1>0, <1>1, <1>6, <2>4, <3>1, <4>2 DEF AuditInv, AuditKnown, AuditsIn, Unaudited
      <4> QED
        BY <4>1, <4>2
    <3> QED
      BY <1>1, <1>3, <2>3, <2>4, <3>1 DEF AuditInv, OneAudit
  <2> QED
    BY <2>5, <2>6, <2>8, <2>9 DEF AuditInv
<1> QED
  BY <1>5, <1>6

\* A call that is given up changes nothing yet.
LEMMA AuditGivenUp ==
    ASSUME IInv, AuditInv, NEW r \in Runs, pc[r] = "auditing",
           pc' = [pc EXCEPT ![r] = "crossing"], UNCHANGED <<audits, seen, home>>
    PROVE  AuditInv'
<1>1. pc'[r] = "crossing" /\ \A q \in Runs : q # r => pc'[q] = pc[q]
  BY DEF IInv, TypeOK
<1>2. Solo'
  BY <1>1 DEF AuditInv, Solo, Active
<1>3. \A k \in Keys : \A a \in audits[k] : <<k, a.by>> \in Runs /\ <<k, a.by>> # r
  <2>1. \A k \in Keys : \A a \in audits[k] : pc[<<k, a.by>>] \in Written
    BY DEF AuditInv, AuditNames
  <2> QED
    BY <2>1, AuditsAre DEF Written
<1>4. \A k \in Keys : \A a \in audits[k] : CreatedLate(k, a.by) => CreatedLate(k, a.by)'
  BY <1>1, <1>3 DEF CreatedLate
<1>5. AuditNames'
  BY <1>1, <1>3 DEF AuditInv, AuditNames
<1>6. ASSUME NEW q \in Runs PROVE AuditKnown(q)'
  <2>1. AuditKnown(q) /\ Key(q) \in Keys
    BY RunsAre DEF AuditInv
  <2>2. AuditsIn(Key(q), home[q])' = AuditsIn(Key(q), home[q])
    BY DEF AuditsIn
  <2>3. \A a \in AuditsIn(Key(q), home[q]) : a \in audits[Key(q)]
    BY DEF AuditsIn
  <2>4. CASE q = r
    BY <1>1, <2>1, <2>2, <2>4 DEF AuditKnown, Unaudited
  <2>5. CASE q # r
    BY <1>1, <1>4, <2>1, <2>2, <2>3, <2>5 DEF AuditKnown
  <2> QED
    BY <2>4, <2>5
<1>7. OneAudit'
  BY <1>4 DEF AuditInv, OneAudit
<1> QED
  BY <1>2, <1>5, <1>6, <1>7 DEF AuditInv

LEMMA AuditWritten ==
    ASSUME IInv, AuditInv, NEW r \in Runs, WriteAudit(r) \/ LandAudit(r)
    PROVE  AuditInv'
BY AuditPut, AuditGivenUp DEF WriteAudit, LandAudit, Written, context

LEMMA AuditInvariant ==
    ASSUME IsFiniteSet(Keys), ~Overlap
    PROVE  Spec => []AuditInv
<1>1. ASSUME IInv, AuditInv, [Next]_vars PROVE AuditInv'
  <2>1. CASE \E r \in Runs : Search(r) \/ WriteAudit(r) \/ LandAudit(r)
    BY <1>1, <2>1, AuditSearch, AuditWritten
  <2>2. CASE \E r \in Runs : Record(r) \/ Abort(r)
    <3>1. PICK r \in Runs : /\ Active(r) /\ audits' = audits /\ seen' = seen /\ home' = home
                            /\ \E s \in {"acked", "ended"} : pc' = [pc EXCEPT ![r] = s]
      BY <2>2 DEF Record, Abort, Active, context
    <3>2. \A q \in Runs : pc'[q] = pc[q] \/ (Active(q) /\ pc'[q] \in {"acked", "ended"})
      BY <1>1, <3>1 DEF IInv, TypeOK
    <3> QED
      BY <1>1, <3>1, <3>2, AuditQuiet
  <2>3. CASE \E r \in Runs : (\E m \in Modes : Enqueue(r, m)) \/ Reserve(r) \/ Send(r) \/ Mark(r)
    <3>1. PICK r \in Runs :
            /\ pc[r] \in Unaudited /\ audits' = audits /\ seen' = seen /\ home' = home
            /\ \E s \in Unaudited \cup {"ended"} : pc' = [pc EXCEPT ![r] = s]
      BY <2>3 DEF Enqueue, AfterEnqueue, Reserve, Send, Mark, Unaudited, context
    <3>2. \A q \in Runs : \/ pc'[q] = pc[q]
                          \/ pc[q] \in Unaudited /\ pc'[q] \in Unaudited \cup {"ended"}
      BY <1>1, <3>1 DEF IInv, TypeOK
    <3> QED
      BY <1>1, <3>1, <3>2, AuditQuiet
  <2>4. CASE (\E s \in Sessions : StartProcess(s)) \/ Hook \/ Tick \/ UNCHANGED vars
    <3>1. pc' = pc /\ audits' = audits /\ seen' = seen /\ home' = home
      BY <2>4 DEF StartProcess, Hook, Claim, LoseGrant, Inject, Consume, Tick, vars, runs, context
    <3> QED
      BY <1>1, <3>1, AuditQuiet
  <2> QED
    BY <1>1, <2>1, <2>2, <2>3, <2>4 DEF Next, Run
<1> QED
  BY <1>1, Invariance, AuditStarts, PTL DEF Spec

-----------------------------------------------------------------------------
(* The theorems. *)

\* A session sees the message of a cycle at most once, for any number of
\* attempts, overlapping ones and modes that change included (claim, consume,
\* begin_fallback and mark_* of interventions/repository.py with the nodes and
\* the plugin around them).
THEOREM DeliveredOnce ==
    ASSUME IsFiniteSet(Keys)
    PROVE  Spec => []AtMostOnce
<1>1. IInv => AtMostOnce
  BY DEF IInv, Delivery
<1> QED
  BY <1>1, Invariance, PTL

\* What arrives, and what the audits say, is in the words of the attempt that
\* queued the message, although every attempt words it anew (enqueue).
THEOREM DeliveredInOneText ==
    ASSUME IsFiniteSet(Keys)
    PROVE  Spec => []OneText
<1>1. IInv => OneText
  BY DEF IInv, Delivery
<1> QED
  BY <1>1, Invariance, PTL

\* No row and no audit claims a delivery that did not happen (consume, mark_*,
\* send_intervention.py).
THEOREM ConfirmedTruly ==
    ASSUME IsFiniteSet(Keys)
    PROVE  Spec => []NothingConfirmedFalsely
<1>1. IInv => NothingConfirmedFalsely
  BY DEF IInv, Delivery
<1> QED
  BY <1>1, Invariance, PTL

\* Of the messages of a session the plugin always takes the oldest (claim).
THEOREM TakenInOrder ==
    ASSUME IsFiniteSet(Keys)
    PROVE  Spec => []ClaimedInOrder
<1>1. IInv => ClaimedInOrder
  BY DEF IInv
<1> QED
  BY <1>1, Invariance, PTL

\* However often a cycle is retried and whichever answer of the Memory MCP is lost or late, at
\* most one of its audits in a process was created in time, while its attempts do not overlap: the
\* search by the cycle key in send_intervention.py finds what the write is to replace, and only a
\* create that was executed after its caller gave it up adds another.
THEOREM AuditedOnce ==
    ASSUME IsFiniteSet(Keys), ~Overlap
    PROVE  Spec => []OneAudit
<1>1. AuditInv => OneAudit
  BY DEF AuditInv
<1> QED
  BY <1>1, AuditInvariant, PTL
=============================================================================
