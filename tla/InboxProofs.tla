---------------------------- MODULE InboxProofs ----------------------------
(***************************************************************************)
(* Safety of the Inbox for any number of events, roots and processes, that *)
(* it implements the cohort queue, and what the queue guarantees of it.    *)
(***************************************************************************)
EXTENDS InboxQueue, SharedConnection, WellFoundedInduction, FiniteSetTheorems, TLAPS

(* The inductive invariant: the shape of a row, and of what a process holds. *)

RowShape ==
    \A e \in Events :
        /\ cycle[e] <= cycles
        /\ status[e] = "ABSENT" => cycle[e] = NoCycle
        /\ cycle[e] = NoCycle => /\ status[e] \in {"ABSENT", "PENDING"}
                                 /\ attempts[e] = 0 /\ lease[e] = NoLease
                                 /\ processedLease[e] = NoLease
        /\ lease[e] # NoLease => status[e] = "PROCESSING" /\ lease[e] = attempts[e]

\* A process holds whole cohorts, under the lease of one claim of theirs.
ClaimShape ==
    \A w \in Workers : \A e \in Claimed(w) :
        /\ cycle[e] # NoCycle /\ claims[w][e] <= attempts[e]
        /\ \A f \in Events : f \in Claimed(w) <=> cycle[f] = cycle[e]
        /\ \A f \in Claimed(w) : claims[w][f] = claims[w][e]

LeaseUnique ==
    \A v, w \in Workers, e \in Events :
        claims[v][e] # NoLease /\ claims[v][e] = claims[w][e] => v = w

AckedShape == \A w \in Workers : pc[w] = "acked" => \A e \in Claimed(w) : Acknowledged(w, e)

IInv == TypeOK /\ RowShape /\ CohortUniform /\ ClaimShape /\ LeaseUnique /\ AckedShape

-----------------------------------------------------------------------------
(* The oldest retried row is one of the retried rows. *)

LEMMA MinIsMember ==
    ASSUME NEW S \in SUBSET Nat, S # {}
    PROVE  Min(S) \in S /\ \A y \in S : Min(S) <= y
<1> DEFINE R == {ss \in Nat \X Nat : ss[1] < ss[2]}
<1>1. IsWellFoundedOn(R, Nat)
  BY NatLessThanWellFounded DEF OpToRel
<1> HIDE DEF R
<1>2. PICK x \in S : \A y \in S : ~ (<<y, x>> \in R)
  BY <1>1, WFMin
<1>3. ASSUME NEW y \in S PROVE x <= y
  <2>1. x \in Nat /\ y \in Nat /\ <<y, x>> \notin R
    BY <1>2
  <2>2. ~ (y < x)
    BY <2>1 DEF R
  <2> QED
    BY <2>1, <2>2
<1> QED
  BY <1>3 DEF Min

LEMMA RetryCycleType ==
    ASSUME TypeOK, NEW r \in Roots, Retried(r) # {}
    PROVE  RetryCycle(r) \in Nat /\ RetryCycle(r) # NoCycle
<1>1. Retried(r) \in SUBSET Nat
  BY DEF Retried, Eligible, Events
<1>2. Min(Retried(r)) \in Retried(r)
  BY <1>1, MinIsMember
<1> QED
  BY <1>2 DEF RetryCycle, Retried, Eligible, TypeOK

\* What a claim takes: eligible rows of one root that all get one cycle id,
\* which is either a fresh one given to fresh rows or the id they all have,
\* together with every unfinished row that has it.
LEMMA BatchShape ==
    ASSUME TypeOK, RowShape, NEW r \in Roots, NEW e \in Batch(r)
    PROVE  /\ e \in Eligible(r) /\ ~Busy(r)
           /\ BatchCycle(r) \in Nat \ {NoCycle}
           /\ \/ Retried(r) = {} /\ BatchCycle(r) = cycles + 1 /\ cycle[e] = NoCycle
              \/ Retried(r) # {} /\ BatchCycle(r) = cycle[e]
                 /\ Batch(r) = UnfinishedOf(cycle[e])
<1>1. CASE Retried(r) = {}
  BY <1>1 DEF Batch, Oldest, BatchCycle, Retried, TypeOK, NoCycle, Eligible
<1>2. CASE Retried(r) # {}
  BY <1>2, RetryCycleType DEF Batch, BatchCycle, UnfinishedOf
<1> QED
  BY <1>1, <1>2

-----------------------------------------------------------------------------
(* Each action preserves the invariant. *)

LEMMA InitIInv == Init => IInv
BY InboxAssumption
   DEF Init, IInv, TypeOK, RowShape, CohortUniform, ClaimShape, LeaseUnique, AckedShape,
       Claimed, NoClaims, NoLease, NoCycle

LEMMA NoClaimsType == NoClaims \in [Events -> Nat]
BY DEF NoClaims, NoLease

\* Actions that leave the rows alone and forget or keep claims.
LEMMA KeepRows ==
    ASSUME IInv, UNCHANGED rows,
           todo' \in [Workers -> SUBSET Roots], faults' \in 0..MaxFaults,
           pc' \in [Workers -> {"down", "idle", "running", "acked", "failing", "stopped"}],
           \A w \in Workers : pc'[w] = "acked" => pc[w] = "acked",
           claims' \in [Workers -> [Events -> Nat]],
           \A w \in Workers : claims'[w] = claims[w] \/ claims'[w] = NoClaims
    PROVE  IInv'
<1>1. TypeOK'
  BY DEF IInv, TypeOK, rows
<1>2. \A w \in Workers : \A e \in Claimed(w)' : e \in Claimed(w) /\ claims'[w] = claims[w]
  BY DEF Claimed, NoClaims
<1>3. RowShape' /\ CohortUniform'
  BY DEF IInv, RowShape, CohortUniform, rows
<1>4. ClaimShape'
  BY <1>2 DEF IInv, ClaimShape, Claimed, rows, NoClaims
<1>5. LeaseUnique'
  BY DEF IInv, LeaseUnique, NoClaims
<1>6. AckedShape'
  BY <1>2 DEF IInv, AckedShape, Acknowledged, rows
<1> QED
  BY <1>1, <1>3, <1>4, <1>5, <1>6 DEF IInv

LEMMA PersistStep ==
    ASSUME IInv, NEW d \in Events, Persist(d)
    PROVE  IInv'
<1> USE DEF Persist
<1>1. TypeOK'
  BY DEF IInv, TypeOK, Unfinished
<1>2. RowShape'
  BY DEF IInv, TypeOK, RowShape, NoLease
<1>3. CohortUniform'
  BY DEF IInv, TypeOK, RowShape, CohortUniform
<1>4. ClaimShape' /\ LeaseUnique'
  BY DEF IInv, ClaimShape, LeaseUnique, Claimed
<1>5. AckedShape'
  BY DEF IInv, TypeOK, AckedShape, Acknowledged, Claimed
<1> QED
  BY <1>1, <1>2, <1>3, <1>4, <1>5 DEF IInv

LEMMA ClaimStep ==
    ASSUME IInv, NEW v \in Workers, NEW r \in Roots, Claim(v, r)
    PROVE  IInv'
<1> DEFINE batch == Batch(r)
<1>1. \A e \in batch :
        /\ e \in Events /\ Root[e] = r /\ status[e] \in Unfinished
        /\ BatchCycle(r) \in Nat \ {NoCycle}
        /\ \/ /\ Retried(r) = {} /\ BatchCycle(r) = cycles + 1
              /\ cycle[e] = NoCycle /\ wait[e] = 0
           \/ Retried(r) # {} /\ BatchCycle(r) = cycle[e] /\ batch = UnfinishedOf(cycle[e])
  BY BatchShape DEF IInv, Eligible, Expired, Unfinished, RowShape
<1>2. batch # {} /\ batch \subseteq Events
  BY <1>1 DEF Claim
<1>3. \A e \in batch : \A f \in Events : f \in batch <=> cycle'[f] = BatchCycle(r)
  BY <1>1, <1>2 DEF Claim, IInv, TypeOK, RowShape, CohortUniform, UnfinishedOf, Unfinished
<1>4. TypeOK'
  BY <1>1, <1>2, InboxAssumption DEF Claim, IInv, TypeOK, FreshLease, Unfinished, NoLease
<1>5. RowShape'
  BY <1>1, <1>2 DEF Claim, IInv, TypeOK, RowShape, FreshLease, NoLease, NoCycle
<1>6. CohortUniform'
  <2> SUFFICES ASSUME NEW e \in Events, NEW f \in Events,
                      cycle'[e] = cycle'[f], cycle'[e] # NoCycle
               PROVE  /\ Root[e] = Root[f]
                      /\ status'[e] = status'[f] /\ attempts'[e] = attempts'[f]
                      /\ lease'[e] = lease'[f] /\ processedLease'[e] = processedLease'[f]
                      /\ leaseLeft'[e] = leaseLeft'[f] /\ wait'[e] = wait'[f]
    BY DEF CohortUniform
  <2>1. e \in batch <=> f \in batch
    BY <1>2, <1>3
  <2>2. CASE e \notin batch
    BY <2>1, <2>2 DEF Claim, IInv, TypeOK, CohortUniform
  <2>3. CASE e \in batch
    <3>1. attempts[e] = attempts[f] /\ processedLease[e] = processedLease[f] /\ wait[e] = wait[f]
      BY <1>1, <2>1, <2>3 DEF IInv, RowShape, CohortUniform, UnfinishedOf
    <3> QED
      BY <1>1, <2>1, <2>3, <3>1 DEF Claim, FreshLease
  <2> QED
    BY <2>2, <2>3
<1>7. \A w \in Workers : \A e \in Claimed(w)' :
        IF w = v THEN e \in batch /\ claims'[w][e] = attempts[e] + 1
                 ELSE e \in Claimed(w) /\ claims'[w] = claims[w]
  BY <1>2 DEF Claim, IInv, TypeOK, Claimed, FreshLease, NoLease
<1>8. \A e \in batch : e \in Claimed(v)'
  BY <1>2 DEF Claim, IInv, TypeOK, Claimed, FreshLease, NoLease
<1>9. ClaimShape'
  <2> SUFFICES ASSUME NEW w \in Workers, NEW e \in Claimed(w)'
               PROVE  /\ cycle'[e] # NoCycle /\ claims'[w][e] <= attempts'[e]
                      /\ \A f \in Events : f \in Claimed(w)' <=> cycle'[f] = cycle'[e]
                      /\ \A f \in Claimed(w)' : claims'[w][f] = claims'[w][e]
    BY DEF ClaimShape
  <2>1. CASE w = v
    <3>1. e \in batch
      BY <1>7, <2>1
    <3>2. \A f \in Events : f \in Claimed(w)' <=> cycle'[f] = cycle'[e]
      BY <1>3, <1>7, <1>8, <2>1, <3>1, <1>2 DEF Claimed
    <3>3. \A f \in Claimed(w)' : attempts[f] = attempts[e]
      BY <1>1, <1>7, <2>1, <3>1 DEF IInv, RowShape, CohortUniform, UnfinishedOf
    <3>4. cycle'[e] # NoCycle
      BY <1>1, <1>2, <1>3, <3>1
    <3>5. claims'[w][e] <= attempts'[e]
      <4>1. claims'[w][e] = attempts[e] + 1
        BY <1>7, <2>1
      <4>2. attempts'[e] = attempts[e] + 1 /\ attempts[e] + 1 \in Nat
        BY <1>2, <3>1 DEF Claim, IInv, TypeOK
      <4> QED
        BY <4>1, <4>2
    <3>6. \A f \in Claimed(w)' : claims'[w][f] = claims'[w][e]
      BY <1>7, <2>1, <3>3
    <3> QED
      BY <3>2, <3>4, <3>5, <3>6
  <2>2. CASE w # v
    <3>1. e \in Claimed(w) /\ claims'[w] = claims[w] /\ Claimed(w)' = Claimed(w)
      BY <1>7, <2>2 DEF Claimed, Claim, IInv, TypeOK
    <3>2. cycle[e] # NoCycle /\ cycle'[e] = cycle[e] /\ e \in Events
      BY <1>1, <1>2, <3>1 DEF Claim, IInv, ClaimShape, Claimed, TypeOK
    <3>3. \A f \in Events : cycle'[f] = cycle[e] <=> cycle[f] = cycle[e]
      BY <1>1, <1>2, <3>2 DEF Claim, IInv, TypeOK, RowShape
    <3> QED
      BY <1>2, <3>1, <3>2, <3>3 DEF Claim, IInv, ClaimShape, TypeOK, Claimed
  <2> QED
    BY <2>1, <2>2
<1>10. LeaseUnique'
  <2> SUFFICES ASSUME NEW u \in Workers, NEW w \in Workers, NEW e \in Events, u # w,
                      claims'[u][e] # NoLease, claims'[u][e] = claims'[w][e]
               PROVE  FALSE
    BY DEF LeaseUnique
  <2>1. e \in Claimed(u)' /\ e \in Claimed(w)'
    BY DEF Claimed
  <2>2. \A x \in Workers : x # v /\ e \in Claimed(x)' => claims'[x][e] <= attempts[e]
    BY <1>7 DEF IInv, ClaimShape
  <2>3. \A x \in Workers : x = v /\ e \in Claimed(x)' => claims'[x][e] = attempts[e] + 1
    BY <1>7
  <2>4. CASE u # v /\ w # v
    BY <1>7, <2>1, <2>4 DEF IInv, LeaseUnique
  <2>5. CASE u = v \/ w = v
    BY <2>1, <2>2, <2>3, <2>5 DEF IInv, TypeOK
  <2> QED
    BY <2>4, <2>5
<1>11. AckedShape'
  BY <1>1, <1>2, <1>7 DEF Claim, IInv, TypeOK, AckedShape, Acknowledged, Unfinished, Claimed
<1> QED
  BY <1>4, <1>5, <1>6, <1>9, <1>10, <1>11 DEF IInv

\* All rows of a process's cohort are held by it, or none is.
LEMMA HoldsUniform ==
    ASSUME IInv, NEW w \in Workers, NEW e \in Claimed(w), NEW f \in Events, cycle[f] = cycle[e]
    PROVE  /\ f \in Claimed(w) /\ (Holds(w, f) <=> Holds(w, e))
           /\ (ValidClaim(w, f) <=> ValidClaim(w, e))
BY DEF IInv, ClaimShape, CohortUniform, Claimed, Holds, ValidClaim, Acknowledged

\* Steps of process v that change rows of its own cohort only, all of them the
\* same way, and touch neither cycles nor attempts.
LEMMA RenewStep ==
    ASSUME IInv, NEW v \in Workers, Renew(v)
    PROVE  IInv'
<1>1. TypeOK'
  <2>1. leaseLeft' \in [Events -> 0..LeaseTicks]
    <3>1. leaseLeft \in [Events -> 0..LeaseTicks] /\ LeaseTicks \in 0..LeaseTicks
      BY InboxAssumption DEF IInv, TypeOK
    <3> QED
      BY <3>1 DEF Renew
  <2>2. pc' \in [Workers -> {"down", "idle", "running", "acked", "failing", "stopped"}]
    BY DEF Renew, IInv, TypeOK
  <2> QED
    BY <2>1, <2>2 DEF Renew, IInv, TypeOK
<1>2. RowShape'
  BY DEF Renew, IInv, RowShape
<1>3. CohortUniform'
  BY HoldsUniform DEF Renew, IInv, CohortUniform, TypeOK, ClaimShape, Claimed
<1>4. ClaimShape' /\ LeaseUnique'
  BY DEF Renew, IInv, ClaimShape, LeaseUnique, Claimed
<1>5. AckedShape'
  BY DEF Renew, IInv, TypeOK, AckedShape, Acknowledged, Claimed
<1> QED
  BY <1>1, <1>2, <1>3, <1>4, <1>5 DEF IInv

LEMMA AckStep ==
    ASSUME IInv, NEW v \in Workers, Ack(v)
    PROVE  IInv'
<1>1. CASE ~ \A e \in Claimed(v) : ValidClaim(v, e)
  <2>1. UNCHANGED rows /\ UNCHANGED <<todo, claims, faults>>
        /\ pc' = [pc EXCEPT ![v] = "failing"]
    BY <1>1 DEF Ack, rows
  <2> QED
    BY <2>1, KeepRows DEF IInv, TypeOK
<1>2. CASE \A e \in Claimed(v) : ValidClaim(v, e)
  <2> DEFINE done == {e \in Claimed(v) : Holds(v, e)}
  <2>1. \A e \in Events : status'[e] = IF e \in done THEN "PROCESSED" ELSE status[e]
    BY <1>2 DEF Ack
  <2>2. \A e \in Events : processedLease'[e] = IF e \in done THEN lease[e] ELSE processedLease[e]
    BY <1>2 DEF Ack
  <2>3. TypeOK'
    <3>1. status' \in [Events -> {"ABSENT"} \cup Unfinished \cup Terminal]
      BY <1>2 DEF Ack, IInv, TypeOK, Terminal
    <3>2. processedLease' \in [Events -> Nat] /\ lease' \in [Events -> Nat]
      BY <1>2 DEF Ack, IInv, TypeOK, NoLease
    <3>3. leaseLeft' \in [Events -> 0..LeaseTicks]
      BY <1>2, InboxAssumption DEF Ack, IInv, TypeOK
    <3>4. pc' \in [Workers -> {"down", "idle", "running", "acked", "failing", "stopped"}]
      BY <1>2 DEF Ack, IInv, TypeOK
    <3> QED
      BY <3>1, <3>2, <3>3, <3>4 DEF Ack, IInv, TypeOK
  <2>4. RowShape'
    BY <1>2 DEF Ack, IInv, TypeOK, RowShape, ClaimShape, NoLease, Claimed, Holds
  <2>5. \A e, f \in Events : cycle[e] = cycle[f] /\ cycle[e] # NoCycle => (e \in done <=> f \in done)
    BY HoldsUniform DEF IInv, ClaimShape, Claimed
  <2>6. CohortUniform'
    BY <1>2, <2>5 DEF Ack, IInv, CohortUniform, TypeOK
  <2>7. ClaimShape' /\ LeaseUnique'
    BY <1>2 DEF Ack, IInv, ClaimShape, LeaseUnique, Claimed
  <2>8. \A e \in Claimed(v) : Acknowledged(v, e)'
    BY <1>2, <2>1, <2>2 DEF Ack, ValidClaim, Acknowledged, Holds, Claimed
  <2>9. ASSUME NEW w \in Workers, w # v, pc[w] = "acked", NEW e \in Claimed(w)
        PROVE  Acknowledged(w, e)'
    BY <1>2, <2>9 DEF Ack, IInv, TypeOK, AckedShape, Acknowledged, Holds, Claimed
  <2>10. AckedShape'
    BY <1>2, <2>8, <2>9 DEF Ack, IInv, TypeOK, AckedShape, Claimed
  <2> QED
    BY <2>3, <2>4, <2>6, <2>7, <2>10 DEF IInv
<1> QED
  BY <1>1, <1>2

LEMMA FailStep ==
    ASSUME IInv, NEW v \in Workers, Fail(v)
    PROVE  IInv'
<1>1. CASE ~ \A e \in Claimed(v) : Holds(v, e)
  BY <1>1, KeepRows DEF Fail, rows, IInv, TypeOK, NoClaims, NoLease
<1>2. CASE \A e \in Claimed(v) : Holds(v, e)
  <2>1. TypeOK'
    <3>1. status' \in [Events -> {"ABSENT"} \cup Unfinished \cup Terminal]
      BY <1>2 DEF Fail, IInv, TypeOK, Terminal, Unfinished
    <3>2. wait' \in [Events -> 0..BackoffTicks] /\ leaseLeft' \in [Events -> 0..LeaseTicks]
      BY <1>2, InboxAssumption DEF Fail, IInv, TypeOK
    <3>3. lease' \in [Events -> Nat]
      BY <1>2 DEF Fail, IInv, TypeOK, NoLease
    <3>5. claims' \in [Workers -> [Events -> Nat]]
      BY NoClaimsType DEF Fail, IInv, TypeOK
    <3>4. pc' \in [Workers -> {"down", "idle", "running", "acked", "failing", "stopped"}]
      BY DEF Fail, IInv, TypeOK
    <3> QED
      BY <3>1, <3>2, <3>3, <3>4, <3>5 DEF Fail, IInv, TypeOK
  <2>2. \A w \in Workers : \A e \in Claimed(w)' :
          w # v /\ e \in Claimed(w) /\ claims'[w] = claims[w] /\ e \in Events
    BY DEF Fail, IInv, TypeOK, Claimed, NoClaims
  <2>3. \A e \in Claimed(v) : cycle[e] # NoCycle
    BY DEF IInv, ClaimShape
  <2>4. RowShape'
    BY <1>2, <2>3 DEF Fail, IInv, TypeOK, RowShape
  <2>8. \A e, f \in Events : cycle[e] = cycle[f] /\ cycle[e] # NoCycle =>
          (e \in Claimed(v) <=> f \in Claimed(v))
    BY DEF IInv, ClaimShape
  <2>5. CohortUniform'
    BY <1>2, <2>8 DEF Fail, IInv, CohortUniform, TypeOK
  <2>6. ClaimShape' /\ LeaseUnique'
    BY <2>2 DEF Fail, IInv, TypeOK, ClaimShape, LeaseUnique, Claimed, NoClaims
  <2>7. AckedShape'
    BY <1>2, <2>2 DEF Fail, IInv, TypeOK, AckedShape, Acknowledged, Holds, Claimed
  <2> QED
    BY <2>1, <2>4, <2>5, <2>6, <2>7 DEF IInv
<1> QED
  BY <1>1, <1>2

LEMMA RestartStep ==
    ASSUME IInv, NEW v \in Workers, Restart(v)
    PROVE  IInv'
<1>1. TypeOK'
  BY InboxAssumption DEF Restart, IInv, TypeOK, Unfinished, Terminal, NoLease
<1>2. RowShape'
  BY DEF Restart, IInv, TypeOK, RowShape, Expired
<1>3. \A e, f \in Events : cycle[e] = cycle[f] /\ cycle[e] # NoCycle =>
        (Expired(e) <=> Expired(f)) /\ (Spent(e) <=> Spent(f))
  BY DEF IInv, CohortUniform, Expired, Spent
<1>4. CohortUniform'
  BY <1>3 DEF Restart, IInv, CohortUniform, TypeOK
<1>5. ClaimShape' /\ LeaseUnique'
  BY DEF Restart, IInv, ClaimShape, LeaseUnique, Claimed
<1>6. AckedShape'
  BY DEF Restart, IInv, TypeOK, AckedShape, Acknowledged, Expired, Claimed
<1> QED
  BY <1>1, <1>2, <1>4, <1>5, <1>6 DEF IInv

LEMMA TickStep ==
    ASSUME IInv, Tick
    PROVE  IInv'
<1>1. \A n \in Nat : \A t \in 0..n : Elapsed(t) \in 0..n
  BY DEF Elapsed
<1>2. TypeOK'
  BY <1>1, InboxAssumption DEF Tick, IInv, TypeOK
<1>3. RowShape' /\ CohortUniform'
  BY DEF Tick, IInv, TypeOK, RowShape, CohortUniform
<1>4. ClaimShape' /\ LeaseUnique' /\ AckedShape'
  BY DEF Tick, IInv, ClaimShape, LeaseUnique, AckedShape, Acknowledged, Claimed
<1> QED
  BY <1>2, <1>3, <1>4 DEF IInv

LEMMA NextIInv == IInv /\ [Next]_vars => IInv'
<1> SUFFICES ASSUME IInv, [Next]_vars PROVE IInv'
  OBVIOUS
<1>1. ASSUME NEW v \in Workers, Poll(v) \/ (\E r \in Roots : FindNothing(v, r))
      PROVE  IInv'
  <2>1. todo' \in [Workers -> SUBSET Roots]
    BY <1>1 DEF IInv, TypeOK, Poll, FindNothing, ClaimableRoots
  <2>2. UNCHANGED <<rows, pc, claims, faults>>
    BY <1>1 DEF Poll, FindNothing
  <2> QED
    BY <2>1, <2>2, KeepRows DEF IInv, TypeOK
<1>3. ASSUME NEW v \in Workers, Raise(v)
      PROVE  IInv'
  <2>1. /\ pc' \in [Workers -> {"down", "idle", "running", "acked", "failing", "stopped"}]
        /\ \A w \in Workers : pc'[w] = "acked" => pc[w] = "acked"
    BY <1>3 DEF IInv, TypeOK, Raise
  <2> QED
    BY <1>3, <2>1, KeepRows DEF IInv, TypeOK, Raise
<1>5. ASSUME NEW v \in Workers, PollFails(v) \/ (\E r \in Roots : ClaimFails(v, r))
      PROVE  IInv'
  <2>1. /\ UNCHANGED <<rows, claims>> /\ faults' = faults + 1 /\ faults < MaxFaults
        /\ todo' = todo \/ (\E r \in Roots : todo' = [todo EXCEPT ![v] = @ \ {r}])
        /\ pc' = pc \/ pc' = [pc EXCEPT ![v] = "stopped"]
    BY <1>5 DEF PollFails, ClaimFails
  <2>2. faults' \in 0..MaxFaults /\ todo' \in [Workers -> SUBSET Roots]
    BY <2>1, InboxAssumption DEF IInv, TypeOK
  <2>3. /\ pc' \in [Workers -> {"down", "idle", "running", "acked", "failing", "stopped"}]
        /\ \A w \in Workers : pc'[w] = "acked" => pc[w] = "acked"
    BY <2>1 DEF IInv, TypeOK
  <2> QED
    BY <2>1, <2>2, <2>3, KeepRows DEF IInv, TypeOK
<1>4. ASSUME NEW v \in Workers, Return(v) \/ FailLost(v) \/ Crash(v)
      PROVE  IInv'
  <2>1. UNCHANGED rows /\ claims' = [claims EXCEPT ![v] = NoClaims]
    BY <1>4 DEF Return, FailLost, Crash
  <2>2. /\ claims' \in [Workers -> [Events -> Nat]]
        /\ \A w \in Workers : claims'[w] = claims[w] \/ claims'[w] = NoClaims
    BY <2>1, NoClaimsType DEF IInv, TypeOK
  <2>3. /\ pc' \in [Workers -> {"down", "idle", "running", "acked", "failing", "stopped"}]
        /\ \A w \in Workers : pc'[w] = "acked" => pc[w] = "acked"
    BY <1>4 DEF IInv, TypeOK, Return, FailLost, Crash
  <2>4. todo' \in [Workers -> SUBSET Roots] /\ faults' \in 0..MaxFaults
    BY <1>4, InboxAssumption DEF IInv, TypeOK, Return, FailLost, Crash
  <2> QED
    BY <2>1, <2>2, <2>3, <2>4, KeepRows
<1>2. CASE UNCHANGED vars
  BY <1>2, KeepRows DEF vars, IInv, TypeOK
<1> QED
  BY <1>1, <1>2, <1>3, <1>4, <1>5, PersistStep, ClaimStep, RenewStep, AckStep, FailStep, RestartStep,
     TickStep
     DEF Next, Step

LEMMA Invariance == Spec => []IInv
BY InitIInv, NextIInv, PTL DEF Spec

-----------------------------------------------------------------------------
(* What pays for an attempt, when one process drains the database. *)

\* A row that is being processed by nobody: its process forgot it in a fault.
Orphan(e) == status[e] = "PROCESSING" /\ \A w \in Workers : ~(e \in Claimed(w) /\ Holds(w, e))

PaidInv ==
    /\ \A w \in Workers : pc[w] \in {"down", "idle", "stopped"} => claims[w] = NoClaims
    /\ \A e \in Events : status[e] = "PENDING" => attempts[e] < MaxAttempts
    /\ \A e \in Events : Orphan(e) => attempts[e] < MaxAttempts + faults
    /\ AttemptsPaidByFaults

LEMMA PaidStarts == Init => PaidInv
BY InboxAssumption DEF Init, PaidInv, Orphan, AttemptsPaidByFaults

\* A step that begins no attempt and orphans no row without a fault.
LEMMA PaidQuiet ==
    ASSUME IInv, IInv', PaidInv, UNCHANGED attempts, faults' \in {faults, faults + 1},
           \A w \in Workers : pc'[w] \in {"down", "idle", "stopped"} => claims'[w] = NoClaims,
           \A e \in Events : /\ status'[e] = "PENDING" => attempts[e] < MaxAttempts
                             /\ Orphan(e)' => Orphan(e) \/ faults' = faults + 1
    PROVE  PaidInv'
<1>1. faults \in Nat /\ MaxAttempts \in Nat /\ \A e \in Events : attempts[e] \in Nat
  BY InboxAssumption DEF IInv, TypeOK
<1>2. \A e \in Events : Orphan(e)' => attempts'[e] < MaxAttempts + faults'
  BY <1>1 DEF PaidInv, AttemptsPaidByFaults
<1>3. AttemptsPaidByFaults'
  BY <1>1 DEF PaidInv, AttemptsPaidByFaults
<1> QED
  BY <1>2, <1>3 DEF PaidInv

\* The one process claims while it holds nothing: what it takes is due, or orphaned.
LEMMA PaidClaim ==
    ASSUME \A u, w \in Workers : u = w, IInv, IInv', PaidInv,
           NEW v \in Workers, NEW r \in Roots, Claim(v, r)
    PROVE  PaidInv'
<1> DEFINE batch == Batch(r)
<1>1. /\ pc[v] = "idle" /\ pc' = [pc EXCEPT ![v] = "running"] /\ faults' = faults
      /\ status' = [e \in Events |-> IF e \in batch THEN "PROCESSING" ELSE status[e]]
      /\ attempts' = [e \in Events |-> IF e \in batch THEN attempts[e] + 1 ELSE attempts[e]]
      /\ lease' = [e \in Events |-> IF e \in batch THEN FreshLease(e) ELSE lease[e]]
      /\ claims' = [claims EXCEPT ![v] =
                      [e \in Events |-> IF e \in batch THEN lease'[e] ELSE NoLease]]
  BY DEF Claim
<1>2. /\ faults \in Nat /\ MaxAttempts \in Nat /\ \A e \in Events : attempts[e] \in Nat
      /\ \A w \in Workers : pc'[w] = "running"
  <2>1. faults \in Nat /\ MaxAttempts \in Nat /\ \A e \in Events : attempts[e] \in Nat
    BY InboxAssumption DEF IInv, TypeOK
  <2>2. pc'[v] = "running"
    BY <1>1 DEF IInv, TypeOK
  <2> QED
    BY <2>1, <2>2
<1>3. \A e \in Events : status[e] = "PROCESSING" => Orphan(e)
  BY <1>1 DEF PaidInv, Orphan, Claimed, NoClaims
<1>4. ASSUME NEW e \in batch
      PROVE  e \in Events /\ attempts[e] < MaxAttempts + faults
  <2>1. e \in Eligible(r)
    BY <1>4, BatchShape DEF IInv
  <2>2. e \in Events /\ (status[e] = "PENDING" \/ Orphan(e))
    BY <1>3, <2>1 DEF Eligible, Expired
  <2> QED
    BY <1>2, <2>2 DEF PaidInv
<1>5. \A e \in Events : e \in batch => ~Orphan(e)'
  <2> SUFFICES ASSUME NEW e \in Events, e \in batch PROVE ~Orphan(e)'
    OBVIOUS
  <2>1. lease'[e] = attempts[e] + 1 /\ claims'[v][e] = lease'[e] /\ lease'[e] # NoLease
    BY <1>1, <1>2 DEF FreshLease, NoLease, IInv, TypeOK
  <2>2. status'[e] = "PROCESSING"
    BY <1>1
  <2> QED
    BY <2>1, <2>2 DEF Orphan, Claimed, Holds
<1>6. \A e \in Events : e \notin batch =>
        attempts'[e] = attempts[e] /\ status'[e] = status[e] /\ (Orphan(e)' => Orphan(e))
  BY <1>1, <1>3 DEF Orphan
<1>7. \A e \in batch : attempts'[e] = attempts[e] + 1 /\ status'[e] = "PROCESSING"
  BY <1>1, <1>4
<1>8. AttemptsPaidByFaults'
  BY <1>1, <1>2, <1>4, <1>6, <1>7 DEF PaidInv, AttemptsPaidByFaults
<1> QED
  BY <1>1, <1>2, <1>5, <1>6, <1>7, <1>8 DEF PaidInv

\* Steps of the one process that end an attempt or go on with it.
LEMMA PaidRun ==
    ASSUME IInv, IInv', PaidInv, NEW v \in Workers,
           \/ Poll(v) \/ PollFails(v) \/ (\E r \in Roots : FindNothing(v, r) \/ ClaimFails(v, r))
           \/ Renew(v) \/ Ack(v) \/ Raise(v)
    PROVE  PaidInv'
<1>1. /\ UNCHANGED <<attempts, claims>> /\ faults' \in {faults, faults + 1}
      /\ \A w \in Workers : pc'[w] \in {"down", "idle", "stopped"} => pc[w] \in {"down", "idle", "stopped"}
      /\ \A e \in Events : status'[e] = status[e] \/ status'[e] = "PROCESSED"
      /\ \A e \in Events : status'[e] = "PROCESSING" => lease'[e] = lease[e]
  BY DEF Poll, PollFails, FindNothing, ClaimFails, Renew, Ack, Raise, rows, IInv, TypeOK, Holds, Claimed
<1>2. \A e \in Events : Orphan(e)' => Orphan(e)
  BY <1>1 DEF Orphan, Claimed, Holds
<1> QED
  BY <1>1, <1>2, PaidQuiet DEF PaidInv

LEMMA PaidForget ==
    ASSUME IInv, IInv', PaidInv, NEW v \in Workers,
           Return(v) \/ Fail(v) \/ FailLost(v) \/ Crash(v)
    PROVE  PaidInv'
<1>1. /\ UNCHANGED attempts /\ claims' = [claims EXCEPT ![v] = NoClaims]
      /\ \A w \in Workers : w # v => pc'[w] = pc[w]
      /\ \A e \in Events : status'[e] = "PROCESSING" => status[e] = "PROCESSING" /\ lease'[e] = lease[e]
  BY DEF Return, Fail, FailLost, Crash, rows, IInv, TypeOK
<1>2. /\ claims'[v] = NoClaims /\ \A w \in Workers : w # v => claims'[w] = claims[w]
  BY <1>1 DEF IInv, TypeOK
<1>3. \A w \in Workers : pc'[w] \in {"down", "idle", "stopped"} => claims'[w] = NoClaims
  BY <1>1, <1>2 DEF PaidInv
<1>4. ASSUME NEW e \in Events, Orphan(e)', ~Orphan(e)
      PROVE  status[e] = "PROCESSING" /\ e \in Claimed(v) /\ Holds(v, e)
  <2>1. status[e] = "PROCESSING" /\ lease'[e] = lease[e]
    BY <1>1, <1>4 DEF Orphan
  <2>2. PICK w \in Workers : e \in Claimed(w) /\ Holds(w, e)
    BY <1>4, <2>1 DEF Orphan
  <2>3. w = v
    BY <1>2, <1>4, <2>1, <2>2 DEF Orphan, Claimed, Holds
  <2> QED
    BY <2>1, <2>2, <2>3
<1>5. CASE FailLost(v) \/ Crash(v)
  <2>1. faults' = faults + 1 /\ UNCHANGED status
    BY <1>5 DEF FailLost, Crash, rows
  <2> QED
    BY <1>1, <1>3, <2>1, PaidQuiet DEF PaidInv
<1>6. CASE Return(v)
  <2>1. faults' = faults /\ UNCHANGED status /\ pc[v] = "acked"
    BY <1>6 DEF Return, rows
  <2>2. \A e \in Claimed(v) : status[e] = "PROCESSED"
    BY <2>1 DEF IInv, AckedShape, Acknowledged
  <2>3. \A e \in Events : Orphan(e)' => Orphan(e)
    BY <1>4, <2>2
  <2> QED
    BY <1>1, <1>3, <2>1, <2>3, PaidQuiet DEF PaidInv
<1>7. CASE Fail(v)
  <2>1. faults' = faults /\ (UNCHANGED status \/ \A e \in Claimed(v) : Holds(v, e))
    BY <1>7 DEF Fail
  <2>2. ASSUME \A e \in Claimed(v) : Holds(v, e)
        PROVE  \A e \in Events : IF e \in Claimed(v)
                                 THEN \/ status'[e] = "FAILED"
                                      \/ status'[e] = "PENDING" /\ ~Spent(e)
                                 ELSE status'[e] = status[e]
    BY <1>7, <2>2 DEF Fail
  <2>3. \A e \in Events : Orphan(e)' => Orphan(e)
    <3> SUFFICES ASSUME NEW e \in Events, Orphan(e)', ~Orphan(e) PROVE FALSE
      OBVIOUS
    <3>1. status[e] = "PROCESSING" /\ e \in Claimed(v) /\ Holds(v, e)
      BY <1>4
    <3>2. \A f \in Claimed(v) : Holds(v, f)
      <4>1. \A f \in Claimed(v) : f \in Events /\ cycle[f] = cycle[e]
        BY <3>1 DEF IInv, ClaimShape, Claimed
      <4> QED
        BY <3>1, <4>1, HoldsUniform
    <3>3. status'[e] # "PROCESSING"
      BY <2>2, <3>1, <3>2
    <3> QED
      BY <3>3 DEF Orphan
  <2>4. \A e \in Events : status'[e] = "PENDING" => attempts[e] < MaxAttempts
    <3>1. \A e \in Events : ~Spent(e) => attempts[e] < MaxAttempts
      BY InboxAssumption DEF Spent, IInv, TypeOK
    <3> QED
      BY <2>1, <2>2, <3>1 DEF PaidInv
  <2> QED
    BY <1>1, <1>3, <2>1, <2>3, <2>4, PaidQuiet
<1> QED
  BY <1>5, <1>6, <1>7

LEMMA PaidInvariant ==
    ASSUME \A u, w \in Workers : u = w
    PROVE  Spec => []PaidInv
<1>1. ASSUME IInv, IInv', PaidInv, [Next]_vars PROVE PaidInv'
  <2>1. CASE \E e \in Events : Persist(e)
    <3>1. /\ UNCHANGED <<attempts, claims, pc, faults, lease>>
          /\ \A e \in Events : \/ status'[e] = status[e]
                               \/ status[e] = "ABSENT" /\ status'[e] = "PENDING"
      BY <1>1, <2>1 DEF Persist, IInv, TypeOK
    <3>2. \A e \in Events : status[e] = "ABSENT" => attempts[e] < MaxAttempts
      BY <1>1, InboxAssumption DEF IInv, RowShape
    <3>3. \A e \in Events : Orphan(e)' => Orphan(e)
      BY <3>1 DEF Orphan, Claimed, Holds
    <3> QED
      BY <1>1, <3>1, <3>2, <3>3, PaidQuiet DEF PaidInv
  <2>2. CASE \E v \in Workers : Restart(v)
    <3>1. /\ UNCHANGED <<attempts, claims, faults>>
          /\ \A w \in Workers : pc'[w] \in {"down", "idle", "stopped"} => pc[w] \in {"down", "idle", "stopped"}
          /\ \A e \in Events : \/ status'[e] = status[e] /\ lease'[e] = lease[e]
                               \/ status'[e] = "PENDING" /\ ~Spent(e)
                               \/ status'[e] = "FAILED"
      BY <1>1, <2>2 DEF Restart, IInv, TypeOK
    <3>2. \A e \in Events : ~Spent(e) => attempts[e] < MaxAttempts
      BY <1>1, InboxAssumption DEF Spent, IInv, TypeOK
    <3>3. \A e \in Events : Orphan(e)' => Orphan(e)
      BY <3>1 DEF Orphan, Claimed, Holds
    <3> QED
      BY <1>1, <3>1, <3>2, <3>3, PaidQuiet DEF PaidInv
  <2>3. CASE Tick \/ UNCHANGED vars
    <3>1. UNCHANGED <<attempts, claims, faults, pc, status, lease>>
      BY <2>3 DEF Tick, vars, rows
    <3>2. \A e \in Events : Orphan(e)' => Orphan(e)
      BY <3>1 DEF Orphan, Claimed, Holds
    <3> QED
      BY <1>1, <3>1, <3>2, PaidQuiet DEF PaidInv
  <2> QED
    BY <1>1, <2>1, <2>2, <2>3, PaidClaim, PaidRun, PaidForget DEF Next, Step
<1> QED
  BY <1>1, Invariance, PaidStarts, PTL DEF Spec

-----------------------------------------------------------------------------
(* What the mapping to the cohort queue needs beyond the invariant. *)

\* A row that never was in a cohort never failed, so it has no backoff.
FreshIsDue == \A e \in Events : cycle[e] = NoCycle => wait[e] = 0

CyclesUsed == \A c \in 1..cycles : \E e \in Events : cycle[e] = c

RInv == IInv /\ FreshIsDue /\ CyclesUsed

LEMMA InitRInv == Init => RInv
BY InitIInv DEF Init, RInv, FreshIsDue, CyclesUsed

\* Steps that leave the cycles alone.
LEMMA KeepCycles ==
    ASSUME RInv, IInv', UNCHANGED <<cycle, cycles>>,
           \A e \in Events : cycle[e] = NoCycle /\ wait[e] = 0 => wait'[e] = 0
    PROVE  RInv'
BY DEF RInv, FreshIsDue, CyclesUsed

LEMMA NextRInv == ASSUME RInv, [Next]_vars PROVE RInv'
<1>1. IInv'
  BY NextIInv DEF RInv
<1>2. CASE \E w \in Workers, r \in Roots : Claim(w, r)
  <2>1. PICK v \in Workers, r \in Roots : Claim(v, r)
    BY <1>2
  <2>2. /\ cycle' = [e \in Events |-> IF e \in Batch(r) THEN BatchCycle(r) ELSE cycle[e]]
        /\ cycles' = IF Retried(r) = {} THEN cycles + 1 ELSE cycles
        /\ wait' = wait /\ Batch(r) # {}
    BY <2>1 DEF Claim
  <2>3. cycles \in Nat /\ IInv
    BY DEF RInv, IInv, TypeOK
  <2>4. \A e \in Batch(r) :
          /\ e \in Events /\ BatchCycle(r) # NoCycle
          /\ \/ Retried(r) = {} /\ BatchCycle(r) = cycles + 1 /\ cycle[e] = NoCycle
             \/ Retried(r) # {} /\ BatchCycle(r) = cycle[e]
    BY <2>3, BatchShape DEF IInv, Eligible
  <2>5. FreshIsDue'
    BY <2>2, <2>4 DEF RInv, FreshIsDue
  <2>6. CyclesUsed'
    <3>1. ASSUME NEW c \in 1..cycles PROVE \E e \in Events : cycle'[e] = c
      <4>1. PICK e \in Events : cycle[e] = c
        BY DEF RInv, CyclesUsed
      <4>2. CASE e \in Batch(r) /\ Retried(r) = {}
        BY <2>3, <2>4, <4>1, <4>2 DEF NoCycle
      <4> QED
        BY <2>2, <2>4, <4>1, <4>2
    <3>2. CASE Retried(r) # {}
      BY <2>2, <3>1, <3>2 DEF CyclesUsed
    <3>3. CASE Retried(r) = {}
      <4>1. \E e \in Events : cycle'[e] = cycles + 1
        BY <2>2, <2>4, <3>3
      <4>2. \A c \in 1..cycles' : c \in 1..cycles \/ c = cycles + 1
        BY <2>2, <2>3, <3>3
      <4> QED
        BY <3>1, <4>1, <4>2 DEF CyclesUsed
    <3> QED
      BY <3>2, <3>3
  <2> QED
    BY <1>1, <2>5, <2>6 DEF RInv
<1>3. CASE [Next]_vars /\ ~ \E w \in Workers, r \in Roots : Claim(w, r)
  <2>1. UNCHANGED <<cycle, cycles>>
    BY <1>3 DEF Next, Step, Persist, Poll, PollFails, FindNothing, ClaimFails, Renew, Ack, Raise, Return, Fail,
                FailLost, Crash, Restart, Tick, vars, rows
  <2>2. ASSUME NEW e \in Events, cycle[e] = NoCycle, wait[e] = 0 PROVE wait'[e] = 0
    <3>1. \A w \in Workers : e \notin Claimed(w)
      BY <2>2 DEF RInv, IInv, ClaimShape
    <3>2. CASE Tick
      BY <2>2, <3>2 DEF Tick, Elapsed
    <3>3. CASE \E w \in Workers : Fail(w)
      BY <2>2, <3>1, <3>3 DEF Fail
    <3>4. CASE UNCHANGED wait
      BY <2>2, <3>4
    <3> QED
      BY <1>3, <3>2, <3>3, <3>4
         DEF Next, Step, Persist, Poll, PollFails, FindNothing, ClaimFails, Renew, Ack, Raise, Return, FailLost,
             Crash, Restart, vars, rows
  <2> QED
    BY <1>1, <2>1, <2>2, KeepCycles
<1> QED
  BY <1>2, <1>3

-----------------------------------------------------------------------------
(* What the mapping yields. *)

Mapped ==
    /\ DOMAIN CohortStages = {CohortOf(c) : c \in 1..cycles}
    /\ CohortStages = [b \in DOMAIN CohortStages |-> CohortStages[b]]
    /\ \A b \in DOMAIN CohortStages :
         /\ b # {} /\ b \subseteq Events
         /\ \A e \in b : /\ cycle[e] # NoCycle /\ b = CohortOf(cycle[e])
                         /\ CohortStages[b] = StageOf(e)
    /\ \A e \in Events : cycle[e] # NoCycle =>
         /\ e \in CohortOf(cycle[e]) /\ CohortOf(cycle[e]) \in DOMAIN CohortStages
         /\ CohortStages[CohortOf(cycle[e])] = StageOf(e)

LEMMA RowsAreMapped == RInv => Mapped
<1> SUFFICES ASSUME RInv PROVE Mapped
  OBVIOUS
<1> DEFINE D == {CohortOf(c) : c \in 1..cycles}
<1>1. DOMAIN CohortStages = D /\ CohortStages = [b \in D |-> StageOf(Min(b))]
  BY DEF CohortStages
<1>2. cycle \in [Events -> Nat] /\ cycles \in Nat
  BY DEF RInv, IInv, TypeOK
<1>3. \A e, f \in Events : cycle[e] = cycle[f] /\ cycle[e] # NoCycle => StageOf(e) = StageOf(f)
  BY DEF RInv, IInv, CohortUniform, StageOf, Live
<1>4. ASSUME NEW c \in 1..cycles
      PROVE  /\ CohortOf(c) # {} /\ CohortOf(c) \subseteq Events
             /\ \A e \in CohortOf(c) : cycle[e] = c /\ cycle[e] # NoCycle
                                       /\ StageOf(Min(CohortOf(c))) = StageOf(e)
  <2>1. CohortOf(c) # {} /\ CohortOf(c) \in SUBSET Nat /\ CohortOf(c) \subseteq Events
    BY DEF CohortOf, RInv, CyclesUsed, Events
  <2>2. Min(CohortOf(c)) \in CohortOf(c)
    BY <2>1, MinIsMember
  <2>3. c # NoCycle
    BY DEF NoCycle
  <2> QED
    BY <1>3, <2>1, <2>2, <2>3 DEF CohortOf
<1>5. \A e \in Events : cycle[e] # NoCycle => cycle[e] \in 1..cycles
  BY <1>2 DEF RInv, IInv, RowShape, NoCycle
<1>6. \A e \in Events : e \in CohortOf(cycle[e])
  BY DEF CohortOf
<1> HIDE DEF D
<1>7. \A c \in 1..cycles : CohortOf(c) \in D /\ CohortStages[CohortOf(c)] = StageOf(Min(CohortOf(c)))
  BY <1>1 DEF D
<1>8. \A b \in D : \E c \in 1..cycles : b = CohortOf(c)
  BY DEF D
<1> QED
  BY <1>1, <1>4, <1>5, <1>6, <1>7, <1>8 DEF Mapped, D

LEMMA NextMapped == ASSUME RInv, [Next]_vars PROVE Mapped'
BY NextRInv, RowsAreMapped, PTL

-----------------------------------------------------------------------------
(* Steps that keep the cohorts and at most change what became of them.       *)

KeepsCohorts ==
    /\ UNCHANGED <<cycle, cycles>>
    /\ \A e \in Events : cycle[e] = NoCycle => (status'[e] = "PENDING" <=> status[e] = "PENDING")

LEMMA CohortsKept ==
    ASSUME RInv, Mapped, Mapped', KeepsCohorts
    PROVE  /\ UNCHANGED WaitingRows
           /\ DOMAIN (CohortStages') = DOMAIN CohortStages
           /\ \A b \in DOMAIN CohortStages : \A e \in b : CohortStages'[b] = StageOf(e)'
<1>1. UNCHANGED WaitingRows
  BY DEF KeepsCohorts, WaitingRows, Fresh
<1>2. \A c : CohortOf(c)' = CohortOf(c)
  BY DEF KeepsCohorts, CohortOf
<1>3. DOMAIN (CohortStages') = DOMAIN CohortStages
  BY <1>2 DEF KeepsCohorts, Mapped
<1> QED
  BY <1>1, <1>3 DEF Mapped

LEMMA SameStages ==
    ASSUME RInv, Mapped, Mapped', KeepsCohorts,
           \A e \in Events : cycle[e] # NoCycle => StageOf(e)' = StageOf(e)
    PROVE  UNCHANGED <<WaitingRows, CohortStages>>
<1>1. \A b \in DOMAIN CohortStages : CohortStages'[b] = CohortStages[b]
  BY CohortsKept DEF Mapped
<1> QED
  BY <1>1, CohortsKept DEF Mapped

\* Cohorts are released, a row at a time but all of a cohort's rows alike.
LEMMA Released ==
    ASSUME RInv, Mapped, Mapped', KeepsCohorts,
           \A e \in Events : cycle[e] # NoCycle =>
               \/ StageOf(e)' = StageOf(e)
               \/ StageOf(e) \in {"leased", "lapsed"} /\ StageOf(e)' \in {"waiting", "dead"}
    PROVE  Queue!Release
<1> DEFINE D == DOMAIN CohortStages
           S == {b \in D : CohortStages'[b] # CohortStages[b]}
           t == [b \in D |-> IF b \in S THEN CohortStages'[b] ELSE "waiting"]
<1>1. \A b \in D : \/ CohortStages'[b] = CohortStages[b]
                   \/ /\ CohortStages[b] \in {"leased", "lapsed"}
                      /\ CohortStages'[b] \in {"waiting", "dead"}
  BY CohortsKept DEF Mapped
<1>2. S \in SUBSET D /\ \A b \in S : CohortStages[b] \in {"leased", "lapsed"}
  BY <1>1
<1>3. t \in [D -> {"waiting", "dead"}]
  BY <1>1
<1>4. CohortStages' = [b \in D |-> CohortStages'[b]]
  BY CohortsKept DEF Mapped
<1>5. CohortStages' = [b \in D |-> IF b \in S THEN t[b] ELSE CohortStages[b]]
  BY <1>4
<1>6. UNCHANGED WaitingRows /\ Queue!Cohorts = D
  BY CohortsKept DEF Queue!Cohorts
<1> HIDE DEF D, S, t
<1> QED
  BY <1>2, <1>3, <1>5, <1>6 DEF Queue!Release

LEMMA Lapsed ==
    ASSUME RInv, Mapped, Mapped', KeepsCohorts,
           \A e \in Events : cycle[e] # NoCycle =>
               \/ StageOf(e)' = StageOf(e)
               \/ StageOf(e) = "leased" /\ StageOf(e)' = "lapsed"
    PROVE  Queue!Lapse
<1> DEFINE D == DOMAIN CohortStages
           S == {b \in D : CohortStages'[b] # CohortStages[b]}
<1>1. \A b \in D : \/ CohortStages'[b] = CohortStages[b]
                   \/ CohortStages[b] = "leased" /\ CohortStages'[b] = "lapsed"
  BY CohortsKept DEF Mapped
<1>2. S \in SUBSET D /\ \A b \in S : CohortStages[b] = "leased"
  BY <1>1
<1>3. CohortStages' = [b \in D |-> CohortStages'[b]]
  BY CohortsKept DEF Mapped
<1>4. CohortStages' = [b \in D |-> IF b \in S THEN "lapsed" ELSE CohortStages[b]]
  BY <1>1, <1>3
<1>5. UNCHANGED WaitingRows /\ Queue!Cohorts = D
  BY CohortsKept DEF Queue!Cohorts
<1> HIDE DEF D, S
<1> QED
  BY <1>2, <1>4, <1>5 DEF Queue!Lapse

\* One cohort changes its stage.
LEMMA OneMoves ==
    ASSUME RInv, Mapped, Mapped', KeepsCohorts,
           NEW c \in Events, cycle[c] # NoCycle, NEW s,
           \A e \in CohortOf(cycle[c]) : StageOf(e)' = s,
           \A e \in Events \ CohortOf(cycle[c]) : cycle[e] # NoCycle => StageOf(e)' = StageOf(e)
    PROVE  CohortStages' = [CohortStages EXCEPT ![CohortOf(cycle[c])] = s]
<1> DEFINE D == DOMAIN CohortStages
           b == CohortOf(cycle[c])
<1>1. b \in D /\ CohortStages'[b] = s
  BY CohortsKept DEF Mapped
<1>2. ASSUME NEW d \in D, d # b PROVE CohortStages'[d] = CohortStages[d]
  <2>1. PICK e \in d : TRUE
    BY DEF Mapped
  <2>2. e \in Events \ b /\ cycle[e] # NoCycle
    <3>1. e \in Events /\ cycle[e] # NoCycle /\ d = CohortOf(cycle[e])
      BY <2>1 DEF Mapped
    <3>2. e \in b => cycle[e] = cycle[c]
      BY DEF CohortOf
    <3> QED
      BY <1>2, <3>1, <3>2
  <2>3. StageOf(e)' = StageOf(e)
    BY <2>2
  <2> QED
    BY <2>1, <2>3, CohortsKept DEF Mapped
<1>3. DOMAIN (CohortStages') = D /\ CohortStages' = [d \in D |-> CohortStages'[d]]
  BY CohortsKept DEF Mapped
<1> QED
  BY <1>1, <1>2, <1>3 DEF Mapped
-----------------------------------------------------------------------------
(* Every step of the Inbox is a step of the queue or none.                   *)

LEMMA PersistMaps ==
    ASSUME RInv, Mapped, Mapped', NEW e \in Events, Persist(e)
    PROVE  Queue!Arrive(e)
<1>1. cycle[e] = NoCycle /\ status[e] = "ABSENT"
  BY DEF Persist, RInv, IInv, RowShape
<1>2. \A r \in Roots : e \notin WaitingRows[r]
  BY <1>1 DEF WaitingRows, Fresh
<1>3. \A b \in DOMAIN CohortStages : e \notin b
  BY <1>1 DEF Mapped
<1>4. WaitingRows' = [WaitingRows EXCEPT ![Root[e]] = @ \cup {e}]
  <2>1. Root[e] \in Roots
    BY InboxAssumption
  <2>2. status' = [status EXCEPT ![e] = "PENDING"] /\ cycle' = cycle
    BY DEF Persist
  <2>3. \A f \in Events : status'[f] = "PENDING" <=> status[f] = "PENDING" \/ f = e
    BY <2>2 DEF RInv, IInv, TypeOK
  <2>4. \A r \in Roots : Fresh(r)' = IF r = Root[e] THEN Fresh(r) \cup {e} ELSE Fresh(r)
    BY <1>1, <2>2, <2>3 DEF Fresh
  <2> QED
    BY <2>1, <2>4 DEF WaitingRows
<1>5. UNCHANGED CohortStages
  <2>1. \A f \in Events : f # e => StageOf(f)' = StageOf(f)
    BY DEF Persist, StageOf, Live, RInv, IInv, TypeOK
  <2>2. \A c : CohortOf(c)' = CohortOf(c)
    BY DEF Persist, CohortOf
  <2>3. DOMAIN (CohortStages') = DOMAIN CohortStages
    BY <2>2 DEF Persist, Mapped
  <2>4. \A b \in DOMAIN CohortStages : CohortStages'[b] = CohortStages[b]
    BY <1>3, <2>1, <2>3 DEF Mapped
  <2> QED
    BY <2>3, <2>4 DEF Mapped
<1> QED
  BY <1>2, <1>3, <1>4, <1>5 DEF Queue!Arrive, Queue!Cohorts

\* A root without a live lease has no cohort that runs.
LEMMA NothingRuns ==
    ASSUME Mapped, NEW r \in Roots, ~Busy(r)
    PROVE  ~Queue!Running(r)
<1> SUFFICES ASSUME NEW b \in DOMAIN CohortStages, Queue!Of(r, b), CohortStages[b] = "leased"
             PROVE  FALSE
  BY DEF Queue!Running, Queue!Cohorts
<1>1. PICK e \in b : Root[e] = r
  BY DEF Queue!Of
<1>2. e \in Events /\ StageOf(e) = "leased"
  BY <1>1 DEF Mapped
<1>3. Live(e)
  BY <1>2 DEF StageOf
<1> QED
  BY <1>1, <1>2, <1>3 DEF Busy

LEMMA RetryMaps ==
    ASSUME RInv, Mapped, Mapped', NEW w \in Workers, NEW r \in Roots, Claim(w, r), Retried(r) # {}
    PROVE  \E b \in Queue!Cohorts : Queue!Rerun(r, b)
<1> DEFINE batch == Batch(r)
<1>1. IInv /\ TypeOK /\ RowShape /\ CohortUniform
  BY DEF RInv, IInv
<1>2. PICK d \in batch : TRUE
  BY DEF Claim
<1>3. \A e \in batch : /\ e \in Eligible(r) /\ ~Busy(r) /\ cycle[e] # NoCycle
                       /\ BatchCycle(r) = cycle[e] /\ batch = UnfinishedOf(cycle[e])
  BY <1>1, BatchShape
<1>4. batch = CohortOf(cycle[d]) /\ d \in Events /\ cycle[d] # NoCycle
  <2>1. d \in Events /\ cycle[d] # NoCycle /\ batch = UnfinishedOf(cycle[d])
    BY <1>2, <1>3 DEF Eligible
  <2>2. status[d] \in Unfinished
    BY <1>2, <1>3 DEF Eligible, Expired, Unfinished
  <2> QED
    BY <1>1, <2>1, <2>2 DEF CohortUniform, CohortOf, UnfinishedOf
<1>5. /\ cycle' = cycle /\ cycles' = cycles
      /\ status' = [e \in Events |-> IF e \in batch THEN "PROCESSING" ELSE status[e]]
      /\ lease' = [e \in Events |-> IF e \in batch THEN FreshLease(e) ELSE lease[e]]
      /\ leaseLeft' = [e \in Events |-> IF e \in batch THEN LeaseTicks ELSE leaseLeft[e]]
  <2>1. cycle' = [e \in Events |-> IF e \in batch THEN cycle[e] ELSE cycle[e]]
    BY <1>3 DEF Claim
  <2> QED
    BY <1>1, <2>1 DEF Claim, TypeOK
<1>6. KeepsCohorts
  BY <1>3, <1>5 DEF KeepsCohorts
<1>7. \A e \in batch : StageOf(e)' = "leased"
  <2>1. \A e \in batch : e \in Events /\ attempts[e] \in Nat
    BY <1>1, <1>3 DEF TypeOK, Eligible
  <2> QED
    BY <1>5, <2>1, InboxAssumption DEF StageOf, Live, FreshLease, NoLease
<1>8. \A e \in Events \ batch : StageOf(e)' = StageOf(e)
  BY <1>5 DEF StageOf, Live
<1>9. CohortStages' = [CohortStages EXCEPT ![CohortOf(cycle[d])] = "leased"]
  BY <1>4, <1>6, <1>7, <1>8, OneMoves
<1>10. CohortStages[CohortOf(cycle[d])] \in {"waiting", "lapsed"}
  <2>1. StageOf(d) \in {"waiting", "lapsed"}
    BY <1>2, <1>3 DEF StageOf, Eligible, Expired, Live
  <2> QED
    BY <1>4, <2>1 DEF Mapped
<1>11. CohortOf(cycle[d]) \in DOMAIN CohortStages /\ Queue!Of(r, CohortOf(cycle[d]))
  BY <1>2, <1>3, <1>4 DEF Mapped, Queue!Of, Eligible
<1>12. ~Queue!Running(r)
  BY <1>2, <1>3, NothingRuns
<1>13. UNCHANGED WaitingRows
  BY <1>6, CohortsKept
<1> QED
  BY <1>9, <1>10, <1>11, <1>12, <1>13 DEF Queue!Rerun, Queue!Cohorts

LEMMA FormMaps ==
    ASSUME RInv, Mapped, Mapped', NEW w \in Workers, NEW r \in Roots, Claim(w, r), Retried(r) = {}
    PROVE  Queue!Form(r)
<1>0. PICK batch : batch = Batch(r)
  OBVIOUS
<1>1. IInv /\ TypeOK /\ RowShape
  BY DEF RInv, IInv
<1>2. Eligible(r) = Fresh(r)
  BY <1>1 DEF Eligible, Fresh, Retried, RowShape, RInv, FreshIsDue, Expired
<1>3. batch # {} /\ ~Busy(r) /\ batch = Oldest(Fresh(r), BatchSize)
  BY <1>0, <1>2 DEF Claim, Batch
<1>4. batch = Queue!Oldest(WaitingRows[r])
  <2>1. WaitingRows[r] = Fresh(r)
    BY DEF WaitingRows
  <2>2. \A S : Queue!Cardinality(S) = Cardinality(S)
    BY DEF Queue!Cardinality, Cardinality
  <2>3. Oldest(Fresh(r), BatchSize) = Queue!Oldest(Fresh(r))
    BY <2>2 DEF Oldest, Queue!Oldest
  <2> QED
    BY <1>3, <2>1, <2>3
<1>5. batch \subseteq Fresh(r)
  BY <1>3 DEF Oldest
<1>6. /\ cycle' = [e \in Events |-> IF e \in batch THEN cycles + 1 ELSE cycle[e]]
      /\ cycles' = cycles + 1 /\ cycles \in Nat
      /\ status' = [e \in Events |-> IF e \in batch THEN "PROCESSING" ELSE status[e]]
      /\ lease' = [e \in Events |-> IF e \in batch THEN FreshLease(e) ELSE lease[e]]
      /\ leaseLeft' = [e \in Events |-> IF e \in batch THEN LeaseTicks ELSE leaseLeft[e]]
  BY <1>0, <1>1 DEF Claim, BatchCycle, TypeOK
<1>7. WaitingRows' = [WaitingRows EXCEPT ![r] = @ \ batch]
  <2>1. \A q \in Roots : Fresh(q)' = IF q = r THEN Fresh(q) \ batch ELSE Fresh(q)
    BY <1>5, <1>6 DEF Fresh
  <2> QED
    BY <2>1 DEF WaitingRows
<1> DEFINE After(c) == {e \in Events : cycle'[e] = c}
<1>8. \A c : /\ c = cycles + 1 => After(c) = batch
             /\ c \in 1..cycles => After(c) = CohortOf(c)
  <2>1. \A e \in Events : cycle[e] \in Nat /\ cycle[e] <= cycles
    BY <1>1 DEF TypeOK, RowShape
  <2>2. batch \subseteq Events /\ \A e \in batch : cycle[e] = NoCycle
    BY <1>5 DEF Fresh
  <2> QED
    BY <1>6, <2>1, <2>2 DEF CohortOf, NoCycle
<1> HIDE DEF After
<1>9. DOMAIN (CohortStages') = DOMAIN CohortStages \cup {batch}
  <2>1. 1..(cycles + 1) = 1..cycles \cup {cycles + 1}
    BY <1>6
  <2>2. \A b : b \in DOMAIN (CohortStages') <=> \E c \in 1..(cycles + 1) : b = After(c)
    BY <1>6 DEF Mapped, CohortOf, After
  <2>3. \A b : b \in DOMAIN CohortStages <=> \E c \in 1..cycles : b = CohortOf(c)
    BY DEF Mapped
  <2>4. ASSUME NEW b \in DOMAIN (CohortStages') PROVE b \in DOMAIN CohortStages \cup {batch}
    <3>1. PICK c \in 1..(cycles + 1) : b = After(c)
      BY <2>2
    <3>2. CASE c \in 1..cycles
      BY <1>8, <2>3, <3>1, <3>2
    <3>3. CASE c = cycles + 1
      BY <1>8, <3>1, <3>3
    <3> QED
      BY <2>1, <3>2, <3>3
  <2>5. ASSUME NEW b \in DOMAIN CohortStages PROVE b \in DOMAIN (CohortStages')
    <3>1. PICK c \in 1..cycles : b = CohortOf(c)
      BY <2>3
    <3> QED
      BY <1>8, <2>1, <2>2, <3>1
  <2>6. batch \in DOMAIN (CohortStages')
    <3>1. cycles + 1 \in 1..(cycles + 1)
      BY <1>6
    <3>2. ASSUME NEW c, c = cycles + 1 PROVE After(c) = batch
      BY <1>8, <3>2
    <3> QED
      BY <2>2, <3>1, <3>2
  <2> QED
    BY <2>4, <2>5, <2>6
<1>10. CohortStages'[batch] = "leased"
  <2>1. PICK e \in batch : e \in Events /\ attempts[e] \in Nat
    BY <1>1, <1>3, <1>5 DEF Fresh, TypeOK
  <2>2. StageOf(e)' = "leased"
    BY <1>6, <2>1, InboxAssumption DEF StageOf, Live, FreshLease, NoLease
  <2> QED
    BY <1>9, <2>1, <2>2 DEF Mapped
<1>11. ASSUME NEW b \in DOMAIN CohortStages, b # batch PROVE CohortStages'[b] = CohortStages[b]
  <2>1. PICK e \in b : e \in Events /\ cycle[e] # NoCycle
    BY DEF Mapped
  <2>2. e \notin batch
    BY <1>5, <2>1 DEF Fresh
  <2>3. StageOf(e)' = StageOf(e)
    BY <1>6, <2>1, <2>2 DEF StageOf, Live
  <2> QED
    BY <1>9, <2>1, <2>3 DEF Mapped
<1>12. CohortStages' = [b \in DOMAIN CohortStages \cup {batch} |->
                          IF b = batch THEN "leased" ELSE CohortStages[b]]
  <2>1. CohortStages' = [b \in DOMAIN (CohortStages') |-> CohortStages'[b]]
    BY DEF Mapped
  <2> QED
    BY <1>9, <1>10, <1>11, <2>1
<1>13. ~Queue!Running(r)
  BY <1>3, NothingRuns
<1> QED
  BY <1>3, <1>4, <1>7, <1>12, <1>13 DEF Queue!Form, Queue!Cohorts

\* A renewal extends leases that are live.
LEMMA RenewMaps ==
    ASSUME RInv, Mapped, Mapped', NEW w \in Workers, Renew(w)
    PROVE  UNCHANGED <<WaitingRows, CohortStages>>
<1>1. KeepsCohorts
  BY DEF Renew, KeepsCohorts
<1>2. ASSUME NEW e \in Events PROVE StageOf(e)' = StageOf(e)
  <2>1. CASE UNCHANGED leaseLeft
    BY <2>1 DEF Renew, StageOf, Live
  <2>2. CASE /\ \A f \in Claimed(w) : ValidClaim(w, f)
             /\ leaseLeft' = [f \in Events |-> IF f \in Claimed(w) /\ Holds(w, f)
                                               THEN LeaseTicks ELSE leaseLeft[f]]
    <3>1. e \in Claimed(w) /\ Holds(w, e) => leaseLeft[e] > 0
      BY <2>2 DEF ValidClaim, Acknowledged, Holds
    <3> QED
      BY <2>2, <3>1, InboxAssumption DEF Renew, StageOf, Live
  <2> QED
    BY <2>1, <2>2 DEF Renew
<1> QED
  BY <1>1, <1>2, SameStages

LEMMA AckMaps ==
    ASSUME RInv, Mapped, Mapped', NEW w \in Workers, Ack(w)
    PROVE  \/ UNCHANGED <<WaitingRows, CohortStages>>
           \/ \E b \in Queue!Cohorts : Queue!Complete(b)
<1> DEFINE done == {e \in Claimed(w) : Holds(w, e)}
<1>1. /\ IInv /\ TypeOK /\ CohortUniform
      /\ \A e \in Claimed(w) : /\ e \in Events /\ cycle[e] # NoCycle
                               /\ Claimed(w) = CohortOf(cycle[e])
                               /\ \A f \in Claimed(w) : claims[w][f] = claims[w][e]
  BY DEF RInv, IInv, ClaimShape, Claimed, CohortOf
<1>2. CASE UNCHANGED <<status, lease, leaseLeft>>
  <2>1. KeepsCohorts
    BY <1>2 DEF Ack, KeepsCohorts
  <2>2. \A e \in Events : StageOf(e)' = StageOf(e)
    BY <1>2 DEF StageOf, Live
  <2> QED
    BY <2>1, <2>2, SameStages
<1>3. CASE /\ \A e \in Claimed(w) : ValidClaim(w, e)
           /\ status' = [e \in Events |-> IF e \in done THEN "PROCESSED" ELSE status[e]]
           /\ lease' = [e \in Events |-> IF e \in done THEN NoLease ELSE lease[e]]
           /\ leaseLeft' = [e \in Events |-> IF e \in done THEN 0 ELSE leaseLeft[e]]
  <2>1. KeepsCohorts
    BY <1>1, <1>3 DEF Ack, KeepsCohorts
  <2>2. \A e \in Events \ done : StageOf(e)' = StageOf(e)
    BY <1>3 DEF StageOf, Live
  <2>3. CASE done = {}
    BY <2>1, <2>2, <2>3, SameStages
  <2>4. CASE done # {}
    <3>1. PICK d \in Claimed(w) : Holds(w, d)
      BY <2>4
    <3>2. done = CohortOf(cycle[d])
      BY <1>1, <3>1 DEF Holds, CohortUniform, CohortOf
    <3>3. \A e \in done : StageOf(e)' = "done"
      BY <1>1, <1>3 DEF StageOf
    <3>4. CohortStages' = [CohortStages EXCEPT ![CohortOf(cycle[d])] = "done"]
      BY <1>1, <2>1, <2>2, <3>1, <3>2, <3>3, OneMoves
    <3>5. StageOf(d) = "leased"
      <4>1. leaseLeft[d] > 0 /\ status[d] = "PROCESSING" /\ lease[d] # NoLease
        BY <1>3, <3>1 DEF ValidClaim, Acknowledged, Holds, Claimed
      <4> QED
        BY <4>1 DEF StageOf, Live
    <3>6. CohortOf(cycle[d]) \in DOMAIN CohortStages /\ CohortStages[CohortOf(cycle[d])] = "leased"
      BY <1>1, <3>1, <3>5 DEF Mapped
    <3>7. UNCHANGED WaitingRows
      BY <2>1, CohortsKept
    <3> QED
      BY <3>4, <3>6, <3>7 DEF Queue!Complete, Queue!Cohorts
  <2> QED
    BY <2>3, <2>4
<1> QED
  BY <1>2, <1>3 DEF Ack

LEMMA FailMaps ==
    ASSUME RInv, Mapped, Mapped', NEW w \in Workers, Fail(w)
    PROVE  UNCHANGED <<WaitingRows, CohortStages>> \/ Queue!Release
<1>1. \A e \in Claimed(w) : e \in Events /\ cycle[e] # NoCycle
  BY DEF RInv, IInv, ClaimShape, Claimed
<1>2. CASE UNCHANGED <<status, lease, leaseLeft>>
  <2>1. KeepsCohorts
    BY <1>2 DEF Fail, KeepsCohorts
  <2>2. \A e \in Events : StageOf(e)' = StageOf(e)
    BY <1>2 DEF StageOf, Live
  <2> QED
    BY <2>1, <2>2, SameStages
<1>3. CASE /\ \A e \in Claimed(w) : Holds(w, e)
           /\ \A e \in Claimed(w) : status'[e] \in {"FAILED", "PENDING"}
           /\ \A e \in Events \ Claimed(w) : /\ status'[e] = status[e] /\ lease'[e] = lease[e]
                                             /\ leaseLeft'[e] = leaseLeft[e]
  <2>1. KeepsCohorts
    BY <1>1, <1>3 DEF Fail, KeepsCohorts
  <2>2. \A e \in Events \ Claimed(w) : StageOf(e)' = StageOf(e)
    BY <1>3 DEF StageOf, Live
  <2>3. \A e \in Claimed(w) : /\ StageOf(e) \in {"leased", "lapsed"}
                              /\ StageOf(e)' \in {"waiting", "dead"}
    BY <1>3 DEF StageOf, Holds
  <2> QED
    BY <2>1, <2>2, <2>3, Released
<1> QED
  BY <1>1, <1>2, <1>3 DEF Fail

LEMMA RestartMaps ==
    ASSUME RInv, Mapped, Mapped', NEW w \in Workers, Restart(w)
    PROVE  Queue!Release
<1>1. KeepsCohorts
  BY DEF Restart, KeepsCohorts, RInv, IInv, RowShape, Expired
<1>2. ASSUME NEW e \in Events
      PROVE  \/ StageOf(e)' = StageOf(e)
             \/ StageOf(e) \in {"leased", "lapsed"} /\ StageOf(e)' \in {"waiting", "dead"}
  <2>1. CASE Expired(e)
    BY <2>1 DEF Restart, Expired, StageOf
  <2>2. CASE ~Expired(e)
    BY <2>2 DEF Restart, StageOf, Live
  <2> QED
    BY <2>1, <2>2
<1> QED
  BY <1>1, <1>2, Released

LEMMA TickMaps ==
    ASSUME RInv, Mapped, Mapped', Tick
    PROVE  Queue!Lapse
<1>1. KeepsCohorts
  BY DEF Tick, KeepsCohorts
<1>2. ASSUME NEW e \in Events
      PROVE  StageOf(e)' = StageOf(e) \/ (StageOf(e) = "leased" /\ StageOf(e)' = "lapsed")
  <2>1. leaseLeft[e] \in Nat
    BY InboxAssumption DEF RInv, IInv, TypeOK
  <2> QED
    BY <2>1 DEF Tick, StageOf, Live, Elapsed
<1> QED
  BY <1>1, <1>2, Lapsed

LEMMA StepMaps ==
    ASSUME RInv, Mapped, Mapped', [Next]_vars
    PROVE  [Queue!Next]_<<WaitingRows, CohortStages>>
<1>1. CASE UNCHANGED rows
  <2>1. KeepsCohorts /\ \A e \in Events : StageOf(e)' = StageOf(e)
    BY <1>1 DEF rows, KeepsCohorts, StageOf, Live
  <2> QED
    BY <2>1, SameStages
<1>2. ASSUME NEW e \in Events, Persist(e) PROVE Queue!Next
  BY <1>2, PersistMaps DEF Queue!Next
<1>3. ASSUME NEW w \in Workers, NEW r \in Roots, Claim(w, r) PROVE Queue!Next
  BY <1>3, FormMaps, RetryMaps DEF Queue!Next
<1>4. ASSUME NEW w \in Workers, Ack(w) PROVE [Queue!Next]_<<WaitingRows, CohortStages>>
  BY <1>4, AckMaps DEF Queue!Next
<1>5. ASSUME NEW w \in Workers, Fail(w) PROVE [Queue!Next]_<<WaitingRows, CohortStages>>
  BY <1>5, FailMaps DEF Queue!Next
<1>6. ASSUME NEW w \in Workers, Restart(w) PROVE Queue!Next
  BY <1>6, RestartMaps DEF Queue!Next
<1>7. CASE Tick
  BY <1>7, TickMaps DEF Queue!Next
<1>8. ASSUME NEW w \in Workers, NEW r \in Roots,
             Poll(w) \/ FindNothing(w, r) \/ ClaimFails(w, r) \/ Raise(w) \/ Return(w) \/ FailLost(w) \/ Crash(w)
      PROVE  UNCHANGED rows
  BY <1>8 DEF Poll, FindNothing, ClaimFails, Raise, Return, FailLost, Crash
<1>9. CASE UNCHANGED vars
  BY <1>1, <1>9 DEF vars
<1>10. ASSUME NEW w \in Workers, Poll(w) \/ PollFails(w) \/ Raise(w) \/ Return(w) \/ FailLost(w) \/ Crash(w)
       PROVE  UNCHANGED rows
  BY <1>10 DEF Poll, PollFails, Raise, Return, FailLost, Crash
<1> QED
  BY <1>1, <1>2, <1>3, <1>4, <1>5, <1>6, <1>7, <1>8, <1>9, <1>10, RenewMaps DEF Next, Step

-----------------------------------------------------------------------------

LEMMA InitMaps == Init => Queue!Init
<1> SUFFICES ASSUME Init PROVE Queue!Init
  OBVIOUS
<1>1. WaitingRows = [r \in Roots |-> {}]
  BY DEF Init, WaitingRows, Fresh
<1>2. {CohortOf(c) : c \in 1..cycles} = {}
  BY DEF Init
<1>3. CohortStages = [b \in {} |-> "waiting"]
  BY <1>2 DEF CohortStages
<1> QED
  BY <1>1, <1>3 DEF Queue!Init

-----------------------------------------------------------------------------
(* What the cohort queue guarantees, as the rows implement it. *)

Stages == {"leased", "lapsed", "waiting", "done", "dead"}

QueueShape ==
    /\ WaitingRows \in [Roots -> SUBSET Events]
    /\ CohortStages = [b \in Queue!Cohorts |-> CohortStages[b]]
    /\ \A b \in Queue!Cohorts : b \subseteq Events /\ b # {} /\ CohortStages[b] \in Stages
    /\ \A r \in Roots : \A e \in WaitingRows[r] : Root[e] = r

\* An event is in one place: it waits, or belongs to one cohort.
OnePlace ==
    /\ \A b, c \in Queue!Cohorts : b # c => b \cap c = {}
    /\ \A b \in Queue!Cohorts, r \in Roots : b \cap WaitingRows[r] = {}

OneRoot == \A b \in Queue!Cohorts : \A e, f \in b : Root[e] = Root[f]

OneRunning ==
    \A b, c \in Queue!Cohorts, r \in Roots :
        Queue!Of(r, b) /\ Queue!Of(r, c) /\ CohortStages[b] = "leased" /\ CohortStages[c] = "leased" => b = c

QInv == QueueShape /\ OnePlace /\ OneRoot /\ OneRunning

\* A cohort is never broken up, and what is done or dead stays so.
CohortsLast ==
    \A b \in Queue!Cohorts :
        b \in Queue!Cohorts' /\ (CohortStages[b] \in {"done", "dead"} => CohortStages'[b] = CohortStages[b])

\* A new cohort is older than all that it leaves waiting in its root.
OldestFirst ==
    \A b \in Queue!Cohorts' \ Queue!Cohorts, r \in Roots : \A e \in b : \A f \in WaitingRows'[r] :
        Root[e] = r => e < f

-----------------------------------------------------------------------------

LEMMA EventsAreNumbered ==
    /\ Events \subseteq Nat /\ IsFiniteSet(Events)
    /\ Root \in [Events -> Roots] /\ BatchSize \in Nat
BY InboxAssumption, FS_Interval DEF Events

LEMMA InitQInv == Queue!Init => QInv
BY EventsAreNumbered DEF Queue!Init, QInv, QueueShape, OnePlace, OneRoot, OneRunning, Queue!Cohorts, Stages

LEMMA ArriveStep ==
    ASSUME QInv, NEW e \in Events, Queue!Arrive(e)
    PROVE  QInv' /\ CohortsLast /\ OldestFirst
<1> USE DEF Queue!Arrive, Queue!Cohorts
<1>1. QueueShape'
  BY EventsAreNumbered DEF QInv, QueueShape
<1>2. OnePlace'
  <2>1. \A b, c \in Queue!Cohorts' : b # c => b \cap c = {}
    BY DEF QInv, OnePlace
  <2>2. ASSUME NEW b \in Queue!Cohorts, NEW r \in Roots PROVE b \cap WaitingRows'[r] = {}
    <3>1. WaitingRows'[r] \subseteq WaitingRows[r] \cup {e}
      BY DEF QInv, QueueShape
    <3> QED
      BY <3>1 DEF QInv, OnePlace
  <2> QED
    BY <2>1, <2>2 DEF OnePlace
<1>3. OneRoot' /\ OneRunning'
  BY DEF QInv, OneRoot, OneRunning, Queue!Of
<1>4. CohortsLast /\ OldestFirst
  BY DEF CohortsLast, OldestFirst
<1> QED
  BY <1>1, <1>2, <1>3, <1>4 DEF QInv

\* The steps that only change stages: a cohort becomes leased only if none of
\* its root was.
LEMMA StageStep ==
    ASSUME QInv, UNCHANGED WaitingRows,
           CohortStages' = [b \in Queue!Cohorts |-> CohortStages'[b]],
           \A b \in Queue!Cohorts : CohortStages'[b] \in Stages,
           \A b \in Queue!Cohorts :
             CohortStages[b] \in {"done", "dead"} => CohortStages'[b] = CohortStages[b],
           OneRunning'
    PROVE  QInv' /\ CohortsLast /\ OldestFirst
<1>1. Queue!Cohorts' = Queue!Cohorts
  BY DEF Queue!Cohorts
<1> QED
  BY <1>1 DEF QInv, QueueShape, OnePlace, OneRoot, CohortsLast, OldestFirst

LEMMA RerunStep ==
    ASSUME QInv, NEW r \in Roots, NEW b \in Queue!Cohorts, Queue!Rerun(r, b)
    PROVE  QInv' /\ CohortsLast /\ OldestFirst
<1>1. /\ Queue!Cohorts' = Queue!Cohorts
      /\ CohortStages' = [c \in Queue!Cohorts |-> IF c = b THEN "leased" ELSE CohortStages[c]]
  BY DEF Queue!Rerun, Queue!Cohorts, QInv, QueueShape
<1>2. PICK e \in b : Root[e] = r
  BY DEF Queue!Rerun, Queue!Of
<1>3. ASSUME NEW c \in Queue!Cohorts, CohortStages[c] = "leased",
             NEW q \in Roots, Queue!Of(q, b), Queue!Of(q, c)
      PROVE  FALSE
  <2>1. q = r
    BY <1>2, <1>3 DEF Queue!Of, QInv, OneRoot
  <2> QED
    BY <1>3, <2>1 DEF Queue!Rerun, Queue!Running
<1>4. OneRunning'
  BY <1>1, <1>3 DEF OneRunning, Queue!Of, QInv
<1> QED
  BY <1>1, <1>4, StageStep DEF Queue!Rerun, Stages, QInv, QueueShape

LEMMA OtherStep ==
    ASSUME QInv, (\E b \in Queue!Cohorts : Queue!Complete(b)) \/ Queue!Release \/ Queue!Lapse
    PROVE  QInv' /\ CohortsLast /\ OldestFirst
<1>1. /\ CohortStages' = [b \in Queue!Cohorts |-> CohortStages'[b]] /\ UNCHANGED WaitingRows
      /\ \A b \in Queue!Cohorts : \/ CohortStages'[b] = CohortStages[b]
                                  \/ /\ CohortStages[b] \in {"leased", "lapsed"}
                                     /\ CohortStages'[b] \in {"waiting", "dead", "done", "lapsed"}
  <2>1. CASE \E b \in Queue!Cohorts : Queue!Complete(b)
    BY <2>1 DEF Queue!Complete, Queue!Cohorts, QInv, QueueShape
  <2>2. CASE Queue!Release
    BY <2>2 DEF Queue!Release
  <2>3. CASE Queue!Lapse
    BY <2>3 DEF Queue!Lapse
  <2> QED
    BY <2>1, <2>2, <2>3
<1>2. Queue!Cohorts' = Queue!Cohorts
  BY <1>1 DEF Queue!Cohorts
<1>3. OneRunning'
  BY <1>1, <1>2 DEF OneRunning, Queue!Of, QInv
<1> QED
  BY <1>1, <1>3, StageStep DEF Stages, QInv, QueueShape

-----------------------------------------------------------------------------
(* A batch of the oldest. *)

LEMMA OldestAreOlder ==
    ASSUME NEW S, S \subseteq Nat, IsFiniteSet(S), NEW n \in Nat,
           NEW e \in S, Cardinality({g \in S : g <= e}) <= n,
           NEW f \in S, ~ (Cardinality({g \in S : g <= f}) <= n)
    PROVE  e < f
<1> DEFINE Upto(x) == {g \in S : g <= x}
<1>1. ASSUME f <= e PROVE FALSE
  <2>1. Upto(f) \subseteq Upto(e)
    <3>1. ASSUME NEW g \in S, g <= f PROVE g <= e
      <4>1. g \in Nat /\ f \in Nat /\ e \in Nat
        OBVIOUS
      <4> QED
        BY <1>1, <3>1, <4>1
    <3> QED
      BY <3>1
  <2>2. IsFiniteSet(Upto(e))
    BY FS_Subset
  <2>3. Cardinality(Upto(f)) <= Cardinality(Upto(e))
    BY <2>1, <2>2, FS_Subset
  <2>4. Cardinality(Upto(f)) \in Nat /\ Cardinality(Upto(e)) \in Nat
    BY <2>1, <2>2, FS_Subset, FS_CardinalityType
  <2> QED
    BY <2>3, <2>4
<1> QED
  BY <1>1

LEMMA FormStep ==
    ASSUME QInv, NEW r \in Roots, Queue!Form(r)
    PROVE  QInv' /\ CohortsLast /\ OldestFirst
<1> DEFINE b == Queue!Oldest(WaitingRows[r])
<1>1. /\ b # {} /\ b \subseteq WaitingRows[r] /\ ~Queue!Running(r)
      /\ WaitingRows' = [WaitingRows EXCEPT ![r] = @ \ b]
      /\ CohortStages' = [c \in Queue!Cohorts \cup {b} |-> IF c = b THEN "leased" ELSE CohortStages[c]]
  BY DEF Queue!Form, Queue!Oldest
<1>2. b \subseteq Events /\ \A e \in b : Root[e] = r
  BY <1>1 DEF QInv, QueueShape
<1>3. \A c \in Queue!Cohorts : b \cap c = {}
  BY <1>1 DEF QInv, OnePlace
<1>4. b \notin Queue!Cohorts
  BY <1>1, <1>3
<1>5. WaitingRows[r] \subseteq Nat /\ IsFiniteSet(WaitingRows[r])
  BY EventsAreNumbered, FS_Subset DEF QInv, QueueShape
<1>6. ASSUME NEW e \in b, NEW f \in WaitingRows[r] \ b PROVE e < f
  <2> DEFINE S == WaitingRows[r]
  <2>1. \A T : Queue!Cardinality(T) = Cardinality(T)
    BY DEF Queue!Cardinality, Cardinality
  <2>2. /\ e \in S /\ Cardinality({g \in S : g <= e}) <= BatchSize
        /\ f \in S /\ ~ (Cardinality({g \in S : g <= f}) <= BatchSize)
    BY <2>1 DEF Queue!Oldest
  <2> QED
    BY <1>5, <2>2, EventsAreNumbered, OldestAreOlder
<1> HIDE DEF b
<1>7. /\ Queue!Cohorts' = Queue!Cohorts \cup {b}
      /\ CohortStages'[b] = "leased"
      /\ \A c \in Queue!Cohorts : c # b /\ CohortStages'[c] = CohortStages[c]
  BY <1>1, <1>4 DEF Queue!Cohorts
<1>8. WaitingRows'[r] = WaitingRows[r] \ b /\ \A q \in Roots \ {r} : WaitingRows'[q] = WaitingRows[q]
  BY <1>1 DEF QInv, QueueShape
<1>9. QueueShape'
  <2>1. WaitingRows' \in [Roots -> SUBSET Events]
    BY <1>1 DEF QInv, QueueShape
  <2>2. CohortStages' = [c \in Queue!Cohorts' |-> CohortStages'[c]]
    BY <1>1, <1>7
  <2>3. \A c \in Queue!Cohorts' : c \subseteq Events /\ c # {} /\ CohortStages'[c] \in Stages
    BY <1>1, <1>2, <1>7 DEF QInv, QueueShape, Stages
  <2> QED
    BY <1>8, <2>1, <2>2, <2>3 DEF QInv, QueueShape
<1>10. OnePlace'
  <2>1. \A c, d \in Queue!Cohorts' : c # d => c \cap d = {}
    BY <1>3, <1>7 DEF QInv, OnePlace
  <2>2. ASSUME NEW q \in Roots, q # r PROVE b \cap WaitingRows[q] = {}
    BY <1>2, <2>2 DEF QInv, QueueShape
  <2>3. \A c \in Queue!Cohorts', q \in Roots : c \cap WaitingRows'[q] = {}
    BY <1>7, <1>8, <2>2 DEF QInv, OnePlace
  <2> QED
    BY <2>1, <2>3 DEF OnePlace
<1>11. OneRoot'
  BY <1>2, <1>7 DEF QInv, OneRoot
<1>12. OneRunning'
  <2>1. ASSUME NEW c \in Queue!Cohorts, CohortStages[c] = "leased",
               NEW q \in Roots, Queue!Of(q, b), Queue!Of(q, c)
        PROVE  FALSE
    <3>1. q = r
      BY <1>2, <2>1 DEF Queue!Of
    <3> QED
      BY <1>1, <2>1, <3>1 DEF Queue!Running
  <2> QED
    BY <1>7, <2>1 DEF OneRunning, Queue!Of, QInv
<1>13. CohortsLast
  BY <1>7 DEF CohortsLast
<1>14. OldestFirst
  BY <1>2, <1>6, <1>7, <1>8 DEF OldestFirst
<1> QED
  BY <1>9, <1>10, <1>11, <1>12, <1>13, <1>14 DEF QInv

LEMMA NextQInv ==
    ASSUME QInv, [Queue!Next]_<<WaitingRows, CohortStages>>
    PROVE  QInv' /\ CohortsLast /\ OldestFirst
<1>1. CASE UNCHANGED <<WaitingRows, CohortStages>>
  BY <1>1 DEF QInv, QueueShape, OnePlace, OneRoot, OneRunning, Queue!Cohorts, Queue!Of, CohortsLast, OldestFirst
<1> QED
  BY <1>1, ArriveStep, FormStep, RerunStep, OtherStep DEF Queue!Next

-----------------------------------------------------------------------------
(* The theorems. *)

\* Rows stay well typed.
THEOREM InboxTyped == Spec => []TypeOK
<1>1. IInv => TypeOK
  BY DEF IInv
<1> QED
  BY <1>1, Invariance, PTL

\* The rows of a cycle stay together through every claim, renewal,
\* acknowledgement, failure and recovery (the transactions of repository.py).
THEOREM CohortsMoveTogether == Spec => []CohortUniform
<1>1. IInv => CohortUniform
  BY DEF IInv
<1> QED
  BY <1>1, Invariance, PTL

\* The current lease of a row is held by one process, whoever took it over and
\* however late the former holder is (claim_pending, recover_expired).
THEOREM OneOwner == Spec => []SoleHolder
<1>1. IInv => SoleHolder
  BY DEF IInv, SoleHolder, LeaseUnique, Holds, Claimed
<1> QED
  BY <1>1, Invariance, PTL

\* Two processes never both believe that they completed an event
\* (mark_processed_batch).
THEOREM OneCompletes == Spec => []CompletedOnce
<1>1. IInv => CompletedOnce
  BY DEF IInv, CompletedOnce, AckedShape, LeaseUnique, Acknowledged, Claimed
<1> QED
  BY <1>1, Invariance, PTL

\* With one process draining the database, a row is claimed more often than its limit allows only
\* after as many crashes or lost failure reports: claim_pending takes an expired row without
\* asking for retry_count, and mark_failed_batch and recover_expired ask for it.
THEOREM FaultsPayForAttempts ==
    ASSUME \A u, w \in Workers : u = w
    PROVE  Spec => []AttemptsPaidByFaults
<1>1. PaidInv => AttemptsPaidByFaults
  BY DEF PaidInv
<1> QED
  BY <1>1, PaidInvariant, PTL

\* The rows, leases, attempts and restarts of the Inbox (repository.py) do no
\* more than the cohort queue allows, for any number of events, roots and
\* supervisor processes.
THEOREM InboxImplementsQueue == Spec => ImplementsQueue
<1>1. RInv /\ [Next]_vars => RInv'
  BY NextRInv
<1>2. RInv => Mapped
  BY RowsAreMapped
<1>3. RInv /\ Mapped /\ Mapped' /\ [Next]_vars => [Queue!Next]_<<WaitingRows, CohortStages>>
  BY StepMaps
<1> QED
  BY <1>1, <1>2, <1>3, InitRInv, InitMaps, PTL DEF Spec, ImplementsQueue, Queue!Spec

\* Every event waits in its root or is in exactly one cohort, a cohort is of one
\* root, and a root has one cohort under a live lease, whichever processes claim,
\* lapse and restart: what claim_pending (repository.py) is written for.
THEOREM QueueIsExclusive == Spec => [](OnePlace /\ OneRoot /\ OneRunning)
<1>1. QInv /\ [Queue!Next]_<<WaitingRows, CohortStages>> => QInv'
  BY NextQInv
<1>2. QInv => OnePlace /\ OneRoot /\ OneRunning
  BY DEF QInv
<1>3. Queue!Spec => [](OnePlace /\ OneRoot /\ OneRunning)
  BY <1>1, <1>2, InitQInv, PTL DEF Queue!Spec
<1> QED
  BY <1>3, InboxImplementsQueue, PTL DEF ImplementsQueue

\* Cohorts are never broken up, done and dead ones stay so, and each cohort is
\* older than what it leaves waiting: events of a root are processed in order.
THEOREM QueueIsOrdered == Spec => [][CohortsLast /\ OldestFirst]_<<WaitingRows, CohortStages>>
<1>1. QInv /\ [Queue!Next]_<<WaitingRows, CohortStages>> => QInv'
  BY NextQInv
<1>2. QInv /\ [Queue!Next]_<<WaitingRows, CohortStages>>
      => [CohortsLast /\ OldestFirst]_<<WaitingRows, CohortStages>>
  BY NextQInv
<1>3. Queue!Spec => [][CohortsLast /\ OldestFirst]_<<WaitingRows, CohortStages>>
  BY <1>1, <1>2, InitQInv, PTL DEF Queue!Spec
<1> QED
  BY <1>3, InboxImplementsQueue, PTL DEF ImplementsQueue
-----------------------------------------------------------------------------
(* The connection under the Inbox: its lock keeps transactions apart, so the *)
(* calls that Inbox models as steps are atomic and what they answer is on    *)
(* disk, for any number of calls and any size of a cohort.                   *)

OnlyInbox == \A t \in Tasks : Op[t] \in InboxOps

\* The lock of the Inbox is with the one call that is under way.
OneAtATime ==
    /\ \A t \in Tasks : t \in holder["inbox"] <=> Active(t)
    /\ \A t, u \in Tasks : Active(t) /\ Active(u) => t = u

WrittenShape ==
    \A t \in Tasks : /\ stage[t] \in {"new", "begin"} => written[t] = 0
                     /\ written[t] <= Writes(t)

\* A set_objective that was cancelled; its one write may still be pending.
Abandoned(t) == stage[t] = "cancelled" /\ Op[t] = "set_objective"

\* The open transaction is what the call under way wrote so far, and what
\* was abandoned.
PendingIsOwn ==
    /\ pending # {} => open
    /\ \A x \in pending : \E t \in Tasks :
          \/ stage[t] = "writing" /\ \E i \in 1..written[t] : x = <<t, i>>
          \/ Abandoned(t) /\ x = <<t, 1>>
    /\ \A t \in Tasks : stage[t] = "writing" => \A i \in 1..written[t] : <<t, i>> \in pending

NoneOf(t) == \A i \in Nat : <<t, i>> \notin durable
AllOf(t) == \A i \in 1..Writes(t) : <<t, i>> \in durable

DurableShape ==
    \A t \in Tasks : CASE stage[t] = "ok" -> AllOf(t)
                       [] stage[t] \in {"rejected", "raised", "cancelled"} -> AllOf(t) \/ NoneOf(t)
                       [] OTHER -> NoneOf(t)

ConnectionInv == ConnectionTypeOK /\ OneAtATime /\ WrittenShape /\ PendingIsOwn /\ DurableShape

-----------------------------------------------------------------------------

LEMMA CallTypes ==
    ASSUME OnlyInbox, NEW t \in Tasks
    PROVE  LockOf(t) = "inbox" /\ Writes(t) \in Nat \ {0} /\ (MayReject(t) => Begins(t))
           /\ (Cancellable(t) => RollsBack(t) \/ Op[t] = "set_objective")
           /\ (Op[t] = "set_objective" => Writes(t) = 1 /\ ~MayReject(t))
BY SharedAssumption
   DEF OnlyInbox, LockOf, Writes, MayReject, Begins, InboxOps, WorkerOps, Cancellable, RollsBack

LEMMA InitConnection == ASSUME OnlyInbox PROVE ConnectionInit => ConnectionInv
<1> SUFFICES ASSUME ConnectionInit PROVE ConnectionInv
  OBVIOUS
<1>1. ConnectionTypeOK /\ OneAtATime
  BY DEF ConnectionInit, ConnectionTypeOK, OneAtATime, Active, Locks
<1>2. WrittenShape
  <2>1. ASSUME NEW t \in Tasks PROVE written[t] = 0 /\ written[t] <= Writes(t)
    <3>1. written[t] = 0 /\ Writes(t) \in Nat
      BY CallTypes DEF ConnectionInit
    <3> QED
      BY <3>1
  <2> QED
    BY <2>1 DEF WrittenShape
<1>3. PendingIsOwn /\ DurableShape
  BY DEF ConnectionInit, PendingIsOwn, DurableShape, NoneOf
<1> QED
  BY <1>1, <1>2, <1>3 DEF ConnectionInv

\* A call that is over and settled nothing, or all of what it wrote.
LEMMA LeaveStep ==
    ASSUME OnlyInbox, ConnectionInv, NEW t \in Tasks, Active(t), NEW outcome \in Over,
           Leave(t, outcome), UNCHANGED written, open' \in BOOLEAN,
           \/ /\ UNCHANGED <<pending, durable>> /\ (open => open')
              /\ written[t] = 0 \/ (outcome = "cancelled" /\ Op[t] = "set_objective")
           \/ Rollback
           \/ Commit /\ stage[t] = "writing" /\ written[t] = Writes(t),
           outcome = "ok" => Commit /\ stage[t] = "writing" /\ written[t] = Writes(t)
    PROVE  ConnectionInv'
<1> USE DEF Leave
<1>1. /\ stage' = [stage EXCEPT ![t] = outcome]
      /\ stage' \in [Tasks -> {"new", "begin", "writing"} \cup Over]
      /\ \A u \in Tasks : u # t => ~Active(u) /\ stage'[u] = stage[u]
      /\ ~Active(t)' /\ stage'[t] = outcome
  BY DEF ConnectionInv, ConnectionTypeOK, OneAtATime, Active, Over
<1>2. holder' = [holder EXCEPT !["inbox"] = @ \ {t}]
  BY CallTypes
<1>3. /\ durable' = durable \/ durable' = durable \cup pending
      /\ pending' = {} \/ (pending' = pending /\ durable' = durable)
  BY DEF Commit, Rollback
<1>4. ConnectionTypeOK'
  BY <1>1, <1>2, <1>3 DEF ConnectionInv, ConnectionTypeOK, Locks
<1>5. OneAtATime'
  BY <1>1, <1>2 DEF ConnectionInv, OneAtATime, ConnectionTypeOK, Active, Locks
<1>6. WrittenShape' /\ PendingIsOwn'
  <2>1. WrittenShape'
    BY <1>1 DEF ConnectionInv, WrittenShape, Over, Writes, MayReject, Begins
  <2>2. \A u \in Tasks : stage'[u] # "writing"
    BY <1>1 DEF Active, Over
  <2>3. CASE pending' = {}
    BY <2>1, <2>2, <2>3 DEF PendingIsOwn
  <2>4. CASE pending' = pending /\ pending # {}
    <3>1. /\ open' /\ written[t] \in Nat /\ written[t] <= Writes(t)
          /\ written[t] = 0 \/ (Abandoned(t)' /\ Writes(t) = 1)
      BY <1>1, <2>4, CallTypes
         DEF ConnectionInv, ConnectionTypeOK, WrittenShape, PendingIsOwn, Abandoned, Commit, Rollback
    <3>2. ASSUME NEW x \in pending PROVE \E u \in Tasks : Abandoned(u)' /\ x = <<u, 1>>
      <4>1. PICK u \in Tasks : \/ stage[u] = "writing" /\ \E i \in 1..written[u] : x = <<u, i>>
                               \/ Abandoned(u) /\ x = <<u, 1>>
        BY <3>2 DEF ConnectionInv, PendingIsOwn
      <4>2. CASE u # t
        BY <1>1, <4>1, <4>2 DEF Abandoned, Active
      <4>3. CASE u = t
        <5>1. PICK i \in 1..written[t] : x = <<t, i>>
          BY <4>1, <4>3 DEF Abandoned, Active
        <5>2. i = 1 /\ Abandoned(t)'
          BY <3>1, <5>1
        <5> QED
          BY <5>1, <5>2
      <4> QED
        BY <4>2, <4>3
    <3> QED
      BY <2>1, <2>2, <2>4, <3>1, <3>2 DEF PendingIsOwn
  <2> QED
    BY <1>3, <2>1, <2>3, <2>4
<1>7. \A u \in Tasks : u # t =>
        /\ AllOf(u) => AllOf(u)'
        /\ NoneOf(u) => NoneOf(u)' \/ (Abandoned(u) /\ AllOf(u)')
  <2>1. ASSUME NEW u \in Tasks, u # t, NEW i \in Nat, <<u, i>> \in pending
        PROVE  Abandoned(u) /\ i = 1
    BY <1>1, <2>1 DEF ConnectionInv, PendingIsOwn, Active
  <2>2. ASSUME NEW u \in Tasks, u # t, NoneOf(u), ~NoneOf(u)'
        PROVE  Abandoned(u) /\ AllOf(u)'
    <3>1. PICK i \in Nat : <<u, i>> \in durable'
      BY <2>2 DEF NoneOf
    <3>2. <<u, i>> \in pending
      BY <1>3, <2>2, <3>1 DEF NoneOf
    <3>3. Abandoned(u) /\ i = 1
      BY <2>1, <2>2, <3>2
    <3>4. Writes(u) = 1
      BY <3>3, CallTypes DEF Abandoned
    <3> QED
      BY <3>1, <3>3, <3>4 DEF AllOf, Writes, MayReject, Begins
  <2> QED
    BY <1>3, <2>2 DEF AllOf, Writes, MayReject, Begins
<1>8. outcome # "ok" => AllOf(t)' \/ NoneOf(t)'
  <2>1. NoneOf(t)
    BY DEF ConnectionInv, DurableShape, Active
  <2>2. CASE durable' = durable
    BY <2>1, <2>2 DEF NoneOf
  <2>3. CASE Commit /\ stage[t] = "writing" /\ written[t] = Writes(t)
    BY <2>3 DEF Commit, ConnectionInv, PendingIsOwn, AllOf, Writes
  <2> QED
    BY <2>2, <2>3 DEF Rollback
<1>9. outcome = "ok" => AllOf(t)'
  BY DEF Commit, ConnectionInv, PendingIsOwn, AllOf, Writes
<1>10. DurableShape'
  <2>1. ASSUME NEW u \in Tasks, u # t
        PROVE  CASE stage'[u] = "ok" -> AllOf(u)'
                 [] stage'[u] \in {"rejected", "raised", "cancelled"} -> AllOf(u)' \/ NoneOf(u)'
                 [] OTHER -> NoneOf(u)'
    BY <1>1, <1>7, <2>1 DEF ConnectionInv, DurableShape, Abandoned
  <2>2. CASE outcome = "ok"
    BY <1>1, <1>9, <2>1, <2>2 DEF DurableShape
  <2>3. CASE outcome # "ok"
    BY <1>1, <1>8, <2>1, <2>3 DEF DurableShape, Over
  <2> QED
    BY <2>2, <2>3
<1> QED
  BY <1>4, <1>5, <1>6, <1>10 DEF ConnectionInv

LEMMA CallStep ==
    ASSUME OnlyInbox, ConnectionInv, NEW t \in Tasks, Call(t)
    PROVE  ConnectionInv'
<1>1. CASE Start(t)
  <2>1. /\ stage[t] = "new" /\ \A u \in Tasks : ~Active(u)
        /\ holder' = [holder EXCEPT !["inbox"] = @ \cup {t}]
    BY <1>1, CallTypes DEF Start, LockFree, ConnectionInv, OneAtATime
  <2>2. /\ stage' = [stage EXCEPT ![t] = IF Begins(t) THEN "begin" ELSE "writing"]
        /\ UNCHANGED <<written, open, pending, durable>>
    BY <1>1 DEF Start
  <2>3. ConnectionTypeOK'
    BY <2>1, <2>2 DEF ConnectionInv, ConnectionTypeOK, Locks
  <2>4. OneAtATime'
    BY <2>1, <2>2 DEF ConnectionInv, OneAtATime, ConnectionTypeOK, Active, Locks
  <2>5. written[t] = 0
    BY <2>1 DEF ConnectionInv, WrittenShape
  <2>6. WrittenShape' /\ PendingIsOwn'
    BY <2>1, <2>2, <2>5 DEF ConnectionInv, WrittenShape, PendingIsOwn, ConnectionTypeOK, Active,
                            Abandoned, Writes, MayReject, Begins
  <2>7. DurableShape'
    BY <2>1, <2>2 DEF ConnectionInv, DurableShape, ConnectionTypeOK,
                      NoneOf, AllOf, Writes, MayReject, Begins
  <2> QED
    BY <2>3, <2>4, <2>6, <2>7 DEF ConnectionInv
<1>2. CASE Begin(t)
  <2>1. Active(t) /\ written[t] = 0 /\ stage[t] = "begin"
    BY <1>2 DEF Begin, Active, ConnectionInv, WrittenShape
  <2>2. CASE open
    BY <1>2, <2>1, <2>2, LeaveStep DEF Begin, Over, ConnectionInv, ConnectionTypeOK
  <2>3. CASE ~open
    <3>4. pending = {}
      BY <2>3 DEF ConnectionInv, PendingIsOwn
    <3>1. /\ open' = TRUE /\ stage' = [stage EXCEPT ![t] = "writing"]
          /\ UNCHANGED <<holder, written, pending, durable>>
      BY <1>2, <2>3 DEF Begin
    <3>2. ConnectionTypeOK' /\ OneAtATime'
      BY <2>1, <3>1 DEF ConnectionInv, ConnectionTypeOK, OneAtATime, Active
    <3>3. WrittenShape' /\ PendingIsOwn' /\ DurableShape'
      BY <2>1, <3>1, <3>4 DEF ConnectionInv, ConnectionTypeOK, WrittenShape, PendingIsOwn,
                        Abandoned, DurableShape, NoneOf, AllOf, Writes, MayReject, Begins
    <3> QED
      BY <3>2, <3>3 DEF ConnectionInv
  <2> QED
    BY <2>2, <2>3
<1>3. CASE Write(t)
  <2>1. /\ stage[t] = "writing" /\ written[t] < Writes(t) /\ written[t] \in Nat
        /\ written' = [written EXCEPT ![t] = written[t] + 1]
        /\ pending' = pending \cup {<<t, written[t] + 1>>} /\ open' = TRUE
        /\ UNCHANGED <<stage, holder, durable>>
    BY <1>3 DEF Write, ConnectionInv, ConnectionTypeOK
  <2>2. ConnectionTypeOK' /\ OneAtATime' /\ DurableShape'
    BY <2>1 DEF ConnectionInv, ConnectionTypeOK, OneAtATime, Active, DurableShape,
                NoneOf, AllOf, Writes, MayReject, Begins
  <2>3. Writes(t) \in Nat
    BY CallTypes
  <2>4. WrittenShape'
    BY <2>1, <2>3 DEF ConnectionInv, ConnectionTypeOK, WrittenShape, Writes, MayReject, Begins
  <2>5. PendingIsOwn'
    <3>1. written' \in [Tasks -> Nat] /\ written'[t] = written[t] + 1
          /\ \A u \in Tasks : u # t => written'[u] = written[u]
      BY <2>1 DEF ConnectionInv, ConnectionTypeOK
    <3>2. 1..written'[t] = 1..written[t] \cup {written[t] + 1}
      BY <2>1, <3>1
    <3> QED
      BY <2>1, <3>1, <3>2 DEF ConnectionInv, PendingIsOwn, Abandoned
  <2> QED
    BY <2>2, <2>4, <2>5 DEF ConnectionInv
<1>4. CASE Reject(t)
  BY <1>4, LeaveStep DEF Reject, Active, Rollback, Over
<1>5. CASE Finish(t)
  BY <1>5, LeaveStep DEF Finish, Active, Commit, Over
<1>6. CASE CancelInBegin(t)
  <2>1. Active(t) /\ written[t] = 0
    BY <1>6 DEF CancelInBegin, Active, ConnectionInv, WrittenShape
  <2> QED
    BY <1>6, <2>1, LeaveStep DEF CancelInBegin, Over
<1>7. CASE Cancel(t)
  <2>1. /\ stage[t] = "writing" /\ Active(t) /\ "cancelled" \in Over
        /\ Leave(t, "cancelled") /\ UNCHANGED written
        /\ \/ written[t] = Writes(t) /\ Commit
           \/ Rollback
           \/ Op[t] = "set_objective" /\ UNCHANGED <<open, pending, durable>>
    BY <1>7, CallTypes DEF Cancel, Active, Over
  <2>2. open' \in BOOLEAN
    BY <2>1 DEF Commit, Rollback, ConnectionInv, ConnectionTypeOK
  <2> QED
    BY <2>1, <2>2, LeaveStep
<1> QED
  BY <1>1, <1>2, <1>3, <1>4, <1>5, <1>6, <1>7 DEF Call

LEMMA DeathStep == ASSUME OnlyInbox, ConnectionInv, ProcessDies PROVE ConnectionInv'
<1>1. /\ stage' = [t \in Tasks |-> IF Active(t) THEN "raised" ELSE stage[t]]
      /\ holder' = [l \in Locks |-> {}] /\ open' = FALSE /\ pending' = {}
      /\ UNCHANGED <<written, durable>>
  BY DEF ProcessDies, Rollback
<1>2. ConnectionTypeOK' /\ OneAtATime'
  BY <1>1 DEF ConnectionInv, ConnectionTypeOK, OneAtATime, Active, Over, Locks
<1>3. WrittenShape' /\ PendingIsOwn'
  BY <1>1 DEF ConnectionInv, WrittenShape, PendingIsOwn, Active, Writes, MayReject, Begins
<1>4. DurableShape'
  BY <1>1 DEF ConnectionInv, DurableShape, Active, NoneOf, AllOf, Writes, MayReject, Begins
<1> QED
  BY <1>2, <1>3, <1>4 DEF ConnectionInv

-----------------------------------------------------------------------------

LEMMA ConnectionInvariance == ASSUME OnlyInbox PROVE ConnectionSpec => []ConnectionInv
<1>1. ConnectionInv /\ [ConnectionNext]_connectionVars => ConnectionInv'
  <2>1. ASSUME ConnectionInv, UNCHANGED connectionVars PROVE ConnectionInv'
    BY <2>1 DEF connectionVars, ConnectionInv, ConnectionTypeOK, OneAtATime, Active, WrittenShape,
                PendingIsOwn, Abandoned, DurableShape, NoneOf, AllOf, Writes, MayReject, Begins
  <2> QED
    BY <2>1, CallStep, DeathStep DEF ConnectionNext
<1> QED
  BY <1>1, InitConnection, PTL DEF ConnectionSpec

\* Without the intervention queue on the same connection, an Inbox call that
\* answered has all of its rows on disk (recover_expired, insert_event,
\* claim_pending, set_objective, mark_processed_batch, renew_leases and
\* mark_failed_batch of repository.py, under their one lock).
THEOREM InboxAnswersAreDurable ==
    ASSUME OnlyInbox
    PROVE  ConnectionSpec => []AnsweredIsDurable
<1>1. ConnectionInv => AnsweredIsDurable
  BY DEF ConnectionInv, DurableShape, AnsweredIsDurable, AllWrites, AllOf
<1> QED
  BY <1>1, ConnectionInvariance, PTL

\* An Inbox call that is over, in whatever way, has all of its rows on disk or
\* none of them, and a transaction without anybody in it holds no row of an
\* event: the steps of the module Inbox are atomic, also around a set_objective
\* that was cancelled before its COMMIT.
THEOREM InboxCallsAreAtomic ==
    ASSUME OnlyInbox
    PROVE  ConnectionSpec => []WholeOrNothing
<1>1. ConnectionInv => WholeOrNothing
  <2>1. ASSUME ConnectionInv, NEW t \in Tasks, stage[t] \in Over
        PROVE  AllWrites(t) \subseteq durable \/ AllWrites(t) \cap durable = {}
    BY <2>1 DEF ConnectionInv, DurableShape, Over, AllWrites, AllOf, NoneOf
  <2>2. ASSUME ConnectionInv, \A t \in Tasks : ~Active(t), NEW x \in pending
        PROVE  stage[x[1]] = "cancelled" /\ Op[x[1]] = "set_objective"
    BY <2>2 DEF ConnectionInv, PendingIsOwn, Abandoned, Active
  <2> QED
    BY <2>1, <2>2 DEF WholeOrNothing
<1> QED
  BY <1>1, ConnectionInvariance, PTL
=============================================================================
