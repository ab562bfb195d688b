------------------------- MODULE MemoryUpdateProofs -------------------------
(* Safety of MemoryUpdate for any facts, candidates, pages and attempts.     *)
EXTENDS MemoryUpdate, WellFoundedInduction, FiniteSetTheorems, TLAPS

Row ==
  [text : [category : Categories, fact : Facts \cup {"other"}], mine : BOOLEAN, refs : SUBSET Refs]

\* A memory of the cohort tells, for each of its references, what some attempt has answered.
Told(m) == m.refs # {} /\ \A r \in m.refs : \E a \in answers : r \in DOMAIN a /\ a[r] = m.text

\* The cohort's own memories are the newest, and relations join memories that are there.
StoreSound ==
  /\ stored \in Seq(Row)
  /\ links \in Seq(Nat \X Nat)
  /\ \A l \in ToSet(links) : l[1] \in DOMAIN stored /\ l[2] \in DOMAIN stored
  /\ \A i \in Mine : Told(stored[i]) /\ \A j \in DOMAIN stored : j > i => j \in Mine

Distinct(m) == \A i \in Mine : stored[i].text # m.text /\ stored[i].refs \cap m.refs = {}

Once ==
  /\ \A i, j \in Mine :
       i # j => stored[i].text # stored[j].text /\ stored[i].refs \cap stored[j].refs = {}
  /\ IsInjective(links)

\* What a call that writes carries, and whether nothing like it is stored.
IsWrite(w) ==
  \/ w = NoWrite
  \/ \E m \in Row : w = <<"create", m>> /\ m.mine /\ Told(m)
  \/ \E l \in (DOMAIN stored) \X (DOMAIN stored) : w = <<"link", l>>

IsNew(w) ==
  /\ w[1] = "create" => Distinct(w[2])
  /\ w[1] = "link" => w[2] \notin ToSet(links)

\* A write that nobody waits for is still new, unless an attempt has overtaken it.
LateSound ==
  /\ IsWrite(late)
  /\ late = NoWrite => ~overtaken
  /\ late # NoWrite /\ ~overtaken => phase \in {"load", "failed"} /\ (~crossed => IsNew(late))

\* The attempt knows all relations at memory i.
Covered(i) == \A l \in ToSet(links) : i \in {l[1], l[2]} => l \in context.known

ContextSound ==
  /\ context \in [loaded : SUBSET DOMAIN stored, truncated : BOOLEAN, known : SUBSET ToSet(links)]
  /\ ~crossed => \A i \in context.loaded : Covered(i)
  /\ ~crossed /\ phase \in {"propose", "plan"} => Mine \subseteq context.loaded

Ends ==
  {Nothing} \cup {Candidate(r) : r \in Kept} \cup {Existing(i) : i \in DOMAIN stored}

ProposalSound ==
  /\ Kept \subseteq Refs /\ proposal.text \in [Kept -> Texts] /\ proposal.text \in answers
  /\ proposal.target \in [Kept -> Ends]

Ours(r) == End(Candidate(r), plan)
Theirs(r) == End(proposal.target[r], plan)

\* The relation that stands for what candidate r is to be related to.
Relation(r) ==
  LET end == proposal.target[r]
  IN  <<plan[r], IF end[1] = "memory" THEN end[2] ELSE plan[end[2]]>>

\* The memory a candidate is taken for tells its text or carries its reference.
Worded ==
  \A r \in Kept :
    plan[r] # 0 =>
      LET m == stored[plan[r]]
      IN  m.text = proposal.text[r] \/ (plan[r] \in Mine /\ r \in m.refs)

\* A candidate that is still to be created is not there, and one that has a memory has all
\* of its relations known.
Fresh ==
  ~crossed => \A r \in Kept :
    IF plan[r] # 0 THEN Covered(plan[r])
    ELSE \A i \in Mine : r \notin stored[i].refs /\ stored[i].text # proposal.text[r]

PlanType == plan \in [Kept -> DOMAIN stored \cup {0}] /\ open \subseteq Kept

\* Relations that are left out or no longer open need no write.
Settled ==
  /\ \A r \in open : proposal.target[r] # Nothing /\ Ours(r) # Theirs(r)
  /\ \A r \in Kept \ open :
       \/ proposal.target[r] = Nothing \/ Ours(r) = Theirs(r)
       \/ Unwritten = {} /\ Relation(r) \in ToSet(links)

PlanSound == PlanType /\ Settled /\ Worded /\ Fresh

IInv ==
  /\ phase \in {"load", "propose", "plan", "write", "applied", "acknowledged", "failed"}
  /\ crossed \in BOOLEAN /\ overtaken \in BOOLEAN
  /\ StoreSound /\ LateSound /\ (~crossed => Once)
  /\ phase \in {"propose", "plan", "write"} => ContextSound
  /\ phase \in {"plan", "write", "applied"} => ProposalSound
  /\ phase = "write" => PlanSound
  /\ phase = "applied" => PlanSound /\ Unwritten = {} /\ open = {}

-----------------------------------------------------------------------------
(* Sets of numbers. *)

LEMMA MinIsMember ==
  ASSUME NEW S \in SUBSET Nat, S # {}
  PROVE  Min(S) \in S /\ \A y \in S : Min(S) <= y
<1> DEFINE R == {ss \in Nat \X Nat : ss[1] < ss[2]}
<1>1. IsWellFoundedOn(R, Nat)
  BY NatLessThanWellFounded DEF OpToRel
<1> HIDE DEF R
<1>2. PICK x \in S : \A y \in S : ~ (<<y, x>> \in R)
  BY <1>1, WFMin
<1>3. ASSUME NEW y \in S PROVE x <= y
  <2>1. x \in Nat /\ y \in Nat /\ <<y, x>> \notin R
    BY <1>2
  <2>2. ~ (y < x)
    BY <2>1 DEF R
  <2> QED
    BY <2>1, <2>2
<1> QED
  BY <1>3 DEF Min

LEMMA Constants ==
  /\ MaxCandidates \in Nat /\ PageSize \in Nat /\ MaxCandidates <= PageSize /\ PageSize > 0
  /\ Refs \in SUBSET Nat /\ 0 \notin Refs /\ 1 \in Refs
BY UpdateAssumption DEF Refs

\* Memories that share no reference are no more than the references there are.
LEMMA FewOwn ==
  ASSUME StoreSound, Once
  PROVE  IsFiniteSet(Mine) /\ Cardinality(Mine) <= MaxCandidates
<1> DEFINE ref == [i \in Mine |-> Min(stored[i].refs)]
<1>1. ASSUME NEW i \in Mine
      PROVE  ref[i] \in stored[i].refs /\ stored[i].refs \in SUBSET Refs
  <2>1. stored[i] \in Row
    BY DEF StoreSound, Mine
  <2>2. stored[i].refs \in SUBSET Nat /\ stored[i].refs # {} /\ stored[i].refs \in SUBSET Refs
    BY <2>1, Constants DEF StoreSound, Told, Row
  <2> QED
    BY <2>2, MinIsMember
<1>2. ref \in [Mine -> Refs]
  BY <1>1
<1>3. \A i, j \in Mine : ref[i] = ref[j] => i = j
  BY <1>1 DEF Once
<1>4. ref \in Injection(Mine, Refs)
  BY <1>2, <1>3 DEF Injection, IsInjective
<1>5. IsFiniteSet(Refs) /\ Cardinality(Refs) = MaxCandidates
  <2>1. IsFiniteSet(1 .. MaxCandidates)
        /\ Cardinality(1 .. MaxCandidates) = IF 1 > MaxCandidates THEN 0 ELSE MaxCandidates - 1 + 1
    BY Constants, FS_Interval
  <2> QED
    BY <2>1, UpdateAssumption DEF Refs
<1> QED
  BY <1>4, <1>5, FS_Injection

\* So the page holds all of them.
LEMMA OwnAreLoaded ==
  ASSUME StoreSound, Once
  PROVE  Mine \subseteq Context.loaded
<1> SUFFICES ASSUME NEW i \in Mine PROVE i \in Context.loaded
  OBVIOUS
<1> DEFINE c == stored[i].text.category
           newer == {j \in In(c) : j > i}
<1>1. stored[i] \in Row /\ i \in DOMAIN stored /\ DOMAIN stored \in SUBSET Nat
  BY DEF StoreSound, Mine
<1>2. c \in Categories /\ i \in In(c)
  BY <1>1 DEF Row, In
<1>3. newer \in SUBSET (Mine \ {i})
  BY <1>1 DEF StoreSound, In
<1>4. /\ IsFiniteSet(Mine \ {i}) /\ Cardinality(Mine \ {i}) = Cardinality(Mine) - 1
      /\ Cardinality(Mine) \in Nat /\ Cardinality(Mine) <= MaxCandidates
  BY FewOwn, FS_RemoveElement, FS_CardinalityType
<1>5. Cardinality(newer) <= Cardinality(Mine \ {i}) /\ Cardinality(newer) \in Nat
  BY <1>3, <1>4, FS_Subset, FS_CardinalityType
<1>6. i \in Newest(In(c), PageSize)
  BY <1>2, <1>4, <1>5, Constants DEF Newest
<1> QED
  BY <1>2, <1>6 DEF Context

-----------------------------------------------------------------------------
(* Writes. *)

LEMMA Lengths ==
  ASSUME StoreSound
  PROVE  /\ Len(stored) \in Nat /\ DOMAIN stored = 1 .. Len(stored)
         /\ Len(stored) + 1 \in Nat /\ Len(stored) + 1 \notin DOMAIN stored /\ 0 \notin DOMAIN stored
         /\ Mine \subseteq DOMAIN stored
BY DEF StoreSound, Mine

LEMMA MemoryAdded ==
  ASSUME StoreSound, NEW m \in Row, m.mine, Told(m),
         stored' = Append(stored, m), UNCHANGED <<links, answers>>
  PROVE  LET n == Len(stored) + 1
         IN  /\ StoreSound'
             /\ DOMAIN stored' = DOMAIN stored \cup {n} /\ stored'[n] = m
             /\ \A i \in DOMAIN stored : stored'[i] = stored[i]
             /\ Mine' = Mine \cup {n}
             /\ Once /\ Distinct(m) => Once'
<1> DEFINE n == Len(stored) + 1
<1>1. /\ stored \in Seq(Row) /\ Len(stored) \in Nat /\ DOMAIN stored = 1 .. Len(stored)
      /\ n \in Nat /\ n \notin DOMAIN stored
  BY Lengths DEF StoreSound
<1>2. /\ stored' \in Seq(Row) /\ DOMAIN stored' = DOMAIN stored \cup {n} /\ stored'[n] = m
      /\ \A i \in DOMAIN stored : stored'[i] = stored[i] /\ i < n
  BY <1>1
<1> HIDE DEF n
<1>3. Mine' = Mine \cup {n}
  BY <1>1, <1>2 DEF Mine
<1>4. \A r \in m.refs : \E a \in answers : r \in DOMAIN a /\ a[r] = m.text
  BY DEF Told
<1>5. ASSUME NEW i \in Mine'
      PROVE  Told(stored[i])' /\ \A j \in DOMAIN stored' : j > i => j \in Mine'
  <2>1. CASE i = n
    BY <1>1, <1>2, <1>4, <2>1 DEF Told
  <2>2. CASE i \in Mine
    <3>1. i \in DOMAIN stored /\ stored'[i] = stored[i] /\ Told(stored[i])
      BY <1>2, <2>2 DEF StoreSound, Mine
    <3>2. Told(stored[i])'
      BY <3>1 DEF Told
    <3>3. \A j \in DOMAIN stored : j > i => j \in Mine
      BY <2>2 DEF StoreSound
    <3> QED
      BY <1>2, <1>3, <3>2, <3>3
  <2> QED
    BY <1>3, <2>1, <2>2
<1>6. StoreSound'
  BY <1>2, <1>5 DEF StoreSound
<1>7. ASSUME Once, Distinct(m) PROVE Once'
  <2>1. \A i \in Mine : stored'[i] = stored[i]
    BY <1>2 DEF Mine
  <2>2. ASSUME NEW i \in Mine', NEW j \in Mine', i # j
        PROVE  stored'[i].text # stored'[j].text /\ stored'[i].refs \cap stored'[j].refs = {}
    <3>1. CASE i \in Mine /\ j \in Mine
      BY <1>7, <2>1, <2>2, <3>1 DEF Once
    <3>2. CASE i \in Mine /\ j = n
      BY <1>2, <1>7, <2>1, <3>2 DEF Distinct
    <3>3. CASE j \in Mine /\ i = n
      BY <1>2, <1>7, <2>1, <3>3 DEF Distinct
    <3> QED
      BY <1>3, <2>2, <3>1, <3>2, <3>3
  <2>3. IsInjective(links')
    BY <1>7 DEF Once
  <2> QED
    BY <2>2, <2>3 DEF Once
<1> QED
  BY <1>2, <1>3, <1>6, <1>7 DEF n

LEMMA LinkAdded ==
  ASSUME StoreSound, NEW l \in (DOMAIN stored) \X (DOMAIN stored),
         links' = Append(links, l), UNCHANGED <<stored, answers>>
  PROVE  /\ StoreSound' /\ ToSet(links)' = ToSet(links) \cup {l} /\ Mine' = Mine
         /\ Once /\ l \notin ToSet(links) => Once'
<1> DEFINE n == Len(links) + 1
<1>1. links \in Seq(Nat \X Nat) /\ l \in Nat \X Nat /\ n \in Nat
  BY Lengths DEF StoreSound
<1>2. /\ links' \in Seq(Nat \X Nat) /\ n \notin DOMAIN links
      /\ DOMAIN links' = DOMAIN links \cup {n} /\ links'[n] = l
      /\ \A i \in DOMAIN links : links'[i] = links[i]
  BY <1>1
<1> HIDE DEF n
<1>3. ToSet(links)' = ToSet(links) \cup {l}
  BY <1>2 DEF ToSet
<1>4. Mine' = Mine /\ \A i \in Mine : Told(stored[i])'
  BY DEF Mine, StoreSound, Told
<1>5. StoreSound'
  BY <1>2, <1>3, <1>4 DEF StoreSound
<1>6. ASSUME Once, l \notin ToSet(links) PROVE Once'
  <2>1. \A i \in DOMAIN links : links[i] # l
    BY <1>6 DEF ToSet
  <2>2. \A i, j \in DOMAIN links : links[i] = links[j] => i = j
    BY <1>6 DEF Once, IsInjective
  <2>3. \A i, j \in DOMAIN links' : links'[i] = links'[j] => i = j
    BY <1>2, <2>1, <2>2
  <2>4. IsInjective(links')
    BY <2>3 DEF IsInjective
  <2>5. (\A i, j \in Mine :
           i # j => stored[i].text # stored[j].text /\ stored[i].refs \cap stored[j].refs = {})'
    BY <1>4, <1>6 DEF Once
  <2> QED
    BY <2>4, <2>5 DEF Once
<1> QED
  BY <1>3, <1>4, <1>5, <1>6

\* The memory that is created next tells what the current answer says, and nothing like it is
\* stored.
LEMMA NextIsNew ==
  ASSUME IInv, phase = "write", Unwritten # {}
  PROVE  /\ NextMemory \in Row /\ NextMemory.mine /\ Told(NextMemory)
         /\ NextMemory.refs = {r \in Kept : plan[r] = 0 /\ proposal.text[r] = NextMemory.text}
         /\ ~crossed => Distinct(NextMemory)
<1> DEFINE q == Min(Unwritten)
           text == proposal.text[q]
<1>1. ProposalSound /\ PlanSound
  BY DEF IInv
<1>2. Unwritten \in SUBSET Kept /\ Unwritten \in SUBSET Nat /\ DOMAIN plan = Kept
  BY <1>1, Constants DEF Unwritten, PlanSound, PlanType, ProposalSound
<1>3. q \in Unwritten
  BY <1>2, MinIsMember
<1>4. /\ NextMemory.text = text /\ NextMemory.mine = TRUE /\ NextMemory.refs = Group(text)
      /\ NextMemory = [text |-> text, mine |-> TRUE, refs |-> Group(text)]
  BY DEF NextMemory, Memory
<1> HIDE DEF q, text
<1>5. Group(text) = {r \in Kept : plan[r] = 0 /\ proposal.text[r] = text} /\ q \in Group(text)
  BY <1>2, <1>3 DEF Group, Unwritten, text
<1>6. text \in Texts
  BY <1>1, <1>2, <1>3 DEF ProposalSound, text
<1>7. NextMemory \in Row
  BY <1>1, <1>4, <1>5, <1>6 DEF Row, Texts, ProposalSound
<1>8. Told(NextMemory)
  BY <1>1, <1>4, <1>5 DEF Told, ProposalSound
<1>9. ~crossed => Distinct(NextMemory)
  BY <1>1, <1>4, <1>5 DEF Distinct, PlanSound, Fresh
<1> QED
  BY <1>4, <1>5, <1>7, <1>8, <1>9

\* A candidate stands for its memory, or for its text while it has none.
LEMMA EndsAre ==
  ASSUME NEW p, NEW r
  PROVE  /\ End(Candidate(r), p) = IF p[r] = 0 THEN <<"planned", proposal.text[r]>>
                                   ELSE <<"memory", p[r]>>
         /\ End(Existing(r), p) = <<"memory", r>>
BY DEF End, Candidate, Existing

LEMMA TargetIs ==
  ASSUME ProposalSound, NEW r \in Kept, proposal.target[r] # Nothing
  PROVE  \/ \E i \in DOMAIN stored : proposal.target[r] = Existing(i) /\ Relation(r) = <<plan[r], i>>
         \/ \E q \in Kept : proposal.target[r] = Candidate(q) /\ Relation(r) = <<plan[r], plan[q]>>
<1>1. proposal.target[r] \in Ends
  BY DEF ProposalSound
<1>2. ASSUME NEW i, proposal.target[r] = Existing(i) PROVE Relation(r) = <<plan[r], i>>
  BY <1>2 DEF Existing, Relation
<1>3. ASSUME NEW q, proposal.target[r] = Candidate(q) PROVE Relation(r) = <<plan[r], plan[q]>>
  BY <1>3 DEF Candidate, Relation
<1> QED
  BY <1>1, <1>2, <1>3 DEF Ends

\* The relation that is written next joins two memories, and is not there if it is not known.
LEMMA NextRelation ==
  ASSUME IInv, Linking
  PROVE  LET q == Min(open)
         IN  /\ q \in open /\ NextLink = Relation(q)
             /\ NextLink \in (DOMAIN stored) \X (DOMAIN stored) /\ Accepted(NextLink)
             /\ ~crossed /\ ~IsKnown(NextLink) => NextLink \notin ToSet(links)
<1> DEFINE q == Min(open)
<1>1. /\ ProposalSound /\ PlanSound /\ ContextSound /\ StoreSound
      /\ Unwritten = {} /\ open # {}
  BY DEF IInv, Linking
<1>2. open \in SUBSET Nat /\ open \in SUBSET Kept /\ DOMAIN plan = Kept
  BY <1>1, Constants DEF PlanSound, PlanType, ProposalSound
<1>3. q \in open
  BY <1>1, <1>2, MinIsMember
<1>4. NextLink = Relation(q)
  BY DEF NextLink, Relation
<1> HIDE DEF q
<1>5. \A r \in Kept : plan[r] \in DOMAIN stored /\ plan[r] # 0
  BY <1>1, <1>2 DEF Unwritten, PlanSound, PlanType
<1>6. proposal.target[q] # Nothing /\ Ours(q) # Theirs(q) /\ q \in Kept
  BY <1>1, <1>3 DEF PlanSound, PlanType, Settled
<1>7. Ours(q) = <<"memory", plan[q]>>
  BY <1>5, <1>6, EndsAre DEF Ours
<1>8. PICK i \in DOMAIN stored : Theirs(q) = <<"memory", i>> /\ Relation(q) = <<plan[q], i>>
  <2>1. CASE \E i \in DOMAIN stored : proposal.target[q] = Existing(i) /\ Relation(q) = <<plan[q], i>>
    BY <2>1, EndsAre DEF Theirs
  <2>2. CASE \E s \in Kept : proposal.target[q] = Candidate(s) /\ Relation(q) = <<plan[q], plan[s]>>
    BY <1>5, <2>2, EndsAre DEF Theirs
  <2> QED
    BY <1>1, <1>6, <2>1, <2>2, TargetIs
<1>9. plan[q] # i /\ Relation(q) \in (DOMAIN stored) \X (DOMAIN stored)
  BY <1>5, <1>6, <1>7, <1>8
<1>10. ~crossed /\ Relation(q) \in ToSet(links) => Relation(q) \in context.known
  BY <1>1, <1>5, <1>6, <1>8 DEF PlanSound, Fresh, Covered
<1> QED
  BY <1>3, <1>4, <1>8, <1>9, <1>10 DEF Accepted, IsKnown, q

\* What the attempt is writing when it stops.
LEMMA PendingIs ==
  ASSUME IInv
  PROVE  IsWrite(Pending) /\ (~crossed => IsNew(Pending))
         /\ (phase \in {"load", "failed"} => Pending = NoWrite)
<1>1. CASE phase = "write" /\ Unwritten # {}
  <2>1. Pending = <<"create", NextMemory>>
    BY <1>1 DEF Pending
  <2> QED
    BY <1>1, <2>1, NextIsNew DEF IsWrite, IsNew
<1>2. CASE ~(phase = "write" /\ Unwritten # {}) /\ Linking /\ ~IsKnown(NextLink) /\ Accepted(NextLink)
  <2>1. Pending = <<"link", NextLink>> /\ phase = "write"
    BY <1>2 DEF Pending, Linking
  <2> QED
    BY <1>2, <2>1, NextRelation DEF IsWrite, IsNew
<1>3. CASE ~(phase = "write" /\ Unwritten # {}) /\ ~(Linking /\ ~IsKnown(NextLink) /\ Accepted(NextLink))
  BY <1>3 DEF Pending, IsWrite, IsNew, NoWrite
<1> QED
  BY <1>1, <1>2, <1>3

LEMMA StoreKept ==
  ASSUME StoreSound, UNCHANGED <<stored, links>>, answers \subseteq answers'
  PROVE  StoreSound' /\ Mine' = Mine /\ (Once => Once')
<1>1. Mine' = Mine
  BY DEF Mine
<1>2. \A i \in Mine : Told(stored[i])'
  BY DEF StoreSound, Told
<1>3. StoreSound'
  BY <1>1, <1>2 DEF StoreSound
<1>4. Once => Once'
  BY <1>1 DEF Once
<1> QED
  BY <1>1, <1>3, <1>4

\* A write that is executed.
LEMMA Executed ==
  ASSUME StoreSound, NEW w, IsWrite(w), Execute(w), UNCHANGED answers
  PROVE  StoreSound' /\ DOMAIN stored \subseteq DOMAIN stored' /\ (Once /\ IsNew(w) => Once')
         /\ (w = NoWrite => UNCHANGED <<stored, links>>)
         /\ ToSet(links) \subseteq ToSet(links') /\ Mine \subseteq Mine'
         /\ \A i \in DOMAIN stored : stored'[i] = stored[i]
<1>1. CASE w = NoWrite
  <2>1. UNCHANGED <<stored, links>>
    BY <1>1 DEF Execute, NoWrite
  <2> QED
    BY <2>1, StoreKept
<1>2. CASE \E m \in Row : w = <<"create", m>> /\ m.mine /\ Told(m)
  <2>1. PICK m \in Row : w = <<"create", m>> /\ m.mine /\ Told(m)
    BY <1>2
  <2>2. stored' = Append(stored, m) /\ links' = links /\ w # NoWrite
    BY <2>1 DEF Execute, NoWrite
  <2> QED
    BY <2>1, <2>2, MemoryAdded DEF IsNew
<1>3. CASE \E l \in (DOMAIN stored) \X (DOMAIN stored) : w = <<"link", l>>
  <2>1. PICK l \in (DOMAIN stored) \X (DOMAIN stored) : w = <<"link", l>>
    BY <1>3
  <2>2. links' = Append(links, l) /\ stored' = stored /\ w # NoWrite
    BY <2>1 DEF Execute, NoWrite
  <2> QED
    BY <2>1, <2>2, LinkAdded DEF IsNew
<1> QED
  BY <1>1, <1>2, <1>3 DEF IsWrite

\* A write stays one as the store and the answers grow.
LEMMA WriteKept ==
  ASSUME NEW w, IsWrite(w), answers \subseteq answers', DOMAIN stored \subseteq DOMAIN stored'
  PROVE  IsWrite(w)'
<1>1. ASSUME NEW m \in Row, Told(m) PROVE Told(m)'
  BY <1>1 DEF Told
<1> QED
  BY <1>1 DEF IsWrite

\* A late write stays sound while the attempt goes on, and while nothing happens at all.
LEMMA LateKept ==
  ASSUME LateSound, UNCHANGED <<late, crossed>>, answers \subseteq answers',
         late = NoWrite => ~overtaken', ~overtaken' => ~overtaken,
         \/ late # NoWrite => overtaken'
         \/ phase' \in {"load", "failed"} /\ UNCHANGED <<stored, links>>,
         DOMAIN stored \subseteq DOMAIN stored'
  PROVE  LateSound'
<1>1. IsWrite(late)'
  BY WriteKept DEF LateSound
<1>2. ASSUME late # NoWrite, ~overtaken'
      PROVE  phase' \in {"load", "failed"} /\ (~crossed => IsNew(late)')
  <2>1. phase' \in {"load", "failed"} /\ UNCHANGED <<stored, links, late>> /\ ~overtaken
    BY <1>2
  <2>2. IsNew(late)' <=> IsNew(late)
    BY <2>1 DEF IsNew, Distinct, Mine
  <2> QED
    BY <1>2, <2>1, <2>2 DEF LateSound
<1> QED
  BY <1>1, <1>2 DEF LateSound

\* Once an attempt has read its context, what is still late has been overtaken.
LEMMA NeverMissed ==
  ASSUME LateSound
  PROVE  /\ late = NoWrite => ~overtaken
         /\ late # NoWrite /\ phase \notin {"load", "failed"} => overtaken
BY DEF LateSound

-----------------------------------------------------------------------------
(* The steps of an attempt. *)

LEMMA InitStep == Init => IInv
<1> SUFFICES ASSUME Init PROVE IInv
  OBVIOUS
<1>1. PICK o \in Old, n \in {0, MaxOld} : stored = o \o Newer(n)
  BY DEF Init
<1>2. n \in Nat
  BY UpdateAssumption
<1>3. o \in Seq(Row) /\ \A i \in DOMAIN o : ~o[i].mine
  <2>1. CASE o = <<>>
    BY <2>1
  <2>2. CASE o # <<>>
    <3>1. PICK t \in Texts : o = <<Memory(t, FALSE, {1})>>
      BY <2>2 DEF Old, Memory
    <3>2. Memory(t, FALSE, {1}) \in Row /\ ~Memory(t, FALSE, {1}).mine
      BY Constants DEF Memory, Row, Texts
    <3> DEFINE x == Memory(t, FALSE, {1})
    <3>3. o = <<x>> /\ x \in Row /\ ~x.mine
      BY <3>1, <3>2
    <3> HIDE DEF x
    <3> QED
      BY <3>3
  <2> QED
    BY <2>1, <2>2
<1>4. Newer(n) \in Seq(Row) /\ \A i \in DOMAIN Newer(n) : ~Newer(n)[i].mine
  <2> DEFINE x == Memory([category |-> "EVIDENCE", fact |-> "other"], FALSE, {1})
  <2>1. x \in Row /\ ~x.mine
    BY Constants DEF Memory, Row, Categories
  <2> HIDE DEF x
  <2>2. [i \in 1 .. n |-> x] \in Seq(Row)
    BY <1>2, <2>1
  <2> QED
    BY <2>1, <2>2 DEF Newer, x
<1>5. stored \in Seq(Row) /\ Mine = {}
  <2>1. stored \in Seq(Row)
    BY <1>1, <1>3, <1>4
  <2>2. \A i \in DOMAIN stored : ~stored[i].mine
    BY <1>1, <1>3, <1>4
  <2> QED
    BY <2>1, <2>2 DEF Mine
<1>6. links = <<>> /\ ToSet(links) = {}
  BY DEF Init, ToSet
<1>7. StoreSound
  BY <1>5, <1>6 DEF StoreSound
<1>8. Once
  BY <1>5, <1>6 DEF Once, IsInjective
<1> QED
  BY <1>7, <1>8 DEF IInv, Init, LateSound, IsWrite

LEMMA LoadStep ==
  ASSUME IInv, Load
  PROVE  IInv'
<1>1. /\ phase' = "propose" /\ context' = Context /\ overtaken' = (late # NoWrite)
      /\ UNCHANGED <<stored, links, answers, late, crossed>>
      /\ StoreSound /\ LateSound /\ (~crossed => Once)
  BY DEF IInv, Load
<1>2. StoreSound' /\ Mine' = Mine /\ (Once => Once')
  BY <1>1, StoreKept
<1>3. overtaken' \in BOOLEAN /\ (late = NoWrite => ~overtaken') /\ (late # NoWrite => overtaken')
      /\ (~overtaken' => ~overtaken)
  BY <1>1, NeverMissed
<1>4. LateSound'
  BY <1>1, <1>3, LateKept
<1>5. ContextSound'
  <2>1. /\ context'.loaded = UNION {Newest(In(c), PageSize) : c \in Categories}
        /\ context'.known = {l \in ToSet(links) : l[1] \in context'.loaded \/ l[2] \in context'.loaded}
    BY <1>1 DEF Context
  <2>2. Context \in [loaded : SUBSET DOMAIN stored, truncated : BOOLEAN, known : SUBSET ToSet(links)]
    BY DEF Context, Newest, In
  <2>3. \A i \in context'.loaded : \A l \in ToSet(links') : i \in {l[1], l[2]} => l \in context'.known
    BY <1>1, <2>1
  <2>4. ~crossed => Mine \subseteq context'.loaded
    BY <1>1, OwnAreLoaded
  <2> QED
    BY <1>1, <1>2, <2>2, <2>3, <2>4 DEF ContextSound, Covered
<1> QED
  BY <1>1, <1>2, <1>3, <1>4, <1>5 DEF IInv

LEMMA ProposeStep ==
  ASSUME IInv, Propose
  PROVE  IInv'
<1>1. /\ phase = "propose" /\ phase' = "plan" /\ proposal' \in Proposals
      /\ answers' = answers \cup {proposal'.text}
      /\ UNCHANGED <<stored, links, context, late, overtaken, crossed>>
      /\ StoreSound /\ LateSound /\ (~crossed => Once) /\ ContextSound
  BY DEF IInv, Propose, writes
<1>2. StoreSound' /\ Mine' = Mine /\ (Once => Once')
  BY <1>1, StoreKept
<1>3. LateSound'
  <2>1. (late = NoWrite => ~overtaken') /\ (late # NoWrite => overtaken') /\ overtaken' \in BOOLEAN
    BY <1>1, NeverMissed DEF IInv
  <2> QED
    BY <1>1, <2>1, LateKept
<1>4. ContextSound'
  BY <1>1, <1>2 DEF ContextSound, Covered
<1>5. ProposalSound'
  <2>1. PICK kept \in SUBSET Refs :
          /\ proposal' \in [text : [kept -> Texts],
                            target : [kept -> {Nothing} \cup {Candidate(r) : r \in kept}
                                              \cup {Existing(i) : i \in Targets}]]
    BY <1>1 DEF Proposals
  <2>2. Kept' = kept
    BY <2>1 DEF Kept
  <2>3. Targets \subseteq DOMAIN stored'
    BY <1>1 DEF Targets, Newest, In
  <2>4. proposal'.target \in [kept -> Ends']
    BY <2>1, <2>2, <2>3 DEF Ends
  <2> QED
    BY <1>1, <2>1, <2>2, <2>4 DEF ProposalSound
<1> QED
  BY <1>1, <1>2, <1>3, <1>4, <1>5 DEF IInv

\* What a step of the node leaves behind when it writes nothing.
LEMMA QuietStep ==
  ASSUME IInv, phase \notin {"load", "failed"},
         UNCHANGED <<stored, links, answers, late, overtaken, crossed>>
  PROVE  StoreSound' /\ Mine' = Mine /\ (~crossed' => Once') /\ LateSound'
<1>1. StoreSound' /\ Mine' = Mine /\ (~crossed' => Once')
  BY StoreKept DEF IInv
<1>2. (late = NoWrite => ~overtaken') /\ (late # NoWrite => overtaken') /\ overtaken' \in BOOLEAN
  BY NeverMissed DEF IInv
<1> QED
  BY <1>1, <1>2, LateKept DEF IInv

LEMMA PlanStep ==
  ASSUME IInv, Plan
  PROVE  IInv'
<1>1. /\ phase = "plan" /\ phase' = "write" /\ open' = Related(plan')
      /\ UNCHANGED <<stored, links, context, proposal, answers, late, overtaken, crossed>>
      /\ StoreSound /\ LateSound /\ (~crossed => Once) /\ ContextSound /\ ProposalSound
  BY DEF IInv, Plan, writes
<1>2. StoreSound' /\ Mine' = Mine /\ (~crossed' => Once') /\ LateSound'
  BY <1>1, QuietStep
<1>3. ContextSound'
  BY <1>1, <1>2 DEF ContextSound, Covered
<1>4. ProposalSound' /\ Kept' = Kept
  BY <1>1 DEF ProposalSound, Kept, Ends
<1>5. /\ plan' \in [Kept -> 0 .. Len(stored)]
      /\ \A r \in Kept : plan'[r] \in IF Recognised(r) = {} THEN {0} ELSE Recognised(r)
  BY DEF Plan
<1>6. /\ Visible \subseteq DOMAIN stored /\ context.loaded \subseteq Visible
      /\ ~crossed => Visible \subseteq context.loaded
  BY <1>1 DEF Visible, ContextSound, Mine
<1>7. ASSUME NEW r \in Kept
      PROVE  /\ plan'[r] \in DOMAIN stored \cup {0}
             /\ plan'[r] = 0 => Tagged(r) = {} /\ Same(proposal.text[r]) = {}
             /\ plan'[r] # 0 => /\ plan'[r] \in Visible
                                /\ \/ plan'[r] \in Mine /\ r \in stored[plan'[r]].refs
                                   \/ stored[plan'[r]].text = proposal.text[r]
  <2>1. Tagged(r) \subseteq Visible /\ Same(proposal.text[r]) \subseteq Visible /\ 0 \notin Visible
    BY <1>1, <1>6, Lengths DEF Tagged, Same
  <2>2. \/ plan'[r] = 0 /\ Tagged(r) = {} /\ Same(proposal.text[r]) = {}
        \/ plan'[r] \in Tagged(r)
        \/ plan'[r] \in Same(proposal.text[r])
    BY <1>5 DEF Recognised
  <2>3. CASE plan'[r] = 0 /\ Tagged(r) = {} /\ Same(proposal.text[r]) = {}
    BY <2>3
  <2>4. CASE plan'[r] \in Tagged(r)
    BY <1>6, <2>1, <2>4 DEF Tagged, Mine
  <2>5. CASE plan'[r] \in Same(proposal.text[r])
    BY <1>6, <2>1, <2>5 DEF Same
  <2> QED
    BY <2>2, <2>3, <2>4, <2>5
<1>8. plan' \in [Kept -> DOMAIN stored \cup {0}]
  BY <1>5, <1>7
<1>9. /\ open' \subseteq Kept
      /\ \A r \in open' : proposal.target[r] # Nothing /\ Ours(r)' # Theirs(r)'
      /\ \A r \in Kept \ open' : proposal.target[r] = Nothing \/ Ours(r)' = Theirs(r)'
  BY <1>1 DEF Related, Ours, Theirs, End
<1>10. \A r \in Kept :
         plan'[r] # 0 => stored[plan'[r]].text = proposal.text[r]
                         \/ (plan'[r] \in Mine /\ r \in stored[plan'[r]].refs)
  BY <1>7
<1>11. ASSUME ~crossed, NEW r \in Kept
       PROVE  IF plan'[r] # 0 THEN Covered(plan'[r])
              ELSE \A i \in Mine : r \notin stored[i].refs /\ stored[i].text # proposal.text[r]
  <2>1. CASE plan'[r] # 0
    BY <1>1, <1>6, <1>7, <1>11, <2>1 DEF ContextSound
  <2>2. CASE plan'[r] = 0
    <3>1. \A i \in Mine : i \in Visible /\ stored[i].mine
      BY <1>1, <1>6, <1>11 DEF ContextSound, Mine
    <3> QED
      BY <1>7, <2>2, <3>1 DEF Tagged, Same
  <2> QED
    BY <2>1, <2>2
<1>12. PlanSound'
  BY <1>1, <1>2, <1>4, <1>8, <1>9, <1>10, <1>11
     DEF PlanSound, PlanType, Settled, Worded, Fresh, Covered
<1> QED
  BY <1>1, <1>2, <1>3, <1>4, <1>12 DEF IInv

LEMMA CreateStep ==
  ASSUME IInv, Create
  PROVE  IInv'
<1> DEFINE m == NextMemory
           n == Len(stored) + 1
<1>1. /\ phase = "write" /\ Unwritten # {}
      /\ stored' = Append(stored, m)
      /\ UNCHANGED <<phase, links, context, proposal, open, answers, late, overtaken, crossed>>
      /\ StoreSound /\ LateSound /\ (~crossed => Once) /\ ContextSound /\ ProposalSound /\ PlanSound
  BY DEF IInv, Create, writes
<1>2. DOMAIN plan = Kept /\ Kept' = Kept
  BY <1>1 DEF PlanSound, PlanType, Kept
<1>3. plan' = [r \in Kept |-> IF r \in m.refs THEN n ELSE plan[r]]
  BY <1>2 DEF Create
<1>4. /\ m \in Row /\ m.mine /\ Told(m) /\ (~crossed => Distinct(m))
      /\ m.refs = {r \in Kept : plan[r] = 0 /\ proposal.text[r] = m.text}
  BY <1>1, NextIsNew
<1> HIDE DEF m
<1>5. /\ StoreSound' /\ DOMAIN stored' = DOMAIN stored \cup {n} /\ stored'[n] = m
      /\ \A i \in DOMAIN stored : stored'[i] = stored[i]
      /\ Mine' = Mine \cup {n} /\ (~crossed' => Once')
  BY <1>1, <1>4, MemoryAdded
<1>6. n \in Nat /\ n # 0 /\ n \notin DOMAIN stored /\ 0 \notin DOMAIN stored
      /\ Mine \subseteq DOMAIN stored
  BY <1>1, Lengths
<1> HIDE DEF n
<1>7. LateSound'
  <2>1. (late = NoWrite => ~overtaken') /\ (late # NoWrite => overtaken') /\ overtaken' \in BOOLEAN
    BY <1>1, NeverMissed DEF IInv
  <2> QED
    BY <1>1, <1>5, <2>1, LateKept
<1>8. ContextSound'
  BY <1>1, <1>5 DEF ContextSound, Covered
<1>9. ProposalSound'
  <2>1. Ends \subseteq Ends'
    BY <1>2, <1>5 DEF Ends
  <2> QED
    BY <1>1, <1>2, <2>1 DEF ProposalSound
<1>10. PlanSound'
  <2>1. /\ plan' \in [Kept -> DOMAIN stored' \cup {0}] /\ open' \subseteq Kept'
    BY <1>1, <1>2, <1>3, <1>5 DEF PlanSound, PlanType
  <2>2. \A r \in Kept : IF r \in m.refs THEN plan[r] = 0 /\ plan'[r] = n /\ proposal.text[r] = m.text
                        ELSE plan'[r] = plan[r] /\ ~ (plan[r] = 0 /\ proposal.text[r] = m.text)
    BY <1>3, <1>4
  <2>3. \A r \in Kept : plan[r] \in DOMAIN stored \cup {0}
    BY <1>1 DEF PlanSound, PlanType
  <2>4. ASSUME NEW r \in Kept, proposal.target[r] # Nothing
        PROVE  Ours(r) = Theirs(r) <=> Ours(r)' = Theirs(r)'
    <3>1. Ours(r)' = End(Candidate(r), plan') /\ Theirs(r)' = End(proposal.target[r], plan')
      BY <1>1 DEF Ours, Theirs, End
    <3>2. CASE \E i \in DOMAIN stored : proposal.target[r] = Existing(i)
      <4>1. PICK i \in DOMAIN stored : proposal.target[r] = Existing(i)
        BY <3>2
      <4>2. /\ Theirs(r) = <<"memory", i>> /\ Theirs(r)' = <<"memory", i>>
            /\ Ours(r) = IF plan[r] = 0 THEN <<"planned", proposal.text[r]>> ELSE <<"memory", plan[r]>>
            /\ Ours(r)' = IF plan'[r] = 0 THEN <<"planned", proposal.text[r]>>
                          ELSE <<"memory", plan'[r]>>
        BY <3>1, <4>1, EndsAre DEF Ours, Theirs
      <4> QED
        BY <1>6, <2>2, <4>2
    <3>3. CASE \E q \in Kept : proposal.target[r] = Candidate(q)
      <4>1. PICK q \in Kept : proposal.target[r] = Candidate(q)
        BY <3>3
      <4>2. /\ Theirs(r) = IF plan[q] = 0 THEN <<"planned", proposal.text[q]>> ELSE <<"memory", plan[q]>>
            /\ Theirs(r)' = IF plan'[q] = 0 THEN <<"planned", proposal.text[q]>>
                            ELSE <<"memory", plan'[q]>>
            /\ Ours(r) = IF plan[r] = 0 THEN <<"planned", proposal.text[r]>> ELSE <<"memory", plan[r]>>
            /\ Ours(r)' = IF plan'[r] = 0 THEN <<"planned", proposal.text[r]>>
                          ELSE <<"memory", plan'[r]>>
        BY <3>1, <4>1, EndsAre DEF Ours, Theirs
      <4> QED
        BY <1>6, <2>2, <2>3, <4>2
    <3> QED
      BY <1>1, <2>4, <3>2, <3>3, TargetIs
  <2>5. \A r \in open' : proposal'.target[r] # Nothing /\ Ours(r)' # Theirs(r)'
    BY <1>1, <2>4 DEF PlanSound, PlanType, Settled
  <2>6. \A r \in Kept' \ open' : proposal'.target[r] = Nothing \/ Ours(r)' = Theirs(r)'
    BY <1>1, <1>2, <2>4 DEF PlanSound, PlanType, Settled
  <2>7. ASSUME NEW r \in Kept, plan'[r] # 0
        PROVE  stored'[plan'[r]].text = proposal.text[r]
               \/ (plan'[r] \in Mine' /\ r \in stored'[plan'[r]].refs)
    <3>1. CASE r \in m.refs
      BY <1>5, <2>2, <3>1
    <3>2. CASE r \notin m.refs
      <4>1. plan'[r] = plan[r] /\ plan[r] \in DOMAIN stored /\ stored'[plan[r]] = stored[plan[r]]
        BY <1>5, <2>2, <2>3, <2>7, <3>2
      <4> QED
        BY <1>1, <1>5, <2>7, <4>1 DEF PlanSound, Worded
    <3> QED
      BY <3>1, <3>2
  <2>8. ASSUME ~crossed, NEW r \in Kept
        PROVE  IF plan'[r] # 0 THEN Covered(plan'[r])
               ELSE \A i \in Mine' : r \notin stored'[i].refs /\ stored'[i].text # proposal.text[r]
    <3>1. CASE r \in m.refs
      <4>1. \A l \in ToSet(links) : n # l[1] /\ n # l[2]
        BY <1>1, <1>6 DEF StoreSound
      <4> QED
        BY <1>6, <2>2, <3>1, <4>1 DEF Covered
    <3>2. CASE r \notin m.refs /\ plan[r] # 0
      BY <1>1, <2>2, <2>8, <3>2 DEF PlanSound, Fresh
    <3>3. CASE r \notin m.refs /\ plan[r] = 0
      <4>1. \A i \in Mine : r \notin stored[i].refs /\ stored[i].text # proposal.text[r]
        BY <1>1, <2>8, <3>3 DEF PlanSound, Fresh
      <4>2. \A i \in Mine : stored'[i] = stored[i]
        BY <1>5, <1>6
      <4> QED
        BY <1>5, <2>2, <3>3, <4>1, <4>2
    <3> QED
      BY <3>1, <3>2, <3>3
  <2>9. \A i : Covered(i)' <=> Covered(i)
    BY <1>1 DEF Covered
  <2>10. PlanType'
    BY <1>2, <2>1 DEF PlanType
  <2>11. Settled'
    BY <2>5, <2>6 DEF Settled
  <2>12. Worded'
    BY <1>1, <1>2, <2>7 DEF Worded
  <2>13. Fresh'
    BY <1>1, <1>2, <2>8, <2>9 DEF Fresh
  <2> QED
    BY <2>10, <2>11, <2>12, <2>13 DEF PlanSound
<1> QED
  BY <1>1, <1>5, <1>7, <1>8, <1>9, <1>10 DEF IInv

LEMMA LinkStep ==
  ASSUME IInv, Link
  PROVE  IInv'
<1> DEFINE q == Min(open)
           l == NextLink
<1>1. /\ phase = "write" /\ Unwritten = {} /\ open' = open \ {q}
      /\ UNCHANGED <<phase, stored, proposal, plan, answers, late, overtaken, crossed>>
      /\ StoreSound /\ LateSound /\ (~crossed => Once) /\ ContextSound /\ ProposalSound /\ PlanSound
  BY DEF IInv, Link, Linking, writes
<1>2. /\ q \in open /\ l = Relation(q) /\ l \in (DOMAIN stored) \X (DOMAIN stored)
      /\ ~crossed /\ ~IsKnown(l) => l \notin ToSet(links)
  BY NextRelation DEF Link
<1>3. \/ IsKnown(l) /\ UNCHANGED <<links, context>>
      \/ /\ ~IsKnown(l) /\ links' = Append(links, l)
         /\ context' = [context EXCEPT !.known = @ \cup {l}]
  BY DEF Link
<1> HIDE DEF q, l
<1>4. /\ StoreSound' /\ Mine' = Mine /\ (~crossed' => Once')
      /\ ToSet(links) \subseteq ToSet(links') /\ ToSet(links') \subseteq ToSet(links) \cup {l}
      /\ l \in ToSet(links') /\ l \in context'.known
      /\ context'.loaded = context.loaded /\ context.known \subseteq context'.known
      /\ context' \in [loaded : SUBSET DOMAIN stored, truncated : BOOLEAN, known : SUBSET ToSet(links')]
  <2>1. CASE IsKnown(l) /\ UNCHANGED <<links, context>>
    <3>1. l \in context.known /\ context.known \subseteq ToSet(links)
      BY <1>1, <2>1 DEF IsKnown, ContextSound
    <3> QED
      BY <1>1, <2>1, <3>1, StoreKept DEF ContextSound
  <2>2. CASE /\ ~IsKnown(l) /\ links' = Append(links, l)
             /\ context' = [context EXCEPT !.known = @ \cup {l}]
    <3>1. /\ StoreSound' /\ ToSet(links') = ToSet(links) \cup {l} /\ Mine' = Mine
          /\ Once /\ l \notin ToSet(links) => Once'
      BY <1>1, <1>2, <2>2, LinkAdded
    <3>2. context' = [loaded |-> context.loaded, truncated |-> context.truncated,
                      known |-> context.known \cup {l}]
      BY <1>1, <2>2 DEF ContextSound
    <3> QED
      BY <1>1, <1>2, <2>2, <3>1, <3>2 DEF ContextSound
  <2> QED
    BY <1>3, <2>1, <2>2
<1>5. LateSound'
  <2>1. (late = NoWrite => ~overtaken') /\ (late # NoWrite => overtaken') /\ overtaken' \in BOOLEAN
    BY <1>1, NeverMissed DEF IInv
  <2> QED
    BY <1>1, <2>1, LateKept
<1>6. ASSUME NEW i, Covered(i) PROVE Covered(i)'
  BY <1>4, <1>6 DEF Covered
<1>7. ContextSound'
  BY <1>1, <1>4, <1>6 DEF ContextSound
<1>8. ProposalSound' /\ Kept' = Kept
  BY <1>1 DEF ProposalSound, Kept, Ends
<1>9. PlanSound'
  <2>1. /\ Unwritten' = Unwritten
        /\ \A r \in Kept : Ours(r)' = Ours(r) /\ Theirs(r)' = Theirs(r) /\ Relation(r)' = Relation(r)
    BY <1>1 DEF Ours, Theirs, Relation, End, Unwritten
  <2>2. PlanType'
    BY <1>1, <1>8 DEF PlanSound, PlanType
  <2>3. \A r \in open' : proposal'.target[r] # Nothing /\ Ours(r)' # Theirs(r)'
    BY <1>1, <2>1 DEF PlanSound, PlanType, Settled
  <2>4. \A r \in Kept \ open' :
          \/ proposal'.target[r] = Nothing \/ Ours(r)' = Theirs(r)'
          \/ Unwritten' = {} /\ Relation(r)' \in ToSet(links')
    BY <1>1, <1>2, <1>4, <2>1 DEF PlanSound, Settled
  <2>5. Settled'
    BY <1>8, <2>3, <2>4 DEF Settled
  <2>6. Worded'
    BY <1>1, <1>4, <1>8 DEF PlanSound, Worded
  <2>7. Fresh'
    BY <1>1, <1>4, <1>6, <1>8 DEF PlanSound, Fresh
  <2> QED
    BY <2>2, <2>5, <2>6, <2>7 DEF PlanSound
<1> QED
  BY <1>1, <1>4, <1>5, <1>7, <1>8, <1>9 DEF IInv

LEMMA AppliedStep ==
  ASSUME IInv, Applied \/ Acknowledge
  PROVE  IInv'
<1>1. /\ phase \notin {"load", "failed"}
      /\ UNCHANGED <<stored, links, context, proposal, plan, open, answers, late, overtaken, crossed>>
  BY DEF Applied, Acknowledge, writes
<1>2. StoreSound' /\ Mine' = Mine /\ (~crossed' => Once') /\ LateSound'
  BY <1>1, QuietStep
<1>3. CASE Applied
  <2>1. phase = "write" /\ phase' = "applied" /\ Unwritten = {} /\ open = {}
    BY <1>3 DEF Applied
  <2>2. ProposalSound' /\ PlanSound'
    <3>1. ProposalSound /\ PlanSound
      BY <2>1 DEF IInv
    <3>2. ProposalSound' /\ Kept' = Kept
      BY <1>1, <3>1 DEF ProposalSound, Kept, Ends
    <3>3. /\ Unwritten' = Unwritten
          /\ \A r \in Kept : Ours(r)' = Ours(r) /\ Theirs(r)' = Theirs(r) /\ Relation(r)' = Relation(r)
      BY <1>1 DEF Ours, Theirs, Relation, End, Unwritten
    <3>4. PlanType' /\ Settled'
      BY <1>1, <3>1, <3>2, <3>3 DEF PlanSound, PlanType, Settled
    <3>5. Worded' /\ Fresh'
      BY <1>1, <1>2, <3>1, <3>2 DEF PlanSound, Worded, Fresh, Covered
    <3> QED
      BY <3>2, <3>4, <3>5 DEF PlanSound
  <2>3. Unwritten' = {} /\ open' = {}
    BY <1>1, <2>1 DEF Unwritten
  <2> QED
    BY <1>1, <1>2, <2>1, <2>2, <2>3 DEF IInv
<1>4. CASE Acknowledge
  <2>1. phase' = "acknowledged"
    BY <1>4 DEF Acknowledge
  <2> QED
    BY <1>1, <1>2, <2>1 DEF IInv
<1> QED
  BY <1>3, <1>4

-----------------------------------------------------------------------------
(* Attempts that stop, and writes that arrive after them. *)

LEMMA InterruptStep ==
  ASSUME IInv, Interrupt
  PROVE  IInv'
<1>1. /\ phase' \in {"load", "failed"} /\ UNCHANGED <<answers, overtaken, crossed>>
      /\ StoreSound /\ LateSound /\ (~crossed => Once) /\ crossed \in BOOLEAN /\ overtaken \in BOOLEAN
  BY DEF IInv, Interrupt
<1>2. IsWrite(Pending) /\ (~crossed => IsNew(Pending))
      /\ (phase \in {"load", "failed"} => Pending = NoWrite)
  BY PendingIs
<1>3. CASE Execute(Pending) /\ UNCHANGED late
  <2>1. /\ StoreSound' /\ DOMAIN stored \subseteq DOMAIN stored' /\ (~crossed => Once')
        /\ (Pending = NoWrite => UNCHANGED <<stored, links>>)
    BY <1>1, <1>2, <1>3, Executed
  <2>2. (late = NoWrite => ~overtaken') /\ (phase \notin {"load", "failed"} /\ late # NoWrite => overtaken')
    BY <1>1, NeverMissed
  <2>3. LateSound'
    BY <1>1, <1>2, <1>3, <2>1, <2>2, LateKept
  <2> QED
    BY <1>1, <2>1, <2>3 DEF IInv
<1>4. CASE late = NoWrite /\ late' = Pending /\ UNCHANGED <<stored, links>>
  <2>1. StoreSound' /\ (Once => Once')
    BY <1>1, <1>4, StoreKept
  <2>2. ~overtaken'
    BY <1>1, <1>4, NeverMissed
  <2>3. IsWrite(late)' /\ (~crossed => IsNew(late)')
    BY <1>1, <1>2, <1>4 DEF IsWrite, IsNew, Told, Distinct, Mine
  <2>4. LateSound'
    BY <1>1, <2>2, <2>3 DEF LateSound
  <2> QED
    BY <1>1, <2>1, <2>4 DEF IInv
<1>5. CASE UNCHANGED <<stored, links, late>>
  <2>1. StoreSound' /\ (Once => Once')
    BY <1>1, <1>5, StoreKept
  <2>2. late = NoWrite => ~overtaken'
    BY <1>1, NeverMissed
  <2>3. LateSound'
    BY <1>1, <1>5, <2>2, LateKept
  <2> QED
    BY <1>1, <2>1, <2>3 DEF IInv
<1> QED
  BY <1>3, <1>4, <1>5 DEF Interrupt

LEMMA LandStep ==
  ASSUME IInv, Land
  PROVE  IInv'
<1>1. /\ late # NoWrite /\ late' = NoWrite /\ Execute(late)
      /\ crossed' = (crossed \/ overtaken) /\ overtaken' = FALSE
      /\ UNCHANGED <<phase, context, proposal, plan, open, answers>>
      /\ StoreSound /\ LateSound /\ (~crossed => Once) /\ crossed \in BOOLEAN /\ overtaken \in BOOLEAN
  BY DEF IInv, Land
<1>2. /\ StoreSound' /\ DOMAIN stored \subseteq DOMAIN stored' /\ (Once /\ IsNew(late) => Once')
      /\ ToSet(links) \subseteq ToSet(links') /\ Mine \subseteq Mine'
      /\ \A i \in DOMAIN stored : stored'[i] = stored[i]
  BY <1>1, Executed DEF LateSound
<1>3. ~crossed' => Once' /\ phase \in {"load", "failed"}
  BY <1>1, <1>2 DEF LateSound
<1>4. LateSound'
  BY <1>1 DEF LateSound, IsWrite
<1>5. ASSUME phase \in {"propose", "plan", "write"} PROVE ContextSound'
  <2>1. ContextSound /\ crossed'
    BY <1>1, <1>3, <1>5 DEF IInv
  <2> QED
    BY <1>1, <1>2, <2>1 DEF ContextSound
<1>6. ASSUME phase \in {"plan", "write", "applied"} PROVE ProposalSound' /\ Kept' = Kept
  <2>1. ProposalSound
    BY <1>6 DEF IInv
  <2>2. Kept' = Kept /\ Ends \subseteq Ends'
    BY <1>1, <1>2 DEF Kept, Ends
  <2> QED
    BY <1>1, <2>1, <2>2 DEF ProposalSound
<1>7. ASSUME phase \in {"write", "applied"} PROVE PlanSound'
  <2>1. PlanSound /\ crossed' /\ Kept' = Kept
    BY <1>1, <1>3, <1>6, <1>7 DEF IInv
  <2>2. /\ Unwritten' = Unwritten
        /\ \A r \in Kept : Ours(r)' = Ours(r) /\ Theirs(r)' = Theirs(r) /\ Relation(r)' = Relation(r)
    BY <1>1 DEF Ours, Theirs, Relation, End, Unwritten
  <2>3. PlanType' /\ Settled'
    BY <1>1, <1>2, <2>1, <2>2 DEF PlanSound, PlanType, Settled
  <2>4. Worded'
    <3>1. \A r \in Kept : plan[r] # 0 => stored'[plan[r]] = stored[plan[r]]
      BY <1>2, <2>1 DEF PlanSound, PlanType
    <3> QED
      BY <1>1, <1>2, <2>1, <3>1 DEF PlanSound, Worded
  <2> QED
    BY <2>1, <2>3, <2>4 DEF PlanSound, Fresh
<1>8. phase = "applied" => Unwritten' = {} /\ open' = {}
  BY <1>1 DEF IInv, Unwritten
<1> QED
  BY <1>1, <1>2, <1>3, <1>4, <1>5, <1>6, <1>7, <1>8 DEF IInv

LEMMA Inductive == IInv /\ [Next]_vars => IInv'
<1> SUFFICES ASSUME IInv, [Next]_vars PROVE IInv'
  OBVIOUS
<1>1. CASE UNCHANGED vars
  <2>1. UNCHANGED <<phase, stored, links, context, proposal, plan, open, answers, late, overtaken, crossed>>
    BY <1>1 DEF vars
  <2>2. StoreSound' = StoreSound /\ Mine' = Mine /\ Kept' = Kept /\ Unwritten' = Unwritten
    BY <2>1 DEF StoreSound, Told, Mine, Kept, Unwritten
  <2>3. LateSound' = LateSound /\ Once' = Once
    BY <2>1 DEF LateSound, IsWrite, IsNew, Distinct, Told, Mine, Once
  <2>4. ContextSound' = ContextSound /\ ProposalSound' = ProposalSound
    BY <2>1 DEF ContextSound, Covered, Mine, ProposalSound, Kept, Ends
  <2>5. PlanType' = PlanType /\ Worded' = Worded /\ Fresh' = Fresh
    BY <2>1 DEF PlanType, Worded, Fresh, Covered, Mine, Kept
  <2>6. Settled' = Settled
    BY <2>1 DEF Settled, Ours, Theirs, Relation, End, Unwritten, Kept
  <2>7. PlanSound' = PlanSound
    BY <2>5, <2>6 DEF PlanSound
  <2> QED
    BY <2>1, <2>2, <2>3, <2>4, <2>7 DEF IInv
<1>2. CASE Next
  BY <1>2, LoadStep, ProposeStep, PlanStep, CreateStep, LinkStep, AppliedStep, InterruptStep,
     LandStep DEF Next
<1> QED
  BY <1>1, <1>2

THEOREM Invariance == Spec => []IInv
BY InitStep, Inductive, PTL DEF Spec

-----------------------------------------------------------------------------
(* What it means for the process. *)

\* However often a cohort is retried and wherever its attempts stop, apply_memory_update stores
\* no text and no candidate reference twice, unless a create of an earlier attempt reaches the
\* service after a later one has read its context.
THEOREM StoredOnce == Spec => []OwnFactsOnce
<1>1. IInv => OwnFactsOnce
  BY DEF IInv, Once, OwnFactsOnce
<1> QED
  BY <1>1, Invariance, PTL

\* While the attempts number their facts alike, every candidate of an applied update has a
\* memory that tells its fact, whatever other cycles have left under its reference.
THEOREM FactsAreKept == Spec => []FactsKept
<1>1. IInv => FactsKept
  <2> SUFFICES ASSUME IInv, phase = "applied", Consistent, NEW r \in Kept
               PROVE  stored[plan[r]].text.fact = proposal.text[r].fact
    BY DEF FactsKept
  <2>1. /\ StoreSound /\ ProposalSound /\ PlanSound /\ Unwritten = {}
    BY DEF IInv
  <2>2. plan[r] # 0
    BY <2>1 DEF Unwritten, PlanSound, PlanType
  <2>3. CASE stored[plan[r]].text = proposal.text[r]
    BY <2>3
  <2>4. CASE plan[r] \in Mine /\ r \in stored[plan[r]].refs
    <3>1. PICK a \in answers : r \in DOMAIN a /\ a[r] = stored[plan[r]].text
      BY <2>1, <2>4 DEF StoreSound, Told
    <3>2. proposal.text \in answers /\ r \in DOMAIN proposal.text
      BY <2>1 DEF ProposalSound, Kept
    <3> QED
      BY <3>1, <3>2 DEF Consistent
  <2> QED
    BY <2>1, <2>2, <2>3, <2>4 DEF PlanSound, Worded
<1> QED
  BY <1>1, Invariance, PTL

\* No relation that apply_memory_update writes joins a memory with itself or is there twice,
\* and those of an applied update are all stored.
THEOREM RelationsSound == Spec => []LinksSound
<1>1. IInv => LinksSound
  <2> SUFFICES ASSUME IInv PROVE LinksSound
    OBVIOUS
  <2>1. ~crossed => IsInjective(links)
    BY DEF IInv, Once
  <2>2. Linking => Accepted(NextLink)
    BY NextRelation
  <2>3. ASSUME phase = "applied", NEW r \in Kept, proposal.target[r] # Nothing
        PROVE  LET target == proposal.target[r]
                   end == IF target[1] = "memory" THEN target[2] ELSE plan[target[2]]
               IN  plan[r] = end \/ <<plan[r], end>> \in ToSet(links)
    <3>1. ProposalSound /\ PlanSound /\ Unwritten = {} /\ open = {}
      BY <2>3 DEF IInv
    <3>2. \A q \in Kept : plan[q] # 0
      BY <3>1 DEF Unwritten, PlanSound, PlanType
    <3>3. Ours(r) = Theirs(r) \/ Relation(r) \in ToSet(links)
      BY <2>3, <3>1 DEF PlanSound, Settled
    <3>4. Ours(r) = <<"memory", plan[r]>>
      BY <3>2, EndsAre DEF Ours
    <3>5. CASE \E i \in DOMAIN stored : proposal.target[r] = Existing(i) /\ Relation(r) = <<plan[r], i>>
      BY <3>3, <3>4, <3>5, EndsAre DEF Theirs, Existing
    <3>6. CASE \E q \in Kept : proposal.target[r] = Candidate(q) /\ Relation(r) = <<plan[r], plan[q]>>
      <4>1. PICK q \in Kept : proposal.target[r] = Candidate(q) /\ Relation(r) = <<plan[r], plan[q]>>
        BY <3>6
      <4>2. Theirs(r) = <<"memory", plan[q]>>
        BY <3>2, <4>1, EndsAre DEF Theirs
      <4>3. plan[r] = plan[q] \/ <<plan[r], plan[q]>> \in ToSet(links)
        BY <3>3, <3>4, <4>1, <4>2
      <4>4. proposal.target[r] = <<"candidate", q>>
        BY <4>1 DEF Candidate
      <4> QED
        BY <4>3, <4>4
    <3> QED
      BY <2>3, <3>1, <3>5, <3>6, TargetIs
  <2> QED
    BY <2>1, <2>2, <2>3 DEF LinksSound
<1> QED
  BY <1>1, Invariance, PTL
=============================================================================
