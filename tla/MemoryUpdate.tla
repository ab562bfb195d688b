----------------------------- MODULE MemoryUpdate -----------------------------
(* The memories and relations that one cohort leaves in a process. Each       *)
(* attempt extracts facts anew from the same events, has them curated and      *)
(* worded, and writes what it does not recognise among the memories that are   *)
(* already there: by the cycle's tag, which names the candidate, or by its     *)
(* text. Every memory and every relation is a call to the Memory MCP of its    *)
(* own, which may be the last of the attempt.                                  *)
EXTENDS Integers, Sequences, SequencesExt, FiniteSets, FiniteSetsExt

CONSTANTS
  Facts,          \* what the events of the cohort tell
  MaxCandidates,  \* candidates of an attempt
  PageSize,       \* memories of a category in the process context
  TargetLimit,    \* memories that a relation may be proposed to
  MaxAttempts,    \* attempts at the cohort
  MaxOld          \* bound: newer memories of earlier cycles

\* A page of the context holds more memories than an attempt has candidates.
ASSUME UpdateAssumption ==
  /\ {MaxCandidates, PageSize, TargetLimit, MaxAttempts} \subseteq Nat \ {0} /\ MaxOld \in Nat
  /\ PageSize >= MaxCandidates

VARIABLES
  phase,     \* what the attempt does next
  attempts,  \* attempts begun
  stored,    \* the memories of the process, oldest first
  links,     \* the relations between them, oldest first
  context,   \* what LOAD_PROCESS_CONTEXT has read
  proposal,  \* the text of each candidate that is kept, and what it is to be related to
  plan,      \* the memory of each candidate, 0 while it is still to be created
  open,      \* the candidates whose relation is still to be written
  answers,   \* history: the texts of every attempt's candidates
  late,      \* a write whose caller gave up and which is still to be executed
  overtaken, \* history: a later attempt has read its context since
  crossed    \* history: such a write was executed in spite of that

vars == <<phase, attempts, stored, links, context, proposal, plan, open, answers, late, overtaken,
          crossed>>
writes == <<late, overtaken, crossed>>

Categories == {"STRATEGY", "EVIDENCE"}
Refs == 1 .. MaxCandidates

\* The identity of a memory; wording stands for the fact it tells.
Texts == [category : Categories, fact : Facts]
Memory(text, mine, refs) == [text |-> text, mine |-> mine, refs |-> refs]

\* Relations go from a candidate to another candidate or to a memory.
Nothing == <<"nothing", 0>>
Candidate(r) == <<"candidate", r>>
Existing(i) == <<"memory", i>>

NoContext == [loaded |-> {}, truncated |-> FALSE, known |-> {}]
NoProposal == [text |-> <<>>, target |-> <<>>]
NoWrite == <<"none">>

\* An earlier cycle may have left a memory under the first candidate's reference, with a
\* fact of this cohort, and many newer ones.
Old == {<<>>} \cup {<<Memory(t, FALSE, {1})>> : t \in Texts}
Newer(n) == [i \in 1 .. n |-> Memory([category |-> "EVIDENCE", fact |-> "other"], FALSE, {1})]

Init ==
  /\ phase = "load" /\ attempts = 1 /\ links = <<>>
  /\ stored \in {o \o Newer(n) : o \in Old, n \in {0, MaxOld}}
  /\ context = NoContext /\ proposal = NoProposal /\ plan = <<>> /\ open = {}
  /\ answers = {} /\ late = NoWrite
  /\ overtaken = FALSE /\ crossed = FALSE

-----------------------------------------------------------------------------
(* LOAD_PROCESS_CONTEXT *)

In(c) == {i \in DOMAIN stored : stored[i].text.category = c}
Newest(s, n) == {i \in s : Cardinality({j \in s : j > i}) < n}

\* The newest page of each category and the relations at any of its memories.
Context ==
  LET loaded == UNION {Newest(In(c), PageSize) : c \in Categories}
  IN  [loaded |-> loaded, truncated |-> \E c \in Categories : Cardinality(In(c)) > PageSize,
       known |-> {l \in ToSet(links) : l[1] \in loaded \/ l[2] \in loaded}]

Load ==
  /\ phase = "load" /\ phase' = "propose"
  /\ context' = Context
  /\ overtaken' = (late # NoWrite)
  /\ UNCHANGED <<attempts, stored, links, proposal, plan, open, answers, late, crossed>>

-----------------------------------------------------------------------------
(* EXTRACT_MEMORY_CANDIDATES, CURATE_MEMORY_CANDIDATES, MATERIALIZE_MEMORIES *)

\* The first memories of the context that relations are offered to: EVIDENCE before STRATEGY.
Targets ==
  LET evidence == Newest(context.loaded \cap In("EVIDENCE"), TargetLimit)
  IN  evidence \cup Newest(context.loaded \cap In("STRATEGY"), TargetLimit - Cardinality(evidence))

\* Candidates that were dropped have no relations, and none goes to them.
Proposals ==
  UNION {LET ends == {Nothing} \cup {Candidate(r) : r \in kept} \cup {Existing(i) : i \in Targets}
         IN  {p \in [text : [kept -> Texts], target : [kept -> ends]] :
                \A r \in kept : p.target[r] # Candidate(r)}
         : kept \in SUBSET Refs}

Propose ==
  /\ phase = "propose" /\ phase' = "plan"
  /\ proposal' \in Proposals
  /\ answers' = answers \cup {proposal'.text}
  /\ UNCHANGED <<attempts, stored, links, context, plan, open, writes>>

-----------------------------------------------------------------------------
(* APPLY_MEMORY_UPDATE: every candidate and relation is resolved before the first write. *)

Kept == DOMAIN proposal.text

\* With more memories than a page, the cycle's own are searched for by its marker.
Visible ==
  context.loaded \cup
  IF context.truncated /\ Kept # {} THEN {i \in DOMAIN stored : stored[i].mine} ELSE {}

TaggedBug(r) == {i \in Visible : r \in stored[i].refs}
Tagged(r) == {i \in Visible : stored[i].mine /\ r \in stored[i].refs}
Same(text) == {i \in Visible : stored[i].text = text}

RecognisedBug(r) == Same(proposal.text[r])
\* The memories that the candidate may be taken for: the tag is asked before the text.
Recognised(r) == IF Tagged(r) # {} THEN Tagged(r) ELSE Same(proposal.text[r])

\* What an end of a relation stands for, as far as it is known before the writes.
End(e, p) ==
  IF e[1] = "memory" THEN e
  ELSE IF p[e[2]] # 0 THEN Existing(p[e[2]]) ELSE <<"planned", proposal.text[e[2]]>>

RelatedBug(p) == {r \in Kept : proposal.target[r] # Nothing}
\* A relation that deduplication turned into one of a memory with itself is omitted.
Related(p) ==
  {r \in Kept : /\ proposal.target[r] # Nothing
                /\ End(Candidate(r), p) # End(proposal.target[r], p)}

Plan ==
  /\ phase = "plan" /\ phase' = "write"
  /\ plan' \in {p \in [Kept -> 0 .. Len(stored)] :
                  \A r \in Kept : p[r] \in IF Recognised(r) = {} THEN {0} ELSE Recognised(r)}
  /\ open' = Related(plan')
  /\ UNCHANGED <<attempts, stored, links, context, proposal, answers, writes>>

\* The candidates to create come first, those with the same text as one memory.
Unwritten == {r \in DOMAIN plan : plan[r] = 0}
Group(text) == {r \in Unwritten : proposal.text[r] = text}
NextMemory == LET text == proposal.text[Min(Unwritten)] IN Memory(text, TRUE, Group(text))

\* Then the relations, in the order of their candidates.
NextLink ==
  LET r == Min(open)
      end == proposal.target[r]
  IN  <<plan[r], IF end[1] = "memory" THEN end[2] ELSE plan[end[2]]>>

Create ==
  /\ phase = "write" /\ Unwritten # {}
  /\ stored' = Append(stored, NextMemory)
  /\ plan' = [r \in DOMAIN plan |-> IF r \in NextMemory.refs THEN Len(stored) + 1 ELSE plan[r]]
  /\ UNCHANGED <<phase, attempts, links, context, proposal, open, answers, writes>>

Linking == phase = "write" /\ Unwritten = {} /\ open # {}

IsKnownBug(link) == FALSE
IsKnown(link) == link \in context.known

\* The service rejects a relation of a memory with itself.
Accepted(link) == link[1] # link[2]

Link ==
  /\ Linking /\ open' = open \ {Min(open)}
  /\ IF IsKnown(NextLink) THEN UNCHANGED <<links, context>>
     ELSE /\ Accepted(NextLink)
          /\ links' = Append(links, NextLink)
          /\ context' = [context EXCEPT !.known = @ \cup {NextLink}]
  /\ UNCHANGED <<phase, attempts, stored, proposal, plan, answers, writes>>

Applied ==
  /\ phase = "write" /\ Unwritten = {} /\ open = {}
  /\ phase' = "applied"
  /\ UNCHANGED <<attempts, stored, links, context, proposal, plan, open, answers, writes>>

\* The rest of the cycle succeeds and the cohort is acknowledged.
Acknowledge ==
  /\ phase = "applied" /\ phase' = "acknowledged"
  /\ UNCHANGED <<attempts, stored, links, context, proposal, plan, open, answers, writes>>

-----------------------------------------------------------------------------
(* Interruptions *)

\* The call that the node is in, if it is in one that writes.
Pending ==
  IF phase = "write" /\ Unwritten # {} THEN <<"create", NextMemory>>
  ELSE IF Linking /\ ~IsKnown(NextLink) /\ Accepted(NextLink) THEN <<"link", NextLink>>
  ELSE NoWrite

Execute(write) ==
  /\ stored' = IF write[1] = "create" THEN Append(stored, write[2]) ELSE stored
  /\ links' = IF write[1] = "link" THEN Append(links, write[2]) ELSE links

\* The attempt ends anywhere before the acknowledgement; the call it was in may have been
\* executed, may be executed later or never.
Interrupt ==
  /\ phase \notin {"acknowledged", "failed"}
  /\ phase' = IF attempts = MaxAttempts THEN "failed" ELSE "load"
  /\ attempts' = IF attempts = MaxAttempts THEN attempts ELSE attempts + 1
  /\ context' = NoContext /\ proposal' = NoProposal /\ plan' = <<>> /\ open' = {}
  /\ \/ Execute(Pending) /\ UNCHANGED late
     \/ late = NoWrite /\ late' = Pending /\ UNCHANGED <<stored, links>>
     \/ UNCHANGED <<stored, links, late>>
  /\ UNCHANGED <<answers, overtaken, crossed>>

Land ==
  /\ late # NoWrite /\ late' = NoWrite
  /\ Execute(late)
  /\ crossed' = (crossed \/ overtaken) /\ overtaken' = FALSE
  /\ UNCHANGED <<phase, attempts, context, proposal, plan, open, answers>>

Next ==
  \/ Load \/ Propose \/ Plan \/ Create \/ Link \/ Applied \/ Acknowledge
  \/ Interrupt \/ Land

Spec == Init /\ [][Next]_vars

-----------------------------------------------------------------------------
(* Properties *)

Mine == {i \in DOMAIN stored : stored[i].mine}

\* However often a cohort is retried and wherever an attempt stops, no candidate reference
\* and no text is stored twice, unless a create reaches the service after a later attempt has
\* read its context.
OwnFactsOnce ==
  ~crossed => \A i, j \in Mine :
    i # j => stored[i].text # stored[j].text /\ stored[i].refs \cap stored[j].refs = {}

\* Attempts that use a reference do so for the same fact.
Consistent ==
  \A a, b \in answers : \A r \in DOMAIN a \cap DOMAIN b : a[r].fact = b[r].fact

\* As long as the attempts number their facts alike, an update that is applied leaves every
\* candidate with a memory that tells its fact, whatever earlier cycles have tagged.
FactsKept ==
  phase = "applied" /\ Consistent => \A r \in Kept : stored[plan[r]].text.fact = proposal.text[r].fact

\* No relation is stored twice or joins a memory with itself, none that would is ever sent,
\* and the relations of an update that is applied are all there.
LinksSound ==
  /\ ~crossed => IsInjective(links)
  /\ Linking => Accepted(NextLink)
  /\ phase = "applied" => \A r \in Kept :
       LET target == proposal.target[r]
           end == IF target[1] = "memory" THEN target[2] ELSE plan[target[2]]
       IN  target # Nothing => plan[r] = end \/ <<plan[r], end>> \in ToSet(links)
==============================================================================
