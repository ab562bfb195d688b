----------------------------- MODULE JevRequests -----------------------------
(***************************************************************************)
(* One call of JevClient.system_one: a state and a set of questions go to  *)
(* the provider in requests that fit a byte limit.  A request that is too  *)
(* large, here or for the provider, is tried again with a smaller state,   *)
(* up to three times, and then its questions are halved.                   *)
(*                                                                         *)
(* Sizes are small numbers instead of bytes.  A state keeps what the size  *)
(* and the questions depend on: lists of dated items, the candidate        *)
(* memories that the questions are about, and texts that can be shortened. *)
(* An answer is the name it is given under and the batch that got it; what *)
(* the provider answers may have any names.                                *)
(***************************************************************************)
EXTENDS Naturals, Sequences, FiniteSets, FiniteSetsExt

CONSTANTS
    NumQuestions,      \* questions, in the order of the dictionary
    Candidates,        \* memory_candidates
    About,             \* About[q]: candidates that question q addresses
    QuestionSize,      \* QuestionSize[q]: its share of the request
    Ages,              \* Ages[l]: the items of list l, by age (a larger one is older)
                       \* and in "expanded" by the order of the keys
    CandidateSize,     \* of a candidate without its text
    TextSize,          \* of the objective and of a candidate's text
    ShortText,         \* length to which a text may be cut (160 characters)
    DisclosureSize,    \* of context_compaction
    Limits,            \* values of max_context_tokens
    MaxStray           \* bound: names by which a response differs from its batch,
                       \* and names that are too many in all responses together

Questions == 1..NumQuestions
\* What an answer may be given under; 0 is a name that no question has.
Names == Questions \cup {0}
\* drop_paths, the first losses first; "expanded" stands for the five collections
\* of expanded_memory.
DropPaths == <<"expanded", "execution", "relations", "intervention", "evidence", "strategy">>
Lists == Range(DropPaths)
Texts == {"objective"} \cup Candidates

ASSUME JevAssumption ==
    /\ NumQuestions \in Nat \ {0} /\ About \in [Questions -> SUBSET Candidates]
    /\ "objective" \notin Candidates
    /\ QuestionSize \in [Questions -> Nat \ {0}] /\ Limits \subseteq Nat \ {0}
    /\ Ages \in [Lists -> SUBSET Nat] /\ \A l \in Lists : IsFiniteSet(Ages[l])
    /\ IsFiniteSet(Candidates) /\ {CandidateSize, DisclosureSize} \subseteq Nat
    /\ {TextSize, ShortText} \subseteq Nat \ {0}

MaxContextRetries == 3

VARIABLES
    limit,      \* max_context_tokens
    stack,      \* batches that were halved and wait for their answers
    batch,      \* the questions being asked and the candidates left in the state
    attempt,    \* attempts at the batch that the provider refused
    last,       \* previous_state_content, {} before the first post
    phase,      \* what the client is doing, or how the call ended
    answers,    \* answers of the batch that just returned: the batch behind each name
    usage,      \* its usage counter
    posts,      \* requests posted so far, as <<questions, state>>
    accepted,   \* responses accepted so far
    received    \* every answer in them, as <<name, batch>>

vars == <<limit, stack, batch, attempt, last, phase, answers, usage, posts, accepted, received>>

Ended == {"answered", "refused", "too_large", "incomplete", "failed"}

(* compact_jev_state.  Definitions named ...Bug are what a plausible mistake  *)
(* would put in place of the definition that follows; no action uses them.   *)

FullState(cands) ==
    [items |-> Ages, cands |-> cands,
     text |-> [x \in {"objective"} \cup cands |-> TextSize]]

\* context_compaction, which grows with what was left out, counts as of one size.
StateSize(s) ==
    SumFunction([l \in Lists |-> Cardinality(s.items[l])])
    + CandidateSize * Cardinality(s.cands) + SumFunction(s.text)
    + IF s = FullState(s.cands) THEN 0 ELSE DisclosureSize

\* Of a list the oldest item goes first: evidence and strategy are sorted
\* newest first and popped from the end, events come oldest first.  The
\* collections of expanded_memory are dictionaries and lose the smallest key.
FirstLoss(l, S) == IF l = "expanded" THEN Min(S) ELSE Max(S)

LongTexts(s) == {x \in DOMAIN s.text : s.text[x] > ShortText}

Irreducible(s) == LongTexts(s) = {} /\ \A l \in Lists : s.items[l] = {}

\* One turn of the loop: an item of the first list that has any, and when all
\* lists are empty half of the longest text.  A state that cannot be reduced
\* stays as it is.
Reduce(s) ==
    LET full == {i \in DOMAIN DropPaths : s.items[DropPaths[i]] # {}}
        l == DropPaths[Min(full)]
        x == CHOOSE y \in LongTexts(s) : \A z \in LongTexts(s) : s.text[z] <= s.text[y]
    IN  IF full # {} THEN [s EXCEPT !.items[l] = @ \ {FirstLoss(l, @)}]
        ELSE IF LongTexts(s) # {} THEN [s EXCEPT !.text[x] = Max({ShortText, @ \div 2})]
        ELSE s

MaxReductions ==
    SumFunction([l \in Lists |-> Cardinality(Ages[l])]) + (1 + Cardinality(Candidates)) * TextSize

\* The states that the loop goes through, by the number of its turns.
Reductions(cands) ==
    LET after[n \in 0..MaxReductions] ==
            IF n = 0 THEN FullState(cands) ELSE Reduce(after[n - 1])
    IN  after

\* The least reduced state that fits the budget, or the irreducible one.
Compacted(cands, budget) ==
    LET after == Reductions(cands)
        enough == {n \in 0..MaxReductions :
                     StateSize(after[n]) <= budget \/ Irreducible(after[n])}
    IN  after[Min(enough)]

-----------------------------------------------------------------------------

Overhead(qs) == SumFunctionOnSet(QuestionSize, qs)
RequestSize(qs, s) == Overhead(qs) + StateSize(s)

AddressedOwnBug(qs) == UNION {{c \in About[q] : \A d \in About[q] : c = d} : q \in qs}
\* The candidates that a batch needs: those its questions are named after and
\* those a relation_target question offers as targets.
Addressed(qs) == UNION {About[q] : q \in qs}

\* Entering a batch: of the candidates that are left those it does not need are
\* left out, unless that is all of them.  Its halves get what is left here.
Narrowed(qs, cands) ==
    IF cands \cap Addressed(qs) = {} THEN cands ELSE cands \cap Addressed(qs)

Enter(qs, cands) ==
    /\ batch' = [qs |-> qs, cands |-> Narrowed(qs, cands)]
    /\ attempt' = 0 /\ last' = {} /\ phase' = "preparing"

NoAnswers == [n \in {} |-> {}]

Init ==
    /\ limit \in Limits
    /\ stack = <<>> /\ batch = [qs |-> Questions, cands |-> Narrowed(Questions, Candidates)]
    /\ attempt = 0 /\ last = {} /\ phase = "preparing"
    /\ answers = NoAnswers /\ usage = 0 /\ posts = {} /\ accepted = 0 /\ received = {}

\* The first half of the questions: items[:midpoint]
Half(qs) == {q \in qs : 2 * Cardinality({p \in qs : p <= q}) <= Cardinality(qs)}

\* The batch cannot be asked as a whole: its halves are asked one after the
\* other, or the call ends when there is one question left.
Split(ending) ==
    IF Cardinality(batch.qs) >= 2
    THEN /\ stack' = Append(stack, [qs |-> batch.qs, cands |-> batch.cands,
                                    left |-> NoAnswers, usage |-> 0, side |-> "left"])
         /\ Enter(Half(batch.qs), batch.cands)
    ELSE /\ phase' = ending
         /\ UNCHANGED <<stack, batch, attempt, last>>

StateBudget == Max({1, (limit - Overhead(batch.qs)) \div 2^attempt})
Request == Compacted(batch.cands, StateBudget)

Settled == UNCHANGED <<limit, answers, usage, posts, accepted, received>>

NeedsFewerQuestionsOverheadBug == Overhead(batch.qs) >= limit
\* No room for any state, or none after every reduction although the state
\* alone would fit: fewer questions may.
NeedsFewerQuestions ==
    \/ Overhead(batch.qs) >= limit
    \/ RequestSize(batch.qs, Request) > limit /\ StateSize(Request) <= limit

SplitForBudget ==
    /\ phase = "preparing" /\ NeedsFewerQuestions
    /\ Split("refused") /\ Settled

\* Even without a question the state is too large.
Refuse ==
    /\ phase = "preparing" /\ ~NeedsFewerQuestions /\ RequestSize(batch.qs, Request) > limit
    /\ phase' = "refused"
    /\ UNCHANGED <<stack, batch, attempt, last>> /\ Settled

Fits == Overhead(batch.qs) < limit /\ RequestSize(batch.qs, Request) <= limit

SameAsBeforeNeverBug(s) == FALSE
\* The comparison leaves context_compaction out.
SameAsBefore(s) == last = {s}

\* The provider refused it already: "context_not_reducible".
SplitForRejection ==
    /\ phase = "preparing" /\ Fits /\ SameAsBefore(Request)
    /\ Split("too_large") /\ Settled

Post ==
    /\ phase = "preparing" /\ Fits /\ ~SameAsBefore(Request)
    /\ last' = {Request} /\ phase' = "posted"
    /\ posts' = posts \cup {<<batch.qs, Request>>}
    /\ UNCHANGED <<limit, stack, batch, attempt, answers, usage, accepted, received>>

-----------------------------------------------------------------------------
(* The provider. *)

\* 413, or a 400 that speaks of a size.
RejectSize ==
    /\ phase = "posted"
    /\ IF attempt < MaxContextRetries
       THEN /\ attempt' = attempt + 1 /\ phase' = "preparing"
            /\ UNCHANGED <<stack, batch, last>>
       ELSE Split("too_large")
    /\ Settled

\* Any other error, of the transport or of the answer's shape.
Fail ==
    /\ phase = "posted" /\ phase' = "failed"
    /\ UNCHANGED <<stack, batch, attempt, last>> /\ Settled

\* The answers may miss a question of the batch, be to a question of another one
\* or to none of the call; their names are not looked at here.
Accept ==
    /\ phase = "posted"
    /\ \E names \in SUBSET Names :
          /\ Cardinality(SymDiff(names, batch.qs)) <= MaxStray
          /\ answers' = [n \in names |-> batch.qs]
          /\ received' = received \cup {<<n, batch.qs>> : n \in names}
          /\ Cardinality({r \in received' : r[1] \notin r[2]}) <= MaxStray
    /\ usage' = 1 /\ accepted' = accepted + 1
    /\ phase' = "returning"
    /\ UNCHANGED <<limit, stack, batch, attempt, last, posts>>

-----------------------------------------------------------------------------
(* A batch returns to the call that halved its parent. *)

Top == stack[Len(stack)]
Below == SubSeq(stack, 1, Len(stack) - 1)

ReturnLeft ==
    /\ phase = "returning" /\ stack # <<>> /\ Top.side = "left"
    /\ stack' = Append(Below, [Top EXCEPT !.left = answers, !.usage = usage, !.side = "right"])
    /\ Enter(Top.qs \ Half(Top.qs), Top.cands)
    /\ UNCHANGED <<limit, answers, usage, posts, accepted, received>>

CollideNeverBug(left, right) == FALSE
\* Both halves answer under a name: the call ends.
Collide(left, right) == DOMAIN left \cap DOMAIN right # {}
MergedAnswers(left, right) ==
    [n \in DOMAIN left \cup DOMAIN right |-> IF n \in DOMAIN right THEN right[n] ELSE left[n]]
MergedUsage(left, right) == left + right

ReturnRight ==
    /\ phase = "returning" /\ stack # <<>> /\ Top.side = "right"
    /\ answers' = MergedAnswers(Top.left, answers) /\ usage' = MergedUsage(Top.usage, usage)
    /\ phase' = IF ~Collide(Top.left, answers) /\ DOMAIN answers' = Top.qs
                THEN "returning" ELSE "incomplete"
    /\ stack' = Below
    /\ UNCHANGED <<limit, batch, attempt, last, posts, accepted, received>>

Return ==
    /\ phase = "returning" /\ stack = <<>> /\ phase' = "answered"
    /\ UNCHANGED <<limit, stack, batch, attempt, last, answers, usage, posts, accepted, received>>

-----------------------------------------------------------------------------

Done == phase \in Ended /\ UNCHANGED vars

Next ==
    \/ SplitForBudget \/ Refuse \/ SplitForRejection \/ Post
    \/ RejectSize \/ Fail \/ Accept
    \/ ReturnLeft \/ ReturnRight \/ Return
    \/ Done

Spec == Init /\ [][Next]_vars

-----------------------------------------------------------------------------
(* Properties. *)

\* No request is sent twice in a call, through retries and halvings: a retry
\* always has less to say, and one that would not is not sent.
PostedOnce == [][phase = "preparing" /\ phase' = "posted"
                 => <<batch.qs, Request>> \notin posts]_vars

\* What a question is about is in every request that asks it, however often
\* the questions were halved before: no level leaves out a candidate that a part
\* of its questions needs further down, where it could not come back.
AskedInContext ==
    \A r \in posts : \A q \in r[1] : About[q] \subseteq r[2].cands

LeastText == IF TextSize > ShortText THEN ShortText ELSE TextSize
\* A state that cannot be reduced any more.
LeastState(cands) ==
    [items |-> [l \in Lists |-> {}], cands |-> cands,
     text |-> [x \in {"objective"} \cup cands |-> LeastText]]
Floor(cands) == StateSize(LeastState(cands))

\* The call is given up here, before the provider was asked, only when some
\* question does not fit alone with the least state about its candidates, or
\* that state for all candidates exceeds the limit without any question.
RefusedOnlyIfUnfit ==
    phase = "refused" =>
        \/ Floor(Narrowed(Questions, Candidates)) > limit
        \/ \E q \in Questions :
              QuestionSize[q] + Floor(Narrowed({q}, Candidates)) > limit

\* What is returned of a call that was halved has one answer for each of its
\* questions and no other, whatever names the provider answered under; it is all
\* that was received, nothing of it lost or replaced when the halves were put
\* together, and its usage counts every accepted response once.
AnswersComplete ==
    phase = "answered" /\ accepted > 1 =>
        /\ DOMAIN answers = Questions
        /\ received = {<<n, answers[n]>> : n \in Questions}
        /\ usage = accepted

=============================================================================
