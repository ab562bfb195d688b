------------------------- MODULE JevRequestsProofs -------------------------
(***************************************************************************)
(* A call of JevClient.system_one, for any questions, candidates, lists    *)
(* and limits: no request is sent twice, every request has what its        *)
(* questions are about, a call that is given up could not be made, and the *)
(* answers of the halves add up.                                           *)
(*                                                                         *)
(* First what the loop of compact_jev_state comes to, which is where the   *)
(* recursive definitions of the model are: sums over finite sets and the   *)
(* sequence of reduced states.                                             *)
(***************************************************************************)
EXTENDS JevRequests, FiniteSetTheorems, SequenceTheorems, TLAPS

(* Natural numbers. *)

LEMMA MinIsMember ==
    ASSUME NEW S \in SUBSET Nat, S # {}
    PROVE  Min(S) \in S /\ \A y \in S : Min(S) <= y
<1> DEFINE R == {ss \in Nat \X Nat : ss[1] < ss[2]}
<1>1. IsWellFoundedOn(R, Nat)
  BY NatLessThanWellFounded DEF OpToRel
<1> HIDE DEF R
<1>2. PICK x \in S : \A y \in S : ~ (<<y, x>> \in R)
  BY <1>1, WFMin
<1>3. ASSUME NEW y \in S PROVE x <= y
  <2>1. x \in Nat /\ y \in Nat /\ <<y, x>> \notin R
    BY <1>2
  <2>2. ~ (y < x)
    BY <2>1 DEF R
  <2> QED
    BY <2>1, <2>2
<1> QED
  BY <1>3 DEF Min

LEMMA Induction ==
    ASSUME NEW S, 0 \in S, \A n \in Nat : n \in S => n + 1 \in S
    PROVE  Nat \subseteq S
<1> SUFFICES ASSUME Nat \ S # {} PROVE FALSE
  OBVIOUS
<1>1. PICK n \in Nat \ S : \A m \in Nat \ S : n <= m
  BY MinIsMember
<1>2. n # 0 /\ n - 1 \in Nat
  BY <1>1
<1>3. n - 1 \in S
  BY <1>1, <1>2
<1> QED
  BY <1>1, <1>2, <1>3

LEMMA MaxIsMember ==
    ASSUME NEW S \in SUBSET Nat, S # {}, IsFiniteSet(S)
    PROVE  Max(S) \in S /\ \A y \in S : y <= Max(S)
<1> DEFINE HasMax(n) == \A T \in SUBSET S : T # {} /\ IsFiniteSet(T) /\ Cardinality(T) <= n
                           => \E x \in T : \A y \in T : y <= x
           N == {n \in Nat : HasMax(n)}
<1>1. 0 \in N
  BY FS_EmptySet, FS_CardinalityType
<1>2. ASSUME NEW n \in Nat, n \in N PROVE n + 1 \in N
  <2>1. ASSUME NEW T \in SUBSET S, T # {}, IsFiniteSet(T), Cardinality(T) <= n + 1
        PROVE  \E x \in T : \A y \in T : y <= x
    <3>1. PICK x \in T : TRUE
      BY <2>1
    <3>2. IsFiniteSet(T \ {x}) /\ Cardinality(T \ {x}) <= n
      <4>1. IsFiniteSet(T \ {x}) /\ Cardinality(T \ {x}) = Cardinality(T) - 1 /\ Cardinality(T) \in Nat
        BY <2>1, FS_RemoveElement, FS_CardinalityType
      <4> QED
        BY <2>1, <4>1
    <3>3. CASE T \ {x} = {}
      BY <3>1, <3>3
    <3>4. CASE T \ {x} # {}
      <4>1. PICK z \in T \ {x} : \A y \in T \ {x} : y <= z
        BY <1>2, <3>2, <3>4
      <4>2. x \in Nat /\ z \in Nat /\ \A y \in T : y \in Nat
        BY <2>1
      <4>3. CASE x <= z
        BY <4>1, <4>2, <4>3
      <4>4. CASE z <= x
        BY <4>1, <4>2, <4>4
      <4> QED
        BY <4>2, <4>3, <4>4
    <3> QED
      BY <3>3, <3>4
  <2> QED
    BY <1>2, <2>1
<1>3. Cardinality(S) \in N
  <2> HIDE DEF N
  <2> QED
    BY <1>1, <1>2, Induction, FS_CardinalityType
<1>4. \E x \in S : \A y \in S : y <= x
  BY <1>3, FS_CardinalityType
<1> QED
  BY <1>4 DEF Max

-----------------------------------------------------------------------------
(* Sums.  SumFunctionOnSet takes one element after the other, each chosen from *)
(* the set that is left: that of the sets of n elements needs those of n - 1.  *)

Pick(s) == CHOOSE x \in s : TRUE
Partial(f, S) ==
    CHOOSE iter : iter = [s \in SUBSET S |-> IF s = {} THEN 0 ELSE f[Pick(s)] + iter[s \ {Pick(s)}]]

LEMMA SumIsPartial ==
    ASSUME NEW f, NEW S PROVE SumFunctionOnSet(f, S) = Partial(f, S)[S]
BY DEF SumFunctionOnSet, FoldFunctionOnSet, MapThenFoldSet, Partial, Pick

LEMMA Rest ==
    ASSUME NEW S, IsFiniteSet(S), NEW s \in SUBSET S, s # {}
    PROVE  /\ Pick(s) \in s /\ s \ {Pick(s)} \in SUBSET S
           /\ IsFiniteSet(s) /\ Cardinality(s) \in Nat /\ Cardinality(s) > 0
           /\ Cardinality(s \ {Pick(s)}) = Cardinality(s) - 1
<1>1. Pick(s) \in s
  BY DEF Pick
<1>2. IsFiniteSet(s)
  BY FS_Subset
<1>3. Cardinality(s) \in Nat /\ Cardinality(s) # 0
  BY <1>2, FS_CardinalityType, FS_EmptySet
<1>4. Cardinality(s \ {Pick(s)}) = Cardinality(s) - 1
  BY <1>1, <1>2, FS_RemoveElement
<1> QED
  BY <1>1, <1>2, <1>3, <1>4

LEMMA PartialIs ==
    ASSUME NEW f, NEW S, IsFiniteSet(S)
    PROVE  /\ Partial(f, S)[{}] = 0
           /\ \A s \in SUBSET S :
                s # {} => Partial(f, S)[s] = f[Pick(s)] + Partial(f, S)[s \ {Pick(s)}]
<1> DEFINE Sum(g, s) == IF s = {} THEN 0 ELSE f[Pick(s)] + g[s \ {Pick(s)}]
           UpTo(g, n) == \A s \in SUBSET S : Cardinality(s) <= n => g[s] = Sum(g, s)
           N == {n \in Nat : \E g : UpTo(g, n)}
<1>1. 0 \in N
  <2> DEFINE g == [s \in SUBSET S |-> 0]
  <2>1. UpTo(g, 0)
    <3>1. ASSUME NEW s \in SUBSET S, s # {}, Cardinality(s) <= 0 PROVE FALSE
      <4>1. Cardinality(s) \in Nat /\ Cardinality(s) > 0
        BY <3>1, Rest
      <4> QED
        BY <3>1, <4>1
    <3> QED
      BY <3>1
  <2> QED
    BY <2>1
<1>2. ASSUME NEW n \in Nat, n \in N PROVE n + 1 \in N
  <2>1. PICK g : UpTo(g, n)
    BY <1>2
  <2> DEFINE h == [s \in SUBSET S |-> Sum(g, s)]
  <2>2. ASSUME NEW s \in SUBSET S, Cardinality(s) <= n + 1 PROVE h[s] = Sum(h, s)
    <3>1. CASE s = {}
      BY <3>1
    <3>2. CASE s # {}
      <4>1. s \ {Pick(s)} \in SUBSET S /\ Cardinality(s \ {Pick(s)}) <= n
        BY <2>2, <3>2, Rest
      <4>2. h[s \ {Pick(s)}] = g[s \ {Pick(s)}]
        BY <2>1, <4>1
      <4> QED
        BY <3>2, <4>2
    <3> QED
      BY <3>1, <3>2
  <2>3. UpTo(h, n + 1)
    BY <2>2
  <2> HIDE DEF h, UpTo
  <2> QED
    BY <2>3
<1>3. Cardinality(S) \in N
  <2> HIDE DEF N
  <2> QED
    BY <1>1, <1>2, Induction, FS_CardinalityType
<1>4. PICK g : UpTo(g, Cardinality(S))
  BY <1>3
<1> DEFINE h == [s \in SUBSET S |-> g[s]]
<1>5. h = [s \in SUBSET S |-> Sum(h, s)]
  <2>1. ASSUME NEW s \in SUBSET S PROVE h[s] = Sum(h, s)
    <3>1. Cardinality(s) <= Cardinality(S)
      BY FS_Subset
    <3>2. g[s] = Sum(g, s)
      BY <1>4, <3>1
    <3> QED
      BY <3>2
  <2> QED
    BY <2>1
<1>6. Partial(f, S) = [s \in SUBSET S |-> Sum(Partial(f, S), s)]
  <2> HIDE DEF h
  <2>1. \E iter : iter = [s \in SUBSET S |-> IF s = {} THEN 0 ELSE f[Pick(s)] + iter[s \ {Pick(s)}]]
    BY <1>5
  <2> QED
    BY <2>1 DEF Partial
<1> HIDE DEF h
<1> QED
  BY <1>6

LEMMA OnePart ==
    ASSUME NEW f, NEW S, IsFiniteSet(S), NEW s \in SUBSET S, s # {}
    PROVE  Pick(s) \in s /\ Partial(f, S)[s] = f[Pick(s)] + Partial(f, S)[s \ {Pick(s)}]
<1>1. Pick(s) \in s
  BY DEF Pick
<1>2. \A t \in SUBSET S : t # {} => Partial(f, S)[t] = f[Pick(t)] + Partial(f, S)[t \ {Pick(t)}]
  BY PartialIs
<1> QED
  BY <1>1, <1>2

\* A fact about the partial sums of f that holds of none and with one more, holds of all.
LEMMA ByParts ==
    ASSUME NEW S, IsFiniteSet(S), NEW P, {} \in P,
           \A s \in SUBSET S : s # {} /\ s \ {Pick(s)} \in P => s \in P
    PROVE  S \in P
<1> DEFINE N == {n \in Nat : \A s \in SUBSET S : Cardinality(s) <= n => s \in P}
<1>1. 0 \in N
  <2>1. ASSUME NEW s \in SUBSET S, s # {}, Cardinality(s) <= 0 PROVE FALSE
    <3>1. Cardinality(s) \in Nat /\ Cardinality(s) > 0
      BY <2>1, Rest
    <3> QED
      BY <2>1, <3>1
  <2> QED
    BY <2>1
<1>2. ASSUME NEW n \in Nat, n \in N PROVE n + 1 \in N
  <2>1. ASSUME NEW s \in SUBSET S, Cardinality(s) <= n + 1, s # {} PROVE s \in P
    <3>1. s \ {Pick(s)} \in SUBSET S /\ Cardinality(s \ {Pick(s)}) <= n
      BY <2>1, Rest
    <3> QED
      BY <1>2, <2>1, <3>1
  <2> QED
    BY <2>1
<1>3. Cardinality(S) \in N
  <2> HIDE DEF N
  <2> QED
    BY <1>1, <1>2, Induction, FS_CardinalityType
<1> QED
  BY <1>3, FS_CardinalityType

LEMMA SumBounds ==
    ASSUME NEW S, IsFiniteSet(S), NEW f, \A x \in S : f[x] \in Nat
    PROVE  SumFunctionOnSet(f, S) \in Nat /\ \A x \in S : f[x] <= SumFunctionOnSet(f, S)
<1> DEFINE g == Partial(f, S)
           P == {s \in SUBSET S : g[s] \in Nat /\ \A x \in s : f[x] <= g[s]}
<1>1. {} \in P
  BY PartialIs
<1>2. ASSUME NEW s \in SUBSET S, s # {}, s \ {Pick(s)} \in P PROVE s \in P
  <2>0. s # {}
    BY <1>2
  <2>1. Pick(s) \in s /\ g[s] = f[Pick(s)] + g[s \ {Pick(s)}]
    BY <2>0, OnePart
  <2> HIDE DEF g
  <2>2. f[Pick(s)] \in Nat /\ g[s \ {Pick(s)}] \in Nat /\ \A x \in s : f[x] \in Nat
    BY <1>2, <2>1
  <2>3. \A x \in s : x = Pick(s) \/ f[x] <= g[s \ {Pick(s)}]
    BY <1>2
  <2> QED
    BY <2>1, <2>2, <2>3
<1>3. S \in P
  <2> HIDE DEF P
  <2> QED
    BY <1>1, <1>2, ByParts
<1> QED
  BY <1>3, SumIsPartial

LEMMA SumOfOne ==
    ASSUME NEW f, NEW x, f[x] \in Nat PROVE SumFunctionOnSet(f, {x}) = f[x]
<1>1. IsFiniteSet({x}) /\ Pick({x}) = x /\ {x} \ {x} = {}
  BY FS_Singleton DEF Pick
<1>2. Partial(f, {x})[{x}] = f[x] + Partial(f, {x})[{}]
  BY <1>1, PartialIs
<1> QED
  BY <1>1, <1>2, PartialIs, SumIsPartial

LEMMA SumOfSame ==
    ASSUME NEW S, IsFiniteSet(S), NEW f, NEW c \in Nat, \A x \in S : f[x] = c
    PROVE  SumFunctionOnSet(f, S) = Cardinality(S) * c
<1> DEFINE g == Partial(f, S)
           P == {s \in SUBSET S : g[s] = Cardinality(s) * c}
<1>1. {} \in P
  BY PartialIs, FS_EmptySet
<1>2. ASSUME NEW s \in SUBSET S, s # {}, s \ {Pick(s)} \in P PROVE s \in P
  <2>0. s # {} /\ f[Pick(s)] = c
    <3>1. Pick(s) \in s
      BY <1>2, Rest
    <3> QED
      BY <1>2, <3>1
  <2>1. g[s] = f[Pick(s)] + g[s \ {Pick(s)}]
    BY <2>0, OnePart
  <2> HIDE DEF g
  <2>2. g[s] = c + (Cardinality(s) - 1) * c /\ Cardinality(s) \in Nat
    BY <1>2, <2>0, <2>1, Rest
  <2>3. c + (Cardinality(s) - 1) * c = Cardinality(s) * c
    BY <2>2
  <2> QED
    BY <2>2, <2>3
<1>3. S \in P
  <2> HIDE DEF P
  <2> QED
    BY <1>1, <1>2, ByParts
<1> QED
  BY <1>3, SumIsPartial

\* One summand is replaced.
LEMMA SumExcept ==
    ASSUME NEW S, IsFiniteSet(S), NEW f, NEW h, NEW z \in S, \A x \in S : f[x] \in Nat,
           h[z] \in Nat, \A x \in S : x # z => h[x] = f[x]
    PROVE  SumFunctionOnSet(f, S) + h[z] = SumFunctionOnSet(h, S) + f[z]
<1> DEFINE F == Partial(f, S)
           H == Partial(h, S)
           P == {s \in SUBSET S : /\ F[s] \in Nat /\ H[s] \in Nat
                                  /\ IF z \in s THEN F[s] + h[z] = H[s] + f[z] ELSE F[s] = H[s]}
<1>1. {} \in P
  BY PartialIs
<1>2. ASSUME NEW s \in SUBSET S, s # {}, s \ {Pick(s)} \in P PROVE s \in P
  <2>0. s # {}
    BY <1>2
  <2>1. Pick(s) \in s /\ F[s] = f[Pick(s)] + F[s \ {Pick(s)}] /\ H[s] = h[Pick(s)] + H[s \ {Pick(s)}]
    BY <2>0, OnePart
  <2> HIDE DEF F, H
  <2>2. F[s \ {Pick(s)}] \in Nat /\ H[s \ {Pick(s)}] \in Nat /\ f[Pick(s)] \in Nat /\ h[Pick(s)] \in Nat
        /\ f[z] \in Nat /\ F[s] \in Nat /\ H[s] \in Nat
    BY <1>2, <2>1
  <2>3. CASE Pick(s) = z
    <3>1. F[s \ {Pick(s)}] = H[s \ {Pick(s)}]
      BY <1>2, <2>3
    <3> QED
      BY <2>1, <2>2, <2>3, <3>1
  <2>4. CASE Pick(s) # z
    <3>1. h[Pick(s)] = f[Pick(s)] /\ (z \in s <=> z \in s \ {Pick(s)})
      BY <2>1, <2>4
    <3>2. IF z \in s THEN F[s \ {Pick(s)}] + h[z] = H[s \ {Pick(s)}] + f[z]
          ELSE F[s \ {Pick(s)}] = H[s \ {Pick(s)}]
      BY <1>2, <3>1
    <3> QED
      BY <2>1, <2>2, <3>1, <3>2
  <2> QED
    BY <2>3, <2>4
<1>3. S \in P
  <2> HIDE DEF P
  <2> QED
    BY <1>1, <1>2, ByParts
<1> QED
  BY <1>3, SumIsPartial

-----------------------------------------------------------------------------
(* compact_jev_state: what a turn of its loop does. *)

TextsOf(cands) == {"objective"} \cup cands

\* What the loop can make of the full state.
IsState(s, cands) ==
    /\ s \in [items : [Lists -> SUBSET Nat], cands : {cands}, text : [TextsOf(cands) -> Nat]]
    /\ \A l \in Lists : s.items[l] \subseteq Ages[l]
    /\ \A x \in TextsOf(cands) : LeastText <= s.text[x] /\ s.text[x] <= TextSize

NoMoreThan(s, t) ==
    /\ \A l \in Lists : s.items[l] \subseteq t.items[l]
    /\ \A x \in DOMAIN t.text : s.text[x] <= t.text[x]

\* A bound on what is left to reduce.
Mass(s) == SumFunction([l \in Lists |-> Cardinality(s.items[l])]) + SumFunction(s.text)

LEMMA PathsAre ==
    /\ DOMAIN DropPaths = 1..6 /\ \A i \in 1..6 : DropPaths[i] \in Lists
    /\ \A l \in Lists : \E i \in 1..6 : l = DropPaths[i]
    /\ IsFiniteSet(Lists)
<1>1. DOMAIN DropPaths = 1..6
  BY DEF DropPaths
<1>2. Lists = {DropPaths[i] : i \in 1..6}
  BY <1>1 DEF Lists, Range
<1>3. DropPaths \in Surjection(1..6, Lists)
  <2>1. DropPaths \in [1..6 -> Lists]
    <3>1. DropPaths = [i \in 1..6 |-> DropPaths[i]]
      BY DEF DropPaths
    <3> QED
      BY <1>2, <3>1
  <2> QED
    BY <1>2, <2>1 DEF Surjection
<1>4. IsFiniteSet(1..6)
  <2>1. 1..6 \in SUBSET Nat /\ \A i \in 1..6 : i <= 6
    OBVIOUS
  <2> QED
    BY <2>1, FS_BoundedSetOfNaturals
<1>5. IsFiniteSet(Lists)
  BY <1>3, <1>4, FS_Surjection
<1> QED
  BY <1>1, <1>2, <1>5

LEMMA TextsAre ==
    ASSUME NEW cands \in SUBSET Candidates
    PROVE  /\ IsFiniteSet(TextsOf(cands)) /\ "objective" \in TextsOf(cands)
           /\ IsFiniteSet(cands) /\ Cardinality(cands) \in Nat
           /\ Cardinality(TextsOf(cands)) = 1 + Cardinality(cands)
           /\ Cardinality(cands) <= Cardinality(Candidates) /\ Cardinality(Candidates) \in Nat
<1>1. IsFiniteSet(Candidates) /\ "objective" \notin cands
  BY JevAssumption
<1>2. /\ IsFiniteSet(cands) /\ Cardinality(cands) \in Nat
      /\ Cardinality(cands) <= Cardinality(Candidates) /\ Cardinality(Candidates) \in Nat
  BY <1>1, FS_Subset, FS_CardinalityType
<1>3. TextsOf(cands) = cands \cup {"objective"}
  BY DEF TextsOf
<1>4. IsFiniteSet(TextsOf(cands)) /\ Cardinality(TextsOf(cands)) = Cardinality(cands) + 1
  BY <1>1, <1>2, <1>3, FS_AddElement
<1> QED
  BY <1>2, <1>3, <1>4

LEMMA SizesAre ==
    /\ TextSize \in Nat \ {0} /\ ShortText \in Nat \ {0} /\ LeastText \in Nat \ {0}
    /\ LeastText <= TextSize /\ LeastText <= ShortText
    /\ CandidateSize \in Nat /\ DisclosureSize \in Nat
    /\ \A l \in Lists : Ages[l] \in SUBSET Nat /\ IsFiniteSet(Ages[l])
BY JevAssumption DEF LeastText

LEMMA FullIsState ==
    ASSUME NEW cands \in SUBSET Candidates PROVE IsState(FullState(cands), cands)
<1>1. FullState(cands) = [items |-> Ages, cands |-> cands, text |-> [x \in TextsOf(cands) |-> TextSize]]
  BY DEF FullState, TextsOf
<1>2. Ages \in [Lists -> SUBSET Nat]
  BY JevAssumption
<1> QED
  BY <1>1, <1>2, SizesAre DEF IsState

LEMMA ItemsFinite ==
    ASSUME NEW cands, NEW s, IsState(s, cands), NEW l \in Lists
    PROVE  s.items[l] \in SUBSET Nat /\ IsFiniteSet(s.items[l]) /\ Cardinality(s.items[l]) \in Nat
BY SizesAre, FS_Subset, FS_CardinalityType DEF IsState

LEMMA MassIs ==
    ASSUME NEW cands \in SUBSET Candidates, NEW s, IsState(s, cands)
    PROVE  LET counts == [l \in Lists |-> Cardinality(s.items[l])] IN
           /\ Mass(s) = SumFunctionOnSet(counts, Lists) + SumFunctionOnSet(s.text, TextsOf(cands))
           /\ SumFunctionOnSet(counts, Lists) \in Nat
           /\ SumFunctionOnSet(s.text, TextsOf(cands)) \in Nat
           /\ \A l \in Lists : Cardinality(s.items[l]) <= SumFunctionOnSet(counts, Lists)
           /\ Mass(s) \in Nat
<1> DEFINE counts == [l \in Lists |-> Cardinality(s.items[l])]
<1>1. \A l \in Lists : counts[l] \in Nat
  BY ItemsFinite
<1>2. DOMAIN counts = Lists /\ DOMAIN s.text = TextsOf(cands) /\ \A x \in TextsOf(cands) : s.text[x] \in Nat
  BY DEF IsState
<1>3. SumFunction(counts) = SumFunctionOnSet(counts, Lists)
  BY <1>2 DEF SumFunction
<1>4. SumFunction(s.text) = SumFunctionOnSet(s.text, TextsOf(cands))
  BY <1>2 DEF SumFunction
<1>5. SumFunctionOnSet(counts, Lists) \in Nat /\ \A l \in Lists : counts[l] <= SumFunctionOnSet(counts, Lists)
  <2> HIDE DEF counts
  <2> QED
    BY <1>1, PathsAre, SumBounds
<1>6. SumFunctionOnSet(s.text, TextsOf(cands)) \in Nat
  BY <1>2, TextsAre, SumBounds
<1>7. Mass(s) = SumFunction(counts) + SumFunction(s.text)
  BY DEF Mass
<1> QED
  BY <1>3, <1>4, <1>5, <1>6, <1>7

\* A turn of the loop takes away an item of a list, or a part of a text.
LEMMA ReduceIs ==
    ASSUME NEW cands \in SUBSET Candidates, NEW s, IsState(s, cands)
    PROVE  \/ Irreducible(s) /\ Reduce(s) = s
           \/ ~Irreducible(s) /\ \E l \in Lists, a \in Nat :
                a \in s.items[l] /\ Reduce(s) = [s EXCEPT !.items[l] = s.items[l] \ {a}]
           \/ ~Irreducible(s) /\ \E x \in TextsOf(cands), n \in Nat :
                /\ LeastText <= n /\ n < s.text[x]
                /\ Reduce(s) = [s EXCEPT !.text[x] = n]
<1> DEFINE full == {i \in DOMAIN DropPaths : s.items[DropPaths[i]] # {}}
           least == DropPaths[Min(full)]
           x == CHOOSE y \in LongTexts(s) : \A z \in LongTexts(s) : s.text[z] <= s.text[y]
<1>1. CASE full # {}
  <2>1. full \in SUBSET Nat
    BY PathsAre
  <2>2. Min(full) \in full
    BY <1>1, <2>1, MinIsMember
  <2>3. least \in Lists /\ s.items[least] # {}
    BY <2>2, PathsAre
  <2>4. s.items[least] \in SUBSET Nat /\ IsFiniteSet(s.items[least])
    BY <2>3, ItemsFinite
  <2>5. FirstLoss(least, s.items[least]) \in s.items[least]
    BY <2>3, <2>4, MaxIsMember, MinIsMember DEF FirstLoss
  <2>6. Reduce(s) = [s EXCEPT !.items[least] = s.items[least] \ {FirstLoss(least, s.items[least])}]
    BY <1>1 DEF Reduce
  <2>7. ~Irreducible(s)
    BY <2>3 DEF Irreducible
  <2> QED
    BY <2>3, <2>4, <2>5, <2>6, <2>7
<1>2. CASE full = {} /\ LongTexts(s) # {}
  <2>1. /\ LongTexts(s) \subseteq TextsOf(cands)
        /\ \A y \in LongTexts(s) : s.text[y] \in Nat /\ s.text[y] > ShortText /\ s.text[y] <= TextSize
    BY DEF LongTexts, IsState
  <2>2. x \in LongTexts(s)
    <3> DEFINE sizes == {s.text[y] : y \in LongTexts(s)}
    <3>1. sizes \in SUBSET Nat /\ sizes # {} /\ \A n \in sizes : n <= TextSize
      BY <1>2, <2>1
    <3>2. IsFiniteSet(sizes)
      BY <3>1, SizesAre, FS_BoundedSetOfNaturals
    <3>3. Max(sizes) \in sizes /\ \A n \in sizes : n <= Max(sizes)
      <4> HIDE DEF sizes
      <4> QED
        BY <3>1, <3>2, MaxIsMember
    <3>4. \E y \in LongTexts(s) : \A z \in LongTexts(s) : s.text[z] <= s.text[y]
      BY <3>3
    <3> QED
      BY <3>4
  <2> HIDE DEF x
  <2>3. Reduce(s) = [s EXCEPT !.text[x] = Max({ShortText, s.text[x] \div 2})]
    BY <1>2 DEF Reduce, x
  <2> DEFINE half == s.text[x] \div 2
  <2>4. s.text[x] \in Nat /\ ShortText < s.text[x] /\ ShortText \in Nat \ {0}
    BY <2>1, <2>2, SizesAre
  <2>5. half \in Nat /\ half < s.text[x]
    BY <2>4
  <2>6. {ShortText, half} \in SUBSET Nat /\ {ShortText, half} # {} /\ IsFiniteSet({ShortText, half})
    <3> HIDE DEF half
    <3>1. {ShortText, half} = {ShortText} \cup {half} /\ IsFiniteSet({ShortText})
      BY FS_Singleton
    <3>2. IsFiniteSet({ShortText} \cup {half})
      BY <3>1, FS_AddElement
    <3> QED
      BY <2>4, <2>5, <3>1, <3>2
  <2>7. Max({ShortText, half}) \in {ShortText, half} /\ ShortText <= Max({ShortText, half})
    <3> HIDE DEF half
    <3> QED
      BY <2>6, MaxIsMember
  <2>8. /\ LeastText <= Max({ShortText, half}) /\ Max({ShortText, half}) < s.text[x]
        /\ Max({ShortText, half}) \in Nat
    <3> HIDE DEF half
    <3> QED
      BY <2>4, <2>5, <2>7, SizesAre
  <2> QED
    BY <1>2, <2>1, <2>2, <2>3, <2>8 DEF Irreducible
<1>3. CASE full = {} /\ LongTexts(s) = {}
  <2>1. Reduce(s) = s
    BY <1>3 DEF Reduce
  <2>2. \A l \in Lists : s.items[l] = {}
    BY <1>3, PathsAre
  <2> QED
    BY <1>3, <2>1, <2>2 DEF Irreducible
<1> QED
  BY <1>1, <1>2, <1>3

LEMMA ReduceStep ==
    ASSUME NEW cands \in SUBSET Candidates, NEW s, IsState(s, cands)
    PROVE  /\ IsState(Reduce(s), cands) /\ NoMoreThan(Reduce(s), s)
           /\ Irreducible(s) => Irreducible(Reduce(s))
           /\ ~Irreducible(s) => Mass(Reduce(s)) < Mass(s)
<1> DEFINE r == Reduce(s)
           counts(t) == [l \in Lists |-> Cardinality(t.items[l])]
<1>0. /\ s \in [items : [Lists -> SUBSET Nat], cands : {cands}, text : [TextsOf(cands) -> Nat]]
      /\ \A l \in Lists : s.items[l] \subseteq Ages[l]
      /\ \A x \in TextsOf(cands) : LeastText <= s.text[x] /\ s.text[x] <= TextSize
  BY DEF IsState
<1>1. CASE Irreducible(s) /\ r = s
  BY <1>1, <1>0 DEF NoMoreThan
<1>2. ASSUME NEW l \in Lists, NEW a \in Nat, a \in s.items[l],
             r = [s EXCEPT !.items[l] = s.items[l] \ {a}]
      PROVE  IsState(r, cands) /\ NoMoreThan(r, s) /\ Mass(r) < Mass(s) /\ ~Irreducible(s)
  <2> HIDE DEF r
  <2>1. /\ r.items = [s.items EXCEPT ![l] = s.items[l] \ {a}] /\ r.cands = s.cands /\ r.text = s.text
        /\ r \in [items : [Lists -> SUBSET Nat], cands : {cands}, text : [TextsOf(cands) -> Nat]]
    BY <1>0, <1>2
  <2>2. IsState(r, cands) /\ NoMoreThan(r, s)
    BY <1>0, <2>1 DEF IsState, NoMoreThan
  <2>3. /\ Cardinality(r.items[l]) = Cardinality(s.items[l]) - 1
        /\ \A k \in Lists : k # l => r.items[k] = s.items[k]
    BY <1>0, <1>2, <2>1, ItemsFinite, FS_RemoveElement
  <2>4. \A k \in Lists : counts(s)[k] \in Nat /\ counts(r)[k] \in Nat
    BY <2>2, ItemsFinite
  <2>5. /\ counts(r)[l] = counts(s)[l] - 1
        /\ \A k \in Lists : k # l => counts(r)[k] = counts(s)[k]
    BY <2>3
  <2> HIDE DEF counts
  <2>6. SumFunctionOnSet(counts(s), Lists) + counts(r)[l] = SumFunctionOnSet(counts(r), Lists) + counts(s)[l]
    BY <2>4, <2>5, PathsAre, SumExcept
  <2>7. SumFunctionOnSet(counts(r), Lists) \in Nat /\ SumFunctionOnSet(counts(s), Lists) \in Nat
    BY <2>4, PathsAre, SumBounds
  <2>8. SumFunctionOnSet(counts(r), Lists) < SumFunctionOnSet(counts(s), Lists)
    BY <2>4, <2>5, <2>6, <2>7
  <2>9. /\ Mass(s) = SumFunctionOnSet(counts(s), Lists) + SumFunctionOnSet(s.text, TextsOf(cands))
        /\ Mass(r) = SumFunctionOnSet(counts(r), Lists) + SumFunctionOnSet(s.text, TextsOf(cands))
        /\ SumFunctionOnSet(s.text, TextsOf(cands)) \in Nat
    BY <2>1, <2>2, MassIs DEF counts
  <2>10. Mass(r) < Mass(s)
    BY <2>7, <2>8, <2>9
  <2> QED
    BY <1>2, <2>2, <2>10 DEF Irreducible
<1>3. ASSUME NEW x \in TextsOf(cands), NEW n \in Nat, LeastText <= n, n < s.text[x],
             r = [s EXCEPT !.text[x] = n], ~Irreducible(s)
      PROVE  IsState(r, cands) /\ NoMoreThan(r, s) /\ Mass(r) < Mass(s)
  <2> HIDE DEF r
  <2>1. /\ r.items = s.items /\ r.cands = s.cands /\ r.text = [s.text EXCEPT ![x] = n]
        /\ r \in [items : [Lists -> SUBSET Nat], cands : {cands}, text : [TextsOf(cands) -> Nat]]
    BY <1>0, <1>3
  <2>2. /\ s.text[x] \in Nat /\ r.text[x] = n /\ DOMAIN s.text = TextsOf(cands)
        /\ \A y \in TextsOf(cands) : s.text[y] \in Nat /\ (y # x => r.text[y] = s.text[y])
    BY <1>0, <2>1
  <2>3. IsState(r, cands)
    BY <1>0, <1>3, <2>1, <2>2, SizesAre DEF IsState
  <2>4. NoMoreThan(r, s)
    BY <1>0, <1>3, <2>1, <2>2 DEF NoMoreThan
  <2>5. SumFunctionOnSet(s.text, TextsOf(cands)) + n = SumFunctionOnSet(r.text, TextsOf(cands)) + s.text[x]
    BY <2>2, TextsAre, SumExcept
  <2>6. /\ Mass(s) = SumFunctionOnSet(counts(s), Lists) + SumFunctionOnSet(s.text, TextsOf(cands))
        /\ Mass(r) = SumFunctionOnSet(counts(s), Lists) + SumFunctionOnSet(r.text, TextsOf(cands))
        /\ SumFunctionOnSet(s.text, TextsOf(cands)) \in Nat
        /\ SumFunctionOnSet(r.text, TextsOf(cands)) \in Nat
        /\ SumFunctionOnSet(counts(s), Lists) \in Nat
    BY <2>1, <2>3, MassIs
  <2> HIDE DEF counts
  <2>7. Mass(r) < Mass(s)
    BY <1>3, <2>2, <2>5, <2>6
  <2> QED
    BY <2>3, <2>4, <2>7
<1>4. \/ Irreducible(s) /\ r = s
      \/ ~Irreducible(s) /\ \E l \in Lists, a \in Nat :
            a \in s.items[l] /\ r = [s EXCEPT !.items[l] = s.items[l] \ {a}]
      \/ ~Irreducible(s) /\ \E x \in TextsOf(cands), n \in Nat :
           LeastText <= n /\ n < s.text[x] /\ r = [s EXCEPT !.text[x] = n]
  BY ReduceIs
<1>5. CASE Irreducible(s)
  BY <1>1, <1>4, <1>5
<1>6. CASE ~Irreducible(s)
  BY <1>2, <1>3, <1>4, <1>6
<1> QED
  BY <1>5, <1>6

-----------------------------------------------------------------------------
(* The turns of the loop, its end, and the size that it comes to. *)

LEMMA FullMass ==
    ASSUME NEW cands \in SUBSET Candidates
    PROVE  Mass(FullState(cands)) \in Nat /\ MaxReductions \in Nat /\ Mass(FullState(cands)) <= MaxReductions
<1> DEFINE full == FullState(cands)
           counts == [l \in Lists |-> Cardinality(Ages[l])]
<1>1. /\ full.items = Ages /\ full.text = [x \in TextsOf(cands) |-> TextSize]
  BY DEF FullState, TextsOf
<1>2. /\ Mass(full) = SumFunctionOnSet(counts, Lists) + SumFunctionOnSet(full.text, TextsOf(cands))
      /\ SumFunctionOnSet(counts, Lists) \in Nat
  BY <1>1, FullIsState, MassIs
<1>3. SumFunctionOnSet(full.text, TextsOf(cands)) = (1 + Cardinality(cands)) * TextSize
  <2>1. \A x \in TextsOf(cands) : full.text[x] = TextSize
    BY <1>1
  <2> HIDE DEF full
  <2> QED
    BY <2>1, TextsAre, SizesAre, SumOfSame
<1>4. MaxReductions = SumFunctionOnSet(counts, Lists) + (1 + Cardinality(Candidates)) * TextSize
  <2>1. DOMAIN counts = Lists
    OBVIOUS
  <2> QED
    BY <2>1 DEF MaxReductions, SumFunction
<1>5. /\ (1 + Cardinality(cands)) * TextSize \in Nat /\ (1 + Cardinality(Candidates)) * TextSize \in Nat
      /\ (1 + Cardinality(cands)) * TextSize <= (1 + Cardinality(Candidates)) * TextSize
  <2>1. /\ Cardinality(cands) \in Nat /\ Cardinality(Candidates) \in Nat /\ TextSize \in Nat
        /\ Cardinality(cands) <= Cardinality(Candidates)
    BY TextsAre, SizesAre
  <2>2. ASSUME NEW a \in Nat, NEW b \in Nat, NEW c \in Nat, a <= b
        PROVE  (1 + a) * c \in Nat /\ (1 + b) * c \in Nat /\ (1 + a) * c <= (1 + b) * c
    BY <2>2
  <2> QED
    BY <2>1, <2>2
<1> HIDE DEF full, counts
<1>6. Mass(full) \in Nat /\ MaxReductions \in Nat /\ Mass(full) <= MaxReductions
  BY <1>2, <1>3, <1>4, <1>5
<1> QED
  BY <1>6 DEF full

Turns == 0..MaxReductions

LEMMA ReductionsAre ==
    ASSUME NEW cands \in SUBSET Candidates
    PROVE  /\ Reductions(cands)[0] = FullState(cands)
           /\ \A n \in Turns : n # 0 => Reductions(cands)[n] = Reduce(Reductions(cands)[n - 1])
<1> DEFINE Turn(g, n) == IF n = 0 THEN FullState(cands) ELSE Reduce(g[n - 1])
           UpTo(g, k) == \A n \in Turns : n <= k => g[n] = Turn(g, n)
           N == {k \in Nat : \E g : UpTo(g, k)}
<1>1. MaxReductions \in Nat
  BY FullMass
<1>2. 0 \in N
  <2> DEFINE g == [n \in Turns |-> FullState(cands)]
  <2>1. UpTo(g, 0)
    BY <1>1 DEF Turns
  <2> QED
    BY <2>1
<1>3. ASSUME NEW k \in Nat, k \in N PROVE k + 1 \in N
  <2>1. PICK g : UpTo(g, k)
    BY <1>3
  <2> DEFINE h == [n \in Turns |-> Turn(g, n)]
  <2>2. ASSUME NEW n \in Turns, n <= k + 1 PROVE h[n] = Turn(h, n)
    <3>1. CASE n = 0
      BY <3>1
    <3>2. CASE n # 0
      <4>1. n - 1 \in Turns /\ n - 1 <= k
        BY <1>1, <2>2, <3>2 DEF Turns
      <4>2. h[n - 1] = g[n - 1]
        BY <2>1, <4>1
      <4> QED
        BY <3>2, <4>2
    <3> QED
      BY <3>1, <3>2
  <2>3. UpTo(h, k + 1)
    BY <2>2
  <2> HIDE DEF h, UpTo
  <2> QED
    BY <2>3
<1>4. MaxReductions \in N
  <2> HIDE DEF N
  <2> QED
    BY <1>1, <1>2, <1>3, Induction
<1>5. PICK g : UpTo(g, MaxReductions)
  BY <1>4
<1> DEFINE h == [n \in Turns |-> g[n]]
<1>6. h = [n \in Turns |-> Turn(h, n)]
  <2>1. ASSUME NEW n \in Turns PROVE h[n] = Turn(h, n)
    <3>1. n <= MaxReductions /\ (n # 0 => n - 1 \in Turns)
      BY <1>1 DEF Turns
    <3> QED
      BY <1>5, <3>1
  <2> QED
    BY <2>1
<1>7. Reductions(cands) = [n \in Turns |-> Turn(Reductions(cands), n)]
  <2> HIDE DEF h
  <2>1. \E after : after = [n \in 0..MaxReductions |->
                                IF n = 0 THEN FullState(cands) ELSE Reduce(after[n - 1])]
    BY <1>6 DEF Turns
  <2> QED
    BY <2>1 DEF Reductions, Turns
<1>8. 0 \in Turns
  BY <1>1 DEF Turns
<1> HIDE DEF h
<1> QED
  BY <1>7, <1>8

LEMMA ReductionsShrink ==
    ASSUME NEW cands \in SUBSET Candidates
    PROVE  LET after == Reductions(cands) IN
           /\ \A n \in Turns : IsState(after[n], cands)
           /\ \A n \in Turns : Irreducible(after[n]) \/ Mass(after[n]) + n <= MaxReductions
           /\ \A m, n \in Turns : m <= n => NoMoreThan(after[n], after[m])
<1> DEFINE after == Reductions(cands)
           Good(n) == /\ IsState(after[n], cands)
                      /\ Irreducible(after[n]) \/ Mass(after[n]) + n <= MaxReductions
                      /\ \A m \in Turns :
                           m <= n => IsState(after[m], cands) /\ NoMoreThan(after[n], after[m])
           N == {n \in Nat : n \in Turns => Good(n)}
<1>1. MaxReductions \in Nat /\ Turns \subseteq Nat
  BY FullMass DEF Turns
<1>2. after[0] = FullState(cands) /\ \A n \in Turns : n # 0 => after[n] = Reduce(after[n - 1])
  BY ReductionsAre
<1> HIDE DEF after
<1>3. 0 \in N
  <2>1. IsState(after[0], cands) /\ Mass(after[0]) + 0 <= MaxReductions
    BY <1>1, <1>2, FullMass, FullIsState
  <2>2. NoMoreThan(after[0], after[0])
    BY <2>1 DEF NoMoreThan, IsState
  <2>3. \A m \in Turns : m <= 0 => m = 0
    BY <1>1
  <2> QED
    BY <2>1, <2>2, <2>3
<1>4. ASSUME NEW n \in Nat, n \in N PROVE n + 1 \in N
  <2> SUFFICES ASSUME n + 1 \in Turns PROVE Good(n + 1)
    OBVIOUS
  <2>1. n \in Turns /\ after[n + 1] = Reduce(after[n])
    <3>1. n \in Turns /\ n + 1 # 0 /\ (n + 1) - 1 = n
      BY <1>1 DEF Turns
    <3> QED
      BY <1>2, <3>1
  <2>2. Good(n)
    BY <1>4, <2>1
  <2>3. /\ IsState(after[n + 1], cands) /\ NoMoreThan(after[n + 1], after[n])
        /\ Irreducible(after[n]) => Irreducible(after[n + 1])
        /\ ~Irreducible(after[n]) => Mass(after[n + 1]) < Mass(after[n])
    BY <2>1, <2>2, ReduceStep
  <2>4. Irreducible(after[n + 1]) \/ Mass(after[n + 1]) + (n + 1) <= MaxReductions
    <3>1. Mass(after[n]) \in Nat /\ Mass(after[n + 1]) \in Nat
      BY <2>2, <2>3, MassIs
    <3> QED
      BY <1>1, <2>2, <2>3, <3>1
  <2>5. ASSUME NEW m \in Turns, m <= n + 1
        PROVE  IsState(after[m], cands) /\ NoMoreThan(after[n + 1], after[m])
    <3>1. CASE m = n + 1
      BY <2>3, <3>1 DEF NoMoreThan, IsState
    <3>2. CASE m <= n
      <4>1. NoMoreThan(after[n], after[m]) /\ IsState(after[m], cands) /\ IsState(after[n], cands)
        BY <2>2, <3>2
      <4> QED
        BY <2>3, <4>1 DEF NoMoreThan, IsState
    <3> QED
      BY <1>1, <2>5, <3>1, <3>2
  <2> QED
    BY <2>3, <2>4, <2>5
<1>5. Nat \subseteq N
  <2> HIDE DEF N
  <2> QED
    BY <1>3, <1>4, Induction
<1>6. \A n \in Turns : Good(n)
  BY <1>1, <1>5
<1> QED
  BY <1>6 DEF after

LEMMA StateSizeIs ==
    ASSUME NEW cands \in SUBSET Candidates, NEW s, IsState(s, cands)
    PROVE  /\ StateSize(s) = Mass(s) + CandidateSize * Cardinality(cands)
                             + (IF s = FullState(cands) THEN 0 ELSE DisclosureSize)
           /\ StateSize(s) \in Nat
<1>1. Mass(s) \in Nat /\ s.cands = cands
  BY MassIs DEF IsState
<1>2. CandidateSize * Cardinality(cands) \in Nat
  <2>1. CandidateSize \in Nat /\ Cardinality(cands) \in Nat
    BY SizesAre, TextsAre
  <2> QED
    BY <2>1
<1> DEFINE counts == SumFunction([l \in Lists |-> Cardinality(s.items[l])])
           texts == SumFunction(s.text)
<1>3. counts \in Nat /\ texts \in Nat
  <2>1. DOMAIN [l \in Lists |-> Cardinality(s.items[l])] = Lists /\ DOMAIN s.text = TextsOf(cands)
    BY DEF IsState
  <2> QED
    BY <2>1, MassIs DEF SumFunction
<1>4. /\ Mass(s) = counts + texts
      /\ StateSize(s) = counts + CandidateSize * Cardinality(cands) + texts
                        + (IF s = FullState(cands) THEN 0 ELSE DisclosureSize)
  BY <1>1 DEF Mass, StateSize
<1> HIDE DEF counts, texts
<1> QED
  BY <1>1, <1>2, <1>3, <1>4, SizesAre

LEMMA LeastIsState ==
    ASSUME NEW cands \in SUBSET Candidates PROVE IsState(LeastState(cands), cands)
BY SizesAre DEF IsState, LeastState, TextsOf

LEMMA IrreducibleIsLeast ==
    ASSUME NEW cands \in SUBSET Candidates, NEW s, IsState(s, cands), Irreducible(s)
    PROVE  StateSize(s) = Floor(cands)
<1>1. s = [items |-> s.items, cands |-> cands, text |-> s.text]
  BY DEF IsState
<1>2. s.items = [l \in Lists |-> {}]
  BY DEF IsState, Irreducible
<1>3. s.text = [x \in TextsOf(cands) |-> LeastText]
  <2>1. s.text \in [TextsOf(cands) -> Nat]
    BY DEF IsState
  <2>2. ASSUME NEW x \in TextsOf(cands) PROVE s.text[x] = LeastText
    <3>1. s.text[x] \in Nat /\ LeastText <= s.text[x] /\ s.text[x] <= TextSize /\ ~ (s.text[x] > ShortText)
      BY <2>1 DEF IsState, Irreducible, LongTexts
    <3> QED
      BY <3>1, SizesAre DEF LeastText
  <2> QED
    BY <2>1, <2>2
<1>4. s = LeastState(cands)
  BY <1>1, <1>2, <1>3 DEF LeastState, TextsOf
<1> QED
  BY <1>4 DEF Floor

LEMMA FloorGrows ==
    ASSUME NEW more \in SUBSET Candidates, NEW cands \in SUBSET more
    PROVE  Floor(cands) \in Nat \ {0} /\ Floor(more) \in Nat /\ Floor(cands) <= Floor(more)
<1> DEFINE none == [l \in Lists |-> Cardinality({})]
           Disclosed(c) == IF LeastState(c) = FullState(c) THEN 0 ELSE DisclosureSize
<1>1. ASSUME NEW c \in SUBSET Candidates
      PROVE  /\ Floor(c) = (1 + Cardinality(c)) * LeastText + CandidateSize * Cardinality(c) + Disclosed(c)
             /\ Cardinality(c) \in Nat
  <2>1. Floor(c) = Mass(LeastState(c)) + CandidateSize * Cardinality(c) + Disclosed(c)
    BY LeastIsState, StateSizeIs DEF Floor
  <2>2. SumFunctionOnSet(LeastState(c).text, TextsOf(c)) = (1 + Cardinality(c)) * LeastText
    <3>1. \A x \in TextsOf(c) : LeastState(c).text[x] = LeastText
      BY DEF LeastState, TextsOf
    <3> QED
      BY <3>1, TextsAre, SizesAre, SumOfSame
  <2>3. SumFunctionOnSet(none, Lists) = 0
    <3>1. \A l \in Lists : none[l] = 0
      BY FS_EmptySet
    <3>2. IsFiniteSet(Lists) /\ Cardinality(Lists) \in Nat
      BY PathsAre, FS_CardinalityType
    <3> HIDE DEF none
    <3>3. SumFunctionOnSet(none, Lists) = Cardinality(Lists) * 0
      BY <3>1, <3>2, SumOfSame
    <3> QED
      BY <3>2, <3>3
  <2>4. [l \in Lists |-> Cardinality(LeastState(c).items[l])] = none
    BY DEF LeastState
  <2>5. Mass(LeastState(c)) = SumFunctionOnSet(none, Lists) + SumFunctionOnSet(LeastState(c).text, TextsOf(c))
    BY <2>4, LeastIsState, MassIs
  <2>6. (1 + Cardinality(c)) * LeastText \in Nat /\ Cardinality(c) \in Nat
    <3>1. LeastText \in Nat /\ Cardinality(c) \in Nat
      BY SizesAre, TextsAre
    <3> QED
      BY <3>1
  <2> HIDE DEF none, Disclosed
  <2>7. Mass(LeastState(c)) = (1 + Cardinality(c)) * LeastText
    BY <2>2, <2>3, <2>5, <2>6
  <2> QED
    BY <2>1, <2>6, <2>7
<1>2. Disclosed(cands) = Disclosed(more)
  <2>1. ASSUME NEW c
        PROVE  LeastState(c) = FullState(c) <=> Ages = [l \in Lists |-> {}] /\ LeastText = TextSize
    <3>1. FullState(c) = [items |-> Ages, cands |-> c, text |-> [x \in TextsOf(c) |-> TextSize]]
      BY DEF FullState, TextsOf
    <3>3. LeastState(c) = [items |-> [l \in Lists |-> {}], cands |-> c,
                           text |-> [x \in TextsOf(c) |-> LeastText]]
      BY DEF LeastState, TextsOf
    <3>2. [x \in TextsOf(c) |-> TextSize] = [x \in TextsOf(c) |-> LeastText] <=> LeastText = TextSize
      BY DEF TextsOf
    <3> QED
      BY <3>1, <3>2, <3>3
  <2> QED
    BY <2>1
<1>3. Cardinality(cands) <= Cardinality(more)
  BY TextsAre, FS_Subset
<1>4. Disclosed(more) \in Nat
  BY SizesAre
<1> HIDE DEF Disclosed
<1>5. ASSUME NEW a \in Nat, NEW b \in Nat, a <= b, NEW t \in Nat \ {0}, NEW d \in Nat, NEW e \in Nat
      PROVE  /\ (1 + a) * t + d * a + e \in Nat \ {0} /\ (1 + b) * t + d * b + e \in Nat
             /\ (1 + a) * t + d * a + e <= (1 + b) * t + d * b + e
  <2>1. (1 + a) * t <= (1 + b) * t /\ d * a <= d * b
    BY <1>5
  <2>2. (1 + a) * t \in Nat \ {0} /\ (1 + b) * t \in Nat /\ d * a \in Nat /\ d * b \in Nat
    BY <1>5
  <2> QED
    BY <1>5, <2>1, <2>2
<1>6. /\ Floor(cands) = (1 + Cardinality(cands)) * LeastText
                      + CandidateSize * Cardinality(cands) + Disclosed(more)
      /\ Cardinality(cands) \in Nat
  BY <1>1, <1>2
<1>7. /\ Floor(more) = (1 + Cardinality(more)) * LeastText
                      + CandidateSize * Cardinality(more) + Disclosed(more)
      /\ Cardinality(more) \in Nat
  BY <1>1
<1>8. LeastText \in Nat \ {0} /\ CandidateSize \in Nat
  BY SizesAre
<1> QED
  BY <1>3, <1>4, <1>5, <1>6, <1>7, <1>8

-----------------------------------------------------------------------------
Enough(cands, budget) ==
    {n \in Turns : StateSize(Reductions(cands)[n]) <= budget \/ Irreducible(Reductions(cands)[n])}
TurnsFor(cands, budget) == Min(Enough(cands, budget))

\* The loop ends, and with the first state that will do.
LEMMA LoopEnds ==
    ASSUME NEW cands \in SUBSET Candidates, NEW budget \in Nat
    PROVE  LET n == TurnsFor(cands, budget) IN
           /\ n \in Turns /\ n \in Nat /\ Compacted(cands, budget) = Reductions(cands)[n]
           /\ IsState(Compacted(cands, budget), cands)
           /\ \/ StateSize(Compacted(cands, budget)) <= budget
              \/ StateSize(Compacted(cands, budget)) = Floor(cands)
           /\ n \in Enough(cands, budget) /\ \A m \in Enough(cands, budget) : n <= m
<1> DEFINE after == Reductions(cands)
           n == TurnsFor(cands, budget)
<1>1. MaxReductions \in Nat /\ Turns \subseteq Nat /\ MaxReductions \in Turns
  BY FullMass DEF Turns
<1>2. Irreducible(after[MaxReductions])
  <2>1. /\ IsState(after[MaxReductions], cands)
        /\ Irreducible(after[MaxReductions]) \/ Mass(after[MaxReductions]) + MaxReductions <= MaxReductions
    BY <1>1, ReductionsShrink
  <2> HIDE DEF after
  <2>2. CASE Mass(after[MaxReductions]) + MaxReductions <= MaxReductions
    <3> DEFINE s == after[MaxReductions]
               counts == [l \in Lists |-> Cardinality(s.items[l])]
    <3>1. /\ Mass(s) \in Nat /\ SumFunctionOnSet(counts, Lists) \in Nat
          /\ SumFunctionOnSet(s.text, TextsOf(cands)) \in Nat
          /\ Mass(s) = SumFunctionOnSet(counts, Lists) + SumFunctionOnSet(s.text, TextsOf(cands))
          /\ \A l \in Lists : Cardinality(s.items[l]) <= SumFunctionOnSet(counts, Lists)
      BY <2>1, MassIs
    <3>2. \A x \in TextsOf(cands) : s.text[x] \in Nat /\ s.text[x] <= SumFunctionOnSet(s.text, TextsOf(cands))
      <4>1. \A x \in TextsOf(cands) : s.text[x] \in Nat
        BY <2>1 DEF IsState
      <4> QED
        BY <4>1, TextsAre, SumBounds
    <3>3. DOMAIN s.text = TextsOf(cands)
      BY <2>1 DEF IsState
    <3> HIDE DEF s, counts
    <3>4. SumFunctionOnSet(counts, Lists) = 0 /\ SumFunctionOnSet(s.text, TextsOf(cands)) = 0
      BY <1>1, <2>2, <3>1 DEF s
    <3>5. \A x \in TextsOf(cands) : s.text[x] <= ShortText
      BY <3>2, <3>4, SizesAre
    <3>6. ASSUME NEW l \in Lists PROVE s.items[l] = {}
      <4>1. IsFiniteSet(s.items[l]) /\ Cardinality(s.items[l]) \in Nat /\ Cardinality(s.items[l]) <= 0
        BY <2>1, <3>1, <3>4, ItemsFinite DEF s
      <4>2. Cardinality(s.items[l]) = 0
        BY <4>1
      <4> QED
        BY <4>1, <4>2, FS_EmptySet
    <3>7. LongTexts(s) = {}
      BY <3>2, <3>3, <3>5, SizesAre DEF LongTexts
    <3> QED
      BY <3>6, <3>7 DEF Irreducible, s
  <2> QED
    BY <2>1, <2>2
<1>3. Enough(cands, budget) \in SUBSET Nat /\ MaxReductions \in Enough(cands, budget)
  BY <1>1, <1>2 DEF Enough
<1>4. n \in Enough(cands, budget) /\ \A m \in Enough(cands, budget) : n <= m
  BY <1>3, MinIsMember DEF TurnsFor
<1>5. Compacted(cands, budget) = after[n]
  BY DEF Compacted, TurnsFor, Enough, Turns
<1>6. n \in Turns /\ (StateSize(after[n]) <= budget \/ Irreducible(after[n]))
  BY <1>4 DEF Enough
<1>7. IsState(after[n], cands)
  BY <1>6, ReductionsShrink
<1> HIDE DEF after, n
<1>8. StateSize(after[n]) <= budget \/ StateSize(after[n]) = Floor(cands)
  BY <1>6, <1>7, IrreducibleIsLeast
<1> QED
  BY <1>1, <1>4, <1>5, <1>6, <1>7, <1>8 DEF n, after

\* With a smaller budget the loop goes on from where it was.
LEMMA SmallerBudget ==
    ASSUME NEW cands \in SUBSET Candidates, NEW b \in Nat, NEW c \in Nat, b <= c
    PROVE  TurnsFor(cands, c) <= TurnsFor(cands, b)
<1>1. TurnsFor(cands, b) \in Enough(cands, b) /\ \A m \in Enough(cands, c) : TurnsFor(cands, c) <= m
  BY LoopEnds
<1>2. Enough(cands, b) \subseteq Enough(cands, c)
  <2>1. ASSUME NEW n \in Turns PROVE StateSize(Reductions(cands)[n]) \in Nat
    BY ReductionsShrink, StateSizeIs
  <2> QED
    BY <2>1 DEF Enough
<1> QED
  BY <1>1, <1>2

-----------------------------------------------------------------------------
(* Questions, candidates and budgets. *)

LEMMA QuestionsAre ==
    ASSUME NEW qs \in SUBSET Questions
    PROVE  /\ qs \in SUBSET Nat /\ IsFiniteSet(qs) /\ Cardinality(qs) \in Nat
           /\ qs # {} /\ Cardinality(qs) < 2 => \E q \in Questions : qs = {q}
           /\ Overhead(qs) \in Nat
<1>1. qs \in SUBSET Nat /\ NumQuestions \in Nat /\ \A q \in qs : q <= NumQuestions
  BY JevAssumption DEF Questions
<1>2. IsFiniteSet(qs) /\ Cardinality(qs) \in Nat
  BY <1>1, FS_BoundedSetOfNaturals, FS_CardinalityType
<1>3. ASSUME qs # {}, Cardinality(qs) < 2 PROVE \E q \in Questions : qs = {q}
  <2>1. PICK q \in qs : TRUE
    BY <1>3
  <2>2. IsFiniteSet(qs \ {q}) /\ Cardinality(qs \ {q}) = Cardinality(qs) - 1 /\ Cardinality(qs \ {q}) \in Nat
    BY <1>2, <2>1, FS_RemoveElement, FS_CardinalityType
  <2>3. Cardinality(qs \ {q}) = 0
    BY <1>2, <1>3, <2>2
  <2>4. qs \ {q} = {}
    BY <2>2, <2>3, FS_EmptySet
  <2> QED
    BY <2>1, <2>4
<1>4. Overhead(qs) \in Nat
  <2>1. \A q \in qs : QuestionSize[q] \in Nat
    BY JevAssumption
  <2> QED
    BY <1>2, <2>1, SumBounds DEF Overhead
<1> QED
  BY <1>1, <1>2, <1>3, <1>4

LEMMA HalvesAre ==
    ASSUME NEW qs \in SUBSET Questions, Cardinality(qs) >= 2
    PROVE  Half(qs) \in SUBSET qs /\ Half(qs) # {} /\ qs \ Half(qs) # {}
<1>1. qs \in SUBSET Nat /\ IsFiniteSet(qs) /\ Cardinality(qs) \in Nat
  BY QuestionsAre
<1>2. qs # {}
  BY FS_EmptySet
<1>3. Min(qs) \in Half(qs)
  <2>1. Min(qs) \in qs /\ \A p \in qs : Min(qs) <= p
    BY <1>1, <1>2, MinIsMember
  <2>2. \A p \in qs : p <= Min(qs) <=> p = Min(qs)
    <3>1. \A p \in qs : p \in Nat /\ Min(qs) \in Nat
      BY <1>1, <2>1
    <3> QED
      BY <2>1, <3>1
  <2> DEFINE first == {p \in qs : p <= Min(qs)}
  <2>3. first = {Min(qs)}
    BY <2>1, <2>2
  <2> HIDE DEF first
  <2>4. Cardinality(first) = 1
    BY <2>3, FS_Singleton
  <2>5. 2 * Cardinality(first) <= Cardinality(qs)
    BY <1>1, <2>4
  <2> QED
    BY <2>1, <2>5 DEF Half, first
<1>4. Max(qs) \in qs \ Half(qs)
  <2>1. Max(qs) \in qs /\ \A p \in qs : p <= Max(qs)
    BY <1>1, <1>2, MaxIsMember
  <2>2. {p \in qs : p <= Max(qs)} = qs
    BY <2>1
  <2>3. ~ (2 * Cardinality({p \in qs : p <= Max(qs)}) <= Cardinality(qs))
    BY <1>1, <2>2
  <2> QED
    BY <2>1, <2>3 DEF Half
<1> QED
  BY <1>3, <1>4 DEF Half

AllNarrowed == Narrowed(Questions, Candidates)

\* What is left of candidates that had all that the questions need still has it.
LEMMA NarrowedIs ==
    ASSUME NEW qs \in SUBSET Questions, NEW cands \in SUBSET Candidates, cands \subseteq AllNarrowed,
           Addressed(qs) \subseteq cands
    PROVE  /\ Narrowed(qs, cands) \in SUBSET Candidates /\ Addressed(qs) \subseteq Narrowed(qs, cands)
           /\ Narrowed(qs, cands) \subseteq Narrowed(qs, Candidates)
           /\ Narrowed(qs, cands) \subseteq AllNarrowed
<1>1. Candidates \cap Addressed(qs) = Addressed(qs) /\ cands \cap Addressed(qs) = Addressed(qs)
  BY JevAssumption DEF Addressed
<1>2. /\ Narrowed(qs, cands) = IF Addressed(qs) = {} THEN cands ELSE Addressed(qs)
      /\ Narrowed(qs, Candidates) = IF Addressed(qs) = {} THEN Candidates ELSE Addressed(qs)
  BY <1>1 DEF Narrowed
<1> HIDE DEF AllNarrowed
<1> QED
  BY <1>2

\* A part of the questions needs no more than all of them.
LEMMA PartNeeds ==
    ASSUME NEW qs, NEW part \in SUBSET qs PROVE Addressed(part) \subseteq Addressed(qs)
BY DEF Addressed

LEMMA AllNarrowedIs ==
    AllNarrowed \in SUBSET Candidates /\ Addressed(Questions) \subseteq AllNarrowed
<1>1. Candidates \cap Addressed(Questions) = Addressed(Questions)
  BY JevAssumption DEF Addressed
<1> QED
  BY <1>1 DEF AllNarrowed, Narrowed

Budget(room, n) == Max({1, room \div 2^n})

LEMMA BudgetIs ==
    ASSUME NEW room \in Nat \ {0}, NEW n \in 0..MaxContextRetries
    PROVE  /\ Budget(room, n) \in Nat /\ Budget(room, n) <= room
           /\ n < MaxContextRetries => Budget(room, n + 1) <= Budget(room, n)
<1>1. ASSUME NEW b \in Nat PROVE Max({1, b}) \in {1, b} /\ Max({1, b}) >= 1 /\ Max({1, b}) >= b
  <2>1. {1, b} \in SUBSET Nat /\ {1, b} # {} /\ IsFiniteSet({1, b})
    <3>1. {1, b} = {1} \cup {b} /\ IsFiniteSet({1})
      BY FS_Singleton
    <3> QED
      BY <3>1, FS_AddElement
  <2> QED
    BY <2>1, MaxIsMember
<1>2. n \in {0, 1, 2, 3}
  BY DEF MaxContextRetries
<1>3. 2^0 = 1 /\ 2^1 = 2 /\ 2^2 = 4 /\ 2^3 = 8
  OBVIOUS
<1>4. /\ room \div 1 \in Nat /\ room \div 2 \in Nat /\ room \div 4 \in Nat /\ room \div 8 \in Nat
      /\ room \div 1 <= room /\ room \div 2 <= room \div 1
      /\ room \div 4 <= room \div 2 /\ room \div 8 <= room \div 4
  OBVIOUS
<1>5. ASSUME NEW b \in Nat, NEW c \in Nat, b <= c, c <= room
      PROVE  Max({1, b}) \in Nat /\ Max({1, b}) <= Max({1, c}) /\ Max({1, b}) <= room
  BY <1>1, <1>5
<1>6. \A a \in Nat : Budget(room, a) = Max({1, room \div 2^a})
  BY DEF Budget
<1>7. /\ Budget(room, 0) = Max({1, room \div 1}) /\ Budget(room, 1) = Max({1, room \div 2})
      /\ Budget(room, 2) = Max({1, room \div 4}) /\ Budget(room, 3) = Max({1, room \div 8})
  BY <1>3 DEF Budget
<1>8. /\ Budget(room, 0) \in Nat /\ Budget(room, 0) <= room
      /\ Budget(room, 1) \in Nat /\ Budget(room, 1) <= room /\ Budget(room, 1) <= Budget(room, 0)
      /\ Budget(room, 2) \in Nat /\ Budget(room, 2) <= room /\ Budget(room, 2) <= Budget(room, 1)
      /\ Budget(room, 3) \in Nat /\ Budget(room, 3) <= room /\ Budget(room, 3) <= Budget(room, 2)
  BY <1>4, <1>5, <1>7
<1> QED
  <2>1. CASE n = 0
    BY <1>8, <2>1
  <2>2. CASE n = 1
    BY <1>8, <2>2
  <2>3. CASE n = 2
    BY <1>8, <2>3
  <2>4. CASE n = 3
    BY <1>8, <2>4 DEF MaxContextRetries
  <2> QED
    BY <1>2, <2>1, <2>2, <2>3, <2>4

\* The states of the loop are in one order: what lies between two equal ones is equal.
LEMMA LoopIsOrdered ==
    ASSUME NEW cands \in SUBSET Candidates, NEW n \in Turns, NEW k \in Turns, NEW m \in Turns,
           n <= k, k <= m, Reductions(cands)[n] = Reductions(cands)[m]
    PROVE  Reductions(cands)[k] = Reductions(cands)[m]
<1> DEFINE s == Reductions(cands)[k]
           t == Reductions(cands)[m]
<1>1. IsState(s, cands) /\ IsState(t, cands) /\ NoMoreThan(t, s) /\ NoMoreThan(s, t)
  BY ReductionsShrink
<1> HIDE DEF s, t
<1>2. /\ s = [items |-> s.items, cands |-> cands, text |-> s.text]
      /\ t = [items |-> t.items, cands |-> cands, text |-> t.text]
  BY <1>1 DEF IsState
<1>3. s.items = t.items
  <2>1. s.items \in [Lists -> SUBSET Nat] /\ t.items \in [Lists -> SUBSET Nat]
    BY <1>1 DEF IsState
  <2>2. \A l \in Lists : s.items[l] = t.items[l]
    BY <1>1 DEF NoMoreThan
  <2> QED
    BY <2>1, <2>2
<1>4. s.text = t.text
  <2>1. s.text \in [TextsOf(cands) -> Nat] /\ t.text \in [TextsOf(cands) -> Nat]
    BY <1>1 DEF IsState
  <2>2. \A x \in TextsOf(cands) : s.text[x] = t.text[x]
    BY <1>1, <2>1 DEF NoMoreThan
  <2> QED
    BY <2>1, <2>2
<1> QED
  BY <1>2, <1>3, <1>4 DEF s, t

-----------------------------------------------------------------------------
(* The inductive invariant. *)

Asking == phase \in {"preparing", "posted"}

AnswerSets == UNION {[names -> SUBSET Questions] : names \in SUBSET Names}
Pairs(f) == {<<n, f[n]>> : n \in DOMAIN f}
Frames == [qs : SUBSET Questions, cands : SUBSET Candidates, left : AnswerSets,
           usage : Nat, side : {"left", "right"}]
\* The half that is being asked.
Side(f) == IF f.side = "left" THEN Half(f.qs) ELSE f.qs \ Half(f.qs)

Types ==
    /\ limit \in Nat \ {0} /\ stack \in Seq(Frames)
    /\ batch \in [qs : SUBSET Questions, cands : SUBSET Candidates]
    /\ attempt \in 0..MaxContextRetries
    /\ phase \in {"preparing", "posted", "returning"} \cup Ended
    /\ answers \in AnswerSets /\ usage \in Nat /\ accepted \in Nat

StackOfHalves ==
    \A j \in 1..Len(stack) :
        /\ Cardinality(stack[j].qs) >= 2 /\ stack[j].cands \subseteq AllNarrowed
        /\ Addressed(stack[j].qs) \subseteq stack[j].cands
        /\ \A i \in 1..(j - 1) : stack[j].qs \subseteq Side(stack[i])
        /\ stack[j].side = "left" => stack[j].usage = 0 /\ stack[j].left = NoAnswers
        /\ j = 1 => stack[j].qs = Questions

BatchOfStack ==
    Asking =>
        /\ batch.qs # {} /\ Addressed(batch.qs) \subseteq batch.cands
        /\ batch.cands \subseteq Narrowed(batch.qs, Candidates) /\ batch.cands \subseteq AllNarrowed
        /\ \A i \in 1..Len(stack) : batch.qs \subseteq Side(stack[i])
        /\ stack = <<>> => batch.qs = Questions

\* A right half that waits was not asked, nor was a part of it.
RightsUnasked ==
    \A j \in 1..Len(stack) : stack[j].side = "left" =>
        \A r \in posts : ~ (r[1] \subseteq stack[j].qs \ Half(stack[j].qs))

\* What was asked with the questions of the batch is what the loop went through
\* up to the state that was posted last; a part of them was not asked.
AskedUpTo(k) ==
    /\ last = {Reductions(batch.cands)[k]} /\ k <= TurnsFor(batch.cands, StateBudget)
    /\ \A r \in posts : r[1] = batch.qs =>
          \E n \in Turns : n <= k /\ r[2] = Reductions(batch.cands)[n]
NotAsked ==
    /\ phase = "preparing" /\ last = {} /\ attempt = 0 /\ \A r \in posts : r[1] # batch.qs
Visit ==
    Asking =>
        /\ \A r \in posts : r[1] \subseteq batch.qs => r[1] = batch.qs
        /\ NotAsked \/ (Overhead(batch.qs) < limit /\ \E k \in Turns : AskedUpTo(k))

\* Every accepted response is in one of the counters.
Counted ==
    phase \notin Ended =>
        \E g \in [0..Len(stack) -> Nat] :
            /\ g[0] = 0 /\ \A i \in 1..Len(stack) : g[i] = g[i - 1] + stack[i].usage
            /\ accepted = g[Len(stack)] + (IF phase = "returning" THEN usage ELSE 0)
WholeAnswers ==
    phase = "returning" /\ stack = <<>> /\ accepted > 1 => DOMAIN answers = Questions
\* What was received is in the answers of a left half that waits for its right one,
\* or has just returned.
Waiting(s) == UNION {Pairs(s[j].left) : j \in 1..Len(s)}
Returned == IF phase = "returning" THEN Pairs(answers) ELSE {}
Kept == phase \notin Ended => received = Waiting(stack) \cup Returned

IInv == /\ Types /\ StackOfHalves /\ BatchOfStack /\ RightsUnasked /\ Visit
        /\ Counted /\ WholeAnswers /\ Kept /\ AskedInContext /\ RefusedOnlyIfUnfit /\ AnswersComplete

-----------------------------------------------------------------------------
(* What the steps have in common. *)

LEMMA TopIs ==
    ASSUME stack \in Seq(Frames), stack # <<>>
    PROVE  /\ Len(stack) \in Nat \ {0} /\ Top \in Frames /\ Top = stack[Len(stack)]
           /\ Below \in Seq(Frames) /\ Len(Below) = Len(stack) - 1
           /\ \A i \in 1..(Len(stack) - 1) : Below[i] = stack[i]
<1>1. Len(stack) \in Nat \ {0}
  OBVIOUS
<1>2. stack[Len(stack)] \in Frames
  BY <1>1
<1>3. /\ SubSeq(stack, 1, Len(stack) - 1) \in Seq(Frames)
      /\ Len(SubSeq(stack, 1, Len(stack) - 1)) = Len(stack) - 1
      /\ \A i \in 1..(Len(stack) - 1) : SubSeq(stack, 1, Len(stack) - 1)[i] = stack[i]
  <2> DEFINE n == Len(stack) - 1
  <2>1. n \in Nat /\ 1 \in Int /\ n \in Int /\ \A i \in 1..n : stack[i] \in Frames
    BY <1>1
  <2> HIDE DEF n
  <2>2. /\ SubSeq(stack, 1, n) \in Seq(Frames)
        /\ Len(SubSeq(stack, 1, n)) = (IF 1 <= n THEN n - 1 + 1 ELSE 0)
        /\ \A i \in 1..(n - 1 + 1) : SubSeq(stack, 1, n)[i] = stack[1 + i - 1]
    BY <2>1, SubSeqProperties
  <2>3. Len(SubSeq(stack, 1, n)) = n
    BY <2>1, <2>2
  <2>4. \A i \in 1..n : SubSeq(stack, 1, n)[i] = stack[i]
    <3>1. n - 1 + 1 = n /\ \A i \in 1..n : 1 + i - 1 = i
      BY <2>1
    <3> QED
      BY <2>2, <3>1
  <2> QED
    BY <2>2, <2>3, <2>4 DEF n
<1> QED
  BY <1>1, <1>2, <1>3 DEF Top, Below

\* A batch is entered with questions that were not asked.
LEMMA Entered ==
    ASSUME NEW qs \in SUBSET Questions, NEW cands \in SUBSET Candidates, cands \subseteq AllNarrowed,
           Addressed(qs) \subseteq cands, Enter(qs, cands), qs # {}, posts' = posts, stack' # <<>>,
           \A r \in posts : ~ (r[1] \subseteq qs),
           \A i \in 1..Len(stack') : qs \subseteq Side(stack'[i])
    PROVE  /\ batch' \in [qs : SUBSET Questions, cands : SUBSET Candidates]
           /\ attempt' \in 0..MaxContextRetries /\ phase' = "preparing"
           /\ BatchOfStack' /\ Visit'
<1>1. /\ batch' = [qs |-> qs, cands |-> Narrowed(qs, cands)]
      /\ attempt' = 0 /\ last' = {} /\ phase' = "preparing"
  BY DEF Enter
<1>2. /\ Narrowed(qs, cands) \in SUBSET Candidates /\ Addressed(qs) \subseteq Narrowed(qs, cands)
      /\ Narrowed(qs, cands) \subseteq Narrowed(qs, Candidates)
      /\ Narrowed(qs, cands) \subseteq AllNarrowed
  BY NarrowedIs
<1>3. BatchOfStack'
  BY <1>1, <1>2 DEF BatchOfStack
<1>4. Visit'
  <2>1. NotAsked'
    BY <1>1 DEF NotAsked
  <2>2. \A r \in posts' : ~ (r[1] \subseteq batch'.qs)
    BY <1>1
  <2> QED
    BY <2>1, <2>2 DEF Visit
<1> QED
  BY <1>1, <1>2, <1>3, <1>4 DEF MaxContextRetries

\* What the client makes of the state of a batch.
LEMMA RequestIs ==
    ASSUME Types, Overhead(batch.qs) < limit
    PROVE  /\ StateBudget \in Nat /\ StateBudget <= limit - Overhead(batch.qs) /\ Overhead(batch.qs) \in Nat
           /\ TurnsFor(batch.cands, StateBudget) \in Turns
           /\ Request = Reductions(batch.cands)[TurnsFor(batch.cands, StateBudget)]
           /\ Request.cands = batch.cands /\ StateSize(Request) \in Nat
           /\ \/ StateSize(Request) <= limit - Overhead(batch.qs)
              \/ StateSize(Request) = Floor(batch.cands)
<1>1. /\ batch.qs \in SUBSET Questions /\ batch.cands \in SUBSET Candidates
      /\ limit \in Nat /\ attempt \in 0..MaxContextRetries
  BY DEF Types
<1>2. Overhead(batch.qs) \in Nat
  BY <1>1, QuestionsAre
<1>3. limit - Overhead(batch.qs) \in Nat \ {0}
  BY <1>1, <1>2
<1>4. StateBudget = Budget(limit - Overhead(batch.qs), attempt)
  BY DEF StateBudget, Budget
<1>5. StateBudget \in Nat /\ StateBudget <= limit - Overhead(batch.qs)
  BY <1>1, <1>3, <1>4, BudgetIs
<1>6. /\ TurnsFor(batch.cands, StateBudget) \in Turns
      /\ Request = Reductions(batch.cands)[TurnsFor(batch.cands, StateBudget)]
      /\ IsState(Request, batch.cands)
      /\ StateSize(Request) <= StateBudget \/ StateSize(Request) = Floor(batch.cands)
  BY <1>1, <1>5, LoopEnds DEF Request
<1>7. StateSize(Request) \in Nat /\ Request.cands = batch.cands
  BY <1>1, <1>6, StateSizeIs DEF IsState
<1> QED
  BY <1>1, <1>2, <1>5, <1>6, <1>7

LEMMA NoAnswersIs == NoAnswers \in AnswerSets /\ Pairs(NoAnswers) = {}
<1>1. NoAnswers \in [{} -> SUBSET Questions] /\ DOMAIN NoAnswers = {}
  BY DEF NoAnswers
<1> QED
  BY <1>1 DEF AnswerSets, Pairs

\* While a batch is being asked, what was received waits in the left halves.
LEMMA KeptAsking ==
    ASSUME IInv, Asking PROVE received = Waiting(stack)
BY DEF IInv, Kept, Returned, Asking, Ended

\* What remains of it when no half and no answer changes.
LEMMA KeptOn ==
    ASSUME IInv, Asking, stack' = stack, received' = received, phase' # "returning" PROVE Kept'
<1>1. received = Waiting(stack)
  BY KeptAsking
<1> QED
  BY <1>1 DEF Kept, Returned

\* A batch is halved, or it was one question.
LEMMA SplitStep ==
    ASSUME IInv, Asking, NEW ending \in {"refused", "too_large"}, Split(ending), Settled
    PROVE  /\ Types' /\ StackOfHalves' /\ BatchOfStack' /\ RightsUnasked' /\ Visit' /\ Counted'
           /\ WholeAnswers' /\ Kept' /\ AskedInContext' /\ AnswersComplete'
           /\ phase' = "preparing" \/ (phase' = ending /\ \E q \in Questions : batch.qs = {q})
<1>0. /\ limit' = limit /\ answers' = answers /\ usage' = usage /\ posts' = posts /\ accepted' = accepted
      /\ received' = received
      /\ Types /\ StackOfHalves /\ BatchOfStack /\ RightsUnasked /\ Visit /\ Counted /\ AskedInContext
  BY DEF Settled, IInv
<1>1. /\ batch.qs \in SUBSET Questions /\ batch.cands \in SUBSET Candidates /\ stack \in Seq(Frames)
      /\ batch.qs # {} /\ batch.cands \subseteq AllNarrowed
      /\ Addressed(batch.qs) \subseteq batch.cands /\ Cardinality(batch.qs) \in Nat
  BY <1>0, QuestionsAre DEF Types, BatchOfStack
<1>2. AskedInContext'
  BY <1>0 DEF AskedInContext
<1>3. CASE Cardinality(batch.qs) >= 2
  <2> DEFINE f == [qs |-> batch.qs, cands |-> batch.cands, left |-> NoAnswers, usage |-> 0, side |-> "left"]
  <2>1. f \in Frames /\ stack' = Append(stack, f) /\ Enter(Half(batch.qs), batch.cands)
    <3>1. NoAnswers \in AnswerSets
      BY NoAnswersIs
    <3> QED
      BY <1>1, <1>3, <3>1 DEF Split, Frames
  <2>2. /\ Half(batch.qs) \in SUBSET batch.qs /\ Half(batch.qs) # {}
        /\ batch.qs \ Half(batch.qs) # {}
    BY <1>1, <1>3, HalvesAre
  <2>3. \A i \in 1..Len(stack) : batch.qs \subseteq Side(stack[i])
    BY <1>0 DEF BatchOfStack
  <2>4. /\ stack' \in Seq(Frames) /\ stack' # <<>> /\ Len(stack') = Len(stack) + 1 /\ Len(stack) \in Nat
        /\ stack'[Len(stack) + 1] = f /\ \A i \in 1..Len(stack) : stack'[i] = stack[i]
    <3> HIDE DEF f
    <3> QED
      BY <1>1, <2>1
  <2>5. StackOfHalves'
    <3>1. stack = <<>> => batch.qs = Questions
      BY <1>0 DEF BatchOfStack
    <3>2. f.qs = batch.qs /\ f.cands = batch.cands /\ f.usage = 0 /\ f.left = NoAnswers
      OBVIOUS
    <3> HIDE DEF f
    <3> QED
      BY <1>0, <1>1, <1>3, <2>1, <2>3, <3>1, <3>2 DEF StackOfHalves
  <2>6. \A i \in 1..Len(stack') : Half(batch.qs) \subseteq Side(stack'[i])
    <3>1. Side(f) = Half(batch.qs)
      BY DEF Side
    <3> HIDE DEF f
    <3> QED
      BY <2>2, <2>3, <2>4, <3>1
  <2>7. \A r \in posts : r[1] \subseteq batch.qs => r[1] = batch.qs
    BY <1>0 DEF Visit
  <2>8. RightsUnasked'
    <3>1. f.qs = batch.qs
      OBVIOUS
    <3> HIDE DEF f
    <3>2. \A r \in posts : ~ (r[1] \subseteq batch.qs \ Half(batch.qs))
      BY <2>2, <2>7
    <3> QED
      BY <1>0, <2>4, <3>1, <3>2 DEF RightsUnasked
  <2>9. /\ batch' \in [qs : SUBSET Questions, cands : SUBSET Candidates]
        /\ attempt' \in 0..MaxContextRetries /\ phase' = "preparing" /\ BatchOfStack' /\ Visit'
    <3>1. \A r \in posts : ~ (r[1] \subseteq Half(batch.qs))
      BY <2>2, <2>7
    <3>2. Addressed(Half(batch.qs)) \subseteq batch.cands
      BY <1>1, <2>2, PartNeeds
    <3> QED
      BY <1>0, <1>1, <2>1, <2>2, <2>4, <2>6, <3>1, <3>2, Entered
  <2>10. Counted'
    <3>1. PICK g \in [0..Len(stack) -> Nat] :
            /\ g[0] = 0 /\ \A i \in 1..Len(stack) : g[i] = g[i - 1] + stack[i].usage
            /\ accepted = g[Len(stack)]
      <4>1. phase \notin Ended /\ phase # "returning"
        BY DEF Asking, Ended
      <4>2. PICK g \in [0..Len(stack) -> Nat] :
              /\ g[0] = 0 /\ \A i \in 1..Len(stack) : g[i] = g[i - 1] + stack[i].usage
              /\ accepted = g[Len(stack)] + 0
        BY <1>0, <4>1 DEF Counted
      <4>3. g[Len(stack)] \in Nat
        BY <2>4
      <4> QED
        BY <4>2, <4>3
    <3> DEFINE h == [i \in 0..Len(stack') |-> IF i = Len(stack') THEN g[Len(stack)] ELSE g[i]]
    <3>2. h \in [0..Len(stack') -> Nat]
      BY <2>4, <3>1
    <3>3. h[0] = 0 /\ h[Len(stack')] = g[Len(stack)]
      BY <2>4, <3>1
    <3>4. f.usage = 0
      OBVIOUS
    <3> HIDE DEF f
    <3>5. \A i \in 1..Len(stack') : h[i] = h[i - 1] + stack'[i].usage
      BY <2>4, <3>1, <3>4
    <3> QED
      <4>1. h[Len(stack')] \in Nat /\ accepted' = h[Len(stack')] + 0
        BY <1>0, <2>4, <3>1, <3>3
      <4> HIDE DEF h
      <4> QED
        BY <2>9, <3>2, <3>3, <3>5, <4>1 DEF Counted
  <2>11. Kept'
    <3>1. received = Waiting(stack)
      BY KeptAsking
    <3>2. Pairs(f.left) = {}
      BY NoAnswersIs
    <3> HIDE DEF f
    <3>3. Waiting(stack') = Waiting(stack)
      <4>1. \A j \in 1..Len(stack') : j = Len(stack) + 1 \/ j \in 1..Len(stack)
        BY <2>4
      <4>2. \A j \in 1..Len(stack) : j \in 1..Len(stack') /\ stack'[j] = stack[j]
        BY <2>4
      <4>3. Pairs(stack'[Len(stack) + 1].left) = {}
        BY <2>4, <3>2
      <4> QED
        BY <4>1, <4>2, <4>3 DEF Waiting
    <3> QED
      BY <1>0, <2>9, <3>1, <3>3 DEF Kept, Returned
  <2> QED
    BY <1>0, <1>2, <2>4, <2>5, <2>8, <2>9, <2>10, <2>11 DEF Types, WholeAnswers, AnswersComplete
<1>4. CASE ~ (Cardinality(batch.qs) >= 2)
  <2>1. phase' = ending /\ stack' = stack /\ batch' = batch /\ attempt' = attempt /\ last' = last
    BY <1>4 DEF Split
  <2>2. \E q \in Questions : batch.qs = {q}
    BY <1>1, <1>4, QuestionsAre
  <2>3. phase' \in Ended /\ ~ Asking' /\ phase' # "returning" /\ phase' # "answered"
    BY <2>1 DEF Ended, Asking
  <2>4. Types'
    BY <1>0, <2>1, <2>3 DEF Types
  <2>5. StackOfHalves' /\ RightsUnasked'
    BY <1>0, <2>1 DEF StackOfHalves, RightsUnasked
  <2>6. BatchOfStack' /\ Visit' /\ Counted' /\ WholeAnswers' /\ Kept' /\ AnswersComplete'
    BY <2>3 DEF BatchOfStack, Visit, Counted, WholeAnswers, Kept, AnswersComplete
  <2> QED
    BY <1>2, <2>1, <2>2, <2>4, <2>5, <2>6
<1> QED
  BY <1>3, <1>4

-----------------------------------------------------------------------------
(* The invariant is inductive. *)

LEMMA InitIInv == ASSUME Init PROVE IInv
<1>1. /\ limit \in Limits /\ stack = <<>>
      /\ batch = [qs |-> Questions, cands |-> Narrowed(Questions, Candidates)]
      /\ attempt = 0 /\ last = {} /\ phase = "preparing"
      /\ answers = NoAnswers /\ usage = 0 /\ posts = {} /\ accepted = 0 /\ received = {}
  BY DEF Init
<1>2. NumQuestions \in Nat \ {0} /\ Limits \subseteq Nat \ {0}
  BY JevAssumption
<1>3. Questions \in SUBSET Questions /\ Questions # {} /\ 1 \in Questions
  BY <1>2 DEF Questions
<1>4. /\ AllNarrowed \in SUBSET Candidates /\ Addressed(Questions) \subseteq AllNarrowed
      /\ Narrowed(Questions, Candidates) = AllNarrowed
  BY AllNarrowedIs DEF AllNarrowed
<1>5. Types
  BY <1>1, <1>2, <1>3, <1>4, NoAnswersIs DEF Types, MaxContextRetries
<1>6. StackOfHalves /\ RightsUnasked
  BY <1>1 DEF StackOfHalves, RightsUnasked
<1>7. BatchOfStack
  BY <1>1, <1>3, <1>4 DEF BatchOfStack
<1>8. Visit
  BY <1>1 DEF Visit, NotAsked
<1>9. Counted
  <2> DEFINE g == [i \in 0..0 |-> 0]
  <2>1. g \in [0..Len(stack) -> Nat] /\ g[0] = 0 /\ Len(stack) = 0 /\ accepted = g[Len(stack)] + 0
    BY <1>1
  <2> HIDE DEF g
  <2> QED
    BY <1>1, <2>1 DEF Counted
<1>10. Kept
  <2>1. Waiting(stack) = {}
    BY <1>1 DEF Waiting
  <2> QED
    BY <1>1, <2>1 DEF Kept, Returned
<1>11. WholeAnswers /\ AskedInContext /\ RefusedOnlyIfUnfit /\ AnswersComplete
  BY <1>1 DEF WholeAnswers, AskedInContext, RefusedOnlyIfUnfit, AnswersComplete
<1> QED
  BY <1>5, <1>6, <1>7, <1>8, <1>9, <1>10, <1>11 DEF IInv

\* What the two reasons to give up come to.
LEMMA Unfit ==
    ASSUME Types, BatchOfStack, Asking, Overhead(batch.qs) < limit,
           RequestSize(batch.qs, Request) > limit
    PROVE  /\ Overhead(batch.qs) + Floor(batch.cands) > limit
           /\ StateSize(Request) > limit => Floor(batch.cands) > limit
<1>1. /\ StateSize(Request) \in Nat /\ Overhead(batch.qs) \in Nat /\ limit \in Nat
      /\ \/ StateSize(Request) <= limit - Overhead(batch.qs)
         \/ StateSize(Request) = Floor(batch.cands)
  BY RequestIs DEF Types
<1>2. Overhead(batch.qs) + StateSize(Request) > limit
  BY DEF RequestSize
<1> QED
  BY <1>1, <1>2

LEMMA OneOverhead ==
    ASSUME NEW q \in Questions PROVE Overhead({q}) = QuestionSize[q] /\ QuestionSize[q] \in Nat
BY JevAssumption, SumOfOne DEF Overhead

LEMMA SplitForBudgetStep == ASSUME IInv, SplitForBudget PROVE IInv'
<1>1. Asking /\ Split("refused") /\ Settled /\ NeedsFewerQuestions /\ limit' = limit
  BY DEF SplitForBudget, Asking, Settled
<1>2. /\ Types' /\ StackOfHalves' /\ BatchOfStack' /\ RightsUnasked' /\ Visit' /\ Counted'
      /\ WholeAnswers' /\ Kept' /\ AskedInContext' /\ AnswersComplete'
      /\ phase' = "preparing" \/ (phase' = "refused" /\ \E q \in Questions : batch.qs = {q})
  BY <1>1, SplitStep
<1>3. ASSUME NEW q \in Questions, batch.qs = {q}
      PROVE  QuestionSize[q] + Floor(Narrowed({q}, Candidates)) > limit
  <2>1. Types /\ BatchOfStack
    BY DEF IInv
  <2>2. /\ batch.cands \subseteq Narrowed({q}, Candidates) /\ batch.cands \in SUBSET Candidates
        /\ Narrowed({q}, Candidates) \in SUBSET Candidates /\ limit \in Nat
    <3>1. Narrowed({q}, Candidates) \in SUBSET Candidates
      BY DEF Narrowed
    <3> QED
      BY <1>1, <1>3, <2>1, <3>1 DEF BatchOfStack, Types
  <2>3. /\ Floor(Narrowed({q}, Candidates)) \in Nat \ {0} /\ Floor(batch.cands) \in Nat
        /\ Floor(batch.cands) <= Floor(Narrowed({q}, Candidates))
    BY <2>2, FloorGrows
  <2>4. Overhead(batch.qs) = QuestionSize[q] /\ QuestionSize[q] \in Nat
    BY <1>3, OneOverhead
  <2>5. CASE Overhead(batch.qs) >= limit
    BY <2>2, <2>3, <2>4, <2>5
  <2>6. CASE Overhead(batch.qs) < limit
    <3>1. RequestSize(batch.qs, Request) > limit
      BY <1>1, <2>2, <2>4, <2>6 DEF NeedsFewerQuestions
    <3>2. Overhead(batch.qs) + Floor(batch.cands) > limit
      BY <1>1, <2>1, <2>6, <3>1, Unfit
    <3> QED
      BY <2>2, <2>3, <2>4, <3>2
  <2> QED
    BY <2>2, <2>4, <2>5, <2>6
<1>4. RefusedOnlyIfUnfit'
  BY <1>1, <1>2, <1>3 DEF RefusedOnlyIfUnfit
<1> QED
  BY <1>2, <1>4 DEF IInv

\* A call that ends without an answer keeps the rest of the invariant.
LEMMA Ending ==
    ASSUME IInv, phase' \in Ended, phase' # "answered",
           UNCHANGED <<limit, stack, batch, attempt, last, answers, usage, posts, accepted, received>>
    PROVE  /\ Types' /\ StackOfHalves' /\ BatchOfStack' /\ RightsUnasked' /\ Visit' /\ Counted'
           /\ WholeAnswers' /\ Kept' /\ AskedInContext' /\ AnswersComplete'
<1>1. Types /\ StackOfHalves /\ RightsUnasked /\ AskedInContext
  BY DEF IInv
<1>2. ~ Asking' /\ phase' # "returning"
  BY DEF Ended, Asking
<1> QED
  BY <1>1, <1>2 DEF Types, StackOfHalves, BatchOfStack, RightsUnasked, Visit, Counted,
                    WholeAnswers, Kept, AskedInContext, AnswersComplete

LEMMA RefuseStep == ASSUME IInv, Refuse PROVE IInv'
<1>1. /\ Asking /\ ~ NeedsFewerQuestions /\ RequestSize(batch.qs, Request) > limit
      /\ phase' = "refused" /\ phase' \in Ended /\ phase' # "answered"
      /\ UNCHANGED <<limit, stack, batch, attempt, last, answers, usage, posts, accepted, received>>
  BY DEF Refuse, Asking, Settled, Ended
<1>2. Types /\ BatchOfStack
  BY DEF IInv
<1>3. /\ limit \in Nat /\ batch.qs \in SUBSET Questions /\ batch.cands \subseteq AllNarrowed
      /\ AllNarrowed \in SUBSET Candidates
  BY <1>1, <1>2, AllNarrowedIs DEF Types, BatchOfStack
<1>4. Overhead(batch.qs) \in Nat /\ Overhead(batch.qs) < limit
  BY <1>1, <1>3, QuestionsAre DEF NeedsFewerQuestions
<1>5. StateSize(Request) > limit
  BY <1>1, <1>2, <1>3, <1>4, RequestIs DEF NeedsFewerQuestions
<1>6. Floor(batch.cands) > limit
  BY <1>1, <1>2, <1>4, <1>5, Unfit
<1>7. Floor(AllNarrowed) > limit
  BY <1>3, <1>6, FloorGrows
<1>8. RefusedOnlyIfUnfit'
  BY <1>1, <1>7 DEF RefusedOnlyIfUnfit, AllNarrowed
<1> QED
  BY <1>1, <1>8, Ending DEF IInv

LEMMA SplitForRejectionStep == ASSUME IInv, SplitForRejection PROVE IInv'
<1>1. Asking /\ Split("too_large") /\ Settled
  BY DEF SplitForRejection, Asking
<1>2. /\ Types' /\ StackOfHalves' /\ BatchOfStack' /\ RightsUnasked' /\ Visit' /\ Counted'
      /\ WholeAnswers' /\ Kept' /\ AskedInContext' /\ AnswersComplete' /\ phase' \in {"preparing", "too_large"}
  BY <1>1, SplitStep
<1> QED
  BY <1>2 DEF RefusedOnlyIfUnfit, IInv

LEMMA FailStep == ASSUME IInv, Fail PROVE IInv'
<1>1. /\ phase' = "failed" /\ phase' \in Ended /\ phase' # "answered"
      /\ UNCHANGED <<limit, stack, batch, attempt, last, answers, usage, posts, accepted, received>>
  BY DEF Fail, Settled, Ended
<1>2. RefusedOnlyIfUnfit'
  BY <1>1 DEF RefusedOnlyIfUnfit
<1> QED
  BY <1>1, <1>2, Ending DEF IInv

\* A post goes further than those before it.
LEMMA PostGoesOn ==
    ASSUME IInv, Post
    PROVE  /\ <<batch.qs, Request>> \notin posts
           /\ \A r \in posts : r[1] = batch.qs =>
                 \E n \in Turns : n <= TurnsFor(batch.cands, StateBudget) /\ r[2] = Reductions(batch.cands)[n]
<1> DEFINE m == TurnsFor(batch.cands, StateBudget)
<1>1. phase = "preparing" /\ Asking /\ Overhead(batch.qs) < limit /\ ~ (last = {Request})
  BY DEF Post, Asking, Fits, SameAsBefore
<1>2. m \in Turns /\ Request = Reductions(batch.cands)[m]
  BY <1>1, RequestIs DEF IInv
<1>3. batch.cands \in SUBSET Candidates /\ Turns \subseteq Nat
  BY DEF IInv, Types, Turns
<1> HIDE DEF m
<1>4. CASE NotAsked
  <2>1. \A r \in posts : r[1] # batch.qs
    BY <1>4 DEF NotAsked
  <2>2. <<batch.qs, Request>>[1] = batch.qs
    OBVIOUS
  <2> QED
    BY <2>1, <2>2
<1>5. ASSUME NEW k \in Turns, AskedUpTo(k)
      PROVE  /\ <<batch.qs, Request>> \notin posts
             /\ \A r \in posts : r[1] = batch.qs =>
                   \E n \in Turns : n <= m /\ r[2] = Reductions(batch.cands)[n]
  <2>1. /\ k <= m /\ last = {Reductions(batch.cands)[k]}
        /\ \A r \in posts : r[1] = batch.qs => \E n \in Turns : n <= k /\ r[2] = Reductions(batch.cands)[n]
    BY <1>5 DEF AskedUpTo, m
  <2>2. ASSUME <<batch.qs, Request>> \in posts PROVE FALSE
    <3>1. PICK n \in Turns : n <= k /\ <<batch.qs, Request>>[2] = Reductions(batch.cands)[n]
      BY <2>1, <2>2
    <3>2. Reductions(batch.cands)[n] = Reductions(batch.cands)[m]
      BY <1>2, <3>1
    <3>3. Reductions(batch.cands)[k] = Reductions(batch.cands)[m]
      BY <1>2, <1>3, <2>1, <3>1, <3>2, LoopIsOrdered
    <3> QED
      BY <1>1, <1>2, <2>1, <3>3
  <2>3. ASSUME NEW r \in posts, r[1] = batch.qs
        PROVE  \E n \in Turns : n <= m /\ r[2] = Reductions(batch.cands)[n]
    <3>1. PICK n \in Turns : n <= k /\ r[2] = Reductions(batch.cands)[n]
      BY <2>1, <2>3
    <3>2. n <= m
      BY <1>2, <1>3, <2>1, <3>1
    <3> QED
      BY <3>1, <3>2
  <2> QED
    BY <2>2, <2>3
<1>6. NotAsked \/ \E k \in Turns : AskedUpTo(k)
  BY <1>1 DEF IInv, Visit
<1> QED
  BY <1>4, <1>5, <1>6 DEF m

LEMMA PostStep == ASSUME IInv, Post PROVE IInv'
<1> DEFINE r0 == <<batch.qs, Request>>
           m == TurnsFor(batch.cands, StateBudget)
<1>1. /\ phase = "preparing" /\ Asking /\ Overhead(batch.qs) < limit
      /\ last' = {Request} /\ phase' = "posted" /\ posts' = posts \cup {r0}
      /\ UNCHANGED <<limit, stack, batch, attempt, answers, usage, accepted, received>>
  BY DEF Post, Asking, Fits
<1>2. m \in Turns /\ Request = Reductions(batch.cands)[m] /\ Request.cands = batch.cands
  BY <1>1, RequestIs DEF IInv
<1>3. r0[1] = batch.qs /\ r0[2] = Request
  OBVIOUS
<1>4. /\ Types /\ StackOfHalves /\ BatchOfStack /\ RightsUnasked /\ Visit /\ Counted /\ AskedInContext
      /\ batch.qs # {} /\ Addressed(batch.qs) \subseteq batch.cands
      /\ \A i \in 1..Len(stack) : batch.qs \subseteq Side(stack[i])
  BY <1>1 DEF IInv, BatchOfStack
<1>5. m <= m
  BY <1>2 DEF Turns
<1>6. \A r \in posts : r[1] = batch.qs => \E n \in Turns : n <= m /\ r[2] = Reductions(batch.cands)[n]
  BY PostGoesOn
<1>7. StateBudget' = StateBudget
  BY <1>1 DEF StateBudget
<1> HIDE DEF r0, m
<1>8. Types' /\ StackOfHalves' /\ BatchOfStack'
  BY <1>1, <1>4 DEF Types, StackOfHalves, BatchOfStack, Asking
<1>9. RightsUnasked'
  <2>1. \A j \in 1..Len(stack) : stack[j].side = "left" =>
            ~ (batch.qs \subseteq stack[j].qs \ Half(stack[j].qs))
    BY <1>4 DEF Side
  <2> QED
    BY <1>1, <1>3, <1>4, <2>1 DEF RightsUnasked
<1>10. Visit'
  <2>1. \A r \in posts' : r[1] \subseteq batch'.qs => r[1] = batch'.qs
    BY <1>1, <1>3, <1>4 DEF Visit
  <2>2. PICK k \in Turns : k = m
    BY <1>2
  <2>3. \A r \in posts' : r[1] = batch'.qs => \E n \in Turns : n <= k /\ r[2] = Reductions(batch'.cands)[n]
    BY <1>1, <1>2, <1>3, <1>5, <1>6, <2>2
  <2>4. last' = {Reductions(batch'.cands)[k]} /\ k <= TurnsFor(batch'.cands, StateBudget')
    BY <1>1, <1>2, <1>5, <1>7, <2>2 DEF m
  <2>5. AskedUpTo(k)'
    BY <2>3, <2>4 DEF AskedUpTo
  <2>6. Overhead(batch'.qs) < limit'
    BY <1>1
  <2> QED
    BY <2>1, <2>5, <2>6 DEF Visit
<1>11. Counted' /\ WholeAnswers' /\ Kept' /\ RefusedOnlyIfUnfit' /\ AnswersComplete'
  BY <1>1, <1>4, KeptOn DEF Counted, WholeAnswers, RefusedOnlyIfUnfit, AnswersComplete, Ended
<1>12. AskedInContext'
  <2>1. \A q \in batch.qs : About[q] \subseteq Request.cands
    BY <1>2, <1>4 DEF Addressed
  <2> QED
    BY <1>1, <1>3, <1>4, <2>1 DEF AskedInContext
<1> QED
  BY <1>8, <1>9, <1>10, <1>11, <1>12 DEF IInv

LEMMA RejectSizeStep == ASSUME IInv, RejectSize PROVE IInv'
<1>1. phase = "posted" /\ Asking /\ Settled
  BY DEF RejectSize, Asking
<1>2. CASE attempt < MaxContextRetries
  <2>1. /\ attempt' = attempt + 1 /\ phase' = "preparing"
        /\ UNCHANGED <<limit, stack, batch, last, answers, usage, posts, accepted, received>>
    BY <1>2 DEF RejectSize, Settled
  <2>2. /\ Types /\ StackOfHalves /\ BatchOfStack /\ RightsUnasked /\ Visit /\ Counted /\ AskedInContext
    BY DEF IInv
  <2>3. Types'
    BY <1>2, <2>1, <2>2 DEF Types, MaxContextRetries
  <2>4. StackOfHalves' /\ BatchOfStack' /\ RightsUnasked' /\ AskedInContext'
    BY <1>1, <2>1, <2>2 DEF StackOfHalves, BatchOfStack, RightsUnasked, AskedInContext, Asking
  <2>5. Counted' /\ WholeAnswers' /\ Kept' /\ RefusedOnlyIfUnfit' /\ AnswersComplete'
    BY <1>1, <2>1, <2>2, KeptOn DEF Counted, WholeAnswers, RefusedOnlyIfUnfit, AnswersComplete, Ended
  <2>6. Visit'
    <3>1. PICK k \in Turns : AskedUpTo(k) /\ Overhead(batch.qs) < limit
      BY <1>1, <2>2 DEF Visit, NotAsked
    <3>2. /\ batch.qs \in SUBSET Questions /\ batch.cands \in SUBSET Candidates /\ limit \in Nat
          /\ attempt \in 0..MaxContextRetries
      BY <2>2 DEF Types
    <3>3. limit - Overhead(batch.qs) \in Nat \ {0}
      BY <3>1, <3>2, QuestionsAre
    <3>4. /\ StateBudget = Budget(limit - Overhead(batch.qs), attempt)
          /\ StateBudget' = Budget(limit - Overhead(batch.qs), attempt + 1)
      BY <2>1 DEF StateBudget, Budget
    <3>5. StateBudget \in Nat /\ StateBudget' \in Nat /\ StateBudget' <= StateBudget
      <4>1. attempt + 1 \in 0..MaxContextRetries
        BY <1>2, <3>2 DEF MaxContextRetries
      <4> QED
        BY <1>2, <3>2, <3>3, <3>4, <4>1, BudgetIs
    <3>6. TurnsFor(batch.cands, StateBudget) <= TurnsFor(batch.cands, StateBudget')
      BY <3>2, <3>5, SmallerBudget
    <3>7. /\ TurnsFor(batch.cands, StateBudget) \in Nat
          /\ TurnsFor(batch.cands, StateBudget') \in Nat /\ k \in Nat
      BY <3>2, <3>5, LoopEnds DEF Turns
    <3>8. k <= TurnsFor(batch'.cands, StateBudget')
      BY <2>1, <3>1, <3>6, <3>7 DEF AskedUpTo
    <3>9. AskedUpTo(k)'
      BY <2>1, <3>1, <3>8 DEF AskedUpTo
    <3> QED
      BY <1>1, <2>1, <2>2, <3>1, <3>9 DEF Visit
  <2> QED
    BY <2>3, <2>4, <2>5, <2>6 DEF IInv
<1>3. CASE ~ (attempt < MaxContextRetries)
  <2>1. Split("too_large")
    BY <1>3 DEF RejectSize
  <2>2. /\ Types' /\ StackOfHalves' /\ BatchOfStack' /\ RightsUnasked' /\ Visit' /\ Counted'
        /\ WholeAnswers' /\ Kept' /\ AskedInContext' /\ AnswersComplete' /\ phase' \in {"preparing", "too_large"}
    BY <1>1, <2>1, SplitStep
  <2> QED
    BY <2>2 DEF RefusedOnlyIfUnfit, IInv
<1> QED
  BY <1>2, <1>3

LEMMA AcceptStep == ASSUME IInv, Accept PROVE IInv'
<1>1. /\ phase = "posted" /\ phase' = "returning" /\ usage' = 1 /\ accepted' = accepted + 1
      /\ \E names \in SUBSET Names : /\ answers' = [n \in names |-> batch.qs]
                                   /\ received' = received \cup {<<n, batch.qs>> : n \in names}
      /\ UNCHANGED <<limit, stack, batch, attempt, last, posts>>
  BY DEF Accept
<1>2. /\ Types /\ StackOfHalves /\ RightsUnasked /\ Counted /\ AskedInContext
  BY DEF IInv
<1>3. Types' /\ received' = received \cup Pairs(answers')
  <2>1. PICK names \in SUBSET Names : /\ answers' = [n \in names |-> batch.qs]
                                     /\ received' = received \cup {<<n, batch.qs>> : n \in names}
    BY <1>1
  <2>2. batch.qs \in SUBSET Questions
    BY <1>2 DEF Types
  <2>3. answers' \in [names -> SUBSET Questions] /\ DOMAIN answers' = names
    BY <2>1, <2>2
  <2>4. answers' \in AnswerSets
    BY <2>3 DEF AnswerSets
  <2>5. Pairs(answers') = {<<n, batch.qs>> : n \in names}
    <3>1. \A n \in names : answers'[n] = batch.qs
      BY <2>1
    <3> QED
      BY <2>3, <3>1 DEF Pairs
  <2> QED
    BY <1>1, <1>2, <2>1, <2>4, <2>5 DEF Types
<1>4. StackOfHalves' /\ RightsUnasked' /\ AskedInContext'
  BY <1>1, <1>2 DEF StackOfHalves, RightsUnasked, AskedInContext
<1>5. BatchOfStack' /\ Visit' /\ RefusedOnlyIfUnfit' /\ AnswersComplete'
  BY <1>1 DEF BatchOfStack, Visit, RefusedOnlyIfUnfit, AnswersComplete, Asking
<1>6. PICK g \in [0..Len(stack) -> Nat] :
        /\ g[0] = 0 /\ \A i \in 1..Len(stack) : g[i] = g[i - 1] + stack[i].usage
        /\ accepted = g[Len(stack)] + 0
  BY <1>1, <1>2 DEF Counted, Ended
<1>7. Len(stack) \in Nat /\ g[Len(stack)] \in Nat
  BY <1>2 DEF Types
<1>8. Counted'
  <2>1. accepted' = g[Len(stack)] + usage'
    BY <1>1, <1>6, <1>7
  <2> QED
    BY <1>1, <1>6, <2>1 DEF Counted
<1>9. WholeAnswers'
  <2>1. stack = <<>> => accepted' = 1
    BY <1>1, <1>6
  <2> QED
    BY <1>1, <2>1 DEF WholeAnswers
<1>10. Kept'
  <2>1. received = Waiting(stack)
    BY <1>1, KeptAsking DEF Asking
  <2> QED
    BY <1>1, <1>3, <2>1 DEF Kept, Returned
<1> QED
  BY <1>3, <1>4, <1>5, <1>8, <1>9, <1>10 DEF IInv

LEMMA ReturnStep == ASSUME IInv, Return PROVE IInv'
<1>1. /\ phase = "returning" /\ stack = <<>> /\ phase' = "answered"
      /\ UNCHANGED <<limit, stack, batch, attempt, last, answers, usage, posts, accepted, received>>
  BY DEF Return
<1>2. /\ Types /\ StackOfHalves /\ RightsUnasked /\ Counted /\ AskedInContext /\ WholeAnswers /\ Kept
  BY DEF IInv
<1>3. Types' /\ StackOfHalves' /\ RightsUnasked' /\ AskedInContext'
  BY <1>1, <1>2 DEF Types, Ended, StackOfHalves, RightsUnasked, AskedInContext
<1>4. BatchOfStack' /\ Visit' /\ RefusedOnlyIfUnfit' /\ WholeAnswers' /\ Counted' /\ Kept'
  BY <1>1 DEF BatchOfStack, Visit, RefusedOnlyIfUnfit, WholeAnswers, Counted, Kept, Asking, Ended
<1>5. AnswersComplete'
  <2>1. PICK g \in [0..Len(stack) -> Nat] : g[0] = 0 /\ accepted = g[Len(stack)] + usage
    BY <1>1, <1>2 DEF Counted, Ended
  <2>2. accepted = usage
    BY <1>1, <1>2, <2>1 DEF Types
  <2>3. received = Pairs(answers)
    <3>1. Waiting(stack) = {}
      BY <1>1 DEF Waiting
    <3> QED
      BY <1>1, <1>2, <3>1 DEF Kept, Returned, Ended
  <2> QED
    BY <1>1, <1>2, <2>2, <2>3 DEF WholeAnswers, AnswersComplete, Pairs
<1> QED
  BY <1>3, <1>4, <1>5 DEF IInv

LEMMA ReturnLeftStep == ASSUME IInv, ReturnLeft PROVE IInv'
<1> DEFINE n == Len(stack)
           f == [Top EXCEPT !.left = answers, !.usage = usage, !.side = "right"]
           right == Top.qs \ Half(Top.qs)
<1>1. /\ phase = "returning" /\ stack # <<>> /\ Top.side = "left"
      /\ stack' = Append(Below, f) /\ Enter(right, Top.cands)
      /\ UNCHANGED <<limit, answers, usage, posts, accepted, received>>
  BY DEF ReturnLeft
<1>2. /\ Types /\ StackOfHalves /\ RightsUnasked /\ Counted /\ AskedInContext /\ Kept
  BY DEF IInv
<1>3. /\ n \in Nat \ {0} /\ Top \in Frames /\ Top = stack[n] /\ Below \in Seq(Frames)
      /\ Len(Below) = n - 1 /\ \A i \in 1..(n - 1) : Below[i] = stack[i]
  BY <1>1, <1>2, TopIs DEF Types
<1>4. /\ f \in Frames /\ f.qs = Top.qs /\ f.cands = Top.cands /\ f.usage = usage /\ f.side = "right"
      /\ f.left = answers
  <2>1. usage \in Nat /\ answers \in AnswerSets
    BY <1>2 DEF Types
  <2> QED
    BY <1>3, <2>1 DEF Frames
<1> HIDE DEF f
<1>5. /\ stack' \in Seq(Frames) /\ Len(stack') = n /\ stack' # <<>> /\ stack'[n] = f
      /\ \A i \in 1..(n - 1) : stack'[i] = stack[i]
  BY <1>1, <1>3, <1>4
<1>6. /\ Cardinality(Top.qs) >= 2 /\ Top.cands \subseteq AllNarrowed /\ Top.usage = 0
      /\ Addressed(Top.qs) \subseteq Top.cands /\ Top.left = NoAnswers
      /\ \A i \in 1..(n - 1) : Top.qs \subseteq Side(stack[i])
      /\ n = 1 => Top.qs = Questions
  <2>1. n \in 1..Len(stack)
    BY <1>3
  <2> HIDE DEF n
  <2>2. /\ Cardinality(stack[n].qs) >= 2 /\ stack[n].cands \subseteq AllNarrowed
        /\ Addressed(stack[n].qs) \subseteq stack[n].cands
        /\ \A i \in 1..(n - 1) : stack[n].qs \subseteq Side(stack[i])
        /\ stack[n].side = "left" => stack[n].usage = 0 /\ stack[n].left = NoAnswers
        /\ n = 1 => stack[n].qs = Questions
    BY <1>2, <2>1 DEF StackOfHalves
  <2> QED
    BY <1>1, <1>3, <2>2
<1>7. /\ right \in SUBSET Questions /\ right # {} /\ Top.cands \in SUBSET Candidates
      /\ Addressed(right) \subseteq Top.cands
  BY <1>3, <1>6, HalvesAre, PartNeeds DEF Frames
<1>8. Side(f) = right
  BY <1>4 DEF Side
<1>9. StackOfHalves'
  <2>1. ASSUME NEW j \in 1..n
        PROVE  /\ Cardinality(stack'[j].qs) >= 2 /\ stack'[j].cands \subseteq AllNarrowed
               /\ Addressed(stack'[j].qs) \subseteq stack'[j].cands
               /\ \A i \in 1..(j - 1) : stack'[j].qs \subseteq Side(stack'[i])
               /\ stack'[j].side = "left" => stack'[j].usage = 0 /\ stack'[j].left = NoAnswers
               /\ j = 1 => stack'[j].qs = Questions
    <3>1. CASE j = n
      BY <1>3, <1>4, <1>5, <1>6, <3>1
    <3>2. CASE j # n
      <4>1. j \in 1..(n - 1) /\ \A i \in 1..(j - 1) : i \in 1..(n - 1)
        BY <1>3, <3>2
      <4> QED
        BY <1>2, <1>5, <4>1 DEF StackOfHalves
    <3> QED
      BY <3>1, <3>2
  <2> QED
    BY <1>5, <2>1 DEF StackOfHalves
<1>10. RightsUnasked'
  <2>1. ASSUME NEW j \in 1..n, stack'[j].side = "left" PROVE j \in 1..(n - 1)
    BY <1>3, <1>4, <1>5, <2>1
  <2> QED
    BY <1>1, <1>2, <1>5, <2>1 DEF RightsUnasked
<1>11. /\ batch' \in [qs : SUBSET Questions, cands : SUBSET Candidates]
       /\ attempt' \in 0..MaxContextRetries /\ phase' = "preparing" /\ BatchOfStack' /\ Visit'
  <2>1. \A r \in posts : ~ (r[1] \subseteq right)
    BY <1>1, <1>2, <1>3 DEF RightsUnasked
  <2>2. \A i \in 1..Len(stack') : right \subseteq Side(stack'[i])
    <3>1. ASSUME NEW i \in 1..n PROVE right \subseteq Side(stack'[i])
      <4>1. CASE i = n
        BY <1>5, <1>8, <4>1
      <4>2. CASE i # n
        BY <1>3, <1>5, <1>6, <4>2
      <4> QED
        BY <4>1, <4>2
    <3> QED
      BY <1>5, <3>1
  <2> HIDE DEF right
  <2> QED
    BY <1>1, <1>5, <1>6, <1>7, <2>1, <2>2, Entered
<1>12. Types'
  BY <1>1, <1>2, <1>5, <1>11 DEF Types
<1>13. Counted'
  <2>1. PICK g \in [0..n -> Nat] :
          /\ g[0] = 0 /\ \A i \in 1..n : g[i] = g[i - 1] + stack[i].usage
          /\ accepted = g[n] + usage
    BY <1>1, <1>2 DEF Counted, Ended
  <2>2. usage \in Nat /\ g[n] \in Nat /\ g[n - 1] \in Nat /\ g[n] = g[n - 1]
    <3>1. n \in 1..n /\ n \in 0..n /\ n - 1 \in 0..n
      BY <1>3
    <3>2. usage \in Nat /\ g[n] \in Nat /\ g[n - 1] \in Nat
      BY <1>2, <2>1, <3>1 DEF Types
    <3>3. g[n] = g[n - 1] + Top.usage
      BY <1>3, <2>1, <3>1
    <3> QED
      BY <1>6, <3>2, <3>3
  <2> DEFINE h == [i \in 0..n |-> IF i = n THEN g[n] + usage ELSE g[i]]
  <2>3. h \in [0..n -> Nat] /\ h[0] = 0 /\ h[n] = g[n] + usage
    BY <1>3, <2>1, <2>2
  <2>4. \A i \in 1..n : h[i] = h[i - 1] + stack'[i].usage
    <3>1. ASSUME NEW i \in 1..n PROVE h[i] = h[i - 1] + stack'[i].usage
      <4>1. CASE i = n
        BY <1>3, <1>4, <1>5, <2>1, <2>2, <4>1
      <4>2. CASE i # n
        BY <1>3, <1>5, <2>1, <4>2
      <4> QED
        BY <4>1, <4>2
    <3> QED
      BY <3>1
  <2> HIDE DEF h
  <2>5. accepted' = h[n] + 0
    BY <1>1, <1>3, <2>1, <2>2, <2>3
  <2> QED
    BY <1>5, <1>11, <2>3, <2>4, <2>5 DEF Counted
<1>14. WholeAnswers' /\ AskedInContext' /\ RefusedOnlyIfUnfit' /\ AnswersComplete'
  BY <1>1, <1>2, <1>11 DEF WholeAnswers, AskedInContext, RefusedOnlyIfUnfit, AnswersComplete
<1>15. Kept'
  <2>1. received = Waiting(stack) \cup Pairs(answers)
    BY <1>1, <1>2 DEF Kept, Returned, Ended
  <2>2. Waiting(stack') = Waiting(stack) \cup Pairs(answers)
    <3>1. \A j \in 1..n : j = n \/ j \in 1..(n - 1)
      BY <1>3
    <3>2. n \in 1..n /\ \A j \in 1..(n - 1) : j \in 1..n
      BY <1>3
    <3>3. Pairs(stack[n].left) = {} /\ Pairs(stack'[n].left) = Pairs(answers)
      BY <1>3, <1>4, <1>5, <1>6, NoAnswersIs
    <3>4. Len(stack) = n /\ Len(stack') = n
      BY <1>5
    <3> HIDE DEF n
    <3> QED
      BY <1>5, <3>1, <3>2, <3>3, <3>4 DEF Waiting
  <2> QED
    BY <1>1, <1>11, <2>1, <2>2 DEF Kept, Returned
<1> QED
  BY <1>9, <1>10, <1>11, <1>12, <1>13, <1>14, <1>15 DEF IInv

\* Without a collision the merged answers are those of both halves.
LEMMA MergedIs ==
    ASSUME NEW left \in AnswerSets, NEW right \in AnswerSets
    PROVE  /\ MergedAnswers(left, right) \in AnswerSets
           /\ DOMAIN left \cap DOMAIN right = {} => Pairs(MergedAnswers(left, right)) = Pairs(left) \cup Pairs(right)
<1>1. PICK L \in SUBSET Names : left \in [L -> SUBSET Questions]
  BY DEF AnswerSets
<1>2. PICK R \in SUBSET Names : right \in [R -> SUBSET Questions]
  BY DEF AnswerSets
<1>3. MergedAnswers(left, right) = [n \in R \cup L |-> IF n \in R THEN right[n] ELSE left[n]]
  BY <1>1, <1>2 DEF MergedAnswers
<1>4. MergedAnswers(left, right) \in [R \cup L -> SUBSET Questions] /\ R \cup L \in SUBSET Names
  BY <1>1, <1>2, <1>3
<1>5. MergedAnswers(left, right) \in AnswerSets
  BY <1>4 DEF AnswerSets
<1>6. ASSUME L \cap R = {}
      PROVE  Pairs(MergedAnswers(left, right)) = Pairs(left) \cup Pairs(right)
  <2>1. \A n \in R : MergedAnswers(left, right)[n] = right[n]
    BY <1>3
  <2>2. \A n \in L : MergedAnswers(left, right)[n] = left[n]
    BY <1>3, <1>6
  <2>3. DOMAIN MergedAnswers(left, right) = R \cup L /\ DOMAIN left = L /\ DOMAIN right = R
    BY <1>1, <1>2, <1>3
  <2> QED
    BY <2>1, <2>2, <2>3 DEF Pairs
<1> QED
  BY <1>1, <1>2, <1>5, <1>6

LEMMA ReturnRightStep == ASSUME IInv, ReturnRight PROVE IInv'
<1> DEFINE n == Len(stack)
<1>1. /\ phase = "returning" /\ stack # <<>> /\ Top.side = "right" /\ stack' = Below
      /\ answers' = MergedAnswers(Top.left, answers) /\ usage' = Top.usage + usage
      /\ phase' \in {"returning", "incomplete"}
      /\ phase' = "returning" => DOMAIN answers' = Top.qs /\ DOMAIN Top.left \cap DOMAIN answers = {}
      /\ UNCHANGED <<limit, batch, attempt, last, posts, accepted, received>>
  BY DEF ReturnRight, MergedUsage, Collide
<1>2. /\ Types /\ StackOfHalves /\ RightsUnasked /\ Counted /\ AskedInContext /\ Kept
  BY DEF IInv
<1>3. /\ n \in Nat \ {0} /\ Top \in Frames /\ Top = stack[n] /\ Below \in Seq(Frames)
      /\ Len(Below) = n - 1 /\ \A i \in 1..(n - 1) : Below[i] = stack[i]
  BY <1>1, <1>2, TopIs DEF Types
<1>4. /\ stack' \in Seq(Frames) /\ Len(stack') = n - 1 /\ \A i \in 1..(n - 1) : stack'[i] = stack[i]
      /\ 1..(n - 1) \subseteq 1..n
  BY <1>1, <1>3
<1>0. Top.left \in AnswerSets /\ Top.usage \in Nat /\ answers \in AnswerSets
  BY <1>2, <1>3 DEF Frames, Types
<1>5. Types'
  BY <1>0, <1>1, <1>2, <1>4, MergedIs DEF Types, Ended
<1>6. StackOfHalves'
  <2>1. ASSUME NEW j \in 1..(n - 1)
        PROVE  /\ Cardinality(stack'[j].qs) >= 2 /\ stack'[j].cands \subseteq AllNarrowed
               /\ Addressed(stack'[j].qs) \subseteq stack'[j].cands
               /\ \A i \in 1..(j - 1) : stack'[j].qs \subseteq Side(stack'[i])
               /\ stack'[j].side = "left" => stack'[j].usage = 0 /\ stack'[j].left = NoAnswers
               /\ j = 1 => stack'[j].qs = Questions
    <3>1. j \in 1..n /\ \A i \in 1..(j - 1) : i \in 1..(n - 1)
      BY <1>3
    <3> QED
      BY <1>2, <1>4, <3>1 DEF StackOfHalves
  <2> QED
    BY <1>4, <2>1 DEF StackOfHalves
<1>7. RightsUnasked' /\ AskedInContext'
  BY <1>1, <1>2, <1>4 DEF RightsUnasked, AskedInContext
<1>8. BatchOfStack' /\ Visit' /\ RefusedOnlyIfUnfit' /\ AnswersComplete'
  BY <1>1 DEF BatchOfStack, Visit, RefusedOnlyIfUnfit, AnswersComplete, Asking
<1>9. Counted'
  <2>1. PICK g \in [0..n -> Nat] :
          /\ g[0] = 0 /\ \A i \in 1..n : g[i] = g[i - 1] + stack[i].usage
          /\ accepted = g[n] + usage
    BY <1>1, <1>2 DEF Counted, Ended
  <2>2. usage \in Nat /\ Top.usage \in Nat /\ g[n - 1] \in Nat /\ g[n] = g[n - 1] + Top.usage
    <3>1. n \in 1..n /\ n - 1 \in 0..n
      BY <1>3
    <3>2. usage \in Nat /\ g[n - 1] \in Nat /\ Top.usage \in Nat
      BY <1>2, <1>3, <2>1, <3>1 DEF Types, Frames
    <3>3. g[n] = g[n - 1] + Top.usage
      BY <1>3, <2>1, <3>1
    <3> QED
      BY <3>2, <3>3
  <2> DEFINE h == [i \in 0..(n - 1) |-> g[i]]
  <2>3. h \in [0..(n - 1) -> Nat] /\ h[0] = 0 /\ h[n - 1] = g[n - 1]
    BY <1>3, <2>1
  <2>4. \A i \in 1..(n - 1) : h[i] = h[i - 1] + stack'[i].usage
    BY <1>3, <1>4, <2>1
  <2> HIDE DEF h
  <2>5. accepted' = h[n - 1] + usage'
    BY <1>1, <2>1, <2>2, <2>3
  <2> QED
    BY <1>1, <1>4, <2>3, <2>4, <2>5 DEF Counted, Ended
<1>10. WholeAnswers'
  <2>1. ASSUME phase' = "returning", stack' = <<>> PROVE DOMAIN answers' = Questions
    <3>1. n = 1
      <4>1. Len(stack') = 0
        BY <2>1
      <4>2. n - 1 = 0 /\ n \in Nat
        BY <1>3, <1>4, <4>1
      <4> HIDE DEF n
      <4> QED
        BY <4>2
    <3>2. Top.qs = Questions
      BY <1>2, <1>3, <3>1 DEF StackOfHalves
    <3> QED
      BY <1>1, <2>1, <3>2
  <2> QED
    BY <2>1 DEF WholeAnswers
<1>11. Kept'
  <2>1. ASSUME phase' = "returning" PROVE received = Waiting(stack') \cup Pairs(answers')
    <3>1. received = Waiting(stack) \cup Pairs(answers)
      BY <1>1, <1>2 DEF Kept, Returned, Ended
    <3>2. Pairs(answers') = Pairs(stack[n].left) \cup Pairs(answers)
      BY <1>0, <1>1, <1>3, <2>1, MergedIs
    <3>3. Waiting(stack) = Waiting(stack') \cup Pairs(stack[n].left)
      <4>1. \A j \in 1..n : j = n \/ j \in 1..(n - 1)
        BY <1>3
      <4>2. n \in 1..n /\ Len(stack) = n /\ Len(stack') = n - 1
        BY <1>3, <1>4
      <4> HIDE DEF n
      <4> QED
        BY <1>4, <4>1, <4>2 DEF Waiting
    <3> QED
      BY <3>1, <3>2, <3>3
  <2> QED
    BY <1>1, <2>1 DEF Kept, Returned, Ended
<1> QED
  BY <1>5, <1>6, <1>7, <1>8, <1>9, <1>10, <1>11 DEF IInv

LEMMA StutterStep == ASSUME IInv, UNCHANGED vars PROVE IInv'
<1>1. UNCHANGED <<limit, stack, batch, attempt, last, phase, answers, usage, posts, accepted, received>>
  BY DEF vars
<1>2. Types' /\ StackOfHalves' /\ BatchOfStack' /\ RightsUnasked'
  BY <1>1 DEF IInv, Types, StackOfHalves, BatchOfStack, RightsUnasked, Asking
<1>3. Visit'
  <2>1. StateBudget' = StateBudget
    BY <1>1 DEF StateBudget
  <2>2. NotAsked' = NotAsked /\ \A k \in Turns : AskedUpTo(k)' = AskedUpTo(k)
    BY <1>1, <2>1 DEF NotAsked, AskedUpTo
  <2> QED
    BY <1>1, <2>2 DEF IInv, Visit, Asking
<1>4. Counted' /\ WholeAnswers' /\ Kept' /\ AskedInContext' /\ RefusedOnlyIfUnfit' /\ AnswersComplete'
  BY <1>1 DEF IInv, Counted, WholeAnswers, Kept, Returned, AskedInContext, RefusedOnlyIfUnfit, AnswersComplete
<1> QED
  BY <1>2, <1>3, <1>4 DEF IInv

LEMMA StepIInv == ASSUME IInv, [Next]_vars PROVE IInv'
BY SplitForBudgetStep, RefuseStep, SplitForRejectionStep, PostStep, RejectSizeStep, FailStep,
   AcceptStep, ReturnLeftStep, ReturnRightStep, ReturnStep, StutterStep DEF Next, Done

LEMMA Invariance == Spec => []IInv
BY InitIInv, StepIInv, PTL DEF Spec

-----------------------------------------------------------------------------
(* The results. *)

\* Every request of a call, at any level of the halving and of the reduction, has
\* the candidates that its questions are about: what narrowing leaves of a batch is
\* enough for both halves, down to the last (_system_one_with_question_splitting),
\* and compact_jev_state drops none.
THEOREM ContextAsked == Spec => []AskedInContext
<1>1. IInv => AskedInContext
  BY DEF IInv
<1> QED
  BY Invariance, <1>1, PTL

\* A call is given up before the provider was asked only if one of its questions
\* does not fit alone with the least state about it, or the least state with all
\* candidates does not fit even without a question (_system_one_with_compaction_retries).
THEOREM RefusalJustified == Spec => []RefusedOnlyIfUnfit
<1>1. IInv => RefusedOnlyIfUnfit
  BY DEF IInv
<1> QED
  BY Invariance, <1>1, PTL

\* Whatever names the provider answers under, what a halved call returns is one answer
\* for each question and every answer that was received, and its usage counts each
\* accepted response once (the checks of _merge_question_responses and of its caller,
\* _merge_usage).
THEOREM HalvesAddUp == Spec => []AnswersComplete
<1>1. IInv => AnswersComplete
  BY DEF IInv
<1> QED
  BY Invariance, <1>1, PTL

\* No request is posted twice in a call, neither by a retry whose budget takes
\* nothing from the state nor at another level of the halving
\* (the comparison with previous_state_content).
THEOREM NothingPostedTwice == Spec => PostedOnce
<1>1. ASSUME IInv, [Next]_vars
      PROVE  [phase = "preparing" /\ phase' = "posted" => <<batch.qs, Request>> \notin posts]_vars
  <2>1. ASSUME phase = "preparing", phase' = "posted", Next PROVE Post
    BY <2>1 DEF Next, SplitForBudget, Refuse, SplitForRejection, RejectSize, Fail, Accept,
                ReturnLeft, ReturnRight, Return, Done, Split, Enter, vars
  <2> QED
    BY <1>1, <2>1, PostGoesOn DEF vars
<1> QED
  BY Invariance, <1>1, PTL DEF Spec, PostedOnce
=============================================================================
