------------------------- MODULE MemoryGraphProofs -------------------------
(***************************************************************************)
(* Updates, archivings and restorings of one memory after the other do     *)
(* what they promise, and a walk returns what lasts and nothing that never *)
(* was, for any memories, relations, callers and number of calls.          *)
(***************************************************************************)
EXTENDS MemoryGraph, WellFoundedInduction, TLAPS

Contents == {Blank, "first"} \cup {u[1] : u \in Updates}
TierNames == {Blank, "ACTIVE", "COLD"} \cup {u[2] : u \in Updates}
Rows == [tier : TierNames, dated : BOOLEAN, content : Contents]

Calls == [at : {"idle", "tool", "service", "save"}, m : Memories \cup {0},
          op : {"", "update", "archive", "restore"}, tier : TierNames, dated : BOOLEAN,
          content : Contents, asked : Contents \X TierNames]

RowTypes == /\ rows \in [Memories -> Rows] /\ wanted \in [Memories -> Rows]
            /\ calls \in [Writers -> Calls]
            /\ \A w \in Writers : Busy(w) => calls[w].m \in Memories /\ calls[w].op # ""

\* Two calls of a memory that overlap have been noted.
Alone ==
    \A v, w \in Writers : Busy(v) /\ Busy(w) /\ v # w /\ calls[v].m = calls[w].m
        => calls[v].m \in overlapped

\* What a call has read is still so, and it goes on to write what it promised.
Reads(c, row) ==
    CASE c.op = "update" ->
           /\ c.content = IF c.asked[1] = Blank THEN row.content ELSE c.asked[1]
           /\ c.at \in {"tool", "service"} => c.tier = c.asked[2]
           /\ c.at \in {"service", "save"} => c.dated = row.dated
           /\ c.at = "save" => c.tier = IF c.asked[2] = Blank THEN row.tier ELSE c.asked[2]
      [] c.op = "archive" ->
           c.at = "save" /\ c.tier = "COLD" /\ c.dated = TRUE /\ c.content = row.content
      [] c.op = "restore" ->
           c.at = "save" /\ c.tier = "ACTIVE" /\ c.dated = FALSE /\ c.content = row.content
      [] OTHER -> FALSE

ReadsHold ==
    \A w \in Writers :
        Busy(w) /\ calls[w].m \notin overlapped => Reads(calls[w], rows[calls[w].m])

IInv == RowTypes /\ Alone /\ ReadsHold /\ RowsAsPromised

-----------------------------------------------------------------------------

LEMMA InitIInv == Init => IInv
<1> SUFFICES ASSUME Init PROVE IInv
  OBVIOUS
<1>1. RowTypes
  <2>1. NoCall \in Calls /\ NoCall.at = "idle"
    BY DEF NoCall, Calls, Contents, TierNames, Blank
  <2>2. rows \in [Memories -> Rows] /\ wanted = rows
    <3> DEFINE active == [tier |-> "ACTIVE", dated |-> FALSE, content |-> "first"]
               cold == [tier |-> "COLD", dated |-> TRUE, content |-> "first"]
    <3>1. "ACTIVE" \in TierNames /\ "COLD" \in TierNames /\ "first" \in Contents
      BY DEF Contents, TierNames
    <3>2. active \in Rows /\ cold \in Rows
      BY <3>1 DEF Rows
    <3>3. rows \in [Memories -> {active, cold}] /\ wanted = rows
      BY DEF Init
    <3> HIDE DEF active, cold
    <3> QED
      BY <3>2, <3>3
  <2> QED
    BY <2>1, <2>2 DEF Init, RowTypes, Busy
<1>2. Alone /\ ReadsHold /\ RowsAsPromised
  BY DEF Init, Alone, ReadsHold, RowsAsPromised, NoCall, Busy
<1> QED
  BY <1>1, <1>2 DEF IInv

\* Steps that no row or call takes part in.
LEMMA QuietStep ==
    ASSUME IInv, UNCHANGED <<rows, calls, wanted, overlapped>>
    PROVE  IInv'
BY DEF IInv, RowTypes, Alone, ReadsHold, RowsAsPromised, Busy

LEMMA StartStep ==
    ASSUME IInv, NEW w \in Writers, NEW m \in Memories, NEW call \in Calls, call.m = m,
           call.at # "idle", call.op # "", Reads(call, rows[m]), Start(w, m, call)
    PROVE  IInv'
<1>1. /\ ~Busy(w) /\ calls' = [calls EXCEPT ![w] = call] /\ UNCHANGED <<rows, wanted>>
      /\ overlapped \subseteq overlapped'
      /\ \A v \in Writers \ {w} : Busy(v) /\ calls[v].m = m => m \in overlapped'
  BY DEF Start
<1>2. calls'[w] = call /\ \A v \in Writers \ {w} : calls'[v] = calls[v]
  BY <1>1 DEF IInv, RowTypes
<1>3. RowTypes'
  BY <1>1, <1>2 DEF IInv, RowTypes, Busy
<1>4. Alone'
  <2> SUFFICES ASSUME NEW u \in Writers, NEW v \in Writers, Busy(u)', Busy(v)', u # v,
                      calls'[u].m = calls'[v].m
               PROVE  calls'[u].m \in overlapped'
    BY DEF Alone
  <2>1. CASE u = w
    <3>1. Busy(v) /\ calls[v].m = m /\ calls'[u].m = m
      BY <1>2, <2>1 DEF Busy
    <3> QED
      BY <1>1, <2>1, <3>1
  <2>2. CASE v = w
    <3>1. Busy(u) /\ calls[u].m = m /\ calls'[u].m = m
      BY <1>2, <2>2 DEF Busy
    <3> QED
      BY <1>1, <2>2, <3>1
  <2>3. CASE u # w /\ v # w
    BY <1>1, <1>2, <2>3 DEF IInv, Alone, Busy
  <2> QED
    BY <2>1, <2>2, <2>3
<1>5. ReadsHold' /\ RowsAsPromised'
  BY <1>1, <1>2 DEF IInv, ReadsHold, RowsAsPromised, Busy
<1> QED
  BY <1>3, <1>4, <1>5 DEF IInv

LEMMA UpdateStep ==
    ASSUME IInv, NEW w \in Writers, NEW m \in Memories, NEW u \in Updates, Update(w, m, u[1], u[2])
    PROVE  IInv'
<1> DEFINE call == [NoCall EXCEPT !.at = "tool", !.m = m, !.op = "update", !.tier = u[2],
                                  !.asked = <<u[1], u[2]>>,
                                  !.content = IF u[1] = Blank THEN rows[m].content ELSE u[1]]
<1>1. call \in Calls
  BY DEF IInv, RowTypes, Rows, Calls, Contents, TierNames, NoCall, Blank
<1>2. call.m = m /\ call.at # "idle" /\ call.op # "" /\ Reads(call, rows[m])
  BY DEF Reads, NoCall
<1>3. Start(w, m, call)
  BY DEF Update
<1> HIDE DEF call
<1> QED
  BY <1>1, <1>2, <1>3, StartStep

LEMMA TierStep ==
    ASSUME IInv, NEW w \in Writers, NEW m \in Memories, ArchiveMemory(w, m) \/ RestoreMemory(w, m)
    PROVE  IInv'
<1>1. CASE ArchiveMemory(w, m)
  <2> DEFINE call == [NoCall EXCEPT !.at = "save", !.m = m, !.op = "archive", !.tier = "COLD",
                                    !.dated = TRUE, !.content = rows[m].content]
  <2>1. call \in Calls /\ call.m = m /\ call.at # "idle" /\ call.op # "" /\ Reads(call, rows[m])
    BY DEF IInv, RowTypes, Rows, Calls, Contents, TierNames, NoCall, Blank, Reads
  <2>2. Start(w, m, call)
    BY <1>1 DEF ArchiveMemory
  <2> HIDE DEF call
  <2> QED
    BY <2>1, <2>2, StartStep
<1>2. CASE RestoreMemory(w, m)
  <2> DEFINE call == [NoCall EXCEPT !.at = "save", !.m = m, !.op = "restore", !.tier = "ACTIVE",
                                    !.content = rows[m].content]
  <2>1. call \in Calls /\ call.m = m /\ call.at # "idle" /\ call.op # "" /\ Reads(call, rows[m])
    BY DEF IInv, RowTypes, Rows, Calls, Contents, TierNames, NoCall, Blank, Reads
  <2>2. Start(w, m, call)
    BY <1>2 DEF RestoreMemory
  <2> HIDE DEF call
  <2> QED
    BY <2>1, <2>2, StartStep
<1> QED
  BY <1>1, <1>2

\* A call reads on, or is over without having written.
LEMMA CallStep ==
    ASSUME IInv, NEW w \in Writers, Busy(w), NEW call \in Calls,
           calls' = [calls EXCEPT ![w] = call], UNCHANGED <<rows, wanted, overlapped>>,
           \/ call.at = "idle"
           \/ /\ call.m = calls[w].m /\ call.op = calls[w].op
              /\ call.m \notin overlapped => Reads(call, rows[call.m])
    PROVE  IInv'
<1>1. calls'[w] = call /\ \A v \in Writers \ {w} : calls'[v] = calls[v]
  BY DEF IInv, RowTypes
<1>2. RowTypes'
  BY <1>1 DEF IInv, RowTypes, Busy
<1>3. Alone'
  BY <1>1 DEF IInv, Alone, Busy
<1>4. ReadsHold' /\ RowsAsPromised'
  BY <1>1 DEF IInv, ReadsHold, RowsAsPromised, Busy
<1> QED
  BY <1>2, <1>3, <1>4 DEF IInv

LEMMA ReadStep ==
    ASSUME IInv, NEW w \in Writers, ToolGet(w) \/ ServiceGet(w) \/ Abandon(w)
    PROVE  IInv'
<1> DEFINE c == calls[w]
<1>1. c \in Calls /\ UNCHANGED <<rows, wanted, overlapped>> /\ Busy(w) /\ c.m \in Memories
      /\ rows[c.m] \in Rows /\ (c.m \notin overlapped => Reads(c, rows[c.m]))
  BY DEF ToolGet, ServiceGet, Abandon, Quiet, Busy, IInv, RowTypes, ReadsHold
<1>2. CASE ToolGet(w)
  <2> DEFINE call == [c EXCEPT !.at = "service", !.dated = rows[c.m].dated]
  <2>1. call \in Calls /\ call.m = c.m /\ call.op = c.op /\ c.at = "tool"
    BY <1>1, <1>2 DEF Calls, Rows, ToolGet
  <2>2. calls' = [calls EXCEPT ![w] = call]
    BY <1>2 DEF ToolGet, IInv, RowTypes
  <2>3. c.m \notin overlapped => Reads(call, rows[c.m])
    BY <1>1, <2>1 DEF Reads, Calls
  <2> HIDE DEF call
  <2> QED
    BY <1>1, <2>1, <2>2, <2>3, CallStep
<1>3. CASE ServiceGet(w)
  <2> DEFINE old == rows[c.m]
             call == [c EXCEPT !.at = "save", !.tier = MergedTier(c.tier, old.tier),
                               !.dated = IF ~c.dated /\ c.tier = "COLD" THEN old.dated ELSE c.dated]
  <2>1. call \in Calls /\ call.m = c.m /\ call.op = c.op /\ c.at = "service"
    BY <1>1, <1>3 DEF Calls, Rows, ServiceGet, MergedTier
  <2>2. calls' = [calls EXCEPT ![w] = call]
    BY <1>3 DEF ServiceGet, IInv, RowTypes
  <2>3. c.m \notin overlapped => Reads(call, rows[c.m])
    BY <1>1, <2>1 DEF Reads, Calls, MergedTier
  <2> HIDE DEF call
  <2> QED
    BY <1>1, <2>1, <2>2, <2>3, CallStep
<1>4. CASE Abandon(w)
  <2>1. NoCall \in Calls /\ NoCall.at = "idle"
    BY DEF NoCall, Calls, Contents, TierNames, Blank
  <2> QED
    BY <1>1, <1>4, <2>1, CallStep DEF Abandon
<1> QED
  BY <1>2, <1>3, <1>4

LEMMA SaveStep ==
    ASSUME IInv, NEW w \in Writers, Save(w)
    PROVE  IInv'
<1> DEFINE c == calls[w]
           row == [tier |-> c.tier, dated |-> c.dated, content |-> c.content]
<1>1. /\ c \in Calls /\ c.at = "save" /\ c.m \in Memories /\ Busy(w)
      /\ rows' = [rows EXCEPT ![c.m] = row]
      /\ wanted' = [wanted EXCEPT ![c.m] = Promised(c, @)]
      /\ calls' = [calls EXCEPT ![w] = NoCall]
      /\ UNCHANGED overlapped
  BY DEF Save, Quiet, Busy, IInv, RowTypes
<1>2. row \in Rows
  BY <1>1 DEF Rows, Calls
<1>3. rows[c.m] \in Rows /\ wanted[c.m] \in Rows
  BY <1>1 DEF IInv, RowTypes
<1>4. c.m \notin overlapped => Promised(c, rows[c.m]) = row
  <2>1. c.m \notin overlapped => Reads(c, rows[c.m])
    BY <1>1 DEF IInv, ReadsHold
  <2> QED
    BY <1>1, <1>3, <2>1 DEF Reads, Promised, Rows, Calls
<1>5. NoCall \in Calls /\ NoCall.at = "idle"
  BY DEF NoCall, Calls, Contents, TierNames, Blank
<1> HIDE DEF row
<1>6. /\ rows'[c.m] = row /\ wanted'[c.m] = Promised(c, wanted[c.m])
      /\ \A m \in Memories : m # c.m => rows'[m] = rows[m] /\ wanted'[m] = wanted[m]
      /\ calls'[w] = NoCall /\ \A v \in Writers \ {w} : calls'[v] = calls[v]
  BY <1>1 DEF IInv, RowTypes
<1>7. RowsAsPromised'
  BY <1>1, <1>4, <1>6 DEF IInv, RowsAsPromised
<1>8. Alone'
  BY <1>1, <1>5, <1>6 DEF IInv, Alone, Busy
<1>9. ReadsHold'
  <2>1. ASSUME NEW v \in Writers, Busy(v)', calls'[v].m \notin overlapped
        PROVE  Reads(calls'[v], rows'[calls'[v].m])
    <3>1. v # w /\ calls'[v] = calls[v] /\ Busy(v) /\ calls[v].m \in Memories
      BY <1>5, <1>6, <2>1 DEF Busy, IInv, RowTypes
    <3>2. calls[v].m # c.m
      BY <1>1, <2>1, <3>1 DEF IInv, Alone
    <3> QED
      BY <1>6, <2>1, <3>1, <3>2 DEF IInv, ReadsHold
  <2> QED
    BY <1>1, <2>1 DEF ReadsHold
<1>10. RowTypes'
  <2>1. Promised(c, wanted[c.m]) \in Rows
    <3>1. c.op \in {"update", "archive", "restore"}
      BY <1>1 DEF IInv, RowTypes, Calls
    <3>2. "COLD" \in TierNames /\ "ACTIVE" \in TierNames
      BY DEF TierNames
    <3>3. c.asked[1] \in Contents /\ c.asked[2] \in TierNames
      BY <1>1 DEF Calls
    <3> QED
      BY <1>3, <3>1, <3>2, <3>3 DEF Promised, Rows
  <2>2. calls' \in [Writers -> Calls] /\ rows' \in [Memories -> Rows] /\ wanted' \in [Memories -> Rows]
    BY <1>1, <1>2, <1>5, <2>1 DEF IInv, RowTypes
  <2> QED
    BY <1>5, <1>6, <2>2 DEF IInv, RowTypes, Busy
<1> QED
  BY <1>7, <1>8, <1>9, <1>10 DEF IInv

LEMMA NextIInv == IInv /\ [Next]_vars => IInv'
<1> SUFFICES ASSUME IInv, [Next]_vars PROVE IInv'
  OBVIOUS
<1>1. \A m \in Written : m \in Memories
  BY GraphAssumption
<1>2. CASE \E w \in Writers, m \in Written :
             \/ \E u \in Updates : Update(w, m, u[1], u[2])
             \/ ArchiveMemory(w, m) \/ RestoreMemory(w, m)
  BY <1>1, <1>2, UpdateStep, TierStep
<1>3. CASE \E w \in Writers : ToolGet(w) \/ ServiceGet(w) \/ Save(w) \/ Abandon(w)
  BY <1>3, ReadStep, SaveStep
<1>4. CASE UNCHANGED <<rows, calls, wanted, overlapped>>
  BY <1>4, QuietStep
<1> QED
  BY <1>2, <1>3, <1>4 DEF Next, vars, BeginWalk, ListOutgoing, ListIncoming, Visit, Advance,
                          ReadOnly, CreateEdge, DeleteEdge, LinkChange

-----------------------------------------------------------------------------
(* A walk. *)

\* The record of the call, once it walks.
Walk == [at : {"front", "incoming", "visiting", "done"}, start : Memories, depth : Nat \ {0},
         relations : RelationFilters, tiers : TierFilters, level : Nat,
         front : SUBSET Memories, next : SUBSET Memories, cur : Memories, out : SUBSET Edges,
         todo : SUBSET Edges, edgeSeen : SUBSET Edges, nodes : SUBSET Memories,
         edges : SUBSET Edges]

WalkTypes ==
    /\ walk \in Walk \/ walk.at \in {"before", "refused"}
    /\ edges \in [Edges -> {"new", "there", "deleted"}]
    /\ had \in [Memories -> SUBSET TierNames]

\* What the walk is compared with: what is there lasts so far, and was there.
History ==
    /\ always \subseteq There /\ There \subseteq ever /\ ever \subseteq Edges
    /\ \A m \in Memories : rows[m].tier \in had[m]

WalkShape ==
    /\ walk.level < walk.depth
    /\ {walk.start, walk.cur} \cup walk.front \cup walk.next \subseteq walk.nodes
    /\ walk.out \cup walk.todo \cup walk.edgeSeen \cup walk.edges \subseteq ever
    /\ \A e \in walk.edges : Ends(e) \subseteq walk.nodes
    /\ walk.todo # {} => walk.at = "visiting"
    /\ \A e \in walk.out : Source[e] = walk.cur
    /\ \A e \in walk.todo : walk.cur \in Ends(e) /\ e \in Asked(Edges)

\* What was found, relations of the time of the walk lead to.
FoundNear ==
    /\ walk.nodes \subseteq Near(walk.start, walk.level + 1, Asked(ever), Passing)
    /\ {walk.cur} \cup walk.front \subseteq Near(walk.start, walk.level, Asked(ever), Passing)

\* Found, but its relations have not all been listed.
Ahead == walk.next \cup walk.front \cup (IF walk.at = "incoming" THEN {walk.cur} ELSE {})

\* What lasts has been found up to the level, and so have its relations.
NearFound ==
    /\ Near(walk.start, walk.level, Asked(always), Lasting) \subseteq walk.nodes \ walk.next
    /\ \A e \in always : Ends(e) \cap (walk.nodes \ Ahead) # {} => e \in walk.edgeSeen
    /\ walk.at = "incoming" => \A e \in always : Source[e] = walk.cur => e \in walk.out

\* A relation that was met is returned, unless its other end did not always pass.
MetReturned ==
    \A e \in Asked(always) \cap walk.edgeSeen :
        e \in walk.todo \cup walk.edges \/ \E m \in Ends(e) : m # walk.start /\ m \notin Lasting

WalkSound == Walking => History /\ WalkShape /\ FoundNear /\ NearFound /\ MetReturned

WInv == WalkTypes /\ WalkSound /\ NeighborsBetween

-----------------------------------------------------------------------------
(* Ways. *)

LEMMA LeastOf ==
    ASSUME NEW S \in SUBSET Nat, S # {}
    PROVE  \E x \in S : \A y \in S : x <= y
<1> DEFINE R == {ss \in Nat \X Nat : ss[1] < ss[2]}
<1>1. IsWellFoundedOn(R, Nat)
  BY NatLessThanWellFounded DEF OpToRel
<1> HIDE DEF R
<1>2. PICK x \in S : \A y \in S : ~ (<<y, x>> \in R)
  BY <1>1, WFMin
<1>3. ASSUME NEW y \in S PROVE x <= y
  <2>1. x \in Nat /\ y \in Nat /\ <<y, x>> \notin R
    BY <1>2
  <2>2. ~ (y < x)
    BY <2>1 DEF R
  <2> QED
    BY <2>1, <2>2
<1> QED
  BY <1>3

\* The last relation of a way.
LEMMA NearNext ==
    ASSUME NEW a, NEW n \in Nat, NEW l, l = n + 1, NEW E, NEW S, NEW m \in Near(a, l, E, S)
    PROVE  \E x \in Near(a, n, E, S) : m = x \/ (m \in S /\ \E e \in E : Ends(e) = {x, m})
<1>1. PICK p \in Ways(a, n + 1, E, S) : m = p[n + 1]
  BY DEF Near
<1> DEFINE q == [k \in 0..n |-> p[k]]
<1>2. q \in Ways(a, n, E, S)
  <2>1. /\ p \in [0 .. n + 1 -> Memories] /\ p[0] = a
        /\ \A k \in 1 .. n + 1 : \/ p[k] = p[k - 1]
                                 \/ p[k] \in S /\ \E e \in E : Ends(e) = {p[k - 1], p[k]}
    BY DEF Ways
  <2>2. q \in [0..n -> Memories] /\ q[0] = a
    BY <2>1
  <2>3. \A k \in 1..n : q[k] = p[k] /\ q[k - 1] = p[k - 1] /\ k \in 1 .. n + 1
    OBVIOUS
  <2> HIDE DEF q
  <2> QED
    BY <2>1, <2>2, <2>3 DEF Ways
<1>3. p[n] \in Near(a, n, E, S)
  <2>1. q[n] = p[n]
    OBVIOUS
  <2> QED
    BY <1>2, <2>1 DEF Near
<1>4. \A k \in 1 .. n + 1 : \/ p[k] = p[k - 1]
                            \/ p[k] \in S /\ \E e \in E : Ends(e) = {p[k - 1], p[k]}
  BY DEF Ways
<1>5. n + 1 \in 1 .. n + 1 /\ n + 1 - 1 = n
  OBVIOUS
<1>6. p[n + 1] = p[n] \/ (p[n + 1] \in S /\ \E e \in E : Ends(e) = {p[n], p[n + 1]})
  BY <1>4, <1>5
<1> QED
  BY <1>1, <1>3, <1>6

\* A way goes on by a relation.
LEMMA NearReaches ==
    ASSUME NEW a, NEW n \in Nat, NEW E, NEW S, NEW x \in Near(a, n, E, S),
           NEW m \in S \cap Memories, \E e \in E : Ends(e) = {x, m}
    PROVE  m \in Near(a, n + 1, E, S)
<1>1. PICK p \in Ways(a, n, E, S) : x = p[n]
  BY DEF Near
<1>2. /\ p \in [0..n -> Memories] /\ p[0] = a
      /\ \A k \in 1..n : \/ p[k] = p[k - 1]
                         \/ p[k] \in S /\ \E e \in E : Ends(e) = {p[k - 1], p[k]}
  BY DEF Ways
<1> DEFINE q == [k \in 0 .. n + 1 |-> IF k = n + 1 THEN m ELSE p[k]]
<1>3. q \in [0 .. n + 1 -> Memories] /\ q[0] = a /\ q[n + 1] = m
  BY <1>2
<1>4. \A k \in 1..n : q[k] = p[k] /\ q[k - 1] = p[k - 1]
  OBVIOUS
<1>5. q[n] = x /\ n + 1 - 1 = n
  BY <1>1
<1> HIDE DEF q
<1>6. \A k \in 1 .. n + 1 : \/ q[k] = q[k - 1]
                            \/ q[k] \in S /\ \E e \in E : Ends(e) = {q[k - 1], q[k]}
  <2> SUFFICES ASSUME NEW k \in 1 .. n + 1
               PROVE  \/ q[k] = q[k - 1]
                      \/ q[k] \in S /\ \E e \in E : Ends(e) = {q[k - 1], q[k]}
    OBVIOUS
  <2>1. CASE k = n + 1
    BY <1>3, <1>5, <2>1
  <2>2. CASE k \in 1..n
    BY <1>2, <1>4, <2>2
  <2> QED
    BY <2>1, <2>2
<1>7. q \in Ways(a, n + 1, E, S)
  BY <1>3, <1>6 DEF Ways
<1> QED
  BY <1>3, <1>7 DEF Near

LEMMA NearStays ==
    ASSUME NEW a, NEW n \in Nat, NEW m \in Nat, n <= m, NEW E, NEW S
    PROVE  Near(a, n, E, S) \subseteq Near(a, m, E, S)
<1> SUFFICES ASSUME NEW p \in Ways(a, n, E, S) PROVE p[n] \in Near(a, m, E, S)
  BY DEF Near
<1>1. /\ p \in [0..n -> Memories] /\ p[0] = a
      /\ \A k \in 1..n : \/ p[k] = p[k - 1]
                         \/ p[k] \in S /\ \E e \in E : Ends(e) = {p[k - 1], p[k]}
  BY DEF Ways
<1> DEFINE q == [k \in 0..m |-> IF k <= n THEN p[k] ELSE p[n]]
<1>2. q \in [0..m -> Memories] /\ q[0] = a /\ q[m] = p[n]
  BY <1>1
<1>3. \A k \in 1..m : IF k <= n THEN q[k] = p[k] /\ q[k - 1] = p[k - 1] /\ k \in 1..n
                      ELSE q[k] = q[k - 1]
  OBVIOUS
<1> HIDE DEF q
<1>4. q \in Ways(a, m, E, S)
  BY <1>1, <1>2, <1>3 DEF Ways
<1> QED
  BY <1>2, <1>4 DEF Near

LEMMA NearGrows ==
    ASSUME NEW a, NEW n, NEW E, NEW F, NEW S, NEW T, E \subseteq F, S \subseteq T
    PROVE  Near(a, n, E, S) \subseteq Near(a, n, F, T)
<1>1. Ways(a, n, E, S) \subseteq Ways(a, n, F, T)
  BY DEF Ways
<1> QED
  BY <1>1 DEF Near

LEMMA NearStart ==
    ASSUME NEW a \in Memories, NEW n \in Nat, NEW E, NEW S
    PROVE  a \in Near(a, n, E, S)
<1> DEFINE p == [k \in 0..n |-> a]
<1>1. p \in Ways(a, n, E, S) /\ p[n] = a
  BY DEF Ways
<1> QED
  BY <1>1 DEF Near

\* No way leads out of a set that relations do not lead out of.
LEMMA NearClosed ==
    ASSUME NEW a, NEW n \in Nat, NEW E, NEW S, NEW T, a \in T,
           \A x \in T, m \in S : (\E e \in E : Ends(e) = {x, m}) => m \in T
    PROVE  Near(a, n, E, S) \subseteq T
<1> SUFFICES ASSUME NEW p \in Ways(a, n, E, S), p[n] \notin T PROVE FALSE
  BY DEF Near
<1> DEFINE out == {k \in 0..n : p[k] \notin T}
<1>1. /\ p \in [0..n -> Memories] /\ p[0] = a
      /\ \A k \in 1..n : \/ p[k] = p[k - 1]
                         \/ p[k] \in S /\ \E e \in E : Ends(e) = {p[k - 1], p[k]}
  BY DEF Ways
<1>2. out \in SUBSET Nat /\ n \in out
  OBVIOUS
<1>3. PICK k \in out : \A j \in out : k <= j
  BY <1>2, LeastOf
<1>4. k \in 1..n /\ k - 1 \in 0..n /\ p[k] \notin T
  BY <1>1, <1>3
<1>5. p[k - 1] \in T
  BY <1>3, <1>4
<1> QED
  BY <1>1, <1>4, <1>5

LEMMA NearEntered ==
    ASSUME NEW a, NEW n \in Nat, NEW E, NEW S
    PROVE  Near(a, n, E, S) \subseteq S \cup {a}
BY NearClosed

-----------------------------------------------------------------------------
(* A walk, step by step, and the calls beside it. *)

LEMMA InitWInv == Init => WInv
BY GraphAssumption DEF Init, WInv, WalkTypes, WalkSound, Walking, NeighborsBetween

\* No walk, or one that is over.
LEMMA UnwalkedStep ==
    ASSUME WInv, ~Walking, UNCHANGED <<walk, had, ever, always, edges>>
    PROVE  WInv'
<1>1. Lasting' = Lasting /\ Passing' = Passing /\ Asked(always)' = Asked(always) /\ Asked(ever)' = Asked(ever)
  BY DEF Lasting, Passing, Asked
<1> QED
  BY <1>1 DEF WInv, WalkTypes, WalkSound, Walking, NeighborsBetween

\* Other calls while the walk is under way.
LEMMA BesideStep ==
    ASSUME WInv, Walking, UNCHANGED walk, WalkTypes', History',
           always' \subseteq always, ever \subseteq ever', \A m \in Memories : had[m] \subseteq had'[m]
    PROVE  WInv'
<1>1. /\ Lasting' \subseteq Lasting /\ Passing \subseteq Passing'
      /\ Asked(always)' \subseteq Asked(always) /\ Asked(ever) \subseteq Asked(ever)'
  BY DEF Lasting, Passing, Asked
<1>2. walk \in Walk /\ WalkShape /\ FoundNear /\ NearFound /\ MetReturned /\ walk.at # "done"
  BY DEF WInv, WalkTypes, WalkSound, Walking
<1>3. WalkShape'
  BY <1>2 DEF WalkShape, Asked
<1>4. FoundNear'
  <2>1. \A n : Near(walk.start, n, Asked(ever), Passing) \subseteq Near(walk.start, n, Asked(ever)', Passing')
    BY <1>1, NearGrows
  <2> QED
    BY <1>2, <2>1 DEF FoundNear
<1>5. NearFound'
  <2>1. \A n : Near(walk.start, n, Asked(always)', Lasting') \subseteq Near(walk.start, n, Asked(always), Lasting)
    BY <1>1, NearGrows
  <2>2. Ahead' = Ahead
    BY DEF Ahead
  <2> QED
    BY <1>2, <2>1, <2>2 DEF NearFound
<1>6. MetReturned'
  BY <1>1, <1>2 DEF MetReturned
<1> QED
  BY <1>2, <1>3, <1>4, <1>5, <1>6 DEF WInv, WalkSound, NeighborsBetween

LEMMA UnrelatedStep ==
    ASSUME WInv, UNCHANGED <<rows, walk, had, ever, always, edges>>
    PROVE  WInv'
<1>1. CASE Walking
  <2>1. WalkTypes' /\ History'
    BY <1>1 DEF WInv, WalkTypes, WalkSound, History, There
  <2> QED
    BY <1>1, <2>1, BesideStep
<1>2. CASE ~Walking
  BY <1>2, UnwalkedStep
<1> QED
  BY <1>1, <1>2

LEMMA LinkStep ==
    ASSUME WInv, NEW e \in Edges, CreateEdge(e) \/ DeleteEdge(e)
    PROVE  WInv'
<1>1. /\ Walking /\ UNCHANGED <<rows, walk, had>>
      /\ edges' = [edges EXCEPT ![e] = "there"] \/ edges' = [edges EXCEPT ![e] = "deleted"]
  BY DEF CreateEdge, DeleteEdge, LinkChange
<1>2. WalkTypes /\ History
  BY <1>1 DEF WInv, WalkSound
<1>3. WalkTypes'
  BY <1>1, <1>2 DEF WalkTypes
<1>4. always' \subseteq always /\ ever \subseteq ever' /\ History'
  <2>1. CASE CreateEdge(e)
    BY <1>1, <1>2, <2>1 DEF CreateEdge, LinkChange, WalkTypes, History, There
  <2>2. CASE DeleteEdge(e)
    BY <1>1, <1>2, <2>2 DEF DeleteEdge, LinkChange, WalkTypes, History, There
  <2> QED
    BY <2>1, <2>2
<1> QED
  BY <1>1, <1>3, <1>4, BesideStep

LEMMA WriteStep ==
    ASSUME IInv, WInv, NEW w \in Writers, Save(w)
    PROVE  WInv'
<1> DEFINE c == calls[w]
<1>1. /\ c.m \in Memories /\ c.tier \in TierNames
      /\ rows' = [rows EXCEPT ![c.m] = [tier |-> c.tier, dated |-> c.dated, content |-> c.content]]
      /\ had' = IF Walking THEN [had EXCEPT ![c.m] = @ \cup {c.tier}] ELSE had
      /\ UNCHANGED <<edges, walk, ever, always>>
  BY DEF Save, Quiet, walkVars, Busy, IInv, RowTypes, Calls
<1>2. CASE Walking
  <2>1. WalkTypes /\ History /\ rows \in [Memories -> Rows]
    BY <1>2 DEF WInv, WalkSound, IInv, RowTypes
  <2> HIDE DEF c
  <2>2. had' \in [Memories -> SUBSET TierNames] /\ \A m \in Memories : had[m] \subseteq had'[m]
    BY <1>1, <1>2, <2>1 DEF WalkTypes
  <2>3. WalkTypes'
    BY <1>1, <2>1, <2>2 DEF WalkTypes
  <2>4. \A m \in Memories : rows'[m].tier \in had'[m]
    BY <1>1, <1>2, <2>1 DEF WalkTypes, History
  <2>5. History'
    BY <1>1, <2>1, <2>4 DEF History, There
  <2> QED
    BY <1>1, <1>2, <2>2, <2>3, <2>5, BesideStep
<1>3. CASE ~Walking
  BY <1>1, <1>3, UnwalkedStep
<1> QED
  BY <1>2, <1>3

LEMMA BeginStep ==
    ASSUME IInv, WInv, NEW m \in Starts, NEW d \in Depths, NEW r \in RelationFilters,
           NEW t \in TierFilters, BeginWalk(m, d, r, t)
    PROVE  WInv'
<1>1. /\ had' = [x \in Memories |-> {rows[x].tier}] /\ ever' = There /\ always' = There
      /\ UNCHANGED <<rows, edges>> /\ m \in Memories /\ d \in Nat
  BY GraphAssumption DEF BeginWalk
<1>2. had' \in [Memories -> SUBSET TierNames]
  <2>1. \A x \in Memories : rows[x].tier \in TierNames
    BY DEF IInv, RowTypes, Rows
  <2> QED
    BY <1>1, <2>1
<1>3. CASE d > MaxDepth
  <2>1. walk' = [at |-> "refused"]
    BY <1>3 DEF BeginWalk
  <2> QED
    BY <1>1, <1>2, <2>1 DEF WInv, WalkTypes, WalkSound, Walking, NeighborsBetween
<1>4. CASE ~(d > MaxDepth)
  <2> DEFINE new == [at |-> "front", start |-> m,
                     depth |-> IF d < 1 THEN 1 ELSE d,
                     relations |-> r, tiers |-> t,
                     level |-> 0, front |-> {m}, next |-> {}, cur |-> m, out |-> {}, todo |-> {},
                     edgeSeen |-> {}, nodes |-> {m}, edges |-> {}]
  <2>1. walk' = new
    BY <1>4 DEF BeginWalk
  <2>2. /\ walk' \in Walk /\ walk'.at = "front" /\ walk'.start = m /\ walk'.level = 0
        /\ walk'.front = {m} /\ walk'.next = {} /\ walk'.cur = m /\ walk'.out = {}
        /\ walk'.todo = {} /\ walk'.edgeSeen = {} /\ walk'.nodes = {m} /\ walk'.edges = {}
        /\ walk'.level < walk'.depth
    BY <1>1, <2>1 DEF Walk
  <2> HIDE DEF new
  <2>3. WalkTypes' /\ History'
    BY <1>1, <1>2, <2>2 DEF WInv, WalkTypes, History, There
  <2>4. WalkShape' /\ MetReturned'
    BY <2>2 DEF WalkShape, MetReturned
  <2>5. FoundNear'
    <3>1. \A n \in Nat : m \in Near(m, n, Asked(ever)', Passing')
      BY <1>1, NearStart
    <3> QED
      BY <2>2, <3>1 DEF FoundNear
  <2>6. NearFound'
    <3>1. Near(m, 0, Asked(always)', Lasting') \subseteq {m}
      BY DEF Near, Ways
    <3>2. Ahead' = {m}
      BY <2>2 DEF Ahead
    <3> QED
      BY <2>2, <3>1, <3>2 DEF NearFound
  <2> QED
    BY <2>2, <2>3, <2>4, <2>5, <2>6 DEF WInv, WalkSound, NeighborsBetween
<1> QED
  BY <1>3, <1>4

\* A step of the walk compares with what it was compared with before.
LEMMA SameHistory ==
    ASSUME WInv, Walking, ReadOnly, walk'.start = walk.start, walk'.relations = walk.relations,
           walk'.tiers = walk.tiers, walk' \in Walk
    PROVE  /\ WalkTypes' /\ History' /\ Lasting' = Lasting /\ Passing' = Passing
           /\ Asked(always)' = Asked(always) /\ Asked(ever)' = Asked(ever)
           /\ Asked(Edges)' = Asked(Edges)
BY DEF WInv, WalkTypes, WalkSound, History, There, ReadOnly, Lasting, Passing, Asked

LEMMA OutgoingStep ==
    ASSUME WInv, NEW m \in Memories, ListOutgoing(m)
    PROVE  WInv'
<1>1. /\ walk.at = "front" /\ m \in walk.front /\ ReadOnly
      /\ walk' = [walk EXCEPT !.at = "incoming", !.cur = m, !.front = @ \ {m}, !.out = Outgoing(m)]
  BY DEF ListOutgoing
<1>2. /\ Walking /\ walk \in Walk /\ History /\ WalkShape /\ FoundNear /\ NearFound /\ MetReturned
  BY <1>1 DEF WInv, WalkTypes, WalkSound, Walking
<1>3. Outgoing(m) \subseteq Edges /\ always \subseteq There /\ There \subseteq ever
  BY <1>2 DEF Outgoing, There, History
<1>4. /\ walk' \in Walk /\ walk'.at = "incoming" /\ walk'.cur = m /\ walk'.front = walk.front \ {m}
      /\ walk'.out = Outgoing(m) /\ walk'.start = walk.start /\ walk'.depth = walk.depth
      /\ walk'.relations = walk.relations /\ walk'.tiers = walk.tiers /\ walk'.level = walk.level
      /\ walk'.next = walk.next /\ walk'.todo = walk.todo /\ walk'.edgeSeen = walk.edgeSeen
      /\ walk'.nodes = walk.nodes /\ walk'.edges = walk.edges
  BY <1>1, <1>2, <1>3 DEF Walk
<1>5. /\ WalkTypes' /\ History' /\ Lasting' = Lasting /\ Passing' = Passing
      /\ Asked(always)' = Asked(always) /\ Asked(ever)' = Asked(ever) /\ ever' = ever /\ always' = always
  BY <1>1, <1>2, <1>4, SameHistory DEF ReadOnly
<1>6. WalkShape'
  BY <1>1, <1>2, <1>3, <1>4, <1>5 DEF WalkShape, Outgoing
<1>7. FoundNear'
  BY <1>1, <1>2, <1>4, <1>5 DEF FoundNear
<1>8. NearFound'
  <2>1. Ahead' = Ahead
    BY <1>1, <1>4 DEF Ahead
  <2>2. \A e \in always : Source[e] = m => e \in Outgoing(m)
    BY <1>3 DEF Outgoing
  <2> QED
    BY <1>2, <1>4, <1>5, <2>1, <2>2 DEF NearFound
<1>9. MetReturned'
  BY <1>2, <1>4, <1>5 DEF MetReturned
<1> QED
  BY <1>4, <1>5, <1>6, <1>7, <1>8, <1>9 DEF WInv, WalkSound, NeighborsBetween

LEMMA IncomingStep ==
    ASSUME WInv, ListIncoming
    PROVE  WInv'
<1> DEFINE all == walk.out \cup Incoming(walk.cur)
           found == {e \in all \ walk.edgeSeen : Passes(Relation[e], walk.relations)}
<1>1. /\ walk.at = "incoming" /\ ReadOnly
      /\ walk' = [walk EXCEPT !.at = "visiting", !.edgeSeen = @ \cup all, !.out = {}, !.todo = found]
  BY DEF ListIncoming
<1>2. /\ Walking /\ walk \in Walk /\ History /\ WalkShape /\ FoundNear /\ NearFound /\ MetReturned
  BY <1>1 DEF WInv, WalkTypes, WalkSound, Walking
<1>3. all \subseteq ever /\ all \subseteq Edges /\ \A e \in all : walk.cur \in Ends(e)
  BY <1>2 DEF Incoming, There, History, WalkShape, Ends
<1>4. \A e \in always : walk.cur \in Ends(e) => e \in all
  BY <1>1, <1>2 DEF Incoming, History, NearFound, Ends
<1>5. found \subseteq all /\ \A e \in found : e \in Asked(Edges)
  BY <1>3 DEF Asked
<1>6. \A e \in Asked(always) \cap all : e \in walk.edgeSeen \cup found
  BY DEF Asked
<1> HIDE DEF all, found
<1>7. /\ walk' \in Walk /\ walk'.at = "visiting" /\ walk'.edgeSeen = walk.edgeSeen \cup all
      /\ walk'.out = {} /\ walk'.todo = found /\ walk'.start = walk.start /\ walk'.depth = walk.depth
      /\ walk'.relations = walk.relations /\ walk'.tiers = walk.tiers /\ walk'.level = walk.level
      /\ walk'.next = walk.next /\ walk'.front = walk.front /\ walk'.cur = walk.cur
      /\ walk'.nodes = walk.nodes /\ walk'.edges = walk.edges
  BY <1>1, <1>2, <1>3, <1>5 DEF Walk
<1>8. /\ WalkTypes' /\ History' /\ Lasting' = Lasting /\ Passing' = Passing
      /\ Asked(always)' = Asked(always) /\ Asked(ever)' = Asked(ever) /\ Asked(Edges)' = Asked(Edges)
      /\ ever' = ever /\ always' = always
  BY <1>1, <1>2, <1>7, SameHistory DEF ReadOnly
<1>9. WalkShape'
  BY <1>2, <1>3, <1>5, <1>7, <1>8 DEF WalkShape
<1>10. FoundNear'
  BY <1>2, <1>7, <1>8 DEF FoundNear
<1>11. NearFound'
  <2>1. Ahead \subseteq Ahead' \cup {walk.cur}
    BY <1>7 DEF Ahead
  <2>2. ASSUME NEW e \in always, Ends(e) \cap (walk.nodes \ Ahead') # {}
        PROVE  e \in walk.edgeSeen \cup all
    <3>1. CASE walk.cur \in Ends(e)
      BY <1>4, <3>1
    <3>2. CASE walk.cur \notin Ends(e)
      BY <1>2, <2>1, <2>2, <3>2 DEF NearFound
    <3> QED
      BY <3>1, <3>2
  <2> QED
    BY <1>2, <1>7, <1>8, <2>2 DEF NearFound
<1>12. MetReturned'
  <2>1. walk.todo = {}
    BY <1>1, <1>2 DEF WalkShape
  <2> QED
    BY <1>2, <1>6, <1>7, <1>8, <2>1 DEF MetReturned
<1> QED
  BY <1>7, <1>8, <1>9, <1>10, <1>11, <1>12 DEF WInv, WalkSound, NeighborsBetween

LEMMA VisitStep ==
    ASSUME WInv, NEW e \in Edges, Visit(e)
    PROVE  WInv'
<1> DEFINE m == Across(e, walk.cur)
<1>1. /\ walk.at = "visiting" /\ e \in walk.todo /\ ReadOnly
      /\ walk' = IF ~Seen(m) /\ ~TierPasses(m) THEN [walk EXCEPT !.todo = @ \ {e}]
                 ELSE [walk EXCEPT !.todo = @ \ {e}, !.nodes = @ \cup {m}, !.edges = @ \cup {e},
                                   !.next = IF Seen(m) THEN @ ELSE @ \cup {m}]
  BY DEF Visit
<1>2. /\ Walking /\ walk \in Walk /\ History /\ WalkShape /\ FoundNear /\ NearFound /\ MetReturned
  BY <1>1 DEF WInv, WalkTypes, WalkSound, Walking
<1>3. /\ m \in Memories /\ Ends(e) = {walk.cur, m} /\ e \in ever /\ e \in Asked(ever)
      /\ walk.cur \in walk.nodes
  BY <1>1, <1>2, GraphAssumption DEF Across, Ends, WalkShape, Asked
<1> HIDE DEF m
<1>4. /\ walk' \in Walk /\ walk'.at = "visiting" /\ walk'.todo = walk.todo \ {e}
      /\ walk'.out = walk.out /\ walk'.edgeSeen = walk.edgeSeen /\ walk'.start = walk.start
      /\ walk'.depth = walk.depth /\ walk'.relations = walk.relations /\ walk'.tiers = walk.tiers
      /\ walk'.level = walk.level /\ walk'.front = walk.front /\ walk'.cur = walk.cur
  BY <1>1, <1>2, <1>3 DEF Walk
<1>5. \/ /\ ~Seen(m) /\ ~TierPasses(m) /\ walk'.nodes = walk.nodes /\ walk'.edges = walk.edges
         /\ walk'.next = walk.next
      \/ /\ walk'.nodes = walk.nodes \cup {m} /\ walk'.edges = walk.edges \cup {e}
         /\ \/ m \in walk.nodes /\ walk'.next = walk.next
            \/ m \notin walk.nodes /\ TierPasses(m) /\ walk'.next = walk.next \cup {m}
  BY <1>1, <1>2 DEF Walk, Seen
<1>6. /\ WalkTypes' /\ History' /\ Lasting' = Lasting /\ Passing' = Passing
      /\ Asked(always)' = Asked(always) /\ Asked(ever)' = Asked(ever) /\ Asked(Edges)' = Asked(Edges)
      /\ ever' = ever /\ always' = always
  BY <1>1, <1>2, <1>4, SameHistory DEF ReadOnly
<1>7. WalkShape'
  <2>1. \A f \in walk'.edges : Ends(f) \subseteq walk'.nodes
    BY <1>2, <1>3, <1>5 DEF WalkShape
  <2>2. walk'.edges \subseteq ever /\ walk'.next \subseteq walk'.nodes /\ walk.nodes \subseteq walk'.nodes
    BY <1>2, <1>3, <1>5 DEF WalkShape
  <2> QED
    BY <1>2, <1>4, <1>6, <2>1, <2>2 DEF WalkShape
<1>8. FoundNear'
  <2>1. walk.level \in Nat
    BY <1>2 DEF Walk
  <2>2. ASSUME TierPasses(m) PROVE m \in Near(walk.start, walk.level + 1, Asked(ever), Passing)
    <3>1. m \in Passing \cap Memories
      BY <1>2, <1>3, <2>2 DEF TierPasses, Passing, History
    <3>2. walk.cur \in Near(walk.start, walk.level, Asked(ever), Passing)
      BY <1>2 DEF FoundNear
    <3> QED
      BY <1>3, <2>1, <3>1, <3>2, NearReaches
  <2>3. walk'.nodes \subseteq Near(walk.start, walk.level + 1, Asked(ever), Passing)
    BY <1>2, <1>5, <2>2 DEF FoundNear
  <2> QED
    BY <1>2, <1>4, <1>6, <2>3 DEF FoundNear
<1>9. NearFound'
  <2>1. walk.nodes \ walk.next \subseteq walk'.nodes \ walk'.next
    BY <1>5
  <2>2. walk'.nodes \ Ahead' \subseteq walk.nodes \ Ahead
    BY <1>1, <1>4, <1>5 DEF Ahead
  <2> QED
    BY <1>2, <1>4, <1>6, <2>1, <2>2 DEF NearFound
<1>10. MetReturned'
  <2> SUFFICES ASSUME NEW f \in Asked(always) \cap walk.edgeSeen
               PROVE  \/ f \in walk'.todo \cup walk'.edges
                      \/ \E k \in Ends(f) : k # walk.start /\ k \notin Lasting
    BY <1>4, <1>6 DEF MetReturned
  <2>1. CASE f # e
    BY <1>2, <1>4, <1>5, <2>1 DEF MetReturned
  <2>2. CASE f = e
    <3>1. ASSUME ~Seen(m), ~TierPasses(m) PROVE m # walk.start /\ m \notin Lasting
      BY <1>2, <3>1 DEF Seen, TierPasses, WalkShape, Lasting, History
    <3> QED
      BY <1>3, <1>5, <2>2, <3>1
  <2> QED
    BY <2>1, <2>2
<1> QED
  BY <1>4, <1>6, <1>7, <1>8, <1>9, <1>10 DEF WInv, WalkSound, NeighborsBetween

\* At the end of a level its relations have been looked at.
LEMMA LevelDone ==
    ASSUME WInv, walk.at = "visiting", walk.todo = {}, walk.front = {}
    PROVE  \A e \in Asked(always) :
             /\ Ends(e) \subseteq Lasting \cup {walk.start}
             /\ Ends(e) \cap (walk.nodes \ walk.next) # {}
             => e \in walk.edges /\ Ends(e) \subseteq walk.nodes
<1>1. WalkShape /\ NearFound /\ MetReturned
  BY DEF WInv, WalkSound, Walking
<1>2. Ahead = walk.next
  BY DEF Ahead
<1>3. Asked(always) \subseteq always
  BY DEF Asked
<1> QED
  BY <1>1, <1>2, <1>3 DEF WalkShape, NearFound, MetReturned

LEMMA NextLevel ==
    ASSUME WInv, walk.at = "visiting", walk.todo = {}, walk.front = {}
    PROVE  Near(walk.start, walk.level + 1, Asked(always), Lasting) \subseteq walk.nodes
<1> SUFFICES ASSUME NEW m \in Near(walk.start, walk.level + 1, Asked(always), Lasting), m \notin walk.nodes
             PROVE  FALSE
  OBVIOUS
<1>1. walk \in Walk /\ NearFound /\ walk.level \in Nat
  BY DEF WInv, WalkTypes, WalkSound, Walking, Walk
<1>2. PICK x \in Near(walk.start, walk.level, Asked(always), Lasting) :
        m = x \/ (m \in Lasting /\ \E e \in Asked(always) : Ends(e) = {x, m})
  <2> DEFINE a == walk.start
             n == walk.level
             E == Asked(always)
             l == walk.level + 1
  <2>1. n \in Nat /\ l = n + 1 /\ m \in Near(a, l, E, Lasting)
    BY <1>1
  <2> HIDE DEF a, n, l, E
  <2>2. \E x \in Near(a, n, E, Lasting) : m = x \/ (m \in Lasting /\ \E e \in E : Ends(e) = {x, m})
    BY <2>1, NearNext
  <2> QED
    BY <2>2 DEF a, n, E
<1>3. x \in walk.nodes \ walk.next /\ x \in Lasting \cup {walk.start}
  BY <1>1, NearEntered DEF NearFound
<1> QED
  BY <1>2, <1>3, LevelDone

\* When nothing new was found, nothing is left to find.
LEMMA AllFound ==
    ASSUME WInv, walk.at = "visiting", walk.todo = {}, walk.front = {}, walk.next = {}, NEW n \in Nat
    PROVE  Near(walk.start, n, Asked(always), Lasting) \subseteq walk.nodes
<1> DEFINE T == walk.nodes \cap (Lasting \cup {walk.start})
<1>1. walk.start \in T
  BY DEF WInv, WalkSound, Walking, WalkShape
<1>2. \A x \in T, m \in Lasting : (\E e \in Asked(always) : Ends(e) = {x, m}) => m \in T
  BY LevelDone
<1> HIDE DEF T
<1>3. Near(walk.start, n, Asked(always), Lasting) \subseteq T
  BY <1>1, <1>2, NearClosed
<1> QED
  BY <1>3 DEF T

LEMMA AdvanceStep ==
    ASSUME WInv, Advance
    PROVE  WInv'
<1>1. /\ walk.at = "visiting" /\ walk.todo = {} /\ ReadOnly
      /\ walk' = IF walk.front # {} THEN [walk EXCEPT !.at = "front"]
                 ELSE IF walk.next = {} \/ LastLevel(walk.level, walk.depth)
                 THEN [walk EXCEPT !.at = "done"]
                 ELSE [walk EXCEPT !.at = "front", !.level = @ + 1, !.front = walk.next, !.next = {}]
  BY DEF Advance
<1>2. /\ Walking /\ walk \in Walk /\ History /\ WalkShape /\ FoundNear /\ NearFound /\ MetReturned
  BY <1>1 DEF WInv, WalkTypes, WalkSound, Walking
<1>3. /\ walk' \in Walk /\ walk'.todo = {} /\ walk'.out = walk.out /\ walk'.edgeSeen = walk.edgeSeen
      /\ walk'.start = walk.start /\ walk'.depth = walk.depth /\ walk'.relations = walk.relations
      /\ walk'.tiers = walk.tiers /\ walk'.cur = walk.cur /\ walk'.nodes = walk.nodes
      /\ walk'.edges = walk.edges /\ walk.level \in Nat /\ walk.depth \in Nat
  <2>1. CASE walk.front # {}
    BY <1>1, <1>2, <2>1 DEF Walk
  <2>2. CASE walk.front = {} /\ (walk.next = {} \/ LastLevel(walk.level, walk.depth))
    BY <1>1, <1>2, <2>2 DEF Walk
  <2>3. CASE walk.front = {} /\ ~ (walk.next = {} \/ LastLevel(walk.level, walk.depth))
    <3>1. walk' = [walk EXCEPT !.at = "front", !.level = walk.level + 1, !.front = walk.next, !.next = {}]
      BY <1>1, <2>3
    <3>2. walk.level \in Nat /\ walk.level + 1 \in Nat /\ walk.depth \in Nat
      BY <1>2 DEF Walk
    <3> QED
      BY <1>1, <1>2, <3>1, <3>2 DEF Walk
  <2> QED
    BY <2>1, <2>2, <2>3
<1>4. /\ WalkTypes' /\ History' /\ Lasting' = Lasting /\ Passing' = Passing
      /\ Asked(always)' = Asked(always) /\ Asked(ever)' = Asked(ever) /\ Asked(Edges)' = Asked(Edges)
      /\ ever' = ever /\ always' = always
  BY <1>1, <1>2, <1>3, SameHistory DEF ReadOnly
<1>5. CASE walk.front # {}
  <2>1. walk'.at = "front" /\ walk'.level = walk.level /\ walk'.front = walk.front /\ walk'.next = walk.next
    BY <1>1, <1>2, <1>5 DEF Walk
  <2>2. Ahead' = Ahead
    BY <1>1, <2>1 DEF Ahead
  <2>3. WalkShape' /\ FoundNear' /\ NearFound' /\ MetReturned'
    BY <1>1, <1>2, <1>3, <1>4, <2>1, <2>2 DEF WalkShape, FoundNear, NearFound, MetReturned
  <2> QED
    BY <1>4, <2>1, <2>3 DEF WInv, WalkSound, NeighborsBetween
<1>6. CASE walk.front = {} /\ walk.next # {} /\ ~LastLevel(walk.level, walk.depth)
  <2>1. walk'.at = "front" /\ walk'.level = walk.level + 1 /\ walk'.front = walk.next /\ walk'.next = {}
    BY <1>1, <1>2, <1>6 DEF Walk
  <2>2. walk'.level < walk'.depth /\ walk'.level \in Nat
    BY <1>2, <1>3, <1>6, <2>1 DEF WalkShape, LastLevel
  <2>3. WalkShape'
    BY <1>2, <1>3, <1>4, <2>1, <2>2 DEF WalkShape
  <2>4. FoundNear'
    <3>1. Near(walk.start, walk.level, Asked(ever), Passing)
          \subseteq Near(walk.start, walk.level + 1, Asked(ever), Passing)
      BY <1>3, NearStays
    <3>2. Near(walk.start, walk.level + 1, Asked(ever), Passing)
          \subseteq Near(walk.start, walk.level + 1 + 1, Asked(ever), Passing)
      BY <1>3, NearStays
    <3> QED
      BY <1>2, <1>3, <1>4, <2>1, <3>1, <3>2 DEF FoundNear, WalkShape
  <2>5. NearFound'
    <3>1. Ahead' = Ahead
      BY <1>1, <1>6, <2>1 DEF Ahead
    <3>2. Near(walk.start, walk.level + 1, Asked(always), Lasting) \subseteq walk.nodes
      BY <1>1, <1>6, NextLevel
    <3> QED
      BY <1>2, <1>3, <1>4, <2>1, <3>1, <3>2 DEF NearFound
  <2>6. MetReturned'
    BY <1>1, <1>2, <1>3, <1>4 DEF MetReturned
  <2> QED
    BY <1>4, <2>1, <2>3, <2>4, <2>5, <2>6 DEF WInv, WalkSound, NeighborsBetween
<1>7. CASE walk.front = {} /\ (walk.next = {} \/ LastLevel(walk.level, walk.depth))
  <2> DEFINE near(n) == Near(walk.start, n, Asked(always), Lasting)
  <2>1. walk'.at = "done"
    BY <1>1, <1>2, <1>7 DEF Walk
  <2>2. walk.depth - 1 \in Nat /\ walk.level + 1 <= walk.depth
    BY <1>2, <1>3 DEF WalkShape
  <2>3. near(walk.depth) \subseteq walk.nodes /\ near(walk.depth - 1) \subseteq walk.nodes \ walk.next
    <3>1. CASE walk.next = {}
      BY <1>1, <1>3, <1>7, <2>2, <3>1, AllFound
    <3>2. CASE LastLevel(walk.level, walk.depth)
      <4>1. walk.depth = walk.level + 1 /\ walk.depth - 1 = walk.level
        BY <1>3, <3>2 DEF LastLevel
      <4> QED
        BY <1>1, <1>2, <1>7, <4>1, NextLevel DEF NearFound
    <3> QED
      BY <1>7, <3>1, <3>2
  <2>4. walk.nodes \subseteq Near(walk.start, walk.depth, Asked(ever), Passing)
    BY <1>2, <1>3, <2>2, NearStays DEF FoundNear
  <2>5. ASSUME NEW e \in Asked(always), Ends(e) \subseteq near(walk.depth),
               Ends(e) \cap near(walk.depth - 1) # {}
        PROVE  e \in walk.edges
    <3>1. Ends(e) \subseteq Lasting \cup {walk.start}
      BY <1>3, <2>5, NearEntered
    <3>2. Ends(e) \cap (walk.nodes \ walk.next) # {}
      BY <2>3, <2>5
    <3> QED
      BY <1>1, <1>7, <3>1, <3>2, LevelDone
  <2>6. walk.edges \subseteq ever /\ \A e \in walk.edges : Ends(e) \subseteq walk.nodes
    BY <1>2 DEF WalkShape
  <2>7. NeighborsBetween'
    BY <1>3, <1>4, <2>3, <2>4, <2>5, <2>6 DEF NeighborsBetween
  <2> QED
    BY <1>4, <2>1, <2>7 DEF WInv, WalkSound, Walking
<1> QED
  BY <1>5, <1>6, <1>7

LEMMA NextWInv == IInv /\ WInv /\ [Next]_vars => WInv'
<1> SUFFICES ASSUME IInv, WInv, [Next]_vars PROVE WInv'
  OBVIOUS
<1>1. CASE \E m \in Starts, d \in Depths, r \in RelationFilters, t \in TierFilters : BeginWalk(m, d, r, t)
  BY <1>1, BeginStep
<1>2. CASE \E m \in Memories : ListOutgoing(m)
  BY <1>2, OutgoingStep
<1>3. CASE ListIncoming
  BY <1>3, IncomingStep
<1>4. CASE \E e \in Edges : Visit(e)
  BY <1>4, VisitStep
<1>5. CASE Advance
  BY <1>5, AdvanceStep
<1>6. CASE \E e \in Edges : CreateEdge(e) \/ DeleteEdge(e)
  BY <1>6, LinkStep
<1>7. CASE \E w \in Writers : Save(w)
  BY <1>7, WriteStep
<1>8. CASE \/ \E w \in Writers, m \in Written :
                \/ \E u \in Updates : Update(w, m, u[1], u[2])
                \/ ArchiveMemory(w, m) \/ RestoreMemory(w, m)
           \/ \E w \in Writers : ToolGet(w) \/ ServiceGet(w) \/ Abandon(w)
           \/ UNCHANGED vars
  <2>1. UNCHANGED <<rows, walk, had, ever, always, edges>>
    BY <1>8 DEF Update, ArchiveMemory, RestoreMemory, Start, ToolGet, ServiceGet, Abandon, Quiet,
                walkVars, vars
  <2> QED
    BY <2>1, UnrelatedStep
<1> QED
  BY <1>1, <1>2, <1>3, <1>4, <1>5, <1>6, <1>7, <1>8 DEF Next

-----------------------------------------------------------------------------
(* The theorems. *)

\* A row is what its calls promise one after the other, as long as no two of
\* them were under way at once: although the client, the tool, the service and
\* the repository each read or write all of its fields (MCPMemoryClient.update,
\* memory_update, Service.UpdateMemory, ArchiveMemory and RestoreMemory).
THEOREM CallsDoAsPromised == Spec => []RowsAsPromised
<1>1. IInv => RowsAsPromised
  BY DEF IInv
<1> QED
  BY <1>1, InitIInv, NextIInv, PTL DEF Spec

\* What memory_neighbors returns lies between what was there all the time of the
\* walk and what was there at some time, whatever links, unlinks, updates,
\* archivings and restorings come between its statements (GraphService.Neighbors).
THEOREM WalkReturnsBetween == Spec => []NeighborsBetween
<1>1. IInv /\ WInv /\ [Next]_vars => (IInv /\ WInv)'
  BY NextIInv, NextWInv
<1>2. WInv => NeighborsBetween
  BY DEF WInv
<1> QED
  BY <1>1, <1>2, InitIInv, InitWInv, PTL DEF Spec
=============================================================================
