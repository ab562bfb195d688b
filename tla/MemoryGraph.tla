---------------------------- MODULE MemoryGraph ----------------------------
(***************************************************************************)
(* The memories of a project and the relations between them, as the Memory *)
(* MCP service keeps them: a walk over the neighbours of a memory, and the *)
(* calls that change relations and memories meanwhile.                     *)
(*                                                                         *)
(* The service has one database connection and no transaction that spans   *)
(* two statements of a call, apart from the writing of one memory: a call  *)
(* is a sequence of statements and those of other calls come in between.   *)
(* Memories are never deleted by a tool.                                   *)
(***************************************************************************)
EXTENDS Naturals, FiniteSets

CONSTANTS
    Memories, Edges,           \* edge ids; ids are random and never used again
    Source, Target, Relation,  \* of an edge
    Writers,                   \* callers of memory_update, memory_archive, memory_restore
    Updates,                   \* contents and tiers that an update gives, or Blank
    Written,                   \* memories that the writers change
    Starts, Depths, RelationFilters, TierFilters,  \* arguments of Neighbors
    Linked,                    \* relations there are at the start
    MaxWrites,                 \* calls that the writers make
    MaxLinks                   \* relations made or deleted during the walk

ASSUME GraphAssumption ==
    /\ Source \in [Edges -> Memories] /\ Target \in [Edges -> Memories]
    /\ DOMAIN Relation = Edges /\ Linked \subseteq Edges
    /\ Starts \subseteq Memories /\ Depths \subseteq Nat /\ Written \subseteq Memories
    /\ MaxWrites \in Nat /\ MaxLinks \in Nat

MaxDepth == 10
Blank == "blank"

VARIABLES
    rows,       \* rows[m]: tier, whether archived_at is set, and content
    edges,      \* edges[e]: not made yet, there, or deleted
    walk,       \* the call of Neighbors
    calls,      \* calls[w]: the call of writer w
    writes, changes,
    had,        \* had[m]: tiers that m had since the walk began
    ever, always,  \* relations that were there at some time, all the time of the walk
    wanted,     \* wanted[m]: the row if every call had been one step
    overlapped  \* memories of which two calls were under way at once

vars == <<rows, edges, walk, calls, writes, changes, had, ever, always, wanted, overlapped>>
walkVars == <<walk, ever, always>>

Walking == walk.at \notin {"before", "refused", "done"}
There == {e \in Edges : edges[e] = "there"}

NoCall == [at |-> "idle", m |-> 0, op |-> "", tier |-> Blank, dated |-> FALSE,
           content |-> Blank, asked |-> <<Blank, Blank>>]

Init ==
    /\ rows \in [Memories -> {[tier |-> "ACTIVE", dated |-> FALSE, content |-> "first"],
                              [tier |-> "COLD", dated |-> TRUE, content |-> "first"]}]
    /\ edges = [e \in Edges |-> IF e \in Linked THEN "there" ELSE "new"]
    /\ walk = [at |-> "before"] /\ calls = [w \in Writers |-> NoCall]
    /\ writes = 0 /\ changes = 0
    /\ had = [m \in Memories |-> {}] /\ ever = {} /\ always = {}
    /\ wanted = rows /\ overlapped = {}

-----------------------------------------------------------------------------
(* GraphService.Neighbors.  Definitions named ...Bug are what a plausible    *)
(* mistake would put in place of the definition that follows; no action uses *)
(* them.                                                                     *)

Outgoing(m) == {e \in There : Source[e] = m}

IncomingNoneBug(m) == {}
Incoming(m) == {e \in There : Target[e] = m}

\* An empty filter lets everything pass.
Passes(x, filter) == filter = {} \/ x \in filter

Across(e, m) == IF Source[e] = m THEN Target[e] ELSE Source[e]

\* The start is returned whatever its tier is.
BeginWalk(m, depth, relations, tiers) ==
    /\ walk.at = "before"
    /\ walk' = IF depth > MaxDepth THEN [at |-> "refused"]
               ELSE [at |-> "front", start |-> m,
                     depth |-> IF depth < 1 THEN 1 ELSE depth,
                     relations |-> relations, tiers |-> tiers,
                     level |-> 0, front |-> {m}, next |-> {}, cur |-> m, out |-> {}, todo |-> {},
                     edgeSeen |-> {}, nodes |-> {m}, edges |-> {}]
    /\ had' = [x \in Memories |-> {rows[x].tier}] /\ ever' = There /\ always' = There
    /\ UNCHANGED <<rows, edges, calls, writes, changes, wanted, overlapped>>

ReadOnly == UNCHANGED <<rows, edges, calls, writes, changes, had, ever, always, wanted, overlapped>>

ListOutgoing(m) ==
    /\ walk.at = "front" /\ m \in walk.front
    /\ walk' = [walk EXCEPT !.at = "incoming", !.cur = m, !.front = @ \ {m}, !.out = Outgoing(m)]
    /\ ReadOnly

\* Relations that were met before, from their other end, are not looked at
\* again, and neither are those of other kinds.
ListIncoming ==
    /\ walk.at = "incoming"
    /\ LET all == walk.out \cup Incoming(walk.cur) IN
       walk' = [walk EXCEPT !.at = "visiting", !.edgeSeen = @ \cup all, !.out = {},
                            !.todo = {e \in all \ walk.edgeSeen : Passes(Relation[e], walk.relations)}]
    /\ ReadOnly

Seen(m) == m \in walk.nodes

TierPasses(m) == Passes(rows[m].tier, walk.tiers)

\* The order of the list is that of creation; any order is allowed here.
Visit(e) ==
    LET m == Across(e, walk.cur) IN
    /\ walk.at = "visiting" /\ e \in walk.todo
    /\ walk' = IF ~Seen(m) /\ ~TierPasses(m) THEN [walk EXCEPT !.todo = @ \ {e}]
               ELSE [walk EXCEPT !.todo = @ \ {e}, !.nodes = @ \cup {m}, !.edges = @ \cup {e},
                                 !.next = IF Seen(m) THEN @ ELSE @ \cup {m}]
    /\ ReadOnly

LastLevel(level, depth) == level + 1 = depth

Advance ==
    /\ walk.at = "visiting" /\ walk.todo = {}
    /\ walk' = IF walk.front # {} THEN [walk EXCEPT !.at = "front"]
               ELSE IF walk.next = {} \/ LastLevel(walk.level, walk.depth)
               THEN [walk EXCEPT !.at = "done"]
               ELSE [walk EXCEPT !.at = "front", !.level = @ + 1, !.front = walk.next, !.next = {}]
    /\ ReadOnly

-----------------------------------------------------------------------------
(* memory_link and memory_unlink.  What CreateEdge reads before its INSERT   *)
(* never changes.                                                            *)

LinkChange(e, state) ==
    /\ Walking /\ changes < MaxLinks /\ changes' = changes + 1
    /\ edges' = [edges EXCEPT ![e] = state]
    /\ UNCHANGED <<rows, walk, calls, writes, had, wanted, overlapped>>

CreateEdge(e) ==
    /\ edges[e] = "new" /\ Source[e] # Target[e]
    /\ LinkChange(e, "there")
    /\ ever' = ever \cup {e} /\ UNCHANGED always

DeleteEdge(e) ==
    /\ edges[e] = "there"
    /\ LinkChange(e, "deleted")
    /\ always' = always \ {e} /\ UNCHANGED ever

-----------------------------------------------------------------------------
(* memory_update, memory_archive and memory_restore *)

Busy(w) == calls[w].at # "idle"

\* A call of w on m begins, or is refused at once, with what it read.
Start(w, m, call) ==
    /\ ~Busy(w) /\ writes < MaxWrites /\ writes' = writes + 1
    /\ calls' = [calls EXCEPT ![w] = call]
    /\ overlapped' = IF \E v \in Writers \ {w} : Busy(v) /\ calls[v].m = m
                     THEN overlapped \cup {m} ELSE overlapped
    /\ UNCHANGED <<rows, edges, changes, had, walkVars, wanted>>

\* MCPMemoryClient.update reads the memory and gives its content back when the
\* caller gives none.
Update(w, m, content, tier) ==
    Start(w, m, [NoCall EXCEPT !.at = "tool", !.m = m, !.op = "update", !.tier = tier,
                               !.asked = <<content, tier>>,
                               !.content = IF content = Blank THEN rows[m].content ELSE content])

ArchiveMemory(w, m) ==
    /\ rows[m].tier # "COLD"
    /\ Start(w, m, [NoCall EXCEPT !.at = "save", !.m = m, !.op = "archive", !.tier = "COLD",
                                  !.dated = TRUE, !.content = rows[m].content])

RestoreMemory(w, m) ==
    Start(w, m, [NoCall EXCEPT !.at = "save", !.m = m, !.op = "restore", !.tier = "ACTIVE",
                               !.content = rows[m].content])

Quiet == UNCHANGED <<edges, writes, changes, walkVars, overlapped>>

\* The tool passes archived_at on.
ToolGet(w) ==
    /\ calls[w].at = "tool"
    /\ calls' = [calls EXCEPT ![w].at = "service", ![w].dated = rows[calls[w].m].dated]
    /\ UNCHANGED <<rows, had, wanted>> /\ Quiet

MergedTierBug(given, old) == IF given = Blank THEN "ACTIVE" ELSE given
MergedTier(given, old) == IF given = Blank THEN old ELSE given

\* archived_at is looked at before a tier that was not given is filled in.
ServiceGet(w) ==
    LET c == calls[w]  old == rows[c.m] IN
    /\ c.at = "service"
    /\ calls' = [calls EXCEPT ![w].at = "save", ![w].tier = MergedTier(c.tier, old.tier),
                              ![w].dated = IF ~c.dated /\ c.tier = "COLD" THEN old.dated ELSE c.dated]
    /\ UNCHANGED <<rows, had, wanted>> /\ Quiet

\* What call c makes of a row when no other call of the memory is under way.
Promised(c, row) ==
    CASE c.op = "update" -> [row EXCEPT !.content = IF c.asked[1] = Blank THEN @ ELSE c.asked[1],
                                        !.tier = IF c.asked[2] = Blank THEN @ ELSE c.asked[2]]
      [] c.op = "archive" -> [row EXCEPT !.tier = "COLD", !.dated = TRUE]
      [] c.op = "restore" -> [row EXCEPT !.tier = "ACTIVE", !.dated = FALSE]

\* The whole row is written.
Save(w) ==
    LET c == calls[w] IN
    /\ c.at = "save"
    /\ rows' = [rows EXCEPT ![c.m] = [tier |-> c.tier, dated |-> c.dated, content |-> c.content]]
    /\ had' = IF Walking THEN [had EXCEPT ![c.m] = @ \cup {c.tier}] ELSE had
    /\ wanted' = [wanted EXCEPT ![c.m] = Promised(c, @)]
    /\ calls' = [calls EXCEPT ![w] = NoCall]
    /\ Quiet

\* The request is lost, or the caller goes away and its context is cancelled.
Abandon(w) ==
    /\ Busy(w)
    /\ calls' = [calls EXCEPT ![w] = NoCall]
    /\ UNCHANGED <<rows, had, wanted>> /\ Quiet

-----------------------------------------------------------------------------

Next ==
    \/ \E m \in Starts, d \in Depths, r \in RelationFilters, t \in TierFilters : BeginWalk(m, d, r, t)
    \/ \E m \in Memories : ListOutgoing(m)
    \/ ListIncoming
    \/ \E e \in Edges : Visit(e)
    \/ Advance
    \/ \E e \in Edges : CreateEdge(e) \/ DeleteEdge(e)
    \/ \E w \in Writers, m \in Written :
          \/ \E u \in Updates : Update(w, m, u[1], u[2])
          \/ ArchiveMemory(w, m) \/ RestoreMemory(w, m)
    \/ \E w \in Writers : ToolGet(w) \/ ServiceGet(w) \/ Save(w) \/ Abandon(w)

Spec == Init /\ [][Next]_vars

-----------------------------------------------------------------------------
(* Properties. *)

Ends(e) == {Source[e], Target[e]}

\* Ways of at most n relations of E from memory a, through memories of entered.
Ways(a, n, E, entered) ==
    {p \in [0..n -> Memories] :
        /\ p[0] = a
        /\ \A k \in 1..n : \/ p[k] = p[k - 1]
                           \/ p[k] \in entered /\ \E e \in E : Ends(e) = {p[k - 1], p[k]}}

Near(a, n, E, entered) == {p[n] : p \in Ways(a, n, E, entered)}

\* Relations that pass the filter.
Asked(E) == {e \in E : Passes(Relation[e], walk.relations)}

\* Memories whose tier passed all the time of the walk, and at some time.
Lasting == {m \in Memories : \A t \in had[m] : Passes(t, walk.tiers)}
Passing == {m \in Memories : \E t \in had[m] : Passes(t, walk.tiers)}

\* A walk that other calls run beside returns no less than what was there all
\* the time and no more than what was there at some time.  It finds the memories
\* that lasting relations lead to, within the depth and through memories whose
\* tier always passed, and the lasting relations between them that are not
\* beyond the last level; it finds only memories that relations of its time lead
\* to, through memories whose tier passed at some time; and it returns no
\* relation without both of its ends.
NeighborsBetween ==
    LET lasting(n) == Near(walk.start, n, Asked(always), Lasting)
    IN  walk.at = "done" =>
            /\ lasting(walk.depth) \subseteq walk.nodes
            /\ walk.nodes \subseteq Near(walk.start, walk.depth, Asked(ever), Passing)
            /\ {e \in Asked(always) : /\ Ends(e) \subseteq lasting(walk.depth)
                                      /\ Ends(e) \cap lasting(walk.depth - 1) # {}} \subseteq walk.edges
            /\ walk.edges \subseteq ever
            /\ \A e \in walk.edges : Ends(e) \subseteq walk.nodes

\* Unless two calls of a memory were under way at once, its row is what its
\* updates, archivings and restorings promise one after the other, although
\* each of them writes all fields from what it read before.
RowsAsPromised == \A m \in Memories \ overlapped : rows[m] = wanted[m]

=============================================================================
