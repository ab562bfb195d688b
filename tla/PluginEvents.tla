---------------------------- MODULE PluginEvents ----------------------------
(***************************************************************************)
(* The event hooks of the OpenCode plugin: the texts of a session are      *)
(* remembered part by part and posted to the supervisor as FINAL events,   *)
(* a part when it ends and the rest when the session goes idle; global     *)
(* file.edited events are attributed by the tool calls that are running.   *)
(*                                                                         *)
(* JavaScript runs one hook at a time and hooks only give way while they   *)
(* await a post.  OpenCode calls the hooks in the order of its events and  *)
(* does not wait for them, so a post may still be out when the next event  *)
(* comes.  A step of this module is a stretch between two awaits.          *)
(*                                                                         *)
(* The parts are those of one session, Main.  Its conversation goes in     *)
(* turns: the messages of a turn are announced and their parts updated, in *)
(* any order and several times, until session.idle ends the turn.          *)
(***************************************************************************)
EXTENDS Naturals, Sequences, FiniteSets, SequencesExt

CONSTANTS
    Messages, Parts,  \* of Main; the text and reasoning parts only
    Message,          \* Message[p]: the message that part p belongs to
    Turn,             \* Turn[m]: the turn of message m, a number
    Turns,            \* turns of the conversation
    Endings,          \* parts that get a time.end (user texts have none)
    MaxVersion,       \* updates of one part
    Calls, Sessions,  \* tool calls of all sessions
    SessionOf,        \* SessionOf[c]: the session that makes call c
    Main

ASSUME PluginAssumption ==
    /\ Message \in [Parts -> Messages] /\ Turn \in [Messages -> 1..Turns]
    /\ Turns \in Nat \ {0} /\ MaxVersion \in Nat \ {0}
    /\ Endings \subseteq Parts
    /\ SessionOf \in [Calls -> Sessions] /\ Main \in Sessions

VARIABLES
    \* the conversation
    turn,       \* the turn going on
    version,    \* version[p]: updates of p so far; its text is the last one
    ended,      \* parts whose last update had a time.end
    pace,       \* pace[m]: calm if it was announced and its parts came outside flushes,
                \* late if it was announced during one, rushed if only a part came then
    running,    \* tool calls that are executing
    \* the plugin
    known,      \* userMessages and assistantMessages of Main
    maps,       \* the Map objects pendingParts.get(Main) has been, in order
    current,    \* the one it is, 0 for none
    finalized,  \* finalizedParts
    posting,    \* <<p, v>>: an update hook awaits the post of p with text v
    flush,      \* flush[t]: what became of the flush of turn t
    active,     \* activeToolSessions
    \* the supervisor
    settled,    \* <<p, v>>: a post that is over, stored or lost
    filed       \* FILE_CHANGE_FINAL: <<session that edited, session named>>

conversation == <<turn, version, ended, pace, running>>
plugin == <<known, maps, current, finalized, posting, flush, active>>
vars == <<conversation, plugin, settled, filed>>

NoFlush == [at |-> "no", map |-> 0, pos |-> 0, text |-> 0]

Init ==
    /\ turn = 1 /\ version = [p \in Parts |-> 0]
    /\ ended = {} /\ running = {}
    /\ pace = [m \in Messages |-> "unseen"]
    /\ known = {} /\ maps = <<>> /\ current = 0 /\ finalized = {}
    /\ posting = {} /\ flush = [t \in 1..Turns |-> NoFlush] /\ active = {}
    /\ settled = {} /\ filed = {}

Flushing == {t \in 1..Turns : flush[t].at = "part"}
Open(m) == Turn[m] = turn

-----------------------------------------------------------------------------
(* A JavaScript Map keeps the order of insertion, also under an iterator     *)
(* that is on its way: a new key comes last, a known key keeps its place, a  *)
(* deleted one is passed over.                                               *)

Place(map, p) == {i \in DOMAIN map : map[i].live /\ map[i].part = p}

Put(map, p, v) ==
    IF Place(map, p) = {} THEN Append(map, [part |-> p, text |-> v, live |-> TRUE])
    ELSE [i \in DOMAIN map |-> IF i \in Place(map, p) THEN [map[i] EXCEPT !.text = v] ELSE map[i]]

Drop(map, p) ==
    [i \in DOMAIN map |-> IF i \in Place(map, p) THEN [map[i] EXCEPT !.live = FALSE] ELSE map[i]]

\* rememberPart
Remember(p, v) ==
    IF current = 0 THEN maps' = Append(maps, Put(<<>>, p, v)) /\ current' = Len(maps) + 1
    ELSE maps' = [maps EXCEPT ![current] = Put(@, p, v)] /\ UNCHANGED current

-----------------------------------------------------------------------------
(* message.updated and message.part.updated *)

Announce(m) ==
    /\ Open(m)
    /\ known' = known \cup {m}
    /\ pace' = [pace EXCEPT ![m] = IF @ # "unseen" THEN @
                                          ELSE IF Flushing = {} THEN "calm" ELSE "late"]
    /\ UNCHANGED <<turn, version, ended, running, maps, current, finalized, posting,
                   flush, active, settled, filed>>

\* Definitions named ...Bug are what a plausible mistake would put in place of
\* the definition that follows; no action uses them.
UnfinalizedNeverPostedBug(p, done) == p \notin done /\ \A v \in 1..MaxVersion : <<p, v>> \notin posting
UnfinalizedAlwaysBug(p, done) == TRUE
\* The test before a post.  The part is added to the set when the post is over.
Unfinalized(p, done) == p \notin done

\* The part is remembered; one that ends is posted if its message is known.
UpdatePart(p, end) ==
    LET v == version[p] + 1 IN
    /\ Open(Message[p]) /\ p \notin ended /\ version[p] < MaxVersion
    /\ end => p \in Endings
    /\ version' = [version EXCEPT ![p] = v]
    /\ ended' = IF end THEN ended \cup {p} ELSE ended
    /\ pace' = [pace EXCEPT ![Message[p]] = IF Flushing = {} \/ @ = "late" THEN @ ELSE "rushed"]
    /\ Remember(p, v)
    /\ posting' = IF end /\ Message[p] \in known /\ Unfinalized(p, finalized)
                  THEN posting \cup {<<p, v>>} ELSE posting
    /\ UNCHANGED <<turn, running, known, finalized, flush, active, settled, filed>>

\* The post of an ended part is over; emit swallows a failure.  Whatever is
\* pending for the part by now is deleted.
PartPosted(p, v) ==
    /\ <<p, v>> \in posting
    /\ posting' = posting \ {<<p, v>>}
    /\ settled' = settled \cup {<<p, v>>}
    /\ finalized' = finalized \cup {p}
    /\ maps' = IF current = 0 THEN maps ELSE [maps EXCEPT ![current] = Drop(@, p)]
    /\ UNCHANGED <<conversation, known, current, flush, active, filed>>

-----------------------------------------------------------------------------
(* session.idle: flushSession *)

\* Places of a map after pos that the flush posts, given what is finalized.
ToPost(map, pos, done) ==
    {i \in DOMAIN map : i > pos /\ map[i].live /\ Message[map[i].part] \in known
                                /\ Unfinalized(map[i].part, done)}

\* The flush of t goes on behind pos: it posts the next part, or forgets the
\* session and posts MESSAGE_COMPLETED.
GoOn(t, k, pos, done) ==
    LET next == ToPost(maps[k], pos, done) IN
    IF next # {}
    THEN LET i == Min(next) IN
         /\ flush' = [flush EXCEPT ![t] = [at |-> "part", map |-> k, pos |-> i,
                                           text |-> maps[k][i].text]]
         /\ finalized' = done
         /\ UNCHANGED <<known, current>>
    ELSE /\ flush' = [flush EXCEPT ![t] = [NoFlush EXCEPT !.at = "completing"]]
         /\ finalized' = {} /\ known' = {} /\ current' = 0

ClearedOf(s) == {c \in active : SessionOf[c] = s}

Idle ==
    /\ turn <= Turns
    /\ turn' = turn + 1
    /\ running' = running \ {c \in Calls : SessionOf[c] = Main}
    /\ active' = active \ ClearedOf(Main)
    /\ IF current # 0 THEN GoOn(turn, current, 0, finalized)
       ELSE /\ flush' = [flush EXCEPT ![turn] = [NoFlush EXCEPT !.at = "completing"]]
            /\ UNCHANGED <<finalized, known, current>>
    /\ UNCHANGED <<version, ended, pace, maps, posting, settled, filed>>

InFlight(t) == maps[flush[t].map][flush[t].pos].part

FlushPosted(t) ==
    /\ flush[t].at = "part"
    /\ settled' = settled \cup {<<InFlight(t), flush[t].text>>}
    /\ GoOn(t, flush[t].map, flush[t].pos, finalized \cup {InFlight(t)})
    /\ UNCHANGED <<conversation, maps, posting, active, filed>>

CompletedPosted(t) ==
    /\ flush[t].at = "completing"
    /\ flush' = [flush EXCEPT ![t].at = "done"]
    /\ UNCHANGED <<conversation, known, maps, current, finalized, posting, active,
                   settled, filed>>

-----------------------------------------------------------------------------
(* tool.execute.before, tool.execute.after and file.edited *)

BeginCall(c) ==
    /\ c \notin running /\ SessionOf[c] = Main => turn <= Turns
    /\ running' = running \cup {c} /\ active' = active \cup {c}
    /\ UNCHANGED <<turn, version, ended, pace, known, maps, current, finalized, posting,
                   flush, settled, filed>>

\* A call that throws, or is aborted, has no tool.execute.after.
EndCall(c, throws) ==
    /\ c \in running
    /\ running' = running \ {c}
    /\ active' = IF throws THEN active ELSE active \ {c}
    /\ UNCHANGED <<turn, version, ended, pace, known, maps, current, finalized, posting,
                   flush, settled, filed>>

\* session.idle of another session, which the module has no messages of.
IdleElsewhere(s) ==
    /\ s # Main
    /\ running' = running \ {c \in Calls : SessionOf[c] = s}
    /\ active' = active \ ClearedOf(s)
    /\ running' # running \/ active' # active
    /\ UNCHANGED <<turn, version, ended, pace, known, maps, current, finalized, posting,
                   flush, settled, filed>>

ActiveSessions == {SessionOf[c] : c \in active}

UniqueActiveAnyBug(S) == S # {}
UniqueActive(S) == Cardinality(S) = 1

\* The sessions an event may be attributed to: the one it names, the one with
\* a call under way when it names none, no session when the name is unusable.
Attributed(named, s) ==
    CASE named = "own" -> {s}
      [] named = "none" -> IF UniqueActive(ActiveSessions) THEN ActiveSessions ELSE {}
      [] named = "unusable" -> {}

\* A running call edits a file; OpenCode publishes that without its session,
\* or with a name that is empty or "default".
FileEdited(c, named) ==
    /\ c \in running
    /\ \E s \in Attributed(named, SessionOf[c]) : filed' = filed \cup {<<SessionOf[c], s>>}
    /\ UNCHANGED <<conversation, plugin, settled>>

-----------------------------------------------------------------------------

Next ==
    \/ \E m \in Messages : Announce(m)
    \/ \E p \in Parts, end \in BOOLEAN : UpdatePart(p, end)
    \/ \E u \in posting : PartPosted(u[1], u[2])
    \/ Idle
    \/ \E t \in 1..Turns : FlushPosted(t) \/ CompletedPosted(t)
    \/ \E c \in Calls : \/ BeginCall(c)
                        \/ \E throws \in BOOLEAN : EndCall(c, throws)
                        \/ \E n \in {"own", "none", "unusable"} : FileEdited(c, n)
    \/ \E s \in Sessions : IdleElsewhere(s)

Spec == Init /\ [][Next]_vars

-----------------------------------------------------------------------------
(* Properties. *)

\* The texts of p that are out, in posts from updates and from flushes.
OutTexts(p) ==
    {u[2] : u \in {w \in posting : w[1] = p}}
    \cup {flush[t].text : t \in {f \in Flushing : InFlight(f) = p}}

CompletedWith(p) ==
    version[p] > 0 /\ flush[Turn[Message[p]]].at \in {"completing", "done"}

\* When MESSAGE_COMPLETED of a turn goes out, the last text of every part of
\* the turn has been posted and a post of it is over, even if the part was out
\* when the session went idle; and what is still out of the turn says nothing
\* else.  Such a copy may be stored behind the completion: the flush posts a
\* part again whose first post is out, and waits for its own post only.  It is
\* said of messages that came while no flush was under way.
CompletedTurnIsWhole ==
    \A p \in Parts :
        CompletedWith(p) /\ pace[Message[p]] = "calm"
            => <<p, version[p]>> \in settled /\ OutTexts(p) \subseteq {version[p]}

\* The posts of p that are out: <<0, v>> from an update, <<t, 0>> from a flush.
Posters(p) == {<<0, u[2]>> : u \in {w \in posting : w[1] = p}}
              \cup {<<t, 0>> : t \in {f \in Flushing : InFlight(f) = p}}

\* A part is not posted again once a post of it is over, however flushes and
\* updates overlap: a second copy exists only when both posts were out at once.
\* Again of messages that did not come during a flush.
NoLateCopy ==
    [][\A p \in Parts :
         /\ pace[Message[p]] = "calm"
         /\ ~(Posters(p)' \subseteq Posters(p))
         => \A v \in 1..MaxVersion : <<p, v>> \notin settled]_vars

\* An edit made by a running call is never attributed to another session,
\* whatever calls of other sessions are under way, thrown or forgotten.
FileToItsSession == \A f \in filed : f[1] = f[2]

=============================================================================
