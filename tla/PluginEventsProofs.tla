------------------------- MODULE PluginEventsProofs -------------------------
(***************************************************************************)
(* Safety of PluginEvents for any messages, parts, turns and tool calls.   *)
(***************************************************************************)
EXTENDS PluginEvents, WellFoundedInduction, FiniteSetTheorems, TLAPS

Entry == [part : Parts, text : Nat, live : BOOLEAN]
Flush == [at : {"no", "part", "completing", "done"}, map : Nat, pos : Nat, text : Nat]

TypeOK ==
    /\ turn \in Nat \ {0} /\ version \in [Parts -> Nat] /\ ended \subseteq Parts
    /\ pace \in [Messages -> {"unseen", "calm", "late", "rushed"}] /\ known \subseteq Messages
    /\ maps \in Seq(Seq(Entry)) /\ current \in DOMAIN maps \cup {0}
    /\ finalized \subseteq Parts /\ posting \subseteq Parts \X Nat /\ settled \subseteq Parts \X Nat
    /\ flush \in [1..Turns -> Flush]

\* A map has one place for a part, and only what has ended is deleted.
MapsSound ==
    \A k \in DOMAIN maps : \A i \in DOMAIN maps[k] :
        /\ version[maps[k][i].part] > 0
        /\ ~maps[k][i].live => maps[k][i].part \in ended
        /\ \A j \in DOMAIN maps[k] : maps[k][i].part = maps[k][j].part => i = j

FlushesSound ==
    /\ \A t \in 1..Turns : flush[t].at = "no" <=> t >= turn
    /\ \A t \in Flushing :
         flush[t].map \in DOMAIN maps /\ flush[t].pos \in DOMAIN maps[flush[t].map]

\* Only what has been updated is posted, and a post from an update is the last one.
PostsSound ==
    /\ \A p \in Parts : version[p] > 0 => Turn[Message[p]] <= turn
    /\ \A p \in finalized \cup ended : version[p] > 0
    /\ \A u \in settled : version[u[1]] > 0
    /\ \A u \in posting : u[1] \in ended /\ u[2] = version[u[1]]

\* Messages of later turns have not come.
Unannounced == \A m \in Messages : Turn[m] > turn => pace[m] = "unseen"

Begun(m) == pace[m] = "calm" \/ \E p \in Parts : Message[p] = m /\ version[p] > 0

\* While the turn of a message lasts that did not come during a flush, there is none.
OpenSound ==
    \A m \in Messages :
        Open(m) /\ pace[m] \in {"unseen", "calm"} =>
            /\ Begun(m) => Flushing = {}
            /\ pace[m] = "calm" => m \in known
            /\ \A p \in Parts : Message[p] = m =>
                 /\ p \in finalized => p \in ended
                 /\ \A v \in Nat : <<p, v>> \in settled => p \in finalized

\* What is known and has not been finalized has not been posted.
CalmUnposted ==
    \A p \in Parts :
        pace[Message[p]] = "calm" /\ Message[p] \in known /\ p \notin finalized
        => \A v \in Nat : <<p, v>> \notin settled

\* The last text of p is in the current map, ahead of every flush.
Pending(p) ==
    /\ current # 0 /\ p \notin finalized
    /\ pace[Message[p]] = "calm" => Message[p] \in known
    /\ \E i \in DOMAIN maps[current] :
         /\ maps[current][i] = [part |-> p, text |-> version[p], live |-> TRUE]
         /\ \A t \in Flushing :
              /\ flush[t].map = current /\ flush[t].pos <= i
              /\ flush[t].pos = i => flush[t].text = version[p]

Whole ==
    \A p \in Parts :
        /\ version[p] > 0
        /\ \/ pace[Message[p]] = "calm"
           \/ pace[Message[p]] = "unseen" /\ Open(Message[p])
        => <<p, version[p]>> \in settled \/ Pending(p)

\* The last text of every part of a completed turn is posted and that post over.
LastTextsOver ==
    \A t \in 1..Turns, p \in Parts :
        /\ flush[t].at \in {"completing", "done"}
        /\ Turn[Message[p]] = t /\ pace[Message[p]] = "calm" /\ version[p] > 0
        => <<p, version[p]>> \in settled

IInv ==
    /\ TypeOK /\ MapsSound /\ FlushesSound /\ PostsSound /\ Unannounced /\ OpenSound
    /\ CalmUnposted /\ Whole /\ LastTextsOver

CallsInv ==
    running \subseteq active /\ active \subseteq Calls /\ IsFiniteSet(active) /\ FileToItsSession

\* The step does not post p again that has been posted, unless it came during a flush.
NotAgain(p) ==
    pace[Message[p]] = "calm" /\ ~(Posters(p)' \subseteq Posters(p))
    => \A v \in 1..MaxVersion : <<p, v>> \notin settled

-----------------------------------------------------------------------------
(* JavaScript's Map, and minima. *)

LEMMA MinIsMember ==
    ASSUME NEW S \in SUBSET Nat, S # {}
    PROVE  Min(S) \in S /\ \A y \in S : Min(S) <= y
<1> DEFINE R == {ss \in Nat \X Nat : ss[1] < ss[2]}
<1>1. IsWellFoundedOn(R, Nat)
  BY NatLessThanWellFounded DEF OpToRel
<1> HIDE DEF R
<1>2. PICK x \in S : \A y \in S : ~ (<<y, x>> \in R)
  BY <1>1, WFMin
<1>3. ASSUME NEW y \in S PROVE x <= y
  <2>1. x \in Nat /\ y \in Nat /\ <<y, x>> \notin R
    BY <1>2
  <2>2. ~ (y < x)
    BY <2>1 DEF R
  <2> QED
    BY <2>1, <2>2
<1> QED
  BY <1>3 DEF Min

\* A part that is put has one place with the new text; the places of others stay.
LEMMA PutIs ==
    ASSUME NEW map \in Seq(Entry), NEW p \in Parts, NEW v \in Nat,
           \A i \in DOMAIN map : map[i].part = p => map[i].live
    PROVE  /\ Put(map, p, v) \in Seq(Entry) /\ DOMAIN map \subseteq DOMAIN Put(map, p, v)
           /\ \A i \in DOMAIN map :
                IF map[i].part = p THEN Put(map, p, v)[i] = [part |-> p, text |-> v, live |-> TRUE]
                ELSE Put(map, p, v)[i] = map[i]
           /\ \A i \in DOMAIN Put(map, p, v) : i \notin DOMAIN map =>
                /\ Put(map, p, v)[i] = [part |-> p, text |-> v, live |-> TRUE]
                /\ \A j \in DOMAIN Put(map, p, v) : Put(map, p, v)[j].part = p => j = i
           /\ \E i \in DOMAIN Put(map, p, v) :
                Put(map, p, v)[i] = [part |-> p, text |-> v, live |-> TRUE]
<1> DEFINE e == [part |-> p, text |-> v, live |-> TRUE]
           new == Put(map, p, v)
<1>1. e \in Entry /\ e.part = p
  BY DEF Entry
<1>2. \A i \in DOMAIN map : map[i] \in Entry
  OBVIOUS
<1>3. Place(map, p) = {i \in DOMAIN map : map[i].part = p}
  BY DEF Place
<1>4. CASE Place(map, p) = {}
  <2>1. new = Append(map, e)
    BY <1>4 DEF Put
  <2> HIDE DEF e
  <2>2. /\ new \in Seq(Entry) /\ Len(new) = Len(map) + 1 /\ Len(map) \in Nat
        /\ DOMAIN new = 1 .. Len(map) + 1 /\ DOMAIN map = 1 .. Len(map)
        /\ new[Len(map) + 1] = e /\ \A i \in DOMAIN map : new[i] = map[i]
    BY <1>1, <2>1
  <2>3. \A i \in DOMAIN map : map[i].part # p
    BY <1>3, <1>4
  <2> HIDE DEF new
  <2>4. \A i \in DOMAIN map : IF map[i].part = p THEN new[i] = e ELSE new[i] = map[i]
    BY <2>2, <2>3
  <2>5. ASSUME NEW i \in DOMAIN new, i \notin DOMAIN map
        PROVE  new[i] = e /\ \A j \in DOMAIN new : new[j].part = p => j = i
    <3>1. i = Len(map) + 1
      BY <2>2, <2>5
    <3>2. \A j \in DOMAIN new : j # i => j \in DOMAIN map
      BY <2>2, <3>1
    <3> QED
      BY <2>2, <2>3, <3>1, <3>2
  <2>6. \E i \in DOMAIN new : new[i] = e
    BY <2>2
  <2>7. new \in Seq(Entry) /\ DOMAIN map \subseteq DOMAIN new
    BY <2>2
  <2> QED
    BY <2>4, <2>5, <2>6, <2>7 DEF e, new
<1>5. CASE Place(map, p) # {}
  <2>1. new = [i \in DOMAIN map |-> IF i \in Place(map, p) THEN [map[i] EXCEPT !.text = v] ELSE map[i]]
    BY <1>5 DEF Put
  <2>2. ASSUME NEW i \in DOMAIN map
        PROVE  new[i] = IF map[i].part = p THEN e ELSE map[i]
    <3>1. CASE map[i].part = p
      BY <1>2, <1>3, <2>1, <3>1 DEF Entry
    <3>2. CASE map[i].part # p
      BY <1>3, <2>1, <3>2
    <3> QED
      BY <3>1, <3>2
  <2> HIDE DEF e
  <2>3. new \in [DOMAIN map -> Entry]
    BY <1>1, <1>2, <2>1, <2>2
  <2>4. PICK n \in Nat : DOMAIN map = 1 .. n
    OBVIOUS
  <2>5. new \in Seq(Entry) /\ DOMAIN new = DOMAIN map
    BY <2>3, <2>4
  <2>6. \E i \in DOMAIN map : map[i].part = p
    BY <1>3, <1>5
  <2> HIDE DEF new
  <2> QED
    BY <2>2, <2>5, <2>6 DEF e, new
<1> QED
  BY <1>4, <1>5

\* A part that is dropped keeps its place, without being live.
LEMMA DropIs ==
    ASSUME NEW map \in Seq(Entry), NEW p \in Parts
    PROVE  /\ Drop(map, p) \in Seq(Entry) /\ DOMAIN Drop(map, p) = DOMAIN map
           /\ \A i \in DOMAIN map :
                /\ Drop(map, p)[i].part = map[i].part /\ Drop(map, p)[i].text = map[i].text
                /\ IF map[i].part = p THEN ~Drop(map, p)[i].live ELSE Drop(map, p)[i] = map[i]
<1> DEFINE new == Drop(map, p)
<1>1. \A i \in DOMAIN map : map[i] \in Entry
  OBVIOUS
<1>2. new = [i \in DOMAIN map |-> IF i \in Place(map, p) THEN [map[i] EXCEPT !.live = FALSE] ELSE map[i]]
  BY DEF Drop
<1>3. ASSUME NEW i \in DOMAIN map
      PROVE  /\ new[i] \in Entry /\ new[i].part = map[i].part /\ new[i].text = map[i].text
             /\ IF map[i].part = p THEN ~new[i].live ELSE new[i] = map[i]
  <2>1. CASE i \in Place(map, p)
    <3>1. map[i] \in Entry /\ map[i].part = p /\ new[i] = [map[i] EXCEPT !.live = FALSE]
      BY <1>1, <1>2, <2>1 DEF Place
    <3> QED
      BY <3>1 DEF Entry
  <2>2. CASE i \notin Place(map, p)
    BY <1>1, <1>2, <2>2 DEF Place
  <2> QED
    BY <2>1, <2>2
<1>4. PICK n \in Nat : DOMAIN map = 1 .. n
  OBVIOUS
<1>5. new \in Seq(Entry) /\ DOMAIN new = DOMAIN map
  BY <1>2, <1>3, <1>4
<1> QED
  BY <1>3, <1>5

\* What rememberPart does to the maps.
LEMMA RememberIs ==
    ASSUME TypeOK, MapsSound, NEW p \in Parts \ ended, NEW v \in Nat, Remember(p, v)
    PROVE  LET e == [part |-> p, text |-> v, live |-> TRUE]
           IN  /\ maps' \in Seq(Seq(Entry)) /\ DOMAIN maps \subseteq DOMAIN maps'
               /\ current' \in DOMAIN maps' /\ current' # 0 /\ (current # 0 => current' = current)
               /\ current = 0 => current' \notin DOMAIN maps
               /\ \A k \in DOMAIN maps : \A i \in DOMAIN maps[k] :
                    /\ i \in DOMAIN maps'[k] /\ maps'[k][i].part = maps[k][i].part
                    /\ maps[k][i].part # p => maps'[k][i] = maps[k][i]
               /\ \A k \in DOMAIN maps' : \A i \in DOMAIN maps'[k] :
                    \/ /\ k \in DOMAIN maps /\ i \in DOMAIN maps[k]
                       /\ maps'[k][i] = maps[k][i] \/ maps'[k][i] = e
                    \/ maps'[k][i] = e /\ \A j \in DOMAIN maps'[k] : maps'[k][j].part = p => j = i
               /\ \E i \in DOMAIN maps'[current'] : maps'[current'][i] = e
<1> DEFINE e == [part |-> p, text |-> v, live |-> TRUE]
<1>1. /\ maps \in Seq(Seq(Entry)) /\ Len(maps) \in Nat /\ DOMAIN maps = 1 .. Len(maps)
      /\ current \in DOMAIN maps \cup {0} /\ e.part = p
  BY DEF TypeOK
<1>2. CASE current = 0
  <2>1. maps' = Append(maps, Put(<<>>, p, v)) /\ current' = Len(maps) + 1
    BY <1>2 DEF Remember
  <2> DEFINE new == Put(<<>>, p, v)
  <2>2. /\ new \in Seq(Entry)
        /\ \A i \in DOMAIN new : new[i] = e /\ \A j \in DOMAIN new : new[j].part = p => j = i
        /\ \E i \in DOMAIN new : new[i] = e
    <3>1. <<>> \in Seq(Entry) /\ DOMAIN <<>> = {}
      OBVIOUS
    <3> QED
      BY <3>1, PutIs
  <2> HIDE DEF new, e
  <2>3. /\ maps' \in Seq(Seq(Entry)) /\ DOMAIN maps' = DOMAIN maps \cup {current'}
        /\ current' \notin DOMAIN maps /\ current' # 0 /\ maps'[current'] = new
        /\ \A k \in DOMAIN maps : maps'[k] = maps[k]
    BY <1>1, <2>1, <2>2 DEF new
  <2> QED
    BY <1>2, <2>2, <2>3 DEF e
<1>3. CASE current # 0
  <2>1. maps' = [maps EXCEPT ![current] = Put(maps[current], p, v)] /\ current' = current
    BY <1>3 DEF Remember
  <2> DEFINE old == maps[current]
             new == Put(maps[current], p, v)
  <2>2. \A i \in DOMAIN old : old[i].part = p => old[i].live
    BY <1>1, <1>3 DEF MapsSound
  <2>3. old \in Seq(Entry) /\ current \in DOMAIN maps
    BY <1>1, <1>3
  <2>4. /\ new \in Seq(Entry) /\ DOMAIN old \subseteq DOMAIN new
        /\ \A i \in DOMAIN old : IF old[i].part = p THEN new[i] = e ELSE new[i] = old[i]
        /\ \A i \in DOMAIN new : i \notin DOMAIN old =>
             new[i] = e /\ \A j \in DOMAIN new : new[j].part = p => j = i
        /\ \E i \in DOMAIN new : new[i] = e
    BY <2>2, <2>3, PutIs
  <2> HIDE DEF new, e
  <2>5. /\ maps' \in Seq(Seq(Entry)) /\ DOMAIN maps' = DOMAIN maps /\ maps'[current] = new
        /\ \A k \in DOMAIN maps \ {current} : maps'[k] = maps[k]
    BY <1>1, <2>1, <2>3, <2>4 DEF new
  <2>6. ASSUME NEW k \in DOMAIN maps, NEW i \in DOMAIN maps[k]
        PROVE  /\ i \in DOMAIN maps'[k] /\ maps'[k][i].part = maps[k][i].part
               /\ maps[k][i].part # p => maps'[k][i] = maps[k][i]
    <3>1. CASE k = current
      BY <1>1, <2>4, <2>5, <3>1
    <3>2. CASE k # current
      BY <2>5, <3>2
    <3> QED
      BY <3>1, <3>2
  <2>7. ASSUME NEW k \in DOMAIN maps', NEW i \in DOMAIN maps'[k]
        PROVE  \/ /\ k \in DOMAIN maps /\ i \in DOMAIN maps[k]
                  /\ maps'[k][i] = maps[k][i] \/ maps'[k][i] = e
               \/ maps'[k][i] = e /\ \A j \in DOMAIN maps'[k] : maps'[k][j].part = p => j = i
    <3>1. CASE k = current
      BY <2>3, <2>4, <2>5, <3>1
    <3>2. CASE k # current
      BY <2>5, <3>2
    <3> QED
      BY <3>1, <3>2
  <2>8. current' # 0 /\ current' \in DOMAIN maps' /\ \E i \in DOMAIN maps'[current'] : maps'[current'][i] = e
    BY <1>3, <2>1, <2>3, <2>4, <2>5
  <2> QED
    BY <2>1, <2>5, <2>6, <2>7, <2>8 DEF e
<1> QED
  BY <1>2, <1>3

\* What the end of a post does to the current map.
LEMMA ForgetIs ==
    ASSUME TypeOK, NEW p \in Parts,
           maps' = IF current = 0 THEN maps ELSE [maps EXCEPT ![current] = Drop(@, p)]
    PROVE  /\ maps' \in Seq(Seq(Entry)) /\ DOMAIN maps' = DOMAIN maps
           /\ \A k \in DOMAIN maps :
                /\ DOMAIN maps'[k] = DOMAIN maps[k]
                /\ \A i \in DOMAIN maps[k] :
                     /\ maps'[k][i].part = maps[k][i].part /\ maps'[k][i].text = maps[k][i].text
                     /\ maps[k][i].part # p => maps'[k][i] = maps[k][i]
                     /\ k = current /\ maps[k][i].part = p => ~maps'[k][i].live
                     /\ k # current => maps'[k][i] = maps[k][i]
<1>1. maps \in Seq(Seq(Entry)) /\ current \in DOMAIN maps \cup {0}
  BY DEF TypeOK
<1>2. CASE current = 0
  BY <1>1, <1>2
<1>3. CASE current # 0
  <2> DEFINE old == maps[current]
             new == Drop(old, p)
  <2>1. /\ new \in Seq(Entry) /\ DOMAIN new = DOMAIN old
        /\ \A i \in DOMAIN old :
             /\ new[i].part = old[i].part /\ new[i].text = old[i].text
             /\ IF old[i].part = p THEN ~new[i].live ELSE new[i] = old[i]
    BY <1>1, <1>3, DropIs
  <2> HIDE DEF new
  <2>2. /\ maps' \in Seq(Seq(Entry)) /\ DOMAIN maps' = DOMAIN maps /\ maps'[current] = new
        /\ \A k \in DOMAIN maps \ {current} : maps'[k] = maps[k]
    BY <1>1, <1>3, <2>1 DEF new
  <2> QED
    BY <1>1, <1>3, <2>1, <2>2
<1> QED
  BY <1>2, <1>3

-----------------------------------------------------------------------------
(* The hooks, step by step. *)

LEMMA TurnsAre ==
    \A p \in Parts : Message[p] \in Messages /\ Turn[Message[p]] \in 1..Turns
BY PluginAssumption

LEMMA InitStep == Init => IInv
<1> SUFFICES ASSUME Init PROVE IInv
  OBVIOUS
<1>1. Turns \in Nat /\ NoFlush \in Flush /\ NoFlush.at = "no"
  BY PluginAssumption DEF NoFlush, Flush
<1>2. Flushing = {} /\ \A t \in 1..Turns : flush[t] = NoFlush
  BY <1>1 DEF Init, Flushing
<1>3. TypeOK
  BY <1>1 DEF Init, TypeOK
<1>4. MapsSound /\ FlushesSound /\ PostsSound /\ Unannounced
  BY <1>1, <1>2 DEF Init, MapsSound, FlushesSound, PostsSound, Unannounced
<1>5. OpenSound /\ CalmUnposted /\ Whole /\ LastTextsOver
  BY <1>1, <1>2 DEF Init, OpenSound, CalmUnposted, Whole, LastTextsOver
<1> QED
  BY <1>3, <1>4, <1>5 DEF IInv

\* An open turn is not flushed yet.
LEMMA OpenIsUnflushed ==
    ASSUME FlushesSound, NEW p \in Parts, Open(Message[p])
    PROVE  flush[turn].at = "no"
BY TurnsAre DEF FlushesSound, Open, TypeOK

LEMMA AnnounceStep ==
    ASSUME IInv, NEW m \in Messages, Announce(m)
    PROVE  IInv'
<1>1. /\ Open(m) /\ known' = known \cup {m}
      /\ pace' = [pace EXCEPT ![m] = IF @ # "unseen" THEN @
                                       ELSE IF Flushing = {} THEN "calm" ELSE "late"]
      /\ UNCHANGED <<turn, version, ended, maps, current, finalized, posting, flush, settled>>
  BY DEF Announce
<1>2. TypeOK' /\ MapsSound' /\ FlushesSound' /\ PostsSound' /\ Flushing' = Flushing
  BY <1>1 DEF IInv, TypeOK, MapsSound, FlushesSound, PostsSound, Flushing
<1>3. \A q \in Messages :
        \/ pace'[q] = pace[q]
        \/ q = m /\ pace[q] = "unseen" /\ pace'[q] = "calm" /\ Flushing = {}
        \/ q = m /\ pace'[q] = "late"
  BY <1>1 DEF IInv, TypeOK
<1>4. \A q \in Messages : Open(q)' <=> Open(q)
  BY <1>1 DEF Open
<1>9. Unannounced'
  <2>1. ~ (Turn[m] > turn)
    BY <1>1, PluginAssumption DEF Open
  <2> QED
    BY <1>1, <1>3, <2>1 DEF IInv, Unannounced
<1>5. OpenSound'
  <2> SUFFICES ASSUME NEW q \in Messages, Open(q), pace'[q] \in {"unseen", "calm"}
               PROVE  /\ Begun(q)' => Flushing' = {}
                      /\ pace'[q] = "calm" => q \in known'
                      /\ \A p \in Parts : Message[p] = q =>
                           /\ p \in finalized' => p \in ended'
                           /\ \A v \in Nat : <<p, v>> \in settled' => p \in finalized'
    BY <1>4 DEF OpenSound
  <2>1. CASE pace'[q] = pace[q]
    <3>1. Begun(q)' <=> Begun(q)
      BY <1>1, <2>1 DEF Begun
    <3> QED
      BY <1>1, <1>2, <2>1, <3>1 DEF IInv, OpenSound
  <2>2. CASE q = m /\ pace[q] = "unseen" /\ Flushing = {}
    BY <1>1, <1>2, <2>2 DEF IInv, OpenSound
  <2> QED
    BY <1>3, <2>1, <2>2
<1>6. CalmUnposted'
  <2> SUFFICES ASSUME NEW p \in Parts, pace'[Message[p]] = "calm", p \notin finalized,
                      Message[p] \in known', NEW v \in Nat
               PROVE  <<p, v>> \notin settled
    BY <1>1 DEF CalmUnposted
  <2>1. CASE Message[p] = m
    <3>1. Open(Message[p]) /\ pace[Message[p]] \in {"unseen", "calm"}
      BY <1>1, <1>3, <2>1
    <3> QED
      BY <2>1, <3>1 DEF IInv, OpenSound
  <2>2. CASE Message[p] # m
    BY <1>1, <1>3, <2>2, TurnsAre DEF IInv, CalmUnposted
  <2> QED
    BY <2>1, <2>2
<1>7. Whole'
  <2> SUFFICES ASSUME NEW p \in Parts, version[p] > 0,
                      \/ pace'[Message[p]] = "calm"
                      \/ pace'[Message[p]] = "unseen" /\ Open(Message[p])
               PROVE  <<p, version[p]>> \in settled \/ Pending(p)'
    BY <1>1, <1>4, TurnsAre DEF Whole
  <2>1. <<p, version[p]>> \in settled \/ Pending(p)
    BY <1>1, <1>3, TurnsAre DEF IInv, Whole
  <2>2. pace'[Message[p]] = "calm" =>
          Message[p] = m \/ pace[Message[p]] = "calm"
    BY <1>3, TurnsAre
  <2>3. Pending(p) => Pending(p)'
    BY <1>1, <1>2, <2>2 DEF Pending
  <2> QED
    BY <2>1, <2>3
<1>8. LastTextsOver'
  <2> SUFFICES ASSUME NEW t \in 1..Turns, NEW p \in Parts, flush[t].at \in {"completing", "done"},
                      Turn[Message[p]] = t, pace'[Message[p]] = "calm", version[p] > 0
               PROVE  <<p, version[p]>> \in settled
    BY <1>1 DEF LastTextsOver
  <2>1. ~Open(Message[p])
    BY OpenIsUnflushed DEF IInv, Open
  <2>2. pace[Message[p]] = "calm"
    BY <1>1, <1>3, <2>1, TurnsAre
  <2> QED
    BY <2>2 DEF IInv, LastTextsOver
<1> QED
  BY <1>2, <1>5, <1>6, <1>7, <1>8, <1>9 DEF IInv

LEMMA UpdatePartStep ==
    ASSUME IInv, NEW p \in Parts, NEW end \in BOOLEAN, UpdatePart(p, end)
    PROVE  IInv'
<1> DEFINE v == version[p] + 1
           m == Message[p]
           e == [part |-> p, text |-> v, live |-> TRUE]
<1>1. /\ Open(m) /\ p \notin ended /\ version' = [version EXCEPT ![p] = v]
      /\ ended' = IF end THEN ended \cup {p} ELSE ended
      /\ pace' = [pace EXCEPT ![m] = IF Flushing = {} \/ @ = "late" THEN @ ELSE "rushed"]
      /\ Remember(p, v)
      /\ posting' = IF end /\ m \in known /\ Unfinalized(p, finalized)
                    THEN posting \cup {<<p, v>>} ELSE posting
      /\ UNCHANGED <<turn, known, finalized, flush, settled>>
  BY DEF UpdatePart
<1>2. /\ version \in [Parts -> Nat] /\ version[p] \in Nat /\ v \in Nat /\ v > 0 /\ m \in Messages
      /\ TypeOK /\ MapsSound /\ FlushesSound /\ PostsSound /\ OpenSound /\ CalmUnposted /\ Whole
      /\ Turn[m] = turn
  BY <1>1, TurnsAre DEF IInv, TypeOK, Open
<1>3. /\ maps' \in Seq(Seq(Entry)) /\ DOMAIN maps \subseteq DOMAIN maps'
      /\ current' \in DOMAIN maps' /\ current' # 0 /\ (current # 0 => current' = current)
      /\ \A k \in DOMAIN maps : \A i \in DOMAIN maps[k] :
           /\ i \in DOMAIN maps'[k] /\ maps'[k][i].part = maps[k][i].part
           /\ maps[k][i].part # p => maps'[k][i] = maps[k][i]
      /\ \A k \in DOMAIN maps' : \A i \in DOMAIN maps'[k] :
           \/ /\ k \in DOMAIN maps /\ i \in DOMAIN maps[k]
              /\ maps'[k][i] = maps[k][i] \/ maps'[k][i] = e
           \/ maps'[k][i] = e /\ \A j \in DOMAIN maps'[k] : maps'[k][j].part = p => j = i
      /\ \E i \in DOMAIN maps'[current'] : maps'[current'][i] = e
  BY <1>1, <1>2, RememberIs
<1>4. e.part = p /\ e.text = v /\ e.live
  OBVIOUS
<1>5. /\ version' \in [Parts -> Nat] /\ version'[p] = v
      /\ \A q \in Parts \ {p} : version'[q] = version[q]
      /\ \A q \in Parts : version[q] > 0 => version'[q] > 0
      /\ \A q \in Parts : version'[q] > 0 => q = p \/ version[q] > 0
  BY <1>1, <1>2
<1>6. /\ \A n \in Messages \ {m} : pace'[n] = pace[n]
      /\ pace'[m] \in {"unseen", "calm"} => pace'[m] = pace[m] /\ Flushing = {}
      /\ Flushing' = Flushing
  BY <1>1, <1>2 DEF TypeOK, Flushing
<1> HIDE DEF e, v
<1>7. TypeOK'
  BY <1>1, <1>2, <1>3, <1>5 DEF TypeOK
<1>8. MapsSound'
  <2> SUFFICES ASSUME NEW k \in DOMAIN maps', NEW i \in DOMAIN maps'[k]
               PROVE  /\ version'[maps'[k][i].part] > 0
                      /\ ~maps'[k][i].live => maps'[k][i].part \in ended'
                      /\ \A j \in DOMAIN maps'[k] : maps'[k][i].part = maps'[k][j].part => i = j
    BY DEF MapsSound
  <2>1. CASE maps'[k][i] = e /\ \A j \in DOMAIN maps'[k] : maps'[k][j].part = p => j = i
    BY <1>2, <1>4, <1>5, <2>1
  <2>2. CASE k \in DOMAIN maps /\ i \in DOMAIN maps[k] /\ (maps'[k][i] = maps[k][i] \/ maps'[k][i] = e)
    <3>1. /\ version[maps[k][i].part] > 0 /\ maps'[k][i].part = maps[k][i].part
          /\ ~maps[k][i].live => maps[k][i].part \in ended
          /\ maps[k][i].part \in Parts
      <4>1. maps[k] \in Seq(Entry)
        BY <1>2, <2>2 DEF TypeOK
      <4>2. maps[k][i] \in Entry
        BY <2>2, <4>1
      <4> QED
        BY <1>2, <1>3, <2>2, <4>2 DEF MapsSound, Entry
    <3>2. ~maps'[k][i].live => maps'[k][i].part \in ended'
      BY <1>1, <1>4, <2>2, <3>1
    <3>3. ASSUME NEW j \in DOMAIN maps'[k], maps'[k][i].part = maps'[k][j].part
          PROVE  i = j
      <4>1. CASE j \in DOMAIN maps[k]
        BY <1>2, <1>3, <2>2, <3>3, <4>1 DEF MapsSound
      <4>2. CASE j \notin DOMAIN maps[k]
        BY <1>3, <1>4, <3>3, <4>2
      <4> QED
        BY <4>1, <4>2
    <3> QED
      BY <1>5, <3>1, <3>2, <3>3
  <2> QED
    BY <1>3, <2>1, <2>2
<1>9. FlushesSound'
  BY <1>1, <1>2, <1>3, <1>6 DEF FlushesSound
<1>10. PostsSound'
  <2>1. \A u \in settled : u[1] \in Parts
    BY <1>2 DEF TypeOK
  <2>2. \A u \in posting : u[1] # p
    BY <1>1, <1>2 DEF PostsSound
  <2>3. \A u \in posting : u[1] \in Parts
    BY <1>2 DEF TypeOK
  <2>4. \A u \in posting' : u[1] \in ended' /\ u[2] = version'[u[1]]
    BY <1>1, <1>2, <1>5, <2>2, <2>3 DEF PostsSound
  <2>5. \A q \in Parts : version'[q] > 0 => Turn[Message[q]] <= turn'
    BY <1>1, <1>2, <1>5 DEF PostsSound, TypeOK
  <2>6. \A q \in finalized' \cup ended' : version'[q] > 0
    BY <1>1, <1>2, <1>5 DEF PostsSound, TypeOK
  <2> QED
    BY <1>1, <1>2, <1>5, <2>1, <2>4, <2>5, <2>6 DEF PostsSound
<1>11. OpenSound'
  <2> SUFFICES ASSUME NEW n \in Messages, Open(n), pace'[n] \in {"unseen", "calm"}
               PROVE  /\ Begun(n)' => Flushing' = {}
                      /\ pace'[n] = "calm" => n \in known'
                      /\ \A q \in Parts : Message[q] = n =>
                           /\ q \in finalized' => q \in ended'
                           /\ \A w \in Nat : <<q, w>> \in settled' => q \in finalized'
    BY <1>1 DEF OpenSound, Open
  <2>1. pace'[n] = pace[n] /\ (n = m => Flushing = {})
    BY <1>6
  <2>2. Begun(n)' => n = m \/ Begun(n)
    BY <1>5, <2>1 DEF Begun
  <2> QED
    BY <1>1, <1>2, <1>6, <2>1, <2>2 DEF OpenSound
<1>12. CalmUnposted'
  BY <1>1, <1>2, <1>6, TurnsAre DEF CalmUnposted
<1>13. Whole'
  <2> SUFFICES ASSUME NEW q \in Parts, version'[q] > 0,
                      \/ pace'[Message[q]] = "calm"
                      \/ pace'[Message[q]] = "unseen" /\ Open(Message[q])
               PROVE  <<q, version'[q]>> \in settled \/ Pending(q)'
    BY <1>1 DEF Whole, Open
  <2>1. pace'[Message[q]] = pace[Message[q]] /\ (Message[q] = m => Flushing = {})
    BY <1>6, TurnsAre
  <2>2. CASE q = p
    <3>1. Flushing' = {} /\ version'[q] = v
      BY <1>5, <1>6, <2>1, <2>2
    <3>2. p \notin finalized /\ (pace[m] = "calm" => m \in known)
      BY <1>1, <1>2, <2>1, <2>2 DEF OpenSound
    <3> QED
      BY <1>1, <1>3, <2>1, <2>2, <3>1, <3>2 DEF Pending, e
  <2>3. CASE q # p
    <3>1. <<q, version[q]>> \in settled \/ Pending(q)
      BY <1>2, <1>5, <2>1, <2>3 DEF Whole
    <3>2. ASSUME Pending(q) PROVE Pending(q)'
      <4>1. PICK i \in DOMAIN maps[current] :
              /\ maps[current][i] = [part |-> q, text |-> version[q], live |-> TRUE]
              /\ \A t \in Flushing :
                   /\ flush[t].map = current /\ flush[t].pos <= i
                   /\ flush[t].pos = i => flush[t].text = version[q]
        BY <3>2 DEF Pending
      <4>2. current # 0 /\ current \in DOMAIN maps /\ current' = current
        BY <1>2, <1>3, <3>2 DEF Pending, TypeOK
      <4>3. maps[current][i].part = q
        BY <4>1
      <4>4. i \in DOMAIN maps'[current] /\ maps'[current][i] = maps[current][i]
        BY <1>3, <2>3, <4>2, <4>3
      <4>5. version'[q] = version[q]
        BY <1>5, <2>3
      <4>6. i \in DOMAIN maps'[current']
            /\ maps'[current'][i] = [part |-> q, text |-> version'[q], live |-> TRUE]
        BY <4>1, <4>2, <4>4, <4>5
      <4>7. \A t \in Flushing' :
              /\ flush'[t].map = current' /\ flush'[t].pos <= i
              /\ flush'[t].pos = i => flush'[t].text = version'[q]
        BY <1>1, <1>6, <4>1, <4>2, <4>5
      <4>8. current' # 0 /\ q \notin finalized'
            /\ (pace'[Message[q]] = "calm" => Message[q] \in known')
        BY <1>1, <2>1, <3>2, <4>2 DEF Pending
      <4> QED
        BY <4>6, <4>7, <4>8 DEF Pending
    <3> QED
      BY <1>5, <2>3, <3>1, <3>2
  <2> QED
    BY <2>2, <2>3
<1>14. LastTextsOver'
  <2> SUFFICES ASSUME NEW t \in 1..Turns, NEW q \in Parts, flush[t].at \in {"completing", "done"},
                      Turn[Message[q]] = t, pace'[Message[q]] = "calm", version'[q] > 0
               PROVE  <<q, version'[q]>> \in settled
    BY <1>1 DEF LastTextsOver
  <2>1. ~Open(Message[q])
    BY <1>2, OpenIsUnflushed DEF Open
  <2>2. q # p /\ Message[q] # m
    BY <1>1, <2>1
  <2> QED
    BY <1>5, <1>6, <2>2, TurnsAre DEF IInv, LastTextsOver
<1>15. Unannounced'
  <2>1. ~ (Turn[m] > turn)
    BY <1>2, PluginAssumption
  <2> QED
    BY <1>1, <1>6, <2>1 DEF IInv, Unannounced
<1> QED
  BY <1>7, <1>8, <1>9, <1>10, <1>11, <1>12, <1>13, <1>14, <1>15 DEF IInv

\* Nothing happens to the last text of q while its map, its message and the flushes stay.
LEMMA StaysPending ==
    ASSUME NEW q, Pending(q), UNCHANGED <<current, known>>, q \notin finalized',
           version'[q] = version[q], pace'[Message[q]] = pace[Message[q]],
           Flushing' \subseteq Flushing, \A t \in Flushing' : flush'[t] = flush[t],
           \A i \in DOMAIN maps[current] :
             maps[current][i].part = q => i \in DOMAIN maps'[current] /\ maps'[current][i] = maps[current][i]
    PROVE  Pending(q)'
<1>1. PICK i \in DOMAIN maps[current] :
        /\ maps[current][i] = [part |-> q, text |-> version[q], live |-> TRUE]
        /\ \A t \in Flushing :
             /\ flush[t].map = current /\ flush[t].pos <= i
             /\ flush[t].pos = i => flush[t].text = version[q]
  BY DEF Pending
<1>2. i \in DOMAIN maps'[current] /\ maps'[current][i] = maps[current][i]
  BY <1>1
<1>3. /\ i \in DOMAIN maps'[current']
      /\ maps'[current'][i] = [part |-> q, text |-> version'[q], live |-> TRUE]
  BY <1>1, <1>2
<1>4. \A t \in Flushing' :
        /\ flush'[t].map = current' /\ flush'[t].pos <= i
        /\ flush'[t].pos = i => flush'[t].text = version'[q]
  BY <1>1
<1>5. /\ current' # 0 /\ q \notin finalized'
      /\ pace'[Message[q]] = "calm" => Message[q] \in known'
  BY DEF Pending
<1> QED
  BY <1>3, <1>4, <1>5 DEF Pending

LEMMA PartPostedStep ==
    ASSUME IInv, NEW u \in posting, PartPosted(u[1], u[2])
    PROVE  IInv'
<1> DEFINE p == u[1]
<1>1. /\ posting' = posting \ {<<p, u[2]>>} /\ settled' = settled \cup {<<p, u[2]>>}
      /\ finalized' = finalized \cup {p}
      /\ maps' = IF current = 0 THEN maps ELSE [maps EXCEPT ![current] = Drop(@, p)]
      /\ UNCHANGED <<turn, version, ended, pace, known, current, flush>>
  BY DEF PartPosted, conversation
<1>2. /\ TypeOK /\ MapsSound /\ FlushesSound /\ PostsSound /\ OpenSound /\ CalmUnposted /\ Whole
      /\ p \in Parts /\ p \in ended /\ u[2] = version[p] /\ u[2] \in Nat
  BY DEF IInv, TypeOK, PostsSound
<1> HIDE DEF p
<1>3. /\ maps' \in Seq(Seq(Entry)) /\ DOMAIN maps' = DOMAIN maps
      /\ \A k \in DOMAIN maps :
           /\ DOMAIN maps'[k] = DOMAIN maps[k]
           /\ \A i \in DOMAIN maps[k] :
                /\ maps'[k][i].part = maps[k][i].part
                /\ maps[k][i].part # p => maps'[k][i] = maps[k][i]
                /\ k = current /\ maps[k][i].part = p => ~maps'[k][i].live
                /\ k # current => maps'[k][i] = maps[k][i]
  BY <1>1, <1>2, ForgetIs
<1>4. TypeOK'
  BY <1>1, <1>2, <1>3 DEF TypeOK
<1>5. Flushing' = Flushing /\ \A n \in Messages : Open(n)' <=> Open(n)
  BY <1>1 DEF Flushing, Open
<1>6. MapsSound'
  <2> SUFFICES ASSUME NEW k \in DOMAIN maps, NEW i \in DOMAIN maps[k]
               PROVE  /\ version[maps'[k][i].part] > 0
                      /\ ~maps'[k][i].live => maps'[k][i].part \in ended
                      /\ \A j \in DOMAIN maps[k] : maps'[k][i].part = maps'[k][j].part => i = j
    BY <1>1, <1>3 DEF MapsSound
  <2>1. ~maps'[k][i].live => maps'[k][i].part \in ended
    <3>1. CASE maps[k][i].part = p
      BY <1>2, <1>3, <3>1
    <3>2. CASE maps[k][i].part # p
      BY <1>2, <1>3, <3>2 DEF MapsSound
    <3> QED
      BY <3>1, <3>2
  <2> QED
    BY <1>2, <1>3, <2>1 DEF MapsSound
<1>7. FlushesSound' /\ PostsSound'
  BY <1>1, <1>2, <1>3, <1>5 DEF FlushesSound, PostsSound
<1>8. OpenSound'
  <2>1. \A n \in Messages : Begun(n)' <=> Begun(n)
    BY <1>1 DEF Begun
  <2> QED
    BY <1>1, <1>2, <1>5, <2>1 DEF OpenSound
<1>9. CalmUnposted'
  BY <1>1, <1>2 DEF CalmUnposted
<1>10. Whole'
  <2> SUFFICES ASSUME NEW q \in Parts, version[q] > 0,
                      \/ pace[Message[q]] = "calm"
                      \/ pace[Message[q]] = "unseen" /\ Open(Message[q])
               PROVE  <<q, version[q]>> \in settled' \/ Pending(q)'
    BY <1>1, <1>5, TurnsAre DEF Whole
  <2>1. CASE q = p
    BY <1>1, <1>2, <2>1
  <2>2. CASE q # p
    <3>1. <<q, version[q]>> \in settled \/ Pending(q)
      BY <1>2 DEF Whole
    <3>2. ASSUME Pending(q) PROVE Pending(q)'
      <4>1. current \in DOMAIN maps
        BY <1>2, <3>2 DEF Pending, TypeOK
      <4>2. q \notin finalized'
        BY <1>1, <2>2, <3>2 DEF Pending
      <4> QED
        BY <1>1, <1>3, <1>5, <2>2, <3>2, <4>1, <4>2, StaysPending
    <3> QED
      BY <1>1, <3>1, <3>2
  <2> QED
    BY <2>1, <2>2
<1>11. LastTextsOver'
  BY <1>1 DEF IInv, LastTextsOver
<1>12. Unannounced'
  BY <1>1 DEF IInv, Unannounced
<1> QED
  BY <1>4, <1>6, <1>7, <1>8, <1>9, <1>10, <1>11, <1>12 DEF IInv

\* A flush that goes on posts the next part, or ends and forgets the session.
LEMMA GoOnIs ==
    ASSUME TypeOK, NEW t \in 1..Turns, NEW k \in DOMAIN maps, NEW pos \in Nat, NEW done \in SUBSET Parts,
           GoOn(t, k, pos, done)
    PROVE  \/ /\ ToPost(maps[k], pos, done) = {} /\ finalized' = {} /\ known' = {} /\ current' = 0
              /\ flush' = [flush EXCEPT ![t] = [NoFlush EXCEPT !.at = "completing"]]
              /\ flush' \in [1..Turns -> Flush] /\ flush'[t].at = "completing"
              /\ Flushing' = Flushing \ {t}
              /\ \A s \in 1..Turns \ {t} : flush'[s] = flush[s]
           \/ /\ finalized' = done /\ UNCHANGED <<known, current>>
              /\ flush' \in [1..Turns -> Flush] /\ flush'[t].at = "part" /\ flush'[t].map = k
              /\ LET i == flush'[t].pos
                 IN  /\ i \in ToPost(maps[k], pos, done) /\ flush'[t].text = maps[k][i].text
                     /\ \A j \in ToPost(maps[k], pos, done) : i <= j
              /\ Flushing' = Flushing \cup {t}
              /\ \A s \in 1..Turns \ {t} : flush'[s] = flush[s]
<1> DEFINE next == ToPost(maps[k], pos, done)
           i == Min(next)
<1>1. maps[k] \in Seq(Entry) /\ k \in Nat /\ flush \in [1..Turns -> Flush]
  BY DEF TypeOK
<1>2. next \in SUBSET Nat /\ next \subseteq DOMAIN maps[k]
  BY <1>1 DEF ToPost
<1>3. CASE next = {}
  <2>1. /\ flush' = [flush EXCEPT ![t] = [NoFlush EXCEPT !.at = "completing"]]
        /\ finalized' = {} /\ known' = {} /\ current' = 0
    BY <1>3 DEF GoOn
  <2>2. [NoFlush EXCEPT !.at = "completing"] \in Flush
        /\ [NoFlush EXCEPT !.at = "completing"].at = "completing"
    BY DEF NoFlush, Flush
  <2>3. /\ flush' \in [1..Turns -> Flush] /\ flush'[t].at = "completing"
        /\ \A s \in 1..Turns \ {t} : flush'[s] = flush[s]
    BY <1>1, <2>1, <2>2
  <2>4. Flushing' = Flushing \ {t}
    BY <2>3 DEF Flushing
  <2> QED
    BY <1>3, <2>1, <2>3, <2>4
<1>4. CASE next # {}
  <2>1. i \in next /\ \A j \in next : i <= j
    BY <1>2, <1>4, MinIsMember
  <2>2. /\ flush' = [flush EXCEPT ![t] = [at |-> "part", map |-> k, pos |-> i, text |-> maps[k][i].text]]
        /\ finalized' = done /\ UNCHANGED <<known, current>>
    BY <1>4 DEF GoOn
  <2> HIDE DEF i
  <2>3. maps[k][i] \in Entry /\ i \in Nat
    BY <1>1, <1>2, <2>1
  <2>4. [at |-> "part", map |-> k, pos |-> i, text |-> maps[k][i].text] \in Flush
    BY <1>1, <2>3 DEF Flush, Entry
  <2>5. /\ flush' \in [1..Turns -> Flush]
        /\ flush'[t] = [at |-> "part", map |-> k, pos |-> i, text |-> maps[k][i].text]
        /\ \A s \in 1..Turns \ {t} : flush'[s] = flush[s]
    BY <1>1, <2>2, <2>4
  <2>6. /\ flush'[t].at = "part" /\ flush'[t].map = k /\ flush'[t].pos = i
        /\ flush'[t].text = maps[k][i].text
    BY <2>5
  <2>7. Flushing' = Flushing \cup {t}
    BY <2>5, <2>6 DEF Flushing
  <2> QED
    BY <2>1, <2>2, <2>5, <2>6, <2>7
<1> QED
  BY <1>3, <1>4

\* What a flush has ahead of it stays ahead of it.
LEMMA GoOnKeeps ==
    ASSUME TypeOK, MapsSound, NEW t \in 1..Turns, current # 0, NEW pos \in Nat, NEW done \in SUBSET Parts,
           GoOn(t, current, pos, done), UNCHANGED <<maps, version, pace>>,
           NEW q \in Parts, pace[Message[q]] = "calm", Pending(q), q \notin done,
           \A i \in DOMAIN maps[current] : maps[current][i].part = q => pos < i
    PROVE  Pending(q)' /\ flush'[t].at = "part"
<1>1. PICK i \in DOMAIN maps[current] :
        /\ maps[current][i] = [part |-> q, text |-> version[q], live |-> TRUE]
        /\ \A s \in Flushing :
             /\ flush[s].map = current /\ flush[s].pos <= i
             /\ flush[s].pos = i => flush[s].text = version[q]
  BY DEF Pending
<1>2. current \in DOMAIN maps
  BY DEF TypeOK
<1>3. maps[current][i].part = q /\ maps[current][i].live /\ maps[current][i].text = version[q]
  BY <1>1
<1>4. i \in ToPost(maps[current], pos, done)
  BY <1>3 DEF ToPost, Unfinalized, Pending
<1>5. /\ finalized' = done /\ UNCHANGED <<known, current>>
      /\ flush'[t].at = "part" /\ flush'[t].map = current
      /\ flush'[t].text = maps[current][flush'[t].pos].text /\ flush'[t].pos <= i
      /\ Flushing' = Flushing \cup {t}
      /\ \A s \in 1..Turns \ {t} : flush'[s] = flush[s]
  BY <1>2, <1>4, GoOnIs
<1>6. ASSUME NEW s \in Flushing'
      PROVE  /\ flush'[s].map = current' /\ flush'[s].pos <= i
             /\ flush'[s].pos = i => flush'[s].text = version'[q]
  <2>1. CASE s = t
    BY <1>3, <1>5, <2>1
  <2>2. CASE s # t
    BY <1>1, <1>5, <2>2 DEF Flushing
  <2> QED
    BY <2>1, <2>2
<1>7. i \in DOMAIN maps'[current']
      /\ maps'[current'][i] = [part |-> q, text |-> version'[q], live |-> TRUE]
  BY <1>1, <1>5
<1>8. current' # 0 /\ q \notin finalized' /\ (pace'[Message[q]] = "calm" => Message[q] \in known')
  BY <1>5 DEF Pending
<1> QED
  BY <1>5, <1>6, <1>7, <1>8 DEF Pending

LEMMA FlushPostedStep ==
    ASSUME IInv, NEW t \in 1..Turns, FlushPosted(t)
    PROVE  IInv'
<1> DEFINE k == flush[t].map
           pos == flush[t].pos
           f == InFlight(t)
           done == finalized \cup {f}
<1>1. /\ flush[t].at = "part" /\ settled' = settled \cup {<<f, flush[t].text>>}
      /\ GoOn(t, k, pos, done)
      /\ UNCHANGED <<turn, version, ended, pace, maps, posting>>
  BY DEF FlushPosted, conversation
<1>2. /\ TypeOK /\ MapsSound /\ FlushesSound /\ PostsSound /\ Unannounced /\ OpenSound
      /\ CalmUnposted /\ Whole /\ LastTextsOver
  BY DEF IInv
<1>3. t \in Flushing /\ k \in DOMAIN maps /\ pos \in DOMAIN maps[k] /\ f = maps[k][pos].part
  BY <1>1, <1>2 DEF Flushing, FlushesSound, InFlight
<1>4. maps[k] \in Seq(Entry)
  BY <1>2, <1>3 DEF TypeOK
<1>5. maps[k][pos] \in Entry /\ pos \in Nat /\ flush[t].text \in Nat
  <2>1. flush[t] \in Flush
    BY <1>2 DEF TypeOK
  <2> QED
    BY <1>3, <1>4, <2>1 DEF Flush
<1>6. f \in Parts /\ version[f] > 0 /\ done \in SUBSET Parts
  BY <1>2, <1>3, <1>5 DEF Entry, MapsSound, TypeOK
<1> HIDE DEF f
<1>7. \/ /\ finalized' = {} /\ known' = {} /\ current' = 0 /\ flush'[t].at = "completing"
         /\ Flushing' = Flushing \ {t}
      \/ /\ finalized' = done /\ UNCHANGED <<known, current>>
         /\ flush'[t].at = "part" /\ flush'[t].map = k /\ flush'[t].pos \in DOMAIN maps[k]
         /\ Flushing' = Flushing \cup {t}
  BY <1>1, <1>2, <1>3, <1>5, <1>6, GoOnIs DEF ToPost
<1>8. flush' \in [1..Turns -> Flush] /\ \A s \in 1..Turns \ {t} : flush'[s] = flush[s]
  BY <1>1, <1>2, <1>3, <1>5, <1>6, GoOnIs
<1>9. TypeOK'
  BY <1>1, <1>2, <1>5, <1>6, <1>7, <1>8 DEF TypeOK
<1>10. MapsSound' /\ Unannounced'
  BY <1>1, <1>2 DEF MapsSound, Unannounced
<1>11. FlushesSound'
  <2>1. \A s \in 1..Turns : flush'[s].at = "no" <=> s >= turn'
    BY <1>1, <1>2, <1>7, <1>8 DEF FlushesSound
  <2>2. \A s \in Flushing' : flush'[s].map \in DOMAIN maps' /\ flush'[s].pos \in DOMAIN maps'[flush'[s].map]
    BY <1>1, <1>2, <1>3, <1>7, <1>8 DEF FlushesSound, Flushing
  <2> QED
    BY <2>1, <2>2 DEF FlushesSound
<1>12. PostsSound'
  <2>1. \A q \in finalized' \cup ended' : version'[q] > 0
    BY <1>1, <1>2, <1>6, <1>7 DEF PostsSound
  <2>2. \A u \in settled' : version'[u[1]] > 0
    BY <1>1, <1>2, <1>6 DEF PostsSound
  <2> QED
    BY <1>1, <1>2, <2>1, <2>2 DEF PostsSound
<1>13. OpenSound'
  <2> SUFFICES ASSUME NEW n \in Messages, Open(n), pace[n] \in {"unseen", "calm"}
               PROVE  /\ ~Begun(n)' /\ pace[n] # "calm"
                      /\ \A q \in Parts : Message[q] = n =>
                           q \notin finalized' /\ \A w \in Nat : <<q, w>> \notin settled'
    BY <1>1 DEF OpenSound, Open
  <2>1. ~Begun(n)
    BY <1>2, <1>3 DEF OpenSound
  <2>2. ~Begun(n)' /\ pace[n] # "calm" /\ \A q \in Parts : Message[q] = n => ~ (version'[q] > 0)
    BY <1>1, <2>1 DEF Begun
  <2>3. \A q \in finalized' : version'[q] > 0
    BY <1>12 DEF PostsSound
  <2>4. ASSUME NEW q \in Parts, Message[q] = n, NEW w \in Nat, <<q, w>> \in settled' PROVE FALSE
    BY <1>12, <2>2, <2>4 DEF PostsSound
  <2> QED
    BY <2>2, <2>3, <2>4
<1>14. CalmUnposted'
  <2> SUFFICES ASSUME NEW q \in Parts, pace[Message[q]] = "calm", Message[q] \in known',
                      q \notin finalized', NEW w \in Nat
               PROVE  <<q, w>> \notin settled'
    BY <1>1 DEF CalmUnposted
  <2> QED
    BY <1>1, <1>2, <1>7 DEF CalmUnposted
<1>15. Whole'
  <2> SUFFICES ASSUME NEW q \in Parts, version[q] > 0,
                      \/ pace[Message[q]] = "calm"
                      \/ pace[Message[q]] = "unseen" /\ Open(Message[q])
               PROVE  <<q, version[q]>> \in settled' \/ Pending(q)'
    BY <1>1 DEF Whole, Open
  <2>1. pace[Message[q]] = "calm"
    <3>1. Begun(Message[q]) /\ Message[q] \in Messages
      BY TurnsAre DEF Begun
    <3> QED
      BY <1>2, <1>3, <3>1 DEF OpenSound
  <2>2. CASE <<q, version[q]>> \in settled
    BY <1>1, <2>2
  <2>3. CASE Pending(q)
    <3>1. PICK i \in DOMAIN maps[current] :
            /\ maps[current][i] = [part |-> q, text |-> version[q], live |-> TRUE]
            /\ \A s \in Flushing :
                 /\ flush[s].map = current /\ flush[s].pos <= i
                 /\ flush[s].pos = i => flush[s].text = version[q]
      BY <2>3 DEF Pending
    <3>2. k = current /\ pos <= i /\ (pos = i => flush[t].text = version[q])
      BY <1>3, <3>1
    <3>3. maps[k][i].part = q /\ i \in DOMAIN maps[k] /\ current # 0 /\ q \notin finalized
      BY <2>3, <3>1, <3>2 DEF Pending
    <3>4. CASE pos = i
      BY <1>1, <1>3, <3>2, <3>3, <3>4
    <3>5. CASE pos # i
      <4>1. q # f
        BY <1>2, <1>3, <3>3, <3>5 DEF MapsSound
      <4>2. \A j \in DOMAIN maps[current] : maps[current][j].part = q => j = i
        BY <1>2, <1>3, <3>2, <3>3 DEF MapsSound
      <4>3. i \in Nat /\ pos < i
        BY <1>4, <1>5, <3>2, <3>3, <3>5
      <4> QED
        BY <1>1, <1>2, <1>5, <1>6, <2>1, <2>3, <3>2, <3>3, <4>1, <4>2, <4>3, GoOnKeeps
    <3> QED
      BY <3>4, <3>5
  <2> QED
    BY <1>2, <2>2, <2>3 DEF Whole
<1>16. LastTextsOver'
  <2> SUFFICES ASSUME NEW s \in 1..Turns, NEW q \in Parts, flush'[s].at \in {"completing", "done"},
                      Turn[Message[q]] = s, pace[Message[q]] = "calm", version[q] > 0
               PROVE  <<q, version[q]>> \in settled'
    BY <1>1 DEF LastTextsOver
  <2>1. CASE s = t
    <3>1. current' = 0
      BY <1>7, <2>1
    <3>2. <<q, version[q]>> \in settled' \/ Pending(q)'
      BY <1>1, <1>15 DEF Whole
    <3> QED
      BY <3>1, <3>2 DEF Pending
  <2>2. CASE s # t
    BY <1>1, <1>2, <1>8, <2>2 DEF LastTextsOver
  <2> QED
    BY <2>1, <2>2
<1> QED
  BY <1>9, <1>10, <1>11, <1>12, <1>13, <1>14, <1>15, <1>16 DEF IInv

LEMMA IdleStep ==
    ASSUME IInv, Idle
    PROVE  IInv'
<1>1. /\ turn <= Turns /\ turn' = turn + 1 /\ UNCHANGED <<version, ended, pace, maps, posting, settled>>
      /\ IF current # 0 THEN GoOn(turn, current, 0, finalized)
         ELSE /\ flush' = [flush EXCEPT ![turn] = [NoFlush EXCEPT !.at = "completing"]]
              /\ UNCHANGED <<finalized, known, current>>
  BY DEF Idle
<1>2. /\ TypeOK /\ MapsSound /\ FlushesSound /\ PostsSound /\ Unannounced /\ OpenSound
      /\ CalmUnposted /\ Whole /\ LastTextsOver
  BY DEF IInv
<1>3. turn \in 1..Turns /\ turn \in Nat /\ Turns \in Nat /\ 0 \in Nat /\ finalized \in SUBSET Parts
  BY <1>1, <1>2, PluginAssumption DEF TypeOK
<1>4. flush' \in [1..Turns -> Flush] /\ \A s \in 1..Turns \ {turn} : flush'[s] = flush[s]
  <2>1. CASE current # 0
    BY <1>1, <1>2, <1>3, <2>1, GoOnIs DEF TypeOK
  <2>2. CASE current = 0
    <3>1. [NoFlush EXCEPT !.at = "completing"] \in Flush
      BY DEF NoFlush, Flush
    <3> QED
      BY <1>1, <1>2, <1>3, <2>2, <3>1 DEF TypeOK
  <2> QED
    BY <2>1, <2>2
<1>5. \/ /\ current' = 0 /\ flush'[turn].at = "completing" /\ Flushing' = Flushing \ {turn}
         /\ (finalized' = {} /\ known' = {}) \/ UNCHANGED <<finalized, known>>
      \/ /\ current # 0 /\ UNCHANGED <<finalized, known, current>>
         /\ flush'[turn].at = "part" /\ flush'[turn].map = current
         /\ flush'[turn].pos \in DOMAIN maps[current] /\ Flushing' = Flushing \cup {turn}
  <2>1. CASE current # 0
    BY <1>1, <1>2, <1>3, <2>1, GoOnIs DEF TypeOK, ToPost
  <2>2. CASE current = 0
    <3>1. flush'[turn].at = "completing"
      BY <1>1, <1>2, <1>3, <2>2 DEF TypeOK, NoFlush
    <3>2. Flushing' = Flushing \ {turn}
      BY <1>4, <3>1 DEF Flushing
    <3> QED
      BY <1>1, <2>2, <3>1, <3>2
  <2> QED
    BY <2>1, <2>2
<1>6. finalized' \subseteq finalized /\ known' \subseteq known
  BY <1>5
<1>7. TypeOK'
  BY <1>1, <1>2, <1>3, <1>4, <1>5 DEF TypeOK
<1>8. MapsSound' /\ Unannounced'
  BY <1>1, <1>2, <1>3, PluginAssumption DEF MapsSound, Unannounced
<1>9. FlushesSound'
  <2>1. \A s \in 1..Turns : flush'[s].at = "no" <=> s >= turn'
    BY <1>1, <1>2, <1>3, <1>4, <1>5 DEF FlushesSound
  <2>2. \A s \in Flushing' : flush'[s].map \in DOMAIN maps' /\ flush'[s].pos \in DOMAIN maps'[flush'[s].map]
    BY <1>1, <1>2, <1>4, <1>5 DEF FlushesSound, Flushing, TypeOK
  <2> QED
    BY <2>1, <2>2 DEF FlushesSound
<1>10. PostsSound'
  <2>1. \A p \in Parts : version'[p] > 0 => Turn[Message[p]] <= turn'
    BY <1>1, <1>2, <1>3, TurnsAre DEF PostsSound
  <2> QED
    BY <1>1, <1>2, <1>6, <2>1 DEF PostsSound
<1>11. OpenSound'
  <2> SUFFICES ASSUME NEW n \in Messages, Turn[n] = turn + 1
               PROVE  /\ ~Begun(n)' /\ pace[n] # "calm"
                      /\ \A q \in Parts : Message[q] = n =>
                           q \notin finalized' /\ \A w \in Nat : <<q, w>> \notin settled'
    BY <1>1 DEF OpenSound, Open
  <2>1. pace[n] = "unseen"
    BY <1>2, <1>3 DEF Unannounced
  <2>2. \A q \in Parts : Message[q] = n => ~ (version[q] > 0)
    BY <1>2, <1>3 DEF PostsSound
  <2>3. \A q \in finalized' : version[q] > 0
    BY <1>1, <1>10 DEF PostsSound
  <2>4. ASSUME NEW q \in Parts, Message[q] = n, NEW w \in Nat, <<q, w>> \in settled' PROVE FALSE
    BY <1>1, <1>10, <2>2, <2>4 DEF PostsSound
  <2>5. ~Begun(n)'
    BY <1>1, <2>1, <2>2 DEF Begun
  <2> QED
    BY <2>1, <2>2, <2>3, <2>4, <2>5
<1>12. CalmUnposted'
  <2> SUFFICES ASSUME NEW q \in Parts, pace[Message[q]] = "calm", Message[q] \in known',
                      q \notin finalized', NEW w \in Nat
               PROVE  <<q, w>> \notin settled
    BY <1>1 DEF CalmUnposted
  <2> QED
    BY <1>2, <1>5 DEF CalmUnposted
<1>13. Whole'
  <2> SUFFICES ASSUME NEW q \in Parts, version[q] > 0,
                      \/ pace[Message[q]] = "calm"
                      \/ pace[Message[q]] = "unseen" /\ Turn[Message[q]] = turn + 1
               PROVE  <<q, version[q]>> \in settled \/ Pending(q)'
    BY <1>1 DEF Whole, Open
  <2>1. pace[Message[q]] = "calm"
    BY <1>2, <1>3 DEF PostsSound
  <2>2. CASE <<q, version[q]>> \in settled
    BY <2>2
  <2>3. CASE Pending(q)
    <3>1. current # 0 /\ current \in DOMAIN maps /\ q \notin finalized /\ GoOn(turn, current, 0, finalized)
      BY <1>1, <1>2, <2>3 DEF Pending, TypeOK
    <3>2. maps[current] \in Seq(Entry)
      BY <1>2, <3>1 DEF TypeOK
    <3>3. \A i \in DOMAIN maps[current] : 0 < i
      BY <3>2
    <3> QED
      BY <1>1, <1>2, <1>3, <2>1, <2>3, <3>1, <3>3, GoOnKeeps
  <2> QED
    BY <1>2, <2>1, <2>2, <2>3 DEF Whole
<1>14. LastTextsOver'
  <2> SUFFICES ASSUME NEW s \in 1..Turns, NEW q \in Parts, flush'[s].at \in {"completing", "done"},
                      Turn[Message[q]] = s, pace[Message[q]] = "calm", version[q] > 0
               PROVE  <<q, version[q]>> \in settled'
    BY <1>1 DEF LastTextsOver
  <2>1. CASE s = turn
    <3>1. current' = 0
      BY <1>5, <2>1
    <3>2. <<q, version[q]>> \in settled' \/ Pending(q)'
      BY <1>1, <1>13 DEF Whole
    <3> QED
      BY <3>1, <3>2 DEF Pending
  <2>2. CASE s # turn
    BY <1>1, <1>2, <1>4, <2>2 DEF LastTextsOver
  <2> QED
    BY <2>1, <2>2
<1> QED
  BY <1>7, <1>8, <1>9, <1>10, <1>11, <1>12, <1>13, <1>14 DEF IInv

LEMMA CompletedPostedStep ==
    ASSUME IInv, NEW t \in 1..Turns, CompletedPosted(t)
    PROVE  IInv'
<1>1. /\ flush[t].at = "completing" /\ flush' = [flush EXCEPT ![t].at = "done"]
      /\ UNCHANGED <<turn, version, ended, pace, known, maps, current, finalized, posting, settled>>
  BY DEF CompletedPosted, conversation
<1>2. /\ TypeOK /\ MapsSound /\ FlushesSound /\ PostsSound /\ Unannounced /\ OpenSound
      /\ CalmUnposted /\ Whole /\ LastTextsOver
  BY DEF IInv
<1>3. /\ flush' \in [1..Turns -> Flush] /\ flush'[t].at = "done"
      /\ \A s \in 1..Turns \ {t} : flush'[s] = flush[s]
  BY <1>1, <1>2 DEF TypeOK, Flush
<1>4. /\ Flushing' = Flushing /\ \A s \in Flushing : flush'[s] = flush[s]
  BY <1>1, <1>3 DEF Flushing
<1>5. TypeOK' /\ MapsSound' /\ PostsSound' /\ Unannounced' /\ CalmUnposted'
  BY <1>1, <1>2, <1>3 DEF TypeOK, MapsSound, PostsSound, Unannounced, CalmUnposted
<1>6. FlushesSound'
  BY <1>1, <1>2, <1>3, <1>4 DEF FlushesSound
<1>7. OpenSound'
  <2>1. \A n \in Messages : (Begun(n)' <=> Begun(n)) /\ (Open(n)' <=> Open(n))
    BY <1>1 DEF Begun, Open
  <2> QED
    BY <1>1, <1>2, <1>4, <2>1 DEF OpenSound
<1>8. Whole'
  <2>1. ASSUME NEW q \in Parts, Pending(q) PROVE Pending(q)'
    BY <1>1, <1>4, <2>1 DEF Pending
  <2>2. \A n \in Messages : Open(n)' <=> Open(n)
    BY <1>1 DEF Open
  <2> QED
    BY <1>1, <1>2, <2>1, <2>2, TurnsAre DEF Whole
<1>9. LastTextsOver'
  BY <1>1, <1>2, <1>3 DEF LastTextsOver
<1> QED
  BY <1>5, <1>6, <1>7, <1>8, <1>9 DEF IInv

\* Tool calls, edits and other sessions leave the messages of Main alone.
LEMMA Elsewhere ==
    ASSUME IInv,
           UNCHANGED <<turn, version, ended, pace, known, maps, current, finalized, posting, flush, settled>>
    PROVE  IInv'
<1>1. /\ Flushing' = Flushing
      /\ \A n \in Messages : (Begun(n)' <=> Begun(n)) /\ (Open(n)' <=> Open(n))
      /\ \A q \in Parts : Pending(q)' <=> Pending(q)
  BY DEF Flushing, Begun, Open, Pending
<1>2. TypeOK' /\ MapsSound' /\ FlushesSound' /\ PostsSound' /\ Unannounced'
  BY <1>1 DEF IInv, TypeOK, MapsSound, FlushesSound, PostsSound, Unannounced
<1>3. OpenSound' /\ CalmUnposted' /\ Whole' /\ LastTextsOver'
  BY <1>1, TurnsAre DEF IInv, OpenSound, CalmUnposted, Whole, LastTextsOver
<1> QED
  BY <1>2, <1>3 DEF IInv

LEMMA Inductive == IInv /\ [Next]_vars => IInv'
<1> SUFFICES ASSUME IInv, [Next]_vars PROVE IInv'
  OBVIOUS
<1>1. ASSUME NEW m \in Messages, Announce(m) PROVE IInv'
  BY <1>1, AnnounceStep
<1>2. ASSUME NEW p \in Parts, NEW end \in BOOLEAN, UpdatePart(p, end) PROVE IInv'
  BY <1>2, UpdatePartStep
<1>3. ASSUME NEW u \in posting, PartPosted(u[1], u[2]) PROVE IInv'
  BY <1>3, PartPostedStep
<1>4. CASE Idle
  BY <1>4, IdleStep
<1>5. ASSUME NEW t \in 1..Turns, FlushPosted(t) \/ CompletedPosted(t) PROVE IInv'
  BY <1>5, FlushPostedStep, CompletedPostedStep
<1>6. ASSUME NEW c \in Calls,
             \/ BeginCall(c) \/ \E throws \in BOOLEAN : EndCall(c, throws)
             \/ \E n \in {"own", "none", "unusable"} : FileEdited(c, n)
      PROVE  IInv'
  BY <1>6, Elsewhere DEF BeginCall, EndCall, FileEdited, conversation, plugin
<1>7. ASSUME NEW s \in Sessions, IdleElsewhere(s) PROVE IInv'
  BY <1>7, Elsewhere DEF IdleElsewhere
<1>8. CASE UNCHANGED vars
  BY <1>8, Elsewhere DEF vars, conversation, plugin
<1> QED
  BY <1>1, <1>2, <1>3, <1>4, <1>5, <1>6, <1>7, <1>8 DEF Next

LEMMA Invariance == Spec => []IInv
BY InitStep, Inductive, PTL DEF Spec

-----------------------------------------------------------------------------
(* The texts that are out. *)

\* The current map has the last texts, and so has the map of a flush, and the
\* post it waits for, of messages that did not come during a flush.
TextsSound ==
    /\ current # 0 => \A i \in DOMAIN maps[current] :
                        maps[current][i].text = version[maps[current][i].part]
    /\ \A t \in Flushing :
         /\ \A i \in DOMAIN maps[flush[t].map] :
              pace[Message[maps[flush[t].map][i].part]] = "calm" =>
                maps[flush[t].map][i].text = version[maps[flush[t].map][i].part]
         /\ pace[Message[InFlight(t)]] = "calm" => flush[t].text = version[InFlight(t)]

LEMMA PartsAreParts ==
    ASSUME TypeOK, NEW k \in DOMAIN maps, NEW i \in DOMAIN maps[k]
    PROVE  maps[k][i] \in Entry /\ maps[k][i].part \in Parts /\ Message[maps[k][i].part] \in Messages
<1>1. maps[k] \in Seq(Entry)
  BY DEF TypeOK
<1>2. maps[k][i] \in Entry
  BY <1>1
<1> QED
  BY <1>2, PluginAssumption DEF Entry

\* The maps keep their texts and the flushes that go on stay where they are.
LEMMA TextsStay ==
    ASSUME TypeOK, FlushesSound, TextsSound, version' = version, current' \in {current, 0},
           DOMAIN maps' = DOMAIN maps,
           \A k \in DOMAIN maps : DOMAIN maps'[k] = DOMAIN maps[k] /\ \A i \in DOMAIN maps[k] :
             maps'[k][i].part = maps[k][i].part /\ maps'[k][i].text = maps[k][i].text,
           Flushing' \subseteq Flushing, \A t \in Flushing' : flush'[t] = flush[t],
           Flushing # {} => \A m \in Messages : pace'[m] = "calm" => pace[m] = "calm"
    PROVE  TextsSound'
<1>1. current' # 0 => \A i \in DOMAIN maps'[current'] :
                        maps'[current'][i].text = version'[maps'[current'][i].part]
  <2> SUFFICES ASSUME current' # 0, NEW i \in DOMAIN maps'[current']
               PROVE  maps'[current'][i].text = version'[maps'[current'][i].part]
    OBVIOUS
  <2>1. current' = current /\ current \in DOMAIN maps /\ current # 0
    BY DEF TypeOK
  <2>2. i \in DOMAIN maps[current]
    BY <2>1
  <2>3. maps'[current][i].part = maps[current][i].part /\ maps'[current][i].text = maps[current][i].text
    BY <2>1, <2>2
  <2>4. maps[current][i].text = version[maps[current][i].part]
    BY <2>1, <2>2 DEF TextsSound
  <2> QED
    BY <2>1, <2>3, <2>4
<1>2. ASSUME NEW t \in Flushing'
      PROVE  /\ \A i \in DOMAIN maps'[flush'[t].map] :
                  pace'[Message[maps'[flush'[t].map][i].part]] = "calm" =>
                    maps'[flush'[t].map][i].text = version'[maps'[flush'[t].map][i].part]
             /\ pace'[Message[InFlight(t)']] = "calm" => flush'[t].text = version'[InFlight(t)']
  <2>1. PICK k, pos : k = flush[t].map /\ pos = flush[t].pos
    OBVIOUS
  <2>2. /\ t \in Flushing /\ flush'[t] = flush[t] /\ k \in DOMAIN maps /\ pos \in DOMAIN maps[k]
        /\ InFlight(t) = maps[k][pos].part /\ InFlight(t)' = maps[k][pos].part
    BY <2>1 DEF InFlight, FlushesSound
  <2>3. \A i \in DOMAIN maps[k] : pace'[Message[maps[k][i].part]] = "calm" =>
                                    pace[Message[maps[k][i].part]] = "calm"
    BY <2>2, PartsAreParts
  <2> QED
    BY <2>1, <2>2, <2>3 DEF TextsSound
<1> QED
  BY <1>1, <1>2 DEF TextsSound

LEMMA TextsGoOn ==
    ASSUME TypeOK, FlushesSound, TextsSound, UNCHANGED <<version, pace, maps>>,
           NEW t \in 1..Turns, NEW k \in DOMAIN maps, NEW pos \in Nat, NEW done \in SUBSET Parts,
           GoOn(t, k, pos, done),
           \A i \in DOMAIN maps[k] :
             pace[Message[maps[k][i].part]] = "calm" => maps[k][i].text = version[maps[k][i].part]
    PROVE  TextsSound'
<1>1. CASE /\ current' = 0 /\ Flushing' = Flushing \ {t}
           /\ \A s \in 1..Turns \ {t} : flush'[s] = flush[s]
  BY <1>1, TextsStay DEF Flushing
<1>2. CASE /\ current' = current /\ flush'[t].map = k /\ flush'[t].at = "part"
           /\ flush'[t].pos \in ToPost(maps[k], pos, done)
           /\ flush'[t].text = maps[k][flush'[t].pos].text
           /\ Flushing' = Flushing \cup {t}
           /\ \A s \in 1..Turns \ {t} : flush'[s] = flush[s]
  <2>1. ASSUME NEW s \in Flushing'
        PROVE  /\ \A i \in DOMAIN maps'[flush'[s].map] :
                    pace'[Message[maps'[flush'[s].map][i].part]] = "calm" =>
                      maps'[flush'[s].map][i].text = version'[maps'[flush'[s].map][i].part]
               /\ pace'[Message[InFlight(s)']] = "calm" => flush'[s].text = version'[InFlight(s)']
    <3>1. CASE s = t
      <4>1. flush'[t].pos \in DOMAIN maps[k] /\ InFlight(s)' = maps[k][flush'[t].pos].part
        BY <1>2, <3>1 DEF ToPost, InFlight
      <4> QED
        BY <1>2, <3>1, <4>1
    <3>2. CASE s # t
      <4>1. s \in Flushing /\ flush'[s] = flush[s] /\ InFlight(s)' = InFlight(s)
        BY <1>2, <3>2 DEF Flushing, InFlight
      <4> QED
        BY <4>1 DEF TextsSound
    <3> QED
      BY <3>1, <3>2
  <2> QED
    BY <1>2, <2>1 DEF TextsSound
<1> QED
  BY <1>1, <1>2, GoOnIs

LEMMA TextsUpdated ==
    ASSUME IInv, TextsSound, NEW p \in Parts, NEW end \in BOOLEAN, UpdatePart(p, end), MapsSound'
    PROVE  TextsSound'
<1>0. PICK v, e, m : v = version[p] + 1 /\ e = [part |-> p, text |-> v, live |-> TRUE] /\ m = Message[p]
  OBVIOUS
<1>1. /\ p \notin ended /\ Remember(p, v) /\ flush' = flush
      /\ version' = [version EXCEPT ![p] = v]
      /\ pace' = [pace EXCEPT ![m] = IF Flushing = {} \/ @ = "late" THEN @ ELSE "rushed"]
  BY <1>0 DEF UpdatePart
<1>2. TypeOK /\ MapsSound /\ FlushesSound /\ v \in Nat /\ m \in Messages /\ e.part = p /\ e.text = v
  BY <1>0, PluginAssumption DEF IInv, TypeOK
<1>3. /\ DOMAIN maps \subseteq DOMAIN maps' /\ current' \in DOMAIN maps' /\ current' # 0
      /\ current # 0 => current' = current
      /\ current = 0 => current' \notin DOMAIN maps
      /\ \A k \in DOMAIN maps : \A i \in DOMAIN maps[k] :
           /\ i \in DOMAIN maps'[k] /\ maps'[k][i].part = maps[k][i].part
           /\ maps[k][i].part # p => maps'[k][i] = maps[k][i]
      /\ \A k \in DOMAIN maps' : \A i \in DOMAIN maps'[k] :
           \/ k \in DOMAIN maps /\ i \in DOMAIN maps[k] /\ (maps'[k][i] = maps[k][i] \/ maps'[k][i] = e)
           \/ maps'[k][i] = e
      /\ \E i \in DOMAIN maps'[current'] : maps'[current'][i] = e
  BY <1>0, <1>1, <1>2, RememberIs
<1>4. version'[p] = v /\ \A q \in Parts \ {p} : version'[q] = version[q]
  BY <1>1, <1>2 DEF TypeOK
<1>5. /\ Flushing' = Flushing
      /\ Flushing # {} => pace'[m] # "calm"
      /\ \A n \in Messages \ {m} : pace'[n] = pace[n]
  BY <1>1, <1>2 DEF Flushing, TypeOK
<1>6. ASSUME NEW i \in DOMAIN maps'[current']
      PROVE  maps'[current'][i].text = version'[maps'[current'][i].part]
  <2>1. CASE maps'[current'][i].part = p
    <3>1. maps'[current'][i] = e
      BY <1>2, <1>3, <2>1 DEF MapsSound
    <3> QED
      BY <1>2, <1>4, <3>1
  <2>2. CASE maps'[current'][i].part # p
    <3>1. maps'[current'][i] # e
      BY <1>2, <2>2
    <3>2. current' \in DOMAIN maps /\ i \in DOMAIN maps[current'] /\ maps'[current'][i] = maps[current'][i]
      BY <1>3, <3>1
    <3>3. current' = current /\ current # 0
      BY <1>3, <3>2
    <3>4. maps[current][i].part \in Parts
      BY <1>2, <3>2, <3>3, PartsAreParts
    <3> QED
      BY <1>4, <2>2, <3>2, <3>3, <3>4 DEF TextsSound
  <2> QED
    BY <2>1, <2>2
<1>7. ASSUME NEW t \in Flushing'
      PROVE  /\ \A i \in DOMAIN maps'[flush'[t].map] :
                  pace'[Message[maps'[flush'[t].map][i].part]] = "calm" =>
                    maps'[flush'[t].map][i].text = version'[maps'[flush'[t].map][i].part]
             /\ pace'[Message[InFlight(t)']] = "calm" => flush'[t].text = version'[InFlight(t)']
  <2>1. PICK k, pos : k = flush[t].map /\ pos = flush[t].pos
    OBVIOUS
  <2>2. /\ t \in Flushing /\ flush'[t] = flush[t] /\ k \in DOMAIN maps /\ pos \in DOMAIN maps[k]
        /\ InFlight(t) = maps[k][pos].part /\ InFlight(t)' = maps'[k][pos].part
        /\ pace'[m] # "calm" /\ maps'[k][pos].part = maps[k][pos].part
    <3>1. t \in Flushing /\ flush'[t] = flush[t] /\ pace'[m] # "calm"
      BY <1>1, <1>5
    <3>2. k \in DOMAIN maps /\ pos \in DOMAIN maps[k]
      BY <1>2, <2>1, <3>1 DEF FlushesSound
    <3>3. InFlight(t) = maps[k][pos].part /\ InFlight(t)' = maps'[k][pos].part
      BY <1>1, <2>1 DEF InFlight
    <3> QED
      BY <1>3, <3>1, <3>2, <3>3
  <2>3. ASSUME NEW i \in DOMAIN maps'[k], pace'[Message[maps'[k][i].part]] = "calm"
        PROVE  maps'[k][i].text = version'[maps'[k][i].part]
    <3>1. maps'[k][i].part # p
      BY <1>0, <2>2, <2>3
    <3>2. i \in DOMAIN maps[k] /\ maps'[k][i] = maps[k][i]
      BY <1>2, <1>3, <2>2, <3>1
    <3>3. maps[k][i].part \in Parts /\ Message[maps[k][i].part] \in Messages
      BY <1>2, <2>2, <3>2, PartsAreParts
    <3>4. pace[Message[maps[k][i].part]] = "calm"
      BY <1>5, <2>2, <2>3, <3>2, <3>3
    <3> QED
      BY <1>4, <2>1, <2>2, <3>1, <3>2, <3>3, <3>4 DEF TextsSound
  <2>4. ASSUME pace'[Message[maps[k][pos].part]] = "calm" PROVE flush[t].text = version'[maps[k][pos].part]
    <3>1. maps[k][pos].part # p
      BY <1>0, <2>2, <2>4
    <3>2. maps[k][pos].part \in Parts /\ Message[maps[k][pos].part] \in Messages
      BY <1>2, <2>2, PartsAreParts
    <3>3. pace[Message[maps[k][pos].part]] = "calm"
      BY <1>5, <2>2, <2>4, <3>2
    <3> QED
      BY <1>4, <2>2, <3>1, <3>2, <3>3 DEF TextsSound
  <2> QED
    BY <2>1, <2>2, <2>3, <2>4
<1> QED
  BY <1>6, <1>7 DEF TextsSound

LEMMA TextsStep == IInv /\ IInv' /\ TextsSound /\ [Next]_vars => TextsSound'
<1> SUFFICES ASSUME IInv, IInv', TextsSound, [Next]_vars PROVE TextsSound'
  OBVIOUS
<1>0. TypeOK /\ FlushesSound /\ MapsSound'
  BY DEF IInv
<1>1. ASSUME NEW m \in Messages, Announce(m) PROVE TextsSound'
  <2>1. /\ UNCHANGED <<version, current, maps, flush>>
        /\ pace' = [pace EXCEPT ![m] = IF @ # "unseen" THEN @
                                         ELSE IF Flushing = {} THEN "calm" ELSE "late"]
    BY <1>1 DEF Announce
  <2>2. Flushing' = Flushing
    BY <2>1 DEF Flushing
  <2>3. Flushing # {} => \A n \in Messages : pace'[n] = "calm" => pace[n] = "calm"
    BY <1>0, <2>1 DEF TypeOK
  <2> QED
    BY <1>0, <2>1, <2>2, <2>3, TextsStay
<1>2. ASSUME NEW p \in Parts, NEW end \in BOOLEAN, UpdatePart(p, end) PROVE TextsSound'
  BY <1>0, <1>2, TextsUpdated
<1>3. ASSUME NEW u \in posting, PartPosted(u[1], u[2]) PROVE TextsSound'
  <2>1. /\ UNCHANGED <<version, current, flush, pace>> /\ u[1] \in Parts
        /\ maps' = IF current = 0 THEN maps ELSE [maps EXCEPT ![current] = Drop(@, u[1])]
    BY <1>0, <1>3 DEF PartPosted, conversation, TypeOK
  <2>2. Flushing' = Flushing
    BY <2>1 DEF Flushing
  <2>3. DOMAIN maps' = DOMAIN maps /\ \A k \in DOMAIN maps : DOMAIN maps'[k] = DOMAIN maps[k]
          /\ \A i \in DOMAIN maps[k] :
               maps'[k][i].part = maps[k][i].part /\ maps'[k][i].text = maps[k][i].text
    BY <1>0, <2>1, ForgetIs
  <2> QED
    BY <1>0, <2>1, <2>2, <2>3, TextsStay
<1>4. CASE Idle
  <2>1. /\ turn <= Turns /\ UNCHANGED <<version, pace, maps>>
        /\ IF current # 0 THEN GoOn(turn, current, 0, finalized)
           ELSE /\ flush' = [flush EXCEPT ![turn] = [NoFlush EXCEPT !.at = "completing"]]
                /\ UNCHANGED current
    BY <1>4 DEF Idle
  <2>2. turn \in 1..Turns /\ 0 \in Nat /\ finalized \in SUBSET Parts
    BY <1>0, <2>1, PluginAssumption DEF TypeOK
  <2>3. CASE current # 0
    <3>1. current \in DOMAIN maps /\ GoOn(turn, current, 0, finalized)
      BY <1>0, <2>1, <2>3 DEF TypeOK
    <3>2. \A i \in DOMAIN maps[current] : maps[current][i].text = version[maps[current][i].part]
      BY <2>3 DEF TextsSound
    <3> QED
      BY <1>0, <2>1, <2>2, <3>1, <3>2, TextsGoOn
  <2>4. CASE current = 0
    <3>1. \A s \in 1..Turns : flush'[s] = flush[s] \/ flush'[s].at = "completing"
      BY <1>0, <2>1, <2>2, <2>4 DEF TypeOK, NoFlush
    <3>2. Flushing' \subseteq Flushing /\ \A s \in Flushing' : flush'[s] = flush[s]
      BY <3>1 DEF Flushing
    <3> QED
      BY <1>0, <2>1, <2>4, <3>2, TextsStay
  <2> QED
    BY <2>3, <2>4
<1>5. ASSUME NEW t \in 1..Turns, FlushPosted(t) PROVE TextsSound'
  <2>1. PICK k, pos, done : /\ k = flush[t].map /\ pos = flush[t].pos
                            /\ done = finalized \cup {InFlight(t)}
    OBVIOUS
  <2>2. /\ t \in Flushing /\ GoOn(t, k, pos, done) /\ UNCHANGED <<version, pace, maps>>
    BY <1>5, <2>1 DEF FlushPosted, Flushing, conversation
  <2>3. k \in DOMAIN maps /\ pos \in DOMAIN maps[k] /\ InFlight(t) = maps[k][pos].part
    BY <1>0, <2>1, <2>2 DEF FlushesSound, InFlight
  <2>4. maps[k] \in Seq(Entry) /\ maps[k][pos].part \in Parts
    BY <1>0, <2>3, PartsAreParts DEF TypeOK
  <2>5. pos \in Nat /\ done \in SUBSET Parts
    BY <1>0, <2>1, <2>3, <2>4 DEF TypeOK
  <2>6. \A i \in DOMAIN maps[k] :
          pace[Message[maps[k][i].part]] = "calm" => maps[k][i].text = version[maps[k][i].part]
    BY <2>1, <2>2 DEF TextsSound
  <2> QED
    BY <1>0, <2>2, <2>3, <2>5, <2>6, TextsGoOn
<1>6. ASSUME NEW t \in 1..Turns, CompletedPosted(t) PROVE TextsSound'
  <2>1. /\ UNCHANGED <<version, current, maps, pace>> /\ flush' = [flush EXCEPT ![t].at = "done"]
        /\ flush[t].at = "completing"
    BY <1>6 DEF CompletedPosted, conversation
  <2>2. \A s \in 1..Turns : flush'[s] = flush[s] \/ flush'[s].at = "done"
    BY <1>0, <2>1 DEF TypeOK, Flush
  <2>3. Flushing' \subseteq Flushing /\ \A s \in Flushing' : flush'[s] = flush[s]
    BY <2>2 DEF Flushing
  <2> QED
    BY <1>0, <2>1, <2>3, TextsStay
<1>7. ASSUME UNCHANGED <<version, maps, current, flush, pace>> PROVE TextsSound'
  <2>1. Flushing' = Flushing
    BY <1>7 DEF Flushing
  <2> QED
    BY <1>0, <1>7, <2>1, TextsStay
<1>8. ASSUME NEW c \in Calls,
             \/ BeginCall(c) \/ \E throws \in BOOLEAN : EndCall(c, throws)
             \/ \E n \in {"own", "none", "unusable"} : FileEdited(c, n)
      PROVE  TextsSound'
  BY <1>7, <1>8 DEF BeginCall, EndCall, FileEdited, conversation, plugin
<1>9. ASSUME NEW s \in Sessions, IdleElsewhere(s) PROVE TextsSound'
  BY <1>7, <1>9 DEF IdleElsewhere
<1>10. CASE UNCHANGED vars
  BY <1>7, <1>10 DEF vars, conversation, plugin
<1> QED
  BY <1>1, <1>2, <1>3, <1>4, <1>5, <1>6, <1>8, <1>9, <1>10 DEF Next

\* When MESSAGE_COMPLETED of a turn goes out, the last text of each of its parts
\* has been posted and a post of it is over, and every copy still out says the
\* same: nothing but copies is stored behind the completion, however updates,
\* posts and flushes of the plugin interleave (flushSession and the message
\* hooks), for messages that did not come during a flush.
THEOREM TurnsAreWhole == Spec => []CompletedTurnIsWhole
<1>1. Init => TextsSound
  BY DEF Init, TextsSound, Flushing, NoFlush
<1>2. IInv /\ TextsSound => CompletedTurnIsWhole
  <2> SUFFICES ASSUME IInv, TextsSound, NEW p \in Parts, CompletedWith(p), pace[Message[p]] = "calm"
               PROVE  <<p, version[p]>> \in settled /\ OutTexts(p) \subseteq {version[p]}
    BY DEF CompletedTurnIsWhole
  <2>1. <<p, version[p]>> \in settled
    BY TurnsAre DEF IInv, LastTextsOver, CompletedWith
  <2>2. \A u \in posting : u[1] = p => u[2] = version[p]
    BY DEF IInv, PostsSound
  <2>3. \A t \in Flushing : InFlight(t) = p => flush[t].text = version[p]
    BY DEF TextsSound
  <2> QED
    BY <2>1, <2>2, <2>3 DEF OutTexts
<1>3. Spec => []TextsSound
  BY <1>1, TextsStep, Invariance, PTL DEF Spec
<1> QED
  BY <1>2, <1>3, Invariance, PTL

-----------------------------------------------------------------------------
(* Copies of a post. *)

LEMMA NewPoster ==
    ASSUME NEW p, ~(Posters(p)' \subseteq Posters(p))
    PROVE  \/ \E u \in posting' : u \notin posting /\ u[1] = p
           \/ \E t \in Flushing' : InFlight(t)' = p /\ ~ (t \in Flushing /\ InFlight(t) = p)
BY DEF Posters

LEMMA NoNewPoster ==
    ASSUME NEW p, posting' \subseteq posting, UNCHANGED <<flush, maps>>
    PROVE  NotAgain(p)
<1>1. Flushing' = Flushing /\ \A t : InFlight(t)' = InFlight(t)
  BY DEF Flushing, InFlight
<1> QED
  BY <1>1, NewPoster DEF NotAgain

\* A flush goes on with a part that is known and has not been finalized.
LEMMA GoOnNotAgain ==
    ASSUME IInv, NEW t \in 1..Turns, NEW k \in DOMAIN maps, NEW pos \in Nat, NEW done \in SUBSET Parts,
           finalized \subseteq done, GoOn(t, k, pos, done), UNCHANGED <<maps, posting>>,
           NEW p \in Parts
    PROVE  NotAgain(p)
<1> SUFFICES ASSUME pace[Message[p]] = "calm", ~(Posters(p)' \subseteq Posters(p)),
                    NEW v \in 1..MaxVersion
             PROVE  <<p, v>> \notin settled
  BY DEF NotAgain
<1>1. TypeOK /\ CalmUnposted /\ v \in Nat
  BY PluginAssumption DEF IInv
<1>2. PICK s \in Flushing' : InFlight(s)' = p /\ ~ (s \in Flushing /\ InFlight(s) = p)
  BY NewPoster
<1>3. s \in 1..Turns
  BY DEF Flushing
<1>4. s = t
  <2> SUFFICES ASSUME s # t PROVE FALSE
    OBVIOUS
  <2>1. flush'[s] = flush[s]
    BY <1>1, <1>3, GoOnIs
  <2> QED
    BY <1>2, <1>3, <2>1 DEF Flushing, InFlight
<1>5. flush'[t].at = "part"
  BY <1>2, <1>4 DEF Flushing
<1>6. flush'[t].map = k /\ flush'[t].pos \in ToPost(maps[k], pos, done)
  BY <1>1, <1>5, GoOnIs
<1>7. p = maps[k][flush'[t].pos].part
  BY <1>2, <1>4, <1>6 DEF InFlight
<1>8. Message[p] \in known /\ p \notin finalized
  BY <1>6, <1>7 DEF ToPost, Unfinalized
<1> QED
  BY <1>1, <1>8 DEF CalmUnposted

LEMMA UpdateNotAgain ==
    ASSUME IInv, NEW q \in Parts, NEW end \in BOOLEAN, UpdatePart(q, end), NEW p \in Parts
    PROVE  NotAgain(p)
<1> SUFFICES ASSUME pace[Message[p]] = "calm", ~(Posters(p)' \subseteq Posters(p)),
                    NEW v \in 1..MaxVersion
             PROVE  <<p, v>> \notin settled
  BY DEF NotAgain
<1> DEFINE w == version[q] + 1
<1>1. /\ q \notin ended /\ Remember(q, w) /\ flush' = flush
      /\ posting' = IF end /\ Message[q] \in known /\ Unfinalized(q, finalized)
                    THEN posting \cup {<<q, w>>} ELSE posting
  BY DEF UpdatePart
<1>2. TypeOK /\ MapsSound /\ FlushesSound /\ CalmUnposted /\ v \in Nat /\ w \in Nat
  BY PluginAssumption DEF IInv, TypeOK
<1> HIDE DEF w
<1>3. \A k \in DOMAIN maps : \A i \in DOMAIN maps[k] : maps'[k][i].part = maps[k][i].part
  <2>1. TypeOK /\ MapsSound /\ q \in Parts \ ended /\ w \in Nat /\ Remember(q, w)
    BY <1>1, <1>2
  <2>2. \A k \in DOMAIN maps : \A i \in DOMAIN maps[k] :
          /\ i \in DOMAIN maps'[k] /\ maps'[k][i].part = maps[k][i].part
          /\ maps[k][i].part # q => maps'[k][i] = maps[k][i]
    BY ONLY <2>1, RememberIs
  <2> QED
    BY ONLY <2>2
<1>4. ASSUME NEW t \in Flushing PROVE InFlight(t)' = InFlight(t)
  <2>1. flush[t].map \in DOMAIN maps /\ flush[t].pos \in DOMAIN maps[flush[t].map]
    BY <1>2 DEF FlushesSound
  <2>2. maps'[flush[t].map][flush[t].pos].part = maps[flush[t].map][flush[t].pos].part
    BY <1>3, <2>1
  <2> QED
    BY <1>1, <2>2 DEF InFlight
<1>5. Flushing' = Flushing
  BY <1>1 DEF Flushing
<1>6. PICK u \in posting' : u \notin posting /\ u[1] = p
  BY <1>4, <1>5, NewPoster
<1>7. p = q /\ Message[p] \in known /\ p \notin finalized
  BY <1>1, <1>6 DEF Unfinalized
<1> QED
  BY <1>2, <1>7 DEF CalmUnposted

LEMMA PartPostedNotAgain ==
    ASSUME IInv, NEW u \in posting, PartPosted(u[1], u[2]), NEW p \in Parts
    PROVE  NotAgain(p)
<1> DEFINE q == u[1]
<1>1. /\ posting' \subseteq posting /\ flush' = flush
      /\ maps' = IF current = 0 THEN maps ELSE [maps EXCEPT ![current] = Drop(@, q)]
  BY DEF PartPosted
<1>2. TypeOK /\ FlushesSound /\ q \in Parts
  BY DEF IInv, TypeOK
<1> HIDE DEF q
<1>3. ASSUME NEW t \in Flushing PROVE InFlight(t)' = InFlight(t)
  <2>1. flush[t].map \in DOMAIN maps /\ flush[t].pos \in DOMAIN maps[flush[t].map]
    BY <1>2 DEF FlushesSound
  <2>2. maps'[flush[t].map][flush[t].pos].part = maps[flush[t].map][flush[t].pos].part
    BY <1>1, <1>2, <2>1, ForgetIs
  <2> QED
    BY <1>1, <2>2 DEF InFlight
<1>4. Flushing' = Flushing
  BY <1>1 DEF Flushing
<1> QED
  BY <1>1, <1>3, <1>4, NewPoster DEF NotAgain

LEMMA IdleNotAgain ==
    ASSUME IInv, Idle, NEW p \in Parts
    PROVE  NotAgain(p)
<1>1. /\ turn <= Turns /\ UNCHANGED <<maps, posting>>
      /\ IF current # 0 THEN GoOn(turn, current, 0, finalized)
         ELSE flush' = [flush EXCEPT ![turn] = [NoFlush EXCEPT !.at = "completing"]]
  BY DEF Idle
<1>2. TypeOK /\ turn \in 1..Turns /\ 0 \in Nat /\ finalized \in SUBSET Parts
  BY <1>1, PluginAssumption DEF IInv, TypeOK
<1>3. CASE current # 0
  BY <1>1, <1>2, <1>3, GoOnNotAgain DEF TypeOK
<1>4. CASE current = 0
  <2>1. \A t \in 1..Turns : flush'[t] = flush[t] \/ flush'[t].at = "completing"
    BY <1>1, <1>2, <1>4 DEF TypeOK, NoFlush
  <2>2. \A t \in Flushing' : t \in Flushing /\ InFlight(t)' = InFlight(t)
    BY <1>1, <2>1 DEF Flushing, InFlight
  <2> QED
    BY <1>1, <2>2, NewPoster DEF NotAgain
<1> QED
  BY <1>3, <1>4

LEMMA FlushPostedNotAgain ==
    ASSUME IInv, NEW t \in 1..Turns, FlushPosted(t), NEW p \in Parts
    PROVE  NotAgain(p)
<1> DEFINE k == flush[t].map
           pos == flush[t].pos
           done == finalized \cup {InFlight(t)}
<1>1. flush[t].at = "part" /\ GoOn(t, k, pos, done) /\ UNCHANGED <<maps, posting>>
  BY DEF FlushPosted
<1>2. k \in DOMAIN maps /\ pos \in DOMAIN maps[k] /\ InFlight(t) = maps[k][pos].part
  BY <1>1 DEF IInv, Flushing, FlushesSound, InFlight
<1>3. maps[k] \in Seq(Entry)
  BY <1>2 DEF IInv, TypeOK
<1>4. maps[k][pos] \in Entry /\ pos \in Nat
  BY <1>2, <1>3
<1>5. done \in SUBSET Parts
  BY <1>2, <1>4 DEF IInv, TypeOK, Entry
<1> HIDE DEF k, pos, done
<1>6. finalized \subseteq done
  BY DEF done
<1> QED
  BY <1>1, <1>2, <1>4, <1>5, <1>6, GoOnNotAgain

LEMMA CompletedNotAgain ==
    ASSUME IInv, NEW t \in 1..Turns, CompletedPosted(t), NEW p \in Parts
    PROVE  NotAgain(p)
<1>1. flush' = [flush EXCEPT ![t].at = "done"] /\ flush[t].at = "completing" /\ UNCHANGED <<maps, posting>>
  BY DEF CompletedPosted
<1>2. \A s \in 1..Turns : flush'[s] = flush[s] \/ flush'[s].at = "done"
  BY <1>1 DEF IInv, TypeOK, Flush
<1>3. \A s \in Flushing' : s \in Flushing /\ InFlight(s)' = InFlight(s)
  BY <1>1, <1>2 DEF Flushing, InFlight
<1> QED
  BY <1>1, <1>3, NewPoster DEF NotAgain

\* A part whose post is over is not posted again, by no update and by no flush
\* (finalizedParts, which both ask before they post).
THEOREM NothingPostedAgain == Spec => NoLateCopy
<1>1. ASSUME IInv, [Next]_vars
      PROVE  [\A p \in Parts :
                /\ pace[Message[p]] = "calm"
                /\ ~(Posters(p)' \subseteq Posters(p))
                => \A v \in 1..MaxVersion : <<p, v>> \notin settled]_vars
  <2> SUFFICES ASSUME NEW p \in Parts, vars' # vars PROVE NotAgain(p)
    BY DEF NotAgain
  <2>1. ASSUME NEW m \in Messages, Announce(m) PROVE NotAgain(p)
    BY <2>1, NoNewPoster DEF Announce
  <2>2. ASSUME NEW q \in Parts, NEW end \in BOOLEAN, UpdatePart(q, end) PROVE NotAgain(p)
    BY <1>1, <2>2, UpdateNotAgain
  <2>3. ASSUME NEW u \in posting, PartPosted(u[1], u[2]) PROVE NotAgain(p)
    BY <1>1, <2>3, PartPostedNotAgain
  <2>4. CASE Idle
    BY <1>1, <2>4, IdleNotAgain
  <2>5. ASSUME NEW t \in 1..Turns, FlushPosted(t) \/ CompletedPosted(t) PROVE NotAgain(p)
    BY <1>1, <2>5, FlushPostedNotAgain, CompletedNotAgain
  <2>6. ASSUME NEW c \in Calls,
               \/ BeginCall(c) \/ \E throws \in BOOLEAN : EndCall(c, throws)
               \/ \E n \in {"own", "none", "unusable"} : FileEdited(c, n)
        PROVE  NotAgain(p)
    BY <2>6, NoNewPoster DEF BeginCall, EndCall, FileEdited, plugin
  <2>7. ASSUME NEW s \in Sessions, IdleElsewhere(s) PROVE NotAgain(p)
    BY <2>7, NoNewPoster DEF IdleElsewhere
  <2> QED
    BY <1>1, <2>1, <2>2, <2>3, <2>4, <2>5, <2>6, <2>7 DEF Next
<1> QED
  BY <1>1, Invariance, PTL DEF Spec, NoLateCopy

-----------------------------------------------------------------------------
(* Tool calls and the files they edit. *)

LEMMA CallsStep == CallsInv /\ [Next]_vars => CallsInv'
<1> SUFFICES ASSUME CallsInv, [Next]_vars PROVE CallsInv'
  OBVIOUS
<1>1. CASE UNCHANGED <<running, active, filed>>
  BY <1>1 DEF CallsInv, FileToItsSession
<1>2. ASSUME running' \subseteq running \cap active', active' \subseteq active, filed' = filed PROVE CallsInv'
  <2>1. IsFiniteSet(active')
    BY <1>2, FS_Subset DEF CallsInv
  <2> QED
    BY <1>2, <2>1 DEF CallsInv, FileToItsSession
<1>3. ASSUME NEW s, running' = running \ {c \in Calls : SessionOf[c] = s},
             active' = active \ ClearedOf(s), filed' = filed
      PROVE  CallsInv'
  BY <1>2, <1>3 DEF CallsInv, ClearedOf
<1>4. ASSUME NEW c \in Calls, BeginCall(c) PROVE CallsInv'
  <2>1. IsFiniteSet(active \cup {c})
    BY FS_AddElement DEF CallsInv
  <2> QED
    BY <1>4, <2>1 DEF BeginCall, CallsInv, FileToItsSession
<1>5. ASSUME NEW c \in Calls, NEW throws \in BOOLEAN, EndCall(c, throws) PROVE CallsInv'
  BY <1>2, <1>5 DEF CallsInv, EndCall
<1>6. ASSUME NEW c \in Calls, NEW n \in {"own", "none", "unusable"}, FileEdited(c, n) PROVE CallsInv'
  <2>1. PICK s \in Attributed(n, SessionOf[c]) : filed' = filed \cup {<<SessionOf[c], s>>}
    BY <1>6 DEF FileEdited
  <2>2. c \in running /\ running' = running /\ active' = active
    BY <1>6 DEF FileEdited, conversation, plugin
  <2>3. s = SessionOf[c]
    <3>1. CASE n = "own"
      BY <2>1, <3>1 DEF Attributed
    <3>2. CASE n = "none"
      <4>1. s \in ActiveSessions /\ Cardinality(ActiveSessions) = 1
        BY <2>1, <3>2 DEF Attributed, UniqueActive
      <4>2. SessionOf[c] \in ActiveSessions
        BY <2>2 DEF CallsInv, ActiveSessions
      <4>3. IsFiniteSet(ActiveSessions)
        <5> DEFINE f == [d \in active |-> SessionOf[d]]
        <5>1. f \in Surjection(active, ActiveSessions)
          BY DEF Surjection, ActiveSessions
        <5> QED
          BY <5>1, FS_Surjection DEF CallsInv
      <4> QED
        BY <4>1, <4>2, <4>3, FS_Singleton
    <3>3. CASE n = "unusable"
      BY <2>1, <3>3 DEF Attributed
    <3> QED
      BY <3>1, <3>2, <3>3
  <2> QED
    BY <2>1, <2>2, <2>3 DEF CallsInv, FileToItsSession
<1>7. ASSUME NEW s \in Sessions, IdleElsewhere(s) PROVE CallsInv'
  BY <1>3, <1>7 DEF IdleElsewhere
<1>8. CASE Idle
  BY <1>3, <1>8 DEF Idle
<1>9. ASSUME NEW m \in Messages, Announce(m) PROVE CallsInv'
  BY <1>1, <1>9 DEF Announce
<1>10. ASSUME NEW p \in Parts, NEW end \in BOOLEAN, UpdatePart(p, end) PROVE CallsInv'
  BY <1>1, <1>10 DEF UpdatePart
<1>11. ASSUME NEW u \in posting, PartPosted(u[1], u[2]) PROVE CallsInv'
  BY <1>1, <1>11 DEF PartPosted, conversation
<1>12. ASSUME NEW t \in 1..Turns, FlushPosted(t) \/ CompletedPosted(t) PROVE CallsInv'
  BY <1>1, <1>12 DEF FlushPosted, CompletedPosted, conversation
<1>13. CASE UNCHANGED vars
  BY <1>1, <1>13 DEF vars, conversation, plugin
<1> QED
  BY <1>4, <1>5, <1>6, <1>7, <1>8, <1>9, <1>10, <1>11, <1>12, <1>13 DEF Next

\* An edit of a running call is stored for the session that made the call, or
\* for none (activeToolSessions and the attribution of file.edited).
THEOREM EditsAreAttributed == Spec => []FileToItsSession
<1>1. Init => CallsInv
  BY FS_EmptySet DEF Init, CallsInv, FileToItsSession
<1>2. CallsInv => FileToItsSession
  BY DEF CallsInv
<1> QED
  BY <1>1, <1>2, CallsStep, PTL DEF Spec

=============================================================================
