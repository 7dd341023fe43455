--------------------------- MODULE Collab_proofs ----------------------------
(***************************************************************************)
(* What the shared document's room promises, for every number of desks,    *)
(* sockets and rooms and however often something goes wrong (CollabRoom):  *)
(* a session has one room, the room leaves memory only when its edits are  *)
(* in the row, and no save takes an edit out of the row again.  And what   *)
(* the lists in that document promise, for every number of desks, items    *)
(* and edits (TakeLists): they converge, and nothing of them gets lost.    *)
(***************************************************************************)
EXTENDS CollabRoom, TakeLists, FiniteSetTheorems, WellFoundedInduction, TLAPS

MsgOf(S) == [tag : {"step1", "update"}, edits : SUBSET S]

Cont == [kind : {"release", "evict", "shutdown"}, left : Nat]

RoomOf(S) ==
    [is : {"none", "init", "live", "failed"}, doc : SUBSET S, conns : SUBSET Socket,
     dirty : BOOLEAN, saveTimer : BOOLEAN, queued : Nat, busy : BOOLEAN, writing : SUBSET S,
     conts : SUBSET Cont, evictTimer : BOOLEAN, evicted : BOOLEAN]

\* What the desks and the network keep.
NetTyped ==
    /\ doc \in [Desk -> SUBSET edited] /\ pend \in [Desk -> SUBSET edited]
    /\ ws \in [Desk -> Socket \cup {NoSocket}]
    /\ wire \in [Socket -> {"unused", "open", "shut"}]
    /\ up \in [Socket -> Seq(MsgOf(edited))] /\ down \in [Socket -> Seq(MsgOf(edited))]
    /\ attach \in [Socket -> [room : 0..MaxCollabRooms, tries : Nat]]

\* What the hub keeps.
HubTyped ==
    /\ current \in 0..MaxCollabRooms
    /\ room \in [CRoom -> RoomOf(edited)]
    /\ row \in [there : BOOLEAN, doc : SUBSET edited]
    /\ session \in BOOLEAN /\ closing \in BOOLEAN
    /\ erasing \in [at : {"no", "room", "row", "done", "cut"}, room : 0..MaxCollabRooms]

\* A save that is writing is in the chain, and so is whatever waits for one; before
\* it is loaded a room has nothing.
Shape(rm) ==
    /\ rm.busy => rm.queued > 0
    /\ \A k \in rm.conts : k.left \in 1..rm.queued
    /\ rm.is # "live" =>
          /\ rm.queued = 0 /\ ~rm.busy /\ ~rm.dirty /\ ~rm.saveTimer
          /\ ~rm.evictTimer /\ ~rm.evicted /\ rm.conns = {}

\* Rooms are loaded one after the other.
LoadedInOrder == \E n \in 0..MaxCollabRooms : \A r \in CRoom : room[r].is # "none" <=> r <= n

\* The room the map names is loading or live, and there is none while shutting down.
CurrentIsOpen ==
    current # 0 => room[current].is \in {"init", "live"} /\ ~room[current].evicted /\ ~closing

\* The room that a deletion waits for has left the map, and nothing of its own runs.
AwaitedIsQuiet ==
    erasing.at = "room" =>
        /\ erasing.room # 0 /\ erasing.room # current
        /\ LET rm == room[erasing.room] IN
           rm.is # "none" /\ rm.queued = 0 /\ ~rm.saveTimer /\ ~rm.evictTimer

\* Any other room that was loaded has been evicted, and is empty.
OthersAreGone ==
    ~closing => \A r \in CRoom :
        /\ (room[r].is \in {"init", "live"} /\ ~room[r].evicted) =>
              (r = current \/ (erasing.at = "room" /\ r = erasing.room))
        /\ room[r].evicted => room[r].conns = {}

\* A room with edits to save, or that may still get some.
Active(r) == r = current \/ room[r].busy \/ room[r].dirty

\* One room saves at a time, it has every edit of the row, and what it has neither
\* saved nor under way it knows to be dirty.
OneSaves ==
    erasing.at = "no" =>
        /\ \A r, s \in CRoom : Active(r) /\ Active(s) => r = s
        /\ ~closing => \A r \in CRoom : Active(r) => r = current
        /\ \A r \in CRoom : room[r].is = "live" =>
              /\ Active(r) => row.doc \subseteq room[r].doc
              /\ room[r].busy => /\ row.doc \subseteq room[r].writing
                                 /\ room[r].writing \subseteq room[r].doc
                                 /\ room[r].dirty \/ room[r].writing = room[r].doc
              /\ ~room[r].busy /\ ~room[r].dirty => room[r].doc \subseteq row.doc

\* The session row goes with the deletion and stays away.
RowFollowsSession ==
    /\ erasing.at = "no" => session
    /\ erasing.at = "done" => ~session /\ ~row.there

HubInv ==
    /\ HubTyped /\ \A r \in CRoom : Shape(room[r])
    /\ LoadedInOrder /\ CurrentIsOpen /\ AwaitedIsQuiet /\ OthersAreGone /\ OneSaves
    /\ RowFollowsSession

CollabInv == NetTyped /\ HubInv

-----------------------------------------------------------------------------
(* Frames and rooms.                                                       *)

\* A frame that says what some edits say is also one about more edits.
LEMMA MoreEdits ==
    ASSUME NEW S, NEW T, S \subseteq T
    PROVE  Seq(MsgOf(S)) \subseteq Seq(MsgOf(T)) /\ RoomOf(S) \subseteq RoomOf(T)
<1>1. MsgOf(S) \subseteq MsgOf(T)
  BY DEF MsgOf
<1>2. RoomOf(S) \subseteq RoomOf(T)
  BY DEF RoomOf
<1>3. ASSUME NEW A, NEW B, A \subseteq B PROVE Seq(A) \subseteq Seq(B)
  BY <1>3
<1> QED
  BY <1>1, <1>2, <1>3

\* Queues of frames stay so when one is posted or taken.
LEMMA FrameQueues ==
    ASSUME NEW S, NEW q \in Seq(MsgOf(S))
    PROVE  /\ \A m \in MsgOf(S) : Post(q, m) \in Seq(MsgOf(S))
           /\ q # <<>> => Head(q) \in MsgOf(S) /\ Tail(q) \in Seq(MsgOf(S))
           /\ \A e \in SUBSET S : /\ Step1(e) \in MsgOf(S) /\ Update(e) \in MsgOf(S)
                                  /\ <<Step1(e)>> \in Seq(MsgOf(S))
<1> DEFINE M == MsgOf(S)
<1>1. \A e \in SUBSET S : Step1(e) \in M /\ Update(e) \in M
  BY DEF Step1, Update, MsgOf
<1> HIDE DEF M
<1>2. /\ \A m \in M : Post(q, m) \in Seq(M)
      /\ q # <<>> => Head(q) \in M /\ Tail(q) \in Seq(M)
  <2>1. q \in Seq(M)
    BY DEF M
  <2> QED
    BY <2>1 DEF Post
<1>3. \A m \in M : <<m>> \in Seq(M)
  OBVIOUS
<1> QED
  BY <1>1, <1>2, <1>3 DEF M

\* The next room to load is one that was not loaded before.
LEMMA NextIsFresh ==
    ASSUME HubInv, MayGetRoom
    PROVE  /\ NextRoom \in CRoom
           /\ current = 0 =>
                 /\ room[NextRoom].is = "none"
                 /\ \A r \in CRoom : room[r].is # "none" <=> r <= NextRoom - 1
<1>1. CASE current # 0
  BY <1>1 DEF HubInv, HubTyped, NextRoom, CRoom
<1>2. CASE current = 0
  <2>1. PICK n \in 0..MaxCollabRooms : \A r \in CRoom : room[r].is # "none" <=> r <= n
    BY DEF HubInv, LoadedInOrder
  <2>2. {r \in CRoom : room[r].is # "none"} = 1..n
    BY <2>1, CollabAssumption DEF CRoom
  <2>3. Cardinality(1..n) = n
    BY <2>1, FS_Interval, CollabAssumption
  <2>4. LoadedRooms = n /\ NextRoom = n + 1 /\ n < MaxCollabRooms
    BY <1>2, <2>2, <2>3 DEF LoadedRooms, NextRoom, MayGetRoom
  <2> QED
    BY <1>2, <2>1, <2>4, CollabAssumption DEF CRoom
<1> QED
  BY <1>1, <1>2

-----------------------------------------------------------------------------
(* Steps of the hub.                                                       *)

\* A step of desks and network leaves the hub as it is.
LEMMA HubRests ==
    ASSUME HubInv, UNCHANGED <<current, room, row, session, erasing, closing>>, edited \subseteq edited'
    PROVE  HubInv'
<1>1. RoomOf(edited) \subseteq RoomOf(edited')
  BY MoreEdits
<1>2. HubTyped'
  BY <1>1 DEF HubInv, HubTyped
<1> QED
  BY <1>2 DEF HubInv, LoadedInOrder, CurrentIsOpen, AwaitedIsQuiet, OthersAreGone, OneSaves,
              Active, RowFollowsSession

\* getRoom: the room the map names, or a new one that begins to load.
LEMMA GetRoomKeeps ==
    ASSUME HubInv, MayGetRoom, ~closing, current' = NextRoom, room' = WithRoom,
           UNCHANGED <<edited, row, session, erasing, closing>>
    PROVE  HubInv'
<1>1. CASE current # 0
  <2>1. current' = current /\ room' = room
    BY <1>1 DEF NextRoom, WithRoom
  <2> QED
    BY <2>1, HubRests
<1>2. CASE current = 0
  <2> DEFINE n == NextRoom
  <2>1. /\ n \in CRoom /\ room[n].is = "none"
        /\ \A r \in CRoom : room[r].is # "none" <=> r <= n - 1
    BY <1>2, NextIsFresh
  <2>2. room' = [room EXCEPT ![n] = [room[n] EXCEPT !.is = "init"]] /\ current' = n
    BY <1>2 DEF WithRoom
  <2> HIDE DEF n
  <2>3. HubTyped
    BY DEF HubInv
  <2>4. room[n] \in RoomOf(edited) /\ Shape(room[n])
    BY <2>1, <2>3 DEF HubInv, HubTyped
  <2> DEFINE rm == [room[n] EXCEPT !.is = "init"]
  <2>5. /\ rm \in RoomOf(edited) /\ Shape(rm) /\ rm.is = "init" /\ ~rm.evicted /\ ~rm.busy
        /\ ~rm.dirty /\ rm.conns = {}
    BY <2>1, <2>4 DEF RoomOf, Shape
  <2>6. room' \in [CRoom -> RoomOf(edited)] /\ room'[n] = rm /\ \A r \in CRoom : r # n => room'[r] = room[r]
    BY <2>1, <2>2, <2>3, <2>5 DEF HubTyped
  <2> HIDE DEF rm
  <2>7. n \in 1..MaxCollabRooms
    BY <2>1 DEF CRoom
  <2>8. HubTyped' /\ (\A r \in CRoom : Shape(room[r]))'
    BY <2>2, <2>3, <2>5, <2>6, <2>7, CollabAssumption DEF HubInv, HubTyped
  <2>9. LoadedInOrder' /\ CurrentIsOpen'
    <3>1. \A r \in CRoom : room'[r].is # "none" <=> r <= n
      <4> SUFFICES ASSUME NEW r \in CRoom PROVE room'[r].is # "none" <=> r <= n
        OBVIOUS
      <4>1. CASE r = n
        BY <2>5, <2>6, <2>7, <4>1
      <4>2. CASE r # n
        BY <2>1, <2>6, <2>7, <4>2, CollabAssumption DEF CRoom
      <4> QED
        BY <4>1, <4>2
    <3>2. n \in 0..MaxCollabRooms
      BY <2>7, CollabAssumption
    <3> QED
      BY <2>2, <2>5, <2>6, <3>1, <3>2 DEF LoadedInOrder, CurrentIsOpen
  <2>10. AwaitedIsQuiet'
    <3> SUFFICES ASSUME erasing.at = "room" PROVE AwaitedIsQuiet'
      BY DEF AwaitedIsQuiet
    <3>1. /\ erasing.room # 0 /\ room[erasing.room].is # "none" /\ erasing.room \in CRoom
      BY <2>3, CollabAssumption DEF HubInv, AwaitedIsQuiet, HubTyped, CRoom
    <3>2. erasing.room # n
      BY <2>1, <3>1
    <3> QED
      BY <2>2, <2>6, <3>1, <3>2 DEF HubInv, AwaitedIsQuiet
  <2>11. OthersAreGone'
    BY <1>2, <2>2, <2>5, <2>6, <2>7 DEF HubInv, OthersAreGone, CRoom
  <2>12. OneSaves'
    <3> SUFFICES ASSUME erasing.at = "no" PROVE OneSaves'
      BY DEF OneSaves
    <3>1. \A r \in CRoom : ~Active(r)
      BY <1>2 DEF HubInv, OneSaves, CRoom
    <3>2. \A r \in CRoom : Active(r)' => r = n
      BY <2>2, <2>6, <3>1 DEF Active
    <3> QED
      BY <2>2, <2>5, <2>6, <3>1, <3>2 DEF HubInv, OneSaves, Active
  <2> QED
    BY <2>8, <2>9, <2>10, <2>11, <2>12 DEF HubInv, RowFollowsSession
<1> QED
  BY <1>1, <1>2

\* A step of one room that is loading or live: it gains or loses desks, edits, saves
\* and timers, or is evicted after a save that left nothing unsaved.
LEMMA RoomChanges ==
    ASSUME HubInv, NEW r \in CRoom, NEW rm \in RoomOf(edited), Shape(rm),
           room[r].is \in {"init", "live"}, rm.is = "live", room' = [room EXCEPT ![r] = rm],
           UNCHANGED <<edited, session, erasing, closing>>,
           \/ current' = current /\ rm.evicted = room[r].evicted
           \/ /\ ~room[r].evicted /\ rm.evicted /\ rm.conns = {} /\ ~rm.busy /\ ~rm.dirty
              /\ room[r].queued > 0 /\ current' = 0,
           ~closing /\ rm.evicted => rm.conns = {},
           (erasing.at = "room" /\ r = erasing.room) =>
               rm.queued = 0 /\ ~rm.saveTimer /\ ~rm.evictTimer,
           row' \in [there : BOOLEAN, doc : SUBSET edited],
           \/ row' = row
           \/ session /\ room[r].busy /\ row'.doc = room[r].writing,
           erasing.at = "no" =>
               /\ (rm.busy \/ rm.dirty) => Active(r)
               /\ Active(r) => row'.doc \subseteq rm.doc
               /\ rm.busy => /\ row'.doc \subseteq rm.writing /\ rm.writing \subseteq rm.doc
                             /\ rm.dirty \/ rm.writing = rm.doc
               /\ ~rm.busy /\ ~rm.dirty => rm.doc \subseteq row'.doc
    PROVE  HubInv'
<1>1. /\ HubTyped /\ r # 0 /\ r \in Nat
      /\ room' \in [CRoom -> RoomOf(edited)] /\ room'[r] = rm
      /\ \A s \in CRoom : s # r => room'[s] = room[s]
  BY DEF HubInv, HubTyped, CRoom
<1>2. HubTyped' /\ (\A s \in CRoom : Shape(room[s]))'
  <2>1. current' \in 0..MaxCollabRooms
    BY <1>1, CollabAssumption DEF HubTyped
  <2>2. HubTyped'
    BY <1>1, <2>1 DEF HubTyped
  <2> QED
    BY <1>1, <2>2 DEF HubInv
<1>3. LoadedInOrder'
  <2>1. \A s \in CRoom : room'[s].is # "none" <=> room[s].is # "none"
    BY <1>1
  <2> QED
    BY <2>1 DEF HubInv, LoadedInOrder
<1>4. (current' = 0 \/ current' = current) /\ (current' # 0 => current' \in CRoom)
  BY <1>1, CollabAssumption DEF HubTyped, CRoom
<1>5. CurrentIsOpen'
  BY <1>1, <1>4 DEF HubInv, CurrentIsOpen
<1>6. AwaitedIsQuiet'
  <2> SUFFICES ASSUME erasing.at = "room" PROVE AwaitedIsQuiet'
    BY DEF AwaitedIsQuiet
  <2>1. erasing.room \in CRoom
    BY <1>1, CollabAssumption DEF HubInv, AwaitedIsQuiet, HubTyped, CRoom
  <2> QED
    BY <1>1, <1>4, <2>1 DEF HubInv, AwaitedIsQuiet
<1>7. ASSUME current' # current
      PROVE  current' = 0 /\ (closing \/ r = current) /\ ~rm.busy /\ ~rm.dirty
  <2>1. ~(erasing.at = "room" /\ r = erasing.room)
    BY <1>7 DEF HubInv, AwaitedIsQuiet
  <2> QED
    BY <1>7, <2>1 DEF HubInv, OthersAreGone
<1>8. OthersAreGone'
  <2> SUFFICES ASSUME ~closing, NEW s \in CRoom
               PROVE  /\ (room'[s].is \in {"init", "live"} /\ ~room'[s].evicted) =>
                            (s = current' \/ (erasing.at = "room" /\ s = erasing.room))
                      /\ room'[s].evicted => room'[s].conns = {}
    BY DEF OthersAreGone
  <2>1. CASE s = r
    BY <1>1, <2>1 DEF HubInv, OthersAreGone
  <2>2. CASE s # r
    BY <1>1, <1>7, <2>2 DEF HubInv, OthersAreGone
  <2> QED
    BY <2>1, <2>2
<1>9. OneSaves'
  <2> SUFFICES ASSUME erasing.at = "no" PROVE OneSaves'
    BY DEF OneSaves
  <2>1. \A s \in CRoom : Active(s)' => Active(s)
    <3> SUFFICES ASSUME NEW s \in CRoom, Active(s)' PROVE Active(s)
      OBVIOUS
    <3>1. s # 0
      BY DEF CRoom
    <3> QED
      BY <1>1, <1>4, <3>1 DEF Active
  <2>2. ASSUME ~closing, NEW s \in CRoom, Active(s)' PROVE s = current'
    <3>1. s = current
      BY <2>1, <2>2 DEF HubInv, OneSaves
    <3>2. current' # current => s = r /\ ~Active(r)'
      BY <1>1, <1>7, <2>2, <3>1 DEF Active
    <3> QED
      BY <2>2, <3>1, <3>2
  <2>3. ASSUME NEW s \in CRoom, s # r, room[s].is = "live"
        PROVE  /\ Active(s)' => row'.doc \subseteq room[s].doc
               /\ room[s].busy => /\ row'.doc \subseteq room[s].writing
                                  /\ room[s].writing \subseteq room[s].doc
                                  /\ room[s].dirty \/ room[s].writing = room[s].doc
               /\ ~room[s].busy /\ ~room[s].dirty => room[s].doc \subseteq row'.doc
    <3>1. CASE row' = row
      BY <2>1, <2>3, <3>1 DEF HubInv, OneSaves
    <3>2. CASE session /\ room[r].busy /\ row'.doc = room[r].writing
      <4>1. Active(r) /\ ~Active(s) /\ room[r].is = "live"
        BY <2>3, <3>2 DEF HubInv, OneSaves, Active, Shape
      <4>2. row.doc \subseteq row'.doc
        BY <3>2, <4>1 DEF HubInv, OneSaves
      <4> QED
        BY <2>1, <2>3, <4>1, <4>2 DEF HubInv, OneSaves, Active
    <3> QED
      BY <3>1, <3>2
  <2>4. ASSUME NEW s \in CRoom, room'[s].is = "live"
        PROVE  /\ Active(s)' => row'.doc \subseteq room'[s].doc
               /\ room'[s].busy => /\ row'.doc \subseteq room'[s].writing
                                   /\ room'[s].writing \subseteq room'[s].doc
                                   /\ room'[s].dirty \/ room'[s].writing = room'[s].doc
               /\ ~room'[s].busy /\ ~room'[s].dirty => room'[s].doc \subseteq row'.doc
    <3>1. CASE s = r
      BY <1>1, <2>1, <3>1
    <3>2. CASE s # r
      BY <1>1, <2>3, <2>4, <3>2
    <3> QED
      BY <3>1, <3>2
  <2>5. \A s, t \in CRoom : Active(s)' /\ Active(t)' => s = t
    BY <2>1 DEF HubInv, OneSaves
  <2> QED
    BY <2>2, <2>4, <2>5 DEF OneSaves
<1>10. RowFollowsSession'
  BY DEF HubInv, RowFollowsSession
<1> QED
  BY <1>2, <1>3, <1>5, <1>6, <1>8, <1>9, <1>10 DEF HubInv

-----------------------------------------------------------------------------
(* Each step of the hub.                                                   *)

\* flushRoom: one more save in the chain, and someone who waits for it.
LEMMA FlushShape ==
    ASSUME NEW rm \in RoomOf(edited), Shape(rm), rm.is = "live",
           NEW kind \in {"release", "evict", "shutdown"}
    PROVE  /\ flushRoom(rm, kind) \in RoomOf(edited) /\ Shape(flushRoom(rm, kind))
           /\ flushRoom(rm, kind).is = "live" /\ flushRoom(rm, kind).doc = rm.doc
           /\ flushRoom(rm, kind).conns = rm.conns /\ flushRoom(rm, kind).dirty = rm.dirty
           /\ flushRoom(rm, kind).busy = rm.busy /\ flushRoom(rm, kind).writing = rm.writing
           /\ flushRoom(rm, kind).evicted = rm.evicted
<1> DEFINE more == rm.queued + 1
           all == rm.conts \cup {[kind |-> kind, left |-> more]}
           fl == [rm EXCEPT !.saveTimer = FALSE, !.queued = more, !.conts = all]
<1>1. rm.queued \in Nat /\ rm.conts \subseteq Cont
  BY DEF RoomOf
<1>2. more \in Nat /\ more > 0 /\ all \in SUBSET Cont
  BY <1>1 DEF Cont
<1>3. \A k \in all : k.left \in 1..more
  BY <1>1 DEF Shape
<1>4. flushRoom(rm, kind) = fl
  BY DEF flushRoom, RoomOf
<1> HIDE DEF more, all
<1>5. /\ fl \in RoomOf(edited) /\ fl.is = "live" /\ fl.doc = rm.doc /\ fl.conns = rm.conns
      /\ fl.dirty = rm.dirty /\ fl.busy = rm.busy /\ fl.writing = rm.writing
      /\ fl.evicted = rm.evicted /\ fl.queued = more /\ fl.conts = all
  BY <1>2 DEF RoomOf
<1>6. Shape(fl)
  BY <1>2, <1>3, <1>5 DEF Shape
<1> QED
  BY <1>4, <1>5, <1>6

\* The room once a save of rm is over, whoever waited for it having gone on.
Settled(rm) ==
    LET left == {[k EXCEPT !.left = @ - 1] : k \in rm.conts}
        over == {k.kind : k \in {x \in left : x.left = 0}}
        base == [rm EXCEPT !.queued = @ - 1, !.busy = FALSE, !.writing = {},
                           !.conts = {k \in left : k.left > 0}]
        rel == IF "release" \in over THEN releaseRoom(base) ELSE base
    IN  IF "evict" \in over THEN evictRoom(rel) ELSE rel

\* A room whose save is over is evicted only when it is empty and has nothing to save.
LEMMA SettledShape ==
    ASSUME NEW rm \in RoomOf(edited), Shape(rm), rm.is = "live", rm.queued > 0
    PROVE  /\ Settled(rm) \in RoomOf(edited) /\ Shape(Settled(rm))
           /\ Settled(rm).is = "live" /\ Settled(rm).doc = rm.doc
           /\ Settled(rm).conns = rm.conns /\ Settled(rm).dirty = rm.dirty
           /\ ~Settled(rm).busy
           /\ \/ Settled(rm).evicted = rm.evicted
              \/ ~rm.evicted /\ Settled(rm).evicted /\ rm.conns = {} /\ ~rm.dirty
<1> DEFINE left == {[k EXCEPT !.left = @ - 1] : k \in rm.conts}
           over == {k.kind : k \in {x \in left : x.left = 0}}
           less == rm.queued - 1
           wait == {k \in left : k.left > 0}
           base == [rm EXCEPT !.queued = less, !.busy = FALSE, !.writing = {}, !.conts = wait]
           rel == IF "release" \in over THEN releaseRoom(base) ELSE base
           end == IF "evict" \in over THEN evictRoom(rel) ELSE rel
<1>1. rm.queued \in Nat /\ rm.conts \subseteq Cont
  BY DEF RoomOf
<1>2. less \in Nat /\ wait \in SUBSET Cont /\ \A k \in wait : k.left \in 1..less
  <2>1. ASSUME NEW k \in wait PROVE k \in Cont /\ k.left \in 1..less
    <3>1. PICK j \in rm.conts : k = [j EXCEPT !.left = @ - 1]
      OBVIOUS
    <3>2. j \in Cont /\ j.left \in 1..rm.queued
      BY <1>1 DEF Shape
    <3>3. k.left = j.left - 1 /\ k = [kind |-> j.kind, left |-> j.left - 1]
      BY <3>1, <3>2 DEF Cont
    <3>4. k.left > 0
      OBVIOUS
    <3> QED
      BY <1>1, <3>2, <3>3, <3>4 DEF Cont
  <2> QED
    BY <1>1, <2>1
<1>3. Settled(rm) = end
  BY DEF Settled, RoomOf
<1> HIDE DEF left, over, less, wait
<1>4. /\ base \in RoomOf(edited) /\ base.is = "live" /\ base.doc = rm.doc /\ base.conns = rm.conns
      /\ base.dirty = rm.dirty /\ base.busy = FALSE /\ base.evicted = rm.evicted
      /\ base.queued = less /\ base.conts = wait
  BY <1>2 DEF RoomOf
<1> HIDE DEF base
<1>5. /\ rel \in RoomOf(edited) /\ rel.is = "live" /\ rel.doc = rm.doc /\ rel.conns = rm.conns
      /\ rel.dirty = rm.dirty /\ rel.busy = FALSE /\ rel.evicted = rm.evicted
      /\ rel.queued = less /\ rel.conts = wait
  BY <1>4 DEF releaseRoom, RoomOf
<1> HIDE DEF rel
<1>6. /\ end \in RoomOf(edited) /\ end.is = "live" /\ end.doc = rm.doc /\ end.conns = rm.conns
      /\ end.dirty = rm.dirty /\ end.busy = FALSE
      /\ end.queued = less /\ end.conts = wait
      /\ \/ end.evicted = rm.evicted
         \/ ~rm.evicted /\ end.evicted /\ rm.conns = {} /\ ~rm.dirty
  BY <1>5 DEF evictRoom, RoomOf
<1> HIDE DEF end
<1>7. Shape(end)
  BY <1>2, <1>6 DEF Shape
<1> QED
  BY <1>3, <1>6, <1>7

\* SaveOver is that, and the map forgets the room with its eviction.
LEMMA SaveOverIs ==
    ASSUME NEW r, NEW rm, SaveOver(r, rm)
    PROVE  /\ room' = [room EXCEPT ![r] = Settled(rm)]
           /\ current' = IF Settled(rm).evicted /\ ~rm.evicted THEN 0 ELSE current
BY DEF SaveOver, Settled

\* A room that is not settled yet: what an end of its save makes of it.
LEMMA SaveOverKeeps ==
    ASSUME HubInv, NEW r \in CRoom, NEW rm \in RoomOf(edited), SaveOver(r, rm),
           room[r].queued > 0, Shape(rm), rm.is = "live", rm.queued > 0,
           rm.doc = room[r].doc, rm.conns = room[r].conns, rm.evicted = room[r].evicted,
           UNCHANGED <<edited, session, erasing, closing>>,
           row' \in [there : BOOLEAN, doc : SUBSET edited],
           row' = row \/ (session /\ room[r].busy /\ row'.doc = room[r].writing),
           rm.dirty => room[r].dirty \/ room[r].busy,
           erasing.at = "no" =>
               /\ Active(r) => row'.doc \subseteq rm.doc
               /\ ~rm.dirty => rm.doc \subseteq row'.doc
    PROVE  HubInv'
<1> DEFINE end == Settled(rm)
<1>1. /\ room' = [room EXCEPT ![r] = end]
      /\ current' = IF end.evicted /\ ~rm.evicted THEN 0 ELSE current
  BY SaveOverIs
<1>2. /\ end \in RoomOf(edited) /\ Shape(end) /\ end.is = "live" /\ end.doc = rm.doc
      /\ end.conns = rm.conns /\ end.dirty = rm.dirty /\ ~end.busy
      /\ \/ end.evicted = rm.evicted
         \/ ~rm.evicted /\ end.evicted /\ rm.conns = {} /\ ~rm.dirty
  BY SettledShape
<1> HIDE DEF end
<1>3. /\ room[r].is = "live" /\ HubTyped /\ room[r].queued # 0
      /\ room[r].evicted \in BOOLEAN /\ end.evicted \in BOOLEAN
  <2>1. HubTyped /\ Shape(room[r])
    BY DEF HubInv
  <2>2. room[r] \in RoomOf(edited)
    BY <2>1 DEF HubTyped
  <2> QED
    BY <1>2, <2>1, <2>2 DEF Shape, RoomOf
<1>4. ~closing /\ end.evicted => end.conns = {}
  BY <1>2 DEF HubInv, OthersAreGone
<1>5. ~(erasing.at = "room" /\ r = erasing.room)
  BY <1>3 DEF HubInv, AwaitedIsQuiet
<1>6. \/ current' = current /\ end.evicted = room[r].evicted
      \/ /\ ~room[r].evicted /\ end.evicted /\ end.conns = {} /\ ~end.busy /\ ~end.dirty
         /\ room[r].queued > 0 /\ current' = 0
  BY <1>1, <1>2, <1>3
<1>7. erasing.at = "no" =>
         /\ (end.busy \/ end.dirty) => Active(r)
         /\ Active(r) => row'.doc \subseteq end.doc
         /\ ~end.busy /\ ~end.dirty => end.doc \subseteq row'.doc
  BY <1>2 DEF Active
<1> QED
  BY <1>1, <1>2, <1>3, <1>4, <1>5, <1>6, <1>7, RoomChanges

\* What is known of a room that does anything.
LEMMA RoomFacts ==
    ASSUME HubInv, NEW r \in CRoom
    PROVE  /\ room[r] \in RoomOf(edited) /\ Shape(room[r]) /\ HubTyped
           /\ row \in [there : BOOLEAN, doc : SUBSET edited]
           /\ room[r].queued > 0 \/ room[r].busy \/ room[r].saveTimer \/ room[r].evictTimer
              \/ room[r].evicted => room[r].is = "live"
           /\ erasing.at = "no" /\ room[r].is = "live" =>
                 /\ Active(r) => row.doc \subseteq room[r].doc
                 /\ room[r].busy => /\ row.doc \subseteq room[r].writing
                                    /\ room[r].writing \subseteq room[r].doc
                                    /\ room[r].dirty \/ room[r].writing = room[r].doc
                 /\ ~room[r].busy /\ ~room[r].dirty => room[r].doc \subseteq row.doc
<1>1. HubTyped /\ Shape(room[r]) /\ room[r] \in RoomOf(edited)
  BY DEF HubInv, HubTyped
<1> QED
  BY <1>1 DEF HubInv, OneSaves, HubTyped, Shape, RoomOf

\* init: the room starts from the row.
LEMMA RoomLoadsKeeps == ASSUME HubInv, NEW r \in CRoom, RoomLoads(r) PROVE HubInv'
<1> DEFINE rm == [room[r] EXCEPT !.is = "live", !.doc = row.doc]
<1>1. /\ room[r] \in RoomOf(edited) /\ Shape(room[r]) /\ room[r].is = "init" /\ ~closing
      /\ row.doc \in SUBSET edited
  BY RoomFacts DEF RoomLoads
<1>2. room' = [room EXCEPT ![r] = rm] /\ UNCHANGED <<edited, current, row, session, erasing, closing>>
  BY RoomFacts DEF RoomLoads, RowAsLoaded, deskVars, hubVars, HubTyped
<1>3. /\ rm \in RoomOf(edited) /\ rm.is = "live" /\ rm.doc = row.doc /\ rm.conns = {}
      /\ rm.queued = 0 /\ ~rm.busy /\ ~rm.dirty /\ ~rm.saveTimer /\ ~rm.evictTimer /\ ~rm.evicted
      /\ rm.conts = room[r].conts /\ rm.evicted = room[r].evicted
  BY <1>1 DEF RoomOf, Shape
<1>4. Shape(rm)
  BY <1>1, <1>3 DEF Shape
<1> HIDE DEF rm
<1> QED
  BY <1>1, <1>2, <1>3, <1>4, RoomFacts, RoomChanges

\* attachRoom: into the room it waited for, or after an eviction another try.
LEMMA AttachKeeps == ASSUME HubInv, NEW c \in Socket, attachRoom(c), NetTyped PROVE HubInv'
<1> DEFINE r == attach[c].room
<1>1. /\ r \in CRoom /\ room[r].is = "live"
      /\ UNCHANGED <<edited, row, session, erasing, closing>>
  BY CollabAssumption DEF attachRoom, NetTyped, CRoom, hubVars
<1>2. CASE ~room[r].evicted
  <2> DEFINE all == room[r].conns \cup {c}
             rm == [room[r] EXCEPT !.conns = all, !.evictTimer = FALSE]
  <2> HIDE DEF r
  <2>1. room[r] \in RoomOf(edited) /\ Shape(room[r]) /\ HubTyped
    BY <1>1, RoomFacts
  <2>2. all \in SUBSET Socket
    BY <2>1 DEF RoomOf
  <2>3. room' = [room EXCEPT ![r] = rm] /\ current' = current
    BY <1>1, <1>2, <2>1 DEF attachRoom, r, HubTyped
  <2> HIDE DEF all
  <2>4. /\ rm \in RoomOf(edited) /\ rm.is = "live" /\ rm.doc = room[r].doc
        /\ rm.queued = room[r].queued /\ rm.busy = room[r].busy /\ rm.dirty = room[r].dirty
        /\ rm.saveTimer = room[r].saveTimer /\ ~rm.evictTimer /\ ~rm.evicted
        /\ rm.writing = room[r].writing /\ rm.conts = room[r].conts
        /\ rm.evicted = room[r].evicted
    BY <1>1, <1>2, <2>1, <2>2 DEF RoomOf
  <2>5. Shape(rm)
    BY <2>1, <2>4 DEF Shape
  <2> HIDE DEF rm
  <2>6. (erasing.at = "room" /\ r = erasing.room) => rm.queued = 0 /\ ~rm.saveTimer /\ ~rm.evictTimer
    BY <2>4 DEF HubInv, AwaitedIsQuiet
  <2>7. (rm.busy \/ rm.dirty) => Active(r)
    BY <2>4 DEF Active
  <2> QED
    BY <1>1, <2>1, <2>3, <2>4, <2>5, <2>6, <2>7, RoomFacts, RoomChanges
<1>3. CASE room[r].evicted /\ attach[c].tries < 3 /\ ~closing
  <2>1. MayGetRoom /\ current' = NextRoom /\ room' = WithRoom
    BY <1>3 DEF attachRoom
  <2> QED
    BY <1>1, <1>3, <2>1, GetRoomKeeps
<1>4. CASE room[r].evicted /\ ~(attach[c].tries < 3 /\ ~closing)
  <2>1. UNCHANGED <<current, room>>
    BY <1>4 DEF attachRoom
  <2> QED
    BY <1>1, <2>1, HubRests
<1> QED
  BY <1>2, <1>3, <1>4

\* dispatch: an update that says anything makes the room dirty.
LEMMA DispatchKeeps == ASSUME HubInv, NetTyped, NEW c \in Socket, Dispatch(c) PROVE HubInv'
<1> DEFINE r == current
           m == Head(up[c])
           news == m.edits \ room[r].doc
           all == room[r].doc \cup news
           rm == [room[r] EXCEPT !.doc = all, !.dirty = TRUE, !.saveTimer = TRUE]
<1>1. /\ r \in CRoom /\ room[r].is = "live" /\ HubTyped
      /\ UNCHANGED <<edited, current, row, session, erasing, closing>>
  BY CollabAssumption DEF Dispatch, HubInv, HubTyped, CRoom, hubVars, deskVars
<1>2. CASE room' = room
  BY <1>1, <1>2, HubRests
<1>3. CASE room' # room
  <2>1. room[r] \in RoomOf(edited) /\ Shape(room[r])
    BY <1>1, RoomFacts
  <2>2. room' = [room EXCEPT ![r] = rm]
    BY <1>1, <1>3, <2>1 DEF Dispatch, HubTyped
  <2>3. m.edits \in SUBSET edited
    <3>1. up[c] \in Seq(MsgOf(edited)) /\ up[c] # <<>>
      BY DEF NetTyped, Dispatch
    <3>2. m \in MsgOf(edited)
      BY <3>1, FrameQueues
    <3> QED
      BY <3>2 DEF MsgOf
  <2>4. all \in SUBSET edited /\ room[r].doc \subseteq all
    BY <2>1, <2>3 DEF RoomOf
  <2> HIDE DEF all, news, m
  <2>5. /\ rm \in RoomOf(edited) /\ rm.is = "live" /\ rm.doc = all
        /\ rm.queued = room[r].queued /\ rm.busy = room[r].busy /\ rm.dirty
        /\ rm.conns = room[r].conns /\ rm.writing = room[r].writing
        /\ rm.conts = room[r].conts /\ rm.evicted = room[r].evicted
    BY <1>1, <2>1, <2>4 DEF RoomOf
  <2>6. Shape(rm)
    BY <2>1, <2>5 DEF Shape
  <2> HIDE DEF rm
  <2>7. ~(erasing.at = "room" /\ r = erasing.room) /\ Active(r) /\ ~room[r].evicted
    BY <1>1 DEF HubInv, AwaitedIsQuiet, Active, CurrentIsOpen, CRoom
  <2>8. erasing.at = "no" =>
           /\ row.doc \subseteq room[r].doc
           /\ room[r].busy => row.doc \subseteq room[r].writing /\ room[r].writing \subseteq room[r].doc
    BY <1>1, <2>7, RoomFacts
  <2>9. erasing.at = "no" =>
           /\ row.doc \subseteq rm.doc
           /\ rm.busy => row.doc \subseteq rm.writing /\ rm.writing \subseteq rm.doc
    BY <2>4, <2>5, <2>8
  <2> QED
    BY <1>1, <2>2, <2>5, <2>6, <2>7, <2>9, RoomFacts, RoomChanges
<1> QED
  BY <1>2, <1>3

\* The debounce of a save is over: one more save in the chain.
LEMMA SaveTimerKeeps == ASSUME HubInv, NEW r \in CRoom, SaveTimerFires(r) PROVE HubInv'
<1> DEFINE more == room[r].queued + 1
           rm == [room[r] EXCEPT !.saveTimer = FALSE, !.queued = more]
<1>1. /\ room[r] \in RoomOf(edited) /\ Shape(room[r]) /\ room[r].is = "live" /\ room[r].saveTimer
      /\ HubTyped /\ UNCHANGED <<edited, current, row, session, erasing, closing>>
  BY RoomFacts DEF SaveTimerFires, deskVars, hubVars
<1>2. room' = [room EXCEPT ![r] = rm]
  BY <1>1 DEF SaveTimerFires, HubTyped
<1>3. more \in Nat /\ more > room[r].queued
  BY <1>1 DEF RoomOf
<1> HIDE DEF more
<1>4. /\ rm \in RoomOf(edited) /\ rm.is = "live" /\ rm.doc = room[r].doc
      /\ rm.queued = more /\ rm.busy = room[r].busy /\ rm.dirty = room[r].dirty
      /\ rm.conns = room[r].conns /\ rm.writing = room[r].writing
      /\ rm.conts = room[r].conts /\ rm.evicted = room[r].evicted
  BY <1>1, <1>3 DEF RoomOf
<1>5. Shape(rm)
  <2>1. room[r].queued \in Nat /\ \A k \in rm.conts : k.left \in 1..room[r].queued
    BY <1>1, <1>4 DEF Shape, RoomOf
  <2>2. \A k \in rm.conts : k.left \in 1..more
    BY <1>3, <2>1
  <2> QED
    BY <1>3, <1>4, <2>1, <2>2 DEF Shape
<1> HIDE DEF rm
<1>6. /\ ~(erasing.at = "room" /\ r = erasing.room) /\ (rm.busy \/ rm.dirty => Active(r))
      /\ ~closing /\ rm.evicted => rm.conns = {}
  BY <1>1, <1>4 DEF HubInv, AwaitedIsQuiet, Active, OthersAreGone
<1> QED
  BY <1>1, <1>2, <1>4, <1>5, <1>6, RoomFacts, RoomChanges

\* save: nothing to do, or the document as it is now is on its way.
LEMMA SaveStartsKeeps == ASSUME HubInv, NEW r \in CRoom, SaveStarts(r) PROVE HubInv'
<1>1. /\ room[r] \in RoomOf(edited) /\ Shape(room[r]) /\ room[r].is = "live"
      /\ room[r].queued > 0 /\ ~room[r].busy /\ HubTyped
      /\ row \in [there : BOOLEAN, doc : SUBSET edited]
      /\ UNCHANGED <<edited, row, session, erasing, closing>>
  BY RoomFacts DEF SaveStarts, deskVars, hubVars
<1>2. CASE room[r].dirty
  <2> DEFINE rm == [room[r] EXCEPT !.dirty = FALSE, !.busy = TRUE, !.writing = room[r].doc]
  <2>1. room' = [room EXCEPT ![r] = rm] /\ current' = current
    BY <1>1, <1>2 DEF SaveStarts, HubTyped
  <2>2. /\ rm \in RoomOf(edited) /\ rm.is = "live" /\ rm.doc = room[r].doc
        /\ rm.queued = room[r].queued /\ rm.busy /\ ~rm.dirty
        /\ rm.conns = room[r].conns /\ rm.writing = rm.doc
        /\ rm.conts = room[r].conts /\ rm.evicted = room[r].evicted
    BY <1>1 DEF RoomOf
  <2>3. Shape(rm)
    BY <1>1, <2>2 DEF Shape
  <2> HIDE DEF rm
  <2>4. /\ Active(r) /\ ~(erasing.at = "room" /\ r = erasing.room)
        /\ ~closing /\ rm.evicted => rm.conns = {}
    BY <1>1, <1>2, <2>2 DEF Active, HubInv, AwaitedIsQuiet, OthersAreGone, RoomOf
  <2> QED
    BY <1>1, <2>1, <2>2, <2>3, <2>4, RoomFacts, RoomChanges
<1>3. CASE ~room[r].dirty
  <2>1. SaveOver(r, room[r])
    BY <1>3 DEF SaveStarts
  <2> QED
    BY <1>1, <1>3, <2>1, RoomFacts, SaveOverKeeps
<1> QED
  BY <1>2, <1>3

\* The upsert lands, or the foreign key refuses it.
LEMMA SaveEndsKeeps == ASSUME HubInv, NEW r \in CRoom, SaveEnds(r) PROVE HubInv'
<1> DEFINE again == room[r].dirty \/ ~session
           rm == [room[r] EXCEPT !.dirty = again]
<1>1. /\ room[r] \in RoomOf(edited) /\ Shape(room[r]) /\ room[r].is = "live"
      /\ room[r].busy /\ session \in BOOLEAN
      /\ row \in [there : BOOLEAN, doc : SUBSET edited]
      /\ UNCHANGED <<edited, session, erasing, closing>>
  BY RoomFacts DEF SaveEnds, deskVars, HubTyped
<1>2. room[r].queued > 0
  BY <1>1 DEF Shape
<1>3. SaveOver(r, rm)
  BY <1>1 DEF SaveEnds, RowAccepts, RoomOf
<1>4. again \in BOOLEAN /\ (again <=> room[r].dirty \/ ~session)
  BY <1>1 DEF RoomOf
<1> HIDE DEF again
<1>5. /\ rm \in RoomOf(edited) /\ rm.is = "live" /\ rm.doc = room[r].doc
      /\ rm.queued = room[r].queued /\ rm.busy = room[r].busy /\ rm.dirty = again
      /\ rm.conns = room[r].conns /\ rm.conts = room[r].conts /\ rm.evicted = room[r].evicted
  BY <1>1, <1>4 DEF RoomOf
<1>6. Shape(rm)
  BY <1>1, <1>5 DEF Shape
<1> HIDE DEF rm
<1>7. /\ row' \in [there : BOOLEAN, doc : SUBSET edited]
      /\ \/ ~session /\ row' = row
         \/ session /\ row'.doc = room[r].writing
  BY <1>1 DEF SaveEnds, RowAccepts, RoomOf
<1>8. erasing.at = "no" =>
         /\ session /\ row.doc \subseteq room[r].doc /\ room[r].writing \subseteq room[r].doc
         /\ room[r].dirty \/ room[r].writing = room[r].doc
  BY <1>1, RoomFacts DEF HubInv, RowFollowsSession, Active
<1>9. erasing.at = "no" =>
         /\ row'.doc \subseteq rm.doc
         /\ ~rm.dirty => rm.doc \subseteq row'.doc
  BY <1>4, <1>5, <1>7, <1>8
<1> QED
  BY <1>1, <1>2, <1>3, <1>4, <1>5, <1>6, <1>7, <1>9, SaveOverKeeps

\* A save that failed leaves the room dirty.
LEMMA SaveFailsKeeps == ASSUME HubInv, NEW r \in CRoom, SaveFails(r) PROVE HubInv'
<1> DEFINE rm == [room[r] EXCEPT !.dirty = TRUE]
<1>1. /\ room[r] \in RoomOf(edited) /\ Shape(room[r]) /\ room[r].is = "live"
      /\ room[r].busy /\ SaveOver(r, rm)
      /\ row \in [there : BOOLEAN, doc : SUBSET edited]
      /\ UNCHANGED <<edited, row, session, erasing, closing>>
  BY RoomFacts DEF SaveFails, deskVars, hubVars
<1>2. room[r].queued > 0
  BY <1>1 DEF Shape
<1>3. /\ rm \in RoomOf(edited) /\ rm.is = "live" /\ rm.doc = room[r].doc
      /\ rm.queued = room[r].queued /\ rm.busy = room[r].busy /\ rm.dirty
      /\ rm.conns = room[r].conns /\ rm.conts = room[r].conts /\ rm.evicted = room[r].evicted
  BY <1>1 DEF RoomOf
<1>4. Shape(rm)
  BY <1>1, <1>3 DEF Shape
<1> HIDE DEF rm
<1>5. erasing.at = "no" => row.doc \subseteq rm.doc
  BY <1>1, <1>3, RoomFacts DEF Active
<1> QED
  BY <1>1, <1>2, <1>3, <1>4, <1>5, SaveOverKeeps

\* The idle grace is over: the room is flushed before it is looked at again.
LEMMA EvictTimerKeeps == ASSUME HubInv, NEW r \in CRoom, EvictTimerFires(r) PROVE HubInv'
<1> DEFINE rm == [room[r] EXCEPT !.evictTimer = FALSE]
           next == IF rm.conns # {} \/ rm.evicted THEN rm ELSE flushRoom(rm, "evict")
<1>1. /\ room[r] \in RoomOf(edited) /\ Shape(room[r]) /\ room[r].is = "live"
      /\ room[r].evictTimer /\ HubTyped
      /\ row \in [there : BOOLEAN, doc : SUBSET edited]
      /\ UNCHANGED <<edited, current, row, session, erasing, closing>>
  BY RoomFacts DEF EvictTimerFires, deskVars, hubVars
<1>2. room' = [room EXCEPT ![r] = next]
  BY DEF EvictTimerFires
<1>3. /\ rm \in RoomOf(edited) /\ rm.is = "live" /\ rm.doc = room[r].doc
      /\ rm.queued = room[r].queued /\ rm.busy = room[r].busy /\ rm.dirty = room[r].dirty
      /\ rm.writing = room[r].writing
      /\ rm.conns = room[r].conns /\ rm.conts = room[r].conts /\ rm.evicted = room[r].evicted
  BY <1>1 DEF RoomOf
<1>4. Shape(rm)
  BY <1>1, <1>3 DEF Shape
<1> HIDE DEF rm
<1>5. /\ next \in RoomOf(edited) /\ Shape(next) /\ next.is = "live" /\ next.doc = rm.doc
      /\ next.busy = rm.busy /\ next.dirty = rm.dirty /\ next.writing = rm.writing
      /\ next.conns = rm.conns /\ next.evicted = rm.evicted
  BY <1>3, <1>4, FlushShape
<1> HIDE DEF next
<1>6. /\ ~(erasing.at = "room" /\ r = erasing.room) /\ (next.busy \/ next.dirty => Active(r))
      /\ ~closing /\ next.evicted => next.conns = {}
  BY <1>1, <1>3, <1>5 DEF HubInv, AwaitedIsQuiet, Active, OthersAreGone
<1> QED
  BY ZenonT(60), <1>1, <1>2, <1>3, <1>5, <1>6, RoomFacts, RoomChanges

\* onClose: the last desk's leaving flushes the room.
LEMMA DropKeeps == ASSUME HubInv, NEW c \in Socket, SocketDrops(c) PROVE HubInv'
<1> DEFINE r == current
           left == room[r].conns \ {c}
           rm == [room[r] EXCEPT !.conns = left]
           next == IF left = {} THEN flushRoom(rm, "release") ELSE rm
<1>1. UNCHANGED <<edited, current, row, session, erasing, closing>>
  BY DEF SocketDrops, hubVars
<1>2. CASE room' = room
  BY <1>1, <1>2, HubRests
<1>3. CASE room' # room
  <2>1. r # 0 /\ room[r].is = "live" /\ room' = [room EXCEPT ![r] = next]
    BY <1>3 DEF SocketDrops
  <2>2. r \in CRoom /\ room[r] \in RoomOf(edited) /\ Shape(room[r])
        /\ row \in [there : BOOLEAN, doc : SUBSET edited]
    BY <2>1, RoomFacts, CollabAssumption DEF HubInv, HubTyped, CRoom
  <2>3. left \in SUBSET Socket
    BY <2>2 DEF RoomOf
  <2> HIDE DEF left
  <2>4. /\ rm \in RoomOf(edited) /\ rm.is = "live" /\ rm.doc = room[r].doc
        /\ rm.queued = room[r].queued /\ rm.busy = room[r].busy /\ rm.dirty = room[r].dirty
        /\ rm.writing = room[r].writing /\ rm.conts = room[r].conts /\ rm.evicted = room[r].evicted
    BY <2>1, <2>2, <2>3 DEF RoomOf
  <2>5. Shape(rm)
    BY <2>2, <2>4 DEF Shape
  <2> HIDE DEF rm
  <2>6. /\ next \in RoomOf(edited) /\ Shape(next) /\ next.is = "live" /\ next.doc = rm.doc
        /\ next.busy = rm.busy /\ next.dirty = rm.dirty /\ next.writing = rm.writing
        /\ next.evicted = rm.evicted
    BY <2>4, <2>5, FlushShape
  <2> HIDE DEF next
  <2>7. /\ ~(erasing.at = "room" /\ r = erasing.room) /\ Active(r) /\ ~next.evicted
    BY <2>1, <2>2, <2>4, <2>6 DEF HubInv, AwaitedIsQuiet, Active, CurrentIsOpen
  <2>8. erasing.at = "no" =>
           /\ row.doc \subseteq next.doc
           /\ next.busy => /\ row.doc \subseteq next.writing /\ next.writing \subseteq next.doc
                           /\ next.dirty \/ next.writing = next.doc
           /\ ~next.busy /\ ~next.dirty => next.doc \subseteq row.doc
    BY <2>1, <2>2, <2>4, <2>6, <2>7, RoomFacts
  <2>9. /\ room[r].is \in {"init", "live"} /\ next.evicted = room[r].evicted
        /\ row' \in [there : BOOLEAN, doc : SUBSET edited] /\ row' = row /\ current' = current
    BY <1>1, <2>1, <2>2, <2>4, <2>6
  <2> HIDE DEF r
  <2> QED
    BY <1>1, <2>1, <2>2, <2>6, <2>7, <2>8, <2>9, RoomChanges
<1> QED
  BY <1>2, <1>3

\* Dropped: the room is out of use, whatever it had not saved.
LEMMA DroppedShape ==
    ASSUME HubInv, NEW r \in CRoom, room[r].is = "live", Dropped(r)
    PROVE  /\ room' \in [CRoom -> RoomOf(edited)] /\ room'[r].is = "live" /\ Shape(room'[r])
           /\ room'[r].evicted /\ room'[r].conns = {}
           /\ \A s \in CRoom : s # r => room'[s] = room[s]
<1> DEFINE rm == [room[r] EXCEPT !.saveTimer = FALSE, !.evictTimer = FALSE, !.evicted = TRUE,
                                 !.dirty = FALSE, !.conns = {}]
<1>1. room[r] \in RoomOf(edited) /\ Shape(room[r]) /\ HubTyped
  BY RoomFacts
<1>2. room' = [room EXCEPT ![r] = rm]
  BY <1>1 DEF Dropped, HubTyped
<1>3. /\ rm \in RoomOf(edited) /\ rm.is = "live" /\ rm.evicted /\ rm.conns = {}
      /\ rm.queued = room[r].queued /\ rm.busy = room[r].busy /\ rm.conts = room[r].conts
  BY <1>1 DEF RoomOf
<1>4. Shape(rm)
  BY <1>1, <1>3 DEF Shape
<1> HIDE DEF rm
<1> QED
  BY <1>1, <1>2, <1>3, <1>4 DEF HubTyped

\* closeSession: the map forgets the room before its loading is awaited.
LEMMA CloseCollabKeeps == ASSUME HubInv, closeCollab PROVE HubInv'
<1>1. /\ erasing.at = "no" /\ ~closing /\ current' = 0
      /\ UNCHANGED <<edited, row, session, closing>> /\ HubTyped
  BY DEF closeCollab, HubInv
<1>2. ASSUME current = 0 PROVE HubInv'
  <2>1. erasing' = [at |-> "row", room |-> 0] /\ room' = room
    BY <1>2 DEF closeCollab
  <2>2. HubTyped'
    BY <1>1, <1>2, <2>1, CollabAssumption DEF HubTyped
  <2> QED
    BY <1>1, <1>2, <2>1, <2>2 DEF HubInv, LoadedInOrder, CurrentIsOpen, AwaitedIsQuiet,
                                  OthersAreGone, OneSaves, RowFollowsSession
<1>3. ASSUME current # 0, room[current].is = "live" PROVE HubInv'
  <2>1. erasing' = [at |-> "row", room |-> 0] /\ Dropped(current) /\ current \in CRoom
    BY <1>1, <1>3, CollabAssumption DEF closeCollab, HubTyped, CRoom
  <2>2. /\ room' \in [CRoom -> RoomOf(edited)] /\ room'[current].is = "live" /\ Shape(room'[current])
        /\ room'[current].evicted /\ room'[current].conns = {}
        /\ \A s \in CRoom : s # current => room'[s] = room[s]
    BY <1>3, <2>1, DroppedShape
  <2>3. HubTyped' /\ (\A s \in CRoom : Shape(room[s]))'
    <3>1. HubTyped'
      BY <1>1, <2>1, <2>2, CollabAssumption DEF HubTyped
    <3> QED
      BY <2>2, <3>1 DEF HubInv
  <2>4. LoadedInOrder'
    <3>1. \A s \in CRoom : room'[s].is # "none" <=> room[s].is # "none"
      BY <1>3, <2>2
    <3> QED
      BY <3>1 DEF HubInv, LoadedInOrder
  <2>5. OthersAreGone'
    BY <1>1, <2>1, <2>2 DEF HubInv, OthersAreGone
  <2> QED
    BY <1>1, <2>1, <2>3, <2>4, <2>5 DEF HubInv, CurrentIsOpen, AwaitedIsQuiet, OneSaves, RowFollowsSession
<1>4. ASSUME current # 0, room[current].is # "live" PROVE HubInv'
  <2>1. /\ erasing' = [at |-> "room", room |-> current] /\ room' = room /\ current \in CRoom
    BY <1>1, <1>4, CollabAssumption DEF closeCollab, HubTyped, CRoom
  <2>2. /\ room[current].queued = 0 /\ ~room[current].saveTimer /\ ~room[current].evictTimer
        /\ room[current].is = "init"
    BY <1>4, <2>1 DEF HubInv, Shape, CurrentIsOpen
  <2>3. HubTyped'
    BY <1>1, <2>1, CollabAssumption DEF HubTyped
  <2>4. OthersAreGone'
    BY <1>1, <2>1 DEF HubInv, OthersAreGone
  <2>5. AwaitedIsQuiet'
    BY <1>1, <1>4, <2>1, <2>2 DEF AwaitedIsQuiet
  <2> QED
    BY <1>1, <2>1, <2>3, <2>4, <2>5 DEF HubInv, LoadedInOrder, CurrentIsOpen, OneSaves, RowFollowsSession
<1> QED
  BY <1>2, <1>3, <1>4

\* ... and drops it once it is there.
LEMMA CloseLoadedKeeps == ASSUME HubInv, closeCollabLoaded PROVE HubInv'
<1> DEFINE r == erasing.room
<1>1. /\ erasing.at = "room" /\ room[r].is = "live" /\ HubTyped /\ Dropped(r)
      /\ erasing' = [at |-> "row", room |-> 0]
      /\ UNCHANGED <<edited, current, row, session, closing>>
  BY DEF closeCollabLoaded, HubInv
<1>2. r \in CRoom /\ r # current
  BY <1>1, CollabAssumption DEF HubTyped, HubInv, AwaitedIsQuiet, CRoom
<1>3. /\ room' \in [CRoom -> RoomOf(edited)] /\ room'[r].is = "live" /\ Shape(room'[r])
      /\ room'[r].evicted /\ room'[r].conns = {}
      /\ \A s \in CRoom : s # r => room'[s] = room[s]
  BY <1>1, <1>2, DroppedShape
<1>4. HubTyped' /\ (\A s \in CRoom : Shape(room[s]))'
  <2>1. HubTyped'
    BY <1>1, <1>3, CollabAssumption DEF HubTyped
  <2> QED
    BY <1>3, <2>1 DEF HubInv
<1>5. LoadedInOrder'
  <2>1. \A s \in CRoom : room'[s].is # "none" <=> room[s].is # "none"
    BY <1>1, <1>3
  <2> QED
    BY <2>1 DEF HubInv, LoadedInOrder
<1>6. OthersAreGone'
  BY <1>1, <1>2, <1>3 DEF HubInv, OthersAreGone
<1>7. CurrentIsOpen'
  <2>1. current # 0 => current \in CRoom
    BY <1>1, CollabAssumption DEF HubTyped, CRoom
  <2> QED
    BY <1>1, <1>2, <1>3, <2>1 DEF HubInv, CurrentIsOpen
<1> QED
  BY <1>1, <1>4, <1>5, <1>6, <1>7 DEF HubInv, AwaitedIsQuiet, OneSaves, RowFollowsSession

\* The session row goes, and its document's with it.
LEMMA EraseRowKeeps == ASSUME HubInv, EraseRow PROVE HubInv'
<1>1. /\ erasing.at = "row" /\ erasing' = [at |-> "done", room |-> 0] /\ session' = FALSE
      /\ row' = [there |-> FALSE, doc |-> {}] /\ HubTyped
      /\ UNCHANGED <<edited, current, room, closing>>
  BY DEF EraseRow, HubInv, deskVars
<1>2. HubTyped'
  <2>1. row' \in [there : BOOLEAN, doc : SUBSET edited'] /\ session' \in BOOLEAN
    BY <1>1
  <2>2. erasing' \in [at : {"no", "room", "row", "done", "cut"}, room : 0..MaxCollabRooms]
    BY <1>1, CollabAssumption
  <2> QED
    BY <1>1, <2>1, <2>2 DEF HubTyped
<1> QED
  BY <1>1, <1>2 DEF HubInv, LoadedInOrder, CurrentIsOpen, AwaitedIsQuiet, OthersAreGone, OneSaves,
                    RowFollowsSession

\* CollabHub.close: the live room is flushed and leaves the map.
LEMMA ShutdownKeeps == ASSUME HubInv, Shutdown PROVE HubInv'
<1>1. /\ ~closing /\ closing' = TRUE /\ current' = 0 /\ HubTyped
      /\ UNCHANGED <<edited, row, session, erasing>>
  BY DEF Shutdown, HubInv, deskVars
<1>2. CASE room' = room
  <2>1. HubTyped'
    BY <1>1, <1>2, CollabAssumption DEF HubTyped
  <2>2. \A s \in CRoom : Active(s)' => Active(s)
    BY <1>1, <1>2 DEF Active, CRoom
  <2>3. OneSaves'
    BY <1>1, <1>2, <2>2 DEF HubInv, OneSaves
  <2>4. AwaitedIsQuiet'
    BY <1>1, <1>2 DEF HubInv, AwaitedIsQuiet
  <2> QED
    BY <1>1, <1>2, <2>1, <2>3, <2>4 DEF HubInv, LoadedInOrder, CurrentIsOpen, OthersAreGone, RowFollowsSession
<1>3. CASE room' # room
  <2> DEFINE r == current
             out == [room[r] EXCEPT !.evictTimer = FALSE, !.evicted = TRUE]
             rm == flushRoom(out, "shutdown")
  <2>1. r # 0 /\ room[r].is = "live" /\ room' = [room EXCEPT ![r] = rm]
    BY <1>1, <1>3 DEF Shutdown
  <2>2. r \in CRoom /\ room[r] \in RoomOf(edited) /\ Shape(room[r])
    BY <1>1, <2>1, RoomFacts, CollabAssumption DEF HubTyped, CRoom
  <2>3. /\ out \in RoomOf(edited) /\ out.is = "live" /\ out.doc = room[r].doc
        /\ out.queued = room[r].queued /\ out.busy = room[r].busy /\ out.dirty = room[r].dirty
        /\ out.writing = room[r].writing /\ out.conts = room[r].conts
    BY <2>1, <2>2 DEF RoomOf
  <2>4. Shape(out)
    BY <2>2, <2>3 DEF Shape
  <2> HIDE DEF out
  <2>5. /\ rm \in RoomOf(edited) /\ Shape(rm) /\ rm.is = "live" /\ rm.doc = room[r].doc
        /\ rm.busy = room[r].busy /\ rm.dirty = room[r].dirty /\ rm.writing = room[r].writing
    BY <2>3, <2>4, FlushShape
  <2> HIDE DEF rm
  <2>6. /\ room' \in [CRoom -> RoomOf(edited)] /\ room'[r] = rm
        /\ \A s \in CRoom : s # r => room'[s] = room[s]
    BY <1>1, <2>1, <2>2, <2>5 DEF HubTyped
  <2>7. HubTyped' /\ (\A s \in CRoom : Shape(room[s]))'
    <3>1. HubTyped'
      BY <1>1, <2>6, CollabAssumption DEF HubTyped
    <3> QED
      BY <2>5, <2>6, <3>1 DEF HubInv
  <2>8. LoadedInOrder'
    <3>1. \A s \in CRoom : room'[s].is # "none" <=> room[s].is # "none"
      BY <2>1, <2>5, <2>6
    <3> QED
      BY <3>1 DEF HubInv, LoadedInOrder
  <2>9. AwaitedIsQuiet'
    <3> SUFFICES ASSUME erasing.at = "room" PROVE AwaitedIsQuiet'
      BY <1>1 DEF AwaitedIsQuiet
    <3>1. erasing.room \in CRoom /\ erasing.room # r
      BY <1>1, CollabAssumption DEF HubInv, AwaitedIsQuiet, HubTyped, CRoom
    <3> QED
      BY <1>1, <2>6, <3>1 DEF HubInv, AwaitedIsQuiet
  <2>10. OneSaves'
    <3> SUFFICES ASSUME erasing.at = "no" PROVE OneSaves'
      BY <1>1 DEF OneSaves
    <3>1. \A s \in CRoom : /\ room'[s].is = room[s].is /\ room'[s].doc = room[s].doc
                           /\ room'[s].busy = room[s].busy /\ room'[s].dirty = room[s].dirty
                           /\ room'[s].writing = room[s].writing
      BY <2>1, <2>5, <2>6
    <3>2. \A s \in CRoom : Active(s)' => Active(s)
      BY <1>1, <3>1 DEF Active, CRoom
    <3> QED
      BY <1>1, <3>1, <3>2 DEF HubInv, OneSaves
  <2> QED
    BY <1>1, <2>7, <2>8, <2>9, <2>10 DEF HubInv, CurrentIsOpen, OthersAreGone, RowFollowsSession
<1> QED
  BY <1>2, <1>3

\* A load in flight rejects while shutting down.
LEMMA RefusalKeeps == ASSUME HubInv, NEW r \in CRoom, LoadRefused(r) PROVE HubInv'
<1> DEFINE rm == [room[r] EXCEPT !.is = "failed"]
<1>1. /\ room[r] \in RoomOf(edited) /\ Shape(room[r]) /\ room[r].is = "init" /\ closing
      /\ HubTyped /\ UNCHANGED <<edited, current, row, session, erasing, closing>>
      /\ room' = [room EXCEPT ![r] = rm]
  BY RoomFacts DEF LoadRefused, hubVars, HubTyped
<1>2. /\ rm \in RoomOf(edited) /\ rm.is = "failed" /\ rm.queued = room[r].queued
      /\ rm.busy = room[r].busy /\ rm.dirty = room[r].dirty /\ rm.saveTimer = room[r].saveTimer
      /\ rm.evictTimer = room[r].evictTimer /\ rm.evicted = room[r].evicted
      /\ rm.conns = room[r].conns /\ rm.conts = room[r].conts
  BY <1>1 DEF RoomOf
<1>3. Shape(rm)
  BY <1>1, <1>2 DEF Shape
<1> HIDE DEF rm
<1>4. /\ room' \in [CRoom -> RoomOf(edited)] /\ room'[r] = rm
      /\ \A s \in CRoom : s # r => room'[s] = room[s]
  BY <1>1, <1>2 DEF HubTyped
<1>5. HubTyped' /\ (\A s \in CRoom : Shape(room[s]))'
  BY <1>1, <1>3, <1>4 DEF HubInv, HubTyped
<1>6. LoadedInOrder'
  <2>1. \A s \in CRoom : room'[s].is # "none" <=> room[s].is # "none"
    BY <1>1, <1>2, <1>4
  <2> QED
    BY <2>1 DEF HubInv, LoadedInOrder
<1>7. CurrentIsOpen' /\ OthersAreGone'
  BY <1>1 DEF HubInv, CurrentIsOpen, OthersAreGone
<1>8. AwaitedIsQuiet'
  <2> SUFFICES ASSUME erasing.at = "room" PROVE AwaitedIsQuiet'
    BY <1>1 DEF AwaitedIsQuiet
  <2>1. erasing.room \in CRoom
    BY <1>1, CollabAssumption DEF HubInv, AwaitedIsQuiet, HubTyped, CRoom
  <2> QED
    BY <1>1, <1>2, <1>4, <2>1 DEF HubInv, AwaitedIsQuiet
<1>9. OneSaves'
  <2>1. \A s \in CRoom : Active(s)' <=> Active(s)
    BY <1>1, <1>2, <1>4 DEF Active
  <2>2. \A s \in CRoom : room'[s].is = "live" => room'[s] = room[s]
    BY <1>2, <1>4
  <2> QED
    BY <1>1, <2>1, <2>2 DEF HubInv, OneSaves
<1> QED
  BY <1>1, <1>5, <1>6, <1>7, <1>8, <1>9 DEF HubInv, RowFollowsSession

\* A process that ends, on purpose or not, leaves the rows.
LEMMA ProcessEndKeeps == ASSUME HubInv, ProcessEnds PROVE HubInv'
<1>1. /\ current' = 0 /\ closing' = FALSE /\ room' = [r \in CRoom |-> Unloaded]
      /\ UNCHANGED <<edited, row, session>> /\ HubTyped
      /\ \/ erasing' = erasing /\ erasing.at # "room"
         \/ erasing' = [at |-> "cut", room |-> 0]
  BY DEF ProcessEnds, HubInv
<1>2. Unloaded \in RoomOf(edited) /\ Shape(Unloaded) /\ Unloaded.is = "none" /\ ~Unloaded.busy
      /\ ~Unloaded.dirty /\ ~Unloaded.evicted
  BY DEF Unloaded, RoomOf, Shape
<1>3. \A r \in CRoom : room'[r] = Unloaded
  BY <1>1
<1>4. HubTyped' /\ (\A s \in CRoom : Shape(room[s]))'
  <2>1. room' \in [CRoom -> RoomOf(edited)]
    BY <1>1, <1>2
  <2>2. erasing' \in [at : {"no", "room", "row", "done", "cut"}, room : 0..MaxCollabRooms]
    BY <1>1, CollabAssumption DEF HubTyped
  <2>3. 0 \in 0..MaxCollabRooms /\ FALSE \in BOOLEAN
    BY CollabAssumption
  <2>4. HubTyped'
    BY <1>1, <2>1, <2>2, <2>3 DEF HubTyped
  <2> QED
    BY <1>2, <1>3, <2>4
<1>5. LoadedInOrder'
  <2>1. 0 \in 0..MaxCollabRooms /\ \A r \in CRoom : room'[r].is # "none" <=> r <= 0
    BY <1>2, <1>3, CollabAssumption DEF CRoom
  <2> QED
    BY <2>1 DEF LoadedInOrder
<1>6. CurrentIsOpen' /\ AwaitedIsQuiet' /\ OthersAreGone'
  BY <1>1, <1>2, <1>3 DEF CurrentIsOpen, AwaitedIsQuiet, OthersAreGone
<1>7. OneSaves'
  <2>1. \A s \in CRoom : ~Active(s)'
    BY <1>1, <1>2, <1>3 DEF Active, CRoom
  <2> QED
    BY <1>2, <1>3, <2>1 DEF OneSaves
<1>8. RowFollowsSession'
  BY <1>1 DEF HubInv, RowFollowsSession
<1> QED
  BY <1>4, <1>5, <1>6, <1>7, <1>8 DEF HubInv


-----------------------------------------------------------------------------
(* Steps of the desks and the network.                                     *)

\* A step that touches neither leaves them typed.
LEMMA NetRests ==
    ASSUME NetTyped, UNCHANGED <<edited, doc, pend, ws, wire, up, down, attach>>
    PROVE  NetTyped'
BY DEF NetTyped

\* Sockets that are shut lose what was under way on them.
LEMMA ShutTyped ==
    ASSUME NetTyped, NEW S, ShutAll(S), UNCHANGED <<edited, doc, pend>>,
           attach' \in [Socket -> [room : 0..MaxCollabRooms, tries : Nat]]
    PROVE  NetTyped'
<1>1. <<>> \in Seq(MsgOf(edited))
  OBVIOUS
<1>2. up' \in [Socket -> Seq(MsgOf(edited))] /\ down' \in [Socket -> Seq(MsgOf(edited))]
  BY <1>1 DEF ShutAll, NetTyped
<1>3. ws' \in [Desk -> Socket \cup {NoSocket}]
  BY DEF ShutAll, NetTyped
<1>4. wire' \in [Socket -> {"unused", "open", "shut"}]
  BY DEF ShutAll, NetTyped
<1> QED
  BY <1>2, <1>3, <1>4 DEF NetTyped

\* A desk's edit is one more edit that documents and frames may hold.
LEMMA DeskEditsTyped == ASSUME NetTyped, NEW d \in Desk, DeskEdits(d) PROVE NetTyped'
<1>1. /\ edited \subseteq edited' /\ d \in edited'
      /\ doc' = [doc EXCEPT ![d] = @ \cup {d}] /\ pend' = [pend EXCEPT ![d] = @ \cup {d}]
      /\ UNCHANGED <<ws, wire, up, down, attach>>
  BY DEF DeskEdits, netVars
<1>2. doc' \in [Desk -> SUBSET edited'] /\ pend' \in [Desk -> SUBSET edited']
  BY <1>1 DEF NetTyped
<1>3. Seq(MsgOf(edited)) \subseteq Seq(MsgOf(edited'))
  BY <1>1, MoreEdits
<1>4. up' \in [Socket -> Seq(MsgOf(edited'))] /\ down' \in [Socket -> Seq(MsgOf(edited'))]
  BY <1>1, <1>3 DEF NetTyped
<1> QED
  BY <1>1, <1>2, <1>4 DEF NetTyped

\* A desk sends what it has pending, or drops it.
LEMMA FlushTyped == ASSUME NetTyped, NEW d \in Desk, flushUpdates(d) PROVE NetTyped'
<1> DEFINE M == MsgOf(edited)
           u == Update(pend[d])
<1>1. /\ pend[d] \in SUBSET edited /\ ws[d] \in Socket \cup {NoSocket}
      /\ up \in [Socket -> Seq(M)]
  BY DEF NetTyped
<1>2. /\ pend' = [pend EXCEPT ![d] = {}]
      /\ up' = IF ws[d] = NoSocket THEN up ELSE [up EXCEPT ![ws[d]] = Post(up[ws[d]], u)]
      /\ UNCHANGED <<edited, doc, ws, wire, down, attach>>
  BY DEF flushUpdates
<1>3. ASSUME NEW q \in Seq(M) PROVE Post(q, u) \in Seq(M)
  BY <1>1, FrameQueues
<1> HIDE DEF M, u
<1>4. up' \in [Socket -> Seq(M)]
  BY <1>1, <1>2, <1>3
<1>5. pend' \in [Desk -> SUBSET edited]
  BY <1>2 DEF NetTyped
<1> QED
  BY <1>2, <1>4, <1>5 DEF NetTyped, M

\* A socket that opens starts with the desk's step-1.
LEMMA OpensTyped == ASSUME NetTyped, HubInv, NEW c \in Socket, SocketOpens(c) PROVE NetTyped'
<1> DEFINE d == DeskAt[c]
           M == MsgOf(edited)
           n == NextRoom
<1>1. d \in Desk
  BY CollabAssumption
<1>2. CASE closing
  <2>1. /\ wire' = [wire EXCEPT ![c] = "shut"]
        /\ UNCHANGED <<edited, doc, pend, ws, up, down, attach>>
    BY <1>2 DEF SocketOpens
  <2> QED
    BY <2>1 DEF NetTyped
<1>3. CASE ~closing
  <2>1. /\ MayGetRoom /\ wire' = [wire EXCEPT ![c] = "open"] /\ ws' = [ws EXCEPT ![d] = c]
        /\ pend' = [pend EXCEPT ![d] = {}] /\ up' = [up EXCEPT ![c] = <<Step1(doc[d])>>]
        /\ attach' = [attach EXCEPT ![c] = [room |-> n, tries |-> 1]]
        /\ UNCHANGED <<edited, doc, down>>
    BY <1>3 DEF SocketOpens
  <2>2. n \in 0..MaxCollabRooms
    BY <2>1, NextIsFresh, CollabAssumption DEF CRoom
  <2>3. doc[d] \in SUBSET edited
    BY <1>1 DEF NetTyped
  <2>4. <<>> \in Seq(M)
    OBVIOUS
  <2>5. <<Step1(doc[d])>> \in Seq(M)
    BY <2>3, <2>4, FrameQueues
  <2> HIDE DEF d, n
  <2>6. up' \in [Socket -> Seq(M)]
    BY <2>1, <2>5 DEF NetTyped
  <2>7. attach' \in [Socket -> [room : 0..MaxCollabRooms, tries : Nat]]
    BY <2>1, <2>2 DEF NetTyped
  <2>8. ws' \in [Desk -> Socket \cup {NoSocket}] /\ pend' \in [Desk -> SUBSET edited]
    BY <1>1, <2>1 DEF NetTyped
  <2>9. wire' \in [Socket -> {"unused", "open", "shut"}]
    BY <2>1 DEF NetTyped
  <2> QED
    BY <2>1, <2>6, <2>7, <2>8, <2>9 DEF NetTyped
<1> QED
  BY <1>2, <1>3

\* A frame arrives at the desk.
LEMMA ReceivesTyped == ASSUME NetTyped, NEW c \in Socket, DeskReceives(c) PROVE NetTyped'
<1> DEFINE d == DeskAt[c]
           m == Head(down[c])
           M == MsgOf(edited)
           u == Update(Answer(d, m))
<1>1. d \in Desk /\ doc[d] \in SUBSET edited /\ down[c] \in Seq(M) /\ down[c] # <<>>
  BY CollabAssumption DEF NetTyped, DeskReceives
<1>2. m \in M /\ Tail(down[c]) \in Seq(M)
  BY <1>1, FrameQueues
<1>3. m.edits \in SUBSET edited /\ Answer(d, m) \in SUBSET edited
  BY <1>1, <1>2 DEF MsgOf, Answer
<1>4. ASSUME NEW q \in Seq(M) PROVE Post(q, u) \in Seq(M)
  BY <1>3, FrameQueues
<1>5. /\ down' = [down EXCEPT ![c] = Tail(down[c])]
      /\ \/ up' = [up EXCEPT ![c] = Post(up[c], u)] /\ doc' = doc
         \/ doc' = [doc EXCEPT ![d] = doc[d] \cup m.edits] /\ up' = up
      /\ UNCHANGED <<edited, pend, ws, wire, attach>>
  BY DEF DeskReceives
<1>0. up \in [Socket -> Seq(M)] /\ down \in [Socket -> Seq(M)] /\ doc \in [Desk -> SUBSET edited]
  BY DEF NetTyped
<1> HIDE DEF d, m, u, M
<1>6. up' \in [Socket -> Seq(M)]
  BY <1>0, <1>4, <1>5
<1>7. down' \in [Socket -> Seq(M)]
  BY <1>0, <1>2, <1>5
<1>8. doc' \in [Desk -> SUBSET edited]
  BY <1>0, <1>1, <1>3, <1>5
<1> QED
  BY <1>5, <1>6, <1>7, <1>8 DEF NetTyped, M

\* attachRoom: the room's step-1 goes out, the socket waits again, or it is shut.
LEMMA AttachTyped == ASSUME NetTyped, HubInv, NEW c \in Socket, attachRoom(c) PROVE NetTyped'
<1> DEFINE r == attach[c].room
           M == MsgOf(edited)
           s == Step1(room[r].doc)
           A == [room : 0..MaxCollabRooms, tries : Nat]
<1>1. /\ r \in CRoom /\ attach \in [Socket -> A] /\ attach[c].tries \in Nat /\ Idle \in A
      /\ UNCHANGED <<edited, doc, pend, up>>
  BY CollabAssumption DEF attachRoom, NetTyped, CRoom, Idle
<1>2. room[r].doc \in SUBSET edited
  BY <1>1, RoomFacts DEF RoomOf
<1>3. ASSUME NEW q \in Seq(M) PROVE Post(q, s) \in Seq(M)
  BY <1>2, FrameQueues
<1>4. CASE ~room[r].evicted
  <2>1. /\ attach' = [attach EXCEPT ![c] = Idle]
        /\ down' = [down EXCEPT ![c] = IF wire[c] = "open" THEN Post(down[c], s) ELSE down[c]]
        /\ UNCHANGED <<wire, ws>>
    BY <1>4 DEF attachRoom
  <2> HIDE DEF s
  <2>2. down' \in [Socket -> Seq(M)]
    BY <1>3, <2>1 DEF NetTyped
  <2>3. attach' \in [Socket -> A]
    BY <1>1, <2>1
  <2> QED
    BY <1>1, <2>1, <2>2, <2>3 DEF NetTyped
<1>5. CASE room[r].evicted /\ attach[c].tries < 3 /\ ~closing
  <2> DEFINE n == NextRoom
             t == attach[c].tries + 1
  <2>1. /\ MayGetRoom /\ attach' = [attach EXCEPT ![c] = [room |-> n, tries |-> t]]
        /\ UNCHANGED <<wire, ws, down>>
    BY <1>5 DEF attachRoom
  <2>2. n \in 0..MaxCollabRooms
    BY <2>1, NextIsFresh, CollabAssumption DEF CRoom
  <2>3. t \in Nat
    BY <1>1
  <2> HIDE DEF n, t
  <2>4. attach' \in [Socket -> A]
    BY <1>1, <2>1, <2>2, <2>3
  <2> QED
    BY <1>1, <2>1, <2>4 DEF NetTyped
<1>6. CASE room[r].evicted /\ ~(attach[c].tries < 3 /\ ~closing)
  <2>1. /\ attach' = [attach EXCEPT ![c] = Idle] /\ wire' = [wire EXCEPT ![c] = "shut"]
        /\ ws' = [d \in Desk |-> IF ws[d] = c THEN NoSocket ELSE ws[d]] /\ down' = down
    BY <1>6 DEF attachRoom
  <2>2. attach' \in [Socket -> A]
    BY <1>1, <2>1
  <2>3. ws' \in [Desk -> Socket \cup {NoSocket}] /\ wire' \in [Socket -> {"unused", "open", "shut"}]
    BY <2>1 DEF NetTyped
  <2> QED
    BY <1>1, <2>1, <2>2, <2>3 DEF NetTyped
<1> QED
  BY <1>4, <1>5, <1>6

\* The room answers a frame, or passes its news on.
LEMMA DispatchTyped == ASSUME NetTyped, HubInv, NEW c \in Socket, Dispatch(c) PROVE NetTyped'
<1> DEFINE r == current
           m == Head(up[c])
           M == MsgOf(edited)
           diff == Update(room[r].doc \ m.edits)
           news == Update(m.edits \ room[r].doc)
<1>1. /\ r \in CRoom /\ up[c] \in Seq(M) /\ up[c] # <<>>
      /\ UNCHANGED <<edited, doc, pend, ws, wire, attach>>
  BY CollabAssumption DEF Dispatch, NetTyped, HubInv, HubTyped, CRoom, deskVars
<1>2. m \in M /\ Tail(up[c]) \in Seq(M) /\ room[r].doc \in SUBSET edited
  BY <1>1, FrameQueues, RoomFacts DEF RoomOf
<1>3. m.edits \in SUBSET edited
  BY <1>2 DEF MsgOf
<1>4. ASSUME NEW q \in Seq(M) PROVE Post(q, diff) \in Seq(M) /\ Post(q, news) \in Seq(M)
  BY <1>2, <1>3, FrameQueues
<1>5. up' = [up EXCEPT ![c] = Tail(up[c])]
  BY DEF Dispatch
<1>6. \/ down' = down
      \/ down' = [down EXCEPT ![c] = IF wire[c] = "open" THEN Post(down[c], diff) ELSE down[c]]
      \/ \E S \in SUBSET Socket :
             down' = [o \in Socket |-> IF o \in S THEN Post(down[o], news) ELSE down[o]]
  <2>1. {o \in room[r].conns : o # c /\ wire[o] = "open"} \in SUBSET Socket
    BY <1>1, RoomFacts DEF RoomOf
  <2> QED
    BY <2>1 DEF Dispatch
<1>0. up \in [Socket -> Seq(M)] /\ down \in [Socket -> Seq(M)]
  BY DEF NetTyped
<1> HIDE DEF m, diff, news, M
<1>7. up' \in [Socket -> Seq(M)]
  BY <1>0, <1>2, <1>5
<1>8. down' \in [Socket -> Seq(M)]
  BY <1>0, <1>4, <1>6
<1> QED
  BY <1>1, <1>7, <1>8 DEF NetTyped, M

\* A socket drops, with or without the frames that were under way.
LEMMA DropsTyped == ASSUME NetTyped, NEW c \in Socket, SocketDrops(c) PROVE NetTyped'
<1> DEFINE M == MsgOf(edited)
<1>1. /\ wire' = [wire EXCEPT ![c] = "shut"] /\ ws' = [ws EXCEPT ![DeskAt[c]] = NoSocket]
      /\ down' = [down EXCEPT ![c] = <<>>]
      /\ \E q \in {<<>>, up[c]} : up' = [up EXCEPT ![c] = q]
      /\ UNCHANGED <<edited, doc, pend, attach>>
  BY DEF SocketDrops
<1>2. <<>> \in Seq(M) /\ up[c] \in Seq(M)
  BY DEF NetTyped
<1>3. up' \in [Socket -> Seq(M)] /\ down' \in [Socket -> Seq(M)]
  BY <1>1, <1>2 DEF NetTyped
<1>4. ws' \in [Desk -> Socket \cup {NoSocket}] /\ wire' \in [Socket -> {"unused", "open", "shut"}]
  BY <1>1, CollabAssumption DEF NetTyped
<1> QED
  BY <1>1, <1>3, <1>4 DEF NetTyped


-----------------------------------------------------------------------------
(* The session's room, over every behaviour.                               *)

\* The empty hub is well kept.
LEMMA CollabInitHolds == CollabInit => CollabInv
<1> SUFFICES ASSUME CollabInit PROVE CollabInv
  OBVIOUS
<1>1. /\ edited = {} /\ doc = [d \in Desk |-> {}] /\ pend = [d \in Desk |-> {}]
      /\ ws = [d \in Desk |-> NoSocket] /\ wire = [c \in Socket |-> "unused"]
      /\ up = [c \in Socket |-> <<>>] /\ down = [c \in Socket |-> <<>>]
      /\ attach = [c \in Socket |-> Idle]
  BY DEF CollabInit
<1>2. <<>> \in Seq(MsgOf(edited)) /\ Idle \in [room : 0..MaxCollabRooms, tries : Nat]
  BY CollabAssumption DEF Idle
<1>3. NetTyped
  BY <1>1, <1>2 DEF NetTyped
<1>4. /\ current = 0 /\ room = [r \in CRoom |-> Unloaded] /\ row = [there |-> FALSE, doc |-> {}]
      /\ session = TRUE /\ erasing = [at |-> "no", room |-> 0] /\ closing = FALSE
  BY DEF CollabInit
<1>5. Unloaded \in RoomOf(edited) /\ Shape(Unloaded) /\ Unloaded.is = "none" /\ ~Unloaded.busy
      /\ ~Unloaded.dirty /\ ~Unloaded.evicted
  BY DEF Unloaded, RoomOf, Shape
<1>6. \A r \in CRoom : room[r] = Unloaded
  BY <1>4
<1>7. room \in [CRoom -> RoomOf(edited)] /\ row \in [there : BOOLEAN, doc : SUBSET edited]
  BY <1>4, <1>5
<1>8. erasing \in [at : {"no", "room", "row", "done", "cut"}, room : 0..MaxCollabRooms]
  BY <1>4, CollabAssumption
<1>9. 0 \in 0..MaxCollabRooms /\ TRUE \in BOOLEAN /\ FALSE \in BOOLEAN
  BY CollabAssumption
<1>10. HubTyped
  BY <1>4, <1>7, <1>8, <1>9 DEF HubTyped
<1>11. LoadedInOrder
  <2>1. \A r \in CRoom : room[r].is # "none" <=> r <= 0
    BY <1>5, <1>6 DEF CRoom
  <2> QED
    BY <1>9, <2>1 DEF LoadedInOrder
<1>12. CurrentIsOpen /\ AwaitedIsQuiet /\ OthersAreGone /\ RowFollowsSession
  BY <1>4, <1>5, <1>6 DEF CurrentIsOpen, AwaitedIsQuiet, OthersAreGone, RowFollowsSession
<1>13. OneSaves
  <2>1. \A s \in CRoom : ~Active(s)
    BY <1>4, <1>5, <1>6 DEF Active, CRoom
  <2> QED
    BY <1>5, <1>6, <2>1 DEF OneSaves
<1> QED
  BY <1>3, <1>5, <1>6, <1>10, <1>11, <1>12, <1>13 DEF CollabInv, HubInv

\* Every step of desk, network, room, deletion and process keeps it so.
LEMMA CollabStep == CollabInv /\ [CollabNext]_collabVars => CollabInv'
<1> SUFFICES ASSUME NetTyped, HubInv, [CollabNext]_collabVars PROVE NetTyped' /\ HubInv'
  BY DEF CollabInv
<1>1. ASSUME NEW d \in Desk, DeskEdits(d) PROVE NetTyped' /\ HubInv'
  <2>1. HubInv'
    BY <1>1, HubRests DEF DeskEdits, hubVars
  <2> QED
    BY <1>1, <2>1, DeskEditsTyped
<1>2. ASSUME NEW d \in Desk, flushUpdates(d) PROVE NetTyped' /\ HubInv'
  <2>1. HubInv'
    BY <1>2, HubRests DEF flushUpdates, hubVars
  <2> QED
    BY <1>2, <2>1, FlushTyped
<1>3. ASSUME NEW c \in Socket, SocketOpens(c) PROVE NetTyped' /\ HubInv'
  <2>1. CASE closing
    <3>1. UNCHANGED <<edited, current, room, row, session, erasing, closing>>
      BY <1>3, <2>1 DEF SocketOpens, hubVars
    <3> QED
      BY <1>3, <3>1, HubRests, OpensTyped
  <2>2. CASE ~closing
    <3>1. /\ MayGetRoom /\ current' = NextRoom /\ room' = WithRoom
          /\ UNCHANGED <<edited, row, session, erasing, closing>>
      BY <1>3, <2>2 DEF SocketOpens, hubVars
    <3> QED
      BY <1>3, <2>2, <3>1, GetRoomKeeps, OpensTyped
  <2> QED
    BY <2>1, <2>2
<1>4. ASSUME NEW c \in Socket, SocketDrops(c) PROVE NetTyped' /\ HubInv'
  BY <1>4, DropsTyped, DropKeeps
<1>5. ASSUME NEW c \in Socket, DeskReceives(c) PROVE NetTyped' /\ HubInv'
  <2>1. HubInv'
    BY <1>5, HubRests DEF DeskReceives, hubVars
  <2> QED
    BY <1>5, <2>1, ReceivesTyped
<1>6. ASSUME NEW c \in Socket, attachRoom(c) PROVE NetTyped' /\ HubInv'
  BY <1>6, AttachTyped, AttachKeeps
<1>7. ASSUME NEW c \in Socket, Dispatch(c) PROVE NetTyped' /\ HubInv'
  BY <1>7, DispatchTyped, DispatchKeeps
<1>8. ASSUME NEW c \in Socket, FrameMakesRoom(c) PROVE NetTyped' /\ HubInv'
  <2>1. HubInv'
    BY <1>8, GetRoomKeeps DEF FrameMakesRoom, hubVars, deskVars
  <2>2. NetTyped'
    BY <1>8, NetRests DEF FrameMakesRoom, deskVars, netVars
  <2> QED
    BY <2>1, <2>2
<1>9. ASSUME NEW r \in CRoom, RoomStep(r) \/ SaveFails(r) PROVE NetTyped' /\ HubInv'
  <2>1. HubInv'
    BY <1>9, RoomLoadsKeeps, SaveTimerKeeps, SaveStartsKeeps, SaveEndsKeeps, EvictTimerKeeps,
       RefusalKeeps, SaveFailsKeeps DEF RoomStep
  <2>2. ASSUME LoadRefused(r) PROVE NetTyped'
    <3> DEFINE S == {c \in {x \in Socket : attach[x].room = r} : wire[c] = "open"}
               A == [room : 0..MaxCollabRooms, tries : Nat]
    <3>1. /\ ShutAll(S) /\ UNCHANGED <<edited, doc, pend>>
          /\ attach' = [c \in Socket |-> IF c \in {x \in Socket : attach[x].room = r}
                                         THEN Idle ELSE attach[c]]
      BY <2>2 DEF LoadRefused
    <3>2. attach' \in [Socket -> A]
      BY <3>1, CollabAssumption DEF NetTyped, Idle
    <3> HIDE DEF S
    <3> QED
      BY <3>1, <3>2, ShutTyped
  <2>3. ASSUME ~LoadRefused(r) PROVE NetTyped'
    <3>1. UNCHANGED <<edited, doc, pend, ws, wire, up, down, attach>>
      BY <1>9, <2>3 DEF RoomStep, RoomLoads, SaveTimerFires, SaveStarts, SaveEnds, EvictTimerFires,
                        SaveFails, deskVars, netVars
    <3> QED
      BY <3>1, NetRests
  <2> QED
    BY <2>1, <2>2, <2>3
<1>10. ASSUME closeCollab PROVE NetTyped' /\ HubInv'
  <2>1. UNCHANGED <<edited, doc, pend, attach>>
    BY <1>10 DEF closeCollab
  <2>2. CASE UNCHANGED <<wire, ws, up, down>>
    BY <1>10, <2>1, <2>2, NetRests, CloseCollabKeeps
  <2>3. CASE Dropped(current)
    <3> DEFINE S == {c \in room[current].conns : wire[c] = "open"}
    <3>1. ShutAll(S) /\ attach' \in [Socket -> [room : 0..MaxCollabRooms, tries : Nat]]
      BY <2>1, <2>3 DEF Dropped, NetTyped
    <3> HIDE DEF S
    <3> QED
      BY <1>10, <2>1, <3>1, ShutTyped, CloseCollabKeeps
  <2> QED
    BY <1>10, <2>2, <2>3 DEF closeCollab
<1>11. ASSUME closeCollabLoaded PROVE NetTyped' /\ HubInv'
  <2> DEFINE S == {c \in room[erasing.room].conns : wire[c] = "open"}
  <2>1. /\ UNCHANGED <<edited, doc, pend>> /\ ShutAll(S)
        /\ attach' \in [Socket -> [room : 0..MaxCollabRooms, tries : Nat]]
    BY <1>11 DEF closeCollabLoaded, Dropped, NetTyped
  <2> HIDE DEF S
  <2> QED
    BY <1>11, <2>1, ShutTyped, CloseLoadedKeeps
<1>12. ASSUME EraseRow PROVE NetTyped' /\ HubInv'
  <2>1. NetTyped'
    BY <1>12, NetRests DEF EraseRow, deskVars, netVars
  <2> QED
    BY <1>12, <2>1, EraseRowKeeps
<1>13. ASSUME Shutdown PROVE NetTyped' /\ HubInv'
  <2>1. NetTyped'
    BY <1>13, NetRests DEF Shutdown, deskVars, netVars
  <2> QED
    BY <1>13, <2>1, ShutdownKeeps
<1>14. ASSUME ProcessEnds PROVE NetTyped' /\ HubInv'
  <2> DEFINE S == {c \in Socket : wire[c] = "open"}
  <2>1. /\ UNCHANGED <<edited, doc, pend>> /\ ShutAll(S) /\ attach' = [c \in Socket |-> Idle]
    BY <1>14 DEF ProcessEnds
  <2>2. attach' \in [Socket -> [room : 0..MaxCollabRooms, tries : Nat]]
    BY <2>1, CollabAssumption DEF Idle
  <2> HIDE DEF S
  <2> QED
    BY <1>14, <2>1, <2>2, ShutTyped, ProcessEndKeeps
<1>15. CASE UNCHANGED collabVars
  <2>1. NetTyped'
    BY <1>15, NetRests DEF collabVars
  <2> QED
    BY <1>15, <2>1, HubRests DEF collabVars
<1> QED
  BY <1>1, <1>2, <1>3, <1>4, <1>5, <1>6, <1>7, <1>8, <1>9, <1>10, <1>11, <1>12, <1>13, <1>14, <1>15
     DEF CollabNext, SocketStep, ShutdownEnds, Crash

\* CollabInv holds throughout.
LEMMA CollabInvHolds == CollabSpec => []CollabInv
BY CollabInitHolds, CollabStep, PTL DEF CollabSpec

\* However attaches, saves, evictions, deletion and shutdown overlap, a session has
\* one room, which leaves memory only when its edits are in the row, and a deleted
\* session has no row (collab/index.ts, collab/room.ts).
THEOREM RoomsAreSafe == CollabSpec => []RoomsSafe
<1>1. CollabInv => RoomsSafe
  <2> SUFFICES ASSUME NetTyped, HubInv PROVE RoomsSafe
    BY DEF CollabInv
  <2>1. CollabTypeOK
    <3>1. \A d \in Desk : doc[d] \subseteq edited /\ pend[d] \subseteq edited
      BY DEF NetTyped
    <3>2. \A r \in CRoom : room[r].is \in {"none", "init", "live", "failed"}
      BY RoomFacts DEF RoomOf
    <3> QED
      BY <3>1, <3>2 DEF CollabTypeOK, NetTyped, HubInv, HubTyped, Shape
  <2>2. EvictedIsSaved
    <3> SUFFICES ASSUME erasing.at = "no", ~closing, NEW r \in CRoom, room[r].evicted
                 PROVE  room[r].doc \subseteq row.doc
      BY DEF EvictedIsSaved
    <3>1. room[r].is = "live"
      BY DEF HubInv, Shape
    <3>2. r # current
      BY DEF HubInv, CurrentIsOpen, CRoom
    <3>3. ~Active(r)
      BY <3>2 DEF HubInv, OneSaves
    <3> QED
      BY <3>1, <3>3 DEF HubInv, OneSaves, Active
  <2>3. OneRoom
    <3> SUFFICES ASSUME erasing.at # "room", ~closing, NEW r \in CRoom, room[r].conns # {}
                 PROVE  current = r
      BY DEF OneRoom
    <3>1. room[r].is = "live" /\ ~room[r].evicted
      BY DEF HubInv, Shape, OthersAreGone
    <3> QED
      BY <3>1 DEF HubInv, OthersAreGone
  <2> QED
    BY <2>1, <2>2, <2>3 DEF RoomsSafe, DeletedStaysDeleted, HubInv, RowFollowsSession
<1> QED
  BY <1>1, CollabInvHolds, PTL

\* The row is one blob and the last writer wins: no save, by an old room or a
\* reloaded one, ever takes an edit out of it again (collab/room.ts).
THEOREM RowKeepsEdits == CollabSpec => RowOnlyGrows
<1>1. CollabInv /\ [CollabNext]_collabVars =>
          [(session' /\ erasing.at = "no") => row.doc \subseteq row'.doc]_collabVars
  <2> SUFFICES ASSUME HubInv, CollabNext, session', erasing.at = "no", row' # row
               PROVE  row.doc \subseteq row'.doc
    BY DEF CollabInv
  <2>1. ~EraseRow
    BY DEF EraseRow
  <2>2. PICK r \in CRoom : SaveEnds(r)
    BY <2>1 DEF CollabNext, DeskEdits, flushUpdates, SocketOpens, SocketDrops, SocketStep, DeskReceives,
            attachRoom, Dispatch, FrameMakesRoom, RoomStep, RoomLoads, SaveTimerFires, SaveStarts,
            EvictTimerFires, LoadRefused, SaveFails, closeCollab, closeCollabLoaded, Shutdown,
            ShutdownEnds, Crash, ProcessEnds, hubVars
  <2>3. room[r].busy /\ room[r].is = "live"
    BY <2>2, RoomFacts DEF SaveEnds
  <2>4. row'.doc = room[r].writing
    BY <2>2 DEF SaveEnds
  <2> QED
    BY <2>3, <2>4 DEF HubInv, OneSaves
<1> QED
  BY <1>1, CollabInvHolds, PTL DEF CollabSpec, RowOnlyGrows
Item == [id : ItemId, val : Payload]
Element == [arr : 1..MaxArrayRank, id : ItemId, val : Payload, tag : 1..MaxTag, by : ListDesk,
            from : SUBSET (1..MaxTag)]
ListDocument ==
    [entry : 0..MaxArrayRank, els : SUBSET Element, del : SUBSET Element, seeded : BOOLEAN]

ListsTyped ==
    /\ listDoc \in [ListReplica -> ListDocument]
    /\ shadowOf \in [ListDesk -> SUBSET Item]
    /\ shownOf \in [ListDesk -> SUBSET Item]
    /\ syncedOf \in [ListDesk -> BOOLEAN]

\* Whatever went amiss: every desk's document is healed and its shadow follows it, and only
\* an empty shadow is left beside a document that has no list after the first sync.
Seeding(copy) == copy.seeded => copy.entry # 0
Healed(copy) == Stored(copy) = Winners(Stored(copy))

DesksFollow ==
    /\ \A r \in ListReplica : Seeding(listDoc[r])
    /\ \A d \in ListDesk :
        /\ Healed(listDoc[d])
        /\ hasTakeList(listDoc[d]) => shadowOf[d] = dedupeById(Stored(listDoc[d]))
        /\ syncedOf[d] /\ ~hasTakeList(listDoc[d]) => shadowOf[d] = {}

\* The elements of an id form lines: an edit puts its element before the one it replaces, and
\* remembers that one and its past.  A line is never split: what stands between two of its
\* elements is of the line.
TagsTell(E) == \A e, f \in E : e.id = f.id /\ e.tag = f.tag => e = f
Later(e, f) == e.id = f.id /\ f.tag \in e.from
PastAbove(E) ==
    \A e \in E :
        /\ \A t \in e.from : e.tag < t
        /\ \A f \in E : Later(e, f) => f.from \subseteq e.from
LinesTogether(E) ==
    \A x, e, g \in E :
        Later(x, e) /\ g.id = e.id /\ x.tag < g.tag /\ g.tag < e.tag => Later(g, e)
PastThere(E) == \A e \in E : \A t \in e.from : \E f \in E : f.id = e.id /\ f.tag = t
SetSound(E) == TagsTell(E) /\ PastAbove(E) /\ LinesTogether(E)

\* A replica has what its elements replaced among its deletions, and a reason for every
\* deletion: a removal, a later element of the line, or another line that stands after it.
PastKept(copy) == \A e \in copy.els : \A t \in e.from : \E f \in copy.del : f.id = e.id /\ f.tag = t
Excused(copy, e) ==
    \/ \E c \in copy.els : Later(c, e)
    \/ \E g \in copy.els : g.id = e.id /\ e.tag < g.tag /\ ~Later(e, g)
InList(copy) == \A e \in copy.els : e.arr = copy.entry
GoneForReason(copy, gone) == \A e \in copy.del : e.id \in gone \/ Excused(copy, e)
DocSound(copy, gone) ==
    /\ copy.del \subseteq copy.els
    /\ InList(copy) /\ PastKept(copy) /\ GoneForReason(copy, gone)

Everything == UNION {listDoc[r].els : r \in ListReplica}
SameEntry ==
    \A r, s \in ListReplica :
        listDoc[r].entry # 0 /\ listDoc[s].entry # 0 => listDoc[r].entry = listDoc[s].entry
OnceEach(items) == \A x, y \in items : x.id = y.id => x = y

\* Where nothing went amiss there is one array, and every replica is sound.
CalmLists ==
    /\ SetSound(Everything) /\ SameEntry
    /\ \A r \in ListReplica : DocSound(listDoc[r], removed)
    /\ \A d \in ListDesk : OnceEach(shadowOf[d])

\* The inductive invariant.
ListInv == ListsTyped /\ DesksFollow /\ (mishap = {} => CalmLists)

ReplicaFacts == "server" \in ListReplica /\ ListDesk \subseteq ListReplica

\* The server is a replica and no desk.
LEMMA Replicas == ReplicaFacts /\ \A d \in ListDesk : d # "server"
  BY ListAssumption DEF ReplicaFacts, ListReplica

\* What an element is made of.
LEMMA TypedElement ==
  ASSUME NEW e \in Element
  PROVE  /\ e.arr \in Nat /\ e.arr # 0 /\ e.id \in ItemId /\ e.val \in Payload
         /\ e.tag \in Nat /\ e.tag \in 1..MaxTag /\ e.from \subseteq 1..MaxTag
  BY ListAssumption DEF Element

\* What a document is made of.
LEMMA TypedDocument ==
  ASSUME NEW copy \in ListDocument
  PROVE  /\ copy.entry \in Nat /\ copy.els \subseteq Element /\ copy.del \subseteq Element
         /\ copy.seeded \in BOOLEAN /\ copy.entry \in 0..MaxArrayRank
         /\ Stored(copy) \subseteq copy.els
  BY ListAssumption DEF ListDocument, Stored

\* Taking the last element of every id again changes nothing.
LEMMA WinnersFixed ==
  ASSUME NEW S PROVE Winners(S) \subseteq S /\ Winners(Winners(S)) = Winners(S)
  BY DEF Winners

\* Reading a list heals it.
LEMMA Healing ==
  ASSUME NEW d, NEW copy \in ListDocument
  PROVE  /\ displayTakeList(d, copy) \in ListDocument
         /\ Healed(displayTakeList(d, copy))
         /\ displayTakeList(d, copy).entry = copy.entry
         /\ displayTakeList(d, copy).els = copy.els
         /\ displayTakeList(d, copy).seeded = copy.seeded
         /\ copy.del \subseteq displayTakeList(d, copy).del
         /\ displayTakeList(d, copy).del \subseteq copy.del \cup (Stored(copy) \ Winners(Stored(copy)))
         /\ Stored(displayTakeList(d, copy)) = Winners(Stored(copy))
<1>0. copy.els \subseteq Element /\ copy.entry \in Nat /\ Stored(copy) \subseteq copy.els /\ copy.del \subseteq Element
  BY TypedDocument
<1>1. CASE hasTakeList(copy)
  <2> DEFINE new == healTakeListDuplicates(d, copy)
  <2>1. /\ new \in ListDocument
        /\ new.entry = copy.entry /\ new.els = copy.els /\ new.seeded = copy.seeded
        /\ new.del = copy.del \cup (Stored(copy) \ Winners(Stored(copy)))
    BY <1>0 DEF healTakeListDuplicates, ListDocument
  <2>2. Stored(new) = Stored(copy) \ (Stored(copy) \ Winners(Stored(copy)))
    BY <2>1 DEF Stored
  <2>3. Stored(new) = Winners(Stored(copy)) /\ Winners(Stored(new)) = Stored(new)
    BY <2>2, WinnersFixed
  <2>4. displayTakeList(d, copy) = new
    BY <1>1 DEF displayTakeList
  <2> HIDE DEF new
  <2> QED
    BY <2>1, <2>3, <2>4 DEF Healed
<1>2. CASE ~hasTakeList(copy)
  <2>1. displayTakeList(d, copy) = copy
    BY <1>2 DEF displayTakeList
  <2>2. Stored(copy) = {}
    <3> SUFFICES ASSUME NEW e \in Stored(copy) PROVE FALSE
      OBVIOUS
    <3>1. e \in Element /\ e.arr = 0
      BY <1>0, <1>2 DEF Stored, hasTakeList
    <3> QED
      BY <3>1, TypedElement
  <2>3. Winners(Stored(copy)) = {}
    BY <2>2 DEF Winners
  <2> QED
    BY <2>1, <2>2, <2>3 DEF Healed
<1> QED
  BY <1>1, <1>2

\* What a merge of two documents holds.
LEMMA Merging ==
  ASSUME NEW a \in ListDocument, NEW b \in ListDocument
  PROVE  /\ Merge(a, b) \in ListDocument
         /\ Merge(a, b).els = a.els \cup b.els /\ Merge(a, b).del = a.del \cup b.del
         /\ Merge(a, b).seeded = (a.seeded \/ b.seeded)
         /\ Merge(a, b).entry \in {a.entry, b.entry}
         /\ Merge(a, b).entry = 0 => a.entry = 0 /\ b.entry = 0
<1>1. /\ a.els \subseteq Element /\ a.del \subseteq Element /\ b.els \subseteq Element /\ b.del \subseteq Element
      /\ a.entry \in 0..MaxArrayRank /\ b.entry \in 0..MaxArrayRank /\ a.seeded \in BOOLEAN /\ b.seeded \in BOOLEAN
  BY TypedDocument
<1>2. /\ MaxRankOf(a.entry, b.entry) \in {a.entry, b.entry}
      /\ MaxRankOf(a.entry, b.entry) = 0 => a.entry = 0 /\ b.entry = 0
  BY <1>1, ListAssumption DEF MaxRankOf
<1>3. MaxRankOf(a.entry, b.entry) \in 0..MaxArrayRank
  BY <1>1, <1>2
<1>4. (a.seeded \/ b.seeded) \in BOOLEAN
  OBVIOUS
<1> QED
  BY <1>1, <1>2, <1>3, <1>4 DEF Merge, ListDocument

\* What a document shows are items.
LEMMA DedupeTyped ==
  ASSUME NEW S, S \subseteq Element PROVE dedupeById(S) \subseteq Item
  BY TypedElement DEF dedupeById, Winners, Item

\* Some of the elements of a sound set are a sound set.
LEMMA FewerSound == ASSUME NEW E, NEW F, F \subseteq E, SetSound(E) PROVE SetSound(F)
<1>1. TagsTell(F)
  BY DEF SetSound, TagsTell
<1>2. PastAbove(F)
  BY DEF SetSound, PastAbove
<1>3. LinesTogether(F)
  BY DEF SetSound, LinesTogether
<1> QED
  BY <1>1, <1>2, <1>3 DEF SetSound

\* Two sound documents of one array merge into a sound one: every deletion keeps its excuse.
LEMMA MergeSound ==
  ASSUME NEW gone, NEW a \in ListDocument, NEW b \in ListDocument,
         DocSound(a, gone), DocSound(b, gone), a.entry # 0 /\ b.entry # 0 => a.entry = b.entry
  PROVE  DocSound(Merge(a, b), gone)
<1> DEFINE m == Merge(a, b)
<1>1. /\ m.els = a.els \cup b.els /\ m.del = a.del \cup b.del
      /\ m.entry \in {a.entry, b.entry} /\ (m.entry = 0 => a.entry = 0 /\ b.entry = 0)
  BY Merging
<1> HIDE DEF m
<1>2. m.del \subseteq m.els
  BY <1>1 DEF DocSound
<1>3. InList(m)
  <2> SUFFICES ASSUME NEW e \in m.els PROVE e.arr = m.entry
    BY DEF InList
  <2>1. e.arr # 0
    BY <1>1, TypedDocument, TypedElement
  <2>2. CASE e \in a.els
    <3>1. e.arr = a.entry
      BY <2>2 DEF DocSound, InList
    <3> QED
      BY <1>1, <2>1, <3>1
  <2>3. CASE e \in b.els
    <3>1. e.arr = b.entry
      BY <2>3 DEF DocSound, InList
    <3> QED
      BY <1>1, <2>1, <3>1
  <2> QED
    BY <1>1, <2>2, <2>3
<1>4. PastKept(m)
  <2>1. ASSUME NEW e \in a.els, NEW t \in e.from PROVE \E f \in m.del : f.id = e.id /\ f.tag = t
    BY <1>1 DEF DocSound, PastKept
  <2>2. ASSUME NEW e \in b.els, NEW t \in e.from PROVE \E f \in m.del : f.id = e.id /\ f.tag = t
    BY <1>1 DEF DocSound, PastKept
  <2> QED
    BY <1>1, <2>1, <2>2 DEF PastKept
<1>5. GoneForReason(m, gone)
  <2>1. ASSUME NEW e \in a.del PROVE e.id \in gone \/ Excused(m, e)
    <3>1. e.id \in gone \/ Excused(a, e)
      BY DEF DocSound, GoneForReason
    <3> QED
      BY <1>1, <3>1 DEF Excused
  <2>2. ASSUME NEW e \in b.del PROVE e.id \in gone \/ Excused(m, e)
    <3>1. e.id \in gone \/ Excused(b, e)
      BY DEF DocSound, GoneForReason
    <3> QED
      BY <1>1, <3>1 DEF Excused
  <2> QED
    BY <1>1, <2>1, <2>2 DEF GoneForReason
<1>6. DocSound(m, gone)
  BY <1>2, <1>3, <1>4, <1>5 DEF DocSound
<1> QED
  BY <1>6 DEF m

\* Healing deletes only elements that a later line excuses.
LEMMA HealSound ==
  ASSUME NEW gone, NEW d, NEW copy \in ListDocument, DocSound(copy, gone), TagsTell(copy.els)
  PROVE  DocSound(displayTakeList(d, copy), gone)
<1> DEFINE h == displayTakeList(d, copy)
<1>1. /\ h.entry = copy.entry /\ h.els = copy.els /\ copy.del \subseteq h.del
      /\ h.del \subseteq copy.del \cup (Stored(copy) \ Winners(Stored(copy)))
  BY Healing
<1> HIDE DEF h
<1>2. h.del \subseteq h.els /\ InList(h) /\ PastKept(h)
  <2>1. Stored(copy) \subseteq copy.els
    BY DEF Stored
  <2>2. h.del \subseteq h.els
    BY <1>1, <2>1 DEF DocSound
  <2>3. PastKept(h)
    <3> SUFFICES ASSUME NEW e \in h.els, NEW t \in e.from PROVE \E f \in h.del : f.id = e.id /\ f.tag = t
      BY DEF PastKept
    <3>1. \E f \in copy.del : f.id = e.id /\ f.tag = t
      BY <1>1 DEF DocSound, PastKept
    <3> QED
      BY <1>1, <3>1
  <2> QED
    BY <1>1, <2>2, <2>3 DEF DocSound, InList
<1>3. GoneForReason(h, gone)
  <2> SUFFICES ASSUME NEW e \in h.del PROVE e.id \in gone \/ Excused(h, e)
    BY DEF GoneForReason
  <2>1. CASE e \in copy.del
    <3>1. e.id \in gone \/ Excused(copy, e)
      BY <2>1 DEF DocSound, GoneForReason
    <3> QED
      BY <1>1, <3>1 DEF Excused
  <2>2. CASE e \in Stored(copy) /\ e \notin Winners(Stored(copy))
    <3>1. PICK f \in Stored(copy) : f.id = e.id /\ ~(f.tag <= e.tag)
      BY <2>2 DEF Winners
    <3>2. e \in copy.els /\ f \in copy.els /\ f \notin copy.del
      BY <2>2 DEF Stored
    <3>3. e.tag < f.tag
      BY <3>1, <3>2, TypedDocument, TypedElement
    <3>4. ~Later(e, f)
      <4> SUFFICES ASSUME f.tag \in e.from PROVE FALSE
        BY DEF Later
      <4>1. PICK k \in copy.del : k.id = e.id /\ k.tag = f.tag
        BY <3>2 DEF DocSound, PastKept
      <4>2. k \in copy.els
        BY DEF DocSound
      <4>3. k = f
        BY <3>1, <3>2, <4>1, <4>2 DEF TagsTell
      <4> QED
        BY <3>2, <4>3
    <3> QED
      BY <1>1, <3>1, <3>2, <3>3, <3>4 DEF Excused
  <2> QED
    BY <1>1, <2>1, <2>2
<1>4. DocSound(h, gone)
  BY <1>2, <1>3 DEF DocSound
<1> QED
  BY <1>4 DEF h

\* An element that replaces another, next to it.
LEMMA ReplaceSound ==
  ASSUME NEW gone, NEW E, E \subseteq Element, SetSound(E), PastThere(E),
         NEW copy \in ListDocument, copy.els \subseteq E, DocSound(copy, gone),
         NEW w \in Stored(copy), NEW n \in Element,
         n.id = w.id, n.arr = copy.entry, n.from = w.from \cup {w.tag}, n.tag < w.tag,
         \A g \in E : g.id = n.id => g.tag # n.tag /\ ~(n.tag < g.tag /\ g.tag < w.tag),
         NEW new \in ListDocument,
         new.entry = copy.entry, new.els = copy.els \cup {n}, new.del = copy.del \cup {w}
  PROVE  SetSound(E \cup {n}) /\ DocSound(new, gone)
<1>1. w \in copy.els /\ w \in E /\ w \in Element
  BY DEF Stored
<1>2. n.tag \in Nat /\ w.tag \in Nat /\ \A g \in E : g.tag \in Nat
  BY <1>1, TypedElement
<1>3. \A x \in E : ~Later(x, n)
  <2> SUFFICES ASSUME NEW x \in E, Later(x, n) PROVE FALSE
    OBVIOUS
  <2>1. \E f \in E : f.id = x.id /\ f.tag = n.tag
    BY DEF Later, PastThere
  <2> QED
    BY <2>1 DEF Later
<1>4. \A t \in n.from : n.tag < t
  <2> SUFFICES ASSUME NEW t \in w.from PROVE n.tag < t
    OBVIOUS
  <2>1. w.tag < t
    BY <1>1 DEF SetSound, PastAbove
  <2>2. t \in Nat
    BY <1>1, TypedElement
  <2> QED
    BY <1>2, <2>1, <2>2
<1>5. ~Later(n, n)
  BY <1>2, <1>4 DEF Later
<1>6. TagsTell(E \cup {n})
  BY DEF SetSound, TagsTell
<1>7. \A e \in E : Later(n, e) => e = w \/ Later(w, e)
  <2> SUFFICES ASSUME NEW e \in E, Later(n, e) PROVE e = w \/ Later(w, e)
    OBVIOUS
  <2>1. e.id = w.id /\ (e.tag = w.tag \/ e.tag \in w.from)
    BY DEF Later
  <2> QED
    BY <1>1, <2>1 DEF SetSound, TagsTell, Later
<1>8. PastAbove(E \cup {n})
  <2> SUFFICES ASSUME NEW e \in E \cup {n}
               PROVE  /\ \A t \in e.from : e.tag < t
                      /\ \A f \in E \cup {n} : Later(e, f) => f.from \subseteq e.from
    BY DEF PastAbove
  <2>1. CASE e \in E
    BY <1>3, <2>1 DEF SetSound, PastAbove
  <2>2. CASE e = n
    <3> SUFFICES ASSUME NEW f \in E, Later(n, f) PROVE f.from \subseteq n.from
      BY <1>4, <1>5, <2>2
    <3>1. f = w \/ f.from \subseteq w.from
      BY <1>1, <1>7 DEF SetSound, PastAbove
    <3> QED
      BY <3>1
  <2> QED
    BY <2>1, <2>2
<1>9. LinesTogether(E \cup {n})
  <2> SUFFICES ASSUME NEW x \in E \cup {n}, NEW e \in E \cup {n}, NEW g \in E \cup {n},
                      Later(x, e), g.id = e.id, x.tag < g.tag, g.tag < e.tag
               PROVE  Later(g, e)
    BY DEF LinesTogether
  <2>1. e \in E
    BY <1>3, <1>5
  <2>2. x.id = e.id /\ e.tag \in Nat /\ x.tag \in Nat /\ g.tag \in Nat
    BY <1>2, <2>1 DEF Later
  <2>3. CASE x \in E /\ g \in E
    BY <2>1, <2>3 DEF SetSound, LinesTogether
  <2>4. CASE x = n
    <3>1. g \in E /\ e.id = n.id
      BY <1>2, <2>2, <2>4
    <3>2. ~(n.tag < g.tag /\ g.tag < w.tag)
      BY <2>4, <3>1
    <3>3. CASE e = w
      BY <1>2, <2>2, <2>4, <3>2, <3>3
    <3>4. CASE Later(w, e)
      <4>1. CASE g.tag = w.tag
        <5>1. g = w
          BY <1>1, <3>1, <4>1 DEF SetSound, TagsTell
        <5> QED
          BY <3>4, <5>1
      <4>2. CASE w.tag < g.tag
        BY <1>1, <2>1, <3>1, <3>4, <4>2 DEF SetSound, LinesTogether
      <4> QED
        BY <1>2, <2>2, <2>4, <3>2, <4>1, <4>2
    <3> QED
      BY <1>7, <2>1, <2>4, <3>3, <3>4
  <2>5. CASE x \in E /\ g = n
    <3>1. w.id = e.id /\ e.id = n.id
      BY <2>5
    <3>2. e.tag \in n.from
      <4>1. CASE w.tag = e.tag
        BY <4>1
      <4>2. CASE w.tag < e.tag
        <5>1. x.tag < w.tag
          BY <1>2, <2>2, <2>5
        <5>2. Later(w, e)
          BY <1>1, <2>1, <2>5, <3>1, <4>2, <5>1 DEF SetSound, LinesTogether
        <5> QED
          BY <5>2 DEF Later
      <4>3. CASE e.tag < w.tag
        BY <2>1, <2>5, <3>1, <4>3
      <4> QED
        BY <1>2, <2>2, <4>1, <4>2, <4>3
    <3> QED
      BY <2>5, <3>1, <3>2 DEF Later
  <2> QED
    BY <2>3, <2>4, <2>5
<1>10. new.del \subseteq new.els /\ InList(new)
  BY <1>1 DEF DocSound, InList
<1>11. PastKept(new)
  <2> SUFFICES ASSUME NEW e \in new.els, NEW t \in e.from PROVE \E f \in new.del : f.id = e.id /\ f.tag = t
    BY DEF PastKept
  <2>1. CASE e \in copy.els
    BY <2>1 DEF DocSound, PastKept
  <2>2. CASE e = n /\ t = w.tag
    BY <2>2
  <2>3. CASE e = n /\ t \in w.from
    BY <1>1, <2>3 DEF DocSound, PastKept
  <2> QED
    BY <2>1, <2>2, <2>3
<1>12. GoneForReason(new, gone)
  <2> SUFFICES ASSUME NEW e \in new.del PROVE e.id \in gone \/ Excused(new, e)
    BY DEF GoneForReason
  <2>1. CASE e \in copy.del
    <3>1. e.id \in gone \/ Excused(copy, e)
      BY <2>1 DEF DocSound, GoneForReason
    <3> QED
      BY <3>1 DEF Excused
  <2>2. CASE e = w
    BY <2>2 DEF Excused, Later
  <2> QED
    BY <2>1, <2>2
<1> QED
  BY <1>6, <1>8, <1>9, <1>10, <1>11, <1>12 DEF SetSound, DocSound

\* Elements of ids that are new, each once.
NewIds(N, E) ==
    \A n \in N : /\ n.from = {}
                 /\ \A e \in E : e.id # n.id
                 /\ \A m \in N : m.id = n.id => m = n

\* Elements of new ids disturb no line.
LEMMA AddSound ==
  ASSUME NEW gone, NEW E, E \subseteq Element, SetSound(E),
         NEW copy \in ListDocument, copy.els \subseteq E, copy.del \subseteq copy.els, PastKept(copy),
         GoneForReason(copy, gone), NEW N, NewIds(N, E),
         NEW new \in ListDocument, new.els = copy.els \cup N, new.del = copy.del, InList(new)
  PROVE  SetSound(E \cup N) /\ DocSound(new, gone)
<1>0. \A n \in N : /\ n.from = {}
                   /\ \A e \in E : e.id # n.id
                   /\ \A m \in N : m.id = n.id => m = n
  BY DEF NewIds
<1>1. \A x \in E \cup N, y \in N : ~Later(x, y) /\ ~Later(y, x)
  BY <1>0 DEF Later
<1>2. TagsTell(E \cup N)
  BY <1>0 DEF SetSound, TagsTell
<1>3. PastAbove(E \cup N)
  <2> SUFFICES ASSUME NEW e \in E \cup N
               PROVE  /\ \A t \in e.from : e.tag < t
                      /\ \A f \in E \cup N : Later(e, f) => f.from \subseteq e.from
    BY DEF PastAbove
  <2>1. CASE e \in E
    BY <1>1, <2>1 DEF SetSound, PastAbove
  <2>2. CASE e \in N
    BY <1>0, <1>1, <2>2
  <2> QED
    BY <2>1, <2>2
<1>4. LinesTogether(E \cup N)
  <2> SUFFICES ASSUME NEW x \in E \cup N, NEW e \in E \cup N, NEW g \in E \cup N,
                      Later(x, e), g.id = e.id, x.tag < g.tag, g.tag < e.tag
               PROVE  Later(g, e)
    BY DEF LinesTogether
  <2>1. x \in E /\ e \in E
    BY <1>1
  <2>2. g \in E
    BY <1>0, <2>1
  <2> QED
    BY <2>1, <2>2 DEF SetSound, LinesTogether
<1>5. new.del \subseteq new.els
  OBVIOUS
<1>6. PastKept(new)
  BY <1>0 DEF PastKept
<1>7. GoneForReason(new, gone)
  BY DEF GoneForReason, Excused
<1> QED
  BY <1>2, <1>3, <1>4, <1>5, <1>6, <1>7 DEF SetSound, DocSound

\* What an operator removes needs no other reason.
LEMMA RemoveSound ==
  ASSUME NEW gone, NEW more, gone \subseteq more,
         NEW copy \in ListDocument, DocSound(copy, gone),
         NEW new \in ListDocument, new.entry = copy.entry, new.els = copy.els,
         copy.del \subseteq new.del, new.del \subseteq new.els,
         \A e \in new.del \ copy.del : e.id \in more
  PROVE  DocSound(new, more)
<1>1. InList(new) /\ PastKept(new)
  BY DEF DocSound, InList, PastKept
<1>2. GoneForReason(new, more)
  BY DEF DocSound, GoneForReason, Excused
<1> QED
  BY <1>1, <1>2 DEF DocSound

\* A set of naturals has a least element.
LEMMA LeastElement ==
  ASSUME NEW T \in SUBSET Nat, T # {}
  PROVE  \E m \in T : \A n \in T : m <= n
<1>1. PICK m \in T : \A n \in T : ~ (<<n, m>> \in OpToRel(<, Nat))
  BY NatLessThanWellFounded, WFMin
<1>2. \A n \in T : ~ (n < m)
  BY <1>1 DEF OpToRel
<1> QED
  BY <1>2

\* Some element has the least tag.
LEMMA BottomTag ==
  ASSUME NEW S, S # {}, S \subseteq Element
  PROVE  \E e \in S : \A f \in S : e.tag <= f.tag
<1> DEFINE T == {e.tag : e \in S}
<1>1. T \in SUBSET Nat /\ T # {}
  BY TypedElement
<1>2. PICK m \in T : \A n \in T : m <= n
  <2> HIDE DEF T
  <2> QED
    BY <1>1, LeastElement
<1> QED
  BY <1>2

\* Some element has the greatest tag.
LEMMA TopTag ==
  ASSUME NEW S, S # {}, S \subseteq Element
  PROVE  \E e \in S : \A f \in S : f.tag <= e.tag
<1> DEFINE T == {MaxTag - e.tag : e \in S}
<1>0. \A e \in S : e.tag \in Nat /\ e.tag <= MaxTag /\ MaxTag \in Nat
  BY TypedElement, ListAssumption
<1>1. T \in SUBSET Nat /\ T # {}
  BY <1>0
<1>2. PICK m \in T : \A n \in T : m <= n
  <2> HIDE DEF T
  <2> QED
    BY <1>1, LeastElement
<1>3. PICK e \in S : m = MaxTag - e.tag
  BY <1>2
<1>4. ASSUME NEW f \in S PROVE f.tag <= e.tag
  <2>1. MaxTag - e.tag <= MaxTag - f.tag
    BY <1>2, <1>3
  <2> QED
    BY <1>0, <2>1
<1> QED
  BY <1>4

\* Of every item nobody removed, some element stays.
LEMMA SomethingStays ==
  ASSUME NEW gone, NEW copy \in ListDocument, DocSound(copy, gone), SetSound(copy.els),
         NEW o \in copy.els, o.id \notin gone
  PROVE  o.id \in Ids(copy)
<1> DEFINE S == {e \in copy.els : e.id = o.id}
           Last(e) == \A c \in S : ~Later(c, e)
           L == {e \in S : Last(e)}
<1>1. S \subseteq Element /\ o \in S /\ S \subseteq copy.els
  BY TypedDocument
<1>2. \A e \in S : e.tag \in Nat
  BY <1>1, TypedElement
<1>3. \A c, e \in S : Later(c, e) => c.tag < e.tag /\ e.from \subseteq c.from
  BY <1>1 DEF SetSound, PastAbove, Later
<1>4. ASSUME NEW g \in S PROVE \E z \in L : z = g \/ Later(z, g)
  <2> DEFINE D == {c \in S : c = g \/ Later(c, g)}
  <2>1. PICK z \in D : \A c \in D : z.tag <= c.tag
    <3>1. g \in D /\ D \subseteq Element
      BY <1>1, <1>4
    <3> HIDE DEF D
    <3> QED
      BY <3>1, BottomTag
  <2>2. ASSUME NEW c \in S, Later(c, z) PROVE FALSE
    <3>1. c.tag < z.tag /\ z.from \subseteq c.from
      BY <1>3, <2>2
    <3>2. Later(c, g)
      BY <2>1, <2>2, <3>1 DEF Later
    <3>3. c \in D
      BY <2>2, <3>2
    <3> QED
      BY <1>2, <2>1, <2>2, <3>1, <3>3
  <2> QED
    BY <2>1, <2>2
<1>5. L # {} /\ L \subseteq Element
  BY <1>1, <1>4
<1>6. PICK t \in L : \A e \in L : e.tag <= t.tag
  <2> HIDE DEF L
  <2> QED
    BY <1>5, TopTag
<1>7. t \in S /\ Last(t)
  BY <1>6
<1>8. t \notin copy.del
  <2> SUFFICES ASSUME t \in copy.del PROVE FALSE
    OBVIOUS
  <2>1. Excused(copy, t)
    BY <1>7 DEF DocSound, GoneForReason
  <2>2. \A c \in copy.els : ~Later(c, t)
    BY <1>7 DEF Later
  <2>3. PICK g \in copy.els : g.id = t.id /\ t.tag < g.tag /\ ~Later(t, g)
    BY <2>1, <2>2 DEF Excused
  <2>4. g \in S
    BY <1>7, <2>3
  <2>5. PICK z \in L : z = g \/ Later(z, g)
    BY <1>4, <2>4
  <2>6. z \in S /\ z \in copy.els /\ t \in copy.els
    BY <1>1, <1>7, <2>5
  <2>7. t.tag < z.tag
    <3>1. CASE z = g
      BY <2>3, <3>1
    <3>2. CASE Later(z, g)
      <4>1. z.tag # t.tag
        BY <1>7, <2>3, <2>6, <3>2 DEF SetSound, TagsTell
      <4>2. ~(z.tag < t.tag)
        BY <1>7, <2>3, <2>6, <3>2 DEF SetSound, LinesTogether
      <4> QED
        BY <1>2, <1>7, <2>6, <4>1, <4>2
    <3> QED
      BY <2>5, <3>1, <3>2
  <2> QED
    BY <1>2, <1>6, <1>7, <2>5, <2>6, <2>7
<1>9. t \in copy.els /\ t.arr = copy.entry /\ t.id = o.id
  BY <1>7 DEF DocSound, InList
<1> QED
  BY <1>8, <1>9 DEF Ids, Stored

\* What the calm documents are together.
LEMMA TheWhole ==
  ASSUME ListsTyped, CalmLists
  PROVE  /\ Everything \subseteq Element /\ PastThere(Everything)
         /\ \A r \in ListReplica : listDoc[r] \in ListDocument /\ listDoc[r].els \subseteq Everything
         /\ \A r \in ListReplica : listDoc[r].entry = 0 => listDoc[r].els = {} /\ listDoc[r].del = {}
<1>1. \A r \in ListReplica : listDoc[r] \in ListDocument /\ listDoc[r].els \subseteq Everything
  BY DEF ListsTyped, Everything
<1>2. \A r \in ListReplica : listDoc[r].els \subseteq Element
  BY <1>1, TypedDocument
<1>3. Everything \subseteq Element
  BY <1>2 DEF Everything
<1>4. PastThere(Everything)
  <2> SUFFICES ASSUME NEW e \in Everything, NEW t \in e.from
               PROVE  \E f \in Everything : f.id = e.id /\ f.tag = t
    BY DEF PastThere
  <2>1. PICK r \in ListReplica : e \in listDoc[r].els
    BY DEF Everything
  <2>2. DocSound(listDoc[r], removed)
    BY DEF CalmLists
  <2>3. PICK f \in listDoc[r].del : f.id = e.id /\ f.tag = t
    BY <2>1, <2>2 DEF DocSound, PastKept
  <2>4. f \in Everything
    BY <1>1, <2>2, <2>3 DEF DocSound
  <2> QED
    BY <2>3, <2>4
<1>5. ASSUME NEW r \in ListReplica, listDoc[r].entry = 0 PROVE listDoc[r].els = {} /\ listDoc[r].del = {}
  <2>1. DocSound(listDoc[r], removed)
    BY DEF CalmLists
  <2>2. \A e \in listDoc[r].els : e.arr = 0 /\ e.arr # 0
    BY <1>2, <1>5, <2>1, TypedElement DEF DocSound, InList
  <2> QED
    BY <2>1, <2>2 DEF DocSound
<1> QED
  BY <1>1, <1>3, <1>4, <1>5

\* What a document shows has every id once.
LEMMA DedupedOnce ==
  ASSUME NEW S, S \subseteq Element, TagsTell(S) PROVE OnceEach(dedupeById(S))
<1> SUFFICES ASSUME NEW x \in dedupeById(S), NEW y \in dedupeById(S), x.id = y.id PROVE x = y
  BY DEF OnceEach
<1>1. PICK e \in Winners(S) : x = [id |-> e.id, val |-> e.val]
  BY DEF dedupeById
<1>2. PICK f \in Winners(S) : y = [id |-> f.id, val |-> f.val]
  BY DEF dedupeById
<1>3. e \in S /\ f \in S /\ e.id = f.id
  BY <1>1, <1>2 DEF Winners
<1>4. e.tag <= f.tag /\ f.tag <= e.tag /\ e.tag \in Nat /\ f.tag \in Nat
  BY <1>3, TypedElement DEF Winners
<1> QED
  BY <1>1, <1>2, <1>3, <1>4 DEF TagsTell

\* A refresh heals the desk's document and makes the shadow follow it.
LEMMA RefreshFollows ==
  ASSUME ListsTyped, DesksFollow, NEW d \in ListDesk, NEW copy \in ListDocument, Seeding(copy),
         NEW local, local \subseteq Item, Refreshed(d, copy, local),
         shownOf' \in [ListDesk -> SUBSET Item], syncedOf' \in [ListDesk -> BOOLEAN],
         \A e \in ListDesk \ {d} : syncedOf'[e] = syncedOf[e],
         syncedOf'[d] /\ ~hasTakeList(copy) => local = {}
  PROVE  /\ ListsTyped' /\ DesksFollow'
         /\ listDoc' = [listDoc EXCEPT ![d] = displayTakeList(d, copy)]
         /\ shadowOf' = [shadowOf EXCEPT ![d] = Display(displayTakeList(d, copy), local)]
<1> DEFINE h == displayTakeList(d, copy)
<1>1. /\ h \in ListDocument /\ Healed(h) /\ h.entry = copy.entry /\ h.seeded = copy.seeded
  BY Healing
<1>2. /\ listDoc' = [listDoc EXCEPT ![d] = h]
      /\ shadowOf' = [shadowOf EXCEPT ![d] = Display(h, local)]
  BY DEF Refreshed, shadowAfter
<1> HIDE DEF h
<1>3. Stored(h) \subseteq Element
  BY <1>1, TypedDocument
<1>4. Display(h, local) \subseteq Item
  BY <1>3, DedupeTyped DEF Display
<1>5. ListsTyped'
  BY <1>1, <1>2, <1>4, Replicas DEF ListsTyped, ReplicaFacts
<1>6. d \in ListReplica /\ listDoc'[d] = h /\ shadowOf'[d] = Display(h, local)
  BY <1>2, Replicas DEF ListsTyped, ReplicaFacts
<1>7. \A r \in ListReplica \ {d} : listDoc'[r] = listDoc[r]
  BY <1>2 DEF ListsTyped
<1>8. \A e \in ListDesk \ {d} : shadowOf'[e] = shadowOf[e]
  BY <1>2 DEF ListsTyped
<1>9. \A r \in ListReplica : Seeding(listDoc'[r])
  BY <1>1, <1>6, <1>7 DEF DesksFollow, Seeding
<1>10. ASSUME NEW e \in ListDesk
       PROVE  /\ Healed(listDoc'[e])
              /\ hasTakeList(listDoc'[e]) => shadowOf'[e] = dedupeById(Stored(listDoc'[e]))
              /\ syncedOf'[e] /\ ~hasTakeList(listDoc'[e]) => shadowOf'[e] = {}
  <2>1. CASE e = d
    <3>1. hasTakeList(h) = hasTakeList(copy)
      BY <1>1 DEF hasTakeList
    <3>2. CASE hasTakeList(h)
      BY <1>1, <1>6, <2>1, <3>2 DEF Display
    <3>3. CASE ~hasTakeList(h)
      BY <1>1, <1>6, <2>1, <3>1, <3>3 DEF Display
    <3> QED
      BY <3>2, <3>3
  <2>2. CASE e # d
    <3>1. listDoc'[e] = listDoc[e] /\ shadowOf'[e] = shadowOf[e] /\ syncedOf'[e] = syncedOf[e]
      BY <1>7, <1>8, <2>2, Replicas DEF ReplicaFacts
    <3> QED
      BY <3>1 DEF DesksFollow
  <2> QED
    BY <2>1, <2>2
<1>11. DesksFollow'
  BY <1>9, <1>10 DEF DesksFollow
<1> QED
  BY <1>2, <1>5, <1>11 DEF h

\* It keeps what is sound.
LEMMA RefreshSound ==
  ASSUME ListsTyped, ListsTyped', NEW d \in ListDesk, NEW copy \in ListDocument,
         NEW local, OnceEach(local),
         listDoc' = [listDoc EXCEPT ![d] = displayTakeList(d, copy)],
         shadowOf' = [shadowOf EXCEPT ![d] = Display(displayTakeList(d, copy), local)],
         \A e \in ListDesk : OnceEach(shadowOf[e]),
         NEW E, SetSound(E), copy.els \subseteq E,
         DocSound(copy, removed'),
         \A r \in ListReplica \ {d} :
            /\ listDoc[r].els \subseteq E
            /\ DocSound(listDoc[r], removed')
            /\ listDoc[r].entry # 0 /\ copy.entry # 0 => listDoc[r].entry = copy.entry
            /\ \A s \in ListReplica \ {d} :
                  listDoc[r].entry # 0 /\ listDoc[s].entry # 0 => listDoc[r].entry = listDoc[s].entry
  PROVE  CalmLists'
<1> DEFINE h == displayTakeList(d, copy)
<1>1. h \in ListDocument /\ h.entry = copy.entry /\ h.els = copy.els /\ Stored(h) \subseteq h.els
  BY Healing DEF Stored
<1>2. SetSound(copy.els)
  BY FewerSound
<1>3. DocSound(h, removed')
  BY <1>2, HealSound DEF SetSound
<1>4. d \in ListReplica /\ listDoc'[d] = h /\ shadowOf'[d] = Display(h, local)
  BY Replicas DEF ListsTyped, ReplicaFacts
<1>5. \A r \in ListReplica \ {d} : listDoc'[r] = listDoc[r]
  BY DEF ListsTyped
<1>6. \A e \in ListDesk \ {d} : shadowOf'[e] = shadowOf[e]
  BY DEF ListsTyped
<1> HIDE DEF h
<1>7. \A r \in ListReplica : DocSound(listDoc'[r], removed') /\ listDoc'[r].els \subseteq E
  BY <1>1, <1>3, <1>4, <1>5
<1>8. SetSound(Everything')
  <2>1. Everything' \subseteq E
    BY <1>7 DEF Everything
  <2> QED
    BY <2>1, FewerSound
<1>9. SameEntry'
  <2> SUFFICES ASSUME NEW r \in ListReplica, NEW s \in ListReplica,
                      listDoc'[r].entry # 0, listDoc'[s].entry # 0
               PROVE  listDoc'[r].entry = listDoc'[s].entry
    BY DEF SameEntry
  <2>1. CASE r = d /\ s = d
    BY <2>1
  <2>2. CASE r = d /\ s # d
    BY <1>1, <1>4, <1>5, <2>2
  <2>3. CASE r # d /\ s = d
    BY <1>1, <1>4, <1>5, <2>3
  <2>4. CASE r # d /\ s # d
    BY <1>5, <2>4
  <2> QED
    BY <2>1, <2>2, <2>3, <2>4
<1>10. \A e \in ListDesk : OnceEach(shadowOf'[e])
  <2>1. OnceEach(Display(h, local))
    <3>1. Stored(h) \subseteq Element
      BY <1>1, TypedDocument
    <3>2. TagsTell(Stored(h))
      BY <1>1, <1>2 DEF SetSound, TagsTell
    <3> QED
      BY <3>1, <3>2, DedupedOnce DEF Display
  <2> QED
    BY <1>4, <1>6, <2>1
<1> QED
  BY <1>7, <1>8, <1>9, <1>10 DEF CalmLists

\* What an edit keeps of a document's elements, and what it writes anew.
ItemOf(e) == [id |-> e.id, val |-> e.val]
KeptOf(copy, next) == {e \in Winners(Stored(copy)) : ItemOf(e) \in next}
NewOf(copy, next) == next \ {ItemOf(e) : e \in KeptOf(copy, next)}

\* Elements that some items became.
Made(N, copy, arr, items, f) ==
    /\ \A n \in N : \E i \in items :
          /\ n.arr = arr /\ n.id = i.id /\ n.val = i.val /\ n.tag = f[i]
          /\ n.from = UNION {w.from \cup {w.tag} : w \in Replaced(copy, i.id)}
    /\ \A i \in items : \E n \in N : n.id = i.id
    /\ \A m, n \in N : (\A i, j \in items : i.id = j.id => i = j) /\ m.id = n.id => m = n

\* The new elements of writeTakeList and seedTakeListOnce are those the items became.
LEMMA FreshMade ==
  ASSUME NEW d \in ListDesk, NEW copy \in ListDocument, NEW arr \in 1..MaxArrayRank, NEW items,
         items \subseteq Item, NEW f \in [items -> 1..MaxTag]
  PROVE  /\ Fresh(d, copy, arr, items, f) \subseteq Element
         /\ Made(Fresh(d, copy, arr, items, f), copy, arr, items, f)
<1> DEFINE N == Fresh(d, copy, arr, items, f)
           Past(i) == UNION {w.from \cup {w.tag} : w \in Replaced(copy, i.id)}
           El(i) == [arr |-> arr, id |-> i.id, val |-> i.val, tag |-> f[i], by |-> d, from |-> Past(i)]
<1>1. N = {El(i) : i \in items}
  BY DEF Fresh
<1>2. ASSUME NEW i \in items PROVE Past(i) \subseteq 1..MaxTag
  <2>1. Replaced(copy, i.id) \subseteq Element
    BY TypedDocument DEF Replaced, Winners
  <2>2. \A w \in Replaced(copy, i.id) : w.from \cup {w.tag} \subseteq 1..MaxTag
    BY <2>1, TypedElement
  <2> QED
    BY <2>2
<1> HIDE DEF N, Past
<1>3. \A i \in items : /\ El(i).arr = arr /\ El(i).id = i.id /\ El(i).val = i.val /\ El(i).tag = f[i]
                       /\ El(i).from = Past(i)
  OBVIOUS
<1>4. \A i \in items : El(i) \in Element
  BY <1>2 DEF Element, Item
<1> HIDE DEF El
<1>5. N \subseteq Element
  BY <1>1, <1>4
<1>6. Made(N, copy, arr, items, f)
  <2>1. ASSUME NEW n \in N
        PROVE  \E i \in items :
                 /\ n.arr = arr /\ n.id = i.id /\ n.val = i.val /\ n.tag = f[i]
                 /\ n.from = UNION {w.from \cup {w.tag} : w \in Replaced(copy, i.id)}
    BY <1>1, <1>3 DEF Past
  <2>2. ASSUME NEW i \in items PROVE \E n \in N : n.id = i.id
    BY <1>1, <1>3
  <2>3. ASSUME NEW m \in N, NEW n \in N, \A i, j \in items : i.id = j.id => i = j, m.id = n.id
        PROVE  m = n
    BY <1>1, <1>3, <2>3
  <2> QED
    BY <2>1, <2>2, <2>3 DEF Made
<1> QED
  BY <1>5, <1>6 DEF N

\* What writing a list does to the document.
Written(d, copy, next, new, N, arr, f) ==
    /\ arr \in 1..MaxArrayRank /\ f \in Tags(copy, NewOf(copy, next))
    /\ hasTakeList(copy) => arr = copy.entry
    /\ N \subseteq Element /\ Made(N, copy, arr, NewOf(copy, next), f)
    /\ new \in ListDocument /\ new.entry = arr /\ new.seeded = copy.seeded
    /\ new.els = copy.els \cup N /\ new.del = copy.del \cup (Stored(copy) \ KeptOf(copy, next))

\* writeTakeList leads to such documents only (collab-doc-lists.ts).
LEMMA WriteShape ==
  ASSUME NEW d \in ListDesk, NEW copy \in ListDocument, NEW next, next \subseteq Item,
         NEW new \in writeTakeList(d, copy, next)
  PROVE  \E N, arr, f : Written(d, copy, next, new, N, arr, f)
<1> DEFINE K == {e \in Winners(Stored(copy)) : [id |-> e.id, val |-> e.val] \in next}
           I == next \ {[id |-> e.id, val |-> e.val] : e \in K}
<1>1. writeTakeList(d, copy, next) =
        {Rewrite(d, copy, arr, Stored(copy) \ K, I, f) : arr \in ArrayOf(copy), f \in Tags(copy, I)}
  BY DEF writeTakeList
<1>2. I \subseteq Item /\ K = KeptOf(copy, next) /\ I = NewOf(copy, next)
  BY DEF NewOf, KeptOf, ItemOf
<1> HIDE DEF I, K
<1>3. PICK arr \in ArrayOf(copy), f \in Tags(copy, I) : new = Rewrite(d, copy, arr, Stored(copy) \ K, I, f)
  BY <1>1
<1>4. arr \in 1..MaxArrayRank /\ (hasTakeList(copy) => arr = copy.entry)
  <2>1. copy.entry \in 0..MaxArrayRank
    BY TypedDocument
  <2> QED
    BY <1>3, <2>1, ListAssumption DEF hasTakeList, ArrayOf
<1>5. f \in [I -> 1..MaxTag]
  BY <1>3 DEF Tags
<1> DEFINE N == Fresh(d, copy, arr, I, f)
<1>6. N \subseteq Element /\ Made(N, copy, arr, I, f)
  BY <1>2, <1>4, <1>5, FreshMade
<1> HIDE DEF N
<1>7. new = [copy EXCEPT !.entry = arr, !.els = @ \cup N, !.del = @ \cup (Stored(copy) \ K)]
  BY <1>3 DEF N, Rewrite
<1>8. /\ new.entry = arr /\ new.seeded = copy.seeded /\ new.els = copy.els \cup N
      /\ new.del = copy.del \cup (Stored(copy) \ K)
  BY <1>7 DEF ListDocument
<1>9. new \in ListDocument
  <2>1. arr \in 0..MaxArrayRank
    BY <1>4, ListAssumption
  <2>2. copy.els \cup N \in SUBSET Element /\ copy.del \cup (Stored(copy) \ K) \in SUBSET Element
    BY <1>6, TypedDocument
  <2> QED
    BY <1>7, <2>1, <2>2 DEF ListDocument
<1> QED
  BY <1>2, <1>3, <1>4, <1>6, <1>8, <1>9 DEF Written

\* An edit keeps types, and the desk's shadow follows its document.
LEMMA CommitFollows ==
  ASSUME ListsTyped, DesksFollow, NEW d \in ListDesk, NEW next, next \subseteq Item, Commit(d, next)
  PROVE  ListsTyped' /\ DesksFollow'
<1>1. PICK new \in writeTakeList(d, listDoc[d], next) : Refreshed(d, new, next)
  BY DEF Commit
<1>2. UNCHANGED <<shownOf, syncedOf>>
  BY DEF Commit
<1>3. listDoc[d] \in ListDocument
  BY Replicas DEF ListsTyped, ReplicaFacts
<1>4. PICK N, arr, f : Written(d, listDoc[d], next, new, N, arr, f)
  BY <1>1, <1>3, WriteShape
<1>5. new \in ListDocument /\ new.entry # 0
  BY <1>4, ListAssumption DEF Written
<1>6. Seeding(new) /\ hasTakeList(new)
  BY <1>5 DEF Seeding, hasTakeList
<1>7. shownOf' \in [ListDesk -> SUBSET Item] /\ syncedOf' \in [ListDesk -> BOOLEAN]
  BY <1>2 DEF ListsTyped
<1> QED
  BY <1>1, <1>2, <1>5, <1>6, <1>7, RefreshFollows

\* An edit after which nothing is amiss met the newest render and one array.
LEMMA CommitFacts ==
  ASSUME ListsTyped, NEW d \in ListDesk, NEW next, next \subseteq Item, Commit(d, next), mishap' = {}
  PROVE  /\ mishap = {} /\ ~Clears(listDoc[d]) /\ shownOf[d] = Display(listDoc[d], shadowOf[d])
         /\ \E new, N, arr, f : /\ Written(d, listDoc[d], next, new, N, arr, f)
                              /\ Refreshed(d, new, next) /\ ~Crossed(listDoc[d], new)
<1>1. PICK new \in writeTakeList(d, listDoc[d], next) :
        /\ Refreshed(d, new, next)
        /\ mishap' = mishap \cup (IF Clears(listDoc[d]) THEN {"cleared"} ELSE {})
                            \cup (IF Crossed(listDoc[d], new) THEN {"crossed"} ELSE {})
                            \cup (IF shownOf[d] # Display(listDoc[d], shadowOf[d]) THEN {"stale"} ELSE {})
  BY DEF Commit
<1>2. listDoc[d] \in ListDocument
  BY Replicas DEF ListsTyped, ReplicaFacts
<1>3. \E N, arr, f : Written(d, listDoc[d], next, new, N, arr, f)
  BY <1>1, <1>2, WriteShape
<1>4. /\ mishap = {} /\ ~Clears(listDoc[d]) /\ ~Crossed(listDoc[d], new)
      /\ shownOf[d] = Display(listDoc[d], shadowOf[d])
  BY <1>1
<1> QED
  BY <1>1, <1>3, <1>4

\* With no array anywhere there are no elements.
LEMMA NothingYet ==
  ASSUME ListsTyped, CalmLists, NEW copy, copy.entry = 0, ~Clears(copy)
  PROVE  /\ \A r \in ListReplica : listDoc[r].entry = 0 /\ listDoc[r].els = {} /\ listDoc[r].del = {}
         /\ Everything = {}
<1>1. ASSUME NEW r \in ListReplica PROVE listDoc[r].entry = 0
  <2>1. listDoc[r].entry \in AllRanks
    BY DEF AllRanks
  <2> QED
    BY <2>1 DEF Clears
<1>2. \A r \in ListReplica : listDoc[r].els = {} /\ listDoc[r].del = {}
  BY <1>1, TheWhole
<1> QED
  BY <1>1, <1>2 DEF Everything

\* The first list of a take is sound.
LEMMA FirstSound ==
  ASSUME NEW gone, NEW copy \in ListDocument, copy.els = {}, copy.del = {}, NEW items, OnceEach(items),
         NEW N, N \subseteq Element, NEW arr, NEW f, Made(N, copy, arr, items, f),
         NEW new \in ListDocument, new.entry = arr, new.els = N, new.del = {}
  PROVE  SetSound(N) /\ DocSound(new, gone)
<1>1. \A i : Replaced(copy, i) = {}
  BY DEF Replaced, Winners, Stored
<1>2. \A n \in N : n.from = {} /\ n.arr = arr
  BY <1>1 DEF Made
<1>3. \A n \in N : \A m \in N : m.id = n.id => m = n
  BY DEF Made, OnceEach
<1>4. InList(new)
  BY <1>2 DEF InList
<1> DEFINE E == {e \in Element : FALSE}
<1>5. SetSound(E) /\ E \subseteq Element /\ copy.els \subseteq E /\ E = {}
  BY DEF SetSound, TagsTell, PastAbove, LinesTogether
<1>6. /\ PastKept(copy) /\ GoneForReason(copy, gone) /\ copy.del \subseteq copy.els
      /\ new.els = copy.els \cup N /\ new.del = copy.del
  BY DEF PastKept, GoneForReason
<1> HIDE DEF E
<1>7. NewIds(N, E)
  BY <1>2, <1>3, <1>5 DEF NewIds
<1>8. SetSound(E \cup N) /\ DocSound(new, gone)
  <2>1. copy.els \subseteq E /\ SetSound(E) /\ E \subseteq Element
    BY <1>5
  <2> QED
    BY <1>4, <1>6, <1>7, <2>1, AddSound
<1>9. E \cup N = N
  BY <1>5
<1> QED
  BY <1>8, <1>9

\* A commit whose elements and document are sound leaves everything sound.
LEMMA CommitSound ==
  ASSUME ListsTyped, ListsTyped', CalmLists, NEW d \in ListDesk, NEW next, OnceEach(next),
         NEW new, NEW N, NEW arr, NEW f, Written(d, listDoc[d], next, new, N, arr, f),
         Refreshed(d, new, next), ~Clears(listDoc[d]), removed \subseteq removed',
         SetSound(Everything \cup N), DocSound(new, removed')
  PROVE  CalmLists'
<1>1. /\ listDoc' = [listDoc EXCEPT ![d] = displayTakeList(d, new)]
      /\ shadowOf' = [shadowOf EXCEPT ![d] = Display(displayTakeList(d, new), next)]
  BY DEF Refreshed, shadowAfter
<1>2. /\ new \in ListDocument /\ new.entry = arr /\ new.els = listDoc[d].els \cup N
      /\ hasTakeList(listDoc[d]) => arr = listDoc[d].entry
  BY DEF Written
<1>3. d \in ListReplica
  BY Replicas DEF ReplicaFacts
<1>4. new.els \subseteq Everything \cup N
  BY <1>2, <1>3, TheWhole
<1>5. ASSUME NEW r \in ListReplica
      PROVE  /\ listDoc[r].els \subseteq Everything \cup N
             /\ DocSound(listDoc[r], removed')
             /\ listDoc[r].entry # 0 /\ new.entry # 0 => listDoc[r].entry = new.entry
             /\ \A s \in ListReplica :
                  listDoc[r].entry # 0 /\ listDoc[s].entry # 0 => listDoc[r].entry = listDoc[s].entry
  <2>1. listDoc[r].els \subseteq Everything \cup N /\ listDoc[r] \in ListDocument
    BY TheWhole
  <2>2. DocSound(listDoc[r], removed')
    <3>1. DocSound(listDoc[r], removed)
      BY DEF CalmLists
    <3> QED
      BY <2>1, <3>1, RemoveSound DEF DocSound
  <2>3. listDoc[r].entry # 0 => listDoc[r].entry = new.entry
    <3>1. CASE hasTakeList(listDoc[d])
      BY <1>2, <1>3, <3>1 DEF hasTakeList, CalmLists, SameEntry
    <3>2. CASE ~hasTakeList(listDoc[d])
      BY <3>2, NothingYet DEF hasTakeList
    <3> QED
      BY <3>1, <3>2
  <2> QED
    BY <2>1, <2>2, <2>3 DEF CalmLists, SameEntry
<1>6. \A e \in ListDesk : OnceEach(shadowOf[e])
  BY DEF CalmLists
<1> DEFINE E == Everything \cup N
<1> HIDE DEF E
<1>7. SetSound(E) /\ new.els \subseteq E /\ \A r \in ListReplica : listDoc[r].els \subseteq E
  BY <1>4, <1>5 DEF E
<1>8. \A r \in ListReplica \ {d} :
        /\ listDoc[r].els \subseteq E
        /\ DocSound(listDoc[r], removed')
        /\ listDoc[r].entry # 0 /\ new.entry # 0 => listDoc[r].entry = new.entry
        /\ \A s \in ListReplica \ {d} :
              listDoc[r].entry # 0 /\ listDoc[s].entry # 0 => listDoc[r].entry = listDoc[s].entry
  BY <1>5, <1>7
<1>9. new \in ListDocument
  BY <1>2
<1> QED
  BY <1>1, <1>6, <1>7, <1>8, <1>9, RefreshSound

\* The first list of a take.
LEMMA CommitFirst ==
  ASSUME ListsTyped, ListsTyped', CalmLists, NEW d \in ListDesk, NEW next, next \subseteq Item, OnceEach(next),
         NEW new, NEW N, NEW arr, NEW f, Written(d, listDoc[d], next, new, N, arr, f),
         Refreshed(d, new, next), ~Clears(listDoc[d]), removed \subseteq removed',
         ~hasTakeList(listDoc[d])
  PROVE  CalmLists'
<1> DEFINE copy == listDoc[d]
<1>1. copy \in ListDocument /\ copy.els = {} /\ copy.del = {} /\ Everything = {}
  BY Replicas, NothingYet DEF ListsTyped, ReplicaFacts, hasTakeList
<1>2. Stored(copy) = {} /\ NewOf(copy, next) = next
  BY <1>1 DEF Stored, NewOf, KeptOf, Winners
<1> HIDE DEF copy
<1>3. Written(d, copy, next, new, N, arr, f)
  BY DEF copy
<1>4. /\ N \subseteq Element /\ Made(N, copy, arr, next, f) /\ new \in ListDocument /\ new.entry = arr
      /\ new.els = N /\ new.del = {}
  BY <1>1, <1>2, <1>3 DEF Written
<1>5. SetSound(N) /\ DocSound(new, removed')
  BY <1>1, <1>4, FirstSound
<1>6. SetSound(Everything \cup N)
  BY <1>1, <1>5
<1> QED
  BY <1>5, <1>6, CommitSound

\* What a desk shows of a list in the document.
LEMMA ListShown ==
  ASSUME ListsTyped, DesksFollow, CalmLists, NEW d \in ListDesk, hasTakeList(listDoc[d])
  PROVE  /\ listDoc[d] \in ListDocument /\ DocSound(listDoc[d], removed)
         /\ Winners(Stored(listDoc[d])) = Stored(listDoc[d])
         /\ Stored(listDoc[d]) \subseteq listDoc[d].els /\ listDoc[d].els \subseteq Everything
         /\ Everything \subseteq Element
         /\ \A e, f \in Stored(listDoc[d]) : e.id = f.id => e = f
         /\ Display(listDoc[d], shadowOf[d]) = {ItemOf(e) : e \in Stored(listDoc[d])}
<1> DEFINE copy == listDoc[d]
<1>1. d \in ListReplica
  BY Replicas DEF ReplicaFacts
<1>2. /\ copy \in ListDocument /\ DocSound(copy, removed) /\ Winners(Stored(copy)) = Stored(copy)
      /\ copy.els \subseteq Everything /\ Everything \subseteq Element
  BY <1>1, TheWhole DEF DesksFollow, Healed, CalmLists
<1>3. Stored(copy) \subseteq copy.els
  BY DEF Stored
<1>4. ASSUME NEW e \in Stored(copy), NEW f \in Stored(copy), e.id = f.id PROVE e = f
  <2>1. e \in Winners(Stored(copy)) /\ f \in Winners(Stored(copy))
    BY <1>2
  <2>2. e.tag <= f.tag /\ f.tag <= e.tag
    BY <1>4, <2>1 DEF Winners
  <2>3. e \in Everything /\ f \in Everything /\ e.tag \in Nat /\ f.tag \in Nat
    BY <1>2, <1>3, TypedElement
  <2> QED
    BY <1>4, <2>2, <2>3 DEF CalmLists, SetSound, TagsTell
<1>5. Display(copy, shadowOf[d]) = {ItemOf(e) : e \in Stored(copy)}
  BY <1>2 DEF Display, dedupeById, ItemOf
<1> QED
  BY <1>2, <1>3, <1>4, <1>5

\* A desk shows an id once.
LEMMA ShownOnce ==
  ASSUME ListsTyped, CalmLists, NEW d \in ListDesk
  PROVE  OnceEach(Display(listDoc[d], shadowOf[d]))
<1>1. CASE hasTakeList(listDoc[d])
  <2>1. d \in ListReplica
    BY Replicas DEF ReplicaFacts
  <2>2. Stored(listDoc[d]) \subseteq Everything /\ Everything \subseteq Element
    BY <2>1, TheWhole DEF Stored
  <2>3. TagsTell(Stored(listDoc[d]))
    BY <2>2 DEF CalmLists, SetSound, TagsTell
  <2> QED
    BY <1>1, <2>2, <2>3, DedupedOnce DEF Display
<1>2. CASE ~hasTakeList(listDoc[d])
  BY <1>2 DEF Display, CalmLists
<1> QED
  BY <1>1, <1>2

\* A new item.
LEMMA AddKeeps ==
  ASSUME ListsTyped, ListsTyped', DesksFollow, CalmLists, NEW d \in ListDesk, NEW i \in ItemId,
         AddItem(d, i), mishap' = {}
  PROVE  CalmLists'
<1> DEFINE x == [id |-> i, val |-> 0]
           next == addComment(shownOf[d], i)
           copy == listDoc[d]
<1>1. i \notin EverUsed /\ Commit(d, next) /\ removed' = removed
  BY DEF AddItem
<1>2. x \in Item /\ x.id = i /\ next = shownOf[d] \cup {x} /\ shownOf[d] \subseteq Item
  BY ListAssumption DEF addComment, Item, ListsTyped
<1> HIDE DEF x, next
<1>3. PICK new, N, arr, f : /\ Written(d, listDoc[d], next, new, N, arr, f)
                            /\ Refreshed(d, new, next) /\ ~Crossed(listDoc[d], new)
  BY <1>1, <1>2, CommitFacts
<1>4. ~Clears(copy) /\ shownOf[d] = Display(copy, shadowOf[d])
  BY <1>1, <1>2, CommitFacts
<1>5. \A y \in shownOf[d] : y.id # i
  BY <1>1 DEF EverUsed
<1>6. OnceEach(next) /\ next \subseteq Item
  BY <1>2, <1>4, <1>5, ShownOnce DEF OnceEach
<1>7. CASE ~hasTakeList(copy)
  BY <1>1, <1>3, <1>4, <1>6, <1>7, CommitFirst
<1>8. CASE hasTakeList(copy)
  <2>1. /\ copy \in ListDocument /\ DocSound(copy, removed)
        /\ Winners(Stored(copy)) = Stored(copy)
        /\ Stored(copy) \subseteq copy.els /\ copy.els \subseteq Everything /\ Everything \subseteq Element
        /\ Display(copy, shadowOf[d]) = {ItemOf(e) : e \in Stored(copy)}
    BY <1>8, ListShown
  <2> HIDE DEF copy
  <2>2. KeptOf(copy, next) = Stored(copy)
    BY <1>2, <1>4, <2>1 DEF KeptOf
  <2>3. NewOf(copy, next) \subseteq {x}
    BY <1>2, <1>4, <2>1, <2>2 DEF NewOf
  <2>4. \A e \in Everything : e.id # i
    BY <1>1 DEF EverUsed, Everything
  <2>5. Written(d, copy, next, new, N, arr, f)
    BY <1>3 DEF copy
  <2>6. /\ Made(N, copy, arr, NewOf(copy, next), f) /\ new \in ListDocument
        /\ new.entry = arr /\ arr = copy.entry /\ new.els = copy.els \cup N /\ new.del = copy.del
    BY <1>8, <2>2, <2>5 DEF Written
  <2>7. Replaced(copy, i) = {}
    BY <2>1, <2>4 DEF Replaced
  <2>8. \A n \in N : n.from = {} /\ n.arr = arr /\ n.id = i
    BY <1>2, <2>3, <2>6, <2>7 DEF Made
  <2>9. \A m, n \in N : m.id = n.id => m = n
    BY <2>3, <2>6 DEF Made
  <2>10. NewIds(N, Everything)
    BY <2>4, <2>8, <2>9 DEF NewIds
  <2>11. InList(new)
    BY <2>1, <2>6, <2>8 DEF InList, DocSound
  <2>12. SetSound(Everything) /\ copy.del \subseteq copy.els /\ PastKept(copy) /\ GoneForReason(copy, removed)
    BY <2>1 DEF CalmLists, DocSound
  <2>13. SetSound(Everything \cup N) /\ DocSound(new, removed)
    BY <2>1, <2>6, <2>10, <2>11, <2>12, AddSound
  <2> QED
    BY <1>1, <1>3, <1>4, <1>6, <2>13, CommitSound DEF copy
<1> QED
  BY <1>7, <1>8

\* A removed item.
LEMMA RemoveKeeps ==
  ASSUME ListsTyped, ListsTyped', DesksFollow, CalmLists, NEW d \in ListDesk, NEW x \in shownOf[d],
         RemoveItem(d, x), mishap' = {}
  PROVE  CalmLists'
<1> DEFINE next == removeComment(shownOf[d], x)
           copy == listDoc[d]
<1>1. Commit(d, next) /\ removed' = removed \cup {x.id}
  BY DEF RemoveItem
<1>2. next = shownOf[d] \ {x} /\ shownOf[d] \subseteq Item /\ next \subseteq Item
  BY DEF removeComment, ListsTyped
<1> HIDE DEF next
<1>3. PICK new, N, arr, f : /\ Written(d, listDoc[d], next, new, N, arr, f)
                            /\ Refreshed(d, new, next) /\ ~Crossed(listDoc[d], new)
  BY <1>1, <1>2, CommitFacts
<1>4. ~Clears(copy) /\ shownOf[d] = Display(copy, shadowOf[d])
  BY <1>1, <1>2, CommitFacts
<1>6. OnceEach(next)
  BY <1>2, <1>4, ShownOnce DEF OnceEach
<1>7. CASE ~hasTakeList(copy)
  BY <1>1, <1>2, <1>3, <1>4, <1>6, <1>7, CommitFirst
<1>8. CASE hasTakeList(copy)
  <2>1. /\ copy \in ListDocument /\ DocSound(copy, removed)
        /\ Winners(Stored(copy)) = Stored(copy)
        /\ Stored(copy) \subseteq copy.els
        /\ Display(copy, shadowOf[d]) = {ItemOf(e) : e \in Stored(copy)}
    BY <1>8, ListShown
  <2> HIDE DEF copy
  <2>2. \A e \in Stored(copy) : e \notin KeptOf(copy, next) => e.id = x.id
    BY <1>2, <1>4, <2>1 DEF KeptOf, ItemOf
  <2>3. NewOf(copy, next) = {}
    BY <1>2, <1>4, <2>1 DEF NewOf, KeptOf
  <2>5. Written(d, copy, next, new, N, arr, f)
    BY <1>3 DEF copy
  <2>6. /\ Made(N, copy, arr, NewOf(copy, next), f) /\ new \in ListDocument
        /\ new.entry = copy.entry /\ new.els = copy.els \cup N
        /\ new.del = copy.del \cup (Stored(copy) \ KeptOf(copy, next))
    BY <1>8, <2>5 DEF Written
  <2>7. N = {}
    BY <2>3, <2>6 DEF Made
  <2>8. copy.del \subseteq new.del /\ new.del \subseteq new.els /\ new.els = copy.els
    BY <2>1, <2>6, <2>7 DEF DocSound
  <2>9. \A e \in new.del \ copy.del : e.id \in removed'
    BY <1>1, <2>2, <2>6
  <2>10. DocSound(new, removed')
    BY <1>1, <2>1, <2>6, <2>8, <2>9, RemoveSound
  <2>11. SetSound(Everything \cup N)
    BY <2>7 DEF CalmLists
  <2> QED
    BY <1>1, <1>3, <1>4, <1>6, <2>10, <2>11, CommitSound DEF copy
<1> QED
  BY <1>7, <1>8

\* A changed item.
LEMMA EditKeeps ==
  ASSUME ListsTyped, ListsTyped', DesksFollow, CalmLists, NEW d \in ListDesk, NEW x \in shownOf[d],
         EditItem(d, x), mishap' = {}
  PROVE  CalmLists'
<1>0. PICK v \in Payload \ {x.val} : Commit(d, editComment(shownOf[d], x, v))
  BY DEF EditItem
<1> DEFINE y == [x EXCEPT !.val = v]
           next == editComment(shownOf[d], x, v)
           copy == listDoc[d]
<1>1. Commit(d, next) /\ removed' = removed
  BY <1>0 DEF EditItem
<1>2. shownOf[d] \subseteq Item /\ next = (shownOf[d] \ {x}) \cup {y}
  BY DEF editComment, ListsTyped
<1>3. y \in Item /\ y.id = x.id /\ y.val = v /\ y # x
  BY <1>0, <1>2 DEF Item
<1> HIDE DEF next, y
<1>4. next \subseteq Item
  BY <1>2, <1>3
<1>5. PICK new, N, arr, f : /\ Written(d, listDoc[d], next, new, N, arr, f)
                            /\ Refreshed(d, new, next) /\ ~Crossed(listDoc[d], new)
  BY <1>1, <1>4, CommitFacts
<1>6. ~Clears(copy) /\ shownOf[d] = Display(copy, shadowOf[d])
  BY <1>1, <1>4, CommitFacts
<1>7. OnceEach(next)
  <2>1. OnceEach(shownOf[d])
    BY <1>6, ShownOnce
  <2> QED
    BY <1>2, <1>3, <2>1 DEF OnceEach
<1>8. CASE ~hasTakeList(copy)
  BY <1>1, <1>4, <1>5, <1>6, <1>7, <1>8, CommitFirst
<1>9. CASE hasTakeList(copy)
  <2>1. /\ copy \in ListDocument /\ DocSound(copy, removed)
        /\ Winners(Stored(copy)) = Stored(copy)
        /\ Stored(copy) \subseteq copy.els /\ copy.els \subseteq Everything /\ Everything \subseteq Element
        /\ \A e, f1 \in Stored(copy) : e.id = f1.id => e = f1
        /\ Display(copy, shadowOf[d]) = {ItemOf(e) : e \in Stored(copy)}
    BY <1>9, ListShown
  <2> HIDE DEF copy
  <2>2. PICK w \in Stored(copy) : x = ItemOf(w)
    BY <1>6, <2>1
  <2>3. w.id = x.id /\ w \in Element
    BY <2>1, <2>2 DEF ItemOf
  <2>4. \A e \in Stored(copy) : ItemOf(e).id = e.id
    BY DEF ItemOf
  <2>5. KeptOf(copy, next) = Stored(copy) \ {w}
    <3>1. \A e \in Stored(copy) : e # w => ItemOf(e) \in shownOf[d] /\ ItemOf(e) # x
      BY <1>6, <2>1, <2>2, <2>3, <2>4
    <3>2. ItemOf(w) \notin next
      BY <1>2, <1>3, <2>2
    <3> QED
      BY <1>2, <2>1, <3>1, <3>2 DEF KeptOf
  <2>6. NewOf(copy, next) = {y}
    <3>1. \A e \in Stored(copy) \ {w} : ItemOf(e) # y
      BY <1>3, <2>1, <2>3, <2>4
    <3>2. \A z \in next : z = y \/ \E e \in Stored(copy) \ {w} : z = ItemOf(e)
      BY <1>2, <1>6, <2>1, <2>2
    <3> QED
      BY <1>2, <2>5, <3>1, <3>2 DEF NewOf
  <2>7. Written(d, copy, next, new, N, arr, f)
    BY <1>5 DEF copy
  <2>8. /\ Made(N, copy, arr, {y}, f) /\ new \in ListDocument /\ N \subseteq Element /\ f \in Tags(copy, {y})
        /\ new.entry = arr /\ arr = copy.entry /\ new.els = copy.els \cup N /\ new.del = copy.del \cup {w}
    BY <1>9, <2>5, <2>6, <2>7 DEF Written
  <2>9. Replaced(copy, y.id) = {w}
    BY <1>3, <2>1, <2>3 DEF Replaced
  <2>10. PICK n \in N : n.id = y.id
    BY <2>8 DEF Made
  <2>11. N = {n}
    BY <2>8, <2>10 DEF Made
  <2>12. /\ n \in Element /\ n.id = w.id /\ n.arr = copy.entry /\ n.from = w.from \cup {w.tag}
         /\ n.tag = f[y]
    <3>1. /\ n.arr = arr /\ n.tag = f[y]
          /\ n.from = UNION {u.from \cup {u.tag} : u \in Replaced(copy, y.id)}
      BY <2>8 DEF Made
    <3>2. n.from = w.from \cup {w.tag}
      BY <2>9, <3>1
    <3> QED
      BY <1>3, <2>3, <2>8, <2>10, <3>1, <3>2
  <2>13. f[y] \notin TagsOf(y.id) /\ f[y] < w.tag
    BY <2>8, <2>9 DEF Tags
  <2>14. \A g \in Everything : g.id = y.id => g \in ElementsOf(y.id)
    BY DEF Everything, ElementsOf
  <2>15. n \notin Everything
    BY <2>10, <2>12, <2>13, <2>14 DEF TagsOf
  <2>16. \A g \in Everything : g.id = n.id => g.tag # n.tag /\ ~(n.tag < g.tag /\ g.tag < w.tag)
    <3> SUFFICES ASSUME NEW g \in Everything, g.id = n.id
                 PROVE  g.tag # n.tag /\ ~(n.tag < g.tag /\ g.tag < w.tag)
      OBVIOUS
    <3>1. g \in ElementsOf(y.id)
      BY <2>10, <2>14
    <3>2. n \in new.els \ copy.els /\ w \in Replaced(copy, n.id) /\ g \in ElementsOf(n.id)
      BY <2>1, <2>8, <2>9, <2>10, <2>15, <3>1
    <3>3. ~Crossed(copy, new)
      BY <1>5 DEF copy
    <3> QED
      BY <2>10, <2>12, <2>13, <3>1, <3>2, <3>3 DEF Crossed, TagsOf
  <2>17. SetSound(Everything) /\ PastThere(Everything)
    BY TheWhole DEF CalmLists
  <2>18. SetSound(Everything \cup {n}) /\ DocSound(new, removed)
    <3>1. new.entry = copy.entry /\ new.els = copy.els \cup {n} /\ n.tag < w.tag
      BY <2>8, <2>11, <2>12, <2>13
    <3> QED
      BY <2>1, <2>8, <2>12, <2>16, <2>17, <3>1, ReplaceSound
  <2> QED
    BY <1>1, <1>5, <1>6, <1>7, <2>11, <2>18, CommitSound DEF copy
<1> QED
  BY <1>8, <1>9

\* Two replicas that hold sound documents have a sound one between them.
LEMMA MergedSound ==
  ASSUME ListsTyped, NEW r \in ListReplica, NEW s \in ListReplica
  PROVE  LET m == Merge(listDoc[r], listDoc[s])
         IN  /\ m \in ListDocument
             /\ DesksFollow => Seeding(m)
             /\ hasTakeList(m) = (hasTakeList(listDoc[r]) \/ hasTakeList(listDoc[s]))
             /\ CalmLists => /\ DocSound(m, removed) /\ m.els \subseteq Everything
                             /\ \A t \in ListReplica : listDoc[t].entry # 0 /\ m.entry # 0 =>
                                                          listDoc[t].entry = m.entry
<1> DEFINE m == Merge(listDoc[r], listDoc[s])
<1>1. listDoc[r] \in ListDocument /\ listDoc[s] \in ListDocument
  BY DEF ListsTyped
<1>2. /\ m \in ListDocument
      /\ m.els = listDoc[r].els \cup listDoc[s].els
      /\ m.seeded = (listDoc[r].seeded \/ listDoc[s].seeded)
      /\ m.entry \in {listDoc[r].entry, listDoc[s].entry}
      /\ m.entry = 0 => listDoc[r].entry = 0 /\ listDoc[s].entry = 0
  BY <1>1, Merging
<1>3. CalmLists => DocSound(m, removed)
  BY <1>1, MergeSound DEF CalmLists, SameEntry
<1> HIDE DEF m
<1>4. DesksFollow => Seeding(m)
  BY <1>2 DEF DesksFollow, Seeding
<1>5. hasTakeList(m) = (hasTakeList(listDoc[r]) \/ hasTakeList(listDoc[s]))
  BY <1>2 DEF hasTakeList
<1>6. m.els \subseteq Everything
  BY <1>2 DEF Everything
<1>7. ASSUME CalmLists, NEW t \in ListReplica, listDoc[t].entry # 0, m.entry # 0
      PROVE  listDoc[t].entry = m.entry
  BY <1>2, <1>7 DEF CalmLists, SameEntry
<1> QED
  BY <1>2, <1>3, <1>4, <1>5, <1>6, <1>7 DEF m

\* The server takes a desk's document in.
LEMMA SendKeeps ==
  ASSUME ListsTyped, DesksFollow, NEW d \in ListDesk, SendList(d)
  PROVE  ListsTyped' /\ DesksFollow' /\ (CalmLists => CalmLists')
<1> DEFINE m == Merge(listDoc["server"], listDoc[d])
<1>1. "server" \in ListReplica /\ d \in ListReplica /\ \A e \in ListDesk : e # "server" /\ e \in ListReplica
  BY Replicas DEF ReplicaFacts
<1>2. /\ m \in ListDocument /\ Seeding(m)
      /\ CalmLists => /\ DocSound(m, removed) /\ m.els \subseteq Everything
                      /\ \A t \in ListReplica : listDoc[t].entry # 0 /\ m.entry # 0 =>
                                                   listDoc[t].entry = m.entry
  BY <1>1, MergedSound
<1>3. /\ listDoc' = [listDoc EXCEPT !["server"] = m]
      /\ UNCHANGED <<shadowOf, shownOf, syncedOf, removed>>
  BY DEF SendList
<1> HIDE DEF m
<1>4. ListsTyped'
  BY <1>2, <1>3 DEF ListsTyped
<1>5. listDoc'["server"] = m /\ \A r \in ListReplica \ {"server"} : listDoc'[r] = listDoc[r]
  BY <1>1, <1>3 DEF ListsTyped
<1>6. \A e \in ListDesk : listDoc'[e] = listDoc[e]
  BY <1>1, <1>5
<1>7. DesksFollow'
  <2>1. \A r \in ListReplica : Seeding(listDoc'[r])
    BY <1>2, <1>5 DEF DesksFollow
  <2> QED
    BY <1>3, <1>6, <2>1 DEF DesksFollow
<1>8. ASSUME CalmLists PROVE CalmLists'
  <2>1. \A r \in ListReplica : DocSound(listDoc'[r], removed') /\ listDoc'[r].els \subseteq Everything
    <3>1. \A r \in ListReplica : DocSound(listDoc[r], removed) /\ listDoc[r].els \subseteq Everything
      BY <1>8, TheWhole DEF CalmLists
    <3> QED
      BY <1>2, <1>3, <1>5, <1>8, <3>1
  <2>2. SetSound(Everything')
    <3>1. Everything' \subseteq Everything
      BY <2>1 DEF Everything
    <3> QED
      BY <1>8, <3>1, FewerSound DEF CalmLists
  <2>3. SameEntry'
    BY <1>2, <1>5, <1>8 DEF CalmLists, SameEntry
  <2> QED
    BY <1>3, <1>8, <2>1, <2>2, <2>3 DEF CalmLists
<1> QED
  BY <1>4, <1>7, <1>8

\* A local list that moves into the document.
Sown(copy, items, new, N, arr, f) ==
    /\ arr \in 1..MaxArrayRank /\ N \subseteq Element /\ Made(N, copy, arr, items, f)
    /\ new \in ListDocument /\ new.entry = arr /\ new.els = copy.els \cup N /\ new.del = copy.del

\* seedTakeListOnce leaves the document, or sows the local list as its first.
LEMMA SeedShape ==
  ASSUME NEW d \in ListDesk, NEW copy \in ListDocument, NEW items, items \subseteq Item, Seeding(copy),
         NEW new \in seedTakeListOnce(d, copy, items)
  PROVE  \/ new = copy /\ (items = {} \/ hasTakeList(copy))
         \/ ~hasTakeList(copy) /\ \E N, arr, f : Sown(copy, items, new, N, arr, f)
<1>1. CASE items = {} \/ copy.seeded \/ hasTakeList(copy)
  BY <1>1 DEF seedTakeListOnce, Seeding, hasTakeList
<1>2. CASE ~(items = {} \/ copy.seeded \/ hasTakeList(copy))
  <2>1. PICK arr \in ArrayOf(copy), f \in Tags(copy, items) :
             new = [Rewrite(d, copy, arr, {}, items, f) EXCEPT !.seeded = TRUE]
    BY <1>2 DEF seedTakeListOnce
  <2>2. arr \in 1..MaxArrayRank /\ f \in [items -> 1..MaxTag]
    BY <1>2, <2>1 DEF ArrayOf, Tags
  <2> DEFINE N == Fresh(d, copy, arr, items, f)
             c == Rewrite(d, copy, arr, {}, items, f)
  <2>3. N \subseteq Element /\ Made(N, copy, arr, items, f)
    BY <2>2, FreshMade
  <2>4. c = [copy EXCEPT !.entry = arr, !.els = @ \cup N, !.del = @ \cup {}]
    BY DEF Rewrite
  <2> HIDE DEF N
  <2>5. c \in ListDocument /\ c.entry = arr /\ c.els = copy.els \cup N /\ c.del = copy.del
    <3>1. arr \in 0..MaxArrayRank
      BY <2>2, ListAssumption
    <3>2. copy.els \cup N \in SUBSET Element /\ copy.del \cup {} = copy.del
      BY <2>3, TypedDocument
    <3> QED
      BY <2>4, <3>1, <3>2 DEF ListDocument
  <2>6. new = [c EXCEPT !.seeded = TRUE]
    BY <2>1
  <2> HIDE DEF c
  <2>7. new \in ListDocument /\ new.entry = arr /\ new.els = copy.els \cup N /\ new.del = copy.del
    BY <2>5, <2>6 DEF ListDocument
  <2>8. Sown(copy, items, new, N, arr, f)
    BY <2>2, <2>3, <2>7 DEF Sown
  <2> QED
    BY <1>2, <2>8
<1> QED
  BY <1>1, <1>2

\* What a desk receives: the merged document, or its local list as the take's first.
LEMMA ReceiveShape ==
  ASSUME ListsTyped, DesksFollow, NEW d \in ListDesk, ReceiveList(d)
  PROVE  \E new, local :
           LET m == Merge(listDoc[d], listDoc["server"])
           IN  /\ Refreshed(d, new, local) /\ local \subseteq Item
               /\ CalmLists => OnceEach(local)
               /\ mishap \subseteq mishap' /\ UNCHANGED <<shownOf, removed>>
               /\ syncedOf' = [syncedOf EXCEPT ![d] = TRUE]
               /\ \/ new = m /\ (hasTakeList(m) \/ local = {})
                  \/ /\ ~hasTakeList(m) /\ \E N, arr, f : Sown(m, local, new, N, arr, f)
                     /\ mishap' = {} => ~Clears(m)
<1> DEFINE m == Merge(listDoc[d], listDoc["server"])
           h == displayTakeList(d, m)
           local == shadowAfter(h, shadowOf[d])
<1>1. "server" \in ListReplica /\ d \in ListReplica
  BY Replicas DEF ReplicaFacts
<1>2. /\ m \in ListDocument /\ Seeding(m)
      /\ hasTakeList(m) = (hasTakeList(listDoc[d]) \/ hasTakeList(listDoc["server"]))
      /\ CalmLists => DocSound(m, removed) /\ m.els \subseteq Everything
  BY <1>1, MergedSound
<1>3. shadowOf[d] \subseteq Item
  BY DEF ListsTyped
<1>4. /\ UNCHANGED <<shownOf, removed>> /\ syncedOf' = [syncedOf EXCEPT ![d] = TRUE]
      /\ IF syncedOf[d] THEN Refreshed(d, m, shadowOf[d]) /\ UNCHANGED mishap
         ELSE \E copy \in seedTakeListOnce(d, m, local) :
                 /\ Refreshed(d, copy, local)
                 /\ mishap' = mishap \cup IF copy.entry # m.entry /\ Clears(m) THEN {"cleared"} ELSE {}
  BY DEF ReceiveList
<1> HIDE DEF m
<1>5. h \in ListDocument /\ h.els = m.els /\ Stored(h) \subseteq h.els
  BY <1>2, Healing DEF Stored
<1> HIDE DEF h
<1>6. local \subseteq Item
  <2>1. Stored(h) \subseteq Element
    BY <1>5, TypedDocument
  <2> QED
    BY <1>3, <2>1, DedupeTyped DEF shadowAfter, Display
<1>7. ASSUME CalmLists PROVE OnceEach(local) /\ OnceEach(shadowOf[d])
  <2>1. TagsTell(Stored(h)) /\ Stored(h) \subseteq Element
    <3>1. TagsTell(Everything) /\ Everything \subseteq Element
      BY <1>7, TheWhole DEF CalmLists, SetSound
    <3> QED
      BY <1>2, <1>5, <1>7, <3>1 DEF TagsTell
  <2> QED
    BY <1>7, <2>1, DedupedOnce DEF shadowAfter, Display, CalmLists
<1> HIDE DEF local
<1>8. CASE syncedOf[d]
  <2>1. hasTakeList(m) \/ shadowOf[d] = {}
    BY <1>2, <1>8 DEF DesksFollow
  <2> QED
    BY <1>3, <1>4, <1>7, <1>8, <2>1 DEF m
<1>9. CASE ~syncedOf[d]
  <2>1. PICK new \in seedTakeListOnce(d, m, local) :
           /\ Refreshed(d, new, local)
           /\ mishap' = mishap \cup IF new.entry # m.entry /\ Clears(m) THEN {"cleared"} ELSE {}
    BY <1>4, <1>9
  <2>2. \/ new = m /\ (local = {} \/ hasTakeList(m))
        \/ ~hasTakeList(m) /\ \E N, arr, f : Sown(m, local, new, N, arr, f)
    BY <1>2, <1>6, <2>1, SeedShape
  <2>3. mishap \subseteq mishap'
    BY <2>1
  <2>4. CASE new = m /\ (local = {} \/ hasTakeList(m))
    BY <1>4, <1>6, <1>7, <2>1, <2>3, <2>4 DEF m
  <2>5. CASE ~hasTakeList(m) /\ \E N, arr, f : Sown(m, local, new, N, arr, f)
    <3>1. m.entry = 0 /\ new.entry # 0
      BY <2>5 DEF hasTakeList, Sown
    <3>2. mishap' = {} => ~Clears(m)
      BY <2>1, <3>1
    <3> QED
      BY <1>4, <1>6, <1>7, <2>1, <2>3, <2>5, <3>2 DEF m
  <2> QED
    BY <2>2, <2>4, <2>5
<1> QED
  BY <1>8, <1>9

\* A desk takes the server's document in.
LEMMA ReceiveKeeps ==
  ASSUME ListsTyped, DesksFollow, NEW d \in ListDesk, ReceiveList(d)
  PROVE  /\ ListsTyped' /\ DesksFollow' /\ mishap \subseteq mishap'
         /\ CalmLists /\ mishap' = {} => CalmLists'
<1> DEFINE m == Merge(listDoc[d], listDoc["server"])
<1>1. PICK new, local :
               /\ Refreshed(d, new, local) /\ local \subseteq Item
               /\ CalmLists => OnceEach(local)
               /\ mishap \subseteq mishap' /\ UNCHANGED <<shownOf, removed>>
               /\ syncedOf' = [syncedOf EXCEPT ![d] = TRUE]
               /\ \/ new = m /\ (hasTakeList(m) \/ local = {})
                  \/ /\ ~hasTakeList(m) /\ \E N, arr, f : Sown(m, local, new, N, arr, f)
                     /\ mishap' = {} => ~Clears(m)
  BY ReceiveShape
<1>2. "server" \in ListReplica /\ d \in ListReplica
  BY Replicas DEF ReplicaFacts
<1>3. /\ m \in ListDocument /\ Seeding(m)
      /\ CalmLists => /\ DocSound(m, removed) /\ m.els \subseteq Everything
                      /\ \A t \in ListReplica : listDoc[t].entry # 0 /\ m.entry # 0 =>
                                                   listDoc[t].entry = m.entry
  BY <1>2, MergedSound
<1>4. m.els = listDoc[d].els \cup listDoc["server"].els /\ m.del = listDoc[d].del \cup listDoc["server"].del
  BY <1>2, Merging DEF ListsTyped
<1> HIDE DEF m
<1>5. new \in ListDocument /\ Seeding(new) /\ (~hasTakeList(new) => local = {})
  <2>1. CASE new = m
    BY <1>1, <1>3, <2>1 DEF Sown, hasTakeList
  <2>2. CASE \E N, arr, f : Sown(m, local, new, N, arr, f)
    BY <2>2 DEF Sown, Seeding, hasTakeList
  <2> QED
    BY <1>1, <2>1, <2>2
<1>6. /\ shownOf' \in [ListDesk -> SUBSET Item] /\ syncedOf' \in [ListDesk -> BOOLEAN]
      /\ \A e \in ListDesk \ {d} : syncedOf'[e] = syncedOf[e]
  BY <1>1 DEF ListsTyped
<1>7. /\ ListsTyped' /\ DesksFollow'
      /\ listDoc' = [listDoc EXCEPT ![d] = displayTakeList(d, new)]
      /\ shadowOf' = [shadowOf EXCEPT ![d] = Display(displayTakeList(d, new), local)]
  <2>1. Refreshed(d, new, local) /\ local \subseteq Item
    BY <1>1
  <2>2. syncedOf'[d] /\ ~hasTakeList(new) => local = {}
    BY <1>5
  <2>3. new \in ListDocument /\ Seeding(new)
    BY <1>5
  <2> QED
    BY <1>6, <2>1, <2>2, <2>3, RefreshFollows
<1>8. ASSUME CalmLists, mishap' = {} PROVE CalmLists'
  <2>1. /\ \A e \in ListDesk : OnceEach(shadowOf[e])
        /\ \A r \in ListReplica : DocSound(listDoc[r], removed') /\ listDoc[r].els \subseteq Everything
        /\ \A r, s \in ListReplica :
              listDoc[r].entry # 0 /\ listDoc[s].entry # 0 => listDoc[r].entry = listDoc[s].entry
        /\ SetSound(Everything)
    <3>1. removed' = removed
      BY <1>1
    <3>2. \A r \in ListReplica : listDoc[r].els \subseteq Everything
      BY <1>8, TheWhole
    <3> QED
      BY <1>8, <3>1, <3>2 DEF CalmLists, SameEntry
  <2>2. CASE new = m
    <3> DEFINE E == Everything
    <3>1. SetSound(E) /\ \A r \in ListReplica : listDoc[r].els \subseteq E
      BY <2>1
    <3>2. new.els \subseteq E /\ DocSound(new, removed')
      BY <1>1, <1>3, <1>8, <2>2
    <3>3. \A r \in ListReplica : listDoc[r].entry # 0 /\ new.entry # 0 => listDoc[r].entry = new.entry
      BY <1>3, <1>8, <2>2
    <3>4. OnceEach(local) /\ new \in ListDocument
      BY <1>1, <1>5, <1>8
    <3> HIDE DEF E
    <3>5. \A r \in ListReplica \ {d} :
            /\ listDoc[r].els \subseteq E
            /\ DocSound(listDoc[r], removed')
            /\ listDoc[r].entry # 0 /\ new.entry # 0 => listDoc[r].entry = new.entry
            /\ \A s \in ListReplica \ {d} :
                  listDoc[r].entry # 0 /\ listDoc[s].entry # 0 => listDoc[r].entry = listDoc[s].entry
      BY <2>1, <3>1, <3>3
    <3> QED
      BY <1>7, <1>8, <2>1, <3>1, <3>2, <3>4, <3>5, RefreshSound
  <2>3. CASE ~hasTakeList(m) /\ ~Clears(m) /\ \E N, arr, f : Sown(m, local, new, N, arr, f)
    <3>1. PICK N, arr, f : Sown(m, local, new, N, arr, f)
      BY <2>3
    <3>2. \A r \in ListReplica : listDoc[r].entry = 0 /\ listDoc[r].els = {} /\ listDoc[r].del = {}
      BY <1>8, <2>3, NothingYet DEF hasTakeList
    <3>3. m.els = {} /\ m.del = {}
      BY <1>2, <1>4, <3>2
    <3>4. /\ N \subseteq Element /\ Made(N, m, arr, local, f) /\ new.entry = arr /\ new.els = N /\ new.del = {}
      BY <3>1, <3>3 DEF Sown
    <3>5. SetSound(N) /\ DocSound(new, removed')
      BY <1>1, <1>3, <1>5, <1>8, <3>3, <3>4, FirstSound
    <3>6. \A r \in ListReplica : listDoc[r].els \subseteq N
      BY <3>2
    <3> QED
      BY <1>1, <1>5, <1>7, <1>8, <2>1, <3>2, <3>4, <3>5, <3>6, RefreshSound
  <2> QED
    BY <1>1, <1>8, <2>2, <2>3
<1> QED
  BY <1>1, <1>7, <1>8

\* A page load, or a page's first.
LEMMA EmptySound ==
  /\ EmptyList \in ListDocument /\ Healed(EmptyList) /\ Seeding(EmptyList) /\ ~hasTakeList(EmptyList)
  /\ EmptyList.els = {} /\ EmptyList.entry = 0
  /\ \A gone : DocSound(EmptyList, gone)
<1>1. EmptyList.entry = 0 /\ EmptyList.els = {} /\ EmptyList.del = {} /\ EmptyList.seeded = FALSE
  BY DEF EmptyList
<1>2. EmptyList \in ListDocument
  BY ListAssumption DEF EmptyList, ListDocument
<1> QED
  BY <1>1, <1>2 DEF Healed, Stored, Winners, Seeding, hasTakeList, DocSound, InList, PastKept, GoneForReason

\* A page load leaves an empty document, which is sound.
LEMMA ReloadKeeps ==
  ASSUME ListsTyped, DesksFollow, NEW d \in ListDesk, ReloadLists(d)
  PROVE  ListsTyped' /\ DesksFollow' /\ (CalmLists => CalmLists')
<1>1. /\ listDoc' = [listDoc EXCEPT ![d] = EmptyList]
      /\ syncedOf' = [syncedOf EXCEPT ![d] = FALSE]
      /\ shownOf' = [shownOf EXCEPT ![d] = shadowOf[d]]
      /\ UNCHANGED <<shadowOf, removed>>
  BY DEF ReloadLists
<1>2. d \in ListReplica /\ ListDesk \subseteq ListReplica
  BY Replicas DEF ReplicaFacts
<1>3. ListsTyped'
  BY <1>1, EmptySound DEF ListsTyped
<1>4. /\ listDoc'[d] = EmptyList /\ \A r \in ListReplica \ {d} : listDoc'[r] = listDoc[r]
      /\ syncedOf'[d] = FALSE /\ \A e \in ListDesk \ {d} : syncedOf'[e] = syncedOf[e]
  BY <1>1, <1>2 DEF ListsTyped
<1>5. DesksFollow'
  <2>1. \A r \in ListReplica : Seeding(listDoc'[r])
    BY <1>4, EmptySound DEF DesksFollow
  <2>2. ASSUME NEW e \in ListDesk
        PROVE  /\ Healed(listDoc'[e])
               /\ hasTakeList(listDoc'[e]) => shadowOf[e] = dedupeById(Stored(listDoc'[e]))
               /\ syncedOf'[e] /\ ~hasTakeList(listDoc'[e]) => shadowOf[e] = {}
    <3>1. CASE e = d
      BY <1>4, <3>1, EmptySound
    <3>2. CASE e # d
      BY <1>2, <1>4, <3>2 DEF DesksFollow
    <3> QED
      BY <3>1, <3>2
  <2> QED
    BY <1>1, <2>1, <2>2 DEF DesksFollow
<1>6. ASSUME CalmLists PROVE CalmLists'
  <2>1. \A r \in ListReplica : DocSound(listDoc'[r], removed') /\ listDoc'[r].els \subseteq Everything
    <3>1. \A r \in ListReplica : DocSound(listDoc[r], removed) /\ listDoc[r].els \subseteq Everything
      BY <1>6, TheWhole DEF CalmLists
    <3> QED
      BY <1>1, <1>4, <3>1, EmptySound
  <2>2. SetSound(Everything')
    <3>1. Everything' \subseteq Everything
      BY <2>1 DEF Everything
    <3> QED
      BY <1>6, <3>1, FewerSound DEF CalmLists
  <2>3. SameEntry'
    BY <1>4, <1>6, EmptySound DEF CalmLists, SameEntry
  <2> QED
    BY <1>1, <1>6, <2>1, <2>2, <2>3 DEF CalmLists
<1> QED
  BY <1>3, <1>5, <1>6

\* What a render leaves.
LEMMA RenderKeeps ==
  ASSUME ListsTyped, DesksFollow, NEW d \in ListDesk, Render(d)
  PROVE  ListsTyped' /\ DesksFollow' /\ (CalmLists => CalmLists')
<1>1. /\ shownOf' = [shownOf EXCEPT ![d] = Display(listDoc[d], shadowOf[d])]
      /\ UNCHANGED <<listDoc, shadowOf, syncedOf, removed>>
  BY DEF Render
<1>2. Display(listDoc[d], shadowOf[d]) \subseteq Item
  <2>1. listDoc[d] \in ListDocument /\ shadowOf[d] \subseteq Item
    BY Replicas DEF ListsTyped, ReplicaFacts
  <2>2. Stored(listDoc[d]) \subseteq Element
    BY <2>1, TypedDocument
  <2> QED
    BY <2>1, <2>2, DedupeTyped DEF Display
<1>3. ListsTyped'
  BY <1>1, <1>2 DEF ListsTyped
<1> QED
  BY <1>1, <1>3 DEF DesksFollow, CalmLists, SameEntry, Everything

\* An edit of any kind is a commit, of items on screen or of a new one.
LEMMA EditsCommit ==
  ASSUME ListsTyped, NEW d \in ListDesk,
         (\E i \in ItemId : AddItem(d, i)) \/ \E x \in shownOf[d] : EditItem(d, x) \/ RemoveItem(d, x)
  PROVE  \E next : /\ next \subseteq Item /\ Commit(d, next)
                   /\ \A y \in next : y.id \notin EverUsed \/ \E z \in shownOf[d] : z.id = y.id
<1> DEFINE Known(next) == \A y \in next : y.id \notin EverUsed \/ \E z \in shownOf[d] : z.id = y.id
<1>1. shownOf[d] \subseteq Item
  BY DEF ListsTyped
<1>2. ASSUME NEW i \in ItemId, AddItem(d, i) PROVE \E next : next \subseteq Item /\ Commit(d, next) /\ Known(next)
  <2> DEFINE next == addComment(shownOf[d], i)
  <2>1. next \subseteq Item /\ \A y \in next : y \in shownOf[d] \/ y.id = i
    BY <1>1, ListAssumption DEF addComment, Item
  <2>2. Commit(d, next) /\ i \notin EverUsed
    BY <1>2 DEF AddItem
  <2> HIDE DEF next
  <2> QED
    BY <2>1, <2>2
<1>3. ASSUME NEW x \in shownOf[d], EditItem(d, x) PROVE \E next : next \subseteq Item /\ Commit(d, next) /\ Known(next)
  <2>1. PICK v \in Payload \ {x.val} : Commit(d, editComment(shownOf[d], x, v))
    BY <1>3 DEF EditItem
  <2> DEFINE next == editComment(shownOf[d], x, v)
  <2>2. [x EXCEPT !.val = v] \in Item /\ [x EXCEPT !.val = v].id = x.id
    BY <1>1 DEF Item
  <2>3. next \subseteq Item /\ \A y \in next : y \in shownOf[d] \/ y.id = x.id
    BY <1>1, <2>2 DEF editComment
  <2> HIDE DEF next
  <2> QED
    BY <2>1, <2>3 DEF next
<1>4. ASSUME NEW x \in shownOf[d], RemoveItem(d, x) PROVE \E next : next \subseteq Item /\ Commit(d, next) /\ Known(next)
  <2> DEFINE next == removeComment(shownOf[d], x)
  <2>1. next \subseteq Item /\ next \subseteq shownOf[d]
    BY <1>1 DEF removeComment
  <2>2. Commit(d, next)
    BY <1>4 DEF RemoveItem
  <2> HIDE DEF next
  <2> QED
    BY <2>1, <2>2
<1> QED
  BY <1>2, <1>3, <1>4

\* The invariant holds where the desks start.
LEMMA ListStart == ListInit => ListInv
<1> SUFFICES ASSUME ListInit PROVE ListInv
  OBVIOUS
<1>1. /\ listDoc = [r \in ListReplica |-> EmptyList] /\ shadowOf \in LocalChoice /\ shownOf = shadowOf
      /\ syncedOf = [d \in ListDesk |-> FALSE]
  BY DEF ListInit
<1>2. shadowOf \in [ListDesk -> SUBSET Item] /\ \A d \in ListDesk : OnceEach(shadowOf[d])
  BY <1>1, ListAssumption DEF OnceEach, Item
<1>3. ListDesk \subseteq ListReplica /\ \A r \in ListReplica : listDoc[r] = EmptyList
  BY <1>1, Replicas DEF ReplicaFacts
<1>4. ListsTyped
  BY <1>1, <1>2, EmptySound DEF ListsTyped
<1>5. DesksFollow
  BY <1>1, <1>3, EmptySound DEF DesksFollow
<1>6. CalmLists
  <2>1. Everything = {}
    BY <1>3, EmptySound DEF Everything
  <2>2. SetSound(Everything)
    BY <2>1 DEF SetSound, TagsTell, PastAbove, LinesTogether
  <2>3. SameEntry
    BY <1>3, EmptySound DEF SameEntry
  <2>4. \A r \in ListReplica : DocSound(listDoc[r], removed)
    BY <1>3, EmptySound
  <2> QED
    BY <1>2, <2>2, <2>3, <2>4 DEF CalmLists
<1> QED
  BY <1>4, <1>5, <1>6 DEF ListInv

\* Every step keeps the invariant, and what was amiss once stays on record.
LEMMA ListStep == ListInv /\ [ListNext]_listVars => ListInv' /\ mishap \subseteq mishap'
<1> SUFFICES ASSUME ListInv, [ListNext]_listVars PROVE ListInv' /\ mishap \subseteq mishap'
  OBVIOUS
<1> USE DEF ListInv
<1>1. CASE UNCHANGED listVars
  BY <1>1 DEF listVars, ListsTyped, DesksFollow, CalmLists, SameEntry, Everything
<1>2. ASSUME NEW d \in ListDesk,
             (\E i \in ItemId : AddItem(d, i)) \/ \E x \in shownOf[d] : EditItem(d, x) \/ RemoveItem(d, x)
      PROVE  ListInv' /\ mishap \subseteq mishap'
  <2>1. PICK next : next \subseteq Item /\ Commit(d, next)
    BY <1>2, EditsCommit
  <2>2. ListsTyped' /\ DesksFollow'
    BY <2>1, CommitFollows
  <2>3. mishap \subseteq mishap'
    BY <2>1 DEF Commit
  <2>4. ASSUME mishap' = {} PROVE CalmLists'
    <3>1. CalmLists
      BY <2>3, <2>4
    <3> QED
      BY <1>2, <2>2, <2>4, <3>1, AddKeeps, EditKeeps, RemoveKeeps
  <2> QED
    BY <2>2, <2>3, <2>4
<1>3. ASSUME NEW d \in ListDesk, Render(d) PROVE ListInv' /\ mishap \subseteq mishap'
  <2>1. UNCHANGED mishap
    BY <1>3 DEF Render
  <2> QED
    BY <1>3, <2>1, RenderKeeps
<1>4. ASSUME NEW d \in ListDesk, SendList(d) PROVE ListInv' /\ mishap \subseteq mishap'
  <2>1. UNCHANGED mishap
    BY <1>4 DEF SendList
  <2> QED
    BY <1>4, <2>1, SendKeeps
<1>5. ASSUME NEW d \in ListDesk, ReceiveList(d) PROVE ListInv' /\ mishap \subseteq mishap'
  <2>1. ListsTyped' /\ DesksFollow' /\ mishap \subseteq mishap' /\ (CalmLists /\ mishap' = {} => CalmLists')
    BY <1>5, ReceiveKeeps
  <2>2. mishap' = {} => mishap = {}
    BY <2>1
  <2> QED
    BY <2>1, <2>2
<1>6. ASSUME NEW d \in ListDesk, ReloadLists(d) PROVE ListInv' /\ mishap \subseteq mishap'
  <2>1. UNCHANGED mishap
    BY <1>6 DEF ReloadLists
  <2> QED
    BY <1>6, <2>1, ReloadKeeps
<1> QED
  BY <1>1, <1>2, <1>3, <1>4, <1>5, <1>6 DEF ListNext

\* The invariant holds in every state of every behaviour.
THEOREM ListsInvariant == ListSpec => []ListInv
  BY ListStart, ListStep, PTL DEF ListSpec

\* With everything delivered, no duplicate and no old shadow is left.
LEMMA NothingLeftOver == ListInv => DuplicatesHeal /\ ShadowsAgree
<1> SUFFICES ASSUME ListInv, AllSynced
             PROVE  /\ Stored(listDoc["server"]) = Winners(Stored(listDoc["server"]))
                    /\ \A d \in ListDesk : shadowOf[d] = dedupeById(Stored(listDoc["server"]))
  BY DEF DuplicatesHeal, ShadowsAgree
<1>1. \A d \in ListDesk : listDoc[d] = listDoc["server"] /\ syncedOf[d]
  BY Replicas DEF AllSynced, ListsInSync, ReplicaFacts
<1>2. \A d \in ListDesk :
        /\ Healed(listDoc[d])
        /\ hasTakeList(listDoc[d]) => shadowOf[d] = dedupeById(Stored(listDoc[d]))
        /\ syncedOf[d] /\ ~hasTakeList(listDoc[d]) => shadowOf[d] = {}
  BY DEF ListInv, DesksFollow
<1>3. PICK d \in ListDesk : TRUE
  BY ListAssumption
<1>4. Stored(listDoc["server"]) = Winners(Stored(listDoc["server"]))
  BY <1>1, <1>2, <1>3 DEF Healed
<1>5. ASSUME NEW e \in ListDesk PROVE shadowOf[e] = dedupeById(Stored(listDoc["server"]))
  <2>1. CASE hasTakeList(listDoc[e])
    BY <1>1, <1>2, <2>1
  <2>2. CASE ~hasTakeList(listDoc[e])
    <3>1. listDoc[e] \in ListDocument /\ listDoc[e].entry = 0
      BY <2>2, Replicas DEF ListInv, ListsTyped, ReplicaFacts, hasTakeList
    <3>2. \A x \in Stored(listDoc[e]) : x.arr = 0 /\ x.arr # 0
      BY <3>1, TypedDocument, TypedElement DEF Stored
    <3>3. dedupeById(Stored(listDoc[e])) = {}
      BY <3>2 DEF dedupeById, Winners
    <3> QED
      BY <1>1, <1>2, <2>2, <3>3
  <2> QED
    BY <2>1, <2>2
<1> QED
  BY <1>4, <1>5

\* Only its own desk and the server touch a replica, and the server loses no element.
LEMMA ServerGrows ==
  ASSUME ListsTyped, [ListNext]_listVars
  PROVE  listDoc["server"].els \subseteq listDoc'["server"].els
<1>1. "server" \in ListReplica /\ \A d \in ListDesk : d # "server" /\ d \in ListReplica
  BY Replicas DEF ReplicaFacts
<1>2. CASE UNCHANGED listDoc
  BY <1>2
<1>3. ASSUME NEW d \in ListDesk, NEW h, listDoc' = [listDoc EXCEPT ![d] = h]
      PROVE  listDoc'["server"] = listDoc["server"]
  BY <1>1, <1>3 DEF ListsTyped
<1>4. ASSUME NEW d \in ListDesk, NEW next, Commit(d, next) PROVE listDoc'["server"] = listDoc["server"]
  BY <1>3, <1>4 DEF Commit, Refreshed
<1>5. ASSUME NEW d \in ListDesk, SendList(d) PROVE listDoc["server"].els \subseteq listDoc'["server"].els
  <2>1. listDoc'["server"] = Merge(listDoc["server"], listDoc[d])
    BY <1>1, <1>5 DEF SendList, ListsTyped
  <2>2. Merge(listDoc["server"], listDoc[d]).els = listDoc["server"].els \cup listDoc[d].els
    BY DEF Merge
  <2> QED
    BY <2>1, <2>2
<1>6. ASSUME NEW d \in ListDesk, ReceiveList(d) PROVE listDoc'["server"] = listDoc["server"]
  BY <1>3, <1>6 DEF ReceiveList, Refreshed
<1>7. ASSUME NEW d \in ListDesk, ReloadLists(d) PROVE listDoc'["server"] = listDoc["server"]
  BY <1>3, <1>7 DEF ReloadLists
<1>8. ASSUME NEW d \in ListDesk,
             (\E i \in ItemId : AddItem(d, i)) \/ \E x \in shownOf[d] : EditItem(d, x) \/ RemoveItem(d, x)
      PROVE  listDoc'["server"] = listDoc["server"]
  BY <1>4, <1>8, EditsCommit
<1>9. \A d \in ListDesk : Render(d) => UNCHANGED listDoc
  BY DEF Render
<1> QED
  BY <1>2, <1>5, <1>6, <1>7, <1>8, <1>9 DEF ListNext, listVars

\* Only a removal takes from the project what it has.
LEMMA KeepsUntilRemoved ==
  ASSUME ListInv, [ListNext]_listVars, mishap' = {}
  PROVE  Ids(listDoc["server"]) \ Ids(listDoc'["server"]) \subseteq removed'
<1>1. ListsTyped' /\ CalmLists'
  BY ListStep DEF ListInv
<1>2. listDoc'["server"] \in ListDocument
  BY <1>1, Replicas DEF ListsTyped, ReplicaFacts
<1>3. DocSound(listDoc'["server"], removed') /\ SetSound(listDoc'["server"].els)
  <2>1. listDoc'["server"].els \subseteq Everything'
    BY Replicas DEF Everything, ReplicaFacts
  <2>2. SetSound(Everything')
    BY <1>1 DEF CalmLists
  <2> QED
    BY <1>1, <2>1, <2>2, FewerSound, Replicas DEF CalmLists, ReplicaFacts
<1>4. listDoc["server"].els \subseteq listDoc'["server"].els
  BY ServerGrows DEF ListInv
<1> SUFFICES ASSUME NEW i \in Ids(listDoc["server"]), i \notin removed' PROVE i \in Ids(listDoc'["server"])
  OBVIOUS
<1>5. PICK o \in listDoc["server"].els : o.id = i
  BY DEF Ids, Stored
<1> QED
  BY <1>2, <1>3, <1>4, <1>5, SomethingStays

\* What a merge shows, one of the two showed.
LEMMA MergedIds ==
  ASSUME ListsTyped, CalmLists, NEW r \in ListReplica, NEW s \in ListReplica
  PROVE  Ids(Merge(listDoc[r], listDoc[s])) \subseteq Ids(listDoc[r]) \cup Ids(listDoc[s])
<1> DEFINE m == Merge(listDoc[r], listDoc[s])
<1>1. m.els = listDoc[r].els \cup listDoc[s].els /\ m.del = listDoc[r].del \cup listDoc[s].del
  BY DEF Merge
<1> HIDE DEF m
<1>2. InList(listDoc[r]) /\ InList(listDoc[s])
  BY DEF CalmLists, DocSound
<1>3. Stored(m) \subseteq Stored(listDoc[r]) \cup Stored(listDoc[s])
  BY <1>1, <1>2 DEF Stored, InList
<1>4. Ids(m) \subseteq Ids(listDoc[r]) \cup Ids(listDoc[s])
  BY <1>3 DEF Ids
<1> QED
  BY <1>4 DEF m

\* A refresh shows nothing that the document did not have.
LEMMA RefreshedIds ==
  ASSUME ListsTyped, NEW d \in ListDesk, NEW copy \in ListDocument, NEW local, Refreshed(d, copy, local)
  PROVE  Ids(listDoc'[d]) \subseteq Ids(copy) /\ \A r \in ListReplica \ {d} : listDoc'[r] = listDoc[r]
<1>1. listDoc' = [listDoc EXCEPT ![d] = displayTakeList(d, copy)] /\ d \in ListReplica
  BY Replicas DEF Refreshed, ReplicaFacts
<1>2. Stored(displayTakeList(d, copy)) \subseteq Stored(copy)
  BY Healing, WinnersFixed
<1>3. listDoc'[d] = displayTakeList(d, copy) /\ \A r \in ListReplica \ {d} : listDoc'[r] = listDoc[r]
  BY <1>1 DEF ListsTyped
<1> QED
  BY <1>2, <1>3 DEF Ids

\* What is gone everywhere stays gone.
LEMMA GoneStaysGone ==
  ASSUME ListInv, [ListNext]_listVars, mishap' = {}, NEW i \in ItemId, Extinct(i)
  PROVE  \A r \in ListReplica : i \notin Ids(listDoc'[r])
<1>1. ListsTyped /\ DesksFollow /\ CalmLists /\ ListsTyped'
  BY ListStep DEF ListInv
<1>2. "server" \in ListReplica /\ \A d \in ListDesk : d # "server" /\ d \in ListReplica
  BY Replicas DEF ReplicaFacts
<1>3. PICK o \in listDoc["server"].els : o.id = i
  BY DEF Extinct
<1>4. \A r \in ListReplica : i \notin Ids(listDoc[r])
  BY DEF Extinct
<1>5. listDoc["server"].entry # 0 /\ i \in EverUsed
  BY <1>1, <1>2, <1>3, TheWhole DEF EverUsed
<1>6. CASE UNCHANGED listDoc
  BY <1>4, <1>6
<1>7. ASSUME NEW d \in ListDesk, SendList(d) PROVE \A r \in ListReplica : i \notin Ids(listDoc'[r])
  <2>1. /\ listDoc'["server"] = Merge(listDoc["server"], listDoc[d])
        /\ \A r \in ListReplica \ {"server"} : listDoc'[r] = listDoc[r]
    BY <1>1, <1>2, <1>7 DEF SendList, ListsTyped
  <2>2. Ids(listDoc'["server"]) \subseteq Ids(listDoc["server"]) \cup Ids(listDoc[d])
    BY <1>1, <1>2, <2>1, MergedIds
  <2> QED
    BY <1>2, <1>4, <2>1, <2>2
<1>8. ASSUME NEW d \in ListDesk, ReceiveList(d) PROVE \A r \in ListReplica : i \notin Ids(listDoc'[r])
  <2> DEFINE m == Merge(listDoc[d], listDoc["server"])
  <2>1. /\ m \in ListDocument
        /\ hasTakeList(m) = (hasTakeList(listDoc[d]) \/ hasTakeList(listDoc["server"]))
    BY <1>1, <1>2, MergedSound
  <2>2. hasTakeList(m)
    BY <1>5, <2>1 DEF hasTakeList
  <2>3. \E new, local : Refreshed(d, new, local) /\ (new = m \/ ~hasTakeList(m))
    BY <1>1, <1>8, ReceiveShape
  <2>4. PICK local : Refreshed(d, m, local)
    BY <2>2, <2>3
  <2>5. Ids(m) \subseteq Ids(listDoc[d]) \cup Ids(listDoc["server"])
    BY <1>1, <1>2, MergedIds
  <2> HIDE DEF m
  <2>6. Ids(listDoc'[d]) \subseteq Ids(m) /\ \A r \in ListReplica \ {d} : listDoc'[r] = listDoc[r]
    BY <1>1, <2>1, <2>4, RefreshedIds
  <2> QED
    BY <1>2, <1>4, <2>5, <2>6
<1>9. ASSUME NEW d \in ListDesk, ReloadLists(d) PROVE \A r \in ListReplica : i \notin Ids(listDoc'[r])
  <2>1. listDoc'[d] = EmptyList /\ \A r \in ListReplica \ {d} : listDoc'[r] = listDoc[r]
    BY <1>1, <1>2, <1>9 DEF ReloadLists, ListsTyped
  <2>2. Ids(EmptyList) = {}
    BY EmptySound DEF Ids, Stored
  <2> QED
    BY <1>4, <2>1, <2>2
<1>10. ASSUME NEW d \in ListDesk,
              (\E j \in ItemId : AddItem(d, j)) \/ \E x \in shownOf[d] : EditItem(d, x) \/ RemoveItem(d, x)
       PROVE  \A r \in ListReplica : i \notin Ids(listDoc'[r])
  <2>1. PICK next : /\ next \subseteq Item /\ Commit(d, next)
                    /\ \A y \in next : y.id \notin EverUsed \/ \E z \in shownOf[d] : z.id = y.id
    BY <1>1, <1>10, EditsCommit
  <2> DEFINE copy == listDoc[d]
  <2>2. ~Clears(copy) /\ shownOf[d] = Display(copy, shadowOf[d])
    BY <1>1, <2>1, CommitFacts
  <2>3. PICK new, N, arr, f : Written(d, copy, next, new, N, arr, f) /\ Refreshed(d, new, next)
    BY <1>1, <2>1, CommitFacts
  <2>4. hasTakeList(copy)
    BY <1>1, <1>2, <1>5, <2>2, NothingYet DEF hasTakeList
  <2>5. shownOf[d] = {ItemOf(e) : e \in Stored(copy)}
    BY <1>1, <2>2, <2>4, ListShown
  <2>6. /\ Made(N, copy, arr, NewOf(copy, next), f) /\ new \in ListDocument
        /\ new.entry = copy.entry /\ new.els = copy.els \cup N /\ copy.del \subseteq new.del
    BY <2>3, <2>4 DEF Written
  <2>7. i \notin Ids(copy)
    BY <1>2, <1>4
  <2> HIDE DEF copy
  <2>8. \A y \in next : y.id # i
    BY <1>5, <2>1, <2>5, <2>7 DEF ItemOf, Ids
  <2>9. \A n \in N : n.id # i
    BY <2>6, <2>8 DEF Made, NewOf
  <2>10. i \notin Ids(new)
    BY <2>6, <2>7, <2>9 DEF Ids, Stored
  <2>11. Ids(listDoc'[d]) \subseteq Ids(new) /\ \A r \in ListReplica \ {d} : listDoc'[r] = listDoc[r]
    BY <1>1, <2>3, <2>6, RefreshedIds
  <2> QED
    BY <1>4, <2>10, <2>11
<1>11. \A d \in ListDesk : Render(d) => UNCHANGED listDoc
  BY DEF Render
<1> QED
  BY <1>6, <1>7, <1>8, <1>9, <1>10, <1>11 DEF ListNext, listVars

\* Markers and comments converge: with everything delivered, duplicates are healed and every
\* shadow is the list; where no edit went amiss, only a removal takes an item from the project,
\* and what is gone from every replica stays gone (collab-doc-lists.ts, use-take-lists.ts).
THEOREM ListsStayTogether == ListSpec => ListsConverge
<1>1. ListSpec => []ListInv
  BY ListsInvariant
<1>2. ListInv => DuplicatesHeal /\ ShadowsAgree
  BY NothingLeftOver
<1>3. ListInv /\ [ListNext]_listVars =>
        [mishap' = {} => Ids(listDoc["server"]) \ Ids(listDoc'["server"]) \subseteq removed']_listVars
  BY KeepsUntilRemoved
<1>4. ListInv /\ [ListNext]_listVars =>
        [mishap' = {} => \A i \in ItemId : Extinct(i) =>
            \A r \in ListReplica : i \notin Ids(listDoc'[r])]_listVars
  BY GoneStaysGone
<1> QED
  BY <1>1, <1>2, <1>3, <1>4, PTL DEF ListSpec, ListsConverge, OnlyRemovalsRemove, ExtinctStaysSo

=============================================================================
