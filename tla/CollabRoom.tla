----------------------------- MODULE CollabRoom -----------------------------
(***************************************************************************)
(* The shared project document of one session: the desks' local-first      *)
(* copies (web/src/net/collab.ts), the server room that relays them        *)
(* (server/src/collab) and the row it is saved to.                         *)
(*                                                                         *)
(* A Yjs document is a set of edits here: applying an update is union, a   *)
(* state vector is the set itself and a diff is set difference, which is   *)
(* what the code relies on Yjs for.  Every socket is a member of Conn and  *)
(* is used once.  The server's promises are steps: loading a room, the     *)
(* chain of saves behind `saving`, the flush that releaseRoom and          *)
(* evictRoom wait for before they look at the room again.                  *)
(***************************************************************************)
EXTENDS Naturals, Sequences, FiniteSets

CONSTANTS
    Desk, Socket,
    DeskAt,           \* the desk a socket belongs to
    MaxCollabRooms,   \* bound on rooms loaded
    MaxTrouble        \* bound on drops, failed saves, deletes, shutdowns, crashes

ASSUME CollabAssumption ==
    /\ DeskAt \in [Socket -> Desk]
    /\ MaxCollabRooms \in Nat
    /\ MaxTrouble \in Nat

VARIABLES
    edited,    \* desks that have made their edit; an edit is named by its desk
    doc, pend, \* a desk's document and its pendingUpdates
    ws,        \* a desk's socket, or NoSocket
    wire,      \* state of a socket: "unused", "open", "shut"
    up, down,  \* frames under way on a socket
    attach,    \* attachRoom of a socket: [room, tries], room 0 when it is over
    current,   \* the session's entry in the rooms map, 0 for none
    room,      \* the rooms loaded so far
    row,       \* the collab_docs row: [there, doc]
    session,   \* the session row exists
    erasing,   \* destroySession: [at, room]
    closing, trouble

collabVars == <<edited, doc, pend, ws, wire, up, down, attach, current, room,
                row, session, erasing, closing, trouble>>

deskVars == <<edited, doc, pend, ws>>
netVars == <<wire, up, down>>
hubVars == <<row, session, erasing, closing>>

NoSocket == "no socket"
CRoom == 1..MaxCollabRooms
Idle == [room |-> 0, tries |-> 0]
Unloaded == [is |-> "none", doc |-> {}, conns |-> {}, dirty |-> FALSE,
             saveTimer |-> FALSE, queued |-> 0, busy |-> FALSE, writing |-> {},
             conts |-> {}, evictTimer |-> FALSE, evicted |-> FALSE]

CollabInit ==
    /\ edited = {}
    /\ doc = [d \in Desk |-> {}] /\ pend = [d \in Desk |-> {}]
    /\ ws = [d \in Desk |-> NoSocket]
    /\ wire = [c \in Socket |-> "unused"]
    /\ up = [c \in Socket |-> <<>>] /\ down = [c \in Socket |-> <<>>]
    /\ attach = [c \in Socket |-> Idle]
    /\ current = 0
    /\ room = [r \in CRoom |-> Unloaded]
    /\ row = [there |-> FALSE, doc |-> {}]
    /\ session = TRUE /\ erasing = [at |-> "no", room |-> 0]
    /\ closing = FALSE /\ trouble = 0

Trouble == trouble < MaxTrouble /\ trouble' = trouble + 1

Step1(s) == [tag |-> "step1", edits |-> s]
Update(s) == [tag |-> "update", edits |-> s]
\* An update without edits changes nothing on either side and is left out.
Post(q, m) == IF m = Update({}) THEN q ELSE Append(q, m)

(***************************************************************************)
(* The desk.                                                               *)
(***************************************************************************)

\* A local edit: into the document at once, onto the wire at the next flush.
DeskEdits(d) ==
    /\ d \notin edited
    /\ edited' = edited \cup {d}
    /\ doc' = [doc EXCEPT ![d] = @ \cup {d}]
    /\ pend' = [pend EXCEPT ![d] = @ \cup {d}]
    /\ UNCHANGED <<ws, netVars, attach, current, room, hubVars, trouble>>

\* flushUpdates drops what it cannot send.
flushUpdates(d) ==
    /\ pend[d] # {}
    /\ pend' = [pend EXCEPT ![d] = {}]
    /\ up' = IF ws[d] = NoSocket THEN up
             ELSE [up EXCEPT ![ws[d]] = Post(@, Update(pend[d]))]
    /\ UNCHANGED <<edited, doc, ws, wire, down, attach, current, room, hubVars, trouble>>

LoadedRooms == Cardinality({r \in CRoom : room[r].is # "none"})
MayGetRoom == current # 0 \/ LoadedRooms < MaxCollabRooms
NextRoom == IF current # 0 THEN current ELSE LoadedRooms + 1
WithRoom == IF current # 0 THEN room ELSE [room EXCEPT ![NextRoom].is = "init"]

\* A socket opens on both sides.  The desk's buffer may go, the handshake
\* covers it; the server asks for the room, or refuses while it shuts down.
SocketOpens(c) ==
    LET d == DeskAt[c] IN
    /\ wire[c] = "unused" /\ ws[d] = NoSocket
    /\ IF closing
       THEN /\ wire' = [wire EXCEPT ![c] = "shut"]
            /\ UNCHANGED <<ws, pend, up, attach, current, room>>
       ELSE /\ MayGetRoom
            /\ wire' = [wire EXCEPT ![c] = "open"]
            /\ ws' = [ws EXCEPT ![d] = c]
            /\ pend' = [pend EXCEPT ![d] = {}]
            /\ up' = [up EXCEPT ![c] = <<Step1(doc[d])>>]
            /\ attach' = [attach EXCEPT ![c] = [room |-> NextRoom, tries |-> 1]]
            /\ current' = NextRoom
            /\ room' = WithRoom
    /\ UNCHANGED <<edited, doc, down, hubVars, trouble>>

\* Mutant: the room's step-1 is not answered.
AnswerNot(d, m) == {}
Answer(d, m) == doc[d] \ m.edits

\* onFrame: a step-1 is answered with the diff, an update is applied.
DeskReceives(c) ==
    LET d == DeskAt[c]
        m == Head(down[c])
    IN
    /\ wire[c] = "open" /\ down[c] # <<>>
    /\ down' = [down EXCEPT ![c] = Tail(@)]
    /\ IF m.tag = "step1"
       THEN /\ up' = [up EXCEPT ![c] = Post(@, Update(Answer(d, m)))]
            /\ UNCHANGED doc
       ELSE /\ doc' = [doc EXCEPT ![d] = @ \cup m.edits]
            /\ UNCHANGED up
    /\ UNCHANGED <<edited, pend, ws, wire, attach, current, room, hubVars, trouble>>

(***************************************************************************)
(* The room.                                                               *)
(***************************************************************************)
RowAsLoaded == row.doc
RoomLoads(r) ==
    /\ room[r].is = "init" /\ ~closing
    /\ room' = [room EXCEPT ![r].is = "live", ![r].doc = RowAsLoaded]
    /\ UNCHANGED <<deskVars, netVars, attach, current, hubVars, trouble>>

\* The continuation of attachRoom's await: an evicted room means another try.
attachRoom(c) ==
    LET r == attach[c].room IN
    /\ r # 0 /\ room[r].is = "live"
    /\ IF ~room[r].evicted
       THEN /\ attach' = [attach EXCEPT ![c] = Idle]
            /\ room' = [room EXCEPT ![r].conns = @ \cup {c}, ![r].evictTimer = FALSE]
            /\ down' = [down EXCEPT ![c] = IF wire[c] = "open"
                                           THEN Post(@, Step1(room[r].doc)) ELSE @]
            /\ UNCHANGED <<wire, ws, current>>
       ELSE IF attach[c].tries < 3 /\ ~closing
       THEN /\ MayGetRoom
            /\ attach' = [attach EXCEPT ![c] = [room |-> NextRoom, tries |-> @.tries + 1]]
            /\ current' = NextRoom
            /\ room' = WithRoom
            /\ UNCHANGED <<wire, ws, down>>
       ELSE /\ attach' = [attach EXCEPT ![c] = Idle]
            /\ wire' = [wire EXCEPT ![c] = "shut"]
            /\ ws' = [d \in Desk |-> IF ws[d] = c THEN NoSocket ELSE ws[d]]
            /\ UNCHANGED <<current, room, down>>
    /\ UNCHANGED <<edited, doc, pend, up, hubVars, trouble>>

\* dispatch, once the room the map names is there: answer a step-1, or apply
\* the update, tell the other desks and schedule a save if it said anything.
Dispatch(c) ==
    LET m == Head(up[c])
        r == current
        news == m.edits \ room[r].doc
        others == {o \in room[r].conns : o # c /\ wire[o] = "open"}
    IN
    /\ up[c] # <<>> /\ attach[c].room = 0
    /\ current # 0 /\ room[r].is = "live"
    /\ up' = [up EXCEPT ![c] = Tail(@)]
    /\ IF m.tag = "step1"
       THEN /\ down' = [down EXCEPT ![c] = IF wire[c] = "open"
                          THEN Post(@, Update(room[r].doc \ m.edits)) ELSE @]
            /\ UNCHANGED room
       ELSE IF news = {} THEN UNCHANGED <<down, room>>
       ELSE /\ room' = [room EXCEPT ![r].doc = @ \cup news,
                                    ![r].dirty = TRUE, ![r].saveTimer = TRUE]
            /\ down' = [o \in Socket |-> IF o \in others THEN Post(down[o], Update(news))
                                         ELSE down[o]]
    /\ UNCHANGED <<deskVars, wire, attach, current, hubVars, trouble>>

\* A frame that finds no entry in the map makes getRoom load the room again.
FrameMakesRoom(c) ==
    /\ up[c] # <<>> /\ attach[c].room = 0
    /\ current = 0 /\ ~closing /\ MayGetRoom
    /\ current' = NextRoom
    /\ room' = WithRoom
    /\ UNCHANGED <<deskVars, netVars, attach, hubVars, trouble>>

(***************************************************************************)
(* Saving.  `queued` counts the saves chained behind `saving`, the one     *)
(* that is writing included; a continuation waits for the chain as long as *)
(* it was when it asked.                                                   *)
(***************************************************************************)
flushRoom(rm, kind) ==
    [rm EXCEPT !.saveTimer = FALSE, !.queued = @ + 1,
               !.conts = @ \cup {[kind |-> kind, left |-> rm.queued + 1]}]

\* releaseRoom after its flush: the idle grace starts, unless someone is back.
releaseRoom(rm) ==
    IF rm.conns # {} \/ rm.evicted THEN rm ELSE [rm EXCEPT !.evictTimer = TRUE]

\* evictRoom after its flush.  Mutants: a desk that attached meanwhile, or
\* edits the flush could not save, are overlooked.
evictRoomAttached(rm) ==
    IF rm.evicted THEN rm
    ELSE IF rm.dirty THEN [rm EXCEPT !.evictTimer = TRUE]
    ELSE [rm EXCEPT !.evicted = TRUE]
evictRoomDirty(rm) ==
    IF rm.conns # {} \/ rm.evicted THEN rm ELSE [rm EXCEPT !.evicted = TRUE]
evictRoom(rm) ==
    IF rm.conns # {} \/ rm.evicted THEN rm
    ELSE IF rm.dirty THEN [rm EXCEPT !.evictTimer = TRUE]
    ELSE [rm EXCEPT !.evicted = TRUE]

\* A save is over: the chain is one shorter, and whoever waited for exactly
\* this much of it goes on before anything else does.
SaveOver(r, rm) ==
    LET left == {[k EXCEPT !.left = @ - 1] : k \in rm.conts}
        over == {k.kind : k \in {x \in left : x.left = 0}}
        base == [rm EXCEPT !.queued = @ - 1, !.busy = FALSE, !.writing = {},
                           !.conts = {k \in left : k.left > 0}]
        rel == IF "release" \in over THEN releaseRoom(base) ELSE base
        end == IF "evict" \in over THEN evictRoom(rel) ELSE rel
    IN
    /\ room' = [room EXCEPT ![r] = end]
    /\ current' = IF end.evicted /\ ~rm.evicted THEN 0 ELSE current

SaveTimerFires(r) ==
    /\ room[r].saveTimer
    /\ room' = [room EXCEPT ![r].saveTimer = FALSE, ![r].queued = @ + 1]
    /\ UNCHANGED <<deskVars, netVars, attach, current, hubVars, trouble>>

\* save: nothing to do, or the document as it is now is on its way.
SaveStarts(r) ==
    /\ room[r].queued > 0 /\ ~room[r].busy
    /\ IF room[r].dirty
       THEN /\ room' = [room EXCEPT ![r].dirty = FALSE, ![r].busy = TRUE,
                                    ![r].writing = room[r].doc]
            /\ UNCHANGED current
       ELSE SaveOver(r, room[r])
    /\ UNCHANGED <<deskVars, netVars, attach, hubVars, trouble>>

\* The upsert lands; without a session row the foreign key refuses it.
RowAccepts == session
SaveEnds(r) ==
    /\ room[r].busy
    /\ row' = IF RowAccepts THEN [there |-> TRUE, doc |-> room[r].writing] ELSE row
    /\ SaveOver(r, [room[r] EXCEPT !.dirty = @ \/ ~RowAccepts])
    /\ UNCHANGED <<deskVars, netVars, attach, session, erasing, closing, trouble>>

SaveFails(r) ==
    /\ room[r].busy /\ Trouble
    /\ SaveOver(r, [room[r] EXCEPT !.dirty = TRUE])
    /\ UNCHANGED <<deskVars, netVars, attach, hubVars>>

(***************************************************************************)
(* The last desk leaves.                                                   *)
(***************************************************************************)
\* onClose never creates a room.  A room still loading has nothing to remove:
\* the close is handled before the attach that waits for the same load.
SocketDrops(c) ==
    LET r == current
        left == room[r].conns \ {c}
        rm == [room[r] EXCEPT !.conns = left]
    IN
    /\ wire[c] = "open"
    /\ attach[c].room # 0 => room[attach[c].room].is = "init"
    /\ wire' = [wire EXCEPT ![c] = "shut"]
    /\ ws' = [ws EXCEPT ![DeskAt[c]] = NoSocket]
    /\ down' = [down EXCEPT ![c] = <<>>]
    /\ up' \in {[up EXCEPT ![c] = q] : q \in IF attach[c].room # 0 THEN {<<>>, up[c]} ELSE {<<>>}}
    /\ room' = IF r = 0 THEN room
               ELSE IF room[r].is # "live" THEN room
               ELSE [room EXCEPT ![r] = IF left = {} THEN flushRoom(rm, "release") ELSE rm]
    /\ UNCHANGED <<edited, doc, pend, attach, current, hubVars, trouble>>

EvictTimerFires(r) ==
    LET rm == [room[r] EXCEPT !.evictTimer = FALSE] IN
    /\ room[r].evictTimer
    /\ room' = [room EXCEPT ![r] = IF rm.conns # {} \/ rm.evicted THEN rm
                                   ELSE flushRoom(rm, "evict")]
    /\ UNCHANGED <<deskVars, netVars, attach, current, hubVars, trouble>>

(***************************************************************************)
(* destroySession and the end of the process.                              *)
(***************************************************************************)
ShutAll(S) ==
    /\ wire' = [c \in Socket |-> IF c \in S THEN "shut" ELSE wire[c]]
    /\ ws' = [d \in Desk |-> IF ws[d] \in S THEN NoSocket ELSE ws[d]]
    /\ up' = [c \in Socket |-> IF c \in S THEN <<>> ELSE up[c]]
    /\ down' = [c \in Socket |-> IF c \in S THEN <<>> ELSE down[c]]

\* collab.closeSession drops the room without saving.  It forgets the map entry
\* first, and waits when the room is still loading.
Dropped(r) ==
    /\ ShutAll({c \in room[r].conns : wire[c] = "open"})
    /\ room' = [room EXCEPT ![r] = [@ EXCEPT !.saveTimer = FALSE,
          !.evictTimer = FALSE, !.evicted = TRUE, !.dirty = FALSE, !.conns = {}]]

closeCollab ==
    /\ erasing.at = "no" /\ ~closing /\ Trouble
    /\ current' = 0
    /\ IF current = 0
       THEN /\ erasing' = [at |-> "row", room |-> 0]
            /\ UNCHANGED <<room, wire, ws, up, down>>
       ELSE IF room[current].is = "live"
       THEN /\ erasing' = [at |-> "row", room |-> 0]
            /\ Dropped(current)
       ELSE /\ erasing' = [at |-> "room", room |-> current]
            /\ UNCHANGED <<room, wire, ws, up, down>>
    /\ UNCHANGED <<edited, doc, pend, attach, row, session, closing>>

closeCollabLoaded ==
    /\ erasing.at = "room"
    /\ room[erasing.room].is = "live"
    /\ erasing' = [at |-> "row", room |-> 0]
    /\ Dropped(erasing.room)
    /\ UNCHANGED <<edited, doc, pend, attach, current, row, session, closing, trouble>>

EraseRow ==
    /\ erasing.at = "row"
    /\ erasing' = [at |-> "done", room |-> 0]
    /\ session' = FALSE
    /\ row' = [there |-> FALSE, doc |-> {}]
    /\ UNCHANGED <<deskVars, netVars, attach, current, room, closing, trouble>>

\* CollabHub.close: no new rooms, every live room is flushed.
Shutdown ==
    /\ ~closing /\ Trouble
    /\ closing' = TRUE
    /\ current' = 0
    /\ room' = IF current = 0 THEN room
               ELSE IF room[current].is # "live" THEN room
               ELSE [room EXCEPT ![current] =
                       flushRoom([@ EXCEPT !.evictTimer = FALSE, !.evicted = TRUE], "shutdown")]
    /\ UNCHANGED <<deskVars, netVars, attach, row, session, erasing>>

\* A load in flight when close() ran rejects; the sockets that waited close.
LoadRefused(r) ==
    LET waiting == {c \in Socket : attach[c].room = r} IN
    /\ room[r].is = "init" /\ closing
    /\ room' = [room EXCEPT ![r].is = "failed"]
    /\ ShutAll({c \in waiting : wire[c] = "open"})
    /\ attach' = [c \in Socket |-> IF c \in waiting THEN Idle ELSE attach[c]]
    /\ UNCHANGED <<edited, doc, pend, current, hubVars, trouble>>

ProcessEnds ==
    /\ ShutAll({c \in Socket : wire[c] = "open"})
    /\ attach' = [c \in Socket |-> Idle]
    /\ current' = 0
    /\ room' = [r \in CRoom |-> Unloaded]
    /\ closing' = FALSE
    /\ erasing' = IF erasing.at \in {"room", "row"} THEN [at |-> "cut", room |-> 0] ELSE erasing
    /\ UNCHANGED <<edited, doc, pend, row, session>>

ShutdownEnds ==
    /\ closing
    /\ \A r \in CRoom : \A k \in room[r].conts : k.kind # "shutdown"
    /\ ProcessEnds
    /\ UNCHANGED trouble

Crash == Trouble /\ ProcessEnds

RoomStep(r) ==
    \/ RoomLoads(r) \/ SaveTimerFires(r) \/ SaveStarts(r) \/ SaveEnds(r)
    \/ EvictTimerFires(r) \/ LoadRefused(r)

SocketStep(c) ==
    DeskReceives(c) \/ attachRoom(c) \/ Dispatch(c) \/ FrameMakesRoom(c)

CollabNext ==
    \/ \E d \in Desk : DeskEdits(d) \/ flushUpdates(d)
    \/ \E c \in Socket : SocketOpens(c) \/ SocketDrops(c) \/ SocketStep(c)
    \/ \E r \in CRoom : RoomStep(r) \/ SaveFails(r)
    \/ closeCollab \/ closeCollabLoaded \/ EraseRow
    \/ Shutdown \/ ShutdownEnds \/ Crash

\* Frames that were sent arrive, promises settle and timers fire while the
\* socket and the process last.  Nobody has to edit, open or reconnect.
CollabFairness ==
    /\ \A d \in Desk : WF_collabVars(flushUpdates(d))
    /\ \A c \in Socket : WF_collabVars(SocketStep(c))
    /\ \A r \in CRoom : WF_collabVars(RoomStep(r))
    /\ WF_collabVars(closeCollabLoaded \/ EraseRow \/ ShutdownEnds)

CollabSpec == CollabInit /\ [][CollabNext]_collabVars /\ CollabFairness

-----------------------------------------------------------------------------
(* Properties *)

\* The hub's state is well formed; in particular every flush that is being
\* waited for has a save of its own in the chain.
CollabTypeOK ==
    /\ \A d \in Desk : doc[d] \subseteq edited /\ pend[d] \subseteq edited
    /\ wire \in [Socket -> {"unused", "open", "shut"}]
    /\ current \in 0..MaxCollabRooms
    /\ \A r \in CRoom :
         /\ room[r].is \in {"none", "init", "live", "failed"}
         /\ room[r].busy => room[r].queued > 0
         /\ \A k \in room[r].conts : k.left \in 1..room[r].queued

\* An idle room only leaves memory once the row holds every edit it had
\* ("Never drop unsaved edits"), whatever failed or arrived during the flush.
EvictedIsSaved ==
    (erasing.at = "no" /\ ~closing) =>
        \A r \in CRoom : room[r].evicted => room[r].doc \subseteq row.doc

\* Desks that are connected are in the room the map names, so never in two.
OneRoom ==
    (erasing.at # "room" /\ ~closing) =>
        \A r \in CRoom : \A c \in room[r].conns : wire[c] = "open" => current = r

\* The row is one blob and the last writer wins: no save, by an old room or a
\* reloaded one, ever takes an edit out of it again.
RowOnlyGrows ==
    [][(session' /\ erasing.at = "no") => row.doc \subseteq row'.doc]_collabVars

\* No save that was under way, and no frame that arrives late, brings the
\* document of a deleted session back.
DeletedStaysDeleted ==
    erasing.at = "done" => ~row.there

\* Once the sockets have settled, desks that are connected show the same
\* document: edits made offline, dropped from the buffer or made while the
\* room was being evicted or reloaded arrive all the same.
Converge ==
    <>[](\A d, e \in Desk :
           (ws[d] # NoSocket /\ ws[e] # NoSocket) => doc[d] = doc[e])

\* However attaches, saves, evictions, deletion and shutdown overlap, a session has
\* one room, which leaves memory only when its edits are in the row, and a deleted
\* session has no row (collab/index.ts).
RoomsSafe == CollabTypeOK /\ EvictedIsSaved /\ OneRoom /\ DeletedStaysDeleted

\* An edit lasts: no save takes it out of the row again, and in the end every
\* connected desk shows it (collab/room.ts, net/collab.ts).
EditsLast == RowOnlyGrows /\ Converge
=============================================================================
