--------------------------- MODULE SignalingRoom ---------------------------
(***************************************************************************)
(* The signaling rooms of one session on the server: sockets that say      *)
(* hello, the room they are put in, the device identities a room remembers *)
(* and the peer rows the archive keeps of them (apps/server/src/signaling, *)
(* ws.ts and the session sweep of index.ts).                               *)
(*                                                                         *)
(* handleHello awaits four times (the desk's verdict, the room, the        *)
(* session row, the peer row), and everything it reads in between belongs  *)
(* to whatever room the `rooms` map held when it asked.  Each await is a   *)
(* stage of the hello here, so the other sockets, a close of this socket,  *)
(* the sweep and a delete can all happen between two stages.               *)
(*                                                                         *)
(* A room is a number: the n-th one getRoom created.  `rooms` is the entry *)
(* of this session in the map of promises, `liveRoom` the entry in the map *)
(* of rooms whose init resolved, 0 for no entry.  What the take-* messages *)
(* say to the recorders is TakeControl's subject; here a take only keeps   *)
(* its room from being swept.                                              *)
(***************************************************************************)
EXTENDS Naturals, FiniteSets

CONSTANTS
    Conn,          \* sockets; every reconnect is a new one
    Device,        \* `role:deviceId` keys
    DeviceOf,      \* the key a socket's hello carries, or NoDevice
    NoDevice,
    IsDesk(_),     \* the path role of a socket
    MaxPeers,      \* limits.maxPeersPerSession
    MaxRooms,      \* bound on rooms created
    MaxEvents,     \* bound on renames, takes, sweeps, deletes, failed queries
                   \* and restarts together
    SweepWaits     \* the sweep never runs while a hello is under way

ASSUME SigAssumption ==
    /\ DeviceOf \in [Conn -> Device \cup {NoDevice}]
    /\ NoDevice \notin Device
    /\ MaxPeers \in Nat \ {0}
    /\ MaxRooms \in Nat
    /\ MaxEvents \in Nat
    /\ SweepWaits \in BOOLEAN

VARIABLES
    sock,       \* "idle", "open", "closing" (we called ws.close()), "closed"
    hello,      \* stage of the socket's hello
    helloRoom,  \* the room handleHello was given
    conn,       \* ConnState: [peer, epoch]; peer 0 is null
    storing,    \* what the hello's upsertPeer was called with
    rooms, liveRoom,
    roomIs,     \* "none", "init", "live", "failed"
    peers,      \* room.peers: set of [peer, at, epoch, label]
    devices,    \* room.devices: Device -> [peer, label] or NoIdentity
    take,       \* room.activeTake # null
    rows,       \* peer rows of the archive: set of [peer, dev, label]
    writes,     \* renames whose updatePeerLabel is under way
    views,      \* the session state a socket was last sent
    unsaved,    \* rooms one of whose hellos failed after peers.set
    epochs, nextPeer, events, erase

sigVars == <<sock, hello, helloRoom, conn, storing, rooms, liveRoom, roomIs, peers,
             devices, take, rows, writes, views, unsaved, epochs, nextPeer,
             events, erase>>

Room == 1..MaxRooms
NoIdentity == [peer |-> 0, label |-> ""]
NoConn == [peer |-> 0, epoch |-> 0]
Stages == {"none", "auth", "room", "session", "store", "in", "refused", "failed"}
Waiting == {"auth", "room", "session", "store"}

SigInit ==
    /\ sock = [c \in Conn |-> "idle"]
    /\ hello = [c \in Conn |-> "none"]
    /\ helloRoom = [c \in Conn |-> 0]
    /\ conn = [c \in Conn |-> NoConn]
    /\ storing = [c \in Conn |-> NoIdentity]
    /\ rooms = 0 /\ liveRoom = 0
    /\ roomIs = [r \in Room |-> "none"]
    /\ peers = [r \in Room |-> {}]
    /\ devices = [r \in Room |-> [d \in Device |-> NoIdentity]]
    /\ take = [r \in Room |-> FALSE]
    /\ rows = {} /\ writes = {}
    /\ views = [c \in Conn |-> {}]
    /\ unsaved = {}
    /\ epochs = 0 /\ nextPeer = 1 /\ events = 0
    /\ erase = [at |-> "no", room |-> 0]

(***************************************************************************)
(* getRoom: the map's promise, or a new one when it has none.  getRoomOK   *)
(* is the model's bound on rooms.                                          *)
(***************************************************************************)
Created == Cardinality({r \in Room : roomIs[r] # "none"})
getRoomOK == rooms # 0 \/ Created < MaxRooms
getRoom == IF rooms # 0 THEN rooms ELSE Created + 1
EnterRoom ==
    /\ getRoomOK
    /\ rooms' = getRoom
    /\ roomIs' = IF rooms # 0 THEN roomIs ELSE [roomIs EXCEPT ![getRoom] = "init"]

\* One of the MaxEvents things that happen beside hellos and closes.
Event == events < MaxEvents /\ events' = events + 1

nextEpoch == epochs + 1

sessionState(ps) == {[peer |-> p.peer, label |-> p.label] : p \in ps}

\* fanoutPeerStatus to the sockets of `ps`; a send on a closed socket is dropped.
Fanned(ps) ==
    [c \in Conn |-> IF /\ \E p \in ps : p.at = c
                       /\ sock[c] = "open"
                    THEN sessionState(ps) ELSE views[c]]

Entry(r, p) == {e \in peers[r] : e.peer = p}
\* Mutant: the identity is remembered only while its peer is connected.
KnownIfConnected(c, r) ==
    IF DeviceOf[c] = NoDevice \/ Entry(r, devices[r][DeviceOf[c]].peer) = {}
    THEN NoIdentity ELSE devices[r][DeviceOf[c]]

Known(c, r) == IF DeviceOf[c] = NoDevice THEN NoIdentity ELSE devices[r][DeviceOf[c]]

\* A socket opens and says hello.  A recorder goes straight for the room.
HelloArrives(c) ==
    /\ sock[c] = "idle"
    /\ sock' = [sock EXCEPT ![c] = "open"]
    /\ IF IsDesk(c)
       THEN /\ hello' = [hello EXCEPT ![c] = "auth"]
            /\ UNCHANGED <<helloRoom, rooms, roomIs>>
       ELSE /\ EnterRoom
            /\ hello' = [hello EXCEPT ![c] = "room"]
            /\ helloRoom' = [helloRoom EXCEPT ![c] = getRoom]
    /\ UNCHANGED <<conn, storing, liveRoom, peers, devices, take, rows, writes, views,
                   unsaved, epochs, nextPeer, events, erase>>

\* deskHelloAuth says yes: only now may the desk bring a room into existence.
HelloAuthorized(c) ==
    /\ hello[c] = "auth"
    /\ EnterRoom
    /\ hello' = [hello EXCEPT ![c] = "room"]
    /\ helloRoom' = [helloRoom EXCEPT ![c] = getRoom]
    /\ UNCHANGED <<sock, conn, storing, liveRoom, peers, devices, take, rows, writes, views,
                   unsaved, epochs, nextPeer, events, erase>>

ServerCloses(S) ==
    [c \in Conn |-> IF c \in S /\ sock[c] = "open" THEN "closing" ELSE sock[c]]

\* deskHelloAuth says no, or handleHello finds no common version: fatal.
HelloRefused(c) ==
    /\ hello[c] = "auth"
    /\ hello' = [hello EXCEPT ![c] = "refused"]
    /\ sock' = ServerCloses({c})
    /\ UNCHANGED <<helloRoom, conn, storing, rooms, liveRoom, roomIs, peers, devices, take,
                   rows, writes, views, unsaved, epochs, nextPeer, events, erase>>

\* createRoom resolves: the identities come back from the peer rows.  Two rows
\* of one device load in no particular order.
RoomReady(r) ==
    /\ roomIs[r] = "init"
    /\ roomIs' = [roomIs EXCEPT ![r] = "live"]
    /\ liveRoom' = r
    /\ \E pick \in [Device -> rows \cup {NoIdentity}] :
         /\ \A d \in Device :
              IF \E x \in rows : x.dev = d
              THEN pick[d] \in rows /\ pick[d].dev = d
              ELSE pick[d] = NoIdentity
         /\ devices' = [devices EXCEPT ![r] =
              [d \in Device |-> [peer |-> pick[d].peer, label |-> pick[d].label]]]
    /\ UNCHANGED <<sock, hello, helloRoom, conn, storing, rooms, peers, take, rows,
                   writes, views, unsaved, epochs, nextPeer, events, erase>>

\* createRoom rejects.  The rejected promise stays in the map; the hellos that
\* were waiting for it throw, and onMessage logs it.
RoomFails(r) ==
    /\ roomIs[r] = "init"
    /\ Event
    /\ roomIs' = [roomIs EXCEPT ![r] = "failed"]
    /\ UNCHANGED <<sock, hello, helloRoom, conn, storing, rooms, liveRoom, peers, devices,
                   take, rows, writes, views, unsaved, epochs, nextPeer,
                   erase>>

\* supersedesZombie: a resume that replaces its own socket is not one more.
Occupancy(c, r) ==
    Cardinality(peers[r]) -
        (IF Known(c, r).peer # 0 /\ Entry(r, Known(c, r).peer) # {} THEN 1 ELSE 0)

\* The caps are checked on the room as it is before the await of ensureSession.
HelloAdmitted(c) ==
    LET r == helloRoom[c] IN
    /\ hello[c] = "room"
    /\ roomIs[r] = "live"
    /\ hello' = [hello EXCEPT ![c] =
         IF Occupancy(c, r) < MaxPeers THEN "session" ELSE "refused"]
    /\ sock' = IF Occupancy(c, r) < MaxPeers THEN sock ELSE ServerCloses({c})
    /\ UNCHANGED <<helloRoom, conn, storing, rooms, liveRoom, roomIs, peers, devices, take,
                   rows, writes, views, unsaved, epochs, nextPeer, events, erase>>

\* The previous socket of this identity, newest wins.
zombie(r, p) == Entry(r, p)

\* After ensureSession: identity resume, zombie replacement, the new epoch.
HelloJoins(c) ==
    LET r == helloRoom[c]
        known == Known(c, r)
        peer == IF known.peer # 0 THEN known.peer ELSE nextPeer
        entry == [peer |-> peer, at |-> c, epoch |-> nextEpoch, label |-> known.label]
    IN
    /\ hello[c] = "session"
    /\ sock' = ServerCloses({z.at : z \in zombie(r, peer)})
    /\ peers' = [peers EXCEPT ![r] = (@ \ zombie(r, peer)) \cup {entry}]
    /\ devices' = IF DeviceOf[c] = NoDevice THEN devices
                  ELSE [devices EXCEPT ![r][DeviceOf[c]] =
                          [peer |-> peer, label |-> known.label]]
    /\ conn' = [conn EXCEPT ![c] = [peer |-> peer, epoch |-> nextEpoch]]
    /\ storing' = [storing EXCEPT ![c] = [peer |-> peer, label |-> known.label]]
    /\ epochs' = epochs + 1
    /\ nextPeer' = IF known.peer # 0 THEN nextPeer ELSE nextPeer + 1
    /\ hello' = [hello EXCEPT ![c] = "store"]
    /\ UNCHANGED <<helloRoom, rooms, liveRoom, roomIs, take, rows, writes, views,
                   unsaved, events, erase>>

\* upsertPeer and touchSession are done: welcome, and everyone is told.
HelloStored(c) ==
    LET r == helloRoom[c]
        row == [peer |-> storing[c].peer, dev |-> DeviceOf[c], label |-> storing[c].label]
    IN
    /\ hello[c] = "store"
    /\ hello' = [hello EXCEPT ![c] = "in"]
    /\ rows' = {x \in rows : x.peer # row.peer} \cup {row}
    /\ views' = [Fanned(peers[r]) EXCEPT ![c] = sessionState(peers[r])]
    /\ storing' = [storing EXCEPT ![c] = NoIdentity]
    /\ UNCHANGED <<sock, helloRoom, conn, rooms, liveRoom, roomIs, peers,
                   devices, take, writes, unsaved, epochs, nextPeer, events, erase>>

\* The hello throws: the room it waited for failed, or the archive did.  The
\* peer entry and the device identity stay as they are.
HelloThrows(c) ==
    /\ \/ hello[c] = "room" /\ roomIs[helloRoom[c]] = "failed" /\ UNCHANGED events
       \/ hello[c] \in {"session", "store"} /\ Event
    /\ hello' = [hello EXCEPT ![c] = "failed"]
    /\ unsaved' = IF hello[c] = "store" THEN unsaved \cup {helloRoom[c]} ELSE unsaved
    /\ UNCHANGED <<sock, helloRoom, conn, storing, rooms, liveRoom, roomIs, peers,
                   devices, take, rows, writes, views, epochs, nextPeer,
                   erase>>

(***************************************************************************)
(* leave: only the generation that owns the entry removes it.              *)
(***************************************************************************)
\* Mutant: no epoch test.
OwnedByPeerId(c, r) == Entry(r, conn[c].peer)
Owned(c, r) == {e \in Entry(r, conn[c].peer) : e.epoch = conn[c].epoch}
leave(c, r) ==
    /\ peers' = [peers EXCEPT ![r] = @ \ Owned(c, r)]
    /\ views' = IF Owned(c, r) = {} THEN views ELSE Fanned(peers[r] \ Owned(c, r))
    /\ conn' = [conn EXCEPT ![c] = NoConn]

\* handleClose asks the map for the room, which need not be the room the hello
\* was given.  A room still in init has no entry of this socket to remove.
SocketCloses(c) ==
    /\ sock[c] \in {"open", "closing"}
    /\ rooms # 0 => roomIs[rooms] # "failed"
    /\ sock' = [sock EXCEPT ![c] = "closed"]
    /\ IF rooms # 0 /\ roomIs[rooms] = "live"
       THEN leave(c, rooms)
       ELSE UNCHANGED <<peers, views, conn>>
    /\ UNCHANGED <<hello, helloRoom, storing, rooms, liveRoom, roomIs, devices, take,
                   rows, writes, unsaved, epochs, nextPeer, events, erase>>

\* The process ends: memory is gone, the rows stay.
MemoryLost ==
    /\ sock' = [c \in Conn |-> IF sock[c] = "idle" THEN "idle" ELSE "closed"]
    /\ hello' = [c \in Conn |-> IF hello[c] \in Waiting THEN "failed" ELSE hello[c]]
    /\ helloRoom' = [c \in Conn |-> 0]
    /\ conn' = [c \in Conn |-> NoConn]
    /\ storing' = [c \in Conn |-> NoIdentity]
    /\ rooms' = 0 /\ liveRoom' = 0
    /\ roomIs' = [r \in Room |-> "none"]
    /\ peers' = [r \in Room |-> {}]
    /\ devices' = [r \in Room |-> [d \in Device |-> NoIdentity]]
    /\ take' = [r \in Room |-> FALSE]
    /\ writes' = {} /\ unsaved' = {} /\ epochs' = 0
    /\ views' = [c \in Conn |-> {}]
    /\ erase' = IF erase.at \in {"no", "done"} THEN erase ELSE [at |-> "done", room |-> 0]
    /\ UNCHANGED <<rows, nextPeer>>

Restart == Event /\ MemoryLost

\* handleClose on a rejected promise has no catch: Node ends the process.
CloseEndsServer(c) ==
    /\ sock[c] \in {"open", "closing"}
    /\ rooms # 0 /\ roomIs[rooms] = "failed"
    /\ MemoryLost
    /\ UNCHANGED events

(***************************************************************************)
(* Messages after the hello.  getRoom again: a message may bring a new     *)
(* room into existence, and is dropped when the room does not know it.     *)
(***************************************************************************)
MaySpeak(c) == sock[c] \in {"open", "closing"} /\ conn[c].peer # 0
From(c) ==
    /\ MaySpeak(c)
    /\ rooms # 0 /\ roomIs[rooms] = "live"
    /\ Entry(rooms, conn[c].peer) # {}

MessageMakesRoom(c) ==
    /\ MaySpeak(c)
    /\ rooms = 0
    /\ Event
    /\ EnterRoom
    /\ UNCHANGED <<sock, hello, helloRoom, conn, storing, liveRoom, peers, devices,
                   take, rows, writes, views, unsaved, epochs, nextPeer,
                   erase>>

Bye(c) ==
    /\ From(c)
    /\ leave(c, rooms)
    /\ UNCHANGED <<sock, hello, helloRoom, storing, rooms, liveRoom, roomIs, devices,
                   take, rows, writes, unsaved, epochs, nextPeer, events, erase>>

\* take-start and take-stop, from a desk only.
TakeStartsOrStops(c) ==
    /\ From(c)
    /\ IsDesk(c)
    /\ Event
    /\ take' = [take EXCEPT ![rooms] = ~@]
    /\ UNCHANGED <<sock, hello, helloRoom, conn, storing, rooms, liveRoom, roomIs,
                   peers, devices, rows, writes, views, unsaved, epochs, nextPeer, erase>>

Relabelled(ds, p, label) ==
    [d \in Device |-> IF ds[d].peer = p THEN [ds[d] EXCEPT !.label = label] ELSE ds[d]]

\* peer-update: the desk renames anyone the room knows, a recorder itself.
Rename(c, p) ==
    LET label == "named" IN
    /\ From(c)
    /\ Event
    /\ IsDesk(c) \/ p = conn[c].peer
    /\ Entry(rooms, p) # {} \/ \E d \in Device : devices[rooms][d].peer = p
    /\ peers' = [peers EXCEPT ![rooms] =
         {IF e.peer = p THEN [e EXCEPT !.label = label] ELSE e : e \in @}]
    /\ devices' = [devices EXCEPT ![rooms] = Relabelled(@, p, label)]
    /\ writes' = writes \cup {[peer |-> p, label |-> label, room |-> rooms]}
    /\ UNCHANGED <<sock, hello, helloRoom, conn, storing, rooms, liveRoom, roomIs,
                   take, rows, views, unsaved, epochs, nextPeer, erase>>

RenameStored(w) ==
    /\ rows' = {IF x.peer = w.peer THEN [x EXCEPT !.label = w.label] ELSE x : x \in rows}
    /\ writes' = writes \ {w}
    /\ views' = Fanned(peers[w.room])
    /\ UNCHANGED <<sock, hello, helloRoom, conn, storing, rooms, liveRoom, roomIs,
                   peers, devices, take, unsaved, epochs, nextPeer, events, erase>>

(***************************************************************************)
(* The sweep and the hard delete.                                          *)
(***************************************************************************)
Undisturbed == SweepWaits => \A c \in Conn : hello[c] \notin Waiting

\* pruneIdleRooms drops the map entry of an idle room.
pruneIdleRooms ==
    /\ liveRoom # 0
    /\ peers[liveRoom] = {} /\ ~take[liveRoom]
    /\ Undisturbed
    /\ Event
    /\ rooms' = 0 /\ liveRoom' = 0
    /\ UNCHANGED <<sock, hello, helloRoom, conn, storing, roomIs, peers, devices,
                   take, rows, writes, views, unsaved, epochs, nextPeer,
                   erase>>

\* closeSession first forgets the room, then waits for its init.
closeSession ==
    /\ erase.at = "no"
    /\ Undisturbed
    /\ Event
    /\ erase' = [at |-> "closing", room |-> rooms]
    /\ rooms' = 0 /\ liveRoom' = 0
    /\ UNCHANGED <<sock, hello, helloRoom, conn, storing, roomIs, peers, devices,
                   take, rows, writes, views, unsaved, epochs, nextPeer>>

SessionClosed ==
    LET r == erase.room IN
    /\ erase.at = "closing"
    /\ r # 0 => roomIs[r] \in {"live", "failed"}
    /\ erase' = [erase EXCEPT !.at = "rows"]
    /\ IF r = 0 THEN UNCHANGED <<sock, peers>>
       ELSE /\ sock' = ServerCloses({e.at : e \in peers[r]})
            /\ peers' = [peers EXCEPT ![r] = {}]
    /\ UNCHANGED <<hello, helloRoom, conn, storing, rooms, liveRoom, roomIs, devices,
                   take, rows, writes, views, unsaved, epochs, nextPeer, events>>

\* archive.deleteSession: the peer rows cascade away.
RowsErased ==
    /\ erase.at = "rows"
    /\ rows' = {}
    /\ erase' = [at |-> "done", room |-> 0]
    /\ UNCHANGED <<sock, hello, helloRoom, conn, storing, rooms, liveRoom, roomIs,
                   peers, devices, take, writes, views, unsaved, epochs, nextPeer,
                   events>>

SigServerStep(c) ==
    \/ HelloAuthorized(c) \/ HelloRefused(c)
    \/ HelloAdmitted(c) \/ HelloJoins(c) \/ HelloStored(c) \/ HelloThrows(c)

SigNext ==
    \/ \E c \in Conn :
         \/ HelloArrives(c)
         \/ SigServerStep(c)
         \/ SocketCloses(c) \/ CloseEndsServer(c)
         \/ MessageMakesRoom(c) \/ Bye(c) \/ TakeStartsOrStops(c)
         \/ \E p \in 1..(nextPeer - 1) : Rename(c, p)
    \/ \E w \in writes : RenameStored(w)
    \/ \E r \in Room : RoomReady(r) \/ RoomFails(r)
    \/ Restart
    \/ pruneIdleRooms
    \/ closeSession \/ SessionClosed \/ RowsErased

SigSpec == SigInit /\ [][SigNext]_sigVars

-----------------------------------------------------------------------------
(* Properties *)

\* Every map and every socket holds what the code's types allow.
SigTypeOK ==
    /\ sock \in [Conn -> {"idle", "open", "closing", "closed"}]
    /\ hello \in [Conn -> Stages]
    /\ helloRoom \in [Conn -> 0..MaxRooms]
    /\ conn \in [Conn -> [peer : Nat, epoch : Nat]]
    /\ rooms \in 0..MaxRooms /\ liveRoom \in 0..MaxRooms
    /\ \A r \in Room : \A e \in peers[r] :
         /\ e.peer \in 1..(nextPeer - 1)
         /\ e.epoch \in 1..epochs
         /\ e.at \in Conn
    /\ rows \subseteq [peer : 1..(nextPeer - 1), dev : Device \cup {NoDevice},
                       label : {"", "named"}]

\* A socket that has joined and that nobody closed is still the one its peer
\* entry names: no late close or bye of a superseded socket, no prune and no
\* other hello ever takes its entry away (the epoch test of leave).
OwnPeerOnly ==
    \A c \in Conn :
        /\ hello[c] \in {"store", "in"}
        /\ sock[c] = "open"
        /\ conn[c].peer # 0
        => \E e \in peers[helloRoom[c]] :
              e.at = c /\ e.peer = conn[c].peer /\ e.epoch = conn[c].epoch

\* One device is one lane: however its hellos overlap, a room never shows two
\* peers for the same role and device.
OneLanePerDevice ==
    \A r \in Room : \A e, f \in peers[r] :
        (DeviceOf[e.at] = DeviceOf[f.at] /\ DeviceOf[e.at] # NoDevice) => e = f

\* Once nothing is under way in a room, every welcomed socket of it has been
\* told exactly the peers and names the room holds.
ViewsCurrent ==
    \A r \in Room :
        \/ r \in unsaved
        \/ \E c \in Conn : helloRoom[c] = r /\ hello[c] = "store"
        \/ \E w \in writes : w.room = r
        \/ \A e \in peers[r] :
             (sock[e.at] = "open" /\ hello[e.at] = "in") =>
                 views[e.at] = sessionState(peers[r])

\* The name on a lane is the name its device will come back with.
LabelsAgree ==
    \A r \in Room : \A e \in peers[r] :
        DeviceOf[e.at] # NoDevice =>
            /\ devices[r][DeviceOf[e.at]].peer = e.peer
            /\ devices[r][DeviceOf[e.at]].label = e.label

\* A device whose peer row was stored is given that peer again, through
\* reconnects, swept rooms and server restarts (hello.ts: "the same device
\* rejoining with the same role gets its previous peerId back").
SameDeviceSamePeer ==
    [][\A c \in Conn :
         LET mine == {x \in rows : x.dev = DeviceOf[c]} IN
         (/\ hello[c] = "session" /\ hello'[c] = "store"
          /\ DeviceOf[c] # NoDevice
          /\ mine # {})
         => \E x \in mine : x.peer = storing'[c].peer]_sigVars

\* A socket that closed is no longer a peer of the session (room.ts: "close
\* handling reconciles").
ClosedPeersLeave ==
    \A c \in Conn : (sock[c] = "closed" /\ hello[c] \notin Waiting /\ rooms # 0) =>
        ~\E e \in peers[rooms] : e.at = c

\* The roster is one truth, in the entries, on the screens and in the memory of
\* devices, however hellos, closes, renames, prunes and sweeps overlap (room.ts,
\* hello.ts).
RosterSound ==
    SigTypeOK /\ OwnPeerOnly /\ OneLanePerDevice /\ ViewsCurrent /\ LabelsAgree
=============================================================================
