------------------------ MODULE Signaling_proofs -------------------------
(***************************************************************************)
(* What the signaling rooms promise, for every number of sockets, devices  *)
(* and rooms and however often the archive fails or the process restarts   *)
(* (SignalingRoom): the roster is one truth however hellos, closes,        *)
(* renames, prunes and sweeps overlap, and, as long as no sweep runs       *)
(* between two stages of a hello, a device gets the peer it had.           *)
(***************************************************************************)
EXTENDS SignalingRoom, FiniteSetTheorems, TLAPS

Labels == {"", "named"}

Identity(n) == [peer : 0..(n - 1), label : Labels]

EntryOf(n, k) == [peer : 1..(n - 1), at : Conn, epoch : 1..k, label : Labels]

RoomStates == {"none", "init", "live", "failed"}

\* What the server keeps in memory and what the archive does.
SigTyped ==
    /\ sock \in [Conn -> {"idle", "open", "closing", "closed"}]
    /\ hello \in [Conn -> Stages]
    /\ helloRoom \in [Conn -> 0..MaxRooms]
    /\ conn \in [Conn -> [peer : Nat, epoch : 0..epochs]]
    /\ storing \in [Conn -> Identity(nextPeer)]
    /\ rooms \in 0..MaxRooms /\ liveRoom \in 0..MaxRooms
    /\ roomIs \in [Room -> RoomStates]
    /\ peers \in [Room -> SUBSET EntryOf(nextPeer, epochs)]
    /\ devices \in [Room -> [Device -> Identity(nextPeer)]]
    /\ rows \subseteq [peer : 1..(nextPeer - 1), dev : Device \cup {NoDevice}, label : Labels]
    /\ writes \subseteq [peer : 1..(nextPeer - 1), label : Labels, room : Room]
    /\ epochs \in Nat /\ nextPeer \in Nat \ {0}
    /\ erase \in [at : {"no", "closing", "rows", "done"}, room : 0..MaxRooms]

\* Rooms come into being one after the other.
RoomsInOrder == \E n \in 0..MaxRooms : \A r \in Room : roomIs[r] # "none" <=> r <= n

\* Where a hello is says what it has: a room, then a live one, then a peer.
StagesHold ==
    \A c \in Conn :
        /\ sock[c] = "idle" => hello[c] = "none"
        /\ hello[c] \in {"room", "session", "store"} => helloRoom[c] \in Room
        /\ hello[c] \in {"session", "store"} => roomIs[helloRoom[c]] = "live"
        /\ hello[c] = "store" => storing[c].peer # 0
        /\ hello[c] = "in" /\ sock[c] = "open" => helloRoom[c] \in Room

\* An entry is in the live room that its socket's hello was given.
EntriesHold ==
    \A r \in Room : \A e \in peers[r] :
        /\ roomIs[r] = "live" /\ helloRoom[e.at] = r
        /\ hello[e.at] \in {"store", "in", "failed"}

\* No two sockets are of one generation.
EpochsApart ==
    \A c, d \in Conn : (conn[c].epoch = conn[d].epoch /\ conn[c].epoch # 0) => c = d

\* A room has one entry for a peer.
UniquePeers == \A r \in Room : \A e, f \in peers[r] : e.peer = f.peer => e = f

\* Everyone welcomed in a room has been told what it holds, or will be.
Told(r) ==
    \/ r \in unsaved
    \/ \E c \in Conn : helloRoom[c] = r /\ hello[c] = "store"
    \/ \E w \in writes : w.room = r
    \/ \A e \in peers[r] :
         (sock[e.at] = "open" /\ hello[e.at] = "in") => views[e.at] = sessionState(peers[r])

SigInv ==
    /\ SigTyped /\ RoomsInOrder /\ StagesHold /\ EntriesHold /\ EpochsApart
    /\ UniquePeers /\ OwnPeerOnly /\ LabelsAgree /\ ViewsCurrent

-----------------------------------------------------------------------------
(* Rooms and entries.                                                      *)

\* The next room getRoom creates is one that never was.
LEMMA NewRoomIsFresh ==
    ASSUME SigTyped, RoomsInOrder, getRoomOK
    PROVE  /\ getRoom \in Room
           /\ rooms = 0 => /\ roomIs[getRoom] = "none"
                           /\ \A r \in Room : roomIs[r] # "none" <=> r <= getRoom - 1
<1> USE SigAssumption
<1>1. CASE rooms # 0
  BY <1>1 DEF SigTyped, getRoom, Room
<1>2. CASE rooms = 0
  <2>1. PICK n \in 0..MaxRooms : \A r \in Room : roomIs[r] # "none" <=> r <= n
    BY DEF RoomsInOrder
  <2>2. {r \in Room : roomIs[r] # "none"} = 1..n
    BY <2>1 DEF Room
  <2>3. Created = n
    <3>1. n \in Nat /\ 1..n \in SUBSET Int
      BY <2>1
    <3>2. Cardinality(1..n) = n
      BY <3>1, FS_Interval
    <3> QED
      BY <2>2, <3>2 DEF Created
  <2> QED
    BY <1>2, <2>1, <2>3 DEF getRoomOK, getRoom, Room
<1> QED
  BY <1>1, <1>2

\* EnterRoom may begin one room and touches no other.
LEMMA EnterRoomKeeps ==
    ASSUME SigTyped, RoomsInOrder, EnterRoom
    PROVE  /\ getRoom \in Room /\ rooms' = getRoom /\ RoomsInOrder'
           /\ roomIs' \in [Room -> RoomStates]
           /\ \A r \in Room : roomIs'[r] # roomIs[r] =>
                                  roomIs[r] = "none" /\ roomIs'[r] = "init"
<1>1. getRoomOK
  BY DEF EnterRoom
<1>2. /\ getRoom \in Room
      /\ rooms = 0 => /\ roomIs[getRoom] = "none"
                      /\ \A r \in Room : roomIs[r] # "none" <=> r <= getRoom - 1
  BY <1>1, NewRoomIsFresh
<1> HIDE DEF getRoom
<1>3. CASE rooms # 0
  BY <1>2, <1>3 DEF EnterRoom, SigTyped, RoomsInOrder
<1>4. CASE rooms = 0
  <2>1. roomIs' = [roomIs EXCEPT ![getRoom] = "init"]
    BY <1>4 DEF EnterRoom
  <2>2. \A r \in Room : roomIs'[r] # "none" <=> r <= getRoom
    BY <1>2, <1>4, <2>1 DEF SigTyped, Room
  <2>3. RoomsInOrder'
    BY <1>2, <2>2 DEF RoomsInOrder, Room
  <2> QED
    BY <1>2, <1>4, <2>1, <2>3 DEF EnterRoom, SigTyped, RoomStates
<1> QED
  BY <1>3, <1>4

\* Identities and entries stay what they are as peers and generations are counted on.
LEMMA CountersGrow ==
    ASSUME NEW n \in Nat, NEW m \in Nat, n <= m, NEW k \in Nat, NEW l \in Nat, k <= l
    PROVE  /\ Identity(n) \subseteq Identity(m) /\ EntryOf(n, k) \subseteq EntryOf(m, l)
           /\ 1..(n - 1) \subseteq 1..(m - 1)
BY DEF Identity, EntryOf

\* A device nobody knows is an identity too.
LEMMA NobodyIsIdentity ==
    ASSUME NEW n \in Nat \ {0}
    PROVE  NoIdentity \in Identity(n)
BY DEF NoIdentity, Identity, Labels

\* The server ends a socket at most, it never opens one.
LEMMA ClosesOnly ==
    ASSUME SigTyped, NEW S
    PROVE  /\ ServerCloses(S) \in [Conn -> {"idle", "open", "closing", "closed"}]
           /\ \A c \in Conn : /\ ServerCloses(S)[c] = "idle" => sock[c] = "idle"
                              /\ ServerCloses(S)[c] = "open" => sock[c] = "open" /\ c \notin S
BY DEF SigTyped, ServerCloses

-----------------------------------------------------------------------------
(* Every step keeps the invariant.                                         *)

\* A hello that begins, and a desk's that is let in, have no entry and no peer yet.
LEMMA HelloBeginsKeeps ==
    ASSUME SigInv, NEW c \in Conn, HelloArrives(c) \/ HelloAuthorized(c)
    PROVE  SigInv'
<1> USE SigAssumption DEF SigInv
<1> DEFINE in == EnterRoom /\ hello' = [hello EXCEPT ![c] = "room"]
                    /\ helloRoom' = [helloRoom EXCEPT ![c] = getRoom]
           out == hello' = [hello EXCEPT ![c] = "auth"] /\ UNCHANGED <<helloRoom, rooms, roomIs>>
<1>1. /\ hello[c] \in {"none", "auth"}
      /\ sock' = [sock EXCEPT ![c] = "open"] \/ UNCHANGED sock
      /\ sock'[c] # "idle" /\ \A d \in Conn \ {c} : sock'[d] = sock[d]
      /\ sock' \in [Conn -> {"idle", "open", "closing", "closed"}]
  BY ZenonT(60) DEF HelloArrives, HelloAuthorized, SigTyped, StagesHold
<1>2. in \/ out
  BY DEF HelloArrives, HelloAuthorized
<1>3. UNCHANGED <<conn, storing, liveRoom, peers, devices, rows, writes, views, unsaved,
                  epochs, nextPeer, erase>>
  BY DEF HelloArrives, HelloAuthorized
<1>4. /\ helloRoom' \in [Conn -> 0..MaxRooms] /\ rooms' \in 0..MaxRooms
      /\ roomIs' \in [Room -> RoomStates] /\ RoomsInOrder'
      /\ \A r \in Room : roomIs[r] = "live" => roomIs'[r] = "live"
      /\ hello' \in [Conn -> Stages] /\ hello'[c] \in {"auth", "room"}
      /\ hello'[c] = "room" => helloRoom'[c] \in Room
      /\ \A d \in Conn \ {c} : hello'[d] = hello[d] /\ helloRoom'[d] = helloRoom[d]
  <2>1. CASE in
    <3>1. /\ getRoom \in Room /\ rooms' = getRoom /\ RoomsInOrder'
          /\ roomIs' \in [Room -> RoomStates]
          /\ \A r \in Room : roomIs'[r] # roomIs[r] => roomIs[r] = "none" /\ roomIs'[r] = "init"
      BY <2>1, EnterRoomKeeps
    <3> QED
      BY <2>1, <3>1 DEF SigTyped, Stages, Room
  <2>2. CASE out
    BY <2>2 DEF SigTyped, RoomsInOrder, Stages
  <2> QED
    BY <1>2, <2>1, <2>2
<1> HIDE DEF in, out
<1>5. \A r \in Room : \A e \in peers[r] : e.at \in Conn \ {c}
  BY SMTT(30), <1>1 DEF SigTyped, EntriesHold, EntryOf
<1>6. SigTyped'
  BY <1>1, <1>3, <1>4 DEF SigTyped
<1>7. StagesHold'
  BY <1>1, <1>3, <1>4 DEF StagesHold, SigTyped
<1>8. EntriesHold'
  BY <1>3, <1>4, <1>5 DEF EntriesHold
<1>9. EpochsApart' /\ UniquePeers' /\ LabelsAgree'
  BY <1>3 DEF EpochsApart, UniquePeers, LabelsAgree
<1>10. OwnPeerOnly'
  BY <1>1, <1>3, <1>4 DEF OwnPeerOnly
<1>11. ViewsCurrent'
  <2>1. ASSUME NEW r \in Room, NEW d \in Conn, helloRoom[d] = r, hello[d] = "store"
        PROVE  helloRoom'[d] = r /\ hello'[d] = "store"
    BY <1>1, <1>4, <2>1
  <2>2. \A r \in Room : \A e \in peers[r] :
          sock'[e.at] = sock[e.at] /\ hello'[e.at] = hello[e.at]
    BY <1>1, <1>4, <1>5
  <2> QED
    BY <1>3, <2>1, <2>2 DEF ViewsCurrent, sessionState
<1> QED
  BY <1>4, <1>6, <1>7, <1>8, <1>9, <1>10, <1>11

\* A message that brings a room into existence puts nobody in it.
LEMMA MessageMakesRoomKeeps ==
    ASSUME SigInv, NEW c \in Conn, MessageMakesRoom(c)
    PROVE  SigInv'
<1> USE SigAssumption DEF SigInv, MessageMakesRoom
<1>1. /\ getRoom \in Room /\ rooms' = getRoom /\ RoomsInOrder'
      /\ roomIs' \in [Room -> RoomStates]
      /\ \A r \in Room : roomIs'[r] # roomIs[r] => roomIs[r] = "none" /\ roomIs'[r] = "init"
  BY EnterRoomKeeps
<1>2. SigTyped'
  BY <1>1 DEF SigTyped, Room
<1>3. StagesHold' /\ EntriesHold'
  BY <1>1 DEF StagesHold, EntriesHold
<1>4. EpochsApart' /\ UniquePeers' /\ OwnPeerOnly' /\ LabelsAgree' /\ ViewsCurrent'
  BY DEF EpochsApart, UniquePeers, OwnPeerOnly, LabelsAgree, ViewsCurrent
<1> QED
  BY <1>1, <1>2, <1>3, <1>4

\* A hello that is refused, admitted or thrown out leaves the room as it was.
LEMMA HelloEndsKeeps ==
    ASSUME SigInv, NEW c \in Conn, HelloRefused(c) \/ HelloAdmitted(c) \/ HelloThrows(c)
    PROVE  SigInv'
<1> USE SigAssumption DEF SigInv
<1>1. /\ UNCHANGED <<helloRoom, conn, storing, rooms, liveRoom, roomIs, peers, devices,
                     rows, writes, views, epochs, nextPeer, erase>>
      /\ hello[c] \in {"auth", "room", "session", "store"}
      /\ hello' \in [Conn -> Stages] /\ \A d \in Conn \ {c} : hello'[d] = hello[d]
      /\ hello'[c] \in {"refused", "session", "failed"}
      /\ hello[c] = "store" => hello'[c] = "failed" /\ unsaved' = unsaved \cup {helloRoom[c]}
      /\ hello'[c] = "session" => hello[c] = "room" /\ roomIs[helloRoom[c]] = "live"
      /\ unsaved \subseteq unsaved'
  BY DEF HelloRefused, HelloAdmitted, HelloThrows, SigTyped, Stages
<1>2. /\ sock' \in [Conn -> {"idle", "open", "closing", "closed"}]
      /\ \A d \in Conn : /\ sock'[d] = "idle" => sock[d] = "idle"
                         /\ sock'[d] = "open" => sock[d] = "open"
  <2>1. sock' = sock \/ sock' = ServerCloses({c})
    BY DEF HelloRefused, HelloAdmitted, HelloThrows
  <2> QED
    BY <2>1, ClosesOnly DEF SigTyped
<1>3. SigTyped'
  BY <1>1, <1>2 DEF SigTyped
<1>4. RoomsInOrder' /\ EpochsApart' /\ UniquePeers' /\ LabelsAgree'
  BY <1>1 DEF RoomsInOrder, EpochsApart, UniquePeers, LabelsAgree
<1>5. StagesHold'
  BY <1>1, <1>2 DEF StagesHold, SigTyped
<1>6. EntriesHold'
  <2>1. \A r \in Room : \A e \in peers[r] : e.at \in Conn
    BY DEF SigTyped, EntryOf
  <2>2. \A d \in Conn : hello[d] \in {"store", "in", "failed"} =>
          hello'[d] \in {"store", "in", "failed"}
    BY <1>1
  <2> QED
    BY <1>1, <2>1, <2>2 DEF EntriesHold
<1>7. OwnPeerOnly'
  BY <1>1, <1>2 DEF OwnPeerOnly
<1>8. ViewsCurrent'
  <2>1. \A r \in Room : \A e \in peers[r] :
          sock'[e.at] = "open" /\ hello'[e.at] = "in" => sock[e.at] = "open" /\ hello[e.at] = "in"
    BY <1>1, <1>2 DEF SigTyped, EntryOf
  <2> QED
    BY <1>1, <2>1 DEF ViewsCurrent, sessionState
<1> QED
  BY <1>3, <1>4, <1>5, <1>6, <1>7, <1>8

\* A room whose init resolved or failed had nobody in it.
LEMMA RoomSettlesKeeps ==
    ASSUME SigInv, NEW q \in Room, RoomReady(q) \/ RoomFails(q)
    PROVE  SigInv'
<1> USE SigAssumption DEF SigInv
<1>1. /\ UNCHANGED <<sock, hello, helloRoom, conn, storing, rooms, peers,
                     rows, writes, views, unsaved, epochs, nextPeer, erase>>
      /\ liveRoom' \in 0..MaxRooms
      /\ roomIs' \in [Room -> RoomStates]
      /\ roomIs[q] = "init" /\ roomIs'[q] # "none"
      /\ \A r \in Room \ {q} : roomIs'[r] = roomIs[r]
  <2>1. CASE RoomReady(q)
    <3>1. liveRoom' = q /\ q \in 0..MaxRooms
      BY <2>1 DEF RoomReady, Room
    <3>2. roomIs[q] = "init" /\ roomIs' = [roomIs EXCEPT ![q] = "live"]
      BY <2>1 DEF RoomReady
    <3>3. UNCHANGED <<sock, hello, helloRoom, conn, storing, rooms, peers,
                      rows, writes, views, unsaved, epochs, nextPeer, erase>>
      BY <2>1 DEF RoomReady
    <3> QED
      BY <3>1, <3>2, <3>3 DEF SigTyped, RoomStates
  <2>2. CASE RoomFails(q)
    BY <2>2 DEF RoomFails, SigTyped, RoomStates
  <2> QED
    BY <2>1, <2>2
<1>2. /\ devices' \in [Room -> [Device -> Identity(nextPeer)]]
      /\ \A r \in Room \ {q} : devices'[r] = devices[r]
  <2>1. CASE UNCHANGED devices
    BY <2>1 DEF SigTyped
  <2>2. ASSUME NEW pick \in [Device -> rows \cup {NoIdentity}],
               devices' = [devices EXCEPT ![q] =
                 [d \in Device |-> [peer |-> pick[d].peer, label |-> pick[d].label]]]
        PROVE  <1>2!1 /\ <1>2!2
    <3>1. \A x \in rows \cup {NoIdentity} : [peer |-> x.peer, label |-> x.label] \in Identity(nextPeer)
      <4>1. \A x \in rows : [peer |-> x.peer, label |-> x.label] \in Identity(nextPeer)
        BY DEF SigTyped, Identity
      <4>2. [peer |-> NoIdentity.peer, label |-> NoIdentity.label] = NoIdentity
        BY DEF NoIdentity
      <4>3. NoIdentity \in Identity(nextPeer)
        BY NobodyIsIdentity DEF SigTyped
      <4> QED
        BY <4>1, <4>2, <4>3
    <3> DEFINE ids == [d \in Device |-> [peer |-> pick[d].peer, label |-> pick[d].label]]
    <3>2. ids \in [Device -> Identity(nextPeer)]
      BY <3>1
    <3> HIDE DEF ids
    <3> QED
      BY <2>2, <3>2 DEF SigTyped, ids
  <2> QED
    BY <2>1, <2>2 DEF RoomReady, RoomFails
<1>3. peers[q] = {}
  BY <1>1 DEF EntriesHold, SigTyped
<1>4. SigTyped'
  BY <1>1, <1>2 DEF SigTyped
<1>5. RoomsInOrder'
  BY <1>1 DEF RoomsInOrder
<1>6. StagesHold' /\ EntriesHold'
  BY <1>1, <1>3 DEF StagesHold, EntriesHold
<1>7. EpochsApart' /\ UniquePeers' /\ OwnPeerOnly' /\ ViewsCurrent'
  BY <1>1 DEF EpochsApart, UniquePeers, OwnPeerOnly, ViewsCurrent
<1>8. LabelsAgree'
  BY <1>1, <1>2, <1>3 DEF LabelsAgree
<1> QED
  BY <1>4, <1>5, <1>6, <1>7, <1>8

\* What HelloStored and RenameStored tell a room reaches no other room's sockets.
LEMMA FannedReaches ==
    ASSUME SigInv, NEW q \in Room, NEW ps, ps \subseteq peers[q]
    PROVE  /\ \A e \in ps : sock[e.at] = "open" => Fanned(ps)[e.at] = sessionState(ps)
           /\ \A r \in Room \ {q} : \A e \in peers[r] : Fanned(ps)[e.at] = views[e.at]
BY DEF SigInv, SigTyped, EntriesHold, EntryOf, Fanned

\* A hello whose peer row is stored is welcomed, and the room is told.
LEMMA HelloStoredKeeps ==
    ASSUME SigInv, NEW c \in Conn, HelloStored(c)
    PROVE  SigInv'
<1> USE SigAssumption DEF SigInv
<1> DEFINE q == helloRoom[c]
           row == [peer |-> storing[c].peer, dev |-> DeviceOf[c], label |-> storing[c].label]
<1>1. /\ hello[c] = "store" /\ hello' = [hello EXCEPT ![c] = "in"]
      /\ rows' = {x \in rows : x.peer # row.peer} \cup {row}
      /\ views' = [Fanned(peers[q]) EXCEPT ![c] = sessionState(peers[q])]
      /\ storing' = [storing EXCEPT ![c] = NoIdentity]
      /\ UNCHANGED <<sock, helloRoom, conn, rooms, liveRoom, roomIs, peers,
                     devices, take, writes, unsaved, epochs, nextPeer, events, erase>>
  BY DEF HelloStored
<1>2. q \in Room /\ roomIs[q] = "live" /\ storing[c].peer # 0
  BY <1>1 DEF StagesHold
<1>3. rows' \subseteq [peer : 1..(nextPeer - 1), dev : Device \cup {NoDevice}, label : Labels]
  <2>1. row \in [peer : 1..(nextPeer - 1), dev : Device \cup {NoDevice}, label : Labels]
    BY <1>2 DEF SigTyped, Identity
  <2> HIDE DEF row
  <2> QED
    BY <1>1, <2>1 DEF SigTyped
<1>4. SigTyped'
  <2>1. NoIdentity \in Identity(nextPeer)
    BY NobodyIsIdentity DEF SigTyped
  <2> QED
    BY <1>1, <1>3, <2>1 DEF SigTyped, Stages
<1>5. RoomsInOrder' /\ EpochsApart' /\ UniquePeers' /\ LabelsAgree'
  BY <1>1 DEF RoomsInOrder, EpochsApart, UniquePeers, LabelsAgree
<1>6. StagesHold' /\ EntriesHold'
  BY <1>1 DEF StagesHold, EntriesHold, SigTyped
<1>7. OwnPeerOnly'
  BY <1>1 DEF OwnPeerOnly, SigTyped
<1>8. ViewsCurrent'
  <2>1. /\ \A e \in peers[q] : sock[e.at] = "open" => views'[e.at] = sessionState(peers[q])
        /\ \A r \in Room \ {q} : \A e \in peers[r] :
             e.at \in Conn \ {c} /\ views'[e.at] = views[e.at]
    <3> DEFINE ps == peers[q]
               told == sessionState(ps)
               new == Fanned(ps)
    <3>1. /\ \A e \in ps : sock[e.at] = "open" => new[e.at] = told
          /\ \A r \in Room \ {q} : \A e \in peers[r] : new[e.at] = views[e.at]
      BY <1>2, FannedReaches
    <3>2. new \in [Conn -> {new[d] : d \in Conn}]
      BY DEF Fanned
    <3>3. \A r \in Room : \A e \in peers[r] : e.at \in Conn /\ helloRoom[e.at] = r
      BY DEF SigTyped, EntriesHold, EntryOf
    <3> HIDE DEF new, told
    <3>4. views' = [new EXCEPT ![c] = told]
      BY <1>1 DEF new, told
    <3> QED
      BY <3>1, <3>2, <3>3, <3>4, <1>2 DEF told
  <2>2. \A d \in Conn \ {c} : hello'[d] = hello[d]
    BY <1>1 DEF SigTyped
  <2>3. ASSUME NEW r \in Room \ {q} PROVE Told(r)'
    <3>1. Told(r)
      BY DEF ViewsCurrent, Told
    <3> QED
      BY <1>1, <2>1, <2>2, <3>1 DEF Told
  <2>4. ASSUME NEW r \in Room, r = q PROVE Told(r)'
    BY <1>1, <2>1, <2>4 DEF Told
  <2>5. \A r \in Room : Told(r)'
    BY <2>3, <2>4
  <2> QED
    BY <2>5 DEF ViewsCurrent, Told
<1> QED
  BY <1>4, <1>5, <1>6, <1>7, <1>8

\* A rename that is stored is told to the room it was made in.
LEMMA RenameStoredKeeps ==
    ASSUME SigInv, NEW w \in writes, RenameStored(w)
    PROVE  SigInv'
<1> USE SigAssumption DEF SigInv
<1>1. /\ writes' = writes \ {w} /\ views' = Fanned(peers[w.room]) /\ w.room \in Room
      /\ rows' = {IF x.peer = w.peer THEN [x EXCEPT !.label = w.label] ELSE x : x \in rows}
      /\ UNCHANGED <<sock, hello, helloRoom, conn, storing, rooms, liveRoom, roomIs,
                     peers, devices, take, unsaved, epochs, nextPeer, events, erase>>
  BY DEF RenameStored, SigTyped
<1>2. SigTyped'
  <2>1. rows' \subseteq [peer : 1..(nextPeer - 1), dev : Device \cup {NoDevice}, label : Labels]
    <3>1. w.label \in Labels
      BY DEF SigTyped
    <3> DEFINE R == [peer : 1..(nextPeer - 1), dev : Device \cup {NoDevice}, label : Labels]
    <3>2. \A x \in R : [x EXCEPT !.label = w.label] \in R
      BY <3>1
    <3>3. rows \subseteq R
      BY DEF SigTyped
    <3> HIDE DEF R
    <3>4. rows' \subseteq R
      BY <1>1, <3>2, <3>3
    <3> QED
      BY <1>1, <3>4 DEF R
  <2> QED
    BY <1>1, <2>1 DEF SigTyped
<1>3. RoomsInOrder' /\ StagesHold' /\ EntriesHold' /\ EpochsApart' /\ UniquePeers'
      /\ OwnPeerOnly' /\ LabelsAgree'
  BY <1>1 DEF RoomsInOrder, StagesHold, EntriesHold, EpochsApart, UniquePeers, OwnPeerOnly,
     LabelsAgree
<1>4. ViewsCurrent'
  <2>1. ASSUME NEW r \in Room PROVE Told(r)'
    <3>1. CASE r = w.room
      BY <1>1, <3>1, FannedReaches DEF Told
    <3>2. CASE r # w.room
      <4>1. Told(r)
        BY DEF ViewsCurrent, Told
      <4>2. \A e \in peers[r] : views'[e.at] = views[e.at]
        BY <1>1, <3>2, FannedReaches
      <4> QED
        BY <1>1, <3>2, <4>1, <4>2 DEF Told
    <3> QED
      BY <3>1, <3>2
  <2> QED
    BY <2>1 DEF ViewsCurrent, Told
<1> QED
  BY <1>2, <1>3, <1>4

\* A rename gives the peer its name in every entry and in every identity of the room.
LEMMA RenameKeeps ==
    ASSUME SigInv, NEW c \in Conn, NEW p \in 1..(nextPeer - 1), Rename(c, p)
    PROVE  SigInv'
<1> USE SigAssumption DEF SigInv
<1> DEFINE name(e) == IF e.peer = p THEN [e EXCEPT !.label = "named"] ELSE e
           ids == Relabelled(devices[rooms], p, "named")
           w == [peer |-> p, label |-> "named", room |-> rooms]
<1>1. /\ rooms \in Room
      /\ peers' = [peers EXCEPT ![rooms] = {name(e) : e \in @}]
      /\ devices' = [devices EXCEPT ![rooms] = ids]
      /\ writes' = writes \cup {w}
      /\ UNCHANGED <<sock, hello, helloRoom, conn, storing, rooms, liveRoom, roomIs,
                     take, rows, views, unsaved, epochs, nextPeer, erase>>
  BY DEF Rename, From, SigTyped, Room
<1>2. \A e \in EntryOf(nextPeer, epochs) :
         /\ name(e) \in EntryOf(nextPeer, epochs)
         /\ name(e).peer = e.peer /\ name(e).at = e.at /\ name(e).epoch = e.epoch
         /\ name(e).label = IF e.peer = p THEN "named" ELSE e.label
  BY DEF EntryOf, Labels
<1>3. ids \in [Device -> Identity(nextPeer)]
      /\ \A d \in Device : /\ ids[d].peer = devices[rooms][d].peer
                           /\ ids[d].label = IF ids[d].peer = p THEN "named"
                                             ELSE devices[rooms][d].label
  <2>1. devices[rooms] \in [Device -> Identity(nextPeer)]
    BY <1>1 DEF SigTyped
  <2> QED
    BY <2>1 DEF Relabelled, Identity, Labels
<1>4. w \in [peer : 1..(nextPeer - 1), label : Labels, room : Room] /\ w.room = rooms
  BY <1>1 DEF Labels
<1>5. \A r \in Room : peers[r] \subseteq EntryOf(nextPeer, epochs)
  BY DEF SigTyped
<1> HIDE DEF name, ids, w
<1>6. SigTyped'
  <2>1. {name(e) : e \in peers[rooms]} \subseteq EntryOf(nextPeer, epochs)
    BY <1>1, <1>2, <1>5
  <2>2. peers' \in [Room -> SUBSET EntryOf(nextPeer, epochs)]
    BY <1>1, <2>1 DEF SigTyped
  <2>3. devices' \in [Room -> [Device -> Identity(nextPeer)]]
    BY <1>1, <1>3 DEF SigTyped
  <2>4. writes' \subseteq [peer : 1..(nextPeer - 1), label : Labels, room : Room]
    BY <1>1, <1>4 DEF SigTyped
  <2> QED
    BY <1>1, <2>2, <2>3, <2>4 DEF SigTyped
<1>7. \A r \in Room : /\ r # rooms => peers'[r] = peers[r] /\ devices'[r] = devices[r]
                      /\ r = rooms => /\ peers'[r] = {name(e) : e \in peers[r]}
                                      /\ devices'[r] = ids
  BY <1>1 DEF SigTyped
<1>8. \A r \in Room : \A f \in peers'[r] : \E e \in peers[r] :
        /\ f.peer = e.peer /\ f.at = e.at /\ f.epoch = e.epoch
        /\ f = IF r = rooms THEN name(e) ELSE e
  BY <1>2, <1>5, <1>7
<1>9. RoomsInOrder' /\ StagesHold' /\ EpochsApart'
  BY <1>1 DEF RoomsInOrder, StagesHold, EpochsApart
<1>10. EntriesHold'
  BY <1>1, <1>8 DEF EntriesHold
<1>11. UniquePeers'
  BY <1>8 DEF UniquePeers
<1>12. OwnPeerOnly'
  <2>1. \A r \in Room : \A e \in peers[r] : \E f \in peers'[r] :
          f.peer = e.peer /\ f.at = e.at /\ f.epoch = e.epoch
    BY <1>2, <1>5, <1>7
  <2>2. \A d \in Conn : (hello[d] \in {"store", "in"} /\ sock[d] = "open") => helloRoom[d] \in Room
    BY DEF StagesHold
  <2> QED
    BY <1>1, <2>1, <2>2 DEF OwnPeerOnly
<1>13. LabelsAgree'
  <2>1. ASSUME NEW r \in Room, NEW f \in peers'[r], DeviceOf[f.at] # NoDevice
        PROVE  /\ devices'[r][DeviceOf[f.at]].peer = f.peer
               /\ devices'[r][DeviceOf[f.at]].label = f.label
    <3>1. PICK e \in peers[r] : /\ f.peer = e.peer /\ f.at = e.at
                                /\ f = IF r = rooms THEN name(e) ELSE e
      BY <1>8
    <3>2. /\ e \in EntryOf(nextPeer, epochs) /\ DeviceOf[e.at] \in Device
          /\ devices[r][DeviceOf[e.at]].peer = e.peer
          /\ devices[r][DeviceOf[e.at]].label = e.label
      BY <1>5, <2>1, <3>1 DEF LabelsAgree, EntryOf
    <3> QED
      BY <1>2, <1>3, <1>7, <3>1, <3>2
  <2> QED
    BY <2>1 DEF LabelsAgree
<1>14. ViewsCurrent'
  <2>1. ASSUME NEW r \in Room PROVE Told(r)'
    <3>1. CASE r = rooms
      BY <1>1, <1>4, <3>1 DEF Told
    <3>2. CASE r # rooms
      <4>1. Told(r)
        BY DEF ViewsCurrent, Told
      <4> QED
        BY <1>1, <1>7, <3>2, <4>1 DEF Told
    <3> QED
      BY <3>1, <3>2
  <2> QED
    BY <2>1 DEF ViewsCurrent, Told
<1> QED
  BY <1>6, <1>9, <1>10, <1>11, <1>12, <1>13, <1>14

\* A socket that leaves takes only the entry of its own generation with it.
LEMMA LeaveKeeps ==
    ASSUME SigInv, NEW c \in Conn, rooms \in Room, leave(c, rooms),
           UNCHANGED <<hello, helloRoom, storing, rooms, liveRoom, roomIs, devices,
                       rows, writes, unsaved, epochs, nextPeer, erase>>,
           sock' \in [Conn -> {"idle", "open", "closing", "closed"}],
           \A d \in Conn : /\ sock'[d] = "idle" => sock[d] = "idle"
                           /\ sock'[d] = "open" => sock[d] = "open"
    PROVE  SigInv'
<1> USE SigAssumption DEF SigInv
<1> DEFINE own == Owned(c, rooms)
           left == peers[rooms] \ own
<1>1. /\ peers' = [peers EXCEPT ![rooms] = left]
      /\ views' = IF own = {} THEN views ELSE Fanned(left)
      /\ conn' = [conn EXCEPT ![c] = NoConn]
  BY DEF leave
<1>2. \A e \in peers[rooms] : e \notin left => e.epoch = conn[c].epoch
  BY DEF Owned
<1> HIDE DEF own, left
<1>3. left \subseteq peers[rooms] /\ (own = {} => left = peers[rooms])
  BY DEF left
<1>4. \A r \in Room : /\ r # rooms => peers'[r] = peers[r]
                      /\ r = rooms => peers'[r] = left
                      /\ peers'[r] \subseteq peers[r]
  BY <1>1, <1>3 DEF SigTyped
<1>5. /\ conn' \in [Conn -> [peer : Nat, epoch : 0..epochs]]
      /\ conn'[c] = NoConn /\ \A d \in Conn \ {c} : conn'[d] = conn[d]
  <2>1. NoConn \in [peer : Nat, epoch : 0..epochs]
    BY DEF NoConn, SigTyped
  <2> QED
    BY <1>1, <2>1 DEF SigTyped
<1>6. SigTyped'
  <2>1. peers' \in [Room -> SUBSET EntryOf(nextPeer, epochs)]
    BY <1>1, <1>3 DEF SigTyped
  <2> QED
    BY <1>5, <2>1 DEF SigTyped
<1>7. RoomsInOrder' /\ StagesHold'
  BY DEF RoomsInOrder, StagesHold
<1>8. EntriesHold' /\ UniquePeers' /\ LabelsAgree'
  BY <1>4 DEF EntriesHold, UniquePeers, LabelsAgree
<1>9. EpochsApart'
  BY <1>5 DEF EpochsApart, NoConn
<1>10. OwnPeerOnly'
  <2>1. ASSUME NEW d \in Conn, hello[d] \in {"store", "in"}, sock'[d] = "open", conn'[d].peer # 0
        PROVE  \E e \in peers'[helloRoom[d]] :
                  e.at = d /\ e.peer = conn'[d].peer /\ e.epoch = conn'[d].epoch
    <3>1. d # c /\ conn'[d] = conn[d]
      BY <1>5, <2>1 DEF NoConn
    <3>2. PICK e \in peers[helloRoom[d]] :
            e.at = d /\ e.peer = conn[d].peer /\ e.epoch = conn[d].epoch
      BY <2>1, <3>1 DEF OwnPeerOnly
    <3>3. helloRoom[d] \in Room
      BY <2>1 DEF StagesHold
    <3>4. e.epoch # 0
      BY <3>2, <3>3 DEF SigTyped, EntryOf
    <3>5. e.epoch # conn[c].epoch
      BY <3>1, <3>2, <3>4 DEF EpochsApart
    <3>6. e \in peers'[helloRoom[d]]
      BY <1>2, <1>4, <3>2, <3>3, <3>5
    <3> QED
      BY <3>1, <3>2, <3>6
  <2> QED
    BY <2>1 DEF OwnPeerOnly
<1>11. ViewsCurrent'
  <2>1. ASSUME NEW r \in Room PROVE Told(r)'
    <3>1. Told(r)
      BY DEF ViewsCurrent, Told
    <3>2. CASE own = {}
      <4>1. peers'[r] = peers[r] /\ views' = views
        BY <1>1, <1>3, <1>4, <3>2
      <4>2. \A e \in peers[r] : e.at \in Conn
        BY DEF SigTyped, EntryOf
      <4> QED
        BY <3>1, <4>1, <4>2 DEF Told
    <3>3. CASE own # {} /\ r = rooms
      <4>1. \A e \in left : sock[e.at] = "open" => views'[e.at] = sessionState(left)
        BY <1>1, <1>3, <3>3, FannedReaches
      <4>2. \A e \in left : e.at \in Conn
        BY <1>3 DEF SigTyped, EntryOf
      <4> QED
        BY <1>4, <3>3, <4>1, <4>2 DEF Told
    <3>4. CASE own # {} /\ r # rooms
      <4>1. \A e \in peers[r] : views'[e.at] = views[e.at]
        BY <1>1, <1>3, <3>4, FannedReaches
      <4>2. \A e \in peers[r] : e.at \in Conn
        BY DEF SigTyped, EntryOf
      <4> QED
        BY <1>4, <3>1, <3>4, <4>1, <4>2 DEF Told
    <3> QED
      BY <3>2, <3>3, <3>4
  <2> QED
    BY <2>1 DEF ViewsCurrent, Told
<1> QED
  BY <1>6, <1>7, <1>8, <1>9, <1>10, <1>11

\* A socket that closes, or says goodbye, leaves the room that the map names.
LEMMA ClosesKeeps ==
    ASSUME SigInv, NEW c \in Conn, SocketCloses(c) \/ Bye(c)
    PROVE  SigInv'
<1> USE SigAssumption DEF SigInv
<1>1. /\ UNCHANGED <<hello, helloRoom, storing, rooms, liveRoom, roomIs, devices,
                     rows, writes, unsaved, epochs, nextPeer, erase>>
      /\ (leave(c, rooms) /\ rooms # 0) \/ UNCHANGED <<peers, views, conn>>
  BY DEF SocketCloses, Bye, From
<1>2. /\ sock' \in [Conn -> {"idle", "open", "closing", "closed"}]
      /\ \A d \in Conn : /\ sock'[d] = "idle" => sock[d] = "idle"
                         /\ sock'[d] = "open" => sock[d] = "open"
  BY DEF SocketCloses, Bye, SigTyped
<1>3. CASE leave(c, rooms) /\ rooms # 0
  <2>1. rooms \in Room
    BY <1>3 DEF SigTyped, Room
  <2> QED
    BY <1>1, <1>2, <1>3, <2>1, LeaveKeeps
<1>4. CASE UNCHANGED <<peers, views, conn>>
  <2>1. SigTyped'
    BY <1>1, <1>2, <1>4 DEF SigTyped
  <2>2. RoomsInOrder' /\ StagesHold' /\ EntriesHold' /\ EpochsApart' /\ UniquePeers' /\ LabelsAgree'
    BY <1>1, <1>2, <1>4 DEF RoomsInOrder, StagesHold, EntriesHold, EpochsApart, UniquePeers, LabelsAgree
  <2>3. OwnPeerOnly'
    BY <1>1, <1>2, <1>4 DEF OwnPeerOnly
  <2>4. \A r \in Room : \A e \in peers[r] : e.at \in Conn
    BY DEF SigTyped, EntryOf
  <2>5. ViewsCurrent'
    BY <1>1, <1>2, <1>4, <2>4 DEF ViewsCurrent, sessionState
  <2> QED
    BY <2>1, <2>2, <2>3, <2>5
<1> QED
  BY <1>1, <1>3, <1>4

\* The room that a deletion was waiting for is emptied, its sockets with it.
LEMMA SessionClosedKeeps ==
    ASSUME SigInv, SessionClosed
    PROVE  SigInv'
<1> USE SigAssumption DEF SigInv
<1> DEFINE q == erase.room
           S == {e.at : e \in peers[q]}
<1>1. /\ UNCHANGED <<hello, helloRoom, conn, storing, rooms, liveRoom, roomIs, devices,
                     take, rows, writes, views, unsaved, epochs, nextPeer, events>>
      /\ erase' = [erase EXCEPT !.at = "rows"]
      /\ \/ UNCHANGED <<sock, peers>>
         \/ q \in Room /\ sock' = ServerCloses(S) /\ peers' = [peers EXCEPT ![q] = {}]
  BY DEF SessionClosed, SigTyped, Room
<1>2. /\ sock' \in [Conn -> {"idle", "open", "closing", "closed"}]
      /\ \A d \in Conn : /\ sock'[d] = "idle" => sock[d] = "idle"
                         /\ sock'[d] = "open" => sock[d] = "open"
  BY <1>1, ClosesOnly DEF SigTyped
<1>3. /\ peers' \in [Room -> SUBSET EntryOf(nextPeer, epochs)]
      /\ \A r \in Room : peers'[r] = peers[r] \/ peers'[r] = {}
      /\ \A r \in Room : peers'[r] = peers[r] \/ \A e \in peers[r] : sock'[e.at] # "open"
  <2>1. CASE UNCHANGED <<sock, peers>>
    BY <2>1 DEF SigTyped
  <2>2. CASE q \in Room /\ sock' = ServerCloses(S) /\ peers' = [peers EXCEPT ![q] = {}]
    <3>1. \A d \in Conn : d \in S => sock'[d] # "open"
      BY <2>2, ClosesOnly
    <3>2. \A e \in peers[q] : e.at \in Conn /\ e.at \in S
      BY <2>2 DEF SigTyped, EntryOf
    <3> HIDE DEF S
    <3>3. \A r \in Room : r # q => peers'[r] = peers[r]
      BY <2>2 DEF SigTyped
    <3>4. peers'[q] = {}
      BY <2>2 DEF SigTyped
    <3>5. peers' \in [Room -> SUBSET EntryOf(nextPeer, epochs)]
      BY <2>2 DEF SigTyped
    <3> QED
      BY <3>1, <3>2, <3>3, <3>4, <3>5
  <2> QED
    BY <1>1, <2>1, <2>2
<1>4. SigTyped'
  <2>1. erase' \in [at : {"no", "closing", "rows", "done"}, room : 0..MaxRooms]
    BY <1>1 DEF SigTyped
  <2> QED
    BY <1>1, <1>2, <1>3, <2>1 DEF SigTyped
<1>5. RoomsInOrder' /\ EpochsApart'
  BY <1>1 DEF RoomsInOrder, EpochsApart
<1>6. StagesHold'
  BY <1>1, <1>2 DEF StagesHold
<1>7. EntriesHold' /\ UniquePeers' /\ LabelsAgree'
  BY <1>1, <1>3 DEF EntriesHold, UniquePeers, LabelsAgree
<1>8. OwnPeerOnly'
  <2>1. \A d \in Conn : (hello[d] \in {"store", "in"} /\ sock[d] = "open") => helloRoom[d] \in Room
    BY DEF StagesHold
  <2> QED
    BY <1>1, <1>2, <1>3, <2>1 DEF OwnPeerOnly
<1>9. ViewsCurrent'
  <2>1. ASSUME NEW r \in Room PROVE Told(r)'
    <3>1. Told(r)
      BY DEF ViewsCurrent, Told
    <3>2. \A e \in peers[r] : e.at \in Conn
      BY DEF SigTyped, EntryOf
    <3> QED
      BY <1>1, <1>2, <1>3, <3>1, <3>2 DEF Told
  <2> QED
    BY <2>1 DEF ViewsCurrent, Told
<1> QED
  BY <1>4, <1>5, <1>6, <1>7, <1>8, <1>9

\* When the process ends every room is gone, and no socket is left to be told anything.
LEMMA MemoryLostKeeps ==
    ASSUME SigInv, MemoryLost
    PROVE  SigInv'
<1> USE SigAssumption DEF SigInv, MemoryLost
<1>1. SigTyped'
  <2>1. NoIdentity \in Identity(nextPeer)
    BY NobodyIsIdentity DEF SigTyped
  <2>2. NoConn \in [peer : Nat, epoch : 0..epochs']
    BY DEF NoConn
  <2>3. peers' \in [Room -> SUBSET EntryOf(nextPeer', epochs')]
    BY DEF SigTyped
  <2>4. erase' \in [at : {"no", "closing", "rows", "done"}, room : 0..MaxRooms]
    BY DEF SigTyped
  <2>5. hello' \in [Conn -> Stages]
    BY DEF SigTyped, Stages
  <2> QED
    BY <2>1, <2>2, <2>3, <2>4, <2>5 DEF SigTyped, RoomStates
<1>2. RoomsInOrder'
  <2>1. \A r \in Room : roomIs'[r] # "none" <=> r <= 0
    BY DEF Room
  <2> QED
    BY <2>1 DEF RoomsInOrder
<1>3. StagesHold'
  BY DEF StagesHold, SigTyped, Waiting
<1>4. EntriesHold' /\ UniquePeers' /\ LabelsAgree' /\ ViewsCurrent'
  BY DEF EntriesHold, UniquePeers, LabelsAgree, ViewsCurrent
<1>5. EpochsApart' /\ OwnPeerOnly'
  BY DEF EpochsApart, OwnPeerOnly, NoConn
<1> QED
  BY <1>1, <1>2, <1>3, <1>4, <1>5

\* A take, a sweep and the beginning and the end of a deletion touch no entry.
LEMMA OthersKeep ==
    ASSUME SigInv, (\E c \in Conn : TakeStartsOrStops(c)) \/ pruneIdleRooms \/ closeSession
                   \/ RowsErased \/ UNCHANGED sigVars
    PROVE  SigInv'
<1> USE SigAssumption DEF SigInv
<1>1. /\ UNCHANGED <<sock, hello, helloRoom, conn, storing, roomIs, peers, devices,
                     writes, views, unsaved, epochs, nextPeer>>
      /\ rows' \in {rows, {}} /\ rooms' \in {rooms, 0} /\ liveRoom' \in {liveRoom, 0}
      /\ erase' \in [at : {"no", "closing", "rows", "done"}, room : 0..MaxRooms]
  BY DEF TakeStartsOrStops, pruneIdleRooms, closeSession, RowsErased, sigVars, SigTyped
<1>2. SigTyped'
  BY <1>1 DEF SigTyped
<1>3. RoomsInOrder' /\ StagesHold' /\ EntriesHold' /\ EpochsApart' /\ UniquePeers'
      /\ OwnPeerOnly' /\ LabelsAgree' /\ ViewsCurrent'
  BY <1>1 DEF RoomsInOrder, StagesHold, EntriesHold, EpochsApart, UniquePeers, OwnPeerOnly,
     LabelsAgree, ViewsCurrent
<1> QED
  BY <1>2, <1>3

\* The hello that joins is the newest generation, and the socket it replaces is closed.
LEMMA HelloJoinsKeeps ==
    ASSUME SigInv, NEW c \in Conn, HelloJoins(c)
    PROVE  SigInv'
<1> USE SigAssumption DEF SigInv
<1> DEFINE q == helloRoom[c]
           known == Known(c, q)
           peer == IF known.peer # 0 THEN known.peer ELSE nextPeer
           entry == [peer |-> peer, at |-> c, epoch |-> nextEpoch, label |-> known.label]
           Z == zombie(q, peer)
           kept == peers[q] \ Z
           mine == [peer |-> peer, label |-> known.label]
           gen == [peer |-> peer, epoch |-> nextEpoch]
<1>1. /\ hello[c] = "session" /\ hello' = [hello EXCEPT ![c] = "store"]
      /\ sock' = ServerCloses({z.at : z \in Z})
      /\ peers' = [peers EXCEPT ![q] = kept \cup {entry}]
      /\ devices' = IF DeviceOf[c] = NoDevice THEN devices
                    ELSE [devices EXCEPT ![q][DeviceOf[c]] = mine]
      /\ conn' = [conn EXCEPT ![c] = gen]
      /\ storing' = [storing EXCEPT ![c] = mine]
      /\ epochs' = epochs + 1
      /\ nextPeer' = IF known.peer # 0 THEN nextPeer ELSE nextPeer + 1
      /\ UNCHANGED <<helloRoom, rooms, liveRoom, roomIs, take, rows, writes, views,
                     unsaved, events, erase>>
  BY DEF HelloJoins
<1>2. q \in Room /\ roomIs[q] = "live"
  BY <1>1 DEF StagesHold
<1>3. known \in Identity(nextPeer)
      /\ (DeviceOf[c] # NoDevice => DeviceOf[c] \in Device /\ known = devices[q][DeviceOf[c]])
  BY <1>2, NobodyIsIdentity DEF Known, SigTyped
<1>4. epochs \in Nat /\ epochs' \in Nat /\ epochs <= epochs' /\ nextPeer \in Nat \ {0}
      /\ nextPeer' \in Nat \ {0} /\ nextPeer <= nextPeer' /\ nextEpoch = epochs + 1
  BY <1>1 DEF SigTyped, nextEpoch
<1>5. peer \in 1..(nextPeer' - 1) /\ known.label \in Labels /\ peer # 0
  <2>1. known.peer \in 0..(nextPeer - 1) /\ known.label \in Labels
    BY <1>3 DEF Identity
  <2> HIDE DEF known
  <2> QED
    BY <1>1, <1>4, <2>1
<1>6. /\ entry \in EntryOf(nextPeer', epochs') /\ mine \in Identity(nextPeer')
      /\ gen \in [peer : Nat, epoch : 0..epochs']
      /\ entry.peer = peer /\ entry.at = c /\ entry.epoch = epochs + 1 /\ entry.label = known.label
      /\ mine.peer = peer /\ mine.label = known.label
      /\ gen.peer = peer /\ gen.epoch = epochs + 1
  <2> HIDE DEF peer, known
  <2> QED
    BY <1>1, <1>4, <1>5 DEF EntryOf, Identity
<1>7. Identity(nextPeer) \subseteq Identity(nextPeer')
      /\ EntryOf(nextPeer, epochs) \subseteq EntryOf(nextPeer', epochs')
  BY <1>4, CountersGrow
<1>8. /\ kept \subseteq peers[q] /\ \A e \in kept : e.peer # peer
      /\ \A e \in peers[q] : e \notin kept => e \in Z
  BY DEF zombie, Entry
<1>9. /\ sock' \in [Conn -> {"idle", "open", "closing", "closed"}]
      /\ \A d \in Conn : /\ sock'[d] = "idle" => sock[d] = "idle"
                         /\ sock'[d] = "open" => sock[d] = "open"
      /\ \A e \in Z : e.at \in Conn => sock'[e.at] # "open"
  <2> DEFINE S == {z.at : z \in Z}
  <2>1. \A e \in Z : e.at \in S
    OBVIOUS
  <2> HIDE DEF S, Z
  <2> QED
    BY <1>1, <2>1, ClosesOnly DEF S
<1>10. \A r \in Room : \A e \in peers[r] :
         e \in EntryOf(nextPeer, epochs) /\ e.at \in Conn \ {c} /\ e.peer # 0
  <2>1. \A r \in Room : peers[r] \subseteq EntryOf(nextPeer, epochs)
    BY DEF SigTyped
  <2>2. \A e \in EntryOf(nextPeer, epochs) : e.at \in Conn /\ e.peer # 0
    BY <1>4 DEF EntryOf
  <2>3. \A r \in Room : \A e \in peers[r] : e.at # c
    BY <1>1 DEF EntriesHold
  <2> QED
    BY <2>1, <2>2, <2>3
<1>11. known.peer = 0 /\ DeviceOf[c] # NoDevice => devices[q][DeviceOf[c]].peer = 0
  BY <1>3
<1>12. known.peer # 0 /\ DeviceOf[c] # NoDevice => devices[q][DeviceOf[c]].peer = peer
  BY <1>3
<1> HIDE DEF entry, mine, gen, kept, Z, peer, known
<1>13. /\ conn'[c] = gen /\ \A d \in Conn \ {c} : conn'[d] = conn[d]
       /\ hello'[c] = "store" /\ \A d \in Conn \ {c} : hello'[d] = hello[d]
       /\ \A r \in Room : /\ r # q => peers'[r] = peers[r] /\ devices'[r] = devices[r]
                          /\ r = q => peers'[r] = kept \cup {entry}
       /\ storing'[c] = mine /\ \A d \in Conn \ {c} : storing'[d] = storing[d]
  BY <1>1 DEF SigTyped
<1>14. /\ DeviceOf[c] # NoDevice => devices'[q][DeviceOf[c]] = mine
       /\ \A d \in Device : d # DeviceOf[c] => devices'[q][d] = devices[q][d]
       /\ devices' \in [Room -> [Device -> Identity(nextPeer')]]
  <2>1. CASE DeviceOf[c] = NoDevice
    BY <1>1, <1>7, <2>1 DEF SigTyped
  <2>2. CASE DeviceOf[c] # NoDevice
    BY <1>1, <1>2, <1>3, <1>6, <1>7, <2>2 DEF SigTyped
  <2> QED
    BY <2>1, <2>2
<1>15. SigTyped'
  <2>1. peers' \in [Room -> SUBSET EntryOf(nextPeer', epochs')]
    BY <1>1, <1>2, <1>6, <1>7, <1>8 DEF SigTyped
  <2>2. storing' \in [Conn -> Identity(nextPeer')]
    BY <1>1, <1>6, <1>7 DEF SigTyped
  <2>3. conn' \in [Conn -> [peer : Nat, epoch : 0..epochs']]
    <3>1. [peer : Nat, epoch : 0..epochs] \subseteq [peer : Nat, epoch : 0..epochs']
      BY <1>4
    <3> QED
      BY <1>1, <1>6, <3>1 DEF SigTyped
  <2>4. 1..(nextPeer - 1) \subseteq 1..(nextPeer' - 1)
    BY <1>4, CountersGrow
  <2>5. rows' \subseteq [peer : 1..(nextPeer' - 1), dev : Device \cup {NoDevice}, label : Labels]
        /\ writes' \subseteq [peer : 1..(nextPeer' - 1), label : Labels, room : Room]
    BY <1>1, <2>4 DEF SigTyped
  <2>6. hello' \in [Conn -> Stages]
    BY <1>1 DEF SigTyped, Stages
  <2> QED
    BY <1>1, <1>4, <1>9, <1>14, <2>1, <2>2, <2>3, <2>5, <2>6 DEF SigTyped
<1>16. RoomsInOrder' /\ StagesHold'
  BY <1>1, <1>2, <1>5, <1>6, <1>9, <1>13 DEF RoomsInOrder, StagesHold
<1>17. EntriesHold'
  BY <1>1, <1>2, <1>6, <1>8, <1>10, <1>13 DEF EntriesHold
<1>18. EpochsApart'
  <2>1. \A d \in Conn : conn[d].epoch \in 0..epochs
    BY DEF SigTyped
  <2> QED
    BY <1>4, <1>6, <1>13, <2>1 DEF EpochsApart
<1>19. UniquePeers'
  BY <1>6, <1>8, <1>13 DEF UniquePeers
<1>20. OwnPeerOnly'
  <2>1. ASSUME NEW d \in Conn, hello'[d] \in {"store", "in"}, sock'[d] = "open", conn'[d].peer # 0
        PROVE  \E e \in peers'[helloRoom'[d]] :
                  e.at = d /\ e.peer = conn'[d].peer /\ e.epoch = conn'[d].epoch
    <3>1. CASE d = c
      BY <1>1, <1>2, <1>6, <1>13, <3>1
    <3>2. CASE d # c
      <4>1. hello[d] \in {"store", "in"} /\ sock[d] = "open" /\ conn'[d] = conn[d]
        BY <1>9, <1>13, <2>1, <3>2
      <4>2. PICK e \in peers[helloRoom[d]] :
              e.at = d /\ e.peer = conn[d].peer /\ e.epoch = conn[d].epoch
        BY <2>1, <4>1 DEF OwnPeerOnly
      <4>3. helloRoom[d] \in Room /\ helloRoom'[d] = helloRoom[d]
        BY <1>1, <4>1 DEF StagesHold
      <4>4. e \in peers'[helloRoom[d]]
        BY <1>8, <1>9, <1>13, <2>1, <4>2, <4>3
      <4> QED
        BY <4>1, <4>2, <4>3, <4>4
    <3> QED
      BY <3>1, <3>2
  <2> QED
    BY <2>1 DEF OwnPeerOnly
<1>21. LabelsAgree'
  <2>1. ASSUME NEW r \in Room, NEW e \in peers'[r], DeviceOf[e.at] # NoDevice
        PROVE  /\ devices'[r][DeviceOf[e.at]].peer = e.peer
               /\ devices'[r][DeviceOf[e.at]].label = e.label
    <3>1. CASE e \in peers[r] /\ (r = q => e \in kept)
      <4>1. /\ devices[r][DeviceOf[e.at]].peer = e.peer
            /\ devices[r][DeviceOf[e.at]].label = e.label
            /\ DeviceOf[e.at] \in Device
        BY <1>10, <2>1, <3>1 DEF LabelsAgree
      <4>2. r = q => DeviceOf[e.at] # DeviceOf[c]
        BY <1>8, <1>10, <1>11, <1>12, <2>1, <3>1, <4>1
      <4> QED
        BY <1>13, <1>14, <4>1, <4>2
    <3>2. CASE r = q /\ e = entry
      BY <1>6, <1>14, <2>1, <3>2
    <3> QED
      BY <1>8, <1>13, <3>1, <3>2
  <2> QED
    BY <2>1 DEF LabelsAgree
<1>22. ViewsCurrent'
  <2>1. ASSUME NEW r \in Room PROVE Told(r)'
    <3>1. CASE r = q
      BY <1>1, <1>13, <3>1 DEF Told
    <3>2. CASE r # q
      <4>1. Told(r)
        BY DEF ViewsCurrent, Told
      <4>2. \A d \in Conn : helloRoom[d] = r => d # c
        BY <3>2
      <4> QED
        BY <1>1, <1>9, <1>10, <1>13, <3>2, <4>1, <4>2 DEF Told
    <3> QED
      BY <3>1, <3>2
  <2> QED
    BY <2>1 DEF ViewsCurrent, Told
<1> QED
  BY <1>15, <1>16, <1>17, <1>18, <1>19, <1>20, <1>21, <1>22

-----------------------------------------------------------------------------
(* The roster.                                                             *)

\* A room nobody created has nobody in it.
LEMMA SigInvStarts == SigInit => SigInv
<1> SUFFICES ASSUME SigInit PROVE SigInv
  OBVIOUS
<1> USE SigAssumption DEF SigInit
<1>1. SigTyped
  <2>1. NoIdentity \in Identity(nextPeer)
    BY NobodyIsIdentity
  <2>2. NoConn \in [peer : Nat, epoch : 0..epochs]
    BY DEF NoConn
  <2> QED
    BY <2>1, <2>2 DEF SigTyped, Stages, RoomStates
<1>2. RoomsInOrder
  <2>1. \A r \in Room : roomIs[r] # "none" <=> r <= 0
    BY DEF Room
  <2> QED
    BY <2>1 DEF RoomsInOrder
<1>3. StagesHold /\ EntriesHold /\ EpochsApart /\ UniquePeers /\ OwnPeerOnly /\ LabelsAgree
      /\ ViewsCurrent
  BY DEF StagesHold, EntriesHold, EpochsApart, UniquePeers, OwnPeerOnly, LabelsAgree,
     ViewsCurrent, NoConn
<1> QED
  BY <1>1, <1>2, <1>3 DEF SigInv

\* Every step of the server, of a socket, of the sweep or of a delete keeps the invariant.
LEMMA SigInvStep == SigInv /\ [SigNext]_sigVars => SigInv'
<1> SUFFICES ASSUME SigInv, [SigNext]_sigVars PROVE SigInv'
  OBVIOUS
<1>1. CASE \E c \in Conn : HelloArrives(c) \/ HelloAuthorized(c)
  BY <1>1, HelloBeginsKeeps
<1>2. CASE \E c \in Conn : HelloRefused(c) \/ HelloAdmitted(c) \/ HelloThrows(c)
  BY <1>2, HelloEndsKeeps
<1>3. CASE \E c \in Conn : HelloJoins(c)
  BY <1>3, HelloJoinsKeeps
<1>4. CASE \E c \in Conn : HelloStored(c)
  BY <1>4, HelloStoredKeeps
<1>5. CASE \E c \in Conn : SocketCloses(c) \/ Bye(c)
  BY <1>5, ClosesKeeps
<1>6. CASE Restart \/ \E c \in Conn : CloseEndsServer(c)
  BY <1>6, MemoryLostKeeps DEF Restart, CloseEndsServer
<1>7. CASE \E c \in Conn : MessageMakesRoom(c)
  BY <1>7, MessageMakesRoomKeeps
<1>8. CASE \E c \in Conn : \E p \in 1..(nextPeer - 1) : Rename(c, p)
  BY <1>8, RenameKeeps
<1>9. CASE \E w \in writes : RenameStored(w)
  BY <1>9, RenameStoredKeeps
<1>10. CASE \E r \in Room : RoomReady(r) \/ RoomFails(r)
  BY <1>10, RoomSettlesKeeps
<1>11. CASE SessionClosed
  BY <1>11, SessionClosedKeeps
<1>12. CASE (\E c \in Conn : TakeStartsOrStops(c)) \/ pruneIdleRooms \/ closeSession
            \/ RowsErased \/ UNCHANGED sigVars
  BY <1>12, OthersKeep
<1> QED
  BY <1>1, <1>2, <1>3, <1>4, <1>5, <1>6, <1>7, <1>8, <1>9, <1>10, <1>11, <1>12
     DEF SigNext, SigServerStep

\* What a room knows, its sockets' screens and the identities it remembers agree: the
\* entry of an open socket stays until it closes, a device has one entry, its name is
\* the one it will come back with, and everyone in a quiet room was told what the room
\* holds, whatever hellos, closes, renames, prunes, sweeps, deletes and restarts come in
\* between (room.ts, hello.ts, ws.ts).
THEOREM RosterIsSound == SigSpec => []RosterSound
<1>1. SigInv => RosterSound
  <2> SUFFICES ASSUME SigInv PROVE RosterSound
    OBVIOUS
  <2> USE DEF SigInv
  <2>1. SigTypeOK
    <3>1. conn \in [Conn -> [peer : Nat, epoch : Nat]]
      <4>1. [peer : Nat, epoch : 0..epochs] \subseteq [peer : Nat, epoch : Nat]
        BY DEF SigTyped
      <4> QED
        BY <4>1 DEF SigTyped
    <3>2. \A e \in EntryOf(nextPeer, epochs) :
            e.peer \in 1..(nextPeer - 1) /\ e.epoch \in 1..epochs /\ e.at \in Conn
      BY DEF EntryOf
    <3>3. \A r \in Room : peers[r] \subseteq EntryOf(nextPeer, epochs)
      BY DEF SigTyped
    <3> QED
      BY <3>1, <3>2, <3>3 DEF SigTyped, SigTypeOK, Labels
  <2>2. OneLanePerDevice
    <3>1. \A r \in Room : \A e \in peers[r] : e.at \in Conn
      BY DEF SigTyped, EntryOf
    <3> QED
      BY <3>1 DEF LabelsAgree, UniquePeers, OneLanePerDevice
  <2> QED
    BY <2>1, <2>2 DEF RosterSound
<1> QED
  BY <1>1, SigInvStarts, SigInvStep, PTL DEF SigSpec

-----------------------------------------------------------------------------
(* The peer a device comes back as.                                        *)

\* A hello under way is in the room the map names.
HelloInRoom ==
    \A c \in Conn : hello[c] \in {"room", "session", "store"} => helloRoom[c] = rooms

\* A peer is one device's for good, in the rows, in every room and on its way there.
Owns(own) ==
    /\ \A x \in rows : own[x.peer] = x.dev
    /\ \A r \in Room : \A d \in Device :
          devices[r][d].peer # 0 => own[devices[r][d].peer] = d
    /\ \A c \in Conn : hello[c] = "store" => own[storing[c].peer] = DeviceOf[c]

PeersOwned == \E own \in [1..(nextPeer - 1) -> Device \cup {NoDevice}] : Owns(own)

\* What a hello stores is what its room remembers.
StoresWhatItKnows ==
    \A c \in Conn : (hello[c] = "store" /\ DeviceOf[c] # NoDevice) =>
        devices[helloRoom[c]][DeviceOf[c]].peer = storing[c].peer

\* The room the map names remembers a stored peer of every device that has one.
RowsRemembered ==
    (rooms # 0 /\ roomIs[rooms] = "live") =>
        \A d \in Device : (\E x \in rows : x.dev = d) =>
            \E x \in rows : x.dev = d /\ x.peer = devices[rooms][d].peer

MemoryInv == HelloInRoom /\ PeersOwned /\ StoresWhatItKnows /\ RowsRemembered

\* Steps that touch neither a device, a row nor the map keep what is remembered.
LEMMA NothingForgotten ==
    ASSUME MemoryInv,
           UNCHANGED <<rooms, devices, rows, nextPeer>>,
           \A c \in Conn : /\ hello'[c] \in {"room", "session", "store"} => hello[c] \in {"room", "session", "store"}
                           /\ hello'[c] = "store" => hello[c] = "store"
                           /\ hello[c] \in {"room", "session", "store"} => helloRoom'[c] = helloRoom[c]
                           /\ hello[c] = "store" => storing'[c] = storing[c],
           \A r \in Room : roomIs'[r] = "live" => roomIs[r] = "live",
           rooms # 0 => rooms \in Room
    PROVE  MemoryInv'
<1> USE DEF MemoryInv
<1>1. HelloInRoom'
  BY DEF HelloInRoom
<1>2. PeersOwned'
  <2>1. ASSUME NEW own, Owns(own) PROVE Owns(own)'
    BY <2>1 DEF Owns
  <2> QED
    BY <2>1 DEF PeersOwned
<1>3. StoresWhatItKnows'
  BY DEF StoresWhatItKnows
<1>4. RowsRemembered'
  BY DEF RowsRemembered
<1> QED
  BY <1>1, <1>2, <1>3, <1>4

\* A new room is entered only when no hello is in another one, and knows nobody yet.
LEMMA EnterRemembers ==
    ASSUME SigInv, MemoryInv,
           EnterRoom \/ UNCHANGED <<rooms, roomIs>>,
           UNCHANGED <<devices, rows, nextPeer, storing>>,
           \A d \in Conn : \/ hello'[d] = hello[d] /\ helloRoom'[d] = helloRoom[d]
                           \/ hello'[d] = "room" /\ helloRoom'[d] = rooms'
                           \/ hello'[d] \notin {"room", "session", "store"}
    PROVE  MemoryInv'
<1> USE DEF MemoryInv
<1>1. CASE EnterRoom
  <2>1. /\ getRoom \in Room /\ rooms' = getRoom
        /\ \A r \in Room : roomIs'[r] # roomIs[r] => roomIs[r] = "none" /\ roomIs'[r] = "init"
    BY <1>1, EnterRoomKeeps DEF SigInv
  <2>2. rooms # 0 => UNCHANGED <<rooms, roomIs>>
    BY <1>1 DEF EnterRoom, getRoom
  <2>3. rooms = 0 => roomIs'[rooms'] # "live"
    <3>1. rooms = 0 => roomIs' = [roomIs EXCEPT ![getRoom] = "init"]
      BY <1>1 DEF EnterRoom
    <3> QED
      BY <2>1, <3>1 DEF SigInv, SigTyped
  <2>4. rooms = 0 => \A d \in Conn : hello[d] \notin {"room", "session", "store"}
    <3>1. 0 \notin Room
      BY DEF Room
    <3> QED
      BY <3>1 DEF HelloInRoom, SigInv, StagesHold
  <2>5. HelloInRoom'
    BY <2>2, <2>4 DEF HelloInRoom
  <2>6. PeersOwned'
    <3>1. ASSUME NEW own, Owns(own) PROVE Owns(own)'
      BY <3>1 DEF Owns
    <3> QED
      BY <3>1 DEF PeersOwned
  <2>7. StoresWhatItKnows' /\ RowsRemembered'
    BY <2>2, <2>3 DEF StoresWhatItKnows, RowsRemembered
  <2> QED
    BY <2>5, <2>6, <2>7
<1>2. CASE UNCHANGED <<rooms, roomIs>>
  <2>1. HelloInRoom'
    BY <1>2 DEF HelloInRoom
  <2>2. PeersOwned'
    <3>1. ASSUME NEW own, Owns(own) PROVE Owns(own)'
      BY <3>1 DEF Owns
    <3> QED
      BY <3>1 DEF PeersOwned
  <2>3. StoresWhatItKnows' /\ RowsRemembered'
    BY <1>2 DEF StoresWhatItKnows, RowsRemembered
  <2> QED
    BY <2>1, <2>2, <2>3
<1> QED
  BY <1>1, <1>2

\* A room that has loaded remembers a row of every device that has one.
LEMMA RoomReadyRemembers ==
    ASSUME SigInv, MemoryInv, NEW q \in Room, RoomReady(q)
    PROVE  MemoryInv'
<1> USE DEF MemoryInv
<1>1. PICK pick \in [Device -> rows \cup {NoIdentity}] :
        /\ \A d \in Device :
             IF \E x \in rows : x.dev = d THEN pick[d] \in rows /\ pick[d].dev = d
             ELSE pick[d] = NoIdentity
        /\ devices' = [devices EXCEPT ![q] =
             [d \in Device |-> [peer |-> pick[d].peer, label |-> pick[d].label]]]
  BY DEF RoomReady
<1>2. /\ roomIs[q] = "init" /\ roomIs' = [roomIs EXCEPT ![q] = "live"]
      /\ UNCHANGED <<hello, helloRoom, storing, rooms, rows, nextPeer>>
  BY DEF RoomReady
<1>3. /\ \A r \in Room \ {q} : devices'[r] = devices[r] /\ roomIs'[r] = roomIs[r]
      /\ \A d \in Device : devices'[q][d].peer = pick[d].peer
  BY <1>1, <1>2 DEF SigInv, SigTyped
<1>4. \A d \in Device :
        IF \E x \in rows : x.dev = d THEN \E x \in rows : x.dev = d /\ x.peer = devices'[q][d].peer
        ELSE devices'[q][d].peer = 0
  <2> SUFFICES ASSUME NEW d \in Device
               PROVE  /\ (\E x \in rows : x.dev = d) =>
                            \E x \in rows : x.dev = d /\ x.peer = devices'[q][d].peer
                      /\ ~(\E x \in rows : x.dev = d) => devices'[q][d].peer = 0
    OBVIOUS
  <2>1. CASE \E x \in rows : x.dev = d
    <3>1. pick[d] \in rows /\ pick[d].dev = d
      BY <1>1, <2>1
    <3> QED
      BY <1>3, <2>1, <3>1
  <2>2. CASE ~\E x \in rows : x.dev = d
    <3>1. pick[d] = NoIdentity
      BY <1>1, <2>2
    <3>2. devices'[q][d].peer = NoIdentity.peer
      BY <1>3, <3>1
    <3>3. NoIdentity.peer = 0
      BY DEF NoIdentity
    <3> QED
      BY <2>2, <3>2, <3>3
  <2> QED
    BY <2>1, <2>2
<1>5. HelloInRoom'
  BY <1>2 DEF HelloInRoom
<1>6. PeersOwned'
  <2>1. PICK own \in [1..(nextPeer - 1) -> Device \cup {NoDevice}] : Owns(own)
    BY DEF PeersOwned
  <2>2. Owns(own)'
    BY <1>2, <1>3, <1>4, <2>1 DEF Owns
  <2> QED
    BY <1>2, <2>2 DEF PeersOwned
<1>7. StoresWhatItKnows'
  BY <1>2, <1>3 DEF StoresWhatItKnows, SigInv, StagesHold
<1>8. RowsRemembered'
  <2>1. rooms # 0 => rooms \in Room
    BY DEF SigInv, SigTyped, Room
  <2> QED
    BY <1>2, <1>3, <1>4, <2>1 DEF RowsRemembered
<1> QED
  BY <1>5, <1>6, <1>7, <1>8

\* The row a hello stores is its device's, and takes no other device's row away.
LEMMA HelloStoredRemembers ==
    ASSUME SigInv, MemoryInv, NEW c \in Conn, HelloStored(c)
    PROVE  MemoryInv'
<1> USE DEF MemoryInv
<1> DEFINE row == [peer |-> storing[c].peer, dev |-> DeviceOf[c], label |-> storing[c].label]
<1>1. /\ hello[c] = "store" /\ hello' = [hello EXCEPT ![c] = "in"]
      /\ rows' = {x \in rows : x.peer # row.peer} \cup {row}
      /\ storing' = [storing EXCEPT ![c] = NoIdentity]
      /\ UNCHANGED <<helloRoom, rooms, roomIs, devices, nextPeer>>
      /\ row.peer = storing[c].peer /\ row.dev = DeviceOf[c]
  BY DEF HelloStored
<1> HIDE DEF row
<1>2. /\ hello'[c] = "in" /\ \A d \in Conn \ {c} : hello'[d] = hello[d] /\ storing'[d] = storing[d]
  BY <1>1 DEF SigInv, SigTyped
<1>3. HelloInRoom'
  BY <1>1, <1>2 DEF HelloInRoom
<1>4. PICK own \in [1..(nextPeer - 1) -> Device \cup {NoDevice}] : Owns(own)
  BY DEF PeersOwned
<1>5. PeersOwned'
  <2>1. Owns(own)'
    BY <1>1, <1>2, <1>4 DEF Owns
  <2> QED
    BY <1>1, <2>1 DEF PeersOwned
<1>6. StoresWhatItKnows'
  BY <1>1, <1>2 DEF StoresWhatItKnows
<1>7. RowsRemembered'
  <2> SUFFICES ASSUME rooms # 0, roomIs[rooms] = "live", NEW d \in Device,
                      \E x \in rows' : x.dev = d
               PROVE  \E x \in rows' : x.dev = d /\ x.peer = devices[rooms][d].peer
    BY <1>1 DEF RowsRemembered
  <2>1. CASE d = DeviceOf[c]
    <3>1. helloRoom[c] = rooms /\ DeviceOf[c] # NoDevice
      BY <1>1, <2>1, SigAssumption DEF HelloInRoom
    <3>2. devices[rooms][d].peer = row.peer
      BY <1>1, <2>1, <3>1 DEF StoresWhatItKnows
    <3> QED
      BY <1>1, <2>1, <3>2
  <2>2. CASE d # DeviceOf[c]
    <3>1. \E x \in rows : x.dev = d
      BY <1>1, <2>2
    <3>2. PICK x \in rows : x.dev = d /\ x.peer = devices[rooms][d].peer
      BY <3>1 DEF RowsRemembered
    <3>3. own[x.peer] = d /\ own[row.peer] = DeviceOf[c]
      BY <1>1, <1>4, <3>2 DEF Owns
    <3>4. x \in rows'
      BY <1>1, <2>2, <3>2, <3>3
    <3> QED
      BY <3>2, <3>4
  <2> QED
    BY <2>1, <2>2
<1> QED
  BY <1>3, <1>5, <1>6, <1>7

\* A hello that joins takes the peer its device had, or one that nobody ever was.
LEMMA HelloJoinsRemembers ==
    ASSUME SigInv, MemoryInv, NEW c \in Conn, HelloJoins(c)
    PROVE  /\ MemoryInv'
           /\ (DeviceOf[c] # NoDevice /\ \E x \in rows : x.dev = DeviceOf[c]) =>
                 \E x \in rows : x.dev = DeviceOf[c] /\ x.peer = storing'[c].peer
<1> USE SigAssumption DEF MemoryInv
<1> DEFINE q == helloRoom[c]
           known == Known(c, q)
           peer == IF known.peer # 0 THEN known.peer ELSE nextPeer
           mine == [peer |-> peer, label |-> known.label]
<1>1. /\ hello[c] = "session" /\ hello' = [hello EXCEPT ![c] = "store"]
      /\ devices' = IF DeviceOf[c] = NoDevice THEN devices
                    ELSE [devices EXCEPT ![q][DeviceOf[c]] = mine]
      /\ storing' = [storing EXCEPT ![c] = mine]
      /\ nextPeer' = IF known.peer # 0 THEN nextPeer ELSE nextPeer + 1
      /\ UNCHANGED <<helloRoom, rooms, roomIs, rows>>
  BY DEF HelloJoins
<1>2. q \in Room /\ roomIs[q] = "live" /\ rooms = q /\ rooms # 0
  BY <1>1 DEF SigInv, StagesHold, HelloInRoom, Room
<1>3. /\ known \in Identity(nextPeer)
      /\ DeviceOf[c] # NoDevice => DeviceOf[c] \in Device /\ known = devices[q][DeviceOf[c]]
      /\ DeviceOf[c] = NoDevice => known.peer = 0
  BY ZenonT(60), <1>2, NobodyIsIdentity DEF Known, SigInv, SigTyped, NoIdentity
<1>4. mine.peer = peer /\ nextPeer \in Nat \ {0} /\ (known.peer # 0 => peer = known.peer)
      /\ (known.peer = 0 => peer = nextPeer /\ nextPeer' = nextPeer + 1)
      /\ known.peer \in 0..(nextPeer - 1)
      /\ (known.peer # 0 => nextPeer' = nextPeer)
  BY <1>1, <1>3 DEF SigInv, SigTyped, Identity
<1> HIDE DEF mine, peer, known
<1>5. /\ hello'[c] = "store" /\ storing'[c] = mine
      /\ \A d \in Conn \ {c} : hello'[d] = hello[d] /\ storing'[d] = storing[d]
      /\ \A r \in Room \ {q} : devices'[r] = devices[r]
      /\ \A d \in Device \ {DeviceOf[c]} : devices'[q][d] = devices[q][d]
      /\ DeviceOf[c] # NoDevice => devices'[q][DeviceOf[c]] = mine
  BY <1>1, <1>2, <1>3 DEF SigInv, SigTyped
<1>6. (DeviceOf[c] # NoDevice /\ \E x \in rows : x.dev = DeviceOf[c]) =>
         /\ \E x \in rows : x.dev = DeviceOf[c] /\ x.peer = peer
         /\ known.peer # 0
  <2> SUFFICES ASSUME DeviceOf[c] # NoDevice, \E x \in rows : x.dev = DeviceOf[c]
               PROVE  /\ \E x \in rows : x.dev = DeviceOf[c] /\ x.peer = peer
                      /\ known.peer # 0
    OBVIOUS
  <2>1. PICK x \in rows : x.dev = DeviceOf[c] /\ x.peer = devices[rooms][DeviceOf[c]].peer
    BY <1>2, <1>3 DEF RowsRemembered
  <2>2. x.peer # 0
    BY <2>1 DEF SigInv, SigTyped
  <2>3. known.peer = x.peer
    BY <1>2, <1>3, <2>1
  <2> QED
    BY <1>4, <2>1, <2>2, <2>3
<1>7. HelloInRoom'
  BY <1>1, <1>2, <1>5 DEF HelloInRoom
<1>8. PeersOwned'
  <2>1. PICK own \in [1..(nextPeer - 1) -> Device \cup {NoDevice}] : Owns(own)
    BY DEF PeersOwned
  <2>2. DeviceOf[c] \in Device \cup {NoDevice}
    OBVIOUS
  <2> DEFINE more == [p \in 1..(nextPeer' - 1) |-> IF p = peer THEN DeviceOf[c] ELSE own[p]]
  <2>3. known.peer # 0 => own[peer] = DeviceOf[c]
    BY <1>2, <1>3, <1>4, <2>1 DEF Owns
  <2>4. /\ more \in [1..(nextPeer' - 1) -> Device \cup {NoDevice}]
        /\ more[peer] = DeviceOf[c]
        /\ \A p \in 1..(nextPeer - 1) : more[p] = own[p]
    BY <1>4, <2>1, <2>2, <2>3
  <2> HIDE DEF more
  <2>5. /\ \A x \in rows : x.peer \in 1..(nextPeer - 1)
        /\ \A r \in Room : \A d \in Device : devices[r][d].peer \in 0..(nextPeer - 1)
        /\ \A d \in Conn : hello[d] = "store" => storing[d].peer \in 1..(nextPeer - 1)
    <3>1. \A i \in Identity(nextPeer) : i.peer \in 0..(nextPeer - 1)
      BY DEF Identity
    <3>2. \A d \in Conn : hello[d] = "store" => storing[d].peer # 0
      BY DEF SigInv, StagesHold
    <3>3. \A d \in Conn : storing[d].peer \in 0..(nextPeer - 1)
      BY <3>1 DEF SigInv, SigTyped
    <3> QED
      BY <1>4, <3>1, <3>2, <3>3 DEF SigInv, SigTyped
  <2>6. \A x \in rows' : more[x.peer] = x.dev
    BY <1>1, <2>1, <2>4, <2>5 DEF Owns
  <2>7. ASSUME NEW r \in Room, NEW d \in Device, devices'[r][d].peer # 0
        PROVE  more[devices'[r][d].peer] = d
    <3>1. CASE r = q /\ d = DeviceOf[c]
      BY <1>4, <1>5, <2>4, <3>1
    <3>2. CASE ~(r = q /\ d = DeviceOf[c])
      <4>1. devices'[r][d] = devices[r][d]
        BY <1>5, <3>2
      <4>2. devices[r][d].peer \in 1..(nextPeer - 1)
        BY <1>4, <2>5, <2>7, <4>1
      <4> QED
        BY <2>1, <2>4, <4>1, <4>2 DEF Owns
    <3> QED
      BY <3>1, <3>2
  <2>8. \A d \in Conn : hello'[d] = "store" => more[storing'[d].peer] = DeviceOf[d]
    BY <1>4, <1>5, <2>1, <2>4, <2>5 DEF Owns
  <2> QED
    BY <2>4, <2>6, <2>7, <2>8 DEF PeersOwned, Owns
<1>9. StoresWhatItKnows'
  <2> SUFFICES ASSUME NEW d \in Conn, hello'[d] = "store", DeviceOf[d] # NoDevice
               PROVE  devices'[helloRoom[d]][DeviceOf[d]].peer = storing'[d].peer
    BY <1>1 DEF StoresWhatItKnows
  <2>1. CASE d = c
    BY <1>5, <2>1
  <2>2. CASE d # c
    <3>1. /\ hello[d] = "store" /\ storing'[d] = storing[d] /\ helloRoom[d] = q
          /\ devices[q][DeviceOf[d]].peer = storing[d].peer
      BY <1>2, <1>5, <2>2 DEF StoresWhatItKnows, HelloInRoom
    <3>2. storing[d].peer # 0
      BY <3>1 DEF SigInv, StagesHold
    <3>3. DeviceOf[d] = DeviceOf[c] => known.peer = storing[d].peer
      BY <1>3, <3>1
    <3> QED
      BY <1>4, <1>5, <3>1, <3>2, <3>3
  <2> QED
    BY <2>1, <2>2
<1>10. RowsRemembered'
  <2> SUFFICES ASSUME NEW d \in Device, \E x \in rows : x.dev = d
               PROVE  \E x \in rows : x.dev = d /\ x.peer = devices'[q][d].peer
    BY <1>1, <1>2 DEF RowsRemembered
  <2>1. CASE d = DeviceOf[c]
    BY <1>4, <1>5, <1>6, <2>1
  <2>2. CASE d # DeviceOf[c]
    BY <1>2, <1>5, <2>2 DEF RowsRemembered
  <2> QED
    BY <2>1, <2>2
<1> QED
  BY <1>4, <1>5, <1>6, <1>7, <1>8, <1>9, <1>10

\* A rename leaves the peers of the devices and of the rows as they are.
LEMMA RenamesRemember ==
    ASSUME SigInv, MemoryInv,
           \/ \E c \in Conn : \E p \in 1..(nextPeer - 1) : Rename(c, p)
           \/ \E w \in writes : RenameStored(w)
    PROVE  MemoryInv'
<1> USE DEF MemoryInv
<1>1. UNCHANGED <<hello, helloRoom, storing, rooms, roomIs, nextPeer>>
  BY DEF Rename, RenameStored
<1>2. \A r \in Room : \A d \in Device : devices'[r][d].peer = devices[r][d].peer
  <2>1. CASE UNCHANGED devices
    BY <2>1
  <2>2. ASSUME NEW c \in Conn, NEW p \in 1..(nextPeer - 1), Rename(c, p)
        PROVE  <1>2
    <3> DEFINE ids == Relabelled(devices[rooms], p, "named")
    <3>1. devices' = [devices EXCEPT ![rooms] = ids]
      BY <2>2 DEF Rename
    <3>2. rooms \in Room => \A d \in Device : ids[d].peer = devices[rooms][d].peer
      BY DEF Relabelled, SigInv, SigTyped, Identity
    <3> HIDE DEF ids
    <3> QED
      BY <3>1, <3>2 DEF SigInv, SigTyped
  <2> QED
    BY <2>1, <2>2 DEF RenameStored
<1>3. /\ \A x \in rows : \E y \in rows' : y.dev = x.dev /\ y.peer = x.peer
      /\ \A y \in rows' : \E x \in rows : y.dev = x.dev /\ y.peer = x.peer
  <2>1. CASE UNCHANGED rows
    BY <2>1
  <2>2. ASSUME NEW w \in writes, RenameStored(w)
        PROVE  <1>3
    <3> DEFINE named(x) == IF x.peer = w.peer THEN [x EXCEPT !.label = w.label] ELSE x
    <3>1. rows' = {named(x) : x \in rows}
      BY <2>2 DEF RenameStored
    <3>2. \A x \in rows : named(x).peer = x.peer /\ named(x).dev = x.dev
      BY DEF SigInv, SigTyped
    <3> HIDE DEF named
    <3> QED
      BY <3>1, <3>2
  <2> QED
    BY <2>1, <2>2 DEF Rename
<1>4. HelloInRoom' /\ StoresWhatItKnows'
  <2>1. \A c \in Conn : hello[c] = "store" /\ DeviceOf[c] # NoDevice =>
          helloRoom[c] \in Room /\ DeviceOf[c] \in Device
    BY SigAssumption DEF SigInv, StagesHold
  <2> QED
    BY <1>1, <1>2, <2>1 DEF HelloInRoom, StoresWhatItKnows
<1>5. PeersOwned'
  <2>1. PICK own \in [1..(nextPeer - 1) -> Device \cup {NoDevice}] : Owns(own)
    BY DEF PeersOwned
  <2>2. Owns(own)'
    BY <1>1, <1>2, <1>3, <2>1 DEF Owns
  <2> QED
    BY <1>1, <2>2 DEF PeersOwned
<1>6. RowsRemembered'
  <2>1. rooms # 0 => rooms \in Room
    BY DEF SigInv, SigTyped, Room
  <2> QED
    BY <1>1, <1>2, <1>3, <2>1 DEF RowsRemembered
<1> QED
  BY <1>4, <1>5, <1>6

\* Everything else remembers what was remembered; a sweep waits for the hellos.
LEMMA OthersRemember ==
    ASSUME SweepWaits, SigInv, MemoryInv,
           \/ \E c \in Conn : \/ HelloRefused(c) \/ HelloAdmitted(c) \/ HelloThrows(c)
                              \/ SocketCloses(c) \/ Bye(c) \/ TakeStartsOrStops(c)
           \/ \E r \in Room : RoomFails(r)
           \/ SessionClosed \/ pruneIdleRooms \/ closeSession \/ RowsErased
           \/ UNCHANGED sigVars
    PROVE  MemoryInv'
<1>1. rooms # 0 => rooms \in Room
  BY DEF SigInv, SigTyped, Room
<1>2. CASE pruneIdleRooms \/ closeSession
  <2>1. /\ UNCHANGED <<hello, helloRoom, storing, devices, rows, nextPeer>> /\ rooms' = 0
        /\ \A c \in Conn : hello[c] \notin Waiting
    BY <1>2 DEF pruneIdleRooms, closeSession, Undisturbed
  <2>2. PeersOwned'
    <3>1. ASSUME NEW own, Owns(own) PROVE Owns(own)'
      BY <2>1, <3>1 DEF Owns
    <3> QED
      BY <2>1, <3>1 DEF MemoryInv, PeersOwned
  <2> QED
    BY <2>1, <2>2 DEF MemoryInv, HelloInRoom, StoresWhatItKnows, RowsRemembered, Waiting
<1>3. CASE RowsErased
  <2>1. UNCHANGED <<hello, helloRoom, storing, rooms, roomIs, devices, nextPeer>> /\ rows' = {}
    BY <1>3 DEF RowsErased
  <2>2. PeersOwned'
    <3>1. ASSUME NEW own, Owns(own) PROVE Owns(own)'
      BY <2>1, <3>1 DEF Owns
    <3> QED
      BY <2>1, <3>1 DEF MemoryInv, PeersOwned
  <2> QED
    BY <2>1, <2>2 DEF MemoryInv, HelloInRoom, StoresWhatItKnows, RowsRemembered
<1>4. CASE \/ \E c \in Conn : HelloRefused(c) \/ HelloAdmitted(c) \/ HelloThrows(c)
           \/ \E c \in Conn : SocketCloses(c) \/ Bye(c) \/ TakeStartsOrStops(c)
           \/ \E r \in Room : RoomFails(r)
           \/ SessionClosed
           \/ UNCHANGED sigVars
  <2>1. UNCHANGED <<helloRoom, storing, rooms, devices, rows, nextPeer>>
    BY <1>4 DEF HelloRefused, HelloAdmitted, HelloThrows, SocketCloses, Bye, TakeStartsOrStops,
       RoomFails, SessionClosed, sigVars
  <2>2. \A r \in Room : roomIs'[r] = "live" => roomIs[r] = "live"
    BY <1>4 DEF HelloRefused, HelloAdmitted, HelloThrows, SocketCloses, Bye, TakeStartsOrStops,
       RoomFails, SessionClosed, sigVars, SigInv, SigTyped
  <2>3. \A d \in Conn : hello'[d] = hello[d] \/ (hello'[d] # "store" /\
           (hello'[d] \in {"room", "session"} => hello[d] = "room"))
    <3>1. CASE \E c \in Conn : HelloRefused(c) \/ HelloAdmitted(c) \/ HelloThrows(c)
      BY <3>1 DEF HelloRefused, HelloAdmitted, HelloThrows, SigInv, SigTyped
    <3>2. CASE \/ \E c \in Conn : SocketCloses(c) \/ Bye(c) \/ TakeStartsOrStops(c)
               \/ \E r \in Room : RoomFails(r)
               \/ SessionClosed
               \/ UNCHANGED sigVars
      BY <3>2 DEF SocketCloses, Bye, TakeStartsOrStops, RoomFails, SessionClosed, sigVars
    <3> QED
      BY <1>4, <3>1, <3>2
  <2> QED
    BY <1>1, <2>1, <2>2, <2>3, NothingForgotten
<1> QED
  BY <1>2, <1>3, <1>4

\* After a restart a room remembers what the rows say, and no hello is under way.
LEMMA RestartRemembers ==
    ASSUME SigInv, MemoryInv, MemoryLost
    PROVE  MemoryInv'
<1>1. /\ \A c \in Conn : hello'[c] \notin {"room", "session", "store"}
      /\ \A r \in Room : \A d \in Device : devices'[r][d].peer = 0
      /\ rooms' = 0 /\ UNCHANGED <<rows, nextPeer>>
  BY DEF MemoryLost, Waiting, NoIdentity
<1>2. PeersOwned'
  <2>1. ASSUME NEW own, Owns(own) PROVE Owns(own)'
    BY <1>1, <2>1 DEF Owns
  <2> QED
    BY <1>1, <2>1 DEF MemoryInv, PeersOwned
<1> QED
  BY <1>1, <1>2 DEF MemoryInv, HelloInRoom, StoresWhatItKnows, RowsRemembered

\* The steps of a hello that has a room to go to, or of a message that makes one.
LEMMA BeginningsRemember ==
    ASSUME SigInv, MemoryInv, NEW c \in Conn,
           HelloArrives(c) \/ HelloAuthorized(c) \/ MessageMakesRoom(c)
    PROVE  MemoryInv'
<1>1. EnterRoom \/ UNCHANGED <<rooms, roomIs>>
  BY DEF HelloArrives, HelloAuthorized, MessageMakesRoom
<1>2. UNCHANGED <<devices, rows, nextPeer, storing>>
  BY DEF HelloArrives, HelloAuthorized, MessageMakesRoom
<1>3. \A d \in Conn : \/ hello'[d] = hello[d] /\ helloRoom'[d] = helloRoom[d]
                      \/ hello'[d] = "room" /\ helloRoom'[d] = rooms'
                      \/ hello'[d] \notin {"room", "session", "store"}
  BY DEF HelloArrives, HelloAuthorized, MessageMakesRoom, EnterRoom, SigInv, SigTyped
<1> QED
  BY <1>1, <1>2, <1>3, EnterRemembers

\* Nobody is remembered before the first hello.
LEMMA MemoryInvStarts == SigInit => MemoryInv
<1> SUFFICES ASSUME SigInit PROVE MemoryInv
  OBVIOUS
<1>1. PeersOwned
  <2> DEFINE own == [p \in 1..(nextPeer - 1) |-> NoDevice]
  <2>1. Owns(own)
    BY DEF SigInit, Owns, NoIdentity
  <2>2. own \in [1..(nextPeer - 1) -> Device \cup {NoDevice}]
    OBVIOUS
  <2> QED
    BY <2>1, <2>2 DEF PeersOwned
<1> QED
  BY <1>1 DEF SigInit, MemoryInv, HelloInRoom, StoresWhatItKnows, RowsRemembered

\* What HelloJoins gives a device with a stored peer row is such a peer; the same in
\* the words of the module's action property.
ResumesPeer ==
    \A c \in Conn :
         LET mine == {x \in rows : x.dev = DeviceOf[c]} IN
         (/\ hello[c] = "session" /\ hello'[c] = "store"
          /\ DeviceOf[c] # NoDevice
          /\ mine # {})
         => \E x \in mine : x.peer = storing'[c].peer

\* Every step keeps the memory of devices, and a hello that joins makes use of it.
LEMMA MemoryInvStep ==
    ASSUME SweepWaits, SigInv, MemoryInv, [SigNext]_sigVars
    PROVE  MemoryInv' /\ ResumesPeer
<1>1. CASE \E c \in Conn : HelloJoins(c)
  <2>1. PICK c \in Conn : HelloJoins(c)
    BY <1>1
  <2>2. /\ MemoryInv'
        /\ (DeviceOf[c] # NoDevice /\ \E x \in rows : x.dev = DeviceOf[c]) =>
              \E x \in rows : x.dev = DeviceOf[c] /\ x.peer = storing'[c].peer
    BY <2>1, HelloJoinsRemembers
  <2>3. \A d \in Conn \ {c} : hello'[d] = hello[d]
    BY <2>1 DEF HelloJoins, SigInv, SigTyped
  <2> QED
    BY <2>2, <2>3 DEF ResumesPeer
<1>2. CASE ~\E c \in Conn : HelloJoins(c)
  <2>1. MemoryInv'
    <3>1. CASE \E c \in Conn : HelloArrives(c) \/ HelloAuthorized(c) \/ MessageMakesRoom(c)
      BY <3>1, BeginningsRemember
    <3>2. CASE \E r \in Room : RoomReady(r)
      BY <3>2, RoomReadyRemembers
    <3>3. CASE \E c \in Conn : HelloStored(c)
      BY <3>3, HelloStoredRemembers
    <3>4. CASE Restart \/ \E c \in Conn : CloseEndsServer(c)
      BY <3>4, RestartRemembers DEF Restart, CloseEndsServer
    <3>5. CASE \/ \E c \in Conn : \E p \in 1..(nextPeer - 1) : Rename(c, p)
               \/ \E w \in writes : RenameStored(w)
      BY <3>5, RenamesRemember
    <3>6. CASE \/ \E c \in Conn : \/ HelloRefused(c) \/ HelloAdmitted(c) \/ HelloThrows(c)
                                  \/ SocketCloses(c) \/ Bye(c) \/ TakeStartsOrStops(c)
               \/ \E r \in Room : RoomFails(r)
               \/ SessionClosed \/ pruneIdleRooms \/ closeSession \/ RowsErased
               \/ UNCHANGED sigVars
      BY <3>6, OthersRemember
    <3> QED
      BY <1>2, <3>1, <3>2, <3>3, <3>4, <3>5, <3>6 DEF SigNext, SigServerStep
  <2>2. \A c \in Conn : hello[c] = "session" => hello'[c] # "store"
    <3>1. ASSUME NEW c \in Conn, NEW d \in Conn, hello[c] = "session",
                 \/ HelloArrives(d) \/ HelloAuthorized(d) \/ HelloRefused(d) \/ HelloAdmitted(d)
                 \/ HelloStored(d) \/ HelloThrows(d)
          PROVE  hello'[c] # "store"
      BY <3>1 DEF HelloArrives, HelloAuthorized, HelloRefused, HelloAdmitted, HelloStored,
         HelloThrows, SigInv, SigTyped
    <3>2. ASSUME NEW c \in Conn, hello[c] = "session", MemoryLost
          PROVE  hello'[c] # "store"
      BY <3>2 DEF MemoryLost, Waiting
    <3>3. ASSUME \/ \E c \in Conn : \/ SocketCloses(c) \/ MessageMakesRoom(c) \/ Bye(c)
                                    \/ TakeStartsOrStops(c)
                                    \/ \E p \in 1..(nextPeer - 1) : Rename(c, p)
                 \/ \E w \in writes : RenameStored(w)
                 \/ \E r \in Room : RoomReady(r) \/ RoomFails(r)
                 \/ pruneIdleRooms \/ closeSession \/ SessionClosed \/ RowsErased
                 \/ UNCHANGED sigVars
          PROVE  UNCHANGED hello
      BY <3>3 DEF SocketCloses, MessageMakesRoom, Bye, TakeStartsOrStops, Rename, RenameStored,
         RoomReady, RoomFails, pruneIdleRooms, closeSession, SessionClosed, RowsErased, sigVars
    <3> QED
      BY <1>2, <3>1, <3>2, <3>3 DEF SigNext, SigServerStep, Restart, CloseEndsServer
  <2>3. ResumesPeer
    BY <2>2 DEF ResumesPeer
  <2> QED
    BY <2>1, <2>3
<1> QED
  BY <1>1, <1>2

\* As long as no prune and no delete runs between two stages of a hello, a device whose
\* peer row was stored comes back as that peer, through reconnects, pruned rooms,
\* deleted rows of others and restarts of the process (hello.ts).  Without SweepWaits the
\* code does not promise it.
THEOREM DevicesComeBack ==
    ASSUME SweepWaits
    PROVE  SigSpec => SameDeviceSamePeer
<1>1. SigInit => SigInv /\ MemoryInv
  BY SigInvStarts, MemoryInvStarts
<1>2. SigInv /\ MemoryInv /\ [SigNext]_sigVars => SigInv' /\ MemoryInv'
  BY SigInvStep, MemoryInvStep
<1>3. SigInv /\ MemoryInv /\ [SigNext]_sigVars => [ResumesPeer]_sigVars
  BY MemoryInvStep
<1>4. SigSpec => [][ResumesPeer]_sigVars
  BY <1>1, <1>2, <1>3, PTL DEF SigSpec
<1> QED
  BY <1>4, PTL DEF SameDeviceSamePeer, ResumesPeer

=============================================================================
