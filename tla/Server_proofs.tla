--------------------------- MODULE Server_proofs ----------------------------
(***************************************************************************)
(* What the server's parts promise, for every value of their constants:    *)
(* who owns a session (DeskAccess), how often an address is let in         *)
(* (RateLimit), that archive and engine stay in step (StreamDeletion), and *)
(* that the range sets of its acks are exact (RangeSet).                   *)
(***************************************************************************)
EXTENDS Integers, DeskAccess, RateLimit, StreamDeletion, RangeSet, WellFoundedInduction,
        SequenceTheorems, FiniteSetTheorems, TLAPS

-----------------------------------------------------------------------------
(* Desk access.                                                            *)

\* The roles of a DeskDecision, and none before there is one.
Role == {"none", "unknown", "owner", "sharee", "forbidden"}

\* Only an existing row has an owner, and no verdict is from a later life.
AccessInv ==
    /\ life \in Nat
    /\ verdict \in [Request -> [role : Role, life : Nat]]
    /\ exists \in BOOLEAN
    /\ ~exists => owner = NoUser
    /\ \A q \in Request : verdict[q].life <= life
    /\ OwnerIsTrue

\* A verdict of the current life is safe to give when it is not "owner", or when
\* the asker owns the row and nobody else was told so.
LEMMA DecideKeepsAccess ==
    ASSUME AccessInv, NEW q \in Request, NEW role \in Role, NEW l, Decide(q, role, l),
           life' = life, exists' = exists, exists = TRUE \/ owner' = owner,
           role = "owner" => owner' = UserOf[q],
           owner' = owner \/ owner = NoUser
    PROVE  AccessInv'
<1>1. verdict' = [verdict EXCEPT ![q] = [role |-> role, life |-> life]]
  BY DEF Decide
<1>2. verdict' \in [Request -> [role : Role, life : Nat]]
  BY <1>1 DEF AccessInv
<1>3. \A p \in Request : p # q => verdict'[p] = verdict[p]
  BY <1>1 DEF AccessInv
<1>4. verdict'[q].role = role /\ verdict'[q].life = life
  BY <1>1 DEF AccessInv
<1>5. \A p \in Request : verdict'[p].life <= life'
  BY <1>3, <1>4 DEF AccessInv
<1>6. OwnerIsTrue'
  <2> SUFFICES ASSUME NEW p \in Request, verdict'[p].role = "owner", verdict'[p].life = life'
               PROVE  owner' = UserOf[p]
    BY DEF OwnerIsTrue
  <2>1. CASE p = q
    BY <2>1, <1>4
  <2>2. CASE p # q
    <3>1. owner = UserOf[p]
      BY <2>2, <1>3 DEF AccessInv, OwnerIsTrue
    <3> QED
      BY <3>1, AccessAssumption
  <2> QED
    BY <2>1, <2>2
<1> QED
  BY <1>2, <1>5, <1>6 DEF AccessInv

\* A step that touches neither verdicts nor the row's owner keeps the invariant.
LEMMA QuietKeepsAccess ==
    ASSUME AccessInv, verdict' = verdict, life' = life, owner' = owner,
           exists' \in BOOLEAN, exists' = FALSE => exists = FALSE
    PROVE  AccessInv'
BY DEF AccessInv, OwnerIsTrue

\* The session's owner, as told to a request in this life of the session, is the
\* row's owner, for any number of requests, users, shares and deletions
\* (access.ts, claim and authorize).
THEOREM OwnersAreTrue == AccessSpec => []OwnerIsTrue
<1>1. AccessInit => AccessInv
  BY DEF AccessInit, AccessInv, OwnerIsTrue, Role
<1>2. AccessInv /\ [AccessNext]_accessVars => AccessInv'
  <2> SUFFICES ASSUME AccessInv, [AccessNext]_accessVars PROVE AccessInv'
    OBVIOUS
  <2>0. CASE UNCHANGED accessVars
    BY <2>0, QuietKeepsAccess DEF accessVars, AccessInv
  <2>1. ASSUME NEW q \in Request, Arrives(q) \/ listShares(q) \/ addShare(q) \/ removeShare(q)
        PROVE  AccessInv'
    BY <2>1, QuietKeepsAccess DEF Arrives, listShares, addShare, removeShare, AccessInv
  <2>2. ASSUME NEW q \in Request, TurnedAway(q) PROVE AccessInv'
    BY <2>2, DecideKeepsAccess DEF TurnedAway, Role
  <2>3. ASSUME NEW q \in Request, authorizeOrCreate(q) PROVE AccessInv'
    BY <2>3, QuietKeepsAccess DEF authorizeOrCreate, ownerAfterInsert, AccessInv
  <2>4. ASSUME NEW q \in Request, authorize(q) PROVE AccessInv'
    <3>1. CASE ~exists
      BY <2>4, <3>1, DecideKeepsAccess DEF authorize, Role
    <3>2. CASE exists /\ owner = UserOf[q]
      BY <2>4, <3>2, DecideKeepsAccess DEF authorize, Role
    <3>3. CASE exists /\ owner # UserOf[q]
      BY <2>4, <3>3, QuietKeepsAccess DEF authorize, AccessInv
    <3> QED
      BY <3>1, <3>2, <3>3
  <2>5. ASSUME NEW q \in Request, claim(q) PROVE AccessInv'
    <3>1. CASE Claimable
      BY <2>5, <3>1, DecideKeepsAccess DEF claim, Claimable, Role
    <3>2. CASE ~Claimable
      BY <2>5, <3>2, QuietKeepsAccess DEF claim, AccessInv
    <3> QED
      BY <3>1, <3>2
  <2>6. ASSUME NEW q \in Request, judgeShare(q) PROVE AccessInv'
    BY <2>6, DecideKeepsAccess DEF judgeShare, Role
  <2>7. ASSUME NEW q \in Request, deleteSession(q) PROVE AccessInv'
    <3>1. exists' = FALSE /\ owner' = NoUser /\ life' = life + 1 /\ verdict' = verdict
      BY <2>7 DEF deleteSession
    <3>2. \A p \in Request : verdict[p].life \in Nat /\ verdict[p].life <= life
      BY DEF AccessInv
    <3>3. life' \in Nat /\ \A p \in Request : verdict'[p].life < life'
      BY <3>1, <3>2 DEF AccessInv
    <3>4. \A p \in Request : verdict'[p].life <= life' /\ verdict'[p].life # life'
      BY <3>1, <3>2, <3>3
    <3>5. exists' \in BOOLEAN /\ (~exists => owner = NoUser)'
      BY <3>1
    <3> QED
      BY <3>1, <3>3, <3>4, <3>5 DEF AccessInv, OwnerIsTrue
  <2> QED
    BY <2>0, <2>1, <2>2, <2>3, <2>4, <2>5, <2>6, <2>7 DEF AccessNext
<1>3. AccessInv => OwnerIsTrue
  BY DEF AccessInv
<1> QED
  BY <1>1, <1>2, <1>3, PTL DEF AccessSpec

-----------------------------------------------------------------------------
(* Deletion.                                                               *)

ArchType == [session : BOOLEAN, take : BOOLEAN, streams : SUBSET DelStream,
             chunks : SUBSET Key, finals : SUBSET DelStream]
SinkType == [up : BOOLEAN, held : SUBSET Key, ended : SUBSET DelStream, take : BOOLEAN,
             streams : SUBSET DelStream]
FateType == [orphans : SUBSET Key, erased : SUBSET DelStream, clean : SUBSET DelStream,
             dropped : SUBSET DelStream, fk : BOOLEAN, wiped : BOOLEAN, raced : BOOLEAN]
ChunkTask == [kind : {"chunk"}, pc : {"put", "insert"}, key : Key, from : {"recorder", "desk"}]
DeleteTask == [kind : {"delete"}, pc : {"rows", "take"}, streams : SUBSET DelStream]
BlobTask == [kind : {"delete"}, pc : {"blobs"}, streams : SUBSET DelStream, keys : SUBSET Key]

DelTyped ==
    /\ arch \in ArchType /\ sink \in SinkType /\ fate \in FateType
    /\ task \in {Idle0} \union ChunkTask \union DeleteTask \union BlobTask
    /\ room \in BOOLEAN
    /\ ring \subseteq Key /\ wire \subseteq Key /\ plan \subseteq Key /\ opfs \subseteq Key
    /\ toDesk = [chunks |-> toDesk.chunks, haves |-> toDesk.haves]
    /\ confirm \subseteq fate.erased
    /\ destroy \in [pc : {"idle", "read", "blobs", "rows", "session"}, keys : SUBSET Key,
                    streams : SUBSET DelStream]

\* Without a room there is no engine and no task; a hard deletion has started once
\* it runs.
RoomHosts ==
    /\ ~room => (task = Idle0 /\ sink = Offline)
    /\ destroy.pc # "idle" => fate.wiped

\* Where the running task is: the blob is there before its row, the engine forgets
\* before the rows go, the rows are gone before their blobs.
TaskInOrder ==
    /\ (task \in ChunkTask /\ task.pc = "insert" /\ ~fate.wiped) => task.key \in blob
    /\ (task \in DeleteTask /\ task.pc = "rows") =>
          /\ sink.held \intersect Of(task.streams) = {}
          /\ sink.streams \intersect task.streams = {}
          /\ sink.ended \intersect task.streams = {}
    /\ task \in BlobTask => task.keys \intersect arch.chunks = {}
    /\ (task \in BlobTask \/ (task \in DeleteTask /\ task.pc = "take"))
          => task.streams \subseteq fate.erased

\* A stream row has its take's.
TakeHasStreams == arch.streams # {} => arch.take

\* What the engine knows has its rows, but for the chunk being written; a hard
\* deletion has the house to itself, and takes the blobs before the rows.
EngineInStep ==
    ~fate.raced =>
        /\ \A k \in sink.held : k \in arch.chunks \/ (task \in ChunkTask /\ task.key = k)
        /\ sink.streams \subseteq arch.streams
        /\ sink.take => arch.take
        /\ task \in ChunkTask => task.key[1] \in sink.streams
        /\ destroy.pc # "idle" => ~room
        /\ destroy.pc \in {"blobs", "rows", "session"} => arch.chunks \subseteq destroy.keys
        /\ destroy.pc \in {"rows", "session"} => blob \intersect destroy.keys = {}

\* Nobody has, knows or can send anything of stream s.
Forgotten(s) ==
    /\ s \notin arch.streams /\ s \notin arch.finals
    /\ s \notin sink.ended /\ s \notin sink.streams
    /\ \A k \in Of({s}) : k \notin arch.chunks /\ k \notin sink.held
    /\ \A k \in Of({s}) : k \notin ring /\ k \notin wire /\ k \notin plan
    /\ \A h \in toDesk.haves : h[1] # s
    /\ {<<"announce", s>>, <<"final", s>>} \subseteq said
    /\ task \in ChunkTask => task.key[1] # s

CleanForgotten == \A s \in fate.clean : Forgotten(s)

DelInv ==
    /\ DelTyped /\ RoomHosts /\ TaskInOrder /\ TakeHasStreams /\ EngineInStep /\ CleanForgotten
    /\ RowHasBlob /\ BlobsAccounted /\ NoMissingParent /\ DropsOnlyErased

\* A key is of its stream.
LEMMA KeyOfStream == \A k \in Key : \A s : k \in Of({s}) <=> k[1] = s
BY DEF Key, Of

\* A task is of one kind.
LEMMA TaskKinds ==
    ASSUME DelTyped
    PROVE  /\ task = Idle0 <=> task.kind = "none"
           /\ task \in ChunkTask <=> task.kind = "chunk"
           /\ (task \in DeleteTask /\ task.pc = "rows") <=> (task.kind = "delete" /\ task.pc = "rows")
           /\ (task \in DeleteTask /\ task.pc = "take") <=> (task.kind = "delete" /\ task.pc = "take")
           /\ task \in BlobTask <=> (task.kind = "delete" /\ task.pc = "blobs")
BY DEF DelTyped, Idle0, ChunkTask, DeleteTask, BlobTask

\* Mail between recorder, desk and server keeps everything as long as nothing of a
\* cleanly deleted stream is put into it.
LEMMA MailStep ==
    ASSUME DelInv, UNCHANGED <<arch, blob, room, sink, task, said, destroy, fate>>,
           ring' \subseteq ring, confirm' \subseteq confirm, opfs' \subseteq Key,
           wire' \subseteq Key, plan' \subseteq Key,
           \A k \in wire' \union plan' : k \in wire \/ k \in plan \/ k[1] \notin fate.clean,
           toDesk' = [chunks |-> toDesk'.chunks, haves |-> toDesk'.haves],
           \A h \in toDesk'.haves : h[1] \notin fate.clean
    PROVE  DelInv'
<1>1. DelTyped' /\ RoomHosts' /\ TaskInOrder' /\ TakeHasStreams' /\ EngineInStep'
  BY DEF DelInv, DelTyped, RoomHosts, TaskInOrder, TakeHasStreams, EngineInStep
<1>2. RowHasBlob' /\ BlobsAccounted' /\ NoMissingParent' /\ DropsOnlyErased'
  BY DEF DelInv, RowHasBlob, BlobsAccounted, NoMissingParent, DropsOnlyErased, Pending
<1>3. CleanForgotten'
  <2> SUFFICES ASSUME NEW s \in fate.clean PROVE Forgotten(s)'
    BY DEF CleanForgotten
  <2>1. Forgotten(s)
    BY DEF DelInv, CleanForgotten
  <2>2. \A k \in Of({s}) : k \notin wire' /\ k \notin plan'
    <3> SUFFICES ASSUME NEW k \in Of({s}), k \in wire' \union plan' PROVE FALSE
      OBVIOUS
    <3>1. k \in Key /\ k[1] = s
      BY KeyOfStream
    <3>2. k \in wire \/ k \in plan
      BY <3>1
    <3> QED
      BY <2>1, <3>2 DEF Forgotten
  <2>3. \A k \in Of({s}) : k \notin ring'
    BY <2>1 DEF Forgotten
  <2> QED
    BY <2>1, <2>2, <2>3 DEF Forgotten
<1> QED
  BY <1>1, <1>2, <1>3 DEF DelInv

\* The desk's own steps, and an ACK, only move mail.
LEMMA DeskStepsKeep ==
    ASSUME DelInv,
           \/ RecorderAcked \/ SyncOpens \/ SyncDrops \/ PushEnds \/ DeskPushes \/ ConfirmMissed
           \/ \E k \in Key : PushStarts(k) \/ DeskStores(k) \/ DeskHears(k)
           \/ \E s \in DelStream : DeskHaves(s)
           \/ \E h \in toDesk.haves : DeskPlans(h)
    PROVE  DelInv'
<1> USE DEF serverSide, recorder, deskSide
<1>0. /\ ring \subseteq Key /\ wire \subseteq Key /\ plan \subseteq Key /\ opfs \subseteq Key
      /\ toDesk = [chunks |-> toDesk.chunks, haves |-> toDesk.haves]
      /\ \A h \in toDesk.haves : h[1] \notin fate.clean
  BY DEF DelInv, DelTyped, CleanForgotten, Forgotten
<1>1. CASE RecorderAcked
  BY <1>0, <1>1, MailStep DEF RecorderAcked
<1>2. CASE SyncOpens
  <2> DEFINE known == {t \in DelStream : t \in sink.ended \/ SeqsOf(sink.held, t) # {}}
  <2>1. toDesk' = [toDesk EXCEPT !.haves = {<<t, SeqsOf(sink.held, t)>> : t \in known}]
    BY <1>2 DEF SyncOpens
  <2>2. ASSUME NEW t \in known PROVE t \notin fate.clean
    <3> SUFFICES ASSUME t \in fate.clean PROVE FALSE
      OBVIOUS
    <3>1. t \notin sink.ended /\ \A k \in Of({t}) : k \notin sink.held
      BY DEF DelInv, CleanForgotten, Forgotten
    <3>2. PICK k \in sink.held : k[1] = t
      BY <2>2, <3>1 DEF SeqsOf
    <3>3. k \in Key
      BY DEF DelInv, DelTyped, SinkType
    <3> QED
      BY <3>1, <3>2, <3>3, KeyOfStream
  <2>3. /\ toDesk' = [chunks |-> toDesk'.chunks, haves |-> toDesk'.haves]
        /\ \A h \in toDesk'.haves : h[1] \notin fate.clean
    <3> DEFINE haves == {<<t, SeqsOf(sink.held, t)>> : t \in known}
    <3> HIDE DEF known
    <3>1. \A h \in haves : h[1] \in known
      OBVIOUS
    <3> HIDE DEF haves
    <3>2. toDesk' = [chunks |-> toDesk.chunks, haves |-> haves]
      BY <1>0, <2>1 DEF haves
    <3> QED
      BY <2>2, <3>1, <3>2
  <2> QED
    BY <1>0, <1>2, <2>3, MailStep DEF SyncOpens
<1>3. CASE SyncDrops
  BY <1>0, <1>3, MailStep DEF SyncDrops, NoMail
<1>4. CASE PushEnds
  <2>1. toDesk' = [chunks |-> toDesk'.chunks, haves |-> toDesk.haves]
    BY <1>0, <1>4 DEF PushEnds
  <2> QED
    BY <1>0, <1>4, <2>1, MailStep DEF PushEnds
<1>5. CASE DeskPushes
  <2>1. plan' = {} /\ wire' \subseteq wire \union plan
    BY <1>5 DEF DeskPushes, getFrames
  <2> QED
    BY <1>0, <1>5, <2>1, MailStep DEF DeskPushes
<1>6. CASE ConfirmMissed
  BY <1>0, <1>6, MailStep DEF ConfirmMissed
<1>7. ASSUME NEW k \in Key, PushStarts(k) PROVE DelInv'
  BY <1>0, <1>7, MailStep DEF PushStarts
<1>8. ASSUME NEW k \in Key, DeskStores(k) PROVE DelInv'
  <2>1. toDesk' = [chunks |-> toDesk'.chunks, haves |-> toDesk.haves]
    BY <1>0, <1>8 DEF DeskStores
  <2> QED
    BY <1>0, <1>8, <2>1, MailStep DEF DeskStores
<1>9. ASSUME NEW k \in Key, DeskHears(k) PROVE DelInv'
  BY <1>0, <1>9, MailStep DEF DeskHears
<1>10. ASSUME NEW s \in DelStream, DeskHaves(s) PROVE DelInv'
  BY <1>0, <1>10, MailStep DEF DeskHaves
<1>11. ASSUME NEW h \in toDesk.haves, DeskPlans(h) PROVE DelInv'
  <2>1. toDesk' = [chunks |-> toDesk.chunks, haves |-> toDesk.haves \ {h}]
    BY <1>0, <1>11 DEF DeskPlans
  <2>2. \A k \in planPush(opfs, h[1], h[2]) : k \in Key /\ k[1] = h[1]
    BY <1>0 DEF planPush
  <2>3. plan' = plan \union planPush(opfs, h[1], h[2])
    BY <1>11 DEF DeskPlans
  <2>4. plan' \subseteq Key /\ \A k \in plan' : k \in plan \/ k[1] \notin fate.clean
    BY <1>0, <2>2, <2>3
  <2> QED
    BY <1>0, <1>11, <2>1, <2>4, MailStep DEF DeskPlans
<1> QED
  BY <1>1, <1>2, <1>3, <1>4, <1>5, <1>6, <1>7, <1>8, <1>9, <1>10, <1>11

\* A confirm makes the desk drop only what the archive has erased.
LEMMA DeskDropsKeeps == ASSUME DelInv, DeskDrops PROVE DelInv'
<1> DEFINE lost == {s \in confirm : Of({s}) \intersect opfs # {}}
<1>1. /\ fate' = [fate EXCEPT !.dropped = @ \union lost]
      /\ confirm' = {} /\ opfs' \subseteq opfs
      /\ UNCHANGED <<arch, blob, room, sink, task, ring, said, plan, wire, toDesk, destroy>>
  BY DEF DeskDrops, withoutStreams, serverSide, recorder
<1>2. lost \subseteq fate.erased /\ fate \in FateType
  BY DEF DelInv, DelTyped
<1> HIDE DEF lost
<1>3. /\ fate' \in FateType /\ fate'.dropped = fate.dropped \union lost
      /\ fate'.erased = fate.erased /\ fate'.clean = fate.clean /\ fate'.orphans = fate.orphans
      /\ fate'.fk = fate.fk /\ fate'.wiped = fate.wiped /\ fate'.raced = fate.raced
  BY <1>1, <1>2 DEF FateType
<1>4. DelTyped' /\ RoomHosts' /\ TaskInOrder' /\ TakeHasStreams' /\ EngineInStep'
  BY <1>1, <1>3 DEF DelInv, DelTyped, RoomHosts, TaskInOrder, TakeHasStreams, EngineInStep
<1>5. CleanForgotten'
  BY <1>1, <1>3 DEF DelInv, CleanForgotten, Forgotten
<1>6. RowHasBlob' /\ BlobsAccounted' /\ NoMissingParent' /\ DropsOnlyErased'
  BY <1>1, <1>2, <1>3 DEF DelInv, RowHasBlob, BlobsAccounted, NoMissingParent, DropsOnlyErased, Pending
<1> QED
  BY <1>4, <1>5, <1>6 DEF DelInv

\* What stops with a task is the debris it leaves.
LEMMA PendingIsDebris ==
    ASSUME DelTyped
    PROVE  /\ Debris \in SUBSET Key
           /\ \A k \in Pending : k \in arch.chunks \/ k \notin blob \/ k \in Debris
BY DEF DelTyped, Debris, Pending, Idle0, ChunkTask, DeleteTask, BlobTask

\* The history after a task stopped.
LEMMA FateOfStop ==
    ASSUME DelTyped, NEW fk \in BOOLEAN,
           fate' = [fate EXCEPT !.orphans = @ \union Debris, !.fk = @ \/ fk]
    PROVE  /\ fate' \in FateType /\ fate'.orphans = fate.orphans \union Debris
           /\ fate'.fk = (fate.fk \/ fk)
           /\ fate'.erased = fate.erased /\ fate'.clean = fate.clean
           /\ fate'.dropped = fate.dropped
           /\ fate'.wiped = fate.wiped /\ fate'.raced = fate.raced
<1>1. fate \in FateType /\ Debris \in SUBSET Key
  BY PendingIsDebris DEF DelTyped
<1> QED
  BY <1>1 DEF FateType

\* The engine is rebuilt from what the rows say.
LEMMA RebuildShape ==
    ASSUME NEW a \in ArchType
    PROVE  /\ rebuildEngine(a) \in SinkType /\ rebuildEngine(a).held = a.chunks
           /\ rebuildEngine(a).ended = a.finals /\ rebuildEngine(a).streams = a.streams
           /\ rebuildEngine(a).take <=> a.streams # {}
           /\ Offline \in SinkType /\ Offline.held = {} /\ Offline.ended = {}
           /\ Offline.streams = {} /\ Offline.take = FALSE
BY DEF ArchType, SinkType, rebuildEngine, Offline

\* An engine that is offline or as the rows have it, with no task, is in step.
LEMMA FreshEngine ==
    ASSUME DelInv, task' = Idle0, sink' \in {rebuildEngine(arch), Offline}, arch' = arch,
           blob' = blob, destroy' = destroy, fate'.raced = fate.raced, room' = room,
           fate'.clean = fate.clean, ring' \subseteq ring, wire' \subseteq wire,
           plan' \subseteq plan, said \subseteq said', toDesk'.haves = {}
    PROVE  sink' \in SinkType /\ EngineInStep' /\ CleanForgotten'
<1>1. arch \in ArchType
  BY DEF DelInv, DelTyped
<1>2. /\ sink' \in SinkType /\ sink'.held \subseteq arch.chunks /\ sink'.ended \subseteq arch.finals
      /\ sink'.streams \subseteq arch.streams /\ (sink'.take => arch.take)
  BY <1>1, RebuildShape DEF DelInv, TakeHasStreams, ArchType
<1>3. ~(task' \in ChunkTask)
  BY DEF Idle0, ChunkTask
<1>4. EngineInStep'
  BY <1>2, <1>3 DEF DelInv, EngineInStep
<1>5. CleanForgotten'
  <2> SUFFICES ASSUME NEW s \in fate.clean PROVE Forgotten(s)'
    BY DEF CleanForgotten
  <2>1. Forgotten(s)
    BY DEF DelInv, CleanForgotten
  <2>2. \A k \in Of({s}) : k \notin ring' /\ k \notin wire' /\ k \notin plan'
    BY <2>1 DEF Forgotten
  <2>3. \A k \in Of({s}) : k \notin arch'.chunks /\ k \notin sink'.held
    BY <1>2, <2>1 DEF Forgotten
  <2>4. s \notin sink'.ended /\ s \notin sink'.streams
    BY <1>2, <2>1 DEF Forgotten
  <2> QED
    BY <1>3, <2>1, <2>2, <2>3, <2>4 DEF Forgotten
<1> QED
  BY <1>2, <1>4, <1>5

\* enqueue's catch: a task that failed, unless on a parent row that should be there.
LEMMA PoisonKeeps ==
    ASSUME DelInv, NEW fk \in BOOLEAN, Poison(fk), fk => fate.raced, room,
           wire' \subseteq wire, said \subseteq said'
    PROVE  DelInv'
<1>1. /\ task' = Idle0 /\ sink' \in {rebuildEngine(arch), Offline}
      /\ toDesk' = [chunks |-> {}, haves |-> {}]
      /\ fate' = [fate EXCEPT !.orphans = @ \union Debris, !.fk = @ \/ fk]
      /\ UNCHANGED <<arch, blob, room, ring, opfs, plan, confirm, destroy>>
  BY DEF Poison, NoMail
<1>2. DelTyped
  BY DEF DelInv
<1>3. /\ fate' \in FateType /\ fate'.orphans = fate.orphans \union Debris
      /\ fate'.fk = (fate.fk \/ fk)
      /\ fate'.erased = fate.erased /\ fate'.clean = fate.clean
      /\ fate'.dropped = fate.dropped
      /\ fate'.wiped = fate.wiped /\ fate'.raced = fate.raced
  BY <1>1, <1>2, FateOfStop
<1>4. sink' \in SinkType /\ EngineInStep' /\ CleanForgotten'
  BY <1>1, <1>3, FreshEngine
<1>5. DelTyped'
  BY <1>1, <1>2, <1>3, <1>4 DEF DelTyped
<1>6. RoomHosts' /\ TakeHasStreams'
  BY <1>1 DEF DelInv, RoomHosts, TakeHasStreams
<1>7. TaskInOrder' /\ Pending' = {}
  BY <1>1 DEF TaskInOrder, Pending, Idle0, ChunkTask, DeleteTask, BlobTask
<1>8. BlobsAccounted'
  BY <1>1, <1>2, <1>3, PendingIsDebris DEF DelInv, BlobsAccounted
<1>9. RowHasBlob' /\ NoMissingParent' /\ DropsOnlyErased'
  BY <1>1, <1>3 DEF DelInv, RowHasBlob, NoMissingParent, DropsOnlyErased
<1> QED
  BY <1>4, <1>5, <1>6, <1>7, <1>8, <1>9 DEF DelInv

\* A task that fails poisons the chain, which happens only while the room is hosted.
LEMMA TaskFailsKeeps == ASSUME DelInv, TaskFails PROVE DelInv'
<1>1. room
  BY DEF DelInv, RoomHosts, TaskFails, DelTyped
<1> QED
  BY <1>1, PoisonKeeps DEF TaskFails

\* Whatever makes sure of the rows of a stream s that nobody deleted cleanly: the
\* engine and the rows grow by s, and perhaps the writing of a chunk of s begins.
LEMMA EnsuredStep ==
    ASSUME DelInv, room, task = Idle0, NEW s \in DelStream, s \notin fate.clean,
           arch' \in ArchType, arch'.chunks = arch.chunks,
           arch.streams \subseteq arch'.streams, arch'.streams \subseteq arch.streams \union {s},
           arch'.finals \subseteq arch.finals \union {s}, arch'.streams # {} => arch'.take,
           ~fate.raced => s \in arch'.streams,
           sink' \in SinkType, sink'.ended \subseteq sink.ended \union {s},
           sink'.streams = sink.streams \union {s},
           \/ task' = Idle0 /\ sink'.held = sink.held
           \/ /\ task' \in ChunkTask /\ task'.pc = "put" /\ task'.key[1] = s
              /\ sink'.held = sink.held \union {task'.key},
           said \subseteq said', wire' \subseteq wire,
           UNCHANGED <<blob, room, ring, plan, opfs, toDesk, confirm, destroy, fate>>
    PROVE  DelInv'
<1>1. DelTyped' /\ RoomHosts'
  BY DEF DelInv, DelTyped, RoomHosts
<1>2. TaskInOrder' /\ Pending' = {}
  BY DEF TaskInOrder, Pending, Idle0, ChunkTask, DeleteTask, BlobTask
<1>3. Pending = {}
  BY DEF Pending, Idle0
<1>4. EngineInStep'
  <2> SUFFICES ASSUME ~fate.raced
               PROVE  /\ \A k \in sink'.held : k \in arch'.chunks \/ (task' \in ChunkTask /\ task'.key = k)
                      /\ sink'.streams \subseteq arch'.streams
                      /\ sink'.take => arch'.take
                      /\ task' \in ChunkTask => task'.key[1] \in sink'.streams
                      /\ destroy.pc = "idle"
    BY DEF EngineInStep
  <2>1. task \notin ChunkTask
    BY DEF Idle0, ChunkTask
  <2>2. \A k \in sink'.held : k \in arch'.chunks \/ (task' \in ChunkTask /\ task'.key = k)
    BY <2>1 DEF DelInv, EngineInStep
  <2>3. task' \in ChunkTask => task'.key[1] \in sink'.streams
    BY DEF Idle0, ChunkTask
  <2>4. sink'.streams \subseteq arch'.streams /\ arch'.take /\ destroy.pc = "idle"
    BY DEF DelInv, EngineInStep
  <2> QED
    BY <2>2, <2>3, <2>4
<1>5. CleanForgotten'
  <2> SUFFICES ASSUME NEW t \in fate.clean PROVE Forgotten(t)'
    BY DEF CleanForgotten
  <2>1. Forgotten(t) /\ t # s
    BY DEF DelInv, CleanForgotten
  <2>2. task' \in ChunkTask => task'.key[1] # t
    BY <2>1 DEF Idle0, ChunkTask
  <2>3. \A k \in Of({t}) : k \notin sink'.held
    <3>1. \A k \in Of({t}) : task' \in ChunkTask => k # task'.key
      BY ZenonT(60), <2>2, KeyOfStream DEF ChunkTask
    <3>2. task' = Idle0 => task' \notin ChunkTask
      BY DEF Idle0, ChunkTask
    <3> QED
      BY <2>1, <3>1, <3>2 DEF Forgotten
  <2>4. \A k \in Of({t}) : k \notin ring' /\ k \notin wire' /\ k \notin plan' /\ k \notin arch'.chunks
    BY <2>1 DEF Forgotten
  <2>5. t \notin arch'.streams /\ t \notin arch'.finals /\ t \notin sink'.ended /\ t \notin sink'.streams
    BY <2>1 DEF Forgotten
  <2> QED
    BY <2>1, <2>2, <2>3, <2>4, <2>5 DEF Forgotten
<1>6. RowHasBlob' /\ BlobsAccounted' /\ NoMissingParent' /\ DropsOnlyErased' /\ TakeHasStreams'
  BY <1>2, <1>3 DEF DelInv, RowHasBlob, BlobsAccounted, NoMissingParent, DropsOnlyErased, TakeHasStreams
<1> QED
  BY <1>1, <1>2, <1>4, <1>5, <1>6 DEF DelInv

\* The rows an announce or a chunk makes sure of.
LEMMA EnsuredRowsShape ==
    ASSUME DelInv, NEW s \in DelStream, NEW named \in BOOLEAN, EnsureFits(s, named), NEW a,
           a = IF Inserts(s, named) THEN ensuredRows(s) ELSE arch
    PROVE  /\ a \in ArchType /\ a.chunks = arch.chunks /\ a.finals = arch.finals
           /\ arch.streams \subseteq a.streams /\ a.streams \subseteq arch.streams \union {s}
           /\ a.streams # {} => a.take
           /\ ~fate.raced => s \in a.streams
<1>1. arch \in ArchType /\ sink \in SinkType
  BY DEF DelInv, DelTyped
<1>2. CASE Inserts(s, named)
  <2>1. a = ensuredRows(s)
    BY <1>2
  <2>2. /\ a \in ArchType /\ a.chunks = arch.chunks /\ a.finals = arch.finals
        /\ a.streams = arch.streams \union {s} /\ a.take = (arch.take \/ ~sink.take)
    <3> DEFINE had == ~sink.take
               ses == arch.session \/ had
               tk == arch.take \/ had
               sts == arch.streams \union {s}
    <3>1. ses \in BOOLEAN /\ tk \in BOOLEAN /\ sts \in SUBSET DelStream
      BY <1>1 DEF ArchType, SinkType
    <3>2. a = [[[arch EXCEPT !.session = ses] EXCEPT !.take = tk] EXCEPT !.streams = sts]
      BY <1>1, <2>1 DEF ensuredRows, ArchType
    <3>3. tk = (arch.take \/ ~sink.take) /\ sts = arch.streams \union {s}
      OBVIOUS
    <3> HIDE DEF ses, tk, sts
    <3>4. /\ a \in ArchType /\ a.chunks = arch.chunks /\ a.finals = arch.finals
          /\ a.streams = sts /\ a.take = tk
      BY <1>1, <3>1, <3>2 DEF ArchType
    <3> QED
      BY <3>3, <3>4
  <2>3. sink.take => arch.take
    BY <1>2 DEF EnsureFits
  <2> QED
    BY <2>2, <2>3
<1>3. CASE ~Inserts(s, named)
  <2>1. a = arch /\ s \in sink.streams
    BY <1>3 DEF Inserts
  <2> QED
    BY <1>1, <2>1 DEF DelInv, TakeHasStreams, EngineInStep
<1> QED
  BY <1>2, <1>3

\* Between tasks no row is missing its parent: an insert that does not fit can only
\* come after a room was opened during a hard deletion.
LEMMA MisfitIsRaced ==
    ASSUME DelInv, NEW s, NEW named, ~EnsureFits(s, named)
    PROVE  fate.raced
BY DEF DelInv, EngineInStep, EnsureFits, DelTyped, FateType

\* A chunk that anybody can still send is of a stream nobody deleted cleanly.
LEMMA SendableIsNotClean ==
    ASSUME DelInv, NEW k \in Key, k \in ring \/ k \in wire
    PROVE  k[1] \notin fate.clean
<1>1. k \in Of({k[1]})
  BY KeyOfStream
<1> QED
  BY <1>1 DEF DelInv, CleanForgotten, Forgotten

\* A chunk that reaches the chain is a duplicate, or is held and its rows ensured.
LEMMA IngestKeeps ==
    ASSUME DelInv, NEW k \in Key, NEW from \in {"recorder", "desk"}, Ingest(k, from),
           k[1] \notin fate.clean, wire' \subseteq wire
    PROVE  DelInv'
<1>1. /\ room /\ task = Idle0 /\ said' = said /\ wire' \subseteq Key /\ k[1] \in DelStream
      /\ toDesk = [chunks |-> toDesk.chunks, haves |-> toDesk.haves]
      /\ plan \subseteq Key /\ opfs \subseteq Key
      /\ \A h \in toDesk.haves : h[1] \notin fate.clean
  BY DEF Ingest, Free, DelInv, DelTyped, Key, CleanForgotten, Forgotten
<1>2. CASE k \in sink.held
  <2>1. UNCHANGED <<arch, blob, room, sink, task, ring, said, opfs, plan, toDesk, confirm, destroy, fate>>
    BY <1>2 DEF Ingest
  <2> QED
    BY <1>1, <2>1, MailStep
<1>3. CASE k \notin sink.held /\ EnsureFits(k[1], FALSE)
  <2>1. /\ arch' = IF Inserts(k[1], FALSE) THEN ensuredRows(k[1]) ELSE arch
        /\ sink' = [[sink EXCEPT !.held = @ \union {k}] EXCEPT !.take = TRUE, !.streams = @ \union {k[1]}]
        /\ task' = [kind |-> "chunk", pc |-> "put", key |-> k, from |-> from]
        /\ UNCHANGED <<blob, room, ring, plan, opfs, toDesk, confirm, destroy, fate>>
    BY <1>3 DEF Ingest, ensureStreamPersisted
  <2>2. sink \in SinkType
    BY DEF DelInv, DelTyped
  <2>3. /\ sink' \in SinkType /\ sink'.held = sink.held \union {k} /\ sink'.ended = sink.ended
        /\ sink'.streams = sink.streams \union {k[1]}
    BY <1>1, <2>1, <2>2 DEF SinkType
  <2>4. task' \in ChunkTask /\ task'.pc = "put" /\ task'.key = k
    BY <2>1 DEF ChunkTask
  <2>5. /\ arch' \in ArchType /\ arch'.chunks = arch.chunks /\ arch'.finals = arch.finals
        /\ arch.streams \subseteq arch'.streams /\ arch'.streams \subseteq arch.streams \union {k[1]}
        /\ arch'.streams # {} => arch'.take
        /\ ~fate.raced => k[1] \in arch'.streams
    BY <1>1, <1>3, <2>1, EnsuredRowsShape
  <2> QED
    BY <1>1, <2>1, <2>3, <2>4, <2>5, EnsuredStep
<1>4. CASE k \notin sink.held /\ ~EnsureFits(k[1], FALSE)
  <2>1. Poison(TRUE)
    BY <1>4 DEF Ingest
  <2> QED
    BY <1>1, <1>4, <2>1, MisfitIsRaced, PoisonKeeps
<1> QED
  BY <1>2, <1>3, <1>4

\* persistChunk: the blob before its row.
LEMMA PersistBlobKeeps == ASSUME DelInv, persistBlob PROVE DelInv'
<1>1. /\ task \in ChunkTask /\ task.pc = "put"
      /\ blob' = blob \union {task.key} /\ task' = [task EXCEPT !.pc = "insert"]
      /\ UNCHANGED <<arch, room, sink, ring, said, opfs, plan, wire, toDesk, confirm, destroy, fate>>
  BY TaskKinds DEF DelInv, persistBlob, recorder, deskSide
<1>2. task' \in ChunkTask /\ task'.pc = "insert" /\ task'.key = task.key /\ room
  BY <1>1 DEF ChunkTask, DelInv, RoomHosts, Idle0
<1>3. DelTyped' /\ RoomHosts'
  BY <1>1, <1>2 DEF DelInv, DelTyped, RoomHosts
<1>4. TaskInOrder'
  BY <1>1, <1>2 DEF TaskInOrder, ChunkTask, DeleteTask, BlobTask
<1>5. Pending = {} /\ Pending' = {task.key}
  BY <1>1, <1>2 DEF Pending, ChunkTask
<1>6. EngineInStep'
  <2> SUFFICES ASSUME ~fate.raced PROVE EngineInStep'
    BY <1>1 DEF EngineInStep
  <2>1. destroy.pc = "idle" \/ ~(destroy.pc \in {"blobs", "rows", "session"})
    BY <1>2 DEF DelInv, EngineInStep
  <2>2. destroy.pc \notin {"blobs", "rows", "session"} /\ (destroy.pc # "idle" => ~room)
    BY <1>2, <2>1 DEF DelInv, EngineInStep
  <2> QED
    BY <1>1, <1>2, <2>2 DEF DelInv, EngineInStep
<1>7. CleanForgotten' /\ TakeHasStreams'
  BY <1>1, <1>2 DEF DelInv, CleanForgotten, Forgotten, TakeHasStreams
<1>8. RowHasBlob' /\ BlobsAccounted' /\ NoMissingParent' /\ DropsOnlyErased'
  BY <1>1, <1>5 DEF DelInv, RowHasBlob, BlobsAccounted, NoMissingParent, DropsOnlyErased
<1> QED
  BY <1>3, <1>4, <1>6, <1>7, <1>8 DEF DelInv

\* persistChunk: then the row, whose stream's is there.
LEMMA PersistRowKeeps == ASSUME DelInv, persistRow PROVE DelInv'
<1>1. task \in ChunkTask /\ task.pc = "insert" /\ room /\ task.key \in Key /\ task # Idle0
  BY TaskKinds DEF DelInv, persistRow, RoomHosts, ChunkTask, Idle0
<1>2. CASE task.key[1] \in arch.streams
  <2>1. /\ arch' = [arch EXCEPT !.chunks = @ \union {task.key}] /\ task' = Idle0
        /\ UNCHANGED <<blob, room, sink, ring, said, opfs, plan, wire, confirm, destroy, fate>>
    BY <1>2 DEF persistRow
  <2>2. arch \in ArchType /\ DelTyped
    BY DEF DelInv, DelTyped
  <2>3. /\ arch' \in ArchType /\ arch'.chunks = arch.chunks \union {task.key}
        /\ arch'.streams = arch.streams /\ arch'.finals = arch.finals /\ arch'.take = arch.take
    BY <1>1, <2>1, <2>2 DEF ArchType
  <2>4. toDesk' = [chunks |-> toDesk'.chunks, haves |-> toDesk.haves]
    BY <1>2, <2>2 DEF persistRow, DelTyped
  <2>5. DelTyped' /\ RoomHosts'
    <3>1. toDesk' = [chunks |-> toDesk'.chunks, haves |-> toDesk'.haves]
      BY <2>4
    <3>2. DelTyped'
      BY <2>1, <2>2, <2>3, <3>1 DEF DelTyped
    <3> QED
      BY <1>1, <2>1, <3>2 DEF DelInv, RoomHosts
  <2>6. task' \notin ChunkTask /\ Pending = {task.key} /\ Pending' = {} /\ TaskInOrder'
    BY <1>1, <2>1 DEF Idle0, ChunkTask, DeleteTask, BlobTask, Pending, TaskInOrder
  <2>7. EngineInStep'
    BY <1>1, <2>1, <2>3, <2>6 DEF DelInv, EngineInStep
  <2>8. CleanForgotten'
    <3> SUFFICES ASSUME NEW s \in fate.clean PROVE Forgotten(s)'
      BY <2>1 DEF CleanForgotten
    <3>1. Forgotten(s) /\ task.key[1] # s
      BY <1>1 DEF DelInv, CleanForgotten, Forgotten
    <3>2. \A k \in Of({s}) : k \notin arch'.chunks
      BY ZenonT(60), <1>1, <2>3, <3>1, KeyOfStream DEF Forgotten
    <3>3. toDesk'.haves = toDesk.haves
      BY <2>4
    <3>4. \A k \in Of({s}) : k \notin sink'.held /\ k \notin ring' /\ k \notin wire' /\ k \notin plan'
      BY <2>1, <3>1 DEF Forgotten
    <3> QED
      BY <2>1, <2>3, <2>6, <3>1, <3>2, <3>3, <3>4 DEF Forgotten
  <2>9. RowHasBlob' /\ BlobsAccounted'
    BY <1>1, <2>1, <2>3, <2>6 DEF DelInv, RowHasBlob, BlobsAccounted, TaskInOrder
  <2>10. NoMissingParent' /\ DropsOnlyErased' /\ TakeHasStreams'
    BY <2>1, <2>3 DEF DelInv, NoMissingParent, DropsOnlyErased, TakeHasStreams
  <2> QED
    BY <2>5, <2>6, <2>7, <2>8, <2>9, <2>10 DEF DelInv
<1>3. CASE task.key[1] \notin arch.streams
  <2>1. Poison(TRUE) /\ UNCHANGED <<wire, said>>
    BY <1>3 DEF persistRow
  <2>2. fate.raced
    BY <1>1, <1>3 DEF DelInv, EngineInStep, DelTyped, FateType
  <2> QED
    BY <1>1, <2>1, <2>2, PoisonKeeps
<1> QED
  BY <1>2, <1>3

\* stream-announce: noteStream writes the row.
LEMMA AnnounceKeeps == ASSUME DelInv, NEW s \in DelStream, RecorderAnnounces(s) PROVE DelInv'
<1>1. /\ room /\ task = Idle0 /\ said \subseteq said' /\ s \notin fate.clean
      /\ sink \in SinkType
  BY DEF RecorderAnnounces, Free, DelInv, DelTyped, CleanForgotten, Forgotten
<1>2. CASE EnsureFits(s, TRUE)
  <2>1. /\ arch' = IF Inserts(s, TRUE) THEN ensuredRows(s) ELSE arch
        /\ sink' = [sink EXCEPT !.take = TRUE, !.streams = @ \union {s}]
        /\ UNCHANGED <<blob, room, task, ring, plan, wire, opfs, toDesk, confirm, destroy, fate>>
    BY <1>2 DEF RecorderAnnounces, ensureStreamPersisted, deskSide
  <2>2. /\ sink' \in SinkType /\ sink'.held = sink.held /\ sink'.ended = sink.ended
        /\ sink'.streams = sink.streams \union {s}
    BY <1>1, <2>1 DEF SinkType
  <2>3. /\ arch' \in ArchType /\ arch'.chunks = arch.chunks /\ arch'.finals = arch.finals
        /\ arch.streams \subseteq arch'.streams /\ arch'.streams \subseteq arch.streams \union {s}
        /\ arch'.streams # {} => arch'.take
        /\ ~fate.raced => s \in arch'.streams
    BY <1>2, <2>1, EnsuredRowsShape
  <2> QED
    BY <1>1, <2>1, <2>2, <2>3, EnsuredStep
<1>3. CASE ~EnsureFits(s, TRUE)
  <2>1. Poison(TRUE) /\ UNCHANGED wire
    BY <1>3 DEF RecorderAnnounces
  <2> QED
    BY <1>1, <1>3, <2>1, MisfitIsRaced, PoisonKeeps
<1> QED
  BY <1>2, <1>3

\* stream-final: setFinalSeq, on the row it makes sure of.
LEMMA FinalKeeps == ASSUME DelInv, NEW s \in DelStream, RecorderFinals(s) PROVE DelInv'
<1>1. /\ room /\ task = Idle0 /\ said \subseteq said' /\ s \notin fate.clean
      /\ sink \in SinkType
  BY DEF RecorderFinals, Free, DelInv, DelTyped, CleanForgotten, Forgotten
<1>2. CASE EnsureFits(s, FALSE)
  <2> DEFINE rows == IF Inserts(s, FALSE) THEN ensuredRows(s) ELSE arch
             over == IF sink.up THEN sink.ended \union {s} ELSE sink.ended
             fins == rows.finals \union ({s} \intersect rows.streams)
  <2>1. /\ arch' = [rows EXCEPT !.finals = fins]
        /\ sink' = [sink EXCEPT !.take = TRUE, !.streams = @ \union {s}, !.ended = over]
        /\ UNCHANGED <<blob, room, task, ring, plan, wire, opfs, toDesk, confirm, destroy, fate>>
    BY <1>1, <1>2 DEF RecorderFinals, deskSide, SinkType
  <2>2. over \in SUBSET DelStream /\ over \subseteq sink.ended \union {s}
    BY <1>1 DEF SinkType
  <2>3. /\ rows \in ArchType /\ rows.chunks = arch.chunks /\ rows.finals = arch.finals
        /\ arch.streams \subseteq rows.streams /\ rows.streams \subseteq arch.streams \union {s}
        /\ rows.streams # {} => rows.take
        /\ ~fate.raced => s \in rows.streams
    BY <1>2, EnsuredRowsShape
  <2>4. fins \in SUBSET DelStream /\ fins \subseteq arch.finals \union {s}
    BY <2>3 DEF ArchType
  <2> HIDE DEF rows, over, fins
  <2>5. /\ sink' \in SinkType /\ sink'.held = sink.held /\ sink'.ended = over
        /\ sink'.streams = sink.streams \union {s}
    BY <1>1, <2>1, <2>2 DEF SinkType
  <2>6. /\ arch' \in ArchType /\ arch'.chunks = arch.chunks /\ arch'.finals = fins
        /\ arch'.streams = rows.streams /\ arch'.take = rows.take
    BY <2>1, <2>3, <2>4 DEF ArchType
  <2> QED
    BY <1>1, <2>1, <2>2, <2>3, <2>4, <2>5, <2>6, EnsuredStep
<1>3. CASE ~EnsureFits(s, FALSE)
  <2>1. Poison(TRUE) /\ UNCHANGED wire
    BY <1>3 DEF RecorderFinals
  <2> QED
    BY <1>1, <1>3, <2>1, MisfitIsRaced, PoisonKeeps
<1> QED
  BY <1>2, <1>3

\* A step that only takes away from rows and engine, between tasks or to begin a
\* deletion: the engine goes first.
LEMMA ShrinkStep ==
    ASSUME DelInv, room, task \notin ChunkTask, task' \notin ChunkTask,
           arch' \in ArchType, sink' \in SinkType, TaskInOrder', Pending' = Pending,
           task' \in {Idle0} \union DeleteTask,
           arch'.streams = arch.streams, arch'.chunks = arch.chunks, arch'.finals = arch.finals,
           arch'.streams # {} => arch'.take,
           sink'.held \subseteq sink.held, sink'.ended \subseteq sink.ended,
           sink'.streams \subseteq sink.streams,
           ~fate.raced /\ sink'.take => arch'.take, confirm' \subseteq fate.erased,
           UNCHANGED <<blob, room, ring, said, wire, plan, opfs, toDesk, destroy, fate>>
    PROVE  DelInv'
<1>1. DelTyped' /\ RoomHosts'
  BY DEF DelInv, DelTyped, RoomHosts
<1>2. EngineInStep'
  BY DEF DelInv, EngineInStep
<1>3. CleanForgotten' /\ TakeHasStreams'
  BY DEF DelInv, CleanForgotten, Forgotten, TakeHasStreams
<1>4. RowHasBlob' /\ BlobsAccounted' /\ NoMissingParent' /\ DropsOnlyErased'
  BY DEF DelInv, RowHasBlob, BlobsAccounted, NoMissingParent, DropsOnlyErased
<1> QED
  BY <1>1, <1>2, <1>3, <1>4 DEF DelInv

\* A take without streams goes, and the engine with its rows.
LEMMA TakeGoes ==
    ASSUME DelTyped,
           arch' = [arch EXCEPT !.take = arch.take /\ arch.streams # {}] \/
           arch' = [arch EXCEPT !.take = arch.streams # {}],
           sink' = [sink EXCEPT !.take = @ /\ arch.streams # {}],
           TakeHasStreams
    PROVE  /\ arch' \in ArchType /\ sink' \in SinkType
           /\ arch'.streams = arch.streams /\ arch'.chunks = arch.chunks
           /\ arch'.finals = arch.finals
           /\ arch'.streams # {} => arch'.take
           /\ sink'.held = sink.held /\ sink'.ended = sink.ended
           /\ sink'.streams = sink.streams /\ (sink'.take => arch'.take)
<1> DEFINE some == arch.streams # {}
           stays == sink.take /\ some
           kept == arch.take /\ some
<1>1. some \in BOOLEAN /\ stays \in BOOLEAN /\ kept \in BOOLEAN /\ arch \in ArchType /\ sink \in SinkType
  BY DEF DelTyped, ArchType, SinkType
<1>2. (stays => some) /\ (some => kept) /\ (kept => some)
  BY DEF TakeHasStreams
<1>3. arch' = [arch EXCEPT !.take = kept] \/ arch' = [arch EXCEPT !.take = some]
  OBVIOUS
<1>4. sink' = [sink EXCEPT !.take = stays]
  BY <1>1 DEF SinkType
<1>5. some <=> arch.streams # {}
  OBVIOUS
<1> HIDE DEF some, stays, kept
<1>6. sink' \in SinkType /\ sink'.held = sink.held /\ sink'.ended = sink.ended
  BY <1>1, <1>4 DEF SinkType
<1>7. sink'.streams = sink.streams /\ sink'.take = stays
  BY <1>1, <1>4 DEF SinkType
<1>8. /\ arch' \in ArchType /\ arch'.streams = arch.streams /\ arch'.chunks = arch.chunks
      /\ arch'.finals = arch.finals /\ (arch'.take = kept \/ arch'.take = some)
  BY <1>1, <1>3 DEF ArchType
<1> QED
  BY <1>1, <1>2, <1>5, <1>6, <1>7, <1>8

\* take-stop drops a take that has no stream.
LEMMA TakeStopKeeps == ASSUME DelInv, noteTakeStop PROVE DelInv'
<1>1. /\ room /\ task = Idle0 /\ task' = Idle0
      /\ UNCHANGED <<blob, room, ring, said, wire, plan, opfs, toDesk, confirm, destroy, fate>>
  BY DEF noteTakeStop, Free, recorder, deskSide
<1>2. task \notin ChunkTask /\ task \notin DeleteTask /\ task \notin BlobTask
  BY <1>1 DEF Idle0, ChunkTask, DeleteTask, BlobTask
<1>3. TaskInOrder' /\ Pending' = Pending /\ task' = task
  BY <1>1, <1>2 DEF TaskInOrder, Pending
<1>4. /\ arch' \in ArchType /\ sink' \in SinkType
      /\ arch'.streams = arch.streams /\ arch'.chunks = arch.chunks
      /\ arch'.finals = arch.finals
      /\ arch'.streams # {} => arch'.take
      /\ sink'.held = sink.held /\ sink'.ended = sink.ended
      /\ sink'.streams = sink.streams /\ (sink'.take => arch'.take)
  BY TakeGoes DEF noteTakeStop, DelInv
<1>5. confirm' \subseteq fate.erased
  BY <1>1 DEF DelInv, DelTyped
<1> QED
  BY <1>1, <1>2, <1>3, <1>4, <1>5, ShrinkStep

\* A deletion begins with the engine, and is refused while the take is rolling.
LEMMA DeskDeletesKeeps ==
    ASSUME DelInv, NEW S \in SUBSET DelStream, DeskDeletes(S) PROVE DelInv'
<1>1. /\ room /\ task = Idle0 /\ DelTyped /\ TakeHasStreams
      /\ UNCHANGED <<arch, blob, room, ring, said, wire, plan, opfs, toDesk, confirm, destroy, fate>>
  BY DEF DeskDeletes, Free, recorder, DelInv
<1>2. CASE rolling
  <2>1. UNCHANGED <<sink, task>>
    BY <1>2 DEF DeskDeletes
  <2>2. /\ ring' \subseteq Key /\ wire' \subseteq Key /\ plan' \subseteq Key /\ opfs' \subseteq Key
        /\ toDesk' = [chunks |-> toDesk'.chunks, haves |-> toDesk'.haves]
        /\ \A h \in toDesk'.haves : h[1] \notin fate.clean
    BY <1>1 DEF DelTyped, DelInv, CleanForgotten, Forgotten
  <2> QED
    BY <1>1, <2>1, <2>2, MailStep
<1>3. CASE ~rolling
  <2> DEFINE held == sink.held \ Of(S)
             ended == sink.ended \ S
             strs == sink.streams \ S
  <2>1. /\ sink' = [sink EXCEPT !.held = held, !.ended = ended, !.streams = strs]
        /\ task' = [kind |-> "delete", pc |-> "rows", streams |-> S]
    BY <1>1, <1>3 DEF DeskDeletes, forgotten, DelTyped, SinkType
  <2>2. /\ sink \in SinkType /\ held \in SUBSET Key /\ ended \in SUBSET DelStream
        /\ strs \in SUBSET DelStream
    BY <1>1 DEF DelTyped, SinkType
  <2>3. /\ held \intersect Of(S) = {} /\ ended \intersect S = {} /\ strs \intersect S = {}
        /\ held \subseteq sink.held /\ ended \subseteq sink.ended /\ strs \subseteq sink.streams
    OBVIOUS
  <2> HIDE DEF held, ended, strs
  <2>4. /\ sink' \in SinkType /\ sink'.held = held /\ sink'.ended = ended
        /\ sink'.streams = strs /\ sink'.take = sink.take
    BY <2>1, <2>2 DEF SinkType
  <2>5. /\ task' \in DeleteTask /\ task'.pc = "rows" /\ task'.streams = S
        /\ task' \notin ChunkTask /\ task' \notin BlobTask /\ task \notin ChunkTask
        /\ Pending' = {} /\ Pending = {}
    BY <1>1, <2>1 DEF DeleteTask, ChunkTask, BlobTask, Pending, Idle0
  <2>6. TaskInOrder'
    BY <2>3, <2>4, <2>5 DEF TaskInOrder
  <2>7. arch' \in ArchType /\ (arch'.streams # {} => arch'.take) /\ confirm' \subseteq fate.erased
    BY <1>1 DEF DelTyped, TakeHasStreams
  <2>8. ~fate.raced /\ sink'.take => arch'.take
    BY <1>1, <2>4 DEF DelInv, EngineInStep
  <2> QED
    BY <1>1, <2>3, <2>4, <2>5, <2>6, <2>7, <2>8, ShrinkStep
<1> QED
  BY <1>2, <1>3

\* A take that lost its last stream goes, and the confirm fans out.
LEMMA DeleteTakeKeeps == ASSUME DelInv, DeleteTake PROVE DelInv'
<1>1. /\ task \in DeleteTask /\ task.pc = "take" /\ task' = Idle0 /\ DelTyped /\ TakeHasStreams
      /\ confirm' = confirm \union task.streams
      /\ UNCHANGED <<blob, room, ring, said, wire, plan, opfs, toDesk, destroy, fate>>
  BY TaskKinds DEF DeleteTake, recorder, DelInv
<1>2. /\ task \notin ChunkTask /\ task \notin BlobTask /\ task # Idle0 /\ task' \notin ChunkTask
      /\ Pending = {} /\ Pending' = {} /\ TaskInOrder'
  BY <1>1 DEF Idle0, ChunkTask, DeleteTask, BlobTask, Pending, TaskInOrder
<1>3. room
  BY <1>2 DEF DelInv, RoomHosts
<1>4. confirm' \subseteq fate.erased
  BY <1>1 DEF DelInv, DelTyped, TaskInOrder
<1>5. arch \in ArchType
  BY <1>1 DEF DelTyped
<1>6. /\ arch' = [arch EXCEPT !.take = arch.take /\ arch.streams # {}]
      /\ sink' = [sink EXCEPT !.take = @ /\ arch.streams # {}]
  BY <1>5 DEF DeleteTake, ArchType
<1>7. /\ arch' \in ArchType /\ sink' \in SinkType
      /\ arch'.streams = arch.streams /\ arch'.chunks = arch.chunks
      /\ arch'.finals = arch.finals
      /\ arch'.streams # {} => arch'.take
      /\ sink'.held = sink.held /\ sink'.ended = sink.ended
      /\ sink'.streams = sink.streams /\ (sink'.take => arch'.take)
  BY <1>1, <1>6, TakeGoes
<1> QED
  BY <1>1, <1>2, <1>3, <1>4, <1>7, ShrinkStep

\* retention.deleteStreams: the rows go, and with them what nobody can send again.
LEMMA DeleteRowsKeeps == ASSUME DelInv, DeleteRows PROVE DelInv'
<1> DEFINE S == task.streams
           gone == arch.chunks \intersect Of(S)
           quiet == {s \in S : Quiet(s)}
           chunks == arch.chunks \ Of(S)
           strs == arch.streams \ S
           fins == arch.finals \ S
<1>1. /\ task \in DeleteTask /\ task.pc = "rows" /\ DelTyped
      /\ task' = [kind |-> "delete", pc |-> "blobs", streams |-> S, keys |-> gone]
      /\ UNCHANGED <<blob, room, sink, ring, said, wire, plan, opfs, toDesk, confirm, destroy>>
  BY TaskKinds DEF DeleteRows, recorder, deskSide, DelInv
<1>2. arch \in ArchType /\ fate \in FateType
  BY <1>1 DEF DelTyped
<1>3. /\ arch' = [arch EXCEPT !.streams = strs, !.chunks = chunks, !.finals = fins]
      /\ fate' = [fate EXCEPT !.erased = @ \union S, !.clean = @ \union quiet]
  BY <1>2 DEF DeleteRows, ArchType
<1>4. /\ gone \in SUBSET Key /\ quiet \in SUBSET DelStream /\ chunks \in SUBSET Key
      /\ strs \in SUBSET DelStream /\ fins \in SUBSET DelStream /\ S \in SUBSET DelStream
  BY <1>1, <1>2 DEF ArchType, DeleteTask
<1>5. /\ sink.held \intersect Of(S) = {} /\ sink.streams \intersect S = {}
      /\ sink.ended \intersect S = {} /\ room
  BY <1>1 DEF DelInv, TaskInOrder, RoomHosts, Idle0, DeleteTask
<1>6. /\ gone \intersect chunks = {} /\ arch.chunks = gone \union chunks
      /\ chunks \intersect Of(S) = {}
      /\ \A s \in quiet : s \in S /\ Quiet(s) /\ s \notin strs /\ s \notin fins
      /\ strs \subseteq arch.streams /\ fins \subseteq arch.finals
      /\ \A s \in arch.streams : s \notin S => s \in strs
      /\ \A k \in arch.chunks : k \notin Of(S) => k \in chunks
  OBVIOUS
<1>7. \A s \in quiet : \A k \in Of({s}) : k \in Of(S)
  BY <1>6 DEF Of
<1> HIDE DEF gone, quiet, chunks, strs, fins, S
<1>8. /\ arch' \in ArchType /\ arch'.streams = strs /\ arch'.chunks = chunks
      /\ arch'.finals = fins /\ arch'.take = arch.take
  BY <1>2, <1>3, <1>4 DEF ArchType
<1>9. /\ fate' \in FateType /\ fate'.erased = fate.erased \union S
      /\ fate'.clean = fate.clean \union quiet /\ fate'.orphans = fate.orphans
      /\ fate'.dropped = fate.dropped /\ fate'.fk = fate.fk /\ fate'.wiped = fate.wiped
      /\ fate'.raced = fate.raced
  BY <1>2, <1>3, <1>4 DEF FateType
<1>10. /\ task' \in BlobTask /\ task'.keys = gone /\ task'.streams = S /\ Pending' = gone
       /\ Pending = {} /\ task' \notin ChunkTask /\ task \notin ChunkTask /\ task' \notin DeleteTask
  BY <1>1, <1>4 DEF BlobTask, ChunkTask, DeleteTask, Pending
<1>11. DelTyped' /\ RoomHosts' /\ TakeHasStreams'
  BY <1>1, <1>5, <1>6, <1>8, <1>9, <1>10 DEF DelInv, DelTyped, RoomHosts, TakeHasStreams
<1>12. TaskInOrder'
  BY <1>6, <1>8, <1>9, <1>10 DEF TaskInOrder
<1>13. EngineInStep'
  <2>1. ASSUME ~fate.raced, NEW k \in sink.held PROVE k \in chunks
    BY <1>5, <1>6, <1>10, <2>1 DEF DelInv, EngineInStep
  <2> QED
    BY <1>1, <1>5, <1>6, <1>8, <1>9, <1>10, <2>1 DEF DelInv, EngineInStep
<1>14. CleanForgotten'
  <2>1. ASSUME NEW s \in fate.clean PROVE Forgotten(s)'
    <3>1. Forgotten(s)
      BY DEF DelInv, CleanForgotten
    <3> QED
      BY <1>1, <1>6, <1>8, <1>10, <3>1 DEF Forgotten
  <2>2. ASSUME NEW s \in quiet PROVE Forgotten(s)'
    <3>1. /\ s \in S /\ Quiet(s) /\ s \notin strs /\ s \notin fins
          /\ \A k \in Of({s}) : k \in Of(S)
      BY <1>6, <1>7
    <3>2. /\ \A k \in Of({s}) : k \notin ring /\ k \notin wire /\ k \notin plan
          /\ \A h \in toDesk.haves : h[1] # s
          /\ {<<"announce", s>>, <<"final", s>>} \subseteq said
      BY <3>1 DEF Quiet
    <3>3. \A k \in Of({s}) : k \notin chunks /\ k \notin sink.held
      BY <1>5, <1>6, <3>1
    <3> QED
      BY <1>1, <1>5, <1>8, <1>10, <3>1, <3>2, <3>3 DEF Forgotten
  <2> QED
    BY <1>9, <2>1, <2>2 DEF CleanForgotten
<1>15. RowHasBlob' /\ BlobsAccounted' /\ NoMissingParent' /\ DropsOnlyErased'
  BY <1>1, <1>6, <1>8, <1>9, <1>10 DEF DelInv, RowHasBlob, BlobsAccounted, NoMissingParent, DropsOnlyErased
<1> QED
  BY <1>11, <1>12, <1>13, <1>14, <1>15 DEF DelInv

\* Then the blobs; one that stays is accounted for.
LEMMA DeleteBlobsKeeps == ASSUME DelInv, DeleteBlobs PROVE DelInv'
<1>1. /\ task \in BlobTask /\ DelTyped
      /\ task' = [kind |-> "delete", pc |-> "take", streams |-> task.streams]
      /\ UNCHANGED <<arch, room, sink, ring, said, wire, plan, opfs, toDesk, confirm, destroy>>
  BY TaskKinds DEF DeleteBlobs, recorder, deskSide, DelInv
<1>2. /\ task' \in DeleteTask /\ task'.pc = "take" /\ task'.streams = task.streams
      /\ task' \notin BlobTask /\ task' \notin ChunkTask /\ task \notin ChunkTask /\ task # Idle0
      /\ Pending' = {} /\ Pending = task.keys /\ task.keys \in SUBSET Key
  BY <1>1 DEF DeleteTask, BlobTask, ChunkTask, Pending, Idle0
<1>3. PICK left \in SUBSET task.keys :
         /\ blob' = (blob \ task.keys) \union left
         /\ fate' = [fate EXCEPT !.orphans = @ \union left]
  <2>1. CASE blob' = blob \ task.keys /\ fate' = fate
    <3>1. fate' = [fate EXCEPT !.orphans = @ \union {}]
      BY <1>1, <2>1 DEF DelTyped, FateType
    <3> QED
      BY <2>1, <3>1
  <2>2. ASSUME NEW k \in task.keys \intersect blob, blob' = (blob \ task.keys) \union {k},
               fate' = [fate EXCEPT !.orphans = @ \union {k}]
        PROVE  \E left \in SUBSET task.keys :
                  /\ blob' = (blob \ task.keys) \union left
                  /\ fate' = [fate EXCEPT !.orphans = @ \union left]
    BY <2>2
  <2> QED
    BY <2>1, <2>2 DEF DeleteBlobs
<1>4. /\ fate' \in FateType /\ fate'.orphans = fate.orphans \union left
      /\ fate'.erased = fate.erased /\ fate'.clean = fate.clean /\ fate'.dropped = fate.dropped
      /\ fate'.fk = fate.fk /\ fate'.wiped = fate.wiped /\ fate'.raced = fate.raced
  BY <1>1, <1>2, <1>3 DEF DelTyped, FateType
<1>5. room /\ task.keys \intersect arch.chunks = {} /\ task.streams \subseteq fate.erased
  BY <1>1, <1>2 DEF DelInv, RoomHosts, TaskInOrder
<1>6. DelTyped' /\ RoomHosts' /\ TaskInOrder' /\ TakeHasStreams'
  BY <1>1, <1>2, <1>4, <1>5 DEF DelInv, DelTyped, RoomHosts, TaskInOrder, TakeHasStreams
<1>7. EngineInStep' /\ CleanForgotten'
  <2>1. EngineInStep'
    BY <1>1, <1>2, <1>4, <1>5 DEF DelInv, EngineInStep
  <2>2. CleanForgotten'
    BY <1>1, <1>2, <1>4 DEF DelInv, CleanForgotten, Forgotten
  <2> QED
    BY <2>1, <2>2
<1>8. RowHasBlob' /\ BlobsAccounted' /\ NoMissingParent' /\ DropsOnlyErased'
  BY <1>1, <1>2, <1>3, <1>4, <1>5 DEF DelInv, RowHasBlob, BlobsAccounted, NoMissingParent, DropsOnlyErased
<1> QED
  BY <1>6, <1>7, <1>8 DEF DelInv

\* Room, chain and channels close: destroySession, and a crash.
LEMMA CloseKeeps ==
    ASSUME DelInv, Closed, NEW w \in BOOLEAN,
           UNCHANGED <<arch, blob, ring, said, opfs, plan, confirm>>,
           \/ destroy' = NoDestroy
           \/ w /\ destroy' = [NoDestroy EXCEPT !.pc = "read"],
           fate' = [fate EXCEPT !.orphans = @ \union Debris, !.wiped = @ \/ w]
    PROVE  DelInv'
<1>1. /\ DelTyped /\ room' = FALSE /\ sink' = Offline /\ task' = Idle0 /\ wire' = {}
      /\ toDesk' = [chunks |-> {}, haves |-> {}]
  BY DEF DelInv, Closed, NoMail
<1>2. fate \in FateType /\ Debris \in SUBSET Key /\ arch \in ArchType
  BY <1>1, PendingIsDebris DEF DelTyped
<1>3. /\ fate' \in FateType /\ fate'.orphans = fate.orphans \union Debris
      /\ fate'.fk = fate.fk /\ fate'.erased = fate.erased /\ fate'.clean = fate.clean
      /\ fate'.dropped = fate.dropped /\ fate'.wiped = (fate.wiped \/ w)
      /\ fate'.raced = fate.raced
  BY <1>2 DEF FateType
<1>4. /\ destroy' \in [pc : {"idle", "read", "blobs", "rows", "session"}, keys : SUBSET Key,
                       streams : SUBSET DelStream]
      /\ destroy'.pc \in {"idle", "read"} /\ (destroy'.pc = "read" => w)
  BY DEF NoDestroy
<1>5. /\ sink' \in SinkType /\ sink'.held = {} /\ sink'.ended = {} /\ sink'.streams = {}
      /\ sink'.take = FALSE
  BY <1>1, <1>2, RebuildShape
<1>6. /\ task' \notin ChunkTask /\ task' \notin DeleteTask /\ task' \notin BlobTask /\ Pending' = {}
  BY <1>1 DEF Idle0, ChunkTask, DeleteTask, BlobTask, Pending
<1>7. DelTyped' /\ RoomHosts' /\ TaskInOrder' /\ TakeHasStreams'
  BY <1>1, <1>3, <1>4, <1>5, <1>6 DEF DelInv, DelTyped, RoomHosts, TaskInOrder, TakeHasStreams
<1>8. EngineInStep'
  BY <1>1, <1>4, <1>5, <1>6 DEF EngineInStep
<1>9. CleanForgotten'
  BY <1>1, <1>3, <1>5, <1>6 DEF DelInv, CleanForgotten, Forgotten
<1>10. RowHasBlob' /\ BlobsAccounted' /\ NoMissingParent' /\ DropsOnlyErased'
  BY <1>1, <1>3, <1>6, PendingIsDebris DEF DelInv, RowHasBlob, BlobsAccounted, NoMissingParent, DropsOnlyErased
<1> QED
  BY <1>7, <1>8, <1>9, <1>10 DEF DelInv

\* destroySession waits for the chain before it closes the room.
LEMMA DestroyStartsKeeps == ASSUME DelInv, DestroyStarts PROVE DelInv'
<1>1. task = Idle0 /\ fate \in FateType
  BY DEF DestroyStarts, DelInv, DelTyped
<1>2. Debris = {}
  BY <1>1 DEF Debris, Idle0
<1>3. fate' = [fate EXCEPT !.orphans = @ \union Debris, !.wiped = @ \/ TRUE]
  BY <1>1, <1>2 DEF DestroyStarts, FateType
<1> QED
  BY <1>3, CloseKeeps DEF DestroyStarts, recorder

\* A crash leaves what the stores have.
LEMMA CrashKeeps == ASSUME DelInv, ServerCrashes PROVE DelInv'
<1>1. fate' = [fate EXCEPT !.orphans = @ \union Debris, !.wiped = @ \/ FALSE]
  BY DEF ServerCrashes, DelInv, DelTyped, FateType
<1> QED
  BY <1>1, CloseKeeps DEF ServerCrashes, recorder

\* deleteSession reads the keys, deletes the blobs, then the rows of the streams it
\* read, then the session's, which takes what is left with it.
LEMMA WipeStep ==
    ASSUME DelInv, destroy.pc # "idle", arch' \in ArchType, blob' \subseteq blob,
           UNCHANGED <<room, sink, task, ring, said, wire, plan, opfs, toDesk, confirm>>,
           fate' \in FateType, fate.erased \subseteq fate'.erased, fate'.clean = fate.clean,
           fate'.orphans = fate.orphans, fate'.dropped = fate.dropped, fate'.fk = fate.fk,
           fate'.wiped = fate.wiped, fate'.raced = fate.raced,
           arch'.streams \subseteq arch.streams, arch'.chunks \subseteq arch.chunks,
           arch'.finals \subseteq arch.finals, arch'.streams # {} => arch'.take,
           ~fate.raced => \A k \in blob' : k \in arch.chunks => k \in arch'.chunks,
           destroy' \in [pc : {"idle", "read", "blobs", "rows", "session"}, keys : SUBSET Key,
                         streams : SUBSET DelStream],
           ~fate.raced /\ destroy'.pc \in {"blobs", "rows", "session"} => arch'.chunks \subseteq destroy'.keys,
           ~fate.raced /\ destroy'.pc \in {"rows", "session"} => blob' \intersect destroy'.keys = {}
    PROVE  DelInv'
<1>1. fate.wiped
  BY DEF DelInv, RoomHosts
<1>2. DelTyped' /\ RoomHosts' /\ TakeHasStreams'
  BY <1>1 DEF DelInv, DelTyped, RoomHosts, TakeHasStreams
<1>3. TaskInOrder'
  BY <1>1 DEF DelInv, TaskInOrder
<1>4. EngineInStep'
  <2> SUFFICES ASSUME ~fate.raced PROVE EngineInStep'
    BY DEF EngineInStep
  <2>1. ~room /\ task = Idle0 /\ sink = Offline
    BY DEF DelInv, EngineInStep, RoomHosts
  <2>2. sink.held = {} /\ sink.streams = {} /\ ~sink.take /\ task \notin ChunkTask
    BY <2>1 DEF Offline, Idle0, ChunkTask
  <2> QED
    BY <2>1, <2>2 DEF EngineInStep
<1>5. CleanForgotten'
  BY DEF DelInv, CleanForgotten, Forgotten
<1>6. RowHasBlob' /\ NoMissingParent' /\ DropsOnlyErased'
  BY <1>1 DEF DelInv, RowHasBlob, NoMissingParent, DropsOnlyErased
<1>7. BlobsAccounted'
  BY DEF DelInv, BlobsAccounted, Pending
<1> QED
  BY <1>2, <1>3, <1>4, <1>5, <1>6, <1>7 DEF DelInv

\* Every step of the hard deletion under way.
LEMMA DestroyKeeps ==
    ASSUME DelInv, DestroyReads \/ DestroyBlobs \/ DestroyRows \/ DestroyEnds PROVE DelInv'
<1> USE DEF serverSide, recorder, deskSide
<1>0. /\ arch \in ArchType /\ fate \in FateType
      /\ destroy \in [pc : {"idle", "read", "blobs", "rows", "session"}, keys : SUBSET Key,
                      streams : SUBSET DelStream]
      /\ arch.streams # {} => arch.take
      /\ (~fate.raced /\ destroy.pc \in {"blobs", "rows", "session"}) => arch.chunks \subseteq destroy.keys
      /\ (~fate.raced /\ destroy.pc \in {"rows", "session"}) => blob \intersect destroy.keys = {}
  BY DEF DelInv, DelTyped, TakeHasStreams, EngineInStep
<1>1. CASE DestroyReads
  <2>1. /\ destroy' \in [pc : {"idle", "read", "blobs", "rows", "session"}, keys : SUBSET Key,
                         streams : SUBSET DelStream]
        /\ destroy'.pc = "blobs" /\ destroy'.keys = arch.chunks
    BY <1>0, <1>1 DEF DestroyReads, ArchType
  <2> QED
    BY <1>0, <1>1, <2>1, WipeStep DEF DestroyReads
<1>2. CASE DestroyBlobs
  <2>1. /\ blob' \subseteq blob
        /\ destroy' \in [pc : {"idle", "read", "blobs", "rows", "session"}, keys : SUBSET Key,
                         streams : SUBSET DelStream]
        /\ \/ destroy'.pc = "rows" /\ destroy'.keys = destroy.keys /\ blob' = blob \ destroy.keys
           \/ destroy'.pc = "idle"
    BY <1>0, <1>2 DEF DestroyBlobs, NoDestroy
  <2> QED
    BY <1>0, <1>2, <2>1, WipeStep DEF DestroyBlobs
<1>3. CASE DestroyRows
  <2> DEFINE S == destroy.streams
             strs == arch.streams \ S
             chunks == arch.chunks \ Of(S)
             fins == arch.finals \ S
  <2>1. /\ arch' = [arch EXCEPT !.streams = strs, !.chunks = chunks, !.finals = fins]
        /\ fate' = [fate EXCEPT !.erased = @ \union S]
        /\ destroy' = [destroy EXCEPT !.pc = "session"] /\ destroy.pc = "rows"
        /\ UNCHANGED <<blob, room, sink, task, ring, said, wire, plan, opfs, toDesk, confirm>>
    BY <1>0, <1>3 DEF DestroyRows, ArchType
  <2>2. /\ strs \subseteq arch.streams /\ chunks \subseteq arch.chunks /\ fins \subseteq arch.finals
        /\ S \in SUBSET DelStream
    BY <1>0
  <2> HIDE DEF S, strs, chunks, fins
  <2>3. /\ arch' \in ArchType /\ arch'.streams = strs /\ arch'.chunks = chunks
        /\ arch'.finals = fins /\ arch'.take = arch.take
    BY <1>0, <2>1, <2>2 DEF ArchType
  <2>4. /\ fate' \in FateType /\ fate'.erased = fate.erased \union S
        /\ fate'.clean = fate.clean /\ fate'.orphans = fate.orphans
        /\ fate'.dropped = fate.dropped /\ fate'.fk = fate.fk /\ fate'.wiped = fate.wiped
        /\ fate'.raced = fate.raced
    BY <1>0, <2>1, <2>2 DEF FateType
  <2>5. /\ destroy' \in [pc : {"idle", "read", "blobs", "rows", "session"}, keys : SUBSET Key,
                         streams : SUBSET DelStream]
        /\ destroy'.pc = "session" /\ destroy'.keys = destroy.keys
    BY <1>0, <2>1
  <2>6. ~fate.raced => \A k \in blob : k \notin arch.chunks
    BY <1>0, <2>1
  <2> QED
    BY <1>0, <2>1, <2>2, <2>3, <2>4, <2>5, <2>6, WipeStep
<1>4. CASE DestroyEnds
  <2>1. /\ arch' = [session |-> FALSE, take |-> FALSE, streams |-> {}, chunks |-> {}, finals |-> {}]
        /\ fate' = [fate EXCEPT !.erased = @ \union arch.streams]
        /\ destroy' = NoDestroy /\ destroy.pc = "session"
        /\ UNCHANGED <<blob, room, sink, task, ring, said, wire, plan, opfs, toDesk, confirm>>
    BY <1>4 DEF DestroyEnds
  <2>2. arch' \in ArchType /\ arch'.streams = {} /\ arch'.chunks = {} /\ arch'.finals = {}
    BY <2>1 DEF ArchType
  <2>3. arch.streams \in SUBSET DelStream
    BY <1>0 DEF ArchType
  <2>4. /\ fate' \in FateType /\ fate.erased \subseteq fate'.erased
        /\ fate'.clean = fate.clean /\ fate'.orphans = fate.orphans
        /\ fate'.dropped = fate.dropped /\ fate'.fk = fate.fk /\ fate'.wiped = fate.wiped
        /\ fate'.raced = fate.raced
    BY <1>0, <2>1, <2>3 DEF FateType
  <2>5. /\ destroy' \in [pc : {"idle", "read", "blobs", "rows", "session"}, keys : SUBSET Key,
                         streams : SUBSET DelStream]
        /\ destroy'.pc = "idle"
    BY <2>1 DEF NoDestroy
  <2>6. ~fate.raced => \A k \in blob : k \notin arch.chunks
    BY <1>0, <2>1
  <2> QED
    BY <1>0, <2>1, <2>2, <2>4, <2>5, <2>6, WipeStep
<1> QED
  BY <1>1, <1>2, <1>3, <1>4

\* A room that opens starts from what the rows say.
LEMMA RoomOpensKeeps == ASSUME DelInv, RoomOpens PROVE DelInv'
<1> DEFINE late == destroy.pc # "idle"
<1>1. /\ arch \in ArchType /\ fate \in FateType /\ task = Idle0 /\ room' = TRUE
      /\ arch' = [arch EXCEPT !.session = TRUE] /\ sink' = rebuildEngine(arch)
      /\ fate' = [fate EXCEPT !.raced = @ \/ late] /\ late \in BOOLEAN
      /\ UNCHANGED <<blob, task, ring, said, wire, plan, opfs, toDesk, confirm, destroy>>
  BY DEF RoomOpens, DelInv, DelTyped, RoomHosts, recorder, deskSide
<1>2. /\ arch' \in ArchType /\ arch'.streams = arch.streams /\ arch'.chunks = arch.chunks
      /\ arch'.finals = arch.finals /\ arch'.take = arch.take
  BY <1>1 DEF ArchType
<1>3. /\ sink' \in SinkType /\ sink'.held = arch.chunks /\ sink'.ended = arch.finals
      /\ sink'.streams = arch.streams /\ (sink'.take <=> arch.streams # {})
  BY <1>1, RebuildShape
<1>4. late <=> destroy.pc # "idle"
  OBVIOUS
<1> HIDE DEF late
<1>5. /\ fate' \in FateType /\ fate'.erased = fate.erased /\ fate'.clean = fate.clean
      /\ fate'.orphans = fate.orphans /\ fate'.dropped = fate.dropped /\ fate'.fk = fate.fk
      /\ fate'.wiped = fate.wiped /\ fate'.raced = (fate.raced \/ late)
  BY <1>1 DEF FateType
<1>6. task \notin ChunkTask
  BY <1>1 DEF Idle0, ChunkTask
<1>7. DelTyped' /\ RoomHosts' /\ TakeHasStreams'
  BY <1>1, <1>2, <1>3, <1>5 DEF DelInv, DelTyped, RoomHosts, TakeHasStreams
<1>8. TaskInOrder'
  BY <1>1 DEF TaskInOrder, Idle0, ChunkTask, DeleteTask, BlobTask
<1>9. EngineInStep'
  BY <1>1, <1>2, <1>3, <1>4, <1>5, <1>6 DEF DelInv, EngineInStep, TakeHasStreams
<1>10. CleanForgotten'
  BY ZenonT(60), <1>1, <1>2, <1>3, <1>5, <1>6 DEF DelInv, CleanForgotten, Forgotten
<1>11. RowHasBlob' /\ BlobsAccounted' /\ NoMissingParent' /\ DropsOnlyErased'
  BY <1>1, <1>2, <1>5 DEF DelInv, RowHasBlob, BlobsAccounted, NoMissingParent, DropsOnlyErased, Pending
<1> QED
  BY <1>7, <1>8, <1>9, <1>10, <1>11 DEF DelInv

\* A fresh session, its room open and its take rolling.
LEMMA DelInvStarts == DelInit => DelInv
<1> SUFFICES ASSUME DelInit PROVE DelInv
  OBVIOUS
<1>1. /\ arch \in ArchType /\ arch.streams = {} /\ arch.chunks = {} /\ arch.finals = {}
      /\ arch.take = TRUE
  BY DEF DelInit, ArchType
<1>2. sink \in SinkType /\ sink.held = {} /\ sink.streams = {} /\ sink.ended = {}
  BY DEF DelInit, SinkType, Offline
<1>3. /\ fate \in FateType /\ fate.clean = {} /\ fate.fk = FALSE /\ fate.dropped = {}
  BY DEF DelInit, FateType
<1>4. /\ task \notin ChunkTask /\ task \notin DeleteTask /\ task \notin BlobTask
      /\ task = Idle0 /\ room = TRUE /\ blob = {} /\ ring \subseteq Key
  BY DeletionAssumption DEF DelInit, Idle0, ChunkTask, DeleteTask, BlobTask
<1>5. /\ destroy \in [pc : {"idle", "read", "blobs", "rows", "session"}, keys : SUBSET Key,
                      streams : SUBSET DelStream]
      /\ destroy.pc = "idle"
  BY DEF DelInit, NoDestroy
<1>6. DelTyped /\ RoomHosts
  BY <1>1, <1>2, <1>3, <1>4, <1>5 DEF DelInit, DelTyped, RoomHosts, NoMail
<1>7. TaskInOrder /\ TakeHasStreams /\ EngineInStep /\ CleanForgotten
  BY <1>1, <1>2, <1>3, <1>4, <1>5 DEF TaskInOrder, TakeHasStreams, EngineInStep, CleanForgotten
<1>8. RowHasBlob /\ BlobsAccounted /\ NoMissingParent /\ DropsOnlyErased
  BY <1>1, <1>3, <1>4 DEF RowHasBlob, BlobsAccounted, NoMissingParent, DropsOnlyErased
<1> QED
  BY <1>6, <1>7, <1>8 DEF DelInv

\* Every step of server, recorder and desk keeps the invariant.
LEMMA DelInvStep == DelInv /\ [DelNext]_delVars => DelInv'
<1> SUFFICES ASSUME DelInv, [DelNext]_delVars PROVE DelInv'
  OBVIOUS
<1>1. CASE UNCHANGED delVars
  <2>1. UNCHANGED <<arch, blob, room, sink, task, ring, said, opfs, plan, wire, toDesk, confirm,
                    destroy, fate>>
    BY <1>1 DEF delVars, recorder, deskSide
  <2>2. /\ ring' \subseteq Key /\ wire' \subseteq Key /\ plan' \subseteq Key /\ opfs' \subseteq Key
        /\ toDesk' = [chunks |-> toDesk'.chunks, haves |-> toDesk'.haves]
        /\ \A h \in toDesk'.haves : h[1] \notin fate.clean
    BY <2>1 DEF DelInv, DelTyped, CleanForgotten, Forgotten
  <2> QED
    BY <2>1, <2>2, MailStep
<1>2. CASE TaskFails \/ persistBlob \/ persistRow
  BY <1>2, TaskFailsKeeps, PersistBlobKeeps, PersistRowKeeps
<1>3. ASSUME NEW k \in Key, RecorderSends(k) \/ DeskFrame(k) PROVE DelInv'
  <2>1. k[1] \notin fate.clean
    BY <1>3, SendableIsNotClean DEF RecorderSends, DeskFrame
  <2> QED
    BY <1>3, <2>1, IngestKeeps DEF RecorderSends, DeskFrame
<1>4. ASSUME NEW k \in Key, PushStarts(k) \/ DeskStores(k) \/ DeskHears(k) PROVE DelInv'
  BY <1>4, DeskStepsKeep
<1>5. ASSUME NEW s \in DelStream, RecorderAnnounces(s) \/ RecorderFinals(s) \/ DeskHaves(s) PROVE DelInv'
  BY <1>5, AnnounceKeeps, FinalKeeps, DeskStepsKeep
<1>6. CASE RecorderAcked \/ SyncOpens \/ SyncDrops \/ PushEnds \/ DeskPushes \/ ConfirmMissed
  BY <1>6, DeskStepsKeep
<1>7. ASSUME NEW h \in toDesk.haves, DeskPlans(h) PROVE DelInv'
  BY <1>7, DeskStepsKeep
<1>8. CASE noteTakeStop \/ DeskDrops
  BY <1>8, TakeStopKeeps, DeskDropsKeeps
<1>9. ASSUME NEW S \in SUBSET DelStream, DeskDeletes(S) PROVE DelInv'
  BY <1>9, DeskDeletesKeeps
<1>10. CASE DeleteRows \/ DeleteBlobs \/ DeleteTake
  BY <1>10, DeleteRowsKeeps, DeleteBlobsKeeps, DeleteTakeKeeps
<1>11. CASE DestroyStarts \/ DestroyReads \/ DestroyBlobs \/ DestroyRows \/ DestroyEnds
  BY <1>11, DestroyStartsKeeps, DestroyKeeps
<1>12. CASE ServerCrashes \/ RoomOpens
  BY <1>12, CrashKeeps, RoomOpensKeeps
<1> QED
  BY <1>1, <1>2, <1>3, <1>4, <1>5, <1>6, <1>7, <1>8, <1>9, <1>10, <1>11, <1>12 DEF DelNext

\* The invariant holds throughout, whatever crosses.
LEMMA DelInvHolds == DelSpec => []DelInv
BY DelInvStarts, DelInvStep, PTL DEF DelSpec

\* Engine, rows and blobs stay in step: what is acknowledged has its row, what has a
\* row has its blob and its parents, and every blob is accounted for (archive,
\* retention, ingest).
THEOREM ArchiveStaysInStep == DelSpec => []ArchiveInStep
<1>1. DelInv => ArchiveInStep
  <2> SUFFICES ASSUME DelInv PROVE HeldIsArchived
    BY DEF DelInv, ArchiveInStep
  <2> SUFFICES ASSUME task = Idle0, ~fate.raced PROVE sink.held \subseteq arch.chunks
    BY DEF HeldIsArchived
  <2>1. task \notin ChunkTask
    BY DEF Idle0, ChunkTask
  <2> QED
    BY <2>1 DEF DelInv, EngineInStep
<1> QED
  BY <1>1, DelInvHolds, PTL

\* A deletion is all or nothing across sinks, and a clean one is final.
THEOREM DeletionIsWhole == DelSpec => []DeletionHolds
<1>1. DelInv => DeletionHolds
  BY DEF DelInv, DeletionHolds, CleanDeleteStays, CleanForgotten, Forgotten
<1> QED
  BY <1>1, DelInvHolds, PTL

-----------------------------------------------------------------------------
(* Rate limiting.                                                          *)

\* What a bucket of so many tokens at time t still allows is what the grants of its
\* address have left: every stretch of them, with the tokens, is within a full
\* bucket and the refill since.
Backed(q, tokens, t) ==
    \A i \in 1..Len(q) :
        /\ q[i] \in Nat /\ q[i] <= t
        /\ (Len(q) - i + 1) * TokenUnits + tokens <= Full + (t - q[i]) * RefillUnits

\* An address without a bucket is as good as one whose bucket is full.
BucketOf(a) == IF a \in DOMAIN buckets THEN buckets[a] ELSE [tokens |-> Full, at |-> clock]

RateTyped ==
    /\ clock \in Nat /\ grants \in [Address -> Seq(Nat)]
    /\ buckets = [a \in DOMAIN buckets |-> buckets[a]]
    /\ \A a \in DOMAIN buckets :
          /\ buckets[a] \in [tokens : Nat, at : Nat]
          /\ buckets[a].tokens <= Full /\ buckets[a].at <= clock

RateInv ==
    /\ RateTyped /\ RateHeld
    /\ \A a \in Address : Backed(grants[a], BucketOf(a).tokens, BucketOf(a).at)

\* A full bucket is a number of units.
LEMMA FullIsNat == Full \in Nat
<1>1. \A x, y \in Nat : x * y \in Nat
  OBVIOUS
<1> QED
  BY <1>1, RateAssumption DEF Full

\* Time makes up for what a bucket gains in it.
LEMMA Ageing ==
    ASSUME NEW q \in Seq(Nat), NEW tokens \in Nat, NEW t \in Nat, Backed(q, tokens, t),
           NEW more \in Nat, NEW u \in Nat, t <= u, more <= tokens + (u - t) * RefillUnits
    PROVE  Backed(q, more, u)
<1> SUFFICES ASSUME NEW i \in 1..Len(q)
             PROVE  /\ q[i] \in Nat /\ q[i] <= u
                    /\ (Len(q) - i + 1) * TokenUnits + more <= Full + (u - q[i]) * RefillUnits
  BY DEF Backed
<1>1. /\ q[i] \in Nat /\ q[i] <= t
      /\ (Len(q) - i + 1) * TokenUnits + tokens <= Full + (t - q[i]) * RefillUnits
  BY DEF Backed
<1>2. (u - q[i]) * RefillUnits = (t - q[i]) * RefillUnits + (u - t) * RefillUnits
  <2>1. \A x, y, r \in Int : (x + y) * r = x * r + y * r
    OBVIOUS
  <2>2. u - q[i] = (t - q[i]) + (u - t)
    BY <1>1
  <2> QED
    BY <1>1, <2>1, <2>2, RateAssumption
<1> DEFINE spent == (Len(q) - i + 1) * TokenUnits
           before == (t - q[i]) * RefillUnits
           since == (u - t) * RefillUnits
<1>3. spent \in Int /\ before \in Int /\ since \in Int
  <2>1. \A x, y \in Int : x * y \in Int
    OBVIOUS
  <2> QED
    BY <1>1, <2>1, RateAssumption
<1>4. spent + tokens <= Full + before /\ more <= tokens + since /\ (u - q[i]) * RefillUnits = before + since
  BY <1>1, <1>2
<1> HIDE DEF spent, before, since
<1>5. spent + more <= Full + (u - q[i]) * RefillUnits
  BY <1>3, <1>4, FullIsNat
<1> QED
  BY <1>1, <1>5 DEF spent

\* A grant takes its token.
LEMMA Granting ==
    ASSUME NEW q \in Seq(Nat), NEW tokens \in Nat, NEW t \in Nat, Backed(q, tokens, t),
           TokenUnits <= tokens, tokens <= Full
    PROVE  Backed(Append(q, t), tokens - TokenUnits, t)
<1> DEFINE p == Append(q, t)
           n == Len(q)
<1>1. n \in Nat /\ Len(p) = n + 1 /\ p[n + 1] = t /\ \A i \in 1..n : p[i] = q[i]
  OBVIOUS
<1> SUFFICES ASSUME NEW i \in 1..(n + 1)
             PROVE  /\ p[i] \in Nat /\ p[i] <= t
                    /\ (n + 1 - i + 1) * TokenUnits + (tokens - TokenUnits)
                          <= Full + (t - p[i]) * RefillUnits
  BY <1>1 DEF Backed
<1>2. CASE i = n + 1
  <2>1. (n + 1 - i + 1) * TokenUnits = TokenUnits /\ (t - p[i]) * RefillUnits = 0
    BY <1>1, <1>2, RateAssumption
  <2> QED
    BY <1>1, <1>2, <2>1, FullIsNat, RateAssumption
<1>3. CASE i \in 1..n
  <2>1. /\ q[i] \in Nat /\ q[i] <= t
        /\ (n - i + 1) * TokenUnits + tokens <= Full + (t - q[i]) * RefillUnits
    BY <1>3 DEF Backed
  <2>2. (n + 1 - i + 1) * TokenUnits = (n - i + 1) * TokenUnits + TokenUnits
    <3>1. \A x, u \in Int : (x + 1) * u = x * u + u
      OBVIOUS
    <3>2. n + 1 - i + 1 = (n - i + 1) + 1
      BY <1>1
    <3> QED
      BY <1>1, <3>1, <3>2, RateAssumption
  <2> DEFINE spent == (n - i + 1) * TokenUnits
             since == (t - q[i]) * RefillUnits
  <2>3. spent \in Int /\ since \in Int
    <3>1. \A x, y \in Int : x * y \in Int
      OBVIOUS
    <3> QED
      BY <1>1, <2>1, <3>1, RateAssumption
  <2>4. spent + tokens <= Full + since /\ (n + 1 - i + 1) * TokenUnits = spent + TokenUnits
    BY <2>1, <2>2
  <2> HIDE DEF spent
  <2>5. (n + 1 - i + 1) * TokenUnits + (tokens - TokenUnits) <= Full + since
    BY <2>3, <2>4, FullIsNat, RateAssumption
  <2> QED
    BY <1>1, <1>3, <2>1, <2>5
<1> QED
  BY <1>1, <1>2, <1>3

\* A refill keeps a bucket within its capacity and its address's grants backed.
LEMMA Refilling ==
    ASSUME RateTyped, NEW b \in [tokens : Nat, at : Nat], b.at <= clock
    PROVE  /\ refill(b) \in [tokens : Nat, at : Nat] /\ refill(b).at = clock
           /\ refill(b).tokens <= Full
           /\ \A q \in Seq(Nat) :
                 Backed(q, b.tokens, b.at) => Backed(q, refill(b).tokens, refill(b).at)
<1> DEFINE gain == (clock - b.at) * RefillUnits
<1>1. gain \in Nat
  <2>1. clock - b.at \in Nat
    BY DEF RateTyped
  <2>2. \A x, y \in Nat : x * y \in Nat
    OBVIOUS
  <2> QED
    BY <2>1, <2>2, RateAssumption
<1>2. refill(b) = [tokens |-> IF b.tokens + gain > Full THEN Full ELSE b.tokens + gain, at |-> clock]
  BY DEF refill
<1> HIDE DEF gain
<1>3. /\ refill(b) \in [tokens : Nat, at : Nat] /\ refill(b).at = clock
      /\ refill(b).tokens <= Full /\ refill(b).tokens <= b.tokens + gain
  BY <1>1, <1>2, FullIsNat DEF RateTyped
<1>4. ASSUME NEW q \in Seq(Nat), Backed(q, b.tokens, b.at)
      PROVE  Backed(q, refill(b).tokens, refill(b).at)
  BY <1>3, <1>4, Ageing DEF gain
<1> QED
  BY <1>3, <1>4

\* RateHeld, of the grants of one address.
Bounded(q) ==
    \A i, j \in DOMAIN q :
        i <= j => (j - i + 1) * TokenUnits <= Full + (q[j] - q[i]) * RefillUnits

\* Grants stay within the bound when one is added that the bucket backs.
LEMMA BoundHolds ==
    ASSUME NEW q \in Seq(Nat), NEW t \in Nat, NEW tokens \in Nat,
           Bounded(q), Backed(Append(q, t), tokens, t)
    PROVE  Bounded(Append(q, t))
<1> DEFINE p == Append(q, t)
           n == Len(q)
<1>1. /\ n \in Nat /\ Len(p) = n + 1 /\ p[n + 1] = t /\ DOMAIN p = 1..(n + 1) /\ DOMAIN q = 1..n
      /\ \A i \in 1..n : p[i] = q[i]
  OBVIOUS
<1> SUFFICES ASSUME NEW i \in 1..(n + 1), NEW j \in 1..(n + 1), i <= j
             PROVE  (j - i + 1) * TokenUnits <= Full + (p[j] - p[i]) * RefillUnits
  BY <1>1 DEF Bounded
<1>2. CASE j \in 1..n
  <2>1. i \in DOMAIN q /\ j \in DOMAIN q /\ p[i] = q[i] /\ p[j] = q[j]
    BY <1>1, <1>2
  <2>2. (j - i + 1) * TokenUnits <= Full + (q[j] - q[i]) * RefillUnits
    BY <2>1 DEF Bounded
  <2> QED
    BY <2>1, <2>2
<1>3. CASE j = n + 1
  <2> DEFINE spent == (j - i + 1) * TokenUnits
             since == (t - p[i]) * RefillUnits
  <2>1. spent + tokens <= Full + since /\ p[i] \in Nat
    BY <1>1, <1>3 DEF Backed
  <2>2. spent \in Int /\ since \in Int
    <3>1. \A x, y \in Int : x * y \in Int
      OBVIOUS
    <3> QED
      BY <1>1, <2>1, <3>1, RateAssumption
  <2> HIDE DEF spent, since
  <2>3. spent <= Full + since
    BY <2>1, <2>2, FullIsNat
  <2> QED
    BY <1>1, <1>3, <2>3 DEF spent, since
<1> QED
  BY <1>1, <1>2, <1>3

\* A prune forgets only buckets that are full by now.
LEMMA Pruning ==
    ASSUME RateTyped, NEW a \in DOMAIN buckets, isFull(buckets[a])
    PROVE  refill(buckets[a]) = [tokens |-> Full, at |-> clock]
<1> DEFINE b == buckets[a]
           sum == b.tokens + (clock - b.at) * RefillUnits
<1>1. refill(b) = [tokens |-> IF sum > Full THEN Full ELSE sum, at |-> clock]
  BY DEF refill
<1>2. sum \in Nat
  <2>1. clock - b.at \in Nat /\ b.tokens \in Nat
    BY DEF RateTyped
  <2>2. \A x, y \in Nat : x * y \in Nat
    OBVIOUS
  <2> QED
    BY <2>1, <2>2, RateAssumption
<1> HIDE DEF sum
<1>3. (IF sum > Full THEN Full ELSE sum) >= Full
  BY <1>1 DEF isFull
<1>4. sum >= Full
  BY <1>2, <1>3, FullIsNat
<1> QED
  BY <1>1, <1>2, <1>4, FullIsNat

\* The map after a prune, if there was one.
LEMMA KnownShape ==
    ASSUME RateInv, NEW known, known = buckets \/ known = prune(buckets)
    PROVE  /\ DOMAIN known \subseteq DOMAIN buckets
           /\ \A x \in DOMAIN known :
                 /\ known[x] \in [tokens : Nat, at : Nat]
                 /\ known[x].tokens <= Full /\ known[x].at <= clock
                 /\ x \in Address => Backed(grants[x], known[x].tokens, known[x].at)
           /\ \A x \in Address \ DOMAIN known : Backed(grants[x], Full, clock)
<1>1. RateTyped /\ \A x \in Address : grants[x] \in Seq(Nat)
  BY DEF RateInv, RateTyped
<1>2. \A x \in DOMAIN buckets : x \in Address => Backed(grants[x], buckets[x].tokens, buckets[x].at)
  BY DEF RateInv, BucketOf
<1>3. \A x \in Address \ DOMAIN buckets : Backed(grants[x], Full, clock)
  BY DEF RateInv, BucketOf
<1>4. CASE known = buckets
  BY <1>1, <1>2, <1>3, <1>4 DEF RateTyped
<1>5. CASE known = prune(buckets)
  <2>1. /\ DOMAIN known = {x \in DOMAIN buckets : ~isFull(buckets[x])}
        /\ \A x \in DOMAIN known : known[x] = refill(buckets[x])
    BY <1>5 DEF prune
  <2>2. ASSUME NEW x \in DOMAIN buckets
        PROVE  /\ refill(buckets[x]) \in [tokens : Nat, at : Nat]
               /\ refill(buckets[x]).at = clock /\ refill(buckets[x]).tokens <= Full
               /\ x \in Address => Backed(grants[x], refill(buckets[x]).tokens, refill(buckets[x]).at)
    <3>1. buckets[x] \in [tokens : Nat, at : Nat] /\ buckets[x].at <= clock
      BY <1>1 DEF RateTyped
    <3> QED
      BY <1>1, <1>2, <3>1, Refilling
  <2>3. ASSUME NEW x \in Address \ DOMAIN known PROVE Backed(grants[x], Full, clock)
    <3>1. CASE x \notin DOMAIN buckets
      BY <1>3, <3>1
    <3>2. CASE x \in DOMAIN buckets
      <4>1. refill(buckets[x]) = [tokens |-> Full, at |-> clock]
        BY <1>1, <2>1, <3>2, Pruning
      <4> QED
        BY <2>2, <3>2, <4>1
    <3> QED
      BY <3>1, <3>2
  <2> QED
    BY <1>1, <2>1, <2>2, <2>3 DEF RateTyped
<1> QED
  BY <1>4, <1>5

\* An address is let in, or refused, from its refilled bucket or a fresh full one.
LEMMA AllowKeeps == ASSUME RateInv, NEW a \in Address, allow(a) PROVE RateInv'
<1> DEFINE known == IF a \in DOMAIN buckets THEN buckets
                    ELSE IF Cardinality(DOMAIN buckets) >= MaxBuckets THEN prune(buckets)
                    ELSE buckets
           b == IF a \in DOMAIN known THEN refill(known[a]) ELSE [tokens |-> Full, at |-> clock]
           ok == b.tokens >= TokenUnits
           left == IF ok THEN [b EXCEPT !.tokens = @ - TokenUnits] ELSE b
<1>1. /\ buckets' = [x \in DOMAIN known \cup {a} |-> IF x = a THEN left ELSE known[x]]
      /\ grants' = IF ok THEN [grants EXCEPT ![a] = Append(@, clock)] ELSE grants
      /\ clock' = clock
  BY DEF allow
<1>2. known = buckets \/ known = prune(buckets)
  OBVIOUS
<1> HIDE DEF known
<1>3. /\ RateTyped /\ RateHeld /\ clock \in Nat /\ grants \in [Address -> Seq(Nat)]
      /\ \A x \in Address : grants[x] \in Seq(Nat)
  BY DEF RateInv, RateTyped
<1>4. /\ \A x \in DOMAIN known :
            /\ known[x] \in [tokens : Nat, at : Nat]
            /\ known[x].tokens <= Full /\ known[x].at <= clock
            /\ x \in Address => Backed(grants[x], known[x].tokens, known[x].at)
      /\ \A x \in Address \ DOMAIN known : Backed(grants[x], Full, clock)
  BY <1>2, KnownShape
<1>5. /\ b \in [tokens : Nat, at : Nat] /\ b.at = clock /\ b.tokens <= Full
      /\ Backed(grants[a], b.tokens, clock)
  <2>1. CASE a \in DOMAIN known
    <3>1. b = refill(known[a]) /\ known[a] \in [tokens : Nat, at : Nat] /\ known[a].at <= clock
      BY <1>4, <2>1
    <3>2. Backed(grants[a], known[a].tokens, known[a].at)
      BY <1>4, <2>1
    <3> QED
      BY <1>3, <3>1, <3>2, Refilling
  <2>2. CASE a \notin DOMAIN known
    BY <1>3, <1>4, <2>2, FullIsNat
  <2> QED
    BY <2>1, <2>2
<1> HIDE DEF b
<1>6. \A x \in Address : x # a => grants'[x] = grants[x]
  BY <1>1, <1>3
<1>7. /\ left \in [tokens : Nat, at : Nat] /\ left.at = clock /\ left.tokens <= Full
      /\ grants' \in [Address -> Seq(Nat)] /\ Backed(grants'[a], left.tokens, clock)
      /\ Bounded(grants'[a])
  <2>1. CASE ok
    <3> DEFINE rest == b.tokens - TokenUnits
    <3>1. rest \in Nat /\ rest <= Full
      BY <1>5, <2>1, FullIsNat, RateAssumption
    <3>2. left = [tokens |-> rest, at |-> clock]
      BY <1>5, <2>1
    <3>3. grants'[a] = Append(grants[a], clock) /\ grants' \in [Address -> Seq(Nat)]
      BY <1>1, <1>3, <2>1
    <3>4. Backed(Append(grants[a], clock), rest, clock)
      BY <1>3, <1>5, <2>1, Granting
    <3> HIDE DEF rest
    <3>5. Bounded(grants[a])
      BY <1>3 DEF RateHeld, Bounded
    <3>6. Bounded(Append(grants[a], clock))
      BY <1>3, <3>1, <3>4, <3>5, BoundHolds
    <3> QED
      BY <3>1, <3>2, <3>3, <3>4, <3>6, <1>3
  <2>2. CASE ~ok
    <3>1. left = b /\ grants' = grants
      BY <1>1, <2>2
    <3> QED
      BY <1>3, <1>5, <3>1 DEF RateHeld, Bounded
  <2> QED
    BY <2>1, <2>2
<1> HIDE DEF left, ok
<1>8. /\ DOMAIN buckets' = DOMAIN known \cup {a} /\ buckets'[a] = left
      /\ \A x \in DOMAIN known : x # a => buckets'[x] = known[x]
      /\ buckets' = [x \in DOMAIN buckets' |-> buckets'[x]]
  BY <1>1
<1>9. RateTyped'
  BY <1>1, <1>3, <1>4, <1>7, <1>8 DEF RateTyped, Full
<1>10. RateHeld'
  BY <1>3, <1>6, <1>7 DEF RateHeld, Bounded, Full
<1>11. ASSUME NEW x \in Address
       PROVE  Backed(grants'[x], BucketOf(x)'.tokens, BucketOf(x)'.at)
  <2>1. CASE x = a
    BY <1>7, <1>8, <2>1 DEF BucketOf
  <2>2. CASE x # a /\ x \in DOMAIN known
    BY <1>4, <1>6, <1>8, <2>2 DEF BucketOf
  <2>3. CASE x # a /\ x \notin DOMAIN known
    <3>1. BucketOf(x)' = [tokens |-> Full, at |-> clock]
      BY <1>1, <1>8, <2>3 DEF BucketOf, Full
    <3> QED
      BY <1>4, <1>6, <2>3, <3>1
  <2> QED
    BY <2>1, <2>2, <2>3
<1> QED
  BY <1>9, <1>10, <1>11 DEF RateInv, Backed, Full

\* A tick only adds to what time makes up for.
LEMMA TickKeeps == ASSUME RateInv, Tick PROVE RateInv'
<1>1. clock \in Nat /\ clock' = clock + 1 /\ UNCHANGED <<buckets, grants>>
  BY DEF Tick, RateInv, RateTyped
<1>2. RateTyped' /\ RateHeld'
  BY <1>1 DEF RateInv, RateTyped, RateHeld, Full
<1>3. ASSUME NEW a \in Address PROVE Backed(grants[a], BucketOf(a)'.tokens, BucketOf(a)'.at)
  <2>1. CASE a \in DOMAIN buckets
    BY <1>1, <2>1 DEF RateInv, BucketOf
  <2>2. CASE a \notin DOMAIN buckets
    <3>1. Backed(grants[a], Full, clock) /\ grants[a] \in Seq(Nat)
      BY <2>2 DEF RateInv, RateTyped, BucketOf
    <3>2. BucketOf(a)' = [tokens |-> Full, at |-> clock']
      BY <1>1, <2>2 DEF BucketOf, Full
    <3>3. Full <= Full + (clock' - clock) * RefillUnits
      <4>1. clock' - clock = 1
        BY <1>1
      <4> QED
        BY <4>1, FullIsNat, RateAssumption
    <3> QED
      BY <1>1, <3>1, <3>2, <3>3, Ageing, FullIsNat
  <2> QED
    BY <2>1, <2>2
<1> QED
  BY <1>1, <1>2, <1>3 DEF RateInv, Backed, Full

\* Whatever was pruned in between, an address is let in no more often than a full
\* bucket and the refill allow (ratelimit.ts).
THEOREM RateIsHeld == RateSpec => []RateHeld
<1>1. RateInit => RateInv
  BY FullIsNat DEF RateInit, RateInv, RateTyped, RateHeld, Backed, BucketOf
<1>2. RateInv /\ [RateNext]_rateVars => RateInv'
  <2> SUFFICES ASSUME RateInv, [RateNext]_rateVars PROVE RateInv'
    OBVIOUS
  <2>1. CASE UNCHANGED rateVars
    BY <2>1 DEF rateVars, RateInv, RateTyped, RateHeld, Backed, BucketOf, Full
  <2> QED
    BY <2>1, AllowKeeps, TickKeeps DEF RateNext
<1>3. RateInv => RateHeld
  BY DEF RateInv
<1> QED
  BY <1>1, <1>2, <1>3, PTL DEF RateSpec
-----------------------------------------------------------------------------
(***************************************************************************)
(* Range sets.  A vector is in order when every range has room to all      *)
(* later ones; it covers the values of its ranges.                         *)
(***************************************************************************)
InOrder(rs) ==
  /\ rs \in Seq(SeqRange)
  /\ \A i \in 1 .. Len(rs) : rs[i].start <= rs[i].end
  /\ \A i, j \in 1 .. Len(rs) : i < j => rs[i].end + 1 < rs[j].start

Covers(rs) == UNION {Values(rs[i]) : i \in 1 .. Len(rs)}

Vectors == {rs \in Seq(SeqRange) : InOrder(rs)}

\* Every set of naturals that is not empty has a least element.
LEMMA LeastOf ==
  ASSUME NEW T \in SUBSET Nat, T # {}
  PROVE  \E m \in T : \A n \in T : m <= n
<1>1. PICK m \in T : \A n \in T : ~ (<<n, m>> \in OpToRel(<, Nat))
  BY NatLessThanWellFounded, WFMin
<1>2. \A n \in T : ~ (n < m)
  BY <1>1 DEF OpToRel
<1> QED
  BY <1>2

LEMMA RangeFields ==
  ASSUME NEW r \in SeqRange
  PROVE  /\ r.start \in Nat /\ r.end \in Nat /\ r.start <= MaxValue /\ r.end <= MaxValue
         /\ MaxValue \in Nat
         /\ Values(r) \subseteq Value
         /\ \A v : v \in Values(r) <=> v \in Int /\ r.start <= v /\ v <= r.end
<1>1. /\ r.start \in Nat /\ r.end \in Nat /\ r.start <= MaxValue /\ r.end <= MaxValue
      /\ MaxValue \in Nat
  BY RangeConstants DEF SeqRange, Value
<1>2. \A v : v \in Values(r) <=> v \in Int /\ r.start <= v /\ v <= r.end
  BY <1>1 DEF Values
<1> QED
  BY <1>1, <1>2 DEF Value

LEMMA CoversAre ==
  ASSUME NEW rs \in Seq(SeqRange)
  PROVE  /\ Len(rs) \in Nat /\ DOMAIN rs = 1 .. Len(rs)
         /\ \A i \in 1 .. Len(rs) : rs[i] \in SeqRange
         /\ \A v : v \in Covers(rs) <=> \E i \in 1 .. Len(rs) : v \in Values(rs[i])
         /\ Covers(rs) \subseteq Value
<1>1. Len(rs) \in Nat /\ DOMAIN rs = 1 .. Len(rs) /\ \A i \in 1 .. Len(rs) : rs[i] \in SeqRange
  OBVIOUS
<1>2. \A v : v \in Covers(rs) <=> \E i \in 1 .. Len(rs) : v \in Values(rs[i])
  BY DEF Covers
<1>3. Covers(rs) \subseteq Value
  BY <1>1, <1>2, RangeFields
<1> QED
  BY <1>1, <1>2, <1>3

LEMMA NoRange == InOrder(<<>>) /\ Covers(<<>>) = {}
<1>1. <<>> \in Seq(SeqRange) /\ Len(<<>>) = 0 /\ 1 .. 0 = {}
  OBVIOUS
<1> QED
  BY <1>1 DEF InOrder, Covers

LEMMA OneRange ==
  ASSUME NEW q \in SeqRange, q.start <= q.end
  PROVE  InOrder(<<q>>) /\ Covers(<<q>>) = Values(q)
<1> DEFINE s == <<q>>
<1>1. s \in Seq(SeqRange) /\ Len(s) = 1 /\ s[1] = q /\ 1 .. 1 = {1}
  OBVIOUS
<1> HIDE DEF s
<1>2. InOrder(s)
  BY <1>1 DEF InOrder
<1>3. Covers(s) = Values(q)
  BY <1>1 DEF Covers
<1> QED
  BY <1>2, <1>3 DEF s

\* A range that is not empty has its two ends.
LEMMA RangeEnds ==
  ASSUME NEW r \in SeqRange, r.start <= r.end
  PROVE  r.start \in Values(r) /\ r.end \in Values(r)
<1>1. r.start \in Int /\ r.end \in Int /\ r.start <= r.start /\ r.end <= r.end
  BY RangeFields
<1> QED
  BY <1>1, RangeFields

\* Vectors with room between them.
LEMMA JoinVectors ==
  ASSUME NEW a, NEW b, InOrder(a), InOrder(b),
         \A u \in Covers(a), v \in Covers(b) : u + 1 < v
  PROVE  InOrder(a \o b) /\ Covers(a \o b) = Covers(a) \cup Covers(b)
<1> DEFINE q == a \o b
           m == Len(a)
           n == Len(b)
<1>1. /\ a \in Seq(SeqRange) /\ b \in Seq(SeqRange)
      /\ \A i \in 1 .. m : a[i].start <= a[i].end
      /\ \A i \in 1 .. n : b[i].start <= b[i].end
      /\ \A i, j \in 1 .. m : i < j => a[i].end + 1 < a[j].start
      /\ \A i, j \in 1 .. n : i < j => b[i].end + 1 < b[j].start
  BY DEF InOrder
<1>2. /\ q \in Seq(SeqRange) /\ Len(q) = m + n
      /\ \A i \in 1 .. m + n : q[i] = IF i <= m THEN a[i] ELSE b[i - m]
  BY <1>1, ConcatProperties
<1>3. /\ m \in Nat /\ n \in Nat
      /\ \A i \in 1 .. m : a[i] \in SeqRange
      /\ \A i \in 1 .. n : b[i] \in SeqRange
      /\ \A v : v \in Covers(a) <=> \E i \in 1 .. m : v \in Values(a[i])
      /\ \A v : v \in Covers(b) <=> \E i \in 1 .. n : v \in Values(b[i])
      /\ \A v : v \in Covers(q) <=> \E i \in 1 .. m + n : v \in Values(q[i])
  BY <1>1, <1>2, CoversAre
<1> HIDE DEF q, m, n
<1>4. \A i \in 1 .. m : i \in 1 .. m + n /\ q[i] = a[i]
  BY <1>2, <1>3
<1>5. \A j \in 1 .. n : j + m \in 1 .. m + n /\ q[j + m] = b[j]
  <2> SUFFICES ASSUME NEW j \in 1 .. n PROVE j + m \in 1 .. m + n /\ q[j + m] = b[j]
    OBVIOUS
  <2> DEFINE x == j + m
  <2>1. x \in 1 .. m + n /\ ~ (x <= m) /\ x - m = j
    BY <1>3
  <2> HIDE DEF x
  <2>2. q[x] = b[j]
    BY <1>2, <2>1
  <2> QED
    BY <2>1, <2>2 DEF x
<1>6. \A i \in 1 .. m + n : (i \in 1 .. m /\ q[i] = a[i]) \/ (i - m \in 1 .. n /\ q[i] = b[i - m])
  BY <1>2, <1>3
<1>7. Covers(q) = Covers(a) \cup Covers(b)
  <2>1. ASSUME NEW v \in Covers(q) PROVE v \in Covers(a) \cup Covers(b)
    <3>1. PICK i \in 1 .. m + n : v \in Values(q[i])
      BY <1>3
    <3> QED
      BY <1>3, <1>6, <3>1
  <2>2. ASSUME NEW v \in Covers(a) PROVE v \in Covers(q)
    BY <1>3, <1>4
  <2>3. ASSUME NEW v \in Covers(b) PROVE v \in Covers(q)
    <3>1. PICK j \in 1 .. n : v \in Values(b[j])
      BY <1>3
    <3> QED
      BY <1>3, <1>5, <3>1
  <2> QED
    BY <2>1, <2>2, <2>3
<1>8. ASSUME NEW i \in 1 .. m, NEW j \in 1 .. n PROVE a[i].end + 1 < b[j].start
  <2>1. a[i].end \in Values(a[i])
    <3>1. a[i] \in SeqRange /\ a[i].start <= a[i].end
      BY <1>1, <1>3
    <3> QED
      BY <3>1, RangeEnds
  <2>2. b[j].start \in Values(b[j])
    <3>1. b[j] \in SeqRange /\ b[j].start <= b[j].end
      BY <1>1, <1>3
    <3> QED
      BY <3>1, RangeEnds
  <2> QED
    BY <1>3, <2>1, <2>2
<1>9. \A i \in 1 .. m + n : q[i].start <= q[i].end
  BY <1>1, <1>6
<1>10. ASSUME NEW i \in 1 .. m + n, NEW j \in 1 .. m + n, i < j PROVE q[i].end + 1 < q[j].start
  <2>1. CASE i \in 1 .. m /\ q[i] = a[i] /\ j \in 1 .. m /\ q[j] = a[j]
    BY <1>1, <1>10, <2>1
  <2>2. CASE i \in 1 .. m /\ q[i] = a[i] /\ j - m \in 1 .. n /\ q[j] = b[j - m]
    BY <1>8, <2>2
  <2>3. CASE i - m \in 1 .. n /\ q[i] = b[i - m] /\ j - m \in 1 .. n /\ q[j] = b[j - m]
    <3>1. i - m < j - m
      BY <1>3, <1>10
    <3> QED
      BY <1>1, <2>3, <3>1
  <2>4. ~ (i - m \in 1 .. n /\ j \in 1 .. m)
    BY <1>3, <1>10
  <2> QED
    BY <1>6, <2>1, <2>2, <2>3, <2>4
<1>11. InOrder(q)
  BY <1>2, <1>9, <1>10 DEF InOrder
<1> QED
  BY <1>7, <1>11 DEF q

\* What a removal leaves of one range.
LEMMA PiecesAre ==
  ASSUME NEW q \in SeqRange, q.start <= q.end, NEW r \in SeqRange, r.start <= r.end
  PROVE  InOrder(Pieces(q, r)) /\ Covers(Pieces(q, r)) = Values(q) \ Values(r)
<1> DEFINE left == [start |-> q.start, end |-> Wrap(r.start - 1)]
           right == [start |-> Wrap(r.end + 1), end |-> q.end]
           a == IF q.start < r.start THEN <<left>> ELSE <<>>
           b == IF q.end > r.end THEN <<right>> ELSE <<>>
<1>1. /\ q.start \in Nat /\ q.end \in Nat /\ q.start <= MaxValue /\ q.end <= MaxValue
      /\ r.start \in Nat /\ r.end \in Nat /\ r.start <= MaxValue /\ r.end <= MaxValue
      /\ MaxValue \in Nat
      /\ \A v : v \in Values(q) <=> v \in Int /\ q.start <= v /\ v <= q.end
      /\ \A v : v \in Values(r) <=> v \in Int /\ r.start <= v /\ v <= r.end
  BY RangeFields
<1>2. \A n \in 0 .. MaxValue : Wrap(n) = n
  BY <1>1 DEF Wrap
<1>3. CASE q.end < r.start \/ q.start > r.end
  <2>1. Pieces(q, r) = <<q>>
    BY <1>3 DEF Pieces
  <2>2. Values(q) \ Values(r) = Values(q)
    BY <1>1, <1>3
  <2> QED
    BY <2>1, <2>2, OneRange
<1>4. CASE ~ (q.end < r.start \/ q.start > r.end)
  <2>1. Pieces(q, r) = a \o b
    BY <1>4 DEF Pieces
  <2> DEFINE A == {v \in Values(q) : v < r.start}
             B == {v \in Values(q) : v > r.end}
  <2>2. InOrder(a) /\ Covers(a) = A
    <3>1. CASE q.start < r.start
      <4>1. left = [start |-> q.start, end |-> r.start - 1] /\ left \in SeqRange
            /\ left.start <= left.end
        <5>1. r.start - 1 \in 0 .. MaxValue
          BY <1>1, <3>1
        <5>2. Wrap(r.start - 1) = r.start - 1
          BY <1>2, <5>1
        <5> QED
          BY <1>1, <3>1, <5>1, <5>2 DEF SeqRange, Value
      <4>2. \A v : v \in Values(left) <=> v \in Int /\ q.start <= v /\ v <= r.start - 1
        BY <4>1, RangeFields
      <4> HIDE DEF left
      <4>3. Values(left) = A
        BY <1>1, <1>4, <4>2
      <4> QED
        BY <3>1, <4>1, <4>3, OneRange
    <3>2. CASE ~ (q.start < r.start)
      <4>1. A = {}
        BY <1>1, <3>2
      <4> QED
        BY <3>2, <4>1, NoRange
    <3> QED
      BY <3>1, <3>2
  <2>3. InOrder(b) /\ Covers(b) = B
    <3>1. CASE q.end > r.end
      <4>1. right = [start |-> r.end + 1, end |-> q.end] /\ right \in SeqRange
            /\ right.start <= right.end
        <5>1. r.end + 1 \in 0 .. MaxValue
          BY <1>1, <3>1
        <5>2. Wrap(r.end + 1) = r.end + 1
          BY <1>2, <5>1
        <5> QED
          BY <1>1, <3>1, <5>1, <5>2 DEF SeqRange, Value
      <4>2. \A v : v \in Values(right) <=> v \in Int /\ r.end + 1 <= v /\ v <= q.end
        BY <4>1, RangeFields
      <4> HIDE DEF right
      <4>3. Values(right) = B
        BY <1>1, <1>4, <4>2
      <4> QED
        BY <3>1, <4>1, <4>3, OneRange
    <3>2. CASE ~ (q.end > r.end)
      <4>1. B = {}
        BY <1>1, <3>2
      <4> QED
        BY <3>2, <4>1, NoRange
    <3> QED
      BY <3>1, <3>2
  <2> HIDE DEF a, b
  <2>4. \A u \in A, v \in B : u + 1 < v
    BY <1>1
  <2>5. A \cup B = Values(q) \ Values(r)
    BY <1>1
  <2> HIDE DEF A, B
  <2>6. InOrder(a \o b) /\ Covers(a \o b) = A \cup B
    BY <2>2, <2>3, <2>4, JoinVectors
  <2> QED
    BY <2>1, <2>5, <2>6
<1> QED
  BY <1>3, <1>4

\* What is left of a vector when later or earlier ranges are cut off.
LEMMA CutVector ==
  ASSUME NEW rs, InOrder(rs), NEW m \in 0 .. Len(rs)
  PROVE  /\ InOrder(SubSeq(rs, 1, m)) /\ InOrder(SubSeq(rs, m + 1, Len(rs)))
         /\ \A v : v \in Covers(SubSeq(rs, 1, m)) <=> \E i \in 1 .. m : v \in Values(rs[i])
         /\ \A v : v \in Covers(SubSeq(rs, m + 1, Len(rs)))
                     <=> \E i \in m + 1 .. Len(rs) : v \in Values(rs[i])
<1> DEFINE n == Len(rs)
           x == SubSeq(rs, 1, m)
           z == SubSeq(rs, m + 1, n)
<1>1. /\ n \in Nat /\ \A i \in 1 .. n : rs[i] \in SeqRange /\ rs[i].start <= rs[i].end
      /\ \A i, j \in 1 .. n : i < j => rs[i].end + 1 < rs[j].start
  BY CoversAre DEF InOrder
<1> HIDE DEF n
<1>2. m \in Nat /\ m <= n
  BY <1>1 DEF n
<1>3. /\ x \in Seq(SeqRange) /\ Len(x) = m /\ \A i \in 1 .. m : x[i] = rs[i]
  <2>1. 1 \in Int /\ m \in Int /\ \A i \in 1 .. m : rs[i] \in SeqRange
    BY <1>1, <1>2
  <2>2. /\ x \in Seq(SeqRange) /\ Len(x) = IF 1 <= m THEN m - 1 + 1 ELSE 0
        /\ \A i \in 1 .. m - 1 + 1 : x[i] = rs[1 + i - 1]
    BY <2>1, SubSeqProperties
  <2>3. Len(x) = m
    BY <1>2, <2>2
  <2>4. \A i \in 1 .. m : x[i] = rs[i]
    <3> SUFFICES ASSUME NEW i \in 1 .. m PROVE x[i] = rs[i]
      OBVIOUS
    <3>1. i \in 1 .. m - 1 + 1 /\ 1 + i - 1 = i
      BY <1>2
    <3> QED
      BY <2>2, <3>1
  <2> QED
    BY <2>2, <2>3, <2>4
<1>4. /\ z \in Seq(SeqRange) /\ Len(z) = n - m /\ \A i \in 1 .. n - m : z[i] = rs[m + i]
  <2>1. m + 1 \in Int /\ n \in Int /\ \A i \in m + 1 .. n : rs[i] \in SeqRange
    BY <1>1, <1>2
  <2>2. /\ z \in Seq(SeqRange) /\ Len(z) = IF m + 1 <= n THEN n - (m + 1) + 1 ELSE 0
        /\ \A i \in 1 .. n - (m + 1) + 1 : z[i] = rs[m + 1 + i - 1]
    BY <2>1, SubSeqProperties
  <2>3. Len(z) = n - m
    BY <1>1, <1>2, <2>2
  <2>4. \A i \in 1 .. n - m : z[i] = rs[m + i]
    <3> SUFFICES ASSUME NEW i \in 1 .. n - m PROVE z[i] = rs[m + i]
      OBVIOUS
    <3>1. i \in 1 .. n - (m + 1) + 1 /\ m + 1 + i - 1 = m + i
      BY <1>1, <1>2
    <3> QED
      BY <2>2, <3>1
  <2> QED
    BY <2>2, <2>3, <2>4
<1> HIDE DEF x, z
<1>5. InOrder(x)
  <2>1. \A i \in 1 .. m : i \in 1 .. n
    BY <1>1, <1>2
  <2> QED
    BY <1>1, <1>3, <2>1 DEF InOrder
<1>6. InOrder(z)
  <2>1. \A i \in 1 .. n - m : m + i \in 1 .. n
    BY <1>1, <1>2
  <2>2. \A i, j \in 1 .. n - m : i < j => m + i < m + j
    BY <1>1, <1>2
  <2>3. \A i \in 1 .. n - m : z[i].start <= z[i].end
    BY <1>1, <1>4, <2>1
  <2>4. \A i, j \in 1 .. n - m : i < j => z[i].end + 1 < z[j].start
    BY <1>1, <1>4, <2>1, <2>2
  <2> QED
    BY <1>4, <2>3, <2>4 DEF InOrder
<1>7. \A v : v \in Covers(x) <=> \E i \in 1 .. m : v \in Values(rs[i])
  BY <1>3, CoversAre
<1>8. ASSUME NEW v PROVE v \in Covers(z) <=> \E i \in m + 1 .. n : v \in Values(rs[i])
  <2>1. v \in Covers(z) <=> \E i \in 1 .. n - m : v \in Values(rs[m + i])
    BY <1>4, CoversAre
  <2>2. ASSUME NEW i \in 1 .. n - m, v \in Values(rs[m + i])
        PROVE  \E j \in m + 1 .. n : v \in Values(rs[j])
    <3>1. m + i \in m + 1 .. n
      BY <1>1, <1>2
    <3> QED
      BY <2>2, <3>1
  <2>3. ASSUME NEW j \in m + 1 .. n, v \in Values(rs[j])
        PROVE  \E i \in 1 .. n - m : v \in Values(rs[m + i])
    <3>1. j - m \in 1 .. n - m /\ m + (j - m) = j
      BY <1>1, <1>2
    <3> QED
      BY <2>3, <3>1
  <2> QED
    BY <2>1, <2>2, <2>3
<1> QED
  BY <1>5, <1>6, <1>7, <1>8 DEF x, z, n

\* The partition points of a vector in order.
LEMMA PartitionPoints ==
  ASSUME NEW rs, InOrder(rs), NEW r \in SeqRange, r.start <= r.end
  PROVE  /\ Lo(rs, r) \in 1 .. Len(rs) + 1 /\ Hi(rs, r) \in 0 .. Len(rs)
         /\ Lo(rs, r) <= Hi(rs, r) + 1
         /\ \A i \in 1 .. Len(rs) : i < Lo(rs, r) <=> EndsBefore(rs[i], r)
         /\ \A i \in 1 .. Len(rs) : Hi(rs, r) < i <=> StartsAfter(rs[i], r)
<1> DEFINE n == Len(rs)
           lo == Lo(rs, r)
           hi == Hi(rs, r)
           E(i) == EndsBefore(rs[i], r)
           S(i) == StartsAfter(rs[i], r)
<1>1. /\ n \in Nat /\ DOMAIN rs = 1 .. n
      /\ \A i \in 1 .. n : rs[i] \in SeqRange /\ rs[i].start <= rs[i].end
      /\ \A i, j \in 1 .. n : i < j => rs[i].end + 1 < rs[j].start
  BY CoversAre DEF InOrder
<1>2. /\ \A i \in 1 .. n : rs[i].start \in Nat /\ rs[i].end \in Nat
      /\ r.start \in Nat /\ r.end \in Nat
  BY <1>1, RangeFields
<1> HIDE DEF n
<1>3. \A i, j \in 1 .. n : i < j /\ E(j) => E(i)
  BY <1>1, <1>2 DEF EndsBefore
<1>4. \A i, j \in 1 .. n : i < j /\ S(i) => S(j)
  BY <1>1, <1>2 DEF StartsAfter
<1>5. \A i \in 1 .. n : ~ (E(i) /\ S(i))
  BY <1>1, <1>2 DEF EndsBefore, StartsAfter
<1> HIDE DEF E, S
<1>6. \E m \in 1 .. n + 1 : \A i \in 1 .. n : i < m <=> E(i)
  <2> DEFINE T == {m \in 1 .. n + 1 : m = n + 1 \/ ~ E(m)}
  <2>1. T \in SUBSET Nat /\ n + 1 \in T
    BY <1>1
  <2>2. PICK m \in T : \A k \in T : m <= k
    <3> HIDE DEF T
    <3> QED
      BY <2>1, LeastOf
  <2>3. m \in 1 .. n + 1 /\ (m = n + 1 \/ ~ E(m))
    OBVIOUS
  <2>4. ASSUME NEW i \in 1 .. n, i < m PROVE E(i)
    <3>1. i \notin T
      BY <1>1, <2>2, <2>3, <2>4
    <3> QED
      BY <1>1, <3>1
  <2>5. ASSUME NEW i \in 1 .. n, E(i) PROVE i < m
    <3>1. CASE m = n + 1
      BY <1>1, <3>1
    <3>2. CASE m # n + 1
      <4>1. m \in 1 .. n /\ ~ E(m)
        BY <1>1, <2>3, <3>2
      <4>2. ~ (m < i) /\ m # i
        BY <1>3, <2>5, <4>1
      <4> QED
        BY <1>1, <4>1, <4>2
    <3> QED
      BY <3>1, <3>2
  <2> QED
    BY <2>3, <2>4, <2>5
<1>7. \E m \in 0 .. n : \A i \in 1 .. n : m < i <=> S(i)
  <2> DEFINE T == {m \in 0 .. n : m = n \/ S(m + 1)}
  <2>1. T \in SUBSET Nat /\ n \in T
    BY <1>1
  <2>2. PICK m \in T : \A k \in T : m <= k
    <3> HIDE DEF T
    <3> QED
      BY <2>1, LeastOf
  <2>3. m \in 0 .. n /\ (m = n \/ S(m + 1))
    OBVIOUS
  <2>4. ASSUME NEW i \in 1 .. n, m < i PROVE S(i)
    <3>1. m # n /\ m + 1 \in 1 .. n /\ (m + 1 = i \/ m + 1 < i)
      BY <1>1, <2>3, <2>4
    <3> QED
      BY <1>4, <2>3, <3>1
  <2>5. ASSUME NEW i \in 1 .. n, S(i) PROVE m < i
    <3>1. i - 1 \in 0 .. n /\ (i - 1) + 1 = i
      BY <1>1
    <3>2. i - 1 \in T
      BY <2>5, <3>1
    <3>3. m <= i - 1
      BY <2>2, <3>2
    <3> QED
      BY <1>1, <2>3, <3>3
  <2> QED
    BY <2>3, <2>4, <2>5
<1>8. lo = CHOOSE m \in 1 .. n + 1 : \A i \in 1 .. n : i < m <=> E(i)
  BY <1>1 DEF Lo, E, n
<1>9. hi = CHOOSE m \in 0 .. n : \A i \in 1 .. n : m < i <=> S(i)
  BY <1>1 DEF Hi, S, n
<1> HIDE DEF lo, hi
<1>10. lo \in 1 .. n + 1 /\ \A i \in 1 .. n : i < lo <=> E(i)
  BY <1>6, <1>8
<1>11. hi \in 0 .. n /\ \A i \in 1 .. n : hi < i <=> S(i)
  BY <1>7, <1>9
<1>12. lo <= hi + 1
  <2> SUFFICES ASSUME lo > hi + 1 PROVE FALSE
    BY <1>1, <1>10, <1>11
  <2>1. hi + 1 \in 1 .. n /\ hi < hi + 1 /\ hi + 1 < lo
    BY <1>1, <1>10, <1>11
  <2> DEFINE k == hi + 1
  <2> HIDE DEF k
  <2>2. k \in 1 .. n /\ hi < k /\ k < lo
    BY <2>1 DEF k
  <2> QED
    BY <1>5, <1>10, <1>11, <2>2
<1> QED
  BY <1>10, <1>11, <1>12 DEF lo, hi, n, E, S

\* The merged range covers the new one and what it touches, nothing else.
LEMMA MergedIs ==
  ASSUME NEW rs, InOrder(rs), NEW r \in SeqRange, r.start <= r.end
  PROVE  LET lo == Lo(rs, r)
             hi == Hi(rs, r)
             m == Merged(rs, r)
         IN  /\ m \in SeqRange /\ m.start <= r.start /\ r.end <= m.end
             /\ \A i \in 1 .. Len(rs) :
                  /\ i < lo => rs[i].end + 1 < m.start
                  /\ hi < i => m.end + 1 < rs[i].start
                  /\ lo <= i /\ i <= hi => m.start <= rs[i].start /\ rs[i].end <= m.end
             /\ \A v \in Values(m) : v \in Values(r) \/ \E i \in 1 .. Len(rs) : v \in Values(rs[i])
<1> DEFINE n == Len(rs)
           lo == Lo(rs, r)
           hi == Hi(rs, r)
           m == Merged(rs, r)
           touches == lo <= hi
<1>1. /\ n \in Nat
      /\ \A i \in 1 .. n : rs[i] \in SeqRange /\ rs[i].start <= rs[i].end
      /\ \A i, j \in 1 .. n : i < j => rs[i].end + 1 < rs[j].start
  BY CoversAre DEF InOrder
<1>2. /\ lo \in 1 .. n + 1 /\ hi \in 0 .. n /\ lo <= hi + 1
      /\ \A i \in 1 .. n : i < lo <=> EndsBefore(rs[i], r)
      /\ \A i \in 1 .. n : hi < i <=> StartsAfter(rs[i], r)
  BY PartitionPoints
<1>3. m = [start |-> IF lo <= hi /\ rs[lo].start < r.start THEN rs[lo].start ELSE r.start,
           end |-> IF lo <= hi /\ rs[hi].end > r.end THEN rs[hi].end ELSE r.end]
  BY DEF Merged
<1> HIDE DEF n, lo, hi, m
<1>4. /\ \A i \in 1 .. n : rs[i].start \in Nat /\ rs[i].end \in Nat
      /\ r.start \in Nat /\ r.end \in Nat
  BY <1>1, RangeFields
<1>5. /\ m.start = IF lo <= hi /\ rs[lo].start < r.start THEN rs[lo].start ELSE r.start
      /\ m.end = IF lo <= hi /\ rs[hi].end > r.end THEN rs[hi].end ELSE r.end
  BY <1>3
<1>6. lo <= hi => lo \in 1 .. n /\ hi \in 1 .. n
  BY <1>1, <1>2
<1>7. m \in SeqRange
  <2>1. /\ r.start \in Value /\ r.end \in Value
        /\ \A i \in 1 .. n : rs[i].start \in Value /\ rs[i].end \in Value
    BY <1>1 DEF SeqRange
  <2> QED
    BY <1>3, <1>6, <2>1 DEF SeqRange
<1>8. /\ m.start \in Nat /\ m.end \in Nat /\ m.start <= r.start /\ r.end <= m.end
      /\ lo <= hi => m.start <= rs[lo].start /\ rs[hi].end <= m.end
  BY <1>4, <1>5, <1>6
<1>9. ASSUME NEW i \in 1 .. n, i < lo PROVE rs[i].end + 1 < m.start
  <2>1. rs[i].end + 1 < r.start
    BY <1>2, <1>9 DEF EndsBefore
  <2>2. lo <= hi => rs[i].end + 1 < rs[lo].start
    BY <1>1, <1>6, <1>9
  <2> QED
    BY <1>4, <1>5, <1>6, <2>1, <2>2
<1>10. ASSUME NEW i \in 1 .. n, hi < i PROVE m.end + 1 < rs[i].start
  <2>1. rs[i].start > r.end + 1
    BY <1>2, <1>10 DEF StartsAfter
  <2>2. lo <= hi => rs[hi].end + 1 < rs[i].start
    BY <1>1, <1>6, <1>10
  <2> QED
    BY <1>4, <1>5, <1>6, <2>1, <2>2
<1>11. ASSUME NEW i \in 1 .. n, lo <= i, i <= hi PROVE m.start <= rs[i].start /\ rs[i].end <= m.end
  <2>1. lo <= hi
    BY <1>1, <1>2, <1>11
  <2>2. i = lo \/ rs[lo].end + 1 < rs[i].start
    BY <1>1, <1>6, <1>11, <2>1
  <2>3. i = hi \/ rs[i].end + 1 < rs[hi].start
    BY <1>1, <1>6, <1>11, <2>1
  <2>4. rs[lo].start <= rs[lo].end /\ rs[hi].start <= rs[hi].end
    BY <1>1, <1>6, <2>1
  <2> QED
    BY <1>4, <1>6, <1>8, <2>1, <2>2, <2>3, <2>4
<1>12. ASSUME NEW v \in Values(m), v \notin Values(r) PROVE \E i \in 1 .. n : v \in Values(rs[i])
  <2>1. v \in Int /\ m.start <= v /\ v <= m.end
    BY <1>7, RangeFields
  <2>2. ~ (r.start <= v /\ v <= r.end)
    BY <1>12, <2>1, RangeFields
  <2>3. CASE v < r.start
    <3>1. lo <= hi /\ m.start = rs[lo].start
      BY <1>4, <1>5, <2>1, <2>3
    <3>2. lo \in 1 .. n /\ ~ (rs[lo].end + 1 < r.start)
      BY <1>2, <1>6, <3>1 DEF EndsBefore
    <3>3. rs[lo].start <= v /\ v <= rs[lo].end
      BY <1>4, <2>1, <2>3, <3>1, <3>2
    <3>4. v \in Values(rs[lo])
      BY <1>1, <2>1, <3>2, <3>3, RangeFields
    <3> QED
      BY <3>2, <3>4
  <2>4. CASE v > r.end
    <3>1. lo <= hi /\ m.end = rs[hi].end
      BY <1>4, <1>5, <2>1, <2>4
    <3>2. hi \in 1 .. n /\ ~ (rs[hi].start > r.end + 1)
      BY <1>2, <1>6, <3>1 DEF StartsAfter
    <3>3. rs[hi].start <= v /\ v <= rs[hi].end
      BY <1>4, <2>1, <2>4, <3>1, <3>2
    <3>4. v \in Values(rs[hi])
      BY <1>1, <2>1, <3>2, <3>3, RangeFields
    <3> QED
      BY <3>2, <3>4
  <2> QED
    BY <1>4, <2>1, <2>2, <2>3, <2>4
<1> QED
  BY <1>7, <1>8, <1>9, <1>10, <1>11, <1>12 DEF n, lo, hi, m

\* insert_range.
LEMMA InsertIs ==
  ASSUME NEW rs, InOrder(rs), NEW r \in SeqRange
  PROVE  InOrder(InsertRange(rs, r)) /\ Covers(InsertRange(rs, r)) = Covers(rs) \cup Values(r)
<1>1. CASE IsEmpty(r)
  <2>1. Values(r) = {}
    <3>1. r.start \in Nat /\ r.end \in Nat /\ r.end < r.start
          /\ \A v : v \in Values(r) <=> v \in Int /\ r.start <= v /\ v <= r.end
      BY <1>1, RangeFields DEF IsEmpty
    <3> QED
      BY <3>1
  <2> QED
    BY <1>1, <2>1 DEF InsertRange
<1>2. CASE ~ IsEmpty(r)
  <2> DEFINE n == Len(rs)
             lo == Lo(rs, r)
             hi == Hi(rs, r)
             m == Merged(rs, r)
             x == SubSeq(rs, 1, lo - 1)
             z == SubSeq(rs, hi + 1, n)
             y == x \o <<m>>
  <2>1. r.start \in Nat /\ r.end \in Nat /\ r.start <= r.end
    BY <1>2, RangeFields DEF IsEmpty
  <2>2. /\ n \in Nat /\ rs \in Seq(SeqRange)
        /\ \A i \in 1 .. n : rs[i] \in SeqRange /\ rs[i].start \in Nat /\ rs[i].end \in Nat
        /\ \A v : v \in Covers(rs) <=> \E i \in 1 .. n : v \in Values(rs[i])
    BY CoversAre, RangeFields DEF InOrder
  <2>3. lo \in 1 .. n + 1 /\ hi \in 0 .. n /\ lo <= hi + 1
    BY <2>1, PartitionPoints
  <2>4. /\ m \in SeqRange /\ m.start <= r.start /\ r.end <= m.end
        /\ \A i \in 1 .. n :
             /\ i < lo => rs[i].end + 1 < m.start
             /\ hi < i => m.end + 1 < rs[i].start
             /\ lo <= i /\ i <= hi => m.start <= rs[i].start /\ rs[i].end <= m.end
        /\ \A v \in Values(m) : v \in Values(r) \/ \E i \in 1 .. n : v \in Values(rs[i])
    BY <2>1, MergedIs
  <2>5. InsertRange(rs, r) = y \o z
    BY <1>2 DEF InsertRange
  <2> HIDE DEF n, lo, hi, m
  <2>6. lo - 1 \in 0 .. n
    BY <2>2, <2>3
  <2>7. InOrder(x) /\ \A v : v \in Covers(x) <=> \E i \in 1 .. lo - 1 : v \in Values(rs[i])
    <3> DEFINE k == lo - 1
    <3> HIDE DEF k
    <3>1. k \in 0 .. n
      BY <2>6 DEF k
    <3>2. InOrder(SubSeq(rs, 1, k))
          /\ \A v : v \in Covers(SubSeq(rs, 1, k)) <=> \E i \in 1 .. k : v \in Values(rs[i])
      BY <3>1, CutVector DEF n
    <3> QED
      BY <3>2 DEF k
  <2>8. InOrder(z) /\ \A v : v \in Covers(z) <=> \E i \in hi + 1 .. n : v \in Values(rs[i])
    BY <2>3, CutVector DEF n
  <2> HIDE DEF x, z
  <2>9. m.start \in Nat /\ m.end \in Nat /\ m.start <= m.end
        /\ \A v : v \in Values(m) <=> v \in Int /\ m.start <= v /\ v <= m.end
    BY <2>1, <2>4, RangeFields
  <2>10. InOrder(<<m>>) /\ Covers(<<m>>) = Values(m)
    BY <2>4, <2>9, OneRange
  <2>11. ASSUME NEW u \in Covers(x) PROVE u \in Int /\ u + 1 < m.start
    <3>1. PICK i \in 1 .. lo - 1 : u \in Values(rs[i])
      BY <2>7
    <3>2. i \in 1 .. n /\ i < lo
      BY <2>2, <2>3
    <3>3. u \in Int /\ u <= rs[i].end
      BY <2>2, <3>1, <3>2, RangeFields
    <3> QED
      BY <2>2, <2>4, <2>9, <3>2, <3>3
  <2>12. ASSUME NEW v \in Covers(z) PROVE v \in Int /\ m.end + 1 < v
    <3>1. PICK i \in hi + 1 .. n : v \in Values(rs[i])
      BY <2>8
    <3>2. i \in 1 .. n /\ hi < i
      BY <2>2, <2>3
    <3>3. v \in Int /\ rs[i].start <= v
      BY <2>2, <3>1, <3>2, RangeFields
    <3> QED
      BY <2>2, <2>4, <2>9, <3>2, <3>3
  <2>13. InOrder(y) /\ Covers(y) = Covers(x) \cup Values(m)
    <3>1. \A u \in Covers(x), v \in Covers(<<m>>) : u + 1 < v
      BY <2>9, <2>10, <2>11
    <3> QED
      BY <2>7, <2>10, <3>1, JoinVectors
  <2>14. InOrder(y \o z) /\ Covers(y \o z) = Covers(y) \cup Covers(z)
    <3>1. \A u \in Covers(y), v \in Covers(z) : u + 1 < v
      BY <2>9, <2>11, <2>12, <2>13
    <3> HIDE DEF y
    <3> QED
      BY <2>8, <2>13, <3>1, JoinVectors
  <2>15. ASSUME NEW v \in Covers(rs) PROVE v \in Covers(x) \cup Values(m) \cup Covers(z)
    <3>1. PICK i \in 1 .. n : v \in Values(rs[i])
      BY <2>2
    <3>2. CASE i < lo
      <4>1. i \in 1 .. lo - 1
        BY <2>2, <2>3, <3>2
      <4> QED
        BY <2>7, <3>1, <4>1
    <3>3. CASE hi < i
      <4>1. i \in hi + 1 .. n
        BY <2>2, <2>3, <3>3
      <4> QED
        BY <2>8, <3>1, <4>1
    <3>4. CASE lo <= i /\ i <= hi
      <4>1. v \in Int /\ rs[i].start <= v /\ v <= rs[i].end
        BY <2>2, <3>1, RangeFields
      <4>2. m.start <= v /\ v <= m.end
        BY <2>2, <2>4, <2>9, <3>4, <4>1
      <4> QED
        BY <2>9, <4>1, <4>2
    <3> QED
      BY <2>2, <2>3, <3>2, <3>3, <3>4
  <2>16. Values(r) \subseteq Values(m)
    <3> SUFFICES ASSUME NEW v \in Values(r) PROVE v \in Values(m)
      OBVIOUS
    <3>1. v \in Int /\ r.start <= v /\ v <= r.end
      BY RangeFields
    <3> QED
      BY <2>1, <2>4, <2>9, <3>1
  <2>17. Covers(x) \subseteq Covers(rs) /\ Covers(z) \subseteq Covers(rs)
    <3>1. \A i \in 1 .. lo - 1 : i \in 1 .. n
      BY <2>2, <2>3
    <3>2. \A i \in hi + 1 .. n : i \in 1 .. n
      BY <2>2, <2>3
    <3> QED
      BY <2>2, <2>7, <2>8, <3>1, <3>2
  <2>18. Values(m) \subseteq Covers(rs) \cup Values(r)
    BY <2>2, <2>4
  <2>19. Covers(y \o z) = Covers(rs) \cup Values(r)
    BY <2>13, <2>14, <2>15, <2>16, <2>17, <2>18
  <2> QED
    BY <2>5, <2>14, <2>19
<1> QED
  BY <1>1, <1>2

-----------------------------------------------------------------------------
(* Loops over a vector.                                                    *)

LEMMA MaxTop ==
  ASSUME NEW c \in Nat, NEW s \in SUBSET (1 .. c), c \in s
  PROVE  Max(s) = c
<1>1. s \subseteq Nat /\ \A t \in s : c >= t
  OBVIOUS
<1>2. \A x \in s : (\A t \in s : x >= t) => x = c
  BY <1>1
<1>3. Max(s) = CHOOSE x \in s : \A t \in s : x >= t
  BY DEF Max
<1> QED
  BY <1>1, <1>2, <1>3

Steps(n, V) == [V \X (1 .. n) -> V]

IsFold(f, n, V, base, step) ==
  /\ f \in [SUBSET (1 .. n) -> V] /\ f[{}] = base
  /\ \A s \in SUBSET (1 .. n) :
       s # {} => Max(s) \in 1 .. n /\ f[s] = step[<<f[s \ {Max(s)}], Max(s)>>]

\* A fold over the indices of a list exists: it takes the greatest index last.
LEMMA FoldSolves ==
  ASSUME NEW n \in Nat, NEW V, NEW base \in V, NEW step \in Steps(n, V)
  PROVE  \E f : IsFold(f, n, V, base, step)
<1> DEFINE Good(m, f) ==
             \A s \in SUBSET (1 .. m) :
               /\ s # {} => Max(s) \in 1 .. m
               /\ f[s] = IF s = {} THEN base ELSE step[<<f[s \ {Max(s)}], Max(s)>>]
           P(m) == \E f \in [SUBSET (1 .. m) -> V] : Good(m, f)
<1>1. P(0)
  <2> DEFINE g == [s \in SUBSET (1 .. 0) |-> base]
  <2>1. g \in [SUBSET (1 .. 0) -> V] /\ 1 .. 0 = {}
    OBVIOUS
  <2>2. Good(0, g)
    BY <2>1
  <2> QED
    BY <2>1, <2>2
<1>2. ASSUME NEW m \in 1 .. n, P(m - 1) PROVE P(m)
  <2> DEFINE k == m - 1
             D == SUBSET (1 .. m)
  <2>0. k \in Nat /\ m \in Nat /\ 1 .. m = (1 .. k) \cup {m} /\ m \notin 1 .. k /\ k < n
    OBVIOUS
  <2>1. PICK f \in [SUBSET (1 .. k) -> V] : Good(k, f)
    BY <1>2
  <2> DEFINE g == [s \in D |-> IF m \in s THEN step[<<f[s \ {m}], m>>] ELSE f[s]]
  <2> HIDE DEF k
  <2>2. \A s \in D : /\ s \ {m} \in SUBSET (1 .. k)
                     /\ m \notin s => s \in SUBSET (1 .. k)
                     /\ m \in s => Max(s) = m
    BY <2>0, MaxTop
  <2>3. g \in [D -> V]
    BY <2>1, <2>2 DEF Steps
  <2>4. ASSUME NEW s \in D
        PROVE  /\ s # {} => Max(s) \in 1 .. m
               /\ g[s] = IF s = {} THEN base ELSE step[<<g[s \ {Max(s)}], Max(s)>>]
    <3>1. CASE m \in s
      <4>1. Max(s) = m /\ s \ {m} \in D /\ m \notin s \ {m}
        BY <2>2, <3>1
      <4>2. g[s] = step[<<f[s \ {m}], m>>] /\ g[s \ {m}] = f[s \ {m}]
        BY <3>1, <4>1
      <4> QED
        BY <2>0, <3>1, <4>1, <4>2
    <3>2. CASE m \notin s
      <4>1. s \in SUBSET (1 .. k) /\ g[s] = f[s]
        BY <2>2, <3>2
      <4> DEFINE t == s \ {Max(s)}
      <4>2. t \in D /\ m \notin t /\ g[t] = f[t]
        BY <3>2
      <4>3. /\ s # {} => Max(s) \in 1 .. k
            /\ f[s] = IF s = {} THEN base ELSE step[<<f[t], Max(s)>>]
        BY <2>1, <4>1
      <4>4. s # {} => Max(s) \in 1 .. m
        BY <2>0, <4>3
      <4> HIDE DEF t, g
      <4>5. g[s] = IF s = {} THEN base ELSE step[<<g[t], Max(s)>>]
        BY <4>1, <4>2, <4>3
      <4> QED
        BY <4>4, <4>5 DEF t
    <3> QED
      BY <3>1, <3>2
  <2>5. Good(m, g)
    BY <2>4
  <2> QED
    BY <2>3, <2>5
<1> HIDE DEF P
<1>3. P(n)
  <2> DEFINE T == {m \in 0 .. n : ~ P(m)}
  <2> SUFFICES ASSUME T # {} PROVE FALSE
    OBVIOUS
  <2>1. T \in SUBSET Nat
    OBVIOUS
  <2>2. PICK m \in T : \A k \in T : m <= k
    <3> HIDE DEF T
    <3> QED
      BY <2>1, LeastOf
  <2>3. m \in 1 .. n /\ m - 1 \in 0 .. n
    BY <1>1
  <2>4. P(m - 1)
    BY <2>2, <2>3
  <2> QED
    BY <1>2, <2>3, <2>4
<1>4. PICK f \in [SUBSET (1 .. n) -> V] : Good(n, f)
  BY <1>3 DEF P
<1>5. {} \in SUBSET (1 .. n)
  OBVIOUS
<1> QED
  BY <1>4, <1>5 DEF IsFold

\* The values of the first m ranges of a list.
Reached(list, m) == UNION {Values(list[i]) : i \in 1 .. m}

LEMMA ReachedMore ==
  ASSUME NEW list, NEW n \in Nat
  PROVE  /\ Reached(list, 0) = {}
         /\ \A m \in 1 .. n : Reached(list, m) = Reached(list, m - 1) \cup Values(list[m])
<1>1. 1 .. 0 = {} /\ \A m \in 1 .. n : 1 .. m = (1 .. m - 1) \cup {m}
  OBVIOUS
<1> QED
  BY <1>1 DEF Reached

\* A property of 0 .. n that every step passes on.
LEMMA UpTo ==
  ASSUME NEW n \in Nat, NEW G, 0 \in G, \A m \in 1 .. n : m - 1 \in G => m \in G
  PROVE  n \in G
<1> DEFINE T == {m \in 0 .. n : m \notin G}
<1> SUFFICES ASSUME T # {} PROVE FALSE
  OBVIOUS
<1>1. T \in SUBSET Nat
  OBVIOUS
<1>2. PICK m \in T : \A k \in T : m <= k
  <2> HIDE DEF T
  <2> QED
    BY <1>1, LeastOf
<1>3. m \in 1 .. n /\ m - 1 \in 0 .. n
  OBVIOUS
<1>4. m - 1 \in G
  BY <1>2, <1>3
<1> QED
  BY <1>3, <1>4

\* from_ranges and union.
LEMMA InsertAllIs ==
  ASSUME NEW rs, InOrder(rs), NEW list \in Seq(SeqRange)
  PROVE  /\ InOrder(InsertAll(rs, list))
         /\ Covers(InsertAll(rs, list)) = Covers(rs) \cup Reached(list, Len(list))
<1> DEFINE n == Len(list)
           Body(f) == [s \in SUBSET (DOMAIN list) |->
                         IF s = {} THEN rs ELSE InsertRange(f[s \ {Max(s)}], list[Max(s)])]
           sum == CHOOSE f : f = Body(f)
           step == [p \in Vectors \X (1 .. n) |-> InsertRange(p[1], list[p[2]])]
<1>1. InsertAll(rs, list) = sum[DOMAIN list]
  BY Zenon DEF InsertAll, FoldLeft, MapThenFoldSet
<1>2. n \in Nat /\ DOMAIN list = 1 .. n /\ \A i \in 1 .. n : list[i] \in SeqRange
  OBVIOUS
<1>3. \A v \in Vectors, i \in 1 .. n : InsertRange(v, list[i]) \in Vectors
  <2> SUFFICES ASSUME NEW v \in Vectors, NEW i \in 1 .. n
               PROVE  InsertRange(v, list[i]) \in Vectors
    OBVIOUS
  <2>1. InOrder(InsertRange(v, list[i]))
    BY <1>2, InsertIs DEF Vectors
  <2> QED
    BY <2>1 DEF Vectors, InOrder
<1>4. step \in [Vectors \X (1 .. n) -> Vectors] /\ rs \in Vectors
  BY <1>3 DEF Vectors, InOrder
<1> HIDE DEF n
<1>5. PICK g : IsFold(g, n, Vectors, rs, step)
  <2>1. step \in Steps(n, Vectors)
    BY <1>4 DEF Steps
  <2> HIDE DEF step
  <2> QED
    BY <1>2, <1>4, <2>1, FoldSolves
<1>0. \A v \in Vectors, i \in 1 .. n : step[<<v, i>>] = InsertRange(v, list[i])
  OBVIOUS
<1> HIDE DEF step
<1>6. \A s \in SUBSET (1 .. n) :
        g[s] = IF s = {} THEN rs ELSE InsertRange(g[s \ {Max(s)}], list[Max(s)])
  <2> SUFFICES ASSUME NEW s \in SUBSET (1 .. n), s # {}
               PROVE  g[s] = InsertRange(g[s \ {Max(s)}], list[Max(s)])
    BY <1>5 DEF IsFold
  <2>1. Max(s) \in 1 .. n /\ g[s \ {Max(s)}] \in Vectors
    BY <1>5 DEF IsFold
  <2>2. g[s] = step[<<g[s \ {Max(s)}], Max(s)>>]
    BY <1>5 DEF IsFold
  <2> DEFINE r == g[s \ {Max(s)}]
             i == Max(s)
  <2> HIDE DEF r, i
  <2>3. step[<<r, i>>] = InsertRange(r, list[i])
    BY <1>0, <2>1 DEF r, i
  <2> QED
    BY <2>2, <2>3 DEF r, i
<1>7. g = Body(g)
  BY <1>2, <1>5, <1>6 DEF IsFold
<1>8. sum = Body(sum)
  BY <1>7
<1> HIDE DEF sum
<1>9. sum[{}] = rs
  BY <1>8
<1>10. \A m \in 1 .. n : sum[1 .. m] = InsertRange(sum[1 .. m - 1], list[m])
  <2> SUFFICES ASSUME NEW m \in 1 .. n PROVE sum[1 .. m] = InsertRange(sum[1 .. m - 1], list[m])
    OBVIOUS
  <2> DEFINE s == 1 .. m
  <2>0. s \ {m} = 1 .. m - 1
    BY <1>2
  <2>1. s \in SUBSET (1 .. n) /\ m \in s /\ m \in Nat
    BY <1>2
  <2>2. Max(s) = m
    BY <2>1, MaxTop
  <2> HIDE DEF s
  <2>3. sum[s] = InsertRange(sum[s \ {Max(s)}], list[Max(s)])
    BY <1>2, <1>8, <2>1
  <2> QED
    BY <2>0, <2>2, <2>3 DEF s
<1> DEFINE Done(m) == /\ InOrder(sum[1 .. m])
                      /\ Covers(sum[1 .. m]) = Covers(rs) \cup Reached(list, m)
           G == {m \in 0 .. n : Done(m)}
<1>11. 0 \in G
  <2>1. 1 .. 0 = {} /\ 0 \in 0 .. n /\ Reached(list, 0) = {}
    BY <1>2, ReachedMore
  <2>2. sum[1 .. 0] = rs
    BY <1>9, <2>1
  <2>3. Done(0)
    BY <2>1, <2>2
  <2> HIDE DEF Done
  <2> QED
    BY <2>1, <2>3
<1>12. ASSUME NEW m \in 1 .. n, m - 1 \in G PROVE m \in G
  <2>1. /\ InOrder(sum[1 .. m - 1])
        /\ Covers(sum[1 .. m - 1]) = Covers(rs) \cup Reached(list, m - 1)
        /\ m \in 0 .. n
    BY <1>2, <1>12
  <2>2. /\ InOrder(sum[1 .. m])
        /\ Covers(sum[1 .. m]) = Covers(sum[1 .. m - 1]) \cup Values(list[m])
    BY <1>2, <1>10, <2>1, InsertIs
  <2>3. Reached(list, m) = Reached(list, m - 1) \cup Values(list[m])
    BY <1>2, ReachedMore
  <2>4. Done(m)
    BY <2>1, <2>2, <2>3
  <2> HIDE DEF Done
  <2> QED
    BY <2>1, <2>4
<1>13. n \in G
  <2> HIDE DEF G
  <2> QED
    BY <1>2, <1>11, <1>12, UpTo
<1> QED
  BY <1>1, <1>2, <1>13 DEF n

IsFlat(f, n, ps) == f = [i \in 1 .. n |-> IF i = 1 THEN ps[i] ELSE f[i - 1] \o ps[i]]

FlatFrom(f, n, ps) ==
  f[1] = ps[1] /\ \A m \in 1 .. n : m # 1 => f[m] = f[m - 1] \o ps[m]

LEMMA FlatSteps ==
  ASSUME NEW n \in Nat, n # 0, NEW ps, NEW f, IsFlat(f, n, ps)
  PROVE  FlatFrom(f, n, ps)
<1>1. \A m \in 1 .. n : f[m] = IF m = 1 THEN ps[m] ELSE f[m - 1] \o ps[m]
  BY DEF IsFlat
<1>2. 1 \in 1 .. n
  OBVIOUS
<1>3. f[1] = ps[1]
  BY <1>1, <1>2, Zenon
<1>4. \A m \in 1 .. n : m # 1 => f[m] = f[m - 1] \o ps[m]
  BY <1>1, Zenon
<1> QED
  BY <1>3, <1>4, Zenon DEF FlatFrom

\* Concatenation of the first m elements exists for every m.
LEMMA FlattenSolves ==
  ASSUME NEW n \in Nat, NEW ps
  PROVE  \E f : IsFlat(f, n, ps)
<1> DEFINE P(m) == \E f : f = [i \in 1 .. m |-> IF i = 1 THEN ps[i] ELSE f[i - 1] \o ps[i]]
           G == {m \in 0 .. n : P(m)}
<1>1. P(0)
  <2> DEFINE g == [i \in 1 .. 0 |-> <<>>]
  <2>1. 1 .. 0 = {}
    OBVIOUS
  <2>2. g = [i \in 1 .. 0 |-> IF i = 1 THEN ps[i] ELSE g[i - 1] \o ps[i]]
    BY <2>1
  <2> QED
    BY <2>2
<1>2. ASSUME NEW m \in 1 .. n, P(m - 1) PROVE P(m)
  <2> DEFINE k == m - 1
  <2>0. k \in Nat /\ m \in Nat /\ m = k + 1 /\ m - 1 = k
    OBVIOUS
  <2>1. PICK f : f = [i \in 1 .. k |-> IF i = 1 THEN ps[i] ELSE f[i - 1] \o ps[i]]
    BY <1>2
  <2> DEFINE g == [i \in 1 .. m |-> IF i = m THEN IF i = 1 THEN ps[i] ELSE f[i - 1] \o ps[i]
                                             ELSE f[i]]
  <2> HIDE DEF k
  <2>2. ASSUME NEW i \in 1 .. m PROVE g[i] = IF i = 1 THEN ps[i] ELSE g[i - 1] \o ps[i]
    <3>1. i # 1 => i - 1 \in 1 .. m /\ i - 1 # m
      BY <2>0
    <3>2. i # 1 => g[i - 1] = f[i - 1]
      BY <3>1
    <3>3. CASE i = m
      <4>1. g[i] = IF i = 1 THEN ps[i] ELSE f[i - 1] \o ps[i]
        BY <3>3
      <4> QED
        BY <3>2, <4>1
    <3>4. CASE i # m
      <4>1. i \in 1 .. k /\ g[i] = f[i]
        BY <2>0, <3>4
      <4>2. f[i] = IF i = 1 THEN ps[i] ELSE f[i - 1] \o ps[i]
        BY <2>1, <4>1
      <4> QED
        BY <3>2, <4>1, <4>2
    <3> QED
      BY <3>3, <3>4
  <2>3. g = [i \in 1 .. m |-> IF i = 1 THEN ps[i] ELSE g[i - 1] \o ps[i]]
    BY <2>2
  <2> QED
    BY <2>3
<1> HIDE DEF P
<1>3. 0 \in G /\ \A m \in 1 .. n : m - 1 \in G => m \in G
  BY <1>1, <1>2
<1>4. n \in G
  <2> HIDE DEF G
  <2> QED
    BY <1>3, UpTo
<1> QED
  BY <1>4, Zenon DEF P, IsFlat

\* remove_range.
LEMMA RemoveIs ==
  ASSUME NEW rs, InOrder(rs), NEW r \in SeqRange
  PROVE  InOrder(RemoveRange(rs, r)) /\ Covers(RemoveRange(rs, r)) = Covers(rs) \ Values(r)
<1> DEFINE n == Len(rs)
           ps == [i \in DOMAIN rs |-> Pieces(rs[i], r)]
           Flat(f) == [i \in 1 .. Len(ps) |-> IF i = 1 THEN ps[i] ELSE f[i - 1] \o ps[i]]
           F == CHOOSE f : f = Flat(f)
<1>1. /\ n \in Nat /\ rs \in Seq(SeqRange) /\ DOMAIN rs = 1 .. n
      /\ \A i \in 1 .. n : rs[i] \in SeqRange /\ rs[i].start <= rs[i].end
      /\ \A i, j \in 1 .. n : i < j => rs[i].end + 1 < rs[j].start
  BY CoversAre DEF InOrder
<1>2. Covers(rs) = Reached(rs, n)
  BY DEF Covers, Reached
<1>3. r.start \in Nat /\ r.end \in Nat
      /\ \A v : v \in Values(r) <=> v \in Int /\ r.start <= v /\ v <= r.end
  BY RangeFields
<1>4. CASE IsEmpty(r)
  <2>1. Values(r) = {}
    BY <1>3, <1>4 DEF IsEmpty
  <2> QED
    BY <1>4, <2>1 DEF RemoveRange
<1>5. CASE ~ IsEmpty(r)
  <2>1. r.start <= r.end
    BY <1>3, <1>5 DEF IsEmpty
  <2>2. RemoveRange(rs, r) = FlattenSeq(ps)
    BY <1>5 DEF RemoveRange
  <2> HIDE DEF n
  <2>3. /\ ps \in Seq(Seq(SeqRange)) /\ Len(ps) = n
        /\ \A i \in 1 .. n : /\ ps[i] = Pieces(rs[i], r) /\ InOrder(ps[i])
                             /\ Covers(ps[i]) = Values(rs[i]) \ Values(r)
    <3>1. \A i \in 1 .. n : /\ ps[i] = Pieces(rs[i], r) /\ InOrder(ps[i])
                            /\ Covers(ps[i]) = Values(rs[i]) \ Values(r)
      BY <1>1, <2>1, PiecesAre
    <3>2. \A i \in 1 .. n : ps[i] \in Seq(SeqRange)
      BY <3>1 DEF InOrder
    <3>3. ps \in [1 .. n -> Seq(SeqRange)]
      BY <1>1, <3>2
    <3> HIDE DEF ps
    <3>4. ps \in Seq(Seq(SeqRange)) /\ Len(ps) = n
      BY <1>1, <3>3
    <3> QED
      BY <3>1, <3>4
  <2> HIDE DEF ps
  <2>4. CASE n = 0
    <3>1. FlattenSeq(ps) = ps
      BY <2>3, <2>4 DEF FlattenSeq
    <3>2. ps \in Seq(SeqRange) /\ 1 .. 0 = {}
      BY <2>3, <2>4
    <3>3. InOrder(ps) /\ Covers(ps) = {}
      BY <2>3, <2>4, <3>2 DEF InOrder, Covers
    <3>4. Covers(rs) = {}
      BY <1>2, <2>4, <3>2 DEF Reached
    <3> QED
      BY <2>2, <3>1, <3>3, <3>4
  <2>5. CASE n # 0
    <3>1. FlattenSeq(ps) = F[Len(ps)]
      BY <2>3, <2>5, Zenon DEF FlattenSeq
    <3>2. F = Flat(F)
      <4>1. \E f : IsFlat(f, Len(ps), ps)
        BY <1>1, <2>3, FlattenSolves
      <4>2. \E f : f = Flat(f)
        BY <4>1, Zenon DEF IsFlat
      <4> QED
        BY <4>2
    <3> HIDE DEF F
    <3>3. /\ F[1] = ps[1]
          /\ \A m \in 1 .. n : m # 1 => F[m] = F[m - 1] \o ps[m]
      <4>1. IsFlat(F, Len(ps), ps)
        BY <3>2, Zenon DEF IsFlat
      <4>2. n \in Nat /\ n # 0 /\ Len(ps) = n
        BY <1>1, <2>3, <2>5
      <4>3. IsFlat(F, n, ps)
        BY <4>1, <4>2, Zenon
      <4>4. FlatFrom(F, n, ps)
        BY <4>2, <4>3, FlatSteps
      <4> QED
        BY <4>4, Zenon DEF FlatFrom
    <3> DEFINE Done(m) == InOrder(F[m]) /\ Covers(F[m]) = Reached(rs, m) \ Values(r)
               G == {m \in 0 .. n : m = 0 \/ Done(m)}
    <3>4. ASSUME NEW m \in 1 .. n, m - 1 \in G PROVE Done(m)
      <4>0. /\ InOrder(ps[m]) /\ Covers(ps[m]) = Values(rs[m]) \ Values(r)
            /\ Reached(rs, m) = Reached(rs, m - 1) \cup Values(rs[m])
            /\ Reached(rs, 0) = {}
        BY <1>1, <2>3, ReachedMore
      <4>1. CASE m = 1
        <5>1. F[m] = ps[m] /\ Reached(rs, m) = Values(rs[m])
          BY <3>3, <4>0, <4>1
        <5> QED
          BY <4>0, <5>1
      <4>2. CASE m # 1
        <5>1. Done(m - 1)
          <6>1. m - 1 # 0
            BY <4>2
          <6> HIDE DEF Done
          <6> QED
            BY <3>4, <6>1
        <5>2. ASSUME NEW u \in Reached(rs, m - 1), NEW v \in Values(rs[m]) PROVE u + 1 < v
          <6>1. PICK i \in 1 .. m - 1 : u \in Values(rs[i])
            BY DEF Reached
          <6>2. i \in 1 .. n /\ i < m
            BY <1>1
          <6>3. rs[i].end + 1 < rs[m].start
            BY <1>1, <6>2
          <6>4. u \in Int /\ u <= rs[i].end /\ rs[i].end \in Nat
            BY <1>1, <6>1, <6>2, RangeFields
          <6>5. v \in Int /\ rs[m].start <= v /\ rs[m].start \in Nat
            BY <1>1, RangeFields
          <6> QED
            BY <6>3, <6>4, <6>5
        <5>3. \A u \in Covers(F[m - 1]), v \in Covers(ps[m]) : u + 1 < v
          BY <4>0, <5>1, <5>2
        <5>4. InOrder(F[m - 1] \o ps[m])
              /\ Covers(F[m - 1] \o ps[m]) = Covers(F[m - 1]) \cup Covers(ps[m])
          BY <4>0, <5>1, <5>3, JoinVectors
        <5>5. F[m] = F[m - 1] \o ps[m]
          BY <3>3, <4>2
        <5>6. InOrder(F[m]) /\ Covers(F[m]) = Reached(rs, m) \ Values(r)
          BY <4>0, <5>1, <5>4, <5>5
        <5> QED
          BY <5>6
      <4> QED
        BY <4>1, <4>2
    <3> HIDE DEF Done
    <3>5. 0 \in G /\ \A m \in 1 .. n : m - 1 \in G => m \in G
      BY <1>1, <3>4
    <3>6. n \in G
      <4> HIDE DEF G
      <4> QED
        BY <1>1, <3>5, UpTo
    <3>7. Done(n)
      BY <2>5, <3>6
    <3> QED
      BY <1>2, <2>2, <2>3, <3>1, <3>7 DEF Done
  <2> QED
    BY <2>4, <2>5
<1> QED
  BY <1>4, <1>5

\* subtract.
LEMMA RemoveAllIs ==
  ASSUME NEW rs, InOrder(rs), NEW list \in Seq(SeqRange)
  PROVE  /\ InOrder(RemoveAll(rs, list))
         /\ Covers(RemoveAll(rs, list)) = Covers(rs) \ Reached(list, Len(list))
<1> DEFINE n == Len(list)
           Body(f) == [s \in SUBSET (DOMAIN list) |->
                         IF s = {} THEN rs ELSE RemoveRange(f[s \ {Max(s)}], list[Max(s)])]
           sum == CHOOSE f : f = Body(f)
           step == [p \in Vectors \X (1 .. n) |-> RemoveRange(p[1], list[p[2]])]
<1>1. RemoveAll(rs, list) = sum[DOMAIN list]
  BY Zenon DEF RemoveAll, FoldLeft, MapThenFoldSet
<1>2. n \in Nat /\ DOMAIN list = 1 .. n /\ \A i \in 1 .. n : list[i] \in SeqRange
  OBVIOUS
<1>3. \A v \in Vectors, i \in 1 .. n : RemoveRange(v, list[i]) \in Vectors
  <2> SUFFICES ASSUME NEW v \in Vectors, NEW i \in 1 .. n
               PROVE  RemoveRange(v, list[i]) \in Vectors
    OBVIOUS
  <2>1. InOrder(RemoveRange(v, list[i]))
    BY <1>2, RemoveIs DEF Vectors
  <2> QED
    BY <2>1 DEF Vectors, InOrder
<1>4. step \in [Vectors \X (1 .. n) -> Vectors] /\ rs \in Vectors
  BY <1>3 DEF Vectors, InOrder
<1> HIDE DEF n
<1>5. PICK g : IsFold(g, n, Vectors, rs, step)
  <2>1. step \in Steps(n, Vectors)
    BY <1>4 DEF Steps
  <2> HIDE DEF step
  <2> QED
    BY <1>2, <1>4, <2>1, FoldSolves
<1>0. \A v \in Vectors, i \in 1 .. n : step[<<v, i>>] = RemoveRange(v, list[i])
  OBVIOUS
<1> HIDE DEF step
<1>6. \A s \in SUBSET (1 .. n) :
        g[s] = IF s = {} THEN rs ELSE RemoveRange(g[s \ {Max(s)}], list[Max(s)])
  <2> SUFFICES ASSUME NEW s \in SUBSET (1 .. n), s # {}
               PROVE  g[s] = RemoveRange(g[s \ {Max(s)}], list[Max(s)])
    BY <1>5 DEF IsFold
  <2>1. Max(s) \in 1 .. n /\ g[s \ {Max(s)}] \in Vectors
    BY <1>5 DEF IsFold
  <2>2. g[s] = step[<<g[s \ {Max(s)}], Max(s)>>]
    BY <1>5 DEF IsFold
  <2> DEFINE r == g[s \ {Max(s)}]
             i == Max(s)
  <2> HIDE DEF r, i
  <2>3. step[<<r, i>>] = RemoveRange(r, list[i])
    BY <1>0, <2>1 DEF r, i
  <2> QED
    BY <2>2, <2>3 DEF r, i
<1>7. g = Body(g)
  BY <1>2, <1>5, <1>6 DEF IsFold
<1>8. sum = Body(sum)
  BY <1>7
<1> HIDE DEF sum
<1>9. sum[{}] = rs
  BY <1>8
<1>10. \A m \in 1 .. n : sum[1 .. m] = RemoveRange(sum[1 .. m - 1], list[m])
  <2> SUFFICES ASSUME NEW m \in 1 .. n PROVE sum[1 .. m] = RemoveRange(sum[1 .. m - 1], list[m])
    OBVIOUS
  <2> DEFINE s == 1 .. m
  <2>0. s \ {m} = 1 .. m - 1
    BY <1>2
  <2>1. s \in SUBSET (1 .. n) /\ m \in s /\ m \in Nat
    BY <1>2
  <2>2. Max(s) = m
    BY <2>1, MaxTop
  <2> HIDE DEF s
  <2>3. sum[s] = RemoveRange(sum[s \ {Max(s)}], list[Max(s)])
    BY <1>2, <1>8, <2>1
  <2> QED
    BY <2>0, <2>2, <2>3 DEF s
<1> DEFINE Done(m) == /\ InOrder(sum[1 .. m])
                      /\ Covers(sum[1 .. m]) = Covers(rs) \ Reached(list, m)
           G == {m \in 0 .. n : Done(m)}
<1>11. 0 \in G
  <2>1. 1 .. 0 = {} /\ 0 \in 0 .. n /\ Reached(list, 0) = {}
    BY <1>2, ReachedMore
  <2>2. sum[1 .. 0] = rs
    BY <1>9, <2>1
  <2>3. Done(0)
    BY <2>1, <2>2
  <2> HIDE DEF Done
  <2> QED
    BY <2>1, <2>3
<1>12. ASSUME NEW m \in 1 .. n, m - 1 \in G PROVE m \in G
  <2>1. /\ InOrder(sum[1 .. m - 1])
        /\ Covers(sum[1 .. m - 1]) = Covers(rs) \ Reached(list, m - 1)
        /\ m \in 0 .. n
    BY <1>2, <1>12
  <2>2. /\ InOrder(sum[1 .. m])
        /\ Covers(sum[1 .. m]) = Covers(sum[1 .. m - 1]) \ Values(list[m])
    BY <1>2, <1>10, <2>1, RemoveIs
  <2>3. Reached(list, m) = Reached(list, m - 1) \cup Values(list[m])
    BY <1>2, ReachedMore
  <2>4. Done(m)
    BY <2>1, <2>2, <2>3
  <2> HIDE DEF Done
  <2> QED
    BY <2>1, <2>4
<1>13. n \in G
  <2> HIDE DEF G
  <2> QED
    BY <1>2, <1>11, <1>12, UpTo
<1> QED
  BY <1>1, <1>2, <1>13 DEF n

\* missing_within: what a window has that the vector does not.
LEMMA MissingWithinIs ==
  ASSUME NEW rs, InOrder(rs), NEW within \in SeqRange
  PROVE  /\ InOrder(MissingWithin(rs, within))
         /\ Covers(MissingWithin(rs, within)) = Values(within) \ Covers(rs)
<1> DEFINE list == <<within>>
           all == InsertAll(<<>>, list)
<1>1. list \in Seq(SeqRange) /\ Len(list) = 1 /\ list[1] = within /\ 1 .. 1 = {1}
  OBVIOUS
<1> HIDE DEF list
<1>2. Reached(list, Len(list)) = Values(within)
  BY <1>1 DEF Reached
<1>3. InOrder(all) /\ Covers(all) = Values(within)
  <2>1. InOrder(<<>>) /\ Covers(<<>>) = {}
    BY NoRange
  <2>2. InOrder(all) /\ Covers(all) = Covers(<<>>) \cup Reached(list, Len(list))
    BY <1>1, <2>1, InsertAllIs
  <2> QED
    BY <1>2, <2>1, <2>2
<1> HIDE DEF all
<1>4. rs \in Seq(SeqRange) /\ Covers(rs) = Reached(rs, Len(rs))
  BY DEF InOrder, Covers, Reached
<1>5. InOrder(RemoveAll(all, rs)) /\ Covers(RemoveAll(all, rs)) = Covers(all) \ Covers(rs)
  BY <1>3, <1>4, RemoveAllIs
<1>6. MissingWithin(rs, within) = RemoveAll(all, rs)
  BY DEF MissingWithin, all, list
<1> QED
  BY <1>3, <1>5, <1>6

-----------------------------------------------------------------------------
(* Queries on a vector in order.                                           *)

\* The values a range stands for are as many as the loop of count adds.
LEMMA ValuesCounted ==
  ASSUME NEW r \in SeqRange, r.start <= r.end
  PROVE  IsFiniteSet(Values(r)) /\ Cardinality(Values(r)) = r.end - r.start + 1
<1> DEFINE a == r.start
           b == r.end
<1>1. a \in Int /\ b \in Int /\ ~ (a > b) /\ Values(r) = a .. b
  BY RangeFields DEF Values
<1> HIDE DEF a, b
<1>2. IsFiniteSet(a .. b) /\ Cardinality(a .. b) = IF a > b THEN 0 ELSE b - a + 1
  BY <1>1, FS_Interval, Zenon
<1>3. Cardinality(a .. b) = b - a + 1
  BY <1>1, <1>2
<1> QED
  BY <1>1, <1>2, <1>3 DEF a, b

\* count.
LEMMA CountIs ==
  ASSUME NEW rs, InOrder(rs)
  PROVE  Count(rs) = Cardinality(Covers(rs))
<1> DEFINE n == Len(rs)
           W(r) == r.end - r.start + 1
           Body(f) == [s \in SUBSET (DOMAIN rs) |->
                         IF s = {} THEN 0 ELSE f[s \ {Max(s)}] + W(rs[Max(s)])]
           sum == CHOOSE f : f = Body(f)
           step == [p \in Int \X (1 .. n) |-> p[1] + W(rs[p[2]])]
<1>1. Count(rs) = sum[DOMAIN rs]
  BY Zenon DEF Count, FoldLeft, MapThenFoldSet
<1>2. /\ n \in Nat /\ rs \in Seq(SeqRange) /\ DOMAIN rs = 1 .. n
      /\ \A i \in 1 .. n : rs[i] \in SeqRange /\ rs[i].start <= rs[i].end
      /\ \A i, j \in 1 .. n : i < j => rs[i].end + 1 < rs[j].start
  BY CoversAre DEF InOrder
<1>3. \A i \in 1 .. n : W(rs[i]) \in Int /\ IsFiniteSet(Values(rs[i]))
                        /\ Cardinality(Values(rs[i])) = W(rs[i])
  BY <1>2, ValuesCounted, RangeFields
<1> HIDE DEF W
<1>4. step \in [Int \X (1 .. n) -> Int]
  BY <1>3
<1> HIDE DEF n
<1>5. PICK g : IsFold(g, n, Int, 0, step)
  <2>1. step \in Steps(n, Int)
    BY <1>4 DEF Steps
  <2> HIDE DEF step
  <2>2. 0 \in Int
    OBVIOUS
  <2> QED
    BY <1>2, <2>1, <2>2, FoldSolves
<1>0. \A v \in Int, i \in 1 .. n : step[<<v, i>>] = v + W(rs[i])
  OBVIOUS
<1> HIDE DEF step
<1>6. \A s \in SUBSET (1 .. n) :
        g[s] = IF s = {} THEN 0 ELSE g[s \ {Max(s)}] + W(rs[Max(s)])
  <2> SUFFICES ASSUME NEW s \in SUBSET (1 .. n), s # {}
               PROVE  g[s] = g[s \ {Max(s)}] + W(rs[Max(s)])
    BY <1>5 DEF IsFold
  <2>1. Max(s) \in 1 .. n /\ g[s \ {Max(s)}] \in Int
    BY <1>5 DEF IsFold
  <2>2. g[s] = step[<<g[s \ {Max(s)}], Max(s)>>]
    BY <1>5 DEF IsFold
  <2> DEFINE v == g[s \ {Max(s)}]
             i == Max(s)
  <2> HIDE DEF v, i
  <2>3. step[<<v, i>>] = v + W(rs[i])
    BY <1>0, <2>1 DEF v, i
  <2> QED
    BY <2>2, <2>3 DEF v, i
<1>7. g = Body(g)
  BY <1>2, <1>5, <1>6 DEF IsFold
<1>8. sum = Body(sum)
  BY <1>7
<1> HIDE DEF sum
<1>9. sum[{}] = 0
  BY <1>8
<1>10. \A m \in 1 .. n : sum[1 .. m] = sum[1 .. m - 1] + W(rs[m])
  <2> SUFFICES ASSUME NEW m \in 1 .. n PROVE sum[1 .. m] = sum[1 .. m - 1] + W(rs[m])
    OBVIOUS
  <2> DEFINE s == 1 .. m
  <2>0. s \ {m} = 1 .. m - 1
    BY <1>2
  <2>1. s \in SUBSET (1 .. n) /\ m \in s /\ m \in Nat
    BY <1>2
  <2>2. Max(s) = m
    BY <2>1, MaxTop
  <2> HIDE DEF s
  <2>3. sum[s] = sum[s \ {Max(s)}] + W(rs[Max(s)])
    BY <1>2, <1>8, <2>1
  <2> QED
    BY <2>0, <2>2, <2>3 DEF s
<1> DEFINE Done(m) == /\ IsFiniteSet(Reached(rs, m))
                      /\ sum[1 .. m] = Cardinality(Reached(rs, m))
           G == {m \in 0 .. n : Done(m)}
<1>11. 0 \in G
  <2>1. 1 .. 0 = {} /\ 0 \in 0 .. n /\ Reached(rs, 0) = {}
    BY <1>2, ReachedMore
  <2>2. sum[1 .. 0] = 0
    BY <1>9, <2>1
  <2>3. Done(0)
    BY <2>1, <2>2, FS_EmptySet
  <2> HIDE DEF Done
  <2> QED
    BY <2>1, <2>3
<1>12. ASSUME NEW m \in 1 .. n, m - 1 \in G PROVE m \in G
  <2> DEFINE A == Reached(rs, m - 1)
             B == Values(rs[m])
  <2>1. IsFiniteSet(A) /\ sum[1 .. m - 1] = Cardinality(A) /\ m \in 0 .. n
    BY <1>2, <1>12
  <2>2. Reached(rs, m) = A \cup B
    BY <1>2, ReachedMore
  <2>3. IsFiniteSet(B) /\ Cardinality(B) = W(rs[m])
    BY <1>3
  <2>4. A \cap B = {}
    <3> SUFFICES ASSUME NEW v \in A, v \in B PROVE FALSE
      OBVIOUS
    <3>1. PICK i \in 1 .. m - 1 : v \in Values(rs[i])
      BY DEF Reached
    <3>2. i \in 1 .. n /\ i < m
      BY <1>2
    <3>3. rs[i].end + 1 < rs[m].start
      BY <1>2, <3>2
    <3>4. v \in Int /\ v <= rs[i].end /\ rs[i].end \in Nat
      BY <1>2, <3>1, <3>2, RangeFields
    <3>5. rs[m].start <= v /\ rs[m].start \in Nat
      BY <1>2, RangeFields
    <3> QED
      BY <3>3, <3>4, <3>5
  <2>5. sum[1 .. m] = Cardinality(A) + Cardinality(B)
    BY <1>10, <2>1, <2>3
  <2> HIDE DEF A, B
  <2>6. IsFiniteSet(A \cup B) /\ Cardinality(A \cup B) = Cardinality(A) + Cardinality(B)
    <3>1. /\ IsFiniteSet(A \cup B)
          /\ Cardinality(A \cup B) = Cardinality(A) + Cardinality(B) - Cardinality(A \cap B)
      BY <2>1, <2>3, FS_Union
    <3>2. Cardinality(A \cap B) = 0
      BY <2>4, FS_EmptySet
    <3>3. Cardinality(A) \in Nat /\ Cardinality(B) \in Nat
      BY <2>1, <2>3, FS_CardinalityType
    <3> QED
      BY <3>1, <3>2, <3>3
  <2>7. Done(m)
    BY <2>2, <2>5, <2>6
  <2> HIDE DEF Done
  <2> QED
    BY <2>1, <2>7
<1>13. n \in G
  <2> HIDE DEF G
  <2> QED
    BY <1>2, <1>11, <1>12, UpTo
<1>14. Covers(rs) = Reached(rs, n)
  BY DEF Covers, Reached, n
<1> QED
  BY <1>1, <1>2, <1>13, <1>14

\* has_value.
LEMMA HasValueIs ==
  ASSUME NEW rs, InOrder(rs), NEW v \in Value
  PROVE  HasValue(rs, v) <=> v \in Covers(rs)
<1>1. /\ DOMAIN rs = 1 .. Len(rs) /\ (\A i \in 1 .. Len(rs) : rs[i] \in SeqRange)
      /\ (v \in Covers(rs) <=> \E i \in 1 .. Len(rs) : v \in Values(rs[i]))
  BY CoversAre DEF InOrder
<1>2. v \in Int
  BY RangeConstants DEF Value
<1>3. \A i \in 1 .. Len(rs) : v \in Values(rs[i]) <=> rs[i].start <= v /\ v <= rs[i].end
  BY <1>1, <1>2, RangeFields
<1> QED
  BY <1>1, <1>3 DEF HasValue

\* contiguous_from_zero.
LEMMA ContiguousIs ==
  ASSUME NEW rs, InOrder(rs)
  PROVE  ContiguousOf(rs) = Reference!ContiguousFromZero(Covers(rs))
<1> DEFINE S == Covers(rs)
           Good(n) == 0 .. n \subseteq S /\ (n + 1) \notin S
<1>1. /\ Len(rs) \in Nat /\ rs \in Seq(SeqRange) /\ DOMAIN rs = 1 .. Len(rs)
      /\ \A i \in 1 .. Len(rs) : rs[i] \in SeqRange /\ rs[i].start <= rs[i].end
      /\ \A i, j \in 1 .. Len(rs) : i < j => rs[i].end + 1 < rs[j].start
      /\ \A v : v \in S <=> \E i \in 1 .. Len(rs) : v \in Values(rs[i])
      /\ S \subseteq Nat
  <2>1. /\ rs \in Seq(SeqRange)
        /\ \A i \in 1 .. Len(rs) : rs[i].start <= rs[i].end
        /\ \A i, j \in 1 .. Len(rs) : i < j => rs[i].end + 1 < rs[j].start
    BY DEF InOrder
  <2>2. /\ Len(rs) \in Nat /\ DOMAIN rs = 1 .. Len(rs)
        /\ \A i \in 1 .. Len(rs) : rs[i] \in SeqRange
        /\ \A v : v \in Covers(rs) <=> \E i \in 1 .. Len(rs) : v \in Values(rs[i])
        /\ Covers(rs) \subseteq Value
    BY <2>1, CoversAre
  <2>3. Value \subseteq Nat
    BY RangeConstants DEF Value
  <2> HIDE DEF S
  <2>4. S = Covers(rs)
    BY DEF S
  <2> QED
    BY <2>1, <2>2, <2>3, <2>4
<1> HIDE DEF S
<1>2. \A k, m \in {-1} \cup S : Good(k) /\ Good(m) => k = m
  <2>1. ASSUME NEW k \in {-1} \cup S, NEW m \in {-1} \cup S, Good(k), Good(m), k < m
        PROVE  FALSE
    <3>1. k + 1 \in 0 .. m
      BY <1>1, <2>1
    <3> QED
      BY <2>1, <3>1
  <2>2. \A k, m \in {-1} \cup S : k < m \/ m < k \/ k = m
    BY <1>1
  <2> HIDE DEF Good
  <2> QED
    BY <2>1, <2>2
<1>3. ContiguousOf(rs) \in {-1} \cup S /\ Good(ContiguousOf(rs))
  <2>1. CASE rs = <<>>
    <3>1. S = {}
      BY <2>1, NoRange DEF S
    <3>2. ContiguousOf(rs) = -1
      BY <2>1 DEF ContiguousOf, Reference!CHWM_NONE
    <3> QED
      BY <3>1, <3>2
  <2>2. CASE rs # <<>>
    <3>1. Len(rs) # 0 /\ 1 \in 1 .. Len(rs) /\ Head(rs) = rs[1]
      BY <1>1, <2>2
    <3>2. /\ rs[1].start \in Nat /\ rs[1].end \in Nat /\ rs[1].start <= rs[1].end
          /\ \A v : v \in Values(rs[1]) <=> v \in Int /\ rs[1].start <= v /\ v <= rs[1].end
      BY <1>1, <3>1, RangeFields
    <3>3. \A i \in 1 .. Len(rs) : \A v \in Values(rs[i]) :
            i # 1 => v \in Int /\ rs[1].end + 1 < v
      <4> SUFFICES ASSUME NEW i \in 1 .. Len(rs), NEW v \in Values(rs[i]), i # 1
                   PROVE  v \in Int /\ rs[1].end + 1 < v
        OBVIOUS
      <4>1. rs[1].end + 1 < rs[i].start
        BY <1>1, <3>1
      <4>2. v \in Int /\ rs[i].start <= v /\ rs[i].start \in Nat
        BY <1>1, RangeFields
      <4> QED
        BY <3>2, <4>1, <4>2
    <3>4. CASE rs[1].start # 0
      <4>1. ContiguousOf(rs) = -1
        BY <2>2, <3>1, <3>4 DEF ContiguousOf, Reference!CHWM_NONE
      <4>2. 0 \notin S
        <5> SUFFICES ASSUME 0 \in S PROVE FALSE
          OBVIOUS
        <5>1. PICK i \in 1 .. Len(rs) : 0 \in Values(rs[i])
          BY <1>1
        <5>2. CASE i = 1
          BY <3>2, <3>4, <5>1, <5>2
        <5>3. CASE i # 1
          <6>1. rs[1].end + 1 < 0
            BY <3>3, <5>1, <5>3
          <6> QED
            BY <3>2, <6>1
        <5> QED
          BY <5>2, <5>3
      <4> QED
        BY <4>1, <4>2
    <3>5. CASE rs[1].start = 0
      <4> DEFINE e == rs[1].end
      <4>1. ContiguousOf(rs) = e
        BY <2>2, <3>1, <3>5 DEF ContiguousOf
      <4>2. e \in Nat /\ \A v \in 0 .. e : v \in Values(rs[1])
        BY <3>2, <3>5
      <4>3. 0 .. e \subseteq S /\ e \in 0 .. e
        BY <1>1, <3>1, <4>2
      <4>4. e + 1 \notin S
        <5> SUFFICES ASSUME e + 1 \in S PROVE FALSE
          OBVIOUS
        <5>1. PICK i \in 1 .. Len(rs) : e + 1 \in Values(rs[i])
          BY <1>1
        <5>2. CASE i = 1
          <6>1. e + 1 <= e
            BY <3>2, <5>1, <5>2
          <6> QED
            BY <4>2, <6>1
        <5>3. CASE i # 1
          <6>1. e + 1 < e + 1
            BY <3>3, <5>1, <5>3
          <6> QED
            BY <4>2, <6>1
        <5> QED
          BY <5>2, <5>3
      <4> HIDE DEF e
      <4> QED
        BY <4>1, <4>3, <4>4
    <3> QED
      BY <3>4, <3>5
  <2> QED
    BY <2>1, <2>2
<1> DEFINE c == ContiguousOf(rs)
<1> HIDE DEF c
<1>4. c = CHOOSE k \in {-1} \cup S : Good(k)
  <2>1. c \in {-1} \cup S /\ Good(c)
    BY <1>3 DEF c
  <2> HIDE DEF Good
  <2> QED
    BY <1>2, <2>1
<1>5. Reference!ContiguousFromZero(S) = CHOOSE k \in {-1} \cup S : Good(k)
  BY DEF Reference!ContiguousFromZero, Reference!CHWM_NONE
<1> QED
  BY <1>4, <1>5 DEF S, c

-----------------------------------------------------------------------------
(* The specification.                                                      *)

\* The vector is in order and covers the set: RangesExact follows, and every step
\* preserves it.
RangeInv == InOrder(ranges) /\ Covers(ranges) = model

\* A list from the wire.
LEMMA WireList ==
  ASSUME NEW list \in BoundedSeq(SeqRange, MaxList)
  PROVE  /\ list \in Seq(SeqRange)
         /\ UNION {Values(r) : r \in ToSet(list)} = Reached(list, Len(list))
         /\ InOrder(InsertAll(<<>>, list))
         /\ Covers(InsertAll(<<>>, list)) = Reached(list, Len(list))
<1>1. PICK m \in 0 .. MaxList : list \in [1 .. m -> SeqRange]
  BY DEF BoundedSeq, SeqOf
<1>2. m \in Nat
  BY RangeConstants
<1>3. list \in Seq(SeqRange) /\ DOMAIN list = 1 .. Len(list)
  BY <1>1, <1>2
<1>4. UNION {Values(r) : r \in ToSet(list)} = Reached(list, Len(list))
  BY <1>3 DEF ToSet, Reached
<1>5. InOrder(<<>>) /\ Covers(<<>>) = {}
  BY NoRange
<1>6. /\ InOrder(InsertAll(<<>>, list))
      /\ Covers(InsertAll(<<>>, list)) = Covers(<<>>) \cup Reached(list, Len(list))
  BY <1>3, <1>5, InsertAllIs
<1> QED
  BY <1>3, <1>4, <1>5, <1>6

LEMMA RangeStep ==
  ASSUME RangeInv, RangeNext
  PROVE  RangeInv'
<1>1. ASSUME NEW r \in SeqRange, DoInsert(r) PROVE RangeInv'
  <2>1. /\ InOrder(InsertRange(ranges, r))
        /\ Covers(InsertRange(ranges, r)) = Covers(ranges) \cup Values(r)
    BY InsertIs DEF RangeInv
  <2>2. ranges' = InsertRange(ranges, r) /\ model' = model \cup Values(r)
    BY <1>1 DEF DoInsert
  <2>3. InOrder(ranges') /\ Covers(ranges') = model'
    BY <2>1, <2>2 DEF RangeInv
  <2> QED
    BY <2>3 DEF RangeInv, InOrder, Covers
<1>2. ASSUME NEW r \in SeqRange, DoRemove(r) PROVE RangeInv'
  <2>1. /\ InOrder(RemoveRange(ranges, r))
        /\ Covers(RemoveRange(ranges, r)) = Covers(ranges) \ Values(r)
    BY RemoveIs DEF RangeInv
  <2>2. ranges' = RemoveRange(ranges, r) /\ model' = model \ Values(r)
    BY <1>2 DEF DoRemove
  <2>3. InOrder(ranges') /\ Covers(ranges') = model'
    BY <2>1, <2>2 DEF RangeInv
  <2> QED
    BY <2>3 DEF RangeInv, InOrder, Covers
<1>3. ASSUME NEW r \in SeqRange, DoMissingWithin(r) PROVE RangeInv'
  <2>1. /\ InOrder(MissingWithin(ranges, r))
        /\ Covers(MissingWithin(ranges, r)) = Values(r) \ Covers(ranges)
    BY MissingWithinIs DEF RangeInv
  <2>2. ranges' = MissingWithin(ranges, r) /\ model' = Values(r) \ model
    BY <1>3 DEF DoMissingWithin
  <2>3. InOrder(ranges') /\ Covers(ranges') = model'
    BY <2>1, <2>2 DEF RangeInv
  <2> QED
    BY <2>3 DEF RangeInv, InOrder, Covers
<1>4. ASSUME NEW list \in BoundedSeq(SeqRange, MaxList), DoUnion(list) PROVE RangeInv'
  <2> DEFINE other == InsertAll(<<>>, list)
  <2>1. InOrder(other) /\ Covers(other) = UNION {Values(r) : r \in ToSet(list)}
    BY WireList
  <2>2. ranges' = InsertAll(ranges, other) /\ model' = model \cup Covers(other)
    BY <1>4, <2>1 DEF DoUnion
  <2> HIDE DEF other
  <2>3. other \in Seq(SeqRange) /\ Reached(other, Len(other)) = Covers(other)
    BY <2>1 DEF InOrder, Covers, Reached
  <2>4. /\ InOrder(InsertAll(ranges, other))
        /\ Covers(InsertAll(ranges, other)) = Covers(ranges) \cup Reached(other, Len(other))
    BY <2>3, InsertAllIs DEF RangeInv
  <2>5. InOrder(ranges') /\ Covers(ranges') = model'
    BY <2>2, <2>3, <2>4 DEF RangeInv
  <2> QED
    BY <2>5 DEF RangeInv, InOrder, Covers
<1>5. ASSUME NEW list \in BoundedSeq(SeqRange, MaxList), DoSubtract(list) PROVE RangeInv'
  <2> DEFINE other == InsertAll(<<>>, list)
  <2>1. InOrder(other) /\ Covers(other) = UNION {Values(r) : r \in ToSet(list)}
    BY WireList
  <2>2. ranges' = RemoveAll(ranges, other) /\ model' = model \ Covers(other)
    BY <1>5, <2>1 DEF DoSubtract
  <2> HIDE DEF other
  <2>3. other \in Seq(SeqRange) /\ Reached(other, Len(other)) = Covers(other)
    BY <2>1 DEF InOrder, Covers, Reached
  <2>4. /\ InOrder(RemoveAll(ranges, other))
        /\ Covers(RemoveAll(ranges, other)) = Covers(ranges) \ Reached(other, Len(other))
    BY <2>3, RemoveAllIs DEF RangeInv
  <2>5. InOrder(ranges') /\ Covers(ranges') = model'
    BY <2>2, <2>3, <2>4 DEF RangeInv
  <2> QED
    BY <2>5 DEF RangeInv, InOrder, Covers
<1> QED
  BY <1>1, <1>2, <1>3, <1>4, <1>5 DEF RangeNext

LEMMA InOrderIsExact ==
  ASSUME RangeInv
  PROVE  RangesExact
<1>1. InOrder(ranges) /\ Covers(ranges) = model
  BY DEF RangeInv
<1>2. /\ Len(ranges) \in Nat /\ DOMAIN ranges = 1 .. Len(ranges)
      /\ \A i \in 1 .. Len(ranges) : ranges[i] \in SeqRange /\ ranges[i].start <= ranges[i].end
      /\ \A i, j \in 1 .. Len(ranges) : i < j => ranges[i].end + 1 < ranges[j].start
  BY <1>1, CoversAre DEF InOrder
<1>3. Represents
  BY <1>1, <1>2 DEF Represents, Covers
<1>4. Coalesced
  <2>1. \A i \in 1 .. Len(ranges) : ~ IsEmpty(ranges[i])
    BY <1>2, RangeFields DEF IsEmpty
  <2>2. \A i \in 1 .. Len(ranges) - 1 :
          i \in 1 .. Len(ranges) /\ i + 1 \in 1 .. Len(ranges) /\ i < i + 1
    BY <1>2
  <2>3. \A i \in 1 .. Len(ranges) - 1 : ranges[i].end + 1 < ranges[i + 1].start
    BY <1>2, <2>2
  <2> QED
    BY <1>2, <2>1, <2>3 DEF Coalesced
<1>5. QueriesAgree
  BY <1>1, CountIs, HasValueIs, ContiguousIs DEF QueriesAgree
<1> QED
  BY <1>3, <1>4, <1>5 DEF RangesExact

\* ranges.rs is exact for every width of the type and lists of every length: after any
\* inserts, removes, unions, subtractions and missing_within, at both ends of u32 too,
\* the vector is sorted with room between its ranges, stands for the reference set, and
\* has_value, count and contiguous_from_zero answer for that set.
THEOREM RangesAreExact == RangeSpec => []RangesExact
<1>1. RangeInit => RangeInv
  BY NoRange DEF RangeInit, RangeInv
<1>2. RangeInv /\ [RangeNext]_rangeVars => RangeInv'
  <2>1. CASE RangeNext
    BY <2>1, RangeStep
  <2>2. CASE UNCHANGED rangeVars
    BY <2>2 DEF rangeVars, RangeInv, InOrder, Covers
  <2> QED
    BY <2>1, <2>2
<1>3. RangeInv => RangesExact
  BY InOrderIsExact
<1> QED
  BY <1>1, <1>2, <1>3, PTL DEF RangeSpec
=============================================================================
