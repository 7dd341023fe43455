--------------------------- MODULE StreamDeletion ---------------------------
(***************************************************************************)
(* Deletion and the server's archive: the ingest chain (ingest/index.ts,   *)
(* frames.ts), the archive's writes and its two deletion paths             *)
(* (archive/index.ts, retention.ts), hard deletion of the session          *)
(* (destroySession), and the desk that asks for a deletion, keeps its own  *)
(* copy and exchanges it over the sync channel (desk-session.ts,           *)
(* desk-server-sync.ts, sink.worker.ts).                                   *)
(*                                                                         *)
(* One take, whose recorder has recorded every chunk and still holds them  *)
(* in its ring.  A message that leaves its sender unchanged takes effect   *)
(* when the chain picks it up, so sending it later and a slow network are  *)
(* the same; what the desk has planned or put on the wire is kept, because *)
(* a deletion may overtake it.                                             *)
(***************************************************************************)
EXTENDS Naturals, FiniteSets

CONSTANTS
    DelStream,       \* the take's streams
    LastSeq,
    Recorded,        \* the chunks the recorder has of them
    MaxDelFaults,    \* bound on failures, crashes and lost fanouts
    MaxDeletes,      \* bound on the desk's deletion requests
    MaxHardDeletes

VARIABLES
    arch,      \* Postgres: session and take row, stream rows, chunk rows, final seqs
    blob,      \* keys in the blob store
    room,      \* the session's room, and with it its ingest, exists
    rolling,   \* the take is the room's active take
    sink,      \* the ingest: engine up, chunks held, finals, take and streams known
    task,      \* the chain's current task
    ring,      \* chunks the recorder has not had acknowledged
    said,      \* announces and finals the recorder has sent
    sync,      \* the desk's sync channel is open
    opfs,      \* the desk's copy
    plan,      \* chunks the desk is about to push
    wire,      \* chunks on the way from the desk
    toDesk,    \* chunks and HAVEs on the way to the desk
    pushQ,     \* the link's push queue, and the chunk it is fetching
    confirm,   \* streams of a streams-deleted on its way to the desk
    destroy,   \* the hard deletion under way
    delCount,  \* bounds: faults, deletions, hard deletions
    fate       \* history: orphaned blobs, erased and cleanly erased streams, streams
               \* the desk dropped, a foreign key failed, a hard deletion ran, a room
               \* opened during it

deskSide == <<sync, opfs, plan, wire, toDesk, pushQ, confirm>>
recorder == <<ring, said>>
delVars == <<arch, blob, room, rolling, sink, task, recorder, deskSide, destroy, delCount, fate>>

Seq0 == 0..LastSeq
Key == DelStream \X Seq0

ASSUME DeletionAssumption == Recorded \subseteq Key

Of(S) == S \X Seq0
Idle0 == [kind |-> "none"]
NoDestroy == [pc |-> "idle", keys |-> {}, streams |-> {}]
NoMail == [chunks |-> {}, haves |-> {}]
Offline == [up |-> FALSE, held |-> {}, ended |-> {}, take |-> FALSE, streams |-> {}]

\* loadSessionState, rebuildEngine: the engine as the rows have it.
rebuildEngine(a) ==
    [up |-> TRUE, held |-> a.chunks, ended |-> a.finals,
     take |-> a.streams # {}, streams |-> a.streams]

DelInit ==
    /\ arch = [session |-> TRUE, take |-> TRUE, streams |-> {}, chunks |-> {}, finals |-> {}]
    /\ blob = {} /\ room = TRUE /\ rolling = TRUE
    /\ sink = [Offline EXCEPT !.up = TRUE, !.take = TRUE]
    /\ task = Idle0 /\ ring = Recorded /\ said = {}
    /\ sync = FALSE /\ opfs = {} /\ plan = {} /\ wire = {}
    /\ toDesk = NoMail
    /\ pushQ = [queue |-> {}, pull |-> {}] /\ confirm = {}
    /\ destroy = NoDestroy
    /\ \/ delCount = [faults |-> 0, deletes |-> 0, hard |-> MaxHardDeletes]
       \/ delCount = [faults |-> 0, deletes |-> MaxDeletes, hard |-> 0]
    /\ fate = [orphans |-> {}, erased |-> {}, clean |-> {}, dropped |-> {}, fk |-> FALSE, wiped |-> FALSE, raced |-> FALSE]

Fault == /\ delCount.faults < MaxDelFaults
         /\ delCount' = [delCount EXCEPT !.faults = @ + 1]

\* The chain is free and the room is there to enqueue on.
Free == room /\ task = Idle0

-----------------------------------------------------------------------------
(* The chain.                                                              *)

\* What a task that stops here leaves behind: a blob without its row, or rows
\* deleted with their blobs still there.
Debris ==
    IF task.kind = "chunk" /\ task.pc = "insert" THEN {task.key} \ arch.chunks
    ELSE IF task.kind = "delete" /\ task.pc = "blobs" THEN task.keys \cap blob ELSE {}

\* enqueue's catch: every link is closed and the engine rebuilt from the rows; if
\* that fails too the ingest is offline until the room is opened again.
Poison(fk) ==
    /\ task' = Idle0
    /\ \E up \in BOOLEAN : sink' = IF up THEN rebuildEngine(arch) ELSE Offline
    /\ sync' = FALSE /\ toDesk' = NoMail /\ pushQ' = [pushQ EXCEPT !.queue = {}]
    /\ fate' = [fate EXCEPT !.orphans = @ \union Debris, !.fk = @ \/ fk]
    /\ UNCHANGED <<arch, blob, room, rolling, ring, opfs, plan, confirm, destroy>>

TaskFails ==
    /\ task # Idle0
    /\ Fault
    /\ Poison(FALSE)
    /\ UNCHANGED <<said, wire>>

\* An announce names the peer and always writes the row.
Inserts(s, named) == s \notin sink.streams \/ named

\* Inserting a stream row needs its take's row.
EnsureFits(s, named) == Inserts(s, named) /\ sink.take => arch.take

\* ensureTake and ensureStream.
ensuredRows(s) ==
    [arch EXCEPT !.session = @ \/ ~sink.take, !.take = @ \/ ~sink.take, !.streams = @ \union {s}]

\* ensureStreamPersisted.
ensureStreamPersisted(eng, s, named) ==
    /\ arch' = IF Inserts(s, named) THEN ensuredRows(s) ELSE arch
    /\ sink' = [eng EXCEPT !.take = TRUE, !.streams = @ \union {s}]

\* A chunk reaches processFrame: the engine holds it, then its rows are ensured.
Ingest(k, from) ==
    /\ Free /\ sink.up
    /\ IF k \in sink.held
       THEN UNCHANGED <<arch, blob, room, rolling, sink, task, ring, sync, opfs, plan, toDesk, pushQ, confirm,
                        destroy, fate>>
       ELSE IF EnsureFits(k[1], FALSE)
       THEN /\ ensureStreamPersisted([sink EXCEPT !.held = @ \union {k}], k[1], FALSE)
            /\ task' = [kind |-> "chunk", pc |-> "put", key |-> k, from |-> from]
            /\ UNCHANGED <<blob, room, rolling, ring, sync, opfs, plan, toDesk, pushQ, confirm, destroy, fate>>
       ELSE Poison(TRUE)
    /\ UNCHANGED <<said, delCount>>

RecorderSends(k) == k \in ring /\ Ingest(k, "recorder") /\ UNCHANGED wire

DeskFrame(k) == k \in wire /\ Ingest(k, "desk") /\ wire' = wire \ {k}

\* persistChunk: the blob first.
persistBlob ==
    /\ task.kind = "chunk" /\ task.pc = "put"
    /\ blob' = blob \union {task.key}
    /\ task' = [task EXCEPT !.pc = "insert"]
    /\ UNCHANGED <<arch, room, rolling, sink, recorder, deskSide, destroy, delCount, fate>>

\* persistChunk: then the row, which needs its stream's; then the live tee to the
\* desk or, its channel full, the push queue.
persistRow ==
    /\ task.kind = "chunk" /\ task.pc = "insert"
    /\ IF task.key[1] \in arch.streams
       THEN /\ arch' = [arch EXCEPT !.chunks = @ \union {task.key}]
            /\ task' = Idle0
            /\ IF sync /\ task.from # "desk"
               THEN \/ toDesk' = [toDesk EXCEPT !.chunks = @ \union {task.key}] /\ UNCHANGED pushQ
                    \/ pushQ' = [pushQ EXCEPT !.queue = @ \union {task.key}] /\ UNCHANGED toDesk
               ELSE UNCHANGED <<toDesk, pushQ>>
            /\ UNCHANGED <<blob, room, rolling, sink, ring, sync, opfs, plan, wire, confirm, destroy, fate>>
       ELSE Poison(TRUE) /\ UNCHANGED wire
    /\ UNCHANGED <<said, delCount>>

\* stream-announce: noteStream.
RecorderAnnounces(s) ==
    /\ Free /\ <<"announce", s>> \notin said
    /\ said' = said \union {<<"announce", s>>}
    /\ IF EnsureFits(s, TRUE)
       THEN ensureStreamPersisted(sink, s, TRUE)
            /\ UNCHANGED <<blob, room, rolling, task, ring, deskSide, destroy, fate>>
       ELSE Poison(TRUE) /\ UNCHANGED wire
    /\ UNCHANGED delCount

\* stream-final, after the announce of the same socket: setFinalSeq.
RecorderFinals(s) ==
    /\ Free /\ <<"announce", s>> \in said /\ <<"final", s>> \notin said
    /\ said' = said \union {<<"final", s>>}
    /\ IF EnsureFits(s, FALSE)
       THEN /\ LET rows == IF Inserts(s, FALSE) THEN ensuredRows(s) ELSE arch
               IN  arch' = [rows EXCEPT !.finals = @ \union ({s} \cap rows.streams)]
            /\ sink' = [sink EXCEPT !.take = TRUE, !.streams = @ \union {s},
                                    !.ended = IF sink.up THEN @ \union {s} ELSE @]
            /\ UNCHANGED <<blob, room, rolling, task, ring, deskSide, destroy, fate>>
       ELSE Poison(TRUE) /\ UNCHANGED wire
    /\ UNCHANGED delCount

\* An ACK of everything the engine holds; the recorder frees it.
RecorderAcked ==
    /\ Free /\ sink.up /\ ring \cap sink.held # {}
    /\ ring' = ring \ sink.held
    /\ UNCHANGED <<arch, blob, room, rolling, sink, task, said, deskSide, destroy, delCount, fate>>

\* take-stop: noteTakeStop, which drops a take that has no stream.
noteTakeStop ==
    /\ Free /\ rolling
    /\ rolling' = FALSE
    /\ arch' = [arch EXCEPT !.take = arch.streams # {}]
    /\ sink' = [sink EXCEPT !.take = @ /\ arch.streams # {}]
    /\ UNCHANGED <<blob, room, task, recorder, deskSide, destroy, delCount, fate>>

-----------------------------------------------------------------------------
(* Deleting streams.                                                       *)

\* Mutant: the engine keeps what it held.
forgottenKept(S) == [sink EXCEPT !.streams = @ \ S]

\* The engine and the known streams of the deletion.
forgotten(S) == [sink EXCEPT !.held = @ \ Of(S), !.ended = @ \ S, !.streams = @ \ S]

\* streams-delete from the desk, refused while the take is rolling; else
\* deleteStreams on the chain, engine state and queued pushes first.
DeskDeletes(S) ==
    /\ Free
    /\ delCount.deletes < MaxDeletes
    /\ delCount' = [delCount EXCEPT !.deletes = @ + 1]
    /\ IF rolling THEN UNCHANGED <<sink, pushQ, task>>
       ELSE /\ sink' = forgotten(S)
            /\ pushQ' = [pushQ EXCEPT !.queue = @ \ Of(S)]
            /\ task' = [kind |-> "delete", pc |-> "rows", streams |-> S]
    /\ UNCHANGED <<arch, blob, room, rolling, recorder, sync, opfs, plan, wire, toDesk, confirm, destroy, fate>>

\* Nobody has anything of stream s left to send.
Quiet(s) ==
    /\ Of({s}) \cap (ring \union wire \union plan) = {}
    /\ \A h \in toDesk.haves : h[1] # s
    /\ {<<"announce", s>>, <<"final", s>>} \subseteq said

\* retention.deleteStreams: the chunk keys are read, the stream rows deleted.
DeleteRows ==
    /\ task.kind = "delete" /\ task.pc = "rows"
    /\ task' = [kind |-> "delete", pc |-> "blobs", streams |-> task.streams,
                keys |-> arch.chunks \cap Of(task.streams)]
    /\ arch' = [arch EXCEPT !.streams = @ \ task.streams, !.chunks = @ \ Of(task.streams),
                            !.finals = @ \ task.streams]
    /\ fate' = [fate EXCEPT !.erased = @ \union task.streams,
                            !.clean = @ \union {s \in task.streams : Quiet(s)}]
    /\ UNCHANGED <<blob, room, rolling, sink, recorder, deskSide, destroy, delCount>>

\* Then the blobs; one that cannot be deleted is left behind.
DeleteBlobs ==
    /\ task.kind = "delete" /\ task.pc = "blobs"
    /\ task' = [kind |-> "delete", pc |-> "take", streams |-> task.streams]
    /\ \/ blob' = blob \ task.keys /\ UNCHANGED <<delCount, fate>>
       \/ \E k \in task.keys \cap blob :
             /\ Fault
             /\ blob' = (blob \ task.keys) \union {k}
             /\ fate' = [fate EXCEPT !.orphans = @ \union {k}]
    /\ UNCHANGED <<arch, room, rolling, sink, recorder, deskSide, destroy>>

\* Then a take that lost its last stream; the confirm fans out.
DeleteTake ==
    /\ task.kind = "delete" /\ task.pc = "take"
    /\ task' = Idle0
    /\ arch' = [arch EXCEPT !.take = @ /\ arch.streams # {}]
    /\ sink' = [sink EXCEPT !.take = @ /\ arch.streams # {}]
    /\ confirm' = confirm \union task.streams
    /\ UNCHANGED <<blob, room, rolling, recorder, sync, opfs, plan, wire, toDesk, pushQ, destroy,
                   delCount, fate>>

-----------------------------------------------------------------------------
(* The desk and its sync channel.                                          *)

serverSide == <<arch, blob, room, rolling, sink, task>>

\* Seqs of stream s among the keys K.
SeqsOf(K, s) == {k[2] : k \in {j \in K : j[1] = s}}

\* Mutant: streams the HAVE does not speak of are pushed as well.
planPushAll(K, s, seqs) == {k \in K : k[1] = s => k[2] \notin seqs}

\* plan_push: what of stream s one side holds and the other's HAVE lacks.
planPush(K, s, seqs) == {k \in K : k[1] = s /\ k[2] \notin seqs}

\* The channel opens (ensure, attachChannel): the server announces what it holds.
SyncOpens ==
    /\ ~sync /\ Free /\ sink.up
    /\ sync' = TRUE
    /\ toDesk' = [toDesk EXCEPT !.haves =
          {<<s, SeqsOf(sink.held, s)>> : s \in {t \in DelStream : t \in sink.ended \/ SeqsOf(sink.held, t) # {}}}]
    /\ UNCHANGED <<serverSide, recorder, opfs, plan, wire, pushQ, confirm, destroy, delCount, fate>>

SyncDrops ==
    /\ sync /\ Fault
    /\ sync' = FALSE /\ toDesk' = NoMail /\ pushQ' = [pushQ EXCEPT !.queue = {}]
    /\ UNCHANGED <<serverSide, recorder, opfs, plan, wire, confirm, destroy, fate>>

\* A HAVE of the desk (exchangeHaves) is answered from the push queue.
DeskHaves(s) ==
    /\ sync /\ Free /\ sink.up
    /\ LET missing == planPush(sink.held, s, SeqsOf(opfs, s)) \ pushQ.queue
       IN  missing # {} /\ pushQ' = [pushQ EXCEPT !.queue = @ \union missing]
    /\ UNCHANGED <<serverSide, recorder, sync, opfs, plan, wire, toDesk, confirm, destroy, delCount, fate>>

\* drainPushQueue, up to the await of getFrame...
PushStarts(k) ==
    /\ sync /\ k \in pushQ.queue /\ pushQ.pull = {}
    /\ pushQ' = [queue |-> pushQ.queue \ {k}, pull |-> {k}]
    /\ UNCHANGED <<serverSide, recorder, sync, opfs, plan, wire, toDesk, confirm, destroy, delCount, fate>>

\* ... and after it; a missing blob is skipped.
PushEnds ==
    /\ pushQ.pull # {}
    /\ pushQ' = [pushQ EXCEPT !.pull = {}]
    /\ toDesk' = IF sync THEN [toDesk EXCEPT !.chunks = @ \union (pushQ.pull \cap blob)] ELSE toDesk
    /\ UNCHANGED <<serverSide, recorder, sync, opfs, plan, wire, confirm, destroy, delCount, fate>>

\* onFrame: a chunk is stored, a HAVE planned against the desk's own copy.
DeskStores(k) ==
    /\ k \in toDesk.chunks
    /\ toDesk' = [toDesk EXCEPT !.chunks = @ \ {k}]
    /\ opfs' = opfs \union {k}
    /\ UNCHANGED <<serverSide, recorder, sync, plan, wire, pushQ, confirm, destroy, delCount, fate>>

DeskPlans(h) ==
    /\ h \in toDesk.haves
    /\ toDesk' = [toDesk EXCEPT !.haves = @ \ {h}]
    /\ plan' = plan \union planPush(opfs, h[1], h[2])
    /\ UNCHANGED <<serverSide, recorder, sync, opfs, wire, pushQ, confirm, destroy, delCount, fate>>

\* get-frames: what of the plan is still stored.
getFrames(K) == K \cap opfs

\* pushFrames sends it on an open channel.
DeskPushes ==
    /\ plan # {}
    /\ plan' = {}
    /\ wire' = IF sync THEN wire \union getFrames(plan) ELSE wire
    /\ UNCHANGED <<serverSide, recorder, sync, opfs, toDesk, pushQ, confirm, destroy, delCount, fate>>

\* The recorder's own link to the desk delivers a chunk the desk lacks.
DeskHears(k) ==
    /\ k \in ring \ opfs
    /\ opfs' = opfs \union {k}
    /\ UNCHANGED <<serverSide, recorder, sync, plan, wire, toDesk, pushQ, confirm, destroy, delCount, fate>>

\* delete-streams: engine state and directory go.
withoutStreams(S) == opfs \ Of(S)

\* streams-deleted.
DeskDrops ==
    /\ confirm # {}
    /\ confirm' = {}
    /\ opfs' = withoutStreams(confirm)
    /\ fate' = [fate EXCEPT !.dropped = @ \union {s \in confirm : Of({s}) \cap opfs # {}}]
    /\ UNCHANGED <<serverSide, recorder, sync, plan, wire, toDesk, pushQ, destroy, delCount>>

\* The desk's signaling was down when the confirm fanned out.
ConfirmMissed ==
    /\ confirm # {} /\ Fault
    /\ confirm' = {}
    /\ UNCHANGED <<serverSide, recorder, sync, opfs, plan, wire, toDesk, pushQ, destroy, fate>>

-----------------------------------------------------------------------------
(* Hard deletion, crash and return.                                        *)

Closed ==
    /\ room' = FALSE /\ rolling' = FALSE /\ sink' = Offline /\ task' = Idle0
    /\ sync' = FALSE /\ toDesk' = NoMail /\ pushQ' = [queue |-> {}, pull |-> {}] /\ wire' = {}

\* destroySession: closeSession disconnects everyone and waits for the chain.
DestroyStarts ==
    /\ destroy.pc = "idle" /\ task = Idle0
    /\ delCount.hard < MaxHardDeletes
    /\ delCount' = [delCount EXCEPT !.hard = @ + 1]
    /\ Closed
    /\ destroy' = [NoDestroy EXCEPT !.pc = "read"]
    /\ fate' = [fate EXCEPT !.wiped = TRUE]
    /\ UNCHANGED <<arch, blob, recorder, opfs, plan, confirm>>

\* deleteSession reads the stream ids and the chunk keys.
DestroyReads ==
    /\ destroy.pc = "read"
    /\ destroy' = [pc |-> "blobs", keys |-> arch.chunks, streams |-> arch.streams]
    /\ UNCHANGED <<serverSide, recorder, deskSide, delCount, fate>>

\* Blobs first: a failure ends the deletion with the rows still there.
DestroyBlobs ==
    /\ destroy.pc = "blobs"
    /\ \/ /\ blob' = blob \ destroy.keys
          /\ destroy' = [destroy EXCEPT !.pc = "rows"]
          /\ UNCHANGED delCount
       \/ \E left \in SUBSET (destroy.keys \cap blob) :
             /\ left # {} /\ Fault
             /\ blob' = (blob \ destroy.keys) \union left
             /\ destroy' = NoDestroy
    /\ UNCHANGED <<arch, room, rolling, sink, task, recorder, deskSide, fate>>

\* Rows of the streams read, then the session's, whose deletion cascades.
DestroyRows ==
    /\ destroy.pc = "rows"
    /\ arch' = [arch EXCEPT !.streams = @ \ destroy.streams, !.chunks = @ \ Of(destroy.streams),
                            !.finals = @ \ destroy.streams]
    /\ fate' = [fate EXCEPT !.erased = @ \union destroy.streams]
    /\ destroy' = [destroy EXCEPT !.pc = "session"]
    /\ UNCHANGED <<blob, room, rolling, sink, task, recorder, deskSide, delCount>>

DestroyEnds ==
    /\ destroy.pc = "session"
    /\ arch' = [session |-> FALSE, take |-> FALSE, streams |-> {}, chunks |-> {}, finals |-> {}]
    /\ fate' = [fate EXCEPT !.erased = @ \union arch.streams]
    /\ destroy' = NoDestroy
    /\ UNCHANGED <<blob, room, rolling, sink, task, recorder, deskSide, delCount>>

\* The process dies and comes back with what Postgres and the blob store have.
ServerCrashes ==
    /\ room \/ destroy.pc # "idle"
    /\ Fault
    /\ Closed
    /\ destroy' = NoDestroy
    /\ fate' = [fate EXCEPT !.orphans = @ \union Debris]
    /\ UNCHANGED <<arch, blob, recorder, opfs, plan, confirm>>

\* A peer joins: the room is made and its engine rebuilt, hard deletion or not.
RoomOpens ==
    /\ ~room
    /\ room' = TRUE
    /\ arch' = [arch EXCEPT !.session = TRUE]
    /\ sink' = rebuildEngine(arch)
    /\ fate' = [fate EXCEPT !.raced = @ \/ destroy.pc # "idle"]
    /\ UNCHANGED <<blob, rolling, task, recorder, deskSide, destroy, delCount>>

-----------------------------------------------------------------------------
DelNext ==
    \/ TaskFails \/ persistBlob \/ persistRow
    \/ \E k \in Key : RecorderSends(k) \/ DeskFrame(k) \/ PushStarts(k) \/ DeskStores(k) \/ DeskHears(k)
    \/ \E s \in DelStream : RecorderAnnounces(s) \/ RecorderFinals(s) \/ DeskHaves(s)
    \/ RecorderAcked \/ noteTakeStop
    \/ \E S \in SUBSET DelStream \ {{}} : DeskDeletes(S)
    \/ DeleteRows \/ DeleteBlobs \/ DeleteTake
    \/ SyncOpens \/ SyncDrops \/ PushEnds
    \/ \E h \in toDesk.haves : DeskPlans(h)
    \/ DeskPushes \/ DeskDrops \/ ConfirmMissed
    \/ DestroyStarts \/ DestroyReads \/ DestroyBlobs \/ DestroyRows \/ DestroyEnds
    \/ ServerCrashes \/ RoomOpens

DelSpec == DelInit /\ [][DelNext]_delVars

-----------------------------------------------------------------------------
(* Properties.                                                             *)

\* A chunk row implies a durable blob (persistChunk's order and deleteStreams'
\* order), whatever fails or crashes in between, until a hard deletion starts.
RowHasBlob == ~fate.wiped => arch.chunks \subseteq blob

\* What the running task has put without a row, or is about to delete.
Pending ==
    (IF task.kind = "chunk" /\ task.pc = "insert" THEN {task.key} ELSE {})
    \union (IF task.kind = "delete" /\ task.pc = "blobs" THEN task.keys ELSE {})

\* Every blob has its row, or is one of two kinds the code cannot find again: put by
\* a task that died before its row, or not deleted with its stream's rows.  A hard
\* deletion that fails part way adds none, unless a room was opened while it ran.
BlobsAccounted == ~fate.raced => blob \ arch.chunks \subseteq fate.orphans \union Pending

\* Between tasks the engine holds, and so acknowledges, only what has a row; a
\* deleted stream is gone from both, and a failed task leaves them equal.
HeldIsArchived == task = Idle0 /\ ~fate.raced => sink.held \subseteq arch.chunks

\* A late chunk, announce or final never fails on a missing parent row, whatever
\* take-stop and deletions dropped before it (deleteTakeIfEmpty's "safe against
\* late chunks"), unless a room was opened during a hard deletion.
NoMissingParent == fate.fk => fate.raced

\* The desk loses a copy only of a stream the archive has erased: a refused,
\* failed or interrupted deletion never costs it one.
DropsOnlyErased == fate.dropped \subseteq fate.erased

\* A stream deleted when nobody had anything of it left to send stays deleted,
\* even where a desk missed the confirm and still holds its copy.
CleanDeleteStays ==
    \A s \in fate.clean : s \notin arch.streams /\ Of({s}) \cap sink.held = {}

\* Not so in general (ingest/index.ts:170-171, "so no peer can re-push them").
DeletedStaysGone == \A s \in fate.erased : s \notin arch.streams

\* Nor this (retention.ts:76-79): once the session row is gone no recording is left.
NothingLeaked == ~arch.session => blob = {}

\* Engine, rows and blobs stay in step: whatever writes, deletions, failures and
\* crashes cross, what is acknowledged has its row, what has a row has its blob and
\* its parents, and no blob is left that nothing accounts for (archive/index.ts,
\* retention.ts, ingest/index.ts).
ArchiveInStep == RowHasBlob /\ BlobsAccounted /\ HeldIsArchived /\ NoMissingParent

\* A deletion is all or nothing across sinks: the desk gives up its copy only with
\* the archive's, and no copy that a desk kept by accident brings a stream back
\* (desk-session.ts, desk-server-sync.ts planPush).
DeletionHolds == DropsOnlyErased /\ CleanDeleteStays
=============================================================================
