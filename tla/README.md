# Antiphon, specified

Antiphon records performers over the network without ever losing audio: each
performer's browser encodes its microphone into numbered chunks and keeps them
in a ring buffer; *sinks* (the server, and the desk that runs the session)
store the chunks and acknowledge what they have; a control plane over
WebSockets starts and stops takes.  This directory holds TLA+ specifications of
the parts of that program whose correctness depends on order, failure and
timing, TLC configurations that check them on small instances, and proofs that
TLAPS checks for every instance.

Paths below are relative to `src/`.

## Inventory

| Part | State it keeps | Operations | Talks to |
|---|---|---|---|
| Recorder stream engine (`packages/core/src/sender.rs`, `ring.rs`) | take state, ring of chunks, declared gaps, per sink: latest snapshot, live queue, backlog, reports | arm, push_audio, finish, add/remove sink, set_connected, handle_frame, pop_frame | encoder worker |
| Sink engine (`receiver.rs`, `packages/wasm/src/sink.rs`) | per stream: held ranges, chunk metadata, declared gaps, final number, flags | ingest, record_gaps, set_final_seq, rebuild, ack/have frames, plan_push, remove_stream | server ingest, desk sink worker |
| Server ingest (`apps/server/src/ingest`) | one promise chain, peer links, push queues, known takes/streams/headers | frames, ACK timer, noteTake/Stop/Stream, setFinalSeq, deleteStreams, poison and rebuild | archive, signaling |
| Archive (`apps/server/src/archive`, `db/schema.ts`, `blob`) | rows for takes, streams, chunks, gaps; blobs | persistChunk (blob, then row), persistGaps, setFinalSeq, retention, read side | Postgres, blob store (external) |
| Desk sink worker (`apps/web/src/audio/sink.worker.ts`, `sink-store.ts`) | the same engine over OPFS files | the same, plus FLAC assembly | desk session |
| Encoder worker (`encoder.worker.ts`, `local-take.ts`) | engine, queued arm, sinks known before arm, local copy | pump, arm, stop, sink and frame messages | capture controller |
| Capture controller, recorder session (`capture-controller.ts`, `recorder-session.ts`) | pipeline epoch, arm/stop generations, active take | welcome, take-start, take-stop, device switch | encoder worker, signaling |
| Signaling (`apps/server/src/signaling`, `packages/protocol`) | rooms, peers, active take | hello, relay, take-start/stop, stream-final, close, prune | every client |
| Sink to sink sync (`desk-server-sync.ts`, `ingest/link.ts`) | push queues, buffered amounts | HAVE exchange, tee, push | sinks |
| Collaboration (`apps/server/src/collab`, `net/collab*.ts`) | Yjs document per room, save and eviction timers, one row | attach, update, save, evict, close, delete | desks, archive |
| Access (`auth/access.ts`, `gates.ts`, `ratelimit.ts`) | owner and shares of a session; token buckets | open, read, share, unshare, delete; allow, prune | identity provider (external), signaling, collab |
| Sink links (`recorder-session.ts`, `sink-link.ts`, `rtc.ts`) | link per sink, offers awaited, retry timers | roster, offer, adopt, down, outage, halt | signaling, encoder worker |
| Phone page (`routes/join`, `use-capture.ts`) | audio context, microphone track, pipeline epoch | enable, take over, switch, teardown | capture controller, recorder session |
| Player (`routes/desk/player.ts`, `take-load.ts`, `load-queue.ts`) | mounted tracks, sources, transport, plan, verdicts | load, look ahead, play, seek, align, remove | desk sink, shared document |
| Alignment (`player-align.ts`, `align-flow.ts`, `alignment-persist.ts`) | lag, method and drift of each stream; verdict in document and localStorage | passes, scoped runs, flow over takes, restore, reconcile | player, shared document |
| Arrangement (`regions.ts`, `use-timeline-editing.ts`, `timeline-math.ts`) | region list per stream, gesture, undo step | split, trim, drag, delete, undo | shared document, player |
| Lists, mix, lanes (`collab-doc*.ts`, `use-collab.ts`, `track-model.ts`) | markers and comments, strips, lane order and frozen ranks | write, heal, seed; strip setters; move, attribute | shared document, localStorage |
| MIDI (`use-desk-midi.ts`, `midi-store.ts`, `midi-take-library.ts`) | events of a take, queued writes, two stores | capture, debounce, write, hydrate, migrate, delete | desk session, OPFS |
| Desk input (`use-desk-input.ts`) | phase of the card, controller, devices | pick, resume, enable, disable, watch | capture controller, recorder session |
| Archive status (`archive/read.ts`, `use-server-status.ts`) | statuses shown, latched takes, orphan verdict | summarise, poll, latch | archive |
| Capture ring (`sab-ring.ts`, `capture.worklet.ts`) | shared-memory ring with 32-bit counters | write, read, snap | audio thread, encoder worker |
| Codec, DSP, rendering, export, HTTP | - | signal processing, drawing, file formats, request handling | - |

What is hard in it: the engine claims a chunk before the database has it;
acknowledgements are snapshots of the past; channels die with frames in them;
sinks restart with less than they acknowledged in flight; the ring overflows
while nobody is connected; two sinks acknowledge at different paces; control
messages are sent once and may be lost.  Around it, nearly everything is
asynchronous: a hello, an offer, a decode, a save or a click spans several
awaits, and what it read before an await is used after it; shared state lives in
a document that merges concurrent edits, with copies in localStorage that may be
older or newer; deletion crosses writes that are under way.  `PROJECT.json` lists the hazards that matter most at
the lines where they bite, with the properties that watch them.

## Modules

| Module | Models |
|---|---|
| `AckSnapshot` | both ends of ACK_STATUS: from what a sink holds to high-water mark and holes, and back to what the recorder may conclude |
| `StreamSender` | the recorder's engine, one action per method, ring eviction included |
| `OpenSender` | the engine against sinks that say anything (arbitrary snapshots, backfill requests, attach and detach) |
| `ChunkProtocol` | recorder, one data channel per sink, sinks with engine and durable store; the composition of the parts above |
| `TakeArchive` | what the protocol promises, without protocol |
| `RangeSet` | the sorted vector of ranges behind every set of sequence numbers, against the set it stands for |
| `RecorderPage` | a performer's page: session, capture controller and encoder worker with the two message queues between the threads |
| `TakeControl` | desk, room and one recorder page over sockets that are cut and reopened; composes `RecorderPage` with the control plane |
| `SignalingRoom` | rooms of a session on the server: hello in its stages, resume of a device's identity, supersession, close, rename, sweep, deletion, restart |
| `DeskAccess`, `RateLimit` | statements of concurrent requests on one session's owner and shares; token buckets and their pruning |
| `StreamDeletion` | chunks, rows and blobs under deletion of streams and of the session, with the ingest chain, a desk that keeps a copy and failures at every write |
| `CollabRoom` | the shared document: desks with buffers and sockets, the room with its timers and chain of saves, the row, eviction, deletion, shutdown |
| `SinkLinks`, `JoinPage` | the recorder's links, offer by offer; the phone page's microphone, await by await |
| `SessionPlayer` | the desk's player with its load queue, look-ahead, scheduling and alignment runs |
| `AlignDomain`, `AlignFlow`, `AlignStore` | how lags become one time base; the flow over several takes; the verdict in its two stores |
| `Arrangement` | region edits of one stream, against the samples they play |
| `DeskMidi` | MIDI capture and its store |
| `TakeLists`, `MixSync`, `DeskLanes` | markers and comments, mixer strips, and lanes, on several desks and in the document |
| `DeskInput` | the desk's own microphone card |
| `SinkStatus` | what the desk says of a take in the archive |
| `ChunkProtocol_proofs`, `TakeControl_proofs` | theorems and proofs about the chunk protocol and the control plane of a take |
| `Server_proofs`, `Signaling_proofs`, `Collab_proofs` | the same for the parts of the server: access, rates, deletion and range sets; signaling rooms; the shared document |
| `Hub_proofs`, `Desk_proofs`, `Timeline_proofs` | the same for the recorder's page (microphone, links) and the desk (mix, input card, alignment flow, verdicts; the arrangement, the time base of a take, MIDI, lanes) |
| `MCChunkProtocol`, `MCSinks`, `MCTakes`, `MCTakeControl`, `MCServer`, `MCDesk`, `MCHub`, `MCPlayback` | instances for TLC |

Parts that share no state are checked side by side: `MCServer`, `MCDesk`, `MCHub`
and `MCPlayback` extend several modules, and a variable `part`, chosen in the
initial state, says which one of them moves; `MCTakes` does the same with the
scenes in which takes are recorded.  The states of such a run are the sum of the
parts' states, and a property speaks of the variables of its own part.

### How the state corresponds to the code

A chunk is its sequence number, since a number has one immutable payload; a
`RangeSet` is the set of numbers it covers.  `StreamSender` has one variable
per field of `StreamSender`, `ChunkRing` and `SinkTx`; a sink that is not
registered has the empty transmit record.  `TakeState::Armed` lasts only inside
`arm()` and is not a state of the model.  `proven` is the latest snapshot, not a
union.  Eviction is the two passes of `evict_to_budget`, as sets: a candidate
goes exactly when evicting all older candidates is not enough.

In `ChunkProtocol` a sink is its engine (`held`, `declaredGaps`, `recvFinal`)
in front of its store (`stored`, `gapRows`).  `busy` is the frame whose task is
awaiting the store: both sinks run every task - frames, ACKs, stream-final - on
one promise chain, so while `busy` is set no other action of that sink is
enabled.  A chunk's row implies its blob (`persistChunk` puts the blob first),
so one step makes a chunk durable; a crash before it leaves nothing that the
rebuild would see.  Channels are ordered and reliable while open
(`rtc.ts` asks for the defaults); a cut drops ACKs in flight and a suffix of the
frames in flight, since the frames already handed to the sink's chain are still
processed - also after the server has poisoned its chain and rebuilt.

The two kinds of sink differ by constants: `FailStop` sinks (the server) drop
their channels and rebuild when a write fails, the others (the desk) only report
the error; `KeyedByStart` sinks (the server) store gap ranges under their start.

In `RecorderPage` a stream is the number of the arm that created it, and the
engine is its stream and its take state; `SinksSettle` stands for what
`StreamSender` decides in detail.  The controller compares two counters
(`stopForGeneration`, `armGeneration`); only their equality is ever used, so it
is one Boolean, `stopIsCurrent`.  A worker's stats are the stream they are
about.  Publishing a snapshot calls the page's listener, which decides whether
the final sequence number is new and sends stream-final: this is `Publish`, part
of every action that publishes.  `pipeline = "closing"` is the await in
`teardown()`.

In `TakeControl` the server's handlers change the room at once and fan out after
the database has answered: `RoomHandles`, then `FanOut` in the same order; a
hello registers the peer at once and welcomes it later (`Hello`, `Welcome`), so a
take-start may come before the welcome.  The operator goes by the screen:
`OperatorReady` excludes a second click before the echo of the first.  `Hurried`
names the commands given before the recorder's worker has answered the last one.
The desk disarms only recorders that it sees as peers.

`RangeSet` keeps the sequence numbers' width: arithmetic that the code does in
`u32` wraps at `MaxValue`, what it does in `u64` does not.

**One step between two awaits.**  All of this program but the audio thread is
JavaScript: a handler runs undisturbed from one `await` to the next.  So a step is
such a stretch, and an operation that awaits is a value that says where it is:
`hello[c]` (`SignalingRoom`), `at[q]` (`DeskAccess`), `task.pc` (`StreamDeletion`),
`conts` and `queued` (`CollabRoom`), `offer[a]` (`SinkLinks`), `starting`, `ending`
and `switching` (`JoinPage`), `inOps` (`DeskInput`), `load`, `run` and the
look-ahead (`SessionPlayer`).  Whatever else may happen, happens in between.

**The shared document** is Yjs, external, and modelled by what the code relies on:
in `CollabRoom` a document is a set of edits and merging is union; in `TakeLists`,
`MixSync`, `AlignStore` and `DeskLanes` a key holds a register and of two concurrent
writes one wins, the same on every replica (a rank chosen freely); an array's
elements have a free but common order, and a deleted element stays deleted.

**Stores.**  In `StreamDeletion` a row or a blob changes at the one statement that
changes it, each of which may fail or be the last before a crash; `fate` records
what happened (erased, orphaned, dropped by the desk) and is read only by
properties.  A recorder's ring and a desk's copy are sets of chunks that either may
push again.  In `DeskMidi` the n-th event of a take is n and a file is the set of
its events; `store.kind` is the choice between OPFS and localStorage made at boot.

**Time.**  The player counts ticks of the session timeline; a clip is its start, a
verdict a number, and a source remembers with which of them it was planned.
`Arrangement` counts in units of the shortest region.  `AlignDomain` leaves the
correlators out: a sweep is found or not, content matches or not, and what is
checked is the arithmetic on the lags.  `RateLimit` counts tokens in fractions so
that a refill is exact.

**History variables.**  `crossed`, `early`, `overtaken`, `mishap`, `hurt`,
`stepFailed` and the like record that something happened which a property excepts;
no action's guard reads them.  In `SessionPlayer` every event may land inside a decode
or a run, and where the code then leaves what is heard and what is drawn apart, the step
marks just the streams concerned: `twice` (a look-ahead decode mounted it over a track
that rolls), `adrift` (scheduled within a run, or rolling when a run that changed it
threw), `missed` (its clip moved while a decode held its track), `revived` (deleted while
a decode held its track) and `owed` (its stored verdict was refused or skipped, or a run
that threw left another).  A new schedule, a later edit, a restore or a run takes the marks
of what it mends away again; `revived` stays.  `AlignStore` has `slipped`, the
desks whose player is owed a verdict in the same way, and `unread`, the desks that have not
read their two stores since they started.

### Properties

The runs check forty properties.  Most are conjunctions whose parts are named and
commented in their modules; the right column names the parts.  A part that holds only
under a condition says so, and the table under *Where the properties stop* has what
happens without it.

| Property | Says | Parts |
|---|---|---|
| `ProvenIsDurable` | what the recorder takes for delivered is in that sink's durable store | |
| `EvictedIsDurable` | what it drops as acknowledged is durable somewhere | |
| `Accounted`, `GapReportsTrue` | every chunk is resident, acknowledged or a gap; a sink gives up only on gaps | |
| `CloseIsSafe`, `CloseIsTold` | a take closes when every sink has all of it but the gaps, and knows the gaps | |
| `GapsRemembered` | gaps survive restarts: whole where a row's key is both ends of the range, from the start of every lost run where it is the start | |
| `ImplementsArchive`, `DrainsToClosed` | the protocol refines `TakeArchive`; a finished take is closed in the end | |
| `SenderSound` | the engine against a sink that may answer anything | `RingBounded`, `QueueGuardExact`, `NothingForgotten`, `ReportsAreFinal`, `FreshAudioFirst` |
| `RangesExact` | the vector of ranges is canonical and stands for its set | `Represents`, `Coalesced`, `QueriesAgree` |
| `TakeTruth` | the recorder captures and reports the takes it shall, and no other | `CalmSitsOut`, `LivingFinalIsTruth`, `TakesQueueInOrder` |
| `SwapBetweenTakes` | the controller's latch covers the whole way of an arm into the worker | |
| `NothingDiscarded` | an engine that owes chunks goes only with the pipeline | |
| `RollingTakeKept` | who is right about the take after a reconnect or a restart | `DeskKeepsTake`, `RoomRelearns` |
| `CalmTakeServed` | takes are captured and their ends reported | `CalmTakeCaptured`, `CalmFinalReported` |
| `ShownAsArchived` | complete means whole; an orphan verdict heals | `CompleteIsWhole`, `OrphanHeals` |
| `RosterSound`, `SameDeviceSamePeer` | a device is one lane, keeps its id and name, and everybody is told the same | `OwnPeerOnly`, `OneLanePerDevice`, `ViewsCurrent`, `LabelsAgree` |
| `OwnerIsTrue` | one claimer of a session wins, and who was told to own it does | |
| `RateHeld` | pruning buckets never grants more | |
| `ArchiveInStep` | engine, rows and blobs under writes, deletions and crashes | `RowHasBlob`, `BlobsAccounted`, `HeldIsArchived`, `NoMissingParent` |
| `DeletionHolds` | a deletion is all or nothing across sinks | `DropsOnlyErased`, `CleanDeleteStays` |
| `RoomsSafe`, `EditsLast` | one room, no edit evicted unsaved or lost; connected desks converge | `EvictedIsSaved`, `OneRoom`, `DeletedStaysDeleted`; `RowOnlyGrows`, `Converge` |
| `SinkIsServed` | a reachable sink has one link, and the worker knows | `NeverStranded`, `ToldIsTrue`, `OneOfferAtATime` |
| `MicIsAccounted` | microphone, pipeline and screen of the phone agree | `NoStrayMic`, `ShownIsTrue`, `HaltReleases`, `JoinedRecords` |
| `OneTimeBase` | applied streams share one time base | `ResidualZero`, `DriftInForce` |
| `MidiIsKept` | what was played is kept and shown until deleted | `HeardIsStored`, `OldIsKept`, `DeletedIsErased`, `FinishedIsShown`, `StoredOnlyGrows` |
| `ListsConverge` | markers and comments merge without loss or return | `DuplicatesHeal`, `ShadowsAgree`, `OnlyRemovalsRemove`, `ExtinctStaysSo` |
| `MixAgrees` | document, player and nodes agree, without echoes | `PlayerFollowsDoc`, `NodesFollowStrips`, `NoMixEcho` |
| `LanesKeepPlace` | only a move moves a lane | `RanksDistinct`, `PinnedInOrder`, `FinalsLearned`, `LanesHold` |
| `PlaysAsShown` | every mounted clip sounds, and but for the streams marked in a history variable once and as it is drawn | `SoundsOnce`, `HeardIsDrawn`, `NothingSilent`, `MountedAtPlan`, `DeletedIsGone`, `VerdictInForce` |
| `PickIsServed` | the newest pick wins over an alignment flow | `PickWins` |
| `VerdictsAgree` | the two stores of a verdict agree on the newest, and the players, but for those that slipped, apply it | `NewestSurvives`, `SameVerdict`, `NoEcho` |
| `ArrangementPlays`, `EditsHoldPlace` | region lists are legal and play as planned; cuts and trims move nothing | `ListsValid`, `PlanIsPlayed`; `CutIsInaudible`, `TrimHoldsPlace` |
| `CardIsTrue` | the desk's input card and the microphone behind it | `OneMic`, `OffIsOff`, `DeadIsShown` |
| `NothingHangs` | every load request is answered, every flow and every start ends | `EveryRequestSettles`, `FlowEnds`, `StartingEnds` |

The fortieth is the type invariant `TypeOK` of `ChunkProtocol`; the type invariants of
the other modules are parts of the conjunctions above.  Names that begin with Calm or
Living restrict a property of `TakeControl` to the scenes in which it holds.
`StopReachesRecorder`, `OpenIsFed`, `NeverZero` and two of the properties above are what
the violation runs refute.  A few more definitions state what a comment of the code
promises and the code does not quite keep; they are in the table below.

## Runs

| Run | Shows |
|---|---|
| `server_sink` | 1 server sink, 4 chunks in a ring of 2, one fault (cut, failed write or restart): honest acknowledgements, the account of the ring, the refinement, and that a finished take closes |
| `sinks` | three scenes: server and desk from a state in the middle of a take, with eviction for one sink while the other lags; the server alone and the desk alone, each from the beginning with two frames in flight and two faults, the second in a take of three chunks: closing means safe and told, gaps survive |
| `takes` | three scenes: *calm*, 3 takes with an operator who leaves the recorder time to answer, disarmed lanes and a change of input; *hurried*, the next take starts while the last stop is on its way through the worker; *faults*, a cut socket, a server crash or a superseded page, with disarmed lanes; and *archive*, what the desk shows of a stored take |
| `server` | six parts: 3 sockets of 2 devices in a room that is swept, deleted or lost; 6 requests of 2 users; 2 addresses and a map of one bucket; a deleted stream with 2 failures; ranges over 6 values; the sender engine against arbitrary sinks |
| `desk` | four parts: 2 MIDI takes and an old one; 2 desks with one list; 2 pages with the mixes of 2 sessions; lanes of a late attributed stream |
| `hub` | five parts: 2 desks, 2 rooms and one trouble of any kind; 3 streams placed in every way; verdicts on 2 desks with skewed clocks, failing loads and runs; 3 links, 5 offers and 3 faults; a page halted twice with 2 failing microphones |
| `playback` | four parts: a player with 2 takes, 2 requests and an edit, deletion, seek or verdict at any moment; flows over 2 of 3 takes; 3 edits of a clip; 4 clicks on the input card |
| `missed_stop` | violation: a recorder that missed take-stop captures on |
| `desk_write_fails` | violation: a desk acknowledges a chunk it failed to write |
| `unfed_link` | violation: the late end of an abandoned offer cuts the worker off an open link |
| `join_without_pipeline` | violation: a start that fails late leaves a phone in the session with nothing to record |
| `lost_marker` | violation: three desks rename one marker, once each, and it is gone from all of them |

### Where the properties stop

The passing runs state the conditions under which the code keeps its properties.
Relaxing one of them gives a short counterexample in the model, and each follows the
code step by step; five are kept as runs, the others are reached by checking the
property named here, or changing the constants as said.  For `TakeControl` the
constants are those of `MCTakeControl_missedstop.cfg` with `MaxTake = 3`,
`MaxStream = 3`, `MaxSwitch = 1`, `FinalSeqs = {1, 2}` and `Disarms = TRUE`, and no fault
unless one is named.

| Property | Fails when | Because |
|---|---|---|
| `FinalIsTruth` | `Hurried = {"start", "stop"}` | `stopTake` overwrites `stoppedForFinal`: with two stops in flight the first answer is reported for the second stream (`recorder-session.ts:256`) |
| `FinalIsTruth` | `Faults = {"fatal"}` | a page is superseded after a take and taken over while teardown is still closing; a take that starts and stops before the new worker has booted is reported with the old final |
| `SwapBetweenTakes` | `Hurried = {"start", "stop"}` | with two stops in flight the first answer opens the latch (`capture-controller.ts:395`) |
| `FinalReported` | `Hurried = {"start"}` | stats still name the previous stream, and both takes end at the same number (`use-capture.ts:36`) |
| `QueueBehindOlder` | `Hurried = {"start", "stop"}`, one cut; or two faults that lose a stop | an arm that finds the engine closed does not look at the take already queued (`encoder.worker.ts:158`); the next stop drops that one and the newer take captures on |
| `SitsOut` | one cut | a peer is registered before its welcome, and a client without a peer id is never disarmed (`recorder-session.ts:235`) |
| `StaysStopped` | one cut | a desk that missed the echo of its stop asserts the take again (`desk-session.ts:305`) |
| `DeskKeepsTake` | `Hurried = {"start", "stop"}`, two cuts | the desk clears its take on any take-stop, whichever take it names (`desk-session.ts:238`) |
| `TakeCaptured` | `LoneSpec` | an arm is queued until every sink of the last take has settled (`encoder.worker.ts:150`) |
| `DrainsToClosed` | `LossyFinalSpec` in `MCChunkProtocol_server.cfg` | a sink that has received nothing of a stream sends no ACK, and stream-final is sent once (`sender.rs:312`) |
| `declaredGaps[k] \subseteq Covered(gapRows[k])` | for a `KeyedByStart` sink too, as `GapsRemembered` says of the others: `MCChunkProtocol_server.cfg` | gap rows are keyed by their start and inserted `onConflictDoNothing` (`archive/index.ts:187`): after [1,1] the report [1,2] is dropped, and a rebuilt server asks for 2 again |
| `ClosedPeersLeave` | `MCServer.cfg` | a socket that closes during the awaits of its hello is made a peer afterwards (`hello.ts:133`): a ghost until its device returns |
| `SameDeviceSamePeer` | `SweepWaits = FALSE` | a sweep between a hello's `getRoom` and its `peers.set` leaves the session in two rooms (`signaling/index.ts:187`) |
| `DeletedStaysGone` | `MCServer.cfg` | a recorder that still drains sends the chunks of a deleted stream again ("so no peer can re-push them", `ingest/index.ts:170`) |
| `NothingLeaked` | `MCServer.cfg` | a blob whose delete failed after its rows were gone, or that was put by a task that died, is found by no later deletion ("must never leak recordings", `retention.ts:78`) |
| `UntouchedStaysOut` | `MCDesk.cfg` | the player keeps the strips of the session before and writes them into the next document ("untouched lanes never pollute the doc", `collab-doc.ts:60`) |
| `NeverCleared` | `MCDesk.cfg` | a desk that edits before its first sync sets a second array ("never a wholesale clear", `collab-doc-lists.ts:75`) |
| `OnlyRemovalsRemove` | without its premise on "crossed": `NeverZero` of the run `lost_marker` | an edit goes in behind its left neighbour on screen, before what is deleted there, and so may land on the other side of a concurrent edit than the element it replaced: desk C heals its e away for A's f, B has replaced f by g before it sees e and heals g away for e ("never zero", `collab-doc.test.ts:458`) |
| `NothingMovesALane` | `MCDesk.cfg` | a returning lane goes back to the rank of its old key (`track-model.ts:133`) |
| `CapturedIsStored` | `MCDesk.cfg` | a desk that missed a take's end replaces its capture (`use-desk-midi.ts:272`) |
| `StatusLatches`, `OrphanHeals` | `MaxTicks = 2` | an answer that is late takes a take out of the poll with the statuses of an older one (`use-server-status.ts:68`) |
| `SitsOutTakes` | `MCPlayback.cfg` | only the buttons look at the rolling take, and a lane joins seconds after the click (`desk-input-block.tsx:31`) |
| `NewestPickLoads` | `MCPlayback.cfg` | a step that fails reports "failed" although a pick superseded it; the flow goes on and replaces the pick (`take-load.ts:100`) |
| `SameVerdict` | for all desks, without `slipped`: `MCHub.cfg` | a player that decodes or measures refuses another desk's verdict (`player.ts:711`); the run then throws, and nobody restores (`player.ts:679`), or the load fails or is superseded (`take-load.ts:99`): the replicas agree and the player has the old verdict, or what the passes wrote before the throw |
| `VerdictInForce` | for all streams, without `owed`: `MCPlayback.cfg` | the same in the player: a verdict refused during a decode or a run that fails, or not restored by a load that a newer request superseded |
| `HeardIsDrawn` | for all streams, without `adrift`: `MCPlayback.cfg` | a run that throws after its chirp pass changed a track does not schedule it anew (`player.ts:679`); a play, seek or edit during a run plans from what it has measured by then, and if the end is as the beginning was nothing is scheduled again (`player.ts:674`) |
| `MountedAtPlan` | for all streams, without `missed`: `MCPlayback.cfg` | `setSessionPlan` points the mounted tracks at their new places, not those a decode has made and not yet registered (`player.ts:505`, `1109`); the next edit of any clip mends it |
| `DeletedIsGone` | for all streams, without `revived`: `MCPlayback.cfg` | a stream deleted while a decode holds its track is mounted when the decode ends (`player.ts:517`, `1124`) |
| `Cardinality(ranks) <= Cardinality(StoreDesk) * settles + reloads` | `MCHub.cfg` with `MaxReloads = 2`, `MaxRank = 9` | equal records are not written (`alignment-persist.ts:242`), but a desk answers every older entry that comes with a higher rank, and each reload writes one: the writes are finite, not one per verdict, desk and reload |
| `NeverDoubled` | `MCPlayback.cfg` | a take is requested, mounted and played while its look-ahead decodes: both mount and schedule it (`player.ts:1108`); `SoundsOnce` excepts these streams (`twice`) |
| `OneLagDomain` | `MCHub.cfg` | streams that locked on different sweeps are one domain after a whole run, and a scoped run measures against another base (`player-align.ts:212`) |
| the four of `JoinPage` | `HurriedTap = TRUE` | Take over is tapped while teardown awaits the context: `start()` returns at once, and teardown then releases what is left (`capture-controller.ts:132`, `328`) |
| `HaltReleases` | `LateFailure = TRUE` | a take-over whose start fails after it acquired the microphone stays on the fatal screen with that track hot (`capture-controller.ts:136`) |

**Bounds.** Four chunks (0 to 3) are the least with a header, a gap, a chunk
evicted after its ACK and the pinned newest; a ring of two forces eviction.
`WireCap`, `AckCap`, `ControlCap` and `ReportCap` bound queues (a guard of the sending step
stands for backpressure); `MaxFaults` bounds cuts, failed writes and restarts
together.  With two sinks three chunks, one frame on each link and one ACK in flight keep the state space
small; the sender that meets arbitrary sinks has three chunks as well; `MidTake` is a reachable state from which such a take goes on.  CHECK_DEADLOCK is off: a take
that is closed and acknowledged, with its bounds used up, may stop.
Three takes are the least with an engine that drains, a take queued behind it and
one that comes later; two final numbers tell a swapped report from a right one;
one change of input suffices to violate the latch.  In the scene *faults* there are
two takes and one fault.  Six values of a range leave room for three ranges with
gaps between them and for both ends of the type.

The other bounds count what the environment may do (`MaxEvents`, `MaxTrouble`,
`MaxIncidents`, `MaxLinkFaults`, `MaxDelFaults`, `MaxClicks`, ...) and what it may use
up (`MaxRooms`, `MaxTracks`, `MaxOffers`, `MaxRank`).  They are chosen so that every
history variable above becomes true in some behaviour, that is, the exceptions
really occur: two sockets of one device and a desk for supersession; two rooms for
an attach during an eviction; three links and five offers for an offer that ends two
links later; two failures for a deletion that fails and then meets a crash; two
replicas and the server for concurrent writes; three edits of a list, the third only of
a single item with nothing else amiss, for an edit that meets two others; a second incident of the MIDI takes
only where none has a second event; three streams for a placed, a chained
and a declined one; three edits for a gesture that meets another desk's.  The
passing runs fire every disjunct of every next-state relation.
In the player one edit, deletion, seek or verdict of another desk (`MaxEdits`) is free to
fall into a load, a look-ahead decode or a run of two requests; each of the five marks
needs no more, and without it the property fails, as the table says.  Two takes that follow
each other within the look-ahead make one decode meet the other's load, and two streams of
one take a track that is decoded while its sibling is still to come.

**Fairness.** The pump runs every 100 ms, ACKs every 2 s, links are retried for
as long as a sink is configured, ordered reliable channels deliver, stores
answer: weak fairness of those steps.  Faults have none, and are finite.
Nothing obliges the user to stop a take.  `FairSpec` also assumes that
stream-final arrives; `LossyFinalSpec` does not, because the code sends it once.
In `TakeControl`, `PlaneFairness` is weak fairness of reconnecting (a timer), of
handlers and queues, and of the worker's timers; operator, faults and changes of
input have none.  `FairSpec` adds sinks that settle, which `LoneSpec` leaves out.
In `CollabRoom` the flush timer of a desk, the handling of frames and the room's
saves are fair, edits, drops and reconnects are not; in `SinkStatus` the poll, its
answers and the render of the verdict are; in `SessionPlayer`, `AlignFlow` and
`DeskInput` that what is awaited ends, one way or the other: a decode, a measurement
and a permission prompt resolve or reject.

## Proofs

A theorem holds for every value of the constants that its module's ASSUMEs admit:
every number of sinks, chunks, desks, sockets, devices, pages, requests, edits and
faults; the bounds of the runs are bounds of TLC alone.  Where a theorem has a further
hypothesis, the table "Where the properties stop" says what the code does without it.
Each rests on an inductive invariant of its own, described below.

| Theorem | Property | Hypothesis |
|---|---|---|
| `SnapshotIsHonest` | what an ACK proves is held or a known gap | |
| `TypeCorrect`, `RingAccountsForAll`, `AcksAreHonest`, `NoSilentLoss`, `GapReportsAreTrue`, `ClosingIsSafe`, `ImplementsTakeArchive` | `TypeOK`, `Accounted`, `ProvenIsDurable`, `EvictedIsDurable`, `GapReportsTrue`, `CloseIsSafe`, `ImplementsArchive` | `Failing \subseteq FailStop` |
| `GapsStayRemembered` | `GapsRemembered` | the same |
| `ClosingIsTold` | `CloseIsTold` | the same, and `KeyedByStart = {} \/ MaxFaults = 0` |
| `SenderIsSound` | `SenderSound` | |
| `RangesAreExact` | `RangesExact` | |
| `NeverDiscarded` | `NothingDiscarded` | |
| `ControlTyped` | `ControlTypeOK` | |
| `TakesAreTrue` | `TakeTruth` in the scenes without faults, its types in every scene | `"stop" \notin Hurried` |
| `InputStaysInTake` | `SwapBetweenTakes` | the same |
| `DeskKeeps` | `DeskKeepsTake`, the safety part of `RollingTakeKept` | the same |
| `ShownIsWhole` | `CompleteIsWhole`, the safety part of `ShownAsArchived` | |
| `OwnersAreTrue`, `RateIsHeld` | `OwnerIsTrue`, `RateHeld` | |
| `ArchiveStaysInStep`, `DeletionIsWhole` | `ArchiveInStep`, `DeletionHolds` | |
| `RosterIsSound` | `RosterSound` | |
| `DevicesComeBack` | `SameDeviceSamePeer` | `SweepWaits` |
| `RoomsAreSafe`, `RowKeepsEdits` | `RoomsSafe`, `RowOnlyGrows` | |
| `ListsStayTogether` | `ListsConverge` | |
| `SinkServed` | `SinkIsServed` | |
| `NoMicStrays` | `NoStrayMic`, `ShownIsTrue` | `~HurriedTap` |
| `MicAccounted` | `MicIsAccounted` | `~HurriedTap`, `~LateFailure` |
| `MixIsOne`, `CardNeverLies`, `PickAlwaysServed` | `MixAgrees`, `CardIsTrue`, `PickIsServed` | |
| `VerdictIsShared`, `DeskPlaysAsShown` | `VerdictsAgree`, `PlaysAsShown` | |
| `ScheduleIsTrue`, `EditsAreSilent` | `ArrangementPlays`, `EditsHoldPlace` | |
| `TimeBaseIsOne` | `OneTimeBase` | |
| `MidiStaysKept` | `MidiIsKept` | |
| `LanesStay` | `LanesKeepPlace` | |

**Chunks.**  The hypothesis `Failing \subseteq FailStop` says that a sink whose writes
can fail is fail-stop: true of the server, false of the desk (`desk_write_fails`).
The inductive invariant `Inv` of `ChunkProtocol_proofs` strengthens the
properties by what is in flight: every frame on a channel carries a chunk that
was produced or gaps that are gaps; every ACK in flight proves only what is
durable at its sink (`GoodAcks`), because it was made when no frame was being
persisted and stores only grow; the engine holds what is stored plus the one
chunk in `busy`; gap rows cover gaps; a chunk marked acknowledged is stored
somewhere or is a gap.  The step that needs thought is eviction: a resident
chunk is no gap (`Accounted`), so an acknowledged resident chunk is stored.
`SnapshotIsHonest` is the lemma about the ACK arithmetic: the existence of the
high-water mark comes from the well-foundedness of the naturals.
`ToldInv` adds what a sink keeps of the gaps (`Kept`): those in its rows, or all it was
told of where nothing fails.  A store keyed by both ends of a range takes in every
report whole, because the maximal ranges of a set cover it (`RangesCover`); so what an
ACK proves, the sink has stored or keeps.  That a closing take was told follows from
the newest chunk, which is never a gap: nothing is proven above a hole, so a snapshot
that proves the newest chunk proves all (`SnapshotsSure`).
`Remembered` is what every store keeps, whatever its key: of each chunk the sink was told
of, whose report is not still being persisted, a row begins at or before it with nothing
but told chunks in between.  A report leaves such a row at the start of each of its ranges,
its own or the one that keeps it out (`InsertedStarts`), and rows are never removed.
The refinement maps capturing to `Make`, persisting to `Store`, the last ACK or
the stop to `Close`, and everything else to stuttering.

**Stream engine.**  `SenderIsSound` asks nothing of the sinks.  `SndInv` says of each
sink (`SinkGood`) that the guard is what its two lists hold, each chunk once, and that
its live list is the newest chunks of the take, in order (`QueueGood`): a chunk enters
at the end, leaves from the front and is demoted with all the others, so nothing in a
backlog is newer.  A resident chunk that is not proven is owed: it leaves the queues
only to be sent, or because it is proven or evicted (`SndDrops`), and a snapshot queues
what it does not prove.  The budget is a sum, and a sum is a count: a chunk stands for
as many units as it has bytes (`BytesAre`), so that an eviction pass which spares a
candidate has met the budget (`VictimsSuffice`).  What would be an induction over a set,
a list or a queue is the choice of a least counterexample (`LeastOf`).

**Range sets.**  `RangeInv` says that every range of the vector has room to all later ones
(`InOrder`) and that together they are the reference set (`Covers`).  The ranges before
`Lo` end before the new one and those after `Hi` start behind it, because the vector
is sorted (`PartitionPoints`); so what `insert_range` splices in is one range between two
vectors that have room to it (`JoinVectors`).  `remove_range` leaves the part of every
range that is not removed, and the two ends of a range that is cut do not wrap
(`PiecesAre`).  The loops over a list are folds of the community modules.  That the
function such a fold chooses exists is an induction over the length of the list, which is
made by least counterexample (`FoldSolves`, `FlattenSolves`), as is what the fold
computes (`UpTo`).  The width of the type and the length of a list are any numbers.

**Take control.**  An engine which owes chunks is given up only with
the pipeline (`NeverDiscarded`).  Its invariant is only that the engine is a
record; the argument is that of all steps of desk, room, sockets and threads five
touch the engine, and that each of them arms an engine that owes nothing, moves
within its take, or tears the pipeline down.
`PlaneInv` is the types of state and messages, with faults of any number, and that
what was published was reported (`PublishedIsReported`), so that publishing the same
snapshot again sends nothing.  `FaultFreeInv` holds as long as no socket is cut, no server crashes
and no page is superseded; it follows one command around the system.  On the plane
(`PlaneSide`) a command is in one place - on the desk's socket, in its fan-out or on the
way to a client - and at each the desk's, the room's and the recorder's take are known
(`DeskFollows`, `RecorderFollows`); hence a recorder hears of one take, its end and at
most one more.  On the page (`PageSide`) arms are in the order of their streams through
controller, queue and engine (`ArmsInOrder`), the newest stream is the one no stop
follows (`NewestIsLive`), and whatever is armed, being armed or waiting is under the
latch (`LatchCovers`).  What needs an operator who gives a stop only when the recorder
has answered is `StopAlone`, a stop is under way to the worker once; and
`AwaitedIsRight`: by the time it is sent the snapshot is the engine's and a final in it
was reported (`ReportIsOver`), so the next final belongs to the stream that awaits one.
In the calm scene a take is started when the recorder's socket and welcome are
empty; a recorder of the room then knows its peer id (`RecorderIsTold`), so it is never
armed for the take it is disarmed for (`NeverArmedFor`).  In the scene with faults these
fail, as "Where the properties stop" says; there TLC checks `TakeTruth` after one fault.
`KeepInv` holds through faults of any number.  As long as a stop is on its way, the desk, the
room and all that is between them are about one take (`Agreed`).  It is so when the stop is
given, because nothing else is on its way then, and the room has the desk's take or
none: the last word the desk will hear is the room's (`DeskWillHear`).  No fault undoes it; a
fault only takes away.  The desk answers an empty welcome by a start of the take it has rolling,
so it drops a take on a stop only, and that stop is about it.

**Archive status.**  `StatusInv` says that no answer, under way or shown, claims more of
a stream than the archive has now.  The archive only grows, so a late answer stays true; an
answer is complete when the chunks are as many as their numbers, which are then all there
(`AllCounted`).

**Server.**  `AccessInv` ties every verdict to the life of the session row it was read
in: a verdict of an earlier life says nothing of the present owner.  `RateInv` weighs
what a bucket still allows against what its address was granted: every stretch of
grants, with the tokens left, is within a full bucket and the refill since (`Backed`),
where an address without a bucket counts as one whose bucket is full - which is what
pruning relies on.  `DelInv` follows the one chain of tasks of the ingest engine
(`TaskInOrder`): a blob is there before its row, the engine forgets before the rows go,
the rows are gone before their blobs; so the engine has nothing without a row but the
chunk being written (`EngineInStep`).  For a stream that was deleted when nobody had
anything of it left to send, `CleanForgotten` says of every queue, store and task that
it still has nothing.

**Signaling.**  `SigInv` follows the stages of a hello: from the room it was given, which
is the live one once its session is known, to the peer it is about to store.  An entry
is in the room its socket was given, carries the epoch of that socket and no other
(`EpochsApart`), so a close removes the socket's own entry and nobody else's; and
whatever the screens do not show yet, some hello, write or broadcast will tell (`Told`).
`MemoryInv` says that a peer id belongs to one device for good: there is a function from
ids to devices that rows, rooms and hellos under way all respect, and a new id extends
it.  It needs a hello to stay in the room the map names, hence `SweepWaits`.

**Shared document.**  The heart of `CollabInv` is `OneSaves`: as long as no deletion runs,
at most one room is current, saving or dirty; it has every edit of the row, a save
under way writes every edit of the row, and what is neither saved nor being saved marks
the room dirty.  Hence a room that is evicted has its edits in the row, and no write
takes one out.

**Lists.**  `ListInv` holds two things.  Whatever went amiss, every desk's document is
healed and its shadow follows it (`DesksFollow`); that is what is left when everything is
delivered.  Where nothing went amiss (`CalmLists`) there is one array, and the elements of an
item form lines: an edit puts its element before the one it replaces and remembers it, and
nothing stands between two elements of a line but elements of that line
(`LinesTogether`).  Every deletion has an excuse that a merge cannot take away
(`Excused`): a removal, a later element of the same line, or another line that
stands after it.  Take the lines that nothing replaced any more and of their ends the one
that stands last: neither of the last two excuses is left for it, so of an item nobody removed
some element is always there (`SomethingStays`).  The lines are where a third desk comes in: an element
that lands beyond another one splits a line, two heals then excuse each other, and the
item is gone (`lost_marker`).  That is the premise "crossed" of `OnlyRemovalsRemove`.

**Recorder's page.**  `MicInv` follows start and teardown await by await: each stage says
what of the pipeline is built, and `StartsInTime` what besides holds while a start that
has made its context does not fail.  `LinkInv` says that, unless an offer was overtaken
by a teardown, one link object serves the sink and the worker was told of a channel
exactly when there is a usable one (`LinkServed`).

**Desk.**  `MixInv` is the property with its types; the argument is the order of
observers and render.  `InputInv` numbers the operations of the card by their clicks: the
one that starts has the controller, a microphone belongs to the controller there is,
and as long as no click met a pending operation there is at most one (`InTurn`).
`FlowInv` says whose request is last in the load queue: the operator's pick, or a
flow's step whose flow will bring the pick back (`TailIsPick`).  `StoreInv` says that a
desk which has the take and did not slip applies what its replica of the document says, and
that one which has read its stores, or has an entry, remembers nothing newer
(`DeskInStep`): a run that fails persists nothing, so it disturbs only the player.  If two desks
answered each other's entries, each would remember a newer verdict than the other.

**Player.**  `PlayerInv` has five parts.  `PlayerGood`: a transport
at rest has no source, and one that rolls has a source for every track still to be heard
(`Sounds`), whatever was mounted, moved or dropped since.  `PlayerBooks` ties the load
queue to what it drives: a load is under way exactly in the phase "load" and a run
exactly in "align", both for the take of the job, and the transport stands while a load is.
`HeardNow`: a stream that is not doubled has at most one source, and one that is not adrift
the source `schedule` would plan from its track - but while a run measures its take, from
the track the run began with (`PlannedFrom`): that is what lets a run end without a new
schedule when no timing changed, and what a run that throws breaks.  `Mounts`: a
track, mounted or held by a decode, is at the plan and of a stream the sink has, or marked;
an edit finds what a decode holds in `load.got` and `ahead.got`.  `Forced` follows the
verdict: between two runs the loaded take has what is stored, or is owed it, and while
a run is under way a track that shows no verdict has none stored (`Measures`): a run began
after a restore, so what it does not measure anew is what it persists.  A run
writes to the tracks it began with, so one that a late look-ahead decode replaces is lost to
it (`run.lost`).

**Arrangement.**  `ArrangeInv` asks for a legal list not only in the document but also
in the two places from which an older one may be written: under a gesture in progress
and in the undo step.  A cut and a trim are checked before they are written; that a
drag and a reset need no check is `MovedIsGood`: the source side of the list is left as
it was.  A cut needs an id nobody has, and finds one because a list is short
(`FreshIdIsNew`).  Everything that plays is a span of samples (`SoundsAreSpan`); a plan
is the part of that span from a position on, and the spans of the two pieces of a cut
are those of the whole.  The constants are any source length, trim and layout;
`ArrangeAssumption` only says that no take is laid out before the beginning.

**Time base.**  `DomainInv` says what lags have in common however many runs placed them.
A chirp lag names the sweep its correlator finds (`OkAl`).  All lags are offset from
the one the deltas start from, content lags exactly, chirp lags up to whole intervals
(`Aligned`), as long as all sweeps are one, or the last run measured the whole take;
a wrap takes the whole intervals off again (`WrapTakesIntervals`), which needs the
streams to start within half an interval of each other (`LagsWithinHalfInterval`).  The
content pass places a stream against one whose lag agrees already (`PlacedKeepsAligned`),
and a scoped run drops its chirp hits when only content lags are kept, so that it
too leaves them to the content pass (`HitsAreAligned`).  With one sweep, aligned lags are the true
ones moved by one number (`AlignedIsShift`), so a later run adds to an earlier one
without measuring it again.  A cached fit is never that of a reference, and is in force
only with the trims it was made for (`FitsAreInForce`).  The base exists because
streams are finitely many (`LeastBy`).

**MIDI takes.**  `MidiInv` follows a take's events through buffer, debounce, queue, write
and file.  Whatever is captured of a take that is not deleted is in the write under
way, or in the file, or a write is still to begin (`SavedOK`: a write reads the buffer only
when it begins, so a key pressed meanwhile sets the debounce again), or a write failed.  A
rewrite holds what the file held, because the buffer does (`GrowOK`); that fails only
for a page that joins a take in the middle, hence "tail".  The removal of a deleted take
is queued behind every save of it (`Erasing`), and nothing queues one later: the page
captures only the take it knows to roll (`CaptureOK`), which cannot be deleted.  An old
document moves as a whole and is written before it is removed (`MoveOK`).  What the
histories "switched", "raced" and "reloaded" except are the behaviours `DeskMidi` names,
not hypotheses of the theorem.

**Lanes.**  `LaneInv` says of the frozen ranks (`RankedFor`) that two keys share one only if
the archive attributes the one, a stream, to the other, a peer (`Twins`); two twins are never on
screen together, because what is attributed stays so as long as the page lives (`PageGrows`).  A render
gives a new lane a rank above all others, and a re-keyed one the rank of its former key
(`RankShape`).  `PinStands` says that while the operator's last move stands the map is that
move, whether the replica has synced or is to; a lane placed under an older key is found by
the ordinal of its alias (`PlacedOrdinal`).  A lane that continues one lane has its
ordinal and its rank (`RankGoesOn`), and rows are sorted by nothing else (`RowsFollow`): so two
such lanes never change places.

Only model-checked, because of the prover: all liveness (`DrainsToClosed`,
`NothingHangs`, `Converge`, and `RoomRelearns` and `OrphanHeals` of the two properties named
by a part: fairness is out of its reach).  Only model-checked so far: `TakesQueueInOrder`
after a fault.

## Plan

Done: the chunk protocol with its engine, refinement and proofs; the range
algebra; the recorder page and the control plane of a take; the signaling and
collaboration rooms, access and deletion on the server; links and microphone of the
recorder's page; player, alignment, arrangement, MIDI, lists, mix, lanes, input and
status of the desk.  Next, in order:

1. Proofs: `TakesQueueInOrder` after one fault.
2. `StreamReceiver`: CRC conflicts, continuity flags, range-list limits.
3. `SabRing`: the shared-memory ring with wrapping counters.
4. The HAVE exchange and the push queues of sink to sink sync.

## Not modelled

FLAC coding, correlation and drift estimation (floating point over samples); time
sync (regression over ping samples); the byte layout of frames; drawing, pointer
geometry and the writers of export formats in the desk (no state that outlives a
call); HTTP handlers and configuration (stateless: what they decide with is in
`DeskAccess` and `RateLimit`); token verification, the database, the object store,
Yjs and WebRTC are external and present by what the code relies on.  The capture
ring and the flow control of sink to sink sync are left to the plan.
