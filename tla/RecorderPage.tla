---------------------------- MODULE RecorderPage ----------------------------
(***************************************************************************)
(* A performer's page: the recorder session (what the control plane said), *)
(* the capture controller (main thread) and the encoder worker, joined by  *)
(* two message queues.  Every message from the control plane is a          *)
(* parameter here; module TakeControl supplies them.                       *)
(*                                                                         *)
(* A stream is the number of the arm that created it.  The engine is its   *)
(* stream and its take state; what happens inside is module StreamSender.  *)
(***************************************************************************)
EXTENDS Integers, Sequences, SequencesExt

CONSTANTS
  MaxStream,  \* bound: streams a page creates
  MaxSwitch,  \* bound: changes of the input device
  FinalSeqs   \* final sequence numbers a take may have

ASSUME PageConstants == {MaxStream, MaxSwitch} \subseteq Nat /\ FinalSeqs \subseteq Nat

VARIABLES
  activeTake,     \* session: the take being recorded
  sittingOut,     \* session: the take this lane is disarmed for
  stopping,       \* session: stoppedForFinal, the stream whose final is awaited
  takeOf,         \* session: the take of every stream created so far
  pipeline,       \* controller: "off", "on", or "closing" (teardown awaits)
  workerReady,    \* controller
  pendingArm,     \* controller: the stream to arm once the worker is ready
  stopIsCurrent,  \* controller: stopForGeneration = armGeneration
  takeOpen,       \* controller: the latch that refuses a change of device
  switching,      \* controller: "no", "yes", or "stale" (torn down meanwhile)
  device,         \* controller: how often the input was changed
  snapFinal,      \* snapshot: finalSeq
  snapStats,      \* snapshot: the stream of the latest worker stats
  lastReported,   \* page: the last final reported, <<stream of stats, final>>
  booted,         \* worker: configured, its timers run
  engine,         \* worker: [stream, state]
  queued,         \* worker: its own pendingArm
  toWorker,       \* messages to the worker
  toMain,         \* messages from the worker
  finalOf,        \* history: the final sequence number of each finished stream
  sentFinals      \* history: stream-final messages sent, <<stream, final>>

sessionVars == <<activeTake, sittingOut, takeOf>>
latchVars == <<workerReady, pendingArm, stopIsCurrent, takeOpen>>
inputVars == <<switching, device>>
reportVars == <<stopping, snapFinal, snapStats, lastReported, sentFinals>>
workerVars == <<booted, engine, queued, finalOf>>
queueVars == <<toWorker, toMain>>
pageVars == <<sessionVars, pipeline, latchVars, inputVars, reportVars, workerVars, queueVars>>

NoTake == 0
NoStream == 0
NoFinal == -1
NoReport == <<NoStream, NoFinal>>
NoEngine == [stream |-> NoStream, state |-> "none"]

Msg(type, val) == [type |-> type, val |-> val]

Streaming == engine.state = "streaming"
-----------------------------------------------------------------------------
(***************************************************************************)
(* Publishing a snapshot.  The page listens to every one and reports a     *)
(* final sequence number it has not reported under the same stats.         *)
(***************************************************************************)

IsNewFinal(final, stats) ==
  final # NoFinal /\ (stats = NoStream \/ <<stats, final>> # lastReported)

\* The listener, then notifyFinal for the stream that awaits its final; a
\* stream-final sent while the socket is down is dropped.
Publish(final, stats, awaiting, online) ==
  /\ snapFinal' = final
  /\ snapStats' = stats
  /\ IF IsNewFinal(final, stats)
     THEN /\ lastReported' = IF stats = NoStream THEN NoReport ELSE <<stats, final>>
          /\ stopping' = NoStream
          /\ sentFinals' = IF awaiting # NoStream /\ online
                             THEN sentFinals \cup {<<awaiting, final>>} ELSE sentFinals
     ELSE /\ stopping' = awaiting
          /\ UNCHANGED <<lastReported, sentFinals>>

Republish(online) == Publish(snapFinal, snapStats, stopping, online)
-----------------------------------------------------------------------------
(***************************************************************************)
(* CaptureController.arm and stopTake.                                     *)
(***************************************************************************)
\* Broken variant: the generation is not bumped.
ControllerArmKeepsStop(s) ==
  /\ takeOpen' = TRUE /\ UNCHANGED stopIsCurrent
  /\ IF workerReady
     THEN toWorker' = Append(toWorker, Msg("arm", s)) /\ UNCHANGED pendingArm
     ELSE pendingArm' = s /\ UNCHANGED toWorker

ControllerArm(s) ==
  /\ takeOpen' = TRUE
  /\ stopIsCurrent' = FALSE
  /\ IF workerReady
     THEN toWorker' = Append(toWorker, Msg("arm", s)) /\ UNCHANGED pendingArm
     ELSE pendingArm' = s /\ UNCHANGED toWorker

\* Broken variant: an earlier stream still awaiting its final is kept.
ControllerStopKeepsFirst(awaiting, online) ==
  LET first == IF stopping = NoStream THEN awaiting ELSE stopping
  IN IF pendingArm # NoStream
     THEN /\ pendingArm' = NoStream
          /\ takeOpen' = FALSE
          /\ Publish(snapFinal, snapStats, first, online)
          /\ UNCHANGED <<stopIsCurrent, toWorker>>
     ELSE /\ stopIsCurrent' = TRUE
          /\ toWorker' = IF pipeline = "on" THEN Append(toWorker, Msg("stop", 0)) ELSE toWorker
          /\ stopping' = first
          /\ UNCHANGED <<pendingArm, takeOpen, snapFinal, snapStats, lastReported, sentFinals>>

\* An arm that never reached the worker is simply forgotten.
ControllerStop(awaiting, online) ==
  IF pendingArm # NoStream
  THEN /\ pendingArm' = NoStream
       /\ takeOpen' = FALSE
       /\ Publish(snapFinal, snapStats, awaiting, online)
       /\ UNCHANGED <<stopIsCurrent, toWorker>>
  ELSE /\ stopIsCurrent' = TRUE
       /\ toWorker' = IF pipeline = "on" THEN Append(toWorker, Msg("stop", 0)) ELSE toWorker
       /\ stopping' = awaiting
       /\ UNCHANGED <<pendingArm, takeOpen, snapFinal, snapStats, lastReported, sentFinals>>
-----------------------------------------------------------------------------
(***************************************************************************)
(* RecorderSession: what a control message does.                           *)
(***************************************************************************)
\* armForTake
SessionArm(t, online) ==
  LET s == Len(takeOf) + 1
  IN /\ s <= MaxStream
     /\ takeOf' = Append(takeOf, t)
     /\ activeTake' = t
     /\ sittingOut' = NoTake
     /\ ControllerArm(s)
     /\ Republish(online)
     /\ UNCHANGED <<pipeline, workerReady, inputVars, workerVars, toMain>>

\* take-start, and the active take of a welcome.
OnTakeStart(t, disarmed, online) ==
  \/ activeTake = t /\ UNCHANGED pageVars
  \/ /\ activeTake # t /\ disarmed
     /\ sittingOut' = t
     /\ UNCHANGED <<activeTake, takeOf, pipeline, latchVars, inputVars, reportVars,
                    workerVars, queueVars>>
  \/ activeTake # t /\ ~ disarmed /\ SessionArm(t, online)

OnTakeStop(t, online) ==
  /\ sittingOut' = IF sittingOut = t THEN NoTake ELSE sittingOut
  /\ IF activeTake = t
     THEN /\ activeTake' = NoTake
          /\ ControllerStop(Len(takeOf), online)
          /\ UNCHANGED <<takeOf, pipeline, workerReady, inputVars, workerVars, toMain>>
     ELSE UNCHANGED <<activeTake, takeOf, pipeline, latchVars, inputVars, reportVars,
                      workerVars, queueVars>>

\* haltForFatal: the session forgets its take and the pipeline is torn down;
\* the worker dies at once, the rest of teardown() waits for the context.
HaltForFatal ==
  /\ activeTake' = NoTake /\ sittingOut' = NoTake /\ stopping' = NoStream
  /\ pipeline' = "closing"
  /\ switching' = IF switching = "no" THEN "no" ELSE "stale"
  /\ workerReady' = FALSE /\ pendingArm' = NoStream
  /\ booted' = FALSE /\ engine' = NoEngine /\ queued' = NoStream
  /\ toWorker' = <<>> /\ toMain' = <<>>
  /\ UNCHANGED <<takeOf, stopIsCurrent, takeOpen, device, snapFinal, snapStats,
                 lastReported, finalOf, sentFinals>>

TeardownEnds(online) ==
  /\ pipeline = "closing"
  /\ pipeline' = "off"
  /\ takeOpen' = FALSE
  /\ Publish(NoFinal, NoStream, stopping, online)
  /\ UNCHANGED <<sessionVars, workerReady, pendingArm, stopIsCurrent, inputVars,
                 workerVars, queueVars>>

\* start() returns at once while a context exists, closing or not.
StartCapture ==
  /\ pipeline = "off"
  /\ pipeline' = "on"
  /\ UNCHANGED <<sessionVars, latchVars, inputVars, reportVars, workerVars, queueVars>>
-----------------------------------------------------------------------------
(***************************************************************************)
(* CaptureController.switchDevice: checks, awaits the new input, checks    *)
(* again.                                                                  *)
(***************************************************************************)
BeginSwitch ==
  /\ pipeline = "on" /\ ~ takeOpen /\ switching = "no"
  /\ device < MaxSwitch
  /\ switching' = "yes"
  /\ UNCHANGED <<sessionVars, pipeline, latchVars, device, reportVars, workerVars, queueVars>>

MaySwap == switching = "yes" /\ pipeline = "on" /\ ~ takeOpen

EndSwitch(online) ==
  /\ switching # "no"
  /\ switching' = "no"
  /\ \/ MaySwap /\ device' = device + 1 /\ Republish(online)
     \/ ~ MaySwap /\ UNCHANGED <<device, reportVars>>   \* refused
     \/ Republish(online) /\ UNCHANGED device          \* the input is not granted
  /\ UNCHANGED <<sessionVars, pipeline, latchVars, workerVars, queueVars>>
-----------------------------------------------------------------------------
(***************************************************************************)
(* The encoder worker.                                                     *)
(***************************************************************************)
WorkerBoots ==
  /\ pipeline = "on" /\ ~ booted
  /\ booted' = TRUE
  /\ toMain' = Append(toMain, Msg("ready", 0))
  /\ UNCHANGED <<sessionVars, pipeline, latchVars, inputVars, reportVars,
                 engine, queued, finalOf, toWorker>>

DoArm(s) ==
  /\ engine' = [stream |-> s, state |-> "streaming"]
  /\ toMain' = Append(toMain, Msg("armed", s))

\* Broken variant: a draining engine is thrown away.
MustQueueOnlyLive == Streaming

\* One engine per take: an open one still owes its chunks to the sinks.
MustQueue == engine # NoEngine /\ engine.state # "closed"

WorkerArm ==
  /\ toWorker # <<>> /\ Head(toWorker).type = "arm"
  /\ toWorker' = Tail(toWorker)
  /\ IF MustQueue
     THEN queued' = Head(toWorker).val /\ UNCHANGED <<engine, toMain>>
     ELSE DoArm(Head(toWorker).val) /\ UNCHANGED queued
  /\ UNCHANGED <<sessionVars, pipeline, latchVars, inputVars, reportVars, booted, finalOf>>

\* A stop answers a queued arm by dropping it; otherwise the engine finishes
\* (which fails, without an answer, unless it is streaming).
WorkerStop ==
  /\ toWorker # <<>> /\ Head(toWorker).type = "stop"
  /\ toWorker' = Tail(toWorker)
  /\ IF queued # NoStream
     THEN /\ queued' = NoStream
          /\ toMain' = Append(toMain, Msg("stopped", NoFinal))
          /\ UNCHANGED <<engine, finalOf>>
     ELSE /\ UNCHANGED queued
          /\ IF Streaming
             THEN \E f \in FinalSeqs :
                    /\ engine' = [engine EXCEPT !.state = "draining"]
                    /\ finalOf' = [finalOf EXCEPT ![engine.stream] = f]
                    /\ toMain' = Append(toMain, Msg("stopped", f))
             ELSE UNCHANGED <<engine, finalOf, toMain>>
  /\ UNCHANGED <<sessionVars, pipeline, latchVars, inputVars, reportVars, booted>>

\* The pump arms the queued take once the old engine has settled.
Pump ==
  /\ booted /\ queued # NoStream /\ engine.state = "closed"
  /\ DoArm(queued)
  /\ queued' = NoStream
  /\ UNCHANGED <<sessionVars, pipeline, latchVars, inputVars, reportVars,
                 booted, finalOf, toWorker>>

\* Every sink has settled (module StreamSender).
EngineCloses ==
  /\ engine.state = "draining"
  /\ engine' = [engine EXCEPT !.state = "closed"]
  /\ UNCHANGED <<sessionVars, pipeline, latchVars, inputVars, reportVars,
                 booted, queued, finalOf, queueVars>>

\* The stats timer; one report at a time is in flight.
SendStats ==
  /\ booted /\ \A i \in DOMAIN toMain : toMain[i].type # "stats"
  /\ toMain' = Append(toMain, Msg("stats", engine.stream))
  /\ UNCHANGED <<sessionVars, pipeline, latchVars, inputVars, reportVars, workerVars, toWorker>>
-----------------------------------------------------------------------------
(***************************************************************************)
(* CaptureController.onWorker.                                             *)
(***************************************************************************)
FromWorker(type) ==
  /\ toMain # <<>> /\ Head(toMain).type = type
  /\ toMain' = Tail(toMain)

\* Broken variant: the arm that waited for the worker is forgotten.
OnReadyForgets(online) ==
  /\ FromWorker("ready")
  /\ workerReady' = TRUE
  /\ pendingArm' = NoStream
  /\ UNCHANGED <<toWorker, takeOpen, stopIsCurrent, reportVars>>
  /\ UNCHANGED <<sessionVars, pipeline, inputVars, workerVars>>

OnReady(online) ==
  /\ FromWorker("ready")
  /\ workerReady' = TRUE
  /\ pendingArm' = NoStream
  /\ IF pendingArm # NoStream
     THEN /\ toWorker' = Append(toWorker, Msg("arm", pendingArm))
          /\ takeOpen' = TRUE /\ stopIsCurrent' = FALSE
          /\ Republish(online)
     ELSE UNCHANGED <<toWorker, takeOpen, stopIsCurrent, reportVars>>
  /\ UNCHANGED <<sessionVars, pipeline, inputVars, workerVars>>

OnArmed(online) ==
  /\ FromWorker("armed")
  /\ Publish(NoFinal, snapStats, stopping, online)
  /\ UNCHANGED <<sessionVars, pipeline, latchVars, inputVars, workerVars, toWorker>>

OnStats(online) ==
  /\ FromWorker("stats")
  /\ Publish(snapFinal, Head(toMain).val, stopping, online)
  /\ UNCHANGED <<sessionVars, pipeline, latchVars, inputVars, workerVars, toWorker>>

\* The latch opens only for the stop of the latest arm.
OnStopped(online) ==
  /\ FromWorker("stopped")
  /\ Publish(Head(toMain).val, snapStats, stopping, online)
  /\ takeOpen' = (takeOpen /\ ~ stopIsCurrent)
  /\ UNCHANGED <<sessionVars, pipeline, workerReady, pendingArm, stopIsCurrent, inputVars,
                 workerVars, toWorker>>

\* What the page does on its own; what the user does is apart.
PageStep(online) ==
  \/ WorkerBoots \/ WorkerArm \/ WorkerStop \/ Pump \/ SendStats
  \/ OnReady(online) \/ OnArmed(online) \/ OnStats(online) \/ OnStopped(online)
  \/ TeardownEnds(online)

PageInit ==
  /\ activeTake = NoTake /\ sittingOut = NoTake /\ stopping = NoStream /\ takeOf = <<>>
  /\ pipeline = "on"  \* joining a session follows startCapture
  /\ workerReady = FALSE /\ pendingArm = NoStream
  /\ stopIsCurrent = FALSE /\ takeOpen = FALSE
  /\ switching = "no" /\ device = 0
  /\ snapFinal = NoFinal /\ snapStats = NoStream /\ lastReported = NoReport
  /\ booted = FALSE /\ engine = NoEngine /\ queued = NoStream
  /\ toWorker = <<>> /\ toMain = <<>>
  /\ finalOf = [s \in 1 .. MaxStream |-> NoFinal]
  /\ sentFinals = {}
=============================================================================
