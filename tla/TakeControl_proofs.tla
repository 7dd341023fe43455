------------------------- MODULE TakeControl_proofs -------------------------
(***************************************************************************)
(* What the worker owes to its sinks survives every order of control       *)
(* messages, faults and changes of input, for every bound; and where an    *)
(* operator lets the recorder answer before a stop, the page records what  *)
(* it shall and swaps its input between takes only.  The invariant follows *)
(* one command from the desk over the room to the worker and back.         *)
(***************************************************************************)
EXTENDS MCTakes, FiniteSetTheorems, TLAPS

\* The engine is a pair of a stream and a state.
EngineIsRecord == engine = [stream |-> engine.stream, state |-> engine.state]

\* The steps that touch the engine.
EngineSteps == WorkerArm \/ WorkerStop \/ Pump \/ EngineCloses \/ HaltForFatal

\* What such a step does to the engine: it is armed when it owes nothing, it
\* moves on within its take, or it goes with the pipeline.
EngineMoves ==
  \/ UNCHANGED engine
  \/ engine.state \notin {"streaming", "draining"} /\ \E s : DoArm(s)
  \/ \E st \in {"draining", "closed"} : engine' = [engine EXCEPT !.state = st]
  \/ engine' = NoEngine /\ pipeline' = "closing"

\* Every step of the system leaves the engine alone or is one of these.
LEMMA StepsOfEngine == [Next]_vars => UNCHANGED engine \/ EngineSteps
<1> SUFFICES ASSUME [Next]_vars PROVE UNCHANGED engine \/ EngineSteps
  OBVIOUS
<1>0. CASE UNCHANGED vars
  BY <1>0 DEF vars, pageVars, workerVars
<1>1. CASE StartTake \/ StopTake \/ DeskReceives \/ RoomHandles \/ FanOut
  BY <1>1 DEF StartTake, StopTake, DeskReceives, RoomHandles, FanOut, pageVars, workerVars
<1>2. CASE \E c \in Client : Hello(c) \/ Welcome(c) \/ Cut(c)
  BY <1>2 DEF Hello, Welcome, Cut, pageVars, workerVars
<1>3. CASE RecorderReceives
  BY <1>3 DEF RecorderReceives, OnTakeStart, OnTakeStop, SessionArm, pageVars, workerVars
<1>4. CASE PageRuns
  BY <1>4 DEF PageRuns, PageStep, WorkerBoots, SendStats, OnReady, OnArmed, OnStats,
              OnStopped, TeardownEnds, EngineSteps, workerVars
<1>5. CASE SinksSettle \/ ChangeInput
  BY <1>5 DEF SinksSettle, ChangeInput, BeginSwitch, EndSwitch, EngineSteps, workerVars
<1>6. CASE TakeOver \/ EnableMic
  BY <1>6 DEF TakeOver, EnableMic, StartCapture, pageVars, workerVars
<1>7. CASE Crash \/ Supersede
  BY <1>7 DEF Crash, Supersede, EngineSteps, pageVars, workerVars
<1> QED
  BY <1>0, <1>1, <1>2, <1>3, <1>4, <1>5, <1>6, <1>7 DEF Next

\* An arm is queued behind an engine that owes chunks (encoder.worker.ts), so
\* each of these steps is one of the four moves.
LEMMA MovesOfEngine == EngineSteps => EngineMoves
<1> SUFFICES ASSUME EngineSteps PROVE EngineMoves
  OBVIOUS
<1>1. CASE WorkerArm
  <2>1. CASE MustQueue
    BY <1>1, <2>1 DEF WorkerArm, EngineMoves
  <2>2. CASE ~ MustQueue
    <3>1. engine.state \notin {"streaming", "draining"}
      BY <2>2 DEF MustQueue, NoEngine
    <3>2. DoArm(Head(toWorker).val)
      BY <1>1, <2>2 DEF WorkerArm
    <3> QED
      BY <3>1, <3>2 DEF EngineMoves
  <2> QED
    BY <2>1, <2>2
<1>2. CASE WorkerStop
  BY <1>2 DEF WorkerStop, EngineMoves
<1>3. CASE Pump
  BY <1>3 DEF Pump, EngineMoves
<1>4. CASE EngineCloses
  BY <1>4 DEF EngineCloses, EngineMoves
<1>5. CASE HaltForFatal
  BY <1>5 DEF HaltForFatal, EngineMoves
<1> QED
  BY <1>1, <1>2, <1>3, <1>4, <1>5 DEF EngineSteps

\* The engine is a record in every reachable state.
LEMMA EngineStaysRecord == Spec => []EngineIsRecord
<1>1. Init => EngineIsRecord
  BY DEF Init, PageInit, NoEngine, EngineIsRecord
<1>2. EngineIsRecord /\ [Next]_vars => EngineIsRecord'
  <2> SUFFICES ASSUME EngineIsRecord, [Next]_vars PROVE EngineIsRecord'
    OBVIOUS
  <2>1. UNCHANGED engine \/ EngineMoves
    BY StepsOfEngine, MovesOfEngine
  <2> QED
    BY <2>1 DEF EngineMoves, DoArm, NoEngine, EngineIsRecord
<1> QED
  BY <1>1, <1>2, PTL DEF Spec

\* An engine that still owes chunks is given up only with the whole pipeline,
\* whatever the desk, the room, the faults and the threads do (encoder.worker.ts,
\* arm, stop and pump).
THEOREM NeverDiscarded == Spec => NothingDiscarded
<1>1. EngineIsRecord /\ [Next]_vars
        => [engine.state \in {"streaming", "draining"} /\ engine'.stream # engine.stream
              => pipeline' = "closing"]_vars
  <2> SUFFICES ASSUME EngineIsRecord, [Next]_vars,
                      engine.state \in {"streaming", "draining"},
                      engine'.stream # engine.stream
               PROVE  pipeline' = "closing"
    OBVIOUS
  <2>1. EngineMoves
    BY StepsOfEngine, MovesOfEngine
  <2> QED
    BY <2>1 DEF EngineMoves, EngineIsRecord
<1> QED
  BY <1>1, EngineStaysRecord, PTL DEF Spec, NothingDiscarded
-----------------------------------------------------------------------------
(***************************************************************************)
(* Every scene: types, and what was published.                             *)
(***************************************************************************)
Command == [type : {"take-start", "take-stop"}, val : Take]
Notice == [type : {"welcome", "take-start", "take-stop"}, val : Take]
ToWorkerMsg == [type : {"arm", "stop"}, val : Stream]
Final == FinalSeqs \cup {NoFinal}
ToMainMsg == [type : {"ready", "armed", "stats", "stopped"}, val : Stream \cup Final]

\* Stats name a stream, the answer to a stop a final sequence number.
MainTypes ==
  /\ toMain \in Seq(ToMainMsg)
  /\ \A i \in 1 .. Len(toMain) : /\ toMain[i].type = "stats" => toMain[i].val \in Stream
                                 /\ toMain[i].type = "stopped" => toMain[i].val \in Final

\* The page's variables have their types, and so has each message of its queues.
PageTypes ==
  /\ activeTake \in Take /\ sittingOut \in Take /\ takeOf \in Seq(Take) /\ Len(takeOf) <= MaxStream
  /\ stopping \in Stream /\ pendingArm \in Stream /\ queued \in Stream /\ snapStats \in Stream
  /\ \/ engine = NoEngine
     \/ engine \in [stream : Stream \ {NoStream}, state : {"streaming", "draining", "closed"}]
  /\ pipeline \in {"off", "on", "closing"} /\ switching \in {"no", "yes", "stale"} /\ device \in Nat
  /\ workerReady \in BOOLEAN /\ stopIsCurrent \in BOOLEAN /\ takeOpen \in BOOLEAN /\ booted \in BOOLEAN
  /\ snapFinal \in Final /\ finalOf \in [1 .. MaxStream -> Final]
  /\ toWorker \in Seq(ToWorkerMsg) /\ MainTypes

\* So have those of the control plane.
PlaneTypes ==
  /\ roomTake \in Take /\ deskTake \in Take /\ deskStart \in Take /\ lastTake \in Take
  /\ peers \subseteq Client /\ welcoming \subseteq Client
  /\ linkUp \in [Client -> BOOLEAN] /\ peerKnown \in BOOLEAN /\ fatal \in BOOLEAN
  /\ toRoom \in Seq(Command) /\ fanouts \in Seq(Command)
  /\ toClient \in [Client -> Seq(Notice)]
  /\ faults \in Nat

\* An arm on its way names a stream.
ArmsAreStreams ==
  \A i \in 1 .. Len(toWorker) : toWorker[i].type = "arm" => toWorker[i].val # NoStream

\* Whatever was published was reported, under the stats of that moment.
PublishedIsReported ==
  snapFinal # NoFinal /\ snapStats # NoStream => lastReported = <<snapStats, snapFinal>>

PlaneInv == PageTypes /\ PlaneTypes /\ ArmsAreStreams /\ PublishedIsReported
-----------------------------------------------------------------------------
(***************************************************************************)
(* Without faults.  One command of the desk is under way at a time, and a  *)
(* stop travels alone from the desk to the worker and back.                *)
(***************************************************************************)
toDesk == toClient["desk"]
toRecorder == toClient["recorder"]
Commands(q) == {i \in 1 .. Len(q) : q[i].type # "welcome"}
Starts(q) == {i \in 1 .. Len(q) : q[i].type # "take-stop" /\ q[i].val # NoTake}
Stops(q) == {i \in 1 .. Len(q) : q[i].type = "take-stop"}
Arms == {i \in 1 .. Len(toWorker) : toWorker[i].type = "arm"}
Halts == {i \in 1 .. Len(toWorker) : toWorker[i].type = "stop"}
Answers(type) == {i \in 1 .. Len(toMain) : toMain[i].type = type}

\* No fault has taken the page down.
PageUp == pipeline = "on" /\ fatal = FALSE

\* A stream waits for the worker only until the worker is ready, and it is named in
\* the order of the arms: the engine's, the queued one, those on their way.
ArmsInOrder ==
  /\ pendingArm # NoStream => ~ workerReady /\ pendingArm <= Len(takeOf)
  /\ ~ workerReady => engine = NoEngine /\ queued = NoStream
  /\ engine.stream <= Len(takeOf) /\ queued <= Len(takeOf)
  /\ queued # NoStream => engine.stream < queued
  /\ \A i \in Arms : /\ workerReady /\ engine.stream < toWorker[i].val /\ queued < toWorker[i].val
                     /\ toWorker[i].val <= Len(takeOf)
  /\ \A i, j \in Arms : i < j => toWorker[i].val < toWorker[j].val

\* The desk, the room and the echo agree on where the one command is.
CommandAlone ==
  /\ deskStart = deskTake
  /\ \A c \in Client : c \in welcoming => c \in peers
  /\ \A c \in Client : c \in peers <=> linkUp[c]
  /\ Len(toRoom) <= 1 /\ Len(fanouts) <= 1
  /\ toRoom # <<>> => fanouts = <<>>
  /\ toRoom # <<>> \/ fanouts # <<>> => Commands(toDesk) = {}
  /\ \A i, j \in Commands(toDesk) : i = j
  /\ "desk" \notin peers =>
       /\ toRoom = <<>> /\ fanouts = <<>> /\ toDesk = <<>>
       /\ roomTake = NoTake /\ deskTake = NoTake

\* What the desk believes at each stage of a command.
DeskFollows ==
  /\ toRoom = <<>> /\ fanouts = <<>> /\ Commands(toDesk) = {} => roomTake = deskTake
  /\ \A i \in 1 .. Len(toRoom) : toRoom[i].val # NoTake /\
       IF toRoom[i].type = "take-start" THEN roomTake = NoTake /\ deskTake = NoTake
       ELSE roomTake = toRoom[i].val /\ deskTake = toRoom[i].val /\ toDesk = <<>> /\ "desk" \notin welcoming
  /\ \A i \in 1 .. Len(fanouts) : fanouts[i].val # NoTake /\
       IF fanouts[i].type = "take-start" THEN roomTake = fanouts[i].val /\ deskTake \in {NoTake, roomTake}
       ELSE roomTake = NoTake /\ deskTake = fanouts[i].val /\ toDesk = <<>> /\ "desk" \notin welcoming
  /\ \A i \in Commands(toDesk) : toDesk[i].val # NoTake /\
       IF toDesk[i].type = "take-start" THEN roomTake = toDesk[i].val /\ deskTake \in {NoTake, roomTake}
       ELSE roomTake = NoTake /\ deskTake = toDesk[i].val /\ Len(toDesk) = 1 /\ "desk" \notin welcoming
  /\ \A i \in Starts(toDesk) : roomTake = toDesk[i].val /\ deskTake \in {NoTake, roomTake}
  /\ \A i \in 1 .. Len(toDesk) : toDesk[i].type = "welcome" /\ toDesk[i].val = NoTake =>
       deskTake = NoTake /\ (\A j \in Starts(toDesk) : i < j)

\* The stop that is under way between the desk and the room.
StopUp == Stops(toRoom) # {} \/ Stops(fanouts) # {}

\* It, or the same one on its way to the recorder.
StopComing == StopUp \/ Stops(toRecorder) # {}

\* A stop is in one place: between the desk and the recorder ...
StopOnce ==
  /\ \A i, j \in Stops(toRecorder) : i = j
  /\ StopUp => Stops(toRecorder) = {}

\* ... or on its way to the worker, or answered.
StopAlone ==
  /\ \A i, j \in Halts : i = j
  /\ \A i, j \in Answers("stopped") : i = j
  /\ StopComing => Halts = {} /\ Answers("stopped") = {}
  /\ Halts # {} => Answers("stopped") = {}

\* The take a recorder that has heard everything would be in.
Latest == IF Stops(fanouts) # {} THEN fanouts[1].val ELSE roomTake

\* The recorder hears of one take, of its end, and of one more: it is never
\* told to start while it is in another take.
RecorderFollows ==
  /\ "recorder" \notin peers => toRecorder = <<>> /\ activeTake = NoTake
  /\ \A i \in Commands(toRecorder) : toRecorder[i].val # NoTake
  /\ \A i \in Starts(toRecorder) : (\A j \in Stops(toRecorder) : j < i) => toRecorder[i].val = Latest
  /\ Stops(toRecorder) = {} => activeTake \in {NoTake, Latest}
  /\ \A i \in Stops(toRecorder) : activeTake \in {NoTake, toRecorder[i].val}
  /\ \A i \in Stops(toRecorder), j \in Starts(toRecorder) : j < i => toRecorder[j].val = toRecorder[i].val

\* The stream of the active take is the newest one, and no stop follows it.
NewestIsLive ==
  activeTake # NoTake =>
    /\ takeOf # <<>>
    /\ \/ pendingArm = Len(takeOf)
       \/ \E i \in Arms : toWorker[i].val = Len(takeOf) /\ \A j \in Halts : j < i
       \/ Halts = {} /\ (queued = Len(takeOf) \/ (Streaming /\ engine.stream = Len(takeOf)))

\* At most one stream is live, but for the one a stop is about to end.
OneIsLive ==
  /\ ~ workerReady => toWorker = <<>>
  /\ pendingArm # NoStream => activeTake # NoTake
  /\ \A i, j \in Arms : i < j => \E k \in Halts : i < k /\ k < j
  /\ Streaming \/ queued # NoStream => \A i \in Arms : \E k \in Halts : k < i
  /\ Streaming => queued = NoStream
  /\ activeTake = NoTake => /\ Streaming \/ queued # NoStream => Halts # {}
                            /\ \A i \in Arms : \E k \in Halts : i < k

\* The latch covers it.
LatchCovers ==
  /\ stopIsCurrent => activeTake = NoTake
  /\ ~ takeOpen => ~ Streaming /\ queued = NoStream /\ Arms = {}

\* Stats are told apart by the answer to the arm in between.
StatsInOrder ==
  /\ \A i \in Answers("stats") : toMain[i].val = engine.stream \/ \E j \in Answers("armed") : i < j
  /\ snapFinal # NoFinal => engine.stream # NoStream
  /\ \A i \in Answers("stopped") : toMain[i].val # NoFinal => engine.stream # NoStream

\* The final of the snapshot was reported and stays so until the next stop is answered.
ReportIsOver ==
  snapFinal # NoFinal =>
    /\ snapStats # NoStream
    /\ \A i \in Answers("stats") : toMain[i].val = snapStats \/ \E j \in Answers("armed") : j < i
    /\ engine.stream = snapStats \/ Answers("armed") # {}

\* The final the page sends next belongs to the stream it awaits.
AwaitedIsRight ==
  /\ StopComing \/ Halts # {} \/ Answers("stopped") # {} => ReportIsOver
  /\ \A i \in Halts : stopping # NoStream /\
       \/ \E j \in Arms : j < i /\ toWorker[j].val = stopping
       \/ queued = stopping
       \/ (Streaming /\ engine.stream = stopping)
  /\ \A i \in Answers("stopped") : toMain[i].val # NoFinal =>
       stopping # NoStream /\ finalOf[stopping] = toMain[i].val
  /\ snapFinal # NoFinal => ReportIsOver \/ stopping = NoStream \/ finalOf[stopping] = snapFinal

\* Finals are written once, and those that were sent are right.
FinalsStand ==
  /\ Streaming => finalOf[engine.stream] = NoFinal
  /\ \A s \in 1 .. MaxStream : engine.stream < s => finalOf[s] = NoFinal
  /\ \A r \in sentFinals : r[1] \in 1 .. MaxStream /\ r[2] # NoFinal /\ finalOf[r[1]] = r[2]

\* The plane's side, and the page's.
PlaneSide == CommandAlone /\ DeskFollows /\ StopOnce /\ RecorderFollows
PageSide ==
  /\ PageUp /\ ArmsInOrder /\ StopAlone /\ NewestIsLive /\ OneIsLive /\ LatchCovers
  /\ StatsInOrder /\ AwaitedIsRight /\ FinalsStand
FaultFreeInv == PlaneSide /\ PageSide
-----------------------------------------------------------------------------
(***************************************************************************)
(* The calm scene.                                                         *)
(***************************************************************************)
\* No take is named that was not started.
UpTo(q, t) == \A i \in 1 .. Len(q) : q[i].val <= t

TakesAreStarted ==
  /\ UpTo(toRoom, lastTake) /\ UpTo(fanouts, lastTake)
  /\ \A c \in Client : UpTo(toClient[c], lastTake)
  /\ roomTake <= lastTake /\ deskTake <= lastTake
  /\ \A s \in 1 .. Len(takeOf) : takeOf[s] <= lastTake

\* A recorder in the room knows its name, or will when its welcome has arrived.
RecorderIsTold ==
  "recorder" \in peers => \/ peerKnown \/ "recorder" \in welcoming
                          \/ \E i \in 1 .. Len(toRecorder) : toRecorder[i].type = "welcome"

\* A recorder that was disarmed knows its name, and no stream of such a take is armed.
NeverArmedFor ==
  /\ disarmedFor # {} => peerKnown
  /\ \A s \in 1 .. Len(takeOf) : takeOf[s] \notin disarmedFor

TakesInv ==
  /\ PlaneInv
  /\ scene # "faults" => FaultFreeInv /\ TakesAreStarted /\ RecorderIsTold
  /\ scene = "calm" => NeverArmedFor
  /\ scene = "faults" => switching # "yes"
-----------------------------------------------------------------------------
\* A message joins the end of a queue.
LEMMA Joined == ASSUME NEW S, NEW q \in Seq(S), NEW m \in S, NEW r, r = Append(q, m)
                PROVE  /\ r \in Seq(S) /\ Len(q) \in Nat /\ Len(r) = Len(q) + 1
                       /\ r[Len(r)] = m /\ \A i \in 1 .. Len(q) : r[i] = q[i]
OBVIOUS

\* The first message leaves it.
LEMMA Departed == ASSUME NEW S, NEW q \in Seq(S), q # <<>>, NEW r, r = Tail(q)
                  PROVE  /\ r \in Seq(S) /\ Len(q) \in Nat \ {0} /\ Len(r) = Len(q) - 1
                         /\ Head(q) = q[1] /\ q[1] \in S /\ \A i \in 1 .. Len(r) : r[i] = q[i + 1]
OBVIOUS

\* An empty queue has no message.
LEMMA Silent == ASSUME NEW S, NEW q \in Seq(S)
                PROVE  Len(q) \in Nat /\ (q = <<>> <=> Len(q) = 0)
OBVIOUS

\* What a snapshot publishes, and when it reports (recorder-session.ts, the listener and
\* notifyFinal).
LEMMA Published == ASSUME NEW final, NEW stats, NEW awaiting, NEW online, Publish(final, stats, awaiting, online)
                   PROVE  /\ snapFinal' = final /\ snapStats' = stats
                          /\ PublishedIsReported'
                          /\ stopping' \in {NoStream, awaiting}
                          /\ final = NoFinal \/ (stats # NoStream /\ lastReported = <<stats, final>>)
                               => stopping' = awaiting /\ sentFinals' = sentFinals
                          /\ stopping' # awaiting => stopping' = NoStream
                          /\ \A r \in sentFinals' : \/ r \in sentFinals
                                                    \/ r = <<awaiting, final>> /\ awaiting # NoStream /\ final # NoFinal
BY DEF Publish, IsNewFinal, PublishedIsReported, NoReport, NoStream, NoFinal

\* The bounds are natural numbers, and no final is a stream that does not exist.
LEMMA Numbers == /\ MaxStream \in Nat /\ MaxTake \in Nat /\ FinalSeqs \subseteq Nat
                 /\ Stream \subseteq Nat /\ NoStream \in Stream /\ Take \subseteq Nat /\ NoTake \in Take
                 /\ NoFinal \in Final /\ NoFinal \notin Nat
BY PageConstants, ControlConstants DEF Stream, Take, NoStream, NoTake, Final, NoFinal

\* A new arm: what the session, the latch and the queue do.
LEMMA Armed == ASSUME PageTypes, NEW t \in Take, NEW online, SessionArm(t, online)
               PROVE  /\ PageTypes' /\ PublishedIsReported'
                      /\ Len(takeOf) \in Nat /\ Len(takeOf') = Len(takeOf) + 1
                      /\ takeOf'[Len(takeOf')] = t /\ \A s \in 1 .. Len(takeOf) : takeOf'[s] = takeOf[s]
                      /\ activeTake' = t
<1> USE Numbers
<1>1. Publish(snapFinal, snapStats, stopping, online)
  BY DEF SessionArm, Republish
<1>2. snapFinal' = snapFinal /\ snapStats' = snapStats /\ stopping' \in Stream /\ PublishedIsReported'
  BY <1>1, Published DEF PageTypes
<1>3. takeOf' = Append(takeOf, t) /\ takeOf \in Seq(Take)
  BY DEF SessionArm, PageTypes
<1>4. /\ takeOf' \in Seq(Take) /\ Len(takeOf) \in Nat /\ Len(takeOf') = Len(takeOf) + 1
      /\ takeOf'[Len(takeOf')] = t /\ \A s \in 1 .. Len(takeOf) : takeOf'[s] = takeOf[s]
  BY <1>3, Joined
<1>5. Len(takeOf) + 1 <= MaxStream /\ Len(takeOf) + 1 \in Stream
  <2>1. Len(takeOf) + 1 <= MaxStream
    BY DEF SessionArm
  <2> QED
    BY <2>1, <1>4 DEF Stream
<1>6. toWorker' \in Seq(ToWorkerMsg) /\ pendingArm' \in Stream
  <2>1. Msg("arm", Len(takeOf) + 1) \in ToWorkerMsg
    BY <1>5 DEF Msg, ToWorkerMsg
  <2> QED
    BY <2>1, <1>5, Joined DEF SessionArm, ControllerArm, PageTypes
<1>7. /\ activeTake' = t /\ sittingOut' = NoTake /\ takeOpen' = TRUE /\ stopIsCurrent' = FALSE
      /\ UNCHANGED <<pipeline, workerReady, inputVars, workerVars, toMain>>
  BY DEF SessionArm, ControllerArm
<1> QED
  BY <1>2, <1>4, <1>5, <1>6, <1>7 DEF PageTypes, MainTypes, inputVars, workerVars

\* A stop of the recorder's own take.
LEMMA Halted == ASSUME PageTypes, PublishedIsReported, activeTake' = NoTake,
                       sittingOut' = sittingOut \/ sittingOut' = NoTake, NEW online,
                       ControllerStop(Len(takeOf), online),
                       UNCHANGED <<takeOf, pipeline, workerReady, inputVars, workerVars, toMain>>
                PROVE  PageTypes' /\ PublishedIsReported'
<1> USE Numbers
<1>1. Len(takeOf) \in Stream
  BY Silent DEF PageTypes, Stream
<1>2. Msg("stop", 0) \in ToWorkerMsg
  BY DEF Msg, ToWorkerMsg, NoStream
<1>3. CASE pendingArm # NoStream
  <2>1. /\ Publish(snapFinal, snapStats, Len(takeOf), online)
        /\ pendingArm' = NoStream /\ takeOpen' = FALSE /\ UNCHANGED <<stopIsCurrent, toWorker>>
    BY <1>3 DEF ControllerStop
  <2>2. snapFinal' = snapFinal /\ snapStats' = snapStats /\ stopping' \in Stream /\ PublishedIsReported'
    BY <2>1, <1>1, Published
  <2> QED
    BY <2>1, <2>2 DEF PageTypes, MainTypes, inputVars, workerVars
<1>4. CASE pendingArm = NoStream
  <2>1. /\ stopIsCurrent' = TRUE /\ stopping' = Len(takeOf)
        /\ toWorker' = IF pipeline = "on" THEN Append(toWorker, Msg("stop", 0)) ELSE toWorker
        /\ UNCHANGED <<pendingArm, takeOpen, snapFinal, snapStats, lastReported, sentFinals>>
    BY <1>4 DEF ControllerStop
  <2>2. toWorker' \in Seq(ToWorkerMsg)
    BY <2>1, <1>2, Joined DEF PageTypes
  <2> QED
    BY <2>1, <2>2, <1>1 DEF PageTypes, MainTypes, inputVars, workerVars, PublishedIsReported
<1> QED
  BY <1>3, <1>4

\* The worker posts a message.
LEMMA WorkerPosts == ASSUME MainTypes, NEW m \in ToMainMsg, toMain' = Append(toMain, m),
                            m.type = "stats" => m.val \in Stream, m.type = "stopped" => m.val \in Final
                     PROVE  /\ MainTypes' /\ Len(toMain) \in Nat /\ Len(toMain') = Len(toMain) + 1
                            /\ toMain'[Len(toMain')] = m /\ \A i \in 1 .. Len(toMain) : toMain'[i] = toMain[i]
<1>1. /\ toMain' \in Seq(ToMainMsg) /\ Len(toMain) \in Nat /\ Len(toMain') = Len(toMain) + 1
      /\ toMain'[Len(toMain')] = m /\ \A i \in 1 .. Len(toMain) : toMain'[i] = toMain[i]
  BY Joined DEF MainTypes
<1>2. \A i \in 1 .. Len(toMain') : i \in 1 .. Len(toMain) \/ i = Len(toMain')
  BY <1>1
<1> QED
  BY <1>1, <1>2 DEF MainTypes

\* The page takes one.
LEMMA PageTakes == ASSUME MainTypes, toMain # <<>>, toMain' = Tail(toMain)
                   PROVE  /\ MainTypes' /\ Len(toMain) \in Nat \ {0} /\ Len(toMain') = Len(toMain) - 1
                          /\ Head(toMain) = toMain[1] /\ toMain[1] \in ToMainMsg
                          /\ \A i \in 1 .. Len(toMain') : toMain'[i] = toMain[i + 1]
                          /\ toMain[1].type = "stats" => toMain[1].val \in Stream
                          /\ toMain[1].type = "stopped" => toMain[1].val \in Final
<1>1. /\ toMain' \in Seq(ToMainMsg) /\ Len(toMain) \in Nat \ {0} /\ Len(toMain') = Len(toMain) - 1
      /\ Head(toMain) = toMain[1] /\ toMain[1] \in ToMainMsg
      /\ \A i \in 1 .. Len(toMain') : toMain'[i] = toMain[i + 1]
  BY Departed DEF MainTypes
<1>2. 1 \in 1 .. Len(toMain) /\ \A i \in 1 .. Len(toMain') : i + 1 \in 1 .. Len(toMain)
  BY <1>1
<1> QED
  BY <1>1, <1>2 DEF MainTypes

\* The engine starts on a stream.
LEMMA EngineStarts == ASSUME MainTypes, NEW s \in Stream \ {NoStream}, DoArm(s)
                      PROVE  /\ engine' = [stream |-> s, state |-> "streaming"]
                             /\ engine' \in [stream : Stream \ {NoStream}, state : {"streaming", "draining", "closed"}]
                             /\ MainTypes' /\ Len(toMain) \in Nat /\ Len(toMain') = Len(toMain) + 1
                             /\ toMain'[Len(toMain')] = Msg("armed", s)
                             /\ \A i \in 1 .. Len(toMain) : toMain'[i] = toMain[i]
<1>1. Msg("armed", s) \in ToMainMsg /\ Msg("armed", s).type = "armed"
  BY DEF Msg, ToMainMsg
<1>2. toMain' = Append(toMain, Msg("armed", s)) /\ engine' = [stream |-> s, state |-> "streaming"]
  BY DEF DoArm
<1>3. /\ MainTypes' /\ Len(toMain) \in Nat /\ Len(toMain') = Len(toMain) + 1
      /\ toMain'[Len(toMain')] = Msg("armed", s) /\ \A i \in 1 .. Len(toMain) : toMain'[i] = toMain[i]
  BY <1>1, <1>2, WorkerPosts
<1> QED
  BY <1>2, <1>3

\* The engine moves on within its stream.
LEMMA EngineAdvances == ASSUME NEW S, NEW T, NEW e \in [stream : S, state : T], NEW to \in T,
                               NEW f, f = [e EXCEPT !.state = to]
                        PROVE  f \in [stream : S, state : T] /\ f.stream = e.stream /\ f.state = to
OBVIOUS

\* What the worker does to its page's variables.
LEMMA WorkerTypes == ASSUME PageTypes, PublishedIsReported,
                            ArmsAreStreams, WorkerBoots \/ WorkerArm \/ WorkerStop \/ Pump \/ SendStats \/ EngineCloses
                     PROVE  PageTypes' /\ PublishedIsReported' /\ ArmsAreStreams'
<1> USE Numbers
<1>1. UNCHANGED <<sessionVars, pipeline, latchVars, inputVars, reportVars>>
  BY DEF WorkerBoots, WorkerArm, WorkerStop, Pump, SendStats, EngineCloses
<1>2. PublishedIsReported'
  BY <1>1 DEF PublishedIsReported, reportVars
<1>3. ASSUME toWorker # <<>>, toWorker' = Tail(toWorker)
      PROVE  /\ toWorker' \in Seq(ToWorkerMsg) /\ Head(toWorker) = toWorker[1] /\ toWorker[1] \in ToWorkerMsg
             /\ 1 \in 1 .. Len(toWorker) /\ ArmsAreStreams'
  <2>1. /\ toWorker' \in Seq(ToWorkerMsg) /\ Len(toWorker) \in Nat \ {0} /\ Len(toWorker') = Len(toWorker) - 1
        /\ Head(toWorker) = toWorker[1] /\ toWorker[1] \in ToWorkerMsg
        /\ \A i \in 1 .. Len(toWorker') : toWorker'[i] = toWorker[i + 1]
    BY <1>3, Departed DEF PageTypes
  <2>2. 1 \in 1 .. Len(toWorker) /\ \A i \in 1 .. Len(toWorker') : i + 1 \in 1 .. Len(toWorker)
    BY <2>1
  <2> QED
    BY <2>1, <2>2 DEF ArmsAreStreams
<1>4. CASE WorkerBoots
  <2>1. Msg("ready", 0) \in ToMainMsg /\ Msg("ready", 0).type = "ready"
    BY DEF Msg, ToMainMsg, NoStream
  <2>2. MainTypes'
    BY <1>4, <2>1, WorkerPosts DEF WorkerBoots, PageTypes
  <2> QED
    BY <1>1, <1>2, <1>4, <2>2 DEF WorkerBoots, PageTypes, sessionVars, latchVars, inputVars, reportVars, ArmsAreStreams
<1>5. CASE SendStats
  <2>0. engine.stream \in Stream
    BY DEF PageTypes, NoEngine
  <2>1. /\ Msg("stats", engine.stream) \in ToMainMsg /\ Msg("stats", engine.stream).type = "stats"
        /\ Msg("stats", engine.stream).val \in Stream
    BY <2>0 DEF Msg, ToMainMsg
  <2>2. MainTypes'
    BY <1>5, <2>1, WorkerPosts DEF SendStats, PageTypes
  <2> QED
    BY <1>1, <1>2, <1>5, <2>2 DEF SendStats, PageTypes, sessionVars, latchVars, inputVars, reportVars, workerVars,
                                  ArmsAreStreams
<1>6. CASE EngineCloses
  <2>1. engine' \in [stream : Stream \ {NoStream}, state : {"streaming", "draining", "closed"}]
    <3>1. engine \in [stream : Stream \ {NoStream}, state : {"streaming", "draining", "closed"}]
      BY <1>6 DEF EngineCloses, PageTypes, NoEngine
    <3>2. engine' = [engine EXCEPT !.state = "closed"]
      BY <1>6 DEF EngineCloses
    <3> QED
      BY <3>1, <3>2, EngineAdvances
  <2> QED
    BY <1>1, <1>2, <1>6, <2>1 DEF EngineCloses, PageTypes, sessionVars, latchVars, inputVars, reportVars, queueVars,
                                  MainTypes, ArmsAreStreams
<1>7. CASE WorkerArm
  <2>1. /\ toWorker # <<>> /\ toWorker' = Tail(toWorker) /\ Head(toWorker).type = "arm" /\ UNCHANGED <<booted, finalOf>>
    BY <1>7 DEF WorkerArm
  <2>2. Head(toWorker).val \in Stream \ {NoStream}
    BY <2>1, <1>3 DEF ArmsAreStreams, ToWorkerMsg
  <2>3. \/ queued' = Head(toWorker).val /\ UNCHANGED <<engine, toMain>>
        \/ DoArm(Head(toWorker).val) /\ UNCHANGED queued
    BY <1>7 DEF WorkerArm
  <2>4. /\ queued' \in Stream /\ MainTypes'
        /\ engine' = engine \/ engine' \in [stream : Stream \ {NoStream}, state : {"streaming", "draining", "closed"}]
    BY <2>2, <2>3, EngineStarts DEF PageTypes, MainTypes
  <2> QED
    BY <1>1, <1>2, <1>3, <2>1, <2>4 DEF PageTypes, sessionVars, latchVars, inputVars, reportVars
<1>8. CASE WorkerStop
  <2>1. /\ toWorker # <<>> /\ toWorker' = Tail(toWorker) /\ UNCHANGED booted
    BY <1>8 DEF WorkerStop
  <2>2. CASE queued # NoStream
    <3>1. /\ queued' = NoStream /\ toMain' = Append(toMain, Msg("stopped", NoFinal)) /\ UNCHANGED <<engine, finalOf>>
      BY <1>8, <2>2 DEF WorkerStop
    <3>2. /\ Msg("stopped", NoFinal) \in ToMainMsg /\ Msg("stopped", NoFinal).type = "stopped"
          /\ Msg("stopped", NoFinal).val \in Final
      BY DEF Msg, ToMainMsg
    <3>3. MainTypes'
      BY <3>1, <3>2, WorkerPosts DEF PageTypes
    <3> QED
      BY <1>1, <1>2, <1>3, <2>1, <3>1, <3>3 DEF PageTypes, sessionVars, latchVars, inputVars, reportVars
  <2>3. CASE queued = NoStream /\ Streaming
    <3>1. PICK f \in FinalSeqs : /\ engine' = [engine EXCEPT !.state = "draining"]
                                 /\ finalOf' = [finalOf EXCEPT ![engine.stream] = f]
                                 /\ toMain' = Append(toMain, Msg("stopped", f)) /\ UNCHANGED queued
      BY <1>8, <2>3 DEF WorkerStop
    <3>2. Msg("stopped", f) \in ToMainMsg /\ Msg("stopped", f).type = "stopped" /\ Msg("stopped", f).val \in Final
      BY DEF Msg, ToMainMsg, Final
    <3>3. MainTypes'
      BY <3>1, <3>2, WorkerPosts DEF PageTypes
    <3>4. engine' \in [stream : Stream \ {NoStream}, state : {"streaming", "draining", "closed"}]
      <4>1. engine \in [stream : Stream \ {NoStream}, state : {"streaming", "draining", "closed"}]
        BY <2>3 DEF PageTypes, NoEngine, Streaming
      <4> QED
        BY <3>1, <4>1, EngineAdvances
    <3>5. finalOf' \in [1 .. MaxStream -> Final]
      BY <3>1 DEF PageTypes, Final
    <3> QED
      BY <1>1, <1>2, <1>3, <2>1, <3>1, <3>3, <3>4, <3>5 DEF PageTypes, sessionVars, latchVars, inputVars, reportVars
  <2>4. CASE queued = NoStream /\ ~ Streaming
    <3>1. UNCHANGED <<queued, engine, finalOf, toMain>>
      BY <1>8, <2>4 DEF WorkerStop
    <3> QED
      BY <1>1, <1>2, <1>3, <2>1, <3>1 DEF PageTypes, MainTypes, sessionVars, latchVars, inputVars, reportVars
  <2> QED
    BY <2>2, <2>3, <2>4
<1>9. CASE Pump
  <2>1. queued \in Stream \ {NoStream} /\ DoArm(queued) /\ queued' = NoStream /\ UNCHANGED <<booted, finalOf, toWorker>>
    BY <1>9 DEF Pump, PageTypes
  <2>2. engine' \in [stream : Stream \ {NoStream}, state : {"streaming", "draining", "closed"}] /\ MainTypes'
    BY <2>1, EngineStarts DEF PageTypes
  <2> QED
    BY <1>1, <1>2, <2>1, <2>2 DEF PageTypes, sessionVars, latchVars, inputVars, reportVars, ArmsAreStreams
<1> QED
  BY <1>4, <1>5, <1>6, <1>7, <1>8, <1>9

\* A new arm names a stream, and a stop none.
LEMMA ArmedStreams == ASSUME PageTypes, ArmsAreStreams, NEW t \in Take, NEW online,
                             SessionArm(t, online) \/ OnReady(online) \/ ControllerStop(Len(takeOf), online)
                      PROVE  ArmsAreStreams' /\ toWorker' \in Seq(ToWorkerMsg)
<1> USE Numbers
<1>1. Len(takeOf) \in Nat
  BY Silent DEF PageTypes
<1>2. \/ toWorker' = toWorker
      \/ \E m \in ToWorkerMsg : toWorker' = Append(toWorker, m) /\ (m.type = "arm" => m.val # NoStream)
  <2>1. CASE SessionArm(t, online)
    <3>1. Len(takeOf) + 1 \in Stream /\ Len(takeOf) + 1 # NoStream
      BY <1>1, <2>1 DEF SessionArm, Stream, NoStream
    <3>2. Msg("arm", Len(takeOf) + 1) \in ToWorkerMsg /\ Msg("arm", Len(takeOf) + 1).val # NoStream
      BY <3>1 DEF Msg, ToWorkerMsg
    <3> QED
      BY <2>1, <3>2 DEF SessionArm, ControllerArm
  <2>2. CASE OnReady(online)
    <3>1. toWorker' = toWorker \/ (pendingArm # NoStream /\ toWorker' = Append(toWorker, Msg("arm", pendingArm)))
      BY <2>2 DEF OnReady
    <3>2. Msg("arm", pendingArm) \in ToWorkerMsg /\ Msg("arm", pendingArm).val = pendingArm
      BY DEF Msg, ToWorkerMsg, PageTypes
    <3> QED
      BY <3>1, <3>2
  <2>3. CASE ControllerStop(Len(takeOf), online)
    <3>1. Msg("stop", 0) \in ToWorkerMsg /\ Msg("stop", 0).type = "stop"
      BY DEF Msg, ToWorkerMsg, NoStream
    <3>2. toWorker' = toWorker \/ toWorker' = Append(toWorker, Msg("stop", 0))
      BY <2>3 DEF ControllerStop
    <3> QED
      BY <3>1, <3>2
  <2> QED
    BY <2>1, <2>2, <2>3
<1>3. CASE toWorker' = toWorker
  BY <1>3 DEF ArmsAreStreams, PageTypes
<1>4. CASE toWorker' # toWorker
  <2>1. PICK m \in ToWorkerMsg : toWorker' = Append(toWorker, m) /\ (m.type = "arm" => m.val # NoStream)
    BY <1>2, <1>4
  <2>2. /\ toWorker' \in Seq(ToWorkerMsg) /\ Len(toWorker) \in Nat /\ Len(toWorker') = Len(toWorker) + 1
        /\ toWorker'[Len(toWorker')] = m /\ \A i \in 1 .. Len(toWorker) : toWorker'[i] = toWorker[i]
    BY <2>1, Joined DEF PageTypes
  <2>3. \A i \in 1 .. Len(toWorker') : i \in 1 .. Len(toWorker) \/ i = Len(toWorker')
    BY <2>2
  <2> QED
    BY <2>1, <2>2, <2>3 DEF ArmsAreStreams
<1> QED
  BY <1>3, <1>4

\* What the controller makes of the worker's messages.
LEMMA AnswerTypes == ASSUME PageTypes, PublishedIsReported, ArmsAreStreams, NEW online,
                            OnReady(online) \/ OnArmed(online) \/ OnStats(online) \/ OnStopped(online)
                     PROVE  PageTypes' /\ PublishedIsReported' /\ ArmsAreStreams'
<1> USE Numbers
<1>1. /\ MainTypes' /\ Head(toMain) = toMain[1]
      /\ toMain[1].type = "stats" => toMain[1].val \in Stream
      /\ toMain[1].type = "stopped" => toMain[1].val \in Final
  BY PageTakes DEF PageTypes, OnReady, OnArmed, OnStats, OnStopped, FromWorker
<1>2. ASSUME OnReady(online) PROVE PageTypes' /\ PublishedIsReported' /\ ArmsAreStreams'
  <2>1. ArmsAreStreams' /\ toWorker' \in Seq(ToWorkerMsg)
    BY <1>2, ArmedStreams
  <2>2. workerReady' = TRUE /\ pendingArm' = NoStream /\ UNCHANGED <<sessionVars, pipeline, inputVars, workerVars>>
    BY <1>2 DEF OnReady
  <2>3. CASE pendingArm # NoStream
    <3>1. takeOpen' = TRUE /\ stopIsCurrent' = FALSE /\ Publish(snapFinal, snapStats, stopping, online)
      BY <1>2, <2>3 DEF OnReady, Republish
    <3>2. snapFinal' = snapFinal /\ snapStats' = snapStats /\ stopping' \in Stream /\ PublishedIsReported'
      BY <3>1, Published DEF PageTypes
    <3> QED
      BY <1>1, <2>1, <2>2, <3>1, <3>2 DEF PageTypes, sessionVars, inputVars, workerVars
  <2>4. CASE pendingArm = NoStream
    <3>1. UNCHANGED <<takeOpen, stopIsCurrent, reportVars>>
      BY <1>2, <2>4 DEF OnReady
    <3> QED
      BY <1>1, <2>1, <2>2, <3>1 DEF PageTypes, PublishedIsReported, sessionVars, inputVars, workerVars, reportVars
  <2> QED
    BY <2>3, <2>4
<1>3. ASSUME OnArmed(online) \/ OnStats(online) \/ OnStopped(online)
      PROVE  PageTypes' /\ PublishedIsReported' /\ ArmsAreStreams'
  <2>1. /\ UNCHANGED <<sessionVars, pipeline, workerReady, pendingArm, stopIsCurrent, inputVars, workerVars, toWorker>>
        /\ takeOpen' \in BOOLEAN
    BY <1>3 DEF OnArmed, OnStats, OnStopped, latchVars, PageTypes
  <2>2. \E final \in Final, stats \in Stream : Publish(final, stats, stopping, online)
    BY <1>1, <1>3 DEF OnArmed, OnStats, OnStopped, FromWorker, PageTypes
  <2>3. snapFinal' \in Final /\ snapStats' \in Stream /\ stopping' \in Stream /\ PublishedIsReported'
    BY <2>2, Published DEF PageTypes
  <2> QED
    BY <1>1, <2>1, <2>3 DEF PageTypes, ArmsAreStreams, sessionVars, inputVars, workerVars
<1> QED
  BY <1>2, <1>3

\* What ends, starts or re-plugs the pipeline.
LEMMA PipelineTypes == ASSUME PageTypes, PublishedIsReported, ArmsAreStreams, NEW online,
                              HaltForFatal \/ TeardownEnds(online) \/ StartCapture \/ BeginSwitch \/ EndSwitch(online)
                       PROVE  PageTypes' /\ PublishedIsReported' /\ ArmsAreStreams'
<1> USE Numbers
<1>1. CASE HaltForFatal
  <2>1. /\ activeTake' = NoTake /\ sittingOut' = NoTake /\ stopping' = NoStream /\ pipeline' = "closing"
        /\ workerReady' = FALSE /\ pendingArm' = NoStream /\ booted' = FALSE /\ engine' = NoEngine
        /\ queued' = NoStream /\ toWorker' = <<>> /\ toMain' = <<>>
        /\ switching' \in {"no", "stale"}
        /\ UNCHANGED <<takeOf, stopIsCurrent, takeOpen, device, snapFinal, snapStats, lastReported, finalOf, sentFinals>>
    BY <1>1 DEF HaltForFatal
  <2>2. MainTypes' /\ ArmsAreStreams' /\ toWorker' \in Seq(ToWorkerMsg)
    BY <2>1 DEF MainTypes, ArmsAreStreams
  <2> QED
    BY <2>1, <2>2 DEF PageTypes, PublishedIsReported
<1>2. CASE TeardownEnds(online)
  <2>1. /\ pipeline' = "off" /\ takeOpen' = FALSE /\ Publish(NoFinal, NoStream, stopping, online)
        /\ UNCHANGED <<sessionVars, workerReady, pendingArm, stopIsCurrent, inputVars, workerVars, queueVars>>
    BY <1>2 DEF TeardownEnds
  <2>2. snapFinal' \in Final /\ snapStats' \in Stream /\ stopping' \in Stream /\ PublishedIsReported'
    BY <2>1, Published DEF PageTypes
  <2> QED
    BY <2>1, <2>2 DEF PageTypes, MainTypes, ArmsAreStreams, sessionVars, inputVars, workerVars, queueVars
<1>3. CASE StartCapture
  BY <1>3 DEF StartCapture, PageTypes, MainTypes, ArmsAreStreams, PublishedIsReported, sessionVars, latchVars, inputVars,
              reportVars, workerVars, queueVars
<1>4. CASE BeginSwitch
  BY <1>4 DEF BeginSwitch, PageTypes, MainTypes, ArmsAreStreams, PublishedIsReported, sessionVars, latchVars,
              reportVars, workerVars, queueVars
<1>5. CASE EndSwitch(online)
  <2>1. /\ switching' = "no" /\ device' \in Nat
        /\ UNCHANGED <<sessionVars, pipeline, latchVars, workerVars, queueVars>>
        /\ UNCHANGED reportVars \/ Publish(snapFinal, snapStats, stopping, online)
    BY <1>5 DEF EndSwitch, PageTypes, Republish
  <2>2. /\ snapFinal' \in Final /\ snapStats' \in Stream /\ stopping' \in Stream /\ PublishedIsReported'
    BY <2>1, Published DEF PageTypes, PublishedIsReported, reportVars
  <2> QED
    BY <2>1, <2>2 DEF PageTypes, MainTypes, ArmsAreStreams, sessionVars, latchVars, workerVars, queueVars
<1> QED
  BY <1>1, <1>2, <1>3, <1>4, <1>5

\* A command and a welcome are notices.
LEMMA Words == /\ \A t \in Take : /\ Msg("take-start", t) \in Command /\ Msg("take-stop", t) \in Command
                                  /\ Msg("welcome", t) \in Notice
               /\ Command \subseteq Notice
BY DEF Msg, Command, Notice

\* One client's socket takes a message, or gives one.
LEMMA SocketTypes == ASSUME PlaneTypes, NEW c \in Client
                     PROVE  /\ \A m \in Notice : [toClient EXCEPT ![c] = Append(@, m)] \in [Client -> Seq(Notice)]
                            /\ toClient[c] # <<>> =>
                                 /\ [toClient EXCEPT ![c] = Tail(@)] \in [Client -> Seq(Notice)]
                                 /\ Head(toClient[c]) \in Notice
<1>1. toClient \in [Client -> Seq(Notice)] /\ toClient[c] \in Seq(Notice)
  BY DEF PlaneTypes
<1>2. \A m \in Notice : Append(toClient[c], m) \in Seq(Notice)
  BY <1>1, Joined
<1>3. toClient[c] # <<>> => Tail(toClient[c]) \in Seq(Notice) /\ Head(toClient[c]) \in Notice
  BY <1>1, Departed
<1> QED
  BY <1>1, <1>2, <1>3

\* A lost link.
LEMMA LinkTypes == ASSUME PlaneTypes, NEW C \in SUBSET Client, LinksLost(C)
                   PROVE  /\ linkUp' \in [Client -> BOOLEAN] /\ peerKnown' \in BOOLEAN
                          /\ toRoom' \in Seq(Command) /\ toClient' \in [Client -> Seq(Notice)]
<1>1. <<>> \in Seq(Notice) /\ <<>> \in Seq(Command)
  OBVIOUS
<1>2. \A c \in Client : (IF c \in C THEN <<>> ELSE toClient[c]) \in Seq(Notice)
  BY <1>1 DEF PlaneTypes
<1> QED
  BY <1>1, <1>2 DEF PlaneTypes, LinksLost

\* The desk's steps.
LEMMA DeskTypes == ASSUME PlaneTypes, StartTake \/ StopTake \/ DeskReceives
                   PROVE  PlaneTypes' /\ UNCHANGED pageVars
<1> USE Numbers
<1> "desk" \in Client
  BY DEF Client
<1>1. ASSUME NEW t \in Take, DeskSends(Msg("take-start", t)) \/ DeskSends(Msg("take-stop", t)) \/ UNCHANGED toRoom
      PROVE  toRoom' \in Seq(Command)
  <2>1. toRoom \in Seq(Command) /\ Msg("take-start", t) \in Command /\ Msg("take-stop", t) \in Command
    BY Words DEF PlaneTypes
  <2>2. Append(toRoom, Msg("take-start", t)) \in Seq(Command) /\ Append(toRoom, Msg("take-stop", t)) \in Seq(Command)
    BY <2>1, Joined
  <2> QED
    BY <1>1, <2>1, <2>2 DEF DeskSends
<1>2. CASE StartTake
  <2>1. /\ lastTake' = lastTake + 1 /\ lastTake < MaxTake /\ DeskSends(Msg("take-start", lastTake'))
        /\ UNCHANGED <<pageVars, linkUp, peerKnown, fatal, toClient, roomVars, deskTake, deskStart, faults>>
    BY <1>2 DEF StartTake
  <2>2. lastTake' \in Take
    BY <2>1 DEF PlaneTypes, Take
  <2> QED
    BY <1>1, <2>1, <2>2 DEF PlaneTypes, roomVars
<1>3. CASE StopTake
  <2>1. /\ DeskSends(Msg("take-stop", deskTake))
        /\ UNCHANGED <<pageVars, linkUp, peerKnown, fatal, toClient, roomVars, deskVars, faults>>
    BY <1>3 DEF StopTake
  <2> QED
    BY <1>1, <2>1 DEF PlaneTypes, roomVars, deskVars
<1>4. CASE DeskReceives
  <2>1. /\ toClient["desk"] # <<>> /\ toClient' = [toClient EXCEPT !["desk"] = Tail(@)]
        /\ UNCHANGED <<pageVars, linkUp, peerKnown, fatal, roomVars, lastTake, disarmedFor, faults>>
    BY <1>4 DEF DeskReceives
  <2>2. toClient' \in [Client -> Seq(Notice)] /\ Head(toClient["desk"]) \in Notice
    BY <2>1, SocketTypes
  <2>3. Head(toClient["desk"]).val \in Take
    BY <2>2 DEF Notice
  <2>4. /\ deskTake' \in Take /\ deskStart' \in Take
        /\ DeskSends(Msg("take-start", deskStart)) \/ UNCHANGED toRoom
    BY <1>4, <2>3 DEF DeskReceives, DeskWelcome, DeskTakeStop, PlaneTypes
  <2>5. toRoom' \in Seq(Command)
    BY <1>1, <2>4 DEF PlaneTypes
  <2> QED
    BY <2>1, <2>2, <2>4, <2>5 DEF PlaneTypes, roomVars
<1> QED
  BY <1>2, <1>3, <1>4

\* The room's steps, and its clients'.
LEMMA RoomTypes == ASSUME PlaneTypes, RoomHandles \/ FanOut \/ \E c \in Client : Hello(c) \/ Welcome(c) \/ Cut(c)
                   PROVE  PlaneTypes' /\ UNCHANGED pageVars
<1> USE Numbers
<1>1. CASE RoomHandles
  <2>1. /\ toRoom # <<>> /\ toRoom' = Tail(toRoom) /\ fanouts' = Append(fanouts, Head(toRoom))
        /\ roomTake' \in {roomTake, Head(toRoom).val, NoTake}
        /\ UNCHANGED <<pageVars, linkUp, peerKnown, fatal, toClient, peers, welcoming, deskVars, faults>>
    BY <1>1 DEF RoomHandles
  <2>2. toRoom' \in Seq(Command) /\ Head(toRoom) \in Command
    BY <2>1, Departed DEF PlaneTypes
  <2>3. fanouts' \in Seq(Command) /\ Head(toRoom).val \in Take
    BY <2>1, <2>2, Joined DEF PlaneTypes, Command
  <2> QED
    BY <2>1, <2>2, <2>3 DEF PlaneTypes, deskVars
<1>2. CASE FanOut
  <2>1. /\ fanouts # <<>> /\ fanouts' = Tail(fanouts)
        /\ toClient' = [c \in Client |-> IF c \in peers THEN Append(toClient[c], Head(fanouts)) ELSE toClient[c]]
        /\ UNCHANGED <<pageVars, linkUp, peerKnown, fatal, toRoom, peers, welcoming, roomTake, deskVars, faults>>
    BY <1>2 DEF FanOut
  <2>2. fanouts' \in Seq(Command) /\ Head(fanouts) \in Notice
    BY <2>1, Departed, Words DEF PlaneTypes
  <2>3. \A c \in Client : toClient[c] \in Seq(Notice) /\ Append(toClient[c], Head(fanouts)) \in Seq(Notice)
    BY <2>2, Joined DEF PlaneTypes
  <2> QED
    BY <2>1, <2>2, <2>3 DEF PlaneTypes, deskVars
<1>3. ASSUME NEW c \in Client, Hello(c) PROVE PlaneTypes' /\ UNCHANGED pageVars
  BY <1>3 DEF Hello, PlaneTypes, deskVars
<1>4. ASSUME NEW c \in Client, Welcome(c) PROVE PlaneTypes' /\ UNCHANGED pageVars
  <2>1. /\ welcoming' = welcoming \ {c} /\ toClient' = [toClient EXCEPT ![c] = Append(@, Msg("welcome", roomTake))]
        /\ UNCHANGED <<pageVars, linkUp, peerKnown, fatal, toRoom, peers, roomTake, fanouts, stopped, deskVars, faults>>
    BY <1>4 DEF Welcome
  <2>2. Msg("welcome", roomTake) \in Notice
    BY Words DEF PlaneTypes
  <2>3. toClient' \in [Client -> Seq(Notice)]
    BY <2>1, <2>2, SocketTypes
  <2> QED
    BY <2>1, <2>3 DEF PlaneTypes, deskVars
<1>5. ASSUME NEW c \in Client, Cut(c) PROVE PlaneTypes' /\ UNCHANGED pageVars
  <2>1. LinksLost({c}) /\ {c} \in SUBSET Client
    BY <1>5 DEF Cut
  <2>2. /\ linkUp' \in [Client -> BOOLEAN] /\ peerKnown' \in BOOLEAN
        /\ toRoom' \in Seq(Command) /\ toClient' \in [Client -> Seq(Notice)]
    BY <2>1, LinkTypes
  <2> QED
    BY <1>5, <2>2 DEF Cut, Fault, PlaneTypes, deskVars
<1> QED
  BY <1>1, <1>2, <1>3, <1>4, <1>5

\* The rest leaves the plane as it is, or loses links.
LEMMA OtherTypes == ASSUME PlaneTypes, RecorderReceives \/ PageRuns \/ SinksSettle \/ ChangeInput \/ TakeOver \/ EnableMic
                                         \/ Crash \/ Supersede
                    PROVE  PlaneTypes'
<1> USE Numbers
<1>1. CASE RecorderReceives
  <2>1. /\ toClient["recorder"] # <<>> /\ toClient' = [toClient EXCEPT !["recorder"] = Tail(@)]
        /\ peerKnown' = (peerKnown \/ Head(toClient["recorder"]).type = "welcome")
        /\ UNCHANGED <<linkUp, fatal, toRoom, roomVars, deskVars, faults>>
    BY <1>1 DEF RecorderReceives
  <2>2. toClient' \in [Client -> Seq(Notice)]
    BY <2>1, SocketTypes DEF Client
  <2>3. peerKnown' \in BOOLEAN
    BY <2>1
  <2> QED
    BY <2>1, <2>2, <2>3 DEF PlaneTypes, roomVars, deskVars
<1>2. CASE PageRuns \/ SinksSettle \/ ChangeInput \/ EnableMic
  BY <1>2 DEF PageRuns, SinksSettle, ChangeInput, EnableMic, PlaneTypes, linkVars, roomVars, deskVars
<1>3. CASE TakeOver
  BY <1>3 DEF TakeOver, PlaneTypes, roomVars, deskVars
<1>4. CASE Crash \/ Supersede
  <2>0. <<>> \in Seq(Command) /\ {"recorder"} \in SUBSET Client /\ Client \in SUBSET Client
    BY DEF Client
  <2>1. /\ \E C \in SUBSET Client : LinksLost(C)
        /\ faults' \in Nat /\ fatal' \in BOOLEAN /\ peers' \subseteq Client /\ welcoming' \subseteq Client
        /\ roomTake' \in {NoTake, roomTake} /\ fanouts' \in Seq(Command) /\ UNCHANGED deskVars
    <3>1. CASE Crash
      <4>1. /\ LinksLost(Client) /\ faults' = faults + 1 /\ peers' = {} /\ welcoming' = {} /\ roomTake' = NoTake
            /\ fanouts' = <<>> /\ fatal' = fatal /\ UNCHANGED deskVars
        BY <3>1 DEF Crash, Fault
      <4> QED
        BY <2>0, <4>1 DEF PlaneTypes
    <3>2. CASE Supersede
      <4>1. /\ LinksLost({"recorder"}) /\ faults' = faults + 1 /\ peers' = peers \ {"recorder"}
            /\ welcoming' = welcoming \ {"recorder"} /\ roomTake' = roomTake
            /\ fanouts' = fanouts /\ fatal' = TRUE /\ UNCHANGED deskVars
        BY <3>2 DEF Supersede, Fault
      <4> QED
        BY <2>0, <4>1 DEF PlaneTypes
    <3> QED
      BY <1>4, <3>1, <3>2
  <2>2. /\ linkUp' \in [Client -> BOOLEAN] /\ peerKnown' \in BOOLEAN
        /\ toRoom' \in Seq(Command) /\ toClient' \in [Client -> Seq(Notice)]
    BY <2>1, LinkTypes
  <2> QED
    BY <2>1, <2>2 DEF PlaneTypes, deskVars
<1> QED
  BY <1>1, <1>2, <1>3, <1>4

\* Every step keeps the types.
LEMMA PlaneKeeps == PlaneInv /\ [Next]_vars => PlaneInv'
<1> SUFFICES ASSUME PlaneInv, [Next]_vars PROVE PlaneInv'
  OBVIOUS
<1>1. PageTypes /\ PlaneTypes /\ ArmsAreStreams /\ PublishedIsReported
  BY DEF PlaneInv
<1>2. ASSUME UNCHANGED pageVars PROVE PageTypes' /\ ArmsAreStreams' /\ PublishedIsReported'
  BY <1>1, <1>2 DEF PageTypes, MainTypes, ArmsAreStreams, PublishedIsReported, pageVars, sessionVars, latchVars, inputVars,
                    reportVars, workerVars, queueVars
<1>3. CASE UNCHANGED vars
  BY <1>1, <1>2, <1>3 DEF PlaneInv, PlaneTypes, vars, linkVars, roomVars, deskVars
<1>4. CASE StartTake \/ StopTake \/ DeskReceives
  BY <1>1, <1>2, <1>4, DeskTypes DEF PlaneInv
<1>5. CASE RoomHandles \/ FanOut \/ \E c \in Client : Hello(c) \/ Welcome(c) \/ Cut(c)
  BY <1>1, <1>2, <1>5, RoomTypes DEF PlaneInv
<1>6. ASSUME RecorderReceives PROVE PlaneInv'
  <2>1. toClient["recorder"] # <<>> /\ Head(toClient["recorder"]).val \in Take
    BY <1>1, <1>6, SocketTypes DEF RecorderReceives, Client, Notice
  <2>2. PICK m \in Notice : /\ m.val \in Take
                            /\ \/ UNCHANGED pageVars
                               \/ \E disarmed \in BOOLEAN : OnTakeStart(m.val, disarmed, Online)
                               \/ OnTakeStop(m.val, Online)
    BY <1>1, <1>6, <2>1, SocketTypes DEF RecorderReceives, Client, Notice, IsDisarmed
  <2>3. \/ UNCHANGED pageVars
        \/ /\ sittingOut' \in Take
           /\ UNCHANGED <<activeTake, takeOf, pipeline, latchVars, inputVars, reportVars, workerVars, queueVars>>
        \/ SessionArm(m.val, Online)
        \/ /\ activeTake' = NoTake /\ (sittingOut' = sittingOut \/ sittingOut' = NoTake)
           /\ ControllerStop(Len(takeOf), Online)
           /\ UNCHANGED <<takeOf, pipeline, workerReady, inputVars, workerVars, toMain>>
    BY <2>2, Numbers, <1>1 DEF OnTakeStart, OnTakeStop, PageTypes
  <2>4. PageTypes' /\ ArmsAreStreams' /\ PublishedIsReported'
    <3>1. CASE UNCHANGED pageVars
      BY <1>2, <3>1
    <3>2. CASE /\ sittingOut' \in Take
               /\ UNCHANGED <<activeTake, takeOf, pipeline, latchVars, inputVars, reportVars, workerVars, queueVars>>
      BY <1>1, <3>2 DEF PageTypes, MainTypes, ArmsAreStreams, PublishedIsReported, latchVars, inputVars, reportVars,
                        workerVars, queueVars
    <3>3. CASE SessionArm(m.val, Online)
      BY <1>1, <2>2, <3>3, Armed, ArmedStreams
    <3>4. CASE /\ activeTake' = NoTake /\ (sittingOut' = sittingOut \/ sittingOut' = NoTake)
               /\ ControllerStop(Len(takeOf), Online)
               /\ UNCHANGED <<takeOf, pipeline, workerReady, inputVars, workerVars, toMain>>
      BY <1>1, <2>2, <3>4, Halted, ArmedStreams
    <3> QED
      BY <2>3, <3>1, <3>2, <3>3, <3>4
  <2> QED
    BY <1>1, <1>6, <2>4, OtherTypes DEF PlaneInv
<1>7. CASE PageRuns
  BY <1>1, <1>7, WorkerTypes, AnswerTypes, PipelineTypes, OtherTypes DEF PageRuns, PageStep, PlaneInv
<1>8. CASE SinksSettle
  BY <1>1, <1>8, WorkerTypes, OtherTypes DEF SinksSettle, PlaneInv
<1>9. CASE ChangeInput \/ TakeOver \/ EnableMic \/ Crash \/ Supersede
  <2>1. \/ UNCHANGED pageVars
        \/ HaltForFatal \/ StartCapture \/ BeginSwitch \/ EndSwitch(Online)
    BY <1>9 DEF ChangeInput, TakeOver, EnableMic, Crash, Supersede
  <2> QED
    BY <1>1, <1>2, <1>9, <2>1, PipelineTypes, OtherTypes DEF PlaneInv
<1> QED
  BY <1>3, <1>4, <1>5, <1>6, <1>7, <1>8, <1>9 DEF Next

\* The types hold at the start.
LEMMA PlaneStarts == Init => PlaneInv
<1> SUFFICES ASSUME Init PROVE PlaneInv
  OBVIOUS
<1> USE Numbers
<1>0. <<>> \in Seq(Take) /\ <<>> \in Seq(ToWorkerMsg) /\ <<>> \in Seq(ToMainMsg) /\ <<>> \in Seq(Command)
      /\ <<>> \in Seq(Notice) /\ Len(<<>>) = 0 /\ 1 .. 0 = {}
  OBVIOUS
<1>1. PageTypes
  <2>1. MainTypes
    BY <1>0 DEF Init, PageInit, MainTypes
  <2>2. takeOf \in Seq(Take) /\ Len(takeOf) <= MaxStream /\ toWorker \in Seq(ToWorkerMsg)
    BY <1>0 DEF Init, PageInit
  <2>3. finalOf \in [1 .. MaxStream -> Final]
    BY DEF Init, PageInit
  <2>4. /\ activeTake = NoTake /\ sittingOut = NoTake /\ stopping = NoStream /\ pendingArm = NoStream
        /\ queued = NoStream /\ snapStats = NoStream /\ engine = NoEngine /\ pipeline = "on"
        /\ switching = "no" /\ device = 0 /\ snapFinal = NoFinal
        /\ workerReady = FALSE /\ stopIsCurrent = FALSE /\ takeOpen = FALSE /\ booted = FALSE
    BY DEF Init, PageInit
  <2> QED
    BY <2>1, <2>2, <2>3, <2>4 DEF PageTypes
<1>2. PlaneTypes
  <2>1. linkUp \in [Client -> BOOLEAN] /\ toClient \in [Client -> Seq(Notice)]
    BY <1>0 DEF Init
  <2>2. /\ roomTake = NoTake /\ deskTake = NoTake /\ deskStart = NoTake /\ lastTake = 0 /\ peers = {} /\ welcoming = {}
        /\ peerKnown = FALSE /\ fatal = FALSE /\ toRoom = <<>> /\ fanouts = <<>> /\ faults = 0
    BY DEF Init
  <2>3. 0 \in Take
    BY DEF NoTake
  <2> QED
    BY <1>0, <2>1, <2>2, <2>3 DEF PlaneTypes
<1>3. ArmsAreStreams /\ PublishedIsReported
  BY DEF Init, PageInit, ArmsAreStreams, PublishedIsReported
<1> QED
  BY <1>1, <1>2, <1>3 DEF PlaneInv
-----------------------------------------------------------------------------
\* Indices when a queue is joined or left.
LEMMA WorkerGets == ASSUME PageTypes, NEW m \in ToWorkerMsg, toWorker' = Append(toWorker, m), NEW n, n = Len(toWorker) + 1
                    PROVE  /\ n \in Nat /\ toWorker'[n] = m
                           /\ Arms \subseteq Nat \ {0} /\ Halts \subseteq Nat \ {0}
                           /\ Arms' = IF m.type = "arm" THEN Arms \cup {n} ELSE Arms
                           /\ Halts' = IF m.type = "stop" THEN Halts \cup {n} ELSE Halts
                           /\ \A i \in Arms \cup Halts : i < n /\ toWorker'[i] = toWorker[i]
<1>1. /\ Len(toWorker) \in Nat /\ Len(toWorker') = n
      /\ toWorker'[n] = m /\ \A i \in 1 .. Len(toWorker) : toWorker'[i] = toWorker[i]
  BY Joined DEF PageTypes
<1>2. 1 .. n = (1 .. Len(toWorker)) \cup {n} /\ \A i \in 1 .. Len(toWorker) : i < n /\ i \in Nat \ {0}
  BY <1>1
<1>3. m.type \in {"arm", "stop"}
  BY DEF ToWorkerMsg
<1> QED
  BY <1>1, <1>2, <1>3 DEF Arms, Halts

LEMMA WorkerTakes == ASSUME PageTypes, toWorker # <<>>, toWorker' = Tail(toWorker)
                     PROVE  /\ Head(toWorker) = toWorker[1] /\ toWorker[1] \in ToWorkerMsg
                            /\ Arms \subseteq Nat \ {0} /\ Halts \subseteq Nat \ {0}
                            /\ Arms' \subseteq Nat \ {0} /\ Halts' \subseteq Nat \ {0}
                            /\ 1 \in Arms <=> toWorker[1].type = "arm"
                            /\ 1 \in Halts <=> toWorker[1].type = "stop"
                            /\ \A i \in Arms' : i + 1 \in Arms /\ toWorker'[i] = toWorker[i + 1]
                            /\ \A i \in Halts' : i + 1 \in Halts
                            /\ \A i \in Arms : i # 1 => i - 1 \in Arms'
                            /\ \A i \in Halts : i # 1 => i - 1 \in Halts'
<1>1. /\ Len(toWorker) \in Nat \ {0} /\ Len(toWorker') = Len(toWorker) - 1
      /\ Head(toWorker) = toWorker[1] /\ toWorker[1] \in ToWorkerMsg
      /\ \A i \in 1 .. Len(toWorker') : toWorker'[i] = toWorker[i + 1]
  BY Departed DEF PageTypes
<1>2. /\ 1 \in 1 .. Len(toWorker)
      /\ \A i \in 1 .. Len(toWorker') : i \in Nat \ {0} /\ i + 1 \in 1 .. Len(toWorker)
      /\ \A i \in 1 .. Len(toWorker) : i \in Nat \ {0} /\ (i # 1 => i - 1 \in 1 .. Len(toWorker') /\ (i - 1) + 1 = i)
  BY <1>1
<1> QED
  BY <1>1, <1>2 DEF Arms, Halts

LEMMA MainGets == ASSUME PageTypes, NEW m \in ToMainMsg, toMain' = Append(toMain, m), NEW n, n = Len(toMain) + 1, NEW type
                  PROVE  /\ n \in Nat /\ toMain'[n] = m /\ Answers(type) \subseteq Nat \ {0}
                         /\ Answers(type)' = IF m.type = type THEN Answers(type) \cup {n} ELSE Answers(type)
                         /\ \A i \in Answers(type) : i < n /\ toMain'[i] = toMain[i]
<1>1. /\ Len(toMain) \in Nat /\ Len(toMain') = n
      /\ toMain'[n] = m /\ \A i \in 1 .. Len(toMain) : toMain'[i] = toMain[i]
  BY Joined DEF PageTypes, MainTypes
<1>2. 1 .. n = (1 .. Len(toMain)) \cup {n} /\ \A i \in 1 .. Len(toMain) : i < n /\ i \in Nat \ {0}
  BY <1>1
<1> QED
  BY <1>1, <1>2 DEF Answers

LEMMA MainTakes == ASSUME PageTypes, toMain # <<>>, toMain' = Tail(toMain), NEW type
                   PROVE  /\ Head(toMain) = toMain[1] /\ toMain[1] \in ToMainMsg
                          /\ Answers(type) \subseteq Nat \ {0} /\ Answers(type)' \subseteq Nat \ {0}
                          /\ 1 \in Answers(type) <=> toMain[1].type = type
                          /\ \A i \in Answers(type)' : i + 1 \in Answers(type) /\ toMain'[i] = toMain[i + 1]
                          /\ \A i \in Answers(type) : i # 1 => i - 1 \in Answers(type)' /\ toMain'[i - 1] = toMain[i]
<1>1. /\ Len(toMain) \in Nat \ {0} /\ Len(toMain') = Len(toMain) - 1
      /\ Head(toMain) = toMain[1] /\ toMain[1] \in ToMainMsg
      /\ \A i \in 1 .. Len(toMain') : toMain'[i] = toMain[i + 1]
  BY Departed DEF PageTypes, MainTypes
<1>2. /\ 1 \in 1 .. Len(toMain)
      /\ \A i \in 1 .. Len(toMain') : i \in Nat \ {0} /\ i + 1 \in 1 .. Len(toMain)
      /\ \A i \in 1 .. Len(toMain) : i \in Nat \ {0} /\ (i # 1 => i - 1 \in 1 .. Len(toMain') /\ (i - 1) + 1 = i)
  BY <1>1
<1> QED
  BY <1>1, <1>2 DEF Answers

\* Streams are numbers.
LEMMA PageNumbers == ASSUME PageTypes
                     PROVE  /\ engine.stream \in Stream /\ engine.stream \in Nat /\ queued \in Nat /\ pendingArm \in Nat
                            /\ snapStats \in Nat /\ stopping \in Nat /\ Len(takeOf) \in Nat
                            /\ (takeOf = <<>> <=> Len(takeOf) = 0)
                            /\ \A i \in Arms : toWorker[i].val \in Nat /\ i \in Nat \ {0}
                            /\ \A i \in Halts : i \in Nat \ {0}
                            /\ engine.stream # NoStream => engine.stream \in 1 .. MaxStream
                            /\ Streaming => engine.stream # NoStream
<1> USE Numbers
<1>1. engine.stream \in Stream /\ engine.stream \in Nat /\ (Streaming => engine.stream # NoStream)
  <2>1. CASE engine = NoEngine
    BY <2>1 DEF NoEngine, Streaming
  <2>2. CASE engine \in [stream : Stream \ {NoStream}, state : {"streaming", "draining", "closed"}]
    BY <2>2
  <2> QED
    BY <2>1, <2>2 DEF PageTypes
<1>2. engine.stream # NoStream => engine.stream \in 1 .. MaxStream
  BY <1>1 DEF Stream, NoStream
<1>3. queued \in Nat /\ pendingArm \in Nat /\ snapStats \in Nat /\ stopping \in Nat
  BY DEF PageTypes
<1>4. Len(takeOf) \in Nat /\ (takeOf = <<>> <=> Len(takeOf) = 0)
  BY Silent DEF PageTypes
<1>5. Len(toWorker) \in Nat /\ \A i \in 1 .. Len(toWorker) : toWorker[i] \in ToWorkerMsg
  BY DEF PageTypes
<1>6. \A i \in 1 .. Len(toWorker) : toWorker[i].val \in Nat /\ i \in Nat \ {0}
  <2>1. \A m \in ToWorkerMsg : m.val \in Stream
    BY DEF ToWorkerMsg
  <2>2. \A m \in ToWorkerMsg : m.val \in Nat
    BY <2>1
  <2> QED
    BY <1>5, <2>2
<1> QED
  BY <1>1, <1>2, <1>3, <1>4, <1>6 DEF Arms, Halts

\* The engine starts on a newer stream: the answer to the arm keeps the stats apart.
LEMMA EngineArms == ASSUME PlaneInv, FaultFreeInv, NEW v \in Stream \ {NoStream}, engine.stream < v, DoArm(v),
                           UNCHANGED <<reportVars, finalOf>>
                    PROVE  /\ Streaming' /\ engine'.stream = v
                           /\ StatsInOrder' /\ FinalsStand' /\ (ReportIsOver => ReportIsOver')
                           /\ Answers("stopped")' = Answers("stopped")
                           /\ \A i \in Answers("stopped") : toMain'[i] = toMain[i]
<1> USE Numbers
<1> DEFINE m == Msg("armed", v)
           n == Len(toMain) + 1
<1>1. m \in ToMainMsg /\ m.type = "armed" /\ toMain' = Append(toMain, m)
  BY DEF Msg, ToMainMsg, DoArm
<1>2. engine' = [stream |-> v, state |-> "streaming"]
  BY DEF DoArm
<1>3. PageTypes
  BY DEF PlaneInv
<1> HIDE DEF m, n
<1>4. n = Len(toMain) + 1
  BY DEF n
<1>5. /\ n \in Nat /\ Answers("armed")' = Answers("armed") \cup {n} /\ \A i \in Answers("armed") : i < n
  BY <1>1, <1>3, <1>4, MainGets
<1>6. Answers("stats")' = Answers("stats") /\ \A i \in Answers("stats") : i < n /\ toMain'[i] = toMain[i]
  BY <1>1, <1>3, <1>4, MainGets
<1>7. Answers("stopped")' = Answers("stopped") /\ \A i \in Answers("stopped") : toMain'[i] = toMain[i]
  BY <1>1, <1>3, <1>4, MainGets
<1>8. Streaming' /\ engine'.stream = v /\ v # NoStream
  BY <1>2 DEF Streaming
<1>9. StatsInOrder'
  BY <1>5, <1>6, <1>7, <1>8 DEF StatsInOrder, reportVars
<1>10. ReportIsOver => ReportIsOver'
  BY <1>5, <1>6, <1>8 DEF ReportIsOver, reportVars
<1>11. FinalsStand'
  <2>1. v \in 1 .. MaxStream /\ engine.stream \in Nat
    BY <1>3 DEF Stream, NoStream, PageTypes, NoEngine
  <2> QED
    BY <2>1, <1>8 DEF FaultFreeInv, PageSide, FinalsStand, reportVars
<1> QED
  BY <1>7, <1>8, <1>9, <1>10, <1>11

\* The worker takes an arm: it waits behind the engine, or is the engine's.
LEMMA ArmStep == ASSUME PlaneInv, FaultFreeInv, WorkerArm, UNCHANGED <<linkVars, roomVars, deskVars>>
                 PROVE  PageSide'
<1> USE Numbers
<1> DEFINE v == toWorker[1].val
<1>1. /\ toWorker # <<>> /\ toWorker' = Tail(toWorker) /\ Head(toWorker).type = "arm"
      /\ UNCHANGED <<sessionVars, pipeline, latchVars, inputVars, reportVars, booted, finalOf>>
  BY DEF WorkerArm
<1>2. PageTypes /\ ArmsAreStreams /\ PageSide
  BY DEF PlaneInv, FaultFreeInv
<1>3. /\ Head(toWorker) = toWorker[1] /\ toWorker[1] \in ToWorkerMsg
      /\ Arms \subseteq Nat \ {0} /\ Halts \subseteq Nat \ {0}
      /\ Arms' \subseteq Nat \ {0} /\ Halts' \subseteq Nat \ {0} /\ 1 \in Arms
      /\ \A i \in Arms' : i + 1 \in Arms /\ toWorker'[i] = toWorker[i + 1]
      /\ \A i \in Halts' : i + 1 \in Halts
      /\ \A i \in Arms : i # 1 => i - 1 \in Arms'
      /\ \A i \in Halts : i # 1 => i - 1 \in Halts'
  BY <1>1, <1>2, WorkerTakes
<1>4. 1 \notin Halts
  BY <1>1, <1>3 DEF Halts
<1>5. /\ v \in Stream \ {NoStream} /\ workerReady /\ engine.stream < v /\ queued < v /\ v <= Len(takeOf)
      /\ pendingArm = NoStream /\ takeOpen = TRUE
  BY <1>2, <1>3 DEF PageSide, ArmsInOrder, ArmsAreStreams, ToWorkerMsg, LatchCovers, PageTypes, Arms
<1>6. ~ Streaming /\ queued = NoStream
  <2>1. \A k \in Halts : ~ k < 1
    BY <1>3
  <2> QED
    BY <1>2, <1>3, <2>1 DEF PageSide, OneIsLive
<1>7. \/ queued' = v /\ UNCHANGED <<engine, toMain>>
      \/ DoArm(v) /\ queued' = queued
  BY <1>3 DEF WorkerArm
<1>8. /\ Answers("stopped")' = Answers("stopped") /\ \A i \in Answers("stopped") : toMain'[i] = toMain[i]
      /\ StatsInOrder' /\ FinalsStand' /\ (ReportIsOver => ReportIsOver')
      /\ \/ queued' = v /\ engine' = engine /\ Streaming' = Streaming
         \/ queued' = NoStream /\ Streaming' /\ engine'.stream = v
  <2>1. CASE queued' = v /\ UNCHANGED <<engine, toMain>>
    BY <1>1, <1>2, <2>1 DEF PageSide, Answers, StatsInOrder, FinalsStand, ReportIsOver, Streaming, reportVars
  <2>2. CASE DoArm(v) /\ queued' = queued
    BY <1>1, <1>5, <1>6, <2>2, EngineArms
  <2> QED
    BY <1>7, <2>1, <2>2
<1>9. engine.stream \in Nat /\ engine'.stream \in Nat /\ v \in Nat /\ Len(takeOf) \in Nat /\ takeOf' = takeOf
  BY <1>1, <1>2, <1>5, <1>8, PageNumbers DEF sessionVars
<1>x. \A i \in Arms : toWorker[i].val \in Nat
  BY <1>2, PageNumbers
<1> HIDE DEF v
<1>w. \A i \in Arms : i # 1 => v < toWorker[i].val
  BY <1>2, <1>3 DEF PageSide, ArmsInOrder, v
<1>10. PageUp'
  BY <1>1, <1>2 DEF PageSide, PageUp, linkVars
<1>11. ArmsInOrder'
  <2>1. /\ pendingArm' = NoStream /\ workerReady' = TRUE
    BY <1>1, <1>2, <1>5 DEF latchVars, PageTypes
  <2>2. engine'.stream <= Len(takeOf) /\ queued' <= Len(takeOf) /\ (queued' # NoStream => engine'.stream < queued')
    BY <1>5, <1>8, <1>9, <1>2 DEF PageSide, ArmsInOrder, NoStream
  <2>3. \A i \in Arms' : /\ engine'.stream < toWorker'[i].val /\ queued' < toWorker'[i].val
                         /\ toWorker'[i].val <= Len(takeOf)
    <3> SUFFICES ASSUME NEW i \in Arms' PROVE /\ engine'.stream < toWorker'[i].val /\ queued' < toWorker'[i].val
                                              /\ toWorker'[i].val <= Len(takeOf)
      OBVIOUS
    <3>1. i + 1 \in Arms /\ i + 1 # 1 /\ toWorker'[i] = toWorker[i + 1]
      BY <1>3
    <3>2. v < toWorker[i + 1].val /\ toWorker[i + 1].val \in Nat /\ toWorker[i + 1].val <= Len(takeOf)
      BY <3>1, <1>w, <1>x, <1>2 DEF PageSide, ArmsInOrder
    <3> QED
      BY <3>1, <3>2, <1>5, <1>8, <1>9, <1>x DEF NoStream
  <2>4. \A i, j \in Arms' : i < j => toWorker'[i].val < toWorker'[j].val
    <3> SUFFICES ASSUME NEW i \in Arms', NEW j \in Arms', i < j PROVE toWorker'[i].val < toWorker'[j].val
      OBVIOUS
    <3>1. i + 1 \in Arms /\ j + 1 \in Arms /\ i + 1 < j + 1
      BY <1>3
    <3> QED
      BY <3>1, <1>3, <1>2 DEF PageSide, ArmsInOrder
  <2> QED
    BY <2>1, <2>2, <2>3, <2>4, <1>9 DEF ArmsInOrder
<1>12. StopAlone'
  <2>1. StopComing' = StopComing
    BY DEF StopComing, StopUp, Stops, toRecorder, linkVars, roomVars
  <2>2. \A i, j \in Halts' : i = j
    <3> SUFFICES ASSUME NEW i \in Halts', NEW j \in Halts' PROVE i = j
      OBVIOUS
    <3>1. i + 1 \in Halts /\ j + 1 \in Halts /\ i \in Nat /\ j \in Nat
      BY <1>3
    <3>2. i + 1 = j + 1
      BY <3>1, <1>2 DEF PageSide, StopAlone
    <3> QED
      BY <3>1, <3>2
  <2>3. Halts = {} => Halts' = {}
    BY <1>3
  <2> QED
    BY <2>1, <2>2, <2>3, <1>2, <1>8 DEF PageSide, StopAlone
<1>13. NewestIsLive'
  <2> SUFFICES ASSUME activeTake' # NoTake PROVE NewestIsLive'
    BY DEF NewestIsLive
  <2>1. activeTake # NoTake /\ takeOf' = takeOf
    BY <1>1 DEF sessionVars
  <2>2. takeOf # <<>> /\ Len(takeOf) # NoStream
    BY <1>2, <2>1, Silent DEF PageSide, NewestIsLive, PageTypes, NoStream
  <2>3. PICK i \in Arms : toWorker[i].val = Len(takeOf) /\ \A j \in Halts : j < i
    BY <1>2, <1>5, <1>6, <2>1, <2>2 DEF PageSide, NewestIsLive
  <2>4. CASE i = 1
    <3>1. Halts' = {} /\ v = Len(takeOf)
      BY <2>3, <2>4, <1>3 DEF v
    <3> QED
      BY <1>8, <2>1, <2>2, <3>1 DEF NewestIsLive
  <2>5. CASE i # 1
    <3>1. i - 1 \in Arms' /\ toWorker'[i - 1] = toWorker[(i - 1) + 1] /\ (i - 1) + 1 = i
      BY <1>3, <2>5
    <3>2. \A j \in Halts' : j < i - 1
      BY <1>3, <2>3
    <3> QED
      BY <2>1, <2>2, <2>3, <3>1, <3>2 DEF NewestIsLive
  <2> QED
    BY <2>4, <2>5
<1>14. OneIsLive'
  <2>0. pendingArm' = NoStream /\ workerReady' = TRUE /\ activeTake' = activeTake
    BY <1>1, <1>2, <1>5 DEF latchVars, PageTypes, sessionVars
  <2>1. \A i, j \in Arms' : i < j => \E k \in Halts' : i < k /\ k < j
    <3> SUFFICES ASSUME NEW i \in Arms', NEW j \in Arms', i < j PROVE \E k \in Halts' : i < k /\ k < j
      OBVIOUS
    <3>1. i + 1 \in Arms /\ j + 1 \in Arms /\ i + 1 < j + 1 /\ i \in Nat /\ j \in Nat
      BY <1>3
    <3>2. PICK k \in Halts : i + 1 < k /\ k < j + 1
      BY <3>1, <1>2 DEF PageSide, OneIsLive
    <3>3. k - 1 \in Halts' /\ i < k - 1 /\ k - 1 < j
      BY <3>1, <3>2, <1>3
    <3> QED
      BY <3>3
  <2>2. \A i \in Arms' : \E k \in Halts' : k < i
    <3> SUFFICES ASSUME NEW i \in Arms' PROVE \E k \in Halts' : k < i
      OBVIOUS
    <3>1. i + 1 \in Arms /\ 1 < i + 1 /\ i \in Nat
      BY <1>3
    <3>2. PICK k \in Halts : 1 < k /\ k < i + 1
      BY <3>1, <1>3, <1>2 DEF PageSide, OneIsLive
    <3>3. k - 1 \in Halts' /\ k - 1 < i
      BY <3>1, <3>2, <1>3
    <3> QED
      BY <3>3
  <2>3. Streaming' => queued' = NoStream
    BY <1>6, <1>8
  <2>4. activeTake = NoTake => Halts' # {} /\ \A i \in Arms' : \E k \in Halts' : i < k
    <3> SUFFICES ASSUME activeTake = NoTake PROVE Halts' # {} /\ \A i \in Arms' : \E k \in Halts' : i < k
      OBVIOUS
    <3>1. \A i \in Arms : \E k \in Halts : i < k
      BY <1>2 DEF PageSide, OneIsLive
    <3>2. PICK h \in Halts : 1 < h
      BY <3>1, <1>3
    <3>3. h - 1 \in Halts'
      BY <3>2, <1>3
    <3>4. ASSUME NEW i \in Arms' PROVE \E k \in Halts' : i < k
      <4>1. i + 1 \in Arms /\ i \in Nat \ {0}
        BY <1>3
      <4>2. PICK k \in Halts : i + 1 < k
        BY <3>1, <4>1
      <4>3. k - 1 \in Halts' /\ i < k - 1
        BY <4>1, <4>2, <1>3
      <4> QED
        BY <4>3
    <3> QED
      BY <3>3, <3>4
  <2> QED
    BY <2>0, <2>1, <2>2, <2>3, <2>4 DEF OneIsLive
<1>15. LatchCovers'
  BY <1>1, <1>2, <1>5 DEF PageSide, LatchCovers, latchVars, sessionVars
<1>16. AwaitedIsRight'
  <2>1. StopComing' = StopComing /\ (Halts = {} => Halts' = {})
    BY <1>3 DEF StopComing, StopUp, Stops, toRecorder, linkVars, roomVars
  <2>2. UNCHANGED <<stopping, snapFinal, snapStats, finalOf>>
    BY <1>1 DEF reportVars
  <2>3. \A i \in Halts' : stopping # NoStream /\
           \/ \E j \in Arms' : j < i /\ toWorker'[j].val = stopping
           \/ queued' = stopping
           \/ (Streaming' /\ engine'.stream = stopping)
    <3> SUFFICES ASSUME NEW i \in Halts'
                 PROVE  stopping # NoStream /\ (\/ \E j \in Arms' : j < i /\ toWorker'[j].val = stopping
                                                \/ queued' = stopping
                                                \/ (Streaming' /\ engine'.stream = stopping))
      OBVIOUS
    <3>1. i + 1 \in Halts /\ i \in Nat \ {0}
      BY <1>3
    <3>2. stopping # NoStream /\ \E j \in Arms : j < i + 1 /\ toWorker[j].val = stopping
      BY <3>1, <1>2, <1>6 DEF PageSide, AwaitedIsRight
    <3>3. PICK j \in Arms : j < i + 1 /\ toWorker[j].val = stopping
      BY <3>2
    <3>4. CASE j = 1
      BY <3>2, <3>3, <3>4, <1>8 DEF v
    <3>5. CASE j # 1
      <4>1. j - 1 \in Arms' /\ j - 1 < i /\ toWorker'[j - 1] = toWorker[(j - 1) + 1] /\ (j - 1) + 1 = j
        BY <3>1, <3>3, <3>5, <1>3
      <4> QED
        BY <3>2, <3>3, <4>1
    <3> QED
      BY <3>4, <3>5
  <2> QED
    BY <2>1, <2>2, <2>3, <1>2, <1>8 DEF PageSide, AwaitedIsRight
<1> QED
  BY <1>8, <1>10, <1>11, <1>12, <1>13, <1>14, <1>15, <1>16 DEF PageSide

\* A step that leaves the plane leaves its stops.
LEMMA PlaneRests == UNCHANGED <<linkVars, roomVars>> => StopComing' = StopComing
BY DEF StopComing, StopUp, Stops, toRecorder, linkVars, roomVars

\* The pump arms the stream that waited.
LEMMA PumpStep == ASSUME PlaneInv, FaultFreeInv, Pump, UNCHANGED <<linkVars, roomVars, deskVars>>
                  PROVE  PageSide'
<1> USE Numbers
<1>1. /\ queued # NoStream /\ engine.state = "closed" /\ DoArm(queued) /\ queued' = NoStream
      /\ UNCHANGED <<sessionVars, pipeline, latchVars, inputVars, reportVars, booted, finalOf, toWorker>>
  BY DEF Pump
<1>2. PageTypes /\ PageSide
  BY DEF PlaneInv, FaultFreeInv
<1>3. queued \in Stream \ {NoStream} /\ engine.stream < queued /\ workerReady
  BY <1>1, <1>2 DEF PageSide, ArmsInOrder, PageTypes
<1>4. /\ Streaming' /\ engine'.stream = queued
      /\ StatsInOrder' /\ FinalsStand' /\ (ReportIsOver => ReportIsOver')
      /\ Answers("stopped")' = Answers("stopped")
      /\ \A i \in Answers("stopped") : toMain'[i] = toMain[i]
  BY <1>1, <1>3, EngineArms
<1>5. Arms' = Arms /\ Halts' = Halts /\ ~ Streaming /\ toWorker' = toWorker
  BY <1>1 DEF Arms, Halts, Streaming
<1>6. StopComing' = StopComing
  BY PlaneRests
<1>7. PageUp'
  BY <1>1, <1>2 DEF PageSide, PageUp, linkVars
<1>8. ArmsInOrder'
  <2>1. takeOf' = takeOf /\ UNCHANGED <<pendingArm, workerReady>> /\ workerReady' /\ NoStream = 0
    BY <1>1, <1>3 DEF sessionVars, latchVars, NoStream
  <2>2. \A i \in Arms : NoStream < toWorker[i].val
    BY <2>1, <1>1, <1>2, <1>3, PageNumbers DEF PageSide, ArmsInOrder
  <2> QED
    BY <1>1, <1>2, <1>3, <1>4, <1>5, <2>1, <2>2, PageNumbers DEF PageSide, ArmsInOrder
<1>9. StopAlone'
  BY <1>2, <1>4, <1>5, <1>6 DEF PageSide, StopAlone
<1>10. NewestIsLive'
  BY <1>1, <1>2, <1>4, <1>5 DEF PageSide, NewestIsLive, sessionVars, latchVars
<1>11. OneIsLive'
  BY <1>1, <1>2, <1>3, <1>4, <1>5 DEF PageSide, OneIsLive, sessionVars, latchVars
<1>12. LatchCovers'
  BY <1>1, <1>2 DEF PageSide, LatchCovers, latchVars, sessionVars
<1>13. AwaitedIsRight'
  <2>1. UNCHANGED <<stopping, snapFinal, finalOf>>
    BY <1>1 DEF reportVars
  <2> QED
    BY <2>1, <1>1, <1>2, <1>4, <1>5, <1>6 DEF PageSide, AwaitedIsRight
<1> QED
  BY <1>4, <1>7, <1>8, <1>9, <1>10, <1>11, <1>12, <1>13 DEF PageSide

\* The worker reports that it is ready, or its stats.
LEMMA TalkStep == ASSUME PlaneInv, FaultFreeInv, WorkerBoots \/ SendStats, UNCHANGED <<linkVars, roomVars, deskVars>>
                  PROVE  PageSide'
<1> USE Numbers
<1>1. UNCHANGED <<sessionVars, pipeline, latchVars, inputVars, reportVars, engine, queued, finalOf, toWorker>>
  BY DEF WorkerBoots, SendStats, workerVars
<1>2. PageTypes /\ PageSide
  BY DEF PlaneInv, FaultFreeInv
<1>3. PICK m \in ToMainMsg : /\ toMain' = Append(toMain, m)
                             /\ m.type \in {"ready", "stats"} /\ m.val \in {0, engine.stream}
                             /\ m.type = "stats" => m.val = engine.stream
  BY <1>2, PageNumbers DEF WorkerBoots, SendStats, Msg, ToMainMsg, NoStream
<1> DEFINE n == Len(toMain) + 1
<1>n. n = Len(toMain) + 1
  OBVIOUS
<1> HIDE DEF n
<1>4. /\ n \in Nat /\ toMain'[n] = m
      /\ Answers("stats")' = (IF m.type = "stats" THEN Answers("stats") \cup {n} ELSE Answers("stats"))
      /\ \A i \in Answers("stats") : i < n /\ toMain'[i] = toMain[i]
  BY <1>2, <1>3, <1>n, MainGets
<1>5. Answers("armed")' = Answers("armed") /\ \A i \in Answers("armed") : i < n
  BY <1>2, <1>3, <1>n, MainGets
<1>6. Answers("stopped")' = Answers("stopped") /\ \A i \in Answers("stopped") : toMain'[i] = toMain[i]
  BY <1>2, <1>3, <1>n, MainGets
<1>7. Arms' = Arms /\ Halts' = Halts /\ Streaming' = Streaming /\ engine' = engine /\ queued' = queued /\ toWorker' = toWorker
  BY <1>1 DEF Arms, Halts, Streaming
<1>8. /\ UNCHANGED <<activeTake, takeOf, pipeline, workerReady, pendingArm, stopIsCurrent, takeOpen>>
      /\ UNCHANGED <<stopping, snapFinal, snapStats, sentFinals, finalOf>>
  BY <1>1 DEF sessionVars, latchVars, reportVars
<1>9. StopComing' = StopComing /\ fatal' = fatal
  BY PlaneRests DEF linkVars
<1>10. ReportIsOver => ReportIsOver'
  BY <1>3, <1>4, <1>5, <1>7, <1>8 DEF ReportIsOver
<1>11. StatsInOrder'
  BY <1>2, <1>3, <1>4, <1>5, <1>6, <1>7, <1>8 DEF PageSide, StatsInOrder
<1>12. AwaitedIsRight'
  BY <1>2, <1>6, <1>7, <1>8, <1>9, <1>10 DEF PageSide, AwaitedIsRight
<1>13. PageUp' /\ ArmsInOrder' /\ StopAlone'
  BY <1>2, <1>6, <1>7, <1>8, <1>9 DEF PageSide, PageUp, ArmsInOrder, StopAlone
<1>14. NewestIsLive' /\ OneIsLive' /\ LatchCovers' /\ FinalsStand'
  BY <1>2, <1>6, <1>7, <1>8, <1>9 DEF PageSide, NewestIsLive, OneIsLive, LatchCovers, FinalsStand
<1> QED
  BY <1>11, <1>12, <1>13, <1>14 DEF PageSide

\* Every sink has settled.
LEMMA CloseStep == ASSUME PlaneInv, FaultFreeInv, EngineCloses, UNCHANGED <<linkVars, roomVars, deskVars>>
                   PROVE  PageSide'
<1> USE Numbers
<1>1. /\ UNCHANGED <<sessionVars, pipeline, latchVars, inputVars, reportVars, queued, finalOf, toWorker, toMain>>
      /\ engine.state = "draining" /\ engine' = [engine EXCEPT !.state = "closed"]
  BY DEF EngineCloses, queueVars
<1>2. PageTypes /\ PageSide
  BY DEF PlaneInv, FaultFreeInv
<1>3. engine \in [stream : Stream \ {NoStream}, state : {"streaming", "draining", "closed"}]
  BY <1>1, <1>2 DEF PageTypes, NoEngine
<1>4. engine'.stream = engine.stream /\ ~ Streaming /\ ~ Streaming' /\ engine # NoEngine
  BY <1>1, <1>3, EngineAdvances DEF Streaming, NoEngine
<1>5. Arms' = Arms /\ Halts' = Halts /\ queued' = queued /\ toWorker' = toWorker /\ toMain' = toMain
  BY <1>1 DEF Arms, Halts
<1>6. \A type : Answers(type)' = Answers(type)
  BY <1>1 DEF Answers
<1>7. /\ UNCHANGED <<activeTake, takeOf, pipeline, workerReady, pendingArm, stopIsCurrent, takeOpen>>
      /\ UNCHANGED <<stopping, snapFinal, snapStats, sentFinals, finalOf>>
  BY <1>1 DEF sessionVars, latchVars, reportVars
<1>8. StopComing' = StopComing /\ fatal' = fatal
  BY PlaneRests DEF linkVars
<1>9. workerReady
  BY <1>2, <1>4 DEF PageSide, ArmsInOrder
<1>10. PageUp' /\ ArmsInOrder' /\ StopAlone'
  BY <1>2, <1>4, <1>5, <1>6, <1>7, <1>8, <1>9 DEF PageSide, PageUp, ArmsInOrder, StopAlone
<1>11. NewestIsLive' /\ OneIsLive' /\ LatchCovers'
  BY <1>2, <1>4, <1>5, <1>7 DEF PageSide, NewestIsLive, OneIsLive, LatchCovers
<1>12. StatsInOrder' /\ FinalsStand' /\ (ReportIsOver => ReportIsOver')
  BY <1>2, <1>4, <1>5, <1>6, <1>7 DEF PageSide, StatsInOrder, FinalsStand, ReportIsOver
<1>13. AwaitedIsRight'
  BY <1>2, <1>4, <1>5, <1>6, <1>7, <1>8, <1>12 DEF PageSide, AwaitedIsRight
<1> QED
  BY <1>10, <1>11, <1>12, <1>13 DEF PageSide

\* The worker takes a stop: it drops the stream that waits, or ends the engine's.
LEMMA StopStep == ASSUME PlaneInv, FaultFreeInv, WorkerStop, UNCHANGED <<linkVars, roomVars, deskVars>>
                  PROVE  PageSide'
<1> USE Numbers
<1>1. /\ toWorker # <<>> /\ toWorker' = Tail(toWorker) /\ Head(toWorker).type = "stop"
      /\ UNCHANGED <<sessionVars, pipeline, latchVars, inputVars, reportVars, booted>>
  BY DEF WorkerStop
<1>2. PageTypes /\ PageSide
  BY DEF PlaneInv, FaultFreeInv
<1>3. /\ Head(toWorker) = toWorker[1]
      /\ Arms \subseteq Nat \ {0} /\ Halts \subseteq Nat \ {0}
      /\ Arms' \subseteq Nat \ {0} /\ Halts' \subseteq Nat \ {0}
      /\ 1 \in Halts /\ 1 \notin Arms
      /\ \A i \in Arms' : i + 1 \in Arms /\ toWorker'[i] = toWorker[i + 1]
      /\ \A i \in Halts' : i + 1 \in Halts
      /\ \A i \in Arms : i # 1 => i - 1 \in Arms'
  BY <1>1, <1>2, WorkerTakes
<1>4. Halts = {1} /\ Halts' = {}
  <2>1. \A i \in Halts : i = 1
    BY <1>2, <1>3 DEF PageSide, StopAlone
  <2>2. \A i \in Halts' : FALSE
    BY <2>1, <1>3
  <2> QED
    BY <2>1, <2>2, <1>3
<1>5. ~ StopComing /\ Answers("stopped") = {} /\ ReportIsOver /\ StopComing' = StopComing
  BY <1>2, <1>4, PlaneRests DEF PageSide, StopAlone, AwaitedIsRight
<1>6. stopping # NoStream /\ (queued = stopping \/ (Streaming /\ engine.stream = stopping))
  <2>1. \A j \in Arms : ~ j < 1
    BY <1>3
  <2> QED
    BY <2>1, <1>2, <1>3 DEF PageSide, AwaitedIsRight
<1>7. workerReady /\ pendingArm = NoStream
  BY <1>1, <1>2 DEF PageSide, OneIsLive, ArmsInOrder
<1>8. /\ UNCHANGED <<activeTake, takeOf, pipeline, workerReady, pendingArm, stopIsCurrent, takeOpen>>
      /\ UNCHANGED <<stopping, snapFinal, snapStats, sentFinals>> /\ fatal' = fatal
  BY <1>1 DEF sessionVars, latchVars, reportVars, linkVars
<1>9. PICK f \in Final : /\ toMain' = Append(toMain, Msg("stopped", f)) /\ queued' = NoStream
                         /\ ~ Streaming' /\ engine'.stream = engine.stream
                         /\ finalOf' \in [1 .. MaxStream -> Final]
                         /\ \A s \in 1 .. MaxStream : engine.stream # s => finalOf'[s] = finalOf[s]
                         /\ f # NoFinal => Streaming /\ engine.stream = stopping /\ finalOf'[engine.stream] = f
                         /\ f = NoFinal => finalOf' = finalOf
  <2>1. CASE queued # NoStream
    <3>1. /\ queued' = NoStream /\ toMain' = Append(toMain, Msg("stopped", NoFinal)) /\ UNCHANGED <<engine, finalOf>>
      BY <2>1 DEF WorkerStop
    <3>2. ~ Streaming
      BY <1>2, <2>1 DEF PageSide, OneIsLive
    <3> QED
      BY <3>1, <3>2, <1>2 DEF Streaming, PageTypes
  <2>2. CASE queued = NoStream
    <3>1. Streaming /\ engine.stream = stopping
      BY <1>6, <2>2
    <3>2. PICK f \in FinalSeqs : /\ engine' = [engine EXCEPT !.state = "draining"]
                                 /\ finalOf' = [finalOf EXCEPT ![engine.stream] = f]
                                 /\ toMain' = Append(toMain, Msg("stopped", f)) /\ UNCHANGED queued
      BY <2>2, <3>1 DEF WorkerStop
    <3>3. engine \in [stream : Stream \ {NoStream}, state : {"streaming", "draining", "closed"}]
      BY <3>1, <1>2 DEF PageTypes, NoEngine, Streaming
    <3>4. engine'.stream = engine.stream /\ engine'.state = "draining"
      BY <3>2, <3>3, EngineAdvances
    <3>5. f \in Final /\ f # NoFinal /\ engine.stream \in 1 .. MaxStream
      BY <3>1, <1>2, <1>6, PageNumbers DEF Final
    <3>6. finalOf \in [1 .. MaxStream -> Final]
      BY <1>2 DEF PageTypes
    <3>7. /\ finalOf' \in [1 .. MaxStream -> Final] /\ finalOf'[engine.stream] = f
          /\ \A s \in 1 .. MaxStream : engine.stream # s => finalOf'[s] = finalOf[s]
      BY <3>2, <3>5, <3>6
    <3> QED
      BY <3>1, <3>2, <3>4, <3>5, <3>7, <2>2 DEF Streaming
  <2> QED
    BY <2>1, <2>2
<1> DEFINE m == Msg("stopped", f)
           n == Len(toMain) + 1
<1>10. m \in ToMainMsg /\ m.type = "stopped" /\ m.val = f /\ toMain' = Append(toMain, m) /\ n = Len(toMain) + 1
  BY <1>9 DEF Msg, ToMainMsg
<1> HIDE DEF m, n
<1>11. n \in Nat /\ toMain'[n] = m /\ Answers("stopped")' = {n}
  BY <1>2, <1>5, <1>10, MainGets
<1>12. /\ Answers("stats")' = Answers("stats") /\ \A i \in Answers("stats") : toMain'[i] = toMain[i]
  BY <1>2, <1>10, MainGets
<1>13. Answers("armed")' = Answers("armed")
  BY <1>2, <1>10, MainGets
<1>14. ReportIsOver'
  BY <1>5, <1>8, <1>9, <1>12, <1>13 DEF ReportIsOver
<1>15. PageUp' /\ LatchCovers'
  <2>1. Arms = {} => Arms' = {}
    BY <1>3
  <2> QED
    BY <2>1, <1>2, <1>8, <1>9 DEF PageSide, PageUp, LatchCovers
<1>16. ArmsInOrder'
  <2>0. takeOf' = takeOf /\ pendingArm' = NoStream /\ workerReady' /\ NoStream = 0
    BY <1>7, <1>8 DEF NoStream
  <2>1. engine'.stream <= Len(takeOf) /\ queued' <= Len(takeOf) /\ queued' = NoStream
    BY <1>2, <1>9, <2>0, PageNumbers DEF PageSide, ArmsInOrder
  <2>2. ASSUME NEW i \in Arms' PROVE /\ engine'.stream < toWorker'[i].val /\ queued' < toWorker'[i].val
                                     /\ toWorker'[i].val <= Len(takeOf)
    <3>1. i + 1 \in Arms /\ toWorker'[i] = toWorker[i + 1]
      BY <1>3
    <3>2. /\ engine.stream < toWorker[i + 1].val /\ queued < toWorker[i + 1].val /\ toWorker[i + 1].val <= Len(takeOf)
          /\ toWorker[i + 1].val \in Nat /\ queued \in Nat
      BY <3>1, <1>2, PageNumbers DEF PageSide, ArmsInOrder
    <3> QED
      BY <3>1, <3>2, <1>9, <2>0
  <2>3. ASSUME NEW i \in Arms', NEW j \in Arms', i < j PROVE toWorker'[i].val < toWorker'[j].val
    <3>1. i + 1 \in Arms /\ j + 1 \in Arms /\ i + 1 < j + 1 /\ toWorker'[i] = toWorker[i + 1] /\ toWorker'[j] = toWorker[j + 1]
      BY <1>3, <2>3
    <3> QED
      BY <3>1, <1>2 DEF PageSide, ArmsInOrder
  <2> QED
    BY <2>0, <2>1, <2>2, <2>3 DEF ArmsInOrder
<1>17. StopAlone'
  BY <1>4, <1>5, <1>11 DEF StopAlone
<1>18. NewestIsLive'
  <2> SUFFICES ASSUME activeTake' # NoTake PROVE NewestIsLive'
    BY DEF NewestIsLive
  <2>1. /\ takeOf # <<>> /\ takeOf' = takeOf /\ Len(takeOf) # NoStream
        /\ \E i \in Arms : toWorker[i].val = Len(takeOf) /\ \A j \in Halts : j < i
    BY <1>2, <1>4, <1>7, <1>8, PageNumbers DEF PageSide, NewestIsLive, NoStream
  <2>2. PICK i \in Arms : toWorker[i].val = Len(takeOf) /\ 1 < i
    BY <2>1, <1>3
  <2>3. i - 1 \in Arms' /\ toWorker'[i - 1] = toWorker[(i - 1) + 1] /\ (i - 1) + 1 = i
    BY <2>2, <1>3
  <2> QED
    BY <2>1, <2>2, <2>3, <1>4 DEF NewestIsLive
<1>19. OneIsLive'
  <2>1. ASSUME NEW i \in Arms', NEW j \in Arms', i < j PROVE FALSE
    <3>1. i + 1 \in Arms /\ j + 1 \in Arms /\ i + 1 < j + 1 /\ i \in Nat \ {0}
      BY <1>3, <2>1
    <3>2. PICK k \in Halts : i + 1 < k
      BY <3>1, <1>2 DEF PageSide, OneIsLive
    <3> QED
      BY <3>1, <3>2, <1>4
  <2>2. ASSUME activeTake = NoTake, NEW i \in Arms' PROVE FALSE
    <3>1. i + 1 \in Arms /\ i \in Nat \ {0}
      BY <1>3
    <3>2. PICK k \in Halts : i + 1 < k
      BY <3>1, <2>2, <1>2 DEF PageSide, OneIsLive
    <3> QED
      BY <3>1, <3>2, <1>4
  <2> QED
    BY <2>1, <2>2, <1>7, <1>8, <1>9 DEF OneIsLive
<1>20. StatsInOrder'
  BY <1>2, <1>6, <1>8, <1>9, <1>10, <1>11, <1>12, <1>13 DEF PageSide, StatsInOrder
<1>21. AwaitedIsRight'
  BY <1>4, <1>6, <1>8, <1>9, <1>10, <1>11, <1>14 DEF AwaitedIsRight
<1>22. FinalsStand'
  <2>1. ASSUME NEW s \in 1 .. MaxStream, engine'.stream < s PROVE finalOf'[s] = NoFinal
    <3>1. engine.stream # s /\ finalOf[s] = NoFinal
      BY <2>1, <1>2, <1>9, PageNumbers DEF PageSide, FinalsStand
    <3> QED
      BY <3>1, <1>9
  <2>2. ASSUME NEW r \in sentFinals' PROVE r[1] \in 1 .. MaxStream /\ r[2] # NoFinal /\ finalOf'[r[1]] = r[2]
    <3>1. r[1] \in 1 .. MaxStream /\ r[2] # NoFinal /\ finalOf[r[1]] = r[2]
      BY <1>2, <1>8 DEF PageSide, FinalsStand
    <3>2. f = NoFinal \/ finalOf[engine.stream] = NoFinal
      BY <1>2, <1>9 DEF PageSide, FinalsStand
    <3> QED
      BY <3>1, <3>2, <1>9
  <2> QED
    BY <2>1, <2>2, <1>9 DEF FinalsStand
<1> QED
  BY <1>15, <1>16, <1>17, <1>18, <1>19, <1>20, <1>21, <1>22 DEF PageSide

\* The page has heard one message: what it says of the others.
LEMMA Heard == ASSUME PageTypes, PageSide, toMain # <<>>, toMain' = Tail(toMain)
               PROVE  /\ toMain[1] \in ToMainMsg /\ Head(toMain) = toMain[1]
                      /\ \A i \in Answers("stats")' : toMain'[i].val = engine.stream \/ \E j \in Answers("armed")' : i < j
                      /\ ReportIsOver /\ toMain[1].type # "armed" => ReportIsOver \/ snapFinal = NoFinal
                      /\ ReportIsOver /\ toMain[1].type # "armed" /\ snapFinal # NoFinal =>
                           /\ \A i \in Answers("stats")' : toMain'[i].val = snapStats \/ \E j \in Answers("armed")' : j < i
                           /\ engine.stream = snapStats \/ Answers("armed")' # {}
                           /\ toMain[1].type = "stats" => toMain[1].val = snapStats
                      /\ \A i \in Answers("stopped")' : i + 1 \in Answers("stopped") /\ toMain'[i] = toMain[i + 1]
                      /\ \A i, j \in Answers("stopped")' : i = j
                      /\ toMain[1].type = "stopped" => 1 \in Answers("stopped") /\ Answers("stopped")' = {}
                      /\ toMain[1].type # "stopped" /\ Answers("stopped")' = {} => Answers("stopped") = {}
<1>1. /\ toMain[1] \in ToMainMsg /\ Head(toMain) = toMain[1]
      /\ Answers("stats") \subseteq Nat \ {0} /\ Answers("stats")' \subseteq Nat \ {0}
      /\ 1 \in Answers("stats") <=> toMain[1].type = "stats"
      /\ \A i \in Answers("stats")' : i + 1 \in Answers("stats") /\ toMain'[i] = toMain[i + 1]
  BY MainTakes
<1>2. /\ Answers("armed") \subseteq Nat \ {0} /\ Answers("armed")' \subseteq Nat \ {0}
      /\ 1 \in Answers("armed") <=> toMain[1].type = "armed"
      /\ \A i \in Answers("armed") : i # 1 => i - 1 \in Answers("armed")'
  BY MainTakes
<1>3. /\ Answers("stopped") \subseteq Nat \ {0} /\ Answers("stopped")' \subseteq Nat \ {0}
      /\ 1 \in Answers("stopped") <=> toMain[1].type = "stopped"
      /\ \A i \in Answers("stopped")' : i + 1 \in Answers("stopped") /\ toMain'[i] = toMain[i + 1]
      /\ \A i \in Answers("stopped") : i # 1 => i - 1 \in Answers("stopped")'
  BY MainTakes
<1>4. ASSUME NEW i \in Answers("stats")' PROVE toMain'[i].val = engine.stream \/ \E j \in Answers("armed")' : i < j
  <2>1. i + 1 \in Answers("stats") /\ toMain'[i] = toMain[i + 1] /\ i \in Nat \ {0}
    BY <1>1
  <2>2. toMain[i + 1].val = engine.stream \/ \E j \in Answers("armed") : i + 1 < j
    BY <2>1 DEF PageSide, StatsInOrder
  <2>3. ASSUME NEW j \in Answers("armed"), i + 1 < j PROVE \E k \in Answers("armed")' : i < k
    <3>1. j - 1 \in Answers("armed")' /\ i < j - 1
      BY <2>1, <2>3, <1>2
    <3> QED
      BY <3>1
  <2> QED
    BY <2>1, <2>2, <2>3
<1>5. ASSUME ReportIsOver, toMain[1].type # "armed", snapFinal # NoFinal
      PROVE  /\ \A i \in Answers("stats")' : toMain'[i].val = snapStats \/ \E j \in Answers("armed")' : j < i
             /\ engine.stream = snapStats \/ Answers("armed")' # {}
             /\ toMain[1].type = "stats" => toMain[1].val = snapStats
  <2>1. 1 \notin Answers("armed")
    BY <1>2, <1>5
  <2>2. ASSUME NEW i \in Answers("stats")' PROVE toMain'[i].val = snapStats \/ \E j \in Answers("armed")' : j < i
    <3>1. i + 1 \in Answers("stats") /\ toMain'[i] = toMain[i + 1] /\ i \in Nat \ {0}
      BY <1>1
    <3>2. toMain[i + 1].val = snapStats \/ \E j \in Answers("armed") : j < i + 1
      BY <3>1, <1>5 DEF ReportIsOver
    <3>3. ASSUME NEW j \in Answers("armed"), j < i + 1 PROVE \E k \in Answers("armed")' : k < i
      <4>1. j - 1 \in Answers("armed")' /\ j - 1 < i
        BY <2>1, <3>1, <3>3, <1>2
      <4> QED
        BY <4>1
    <3> QED
      BY <3>1, <3>2, <3>3
  <2>3. engine.stream = snapStats \/ Answers("armed")' # {}
    BY <1>2, <1>5, <2>1 DEF ReportIsOver
  <2>4. toMain[1].type = "stats" => toMain[1].val = snapStats
    <3>1. \A j \in Answers("armed") : ~ j < 1
      BY <1>2
    <3> QED
      BY <3>1, <1>1, <1>5 DEF ReportIsOver
  <2> QED
    BY <2>2, <2>3, <2>4
<1>6. \A i, j \in Answers("stopped")' : i = j
  <2> SUFFICES ASSUME NEW i \in Answers("stopped")', NEW j \in Answers("stopped")' PROVE i = j
    OBVIOUS
  <2>1. i + 1 \in Answers("stopped") /\ j + 1 \in Answers("stopped") /\ i \in Nat /\ j \in Nat
    BY <1>3
  <2>2. i + 1 = j + 1
    BY <2>1 DEF PageSide, StopAlone
  <2> QED
    BY <2>1, <2>2
<1>7. toMain[1].type = "stopped" => 1 \in Answers("stopped") /\ Answers("stopped")' = {}
  <2> SUFFICES ASSUME toMain[1].type = "stopped" PROVE 1 \in Answers("stopped") /\ Answers("stopped")' = {}
    OBVIOUS
  <2>1. 1 \in Answers("stopped")
    BY <1>3
  <2>2. ASSUME NEW i \in Answers("stopped")' PROVE FALSE
    <3>1. i + 1 \in Answers("stopped") /\ i \in Nat \ {0}
      BY <1>3
    <3>2. i + 1 = 1
      BY <2>1, <3>1 DEF PageSide, StopAlone
    <3> QED
      BY <3>1, <3>2
  <2> QED
    BY <2>1, <2>2
<1>8. toMain[1].type # "stopped" /\ Answers("stopped")' = {} => Answers("stopped") = {}
  BY <1>3
<1> QED
  BY <1>1, <1>3, <1>4, <1>5, <1>6, <1>7, <1>8

\* What a publication adds to the finals that were sent.
LEMMA Reports == ASSUME PageTypes, FinalsStand, NEW final, NEW stats, NEW online,
                        Publish(final, stats, stopping, online),
                        \/ final = NoFinal \/ stopping = NoStream \/ finalOf[stopping] = final
                        \/ stats # NoStream /\ lastReported = <<stats, final>>,
                        UNCHANGED <<engine, finalOf>>
                 PROVE  /\ FinalsStand' /\ snapFinal' = final /\ snapStats' = stats
                        /\ stopping' \in {NoStream, stopping}
                        /\ final = NoFinal \/ (stats # NoStream /\ lastReported = <<stats, final>>) => stopping' = stopping
<1> USE Numbers
<1>1. /\ snapFinal' = final /\ snapStats' = stats
      /\ stopping' \in {NoStream, stopping}
      /\ final = NoFinal \/ (stats # NoStream /\ lastReported = <<stats, final>>)
           => stopping' = stopping /\ sentFinals' = sentFinals
      /\ \A r \in sentFinals' : \/ r \in sentFinals
                                \/ r = <<stopping, final>> /\ stopping # NoStream /\ final # NoFinal
  BY Published
<1>2. Streaming' = Streaming
  BY DEF Streaming
<1>3. ASSUME NEW r \in sentFinals' PROVE r[1] \in 1 .. MaxStream /\ r[2] # NoFinal /\ finalOf[r[1]] = r[2]
  <2>1. CASE r \in sentFinals
    BY <2>1 DEF FinalsStand
  <2>2. CASE r \notin sentFinals
    <3>1. r = <<stopping, final>> /\ stopping # NoStream /\ final # NoFinal
      BY <1>1, <2>2
    <3>2. stopping \in 1 .. MaxStream
      BY <3>1 DEF PageTypes, Stream, NoStream
    <3>3. finalOf[stopping] = final
      BY <1>1, <2>2, <3>1
    <3> QED
      BY <3>1, <3>2, <3>3
  <2> QED
    BY <2>1, <2>2
<1> QED
  BY <1>1, <1>2, <1>3 DEF FinalsStand

\* Publishing the snapshot again, for what the page does of its own.
LEMMA Republishes == ASSUME PlaneInv, PageSide, NEW online, Publish(snapFinal, snapStats, stopping, online),
                            UNCHANGED <<engine, finalOf>>
                     PROVE  /\ FinalsStand' /\ snapFinal' = snapFinal /\ snapStats' = snapStats
                            /\ stopping' \in {NoStream, stopping}
                            /\ ReportIsOver => stopping' = stopping
<1>1. /\ PageTypes /\ FinalsStand
      /\ snapFinal # NoFinal => ReportIsOver \/ stopping = NoStream \/ finalOf[stopping] = snapFinal
  BY DEF PlaneInv, PageSide, AwaitedIsRight
<1>2. ReportIsOver => snapFinal = NoFinal \/ (snapStats # NoStream /\ lastReported = <<snapStats, snapFinal>>)
  BY DEF PlaneInv, PublishedIsReported, ReportIsOver
<1> QED
  BY <1>1, <1>2, Reports

\* What an answer leaves alone.
LEMMA AnswerLeaves == ASSUME PageTypes, PageSide, fatal' = fatal,
                             UNCHANGED <<sessionVars, pipeline, pendingArm, stopIsCurrent, takeOpen,
                                         engine, queued, finalOf, toWorker>>,
                             workerReady' = workerReady \/ (workerReady' = TRUE /\ pendingArm = NoStream)
                      PROVE  /\ PageUp' /\ ArmsInOrder' /\ NewestIsLive' /\ OneIsLive' /\ LatchCovers'
                             /\ Arms' = Arms /\ Halts' = Halts /\ Streaming' = Streaming
<1>1. Arms' = Arms /\ Halts' = Halts /\ Streaming' = Streaming
  BY DEF Arms, Halts, Streaming
<1>2. UNCHANGED <<activeTake, takeOf>>
  BY DEF sessionVars
<1> QED
  BY <1>1, <1>2 DEF PageSide, PageUp, ArmsInOrder, NewestIsLive, OneIsLive, LatchCovers

\* The answer to an arm clears the final of the snapshot.
LEMMA ArmedStep == ASSUME PlaneInv, FaultFreeInv, NEW online, OnArmed(online), UNCHANGED <<linkVars, roomVars, deskVars>>
                   PROVE  PageSide'
<1> USE Numbers
<1>1. /\ toMain # <<>> /\ Head(toMain).type = "armed" /\ toMain' = Tail(toMain)
      /\ Publish(NoFinal, snapStats, stopping, online)
      /\ UNCHANGED <<sessionVars, pipeline, latchVars, inputVars, workerVars, toWorker>>
  BY DEF OnArmed, FromWorker
<1>2. PageTypes /\ PageSide /\ FinalsStand
  BY DEF PlaneInv, FaultFreeInv, PageSide
<1>3. UNCHANGED <<engine, queued, finalOf, pendingArm, stopIsCurrent, takeOpen, workerReady>> /\ fatal' = fatal
  BY <1>1 DEF workerVars, latchVars, linkVars
<1>4. FinalsStand' /\ snapFinal' = NoFinal /\ snapStats' = snapStats /\ stopping' = stopping
  BY <1>1, <1>2, <1>3, Reports
<1>5. /\ toMain[1].type = "armed"
      /\ \A i \in Answers("stats")' : toMain'[i].val = engine.stream \/ \E j \in Answers("armed")' : i < j
      /\ \A i \in Answers("stopped")' : i + 1 \in Answers("stopped") /\ toMain'[i] = toMain[i + 1]
      /\ \A i, j \in Answers("stopped")' : i = j
  BY <1>1, <1>2, <1>3, <1>4, Heard
<1>6. /\ PageUp' /\ ArmsInOrder' /\ NewestIsLive' /\ OneIsLive' /\ LatchCovers'
      /\ Arms' = Arms /\ Halts' = Halts /\ Streaming' = Streaming
  BY <1>1, <1>2, <1>3, AnswerLeaves
<1>7. StopComing' = StopComing
  BY PlaneRests
<1>8. StopAlone'
  BY <1>2, <1>5, <1>6, <1>7 DEF PageSide, StopAlone
<1>9. StatsInOrder'
  BY <1>2, <1>3, <1>4, <1>5 DEF PageSide, StatsInOrder
<1>10. AwaitedIsRight'
  BY <1>1, <1>2, <1>3, <1>4, <1>5, <1>6, <1>7 DEF PageSide, AwaitedIsRight, ReportIsOver
<1> QED
  BY <1>4, <1>6, <1>8, <1>9, <1>10 DEF PageSide

\* Stats report a final again only when it is not the awaited stream's.
LEMMA StatsStep == ASSUME PlaneInv, FaultFreeInv, NEW online, OnStats(online), UNCHANGED <<linkVars, roomVars, deskVars>>
                   PROVE  PageSide'
<1> USE Numbers
<1> DEFINE v == toMain[1].val
<1>1. /\ toMain # <<>> /\ Head(toMain).type = "stats" /\ toMain' = Tail(toMain)
      /\ Publish(snapFinal, Head(toMain).val, stopping, online)
      /\ UNCHANGED <<sessionVars, pipeline, latchVars, inputVars, workerVars, toWorker>>
  BY DEF OnStats, FromWorker
<1>2. PageTypes /\ PageSide /\ FinalsStand
  BY DEF PlaneInv, FaultFreeInv, PageSide
<1>3. UNCHANGED <<engine, queued, finalOf, pendingArm, stopIsCurrent, takeOpen, workerReady>> /\ fatal' = fatal
  BY <1>1 DEF workerVars, latchVars, linkVars
<1>4. /\ Head(toMain) = toMain[1] /\ toMain[1].type = "stats"
      /\ \A i \in Answers("stats")' : toMain'[i].val = engine.stream \/ \E j \in Answers("armed")' : i < j
      /\ ReportIsOver /\ snapFinal # NoFinal =>
           /\ \A i \in Answers("stats")' : toMain'[i].val = snapStats \/ \E j \in Answers("armed")' : j < i
           /\ engine.stream = snapStats \/ Answers("armed")' # {}
           /\ v = snapStats
      /\ \A i \in Answers("stopped")' : i + 1 \in Answers("stopped") /\ toMain'[i] = toMain[i + 1]
      /\ \A i, j \in Answers("stopped")' : i = j
  BY <1>1, <1>2, Heard
<1>5. Publish(snapFinal, v, stopping, online)
  BY <1>1, <1>4
<1> HIDE DEF v
<1>6. /\ PageUp' /\ ArmsInOrder' /\ NewestIsLive' /\ OneIsLive' /\ LatchCovers'
      /\ Arms' = Arms /\ Halts' = Halts /\ Streaming' = Streaming
  BY <1>1, <1>2, <1>3, AnswerLeaves
<1>7. StopComing' = StopComing
  BY PlaneRests
<1>8. StopAlone'
  BY <1>2, <1>4, <1>6, <1>7 DEF PageSide, StopAlone
<1>9. \/ snapFinal = NoFinal
      \/ snapFinal # NoFinal /\ ReportIsOver
      \/ snapFinal # NoFinal /\ ~ ReportIsOver
  OBVIOUS
<1>10. ASSUME snapFinal # NoFinal, ReportIsOver
       PROVE  v = snapStats /\ v # NoStream /\ lastReported = <<v, snapFinal>>
  BY <1>4, <1>10 DEF PlaneInv, PublishedIsReported, ReportIsOver
<1>11. ASSUME snapFinal # NoFinal, ~ ReportIsOver
       PROVE  /\ ~ StopComing /\ Halts = {} /\ Answers("stopped") = {}
              /\ stopping = NoStream \/ finalOf[stopping] = snapFinal
  BY <1>2, <1>11 DEF PageSide, AwaitedIsRight
<1>12. /\ FinalsStand' /\ snapFinal' = snapFinal /\ snapStats' = v /\ stopping' \in {NoStream, stopping}
       /\ snapFinal = NoFinal \/ ReportIsOver => stopping' = stopping
  BY <1>2, <1>3, <1>5, <1>10, <1>11, Reports
<1>13. StatsInOrder'
  BY <1>2, <1>3, <1>4, <1>12 DEF PageSide, StatsInOrder
<1>14. ReportIsOver => ReportIsOver'
  BY <1>3, <1>4, <1>10, <1>12 DEF ReportIsOver
<1>15. AwaitedIsRight'
  <2>0. finalOf' = finalOf /\ toWorker' = toWorker /\ queued' = queued /\ engine' = engine
    BY <1>1, <1>3
  <2>1. CASE ReportIsOver
    <3>1. stopping' = stopping /\ ReportIsOver'
      BY <1>12, <1>14, <2>1
    <3> QED
      BY <1>2, <1>4, <1>6, <2>0, <3>1 DEF PageSide, AwaitedIsRight
  <2>2. CASE ~ ReportIsOver
    <3>1. /\ ~ StopComing' /\ Halts' = {} /\ Answers("stopped")' = {}
          /\ stopping = NoStream \/ finalOf[stopping] = snapFinal
      BY <1>4, <1>6, <1>7, <1>11, <2>2 DEF ReportIsOver
    <3> QED
      BY <1>12, <2>0, <3>1 DEF AwaitedIsRight
  <2> QED
    BY <2>1, <2>2
<1> QED
  BY <1>6, <1>8, <1>12, <1>13, <1>15 DEF PageSide

\* The answer to a stop reports the final of the awaited stream, and opens the latch when no
\* later take was armed.
LEMMA StoppedStep == ASSUME PlaneInv, FaultFreeInv, NEW online, OnStopped(online),
                            UNCHANGED <<linkVars, roomVars, deskVars>>
                     PROVE  PageSide'
<1> USE Numbers
<1> DEFINE f == toMain[1].val
<1>1. /\ toMain # <<>> /\ Head(toMain).type = "stopped" /\ toMain' = Tail(toMain)
      /\ Publish(Head(toMain).val, snapStats, stopping, online)
      /\ takeOpen' = (takeOpen /\ ~ stopIsCurrent)
      /\ UNCHANGED <<sessionVars, pipeline, workerReady, pendingArm, stopIsCurrent, inputVars, workerVars, toWorker>>
  BY DEF OnStopped, FromWorker
<1>2. PageTypes /\ PageSide /\ FinalsStand
  BY DEF PlaneInv, FaultFreeInv, PageSide
<1>3. UNCHANGED <<engine, queued, finalOf, activeTake, takeOf>> /\ fatal' = fatal
  BY <1>1 DEF workerVars, sessionVars, linkVars
<1>4. Head(toMain) = toMain[1] /\ snapStats' = snapStats
  BY <1>1, <1>2, MainTakes DEF Publish
<1>5. /\ \A i \in Answers("stats")' : toMain'[i].val = engine.stream \/ \E j \in Answers("armed")' : i < j
      /\ 1 \in Answers("stopped") /\ Answers("stopped")' = {}
  BY <1>1, <1>2, <1>3, <1>4, Heard
<1>6. /\ ~ StopComing /\ Halts = {} /\ StopComing' = StopComing
      /\ f # NoFinal => stopping # NoStream /\ finalOf[stopping] = f /\ engine.stream # NoStream
  BY <1>2, <1>5, PlaneRests DEF PageSide, StopAlone, AwaitedIsRight, StatsInOrder
<1>7. Publish(f, snapStats, stopping, online)
  BY <1>1, <1>4
<1> HIDE DEF f
<1>8. FinalsStand' /\ snapFinal' = f /\ stopping' \in {NoStream, stopping}
  BY <1>2, <1>3, <1>6, <1>7, Reports
<1>9. Arms' = Arms /\ Halts' = Halts /\ Streaming' = Streaming
  BY <1>1, <1>3 DEF Arms, Halts, Streaming
<1>10. LatchCovers'
  <2>1. stopIsCurrent = TRUE => ~ Streaming /\ queued = NoStream /\ Arms = {}
    BY <1>2, <1>6 DEF PageSide, LatchCovers, OneIsLive
  <2>2. takeOpen' = TRUE \/ takeOpen = FALSE \/ stopIsCurrent = TRUE
    BY <1>1, <1>2 DEF PageTypes
  <2>3. stopIsCurrent' = stopIsCurrent
    BY <1>1
  <2> QED
    BY <1>2, <1>3, <1>9, <2>1, <2>2, <2>3 DEF PageSide, LatchCovers, PageTypes
<1>11. PageUp' /\ ArmsInOrder' /\ NewestIsLive' /\ OneIsLive'
  BY <1>1, <1>2, <1>3, <1>9 DEF PageSide, PageUp, ArmsInOrder, NewestIsLive, OneIsLive
<1>12. StopAlone'
  BY <1>5, <1>6, <1>9 DEF StopAlone
<1>13. StatsInOrder'
  BY <1>3, <1>5, <1>6, <1>8 DEF StatsInOrder
<1>14. AwaitedIsRight'
  BY <1>3, <1>5, <1>6, <1>8, <1>9 DEF AwaitedIsRight
<1> QED
  BY <1>8, <1>10, <1>11, <1>12, <1>13, <1>14 DEF PageSide

\* Once the worker is ready it is sent the stream that waited for it.
LEMMA ReadyStep == ASSUME PlaneInv, FaultFreeInv, NEW online, OnReady(online), UNCHANGED <<linkVars, roomVars, deskVars>>
                   PROVE  PageSide'
<1> USE Numbers
<1>1. /\ toMain # <<>> /\ Head(toMain).type = "ready" /\ toMain' = Tail(toMain)
      /\ workerReady' = TRUE /\ pendingArm' = NoStream
      /\ UNCHANGED <<sessionVars, pipeline, inputVars, workerVars>>
  BY DEF OnReady, FromWorker
<1>2. PageTypes /\ PageSide
  BY DEF PlaneInv, FaultFreeInv
<1>3. UNCHANGED <<engine, queued, finalOf, activeTake, takeOf>> /\ fatal' = fatal /\ Streaming' = Streaming
  BY <1>1 DEF workerVars, sessionVars, linkVars, Streaming
<1>4. \/ /\ pendingArm = NoStream
         /\ UNCHANGED <<toWorker, takeOpen, stopIsCurrent, reportVars>>
      \/ /\ pendingArm # NoStream
         /\ toWorker' = Append(toWorker, Msg("arm", pendingArm)) /\ takeOpen' = TRUE /\ stopIsCurrent' = FALSE
         /\ Publish(snapFinal, snapStats, stopping, online)
  BY DEF OnReady, Republish
<1>5. /\ FinalsStand' /\ snapFinal' = snapFinal /\ snapStats' = snapStats /\ stopping' \in {NoStream, stopping}
      /\ ReportIsOver => stopping' = stopping
  <2>1. CASE UNCHANGED reportVars
    BY <2>1, <1>2, <1>3 DEF reportVars, PageSide, FinalsStand
  <2>2. CASE Publish(snapFinal, snapStats, stopping, online)
    BY <2>2, <1>2, <1>3, Republishes
  <2> QED
    BY <1>4, <2>1, <2>2
<1>6. /\ toMain[1] \in ToMainMsg /\ Head(toMain) = toMain[1]
      /\ \A i \in Answers("stats")' : toMain'[i].val = engine.stream \/ \E j \in Answers("armed")' : i < j
      /\ ReportIsOver /\ toMain[1].type # "armed" /\ snapFinal # NoFinal =>
           /\ \A i \in Answers("stats")' : toMain'[i].val = snapStats \/ \E j \in Answers("armed")' : j < i
           /\ engine.stream = snapStats \/ Answers("armed")' # {}
      /\ \A i \in Answers("stopped")' : i + 1 \in Answers("stopped") /\ toMain'[i] = toMain[i + 1]
      /\ \A i, j \in Answers("stopped")' : i = j
  BY <1>1, <1>2, Heard
<1>7. ReportIsOver => ReportIsOver'
  BY <1>1, <1>3, <1>5, <1>6 DEF ReportIsOver
<1>8. /\ PageUp' /\ ArmsInOrder' /\ NewestIsLive' /\ OneIsLive' /\ LatchCovers'
      /\ Halts' = Halts /\ \A i \in Halts : /\ toWorker' = toWorker /\ Arms' = Arms
  <2>1. CASE pendingArm = NoStream
    <3>1. UNCHANGED <<toWorker, takeOpen, stopIsCurrent, pendingArm>>
      BY <1>1, <1>4, <2>1
    <3> QED
      BY <1>1, <1>2, <1>3, <2>1, <3>1, AnswerLeaves
  <2>2. CASE pendingArm # NoStream
    <3> DEFINE p == pendingArm
               m == Msg("arm", p)
    <3>1. /\ ~ workerReady /\ toWorker = <<>> /\ engine = NoEngine /\ queued = NoStream /\ activeTake # NoTake
      BY <1>2, <2>2 DEF PageSide, ArmsInOrder, OneIsLive
    <3>2. /\ toWorker' = Append(toWorker, m) /\ takeOpen' = TRUE /\ stopIsCurrent' = FALSE
          /\ m \in ToWorkerMsg /\ m.type = "arm" /\ m.val = p
      BY <1>2, <1>4, <2>2 DEF Msg, ToWorkerMsg, PageTypes
    <3> HIDE DEF m
    <3>3. Len(toWorker) + 1 = 1 /\ Arms = {} /\ Halts = {} /\ ~ Streaming /\ engine.stream = NoStream
      BY <3>1 DEF Arms, Halts, Streaming, NoEngine
    <3>4. Arms' = {1} /\ Halts' = {} /\ toWorker'[1] = m
      BY <1>2, <3>2, <3>3, WorkerGets
    <3>5. p = Len(takeOf) /\ takeOf # <<>>
      <4>1. Len(takeOf) # NoStream
        BY <1>2, <3>1, PageNumbers DEF PageSide, NewestIsLive, NoStream
      <4> QED
        BY <4>1, <1>2, <3>1, <3>3 DEF PageSide, NewestIsLive
    <3>6. p \in Nat /\ 0 < p /\ NoStream = 0
      BY <1>2, <2>2, PageNumbers DEF NoStream
    <3> HIDE DEF p
    <3>7. PageUp' /\ LatchCovers'
      BY <1>1, <1>2, <1>3, <3>2 DEF PageSide, PageUp, LatchCovers
    <3>8. ArmsInOrder'
      BY <1>1, <1>3, <3>1, <3>2, <3>3, <3>4, <3>5, <3>6 DEF ArmsInOrder
    <3>9. NewestIsLive'
      BY <1>3, <3>1, <3>2, <3>4, <3>5 DEF NewestIsLive
    <3>10. OneIsLive'
      BY <1>1, <1>3, <3>1, <3>3, <3>4 DEF OneIsLive
    <3> QED
      BY <3>3, <3>4, <3>7, <3>8, <3>9, <3>10
  <2> QED
    BY <2>1, <2>2
<1>9. StopComing' = StopComing
  BY PlaneRests
<1>10. StopAlone'
  BY <1>2, <1>6, <1>8, <1>9 DEF PageSide, StopAlone
<1>11. StatsInOrder'
  BY <1>2, <1>3, <1>5, <1>6 DEF PageSide, StatsInOrder
<1>12. AwaitedIsRight'
  <2>1. CASE ReportIsOver
    <3>1. stopping' = stopping /\ ReportIsOver'
      BY <1>5, <1>7, <2>1
    <3> QED
      BY <1>2, <1>3, <1>6, <1>8, <3>1 DEF PageSide, AwaitedIsRight
  <2>2. CASE ~ ReportIsOver
    <3>1. ~ StopComing' /\ Halts' = {} /\ Answers("stopped")' = {}
      BY <1>2, <1>6, <1>8, <1>9, <2>2 DEF PageSide, AwaitedIsRight
    <3>2. snapFinal # NoFinal => stopping = NoStream \/ finalOf[stopping] = snapFinal
      BY <1>2, <2>2 DEF PageSide, AwaitedIsRight
    <3> QED
      BY <1>3, <1>5, <3>1, <3>2 DEF AwaitedIsRight
  <2> QED
    BY <2>1, <2>2
<1> QED
  BY <1>5, <1>8, <1>10, <1>11, <1>12 DEF PageSide

\* What the page publishes of its own changes no other part.
LEMMA QuietPage == ASSUME PlaneInv, PageSide, fatal' = fatal, StopComing' => StopComing,
                          UNCHANGED <<activeTake, takeOf, pipeline, latchVars, engine, queued, finalOf, queueVars>>,
                          NEW online, UNCHANGED reportVars \/ Publish(snapFinal, snapStats, stopping, online)
                   PROVE  PageSide'
<1> USE Numbers
<1>1. PageTypes
  BY DEF PlaneInv
<1>2. UNCHANGED <<workerReady, pendingArm, stopIsCurrent, takeOpen, toWorker, toMain>>
  BY DEF latchVars, queueVars
<1>3. Arms' = Arms /\ Halts' = Halts /\ Streaming' = Streaming /\ \A type : Answers(type)' = Answers(type)
  BY <1>2 DEF Arms, Halts, Streaming, Answers
<1>4. /\ FinalsStand' /\ snapFinal' = snapFinal /\ snapStats' = snapStats /\ stopping' \in {NoStream, stopping}
      /\ ReportIsOver => stopping' = stopping
  <2>1. CASE UNCHANGED reportVars
    BY <2>1 DEF reportVars, PageSide, FinalsStand, Streaming
  <2>2. CASE Publish(snapFinal, snapStats, stopping, online)
    BY <2>2, Republishes
  <2> QED
    BY <2>1, <2>2
<1>5. ReportIsOver' = ReportIsOver /\ StatsInOrder'
  BY <1>2, <1>3, <1>4 DEF ReportIsOver, PageSide, StatsInOrder
<1>6. PageUp' /\ ArmsInOrder' /\ StopAlone' /\ NewestIsLive' /\ OneIsLive' /\ LatchCovers'
  BY <1>2, <1>3 DEF PageSide, PageUp, ArmsInOrder, StopAlone, NewestIsLive, OneIsLive, LatchCovers
<1>7. AwaitedIsRight'
  <2>1. CASE ReportIsOver
    <3>1. stopping' = stopping /\ ReportIsOver'
      BY <1>4, <1>5, <2>1
    <3> QED
      BY <1>2, <1>3, <3>1 DEF PageSide, AwaitedIsRight
  <2>2. CASE ~ ReportIsOver
    <3>1. ~ StopComing' /\ Halts' = {} /\ Answers("stopped")' = {}
      BY <1>3, <2>2 DEF PageSide, AwaitedIsRight
    <3>2. snapFinal # NoFinal => stopping = NoStream \/ finalOf[stopping] = snapFinal
      BY <2>2 DEF PageSide, AwaitedIsRight
    <3> QED
      BY <1>4, <3>1, <3>2 DEF AwaitedIsRight
  <2> QED
    BY <2>1, <2>2
<1> QED
  BY <1>4, <1>5, <1>6, <1>7 DEF PageSide

\* A change of input publishes at most the snapshot again.
LEMMA SwitchStep == ASSUME PlaneInv, FaultFreeInv, NEW online, BeginSwitch \/ EndSwitch(online),
                           UNCHANGED <<linkVars, roomVars, deskVars>>
                    PROVE  PageSide'
<1>1. PageSide /\ StopComing' = StopComing /\ fatal' = fatal
  BY PlaneRests DEF FaultFreeInv, linkVars
<1>2. /\ UNCHANGED <<activeTake, takeOf, pipeline, latchVars, engine, queued, finalOf, queueVars>>
      /\ UNCHANGED reportVars \/ Publish(snapFinal, snapStats, stopping, online)
  BY DEF BeginSwitch, EndSwitch, Republish, sessionVars, workerVars
<1> QED
  BY <1>1, <1>2, QuietPage

\* A recorder that is in no take arms a new stream behind everything it has sent.
LEMMA SessionStep == ASSUME PlaneInv, PageSide, activeTake = NoTake, NEW t \in Take \ {NoTake}, NEW online,
                            SessionArm(t, online), fatal' = fatal, StopComing' => StopComing
                     PROVE  PageSide'
<1> USE Numbers
<1> DEFINE s == Len(takeOf) + 1
           m == Msg("arm", s)
           n == Len(toWorker) + 1
<1>1. /\ s \in Nat /\ Len(takeOf') = s /\ takeOf' # <<>> /\ activeTake' = t /\ PageTypes
  <2>1. Len(takeOf) \in Nat /\ Len(takeOf') = Len(takeOf) + 1 /\ activeTake' = t /\ PageTypes /\ PageTypes'
    BY Armed DEF PlaneInv
  <2>2. takeOf' # <<>>
    BY <2>1, Silent DEF PageTypes
  <2> QED
    BY <2>1, <2>2
<1>2. /\ s <= MaxStream /\ takeOpen' = TRUE /\ stopIsCurrent' = FALSE
      /\ Publish(snapFinal, snapStats, stopping, online)
      /\ UNCHANGED <<pipeline, workerReady, engine, queued, finalOf, toMain>>
      /\ IF workerReady THEN toWorker' = Append(toWorker, m) /\ UNCHANGED pendingArm
                        ELSE pendingArm' = s /\ UNCHANGED toWorker
  BY DEF SessionArm, ControllerArm, Republish, workerVars
<1>3. m \in ToWorkerMsg /\ m.type = "arm" /\ m.val = s /\ n = Len(toWorker) + 1
  BY <1>1, <1>2 DEF Msg, ToWorkerMsg, Stream
<1>4. engine.stream < s /\ queued < s /\ NoStream < s /\ \A i \in Arms : toWorker[i].val < s
  BY <1>1, PageNumbers DEF PageSide, ArmsInOrder, NoStream
<1> HIDE DEF m, n, s
<1>5. Streaming' = Streaming /\ \A type : Answers(type)' = Answers(type)
  BY <1>2 DEF Streaming, Answers
<1>6. /\ FinalsStand' /\ snapFinal' = snapFinal /\ snapStats' = snapStats /\ stopping' \in {NoStream, stopping}
      /\ ReportIsOver => stopping' = stopping
  BY <1>2, Republishes
<1>7. ReportIsOver' = ReportIsOver /\ StatsInOrder'
  BY <1>2, <1>5, <1>6 DEF ReportIsOver, PageSide, StatsInOrder
<1>8. pendingArm = NoStream
  BY DEF PageSide, OneIsLive
<1>9. \/ /\ workerReady /\ toWorker' = Append(toWorker, m) /\ pendingArm' = NoStream
         /\ n \in Nat /\ toWorker'[n] = m
         /\ Arms \subseteq Nat \ {0} /\ Halts \subseteq Nat \ {0}
         /\ Arms' = Arms \cup {n} /\ Halts' = Halts
         /\ \A i \in Arms \cup Halts : i < n /\ toWorker'[i] = toWorker[i]
      \/ /\ ~ workerReady /\ toWorker' = toWorker /\ toWorker = <<>> /\ pendingArm' = s
         /\ Arms = {} /\ Halts = {} /\ Arms' = {} /\ Halts' = {}
         /\ engine = NoEngine /\ queued = NoStream /\ ~ Streaming
  <2>1. CASE workerReady
    BY <1>1, <1>2, <1>3, <1>8, <2>1, WorkerGets
  <2>2. CASE ~ workerReady
    <3>1. toWorker = <<>> /\ engine = NoEngine /\ queued = NoStream
      BY <2>2 DEF PageSide, OneIsLive, ArmsInOrder
    <3> QED
      BY <1>2, <2>2, <3>1 DEF Arms, Halts, Streaming, NoEngine
  <2> QED
    BY <2>1, <2>2
<1>10. /\ Halts' = Halts
       /\ \A i \in Arms : i \in Arms' /\ toWorker'[i] = toWorker[i]
  BY <1>9
<1>11. PageUp' /\ LatchCovers'
  BY <1>2 DEF PageSide, PageUp, LatchCovers
<1>12. ArmsInOrder'
  <2>1. /\ engine'.stream <= s /\ queued' <= s /\ (queued # NoStream => engine.stream < queued)
        /\ \A i \in Arms : toWorker[i].val <= s
    BY <1>1, <1>2, <1>4, PageNumbers DEF PageSide, ArmsInOrder
  <2>2. \A i, j \in Arms : i < j => toWorker[i].val < toWorker[j].val
    BY DEF PageSide, ArmsInOrder
  <2>3. \A i \in Arms : engine.stream < toWorker[i].val /\ queued < toWorker[i].val
    BY DEF PageSide, ArmsInOrder
  <2>4. CASE workerReady
    <3>1. /\ \A i \in Arms' : i \in Arms \/ i = n
          /\ \A i \in Arms : i < n /\ i \in Nat /\ toWorker'[i] = toWorker[i]
          /\ n \in Nat /\ toWorker'[n].val = s /\ pendingArm' = NoStream
      BY <1>3, <1>9, <2>4
    <3>2. \A i, j \in Arms' : i < j => toWorker'[i].val < toWorker'[j].val
      <4> SUFFICES ASSUME NEW i \in Arms', NEW j \in Arms', i < j PROVE toWorker'[i].val < toWorker'[j].val
        OBVIOUS
      <4>1. i \in Arms
        BY <3>1
      <4> QED
        BY <4>1, <3>1, <2>2, <1>4
    <3>3. \A i \in Arms' : /\ engine'.stream < toWorker'[i].val /\ queued' < toWorker'[i].val
                           /\ toWorker'[i].val <= s
      BY <1>1, <1>2, <1>4, <2>1, <2>3, <3>1
    <3> QED
      BY <1>1, <1>2, <2>1, <2>4, <3>1, <3>2, <3>3 DEF ArmsInOrder
  <2>5. CASE ~ workerReady
    BY <1>1, <1>2, <1>9, <2>1, <2>5 DEF ArmsInOrder
  <2> QED
    BY <2>4, <2>5
<1>13. StopAlone'
  BY <1>5, <1>10 DEF PageSide, StopAlone
<1>14. NewestIsLive'
  BY <1>1, <1>3, <1>9 DEF NewestIsLive
<1>15. OneIsLive'
  <2>1. CASE workerReady
    <3>0. /\ \A i \in Arms' : i \in Arms \/ i = n
          /\ \A i \in Arms \cup Halts : i < n /\ i \in Nat
          /\ n \in Nat /\ Halts' = Halts /\ pendingArm' = NoStream
      BY <1>9, <2>1
    <3>1. ASSUME NEW i \in Arms', NEW j \in Arms', i < j PROVE \E k \in Halts' : i < k /\ k < j
      <4>1. i \in Arms
        BY <3>0, <3>1
      <4>2. CASE j \in Arms
        BY <3>0, <3>1, <4>1, <4>2 DEF PageSide, OneIsLive
      <4>3. CASE j = n
        <5>1. PICK k \in Halts : i < k
          BY <4>1 DEF PageSide, OneIsLive
        <5> QED
          BY <3>0, <4>3, <5>1
      <4> QED
        BY <3>0, <4>2, <4>3
    <3>2. ASSUME Streaming \/ queued # NoStream, NEW i \in Arms' PROVE \E k \in Halts' : k < i
      <4>1. CASE i \in Arms
        BY <3>0, <3>2, <4>1 DEF PageSide, OneIsLive
      <4>2. CASE i = n
        <5>1. PICK k \in Halts : TRUE
          BY <3>2 DEF PageSide, OneIsLive
        <5> QED
          BY <3>0, <4>2, <5>1
      <4> QED
        BY <3>0, <4>1, <4>2
    <3>3. Streaming => queued = NoStream
      BY DEF PageSide, OneIsLive
    <3> QED
      BY <1>1, <1>2, <1>5, <2>1, <3>0, <3>1, <3>2, <3>3 DEF OneIsLive
  <2>2. CASE ~ workerReady
    BY <1>1, <1>2, <1>5, <1>9, <2>2 DEF OneIsLive
  <2> QED
    BY <2>1, <2>2
<1>16. AwaitedIsRight'
  <2>1. CASE ReportIsOver
    <3>1. stopping' = stopping /\ ReportIsOver'
      BY <1>6, <1>7, <2>1
    <3> QED
      BY <1>2, <1>5, <1>10, <3>1 DEF PageSide, AwaitedIsRight
  <2>2. CASE ~ ReportIsOver
    <3>1. ~ StopComing' /\ Halts' = {} /\ Answers("stopped")' = {}
      BY <1>5, <1>10, <2>2 DEF PageSide, AwaitedIsRight
    <3>2. snapFinal # NoFinal => stopping = NoStream \/ finalOf[stopping] = snapFinal
      BY <2>2 DEF PageSide, AwaitedIsRight
    <3> QED
      BY <1>2, <1>6, <3>1, <3>2 DEF AwaitedIsRight
  <2> QED
    BY <2>1, <2>2
<1> QED
  BY <1>6, <1>7, <1>11, <1>12, <1>13, <1>14, <1>15, <1>16 DEF PageSide

\* The stop arrives: the arm that still waits is forgotten, or the stop goes to the worker
\* and its answer is the newest stream's.
LEMMA SessionStopStep == ASSUME PlaneInv, PageSide, activeTake # NoTake, activeTake' = NoTake, NEW online,
                                ControllerStop(Len(takeOf), online), StopComing, ~ StopComing', fatal' = fatal,
                                UNCHANGED <<takeOf, pipeline, workerReady, inputVars, workerVars, toMain>>
                         PROVE  PageSide'
<1> USE Numbers
<1>1. /\ PageTypes /\ UNCHANGED <<engine, queued, finalOf>> /\ Streaming' = Streaming
      /\ \A type : Answers(type)' = Answers(type)
  BY DEF PlaneInv, workerVars, Streaming, Answers
<1>2. Halts = {} /\ Answers("stopped") = {} /\ ReportIsOver /\ pipeline = "on"
  BY DEF PageSide, StopAlone, AwaitedIsRight, PageUp
<1>3. Len(takeOf) \in Nat /\ Len(takeOf) # NoStream /\ Len(takeOf) \in Stream
  BY <1>1, PageNumbers DEF PageSide, NewestIsLive, NoStream, PageTypes, Stream
<1>4. PageUp'
  BY DEF PageSide, PageUp
<1>5. CASE pendingArm # NoStream
  <2>1. /\ pendingArm' = NoStream /\ takeOpen' = FALSE /\ UNCHANGED <<stopIsCurrent, toWorker>>
        /\ Publish(snapFinal, snapStats, Len(takeOf), online)
    BY <1>5 DEF ControllerStop
  <2>2. /\ ~ workerReady /\ toWorker = <<>> /\ engine = NoEngine /\ queued = NoStream
    BY <1>5 DEF PageSide, ArmsInOrder, OneIsLive
  <2>3. Arms' = {} /\ Halts' = {} /\ Arms = {} /\ ~ Streaming
    BY <2>1, <2>2 DEF Arms, Halts, Streaming, NoEngine
  <2>4. snapFinal = NoFinal \/ (snapStats # NoStream /\ lastReported = <<snapStats, snapFinal>>)
    BY <1>2 DEF PlaneInv, PublishedIsReported, ReportIsOver
  <2>5. /\ snapFinal' = snapFinal /\ snapStats' = snapStats /\ stopping' = Len(takeOf) /\ sentFinals' = sentFinals
    BY <2>1, <2>4, Published
  <2>6. ReportIsOver' /\ StatsInOrder'
    BY <1>1, <1>2, <2>5 DEF ReportIsOver, PageSide, StatsInOrder
  <2>7. ArmsInOrder' /\ LatchCovers'
    BY <1>1, <2>1, <2>2, <2>3 DEF PageSide, ArmsInOrder, LatchCovers
  <2>8. StopAlone' /\ NewestIsLive' /\ OneIsLive'
    BY <1>1, <1>2, <2>1, <2>2, <2>3 DEF StopAlone, NewestIsLive, OneIsLive
  <2>9. AwaitedIsRight' /\ FinalsStand'
    BY <1>1, <1>2, <2>3, <2>5, <2>6 DEF AwaitedIsRight, PageSide, FinalsStand
  <2> QED
    BY <1>4, <2>6, <2>7, <2>8, <2>9 DEF PageSide
<1>6. CASE pendingArm = NoStream
  <2> DEFINE m == Msg("stop", 0)
             n == Len(toWorker) + 1
  <2>1. /\ stopIsCurrent' = TRUE /\ stopping' = Len(takeOf) /\ toWorker' = Append(toWorker, m)
        /\ UNCHANGED <<pendingArm, takeOpen, snapFinal, snapStats, lastReported, sentFinals>>
    BY <1>2, <1>6 DEF ControllerStop
  <2>2. m \in ToWorkerMsg /\ m.type = "stop" /\ n = Len(toWorker) + 1
    BY DEF Msg, ToWorkerMsg, NoStream
  <2> HIDE DEF m, n
  <2>3. /\ n \in Nat /\ Arms \subseteq Nat \ {0} /\ Arms' = Arms /\ Halts' = {n}
        /\ \A i \in Arms : i < n /\ toWorker'[i] = toWorker[i]
    BY <1>1, <1>2, <2>1, <2>2, WorkerGets
  <2>4. \/ \E i \in Arms : toWorker[i].val = Len(takeOf)
        \/ queued = Len(takeOf)
        \/ Streaming /\ engine.stream = Len(takeOf)
    BY <1>3, <1>6 DEF PageSide, NewestIsLive
  <2>5. workerReady
    <3> SUFFICES ASSUME ~ workerReady PROVE FALSE
      OBVIOUS
    <3>1. Arms = {} /\ queued = NoStream /\ ~ Streaming
      BY DEF PageSide, ArmsInOrder, OneIsLive, NoEngine, Streaming, Arms
    <3> QED
      BY <1>3, <2>4, <3>1
  <2>6. ReportIsOver' /\ StatsInOrder'
    BY <1>1, <1>2, <2>1 DEF ReportIsOver, PageSide, StatsInOrder
  <2>7. ArmsInOrder' /\ LatchCovers'
    BY <1>1, <1>6, <2>1, <2>3 DEF PageSide, ArmsInOrder, LatchCovers
  <2>8. StopAlone' /\ NewestIsLive'
    BY <1>1, <1>2, <2>3 DEF StopAlone, NewestIsLive
  <2>9. OneIsLive'
    <3>1. \A i, j \in Arms : ~ i < j
      BY <1>2 DEF PageSide, OneIsLive
    <3>2. Streaming \/ queued # NoStream => Arms = {}
      BY <1>2 DEF PageSide, OneIsLive
    <3>3. Streaming => queued = NoStream
      BY DEF PageSide, OneIsLive
    <3> QED
      BY <1>1, <1>6, <2>1, <2>3, <2>5, <3>1, <3>2, <3>3 DEF OneIsLive
  <2>10. AwaitedIsRight' /\ FinalsStand'
    BY <1>1, <1>2, <1>3, <2>1, <2>3, <2>4, <2>6 DEF AwaitedIsRight, PageSide, FinalsStand
  <2> QED
    BY <1>4, <2>6, <2>7, <2>8, <2>9, <2>10 DEF PageSide
<1> QED
  BY <1>5, <1>6
-----------------------------------------------------------------------------
\* A socket's messages when it takes one ...
Joins(q, m, r) ==
  /\ Len(r) \in Nat \ {0} /\ r[Len(r)] = m /\ Len(r) = Len(q) + 1 /\ Len(q) \in Nat
  /\ Commands(q) \subseteq Nat \ {0} /\ Starts(q) \subseteq Nat \ {0} /\ Stops(q) \subseteq Nat \ {0}
  /\ Commands(r) = IF m.type # "welcome" THEN Commands(q) \cup {Len(r)} ELSE Commands(q)
  /\ Starts(r) = IF m.type # "take-stop" /\ m.val # NoTake THEN Starts(q) \cup {Len(r)} ELSE Starts(q)
  /\ Stops(r) = IF m.type = "take-stop" THEN Stops(q) \cup {Len(r)} ELSE Stops(q)
  /\ \A i \in (1 .. Len(q)) \cup Commands(q) \cup Starts(q) \cup Stops(q) : i < Len(r) /\ r[i] = q[i]
  /\ \A i \in 1 .. Len(r) : i \in 1 .. Len(q) \/ i = Len(r)

LEMMA SocketGets == ASSUME NEW q \in Seq(Notice), NEW m \in Notice, NEW r, r = Append(q, m) PROVE Joins(q, m, r)
<1> DEFINE n == Len(r)
<1>1. /\ Len(q) \in Nat /\ n = Len(q) + 1 /\ n \in Nat \ {0}
      /\ r[n] = m /\ \A i \in 1 .. Len(q) : r[i] = q[i]
  BY Joined
<1>2. 1 .. n = (1 .. Len(q)) \cup {n} /\ \A i \in 1 .. Len(q) : i < n /\ i \in Nat \ {0}
  BY <1>1
<1> QED
  BY <1>1, <1>2 DEF Commands, Starts, Stops, Joins

\* ... and when it gives one.
Leaves(q, r) ==
  /\ Head(q) = q[1] /\ q[1] \in Notice /\ Len(q) \in Nat \ {0} /\ Len(r) = Len(q) - 1
  /\ r = <<>> <=> Len(q) = 1
  /\ 1 \in Commands(q) <=> q[1].type # "welcome"
  /\ 1 \in Starts(q) <=> q[1].type # "take-stop" /\ q[1].val # NoTake
  /\ 1 \in Stops(q) <=> q[1].type = "take-stop"
  /\ \A i \in 1 .. Len(r) : i \in Nat \ {0} /\ i + 1 \in 1 .. Len(q) /\ r[i] = q[i + 1]
  /\ \A i \in Commands(r) : i \in Nat \ {0} /\ i + 1 \in Commands(q) /\ r[i] = q[i + 1]
  /\ \A i \in Starts(r) : i \in Nat \ {0} /\ i + 1 \in Starts(q) /\ r[i] = q[i + 1]
  /\ \A i \in Stops(r) : i \in Nat \ {0} /\ i + 1 \in Stops(q) /\ r[i] = q[i + 1]
  /\ \A i \in Commands(q) : i \in Nat \ {0} /\ (i # 1 => i - 1 \in Commands(r))
  /\ \A i \in Starts(q) : i \in Nat \ {0} /\ (i # 1 => i - 1 \in Starts(r))
  /\ \A i \in Stops(q) : i \in Nat \ {0} /\ (i # 1 => i - 1 \in Stops(r))

LEMMA SocketGives == ASSUME NEW q \in Seq(Notice), q # <<>>, NEW r, r = Tail(q) PROVE Leaves(q, r)
<1>1. /\ r \in Seq(Notice) /\ Len(q) \in Nat \ {0} /\ Len(r) = Len(q) - 1
      /\ Head(q) = q[1] /\ q[1] \in Notice
      /\ \A i \in 1 .. Len(r) : r[i] = q[i + 1]
  BY Departed
<1>2. /\ 1 \in 1 .. Len(q)
      /\ \A i \in 1 .. Len(r) : i \in Nat \ {0} /\ i + 1 \in 1 .. Len(q)
      /\ \A i \in 1 .. Len(q) : i \in Nat \ {0} /\ (i # 1 => i - 1 \in 1 .. Len(r) /\ (i - 1) + 1 = i)
  BY <1>1
<1>3. r = <<>> <=> Len(q) = 1
  BY <1>1, Silent
<1> QED
  BY <1>1, <1>2, <1>3 DEF Commands, Starts, Stops, Leaves

\* A queue of one command.
LEMMA OneCommand == ASSUME NEW m \in Command, NEW q, q = Append(<<>>, m)
                    PROVE  /\ q # <<>> /\ Len(q) = 1 /\ 1 .. Len(q) = {1} /\ q[1] = m
                           /\ Stops(q) = IF m.type = "take-stop" THEN {1} ELSE {}
BY DEF Stops

\* An empty queue.
LEMMA NoCommand == /\ Len(<<>>) = 0 /\ 1 .. 0 = {} /\ Commands(<<>>) = {} /\ Starts(<<>>) = {} /\ Stops(<<>>) = {}
BY DEF Commands, Starts, Stops

\* A queue that holds at most one command.
LEMMA AtMostOne == ASSUME NEW q \in Seq(Command), q # <<>>, Len(q) <= 1
                   PROVE  /\ Head(q) = q[1] /\ q[1] \in Command /\ 1 .. Len(q) = {1} /\ Tail(q) = <<>>
                          /\ Stops(q) = IF q[1].type = "take-stop" THEN {1} ELSE {}
<1> DEFINE r == Tail(q)
<1>1. /\ r \in Seq(Command) /\ Len(q) \in Nat \ {0} /\ Len(r) = Len(q) - 1
      /\ Head(q) = q[1] /\ q[1] \in Command
  BY Departed
<1>2. Len(q) = 1 /\ Len(r) = 0
  BY <1>1
<1>3. r = <<>>
  BY <1>1, <1>2, Silent
<1>4. 1 .. Len(q) = {1}
  BY <1>2
<1> QED
  BY <1>1, <1>3, <1>4 DEF Stops

\* The operator starts a take.
LEMMA StartPlane == ASSUME PlaneTypes, PlaneSide, StartTake
                    PROVE  PlaneSide' /\ StopComing' = StopComing
<1> USE Numbers
<1>1. /\ toRoom = <<>> /\ fanouts = <<>> /\ toDesk = <<>> /\ deskTake = NoTake
      /\ lastTake' = lastTake + 1 /\ lastTake < MaxTake
      /\ toRoom' = IF linkUp["desk"] THEN Append(toRoom, Msg("take-start", lastTake')) ELSE toRoom
      /\ UNCHANGED <<pageVars, linkUp, peerKnown, fatal, toClient, roomVars, deskTake, deskStart, faults>>
  BY DEF StartTake, OperatorReady, DeskSends, toDesk
<1>2. /\ UNCHANGED <<peers, welcoming, roomTake, fanouts, activeTake, toDesk, toRecorder>>
  BY <1>1 DEF roomVars, pageVars, sessionVars, toDesk, toRecorder
<1>3. roomTake = NoTake
  BY <1>1, NoCommand DEF PlaneSide, DeskFollows
<1>4. CASE ~ linkUp["desk"]
  <2>1. toRoom' = toRoom
    BY <1>1, <1>4
  <2> QED
    BY <1>1, <1>2, <2>1 DEF PlaneSide, CommandAlone, DeskFollows, StopOnce, StopUp, StopComing, Latest, RecorderFollows
<1>5. CASE linkUp["desk"]
  <2> DEFINE m == Msg("take-start", lastTake')
  <2>1. m \in Command /\ m.type = "take-start" /\ m.val # NoTake
    BY <1>1 DEF Msg, Command, Take, NoTake, PlaneTypes
  <2> HIDE DEF m
  <2>2. toRoom' = Append(<<>>, m)
    BY <1>1, <1>5 DEF m
  <2>3. toRoom' # <<>> /\ Len(toRoom') = 1 /\ 1 .. Len(toRoom') = {1} /\ toRoom'[1] = m /\ Stops(toRoom') = {}
    BY <2>1, <2>2, OneCommand
  <2>4. StopUp' = StopUp /\ StopComing' = StopComing
    BY <1>1, <1>2, <2>3, NoCommand DEF StopUp, StopComing
  <2>5. "desk" \in peers
    BY <1>5 DEF PlaneSide, CommandAlone, Client
  <2>6. CommandAlone'
    BY <1>1, <1>2, <2>3, <2>5, NoCommand DEF PlaneSide, CommandAlone
  <2>7. DeskFollows'
    BY <1>1, <1>2, <1>3, <2>1, <2>3, NoCommand DEF PlaneSide, DeskFollows
  <2>8. StopOnce' /\ RecorderFollows'
    BY <1>2, <2>4 DEF PlaneSide, StopOnce, RecorderFollows, Latest
  <2> QED
    BY <2>4, <2>6, <2>7, <2>8 DEF PlaneSide
<1> QED
  BY <1>4, <1>5

\* The operator stops it, when everything has been heard.
LEMMA StopPlane == ASSUME PlaneTypes, PlaneSide, StopTake, RecorderAnswered
                   PROVE  PlaneSide'
<1> USE Numbers
<1>1. /\ toRoom = <<>> /\ fanouts = <<>> /\ toDesk = <<>> /\ deskTake # NoTake /\ linkUp["desk"]
      /\ toRoom' = Append(<<>>, Msg("take-stop", deskTake))
      /\ UNCHANGED <<pageVars, linkUp, peerKnown, fatal, toClient, roomVars, deskVars, faults>>
      /\ toRecorder = <<>> /\ welcoming = {}
  BY DEF StopTake, OperatorReady, DeskSends, toDesk, toRecorder, RecorderAnswered
<1>2. UNCHANGED <<peers, welcoming, roomTake, fanouts, activeTake, toDesk, toRecorder, deskTake, deskStart, linkUp>>
  BY <1>1 DEF roomVars, pageVars, sessionVars, deskVars, toDesk, toRecorder
<1>3. roomTake = deskTake
  BY <1>1, NoCommand DEF PlaneSide, DeskFollows
<1> DEFINE m == Msg("take-stop", deskTake)
<1>4. m \in Command /\ m.type = "take-stop" /\ m.val = deskTake
  BY <1>1 DEF Msg, Command, PlaneTypes
<1> HIDE DEF m
<1>5. toRoom' = Append(<<>>, m)
  BY <1>1 DEF m
<1>6. toRoom' # <<>> /\ Len(toRoom') = 1 /\ 1 .. Len(toRoom') = {1} /\ toRoom'[1] = m
  BY <1>4, <1>5, OneCommand
<1>7. "desk" \in peers
  BY <1>1 DEF PlaneSide, CommandAlone, Client
<1>8. CommandAlone'
  BY <1>1, <1>2, <1>6, <1>7, NoCommand DEF PlaneSide, CommandAlone
<1>9. DeskFollows'
  BY <1>1, <1>2, <1>3, <1>4, <1>6, NoCommand DEF PlaneSide, DeskFollows
<1>10. StopOnce'
  BY <1>1, <1>2, NoCommand DEF StopOnce
<1>11. RecorderFollows'
  BY <1>2 DEF PlaneSide, RecorderFollows, Latest
<1> QED
  BY <1>8, <1>9, <1>10, <1>11 DEF PlaneSide

\* The room takes the one command: its own take changes before the echo is heard.
LEMMA RoomPlane == ASSUME PlaneTypes, PlaneSide, RoomHandles
                   PROVE  PlaneSide' /\ StopComing' = StopComing
<1> USE Numbers
<1> DEFINE m == toRoom[1]
<1>1. /\ toRoom # <<>> /\ Len(toRoom) <= 1 /\ fanouts = <<>> /\ Commands(toDesk) = {} /\ toRoom \in Seq(Command)
  BY DEF RoomHandles, PlaneSide, CommandAlone, PlaneTypes
<1>2. /\ Head(toRoom) = m /\ m \in Command /\ 1 .. Len(toRoom) = {1} /\ Tail(toRoom) = <<>>
      /\ Stops(toRoom) = IF m.type = "take-stop" THEN {1} ELSE {}
  BY <1>1, AtMostOne
<1>3. /\ \/ m.type = "take-start" /\ roomTake' = m.val
         \/ m.type = "take-stop" /\ roomTake' = IF roomTake = m.val THEN NoTake ELSE roomTake
      /\ fanouts' = Append(<<>>, m) /\ toRoom' = <<>>
      /\ UNCHANGED <<pageVars, linkUp, peerKnown, fatal, toClient, peers, welcoming, deskVars, faults>>
  BY <1>1, <1>2 DEF RoomHandles
<1>4. UNCHANGED <<peers, welcoming, activeTake, toDesk, toRecorder, deskTake, deskStart, linkUp>>
  BY <1>3 DEF pageVars, sessionVars, deskVars, toDesk, toRecorder
<1>5. "desk" \in peers
  BY <1>1 DEF PlaneSide, CommandAlone
<1>6. /\ m.val # NoTake
      /\ m.type = "take-start" => roomTake = NoTake /\ deskTake = NoTake
      /\ m.type = "take-stop" => roomTake = m.val /\ deskTake = m.val /\ toDesk = <<>> /\ "desk" \notin welcoming
  BY <1>2 DEF PlaneSide, DeskFollows
<1> HIDE DEF m
<1>7. /\ fanouts' # <<>> /\ Len(fanouts') = 1 /\ 1 .. Len(fanouts') = {1} /\ fanouts'[1] = m
      /\ Stops(fanouts') = IF m.type = "take-stop" THEN {1} ELSE {}
  BY <1>2, <1>3, OneCommand
<1>8. StopUp' = StopUp /\ StopComing' = StopComing
  BY <1>1, <1>2, <1>3, <1>4, <1>7, NoCommand DEF StopUp, StopComing
<1>9. CommandAlone'
  BY <1>1, <1>3, <1>4, <1>5, <1>7, NoCommand DEF PlaneSide, CommandAlone
<1>10. StopOnce'
  BY <1>4, <1>8 DEF PlaneSide, StopOnce
<1>11. CASE m.type = "take-start"
  <2>1. roomTake' = m.val /\ Starts(toDesk) = {}
    <3>1. \A i \in Starts(toDesk) : roomTake = toDesk[i].val /\ toDesk[i].val # NoTake
      BY DEF PlaneSide, DeskFollows, Starts
    <3> QED
      BY <1>3, <1>6, <1>11, <3>1
  <2>2. DeskFollows'
    BY <1>1, <1>3, <1>4, <1>6, <1>7, <1>11, <2>1, NoCommand DEF PlaneSide, DeskFollows
  <2>3. Latest = NoTake
    BY <1>1, <1>6, <1>11, NoCommand DEF Latest
  <2>4. \A i \in Starts(toRecorder) : ~ \A j \in Stops(toRecorder) : j < i
    BY <2>3 DEF PlaneSide, RecorderFollows, Starts
  <2>5. RecorderFollows'
    BY <1>4, <2>3, <2>4 DEF PlaneSide, RecorderFollows
  <2> QED
    BY <1>8, <1>9, <1>10, <2>2, <2>5 DEF PlaneSide
<1>12. CASE m.type = "take-stop"
  <2>1. roomTake' = NoTake
    BY <1>3, <1>6, <1>12
  <2>2. DeskFollows'
    BY <1>1, <1>3, <1>4, <1>6, <1>7, <1>12, <2>1, NoCommand DEF PlaneSide, DeskFollows
  <2>3. Latest' = Latest
    BY <1>1, <1>6, <1>7, <1>12, NoCommand DEF Latest
  <2>4. RecorderFollows'
    BY <1>4, <2>3 DEF PlaneSide, RecorderFollows
  <2> QED
    BY <1>8, <1>9, <1>10, <2>2, <2>4 DEF PlaneSide
<1> QED
  BY <1>3, <1>11, <1>12

\* The room tells its peers.
LEMMA FanPlane == ASSUME PlaneTypes, PlaneSide, FanOut
                  PROVE  PlaneSide' /\ (StopComing' => StopComing)
<1> USE Numbers
<1> DEFINE m == fanouts[1]
           n == Len(toDesk')
           k == Len(toRecorder')
<1>1. /\ fanouts # <<>> /\ Len(fanouts) <= 1 /\ toRoom = <<>> /\ Commands(toDesk) = {} /\ fanouts \in Seq(Command)
      /\ toDesk \in Seq(Notice) /\ toRecorder \in Seq(Notice)
  BY DEF FanOut, PlaneSide, CommandAlone, PlaneTypes, toDesk, toRecorder, Client
<1>2. /\ Head(fanouts) = m /\ m \in Command /\ m \in Notice /\ 1 .. Len(fanouts) = {1} /\ Tail(fanouts) = <<>>
      /\ Stops(fanouts) = IF m.type = "take-stop" THEN {1} ELSE {}
      /\ m.type \in {"take-start", "take-stop"}
  BY <1>1, AtMostOne, Words DEF Command
<1>3. "desk" \in peers
  BY <1>1 DEF PlaneSide, CommandAlone
<1>4. /\ fanouts' = <<>> /\ toDesk' = Append(toDesk, m)
      /\ toRecorder' = IF "recorder" \in peers THEN Append(toRecorder, m) ELSE toRecorder
      /\ UNCHANGED <<pageVars, linkUp, peerKnown, fatal, toRoom, peers, welcoming, roomTake, deskVars, faults>>
  BY <1>2, <1>3 DEF FanOut, toDesk, toRecorder, Client
<1>5. UNCHANGED <<peers, welcoming, activeTake, deskTake, deskStart, linkUp, roomTake, toRoom>>
  BY <1>4 DEF pageVars, sessionVars, deskVars
<1>6. /\ m.val # NoTake
      /\ m.type = "take-start" => roomTake = m.val /\ deskTake \in {NoTake, roomTake}
      /\ m.type = "take-stop" => roomTake = NoTake /\ deskTake = m.val /\ toDesk = <<>> /\ "desk" \notin welcoming
  BY <1>2 DEF PlaneSide, DeskFollows
<1>7. Latest = m.val /\ (m.type = "take-stop" <=> Stops(fanouts) # {})
  BY <1>2, <1>6 DEF Latest
<1> HIDE DEF m, n, k
<1>8. n = Len(toDesk') /\ k = Len(toRecorder')
  BY DEF n, k
<1>9. /\ n \in Nat \ {0} /\ toDesk'[n] = m /\ Len(toDesk') = n /\ n = Len(toDesk) + 1 /\ Len(toDesk) \in Nat
      /\ Commands(toDesk') = {n}
      /\ Starts(toDesk) \subseteq Nat \ {0}
      /\ Starts(toDesk') = IF m.type = "take-start" THEN Starts(toDesk) \cup {n} ELSE Starts(toDesk)
      /\ \A i \in 1 .. Len(toDesk) : i < n /\ toDesk'[i] = toDesk[i]
      /\ \A i \in Starts(toDesk) : i < n /\ toDesk'[i] = toDesk[i]
      /\ \A i \in 1 .. Len(toDesk') : i \in 1 .. Len(toDesk) \/ i = n
  <2>1. Joins(toDesk, m, toDesk')
    BY <1>1, <1>2, <1>4, SocketGets
  <2> QED
    BY <1>1, <1>2, <1>6, <1>8, <2>1 DEF Joins
<1>10. \/ /\ "recorder" \in peers
          /\ k \in Nat \ {0} /\ toRecorder'[k] = m
          /\ Commands(toRecorder') = Commands(toRecorder) \cup {k}
          /\ Starts(toRecorder') = IF m.type = "take-start" THEN Starts(toRecorder) \cup {k} ELSE Starts(toRecorder)
          /\ Stops(toRecorder') = IF m.type = "take-stop" THEN Stops(toRecorder) \cup {k} ELSE Stops(toRecorder)
          /\ Starts(toRecorder) \subseteq Nat \ {0} /\ Stops(toRecorder) \subseteq Nat \ {0}
          /\ \A i \in Commands(toRecorder) \cup Starts(toRecorder) \cup Stops(toRecorder) :
               i < k /\ toRecorder'[i] = toRecorder[i]
       \/ /\ "recorder" \notin peers /\ toRecorder' = <<>> /\ activeTake = NoTake /\ Stops(toRecorder') = {}
  <2>1. CASE "recorder" \in peers
    <3>1. Joins(toRecorder, m, toRecorder')
      BY <1>1, <1>2, <1>4, <2>1, SocketGets
    <3> QED
      BY <1>2, <1>6, <1>8, <2>1, <3>1 DEF Joins
  <2>2. CASE "recorder" \notin peers
    BY <1>4, <2>2, NoCommand DEF PlaneSide, RecorderFollows
  <2> QED
    BY <2>1, <2>2
<1>11. ~ StopUp' /\ (StopUp => Stops(toRecorder) = {}) /\ (m.type = "take-stop" => StopUp)
  BY <1>1, <1>4, <1>7, NoCommand DEF StopUp, PlaneSide, StopOnce
<1>12. StopOnce'
  BY <1>10, <1>11 DEF PlaneSide, StopOnce
<1>13. StopComing' => StopComing
  BY <1>10, <1>11 DEF StopComing
<1>14. CommandAlone'
  BY <1>1, <1>3, <1>4, <1>5, <1>9, NoCommand DEF PlaneSide, CommandAlone
<1>15. DeskFollows'
  <2>0. 1 .. Len(fanouts') = {} /\ 1 .. Len(toRoom') = {}
    BY <1>1, <1>4, NoCommand
  <2>1. CASE m.type = "take-start"
    <3>1. \A i \in Starts(toDesk') : roomTake = toDesk'[i].val /\ deskTake \in {NoTake, roomTake}
      BY <1>6, <1>9, <2>1 DEF PlaneSide, DeskFollows
    <3>2. \A i \in 1 .. Len(toDesk') : toDesk'[i].type = "welcome" /\ toDesk'[i].val = NoTake =>
            deskTake = NoTake /\ (\A j \in Starts(toDesk') : i < j)
      BY <1>2, <1>6, <1>9, <2>1 DEF PlaneSide, DeskFollows
    <3> QED
      BY <1>5, <1>6, <1>9, <2>0, <2>1, <3>1, <3>2 DEF DeskFollows
  <2>2. CASE m.type = "take-stop"
    <3>1. Len(toDesk) = 0 /\ Len(toDesk') = 1 /\ Starts(toDesk') = {} /\ 1 .. 1 = {1} /\ n = 1
      BY <1>6, <1>8, <1>9, <2>2, NoCommand
    <3> QED
      BY <1>5, <1>6, <1>9, <2>0, <2>2, <3>1 DEF DeskFollows
  <2> QED
    BY <1>2, <2>1, <2>2
<1>16. Latest' = roomTake
  BY <1>4, NoCommand DEF Latest
<1>17. RecorderFollows'
  <2>1. CASE "recorder" \notin peers
    BY <1>5, <1>10, <2>1, NoCommand DEF RecorderFollows
  <2>2. CASE "recorder" \in peers /\ m.type = "take-start"
    BY <1>5, <1>6, <1>7, <1>10, <1>16, <2>2 DEF PlaneSide, RecorderFollows
  <2>3. CASE "recorder" \in peers /\ m.type = "take-stop"
    <3>1. Stops(toRecorder) = {} /\ Stops(toRecorder') = {k}
      BY <1>10, <1>11, <2>3
    <3>2. /\ \A i \in Starts(toRecorder) : i < k /\ i \in Nat /\ toRecorder'[i] = toRecorder[i] /\ toRecorder[i].val = m.val
          /\ activeTake \in {NoTake, m.val}
      BY <1>7, <1>10, <2>3, <3>1 DEF PlaneSide, RecorderFollows
    <3>3. \A i \in Commands(toRecorder') : toRecorder'[i].val # NoTake
      BY <1>6, <1>10, <2>3 DEF PlaneSide, RecorderFollows
    <3>4. Starts(toRecorder') = Starts(toRecorder) /\ toRecorder'[k] = m /\ k \in Nat
      BY <1>10, <2>3
    <3> QED
      BY <1>5, <2>3, <3>1, <3>2, <3>3, <3>4 DEF RecorderFollows
  <2> QED
    BY <1>2, <2>1, <2>2, <2>3
<1> QED
  BY <1>12, <1>13, <1>14, <1>15, <1>17 DEF PlaneSide

\* A hello finds an empty socket.
LEMMA HelloPlane == ASSUME PlaneTypes, PlaneSide, NEW c \in Client, Hello(c)
                    PROVE  PlaneSide' /\ StopComing' = StopComing
<1> USE Numbers
<1>1. /\ ~ linkUp[c] /\ linkUp' = [linkUp EXCEPT ![c] = TRUE] /\ peers' = peers \cup {c} /\ welcoming' = welcoming \cup {c}
      /\ UNCHANGED <<toClient, toRoom, roomTake, fanouts, deskTake, deskStart, activeTake, toDesk, toRecorder>>
  BY DEF Hello, deskVars, pageVars, sessionVars, toDesk, toRecorder
<1>2. c \notin peers
  BY <1>1 DEF PlaneSide, CommandAlone
<1>3. StopUp' = StopUp /\ StopComing' = StopComing /\ Latest' = Latest
  BY <1>1 DEF StopUp, StopComing, Latest
<1>4. StopOnce' /\ RecorderFollows'
  BY <1>1, <1>3 DEF PlaneSide, StopOnce, RecorderFollows
<1>5. CommandAlone'
  <2>1. \A d \in Client : d \in peers' <=> linkUp'[d]
    BY <1>1 DEF PlaneSide, CommandAlone, PlaneTypes
  <2> QED
    BY <1>1, <2>1 DEF PlaneSide, CommandAlone
<1>6. DeskFollows'
  <2>1. CASE c = "desk"
    BY <1>1, <1>2, <2>1, NoCommand DEF PlaneSide, CommandAlone, DeskFollows
  <2>2. CASE c # "desk"
    <3>1. "desk" \in welcoming' <=> "desk" \in welcoming
      BY <1>1, <2>2
    <3> QED
      BY <1>1, <3>1 DEF PlaneSide, DeskFollows
  <2> QED
    BY <2>1, <2>2
<1> QED
  BY <1>3, <1>4, <1>5, <1>6 DEF PlaneSide

\* A welcome tells of the room's take, and only a client that has no stop under way waits for one.
LEMMA WelcomePlane == ASSUME PlaneTypes, PlaneSide, NEW c \in Client, Welcome(c)
                      PROVE  PlaneSide' /\ StopComing' = StopComing
<1> USE Numbers
<1> DEFINE m == Msg("welcome", roomTake)
           n == Len(toClient'[c])
<1>1. /\ c \in welcoming /\ welcoming' = welcoming \ {c} /\ toClient' = [toClient EXCEPT ![c] = Append(@, m)]
      /\ UNCHANGED <<linkUp, toRoom, peers, roomTake, fanouts, deskTake, deskStart, activeTake>>
  BY DEF Welcome, deskVars, pageVars, sessionVars
<1>2. m \in Notice /\ m.type = "welcome" /\ m.val = roomTake /\ n = Len(toClient'[c])
  BY Words DEF Msg, PlaneTypes
<1>3. /\ toClient[c] \in Seq(Notice) /\ toClient'[c] = Append(toClient[c], m)
      /\ \A d \in Client : d # c => toClient'[d] = toClient[d]
  BY <1>1 DEF PlaneTypes
<1> HIDE DEF m, n
<1>4. c \in peers
  BY <1>1 DEF PlaneSide, CommandAlone
<1>5. CASE c = "recorder"
  <2>1. toDesk' = toDesk /\ toRecorder' = Append(toRecorder, m) /\ n = Len(toRecorder') /\ toRecorder \in Seq(Notice)
    BY <1>2, <1>3, <1>5 DEF toDesk, toRecorder, Client
  <2>2. /\ n \in Nat \ {0} /\ toRecorder'[n] = m
        /\ Starts(toRecorder) \subseteq Nat \ {0} /\ Stops(toRecorder) \subseteq Nat \ {0}
        /\ Commands(toRecorder') = Commands(toRecorder)
        /\ Starts(toRecorder') = IF roomTake # NoTake THEN Starts(toRecorder) \cup {n} ELSE Starts(toRecorder)
        /\ Stops(toRecorder') = Stops(toRecorder)
        /\ \A i \in Commands(toRecorder) \cup Starts(toRecorder) \cup Stops(toRecorder) :
             i < n /\ toRecorder'[i] = toRecorder[i]
    <3>1. Joins(toRecorder, m, toRecorder')
      BY <1>2, <2>1, SocketGets
    <3> QED
      BY <1>2, <2>1, <3>1 DEF Joins
  <2>3. StopUp' = StopUp /\ StopComing' = StopComing /\ Latest' = Latest
    BY <1>1, <2>2 DEF StopUp, StopComing, Latest
  <2>4. roomTake # NoTake => Latest = roomTake
    <3> SUFFICES ASSUME Stops(fanouts) # {} PROVE roomTake = NoTake
      BY DEF Latest
    <3> QED
      BY DEF PlaneSide, DeskFollows, Stops
  <2>5. StopOnce' /\ CommandAlone'
    BY <1>1, <2>1, <2>2, <2>3 DEF PlaneSide, StopOnce, CommandAlone
  <2>6. DeskFollows'
    BY <1>1, <1>5, <2>1 DEF PlaneSide, DeskFollows
  <2>7. RecorderFollows'
    BY <1>1, <1>2, <1>4, <1>5, <2>2, <2>3, <2>4 DEF PlaneSide, RecorderFollows
  <2> QED
    BY <2>3, <2>5, <2>6, <2>7 DEF PlaneSide
<1>6. CASE c = "desk"
  <2>1. toRecorder' = toRecorder /\ toDesk' = Append(toDesk, m) /\ n = Len(toDesk') /\ toDesk \in Seq(Notice)
    BY <1>2, <1>3, <1>6 DEF toDesk, toRecorder, Client
  <2>2. /\ n \in Nat \ {0} /\ toDesk'[n] = m /\ Len(toDesk) \in Nat
        /\ Commands(toDesk') = Commands(toDesk) /\ Starts(toDesk) \subseteq Nat \ {0}
        /\ Starts(toDesk') = IF roomTake # NoTake THEN Starts(toDesk) \cup {n} ELSE Starts(toDesk)
        /\ \A i \in 1 .. Len(toDesk) : i < n /\ toDesk'[i] = toDesk[i]
        /\ \A i \in Commands(toDesk) \cup Starts(toDesk) : i < n /\ toDesk'[i] = toDesk[i]
        /\ \A i \in 1 .. Len(toDesk') : i \in 1 .. Len(toDesk) \/ i = n
    <3>1. Joins(toDesk, m, toDesk')
      BY <1>2, <2>1, SocketGets
    <3> QED
      BY <1>2, <2>1, <3>1 DEF Joins
  <2>3. StopUp' = StopUp /\ StopComing' = StopComing /\ Latest' = Latest
    BY <1>1, <2>1 DEF StopUp, StopComing, Latest
  <2>4. StopOnce' /\ RecorderFollows'
    BY <1>1, <2>1, <2>3 DEF PlaneSide, StopOnce, RecorderFollows
  <2>5. CommandAlone'
    BY <1>1, <1>4, <1>6, <2>1, <2>2 DEF PlaneSide, CommandAlone
  <2>6. /\ \A i \in 1 .. Len(toRoom) : toRoom[i].type = "take-start"
        /\ \A i \in 1 .. Len(fanouts) : fanouts[i].type = "take-start"
        /\ \A i \in Commands(toDesk) : toDesk[i].type = "take-start"
    BY <1>1, <1>6 DEF PlaneSide, DeskFollows, PlaneTypes, Command
  <2>7. roomTake # NoTake => deskTake \in {NoTake, roomTake}
    BY <2>6, Silent DEF PlaneSide, DeskFollows, PlaneTypes
  <2>8. roomTake = NoTake => deskTake = NoTake
    BY <2>6, Silent DEF PlaneSide, DeskFollows, PlaneTypes
  <2>9. \A i \in Starts(toDesk) : roomTake = toDesk[i].val /\ roomTake # NoTake
    BY DEF PlaneSide, DeskFollows, Starts
  <2>10. \A i \in Starts(toDesk') : roomTake = toDesk'[i].val /\ deskTake \in {NoTake, roomTake}
    BY <1>2, <2>2, <2>7, <2>9
  <2>11. \A i \in 1 .. Len(toDesk') : toDesk'[i].type = "welcome" /\ toDesk'[i].val = NoTake =>
           deskTake = NoTake /\ (\A j \in Starts(toDesk') : i < j)
    <3> SUFFICES ASSUME NEW i \in 1 .. Len(toDesk'), toDesk'[i].type = "welcome", toDesk'[i].val = NoTake
                 PROVE  deskTake = NoTake /\ (\A j \in Starts(toDesk') : i < j)
      OBVIOUS
    <3>1. CASE i = n
      BY <1>2, <2>2, <2>8, <2>9, <3>1
    <3>2. CASE i \in 1 .. Len(toDesk)
      BY <2>2, <3>2 DEF PlaneSide, DeskFollows
    <3> QED
      BY <2>2, <3>1, <3>2
  <2>12. /\ toRoom' = <<>> /\ fanouts' = <<>> /\ Commands(toDesk') = {} => roomTake = deskTake
    BY <1>1, <2>2 DEF PlaneSide, DeskFollows
  <2>13. DeskFollows'
    BY <1>1, <2>2, <2>6, <2>10, <2>11, <2>12 DEF PlaneSide, DeskFollows
  <2> QED
    BY <2>3, <2>4, <2>5, <2>13 DEF PlaneSide
<1> QED
  BY <1>5, <1>6 DEF Client

\* The desk hears of a take, of its end, or that there is none: it never asserts a take
\* again, because the room never forgets one.
LEMMA DeskPlane == ASSUME PlaneTypes, PlaneSide, DeskReceives
                   PROVE  PlaneSide' /\ StopComing' = StopComing /\ UNCHANGED <<pageVars, fatal, toRoom>>
<1> USE Numbers
<1> DEFINE m == toDesk[1]
           t == toDesk[1].val
<1>1. toDesk # <<>> /\ toDesk \in Seq(Notice) /\ toDesk' = Tail(toDesk) /\ toRecorder' = toRecorder
  BY DEF DeskReceives, toDesk, toRecorder, PlaneTypes, Client
<1>2. UNCHANGED <<pageVars, fatal, peers, welcoming, roomTake, fanouts, activeTake, linkUp>>
  BY DEF DeskReceives, roomVars, pageVars, sessionVars
<1>3. Leaves(toDesk, toDesk')
  BY <1>1, SocketGives
<1>4. /\ Head(toDesk) = m /\ m \in Notice /\ Len(toDesk) \in Nat \ {0} /\ Len(toDesk') = Len(toDesk) - 1
      /\ toDesk' = <<>> <=> Len(toDesk) = 1
      /\ 1 \in Commands(toDesk) <=> m.type # "welcome"
      /\ 1 \in Starts(toDesk) <=> m.type # "take-stop" /\ t # NoTake
      /\ 1 \in 1 .. Len(toDesk)
      /\ \A i \in 1 .. Len(toDesk') : i \in Nat \ {0} /\ i + 1 \in 1 .. Len(toDesk) /\ toDesk'[i] = toDesk[i + 1]
      /\ \A i \in Commands(toDesk') : i \in Nat \ {0} /\ i + 1 \in Commands(toDesk) /\ toDesk'[i] = toDesk[i + 1]
      /\ \A i \in Starts(toDesk') : i \in Nat \ {0} /\ i + 1 \in Starts(toDesk) /\ toDesk'[i] = toDesk[i + 1]
      /\ \A i \in Commands(toDesk) : i \in Nat \ {0} /\ (i # 1 => i - 1 \in Commands(toDesk'))
  <2> DEFINE q == toDesk
             r == toDesk'
  <2>1. Leaves(q, r)
    BY <1>3
  <2> HIDE DEF q, r
  <2>2. /\ Head(q) = q[1] /\ q[1] \in Notice /\ Len(q) \in Nat \ {0} /\ Len(r) = Len(q) - 1
        /\ r = <<>> <=> Len(q) = 1
        /\ 1 \in Commands(q) <=> q[1].type # "welcome"
        /\ 1 \in Starts(q) <=> q[1].type # "take-stop" /\ q[1].val # NoTake
    BY <2>1 DEF Leaves
  <2>3. 1 \in 1 .. Len(q)
    BY <2>2
  <2>4. /\ \A i \in 1 .. Len(r) : i \in Nat \ {0} /\ i + 1 \in 1 .. Len(q) /\ r[i] = q[i + 1]
        /\ \A i \in Commands(r) : i \in Nat \ {0} /\ i + 1 \in Commands(q) /\ r[i] = q[i + 1]
        /\ \A i \in Starts(r) : i \in Nat \ {0} /\ i + 1 \in Starts(q) /\ r[i] = q[i + 1]
    BY <2>1 DEF Leaves
  <2>5. \A i \in Commands(q) : i \in Nat \ {0} /\ (i # 1 => i - 1 \in Commands(r))
    BY <2>1 DEF Leaves
  <2> QED
    BY <2>2, <2>3, <2>4, <2>5 DEF q, r
<1>5. deskStart = deskTake /\ "desk" \in peers
  BY <1>1 DEF PlaneSide, CommandAlone
<1>6. \/ m.type = "welcome" /\ DeskWelcome(t)
      \/ m.type = "take-start" /\ deskTake' = t /\ deskStart' = t /\ UNCHANGED toRoom
      \/ m.type = "take-stop" /\ DeskTakeStop(t)
  BY <1>4 DEF DeskReceives, toDesk
<1> HIDE DEF m, t
<1>7. m = toDesk[1] /\ t = toDesk[1].val
  BY DEF m, t
<1>8. m.type = "welcome" /\ t = NoTake => deskTake = NoTake
  BY <1>4, <1>7 DEF PlaneSide, DeskFollows
<1>9. m.type = "take-stop" => Len(toDesk) = 1 /\ deskTake = t /\ roomTake = NoTake
  BY <1>4, <1>7 DEF PlaneSide, DeskFollows
<1>10. m.type # "take-stop" /\ t # NoTake => roomTake = t
  BY <1>4, <1>7 DEF PlaneSide, DeskFollows
<1>11. m.type = "take-start" => t # NoTake
  BY <1>4, <1>7 DEF PlaneSide, DeskFollows
<1>12. /\ toRoom' = toRoom /\ deskStart' = deskTake'
       /\ m.type # "take-stop" /\ t # NoTake => deskTake' = t
       /\ m.type = "welcome" /\ t = NoTake => deskTake' = NoTake
       /\ m.type = "take-stop" => deskTake' = NoTake
  BY <1>5, <1>6, <1>8, <1>9, <1>11 DEF DeskWelcome, DeskTakeStop
<1>13. StopUp' = StopUp /\ StopComing' = StopComing /\ Latest' = Latest
  BY <1>1, <1>2, <1>12 DEF StopUp, StopComing, Latest
<1>14. StopOnce' /\ RecorderFollows'
  BY <1>1, <1>2, <1>13 DEF PlaneSide, StopOnce, RecorderFollows
<1>15. CommandAlone'
  <2>1. \A i, j \in Commands(toDesk') : i = j
    <3> SUFFICES ASSUME NEW i \in Commands(toDesk'), NEW j \in Commands(toDesk') PROVE i = j
      OBVIOUS
    <3>1. i + 1 \in Commands(toDesk) /\ j + 1 \in Commands(toDesk) /\ i \in Nat /\ j \in Nat
      BY <1>4
    <3>2. i + 1 = j + 1
      BY <3>1 DEF PlaneSide, CommandAlone
    <3> QED
      BY <3>1, <3>2
  <2>2. Commands(toDesk) = {} => Commands(toDesk') = {}
    BY <1>4
  <2> QED
    BY <1>2, <1>5, <1>12, <2>1, <2>2 DEF PlaneSide, CommandAlone
<1>16. CASE m.type = "take-stop"
  <2>1. toDesk' = <<>> /\ toRoom' = <<>> /\ fanouts' = <<>>
    BY <1>2, <1>4, <1>9, <1>12, <1>16 DEF PlaneSide, CommandAlone
  <2>2. DeskFollows'
    BY <1>2, <1>9, <1>12, <1>16, <2>1, NoCommand DEF DeskFollows
  <2> QED
    BY <1>2, <1>12, <1>13, <1>14, <1>15, <2>2 DEF PlaneSide
<1>17. CASE m.type # "take-stop"
  \* No stop is under way to the desk behind what it hears now.
  <2>1. \A i \in Commands(toDesk') : toDesk'[i].type = "take-start" /\ toDesk'[i].val # NoTake /\ roomTake = toDesk'[i].val
    <3> SUFFICES ASSUME NEW i \in Commands(toDesk')
                 PROVE toDesk'[i].type = "take-start" /\ toDesk'[i].val # NoTake /\ roomTake = toDesk'[i].val
      OBVIOUS
    <3>1. i + 1 \in Commands(toDesk) /\ toDesk'[i] = toDesk[i + 1] /\ i \in Nat \ {0}
      BY <1>4
    <3>2. toDesk[i + 1].type # "take-stop"
      <4> SUFFICES ASSUME toDesk[i + 1].type = "take-stop" PROVE FALSE
        OBVIOUS
      <4>1. Len(toDesk) = 1 /\ i + 1 \in 1 .. Len(toDesk)
        BY <3>1 DEF PlaneSide, DeskFollows, Commands
      <4> QED
        BY <3>1, <4>1
    <3>3. toDesk[i + 1].type = "take-start"
      <4>1. i + 1 \in 1 .. Len(toDesk) /\ toDesk[i + 1].type # "welcome"
        BY <3>1 DEF Commands
      <4>2. toDesk[i + 1] \in Notice
        BY <1>1, <4>1
      <4> QED
        BY <3>2, <4>1, <4>2 DEF Notice
    <3>4. toDesk[i + 1].val # NoTake /\ roomTake = toDesk[i + 1].val
      BY <3>1, <3>3 DEF PlaneSide, DeskFollows
    <3> QED
      BY <3>1, <3>3, <3>4
  <2>2. \A i \in 1 .. Len(toRoom) : toRoom[i].val # NoTake /\ toRoom[i].type = "take-start" /\ roomTake = NoTake /\ deskTake = NoTake
    BY <1>1 DEF PlaneSide, DeskFollows
  <2>3. \A i \in 1 .. Len(fanouts) : fanouts[i].val # NoTake /\ fanouts[i].type = "take-start" /\ roomTake = fanouts[i].val
                                     /\ deskTake \in {NoTake, roomTake}
    BY <1>1 DEF PlaneSide, DeskFollows
  <2>4. \A i \in Starts(toDesk') : roomTake = toDesk'[i].val
    BY <1>4 DEF PlaneSide, DeskFollows
  <2>5. CASE t # NoTake
    <3>1. deskTake' = t /\ roomTake = t /\ 1 \in Starts(toDesk)
      BY <1>4, <1>10, <1>12, <1>17, <2>5
    <3>2. \A i \in 1 .. Len(toDesk') : ~ (toDesk'[i].type = "welcome" /\ toDesk'[i].val = NoTake)
      <4> SUFFICES ASSUME NEW i \in 1 .. Len(toDesk'), toDesk'[i].type = "welcome", toDesk'[i].val = NoTake PROVE FALSE
        OBVIOUS
      <4>1. i + 1 \in 1 .. Len(toDesk) /\ toDesk'[i] = toDesk[i + 1] /\ i \in Nat \ {0}
        BY <1>4
      <4>2. i + 1 < 1
        BY <3>1, <4>1 DEF PlaneSide, DeskFollows
      <4> QED
        BY <4>1, <4>2
    <3>3. toRoom = <<>> /\ 1 .. Len(toRoom) = {}
      <4>1. 1 .. Len(toRoom) = {}
        BY <2>2, <2>5, <3>1
      <4>2. toRoom \in Seq(Command)
        BY DEF PlaneTypes
      <4>3. Len(toRoom) \in Nat /\ (toRoom = <<>> <=> Len(toRoom) = 0)
        BY <4>2, Silent
      <4>4. Len(toRoom) >= 1 => 1 \in 1 .. Len(toRoom)
        BY <4>3
      <4> QED
        BY <4>1, <4>3, <4>4
    <3>4. DeskFollows'
      <4>1. \A i \in 1 .. Len(fanouts) : fanouts[i].val # NoTake /\ fanouts[i].type = "take-start" /\ roomTake = fanouts[i].val
        BY <2>3
      <4>2. \A i \in 1 .. Len(toRoom') : FALSE
        BY <1>12, <3>3
      <4>3. deskTake' = roomTake' /\ roomTake' = roomTake /\ fanouts' = fanouts
        BY <1>2, <3>1
      <4> QED
        BY <2>1, <2>4, <3>2, <4>1, <4>2, <4>3 DEF DeskFollows
    <3> QED
      BY <1>2, <1>12, <1>13, <1>14, <1>15, <3>4 DEF PlaneSide
  <2>6. CASE t = NoTake
    <3>1. deskTake' = NoTake /\ deskTake = NoTake /\ m.type = "welcome"
      BY <1>4, <1>6, <1>8, <1>11, <1>12, <1>17, <2>6
    <3>2. \A i \in 1 .. Len(toDesk') : toDesk'[i].type = "welcome" /\ toDesk'[i].val = NoTake =>
            \A j \in Starts(toDesk') : i < j
      <4> SUFFICES ASSUME NEW i \in 1 .. Len(toDesk'), toDesk'[i].type = "welcome", toDesk'[i].val = NoTake,
                          NEW j \in Starts(toDesk') PROVE i < j
        OBVIOUS
      <4>1. i + 1 \in 1 .. Len(toDesk) /\ toDesk'[i] = toDesk[i + 1] /\ i \in Nat /\ j \in Nat /\ j + 1 \in Starts(toDesk)
        BY <1>4
      <4>2. i + 1 < j + 1
        BY <4>1 DEF PlaneSide, DeskFollows
      <4> QED
        BY <4>1, <4>2
    <3>3. Commands(toDesk') = {} => Commands(toDesk) = {}
      BY <1>4, <3>1
    <3>4. toRoom = <<>> /\ fanouts = <<>> /\ Commands(toDesk') = {} => roomTake = deskTake
      BY <3>3 DEF PlaneSide, DeskFollows
    <3>5. DeskFollows'
      <4>1. deskTake' = NoTake /\ deskTake = NoTake /\ roomTake' = roomTake /\ fanouts' = fanouts /\ toRoom' = toRoom
        BY <1>2, <1>12, <3>1
      <4> QED
        BY <2>1, <2>2, <2>3, <2>4, <3>2, <3>4, <4>1 DEF DeskFollows
    <3> QED
      BY <1>2, <1>12, <1>13, <1>14, <1>15, <3>5 DEF PlaneSide
  <2> QED
    BY <2>5, <2>6
<1> QED
  BY <1>16, <1>17

\* The recorder hears of a take in no take or in the same one, and of the end of its own.
LEMMA RecorderStep == ASSUME PlaneInv, FaultFreeInv, RecorderReceives
                      PROVE  FaultFreeInv'
<1> USE Numbers
<1> DEFINE m == toRecorder[1]
           t == toRecorder[1].val
<1>1. /\ toRecorder # <<>> /\ toRecorder \in Seq(Notice) /\ toRecorder' = Tail(toRecorder) /\ toDesk' = toDesk
      /\ PlaneSide /\ PageSide
  BY DEF RecorderReceives, toDesk, toRecorder, PlaneTypes, Client, PlaneInv, FaultFreeInv
<1>2. UNCHANGED <<fatal, peers, welcoming, roomTake, fanouts, linkUp, toRoom, deskTake, deskStart>>
  BY DEF RecorderReceives, roomVars, deskVars
<1>3. Leaves(toRecorder, toRecorder')
  BY <1>1, SocketGives
<1>4. /\ Head(toRecorder) = m /\ m \in Notice
      /\ 1 \in Commands(toRecorder) <=> m.type # "welcome"
      /\ 1 \in Starts(toRecorder) <=> m.type # "take-stop" /\ t # NoTake
      /\ 1 \in Stops(toRecorder) <=> m.type = "take-stop"
      /\ \A i \in Commands(toRecorder') : i \in Nat \ {0} /\ i + 1 \in Commands(toRecorder) /\ toRecorder'[i] = toRecorder[i + 1]
      /\ \A i \in Starts(toRecorder') : i \in Nat \ {0} /\ i + 1 \in Starts(toRecorder) /\ toRecorder'[i] = toRecorder[i + 1]
      /\ \A i \in Stops(toRecorder') : i \in Nat \ {0} /\ i + 1 \in Stops(toRecorder) /\ toRecorder'[i] = toRecorder[i + 1]
      /\ \A i \in Stops(toRecorder) : i \in Nat \ {0} /\ (i # 1 => i - 1 \in Stops(toRecorder'))
  BY <1>3 DEF Leaves
<1>5. t \in Take /\ "recorder" \in peers
  BY <1>1, <1>4 DEF Notice, PlaneSide, RecorderFollows
<1>6. \/ /\ m.type \in {"welcome", "take-start"} /\ t # NoTake
         /\ \E disarmed : OnTakeStart(t, disarmed, Online)
      \/ m.type = "welcome" /\ t = NoTake /\ UNCHANGED pageVars
      \/ m.type = "take-stop" /\ OnTakeStop(t, Online)
  BY <1>4 DEF RecorderReceives, toRecorder
<1> HIDE DEF m, t
<1>7. m = toRecorder[1] /\ t = toRecorder[1].val
  BY DEF m, t
<1>8. StopUp' = StopUp /\ Latest' = Latest /\ (Stops(toRecorder) = {} => Stops(toRecorder') = {})
  BY <1>2, <1>4 DEF StopUp, Latest
<1>9. StopComing' => StopComing
  BY <1>8 DEF StopComing
<1>10. CommandAlone' /\ DeskFollows'
  BY <1>1, <1>2 DEF PlaneSide, CommandAlone, DeskFollows
<1>11. StopOnce'
  <2>1. \A i, j \in Stops(toRecorder') : i = j
    <3> SUFFICES ASSUME NEW i \in Stops(toRecorder'), NEW j \in Stops(toRecorder') PROVE i = j
      OBVIOUS
    <3>1. i + 1 \in Stops(toRecorder) /\ j + 1 \in Stops(toRecorder) /\ i \in Nat /\ j \in Nat
      BY <1>4
    <3>2. i + 1 = j + 1
      BY <1>1, <3>1 DEF PlaneSide, StopOnce
    <3> QED
      BY <3>1, <3>2
  <2> QED
    BY <1>1, <1>8, <2>1 DEF PlaneSide, StopOnce
\* A start is heard in no take.
<1>12. ASSUME m.type # "take-stop", t # NoTake
       PROVE  /\ activeTake \in {NoTake, t}
              /\ Stops(toRecorder) = {} => t = Latest
              /\ \A i \in Stops(toRecorder) : toRecorder[i].val = t
  <2>1. 1 \in Starts(toRecorder) /\ 1 \notin Stops(toRecorder)
    BY <1>4, <1>12
  <2>2. \A i \in Stops(toRecorder) : 1 < i /\ toRecorder[i].val = t
    BY <1>1, <1>4, <1>7, <2>1 DEF PlaneSide, RecorderFollows
  <2>3. Stops(toRecorder) = {} => t = Latest
    BY <1>1, <1>7, <2>1 DEF PlaneSide, RecorderFollows
  <2> QED
    BY <1>1, <2>2, <2>3 DEF PlaneSide, RecorderFollows
\* What is left on the socket.
<1>13. ASSUME m.type # "take-stop", activeTake' \in {activeTake} \cup (IF t = NoTake THEN {} ELSE {t}) PROVE RecorderFollows'
  <2>1. Stops(toRecorder') = {} => Stops(toRecorder) = {}
    BY <1>4, <1>13
  <2>2. ASSUME NEW i \in Starts(toRecorder'), \A j \in Stops(toRecorder') : j < i PROVE toRecorder'[i].val = Latest
    <3>1. i + 1 \in Starts(toRecorder) /\ toRecorder'[i] = toRecorder[i + 1] /\ i \in Nat
      BY <1>4
    <3>2. ASSUME NEW j \in Stops(toRecorder) PROVE j < i + 1
      <4>1. j # 1 /\ j \in Nat /\ j - 1 \in Stops(toRecorder')
        BY <1>4, <1>13
      <4>2. j - 1 < i
        BY <2>2, <4>1
      <4> QED
        BY <3>1, <4>1, <4>2
    <3> QED
      BY <1>1, <3>1, <3>2 DEF PlaneSide, RecorderFollows
  <2>3. ASSUME NEW i \in Stops(toRecorder') PROVE activeTake' \in {NoTake, toRecorder'[i].val}
    <3>1. i + 1 \in Stops(toRecorder) /\ toRecorder'[i] = toRecorder[i + 1]
      BY <1>4
    <3>2. activeTake \in {NoTake, toRecorder[i + 1].val} /\ (t # NoTake => toRecorder[i + 1].val = t)
      BY <1>1, <1>12, <1>13, <3>1 DEF PlaneSide, RecorderFollows
    <3> QED
      BY <1>13, <3>1, <3>2
  <2>4. ASSUME NEW i \in Stops(toRecorder'), NEW j \in Starts(toRecorder'), j < i PROVE toRecorder'[j].val = toRecorder'[i].val
    <3>1. /\ i + 1 \in Stops(toRecorder) /\ toRecorder'[i] = toRecorder[i + 1]
          /\ j + 1 \in Starts(toRecorder) /\ toRecorder'[j] = toRecorder[j + 1] /\ j + 1 < i + 1
      BY <1>4, <2>4
    <3>2. \A k \in Stops(toRecorder), l \in Starts(toRecorder) : l < k => toRecorder[l].val = toRecorder[k].val
      BY <1>1 DEF PlaneSide, RecorderFollows
    <3> QED
      BY <3>1, <3>2
  <2>5. Stops(toRecorder') = {} => activeTake' \in {NoTake, Latest}
    <3>1. Stops(toRecorder') = {} => activeTake \in {NoTake, Latest} /\ (t # NoTake => t = Latest)
      BY <1>1, <1>12, <1>13, <2>1 DEF PlaneSide, RecorderFollows
    <3> QED
      BY <1>13, <3>1
  <2>6. \A i \in Commands(toRecorder') : toRecorder'[i].val # NoTake
    <3>1. \A i \in Commands(toRecorder) : toRecorder[i].val # NoTake
      BY <1>1 DEF PlaneSide, RecorderFollows
    <3> QED
      BY <1>4, <3>1
  <2> QED
    BY <1>2, <1>5, <1>8, <2>2, <2>3, <2>4, <2>5, <2>6 DEF RecorderFollows
<1>14. ASSUME UNCHANGED <<activeTake, takeOf, pipeline, latchVars, inputVars, reportVars, workerVars, queueVars>>
       PROVE  PageSide'
  <2>1. fatal' = fatal /\ UNCHANGED <<activeTake, takeOf, pipeline, latchVars, engine, queued, finalOf, queueVars>>
    BY <1>2, <1>14 DEF workerVars
  <2> QED
    BY <1>1, <1>9, <1>14, <2>1, QuietPage
<1>15. CASE m.type # "take-stop"
  <2>1. \/ UNCHANGED <<activeTake, takeOf, pipeline, latchVars, inputVars, reportVars, workerVars, queueVars>>
        \/ t # NoTake /\ activeTake # t /\ SessionArm(t, Online)
    BY <1>6, <1>15 DEF OnTakeStart, pageVars, sessionVars
  <2>2. PageSide'
    <3>1. CASE t # NoTake /\ activeTake # t /\ SessionArm(t, Online)
      <4>1. activeTake = NoTake /\ fatal' = fatal /\ t \in Take \ {NoTake}
        BY <1>2, <1>5, <1>12, <1>15, <3>1
      <4> QED
        BY <1>1, <1>9, <3>1, <4>1, SessionStep
    <3> QED
      BY <1>14, <2>1, <3>1
  <2>3. activeTake' \in {activeTake} \cup (IF t = NoTake THEN {} ELSE {t})
    BY <2>1 DEF SessionArm
  <2> QED
    BY <1>10, <1>11, <1>13, <1>15, <2>2, <2>3 DEF FaultFreeInv, PlaneSide
<1>16. CASE m.type = "take-stop"
  <2>1. /\ 1 \in Stops(toRecorder) /\ t # NoTake /\ activeTake \in {NoTake, t} /\ OnTakeStop(t, Online)
    <3>1. 1 \in Stops(toRecorder) /\ 1 \in Commands(toRecorder)
      BY <1>4, <1>16
    <3> QED
      BY <1>1, <1>6, <1>7, <1>16, <3>1 DEF PlaneSide, RecorderFollows
  <2>2. Stops(toRecorder) = {1} /\ Stops(toRecorder') = {} /\ ~ StopUp
    <3>1. \A i \in Stops(toRecorder) : i = 1
      BY <1>1, <2>1 DEF PlaneSide, StopOnce
    <3>2. \A i \in Stops(toRecorder') : FALSE
      BY <3>1, <1>4
    <3> QED
      BY <1>1, <2>1, <3>1, <3>2 DEF PlaneSide, StopOnce
  <2>3. StopComing /\ ~ StopComing'
    BY <1>8, <2>2 DEF StopComing
  <2>4. activeTake' = NoTake /\ PageSide'
    <3>1. CASE activeTake = t
      <4>1. /\ activeTake' = NoTake /\ ControllerStop(Len(takeOf), Online)
            /\ UNCHANGED <<takeOf, pipeline, workerReady, inputVars, workerVars, toMain>>
        BY <2>1, <3>1 DEF OnTakeStop
      <4> QED
        BY <1>1, <1>2, <2>1, <2>3, <3>1, <4>1, SessionStopStep
    <3>2. CASE activeTake # t
      <4>1. UNCHANGED <<activeTake, takeOf, pipeline, latchVars, inputVars, reportVars, workerVars, queueVars>>
        BY <2>1, <3>2 DEF OnTakeStop
      <4> QED
        BY <1>14, <2>1, <3>2, <4>1
    <3> QED
      BY <3>1, <3>2
  <2>5. \A i \in Starts(toRecorder') : toRecorder'[i].val = Latest
    <3> SUFFICES ASSUME NEW i \in Starts(toRecorder') PROVE toRecorder'[i].val = Latest
      OBVIOUS
    <3>1. i + 1 \in Starts(toRecorder) /\ toRecorder'[i] = toRecorder[i + 1] /\ \A j \in Stops(toRecorder) : j < i + 1
      BY <1>4, <2>2
    <3> QED
      BY <1>1, <3>1 DEF PlaneSide, RecorderFollows
  <2>6. \A i \in Commands(toRecorder') : toRecorder'[i].val # NoTake
    <3>1. \A i \in Commands(toRecorder) : toRecorder[i].val # NoTake
      BY <1>1 DEF PlaneSide, RecorderFollows
    <3> QED
      BY <1>4, <3>1
  <2>7. RecorderFollows'
    BY <1>2, <1>5, <1>8, <2>2, <2>4, <2>5, <2>6 DEF RecorderFollows
  <2> QED
    BY <1>10, <1>11, <2>4, <2>7 DEF FaultFreeInv, PlaneSide
<1> QED
  BY <1>15, <1>16
-----------------------------------------------------------------------------
\* What leaves the plane and the active take leaves its side.
LEMMA PlaneLasts == ASSUME PlaneSide, UNCHANGED <<linkVars, roomVars, deskVars, activeTake>> PROVE PlaneSide'
<1>1. UNCHANGED <<linkUp, toRoom, peers, welcoming, roomTake, fanouts, deskTake, deskStart, activeTake, toDesk, toRecorder>>
  BY DEF linkVars, roomVars, deskVars, toDesk, toRecorder
<1>2. StopUp' = StopUp /\ Latest' = Latest
  BY <1>1 DEF StopUp, Latest
<1> QED
  BY <1>1, <1>2 DEF PlaneSide, CommandAlone, DeskFollows, StopOnce, RecorderFollows

\* What leaves the page leaves its side, unless a stop is under way now.
LEMMA PageLasts == ASSUME PlaneInv, PageSide, UNCHANGED pageVars, fatal' = fatal, StopComing' => StopComing PROVE PageSide'
<1>1. UNCHANGED <<activeTake, takeOf, pipeline, latchVars, engine, queued, finalOf, queueVars, reportVars>>
  BY DEF pageVars, sessionVars, workerVars
<1> QED
  BY <1>1, QuietPage

\* A stop is sent when the answers to the last command have been heard: the snapshot is the
\* engine's.
LEMMA StopSent == ASSUME PlaneInv, FaultFreeInv, StopTake, RecorderAnswered PROVE PageSide'
<1>1. PageSide /\ PageTypes /\ UNCHANGED pageVars /\ fatal' = fatal
  BY DEF FaultFreeInv, PlaneInv, StopTake
<1>2. UNCHANGED <<sessionVars, pipeline, latchVars, inputVars, reportVars, workerVars, queueVars>>
  BY <1>1 DEF pageVars
<1>3. UNCHANGED <<activeTake, takeOf, workerReady, pendingArm, stopIsCurrent, takeOpen, engine, queued, finalOf,
                  toWorker, toMain, stopping, snapFinal, snapStats, sentFinals>>
  BY <1>2 DEF sessionVars, latchVars, reportVars, workerVars, queueVars
<1>4. Arms' = Arms /\ Halts' = Halts /\ Streaming' = Streaming /\ \A type : Answers(type)' = Answers(type)
  BY <1>3 DEF Arms, Halts, Streaming, Answers
<1>5. Halts = {} /\ Answers("stopped") = {} /\ Answers("armed") = {} /\ snapStats = engine.stream
  <2>1. toWorker = <<>> /\ snapStats = engine.stream /\ \A i \in 1 .. Len(toMain) : toMain[i].type = "stats"
    BY <1>1 DEF RecorderAnswered, PageTypes, MainTypes
  <2> QED
    BY <2>1 DEF Halts, Answers
<1>6. ReportIsOver /\ ReportIsOver' = ReportIsOver
  <2>1. ReportIsOver
    BY <1>1, <1>5 DEF PageSide, StatsInOrder, ReportIsOver
  <2> QED
    BY <2>1, <1>3, <1>4 DEF ReportIsOver
<1>7. StatsInOrder' /\ FinalsStand'
  BY <1>1, <1>3, <1>4 DEF PageSide, StatsInOrder, FinalsStand
<1>8. PageUp' /\ ArmsInOrder' /\ NewestIsLive' /\ OneIsLive' /\ LatchCovers'
  BY <1>1, <1>2, <1>3, <1>4 DEF PageSide, PageUp, ArmsInOrder, NewestIsLive, OneIsLive, LatchCovers
<1>9. StopAlone'
  BY <1>4, <1>5 DEF StopAlone
<1>10. AwaitedIsRight'
  BY <1>3, <1>4, <1>5, <1>6 DEF AwaitedIsRight
<1> QED
  BY <1>7, <1>8, <1>9, <1>10 DEF PageSide

\* Every step of the page itself.
LEMMA PageStepKeeps == ASSUME PlaneInv, FaultFreeInv, PageRuns \/ SinksSettle \/ ChangeInput
                       PROVE  FaultFreeInv'
<1>1. UNCHANGED <<linkVars, roomVars, deskVars>>
  BY DEF PageRuns, SinksSettle, ChangeInput
<1>2. pipeline = "on"
  BY DEF FaultFreeInv, PageSide, PageUp
<1>3. /\ \/ WorkerBoots \/ WorkerArm \/ WorkerStop \/ Pump \/ SendStats
         \/ OnReady(Online) \/ OnArmed(Online) \/ OnStats(Online) \/ OnStopped(Online)
         \/ EngineCloses \/ BeginSwitch \/ EndSwitch(Online)
  BY <1>2 DEF PageRuns, PageStep, SinksSettle, ChangeInput, TeardownEnds
<1>4. activeTake' = activeTake
  BY <1>3 DEF WorkerBoots, WorkerArm, WorkerStop, Pump, SendStats, OnReady, OnArmed, OnStats, OnStopped, EngineCloses,
              BeginSwitch, EndSwitch, sessionVars
<1>5. PlaneSide'
  BY <1>1, <1>4, PlaneLasts DEF FaultFreeInv
<1>6. PageSide'
  <2>1. CASE WorkerBoots \/ SendStats
    BY <1>1, <2>1, TalkStep
  <2>2. CASE WorkerArm
    BY <1>1, <2>2, ArmStep
  <2>3. CASE WorkerStop
    BY <1>1, <2>3, StopStep
  <2>4. CASE Pump
    BY <1>1, <2>4, PumpStep
  <2>5. CASE OnReady(Online)
    BY <1>1, <2>5, ReadyStep
  <2>6. CASE OnArmed(Online)
    BY <1>1, <2>6, ArmedStep
  <2>7. CASE OnStats(Online)
    BY <1>1, <2>7, StatsStep
  <2>8. CASE OnStopped(Online)
    BY <1>1, <2>8, StoppedStep
  <2>9. CASE EngineCloses
    BY <1>1, <2>9, CloseStep
  <2>10. CASE BeginSwitch \/ EndSwitch(Online)
    BY <1>1, <2>10, SwitchStep
  <2> QED
    BY <1>3, <2>1, <2>2, <2>3, <2>4, <2>5, <2>6, <2>7, <2>8, <2>9, <2>10
<1> QED
  BY <1>5, <1>6 DEF FaultFreeInv

\* Without faults the invariant lasts, when no stop outruns the recorder.
LEMMA FaultFreeStep == ASSUME PlaneInv, FaultFreeInv, [Next]_vars, faults' = faults, StopTake => RecorderAnswered
                       PROVE  FaultFreeInv'
<1>1. PlaneTypes /\ PlaneSide /\ PageSide /\ fatal = FALSE /\ pipeline = "on"
  BY DEF PlaneInv, FaultFreeInv, PageSide, PageUp
<1>2. ASSUME PlaneSide', UNCHANGED pageVars, fatal' = fatal, StopComing' => StopComing PROVE FaultFreeInv'
  BY <1>1, <1>2, PageLasts DEF FaultFreeInv
<1>3. CASE UNCHANGED vars
  <2>1. UNCHANGED <<pageVars, linkVars, roomVars, deskVars>>
    BY <1>3 DEF vars
  <2>2. UNCHANGED <<activeTake, fatal>>
    BY <2>1 DEF pageVars, sessionVars, linkVars
  <2>3. PlaneSide' /\ StopComing' = StopComing
    BY <1>1, <2>1, <2>2, PlaneLasts, PlaneRests
  <2> QED
    BY <1>2, <2>1, <2>2, <2>3
<1>4. CASE StartTake
  BY <1>1, <1>2, <1>4, StartPlane DEF StartTake
<1>5. CASE StopTake
  BY <1>1, <1>5, StopPlane, StopSent DEF FaultFreeInv
<1>6. CASE DeskReceives
  BY <1>1, <1>2, <1>6, DeskPlane
<1>7. CASE RoomHandles
  BY <1>1, <1>2, <1>7, RoomPlane DEF RoomHandles
<1>8. CASE FanOut
  BY <1>1, <1>2, <1>8, FanPlane DEF FanOut
<1>9. ASSUME NEW c \in Client, Hello(c) PROVE FaultFreeInv'
  BY <1>1, <1>2, <1>9, HelloPlane DEF Hello
<1>10. ASSUME NEW c \in Client, Welcome(c) PROVE FaultFreeInv'
  BY <1>1, <1>2, <1>10, WelcomePlane DEF Welcome
<1>11. CASE RecorderReceives
  BY <1>11, RecorderStep
<1>12. CASE PageRuns \/ SinksSettle \/ ChangeInput
  BY <1>12, PageStepKeeps
<1>13. ASSUME TakeOver \/ EnableMic PROVE FALSE
  BY <1>1, <1>13 DEF TakeOver, EnableMic, StartCapture
<1>14. ASSUME Crash \/ Supersede \/ \E c \in Client : Cut(c) PROVE FALSE
  <2>1. faults' = faults + 1 /\ faults \in Nat
    BY <1>1, <1>14 DEF Crash, Supersede, Cut, Fault, PlaneTypes
  <2> QED
    BY <2>1
<1> QED
  BY <1>3, <1>4, <1>5, <1>6, <1>7, <1>8, <1>9, <1>10, <1>11, <1>12, <1>13, <1>14 DEF Next
-----------------------------------------------------------------------------
\* A bound on a queue's takes survives what joins and leaves it, and a later bound.
LEMMA UpToGrows == ASSUME NEW S, NEW q \in Seq(S), NEW m \in S, NEW r, r = Append(q, m), NEW t, UpTo(q, t), m.val <= t
                   PROVE  UpTo(r, t)
<1>1. /\ Len(q) \in Nat /\ Len(r) = Len(q) + 1 /\ r[Len(r)] = m /\ \A i \in 1 .. Len(q) : r[i] = q[i]
  BY Joined
<1>2. \A i \in 1 .. Len(r) : i \in 1 .. Len(q) \/ i = Len(r)
  BY <1>1
<1> QED
  BY <1>1, <1>2 DEF UpTo

LEMMA UpToFalls == ASSUME NEW S, NEW q \in Seq(S), q # <<>>, NEW r, r = Tail(q), NEW t, UpTo(q, t)
                   PROVE  UpTo(r, t) /\ Head(q).val <= t
<1>1. /\ Len(q) \in Nat \ {0} /\ Len(r) = Len(q) - 1 /\ Head(q) = q[1] /\ \A i \in 1 .. Len(r) : r[i] = q[i + 1]
  BY Departed
<1>2. 1 \in 1 .. Len(q) /\ \A i \in 1 .. Len(r) : i + 1 \in 1 .. Len(q)
  BY <1>1
<1> QED
  BY <1>1, <1>2 DEF UpTo

LEMMA UpToLasts == ASSUME NEW q, q \in Seq(Notice) \/ q \in Seq(Command), NEW b \in Nat, NEW c \in Nat, b <= c, UpTo(q, b)
                   PROVE  UpTo(q, c)
<1> USE Numbers
<1>1. \A i \in 1 .. Len(q) : q[i].val \in Nat
  <2>1. \A m \in Notice : m.val \in Nat
    BY DEF Notice
  <2>2. \A i \in 1 .. Len(q) : q[i] \in Notice
    BY Words
  <2> QED
    BY <2>1, <2>2
<1> QED
  BY <1>1 DEF UpTo

\* What a take number is.
LEMMA TakeNumbers == ASSUME PlaneTypes, PageTypes
                     PROVE  /\ lastTake \in Nat /\ roomTake \in Nat /\ deskTake \in Nat /\ NoTake = 0
                            /\ toRoom \in Seq(Command) /\ fanouts \in Seq(Command)
                            /\ \A c \in Client : toClient[c] \in Seq(Notice)
                            /\ takeOf \in Seq(Take) /\ \A s \in 1 .. Len(takeOf) : takeOf[s] \in Nat
<1> USE Numbers
<1>1. takeOf \in Seq(Take) /\ Take \subseteq Nat
  BY DEF PageTypes
<1>2. \A s \in 1 .. Len(takeOf) : takeOf[s] \in Take
  BY <1>1
<1> QED
  BY <1>1, <1>2 DEF PlaneTypes, NoTake

\* Streams are named by the session alone, each for the take it was told to record
\* (recorder-session.ts armForTake).
LEMMA StreamsNamed == ASSUME [Next]_vars
                      PROVE  \/ takeOf' = takeOf
                             \/ /\ RecorderReceives
                                /\ takeOf' = Append(takeOf, Head(toRecorder).val)
                                /\ ~ IsDisarmed(Head(toRecorder).val, peerKnown')
<1>1. CASE UNCHANGED vars
  BY <1>1 DEF vars, pageVars, sessionVars
<1>2. CASE StartTake \/ StopTake \/ DeskReceives \/ RoomHandles \/ FanOut
  BY <1>2 DEF StartTake, StopTake, DeskReceives, RoomHandles, FanOut, pageVars, sessionVars
<1>3. CASE \E c \in Client : Hello(c) \/ Welcome(c) \/ Cut(c)
  BY <1>3 DEF Hello, Welcome, Cut, pageVars, sessionVars
<1>4. CASE RecorderReceives
  <2> DEFINE m == Head(toRecorder)
  <2>1. /\ peerKnown' = (peerKnown \/ m.type = "welcome")
        /\ \/ OnTakeStart(m.val, IsDisarmed(m.val, peerKnown \/ m.type = "welcome"), Online)
           \/ UNCHANGED pageVars
           \/ OnTakeStop(m.val, Online)
    BY <1>4 DEF RecorderReceives, toRecorder
  <2> HIDE DEF m
  <2>2. CASE UNCHANGED pageVars
    BY <2>2 DEF pageVars, sessionVars
  <2>3. CASE OnTakeStop(m.val, Online)
    BY <2>3 DEF OnTakeStop
  <2>4. CASE OnTakeStart(m.val, IsDisarmed(m.val, peerKnown \/ m.type = "welcome"), Online)
    <3>1. \/ takeOf' = takeOf
          \/ ~ IsDisarmed(m.val, peerKnown \/ m.type = "welcome") /\ SessionArm(m.val, Online)
      BY <2>4 DEF OnTakeStart, pageVars, sessionVars
    <3> QED
      BY <1>4, <2>1, <3>1 DEF SessionArm, m
  <2> QED
    BY <2>1, <2>2, <2>3, <2>4
<1>5. CASE PageRuns
  BY <1>5 DEF PageRuns, PageStep, WorkerBoots, WorkerArm, WorkerStop, Pump, SendStats, OnReady, OnArmed, OnStats, OnStopped,
              TeardownEnds, sessionVars
<1>6. CASE SinksSettle \/ ChangeInput
  BY <1>6 DEF SinksSettle, ChangeInput, EngineCloses, BeginSwitch, EndSwitch, sessionVars
<1>7. CASE TakeOver \/ EnableMic
  BY <1>7 DEF TakeOver, EnableMic, StartCapture, pageVars, sessionVars
<1>8. CASE Crash \/ Supersede
  BY <1>8 DEF Crash, Supersede, HaltForFatal, pageVars, sessionVars
<1> QED
  BY <1>1, <1>2, <1>3, <1>4, <1>5, <1>6, <1>7, <1>8 DEF Next

\* What the faults leave, every step leaves.
LEMMA NoFault == ASSUME PlaneTypes, faults' = faults PROVE ~ Crash /\ ~ Supersede /\ \A c \in Client : ~ Cut(c)
<1>1. faults \in Nat
  BY DEF PlaneTypes
<1> QED
  BY <1>1 DEF Crash, Supersede, Cut, Fault

\* Without faults no take is named before its start (desk-session.ts startTake).
LEMMA StartedStep == ASSUME PlaneInv, FaultFreeInv, TakesAreStarted, [Next]_vars, faults' = faults
                     PROVE  TakesAreStarted'
<1> USE Numbers
<1>1. /\ PlaneTypes /\ PageTypes /\ PlaneSide /\ ~ Crash /\ ~ Supersede /\ (\A c \in Client : ~ Cut(c))
      /\ "desk" \in Client /\ "recorder" \in Client
  BY NoFault DEF PlaneInv, FaultFreeInv, Client
<1>2. /\ lastTake \in Nat /\ roomTake \in Nat /\ deskTake \in Nat /\ NoTake = 0
      /\ toRoom \in Seq(Command) /\ fanouts \in Seq(Command) /\ \A c \in Client : toClient[c] \in Seq(Notice)
      /\ takeOf \in Seq(Take) /\ \A s \in 1 .. Len(takeOf) : takeOf[s] \in Nat
  BY <1>1, TakeNumbers
<1>3. toClient \in [Client -> Seq(Notice)]
  BY <1>1 DEF PlaneTypes
<1>4. ASSUME UNCHANGED <<toRoom, fanouts, toClient, roomTake, deskTake, lastTake, takeOf>> PROVE TakesAreStarted'
  BY <1>4 DEF TakesAreStarted, UpTo
<1>5. CASE UNCHANGED vars
  BY <1>4, <1>5 DEF vars, pageVars, sessionVars, linkVars, roomVars, deskVars
<1>6. CASE StartTake
  <2>1. /\ lastTake' = lastTake + 1
        /\ toRoom' = toRoom \/ toRoom' = Append(toRoom, Msg("take-start", lastTake'))
        /\ UNCHANGED <<pageVars, roomVars, toClient, deskTake>>
    BY <1>6 DEF StartTake, DeskSends
  <2>2. UNCHANGED <<fanouts, roomTake, takeOf>>
    BY <2>1 DEF roomVars, pageVars, sessionVars
  <2>3. lastTake' \in Nat /\ lastTake <= lastTake' /\ lastTake' \in Take
    <3>1. lastTake' \in Take
      BY <1>6, <1>2 DEF StartTake, Take
    <3> QED
      BY <2>1, <1>2, <3>1
  <2>4. UpTo(toRoom, lastTake') /\ UpTo(fanouts, lastTake') /\ \A c \in Client : UpTo(toClient[c], lastTake')
    BY <1>2, <2>3, UpToLasts DEF TakesAreStarted
  <2>5. Msg("take-start", lastTake') \in Command /\ Msg("take-start", lastTake').val <= lastTake'
    <3>1. Msg("take-start", lastTake') \in Command
      BY <2>3, Words
    <3>2. Msg("take-start", lastTake').val = lastTake' /\ lastTake' <= lastTake'
      BY <2>3 DEF Msg
    <3> QED
      BY <3>1, <3>2
  <2>6. UpTo(toRoom', lastTake')
    BY <1>2, <2>1, <2>4, <2>5, UpToGrows
  <2> QED
    BY <1>2, <2>1, <2>2, <2>3, <2>4, <2>6 DEF TakesAreStarted
<1>7. CASE StopTake
  <2>1. /\ toRoom' = toRoom \/ toRoom' = Append(toRoom, Msg("take-stop", deskTake))
        /\ UNCHANGED <<pageVars, roomVars, toClient, deskTake, lastTake>>
    BY <1>7 DEF StopTake, DeskSends, deskVars
  <2>2. UNCHANGED <<fanouts, roomTake, takeOf>>
    BY <2>1 DEF roomVars, pageVars, sessionVars
  <2>3. Msg("take-stop", deskTake) \in Command /\ Msg("take-stop", deskTake).val <= lastTake
    BY <1>1, Words DEF Msg, PlaneTypes, TakesAreStarted
  <2>4. UpTo(toRoom', lastTake)
    BY <1>2, <2>1, <2>3, UpToGrows DEF TakesAreStarted
  <2> QED
    BY <2>1, <2>2, <2>4 DEF TakesAreStarted
<1>8. CASE DeskReceives
  <2> DEFINE m == Head(toClient["desk"])
  <2>1. /\ UNCHANGED <<pageVars, toRoom, roomVars, lastTake>>
        /\ toClient' = [toClient EXCEPT !["desk"] = Tail(@)] /\ toClient["desk"] # <<>>
        /\ deskTake' \in {deskTake, m.val, NoTake, deskStart}
    BY <1>1, <1>8, DeskPlane DEF DeskReceives, DeskWelcome, DeskTakeStop
  <2>2. UNCHANGED <<fanouts, roomTake, takeOf>> /\ deskStart = deskTake
    BY <1>1, <2>1 DEF roomVars, pageVars, sessionVars, PlaneSide, CommandAlone
  <2>3. UpTo(toClient'["desk"], lastTake) /\ m.val <= lastTake
    <3>1. toClient'["desk"] = Tail(toClient["desk"])
      BY <1>1, <1>3, <2>1
    <3> QED
      BY <1>1, <1>2, <2>1, <3>1, UpToFalls DEF TakesAreStarted
  <2>4. \A c \in Client : UpTo(toClient'[c], lastTake)
    BY <1>3, <2>1, <2>3 DEF TakesAreStarted
  <2>5. deskTake' <= lastTake
    BY <1>2, <2>1, <2>2, <2>3 DEF TakesAreStarted
  <2> QED
    BY <2>1, <2>2, <2>4, <2>5 DEF TakesAreStarted
<1>9. CASE RoomHandles
  <2>1. /\ toRoom # <<>> /\ toRoom' = Tail(toRoom) /\ fanouts' = Append(fanouts, Head(toRoom))
        /\ roomTake' \in {roomTake, NoTake, Head(toRoom).val}
        /\ UNCHANGED <<pageVars, toClient, deskVars>>
    BY <1>9 DEF RoomHandles
  <2>2. UNCHANGED <<deskTake, lastTake, takeOf>>
    BY <2>1 DEF deskVars, pageVars, sessionVars
  <2>3. UpTo(toRoom', lastTake) /\ Head(toRoom).val <= lastTake
    BY <1>2, <2>1, UpToFalls DEF TakesAreStarted
  <2>4. Head(toRoom) \in Command
    BY <1>2, <2>1, Departed
  <2>5. UpTo(fanouts', lastTake)
    BY <1>2, <2>1, <2>3, <2>4, UpToGrows DEF TakesAreStarted
  <2> QED
    BY <1>2, <2>1, <2>2, <2>3, <2>5 DEF TakesAreStarted
<1>10. CASE FanOut
  <2>1. /\ fanouts # <<>> /\ fanouts' = Tail(fanouts)
        /\ \A c \in Client : toClient'[c] = IF c \in peers THEN Append(toClient[c], Head(fanouts)) ELSE toClient[c]
        /\ UNCHANGED <<pageVars, toRoom, roomTake, deskVars>>
    BY <1>10 DEF FanOut
  <2>2. UNCHANGED <<deskTake, lastTake, takeOf>>
    BY <2>1 DEF deskVars, pageVars, sessionVars
  <2>3. UpTo(fanouts', lastTake) /\ Head(fanouts).val <= lastTake
    BY <1>2, <2>1, UpToFalls DEF TakesAreStarted
  <2>4. Head(fanouts) \in Notice
    BY <1>2, <2>1, Departed, Words
  <2>5. ASSUME NEW c \in Client PROVE UpTo(Append(toClient[c], Head(fanouts)), lastTake)
    <3>1. toClient[c] \in Seq(Notice) /\ UpTo(toClient[c], lastTake)
      BY <1>2 DEF TakesAreStarted
    <3> DEFINE q == toClient[c]
               h == Head(fanouts)
               r == Append(q, h)
    <3>2. q \in Seq(Notice) /\ h \in Notice /\ UpTo(q, lastTake) /\ h.val <= lastTake
      BY <2>3, <2>4, <3>1
    <3>3. r = Append(q, h)
      OBVIOUS
    <3> HIDE DEF q, h, r
    <3>4. UpTo(r, lastTake)
      BY <3>2, <3>3, UpToGrows
    <3> QED
      BY <3>4 DEF q, h, r
  <2>6. \A c \in Client : UpTo(toClient'[c], lastTake)
    BY <2>1, <2>5 DEF TakesAreStarted
  <2> QED
    BY <2>1, <2>2, <2>3, <2>6 DEF TakesAreStarted
<1>11. ASSUME NEW c \in Client, Welcome(c) PROVE TakesAreStarted'
  <2>1. /\ toClient' = [toClient EXCEPT ![c] = Append(@, Msg("welcome", roomTake))]
        /\ UNCHANGED <<pageVars, toRoom, roomTake, fanouts, deskVars>>
    BY <1>11 DEF Welcome
  <2>2. UNCHANGED <<deskTake, lastTake, takeOf>>
    BY <2>1 DEF deskVars, pageVars, sessionVars
  <2>3. Msg("welcome", roomTake) \in Notice /\ Msg("welcome", roomTake).val <= lastTake
    BY <1>1, Words DEF Msg, PlaneTypes, TakesAreStarted
  <2>4. UpTo(Append(toClient[c], Msg("welcome", roomTake)), lastTake)
    <3>1. toClient[c] \in Seq(Notice) /\ UpTo(toClient[c], lastTake)
      BY <1>2 DEF TakesAreStarted
    <3> DEFINE q == toClient[c]
               w == Msg("welcome", roomTake)
               r == Append(q, w)
    <3>2. q \in Seq(Notice) /\ w \in Notice /\ UpTo(q, lastTake) /\ w.val <= lastTake
      BY <2>3, <3>1
    <3>3. r = Append(q, w)
      OBVIOUS
    <3> HIDE DEF q, w, r
    <3>4. UpTo(r, lastTake)
      BY <3>2, <3>3, UpToGrows
    <3> QED
      BY <3>4 DEF q, w, r
  <2>5. \A d \in Client : UpTo(toClient'[d], lastTake)
    BY <1>3, <2>1, <2>4 DEF TakesAreStarted
  <2> QED
    BY <2>1, <2>2, <2>5 DEF TakesAreStarted
<1>12. CASE RecorderReceives
  <2>1. /\ UNCHANGED <<toRoom, roomVars, deskVars>> /\ toClient["recorder"] # <<>>
        /\ toClient' = [toClient EXCEPT !["recorder"] = Tail(@)]
    BY <1>12 DEF RecorderReceives
  <2>2. UNCHANGED <<fanouts, roomTake, deskTake, lastTake>>
    BY <2>1 DEF roomVars, deskVars
  <2>3. UpTo(toClient'["recorder"], lastTake) /\ Head(toRecorder).val <= lastTake
    <3>1. toClient'["recorder"] = Tail(toClient["recorder"])
      BY <1>1, <1>3, <2>1
    <3> QED
      BY <1>1, <1>2, <2>1, <3>1, UpToFalls DEF TakesAreStarted, toRecorder
  <2>4. \A c \in Client : UpTo(toClient'[c], lastTake)
    BY <1>3, <2>1, <2>3 DEF TakesAreStarted
  <2>5. \A s \in 1 .. Len(takeOf') : takeOf'[s] <= lastTake
    <3>1. Head(toRecorder) \in Notice
      BY <1>1, <1>2, <2>1, Departed DEF toRecorder
    <3>2. Head(toRecorder).val \in Take
      BY <3>1 DEF Notice
    <3>3. CASE takeOf' = takeOf
      BY <3>3 DEF TakesAreStarted
    <3>4. CASE takeOf' = Append(takeOf, Head(toRecorder).val)
      BY <1>2, <2>3, <3>2, <3>4 DEF TakesAreStarted
    <3> QED
      BY <3>3, <3>4, StreamsNamed
  <2> QED
    BY <2>1, <2>2, <2>4, <2>5 DEF TakesAreStarted
<1>13. CASE (\E c \in Client : Hello(c)) \/ PageRuns \/ SinksSettle \/ ChangeInput \/ TakeOver \/ EnableMic
  <2>1. UNCHANGED <<toRoom, fanouts, toClient, roomTake, deskTake, lastTake>>
    BY <1>13 DEF Hello, PageRuns, SinksSettle, ChangeInput, TakeOver, EnableMic, linkVars, roomVars, deskVars
  <2>2. ~ RecorderReceives \/ TakesAreStarted'
    BY <1>12
  <2> QED
    BY <1>4, <2>1, <2>2, StreamsNamed
<1> QED
  BY <1>1, <1>5, <1>6, <1>7, <1>8, <1>9, <1>10, <1>11, <1>12, <1>13 DEF Next

\* A recorder is told its name (server session-room.ts hello), and keeps it.
LEMMA ToldStep == ASSUME PlaneInv, RecorderIsTold, [Next]_vars, faults' = faults
                  PROVE  RecorderIsTold' /\ (peerKnown = TRUE => peerKnown' = TRUE)
<1>1. /\ PlaneTypes /\ ~ Crash /\ ~ Supersede /\ (\A c \in Client : ~ Cut(c))
      /\ toClient \in [Client -> Seq(Notice)] /\ toRecorder \in Seq(Notice) /\ fanouts \in Seq(Command)
  BY NoFault DEF PlaneInv, PlaneTypes, Client, toRecorder
<1>2. ASSUME UNCHANGED <<peers, peerKnown, welcoming, toRecorder>>
      PROVE  RecorderIsTold' /\ (peerKnown = TRUE => peerKnown' = TRUE)
  BY <1>2 DEF RecorderIsTold
<1>3. CASE StartTake \/ StopTake \/ RoomHandles \/ PageRuns \/ SinksSettle \/ ChangeInput \/ TakeOver \/ EnableMic
           \/ UNCHANGED vars
  <2>1. UNCHANGED <<peers, peerKnown, welcoming, toRecorder>>
    BY <1>3 DEF StartTake, StopTake, RoomHandles, PageRuns, SinksSettle, ChangeInput, TakeOver, EnableMic, vars, roomVars,
                linkVars, toRecorder
  <2> QED
    BY <1>2, <2>1
<1>4. CASE DeskReceives
  <2>1. UNCHANGED <<peers, peerKnown, welcoming, toRecorder>>
    BY <1>1, <1>4 DEF DeskReceives, roomVars, toRecorder, Client
  <2> QED
    BY <1>2, <2>1
<1>5. CASE FanOut
  <2>1. UNCHANGED <<peers, peerKnown, welcoming>>
        /\ toRecorder' \in {toRecorder, Append(toRecorder, Head(fanouts))} /\ fanouts # <<>>
    BY <1>5 DEF FanOut, toRecorder, Client
  <2>2. Head(fanouts) \in Notice
    BY <1>1, <2>1, Departed, Words
  <2>3. \A i \in 1 .. Len(toRecorder) : i \in 1 .. Len(toRecorder') /\ toRecorder'[i] = toRecorder[i]
    <3>1. CASE toRecorder' = Append(toRecorder, Head(fanouts))
      <4>1. /\ Len(toRecorder) \in Nat /\ Len(toRecorder') = Len(toRecorder) + 1
            /\ \A i \in 1 .. Len(toRecorder) : toRecorder'[i] = toRecorder[i]
        BY <1>1, <2>2, <3>1, Joined
      <4> QED
        BY <4>1
    <3> QED
      BY <2>1, <3>1
  <2> QED
    BY <2>1, <2>3 DEF RecorderIsTold
<1>6. ASSUME NEW c \in Client, Hello(c) PROVE RecorderIsTold' /\ (peerKnown = TRUE => peerKnown' = TRUE)
  BY <1>6 DEF Hello, RecorderIsTold, toRecorder
<1>7. ASSUME NEW c \in Client, Welcome(c) PROVE RecorderIsTold' /\ (peerKnown = TRUE => peerKnown' = TRUE)
  <2> DEFINE w == Msg("welcome", roomTake)
  <2>1. /\ welcoming' = welcoming \ {c} /\ toClient' = [toClient EXCEPT ![c] = Append(@, w)]
        /\ UNCHANGED <<peers, peerKnown>> /\ w \in Notice /\ w.type = "welcome"
    BY <1>1, <1>7, Words DEF Welcome, PlaneTypes, Msg
  <2> HIDE DEF w
  <2>2. CASE c = "recorder"
    <3>1. toRecorder' = Append(toRecorder, w)
      BY <1>1, <2>1, <2>2 DEF toRecorder
    <3>2. Len(toRecorder) \in Nat /\ Len(toRecorder') = Len(toRecorder) + 1 /\ toRecorder'[Len(toRecorder')] = w
      BY <1>1, <2>1, <3>1, Joined
    <3>3. Len(toRecorder') \in 1 .. Len(toRecorder')
      BY <3>2
    <3> QED
      BY <2>1, <3>2, <3>3 DEF RecorderIsTold
  <2>3. CASE c # "recorder"
    BY <1>1, <2>1, <2>3 DEF RecorderIsTold, toRecorder, Client
  <2> QED
    BY <2>2, <2>3
<1>8. CASE RecorderReceives
  <2>1. /\ peerKnown' = (peerKnown \/ Head(toRecorder).type = "welcome") /\ toRecorder # <<>>
        /\ toRecorder' = Tail(toRecorder) /\ UNCHANGED <<peers, welcoming>>
    BY <1>1, <1>8 DEF RecorderReceives, toRecorder, roomVars, Client
  <2>2. Leaves(toRecorder, toRecorder')
    BY <1>1, <2>1, SocketGives
  <2>3. ASSUME NEW i \in 1 .. Len(toRecorder), toRecorder[i].type = "welcome"
        PROVE  peerKnown' = TRUE \/ \E j \in 1 .. Len(toRecorder') : toRecorder'[j].type = "welcome"
    <3>1. CASE i = 1
      BY <2>1, <2>2, <2>3, <3>1 DEF Leaves
    <3>2. CASE i # 1
      <4>1. i - 1 \in 1 .. Len(toRecorder') /\ (i - 1) + 1 = i
        BY <2>2, <3>2 DEF Leaves
      <4>2. toRecorder'[i - 1] = toRecorder[i]
        BY <2>2, <4>1 DEF Leaves
      <4> QED
        BY <2>3, <4>1, <4>2
    <3> QED
      BY <3>1, <3>2
  <2> QED
    BY <2>1, <2>3 DEF RecorderIsTold
<1> QED
  BY <1>1, <1>3, <1>4, <1>5, <1>6, <1>7, <1>8 DEF Next

\* The desk disarms a recorder only for the take it starts, and one that knows its name
\* sits that take out (recorder-session.ts isDisarmed).
LEMMA DisarmedStep == ASSUME PlaneInv, TakesAreStarted, RecorderIsTold, NeverArmedFor, [Next]_vars, faults' = faults,
                             StartTake => RecorderAnswered
                      PROVE  NeverArmedFor'
<1> USE Numbers
<1>1. PlaneTypes /\ PageTypes /\ ~ Crash /\ ~ Supersede /\ (\A c \in Client : ~ Cut(c)) /\ (peerKnown = TRUE => peerKnown' = TRUE)
      /\ peerKnown \in BOOLEAN
  BY NoFault, ToldStep DEF PlaneInv, PlaneTypes
<1>2. lastTake \in Nat /\ takeOf \in Seq(Take) /\ \A s \in 1 .. Len(takeOf) : takeOf[s] \in Nat
  BY <1>1, TakeNumbers
<1>3. CASE StartTake
  <2>1. /\ lastTake' = lastTake + 1 /\ takeOf' = takeOf /\ peerKnown' = peerKnown
        /\ disarmedFor' = disarmedFor \/ ("recorder" \in peers /\ disarmedFor' = disarmedFor \cup {lastTake'})
    BY <1>3 DEF StartTake, pageVars, sessionVars
  <2>2. toRecorder = <<>> /\ welcoming = {}
    BY <1>3 DEF RecorderAnswered, toRecorder
  <2>3. "recorder" \in peers => peerKnown = TRUE
    BY <1>1, <2>2, NoCommand DEF RecorderIsTold
  <2>4. \A s \in 1 .. Len(takeOf) : takeOf[s] # lastTake'
    BY <1>2, <2>1 DEF TakesAreStarted
  <2> QED
    BY <2>1, <2>3, <2>4 DEF NeverArmedFor
<1>4. CASE ~ StartTake
  <2>1. disarmedFor' = disarmedFor
    BY <1>1, <1>4 DEF Next, vars, deskVars, StopTake, DeskReceives, RoomHandles, FanOut, Hello, Welcome, RecorderReceives,
                      PageRuns, SinksSettle, ChangeInput, TakeOver, EnableMic
  <2>2. CASE takeOf' = takeOf
    BY <1>1, <2>1, <2>2 DEF NeverArmedFor
  <2>3. CASE /\ takeOf' = Append(takeOf, Head(toRecorder).val)
             /\ ~ IsDisarmed(Head(toRecorder).val, peerKnown')
             /\ RecorderReceives
    <3>1. Head(toRecorder).val \notin disarmedFor
      BY <1>1, <2>3 DEF IsDisarmed, NeverArmedFor
    <3>2. Head(toRecorder).val \in Take
      <4>1. toRecorder \in Seq(Notice) /\ toRecorder # <<>>
        BY <1>1, <2>3 DEF PlaneTypes, RecorderReceives, toRecorder, Client
      <4>2. Head(toRecorder) \in Notice
        BY <4>1, Departed
      <4> QED
        BY <4>2 DEF Notice
    <3>3. \A s \in 1 .. Len(takeOf') : takeOf'[s] \in {takeOf[r] : r \in 1 .. Len(takeOf)} \cup {Head(toRecorder).val}
      BY <1>2, <2>3, <3>2
    <3> QED
      BY <1>1, <2>1, <3>1, <3>3 DEF NeverArmedFor
  <2> QED
    BY <2>2, <2>3, StreamsNamed
<1> QED
  BY <1>3, <1>4
-----------------------------------------------------------------------------
(***************************************************************************)
(* The scenes together.                                                    *)
(***************************************************************************)
\* A step of a scene is a step of the system that waits for the recorder where the scene
\* does, or leaves the system alone.
LEMMA SceneSteps == ASSUME PlaneInv, [MCNext]_mcVars, "stop" \notin Hurried
                    PROVE  /\ scene' = scene /\ [Next]_vars
                           /\ StopTake => RecorderAnswered
                           /\ scene # "faults" => faults' = faults
                           /\ scene = "calm" /\ StartTake => RecorderAnswered
                           /\ scene = "faults" => switching' # "yes" \/ switching' = switching
<1>1. StopTake => RecorderAnswered
  BY DEF StopTake, OperatorReady, RecorderAnswered
<1>2. CASE UNCHANGED <<scene, vars>>
  <2>1. ~ StartTake
    <3>1. lastTake \in Nat /\ lastTake' = lastTake
      BY <1>2, Numbers DEF PlaneInv, PlaneTypes, vars, deskVars
    <3> QED
      BY <3>1 DEF StartTake
  <2>2. faults' = faults /\ switching' = switching
    BY <1>2 DEF vars, pageVars, inputVars
  <2> QED
    BY <1>1, <1>2, <2>1, <2>2
<1>3. CASE scene # "archive" /\ scene' = scene /\ Next /\ Within
  <2>1. StartTake => lastTake' # lastTake
    <3>1. lastTake \in Nat
      BY Numbers DEF PlaneInv, PlaneTypes
    <3> QED
      BY <3>1 DEF StartTake
  <2> QED
    BY <1>1, <1>3, <2>1 DEF Within
<1> QED
  BY <1>2, <1>3 DEF MCNext, mcVars, Rolling, Archiving

\* Nothing has happened yet.
LEMMA TakesBegin == MCInit => TakesInv
<1> USE Numbers
<1> SUFFICES ASSUME MCInit PROVE TakesInv
  OBVIOUS
<1>1. Init /\ PlaneInv /\ switching # "yes"
  BY PlaneStarts DEF MCInit, Init, PageInit
<1>2. /\ activeTake = NoTake /\ stopping = NoStream /\ takeOf = <<>> /\ pipeline = "on" /\ fatal = FALSE
      /\ ~ workerReady /\ pendingArm = NoStream /\ stopIsCurrent = FALSE /\ snapFinal = NoFinal
      /\ engine = NoEngine /\ queued = NoStream /\ toWorker = <<>> /\ toMain = <<>>
      /\ finalOf = [s \in 1 .. MaxStream |-> NoFinal] /\ sentFinals = {}
      /\ linkUp = [c \in Client |-> FALSE] /\ toDesk = <<>> /\ toRecorder = <<>> /\ toRoom = <<>> /\ fanouts = <<>>
      /\ peers = {} /\ welcoming = {} /\ roomTake = NoTake /\ deskTake = NoTake /\ deskStart = NoTake
      /\ lastTake = 0 /\ disarmedFor = {} /\ toClient = [c \in Client |-> <<>>]
  BY <1>1 DEF Init, PageInit, toDesk, toRecorder, Client
<1>3. ~ Streaming /\ engine.stream = NoStream /\ NoStream = 0 /\ NoTake = 0
  BY <1>2 DEF Streaming, NoEngine, NoStream, NoTake
<1>4. Arms = {} /\ Halts = {} /\ \A type : Answers(type) = {}
  BY <1>2, NoCommand DEF Arms, Halts, Answers
<1>5. ~ StopUp /\ ~ StopComing /\ Stops(toRecorder) = {} /\ Starts(toRecorder) = {} /\ Commands(toRecorder) = {}
  BY <1>2, NoCommand DEF StopUp, StopComing
<1>6. PlaneSide
  <2>1. CommandAlone
    BY <1>2, NoCommand DEF CommandAlone
  <2>2. DeskFollows
    BY <1>2, NoCommand DEF DeskFollows
  <2>3. StopOnce /\ RecorderFollows
    BY <1>2, <1>5 DEF StopOnce, RecorderFollows
  <2> QED
    BY <2>1, <2>2, <2>3 DEF PlaneSide
<1>7. PageSide
  <2>1. ArmsInOrder
    BY <1>2, <1>3, <1>4, NoCommand DEF ArmsInOrder
  <2>2. FinalsStand
    BY <1>2, <1>3 DEF FinalsStand
  <2>3. PageUp /\ StopAlone /\ NewestIsLive /\ OneIsLive /\ LatchCovers /\ StatsInOrder /\ AwaitedIsRight
    BY <1>2, <1>3, <1>4, <1>5 DEF PageUp, StopAlone, NewestIsLive, OneIsLive, LatchCovers, StatsInOrder, AwaitedIsRight
  <2> QED
    BY <2>1, <2>2, <2>3 DEF PageSide
<1>8. TakesAreStarted /\ RecorderIsTold /\ NeverArmedFor
  BY <1>2, <1>3, NoCommand DEF TakesAreStarted, UpTo, RecorderIsTold, NeverArmedFor
<1> QED
  BY <1>1, <1>6, <1>7, <1>8 DEF TakesInv, FaultFreeInv

\* The invariant holds in every scene.
LEMMA TakesLast == ASSUME TakesInv, [MCNext]_mcVars, "stop" \notin Hurried
                   PROVE  TakesInv'
<1>1. /\ PlaneInv /\ scene' = scene /\ [Next]_vars /\ (StopTake => RecorderAnswered)
      /\ scene # "faults" => faults' = faults
      /\ scene = "calm" /\ StartTake => RecorderAnswered
      /\ scene = "faults" => switching' # "yes" \/ switching' = switching
  BY SceneSteps DEF TakesInv
<1>2. PlaneInv'
  BY <1>1, PlaneKeeps
<1>3. CASE scene # "faults"
  <2>1. FaultFreeInv /\ TakesAreStarted /\ RecorderIsTold /\ faults' = faults
    BY <1>1, <1>3 DEF TakesInv
  <2>2. FaultFreeInv'
    BY <1>1, <2>1, FaultFreeStep
  <2>3. TakesAreStarted' /\ RecorderIsTold'
    BY <1>1, <2>1, StartedStep, ToldStep
  <2>4. scene = "calm" => NeverArmedFor'
    BY <1>1, <2>1, DisarmedStep DEF TakesInv
  <2> QED
    BY <1>1, <1>2, <1>3, <2>2, <2>3, <2>4 DEF TakesInv
<1>4. CASE scene = "faults"
  BY <1>1, <1>2, <1>4 DEF TakesInv
<1> QED
  BY <1>3, <1>4

LEMMA TakesHold == ASSUME "stop" \notin Hurried PROVE MCSpec => []TakesInv
<1>1. TakesInv /\ [MCNext]_mcVars => TakesInv'
  BY TakesLast
<1> QED
  BY <1>1, TakesBegin, PTL DEF MCSpec

\* The types, whatever the operator, the sockets and the faults do (TakeControl, RecorderPage).
LEMMA TypesFollow == PlaneInv => ControlTypeOK
<1> USE Numbers
<1> SUFFICES ASSUME PlaneInv PROVE ControlTypeOK
  OBVIOUS
<1>1. PageTypes /\ PlaneTypes
  BY DEF PlaneInv
<1>2. engine.stream \in Stream
  BY <1>1, PageNumbers
<1>3. \/ engine = NoEngine
      \/ engine.stream # NoStream /\ engine.state \in {"streaming", "draining", "closed"}
  BY <1>1 DEF PageTypes
<1>4. {snapFinal} \cup {finalOf[s] : s \in 1 .. MaxStream} \subseteq FinalSeqs \cup {NoFinal}
  BY <1>1 DEF PageTypes, Final
<1>5. /\ {activeTake, sittingOut, roomTake, deskTake, deskStart, lastTake} \subseteq Take
      /\ {stopping, pendingArm, queued, snapStats} \subseteq Stream
      /\ takeOf \in Seq(Take) /\ Len(takeOf) <= MaxStream
      /\ pipeline \in {"off", "on", "closing"} /\ switching \in {"no", "yes", "stale"}
      /\ {workerReady, stopIsCurrent, takeOpen, booted, peerKnown, fatal} \subseteq BOOLEAN
      /\ peers \cup welcoming \subseteq Client /\ linkUp \in [Client -> BOOLEAN]
  BY <1>1 DEF PageTypes, PlaneTypes
<1> QED
  BY <1>2, <1>3, <1>4, <1>5 DEF ControlTypeOK

\* Every variable of the page and of the control plane keeps its type, with faults of any
\* number and operators in any hurry.
THEOREM ControlTyped == Spec => []ControlTypeOK
<1> QED
  BY PlaneStarts, PlaneKeeps, TypesFollow, PTL DEF Spec

\* With an operator who gives a stop only when the recorder has answered, the page records
\* what it shall: it sits out the takes it was disarmed for in the calm scene, a take waits
\* only behind an older engine, and a stream-final names the stream's own final sequence
\* number (recorder-session.ts armForTake and reportStreamFinal, capture-controller.ts,
\* encoder.worker.ts).  In the scene with faults it is the types that last.
THEOREM TakesAreTrue == ASSUME "stop" \notin Hurried
                        PROVE  MCSpec => [](ControlTypeOK /\ (scene # "faults" => TakeTruth))
<1>1. TakesInv => ControlTypeOK /\ (scene # "faults" => TakeTruth)
  <2> SUFFICES ASSUME TakesInv PROVE ControlTypeOK /\ (scene # "faults" => TakeTruth)
    OBVIOUS
  <2>1. ControlTypeOK /\ PageTypes
    BY TypesFollow DEF TakesInv, PlaneInv
  <2>2. ASSUME scene # "faults" PROVE FinalIsTruth /\ QueueBehindOlder
    BY <2>2 DEF TakesInv, FaultFreeInv, PageSide, FinalsStand, FinalIsTruth, ArmsInOrder, QueueBehindOlder
  <2>3. ASSUME scene = "calm", NEW t \in disarmedFor, Captures(t) PROVE FALSE
    <3>1. Streaming /\ takeOf[engine.stream] = t /\ (\A s \in 1 .. Len(takeOf) : takeOf[s] \notin disarmedFor)
          /\ engine.stream <= Len(takeOf)
      BY <2>3 DEF Captures, TakesInv, NeverArmedFor, FaultFreeInv, PageSide, ArmsInOrder
    <3>2. engine.stream \in Nat \ {0} /\ Len(takeOf) \in Nat
      BY <2>1, <3>1, PageNumbers DEF NoStream
    <3>3. engine.stream \in 1 .. Len(takeOf)
      BY <3>1, <3>2
    <3> QED
      BY <3>1, <3>3
  <2> QED
    BY <2>1, <2>2, <2>3 DEF TakeTruth, CalmSitsOut, SitsOut, LivingFinalIsTruth, TakesQueueInOrder
<1> QED
  BY <1>1, TakesHold, PTL

\* With such an operator the input is swapped only while no take is armed, being armed or
\* waiting: the latch covers the way of an arm through controller, queue and worker
\* (capture-controller.ts switchDevice).
THEOREM InputStaysInTake == ASSUME "stop" \notin Hurried PROVE MCSpec => SwapBetweenTakes
<1>1. TakesInv /\ [MCNext]_mcVars
        => [device' # device => /\ ~ Streaming /\ queued = NoStream
                                /\ \A i \in DOMAIN toWorker : toWorker[i].type # "arm"]_vars
  <2> SUFFICES ASSUME TakesInv, [MCNext]_mcVars, device' # device
               PROVE  /\ ~ Streaming /\ queued = NoStream
                      /\ \A i \in DOMAIN toWorker : toWorker[i].type # "arm"
    OBVIOUS
  <2>1. [Next]_vars /\ PageTypes
    BY SceneSteps DEF TakesInv, PlaneInv
  <2>2. EndSwitch(Online)
    <3>1. ChangeInput
      BY <2>1 DEF Next, vars, pageVars, inputVars, StartTake, StopTake, DeskReceives, RoomHandles, FanOut, Hello, Welcome,
                  Cut, RecorderReceives, OnTakeStart, OnTakeStop, SessionArm, PageRuns, PageStep, WorkerBoots, WorkerArm,
                  WorkerStop, Pump, SendStats, OnReady, OnArmed, OnStats, OnStopped, TeardownEnds, SinksSettle,
                  EngineCloses, TakeOver, EnableMic, StartCapture, Crash, Supersede, HaltForFatal
    <3> QED
      BY <3>1 DEF ChangeInput, BeginSwitch
  <2>3. MaySwap
    BY <2>2 DEF EndSwitch
  <2>4. LatchCovers /\ ~ takeOpen
    BY <2>3 DEF MaySwap, TakesInv, FaultFreeInv, PageSide
  <2>5. ~ Streaming /\ queued = NoStream /\ Arms = {} /\ DOMAIN toWorker = 1 .. Len(toWorker)
    BY <2>1, <2>4 DEF LatchCovers, PageTypes
  <2> QED
    BY <2>5 DEF Arms
<1> QED
  BY <1>1, TakesHold, PTL DEF MCSpec, SwapBetweenTakes
-----------------------------------------------------------------------------
(***************************************************************************)
(* The desk keeps its take until it is stopped.                            *)
(***************************************************************************)
\* What queues say: of which take, of which stops, and that a command names a take.
InTake(q, t) == \A i \in 1 .. Len(q) : q[i].val \in {NoTake, t}
StopsIn(q, T) == \A i \in 1 .. Len(q) : q[i].type = "take-stop" => q[i].val \in T
Named(q) == \A i \in 1 .. Len(q) : q[i].type # "welcome" => q[i].val # NoTake
LastOf(q) == q[Len(q)]

\* Nothing on the way between desk and room is about another take than t.
Agreed(t) ==
  /\ roomTake \in {NoTake, t} /\ deskTake \in {NoTake, t} /\ deskStart \in {NoTake, t}
  /\ InTake(toRoom, t) /\ InTake(fanouts, t) /\ InTake(toDesk, t)

StopAbout == Stops(toRoom) # {} \/ Stops(fanouts) # {} \/ Stops(toDesk) # {}

\* The last word the desk will hear is the room's, if it is no stop.
DeskWillHear ==
  /\ linkUp["desk"] => "desk" \in peers
  /\ "desk" \in welcoming => linkUp["desk"]
  /\ fanouts # <<>> /\ LastOf(fanouts).type = "take-start" => LastOf(fanouts).val = roomTake
  /\ (linkUp["desk"] /\ "desk" \notin welcoming /\ fanouts = <<>>) =>
       /\ toDesk = <<>> /\ deskTake # NoTake => roomTake \in {NoTake, deskTake}
       /\ toDesk # <<>> /\ LastOf(toDesk).type # "take-stop" => LastOf(toDesk).val = roomTake

\* As long as a stop is on its way, desk, room and all that is between them are about its
\* take: it was given when they agreed.
KeepInv ==
  /\ deskTake # NoTake => deskStart = deskTake
  /\ DeskWillHear
  /\ StopAbout => \E t : Agreed(t)
  /\ Named(toRoom) /\ Named(fanouts) /\ Named(toDesk)
  /\ StopsIn(fanouts, stopped) /\ StopsIn(toDesk, stopped)

\* A queue that gets a message says what it said and what the message says ...
LEMMA QueueGets == ASSUME NEW q \in Seq(Notice), NEW m \in Notice, NEW r, r = Append(q, m)
                   PROVE  /\ r # <<>> /\ LastOf(r) = m
                          /\ \A t : InTake(q, t) /\ m.val \in {NoTake, t} => InTake(r, t)
                          /\ \A T : StopsIn(q, T) /\ (m.type = "take-stop" => m.val \in T) => StopsIn(r, T)
                          /\ Named(q) /\ (m.type # "welcome" => m.val # NoTake) => Named(r)
                          /\ Stops(r) # {} => Stops(q) # {} \/ m.type = "take-stop"
<1>1. /\ Len(q) \in Nat /\ Len(r) = Len(q) + 1 /\ r[Len(r)] = m /\ \A i \in 1 .. Len(q) : r[i] = q[i]
  BY Joined
<1>2. \A i \in 1 .. Len(r) : i \in 1 .. Len(q) \/ i = Len(r)
  BY <1>1
<1>3. r # <<>>
  OBVIOUS
<1> QED
  BY <1>1, <1>2, <1>3 DEF InTake, StopsIn, Named, Stops, LastOf

\* ... and one that gives its first says no more than before.
LEMMA QueueGives == ASSUME NEW q \in Seq(Notice), q # <<>>, NEW r, r = Tail(q)
                    PROVE  /\ Head(q) \in Notice
                           /\ \A t : InTake(q, t) => InTake(r, t) /\ Head(q).val \in {NoTake, t}
                           /\ \A T : StopsIn(q, T) => StopsIn(r, T) /\ (Head(q).type = "take-stop" => Head(q).val \in T)
                           /\ Named(q) => Named(r) /\ (Head(q).type # "welcome" => Head(q).val # NoTake)
                           /\ Stops(r) # {} \/ Head(q).type = "take-stop" => Stops(q) # {}
                           /\ r # <<>> => LastOf(r) = LastOf(q)
                           /\ r = <<>> => Head(q) = LastOf(q)
<1>1. /\ r \in Seq(Notice) /\ Len(q) \in Nat \ {0} /\ Len(r) = Len(q) - 1
      /\ Head(q) = q[1] /\ q[1] \in Notice
      /\ \A i \in 1 .. Len(r) : r[i] = q[i + 1]
  BY Departed
<1>2. 1 \in 1 .. Len(q) /\ \A i \in 1 .. Len(r) : i + 1 \in 1 .. Len(q)
  BY <1>1
<1>3. r = <<>> <=> Len(r) = 0
  BY <1>1, Silent
<1>4. r # <<>> => Len(r) \in 1 .. Len(r) /\ Len(r) + 1 = Len(q)
  BY <1>1, <1>3
<1>5. r = <<>> => Len(q) = 1
  BY <1>1, <1>3
<1> QED
  BY <1>1, <1>2, <1>4, <1>5 DEF InTake, StopsIn, Named, Stops, LastOf

\* An empty queue says nothing.
LEMMA Quiet == Stops(<<>>) = {} /\ Named(<<>>) /\ \A T : InTake(<<>>, T) /\ StopsIn(<<>>, T)
  BY NoCommand DEF InTake, StopsIn, Named, Stops

\* Types, once.
LEMMA Wires == ASSUME PlaneTypes
               PROVE  /\ toRoom \in Seq(Notice) /\ fanouts \in Seq(Notice) /\ toDesk \in Seq(Notice)
                      /\ toRoom \in Seq(Command) /\ fanouts \in Seq(Command)
                      /\ roomTake \in Take /\ deskTake \in Take /\ deskStart \in Take
<1>1. \A q \in Seq(Command) : q \in Seq(Notice)
  BY Words
<1> QED
  BY <1>1 DEF PlaneTypes, Client, toDesk

\* What touches neither the desk, nor its link, nor the room keeps the invariant.
LEMMA DeskRests == ASSUME KeepInv, toDesk' = toDesk, linkUp'["desk"] = linkUp["desk"],
                          "desk" \in peers' <=> "desk" \in peers, "desk" \in welcoming' <=> "desk" \in welcoming,
                          UNCHANGED <<toRoom, fanouts, roomTake, stopped, deskTake, deskStart>>
                   PROVE  KeepInv'
  BY DEF KeepInv, DeskWillHear, StopAbout, Agreed, InTake, StopsIn, Named, Stops, LastOf, toDesk

\* A take starts when nothing is on its way, so no stop is.
LEMMA KeepStart == ASSUME PlaneTypes, KeepInv, StartTake PROVE KeepInv'
<1>1. /\ toRoom = <<>> /\ fanouts = <<>> /\ toDesk = <<>>
      /\ lastTake < MaxTake /\ lastTake' = lastTake + 1 /\ DeskSends(Msg("take-start", lastTake'))
      /\ UNCHANGED <<linkUp, toClient, roomVars, deskTake, deskStart>>
  BY DEF StartTake, OperatorReady, toDesk
<1>2. lastTake' \in Take /\ lastTake' # NoTake
  BY <1>1, Numbers DEF PlaneTypes, Take, NoTake
<1>3. Stops(toRoom') = {} /\ Named(toRoom')
  <2>1. CASE toRoom' = toRoom
    BY <1>1, <2>1, Quiet
  <2>2. CASE toRoom' = Append(toRoom, Msg("take-start", lastTake'))
    <3>1. Msg("take-start", lastTake') \in Notice /\ Msg("take-start", lastTake').type = "take-start"
          /\ Msg("take-start", lastTake').val = lastTake'
      BY <1>2, Words DEF Msg
    <3>2. toRoom \in Seq(Notice)
      BY Wires
    <3> QED
      BY <1>1, <1>2, <2>2, <3>1, <3>2, QueueGets, Quiet
  <2> QED
    BY <1>1, <2>1, <2>2 DEF DeskSends
<1>4. ~ StopAbout'
  BY <1>1, <1>3, Quiet DEF StopAbout, toDesk, roomVars
<1>5. toDesk' = toDesk /\ UNCHANGED <<linkUp, peers, welcoming, fanouts, roomTake, stopped, deskTake, deskStart>>
  BY <1>1 DEF toDesk, roomVars
<1> QED
  BY <1>3, <1>4, <1>5 DEF KeepInv, DeskWillHear, StopsIn, Named, LastOf

\* A stop is given when nothing is on its way: the room has the desk's take or none, and
\* the stop names that take.
LEMMA KeepStop == ASSUME PlaneTypes, KeepInv, StopTake, "stop" \notin Hurried PROVE KeepInv'
<1>1. /\ toRoom = <<>> /\ fanouts = <<>> /\ toDesk = <<>> /\ welcoming = {} /\ deskTake # NoTake /\ linkUp["desk"]
      /\ DeskSends(Msg("take-stop", deskTake)) /\ UNCHANGED <<linkUp, toClient, roomVars, deskVars>>
  BY DEF StopTake, OperatorReady, toDesk
<1>2. Msg("take-stop", deskTake) \in Notice /\ Msg("take-stop", deskTake).val = deskTake /\ deskTake \in Take
  BY Words, Wires DEF Msg
<1>3. toRoom' = Append(toRoom, Msg("take-stop", deskTake)) /\ toRoom \in Seq(Notice)
  BY <1>1, Wires DEF DeskSends
<1>4. InTake(toRoom', deskTake) /\ Named(toRoom')
  <2>1. InTake(toRoom, deskTake) /\ Named(toRoom)
    BY <1>1, Quiet
  <2> QED
    BY <1>1, <1>2, <1>3, <2>1, QueueGets
<1>5. roomTake \in {NoTake, deskTake} /\ deskStart = deskTake
  BY <1>1 DEF KeepInv, DeskWillHear
<1>6. toDesk' = toDesk /\ UNCHANGED <<linkUp, peers, welcoming, fanouts, roomTake, stopped, deskTake, deskStart>>
  BY <1>1 DEF toDesk, roomVars, deskVars
<1>7. Agreed(deskTake)'
  BY <1>1, <1>4, <1>5, <1>6, Quiet DEF Agreed
<1>8. \E t : Agreed(t)'
  BY <1>7
<1> QED
  BY <1>4, <1>6, <1>8 DEF KeepInv, DeskWillHear, StopsIn, Named, LastOf

\* What the desk hears is about the take of the stop under way; it drops its take only on a
\* stop, which then is that take's.
LEMMA KeepDesk == ASSUME PlaneTypes, KeepInv, DeskReceives
                  PROVE  KeepInv' /\ (deskTake # NoTake /\ deskTake' = NoTake => deskTake \in stopped)
<1> DEFINE m == Head(toDesk)
<1>1. /\ toDesk # <<>> /\ toDesk' = Tail(toDesk)
      /\ UNCHANGED <<linkUp, roomVars>>
      /\ \/ m.type = "welcome" /\ DeskWelcome(m.val)
         \/ m.type = "take-start" /\ deskTake' = m.val /\ deskStart' = m.val /\ UNCHANGED toRoom
         \/ m.type = "take-stop" /\ DeskTakeStop(m.val)
  BY DEF DeskReceives, toDesk, PlaneTypes, Client
<1>2. UNCHANGED <<peers, welcoming, fanouts, roomTake, stopped>>
  BY <1>1 DEF roomVars
<1>3. /\ toRoom \in Seq(Notice) /\ toDesk \in Seq(Notice)
      /\ roomTake \in Take /\ deskTake \in Take /\ deskStart \in Take
  BY Wires
<1>4. /\ m \in Notice
      /\ \A t : InTake(toDesk, t) => InTake(toDesk', t) /\ m.val \in {NoTake, t}
      /\ \A T : StopsIn(toDesk, T) => StopsIn(toDesk', T) /\ (m.type = "take-stop" => m.val \in T)
      /\ Named(toDesk) => Named(toDesk') /\ (m.type # "welcome" => m.val # NoTake)
      /\ Stops(toDesk') # {} \/ m.type = "take-stop" => Stops(toDesk) # {}
      /\ toDesk' # <<>> => LastOf(toDesk') = LastOf(toDesk)
      /\ toDesk' = <<>> => m = LastOf(toDesk)
  BY <1>1, <1>3, QueueGives
<1> HIDE DEF m
<1>5. toRoom' = toRoom \/ toRoom' = Append(toRoom, Msg("take-start", deskStart))
  BY <1>1 DEF DeskWelcome, DeskTakeStop, DeskSends
<1>6. Msg("take-start", deskStart) \in Notice /\ Msg("take-start", deskStart).type = "take-start"
      /\ Msg("take-start", deskStart).val = deskStart
  BY <1>3, Words DEF Msg
<1>7. /\ Named(toRoom')
      /\ Stops(toRoom') # {} => Stops(toRoom) # {}
      /\ \A t : InTake(toRoom, t) /\ deskStart \in {NoTake, t} => InTake(toRoom', t)
  <2>1. CASE toRoom' = toRoom
    BY <2>1 DEF KeepInv
  <2>2. CASE toRoom' # toRoom
    <3>1. deskStart # NoTake
      BY <1>1, <2>2 DEF DeskWelcome, DeskTakeStop
    <3>2. Named(toRoom)
      BY DEF KeepInv
    <3> QED
      BY <1>3, <1>5, <1>6, <2>2, <3>1, <3>2, QueueGets
  <2> QED
    BY <2>1, <2>2
<1>8. StopAbout' => StopAbout
  BY <1>2, <1>4, <1>7 DEF StopAbout
<1>9. ASSUME NEW t, Agreed(t) PROVE Agreed(t)'
  <2>1. deskTake' \in {deskTake, NoTake, deskStart, m.val} /\ deskStart' \in {deskStart, NoTake, m.val}
    BY <1>1 DEF DeskWelcome, DeskTakeStop
  <2> QED
    BY <1>2, <1>4, <1>7, <1>9, <2>1 DEF Agreed
<1>10. StopAbout' => \E t : Agreed(t)'
  BY <1>8, <1>9 DEF KeepInv
<1>11. deskTake' # NoTake => deskStart' = deskTake'
  BY <1>1 DEF KeepInv, DeskWelcome, DeskTakeStop
<1>12. StopsIn(toDesk', stopped') /\ StopsIn(fanouts', stopped') /\ Named(toDesk') /\ Named(fanouts')
  BY <1>2, <1>4 DEF KeepInv
<1>13. ASSUME linkUp["desk"], "desk" \notin welcoming, fanouts = <<>>
       PROVE  /\ toDesk' = <<>> /\ deskTake' # NoTake => roomTake \in {NoTake, deskTake'}
              /\ toDesk' # <<>> /\ LastOf(toDesk').type # "take-stop" => LastOf(toDesk').val = roomTake
  <2>1. LastOf(toDesk).type # "take-stop" => LastOf(toDesk).val = roomTake
    BY <1>1, <1>13 DEF KeepInv, DeskWillHear
  <2>2. ASSUME toDesk' = <<>>, deskTake' # NoTake PROVE roomTake \in {NoTake, deskTake'}
    <3>1. m.type # "take-stop" => m.val = roomTake
      BY <1>4, <2>1, <2>2
    <3> QED
      BY <1>1, <2>2, <3>1 DEF DeskWelcome, DeskTakeStop
  <2> QED
    BY <1>4, <2>1, <2>2
<1>14. DeskWillHear'
  BY <1>1, <1>2, <1>13 DEF KeepInv, DeskWillHear
<1>15. ASSUME deskTake # NoTake, deskTake' = NoTake PROVE deskTake \in stopped
  <2>1. m.type = "take-stop"
    BY <1>1, <1>4, <1>15 DEF KeepInv, DeskWelcome
  <2>2. m.val \in stopped /\ m.val # NoTake /\ StopAbout
    BY <1>4, <2>1 DEF KeepInv, StopAbout
  <2>3. PICK t : Agreed(t)
    BY <2>2 DEF KeepInv
  <2>4. m.val \in {NoTake, t} /\ deskTake \in {NoTake, t}
    BY <1>4, <2>3 DEF Agreed
  <2> QED
    BY <1>15, <2>2, <2>4
<1> QED
  BY <1>7, <1>10, <1>11, <1>12, <1>14, <1>15 DEF KeepInv

\* The room's take is the one of the last command it has handled.
LEMMA KeepRoom == ASSUME PlaneTypes, KeepInv, RoomHandles PROVE KeepInv'
<1> DEFINE m == Head(toRoom)
<1>1. /\ toRoom # <<>> /\ toRoom' = Tail(toRoom) /\ fanouts' = Append(fanouts, m)
      /\ \/ m.type = "take-start" /\ roomTake' = m.val /\ UNCHANGED stopped
         \/ /\ m.type = "take-stop" /\ roomTake' = IF roomTake = m.val THEN NoTake ELSE roomTake
            /\ stopped' = stopped \cup {m.val}
      /\ UNCHANGED <<linkUp, toClient, peers, welcoming, deskVars>>
  BY DEF RoomHandles
<1>2. toRoom \in Seq(Notice) /\ fanouts \in Seq(Notice) /\ roomTake \in Take
  BY Wires
<1>3. /\ m \in Notice
      /\ \A t : InTake(toRoom, t) => InTake(toRoom', t) /\ m.val \in {NoTake, t}
      /\ Named(toRoom) => Named(toRoom') /\ (m.type # "welcome" => m.val # NoTake)
      /\ Stops(toRoom') # {} \/ m.type = "take-stop" => Stops(toRoom) # {}
  BY <1>1, <1>2, QueueGives
<1> HIDE DEF m
<1>4. stopped \subseteq stopped' /\ (m.type = "take-stop" => m.val \in stopped')
  BY <1>1
<1>5. StopsIn(fanouts, stopped') /\ StopsIn(toDesk, stopped')
  BY <1>4 DEF KeepInv, StopsIn
<1>6. /\ fanouts' # <<>> /\ LastOf(fanouts') = m
      /\ StopsIn(fanouts', stopped') /\ Named(fanouts')
      /\ \A t : InTake(fanouts, t) /\ m.val \in {NoTake, t} => InTake(fanouts', t)
      /\ Stops(fanouts') # {} => Stops(fanouts) # {} \/ m.type = "take-stop"
  <2>1. Named(fanouts) /\ (m.type # "welcome" => m.val # NoTake)
    BY <1>3 DEF KeepInv
  <2> QED
    BY <1>1, <1>2, <1>3, <1>4, <1>5, <2>1, QueueGets
<1>7. toDesk' = toDesk /\ UNCHANGED <<deskTake, deskStart>>
  BY <1>1 DEF toDesk, deskVars
<1>8. StopAbout' => StopAbout
  BY <1>3, <1>6, <1>7 DEF StopAbout
<1>9. \A t : Agreed(t) => Agreed(t)'
  BY <1>1, <1>3, <1>6, <1>7 DEF Agreed
<1>10. StopAbout' => \E t : Agreed(t)'
  BY <1>8, <1>9 DEF KeepInv
<1>11. DeskWillHear'
  BY <1>1, <1>6 DEF KeepInv, DeskWillHear
<1>12. Named(toRoom') /\ Named(toDesk') /\ StopsIn(toDesk', stopped')
  BY <1>3, <1>5, <1>7 DEF KeepInv
<1> QED
  BY <1>6, <1>7, <1>10, <1>11, <1>12 DEF KeepInv

\* The desk hears commands in the order the room has handled them.
LEMMA KeepFan == ASSUME PlaneTypes, KeepInv, FanOut PROVE KeepInv'
<1> DEFINE m == Head(fanouts)
<1>1. /\ fanouts # <<>> /\ fanouts' = Tail(fanouts)
      /\ toDesk' = IF "desk" \in peers THEN Append(toDesk, m) ELSE toDesk
      /\ UNCHANGED <<linkUp, toRoom, peers, welcoming, roomTake, stopped, deskVars>>
  BY DEF FanOut, toDesk, Client
<1>2. toDesk \in Seq(Notice) /\ fanouts \in Seq(Notice)
  BY Wires
<1>3. /\ m \in Notice
      /\ \A t : InTake(fanouts, t) => InTake(fanouts', t) /\ m.val \in {NoTake, t}
      /\ \A T : StopsIn(fanouts, T) => StopsIn(fanouts', T) /\ (m.type = "take-stop" => m.val \in T)
      /\ Named(fanouts) => Named(fanouts') /\ (m.type # "welcome" => m.val # NoTake)
      /\ Stops(fanouts') # {} \/ m.type = "take-stop" => Stops(fanouts) # {}
      /\ fanouts' # <<>> => LastOf(fanouts') = LastOf(fanouts)
      /\ fanouts' = <<>> => m = LastOf(fanouts)
  BY <1>1, <1>2, QueueGives
<1> HIDE DEF m
<1>4. /\ StopsIn(toDesk', stopped) /\ Named(toDesk')
      /\ \A t : InTake(toDesk, t) /\ m.val \in {NoTake, t} => InTake(toDesk', t)
      /\ Stops(toDesk') # {} => Stops(toDesk) # {} \/ m.type = "take-stop"
      /\ "desk" \in peers => toDesk' # <<>> /\ LastOf(toDesk') = m
  <2>1. /\ StopsIn(toDesk, stopped) /\ Named(toDesk)
        /\ m.type = "take-stop" => m.val \in stopped
        /\ m.type # "welcome" => m.val # NoTake
    BY <1>3 DEF KeepInv
  <2>2. CASE "desk" \in peers
    BY <1>1, <1>2, <1>3, <2>1, <2>2, QueueGets
  <2>3. CASE "desk" \notin peers
    BY <1>1, <2>1, <2>3
  <2> QED
    BY <2>2, <2>3
<1>5. UNCHANGED <<deskTake, deskStart>>
  BY <1>1 DEF deskVars
<1>6. StopAbout' => StopAbout
  BY <1>1, <1>3, <1>4 DEF StopAbout
<1>7. \A t : Agreed(t) => Agreed(t)'
  BY <1>1, <1>3, <1>4, <1>5 DEF Agreed
<1>8. StopAbout' => \E t : Agreed(t)'
  BY <1>6, <1>7 DEF KeepInv
<1>9. m \in Command
  BY <1>1, Wires, Departed DEF m
<1>10. DeskWillHear'
  <2>1. /\ linkUp["desk"] => "desk" \in peers
        /\ "desk" \in welcoming => linkUp["desk"]
        /\ LastOf(fanouts).type = "take-start" => LastOf(fanouts).val = roomTake
    BY <1>1 DEF KeepInv, DeskWillHear
  <2>2. m.type \in {"take-start", "take-stop"}
    BY <1>9 DEF Command
  <2> QED
    BY <1>1, <1>3, <1>4, <2>1, <2>2 DEF DeskWillHear
<1>11. Named(fanouts') /\ StopsIn(fanouts', stopped)
  BY <1>3 DEF KeepInv
<1> QED
  BY <1>1, <1>4, <1>5, <1>8, <1>10, <1>11 DEF KeepInv

\* A welcome says what the room has, and comes last.
LEMMA KeepWelcome == ASSUME PlaneTypes, KeepInv, NEW c \in Client, Welcome(c) PROVE KeepInv'
<1>1. /\ c \in welcoming /\ welcoming' = welcoming \ {c}
      /\ toClient' = [toClient EXCEPT ![c] = Append(@, Msg("welcome", roomTake))]
      /\ UNCHANGED <<linkUp, toRoom, peers, roomTake, fanouts, stopped, deskVars>>
  BY DEF Welcome
<1>2. UNCHANGED <<deskTake, deskStart>>
  BY <1>1 DEF deskVars
<1>3. CASE c # "desk"
  <2>1. toDesk' = toDesk /\ ("desk" \in welcoming' <=> "desk" \in welcoming)
    BY <1>1, <1>3 DEF toDesk, PlaneTypes, Client
  <2> QED
    BY <1>1, <1>2, <2>1, DeskRests
<1>4. CASE c = "desk"
  <2> DEFINE m == Msg("welcome", roomTake)
  <2>1. toDesk' = Append(toDesk, m) /\ toDesk \in Seq(Notice)
    BY <1>1, <1>4, Wires DEF toDesk, PlaneTypes, Client
  <2>2. m \in Notice /\ m.type = "welcome" /\ m.val = roomTake
    BY Words, Wires DEF Msg
  <2> HIDE DEF m
  <2>3. /\ toDesk' # <<>> /\ LastOf(toDesk') = m
        /\ \A t : InTake(toDesk, t) /\ m.val \in {NoTake, t} => InTake(toDesk', t)
        /\ StopsIn(toDesk', stopped) /\ Named(toDesk')
        /\ Stops(toDesk') # {} => Stops(toDesk) # {}
    <3>1. StopsIn(toDesk, stopped) /\ Named(toDesk)
      BY DEF KeepInv
    <3> QED
      BY <2>1, <2>2, <3>1, QueueGets
  <2>4. StopAbout' => StopAbout
    BY <1>1, <2>3 DEF StopAbout
  <2>5. \A t : Agreed(t) => Agreed(t)'
    BY <1>1, <1>2, <2>2, <2>3 DEF Agreed
  <2>6. StopAbout' => \E t : Agreed(t)'
    BY <2>4, <2>5 DEF KeepInv
  <2>7. DeskWillHear'
    BY <1>1, <2>2, <2>3 DEF KeepInv, DeskWillHear
  <2>8. Named(toRoom') /\ Named(fanouts') /\ StopsIn(fanouts', stopped')
    BY <1>1 DEF KeepInv
  <2> QED
    BY <1>1, <1>2, <2>3, <2>6, <2>7, <2>8 DEF KeepInv
<1> QED
  BY <1>3, <1>4

\* A lost link takes what is on its way along; a new one waits for its welcome.
LEMMA KeepLinks == ASSUME PlaneTypes, KeepInv, (\E c \in Client : Hello(c) \/ Cut(c)) \/ Crash \/ Supersede
                   PROVE  KeepInv' /\ UNCHANGED deskTake
<1>1. ASSUME NEW c \in Client, Hello(c) PROVE KeepInv' /\ UNCHANGED deskTake
  <2>1. /\ linkUp' = [linkUp EXCEPT ![c] = TRUE] /\ peers' = peers \cup {c} /\ welcoming' = welcoming \cup {c}
        /\ UNCHANGED <<toClient, toRoom, roomTake, fanouts, stopped, deskVars>>
    BY <1>1 DEF Hello
  <2>2. toDesk' = toDesk /\ UNCHANGED <<deskTake, deskStart>>
    BY <2>1 DEF toDesk, deskVars
  <2>3. CASE c # "desk"
    <3>1. linkUp'["desk"] = linkUp["desk"] /\ ("desk" \in peers' <=> "desk" \in peers)
          /\ ("desk" \in welcoming' <=> "desk" \in welcoming)
      BY <2>1, <2>3 DEF PlaneTypes, Client
    <3> QED
      BY <2>1, <2>2, <3>1, DeskRests
  <2>4. CASE c = "desk"
    <3>1. linkUp'["desk"] = TRUE /\ "desk" \in peers' /\ "desk" \in welcoming'
      BY <2>1, <2>4 DEF PlaneTypes, Client
    <3>2. DeskWillHear'
      BY <2>1, <2>2, <3>1 DEF KeepInv, DeskWillHear, LastOf
    <3>3. (StopAbout => \E t : Agreed(t))'
      BY <2>1, <2>2 DEF KeepInv, StopAbout, Agreed, InTake, Stops
    <3> QED
      BY <2>1, <2>2, <3>2, <3>3 DEF KeepInv, Named, StopsIn
  <2> QED
    BY <2>2, <2>3, <2>4
<1>2. ASSUME NEW C \in SUBSET Client, LinksLost(C), peers' = peers \ C, welcoming' = welcoming \ C,
             UNCHANGED <<roomTake, fanouts, stopped, deskVars>>
      PROVE  KeepInv' /\ UNCHANGED deskTake
  <2>1. UNCHANGED <<deskTake, deskStart>>
    BY <1>2 DEF deskVars
  <2>2. CASE "desk" \notin C
    <3>1. toRoom' = toRoom /\ toDesk' = toDesk /\ linkUp'["desk"] = linkUp["desk"]
          /\ ("desk" \in peers' <=> "desk" \in peers) /\ ("desk" \in welcoming' <=> "desk" \in welcoming)
      BY <1>2, <2>2 DEF LinksLost, toDesk, PlaneTypes, Client
    <3> QED
      BY <1>2, <2>1, <3>1, DeskRests
  <2>3. CASE "desk" \in C
    <3>1. toRoom' = <<>> /\ toDesk' = <<>> /\ linkUp'["desk"] = FALSE /\ "desk" \notin welcoming'
      BY <1>2, <2>3 DEF LinksLost, toDesk, Client
    <3>2. DeskWillHear'
      BY <1>2, <3>1 DEF KeepInv, DeskWillHear, LastOf
    <3>3. StopAbout' => StopAbout
      BY <1>2, <3>1, Quiet DEF StopAbout
    <3>4. \A t : Agreed(t) => Agreed(t)'
      BY <1>2, <2>1, <3>1, Quiet DEF Agreed
    <3>5. StopAbout' => \E t : Agreed(t)'
      BY <3>3, <3>4 DEF KeepInv
    <3>6. Named(toRoom') /\ Named(toDesk') /\ StopsIn(toDesk', stopped')
      BY <3>1, Quiet
    <3> QED
      BY <1>2, <2>1, <3>2, <3>5, <3>6 DEF KeepInv
  <2> QED
    BY <2>1, <2>2, <2>3
<1>3. ASSUME NEW c \in Client, Cut(c) PROVE KeepInv' /\ UNCHANGED deskTake
  <2>1. {c} \in SUBSET Client /\ LinksLost({c}) /\ peers' = peers \ {c} /\ welcoming' = welcoming \ {c}
        /\ UNCHANGED <<roomTake, fanouts, stopped, deskVars>>
    BY <1>3 DEF Cut
  <2> QED
    BY <1>2, <2>1
<1>4. CASE Supersede
  <2>1. {"recorder"} \in SUBSET Client /\ LinksLost({"recorder"}) /\ peers' = peers \ {"recorder"}
        /\ welcoming' = welcoming \ {"recorder"} /\ UNCHANGED <<roomTake, fanouts, stopped, deskVars>>
    BY <1>4 DEF Supersede, Client
  <2> QED
    BY <1>2, <2>1
<1>5. CASE Crash
  <2>1. /\ toRoom' = <<>> /\ fanouts' = <<>> /\ toDesk' = <<>> /\ linkUp'["desk"] = FALSE /\ welcoming' = {}
        /\ UNCHANGED <<stopped, deskTake, deskStart>>
    BY <1>5 DEF Crash, LinksLost, toDesk, deskVars, Client
  <2>2. ~ StopAbout'
    BY <2>1, Quiet DEF StopAbout
  <2>3. DeskWillHear'
    BY <2>1 DEF DeskWillHear
  <2>4. Named(toRoom') /\ Named(fanouts') /\ Named(toDesk') /\ StopsIn(fanouts', stopped') /\ StopsIn(toDesk', stopped')
    BY <2>1, Quiet
  <2> QED
    BY <2>1, <2>2, <2>3, <2>4 DEF KeepInv
<1> QED
  BY <1>1, <1>3, <1>4, <1>5

\* Every step keeps the invariant, and lets the desk drop a stopped take only.
LEMMA KeepStep == ASSUME PlaneTypes, KeepInv, [Next]_vars, "stop" \notin Hurried
                  PROVE  KeepInv' /\ (deskTake # NoTake /\ deskTake' = NoTake => deskTake \in stopped)
<1>1. CASE StartTake
  <2>1. deskTake' = deskTake
    BY <1>1 DEF StartTake
  <2> QED
    BY <1>1, <2>1, KeepStart
<1>2. CASE StopTake
  <2>1. deskTake' = deskTake
    BY <1>2 DEF StopTake, deskVars
  <2> QED
    BY <1>2, <2>1, KeepStop
<1>3. CASE DeskReceives
  BY <1>3, KeepDesk
<1>4. CASE RoomHandles
  <2>1. deskTake' = deskTake
    BY <1>4 DEF RoomHandles, deskVars
  <2> QED
    BY <1>4, <2>1, KeepRoom
<1>5. CASE FanOut
  <2>1. deskTake' = deskTake
    BY <1>5 DEF FanOut, deskVars
  <2> QED
    BY <1>5, <2>1, KeepFan
<1>6. ASSUME NEW c \in Client, Welcome(c)
      PROVE  KeepInv' /\ (deskTake # NoTake /\ deskTake' = NoTake => deskTake \in stopped)
  <2>1. deskTake' = deskTake
    BY <1>6 DEF Welcome, deskVars
  <2> QED
    BY <1>6, <2>1, KeepWelcome
<1>7. CASE (\E c \in Client : Hello(c) \/ Cut(c)) \/ Crash \/ Supersede
  BY <1>7, KeepLinks
<1>8. CASE RecorderReceives
  <2>1. /\ toClient' = [toClient EXCEPT !["recorder"] = Tail(@)]
        /\ UNCHANGED <<linkUp, toRoom, roomVars, deskVars>>
    BY <1>8 DEF RecorderReceives
  <2>2. toDesk' = toDesk
    BY <2>1 DEF toDesk, PlaneTypes, Client
  <2> QED
    BY <2>1, <2>2, DeskRests DEF roomVars, deskVars
<1>9. CASE PageRuns \/ SinksSettle \/ ChangeInput \/ TakeOver \/ EnableMic \/ UNCHANGED vars
  <2>1. UNCHANGED <<linkUp, toClient, toRoom, roomVars, deskVars>>
    BY <1>9 DEF PageRuns, SinksSettle, ChangeInput, TakeOver, EnableMic, vars, linkVars
  <2>2. toDesk' = toDesk
    BY <2>1 DEF toDesk
  <2> QED
    BY <2>1, <2>2, DeskRests DEF roomVars, deskVars
<1> QED
  BY <1>1, <1>2, <1>3, <1>4, <1>5, <1>6, <1>7, <1>8, <1>9 DEF Next

\* At first nothing is on its way.
LEMMA KeepBegins == Init => KeepInv
<1> SUFFICES ASSUME Init PROVE KeepInv
  OBVIOUS
<1>1. /\ toRoom = <<>> /\ fanouts = <<>> /\ toDesk = <<>> /\ linkUp["desk"] = FALSE /\ welcoming = {}
      /\ deskTake = NoTake
  BY DEF Init, toDesk, Client
<1> QED
  BY <1>1, Quiet DEF KeepInv, DeskWillHear, StopAbout

\* With an operator who gives a stop only when the recorder has answered, the desk gives up
\* its take only when that take was stopped, with cuts, crashes and take-overs in any number:
\* the empty snapshot of a restarted server does not end it (desk-session.ts welcome and
\* take-stop; the server keeps the take of a room in memory).
THEOREM DeskKeeps == ASSUME "stop" \notin Hurried PROVE Spec => DeskKeepsTake
<1>1. PlaneInv => PlaneTypes
  BY DEF PlaneInv
<1>2. PlaneTypes /\ KeepInv /\ [Next]_vars
        => KeepInv' /\ [deskTake # NoTake /\ deskTake' = NoTake => deskTake \in stopped]_vars
  BY KeepStep
<1> QED
  BY <1>1, <1>2, KeepBegins, PlaneStarts, PlaneKeeps, PTL DEF Spec, DeskKeepsTake
-----------------------------------------------------------------------------
(***************************************************************************)
(* What the desk shows of the archive.                                     *)
(***************************************************************************)
\* What the archive keeps of a stream.
Row == [row : BOOLEAN, chunks : SUBSET Chunk, gaps : SUBSET Chunk, final : BOOLEAN]

\* What an answer says of the archive: a stream it calls complete is whole there.
SaysTrue(a) == \A s \in DOMAIN a : s \in StatusStream /\ (a[s].complete => kept[s].final /\ kept[s].chunks = Chunk)

\* The archive keeps chunks of the stream only, and no answer under way or shown says more
\* than it has: it never gives a chunk or an end up again, so a late answer stays true.
StatusInv ==
  /\ kept \in [StatusStream -> Row]
  /\ \A a \in ticks : SaysTrue(a)
  /\ SaysTrue(statuses)

\* A stream with as many chunks as it has numbers has them all.
LEMMA AllCounted == ASSUME NEW k, k.chunks \subseteq Chunk, complete(k) PROVE k.final /\ k.chunks = Chunk
<1>1. IsFiniteSet(Chunk) /\ Cardinality(Chunk) = LastChunk + 1
  <2>1. 0 \in Int /\ LastChunk \in Int /\ 0 <= LastChunk
    BY StatusAssumption
  <2>2. Cardinality(0 .. LastChunk) = LastChunk - 0 + 1 /\ IsFiniteSet(0 .. LastChunk)
    BY <2>1, FS_Interval
  <2> QED
    BY <2>1, <2>2 DEF Chunk
<1>2. k.final /\ Cardinality(k.chunks) = LastChunk + 1
  BY DEF complete
<1>3. k.chunks = Chunk
  <2>1. IsFiniteSet(k.chunks) /\ Cardinality(k.chunks) <= Cardinality(Chunk)
        /\ (Cardinality(k.chunks) = Cardinality(Chunk) => k.chunks = Chunk)
    BY <1>1, FS_Subset
  <2> QED
    BY <1>1, <1>2, <2>1
<1> QED
  BY <1>2, <1>3

\* The archive only grows: what was said of it stays true.
LEMMA ArchiveGrows == ASSUME StatusInv, NEW s \in StatusStream, NEW i \in Chunk, NEW b \in BOOLEAN,
                             ChunkKept(s, i) \/ GapKept(s, i) \/ FinalKept(s, b)
                      PROVE  StatusInv'
<1>0. kept \in [StatusStream -> Row] /\ kept[s] \in Row
  BY DEF StatusInv
<1>1. /\ UNCHANGED <<ticks, statuses>>
      /\ kept' \in [StatusStream -> Row]
      /\ \A t \in StatusStream : /\ kept[t].final => kept'[t].final
                                 /\ kept[t].chunks = Chunk => kept'[t].chunks = Chunk
  <2>1. PICK r \in Row : /\ UNCHANGED <<ticks, statuses>> /\ kept' = [kept EXCEPT ![s] = r]
                         /\ kept[s].final => r.final
                         /\ kept[s].chunks \subseteq r.chunks
    <3> DEFINE Grown(c, g, f) == [row |-> TRUE, chunks |-> c, gaps |-> g, final |-> f]
    <3>1. CASE ChunkKept(s, i)
      <4>1. kept' = [kept EXCEPT ![s] = Grown(kept[s].chunks \cup {i}, kept[s].gaps, kept[s].final)]
            /\ UNCHANGED <<ticks, statuses>>
        BY <1>0, <3>1 DEF ChunkKept, PollUnchanged, Row
      <4>2. Grown(kept[s].chunks \cup {i}, kept[s].gaps, kept[s].final) \in Row
        BY <1>0 DEF Row
      <4> QED
        BY <4>1, <4>2
    <3>2. CASE GapKept(s, i)
      <4>1. kept' = [kept EXCEPT ![s] = Grown(kept[s].chunks, kept[s].gaps \cup {i}, kept[s].final)]
            /\ UNCHANGED <<ticks, statuses>>
        BY <1>0, <3>2 DEF GapKept, PollUnchanged, Row
      <4>2. Grown(kept[s].chunks, kept[s].gaps \cup {i}, kept[s].final) \in Row
        BY <1>0 DEF Row
      <4> QED
        BY <4>1, <4>2
    <3>3. CASE FinalKept(s, b)
      <4>1. kept' = [kept EXCEPT ![s] = Grown(kept[s].chunks, kept[s].gaps, TRUE)]
            /\ UNCHANGED <<ticks, statuses>>
        BY <1>0, <3>3 DEF FinalKept, PollUnchanged, Row
      <4>2. Grown(kept[s].chunks, kept[s].gaps, TRUE) \in Row
        BY <1>0 DEF Row
      <4> QED
        BY <4>1, <4>2
    <3> QED
      BY <3>1, <3>2, <3>3
  <2>2. \A t \in StatusStream : kept'[t] = IF t = s THEN r ELSE kept[t]
    BY <1>0, <2>1
  <2>3. r.chunks \subseteq Chunk
    BY DEF Row
  <2> QED
    BY <1>0, <2>1, <2>2, <2>3
<1>2. ASSUME NEW a, SaysTrue(a) PROVE SaysTrue(a)'
  BY <1>1, <1>2 DEF SaysTrue, Chunk
<1> QED
  BY <1>1, <1>2 DEF StatusInv, Row, Chunk

\* An answer is true when it is given, and shown only where it says something.
LEMMA StatusKept == ASSUME StatusInv, [StatusNext]_statusVars PROVE StatusInv'
<1>1. CASE \E s \in StatusStream, i \in Chunk : ChunkKept(s, i) \/ GapKept(s, i)
  BY <1>1, ArchiveGrows
<1>2. CASE \E s \in StatusStream, heard \in BOOLEAN : FinalKept(s, heard)
  <2>1. 0 \in Chunk
    BY StatusAssumption DEF Chunk
  <2> QED
    BY <1>2, <2>1, ArchiveGrows
<1>3. CASE PollTick
  <2>1. ticks' = ticks \cup {takeSummary} /\ UNCHANGED <<kept, statuses>>
    BY <1>3 DEF PollTick, ArchiveUnchanged
  <2>2. SaysTrue(takeSummary)
    <3>1. ASSUME NEW s \in Archived PROVE complete(kept[s]) => kept[s].final /\ kept[s].chunks = Chunk
      BY AllCounted DEF StatusInv, Archived, Row
    <3>2. DOMAIN takeSummary = Archived /\ \A s \in Archived : takeSummary[s].complete = complete(kept[s])
      BY DEF takeSummary
    <3> QED
      BY <3>1, <3>2 DEF SaysTrue, Archived
  <2> QED
    BY <2>1, <2>2 DEF StatusInv, SaysTrue, Row, Chunk
<1>4. CASE \E a \in ticks : AnswerShown(a)
  <2>1. PICK a \in ticks : AnswerShown(a)
    BY <1>4
  <2>2. /\ statuses' = [s \in DOMAIN statuses \cup DOMAIN a |-> IF s \in DOMAIN a THEN a[s] ELSE statuses[s]]
        /\ ticks' = ticks \ {a} /\ UNCHANGED kept
    BY <2>1 DEF AnswerShown, ArchiveUnchanged
  <2>3. SaysTrue(statuses')
    BY <2>2 DEF StatusInv, SaysTrue
  <2> QED
    BY <2>2, <2>3 DEF StatusInv, SaysTrue, Row, Chunk
<1>5. CASE TakeStopped \/ PollTrouble \/ (\E now \in clock..MaxNow : useOrphanedStreams(now)) \/ UNCHANGED statusVars
  <2>1. ticks' \subseteq ticks /\ UNCHANGED <<kept, statuses>>
    BY <1>5 DEF TakeStopped, PollTrouble, useOrphanedStreams, statusVars, ArchiveUnchanged, PollUnchanged
  <2> QED
    BY <2>1 DEF StatusInv, SaysTrue, Row, Chunk
<1> QED
  BY <1>1, <1>2, <1>3, <1>4, <1>5 DEF StatusNext

\* Nothing is archived or shown at first.
LEMMA StatusStarts == StatusInit => StatusInv
  BY DEF StatusInit, StatusInv, SaysTrue, Row

\* A stream the desk shows as complete has its end and all its chunks in the archive, however
\* late the answer came, and declared gaps do not count (archive/read.ts takeSummary,
\* use-server-status.ts).
THEOREM ShownIsWhole == MCSpec => []CompleteIsWhole
<1>1. MCInit => StatusInv
  BY StatusStarts DEF MCInit
<1>2. StatusInv /\ [MCNext]_mcVars => StatusInv'
  <2>1. [MCNext]_mcVars => [StatusNext]_statusVars
    BY DEF MCNext, mcVars, Rolling, Archiving
  <2> QED
    BY <2>1, StatusKept
<1>3. StatusInv => CompleteIsWhole
  BY DEF StatusInv, SaysTrue, CompleteIsWhole
<1> QED
  BY <1>1, <1>2, <1>3, PTL DEF MCSpec
=============================================================================
