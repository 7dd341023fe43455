---------------------------- MODULE TakeControl ----------------------------
(***************************************************************************)
(* The control plane of a take: the desk, the room on the server and one   *)
(* recorder page, over sockets that are cut and reopened.  The room lives  *)
(* in memory and dies with the server; the desk asserts its rolling take   *)
(* again when a welcome does not know it.                                  *)
(***************************************************************************)
EXTENDS RecorderPage

CONSTANTS
  MaxTake,       \* bound: takes the desk starts
  MaxFaults,     \* bound: cut sockets, server crashes and superseded pages
  Faults,        \* which of them happen: a subset of {"cut", "crash", "fatal"}
  Disarms,       \* whether the desk may disarm the recorder for a take
  Hurried        \* the commands with which the operator may outrun the recorder

ASSUME ControlConstants ==
  /\ {MaxTake, MaxFaults} \subseteq Nat
  /\ Faults \subseteq {"cut", "crash", "fatal"}
  /\ Disarms \in BOOLEAN /\ Hurried \subseteq {"start", "stop"}

VARIABLES
  linkUp,        \* per client: socket open
  peerKnown,     \* recorder: its client knows its peer id (welcome arrived)
  fatal,         \* recorder: its client is halted
  toClient,      \* per client: messages on the socket
  toRoom,        \* the desk's commands on the socket
  peers,         \* room: registered clients
  welcoming,     \* room: clients whose hello awaits the database
  roomTake,      \* room: activeTake
  fanouts,       \* room: messages whose handler awaits the database
  deskTake,      \* desk: state.activeTakeId
  deskStart,     \* desk: activeTakeStart, kept to assert it again
  lastTake,      \* takes started so far
  disarmedFor,   \* takes whose take-start lists the recorder as disarmed
  stopped,       \* history: takes the room has stopped
  faults

Client == {"desk", "recorder"}

linkVars == <<linkUp, peerKnown, fatal, toClient, toRoom>>
roomVars == <<peers, welcoming, roomTake, fanouts, stopped>>
deskVars == <<deskTake, deskStart, lastTake, disarmedFor>>
vars == <<pageVars, linkVars, roomVars, deskVars, faults>>

Online == linkUp["recorder"]
-----------------------------------------------------------------------------
(***************************************************************************)
(* The desk.                                                               *)
(***************************************************************************)
\* A command is dropped when the socket is down.
DeskSends(m) == toRoom' = IF linkUp["desk"] THEN Append(toRoom, m) ELSE toRoom

\* The operator goes by the screen: the desk has heard the echo of its last
\* command.  An unhurried one also leaves the recorder the time to answer.
OperatorReady(command) ==
  /\ toRoom = <<>> /\ fanouts = <<>> /\ toClient["desk"] = <<>>
  /\ \/ command \in Hurried
     \/ /\ toClient["recorder"] = <<>> /\ welcoming = {} /\ toWorker = <<>>
        /\ \A i \in DOMAIN toMain : toMain[i].type = "stats"
        /\ snapStats = engine.stream

StartTake ==
  /\ OperatorReady("start")
  /\ deskTake = NoTake /\ lastTake < MaxTake
  /\ lastTake' = lastTake + 1
  /\ DeskSends(Msg("take-start", lastTake'))
  /\ \/ UNCHANGED disarmedFor
     \/ Disarms /\ "recorder" \in peers /\ disarmedFor' = disarmedFor \cup {lastTake'}
  /\ UNCHANGED <<pageVars, linkUp, peerKnown, fatal, toClient, roomVars,
                 deskTake, deskStart, faults>>

StopTake ==
  /\ OperatorReady("stop")
  /\ deskTake # NoTake
  /\ linkUp["desk"]
  /\ DeskSends(Msg("take-stop", deskTake))
  /\ UNCHANGED <<pageVars, linkUp, peerKnown, fatal, toClient, roomVars, deskVars, faults>>

\* Broken variant: the desk keeps its take to itself.
DeskWelcomeSilent(t) ==
  /\ deskTake' = IF t # NoTake THEN t ELSE deskStart
  /\ deskStart' = IF t # NoTake THEN t ELSE deskStart
  /\ UNCHANGED toRoom

\* A snapshot with a take is adopted; an empty one is overruled while a take
\* of ours is rolling.
DeskWelcome(t) ==
  \/ /\ t # NoTake
     /\ deskTake' = t
     /\ deskStart' = IF deskTake = t THEN deskStart ELSE t
     /\ UNCHANGED toRoom
  \/ /\ t = NoTake /\ deskStart # NoTake
     /\ DeskSends(Msg("take-start", deskStart))
     /\ UNCHANGED <<deskTake, deskStart>>
  \/ /\ t = NoTake /\ deskStart = NoTake
     /\ deskTake' = NoTake
     /\ UNCHANGED <<deskStart, toRoom>>

DeskTakeStop(t) ==
  /\ deskStart' = IF deskStart = t THEN NoTake ELSE deskStart
  /\ deskTake' = NoTake
  /\ UNCHANGED toRoom

DeskReceives ==
  /\ toClient["desk"] # <<>>
  /\ LET m == Head(toClient["desk"])
     IN \/ m.type = "welcome" /\ DeskWelcome(m.val)
        \/ /\ m.type = "take-start"
           /\ deskTake' = m.val /\ deskStart' = m.val
           /\ UNCHANGED toRoom
        \/ m.type = "take-stop" /\ DeskTakeStop(m.val)
  /\ toClient' = [toClient EXCEPT !["desk"] = Tail(@)]
  /\ UNCHANGED <<pageVars, linkUp, peerKnown, fatal, roomVars, lastTake, disarmedFor, faults>>
-----------------------------------------------------------------------------
(***************************************************************************)
(* The room.                                                               *)
(***************************************************************************)
\* take-start and take-stop: the room's state at once, the fan-out when the
\* database has answered.
RoomHandles ==
  /\ toRoom # <<>>
  /\ LET m == Head(toRoom)
     IN /\ \/ /\ m.type = "take-start"
              /\ roomTake' = m.val
              /\ UNCHANGED stopped
           \/ /\ m.type = "take-stop"
              /\ roomTake' = IF roomTake = m.val THEN NoTake ELSE roomTake
              /\ stopped' = stopped \cup {m.val}
        /\ fanouts' = Append(fanouts, m)
  /\ toRoom' = Tail(toRoom)
  /\ UNCHANGED <<pageVars, linkUp, peerKnown, fatal, toClient, peers, welcoming, deskVars, faults>>

FanOut ==
  /\ fanouts # <<>>
  /\ toClient' = [c \in Client |->
       IF c \in peers THEN Append(toClient[c], Head(fanouts)) ELSE toClient[c]]
  /\ fanouts' = Tail(fanouts)
  /\ UNCHANGED <<pageVars, linkUp, peerKnown, fatal, toRoom, peers, welcoming, roomTake,
                 stopped, deskVars, faults>>

\* hello: the client is a peer of the room from here on; its welcome waits
\* for the database.
Hello(c) ==
  /\ ~ linkUp[c]
  /\ c = "recorder" => ~ fatal
  /\ linkUp' = [linkUp EXCEPT ![c] = TRUE]
  /\ peers' = peers \cup {c}
  /\ welcoming' = welcoming \cup {c}
  /\ UNCHANGED <<pageVars, peerKnown, fatal, toClient, toRoom, roomTake, fanouts, stopped,
                 deskVars, faults>>

Welcome(c) ==
  /\ c \in welcoming
  /\ welcoming' = welcoming \ {c}
  /\ toClient' = [toClient EXCEPT ![c] = Append(@, Msg("welcome", roomTake))]
  /\ UNCHANGED <<pageVars, linkUp, peerKnown, fatal, toRoom, peers, roomTake, fanouts, stopped,
                 deskVars, faults>>
-----------------------------------------------------------------------------
(***************************************************************************)
(* The recorder's client.                                                  *)
(***************************************************************************)

\* isDisarmed: a client that does not know its peer id yet is never disarmed.
IsDisarmed(t, known) == known /\ t \in disarmedFor

RecorderReceives ==
  /\ toClient["recorder"] # <<>>
  /\ LET m == Head(toClient["recorder"])
         known == peerKnown \/ m.type = "welcome"
     IN /\ peerKnown' = known
        /\ \/ /\ m.type \in {"welcome", "take-start"} /\ m.val # NoTake
              /\ OnTakeStart(m.val, IsDisarmed(m.val, known), Online)
           \/ m.type = "welcome" /\ m.val = NoTake /\ UNCHANGED pageVars
           \/ m.type = "take-stop" /\ OnTakeStop(m.val, Online)
  /\ toClient' = [toClient EXCEPT !["recorder"] = Tail(@)]
  /\ UNCHANGED <<linkUp, fatal, toRoom, roomVars, deskVars, faults>>

PageRuns ==
  /\ PageStep(Online)
  /\ UNCHANGED <<linkVars, roomVars, deskVars, faults>>

SinksSettle ==
  /\ EngineCloses
  /\ UNCHANGED <<linkVars, roomVars, deskVars, faults>>

ChangeInput ==
  /\ BeginSwitch \/ EndSwitch(Online)
  /\ UNCHANGED <<linkVars, roomVars, deskVars, faults>>

\* "Take over in this tab": restart the capture, then reopen the socket.
TakeOver ==
  /\ fatal
  /\ fatal' = FALSE
  /\ IF pipeline = "off" THEN StartCapture ELSE UNCHANGED pageVars
  /\ UNCHANGED <<linkUp, peerKnown, toClient, toRoom, roomVars, deskVars, faults>>

\* The join page offers to enable the microphone whenever it is off.
EnableMic ==
  /\ ~ fatal
  /\ StartCapture
  /\ UNCHANGED <<linkVars, roomVars, deskVars, faults>>
-----------------------------------------------------------------------------
(***************************************************************************)
(* Faults.                                                                 *)
(***************************************************************************)
Fault(kind) ==
  /\ kind \in Faults /\ faults < MaxFaults
  /\ faults' = faults + 1

LinksLost(C) ==
  /\ linkUp' = [c \in Client |-> linkUp[c] /\ c \notin C]
  /\ peerKnown' = (peerKnown /\ "recorder" \notin C)
  /\ toClient' = [c \in Client |-> IF c \in C THEN <<>> ELSE toClient[c]]
  /\ toRoom' = IF "desk" \in C THEN <<>> ELSE toRoom

Cut(c) ==
  /\ Fault("cut")
  /\ linkUp[c]
  /\ LinksLost({c})
  /\ peers' = peers \ {c} /\ welcoming' = welcoming \ {c}
  /\ UNCHANGED <<pageVars, fatal, roomTake, fanouts, stopped, deskVars>>

Crash ==
  /\ Fault("crash")
  /\ LinksLost(Client)
  /\ peers' = {} /\ welcoming' = {} /\ roomTake' = NoTake /\ fanouts' = <<>>
  /\ UNCHANGED <<pageVars, fatal, stopped, deskVars>>

\* Another tab with the same identity supersedes this one.
Supersede ==
  /\ Fault("fatal")
  /\ peerKnown
  /\ HaltForFatal
  /\ fatal' = TRUE
  /\ LinksLost({"recorder"})
  /\ peers' = peers \ {"recorder"} /\ welcoming' = welcoming \ {"recorder"}
  /\ UNCHANGED <<roomTake, fanouts, stopped, deskVars>>
-----------------------------------------------------------------------------
Init ==
  /\ PageInit
  /\ linkUp = [c \in Client |-> FALSE] /\ peerKnown = FALSE /\ fatal = FALSE
  /\ toClient = [c \in Client |-> <<>>] /\ toRoom = <<>>
  /\ peers = {} /\ welcoming = {} /\ roomTake = NoTake /\ fanouts = <<>> /\ stopped = {}
  /\ deskTake = NoTake /\ deskStart = NoTake /\ lastTake = 0 /\ disarmedFor = {}
  /\ faults = 0

Next ==
  \/ StartTake \/ StopTake \/ DeskReceives
  \/ RoomHandles \/ FanOut
  \/ \E c \in Client : Hello(c) \/ Welcome(c) \/ Cut(c)
  \/ RecorderReceives \/ PageRuns \/ SinksSettle \/ ChangeInput \/ TakeOver \/ EnableMic
  \/ Crash \/ Supersede

Spec == Init /\ [][Next]_vars
-----------------------------------------------------------------------------
(***************************************************************************)
(* Properties.                                                             *)
(***************************************************************************)
Stream == 0 .. MaxStream

Take == 0 .. MaxTake

\* Every variable of the page and of the control plane has its type.
ControlTypeOK ==
  /\ {activeTake, sittingOut, roomTake, deskTake, deskStart, lastTake} \subseteq Take
  /\ {stopping, pendingArm, queued, snapStats, engine.stream} \subseteq Stream
  /\ takeOf \in Seq(Take) /\ Len(takeOf) <= MaxStream
  /\ \/ engine = NoEngine
     \/ engine.stream # NoStream /\ engine.state \in {"streaming", "draining", "closed"}
  /\ pipeline \in {"off", "on", "closing"} /\ switching \in {"no", "yes", "stale"}
  /\ {workerReady, stopIsCurrent, takeOpen, booted, peerKnown, fatal} \subseteq BOOLEAN
  /\ {snapFinal} \cup {finalOf[s] : s \in 1 .. MaxStream} \subseteq FinalSeqs \cup {NoFinal}
  /\ peers \cup welcoming \subseteq Client
  /\ linkUp \in [Client -> BOOLEAN]

Captures(t) == Streaming /\ takeOf[engine.stream] = t

\* A stream-final sent by the page names the final sequence number of that
\* stream: a sink believes it and waits for exactly these chunks.
FinalIsTruth == \A r \in sentFinals : finalOf[r[1]] = r[2]

\* A recorder the desk disarmed for a take does not record it.
SitsOut == \A t \in disarmedFor : ~ Captures(t)

\* The input is swapped only while no take is armed, being armed or waiting:
\* the latch covers the way of an arm through controller, queue and worker.
SwapBetweenTakes ==
  [][device' # device =>
       /\ ~ Streaming /\ queued = NoStream
       /\ \A i \in DOMAIN toWorker : toWorker[i].type # "arm"]_vars

\* An engine that still owes chunks is given up only with the whole pipeline.
NothingDiscarded ==
  [][engine.state \in {"streaming", "draining"} /\ engine'.stream # engine.stream
       => pipeline' = "closing"]_vars

\* A take waits in the worker only behind an older engine, so that the stop
\* that drops it leaves nothing capturing.
QueueBehindOlder == queued # NoStream => engine.stream < queued

\* A take the room has stopped is not rolling again.
StaysStopped == [][roomTake' # roomTake => roomTake' \notin stopped]_vars

\* The desk gives up its rolling take only after a stop: an empty snapshot from
\* a restarted server does not end it.
DeskKeepsTake == [][deskTake # NoTake /\ deskTake' = NoTake => deskTake \in stopped]_vars

\* A restarted room learns of the take that the desk has rolling.
RoomRelearns ==
  \A t \in 1 .. MaxTake : []<>(deskStart = t => roomTake = t)

\* A take the recorder shall record is captured, unless it ends first.
TakeCaptured ==
  \A t \in 1 .. MaxTake :
    (roomTake = t /\ t \notin disarmedFor) ~> (Captures(t) \/ roomTake # t)

\* Every finished stream has its final sequence number reported.
FinalReported ==
  \A s \in 1 .. MaxStream :
    (finalOf[s] # NoFinal) ~> (\E r \in sentFinals : r = <<s, finalOf[s]>>)

\* Once a take is stopped, the recorder stops capturing it.
StopReachesRecorder ==
  \A t \in 1 .. MaxTake : (t \in stopped) ~> ~ Captures(t)
-----------------------------------------------------------------------------
(***************************************************************************)
(* Liveness.  Sockets reconnect by timer, handlers and queues make         *)
(* progress, the worker's timers run.  Operators, faults and changes of    *)
(* input are never obliged; sinks settle only where it is said.            *)
(***************************************************************************)
PlaneFairness ==
  /\ WF_vars(DeskReceives) /\ WF_vars(RoomHandles) /\ WF_vars(FanOut)
  /\ WF_vars(RecorderReceives)
  /\ \A c \in Client : WF_vars(Hello(c)) /\ WF_vars(Welcome(c))
  /\ WF_vars(WorkerBoots /\ PageRuns) /\ WF_vars(WorkerArm /\ PageRuns)
  /\ WF_vars(WorkerStop /\ PageRuns) /\ WF_vars(Pump /\ PageRuns)
  /\ WF_vars(SendStats /\ PageRuns)
  /\ WF_vars((OnReady(Online) \/ OnArmed(Online) \/ OnStats(Online) \/ OnStopped(Online))
             /\ PageRuns)

\* Without sinks that settle ...
LoneSpec == Spec /\ PlaneFairness

\* ... and with them.
FairSpec == LoneSpec /\ WF_vars(SinksSettle)

\* Through cuts and restarts a take goes on until it is stopped: the desk keeps it
\* and the room learns of it again (desk-session.ts).
RollingTakeKept == DeskKeepsTake /\ RoomRelearns
=============================================================================
