------------------------------- MODULE MCTakes ------------------------------
(***************************************************************************)
(* Takes, instantiated, in three scenes: "calm", where the operator waits  *)
(* for the recorder, changes its input and disarms it; "hurried", where a  *)
(* start may outrun the recorder; "faults", where a socket is cut, the     *)
(* server crashes or the page is superseded.  A scene is chosen in the     *)
(* initial state and kept; it bounds what the environment does.  A fourth  *)
(* one, "archive", is what the desk shows of the take the archive stores.  *)
(***************************************************************************)
EXTENDS TakeControl, SinkStatus

VARIABLE scene

mcVars == <<scene, vars, statusVars>>

\* What the operator waits for when unhurried: OperatorReady without Hurried.
RecorderAnswered ==
    /\ toClient["recorder"] = <<>> /\ welcoming = {} /\ toWorker = <<>>
    /\ \A i \in DOMAIN toMain : toMain[i].type = "stats"
    /\ snapStats = engine.stream

Rolling == scene # "archive" /\ UNCHANGED <<scene, statusVars>>
Archiving == scene = "archive" /\ UNCHANGED <<scene, vars>>

Within ==
    /\ lastTake' = lastTake \/ scene = "hurried" \/ RecorderAnswered
    /\ disarmedFor' = disarmedFor \/ scene # "hurried"
    /\ faults' = faults \/ scene = "faults"
    /\ scene = "faults" => /\ lastTake' <= 2 /\ switching' # "yes"
                           /\ \A s \in 1 .. MaxStream : finalOf'[s] \in {NoFinal, 1}

MCInit == Init /\ StatusInit /\ scene \in {"calm", "hurried", "faults", "archive"}

MCNext ==
    \/ Rolling /\ Next /\ Within
    \/ Archiving /\ StatusNext

Fair(A) == Rolling /\ A /\ Within

\* PlaneFairness and the sinks that settle within their scene, StatusFairness
\* in the archive's.
MCFairness ==
    /\ WF_mcVars(Fair(DeskReceives)) /\ WF_mcVars(Fair(RoomHandles))
    /\ WF_mcVars(Fair(FanOut)) /\ WF_mcVars(Fair(RecorderReceives))
    /\ \A c \in Client : WF_mcVars(Fair(Hello(c))) /\ WF_mcVars(Fair(Welcome(c)))
    /\ WF_mcVars(Fair(WorkerBoots /\ PageRuns)) /\ WF_mcVars(Fair(WorkerArm /\ PageRuns))
    /\ WF_mcVars(Fair(WorkerStop /\ PageRuns)) /\ WF_mcVars(Fair(Pump /\ PageRuns))
    /\ WF_mcVars(Fair(SendStats /\ PageRuns))
    /\ WF_mcVars(Fair((OnReady(Online) \/ OnArmed(Online) \/ OnStats(Online) \/ OnStopped(Online))
                      /\ PageRuns))
    /\ WF_mcVars(Fair(SinksSettle))
    /\ WF_mcVars(Archiving /\ PollTick)
    /\ WF_mcVars(Archiving /\ \E a \in ticks : AnswerShown(a))
    /\ WF_mcVars(Archiving /\ useOrphanedStreams(clock))

MCSpec == MCInit /\ [][MCNext]_mcVars /\ MCFairness

\* In the calm scene a recorder the desk disarmed for a take does not record it
\* (SitsOut; recorder-session.ts isDisarmed).
CalmSitsOut == scene = "calm" => SitsOut

\* While the page lives, a stream-final it sends names the final sequence number of
\* that stream, starts in a hurry or not (FinalIsTruth; recorder-session.ts
\* reportStreamFinal).
LivingFinalIsTruth == scene # "faults" => FinalIsTruth

\* In the calm scene every finished stream has its final sequence number
\* reported (FinalReported; join page, recorder-session.ts reportStreamFinal).
CalmFinalReported ==
    \A s \in 1 .. MaxStream :
        []<>((scene = "calm" /\ finalOf[s] # NoFinal) => \E r \in sentFinals : r = <<s, finalOf[s]>>)

\* In the calm scene a take the recorder shall record is captured, unless it
\* ends first (TakeCaptured; recorder-session.ts onTakeStart).
CalmTakeCaptured ==
    \A t \in 1 .. MaxTake :
        []<>((scene = "calm" /\ roomTake = t /\ t \notin disarmedFor) => Captures(t))

\* After at most one fault a take waits only behind an older engine (QueueBehindOlder;
\* encoder.worker.ts arm, pump).  Two faults may lose a stop and arm again between an
\* engine's end and the pump.
TakesQueueInOrder == faults <= 1 => QueueBehindOlder

\* The recorder captures and reports the takes it shall: it sits out the ones it was
\* disarmed for, queues only behind an older engine, and the final it names is the
\* stream's own (recorder-session.ts, encoder.worker.ts).
TakeTruth == ControlTypeOK /\ CalmSitsOut /\ LivingFinalIsTruth /\ TakesQueueInOrder

\* In the calm scene every take is captured and its end reported.
CalmTakeServed == CalmTakeCaptured /\ CalmFinalReported
=============================================================================
