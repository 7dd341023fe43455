----------------------------- MODULE AlignFlow -----------------------------
(***************************************************************************)
(* Auto-align of a selection that spans takes (align-flow.ts,              *)
(* use-auto-align.ts): the flow walks the takes through the latest-wins    *)
(* load queue (load-queue.ts, take-load.ts) and then brings the operator's *)
(* take back, while the operator may pick another take, start recording or *)
(* leave the session at any moment.                                        *)
(*                                                                         *)
(* A settled step resumes the flow before the queue takes its pending      *)
(* request: both are microtasks, the flow's first.                         *)
(***************************************************************************)
EXTENDS Naturals, Sequences

CONSTANTS
    FlowTake, NoFlowTake,
    Scopes,         \* the takes of the selection, in plan order
    MaxPicks, MaxFlows, MaxRecordings

ASSUME FlowAssumption ==
    /\ Scopes \in Seq(FlowTake) /\ Scopes # <<>>
    /\ \A i, j \in DOMAIN Scopes : Scopes[i] = Scopes[j] => i = j
    /\ NoFlowTake \notin FlowTake

VARIABLES
    running, pending,   \* the queue: the request in flight and the one waiting
    flow,               \* the step it waits for, 0 = no flow; its original take; its epoch
    loadedTake,
    pickedTake,
    pickLost,           \* the last desk request failed to load
    stepFailed,         \* a step of a flow failed to load
    recordingNow,
    flowEpoch,
    picks, flows, recordings

flowVars == <<running, pending, flow, loadedTake, pickedTake, pickLost, stepFailed,
              recordingNow, flowEpoch, picks, flows, recordings>>

NoReq == [by |-> "none", take |-> NoFlowTake]
NoFlow == [step |-> 0, original |-> NoFlowTake, epoch |-> 0, plan |-> <<>>]

FlowInit ==
    /\ running = NoReq /\ pending = NoReq /\ flow = NoFlow
    /\ loadedTake = NoFlowTake /\ pickedTake = NoFlowTake
    /\ pickLost = FALSE /\ stepFailed = FALSE
    /\ recordingNow = FALSE /\ flowEpoch = 0
    /\ picks = 0 /\ flows = 0 /\ recordings = 0

(***************************************************************************)
(* LoadQueue.request while `run` is in flight and `waiting` waits; the     *)
(* caller of a replaced request hears "superseded".                        *)
(***************************************************************************)

Enqueue(req, f) ==
    IF running = NoReq
    THEN running' = req /\ UNCHANGED pending /\ flow' = f
    ELSE /\ pending' = req /\ UNCHANGED running
         /\ flow' = IF pending.by = "flow" THEN NoFlow ELSE f

\* The load effect of the desk: an explicit pick, unless it records.
PickToLoad(t) ==
    /\ picks < MaxPicks /\ t # pickedTake
    /\ picks' = picks + 1 /\ pickedTake' = t /\ pickLost' = FALSE
    /\ IF recordingNow THEN UNCHANGED <<running, pending, flow>>
       ELSE Enqueue([by |-> "desk", take |-> t], flow)
    /\ UNCHANGED <<loadedTake, stepFailed, recordingNow, flowEpoch, flows, recordings>>

RecordingStarts ==
    /\ ~recordingNow /\ recordings < MaxRecordings
    /\ recordingNow' = TRUE /\ recordings' = recordings + 1
    /\ UNCHANGED <<running, pending, flow, loadedTake, pickedTake, pickLost, stepFailed,
                   flowEpoch, picks, flows>>

\* `recording` is a dependency of the load effect: it runs again.
RecordingStops ==
    /\ recordingNow /\ recordingNow' = FALSE
    /\ IF pickedTake = NoFlowTake THEN UNCHANGED <<running, pending, flow>>
       ELSE Enqueue([by |-> "desk", take |-> pickedTake], flow)
    /\ UNCHANGED <<loadedTake, pickedTake, pickLost, stepFailed, flowEpoch, picks, flows,
                   recordings>>

\* planAlignScopes: the loaded take first (no re-decode), then take order.
planAlignScopes ==
    IF \A i \in DOMAIN Scopes : Scopes[i] # loadedTake THEN Scopes
    ELSE LET n == CHOOSE i \in DOMAIN Scopes : Scopes[i] = loadedTake
         IN  [i \in DOMAIN Scopes |-> IF i = 1 THEN loadedTake
                                      ELSE IF i <= n THEN Scopes[i - 1] ELSE Scopes[i]]

\* autoAlign: the button's and the function's own conditions.
StartFlow ==
    /\ flow = NoFlow /\ ~recordingNow /\ flows < MaxFlows
    /\ pickedTake # NoFlowTake /\ loadedTake = pickedTake
    /\ flows' = flows + 1 /\ stepFailed' = FALSE
    /\ Enqueue([by |-> "flow", take |-> planAlignScopes[1]],
               [step |-> 1, original |-> loadedTake, epoch |-> flowEpoch,
                plan |-> planAlignScopes])
    /\ UNCHANGED <<loadedTake, pickedTake, pickLost, recordingNow, flowEpoch, picks, recordings>>

\* The session changes or the page unmounts: the effect's cleanup.
LeaveSession ==
    /\ flow # NoFlow /\ flow.epoch = flowEpoch
    /\ flowEpoch' = flowEpoch + 1
    /\ UNCHANGED <<running, pending, flow, loadedTake, pickedTake, pickLost, stepFailed,
                   recordingNow, picks, flows, recordings>>

(***************************************************************************)
(* A request settles: the flow's next step or the restore replaces what    *)
(* waits in the queue, then the queue goes on.                             *)
(***************************************************************************)
flowCancelled == recordingNow \/ flow.epoch # flowEpoch

\* Mutant: a superseded step goes on with the next take.
AfterStepGoesOn(status, now) ==
    IF flowCancelled THEN [next |-> NoReq, flow |-> NoFlow]
    ELSE IF flow.step < Len(flow.plan)
    THEN [next |-> [by |-> "flow", take |-> flow.plan[flow.step + 1]],
          flow |-> [flow EXCEPT !.step = @ + 1]]
    ELSE [next |-> IF now = flow.original THEN NoReq
                   ELSE [by |-> "restore", take |-> flow.original],
          flow |-> NoFlow]

\* runAlignFlow after a step: what it enqueues, and the flow that is left.
AfterStep(status, now) ==
    IF status = "superseded" \/ flowCancelled THEN [next |-> NoReq, flow |-> NoFlow]
    ELSE IF flow.step < Len(flow.plan)
    THEN [next |-> [by |-> "flow", take |-> flow.plan[flow.step + 1]],
          flow |-> [flow EXCEPT !.step = @ + 1]]
    ELSE [next |-> IF now = flow.original THEN NoReq
                   ELSE [by |-> "restore", take |-> flow.original],
          flow |-> NoFlow]

\* A take that is already loaded is not decoded again and cannot fail.
SettleLoad(ok) ==
    /\ running # NoReq /\ (~ok => running.take # loadedTake)
    /\ LET now == IF ok THEN running.take ELSE loadedTake
           status == IF ~ok THEN "failed"
                     ELSE IF pending # NoReq THEN "superseded" ELSE "ok"
           after == IF running.by = "flow" THEN AfterStep(status, now)
                    ELSE [next |-> NoReq, flow |-> flow]
           waiting == IF after.next = NoReq THEN pending ELSE after.next
       IN  /\ loadedTake' = now
           /\ flow' = after.flow
           /\ running' = waiting
           /\ pending' = NoReq
    /\ pickLost' = IF running.by = "desk" /\ running.take = pickedTake THEN ~ok
                   ELSE IF running.by = "restore" /\ ~ok THEN TRUE ELSE pickLost
    /\ stepFailed' = (stepFailed \/ (running.by = "flow" /\ ~ok))
    /\ UNCHANGED <<pickedTake, recordingNow, flowEpoch, picks, flows, recordings>>

FlowNext ==
    \/ \E t \in FlowTake : PickToLoad(t)
    \/ RecordingStarts \/ RecordingStops
    \/ StartFlow \/ LeaveSession
    \/ \E ok \in BOOLEAN : SettleLoad(ok)

FlowSpec == FlowInit /\ [][FlowNext]_flowVars /\ WF_flowVars(\E ok \in BOOLEAN : SettleLoad(ok))

(***************************************************************************)
(* Properties.                                                             *)
(***************************************************************************)
\* A step in the queue belongs to a flow that waits for it.
FlowTypeOK ==
    /\ pending # NoReq => running # NoReq
    /\ "flow" \in {running.by, pending.by} => flow # NoFlow
    /\ flow.step \in 0..Len(Scopes)

QueueIdle == running = NoReq /\ ~recordingNow

\* "The newest selection always loads eventually" (take-load.ts): when the
\* queue is idle the operator's newest pick is the loaded take.
NewestPickLoads ==
    QueueIdle /\ flowEpoch = 0 /\ pickedTake # NoFlowTake /\ ~pickLost
        => loadedTake = pickedTake

\* The part of it that holds: as long as no step of a flow fails to load.  A
\* superseded flow yields without restoring, a finished one restores, a
\* cancelled one leaves the restoring to the end of the recording.
PickWins == ~stepFailed => NewestPickLoads

\* A flow ends: superseded while it waits or while it runs, failed, cancelled
\* or done (use-auto-align.ts clears the chip in `finally`).
FlowEnds == []<>(flow = NoFlow)

\* The newest pick is what is loaded once the queue is at rest, and a step that is
\* queued has a flow that waits for it (align-flow.ts).
PickIsServed == FlowTypeOK /\ PickWins
=============================================================================
