----------------------------- MODULE DeskInput -----------------------------
(***************************************************************************)
(* The desk's own input: use-desk-input.ts with the card that drives it    *)
(* (desk-input-block.tsx) and CaptureController.start and teardown.  Every *)
(* await is a pending operation: a click may come between any two of its   *)
(* stages, and two operations may be pending at once.  The buttons' guards *)
(* are the card's; rolling is the take state the card has been told.       *)
(***************************************************************************)
EXTENDS Naturals, FiniteSets

CONSTANTS MaxClicks, MaxPlugs, MaxRolls

VARIABLES
    inPhase, listed,    \* DeskInputState.phase; the picker has devices
    inOps,      \* the pending operations: [id, kind, at]
    inController, inSession,    \* the operation whose controller this is, 0 for none
    mics,       \* the operations whose controller holds an open microphone
    prefs,      \* an input was used before
    present, dead, unplugged,   \* the device is there; the track ended; what the card says
    clicks, plugs, rolls, rolling,
    crossed,    \* a click met a pending probe, start or teardown
    early       \* the track ended before anybody listened

inVars == <<inPhase, listed, inOps, inController, inSession, mics, prefs, present, dead, unplugged,
            clicks, plugs, rolls, rolling, crossed, early>>
plugVars == <<present, dead, unplugged, plugs, early>>
rollVars == <<rolls, rolling>>
laneVars == <<inController, inSession, mics, prefs>>

InputInit ==
    /\ inPhase = "off" /\ listed = FALSE /\ inOps = {}
    /\ inController = 0 /\ inSession = FALSE /\ mics = {} /\ prefs \in BOOLEAN
    /\ present = TRUE /\ dead = FALSE /\ unplugged = FALSE
    /\ clicks = 0 /\ plugs = 0 /\ rolls = 0 /\ rolling = FALSE /\ crossed = FALSE /\ early = FALSE

Op(id, kind, at) == [id |-> id, kind |-> kind, at |-> at]
Click == clicks < MaxClicks /\ clicks' = clicks + 1
Busy == \E op \in inOps : op.kind # "watch"
Without(op) == inOps \ {op}
Moved(op, at) == Without(op) \cup {[op EXCEPT !.at = at]}

(***************************************************************************)
(* Picking.                                                                *)
(***************************************************************************)
\* The off card: openPicker, or resume where an input was used before; its
\* "change" button is not gated by a rolling take.
ClickOff(kind) ==
    /\ Click /\ inPhase = "off"
    /\ kind = "resume" => prefs /\ ~rolling
    /\ kind = "pick" /\ ~prefs => ~rolling
    /\ inPhase' = "picking"
    /\ inOps' = inOps \cup {Op(clicks', kind, "probe")}
    /\ crossed' = (crossed \/ Busy)
    /\ UNCHANGED <<listed, laneVars, plugVars, rollVars>>

probeMicPermission(op, ok) ==
    /\ op.at = "probe"
    /\ IF ok THEN inOps' = Moved(op, "list") /\ UNCHANGED inPhase
       ELSE inOps' = Without(op) /\ inPhase' = "off"
    /\ UNCHANGED <<listed, laneVars, plugVars, rollVars, clicks, crossed>>

closePicker ==
    /\ Click /\ inPhase = "picking" /\ inPhase' = "off"
    /\ UNCHANGED <<listed, inOps, laneVars, plugVars, rollVars, crossed>>

(***************************************************************************)
(* Starting.  enable begins here with the operations that stay pending.    *)
(***************************************************************************)
\* Mutant: a second enable makes a controller of its own.
EnableAgain(op, ops) ==
    inOps' = ops \cup {[op EXCEPT !.at = "start"]} /\ inController' = op.id /\ inPhase' = "starting"

Enable(op, ops) ==
    IF inController # 0 THEN inOps' = ops /\ UNCHANGED <<inController, inPhase>>
    ELSE inOps' = ops \cup {[op EXCEPT !.at = "start"]} /\ inController' = op.id /\ inPhase' = "starting"

\* refreshDevices returned; a resume enables the input it finds.
refreshDevices(op) ==
    /\ op.at = "list" /\ listed' = TRUE
    /\ IF op.kind = "resume" /\ present THEN Enable(op, Without(op))
       ELSE inOps' = Without(op) /\ UNCHANGED <<inController, inPhase>>
    /\ UNCHANGED <<inSession, mics, prefs, plugVars, rollVars, clicks, crossed>>

\* "Use input".
UseInput ==
    /\ Click /\ inPhase = "picking" /\ listed /\ ~rolling
    /\ Enable(Op(clicks', "use", "start"), inOps)
    /\ crossed' = (crossed \/ Busy)
    /\ UNCHANGED <<listed, inSession, mics, prefs, plugVars, rollVars>>

\* start: getUserMedia gave the stream.
acquireStream(op) ==
    /\ op.at = "start" /\ present
    /\ inOps' = Moved(op, "boot") /\ mics' = mics \cup {op.id}
    /\ dead' = FALSE
    /\ UNCHANGED <<inPhase, listed, inController, inSession, prefs, present, unplugged, plugs, early,
                   rollVars, clicks, crossed>>

\* No stream, or the context or the worklet failed: teardown stops the tracks.
StartFails(op) ==
    /\ op.at \in {"start", "boot"}
    /\ inController' = 0 /\ inPhase' = "picking" /\ inOps' = Without(op) /\ mics' = mics \ {op.id}
    /\ UNCHANGED <<listed, inSession, prefs, plugVars, rollVars, clicks, crossed>>

\* enable's rest: the track's end is listened for from here on.
StartEnds(op) ==
    /\ op.at = "boot"
    /\ inSession' = TRUE /\ prefs' = TRUE /\ inPhase' = "live" /\ unplugged' = FALSE
    /\ inOps' = Without(op)
    /\ UNCHANGED <<listed, inController, mics, present, dead, plugs, early, rollVars, clicks, crossed>>

(***************************************************************************)
(* Stopping.                                                               *)
(***************************************************************************)
\* disable up to its await: the tracks stop, the session has left.
disable ==
    /\ Click /\ inPhase = "live" /\ ~rolling
    /\ inSession' = FALSE /\ inController' = 0 /\ mics' = mics \ {inController}
    /\ inOps' = inOps \cup {Op(clicks', "disable", "close")}
    /\ crossed' = (crossed \/ Busy)
    /\ UNCHANGED <<inPhase, listed, prefs, plugVars, rollVars>>

teardownEnds(op) ==
    /\ op.at = "close"
    /\ inPhase' = "off" /\ listed' = FALSE /\ unplugged' = FALSE /\ inOps' = Without(op)
    /\ UNCHANGED <<laneVars, present, dead, plugs, early, rollVars, clicks, crossed>>

(***************************************************************************)
(* The device comes and goes.                                              *)
(***************************************************************************)
Watch == IF inPhase = "live" THEN inOps \cup {Op(0, "watch", "enumerate")} ELSE inOps

Unplug ==
    /\ plugs < MaxPlugs /\ plugs' = plugs + 1
    /\ present /\ present' = FALSE
    /\ dead' = (mics # {} \/ dead)
    /\ unplugged' = (unplugged \/ (mics # {} /\ inSession))
    /\ early' = (early \/ (mics # {} /\ ~inSession))
    /\ inOps' = Watch
    /\ UNCHANGED <<inPhase, listed, laneVars, rollVars, clicks, crossed>>

Replug ==
    /\ ~present /\ present' = TRUE /\ inOps' = Watch
    /\ UNCHANGED <<inPhase, listed, laneVars, dead, unplugged, plugs, early, rollVars, clicks, crossed>>

\* A dead track never recovers.
onDeviceChange(op) ==
    /\ op.at = "enumerate"
    /\ unplugged' = ((mics # {} /\ dead) \/ ~present) /\ inOps' = Without(op)
    /\ UNCHANGED <<inPhase, listed, laneVars, present, dead, plugs, early, rollVars, clicks, crossed>>

\* Any desk starts or stops a take.
TakeRolls ==
    /\ rolling \/ rolls < MaxRolls
    /\ rolling' = ~rolling /\ rolls' = IF rolling THEN rolls ELSE rolls + 1
    /\ UNCHANGED <<inPhase, listed, inOps, laneVars, plugVars, clicks, crossed>>

OpStep(op) ==
    \/ \E ok \in BOOLEAN : probeMicPermission(op, ok)
    \/ refreshDevices(op) \/ acquireStream(op) \/ StartFails(op) \/ StartEnds(op)
    \/ teardownEnds(op) \/ onDeviceChange(op)

InputNext ==
    \/ \E kind \in {"pick", "resume"} : ClickOff(kind)
    \/ closePicker \/ UseInput \/ disable \/ Unplug \/ Replug \/ TakeRolls
    \/ \E op \in inOps : OpStep(op)

\* The browser settles every promise.
InputFairness == WF_inVars(\E op \in inOps : OpStep(op))

InputSpec == InputInit /\ [][InputNext]_inVars /\ InputFairness

(***************************************************************************)
(* Properties.                                                             *)
(***************************************************************************)
\* However resumes, picks and disables overlap, the page holds at most
\* one open microphone.
OneMic == Cardinality(mics) <= 1

\* A card that offers to add an input has no lane behind it: no microphone is
\* open, no recorder has joined.  (Where the awaits did not cross.)
OffIsOff == inPhase = "off" /\ ~crossed => mics = {} /\ ~inSession /\ inController = 0

\* A live lane whose track ended says so, replugged or not.
DeadIsShown == inPhase = "live" /\ inSession /\ dead /\ ~early => unplugged \/ \E op \in inOps : op.at = "enumerate"

\* A lane that is starting starts, or the card goes back to the picker.
StartingEnds == []<>(inPhase # "starting")

\* A lane never appears or vanishes while a take rolls.
SitsOutTakes == [][inSession' # inSession => ~rolling]_inVars

\* The card tells the truth about the microphone behind it (use-desk-input.ts).
CardIsTrue == OneMic /\ OffIsOff /\ DeadIsShown
=============================================================================
