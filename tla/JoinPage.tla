------------------------------ MODULE JoinPage ------------------------------
(***************************************************************************)
(* The microphone of the phone page, await by await: start, switchDevice   *)
(* and teardown of capture-controller.ts, startCapture, joinSession and    *)
(* takeOverSession of use-capture.ts, the two buttons of join/index.tsx    *)
(* and haltForFatal of recorder-session.ts.  RecorderPage has the takes;   *)
(* here a take that opens during a switch is one way for it to be refused. *)
(*                                                                         *)
(* getUserMedia hands out a fresh track each time; a track is hot until    *)
(* somebody stops it.                                                      *)
(***************************************************************************)
EXTENDS Naturals, FiniteSets

CONSTANTS MaxTracks, MaxHalts, MaxMicFaults,
          HurriedTap,   \* BOOLEAN: Take over is tapped before the teardown has ended
          LateFailure   \* BOOLEAN: resume() or addModule() may fail, the context made

NoTrack == 0
Track == 1..MaxTracks

VARIABLES
    tap,        \* the button being served: "none", "enable", "takeover" (busy otherwise)
    starting,   \* what start() awaits: "no", "acquire", "resume", "module", "wake"
    preferred,  \* BOOLEAN: on the saved microphone
    ending,     \* what teardown() awaits: "no", "close", "release"
    switching,  \* what switchDevice() remembers of the pipeline: NoSwitch or its epoch
    context, stream, node, worker,  \* the controller's fields
    hot,       \* tracks that are hot, held by somebody or not
    epoch, capturing,   \* pipelineEpoch; the snapshot says it captures
    joined, fatal,      \* the session: created; halted
    handed, halts, faults

joinVars == <<tap, starting, preferred, ending, switching, context, stream, node, worker, hot,
              epoch, capturing, joined, fatal, handed, halts, faults>>
pipeVars == <<context, stream, node, worker, hot, epoch, capturing, handed>>

NoSwitch == MaxHalts + 1

JoinInit ==
    /\ tap = "none" /\ starting = "no" /\ preferred = FALSE /\ ending = "no" /\ switching = NoSwitch
    /\ context = FALSE /\ stream = NoTrack /\ node = FALSE /\ worker = FALSE /\ hot = {}
    /\ epoch = 0 /\ capturing = FALSE /\ joined = FALSE /\ fatal = FALSE
    /\ handed = 0 /\ halts = 0 /\ faults = 0

(***************************************************************************)
(* Buttons.                                                                *)
(***************************************************************************)
\* startCapture resolved: enableMic joins, takeOver reopens the halted session.
Served(button) ==
    /\ tap' = "none"
    /\ joined' = (joined \/ button = "enable")
    /\ fatal' = (fatal /\ button = "enable")

\* start() returns at once when there is a context.
StartCalled(button) ==
    IF context
    THEN Served(button) /\ UNCHANGED starting
    ELSE tap' = button /\ starting' = "acquire" /\ UNCHANGED <<joined, fatal>>

enableMic(pref) ==
    /\ tap = "none" /\ ~fatal /\ ~capturing
    /\ preferred' = pref /\ StartCalled("enable")
    /\ UNCHANGED <<ending, switching, pipeVars, halts, faults>>

takeOver(pref) ==
    /\ tap = "none" /\ fatal /\ (ending = "no" \/ HurriedTap)
    /\ preferred' = pref /\ StartCalled("takeover")
    /\ UNCHANGED <<ending, switching, pipeVars, halts, faults>>

(***************************************************************************)
(* CaptureController.start.                                                *)
(***************************************************************************)
Acquired ==
    /\ starting = "acquire" /\ handed < MaxTracks
    /\ handed' = handed + 1 /\ stream' = handed' /\ hot' = hot \cup {handed'}
    /\ context' = TRUE /\ starting' = "resume"
    /\ UNCHANGED <<tap, preferred, ending, switching, node, worker, epoch, capturing,
                   joined, fatal, halts, faults>>

Resumed ==
    /\ starting = "resume" /\ starting' = "module"
    /\ UNCHANGED <<tap, preferred, ending, switching, pipeVars, joined, fatal, halts, faults>>

ModuleAdded ==
    /\ starting = "module" /\ starting' = "wake"
    /\ node' = TRUE /\ worker' = TRUE /\ capturing' = TRUE
    /\ UNCHANGED <<tap, preferred, ending, switching, context, stream, hot, epoch, handed,
                   joined, fatal, halts, faults>>

\* The wake lock is best effort.
Started ==
    /\ starting = "wake" /\ starting' = "no" /\ Served(tap)
    /\ UNCHANGED <<preferred, ending, switching, pipeVars, halts, faults>>

\* start() throws.  On the saved microphone startCapture calls it again with the default
\* one, unless permission was denied.
OpenFails(denied) ==
    /\ starting = "acquire" \/ (LateFailure /\ starting \in {"resume", "module"} /\ ~denied)
    /\ faults < MaxMicFaults /\ faults' = faults + 1
    /\ preferred' = FALSE
    /\ IF preferred /\ ~denied
       THEN IF context
            THEN Served(tap) /\ starting' = "no"
            ELSE starting' = "acquire" /\ UNCHANGED <<tap, joined, fatal>>
       ELSE tap' = "none" /\ starting' = "no" /\ UNCHANGED <<joined, fatal>>
    /\ UNCHANGED <<ending, switching, pipeVars, halts>>

(***************************************************************************)
(* CaptureController.switchDevice: only offered while it captures.         *)
(***************************************************************************)
SwitchBegins ==
    /\ capturing /\ ~fatal /\ context /\ node /\ switching = NoSwitch
    /\ switching' = epoch
    /\ UNCHANGED <<tap, starting, preferred, ending, pipeVars, joined, fatal, halts, faults>>

\* Mutant: the track of a refused switch is not stopped.
SwitchEndsHot(taken) ==
    /\ switching # NoSwitch /\ handed < MaxTracks
    /\ handed' = handed + 1
    /\ IF switching # epoch \/ ~context \/ ~node \/ taken
       THEN hot' = hot \cup {handed'} /\ UNCHANGED stream
       ELSE hot' = (hot \ {stream}) \cup {handed'} /\ stream' = handed'
    /\ switching' = NoSwitch
    /\ UNCHANGED <<tap, starting, preferred, ending, context, node, worker, epoch, capturing,
                   joined, fatal, halts, faults>>

\* getUserMedia answers; the pipeline may be another by now, a take may have opened.
SwitchEnds(taken) ==
    /\ switching # NoSwitch /\ handed < MaxTracks
    /\ handed' = handed + 1
    /\ IF switching # epoch \/ ~context \/ ~node \/ taken
       THEN UNCHANGED <<hot, stream>>
       ELSE hot' = (hot \ {stream}) \cup {handed'} /\ stream' = handed'
    /\ switching' = NoSwitch
    /\ UNCHANGED <<tap, starting, preferred, ending, context, node, worker, epoch, capturing,
                   joined, fatal, halts, faults>>

SwitchFails ==
    /\ switching # NoSwitch /\ switching' = NoSwitch
    /\ faults < MaxMicFaults /\ faults' = faults + 1
    /\ UNCHANGED <<tap, starting, preferred, ending, pipeVars, joined, fatal, halts>>

(***************************************************************************)
(* RecorderSession.haltForFatal and CaptureController.teardown.            *)
(***************************************************************************)

haltForFatal ==
    /\ joined /\ ~fatal /\ ending = "no" /\ halts < MaxHalts
    /\ halts' = halts + 1 /\ fatal' = TRUE
    /\ epoch' = epoch + 1 /\ node' = FALSE /\ worker' = FALSE
    /\ hot' = hot \ {stream} /\ stream' = NoTrack
    /\ ending' = "close"
    /\ UNCHANGED <<tap, starting, preferred, switching, context, capturing, joined, handed, faults>>

ContextClosed ==
    /\ ending = "close" /\ ending' = "release" /\ context' = FALSE
    /\ UNCHANGED <<tap, starting, preferred, switching, stream, node, worker, hot, epoch,
                   capturing, handed, joined, fatal, halts, faults>>

TeardownEnded ==
    /\ ending = "release" /\ ending' = "no" /\ capturing' = FALSE
    /\ UNCHANGED <<tap, starting, preferred, switching, context, stream, node, worker, hot,
                   epoch, handed, joined, fatal, halts, faults>>

JoinNext ==
    \/ \E pref \in BOOLEAN : enableMic(pref) \/ takeOver(pref) \/ SwitchEnds(pref)
    \/ Acquired \/ Resumed \/ ModuleAdded \/ Started
    \/ \E denied \in BOOLEAN : OpenFails(denied)
    \/ SwitchBegins \/ SwitchFails
    \/ haltForFatal \/ ContextClosed \/ TeardownEnded

JoinSpec == JoinInit /\ [][JoinNext]_joinVars

(***************************************************************************)
(* Properties.                                                             *)
(***************************************************************************)
\* Nothing is awaited on the page.
AtRest == tap = "none" /\ ending = "no" /\ switching = NoSwitch

\* Every hot track is the one the controller holds, so that a teardown releases the
\* microphone: no start, switch or halt that crosses another one leaves a hot microphone
\* behind (capture-controller.ts: "a rejected switch must never leave a hot mic behind").
NoStrayMic == hot \subseteq {stream}

\* The page says that it captures exactly while it has a whole pipeline (teardown:
\* "so the UI never renders a stale capturing state over a released mic").
ShownIsTrue == AtRest => (capturing <=> (context /\ node /\ worker /\ stream \in hot))

\* On the screen of a halted session the microphone is released (recorder-session.ts:
\* "STOP everything, including the mic").
HaltReleases == (AtRest /\ fatal) => hot = {}

\* A phone in a session has a pipeline to record with: joining and taking over follow a
\* start (recorder-session.ts takeOver: "The caller must restart the capture pipeline
\* first").  It holds as long as nobody taps during a teardown and a start fails before
\* it has made its context.
JoinedRecords == (AtRest /\ joined /\ ~fatal) => (context /\ node /\ worker /\ stream \in hot)

\* Microphone, pipeline and screen agree: whichever taps, switches, teardowns and
\* halts cross, every hot track has its holder, the page shows what it captures, and
\* a phone in a session can record (capture-controller.ts, recorder-session.ts).
MicIsAccounted == NoStrayMic /\ ShownIsTrue /\ HaltReleases /\ JoinedRecords
=============================================================================
