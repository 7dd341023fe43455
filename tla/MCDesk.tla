------------------------------- MODULE MCDesk -------------------------------
(***************************************************************************)
(* What desks share and show of a session, instantiated: MIDI takes, the   *)
(* lists of a take, the mix and the lanes.  Each is a store or a map of    *)
(* the shared document of its own, so the product would only multiply;     *)
(* `part` picks one in the initial state and keeps it.                     *)
(***************************************************************************)
EXTENDS DeskMidi, TakeLists, MixSync, DeskLanes

VARIABLE part

vars == <<part, midiVars, listVars, mixVars, laneVars>>

mcMaxEvents == [t \in MidiTake \cup OldTake |-> IF t = "A" THEN 2 ELSE 1]

\* One desk's localStorage holds a list from before the shared document.
mcLocalChoice == {[d \in ListDesk |-> IF d = "d" THEN {[id |-> "m", val |-> 0]} ELSE {}]}

\* Two pages of one session, or of two of which one has a stored mix.
mcFirstSession == {[p \in MixPage |-> "A"], [p \in MixPage |-> IF p = "p" THEN "B" ELSE "A"]}
mcPersisted == [s \in MixSession |-> [k \in Lane |->
    IF s = "A" /\ k = "k"
    THEN [val |-> [gain |-> 1, muted |-> TRUE, soloed |-> FALSE, eq |-> 0], rank |-> 1]
    ELSE [val |-> [gain |-> 1, muted |-> FALSE, soloed |-> FALSE, eq |-> 0], rank |-> 0]]]

mcOwnerOf == [s \in LaneStream |-> "p"]
mcTakeWith == [s \in LaneStream |-> 1]
mcJoinedAt == [p \in LanePeer |-> IF p = "p" THEN 1 ELSE 2]
mcRemoteOrders == {[k \in {"p", "q"} |-> IF k = "p" THEN 1 ELSE 0],
                   [k \in {"p", "s", "q"} |-> IF k = "p" THEN 0 ELSE 1]}

Init ==
    /\ part \in {"midi", "lists", "mix", "lanes"}
    /\ MidiInit /\ ListInit /\ MixInit /\ LaneInit
    /\ store.kind = "local" => part = "midi"
    /\ mixAt["p"] = "B" => part = "mix"

\* The other parts stand still.
Only(p) ==
    /\ part = p /\ UNCHANGED part
    /\ p # "midi" => UNCHANGED midiVars
    /\ p # "lists" => UNCHANGED listVars
    /\ p # "mix" => UNCHANGED mixVars
    /\ p # "lanes" => UNCHANGED laneVars

\* A third edit of the lists only where the rest is small: one item, no page load and
\* nothing amiss; and only those use the last tag.
Calm ==
    /\ mishap = {} /\ listReloads = 0
    /\ \A d \in ListDesk : \A e \in listDoc[d].els : e.id = "m"
LastTagFree == \A d \in ListDesk : \A e \in listDoc[d].els : e.tag < MaxTag
ListsNext ==
    /\ IF listEdits = 2 /\ ~Calm THEN UNCHANGED listEdits ELSE TRUE
    /\ ListNext
    /\ Calm' \/ (listEdits' < 3 /\ LastTagFree')

\* A second incident of the MIDI takes only where none has a second event.
IncidentsApart == incidents < 2 \/ \A t \in MidiTake : played[t] < 2

Next ==
    \/ Only("midi") /\ MidiNext /\ IncidentsApart'
    \/ Only("lists") /\ ListsNext
    \/ Only("mix") /\ MixNext
    \/ Only("lanes") /\ LaneNext

Spec == Init /\ [][Next]_vars

\* The lists alone, each desk with one edit.
EditsOnce(d) ==
    \A e, f \in listDoc[d].els : e.by = f.by /\ {} \notin {e.from, f.from} => e = f

ListsAlone ==
    /\ Init /\ part = "lists"
    /\ [][Only("lists") /\ ListNext /\ (\A d \in ListDesk : EditsOnce(d))']_vars
=============================================================================
