----------------------------- MODULE MCPlayback -----------------------------
(***************************************************************************)
(* The desk at work, instantiated: its player, the arrangement it plays,   *)
(* its alignment flows, and its own input.  The parts share no state;      *)
(* `part` picks one in the initial state and keeps it.                     *)
(***************************************************************************)
EXTENDS SessionPlayer, AlignFlow, Arrangement, DeskInput

VARIABLE part

vars == <<part, playerVars, flowVars, arrangeVars, inVars>>

\* Two takes; the streams of the first sound together, the second follows.  The
\* clip that edits move, or delete, sounds with another.
mcStreamsOf == [t \in Take |-> IF t = "A" THEN <<"a1", "a2">> ELSE <<"b1">>]
mcLenOf == [s \in {"a1", "a2", "b1"} |-> 1]
mcStartAt == [s \in {"a1", "a2", "b1"} |-> IF s = "b1" THEN 1 ELSE 0]
mcOtherStart == [s \in {"a1", "a2", "b1"} |-> IF s = "a1" THEN {2} ELSE {}]

mcScopes == <<"A", "B">>

\* How far a gesture moves an edge or a clip.
mcShift == {-2, -1, 1, 2}

Init ==
    /\ part \in {"player", "flow", "arrangement", "input"}
    /\ PlayerInit /\ FlowInit /\ ArrangeInit /\ InputInit
    /\ prefs => part = "input"

\* The other parts stand still.
Only(p) ==
    /\ part = p /\ UNCHANGED part
    /\ p # "player" => UNCHANGED playerVars
    /\ p # "flow" => UNCHANGED flowVars
    /\ p # "arrangement" => UNCHANGED arrangeVars
    /\ p # "input" => UNCHANGED inVars

Next ==
    \/ Only("player") /\ PlayerNext
    \/ Only("flow") /\ FlowNext
    \/ Only("arrangement") /\ ArrangeNext
    \/ Only("input") /\ InputNext

\* The fairness of each part, in its own behaviours.  A step of the load queue is
\* enabled as long as it is busy, so its fairness can be said without ENABLED.
Fairness ==
    /\ []<>(job.id = 0) \/ []<><<Only("player") /\ QueueStep>>_vars
    /\ WF_vars(Only("flow") /\ \E ok \in BOOLEAN : SettleLoad(ok))
    /\ WF_vars(Only("input") /\ \E op \in inOps : OpStep(op))

Spec == Init /\ [][Next]_vars /\ Fairness

\* Nothing on the desk waits forever: every load request is answered, every
\* alignment flow ends, and a starting input starts or gives up.
NothingHangs == EveryRequestSettles /\ FlowEnds /\ StartingEnds
=============================================================================
