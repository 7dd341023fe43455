------------------------------ MODULE MCServer ------------------------------
(***************************************************************************)
(* The server, instantiated: the signaling rooms, desk access, the join    *)
(* limiter, the deletion of streams, the range sets acks are made of, and  *)
(* the sender facing a sink that may answer anything.  The parts share no  *)
(* state, so their product would only multiply; `part` picks one of them   *)
(* in the initial state and keeps it.                                      *)
(***************************************************************************)
EXTENDS SignalingRoom, DeskAccess, RateLimit, StreamDeletion, RangeSet, OpenSender

VARIABLE part

vars == <<part, sigVars, accessVars, rateVars, delVars, rangeVars, openVars>>

\* Two sockets of one microphone and a desk.
mcDeviceOf == [c \in Conn |-> IF c = "k" THEN "desk" ELSE "mic"]
mcIsDesk(c) == c = "k"

\* Ann and Bob race for the session; Ann shares it with Bob; Bob deletes it.
mcUserOf == [q \in Request |->
    IF q \in {"a-open", "a-share", "a-unshare"} THEN "ann" ELSE "bob"]
mcKindOf == [q \in Request |->
    CASE q \in {"a-open", "b-open"} -> "open"
      [] q = "b-read" -> "read"
      [] q = "a-share" -> "share"
      [] q = "a-unshare" -> "unshare"
      [] OTHER -> "delete"]
mcEmail == [q \in Request |-> "bob@"]
mcEmailsOf == [u \in {"ann", "bob"} |-> {IF u = "ann" THEN "ann@" ELSE "bob@"}]

\* Of the two streams only one has audio on the recorder when the take ends.
mcRecorded == {<<"s", 0>>}

mcCost == [s \in 0 .. MaxSeq |-> 1]

Init ==
    /\ part \in {"signaling", "access", "limiter", "deletion", "ranges", "sender"}
    /\ SigInit /\ AccessInit /\ RateInit /\ DelInit /\ RangeInit /\ OpenInit
    /\ exists => part = "access"
    /\ delCount.hard = 0 => part = "deletion"

\* The other parts stand still.
Only(p) ==
    /\ part = p /\ UNCHANGED part
    /\ p # "signaling" => UNCHANGED sigVars
    /\ p # "access" => UNCHANGED accessVars
    /\ p # "limiter" => UNCHANGED rateVars
    /\ p # "deletion" => UNCHANGED delVars
    /\ p # "ranges" => UNCHANGED rangeVars
    /\ p # "sender" => UNCHANGED openVars

Next ==
    \/ Only("signaling") /\ SigNext
    \/ Only("access") /\ AccessNext
    \/ Only("limiter") /\ RateNext
    \/ Only("deletion") /\ DelNext
    \/ Only("ranges") /\ RangeNext
    \/ Only("sender") /\ OpenNext

Spec == Init /\ [][Next]_vars
=============================================================================
