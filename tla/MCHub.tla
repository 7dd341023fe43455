------------------------------- MODULE MCHub --------------------------------
(***************************************************************************)
(* What connects the pages, instantiated: the collaboration hub with its   *)
(* desks, the recorder's page and its link to the desk, the common time    *)
(* its streams are aligned to, and the verdict the desks share.  The parts *)
(* share no state; `part` picks one in the initial state and keeps it.     *)
(***************************************************************************)
EXTENDS CollabRoom, AlignDomain, AlignStore, SinkLinks, JoinPage

VARIABLE part

vars == <<part, collabVars, alignVars, storeVars, linkVars, joinVars>>

mcDeskAt == [c \in Socket |-> IF c = "a1" THEN "a" ELSE "b"]

mcTrueLag == [s \in AlignStream |-> CASE s = "x" -> 3 [] s = "y" -> 0 [] OTHER -> 4]
mcBufferLength == [s \in AlignStream |-> CASE s = "x" -> 2 [] s = "y" -> 1 [] OTHER -> 3]
mcSweepChoice == [AlignStream -> Sweep \cup {NoSweep}]
mcMatchChoice ==
    {m \in SUBSET {p \in AlignStream \X AlignStream : p[1] # p[2]} :
        \A p \in m : <<p[2], p[1]>> \in m}

\* One desk's clock runs ahead.
mcSkew == [d \in StoreDesk |-> IF d = "d" THEN 2 ELSE 0]

Init ==
    /\ part \in {"hub", "domain", "verdicts", "links", "join"}
    /\ CollabInit /\ AlignInit /\ StoreInit /\ LinksInit /\ JoinInit
    /\ matches # {} => part = "domain"
    /\ (\E s \in AlignStream : sweepOf[s] # NoSweep) => part = "domain"

\* The other parts stand still.
Only(p) ==
    /\ part = p /\ UNCHANGED part
    /\ p # "hub" => UNCHANGED collabVars
    /\ p # "domain" => UNCHANGED alignVars
    /\ p # "verdicts" => UNCHANGED storeVars
    /\ p # "links" => UNCHANGED linkVars
    /\ p # "join" => UNCHANGED joinVars

Next ==
    \/ Only("hub") /\ CollabNext
    \/ Only("domain") /\ AlignNext
    \/ Only("verdicts") /\ StoreNext
    \/ Only("links") /\ LinksNext
    \/ Only("join") /\ JoinNext

\* CollabFairness, in the behaviours of the hub.
Fairness ==
    /\ \A d \in Desk : WF_vars(Only("hub") /\ flushUpdates(d))
    /\ \A c \in Socket : WF_vars(Only("hub") /\ SocketStep(c))
    /\ \A r \in CRoom : WF_vars(Only("hub") /\ RoomStep(r))
    /\ WF_vars(Only("hub") /\ (closeCollabLoaded \/ EraseRow \/ ShutdownEnds))

Spec == Init /\ [][Next]_vars /\ Fairness
=============================================================================
