----------------------------- MODULE SinkLinks -----------------------------
(***************************************************************************)
(* A recorder's link to the desk sink: recorder-session.ts (ensureLinks,   *)
(* ensureLink, linkDown, simulateOutage, haltForFatal), sink-link.ts and   *)
(* offerChannel of rtc.ts.  An offer is awaited for up to fifteen seconds; *)
(* nothing cancels it, so it may end after its link was torn down.  The    *)
(* link to the server sink is the same with a peer that never changes.     *)
(***************************************************************************)
EXTENDS Naturals, FiniteSets

CONSTANTS MaxLinkObjects, MaxOffers, MaxDeskPeers, MaxLinkFaults

ASSUME LinksAssumption == MaxLinkObjects \in Nat /\ MaxOffers \in Nat /\ MaxDeskPeers \in Nat

VARIABLES
    deskPeer,   \* the desk's peer id in the roster, 0 for none
    lastPeer,
    linkUp,     \* signaling is connected
    outage,     \* a simulated outage runs
    links,      \* cur: the link in the map; obj: link -> target, connecting, chan;
                \* offer: attempt -> link, state
    told,       \* what the encoder worker was told of the sink
    linkTimers, \* scheduled calls of ensureLinks
    linkFaults,
    overtaken   \* a link was torn down while an offer of it was in flight

linkVars == <<deskPeer, lastPeer, linkUp, outage, links, told, linkTimers, linkFaults, overtaken>>

Links == 1..MaxLinkObjects
Offers == 1..MaxOffers
newSinkLink(peer) == [target |-> peer, connecting |-> FALSE, chan |-> 0]
NoOffer == [link |-> 0, state |-> "none"]

LinksInit ==
    /\ deskPeer = 0 /\ lastPeer = 0 /\ linkUp = FALSE /\ outage = FALSE
    /\ links = [cur |-> 0, obj |-> [l \in Links |-> newSinkLink(0)], offer |-> [a \in Offers |-> NoOffer]]
    /\ told = FALSE /\ linkTimers = 0 /\ linkFaults = 0 /\ overtaken = FALSE

InFlight(net, l) == \E a \in Offers : net.offer[a] = [link |-> l, state |-> "offered"]

\* teardownSinkLink: the channel is disposed of, the link stays.
teardownSinkLink(net, l) ==
    [net EXCEPT !.obj[l].connecting = FALSE, !.obj[l].chan = 0,
                !.offer = [a \in Offers |-> IF a = net.obj[l].chan THEN [@[a] EXCEPT !.state = "closed"] ELSE @[a]]]

Replaced(net, peer) == net.cur # 0 /\ net.obj[net.cur].target # peer

\* The desk's peer id changed: its link goes.
Kept(net, peer) ==
    IF Replaced(net, peer) THEN [teardownSinkLink(net, net.cur) EXCEPT !.cur = 0] ELSE net

FreeLinks(net) == {l \in Links : net.obj[l].target = 0}
FreeOffers(net) == {a \in Offers : net.offer[a] = NoOffer}
First(S) == CHOOSE x \in S : \A y \in S : x <= y

Made(net, peer) ==
    IF net.cur # 0 THEN net
    ELSE LET l == First(FreeLinks(net))
         IN  [net EXCEPT !.cur = l, !.obj[l] = newSinkLink(peer)]

ensureLink(net) ==
    IF net.obj[net.cur].connecting \/ net.obj[net.cur].chan # 0 THEN net
    ELSE LET a == First(FreeOffers(net))
         IN  [net EXCEPT !.obj[net.cur].connecting = TRUE, !.offer[a] = [link |-> net.cur, state |-> "offered"]]

\* A bound: enough fresh identities for one more link and one more offer.
Room(net) == FreeLinks(net) # {} /\ FreeOffers(net) # {}

\* ensureLinks from net, with what the worker knows so far.
ensureLinks(net, known, peer, up, out) ==
    IF out \/ ~up \/ peer = 0
    THEN links' = net /\ told' = known /\ UNCHANGED overtaken
    ELSE /\ Room(net)
         /\ links' = ensureLink(Made(Kept(net, peer), peer))
         /\ told' = (known /\ ~Replaced(net, peer))
         /\ overtaken' = (overtaken \/ (Replaced(net, peer) /\ InFlight(net, net.cur)))

LinkTrouble == linkFaults < MaxLinkFaults /\ linkFaults' = linkFaults + 1

(***************************************************************************)
(* Signaling.                                                              *)
(***************************************************************************)
SignalReturns ==
    /\ ~linkUp /\ linkUp' = TRUE
    /\ ensureLinks(links, told, deskPeer, TRUE, outage)
    /\ UNCHANGED <<deskPeer, lastPeer, outage, linkTimers, linkFaults>>

SignalDrops ==
    /\ LinkTrouble /\ linkUp /\ linkUp' = FALSE
    /\ UNCHANGED <<deskPeer, lastPeer, outage, links, told, linkTimers, overtaken>>

\* A desk joins, under its old peer id or another one.
DeskJoins(peer) ==
    /\ deskPeer = 0 /\ peer \in {lastPeer, lastPeer + 1} \ {0} /\ peer <= MaxDeskPeers
    /\ deskPeer' = peer /\ lastPeer' = peer
    /\ ensureLinks(links, told, peer, linkUp, outage)
    /\ UNCHANGED <<linkUp, outage, linkTimers, linkFaults>>

DeskLeaves ==
    /\ LinkTrouble /\ deskPeer # 0 /\ deskPeer' = 0
    /\ UNCHANGED <<lastPeer, linkUp, outage, links, told, linkTimers, overtaken>>

(***************************************************************************)
(* An offer ends.                                                          *)
(***************************************************************************)
\* adoptSinkChannel: an earlier channel of the link is not disposed of.
OfferOpens(a) ==
    LET l == links.offer[a].link
    IN  /\ links.offer[a].state = "offered" /\ links.obj[l].target = deskPeer
        /\ links' = [links EXCEPT !.obj[l].connecting = FALSE, !.obj[l].chan = a, !.offer[a].state = "open"]
        /\ told' = TRUE
        /\ UNCHANGED <<deskPeer, lastPeer, linkUp, outage, linkTimers, linkFaults, overtaken>>

\* Mutant: nobody offers again.
OfferFailsForGood(a) ==
    LET l == links.offer[a].link
    IN  /\ LinkTrouble /\ links.offer[a].state = "offered"
        /\ links' = [links EXCEPT !.obj[l].connecting = FALSE, !.offer[a].state = "failed"]
        /\ told' = FALSE
        /\ UNCHANGED <<deskPeer, lastPeer, linkUp, outage, linkTimers, overtaken>>

\* The catch: timed out, or the connection failed.
OfferFails(a) ==
    LET l == links.offer[a].link
    IN  /\ links.offer[a].state = "offered"
        /\ IF links.obj[l].target = deskPeer THEN LinkTrouble ELSE UNCHANGED linkFaults
        /\ links' = [links EXCEPT !.obj[l].connecting = FALSE, !.offer[a].state = "failed"]
        /\ told' = FALSE /\ linkTimers' = linkTimers + 1
        /\ UNCHANGED <<deskPeer, lastPeer, linkUp, outage, overtaken>>

\* down and linkDown, for the channel the link holds; another one just closes.
ChannelDies(a) ==
    LET l == links.offer[a].link
    IN  /\ links.offer[a].state = "open"
        /\ IF links.obj[l].target = deskPeer THEN LinkTrouble ELSE UNCHANGED linkFaults
        /\ IF links.obj[l].chan = a
           THEN links' = teardownSinkLink(links, l) /\ told' = FALSE /\ linkTimers' = linkTimers + 1
           ELSE links' = [links EXCEPT !.offer[a].state = "closed"] /\ UNCHANGED <<told, linkTimers>>
        /\ UNCHANGED <<deskPeer, lastPeer, linkUp, outage, overtaken>>

TimerFires ==
    /\ linkTimers > 0 /\ linkTimers' = linkTimers - 1
    /\ ensureLinks(links, told, deskPeer, linkUp, outage)
    /\ UNCHANGED <<deskPeer, lastPeer, linkUp, outage, linkFaults>>

(***************************************************************************)
(* The whole link set goes.                                                *)
(***************************************************************************)
simulateOutage ==
    /\ LinkTrouble /\ ~outage /\ outage' = TRUE
    /\ links.cur # 0 /\ links' = teardownSinkLink(links, links.cur) /\ told' = FALSE
    /\ overtaken' = (overtaken \/ InFlight(links, links.cur))
    /\ UNCHANGED <<deskPeer, lastPeer, linkUp, linkTimers>>

OutageEnds ==
    /\ outage /\ outage' = FALSE
    /\ ensureLinks(links, told, deskPeer, linkUp, FALSE)
    /\ UNCHANGED <<deskPeer, lastPeer, linkUp, linkTimers, linkFaults>>

\* A fatal error: the map is cleared and the worker dies; takeOver starts a
\* new one and signaling returns.
haltLinks ==
    /\ LinkTrouble /\ linkUp /\ linkUp' = FALSE
    /\ links.cur # 0 /\ links' = [teardownSinkLink(links, links.cur) EXCEPT !.cur = 0]
    /\ told' = FALSE
    /\ overtaken' = (overtaken \/ InFlight(links, links.cur))
    /\ UNCHANGED <<deskPeer, lastPeer, outage, linkTimers>>

LinksNext ==
    \/ SignalReturns \/ SignalDrops \/ \E p \in 1..MaxDeskPeers : DeskJoins(p)
    \/ DeskLeaves \/ TimerFires \/ simulateOutage \/ OutageEnds \/ haltLinks
    \/ \E a \in Offers : OfferOpens(a) \/ OfferFails(a) \/ ChannelDies(a)

LinksSpec == LinksInit /\ [][LinksNext]_linkVars

(***************************************************************************)
(* Properties.                                                             *)
(***************************************************************************)
Current == links.obj[links.cur]
Usable == links.cur # 0 /\ Current.chan # 0
Reachable == linkUp /\ ~outage /\ deskPeer # 0

\* A sink that can be reached is never given up: a channel is open to it, an
\* offer is being awaited or a retry is scheduled, whatever ended in between.
NeverStranded ==
    Reachable => links.cur # 0 /\ (Usable \/ Current.connecting \/ linkTimers > 0)

\* The encoder worker feeds the sink exactly while its link has a channel.
\* (Where no link was torn down under an offer in flight.)
ToldIsTrue == ~overtaken => told = Usable

\* No more than one offer at a time, for the same links.
OneOfferAtATime ==
    ~overtaken => Cardinality({a \in Offers : links.offer[a].state = "offered"}) <= 1

\* "Capture continues; reconnect + backfill happen automatically afterwards":
\* a sink whose channel is open, with nothing else under way, is fed.
OpenIsFed ==
    Usable /\ Reachable /\ linkTimers = 0 /\ (\A a \in Offers : links.offer[a].state # "offered")
    => told

\* A sink is served by one link: a reachable one is never given up, never offered
\* twice at a time, and the encoder worker feeds it exactly while it has a channel
\* (recorder-session.ts ensureLinks).
SinkIsServed == NeverStranded /\ ToldIsTrue /\ OneOfferAtATime
=============================================================================
