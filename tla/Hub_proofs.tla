----------------------------- MODULE Hub_proofs -----------------------------
(***************************************************************************)
(* What connects the pages, for every bound: the microphone of a joining   *)
(* page (JoinPage) and its link to the desk (SinkLinks).                   *)
(***************************************************************************)
EXTENDS JoinPage, SinkLinks, WellFoundedInduction, FiniteSetTheorems, TLAPS

-----------------------------------------------------------------------------
(* The microphone.                                                         *)

\* What the page can be serving, awaiting and saying.
PageTyped ==
    /\ tap \in {"none", "enable", "takeover"}
    /\ starting \in {"no", "acquire", "resume", "module", "wake"}
    /\ ending \in {"no", "close", "release"}
    /\ joined \in BOOLEAN /\ fatal \in BOOLEAN /\ capturing \in BOOLEAN
    /\ context \in BOOLEAN /\ node \in BOOLEAN /\ worker \in BOOLEAN

\* A start is under way exactly while a button is served; only a phone outside a
\* session enables its microphone, only a halted one takes over, and a teardown
\* runs on a halted page with no start beside it.
ButtonsExclude ==
    /\ tap = "none" <=> starting = "no"
    /\ tap = "enable" => ~joined /\ ~fatal
    /\ tap = "takeover" => fatal
    /\ joined /\ ~fatal => context
    /\ ending # "no" => fatal /\ tap = "none"

\* How far the pipeline is built follows from what start and teardown await.
PipelineWhole ==
    /\ ending # "no" => ~node /\ hot = {}
    /\ ending = "release" => ~context
    /\ starting = "acquire" => ~context
    /\ starting \in {"resume", "module", "wake"} => context
    /\ starting = "wake" => node
    /\ node <=> worker
    /\ node => context
    /\ ~context => hot = {}
    /\ ending = "no" => (capturing <=> node)
    /\ (context /\ ending = "no") => stream \in hot
    /\ NoStrayMic

PageInv == PageTyped /\ ButtonsExclude /\ PipelineWhole

\* What only holds while a start that has made its context does not fail.
StartsInTime ==
    /\ (fatal /\ tap = "none") => (ending = "close" \/ ~context)
    /\ (tap = "none" /\ ending = "no" /\ context) => node
    /\ (joined /\ ~fatal) => node

\* The microphone's invariant as it holds for every mix of faults.
MicInv == PageInv /\ (LateFailure \/ StartsInTime)

\* Every tap, every answer and every halt of the page keeps the microphone's invariant.
LEMMA MicInvStep ==
    ASSUME ~HurriedTap, MicInv, [JoinNext]_joinVars
    PROVE  MicInv'
<1> USE DEF MicInv, PageInv, PageTyped, ButtonsExclude, PipelineWhole, StartsInTime, NoStrayMic
<1>0. CASE UNCHANGED joinVars
  BY <1>0 DEF joinVars
<1>1. ASSUME NEW pref \in BOOLEAN, enableMic(pref) PROVE MicInv'
  BY <1>1 DEF enableMic, StartCalled, Served, pipeVars
<1>2. ASSUME NEW pref \in BOOLEAN, takeOver(pref) PROVE MicInv'
  BY <1>2 DEF takeOver, StartCalled, Served, pipeVars
<1>3. ASSUME NEW taken \in BOOLEAN, SwitchEnds(taken) PROVE MicInv'
  BY <1>3 DEF SwitchEnds
<1>4. CASE Acquired
  BY <1>4 DEF Acquired
<1>5. CASE Resumed
  BY <1>5 DEF Resumed, pipeVars
<1>6. CASE ModuleAdded
  BY <1>6 DEF ModuleAdded
<1>7. CASE Started
  BY <1>7 DEF Started, Served, pipeVars
<1>8. ASSUME NEW denied \in BOOLEAN, OpenFails(denied) PROVE MicInv'
  BY <1>8 DEF OpenFails, Served, pipeVars
<1>9. CASE SwitchBegins \/ SwitchFails
  BY <1>9 DEF SwitchBegins, SwitchFails, pipeVars
<1>10. CASE haltForFatal
  BY <1>10 DEF haltForFatal
<1>11. CASE ContextClosed
  BY <1>11 DEF ContextClosed
<1>12. CASE TeardownEnded
  BY <1>12 DEF TeardownEnded
<1> QED
  BY <1>0, <1>1, <1>2, <1>3, <1>4, <1>5, <1>6, <1>7, <1>8, <1>9, <1>10, <1>11, <1>12 DEF JoinNext

\* The microphone's invariant holds on every page whose buttons wait for a teardown.
LEMMA MicInvHolds == ASSUME ~HurriedTap PROVE JoinSpec => []MicInv
<1>1. JoinInit => MicInv
  BY DEF JoinInit, MicInv, PageInv, PageTyped, ButtonsExclude, PipelineWhole, StartsInTime,
         NoStrayMic
<1>2. MicInv /\ [JoinNext]_joinVars => MicInv'
  BY MicInvStep
<1> QED
  BY <1>1, <1>2, PTL DEF JoinSpec

\* Whatever fails, and however late, no hot microphone is left without its holder
\* and the page shows what it captures, as long as Take over is not tapped while a
\* teardown runs (capture-controller.ts, start, switchDevice and teardown).
THEOREM NoMicStrays ==
    ASSUME ~HurriedTap PROVE JoinSpec => [](NoStrayMic /\ ShownIsTrue)
<1>1. MicInv => NoStrayMic /\ ShownIsTrue
  BY DEF MicInv, PageInv, PageTyped, PipelineWhole, ShownIsTrue, NoStrayMic, AtRest
<1> QED
  BY <1>1, MicInvHolds, PTL

\* When besides a start that has made its context does not fail, a halted page has
\* released its microphone and a phone in a session has one to record with
\* (recorder-session.ts, haltForFatal and takeOver).
THEOREM MicAccounted ==
    ASSUME ~HurriedTap, ~LateFailure PROVE JoinSpec => []MicIsAccounted
<1>1. MicInv => MicIsAccounted
  <2> SUFFICES ASSUME MicInv PROVE MicIsAccounted
    OBVIOUS
  <2> USE DEF MicInv, PageInv, PageTyped, ButtonsExclude, PipelineWhole, StartsInTime, AtRest
  <2>1. NoStrayMic /\ ShownIsTrue
    BY DEF ShownIsTrue
  <2>2. HaltReleases
    BY DEF HaltReleases
  <2>3. JoinedRecords
    BY DEF JoinedRecords
  <2> QED
    BY <2>1, <2>2, <2>3 DEF MicIsAccounted
<1> QED
  BY <1>1, MicInvHolds, PTL

-----------------------------------------------------------------------------
(* The link to the desk.                                                   *)

OfferState == {"none", "offered", "open", "failed", "closed"}
LinkObject == [target : Nat, connecting : BOOLEAN, chan : Nat]
Offer == [link : 0..MaxLinkObjects, state : OfferState]
Net == [cur : 0..MaxLinkObjects, obj : [Links -> LinkObject], offer : [Offers -> Offer]]

Offered(net, a) == net.offer[a].state = "offered"

\* An offer that was made has its link, and a channel the offer it came from.
NetOK(net) ==
    /\ net \in Net
    /\ \A a \in Offers : (Offered(net, a) \/ net.offer[a].state = "open") => net.offer[a].link # 0
    /\ \A l \in Links : net.obj[l].chan # 0 =>
          net.obj[l].chan \in Offers /\ net.offer[net.obj[l].chan].state # "none"

\* At most one offer is out; it is the current link's, which awaits it without a
\* channel, and no other link has a channel.
OneServes(net) ==
    /\ \A a \in Offers : Offered(net, a) =>
          /\ net.cur = net.offer[a].link
          /\ net.obj[net.cur].connecting /\ net.obj[net.cur].chan = 0
    /\ \A a, b \in Offers : (Offered(net, a) /\ Offered(net, b)) => a = b
    /\ \A l \in Links : l # net.cur => net.obj[l].chan = 0

\* The least member of a set of naturals is one of them.
LEMMA FirstIsMember ==
    ASSUME NEW S \in SUBSET Nat, S # {} PROVE First(S) \in S
<1>1. PICK m \in S : \A n \in S : ~ (<<n, m>> \in OpToRel(<, Nat))
  BY NatLessThanWellFounded, WFMin
<1>2. \A n \in S : ~ (n < m)
  BY <1>1 DEF OpToRel
<1>3. \A n \in S : m <= n
  BY <1>2
<1> QED
  BY <1>3 DEF First

\* teardownSinkLink leaves the link without channel and without an attempt, and
\* touches no other.
LEMMA TeardownShape ==
    ASSUME NEW net, NetOK(net), NEW l \in Links
    PROVE  /\ NetOK(teardownSinkLink(net, l))
           /\ teardownSinkLink(net, l).cur = net.cur
           /\ teardownSinkLink(net, l).obj[l].chan = 0
           /\ \A m \in Links : teardownSinkLink(net, l).obj[m].target = net.obj[m].target
           /\ \A m \in Links : m # l => teardownSinkLink(net, l).obj[m] = net.obj[m]
           /\ \A a \in Offers : Offered(teardownSinkLink(net, l), a) => Offered(net, a)
           /\ \A a \in Offers : net.offer[a] = NoOffer => teardownSinkLink(net, l).offer[a] = NoOffer
<1> DEFINE t == teardownSinkLink(net, l)
           gone == [net.obj[l] EXCEPT !.connecting = FALSE, !.chan = 0]
           closed == [a \in Offers |-> IF a = net.obj[l].chan
                                       THEN [net.offer[a] EXCEPT !.state = "closed"] ELSE net.offer[a]]
<1>1. net \in Net
  BY DEF NetOK
<1>2. net = [cur |-> net.cur, obj |-> net.obj, offer |-> net.offer]
  BY <1>1 DEF Net
<1>3. t = [cur |-> net.cur, obj |-> [net.obj EXCEPT ![l] = gone], offer |-> closed]
  <2> DEFINE mute == [net.obj EXCEPT ![l] = [net.obj[l] EXCEPT !.connecting = FALSE]]
             off == [net EXCEPT !.obj[l].connecting = FALSE]
             dry == [off EXCEPT !.obj[l].chan = 0]
  <2>1. off = [net EXCEPT !.obj = mute]
    OBVIOUS
  <2>2. off = [cur |-> net.cur, obj |-> mute, offer |-> net.offer]
    <3> HIDE DEF mute, off
    <3> QED
      BY <1>2, <2>1
  <2>3. dry = [cur |-> net.cur, obj |-> [net.obj EXCEPT ![l] = gone], offer |-> net.offer]
    <3>1. dry = [off EXCEPT !.obj = [off.obj EXCEPT ![l] = [off.obj[l] EXCEPT !.chan = 0]]]
      OBVIOUS
    <3>2. off.obj = mute /\ mute[l] = [net.obj[l] EXCEPT !.connecting = FALSE]
      BY <1>1, <2>2 DEF Net
    <3>3. [mute EXCEPT ![l] = [mute[l] EXCEPT !.chan = 0]] = [net.obj EXCEPT ![l] = gone]
      BY <1>1, <3>2 DEF Net, LinkObject
    <3> HIDE DEF mute, off, dry, gone
    <3> QED
      BY <2>2, <3>1, <3>2, <3>3
  <2>4. t = [dry EXCEPT !.offer = closed]
    BY <2>3 DEF teardownSinkLink
  <2> QED
    BY <2>3, <2>4
<1>4. gone \in LinkObject /\ gone.target = net.obj[l].target /\ gone.chan = 0
  BY <1>1 DEF Net, LinkObject
<1>5. closed \in [Offers -> Offer]
  BY <1>1 DEF Net, Offer, OfferState
<1>6. \A a \in Offers : /\ closed[a].link = net.offer[a].link
                        /\ closed[a].state \in {"closed", net.offer[a].state}
  BY <1>1 DEF Net, Offer
<1>7. \A a \in Offers : net.offer[a] = NoOffer => a # net.obj[l].chan
  BY LinksAssumption DEF NetOK, NoOffer, Offers
<1> HIDE DEF gone, closed, t
<1>8. t \in Net /\ t.cur = net.cur
  BY <1>1, <1>3, <1>4, <1>5 DEF Net
<1>9. t.obj[l] = gone /\ \A m \in Links : m # l => t.obj[m] = net.obj[m]
  BY <1>1, <1>3 DEF Net
<1>10. t.offer = closed
  BY <1>3
<1>11. \A a \in Offers : net.offer[a] = NoOffer => closed[a] = NoOffer
  BY <1>7 DEF closed
<1>12. NetOK(t)
  BY <1>4, <1>6, <1>8, <1>9, <1>10 DEF NetOK, Offered
<1> QED
  BY <1>4, <1>6, <1>8, <1>9, <1>10, <1>11, <1>12 DEF t, Offered

\* A teardown of the current link, whether it stays in the map or not, leaves no
\* channel anywhere; unless it had an offer in flight, one link goes on serving.
LEMMA TeardownOfCurrent ==
    ASSUME NEW net, NetOK(net), net.cur # 0
    PROVE  /\ NetOK(teardownSinkLink(net, net.cur))
           /\ NetOK([teardownSinkLink(net, net.cur) EXCEPT !.cur = 0])
           /\ (OneServes(net) /\ ~InFlight(net, net.cur)) =>
                 /\ OneServes(teardownSinkLink(net, net.cur))
                 /\ OneServes([teardownSinkLink(net, net.cur) EXCEPT !.cur = 0])
<1> DEFINE t == teardownSinkLink(net, net.cur)
           z == [t EXCEPT !.cur = 0]
<1>1. net.cur \in Links /\ net \in Net
  BY LinksAssumption DEF NetOK, Net, Links
<1>2. /\ NetOK(t) /\ t.cur = net.cur /\ t.obj[net.cur].chan = 0
      /\ \A m \in Links : m # net.cur => t.obj[m] = net.obj[m]
      /\ \A a \in Offers : Offered(t, a) => Offered(net, a)
  BY <1>1, TeardownShape
<1> HIDE DEF t
<1>3. t \in Net
  BY <1>2 DEF NetOK
<1>4. z \in Net /\ z.cur = 0 /\ z.obj = t.obj /\ z.offer = t.offer
  BY <1>3, LinksAssumption DEF Net
<1> HIDE DEF z
<1>5. NetOK(z)
  BY <1>2, <1>4 DEF NetOK, Offered
<1>6. ASSUME OneServes(net), ~InFlight(net, net.cur)
      PROVE  /\ \A a \in Offers : ~Offered(net, a)
             /\ \A m \in Links : t.obj[m].chan = 0
  <2>1. ASSUME NEW a \in Offers, Offered(net, a) PROVE FALSE
    <3>1. net.offer[a].link = net.cur /\ net.offer[a].state = "offered"
      BY <1>6, <2>1 DEF OneServes, Offered
    <3>2. net.offer[a] = [link |-> net.cur, state |-> "offered"]
      BY <1>1, <3>1 DEF Net, Offer
    <3> QED
      BY <1>6, <3>2 DEF InFlight
  <2> QED
    BY <1>2, <1>6, <2>1 DEF OneServes
<1> QED
  BY <1>2, <1>4, <1>5, <1>6 DEF OneServes, Offered, t, z

\* The desk's old link is gone or the map is as it was.
LEMMA KeptShape ==
    ASSUME NEW net, NetOK(net), NEW peer
    PROVE  /\ NetOK(Kept(net, peer))
           /\ ~Replaced(net, peer) => Kept(net, peer) = net
           /\ Replaced(net, peer) => Kept(net, peer).cur = 0
           /\ FreeLinks(Kept(net, peer)) = FreeLinks(net)
           /\ FreeOffers(net) \subseteq FreeOffers(Kept(net, peer))
           /\ (OneServes(net) /\ ~(Replaced(net, peer) /\ InFlight(net, net.cur)))
                 => OneServes(Kept(net, peer))
<1>1. CASE ~Replaced(net, peer)
  BY <1>1 DEF Kept
<1>2. CASE Replaced(net, peer)
  <2> DEFINE t == teardownSinkLink(net, net.cur)
             z == [t EXCEPT !.cur = 0]
  <2>1. net.cur # 0 /\ Kept(net, peer) = z
    BY <1>2 DEF Kept, Replaced
  <2>2. net.cur \in Links
    BY <2>1, LinksAssumption DEF NetOK, Net, Links
  <2>3. /\ NetOK(t)
        /\ \A m \in Links : t.obj[m].target = net.obj[m].target
        /\ \A a \in Offers : net.offer[a] = NoOffer => t.offer[a] = NoOffer
    BY <2>2, TeardownShape
  <2>4. NetOK(z) /\ (OneServes(net) /\ ~InFlight(net, net.cur) => OneServes(z))
    BY <2>1, TeardownOfCurrent
  <2> HIDE DEF t
  <2>5. z.cur = 0 /\ z.obj = t.obj /\ z.offer = t.offer
    BY <2>3 DEF NetOK, Net
  <2> HIDE DEF z
  <2>6. FreeLinks(z) = FreeLinks(net) /\ FreeOffers(net) \subseteq FreeOffers(z)
    BY <2>3, <2>5 DEF FreeLinks, FreeOffers
  <2> QED
    BY <1>2, <2>1, <2>4, <2>5, <2>6
<1> QED
  BY <1>1, <1>2

\* After it there is a current link, a new one without a channel if need be.
LEMMA MadeShape ==
    ASSUME NEW net, NetOK(net), FreeLinks(net) # {}, NEW peer \in Nat
    PROVE  /\ NetOK(Made(net, peer))
           /\ Made(net, peer).cur # 0
           /\ Made(net, peer).offer = net.offer
           /\ net.cur # 0 => Made(net, peer) = net
           /\ net.cur = 0 => Made(net, peer).obj[Made(net, peer).cur].chan = 0
           /\ OneServes(net) => OneServes(Made(net, peer))
<1>1. CASE net.cur # 0
  BY <1>1 DEF Made
<1>2. CASE net.cur = 0
  <2> DEFINE l == First(FreeLinks(net))
             m == Made(net, peer)
  <2>1. FreeLinks(net) \in SUBSET Nat
    BY LinksAssumption DEF FreeLinks, Links
  <2>2. l \in Links /\ l # 0 /\ l \in 0..MaxLinkObjects
    BY <2>1, FirstIsMember, LinksAssumption DEF FreeLinks, Links
  <2> HIDE DEF l
  <2>3. m = [net EXCEPT !.cur = l, !.obj[l] = newSinkLink(peer)]
    BY <1>2 DEF Made, l
  <2>4. newSinkLink(peer) \in LinkObject /\ newSinkLink(peer).chan = 0
    BY DEF newSinkLink, LinkObject
  <2>5. net \in Net
    BY DEF NetOK
  <2>6. /\ m \in Net /\ m.cur = l /\ m.offer = net.offer
        /\ m.obj = [net.obj EXCEPT ![l] = newSinkLink(peer)]
    <3>1. [net.obj EXCEPT ![l] = newSinkLink(peer)] \in [Links -> LinkObject]
      BY <2>2, <2>4, <2>5 DEF Net
    <3>2. m = [[net EXCEPT !.cur = l] EXCEPT !.obj = [net.obj EXCEPT ![l] = newSinkLink(peer)]]
      BY <2>3, <2>5 DEF Net
    <3> QED
      BY <2>2, <2>5, <3>1, <3>2 DEF Net
  <2> HIDE DEF m
  <2>7. m.obj[l].chan = 0 /\ \A k \in Links : k # l => m.obj[k] = net.obj[k]
    BY <2>2, <2>4, <2>5, <2>6 DEF Net
  <2>8. NetOK(m)
    BY <2>6, <2>7 DEF NetOK, Offered
  <2>9. OneServes(net) => OneServes(m)
    <3> SUFFICES ASSUME OneServes(net) PROVE OneServes(m)
      OBVIOUS
    <3>1. \A a \in Offers : ~Offered(net, a)
      BY <1>2 DEF OneServes, Offered, NetOK
    <3>2. \A k \in Links : m.obj[k].chan = 0
      BY <1>2, <2>2, <2>7, LinksAssumption DEF OneServes, Links
    <3> QED
      BY <3>1, <3>2, <2>6 DEF OneServes, Offered
  <2> QED
    BY <1>2, <2>2, <2>6, <2>7, <2>8, <2>9 DEF m
<1> QED
  BY <1>1, <1>2

\* ensureLink: the current link has a channel or awaits one, and still only one
\* offer is out.
LEMMA EnsureShape ==
    ASSUME NEW net, NetOK(net), net.cur # 0, FreeOffers(net) # {}
    PROVE  /\ NetOK(ensureLink(net))
           /\ ensureLink(net).cur = net.cur
           /\ ensureLink(net).obj[net.cur].chan = net.obj[net.cur].chan
           /\ ensureLink(net).obj[net.cur].connecting \/ net.obj[net.cur].chan # 0
           /\ OneServes(net) => OneServes(ensureLink(net))
<1> DEFINE c == net.cur
           busy == net.obj[c].connecting \/ net.obj[c].chan # 0
<1>1. CASE busy
  BY <1>1 DEF ensureLink
<1>2. CASE ~busy
  <2> DEFINE a == First(FreeOffers(net))
             e == ensureLink(net)
  <2>1. FreeOffers(net) \in SUBSET Nat
    BY LinksAssumption DEF FreeOffers, Offers
  <2>2. a \in Offers /\ net.offer[a] = NoOffer
    BY <2>1, FirstIsMember DEF FreeOffers
  <2> HIDE DEF a
  <2>3. net \in Net /\ c \in Links
    BY LinksAssumption DEF NetOK, Net, Links
  <2>4. e = [net EXCEPT !.obj[c].connecting = TRUE, !.offer[a] = [link |-> c, state |-> "offered"]]
    BY <1>2 DEF ensureLink, a
  <2>5. [link |-> c, state |-> "offered"] \in Offer
    BY <2>3 DEF Offer, OfferState, Net
  <2>6. [net.obj[c] EXCEPT !.connecting = TRUE] \in LinkObject
    BY <2>3 DEF Net, LinkObject
  <2>7. /\ e \in Net /\ e.cur = c
        /\ e.obj = [net.obj EXCEPT ![c] = [net.obj[c] EXCEPT !.connecting = TRUE]]
        /\ e.offer = [net.offer EXCEPT ![a] = [link |-> c, state |-> "offered"]]
    <3> DEFINE obj == [net.obj EXCEPT ![c] = [net.obj[c] EXCEPT !.connecting = TRUE]]
               offer == [net.offer EXCEPT ![a] = [link |-> c, state |-> "offered"]]
    <3>1. obj \in [Links -> LinkObject] /\ offer \in [Offers -> Offer]
      BY <2>2, <2>3, <2>5, <2>6 DEF Net
    <3>2. e = [[net EXCEPT !.obj = obj] EXCEPT !.offer = offer]
      BY <2>3, <2>4 DEF Net
    <3> HIDE DEF obj, offer
    <3>3. e \in Net /\ e.cur = c /\ e.obj = obj /\ e.offer = offer
      BY <2>3, <3>1, <3>2 DEF Net
    <3> QED
      BY <3>3 DEF obj, offer
  <2> HIDE DEF e
  <2>8. /\ e.obj[c].chan = net.obj[c].chan /\ e.obj[c].connecting = TRUE
        /\ \A k \in Links : k # c => e.obj[k] = net.obj[k]
    BY <2>3, <2>7 DEF Net, LinkObject
  <2>9. /\ e.offer[a].link = c /\ e.offer[a].state = "offered"
        /\ \A b \in Offers : b # a => e.offer[b] = net.offer[b]
    BY <2>2, <2>3, <2>7 DEF Net
  <2>10. \A k \in Links : e.obj[k].chan = net.obj[k].chan
    BY <2>8
  <2>11. \A b \in Offers : net.offer[b].state # "none" => b # a
    BY <2>2 DEF NoOffer
  <2>12. NetOK(e)
    <3>1. \A b \in Offers : (Offered(e, b) \/ e.offer[b].state = "open") => e.offer[b].link # 0
      BY <2>9 DEF NetOK, Offered
    <3>2. \A k \in Links : e.obj[k].chan # 0 =>
             e.obj[k].chan \in Offers /\ e.offer[e.obj[k].chan].state # "none"
      BY <2>9, <2>10 DEF NetOK
    <3> QED
      BY <2>7, <3>1, <3>2 DEF NetOK
  <2>13. OneServes(net) => OneServes(e)
    <3> SUFFICES ASSUME OneServes(net) PROVE OneServes(e)
      OBVIOUS
    <3>1. \A b \in Offers : ~Offered(net, b)
      BY <1>2 DEF OneServes
    <3>2. \A b \in Offers : Offered(e, b) => b = a
      BY <3>1, <2>9 DEF Offered
    <3>3. net.obj[c].chan = 0
      BY <1>2
    <3> QED
      BY <2>7, <2>8, <2>9, <2>10, <3>2, <3>3 DEF OneServes
  <2> QED
    BY <1>2, <2>3, <2>7, <2>8, <2>12, <2>13 DEF e
<1> QED
  BY <1>1, <1>2

\* The signaling and timer side of a page.
LinkTyped ==
    /\ deskPeer \in Nat /\ lastPeer \in Nat /\ linkTimers \in Nat
    /\ linkUp \in BOOLEAN /\ outage \in BOOLEAN
    /\ told \in BOOLEAN /\ overtaken \in BOOLEAN

\* Where no offer was overtaken by a teardown, one link serves and the worker knows
\* whether it has a channel.
LinkServed == ~overtaken => (OneServes(links) /\ (told <=> Usable))

LinkInv == LinkTyped /\ NetOK(links) /\ LinkServed /\ NeverStranded

\* A call of ensureLinks, from whatever hook, leaves a reachable sink served.
LEMMA EnsureLinksServes ==
    ASSUME LinkInv, ensureLinks(links, told, deskPeer', linkUp', outage'),
           deskPeer' \in Nat, lastPeer' \in Nat, linkTimers' \in Nat,
           linkUp' \in BOOLEAN, outage' \in BOOLEAN
    PROVE  LinkInv'
<1>1. CASE ~Reachable'
  <2>1. links' = links /\ told' = told /\ overtaken' = overtaken
    BY <1>1 DEF ensureLinks, Reachable
  <2> QED
    BY <1>1, <2>1 DEF LinkInv, LinkTyped, LinkServed, NeverStranded, Usable, Current
<1>2. CASE Reachable'
  <2> DEFINE peer == deskPeer'
             kept == Kept(links, peer)
             made == Made(kept, peer)
  <2>1. /\ FreeLinks(links) # {} /\ FreeOffers(links) # {}
        /\ links' = ensureLink(made)
        /\ told' = (told /\ ~Replaced(links, peer))
        /\ overtaken' = (overtaken \/ (Replaced(links, peer) /\ InFlight(links, links.cur)))
    BY <1>2 DEF ensureLinks, Reachable, Room
  <2>2. NetOK(links)
    BY DEF LinkInv
  <2>3. /\ NetOK(kept) /\ FreeLinks(kept) # {} /\ FreeOffers(kept) # {}
        /\ ~Replaced(links, peer) => kept = links
        /\ Replaced(links, peer) => kept.cur = 0
        /\ (OneServes(links) /\ ~(Replaced(links, peer) /\ InFlight(links, links.cur)))
              => OneServes(kept)
    BY <2>1, <2>2, KeptShape
  <2> HIDE DEF kept
  <2>4. /\ NetOK(made) /\ made.cur # 0 /\ made.offer = kept.offer
        /\ kept.cur # 0 => made = kept
        /\ kept.cur = 0 => made.obj[made.cur].chan = 0
        /\ OneServes(kept) => OneServes(made)
    BY <2>3, MadeShape
  <2> HIDE DEF made
  <2>5. FreeOffers(made) # {}
    BY <2>3, <2>4 DEF FreeOffers
  <2>6. /\ NetOK(links') /\ links'.cur = made.cur
        /\ links'.obj[made.cur].chan = made.obj[made.cur].chan
        /\ links'.obj[made.cur].connecting \/ made.obj[made.cur].chan # 0
        /\ OneServes(made) => OneServes(links')
    BY <2>1, <2>4, <2>5, EnsureShape
  <2>7. NeverStranded'
    BY <2>4, <2>6 DEF NeverStranded, Usable, Current
  <2>8. LinkServed'
    <3> SUFFICES ASSUME ~overtaken' PROVE OneServes(links') /\ (told' <=> Usable')
      BY DEF LinkServed
    <3>1. ~overtaken /\ ~(Replaced(links, peer) /\ InFlight(links, links.cur))
      BY <2>1
    <3>2. OneServes(links) /\ (told <=> Usable)
      BY <3>1 DEF LinkInv, LinkServed
    <3>3. Usable' <=> made.obj[made.cur].chan # 0
      BY <2>4, <2>6 DEF Usable, Current
    <3>4. CASE Replaced(links, peer)
      BY <2>1, <2>3, <2>4, <2>6, <3>1, <3>2, <3>3, <3>4
    <3>5. CASE ~Replaced(links, peer) /\ links.cur = 0
      BY <2>1, <2>3, <2>4, <2>6, <3>1, <3>2, <3>3, <3>5 DEF Usable
    <3>6. CASE ~Replaced(links, peer) /\ links.cur # 0
      BY <2>1, <2>3, <2>4, <2>6, <3>1, <3>2, <3>3, <3>6 DEF Usable, Current
    <3> QED
      BY <3>4, <3>5, <3>6
  <2>9. LinkTyped'
    BY <2>1 DEF LinkInv, LinkTyped
  <2> QED
    BY <2>6, <2>7, <2>8, <2>9 DEF LinkInv
<1> QED
  BY <1>1, <1>2

\* The link of an offer that is out, or open, exists.
LEMMA LinkOfOffer ==
    ASSUME LinkInv, NEW a \in Offers, Offered(links, a) \/ links.offer[a].state = "open"
    PROVE  links \in Net /\ links.offer[a].link \in Links /\ a # 0
BY LinksAssumption DEF LinkInv, NetOK, Net, Offer, Links, Offers

\* A link that awaits nothing, one that has channel ch, an offer that is over.
Idler(o) == [o EXCEPT !.connecting = FALSE]
Channelled(o, ch) == [Idler(o) EXCEPT !.chan = ch]
Over(f, st) == [f EXCEPT !.state = st]

\* What a link object or an offer becomes when an offer ends is of the same kind.
LEMMA ObjectUpdates ==
    /\ \A o \in LinkObject : Idler(o) \in LinkObject /\ Idler(o).chan = o.chan
    /\ \A o \in LinkObject, ch \in Nat :
          Channelled(o, ch) \in LinkObject /\ Channelled(o, ch).chan = ch
    /\ \A f \in Offer, st \in OfferState :
          Over(f, st) \in Offer /\ Over(f, st).link = f.link /\ Over(f, st).state = st
BY DEF LinkObject, Offer, Idler, Channelled, Over

\* The map n is net with another object for link l and another record of offer a.
Updated(net, n, l, o, a, f) ==
    n = [[net EXCEPT !.obj = [net.obj EXCEPT ![l] = o]] EXCEPT !.offer = [net.offer EXCEPT ![a] = f]]

\* An update of one link and one offer leaves the other links and offers alone.
LEMMA UpdatedShape ==
    ASSUME NEW net \in Net, NEW l \in Links, NEW a \in Offers,
           NEW o \in LinkObject, NEW f \in Offer, NEW n, Updated(net, n, l, o, a, f)
    PROVE  /\ n \in Net /\ n.cur = net.cur
           /\ n.offer[a] = f /\ \A b \in Offers : b # a => n.offer[b] = net.offer[b]
           /\ n.obj[l] = o /\ \A k \in Links : k # l => n.obj[k] = net.obj[k]
<1> DEFINE obj == [net.obj EXCEPT ![l] = o]
           offer == [net.offer EXCEPT ![a] = f]
<1>1. obj \in [Links -> LinkObject] /\ offer \in [Offers -> Offer]
  BY DEF Net
<1>2. /\ obj[l] = o /\ \A k \in Links : k # l => obj[k] = net.obj[k]
      /\ offer[a] = f /\ \A b \in Offers : b # a => offer[b] = net.offer[b]
  BY DEF Net
<1>3. n = [[net EXCEPT !.obj = obj] EXCEPT !.offer = offer]
  BY DEF Updated
<1> HIDE DEF obj, offer
<1>4. n \in Net /\ n.cur = net.cur /\ n.obj = obj /\ n.offer = offer
  BY <1>1, <1>3 DEF Net
<1> QED
  BY <1>2, <1>4

\* An offer a of link l is over, as the handlers write it: its link keeps its channel,
\* or has a new one.
FailedIn(net, n, l, a) ==
    n = [net EXCEPT !.obj[l].connecting = FALSE, !.offer[a].state = "failed"]
OpenedIn(net, n, l, a) ==
    n = [net EXCEPT !.obj[l].connecting = FALSE, !.obj[l].chan = a, !.offer[a].state = "open"]

\* An offer that fails or opens updates its own link and itself.
LEMMA OfferEndIsUpdate ==
    ASSUME NEW net \in Net, NEW l \in Links, NEW a \in Offers, NEW n
    PROVE  /\ FailedIn(net, n, l, a) =>
                 Updated(net, n, l, Idler(net.obj[l]), a, Over(net.offer[a], "failed"))
           /\ OpenedIn(net, n, l, a) =>
                 Updated(net, n, l, Channelled(net.obj[l], a), a, Over(net.offer[a], "open"))
<1> DEFINE o1 == Idler(net.obj[l])
           o2 == Channelled(net.obj[l], a)
           n1 == [net EXCEPT !.obj[l].connecting = FALSE]
           n2 == [n1 EXCEPT !.obj[l].chan = a]
<1>1. n1 = [net EXCEPT !.obj = [net.obj EXCEPT ![l] = o1]]
  BY DEF Idler
<1>2. n1.obj = [net.obj EXCEPT ![l] = o1] /\ n1.obj[l] = o1 /\ n1.offer = net.offer
  <2> HIDE DEF n1, o1
  <2> QED
    BY <1>1 DEF Net
<1>3. n2 = [net EXCEPT !.obj = [net.obj EXCEPT ![l] = o2]]
  <2>1. n2 = [n1 EXCEPT !.obj = [n1.obj EXCEPT ![l] = [n1.obj[l] EXCEPT !.chan = a]]]
    OBVIOUS
  <2>2. n2 = [n1 EXCEPT !.obj = [n1.obj EXCEPT ![l] = o2]]
    BY <1>2, <2>1 DEF Channelled
  <2> HIDE DEF n1, n2, o1, o2
  <2>3. [n1.obj EXCEPT ![l] = o2] = [net.obj EXCEPT ![l] = o2]
    BY <1>2 DEF Net
  <2>4. n2 = [n1 EXCEPT !.obj = [net.obj EXCEPT ![l] = o2]]
    BY <2>2, <2>3
  <2> QED
    BY <1>1, <2>4 DEF Net
<1>4. n2.offer = net.offer
  <2> HIDE DEF n2, o2
  <2> QED
    BY <1>3 DEF Net
<1>5. ASSUME FailedIn(net, n, l, a)
      PROVE  Updated(net, n, l, o1, a, Over(net.offer[a], "failed"))
  <2>1. n = [n1 EXCEPT !.offer = [n1.offer EXCEPT ![a] = [n1.offer[a] EXCEPT !.state = "failed"]]]
    BY <1>5 DEF FailedIn
  <2>2. n = [n1 EXCEPT !.offer = [net.offer EXCEPT ![a] = Over(net.offer[a], "failed")]]
    BY <1>2, <2>1 DEF Over
  <2> HIDE DEF n1, o1
  <2> QED
    BY <1>1, <2>2 DEF Updated
<1>6. ASSUME OpenedIn(net, n, l, a)
      PROVE  Updated(net, n, l, o2, a, Over(net.offer[a], "open"))
  <2>1. n = [n2 EXCEPT !.offer = [n2.offer EXCEPT ![a] = [n2.offer[a] EXCEPT !.state = "open"]]]
    BY <1>6 DEF OpenedIn
  <2>2. n = [n2 EXCEPT !.offer = [net.offer EXCEPT ![a] = Over(net.offer[a], "open")]]
    BY <1>4, <2>1 DEF Over
  <2> HIDE DEF n2, o2
  <2> QED
    BY <1>3, <2>2 DEF Updated
<1> QED
  BY <1>5, <1>6

\* An offer that ends, open or failed, and leaves its link with the channel it had
\* or the one it brings.
LEMMA OfferEndIsOK ==
    ASSUME NEW net \in Net, NetOK(net), NEW n \in Net, NEW a \in Offers, NEW l \in Links,
           n.offer[a].link # 0, n.offer[a].state \in {"open", "failed"},
           \A b \in Offers : b # a => n.offer[b] = net.offer[b],
           n.obj[l].chan \in {a, net.obj[l].chan},
           \A m \in Links : m # l => n.obj[m] = net.obj[m]
    PROVE  NetOK(n)
<1>1. \A b \in Offers : (Offered(n, b) \/ n.offer[b].state = "open") => n.offer[b].link # 0
  BY DEF NetOK, Offered
<1>2. ASSUME NEW m \in Links, n.obj[m].chan # 0
      PROVE  n.obj[m].chan \in Offers /\ n.offer[n.obj[m].chan].state # "none"
  <2> DEFINE k == n.obj[m].chan
  <2>1. k = a \/ k = net.obj[m].chan
    OBVIOUS
  <2>2. CASE k = a
    BY <2>2
  <2>3. CASE k = net.obj[m].chan /\ k # a
    <3>1. k \in Offers /\ net.offer[k].state # "none"
      BY <1>2, <2>3 DEF NetOK
    <3> HIDE DEF k
    <3> QED
      BY <2>3, <3>1
  <2> QED
    BY <2>1, <2>2, <2>3
<1> QED
  BY <1>1, <1>2 DEF NetOK

\* adoptSinkChannel.
LEMMA OpenKeepsLink ==
    ASSUME LinkInv, NEW a \in Offers, OfferOpens(a) PROVE LinkInv'
<1> DEFINE l == links.offer[a].link
<1>1. Offered(links, a)
  BY DEF OfferOpens, Offered
<1>2. links \in Net /\ l \in Links /\ a # 0 /\ a \in Nat /\ l # 0
  BY <1>1, LinkOfOffer, LinksAssumption DEF Offers, Links
<1>3. OpenedIn(links, links', l, a)
  BY DEF OfferOpens, OpenedIn
<1>4. /\ links' \in Net /\ links'.cur = links.cur
      /\ links'.offer[a].link = l /\ links'.offer[a].state = "open"
      /\ \A b \in Offers : b # a => links'.offer[b] = links.offer[b]
      /\ links'.obj[l].chan = a
      /\ \A m \in Links : m # l => links'.obj[m] = links.obj[m]
  <2> DEFINE o == Channelled(links.obj[l], a)
             f == Over(links.offer[a], "open")
  <2>1. Updated(links, links', l, o, a, f)
    BY <1>2, <1>3, OfferEndIsUpdate
  <2>2. o \in LinkObject /\ o.chan = a /\ f \in Offer /\ f.link = l /\ f.state = "open"
    BY <1>2, ObjectUpdates DEF Net, OfferState
  <2> HIDE DEF l, o, f
  <2> QED
    BY <1>2, <2>1, <2>2, UpdatedShape
<1>5. NetOK(links')
  <2> HIDE DEF l
  <2> QED
    BY <1>2, <1>4, OfferEndIsOK DEF LinkInv
<1>6. NeverStranded'
  <2>1. Reachable' <=> Reachable
    BY DEF OfferOpens, Reachable
  <2>2. linkTimers' = linkTimers
    BY DEF OfferOpens
  <2>3. links.cur = l \/ links.cur \in Links \/ links.cur = 0
    BY <1>2, LinksAssumption DEF Net, Links
  <2>4. CASE links.cur = l
    BY <1>2, <1>4, <2>4 DEF NeverStranded, Usable, Current
  <2>5. CASE links.cur # l /\ links.cur \in Links
    <3>1. Current' = Current /\ (Usable' <=> Usable)
      BY <1>4, <2>5 DEF Usable, Current
    <3> QED
      BY <1>4, <2>1, <2>2, <3>1 DEF LinkInv, NeverStranded
  <2>6. CASE links.cur = 0
    BY <1>4, <2>1, <2>2, <2>6 DEF LinkInv, NeverStranded, Usable, Current
  <2> HIDE DEF l
  <2> QED
    BY <2>3, <2>4, <2>5, <2>6
<1>7. LinkServed'
  <2> SUFFICES ASSUME ~overtaken PROVE OneServes(links') /\ told' /\ Usable'
    BY DEF LinkServed, OfferOpens
  <2>1. OneServes(links)
    BY DEF LinkInv, LinkServed
  <2>2. links.cur = l
    BY <1>1, <2>1 DEF OneServes
  <2>3. \A b \in Offers : ~Offered(links', b)
    BY <1>1, <1>4, <2>1 DEF OneServes, Offered
  <2>4. \A m \in Links : m # links'.cur => links'.obj[m].chan = 0
    BY <1>4, <2>1, <2>2 DEF OneServes
  <2> QED
    BY <1>2, <1>4, <2>2, <2>3, <2>4 DEF OneServes, Usable, Current, OfferOpens
<1>8. LinkTyped'
  BY DEF LinkInv, LinkTyped, OfferOpens
<1> QED
  BY <1>5, <1>6, <1>7, <1>8 DEF LinkInv

\* The catch of an offer.
LEMMA FailKeepsLink ==
    ASSUME LinkInv, NEW a \in Offers, OfferFails(a) PROVE LinkInv'
<1> DEFINE l == links.offer[a].link
           ch == links.obj[l].chan
<1>1. Offered(links, a)
  BY DEF OfferFails, Offered
<1>2. links \in Net /\ l \in Links /\ l # 0
  BY <1>1, LinkOfOffer, LinksAssumption DEF Links
<1>3. FailedIn(links, links', l, a)
  BY DEF OfferFails, FailedIn
<1>4. ch \in Nat
  BY <1>2 DEF Net, LinkObject
<1>5. /\ links' \in Net /\ links'.cur = links.cur
      /\ links'.offer[a].link = l /\ links'.offer[a].state = "failed"
      /\ \A b \in Offers : b # a => links'.offer[b] = links.offer[b]
      /\ links'.obj[l].chan = ch
      /\ \A m \in Links : m # l => links'.obj[m] = links.obj[m]
  <2> DEFINE o == Idler(links.obj[l])
             f == Over(links.offer[a], "failed")
  <2>1. Updated(links, links', l, o, a, f)
    BY <1>2, <1>3, OfferEndIsUpdate
  <2>2. o \in LinkObject /\ o.chan = ch /\ f \in Offer /\ f.link = l /\ f.state = "failed"
    BY <1>2, ObjectUpdates DEF Net, OfferState
  <2> HIDE DEF l, o, f
  <2> QED
    BY <1>2, <2>1, <2>2, UpdatedShape
<1>6. NetOK(links')
  <2>1. ch = links.obj[l].chan
    OBVIOUS
  <2> HIDE DEF l, ch
  <2> QED
    BY <1>2, <1>5, <2>1, OfferEndIsOK DEF LinkInv
<1>7. linkTimers' \in Nat /\ linkTimers' > 0
  BY DEF LinkInv, LinkTyped, OfferFails
<1>8. NeverStranded'
  BY <1>5, <1>7 DEF LinkInv, NeverStranded, Reachable, OfferFails
<1>9. LinkServed'
  <2> SUFFICES ASSUME ~overtaken PROVE OneServes(links') /\ told' = FALSE /\ ~Usable'
    BY DEF LinkServed, OfferFails
  <2>1. OneServes(links)
    BY DEF LinkInv, LinkServed
  <2>2. links.cur = l /\ ch = 0
    BY <1>1, <2>1 DEF OneServes
  <2>3. \A b \in Offers : ~Offered(links', b)
    BY <1>1, <1>5, <2>1 DEF OneServes, Offered
  <2>4. \A m \in Links : m # links'.cur => links'.obj[m].chan = 0
    BY <1>5, <2>1, <2>2 DEF OneServes
  <2> QED
    BY <1>5, <2>2, <2>3, <2>4 DEF OneServes, Usable, Current, OfferFails
<1>10. LinkTyped'
  BY <1>7 DEF LinkInv, LinkTyped, OfferFails
<1> QED
  BY <1>6, <1>8, <1>9, <1>10 DEF LinkInv

\* down and linkDown of a channel.
LEMMA DeathKeepsLink ==
    ASSUME LinkInv, NEW a \in Offers, ChannelDies(a) PROVE LinkInv'
<1> DEFINE l == links.offer[a].link
<1>0. links.offer[a].state = "open"
  BY DEF ChannelDies
<1>1. links \in Net /\ l \in Links /\ l # 0 /\ a # 0
  BY <1>0, LinkOfOffer, LinksAssumption DEF Links
<1>2. CASE links.obj[l].chan = a
  <2>1. links' = teardownSinkLink(links, l) /\ told' = FALSE /\ linkTimers' = linkTimers + 1
    BY <1>2 DEF ChannelDies
  <2>2. /\ NetOK(links') /\ links'.cur = links.cur /\ links'.obj[l].chan = 0
        /\ \A m \in Links : m # l => links'.obj[m] = links.obj[m]
        /\ \A b \in Offers : Offered(links', b) => Offered(links, b)
    BY <1>1, <2>1, TeardownShape DEF LinkInv
  <2>3. linkTimers' \in Nat /\ linkTimers' > 0
    BY <2>1 DEF LinkInv, LinkTyped
  <2>4. NeverStranded'
    BY <2>2, <2>3 DEF LinkInv, NeverStranded, Reachable, ChannelDies
  <2>5. LinkServed'
    <3> SUFFICES ASSUME ~overtaken PROVE OneServes(links') /\ ~Usable'
      BY <2>1 DEF LinkServed, ChannelDies
    <3>1. OneServes(links)
      BY DEF LinkInv, LinkServed
    <3>2. links.cur = l
      BY <1>1, <1>2, <3>1 DEF OneServes
    <3>3. \A b \in Offers : ~Offered(links, b)
      BY <1>1, <1>2, <3>1, <3>2 DEF OneServes
    <3>4. \A m \in Links : links'.obj[m].chan = 0
      BY <2>2, <3>1, <3>2 DEF OneServes
    <3> QED
      BY <1>1, <2>2, <3>2, <3>3, <3>4 DEF OneServes, Usable, Current
  <2>6. LinkTyped'
    BY <2>1, <2>3 DEF LinkInv, LinkTyped, ChannelDies
  <2> QED
    BY <2>2, <2>4, <2>5, <2>6 DEF LinkInv
<1>3. CASE links.obj[l].chan # a
  <2>1. /\ links' = [links EXCEPT !.offer[a].state = "closed"]
        /\ UNCHANGED <<told, linkTimers>>
    BY <1>3 DEF ChannelDies
  <2> DEFINE f == Over(links.offer[a], "closed")
             offer == [links.offer EXCEPT ![a] = f]
  <2>2. links' = [links EXCEPT !.offer = offer]
    BY <2>1 DEF Over
  <2>3. f \in Offer /\ f.link = l /\ f.state = "closed"
    BY <1>1, ObjectUpdates DEF Net, OfferState
  <2>4. /\ offer \in [Offers -> Offer]
        /\ offer[a] = f /\ \A b \in Offers : b # a => offer[b] = links.offer[b]
    BY <1>1, <2>3 DEF Net
  <2> HIDE DEF f, offer
  <2>5. links' \in Net /\ links'.cur = links.cur /\ links'.obj = links.obj /\ links'.offer = offer
    BY <1>1, <2>2, <2>4 DEF Net
  <2>6. NetOK(links')
    BY <1>0, <1>1, <2>3, <2>4, <2>5 DEF LinkInv, NetOK, Offered
  <2>7. NeverStranded'
    BY <2>1, <2>5 DEF LinkInv, NeverStranded, Reachable, Usable, Current, ChannelDies
  <2>8. LinkServed'
    <3>1. Usable' <=> Usable
      BY <2>5 DEF Usable, Current
    <3>2. \A b \in Offers : Offered(links', b) => Offered(links, b) /\ links'.offer[b] = links.offer[b]
      BY <2>3, <2>4, <2>5 DEF Offered
    <3>3. OneServes(links) => OneServes(links')
      BY <2>5, <3>2 DEF OneServes
    <3> QED
      BY <2>1, <3>1, <3>3 DEF LinkInv, LinkServed, ChannelDies
  <2>9. LinkTyped'
    BY <2>1 DEF LinkInv, LinkTyped, ChannelDies
  <2> QED
    BY <2>6, <2>7, <2>8, <2>9 DEF LinkInv
<1> QED
  BY <1>2, <1>3

\* An outage or a halt takes the whole link set.
LEMMA TeardownKeepsLink ==
    ASSUME LinkInv, simulateOutage \/ haltLinks PROVE LinkInv'
<1> DEFINE t == teardownSinkLink(links, links.cur)
           z == [t EXCEPT !.cur = 0]
<1>1. /\ links.cur # 0 /\ links' \in {t, z} /\ told' = FALSE
      /\ overtaken' = (overtaken \/ InFlight(links, links.cur))
      /\ UNCHANGED <<deskPeer, lastPeer, linkTimers>>
      /\ linkUp' \in BOOLEAN /\ outage' \in BOOLEAN
      /\ ~Reachable'
  BY DEF simulateOutage, haltLinks, Reachable, LinkInv, LinkTyped
<1>2. links.cur \in Links /\ links \in Net
  BY <1>1, LinksAssumption DEF LinkInv, NetOK, Net, Links
<1>3. /\ NetOK(t) /\ NetOK(z)
      /\ (OneServes(links) /\ ~InFlight(links, links.cur)) => OneServes(t) /\ OneServes(z)
  BY <1>1, TeardownOfCurrent DEF LinkInv
<1>4. t.cur = links.cur /\ t.obj[links.cur].chan = 0
  BY <1>2, TeardownShape DEF LinkInv
<1> HIDE DEF t
<1>5. z.cur = 0
  BY <1>3 DEF NetOK, Net
<1> HIDE DEF z
<1>6. ~Usable'
  BY <1>1, <1>4, <1>5 DEF Usable, Current
<1>7. LinkServed'
  BY <1>1, <1>3, <1>6 DEF LinkInv, LinkServed
<1>8. LinkTyped'
  BY <1>1 DEF LinkInv, LinkTyped
<1> QED
  BY <1>1, <1>3, <1>7, <1>8 DEF LinkInv, NeverStranded

\* The invariant of the links holds in every behaviour.
LEMMA LinkInvHolds == LinksSpec => []LinkInv
<1>1. LinksInit => LinkInv
  <2> SUFFICES ASSUME LinksInit PROVE LinkInv
    OBVIOUS
  <2>1. links \in Net /\ links.cur = 0
    BY LinksAssumption DEF LinksInit, Net, LinkObject, Offer, OfferState, newSinkLink, NoOffer
  <2>2. /\ \A l \in Links : links.obj[l].chan = 0
        /\ \A a \in Offers : links.offer[a].state = "none"
    BY DEF LinksInit, newSinkLink, NoOffer
  <2>3. NetOK(links) /\ OneServes(links)
    BY <2>1, <2>2 DEF NetOK, OneServes, Offered
  <2>4. LinkTyped /\ LinkServed /\ NeverStranded
    BY <2>1, <2>3 DEF LinksInit, LinkTyped, LinkServed, NeverStranded, Usable, Reachable
  <2> QED
    BY <2>3, <2>4 DEF LinkInv
<1>2. LinkInv /\ [LinksNext]_linkVars => LinkInv'
  <2> SUFFICES ASSUME LinkInv, [LinksNext]_linkVars PROVE LinkInv'
    OBVIOUS
  <2>0. CASE UNCHANGED linkVars
    BY <2>0 DEF linkVars, LinkInv, LinkTyped, LinkServed, NeverStranded, Usable, Current, Reachable
  <2>1. CASE SignalReturns
    BY <2>1, EnsureLinksServes DEF SignalReturns, LinkInv, LinkTyped
  <2>2. CASE SignalDrops \/ DeskLeaves
    <3>1. /\ UNCHANGED <<lastPeer, outage, links, told, linkTimers, overtaken>>
          /\ deskPeer' \in Nat /\ linkUp' \in BOOLEAN /\ ~Reachable'
      <4>1. CASE SignalDrops
        BY <4>1 DEF SignalDrops, LinkInv, LinkTyped, Reachable
      <4>2. CASE DeskLeaves
        BY <4>2 DEF DeskLeaves, LinkInv, LinkTyped, Reachable
      <4> QED
        BY <2>2, <4>1, <4>2
    <3>2. LinkTyped' /\ NeverStranded'
      BY <3>1 DEF LinkInv, LinkTyped, NeverStranded
    <3>3. LinkServed' /\ NetOK(links')
      BY <3>1 DEF LinkInv, LinkServed, Usable, Current
    <3> QED
      BY <3>2, <3>3 DEF LinkInv
  <2>3. ASSUME NEW p \in 1..MaxDeskPeers, DeskJoins(p) PROVE LinkInv'
    BY <2>3, EnsureLinksServes, LinksAssumption DEF DeskJoins, LinkInv, LinkTyped
  <2>4. CASE TimerFires
    BY <2>4, EnsureLinksServes DEF TimerFires, LinkInv, LinkTyped
  <2>5. CASE OutageEnds
    BY <2>5, EnsureLinksServes DEF OutageEnds, LinkInv, LinkTyped
  <2>6. CASE simulateOutage \/ haltLinks
    BY <2>6, TeardownKeepsLink
  <2>7. ASSUME NEW a \in Offers, OfferOpens(a) \/ OfferFails(a) \/ ChannelDies(a) PROVE LinkInv'
    BY <2>7, OpenKeepsLink, FailKeepsLink, DeathKeepsLink
  <2> QED
    BY <2>0, <2>1, <2>2, <2>3, <2>4, <2>5, <2>6, <2>7 DEF LinksNext
<1> QED
  BY <1>1, <1>2, PTL DEF LinksSpec

\* A sink is served by one link for any number of link objects, offers and faults: a
\* reachable sink is never given up, never offered twice at a time, and the encoder
\* worker feeds it exactly while it has a channel (recorder-session.ts, ensureLinks,
\* linkDown, teardownSinkLink).
THEOREM SinkServed == LinksSpec => []SinkIsServed
<1>1. LinkInv => SinkIsServed
  <2> SUFFICES ASSUME LinkInv PROVE SinkIsServed
    OBVIOUS
  <2>1. NeverStranded
    BY DEF LinkInv
  <2>2. ToldIsTrue
    BY DEF LinkInv, LinkTyped, LinkServed, ToldIsTrue, Usable
  <2>3. OneOfferAtATime
    <3> SUFFICES ASSUME ~overtaken
                 PROVE  Cardinality({a \in Offers : Offered(links, a)}) <= 1
      BY DEF OneOfferAtATime, Offered
    <3>1. \A a, b \in Offers : (Offered(links, a) /\ Offered(links, b)) => a = b
      BY DEF LinkInv, LinkServed, OneServes
    <3>2. CASE \E a \in Offers : Offered(links, a)
      <4>1. PICK a \in Offers : Offered(links, a)
        BY <3>2
      <4>2. {b \in Offers : Offered(links, b)} = {a}
        BY <3>1, <4>1
      <4>3. Cardinality({a}) = 1
        BY FS_Singleton
      <4> QED
        BY <4>2, <4>3
    <3>3. CASE ~\E a \in Offers : Offered(links, a)
      <4>1. {b \in Offers : Offered(links, b)} = {}
        BY <3>3
      <4>2. Cardinality({}) = 0
        BY FS_EmptySet
      <4> QED
        BY <4>1, <4>2
    <3> QED
      BY <3>2, <3>3
  <2> QED
    BY <2>1, <2>2, <2>3 DEF SinkIsServed
<1> QED
  BY <1>1, LinkInvHolds, PTL
=============================================================================
