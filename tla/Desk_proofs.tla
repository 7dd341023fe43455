---------------------------- MODULE Desk_proofs -----------------------------
(***************************************************************************)
(* What the desk's own machinery promises, for every number of pages,      *)
(* sessions, lanes, takes and clicks: the mix that is heard is the mix of  *)
(* the shared document (MixSync), the input card tells the truth about the *)
(* microphone (DeskInput), the newest pick is what is loaded (AlignFlow),  *)
(* a verdict's two stores agree on the newest one (AlignStore), and what   *)
(* the transport plays is what the timeline shows (SessionPlayer).         *)
(***************************************************************************)
EXTENDS SessionPlayer, MixSync, DeskInput, AlignFlow, AlignStore, WellFoundedInduction,
        FiniteSetTheorems, TLAPS

(***************************************************************************)
(* The mix.                                                                *)
(***************************************************************************)
Node == [gain : Nat, eq : Nat]

MixTyped ==
    /\ mixAt \in [MixPage -> MixSession]
    /\ mixDoc \in [MixPage -> Mix] /\ mixServer \in [MixSession -> Mix]
    /\ strips \in [MixPage -> [Lane -> Strip]]
    /\ trackLane \in [MixPage -> Lane \cup {NoLane}] /\ node \in [MixPage -> Node]
    /\ mixEdits \in Nat /\ mixWrites \in Nat

MixInv == MixTyped /\ PlayerFollowsDoc /\ NodesFollowStrips /\ NoMixEcho

\* What a node plays when it follows the strips.
Follows(n, mix, k) == k # NoLane => n = [gain |-> Heard(mix, k), eq |-> mix[k].eq]

\* Levels are numbers, and a node that is told the gain and the EQ of its lane follows it.
LEMMA NodeFollows ==
    ASSUME NEW mix \in [Lane -> Strip], NEW k \in Lane \cup {NoLane}, NEW n \in Node
    PROVE  /\ applyGains(n, mix, k) \in Node /\ updateEqChain(n, mix, k) \in Node
           /\ updateEqChain(applyGains(n, mix, k), mix, k) \in Node
           /\ Follows(updateEqChain(applyGains(n, mix, k), mix, k), mix, k)
           /\ k # NoLane => /\ Heard(mix, k) \in Nat
                            /\ applyGains(n, mix, k) = [gain |-> Heard(mix, k), eq |-> n.eq]
                            /\ updateEqChain(n, mix, k) = [gain |-> n.gain, eq |-> mix[k].eq]
<1>1. CASE k = NoLane
  BY <1>1 DEF applyGains, updateEqChain, Follows
<1>2. CASE k # NoLane
  <2> DEFINE h == Heard(mix, k)
             e == mix[k].eq
  <2>1. h \in Nat /\ e \in Nat
    BY <1>2 DEF Heard, Strip
  <2>2. applyGains(n, mix, k) = [n EXCEPT !.gain = h]
    BY <1>2 DEF applyGains
  <2>3. ASSUME NEW x \in Node PROVE updateEqChain(x, mix, k) = [x EXCEPT !.eq = e]
    BY <1>2 DEF updateEqChain
  <2> HIDE DEF h, e
  <2>4. [n EXCEPT !.gain = h] = [gain |-> h, eq |-> n.eq] /\ [gain |-> h, eq |-> n.eq] \in Node
    BY <2>1 DEF Node
  <2>5. ASSUME NEW x \in Node
        PROVE  [x EXCEPT !.eq = e] = [gain |-> x.gain, eq |-> e] /\ [gain |-> x.gain, eq |-> e] \in Node
    BY <2>1 DEF Node
  <2>6. updateEqChain(applyGains(n, mix, k), mix, k) = [gain |-> h, eq |-> e]
    BY <2>2, <2>3, <2>4, <2>5
  <2>7. [gain |-> h, eq |-> e] \in Node
    BY <2>1 DEF Node
  <2> QED
    BY ZenonT(60), <2>1, <2>2, <2>3, <2>4, <2>5, <2>6, <2>7 DEF Follows, h, e
<1> QED
  BY <1>1, <1>2

\* The listener writes the lanes whose register says something else, above what the
\* page has seen, and then the document says what the strips say.
LEMMA NotifyWrites ==
    ASSUME NEW d \in Mix, NEW mix \in [Lane -> Strip], NEW r \in NextRank(d)
    PROVE  /\ notify(d, mix, r) \in Mix
           /\ \A k \in Lane : notify(d, mix, r)[k].val = mix[k]
           /\ \A k \in Lane : d[k].val = mix[k] => notify(d, mix, r)[k] = d[k]
<1> DEFINE nd == notify(d, mix, r)
<1>1. r \in Nat
  BY MixAssumption DEF NextRank
<1>2. ASSUME NEW k \in Lane
      PROVE  nd[k] = IF d[k].val = mix[k] THEN d[k] ELSE [val |-> mix[k], rank |-> r]
  BY DEF notify, writeMixIfChanged, Mix
<1>3. nd = [k \in Lane |-> nd[k]]
  BY DEF notify
<1> HIDE DEF nd
<1>4. ASSUME NEW k \in Lane PROVE nd[k] \in [val : Strip, rank : Nat] /\ nd[k].val = mix[k]
  <2>1. d[k] \in [val : Strip, rank : Nat] /\ mix[k] \in Strip
    BY DEF Mix
  <2> DEFINE w == [val |-> mix[k], rank |-> r]
  <2>2. w \in [val : Strip, rank : Nat] /\ w.val = mix[k]
    BY <1>1, <2>1
  <2> HIDE DEF w
  <2>3. CASE d[k].val = mix[k]
    BY <1>2, <2>1, <2>3
  <2>4. CASE d[k].val # mix[k]
    <3>1. nd[k] = w
      BY <1>2, <2>4 DEF w
    <3> QED
      BY <2>2, <3>1
  <2> QED
    BY <2>3, <2>4
<1>5. nd \in [Lane -> [val : Strip, rank : Nat]]
  BY <1>3, <1>4
<1> QED
  BY <1>2, <1>4, <1>5 DEF nd, Mix

\* Merging replicas takes registers of one or of the other.
LEMMA MergeTakes ==
    ASSUME NEW a \in Mix, NEW b \in Mix
    PROVE  /\ MergeMix(a, b) \in Mix
           /\ \A k \in Lane \ Changed(a, MergeMix(a, b)) : MergeMix(a, b)[k] = a[k]
<1> DEFINE m == MergeMix(a, b)
<1>1. \A k \in Lane : m[k] = IF a[k].rank < b[k].rank THEN b[k] ELSE a[k]
  BY DEF MergeMix
<1>2. m \in Mix
  BY DEF MergeMix, Mix
<1>3. \A k \in Lane : a[k].rank \in Nat /\ b[k].rank \in Nat
  BY DEF Mix
<1> HIDE DEF m
<1>4. \A k \in Lane \ Changed(a, m) : m[k] = a[k]
  BY <1>1, <1>3 DEF Changed
<1> QED
  BY <1>2, <1>4 DEF m

\* The observer brings the strips to the registers that changed and writes nothing back.
LEMMA ObserverApplies ==
    ASSUME NEW d \in Mix, NEW mix \in [Lane -> Strip], NEW changed, NEW r
    PROVE  /\ observer(mix, d, changed, r).doc = d
           /\ observer(mix, d, changed, r).mix \in [Lane -> Strip]
           /\ \A k \in Lane : observer(mix, d, changed, r).mix[k] =
                                  IF k \in changed THEN d[k].val ELSE mix[k]
<1>1. \A k \in Lane : applyStrip(mix, d, k, r).doc[k] = d[k] /\ applyStrip(mix, d, k, r).mix[k] = d[k].val
  BY DEF applyStrip
<1>2. d = [k \in Lane |-> d[k]] /\ \A k \in Lane : d[k].val \in Strip
  BY DEF Mix
<1>3. observer(mix, d, changed, r).doc = [k \in Lane |-> d[k]]
  BY <1>1 DEF observer
<1>4. observer(mix, d, changed, r).mix = [k \in Lane |-> IF k \in changed THEN d[k].val ELSE mix[k]]
  BY <1>1 DEF observer
<1> QED
  BY <1>2, <1>3, <1>4

\* What a lane plays has nothing to do with the EQs.
LEMMA EqIsNotGain ==
    ASSUME NEW mix \in [Lane -> Strip], NEW new \in [Lane -> Strip], NEW k \in Lane,
           \A l \in Lane : /\ new[l].gain = mix[l].gain /\ new[l].muted = mix[l].muted
                           /\ new[l].soloed = mix[l].soloed
    PROVE  Heard(new, k) = Heard(mix, k)
BY DEF Heard, Strip

\* A setter changes one strip, writes at most its register, and the node is told.
LEMMA SetKeeps ==
    ASSUME MixInv, NEW p \in MixPage, NEW k \in Lane, NEW mix \in [Lane -> Strip], NEW n \in Node,
           \A l \in Lane : l # k => mix[l] = strips[p][l], Set(p, k, mix, n),
           Follows(n, mix, trackLane[p])
    PROVE  MixInv'
<1> DEFINE doc == mixDoc[p]
<1>1. /\ MixTyped /\ doc \in Mix
      /\ UNCHANGED <<mixAt, mixServer, trackLane>>
      /\ strips' = [strips EXCEPT ![p] = mix] /\ node' = [node EXCEPT ![p] = n]
      /\ mixEdits' = mixEdits + 1
  BY DEF MixInv, MixTyped, Set
<1>2. PICK r \in NextRank(doc) : mixDoc' = [mixDoc EXCEPT ![p] = notify(doc, mix, r)]
  BY DEF Set
<1> DEFINE nd == notify(doc, mix, r)
<1>3. /\ nd \in Mix /\ \A l \in Lane : nd[l].val = mix[l]
      /\ \A l \in Lane : doc[l].val = mix[l] => nd[l] = doc[l]
  BY <1>1, NotifyWrites
<1>4. mixWrites' = mixWrites + Cardinality(Changed(doc, mixDoc'[p]))
  BY DEF Set
<1> HIDE DEF nd
<1>5. mixDoc' \in [MixPage -> Mix] /\ mixDoc'[p] = nd /\ \A q \in MixPage : q # p => mixDoc'[q] = mixDoc[q]
  BY <1>1, <1>2, <1>3 DEF MixTyped, nd
<1>6. Cardinality(Changed(doc, nd)) \in {0, 1}
  <2>1. \A l \in Lane : l # k => doc[l].val = mix[l]
    BY DEF MixInv, PlayerFollowsDoc
  <2>2. Changed(doc, nd) \subseteq {k}
    BY <1>3, <2>1 DEF Changed
  <2>3. Changed(doc, nd) = {} \/ Changed(doc, nd) = {k}
    BY <2>2
  <2> QED
    BY <2>3, FS_EmptySet, FS_Singleton
<1>7. MixTyped' /\ NoMixEcho'
  <2>1. mixWrites' \in Nat /\ mixEdits' \in Nat /\ mixWrites' <= mixEdits'
    BY <1>1, <1>4, <1>5, <1>6 DEF MixInv, MixTyped, NoMixEcho
  <2>2. strips' \in [MixPage -> [Lane -> Strip]] /\ node' \in [MixPage -> Node]
    BY <1>1 DEF MixTyped
  <2> QED
    BY <1>1, <1>5, <2>1, <2>2 DEF MixTyped, NoMixEcho
<1>8. PlayerFollowsDoc'
  BY <1>1, <1>3, <1>5 DEF MixInv, MixTyped, PlayerFollowsDoc
<1>9. NodesFollowStrips'
  BY <1>1 DEF MixInv, MixTyped, NodesFollowStrips, Follows
<1> QED
  BY <1>7, <1>8, <1>9 DEF MixInv

\* A page's document, strips and node are replaced together, without a write counted.
LEMMA PageKeeps ==
    ASSUME MixInv, NEW p \in MixPage, NEW d \in Mix, NEW mix \in [Lane -> Strip], NEW n \in Node,
           NEW k \in Lane \cup {NoLane},
           mixDoc' = [mixDoc EXCEPT ![p] = d], strips' = [strips EXCEPT ![p] = mix],
           node' = [node EXCEPT ![p] = n], trackLane' = [trackLane EXCEPT ![p] = k],
           mixAt' \in [MixPage -> MixSession],
           UNCHANGED <<mixServer, mixEdits, mixWrites>>,
           \A l \in Lane : mix[l] = d[l].val, Follows(n, mix, k)
    PROVE  MixInv'
<1>1. MixTyped'
  BY DEF MixInv, MixTyped
<1>2. PlayerFollowsDoc'
  BY DEF MixInv, MixTyped, PlayerFollowsDoc
<1>3. NodesFollowStrips'
  BY DEF MixInv, MixTyped, NodesFollowStrips, Follows
<1> QED
  BY <1>1, <1>2, <1>3 DEF MixInv, NoMixEcho

\* The default strip is one, and a page that is new plays it on a track without a lane.
LEMMA NewPage ==
    /\ NoMix \in Mix /\ [k \in Lane |-> defaultMixStripState] \in [Lane -> Strip]
    /\ \A k \in Lane : NoMix[k].val = defaultMixStripState
    /\ [gain |-> 0, eq |-> 0] \in Node
BY DEF NoMix, defaultMixStripState, Mix, Strip, Node

\* A track that is on a lane has a node that follows the lane's strip.
LEMMA NodeAsStrip ==
    ASSUME MixInv, NEW p \in MixPage, trackLane[p] # NoLane
    PROVE  node[p].gain = Heard(strips[p], trackLane[p]) /\ node[p].eq = strips[p][trackLane[p]].eq
<1> DEFINE h == Heard(strips[p], trackLane[p])
           e == strips[p][trackLane[p]].eq
<1>1. node[p] = [gain |-> h, eq |-> e]
  BY DEF MixInv, NodesFollowStrips
<1> HIDE DEF h, e
<1>2. node[p].gain = h /\ node[p].eq = e
  BY <1>1
<1> QED
  BY <1>2 DEF h, e

\* A fader, a mute or a solo: the strip changes and the gain node is told.
LEMMA GainSetKeeps ==
    ASSUME MixInv, NEW p \in MixPage, NEW k \in Lane, NEW new \in Strip,
           new.eq = strips[p][k].eq,
           Set(p, k, [strips[p] EXCEPT ![k] = new],
               applyGains(node[p], [strips[p] EXCEPT ![k] = new], trackLane[p]))
    PROVE  MixInv'
<1> DEFINE mix == [strips[p] EXCEPT ![k] = new]
           t == trackLane[p]
           n == applyGains(node[p], mix, t)
<1>1. /\ MixTyped /\ node[p] \in Node /\ t \in Lane \cup {NoLane} /\ strips[p] \in [Lane -> Strip]
  BY DEF MixInv, MixTyped
<1>2. /\ mix \in [Lane -> Strip] /\ \A l \in Lane : l # k => mix[l] = strips[p][l]
      /\ \A l \in Lane : mix[l].eq = strips[p][l].eq
  BY <1>1
<1>3. Set(p, k, mix, n)
  OBVIOUS
<1> HIDE DEF mix, n
<1>4. n \in Node /\ (t # NoLane => n = [gain |-> Heard(mix, t), eq |-> node[p].eq])
  BY <1>1, <1>2, NodeFollows DEF n
<1>5. Follows(n, mix, t)
  <2> SUFFICES ASSUME t # NoLane PROVE n = [gain |-> Heard(mix, t), eq |-> mix[t].eq]
    BY DEF Follows
  <2>1. node[p].eq = strips[p][t].eq
    BY NodeAsStrip
  <2> QED
    BY <1>1, <1>2, <1>4, <2>1
<1> HIDE DEF t
<1> QED
  BY <1>2, <1>3, <1>4, <1>5, SetKeeps DEF t

\* An EQ: the strip changes and the EQ nodes are told.
LEMMA EqSetKeeps == ASSUME MixInv, NEW p \in MixPage, NEW k \in Lane, setChannelEq(p, k) PROVE MixInv'
<1> DEFINE e == 1 - strips[p][k].eq
           new == [strips[p][k] EXCEPT !.eq = e]
           mix == [strips[p] EXCEPT ![k] = new]
           t == trackLane[p]
           n == updateEqChain(node[p], mix, t)
<1>1. /\ MixTyped /\ node[p] \in Node /\ t \in Lane \cup {NoLane}
      /\ strips[p] \in [Lane -> Strip] /\ strips[p][k] \in Strip
  BY DEF MixInv, MixTyped
<1>2. e \in {0, 1}
  BY <1>1 DEF Strip
<1>3. mix = [strips[p] EXCEPT ![k].eq = 1 - @]
  OBVIOUS
<1>4. Set(p, k, mix, n)
  BY <1>3 DEF setChannelEq
<1> HIDE DEF e
<1>5. /\ new \in Strip /\ new.gain = strips[p][k].gain /\ new.muted = strips[p][k].muted
      /\ new.soloed = strips[p][k].soloed
  BY <1>1, <1>2 DEF Strip
<1> HIDE DEF new
<1>6. /\ mix \in [Lane -> Strip] /\ \A l \in Lane : l # k => mix[l] = strips[p][l]
      /\ \A l \in Lane : /\ mix[l].gain = strips[p][l].gain /\ mix[l].muted = strips[p][l].muted
                         /\ mix[l].soloed = strips[p][l].soloed
  BY <1>1, <1>5
<1> HIDE DEF mix, n
<1>7. n \in Node /\ (t # NoLane => n = [gain |-> node[p].gain, eq |-> mix[t].eq])
  BY <1>1, <1>6, NodeFollows DEF n
<1>8. Follows(n, mix, t)
  <2> SUFFICES ASSUME t # NoLane PROVE n = [gain |-> Heard(mix, t), eq |-> mix[t].eq]
    BY DEF Follows
  <2>1. node[p].gain = Heard(strips[p], t)
    BY NodeAsStrip
  <2>2. Heard(mix, t) = Heard(strips[p], t)
    BY <1>1, <1>6, EqIsNotGain
  <2> QED
    BY <1>7, <2>1, <2>2
<1> HIDE DEF t
<1> QED
  BY <1>4, <1>6, <1>7, <1>8, SetKeeps DEF t

\* What other desks set arrives: strips and node follow, and nothing is written back.
LEMMA ReceiveMixKeeps == ASSUME MixInv, NEW p \in MixPage, ReceiveMix(p) PROVE MixInv'
<1> DEFINE s == mixServer[mixAt[p]]
           merged == MergeMix(mixDoc[p], s)
           changed == Changed(mixDoc[p], merged)
           t == trackLane[p]
<1>1. /\ MixTyped /\ mixDoc[p] \in Mix /\ s \in Mix /\ node[p] \in Node
      /\ strips[p] \in [Lane -> Strip] /\ t \in Lane \cup {NoLane}
  BY DEF MixInv, MixTyped
<1>2. merged \in Mix /\ \A k \in Lane \ changed : merged[k] = mixDoc[p][k]
  BY <1>1, MergeTakes
<1>3. PICK r \in NextRank(merged) \cup {0} : LET seen == observer(strips[p], merged, changed, r) IN
          /\ strips' = [strips EXCEPT ![p] = seen.mix]
          /\ mixDoc' = [mixDoc EXCEPT ![p] = seen.doc]
          /\ node' = [node EXCEPT ![p] = updateEqChain(applyGains(node[p], seen.mix, t), seen.mix, t)]
          /\ mixWrites' = mixWrites + Cardinality(Changed(merged, seen.doc))
  BY DEF ReceiveMix
<1> DEFINE mix == observer(strips[p], merged, changed, r).mix
           n == updateEqChain(applyGains(node[p], mix, t), mix, t)
<1>4. UNCHANGED <<mixAt, mixServer, trackLane, mixEdits>>
  BY DEF ReceiveMix
<1> HIDE DEF merged, changed
<1>5. /\ observer(strips[p], merged, changed, r).doc = merged
      /\ mix \in [Lane -> Strip]
      /\ \A k \in Lane : mix[k] = IF k \in changed THEN merged[k].val ELSE strips[p][k]
  BY <1>1, <1>2, ObserverApplies
<1>6. /\ strips' = [strips EXCEPT ![p] = mix] /\ mixDoc' = [mixDoc EXCEPT ![p] = merged]
      /\ node' = [node EXCEPT ![p] = n] /\ mixWrites' = mixWrites + Cardinality(Changed(merged, merged))
  BY <1>3, <1>5
<1> HIDE DEF mix
<1>7. n \in Node /\ Follows(n, mix, t)
  BY <1>1, <1>5, NodeFollows
<1> HIDE DEF n
<1>8. \A k \in Lane : mix[k] = merged[k].val
  BY <1>2, <1>5 DEF MixInv, PlayerFollowsDoc
<1>9. mixWrites' = mixWrites
  <2>1. Changed(merged, merged) = {}
    BY DEF Changed
  <2> QED
    BY <1>1, <1>6, <2>1, FS_EmptySet DEF MixTyped
<1>10. /\ trackLane' = [trackLane EXCEPT ![p] = t] /\ mixAt' \in [MixPage -> MixSession]
       /\ UNCHANGED <<mixServer, mixEdits, mixWrites>>
  BY <1>1, <1>4, <1>9 DEF MixTyped
<1>11. t \in Lane \cup {NoLane} /\ mix \in [Lane -> Strip]
  BY <1>1, <1>5
<1> HIDE DEF t
<1> QED
  BY <1>2, <1>6, <1>7, <1>8, <1>10, <1>11, PageKeeps

\* Every step of every page keeps the mix.
LEMMA MixStep == MixInv /\ [MixNext]_mixVars => MixInv'
<1> SUFFICES ASSUME MixInv, [MixNext]_mixVars PROVE MixInv'
  OBVIOUS
<1>0. MixTyped
  BY DEF MixInv
<1>1. CASE UNCHANGED mixVars
  BY <1>1 DEF mixVars, MixInv, MixTyped, PlayerFollowsDoc, NodesFollowStrips, NoMixEcho
<1>2. ASSUME NEW p \in MixPage, NEW k \in Lane,
             setChannelDb(p, k) \/ toggleChannelMute(p, k) \/ toggleChannelSolo(p, k)
      PROVE  MixInv'
  <2> DEFINE old == strips[p][k]
  <2>1. old \in Strip
    BY <1>0 DEF MixTyped
  <2>2. CASE setChannelDb(p, k)
    <3> DEFINE new == [old EXCEPT !.gain = 1 - old.gain]
    <3>1. new \in Strip /\ new.eq = old.eq
      BY <2>1 DEF Strip
    <3>2. [strips[p] EXCEPT ![k].gain = 1 - @] = [strips[p] EXCEPT ![k] = new]
      OBVIOUS
    <3> HIDE DEF new
    <3> QED
      BY <2>2, <3>1, <3>2, GainSetKeeps DEF setChannelDb
  <2>3. CASE toggleChannelMute(p, k)
    <3> DEFINE new == [old EXCEPT !.muted = ~old.muted]
    <3>1. new \in Strip /\ new.eq = old.eq
      BY <2>1 DEF Strip
    <3>2. [strips[p] EXCEPT ![k].muted = ~@] = [strips[p] EXCEPT ![k] = new]
      OBVIOUS
    <3> HIDE DEF new
    <3> QED
      BY <2>3, <3>1, <3>2, GainSetKeeps DEF toggleChannelMute
  <2>4. CASE toggleChannelSolo(p, k)
    <3> DEFINE new == [old EXCEPT !.soloed = ~old.soloed]
    <3>1. new \in Strip /\ new.eq = old.eq
      BY <2>1 DEF Strip
    <3>2. [strips[p] EXCEPT ![k].soloed = ~@] = [strips[p] EXCEPT ![k] = new]
      OBVIOUS
    <3> HIDE DEF new
    <3> QED
      BY <2>4, <3>1, <3>2, GainSetKeeps DEF toggleChannelSolo
  <2> QED
    BY <1>2, <2>2, <2>3, <2>4
<1>3. ASSUME NEW p \in MixPage, NEW k \in Lane, remapChannels(p, k) PROVE MixInv'
  <2> DEFINE n == updateEqChain(applyGains(node[p], strips[p], k), strips[p], k)
  <2>1. n \in Node /\ Follows(n, strips[p], k)
    BY <1>0, NodeFollows DEF MixTyped
  <2>2. /\ trackLane' = [trackLane EXCEPT ![p] = k] /\ node' = [node EXCEPT ![p] = n]
        /\ UNCHANGED <<mixAt, mixDoc, mixServer, strips, mixEdits, mixWrites>>
    BY <1>3 DEF remapChannels
  <2> HIDE DEF n
  <2>3. mixDoc' = [mixDoc EXCEPT ![p] = mixDoc[p]] /\ strips' = [strips EXCEPT ![p] = strips[p]]
        /\ mixAt' \in [MixPage -> MixSession] /\ mixDoc[p] \in Mix /\ strips[p] \in [Lane -> Strip]
    BY <1>0, <2>2 DEF MixTyped
  <2>4. \A l \in Lane : strips[p][l] = mixDoc[p][l].val
    BY DEF MixInv, PlayerFollowsDoc
  <2> QED
    BY <2>1, <2>2, <2>3, <2>4, PageKeeps
<1>4. ASSUME NEW p \in MixPage, SendMix(p) PROVE MixInv'
  <2> DEFINE m == MergeMix(mixServer[mixAt[p]], mixDoc[p])
  <2>1. m \in Mix
    BY <1>0, MergeTakes DEF MixTyped
  <2>2. /\ mixServer' = [mixServer EXCEPT ![mixAt[p]] = m]
        /\ UNCHANGED <<mixAt, mixDoc, strips, trackLane, node, mixEdits, mixWrites>>
    BY <1>4 DEF SendMix
  <2> HIDE DEF m
  <2>3. MixTyped'
    BY <1>0, <2>1, <2>2 DEF MixTyped
  <2> QED
    BY <2>2, <2>3 DEF MixInv, PlayerFollowsDoc, NodesFollowStrips, NoMixEcho
<1>5. ASSUME NEW p \in MixPage, ReloadMix(p) PROVE MixInv'
  <2> DEFINE mix == [k \in Lane |-> defaultMixStripState]
             n == [gain |-> 0, eq |-> 0]
  <2>1. /\ mixDoc' = [mixDoc EXCEPT ![p] = NoMix] /\ strips' = [strips EXCEPT ![p] = mix]
        /\ trackLane' = [trackLane EXCEPT ![p] = NoLane] /\ node' = [node EXCEPT ![p] = n]
        /\ UNCHANGED <<mixAt, mixServer, mixEdits, mixWrites>>
    BY <1>5 DEF ReloadMix
  <2>2. /\ NoMix \in Mix /\ mix \in [Lane -> Strip] /\ n \in Node /\ Follows(n, mix, NoLane)
        /\ \A l \in Lane : mix[l] = NoMix[l].val
    BY NewPage DEF Follows
  <2>3. mixAt' \in [MixPage -> MixSession]
    BY <1>0, <2>1 DEF MixTyped
  <2> HIDE DEF mix, n
  <2> QED
    BY <2>1, <2>2, <2>3, PageKeeps
<1>6. ASSUME NEW p \in MixPage, NEW s \in MixSession, bindMixToCollab(p, s) PROVE MixInv'
  <2>1. PICK r \in NextRank(NoMix) : mixDoc' = [mixDoc EXCEPT ![p] = notify(NoMix, strips[p], r)]
    BY <1>6 DEF bindMixToCollab
  <2> DEFINE d == notify(NoMix, strips[p], r)
  <2>2. strips[p] \in [Lane -> Strip] /\ node[p] \in Node /\ trackLane[p] \in Lane \cup {NoLane}
    BY <1>0 DEF MixTyped
  <2>3. d \in Mix /\ \A l \in Lane : d[l].val = strips[p][l]
    BY <2>2, NewPage, NotifyWrites
  <2> HIDE DEF d
  <2>4. /\ mixAt' = [mixAt EXCEPT ![p] = s]
        /\ UNCHANGED <<mixServer, strips, trackLane, node, mixEdits, mixWrites>>
    BY <1>6 DEF bindMixToCollab
  <2> DEFINE t == trackLane[p]
             n == node[p]
             mix == strips[p]
  <2>5. /\ mixAt' \in [MixPage -> MixSession] /\ strips' = [strips EXCEPT ![p] = mix]
        /\ trackLane' = [trackLane EXCEPT ![p] = t] /\ node' = [node EXCEPT ![p] = n]
    BY <1>0, <2>4 DEF MixTyped
  <2>6. Follows(n, mix, t)
    BY DEF MixInv, NodesFollowStrips, Follows
  <2>7. mixDoc' = [mixDoc EXCEPT ![p] = d] /\ UNCHANGED <<mixServer, mixEdits, mixWrites>>
    BY <2>1, <2>4 DEF d
  <2>8. n \in Node /\ mix \in [Lane -> Strip] /\ t \in Lane \cup {NoLane}
        /\ \A l \in Lane : mix[l] = d[l].val
    BY <2>2, <2>3
  <2> HIDE DEF t, n, mix
  <2> QED
    BY <2>3, <2>5, <2>6, <2>7, <2>8, PageKeeps
<1> QED
  BY <1>1, <1>2, <1>3, <1>4, <1>5, <1>6, EqSetKeeps, ReceiveMixKeeps DEF MixNext

\* The pages start with default strips, an empty document and no track.
LEMMA MixStarts == MixInit => MixInv
<1> SUFFICES ASSUME MixInit PROVE MixInv
  OBVIOUS
<1>1. MixTyped
  BY NewPage, MixAssumption DEF MixInit, MixTyped
<1>2. PlayerFollowsDoc
  BY NewPage DEF MixInit, PlayerFollowsDoc
<1>3. NodesFollowStrips /\ NoMixEcho
  BY DEF MixInit, NodesFollowStrips, NoMixEcho
<1> QED
  BY <1>1, <1>2, <1>3 DEF MixInv

\* Document, player and audio nodes agree on the mix after every step of any number of
\* desks, and agreeing costs no writes (use-collab.ts, player.ts applyGains).
THEOREM MixIsOne == MixSpec => []MixAgrees
<1>1. MixInv => MixAgrees
  BY DEF MixInv, MixAgrees
<1> QED
  BY <1>1, MixStarts, MixStep, PTL DEF MixSpec

(***************************************************************************)
(* The input card.                                                         *)
(***************************************************************************)
Kinds == {"pick", "resume", "use", "disable", "watch"}
Stages == {"probe", "list", "start", "boot", "close", "enumerate"}
InputOp == [id : Nat, kind : Kinds, at : Stages]
Pending == {op \in inOps : op.kind # "watch"}

InputTyped ==
    /\ inPhase \in {"off", "picking", "starting", "live"} /\ inOps \subseteq InputOp
    /\ inController \in Nat /\ clicks \in Nat
    /\ inSession \in BOOLEAN /\ dead \in BOOLEAN /\ early \in BOOLEAN /\ unplugged \in BOOLEAN
    /\ crossed \in BOOLEAN /\ present \in BOOLEAN /\ rolling \in BOOLEAN

\* An operation bears the number of its click; a device change has none.
OpsNumbered ==
    /\ \A op \in inOps : op.kind = "watch" <=> op.at = "enumerate"
    /\ \A op \in Pending : op.id \in 1..clicks
    /\ \A a, b \in Pending : a.id = b.id => a = b

\* The one operation that starts has the controller, and no lane stands yet; it has
\* the microphone once it boots, and a track that ended since then ended early.
StartsAreCurrent ==
    \A op \in inOps :
        /\ op.at \in {"start", "boot"} => op.id = inController /\ ~inSession /\ inPhase # "live"
        /\ op.at = "boot" => op.id \in mics /\ (dead => early)

\* A microphone belongs to the controller there is, a lane has one.
MicHasController ==
    /\ mics \subseteq {inController} \ {0}
    /\ inSession => inController \in mics

\* As long as no click met a pending operation there is at most one, and neither what
\* precedes a start nor what follows a stop has a controller.
InTurn ==
    ~crossed =>
        /\ inPhase \in {"off", "picking"} => inController = 0
        /\ \A a, b \in Pending : a = b
        /\ \A op \in Pending : op.at \in {"probe", "list", "close"} => inController = 0

InputInv ==
    /\ InputTyped /\ OpsNumbered /\ StartsAreCurrent /\ MicHasController /\ InTurn /\ DeadIsShown

\* A card that is off opens the picker, or resumes.
LEMMA InputClickOff == ASSUME InputInv, NEW kind \in {"pick", "resume"}, ClickOff(kind) PROVE InputInv'
<1> USE DEF InputInv, ClickOff, Click, Busy, Op, laneVars, plugVars, rollVars
<1>1. InputTyped'
  BY DEF InputTyped, OpsNumbered, InputOp, Kinds, Stages
<1>2. OpsNumbered'
  BY DEF InputTyped, OpsNumbered, Pending, InputOp
<1>3. StartsAreCurrent'
  BY DEF InputTyped, OpsNumbered, StartsAreCurrent, MicHasController, Pending, InputOp
<1>4. MicHasController'
  BY DEF InputTyped, OpsNumbered, StartsAreCurrent, MicHasController, Pending, InputOp
<1>5. InTurn'
  BY DEF InputTyped, OpsNumbered, StartsAreCurrent, InTurn, Pending, InputOp
<1>6. DeadIsShown'
  BY DEF InputTyped, OpsNumbered, StartsAreCurrent, MicHasController, DeadIsShown, InputOp
<1> QED
  BY <1>1, <1>2, <1>3, <1>4, <1>5, <1>6

\* The permission probe is over.
LEMMA InputProbe == ASSUME InputInv, NEW op \in inOps, NEW ok \in BOOLEAN, probeMicPermission(op, ok) PROVE InputInv'
<1> USE DEF InputInv, probeMicPermission, Moved, Without, laneVars, plugVars, rollVars
<1>1. InputTyped'
  BY DEF InputTyped, OpsNumbered, InputOp, Kinds, Stages
<1>2. OpsNumbered'
  BY DEF InputTyped, OpsNumbered, Pending, InputOp
<1>3. StartsAreCurrent'
  BY DEF InputTyped, OpsNumbered, StartsAreCurrent, MicHasController, Pending, InputOp
<1>4. MicHasController'
  BY DEF InputTyped, OpsNumbered, StartsAreCurrent, MicHasController, Pending, InputOp
<1>5. InTurn'
  BY DEF InputTyped, OpsNumbered, StartsAreCurrent, InTurn, Pending, InputOp
<1>6. DeadIsShown'
  BY DEF InputTyped, OpsNumbered, StartsAreCurrent, MicHasController, DeadIsShown, InputOp
<1> QED
  BY <1>1, <1>2, <1>3, <1>4, <1>5, <1>6

\* The picker is closed.
LEMMA InputClosePicker == ASSUME InputInv, closePicker PROVE InputInv'
<1> USE DEF InputInv, closePicker, Click, laneVars, plugVars, rollVars
<1>1. InputTyped'
  BY DEF InputTyped, OpsNumbered, InputOp, Kinds, Stages
<1>2. OpsNumbered'
  BY DEF InputTyped, OpsNumbered, Pending, InputOp
<1>3. StartsAreCurrent'
  BY DEF InputTyped, OpsNumbered, StartsAreCurrent, MicHasController, Pending, InputOp
<1>4. MicHasController'
  BY DEF InputTyped, OpsNumbered, StartsAreCurrent, MicHasController, Pending, InputOp
<1>5. InTurn'
  BY DEF InputTyped, OpsNumbered, StartsAreCurrent, InTurn, Pending, InputOp
<1>6. DeadIsShown'
  BY DEF InputTyped, OpsNumbered, StartsAreCurrent, MicHasController, DeadIsShown, InputOp
<1> QED
  BY <1>1, <1>2, <1>3, <1>4, <1>5, <1>6

\* The devices are listed; a resume goes on.
LEMMA InputRefresh == ASSUME InputInv, NEW op \in inOps, refreshDevices(op) PROVE InputInv'
<1> USE DEF InputInv, refreshDevices, Enable, Without, laneVars, plugVars, rollVars
<1>1. InputTyped'
  BY DEF InputTyped, OpsNumbered, InputOp, Kinds, Stages
<1>2. OpsNumbered'
  BY DEF InputTyped, OpsNumbered, Pending, InputOp
<1>3. StartsAreCurrent'
  BY DEF InputTyped, OpsNumbered, StartsAreCurrent, MicHasController, Pending, InputOp
<1>4. MicHasController'
  BY DEF InputTyped, OpsNumbered, StartsAreCurrent, MicHasController, Pending, InputOp
<1>5. InTurn'
  BY DEF InputTyped, OpsNumbered, StartsAreCurrent, InTurn, Pending, InputOp
<1>6. DeadIsShown'
  BY DEF InputTyped, OpsNumbered, StartsAreCurrent, MicHasController, DeadIsShown, InputOp
<1> QED
  BY <1>1, <1>2, <1>3, <1>4, <1>5, <1>6

\* An input is chosen.
LEMMA InputUseInput == ASSUME InputInv, UseInput PROVE InputInv'
<1> USE DEF InputInv, UseInput, Enable, Op, Click, Busy, laneVars, plugVars, rollVars
<1>1. InputTyped'
  BY DEF InputTyped, OpsNumbered, InputOp, Kinds, Stages
<1>2. OpsNumbered'
  BY DEF InputTyped, OpsNumbered, Pending, InputOp
<1>3. StartsAreCurrent'
  BY DEF InputTyped, OpsNumbered, StartsAreCurrent, MicHasController, Pending, InputOp
<1>4. MicHasController'
  BY DEF InputTyped, OpsNumbered, StartsAreCurrent, MicHasController, Pending, InputOp
<1>5. InTurn'
  <2> SUFFICES ASSUME ~crossed' PROVE InTurn'
    BY DEF InTurn
  <2>1. ~crossed /\ Pending = {} /\ inController = 0
    BY DEF InputTyped, InTurn, Pending
  <2> DEFINE new == [id |-> clicks', kind |-> "use", at |-> "start"]
  <2>2. inOps' = inOps \cup {new} /\ inPhase' = "starting"
    BY <2>1
  <2>3. new.at = "start"
    OBVIOUS
  <2> HIDE DEF new
  <2>4. Pending' \subseteq {new}
    BY <2>1, <2>2 DEF Pending
  <2> QED
    BY <2>2, <2>3, <2>4 DEF InTurn
<1>6. DeadIsShown'
  BY DEF InputTyped, OpsNumbered, StartsAreCurrent, MicHasController, DeadIsShown, InputOp
<1> QED
  BY <1>1, <1>2, <1>3, <1>4, <1>5, <1>6

\* The microphone is open.
LEMMA InputAcquire == ASSUME InputInv, NEW op \in inOps, acquireStream(op) PROVE InputInv'
<1> USE DEF InputInv, acquireStream, Moved, Without, laneVars, plugVars, rollVars
<1>1. InputTyped'
  BY DEF InputTyped, OpsNumbered, InputOp, Kinds, Stages
<1>2. OpsNumbered'
  BY DEF InputTyped, OpsNumbered, Pending, InputOp
<1>3. StartsAreCurrent'
  BY DEF InputTyped, OpsNumbered, StartsAreCurrent, MicHasController, Pending, InputOp
<1>4. MicHasController'
  BY DEF InputTyped, OpsNumbered, StartsAreCurrent, MicHasController, Pending, InputOp
<1>5. InTurn'
  BY DEF InputTyped, OpsNumbered, StartsAreCurrent, InTurn, Pending, InputOp
<1>6. DeadIsShown'
  BY DEF InputTyped, OpsNumbered, StartsAreCurrent, MicHasController, DeadIsShown, InputOp
<1> QED
  BY <1>1, <1>2, <1>3, <1>4, <1>5, <1>6

\* A start fails.
LEMMA InputFails == ASSUME InputInv, NEW op \in inOps, StartFails(op) PROVE InputInv'
<1> USE DEF InputInv, StartFails, Without, laneVars, plugVars, rollVars
<1>1. InputTyped'
  BY DEF InputTyped, OpsNumbered, InputOp, Kinds, Stages
<1>2. OpsNumbered'
  BY DEF InputTyped, OpsNumbered, Pending, InputOp
<1>3. StartsAreCurrent'
  BY DEF InputTyped, OpsNumbered, StartsAreCurrent, MicHasController, Pending, InputOp
<1>4. MicHasController'
  BY DEF InputTyped, OpsNumbered, StartsAreCurrent, MicHasController, Pending, InputOp
<1>5. InTurn'
  BY DEF InputTyped, OpsNumbered, StartsAreCurrent, InTurn, Pending, InputOp
<1>6. DeadIsShown'
  BY DEF InputTyped, OpsNumbered, StartsAreCurrent, MicHasController, DeadIsShown, InputOp
<1> QED
  BY <1>1, <1>2, <1>3, <1>4, <1>5, <1>6

\* A start succeeds.
LEMMA InputEnds == ASSUME InputInv, NEW op \in inOps, StartEnds(op) PROVE InputInv'
<1> USE DEF InputInv, StartEnds, Without, laneVars, plugVars, rollVars
<1>1. InputTyped'
  BY DEF InputTyped, OpsNumbered, InputOp, Kinds, Stages
<1>2. OpsNumbered'
  BY DEF InputTyped, OpsNumbered, Pending, InputOp
<1>3. StartsAreCurrent'
  BY DEF InputTyped, OpsNumbered, StartsAreCurrent, MicHasController, Pending, InputOp
<1>4. MicHasController'
  BY DEF InputTyped, OpsNumbered, StartsAreCurrent, MicHasController, Pending, InputOp
<1>5. InTurn'
  BY DEF InputTyped, OpsNumbered, StartsAreCurrent, InTurn, Pending, InputOp
<1>6. DeadIsShown'
  BY DEF InputTyped, OpsNumbered, StartsAreCurrent, MicHasController, DeadIsShown, InputOp
<1> QED
  BY <1>1, <1>2, <1>3, <1>4, <1>5, <1>6

\* The lane is taken away.
LEMMA InputDisable == ASSUME InputInv, disable PROVE InputInv'
<1> USE DEF InputInv, disable, Click, Op, Busy, laneVars, plugVars, rollVars
<1>1. InputTyped'
  <2>1. crossed' \in BOOLEAN
    BY DEF InputTyped
  <2>2. inOps' \subseteq InputOp /\ clicks' \in Nat
    BY DEF InputTyped, InputOp, Kinds, Stages
  <2>3. UNCHANGED <<inPhase, dead, early, unplugged, present, rolling>>
    OBVIOUS
  <2>4. inController' \in Nat /\ inSession' \in BOOLEAN
    BY DEF InputTyped
  <2> QED
    BY <2>1, <2>2, <2>3, <2>4 DEF InputTyped
<1>2. OpsNumbered'
  BY DEF InputTyped, OpsNumbered, Pending, InputOp
<1>3. StartsAreCurrent'
  BY DEF InputTyped, OpsNumbered, StartsAreCurrent, MicHasController, Pending, InputOp
<1>4. MicHasController'
  BY DEF InputTyped, OpsNumbered, StartsAreCurrent, MicHasController, Pending, InputOp
<1>5. InTurn'
  BY DEF InputTyped, OpsNumbered, StartsAreCurrent, InTurn, Pending, InputOp
<1>6. DeadIsShown'
  BY DEF InputTyped, OpsNumbered, StartsAreCurrent, MicHasController, DeadIsShown, InputOp
<1> QED
  BY <1>1, <1>2, <1>3, <1>4, <1>5, <1>6

\* The teardown is over.
LEMMA InputTeardown == ASSUME InputInv, NEW op \in inOps, teardownEnds(op) PROVE InputInv'
<1> USE DEF InputInv, teardownEnds, Without, laneVars, plugVars, rollVars
<1>1. InputTyped'
  BY DEF InputTyped, OpsNumbered, InputOp, Kinds, Stages
<1>2. OpsNumbered'
  BY DEF InputTyped, OpsNumbered, Pending, InputOp
<1>3. StartsAreCurrent'
  BY DEF InputTyped, OpsNumbered, StartsAreCurrent, MicHasController, Pending, InputOp
<1>4. MicHasController'
  BY DEF InputTyped, OpsNumbered, StartsAreCurrent, MicHasController, Pending, InputOp
<1>5. InTurn'
  BY DEF InputTyped, OpsNumbered, StartsAreCurrent, InTurn, Pending, InputOp
<1>6. DeadIsShown'
  BY DEF InputTyped, OpsNumbered, StartsAreCurrent, MicHasController, DeadIsShown, InputOp
<1> QED
  BY <1>1, <1>2, <1>3, <1>4, <1>5, <1>6

\* The device is unplugged.
LEMMA InputUnplug == ASSUME InputInv, Unplug PROVE InputInv'
<1> USE DEF InputInv, Unplug, Watch, Op, laneVars, plugVars, rollVars
<1>1. InputTyped'
  <2>1. dead' \in BOOLEAN /\ unplugged' \in BOOLEAN /\ early' \in BOOLEAN /\ present' \in BOOLEAN
    BY DEF InputTyped
  <2>2. inOps' \subseteq InputOp
    BY DEF InputTyped, InputOp, Kinds, Stages
  <2>3. UNCHANGED <<inPhase, inController, clicks, inSession, crossed, rolling>>
    OBVIOUS
  <2> QED
    BY <2>1, <2>2, <2>3 DEF InputTyped
<1>2. OpsNumbered'
  BY DEF InputTyped, OpsNumbered, Pending, InputOp
<1>3. StartsAreCurrent'
  BY DEF InputTyped, OpsNumbered, StartsAreCurrent, MicHasController, Pending, InputOp
<1>4. MicHasController'
  BY DEF InputTyped, OpsNumbered, StartsAreCurrent, MicHasController, Pending, InputOp
<1>5. InTurn'
  BY DEF InputTyped, OpsNumbered, StartsAreCurrent, InTurn, Pending, InputOp
<1>6. DeadIsShown'
  BY DEF InputTyped, OpsNumbered, StartsAreCurrent, MicHasController, DeadIsShown, InputOp
<1> QED
  BY <1>1, <1>2, <1>3, <1>4, <1>5, <1>6

\* The device is back.
LEMMA InputReplug == ASSUME InputInv, Replug PROVE InputInv'
<1> USE DEF InputInv, Replug, Watch, Op, laneVars, plugVars, rollVars
<1>1. InputTyped'
  BY DEF InputTyped, OpsNumbered, InputOp, Kinds, Stages
<1>2. OpsNumbered'
  BY DEF InputTyped, OpsNumbered, Pending, InputOp
<1>3. StartsAreCurrent'
  BY DEF InputTyped, OpsNumbered, StartsAreCurrent, MicHasController, Pending, InputOp
<1>4. MicHasController'
  BY DEF InputTyped, OpsNumbered, StartsAreCurrent, MicHasController, Pending, InputOp
<1>5. InTurn'
  BY DEF InputTyped, OpsNumbered, StartsAreCurrent, InTurn, Pending, InputOp
<1>6. DeadIsShown'
  BY DEF InputTyped, OpsNumbered, StartsAreCurrent, MicHasController, DeadIsShown, InputOp
<1> QED
  BY <1>1, <1>2, <1>3, <1>4, <1>5, <1>6

\* A device change is looked at.
LEMMA InputChange == ASSUME InputInv, NEW op \in inOps, onDeviceChange(op) PROVE InputInv'
<1> USE DEF InputInv, onDeviceChange, Without, laneVars, plugVars, rollVars
<1>1. InputTyped'
  BY DEF InputTyped, OpsNumbered, InputOp, Kinds, Stages
<1>2. OpsNumbered'
  BY DEF InputTyped, OpsNumbered, Pending, InputOp
<1>3. StartsAreCurrent'
  BY DEF InputTyped, OpsNumbered, StartsAreCurrent, MicHasController, Pending, InputOp
<1>4. MicHasController'
  BY DEF InputTyped, OpsNumbered, StartsAreCurrent, MicHasController, Pending, InputOp
<1>5. InTurn'
  BY DEF InputTyped, OpsNumbered, StartsAreCurrent, InTurn, Pending, InputOp
<1>6. DeadIsShown'
  BY DEF InputTyped, OpsNumbered, StartsAreCurrent, MicHasController, DeadIsShown, InputOp
<1> QED
  BY <1>1, <1>2, <1>3, <1>4, <1>5, <1>6

\* A take starts or stops.
LEMMA InputRolls == ASSUME InputInv, TakeRolls PROVE InputInv'
<1> USE DEF InputInv, TakeRolls, laneVars, plugVars, rollVars
<1>1. InputTyped'
  BY DEF InputTyped, OpsNumbered, InputOp, Kinds, Stages
<1>2. OpsNumbered'
  BY DEF InputTyped, OpsNumbered, Pending, InputOp
<1>3. StartsAreCurrent'
  BY DEF InputTyped, OpsNumbered, StartsAreCurrent, MicHasController, Pending, InputOp
<1>4. MicHasController'
  BY DEF InputTyped, OpsNumbered, StartsAreCurrent, MicHasController, Pending, InputOp
<1>5. InTurn'
  BY DEF InputTyped, OpsNumbered, StartsAreCurrent, InTurn, Pending, InputOp
<1>6. DeadIsShown'
  BY DEF InputTyped, OpsNumbered, StartsAreCurrent, MicHasController, DeadIsShown, InputOp
<1> QED
  BY <1>1, <1>2, <1>3, <1>4, <1>5, <1>6

\* The card starts off, with nothing behind it.
LEMMA InputStarts == InputInit => InputInv
<1> SUFFICES ASSUME InputInit PROVE InputInv
  OBVIOUS
<1>1. InputTyped
  BY DEF InputInit, InputTyped
<1>2. OpsNumbered /\ StartsAreCurrent /\ InTurn
  BY DEF InputInit, OpsNumbered, StartsAreCurrent, InTurn, Pending
<1>3. MicHasController /\ DeadIsShown
  BY DEF InputInit, MicHasController, DeadIsShown
<1> QED
  BY <1>1, <1>2, <1>3 DEF InputInv

\* However resumes, picks, disables and unplugged devices overlap, the page holds at
\* most one open microphone, an off card has none, and a dead track is shown
\* (use-desk-input.ts, capture-controller.ts).
THEOREM CardNeverLies == InputSpec => []CardIsTrue
<1>1. InputInv /\ [InputNext]_inVars => InputInv'
  <2> SUFFICES ASSUME InputInv, [InputNext]_inVars PROVE InputInv'
    OBVIOUS
  <2>1. CASE UNCHANGED inVars
    BY <2>1 DEF inVars, InputInv, InputTyped, OpsNumbered, StartsAreCurrent, MicHasController, InTurn,
                DeadIsShown, Pending
  <2>2. ASSUME NEW op \in inOps, OpStep(op) PROVE InputInv'
    BY <2>2, InputProbe, InputRefresh, InputAcquire, InputFails, InputEnds, InputTeardown, InputChange
       DEF OpStep
  <2> QED
    BY <2>1, <2>2, InputClickOff, InputClosePicker, InputUseInput, InputDisable, InputUnplug,
       InputReplug, InputRolls DEF InputNext
<1>2. InputInv => CardIsTrue
  <2> SUFFICES ASSUME InputInv PROVE CardIsTrue
    OBVIOUS
  <2>1. OneMic
    <3>1. mics = {} \/ mics = {inController}
      BY DEF InputInv, MicHasController
    <3>2. Cardinality({}) = 0 /\ Cardinality({inController}) = 1
      BY FS_EmptySet, FS_Singleton
    <3> QED
      BY <3>1, <3>2 DEF OneMic
  <2>2. OffIsOff
    BY DEF InputInv, InputTyped, MicHasController, InTurn, OffIsOff
  <2> QED
    BY <2>1, <2>2 DEF InputInv, CardIsTrue
<1> QED
  BY <1>1, <1>2, InputStarts, PTL DEF InputSpec

(***************************************************************************)
(* The load queue and its flows.                                           *)
(***************************************************************************)
FTake == FlowTake \cup {NoFlowTake}
Request == [by : {"none", "desk", "flow", "restore"}, take : FTake]
Flow == [step : Nat, original : FTake, epoch : Nat, plan : Seq(FlowTake)]

FlowTyped ==
    /\ running \in Request /\ pending \in Request /\ flow \in Flow
    /\ loadedTake \in FTake /\ pickedTake \in FTake /\ flowEpoch \in Nat
    /\ pickLost \in BOOLEAN /\ stepFailed \in BOOLEAN /\ recordingNow \in BOOLEAN

\* A request that waits has one before it; nobody asks for no take.
QueueInOrder ==
    /\ pending # NoReq => running # NoReq
    /\ running.by = "none" => running = NoReq
    /\ pending.by = "none" => pending = NoReq

\* A flow has one step in the queue, within its plan.
FlowInQueue ==
    /\ "flow" \in {running.by, pending.by} => flow # NoFlow
    /\ ~(running.by = "flow" /\ pending.by = "flow")
    /\ flow = NoFlow \/ (flow.step \in 1..Len(flow.plan) /\ Len(flow.plan) = Len(Scopes))
    /\ flow.epoch <= flowEpoch

\* The last request in the queue is for the operator's pick, or belongs to a flow that
\* will bring the pick back; with an empty queue the pick is loaded.
TailIsPick ==
    (~stepFailed /\ flowEpoch = 0 /\ ~recordingNow /\ pickedTake # NoFlowTake) =>
        /\ pending.by \in {"desk", "restore"} => pending.take = pickedTake
        /\ pending = NoReq /\ running.by \in {"desk", "restore"} => running.take = pickedTake
        /\ running = NoReq /\ ~pickLost => loadedTake = pickedTake
        /\ pending.by = "flow" => flow.original = pickedTake
        /\ pending = NoReq /\ running.by = "flow" => flow.original = pickedTake

FlowInv == FlowTyped /\ QueueInOrder /\ FlowInQueue /\ TailIsPick

\* The plan has every scope, each a take.
LEMMA PlanHasScopes ==
    ASSUME loadedTake \in FTake
    PROVE  /\ planAlignScopes \in Seq(FlowTake) /\ Len(planAlignScopes) = Len(Scopes)
           /\ Len(Scopes) \in Nat \ {0} /\ planAlignScopes[1] \in FlowTake
<1>1. /\ Scopes \in Seq(FlowTake) /\ Len(Scopes) \in Nat \ {0} /\ DOMAIN Scopes = 1..Len(Scopes)
      /\ \A i \in 1..Len(Scopes) : Scopes[i] \in FlowTake
  BY FlowAssumption
<1>2. CASE \A i \in DOMAIN Scopes : Scopes[i] # loadedTake
  BY <1>1, <1>2 DEF planAlignScopes
<1>3. CASE \E i \in DOMAIN Scopes : Scopes[i] = loadedTake
  <2> DEFINE n == CHOOSE i \in DOMAIN Scopes : Scopes[i] = loadedTake
             p == [i \in 1..Len(Scopes) |-> IF i = 1 THEN loadedTake
                                            ELSE IF i <= n THEN Scopes[i - 1] ELSE Scopes[i]]
  <2>1. n \in 1..Len(Scopes) /\ loadedTake \in FlowTake
    BY <1>1, <1>3
  <2>2. planAlignScopes = p
    BY <1>1, <1>3 DEF planAlignScopes
  <2> HIDE DEF n
  <2>3. \A i \in 1..Len(Scopes) : p[i] \in FlowTake
    BY <1>1, <2>1
  <2>4. p \in [1..Len(Scopes) -> FlowTake]
    BY <2>3
  <2> HIDE DEF p
  <2>5. p \in Seq(FlowTake) /\ Len(p) = Len(Scopes)
    BY <1>1, <2>4
  <2> QED
    BY <1>1, <2>2, <2>4, <2>5
<1> QED
  BY <1>2, <1>3

\* A request of the desk for the pick, while no take is recorded.
LEMMA DeskAsks ==
    ASSUME FlowInv, NEW t \in FlowTake, Enqueue([by |-> "desk", take |-> t], flow), pickedTake' = t,
           UNCHANGED <<loadedTake, stepFailed, flowEpoch>>,
           pickLost' \in BOOLEAN, recordingNow' \in BOOLEAN
    PROVE  FlowInv'
<1> DEFINE req == [by |-> "desk", take |-> t]
<1>1. req \in Request /\ req.by = "desk" /\ req.take = t /\ req # NoReq /\ NoFlow \in Flow
      /\ NoReq \in Request /\ NoReq.by = "none" /\ NoFlow.epoch = 0 /\ t # NoFlowTake
  BY FlowAssumption DEF Request, FTake, Flow, NoReq, NoFlow
<1>2. \/ running = NoReq /\ running' = req /\ pending' = pending /\ flow' = flow
      \/ /\ running # NoReq /\ pending' = req /\ running' = running
         /\ flow' = IF pending.by = "flow" THEN NoFlow ELSE flow
  BY DEF Enqueue
<1> HIDE DEF req
<1>3. FlowTyped'
  BY <1>1, <1>2 DEF FlowInv, FlowTyped, FTake
<1>4. QueueInOrder'
  BY <1>1, <1>2 DEF FlowInv, QueueInOrder
<1>5. FlowInQueue'
  BY <1>1, <1>2 DEF FlowInv, FlowTyped, FlowInQueue, QueueInOrder
<1>6. TailIsPick'
  BY <1>1, <1>2 DEF FlowInv, QueueInOrder, TailIsPick
<1> QED
  BY <1>3, <1>4, <1>5, <1>6 DEF FlowInv

\* The pick changes while a take is recorded: nothing is asked for yet.
LEMMA PickKeeps == ASSUME FlowInv, NEW t \in FlowTake, PickToLoad(t) PROVE FlowInv'
<1>1. /\ pickedTake' = t /\ pickLost' = FALSE
      /\ UNCHANGED <<loadedTake, stepFailed, recordingNow, flowEpoch>>
  BY DEF PickToLoad
<1>2. CASE recordingNow
  <2>1. UNCHANGED <<running, pending, flow>>
    BY <1>2 DEF PickToLoad
  <2> QED
    BY <1>1, <1>2, <2>1 DEF FlowInv, FlowTyped, FTake, QueueInOrder, FlowInQueue, TailIsPick
<1>3. CASE ~recordingNow
  <2>1. Enqueue([by |-> "desk", take |-> t], flow) /\ recordingNow' \in BOOLEAN /\ pickLost' \in BOOLEAN
    BY <1>1, <1>3 DEF PickToLoad, FlowInv, FlowTyped
  <2> QED
    BY <1>1, <2>1, DeskAsks
<1> QED
  BY <1>2, <1>3

\* The recording ends: the pick is asked for again.
LEMMA RecordingKeeps == ASSUME FlowInv, RecordingStarts \/ RecordingStops PROVE FlowInv'
<1>1. CASE RecordingStarts
  BY <1>1 DEF RecordingStarts, FlowInv, FlowTyped, QueueInOrder, FlowInQueue, TailIsPick
<1>2. CASE RecordingStops /\ pickedTake = NoFlowTake
  BY <1>2 DEF RecordingStops, FlowInv, FlowTyped, QueueInOrder, FlowInQueue, TailIsPick
<1>3. CASE RecordingStops /\ pickedTake # NoFlowTake
  <2> DEFINE t == pickedTake
  <2>1. /\ Enqueue([by |-> "desk", take |-> t], flow) /\ pickedTake' = t /\ t \in FlowTake
        /\ UNCHANGED <<loadedTake, stepFailed, flowEpoch>>
        /\ pickLost' \in BOOLEAN /\ recordingNow' \in BOOLEAN
    BY <1>3 DEF RecordingStops, FlowInv, FlowTyped, FTake
  <2> HIDE DEF t
  <2> QED
    BY <2>1, DeskAsks
<1> QED
  BY <1>1, <1>2, <1>3

\* A flow starts from the pick, which is loaded.
LEMMA StartFlowKeeps == ASSUME FlowInv, StartFlow PROVE FlowInv'
<1> DEFINE plan == planAlignScopes
           req == [by |-> "flow", take |-> plan[1]]
           f == [step |-> 1, original |-> loadedTake, epoch |-> flowEpoch, plan |-> plan]
<1>1. /\ flow = NoFlow /\ loadedTake = pickedTake /\ stepFailed' = FALSE /\ Enqueue(req, f)
      /\ UNCHANGED <<loadedTake, pickedTake, pickLost, recordingNow, flowEpoch>>
  BY DEF StartFlow
<1>2. /\ plan \in Seq(FlowTake) /\ Len(plan) = Len(Scopes) /\ 1 \in 1..Len(Scopes)
      /\ plan[1] \in FlowTake
  BY PlanHasScopes DEF FlowInv, FlowTyped
<1>3. /\ running.by # "flow" /\ pending.by # "flow" /\ loadedTake \in FTake /\ flowEpoch \in Nat
  BY <1>1 DEF FlowInv, FlowTyped, FlowInQueue
<1> HIDE DEF plan
<1>4. /\ req \in Request /\ req.by = "flow" /\ req # NoReq
      /\ f \in Flow /\ f.step = 1 /\ f.original = loadedTake /\ f.epoch = flowEpoch /\ f.plan = plan
  BY <1>2, <1>3 DEF Request, Flow, FTake, NoReq
<1>5. f # NoFlow
  BY <1>4 DEF NoFlow
<1> HIDE DEF req, f
<1>6. /\ flow' = f
      /\ \/ running = NoReq /\ running' = req /\ pending' = pending
         \/ running # NoReq /\ pending' = req /\ running' = running
  BY <1>1, <1>3 DEF Enqueue
<1>7. FlowTyped'
  BY <1>1, <1>4, <1>6 DEF FlowInv, FlowTyped
<1>8. QueueInOrder'
  BY <1>4, <1>6 DEF FlowInv, QueueInOrder
<1>9. FlowInQueue'
  BY <1>1, <1>2, <1>3, <1>4, <1>5, <1>6 DEF FlowInQueue
<1>10. TailIsPick'
  <2>1. NoReq.by = "none"
    BY DEF NoReq
  <2> QED
    BY <1>1, <1>3, <1>4, <1>6, <2>1 DEF FlowInv, QueueInOrder, TailIsPick
<1> QED
  BY <1>7, <1>8, <1>9, <1>10 DEF FlowInv

\* A request settles: the queue goes on, with the flow's next step or the restore when
\* a flow waited for this one.
LEMMA SettleKeeps == ASSUME FlowInv, NEW ok \in BOOLEAN, SettleLoad(ok) PROVE FlowInv'
<1> DEFINE now == IF ok THEN running.take ELSE loadedTake
           status == IF ~ok THEN "failed" ELSE IF pending # NoReq THEN "superseded" ELSE "ok"
           after == AfterStep(status, now)
<1>1. /\ running # NoReq /\ loadedTake' = now /\ pending' = NoReq
      /\ UNCHANGED <<pickedTake, recordingNow, flowEpoch>>
      /\ stepFailed' = (stepFailed \/ (running.by = "flow" /\ ~ok))
      /\ pickLost' = IF running.by = "desk" /\ running.take = pickedTake THEN ~ok
                     ELSE IF running.by = "restore" /\ ~ok THEN TRUE ELSE pickLost
  BY DEF SettleLoad
<1>2. /\ NoReq \in Request /\ NoReq.by = "none" /\ NoFlow \in Flow /\ NoFlow.epoch = 0
      /\ now \in FTake
  BY DEF Request, Flow, FTake, NoReq, NoFlow, FlowInv, FlowTyped
<1>3. pickLost' \in BOOLEAN /\ stepFailed' \in BOOLEAN
  BY <1>1 DEF FlowInv, FlowTyped
<1>4. CASE running.by # "flow"
  <2>1. running' = pending /\ flow' = flow
    BY <1>4 DEF SettleLoad
  <2>2. FlowTyped'
    BY <1>1, <1>2, <1>3, <2>1 DEF FlowInv, FlowTyped
  <2>3. QueueInOrder' /\ FlowInQueue'
    BY <1>1, <1>2, <2>1 DEF FlowInv, QueueInOrder, FlowInQueue
  <2>4. TailIsPick'
    <3> SUFFICES ASSUME ~stepFailed', flowEpoch = 0, ~recordingNow, pickedTake # NoFlowTake
                 PROVE  TailIsPick'
      BY <1>1 DEF TailIsPick
    <3>1. ~stepFailed
      BY <1>1
    <3>2. running' = NoReq /\ ~pickLost' => loadedTake' = pickedTake'
      <4> SUFFICES ASSUME pending = NoReq, ~pickLost' PROVE now = pickedTake
        BY <1>1, <2>1
      <4>1. running.by \in {"desk", "restore"}
        BY <1>1, <1>4 DEF FlowInv, FlowTyped, Request, QueueInOrder
      <4>2. running.take = pickedTake
        BY <3>1, <4>1 DEF FlowInv, TailIsPick
      <4>3. ok
        BY <1>1, <4>1, <4>2
      <4> QED
        BY <4>2, <4>3
    <3> QED
      BY <1>1, <1>2, <2>1, <3>1, <3>2 DEF FlowInv, TailIsPick
  <2> QED
    BY <2>2, <2>3, <2>4 DEF FlowInv
<1>5. CASE running.by = "flow"
  <2>1. /\ flow' = after.flow
        /\ running' = IF after.next = NoReq THEN pending ELSE after.next
    BY <1>5 DEF SettleLoad
  <2>2. flow # NoFlow /\ pending.by # "flow" /\ flow.step \in 1..Len(Scopes)
        /\ Len(flow.plan) = Len(Scopes) /\ flow \in Flow
    BY <1>5 DEF FlowInv, FlowTyped, FlowInQueue
  <2>3. CASE status = "superseded" \/ flowCancelled
    <3>1. flow' = NoFlow /\ running' = pending
      BY <2>1, <2>3 DEF AfterStep
    <3>2. FlowTyped'
      BY <1>1, <1>2, <1>3, <3>1 DEF FlowInv, FlowTyped
    <3>3. QueueInOrder' /\ FlowInQueue'
      BY <1>1, <1>2, <2>2, <3>1 DEF FlowInv, FlowTyped, QueueInOrder, FlowInQueue
    <3>4. TailIsPick'
      <4> SUFFICES ASSUME ~stepFailed', flowEpoch = 0, ~recordingNow, pickedTake # NoFlowTake
                   PROVE  TailIsPick'
        BY <1>1 DEF TailIsPick
      <4>1. ~stepFailed /\ ok
        BY <1>1, <1>5
      <4>2. flow.epoch = 0
        BY DEF FlowInv, FlowTyped, Flow, FlowInQueue
      <4>3. pending # NoReq
        BY <2>3, <4>1, <4>2 DEF flowCancelled
      <4> QED
        BY <1>1, <1>2, <2>2, <3>1, <4>1, <4>3 DEF FlowInv, QueueInOrder, TailIsPick
    <3> QED
      BY <3>2, <3>3, <3>4 DEF FlowInv
  <2>4. CASE ~(status = "superseded" \/ flowCancelled) /\ flow.step < Len(flow.plan)
    <3> DEFINE k == flow.step + 1
               req == [by |-> "flow", take |-> flow.plan[k]]
               f == [flow EXCEPT !.step = k]
    <3>1. flow' = f /\ after.next = req
      BY <2>1, <2>4 DEF AfterStep
    <3>2. k \in 1..Len(flow.plan) /\ k \in Nat /\ flow.plan[k] \in FlowTake
      BY <2>2, <2>4 DEF Flow
    <3> HIDE DEF k
    <3>3. req \in Request /\ req.by = "flow" /\ req # NoReq
      BY <3>2 DEF Request, FTake, NoReq
    <3>4. /\ f \in Flow /\ f.step = k /\ f.plan = flow.plan /\ f.epoch = flow.epoch
          /\ f.original = flow.original
      BY <2>2, <3>2 DEF Flow
    <3>5. f # NoFlow
      BY <3>2, <3>4 DEF NoFlow
    <3>6. running' = req
      BY <2>1, <3>1, <3>3
    <3> HIDE DEF req, f
    <3>7. FlowTyped'
      BY <1>1, <1>2, <1>3, <3>1, <3>3, <3>4, <3>6 DEF FlowInv, FlowTyped
    <3>8. QueueInOrder' /\ FlowInQueue'
      BY <1>1, <1>2, <2>2, <3>1, <3>2, <3>3, <3>4, <3>5, <3>6 DEF FlowInv, QueueInOrder, FlowInQueue
    <3>9. TailIsPick'
      <4> SUFFICES ASSUME ~stepFailed', flowEpoch = 0, ~recordingNow, pickedTake # NoFlowTake
                   PROVE  TailIsPick'
        BY <1>1 DEF TailIsPick
      <4>1. ~stepFailed /\ ok
        BY <1>1, <1>5
      <4>2. pending = NoReq
        BY <2>4, <4>1
      <4>3. flow.original = pickedTake
        BY <1>5, <4>1, <4>2 DEF FlowInv, TailIsPick
      <4> QED
        BY <1>1, <1>2, <3>1, <3>3, <3>4, <3>6, <4>3 DEF TailIsPick
    <3> QED
      BY <3>7, <3>8, <3>9 DEF FlowInv
  <2>5. CASE ~(status = "superseded" \/ flowCancelled) /\ ~(flow.step < Len(flow.plan))
    <3> DEFINE back == [by |-> "restore", take |-> flow.original]
    <3>1. /\ flow' = NoFlow
          /\ after.next = IF now = flow.original THEN NoReq ELSE back
      BY <2>1, <2>5 DEF AfterStep
    <3>2. back \in Request /\ back.by = "restore" /\ back.take = flow.original /\ back # NoReq
      BY <2>2 DEF Request, Flow, NoReq
    <3> HIDE DEF back
    <3>3. running' = IF now = flow.original THEN pending ELSE back
      BY <2>1, <3>1, <3>2
    <3>4. FlowTyped'
      BY <1>1, <1>2, <1>3, <3>1, <3>2, <3>3 DEF FlowInv, FlowTyped
    <3>5. QueueInOrder' /\ FlowInQueue'
      BY <1>1, <1>2, <2>2, <3>1, <3>2, <3>3 DEF FlowInv, FlowTyped, QueueInOrder, FlowInQueue
    <3>6. TailIsPick'
      <4> SUFFICES ASSUME ~stepFailed', flowEpoch = 0, ~recordingNow, pickedTake # NoFlowTake
                   PROVE  TailIsPick'
        BY <1>1 DEF TailIsPick
      <4>1. ~stepFailed /\ ok
        BY <1>1, <1>5
      <4>2. pending = NoReq
        BY <2>5, <4>1
      <4>3. flow.original = pickedTake
        BY <1>5, <4>1, <4>2 DEF FlowInv, TailIsPick
      <4> QED
        BY <1>1, <1>2, <3>2, <3>3, <4>2, <4>3 DEF TailIsPick
    <3> QED
      BY <3>4, <3>5, <3>6 DEF FlowInv
  <2> QED
    BY <2>3, <2>4, <2>5
<1> QED
  BY <1>4, <1>5

\* The queue starts empty.
LEMMA FlowStarts == FlowInit => FlowInv
<1> SUFFICES ASSUME FlowInit PROVE FlowInv
  OBVIOUS
<1>1. NoReq \in Request /\ NoReq.by = "none" /\ NoFlow \in Flow /\ NoFlow.epoch = 0
  BY DEF Request, Flow, FTake, NoReq, NoFlow
<1>2. FlowTyped
  BY <1>1 DEF FlowInit, FlowTyped, FTake
<1>3. QueueInOrder /\ FlowInQueue /\ TailIsPick
  BY <1>1 DEF FlowInit, QueueInOrder, FlowInQueue, TailIsPick
<1> QED
  BY <1>2, <1>3 DEF FlowInv

\* The operator's newest pick is what is loaded once the queue is at rest, whatever
\* flow it met, and a step that is queued has a flow that waits for it, as long as no
\* step of a flow failed to load (align-flow.ts, load-queue.ts).
THEOREM PickAlwaysServed == FlowSpec => []PickIsServed
<1>1. FlowInv /\ [FlowNext]_flowVars => FlowInv'
  <2> SUFFICES ASSUME FlowInv, [FlowNext]_flowVars PROVE FlowInv'
    OBVIOUS
  <2>1. CASE UNCHANGED flowVars
    BY <2>1 DEF flowVars, FlowInv, FlowTyped, QueueInOrder, FlowInQueue, TailIsPick
  <2>2. CASE LeaveSession
    BY <2>2 DEF LeaveSession, FlowInv, FlowTyped, QueueInOrder, FlowInQueue, TailIsPick
  <2> QED
    BY <2>1, <2>2, PickKeeps, RecordingKeeps, StartFlowKeeps, SettleKeeps DEF FlowNext
<1>2. FlowInv => PickIsServed
  <2> SUFFICES ASSUME FlowInv PROVE PickIsServed
    OBVIOUS
  <2>1. FlowTypeOK
    <3>1. NoFlow.step = 0 /\ Len(Scopes) \in Nat
      BY FlowAssumption DEF NoFlow
    <3> QED
      BY <3>1 DEF FlowInv, FlowInQueue, QueueInOrder, FlowTypeOK
  <2>2. PickWins
    BY DEF FlowInv, TailIsPick, PickWins, NewestPickLoads, QueueIdle
  <2> QED
    BY <2>1, <2>2 DEF PickIsServed
<1> QED
  BY <1>1, <1>2, FlowStarts, PTL DEF FlowSpec

(***************************************************************************)
(* The two stores of a verdict.                                            *)
(***************************************************************************)
Rec == [at : Nat, by : StoreDesk \cup {"none"}]
Entry == [rec : Rec, rank : Nat]
DeskStates == {"out", "in", "loading", "aligning"}

StoreTyped ==
    /\ docOf \in [Replica -> Entry]
    /\ shadow \in [StoreDesk -> Rec] /\ inForce \in [StoreDesk -> Rec \cup {HalfMeasured}]
    /\ deskState \in [StoreDesk -> DeskStates]
    /\ ranks \subseteq Nat /\ time \in Nat \ {0}

\* An entry that was written holds a verdict.
EntriesHold == \A r \in Replica : docOf[r].rank # 0 => docOf[r].rec.at # 0

\* A desk that has the take, and did not slip, applies what its own replica says, and its
\* shadow is not newer; nor is the shadow of a desk that has read its stores, or has an
\* entry.
DeskInStep ==
    \A d \in StoreDesk :
        /\ deskState[d] # "out" /\ d \notin slipped =>
               inForce[d] = docOf[d].rec /\ shadow[d].at <= docOf[d].rec.at
        /\ docOf[d].rank # 0 \/ d \notin unread => shadow[d].at <= docOf[d].rec.at

StoreInv == StoreTyped /\ StoreTypeOK /\ EntriesHold /\ DeskInStep

\* The record that wins is one of the two, and neither is newer.
LEMMA WinnerWins ==
    ASSUME NEW a \in Rec, NEW b \in Rec
    PROVE  /\ Winner(a, b) \in {a, b} /\ Winner(a, b) \in Rec
           /\ a.at <= Winner(a, b).at /\ b.at <= Winner(a, b).at
           /\ b.at # 0 => Winner(a, b).at # 0
BY DEF Winner, Rec

\* Writing a verdict to a replica, where it differs: the entry has it, and its rank is in use.
LEMMA WriteDoc ==
    ASSUME StoreInv, NEW d \in StoreDesk, NEW rec \in Rec, NEW entry \in Entry,
           entry.rank \in ranks \cup {0}, entry.rank # 0 => entry.rec.at # 0,
           writeDocAlignmentIfChanged(d, rec, entry), entry.rec # rec => rec.at # 0
    PROVE  /\ docOf' \in [Replica -> Entry] /\ docOf'[d].rec = rec
           /\ \A r \in Replica : r # d => docOf'[r] = docOf[r]
           /\ docOf'[d].rank # 0 => docOf'[d].rec.at # 0
           /\ ranks \subseteq ranks' /\ ranks' \subseteq Nat
           /\ \A r \in Replica : docOf'[r].rank \in ranks' \cup {0}
<1>1. StoreTyped /\ d \in Replica /\ \A r \in Replica : docOf[r].rank \in ranks \cup {0}
  BY DEF StoreInv, StoreTypeOK, Replica
<1>2. CASE entry.rec = rec
  BY <1>1, <1>2 DEF writeDocAlignmentIfChanged, StoreTyped
<1>3. CASE entry.rec # rec
  <2>1. PICK k \in 1..MaxRank : /\ docOf' = [docOf EXCEPT ![d] = [rec |-> rec, rank |-> k]]
                                /\ ranks' = ranks \cup {k}
    BY <1>3 DEF writeDocAlignmentIfChanged
  <2> DEFINE e == [rec |-> rec, rank |-> k]
  <2>2. k \in Nat
    BY <2>1, StoreAssumption
  <2>3. e \in Entry /\ e.rec = rec /\ e.rank = k
    BY <2>2 DEF Entry
  <2>4. docOf' = [docOf EXCEPT ![d] = e]
    BY <2>1
  <2> HIDE DEF e
  <2> QED
    BY <1>1, <1>3, <2>1, <2>2, <2>3, <2>4 DEF StoreTyped
<1> QED
  BY <1>2, <1>3

\* A desk reconciles the two layers on an entry it has or receives.
LEMMA ReconcileKeeps ==
    ASSUME StoreInv, NEW d \in StoreDesk, NEW entry \in Entry, reconcile(d, entry),
           entry.rank \in ranks \cup {0}, entry.rank # 0 => entry.rec.at # 0
    PROVE  /\ docOf' \in [Replica -> Entry] /\ docOf'[d].rec = Winner(shadow[d], entry.rec)
           /\ \A r \in Replica : r # d => docOf'[r] = docOf[r]
           /\ docOf'[d].rank # 0 => docOf'[d].rec.at # 0
           /\ ranks \subseteq ranks' /\ ranks' \subseteq Nat
           /\ \A r \in Replica : docOf'[r].rank \in ranks' \cup {0}
           /\ shadow' \in [StoreDesk -> Rec] /\ \A c \in Shadowless : shadow'[c] = NoRecord
           /\ shadow'[d].at <= docOf'[d].rec.at
           /\ \A c \in StoreDesk : c # d => shadow'[c] = shadow[c]
<1> DEFINE w == Winner(shadow[d], entry.rec)
<1>1. /\ shadow[d] \in Rec /\ entry.rec \in Rec /\ shadow \in [StoreDesk -> Rec]
      /\ \A c \in Shadowless : shadow[c] = NoRecord
  BY DEF StoreInv, StoreTyped, StoreTypeOK, Entry
<1>2. /\ w \in {shadow[d], entry.rec} /\ w \in Rec /\ shadow[d].at <= w.at /\ entry.rec.at <= w.at
  BY <1>1, WinnerWins
<1>3. entry.rec # w => w.at # 0
  BY <1>1 DEF Winner, Rec
<1>4. writeDocAlignmentIfChanged(d, w, entry) /\ saveLocalAlignment(d, w)
  BY DEF reconcile
<1> HIDE DEF w
<1>5. /\ docOf' \in [Replica -> Entry] /\ docOf'[d].rec = w
      /\ \A r \in Replica : r # d => docOf'[r] = docOf[r]
      /\ docOf'[d].rank # 0 => docOf'[d].rec.at # 0
      /\ ranks \subseteq ranks' /\ ranks' \subseteq Nat
      /\ \A r \in Replica : docOf'[r].rank \in ranks' \cup {0}
  BY <1>2, <1>3, <1>4, WriteDoc
<1>6. /\ shadow' \in [StoreDesk -> Rec] /\ \A c \in Shadowless : shadow'[c] = NoRecord
      /\ \A c \in StoreDesk : c # d => shadow'[c] = shadow[c]
      /\ shadow'[d] = w \/ shadow'[d] = shadow[d]
  BY <1>1, <1>2, <1>4, StoreAssumption DEF saveLocalAlignment
<1>7. shadow'[d].at <= w.at
  BY <1>2, <1>6 DEF Rec
<1> QED
  BY <1>5, <1>6, <1>7 DEF w

\* What a step of one desk that reads or writes its stores must leave.
LEMMA DeskStepKeeps ==
    ASSUME StoreInv, NEW d \in StoreDesk,
           docOf' \in [Replica -> Entry], \A r \in Replica : r # d => docOf'[r] = docOf[r],
           docOf'[d].rank # 0 => docOf'[d].rec.at # 0,
           ranks' \subseteq Nat, \A r \in Replica : docOf'[r].rank \in ranks' \cup {0},
           shadow' \in [StoreDesk -> Rec], \A c \in Shadowless : shadow'[c] = NoRecord,
           \A c \in StoreDesk : c # d => shadow'[c] = shadow[c],
           inForce' \in [StoreDesk -> Rec \cup {HalfMeasured}],
           \A c \in StoreDesk : c # d => inForce'[c] = inForce[c],
           deskState' \in [StoreDesk -> DeskStates],
           \A c \in StoreDesk : c # d => deskState'[c] = deskState[c],
           unread' = unread \ {d}, slipped' = slipped \/ slipped' = slipped \ {d}
                                   \/ (slipped' = slipped \cup {d} /\ deskState'[d] # "out"),
           deskState'[d] = "out" => inForce'[d] = NoRecord /\ deskState[d] = "out",
           deskState'[d] # "out" /\ d \notin slipped' => inForce'[d] = docOf'[d].rec,
           shadow'[d].at <= docOf'[d].rec.at, time' = time
    PROVE  StoreInv'
<1>1. StoreTyped'
  BY DEF StoreInv, StoreTyped
<1>2. EntriesHold'
  BY DEF StoreInv, EntriesHold
<1>3. StoreTypeOK'
  BY DEF StoreInv, StoreTypeOK
<1>4. DeskInStep'
  BY DEF StoreInv, DeskInStep, Replica
<1> QED
  BY <1>1, <1>2, <1>3, <1>4 DEF StoreInv

\* What a step of one desk that leaves its stores alone must leave.
LEMMA PlayerStepKeeps ==
    ASSUME StoreInv, NEW d \in StoreDesk,
           UNCHANGED <<docOf, shadow, ranks, unread, time>>,
           NEW m \in Rec \cup {HalfMeasured}, inForce' = [inForce EXCEPT ![d] = m],
           NEW at \in DeskStates, deskState' = [deskState EXCEPT ![d] = at],
           slipped' \subseteq StoreDesk, \A c \in StoreDesk : c # d => (c \in slipped' <=> c \in slipped),
           at = "out" => m = NoRecord /\ d \notin slipped',
           at # "out" /\ d \notin slipped' => m = docOf[d].rec /\ shadow[d].at <= docOf[d].rec.at
    PROVE  StoreInv'
<1>0. StoreTyped /\ StoreTypeOK /\ EntriesHold /\ DeskInStep
  BY DEF StoreInv
<1>1. /\ deskState'[d] = at /\ inForce'[d] = m
      /\ \A c \in StoreDesk : c # d => deskState'[c] = deskState[c] /\ inForce'[c] = inForce[c]
  BY <1>0 DEF StoreTyped
<1>2. StoreTyped'
  BY <1>0 DEF StoreTyped
<1>3. StoreTypeOK' /\ EntriesHold'
  BY <1>0, <1>1 DEF StoreTypeOK, EntriesHold
<1>4. DeskInStep'
  BY <1>0, <1>1 DEF DeskInStep
<1> QED
  BY <1>2, <1>3, <1>4 DEF StoreInv

\* A desk that did not slip reads back what it has.
LEMMA ReadBack ==
    ASSUME StoreInv, NEW d \in StoreDesk, deskState[d] # "out", d \notin slipped
    PROVE  Winner(shadow[d], docOf[d].rec) = inForce[d] /\ inForce[d] = docOf[d].rec
<1>1. /\ inForce[d] = docOf[d].rec /\ shadow[d].at <= docOf[d].rec.at
      /\ shadow[d].at \in Nat /\ docOf[d].rec.at \in Nat
  BY DEF StoreInv, StoreTyped, DeskInStep, Replica, Rec, Entry
<1> QED
  BY <1>1 DEF Winner

\* Every step of every desk keeps the two stores in step.
LEMMA StoreStep == StoreInv /\ [StoreNext]_storeVars => StoreInv'
<1> SUFFICES ASSUME StoreInv, [StoreNext]_storeVars PROVE StoreInv'
  OBVIOUS
<1>0. /\ StoreTyped /\ StoreTypeOK /\ EntriesHold /\ DeskInStep
      /\ StoreDesk \subseteq Replica /\ "server" \in Replica
      /\ NoRecord \in Rec /\ NoRecord.at = 0
  BY DEF StoreInv, Replica, NoRecord, Rec
<1>1. CASE UNCHANGED storeVars
  BY <1>1 DEF storeVars, StoreInv, StoreTyped, StoreTypeOK, EntriesHold, DeskInStep
<1>2. ASSUME NEW d \in StoreDesk, LoadAndRestore(d) \/ ReadVerdict(d) PROVE StoreInv'
  <2> DEFINE entry == docOf[d]
             w == Winner(shadow[d], entry.rec)
  <2>1. entry \in Entry /\ entry.rank \in ranks \cup {0} /\ (entry.rank # 0 => entry.rec.at # 0)
    BY <1>0 DEF StoreTyped, StoreTypeOK, EntriesHold
  <2>2. reconcile(d, entry) /\ time' = time /\ unread' = unread \ {d}
    BY <1>2 DEF LoadAndRestore, ReadVerdict, reconcile
  <2>3. w \in Rec
    BY <1>0, <2>1, WinnerWins DEF StoreTyped, Entry
  <2>a. deskState[d] # "out" /\ d \notin slipped => w = inForce[d]
    BY ReadBack
  <2>b. deskState[d] = "out" => inForce[d] = NoRecord /\ d \notin slipped
    BY <1>0 DEF StoreTypeOK
  <2> HIDE DEF entry
  <2>4. /\ docOf' \in [Replica -> Entry] /\ docOf'[d].rec = w
        /\ \A r \in Replica : r # d => docOf'[r] = docOf[r]
        /\ docOf'[d].rank # 0 => docOf'[d].rec.at # 0
        /\ ranks' \subseteq Nat /\ \A r \in Replica : docOf'[r].rank \in ranks' \cup {0}
        /\ shadow' \in [StoreDesk -> Rec] /\ \A c \in Shadowless : shadow'[c] = NoRecord
        /\ shadow'[d].at <= docOf'[d].rec.at
        /\ \A c \in StoreDesk : c # d => shadow'[c] = shadow[c]
    BY <2>1, <2>2, ReconcileKeeps
  <2>5. CASE LoadAndRestore(d)
    <3>1. /\ deskState' = [deskState EXCEPT ![d] = "in"]
          /\ IF w = NoRecord THEN UNCHANGED <<inForce, slipped>>
             ELSE inForce' = [inForce EXCEPT ![d] = w] /\ slipped' = slipped \ {d}
      BY <2>5 DEF LoadAndRestore, entry
    <3> HIDE DEF w
    <3>2. /\ deskState' \in [StoreDesk -> DeskStates] /\ deskState'[d] = "in"
          /\ \A c \in StoreDesk : c # d => deskState'[c] = deskState[c]
      BY <1>0, <3>1 DEF StoreTyped, DeskStates
    <3>3. /\ inForce' \in [StoreDesk -> Rec \cup {HalfMeasured}]
          /\ \A c \in StoreDesk : c # d => inForce'[c] = inForce[c]
          /\ slipped' = slipped \/ slipped' = slipped \ {d}
          /\ d \notin slipped' => inForce'[d] = w
      BY <1>0, <2>3, <2>a, <2>b, <3>1 DEF StoreTyped
    <3> QED
      BY <2>2, <2>4, <3>2, <3>3, DeskStepKeeps
  <2>6. CASE ReadVerdict(d)
    <3>1. UNCHANGED <<inForce, deskState, slipped>>
      BY <2>6 DEF ReadVerdict
    <3> HIDE DEF w
    <3>2. /\ deskState' \in [StoreDesk -> DeskStates] /\ inForce' \in [StoreDesk -> Rec \cup {HalfMeasured}]
          /\ deskState'[d] = "out" => inForce'[d] = NoRecord /\ deskState[d] = "out"
          /\ deskState'[d] # "out" /\ d \notin slipped' => inForce'[d] = w
      BY <1>0, <2>a, <2>b, <3>1 DEF StoreTyped
    <3> QED
      BY <2>2, <2>4, <3>1, <3>2, DeskStepKeeps
  <2> QED
    BY <1>2, <2>5, <2>6
<1>3. ASSUME NEW d \in StoreDesk,
             \/ StartAlign(d) \/ StartLoad(d) \/ DecodeFails(d)
             \/ OtherTakeLoads(d) \/ LoadSuperseded(d) \/ AlignFails(d)
      PROVE  StoreInv'
  <2>1. /\ inForce = [inForce EXCEPT ![d] = inForce[d]] /\ inForce[d] \in Rec \cup {HalfMeasured}
        /\ NoRecord \in Rec \cup {HalfMeasured} /\ slipped \subseteq StoreDesk
    BY <1>0 DEF StoreTyped, StoreTypeOK
  <2>2. deskState[d] # "out" /\ d \notin slipped
            => inForce[d] = docOf[d].rec /\ shadow[d].at <= docOf[d].rec.at
    BY <1>0 DEF DeskInStep
  <2>3. CASE StartAlign(d) \/ StartLoad(d) \/ DecodeFails(d)
    <3>1. PICK at \in {"in", "loading", "aligning"} :
             /\ deskState[d] # "out" /\ deskState' = [deskState EXCEPT ![d] = at]
             /\ UNCHANGED <<docOf, shadow, inForce, ranks, time, unread, slipped>>
      BY <2>3 DEF StartAlign, StartLoad, DecodeFails
    <3> QED
      BY <2>1, <2>2, <3>1, PlayerStepKeeps DEF DeskStates
  <2>4. CASE OtherTakeLoads(d)
    <3>1. /\ deskState' = [deskState EXCEPT ![d] = "out"] /\ inForce' = [inForce EXCEPT ![d] = NoRecord]
          /\ slipped' = slipped \ {d} /\ UNCHANGED <<docOf, shadow, ranks, time, unread>>
      BY <2>4 DEF OtherTakeLoads
    <3> QED
      BY <2>1, <3>1, PlayerStepKeeps DEF DeskStates
  <2>5. CASE LoadSuperseded(d)
    <3>1. /\ deskState' = [deskState EXCEPT ![d] = "loading"] /\ slipped' = slipped \cup {d}
          /\ UNCHANGED <<docOf, shadow, inForce, ranks, time, unread>>
      BY <2>5 DEF LoadSuperseded
    <3> QED
      BY <2>1, <3>1, PlayerStepKeeps DEF DeskStates
  <2>6. CASE AlignFails(d)
    <3>1. /\ deskState[d] # "out" /\ deskState' = [deskState EXCEPT ![d] = "in"]
          /\ UNCHANGED <<docOf, shadow, ranks, time, unread>>
      BY <2>6 DEF AlignFails
    <3>2. CASE UNCHANGED <<inForce, slipped>>
      BY <2>1, <2>2, <3>1, <3>2, PlayerStepKeeps DEF DeskStates
    <3>3. CASE inForce' = [inForce EXCEPT ![d] = HalfMeasured] /\ slipped' = slipped \cup {d}
      BY <2>1, <3>1, <3>3, PlayerStepKeeps DEF DeskStates
    <3> QED
      BY <2>6, <3>2, <3>3 DEF AlignFails
  <2> QED
    BY <1>3, <2>3, <2>4, <2>5, <2>6
<1>4. ASSUME NEW d \in StoreDesk, AlignSettles(d) PROVE StoreInv'
  <2> DEFINE rec == [at |-> time + Skew[d], by |-> d]
  <2>1. /\ writeDocAlignmentIfChanged(d, rec, docOf[d]) /\ saveLocalAlignment(d, rec)
        /\ inForce' = [inForce EXCEPT ![d] = rec]
        /\ deskState' = [deskState EXCEPT ![d] = "in"] /\ time' = time
        /\ unread' = unread \ {d} /\ slipped' = slipped \ {d}
    BY <1>4 DEF AlignSettles
  <2>2. rec \in Rec /\ rec.at # 0
    BY <1>0, StoreAssumption DEF StoreTyped, Rec
  <2>3. docOf[d] \in Entry /\ docOf[d].rank \in ranks \cup {0} /\ (docOf[d].rank # 0 => docOf[d].rec.at # 0)
    BY <1>0 DEF StoreTyped, StoreTypeOK, EntriesHold
  <2> HIDE DEF rec
  <2>4. /\ docOf' \in [Replica -> Entry] /\ docOf'[d].rec = rec
        /\ \A r \in Replica : r # d => docOf'[r] = docOf[r]
        /\ docOf'[d].rank # 0 => docOf'[d].rec.at # 0
        /\ ranks' \subseteq Nat /\ \A r \in Replica : docOf'[r].rank \in ranks' \cup {0}
    BY <2>1, <2>2, <2>3, WriteDoc
  <2>5. /\ shadow' \in [StoreDesk -> Rec] /\ \A c \in Shadowless : shadow'[c] = NoRecord
        /\ \A c \in StoreDesk : c # d => shadow'[c] = shadow[c]
        /\ d \in Shadowless \/ shadow'[d] = rec
    BY <1>0, <2>1, <2>2, StoreAssumption DEF StoreTyped, StoreTypeOK, saveLocalAlignment
  <2>6. shadow'[d].at <= docOf'[d].rec.at
    BY <1>0, <2>2, <2>4, <2>5 DEF Rec
  <2>7. /\ inForce' \in [StoreDesk -> Rec \cup {HalfMeasured}] /\ inForce'[d] = rec
        /\ \A c \in StoreDesk : c # d => inForce'[c] = inForce[c]
        /\ deskState' \in [StoreDesk -> DeskStates] /\ deskState'[d] = "in"
        /\ \A c \in StoreDesk : c # d => deskState'[c] = deskState[c]
    BY <1>0, <2>1, <2>2 DEF StoreTyped, DeskStates
  <2> QED
    BY <2>1, <2>4, <2>5, <2>6, <2>7, DeskStepKeeps
<1>5. ASSUME NEW d \in StoreDesk, ReloadDesk(d) PROVE StoreInv'
  <2>1. /\ docOf' = [docOf EXCEPT ![d] = NoEntry] /\ inForce' = [inForce EXCEPT ![d] = NoRecord]
        /\ deskState' = [deskState EXCEPT ![d] = "out"] /\ UNCHANGED <<shadow, ranks, time>>
        /\ unread' = unread \cup {d} /\ slipped' = slipped \ {d}
    BY <1>5 DEF ReloadDesk
  <2>2. NoEntry \in Entry /\ NoEntry.rank = 0
    BY <1>0 DEF NoEntry, Entry
  <2>3. StoreTyped'
    BY <1>0, <2>1, <2>2 DEF StoreTyped, DeskStates
  <2> QED
    BY <1>0, <2>1, <2>2, <2>3 DEF StoreInv, StoreTyped, StoreTypeOK, EntriesHold, DeskInStep
<1>6. ASSUME NEW d \in StoreDesk, SendDoc(d) PROVE StoreInv'
  <2>1. /\ docOf' = [docOf EXCEPT !["server"] = docOf[d]]
        /\ UNCHANGED <<shadow, inForce, deskState, ranks, time, unread, slipped>>
    BY <1>6 DEF SendDoc
  <2>2. docOf[d] \in Entry
    BY <1>0 DEF StoreTyped
  <2>3. StoreTyped'
    BY <1>0, <2>1, <2>2 DEF StoreTyped
  <2>4. \A c \in StoreDesk : docOf'[c] = docOf[c]
    BY <1>0, <2>1, StoreAssumption DEF StoreTyped
  <2> QED
    BY <1>0, <2>1, <2>3, <2>4 DEF StoreInv, StoreTyped, StoreTypeOK, EntriesHold, DeskInStep
<1>7. ASSUME NEW d \in StoreDesk, ReceiveDoc(d) PROVE StoreInv'
  <2> DEFINE entry == docOf["server"]
             w == Winner(shadow[d], entry.rec)
  <2>1. /\ entry \in Entry /\ entry.rank \in ranks \cup {0} /\ docOf[d].rank \in Nat
        /\ entry.rank # 0 => entry.rec.at # 0
    BY <1>0 DEF StoreTyped, StoreTypeOK, EntriesHold, Entry
  <2>2. /\ entry.rank > docOf[d].rank /\ reconcile(d, entry) /\ restoreAlignment(d, w)
        /\ UNCHANGED <<deskState, time>> /\ unread' = unread \ {d}
    BY <1>7 DEF ReceiveDoc, reconcile
  <2>3. w \in Rec /\ w # NoRecord
    <3>1. shadow[d] \in Rec /\ entry.rec \in Rec /\ entry.rank # 0
      BY <1>0, <2>1, <2>2 DEF StoreTyped, Entry
    <3> QED
      BY <1>0, <2>1, <3>1, WinnerWins
  <2> HIDE DEF entry
  <2>4. /\ docOf' \in [Replica -> Entry] /\ docOf'[d].rec = w
        /\ \A r \in Replica : r # d => docOf'[r] = docOf[r]
        /\ docOf'[d].rank # 0 => docOf'[d].rec.at # 0
        /\ ranks' \subseteq Nat /\ \A r \in Replica : docOf'[r].rank \in ranks' \cup {0}
        /\ shadow' \in [StoreDesk -> Rec] /\ \A c \in Shadowless : shadow'[c] = NoRecord
        /\ shadow'[d].at <= docOf'[d].rec.at
        /\ \A c \in StoreDesk : c # d => shadow'[c] = shadow[c]
    BY <2>1, <2>2, ReconcileKeeps
  <2> HIDE DEF w
  <2>5. /\ inForce' \in [StoreDesk -> Rec \cup {HalfMeasured}]
        /\ deskState[d] # "out" /\ d \notin slipped' => inForce'[d] = w
        /\ \A c \in StoreDesk : c # d => inForce'[c] = inForce[c]
        /\ deskState[d] = "out" => inForce'[d] = NoRecord
        /\ \/ slipped' = slipped \/ slipped' = slipped \ {d}
           \/ slipped' = slipped \cup {d} /\ deskState'[d] # "out"
        /\ deskState' \in [StoreDesk -> DeskStates]
        /\ \A c \in StoreDesk : deskState'[c] = deskState[c]
    BY <1>0, <2>2, <2>3 DEF StoreTyped, StoreTypeOK, restoreAlignment
  <2> QED
    BY <2>2, <2>4, <2>5, DeskStepKeeps
<1>8. CASE Passes
  BY <1>0, <1>8 DEF Passes, StoreInv, StoreTyped, StoreTypeOK, EntriesHold, DeskInStep
<1> QED
  BY <1>1, <1>2, <1>3, <1>4, <1>5, <1>6, <1>7, <1>8 DEF StoreNext

\* Nothing is stored, nothing is loaded.
LEMMA StoreStarts == StoreInit => StoreInv
<1> SUFFICES ASSUME StoreInit PROVE StoreInv
  OBVIOUS
<1>1. NoRecord \in Rec /\ NoEntry \in Entry /\ NoEntry.rank = 0
  BY DEF NoRecord, NoEntry, Rec, Entry
<1>2. StoreTyped
  BY <1>1 DEF StoreInit, StoreTyped, DeskStates
<1>3. /\ \A r \in Replica : docOf[r].rank = 0
      /\ \A d \in StoreDesk : /\ shadow[d] = NoRecord /\ inForce[d] = NoRecord
                              /\ deskState[d] = "out" /\ d \in unread
  BY <1>1 DEF StoreInit, Replica
<1>4. StoreTypeOK
  BY <1>3, StoreAssumption DEF StoreTypeOK, StoreInit
<1>5. \A d \in StoreDesk : shadow[d].at <= docOf[d].rec.at
  <2>1. NoRecord.at = 0 /\ NoEntry.rec = NoRecord
    BY DEF NoRecord, NoEntry
  <2>2. \A d \in StoreDesk : docOf[d] = NoEntry
    BY DEF StoreInit, Replica
  <2>3. \A d \in StoreDesk : shadow[d].at = 0 /\ docOf[d].rec.at = 0
    BY <1>3, <2>1, <2>2
  <2>4. 0 <= 0
    OBVIOUS
  <2> QED
    BY <2>3, <2>4
<1>6. EntriesHold /\ DeskInStep
  BY <1>3, <1>5 DEF EntriesHold, DeskInStep
<1> QED
  BY <1>2, <1>4, <1>6 DEF StoreInv

\* However loads, runs, their failures, reloads and the wire interleave on any number of
\* desks, once the replicas agree every desk that has the take, and whose player neither
\* refused a verdict nor kept half of one since it last took one, applies the document's
\* verdict; no desk that has read its stores remembers a newer one; and no two desks
\* answer one another (alignment-persist.ts reconcile, player.ts restoreAlignment).
THEOREM VerdictIsShared == StoreSpec => []VerdictsAgree
<1>1. StoreInv => StoreTypeOK /\ NewestSurvives /\ SameVerdict
  BY DEF StoreInv, DeskInStep, NewestSurvives, SameVerdict, InSync, Replica
<1>2. StoreInv => NoEcho
  <2> SUFFICES ASSUME StoreInv, NEW d \in StoreDesk, NEW e \in StoreDesk,
                      docOf[d].rank # 0, docOf[e].rank # 0,
                      WouldAnswer(d, docOf[e]), WouldAnswer(e, docOf[d])
               PROVE  FALSE
    BY DEF NoEcho
  <2>1. /\ shadow[d].at \in Nat /\ shadow[e].at \in Nat
        /\ docOf[d].rec.at \in Nat /\ docOf[e].rec.at \in Nat
    BY DEF StoreInv, StoreTyped, Rec, Entry, Replica
  <2>2. shadow[d].at <= docOf[d].rec.at /\ shadow[e].at <= docOf[e].rec.at
    BY DEF StoreInv, DeskInStep
  <2>3. shadow[d].at > docOf[e].rec.at /\ shadow[e].at > docOf[d].rec.at
    BY DEF WouldAnswer
  <2> QED
    BY <2>1, <2>2, <2>3
<1> QED
  BY <1>1, <1>2, StoreStarts, StoreStep, PTL DEF StoreSpec, VerdictsAgree

(***************************************************************************)
(* The player.                                                             *)
(***************************************************************************)
Track == [at : Nat, al : Nat, on : BOOLEAN]
Source == [at : Nat, al : Nat]
PlayerSet == [tracks : [Stream -> Track], sources : [Stream -> Seq(Source)],
              plan : [Stream -> Nat], loaded : Take \cup {NoTake}, playing : BOOLEAN,
              startPos : Nat, elapsed : Nat]

\* The transport at rest holds no source; rolling, every track still to be heard has one,
\* and only mounted tracks do.
Quiet(p) == ~ p.playing => \A s \in Stream : p.sources[s] = <<>>
Sounds(p) ==
    /\ Quiet(p)
    /\ \A s \in Stream : ~ p.tracks[s].on => p.sources[s] = <<>>
    /\ p.playing => \A s \in Stream :
          p.tracks[s].on /\ p.tracks[s].at + LenOf[s] > p.startPos + p.elapsed
          => p.sources[s] # <<>>

\* Sources are single and planned from the tracks as they are.
Drawn(p) == \A s \in Stream : p.sources[s] = <<>> \/ p.sources[s] = <<SourceOf(p.tracks[s])>>

\* What a stream's source was planned from: its track, but for the verdict that the run r
\* has been changing since.
PlannedFrom(p, r, s) ==
    [at |-> p.tracks[s].at,
     al |-> IF TakeOf[s] = r.take THEN r.before[s].al ELSE p.tracks[s].al]

\* The streams outside T sound once, and those outside A as they were planned.
AsPlanned(p, r, T, A) ==
    \A s \in Stream \ T :
        /\ p.sources[s] = <<>> \/ \E x \in Source : p.sources[s] = <<x>>
        /\ s \notin A => p.sources[s] = <<>> \/ p.sources[s] = <<PlannedFrom(p, r, s)>>
HeardNow == AsPlanned(player, run, twice, adrift)

\* A track is where the plan has its clip, and the sink still has its stream.
Fine(x, s) ==
    x.on => /\ s \in missed \/ player.plan[s] = Off \/ x.at = player.plan[s]
            /\ s \in revived \/ s \in archived
Mounts == \A s \in Stream :
    Fine(player.tracks[s], s) /\ Fine(load.got[s], s) /\ Fine(ahead.got[s], s)

\* The verdicts in force between two runs, and what a run began from.
InForce(p, st, o) == \A s \in loadedTracks(p) \ o : st[s] # 0 => p.tracks[s].al = st[s]
Measures ==
    run.take # NoTake /\ player.loaded = run.take =>
        /\ \A s \in loadedTracks(player) \ owed : player.tracks[s].al = 0 => stored[s] = 0
        /\ \A s \in StreamsIn[run.take] \ owed :
              stored[s] # 0 => run.before[s].al \in {stored[s], 0}
Unloaded == run.take = NoTake /\ ~ (job.phase = "loaded" /\ job.ok = TRUE)
Forced == (Unloaded => InForce(player, stored, owed)) /\ Measures

Good(p) == p \in PlayerSet /\ Sounds(p) /\ (p.loaded = NoTake => ~ p.playing)
PlayerGood == Good(player)

LoadOK(l) ==
    /\ l \in [take : Take \cup {NoTake}, todo : SUBSET Stream, got : [Stream -> Track]]
    /\ l.take = NoTake => l = NoLoad
    /\ l.take # NoTake => /\ l.todo # {} /\ l.todo \subseteq StreamsIn[l.take]
                          /\ \A s \in Stream : l.got[s].on => s \in StreamsIn[l.take]

RunSet == [take : Take \cup {NoTake}, todo : SUBSET Stream, again : SUBSET Stream,
           lost : SUBSET Stream, before : [Stream -> Track]]
RunOK(r) ==
    /\ r \in RunSet
    /\ r.take = NoTake => r = NoRun
    /\ r.take # NoTake => r.todo \cup r.again \subseteq StreamsIn[r.take]

JobOK(j, n) ==
    /\ j \in [id : 0..n, take : Take \cup {NoTake}, force : BOOLEAN, want : SUBSET Stream,
              phase : {"idle", "queued", "load", "loaded", "align"}, ok : BOOLEAN]
    /\ j.id = 0 => j = NoJob
    /\ j.id # 0 => j.take \in Take /\ j.want \subseteq StreamsIn[j.take]

PlayerBooks ==
    /\ archived \subseteq Stream /\ asked \in Nat /\ settled \subseteq 1..asked
    /\ stored \in [Stream -> Nat] /\ picked \in Take \cup {NoTake}
    /\ LoadOK(load) /\ LoadOK(ahead) /\ RunOK(run) /\ JobOK(job, asked) /\ JobOK(next, asked)
    /\ job.phase # "queued" /\ (job.id = 0 <=> job.phase = "idle")
    /\ next.id # 0 => job.id # 0
    /\ load.take # NoTake <=> job.phase = "load"
    /\ load.take # NoTake => load.take = job.take /\ ~ player.playing
    /\ run.take # NoTake <=> job.phase = "align"
    /\ run.take # NoTake => player.loaded \in {run.take, NoTake}
    /\ job.phase = "loaded" /\ job.ok => player.loaded = job.take

PlayerInv == PlayerGood /\ PlayerBooks /\ Mounts /\ HeardNow /\ Forced

(***************************************************************************)
(* Least and most.                                                         *)
(***************************************************************************)
LEMMA LeastElement ==
    ASSUME NEW T \in SUBSET Nat, T # {}
    PROVE  \E m \in T : \A n \in T : m <= n
<1>1. PICK m \in T : \A n \in T : ~ (<<n, m>> \in OpToRel(<, Nat))
  BY NatLessThanWellFounded, WFMin
<1>2. \A n \in T : ~ (n < m)
  BY <1>1 DEF OpToRel
<1> QED
  BY <1>2

LEMMA LeastIs ==
    ASSUME NEW T \in SUBSET Nat, T # {}
    PROVE  Least(T) \in T /\ \A n \in T : Least(T) <= n
<1>1. \E m \in T : \A n \in T : m <= n
  BY LeastElement
<1> QED
  BY <1>1 DEF Least

\* A finite set of numbers has an upper bound.
LEMMA FiniteIsBounded ==
    ASSUME NEW T \in SUBSET Nat, IsFiniteSet(T)
    PROVE  \E b \in Nat : \A n \in T : n <= b
<1> DEFINE Sub == {U \in SUBSET T : \E b \in Nat : \A n \in U : n <= b}
           C == {Cardinality(T \ U) : U \in Sub}
<1>1. {} \in Sub
  OBVIOUS
<1>2. \A U \in Sub : IsFiniteSet(T \ U) /\ Cardinality(T \ U) \in Nat
  BY FS_Difference, FS_CardinalityType
<1>3. C \in SUBSET Nat /\ C # {}
  BY <1>1, <1>2
<1>4. PICK k \in C : \A i \in C : k <= i
  BY <1>3, LeastElement
<1>5. PICK U \in Sub : k = Cardinality(T \ U)
  BY <1>4
<1>6. PICK b \in Nat : \A n \in U : n <= b
  BY <1>5
<1>7. U = T
  <2> SUFFICES ASSUME NEW x \in T, x \notin U PROVE FALSE
    BY <1>5
  <2> DEFINE c == IF x > b THEN x ELSE b
             W == U \cup {x}
  <2>1. c \in Nat /\ \A n \in W : n <= c
    BY <1>6
  <2>2. W \in Sub
    BY <2>1, <1>5
  <2>3. T \ W = (T \ U) \ {x} /\ x \in T \ U
    OBVIOUS
  <2> DEFINE left == T \ U
  <2> HIDE DEF W, Sub, left
  <2>a. IsFiniteSet(left) /\ x \in left /\ T \ W = left \ {x}
    BY <1>2, <1>5, <2>3 DEF left
  <2>b. Cardinality(left \ {x}) = Cardinality(left) - 1
    BY <2>a, FS_RemoveElement
  <2>4. Cardinality(T \ W) = Cardinality(T \ U) - 1
    BY <2>a, <2>b DEF left
  <2>5. Cardinality(T \ W) \in Nat /\ Cardinality(T \ W) >= k
    BY <1>2, <1>4, <2>2
  <2> QED
    BY <1>2, <1>5, <2>4, <2>5
<1> QED
  BY <1>6, <1>7

LEMMA ImageIsFinite ==
    ASSUME NEW D, IsFiniteSet(D), NEW f
    PROVE  IsFiniteSet({f[i] : i \in D})
<1> DEFINE T == {f[i] : i \in D}
           g == [i \in D |-> f[i]]
<1>1. g \in Surjection(D, T)
  BY DEF Surjection
<1> HIDE DEF g
<1> QED
  BY <1>1, FS_Surjection

LEMMA MostIs ==
    ASSUME NEW T \in SUBSET Nat, T # {}, IsFiniteSet(T)
    PROVE  Most(T) \in T /\ \A n \in T : Most(T) >= n
<1> DEFINE B == {b \in Nat : \A n \in T : n <= b}
<1>1. B \in SUBSET Nat /\ B # {}
  BY FiniteIsBounded
<1>2. PICK m \in B : \A b \in B : m <= b
  BY <1>1, LeastElement
<1>3. m \in T
  <2> SUFFICES ASSUME m \notin T PROVE FALSE
    OBVIOUS
  <2>1. PICK x \in T : TRUE
    OBVIOUS
  <2>2. x \in Nat /\ x < m
    BY <1>2
  <2>3. m - 1 \in Nat /\ \A n \in T : n <= m - 1
    BY <1>2, <2>2
  <2> QED
    BY <1>2, <2>3
<1>4. \E x \in T : \A y \in T : x >= y
  BY <1>2, <1>3
<1> QED
  BY <1>4 DEF Most

(***************************************************************************)
(* The takes and their streams.                                            *)
(***************************************************************************)
LEMMA UpToIsFinite == ASSUME NEW n \in Nat PROVE IsFiniteSet(1..n)
<1>1. 1 \in Int /\ n \in Int
  OBVIOUS
<1> QED
  BY <1>1, FS_Interval, Zenon

LEMMA StreamsKnown ==
    /\ \A t \in Take : StreamsIn[t] \subseteq Stream /\ IsFiniteSet(StreamsIn[t])
    /\ \A s \in Stream : TakeOf[s] \in Take /\ s \in StreamsIn[TakeOf[s]]
    /\ \A t \in Take : \A s \in StreamsIn[t] : TakeOf[s] = t
    /\ \A t, u \in Take : t # u => StreamsIn[t] \cap StreamsIn[u] = {}
<1>1. \A t \in Take : StreamsIn[t] \subseteq Stream
  BY DEF Stream, StreamsIn
<1>2. ASSUME NEW t \in Take PROVE IsFiniteSet(StreamsIn[t])
  <2> DEFINE q == StreamsOf[t]
             D == DOMAIN q
             n == Len(q)
  <2>1. q \in Seq(Stream)
    BY PlayerAssumption
  <2>2. D = 1..n /\ n \in Nat
    BY <2>1
  <2> HIDE DEF n, D
  <2>5. IsFiniteSet(D)
    BY <2>2, UpToIsFinite
  <2> HIDE DEF D, q
  <2>4. IsFiniteSet({q[i] : i \in D})
    BY <2>5, ImageIsFinite
  <2> QED
    BY <2>4 DEF StreamsIn, ToSet, D, q
<1>3. \A s \in Stream : \E t \in Take : s \in ToSet(StreamsOf[t])
  BY DEF Stream, StreamsIn
<1>4. \A s \in Stream : TakeOf[s] \in Take /\ s \in StreamsIn[TakeOf[s]]
  BY <1>3 DEF TakeOf, StreamsIn
<1>5. \A t, u \in Take : t # u => StreamsIn[t] \cap StreamsIn[u] = {}
  BY PlayerAssumption DEF StreamsIn
<1>6. \A t \in Take : \A s \in StreamsIn[t] : TakeOf[s] = t
  BY <1>1, <1>4, <1>5
<1> QED
  BY <1>1, <1>2, <1>4, <1>5, <1>6

LEMMA MountedAre ==
    ASSUME NEW p
    PROVE  /\ \A s \in Stream : p.tracks[s].on => TakeOf[s] \in mountedTakeIds(p)
           /\ \A t \in mountedTakeIds(p) :
                 t \in Take /\ \E s \in StreamsIn[t] : s \in Stream /\ p.tracks[s].on
<1>1. \A s \in Stream : p.tracks[s].on => TakeOf[s] \in mountedTakeIds(p)
  BY DEF mountedTakeIds
<1>2. ASSUME NEW t \in mountedTakeIds(p)
      PROVE  t \in Take /\ \E s \in StreamsIn[t] : s \in Stream /\ p.tracks[s].on
  <2>1. PICK s \in Stream : p.tracks[s].on /\ t = TakeOf[s]
    BY DEF mountedTakeIds
  <2> QED
    BY <2>1, StreamsKnown
<1> QED
  BY <1>1, <1>2

LEMMA FirstIsIn ==
    ASSUME NEW t \in Take, NEW S, S \subseteq StreamsIn[t], S # {}
    PROVE  FirstOf(t, S) \in S
<1> DEFINE q == StreamsOf[t]
           I == {i \in DOMAIN q : q[i] \in S}
<1>1. DOMAIN q \subseteq Nat
  BY PlayerAssumption
<1>2. I \in SUBSET Nat /\ I # {}
  BY <1>1 DEF StreamsIn, ToSet
<1> HIDE DEF I
<1>3. Least(I) \in I
  BY <1>2, LeastIs
<1> QED
  BY <1>3 DEF I, FirstOf

(***************************************************************************)
(* What the player's helpers do to it, field by field.                     *)
(***************************************************************************)
LEMMA PositionTyped ==
    ASSUME NEW p \in PlayerSet
    PROVE  /\ \A t \in Take : takeTracks(p, t) \subseteq StreamsIn[t]
           /\ \A t \in Take : takeEndSec(p, t) \in Nat /\ takeBaseSec(p, t) \in Nat
           /\ duration(p) \in Nat /\ position(p) \in Nat
           /\ \A s \in Stream : p.tracks[s].on => p.tracks[s].at + LenOf[s] <= duration(p)
<1>0. \A s \in Stream : /\ LenOf[s] \in Nat /\ p.tracks[s].at \in Nat /\ p.plan[s] \in Nat
                        /\ p.tracks[s].at + LenOf[s] \in Nat /\ p.plan[s] + LenOf[s] \in Nat
  BY PlayerAssumption DEF PlayerSet, Track
<1>1. \A t \in Take : takeTracks(p, t) \subseteq StreamsIn[t] /\ Planned(p, t) \subseteq StreamsIn[t]
  BY DEF takeTracks, Planned, StreamsIn
<1> DEFINE ends(S) == {p.tracks[s].at + LenOf[s] : s \in S}
           planEnds(S) == {p.plan[s] + LenOf[s] : s \in S}
<1>2. ASSUME NEW S, S \subseteq Stream, IsFiniteSet(S)
      PROVE  /\ ends(S) \in SUBSET Nat /\ IsFiniteSet(ends(S))
             /\ planEnds(S) \in SUBSET Nat /\ IsFiniteSet(planEnds(S))
  <2> DEFINE f == [s \in S |-> p.tracks[s].at + LenOf[s]]
             g == [s \in S |-> p.plan[s] + LenOf[s]]
  <2>1. ends(S) = {f[s] : s \in S} /\ planEnds(S) = {g[s] : s \in S}
    OBVIOUS
  <2> HIDE DEF f, g
  <2>2. IsFiniteSet({f[s] : s \in S}) /\ IsFiniteSet({g[s] : s \in S})
    BY <1>2, ImageIsFinite
  <2>3. ends(S) \in SUBSET Nat /\ planEnds(S) \in SUBSET Nat
    BY <1>0, <1>2
  <2> QED
    BY <2>1, <2>2, <2>3
<1>3. ASSUME NEW t \in Take
      PROVE  /\ IsFiniteSet(takeTracks(p, t)) /\ takeTracks(p, t) \subseteq Stream
             /\ IsFiniteSet(Planned(p, t)) /\ Planned(p, t) \subseteq Stream
  BY <1>1, StreamsKnown, FS_Subset
<1>4. ASSUME NEW t \in Take
      PROVE  takeEndSec(p, t) \in Nat /\ takeBaseSec(p, t) \in Nat
             /\ \A s \in takeTracks(p, t) : p.tracks[s].at + LenOf[s] <= takeEndSec(p, t)
  <2> DEFINE here == takeTracks(p, t)
             there == Planned(p, t)
  <2>1. CASE here # {}
    <3>1. takeEndSec(p, t) = Most(ends(here)) /\ takeBaseSec(p, t) = Least({p.tracks[s].at : s \in here})
      BY <2>1 DEF takeEndSec, takeBaseSec
    <3>2. Most(ends(here)) \in ends(here) /\ \A n \in ends(here) : Most(ends(here)) >= n
      <4> DEFINE T == ends(here)
      <4>1. T \in SUBSET Nat /\ T # {} /\ IsFiniteSet(T)
        BY <1>2, <1>3, <2>1
      <4> HIDE DEF T
      <4>2. Most(T) \in T /\ \A n \in T : Most(T) >= n
        BY <4>1, MostIs
      <4> QED
        BY <4>2 DEF T
    <3>3. Least({p.tracks[s].at : s \in here}) \in Nat
      <4> DEFINE T == {p.tracks[s].at : s \in here}
      <4>1. T \in SUBSET Nat /\ T # {}
        BY <1>0, <1>3, <2>1
      <4> HIDE DEF T
      <4> QED
        BY <4>1, LeastIs DEF T
    <3>4. ends(here) \in SUBSET Nat
      BY <1>2, <1>3
    <3> QED
      BY <3>1, <3>2, <3>3, <3>4
  <2>2. CASE here = {} /\ there # {}
    <3>1. takeEndSec(p, t) = Most(planEnds(there)) /\ takeBaseSec(p, t) = Least({p.plan[s] : s \in there})
      BY <2>2 DEF takeEndSec, takeBaseSec
    <3>2. Most(planEnds(there)) \in Nat
      <4> DEFINE T == planEnds(there)
      <4>1. T \in SUBSET Nat /\ T # {} /\ IsFiniteSet(T)
        BY <1>2, <1>3, <2>2
      <4> HIDE DEF T
      <4> QED
        BY <4>1, MostIs DEF T
    <3>3. Least({p.plan[s] : s \in there}) \in Nat
      <4> DEFINE T == {p.plan[s] : s \in there}
      <4>1. T \in SUBSET Nat /\ T # {}
        BY <1>0, <1>3, <2>2
      <4> HIDE DEF T
      <4> QED
        BY <4>1, LeastIs DEF T
    <3> QED
      BY <2>2, <3>1, <3>2, <3>3
  <2>3. CASE here = {} /\ there = {}
    BY <2>3 DEF takeEndSec, takeBaseSec
  <2> QED
    BY <2>1, <2>2, <2>3
<1>5. /\ duration(p) \in Nat
      /\ \A t \in takeSpans(p) : takeEndSec(p, t) <= duration(p)
  <2> DEFINE f == [t \in takeSpans(p) |-> takeEndSec(p, t)]
             E == {f[t] : t \in takeSpans(p)}
             T == {0} \cup E
  <2>1. takeSpans(p) \subseteq Take
    BY StreamsKnown DEF takeSpans, mountedTakeIds
  <2>2. IsFiniteSet(takeSpans(p))
    BY <2>1, PlayerAssumption, FS_Subset
  <2>3. duration(p) = Most(T)
    BY DEF duration
  <2>4. E \in SUBSET Nat
    BY <1>4, <2>1
  <2>5. \A t \in takeSpans(p) : takeEndSec(p, t) \in E
    OBVIOUS
  <2> HIDE DEF f
  <2>6. IsFiniteSet(E)
    BY <2>2, ImageIsFinite
  <2> HIDE DEF E
  <2>7. IsFiniteSet(T)
    BY <2>6, FS_AddElement, FS_Union, FS_Singleton
  <2>8. T \in SUBSET Nat /\ T # {} /\ \A n \in E : n \in T
    BY <2>4
  <2> HIDE DEF T
  <2>9. Most(T) \in T /\ \A n \in T : Most(T) >= n
    BY <2>7, <2>8, MostIs
  <2> QED
    BY <2>3, <2>4, <2>5, <2>8, <2>9
<1>6. p.playing \in BOOLEAN /\ p.startPos \in Nat /\ p.elapsed \in Nat
  BY DEF PlayerSet
<1>7. position(p) \in Nat
  <2> DEFINE T == {duration(p), p.startPos + p.elapsed}
  <2>1. T \in SUBSET Nat /\ T # {}
    BY <1>5, <1>6
  <2>2. Least(T) \in Nat
    <3> HIDE DEF T
    <3> QED
      BY <2>1, LeastIs
  <2> QED
    BY <1>6, <2>2 DEF position
<1>8. ASSUME NEW s \in Stream, p.tracks[s].on PROVE p.tracks[s].at + LenOf[s] <= duration(p)
  <2> DEFINE t == TakeOf[s]
  <2>1. t \in Take /\ s \in takeTracks(p, t)
    BY <1>8, StreamsKnown DEF takeTracks, StreamsIn
  <2>2. t \in takeSpans(p)
    BY <1>8, MountedAre DEF takeSpans
  <2>3. p.tracks[s].at + LenOf[s] \in Nat /\ takeEndSec(p, t) \in Nat
    BY <1>0, <1>4, <2>1
  <2> HIDE DEF t
  <2> QED
    BY <1>4, <1>5, <2>1, <2>2, <2>3
<1> QED
  BY <1>1, <1>4, <1>5, <1>7, <1>8

SameMount(p, q) == q.tracks = p.tracks /\ q.plan = p.plan /\ q.loaded = p.loaded
SameClock(p, q) == q.playing = p.playing /\ q.startPos = p.startPos /\ q.elapsed = p.elapsed

\* The sources were planned anew.
Fresh(p, q) == q \in PlayerSet /\ SameMount(p, q) /\ Sounds(q) /\ Drawn(q)

LEMMA StopIs ==
    ASSUME NEW p \in PlayerSet
    PROVE  /\ stopSources(p) \in PlayerSet /\ SameMount(p, stopSources(p))
           /\ SameClock(p, stopSources(p))
           /\ \A s \in Stream : stopSources(p).sources[s] = <<>>
<1> DEFINE none == [s \in Stream |-> <<>>]
<1>1. none \in [Stream -> Seq(Source)]
  OBVIOUS
<1>2. \A s \in Stream : none[s] = <<>>
  OBVIOUS
<1>3. stopSources(p) = [p EXCEPT !.sources = none]
  BY DEF stopSources
<1> HIDE DEF none
<1> QED
  BY <1>1, <1>2, <1>3 DEF PlayerSet, SameMount, SameClock

LEMMA PlannedIs ==
    ASSUME NEW p \in PlayerSet, NEW S, NEW from \in Nat
    PROVE  /\ PlannedSources(p, S, from) \in [Stream -> Seq(Source)]
           /\ \A s \in Stream : PlannedSources(p, S, from)[s] =
                IF s \in S /\ p.tracks[s].on /\ p.tracks[s].at + LenOf[s] > from
                THEN Append(p.sources[s], SourceOf(p.tracks[s])) ELSE p.sources[s]
<1>1. \A s \in Stream : p.sources[s] \in Seq(Source) /\ p.tracks[s] \in Track
  BY DEF PlayerSet
<1>2. \A s \in Stream : SourceOf(p.tracks[s]) \in Source
  BY <1>1 DEF SourceOf, Source, Track
<1>3. \A s \in Stream : Append(p.sources[s], SourceOf(p.tracks[s])) \in Seq(Source)
  BY <1>1, <1>2
<1> QED
  BY <1>1, <1>3 DEF PlannedSources

LEMMA AppendOne == \A x : /\ Append(<<>>, x) = <<x>> /\ <<x>> # <<>>
                          /\ Len(<<x>>) = 1 /\ Len(<<>>) = 0
  OBVIOUS

LEMMA ScheduleIs ==
    ASSUME NEW p \in PlayerSet, NEW from \in Nat
    PROVE  /\ Fresh(p, schedule(stopSources(p), from))
           /\ schedule(stopSources(p), from).playing = TRUE
<1> DEFINE r == stopSources(p)
           f == PlannedSources(r, Stream, from)
           q == schedule(r, from)
<1>1. /\ r \in PlayerSet /\ SameMount(p, r) /\ SameClock(p, r)
      /\ \A s \in Stream : r.sources[s] = <<>>
  BY StopIs
<1> HIDE DEF r
<1>2. /\ f \in [Stream -> Seq(Source)]
      /\ \A s \in Stream : f[s] = IF r.tracks[s].on /\ r.tracks[s].at + LenOf[s] > from
                                  THEN <<SourceOf(r.tracks[s])>> ELSE <<>>
  <2>1. /\ f \in [Stream -> Seq(Source)]
        /\ \A s \in Stream : f[s] = IF s \in Stream /\ r.tracks[s].on /\ r.tracks[s].at + LenOf[s] > from
                                    THEN Append(r.sources[s], SourceOf(r.tracks[s])) ELSE r.sources[s]
    BY <1>1, PlannedIs
  <2> HIDE DEF f
  <2>2. ASSUME NEW s \in Stream
        PROVE  f[s] = IF r.tracks[s].on /\ r.tracks[s].at + LenOf[s] > from
                      THEN <<SourceOf(r.tracks[s])>> ELSE <<>>
    <3>1. r.sources[s] = <<>> /\ Append(<<>>, SourceOf(r.tracks[s])) = <<SourceOf(r.tracks[s])>>
      BY <1>1, AppendOne
    <3> QED
      BY <2>1, <3>1
  <2> QED
    BY <2>1, <2>2
<1>3. q = [r EXCEPT !.sources = f, !.startPos = from, !.elapsed = 0, !.playing = TRUE]
  BY DEF schedule
<1> HIDE DEF f
<1>4. /\ q \in PlayerSet /\ SameMount(r, q) /\ q.sources = f /\ q.startPos = from
      /\ q.elapsed = 0 /\ q.playing = TRUE
  <2> HIDE DEF q, f
  <2>1. q \in PlayerSet
    BY <1>1, <1>2, <1>3 DEF PlayerSet
  <2>2. SameMount(r, q) /\ q.sources = f /\ q.startPos = from /\ q.elapsed = 0
    BY <1>1, <1>2, <1>3 DEF PlayerSet, SameMount
  <2>3. q.playing = TRUE
    BY <1>1, <1>2, <1>3 DEF PlayerSet
  <2> QED
    BY <2>1, <2>2, <2>3
<1> HIDE DEF q
<1>5. SameMount(p, q)
  BY <1>1, <1>4 DEF SameMount
<1>6. Sounds(q)
  <2>1. from + 0 = from
    OBVIOUS
  <2>2. q.tracks = r.tracks
    BY <1>4 DEF SameMount
  <2>3. ASSUME NEW s \in Stream, q.tracks[s].on, q.tracks[s].at + LenOf[s] > q.startPos + q.elapsed
        PROVE  q.sources[s] # <<>>
    BY <1>2, <1>4, <2>1, <2>2, <2>3, AppendOne
  <2>4. ASSUME NEW s \in Stream, ~ q.tracks[s].on PROVE q.sources[s] = <<>>
    BY <1>2, <1>4, <2>2, <2>4
  <2> QED
    BY <1>4, <2>3, <2>4 DEF Sounds, Quiet
<1>7. Drawn(q)
  BY <1>2, <1>4 DEF Drawn, SameMount
<1> QED
  BY <1>4, <1>5, <1>6, <1>7 DEF Fresh, q, r

\* At rest, nothing sounds: planned from anything.
LEMMA QuietIsFresh ==
    ASSUME NEW q \in PlayerSet, Quiet(q), ~ q.playing
    PROVE  Sounds(q) /\ Drawn(q)
  BY DEF Sounds, Quiet, Drawn

LEMMA PauseIs ==
    ASSUME NEW p \in PlayerSet, Sounds(p)
    PROVE  Fresh(p, pause(p)) /\ pause(p).playing = FALSE
<1>1. CASE ~ p.playing
  <2>1. pause(p) = p /\ p.playing = FALSE
    BY <1>1 DEF pause, PlayerSet
  <2> QED
    BY <1>1, <2>1, QuietIsFresh DEF Fresh, Sounds, SameMount
<1>2. CASE p.playing
  <2> DEFINE r == stopSources(p)
             at == position(p)
             q == pause(p)
  <2>1. /\ r \in PlayerSet /\ SameMount(p, r)
        /\ \A s \in Stream : r.sources[s] = <<>>
    BY StopIs
  <2>2. at \in Nat
    BY PositionTyped
  <2>3. q = [r EXCEPT !.startPos = at, !.elapsed = 0, !.playing = FALSE]
    BY <1>2 DEF pause
  <2> HIDE DEF r, at
  <2>4. q \in PlayerSet /\ SameMount(r, q) /\ q.sources = r.sources /\ q.playing = FALSE
    <3> HIDE DEF q
    <3>1. q \in PlayerSet
      BY <2>1, <2>2, <2>3 DEF PlayerSet
    <3>2. SameMount(r, q) /\ q.sources = r.sources
      BY <2>1, <2>2, <2>3 DEF PlayerSet, SameMount
    <3>3. q.playing = FALSE
      BY <2>1, <2>2, <2>3 DEF PlayerSet
    <3> QED
      BY <3>1, <3>2, <3>3
  <2> HIDE DEF q
  <2>5. Quiet(q) /\ SameMount(p, q)
    BY <2>1, <2>4 DEF Quiet, SameMount
  <2>6. Sounds(q) /\ Drawn(q)
    BY <2>4, <2>5, QuietIsFresh
  <2> QED
    BY <2>4, <2>5, <2>6 DEF Fresh, q
<1> QED
  BY <1>1, <1>2

LEMMA RescheduleIs ==
    ASSUME NEW p \in PlayerSet, Quiet(p)
    PROVE  Fresh(p, reschedule(p)) /\ reschedule(p).playing = p.playing
<1>1. CASE ~ p.playing
  BY <1>1, QuietIsFresh DEF reschedule, Fresh, SameMount
<1>2. CASE p.playing
  <2> DEFINE at == position(p)
  <2>1. at \in Nat
    BY PositionTyped
  <2>2. reschedule(p) = schedule(stopSources(p), at)
    BY <1>2 DEF reschedule
  <2>3. p.playing = TRUE
    BY <1>2 DEF PlayerSet
  <2> HIDE DEF at
  <2> QED
    BY <2>1, <2>2, <2>3, ScheduleIs
<1> QED
  BY <1>1, <1>2

\* Without the takes T.
Unmounted(p, q, T) ==
    /\ q \in PlayerSet /\ q.plan = p.plan /\ q.loaded = p.loaded /\ SameClock(p, q)
    /\ \A s \in Stream : q.tracks[s] = IF TakeOf[s] \in T THEN NoTrack ELSE p.tracks[s]
    /\ \A s \in Stream : q.sources[s] = IF TakeOf[s] \in T THEN <<>> ELSE p.sources[s]

LEMMA UnmountIs ==
    ASSUME NEW p \in PlayerSet, NEW T \in SUBSET Take
    PROVE  Unmounted(p, unmountTakes(p, T), T)
<1> DEFINE gone == UNION {StreamsIn[t] : t \in T}
           f == [s \in Stream |-> IF s \in gone THEN NoTrack ELSE p.tracks[s]]
           g == [s \in Stream |-> IF s \in gone THEN <<>> ELSE p.sources[s]]
           q == unmountTakes(p, T)
<1>1. \A s \in Stream : s \in gone <=> TakeOf[s] \in T
  BY StreamsKnown
<1>2. q = [p EXCEPT !.tracks = f, !.sources = g]
  BY DEF unmountTakes
<1>3. NoTrack \in Track
  BY DEF NoTrack, Track
<1>4. f \in [Stream -> Track] /\ g \in [Stream -> Seq(Source)]
  BY <1>3 DEF PlayerSet
<1>5. \A s \in Stream : /\ f[s] = IF TakeOf[s] \in T THEN NoTrack ELSE p.tracks[s]
                        /\ g[s] = IF TakeOf[s] \in T THEN <<>> ELSE p.sources[s]
  BY <1>1
<1> HIDE DEF f, g
<1>6. q \in PlayerSet /\ q.plan = p.plan /\ q.loaded = p.loaded /\ SameClock(p, q)
      /\ q.tracks = f /\ q.sources = g
  BY <1>2, <1>4 DEF PlayerSet, SameClock
<1> HIDE DEF q
<1> QED
  BY <1>5, <1>6 DEF Unmounted, q

LEMMA NoTrackIsOff == NoTrack.on = FALSE /\ NoTrack \in Track
  BY DEF NoTrack, Track

LEMMA UnmountedSounds ==
    ASSUME NEW p \in PlayerSet, NEW q, NEW T, Unmounted(p, q, T), Sounds(p)
    PROVE  Sounds(q) /\ (Drawn(p) => Drawn(q))
<1>1. Quiet(q)
  BY DEF Unmounted, Sounds, Quiet, SameClock
<1>2. ASSUME q.playing, NEW s \in Stream, q.tracks[s].on,
             q.tracks[s].at + LenOf[s] > q.startPos + q.elapsed
      PROVE  q.sources[s] # <<>>
  <2>1. TakeOf[s] \notin T
    BY <1>2, NoTrackIsOff DEF Unmounted
  <2>2. q.tracks[s] = p.tracks[s] /\ q.sources[s] = p.sources[s]
    BY <2>1 DEF Unmounted
  <2>3. p.playing /\ p.startPos = q.startPos /\ p.elapsed = q.elapsed
    BY <1>2 DEF Unmounted, SameClock
  <2> QED
    BY <1>2, <2>2, <2>3 DEF Sounds
<1>3. ASSUME Drawn(p), NEW s \in Stream
      PROVE  q.sources[s] = <<>> \/ q.sources[s] = <<SourceOf(q.tracks[s])>>
  BY <1>3 DEF Drawn, Unmounted
<1>4. ASSUME NEW s \in Stream, ~ q.tracks[s].on PROVE q.sources[s] = <<>>
  BY <1>4 DEF Unmounted, Sounds
<1> QED
  BY <1>1, <1>2, <1>3, <1>4 DEF Sounds, Drawn

LEMMA ScheduleTakeIs ==
    ASSUME NEW p \in PlayerSet, NEW t \in Take
    PROVE  /\ scheduleTake(p, t) \in PlayerSet /\ SameMount(p, scheduleTake(p, t))
           /\ SameClock(p, scheduleTake(p, t))
           /\ \A s \in Stream : scheduleTake(p, t).sources[s] =
                IF s \in StreamsIn[t] /\ p.tracks[s].on
                   /\ p.tracks[s].at + LenOf[s] > p.startPos + p.elapsed
                THEN Append(p.sources[s], SourceOf(p.tracks[s])) ELSE p.sources[s]
<1> DEFINE from == p.startPos + p.elapsed
           f == PlannedSources(p, StreamsIn[t], from)
<1>1. from \in Nat
  BY DEF PlayerSet
<1>2. scheduleTake(p, t) = [p EXCEPT !.sources = f]
  BY DEF scheduleTake, StreamsIn
<1>3. /\ f \in [Stream -> Seq(Source)]
      /\ \A s \in Stream : f[s] = IF s \in StreamsIn[t] /\ p.tracks[s].on
                                     /\ p.tracks[s].at + LenOf[s] > from
                                  THEN Append(p.sources[s], SourceOf(p.tracks[s])) ELSE p.sources[s]
  <2> HIDE DEF from
  <2> QED
    BY <1>1, PlannedIs
<1> HIDE DEF f
<1>4. scheduleTake(p, t) \in PlayerSet /\ SameMount(p, scheduleTake(p, t))
      /\ SameClock(p, scheduleTake(p, t)) /\ scheduleTake(p, t).sources = f
  BY <1>2, <1>3 DEF PlayerSet, SameMount, SameClock
<1> QED
  BY <1>3, <1>4

SameClip(p, q) ==
    \A s \in Stream : q.tracks[s].on = p.tracks[s].on /\ q.tracks[s].at = p.tracks[s].at

LEMMA TracksAre ==
    ASSUME NEW p \in PlayerSet, NEW f \in [Stream -> Track]
    PROVE  /\ [p EXCEPT !.tracks = f] \in PlayerSet /\ [p EXCEPT !.tracks = f].tracks = f
           /\ [p EXCEPT !.tracks = f].sources = p.sources
           /\ [p EXCEPT !.tracks = f].plan = p.plan
           /\ [p EXCEPT !.tracks = f].loaded = p.loaded
           /\ SameClock(p, [p EXCEPT !.tracks = f])
<1>1. [p EXCEPT !.tracks = f] \in PlayerSet
  BY DEF PlayerSet
<1>2. /\ [p EXCEPT !.tracks = f].tracks = f
      /\ [p EXCEPT !.tracks = f].sources = p.sources
      /\ [p EXCEPT !.tracks = f].plan = p.plan
      /\ [p EXCEPT !.tracks = f].loaded = p.loaded
  BY DEF PlayerSet
<1>3. SameClock(p, [p EXCEPT !.tracks = f])
  BY DEF PlayerSet, SameClock
<1> QED
  BY <1>1, <1>2, <1>3

LEMMA VerdictSet ==
    ASSUME NEW x \in Track, NEW v \in Nat
    PROVE  /\ [x EXCEPT !.al = v] \in Track /\ [x EXCEPT !.al = v].al = v
           /\ [x EXCEPT !.al = v].at = x.at /\ [x EXCEPT !.al = v].on = x.on
  BY DEF Track

LEMMA PlaceSet ==
    ASSUME NEW x \in Track, NEW v \in Nat
    PROVE  /\ [x EXCEPT !.at = v] \in Track /\ [x EXCEPT !.at = v].at = v
           /\ [x EXCEPT !.at = v].al = x.al /\ [x EXCEPT !.at = v].on = x.on
  BY DEF Track

\* A verdict that changes while the transport rolls on leaves every source sounding.
LEMMA SameClipSounds ==
    ASSUME NEW p, NEW q, SameClip(p, q), SameClock(p, q), q.sources = p.sources, Sounds(p)
    PROVE  Sounds(q)
  BY DEF SameClip, SameClock, Sounds, Quiet

\* A track is mounted iff its take's track set has it.
LEMMA LoadedIs ==
    ASSUME NEW p
    PROVE  /\ \A t \in Take : takeTracks(p, t) = {s \in StreamsIn[t] : p.tracks[s].on}
           /\ p.loaded = NoTake => loadedTracks(p) = {}
           /\ p.loaded \in Take =>
                 loadedTracks(p) = {s \in StreamsIn[p.loaded] : p.tracks[s].on}
           /\ p.loaded \in Take \cup {NoTake} => loadedTracks(p) \subseteq Stream
  BY PlayerAssumption, StreamsKnown DEF takeTracks, loadedTracks, StreamsIn

LEMMA ReleasedIs ==
    ASSUME NEW p \in PlayerSet
    PROVE  /\ takesToRelease(p) \in SUBSET Take /\ p.loaded \notin takesToRelease(p)
           /\ Unmounted(p, released(p), takesToRelease(p))
<1>1. takesToRelease(p) \in SUBSET Take /\ p.loaded \notin takesToRelease(p)
  BY StreamsKnown DEF takesToRelease, mountedTakeIds
<1> QED
  BY <1>1, UnmountIs DEF released

\* The look-ahead takes up a planned take.
Takes(t, p) == /\ t \in Take /\ Planned(p, t) # {}
               /\ ahead' = [NoLoad EXCEPT !.take = t, !.todo = Planned(p, t)]

LEMMA EnsureIs ==
    ASSUME NEW p \in PlayerSet, ensureLookahead(p)
    PROVE  ahead' = ahead \/ \E t \in Take : Takes(t, p)
<1> DEFINE q == released(p)
           wanted == takesToMount(p, mountedTakeIds(q))
<1>1. CASE ahead.take # NoTake \/ wanted = {}
  BY <1>1 DEF ensureLookahead
<1>2. CASE ~ (ahead.take # NoTake \/ wanted = {})
  <2>1. PICK t \in wanted : ahead' = [NoLoad EXCEPT !.take = t, !.todo = Planned(p, t)]
    BY <1>2 DEF ensureLookahead
  <2>2. /\ t \in takeSpans(p) /\ t \notin mountedTakeIds(q)
        /\ takeEndSec(p, t) > position(p)
    BY <2>1 DEF takesToMount
  <2>3. t \in Take
    BY <2>2, StreamsKnown DEF takeSpans, mountedTakeIds
  <2>4. takeTracks(q, t) = {}
    BY <2>2, <2>3, StreamsKnown DEF mountedTakeIds, takeTracks
  <2>5. Planned(p, t) # {}
    <3> SUFFICES ASSUME Planned(p, t) = {} PROVE FALSE
      OBVIOUS
    <3>1. t \in mountedTakeIds(p)
      BY <2>2, StreamsKnown DEF takeSpans, Planned
    <3>2. t \in takesToRelease(p)
      <4>1. PICK s \in StreamsIn[t] : p.tracks[s].on
        BY <3>1, MountedAre
      <4>2. s \in Stream /\ TakeOf[s] = t
        BY <2>3, <4>1, StreamsKnown
      <4>3. ~ q.tracks[s].on
        BY <2>3, <2>4, <4>1, LoadedIs
      <4> HIDE DEF q
      <4>4. Unmounted(p, q, takesToRelease(p))
        BY ReleasedIs DEF q
      <4> QED
        BY <4>1, <4>2, <4>3, <4>4 DEF Unmounted
    <3>3. takeEndSec(p, t) + Margin < position(p)
      BY <3>2 DEF takesToRelease
    <3>4. takeEndSec(p, t) \in Nat /\ position(p) \in Nat /\ Margin \in Nat
      BY <2>3, PositionTyped, PlayerAssumption
    <3> QED
      BY <2>2, <3>3, <3>4
  <2> QED
    BY <2>1, <2>3, <2>5 DEF Takes
<1> QED
  BY <1>1, <1>2

\* The stored verdicts of the loaded take are in force, everything else is as it was.
Restores(p, q) ==
    /\ q \in PlayerSet /\ q.plan = p.plan /\ q.loaded = p.loaded /\ q.playing = p.playing
    /\ SameClip(p, q) /\ Sounds(q)
    /\ \A s \in Stream : s \notin loadedTracks(p) => q.tracks[s] = p.tracks[s]
    /\ \A s \in loadedTracks(p) :
          q.tracks[s].al = IF stored[s] # 0 THEN stored[s] ELSE p.tracks[s].al
    /\ q = p \/ Drawn(q)

LEMMA RestoredIs ==
    ASSUME NEW p \in PlayerSet, Sounds(p), stored \in [Stream -> Nat]
    PROVE  Restores(p, Restored(p))
<1> DEFINE differs(s) == s \in loadedTracks(p) /\ stored[s] \notin {0, p.tracks[s].al}
           f == [s \in Stream |-> IF differs(s) THEN [p.tracks[s] EXCEPT !.al = stored[s]]
                                               ELSE p.tracks[s]]
           r == [p EXCEPT !.tracks = f]
           q == Restored(p)
<1>0. \A s \in Stream : p.tracks[s] \in Track /\ stored[s] \in Nat
  BY DEF PlayerSet
<1>1. ASSUME NEW s \in Stream
      PROVE  /\ f[s] \in Track /\ f[s].on = p.tracks[s].on /\ f[s].at = p.tracks[s].at
             /\ f[s].al = IF differs(s) THEN stored[s] ELSE p.tracks[s].al
             /\ (~ differs(s) => f[s] = p.tracks[s])
  BY <1>0, VerdictSet
<1>2. f \in [Stream -> Track]
  BY <1>1
<1>3. loadedTracks(p) \subseteq Stream
  BY LoadedIs DEF PlayerSet
<1>4. ASSUME NEW s \in loadedTracks(p)
      PROVE  f[s].al = IF stored[s] # 0 THEN stored[s] ELSE p.tracks[s].al
  BY <1>1, <1>3
<1>5. /\ \A s \in Stream : f[s].on = p.tracks[s].on /\ f[s].at = p.tracks[s].at
      /\ \A s \in Stream : s \notin loadedTracks(p) => f[s] = p.tracks[s]
  BY <1>1
<1>6. q = IF \E s \in Stream : differs(s) THEN reschedule(r) ELSE r
  BY DEF Restored
<1>7. (~ \E s \in Stream : differs(s)) => f = p.tracks
  BY <1>1, <1>2 DEF PlayerSet
<1> HIDE DEF f, differs
<1>8. /\ r \in PlayerSet /\ r.tracks = f /\ r.sources = p.sources /\ r.plan = p.plan
      /\ r.loaded = p.loaded /\ SameClock(p, r)
  BY <1>2, TracksAre
<1> HIDE DEF r, q
<1>9. SameClip(p, r)
  BY <1>5, <1>8 DEF SameClip
<1>10. Sounds(r)
  BY <1>8, <1>9, SameClipSounds
<1>11. CASE ~ \E s \in Stream : differs(s)
  <2>1. q = r /\ q = p
    BY <1>6, <1>7, <1>11 DEF PlayerSet, r
  <2> QED
    BY <1>4, <1>5, <1>8, <1>9, <1>10, <2>1 DEF Restores, SameClock, q
<1>12. CASE \E s \in Stream : differs(s)
  <2>1. q = reschedule(r)
    BY <1>6, <1>12
  <2>2. Fresh(r, q) /\ q.playing = r.playing
    BY <1>8, <1>10, <2>1, RescheduleIs DEF Sounds
  <2>3. SameClip(p, q) /\ q.tracks = f
    BY <1>8, <1>9, <2>2 DEF SameClip, Fresh, SameMount
  <2> QED
    BY <1>4, <1>5, <1>8, <2>2, <2>3 DEF Restores, SameClock, Fresh, SameMount, q
<1> QED
  BY <1>11, <1>12

(***************************************************************************)
(* The queue's load.                                                       *)
(***************************************************************************)
Reloads(p, j) == p.loaded = j.take /\ player' = p

Promotes(p, j) ==
    /\ p.loaded # j.take /\ player'.loaded = j.take /\ player'.playing = FALSE
    /\ \A s \in Stream : player'.sources[s] = <<>>
    /\ \A s \in Stream : IF TakeOf[s] = j.take THEN player'.tracks[s] = p.tracks[s]
                                               ELSE ~ player'.tracks[s].on

Ends(j) == /\ load' = NoLoad /\ job' = [j EXCEPT !.phase = "loaded", !.ok = TRUE]
           /\ player'.loaded = j.take

Decodes(p, j) ==
    /\ SameMount(p, player') /\ player'.playing = FALSE
    /\ \A s \in Stream : player'.sources[s] = <<>>
    /\ j.want # {}
    /\ load' = [NoLoad EXCEPT !.take = j.take, !.todo = j.want]
    /\ job' = [j EXCEPT !.phase = "load", !.ok = FALSE]

Begun(p, j) ==
    /\ player' \in PlayerSet /\ Sounds(player') /\ player'.plan = p.plan
    /\ \/ /\ \A s \in j.want : p.tracks[s].on
          /\ Reloads(p, j) \/ Promotes(p, j)
          /\ Ends(j)
       \/ /\ \E s \in j.want : ~ p.tracks[s].on
          /\ Decodes(p, j)

LEMMA BeginIs ==
    ASSUME NEW p \in PlayerSet, Sounds(p), NEW j, NEW n, JobOK(j, n), j.id # 0, BeginLoad(p, j)
    PROVE  Begun(p, j)
<1> DEFINE q == pause(p)
           t == j.take
           T == mountedTakeIds(q) \ {t}
           only == unmountTakes(q, T)
           at == takeBaseSec(only, t)
<1>1. q \in PlayerSet /\ SameMount(p, q) /\ Sounds(q) /\ q.playing = FALSE
  BY PauseIs DEF Fresh
<1>2. t \in Take /\ j.want \subseteq Stream
  BY StreamsKnown DEF JobOK
<1>3. T \in SUBSET Take
  BY MountedAre
<1>4. CASE \A s \in j.want : p.tracks[s].on
  <2>1. /\ player' = IF p.loaded = t THEN p ELSE [only EXCEPT !.loaded = t, !.startPos = at]
        /\ load' = NoLoad /\ job' = [j EXCEPT !.phase = "loaded", !.ok = TRUE]
    BY <1>4 DEF BeginLoad
  <2>2. CASE p.loaded = t
    BY <1>4, <2>1, <2>2 DEF Begun, Reloads, Ends
  <2>3. CASE p.loaded # t
    <3> HIDE DEF q
    <3>1. Unmounted(q, only, T)
      BY <1>1, <1>3, UnmountIs
    <3>2. \A s \in Stream : q.tracks[s].on => TakeOf[s] \in mountedTakeIds(q)
      BY MountedAre
    <3>3. \A s \in Stream : IF TakeOf[s] = t THEN only.tracks[s] = p.tracks[s]
                                             ELSE ~ only.tracks[s].on
      <4> HIDE DEF t, only
      <4>1. \A s \in Stream : only.tracks[s] = IF TakeOf[s] \in T THEN NoTrack ELSE q.tracks[s]
        BY <3>1 DEF Unmounted
      <4> QED
        BY <1>1, <3>2, <4>1, NoTrackIsOff DEF SameMount
    <3> HIDE DEF T, only
    <3>4. only \in PlayerSet /\ only.plan = p.plan /\ only.playing = FALSE
      BY <1>1, <3>1 DEF Unmounted, SameMount, SameClock
    <3>5. Quiet(only)
      BY <1>1, <3>1, UnmountedSounds DEF Sounds
    <3>6. at \in Nat
      BY <1>2, <3>4, PositionTyped
    <3> HIDE DEF at
    <3>7. player' = [only EXCEPT !.loaded = t, !.startPos = at]
      BY <2>1, <2>3
    <3>8. /\ player' \in PlayerSet /\ player'.tracks = only.tracks
          /\ player'.sources = only.sources /\ player'.plan = only.plan
          /\ player'.loaded = t /\ player'.playing = only.playing
      <4> HIDE DEF t
      <4>1. only \in PlayerSet
        BY <3>4
      <4>2. player' \in PlayerSet
        BY <1>2, <3>6, <3>7, <4>1 DEF PlayerSet
      <4>3. /\ player'.tracks = only.tracks /\ player'.sources = only.sources
            /\ player'.plan = only.plan /\ player'.loaded = t
        BY <1>2, <3>6, <3>7, <4>1 DEF PlayerSet
      <4>4. player'.playing = only.playing
        BY <1>2, <3>6, <3>7, <4>1 DEF PlayerSet
      <4> QED
        BY <4>2, <4>3, <4>4
    <3>9. Quiet(player') /\ player'.playing = FALSE
      BY <3>4, <3>5, <3>8 DEF Quiet
    <3>10. Sounds(player')
      BY <3>9 DEF Sounds, Quiet
    <3>11. Promotes(p, j)
      BY <2>3, <3>3, <3>8, <3>9 DEF Promotes, Quiet
    <3>12. Ends(j)
      BY <2>1, <3>8 DEF Ends
    <3> QED
      BY <1>4, <3>4, <3>8, <3>10, <3>11, <3>12 DEF Begun
  <2> QED
    BY <2>2, <2>3
<1>5. CASE ~ \A s \in j.want : p.tracks[s].on
  <2>1. /\ player' = q /\ load' = [NoLoad EXCEPT !.take = t, !.todo = j.want]
        /\ job' = [j EXCEPT !.phase = "load", !.ok = FALSE]
    BY <1>5 DEF BeginLoad
  <2> HIDE DEF q
  <2>2. Decodes(p, j)
    BY <1>1, <1>5, <2>1 DEF Decodes, Sounds, Quiet
  <2> QED
    BY <1>1, <1>5, <2>1, <2>2 DEF Begun, SameMount
<1> QED
  BY <1>4, <1>5

\* The drained queue, or the request that follows.
Finishes(p) ==
    /\ settled' = settled \cup {job.id} /\ next' = NoJob
    /\ \/ next.id # 0 /\ Begun(p, next)
       \/ next.id = 0 /\ player' = p /\ job' = NoJob /\ load' = NoLoad

LEMMA FinishIs ==
    ASSUME NEW p \in PlayerSet, Sounds(p), JobOK(next, asked), FinishJob(p)
    PROVE  Finishes(p)
<1>1. CASE next.id # 0
  <2>1. BeginLoad(p, next)
    BY <1>1 DEF FinishJob
  <2>2. Begun(p, next)
    BY <1>1, <2>1, BeginIs
  <2> QED
    BY <1>1, <2>2 DEF FinishJob, Finishes
<1>2. CASE next.id = 0
  BY <1>2 DEF FinishJob, Finishes
<1> QED
  BY <1>1, <1>2

(***************************************************************************)
(* The queue's books.                                                      *)
(***************************************************************************)
LEMMA NothingOK ==
    /\ LoadOK(NoLoad) /\ RunOK(NoRun) /\ \A n \in Nat : JobOK(NoJob, n)
    /\ NoLoad.take = NoTake /\ NoRun.take = NoTake
    /\ NoJob.id = 0 /\ NoJob.phase = "idle" /\ NoJob.take = NoTake
    /\ \A s \in Stream : NoLoad.got[s] = NoTrack
<1>1. [s \in Stream |-> NoTrack] \in [Stream -> Track]
  BY NoTrackIsOff
<1>2. LoadOK(NoLoad) /\ NoLoad.take = NoTake
  BY <1>1 DEF LoadOK, NoLoad
<1>3. RunOK(NoRun) /\ NoRun.take = NoTake
  BY <1>1 DEF RunOK, RunSet, NoRun
<1>4. ASSUME NEW n \in Nat PROVE JobOK(NoJob, n)
  BY <1>4 DEF JobOK, NoJob
<1> QED
  BY <1>2, <1>3, <1>4 DEF NoLoad, NoJob

\* A load in flight: what it is for, and what its buffers are.
LoadIs(l, t, S, got) == l.take = t /\ l.todo = S /\ l.got = got

LEMMA LoadStarts ==
    ASSUME NEW t \in Take, NEW S, S # {}, S \subseteq StreamsIn[t], NEW l,
           l = [NoLoad EXCEPT !.take = t, !.todo = S]
    PROVE  LoadOK(l) /\ LoadIs(l, t, S, NoLoad.got)
<1> DEFINE none == [s \in Stream |-> NoTrack]
           m == [take |-> t, todo |-> S, got |-> none]
<1>1. l = m
  BY DEF NoLoad
<1>2. none \in [Stream -> Track] /\ S \subseteq Stream
  BY NoTrackIsOff, StreamsKnown
<1>3. \A s \in Stream : ~ none[s].on
  BY NoTrackIsOff
<1>4. NoLoad.got = none
  BY DEF NoLoad
<1> HIDE DEF none
<1>5. /\ m \in [take : Take \cup {NoTake}, todo : SUBSET Stream, got : [Stream -> Track]]
      /\ m.take = t /\ m.todo = S /\ m.got = none
  BY <1>2
<1> HIDE DEF m
<1>6. LoadOK(m) /\ LoadIs(m, t, S, NoLoad.got)
  BY <1>3, <1>4, <1>5, PlayerAssumption DEF LoadOK, LoadIs
<1> QED
  BY <1>1, <1>6

\* The job of a request that began.
JobBegun(j, n) ==
    /\ JobOK(job', n) /\ job'.id = j.id /\ job'.take = j.take
    /\ \/ /\ job'.phase = "loaded" /\ job'.ok = TRUE /\ load' = NoLoad
          /\ player'.loaded = j.take
       \/ /\ job'.phase = "load" /\ LoadIs(load', j.take, j.want, NoLoad.got) /\ LoadOK(load')
          /\ ~ player'.playing

LEMMA BegunBooks ==
    ASSUME NEW p, NEW j, NEW n \in Nat, JobOK(j, n), j.id # 0, Begun(p, j)
    PROVE  JobBegun(j, n)
<1>0. j.take \in Take /\ j.want \subseteq StreamsIn[j.take]
  BY DEF JobOK
<1>1. CASE \E s \in j.want : ~ p.tracks[s].on
  <2>1. Decodes(p, j)
    BY <1>1 DEF Begun
  <2>2. job' = [j EXCEPT !.phase = "load", !.ok = FALSE]
    BY <2>1 DEF Decodes
  <2>3. /\ job'.id = j.id /\ job'.take = j.take /\ job'.want = j.want /\ job'.phase = "load"
    BY <2>2 DEF JobOK
  <2>4. job' \in [id : 0..n, take : Take \cup {NoTake}, force : BOOLEAN, want : SUBSET Stream,
              phase : {"idle", "queued", "load", "loaded", "align"}, ok : BOOLEAN]
    BY <2>2 DEF JobOK
  <2>5. JobOK(job', n)
    BY <1>0, <2>3, <2>4 DEF JobOK
  <2> DEFINE l == load'
  <2>6. l = [NoLoad EXCEPT !.take = j.take, !.todo = j.want] /\ j.want # {}
    BY <2>1 DEF Decodes
  <2> HIDE DEF l
  <2>7. LoadOK(l) /\ LoadIs(l, j.take, j.want, NoLoad.got)
    BY <1>0, <2>6, LoadStarts
  <2> QED
    BY <2>1, <2>3, <2>5, <2>7 DEF JobBegun, Decodes, l
<1>2. CASE ~ \E s \in j.want : ~ p.tracks[s].on
  <2>1. Ends(j)
    BY <1>2 DEF Begun
  <2>2. job' = [j EXCEPT !.phase = "loaded", !.ok = TRUE]
    BY <2>1 DEF Ends
  <2>3. /\ job'.id = j.id /\ job'.take = j.take /\ job'.want = j.want /\ job'.phase = "loaded"
    BY <2>2 DEF JobOK
  <2>4. job' \in [id : 0..n, take : Take \cup {NoTake}, force : BOOLEAN, want : SUBSET Stream,
              phase : {"idle", "queued", "load", "loaded", "align"}, ok : BOOLEAN]
    BY <2>2 DEF JobOK
  <2>5. JobOK(job', n)
    BY <1>0, <2>3, <2>4 DEF JobOK
  <2>6. job'.ok = TRUE
    BY <2>2 DEF JobOK
  <2> QED
    BY <2>1, <2>3, <2>5, <2>6 DEF JobBegun, Ends
<1> QED
  BY <1>1, <1>2

\* The parts of the books a player's step leaves alone, and the rest.
BookTypes ==
    /\ archived \subseteq Stream /\ asked \in Nat /\ settled \subseteq 1..asked
    /\ stored \in [Stream -> Nat] /\ picked \in Take \cup {NoTake}
BookLoads == LoadOK(load) /\ LoadOK(ahead) /\ RunOK(run)
BookJobs ==
    /\ JobOK(job, asked) /\ JobOK(next, asked)
    /\ job.phase # "queued" /\ (job.id = 0 <=> job.phase = "idle")
    /\ next.id # 0 => job.id # 0
BookPhases ==
    /\ load.take # NoTake <=> job.phase = "load"
    /\ load.take # NoTake => load.take = job.take /\ ~ player.playing
    /\ run.take # NoTake <=> job.phase = "align"
    /\ run.take # NoTake => player.loaded \in {run.take, NoTake}
    /\ job.phase = "loaded" /\ job.ok => player.loaded = job.take

LEMMA BooksAre == PlayerBooks <=> BookTypes /\ BookLoads /\ BookJobs /\ BookPhases
  BY DEF PlayerBooks, BookTypes, BookLoads, BookJobs, BookPhases

LEMMA FinishedBooks ==
    ASSUME PlayerBooks, job.id # 0, NEW p \in PlayerSet, Sounds(p), Finishes(p), run' = NoRun,
           asked' = asked, LoadOK(ahead)'
    PROVE  /\ settled' \subseteq 1..asked' /\ BookLoads' /\ BookJobs' /\ BookPhases'
           /\ job'.phase \in {"idle", "load", "loaded"} /\ next' = NoJob
           /\ next.id = 0 => job'.id = 0 /\ player' = p
           /\ next.id # 0 => job'.id # 0 /\ Begun(p, next) /\ JobBegun(next, asked)
<1>1. settled' \subseteq 1..asked' /\ next' = NoJob
  <2>1. job.id \in 0..asked /\ asked \in Nat /\ settled \subseteq 1..asked
    BY DEF PlayerBooks, JobOK
  <2>2. settled' = settled \cup {job.id} /\ next' = NoJob
    BY DEF Finishes
  <2>3. job.id \in 1..asked
    BY <2>1
  <2> QED
    BY <2>1, <2>2, <2>3
<1>2. JobOK(next, asked)' /\ RunOK(run)' /\ next'.id = 0 /\ run'.take = NoTake
  BY <1>1, NothingOK DEF PlayerBooks
<1>3. CASE next.id = 0
  <2>1. player' = p /\ job' = NoJob /\ load' = NoLoad
    BY <1>3 DEF Finishes
  <2>2. JobOK(job, asked)' /\ LoadOK(load)' /\ job'.id = 0 /\ job'.phase = "idle" /\ load'.take = NoTake
    BY <2>1, NothingOK DEF PlayerBooks
  <2> QED
    BY <1>1, <1>2, <1>3, <2>1, <2>2 DEF BookLoads, BookJobs, BookPhases
<1>4. CASE next.id # 0
  <2>1. Begun(p, next) /\ JobOK(next, asked) /\ asked \in Nat
    BY <1>4 DEF Finishes, PlayerBooks
  <2>2. JobBegun(next, asked)
    BY <1>4, <2>1, BegunBooks
  <2>3. next.take \in Take
    BY <1>4, <2>1 DEF JobOK
  <2>4. JobOK(job, asked)' /\ job'.id = next.id /\ job'.take = next.take
    BY <2>2 DEF JobBegun
  <2>5. CASE job'.phase = "loaded" /\ job'.ok = TRUE /\ load' = NoLoad /\ player'.loaded = next.take
    <3>1. LoadOK(load)' /\ load'.take = NoTake
      BY <2>5, NothingOK
    <3> QED
      BY <1>1, <1>2, <1>4, <2>1, <2>2, <2>4, <2>5, <3>1 DEF BookLoads, BookJobs, BookPhases
  <2>6. CASE /\ job'.phase = "load" /\ LoadIs(load', next.take, next.want, NoLoad.got) /\ LoadOK(load')
             /\ ~ player'.playing
    <3>1. LoadOK(load)' /\ load'.take = next.take /\ load'.take # NoTake
      BY <2>3, <2>6, PlayerAssumption DEF LoadIs
    <3> QED
      BY <1>1, <1>2, <1>4, <2>1, <2>2, <2>4, <2>6, <3>1 DEF BookLoads, BookJobs, BookPhases
  <2> QED
    BY <2>2, <2>5, <2>6 DEF JobBegun
<1> QED
  BY <1>3, <1>4

(***************************************************************************)
(* What sounds, what is mounted, and which verdicts are in force: what a   *)
(* step has to leave of each.                                              *)
(***************************************************************************)
\* Planned anew: the streams whose verdict a run is changing are set aside.
LEMMA HeardFresh ==
    ASSUME NEW p \in PlayerSet, Drawn(p), NEW r, NEW T, NEW A,
           \A s \in Stream \ A : TakeOf[s] # r.take
    PROVE  AsPlanned(p, r, T, A)
<1>1. ASSUME NEW s \in Stream
      PROVE  /\ SourceOf(p.tracks[s]) \in Source
             /\ s \notin A => PlannedFrom(p, r, s) = SourceOf(p.tracks[s])
  <2>1. p.tracks[s] \in Track
    BY DEF PlayerSet
  <2> QED
    BY <2>1 DEF SourceOf, Source, Track, PlannedFrom
<1>2. \A s \in Stream : p.sources[s] = <<>> \/ p.sources[s] = <<SourceOf(p.tracks[s])>>
  BY DEF Drawn
<1> QED
  BY <1>1, <1>2 DEF AsPlanned

LEMMA HeardQuiet ==
    ASSUME NEW p, NEW r, NEW T, NEW A, \A s \in Stream : p.sources[s] = <<>>
    PROVE  AsPlanned(p, r, T, A)
  BY DEF AsPlanned

\* Otherwise a source is stopped, or goes on beside the track it was planned from.
GoesOnAs(p, r, q, z, s) ==
    q.sources[s] = <<>> \/ (q.sources[s] = p.sources[s] /\ PlannedFrom(q, z, s) = PlannedFrom(p, r, s))

LEMMA HeardKept ==
    ASSUME NEW p, NEW r, NEW q, NEW z, NEW T, NEW A, AsPlanned(p, r, T, A),
           \A s \in Stream : GoesOnAs(p, r, q, z, s)
    PROVE  AsPlanned(q, z, T, A)
  BY DEF AsPlanned, GoesOnAs

LEMMA SameIsHeard ==
    ASSUME NEW p, NEW q, NEW r, NEW s, q.sources[s] = p.sources[s], q.tracks[s] = p.tracks[s]
    PROVE  GoesOnAs(p, r, q, r, s)
  BY DEF GoesOnAs, PlannedFrom

LEMMA HeardNext ==
    ASSUME NEW T, NEW A, twice' = T, adrift' = A, AsPlanned(player', run', T, A)
    PROVE  HeardNow'
  BY DEF HeardNow, AsPlanned, PlannedFrom

\* A track that is mounted, or held, was so before or is of a stream that the sink has.
From(x, s) ==
    \/ ~ x.on
    \/ \E y \in {player.tracks[s], load.got[s], ahead.got[s]} : y.on /\ x.at = y.at
    \/ s \in archived /\ (player.plan[s] # Off => x.at = player.plan[s])

LEMMA MountsKept ==
    ASSUME Mounts, UNCHANGED <<archived, missed, revived>>, player'.plan = player.plan,
           \A s \in Stream : /\ From(player'.tracks[s], s)
                             /\ From(load'.got[s], s) /\ From(ahead'.got[s], s)
    PROVE  Mounts'
<1>1. ASSUME NEW s \in Stream, NEW x, From(x, s) PROVE Fine(x, s)
  BY <1>1 DEF Mounts, Fine, From
<1>2. \A s \in Stream : /\ Fine(player'.tracks[s], s)
                        /\ Fine(load'.got[s], s) /\ Fine(ahead'.got[s], s)
  BY <1>1
<1> QED
  BY <1>2 DEF Mounts, Fine

LEMMA StillFrom ==
    ASSUME NEW s \in Stream
    PROVE  /\ From(player.tracks[s], s) /\ From(load.got[s], s) /\ From(ahead.got[s], s)
           /\ From(NoTrack, s) /\ From(NoLoad.got[s], s)
  BY NothingOK, NoTrackIsOff DEF From

\* The loaded take keeps its tracks and their verdicts, whatever happens to the others.
Thins(p, q) ==
    /\ q.loaded = p.loaded
    /\ \A s \in Stream : \/ q.tracks[s].on = p.tracks[s].on /\ q.tracks[s].al = p.tracks[s].al
                         \/ TakeOf[s] # p.loaded

LEMMA ThinLoaded ==
    ASSUME NEW p \in PlayerSet, NEW q, Thins(p, q)
    PROVE  /\ loadedTracks(q) = loadedTracks(p) /\ loadedTracks(p) \subseteq Stream
           /\ \A s \in loadedTracks(p) : q.tracks[s].al = p.tracks[s].al
<1>1. p.loaded = q.loaded /\ p.loaded \in Take \cup {NoTake}
  BY DEF Thins, PlayerSet
<1>2. CASE p.loaded = NoTake
  BY <1>1, <1>2, LoadedIs
<1>3. CASE p.loaded \in Take
  <2>1. \A s \in StreamsIn[p.loaded] : s \in Stream /\ TakeOf[s] = p.loaded
    BY <1>3, StreamsKnown
  <2>2. ASSUME NEW s \in StreamsIn[p.loaded]
        PROVE  q.tracks[s].on = p.tracks[s].on /\ q.tracks[s].al = p.tracks[s].al
    BY <2>1 DEF Thins
  <2>3. /\ loadedTracks(p) = {s \in StreamsIn[p.loaded] : p.tracks[s].on}
        /\ loadedTracks(q) = {s \in StreamsIn[p.loaded] : q.tracks[s].on}
    BY <1>1, <1>3, LoadedIs
  <2> QED
    BY <2>1, <2>2, <2>3
<1> QED
  BY <1>1, <1>2, <1>3

LEMMA ForcedKept ==
    ASSUME PlayerInv, Thins(player, player'), UNCHANGED <<run, job, stored, owed>>
    PROVE  Forced'
<1> DEFINE q == player'
<1>1. player \in PlayerSet /\ Forced
  BY DEF PlayerInv, PlayerGood, Good
<1>2. /\ loadedTracks(q) = loadedTracks(player) /\ loadedTracks(player) \subseteq Stream
      /\ \A s \in loadedTracks(player) : q.tracks[s].al = player.tracks[s].al
      /\ q.loaded = player.loaded
  <2> HIDE DEF q
  <2>1. Thins(player, q)
    BY DEF q
  <2> QED
    BY <1>1, <2>1, ThinLoaded DEF Thins
<1> HIDE DEF q
<1>3. Unloaded => InForce(q, stored, owed)
  BY <1>1, <1>2 DEF Forced, InForce
<1>4. run.take # NoTake /\ q.loaded = run.take =>
        /\ \A s \in loadedTracks(q) \ owed : q.tracks[s].al = 0 => stored[s] = 0
        /\ \A s \in StreamsIn[run.take] \ owed :
              stored[s] # 0 => run.before[s].al \in {stored[s], 0}
  BY <1>1, <1>2 DEF Forced, Measures
<1> QED
  BY <1>3, <1>4 DEF Forced, Measures, Unloaded, InForce, loadedTracks, takeTracks, q

LEMMA BooksStay ==
    ASSUME PlayerBooks, UNCHANGED <<load, run, job, next, settled, asked, picked>>,
           archived' \subseteq archived, stored' \in [Stream -> Nat], LoadOK(ahead'),
           load.take # NoTake => ~ player'.playing,
           player'.loaded \in {player.loaded, NoTake},
           job.phase = "loaded" => player'.loaded = player.loaded
    PROVE  PlayerBooks'
<1>1. BookTypes /\ BookLoads /\ BookJobs /\ BookPhases
  BY BooksAre
<1>2. BookTypes'
  BY <1>1 DEF BookTypes
<1>3. BookLoads'
  BY <1>1 DEF BookLoads
<1>4. BookJobs'
  BY <1>1 DEF BookJobs
<1>5. BookPhases'
  BY <1>1 DEF BookPhases
<1> QED
  BY <1>2, <1>3, <1>4, <1>5 DEF PlayerBooks, BookTypes, BookLoads, BookJobs, BookPhases

(***************************************************************************)
(* The transport.                                                          *)
(***************************************************************************)
\* Takes other than the loaded one may have given their tracks back.
Shrinks(p, q) ==
    /\ q.plan = p.plan /\ q.loaded = p.loaded
    /\ \A s \in Stream : \/ q.tracks[s] = p.tracks[s]
                         \/ TakeOf[s] # p.loaded /\ ~ q.tracks[s].on

\* The look-ahead goes on, gave up, or took up a take it holds nothing of yet.
NewAhead == /\ LoadOK(ahead')
            /\ ahead' = ahead \/ \A s \in Stream : ahead'.got[s] = NoTrack

LEMMA Transported ==
    ASSUME PlayerInv,
           UNCHANGED <<archived, load, run, job, next, settled, asked, stored, picked,
                       missed, revived, owed>>,
           Good(player'), Shrinks(player, player'),
           load.take # NoTake => ~ player'.playing,
           HeardNow', NewAhead
    PROVE  PlayerInv'
<1>1. PlayerBooks /\ Mounts
  BY DEF PlayerInv
<1>2. PlayerGood'
  BY DEF PlayerGood, Good, Sounds, Quiet
<1>3. PlayerBooks'
  <2>1. stored' \in [Stream -> Nat] /\ archived' \subseteq archived /\ player'.loaded = player.loaded
        /\ LoadOK(ahead')
    BY <1>1 DEF PlayerBooks, Shrinks, NewAhead
  <2> QED
    BY <1>1, <2>1, BooksStay
<1>4. Mounts'
  <2>1. ASSUME NEW s \in Stream
        PROVE  /\ From(player'.tracks[s], s) /\ From(load'.got[s], s) /\ From(ahead'.got[s], s)
    <3>1. From(player'.tracks[s], s)
      BY DEF Shrinks, From
    <3>2. From(load'.got[s], s) /\ From(ahead'.got[s], s)
      BY StillFrom DEF NewAhead
    <3> QED
      BY <3>1, <3>2
  <2>2. player'.plan = player.plan
    BY DEF Shrinks
  <2> QED
    BY <1>1, <2>1, <2>2, MountsKept
<1>5. Forced'
  <2>1. Thins(player, player')
    BY DEF Shrinks, Thins
  <2> QED
    BY <2>1, ForcedKept
<1> QED
  BY <1>2, <1>3, <1>4, <1>5 DEF PlayerInv

LEMMA FreshShrinks == ASSUME NEW p, NEW q, SameMount(p, q) PROVE Shrinks(p, q)
  BY DEF SameMount, Shrinks

LEMMA UnmountedShrinks ==
    ASSUME NEW p, NEW q, NEW T, Unmounted(p, q, T), p.loaded \notin T
    PROVE  Shrinks(p, q)
  BY NoTrackIsOff DEF Unmounted, Shrinks

LEMMA ShrinksOn ==
    ASSUME NEW p, NEW q, NEW r, Shrinks(p, q), Shrinks(q, r) PROVE Shrinks(p, r)
  BY DEF Shrinks

LEMMA EnsureKeeps ==
    ASSUME PlayerInv, NEW p \in PlayerSet, ensureLookahead(p) PROVE NewAhead
<1>1. LoadOK(ahead)
  BY DEF PlayerInv, PlayerBooks
<1>2. CASE ahead' = ahead
  BY <1>1, <1>2 DEF NewAhead
<1>3. ASSUME NEW t \in Take, Takes(t, p) PROVE NewAhead
  <2> DEFINE S == Planned(p, t)
             a == ahead'
  <2>1. S # {} /\ S \subseteq StreamsIn[t]
    BY <1>3 DEF Takes, Planned
  <2>2. a = [NoLoad EXCEPT !.take = t, !.todo = S]
    BY <1>3 DEF Takes
  <2> HIDE DEF S, a
  <2>3. LoadOK(a) /\ LoadIs(a, t, S, NoLoad.got)
    BY <2>1, <2>2, LoadStarts
  <2> QED
    BY <2>3, NothingOK DEF NewAhead, LoadIs, a
<1> QED
  BY <1>2, <1>3, EnsureIs

\* What was planned anew is heard as planned.
LEMMA ReplannedIsHeard ==
    ASSUME PlayerInv, player' \in PlayerSet, Drawn(player'), Replanned, run' = run
    PROVE  HeardNow'
<1> DEFINE q == player'
           A == IF run = NoRun THEN {} ELSE StreamsIn[run.take]
<1>1. q \in PlayerSet /\ Drawn(q) /\ twice' = {} /\ adrift' = A
  BY DEF Replanned
<1>2. RunOK(run)
  BY DEF PlayerInv, PlayerBooks
<1>3. \A s \in Stream \ A : TakeOf[s] # run.take
  <2>1. CASE run = NoRun
    BY <2>1, NothingOK, StreamsKnown, PlayerAssumption
  <2>2. CASE run # NoRun
    BY <2>2, StreamsKnown
  <2> QED
    BY <2>1, <2>2
<1> HIDE DEF q, A
<1>4. AsPlanned(q, run, {}, A)
  BY <1>1, <1>3, HeardFresh
<1> QED
  BY <1>1, <1>4, HeardNext DEF q

\* From a freshly planned player, the takes behind the playhead released.
LEMMA ReleasedFresh ==
    ASSUME NEW p \in PlayerSet, NEW q \in PlayerSet, Fresh(p, q)
    PROVE  /\ released(q) \in PlayerSet /\ Sounds(released(q)) /\ Shrinks(p, released(q))
           /\ Drawn(released(q))
           /\ released(q).playing = q.playing
<1> DEFINE z == released(q)
           T == takesToRelease(q)
<1>1. Unmounted(q, z, T) /\ q.loaded \notin T
  BY ReleasedIs
<1>2. Sounds(q) /\ Drawn(q) /\ SameMount(p, q)
  BY DEF Fresh
<1> HIDE DEF z, T
<1>3. Sounds(z) /\ Drawn(z)
  BY <1>1, <1>2, UnmountedSounds
<1>4. Shrinks(q, z) /\ Shrinks(p, q)
  BY <1>1, <1>2, FreshShrinks, UnmountedShrinks
<1>5. Shrinks(p, z)
  BY <1>4, ShrinksOn
<1>6. z \in PlayerSet /\ z.playing = q.playing
  BY <1>1 DEF Unmounted, SameClock
<1> QED
  BY <1>3, <1>5, <1>6 DEF z


LEMMA PlayKeeps == ASSUME PlayerInv, Play PROVE PlayerInv'
<1> DEFINE from == IF player.startPos >= duration(player) THEN 0 ELSE player.startPos
           p == schedule(stopSources(player), from)
           q == player'
<1>1. player \in PlayerSet /\ Sounds(player)
  BY DEF PlayerInv, PlayerGood, Good
<1>2. from \in Nat
  BY <1>1 DEF PlayerSet
<1>3. q = released(p) /\ ensureLookahead(p)
  BY DEF Play
<1>4. /\ UNCHANGED <<archived, load, run, job, next, settled, asked, stored, picked,
                     missed, revived, owed>>
      /\ load = NoLoad /\ loadedTracks(player) # {} /\ Replanned
  BY DEF Play, playActionReady, playerLoaded
<1> HIDE DEF from, q
<1>5. Fresh(player, p)
  BY <1>1, <1>2, ScheduleIs
<1> HIDE DEF p
<1>6. p \in PlayerSet
  BY <1>5 DEF Fresh
<1>7. q \in PlayerSet /\ Sounds(q) /\ Shrinks(player, q) /\ Drawn(q)
  BY <1>1, <1>3, <1>5, <1>6, ReleasedFresh
<1>8. NewAhead
  BY <1>3, <1>6, EnsureKeeps
<1>9. HeardNow'
  BY <1>4, <1>7, ReplannedIsHeard DEF q
<1>10. q.loaded # NoTake
  BY <1>4, <1>7 DEF Shrinks, loadedTracks
<1>11. Good(q) /\ load.take = NoTake
  BY <1>4, <1>7, <1>10, NothingOK DEF Good
<1> QED
  BY <1>4, <1>7, <1>8, <1>9, <1>11, Transported DEF q

LEMMA PauseKeeps == ASSUME PlayerInv, Pause PROVE PlayerInv'
<1> DEFINE q == player'
<1>1. player \in PlayerSet /\ Sounds(player) /\ q = pause(player) /\ LoadOK(ahead)
  BY DEF PlayerInv, PlayerGood, PlayerBooks, Good, Pause
<1> HIDE DEF q
<1>2. Fresh(player, q) /\ q.playing = FALSE
  BY <1>1, PauseIs
<1>3. q \in PlayerSet /\ Sounds(q) /\ Shrinks(player, q) /\ Quiet(q)
  BY <1>2, FreshShrinks DEF Fresh, Sounds
<1>4. UNCHANGED <<archived, load, ahead, run, job, next, settled, asked, stored, picked, marks>>
  BY DEF Pause
<1>5. AsPlanned(q, run, twice, adrift)
  BY <1>2, <1>3, HeardQuiet DEF Quiet
<1>6. HeardNow'
  BY <1>4, <1>5, HeardNext DEF q, marks
<1>7. Good(q) /\ NewAhead
  BY <1>1, <1>2, <1>3, <1>4 DEF Good, NewAhead
<1> QED
  BY <1>2, <1>3, <1>4, <1>6, <1>7, Transported DEF q, marks

LEMMA SeekKeeps == ASSUME PlayerInv, NEW to \in Nat, Seek(to) PROVE PlayerInv'
<1> DEFINE clamped == Least({to, duration(player)})
           p == IF player.playing THEN schedule(stopSources(player), clamped)
                ELSE [player EXCEPT !.startPos = clamped]
           q == player'
<1>1. player \in PlayerSet /\ Sounds(player)
  BY DEF PlayerInv, PlayerGood, Good
<1>2. clamped \in Nat
  <2> DEFINE T == {to, duration(player)}
  <2>1. T \in SUBSET Nat /\ T # {}
    BY <1>1, PositionTyped
  <2> HIDE DEF T
  <2> QED
    BY <2>1, LeastIs DEF T
<1>3. q = released(p) /\ ensureLookahead(p)
  BY DEF Seek
<1>4. /\ UNCHANGED <<archived, load, run, job, next, settled, asked, stored, picked,
                     missed, revived, owed>>
      /\ loadedTracks(player) # {} /\ Replanned
  BY DEF Seek, playerLoaded
<1> HIDE DEF clamped, q
<1>5. Fresh(player, p) /\ (~ player.playing => ~ p.playing)
  <2>1. CASE player.playing
    BY <1>1, <1>2, <2>1, ScheduleIs
  <2>2. CASE ~ player.playing
    <3>1. p = [player EXCEPT !.startPos = clamped]
      BY <2>2
    <3> HIDE DEF p
    <3>2. p \in PlayerSet
      BY <1>1, <1>2, <3>1 DEF PlayerSet
    <3>3. SameMount(player, p) /\ p.sources = player.sources
      BY <1>1, <3>1 DEF PlayerSet, SameMount
    <3>4. p.playing = player.playing
      BY <1>1, <3>1 DEF PlayerSet
    <3>5. Quiet(p) /\ ~ p.playing
      BY <1>1, <2>2, <3>3, <3>4 DEF Sounds, Quiet
    <3> QED
      BY <3>2, <3>3, <3>5, QuietIsFresh DEF Fresh
  <2> QED
    BY <2>1, <2>2
<1> HIDE DEF p
<1>6. p \in PlayerSet
  BY <1>5 DEF Fresh
<1>7. /\ q \in PlayerSet /\ Sounds(q) /\ Shrinks(player, q) /\ Drawn(q)
      /\ q.playing = p.playing
  BY <1>1, <1>3, <1>5, <1>6, ReleasedFresh
<1>8. NewAhead
  BY <1>3, <1>6, EnsureKeeps
<1>9. HeardNow'
  BY <1>4, <1>7, ReplannedIsHeard DEF q
<1>10. load.take # NoTake => ~ q.playing
  BY <1>5, <1>7 DEF PlayerInv, PlayerBooks
<1>11. q.loaded # NoTake
  BY <1>4, <1>7 DEF Shrinks, loadedTracks
<1>12. Good(q)
  BY <1>7, <1>11 DEF Good
<1> QED
  BY <1>4, <1>7, <1>8, <1>9, <1>10, <1>12, Transported DEF q

LEMMA TickKeeps == ASSUME PlayerInv, Tick PROVE PlayerInv'
<1> DEFINE later == player.elapsed + 1
           p == [player EXCEPT !.elapsed = later]
           z == released(p)
           T == takesToRelease(p)
           q == player'
<1>1. player \in PlayerSet /\ Sounds(player) /\ player.playing /\ player.loaded # NoTake
  BY DEF PlayerInv, PlayerGood, Good, Tick
<1>2. later \in Nat /\ player.elapsed \in Nat /\ player.startPos \in Nat
  BY <1>1 DEF PlayerSet
<1>3. ensureLookahead(p) /\ (q = z \/ q = pause(z))
  BY <1>1 DEF Tick, PlayerSet
<1>4. UNCHANGED <<archived, load, run, job, next, settled, asked, stored, picked, marks>>
  BY DEF Tick
<1>5. later = player.elapsed + 1
  OBVIOUS
<1> HIDE DEF later, q
<1>6. /\ p \in PlayerSet /\ SameMount(player, p) /\ p.sources = player.sources
      /\ p.startPos = player.startPos /\ p.elapsed = later
  <2>1. p \in PlayerSet
    BY <1>1, <1>2 DEF PlayerSet
  <2>2. SameMount(player, p) /\ p.sources = player.sources /\ p.startPos = player.startPos
        /\ p.elapsed = later
    BY <1>1, <1>2 DEF PlayerSet, SameMount
  <2> QED
    BY <2>1, <2>2
<1>7. p.playing
  BY <1>1, <1>2 DEF PlayerSet
<1> HIDE DEF p, T, z
<1>8. Sounds(p)
  <2>1. Quiet(p)
    BY <1>7 DEF Quiet
  <2>2. ASSUME NEW s \in Stream, p.tracks[s].on, p.tracks[s].at + LenOf[s] > p.startPos + p.elapsed
        PROVE  p.sources[s] # <<>>
    <3>1. player.tracks[s].on /\ player.tracks[s].at \in Nat /\ LenOf[s] \in Nat
      BY <1>1, <1>6, <2>2, PlayerAssumption DEF SameMount, PlayerSet, Track
    <3>2. player.tracks[s].at + LenOf[s] > player.startPos + player.elapsed
      BY <1>2, <1>5, <1>6, <2>2, <3>1 DEF SameMount
    <3> QED
      BY <1>1, <1>6, <3>1, <3>2 DEF Sounds
  <2>3. ASSUME NEW s \in Stream, ~ p.tracks[s].on PROVE p.sources[s] = <<>>
    BY <1>1, <1>6, <2>3 DEF Sounds, SameMount
  <2> QED
    BY <2>1, <2>2, <2>3 DEF Sounds
<1>9. Unmounted(p, z, T) /\ p.loaded \notin T
  BY <1>6, ReleasedIs DEF z, T
<1>10. z \in PlayerSet /\ Sounds(z) /\ Shrinks(p, z)
  <2>1. z \in PlayerSet
    BY <1>9 DEF Unmounted
  <2>2. Sounds(z)
    BY <1>6, <1>8, <1>9, UnmountedSounds
  <2>3. Shrinks(p, z)
    BY <1>9, UnmountedShrinks
  <2> QED
    BY <2>1, <2>2, <2>3
<1>11. Shrinks(player, z)
  <2>1. Shrinks(player, p)
    BY <1>6, FreshShrinks
  <2> QED
    BY <1>10, <2>1, ShrinksOn
<1>12. AsPlanned(z, run, twice, adrift)
  <2>1. ASSUME NEW s \in Stream PROVE GoesOnAs(player, run, z, run, s)
    <3>1. CASE TakeOf[s] \in T
      BY <1>9, <3>1 DEF Unmounted, GoesOnAs
    <3>2. CASE TakeOf[s] \notin T
      <4>1. z.sources[s] = player.sources[s] /\ z.tracks[s] = player.tracks[s]
        BY <1>6, <1>9, <3>2 DEF Unmounted, SameMount
      <4> QED
        BY <4>1, SameIsHeard
    <3> QED
      BY <3>1, <3>2
  <2>2. AsPlanned(player, run, twice, adrift)
    BY DEF PlayerInv, HeardNow
  <2> QED
    BY <2>1, <2>2, HeardKept
<1>13. /\ q \in PlayerSet /\ Sounds(q) /\ Shrinks(player, q)
       /\ AsPlanned(q, run, twice, adrift)
  <2>1. CASE q = z
    BY <1>10, <1>11, <1>12, <2>1
  <2>2. CASE q = pause(z)
    <3>1. Fresh(z, q) /\ q.playing = FALSE
      BY <1>10, <2>2, PauseIs
    <3>2. q \in PlayerSet /\ Sounds(q) /\ Shrinks(z, q) /\ Quiet(q)
      BY <3>1, FreshShrinks DEF Fresh, Sounds
    <3>3. AsPlanned(q, run, twice, adrift)
      BY <3>1, <3>2, HeardQuiet DEF Quiet
    <3>4. Shrinks(player, q)
      BY <1>11, <3>2, ShrinksOn
    <3> QED
      BY <3>2, <3>3, <3>4
  <2> QED
    BY <1>3, <2>1, <2>2
<1>14. HeardNow'
  BY <1>4, <1>13, HeardNext DEF q, marks
<1>15. Good(q) /\ NewAhead /\ load.take = NoTake
  <2>1. Good(q)
    BY <1>1, <1>13 DEF Good, Shrinks
  <2>2. NewAhead
    BY <1>3, <1>6, EnsureKeeps
  <2> QED
    BY <1>1, <2>1, <2>2 DEF PlayerInv, PlayerBooks
<1> QED
  BY <1>4, <1>13, <1>14, <1>15, Transported DEF q, marks

LEMMA AheadFailsKeeps == ASSUME PlayerInv, AheadFails PROVE PlayerInv'
<1>1. /\ UNCHANGED <<archived, load, run, job, next, settled, asked, stored, picked, marks>>
      /\ player' = player /\ ahead' = NoLoad
  BY DEF AheadFails
<1>2. Good(player') /\ Shrinks(player, player') /\ (load.take # NoTake => ~ player'.playing)
  BY <1>1 DEF PlayerInv, PlayerGood, PlayerBooks, Shrinks
<1>3. HeardNow'
  <2>1. AsPlanned(player', run', twice, adrift)
    BY <1>1 DEF PlayerInv, HeardNow
  <2> QED
    BY <1>1, <2>1, HeardNext DEF marks
<1>4. NewAhead
  BY <1>1, NothingOK DEF NewAhead
<1> QED
  BY <1>1, <1>2, <1>3, <1>4, Transported DEF marks

(***************************************************************************)
(* What happens around the player.                                         *)
(***************************************************************************)
\* A new plan moves the mounted clips to their places, and unmounts what it dropped.
Replans(q, v) ==
    /\ q \in PlayerSet /\ Sounds(q) /\ q.plan = v /\ q.loaded = player.loaded
    /\ q.playing = player.playing /\ Thins(player, q)
    /\ \A s \in Stream : q.tracks[s].on =>
          player.tracks[s].on /\ (v[s] = Off \/ q.tracks[s].at = v[s])
    /\ \/ Drawn(q) /\ Replanned
       \/ /\ \A s \in Stream : q.tracks[s].on => q.tracks[s] = player.tracks[s]
          /\ \A s \in Stream : q.sources[s] = <<>> \/ q.sources[s] = player.sources[s]
          /\ UNCHANGED <<twice, adrift>>

LEMMA PlanSet ==
    ASSUME NEW p \in PlayerSet, NEW v \in [Stream -> Nat]
    PROVE  /\ [p EXCEPT !.plan = v] \in PlayerSet
           /\ [p EXCEPT !.plan = v].tracks = p.tracks
           /\ [p EXCEPT !.plan = v].sources = p.sources
           /\ [p EXCEPT !.plan = v].plan = v
           /\ [p EXCEPT !.plan = v].loaded = p.loaded
           /\ SameClock(p, [p EXCEPT !.plan = v])
<1>1. [p EXCEPT !.plan = v] \in PlayerSet
  BY DEF PlayerSet
<1>2. /\ [p EXCEPT !.plan = v].tracks = p.tracks
      /\ [p EXCEPT !.plan = v].sources = p.sources
      /\ [p EXCEPT !.plan = v].plan = v
      /\ [p EXCEPT !.plan = v].loaded = p.loaded
  BY DEF PlayerSet
<1>3. SameClock(p, [p EXCEPT !.plan = v])
  BY DEF PlayerSet, SameClock
<1> QED
  BY <1>1, <1>2, <1>3

LEMMA ReplansIs ==
    ASSUME player \in PlayerSet, Sounds(player), NEW v \in [Stream -> Nat], setSessionPlan(v)
    PROVE  Replans(player', v)
<1> DEFINE known == [player EXCEPT !.plan = v]
           T == {t \in mountedTakeIds(known) : Planned(known, t) = {} /\ t # known.loaded}
           kept == unmountTakes(known, T)
           moved == {s \in Stream : /\ kept.tracks[s].on
                                    /\ v[s] \notin {Off, kept.tracks[s].at}}
           f == [s \in Stream |-> IF s \in moved THEN [kept.tracks[s] EXCEPT !.at = v[s]]
                                                 ELSE kept.tracks[s]]
           pointed == [kept EXCEPT !.tracks = f]
           q == player'
<1>1. /\ q = IF moved # {} THEN reschedule(pointed) ELSE pointed
      /\ IF moved # {} THEN Replanned ELSE UNCHANGED <<twice, adrift>>
  BY DEF setSessionPlan
<1> HIDE DEF q
<1>2. /\ known \in PlayerSet /\ known.tracks = player.tracks /\ known.plan = v
      /\ known.sources = player.sources /\ known.loaded = player.loaded /\ SameClock(player, known)
  BY PlanSet
<1> HIDE DEF known
<1>3. T \in SUBSET Take /\ player.loaded \notin T
  <2>1. \A t \in mountedTakeIds(known) : t \in Take
    BY MountedAre
  <2> QED
    BY <1>2, <2>1
<1> HIDE DEF T
<1>4. Unmounted(known, kept, T)
  BY <1>2, <1>3, UnmountIs
<1> HIDE DEF kept
<1>5. Sounds(known)
  <2>1. SameClip(player, known)
    BY <1>2 DEF SameClip
  <2> QED
    BY <1>2, <2>1, SameClipSounds
<1>6. Sounds(kept)
  BY <1>2, <1>4, <1>5, UnmountedSounds
<1>7. /\ kept \in PlayerSet /\ kept.plan = v /\ kept.loaded = player.loaded
      /\ SameClock(player, kept)
      /\ \A s \in Stream : kept.tracks[s] = IF TakeOf[s] \in T THEN NoTrack ELSE player.tracks[s]
      /\ \A s \in Stream : kept.sources[s] = <<>> \/ kept.sources[s] = player.sources[s]
  BY <1>2, <1>4 DEF Unmounted, SameClock
<1>8. \A s \in Stream : kept.tracks[s] \in Track /\ v[s] \in Nat
  BY <1>7 DEF PlayerSet
<1>9. ASSUME NEW s \in Stream
      PROVE  /\ f[s] \in Track /\ f[s].on = kept.tracks[s].on /\ f[s].al = kept.tracks[s].al
             /\ (s \in moved => f[s].at = v[s]) /\ (s \notin moved => f[s] = kept.tracks[s])
  BY <1>8, PlaceSet
<1>10. f \in [Stream -> Track]
  BY <1>9
<1>11. \A s \in Stream : s \in moved <=> kept.tracks[s].on /\ v[s] \notin {Off, kept.tracks[s].at}
  OBVIOUS
<1> HIDE DEF f, moved
<1>12. /\ pointed \in PlayerSet /\ pointed.tracks = f /\ pointed.sources = kept.sources
       /\ pointed.plan = v /\ pointed.loaded = player.loaded /\ SameClock(player, pointed)
  BY <1>7, <1>10, TracksAre DEF SameClock
<1> HIDE DEF pointed
<1>13. \A s \in Stream : f[s].on => player.tracks[s].on /\ (v[s] = Off \/ f[s].at = v[s])
  BY <1>7, <1>9, <1>11, NoTrackIsOff
<1>14. \A s \in Stream : \/ f[s].on = player.tracks[s].on /\ f[s].al = player.tracks[s].al
                         \/ TakeOf[s] # player.loaded
  BY <1>3, <1>7, <1>9, NoTrackIsOff
<1>15. CASE moved = {}
  <2>1. q = pointed /\ UNCHANGED <<twice, adrift>>
    BY <1>1, <1>15
  <2>2. \A s \in Stream : f[s] = kept.tracks[s]
    BY <1>9, <1>15
  <2>3. \A s \in Stream : f[s].on => f[s] = player.tracks[s]
    BY <1>7, <2>2, NoTrackIsOff
  <2>5. Sounds(q)
    <3>1. SameClip(kept, q) /\ SameClock(kept, q)
      BY <1>7, <1>12, <2>1, <2>2 DEF SameClip, SameClock
    <3> QED
      BY <1>6, <1>12, <2>1, <3>1, SameClipSounds
  <2>6. Thins(player, q)
    BY <1>12, <1>14, <2>1 DEF Thins
  <2> QED
    BY <1>7, <1>12, <1>13, <2>1, <2>3, <2>5, <2>6 DEF Replans, SameClock, q
<1>16. CASE moved # {}
  <2>1. q = reschedule(pointed) /\ Replanned
    BY <1>1, <1>16
  <2>2. Quiet(pointed)
    BY <1>6, <1>7, <1>12 DEF Sounds, Quiet, SameClock
  <2>3. Fresh(pointed, q) /\ q.playing = pointed.playing
    BY <1>12, <2>1, <2>2, RescheduleIs
  <2>4. /\ q \in PlayerSet /\ q.tracks = f /\ q.plan = v /\ q.loaded = player.loaded
        /\ Sounds(q) /\ Drawn(q)
    BY <1>12, <2>3 DEF Fresh, SameMount
  <2>5. q.playing = player.playing
    BY <1>12, <2>3 DEF SameClock
  <2>6. Thins(player, q)
    BY <1>14, <2>4 DEF Thins
  <2> QED
    BY <1>13, <2>1, <2>4, <2>5, <2>6 DEF Replans, q
<1> QED
  BY <1>15, <1>16

LEMMA ReplanKeeps ==
    ASSUME PlayerInv, NEW v \in [Stream -> Nat], setSessionPlan(v), AtRest,
           UNCHANGED <<archived, load, ahead, run, job, next, settled, asked, stored,
                       picked, revived, owed>>
    PROVE  PlayerInv'
<1> DEFINE q == player'
<1>1. /\ player \in PlayerSet /\ Sounds(player) /\ PlayerBooks /\ LoadOK(ahead) /\ Mounts
      /\ (player.loaded = NoTake => ~ player.playing)
      /\ AsPlanned(player, run, twice, adrift)
  BY DEF PlayerInv, PlayerGood, Good, PlayerBooks, HeardNow
<1>2. Replans(q, v)
  BY <1>1, ReplansIs
<1> HIDE DEF q
<1>3. /\ q \in PlayerSet /\ Sounds(q) /\ q.plan = v /\ q.loaded = player.loaded
      /\ q.playing = player.playing /\ Thins(player, q)
      /\ \A s \in Stream : q.tracks[s].on =>
            player.tracks[s].on /\ (v[s] = Off \/ q.tracks[s].at = v[s])
  BY <1>2 DEF Replans
<1>4. Good(q)
  BY <1>1, <1>3 DEF Good
<1>5. PlayerGood'
  BY <1>4 DEF PlayerGood, Good, Sounds, Quiet, q
<1>6. PlayerBooks'
  <2>1. /\ stored' \in [Stream -> Nat] /\ archived' \subseteq archived /\ player'.loaded = player.loaded
        /\ (load.take # NoTake => ~ player'.playing) /\ LoadOK(ahead')
    BY <1>1, <1>3 DEF PlayerBooks, q
  <2> QED
    BY <1>1, <2>1, BooksStay
<1>7. Mounts'
  <2>1. missed' = {s \in Held : v[s] # Off /\ \E got \in {load.got, ahead.got} :
                                   got[s].on /\ got[s].at # v[s]}
    BY DEF setSessionPlan
  <2>2. ASSUME NEW s \in Stream, NEW x \in {load.got[s], ahead.got[s]}, x.on
        PROVE  /\ s \in missed' \/ v[s] = Off \/ x.at = v[s]
               /\ s \in revived \/ s \in archived
    <3>1. s \in Held
      BY <2>2 DEF Held
    <3>2. s \in missed' \/ v[s] = Off \/ x.at = v[s]
      BY <2>1, <2>2, <3>1
    <3> QED
      BY <1>1, <2>2, <3>2 DEF Mounts, Fine
  <2>3. ASSUME NEW s \in Stream, q.tracks[s].on
        PROVE  /\ v[s] = Off \/ q.tracks[s].at = v[s]
               /\ s \in revived \/ s \in archived
    BY <1>1, <1>3, <2>3 DEF Mounts, Fine
  <2> QED
    BY <1>3, <2>2, <2>3 DEF Mounts, Fine, q
<1>8. HeardNow'
  <2>1. CASE Drawn(q) /\ Replanned
    BY <1>3, <2>1, ReplannedIsHeard DEF q
  <2>2. CASE /\ \A s \in Stream : q.tracks[s].on => q.tracks[s] = player.tracks[s]
             /\ \A s \in Stream : q.sources[s] = <<>> \/ q.sources[s] = player.sources[s]
             /\ UNCHANGED <<twice, adrift>>
    <3>1. ASSUME NEW s \in Stream PROVE GoesOnAs(player, run, q, run, s)
      <4>1. CASE q.sources[s] = <<>>
        BY <4>1 DEF GoesOnAs
      <4>2. CASE q.sources[s] # <<>>
        <5>1. q.sources[s] = player.sources[s] /\ q.tracks[s] = player.tracks[s]
          BY <1>3, <2>2, <4>2 DEF Sounds
        <5> QED
          BY <5>1, SameIsHeard
      <4> QED
        BY <4>1, <4>2
    <3>2. AsPlanned(q, run, twice, adrift)
      BY <1>1, <3>1, HeardKept
    <3> QED
      BY <2>2, <3>2, HeardNext DEF q
  <2> QED
    BY <1>2, <2>1, <2>2 DEF Replans
<1>9. Forced'
  BY <1>3, ForcedKept DEF q
<1> QED
  BY <1>5, <1>6, <1>7, <1>8, <1>9 DEF PlayerInv

LEMMA NewPlan ==
    ASSUME NEW p \in PlayerSet, NEW s \in Stream, NEW n \in Nat
    PROVE  [p.plan EXCEPT ![s] = n] \in [Stream -> Nat]
  BY DEF PlayerSet

LEMMA MoveKeeps ==
    ASSUME PlayerInv, NEW s \in Stream, NEW at \in OtherStart[s], MoveClip(s, at)
    PROVE  PlayerInv'
<1> DEFINE v == [player.plan EXCEPT ![s] = at]
<1>1. player \in PlayerSet
  BY DEF PlayerInv, PlayerGood, Good
<1>2. at \in Nat
  BY PlayerAssumption
<1>3. v \in [Stream -> Nat]
  BY <1>1, <1>2, NewPlan
<1>4. /\ setSessionPlan(v) /\ AtRest
      /\ UNCHANGED <<archived, load, ahead, run, job, next, settled, asked, stored, picked,
                     revived, owed>>
  BY DEF MoveClip
<1> HIDE DEF v
<1> QED
  BY <1>3, <1>4, ReplanKeeps

LEMMA DropKeeps == ASSUME PlayerInv, NEW s \in Stream, DropDeleted(s) PROVE PlayerInv'
<1> DEFINE v == [player.plan EXCEPT ![s] = Off]
<1>1. player \in PlayerSet /\ Off \in Nat
  BY DEF PlayerInv, PlayerGood, Good, Off
<1>2. v \in [Stream -> Nat]
  BY <1>1, NewPlan
<1>3. /\ setSessionPlan(v) /\ AtRest
      /\ UNCHANGED <<archived, load, ahead, run, job, next, settled, asked, stored, picked,
                     revived, owed>>
  BY DEF DropDeleted
<1> HIDE DEF v
<1> QED
  BY <1>2, <1>3, ReplanKeeps

\* A deleted stream is unmounted; with the last one, its take.
Cuts(s, q) ==
    /\ q \in PlayerSet /\ Sounds(q) /\ q.plan = player.plan
    /\ (~ player.playing => ~ q.playing) /\ (q.loaded = NoTake => ~ q.playing)
    /\ \A x \in Stream : IF x = s THEN ~ q.tracks[x].on ELSE q.tracks[x] = player.tracks[x]
    /\ q.loaded \in {player.loaded, NoTake}
    /\ \/ Drawn(q) /\ Replanned
       \/ q = player /\ UNCHANGED <<twice, adrift>>

LEMMA CutIs ==
    ASSUME player \in PlayerSet, Sounds(player), player.loaded = NoTake => ~ player.playing,
           NEW s \in Stream, DeleteStream(s)
    PROVE  Cuts(s, player')
<1> DEFINE f == [player.tracks EXCEPT ![s] = NoTrack]
           g == [player.sources EXCEPT ![s] = <<>>]
           p == [player EXCEPT !.tracks[s] = NoTrack, !.sources[s] = <<>>]
           q == player'
<1>1. IF ~ player.tracks[s].on THEN q = player /\ UNCHANGED <<twice, adrift>>
      ELSE /\ q = IF loadedTracks(p) = {} THEN [pause(p) EXCEPT !.loaded = NoTake, !.startPos = 0]
                  ELSE reschedule(p)
           /\ Replanned
  BY DEF DeleteStream
<1>2. p = [player EXCEPT !.tracks = f, !.sources = g]
  OBVIOUS
<1>3. f \in [Stream -> Track] /\ g \in [Stream -> Seq(Source)]
  BY NoTrackIsOff DEF PlayerSet
<1>4. /\ \A x \in Stream : f[x] = IF x = s THEN NoTrack ELSE player.tracks[x]
      /\ \A x \in Stream : g[x] = IF x = s THEN <<>> ELSE player.sources[x]
  BY DEF PlayerSet
<1> HIDE DEF f, g
<1>5. /\ p \in PlayerSet /\ p.tracks = f /\ p.sources = g /\ p.plan = player.plan
      /\ p.loaded = player.loaded /\ SameClock(player, p)
  BY <1>2, <1>3 DEF PlayerSet, SameClock
<1> HIDE DEF p, q
<1>6. Sounds(p)
  <2>1. ~ f[s].on /\ g[s] = <<>>
    BY <1>4, NoTrackIsOff
  <2> QED
    BY <1>4, <1>5, <2>1 DEF Sounds, Quiet, SameClock
<1>7. \A x \in Stream : IF x = s THEN ~ p.tracks[x].on ELSE p.tracks[x] = player.tracks[x]
  BY <1>4, <1>5, NoTrackIsOff
<1>8. CASE ~ player.tracks[s].on
  BY <1>1, <1>8 DEF Cuts, q
<1>9. CASE player.tracks[s].on /\ loadedTracks(p) = {}
  <2> DEFINE r == pause(p)
  <2>1. Fresh(p, r) /\ r.playing = FALSE
    BY <1>5, <1>6, PauseIs
  <2>2. q = [r EXCEPT !.loaded = NoTake, !.startPos = 0] /\ Replanned
    BY <1>1, <1>9
  <2> HIDE DEF r
  <2>3. r \in PlayerSet /\ SameMount(p, r) /\ Quiet(r)
    BY <2>1 DEF Fresh, Sounds
  <2>4. q \in PlayerSet
    BY <2>2, <2>3 DEF PlayerSet
  <2>5. q.tracks = r.tracks /\ q.sources = r.sources /\ q.plan = r.plan /\ q.loaded = NoTake
    BY <2>2, <2>3 DEF PlayerSet
  <2>6. q.playing = FALSE
    BY <2>1, <2>2, <2>3 DEF PlayerSet
  <2>7. Quiet(q)
    BY <2>1, <2>3, <2>5 DEF Quiet
  <2>8. Sounds(q) /\ Drawn(q)
    BY <2>4, <2>6, <2>7, QuietIsFresh
  <2> QED
    BY <1>5, <1>7, <2>2, <2>3, <2>4, <2>5, <2>6, <2>8 DEF Cuts, SameMount, q
<1>10. CASE player.tracks[s].on /\ loadedTracks(p) # {}
  <2>1. q = reschedule(p) /\ Replanned
    BY <1>1, <1>10
  <2>2. Fresh(p, q) /\ q.playing = p.playing
    BY <1>5, <1>6, <2>1, RescheduleIs DEF Sounds
  <2>3. q.loaded # NoTake
    BY <1>5, <1>10, <2>2 DEF Fresh, SameMount, loadedTracks
  <2> QED
    BY <1>5, <1>7, <2>1, <2>2, <2>3 DEF Cuts, Fresh, SameMount, SameClock, q
<1> QED
  BY <1>8, <1>9, <1>10

LEMMA DeleteKeeps == ASSUME PlayerInv, NEW s \in Stream, DeleteStream(s) PROVE PlayerInv'
<1> DEFINE q == player'
<1>1. /\ player \in PlayerSet /\ Sounds(player) /\ PlayerBooks /\ Mounts /\ Forced
      /\ LoadOK(load) /\ LoadOK(ahead) /\ (player.loaded = NoTake => ~ player.playing)
      /\ AsPlanned(player, run, twice, adrift) /\ player.loaded \in Take \cup {NoTake}
  BY DEF PlayerInv, PlayerGood, Good, PlayerBooks, HeardNow, PlayerSet
<1>2. Cuts(s, q)
  BY <1>1, CutIs
<1>3. /\ UNCHANGED <<load, ahead, run, job, next, settled, asked, stored, picked, missed, owed>>
      /\ archived' = archived \ {s} /\ revived' = revived \cup ({s} \cap Held) /\ AtRest
  BY DEF DeleteStream
<1> HIDE DEF q
<1>4. PlayerGood'
  BY <1>2 DEF Cuts, PlayerGood, Good, Sounds, Quiet, q
<1>5. PlayerBooks'
  <2>1. /\ archived' \subseteq archived /\ stored' \in [Stream -> Nat] /\ LoadOK(ahead')
        /\ (load.take # NoTake => ~ player'.playing)
        /\ player'.loaded \in {player.loaded, NoTake}
        /\ job.phase # "loaded"
    BY <1>1, <1>2, <1>3 DEF PlayerBooks, Cuts, AtRest, q
  <2> QED
    BY <1>1, <1>3, <2>1, BooksStay
<1>6. Mounts'
  <2>1. ASSUME NEW x \in Stream, NEW y \in {load.got[x], ahead.got[x]}, y.on
        PROVE  /\ x \in missed \/ player.plan[x] = Off \/ y.at = player.plan[x]
               /\ x \in revived' \/ x \in archived'
    <3>1. x \in Held
      BY <2>1 DEF Held
    <3> QED
      BY <1>1, <1>3, <2>1, <3>1 DEF Mounts, Fine
  <2>2. ASSUME NEW x \in Stream, q.tracks[x].on
        PROVE  /\ x \in missed \/ player.plan[x] = Off \/ q.tracks[x].at = player.plan[x]
               /\ x \in revived' \/ x \in archived'
    <3>1. x # s /\ q.tracks[x] = player.tracks[x]
      BY <1>2, <2>2 DEF Cuts
    <3> QED
      BY <1>1, <1>3, <2>2, <3>1 DEF Mounts, Fine
  <2> QED
    BY <1>2, <1>3, <2>1, <2>2 DEF Mounts, Fine, Cuts, q
<1>7. HeardNow'
  <2>1. CASE Drawn(q) /\ Replanned
    <3>1. q \in PlayerSet
      BY <1>2 DEF Cuts
    <3> QED
      BY <1>3, <2>1, <3>1, ReplannedIsHeard DEF q
  <2>2. CASE q = player /\ UNCHANGED <<twice, adrift>>
    <3>1. AsPlanned(player', run', twice, adrift)
      BY <1>1, <1>3, <2>2 DEF q
    <3> QED
      BY <2>2, <3>1, HeardNext
  <2> QED
    BY <1>2, <2>1, <2>2 DEF Cuts
<1>8. ASSUME NEW x \in loadedTracks(q)
      PROVE  q.loaded = player.loaded /\ x \in loadedTracks(player) /\ q.tracks[x] = player.tracks[x]
  <2>1. q.loaded = player.loaded /\ q.loaded \in Take
    BY <1>1, <1>2, LoadedIs DEF Cuts
  <2>2. x \in StreamsIn[q.loaded] /\ q.tracks[x].on /\ x \in Stream
    BY <2>1, LoadedIs, StreamsKnown
  <2>3. q.tracks[x] = player.tracks[x]
    BY <1>2, <2>2 DEF Cuts
  <2> QED
    BY <2>1, <2>2, <2>3, LoadedIs
<1>9. Forced'
  <2>1. Unloaded => InForce(q, stored, owed)
    BY <1>1, <1>8 DEF Forced, InForce
  <2>2. run.take # NoTake /\ q.loaded = run.take =>
          /\ \A x \in loadedTracks(q) \ owed : q.tracks[x].al = 0 => stored[x] = 0
          /\ \A x \in StreamsIn[run.take] \ owed :
                stored[x] # 0 => run.before[x].al \in {stored[x], 0}
    <3>1. q.loaded = run.take /\ run.take # NoTake => player.loaded = run.take
      BY <1>2 DEF Cuts
    <3> QED
      BY <1>1, <1>8, <3>1 DEF Forced, Measures
  <2> QED
    BY <1>3, <2>1, <2>2 DEF Forced, Measures, Unloaded, InForce, loadedTracks, takeTracks, q
<1> QED
  BY <1>4, <1>5, <1>6, <1>7, <1>9 DEF PlayerInv

(***************************************************************************)
(* Verdicts.                                                               *)
(***************************************************************************)
\* Verdicts change, nothing else of the mounted clips does.
Judged(p, q) ==
    /\ q \in PlayerSet /\ SameClip(p, q) /\ Sounds(q)
    /\ q.plan = p.plan /\ q.loaded = p.loaded /\ q.playing = p.playing

LEMMA ClipLoaded ==
    ASSUME NEW p \in PlayerSet, NEW q, Judged(p, q)
    PROVE  loadedTracks(q) = loadedTracks(p) /\ loadedTracks(p) \subseteq Stream
<1>1. p.loaded = q.loaded /\ p.loaded \in Take \cup {NoTake}
  BY DEF Judged, PlayerSet
<1>2. CASE p.loaded = NoTake
  BY <1>1, <1>2, LoadedIs
<1>3. CASE p.loaded \in Take
  <2>1. \A s \in StreamsIn[p.loaded] : q.tracks[s].on = p.tracks[s].on
    BY <1>3, StreamsKnown DEF Judged, SameClip
  <2> QED
    BY <1>1, <1>3, <2>1, LoadedIs
<1> QED
  BY <1>1, <1>2, <1>3

\* What is mounted, and where, does not hang on the verdicts.
LEMMA JudgedKeeps ==
    ASSUME PlayerInv, Judged(player, player'),
           UNCHANGED <<archived, load, ahead, job, next, settled, asked, picked, missed, revived>>,
           stored' \in [Stream -> Nat], RunOK(run'), run'.take = run.take, HeardNow', Forced'
    PROVE  PlayerInv'
<1> DEFINE q == player'
<1>1. /\ player \in PlayerSet /\ Mounts /\ (player.loaded = NoTake => ~ player.playing)
      /\ BookTypes /\ BookLoads /\ BookJobs /\ BookPhases
  BY BooksAre DEF PlayerInv, PlayerGood, Good
<1>2. /\ q \in PlayerSet /\ SameClip(player, q) /\ Sounds(q) /\ q.plan = player.plan
      /\ q.loaded = player.loaded /\ q.playing = player.playing
  BY DEF Judged
<1> HIDE DEF q
<1>3. Good(q)
  BY <1>1, <1>2 DEF Good
<1>4. PlayerGood'
  BY <1>3 DEF PlayerGood, Good, Sounds, Quiet, q
<1>5. BookTypes' /\ BookLoads' /\ BookJobs'
  BY <1>1 DEF BookTypes, BookLoads, BookJobs
<1>6. BookPhases'
  BY <1>1, <1>2 DEF BookPhases, q
<1>7. PlayerBooks'
  BY <1>5, <1>6 DEF PlayerBooks, BookTypes, BookLoads, BookJobs, BookPhases
<1>8. Mounts'
  <2>1. ASSUME NEW s \in Stream
        PROVE  /\ From(player'.tracks[s], s) /\ From(load'.got[s], s) /\ From(ahead'.got[s], s)
    <3>1. From(q.tracks[s], s)
      BY <1>2 DEF SameClip, From
    <3> QED
      BY <3>1, StillFrom DEF q
  <2> QED
    BY <1>1, <1>2, <2>1, MountsKept DEF q
<1> QED
  BY <1>4, <1>7, <1>8 DEF PlayerInv

\* Another desk's verdict: for another take, refused, or put in force.
Told(t, v, q) ==
    /\ Judged(player, q)
    /\ \/ player.loaded # t /\ q = player /\ UNCHANGED marks
       \/ /\ player.loaded = t /\ q = player
          /\ owed' = owed \cup StreamsIn[t] /\ UNCHANGED <<twice, adrift>>
       \/ /\ player.loaded = t /\ run = NoRun
          /\ \A s \in takeTracks(player, t) : q.tracks[s].al = v
          /\ owed' = owed \ takeTracks(player, t)
          /\ \/ Drawn(q) /\ Replanned
             \/ q = player /\ UNCHANGED <<twice, adrift>>

LEMMA ToldIs ==
    ASSUME player \in PlayerSet, Sounds(player), NEW t \in Take, NEW v \in Nat, RemoteVerdict(t, v)
    PROVE  Told(t, v, player')
<1> DEFINE here == takeTracks(player, t)
           f == [s \in Stream |-> IF s \in here THEN [player.tracks[s] EXCEPT !.al = v]
                                               ELSE player.tracks[s]]
           r == [player EXCEPT !.tracks = f]
           q == player'
<1>0. \A s \in Stream : player.tracks[s] \in Track
  BY DEF PlayerSet
<1>1. \/ player.loaded # t /\ q = player /\ UNCHANGED marks
      \/ /\ player.loaded = t /\ q = player
         /\ owed' = owed \cup StreamsIn[t] /\ UNCHANGED <<twice, adrift>>
      \/ /\ player.loaded = t /\ run = NoRun
         /\ IF r # player THEN q = reschedule(r) /\ Replanned
                          ELSE q = player /\ UNCHANGED <<twice, adrift>>
         /\ owed' = owed \ here
  BY DEF RemoteVerdict
<1>2. ASSUME NEW s \in Stream
      PROVE  /\ f[s] \in Track /\ f[s].on = player.tracks[s].on /\ f[s].at = player.tracks[s].at
             /\ f[s].al = IF s \in here THEN v ELSE player.tracks[s].al
  BY <1>0, VerdictSet
<1>3. f \in [Stream -> Track]
  BY <1>2
<1>a. here \subseteq Stream
  BY LoadedIs, StreamsKnown
<1> HIDE DEF f
<1>4. /\ r \in PlayerSet /\ r.tracks = f /\ r.sources = player.sources /\ r.plan = player.plan
      /\ r.loaded = player.loaded /\ SameClock(player, r)
  BY <1>3, TracksAre
<1> HIDE DEF r, q, here
<1>5. SameClip(player, r) /\ r.playing = player.playing
  BY <1>2, <1>4 DEF SameClip, SameClock
<1>6. Sounds(r)
  BY <1>4, <1>5, SameClipSounds
<1>7. q = player => Judged(player, q)
  BY DEF Judged, SameClip
<1>8. ASSUME r # player, q = reschedule(r) PROVE Judged(player, q) /\ Drawn(q) /\ q.tracks = f
  <2>1. Fresh(r, q) /\ q.playing = r.playing
    BY <1>4, <1>6, <1>8, RescheduleIs DEF Sounds
  <2>2. SameClip(player, q) /\ q.tracks = f
    BY <1>4, <1>5, <2>1 DEF SameClip, Fresh, SameMount
  <2> QED
    BY <1>4, <1>5, <2>1, <2>2 DEF Judged, Fresh, SameMount
<1>9. r = player /\ q = player => q.tracks = f
  BY <1>4
<1>10. q.tracks = f => \A s \in here : q.tracks[s].al = v
  BY <1>2, <1>a
<1>11. CASE player.loaded # t /\ q = player /\ UNCHANGED marks
  BY <1>7, <1>11 DEF Told, q
<1>12. CASE /\ player.loaded = t /\ q = player
            /\ owed' = owed \cup StreamsIn[t] /\ UNCHANGED <<twice, adrift>>
  BY <1>7, <1>12 DEF Told, q
<1>13. CASE /\ player.loaded = t /\ run = NoRun
            /\ IF r # player THEN q = reschedule(r) /\ Replanned
                             ELSE q = player /\ UNCHANGED <<twice, adrift>>
            /\ owed' = owed \ here
  <2>1. CASE r # player
    BY <1>8, <1>10, <1>13, <2>1 DEF Told, q, here
  <2>2. CASE r = player
    BY <1>7, <1>9, <1>10, <1>13, <2>2 DEF Told, q, here
  <2> QED
    BY <2>1, <2>2
<1> QED
  BY <1>1, <1>11, <1>12, <1>13

LEMMA RemoteKeeps ==
    ASSUME PlayerInv, NEW t \in Take, NEW v \in Verdict, RemoteVerdict(t, v)
    PROVE  PlayerInv'
<1> DEFINE q == player'
<1>0. v \in Nat
  BY PlayerAssumption
<1>1. /\ player \in PlayerSet /\ Sounds(player) /\ PlayerBooks /\ Forced /\ RunOK(run)
      /\ AsPlanned(player, run, twice, adrift) /\ player.loaded \in Take \cup {NoTake}
      /\ stored \in [Stream -> Nat]
  BY DEF PlayerInv, PlayerGood, Good, PlayerBooks, HeardNow, PlayerSet
<1>2. Told(t, v, q)
  BY <1>0, <1>1, ToldIs
<1>3. /\ UNCHANGED <<archived, load, ahead, run, job, next, settled, asked, picked, missed, revived>>
      /\ stored' = [s \in Stream |-> IF TakeOf[s] = t THEN v ELSE stored[s]]
  BY DEF RemoteVerdict, marks
<1>4. /\ stored' \in [Stream -> Nat]
      /\ \A s \in Stream : stored'[s] = IF TakeOf[s] = t THEN v ELSE stored[s]
  BY <1>0, <1>1, <1>3
<1> HIDE DEF q
<1>5. Judged(player, q) /\ q \in PlayerSet
  BY <1>2 DEF Told, Judged
<1>6. HeardNow'
  <2>1. ASSUME q = player, UNCHANGED <<twice, adrift>> PROVE HeardNow'
    <3>1. AsPlanned(player', run', twice, adrift)
      BY <1>1, <1>3, <2>1 DEF q
    <3> QED
      BY <2>1, <3>1, HeardNext
  <2>2. ASSUME Drawn(q), Replanned PROVE HeardNow'
    BY <1>3, <1>5, <2>2, ReplannedIsHeard DEF q
  <2> QED
    BY <1>2, <2>1, <2>2 DEF Told, marks
<1>7. /\ loadedTracks(q) = loadedTracks(player) /\ loadedTracks(player) \subseteq Stream
      /\ q.loaded = player.loaded
  BY <1>1, <1>5, ClipLoaded DEF Judged
<1>8. player.loaded \in Take => loadedTracks(player) = takeTracks(player, player.loaded)
                                /\ loadedTracks(player) \subseteq StreamsIn[player.loaded]
  BY LoadedIs
<1>9. Forced'
  <2> DEFINE NowInForce == Unloaded => InForce(q, stored', owed')
             NowMeasures ==
               run.take # NoTake /\ q.loaded = run.take =>
                 /\ \A s \in loadedTracks(q) \ owed' : q.tracks[s].al = 0 => stored'[s] = 0
                 /\ \A s \in StreamsIn[run.take] \ owed' :
                       stored'[s] # 0 => run.before[s].al \in {stored'[s], 0}
  <2>1. ASSUME player.loaded # t, q = player, owed' = owed PROVE NowInForce /\ NowMeasures
    <3>1. ASSUME player.loaded \in Take, NEW s \in StreamsIn[player.loaded]
          PROVE  stored'[s] = stored[s]
      <4>1. s \in Stream /\ TakeOf[s] = player.loaded
        BY <3>1, StreamsKnown
      <4> QED
        BY <1>4, <2>1, <4>1
    <3>2. \A s \in loadedTracks(player) : stored'[s] = stored[s]
      <4>1. CASE player.loaded = NoTake
        BY <4>1, LoadedIs
      <4>2. CASE player.loaded \in Take
        BY <1>8, <3>1, <4>2
      <4> QED
        BY <1>1, <4>1, <4>2
    <3>3. NowInForce
      BY <1>1, <2>1, <3>2 DEF Forced, InForce
    <3>4. NowMeasures
      <4>1. run.take # NoTake /\ q.loaded = run.take => player.loaded \in Take
        BY <1>1, <2>1
      <4> QED
        BY <1>1, <2>1, <3>1, <3>2, <4>1 DEF Forced, Measures
    <3> QED
      BY <3>3, <3>4
  <2>2. ASSUME player.loaded = t, q = player, owed' = owed \cup StreamsIn[t]
        PROVE  NowInForce /\ NowMeasures
    <3>1. loadedTracks(q) \ owed' = {} /\ StreamsIn[t] \ owed' = {}
      BY <1>7, <1>8, <2>2
    <3>2. NowInForce
      BY <3>1 DEF InForce
    <3>3. NowMeasures
      BY <2>2, <3>1
    <3> QED
      BY <3>2, <3>3
  <2>3. ASSUME player.loaded = t, run = NoRun,
               \A s \in takeTracks(player, t) : q.tracks[s].al = v
        PROVE  NowInForce /\ NowMeasures
    <3>1. run.take = NoTake
      BY <2>3, NothingOK
    <3>2. ASSUME NEW s \in loadedTracks(q) PROVE q.tracks[s].al = stored'[s]
      <4>1. s \in takeTracks(player, t) /\ s \in StreamsIn[t]
        BY <1>7, <1>8, <2>3
      <4>2. s \in Stream /\ TakeOf[s] = t
        BY <4>1, StreamsKnown
      <4> QED
        BY <1>4, <2>3, <4>1, <4>2
    <3>3. NowInForce
      BY <3>2 DEF InForce
    <3>4. NowMeasures
      BY <3>1
    <3> QED
      BY <3>3, <3>4
  <2>4. NowInForce /\ NowMeasures
    <3> HIDE DEF NowInForce, NowMeasures
    <3> QED
      BY <1>2, <2>1, <2>2, <2>3 DEF Told, marks
  <2> QED
    BY <1>3, <2>4 DEF Forced, Measures, Unloaded, InForce, loadedTracks, takeTracks, q
<1> QED
  BY <1>1, <1>3, <1>4, <1>5, <1>6, <1>9, JudgedKeeps DEF q

\* One stream of the run's take was measured.
Marked(s, v, q) ==
    /\ Judged(player, q) /\ q.sources = player.sources
    /\ \A x \in Stream : x # s => q.tracks[x] = player.tracks[x]
    /\ q.tracks[s].al \in {player.tracks[s].al, v}

LEMMA MarkedIs ==
    ASSUME player \in PlayerSet, Sounds(player), NEW s \in Stream, NEW v \in Nat, NEW q,
           q \in {player, Measured(s, v)}
    PROVE  Marked(s, v, q)
<1> DEFINE f == [player.tracks EXCEPT ![s].al = v]
<1>1. CASE q = player
  BY <1>1 DEF Marked, Judged, SameClip
<1>2. CASE q # player
  <2>1. q = [player EXCEPT !.tracks = f]
    BY <1>2 DEF Measured
  <2>2. player.tracks[s] \in Track /\ player.tracks \in [Stream -> Track]
    BY DEF PlayerSet
  <2>3. \A x \in Stream : f[x] = IF x = s THEN [player.tracks[x] EXCEPT !.al = v] ELSE player.tracks[x]
    BY <2>2
  <2>4. /\ [player.tracks[s] EXCEPT !.al = v] \in Track
        /\ [player.tracks[s] EXCEPT !.al = v].al = v
        /\ [player.tracks[s] EXCEPT !.al = v].at = player.tracks[s].at
        /\ [player.tracks[s] EXCEPT !.al = v].on = player.tracks[s].on
    BY <2>2, VerdictSet
  <2>5. f \in [Stream -> Track]
    BY <2>2, <2>4
  <2>6. /\ \A x \in Stream : f[x].on = player.tracks[x].on /\ f[x].at = player.tracks[x].at
        /\ \A x \in Stream : x # s => f[x] = player.tracks[x]
        /\ f[s].al = v
    BY <2>3, <2>4
  <2> HIDE DEF f
  <2>7. /\ q \in PlayerSet /\ q.tracks = f /\ q.sources = player.sources
        /\ q.plan = player.plan /\ q.loaded = player.loaded /\ SameClock(player, q)
    BY <2>1, <2>5, TracksAre
  <2>8. SameClip(player, q) /\ q.playing = player.playing
    BY <2>6, <2>7 DEF SameClip, SameClock
  <2>9. Sounds(q)
    BY <2>7, <2>8, SameClipSounds
  <2> QED
    BY <2>6, <2>7, <2>8, <2>9 DEF Marked, Judged
<1> QED
  BY <1>1, <1>2

LEMMA MeasureKeeps ==
    ASSUME PlayerInv, run.take # NoTake, NEW s \in StreamsIn[run.take],
           NEW v \in Verdict \cup {Declined}, player' \in {player, Measured(s, v)},
           RunOK(run'), run'.take = run.take, run'.before = run.before,
           UNCHANGED <<archived, load, ahead, job, next, settled, asked, stored, picked, marks>>
    PROVE  PlayerInv'
<1> DEFINE q == player'
<1>0. v \in Nat /\ v # 0
  BY PlayerAssumption
<1>1. /\ player \in PlayerSet /\ Sounds(player) /\ PlayerBooks /\ run.take \in Take
      /\ stored \in [Stream -> Nat] /\ Forced /\ AsPlanned(player, run, twice, adrift)
  BY DEF PlayerInv, PlayerGood, Good, PlayerBooks, RunOK, RunSet, HeardNow
<1>2. s \in Stream /\ TakeOf[s] = run.take
  BY <1>1, StreamsKnown
<1>3. q \in {player, Measured(s, v)}
  OBVIOUS
<1> HIDE DEF q
<1>4. Marked(s, v, q)
  BY <1>0, <1>1, <1>2, <1>3, MarkedIs
<1>5. Judged(player, q)
  BY <1>4 DEF Marked
<1>6. HeardNow'
  <2>1. ASSUME NEW x \in Stream PROVE GoesOnAs(player, run, q, run', x)
    <3>1. q.sources[x] = player.sources[x] /\ q.tracks[x].at = player.tracks[x].at
      BY <1>4, <1>5 DEF Marked, Judged, SameClip
    <3>2. TakeOf[x] # run.take => q.tracks[x] = player.tracks[x]
      BY <1>2, <1>4 DEF Marked
    <3> QED
      BY <3>1, <3>2 DEF GoesOnAs, PlannedFrom
  <2>2. AsPlanned(q, run', twice, adrift)
    BY <1>1, <2>1, HeardKept
  <2> QED
    BY <2>2, HeardNext DEF q, marks
<1>7. loadedTracks(q) = loadedTracks(player) /\ loadedTracks(player) \subseteq Stream
  BY <1>1, <1>5, ClipLoaded
<1>8. Forced'
  <2>1. ASSUME q.loaded = run.take
        PROVE  /\ \A x \in loadedTracks(q) \ owed : q.tracks[x].al = 0 => stored[x] = 0
               /\ \A x \in StreamsIn[run.take] \ owed :
                     stored[x] # 0 => run.before[x].al \in {stored[x], 0}
    <3>1. Measures /\ player.loaded = run.take
      BY <1>1, <1>5, <2>1 DEF Forced, Judged
    <3>2. ASSUME NEW x \in loadedTracks(q) \ owed, q.tracks[x].al = 0 PROVE stored[x] = 0
      <4>1. x \in loadedTracks(player) /\ x \in Stream
        BY <1>7
      <4>2. player.tracks[x].al = 0
        BY <1>0, <1>4, <3>2, <4>1 DEF Marked
      <4> QED
        BY <3>1, <3>2, <4>1, <4>2 DEF Measures
    <3> QED
      BY <3>1, <3>2 DEF Measures
  <2> QED
    BY <2>1 DEF Forced, Measures, Unloaded, loadedTracks, takeTracks, q, marks
<1> QED
  BY <1>1, <1>5, <1>6, <1>8, JudgedKeeps DEF q, marks

LEMMA PassesKeep ==
    ASSUME PlayerInv, NEW v \in Verdict \cup {Declined}, AlignPass(v) \/ ContentPass(v)
    PROVE  PlayerInv'
<1> DEFINE s == IF run.todo # {} THEN FirstOf(run.take, run.todo) ELSE FirstOf(run.take, run.again)
           p == Measured(s, v)
           r == run'
<1>0. player \in PlayerSet /\ Sounds(player) /\ player.loaded \in Take \cup {NoTake}
  BY DEF PlayerInv, PlayerGood, Good, PlayerSet
<1>1. RunOK(run) /\ (run.take # NoTake => player.loaded \in {run.take, NoTake})
  BY DEF PlayerInv, PlayerBooks
<1>2. run.todo # {} \/ run.again # {}
  BY DEF AlignPass, ContentPass
<1>3. run.take # NoTake
  BY <1>1, <1>2 DEF RunOK, NoRun
<1>4. /\ run.take \in Take /\ run.todo \subseteq StreamsIn[run.take]
      /\ run.again \subseteq StreamsIn[run.take] /\ run \in RunSet
  BY <1>1, <1>3 DEF RunOK, RunSet
<1>5. s \in StreamsIn[run.take]
  BY <1>2, <1>4, FirstIsIn
<1>6. /\ player' \in {player, p}
      /\ UNCHANGED <<archived, load, ahead, job, next, settled, asked, stored, picked, marks>>
      /\ \/ r = [run EXCEPT !.todo = @ \ {s}]
         \/ r = [run EXCEPT !.todo = {}, !.again = Unplaced(p), !.lost = {}]
         \/ r = [run EXCEPT !.again = @ \ {s}]
  BY DEF AlignPass, ContentPass
<1> HIDE DEF s, p, r
<1>7. s \in Stream /\ StreamsIn[run.take] \subseteq Stream /\ v \in Nat
  BY <1>4, <1>5, StreamsKnown, PlayerAssumption
<1>8. Unplaced(p) \subseteq StreamsIn[run.take]
  <2>1. Marked(s, v, p)
    BY <1>0, <1>7, MarkedIs DEF p
  <2>2. loadedTracks(p) = loadedTracks(player)
    BY <1>0, <2>1, ClipLoaded DEF Marked
  <2>3. loadedTracks(player) \subseteq StreamsIn[run.take]
    BY <1>1, <1>3, <1>4, LoadedIs
  <2> QED
    BY <2>2, <2>3 DEF Unplaced
<1>9. PICK T \in SUBSET StreamsIn[run.take], A \in SUBSET StreamsIn[run.take], L \in SUBSET Stream :
        r = [run EXCEPT !.todo = T, !.again = A, !.lost = L]
  <2>1. run.lost \in SUBSET Stream
    BY <1>4 DEF RunSet
  <2>2. CASE r = [run EXCEPT !.todo = @ \ {s}]
    <3> DEFINE T == run.todo \ {s}
    <3>1. r = [run EXCEPT !.todo = T, !.again = run.again, !.lost = run.lost]
      BY <1>4, <2>2 DEF RunSet
    <3> QED
      BY <1>4, <2>1, <3>1
  <2>3. CASE r = [run EXCEPT !.todo = {}, !.again = Unplaced(p), !.lost = {}]
    BY <1>8, <2>3
  <2>4. CASE r = [run EXCEPT !.again = @ \ {s}]
    <3> DEFINE A == run.again \ {s}
    <3>1. r = [run EXCEPT !.todo = run.todo, !.again = A, !.lost = run.lost]
      BY <1>4, <2>4 DEF RunSet
    <3> QED
      BY <1>4, <2>1, <3>1
  <2> QED
    BY <1>6, <2>2, <2>3, <2>4
<1>10. /\ r \in RunSet /\ r.take = run.take /\ r.before = run.before /\ r.todo = T /\ r.again = A
  BY <1>4, <1>7, <1>9 DEF RunSet
<1>11. RunOK(r)
  BY <1>3, <1>10 DEF RunOK
<1> QED
  BY <1>3, <1>5, <1>6, <1>10, <1>11, MeasureKeeps DEF r, p

(***************************************************************************)
(* The decodes.                                                            *)
(***************************************************************************)
LEMMA MountIs ==
    ASSUME player \in PlayerSet, NEW s \in Stream, NEW v \in Nat
    PROVE  /\ mountTrack(s, v) \in Track /\ mountTrack(s, v).on = TRUE
           /\ player.plan[s] # Off => mountTrack(s, v).at = player.plan[s]
  BY DEF mountTrack, Track, PlayerSet

\* A decode that goes on.
LEMMA GoesOn ==
    ASSUME NEW l, LoadOK(l), l.take # NoTake, NEW s \in l.todo, l.todo # {s},
           NEW got \in [Stream -> Track], \A x \in Stream : got[x].on => x \in StreamsIn[l.take],
           NEW m, m = [l EXCEPT !.todo = @ \ {s}, !.got = got]
    PROVE  LoadOK(m) /\ LoadIs(m, l.take, l.todo \ {s}, got)
<1> DEFINE T == l.todo \ {s}
<1>1. /\ l \in [take : Take \cup {NoTake}, todo : SUBSET Stream, got : [Stream -> Track]]
      /\ l.todo \subseteq StreamsIn[l.take]
  BY DEF LoadOK
<1>2. T \in SUBSET Stream /\ T # {} /\ T \subseteq StreamsIn[l.take]
  BY <1>1
<1>3. m = [l EXCEPT !.todo = T, !.got = got]
  BY <1>1
<1> HIDE DEF T
<1>4. /\ m \in [take : Take \cup {NoTake}, todo : SUBSET Stream, got : [Stream -> Track]]
      /\ m.take = l.take /\ m.todo = T /\ m.got = got
  BY <1>1, <1>2, <1>3
<1>5. LoadOK(m)
  BY <1>2, <1>4 DEF LoadOK
<1> QED
  BY <1>4, <1>5 DEF LoadIs, T

\* The load is over: its continuation is next.
LEMMA LoadOver ==
    ASSUME PlayerBooks, load.take # NoTake, load' = NoLoad, NEW b \in BOOLEAN,
           job' = [job EXCEPT !.phase = "loaded", !.ok = b],
           b => player'.loaded = load.take,
           UNCHANGED <<archived, ahead, run, next, settled, asked, stored, picked>>
    PROVE  PlayerBooks' /\ job'.id = job.id /\ job'.take = job.take /\ job'.phase = "loaded"
           /\ job'.ok = b
<1> DEFINE j == job'
<1>1. /\ job \in [id : 0..asked, take : Take \cup {NoTake}, force : BOOLEAN, want : SUBSET Stream,
                  phase : {"idle", "queued", "load", "loaded", "align"}, ok : BOOLEAN]
      /\ job.phase = "load" /\ load.take = job.take /\ job.id # 0 /\ run.take = NoTake
      /\ job.take \in Take /\ job.want \subseteq StreamsIn[job.take]
  BY DEF PlayerBooks, JobOK
<1>2. j = [job EXCEPT !.phase = "loaded", !.ok = b]
  OBVIOUS
<1> HIDE DEF j
<1>3. /\ j \in [id : 0..asked, take : Take \cup {NoTake}, force : BOOLEAN, want : SUBSET Stream,
                phase : {"idle", "queued", "load", "loaded", "align"}, ok : BOOLEAN]
      /\ j.id = job.id /\ j.take = job.take /\ j.want = job.want /\ j.phase = "loaded"
  BY <1>1, <1>2
<1>4. j.ok = b
  BY <1>1, <1>2
<1>5. JobOK(j, asked)
  BY <1>1, <1>3 DEF JobOK
<1>6. BookTypes' /\ BookLoads'
  BY NothingOK DEF PlayerBooks, BookTypes, BookLoads
<1>7. BookJobs'
  BY <1>1, <1>3, <1>5 DEF PlayerBooks, BookJobs, j
<1>8. BookPhases'
  BY <1>1, <1>3, <1>4, NothingOK DEF BookPhases, j
<1> QED
  BY <1>3, <1>4, <1>6, <1>7, <1>8 DEF PlayerBooks, BookTypes, BookLoads, BookJobs, BookPhases, j

LEMMA LoadFailsKeeps == ASSUME PlayerInv, LoadFails PROVE PlayerInv'
<1>1. PlayerGood /\ PlayerBooks /\ Mounts /\ Forced /\ AsPlanned(player, run, twice, adrift)
  BY DEF PlayerInv, HeardNow
<1>2. /\ load.take # NoTake /\ load' = NoLoad /\ job' = [job EXCEPT !.phase = "loaded", !.ok = FALSE]
      /\ UNCHANGED <<player, archived, ahead, run, next, settled, asked, stored, picked, marks>>
  BY DEF LoadFails
<1>3. PlayerGood'
  BY <1>1, <1>2 DEF PlayerGood, Good, Sounds, Quiet
<1>4. PlayerBooks' /\ job'.ok = FALSE
  BY <1>1, <1>2, LoadOver
<1>5. Mounts'
  <2>1. ASSUME NEW s \in Stream
        PROVE  /\ From(player'.tracks[s], s) /\ From(load'.got[s], s) /\ From(ahead'.got[s], s)
    BY <1>2, StillFrom
  <2> QED
    BY <1>1, <1>2, <2>1, MountsKept DEF marks
<1>6. HeardNow'
  <2>1. AsPlanned(player', run', twice, adrift)
    BY <1>1, <1>2
  <2> QED
    BY <1>2, <2>1, HeardNext DEF marks
<1>7. Forced'
  <2>1. Unloaded /\ run.take = NoTake
    BY <1>1, <1>2 DEF PlayerBooks, Unloaded
  <2> QED
    BY <1>1, <1>2, <2>1 DEF Forced, Measures, InForce, loadedTracks, takeTracks, marks
<1> QED
  BY <1>3, <1>4, <1>5, <1>6, <1>7 DEF PlayerInv

\* The buffers of a decode of t: of its own streams, each of a track there was or of a
\* stream that the sink has.
OwnTo(t, got) == got \in [Stream -> Track] /\ \A x \in Stream : got[x].on => x \in StreamsIn[t]
Rooted(got) == \A x \in Stream : From(got[x], x)
Gathers(got) == OwnTo(load.take, got) /\ Rooted(got)

LEMMA GotIs ==
    ASSUME player \in PlayerSet, NEW t \in Take, NEW old, OwnTo(t, old), Rooted(old),
           NEW s \in StreamsIn[t], s \in archived,
           NEW v \in Nat, NEW got, got = [old EXCEPT ![s] = mountTrack(s, v)]
    PROVE  OwnTo(t, got) /\ Rooted(got)
<1> DEFINE m == mountTrack(s, v)
<1>1. old \in [Stream -> Track] /\ \A x \in Stream : old[x].on => x \in StreamsIn[t]
  BY DEF OwnTo
<1>2. s \in Stream
  BY StreamsKnown
<1>3. m \in Track /\ m.on = TRUE /\ (player.plan[s] # Off => m.at = player.plan[s])
  BY <1>2, MountIs
<1>4. got = [old EXCEPT ![s] = m]
  OBVIOUS
<1> HIDE DEF m
<1>5. got \in [Stream -> Track] /\ got[s] = m /\ \A x \in Stream : x # s => got[x] = old[x]
  BY <1>1, <1>2, <1>3, <1>4
<1>6. \A x \in Stream : got[x].on => x \in StreamsIn[t]
  BY <1>1, <1>2, <1>5
<1>7. From(m, s)
  BY <1>3 DEF From
<1>8. ASSUME NEW x \in Stream PROVE From(got[x], x)
  BY <1>5, <1>7 DEF Rooted
<1> QED
  BY <1>5, <1>6, <1>8 DEF OwnTo, Rooted

LEMMA GathersIs ==
    ASSUME player \in PlayerSet, LoadOK(load), load.take # NoTake, NEW s \in StreamsIn[load.take],
           NEW got, got = IF s \in archived
                          THEN [load.got EXCEPT ![s] = mountTrack(s, player.tracks[s].al)]
                          ELSE load.got
    PROVE  Gathers(got)
<1> DEFINE v == player.tracks[s].al
           old == load.got
<1>1. load.take \in Take
  BY DEF LoadOK
<1>2. v \in Nat
  <2>1. s \in Stream
    BY <1>1, StreamsKnown
  <2> QED
    BY <2>1 DEF PlayerSet, Track
<1>3. OwnTo(load.take, old) /\ Rooted(old)
  BY StillFrom DEF OwnTo, Rooted, LoadOK
<1>4. got = IF s \in archived THEN [old EXCEPT ![s] = mountTrack(s, v)] ELSE old
  OBVIOUS
<1> HIDE DEF v, old
<1>5. CASE s \in archived
  <2>1. got = [old EXCEPT ![s] = mountTrack(s, v)]
    BY <1>4, <1>5
  <2> QED
    BY <1>1, <1>2, <1>3, <1>5, <2>1, GotIs DEF Gathers
<1>6. CASE s \notin archived
  BY <1>3, <1>4, <1>6 DEF Gathers
<1> QED
  BY <1>5, <1>6

LEMMA DecodeGoesOn ==
    ASSUME PlayerInv, load.take # NoTake, NEW s \in load.todo, load.todo # {s},
           NEW got, Gathers(got), load' = [load EXCEPT !.todo = @ \ {s}, !.got = got],
           UNCHANGED <<player, archived, ahead, run, job, next, settled, asked, stored, picked, marks>>
    PROVE  PlayerInv'
<1>1. PlayerGood /\ PlayerBooks /\ LoadOK(load) /\ Mounts /\ AsPlanned(player, run, twice, adrift)
  BY DEF PlayerInv, PlayerBooks, HeardNow
<1> DEFINE m == load'
<1>2. got \in [Stream -> Track] /\ \A x \in Stream : got[x].on => x \in StreamsIn[load.take]
  BY DEF Gathers, OwnTo
<1>3. m = [load EXCEPT !.todo = @ \ {s}, !.got = got]
  OBVIOUS
<1> HIDE DEF m
<1>4. LoadOK(m) /\ LoadIs(m, load.take, load.todo \ {s}, got)
  BY <1>1, <1>2, <1>3, GoesOn
<1>5. PlayerGood'
  BY <1>1 DEF PlayerGood, Good, Sounds, Quiet
<1>6. PlayerBooks'
  <2>1. BookTypes' /\ BookLoads' /\ BookJobs'
    BY <1>1, <1>4 DEF PlayerBooks, BookTypes, BookLoads, BookJobs, m
  <2>2. BookPhases'
    BY <1>1, <1>4 DEF PlayerBooks, BookPhases, LoadIs, m
  <2> QED
    BY <2>1, <2>2 DEF PlayerBooks, BookTypes, BookLoads, BookJobs, BookPhases
<1>7. Mounts'
  <2>1. ASSUME NEW x \in Stream
        PROVE  /\ From(player'.tracks[x], x) /\ From(load'.got[x], x) /\ From(ahead'.got[x], x)
    <3>1. From(m.got[x], x)
      BY <1>4 DEF Gathers, Rooted, LoadIs
    <3> QED
      BY <3>1, StillFrom DEF m
  <2> QED
    BY <1>1, <2>1, MountsKept DEF marks
<1>8. HeardNow'
  <2>1. AsPlanned(player', run', twice, adrift)
    BY <1>1
  <2> QED
    BY <2>1, HeardNext DEF marks
<1>9. Forced'
  <2>1. Thins(player, player')
    BY DEF Thins
  <2> QED
    BY <2>1, ForcedKept DEF marks
<1> QED
  BY <1>5, <1>6, <1>7, <1>8, <1>9 DEF PlayerInv

\* The last decode of a load swaps the mounted set.
Swaps(got, q) ==
    /\ q \in PlayerSet /\ q.tracks = got /\ q.loaded = load.take /\ q.plan = player.plan
    /\ Sounds(q) /\ \A s \in Stream : q.sources[s] = <<>>

LEMMA SwapsIs ==
    ASSUME player \in PlayerSet, Sounds(player), player.playing = FALSE, load.take \in Take,
           NEW got \in [Stream -> Track], NEW q, NEW swapped,
           swapped = [player EXCEPT !.tracks = got, !.loaded = load.take],
           q = [swapped EXCEPT !.startPos = takeBaseSec(swapped, load.take)]
    PROVE  Swaps(got, q)
<1> DEFINE t == load.take
           at == takeBaseSec(swapped, t)
<1>0. t \in Take
  OBVIOUS
<1>1. swapped = [player EXCEPT !.tracks = got, !.loaded = t]
  OBVIOUS
<1>2. q = [swapped EXCEPT !.startPos = at]
  OBVIOUS
<1> HIDE DEF t
<1>3. swapped \in PlayerSet
  BY <1>0, <1>1 DEF PlayerSet
<1>4. /\ swapped.tracks = got /\ swapped.loaded = t /\ swapped.plan = player.plan
      /\ swapped.sources = player.sources
  BY <1>0, <1>1 DEF PlayerSet
<1>5. swapped.playing = FALSE
  BY <1>0, <1>1 DEF PlayerSet
<1>6. at \in Nat
  BY <1>0, <1>3, PositionTyped
<1> HIDE DEF at
<1>7. q \in PlayerSet
  BY <1>2, <1>3, <1>6 DEF PlayerSet
<1>8. q.tracks = got /\ q.loaded = t /\ q.plan = player.plan /\ q.sources = player.sources
  BY <1>2, <1>3, <1>4, <1>6 DEF PlayerSet
<1>9. q.playing = FALSE
  BY <1>2, <1>3, <1>5, <1>6 DEF PlayerSet
<1>10. \A s \in Stream : q.sources[s] = <<>>
  BY <1>8 DEF Sounds, Quiet
<1>11. Sounds(q)
  BY <1>9, <1>10 DEF Sounds, Quiet
<1> QED
  BY <1>7, <1>8, <1>10, <1>11 DEF Swaps, t
LEMMA DecodeEnds ==
    ASSUME PlayerInv, load.take # NoTake, NEW got, Gathers(got), Swaps(got, player'),
           load' = NoLoad,
           job' = [job EXCEPT !.phase = "loaded", !.ok = \E x \in Stream : got[x].on],
           UNCHANGED <<archived, ahead, run, next, settled, asked, stored, picked, marks>>
    PROVE  PlayerInv'
<1> DEFINE q == player'
           b == \E x \in Stream : got[x].on
<1>1. /\ PlayerBooks /\ LoadOK(load) /\ load.take \in Take /\ Mounts /\ Forced
      /\ run.take = NoTake
  BY DEF PlayerInv, PlayerBooks, LoadOK
<1>2. /\ q \in PlayerSet /\ q.tracks = got /\ q.loaded = load.take /\ q.plan = player.plan
      /\ Sounds(q) /\ \A s \in Stream : q.sources[s] = <<>>
  BY DEF Swaps
<1>3. b \in BOOLEAN /\ job' = [job EXCEPT !.phase = "loaded", !.ok = b]
  OBVIOUS
<1>4. player'.loaded = load.take
  BY <1>2
<1> HIDE DEF b, q
<1>5. PlayerBooks' /\ job'.phase = "loaded" /\ job'.ok = b
  BY <1>1, <1>3, <1>4, LoadOver DEF marks
<1>6. PlayerGood'
  <2>1. Good(q)
    BY <1>1, <1>2, PlayerAssumption DEF Good
  <2> QED
    BY <2>1 DEF PlayerGood, Good, Sounds, Quiet, q
<1>7. Mounts'
  <2>1. ASSUME NEW x \in Stream
        PROVE  /\ From(player'.tracks[x], x) /\ From(load'.got[x], x) /\ From(ahead'.got[x], x)
    <3>1. From(q.tracks[x], x)
      BY <1>2 DEF Gathers, Rooted
    <3> QED
      BY <3>1, StillFrom DEF q
  <2> QED
    BY <1>1, <1>2, <2>1, MountsKept DEF marks, q
<1>8. HeardNow'
  <2>1. AsPlanned(q, run', twice, adrift)
    BY <1>2, HeardQuiet
  <2> QED
    BY <2>1, HeardNext DEF marks, q
<1>9. Forced'
  <2>1. ~ b => loadedTracks(q) = {}
    <3>1. loadedTracks(q) = {x \in StreamsIn[load.take] : got[x].on}
      BY <1>1, <1>2, LoadedIs
    <3> QED
      BY <1>1, <3>1, StreamsKnown DEF b
  <2>2. ~ b => InForce(q, stored', owed')
    BY <2>1 DEF InForce
  <2>3. b \in BOOLEAN
    BY DEF b
  <2> QED
    BY <1>1, <1>5, <2>2, <2>3 DEF Forced, Measures, Unloaded, InForce, loadedTracks, takeTracks, q
<1> QED
  BY <1>5, <1>6, <1>7, <1>8, <1>9 DEF PlayerInv

LEMMA LoadDecodedKeeps == ASSUME PlayerInv, LoadDecoded PROVE PlayerInv'
<1> DEFINE t == load.take
           s == FirstOf(t, load.todo)
           got == IF s \in archived
                  THEN [load.got EXCEPT ![s] = mountTrack(s, player.tracks[s].al)]
                  ELSE load.got
           swapped == [player EXCEPT !.tracks = got, !.loaded = load.take]
<1>1. /\ player \in PlayerSet /\ Sounds(player) /\ PlayerBooks /\ LoadOK(load)
      /\ t # NoTake /\ ~ player.playing
  BY DEF PlayerInv, PlayerGood, Good, PlayerBooks, LoadDecoded
<1>2. t \in Take /\ load.todo # {} /\ load.todo \subseteq StreamsIn[t]
  BY <1>1 DEF LoadOK
<1>3. s \in load.todo
  BY <1>2, FirstIsIn
<1>4. /\ UNCHANGED <<archived, ahead, run, next, settled, asked, stored, picked, marks>>
      /\ IF load.todo # {s}
         THEN /\ load' = [load EXCEPT !.todo = @ \ {s}, !.got = got]
              /\ UNCHANGED <<player, job>>
         ELSE /\ player' = [swapped EXCEPT !.startPos = takeBaseSec(swapped, load.take)]
              /\ load' = NoLoad
              /\ job' = [job EXCEPT !.phase = "loaded", !.ok = \E x \in Stream : got[x].on]
  BY DEF LoadDecoded
<1> HIDE DEF s
<1>5. Gathers(got)
  BY <1>1, <1>2, <1>3, GathersIs
<1> HIDE DEF got
<1>6. CASE load.todo # {s}
  BY <1>1, <1>3, <1>4, <1>5, <1>6, DecodeGoesOn
<1>7. CASE load.todo = {s}
  <2>1. player' = [swapped EXCEPT !.startPos = takeBaseSec(swapped, load.take)]
    BY <1>4, <1>7
  <2>2. got \in [Stream -> Track] /\ player.playing = FALSE
    BY <1>1, <1>5 DEF Gathers, OwnTo, PlayerSet
  <2>3. Swaps(got, player')
    BY <1>1, <1>2, <2>1, <2>2, SwapsIs
  <2> QED
    BY <1>1, <1>4, <1>5, <1>7, <2>3, DecodeEnds
<1> QED
  BY <1>6, <1>7

\* The look-ahead's take is mounted beside the loaded one, or over it.
Joins(t, got, q) ==
    /\ q \in PlayerSet /\ Sounds(q) /\ q.plan = player.plan /\ q.loaded = player.loaded
    /\ q.playing = player.playing
    /\ \A s \in Stream : /\ ~ got[s].on => q.tracks[s] = player.tracks[s]
                         /\ got[s].on => /\ q.tracks[s].on /\ q.tracks[s].at = got[s].at
                                         /\ q.tracks[s].al = stored[s]
    /\ \A s \in Stream :
          \/ q.sources[s] = player.sources[s]
          \/ /\ s \in StreamsIn[t] /\ q.tracks[s].on
             /\ q.sources[s] = Append(player.sources[s], SourceOf(q.tracks[s]))

LEMMA JoinsIs ==
    ASSUME player \in PlayerSet, Sounds(player), stored \in [Stream -> Nat],
           NEW t \in Take, NEW got \in [Stream -> Track],
           \A s \in Stream : got[s].on => s \in StreamsIn[t], NEW q, NEW mounted,
           mounted = [player EXCEPT !.tracks = [s \in Stream |->
                        IF got[s].on THEN [got[s] EXCEPT !.al = stored[s]] ELSE @[s]]],
           q = IF player.playing THEN scheduleTake(mounted, t) ELSE mounted
    PROVE  Joins(t, got, q)
<1> DEFINE f == [s \in Stream |-> IF got[s].on THEN [got[s] EXCEPT !.al = stored[s]]
                                               ELSE player.tracks[s]]
           p == mounted
           r == q
<1>1. p = [player EXCEPT !.tracks = f]
  OBVIOUS
<1>2. r = IF player.playing THEN scheduleTake(p, t) ELSE p
  OBVIOUS
<1>3. \A s \in Stream : got[s] \in Track /\ player.tracks[s] \in Track /\ stored[s] \in Nat
  BY DEF PlayerSet
<1>4. ASSUME NEW s \in Stream
      PROVE  /\ f[s] \in Track
             /\ ~ got[s].on => f[s] = player.tracks[s]
             /\ got[s].on => f[s].on /\ f[s].at = got[s].at /\ f[s].al = stored[s]
  BY <1>3, VerdictSet
<1>5. f \in [Stream -> Track]
  BY <1>4
<1> HIDE DEF f, p, r
<1>6. /\ p \in PlayerSet /\ p.tracks = f /\ p.sources = player.sources /\ p.plan = player.plan
      /\ p.loaded = player.loaded /\ SameClock(player, p)
  BY <1>1, <1>5, TracksAre
<1>7. p.playing = player.playing
  BY <1>6 DEF SameClock
<1>8. CASE ~ player.playing
  <2>1. r = p
    BY <1>2, <1>8
  <2>2. Quiet(p)
    BY <1>6, <1>8 DEF Sounds, Quiet
  <2>3. Sounds(p)
    BY <1>6, <1>7, <1>8, <2>2, QuietIsFresh
  <2>4. Joins(t, got, r)
    BY <1>4, <1>6, <1>7, <2>1, <2>3 DEF Joins
  <2> QED
    BY <2>4 DEF r
<1>9. CASE player.playing
  <2>1. r = scheduleTake(p, t)
    BY <1>2, <1>9
  <2>2. /\ r \in PlayerSet /\ SameMount(p, r) /\ SameClock(p, r)
        /\ \A s \in Stream : r.sources[s] =
                IF s \in StreamsIn[t] /\ p.tracks[s].on
                   /\ p.tracks[s].at + LenOf[s] > p.startPos + p.elapsed
                THEN Append(p.sources[s], SourceOf(p.tracks[s])) ELSE p.sources[s]
    BY <1>6, <2>1, ScheduleTakeIs
  <2>3. /\ r.tracks = f /\ r.plan = player.plan /\ r.loaded = player.loaded
        /\ SameClock(player, r)
    BY <1>6, <2>2 DEF SameMount, SameClock
  <2>4. ASSUME NEW s \in Stream, r.tracks[s].on,
               r.tracks[s].at + LenOf[s] > r.startPos + r.elapsed
        PROVE  r.sources[s] # <<>>
    <3>1. p.tracks[s] = r.tracks[s] /\ p.startPos = r.startPos /\ p.elapsed = r.elapsed
      BY <2>2 DEF SameMount, SameClock
    <3>2. CASE s \in StreamsIn[t]
      <4> DEFINE old == p.sources[s]
                 x == SourceOf(p.tracks[s])
      <4>1. r.sources[s] = Append(old, x)
        BY <2>2, <2>4, <3>1, <3>2
      <4>2. old \in Seq(Source)
        BY <1>6 DEF PlayerSet
      <4> HIDE DEF old, x
      <4>3. Append(old, x) # <<>>
        BY <4>2
      <4> QED
        BY <4>1, <4>3
    <3>3. CASE s \notin StreamsIn[t]
      <4>1. ~ got[s].on /\ f[s] = player.tracks[s]
        BY <1>4, <3>3
      <4>2. r.sources[s] = player.sources[s] /\ r.tracks[s] = player.tracks[s]
        BY <1>6, <2>2, <2>3, <3>3, <4>1
      <4> QED
        BY <1>9, <2>3, <2>4, <4>2 DEF Sounds, SameClock
    <3> QED
      BY <3>2, <3>3
  <2>9. ASSUME NEW s \in Stream, ~ r.tracks[s].on PROVE r.sources[s] = <<>>
    <3>1. ~ p.tracks[s].on /\ r.sources[s] = player.sources[s]
      BY <1>6, <2>2, <2>9 DEF SameMount
    <3>2. ~ got[s].on /\ f[s] = player.tracks[s]
      BY <1>4, <1>6, <3>1
    <3> QED
      BY <1>6, <3>1, <3>2 DEF Sounds
  <2>5. Sounds(r)
    BY <1>9, <2>3, <2>4, <2>9 DEF Sounds, Quiet, SameClock
  <2>6. \A s \in Stream :
          \/ r.sources[s] = player.sources[s]
          \/ /\ s \in StreamsIn[t] /\ r.tracks[s].on
             /\ r.sources[s] = Append(player.sources[s], SourceOf(r.tracks[s]))
    BY <1>6, <2>2, <2>3
  <2>7. r.playing = player.playing
    BY <2>3 DEF SameClock
  <2>8. Joins(t, got, r)
    BY <1>4, <2>2, <2>3, <2>5, <2>6, <2>7 DEF Joins
  <2> QED
    BY <2>8 DEF r
<1> QED
  BY <1>8, <1>9
LEMMA AheadJoins ==
    ASSUME PlayerInv, NEW t, t = ahead.take, t # NoTake, NEW got \in [Stream -> Track],
           \A x \in Stream : got[x].on => x \in StreamsIn[t],
           \A x \in Stream : From(got[x], x),
           Joins(t, got, player'), ahead' = NoLoad,
           run' = IF run.take = t
                  THEN [run EXCEPT !.lost = @ \cup {x \in Stream : got[x].on}] ELSE run,
           twice' = IF player.playing THEN twice \cup takeTracks(player, t) ELSE twice,
           adrift' = IF player.playing /\ run.take = t
                     THEN adrift \cup {x \in Stream : got[x].on} ELSE adrift,
           UNCHANGED <<archived, load, job, next, settled, asked, stored, picked,
                       missed, revived, owed>>
    PROVE  PlayerInv'
<1> DEFINE q == player'
           z == run'
<1>1. /\ player \in PlayerSet /\ Sounds(player) /\ PlayerBooks /\ LoadOK(ahead) /\ t \in Take
      /\ RunOK(run) /\ Mounts /\ Forced /\ AsPlanned(player, run, twice, adrift)
      /\ (player.loaded = NoTake => ~ player.playing)
  BY DEF PlayerInv, PlayerGood, Good, PlayerBooks, LoadOK, HeardNow
<1>2. /\ q \in PlayerSet /\ Sounds(q) /\ q.plan = player.plan /\ q.loaded = player.loaded
      /\ q.playing = player.playing
      /\ \A s \in Stream : /\ ~ got[s].on => q.tracks[s] = player.tracks[s]
                           /\ got[s].on => /\ q.tracks[s].on /\ q.tracks[s].at = got[s].at
                                           /\ q.tracks[s].al = stored[s]
      /\ \A s \in Stream :
            \/ q.sources[s] = player.sources[s]
            \/ /\ s \in StreamsIn[t] /\ q.tracks[s].on
               /\ q.sources[s] = Append(player.sources[s], SourceOf(q.tracks[s]))
  BY DEF Joins
<1>3. z.take = run.take /\ z.before = run.before /\ RunOK(z)
  <2> DEFINE L == run.lost \cup {x \in Stream : got[x].on}
  <2>1. CASE run.take = t
    <3>1. z = [run EXCEPT !.lost = L] /\ L \in SUBSET Stream /\ run \in RunSet
      BY <1>1, <2>1 DEF RunOK, RunSet
    <3> HIDE DEF L
    <3>2. z \in RunSet /\ z.take = run.take /\ z.before = run.before /\ z.todo = run.todo
          /\ z.again = run.again
      BY <3>1 DEF RunSet
    <3> QED
      BY <1>1, <2>1, <3>2 DEF RunOK
  <2>2. CASE run.take # t
    BY <1>1, <2>2
  <2> QED
    BY <2>1, <2>2
<1> HIDE DEF q, z
<1>4. PlayerGood'
  <2>1. Good(q)
    BY <1>1, <1>2 DEF Good
  <2> QED
    BY <2>1 DEF PlayerGood, Good, Sounds, Quiet, q
<1>5. PlayerBooks'
  <2>1. BookTypes /\ BookLoads /\ BookJobs /\ BookPhases
    BY <1>1, BooksAre
  <2>2. BookTypes' /\ BookJobs'
    BY <2>1 DEF BookTypes, BookJobs
  <2>3. BookLoads'
    BY <1>3, <2>1, NothingOK DEF BookLoads, z
  <2>4. BookPhases'
    BY <1>2, <1>3, <2>1 DEF BookPhases, q, z
  <2> QED
    BY <2>2, <2>3, <2>4 DEF PlayerBooks, BookTypes, BookLoads, BookJobs, BookPhases
<1>6. Mounts'
  <2>1. ASSUME NEW s \in Stream
        PROVE  /\ From(player'.tracks[s], s) /\ From(load'.got[s], s) /\ From(ahead'.got[s], s)
    <3>1. From(q.tracks[s], s)
      <4>1. CASE got[s].on
        <5>1. From(got[s], s) /\ q.tracks[s].at = got[s].at
          BY <1>2, <4>1
        <5> QED
          BY <4>1, <5>1 DEF From
      <4>2. CASE ~ got[s].on
        BY <1>2, <4>2, StillFrom
      <4> QED
        BY <4>1, <4>2
    <3> QED
      BY <3>1, StillFrom DEF q
  <2> QED
    BY <1>1, <1>2, <2>1, MountsKept DEF q
<1>7. AsPlanned(q, z, twice', adrift')
  <2>1. CASE ~ player.playing
    <3>1. \A s \in Stream : q.sources[s] = <<>>
      BY <1>2, <2>1 DEF Sounds, Quiet
    <3> QED
      BY <3>1, HeardQuiet
  <2>2. CASE player.playing
    <3>1. ASSUME NEW s \in Stream \ twice'
          PROVE  /\ q.sources[s] = <<>> \/ \E x \in Source : q.sources[s] = <<x>>
                 /\ s \notin adrift' =>
                       q.sources[s] = <<>> \/ q.sources[s] = <<PlannedFrom(q, z, s)>>
      <4>0. s \in Stream /\ s \notin twice
        BY <2>2
      <4>1. CASE s \in StreamsIn[t]
        <5>1. TakeOf[s] = t /\ ~ player.tracks[s].on
          BY <1>1, <2>2, <4>0, <4>1, StreamsKnown, LoadedIs
        <5>2. player.sources[s] = <<>>
          BY <1>1, <4>0, <5>1 DEF Sounds
        <5>3. q.sources[s] = <<>> \/ q.sources[s] = <<SourceOf(q.tracks[s])>>
          BY <1>2, <4>0, <5>2, AppendOne
        <5>4. q.tracks[s] \in Track
          BY <1>2, <4>0 DEF PlayerSet
        <5>5. SourceOf(q.tracks[s]) \in Source
          BY <5>4 DEF SourceOf, Source, Track
        <5>6. CASE run.take # t
          <6>1. PlannedFrom(q, z, s) = SourceOf(q.tracks[s])
            BY <1>3, <5>1, <5>6 DEF PlannedFrom, SourceOf
          <6> QED
            BY <5>3, <5>5, <6>1
        <5>7. CASE run.take = t
          <6>1. ASSUME s \notin adrift' PROVE q.sources[s] = <<>>
            <7>1. ~ got[s].on
              BY <2>2, <4>0, <5>7, <6>1
            <7>2. ~ q.tracks[s].on
              BY <1>2, <4>0, <5>1, <7>1
            <7> QED
              BY <1>2, <4>0, <7>2 DEF Sounds
          <6> QED
            BY <5>3, <5>5, <6>1
        <5> QED
          BY <5>6, <5>7
      <4>2. CASE s \notin StreamsIn[t]
        <5>1. ~ got[s].on
          BY <4>0, <4>2
        <5>2. q.sources[s] = player.sources[s] /\ q.tracks[s] = player.tracks[s]
          BY <1>2, <4>0, <4>2, <5>1
        <5>3. PlannedFrom(q, z, s) = PlannedFrom(player, run, s)
          BY <1>3, <5>2 DEF PlannedFrom
        <5>4. s \notin adrift' => s \notin adrift
          BY <2>2
        <5> QED
          BY <1>1, <4>0, <5>2, <5>3, <5>4 DEF AsPlanned
      <4> QED
        BY <4>1, <4>2
    <3> QED
      BY <3>1 DEF AsPlanned
  <2> QED
    BY <2>1, <2>2
<1>8. HeardNow'
  <2> DEFINE U == twice'
             A == adrift'
  <2>1. twice' = U /\ adrift' = A /\ AsPlanned(player', run', U, A)
    BY <1>7 DEF q, z
  <2> HIDE DEF U, A
  <2> QED
    BY <2>1, HeardNext
<1>9. ASSUME NEW s \in loadedTracks(q)
      PROVE  \/ s \in loadedTracks(player) /\ q.tracks[s] = player.tracks[s]
             \/ q.tracks[s].al = stored[s]
  <2>1. q.loaded \in Take
    BY <1>2, LoadedIs DEF PlayerSet
  <2>2. s \in StreamsIn[q.loaded] /\ q.tracks[s].on /\ s \in Stream
    BY <2>1, LoadedIs, StreamsKnown
  <2>3. CASE ~ got[s].on
    <3>1. q.tracks[s] = player.tracks[s]
      BY <1>2, <2>2, <2>3
    <3>2. s \in loadedTracks(player)
      BY <1>2, <2>1, <2>2, <3>1, LoadedIs
    <3> QED
      BY <3>1, <3>2
  <2> QED
    BY <1>2, <2>2, <2>3
<1>10. Forced'
  <2>1. Unloaded => InForce(q, stored, owed)
    BY <1>1, <1>9 DEF Forced, InForce
  <2>2. z.take # NoTake /\ q.loaded = z.take =>
          /\ \A s \in loadedTracks(q) \ owed : q.tracks[s].al = 0 => stored[s] = 0
          /\ \A s \in StreamsIn[z.take] \ owed :
                stored[s] # 0 => z.before[s].al \in {stored[s], 0}
    BY <1>1, <1>2, <1>3, <1>9 DEF Forced, Measures
  <2> QED
    BY <1>3, <2>1, <2>2 DEF Forced, Measures, Unloaded, InForce, loadedTracks, takeTracks, q, z
<1> QED
  BY <1>4, <1>5, <1>6, <1>8, <1>10 DEF PlayerInv

LEMMA AheadGoesOn ==
    ASSUME PlayerInv, ahead.take # NoTake, NEW s \in ahead.todo, ahead.todo # {s},
           NEW got \in [Stream -> Track],
           \A x \in Stream : got[x].on => x \in StreamsIn[ahead.take],
           \A x \in Stream : From(got[x], x),
           ahead' = [ahead EXCEPT !.todo = @ \ {s}, !.got = got],
           UNCHANGED <<player, archived, load, run, job, next, settled, asked, stored, picked, marks>>
    PROVE  PlayerInv'
<1>1. PlayerGood /\ PlayerBooks /\ LoadOK(ahead) /\ Mounts /\ AsPlanned(player, run, twice, adrift)
  BY DEF PlayerInv, PlayerBooks, HeardNow
<1> DEFINE m == ahead'
<1>2. m = [ahead EXCEPT !.todo = @ \ {s}, !.got = got]
  OBVIOUS
<1> HIDE DEF m
<1>3. LoadOK(m) /\ LoadIs(m, ahead.take, ahead.todo \ {s}, got)
  BY <1>1, <1>2, GoesOn
<1>4. PlayerGood'
  BY <1>1 DEF PlayerGood, Good, Sounds, Quiet
<1>5. PlayerBooks'
  <2>1. /\ stored' \in [Stream -> Nat] /\ archived' \subseteq archived /\ player'.loaded = player.loaded
        /\ (load.take # NoTake => ~ player'.playing) /\ LoadOK(ahead')
    BY <1>1, <1>3 DEF PlayerBooks, m
  <2> QED
    BY <1>1, <2>1, BooksStay
<1>6. Mounts'
  <2>1. ASSUME NEW x \in Stream
        PROVE  /\ From(player'.tracks[x], x) /\ From(load'.got[x], x) /\ From(ahead'.got[x], x)
    <3>1. From(m.got[x], x)
      BY <1>3 DEF LoadIs
    <3> QED
      BY <3>1, StillFrom DEF m
  <2> QED
    BY <1>1, <2>1, MountsKept DEF marks
<1>7. HeardNow'
  <2>1. AsPlanned(player', run', twice, adrift)
    BY <1>1
  <2> QED
    BY <2>1, HeardNext DEF marks
<1>8. Forced'
  <2>1. Thins(player, player')
    BY DEF Thins
  <2> QED
    BY <2>1, ForcedKept DEF marks
<1> QED
  BY <1>4, <1>5, <1>6, <1>7, <1>8 DEF PlayerInv

LEMMA AheadDecodedKeeps == ASSUME PlayerInv, AheadDecoded PROVE PlayerInv'
<1> DEFINE t == ahead.take
           s == FirstOf(t, ahead.todo)
           got == [ahead.got EXCEPT ![s] = mountTrack(s, 0)]
           new == {x \in Stream : got[x].on}
           mounted == [player EXCEPT !.tracks = [x \in Stream |->
                         IF got[x].on THEN [got[x] EXCEPT !.al = stored[x]] ELSE @[x]]]
           q == player'
           GoneOn == /\ s \in archived /\ ahead.todo # {s}
                     /\ ahead' = [ahead EXCEPT !.todo = @ \ {s}, !.got = got]
                     /\ UNCHANGED <<player, run, twice, adrift>>
           GivenUp == ahead' = NoLoad /\ UNCHANGED <<player, run, twice, adrift>>
           Joined ==
             /\ s \in archived /\ ahead' = NoLoad
             /\ q = IF player.playing THEN scheduleTake(mounted, t) ELSE mounted
             /\ run' = IF run.take = t THEN [run EXCEPT !.lost = @ \cup new] ELSE run
             /\ twice' = IF player.playing THEN twice \cup takeTracks(player, t) ELSE twice
             /\ adrift' = IF player.playing /\ run.take = t THEN adrift \cup new ELSE adrift
<1>1. /\ player \in PlayerSet /\ Sounds(player) /\ PlayerBooks /\ LoadOK(ahead)
      /\ t # NoTake /\ t \in Take /\ stored \in [Stream -> Nat]
      /\ ahead.got \in [Stream -> Track]
  BY DEF PlayerInv, PlayerGood, Good, PlayerBooks, AheadDecoded, LoadOK
<1>2. ahead.todo # {} /\ ahead.todo \subseteq StreamsIn[t]
  BY <1>1 DEF LoadOK
<1>3. s \in ahead.todo /\ s \in StreamsIn[t]
  BY <1>1, <1>2, FirstIsIn
<1>4. /\ UNCHANGED <<archived, load, job, next, settled, asked, stored, picked,
                     missed, revived, owed>>
      /\ GoneOn \/ GivenUp \/ Joined
  BY DEF AheadDecoded
<1> DEFINE old == ahead.got
<1>5. OwnTo(t, old) /\ Rooted(old)
  BY <1>1, StillFrom DEF OwnTo, Rooted, LoadOK
<1>6. got = [old EXCEPT ![s] = mountTrack(s, 0)] /\ 0 \in Nat
  OBVIOUS
<1> HIDE DEF s, q, got, old
<1>7. ASSUME s \in archived
      PROVE  /\ got \in [Stream -> Track]
             /\ \A x \in Stream : got[x].on => x \in StreamsIn[t]
             /\ \A x \in Stream : From(got[x], x)
  <2>1. OwnTo(t, got) /\ Rooted(got)
    BY <1>1, <1>3, <1>5, <1>6, <1>7, GotIs
  <2> QED
    BY <2>1 DEF OwnTo, Rooted
<1>8. CASE GoneOn
  BY <1>1, <1>3, <1>4, <1>7, <1>8, AheadGoesOn DEF marks
<1>9. CASE GivenUp
  <2>1. Good(player') /\ Shrinks(player, player') /\ (load.take # NoTake => ~ player'.playing)
    BY <1>1, <1>9 DEF PlayerInv, PlayerGood, PlayerBooks, Shrinks
  <2>2. HeardNow'
    <3>1. AsPlanned(player', run', twice, adrift)
      BY <1>9 DEF PlayerInv, HeardNow
    <3> QED
      BY <1>9, <3>1, HeardNext
  <2>3. NewAhead
    BY <1>9, NothingOK DEF NewAhead
  <2> QED
    BY <1>4, <1>9, <2>1, <2>2, <2>3, Transported
<1>10. CASE Joined
  <2>0. /\ got \in [Stream -> Track]
        /\ \A x \in Stream : got[x].on => x \in StreamsIn[t]
        /\ \A x \in Stream : From(got[x], x)
    BY <1>7, <1>10
  <2>1. Joins(t, got, q)
    BY <1>1, <1>10, <2>0, JoinsIs
  <2>2. /\ ahead' = NoLoad
        /\ run' = IF run.take = t
                  THEN [run EXCEPT !.lost = @ \cup {x \in Stream : got[x].on}] ELSE run
        /\ twice' = IF player.playing THEN twice \cup takeTracks(player, t) ELSE twice
        /\ adrift' = IF player.playing /\ run.take = t
                     THEN adrift \cup {x \in Stream : got[x].on} ELSE adrift
    BY <1>10
  <2>3. Joins(t, got, player')
    BY <2>1 DEF q
  <2>4. t = ahead.take /\ t # NoTake
    BY <1>1
  <2> HIDE DEF t, mounted, new
  <2> QED
    BY <1>4, <2>0, <2>2, <2>3, <2>4, AheadJoins
<1> QED
  BY <1>4, <1>8, <1>9, <1>10

(***************************************************************************)
(* The ends of a job.                                                      *)
(***************************************************************************)
\* The load that a request begins.
LEMMA BegunKeeps ==
    ASSUME PlayerInv, NEW p, Good(p), SameClip(player, p), p.plan = player.plan,
           NEW j, NEW n, Begun(p, j), JobBegun(j, n), PlayerBooks', run'.take = NoTake,
           UNCHANGED <<archived, ahead, missed, revived>>,
           NEW T, NEW A, twice' = T, adrift' = A, AsPlanned(p, run', T, A),
           NEW st, NEW o, stored' = st, owed' = o, InForce(p, st, o)
    PROVE  PlayerInv'
<1> DEFINE q == player'
<1>1. /\ q \in PlayerSet /\ Sounds(q) /\ q.plan = player.plan
      /\ \/ (q = p \/ Promotes(p, j)) /\ Ends(j)
         \/ Decodes(p, j)
  BY DEF Begun, Reloads
<1>2. \/ job'.phase = "loaded" /\ job'.ok = TRUE
      \/ job'.phase = "load" /\ Decodes(p, j)
  <2>1. Ends(j) => job' = [j EXCEPT !.phase = "loaded", !.ok = TRUE]
    BY DEF Ends
  <2>2. CASE job'.phase = "loaded" /\ job'.ok = TRUE
    BY <2>2
  <2>3. CASE job'.phase = "load"
    <3>1. ASSUME Ends(j) PROVE FALSE
      <4>1. load' = NoLoad
        BY <3>1 DEF Ends
      <4>2. load'.take = NoTake
        BY <4>1, NothingOK
      <4> QED
        BY <2>3, <4>2 DEF PlayerBooks
    <3> QED
      BY <1>1, <2>3, <3>1
  <2> QED
    BY <2>2, <2>3 DEF JobBegun
<1>3. \A s \in Stream : load'.got[s] = NoTrack
  <2>1. load' = NoLoad \/ LoadIs(load', j.take, j.want, NoLoad.got)
    BY DEF JobBegun
  <2> QED
    BY <2>1, NothingOK DEF LoadIs
<1>4. Good(q)
  BY <1>1 DEF Good, Promotes, Decodes
<1>5. ASSUME NEW s \in Stream PROVE From(q.tracks[s], s)
  <2>1. \/ q.tracks[s] = p.tracks[s]
        \/ ~ q.tracks[s].on
    BY <1>1 DEF Promotes, Decodes, SameMount
  <2> QED
    BY <2>1 DEF SameClip, From
<1>6. q = p \/ \A s \in Stream : q.sources[s] = <<>>
  BY <1>1 DEF Promotes, Decodes
<1>7. job'.phase = "load" => q.tracks = p.tracks /\ q.loaded = p.loaded
  BY <1>2 DEF Decodes, SameMount
<1> HIDE DEF q
<1>8. PlayerGood'
  BY <1>4 DEF PlayerGood, Good, Sounds, Quiet, q
<1>9. Mounts'
  <2>1. ASSUME NEW s \in Stream
        PROVE  /\ From(player'.tracks[s], s) /\ From(load'.got[s], s) /\ From(ahead'.got[s], s)
    BY <1>3, <1>5, StillFrom DEF q
  <2>2. Mounts /\ player'.plan = player.plan
    BY <1>1 DEF PlayerInv, q
  <2> QED
    BY <2>1, <2>2, MountsKept
<1>10. HeardNow'
  <2>1. AsPlanned(q, run', T, A)
    BY <1>6, HeardQuiet
  <2> QED
    BY <2>1, HeardNext DEF q
<1>11. Forced'
  <2>1. job'.phase = "load" => InForce(q, st, o)
    BY <1>7 DEF InForce, loadedTracks, takeTracks
  <2> QED
    BY <1>2, <2>1 DEF Forced, Measures, Unloaded, InForce, loadedTracks, takeTracks, q
<1> QED
  BY <1>8, <1>9, <1>10, <1>11 DEF PlayerInv

LEMMA FinishKeeps ==
    ASSUME PlayerInv, job.id # 0, NEW p, Good(p), SameClip(player, p), p.plan = player.plan,
           FinishJob(p), run' = NoRun, UNCHANGED <<archived, ahead, asked, picked, missed, revived>>,
           NEW T, NEW A, twice' = T, adrift' = A, AsPlanned(p, NoRun, T, A),
           NEW st \in [Stream -> Nat], NEW o, stored' = st, owed' = o, InForce(p, st, o)
    PROVE  PlayerInv'
<1>1. /\ PlayerBooks /\ JobOK(next, asked) /\ LoadOK(ahead)' /\ run'.take = NoTake
      /\ p \in PlayerSet /\ Sounds(p) /\ Mounts
  BY NothingOK DEF PlayerInv, PlayerBooks, Good
<1>2. Finishes(p)
  BY <1>1, FinishIs
<1>3. /\ settled' \subseteq 1..asked' /\ BookLoads' /\ BookJobs' /\ BookPhases'
      /\ next.id = 0 => job'.id = 0 /\ player' = p
      /\ next.id # 0 => Begun(p, next) /\ JobBegun(next, asked)
  BY <1>1, <1>2, FinishedBooks
<1>4. PlayerBooks'
  <2>1. BookTypes'
    BY <1>1, <1>3 DEF PlayerBooks, BookTypes
  <2> QED
    BY <1>3, <2>1 DEF PlayerBooks, BookTypes, BookLoads, BookJobs, BookPhases
<1>5. CASE next.id = 0
  <2>1. player' = p /\ load' = NoLoad
    BY <1>2, <1>5 DEF Finishes
  <2>2. PlayerGood'
    BY <2>1 DEF PlayerGood, Good, Sounds, Quiet
  <2>3. Mounts'
    <3>1. ASSUME NEW s \in Stream
          PROVE  /\ From(player'.tracks[s], s) /\ From(load'.got[s], s) /\ From(ahead'.got[s], s)
      <4>1. From(p.tracks[s], s)
        BY DEF SameClip, From
      <4> QED
        BY <2>1, <4>1, StillFrom
    <3> QED
      BY <1>1, <2>1, <3>1, MountsKept
  <2>4. HeardNow'
    <3>1. AsPlanned(player', run', T, A)
      BY <2>1
    <3> QED
      BY <3>1, HeardNext
  <2>5. Forced'
    BY <1>1, <2>1 DEF Forced, Measures, InForce, loadedTracks, takeTracks
  <2> QED
    BY <1>4, <2>2, <2>3, <2>4, <2>5 DEF PlayerInv
<1>6. CASE next.id # 0
  BY <1>1, <1>3, <1>4, <1>6, BegunKeeps
<1> QED
  BY <1>5, <1>6

\* A run begins: what sounds was planned from the verdicts it begins with.
LEMMA MeasureBegins ==
    ASSUME PlayerInv, job.phase = "loaded", job.ok, NEW p, Restores(player, p),
           loadedTracks(p) # {}, player' = p,
           run' = [NoRun EXCEPT !.take = p.loaded, !.todo = loadedTracks(p),
                                !.before = Fingerprint(p)],
           job' = [job EXCEPT !.phase = "align"],
           NEW T, NEW A, twice' = T, adrift' = A, AsPlanned(p, NoRun, T, A),
           UNCHANGED <<archived, load, ahead, next, settled, asked, stored, picked,
                       missed, revived>>,
           owed' = owed \ loadedTracks(p)
    PROVE  PlayerInv'
<1>1. /\ player \in PlayerSet /\ PlayerBooks /\ load.take = NoTake /\ Mounts
      /\ player.loaded = job.take /\ job.id # 0 /\ (player.loaded = NoTake => ~ player.playing)
      /\ stored \in [Stream -> Nat]
  BY DEF PlayerInv, PlayerGood, Good, PlayerBooks
<1>2. /\ p \in PlayerSet /\ Sounds(p) /\ p.loaded = player.loaded /\ p.plan = player.plan
      /\ SameClip(player, p) /\ p.playing = player.playing
      /\ \A s \in loadedTracks(p) : s \in loadedTracks(player)
  <2>1. Judged(player, p)
    BY DEF Restores, Judged
  <2> QED
    BY <1>1, <2>1, ClipLoaded DEF Judged
<1> DEFINE r == run'
           j == job'
           S == loadedTracks(p)
           b == Fingerprint(p)
<1>3. p.loaded \in Take /\ p.loaded # NoTake
  BY <1>2, LoadedIs, PlayerAssumption DEF PlayerSet
<1>4. /\ S \subseteq StreamsIn[p.loaded] /\ S \in SUBSET Stream
      /\ \A s \in StreamsIn[p.loaded] : s \in Stream /\ (s \in S <=> p.tracks[s].on)
  BY <1>2, <1>3, LoadedIs, StreamsKnown DEF PlayerSet
<1>5. /\ b \in [Stream -> Track]
      /\ \A x \in Stream : b[x] = IF x \in S THEN p.tracks[x] ELSE NoTrack
  BY <1>2, NoTrackIsOff DEF Fingerprint, PlayerSet
<1>6. r = [take |-> p.loaded, todo |-> S, again |-> {}, lost |-> {}, before |-> b]
  BY DEF NoRun
<1>7. j = [job EXCEPT !.phase = "align"]
  OBVIOUS
<1>a. owed' = owed \ S
  OBVIOUS
<1> HIDE DEF r, j, S, b
<1>8. /\ r \in RunSet /\ r.take = p.loaded /\ r.todo = S /\ r.again = {} /\ r.before = b
  BY <1>3, <1>4, <1>5, <1>6 DEF RunSet
<1>9. RunOK(r)
  BY <1>3, <1>4, <1>8 DEF RunOK
<1>10. /\ job \in [id : 0..asked, take : Take \cup {NoTake}, force : BOOLEAN, want : SUBSET Stream,
                   phase : {"idle", "queued", "load", "loaded", "align"}, ok : BOOLEAN]
       /\ job.take \in Take /\ job.want \subseteq StreamsIn[job.take]
  BY <1>1 DEF PlayerBooks, JobOK
<1>11. /\ j \in [id : 0..asked, take : Take \cup {NoTake}, force : BOOLEAN, want : SUBSET Stream,
                 phase : {"idle", "queued", "load", "loaded", "align"}, ok : BOOLEAN]
       /\ j.id = job.id /\ j.take = job.take /\ j.want = job.want /\ j.phase = "align"
  BY <1>7, <1>10
<1>12. JobOK(j, asked)
  BY <1>1, <1>10, <1>11 DEF JobOK
<1>13. PlayerGood'
  <2>1. Good(p)
    BY <1>1, <1>2 DEF Good
  <2> QED
    BY <2>1 DEF PlayerGood, Good, Sounds, Quiet
<1>14. PlayerBooks'
  <2>1. BookTypes' /\ BookLoads'
    BY <1>1, <1>9 DEF PlayerBooks, BookTypes, BookLoads, r
  <2>2. BookJobs'
    BY <1>1, <1>11, <1>12 DEF PlayerBooks, BookJobs, j
  <2>3. BookPhases'
    BY <1>1, <1>3, <1>8, <1>11 DEF BookPhases, r, j
  <2> QED
    BY <2>1, <2>2, <2>3 DEF PlayerBooks, BookTypes, BookLoads, BookJobs, BookPhases
<1>15. Mounts'
  <2>1. ASSUME NEW s \in Stream
        PROVE  /\ From(player'.tracks[s], s) /\ From(load'.got[s], s) /\ From(ahead'.got[s], s)
    <3>1. From(p.tracks[s], s)
      BY <1>2 DEF SameClip, From
    <3> QED
      BY <3>1, StillFrom
  <2> QED
    BY <1>1, <1>2, <2>1, MountsKept
<1>16. HeardNow'
  <2>1. ASSUME NEW s \in Stream PROVE GoesOnAs(p, NoRun, p, r, s)
    <3>1. CASE ~ p.tracks[s].on
      BY <1>2, <3>1 DEF GoesOnAs, Sounds
    <3>2. CASE p.tracks[s].on /\ TakeOf[s] = p.loaded
      <4>1. s \in S
        BY <1>4, <3>2, StreamsKnown
      <4>2. r.before[s].al = p.tracks[s].al
        BY <1>5, <1>8, <4>1
      <4>3. TakeOf[s] # NoRun.take
        BY <1>3, <3>2, NothingOK
      <4> QED
        BY <4>2, <4>3 DEF GoesOnAs, PlannedFrom
    <3>3. CASE TakeOf[s] # p.loaded
      <4>1. TakeOf[s] # NoRun.take /\ TakeOf[s] # r.take
        BY <1>8, <3>3, NothingOK, StreamsKnown, PlayerAssumption
      <4> QED
        BY <4>1 DEF GoesOnAs, PlannedFrom
    <3> QED
      BY <3>1, <3>2, <3>3
  <2>2. AsPlanned(p, r, T, A)
    BY <2>1, HeardKept
  <2>3. AsPlanned(player', run', T, A)
    BY <2>2 DEF r
  <2> QED
    BY <2>3, HeardNext
<1>17. Forced'
  <2>1. \A s \in S : p.tracks[s].al = IF stored[s] # 0 THEN stored[s] ELSE player.tracks[s].al
    BY <1>2 DEF Restores, S
  <2>2. \A s \in S : p.tracks[s].al = 0 => stored[s] = 0
    BY <1>1, <1>4, <2>1
  <2>3. ASSUME NEW s \in StreamsIn[p.loaded], stored[s] # 0
        PROVE  b[s].al \in {stored[s], 0}
    <3>1. s \in Stream
      BY <1>4
    <3>2. CASE s \in S
      BY <1>5, <2>1, <2>3, <3>1, <3>2
    <3>3. CASE s \notin S
      BY <1>5, <3>1, <3>3 DEF NoTrack
    <3> QED
      BY <3>2, <3>3
  <2>4. /\ run'.take = p.loaded /\ run'.before = b /\ p.loaded # NoTake
    BY <1>3, <1>8 DEF r
  <2>5. Measures'
    BY <2>2, <2>3, <2>4 DEF Measures, S, loadedTracks, takeTracks
  <2>6. ~ Unloaded'
    BY <2>4 DEF Unloaded
  <2> QED
    BY <2>5, <2>6 DEF Forced
<1> QED
  BY <1>13, <1>14, <1>15, <1>16, <1>17 DEF PlayerInv

LEMMA JobLoadedKeeps == ASSUME PlayerInv, JobLoaded PROVE PlayerInv'
<1> DEFINE p == Restored(player)
           S == loadedTracks(player)
           R == loadedTracks(p)
           measure == R # {} /\ (job.force \/ \E s \in R : p.tracks[s].al = 0)
           T == twice'
           A == adrift'
           o == owed'
           st == stored'
<1>1. /\ player \in PlayerSet /\ Sounds(player) /\ Good(player) /\ PlayerBooks /\ Forced
      /\ AsPlanned(player, run, twice, adrift) /\ stored \in [Stream -> Nat]
      /\ (player.loaded = NoTake => ~ player.playing) /\ job.phase = "loaded"
  BY DEF PlayerInv, PlayerGood, Good, PlayerBooks, HeardNow, JobLoaded
<1>2. job.id # 0 /\ run = NoRun /\ run.take = NoTake
  BY <1>1, NothingOK DEF PlayerBooks, RunOK
<1>3. /\ UNCHANGED <<archived, ahead, asked, picked, missed, revived>> /\ stored' = stored
      /\ \/ ~ job.ok /\ FinishJob(player) /\ UNCHANGED <<run, twice, adrift, owed>>
         \/ FinishJob(player) /\ o = owed \cup S /\ UNCHANGED <<run, twice, adrift>>
         \/ /\ job.ok /\ o = owed \ R
            /\ IF p # player THEN Replanned ELSE UNCHANGED <<twice, adrift>>
            /\ IF ~ measure THEN FinishJob(p) /\ UNCHANGED run
               ELSE /\ player' = p
                    /\ run' = [NoRun EXCEPT !.take = p.loaded, !.todo = R,
                                            !.before = Fingerprint(p)]
                    /\ job' = [job EXCEPT !.phase = "align"]
                    /\ UNCHANGED <<load, next, settled>>
  BY DEF JobLoaded, marks
<1>4. twice' = T /\ adrift' = A /\ owed' = o /\ stored' = st /\ st = stored
  BY <1>3
<1>5. Restores(player, p)
  BY <1>1, RestoredIs
<1> HIDE DEF p, T, A, o, st
<1>6. SameClip(player, player)
  BY DEF SameClip
<1>7. CASE ~ job.ok /\ FinishJob(player) /\ UNCHANGED <<run, twice, adrift, owed>>
  <2>1. InForce(player, st, o)
    BY <1>1, <1>2, <1>4, <1>7 DEF Forced, Unloaded
  <2>2. AsPlanned(player, NoRun, T, A)
    BY <1>1, <1>2, <1>4, <1>7
  <2>3. run' = NoRun /\ FinishJob(player)
    BY <1>2, <1>7
  <2> QED
    BY <1>1, <1>2, <1>3, <1>4, <1>6, <2>1, <2>2, <2>3, FinishKeeps
<1>8. CASE FinishJob(player) /\ o = owed \cup S /\ UNCHANGED <<run, twice, adrift>>
  <2>1. InForce(player, st, o)
    BY <1>8 DEF InForce
  <2>2. AsPlanned(player, NoRun, T, A)
    BY <1>1, <1>2, <1>4, <1>8
  <2>3. run' = NoRun /\ FinishJob(player)
    BY <1>2, <1>8
  <2> QED
    BY <1>1, <1>2, <1>3, <1>4, <1>6, <2>1, <2>2, <2>3, FinishKeeps
<1>9. CASE /\ job.ok /\ o = owed \ R
           /\ IF p # player THEN Replanned ELSE UNCHANGED <<twice, adrift>>
           /\ IF ~ measure THEN FinishJob(p) /\ UNCHANGED run
              ELSE /\ player' = p
                   /\ run' = [NoRun EXCEPT !.take = p.loaded, !.todo = R,
                                           !.before = Fingerprint(p)]
                   /\ job' = [job EXCEPT !.phase = "align"]
                   /\ UNCHANGED <<load, next, settled>>
  <2>1. /\ p \in PlayerSet /\ p.plan = player.plan /\ p.loaded = player.loaded
        /\ p.playing = player.playing /\ SameClip(player, p) /\ Sounds(p)
        /\ (p = player \/ Drawn(p))
    BY <1>5 DEF Restores
  <2>2. AsPlanned(p, NoRun, T, A)
    <3>1. CASE p = player
      BY <1>1, <1>2, <1>4, <1>9, <3>1
    <3>2. CASE p # player
      <4>1. Drawn(p)
        BY <2>1, <3>2
      <4>2. \A s \in Stream : TakeOf[s] # NoRun.take
        BY NothingOK, StreamsKnown, PlayerAssumption
      <4> QED
        BY <2>1, <4>1, <4>2, HeardFresh
    <3> QED
      BY <3>1, <3>2
  <2>3. CASE ~ measure
    <3>1. Good(p)
      BY <1>1, <2>1 DEF Good
    <3>2. R = S
      <4>1. Judged(player, p)
        BY <2>1 DEF Judged
      <4> QED
        BY <1>1, <4>1, ClipLoaded
    <3>3. InForce(p, st, o)
      BY <1>4, <1>5, <3>2 DEF InForce, Restores
    <3>4. run' = NoRun /\ FinishJob(p)
      BY <1>2, <1>9, <2>3
    <3> QED
      BY <1>1, <1>2, <1>3, <1>4, <2>1, <2>2, <3>1, <3>3, <3>4, FinishKeeps
  <2>4. CASE measure
    <3>1. /\ job.ok /\ loadedTracks(p) # {} /\ player' = p
          /\ run' = [NoRun EXCEPT !.take = p.loaded, !.todo = loadedTracks(p),
                                  !.before = Fingerprint(p)]
          /\ job' = [job EXCEPT !.phase = "align"]
          /\ UNCHANGED <<load, next, settled>> /\ owed' = owed \ loadedTracks(p)
      BY <1>4, <1>9, <2>4
    <3> QED
      BY <1>1, <1>3, <1>4, <1>5, <2>2, <3>1, MeasureBegins
  <2> QED
    BY <2>3, <2>4
<1> QED
  BY <1>3, <1>7, <1>8, <1>9

\* A run is of the loaded take; what is off, or at rest, is silent.
LEMMA RunIsLoaded ==
    ASSUME PlayerInv, run.take # NoTake
    PROVE  /\ run.take \in Take /\ job.id # 0 /\ run \in RunSet
           /\ loadedTracks(player) # {} => player.loaded = run.take
           /\ \A s \in Stream : \/ player.sources[s] = <<>>
                                \/ TakeOf[s] # run.take
                                \/ s \in loadedTracks(player)
<1>1. /\ PlayerBooks /\ Sounds(player) /\ (player.loaded = NoTake => ~ player.playing)
  BY DEF PlayerInv, PlayerGood, Good
<1>2. /\ run.take \in Take /\ job.id # 0 /\ player.loaded \in {run.take, NoTake} /\ run \in RunSet
  BY <1>1 DEF PlayerBooks, RunOK, RunSet
<1>3. loadedTracks(player) # {} => player.loaded = run.take
  BY <1>2, LoadedIs
<1>4. ASSUME NEW s \in Stream, player.sources[s] # <<>>, TakeOf[s] = run.take
      PROVE  s \in loadedTracks(player)
  <2>1. player.playing /\ player.tracks[s].on
    BY <1>1, <1>4 DEF Sounds, Quiet
  <2>2. player.loaded = run.take
    BY <1>1, <1>2, <2>1
  <2>3. s \in StreamsIn[run.take]
    BY <1>2, <1>4, StreamsKnown
  <2> QED
    BY <1>2, <2>1, <2>2, <2>3, LoadedIs
<1> QED
  BY <1>2, <1>3, <1>4

LEMMA AlignFinishKeeps == ASSUME PlayerInv, AlignFinish PROVE PlayerInv'
<1> DEFINE S == loadedTracks(player)
           p == IF Fingerprint(player) # run.before THEN reschedule(player) ELSE player
           placed == {s \in S : player.tracks[s].al # 0}
           T == twice'
           A == adrift'
           o == owed'
           st == stored'
<1>1. /\ player \in PlayerSet /\ Sounds(player) /\ Good(player) /\ PlayerBooks /\ Measures
      /\ AsPlanned(player, run, twice, adrift) /\ stored \in [Stream -> Nat] /\ run.take # NoTake
      /\ (player.loaded = NoTake => ~ player.playing)
  BY DEF PlayerInv, PlayerGood, Good, PlayerBooks, HeardNow, Forced, AlignFinish
<1>2. /\ run.take \in Take /\ job.id # 0 /\ (S # {} => player.loaded = run.take)
      /\ \A s \in Stream : player.sources[s] = <<>> \/ TakeOf[s] # run.take \/ s \in S
  BY <1>1, RunIsLoaded
<1>3. /\ UNCHANGED <<archived, ahead, asked, picked, missed, revived>>
      /\ FinishJob(p) /\ run' = NoRun /\ owed' = owed \ placed
      /\ stored' = [s \in Stream |-> IF s \in placed THEN player.tracks[s].al ELSE stored[s]]
      /\ IF Fingerprint(player) # run.before THEN twice' = {} /\ adrift' = {}
         ELSE UNCHANGED <<twice, adrift>>
  BY DEF AlignFinish
<1>4. S \subseteq Stream /\ \A s \in Stream : player.tracks[s].al \in Nat
  BY <1>1, LoadedIs DEF PlayerSet, Track
<1>5. /\ stored' \in [Stream -> Nat]
      /\ \A s \in S : stored'[s] = IF player.tracks[s].al # 0 THEN player.tracks[s].al ELSE stored[s]
  BY <1>1, <1>3, <1>4
<1>6. /\ Fingerprint(player) = run.before => p = player
      /\ Fingerprint(player) # run.before => Fresh(player, p) /\ p.playing = player.playing
  BY <1>1, RescheduleIs DEF Sounds
<1>7. \A s \in S : Fingerprint(player)[s] = player.tracks[s]
  BY <1>4 DEF Fingerprint
<1>8. twice' = T /\ adrift' = A /\ owed' = o /\ stored' = st
  OBVIOUS
<1> HIDE DEF p, T, A, o, st, S
<1>9. /\ p \in PlayerSet /\ Sounds(p) /\ p.tracks = player.tracks /\ p.plan = player.plan
      /\ p.loaded = player.loaded /\ p.playing = player.playing
  BY <1>1, <1>6 DEF Fresh, SameMount
<1>10. Good(p) /\ SameClip(player, p)
  BY <1>1, <1>9 DEF Good, SameClip
<1>11. AsPlanned(p, NoRun, T, A)
  <2>1. CASE Fingerprint(player) # run.before
    <3>1. Drawn(p)
      BY <1>6, <2>1 DEF Fresh
    <3>2. \A s \in Stream : TakeOf[s] # NoRun.take
      BY NothingOK, StreamsKnown, PlayerAssumption
    <3> QED
      BY <1>9, <3>1, <3>2, HeardFresh
  <2>2. CASE Fingerprint(player) = run.before
    <3>1. ASSUME NEW s \in Stream PROVE GoesOnAs(player, run, player, NoRun, s)
      <4>1. TakeOf[s] # NoRun.take
        BY NothingOK, StreamsKnown, PlayerAssumption
      <4>2. CASE player.sources[s] = <<>>
        BY <4>2 DEF GoesOnAs
      <4>3. CASE TakeOf[s] # run.take
        BY <4>1, <4>3 DEF GoesOnAs, PlannedFrom
      <4>4. CASE s \in S
        <5>1. run.before[s].al = player.tracks[s].al
          BY <1>7, <2>2, <4>4
        <5> QED
          BY <4>1, <5>1 DEF GoesOnAs, PlannedFrom
      <4> QED
        BY <1>2, <4>2, <4>3, <4>4
    <3>2. AsPlanned(player, NoRun, twice, adrift)
      BY <1>1, <3>1, HeardKept
    <3> QED
      BY <1>3, <1>6, <1>8, <2>2, <3>2
  <2> QED
    BY <2>1, <2>2
<1>12. InForce(p, st, o)
  <2>1. loadedTracks(p) = S
    BY <1>9 DEF S, loadedTracks, takeTracks
  <2>2. ASSUME NEW s \in S, s \notin owed', stored'[s] # 0 PROVE player.tracks[s].al = stored'[s]
    <3>1. CASE player.tracks[s].al # 0
      BY <1>5, <3>1
    <3>2. CASE player.tracks[s].al = 0
      <4>1. s \notin owed /\ player.loaded = run.take
        BY <1>2, <1>3, <2>2, <3>2
      <4>2. stored[s] = 0
        BY <1>1, <3>2, <4>1 DEF Measures, S
      <4> QED
        BY <1>5, <2>2, <3>2, <4>2
    <3> QED
      BY <3>1, <3>2
  <2> QED
    BY <1>8, <1>9, <2>1, <2>2 DEF InForce
<1> QED
  BY <1>2, <1>3, <1>5, <1>8, <1>9, <1>10, <1>11, <1>12, FinishKeeps

LEMMA AlignThrowsKeeps == ASSUME PlayerInv, AlignThrows PROVE PlayerInv'
<1> DEFINE S == loadedTracks(player)
           changed == {s \in S : player.tracks[s].al # run.before[s].al}
           T == twice'
           A == adrift'
           o == owed'
           st == stored'
<1>1. /\ player \in PlayerSet /\ Sounds(player) /\ Good(player) /\ PlayerBooks /\ Measures
      /\ AsPlanned(player, run, twice, adrift) /\ stored \in [Stream -> Nat] /\ run.take # NoTake
  BY DEF PlayerInv, PlayerGood, Good, PlayerBooks, HeardNow, Forced, AlignThrows
<1>2. /\ run.take \in Take /\ job.id # 0 /\ (S # {} => player.loaded = run.take)
      /\ \A s \in Stream : player.sources[s] = <<>> \/ TakeOf[s] # run.take \/ s \in S
  BY <1>1, RunIsLoaded
<1>3. /\ UNCHANGED <<archived, ahead, asked, picked, missed, revived>>
      /\ FinishJob(player) /\ run' = NoRun /\ stored' = stored /\ twice' = twice
      /\ adrift' = adrift \cup changed /\ owed' = owed \cup changed
  BY DEF AlignThrows
<1>4. \A s \in S : s \in changed <=> player.tracks[s].al # run.before[s].al
  OBVIOUS
<1>5. twice' = T /\ adrift' = A /\ owed' = o /\ stored' = st
  OBVIOUS
<1>6. SameClip(player, player)
  BY DEF SameClip
<1>7. \A s \in S : player.loaded = run.take => s \in StreamsIn[run.take] /\ s \in Stream
  BY <1>2, LoadedIs, StreamsKnown
<1> HIDE DEF T, A, o, st, S, changed
<1>8. AsPlanned(player, NoRun, T, A)
  <2>1. AsPlanned(player, run, T, A)
    BY <1>1, <1>3, <1>5 DEF AsPlanned
  <2>2. ASSUME NEW s \in Stream \ changed PROVE GoesOnAs(player, run, player, NoRun, s)
    <3>1. TakeOf[s] # NoRun.take
      BY NothingOK, StreamsKnown, PlayerAssumption
    <3>2. CASE player.sources[s] = <<>>
      BY <3>2 DEF GoesOnAs
    <3>3. CASE TakeOf[s] # run.take
      BY <3>1, <3>3 DEF GoesOnAs, PlannedFrom
    <3>4. CASE s \in S
      <4>1. run.before[s].al = player.tracks[s].al
        BY <1>4, <2>2, <3>4
      <4> QED
        BY <3>1, <4>1 DEF GoesOnAs, PlannedFrom
    <3> QED
      BY <1>2, <3>2, <3>3, <3>4
  <2>3. changed \subseteq A
    BY <1>3, <1>5
  <2> QED
    BY <2>1, <2>2, <2>3 DEF AsPlanned, GoesOnAs
<1>9. InForce(player, st, o)
  <2>1. ASSUME NEW s \in S, s \notin owed', stored[s] # 0 PROVE player.tracks[s].al = stored[s]
    <3>1. s \notin owed /\ s \notin changed /\ player.loaded = run.take /\ s \in StreamsIn[run.take]
      BY <1>2, <1>3, <1>7, <2>1
    <3>2. run.before[s].al \in {stored[s], 0} /\ run.before[s].al = player.tracks[s].al
      BY <1>1, <1>4, <2>1, <3>1 DEF Measures
    <3>3. player.tracks[s].al # 0
      BY <1>1, <2>1, <3>1 DEF Measures, S
    <3> QED
      BY <3>2, <3>3
  <2> QED
    BY <1>3, <1>5, <2>1 DEF InForce, S
<1>10. st \in [Stream -> Nat] /\ player.plan = player.plan
  BY <1>1, <1>3, <1>5
<1> QED
  BY <1>1, <1>2, <1>3, <1>5, <1>6, <1>8, <1>9, <1>10, FinishKeeps

(***************************************************************************)
(* A request.                                                              *)
(***************************************************************************)
LEMMA RequestIs ==
    ASSUME PlayerBooks, NEW t \in Take, NEW f \in BOOLEAN, NEW req,
           req = [id |-> asked + 1, take |-> t, force |-> f, want |-> StreamsIn[t] \cap archived,
                  phase |-> "queued", ok |-> FALSE]
    PROVE  /\ JobOK(req, asked + 1) /\ req.id = asked + 1 /\ req.id # 0 /\ req.take = t
           /\ JobOK(job, asked + 1) /\ JobOK(next, asked + 1)
<1>1. asked \in Nat /\ archived \subseteq Stream
  BY DEF PlayerBooks
<1> DEFINE w == StreamsIn[t] \cap archived
           n == asked + 1
<1>2. w \in SUBSET Stream /\ w \subseteq StreamsIn[t]
  BY <1>1
<1>3. n \in 0..n /\ n # 0 /\ n \in Nat /\ \A i : i \in 0..asked => i \in 0..n
  BY <1>1
<1> HIDE DEF w, n
<1>4. req = [id |-> n, take |-> t, force |-> f, want |-> w, phase |-> "queued", ok |-> FALSE]
  BY DEF w, n
<1>5. JobOK(req, n) /\ req.id = n /\ req.take = t
  BY <1>2, <1>3, <1>4 DEF JobOK
<1>6. JobOK(job, n) /\ JobOK(next, n)
  BY <1>3 DEF PlayerBooks, JobOK
<1> QED
  BY <1>3, <1>5, <1>6 DEF n

\* The request waits behind the job that runs.
LEMMA RequestWaits ==
    ASSUME PlayerInv, NEW t \in Take, NEW req, JobOK(req, asked + 1), req.id # 0,
           JobOK(job, asked + 1), job.id # 0, asked' = asked + 1, picked' = t, next' = req,
           settled' = settled \cup ({next.id} \ {0}),
           UNCHANGED <<player, load, job, archived, ahead, run, stored, marks>>
    PROVE  PlayerInv'
<1>1. PlayerGood /\ PlayerBooks /\ Mounts /\ HeardNow /\ Forced
  BY DEF PlayerInv
<1> DEFINE r == next'
<1>2. JobOK(r, asked + 1) /\ r.id # 0
  OBVIOUS
<1> HIDE DEF r
<1>3. PlayerGood'
  BY <1>1 DEF PlayerGood, Good, Sounds, Quiet
<1>4. PlayerBooks'
  <2>1. settled' \subseteq 1..asked'
    <3> DEFINE n == asked
               k == next.id
    <3>1. k \in 0..n /\ n \in Nat /\ settled \subseteq 1..n
      BY <1>1 DEF PlayerBooks, JobOK
    <3> SUFFICES ASSUME NEW i \in settled' PROVE i \in 1..(asked + 1)
      OBVIOUS
    <3>2. i \in settled \/ (i = k /\ k # 0)
      OBVIOUS
    <3> HIDE DEF n, k
    <3>3. i \in 1..(n + 1)
      BY <3>1, <3>2
    <3> QED
      BY <3>3 DEF n
  <2>2. BookTypes'
    BY <1>1, <2>1 DEF PlayerBooks, BookTypes
  <2>3. BookLoads' /\ BookPhases'
    BY <1>1 DEF PlayerBooks, BookLoads, BookPhases
  <2>4. BookJobs'
    BY <1>1, <1>2 DEF PlayerBooks, BookJobs, r
  <2> QED
    BY <2>2, <2>3, <2>4 DEF PlayerBooks, BookTypes, BookLoads, BookJobs, BookPhases
<1>5. Mounts'
  BY <1>1 DEF Mounts, Fine, marks
<1>6. HeardNow'
  BY <1>1 DEF HeardNow, AsPlanned, PlannedFrom, marks
<1>7. Forced'
  BY <1>1 DEF Forced, Measures, Unloaded, InForce, loadedTracks, takeTracks, marks
<1> QED
  BY <1>3, <1>4, <1>5, <1>6, <1>7 DEF PlayerInv

\* The request starts at once.
LEMMA RequestBegins ==
    ASSUME PlayerInv, NEW t \in Take, NEW req, JobOK(req, asked + 1), req.id # 0, req.take = t,
           JobOK(next, asked + 1), job.id = 0, asked' = asked + 1, picked' = t,
           BeginLoad(player, req),
           UNCHANGED <<next, settled, archived, ahead, run, stored, marks>>
    PROVE  PlayerInv'
<1> DEFINE n == asked + 1
           T == twice'
           A == adrift'
           o == owed'
           st == stored'
<1>1. /\ player \in PlayerSet /\ Sounds(player) /\ Good(player) /\ PlayerBooks /\ Forced
      /\ AsPlanned(player, run, twice, adrift) /\ n \in Nat /\ archived \subseteq Stream
  BY DEF PlayerInv, PlayerGood, Good, PlayerBooks, HeardNow
<1>2. next.id = 0 /\ next = NoJob /\ job.phase = "idle" /\ run.take = NoTake
  BY <1>1, NothingOK DEF PlayerBooks, JobOK
<1>3. /\ twice' = T /\ adrift' = A /\ owed' = o /\ stored' = st
      /\ T = twice /\ A = adrift /\ o = owed /\ st = stored
      /\ UNCHANGED <<archived, ahead, missed, revived>> /\ run' = run
  BY DEF marks
<1> HIDE DEF n, T, A, o, st
<1>4. Begun(player, req)
  BY <1>1, BeginIs
<1>5. JobBegun(req, n)
  BY <1>1, <1>4, BegunBooks DEF n
<1>6. /\ job'.phase \in {"loaded", "load"} /\ job'.id # 0 /\ job'.take = t
  BY <1>5 DEF JobBegun
<1>7. PlayerBooks'
  <2>1. settled' \subseteq 1..asked'
    BY <1>1 DEF PlayerBooks
  <2>2. BookTypes'
    BY <1>1, <2>1 DEF PlayerBooks, BookTypes
  <2>3. BookLoads'
    BY <1>1, <1>5, NothingOK DEF PlayerBooks, BookLoads, JobBegun
  <2>4. BookJobs'
    BY <1>2, <1>5, <1>6 DEF PlayerBooks, BookJobs, JobBegun, n
  <2>5. BookPhases'
    <3>1. CASE job'.phase = "loaded" /\ load' = NoLoad /\ player'.loaded = t
      BY <1>2, <1>6, <3>1, NothingOK DEF BookPhases
    <3>2. CASE job'.phase = "load" /\ LoadIs(load', t, req.want, NoLoad.got) /\ ~ player'.playing
      <4>1. load'.take = t /\ t # NoTake
        BY <3>2, PlayerAssumption DEF LoadIs
      <4> QED
        BY <1>2, <1>6, <3>2, <4>1 DEF BookPhases
    <3> QED
      BY <1>5, <3>1, <3>2 DEF JobBegun
  <2> QED
    BY <2>2, <2>3, <2>4, <2>5 DEF PlayerBooks, BookTypes, BookLoads, BookJobs, BookPhases
<1>8. SameClip(player, player)
  BY DEF SameClip
<1>9. AsPlanned(player, run', T, A)
  BY <1>1, <1>3
<1>10. InForce(player, st, o)
  BY <1>1, <1>2, <1>3 DEF Forced, Unloaded
<1>11. run'.take = NoTake
  BY <1>2
<1> QED
  BY <1>1, <1>3, <1>4, <1>5, <1>7, <1>8, <1>9, <1>10, <1>11, BegunKeeps

LEMMA RequestKeeps ==
    ASSUME PlayerInv, NEW t \in Take, NEW f, f \in {TRUE, FALSE}, RequestLoad(t, f)
    PROVE  PlayerInv'
<1> DEFINE req == [id |-> asked + 1, take |-> t, force |-> f, want |-> StreamsIn[t] \cap archived,
                   phase |-> "queued", ok |-> FALSE]
<1>1. PlayerBooks /\ f \in BOOLEAN
  BY DEF PlayerInv
<1>2. /\ asked' = asked + 1 /\ picked' = t
      /\ IF job.id # 0
         THEN /\ next' = req
              /\ settled' = settled \cup ({next.id} \ {0})
              /\ UNCHANGED <<player, load, job>>
         ELSE BeginLoad(player, req) /\ UNCHANGED <<next, settled>>
      /\ UNCHANGED <<archived, ahead, run, stored, marks>>
  BY DEF RequestLoad
<1>3. /\ JobOK(req, asked + 1) /\ req.id # 0 /\ req.take = t
      /\ JobOK(job, asked + 1) /\ JobOK(next, asked + 1)
  BY <1>1, RequestIs
<1> HIDE DEF req
<1>4. CASE job.id # 0
  BY <1>2, <1>3, <1>4, RequestWaits
<1>5. CASE job.id = 0
  BY <1>2, <1>3, <1>5, RequestBegins
<1> QED
  BY <1>4, <1>5

(***************************************************************************)
(* The invariant.                                                          *)
(***************************************************************************)
LEMMA PlayerStarts == PlayerInit => PlayerInv
<1> SUFFICES ASSUME PlayerInit PROVE PlayerInv
  OBVIOUS
<1> DEFINE none == [s \in Stream |-> NoTrack]
           empty == [s \in Stream |-> <<>>]
           p == [tracks |-> none, sources |-> empty, plan |-> StartAt,
                 loaded |-> NoTake, playing |-> FALSE, startPos |-> 0, elapsed |-> 0]
<1>1. /\ player = p /\ archived = Stream /\ load = NoLoad /\ ahead = NoLoad /\ run = NoRun
      /\ job = NoJob /\ next = NoJob /\ settled = {} /\ asked = 0
      /\ stored = [s \in Stream |-> 0] /\ picked = NoTake
  BY DEF PlayerInit
<1>2. none \in [Stream -> Track] /\ \A s \in Stream : none[s] = NoTrack
  BY NoTrackIsOff
<1>3. empty \in [Stream -> Seq(Source)] /\ \A s \in Stream : empty[s] = <<>>
  OBVIOUS
<1>4. StartAt \in [Stream -> Nat]
  BY PlayerAssumption
<1> HIDE DEF none, empty
<1>5. /\ p.tracks = none /\ p.sources = empty /\ p.plan = StartAt /\ p.loaded = NoTake
      /\ p.playing = FALSE /\ p \in PlayerSet
  BY <1>2, <1>3, <1>4 DEF PlayerSet
<1> HIDE DEF p
<1>6. Quiet(p)
  BY <1>3, <1>5 DEF Quiet
<1>7. PlayerGood
  BY <1>1, <1>5, <1>6, QuietIsFresh DEF PlayerGood, Good
<1>8. PlayerBooks
  BY <1>1, <1>5, NothingOK, PlayerAssumption DEF PlayerBooks
<1>9. Mounts
  BY <1>1, <1>2, <1>5, NothingOK, NoTrackIsOff DEF Mounts, Fine
<1>10. HeardNow
  BY <1>1, <1>3, <1>5 DEF HeardNow, AsPlanned
<1>11. Forced
  <2>1. loadedTracks(p) = {} /\ run.take = NoTake
    BY <1>1, <1>5, LoadedIs, NothingOK
  <2> QED
    BY <1>1, <2>1 DEF Forced, Measures, InForce
<1> QED
  BY <1>7, <1>8, <1>9, <1>10, <1>11 DEF PlayerInv

LEMMA PlayerSteps == PlayerInv /\ [PlayerNext]_playerVars => PlayerInv'
<1> SUFFICES ASSUME PlayerInv, [PlayerNext]_playerVars PROVE PlayerInv'
  OBVIOUS
<1>1. CASE UNCHANGED playerVars
  <2>1. UNCHANGED <<player, archived, load, ahead, run, job, next, settled, asked, stored, picked,
                    twice, adrift, missed, revived, owed>>
    BY <1>1 DEF playerVars, marks
  <2>2. PlayerGood'
    BY <2>1 DEF PlayerInv, PlayerGood, Good, Sounds, Quiet
  <2>3. PlayerBooks'
    BY <2>1 DEF PlayerInv, PlayerBooks
  <2>4. Mounts'
    BY <2>1 DEF PlayerInv, Mounts, Fine
  <2>5. HeardNow'
    BY <2>1 DEF PlayerInv, HeardNow, AsPlanned, PlannedFrom
  <2>6. Forced'
    BY <2>1 DEF PlayerInv, Forced, Measures, Unloaded, InForce, loadedTracks, takeTracks
  <2> QED
    BY <2>2, <2>3, <2>4, <2>5, <2>6 DEF PlayerInv
<1>2. CASE LoadDecoded
  BY <1>2, LoadDecodedKeeps
<1>3. CASE JobLoaded
  BY <1>3, JobLoadedKeeps
<1>4. CASE \E v \in Verdict \cup {Declined} : AlignPass(v) \/ ContentPass(v)
  BY <1>4, PassesKeep
<1>5. CASE AlignFinish
  BY <1>5, AlignFinishKeeps
<1>6. CASE \E t \in Take : PickTake(t)
  BY <1>6, RequestKeeps DEF PickTake
<1>7. CASE AutoAlign
  <2>1. picked \in Take /\ RequestLoad(picked, TRUE)
    BY <1>7 DEF AutoAlign, PlayerInv, PlayerBooks
  <2> DEFINE t == picked
  <2>2. t \in Take /\ RequestLoad(t, TRUE)
    BY <2>1
  <2> QED
    BY <2>2, RequestKeeps
<1>8. CASE LoadFails \/ AlignThrows
  BY <1>8, LoadFailsKeeps, AlignThrowsKeeps
<1>9. CASE AheadDecoded \/ AheadFails
  BY <1>9, AheadDecodedKeeps, AheadFailsKeeps
<1>10. CASE Play \/ Pause \/ Tick
  BY <1>10, PlayKeeps, PauseKeeps, TickKeeps
<1>11. CASE \E to \in {StartAt[s] : s \in Stream} : Seek(to)
  <2>1. PICK to \in {StartAt[s] : s \in Stream} : Seek(to)
    BY <1>11
  <2>2. to \in Nat
    BY PlayerAssumption
  <2> QED
    BY <2>1, <2>2, SeekKeeps
<1>12. CASE \E s \in Stream : \E at \in OtherStart[s] : MoveClip(s, at)
  BY <1>12, MoveKeeps
<1>13. CASE \E s \in Stream : DeleteStream(s) \/ DropDeleted(s)
  BY <1>13, DeleteKeeps, DropKeeps
<1>14. CASE \E t \in Take : \E v \in Verdict : RemoteVerdict(t, v)
  BY <1>14, RemoteKeeps
<1> QED
  BY <1>1, <1>2, <1>3, <1>4, <1>5, <1>6, <1>7, <1>8, <1>9, <1>10, <1>11, <1>12, <1>13, <1>14
     DEF PlayerNext, QueueStep

\* A source before the end of the timeline is one before the position's cap.
LEMMA SoundsToTheEnd ==
    ASSUME NEW p \in PlayerSet, Sounds(p), p.playing, NEW s \in Stream, p.tracks[s].on,
           p.tracks[s].at + LenOf[s] > position(p)
    PROVE  p.sources[s] # <<>>
<1> DEFINE d == duration(p)
           e == p.startPos + p.elapsed
           at == p.tracks[s].at + LenOf[s]
           T == {d, e}
<1>1. d \in Nat /\ at <= d
  BY PositionTyped
<1>2. e \in Nat /\ at \in Nat
  BY PlayerAssumption DEF PlayerSet, Track
<1>3. position(p) = Least(T)
  BY DEF position
<1>4. Least(T) \in T
  <2>1. T \in SUBSET Nat /\ T # {}
    BY <1>1, <1>2
  <2> HIDE DEF T
  <2> QED
    BY <2>1, LeastIs
<1>5. at > Least(T)
  BY <1>3
<1>6. at > e
  <2> HIDE DEF d, e, at
  <2> QED
    BY <1>1, <1>2, <1>4, <1>5
<1> QED
  BY <1>6 DEF Sounds

LEMMA PlayerShows == PlayerInv => PlaysAsShown
<1> SUFFICES ASSUME PlayerInv PROVE PlaysAsShown
  OBVIOUS
<1>1. /\ player \in PlayerSet /\ Sounds(player) /\ PlayerBooks /\ Mounts /\ Forced
      /\ AsPlanned(player, run, twice, adrift)
  BY DEF PlayerInv, PlayerGood, Good, HeardNow
<1>2. PlayerTypeOK
  <2>1. player.loaded \in Take \cup {NoTake} /\ player.playing \in BOOLEAN
        /\ DOMAIN player.tracks = Stream /\ DOMAIN player.sources = Stream
    BY <1>1 DEF PlayerSet
  <2>2. job.phase \in {"idle", "load", "loaded", "align"}
    BY <1>1 DEF PlayerBooks, JobOK
  <2> QED
    BY <1>1, <2>1, <2>2 DEF PlayerTypeOK, PlayerBooks
<1>3. SoundsOnce
  <2> SUFFICES ASSUME NEW s \in Stream, s \notin twice PROVE Len(player.sources[s]) <= 1
    BY DEF SoundsOnce
  <2>1. player.sources[s] = <<>> \/ \E x \in Source : player.sources[s] = <<x>>
    BY <1>1 DEF AsPlanned
  <2>2. \A x : Len(<<x>>) = 1
    OBVIOUS
  <2>3. Len(<<>>) = 0
    OBVIOUS
  <2> DEFINE n == Len(player.sources[s])
  <2>4. n = 0 \/ n = 1
    BY <2>1, <2>2, <2>3, Zenon
  <2> HIDE DEF n
  <2>5. n <= 1
    BY <2>4
  <2> QED
    BY <2>5 DEF n
<1>4. HeardIsDrawn
  <2> SUFFICES ASSUME NEW s \in Stream, s \notin twice \cup adrift, TakeOf[s] # run.take,
                      NEW i \in DOMAIN player.sources[s]
               PROVE  player.tracks[s].on /\ player.sources[s][i] = SourceOf(player.tracks[s])
    BY DEF HeardIsDrawn
  <2> DEFINE x == SourceOf(player.tracks[s])
  <2>1. PlannedFrom(player, run, s) = x
    BY DEF PlannedFrom, SourceOf
  <2>2. player.sources[s] = <<>> \/ player.sources[s] = <<x>>
    BY <1>1, <2>1 DEF AsPlanned
  <2>3. player.sources[s] # <<>> => player.tracks[s].on
    BY <1>1 DEF Sounds
  <2> HIDE DEF x
  <2>4. DOMAIN <<>> = {} /\ \A k \in DOMAIN <<x>> : <<x>>[k] = x
    OBVIOUS
  <2> QED
    BY <2>2, <2>3, <2>4 DEF x
<1>5. NothingSilent
  BY <1>1, SoundsToTheEnd DEF NothingSilent
<1>6. MountedAtPlan /\ DeletedIsGone
  BY <1>1 DEF Mounts, Fine, MountedAtPlan, DeletedIsGone
<1>7. VerdictInForce
  <2>1. job.id = 0 => Unloaded
    BY <1>1 DEF PlayerBooks, Unloaded
  <2> QED
    BY <1>1, <2>1 DEF Forced, InForce, VerdictInForce
<1> QED
  BY <1>2, <1>3, <1>4, <1>5, <1>6, <1>7 DEF PlaysAsShown

\* What is heard is what the desk shows (player.ts, take-load.ts, load-queue.ts): every
\* mounted clip sounds and, but for the streams that the history variables mark, once,
\* where the arrangement has it and with the verdict in force; for any takes, streams,
\* lengths and verdicts, any number of requests, edits and seeks, and any order of them
\* with decodes, runs, deletions and failures.
THEOREM DeskPlaysAsShown == PlayerSpec => []PlaysAsShown
<1>1. PlayerInit => PlayerInv
  BY PlayerStarts
<1>2. PlayerInv /\ [PlayerNext]_playerVars => PlayerInv'
  BY PlayerSteps
<1>3. PlayerInv => PlaysAsShown
  BY PlayerShows
<1> QED
  BY <1>1, <1>2, <1>3, PTL DEF PlayerSpec
=============================================================================
