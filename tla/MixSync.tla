------------------------------ MODULE MixSync ------------------------------
(***************************************************************************)
(* The mixer of several desk pages and the shared document: use-collab.ts  *)
(* (bindMixToCollab), collab-doc.ts (mix), the strip setters and           *)
(* applyGains of player.ts, eq.ts.  A page has one player for its          *)
(* lifetime, whatever session it shows; a strip the player has not made    *)
(* yet is a default one.  One mounted track per page shows what is heard.  *)
(*                                                                         *)
(* The document (external, Yjs) keeps one register per lane; of two        *)
(* concurrent writes the one with the higher rank wins on every replica.   *)
(***************************************************************************)
EXTENDS Naturals, FiniteSets

CONSTANTS MixPage, MixSession, FirstSession, Lane, NoLane, Persisted,
          MaxMixEdits, MaxMixMoves, MaxMixRank

\* Levels are low or high; the shared document comes with ranked registers.
Strip == [gain : {0, 1}, muted : BOOLEAN, soloed : BOOLEAN, eq : {0, 1}]
Mix == [Lane -> [val : Strip, rank : Nat]]

ASSUME MixAssumption ==
    /\ FirstSession \subseteq [MixPage -> MixSession]
    /\ Persisted \in [MixSession -> Mix]
    /\ NoLane \notin Lane
    /\ MaxMixRank \in Nat

VARIABLES
    mixAt,      \* page -> the session it shows
    mixDoc,     \* page -> its replica of that session's mix
    mixServer,  \* session -> the server's replica
    strips,     \* page -> lane -> the player's strip
    trackLane, node,    \* page -> the track's lane; its gain and EQ nodes
    mixEdits, mixMoves, mixWrites,
    touched     \* lanes an operator set, by session

mixVars == <<mixAt, mixDoc, mixServer, strips, trackLane, node, mixEdits, mixMoves, mixWrites, touched>>

defaultMixStripState == [gain |-> 0, muted |-> FALSE, soloed |-> FALSE, eq |-> 0]
NoMix == [k \in Lane |-> [val |-> defaultMixStripState, rank |-> 0]]

\* dbToLinear never gives 0, a silenced lane does: gain 1 or 2, and 0.
Heard(mix, k) ==
    IF mix[k].muted \/ (~mix[k].soloed /\ \E l \in Lane : mix[l].soloed) THEN 0 ELSE mix[k].gain + 1
applyGains(n, mix, k) == IF k = NoLane THEN n ELSE [n EXCEPT !.gain = Heard(mix, k)]
updateEqChain(n, mix, k) == IF k = NoLane THEN n ELSE [n EXCEPT !.eq = mix[k].eq]

(***************************************************************************)
(* The document.                                                           *)
(***************************************************************************)
\* Mutant: an absent strip is not compared with the default one, it is written.
writeMixIfChangedAlways(doc, k, strip, r) ==
    IF doc[k].rank # 0 /\ doc[k].val = strip THEN doc
    ELSE [doc EXCEPT ![k] = [val |-> strip, rank |-> r]]

\* An absent strip counts as the default one.
writeMixIfChanged(doc, k, strip, r) ==
    IF doc[k].val = strip THEN doc ELSE [doc EXCEPT ![k] = [val |-> strip, rank |-> r]]

\* player -> doc: the listener goes through the strips of the snapshot.
notify(doc, mix, r) == [k \in Lane |-> writeMixIfChanged(doc, k, mix[k], r)[k]]

MixRanks == (UNION {{mixDoc[p][k].rank : k \in Lane} : p \in MixPage})
            \cup (UNION {{mixServer[s][k].rank : k \in Lane} : s \in MixSession})
\* The ranks a page's next writes may take: above what it has seen.
NextRank(doc) == {r \in 1..MaxMixRank : r \notin MixRanks /\ \A k \in Lane : doc[k].rank < r}

(***************************************************************************)
(* doc -> player.                                                          *)
(***************************************************************************)
\* Mutant: the setters' notifications are not muted while a strip is applied.
applyStripLoud(mix, doc, k, r) ==
    [mix |-> [mix EXCEPT ![k] = doc[k].val],
     doc |-> IF mix[k] = doc[k].val THEN doc ELSE [doc EXCEPT ![k].rank = r]]

\* The setters that differ run; applying mutes the listener meanwhile.
applyStrip(mix, doc, k, r) == [mix |-> [mix EXCEPT ![k] = doc[k].val], doc |-> doc]

\* The strips whose register another client changed.
observer(mix, doc, changed, r) ==
    [mix |-> [k \in Lane |-> IF k \in changed THEN applyStrip(mix, doc, k, r).mix[k] ELSE mix[k]],
     doc |-> [k \in Lane |-> IF k \in changed THEN applyStrip(mix, doc, k, r).doc[k] ELSE doc[k]]]

(***************************************************************************)
(* The operator and the player.                                            *)
(***************************************************************************)
MixInit ==
    /\ mixAt \in FirstSession
    /\ mixDoc = [p \in MixPage |-> NoMix]
    /\ mixServer = Persisted
    /\ strips = [p \in MixPage |-> [k \in Lane |-> defaultMixStripState]]
    /\ trackLane = [p \in MixPage |-> NoLane] /\ node = [p \in MixPage |-> [gain |-> 0, eq |-> 0]]
    /\ mixEdits = 0 /\ mixMoves = 0 /\ mixWrites = 0
    /\ touched = {sk \in MixSession \X Lane : Persisted[sk[1]][sk[2]].rank # 0}

Changed(doc, next) == {k \in Lane : doc[k].rank # next[k].rank}

\* A setter leaves the player with mix and the node with n, and notifies.
Set(p, k, mix, n) ==
    /\ mixEdits < MaxMixEdits /\ mixEdits' = mixEdits + 1
    /\ touched' = touched \cup {<<mixAt[p], k>>}
    /\ strips' = [strips EXCEPT ![p] = mix] /\ node' = [node EXCEPT ![p] = n]
    /\ \E r \in NextRank(mixDoc[p]) : mixDoc' = [mixDoc EXCEPT ![p] = notify(@, mix, r)]
    /\ mixWrites' = mixWrites + Cardinality(Changed(mixDoc[p], mixDoc'[p]))
    /\ UNCHANGED <<mixAt, mixServer, trackLane, mixMoves>>

setChannelDb(p, k) ==
    \E mix \in {[strips[p] EXCEPT ![k].gain = 1 - @]} :
        Set(p, k, mix, applyGains(node[p], mix, trackLane[p]))

toggleChannelMute(p, k) ==
    \E mix \in {[strips[p] EXCEPT ![k].muted = ~@]} :
        Set(p, k, mix, applyGains(node[p], mix, trackLane[p]))

\* Solo is the mixer's: it silences every other lane.
toggleChannelSolo(p, k) ==
    \E mix \in {[strips[p] EXCEPT ![k].soloed = ~@]} :
        Set(p, k, mix, applyGains(node[p], mix, trackLane[p]))

setChannelEq(p, k) ==
    \E mix \in {[strips[p] EXCEPT ![k].eq = 1 - @]} :
        Set(p, k, mix, updateEqChain(node[p], mix, trackLane[p]))

\* A track mounts on a lane, or moves there when attribution lands.
remapChannels(p, k) ==
    /\ trackLane[p] # k
    /\ trackLane' = [trackLane EXCEPT ![p] = k]
    /\ node' = [node EXCEPT ![p] = updateEqChain(applyGains(@, strips[p], k), strips[p], k)]
    /\ UNCHANGED <<mixAt, mixDoc, mixServer, strips, mixEdits, mixMoves, mixWrites, touched>>

(***************************************************************************)
(* The wire; a page that shows another session, or loads again.            *)
(***************************************************************************)
MergeMix(a, b) == [k \in Lane |-> IF a[k].rank < b[k].rank THEN b[k] ELSE a[k]]

SendMix(p) ==
    /\ mixServer[mixAt[p]] # MergeMix(mixServer[mixAt[p]], mixDoc[p])
    /\ mixServer' = [mixServer EXCEPT ![mixAt[p]] = MergeMix(@, mixDoc[p])]
    /\ UNCHANGED <<mixAt, mixDoc, strips, trackLane, node, mixEdits, mixMoves, mixWrites, touched>>

ReceiveMix(p) ==
    LET merged == MergeMix(mixDoc[p], mixServer[mixAt[p]])
    IN  /\ merged # mixDoc[p]
        /\ \E r \in NextRank(merged) \cup {0} :
           \E seen \in {observer(strips[p], merged, Changed(mixDoc[p], merged), r)} :
              /\ r = 0 => seen.doc = merged
              /\ r # 0 => seen.doc # merged
              /\ strips' = [strips EXCEPT ![p] = seen.mix]
              /\ mixDoc' = [mixDoc EXCEPT ![p] = seen.doc]
              /\ node' = [node EXCEPT ![p] = updateEqChain(applyGains(@, seen.mix, trackLane[p]), seen.mix, trackLane[p])]
              /\ mixWrites' = mixWrites + Cardinality(Changed(merged, seen.doc))
        /\ UNCHANGED <<mixAt, mixServer, trackLane, mixEdits, mixMoves, touched>>

\* getDeskCollab for another session: a new document, bound to the same player.
\* There is nothing to apply yet; subscribing notifies at once.
bindMixToCollab(p, s) ==
    /\ s # mixAt[p] /\ mixMoves < MaxMixMoves /\ mixMoves' = mixMoves + 1
    /\ mixAt' = [mixAt EXCEPT ![p] = s]
    /\ \E r \in NextRank(NoMix) : mixDoc' = [mixDoc EXCEPT ![p] = notify(NoMix, strips[p], r)]
    /\ UNCHANGED <<mixServer, strips, trackLane, node, mixEdits, mixWrites, touched>>

\* The page is loaded again: a new player, a new document.
ReloadMix(p) ==
    /\ mixMoves < MaxMixMoves /\ mixMoves' = mixMoves + 1
    /\ mixDoc' = [mixDoc EXCEPT ![p] = NoMix]
    /\ strips' = [strips EXCEPT ![p] = [k \in Lane |-> defaultMixStripState]]
    /\ trackLane' = [trackLane EXCEPT ![p] = NoLane]
    /\ node' = [node EXCEPT ![p] = [gain |-> 0, eq |-> 0]]
    /\ UNCHANGED <<mixAt, mixServer, mixEdits, mixWrites, touched>>

MixNext ==
    \E p \in MixPage :
        \/ \E k \in Lane : \/ setChannelDb(p, k) \/ toggleChannelMute(p, k) \/ toggleChannelSolo(p, k)
                           \/ setChannelEq(p, k) \/ remapChannels(p, k)
        \/ SendMix(p) \/ ReceiveMix(p) \/ ReloadMix(p)
        \/ \E s \in MixSession : bindMixToCollab(p, s)

MixSpec == MixInit /\ [][MixNext]_mixVars

(***************************************************************************)
(* Properties.                                                             *)
(***************************************************************************)
\* The document is the state, the player the audio: after every step, local,
\* remote, on a late bind or a session switch, each strip is what its register says.
PlayerFollowsDoc ==
    \A p \in MixPage : \A k \in Lane : strips[p][k] = mixDoc[p][k].val

\* What is heard is what the strips say, for a track that mounted or moved after
\* the strips were set and for solos of lanes that have no track.
NodesFollowStrips ==
    \A p \in MixPage : trackLane[p] # NoLane =>
        node[p] = [gain |-> Heard(strips[p], trackLane[p]), eq |-> strips[p][trackLane[p]].eq]

\* One register write per operator's change: what the wire brings is never
\* written back, on any of the desks.
NoMixEcho == mixWrites <= mixEdits

\* A lane nobody set in a session is not in that session's document.
UntouchedStaysOut ==
    \A s \in MixSession : \A k \in Lane : mixServer[s][k].rank # 0 => <<s, k>> \in touched

\* Document, player and audio nodes agree on the mix after every step, and agreeing
\* costs no writes (use-collab.ts).
MixAgrees == PlayerFollowsDoc /\ NodesFollowStrips /\ NoMixEcho
=============================================================================
