---------------------------- MODULE AlignDomain ----------------------------
(***************************************************************************)
(* How one take's streams get their alignment lags (player-align.ts,       *)
(* SessionPlayer.align in player.ts, the delta math of timeline-math.ts).  *)
(*                                                                         *)
(* A chirp lag locates one of the calibration sweeps, so it is right up to *)
(* a multiple of the sweep interval; a content lag is an offset from one   *)
(* other stream.  All of a take's lags must agree in one domain, whichever *)
(* streams a run measures again and whichever way each one was placed.     *)
(* The correlators are external and deterministic: the chirp one always    *)
(* finds the same sweep of the same audio, or none; the content one finds  *)
(* the true offset of a pair of streams, or nothing.                       *)
(***************************************************************************)
EXTENDS Integers, FiniteSets

CONSTANTS
    AlignStream,
    TrueLag,        \* TrueLag[s]: where the first sweep sits in s
    BufferLength,   \* BufferLength[s]: distinct, to name the longest
    Interval,       \* samples between two sweeps
    Sweep,          \* the sweeps a correlator may lock on
    NoSweep,        \* it finds none
    SweepChoice,    \* the assignments of sweeps to streams explored
    MatchChoice     \* the sets of (reference, stream) pairs that match, explored

ASSUME LagsWithinHalfInterval ==
    /\ Interval \in Nat \ {0} /\ TrueLag \in [AlignStream -> Nat]
    /\ \A a, b \in AlignStream : 2 * (TrueLag[a] - TrueLag[b]) < Interval

\* A correlator locks on a numbered sweep or on none.
ASSUME AlignAssumption ==
    /\ IsFiniteSet(AlignStream) /\ BufferLength \in [AlignStream -> Nat] /\ Sweep \subseteq Int
    /\ SweepChoice \subseteq [AlignStream -> Sweep \cup {NoSweep}]

VARIABLES
    alignment,      \* alignment[s]: lag, method and whether it is applied
    drift,          \* drift[s]: the reference and head trims it was fitted to
    driftCache,
    loadedStreams,  \* the loaded take's streams
    sweepOf,        \* the sweep the correlator finds in each stream
    matches,        \* the pairs whose content the correlator can match
    lastWhole       \* the last run measured every loaded stream

alignVars == <<alignment, drift, driftCache, loadedStreams, sweepOf, matches,
               lastWhole>>

NotMeasured == [lag |-> 0, applied |-> FALSE, method |-> "none"]
NoDrift == [ref |-> "none", refDelta |-> 0, delta |-> 0, isReference |-> FALSE]

AlignInit ==
    /\ alignment = [s \in AlignStream |-> NotMeasured]
    /\ drift = [s \in AlignStream |-> NoDrift]
    /\ driftCache = [s \in AlignStream |-> NoDrift]
    /\ loadedStreams = AlignStream
    /\ sweepOf \in SweepChoice
    /\ matches \in MatchChoice
    /\ lastWhole = TRUE

(***************************************************************************)
(* The delta math.                                                         *)
(***************************************************************************)
LowestOf(S) == CHOOSE x \in S : \A y \in S : x <= y

\* The nearest repeat; JavaScript rounds a half up.
wrapLag(raw) == raw - ((2 * raw + Interval) \div (2 * Interval)) * Interval

Applied(al) == {s \in loadedStreams : al[s].applied}
ByChirp(al) == {s \in Applied(al) : al[s].method = "chirp"}

anchored(al) == IF ByChirp(al) # {} THEN ByChirp(al) ELSE Applied(al)

lagBase(al) == LowestOf({al[s].lag : s \in anchored(al)})

normalizeAlignDeltas(al) ==
    LET raw(s) == al[s].lag - lagBase(al)
        normal(s) == IF al[s].method = "content" THEN raw(s) ELSE wrapLag(raw(s))
        low == LowestOf({normal(s) : s \in Applied(al)})
    IN  IF Cardinality(Applied(al)) < 2 THEN [s \in {} |-> 0]
        ELSE [s \in Applied(al) |-> normal(s) - low]

alignDeltas == normalizeAlignDeltas(alignment)

alignShifts(deltas) ==
    LET trims == {0} \cup {deltas[s] : s \in DOMAIN deltas}
        anchor == CHOOSE a \in trims : \A d \in trims : a >= d
    IN  [s \in DOMAIN deltas |-> anchor - deltas[s]]

(***************************************************************************)
(* The three passes of a run.  `scope` is the set of streams it measures.  *)
(***************************************************************************)
chirpAlignPass(scope) ==
    [s \in AlignStream |->
        IF s \notin scope THEN alignment[s]
        ELSE IF sweepOf[s] = NoSweep
        THEN [lag |-> 0, applied |-> FALSE, method |-> "chirp"]
        ELSE [lag |-> TrueLag[s] + sweepOf[s] * Interval, applied |-> TRUE,
              method |-> "chirp"]]

demoteChirpHitsIntoContentDomain(al, scope) ==
    LET kept == Applied(al) \ scope
    IN  IF kept = {} \/ kept \cap ByChirp(al) # {} THEN al
        ELSE [s \in AlignStream |->
                IF s \in scope /\ al[s].method = "chirp"
                THEN [al[s] EXCEPT !.applied = FALSE] ELSE al[s]]

longest(S) == CHOOSE s \in S : \A x \in S : BufferLength[s] >= BufferLength[x]

\* The stream the others are measured against: the kept drift reference, else
\* the longest chirp anchor, else the longest anchor, else the longest of all.
contentReference(al, scope) ==
    LET keptReference == {s \in Applied(al) \ scope : drift[s].isReference}
        pending == scope \ Applied(al)
    IN  IF scope # loadedStreams /\ keptReference # {}
        THEN CHOOSE s \in keptReference : TRUE
        ELSE IF Applied(al) # {} THEN longest(anchored(al))
        ELSE longest(IF scope = loadedStreams THEN loadedStreams ELSE pending)

\* Mutant: a chirp reference lends its lag as it is.
refVirtualLagRaw(al, r) == al[r].lag

\* A chirp reference wraps as normalizeAlignDeltas will wrap it.
refVirtualLag(al, r) ==
    IF ~al[r].applied THEN 0
    ELSE IF al[r].method = "content" THEN al[r].lag
    ELSE lagBase(al) + wrapLag(al[r].lag - lagBase(al))

contentAlignPass(al, scope) ==
    LET r == contentReference(al, scope)
        pending == scope \ Applied(al)
        found == {s \in pending \ {r} : <<r, s>> \in matches}
    IN  IF Cardinality(loadedStreams) < 2 \/ pending = {} THEN al
        ELSE [s \in AlignStream |->
                IF s \in found
                THEN [lag |-> refVirtualLag(al, r) + TrueLag[s] - TrueLag[r],
                      applied |-> TRUE, method |-> "content"]
                ELSE IF s = r /\ found # {} /\ ~al[r].applied
                THEN [lag |-> 0, applied |-> TRUE, method |-> "content"]
                ELSE al[s]]

\* Mutant: a fit is reused for the same reference, whatever the trims are now.
cacheHitByReference(s, r, deltas) == driftCache[s].ref = r

\* A fit is reused only for the pair of trims it was measured with.
cacheHit(s, r, deltas) ==
    /\ driftCache[s].ref = r
    /\ driftCache[s].refDelta = deltas[r] /\ driftCache[s].delta = deltas[s]

\* The reference is the first track whose head is not trimmed.
driftReference(deltas) ==
    CHOOSE s \in DOMAIN deltas : \A x \in DOMAIN deltas : deltas[s] <= deltas[x]

DriftFit(s, r, deltas) ==
    [ref |-> r, refDelta |-> deltas[r], delta |-> deltas[s], isReference |-> FALSE]

estimateDriftPass(deltas) ==
    LET r == driftReference(deltas)
        fit == [s \in AlignStream |->
                  IF cacheHit(s, r, deltas) THEN driftCache[s] ELSE DriftFit(s, r, deltas)]
        fitted == DOMAIN deltas \ {r}
    IN  IF DOMAIN deltas = {} THEN UNCHANGED <<drift, driftCache>>
        ELSE /\ drift' = [s \in AlignStream |->
                            IF s \in fitted THEN fit[s]
                            ELSE IF s = r THEN [NoDrift EXCEPT !.isReference = TRUE]
                            ELSE drift[s]]
             /\ driftCache' = [s \in AlignStream |->
                                IF s \in fitted THEN fit[s] ELSE driftCache[s]]

(***************************************************************************)
(* SessionPlayer.align and what else changes the loaded tracks.            *)
(***************************************************************************)
\* A scope that covers the take, or that has nothing measured outside it,
\* is the whole take.
effectiveScope(scope) ==
    IF \E s \in loadedStreams \ scope : alignment[s] # NotMeasured
    THEN scope ELSE loadedStreams

AlignRun(asked) ==
    /\ asked # {} /\ asked \subseteq loadedStreams
    /\ \E scope \in {effectiveScope(asked)} :
       \E hits \in {demoteChirpHitsIntoContentDomain(chirpAlignPass(scope), scope)} :
       \E al \in {contentAlignPass(hits, scope)} :
       \E deltas \in {normalizeAlignDeltas(al)} :
          /\ alignment' = al /\ estimateDriftPass(deltas)
          /\ lastWhole' = (scope = loadedStreams)
    /\ UNCHANGED <<loadedStreams, sweepOf, matches>>

\* removeTracks: a deleted stream takes its verdict with it.
RemoveAligned(s) ==
    /\ s \in loadedStreams
    /\ loadedStreams' = loadedStreams \ {s}
    /\ alignment' = [alignment EXCEPT ![s] = NotMeasured]
    /\ drift' = [drift EXCEPT ![s] = NoDrift]
    /\ UNCHANGED <<driftCache, sweepOf, matches, lastWhole>>

AlignNext ==
    \/ \E asked \in SUBSET AlignStream : AlignRun(asked)
    \/ \E s \in AlignStream : RemoveAligned(s)

AlignSpec == AlignInit /\ [][AlignNext]_alignVars

(***************************************************************************)
(* Properties.                                                             *)
(***************************************************************************)
\* Deltas never trim before the head, and one stream is not trimmed at all.
AlignTypeOK ==
    /\ \A s \in AlignStream : alignment[s].method \in {"none", "chirp", "content"}
    /\ \A d \in {alignDeltas} :
          /\ \A s \in DOMAIN d : d[s] \in Nat
          /\ d # [s \in {} |-> 0] => \E s \in DOMAIN d : d[s] = 0

\* Two applied streams are trimmed apart by exactly their true offset.
TrueOffsets ==
    \A d \in {alignDeltas} :
        \A a, b \in DOMAIN d : d[a] - d[b] = TrueLag[a] - TrueLag[b]

Complete == loadedStreams = AlignStream

\* align's comment: a scoped run's verdicts are "chained into ONE lag domain
\* so the residual between any two applied streams stays" zero, after any
\* sequence of whole and scoped runs.
OneLagDomain == Complete => TrueOffsets

OneSweep ==
    \A a, b \in AlignStream :
        NoSweep \in {sweepOf[a], sweepOf[b]} \/ sweepOf[a] = sweepOf[b]

\* The part of it that holds.  A whole-take run aligns whatever sweeps the
\* streams locked on and however each was placed; and if they all locked on
\* the same one, scoped runs and deletions in any order keep it so.
ResidualZero == OneSweep \/ (Complete /\ lastWhole) => TrueOffsets

\* Every applied stream's drift fit belongs to the one reference and to the
\* head trims in force, cached or not: one applied stream is the reference,
\* and it is the one nothing is trimmed from.
DriftInForce ==
    Complete => \A d \in {alignDeltas} :
        d # [s \in {} |-> 0] =>
            \E r \in DOMAIN d :
                /\ drift[r].isReference /\ d[r] = 0
                /\ \A s \in DOMAIN d \ {r} : drift[s] = DriftFit(s, r, d)

\* The applied streams share one time base, in offset and in drift, whichever runs
\* placed them and in which order (player-align.ts).
OneTimeBase == AlignTypeOK /\ ResidualZero /\ DriftInForce
=============================================================================
