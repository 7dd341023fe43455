---------------------------- MODULE Arrangement ----------------------------
(***************************************************************************)
(* The clips of one stream on the session timeline: the region list and    *)
(* the `arrange` override of the shared document (collab-doc.ts), the cuts,*)
(* trims, drags and deletions of the desk (regions.ts,                     *)
(* use-timeline-editing.ts, use-auto-align.ts), and what the schedule plays*)
(* of them (timeline-math.ts).                                             *)
(*                                                                         *)
(* Time is counted in ticks of MIN_REGION_SEC on both axes; the drift      *)
(* ratio is 1.  A stored list is ordered by its source offsets, so it is   *)
(* modelled as the set of its regions.  A drag or a trim writes lists made *)
(* from the one it found when the pointer went down, whatever another desk *)
(* has written since.                                                      *)
(***************************************************************************)
EXTENDS Integers, FiniteSets

CONSTANTS
    SourceLen,      \* the stream's length
    HeadTrim,       \* the alignment head trim
    Slot,           \* where the take is laid out
    Shift,          \* by how much a gesture may move an edge or a clip
    MaxStart,       \* bound: the furthest start
    MaxRegions,     \* bound: pieces of one stream
    MaxArrangeEdits

\* A stream has a sample; a take is laid out on the timeline, not before it.
ASSUME ArrangeAssumption ==
    /\ SourceLen \in Nat \ {0} /\ HeadTrim \in Nat /\ Slot \in Nat /\ Shift \subseteq Int
    /\ MaxStart \in Nat /\ MaxRegions \in Nat /\ MaxArrangeEdits \in Nat

VARIABLES
    doc,        \* split, regions, arrange: the document
    gesture,    \* the gesture in progress and the list it started from
    undoStack,  \* this desk's last step: the document before and after it
    arrangeEdits

arrangeVars == <<doc, gesture, undoStack, arrangeEdits>>

Unset == -1
ClipIds == 0..(MaxRegions + 1)

seedRegion(start) == [id |-> 0, start |-> start, off |-> 0, dur |-> SourceLen]

clipStartSec(d) == IF d.arrange = Unset THEN Slot ELSE d.arrange

\* A never-split stream has one implicit region, wherever it was dragged to.
streamRegionsOf(d) == IF d.split THEN d.regions ELSE {seedRegion(clipStartSec(d))}

NoGesture == [kind |-> "none", id |-> 0, edge |-> "none", base |-> {}, split |-> FALSE]
NoStep == [before |-> {}, after |-> {}]

ArrangeInit ==
    /\ doc = [split |-> FALSE, regions |-> {}, arrange |-> Unset]
    /\ gesture = NoGesture /\ undoStack = NoStep /\ arrangeEdits = 0

(***************************************************************************)
(* What plays.  Sample b of a region plays at                              *)
(* (start - off) + (b - HeadTrim); nothing before the head trim plays.     *)
(***************************************************************************)
UpTo(a, b) == IF a < b THEN a ELSE b
AtLeast(a, b) == IF a > b THEN a ELSE b

regionWindow(r) == [lo |-> AtLeast(r.off, HeadTrim), hi |-> UpTo(r.off + r.dur, SourceLen)]

Sounds(r) ==
    {<<(r.start - r.off) + (b - HeadTrim), b>> :
        b \in {x \in 0..(SourceLen - 1) : x >= regionWindow(r).lo /\ x < regionWindow(r).hi}}

Played(regions) == UNION {Sounds(r) : r \in regions}

NoPlan == [when |-> 0, offset |-> 0, play |-> 0]

planRegionSource(r, from) ==
    LET w == regionWindow(r)
        delay == r.start - r.off
        first == delay + (w.lo - HeadTrim)
        end == delay + (w.hi - HeadTrim)
        offset == HeadTrim + (from - delay)
    IN  IF w.hi <= w.lo \/ from >= end THEN NoPlan
        ELSE IF from >= first THEN [when |-> 0, offset |-> offset, play |-> w.hi - offset]
        ELSE [when |-> first - from, offset |-> w.lo, play |-> w.hi - w.lo]

\* planSource, the rule of a stream that was never split.
planSource(start, from) ==
    LET rel == from - start
    IN  IF rel < 0 THEN [when |-> -rel, offset |-> HeadTrim, play |-> SourceLen - HeadTrim]
        ELSE IF HeadTrim + rel >= SourceLen THEN NoPlan
        ELSE [when |-> 0, offset |-> HeadTrim + rel, play |-> SourceLen - HeadTrim - rel]

Sounded(plan, from) == {<<from + plan.when + i, plan.offset + i>> : i \in 0..(plan.play - 1)}

(***************************************************************************)
(* The list operations.                                                    *)
(***************************************************************************)
regionsValid(list) ==
    /\ \A r \in list : r.start >= 0 /\ r.dur >= 1 /\ r.off >= 0 /\ r.off + r.dur <= SourceLen
    /\ \A a, b \in list : a # b => a.off + a.dur <= b.off \/ b.off + b.dur <= a.off

FreshId(list) == CHOOSE i \in ClipIds : i \notin {r.id : r \in list}

\* Mutant: the right piece starts where the whole clip did.
splitRegionStacked(list, r, at) ==
    (list \ {r}) \cup
        {[r EXCEPT !.dur = at - r.off],
         [id |-> FreshId(list), start |-> r.start, off |-> at, dur |-> r.off + r.dur - at]}

\* Both pieces at least MIN_REGION_SEC long, or no cut.
CanSplit(r, at) == at - r.off >= 1 /\ r.off + r.dur - at >= 1

splitRegion(list, r, at) ==
    (list \ {r}) \cup
        {[r EXCEPT !.dur = at - r.off],
         [id |-> FreshId(list), start |-> r.start + (at - r.off), off |-> at,
          dur |-> r.off + r.dur - at]}

HighestOf(S) == CHOOSE x \in S : \A y \in S : x >= y
LowestIn(S) == CHOOSE x \in S : \A y \in S : x <= y

\* How far an edge may go: no shorter than MIN_REGION_SEC, no further than the
\* neighbour, the source's end or the beginning of the timeline.
TrimReach(list, r, edge, delta) ==
    LET others == list \ {r}
        prevEnd == HighestOf({0} \cup {x.off + x.dur : x \in {y \in others : y.off + y.dur <= r.off}})
        nextStart == LowestIn({SourceLen} \cup {x.off : x \in {y \in others : y.off >= r.off + r.dur}})
    IN  IF edge = "head"
        THEN UpTo(HighestOf({delta, prevEnd - r.off, -r.start}), r.dur - 1)
        ELSE UpTo(AtLeast(delta, 1 - r.dur), nextStart - (r.off + r.dur))

\* A head trim moves the start with the offset, so what stays holds its place.
trimRegion(list, r, edge, delta) ==
    LET d == TrimReach(list, r, edge, delta)
    IN  (list \ {r}) \cup
        {IF edge = "head"
         THEN [r EXCEPT !.start = @ + d, !.off = @ + d, !.dur = @ - d]
         ELSE [r EXCEPT !.dur = @ + d]}

(***************************************************************************)
(* The document.  A whole list is written under the stream's key.          *)
(***************************************************************************)
WithRegions(list) == [doc EXCEPT !.split = TRUE, !.regions = list]
InBounds(d) == /\ \A r \in d.regions : r.start <= MaxStart
               /\ Cardinality(d.regions) <= MaxRegions /\ d.arrange <= MaxStart

WriteDoc(d) ==
    /\ arrangeEdits < MaxArrangeEdits /\ d # doc /\ InBounds(d)
    /\ doc' = d /\ arrangeEdits' = arrangeEdits + 1

\* One undo step of this desk: sealed when the gesture starts, merged within.
OwnWrite(d, fresh) ==
    /\ WriteDoc(d)
    /\ undoStack' = [before |-> IF fresh THEN {doc} ELSE undoStack.before, after |-> {d}]

(***************************************************************************)
(* The edits.  `own` edits are this desk's, the others another desk's.     *)
(***************************************************************************)
\* cutStream: the first cut seeds the implicit region.
CutStream(r, at, own) ==
    /\ r \in streamRegionsOf(doc) /\ CanSplit(r, at) /\ (own => gesture = NoGesture)
    /\ LET list == splitRegion(streamRegionsOf(doc), r, at)
       IN  /\ regionsValid(list)
           /\ IF own THEN OwnWrite(WithRegions(list), TRUE)
              ELSE WriteDoc(WithRegions(list)) /\ UNCHANGED undoStack
    /\ UNCHANGED gesture

\* Pointer down with the trim or the select tool: the down-state is kept.
BeginGesture(kind, r, edge) ==
    /\ gesture = NoGesture /\ arrangeEdits < MaxArrangeEdits /\ r \in streamRegionsOf(doc)
    /\ gesture' = [kind |-> kind, id |-> r.id, edge |-> edge,
                   base |-> streamRegionsOf(doc), split |-> doc.split]
    /\ UNCHANGED <<doc, undoStack, arrangeEdits>>

\* The gesture already wrote: later moves merge into the same step.
Merging == undoStack.after = {doc}

TrimMove(delta) ==
    /\ gesture.kind = "trim"
    /\ LET r == CHOOSE x \in gesture.base : x.id = gesture.id
           list == trimRegion(gesture.base, r, gesture.edge, delta)
       IN  regionsValid(list) /\ OwnWrite(WithRegions(list), ~Merging)
    /\ UNCHANGED gesture

\* Mutant: a clip dragged past the beginning starts before it.
draggedUnclamped(list, id, dx) ==
    {IF r.id = id THEN [r EXCEPT !.start = r.start + dx] ELSE r : r \in list}

dragged(list, id, dx) ==
    {IF r.id = id THEN [r EXCEPT !.start = AtLeast(0, r.start + dx)] ELSE r : r \in list}

\* Moves derive from the down-state; a never-split clip writes `arrange`.
DragMove(dx) ==
    /\ gesture.kind = "drag"
    /\ LET moved == dragged(gesture.base, gesture.id, dx)
           d == IF gesture.split THEN WithRegions(moved)
                ELSE [doc EXCEPT !.arrange = (CHOOSE r \in moved : TRUE).start]
       IN  OwnWrite(d, ~Merging)
    /\ UNCHANGED gesture

EndGesture ==
    /\ gesture # NoGesture /\ gesture' = NoGesture
    /\ UNCHANGED <<doc, undoStack, arrangeEdits>>

\* Plain Delete: the clip leaves the arrangement, the last one an empty list.
DeleteClip(r, own) ==
    /\ r \in streamRegionsOf(doc) /\ (own => gesture = NoGesture)
    /\ LET d == WithRegions(IF doc.split THEN doc.regions \ {r} ELSE {})
       IN  IF own THEN OwnWrite(d, TRUE) ELSE WriteDoc(d) /\ UNCHANGED undoStack
    /\ UNCHANGED gesture

\* resetManualMoves: cuts stay, every piece returns to its source-true spot.
ResetMoves ==
    /\ gesture = NoGesture
    /\ OwnWrite(IF doc.split
                THEN [doc EXCEPT !.regions = {[r EXCEPT !.start = Slot + r.off] : r \in @}]
                ELSE [doc EXCEPT !.arrange = Unset], TRUE)
    /\ UNCHANGED gesture

\* Ctrl+Z: the ledger (external, Yjs) takes back this desk's last step unless
\* another desk has written since.
Undo ==
    /\ gesture = NoGesture /\ undoStack.after = {doc}
    /\ \E d \in undoStack.before : WriteDoc(d)
    /\ undoStack' = NoStep
    /\ UNCHANGED gesture

\* The recording is deleted for good: both keys go, outside the ledger.
StreamDeleted ==
    /\ WriteDoc([split |-> FALSE, regions |-> {}, arrange |-> Unset])
    /\ UNCHANGED <<gesture, undoStack>>

ArrangeNext ==
    \/ \E r \in streamRegionsOf(doc) : \E at \in 1..(SourceLen - 1) :
          \E own \in BOOLEAN : CutStream(r, at, own)
    \/ \E r \in streamRegionsOf(doc) : \E edge \in {"head", "tail"} : BeginGesture("trim", r, edge)
    \/ \E r \in streamRegionsOf(doc) : BeginGesture("drag", r, "none")
    \/ \E delta \in Shift : TrimMove(delta) \/ DragMove(delta)
    \/ EndGesture
    \/ \E r \in streamRegionsOf(doc) : \E own \in BOOLEAN : DeleteClip(r, own)
    \/ ResetMoves \/ Undo \/ StreamDeleted

ArrangeSpec == ArrangeInit /\ [][ArrangeNext]_arrangeVars

(***************************************************************************)
(* Properties.                                                             *)
(***************************************************************************)
\* The stored list is one regionsValid accepts, whoever wrote it and from
\* however old a list: pieces of positive length, inside the source, disjoint
\* in it, none before the beginning; ids are distinct.
ListsValid ==
    /\ regionsValid(streamRegionsOf(doc))
    /\ \A a, b \in streamRegionsOf(doc) : a.id = b.id => a = b

\* What a seek schedules is what the arrangement plays from there on: the
\* per-region plan at every position, and the whole-stream rule of a stream
\* that was never split.  (An undone edit leads back to the untouched list.)
PlanIsPlayed ==
    arrangeEdits > 0 =>
        LET played == Played(streamRegionsOf(doc))
        IN  \A from \in 0..(MaxStart + SourceLen) :
                LET due == {x \in played : x[1] >= from}
                IN  /\ UNION {Sounded(planRegionSource(r, from), from) : r \in streamRegionsOf(doc)}
                          = due
                    /\ ~doc.split => Sounded(planSource(clipStartSec(doc), from), from) = due

\* A cut is inaudible: pieces abut in both domains, so a fresh split plays
\* like the uncut region.
CutIsInaudible ==
    [][doc' # doc /\ (\E r \in streamRegionsOf(doc) : \E at \in 1..(SourceLen - 1) :
            \E own \in BOOLEAN : CutStream(r, at, own))
        => Played(streamRegionsOf(doc')) = Played(streamRegionsOf(doc))]_arrangeVars

\* Trimming moves nothing: a sample of the trimmed clip that plays before and
\* after plays at the same time, and no other clip of the list it started
\* from changes.
TrimHoldsPlace ==
    [][\A delta \in Shift : TrimMove(delta) =>
          LET was == CHOOSE x \in gesture.base : x.id = gesture.id
              is == CHOOSE x \in doc'.regions : x.id = gesture.id
          IN  /\ is.start - is.off = was.start - was.off
              /\ gesture.base \ {was} = doc'.regions \ {is}]_arrangeVars

\* The stored list is always a legal arrangement, and what a seek schedules from it
\* is what it plays (regions.ts, timeline-math.ts).
ArrangementPlays == ListsValid /\ PlanIsPlayed

\* An edit moves nothing it does not name: a cut is inaudible, a trim leaves every
\* sample where it was (regions.ts splitRegion, trimRegion).
EditsHoldPlace == CutIsInaudible /\ TrimHoldsPlace
=============================================================================
