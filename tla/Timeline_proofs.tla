-------------------------- MODULE Timeline_proofs --------------------------
(***************************************************************************)
(* What the desk's timeline rests on.                                      *)
(*                                                                         *)
(* Clips (Arrangement), for every length, head trim, gesture and number of *)
(* edits: the stored list is always a legal arrangement, what a seek       *)
(* schedules is what the arrangement plays, a cut is inaudible and a trim  *)
(* moves nothing.                                                          *)
(*                                                                         *)
(* The time base (AlignDomain), for every finite set of streams, every     *)
(* true lag, interval and sweep a correlator may lock on: all the applied  *)
(* lags of a take agree in one domain.                                     *)
(*                                                                         *)
(* MIDI takes (DeskMidi), for every set of takes, every failed write, read *)
(* and reload: what was captured is stored, shown and, once deleted, gone. *)
(*                                                                         *)
(* Lanes (DeskLanes), for every finite set of peers and streams, every     *)
(* number of moves, reloads and answers: ranks stay distinct, lanes hold   *)
(* their order and the operator's last move stands.                        *)
(***************************************************************************)
EXTENDS Arrangement, AlignDomain, DeskMidi, DeskLanes, FiniteSetTheorems, WellFoundedInduction, TLAPS

Region == [id : Nat, start : Int, off : Int, dur : Int]

\* A list that may be stored.
GoodList(list) ==
    /\ list \in SUBSET Region /\ IsFiniteSet(list) /\ regionsValid(list)
    /\ \A a, b \in list : a.id = b.id => a = b

\* A document a desk may meet; a stream that was never split starts somewhere.
GoodDoc(d) ==
    /\ d \in [split : BOOLEAN, regions : SUBSET Region, arrange : Int]
    /\ d.arrange = Unset \/ d.arrange >= 0
    /\ d.split => GoodList(d.regions)

\* A gesture keeps a list that was good when the pointer went down.
GoodGesture ==
    gesture.kind # "none" =>
        /\ GoodList(gesture.base)
        /\ \E x \in gesture.base : x.id = gesture.id

ArrangeInv ==
    /\ GoodDoc(doc) /\ Cardinality(doc.regions) <= MaxRegions
    /\ GoodGesture
    /\ \A d \in undoStack.before : GoodDoc(d)

-----------------------------------------------------------------------------
(* Extremes.                                                               *)

\* A set of naturals has a least element.
LEMMA LeastElement ==
    ASSUME NEW T \in SUBSET Nat, T # {}
    PROVE  \E m \in T : \A n \in T : m <= n
<1>1. PICK m \in T : \A n \in T : ~ (<<n, m>> \in OpToRel(<, Nat))
  BY NatLessThanWellFounded, WFMin
<1>2. \A n \in T : ~ (n < m)
  BY <1>1 DEF OpToRel
<1> QED
  BY <1>2

\* A set of integers with an upper bound has a highest one.
LEMMA HighestIsIn ==
    ASSUME NEW S \in SUBSET Int, S # {}, NEW N \in Int, \A x \in S : x <= N
    PROVE  HighestOf(S) \in S
<1> DEFINE T == {N - x : x \in S}
<1>0. \A x \in S : N - x \in Nat
  OBVIOUS
<1>1. T \in SUBSET Nat /\ T # {}
  BY <1>0
<1>2. PICK m \in T : \A n \in T : m <= n
  BY <1>1, LeastElement
<1>3. PICK y \in S : m = N - y
  BY <1>2
<1>4. \A x \in S : N - y <= N - x
  BY <1>2, <1>3
<1>5. \A x \in S : y >= x
  BY <1>4
<1> QED
  BY <1>5 DEF HighestOf

\* A set of integers with a lower bound has a lowest one.
LEMMA LowestIsIn ==
    ASSUME NEW S \in SUBSET Int, S # {}, NEW N \in Int, \A x \in S : N <= x
    PROVE  LowestIn(S) \in S
<1> DEFINE T == {x - N : x \in S}
<1>0. \A x \in S : x - N \in Nat
  OBVIOUS
<1>1. T \in SUBSET Nat /\ T # {}
  BY <1>0
<1>2. PICK m \in T : \A n \in T : m <= n
  BY <1>1, LeastElement
<1>3. PICK y \in S : m = y - N
  BY <1>2
<1>4. \A x \in S : y - N <= x - N
  BY <1>2, <1>3
<1>5. \A x \in S : y <= x
  BY <1>4
<1> QED
  BY <1>5 DEF LowestIn

-----------------------------------------------------------------------------
(* The list operations keep a list good.                                   *)

\* The whole stream is a good list of one.
LEMMA SeedIsGood ==
    ASSUME NEW s \in Nat
    PROVE  GoodList({seedRegion(s)}) /\ Cardinality({seedRegion(s)}) = 1
<1>1. seedRegion(s) \in Region
  BY ArrangeAssumption DEF seedRegion, Region
<1>2. regionsValid({seedRegion(s)})
  BY ArrangeAssumption DEF regionsValid, seedRegion
<1> QED
  BY <1>1, <1>2, FS_Singleton DEF GoodList

\* What a good document says of a stream is a good list.
LEMMA StreamRegionsGood ==
    ASSUME NEW d, GoodDoc(d)
    PROVE  /\ GoodList(streamRegionsOf(d))
           /\ ~d.split => clipStartSec(d) \in Nat /\ streamRegionsOf(d) = {seedRegion(clipStartSec(d))}
<1>1. d.split \in BOOLEAN /\ d.arrange \in Int
  BY DEF GoodDoc
<1>2. CASE d.split
  BY <1>2 DEF GoodDoc, streamRegionsOf
<1>3. CASE ~d.split
  <2>1. clipStartSec(d) \in Nat
    BY <1>1, ArrangeAssumption DEF GoodDoc, clipStartSec, Unset
  <2> QED
    BY <1>3, <2>1, SeedIsGood DEF streamRegionsOf
<1> QED
  BY <1>1, <1>2, <1>3

\* A short list leaves an id for a new piece.
LEMMA FreshIdIsNew ==
    ASSUME NEW list, GoodList(list), Cardinality(list) <= MaxRegions + 1
    PROVE  FreshId(list) \in Nat /\ \A r \in list : r.id # FreshId(list)
<1> DEFINE ids == {r.id : r \in list}
<1>2. IsFiniteSet(ClipIds) /\ Cardinality(ClipIds) = MaxRegions + 2
  BY FS_Interval, ArrangeAssumption DEF ClipIds
<1>3. IsFiniteSet(list) /\ Cardinality(list) < Cardinality(ClipIds)
  BY <1>2, FS_CardinalityType, ArrangeAssumption DEF GoodList
<1>4. ~(ClipIds \subseteq ids)
  <2> SUFFICES ASSUME ClipIds \subseteq ids PROVE FALSE
    OBVIOUS
  <2> DEFINE f == [i \in ClipIds |-> CHOOSE r \in list : r.id = i]
  <2>1. \A i \in ClipIds : f[i] \in list /\ f[i].id = i
    OBVIOUS
  <2>2. f \in [ClipIds -> list]
    BY <2>1
  <2> HIDE DEF f
  <2>3. PICK i, j \in ClipIds : i # j /\ f[i] = f[j]
    BY <1>2, <1>3, <2>2, FS_PigeonHole
  <2> QED
    BY <2>1, <2>3
<1>5. \E i \in ClipIds : i \notin ids
  BY <1>4
<1>6. FreshId(list) \in ClipIds /\ FreshId(list) \notin ids
  BY <1>5 DEF FreshId
<1> QED
  BY <1>6, ArrangeAssumption DEF ClipIds

\* The two pieces of a cut.
Left(r, at) == [r EXCEPT !.dur = at - r.off]
Right(list, r, at) ==
    [id |-> FreshId(list), start |-> r.start + (at - r.off), off |-> at, dur |-> r.off + r.dur - at]

\* A cut makes a good list, as long as the check on it passes.
LEMMA CutIsGood ==
    ASSUME NEW list, GoodList(list), Cardinality(list) <= MaxRegions + 1,
           NEW r \in list, NEW at \in Int, regionsValid(splitRegion(list, r, at))
    PROVE  GoodList(splitRegion(list, r, at))
<1> DEFINE l == Left(r, at)
           n == Right(list, r, at)
<1>1. r \in Region /\ FreshId(list) \in Nat /\ \A x \in list : x.id # FreshId(list)
  BY FreshIdIsNew DEF GoodList
<1>2. l \in Region /\ n \in Region /\ l.id = r.id /\ n.id = FreshId(list)
  BY <1>1 DEF Left, Right, Region
<1>3. splitRegion(list, r, at) = (list \ {r}) \cup {l, n}
  BY DEF splitRegion, Left, Right
<1> HIDE DEF l, n
<1>4. IsFiniteSet((list \ {r}) \cup {l, n})
  <2>1. IsFiniteSet(list \ {r})
    BY FS_Subset DEF GoodList
  <2>2. IsFiniteSet({l, n})
    <3>1. {l, n} = {l} \cup {n} /\ IsFiniteSet({l}) /\ IsFiniteSet({n})
      BY FS_Singleton
    <3> QED
      BY <3>1, FS_Union
  <2> QED
    BY <2>1, <2>2, FS_Union
<1>5. \A a, b \in (list \ {r}) \cup {l, n} : a.id = b.id => a = b
  BY <1>1, <1>2 DEF GoodList
<1>6. (list \ {r}) \cup {l, n} \in SUBSET Region
  BY <1>2 DEF GoodList
<1> QED
  BY <1>3, <1>4, <1>5, <1>6 DEF GoodList

\* How far an edge goes is a number of ticks.
LEMMA TrimReachTyped ==
    ASSUME NEW list, GoodList(list), NEW r \in list, NEW edge, NEW delta \in Int
    PROVE  TrimReach(list, r, edge, delta) \in Int
<1> DEFINE others == list \ {r}
           Ends == {0} \cup {x.off + x.dur : x \in {y \in others : y.off + y.dur <= r.off}}
           Starts == {SourceLen} \cup {x.off : x \in {y \in others : y.off >= r.off + r.dur}}
           Reach == {delta, HighestOf(Ends) - r.off, -r.start}
<1>1. r \in Region /\ \A x \in others : x \in Region /\ x.off >= 0 /\ x.off + x.dur <= SourceLen
  BY DEF GoodList, regionsValid
<1>2. r.off \in Int /\ r.dur \in Int /\ r.start \in Int
      /\ \A x \in others : x.off \in Int /\ x.dur \in Int /\ x.off + x.dur \in Int
  BY <1>1 DEF Region
<1>3. HighestOf(Ends) \in Int
  <2>1. Ends \in SUBSET Int /\ Ends # {} /\ \A x \in Ends : x <= SourceLen
    BY <1>1, <1>2, ArrangeAssumption
  <2> HIDE DEF Ends
  <2>2. SourceLen \in Int
    BY ArrangeAssumption
  <2>3. HighestOf(Ends) \in Ends
    BY <2>1, <2>2, HighestIsIn
  <2> QED
    BY <2>1, <2>3
<1>4. LowestIn(Starts) \in Int
  <2>1. Starts \in SUBSET Int /\ Starts # {} /\ \A x \in Starts : 0 <= x
    BY <1>1, <1>2, ArrangeAssumption
  <2> HIDE DEF Starts
  <2>2. LowestIn(Starts) \in Starts
    BY <2>1, LowestIsIn
  <2> QED
    BY <2>1, <2>2
<1> HIDE DEF Ends, Starts
<1>5. HighestOf(Reach) \in Int
  <2> DEFINE p == HighestOf(Ends) - r.off
             q == -r.start
             N == AtLeast(delta, AtLeast(p, q))
  <2>1. p \in Int /\ q \in Int
    BY <1>2, <1>3
  <2>2. Reach = {delta, p, q}
    OBVIOUS
  <2> HIDE DEF p, q
  <2>3. N \in Int /\ delta <= N /\ p <= N /\ q <= N
    BY <2>1 DEF AtLeast
  <2>4. Reach \in SUBSET Int /\ Reach # {} /\ \A x \in Reach : x <= N
    BY <2>1, <2>2, <2>3
  <2> HIDE DEF N, Reach
  <2> QED
    BY <2>3, <2>4, HighestIsIn
<1>6. TrimReach(list, r, edge, delta) =
        IF edge = "head" THEN UpTo(HighestOf(Reach), r.dur - 1)
        ELSE UpTo(AtLeast(delta, 1 - r.dur), LowestIn(Starts) - (r.off + r.dur))
  BY DEF TrimReach, Ends, Starts
<1> HIDE DEF Reach
<1>7. UpTo(HighestOf(Reach), r.dur - 1) \in Int
  BY <1>2, <1>5 DEF UpTo
<1>8. UpTo(AtLeast(delta, 1 - r.dur), LowestIn(Starts) - (r.off + r.dur)) \in Int
  BY <1>2, <1>4 DEF UpTo, AtLeast
<1> QED
  BY <1>6, <1>7, <1>8

\* The trimmed region, by d ticks.
Trimmed(r, edge, d) ==
    IF edge = "head"
    THEN [r EXCEPT !.start = @ + d, !.off = @ + d, !.dur = @ - d]
    ELSE [r EXCEPT !.dur = @ + d]

\* A trim keeps the id and where the source lies on the timeline.
LEMMA TrimmedShape ==
    ASSUME NEW r \in Region, NEW edge, NEW d \in Int
    PROVE  /\ Trimmed(r, edge, d) \in Region /\ Trimmed(r, edge, d).id = r.id
           /\ Trimmed(r, edge, d).start - Trimmed(r, edge, d).off = r.start - r.off
<1> DEFINE h == [r EXCEPT !.start = @ + d, !.off = @ + d, !.dur = @ - d]
           t == [r EXCEPT !.dur = @ + d]
<1>0. r.start \in Int /\ r.off \in Int /\ r.dur \in Int /\ r.id \in Nat
  BY DEF Region
<1>1. /\ h \in Region /\ h.id = r.id /\ h.start = r.start + d /\ h.off = r.off + d
      /\ t \in Region /\ t.id = r.id /\ t.start = r.start /\ t.off = r.off
  <2>1. h = [id |-> r.id, start |-> r.start + d, off |-> r.off + d, dur |-> r.dur - d]
    <3> DEFINE x == [r EXCEPT !.start = r.start + d]
               y == [x EXCEPT !.off = r.off + d]
               z == [y EXCEPT !.dur = r.dur - d]
    <3>1. h = z
      OBVIOUS
    <3>2. x = [id |-> r.id, start |-> r.start + d, off |-> r.off, dur |-> r.dur]
      BY DEF Region
    <3> HIDE DEF x
    <3>3. y = [id |-> r.id, start |-> r.start + d, off |-> r.off + d, dur |-> r.dur]
      BY <3>2
    <3> HIDE DEF y
    <3>4. z = [id |-> r.id, start |-> r.start + d, off |-> r.off + d, dur |-> r.dur - d]
      BY <3>3
    <3> QED
      BY <3>1, <3>4
  <2>2. t = [id |-> r.id, start |-> r.start, off |-> r.off, dur |-> r.dur + d]
    BY DEF Region
  <2> HIDE DEF h, t
  <2>3. h \in Region /\ t \in Region
    BY <1>0, <2>1, <2>2 DEF Region
  <2> QED
    BY <2>1, <2>2, <2>3
<1> HIDE DEF h, t
<1>2. h.start - h.off = r.start - r.off /\ t.start - t.off = r.start - r.off
  BY <1>0, <1>1
<1>3. Trimmed(r, edge, d) = h \/ Trimmed(r, edge, d) = t
  BY DEF Trimmed, h, t
<1> QED
  BY <1>1, <1>2, <1>3

\* Replacing one region by another of its id keeps the list well formed.
LEMMA ReplaceIsGood ==
    ASSUME NEW list, GoodList(list), NEW r \in list, NEW t \in Region, t.id = r.id,
           regionsValid((list \ {r}) \cup {t})
    PROVE  GoodList((list \ {r}) \cup {t})
<1>1. IsFiniteSet((list \ {r}) \cup {t})
  <2>1. IsFiniteSet(list \ {r}) /\ IsFiniteSet({t})
    BY FS_Subset, FS_Singleton DEF GoodList
  <2> QED
    BY <2>1, FS_Union
<1>2. \A a, b \in (list \ {r}) \cup {t} : a.id = b.id => a = b
  BY DEF GoodList
<1>3. (list \ {r}) \cup {t} \in SUBSET Region
  BY DEF GoodList
<1> QED
  BY <1>1, <1>2, <1>3 DEF GoodList

\* trimRegion makes a good list, as long as the check on it passes.
LEMMA TrimIsGood ==
    ASSUME NEW list, GoodList(list), NEW r \in list, NEW edge, NEW delta \in Int,
           regionsValid(trimRegion(list, r, edge, delta))
    PROVE  /\ GoodList(trimRegion(list, r, edge, delta))
           /\ \E t \in Region : /\ trimRegion(list, r, edge, delta) = (list \ {r}) \cup {t}
                                /\ t.id = r.id /\ t.start - t.off = r.start - r.off
<1> DEFINE d == TrimReach(list, r, edge, delta)
           t == Trimmed(r, edge, d)
<1>1. d \in Int /\ r \in Region
  BY TrimReachTyped DEF GoodList
<1>2. trimRegion(list, r, edge, delta) = (list \ {r}) \cup {t}
  BY DEF trimRegion, Trimmed
<1> HIDE DEF d
<1>3. t \in Region /\ t.id = r.id /\ t.start - t.off = r.start - r.off
  BY <1>1, TrimmedShape
<1> HIDE DEF t
<1>4. GoodList((list \ {r}) \cup {t})
  BY <1>2, <1>3, ReplaceIsGood
<1> QED
  BY <1>2, <1>3, <1>4

\* The list with every piece at a start of its own, as a drag and a reset make it.
Moved(list, f) == {[r EXCEPT !.start = f[r]] : r \in list}

\* Moving the pieces on the timeline leaves the cut of the source as it was.
LEMMA MovedIsGood ==
    ASSUME NEW list, GoodList(list), NEW f \in [list -> Nat]
    PROVE  GoodList(Moved(list, f)) /\ (list # {} => Moved(list, f) # {})
<1> DEFINE m(r) == [r EXCEPT !.start = f[r]]
           g == [r \in list |-> m(r)]
<1>1. \A r \in list : /\ m(r) \in Region /\ m(r).id = r.id /\ m(r).off = r.off
                      /\ m(r).dur = r.dur /\ m(r).start \in Nat
  BY DEF GoodList, Region
<1>2. Moved(list, f) = {m(r) : r \in list}
  BY DEF Moved
<1>3. g \in Surjection(list, Moved(list, f))
  BY <1>2 DEF Surjection
<1> HIDE DEF g, m
<1>4. IsFiniteSet(Moved(list, f))
  BY <1>3, FS_Surjection DEF GoodList
<1>5. Moved(list, f) \in SUBSET Region
  BY <1>1, <1>2
<1>6. \A a, b \in Moved(list, f) : a.id = b.id => a = b
  BY <1>1, <1>2 DEF GoodList
<1>7. regionsValid(Moved(list, f))
  <2>1. ASSUME NEW x \in Moved(list, f)
        PROVE  x.start >= 0 /\ x.dur >= 1 /\ x.off >= 0 /\ x.off + x.dur <= SourceLen
    <3>1. PICK r \in list : x = m(r)
      BY <1>2
    <3> QED
      BY <1>1, <3>1 DEF GoodList, regionsValid
  <2>2. ASSUME NEW a \in Moved(list, f), NEW b \in Moved(list, f), a # b
        PROVE  a.off + a.dur <= b.off \/ b.off + b.dur <= a.off
    <3>1. PICK r, s \in list : a = m(r) /\ b = m(s)
      BY <1>2
    <3>2. r # s
      BY <2>2, <3>1
    <3> QED
      BY <1>1, <3>1, <3>2 DEF GoodList, regionsValid
  <2> QED
    BY <2>1, <2>2 DEF regionsValid
<1> QED
  BY <1>2, <1>4, <1>5, <1>6, <1>7 DEF GoodList

\* A drag never moves a piece before the beginning.
LEMMA DraggedIsGood ==
    ASSUME NEW list, GoodList(list), NEW id, NEW dx \in Int
    PROVE  GoodList(dragged(list, id, dx)) /\ (list # {} => dragged(list, id, dx) # {})
<1> DEFINE f == [r \in list |-> IF r.id = id THEN AtLeast(0, r.start + dx) ELSE r.start]
<1>1. \A r \in list : r \in Region /\ r.start \in Nat
  BY DEF GoodList, regionsValid, Region
<1>2. ASSUME NEW r \in list PROVE f[r] \in Nat
  <2>1. r.start + dx \in Int
    BY <1>1
  <2>2. AtLeast(0, r.start + dx) \in Nat
    BY <2>1 DEF AtLeast
  <2> QED
    BY <1>1, <2>2
<1>3. f \in [list -> Nat]
  BY <1>2
<1> DEFINE u(r) == IF r.id = id THEN [r EXCEPT !.start = AtLeast(0, r.start + dx)] ELSE r
           v(r) == [r EXCEPT !.start = f[r]]
<1>4. \A r \in list : u(r) = v(r)
  BY <1>1 DEF Region
<1>5. dragged(list, id, dx) = {u(r) : r \in list} /\ Moved(list, f) = {v(r) : r \in list}
  BY DEF dragged, Moved
<1> HIDE DEF f, u, v
<1>6. dragged(list, id, dx) = Moved(list, f)
  BY <1>4, <1>5
<1> QED
  BY <1>3, <1>6, MovedIsGood

\* resetManualMoves: every piece at its source-true spot.
LEMMA ResetIsGood ==
    ASSUME NEW list, GoodList(list)
    PROVE  GoodList({[r EXCEPT !.start = Slot + r.off] : r \in list})
<1> DEFINE f == [r \in list |-> Slot + r.off]
<1>1. \A r \in list : r.off \in Nat
  BY DEF GoodList, regionsValid, Region
<1>2. f \in [list -> Nat]
  BY <1>1, ArrangeAssumption
<1>3. {[r EXCEPT !.start = Slot + r.off] : r \in list} = Moved(list, f)
  BY DEF Moved
<1> HIDE DEF f
<1> QED
  BY <1>2, <1>3, MovedIsGood

-----------------------------------------------------------------------------
(* What plays.                                                             *)

\* The samples lo to hi - 1, on a timeline where the source begins at delay.
Span(delay, lo, hi) == {<<delay + (b - HeadTrim), b>> : b \in lo..(hi - 1)}

\* A region as the player needs it.
Sound(r) == r \in Region /\ r.off >= 0 /\ r.off + r.dur <= SourceLen

LEMMA WindowTyped ==
    ASSUME NEW r, Sound(r)
    PROVE  /\ regionWindow(r).lo \in Nat /\ regionWindow(r).hi \in Int
           /\ HeadTrim <= regionWindow(r).lo /\ r.off <= regionWindow(r).lo
           /\ regionWindow(r).lo \in {r.off, HeadTrim}
           /\ regionWindow(r).hi = r.off + r.dur /\ regionWindow(r).hi <= SourceLen
<1>1. /\ r.off \in Nat /\ r.dur \in Int /\ r.off + r.dur \in Int /\ r.off + r.dur <= SourceLen
      /\ HeadTrim \in Nat /\ SourceLen \in Nat
  BY ArrangeAssumption DEF Sound, Region
<1>2. AtLeast(r.off, HeadTrim) \in {r.off, HeadTrim}
      /\ HeadTrim <= AtLeast(r.off, HeadTrim) /\ r.off <= AtLeast(r.off, HeadTrim)
  BY <1>1 DEF AtLeast
<1>3. UpTo(r.off + r.dur, SourceLen) = r.off + r.dur
  BY <1>1 DEF UpTo
<1> QED
  BY <1>1, <1>2, <1>3 DEF regionWindow

LEMMA SoundsAreSpan ==
    ASSUME NEW r, Sound(r)
    PROVE  Sounds(r) = Span(r.start - r.off, regionWindow(r).lo, regionWindow(r).hi)
<1> DEFINE lo == regionWindow(r).lo
           hi == regionWindow(r).hi
           B == {x \in 0..(SourceLen - 1) : x >= lo /\ x < hi}
<1>1. lo \in Nat /\ hi \in Int /\ hi <= SourceLen /\ SourceLen \in Nat
  BY WindowTyped, ArrangeAssumption
<1> HIDE DEF lo, hi
<1>2. B = lo..(hi - 1)
  BY <1>1
<1>3. Sounds(r) = {<<(r.start - r.off) + (b - HeadTrim), b>> : b \in B}
  BY DEF Sounds, lo, hi
<1> HIDE DEF B
<1> QED
  BY <1>2, <1>3 DEF Span, lo, hi

LEMMA SpanFrom ==
    ASSUME NEW delay \in Int, NEW lo \in Int, NEW hi \in Int, NEW from \in Int, NEW p \in Int,
           p >= lo, p >= HeadTrim + (from - delay),
           p = lo \/ p = HeadTrim + (from - delay)
    PROVE  {x \in Span(delay, lo, hi) : x[1] >= from} = Span(delay, p, hi)
<1> USE ArrangeAssumption
<1>1. ASSUME NEW x \in Span(delay, lo, hi), x[1] >= from
      PROVE  x \in Span(delay, p, hi)
  <2>1. PICK b \in lo..(hi - 1) : x = <<delay + (b - HeadTrim), b>>
    BY DEF Span
  <2>2. b \in p..(hi - 1)
    BY <1>1, <2>1
  <2> QED
    BY <2>1, <2>2 DEF Span
<1>2. ASSUME NEW x \in Span(delay, p, hi)
      PROVE  x \in Span(delay, lo, hi) /\ x[1] >= from
  <2>1. PICK b \in p..(hi - 1) : x = <<delay + (b - HeadTrim), b>>
    BY DEF Span
  <2>2. b \in lo..(hi - 1) /\ delay + (b - HeadTrim) >= from
    BY <2>1
  <2> QED
    BY <2>1, <2>2 DEF Span
<1> QED
  BY <1>1, <1>2

LEMMA SpanEmpty ==
    ASSUME NEW delay, NEW lo \in Int, NEW hi \in Int, hi <= lo
    PROVE  Span(delay, lo, hi) = {}
<1>1. lo..(hi - 1) = {}
  OBVIOUS
<1> QED
  BY <1>1 DEF Span

\* A plan schedules a span of samples; no plan, none.
LEMMA SoundedIsSpan ==
    ASSUME NEW plan, NEW from \in Int, NEW delay \in Int, NEW hi \in Int,
           plan.when \in Int, plan.offset \in Int, plan.play = hi - plan.offset,
           from + plan.when = delay + (plan.offset - HeadTrim)
    PROVE  Sounded(plan, from) = Span(delay, plan.offset, hi)
<1> USE ArrangeAssumption
<1> DEFINE play == plan.play
           when == plan.when
           offset == plan.offset
           P == {<<from + when + i, offset + i>> : i \in 0..(play - 1)}
<1>1. Sounded(plan, from) = P
  BY DEF Sounded
<1>2. ASSUME NEW x \in P PROVE x \in Span(delay, offset, hi)
  <2>1. PICK i \in 0..(play - 1) : x = <<from + when + i, offset + i>>
    OBVIOUS
  <2>2. offset + i \in offset..(hi - 1)
    BY <2>1
  <2>3. from + when + i = delay + ((offset + i) - HeadTrim)
    BY <2>1
  <2> QED
    BY <2>1, <2>2, <2>3 DEF Span
<1>3. ASSUME NEW x \in Span(delay, offset, hi) PROVE x \in P
  <2>1. PICK b \in offset..(hi - 1) : x = <<delay + (b - HeadTrim), b>>
    BY DEF Span
  <2>2. b - offset \in 0..(play - 1) /\ offset + (b - offset) = b
    BY <2>1
  <2>3. from + when + (b - offset) = delay + (b - HeadTrim)
    BY <2>1
  <2> QED
    BY <2>1, <2>2, <2>3
<1> QED
  BY <1>1, <1>2, <1>3

LEMMA NoPlanIsSilent ==
    ASSUME NEW from PROVE Sounded(NoPlan, from) = {}
<1>1. 0..(0 - 1) = {}
  OBVIOUS
<1> QED
  BY <1>1 DEF Sounded, NoPlan

\* What is scheduled of a region is what it plays from there on.
LEMMA RegionPlanIsPlayed ==
    ASSUME NEW r, Sound(r), NEW from \in Int
    PROVE  Sounded(planRegionSource(r, from), from) = {x \in Sounds(r) : x[1] >= from}
<1> DEFINE lo == regionWindow(r).lo
           hi == regionWindow(r).hi
           delay == r.start - r.off
           first == delay + (lo - HeadTrim)
           end == delay + (hi - HeadTrim)
           offset == HeadTrim + (from - delay)
           due == {x \in Sounds(r) : x[1] >= from}
<1>1. lo \in Int /\ hi \in Int /\ delay \in Int /\ HeadTrim \in Int
  BY WindowTyped, ArrangeAssumption DEF Sound, Region
<1>2. due = {x \in Span(delay, lo, hi) : x[1] >= from}
  BY SoundsAreSpan
<1>3. planRegionSource(r, from) =
        IF hi <= lo \/ from >= end THEN NoPlan
        ELSE IF from >= first THEN [when |-> 0, offset |-> offset, play |-> hi - offset]
        ELSE [when |-> first - from, offset |-> lo, play |-> hi - lo]
  BY DEF planRegionSource
<1> HIDE DEF lo, hi, delay, due
<1>4. first \in Int /\ end \in Int /\ offset \in Int
  BY <1>1
<1>5. CASE hi <= lo
  <2>1. due = {}
    BY <1>1, <1>2, <1>5, SpanEmpty
  <2> QED
    BY <1>3, <1>5, <2>1, NoPlanIsSilent DEF due
<1>6. CASE ~(hi <= lo) /\ from >= end
  <2>1. hi <= offset /\ offset >= lo
    BY <1>1, <1>4, <1>6
  <2>2. due = Span(delay, offset, hi)
    BY <1>1, <1>2, <1>4, <2>1, SpanFrom
  <2>3. due = {}
    BY <1>1, <1>4, <2>1, <2>2, SpanEmpty
  <2> QED
    BY <1>3, <1>6, <2>3, NoPlanIsSilent DEF due
<1>7. CASE ~(hi <= lo \/ from >= end) /\ from >= first
  <2>1. offset >= lo /\ from + 0 = delay + (offset - HeadTrim)
    BY <1>1, <1>4, <1>7
  <2>2. due = Span(delay, offset, hi)
    BY <1>1, <1>2, <1>4, <2>1, SpanFrom
  <2>3. planRegionSource(r, from) = [when |-> 0, offset |-> offset, play |-> hi - offset]
    BY <1>3, <1>7
  <2> DEFINE plan == planRegionSource(r, from)
             when == 0
  <2>4. /\ plan.when = when /\ plan.offset = offset /\ plan.play = hi - offset
        /\ when \in Int /\ from + when = delay + (offset - HeadTrim) /\ offset \in Int
    BY <1>4, <2>1, <2>3
  <2> HIDE DEF plan, when, offset
  <2>5. Sounded(plan, from) = Span(delay, offset, hi)
    <3>1. /\ plan.when \in Int /\ plan.offset \in Int /\ plan.play = hi - plan.offset
          /\ from + plan.when = delay + (plan.offset - HeadTrim) /\ plan.offset = offset
      BY <1>1, <2>4
    <3>2. delay \in Int /\ hi \in Int
      BY <1>1
    <3>3. Sounded(plan, from) = Span(delay, plan.offset, hi)
      BY ZenonT(60), <3>1, <3>2, SoundedIsSpan
    <3> QED
      BY <3>1, <3>3
  <2> QED
    BY <2>2, <2>5 DEF due, plan
<1>8. CASE ~(hi <= lo \/ from >= end) /\ ~(from >= first)
  <2>1. lo >= offset
    BY <1>1, <1>4, <1>8
  <2>2. due = Span(delay, lo, hi)
    BY <1>1, <1>2, <1>4, <2>1, SpanFrom
  <2>3. planRegionSource(r, from) = [when |-> first - from, offset |-> lo, play |-> hi - lo]
    BY <1>3, <1>8
  <2>4. from + (first - from) = delay + (lo - HeadTrim) /\ first - from \in Int /\ hi - lo \in Int
    BY <1>1, <1>4
  <2> DEFINE plan == planRegionSource(r, from)
             when == first - from
  <2>5. /\ plan.when = when /\ plan.offset = lo /\ plan.play = hi - lo
        /\ when \in Int /\ from + when = delay + (lo - HeadTrim)
    BY <2>3, <2>4
  <2> HIDE DEF plan, when
  <2>6. Sounded(plan, from) = Span(delay, lo, hi)
    <3>1. /\ plan.when \in Int /\ plan.offset \in Int /\ plan.play = hi - plan.offset
          /\ from + plan.when = delay + (plan.offset - HeadTrim) /\ plan.offset = lo
      BY <1>1, <2>5
    <3>2. delay \in Int /\ hi \in Int
      BY <1>1
    <3>3. Sounded(plan, from) = Span(delay, plan.offset, hi)
      BY ZenonT(60), <3>1, <3>2, SoundedIsSpan
    <3> QED
      BY <3>1, <3>3
  <2> QED
    BY <2>2, <2>6 DEF due, plan
<1> QED
  BY <1>5, <1>6, <1>7, <1>8

\* The rule of a stream that was never split says the same.
LEMMA WholePlanIsPlayed ==
    ASSUME NEW start \in Nat, NEW from \in Int
    PROVE  Sounded(planSource(start, from), from) = {x \in Sounds(seedRegion(start)) : x[1] >= from}
<1> DEFINE r == seedRegion(start)
           rel == from - start
           offset == HeadTrim + rel
           due == {x \in Sounds(r) : x[1] >= from}
<1> USE ArrangeAssumption
<1>1. Sound(r) /\ r.start - r.off = start /\ r.off = 0 /\ r.dur = SourceLen
  BY DEF Sound, Region, seedRegion
<1>2. regionWindow(r).lo = HeadTrim /\ regionWindow(r).hi = SourceLen
  BY <1>1 DEF regionWindow, AtLeast, UpTo
<1>3. due = {x \in Span(start, HeadTrim, SourceLen) : x[1] >= from}
  BY <1>1, <1>2, SoundsAreSpan
<1> HIDE DEF r, due
<1>4. rel \in Int /\ offset \in Int /\ HeadTrim \in Int /\ SourceLen \in Int
  OBVIOUS
<1>5. CASE rel < 0
  <2>1. due = Span(start, HeadTrim, SourceLen)
    BY <1>3, <1>4, <1>5, SpanFrom
  <2>2. planSource(start, from) = [when |-> -rel, offset |-> HeadTrim, play |-> SourceLen - HeadTrim]
    BY <1>5 DEF planSource
  <2>3. from + (-rel) = start + (HeadTrim - HeadTrim) /\ -rel \in Int /\ SourceLen - HeadTrim \in Int
    BY <1>4
  <2> DEFINE plan == planSource(start, from)
             when == -rel
  <2>4. plan.when = when /\ plan.offset = HeadTrim /\ plan.play = SourceLen - HeadTrim
    BY <2>2
  <2>5. when \in Int /\ from + when = start + (HeadTrim - HeadTrim)
    BY <2>3
  <2> HIDE DEF plan, when
  <2>6. Sounded(plan, from) = Span(start, HeadTrim, SourceLen)
    <3>1. /\ plan.when \in Int /\ plan.offset \in Int /\ plan.play = SourceLen - plan.offset
          /\ from + plan.when = start + (plan.offset - HeadTrim) /\ plan.offset = HeadTrim
      BY <1>4, <2>4, <2>5
    <3>2. start \in Int /\ SourceLen \in Int
      BY <1>4
    <3>3. Sounded(plan, from) = Span(start, plan.offset, SourceLen)
      BY ZenonT(60), <3>1, <3>2, SoundedIsSpan
    <3> QED
      BY <3>1, <3>3
  <2> QED
    BY <2>1, <2>6 DEF due, plan, r
<1>6. CASE ~(rel < 0) /\ offset >= SourceLen
  <2>1. due = Span(start, offset, SourceLen)
    BY <1>3, <1>4, <1>6, SpanFrom
  <2>2. due = {}
    BY <1>4, <1>6, <2>1, SpanEmpty
  <2>3. planSource(start, from) = NoPlan
    BY <1>6 DEF planSource
  <2> QED
    BY <2>2, <2>3, NoPlanIsSilent DEF due, r
<1>7. CASE ~(rel < 0) /\ ~(offset >= SourceLen)
  <2>1. due = Span(start, offset, SourceLen)
    BY <1>3, <1>4, <1>7, SpanFrom
  <2>2. planSource(start, from) = [when |-> 0, offset |-> offset, play |-> SourceLen - offset]
    <3>1. SourceLen - HeadTrim - rel = SourceLen - offset
      BY <1>4
    <3> QED
      BY <1>7, <3>1 DEF planSource
  <2>3. from + 0 = start + (offset - HeadTrim) /\ SourceLen - offset \in Int
    BY <1>4
  <2> DEFINE plan == planSource(start, from)
             when == 0
  <2>4. /\ plan.when = when /\ plan.offset = offset /\ plan.play = SourceLen - offset
        /\ when \in Int /\ from + when = start + (offset - HeadTrim) /\ offset \in Int
    BY <1>4, <2>2, <2>3
  <2> HIDE DEF plan, when, offset
  <2>5. Sounded(plan, from) = Span(start, offset, SourceLen)
    <3>1. /\ plan.when \in Int /\ plan.offset \in Int /\ plan.play = SourceLen - plan.offset
          /\ from + plan.when = start + (plan.offset - HeadTrim) /\ plan.offset = offset
      BY <1>4, <2>4
    <3>2. start \in Int /\ SourceLen \in Int
      BY <1>4
    <3>3. Sounded(plan, from) = Span(start, plan.offset, SourceLen)
      BY ZenonT(60), <3>1, <3>2, SoundedIsSpan
    <3> QED
      BY <3>1, <3>3
  <2> QED
    BY <2>1, <2>5 DEF due, plan, r
<1> QED
  BY <1>5, <1>6, <1>7

\* A span is cut where its samples are.
LEMMA SpanCut ==
    ASSUME NEW delay, NEW lo \in Int, NEW at \in Int, NEW hi \in Int, at <= hi,
           NEW p \in {lo, at}, p >= lo, p >= at
    PROVE  Span(delay, lo, hi) = Span(delay, lo, at) \cup Span(delay, p, hi)
<1>1. lo..(hi - 1) = (lo..(at - 1)) \cup (p..(hi - 1))
  OBVIOUS
<1> QED
  BY <1>1 DEF Span

\* The two pieces of a cut sound like the region that was cut.
LEMMA PiecesSoundWhole ==
    ASSUME NEW list, NEW r, Sound(r), NEW at \in Int, CanSplit(r, at), FreshId(list) \in Nat
    PROVE  Sounds(r) = Sounds(Left(r, at)) \cup Sounds(Right(list, r, at))
<1> DEFINE l == Left(r, at)
           n == Right(list, r, at)
           d == r.start - r.off
<1> USE ArrangeAssumption
<1>1. r.start \in Int /\ r.off \in Nat /\ r.dur \in Int /\ at > r.off /\ r.off + r.dur > at
  BY DEF Sound, Region, CanSplit
<1>2. /\ l \in Region /\ l.start = r.start /\ l.off = r.off /\ l.dur = at - r.off
      /\ n \in Region /\ n.start = r.start + (at - r.off) /\ n.off = at /\ n.dur = r.off + r.dur - at
  BY DEF Left, Right, Region, Sound
<1> HIDE DEF l, n
<1>3. /\ Sound(l) /\ l.start - l.off = d /\ l.off + l.dur = at
      /\ Sound(n) /\ n.start - n.off = d /\ n.off + n.dur = r.off + r.dur
  BY <1>1, <1>2 DEF Sound
<1>4. /\ Sounds(l) = Span(d, regionWindow(l).lo, at)
      /\ Sounds(n) = Span(d, regionWindow(n).lo, r.off + r.dur)
      /\ Sounds(r) = Span(d, regionWindow(r).lo, r.off + r.dur)
  BY <1>3, SoundsAreSpan, WindowTyped
<1>5. /\ regionWindow(l).lo = AtLeast(r.off, HeadTrim) /\ regionWindow(r).lo = AtLeast(r.off, HeadTrim)
      /\ regionWindow(n).lo = AtLeast(at, HeadTrim)
  BY <1>2 DEF regionWindow
<1> DEFINE lo == AtLeast(r.off, HeadTrim)
           p == AtLeast(at, HeadTrim)
           end == r.off + r.dur
<1>6. lo \in Int /\ p \in {lo, at} /\ p >= lo /\ p >= at
  BY <1>1 DEF AtLeast
<1>7. end \in Int /\ at <= end
  BY <1>1
<1> HIDE DEF lo, p, d, end
<1>8. Span(d, lo, end) = Span(d, lo, at) \cup Span(d, p, end)
  BY <1>6, <1>7, SpanCut
<1> QED
  BY <1>4, <1>5, <1>8 DEF l, n, lo, p, end

\* A good list has sounding regions only.
LEMMA GoodIsSound ==
    ASSUME NEW list, GoodList(list), NEW r \in list
    PROVE  Sound(r)
BY DEF GoodList, regionsValid, Sound

\* So a cut plays like what it cut.
LEMMA CutPlaysWhole ==
    ASSUME NEW list, GoodList(list), Cardinality(list) <= MaxRegions + 1,
           NEW r \in list, NEW at \in Int, CanSplit(r, at)
    PROVE  Played(splitRegion(list, r, at)) = Played(list)
<1> DEFINE l == Left(r, at)
           n == Right(list, r, at)
<1>1. Sounds(r) = Sounds(l) \cup Sounds(n)
  BY FreshIdIsNew, GoodIsSound, PiecesSoundWhole
<1>2. splitRegion(list, r, at) = (list \ {r}) \cup {l, n}
  BY DEF splitRegion, Left, Right
<1> HIDE DEF l, n
<1>3. ASSUME NEW x \in Played(list) PROVE x \in Played((list \ {r}) \cup {l, n})
  BY <1>1, <1>3 DEF Played
<1>4. ASSUME NEW x \in Played((list \ {r}) \cup {l, n}) PROVE x \in Played(list)
  BY <1>1, <1>4 DEF Played
<1> QED
  BY <1>2, <1>3, <1>4

-----------------------------------------------------------------------------
(* The steps.                                                              *)

LEMMA WithRegionsIsGood ==
    ASSUME GoodDoc(doc), NEW list, GoodList(list)
    PROVE  /\ GoodDoc(WithRegions(list)) /\ WithRegions(list).split
           /\ WithRegions(list).regions = list
<1> DEFINE d == WithRegions(list)
<1>1. doc \in [split : BOOLEAN, regions : SUBSET Region, arrange : Int] /\ list \in SUBSET Region
  BY DEF GoodDoc, GoodList
<1>2. d = [split |-> TRUE, regions |-> list, arrange |-> doc.arrange]
  <2> DEFINE yes == TRUE
             x == [doc EXCEPT !.split = yes]
  <2>1. d = [x EXCEPT !.regions = list]
    BY DEF WithRegions
  <2> HIDE DEF yes
  <2>2. x = [split |-> yes, regions |-> doc.regions, arrange |-> doc.arrange]
    BY <1>1
  <2> HIDE DEF x
  <2>3. d = [split |-> yes, regions |-> list, arrange |-> doc.arrange]
    BY <2>1, <2>2
  <2> QED
    BY <2>3 DEF yes
<1> HIDE DEF d
<1>3. d \in [split : BOOLEAN, regions : SUBSET Region, arrange : Int]
  BY <1>1, <1>2
<1> QED
  BY <1>2, <1>3 DEF GoodDoc, d

LEMMA WithArrangeIsGood ==
    ASSUME GoodDoc(doc), NEW at \in Int, at = Unset \/ at >= 0
    PROVE  GoodDoc([doc EXCEPT !.arrange = at])
<1> DEFINE d == [doc EXCEPT !.arrange = at]
<1>1. doc \in [split : BOOLEAN, regions : SUBSET Region, arrange : Int]
  BY DEF GoodDoc
<1>2. d = [split |-> doc.split, regions |-> doc.regions, arrange |-> at]
  BY <1>1
<1> HIDE DEF d
<1>3. d \in [split : BOOLEAN, regions : SUBSET Region, arrange : Int]
  BY <1>1, <1>2
<1> QED
  BY <1>2, <1>3 DEF GoodDoc, d

\* Writing a good document, with or without a step to undo it.
LEMMA WriteKeepsArrange ==
    ASSUME ArrangeInv, NEW d, GoodDoc(d), WriteDoc(d), UNCHANGED gesture,
           undoStack'.before \subseteq undoStack.before \cup {doc}
    PROVE  ArrangeInv'
<1>1. doc' = d /\ Cardinality(d.regions) <= MaxRegions
  BY DEF WriteDoc, InBounds
<1> QED
  BY <1>1 DEF ArrangeInv, GoodGesture

LEMMA OwnWriteKeepsArrange ==
    ASSUME ArrangeInv, NEW d, GoodDoc(d), NEW fresh, OwnWrite(d, fresh), UNCHANGED gesture
    PROVE  ArrangeInv'
<1>1. WriteDoc(d) /\ undoStack'.before \subseteq undoStack.before \cup {doc}
  BY DEF OwnWrite
<1> QED
  BY <1>1, WriteKeepsArrange

LEMMA CutKeepsArrange ==
    ASSUME ArrangeInv, NEW r, NEW at \in Int, NEW own \in BOOLEAN, CutStream(r, at, own)
    PROVE  /\ ArrangeInv'
           /\ Played(streamRegionsOf(doc')) = Played(streamRegionsOf(doc))
<1> DEFINE was == streamRegionsOf(doc)
           list == splitRegion(was, r, at)
           d == WithRegions(list)
<1>1. r \in was /\ CanSplit(r, at) /\ regionsValid(list) /\ UNCHANGED gesture
      /\ (OwnWrite(d, TRUE) \/ (WriteDoc(d) /\ UNCHANGED undoStack))
  BY DEF CutStream
<1>2. GoodList(was) /\ Cardinality(was) <= MaxRegions + 1
  <2>1. GoodList(was)
    BY StreamRegionsGood DEF ArrangeInv
  <2>2. CASE doc.split
    <3>1. was = doc.regions
      BY <2>2 DEF streamRegionsOf
    <3>2. Cardinality(was) \in Nat /\ Cardinality(was) <= MaxRegions
      BY <2>1, <3>1, FS_CardinalityType DEF ArrangeInv, GoodList
    <3> QED
      BY <2>1, <3>2, ArrangeAssumption
  <2>3. CASE ~doc.split
    <3>1. PICK s \in Nat : was = {seedRegion(s)}
      BY <2>3, StreamRegionsGood DEF ArrangeInv
    <3>2. Cardinality(was) = 1
      BY <3>1, SeedIsGood
    <3> QED
      BY <2>1, <3>2, ArrangeAssumption
  <2> QED
    BY <2>2, <2>3
<1> HIDE DEF was
<1>3. GoodList(list) /\ Played(list) = Played(was)
  BY <1>1, <1>2, CutIsGood, CutPlaysWhole
<1> HIDE DEF list
<1>4. GoodDoc(d) /\ d.split /\ d.regions = list
  BY <1>3, WithRegionsIsGood DEF ArrangeInv
<1> HIDE DEF d
<1>5. doc' = d
  BY <1>1 DEF OwnWrite, WriteDoc
<1>6. ArrangeInv'
  BY <1>1, <1>4, OwnWriteKeepsArrange, WriteKeepsArrange
<1>7. streamRegionsOf(doc') = list
  BY <1>4, <1>5 DEF streamRegionsOf
<1> QED
  BY <1>3, <1>6, <1>7 DEF was

\* Pointer down keeps a list that is good now.
LEMMA BeginKeepsArrange ==
    ASSUME ArrangeInv, NEW kind, NEW r, NEW edge, BeginGesture(kind, r, edge)
    PROVE  ArrangeInv'
<1>1. GoodList(streamRegionsOf(doc)) /\ r \in streamRegionsOf(doc)
  BY StreamRegionsGood DEF ArrangeInv, BeginGesture
<1>2. gesture'.base = streamRegionsOf(doc) /\ gesture'.id = r.id
  BY DEF BeginGesture
<1>3. GoodGesture'
  BY <1>1, <1>2 DEF GoodGesture
<1> QED
  BY <1>3 DEF ArrangeInv, BeginGesture

\* The region a gesture holds.
LEMMA HeldIsIn ==
    ASSUME GoodGesture, gesture.kind # "none"
    PROVE  /\ GoodList(gesture.base)
           /\ (CHOOSE x \in gesture.base : x.id = gesture.id) \in gesture.base
           /\ (CHOOSE x \in gesture.base : x.id = gesture.id).id = gesture.id
BY DEF GoodGesture

\* A trim of whatever list it started from moves nothing on the timeline.
LEMMA TrimKeepsArrange ==
    ASSUME ArrangeInv, NEW delta \in Shift, TrimMove(delta)
    PROVE  /\ ArrangeInv'
           /\ LET was == CHOOSE x \in gesture.base : x.id = gesture.id
                  is == CHOOSE x \in doc'.regions : x.id = gesture.id
              IN  /\ is.start - is.off = was.start - was.off
                  /\ gesture.base \ {was} = doc'.regions \ {is}
<1> DEFINE base == gesture.base
           was == CHOOSE x \in base : x.id = gesture.id
           is == CHOOSE x \in doc'.regions : x.id = gesture.id
           list == trimRegion(base, was, gesture.edge, delta)
           d == WithRegions(list)
<1>1. gesture.kind = "trim" /\ regionsValid(list) /\ OwnWrite(d, ~Merging) /\ UNCHANGED gesture
  BY DEF TrimMove
<1>2. GoodList(base) /\ was \in base /\ was.id = gesture.id
  BY <1>1, HeldIsIn DEF ArrangeInv
<1> HIDE DEF base, was
<1>3. delta \in Int
  BY ArrangeAssumption
<1>4. PICK t \in Region : /\ list = (base \ {was}) \cup {t} /\ GoodList(list)
                          /\ t.id = was.id /\ t.start - t.off = was.start - was.off
  BY <1>1, <1>2, <1>3, TrimIsGood
<1> HIDE DEF list
<1>5. GoodDoc(d) /\ d.regions = list
  BY <1>4, WithRegionsIsGood DEF ArrangeInv
<1> HIDE DEF d
<1>6. ArrangeInv'
  BY <1>1, <1>5, OwnWriteKeepsArrange
<1>7. doc'.regions = list
  BY <1>1, <1>5 DEF OwnWrite, WriteDoc
<1>8. is = t
  <2>1. \A x \in list : x.id = gesture.id => x = t
    BY <1>2, <1>4 DEF GoodList
  <2>2. t \in list /\ t.id = gesture.id
    BY <1>2, <1>4
  <2> QED
    BY <1>7, <2>1, <2>2
<1>9. base \ {was} = list \ {t}
  <2>1. \A x \in base \ {was} : x.id # was.id
    BY <1>2 DEF GoodList
  <2> QED
    BY <1>4, <2>1
<1> HIDE DEF is
<1> QED
  BY <1>4, <1>6, <1>7, <1>8, <1>9 DEF base, was, is

LEMMA DragKeepsArrange ==
    ASSUME ArrangeInv, NEW dx \in Shift, DragMove(dx)
    PROVE  ArrangeInv'
<1> DEFINE moved == dragged(gesture.base, gesture.id, dx)
           any == CHOOSE r \in moved : TRUE
           d == IF gesture.split THEN WithRegions(moved) ELSE [doc EXCEPT !.arrange = any.start]
<1>1. gesture.kind = "drag" /\ OwnWrite(d, ~Merging) /\ UNCHANGED gesture
  BY DEF DragMove
<1>2. GoodList(gesture.base) /\ gesture.base # {}
  BY <1>1 DEF ArrangeInv, GoodGesture
<1>3. GoodList(moved) /\ moved # {}
  BY <1>2, DraggedIsGood, ArrangeAssumption
<1> HIDE DEF moved
<1>4. any \in moved
  BY <1>3
<1> HIDE DEF any
<1>5. any.start \in Int /\ any.start >= 0
  BY <1>3, <1>4 DEF GoodList, regionsValid, Region
<1>6. GoodDoc(WithRegions(moved)) /\ GoodDoc([doc EXCEPT !.arrange = any.start])
  BY <1>3, <1>5, WithRegionsIsGood, WithArrangeIsGood DEF ArrangeInv
<1>7. GoodDoc(d)
  BY <1>6
<1> HIDE DEF d
<1> QED
  BY <1>1, <1>7, OwnWriteKeepsArrange

LEMMA DeleteKeepsArrange ==
    ASSUME ArrangeInv, NEW r, NEW own \in BOOLEAN, DeleteClip(r, own)
    PROVE  ArrangeInv'
<1> DEFINE list == IF doc.split THEN doc.regions \ {r} ELSE {}
           d == WithRegions(list)
<1>1. /\ UNCHANGED gesture
      /\ (OwnWrite(d, TRUE) \/ (WriteDoc(d) /\ UNCHANGED undoStack))
  BY DEF DeleteClip
<1>2. GoodList(list)
  <2>1. GoodList({})
    BY FS_EmptySet DEF GoodList, regionsValid
  <2>2. ASSUME doc.split PROVE GoodList(doc.regions \ {r})
    <3>1. GoodList(doc.regions)
      BY <2>2 DEF ArrangeInv, GoodDoc
    <3>2. IsFiniteSet(doc.regions \ {r})
      BY <3>1, FS_Subset DEF GoodList
    <3> QED
      BY <3>1, <3>2 DEF GoodList, regionsValid
  <2> QED
    BY <2>1, <2>2
<1> HIDE DEF list
<1>3. GoodDoc(d)
  BY <1>2, WithRegionsIsGood DEF ArrangeInv
<1> HIDE DEF d
<1> QED
  BY <1>1, <1>3, OwnWriteKeepsArrange, WriteKeepsArrange

LEMMA ResetKeepsArrange ==
    ASSUME ArrangeInv, ResetMoves
    PROVE  ArrangeInv'
<1> DEFINE list == {[r EXCEPT !.start = Slot + r.off] : r \in doc.regions}
           d == IF doc.split THEN [doc EXCEPT !.regions = list] ELSE [doc EXCEPT !.arrange = Unset]
<1>1. OwnWrite(d, TRUE) /\ UNCHANGED gesture
  BY DEF ResetMoves
<1>2. CASE doc.split
  <2>1. GoodList(list)
    BY <1>2, ResetIsGood DEF ArrangeInv, GoodDoc
  <2> HIDE DEF list
  <2>2. doc \in [split : BOOLEAN, regions : SUBSET Region, arrange : Int] /\ list \in SUBSET Region
    BY <2>1 DEF ArrangeInv, GoodDoc, GoodList
  <2> DEFINE e == [doc EXCEPT !.regions = list]
  <2>3. e = [split |-> doc.split, regions |-> list, arrange |-> doc.arrange]
    BY <2>2
  <2> HIDE DEF e
  <2>4. e \in [split : BOOLEAN, regions : SUBSET Region, arrange : Int]
    BY <2>2, <2>3
  <2>5. GoodDoc(e)
    BY <2>1, <2>3, <2>4 DEF ArrangeInv, GoodDoc
  <2>6. d = e
    BY <1>2 DEF e
  <2> HIDE DEF d
  <2> QED
    BY <1>1, <2>5, <2>6, OwnWriteKeepsArrange
<1>3. CASE ~doc.split
  <2>1. GoodDoc([doc EXCEPT !.arrange = Unset])
    BY WithArrangeIsGood DEF ArrangeInv, Unset
  <2>2. d = [doc EXCEPT !.arrange = Unset]
    BY <1>3
  <2> HIDE DEF d
  <2> QED
    BY <1>1, <2>1, <2>2, OwnWriteKeepsArrange
<1> QED
  BY <1>2, <1>3

LEMMA UndoKeepsArrange ==
    ASSUME ArrangeInv, Undo
    PROVE  ArrangeInv'
<1>1. PICK d \in undoStack.before : WriteDoc(d)
  BY DEF Undo
<1>2. GoodDoc(d) /\ UNCHANGED gesture /\ undoStack'.before = {}
  BY DEF Undo, NoStep, ArrangeInv
<1> QED
  BY <1>1, <1>2, WriteKeepsArrange

LEMMA StreamDeletedKeepsArrange ==
    ASSUME ArrangeInv, StreamDeleted
    PROVE  ArrangeInv'
<1>1. GoodDoc([split |-> FALSE, regions |-> {}, arrange |-> Unset])
  BY DEF GoodDoc, Unset
<1> QED
  BY <1>1, WriteKeepsArrange DEF StreamDeleted

-----------------------------------------------------------------------------
(* The theorems.                                                           *)

LEMMA ArrangeInitIsGood ==
    ASSUME ArrangeInit PROVE ArrangeInv
<1>1. GoodDoc(doc)
  BY DEF ArrangeInit, GoodDoc, Unset
<1>2. Cardinality(doc.regions) <= MaxRegions
  BY FS_EmptySet, ArrangeAssumption DEF ArrangeInit
<1> QED
  BY <1>1, <1>2 DEF ArrangeInv, GoodGesture, ArrangeInit, NoGesture, NoStep

LEMMA ArrangeStep ==
    ASSUME ArrangeInv, [ArrangeNext]_arrangeVars PROVE ArrangeInv'
<1>1. CASE UNCHANGED arrangeVars
  BY <1>1 DEF arrangeVars, ArrangeInv, GoodGesture
<1>2. ASSUME NEW r \in streamRegionsOf(doc), NEW at \in 1..(SourceLen - 1), NEW own \in BOOLEAN,
             CutStream(r, at, own)
      PROVE  ArrangeInv'
  <2>1. at \in Int
    BY ArrangeAssumption
  <2> QED
    BY <1>2, <2>1, CutKeepsArrange
<1>3. ASSUME NEW r, NEW kind, NEW edge, BeginGesture(kind, r, edge) PROVE ArrangeInv'
  BY <1>3, BeginKeepsArrange
<1>4. ASSUME NEW delta \in Shift, TrimMove(delta) \/ DragMove(delta) PROVE ArrangeInv'
  BY <1>4, TrimKeepsArrange, DragKeepsArrange
<1>5. CASE EndGesture
  BY <1>5 DEF EndGesture, ArrangeInv, GoodGesture, NoGesture
<1>6. ASSUME NEW r, NEW own \in BOOLEAN, DeleteClip(r, own) PROVE ArrangeInv'
  BY <1>6, DeleteKeepsArrange
<1>7. CASE ResetMoves \/ Undo \/ StreamDeleted
  BY <1>7, ResetKeepsArrange, UndoKeepsArrange, StreamDeletedKeepsArrange
<1> QED
  BY <1>1, <1>2, <1>3, <1>4, <1>5, <1>6, <1>7 DEF ArrangeNext

\* A good list is scheduled as it plays, from every position.
LEMMA GoodIsPlayed ==
    ASSUME ArrangeInv PROVE ArrangementPlays
<1> DEFINE list == streamRegionsOf(doc)
<1>1. /\ GoodList(list)
      /\ ~doc.split => clipStartSec(doc) \in Nat /\ list = {seedRegion(clipStartSec(doc))}
  BY StreamRegionsGood DEF ArrangeInv
<1>2. ListsValid
  BY <1>1 DEF GoodList, ListsValid
<1> HIDE DEF list
<1>3. ASSUME NEW from \in Int
      PROVE  LET due == {x \in Played(list) : x[1] >= from}
             IN  /\ UNION {Sounded(planRegionSource(r, from), from) : r \in list} = due
                 /\ ~doc.split => Sounded(planSource(clipStartSec(doc), from), from) = due
  <2> DEFINE due == {x \in Played(list) : x[1] >= from}
             S(r) == Sounded(planRegionSource(r, from), from)
  <2>1. \A r \in list : S(r) = {x \in Sounds(r) : x[1] >= from}
    BY <1>1, GoodIsSound, RegionPlanIsPlayed
  <2> HIDE DEF S
  <2>2. UNION {S(r) : r \in list} = due
    BY <2>1 DEF Played
  <2>3. ASSUME ~doc.split PROVE Sounded(planSource(clipStartSec(doc), from), from) = due
    <3> DEFINE start == clipStartSec(doc)
    <3>1. start \in Nat /\ list = {seedRegion(start)}
      BY <1>1, <2>3
    <3> HIDE DEF start
    <3>2. Sounded(planSource(start, from), from) = {x \in Sounds(seedRegion(start)) : x[1] >= from}
      BY <3>1, WholePlanIsPlayed
    <3>3. Played(list) = Sounds(seedRegion(start))
      BY <3>1 DEF Played
    <3> QED
      BY <3>2, <3>3 DEF start
  <2> QED
    BY <2>2, <2>3 DEF S
<1>4. PlanIsPlayed
  <2> SUFFICES ASSUME NEW from \in 0..(MaxStart + SourceLen)
               PROVE  LET due == {x \in Played(list) : x[1] >= from}
                      IN  /\ UNION {Sounded(planRegionSource(r, from), from) : r \in list} = due
                          /\ ~doc.split => Sounded(planSource(clipStartSec(doc), from), from) = due
    BY DEF PlanIsPlayed, list
  <2> QED
    BY <1>3
<1> QED
  BY <1>2, <1>4 DEF ArrangementPlays

\* Whatever the edits of however many desks, from whatever old list a gesture
\* writes: the stored list is a legal arrangement, and what a seek schedules from
\* it is what it plays (regions.ts, timeline-math.ts).
THEOREM ScheduleIsTrue == ArrangeSpec => []ArrangementPlays
<1>1. ArrangeInit => ArrangeInv
  BY ArrangeInitIsGood
<1>2. ArrangeInv /\ [ArrangeNext]_arrangeVars => ArrangeInv'
  BY ArrangeStep
<1>3. ArrangeInv => ArrangementPlays
  BY GoodIsPlayed
<1> QED
  BY <1>1, <1>2, <1>3, PTL DEF ArrangeSpec

\* An edit moves nothing it does not name: a cut is inaudible, a trim leaves every
\* sample where it was (regions.ts splitRegion, trimRegion).
THEOREM EditsAreSilent == ArrangeSpec => EditsHoldPlace
<1> DEFINE Cut == doc' # doc /\ (\E r \in streamRegionsOf(doc) : \E at \in 1..(SourceLen - 1) :
                        \E own \in BOOLEAN : CutStream(r, at, own))
                      => Played(streamRegionsOf(doc')) = Played(streamRegionsOf(doc))
           Trim == \A delta \in Shift : TrimMove(delta) =>
                      LET was == CHOOSE x \in gesture.base : x.id = gesture.id
                          is == CHOOSE x \in doc'.regions : x.id = gesture.id
                      IN  /\ is.start - is.off = was.start - was.off
                          /\ gesture.base \ {was} = doc'.regions \ {is}
<1>1. ArrangeInit => ArrangeInv
  BY ArrangeInitIsGood
<1>2. ArrangeInv /\ [ArrangeNext]_arrangeVars => ArrangeInv'
  BY ArrangeStep
<1>3. ArrangeInv => Cut
  <2> SUFFICES ASSUME ArrangeInv, NEW r, NEW at \in 1..(SourceLen - 1), NEW own \in BOOLEAN,
                      CutStream(r, at, own)
               PROVE  Played(streamRegionsOf(doc')) = Played(streamRegionsOf(doc))
    OBVIOUS
  <2>1. at \in Int
    BY ArrangeAssumption
  <2> QED
    BY <2>1, CutKeepsArrange
<1>4. ArrangeInv => Trim
  BY TrimKeepsArrange
<1> HIDE DEF Cut, Trim
<1>5. ArrangeSpec => [][Cut]_arrangeVars /\ [][Trim]_arrangeVars
  BY <1>1, <1>2, <1>3, <1>4, PTL DEF ArrangeSpec
<1> QED
  BY <1>5 DEF EditsHoldPlace, CutIsInaudible, TrimHoldsPlace, Cut, Trim

-----------------------------------------------------------------------------
(***************************************************************************)
(* The time base (AlignDomain).                                            *)
(***************************************************************************)
AlignMethod == {"none", "chirp", "content"}
AlignVerdict == [lag : Int, applied : BOOLEAN, method : AlignMethod]

\* What a set of verdicts is, however it was reached: a chirp lag names the sweep
\* its correlator finds.
OkAl(al) ==
    /\ al \in [AlignStream -> AlignVerdict]
    /\ \A s \in AlignStream : al[s].applied => al[s].method \in {"chirp", "content"}
    /\ \A s \in AlignStream : al[s].applied /\ al[s].method = "chirp" =>
           sweepOf[s] \in Int /\ sweepOf[s] # NoSweep /\ al[s].lag = TrueLag[s] + sweepOf[s] * Interval

\* Offset apart from b: of content exactly, of chirps up to whole intervals.
OffsetFrom(al, b, s) ==
    /\ al[s].method = "content" => al[s].lag = al[b].lag + (TrueLag[s] - TrueLag[b])
    /\ al[s].method = "chirp" =>
          \E k \in Int : al[s].lag = al[b].lag + (TrueLag[s] - TrueLag[b]) + k * Interval

\* All lags are offset from the one the deltas start from.
Aligned(al) ==
    \E b \in anchored(al) :
        /\ \A s \in anchored(al) : al[b].lag <= al[s].lag
        /\ \A s \in Applied(al) : OffsetFrom(al, b, s)

CacheOK ==
    \A s \in AlignStream :
        driftCache[s] = [ref |-> driftCache[s].ref, refDelta |-> driftCache[s].refDelta,
                         delta |-> driftCache[s].delta, isReference |-> FALSE]

DomainInv ==
    /\ OkAl(alignment) /\ loadedStreams \subseteq AlignStream
    /\ sweepOf \in [AlignStream -> Sweep \cup {NoSweep}]
    /\ OneSweep \/ (Complete /\ lastWhole) => Applied(alignment) = {} \/ Aligned(alignment)
    /\ CacheOK /\ DriftInForce

-----------------------------------------------------------------------------
(* Extremes and repeats.                                                   *)

\* Of finitely many things one measures least.
LEMMA LeastBy ==
    ASSUME NEW S, IsFiniteSet(S), S # {}, NEW f \in [S -> Int]
    PROVE  \E m \in S : \A x \in S : f[m] <= f[x]
<1> DEFINE Below(s) == {x \in S : f[x] < f[s]}
           T == {Cardinality(Below(s)) : s \in S}
<1>1. \A s \in S : IsFiniteSet(Below(s)) /\ Cardinality(Below(s)) \in Nat
  BY FS_Subset, FS_CardinalityType
<1>2. T \in SUBSET Nat /\ T # {}
  BY <1>1
<1>3. PICK n \in T : \A k \in T : n <= k
  BY <1>2, LeastElement
<1>4. PICK m \in S : n = Cardinality(Below(m))
  BY <1>3
<1>5. ASSUME NEW y \in S, f[y] < f[m] PROVE FALSE
  <2>1. Below(y) \subseteq Below(m) /\ y \in Below(m) /\ y \notin Below(y)
    BY <1>5
  <2>2. Below(y) # Below(m)
    BY <2>1
  <2> HIDE DEF Below
  <2>3. Cardinality(Below(y)) <= Cardinality(Below(m)) /\ Cardinality(Below(y)) # Cardinality(Below(m))
    BY <1>1, <2>1, <2>2, FS_Subset
  <2>4. Cardinality(Below(m)) <= Cardinality(Below(y))
    BY <1>3, <1>4
  <2> QED
    BY <1>1, <2>3, <2>4
<1> QED
  BY <1>5

\* The lowest of a set of integers is unique.
LEMMA LowestOfIs ==
    ASSUME NEW S \in SUBSET Int, NEW m \in S, \A x \in S : m <= x
    PROVE  LowestOf(S) = m
<1>1. \A x \in S : (\A y \in S : x <= y) => x = m
  OBVIOUS
<1> QED
  BY <1>1 DEF LowestOf

LEMMA DivIs ==
    ASSUME NEW a \in Int, NEW b \in Nat \ {0}, NEW q \in Int, b * q <= a, a < b * q + b
    PROVE  a \div b = q
OBVIOUS

\* Wrapping takes whole intervals off, if the rest is within half of one.
LEMMA WrapTakesIntervals ==
    ASSUME NEW x \in Int, NEW k \in Int, 2 * x < Interval, -Interval < 2 * x
    PROVE  wrapLag(x + k * Interval) = x
<1> USE LagsWithinHalfInterval
<1> DEFINE p == k * Interval
           a == 2 * (x + p) + Interval
           b == 2 * Interval
<1>1. p \in Int /\ b * k = 2 * p
  OBVIOUS
<1>2. a \in Int /\ b \in Nat \ {0} /\ b * k <= a /\ a < b * k + b
  <2> HIDE DEF p
  <2> QED
    BY <1>1 DEF p
<1> HIDE DEF a, b
<1>3. a \div b = k
  BY <1>2, DivIs
<1>4. wrapLag(x + p) = (x + p) - (a \div b) * Interval
  BY DEF wrapLag, a, b
<1> QED
  BY <1>1, <1>3, <1>4 DEF p

\* Two streams begin less than half an interval apart.
LEMMA OffsetsAreSmall ==
    ASSUME NEW a \in AlignStream, NEW b \in AlignStream
    PROVE  /\ TrueLag[a] \in Int /\ TrueLag[a] - TrueLag[b] \in Int
           /\ 2 * (TrueLag[a] - TrueLag[b]) < Interval /\ -Interval < 2 * (TrueLag[a] - TrueLag[b])
<1>1. TrueLag[a] \in Nat /\ TrueLag[b] \in Nat /\ Interval \in Nat
      /\ 2 * (TrueLag[a] - TrueLag[b]) < Interval /\ 2 * (TrueLag[b] - TrueLag[a]) < Interval
  BY LagsWithinHalfInterval
<1> QED
  BY <1>1

-----------------------------------------------------------------------------
(* From lags to deltas.                                                    *)

LEMMA AppliedIsFinite ==
    ASSUME loadedStreams \subseteq AlignStream, NEW al, OkAl(al)
    PROVE  /\ Applied(al) \subseteq AlignStream /\ IsFiniteSet(Applied(al))
           /\ anchored(al) \subseteq Applied(al) /\ IsFiniteSet(anchored(al))
           /\ (Applied(al) # {} => anchored(al) # {})
           /\ \A s \in AlignStream : al[s].lag \in Int
<1>1. Applied(al) \subseteq AlignStream /\ anchored(al) \subseteq Applied(al)
      /\ (Applied(al) # {} => anchored(al) # {})
  BY DEF Applied, anchored, ByChirp
<1>2. IsFiniteSet(AlignStream)
  BY AlignAssumption
<1>3. IsFiniteSet(Applied(al)) /\ IsFiniteSet(anchored(al))
  BY <1>1, <1>2, FS_Subset
<1>4. \A s \in AlignStream : al[s].lag \in Int
  BY DEF OkAl, AlignVerdict
<1> QED
  BY <1>1, <1>3, <1>4

\* The base is the lag of an anchor.
LEMMA BaseIsALag ==
    ASSUME loadedStreams \subseteq AlignStream, NEW al, OkAl(al), Applied(al) # {}
    PROVE  \E b \in anchored(al) : \A s \in anchored(al) : al[b].lag <= al[s].lag
<1> DEFINE A == anchored(al)
           f == [s \in A |-> al[s].lag]
<1>1. IsFiniteSet(A) /\ A # {} /\ \A s \in A : al[s].lag \in Int
  BY AppliedIsFinite
<1> HIDE DEF A
<1>2. f \in [A -> Int]
  BY <1>1
<1>3. PICK b \in A : \A s \in A : f[b] <= f[s]
  <2> HIDE DEF f
  <2> QED
    BY <1>1, <1>2, LeastBy
<1> QED
  BY <1>3 DEF A

LEMMA BaseIs ==
    ASSUME loadedStreams \subseteq AlignStream, NEW al, OkAl(al), NEW b \in anchored(al),
           \A s \in anchored(al) : al[b].lag <= al[s].lag
    PROVE  lagBase(al) = al[b].lag
<1> DEFINE S == {al[s].lag : s \in anchored(al)}
<1>1. S \in SUBSET Int /\ al[b].lag \in S
  BY AppliedIsFinite
<1>2. \A x \in S : al[b].lag <= x
  OBVIOUS
<1> HIDE DEF S
<1>3. LowestOf(S) = al[b].lag
  BY <1>1, <1>2, LowestOfIs
<1> QED
  BY <1>3 DEF lagBase, S

\* The unshifted delta of a stream.
Normal(al, s) ==
    IF al[s].method = "content" THEN al[s].lag - lagBase(al) ELSE wrapLag(al[s].lag - lagBase(al))

LEMMA WrapTyped ==
    ASSUME NEW raw \in Int PROVE wrapLag(raw) \in Int
<1>1. 2 * Interval \in Nat \ {0} /\ Interval \in Int /\ 2 * raw + Interval \in Int
  BY LagsWithinHalfInterval
<1>2. (2 * raw + Interval) \div (2 * Interval) \in Int
  BY <1>1
<1> QED
  BY <1>1, <1>2 DEF wrapLag

LEMMA NormalTyped ==
    ASSUME loadedStreams \subseteq AlignStream, NEW al, OkAl(al), NEW s \in Applied(al)
    PROVE  Normal(al, s) \in Int /\ lagBase(al) \in Int
<1>1. PICK b \in anchored(al) : \A x \in anchored(al) : al[b].lag <= al[x].lag
  BY BaseIsALag
<1>2. lagBase(al) = al[b].lag
  BY <1>1, BaseIs
<1>3. al[b].lag \in Int /\ al[s].lag \in Int
  BY AppliedIsFinite
<1>4. al[s].lag - lagBase(al) \in Int
  BY <1>2, <1>3
<1> QED
  BY <1>2, <1>3, <1>4, WrapTyped DEF Normal

\* The deltas of a set of verdicts: none, or one of each applied stream, counted
\* from the lowest.
LEMMA DeltasAre ==
    ASSUME loadedStreams \subseteq AlignStream, NEW al, OkAl(al),
           NEW d, d = normalizeAlignDeltas(al)
    PROVE  \/ d = [s \in {} |-> 0]
           \/ /\ d \in [Applied(al) -> Nat]
              /\ \E m \in Applied(al) : d[m] = 0 /\
                    \A s \in Applied(al) : d[s] = Normal(al, s) - Normal(al, m)
<1> DEFINE A == Applied(al)
           N == {Normal(al, s) : s \in A}
           low == LowestOf(N)
           e == [s \in A |-> Normal(al, s) - low]
<1>1. d = IF Cardinality(A) < 2 THEN [s \in {} |-> 0] ELSE e
  BY DEF normalizeAlignDeltas, Normal
<1>2. CASE A = {}
  <2>1. Cardinality(A) < 2
    BY <1>2, FS_EmptySet
  <2> QED
    BY <1>1, <2>1
<1>3. CASE A # {}
  <2> DEFINE f == [s \in A |-> Normal(al, s)]
  <2>1. f \in [A -> Int] /\ IsFiniteSet(A)
    BY NormalTyped, AppliedIsFinite
  <2>2. PICK m \in A : \A s \in A : f[m] <= f[s]
    <3> HIDE DEF f, A
    <3> QED
      BY <1>3, <2>1, LeastBy
  <2>3. \A s \in A : Normal(al, s) \in Int /\ Normal(al, m) <= Normal(al, s)
    BY <2>1, <2>2
  <2>4. low = Normal(al, m)
    <3>1. N \in SUBSET Int /\ Normal(al, m) \in N /\ \A x \in N : Normal(al, m) <= x
      BY <2>3
    <3> HIDE DEF N
    <3> QED
      BY <3>1, LowestOfIs
  <2> HIDE DEF A, low
  <2>5. e \in [A -> Nat] /\ e[m] = 0 /\ \A s \in A : e[s] = Normal(al, s) - Normal(al, m)
    BY <2>3, <2>4
  <2> QED
    BY <1>1, <2>5 DEF A
<1> QED
  BY <1>2, <1>3

\* Aligned lags give true offsets.
LEMMA AlignedIsTrue ==
    ASSUME loadedStreams \subseteq AlignStream, NEW al, OkAl(al),
           Applied(al) = {} \/ Aligned(al), NEW d, d = normalizeAlignDeltas(al)
    PROVE  \A x, y \in DOMAIN d : d[x] - d[y] = TrueLag[x] - TrueLag[y]
<1>1. CASE d = [s \in {} |-> 0]
  BY <1>1
<1>2. CASE d \in [Applied(al) -> Nat]
  <2> SUFFICES ASSUME NEW x \in Applied(al), NEW y \in Applied(al)
               PROVE  d[x] - d[y] = TrueLag[x] - TrueLag[y]
    BY <1>2
  <2>1. PICK b \in anchored(al) : /\ \A s \in anchored(al) : al[b].lag <= al[s].lag
                                  /\ \A s \in Applied(al) : OffsetFrom(al, b, s)
    BY DEF Aligned
  <2>2. lagBase(al) = al[b].lag /\ b \in AlignStream /\ al[b].lag \in Int
    BY <2>1, BaseIs, AppliedIsFinite
  <2>3. ASSUME NEW s \in Applied(al) PROVE Normal(al, s) = TrueLag[s] - TrueLag[b]
    <3> DEFINE t == TrueLag[s] - TrueLag[b]
    <3>1. s \in AlignStream /\ al[s].lag \in Int /\ al[s].method \in {"chirp", "content"}
      BY AppliedIsFinite DEF OkAl, Applied
    <3>2. t \in Int /\ 2 * t < Interval /\ -Interval < 2 * t /\ Interval \in Int
      BY <2>2, <3>1, OffsetsAreSmall, LagsWithinHalfInterval
    <3>3. CASE al[s].method = "content"
      <4>1. al[s].lag = al[b].lag + t
        BY <2>1, <3>3 DEF OffsetFrom
      <4> HIDE DEF t
      <4>2. al[s].lag - lagBase(al) = t
        BY <2>2, <3>1, <3>2, <4>1
      <4> QED
        BY <3>3, <4>2 DEF Normal, t
    <3>4. CASE al[s].method = "chirp"
      <4>1. PICK k \in Int : al[s].lag = al[b].lag + t + k * Interval
        BY <2>1, <3>4 DEF OffsetFrom
      <4> HIDE DEF t
      <4>2. al[s].lag - lagBase(al) = t + k * Interval
        BY <2>2, <3>1, <3>2, <4>1
      <4>3. wrapLag(t + k * Interval) = t
        BY <3>2, WrapTakesIntervals
      <4> QED
        BY <3>4, <4>2, <4>3 DEF Normal, t
    <3> QED
      BY <3>1, <3>3, <3>4
  <2>4. x \in AlignStream /\ y \in AlignStream /\ TrueLag[x] \in Int /\ TrueLag[y] \in Int /\ TrueLag[b] \in Int
    BY <2>2, AppliedIsFinite, OffsetsAreSmall
  <2>5. CASE d = [s \in {} |-> 0]
    BY <1>2, <2>5
  <2>6. CASE \E m \in Applied(al) : \A s \in Applied(al) : d[s] = Normal(al, s) - Normal(al, m)
    <3>1. PICK m \in Applied(al) : \A s \in Applied(al) : d[s] = Normal(al, s) - Normal(al, m)
      BY <2>6
    <3>2. TrueLag[m] \in Int
      BY AppliedIsFinite, OffsetsAreSmall
    <3>3. Normal(al, x) = TrueLag[x] - TrueLag[b] /\ Normal(al, y) = TrueLag[y] - TrueLag[b]
          /\ Normal(al, m) = TrueLag[m] - TrueLag[b]
      BY <2>3
    <3>4. d[x] = Normal(al, x) - Normal(al, m) /\ d[y] = Normal(al, y) - Normal(al, m)
      BY <3>1
    <3> QED
      BY <2>4, <3>2, <3>3, <3>4
  <2> QED
    BY <2>5, <2>6, DeltasAre
<1> QED
  BY <1>1, <1>2, DeltasAre

-----------------------------------------------------------------------------
(* The content pass.                                                       *)

\* The longest buffer of some streams is one of theirs.
LEMMA LongestIsIn ==
    ASSUME NEW S \in SUBSET AlignStream, S # {}
    PROVE  longest(S) \in S
<1> DEFINE f == [s \in S |-> -BufferLength[s]]
<1>1. IsFiniteSet(S) /\ \A s \in S : BufferLength[s] \in Nat
  BY AlignAssumption, FS_Subset
<1>2. f \in [S -> Int]
  BY <1>1
<1>3. PICK m \in S : \A x \in S : f[m] <= f[x]
  <2> HIDE DEF f
  <2> QED
    BY <1>1, <1>2, LeastBy
<1>4. \A x \in S : BufferLength[m] >= BufferLength[x]
  BY <1>1, <1>3
<1> QED
  BY <1>4 DEF longest

\* The reference is a loaded stream; it is unmeasured only if all are.
LEMMA ReferenceIs ==
    ASSUME loadedStreams \subseteq AlignStream, NEW al, OkAl(al),
           NEW scope, scope # {}, scope \subseteq loadedStreams
    PROVE  /\ contentReference(al, scope) \in AlignStream
           /\ contentReference(al, scope) \in loadedStreams
           /\ Applied(al) # {} => contentReference(al, scope) \in Applied(al)
<1> DEFINE kept == {s \in Applied(al) \ scope : drift[s].isReference}
           r == contentReference(al, scope)
           all == IF scope = loadedStreams THEN loadedStreams ELSE scope \ Applied(al)
<1>1. r = IF scope # loadedStreams /\ kept # {} THEN CHOOSE s \in kept : TRUE
          ELSE IF Applied(al) # {} THEN longest(anchored(al)) ELSE longest(all)
  BY DEF contentReference
<1>2. Applied(al) \subseteq loadedStreams /\ kept \subseteq Applied(al)
  BY DEF Applied
<1>3. CASE scope # loadedStreams /\ kept # {}
  <2>1. r \in kept
    BY <1>1, <1>3
  <2> QED
    BY <1>2, <2>1
<1>4. CASE ~(scope # loadedStreams /\ kept # {}) /\ Applied(al) # {}
  <2>1. anchored(al) # {} /\ anchored(al) \subseteq Applied(al) /\ anchored(al) \subseteq AlignStream
    BY <1>4, AppliedIsFinite
  <2>2. r = longest(anchored(al))
    BY <1>1, <1>4
  <2> QED
    BY <1>2, <2>1, <2>2, LongestIsIn
<1>5. CASE ~(scope # loadedStreams /\ kept # {}) /\ Applied(al) = {}
  <2>1. all # {} /\ all \subseteq loadedStreams
    BY <1>5
  <2>2. r = longest(all)
    BY <1>1, <1>5
  <2> HIDE DEF all
  <2> QED
    BY <1>5, <2>1, <2>2, LongestIsIn
<1> HIDE DEF r
<1> QED
  BY <1>3, <1>4, <1>5 DEF r

\* What the pass does: it places new streams P against r, whose lag is v; if r
\* itself was unmeasured, it is placed too and starts the domain.
Placed(al, be, P, r, v) ==
    /\ r \in AlignStream /\ v \in Int
    /\ P \subseteq loadedStreams /\ P # {} /\ P \cap Applied(al) = {}
    /\ \/ r \in Applied(al) /\ v = refVirtualLag(al, r)
       \/ Applied(al) = {}
    /\ be \in [AlignStream -> AlignVerdict]
    /\ \A s \in AlignStream \ P : be[s] = al[s]
    /\ \A s \in P : /\ be[s].applied /\ be[s].method = "content"
                    /\ be[s].lag = v + (TrueLag[s] - TrueLag[r])

LEMMA ContentPlaces ==
    ASSUME loadedStreams \subseteq AlignStream, NEW al, OkAl(al),
           NEW scope, scope # {}, scope \subseteq loadedStreams,
           NEW be, be = contentAlignPass(al, scope), be # al
    PROVE  \E P, r, v : Placed(al, be, P, r, v)
<1> DEFINE r == contentReference(al, scope)
           pending == scope \ Applied(al)
           found == {s \in pending \ {r} : <<r, s>> \in matches}
           v == refVirtualLag(al, r)
           P == IF al[r].applied THEN found ELSE found \cup {r}
           C(s) == [lag |-> v + TrueLag[s] - TrueLag[r], applied |-> TRUE, method |-> "content"]
           Z == [lag |-> 0, applied |-> TRUE, method |-> "content"]
<1>1. r \in AlignStream /\ r \in loadedStreams /\ (Applied(al) # {} => r \in Applied(al))
  BY ReferenceIs
<1>2. be = [s \in AlignStream |-> IF s \in found THEN C(s)
                                  ELSE IF s = r /\ found # {} /\ ~al[r].applied THEN Z ELSE al[s]]
  BY DEF contentAlignPass
<1>3. found \subseteq AlignStream \ {r} /\ found \subseteq loadedStreams /\ found \cap Applied(al) = {}
      /\ al \in [AlignStream -> AlignVerdict]
  BY DEF OkAl
<1>4. al[r].applied <=> r \in Applied(al)
  BY <1>1 DEF Applied
<1>5. v \in Int /\ (~al[r].applied => v = 0)
  <2>1. CASE ~al[r].applied
    BY <2>1 DEF refVirtualLag
  <2>2. CASE al[r].applied
    <3>1. al[r].lag \in Int /\ lagBase(al) \in Int
      BY <1>1, <1>4, <2>2, AppliedIsFinite, NormalTyped
    <3>2. wrapLag(al[r].lag - lagBase(al)) \in Int
      BY <3>1, WrapTyped
    <3> QED
      BY <2>2, <3>1, <3>2 DEF refVirtualLag
  <2> QED
    BY <2>1, <2>2
<1>6. found # {}
  <2> SUFFICES ASSUME found = {} PROVE be = al
    OBVIOUS
  <2> HIDE DEF found, C
  <2> QED
    BY <1>2, <1>3
<1> HIDE DEF found, v, r, pending
<1>7. \A s \in found : TrueLag[s] \in Int /\ TrueLag[r] \in Int /\ v + TrueLag[s] - TrueLag[r] \in Int
                       /\ v + TrueLag[s] - TrueLag[r] = v + (TrueLag[s] - TrueLag[r])
  BY <1>1, <1>3, <1>5, OffsetsAreSmall
<1>8. be \in [AlignStream -> AlignVerdict]
  <2>1. \A s \in found : C(s) \in AlignVerdict
    BY <1>7 DEF AlignVerdict, AlignMethod
  <2>2. Z \in AlignVerdict
    BY DEF AlignVerdict, AlignMethod
  <2> HIDE DEF C, Z
  <2> QED
    BY <1>2, <1>3, <2>1, <2>2
<1>9. \A s \in P : /\ be[s].applied /\ be[s].method = "content"
                   /\ be[s].lag = v + (TrueLag[s] - TrueLag[r])
  <2>1. ASSUME NEW s \in found PROVE be[s] = C(s)
    <3> HIDE DEF C
    <3> QED
      BY <1>2, <1>3
  <2>2. ASSUME ~al[r].applied PROVE be[r] = Z /\ 0 = v + (TrueLag[r] - TrueLag[r])
    <3>1. be[r] = Z
      <4> HIDE DEF C, Z
      <4> QED
        BY <1>1, <1>2, <1>3, <1>6, <2>2
    <3>2. TrueLag[r] \in Int
      BY <1>1, OffsetsAreSmall
    <3> QED
      BY <1>5, <2>2, <3>1, <3>2
  <2>3. ASSUME NEW s \in found
        PROVE  be[s].applied /\ be[s].method = "content" /\ be[s].lag = v + (TrueLag[s] - TrueLag[r])
    <3>1. C(s).applied
      OBVIOUS
    <3>2. C(s).method = "content" /\ C(s).lag = v + (TrueLag[s] - TrueLag[r])
      BY <1>7
    <3> HIDE DEF C
    <3> QED
      BY <2>1, <3>1, <3>2
  <2>4. ASSUME ~al[r].applied
        PROVE  be[r].applied /\ be[r].method = "content" /\ be[r].lag = v + (TrueLag[r] - TrueLag[r])
    BY <2>2, <2>4
  <2> HIDE DEF C, Z
  <2> QED
    BY <2>3, <2>4
<1>10. \A s \in AlignStream \ P : be[s] = al[s]
  <2> HIDE DEF C, Z
  <2> QED
    BY <1>2
<1>11. P \subseteq loadedStreams /\ P # {} /\ P \cap Applied(al) = {}
  BY <1>1, <1>3, <1>4, <1>6
<1>12. (r \in Applied(al) /\ v = refVirtualLag(al, r)) \/ Applied(al) = {}
  BY <1>1 DEF v
<1> HIDE DEF P
<1>13. Placed(al, be, P, r, v)
  BY <1>1, <1>5, <1>8, <1>9, <1>10, <1>11, <1>12 DEF Placed
<1> QED
  BY <1>13

\* Lags that are one shift of the true ones are aligned.
LEMMA ShiftIsAligned ==
    ASSUME loadedStreams \subseteq AlignStream, NEW al, OkAl(al), Applied(al) # {},
           NEW c \in Int, \A s \in Applied(al) : al[s].lag = TrueLag[s] + c
    PROVE  Aligned(al)
<1>1. PICK b \in anchored(al) : \A s \in anchored(al) : al[b].lag <= al[s].lag
  BY BaseIsALag
<1>2. b \in Applied(al)
  BY AppliedIsFinite
<1>3. ASSUME NEW s \in Applied(al) PROVE OffsetFrom(al, b, s)
  <2> DEFINE t == TrueLag[s] - TrueLag[b]
             x == al[b].lag + t
  <2>1. TrueLag[s] \in Int /\ TrueLag[b] \in Int /\ Interval \in Int
    BY <1>2, AppliedIsFinite, OffsetsAreSmall, LagsWithinHalfInterval
  <2>2. al[s].lag = x /\ x \in Int
    BY <1>2, <2>1
  <2>3. x = x + 0 * Interval /\ 0 \in Int
    BY <2>1, <2>2
  <2> HIDE DEF x
  <2> QED
    BY <2>2, <2>3 DEF OffsetFrom, x
<1> QED
  BY <1>1, <1>3 DEF Aligned

LEMMA PlacedShape ==
    ASSUME loadedStreams \subseteq AlignStream, NEW al, OkAl(al),
           NEW be, NEW P, NEW r, NEW v, Placed(al, be, P, r, v)
    PROVE  OkAl(be) /\ Applied(be) = Applied(al) \cup P /\ ByChirp(be) = ByChirp(al)
<1>1. \A s \in AlignStream \ P : be[s] = al[s]
  BY DEF Placed
<1>2. \A s \in P : be[s].applied /\ be[s].method = "content" /\ s \notin Applied(al) /\ s \in loadedStreams
  BY DEF Placed
<1>3. Applied(be) = Applied(al) \cup P
  BY <1>1, <1>2 DEF Applied
<1>4. ByChirp(be) = ByChirp(al)
  BY <1>1, <1>2, <1>3 DEF ByChirp, Applied
<1>5. OkAl(be)
  BY <1>1, <1>2 DEF Placed, OkAl
<1> QED
  BY <1>3, <1>4, <1>5

\* What the pass places agrees with what was there.
LEMMA PlacedKeepsAligned ==
    ASSUME loadedStreams \subseteq AlignStream, NEW al, OkAl(al),
           NEW be, NEW P, NEW r, NEW v, Placed(al, be, P, r, v),
           Applied(al) = {} \/ Aligned(al)
    PROVE  Aligned(be)
<1>1. OkAl(be) /\ Applied(be) = Applied(al) \cup P /\ ByChirp(be) = ByChirp(al) /\ Applied(be) # {}
  <2>1. OkAl(be) /\ Applied(be) = Applied(al) \cup P /\ ByChirp(be) = ByChirp(al)
    BY PlacedShape
  <2>2. P # {}
    BY DEF Placed
  <2> QED
    BY <2>1, <2>2
<1>2. /\ \A s \in Applied(al) : be[s] = al[s]
      /\ \A s \in P : be[s].method = "content" /\ be[s].lag = v + (TrueLag[s] - TrueLag[r])
      /\ r \in AlignStream /\ v \in Int /\ P \subseteq AlignStream
  BY AppliedIsFinite DEF Placed
<1>3. CASE Applied(al) = {}
  <2> DEFINE c == v - TrueLag[r]
  <2>1. c \in Int
    BY <1>2, OffsetsAreSmall
  <2>2. \A s \in Applied(be) : be[s].lag = TrueLag[s] + c
    <3> SUFFICES ASSUME NEW s \in P PROVE be[s].lag = TrueLag[s] + c
      BY <1>1, <1>3
    <3>1. TrueLag[s] \in Int /\ TrueLag[r] \in Int
      BY <1>2, OffsetsAreSmall
    <3> QED
      BY <1>2, <3>1
  <2> HIDE DEF c
  <2> QED
    BY <1>1, <2>1, <2>2, ShiftIsAligned
<1>4. CASE Applied(al) # {}
  <2>1. PICK b \in anchored(al) : /\ \A s \in anchored(al) : al[b].lag <= al[s].lag
                                  /\ \A s \in Applied(al) : OffsetFrom(al, b, s)
    BY <1>4 DEF Aligned
  <2>2. lagBase(al) = al[b].lag /\ b \in Applied(al) /\ b \in AlignStream /\ al[b].lag \in Int
        /\ r \in Applied(al) /\ v = refVirtualLag(al, r)
    BY <1>4, <2>1, BaseIs, AppliedIsFinite DEF Placed
  <2>3. v = al[b].lag + (TrueLag[r] - TrueLag[b])
    <3> DEFINE t == TrueLag[r] - TrueLag[b]
    <3>1. al[r].applied /\ al[r].method \in {"chirp", "content"} /\ al[r].lag \in Int
      BY <2>2, AppliedIsFinite DEF OkAl, Applied
    <3>2. t \in Int /\ 2 * t < Interval /\ -Interval < 2 * t /\ Interval \in Int
      BY <1>2, <2>2, OffsetsAreSmall, LagsWithinHalfInterval
    <3>3. CASE al[r].method = "content"
      BY <2>1, <2>2, <3>1, <3>3 DEF OffsetFrom, refVirtualLag
    <3>4. CASE al[r].method = "chirp"
      <4>1. PICK k \in Int : al[r].lag = al[b].lag + t + k * Interval
        BY <2>1, <2>2, <3>4 DEF OffsetFrom
      <4> HIDE DEF t
      <4>2. al[r].lag - lagBase(al) = t + k * Interval
        BY <2>2, <3>1, <3>2, <4>1
      <4>3. wrapLag(al[r].lag - lagBase(al)) = t
        BY <3>2, <4>2, WrapTakesIntervals
      <4>4. v = lagBase(al) + wrapLag(al[r].lag - lagBase(al))
        BY <2>2, <3>1, <3>4 DEF refVirtualLag
      <4> QED
        BY <2>2, <4>3, <4>4 DEF t
    <3> QED
      BY <3>1, <3>3, <3>4
  <2>4. \A s \in P : be[s].lag = al[b].lag + (TrueLag[s] - TrueLag[b])
    <3> SUFFICES ASSUME NEW s \in P PROVE be[s].lag = al[b].lag + (TrueLag[s] - TrueLag[b])
      OBVIOUS
    <3>1. TrueLag[s] \in Int /\ TrueLag[r] \in Int /\ TrueLag[b] \in Int
      BY <1>2, <2>2, OffsetsAreSmall
    <3>2. be[s].lag = v + (TrueLag[s] - TrueLag[r])
      BY <1>2
    <3> QED
      BY <2>2, <2>3, <3>1, <3>2
  <2>5. CASE ByChirp(al) # {}
    <3>1. anchored(be) = anchored(al) /\ anchored(al) \subseteq Applied(al)
      BY <1>1, <2>5 DEF anchored, ByChirp
    <3>2. \A s \in anchored(be) : be[b].lag <= be[s].lag
      BY <1>2, <2>1, <2>2, <3>1
    <3>3. ASSUME NEW s \in Applied(be) PROVE OffsetFrom(be, b, s)
      <4>1. CASE s \in P
        BY <1>2, <2>2, <2>4, <4>1 DEF OffsetFrom
      <4>2. CASE s \in Applied(al)
        <5>1. be[s] = al[s] /\ be[b] = al[b] /\ OffsetFrom(al, b, s)
          BY <1>2, <2>1, <2>2, <4>2
        <5> QED
          BY <5>1 DEF OffsetFrom
      <4> QED
        BY <1>1, <4>1, <4>2
    <3> QED
      BY <2>1, <3>1, <3>2, <3>3 DEF Aligned
  <2>6. CASE ByChirp(al) = {}
    <3> DEFINE c == al[b].lag - TrueLag[b]
    <3>1. c \in Int
      BY <2>2, OffsetsAreSmall
    <3>2. ASSUME NEW s \in Applied(be) PROVE be[s].lag = TrueLag[s] + c
      <4>1. be[s].lag = al[b].lag + (TrueLag[s] - TrueLag[b])
        <5>1. CASE s \in P
          BY <2>4, <5>1
        <5>2. CASE s \in Applied(al)
          <6>1. al[s].method = "content"
            BY <2>6, <5>2 DEF OkAl, ByChirp, Applied
          <6> QED
            BY <1>2, <2>1, <5>2, <6>1 DEF OffsetFrom
        <5> QED
          BY <1>1, <5>1, <5>2
      <4>2. TrueLag[s] \in Int /\ TrueLag[b] \in Int
        BY <1>1, <2>2, AppliedIsFinite, OffsetsAreSmall
      <4> QED
        BY <2>2, <4>1, <4>2
    <3> HIDE DEF c
    <3> QED
      BY <1>1, <3>1, <3>2, ShiftIsAligned
  <2> QED
    BY <2>5, <2>6
<1> QED
  BY <1>3, <1>4

-----------------------------------------------------------------------------
(* The chirp pass.                                                         *)

\* Verdicts of the chirp alone are aligned, whatever sweeps they locked on.
LEMMA ChirpsAreAligned ==
    ASSUME loadedStreams \subseteq AlignStream, NEW al, OkAl(al), Applied(al) # {},
           Applied(al) \subseteq ByChirp(al)
    PROVE  Aligned(al)
<1>1. PICK b \in anchored(al) : \A s \in anchored(al) : al[b].lag <= al[s].lag
  BY BaseIsALag
<1>2. b \in Applied(al)
  BY AppliedIsFinite
<1>3. ASSUME NEW s \in Applied(al)
      PROVE  /\ al[s].method = "chirp" /\ sweepOf[s] \in Int /\ TrueLag[s] \in Int
             /\ al[s].lag = TrueLag[s] + sweepOf[s] * Interval
  BY AppliedIsFinite, OffsetsAreSmall DEF OkAl, ByChirp, Applied
<1>4. ASSUME NEW s \in Applied(al) PROVE OffsetFrom(al, b, s)
  <2> DEFINE k == sweepOf[s] - sweepOf[b]
  <2>1. k \in Int /\ Interval \in Int
    BY <1>2, <1>3, LagsWithinHalfInterval
  <2>2. k * Interval = sweepOf[s] * Interval - sweepOf[b] * Interval
    BY <1>2, <1>3, <2>1
  <2>3. sweepOf[s] * Interval \in Int /\ sweepOf[b] * Interval \in Int /\ k * Interval \in Int
    BY <1>2, <1>3, <2>1
  <2> HIDE DEF k
  <2>4. al[s].lag = al[b].lag + (TrueLag[s] - TrueLag[b]) + k * Interval
    BY <1>2, <1>3, <2>2, <2>3
  <2> QED
    BY <1>3, <2>1, <2>4 DEF OffsetFrom
<1> QED
  BY <1>1, <1>4 DEF Aligned

\* With one sweep for all, aligned lags are one shift of the true ones.
LEMMA AlignedIsShift ==
    ASSUME loadedStreams \subseteq AlignStream, NEW al, OkAl(al), Aligned(al), OneSweep
    PROVE  \E c \in Int : /\ \A s \in Applied(al) : al[s].lag = TrueLag[s] + c
                          /\ \A s \in ByChirp(al) : c = sweepOf[s] * Interval
<1>1. PICK b \in anchored(al) : \A s \in Applied(al) : OffsetFrom(al, b, s)
  BY DEF Aligned
<1>2. b \in Applied(al) /\ b \in AlignStream /\ al[b].lag \in Int /\ TrueLag[b] \in Int
  BY AppliedIsFinite, OffsetsAreSmall
<1>3. ASSUME NEW s \in ByChirp(al)
      PROVE  /\ s \in Applied(al) /\ sweepOf[s] \in Int /\ sweepOf[s] # NoSweep /\ s \in AlignStream
             /\ al[s].lag = TrueLag[s] + sweepOf[s] * Interval /\ sweepOf[s] * Interval \in Int
  BY AppliedIsFinite, LagsWithinHalfInterval DEF OkAl, ByChirp, Applied
<1>4. ASSUME NEW s \in Applied(al), s \notin ByChirp(al) PROVE al[s].method = "content"
  BY <1>4, AppliedIsFinite DEF OkAl, ByChirp, Applied
<1>5. CASE b \in ByChirp(al)
  <2> DEFINE c == sweepOf[b] * Interval
  <2>1. c \in Int /\ al[b].lag = TrueLag[b] + c
    BY <1>3, <1>5
  <2>2. ASSUME NEW s \in ByChirp(al) PROVE c = sweepOf[s] * Interval
    BY <1>2, <1>3, <1>5 DEF OneSweep
  <2> HIDE DEF c
  <2>3. ASSUME NEW s \in Applied(al) PROVE al[s].lag = TrueLag[s] + c
    <3>1. CASE s \in ByChirp(al)
      BY <1>3, <2>2, <3>1
    <3>2. CASE s \notin ByChirp(al)
      <4>1. al[s].lag = al[b].lag + (TrueLag[s] - TrueLag[b]) /\ TrueLag[s] \in Int
        BY <1>1, <1>4, <3>2, AppliedIsFinite, OffsetsAreSmall DEF OffsetFrom
      <4> QED
        BY <1>2, <2>1, <4>1
    <3> QED
      BY <3>1, <3>2
  <2> QED
    BY <2>1, <2>2, <2>3
<1>6. CASE b \notin ByChirp(al)
  <2> DEFINE c == al[b].lag - TrueLag[b]
  <2>1. c \in Int /\ ByChirp(al) = {}
    BY <1>2, <1>6 DEF anchored
  <2>2. ASSUME NEW s \in Applied(al) PROVE al[s].lag = TrueLag[s] + c
    <3>1. al[s].lag = al[b].lag + (TrueLag[s] - TrueLag[b]) /\ TrueLag[s] \in Int
      BY <1>1, <1>4, <2>1, AppliedIsFinite, OffsetsAreSmall DEF OffsetFrom
    <3> QED
      BY <1>2, <3>1
  <2> HIDE DEF c
  <2> QED
    BY <2>1, <2>2
<1> QED
  BY <1>5, <1>6

\* The chirp's verdicts after the demotion of those that do not fit the domain.
LEMMA HitsAre ==
    ASSUME DomainInv, NEW scope, scope \subseteq loadedStreams,
           NEW hits, hits = demoteChirpHitsIntoContentDomain(chirpAlignPass(scope), scope)
    PROVE  /\ OkAl(hits)
           /\ \A s \in AlignStream \ scope : hits[s] = alignment[s]
           /\ \A s \in scope : hits[s].method = "chirp"
           /\ LET kept == Applied(alignment) \ scope
              IN  kept = {} \/ kept \cap ByChirp(alignment) # {} \/ Applied(hits) = kept
<1> DEFINE ch == chirpAlignPass(scope)
           kept == Applied(alignment) \ scope
           Miss == [lag |-> 0, applied |-> FALSE, method |-> "chirp"]
           Hit(s) == [lag |-> TrueLag[s] + sweepOf[s] * Interval, applied |-> TRUE, method |-> "chirp"]
           De(s) == [ch[s] EXCEPT !.applied = FALSE]
           de == [s \in AlignStream |-> IF s \in scope /\ ch[s].method = "chirp" THEN De(s) ELSE ch[s]]
<1>1. /\ OkAl(alignment) /\ loadedStreams \subseteq AlignStream /\ scope \subseteq AlignStream
      /\ \A s \in AlignStream : sweepOf[s] # NoSweep => sweepOf[s] \in Int
  BY AlignAssumption DEF DomainInv
<1>2. ch = [s \in AlignStream |-> IF s \notin scope THEN alignment[s]
                                  ELSE IF sweepOf[s] = NoSweep THEN Miss ELSE Hit(s)]
  BY DEF chirpAlignPass
<1> HIDE DEF ch
<1>3. ASSUME NEW s \in AlignStream, s \notin scope PROVE ch[s] = alignment[s]
  BY <1>2, <1>3
<1>4. ASSUME NEW s \in scope
      PROVE  /\ ch[s].method = "chirp" /\ ch[s] \in AlignVerdict
             /\ ch[s].applied => sweepOf[s] \in Int /\ sweepOf[s] # NoSweep
                                 /\ ch[s].lag = TrueLag[s] + sweepOf[s] * Interval
  <2>1. s \in AlignStream
    BY <1>1
  <2>2. CASE sweepOf[s] = NoSweep
    <3>1. ch[s] = Miss
      BY <1>2, <2>1, <2>2
    <3>2. Miss.method = "chirp" /\ Miss \in AlignVerdict /\ ~Miss.applied
      BY DEF AlignVerdict, AlignMethod
    <3> HIDE DEF Miss
    <3> QED
      BY <3>1, <3>2
  <2>3. CASE sweepOf[s] # NoSweep
    <3>1. ch[s] = Hit(s)
      BY <1>2, <2>1, <2>3
    <3>2. TrueLag[s] + sweepOf[s] * Interval \in Int /\ sweepOf[s] \in Int
      BY <1>1, <2>1, <2>3, OffsetsAreSmall, LagsWithinHalfInterval
    <3>3. Hit(s) \in AlignVerdict
      BY <3>2 DEF AlignVerdict, AlignMethod
    <3>4. Hit(s).method = "chirp" /\ Hit(s).lag = TrueLag[s] + sweepOf[s] * Interval
      OBVIOUS
    <3> HIDE DEF Hit
    <3> QED
      BY <2>3, <3>1, <3>2, <3>3, <3>4
  <2> QED
    BY <2>2, <2>3
<1>5. OkAl(ch)
  <2>1. ch \in [AlignStream -> AlignVerdict]
    <3>1. \A s \in AlignStream : ch[s] \in AlignVerdict
      BY <1>1, <1>3, <1>4 DEF OkAl
    <3> QED
      BY <1>2, <3>1
  <2> QED
    BY <1>1, <1>3, <1>4, <2>1 DEF OkAl
<1>6. Applied(ch) \ scope = kept /\ kept \cap ByChirp(ch) = kept \cap ByChirp(alignment)
  BY <1>1, <1>3 DEF Applied, ByChirp
<1>7. hits = IF kept = {} \/ kept \cap ByChirp(alignment) # {} THEN ch ELSE de
  BY <1>6 DEF demoteChirpHitsIntoContentDomain, ch
<1>8. CASE kept = {} \/ kept \cap ByChirp(alignment) # {}
  <2>1. hits = ch
    BY <1>7, <1>8
  <2> QED
    BY <1>3, <1>4, <1>5, <1>8, <2>1
<1>9. CASE ~(kept = {} \/ kept \cap ByChirp(alignment) # {})
  <2>1. hits = de
    BY <1>7, <1>9
  <2>2. ASSUME NEW s \in scope
        PROVE  hits[s] = De(s) /\ De(s).method = "chirp" /\ ~De(s).applied /\ De(s) \in AlignVerdict
    <3> DEFINE no == FALSE
               x == ch[s]
               y == [x EXCEPT !.applied = no]
    <3>1. hits[s] = De(s)
      <4> HIDE DEF De
      <4> QED
        BY <1>1, <1>4, <2>1
    <3>2. x \in AlignVerdict /\ x.method = "chirp" /\ no \in BOOLEAN
      BY <1>4
    <3>3. De(s) = y
      OBVIOUS
    <3> HIDE DEF no, x
    <3>4. y.method = "chirp" /\ y.applied = no /\ y \in AlignVerdict
      BY <3>2 DEF AlignVerdict
    <3> HIDE DEF De, y
    <3> QED
      BY <3>1, <3>3, <3>4 DEF no
  <2>3. ASSUME NEW s \in AlignStream, s \notin scope PROVE hits[s] = alignment[s]
    BY <1>3, <2>1, <2>3
  <2>4. hits \in [AlignStream -> AlignVerdict]
    <3>1. \A s \in AlignStream : hits[s] \in AlignVerdict
      <4> HIDE DEF De
      <4> QED
        BY <1>1, <2>2, <2>3 DEF OkAl
    <3> HIDE DEF De
    <3> QED
      BY <2>1, <3>1
  <2> HIDE DEF De
  <2>5. OkAl(hits)
    BY <1>1, <2>2, <2>3, <2>4 DEF OkAl
  <2>6. Applied(hits) = kept
    BY <1>1, <2>2, <2>3 DEF Applied
  <2> QED
    BY <2>2, <2>3, <2>5, <2>6
<1> QED
  BY <1>8, <1>9

\* Before content is placed, the lags are aligned: in a whole run, or with one
\* sweep for all.
LEMMA HitsAreAligned ==
    ASSUME DomainInv, NEW scope, scope \subseteq loadedStreams,
           NEW hits, hits = demoteChirpHitsIntoContentDomain(chirpAlignPass(scope), scope),
           OneSweep \/ scope = loadedStreams
    PROVE  Applied(hits) = {} \/ Aligned(hits)
<1> DEFINE kept == Applied(alignment) \ scope
<1>1. /\ OkAl(hits) /\ OkAl(alignment) /\ loadedStreams \subseteq AlignStream
      /\ \A s \in AlignStream \ scope : hits[s] = alignment[s]
      /\ \A s \in scope : hits[s].method = "chirp"
      /\ kept = {} \/ kept \cap ByChirp(alignment) # {} \/ Applied(hits) = kept
  BY HitsAre DEF DomainInv
<1>2. Applied(hits) \ scope = kept /\ \A s \in Applied(hits) \cap scope : s \in ByChirp(hits)
  BY <1>1 DEF Applied, ByChirp
<1> SUFFICES ASSUME Applied(hits) # {} PROVE Aligned(hits)
  OBVIOUS
<1>3. CASE kept = {}
  <2>1. Applied(hits) \subseteq ByChirp(hits)
    BY <1>2, <1>3
  <2> QED
    BY <1>1, <2>1, ChirpsAreAligned
<1>4. CASE kept # {}
  <2>1. OneSweep
    BY <1>4 DEF Applied
  <2>2. Aligned(alignment)
    BY <1>4, <2>1 DEF DomainInv
  <2>3. PICK c \in Int : /\ \A s \in Applied(alignment) : alignment[s].lag = TrueLag[s] + c
                         /\ \A s \in ByChirp(alignment) : c = sweepOf[s] * Interval
    BY <1>1, <2>1, <2>2, AlignedIsShift
  <2>4. ASSUME NEW s \in Applied(hits) PROVE hits[s].lag = TrueLag[s] + c
    <3>1. CASE s \in kept
      BY <1>1, <2>3, <3>1 DEF Applied
    <3>2. CASE s \notin kept
      <4>1. s \in scope /\ s \in ByChirp(hits) /\ s \in AlignStream
        BY <1>1, <1>2, <3>2, AppliedIsFinite
      <4>2. hits[s].lag = TrueLag[s] + sweepOf[s] * Interval /\ sweepOf[s] # NoSweep
        BY <1>1, <4>1 DEF OkAl, ByChirp, Applied
      <4>3. PICK x \in kept : x \in ByChirp(alignment)
        BY <1>1, <1>4, <3>2
      <4>4. x \in AlignStream /\ sweepOf[x] # NoSweep /\ c = sweepOf[x] * Interval
        BY <1>1, <2>3, <4>3, AppliedIsFinite DEF OkAl, ByChirp, Applied
      <4>5. sweepOf[s] = sweepOf[x]
        BY <2>1, <4>1, <4>2, <4>4 DEF OneSweep
      <4> QED
        BY <4>2, <4>4, <4>5
    <3> QED
      BY <3>1, <3>2
  <2> QED
    BY <1>1, <2>4, ShiftIsAligned
<1> QED
  BY <1>3, <1>4

-----------------------------------------------------------------------------
(* The drift pass.                                                         *)

\* Every fit is the one for the reference and the trims in force, from the cache or
\* not.
LEMMA FitsAreInForce ==
    ASSUME CacheOK, NEW A \in SUBSET AlignStream, NEW d \in [A -> Nat],
           NEW m \in A, d[m] = 0, estimateDriftPass(d)
    PROVE  /\ CacheOK'
           /\ \E r \in DOMAIN d :
                 /\ drift'[r].isReference /\ d[r] = 0
                 /\ \A s \in DOMAIN d \ {r} : drift'[s] = DriftFit(s, r, d)
<1> DEFINE r == driftReference(d)
           fit == [s \in AlignStream |-> IF cacheHit(s, r, d) THEN driftCache[s] ELSE DriftFit(s, r, d)]
           fitted == DOMAIN d \ {r}
           Ref == [NoDrift EXCEPT !.isReference = TRUE]
<1>1. DOMAIN d = A /\ A # {}
  OBVIOUS
<1>2. r \in A /\ d[r] = 0
  <2>1. \A x \in A : d[x] \in Nat
    OBVIOUS
  <2>2. \A x \in A : d[m] <= d[x]
    BY <2>1
  <2>3. r \in A /\ \A x \in A : d[r] <= d[x]
    BY <1>1, <2>2 DEF driftReference
  <2> HIDE DEF r
  <2>4. d[r] <= d[m]
    BY <2>3
  <2> QED
    BY <2>1, <2>3, <2>4
<1>3. /\ drift' = [s \in AlignStream |-> IF s \in fitted THEN fit[s] ELSE IF s = r THEN Ref ELSE drift[s]]
      /\ driftCache' = [s \in AlignStream |-> IF s \in fitted THEN fit[s] ELSE driftCache[s]]
  BY <1>1 DEF estimateDriftPass
<1> HIDE DEF r
<1>4. ASSUME NEW s \in AlignStream PROVE fit[s] = DriftFit(s, r, d)
  <2>1. CASE cacheHit(s, r, d)
    <3>1. driftCache[s] = [ref |-> driftCache[s].ref, refDelta |-> driftCache[s].refDelta,
                           delta |-> driftCache[s].delta, isReference |-> FALSE]
      BY DEF CacheOK
    <3>2. driftCache[s].ref = r /\ driftCache[s].refDelta = d[r] /\ driftCache[s].delta = d[s]
      BY <2>1 DEF cacheHit
    <3> QED
      BY <2>1, <3>1, <3>2 DEF DriftFit
  <2>2. CASE ~cacheHit(s, r, d)
    BY <2>2
  <2> QED
    BY <2>1, <2>2
<1> HIDE DEF fit
<1>5. \A s \in fitted : drift'[s] = DriftFit(s, r, d)
  <2> SUFFICES ASSUME NEW s \in fitted PROVE drift'[s] = DriftFit(s, r, d)
    OBVIOUS
  <2>1. s \in AlignStream /\ drift'[s] = fit[s]
    BY <1>1, <1>3
  <2> QED
    BY <1>4, <2>1
<1>6. drift'[r].isReference
  <2>1. drift'[r] = Ref
    <3> HIDE DEF Ref
    <3> QED
      BY <1>2, <1>3
  <2>2. Ref.isReference
    BY DEF NoDrift
  <2> HIDE DEF Ref
  <2> QED
    BY <2>1, <2>2
<1>7. CacheOK'
  <2> DEFINE Same(c) == c = [ref |-> c.ref, refDelta |-> c.refDelta, delta |-> c.delta, isReference |-> FALSE]
  <2>1. \A s \in AlignStream : driftCache'[s] = IF s \in fitted THEN fit[s] ELSE driftCache[s]
    BY <1>3
  <2>2. \A s \in AlignStream : Same(fit[s])
    <3> SUFFICES ASSUME NEW s \in AlignStream PROVE Same(fit[s])
      OBVIOUS
    <3>1. Same(DriftFit(s, r, d))
      BY DEF DriftFit
    <3> HIDE DEF Same
    <3> QED
      BY <1>4, <3>1
  <2>3. \A s \in AlignStream : Same(driftCache[s])
    BY DEF CacheOK
  <2> HIDE DEF Same
  <2>4. \A s \in AlignStream : Same(driftCache'[s])
    BY <2>1, <2>2, <2>3
  <2> QED
    BY <2>4 DEF CacheOK, Same
<1> QED
  BY <1>1, <1>2, <1>5, <1>6, <1>7

-----------------------------------------------------------------------------
(* The steps.                                                              *)

\* What the verdicts say is said of them after the step too, if the same ones apply.
LEMMA NextVerdicts ==
    ASSUME NEW be, alignment' = be, sweepOf' = sweepOf, {s \in loadedStreams' : be[s].applied} = Applied(be)
    PROVE  /\ OkAl(alignment)' <=> OkAl(be)
           /\ Applied(alignment)' = Applied(be)
           /\ Aligned(alignment)' <=> Aligned(be)
           /\ alignDeltas' = normalizeAlignDeltas(be)
<1>1. Applied(alignment)' = Applied(be)
  BY DEF Applied
<1>2. ByChirp(alignment)' = ByChirp(be)
  BY <1>1 DEF ByChirp
<1>3. anchored(alignment)' = anchored(be)
  BY <1>1, <1>2 DEF anchored
<1>4. lagBase(alignment)' = lagBase(be)
  BY <1>3 DEF lagBase
<1>5. Aligned(alignment)' <=> Aligned(be)
  BY <1>1, <1>3 DEF Aligned, OffsetFrom
<1>6. alignDeltas' = normalizeAlignDeltas(be)
  BY <1>1, <1>4 DEF alignDeltas, normalizeAlignDeltas
<1>7. OkAl(alignment)' <=> OkAl(be)
  BY DEF OkAl
<1> QED
  BY <1>1, <1>5, <1>6, <1>7

LEMMA RunKeepsDomain ==
    ASSUME DomainInv, NEW asked, AlignRun(asked)
    PROVE  DomainInv'
<1> DEFINE scope == effectiveScope(asked)
           hits == demoteChirpHitsIntoContentDomain(chirpAlignPass(scope), scope)
           al == contentAlignPass(hits, scope)
           d == normalizeAlignDeltas(al)
<1>1. /\ alignment' = al /\ estimateDriftPass(d) /\ lastWhole' = (scope = loadedStreams)
      /\ loadedStreams' = loadedStreams /\ sweepOf' = sweepOf
  BY DEF AlignRun
<1>2. scope \subseteq loadedStreams /\ scope # {} /\ loadedStreams \subseteq AlignStream
  BY DEF AlignRun, effectiveScope, DomainInv
<1> HIDE DEF scope
<1>3. OkAl(hits) /\ (OneSweep \/ scope = loadedStreams => Applied(hits) = {} \/ Aligned(hits))
  BY <1>2, HitsAre, HitsAreAligned
<1> HIDE DEF hits
<1>4. OkAl(al) /\ (OneSweep \/ scope = loadedStreams => Applied(al) = {} \/ Aligned(al))
  <2>1. CASE al = hits
    BY <1>3, <2>1
  <2>2. CASE al # hits
    <3> HIDE DEF al
    <3>1. PICK P, r, v : Placed(hits, al, P, r, v)
      BY <1>2, <1>3, <2>2, ContentPlaces DEF al
    <3> QED
      BY <1>2, <1>3, <3>1, PlacedShape, PlacedKeepsAligned
  <2> QED
    BY <2>1, <2>2
<1> HIDE DEF al
<1>5. /\ OkAl(alignment)' /\ alignDeltas' = d
      /\ (OneSweep \/ scope = loadedStreams => Applied(alignment)' = {} \/ Aligned(alignment)')
  <2>1. {s \in loadedStreams' : al[s].applied} = Applied(al)
    BY <1>1 DEF Applied
  <2> QED
    BY <1>1, <1>4, <2>1, NextVerdicts
<1>6. (OneSweep \/ (Complete /\ lastWhole))' => Applied(alignment)' = {} \/ Aligned(alignment)'
  BY <1>1, <1>5 DEF OneSweep
<1>7. CacheOK' /\ DriftInForce'
  <2>1. CASE d = [s \in {} |-> 0]
    <3>1. DOMAIN d = {}
      BY <2>1
    <3>2. driftCache' = driftCache
      BY <1>1, <3>1 DEF estimateDriftPass
    <3> HIDE DEF d
    <3> QED
      BY <1>5, <2>1, <3>2 DEF CacheOK, DriftInForce, DomainInv
  <2>2. CASE d \in [Applied(al) -> Nat] /\ \E m \in Applied(al) : d[m] = 0
    <3>1. PICK m \in Applied(al) : d[m] = 0
      BY <2>2
    <3>2. Applied(al) \subseteq AlignStream /\ CacheOK
      BY <1>2, <1>4, AppliedIsFinite DEF DomainInv
    <3> HIDE DEF d
    <3>3. /\ CacheOK'
          /\ \E r \in DOMAIN d :
                 /\ drift'[r].isReference /\ d[r] = 0
                 /\ \A s \in DOMAIN d \ {r} : drift'[s] = DriftFit(s, r, d)
      BY <1>1, <2>2, <3>1, <3>2, FitsAreInForce
    <3>4. DriftInForce'
      BY <1>5, <3>3 DEF DriftInForce
    <3> QED
      BY <3>3, <3>4
  <2> QED
    BY <1>2, <1>4, <2>1, <2>2, DeltasAre
<1> QED
  BY <1>1, <1>2, <1>5, <1>6, <1>7 DEF DomainInv

LEMMA RemovalKeepsDomain ==
    ASSUME DomainInv, NEW s \in AlignStream, RemoveAligned(s)
    PROVE  DomainInv'
<1> DEFINE be == [alignment EXCEPT ![s] = NotMeasured]
<1>1. /\ alignment' = be /\ loadedStreams' = loadedStreams \ {s} /\ s \in loadedStreams
      /\ sweepOf' = sweepOf /\ driftCache' = driftCache
      /\ OkAl(alignment) /\ loadedStreams \subseteq AlignStream
  BY DEF RemoveAligned, DomainInv
<1>2. /\ be \in [AlignStream -> AlignVerdict] /\ ~be[s].applied
      /\ \A x \in AlignStream \ {s} : be[x] = alignment[x]
  <2>1. NotMeasured \in AlignVerdict /\ ~NotMeasured.applied
    BY DEF NotMeasured, AlignVerdict, AlignMethod
  <2> QED
    BY <1>1, <2>1 DEF OkAl
<1> HIDE DEF be
<1>3. OkAl(be)
  BY <1>1, <1>2 DEF OkAl
<1>4. Applied(be) = Applied(alignment) \ {s} /\ {x \in loadedStreams' : be[x].applied} = Applied(be)
  BY <1>1, <1>2 DEF Applied
<1>5. ASSUME OneSweep PROVE Applied(be) = {} \/ Aligned(be)
  <2> SUFFICES ASSUME Applied(be) # {} PROVE Aligned(be)
    OBVIOUS
  <2>1. Aligned(alignment)
    BY <1>4, <1>5 DEF DomainInv
  <2>2. PICK c \in Int : \A x \in Applied(alignment) : alignment[x].lag = TrueLag[x] + c
    BY <1>1, <1>5, <2>1, AlignedIsShift
  <2>3. \A x \in Applied(be) : be[x].lag = TrueLag[x] + c
    BY <1>1, <1>2, <1>4, <2>2, AppliedIsFinite
  <2> QED
    BY <1>1, <1>3, <2>3, ShiftIsAligned
<1>6. ~Complete'
  BY <1>1 DEF Complete
<1>7. OkAl(alignment)' /\ (OneSweep' => Applied(alignment)' = {} \/ Aligned(alignment)')
  <2>1. OneSweep' <=> OneSweep
    BY <1>1 DEF OneSweep
  <2> QED
    BY <1>1, <1>3, <1>4, <1>5, <2>1, NextVerdicts
<1>8. CacheOK' /\ DriftInForce'
  BY <1>1, <1>6 DEF CacheOK, DriftInForce, DomainInv
<1> QED
  BY <1>1, <1>6, <1>7, <1>8 DEF DomainInv

LEMMA DomainInitIsGood ==
    ASSUME AlignInit PROVE DomainInv
<1>1. OkAl(alignment) /\ Applied(alignment) = {}
  BY DEF AlignInit, OkAl, Applied, NotMeasured, AlignVerdict, AlignMethod
<1>2. sweepOf \in [AlignStream -> Sweep \cup {NoSweep}] /\ loadedStreams \subseteq AlignStream
  BY AlignAssumption DEF AlignInit
<1>3. CacheOK
  BY DEF AlignInit, CacheOK, NoDrift
<1>4. DriftInForce
  <2>1. alignDeltas = [s \in {} |-> 0]
    BY <1>1, <1>2, DeltasAre DEF alignDeltas
  <2> QED
    BY <2>1 DEF DriftInForce
<1> QED
  BY <1>1, <1>2, <1>3, <1>4 DEF DomainInv

LEMMA DomainStep ==
    ASSUME DomainInv, [AlignNext]_alignVars PROVE DomainInv'
<1>1. CASE AlignNext
  BY <1>1, RunKeepsDomain, RemovalKeepsDomain DEF AlignNext
<1>2. CASE UNCHANGED alignVars
  <2>1. {s \in loadedStreams' : alignment[s].applied} = Applied(alignment)
    BY <1>2 DEF alignVars, Applied
  <2>2. /\ OkAl(alignment)' <=> OkAl(alignment)
        /\ Applied(alignment)' = Applied(alignment)
        /\ Aligned(alignment)' <=> Aligned(alignment)
        /\ alignDeltas' = alignDeltas
    BY <1>2, <2>1, NextVerdicts DEF alignVars, alignDeltas
  <2>3. /\ drift' = drift /\ driftCache' = driftCache /\ loadedStreams' = loadedStreams
        /\ sweepOf' = sweepOf /\ lastWhole' = lastWhole
    BY <1>2 DEF alignVars
  <2>4. DriftInForce' <=> DriftInForce
    BY <2>2, <2>3 DEF DriftInForce, Complete
  <2> QED
    BY <2>2, <2>3, <2>4 DEF DomainInv, OneSweep, Complete, CacheOK
<1> QED
  BY <1>1, <1>2

LEMMA DomainGivesTimeBase ==
    ASSUME DomainInv PROVE OneTimeBase
<1>1. OkAl(alignment) /\ loadedStreams \subseteq AlignStream
  BY DEF DomainInv
<1>2. AlignTypeOK
  <2>1. \A s \in AlignStream : alignment[s].method \in {"none", "chirp", "content"}
    BY <1>1 DEF OkAl, AlignVerdict, AlignMethod
  <2>2. \/ alignDeltas = [s \in {} |-> 0]
        \/ /\ alignDeltas \in [Applied(alignment) -> Nat]
           /\ \E m \in Applied(alignment) : alignDeltas[m] = 0
    BY <1>1, DeltasAre DEF alignDeltas
  <2> QED
    BY <2>1, <2>2 DEF AlignTypeOK
<1>3. ResidualZero
  <2> SUFFICES ASSUME OneSweep \/ (Complete /\ lastWhole) PROVE TrueOffsets
    BY DEF ResidualZero
  <2>1. Applied(alignment) = {} \/ Aligned(alignment)
    BY DEF DomainInv
  <2> QED
    BY <1>1, <2>1, AlignedIsTrue DEF TrueOffsets, alignDeltas
<1> QED
  BY <1>2, <1>3 DEF OneTimeBase, DomainInv

\* The applied streams share one time base, in offset and in drift, whichever runs
\* placed them and in which order (player-align.ts).
THEOREM TimeBaseIsOne == AlignSpec => []OneTimeBase
<1>1. AlignInit => DomainInv
  BY DomainInitIsGood
<1>2. DomainInv /\ [AlignNext]_alignVars => DomainInv'
  BY DomainStep
<1>3. DomainInv => OneTimeBase
  BY DomainGivesTimeBase
<1> QED
  BY <1>1, <1>2, <1>3, PTL DEF AlignSpec

-----------------------------------------------------------------------------
(***************************************************************************)
(* MIDI takes (DeskMidi).                                                  *)
(***************************************************************************)
MidiFile == [is : {"absent", "doc", "husk"}, events : SUBSET Nat]
Shown == [is : {"absent", "doc", "placeholder"}, events : SUBSET Nat]
QueuedOp == [op : {"save", "remove"}, take : AnyTake]

\* The queue of writes: a save of t is in it, is in it behind the head, and a
\* removal of t is in it that no save of t follows.
Queued(q, t) == \E i \in 1..Len(q) : q[i].op = "save" /\ q[i].take = t
QueuedBehind(q, t) == \E i \in 2..Len(q) : q[i].op = "save" /\ q[i].take = t
Erasing(q, t) ==
    \E i \in 1..Len(q) :
        /\ q[i].op = "remove" /\ q[i].take = t
        /\ \A j \in 1..Len(q) : j > i => ~(q[j].op = "save" /\ q[j].take = t)

\* A write of t is still to begin.
Pending(t) ==
    \/ timer = TRUE /\ capture = t
    \/ IF saving = NoSave THEN Queued(chain, t) ELSE QueuedBehind(chain, t)

\* What is captured of t is in the write under way, or in the file, or a write failed.
Covered(t) ==
    IF saving.take = t THEN buffer[t] \subseteq saving.events
    ELSE buffer[t] \subseteq store.file[t].events \/ t \in unsaved

MidiTypes ==
    /\ store \in [kind : {"opfs", "local"}, file : [AnyTake -> MidiFile], legacy : [AnyTake -> MidiFile]]
    /\ rolled \subseteq MidiTake /\ {live, view, capture} \subseteq MidiTake \cup {NoMidiTake}
    /\ played \in [AnyTake -> Nat] /\ buffer \in [AnyTake -> SUBSET Nat] /\ timer \in BOOLEAN
    /\ chain \in Seq(QueuedOp)
    /\ saving \in [take : AnyTake \cup {NoMidiTake}, events : SUBSET Nat]
    /\ cache \in [AnyTake -> Shown]
    /\ hydrating \in [AnyTake -> [phase : {"none", "reading", "moving"}, events : SUBSET Nat]]
    /\ deleted \subseteq AnyTake
    /\ hurt \in [AnyTake -> SUBSET {"switched", "tail", "raced", "reloaded"}]

\* The page captures the take it knows to roll, through an armed input; neither is
\* a deleted one.
CaptureOK ==
    /\ {live, view} \subseteq rolled \cup {NoMidiTake}
    /\ capture # NoMidiTake => capture = view /\ lane = "live"
    /\ {live, view} \cap deleted = {} /\ deleted \subseteq rolled \cup OldTake

\* Only takes that rolled are saved, only deleted ones removed.
QueueOK ==
    /\ Len(chain) <= MaxChain
    /\ saving = NoSave \/ (saving.take \in MidiTake /\ chain # <<>>
                           /\ Head(chain).op = "save" /\ Head(chain).take = saving.take)
    /\ \A i \in 1..Len(chain) : IF chain[i].op = "save" THEN chain[i].take \in MidiTake
                                                     ELSE chain[i].take \in deleted

\* Nothing holds what was not played.
EventsOK ==
    /\ \A t \in AnyTake : buffer[t] \subseteq 1..played[t]
    /\ saving.take # NoMidiTake => saving.events \subseteq 1..played[saving.take]
    /\ \A t \in MidiTake : /\ store.file[t].events \subseteq 1..played[t]
                           /\ store.legacy[t] = Absent
                           /\ store.kind = "local" => Cardinality(buffer[t]) <= MidiCap
    /\ \A t \in OldTake : played[t] = 0 /\ store.file[t].events \subseteq Old
    /\ \A t \in AnyTake : store.file[t].is # "doc" => store.file[t].events = {}

\* An old document moves as a whole.
MoveOK ==
    /\ \A t \in OldTake : store.legacy[t] \in {Absent, Doc(Old)}
    /\ \A t \in OldTake \ deleted : store.file[t] = Doc(Old) \/ store.legacy[t] = Doc(Old)
    /\ \A t \in AnyTake : hydrating[t].phase = "moving" => t \in OldTake /\ hydrating[t].events = Old

\* Each rewrite of a take holds what its file held.
Growing(t) ==
    /\ capture = t \/ Queued(chain, t) => store.file[t].events \subseteq buffer[t]
    /\ saving.take = t => store.file[t].events \subseteq saving.events /\ saving.events \subseteq buffer[t]

GrowOK == \A t \in MidiTake \ deleted : "tail" \notin hurt[t] => Growing(t)
SavedOK == \A t \in AnyTake \ deleted : "switched" \notin hurt[t] => Pending(t) \/ Covered(t)

\* A deleted take is erased, or its removal is queued behind every write of it.
Erased(t) ==
    /\ store.legacy[t] = Absent /\ hydrating[t] = Idle
    /\ Erasing(chain, t) \/ (store.file[t].events = {} /\ ~Queued(chain, t))
ErasedOK == \A t \in deleted : hurt[t] \cap {"raced", "reloaded"} = {} => Erased(t)

MidiInv ==
    /\ MidiTypes /\ CaptureOK /\ QueueOK /\ EventsOK /\ MoveOK
    /\ GrowOK /\ SavedOK /\ ErasedOK /\ FinishedIsShown

-----------------------------------------------------------------------------
(* The queue of writes.                                                    *)

\* Another request at the end.
LEMMA MoreQueued ==
    ASSUME NEW q \in Seq(QueuedOp), NEW w \in QueuedOp, NEW t
    PROVE  LET r == Append(q, w) IN
           /\ r \in Seq(QueuedOp) /\ Len(r) = Len(q) + 1 /\ r # <<>> /\ (q # <<>> => Head(r) = Head(q))
           /\ Queued(q, t) => Queued(r, t)
           /\ QueuedBehind(q, t) => QueuedBehind(r, t)
           /\ Queued(r, t) => Queued(q, t) \/ (w.op = "save" /\ w.take = t)
           /\ w.op = "save" /\ w.take = t => Queued(r, t) /\ (q # <<>> => QueuedBehind(r, t))
           /\ Erasing(q, t) /\ ~(w.op = "save" /\ w.take = t) => Erasing(r, t)
           /\ w.op = "remove" /\ w.take = t => Erasing(r, t)
<1> DEFINE r == Append(q, w)
<1>1. /\ r \in Seq(QueuedOp) /\ Len(r) = Len(q) + 1 /\ Len(q) \in Nat /\ r # <<>>
      /\ \A i \in 1..Len(q) : r[i] = q[i]
      /\ r[Len(r)] = w
  OBVIOUS
<1>2. q # <<>> => Head(r) = Head(q) /\ Len(q) >= 1
  OBVIOUS
<1>h. w.op # "save" \/ w.op # "remove"
  OBVIOUS
<1> HIDE DEF r
<1>3. Queued(q, t) => Queued(r, t)
  BY <1>1 DEF Queued
<1>4. QueuedBehind(q, t) => QueuedBehind(r, t)
  BY <1>1 DEF QueuedBehind
<1>5. Queued(r, t) => Queued(q, t) \/ (w.op = "save" /\ w.take = t)
  <2> SUFFICES ASSUME NEW i \in 1..Len(r), r[i].op = "save", r[i].take = t
               PROVE  Queued(q, t) \/ (w.op = "save" /\ w.take = t)
    BY DEF Queued
  <2>1. CASE i = Len(r)
    BY <2>1, <1>1
  <2>2. CASE i # Len(r)
    BY <2>2, <1>1 DEF Queued
  <2> QED
    BY <2>1, <2>2
<1>6. w.op = "save" /\ w.take = t => Queued(r, t) /\ (q # <<>> => QueuedBehind(r, t))
  <2> SUFFICES ASSUME w.op = "save", w.take = t PROVE Queued(r, t) /\ (q # <<>> => QueuedBehind(r, t))
    OBVIOUS
  <2>1. Len(r) \in 1..Len(r) /\ (q # <<>> => Len(r) \in 2..Len(r))
    BY <1>1, <1>2
  <2> QED
    BY <2>1, <1>1 DEF Queued, QueuedBehind
<1>7. Erasing(q, t) /\ ~(w.op = "save" /\ w.take = t) => Erasing(r, t)
  <2> SUFFICES ASSUME ~(w.op = "save" /\ w.take = t), Erasing(q, t) PROVE Erasing(r, t)
    OBVIOUS
  <2>1. PICK i \in 1..Len(q) :
            /\ q[i].op = "remove" /\ q[i].take = t
            /\ \A j \in 1..Len(q) : j > i => ~(q[j].op = "save" /\ q[j].take = t)
    BY DEF Erasing
  <2>2. \A j \in 1..Len(r) : j \in 1..Len(q) \/ j = Len(r)
    BY <1>1
  <2>3. \A j \in 1..Len(r) : j > i => ~(r[j].op = "save" /\ r[j].take = t)
    BY <1>1, <2>1, <2>2
  <2>4. i \in 1..Len(r)
    BY <1>1
  <2> QED
    BY <1>1, <2>1, <2>3, <2>4 DEF Erasing
<1>8. w.op = "remove" /\ w.take = t => Erasing(r, t)
  <2>1. Len(r) \in 1..Len(r) /\ \A j \in 1..Len(r) : ~(j > Len(r))
    BY <1>1
  <2> QED
    BY <2>1, <1>1 DEF Erasing
<1> QED
  BY <1>1, <1>2, <1>3, <1>4, <1>5, <1>6, <1>7, <1>8 DEF r

\* The head is done.
LEMMA HeadDone ==
    ASSUME NEW q \in Seq(QueuedOp), q # <<>>, NEW t
    PROVE  /\ Tail(q) \in Seq(QueuedOp) /\ Len(Tail(q)) = Len(q) - 1 /\ Len(q) \in Nat \ {0}
           /\ Head(q) \in QueuedOp /\ Head(q) = q[1]
           /\ \A i \in 1..Len(Tail(q)) : i + 1 \in 1..Len(q) /\ Tail(q)[i] = q[i + 1]
           /\ Queued(Tail(q), t) <=> QueuedBehind(q, t)
           /\ QueuedBehind(q, t) => Queued(q, t)
           /\ Queued(q, t) => QueuedBehind(q, t) \/ (Head(q).op = "save" /\ Head(q).take = t)
           /\ Head(q).op = "save" /\ Head(q).take = t => Queued(q, t)
           /\ Erasing(q, t) => Erasing(Tail(q), t)
                               \/ (Head(q).op = "remove" /\ Head(q).take = t /\ ~Queued(Tail(q), t))
<1> DEFINE r == Tail(q)
<1>1. /\ r \in Seq(QueuedOp) /\ Len(r) = Len(q) - 1 /\ Len(q) \in Nat \ {0}
      /\ Head(q) = q[1] /\ q[1] \in QueuedOp
      /\ \A i \in 1..Len(r) : i + 1 \in 1..Len(q) /\ r[i] = q[i + 1]
  OBVIOUS
<1> HIDE DEF r
<1>2. \A i \in 2..Len(q) : i - 1 \in 1..Len(r) /\ (i - 1) + 1 = i /\ r[i - 1] = q[i] /\ i \in 1..Len(q)
  BY <1>1
<1>3. \A i \in 1..Len(r) : i + 1 \in 2..Len(q)
  BY <1>1
<1>4. Queued(r, t) <=> QueuedBehind(q, t)
  BY <1>1, <1>2, <1>3 DEF Queued, QueuedBehind
<1>5. QueuedBehind(q, t) => Queued(q, t)
  BY <1>2 DEF Queued, QueuedBehind
<1>6. Queued(q, t) => QueuedBehind(q, t) \/ (Head(q).op = "save" /\ Head(q).take = t)
  <2>1. \A i \in 1..Len(q) : i = 1 \/ i \in 2..Len(q)
    BY <1>1
  <2> QED
    BY <2>1, <1>1 DEF Queued, QueuedBehind
<1>7. Head(q).op = "save" /\ Head(q).take = t => Queued(q, t)
  <2>1. 1 \in 1..Len(q)
    BY <1>1
  <2> QED
    BY <2>1, <1>1 DEF Queued
<1>8. Erasing(q, t) => Erasing(r, t) \/ (Head(q).op = "remove" /\ Head(q).take = t /\ ~Queued(r, t))
  <2> SUFFICES ASSUME NEW i \in 1..Len(q), q[i].op = "remove", q[i].take = t,
                      \A j \in 1..Len(q) : j > i => ~(q[j].op = "save" /\ q[j].take = t)
               PROVE  Erasing(r, t) \/ (Head(q).op = "remove" /\ Head(q).take = t /\ ~Queued(r, t))
    BY DEF Erasing
  <2>1. CASE i = 1
    <3>1. \A j \in 1..Len(r) : j + 1 \in 1..Len(q) /\ j + 1 > i
      BY <1>1, <2>1
    <3>2. ~Queued(r, t)
      BY <3>1, <1>1 DEF Queued
    <3> QED
      BY <3>2, <2>1, <1>1
  <2>2. CASE i # 1
    <3>1. i \in 2..Len(q)
      BY <2>2
    <3>2. \A j \in 1..Len(r) : j > i - 1 => j + 1 \in 1..Len(q) /\ j + 1 > i
      BY <1>1
    <3>3. \A j \in 1..Len(r) : j > i - 1 => ~(r[j].op = "save" /\ r[j].take = t)
      BY <3>2, <1>1
    <3> QED
      BY <3>1, <3>3, <1>2 DEF Erasing
  <2> QED
    BY <2>1, <2>2
<1> QED
  BY <1>1, <1>4, <1>5, <1>6, <1>7, <1>8 DEF r

\* Nothing is queued in an empty queue.
LEMMA NoneQueued ==
    ASSUME NEW t PROVE ~Queued(<<>>, t) /\ ~QueuedBehind(<<>>, t)
<1>1. Len(<<>>) = 0
  OBVIOUS
<1> QED
  BY <1>1 DEF Queued, QueuedBehind

-----------------------------------------------------------------------------
(* The steps.                                                              *)

LEMMA MidiStarts == MidiInit => MidiInv
<1> SUFFICES ASSUME MidiInit PROVE MidiInv
  OBVIOUS
<1> USE MidiAssumption
<1>1. /\ live = NoMidiTake /\ rolled = {} /\ played = [t \in AnyTake |-> 0]
      /\ view = NoMidiTake /\ lane = "off" /\ capture = NoMidiTake /\ timer = FALSE
      /\ buffer = [t \in AnyTake |-> {}] /\ chain = <<>> /\ saving = NoSave
      /\ cache = [t \in AnyTake |-> Absent] /\ hydrating = [t \in AnyTake |-> Idle]
      /\ deleted = {} /\ unsaved = {} /\ hurt = [t \in AnyTake |-> {}]
  BY DEF MidiInit, FreshPage
<1>2. PICK k \in {"opfs", "local"} :
         store = [kind |-> k,
                  file |-> [t \in AnyTake |-> IF k = "local" /\ t \in OldTake THEN Doc(Old) ELSE Absent],
                  legacy |-> [t \in AnyTake |-> IF k = "opfs" /\ t \in OldTake THEN Doc(Old) ELSE Absent]]
  BY DEF MidiInit
<1>3. Absent \in MidiFile /\ Doc(Old) \in MidiFile /\ Absent \in Shown
  BY DEF Absent, Doc, Old, MidiFile, Shown
<1>4. /\ store.kind = k
      /\ \A t \in AnyTake : /\ store.file[t] = IF k = "local" /\ t \in OldTake THEN Doc(Old) ELSE Absent
                            /\ store.legacy[t] = IF k = "opfs" /\ t \in OldTake THEN Doc(Old) ELSE Absent
  BY <1>2
<1>5. MidiTypes
  <2>1. store \in [kind : {"opfs", "local"}, file : [AnyTake -> MidiFile], legacy : [AnyTake -> MidiFile]]
    BY <1>2, <1>3
  <2>2. chain \in Seq(QueuedOp) /\ saving \in [take : AnyTake \cup {NoMidiTake}, events : SUBSET Nat]
    BY <1>1 DEF NoSave
  <2>3. /\ hydrating \in [AnyTake -> [phase : {"none", "reading", "moving"}, events : SUBSET Nat]]
        /\ cache \in [AnyTake -> Shown]
    BY <1>1, <1>3 DEF Idle
  <2> QED
    BY <1>1, <2>1, <2>2, <2>3 DEF MidiTypes, AnyTake
<1>6. CaptureOK
  BY <1>1 DEF CaptureOK
<1>7. QueueOK
  BY <1>1 DEF QueueOK
<1>8. EventsOK
  <2>1. saving.take = NoMidiTake
    BY <1>1 DEF NoSave
  <2>2. \A t \in AnyTake : buffer[t] = {} /\ played[t] = 0
    BY <1>1
  <2>3. \A t \in AnyTake : Cardinality(buffer[t]) = 0
    BY <2>2, FS_EmptySet
  <2>4. \A t \in AnyTake : store.file[t].is # "doc" => store.file[t].events = {}
    BY <1>4 DEF Absent, Doc
  <2>5. \A t \in MidiTake : store.file[t] = Absent /\ store.legacy[t] = Absent /\ t \in AnyTake
    BY <1>4 DEF AnyTake
  <2>6. \A t \in OldTake : store.file[t].events \subseteq Old /\ t \in AnyTake
    BY <1>4 DEF AnyTake, Absent, Doc
  <2> QED
    BY <2>1, <2>2, <2>3, <2>4, <2>5, <2>6 DEF EventsOK, Absent
<1>9. MoveOK
  <2>1. \A t \in OldTake : t \in AnyTake
    BY DEF AnyTake
  <2>2. \A t \in AnyTake : hydrating[t].phase # "moving"
    BY <1>1 DEF Idle
  <2> QED
    BY <1>4, <2>1, <2>2 DEF MoveOK
<1>10. GrowOK /\ SavedOK /\ FinishedIsShown
  <2>1. \A t \in AnyTake : buffer[t] = {} /\ ~Queued(chain, t) /\ saving.take # t /\ capture # t
    BY <1>1, NoneQueued DEF NoSave, AnyTake
  <2> QED
    BY <2>1, <1>1 DEF GrowOK, Growing, SavedOK, Covered, FinishedIsShown, AnyTake
<1>11. ErasedOK
  BY <1>1 DEF ErasedOK
<1> QED
  BY <1>5, <1>6, <1>7, <1>8, <1>9, <1>10, <1>11 DEF MidiInv

\* The server's side of a take, and the input card.
LEMMA TakeLifeKeeps ==
    ASSUME MidiInv, (\E t \in MidiTake : TakeBegins(t)) \/ TakeEnds PROVE MidiInv'
<1> USE MidiAssumption
<1>1. UNCHANGED <<midiDisk, midiPage, midiHistory, played, view>>
  BY DEF TakeBegins, TakeEnds
<1>2. /\ rolled \subseteq rolled' /\ rolled' \subseteq MidiTake /\ live' \in rolled' \cup {NoMidiTake}
      /\ live' \notin deleted
  <2>1. CASE TakeEnds
    BY <2>1 DEF TakeEnds, MidiInv, MidiTypes, CaptureOK, AnyTake
  <2>2. CASE \E t \in MidiTake : TakeBegins(t)
    BY <2>2 DEF TakeBegins, MidiInv, MidiTypes, CaptureOK, AnyTake
  <2> QED
    BY <2>1, <2>2
<1>3. MidiTypes'
  BY <1>1, <1>2 DEF MidiInv, MidiTypes, midiDisk, midiPage, midiHistory
<1>4. CaptureOK'
  BY <1>1, <1>2 DEF MidiInv, MidiTypes, CaptureOK, midiDisk, midiPage, midiHistory, AnyTake
<1>5. QueueOK' /\ EventsOK' /\ MoveOK'
  BY <1>1 DEF MidiInv, QueueOK, EventsOK, MoveOK, midiDisk, midiPage, midiHistory
<1>6. GrowOK' /\ SavedOK' /\ FinishedIsShown'
  BY <1>1 DEF MidiInv, GrowOK, Growing, SavedOK, Pending, Covered, FinishedIsShown,
              midiDisk, midiPage, midiHistory
<1>7. ErasedOK'
  BY <1>1 DEF MidiInv, ErasedOK, Erased, midiDisk, midiPage, midiHistory
<1> QED
  BY <1>3, <1>4, <1>5, <1>6, <1>7 DEF MidiInv

LEMMA InputCardKeeps ==
    ASSUME MidiInv, OpenPicker \/ AccessAnswered \/ ChooseInput \/ disable PROVE MidiInv'
<1> USE MidiAssumption
<1>1. /\ UNCHANGED <<midiDisk, midiSession, midiHistory, capture, buffer, timer, chain, saving, cache, hydrating>>
      /\ lane = "live" => view = NoMidiTake
  BY DEF OpenPicker, AccessAnswered, ChooseInput, disable
<1>2. CaptureOK'
  BY <1>1 DEF MidiInv, CaptureOK, midiDisk, midiSession, midiHistory
<1>3. MidiTypes'
  BY <1>1 DEF MidiInv, MidiTypes, midiDisk, midiSession, midiHistory
<1>4. QueueOK' /\ EventsOK' /\ MoveOK'
  BY <1>1 DEF MidiInv, QueueOK, EventsOK, MoveOK, midiDisk, midiSession, midiHistory
<1>5. GrowOK' /\ SavedOK' /\ FinishedIsShown'
  BY <1>1 DEF MidiInv, GrowOK, Growing, SavedOK, Pending, Covered, FinishedIsShown,
              midiDisk, midiSession, midiHistory
<1>6. ErasedOK'
  BY <1>1 DEF MidiInv, ErasedOK, Erased, midiDisk, midiSession, midiHistory
<1> QED
  BY <1>2, <1>3, <1>4, <1>5, <1>6 DEF MidiInv

\* One element more makes a finite set at most one larger: what a press adds to the live buffer.
LEMMA OneMore == ASSUME NEW S, NEW x, NEW T, IsFiniteSet(S), T \subseteq S \cup {x}
                 PROVE  IsFiniteSet(T) /\ Cardinality(T) \in Nat /\ Cardinality(T) <= Cardinality(S) + 1
<1>1. /\ IsFiniteSet(S \cup {x})
      /\ Cardinality(S \cup {x}) = IF x \in S THEN Cardinality(S) ELSE Cardinality(S) + 1
  BY FS_AddElement
<1>2. IsFiniteSet(T) /\ Cardinality(T) <= Cardinality(S \cup {x})
  BY <1>1, FS_Subset
<1>3. Cardinality(S) \in Nat /\ Cardinality(T) \in Nat /\ Cardinality(S \cup {x}) \in Nat
  BY <1>1, <1>2, FS_CardinalityType
<1> QED
  BY <1>1, <1>2, <1>3

\* A key is pressed.
LEMMA MessageKeeps == ASSUME MidiInv, onMessage PROVE MidiInv'
<1> USE MidiAssumption
<1>1. /\ live # NoMidiTake /\ played' = [played EXCEPT ![live] = @ + 1]
      /\ UNCHANGED <<midiDisk, midiHistory, live, rolled, view, lane, capture, chain, saving, cache, hydrating>>
  BY DEF onMessage
<1>2. live \in MidiTake /\ live \in AnyTake /\ played \in [AnyTake -> Nat] /\ buffer \in [AnyTake -> SUBSET Nat]
  BY <1>1 DEF MidiInv, MidiTypes, AnyTake
<1>3. \A t \in AnyTake : t # live => buffer'[t] = buffer[t]
  BY <1>2 DEF onMessage
<1>4. /\ buffer[live] \subseteq buffer'[live] /\ buffer'[live] \subseteq buffer[live] \cup {played[live] + 1}
      /\ buffer'[live] # buffer[live] => capture = live
      /\ buffer' \in [AnyTake -> SUBSET Nat]
  BY <1>2 DEF onMessage
<1>5. timer' = timer \/ timer' = TRUE
  BY DEF onMessage
<1>b. buffer'[live] # buffer[live] => timer' = TRUE
  BY DEF onMessage
<1>6. \A t \in AnyTake : played'[t] = IF t = live THEN played[t] + 1 ELSE played[t]
  BY <1>1, <1>2
<1>7. store.kind = "local" => Cardinality(buffer'[live]) <= MidiCap
  <2> SUFFICES ASSUME store.kind = "local" PROVE Cardinality(buffer'[live]) <= MidiCap
    OBVIOUS
  <2>a. buffer[live] \subseteq 1..played[live] /\ played[live] \in Int
    BY <1>2 DEF MidiInv, EventsOK
  <2>b. \A n \in Int : IsFiniteSet(1..n)
    BY FS_Interval
  <2>c. IsFiniteSet(1..played[live])
    BY <2>a, <2>b
  <2>1. IsFiniteSet(buffer[live]) /\ Cardinality(buffer[live]) \in Nat
    BY <2>a, <2>c, FS_Subset, FS_CardinalityType
  <2>4. Cardinality(buffer'[live]) \in Nat
    <3>1. buffer'[live] \subseteq buffer[live] \cup {played[live] + 1}
      BY <1>4
    <3> QED
      BY <3>1, <2>1, OneMore
  <2>2. CASE buffer'[live] = buffer[live]
    BY <2>2, <1>2 DEF MidiInv, EventsOK
  <2>3. CASE buffer'[live] # buffer[live]
    <3>1. /\ buffer'[live] = buffer[live] \cup {played[live] + 1}
          /\ Cardinality(buffer[live]) < MidiCap
      BY <2>3, <1>2 DEF onMessage, appendMidiEvent
    <3>2. Cardinality(buffer'[live]) <= Cardinality(buffer[live]) + 1
      BY <3>1, <2>1, OneMore
    <3> QED
      BY <3>1, <3>2, <2>1, <2>4
  <2> QED
    BY <2>2, <2>3
<1>8. MidiTypes'
  <2>1. played' \in [AnyTake -> Nat]
    BY <1>1, <1>2
  <2>2. /\ UNCHANGED <<store, live, rolled, view, capture, chain, saving, cache, hydrating, deleted, hurt>>
        /\ buffer' \in [AnyTake -> SUBSET Nat]
    BY <1>1, <1>4 DEF midiDisk, midiHistory
  <2>3. timer' \in BOOLEAN
    BY <1>5 DEF MidiInv, MidiTypes
  <2> QED
    BY <2>1, <2>2, <2>3 DEF MidiInv, MidiTypes
<1>9. CaptureOK' /\ QueueOK' /\ MoveOK'
  BY <1>1 DEF MidiInv, CaptureOK, QueueOK, MoveOK, midiDisk, midiHistory
<1>10. EventsOK'
  <2>1. \A t \in AnyTake : played[t] \in Nat /\ played'[t] \in Nat /\ 1..played[t] \subseteq 1..played'[t]
    BY <1>2, <1>6
  <2>2. \A t \in AnyTake : buffer'[t] \subseteq 1..played'[t]
    <3> SUFFICES ASSUME NEW t \in AnyTake PROVE buffer'[t] \subseteq 1..played'[t]
      OBVIOUS
    <3>1. CASE t = live
      <4>1. played[live] + 1 \in 1..played'[live]
        BY <2>1, <1>6, <1>2
      <4> QED
        BY <3>1, <4>1, <2>1, <1>4, <1>2 DEF MidiInv, EventsOK
    <3>2. CASE t # live
      BY <3>2, <2>1, <1>3 DEF MidiInv, EventsOK
    <3> QED
      BY <3>1, <3>2
  <2>3. saving'.take # NoMidiTake => saving'.events \subseteq 1..played'[saving'.take]
    BY <1>1, <2>1 DEF MidiInv, MidiTypes, EventsOK
  <2>4. \A t \in MidiTake : /\ store'.file[t].events \subseteq 1..played'[t]
                            /\ store'.legacy[t] = Absent
    BY <1>1, <2>1 DEF MidiInv, EventsOK, midiDisk, AnyTake
  <2>5. \A t \in MidiTake : store'.kind = "local" => Cardinality(buffer'[t]) <= MidiCap
    BY <1>1, <1>3, <1>7 DEF MidiInv, EventsOK, midiDisk, AnyTake
  <2>6. \A t \in OldTake : played'[t] = 0 /\ store'.file[t].events \subseteq Old
    BY <1>1, <1>2, <1>6 DEF MidiInv, EventsOK, midiDisk, AnyTake
  <2>7. \A t \in AnyTake : store'.file[t].is # "doc" => store'.file[t].events = {}
    BY <1>1 DEF MidiInv, EventsOK, midiDisk
  <2> QED
    BY <2>2, <2>3, <2>4, <2>5, <2>6, <2>7 DEF EventsOK
<1>11. \A t \in AnyTake : buffer[t] \subseteq buffer'[t] /\ (buffer'[t] # buffer[t] => t = capture /\ timer' = TRUE)
  BY <1>3, <1>4, <1>b
<1>12. GrowOK'
  BY <1>1, <1>11 DEF MidiInv, GrowOK, Growing, midiDisk, midiHistory, AnyTake
<1>13. SavedOK'
  <2> SUFFICES ASSUME NEW t \in AnyTake, t \notin deleted, "switched" \notin hurt[t]
               PROVE  (Pending(t) \/ Covered(t))'
    BY <1>1 DEF SavedOK, midiHistory
  <2>1. Pending(t) \/ Covered(t)
    BY DEF MidiInv, SavedOK
  <2>2. CASE buffer'[t] # buffer[t]
    BY <2>2, <1>1, <1>11 DEF Pending
  <2>3. CASE buffer'[t] = buffer[t]
    <3>1. Pending(t) => Pending(t)'
      BY <1>1, <1>5 DEF Pending
    <3>2. Covered(t) => Covered(t)'
      BY <2>3, <1>1 DEF Covered, midiDisk
    <3> QED
      BY <2>1, <3>1, <3>2
  <2> QED
    BY <2>2, <2>3
<1>14. ErasedOK'
  BY <1>1 DEF MidiInv, ErasedOK, Erased, midiDisk, midiHistory
<1>15. FinishedIsShown'
  BY <1>1, <1>11 DEF MidiInv, FinishedIsShown, midiHistory
<1> QED
  BY <1>8, <1>9, <1>10, <1>12, <1>13, <1>14, <1>15 DEF MidiInv

\* A request joins the queue; nothing else changes but that the debounce may end.
LEMMA SaveQueued ==
    ASSUME MidiInv, NEW u \in MidiTake, chain' = persist(u), HasRoom,
           UNCHANGED <<midiDisk, hydrating, saving, buffer, deleted, hurt>>, capture' \in {capture, NoMidiTake},
           (timer' = timer /\ capture' = capture) \/ (timer' = FALSE /\ capture \in {u, NoMidiTake}),
           "tail" \notin hurt[u] /\ u \notin deleted => store.file[u].events \subseteq buffer[u]
    PROVE  QueueOK' /\ GrowOK' /\ SavedOK' /\ chain' \in Seq(QueuedOp)
<1> USE MidiAssumption
<1> DEFINE w == [op |-> "save", take |-> u]
<1>1. chain \in Seq(QueuedOp) /\ w \in QueuedOp /\ w.op = "save" /\ w.take = u /\ chain' = Append(chain, w)
  BY DEF MidiInv, MidiTypes, QueuedOp, AnyTake, persist
<1> HIDE DEF w
<1>2. \A t : /\ chain' \in Seq(QueuedOp) /\ Len(chain') = Len(chain) + 1 /\ chain' # <<>>
             /\ (chain # <<>> => Head(chain') = Head(chain))
             /\ Queued(chain, t) => Queued(chain', t)
             /\ QueuedBehind(chain, t) => QueuedBehind(chain', t)
             /\ Queued(chain', t) => Queued(chain, t) \/ u = t
             /\ u = t => Queued(chain', t) /\ (chain # <<>> => QueuedBehind(chain', t))
  BY <1>1, MoreQueued
<1>3. UNCHANGED <<store, unsaved, hydrating, saving, buffer, deleted, hurt>>
  BY DEF midiDisk
<1>4. QueueOK'
  <2>1. \A i \in 1..Len(chain') : chain'[i] = w \/ (i \in 1..Len(chain) /\ chain'[i] = chain[i])
    BY <1>1
  <2>2. Len(chain') <= MaxChain
    BY <1>1, <1>2 DEF HasRoom
  <2> QED
    BY <1>1, <1>2, <1>3, <2>1, <2>2 DEF MidiInv, QueueOK
<1>5. GrowOK'
  BY <1>2, <1>3 DEF MidiInv, GrowOK, Growing
<1>6. SavedOK'
  <2> SUFFICES ASSUME NEW t \in AnyTake, t \notin deleted, "switched" \notin hurt[t]
               PROVE  Pending(t)' \/ Covered(t)'
    BY <1>3 DEF SavedOK
  <2>1. Pending(t) \/ Covered(t)
    BY DEF MidiInv, SavedOK
  <2>2. Covered(t) => Covered(t)'
    BY <1>3 DEF Covered
  <2>3. CASE t = u
    <3>1. saving = NoSave \/ chain # <<>>
      BY DEF MidiInv, QueueOK
    <3> QED
      BY <3>1, <2>3, <1>2, <1>3 DEF Pending
  <2>4. CASE t # u
    <3>1. t # NoMidiTake
      BY DEF AnyTake
    <3>2. timer = TRUE /\ capture = t => timer' = TRUE /\ capture' = t
      BY <2>4, <3>1
    <3>3. Pending(t) => Pending(t)'
      BY <3>2, <1>2, <1>3 DEF Pending
    <3> QED
      BY <2>1, <2>2, <3>3
  <2> QED
    BY <2>3, <2>4
<1> QED
  BY <1>2, <1>4, <1>5, <1>6

\* The queue only grew by a save of a take that is not deleted: what is erased stays so.
LEMMA ErasedQueued ==
    ASSUME MidiInv, NEW u \in MidiTake, u \notin deleted, chain' = persist(u),
           UNCHANGED <<midiDisk, hydrating, deleted>>,
           \A t \in deleted : hurt'[t] = hurt[t]
    PROVE  ErasedOK'
<1> DEFINE w == [op |-> "save", take |-> u]
<1>1. chain \in Seq(QueuedOp) /\ w \in QueuedOp /\ w.op = "save" /\ w.take = u /\ chain' = Append(chain, w)
  BY DEF MidiInv, MidiTypes, QueuedOp, AnyTake, persist
<1> HIDE DEF w
<1>2. \A t : /\ Queued(chain', t) => Queued(chain, t) \/ u = t
             /\ Erasing(chain, t) /\ u # t => Erasing(chain', t)
  BY <1>1, MoreQueued
<1>3. UNCHANGED <<store, hydrating, deleted>>
  BY DEF midiDisk
<1> QED
  BY <1>2, <1>3 DEF MidiInv, ErasedOK, Erased

\* The debounce runs out.
LEMMA FlushKeeps == ASSUME MidiInv, flushCapture PROVE MidiInv'
<1> USE MidiAssumption
<1>1. /\ HasRoom /\ timer' = FALSE
      /\ chain' = IF capture # NoMidiTake THEN persist(capture) ELSE chain
      /\ UNCHANGED <<midiDisk, midiSession, midiHistory, lane, capture, buffer, saving, cache, hydrating>>
  BY DEF flushCapture
<1>2. UNCHANGED <<store, unsaved, live, rolled, played, view, deleted, hurt, lane, capture, buffer,
                  saving, cache, hydrating>>
  BY <1>1 DEF midiDisk, midiSession, midiHistory
<1>3. /\ capture \in MidiTake \cup {NoMidiTake} /\ (capture # NoMidiTake => capture \notin deleted)
      /\ \A t \in MidiTake \ deleted : "tail" \notin hurt[t] /\ capture = t => store.file[t].events \subseteq buffer[t]
  BY DEF MidiInv, MidiTypes, CaptureOK, GrowOK, Growing
<1>4. QueueOK' /\ GrowOK' /\ SavedOK' /\ ErasedOK' /\ chain' \in Seq(QueuedOp)
  <2>1. CASE capture # NoMidiTake
    <3>1. capture \in MidiTake /\ chain' = persist(capture)
      BY <2>1, <1>1, <1>3
    <3> QED
      BY <3>1, <1>1, <1>2, <1>3, SaveQueued, ErasedQueued
  <2>2. CASE capture = NoMidiTake
    <3>1. chain' = chain
      BY <2>2, <1>1
    <3>2. QueueOK' /\ GrowOK' /\ ErasedOK' /\ chain' \in Seq(QueuedOp)
      BY <3>1, <1>2 DEF MidiInv, MidiTypes, QueueOK, GrowOK, Growing, ErasedOK, Erased
    <3>3. SavedOK'
      <4> SUFFICES ASSUME NEW t \in AnyTake, t \notin deleted, "switched" \notin hurt[t]
                   PROVE  Pending(t)' \/ Covered(t)'
        BY <1>2 DEF SavedOK
      <4>1. Pending(t) \/ Covered(t)
        BY DEF MidiInv, SavedOK
      <4>2. Covered(t) => Covered(t)'
        BY <1>2 DEF Covered
      <4>3. Pending(t) => Pending(t)'
        BY <2>2, <3>1, <1>2 DEF Pending, AnyTake
      <4> QED
        BY <4>1, <4>2, <4>3
    <3> QED
      BY <3>2, <3>3
  <2> QED
    BY <2>1, <2>2
<1>5. MidiTypes'
  <2>1. timer' \in BOOLEAN
    BY <1>1
  <2> QED
    BY <2>1, <1>2, <1>4 DEF MidiInv, MidiTypes
<1>6. CaptureOK' /\ EventsOK' /\ MoveOK' /\ FinishedIsShown'
  BY <1>2 DEF MidiInv, CaptureOK, EventsOK, MoveOK, FinishedIsShown
<1> QED
  BY <1>4, <1>5, <1>6 DEF MidiInv

\* One file changes.
LEMMA OneFile ==
    ASSUME MidiTypes, NEW u \in AnyTake, NEW f \in MidiFile, store' = [store EXCEPT !.file[u] = f]
    PROVE  /\ store' \in [kind : {"opfs", "local"}, file : [AnyTake -> MidiFile], legacy : [AnyTake -> MidiFile]]
           /\ store'.kind = store.kind /\ store'.legacy = store.legacy
           /\ store'.file[u] = f /\ \A t \in AnyTake : t # u => store'.file[t] = store.file[t]
<1>1. /\ store.file \in [AnyTake -> MidiFile] /\ store.legacy \in [AnyTake -> MidiFile]
      /\ store.kind \in {"opfs", "local"}
      /\ store = [kind |-> store.kind, file |-> store.file, legacy |-> store.legacy]
  BY DEF MidiTypes
<1>2. store' = [kind |-> store.kind, file |-> [store.file EXCEPT ![u] = f], legacy |-> store.legacy]
  BY <1>1
<1>3. [store.file EXCEPT ![u] = f] \in [AnyTake -> MidiFile]
  BY <1>1
<1> QED
  BY <1>1, <1>2, <1>3

\* A write begins with the list as it is.
LEMMA SaveStartKeeps == ASSUME MidiInv, SaveStarts PROVE MidiInv'
<1> USE MidiAssumption
<1>1. /\ chain # <<>> /\ Head(chain).op = "save" /\ saving = NoSave
      /\ saving' = [take |-> Head(chain).take, events |-> buffer[Head(chain).take]]
      /\ UNCHANGED <<store, unsaved, live, rolled, played, view, deleted, hurt, lane, capture, buffer,
                     timer, chain, cache, hydrating>>
  BY DEF SaveStarts, midiDisk, midiSession, midiHistory
<1>2. PICK u : u = Head(chain).take
  OBVIOUS
<1>3. /\ Head(chain) = chain[1] /\ 1 \in 1..Len(chain) /\ chain \in Seq(QueuedOp)
      /\ u \in MidiTake /\ u \in AnyTake
  BY <1>1, <1>2, HeadDone DEF MidiInv, MidiTypes, QueueOK, AnyTake
<1>4. saving'.take = u /\ saving'.events = buffer[u] /\ saving' # NoSave
  BY <1>1, <1>2, <1>3 DEF NoSave
<1>5. MidiTypes'
  <2>1. saving' \in [take : AnyTake \cup {NoMidiTake}, events : SUBSET Nat]
    BY <1>1, <1>2, <1>3 DEF MidiInv, MidiTypes
  <2> QED
    BY <2>1, <1>1 DEF MidiInv, MidiTypes
<1>6. CaptureOK' /\ MoveOK' /\ ErasedOK' /\ FinishedIsShown'
  BY <1>1 DEF MidiInv, CaptureOK, MoveOK, ErasedOK, Erased, FinishedIsShown
<1>7. QueueOK' /\ EventsOK'
  BY <1>1, <1>2, <1>3, <1>4 DEF MidiInv, QueueOK, EventsOK
<1>8. Queued(chain, u) /\ \A t : Queued(chain, t) => QueuedBehind(chain, t) \/ t = u
  BY <1>1, <1>2, <1>3, HeadDone
<1>9. GrowOK'
  BY <1>1, <1>4, <1>8 DEF MidiInv, GrowOK, Growing
<1>10. SavedOK'
  <2> SUFFICES ASSUME NEW t \in AnyTake, t \notin deleted, "switched" \notin hurt[t]
               PROVE  Pending(t)' \/ Covered(t)'
    BY <1>1 DEF SavedOK
  <2>1. Pending(t) \/ Covered(t)
    BY DEF MidiInv, SavedOK
  <2>2. CASE t = u
    BY <2>2, <1>1, <1>4 DEF Covered
  <2>3. CASE t # u
    <3>1. Pending(t) => Pending(t)'
      BY <2>3, <1>1, <1>4, <1>8 DEF Pending
    <3>2. saving.take # t
      BY <1>1 DEF NoSave, AnyTake
    <3>3. Covered(t) => Covered(t)'
      BY <2>3, <3>2, <1>1, <1>4 DEF Covered
    <3> QED
      BY <2>1, <3>1, <3>3
  <2> QED
    BY <2>2, <2>3
<1> QED
  BY <1>5, <1>6, <1>7, <1>9, <1>10 DEF MidiInv

\* What the head of the queue did to one file is done; the others wait on.
LEMMA SaveEndKeeps ==
    ASSUME MidiInv, saving # NoSave, NEW u, u = saving.take, NEW f \in MidiFile,
           store' = [store EXCEPT !.file[u] = f], f.is # "doc" => f.events = {},
           f.events \in {{}, store.file[u].events, saving.events},
           unsaved' = unsaved \cup {u} \/ (unsaved' = unsaved \ {u} /\ f.events = saving.events),
           saving' = NoSave, chain' = Tail(chain),
           UNCHANGED <<live, rolled, played, view, deleted, hurt, lane, capture, buffer, timer, cache, hydrating>>
    PROVE  MidiInv'
<1> USE MidiAssumption
<1>1. /\ u \in MidiTake /\ u \in AnyTake /\ u # NoMidiTake /\ u \notin OldTake
      /\ chain # <<>> /\ Head(chain).op = "save" /\ Head(chain).take = u
      /\ chain \in Seq(QueuedOp) /\ MidiTypes
  BY DEF MidiInv, MidiTypes, QueueOK, AnyTake
<1>2. /\ store' \in [kind : {"opfs", "local"}, file : [AnyTake -> MidiFile], legacy : [AnyTake -> MidiFile]]
      /\ store'.kind = store.kind /\ store'.legacy = store.legacy
      /\ store'.file[u] = f /\ \A t \in AnyTake : t # u => store'.file[t] = store.file[t]
  BY <1>1, OneFile
<1>3. \A t : /\ chain' \in Seq(QueuedOp) /\ Len(chain') = Len(chain) - 1 /\ Len(chain) \in Nat \ {0}
             /\ Head(chain) = chain[1]
             /\ \A i \in 1..Len(chain') : i + 1 \in 1..Len(chain) /\ chain'[i] = chain[i + 1]
             /\ Queued(chain', t) <=> QueuedBehind(chain, t)
             /\ QueuedBehind(chain, t) => Queued(chain, t)
             /\ Erasing(chain, t) => Erasing(chain', t)
             /\ Queued(chain, u)
  BY <1>1, HeadDone
<1>4. saving'.take = NoMidiTake /\ \A t \in AnyTake : t # NoMidiTake
  BY DEF NoSave, AnyTake
<1>5. MidiTypes'
  <2>1. saving' \in [take : AnyTake \cup {NoMidiTake}, events : SUBSET Nat]
    BY DEF NoSave
  <2> QED
    BY <2>1, <1>2, <1>3 DEF MidiInv, MidiTypes
<1>6. CaptureOK' /\ FinishedIsShown'
  BY DEF MidiInv, CaptureOK, FinishedIsShown
<1>7. QueueOK'
  <2>1. Len(chain') <= MaxChain
    BY <1>3 DEF MidiInv, QueueOK
  <2> QED
    BY <1>3, <2>1 DEF MidiInv, QueueOK
<1>8. EventsOK'
  <2>1. f.events \subseteq 1..played[u]
    BY <1>1 DEF MidiInv, EventsOK
  <2>2. \A t \in MidiTake : store'.file[t].events \subseteq 1..played[t] /\ t \in AnyTake
    BY <2>1, <1>2 DEF MidiInv, EventsOK, AnyTake
  <2>3. \A t \in OldTake : store'.file[t] = store.file[t] /\ t \in AnyTake
    BY <1>1, <1>2 DEF AnyTake
  <2>4. \A t \in AnyTake : store'.file[t].is # "doc" => store'.file[t].events = {}
    BY <1>2 DEF MidiInv, EventsOK
  <2> QED
    BY <2>2, <2>3, <2>4, <1>2, <1>4 DEF MidiInv, EventsOK
<1>9. MoveOK'
  <2>1. \A t \in OldTake : store'.file[t] = store.file[t]
    BY <1>1, <1>2 DEF AnyTake
  <2> QED
    BY <2>1, <1>2 DEF MidiInv, MoveOK
<1>10. GrowOK'
  <2> SUFFICES ASSUME NEW t \in MidiTake \ deleted, "tail" \notin hurt[t] PROVE Growing(t)'
    BY DEF GrowOK
  <2>1. Growing(t) /\ t \in AnyTake
    BY DEF MidiInv, GrowOK, AnyTake
  <2>2. CASE t = u
    <3>1. store.file[t].events \subseteq saving.events /\ saving.events \subseteq buffer[t]
      BY <2>1, <2>2 DEF Growing
    <3>2. store'.file[t].events \subseteq buffer[t]
      BY <3>1, <2>2, <1>2
    <3> QED
      BY <3>2, <2>1, <1>4 DEF Growing
  <2>3. CASE t # u
    BY <2>1, <2>3, <1>2, <1>3, <1>4 DEF Growing
  <2> QED
    BY <2>2, <2>3
<1>11. SavedOK'
  <2> SUFFICES ASSUME NEW t \in AnyTake, t \notin deleted, "switched" \notin hurt[t]
               PROVE  Pending(t)' \/ Covered(t)'
    BY DEF SavedOK
  <2>1. Pending(t) \/ Covered(t)
    BY DEF MidiInv, SavedOK
  <2>2. Pending(t) => Pending(t)'
    BY <1>3 DEF Pending
  <2>3. Covered(t) => Covered(t)'
    <3>1. CASE t = u
      BY <3>1, <1>2, <1>4 DEF Covered
    <3>2. CASE t # u
      BY <3>2, <1>2, <1>4 DEF Covered
    <3> QED
      BY <3>1, <3>2
  <2> QED
    BY <2>1, <2>2, <2>3
<1>12. ErasedOK'
  <2> SUFFICES ASSUME NEW t \in deleted, hurt[t] \cap {"raced", "reloaded"} = {} PROVE Erased(t)'
    BY DEF ErasedOK
  <2>1. Erased(t) /\ t \in AnyTake
    BY DEF MidiInv, MidiTypes, ErasedOK
  <2> QED
    BY <2>1, <1>2, <1>3 DEF Erased
<1> QED
  BY <1>5, <1>6, <1>7, <1>8, <1>9, <1>10, <1>11, <1>12 DEF MidiInv

LEMMA FailedWriteIs ==
    ASSUME NEW f \in MidiFile, NEW g \in AfterFailedWrite(f)
    PROVE  /\ g \in MidiFile /\ (g = f \/ (f.is # "doc" /\ g.is # "doc" /\ g.events = {}))
  BY DEF AfterFailedWrite, Absent, Husk, MidiFile

LEMMA CommitKeeps == ASSUME MidiInv, SaveCommits PROVE MidiInv'
<1> DEFINE u == saving.take
           f == Doc(saving.events)
<1>1. /\ saving # NoSave /\ saving' = NoSave /\ chain' = Tail(chain)
      /\ store' = [store EXCEPT !.file[u] = f] /\ unsaved' = unsaved \ {u}
      /\ UNCHANGED <<live, rolled, played, view, deleted, hurt, lane, capture, buffer, timer, cache, hydrating>>
  BY DEF SaveCommits, midiSession, midiHistory
<1>2. f \in MidiFile /\ f.is = "doc" /\ f.events = saving.events
  BY DEF MidiInv, MidiTypes, MidiFile, Doc
<1> HIDE DEF f, u
<1>3. u = saving.take
  BY DEF u
<1> QED
  BY <1>1, <1>2, <1>3, SaveEndKeeps

LEMMA WriteFailKeeps == ASSUME MidiInv, SaveFails PROVE MidiInv'
<1> DEFINE u == saving.take
<1>1. /\ saving # NoSave /\ saving' = NoSave /\ chain' = Tail(chain) /\ unsaved' = unsaved \cup {u}
      /\ UNCHANGED <<live, rolled, played, view, deleted, hurt, lane, capture, buffer, timer, cache, hydrating>>
  BY DEF SaveFails, midiSession
<1>2. PICK f \in AfterFailedWrite(store.file[u]) \cup {store.file[u]} : store' = [store EXCEPT !.file[u] = f]
  BY DEF SaveFails
<1>a. u \in AnyTake
  BY <1>1 DEF MidiInv, QueueOK, AnyTake
<1>3. store.file[u] \in MidiFile /\ (store.file[u].is # "doc" => store.file[u].events = {})
  BY <1>a DEF MidiInv, MidiTypes, EventsOK
<1>4. f \in MidiFile /\ (f = store.file[u] \/ (f.is # "doc" /\ f.events = {}))
  BY <1>2, <1>3, FailedWriteIs
<1> HIDE DEF u
<1>5. u = saving.take
  BY DEF u
<1> QED
  BY <1>1, <1>2, <1>3, <1>4, <1>5, SaveEndKeeps

\* A removal runs: of a deleted take only.
LEMMA RemovalKeeps == ASSUME MidiInv, RemoveRuns PROVE MidiInv'
<1> USE MidiAssumption
<1>1. /\ chain # <<>> /\ Head(chain).op = "remove" /\ chain' = Tail(chain)
      /\ store' = [store EXCEPT !.file[Head(chain).take] = Absent]
      /\ UNCHANGED <<unsaved, live, rolled, played, view, deleted, hurt, lane, capture, buffer, timer,
                     saving, cache, hydrating>>
  BY DEF RemoveRuns, midiSession, midiHistory
<1>2. PICK u : u = Head(chain).take
  OBVIOUS
<1>3. \A t : /\ chain' \in Seq(QueuedOp) /\ Len(chain') = Len(chain) - 1 /\ Len(chain) \in Nat \ {0}
             /\ Head(chain) = chain[1] /\ Head(chain) \in QueuedOp
             /\ \A i \in 1..Len(chain') : i + 1 \in 1..Len(chain) /\ chain'[i] = chain[i + 1]
             /\ Queued(chain', t) <=> QueuedBehind(chain, t)
             /\ QueuedBehind(chain, t) => Queued(chain, t)
             /\ Queued(chain, t) => Queued(chain', t)
             /\ Erasing(chain, t) => Erasing(chain', t) \/ (t = u /\ ~Queued(chain', t))
  <2>1. chain \in Seq(QueuedOp) /\ chain # <<>> /\ Head(chain).op # "save" /\ Head(chain).take = u
    BY <1>1, <1>2 DEF MidiInv, MidiTypes
  <2> QED
    BY <2>1, <1>1, HeadDone
<1>4. 1 \in 1..Len(chain) /\ u \in deleted /\ u \in AnyTake /\ saving = NoSave
  <2>1. 1 \in 1..Len(chain) /\ chain[1].op = "remove" /\ chain[1].take = u
    BY <1>1, <1>2, <1>3
  <2>2. u \in deleted
    BY <2>1 DEF MidiInv, QueueOK
  <2>3. saving = NoSave
    BY <1>1 DEF MidiInv, QueueOK
  <2> QED
    BY <2>1, <2>2, <2>3 DEF MidiInv, MidiTypes
<1>5. Absent \in MidiFile /\ Absent.events = {} /\ Absent.is # "doc"
  BY DEF Absent, MidiFile
<1>6. /\ store' \in [kind : {"opfs", "local"}, file : [AnyTake -> MidiFile], legacy : [AnyTake -> MidiFile]]
      /\ store'.kind = store.kind /\ store'.legacy = store.legacy
      /\ store'.file[u] = Absent /\ \A t \in AnyTake : t # u => store'.file[t] = store.file[t]
  BY <1>1, <1>2, <1>4, <1>5, OneFile DEF MidiInv
<1>7. MidiTypes'
  BY <1>1, <1>3, <1>6 DEF MidiInv, MidiTypes
<1>8. CaptureOK' /\ FinishedIsShown'
  BY <1>1 DEF MidiInv, CaptureOK, FinishedIsShown
<1>9. QueueOK'
  <2>1. Len(chain') <= MaxChain
    BY <1>3 DEF MidiInv, QueueOK
  <2> QED
    BY <1>1, <1>3, <1>4, <2>1 DEF MidiInv, QueueOK
<1>10. EventsOK'
  <2>1. \A t \in AnyTake : /\ store'.file[t].events \subseteq store.file[t].events
                           /\ store'.file[t].is # "doc" => store'.file[t].events = {}
    BY <1>5, <1>6 DEF MidiInv, EventsOK
  <2>2. \A t \in MidiTake \cup OldTake : t \in AnyTake
    BY DEF AnyTake
  <2> QED
    BY <2>1, <2>2, <1>1, <1>6 DEF MidiInv, EventsOK
<1>11. MoveOK'
  BY <1>1, <1>4, <1>6 DEF MidiInv, MoveOK, AnyTake
<1>12. GrowOK'
  BY <1>1, <1>3, <1>4, <1>6 DEF MidiInv, GrowOK, Growing, AnyTake
<1>13. SavedOK'
  <2> SUFFICES ASSUME NEW t \in AnyTake, t \notin deleted, "switched" \notin hurt[t]
               PROVE  Pending(t)' \/ Covered(t)'
    BY <1>1 DEF SavedOK
  <2>1. Pending(t) \/ Covered(t)
    BY DEF MidiInv, SavedOK
  <2>2. Pending(t) => Pending(t)'
    BY <1>1, <1>3, <1>4 DEF Pending
  <2>3. Covered(t) => Covered(t)'
    BY <1>1, <1>4, <1>6 DEF Covered
  <2> QED
    BY <2>1, <2>2, <2>3
<1>14. ErasedOK'
  <2> SUFFICES ASSUME NEW t \in deleted, hurt[t] \cap {"raced", "reloaded"} = {} PROVE Erased(t)'
    BY <1>1 DEF ErasedOK
  <2>1. Erased(t) /\ t \in AnyTake
    BY DEF MidiInv, MidiTypes, ErasedOK
  <2>2. ~Queued(chain, t) => ~Queued(chain', t)
    BY <1>3
  <2> QED
    BY <2>1, <2>2, <1>1, <1>3, <1>5, <1>6 DEF Erased
<1> QED
  BY <1>7, <1>8, <1>9, <1>10, <1>11, <1>12, <1>13, <1>14 DEF MidiInv

\* Reading a file fills no entry but a placeholder.
LEMMA HydratedShape ==
    ASSUME MidiTypes, NEW u \in AnyTake, NEW ev \in SUBSET Nat, Hydrated(u, ev)
    PROVE  /\ hydrating' \in [AnyTake -> [phase : {"none", "reading", "moving"}, events : SUBSET Nat]]
           /\ hydrating'[u] = Idle /\ \A t \in AnyTake : t # u => hydrating'[t] = hydrating[t]
           /\ cache' \in [AnyTake -> Shown]
           /\ \A t \in AnyTake : cache'[t] # cache[t] => cache[t] = Placeholder
<1>1. Idle \in [phase : {"none", "reading", "moving"}, events : SUBSET Nat] /\ Doc(ev) \in Shown
  BY DEF Idle, Doc, Shown
<1>2. /\ hydrating' = [hydrating EXCEPT ![u] = Idle]
      /\ cache' = IF cache[u] = Placeholder THEN [cache EXCEPT ![u] = Doc(ev)] ELSE cache
  BY DEF Hydrated
<1>3. /\ hydrating \in [AnyTake -> [phase : {"none", "reading", "moving"}, events : SUBSET Nat]]
      /\ cache \in [AnyTake -> Shown]
  BY DEF MidiTypes
<1> QED
  BY <1>1, <1>2, <1>3

\* What the desk shows of a finished capture is no placeholder.
LEMMA ShownStays ==
    ASSUME FinishedIsShown, UNCHANGED <<capture, deleted, buffer, hurt>>,
           \A t \in AnyTake : cache'[t] # cache[t] => cache[t] \in {Absent, Placeholder}
    PROVE  FinishedIsShown'
<1>1. \A S : Doc(S) # Absent /\ Doc(S) # Placeholder
  BY DEF Doc, Absent, Placeholder
<1> QED
  BY <1>1 DEF FinishedIsShown

LEMMA ReadBeginKeeps == ASSUME MidiInv, NEW u \in AnyTake, takeMidi(u) PROVE MidiInv'
<1> USE MidiAssumption
<1>1. /\ u \notin deleted /\ cache[u] = Absent /\ cache' = [cache EXCEPT ![u] = Placeholder]
      /\ hydrating' = [hydrating EXCEPT ![u].phase = "reading"]
      /\ UNCHANGED <<store, unsaved, live, rolled, played, view, deleted, hurt, lane, capture, buffer,
                     timer, chain, saving>>
  BY DEF takeMidi, midiDisk, midiSession
<1>2. /\ hydrating \in [AnyTake -> [phase : {"none", "reading", "moving"}, events : SUBSET Nat]]
      /\ cache \in [AnyTake -> Shown]
  BY DEF MidiInv, MidiTypes
<1>3. Placeholder \in Shown
  BY DEF Placeholder, Shown
<1>4. /\ hydrating'[u].phase = "reading" /\ \A t \in AnyTake : t # u => hydrating'[t] = hydrating[t]
      /\ hydrating' \in [AnyTake -> [phase : {"none", "reading", "moving"}, events : SUBSET Nat]]
  BY <1>1, <1>2
<1>5. cache' \in [AnyTake -> Shown] /\ \A t \in AnyTake : cache'[t] # cache[t] => cache[t] = Absent
  BY <1>1, <1>2, <1>3
<1>6. MidiTypes'
  BY <1>1, <1>4, <1>5 DEF MidiInv, MidiTypes
<1>7. CaptureOK' /\ QueueOK' /\ EventsOK'
  BY <1>1 DEF MidiInv, CaptureOK, QueueOK, EventsOK
<1>8. MoveOK'
  BY <1>1, <1>4 DEF MidiInv, MoveOK
<1>9. GrowOK' /\ SavedOK'
  BY <1>1 DEF MidiInv, GrowOK, Growing, SavedOK, Pending, Covered
<1>10. ErasedOK'
  BY <1>1, <1>4 DEF MidiInv, MidiTypes, ErasedOK, Erased
<1>11. FinishedIsShown'
  BY <1>1, <1>5, ShownStays DEF MidiInv
<1> QED
  BY <1>6, <1>7, <1>8, <1>9, <1>10, <1>11 DEF MidiInv

LEMMA ReadKeeps == ASSUME MidiInv, NEW u \in AnyTake, HydrateReads(u) PROVE MidiInv'
<1> USE MidiAssumption
<1>1. /\ hydrating[u].phase = "reading"
      /\ UNCHANGED <<store, unsaved, live, rolled, played, view, deleted, hurt, lane, capture, buffer,
                     timer, chain, saving>>
  BY DEF HydrateReads, midiDisk, midiSession, midiHistory
<1>2. /\ hydrating' \in [AnyTake -> [phase : {"none", "reading", "moving"}, events : SUBSET Nat]]
      /\ \A t \in AnyTake : t # u => hydrating'[t] = hydrating[t]
      /\ hydrating'[u].phase = "moving" => u \in OldTake /\ hydrating'[u].events = Old
      /\ cache' \in [AnyTake -> Shown]
      /\ \A t \in AnyTake : cache'[t] # cache[t] => cache[t] = Placeholder
  <2>1. CASE hasDocument(store.file[u]) \/ store.legacy[u] = Absent
    <3>1. Hydrated(u, store.file[u].events) /\ store.file[u].events \in SUBSET Nat
      BY <2>1 DEF HydrateReads, MidiInv, MidiTypes, MidiFile
    <3>2. Idle.phase # "moving"
      BY DEF Idle
    <3> QED
      BY <3>1, <3>2, HydratedShape DEF MidiInv
  <2>2. CASE ~(hasDocument(store.file[u]) \/ store.legacy[u] = Absent)
    <3>1. /\ hydrating' = [hydrating EXCEPT ![u] = [phase |-> "moving", events |-> store.legacy[u].events]]
          /\ cache' = cache
      BY <2>2 DEF HydrateReads
    <3>2. u \in OldTake /\ store.legacy[u] = Doc(Old)
      BY <2>2 DEF MidiInv, EventsOK, MoveOK, AnyTake
    <3>3. store.legacy[u].events = Old /\ Old \in SUBSET Nat
      BY <3>2 DEF Doc, Old
    <3> QED
      BY <3>1, <3>2, <3>3 DEF MidiInv, MidiTypes
  <2> QED
    BY <2>1, <2>2
<1>3. MidiTypes'
  BY <1>1, <1>2 DEF MidiInv, MidiTypes
<1>4. CaptureOK' /\ QueueOK' /\ EventsOK'
  BY <1>1 DEF MidiInv, CaptureOK, QueueOK, EventsOK
<1>5. MoveOK'
  BY <1>1, <1>2 DEF MidiInv, MoveOK
<1>6. GrowOK' /\ SavedOK'
  BY <1>1 DEF MidiInv, GrowOK, Growing, SavedOK, Pending, Covered
<1>7. ErasedOK'
  <2>1. Idle.phase # "reading"
    BY DEF Idle
  <2> QED
    BY <2>1, <1>1, <1>2 DEF MidiInv, MidiTypes, ErasedOK, Erased
<1>8. FinishedIsShown'
  BY <1>1, <1>2, ShownStays DEF MidiInv
<1> QED
  BY <1>3, <1>4, <1>5, <1>6, <1>7, <1>8 DEF MidiInv

\* The move of an old document ends, one way or the other.
LEMMA MoveEndKeeps ==
    ASSUME MidiInv, NEW u \in AnyTake, hydrating[u].phase = "moving",
           Hydrated(u, hydrating[u].events), NEW f \in MidiFile,
           store' \in [kind : {"opfs", "local"}, file : [AnyTake -> MidiFile], legacy : [AnyTake -> MidiFile]],
           store'.kind = store.kind,
           store'.file[u] = f, \A t \in AnyTake : t # u => store'.file[t] = store.file[t],
           \A t \in AnyTake : store'.legacy[t] = store.legacy[t] \/ (t = u /\ store'.legacy[t] = Absent /\ f = Doc(Old)),
           f \in {Doc(Old), store.file[u]} \/ (store.file[u].is # "doc" /\ f.is # "doc" /\ f.events = {}),
           UNCHANGED <<unsaved, live, rolled, played, view, deleted, hurt, lane, capture, buffer,
                       timer, chain, saving>>
    PROVE  MidiInv'
<1> USE MidiAssumption
<1>1. u \in OldTake /\ u \notin MidiTake /\ hydrating[u].events = Old /\ Old \in SUBSET Nat
  BY DEF MidiInv, MoveOK, Old
<1>2. /\ hydrating' \in [AnyTake -> [phase : {"none", "reading", "moving"}, events : SUBSET Nat]]
      /\ hydrating'[u] = Idle /\ \A t \in AnyTake : t # u => hydrating'[t] = hydrating[t]
      /\ cache' \in [AnyTake -> Shown]
      /\ \A t \in AnyTake : cache'[t] # cache[t] => cache[t] = Placeholder
  BY <1>1, HydratedShape DEF MidiInv
<1>3. Doc(Old).events = Old /\ Doc(Old).is = "doc" /\ Idle.phase # "moving"
  BY DEF Doc, Idle
<1>4. MidiTypes'
  BY <1>2 DEF MidiInv, MidiTypes
<1>5. CaptureOK' /\ QueueOK'
  BY DEF MidiInv, CaptureOK, QueueOK
<1>6. EventsOK'
  <2>1. f.events \subseteq Old /\ (f.is # "doc" => f.events = {})
    BY <1>1, <1>3 DEF MidiInv, EventsOK
  <2>2. \A t \in MidiTake : t \in AnyTake /\ store'.file[t] = store.file[t] /\ store'.legacy[t] = Absent
    BY <1>1 DEF MidiInv, EventsOK, AnyTake
  <2>3. \A t \in OldTake : t \in AnyTake /\ store'.file[t].events \subseteq Old
    BY <2>1 DEF MidiInv, EventsOK, AnyTake
  <2>4. \A t \in AnyTake : store'.file[t].is # "doc" => store'.file[t].events = {}
    BY <2>1 DEF MidiInv, EventsOK
  <2> QED
    BY <2>2, <2>3, <2>4 DEF MidiInv, EventsOK
<1>7. MoveOK'
  <2>1. \A t \in OldTake : t \in AnyTake
    BY DEF AnyTake
  <2>2. \A t \in OldTake : store'.legacy[t] \in {Absent, Doc(Old)}
    BY <2>1 DEF MidiInv, MoveOK
  <2>3. ASSUME NEW t \in OldTake, t \notin deleted PROVE store'.file[t] = Doc(Old) \/ store'.legacy[t] = Doc(Old)
    <3>1. store.file[t] = Doc(Old) \/ store.legacy[t] = Doc(Old)
      BY <2>3 DEF MidiInv, MoveOK
    <3>2. CASE t # u
      BY <3>1, <3>2, <2>1
    <3>3. CASE t = u /\ f = Doc(Old)
      BY <3>3
    <3>4. CASE t = u /\ f # Doc(Old)
      BY <3>1, <3>4, <2>1, <1>3
    <3> QED
      BY <3>2, <3>3, <3>4
  <2>4. \A t \in AnyTake : hydrating'[t].phase = "moving" => t \in OldTake /\ hydrating'[t].events = Old
    BY <1>2, <1>3 DEF MidiInv, MoveOK
  <2> QED
    BY <2>2, <2>3, <2>4 DEF MoveOK
<1>8. GrowOK'
  BY <1>1 DEF MidiInv, GrowOK, Growing, AnyTake
<1>9. SavedOK'
  <2>1. buffer[u] = {}
    <3>1. played[u] = 0 /\ buffer[u] \subseteq 1..played[u]
      BY <1>1 DEF MidiInv, EventsOK
    <3> QED
      BY <3>1
  <2> SUFFICES ASSUME NEW t \in AnyTake, t \notin deleted, "switched" \notin hurt[t]
               PROVE  Pending(t)' \/ Covered(t)'
    BY DEF SavedOK
  <2>2. Pending(t) \/ Covered(t)
    BY DEF MidiInv, SavedOK
  <2>3. Pending(t) => Pending(t)'
    BY DEF Pending
  <2>4. Covered(t) => Covered(t)'
    BY <2>1 DEF Covered
  <2> QED
    BY <2>2, <2>3, <2>4
<1>10. ErasedOK'
  <2> SUFFICES ASSUME NEW t \in deleted, hurt[t] \cap {"raced", "reloaded"} = {} PROVE Erased(t)'
    BY DEF ErasedOK
  <2>1. Erased(t) /\ t \in AnyTake
    BY DEF MidiInv, MidiTypes, ErasedOK
  <2>2. t # u
    BY <2>1, <1>3 DEF Erased
  <2> QED
    BY <2>1, <2>2, <1>2 DEF Erased
<1>11. FinishedIsShown'
  BY <1>2, ShownStays DEF MidiInv
<1> QED
  BY <1>4, <1>5, <1>6, <1>7, <1>8, <1>9, <1>10, <1>11 DEF MidiInv

LEMMA MoveCommitKeeps == ASSUME MidiInv, NEW u \in AnyTake, MoveCommits(u) PROVE MidiInv'
<1> DEFINE f == Doc(hydrating[u].events)
<1>1. /\ hydrating[u].phase = "moving" /\ Hydrated(u, hydrating[u].events)
      /\ store' = [store EXCEPT !.file[u] = f, !.legacy[u] = Absent]
      /\ UNCHANGED <<unsaved, live, rolled, played, view, deleted, hurt, lane, capture, buffer,
                     timer, chain, saving>>
  BY DEF MoveCommits, midiSession, midiHistory
<1>2. hydrating[u].events = Old
  BY <1>1 DEF MidiInv, MoveOK
<1>3. f = Doc(Old) /\ f \in MidiFile /\ Absent \in MidiFile
  BY <1>2 DEF Doc, Old, MidiFile, Absent
<1> HIDE DEF f
<1>4. /\ store.file \in [AnyTake -> MidiFile] /\ store.legacy \in [AnyTake -> MidiFile]
      /\ store.kind \in {"opfs", "local"}
      /\ store = [kind |-> store.kind, file |-> store.file, legacy |-> store.legacy]
  BY DEF MidiInv, MidiTypes
<1>5. store' = [[store EXCEPT !.file[u] = f] EXCEPT !.legacy[u] = Absent]
  BY <1>1
<1>6. store' = [kind |-> store.kind, file |-> [store.file EXCEPT ![u] = f],
                legacy |-> [store.legacy EXCEPT ![u] = Absent]]
  BY <1>4, <1>5
<1>7. /\ [store.file EXCEPT ![u] = f] \in [AnyTake -> MidiFile]
      /\ [store.legacy EXCEPT ![u] = Absent] \in [AnyTake -> MidiFile]
  BY <1>3, <1>4
<1>8. /\ store' \in [kind : {"opfs", "local"}, file : [AnyTake -> MidiFile], legacy : [AnyTake -> MidiFile]]
      /\ store'.kind = store.kind
      /\ store'.file[u] = f /\ (\A t \in AnyTake : t # u => store'.file[t] = store.file[t])
      /\ \A t \in AnyTake : store'.legacy[t] = store.legacy[t] \/ (t = u /\ store'.legacy[t] = Absent /\ f = Doc(Old))
  BY <1>3, <1>4, <1>6, <1>7
<1> QED
  BY <1>1, <1>3, <1>8, MoveEndKeeps

LEMMA MoveFailKeeps == ASSUME MidiInv, NEW u \in AnyTake, MoveFails(u) PROVE MidiInv'
<1>1. /\ hydrating[u].phase = "moving" /\ Hydrated(u, hydrating[u].events)
      /\ UNCHANGED <<unsaved, live, rolled, played, view, deleted, hurt, lane, capture, buffer,
                     timer, chain, saving>>
  BY DEF MoveFails, midiSession
<1>2. PICK f \in AfterFailedWrite(store.file[u]) : store' = [store EXCEPT !.file[u] = f]
  BY DEF MoveFails
<1>3. store.file[u] \in MidiFile
  BY DEF MidiInv, MidiTypes
<1>4. f \in MidiFile /\ (f = store.file[u] \/ (store.file[u].is # "doc" /\ f.is # "doc" /\ f.events = {}))
  BY <1>2, <1>3, FailedWriteIs
<1>5. /\ store' \in [kind : {"opfs", "local"}, file : [AnyTake -> MidiFile], legacy : [AnyTake -> MidiFile]]
      /\ store'.kind = store.kind /\ store'.legacy = store.legacy
      /\ store'.file[u] = f /\ \A t \in AnyTake : t # u => store'.file[t] = store.file[t]
  BY <1>2, <1>4, OneFile DEF MidiInv
<1> QED
  BY <1>1, <1>4, <1>5, MoveEndKeeps

\* The page learns that a take began or ended.
LEMMA StopHeardKeeps == ASSUME MidiInv, onTake, live = NoMidiTake PROVE MidiInv'
<1> USE MidiAssumption
<1>1. /\ HasRoom /\ view' = NoMidiTake /\ capture' = NoMidiTake
      /\ UNCHANGED <<midiDisk, live, rolled, played, lane, saving, hydrating, deleted, buffer, hurt>>
  BY DEF onTake
<1>2. UNCHANGED <<store, unsaved>>
  BY <1>1 DEF midiDisk
<1>3. /\ capture \in MidiTake \cup {NoMidiTake} /\ (capture # NoMidiTake => capture \notin deleted)
      /\ \A t \in MidiTake \ deleted : "tail" \notin hurt[t] /\ capture = t => store.file[t].events \subseteq buffer[t]
  BY DEF MidiInv, MidiTypes, CaptureOK, GrowOK, Growing
<1>4. CASE capture # NoMidiTake
  <2>1. /\ timer' = FALSE /\ cache' = [cache EXCEPT ![capture] = Doc(buffer[capture])]
        /\ chain' = IF buffer[capture] # {} THEN persist(capture) ELSE chain
        /\ capture \in MidiTake /\ capture \in AnyTake /\ capture \notin deleted
    BY <1>3, <1>4 DEF onTake, finishCapture, AnyTake
  <2>2. QueueOK' /\ GrowOK' /\ SavedOK' /\ ErasedOK' /\ chain' \in Seq(QueuedOp)
    <3>1. CASE buffer[capture] # {}
      <4>1. chain' = persist(capture)
        BY <2>1, <3>1
      <4> QED
        BY <4>1, <2>1, <1>1, <1>3, SaveQueued, ErasedQueued
    <3>2. CASE buffer[capture] = {}
      <4>1. chain' = chain
        BY <2>1, <3>2
      <4>2. QueueOK' /\ GrowOK' /\ ErasedOK' /\ chain' \in Seq(QueuedOp)
        BY <4>1, <1>1, <1>2 DEF MidiInv, MidiTypes, QueueOK, GrowOK, Growing, ErasedOK, Erased
      <4>3. SavedOK'
        <5> SUFFICES ASSUME NEW t \in AnyTake, t \notin deleted, "switched" \notin hurt[t]
                     PROVE  Pending(t)' \/ Covered(t)'
          BY <1>1 DEF SavedOK
        <5>1. Pending(t) \/ Covered(t)
          BY DEF MidiInv, SavedOK
        <5>2. Covered(t) => Covered(t)'
          BY <1>1, <1>2 DEF Covered
        <5>3. capture = t => Covered(t)'
          BY <3>2, <1>1 DEF Covered
        <5>4. Pending(t) /\ capture # t => Pending(t)'
          BY <4>1, <1>1 DEF Pending
        <5> QED
          BY <5>1, <5>2, <5>3, <5>4
      <4> QED
        BY <4>2, <4>3
    <3> QED
      BY <3>1, <3>2
  <2>3. Doc(buffer[capture]) \in Shown /\ cache \in [AnyTake -> Shown]
    BY <2>1 DEF MidiInv, MidiTypes, Doc, Shown
  <2>4. /\ cache' \in [AnyTake -> Shown] /\ cache'[capture] = Doc(buffer[capture])
        /\ \A t \in AnyTake : t # capture => cache'[t] = cache[t]
    BY <2>1, <2>3
  <2>5. MidiTypes'
    <3>1. timer' \in BOOLEAN
      BY <2>1
    <3> QED
      BY <3>1, <2>2, <2>4, <1>1, <1>2 DEF MidiInv, MidiTypes
  <2>6. FinishedIsShown'
    BY <2>4, <1>1 DEF MidiInv, FinishedIsShown
  <2>7. CaptureOK' /\ EventsOK' /\ MoveOK'
    BY <1>1, <1>2 DEF MidiInv, MidiTypes, CaptureOK, EventsOK, MoveOK, AnyTake
  <2> QED
    BY <2>2, <2>5, <2>6, <2>7 DEF MidiInv
<1>5. CASE capture = NoMidiTake
  <2>1. UNCHANGED <<capture, timer, chain, cache>>
    BY <1>1, <1>5 DEF onTake
  <2>2. MidiTypes'
    BY <2>1, <1>1, <1>2 DEF MidiInv, MidiTypes
  <2>3. CaptureOK' /\ QueueOK' /\ EventsOK' /\ MoveOK'
    BY <2>1, <1>1, <1>2, <1>5 DEF MidiInv, MidiTypes, CaptureOK, QueueOK, EventsOK, MoveOK, AnyTake
  <2>4. GrowOK' /\ SavedOK' /\ FinishedIsShown' /\ ErasedOK'
    BY <2>1, <1>1, <1>2 DEF MidiInv, GrowOK, Growing, SavedOK, Pending, Covered, FinishedIsShown,
                            ErasedOK, Erased
  <2> QED
    BY <2>2, <2>3, <2>4 DEF MidiInv
<1> QED
  BY <1>4, <1>5

LEMMA StartHeardKeeps == ASSUME MidiInv, onTake, live # NoMidiTake PROVE MidiInv'
<1> USE MidiAssumption
<1>1. /\ view # live /\ view' = live /\ live \in MidiTake /\ live \in AnyTake
      /\ UNCHANGED <<store, unsaved, live, rolled, played, lane, saving, hydrating, deleted, timer, chain, cache>>
  BY DEF onTake, midiDisk, MidiInv, MidiTypes, AnyTake
<1>2. capture # live /\ (lane # "live" => capture = NoMidiTake)
  BY <1>1 DEF MidiInv, CaptureOK
<1>3. CASE lane # "live"
  <2>1. UNCHANGED <<capture, buffer, hurt>>
    BY <1>3 DEF onTake
  <2>2. MidiTypes'
    BY <2>1, <1>1 DEF MidiInv, MidiTypes
  <2>3. CaptureOK' /\ QueueOK' /\ EventsOK' /\ MoveOK'
    BY <2>1, <1>1, <1>2, <1>3 DEF MidiInv, CaptureOK, QueueOK, EventsOK, MoveOK
  <2>4. GrowOK' /\ SavedOK' /\ FinishedIsShown' /\ ErasedOK'
    BY <2>1, <1>1 DEF MidiInv, GrowOK, Growing, SavedOK, Pending, Covered, FinishedIsShown,
                      ErasedOK, Erased
  <2> QED
    BY <2>2, <2>3, <2>4 DEF MidiInv
<1>4. CASE lane = "live"
  <2>1. /\ capture' = live /\ buffer' = [buffer EXCEPT ![live] = {}]
        /\ hurt' = [t \in AnyTake |->
                      hurt[t] \cup (IF t = capture THEN {"switched"} ELSE {})
                              \cup (IF t = live /\ played[live] > 0 THEN {"tail"} ELSE {})]
    BY <1>1, <1>4 DEF onTake
  <2>2. /\ buffer' \in [AnyTake -> SUBSET Nat] /\ buffer'[live] = {}
        /\ \A t \in AnyTake : t # live => buffer'[t] = buffer[t]
    BY <2>1, <1>1 DEF MidiInv, MidiTypes
  <2>3. /\ hurt' \in [AnyTake -> SUBSET {"switched", "tail", "raced", "reloaded"}]
        /\ \A t \in AnyTake : /\ hurt[t] \subseteq hurt'[t]
                              /\ t = capture => "switched" \in hurt'[t]
                              /\ t = live /\ played[live] > 0 => "tail" \in hurt'[t]
    BY <2>1 DEF MidiInv, MidiTypes
  <2>4. MidiTypes'
    BY <2>1, <2>2, <2>3, <1>1 DEF MidiInv, MidiTypes
  <2>5. CaptureOK' /\ QueueOK' /\ MoveOK'
    BY <2>1, <1>1, <1>4 DEF MidiInv, CaptureOK, QueueOK, MoveOK
  <2>6. EventsOK'
    <3>1. Cardinality(buffer'[live]) <= MidiCap
      BY <2>2, FS_EmptySet
    <3>2. \A t \in MidiTake : store'.kind = "local" => Cardinality(buffer'[t]) <= MidiCap
      BY <3>1, <2>2, <1>1 DEF MidiInv, EventsOK, AnyTake
    <3>3. \A t \in AnyTake : buffer'[t] \subseteq 1..played'[t]
      BY <2>2, <1>1 DEF MidiInv, EventsOK
    <3> QED
      BY <3>2, <3>3, <1>1 DEF MidiInv, EventsOK
  <2>7. GrowOK'
    <3> SUFFICES ASSUME NEW t \in MidiTake \ deleted, "tail" \notin hurt'[t] PROVE Growing(t)'
      BY <1>1 DEF GrowOK
    <3>1. t \in AnyTake /\ "tail" \notin hurt[t] /\ Growing(t)
      BY <2>3 DEF MidiInv, GrowOK, AnyTake
    <3>2. CASE t = live
      <4>1. played[t] = 0
        BY <2>3, <3>1, <3>2 DEF MidiInv, MidiTypes
      <4>2. 1..played[t] = {} /\ t # NoMidiTake
        BY <4>1
      <4>3. store.file[t].events = {} /\ (saving.take = t => saving.events = {})
        BY <4>2 DEF MidiInv, EventsOK
      <4> QED
        BY <4>3, <1>1 DEF Growing
    <3>3. CASE t # live
      BY <3>1, <3>3, <2>1, <2>2, <1>1 DEF Growing
    <3> QED
      BY <3>2, <3>3
  <2>8. SavedOK'
    <3> SUFFICES ASSUME NEW t \in AnyTake, t \notin deleted, "switched" \notin hurt'[t]
                 PROVE  Pending(t)' \/ Covered(t)'
      BY <1>1 DEF SavedOK
    <3>1. t # capture /\ (Pending(t) \/ Covered(t))
      BY <2>3 DEF MidiInv, SavedOK
    <3>2. CASE t = live
      BY <3>2, <2>2 DEF Covered
    <3>3. CASE t # live
      <4>1. Pending(t) => Pending(t)'
        BY <3>1, <1>1 DEF Pending
      <4>2. Covered(t) => Covered(t)'
        BY <3>3, <2>2, <1>1 DEF Covered
      <4> QED
        BY <3>1, <4>1, <4>2
    <3> QED
      BY <3>2, <3>3
  <2>9. ErasedOK'
    BY <2>3, <1>1 DEF MidiInv, MidiTypes, ErasedOK, Erased
  <2>10. FinishedIsShown'
    BY <2>1, <2>2, <2>3, <1>1 DEF MidiInv, FinishedIsShown
  <2> QED
    BY <2>4, <2>5, <2>6, <2>7, <2>8, <2>9, <2>10 DEF MidiInv
<1> QED
  BY <1>3, <1>4

\* A take is deleted: never one that rolls, or that the page takes to roll.
LEMMA DeleteKeeps == ASSUME MidiInv, NEW u \in AnyTake, deleteTakeMidi(u) PROVE MidiInv'
<1> USE MidiAssumption
<1> DEFINE w == [op |-> "remove", take |-> u]
           f == IF store.kind = "local" THEN Absent ELSE store.file[u]
           h == IF hydrating[u] # Idle THEN {"raced"} ELSE {}
<1>1. /\ u \in (rolled \cup OldTake) \ (deleted \cup {live, view}) /\ HasRoom
      /\ deleted' = deleted \cup {u} /\ cache' = [cache EXCEPT ![u] = Absent]
      /\ timer' = (timer /\ capture # u) /\ chain' = Append(chain, w)
      /\ store' = [store EXCEPT !.legacy[u] = Absent, !.file[u] = IF store.kind = "local" THEN Absent ELSE @]
      /\ hurt' = [hurt EXCEPT ![u] = @ \cup h]
      /\ UNCHANGED <<unsaved, live, rolled, played, view, lane, capture, buffer, saving, hydrating>>
  BY DEF deleteTakeMidi, midiSession
<1>2. capture # u
  BY <1>1 DEF MidiInv, CaptureOK, AnyTake
<1>3. timer' = timer
  BY <1>1, <1>2 DEF MidiInv, MidiTypes
<1>4. /\ store.file \in [AnyTake -> MidiFile] /\ store.legacy \in [AnyTake -> MidiFile]
      /\ store.kind \in {"opfs", "local"} /\ Absent \in MidiFile /\ f \in MidiFile
      /\ store = [kind |-> store.kind, file |-> store.file, legacy |-> store.legacy]
  BY DEF MidiInv, MidiTypes, Absent, MidiFile
<1>5. store' = [[store EXCEPT !.legacy[u] = Absent] EXCEPT !.file[u] = f]
  BY <1>1, <1>4
<1>6. f = Absent \/ f = store.file[u]
  OBVIOUS
<1>w. w \in QueuedOp /\ w.op = "remove" /\ w.take = u /\ chain \in Seq(QueuedOp)
  BY DEF QueuedOp, MidiInv, MidiTypes
<1>h. h \in SUBSET {"switched", "tail", "raced", "reloaded"} /\ ("raced" \notin h => hydrating[u] = Idle)
  OBVIOUS
<1> HIDE DEF w, f, h
<1>7. store' = [kind |-> store.kind, file |-> [store.file EXCEPT ![u] = f],
                legacy |-> [store.legacy EXCEPT ![u] = Absent]]
  BY <1>4, <1>5
<1>8. /\ [store.file EXCEPT ![u] = f] \in [AnyTake -> MidiFile]
      /\ [store.legacy EXCEPT ![u] = Absent] \in [AnyTake -> MidiFile]
  BY <1>4
<1>9. /\ store' \in [kind : {"opfs", "local"}, file : [AnyTake -> MidiFile], legacy : [AnyTake -> MidiFile]]
      /\ store'.kind = store.kind
      /\ store'.file[u] = f /\ store'.legacy[u] = Absent
      /\ \A t \in AnyTake : t # u => store'.file[t] = store.file[t] /\ store'.legacy[t] = store.legacy[t]
  BY <1>4, <1>7, <1>8
<1>10. \A t : /\ Len(chain') = Len(chain) + 1
              /\ Queued(chain, t) => Queued(chain', t)
              /\ QueuedBehind(chain, t) => QueuedBehind(chain', t)
              /\ Queued(chain', t) => Queued(chain, t)
              /\ Erasing(chain, t) => Erasing(chain', t)
  BY <1>1, <1>w, MoreQueued
<1>11. /\ chain' \in Seq(QueuedOp) /\ chain' # <<>> /\ (chain # <<>> => Head(chain') = Head(chain))
       /\ Erasing(chain', u)
  BY <1>1, <1>w, MoreQueued
<1>12. /\ hurt' \in [AnyTake -> SUBSET {"switched", "tail", "raced", "reloaded"}]
       /\ hurt'[u] = hurt[u] \cup h
       /\ \A t \in AnyTake : t # u => hurt'[t] = hurt[t]
  BY <1>1, <1>h DEF MidiInv, MidiTypes
<1>13. cache' \in [AnyTake -> Shown] /\ \A t \in AnyTake : t # u => cache'[t] = cache[t]
  <2>1. Absent \in Shown
    BY DEF Absent, Shown
  <2> QED
    BY <2>1, <1>1 DEF MidiInv, MidiTypes
<1>14. MidiTypes'
  BY <1>1, <1>3, <1>9, <1>11, <1>12, <1>13 DEF MidiInv, MidiTypes
<1>15. CaptureOK'
  BY <1>1 DEF MidiInv, CaptureOK
<1>16. QueueOK'
  <2>1. \A i \in 1..Len(chain') : chain'[i] = w \/ (i \in 1..Len(chain) /\ chain'[i] = chain[i])
    BY <1>1, <1>w
  <2>2. Len(chain') <= MaxChain
    <3>1. Len(chain') = Len(chain) + 1 /\ Len(chain) \in Nat
      BY <1>1, <1>w
    <3> QED
      BY <3>1, <1>1 DEF HasRoom
  <2> QED
    BY <1>1, <1>w, <1>11, <2>1, <2>2 DEF MidiInv, QueueOK
<1>17. EventsOK'
  <2>1. Absent.events = {} /\ Absent.is # "doc"
    BY DEF Absent
  <2>2. \A t \in AnyTake : /\ store'.file[t].events \subseteq store.file[t].events
                           /\ store'.file[t].is # "doc" => store'.file[t].events = {}
                           /\ store.legacy[t] = Absent => store'.legacy[t] = Absent
    BY <2>1, <1>6, <1>9 DEF MidiInv, EventsOK
  <2>3. \A t \in MidiTake \cup OldTake : t \in AnyTake
    BY DEF AnyTake
  <2> QED
    BY <2>2, <2>3, <1>1, <1>9 DEF MidiInv, EventsOK
<1>18. MoveOK'
  BY <1>1, <1>9 DEF MidiInv, MoveOK, AnyTake
<1>19. GrowOK'
  BY <1>1, <1>9, <1>10, <1>12 DEF MidiInv, GrowOK, Growing, AnyTake
<1>20. SavedOK'
  <2> SUFFICES ASSUME NEW t \in AnyTake, t \notin deleted', "switched" \notin hurt'[t]
               PROVE  Pending(t)' \/ Covered(t)'
    BY DEF SavedOK
  <2>1. t # u /\ t \notin deleted /\ hurt'[t] = hurt[t]
    BY <1>1, <1>12
  <2>2. Pending(t) \/ Covered(t)
    BY <2>1 DEF MidiInv, SavedOK
  <2>3. Pending(t) => Pending(t)'
    BY <1>1, <1>3, <1>10 DEF Pending
  <2>4. Covered(t) => Covered(t)'
    BY <2>1, <1>1, <1>9 DEF Covered
  <2> QED
    BY <2>2, <2>3, <2>4
<1>21. ErasedOK'
  <2> SUFFICES ASSUME NEW t \in deleted', hurt'[t] \cap {"raced", "reloaded"} = {} PROVE Erased(t)'
    BY DEF ErasedOK
  <2>1. CASE t = u
    <3>1. hydrating[u] = Idle
      BY <2>1, <1>12, <1>h
    <3> QED
      BY <3>1, <2>1, <1>1, <1>9, <1>11 DEF Erased
  <2>2. CASE t # u
    <3>1. Erased(t) /\ t \in AnyTake
      BY <2>2, <1>1, <1>12 DEF MidiInv, MidiTypes, ErasedOK
    <3> QED
      BY <3>1, <2>2, <1>1, <1>9, <1>10 DEF Erased
  <2> QED
    BY <2>1, <2>2
<1>22. FinishedIsShown'
  BY <1>1, <1>12, <1>13 DEF MidiInv, FinishedIsShown
<1> QED
  BY <1>14, <1>15, <1>16, <1>17, <1>18, <1>19, <1>20, <1>21, <1>22 DEF MidiInv

\* The page is gone with its lists and its queue.
LEMMA ReloadKeeps == ASSUME MidiInv, Reload PROVE MidiInv'
<1> USE MidiAssumption
<1>1. /\ view' = NoMidiTake /\ lane' = "off" /\ capture' = NoMidiTake /\ timer' = FALSE
      /\ buffer' = [t \in AnyTake |-> {}] /\ chain' = <<>> /\ saving' = NoSave
      /\ cache' = [t \in AnyTake |-> Absent] /\ hydrating' = [t \in AnyTake |-> Idle]
      /\ hurt' = [t \in AnyTake |-> IF t \in deleted THEN hurt[t] \cup {"reloaded"} ELSE hurt[t]]
      /\ UNCHANGED <<store, unsaved, live, rolled, played, deleted>>
  BY DEF Reload, midiDisk
<1>2. /\ hurt' \in [AnyTake -> SUBSET {"switched", "tail", "raced", "reloaded"}]
      /\ \A t \in deleted : t \in AnyTake /\ "reloaded" \in hurt'[t]
  BY <1>1 DEF MidiInv, MidiTypes
<1>3. \A t \in AnyTake : buffer'[t] = {} /\ ~Queued(chain', t) /\ saving'.take # t /\ capture' # t
                         /\ Cardinality(buffer'[t]) = 0
  BY <1>1, NoneQueued, FS_EmptySet DEF NoSave, AnyTake
<1>4. saving'.take = NoMidiTake
  BY <1>1 DEF NoSave
<1>5. MidiTypes'
  <2>1. chain' \in Seq(QueuedOp) /\ saving' \in [take : AnyTake \cup {NoMidiTake}, events : SUBSET Nat]
    BY <1>1 DEF NoSave
  <2>2. Absent \in Shown /\ Idle \in [phase : {"none", "reading", "moving"}, events : SUBSET Nat]
    BY DEF Absent, Shown, Idle
  <2>3. /\ hydrating' \in [AnyTake -> [phase : {"none", "reading", "moving"}, events : SUBSET Nat]]
        /\ cache' \in [AnyTake -> Shown] /\ buffer' \in [AnyTake -> SUBSET Nat] /\ timer' \in BOOLEAN
    BY <1>1, <2>2
  <2> QED
    BY <1>1, <1>2, <2>1, <2>3 DEF MidiInv, MidiTypes
<1>6. CaptureOK' /\ QueueOK'
  BY <1>1 DEF MidiInv, MidiTypes, CaptureOK, QueueOK, AnyTake
<1>7. EventsOK'
  <2>1. \A t \in MidiTake : t \in AnyTake
    BY DEF AnyTake
  <2> QED
    BY <2>1, <1>1, <1>3, <1>4 DEF MidiInv, EventsOK
<1>8. MoveOK'
  <2>1. Idle.phase # "moving"
    BY DEF Idle
  <2> QED
    BY <2>1, <1>1 DEF MidiInv, MoveOK
<1>9. GrowOK' /\ SavedOK' /\ FinishedIsShown'
  BY <1>3 DEF GrowOK, Growing, SavedOK, Covered, FinishedIsShown, AnyTake
<1>10. ErasedOK'
  BY <1>1, <1>2 DEF ErasedOK
<1> QED
  BY <1>5, <1>6, <1>7, <1>8, <1>9, <1>10 DEF MidiInv

LEMMA MidiStep == MidiInv /\ [MidiNext]_midiVars => MidiInv'
<1> SUFFICES ASSUME MidiInv, [MidiNext]_midiVars PROVE MidiInv'
  OBVIOUS
<1>1. CASE UNCHANGED midiVars
  <2>1. UNCHANGED <<store, live, rolled, played, view, lane, capture, buffer, timer, chain,
                    saving, cache, hydrating, deleted, unsaved, hurt>>
    BY <1>1 DEF midiVars
  <2>2. MidiTypes' /\ CaptureOK' /\ QueueOK' /\ EventsOK' /\ MoveOK'
    BY <2>1 DEF MidiInv, MidiTypes, CaptureOK, QueueOK, EventsOK, MoveOK
  <2>3. GrowOK' /\ SavedOK' /\ FinishedIsShown' /\ ErasedOK'
    BY <2>1 DEF MidiInv, GrowOK, Growing, SavedOK, Pending, Covered, FinishedIsShown, ErasedOK, Erased
  <2> QED
    BY <2>2, <2>3 DEF MidiInv
<1>2. CASE (\E t \in MidiTake : TakeBegins(t)) \/ TakeEnds
  BY <1>2, TakeLifeKeeps
<1>3. CASE onTake
  BY <1>3, StopHeardKeeps, StartHeardKeeps
<1>4. CASE onMessage \/ flushCapture \/ SaveStarts \/ SaveCommits \/ SaveFails \/ RemoveRuns
  BY <1>4, MessageKeeps, FlushKeeps, SaveStartKeeps, CommitKeeps, WriteFailKeeps, RemovalKeeps
<1>5. CASE \E t \in AnyTake : takeMidi(t) \/ HydrateReads(t) \/ MoveCommits(t) \/ MoveFails(t)
  BY <1>5, ReadBeginKeeps, ReadKeeps, MoveCommitKeeps, MoveFailKeeps
<1>6. CASE OpenPicker \/ AccessAnswered \/ ChooseInput \/ disable
  BY <1>6, InputCardKeeps
<1>7. CASE (\E t \in AnyTake : deleteTakeMidi(t)) \/ Reload
  BY <1>7, DeleteKeeps, ReloadKeeps
<1> QED
  BY <1>1, <1>2, <1>3, <1>4, <1>5, <1>6, <1>7 DEF MidiNext

-----------------------------------------------------------------------------
(* What the invariant says.                                                *)

LEMMA MidiInvIsSound == ASSUME MidiInv PROVE MidiSound
<1>1. MidiTypeOK
  <2>1. capture \in AnyTake \cup {NoMidiTake} /\ (capture # NoMidiTake => capture = view)
    BY DEF MidiInv, MidiTypes, CaptureOK, AnyTake
  <2>2. Len(chain) <= MaxChain /\ (saving # NoSave => chain # <<>> /\ Head(chain).take = saving.take)
    BY DEF MidiInv, QueueOK
  <2> QED
    BY <2>1, <2>2 DEF MidiInv, EventsOK, MidiTypeOK
<1>2. ASSUME Settled PROVE saving = NoSave /\ \A t : ~Queued(chain, t) /\ ~Erasing(chain, t) /\ ~Pending(t)
  <2>1. chain = <<>> /\ timer # TRUE
    BY <1>2 DEF Settled
  <2>2. saving = NoSave
    BY <2>1 DEF MidiInv, QueueOK
  <2>3. \A t : ~Queued(chain, t)
    BY <2>1, NoneQueued
  <2>4. Len(chain) = 0
    BY <2>1
  <2>5. \A t : ~Erasing(chain, t)
    BY <2>4 DEF Erasing
  <2> QED
    BY <2>1, <2>2, <2>3, <2>5 DEF Pending
<1>3. HeardIsStored
  <2> SUFFICES ASSUME Settled, NEW t \in AnyTake \ (deleted \cup unsaved), "switched" \notin hurt[t]
               PROVE  buffer[t] \subseteq store.file[t].events
    BY DEF HeardIsStored
  <2>1. Covered(t)
    BY <1>2 DEF MidiInv, SavedOK
  <2>2. saving.take # t
    BY <1>2, MidiAssumption DEF NoSave, AnyTake
  <2> QED
    BY <2>1, <2>2 DEF Covered
<1>4. OldIsKept
  <2>1. Doc(Old).events = Old
    BY DEF Doc
  <2> QED
    BY <2>1 DEF MidiInv, MoveOK, OldIsKept
<1>5. DeletedIsErased
  <2> SUFFICES ASSUME Settled, NEW t \in deleted, hurt[t] \cap {"raced", "reloaded"} = {}
               PROVE  store.file[t].events = {} /\ store.legacy[t] = Absent
    BY DEF DeletedIsErased
  <2>1. Erased(t)
    BY DEF MidiInv, ErasedOK
  <2> QED
    BY <2>1, <1>2 DEF Erased
<1> QED
  BY <1>1, <1>3, <1>4, <1>5 DEF MidiSound, MidiInv

\* A step that writes a file writes what it held, and more.
LEMMA FilesGrow ==
    ASSUME MidiInv, [MidiNext]_midiVars, NEW t \in AnyTake, t \notin deleted', "tail" \notin hurt[t]
    PROVE  store.file[t].events \subseteq store'.file[t].events
<1> USE MidiAssumption
<1>1. CASE UNCHANGED store
  BY <1>1
<1>2. CASE SaveCommits
  <2> DEFINE u == saving.take
             f == Doc(saving.events)
  <2>1. /\ saving # NoSave /\ store' = [store EXCEPT !.file[u] = f] /\ deleted' = deleted
    BY <1>2 DEF SaveCommits, midiHistory
  <2>2. f \in MidiFile /\ f.events = saving.events
    BY DEF MidiInv, MidiTypes, MidiFile, Doc
  <2>3. u \in MidiTake /\ u \in AnyTake
    BY <2>1 DEF MidiInv, QueueOK, AnyTake
  <2> HIDE DEF f
  <2>4. store'.file[u] = f /\ \A x \in AnyTake : x # u => store'.file[x] = store.file[x]
    BY <2>1, <2>2, <2>3, OneFile DEF MidiInv
  <2>5. u = t => store.file[t].events \subseteq saving.events
    BY <2>1, <2>3 DEF MidiInv, GrowOK, Growing
  <2> QED
    BY <2>2, <2>4, <2>5
<1>3. CASE SaveFails \/ \E x \in AnyTake : MoveFails(x)
  <2>1. PICK u \in AnyTake :
            \E f \in AfterFailedWrite(store.file[u]) \cup {store.file[u]} : store' = [store EXCEPT !.file[u] = f]
    <3>1. CASE SaveFails
      <4>1. saving.take \in AnyTake
        BY <3>1 DEF SaveFails, MidiInv, QueueOK, AnyTake
      <4> QED
        BY <3>1, <4>1 DEF SaveFails
    <3>2. CASE \E x \in AnyTake : MoveFails(x)
      BY <3>2 DEF MoveFails
    <3> QED
      BY <1>3, <3>1, <3>2
  <2>2. PICK f \in AfterFailedWrite(store.file[u]) \cup {store.file[u]} : store' = [store EXCEPT !.file[u] = f]
    BY <2>1
  <2>3. store.file[u] \in MidiFile /\ (store.file[u].is # "doc" => store.file[u].events = {})
    BY DEF MidiInv, MidiTypes, EventsOK
  <2>4. f \in MidiFile /\ (f = store.file[u] \/ store.file[u].events = {})
    BY <2>2, <2>3, FailedWriteIs
  <2>5. store'.file[u] = f /\ \A x \in AnyTake : x # u => store'.file[x] = store.file[x]
    BY <2>2, <2>4, OneFile DEF MidiInv
  <2> QED
    BY <2>4, <2>5
<1>4. CASE RemoveRuns
  <2>1. /\ chain # <<>> /\ Head(chain).op = "remove" /\ deleted' = deleted
        /\ store' = [store EXCEPT !.file[Head(chain).take] = Absent]
    BY <1>4 DEF RemoveRuns, midiHistory
  <2>2. chain \in Seq(QueuedOp) /\ Absent \in MidiFile
    BY DEF MidiInv, MidiTypes, Absent, MidiFile
  <2>3. Head(chain) = chain[1] /\ 1 \in 1..Len(chain)
    BY <2>1, <2>2
  <2>4. Head(chain).take \in deleted /\ Head(chain).take \in AnyTake
    BY <2>1, <2>3 DEF MidiInv, MidiTypes, QueueOK
  <2>5. \A x \in AnyTake : x # Head(chain).take => store'.file[x] = store.file[x]
    BY <2>1, <2>2, <2>4, OneFile DEF MidiInv
  <2> QED
    BY <2>1, <2>4, <2>5
<1>5. CASE \E x \in AnyTake : MoveCommits(x)
  <2>1. PICK u \in AnyTake : MoveCommits(u)
    BY <1>5
  <2>2. /\ u \in OldTake /\ hydrating[u].events = Old
        /\ store' = [store EXCEPT !.file[u] = Doc(hydrating[u].events), !.legacy[u] = Absent]
    BY <2>1 DEF MoveCommits, MidiInv, MoveOK
  <2> DEFINE f == Doc(hydrating[u].events)
  <2>3. store' = [[store EXCEPT !.file[u] = f] EXCEPT !.legacy[u] = Absent]
    BY <2>2
  <2>4. f.events = Old /\ store.file[u].events \subseteq Old
    BY <2>2 DEF Doc, MidiInv, EventsOK
  <2> HIDE DEF f
  <2>5. store.file \in [AnyTake -> MidiFile] /\ store = [kind |-> store.kind, file |-> store.file, legacy |-> store.legacy]
    BY DEF MidiInv, MidiTypes
  <2>6. store' = [kind |-> store.kind, file |-> [store.file EXCEPT ![u] = f],
                  legacy |-> [store.legacy EXCEPT ![u] = Absent]]
    BY <2>3, <2>5
  <2>7. store'.file[u] = f /\ \A x \in AnyTake : x # u => store'.file[x] = store.file[x]
    BY <2>5, <2>6
  <2> QED
    BY <2>4, <2>7
<1>6. CASE \E u \in AnyTake : deleteTakeMidi(u)
  <2>1. PICK u \in AnyTake : deleteTakeMidi(u)
    BY <1>6
  <2>2. /\ u \in deleted'
        /\ store' = [store EXCEPT !.legacy[u] = Absent, !.file[u] = IF store.kind = "local" THEN Absent ELSE @]
    BY <2>1 DEF deleteTakeMidi
  <2> DEFINE f == IF store.kind = "local" THEN Absent ELSE store.file[u]
  <2>3. store.file \in [AnyTake -> MidiFile] /\ store = [kind |-> store.kind, file |-> store.file, legacy |-> store.legacy]
    BY DEF MidiInv, MidiTypes
  <2>4. store' = [[store EXCEPT !.legacy[u] = Absent] EXCEPT !.file[u] = f]
    BY <2>2, <2>3
  <2> HIDE DEF f
  <2>5. store' = [kind |-> store.kind, file |-> [store.file EXCEPT ![u] = f],
                  legacy |-> [store.legacy EXCEPT ![u] = Absent]]
    BY <2>3, <2>4
  <2>6. t # u /\ \A x \in AnyTake : x # u => store'.file[x] = store.file[x]
    BY <2>2, <2>3, <2>5
  <2> QED
    BY <2>6
<1>7. CASE \/ (\E x \in MidiTake : TakeBegins(x)) \/ TakeEnds \/ onTake \/ onMessage \/ flushCapture
           \/ SaveStarts \/ (\E x \in AnyTake : takeMidi(x) \/ HydrateReads(x))
           \/ OpenPicker \/ AccessAnswered \/ ChooseInput \/ disable \/ Reload \/ UNCHANGED midiVars
  <2>1. UNCHANGED store
    BY <1>7 DEF TakeBegins, TakeEnds, onTake, onMessage, flushCapture, SaveStarts, takeMidi, HydrateReads,
                OpenPicker, AccessAnswered, ChooseInput, disable, Reload, midiDisk, midiVars
  <2> QED
    BY <2>1
<1> QED
  BY <1>2, <1>3, <1>4, <1>5, <1>6, <1>7 DEF MidiNext

\* What was played is kept and shown until it is deleted, and not afterwards: in
\* memory, in the queue of writes and in both stores, whatever writes fail, pages
\* reload and reads are under way; and no step takes an event out of a file
\* (midi-store.ts, midi-take-library.ts).
THEOREM MidiStaysKept == MidiSpec => MidiIsKept
<1>1. MidiInv /\ [MidiNext]_midiVars
        => [\A t \in AnyTake \ deleted' :
              "tail" \notin hurt[t] => store.file[t].events \subseteq store'.file[t].events]_midiVars
  BY FilesGrow
<1>2. MidiInv => MidiSound
  BY MidiInvIsSound
<1> QED
  BY <1>1, <1>2, MidiStarts, MidiStep, PTL DEF MidiSpec, MidiIsKept, StoredOnlyGrows

-----------------------------------------------------------------------------
(***************************************************************************)
(* The lanes.  LaneInv: the ranks are sound for the page on screen, every  *)
(* end the page lists was told, and the map holds the move that stands.    *)
(***************************************************************************)
PageOf ==
    [roster : SUBSET LanePeer, status : SUBSET LaneStream, ready : BOOLEAN,
     attr : [takes : SUBSET {TakeWith[s] : s \in LaneStream}, owned : SUBSET LaneStream, peers : SUBSET LanePeer],
     list : [LaneStream -> [known : BOOLEAN, owned : BOOLEAN, final : BOOLEAN]]]
ArchiveOf ==
    [takes : SUBSET {TakeWith[s] : s \in LaneStream}, rows : SUBSET LaneStream, owned : SUBSET LaneStream,
     finals : SUBSET LaneStream]

LanesTyped ==
    /\ page \in PageOf /\ arch \in ArchiveOf
    /\ order \in [LaneKey -> Nat] /\ orderServer \in [LaneKey -> Nat]
    /\ synced \in BOOLEAN

\* What the page has of a stream the archive has, or an announcement said; what it says of
\* an end the sink worker was told.
LanesLearn ==
    /\ arch.finals \subseteq arch.rows
    /\ page.attr.owned \subseteq arch.owned
    /\ \A s \in LaneStream :
        /\ page.list[s].owned => page.list[s].known
        /\ page.list[s].final => s \in toldFinal
    /\ learned \subseteq toldFinal

\* A lane that late attribution re-keyed and the lane it became have one rank; no other two.
Twins(pg, s, p) == s \in LaneStream /\ peerByStream(pg, s) = p
RankedFor(r, pg) ==
    /\ \A k \in DOMAIN r : k \in LaneKey /\ r[k] \in Nat
    /\ candidates(pg) \subseteq DOMAIN r
    /\ \A s \in LaneStream : s \in DOMAIN r => s \in pg.status /\ pg.ready
    /\ \A k, l \in DOMAIN r : r[k] = r[l] => k = l \/ Twins(pg, k, l) \/ Twins(pg, l, k)

\* While the operator's last move stands, the shared map holds it and nothing else.
PinStands ==
    /\ synced => order = orderServer
    /\ \A k \in DOMAIN pinned : k \in LaneKey /\ pinned[k] \in Nat /\ pinned[k] < NoOrdinal
    /\ DOMAIN pinned # {} => orderServer = writeLaneOrder(pinned) /\ (synced \/ order = NoOrder)

LaneInv == LanesTyped /\ LanesLearn /\ RankedFor(laneRanks, page) /\ PinStands

\* Peers and streams are different keys.
LEMMA LaneFacts ==
    /\ IsFiniteSet(LaneKey) /\ NoOrdinal \in Nat
    /\ LanePeer \subseteq LaneKey /\ LaneStream \subseteq LaneKey
    /\ \A s \in LaneStream : OwnerOf[s] \in LanePeer /\ s \notin LanePeer
    /\ \A k \in LaneKey : k # NoOwner /\ (k \in LanePeer <=> k \notin LaneStream)
<1>1. IsFiniteSet(LaneKey)
  BY LaneAssumption, FS_Union DEF LaneKey
<1>2. NoOrdinal \in Nat
  BY <1>1, FS_CardinalityType DEF NoOrdinal
<1> QED
  BY <1>1, <1>2, LaneAssumption DEF LaneKey

\* The least of some naturals.
LEMMA LeastIs ==
    ASSUME NEW S \in SUBSET Nat, S # {}
    PROVE  Min(S) \in S /\ \A x \in S : Min(S) <= x
  BY LeastElement DEF Min

\* The next rank is above all.
LEMMA NextRankIs ==
    ASSUME NEW r, IsFiniteSet(DOMAIN r), \A k \in DOMAIN r : r[k] \in Nat
    PROVE  nextRank(r) \in Nat /\ \A k \in DOMAIN r : r[k] < nextRank(r)
<1>1. CASE DOMAIN r = {}
  BY <1>1 DEF nextRank
<1>2. CASE DOMAIN r # {}
  <2> DEFINE f == [k \in DOMAIN r |-> 0 - r[k]]
             T == {r[k] : k \in DOMAIN r}
  <2>1. f \in [DOMAIN r -> Int]
    OBVIOUS
  <2>2. PICK m \in DOMAIN r : \A x \in DOMAIN r : f[m] <= f[x]
    <3> HIDE DEF f
    <3> QED
      BY <1>2, <2>1, LeastBy
  <2>3. \A x \in DOMAIN r : r[x] <= r[m]
    BY <2>2
  <2>4. r[m] \in T /\ \A y \in T : r[m] >= y
    BY <2>3
  <2>5. Max(T) \in T /\ \A y \in T : Max(T) >= y
    <3> HIDE DEF T
    <3> QED
      BY <2>4 DEF Max
  <2>6. nextRank(r) = Max(T) + 1
    BY <1>2 DEF nextRank
  <2>7. Max(T) \in Nat /\ \A k \in DOMAIN r : r[k] <= Max(T)
    <3>1. T \subseteq Nat /\ \A k \in DOMAIN r : r[k] \in T
      OBVIOUS
    <3> HIDE DEF T
    <3> QED
      BY <2>5, <3>1
  <2> HIDE DEF T
  <2> QED
    BY <2>6, <2>7
<1> QED
  BY <1>1, <1>2

\* Who a stream is attributed to, and which keys a page shows.
LEMMA LaneKeys ==
    ASSUME NEW pg \in PageOf
    PROVE  /\ \A s \in LaneStream : peerByStream(pg, s) \in {OwnerOf[s], NoOwner}
           /\ candidates(pg) \subseteq LaneKey /\ pg.status \subseteq LaneStream
           /\ \A s \in LaneStream : s \in candidates(pg) =>
                 s \in pg.status /\ pg.ready /\ s \in OnRows(pg) /\ peerByStream(pg, s) = NoOwner
           /\ \A k \in LaneKey : \A s \in aliases(pg, k) :
                 /\ s \in LaneStream /\ s \in pg.status /\ k = OwnerOf[s] /\ k \in LanePeer
                 /\ peerByStream(pg, s) = k /\ k \in candidates(pg)
<1>1. \A s \in LaneStream : peerByStream(pg, s) \in {OwnerOf[s], NoOwner}
  BY DEF peerByStream
<1>2. pg.roster \subseteq LanePeer /\ pg.status \subseteq LaneStream
  BY DEF PageOf
<1>3. \A s \in pg.status : KeyOf(pg, s) \in {OwnerOf[s], s}
  BY <1>1, <1>2 DEF KeyOf
<1>4. OnRows(pg) \subseteq pg.status
  BY DEF OnRows
<1>5. candidates(pg) \subseteq LaneKey
  BY <1>2, <1>3, <1>4, LaneFacts DEF candidates
<1>6. ASSUME NEW s \in LaneStream, s \in candidates(pg)
      PROVE  s \in pg.status /\ pg.ready /\ s \in OnRows(pg) /\ peerByStream(pg, s) = NoOwner
  <2>1. PICK t \in OnRows(pg) : s = KeyOf(pg, t)
    BY <1>2, <1>6, LaneFacts DEF candidates
  <2>2. t \in LaneStream /\ s = t /\ peerByStream(pg, t) = NoOwner
    BY <1>1, <1>2, <1>4, <2>1, LaneFacts DEF KeyOf
  <2> QED
    BY <1>4, <2>1, <2>2 DEF OnRows
<1>7. ASSUME NEW k \in LaneKey, NEW s \in aliases(pg, k)
      PROVE  /\ s \in LaneStream /\ s \in pg.status /\ k = OwnerOf[s] /\ k \in LanePeer
             /\ peerByStream(pg, s) = k /\ k \in candidates(pg)
  <2>1. s \in pg.status /\ peerByStream(pg, s) = k /\ k # NoOwner /\ s \in LaneStream
    BY <1>2, LaneFacts DEF aliases
  <2>2. s \in OnRows(pg) /\ KeyOf(pg, s) = k
    BY <2>1 DEF OnRows, KeyOf
  <2> QED
    BY <1>1, <2>1, <2>2, LaneFacts DEF candidates
<1> QED
  BY <1>1, <1>2, <1>5, <1>6, <1>7

\* The keys a lane had before.
FormerKeys(r, pg, k) == aliases(pg, k) \cap DOMAIN r
Unseen(r, pg) == candidates(pg) \ DOMAIN r

\* What a render makes of the ranks: those there are stay, a lane nobody knew gets one of its
\* own above them, and a re-keyed one the least of its former keys'.
LEMMA RankShape ==
    ASSUME NEW r, NEW pg \in PageOf, \A k \in DOMAIN r : k \in LaneKey /\ r[k] \in Nat,
           NEW q \in stableLaneOrder(r, pg)
    PROVE  /\ DOMAIN q = DOMAIN r \cup candidates(pg)
           /\ \A k \in DOMAIN r : q[k] = r[k]
           /\ \A k \in Unseen(r, pg) : FormerKeys(r, pg, k) = {} =>
                 q[k] \in Nat /\ \A l \in DOMAIN r : r[l] < q[k]
           /\ \A k \in Unseen(r, pg) : FormerKeys(r, pg, k) # {} =>
                 /\ \E s \in FormerKeys(r, pg, k) : q[k] = r[s]
                 /\ \A s \in FormerKeys(r, pg, k) : q[k] <= r[s]
           /\ \A k, l \in Unseen(r, pg) :
                 (FormerKeys(r, pg, k) = {} /\ FormerKeys(r, pg, l) = {} /\ q[k] = q[l]) => k = l
<1> DEFINE newcomers == {k \in Unseen(r, pg) : FormerKeys(r, pg, k) = {}}
           from == nextRank(r)
<1>1. PICK new \in Assigned(from, pg, newcomers) :
         q = [k \in DOMAIN r \cup Unseen(r, pg) |->
                IF k \in DOMAIN r THEN r[k]
                ELSE IF k \in newcomers THEN new[k]
                ELSE Min({r[s] : s \in FormerKeys(r, pg, k)})]
  BY DEF stableLaneOrder, FormerKeys, Unseen
<1>2. PICK place \in [newcomers -> 0..Cardinality(newcomers)] :
        /\ new = [k \in newcomers |-> from + place[k]]
        /\ \A k, l \in newcomers : place[k] = place[l] => k = l
  BY <1>1 DEF Assigned
<1>3. from \in Nat /\ \A k \in DOMAIN r : r[k] < from
  <2>1. IsFiniteSet(DOMAIN r)
    BY LaneFacts, FS_Subset
  <2> QED
    BY <2>1, NextRankIs
<1>4. Cardinality(newcomers) \in Nat
  <2>1. newcomers \subseteq LaneKey
    BY LaneKeys DEF Unseen
  <2> QED
    BY <2>1, LaneFacts, FS_Subset, FS_CardinalityType
<1> HIDE DEF from
<1>5. \A k \in newcomers : place[k] \in Nat /\ new[k] = from + place[k]
  BY <1>2, <1>4
<1>6. DOMAIN q = DOMAIN r \cup candidates(pg) /\ \A k \in DOMAIN r : q[k] = r[k]
  BY <1>1 DEF Unseen
<1>7. \A k \in newcomers : q[k] = new[k]
  BY <1>1 DEF Unseen
<1>8. ASSUME NEW k \in Unseen(r, pg), FormerKeys(r, pg, k) # {}
      PROVE  /\ \E s \in FormerKeys(r, pg, k) : q[k] = r[s]
             /\ \A s \in FormerKeys(r, pg, k) : q[k] <= r[s]
  <2> DEFINE T == {r[s] : s \in FormerKeys(r, pg, k)}
  <2>1. q[k] = Min(T)
    BY <1>1, <1>8 DEF Unseen
  <2>2. T \in SUBSET Nat /\ T # {}
    BY <1>8 DEF FormerKeys
  <2>3. Min(T) \in T /\ \A x \in T : Min(T) <= x
    <3> HIDE DEF T
    <3> QED
      BY <2>2, LeastIs
  <2>4. q[k] \in T /\ \A x \in T : q[k] <= x
    BY <2>1, <2>3
  <2> QED
    BY <2>4
<1>9. \A k \in newcomers : q[k] \in Nat /\ \A l \in DOMAIN r : r[l] < q[k]
  BY <1>3, <1>5, <1>7
<1>10. ASSUME NEW k \in newcomers, NEW l \in newcomers, q[k] = q[l]
       PROVE  k = l
  <2>1. place[k] = place[l]
    BY <1>3, <1>5, <1>7, <1>10
  <2> QED
    BY <1>2, <2>1
<1>11. \A k \in Unseen(r, pg) : FormerKeys(r, pg, k) = {} =>
          q[k] \in Nat /\ \A l \in DOMAIN r : r[l] < q[k]
  BY <1>9
<1>12. \A k, l \in Unseen(r, pg) :
          (FormerKeys(r, pg, k) = {} /\ FormerKeys(r, pg, l) = {} /\ q[k] = q[l]) => k = l
  BY <1>10
<1> HIDE DEF newcomers
<1> QED
  BY <1>6, <1>8, <1>11, <1>12

\* Within a life of the page streams stay, and attribution is never taken back.
PageGrows(old, new) ==
    /\ old.status \subseteq new.status /\ (old.ready => new.ready)
    /\ \A s \in LaneStream : peerByStream(old, s) # NoOwner => peerByStream(new, s) = peerByStream(old, s)

\* What a render makes of sound ranks is sound: a re-keyed lane is its former key's twin.
LEMMA RanksStaySound ==
    ASSUME NEW r, NEW old \in PageOf, NEW pg \in PageOf, RankedFor(r, old), PageGrows(old, pg),
           NEW q \in stableLaneOrder(r, pg)
    PROVE  RankedFor(q, pg)
<1>1. \A k \in DOMAIN r : k \in LaneKey /\ r[k] \in Nat
  BY DEF RankedFor
<1>2. /\ DOMAIN q = DOMAIN r \cup candidates(pg)
      /\ \A k \in DOMAIN r : q[k] = r[k]
      /\ \A k \in Unseen(r, pg) : FormerKeys(r, pg, k) = {} =>
            q[k] \in Nat /\ \A l \in DOMAIN r : r[l] < q[k]
      /\ \A k \in Unseen(r, pg) : FormerKeys(r, pg, k) # {} =>
            \E s \in FormerKeys(r, pg, k) : q[k] = r[s]
      /\ \A k, l \in Unseen(r, pg) :
            (FormerKeys(r, pg, k) = {} /\ FormerKeys(r, pg, l) = {} /\ q[k] = q[l]) => k = l
  BY <1>1, RankShape
<1>3. \A k \in DOMAIN r : k \in LaneKey /\ r[k] \in Nat
  BY DEF RankedFor
<1>4. \A k \in DOMAIN q : k \in LaneKey /\ q[k] \in Nat
  <2>1. \A k \in Unseen(r, pg) : k \in LaneKey /\ q[k] \in Nat
    BY <1>2, <1>3, LaneKeys DEF Unseen, FormerKeys
  <2> QED
    BY <1>2, <1>3, <2>1 DEF Unseen
<1>5. \A s \in LaneStream : s \in DOMAIN q => s \in pg.status /\ pg.ready
  BY <1>2, LaneKeys DEF RankedFor, PageGrows
<1> DEFINE Ranked(k) == k \in DOMAIN r
           Novel(k) == k \in Unseen(r, pg) /\ FormerKeys(r, pg, k) = {}
           Rekeyed(k) == k \in Unseen(r, pg) /\ FormerKeys(r, pg, k) # {}
<1>6. ASSUME NEW k \in DOMAIN r, NEW l \in DOMAIN r, r[k] = r[l]
      PROVE  k = l \/ Twins(pg, k, l) \/ Twins(pg, l, k)
  <2>1. k = l \/ Twins(old, k, l) \/ Twins(old, l, k)
    BY <1>6 DEF RankedFor
  <2>2. \A x \in LaneKey, y \in LaneKey : Twins(old, x, y) => Twins(pg, x, y)
    BY LaneFacts DEF Twins, PageGrows
  <2> QED
    BY <1>3, <2>1, <2>2
<1>7. ASSUME NEW k \in Unseen(r, pg), NEW s \in FormerKeys(r, pg, k), q[k] = r[s],
             NEW l \in DOMAIN r, r[s] = r[l]
      PROVE  Twins(pg, l, k)
  <2>1. s \in LaneStream /\ peerByStream(pg, s) = k /\ k = OwnerOf[s] /\ k \in LaneKey
    BY LaneKeys DEF Unseen, FormerKeys
  <2>2. s = l \/ Twins(pg, s, l) \/ Twins(pg, l, s)
    BY <1>6, <1>7 DEF FormerKeys
  <2>3. ~Twins(pg, l, s)
    <3>1. s \in LaneKey /\ s \notin LanePeer /\ s # NoOwner
      BY <2>1, LaneFacts
    <3>2. l \in LaneStream => peerByStream(pg, l) # s
      BY <3>1, LaneFacts, LaneKeys
    <3> QED
      BY <3>2 DEF Twins
  <2>4. Twins(pg, s, l) => l = k
    BY <2>1 DEF Twins
  <2> QED
    <3>1. k \notin DOMAIN r
      BY DEF Unseen
    <3> QED
      BY <2>1, <2>2, <2>3, <2>4, <3>1 DEF Twins
<1> HIDE DEF Ranked, Novel, Rekeyed
<1>8. \A k \in DOMAIN q : Ranked(k) \/ Novel(k) \/ Rekeyed(k)
  BY <1>2 DEF Ranked, Novel, Rekeyed, Unseen
<1>9. \A k : Ranked(k) => k \in DOMAIN r /\ q[k] = r[k] /\ r[k] \in Nat
  BY <1>2, <1>3 DEF Ranked
<1>10. \A k, l : Novel(k) => q[k] \in Nat /\ (l \in DOMAIN r => r[l] < q[k])
  BY <1>2 DEF Novel
<1>11. \A k : Rekeyed(k) => k \in Unseen(r, pg) /\ \E s \in FormerKeys(r, pg, k) : q[k] = r[s]
  BY <1>2 DEF Rekeyed
<1>12. \A k : \A s \in FormerKeys(r, pg, k) : s \in DOMAIN r /\ r[s] \in Nat
  BY <1>3 DEF FormerKeys
<1>13. ASSUME NEW k \in DOMAIN q, NEW l \in DOMAIN q, q[k] = q[l]
      PROVE  k = l \/ Twins(pg, k, l) \/ Twins(pg, l, k)
  <2>1. CASE Ranked(k) /\ Ranked(l)
    BY <1>6, <1>13, <1>9, <2>1
  <2>2. CASE Novel(k) /\ Novel(l)
    BY <1>2, <1>13, <2>2 DEF Novel
  <2>3. CASE Ranked(k) /\ Novel(l)
    BY <1>13, <1>9, <1>10, <2>3
  <2>4. CASE Novel(k) /\ Ranked(l)
    BY <1>13, <1>9, <1>10, <2>4
  <2>5. CASE Rekeyed(k) /\ Ranked(l)
    BY <1>7, <1>13, <1>9, <1>11, <2>5
  <2>6. CASE Ranked(k) /\ Rekeyed(l)
    BY <1>7, <1>13, <1>9, <1>11, <2>6
  <2>7. CASE Rekeyed(k) /\ Novel(l)
    BY <1>13, <1>10, <1>11, <1>12, <2>7
  <2>8. CASE Novel(k) /\ Rekeyed(l)
    BY <1>13, <1>10, <1>11, <1>12, <2>8
  <2>9. CASE Rekeyed(k) /\ Rekeyed(l)
    <3>1. PICK s \in FormerKeys(r, pg, k) : q[k] = r[s]
      BY <1>11, <2>9
    <3>2. PICK t \in FormerKeys(r, pg, l) : q[l] = r[t]
      BY <1>11, <2>9
    <3>3. k \in Unseen(r, pg) /\ l \in Unseen(r, pg) /\ s \in DOMAIN r /\ t \in DOMAIN r /\ r[s] = r[t]
      BY <1>13, <1>11, <1>12, <2>9, <3>1, <3>2
    <3>4. Twins(pg, t, k)
      BY <1>7, <3>1, <3>3
    <3>5. t \in LaneStream /\ peerByStream(pg, t) = l
      <4>1. l \in LaneKey /\ t \in aliases(pg, l)
        BY <3>3, LaneKeys DEF Unseen, FormerKeys
      <4> QED
        BY <4>1, LaneKeys
    <3> QED
      BY <3>4, <3>5 DEF Twins
  <2> QED
    BY <1>13, <1>8, <2>1, <2>2, <2>3, <2>4, <2>5, <2>6, <2>7, <2>8, <2>9
<1> QED
  BY <1>2, <1>4, <1>5, <1>13 DEF RankedFor

\* One step of the page that is followed by a render.
RenderStep ==
    page' \in PageOf /\ PageGrows(page, page') /\ laneRanks' \in stableLaneOrder(laneRanks, page')

\* Phones come and go: attribution and list stay.
LEMMA Shows ==
    ASSUME LaneInv, NEW p \in LanePeer, RosterShows(p) \/ RosterDrops(p)
    PROVE  RenderStep /\ page'.attr = page.attr /\ page'.list = page.list
<1>1. page \in PageOf
  BY DEF LaneInv, LanesTyped
<1>2. \E R \in SUBSET LanePeer : page' = [page EXCEPT !.roster = R]
  <2>1. page.roster \subseteq LanePeer
    BY <1>1 DEF PageOf
  <2> QED
    BY <2>1 DEF RosterShows, RosterDrops, Rendered
<1>3. page' \in PageOf /\ page'.attr = page.attr /\ page'.list = page.list /\ page'.status = page.status
      /\ page'.ready = page.ready
  BY <1>1, <1>2 DEF PageOf
<1>4. laneRanks' \in stableLaneOrder(laneRanks, page')
  BY DEF RosterShows, RosterDrops, Rendered
<1> QED
  BY <1>3, <1>4 DEF RenderStep, PageGrows, peerByStream

\* A stream is held, or the first request fails: attribution and list stay.
LEMMA Learns ==
    ASSUME LaneInv, NEW s, (s \in LaneStream /\ StatusShows(s)) \/ FetchFails
    PROVE  RenderStep /\ page'.attr = page.attr /\ page'.list = page.list
<1>1. page \in PageOf
  BY DEF LaneInv, LanesTyped
<1>2. page.status \subseteq LaneStream
  BY <1>1 DEF PageOf
<1>3. CASE s \in LaneStream /\ StatusShows(s)
  <2>1. page' = [page EXCEPT !.status = @ \cup {s}]
    BY <1>3 DEF StatusShows, Rendered
  <2>2. page' \in PageOf /\ page'.attr = page.attr /\ page'.list = page.list
        /\ page'.status = page.status \cup {s} /\ page'.ready = page.ready
    BY <1>1, <1>2, <1>3, <2>1 DEF PageOf
  <2>3. laneRanks' \in stableLaneOrder(laneRanks, page')
    BY <1>3 DEF StatusShows, Rendered
  <2> QED
    BY <2>2, <2>3 DEF RenderStep, PageGrows, peerByStream
<1>4. CASE FetchFails
  <2>1. page' = [page EXCEPT !.ready = TRUE]
    BY <1>4 DEF FetchFails, Rendered
  <2>2. page' \in PageOf /\ page'.attr = page.attr /\ page'.list = page.list
        /\ page'.status = page.status /\ page'.ready = TRUE
    BY <1>1, <1>2, <2>1 DEF PageOf
  <2>3. laneRanks' \in stableLaneOrder(laneRanks, page')
    BY <1>4 DEF FetchFails, Rendered
  <2> QED
    BY <2>2, <2>3 DEF RenderStep, PageGrows, peerByStream
<1> QED
  BY <1>3, <1>4

\* A stream's entry in the list.
Entry == [known : BOOLEAN, owned : BOOLEAN, final : BOOLEAN]

\* A page whose list alone changed.
LEMMA ListStep ==
    ASSUME NEW pg \in PageOf, NEW list \in [LaneStream -> Entry],
           \A x \in LaneStream : pg.list[x].owned => list[x].owned
    PROVE  /\ [pg EXCEPT !.list = list] \in PageOf
           /\ [pg EXCEPT !.list = list].attr = pg.attr /\ [pg EXCEPT !.list = list].list = list
           /\ PageGrows(pg, [pg EXCEPT !.list = list])
<1> DEFINE new == [pg EXCEPT !.list = list]
<1>1. new \in PageOf /\ new.attr = pg.attr /\ new.list = list /\ new.status = pg.status /\ new.ready = pg.ready
  BY DEF PageOf, Entry
<1> HIDE DEF new
<1>2. PageGrows(pg, new)
  BY <1>1 DEF PageGrows, peerByStream
<1> QED
  BY <1>1, <1>2 DEF new

\* An announcement resets one entry, which owns its stream from then on.
LEMMA Announces ==
    ASSUME LaneInv, NEW s \in LaneStream, upsertAnnouncedStream(s)
    PROVE  /\ RenderStep /\ page'.attr = page.attr
           /\ \A x \in LaneStream : page'.list[x] = page.list[x]
                                    \/ page'.list[x] = [known |-> TRUE, owned |-> TRUE, final |-> FALSE]
<1> DEFINE e == [known |-> TRUE, owned |-> TRUE, final |-> FALSE]
           list == [page.list EXCEPT ![s] = e]
<1>1. page \in PageOf
  BY DEF LaneInv, LanesTyped
<1>2. page.list \in [LaneStream -> Entry] /\ e \in Entry /\ e.owned = TRUE
  BY <1>1 DEF PageOf, Entry
<1>3. page' = [page EXCEPT !.list = list] /\ laneRanks' \in stableLaneOrder(laneRanks, page')
  BY DEF upsertAnnouncedStream, Rendered
<1> HIDE DEF e
<1>4. /\ list \in [LaneStream -> Entry]
      /\ \A x \in LaneStream : list[x] = page.list[x] \/ list[x] = e
  BY <1>2
<1>5. \A x \in LaneStream : page.list[x].owned => list[x].owned
  BY <1>2, <1>4
<1> HIDE DEF list
<1>6. page' \in PageOf /\ page'.attr = page.attr /\ page'.list = list /\ PageGrows(page, page')
  BY <1>1, <1>3, <1>4, <1>5, ListStep
<1> QED
  BY <1>3, <1>4, <1>6 DEF RenderStep, e

\* stream-final changes one flag.
LEMMA Finals ==
    ASSUME LaneInv, NEW s \in LaneStream, withStreamFinal(s)
    PROVE  /\ RenderStep /\ page'.attr = page.attr
           /\ \A x \in LaneStream : /\ page'.list[x].known = page.list[x].known
                                    /\ page'.list[x].owned = page.list[x].owned
                                    /\ x # s => page'.list[x].final = page.list[x].final
<1> DEFINE e == [page.list[s] EXCEPT !.final = TRUE]
           list == [page.list EXCEPT ![s] = e]
<1>1. page \in PageOf
  BY DEF LaneInv, LanesTyped
<1>2. page.list \in [LaneStream -> Entry] /\ page.list[s] \in Entry
  BY <1>1 DEF PageOf, Entry
<1>3. page' = [page EXCEPT !.list = list] /\ laneRanks' \in stableLaneOrder(laneRanks, page')
  BY DEF withStreamFinal, Rendered
<1>4. e \in Entry /\ e.known = page.list[s].known /\ e.owned = page.list[s].owned
  BY <1>2 DEF Entry
<1> HIDE DEF e
<1>5. /\ list \in [LaneStream -> Entry]
      /\ \A x \in LaneStream : list[x] = IF x = s THEN e ELSE page.list[x]
  BY <1>2, <1>4
<1> HIDE DEF list
<1>6. \A x \in LaneStream : /\ list[x].known = page.list[x].known /\ list[x].owned = page.list[x].owned
                            /\ x # s => list[x].final = page.list[x].final
  BY <1>4, <1>5
<1>7. page' \in PageOf /\ page'.attr = page.attr /\ page'.list = list /\ PageGrows(page, page')
  BY <1>1, <1>3, <1>5, <1>6, ListStep
<1> QED
  BY <1>3, <1>6, <1>7 DEF RenderStep

\* What an answer makes of the list.
LEMMA Seeded ==
    ASSUME NEW list \in [LaneStream -> Entry], NEW a, a.rows \subseteq LaneStream,
           \A s \in LaneStream : list[s].owned => list[s].known
    PROVE  /\ planStreamSeed(list, a) \in [LaneStream -> Entry]
           /\ \A s \in LaneStream :
                 /\ list[s].known => planStreamSeed(list, a)[s].known
                 /\ list[s].owned => planStreamSeed(list, a)[s].owned
                 /\ planStreamSeed(list, a)[s].owned => planStreamSeed(list, a)[s].known
                 /\ planStreamSeed(list, a)[s].final => list[s].final \/ s \in archivedFinals(list, a)
<1> DEFINE to(s) == planStreamSeed(list, a)[s]
<1>1. ASSUME NEW s \in LaneStream
      PROVE  /\ to(s) \in Entry
             /\ list[s].known => to(s).known
             /\ list[s].owned => to(s).owned
             /\ to(s).owned => to(s).known
             /\ to(s).final => list[s].final \/ s \in archivedFinals(list, a)
  <2>0. list[s] \in Entry
    OBVIOUS
  <2>1. CASE s \notin a.rows
    <3>1. to(s) = list[s]
      BY <2>1 DEF planStreamSeed
    <3> HIDE DEF to
    <3> QED
      BY <2>0, <3>1
  <2>2. CASE s \in a.rows /\ ~list[s].known
    <3>1. to(s) = [known |-> TRUE, owned |-> s \in a.owned, final |-> s \in a.finals]
      BY <2>2 DEF planStreamSeed, archivedStreamMetas
    <3>2. s \in a.finals => s \in archivedFinals(list, a)
      BY <2>2 DEF archivedFinals
    <3>3. list[s].owned = FALSE
      BY <2>0, <2>2 DEF Entry
    <3> HIDE DEF to
    <3> QED
      BY <2>2, <3>1, <3>2, <3>3 DEF Entry
  <2>3. CASE s \in a.rows /\ list[s].known
    <3>1. to(s) = [list[s] EXCEPT !.final = list[s].final \/ s \in a.finals]
      BY <2>3 DEF planStreamSeed
    <3>2. s \in a.finals => list[s].final \/ s \in archivedFinals(list, a)
      BY <2>3 DEF archivedFinals
    <3> HIDE DEF to
    <3>3. to(s).known = list[s].known /\ to(s).owned = list[s].owned
          /\ to(s).final = (list[s].final \/ s \in a.finals) /\ to(s) \in Entry
      BY <2>0, <3>1 DEF Entry
    <3> QED
      BY <2>0, <2>3, <3>2, <3>3 DEF Entry
  <2> QED
    BY <2>1, <2>2, <2>3
<1>2. planStreamSeed(list, a) \in [LaneStream -> Entry]
  <2>1. planStreamSeed(list, a) = [s \in LaneStream |-> planStreamSeed(list, a)[s]]
    BY DEF planStreamSeed
  <2> QED
    BY <1>1, <2>1
<1> QED
  BY <1>1, <1>2

\* An answer brings the archive's attribution, and tells the sink worker the ends it did not know.
LEMMA Answers ==
    ASSUME LaneInv, AnswerLands
    PROVE  /\ RenderStep /\ page'.attr.owned \subseteq arch.owned
           /\ toldFinal' = toldFinal \cup archivedFinals(page.list, sessionSummary)
           /\ learned' = learned \cup arch.finals
           /\ page'.list = planStreamSeed(page.list, sessionSummary)
<1> DEFINE new == planStreamSeed(page.list, sessionSummary)
           attr == [takes |-> arch.takes, owned |-> arch.owned, peers |-> LanePeer]
<1>1. page \in PageOf /\ arch \in ArchiveOf /\ page.attr.owned \subseteq arch.owned
  BY DEF LaneInv, LanesTyped, LanesLearn
<1>2. /\ page.list \in [LaneStream -> Entry] /\ sessionSummary.rows \subseteq LaneStream
      /\ \A s \in LaneStream : page.list[s].owned => page.list[s].known
  BY <1>1 DEF PageOf, ArchiveOf, Entry, sessionSummary, LaneInv, LanesLearn
<1>3. new \in [LaneStream -> Entry] /\ \A s \in LaneStream : page.list[s].owned => new[s].owned
  BY <1>2, Seeded
<1>4. buildAttribution(sessionSummary) = attr
  BY DEF buildAttribution, sessionSummary
<1> HIDE DEF new
<1>5. page' = [page EXCEPT !.list = new, !.attr = attr, !.ready = TRUE]
      /\ laneRanks' \in stableLaneOrder(laneRanks, page')
  BY <1>4 DEF AnswerLands, Rendered, seedArchivedStreams, new
<1>6. attr \in [takes : SUBSET {TakeWith[s] : s \in LaneStream}, owned : SUBSET LaneStream, peers : SUBSET LanePeer]
      /\ attr.owned = arch.owned
  BY <1>1 DEF ArchiveOf
<1> HIDE DEF attr
<1>7. /\ page' \in PageOf /\ page'.attr = attr /\ page'.list = new
      /\ page'.status = page.status /\ page'.ready = TRUE
  BY <1>1, <1>3, <1>5, <1>6 DEF PageOf, Entry
<1>8. PageGrows(page, page')
  BY <1>1, <1>3, <1>6, <1>7 DEF PageGrows, peerByStream
<1>9. toldFinal' = toldFinal \cup archivedFinals(page.list, sessionSummary) /\ learned' = learned \cup arch.finals
  BY DEF AnswerLands, seedArchivedStreams
<1> QED
  BY <1>1, <1>5, <1>6, <1>7, <1>8, <1>9 DEF RenderStep, new

\* What a step does to the page and the ranks.
LEMMA PageSteps ==
    ASSUME LaneInv, LaneNext
    PROVE  \/ RenderStep
           \/ page' = page /\ laneRanks' = laneRanks
           \/ page' = BlankPage /\ laneRanks' = EmptyRanks
<1>1. ASSUME NEW p \in LanePeer, RosterShows(p) \/ RosterDrops(p) PROVE RenderStep
  BY <1>1, Shows
<1>2. ASSUME NEW s \in LaneStream, upsertAnnouncedStream(s) PROVE RenderStep
  BY <1>2, Announces
<1>3. ASSUME NEW s \in LaneStream, withStreamFinal(s) PROVE RenderStep
  BY <1>3, Finals
<1>4. ASSUME NEW s \in LaneStream, StatusShows(s) PROVE RenderStep
  BY <1>4, Learns
<1>5. CASE FetchFails
  BY <1>5, Learns
<1>6. CASE AnswerLands
  BY <1>6, Answers
<1>7. CASE ReloadPage
  BY <1>7 DEF ReloadPage
<1>8. ASSUME NEW s \in LaneStream, ArchiveGrows(s) PROVE page' = page /\ laneRanks' = laneRanks
  BY <1>8 DEF ArchiveGrows
<1>9. ASSUME NEW k, NEW l, moveLane(k, l) PROVE page' = page /\ laneRanks' = laneRanks
  BY <1>9 DEF moveLane
<1>10. ASSUME NEW o, RemoteMove(o) \/ SyncOrder(o) PROVE page' = page /\ laneRanks' = laneRanks
  BY <1>10 DEF RemoteMove, SyncOrder
<1> QED
  BY <1>1, <1>2, <1>3, <1>4, <1>5, <1>6, <1>7, <1>8, <1>9, <1>10 DEF LaneNext

\* A page that was just loaded shows no lane.
LEMMA BlankIs ==
    /\ BlankPage \in PageOf /\ BlankPage.list \in [LaneStream -> Entry] /\ BlankPage.attr.owned = {}
    /\ candidates(BlankPage) = {}
    /\ \A s \in LaneStream : BlankPage.list[s].owned = FALSE /\ BlankPage.list[s].final = FALSE
<1>1. emptyAttribution \in [takes : SUBSET {TakeWith[s] : s \in LaneStream}, owned : SUBSET LaneStream, peers : SUBSET LanePeer]
      /\ emptyAttribution.owned = {}
  BY DEF emptyAttribution
<1> DEFINE list == [s \in LaneStream |-> [known |-> FALSE, owned |-> FALSE, final |-> FALSE]]
<1>2. list \in [LaneStream -> Entry] /\ \A s \in LaneStream : list[s].owned = FALSE /\ list[s].final = FALSE
  BY DEF Entry
<1>3. BlankPage = [roster |-> {}, status |-> {}, ready |-> FALSE, attr |-> emptyAttribution, list |-> list]
  BY DEF BlankPage
<1> HIDE DEF list
<1>4. BlankPage \in PageOf /\ BlankPage.list = list /\ BlankPage.attr = emptyAttribution
      /\ BlankPage.roster = {} /\ BlankPage.status = {}
  BY <1>1, <1>2, <1>3 DEF PageOf, Entry
<1>5. candidates(BlankPage) = {}
  BY <1>4 DEF candidates, OnRows
<1> QED
  BY <1>1, <1>2, <1>4, <1>5

\* Every step keeps the ranks sound.
LEMMA RanksStay ==
    ASSUME LaneInv, LaneNext
    PROVE  RankedFor(laneRanks, page)'
<1>1. CASE RenderStep
  <2>1. page \in PageOf /\ RankedFor(laneRanks, page)
    BY DEF LaneInv, LanesTyped
  <2>2. RankedFor(laneRanks', page')
    BY <1>1, <2>1, RanksStaySound DEF RenderStep
  <2> QED
    BY <2>2
<1>2. CASE page' = page /\ laneRanks' = laneRanks
  <2>1. RankedFor(laneRanks', page')
    BY <1>2 DEF LaneInv
  <2> QED
    BY <2>1
<1>3. CASE page' = BlankPage /\ laneRanks' = EmptyRanks
  <2>1. RankedFor(EmptyRanks, BlankPage)
    BY BlankIs DEF RankedFor, EmptyRanks
  <2> QED
    BY <1>3, <2>1
<1> QED
  BY <1>1, <1>2, <1>3, PageSteps

\* The server's side only grows.
LEMMA ArchiveStep ==
    ASSUME LaneInv, LaneNext
    PROVE  arch' \in ArchiveOf /\ arch'.finals \subseteq arch'.rows /\ arch.owned \subseteq arch'.owned
<1>1. arch \in ArchiveOf /\ arch.finals \subseteq arch.rows
  BY DEF LaneInv, LanesTyped, LanesLearn
<1>2. ASSUME NEW s \in LaneStream, ArchiveGrows(s)
      PROVE  arch' \in ArchiveOf /\ arch'.finals \subseteq arch'.rows /\ arch.owned \subseteq arch'.owned
  <2>1. CASE arch' = [arch EXCEPT !.rows = @ \cup {s}, !.takes = @ \cup {TakeWith[s]}]
    BY <1>1, <1>2, <2>1 DEF ArchiveOf, ArchiveGrows
  <2>2. CASE s \in arch.rows \ arch.owned /\ arch' = [arch EXCEPT !.owned = @ \cup {s}]
    BY <1>1, <1>2, <2>2 DEF ArchiveOf, ArchiveGrows
  <2>3. CASE s \in (arch.rows \cap LaneFinished) \ arch.finals /\ arch' = [arch EXCEPT !.finals = @ \cup {s}]
    BY <1>1, <1>2, <2>3 DEF ArchiveOf, ArchiveGrows
  <2> QED
    BY <1>2, <2>1, <2>2, <2>3 DEF ArchiveGrows
<1>3. CASE arch' = arch
  BY <1>1, <1>3
<1>4. (\E s \in LaneStream : ArchiveGrows(s)) \/ arch' = arch
  BY DEF LaneNext, RosterShows, RosterDrops, upsertAnnouncedStream, withStreamFinal, StatusShows, AnswerLands,
         FetchFails, ReloadPage, moveLane, RemoteMove, SyncOrder
<1> QED
  BY <1>2, <1>3, <1>4

\* What the page knows of ends.
Told(list, told) ==
    \A s \in LaneStream :
        /\ list[s].owned => list[s].known
        /\ list[s].final => s \in told

\* Every step keeps what the page knows: each end it lists was told to the sink worker.
LEMMA LearnStays ==
    ASSUME LaneInv, LaneNext
    PROVE  LanesLearn'
<1>1. /\ arch.finals \subseteq arch.rows /\ page.attr.owned \subseteq arch.owned
      /\ Told(page.list, toldFinal) /\ learned \subseteq toldFinal
  BY DEF LaneInv, LanesLearn, Told
<1>2. page \in PageOf /\ arch \in ArchiveOf
  BY DEF LaneInv, LanesTyped
<1>3. page.list \in [LaneStream -> Entry]
  BY <1>2 DEF PageOf, Entry
<1> DEFINE Learnt == /\ page'.attr.owned \subseteq arch.owned
                     /\ Told(page'.list, toldFinal') /\ learned' \subseteq toldFinal'
<1>4. Learnt
  <2>1. ASSUME NEW p \in LanePeer, RosterShows(p) \/ RosterDrops(p) PROVE Learnt
    <3>1. toldFinal' = toldFinal /\ learned' = learned
      BY <2>1 DEF RosterShows, RosterDrops
    <3> QED
      BY <1>1, <2>1, <3>1, Shows
  <2>2. ASSUME NEW s \in LaneStream, upsertAnnouncedStream(s) PROVE Learnt
    <3>1. toldFinal' = toldFinal /\ learned' = learned
      BY <2>2 DEF upsertAnnouncedStream
    <3>2. page'.attr = page.attr /\ \A x \in LaneStream : page'.list[x] = page.list[x]
                                    \/ page'.list[x] = [known |-> TRUE, owned |-> TRUE, final |-> FALSE]
      BY <2>2, Announces
    <3>3. Told(page'.list, toldFinal)
      BY <1>1, <3>2 DEF Told
    <3> QED
      BY <1>1, <3>1, <3>2, <3>3
  <2>3. ASSUME NEW s \in LaneStream, withStreamFinal(s) PROVE Learnt
    <3>1. toldFinal' = toldFinal \cup {s} /\ learned' = learned
      BY <2>3 DEF withStreamFinal
    <3>2. page'.attr = page.attr
          /\ \A x \in LaneStream : /\ page'.list[x].known = page.list[x].known
                                   /\ page'.list[x].owned = page.list[x].owned
                                   /\ x # s => page'.list[x].final = page.list[x].final
      BY <2>3, Finals
    <3>3. Told(page'.list, toldFinal')
      BY <1>1, <3>1, <3>2 DEF Told
    <3> QED
      BY <1>1, <3>1, <3>2, <3>3
  <2>4. ASSUME NEW s, (s \in LaneStream /\ StatusShows(s)) \/ FetchFails PROVE Learnt
    <3>1. toldFinal' = toldFinal /\ learned' = learned
      BY <2>4 DEF StatusShows, FetchFails
    <3> QED
      BY <1>1, <2>4, <3>1, Learns
  <2>5. CASE AnswerLands
    <3> DEFINE sum == sessionSummary
    <3>1. /\ page'.attr.owned \subseteq arch.owned
          /\ toldFinal' = toldFinal \cup archivedFinals(page.list, sum)
          /\ learned' = learned \cup arch.finals
          /\ page'.list = planStreamSeed(page.list, sum)
      BY <2>5, Answers
    <3>2. sum.rows = arch.rows /\ sum.finals = arch.finals /\ sum.rows \subseteq LaneStream
      BY <1>2 DEF sessionSummary, ArchiveOf
    <3> HIDE DEF sum
    <3>3. \A s \in LaneStream :
            /\ planStreamSeed(page.list, sum)[s].owned => planStreamSeed(page.list, sum)[s].known
            /\ planStreamSeed(page.list, sum)[s].final => page.list[s].final \/ s \in archivedFinals(page.list, sum)
      BY <1>1, <1>3, <3>2, Seeded DEF Told
    <3>4. Told(page'.list, toldFinal')
      BY <1>1, <3>1, <3>3 DEF Told
    <3>5. \A s \in arch.finals : s \in toldFinal \/ s \in archivedFinals(page.list, sum)
      BY <1>1, <3>2 DEF archivedFinals, Told
    <3> QED
      BY <1>1, <3>1, <3>4, <3>5
  <2>6. CASE ReloadPage
    <3>1. page' = BlankPage /\ toldFinal' = {} /\ learned' = {}
      BY <2>6 DEF ReloadPage
    <3> QED
      BY <3>1, BlankIs DEF Told
  <2>7. CASE UNCHANGED <<page, toldFinal, learned>>
    BY <1>1, <2>7
  <2>8. ASSUME NEW s \in LaneStream, ArchiveGrows(s) PROVE UNCHANGED <<page, toldFinal, learned>>
    BY <2>8 DEF ArchiveGrows
  <2>9. ASSUME NEW k, NEW l, moveLane(k, l) PROVE UNCHANGED <<page, toldFinal, learned>>
    BY <2>9 DEF moveLane
  <2>10. ASSUME NEW o, RemoteMove(o) \/ SyncOrder(o) PROVE UNCHANGED <<page, toldFinal, learned>>
    BY <2>10 DEF RemoteMove, SyncOrder
  <2> QED
    BY <2>1, <2>2, <2>3, <2>4, <2>5, <2>6, <2>7, <2>8, <2>9, <2>10 DEF LaneNext
<1>5. arch'.finals \subseteq arch'.rows /\ arch.owned \subseteq arch'.owned
  BY ArchiveStep
<1> QED
  BY <1>4, <1>5 DEF LanesLearn, Told

\* The ordinal a lane is sorted by.
LEMMA OrdinalIs ==
    ASSUME NEW o \in [LaneKey -> Nat], NEW pg \in PageOf, NEW k \in LaneKey
    PROVE  /\ ordinalOf(o, pg, k) \in Nat
           /\ o[k] # NoOrdinal => ordinalOf(o, pg, k) = o[k]
           /\ \A s \in aliases(pg, k) :
                 (/\ o[k] = NoOrdinal /\ o[s] < NoOrdinal
                  /\ \A t \in aliases(pg, k) : t = s \/ o[t] = NoOrdinal)
                 => ordinalOf(o, pg, k) = o[s]
<1> DEFINE T == {NoOrdinal} \cup {o[s] : s \in aliases(pg, k)}
<1>1. \A s \in aliases(pg, k) : s \in LaneKey /\ o[s] \in Nat
  BY LaneKeys, LaneFacts
<1>2. T \in SUBSET Nat /\ T # {}
  BY <1>1, LaneFacts
<1>3. Min(T) \in T /\ Min(T) \in Nat /\ \A x \in T : Min(T) <= x
  <2> HIDE DEF T
  <2> QED
    BY <1>2, LeastIs
<1>4. ordinalOf(o, pg, k) = IF o[k] # NoOrdinal THEN o[k] ELSE Min(T)
  BY DEF ordinalOf
<1>5. ASSUME NEW s \in aliases(pg, k), o[s] < NoOrdinal,
             \A t \in aliases(pg, k) : t = s \/ o[t] = NoOrdinal
      PROVE  Min(T) = o[s]
  <2>1. o[s] \in T /\ \A x \in T : x = NoOrdinal \/ x = o[s]
    BY <1>5
  <2>2. o[s] \in Nat /\ NoOrdinal \in Nat
    BY <1>1, LaneFacts
  <2> HIDE DEF T
  <2> QED
    BY <1>3, <1>5, <2>1, <2>2
<1> HIDE DEF T
<1> QED
  BY <1>3, <1>4, <1>5

\* The sort's comparison.
Above(r, o, pg, k, l) ==
    \/ ordinalOf(o, pg, k) < ordinalOf(o, pg, l)
    \/ ordinalOf(o, pg, k) = ordinalOf(o, pg, l) /\ r[k] < r[l]

\* The rows are in the order of the comparison.
LEMMA RowsFollow ==
    ASSUME NEW r, NEW o \in [LaneKey -> Nat], NEW pg \in PageOf, RankedFor(r, pg)
    PROVE  /\ applyLaneMoves(r, o, pg) \in [candidates(pg) -> Nat]
           /\ \A k \in candidates(pg) : applyLaneMoves(r, o, pg)[k] < NoOrdinal
           /\ \A k, l \in candidates(pg) :
                 /\ Above(r, o, pg, k, l) => applyLaneMoves(r, o, pg)[k] < applyLaneMoves(r, o, pg)[l]
                 /\ (ordinalOf(o, pg, k) = ordinalOf(o, pg, l) /\ r[k] = r[l])
                       => applyLaneMoves(r, o, pg)[k] = applyLaneMoves(r, o, pg)[l]
<1> DEFINE Over(k) == {l \in candidates(pg) : Above(r, o, pg, l, k)}
<1>1. applyLaneMoves(r, o, pg) = [k \in candidates(pg) |-> Cardinality(Over(k))]
  BY DEF applyLaneMoves, Above
<1>2. candidates(pg) \subseteq LaneKey
  BY LaneKeys
<1>3. \A k \in candidates(pg) : ordinalOf(o, pg, k) \in Nat /\ r[k] \in Nat
  BY <1>2, OrdinalIs DEF RankedFor
<1>4. \A k : Over(k) \subseteq LaneKey /\ IsFiniteSet(Over(k)) /\ Cardinality(Over(k)) \in Nat
  BY <1>2, LaneFacts, FS_Subset, FS_CardinalityType
<1>5. ASSUME NEW k \in candidates(pg)
      PROVE  Cardinality(Over(k)) < NoOrdinal
  <2>1. k \notin Over(k) /\ k \in LaneKey
    BY <1>2, <1>3 DEF Above
  <2>2. Over(k) # LaneKey
    BY <2>1
  <2> HIDE DEF Over
  <2>3. Cardinality(Over(k)) <= Cardinality(LaneKey) /\ Cardinality(Over(k)) # Cardinality(LaneKey)
    BY <1>4, <2>2, LaneFacts, FS_Subset
  <2> QED
    BY <1>4, <2>3, LaneFacts DEF NoOrdinal
<1>6. ASSUME NEW k \in candidates(pg), NEW l \in candidates(pg), Above(r, o, pg, k, l)
      PROVE  Cardinality(Over(k)) < Cardinality(Over(l))
  <2>1. Over(k) \subseteq Over(l)
    BY <1>3, <1>6 DEF Above
  <2>2. k \in Over(l) /\ k \notin Over(k)
    BY <1>3, <1>6 DEF Above
  <2>3. Over(k) # Over(l)
    BY <2>2
  <2> HIDE DEF Over
  <2>4. Cardinality(Over(k)) <= Cardinality(Over(l)) /\ Cardinality(Over(k)) # Cardinality(Over(l))
    BY <1>4, <2>1, <2>3, FS_Subset
  <2> QED
    BY <1>4, <2>4
<1>7. ASSUME NEW k \in candidates(pg), NEW l \in candidates(pg),
             ordinalOf(o, pg, k) = ordinalOf(o, pg, l), r[k] = r[l]
      PROVE  Over(k) = Over(l)
  BY <1>7 DEF Above
<1> HIDE DEF Over
<1> QED
  BY <1>1, <1>4, <1>5, <1>6, <1>7

\* What a move writes.
LEMMA WrittenOrder ==
    ASSUME NEW m, \A k \in DOMAIN m : m[k] \in Nat
    PROVE  /\ writeLaneOrder(m) \in [LaneKey -> Nat]
           /\ \A k \in LaneKey : writeLaneOrder(m)[k] = IF k \in DOMAIN m THEN m[k] ELSE NoOrdinal
  BY LaneFacts DEF writeLaneOrder

\* While the operator's last move stands, no sync, reload or move loses it in the map.
LEMMA OrderStays ==
    ASSUME LaneInv, LaneNext
    PROVE  /\ order' \in [LaneKey -> Nat] /\ orderServer' \in [LaneKey -> Nat] /\ synced' \in BOOLEAN
           /\ PinStands'
<1> DEFINE Fine == /\ order' \in [LaneKey -> Nat] /\ orderServer' \in [LaneKey -> Nat] /\ synced' \in BOOLEAN
                   /\ PinStands'
<1>1. /\ order \in [LaneKey -> Nat] /\ orderServer \in [LaneKey -> Nat] /\ synced \in BOOLEAN
      /\ PinStands /\ page \in PageOf /\ RankedFor(laneRanks, page)
  BY DEF LaneInv, LanesTyped
<1>2. NoOrder \in [LaneKey -> Nat] /\ DOMAIN Unpinned = {}
  BY LaneFacts DEF NoOrder, Unpinned, EmptyRanks
<1>3. ASSUME NEW k \in candidates(page), NEW l \in candidates(page), moveLane(k, l) PROVE Fine
  <2> DEFINE sw == Swapped(rows, k, l)
  <2>1. rows \in [candidates(page) -> Nat] /\ \A x \in candidates(page) : rows[x] < NoOrdinal
    BY <1>1, RowsFollow DEF rows
  <2>2. DOMAIN sw = candidates(page) /\ \A x \in candidates(page) : sw[x] \in Nat /\ sw[x] < NoOrdinal
    BY <2>1 DEF Swapped
  <2>3. /\ order' = writeLaneOrder(sw) /\ synced' = synced
        /\ orderServer' = IF synced THEN order' ELSE orderServer
        /\ pinned' = IF synced THEN sw ELSE Unpinned
    BY <1>3 DEF moveLane
  <2>4. candidates(page) \subseteq LaneKey
    BY <1>1, LaneKeys
  <2> HIDE DEF sw
  <2>5. order' \in [LaneKey -> Nat] /\ orderServer' \in [LaneKey -> Nat]
    BY <1>1, <2>2, <2>3, WrittenOrder
  <2>6. CASE synced
    BY <1>1, <2>2, <2>3, <2>4, <2>5, <2>6 DEF PinStands
  <2>7. CASE ~synced
    BY <1>1, <1>2, <2>3, <2>5, <2>7 DEF PinStands
  <2> QED
    BY <2>6, <2>7
<1>4. ASSUME NEW o \in RemoteOrders, RemoteMove(o) PROVE Fine
  <2>1. synced /\ order' = writeLaneOrder(o) /\ orderServer' = order' /\ pinned' = Unpinned /\ synced' = synced
    BY <1>4 DEF RemoteMove
  <2>2. writeLaneOrder(o) \in [LaneKey -> Nat]
    BY LaneAssumption, WrittenOrder
  <2> QED
    BY <1>1, <1>2, <2>1, <2>2 DEF PinStands
<1>5. ASSUME NEW S \in SUBSET LaneKey, SyncOrder(S) PROVE Fine
  <2>1. /\ \A k \in LaneKey \ S : order[k] # NoOrdinal \/ orderServer[k] = NoOrdinal
        /\ order' = [k \in LaneKey |-> IF k \in S THEN orderServer[k] ELSE order[k]]
        /\ orderServer' = order' /\ pinned' = (IF order = NoOrder THEN pinned ELSE Unpinned)
        /\ synced' = TRUE
    BY <1>5 DEF SyncOrder
  <2>2. order' \in [LaneKey -> Nat]
    BY <1>1, <2>1
  <2>3. CASE order = NoOrder
    <3>1. \A k \in LaneKey : order[k] = NoOrdinal
      BY <2>3 DEF NoOrder
    <3>2. \A k \in LaneKey : order'[k] = orderServer[k]
      BY <2>1, <3>1
    <3>3. order' = orderServer
      BY <1>1, <2>2, <3>2
    <3> QED
      BY <1>1, <2>1, <2>2, <2>3, <3>3 DEF PinStands
  <2>4. CASE order # NoOrder
    BY <1>2, <2>1, <2>2, <2>4 DEF PinStands
  <2> QED
    BY <2>3, <2>4
<1>6. CASE ReloadPage
  <2>1. /\ order' = NoOrder /\ synced' = FALSE /\ orderServer' = orderServer
        /\ pinned' = (IF order = orderServer THEN pinned ELSE Unpinned)
    BY <1>6 DEF ReloadPage
  <2> QED
    BY <1>1, <1>2, <2>1 DEF PinStands
<1>7. CASE UNCHANGED <<order, orderServer, synced, pinned>>
  BY <1>1, <1>7 DEF PinStands
<1>8. \/ ReloadPage
      \/ \E k, l \in candidates(page) : moveLane(k, l)
      \/ \E o \in RemoteOrders : RemoteMove(o)
      \/ \E S \in SUBSET LaneKey : SyncOrder(S)
      \/ UNCHANGED <<order, orderServer, synced, pinned>>
  BY DEF LaneNext, RosterShows, RosterDrops, upsertAnnouncedStream, withStreamFinal, StatusShows, AnswerLands,
         FetchFails, ArchiveGrows
<1> QED
  BY <1>3, <1>4, <1>5, <1>6, <1>7, <1>8

\* The page starts blank.
LEMMA LaneInvInit == LaneInit => LaneInv
<1> SUFFICES ASSUME LaneInit PROVE LaneInv
  OBVIOUS
<1>1. /\ page = BlankPage /\ laneRanks = EmptyRanks /\ toldFinal = {} /\ learned = {}
      /\ arch = [takes |-> {}, rows |-> {}, owned |-> {}, finals |-> {}]
      /\ order = NoOrder /\ orderServer = NoOrder /\ synced = FALSE /\ pinned = Unpinned
  BY DEF LaneInit
<1>2. arch \in ArchiveOf /\ arch.finals = {} /\ arch.rows = {} /\ arch.owned = {}
  BY <1>1 DEF ArchiveOf
<1>3. NoOrder \in [LaneKey -> Nat] /\ DOMAIN Unpinned = {}
  BY LaneFacts DEF NoOrder, Unpinned, EmptyRanks
<1>4. LanesTyped
  BY <1>1, <1>2, <1>3, BlankIs DEF LanesTyped
<1>5. LanesLearn
  BY <1>1, <1>2, BlankIs DEF LanesLearn
<1>6. RankedFor(EmptyRanks, BlankPage)
  BY BlankIs DEF RankedFor, EmptyRanks
<1>7. PinStands
  BY <1>1, <1>3 DEF PinStands
<1> QED
  BY <1>1, <1>4, <1>5, <1>6, <1>7 DEF LaneInv

\* The lanes' invariant is inductive.
LEMMA LaneInvStays == LaneInv /\ [LaneNext]_laneVars => LaneInv'
<1> SUFFICES ASSUME LaneInv, [LaneNext]_laneVars PROVE LaneInv'
  OBVIOUS
<1>1. CASE LaneNext
  <2>1. page' \in PageOf
    BY <1>1, PageSteps, BlankIs DEF RenderStep, LaneInv, LanesTyped
  <2>2. arch' \in ArchiveOf
    BY <1>1, ArchiveStep
  <2>3. LanesTyped' /\ PinStands'
    BY <1>1, <2>1, <2>2, OrderStays DEF LanesTyped
  <2>4. LanesLearn' /\ RankedFor(laneRanks, page)'
    BY <1>1, LearnStays, RanksStay
  <2> QED
    BY <2>3, <2>4 DEF LaneInv
<1>2. CASE UNCHANGED laneVars
  BY <1>2 DEF laneVars, LaneInv, LanesTyped, LanesLearn, PinStands
<1> QED
  BY <1>1, <1>2

\* A stream on screen under its own key has no performer.
LEMMA DistinctRanks == LaneInv => RanksDistinct
<1> SUFFICES ASSUME LaneInv, NEW k \in candidates(page), NEW l \in candidates(page), laneRanks[k] = laneRanks[l]
             PROVE  k = l
  BY DEF RanksDistinct
<1>1. page \in PageOf /\ RankedFor(laneRanks, page)
  BY DEF LaneInv, LanesTyped
<1>2. k = l \/ Twins(page, k, l) \/ Twins(page, l, k)
  BY <1>1 DEF RankedFor
<1>3. k \in LaneKey /\ l \in LaneKey /\ k # NoOwner /\ l # NoOwner
  BY <1>1, LaneKeys, LaneFacts
<1>4. ~Twins(page, k, l) /\ ~Twins(page, l, k)
  BY <1>1, <1>3, LaneKeys DEF Twins
<1> QED
  BY <1>2, <1>4

\* The lane a placed key is shown in has the key's place as its ordinal.
LEMMA PlacedOrdinal ==
    ASSUME LaneInv, synced, NEW k \in DOMAIN pinned, Single(k)
    PROVE  LaneNow(k) \in candidates(page) /\ ordinalOf(order, page, LaneNow(k)) = pinned[k]
<1> DEFINE K == LaneNow(k)
<1>1. /\ page \in PageOf /\ order \in [LaneKey -> Nat] /\ order = writeLaneOrder(pinned)
      /\ \A x \in DOMAIN pinned : x \in LaneKey /\ pinned[x] \in Nat /\ pinned[x] < NoOrdinal
  BY DEF LaneInv, LanesTyped, PinStands
<1>2. \A x \in LaneKey : order[x] = IF x \in DOMAIN pinned THEN pinned[x] ELSE NoOrdinal
  BY <1>1, WrittenOrder
<1>3. k \in LaneKey /\ order[k] = pinned[k] /\ pinned[k] < NoOrdinal /\ pinned[k] \in Nat /\ pinned[k] # NoOrdinal
  BY <1>1, <1>2, LaneFacts
<1>4. K # NoOwner /\ \A l \in DOMAIN pinned : LaneNow(l) = K => l = k
  BY DEF Single
<1>5. K \in candidates(page)
  BY <1>4 DEF LaneNow, candidates
<1>6. K \in LaneKey
  BY <1>1, <1>5, LaneKeys
<1>7. CASE K = k
  BY <1>1, <1>3, <1>5, <1>7, OrdinalIs
<1>8. CASE K # k
  <2>1. k \in LaneStream /\ k \in OnRows(page) /\ K = KeyOf(page, k)
    BY <1>4, <1>8 DEF LaneNow
  <2>2. k \in page.status /\ peerByStream(page, k) = K
    BY <1>8, <2>1 DEF OnRows, KeyOf
  <2>3. k \in aliases(page, K) /\ K \in LanePeer
    BY <1>1, <1>6, <2>2, LaneKeys DEF aliases
  <2>4. K \notin LaneStream
    BY <2>3, LaneFacts
  <2>5. LaneNow(K) = K
    BY <1>5, <2>4 DEF LaneNow
  <2>6. order[K] = NoOrdinal
    BY <1>2, <1>4, <1>6, <1>8, <2>5
  <2>7. ASSUME NEW t \in aliases(page, K), t # k PROVE order[t] = NoOrdinal
    <3>1. t \in LaneStream /\ t \in page.status /\ peerByStream(page, t) = K
      BY <1>1, <1>6, LaneKeys
    <3>2. LaneNow(t) = K
      BY <1>4, <3>1 DEF LaneNow, OnRows, KeyOf
    <3>3. t \in LaneKey
      BY <3>1, LaneFacts
    <3> QED
      BY <1>2, <1>4, <2>7, <3>2, <3>3
  <2> HIDE DEF K
  <2>8. ordinalOf(order, page, K) = order[k]
    BY <1>1, <1>3, <1>6, <2>3, <2>6, <2>7, OrdinalIs
  <2> QED
    BY <1>3, <1>5, <2>8 DEF K
<1> QED
  BY <1>7, <1>8

\* Two lanes placed by the standing move are on screen as it placed them.
LEMMA PlacedInOrder == LaneInv => PinnedInOrder
<1> SUFFICES ASSUME LaneInv, synced, NEW k \in DOMAIN pinned, NEW l \in DOMAIN pinned,
                    pinned[k] < pinned[l], Single(k), Single(l)
             PROVE  rows[LaneNow(k)] < rows[LaneNow(l)]
  BY DEF PinnedInOrder
<1>1. page \in PageOf /\ order \in [LaneKey -> Nat] /\ RankedFor(laneRanks, page)
  BY DEF LaneInv, LanesTyped
<1>2. /\ LaneNow(k) \in candidates(page) /\ ordinalOf(order, page, LaneNow(k)) = pinned[k]
      /\ LaneNow(l) \in candidates(page) /\ ordinalOf(order, page, LaneNow(l)) = pinned[l]
  BY PlacedOrdinal
<1>3. Above(laneRanks, order, page, LaneNow(k), LaneNow(l))
  BY <1>2 DEF Above
<1> QED
  BY <1>1, <1>2, <1>3, RowsFollow DEF rows

\* A lane that continues one lane takes over its rank.
LEMMA RankGoesOn ==
    ASSUME LaneInv, RenderStep, NEW x \in candidates(page'), Continues(x), NEW k \in Former(x)
    PROVE  k \in candidates(page) /\ laneRanks'[x] = laneRanks[k]
<1>1. /\ page \in PageOf /\ page' \in PageOf /\ PageGrows(page, page') /\ RankedFor(laneRanks, page)
      /\ laneRanks' \in stableLaneOrder(laneRanks, page')
  BY DEF LaneInv, LanesTyped, RenderStep
<1>2. Former(x) = {k}
  <2>1. Former(x) \subseteq candidates(page) /\ candidates(page) \subseteq LaneKey
    BY <1>1, LaneKeys DEF Former
  <2>2. IsFiniteSet(Former(x)) /\ Cardinality(Former(x)) = 1
    BY <2>1, LaneFacts, FS_Subset DEF Continues
  <2> HIDE DEF Former
  <2>3. PICK z : Former(x) = {z}
    BY <2>2, FS_Singleton
  <2> QED
    BY <2>3
<1>3. k \in candidates(page) /\ (k = x \/ k \in aliases(page', x))
  BY DEF Former
<1>4. \A z \in DOMAIN laneRanks : z \in LaneKey /\ laneRanks[z] \in Nat
  BY <1>1 DEF RankedFor
<1>5. /\ \A z \in DOMAIN laneRanks : laneRanks'[z] = laneRanks[z]
      /\ \A z \in Unseen(laneRanks, page') : FormerKeys(laneRanks, page', z) # {} =>
            \E s \in FormerKeys(laneRanks, page', z) : laneRanks'[z] = laneRanks[s]
  BY <1>1, <1>4, RankShape
<1>6. candidates(page) \subseteq DOMAIN laneRanks
  BY <1>1 DEF RankedFor
<1>7. CASE k = x
  BY <1>3, <1>5, <1>6, <1>7
<1>8. CASE k # x
  <2>1. x \notin candidates(page)
    BY <1>2, <1>8 DEF Former
  <2>2. x \in Unseen(laneRanks, page')
    BY <2>1 DEF Continues, Unseen
  <2>3. k \in FormerKeys(laneRanks, page', x)
    BY <1>3, <1>6, <1>8 DEF FormerKeys
  <2>4. PICK s \in FormerKeys(laneRanks, page', x) : laneRanks'[x] = laneRanks[s]
    BY <1>5, <2>2, <2>3
  <2>5. s \in aliases(page', x) /\ s \in DOMAIN laneRanks /\ x \in LaneKey
    BY <1>1, <2>4, LaneKeys DEF FormerKeys
  <2>6. s \in LaneStream /\ peerByStream(page', s) = x /\ x = OwnerOf[s]
    BY <1>1, <2>5, LaneKeys
  <2>7. s \in page.status /\ page.ready
    BY <1>1, <2>5, <2>6 DEF RankedFor
  <2>8. peerByStream(page, s) = NoOwner
    <3>1. SUFFICES ASSUME peerByStream(page, s) # NoOwner PROVE FALSE
      OBVIOUS
    <3>2. peerByStream(page, s) = x
      BY <1>1, <2>6, <3>1 DEF PageGrows
    <3>3. x # NoOwner
      BY <2>5, LaneFacts
    <3>4. s \in aliases(page, x)
      BY <2>7, <3>2, <3>3 DEF aliases
    <3> QED
      BY <1>1, <2>1, <2>5, <3>4, LaneKeys
  <2>9. s \in candidates(page)
    BY <2>7, <2>8 DEF candidates, OnRows, KeyOf
  <2>10. s = k
    BY <1>2, <2>5, <2>9 DEF Former
  <2> QED
    BY <1>3, <2>4, <2>10
<1> QED
  BY <1>7, <1>8

\* LanesHold, of one step.
Steady == (order' = order /\ page' # page /\ page' # BlankPage)
              => ~Shuffled({x \in candidates(page') : Continues(x)})

\* Two lanes that go on are in the order they were in: each has its ordinal and its rank.
LEMMA LanesSteady ==
    ASSUME LaneInv, LaneInv', LaneNext
    PROVE  Steady
<1> SUFFICES ASSUME order' = order, page' # page, page' # BlankPage,
                    NEW x \in candidates(page'), NEW y \in candidates(page'), Continues(x), Continues(y),
                    NEW k \in Former(x), NEW l \in Former(y), rows'[x] < rows'[y], rows[k] > rows[l]
             PROVE  FALSE
  BY DEF Steady, Shuffled
<1>1. RenderStep
  BY PageSteps
<1>2. k \in candidates(page) /\ laneRanks'[x] = laneRanks[k] /\ l \in candidates(page) /\ laneRanks'[y] = laneRanks[l]
  BY <1>1, RankGoesOn
<1>3. /\ ordinalOf(order, page, k) = ordinalOf(order, page', x)
      /\ ordinalOf(order, page, l) = ordinalOf(order, page', y)
  BY DEF Continues
<1>4. page \in PageOf /\ order \in [LaneKey -> Nat] /\ RankedFor(laneRanks, page)
  BY DEF LaneInv, LanesTyped
<1>5. page' \in PageOf /\ RankedFor(laneRanks', page')
  BY DEF LaneInv, LanesTyped
<1> DEFINE before == applyLaneMoves(laneRanks, order, page)
           after == applyLaneMoves(laneRanks', order, page')
<1>6. rows = before /\ rows' = after
  BY DEF rows
<1>7. before[k] \in Nat /\ before[l] \in Nat /\ after[x] \in Nat /\ after[y] \in Nat
  BY <1>2, <1>4, <1>5, RowsFollow
<1>8. /\ ordinalOf(order, page, k) \in Nat /\ ordinalOf(order, page, l) \in Nat
      /\ laneRanks[k] \in Nat /\ laneRanks[l] \in Nat
  BY <1>2, <1>4, LaneKeys, OrdinalIs DEF RankedFor
<1>9. CASE Above(laneRanks, order, page, k, l)
  BY <1>2, <1>4, <1>6, <1>7, <1>9, RowsFollow
<1>10. CASE Above(laneRanks, order, page, l, k)
  <2>1. Above(laneRanks', order, page', y, x)
    BY <1>2, <1>3, <1>10 DEF Above
  <2>2. after[y] < after[x]
    BY <1>4, <1>5, <2>1, RowsFollow
  <2> HIDE DEF after
  <2> QED
    BY <1>6, <1>7, <2>2
<1>11. CASE ordinalOf(order, page, k) = ordinalOf(order, page, l) /\ laneRanks[k] = laneRanks[l]
  BY <1>2, <1>4, <1>6, <1>7, <1>11, RowsFollow
<1> QED
  BY <1>8, <1>9, <1>10, <1>11 DEF Above

\* Ranks stay distinct, the operator's order stands, finals are kept, and nothing but a move
\* changes the order of two lanes: whatever phones leave and return, whatever arrives late or
\* in any order, and through reloads (track-model.ts, use-desk-rows.ts, planStreamSeed).
THEOREM LanesStay == LaneSpec => LanesKeepPlace
<1>1. LaneInit => LaneInv
  BY LaneInvInit
<1>2. LaneInv /\ [LaneNext]_laneVars => LaneInv'
  BY LaneInvStays
<1>3. LaneInv => RanksDistinct /\ PinnedInOrder /\ FinalsLearned
  BY DistinctRanks, PlacedInOrder DEF LaneInv, LanesLearn, FinalsLearned
<1>4. LaneInv /\ LaneInv' /\ [LaneNext]_laneVars => [Steady]_laneVars
  BY LanesSteady
<1> QED
  BY <1>1, <1>2, <1>3, <1>4, PTL DEF LaneSpec, LanesKeepPlace, LanesHold, Steady
=============================================================================
