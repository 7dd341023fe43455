------------------------------ MODULE RangeSet ------------------------------
(***************************************************************************)
(* RangeSet (ranges.rs): a set of u32 values kept as a sorted vector of    *)
(* inclusive ranges that neither overlap nor touch.  Beside the vector the *)
(* set itself is kept, as the unit tests keep a BTreeSet; the other        *)
(* modules use that set directly.  Lists of ranges come from the wire, in  *)
(* any order, overlapping or empty.                                        *)
(***************************************************************************)
EXTENDS Integers, Sequences, FiniteSets, SequencesExt

CONSTANTS
  MaxValue,  \* u32::MAX
  MaxList    \* bound: ranges in a list from the wire

ASSUME RangeConstants == {MaxValue, MaxList} \subseteq Nat

VARIABLES ranges, model

rangeVars == <<ranges, model>>

Reference == INSTANCE AckSnapshot

Value == 0 .. MaxValue

SeqRange == [start : Value, end : Value]

Values(r) == r.start .. r.end

IsEmpty(r) == r.end < r.start

\* Arithmetic in u32 wraps.
Wrap(n) == n % (MaxValue + 1)
-----------------------------------------------------------------------------
(***************************************************************************)
(* Insertion: the ranges that overlap or touch the new one become one with *)
(* it, those from one partition point of the sorted vector to the other.   *)
(***************************************************************************)
\* Broken variant: touching ranges are kept apart.
EndsBeforeTouching(q, r) == q.end < r.start

\* In u64: no overflow.
EndsBefore(q, r) == q.end + 1 < r.start

StartsAfter(q, r) == q.start > r.end + 1

\* The ranges before lo can not merge with r, nor those behind hi.
Lo(rs, r) == CHOOSE n \in 1 .. Len(rs) + 1 : \A i \in DOMAIN rs : i < n <=> EndsBefore(rs[i], r)
Hi(rs, r) == CHOOSE n \in 0 .. Len(rs) : \A i \in DOMAIN rs : n < i <=> StartsAfter(rs[i], r)

Merged(rs, r) ==
  LET lo == Lo(rs, r)
      hi == Hi(rs, r)
  IN [start |-> IF lo <= hi /\ rs[lo].start < r.start THEN rs[lo].start ELSE r.start,
      end |-> IF lo <= hi /\ rs[hi].end > r.end THEN rs[hi].end ELSE r.end]

InsertRange(rs, r) ==
  IF IsEmpty(r) THEN rs
  ELSE SubSeq(rs, 1, Lo(rs, r) - 1) \o <<Merged(rs, r)>> \o SubSeq(rs, Hi(rs, r) + 1, Len(rs))

\* What is left of q when r is removed from it.
Pieces(q, r) ==
  IF q.end < r.start \/ q.start > r.end THEN <<q>>
  ELSE (IF q.start < r.start THEN <<[start |-> q.start, end |-> Wrap(r.start - 1)]>> ELSE <<>>)
       \o (IF q.end > r.end THEN <<[start |-> Wrap(r.end + 1), end |-> q.end]>> ELSE <<>>)

RemoveRange(rs, r) ==
  IF IsEmpty(r) THEN rs ELSE FlattenSeq([i \in DOMAIN rs |-> Pieces(rs[i], r)])

\* from_ranges, union and subtract go range by range.
InsertAll(rs, list) == FoldLeft(InsertRange, rs, list)
RemoveAll(rs, list) == FoldLeft(RemoveRange, rs, list)

MissingWithin(rs, within) == RemoveAll(InsertAll(<<>>, <<within>>), rs)
-----------------------------------------------------------------------------
(***************************************************************************)
(* Queries.                                                                *)
(***************************************************************************)
HasValue(rs, v) == \E i \in DOMAIN rs : rs[i].start <= v /\ v <= rs[i].end

Count(rs) == FoldLeft(LAMBDA n, r : n + (r.end - r.start + 1), 0, rs)

ContiguousOf(rs) ==
  IF rs = <<>> \/ Head(rs).start # 0 THEN Reference!CHWM_NONE ELSE Head(rs).end
-----------------------------------------------------------------------------
DoInsert(r) ==
  /\ ranges' = InsertRange(ranges, r)
  /\ model' = model \cup Values(r)

DoRemove(r) ==
  /\ ranges' = RemoveRange(ranges, r)
  /\ model' = model \ Values(r)

DoUnion(list) ==
  /\ ranges' = InsertAll(ranges, InsertAll(<<>>, list))
  /\ model' = model \cup UNION {Values(r) : r \in ToSet(list)}

DoSubtract(list) ==
  /\ ranges' = RemoveAll(ranges, InsertAll(<<>>, list))
  /\ model' = model \ UNION {Values(r) : r \in ToSet(list)}

DoMissingWithin(within) ==
  /\ ranges' = MissingWithin(ranges, within)
  /\ model' = Values(within) \ model

RangeInit == ranges = <<>> /\ model = {}

RangeNext ==
  \/ \E r \in SeqRange : DoInsert(r) \/ DoRemove(r) \/ DoMissingWithin(r)
  \/ \E list \in BoundedSeq(SeqRange, MaxList) : DoUnion(list) \/ DoSubtract(list)

RangeSpec == RangeInit /\ [][RangeNext]_rangeVars
-----------------------------------------------------------------------------
\* The vector stands for the set, whatever was inserted and removed.
Represents == UNION {Values(ranges[i]) : i \in DOMAIN ranges} = model

\* The invariant stated in ranges.rs: sorted, with room between two ranges, none
\* of them empty.  ACK and HAVE encode the vector as it is.
Coalesced ==
  /\ \A i \in DOMAIN ranges : ranges[i] \in SeqRange /\ ~ IsEmpty(ranges[i])
  /\ \A i \in 1 .. Len(ranges) - 1 : ranges[i].end + 1 < ranges[i + 1].start

\* Queries on the vector answer for the set; the high-water mark is the one
\* module AckSnapshot computes from the set.
QueriesAgree ==
  /\ \A v \in Value : HasValue(ranges, v) <=> v \in model
  /\ Count(ranges) = Cardinality(model)
  /\ ContiguousOf(ranges) = Reference!ContiguousFromZero(model)

\* ranges.rs is exact: after any inserts, removes, unions and subtractions, at both
\* ends of the type as well, the vector is canonical, stands for the set and answers
\* for it.
RangesExact == Represents /\ Coalesced /\ QueriesAgree
=============================================================================
