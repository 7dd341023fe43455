---------------------------- MODULE AckSnapshot ----------------------------
(***************************************************************************)
(* ACK_STATUS, both ends of it.  A sink turns what it holds into a         *)
(* contiguous high-water mark and a list of holes (receiver.rs); the       *)
(* recorder turns that snapshot back into the set of chunks the sink       *)
(* provably has (sender.rs, handle_ack).  A RangeSet is the set of         *)
(* sequence numbers it covers; module RangeSet relates the two.            *)
(***************************************************************************)
EXTENDS Integers

\* The wire sentinel 0xFFFFFFFF: nothing contiguous yet.
CHWM_NONE == -1

\* An Option<u32> that is None.
NoSeq == -1

\* RangeSet::contiguous_from_zero, with CHWM_NONE for None.
ContiguousFromZero(S) ==
  CHOOSE n \in {CHWM_NONE} \cup S : 0 .. n \subseteq S /\ (n + 1) \notin S

\* Broken variant: the count of contiguous chunks instead of the last of them.
ChwmExclusive(held, gaps) == ContiguousFromZero(held \cup gaps) + 1

\* Broken variant: the highest chunk held, contiguous or not.
ChwmHighest(held, gaps) ==
  CHOOSE n \in {CHWM_NONE} \cup held : \A t \in held : t <= n

\* Ranges declared permanently lost count as satisfied.
Chwm(held, gaps) == ContiguousFromZero(held \cup gaps)

\* Missing below the highest sequence number known to exist, gaps excepted.
Holes(held, gaps, final) ==
  {s \in UNION {0 .. t : t \in held \cup {final}} : s \notin held \cup gaps}

AckStatus(held, gaps, final) ==
  [chwm |-> Chwm(held, gaps), holes |-> Holes(held, gaps, final)]

\* 0..chwm and the regions strictly between holes; above the last hole (or
\* above chwm when there is none) nothing is proven.
ProvenHeld(ack) ==
  (0 .. ack.chwm) \cup
  {s \in UNION {0 .. h : h \in ack.holes} : s > ack.chwm /\ s \notin ack.holes}
=============================================================================
