-------------------------- MODULE MCChunkProtocol --------------------------
(***************************************************************************)
(* Small instances of ChunkProtocol.                                       *)
(***************************************************************************)
EXTENDS ChunkProtocol, TLC

CONSTANTS server, desk

\* Every chunk costs one unit of the budget ...
UnitCost == [s \in 0 .. MaxSeq |-> 1]

\* ... or audio chunks take turns at one and two units beside a small header.
MixedCost == [s \in 0 .. MaxSeq |-> IF s % 2 = 0 THEN 1 ELSE 2]

\* A reachable state of a take: both sinks are connected and the recorder knows
\* that they have the header.  Starting here keeps two sinks within reach.
MidTake ==
  /\ state = "Streaming" /\ nextSeq = 1 /\ finalSeq = NoSeq
  /\ chunks = {0} /\ ackedByAny = {0} /\ gaps = {} /\ evictedAcked = {}
  /\ sinks = Sink
  /\ connected = [k \in Sink |-> TRUE]
  /\ proven = [k \in Sink |-> {0}]
  /\ queued = [k \in Sink |-> {}]
  /\ live = [k \in Sink |-> <<>>] /\ backfill = [k \in Sink |-> <<>>]
  /\ control = [k \in Sink |-> <<>>] /\ gapsReported = [k \in Sink |-> {}]
  /\ toSink = [k \in Sink |-> <<>>] /\ toRecorder = [k \in Sink |-> <<>>]
  /\ held = [k \in Sink |-> {0}] /\ declaredGaps = [k \in Sink |-> {}]
  /\ recvFinal = [k \in Sink |-> NoSeq]
  /\ busy = [k \in Sink |-> NoFrame]
  /\ stored = [k \in Sink |-> {0}] /\ gapRows = [k \in Sink |-> {}]
  /\ faults = 0
=============================================================================
