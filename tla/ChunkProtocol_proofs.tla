------------------------ MODULE ChunkProtocol_proofs ------------------------
(***************************************************************************)
(* Never lose audio, for every number of sinks, chunks, faults and every   *)
(* ring budget: acknowledgements are honest, the ring's account adds up,   *)
(* and the chunk protocol implements the abstract archive.                 *)
(*                                                                         *)
(* The argument needs sinks whose writes either succeed or stop the sink   *)
(* (Failing \subseteq FailStop): that is the server's fail-stop chain.     *)
(*                                                                         *)
(* The last part needs nothing of the sinks: the engine alone keeps its    *)
(* ring, its queues and its reports in order whatever a sink answers.      *)
(***************************************************************************)
EXTENDS ChunkProtocol, OpenSender, WellFoundedInduction, SequenceTheorems,
        FiniteSetTheorems, TLAPS

-----------------------------------------------------------------------------
(***************************************************************************)
(* What an ACK_STATUS proves: the snapshot of a sink that holds h and was  *)
(* told of the gaps g proves nothing outside h and g.                      *)
(***************************************************************************)
\* Every bounded set of naturals misses a least natural number.
LEMMA LeastMissing ==
  ASSUME NEW N \in Nat, NEW S \in SUBSET (0 .. N)
  PROVE  \E m \in Nat : m \notin S /\ 0 .. m - 1 \subseteq S
<1> DEFINE T == {n \in Nat : n \notin S}
<1>1. T \subseteq Nat /\ N + 1 \in T
  OBVIOUS
<1>2. PICK m \in T : \A n \in T : ~ (<<n, m>> \in OpToRel(<, Nat))
  BY <1>1, NatLessThanWellFounded, WFMin
<1>3. \A n \in Nat : n < m => n \in S
  BY <1>2 DEF OpToRel
<1>4. m \in Nat /\ m \notin S
  BY <1>2
<1>5. 0 .. m - 1 \subseteq S
  BY <1>3, <1>4
<1> QED
  BY <1>4, <1>5

\* contiguous_from_zero: everything up to the mark is there, the next is not.
LEMMA ContiguousFromZeroSpec ==
  ASSUME NEW N \in Nat, NEW S \in SUBSET (0 .. N)
  PROVE  /\ ContiguousFromZero(S) \in {-1} \cup S
         /\ 0 .. ContiguousFromZero(S) \subseteq S
         /\ (ContiguousFromZero(S) + 1) \notin S
<1>1. PICK m \in Nat : m \notin S /\ 0 .. m - 1 \subseteq S
  BY LeastMissing
<1>2. /\ m - 1 \in {-1} \cup S
      /\ 0 .. m - 1 \subseteq S
      /\ (m - 1) + 1 \notin S
  BY <1>1
<1> QED
  BY <1>2 DEF ContiguousFromZero, CHWM_NONE

\* The recorder never concludes more from a snapshot than the sink has: what is
\* proven is held, or a gap the sink was told of.
THEOREM SnapshotIsHonest ==
  ASSUME NEW N \in Nat, NEW h \in SUBSET (0 .. N), NEW g \in SUBSET (0 .. N),
         NEW f \in -1 .. N
  PROVE  /\ AckStatus(h, g, f).chwm \in -1 .. N
         /\ AckStatus(h, g, f).holes \in SUBSET (0 .. N)
         /\ ProvenHeld(AckStatus(h, g, f)) \subseteq h \cup g
<1> DEFINE c == Chwm(h, g)
           H == Holes(h, g, f)
<1>1. /\ c \in {-1} \cup (h \cup g)
      /\ 0 .. c \subseteq h \cup g
  BY ContiguousFromZeroSpec, h \cup g \in SUBSET (0 .. N) DEF Chwm
<1>2. H \in SUBSET (0 .. N)
  BY DEF Holes
<1>3. ASSUME NEW x \in H, NEW s \in 0 .. x, s \notin H
      PROVE  s \in h \cup g
  BY <1>3 DEF Holes
<1>4. AckStatus(h, g, f).chwm = c /\ AckStatus(h, g, f).holes = H
  BY DEF AckStatus
<1> HIDE DEF c, H
<1>5. c \in -1 .. N
  BY <1>1
<1>6. ProvenHeld(AckStatus(h, g, f)) =
        (0 .. c) \cup {s \in UNION {0 .. x : x \in H} : s > c /\ s \notin H}
  BY <1>4 DEF ProvenHeld
<1>7. ASSUME NEW s \in UNION {0 .. x : x \in H}, s \notin H
      PROVE  s \in h \cup g
  BY <1>3, <1>7
<1>8. ProvenHeld(AckStatus(h, g, f)) \subseteq h \cup g
  BY <1>1, <1>6, <1>7
<1> QED
  BY <1>2, <1>4, <1>5, <1>8

-----------------------------------------------------------------------------
(***************************************************************************)
(* The inductive invariant, in parts.                                      *)
(***************************************************************************)
Seqs == 0 .. MaxSeq

\* Frames in flight carry chunks that were produced and gaps that are gaps.
GoodFrames == {Chunk(s) : s \in Produced} \cup {GapReport(G) : G \in SUBSET gaps}

\* An ACK in flight claims only what is durable at its sink, or a gap.
GoodAcks(k) == {a \in Ack : ProvenHeld(a) \subseteq stored[k] \cup gaps}

SenderTyped ==
  /\ state \in TakeState
  /\ nextSeq \in 0 .. MaxSeq + 1
  /\ finalSeq \in -1 .. MaxSeq
  /\ ackedByAny \in SUBSET Seqs
  /\ sinks \in SUBSET Sink
  /\ connected \in [Sink -> BOOLEAN]
  /\ proven \in [Sink -> SUBSET Seqs]
  /\ gapsReported \in [Sink -> SUBSET gaps]
  /\ control \in [Sink -> Seq(SUBSET gaps)]

WireGood ==
  /\ toSink \in [Sink -> Seq(GoodFrames)]
  /\ toRecorder \in [Sink -> Seq(Ack)]
  /\ \A k \in Sink : toRecorder[k] \in Seq(GoodAcks(k))

EngineGood ==
  /\ held \in [Sink -> SUBSET Produced]
  /\ declaredGaps \in [Sink -> SUBSET gaps]
  /\ recvFinal \in [Sink -> -1 .. MaxSeq]
  /\ busy \in [Sink -> GoodFrames \cup {NoFrame}]

StoreGood ==
  /\ stored \in [Sink -> SUBSET Produced]
  /\ gapRows \in [Sink -> SUBSET (Seqs \X Seqs)]
  /\ \A k \in Sink : Covered(gapRows[k]) \subseteq gaps

\* What the engine holds is stored, but for the chunk being persisted.
HeldIsStored ==
  \A k \in Sink : held[k] \subseteq
    stored[k] \cup (IF busy[k].type = "chunk" THEN busy[k].seqs ELSE {})

SnapshotsDurable == \A k \in Sink : proven[k] \subseteq stored[k] \cup gaps

Stored == UNION {stored[k] : k \in Sink}

AckedDurable == ackedByAny \subseteq Stored \cup gaps

FinalIsLast == state \in {"Draining", "Closed"} => finalSeq = nextSeq - 1

Inv ==
  /\ SenderTyped /\ WireGood /\ EngineGood /\ StoreGood
  /\ Accounted /\ HeldIsStored /\ SnapshotsDurable /\ AckedDurable
  /\ EvictedIsDurable /\ FinalIsLast
-----------------------------------------------------------------------------
\* A sequence over a set is one over any larger set.
LEMMA SeqMonotone ==
  ASSUME NEW A, NEW B, A \subseteq B, NEW q \in Seq(A)
  PROVE  q \in Seq(B)
  OBVIOUS

\* Nothing was produced, sent or acknowledged yet.
LEMMA InitInv == ASSUME Init PROVE Inv
<1> USE DEF Init, SenderInit, NoSeq
<1> USE SenderConstants
<1>1. SenderTyped
  BY DEF SenderTyped, TakeState, Seqs
<1>2. WireGood
  BY DEF WireGood
<1>3. EngineGood
  BY DEF EngineGood
<1>4. StoreGood
  BY DEF StoreGood, Covered
<1>5. Accounted
  BY DEF Accounted, Produced
<1>6. HeldIsStored /\ SnapshotsDurable /\ AckedDurable
  BY DEF HeldIsStored, SnapshotsDurable, AckedDurable
<1>7. EvictedIsDurable /\ FinalIsLast
  BY DEF EvictedIsDurable, FinalIsLast
<1> QED
  BY <1>1, <1>2, <1>3, <1>4, <1>5, <1>6, <1>7 DEF Inv
-----------------------------------------------------------------------------
(***************************************************************************)
(* The recorder's steps.                                                   *)
(***************************************************************************)
\* Eviction takes resident chunks only, acknowledged ones in pass 1, and never
\* the chunk being inserted.
LEMMA VictimsAreResident ==
  ASSUME NEW seq
  PROVE  /\ AckedVictims(seq) \subseteq chunks \cap ackedByAny
         /\ UnackedVictims(seq) \subseteq chunks \ AckedVictims(seq)
         /\ seq \notin AckedVictims(seq) /\ seq \notin UnackedVictims(seq)
<1>1. AckedVictims(seq) \subseteq EvictableAfter(seq) \cap ackedByAny
  BY DEF AckedVictims, Victims
<1>2. UnackedVictims(seq) \subseteq EvictableAfter(seq) \ AckedVictims(seq)
  BY DEF UnackedVictims, Victims
<1> QED
  BY <1>1, <1>2 DEF EvictableAfter

\* A gap report is a frame about chunks that were produced.
LEMMA ReportFramesTyped ==
  ASSUME NEW G, NEW r, NEW S, G \subseteq S
  PROVE  ReportFrames(G, r) \in Seq(SUBSET S)
<1> DEFINE D == G \ r
<1>1. D \in SUBSET S
  OBVIOUS
<1> HIDE DEF D
<1>2. <<D>> \in Seq(SUBSET S) /\ <<>> \in Seq(SUBSET S)
  BY <1>1
<1>3. ReportFrames(G, r) = <<>> \/ ReportFrames(G, r) = <<D>>
  BY DEF ReportFrames, D
<1> QED
  BY <1>2, <1>3

\* A chunk that is captured is resident, and what it evicts was acknowledged or becomes a gap.
LEMMA CaptureInv == ASSUME Inv, Capture PROVE Inv'
<1> DEFINE A == AckedVictims(nextSeq)
           U == UnackedVictims(nextSeq)
<1> USE SenderConstants
<1>1. /\ A \subseteq chunks \cap ackedByAny
      /\ U \subseteq chunks \ A
      /\ nextSeq \notin A /\ nextSeq \notin U
  BY VictimsAreResident
<1>2. /\ nextSeq <= MaxSeq
      /\ nextSeq' = nextSeq + 1
      /\ chunks' = (chunks \cup {nextSeq}) \ (A \cup U)
      /\ evictedAcked' = evictedAcked \cup A
      /\ gaps' = gaps \cup U
      /\ control' = [k \in Sink |->
           IF k \in sinks THEN control[k] \o ReportFrames(U, gapsReported[k]) ELSE control[k]]
      /\ gapsReported' = [k \in Sink |->
           IF k \in sinks THEN gapsReported[k] \cup U ELSE gapsReported[k]]
      /\ state' = "Streaming"
      /\ UNCHANGED <<ackedByAny, finalSeq, sinks, connected, proven>>
      /\ UNCHANGED <<toSink, toRecorder, held, declaredGaps, recvFinal, busy, stored, gapRows>>
  BY DEF Capture, Arm, PushAudio, Produce, RingInsert, wireVars, sinkVars, engineVars, storeVars
<1> HIDE DEF A, U
<1>3. Produced' = Produced \cup {nextSeq} /\ nextSeq \notin Produced /\ nextSeq \in Seqs
  BY <1>2 DEF Inv, SenderTyped, Produced, Seqs
<1>4. Accounted'
  BY <1>1, <1>2, <1>3 DEF Inv, Accounted
<1>5. /\ gaps \subseteq gaps'
      /\ GoodFrames \subseteq GoodFrames'
      /\ \A k \in Sink : GoodAcks(k) \subseteq GoodAcks(k)'
  <2>1. gaps \subseteq gaps'
    BY <1>2
  <2>2. GoodFrames \subseteq GoodFrames'
    BY <2>1, <1>3 DEF GoodFrames, Chunk, GapReport
  <2>3. \A k \in Sink : GoodAcks(k) \subseteq GoodAcks(k)'
    BY <2>1, <1>2 DEF GoodAcks
  <2> QED
    BY <2>1, <2>2, <2>3
<1>6. SenderTyped'
  <2>1. ASSUME NEW k \in Sink
        PROVE  control'[k] \in Seq(SUBSET gaps')
    <3>1. control[k] \in Seq(SUBSET gaps')
      BY <1>5, SeqMonotone, SUBSET gaps \subseteq SUBSET gaps' DEF Inv, SenderTyped
    <3>2. ReportFrames(U, gapsReported[k]) \in Seq(SUBSET gaps')
      BY <1>2, ReportFramesTyped, U \subseteq gaps'
    <3> QED
      BY <3>1, <3>2, <1>2
  <2>2. gapsReported' \in [Sink -> SUBSET gaps']
    BY <1>2 DEF Inv, SenderTyped
  <2> QED
    BY <2>1, <2>2, <1>2 DEF Inv, SenderTyped, TakeState
<1>7. WireGood'
  <2>1. ASSUME NEW k \in Sink
        PROVE  toSink[k] \in Seq(GoodFrames') /\ toRecorder[k] \in Seq(GoodAcks(k)')
    BY <1>5, SeqMonotone DEF Inv, WireGood
  <2> QED
    BY <2>1, <1>2 DEF Inv, WireGood
<1>8. EngineGood'
  BY <1>2, <1>3, <1>5 DEF Inv, EngineGood
<1>9. StoreGood'
  BY <1>2, <1>3, <1>5 DEF Inv, StoreGood
<1>10. HeldIsStored' /\ SnapshotsDurable'
  BY <1>2, <1>5 DEF Inv, HeldIsStored, SnapshotsDurable
<1>11. Stored' = Stored
  BY <1>2 DEF Stored
<1>12. AckedDurable'
  BY <1>2, <1>5, <1>11 DEF Inv, AckedDurable
<1>13. A \subseteq Stored
  BY <1>1 DEF Inv, AckedDurable, Accounted
<1>14. EvictedIsDurable'
  BY <1>2, <1>11, <1>13 DEF Inv, EvictedIsDurable, Stored
<1>15. FinalIsLast'
  BY <1>2 DEF FinalIsLast
<1> QED
  BY <1>4, <1>6, <1>7, <1>8, <1>9, <1>10, <1>12, <1>14, <1>15 DEF Inv

\* The stop changes what is known to be the last chunk, and nothing that is stored.
LEMMA StopInv == ASSUME Inv, Stop PROVE Inv'
<1> USE SenderConstants
<1>1. /\ state = "Streaming"
      /\ finalSeq' = nextSeq - 1
      /\ state' \in {"Draining", "Closed"}
      /\ UNCHANGED <<nextSeq, ringVars, sinks, connected, proven, reportVars>>
      /\ UNCHANGED <<wireVars, sinkVars>>
  BY DEF Stop, Finish, TryClose
<1>2. UNCHANGED <<nextSeq, chunks, ackedByAny, gaps, evictedAcked, sinks, connected, proven,
                  control, gapsReported, toSink, toRecorder, held, declaredGaps, recvFinal,
                  busy, stored, gapRows>>
  BY <1>1 DEF ringVars, reportVars, wireVars, sinkVars, engineVars, storeVars
<1>3. SenderTyped'
  BY <1>1, <1>2 DEF Inv, SenderTyped, TakeState
<1>4. FinalIsLast'
  BY <1>1, <1>2 DEF FinalIsLast
<1>5. WireGood' /\ EngineGood' /\ StoreGood'
  BY <1>2 DEF Inv, WireGood, EngineGood, StoreGood, GoodFrames, GoodAcks, Produced
<1>6. Accounted' /\ HeldIsStored' /\ SnapshotsDurable' /\ AckedDurable' /\ EvictedIsDurable'
  BY <1>2 DEF Inv, Accounted, HeldIsStored, SnapshotsDurable, AckedDurable, EvictedIsDurable,
              Stored, Produced
<1> QED
  BY <1>3, <1>4, <1>5, <1>6 DEF Inv

\* What an ACK proves to the recorder is what the sink had when it was made.
LEMMA ReceiveAckInv == ASSUME Inv, NEW k \in Sink, ReceiveAck(k) PROVE Inv'
<1> DEFINE ack == Head(toRecorder[k])
           P == ProvenHeld(ack)
<1> USE SenderConstants
<1>1. /\ toRecorder[k] # <<>>
      /\ toRecorder' = [toRecorder EXCEPT ![k] = Tail(@)]
      /\ proven' = [proven EXCEPT ![k] = P]
      /\ ackedByAny' = ackedByAny \cup P
      /\ control' = [control EXCEPT ![k] = @ \o ReportFrames(ack.holes \cap gaps, {})]
      /\ gapsReported' = [gapsReported EXCEPT ![k] =
           IF ack.holes \cap gaps = {} THEN @ ELSE ack.holes \cap gaps]
      /\ state' = TryClose(state, proven', finalSeq)
      /\ UNCHANGED <<nextSeq, finalSeq, chunks, gaps, evictedAcked, sinks, connected>>
      /\ UNCHANGED <<toSink, held, declaredGaps, recvFinal, busy, stored, gapRows>>
  BY DEF ReceiveAck, HandleAck, sinkVars, engineVars, storeVars
<1>2. ack \in GoodAcks(k) /\ Tail(toRecorder[k]) \in Seq(GoodAcks(k))
  BY <1>1 DEF Inv, WireGood
<1>3. P \subseteq stored[k] \cup gaps /\ P \in SUBSET Seqs
  BY <1>2 DEF GoodAcks, Inv, StoreGood, Accounted, SenderTyped, Produced, Seqs
<1> HIDE DEF ack, P
<1>4. Produced' = Produced /\ GoodFrames' = GoodFrames /\ Stored' = Stored
      /\ \A j \in Sink : GoodAcks(j)' = GoodAcks(j)
  BY <1>1 DEF Produced, GoodFrames, GoodAcks, Stored
<1>5. SenderTyped'
  <2>1. ReportFrames(ack.holes \cap gaps, {}) \in Seq(SUBSET gaps)
    BY ReportFramesTyped, ack.holes \cap gaps \subseteq gaps
  <2>2. control' \in [Sink -> Seq(SUBSET gaps)]
    BY <1>1, <2>1 DEF Inv, SenderTyped
  <2>3. state' \in TakeState
    BY <1>1 DEF Inv, SenderTyped, TryClose, TakeState
  <2>4. gapsReported' \in [Sink -> SUBSET gaps]
    BY <1>1 DEF Inv, SenderTyped
  <2> QED
    BY <1>1, <1>3, <2>2, <2>3, <2>4 DEF Inv, SenderTyped
<1>6. WireGood'
  BY <1>1, <1>2, <1>4 DEF Inv, WireGood
<1>7. EngineGood' /\ StoreGood'
  BY <1>1, <1>4 DEF Inv, EngineGood, StoreGood
<1>8. Accounted' /\ HeldIsStored'
  BY <1>1, <1>4 DEF Inv, Accounted, HeldIsStored
<1>9. SnapshotsDurable'
  BY <1>1, <1>3 DEF Inv, SnapshotsDurable, SenderTyped
<1>10. AckedDurable' /\ EvictedIsDurable'
  <2>1. stored[k] \subseteq Stored
    BY DEF Stored
  <2>2. AckedDurable'
    BY <1>1, <1>3, <1>4, <2>1 DEF Inv, AckedDurable
  <2>3. EvictedIsDurable'
    BY <1>1 DEF Inv, EvictedIsDurable
  <2> QED
    BY <2>2, <2>3
<1>11. FinalIsLast'
  BY <1>1 DEF Inv, FinalIsLast, TryClose
<1> QED
  BY <1>5, <1>6, <1>7, <1>8, <1>9, <1>10, <1>11 DEF Inv
-----------------------------------------------------------------------------
(***************************************************************************)
(* Steps that leave the take, the ring and the snapshots alone: it is      *)
(* enough that channels, engines and stores stay good and that no store    *)
(* forgets a chunk.                                                        *)
(***************************************************************************)
LEMMA QuietStep ==
  ASSUME Inv,
         UNCHANGED <<takeVars, ringVars, proven, gapsReported>>,
         sinks' \in SUBSET Sink,
         connected' \in [Sink -> BOOLEAN],
         control' \in [Sink -> Seq(SUBSET gaps)],
         toSink' \in [Sink -> Seq(GoodFrames)],
         toRecorder' \in [Sink -> Seq(Ack)],
         \A k \in Sink : toRecorder'[k] \in Seq(GoodAcks(k)),
         held' \in [Sink -> SUBSET Produced],
         declaredGaps' \in [Sink -> SUBSET gaps],
         recvFinal' \in [Sink -> -1 .. MaxSeq],
         busy' \in [Sink -> GoodFrames \cup {NoFrame}],
         stored' \in [Sink -> SUBSET Produced],
         \A k \in Sink : stored[k] \subseteq stored'[k],
         gapRows' \in [Sink -> SUBSET (Seqs \X Seqs)],
         \A k \in Sink : Covered(gapRows'[k]) \subseteq gaps,
         HeldIsStored'
  PROVE  Inv'
<1> USE SenderConstants
<1>1. UNCHANGED <<state, nextSeq, finalSeq, chunks, ackedByAny, gaps, evictedAcked, proven,
                  gapsReported>>
  BY DEF takeVars, ringVars
<1>2. Produced' = Produced /\ GoodFrames' = GoodFrames
  BY <1>1 DEF Produced, GoodFrames
<1>3. \A k \in Sink : GoodAcks(k) \subseteq GoodAcks(k)'
  BY <1>1 DEF GoodAcks
<1>4. Stored \subseteq Stored'
  BY DEF Stored
<1>5. SenderTyped'
  BY <1>1 DEF Inv, SenderTyped
<1>6. WireGood'
  <2>1. \A k \in Sink : toRecorder'[k] \in Seq(GoodAcks(k)')
    BY <1>3, SeqMonotone
  <2> QED
    BY <1>2, <2>1 DEF WireGood
<1>7. EngineGood' /\ StoreGood'
  <2>1. EngineGood'
    BY <1>1, <1>2 DEF EngineGood
  <2>2. \A k \in Sink : Covered(gapRows[k])' = Covered(gapRows'[k])
    BY DEF Covered
  <2>3. StoreGood'
    BY <1>1, <1>2, <2>2 DEF StoreGood
  <2> QED
    BY <2>1, <2>3
<1>8. Accounted' /\ SnapshotsDurable' /\ FinalIsLast'
  BY <1>1, <1>2 DEF Inv, Accounted, SnapshotsDurable, FinalIsLast
<1>9. AckedDurable' /\ EvictedIsDurable'
  <2>1. AckedDurable'
    BY <1>1, <1>4 DEF Inv, AckedDurable
  <2>2. EvictedIsDurable'
    BY <1>1, <1>4 DEF Inv, EvictedIsDurable, Stored
  <2> QED
    BY <2>1, <2>2
<1> QED
  BY <1>5, <1>6, <1>7, <1>8, <1>9 DEF Inv

\* The facts of Inv that QuietStep asks for, when nothing changes.
LEMMA QuietFacts ==
  ASSUME Inv
  PROVE  /\ sinks \in SUBSET Sink /\ connected \in [Sink -> BOOLEAN]
         /\ control \in [Sink -> Seq(SUBSET gaps)]
         /\ toSink \in [Sink -> Seq(GoodFrames)]
         /\ toRecorder \in [Sink -> Seq(Ack)]
         /\ \A k \in Sink : toRecorder[k] \in Seq(GoodAcks(k))
         /\ held \in [Sink -> SUBSET Produced]
         /\ declaredGaps \in [Sink -> SUBSET gaps]
         /\ recvFinal \in [Sink -> -1 .. MaxSeq]
         /\ busy \in [Sink -> GoodFrames \cup {NoFrame}]
         /\ stored \in [Sink -> SUBSET Produced]
         /\ gapRows \in [Sink -> SUBSET (Seqs \X Seqs)]
         /\ \A k \in Sink : Covered(gapRows[k]) \subseteq gaps
         /\ HeldIsStored
  BY DEF Inv, SenderTyped, WireGood, EngineGood, StoreGood

\* Steps of the recorder and its channels that do not touch a sink.
LEMMA WireStep ==
  ASSUME Inv,
         UNCHANGED <<takeVars, ringVars, proven, gapsReported, sinkVars>>,
         sinks' \in SUBSET Sink,
         connected' \in [Sink -> BOOLEAN],
         control' \in [Sink -> Seq(SUBSET gaps)],
         toSink' \in [Sink -> Seq(GoodFrames)],
         toRecorder' \in [Sink -> Seq(Ack)],
         \A k \in Sink : toRecorder'[k] \in Seq(GoodAcks(k))
  PROVE  Inv'
<1>1. UNCHANGED <<held, declaredGaps, recvFinal, busy, stored, gapRows>>
  BY DEF sinkVars, engineVars, storeVars
<1>2. HeldIsStored'
  BY <1>1 DEF Inv, HeldIsStored
<1>3. \A k \in Sink : stored[k] \subseteq stored'[k]
  BY <1>1
<1>4. \A k \in Sink : Covered(gapRows'[k]) \subseteq gaps
  BY <1>1, QuietFacts
<1> QED
  BY <1>1, <1>2, <1>3, <1>4, QuietFacts, QuietStep

\* A sink that attaches has acknowledged nothing yet.
LEMMA AttachInv == ASSUME Inv, NEW k \in Sink, Attach(k) PROVE Inv'
  BY QuietFacts, WireStep DEF Attach, AddSink, wireVars, reportVars

\* A new channel is empty.
LEMMA ConnectInv == ASSUME Inv, NEW k \in Sink, Connect(k) PROVE Inv'
  BY QuietFacts, WireStep DEF Connect, SetConnected, wireVars, reportVars

\* A pump that finds a stale queue entry sends nothing.
LEMMA SendNothingInv == ASSUME Inv, NEW k \in Sink, SendNothing(k) PROVE Inv'
  BY QuietFacts, WireStep DEF SendNothing, PopNothing, wireVars, reportVars

\* A gap report sent is about declared gaps.
LEMMA SendReportInv == ASSUME Inv, NEW k \in Sink, SendReport(k) PROVE Inv'
<1>1. /\ control[k] # <<>>
      /\ control' = [control EXCEPT ![k] = Tail(@)]
      /\ toSink' = [toSink EXCEPT ![k] = Append(@, GapReport(Head(control[k])))]
      /\ UNCHANGED <<takeVars, ringVars, proven, gapsReported, sinkVars, sinks, connected, toRecorder>>
  BY DEF SendReport, PopReport, Send
<1>2. Head(control[k]) \in SUBSET gaps /\ Tail(control[k]) \in Seq(SUBSET gaps)
  BY <1>1, QuietFacts
<1>3. GapReport(Head(control[k])) \in GoodFrames
  BY <1>2 DEF GoodFrames
<1>4. control' \in [Sink -> Seq(SUBSET gaps)]
  BY <1>1, <1>2, QuietFacts
<1>5. toSink' \in [Sink -> Seq(GoodFrames)]
  BY <1>1, <1>3, QuietFacts
<1> QED
  BY <1>1, <1>4, <1>5, QuietFacts, WireStep

\* A chunk sent is resident.
LEMMA SendChunkInv == ASSUME Inv, NEW k \in Sink, SendChunk(k) PROVE Inv'
<1>1. PICK s \in chunks : PopChunk(k, s) /\ Send(k, Chunk(s))
  BY DEF SendChunk
<1>2. /\ toSink' = [toSink EXCEPT ![k] = Append(@, Chunk(s))]
      /\ UNCHANGED <<takeVars, ringVars, proven, control, gapsReported, sinkVars, sinks,
                     connected, toRecorder>>
  BY <1>1 DEF SendChunk, PopChunk, Send, reportVars
<1>3. Chunk(s) \in GoodFrames
  BY <1>1 DEF GoodFrames, Inv, Accounted
<1>4. toSink' \in [Sink -> Seq(GoodFrames)]
  BY <1>2, <1>3, QuietFacts
<1> QED
  BY <1>2, <1>4, QuietFacts, WireStep

\* What a cut leaves of the channels.
LEMMA CutChannelFacts ==
  ASSUME Inv, NEW k \in Sink, CutChannel(k)
  PROVE  /\ UNCHANGED <<takeVars, ringVars, proven, gapsReported, sinks, control>>
         /\ connected' \in [Sink -> BOOLEAN]
         /\ toSink' \in [Sink -> Seq(GoodFrames)]
         /\ toRecorder' \in [Sink -> Seq(Ack)]
         /\ \A j \in Sink : toRecorder'[j] \in Seq(GoodAcks(j))
<1>1. /\ UNCHANGED <<takeVars, ringVars, proven, gapsReported, sinks, control>>
      /\ connected' = [connected EXCEPT ![k] = FALSE]
      /\ toRecorder' = [toRecorder EXCEPT ![k] = <<>>]
  BY DEF CutChannel, SetDisconnected, reportVars
<1>2. PICK n \in 0 .. Len(toSink[k]) : toSink' = [toSink EXCEPT ![k] = SubSeq(@, 1, n)]
  BY DEF CutChannel
<1>3. toSink[k] \in Seq(GoodFrames)
  BY QuietFacts
<1>4. SubSeq(toSink[k], 1, n) \in Seq(GoodFrames)
  BY <1>2, <1>3
<1> QED
  BY <1>1, <1>2, <1>4, QuietFacts

\* A cut only loses what was on the channel.
LEMMA DisconnectInv == ASSUME Inv, NEW k \in Sink, Disconnect(k) PROVE Inv'
  BY CutChannelFacts, QuietFacts, WireStep DEF Disconnect

\* An ACK is made from what is stored, as no frame is being persisted.
LEMMA SendAckInv == ASSUME Inv, NEW k \in Sink, SendAck(k) PROVE Inv'
<1> DEFINE ack == AckStatus(held[k], declaredGaps[k], recvFinal[k])
<1> USE SenderConstants
<1>1. /\ busy[k] = NoFrame
      /\ toRecorder' = [toRecorder EXCEPT ![k] = Append(@, ack)]
      /\ UNCHANGED <<takeVars, ringVars, proven, control, gapsReported, sinkVars, sinks,
                     connected, toSink>>
  BY DEF SendAck, senderVars, reportVars
<1>2. held[k] \subseteq stored[k]
  BY <1>1 DEF Inv, HeldIsStored, NoFrame
<1>3. /\ held[k] \in SUBSET (0 .. MaxSeq) /\ declaredGaps[k] \in SUBSET (0 .. MaxSeq)
      /\ declaredGaps[k] \subseteq gaps
      /\ recvFinal[k] \in -1 .. MaxSeq
  BY QuietFacts DEF Inv, Accounted, SenderTyped, Produced
<1>4. /\ ack.chwm \in -1 .. MaxSeq /\ ack.holes \in SUBSET (0 .. MaxSeq)
      /\ ProvenHeld(ack) \subseteq held[k] \cup declaredGaps[k]
  BY <1>3, SnapshotIsHonest
<1>5. ack \in Ack
  BY <1>4 DEF Ack, AckStatus
<1> HIDE DEF ack
<1>6. ack \in GoodAcks(k)
  BY <1>2, <1>3, <1>4, <1>5 DEF GoodAcks
<1>7. toRecorder' \in [Sink -> Seq(Ack)] /\ \A j \in Sink : toRecorder'[j] \in Seq(GoodAcks(j))
  <2>1. toRecorder' \in [Sink -> Seq(Ack)]
    BY <1>1, <1>5, QuietFacts
  <2>2. Append(toRecorder[k], ack) \in Seq(GoodAcks(k))
    BY <1>6, QuietFacts
  <2>3. \A j \in Sink : toRecorder'[j] \in Seq(GoodAcks(j))
    BY <1>1, <2>2, QuietFacts
  <2> QED
    BY <2>1, <2>3
<1> QED
  BY <1>1, <1>7, QuietFacts, WireStep
-----------------------------------------------------------------------------
(***************************************************************************)
(* The sink's steps.                                                       *)
(***************************************************************************)
\* Steps of a sink's engine that leave its store alone.
LEMMA EngineStep ==
  ASSUME Inv,
         UNCHANGED <<senderVars, toRecorder, storeVars>>,
         toSink' \in [Sink -> Seq(GoodFrames)],
         held' \in [Sink -> SUBSET Produced],
         declaredGaps' \in [Sink -> SUBSET gaps],
         recvFinal' \in [Sink -> -1 .. MaxSeq],
         busy' \in [Sink -> GoodFrames \cup {NoFrame}],
         HeldIsStored'
  PROVE  Inv'
<1>1. UNCHANGED <<takeVars, ringVars, proven, gapsReported, sinks, connected, control,
                  toRecorder, stored, gapRows>>
  BY DEF senderVars, reportVars, storeVars
<1>2. \A k \in Sink : stored[k] \subseteq stored'[k]
  BY <1>1
<1>3. \A k \in Sink : Covered(gapRows'[k]) \subseteq gaps
  BY <1>1, QuietFacts
<1> QED
  BY <1>1, <1>2, <1>3, QuietFacts, QuietStep

\* The engine takes a chunk, and holds it from then on.
LEMMA IngestChunkFacts ==
  ASSUME Inv, NEW k \in Sink, NEW s \in Produced, busy[k] = NoFrame, IngestChunk(k, s)
  PROVE  /\ held' \in [Sink -> SUBSET Produced]
         /\ busy' \in [Sink -> GoodFrames \cup {NoFrame}]
         /\ HeldIsStored'
<1>1. /\ held' = [held EXCEPT ![k] = @ \cup {s}]
      /\ busy' = [busy EXCEPT ![k] = IF s \in held[k] THEN NoFrame ELSE Chunk(s)]
      /\ UNCHANGED stored
  BY DEF IngestChunk, storeVars
<1>2. Chunk(s) \in GoodFrames
  BY DEF GoodFrames
<1>3. held' \in [Sink -> SUBSET Produced] /\ busy' \in [Sink -> GoodFrames \cup {NoFrame}]
  BY <1>1, <1>2, QuietFacts
<1>4. ASSUME NEW j \in Sink
      PROVE  held'[j] \subseteq
               stored'[j] \cup (IF busy'[j].type = "chunk" THEN busy'[j].seqs ELSE {})
  <2>1. CASE j # k
    BY <1>1, <2>1, QuietFacts DEF HeldIsStored
  <2>2. held[k] \subseteq stored[k]
    BY QuietFacts DEF HeldIsStored, NoFrame
  <2>3. CASE j = k /\ s \in held[k]
    BY <1>1, <2>2, <2>3, QuietFacts
  <2>4. CASE j = k /\ s \notin held[k]
    <3>1. busy'[k] = Chunk(s) /\ held'[k] = held[k] \cup {s}
      BY <1>1, <2>4, QuietFacts
    <3>2. busy'[k].type = "chunk" /\ busy'[k].seqs = {s}
      BY <3>1 DEF Chunk
    <3> QED
      BY <1>1, <2>2, <2>4, <3>1, <3>2
  <2> QED
    BY <2>1, <2>3, <2>4
<1> QED
  BY <1>3, <1>4 DEF HeldIsStored

\* The engine takes a frame in before its store does.
LEMMA ProcessFrameInv == ASSUME Inv, NEW k \in Sink, ProcessFrame(k) PROVE Inv'
<1> DEFINE f == Head(toSink[k])
<1>1. /\ busy[k] = NoFrame /\ toSink[k] # <<>>
      /\ toSink' = [toSink EXCEPT ![k] = Tail(@)]
      /\ UNCHANGED <<senderVars, toRecorder>>
  BY DEF ProcessFrame
<1>2. f \in GoodFrames /\ toSink' \in [Sink -> Seq(GoodFrames)]
  BY <1>1, QuietFacts
<1>3. CASE f.type = "chunk"
  <2>1. PICK s \in f.seqs : IngestChunk(k, s)
    BY <1>3 DEF ProcessFrame
  <2>2. s \in Produced
    BY <1>2, <1>3, <2>1 DEF GoodFrames, Chunk, GapReport
  <2>3. UNCHANGED <<declaredGaps, recvFinal, storeVars>>
    BY <2>1 DEF IngestChunk
  <2> QED
    BY <1>1, <1>2, <2>1, <2>2, <2>3, IngestChunkFacts, QuietFacts, EngineStep
<1>4. CASE f.type # "chunk"
  <2>1. IngestGaps(k, f)
    BY <1>4 DEF ProcessFrame
  <2>2. f.type = "gaps" /\ f.seqs \subseteq gaps
    BY <1>2, <1>4 DEF GoodFrames, Chunk, GapReport
  <2> HIDE DEF f
  <2>3. /\ declaredGaps' = [declaredGaps EXCEPT ![k] = @ \cup f.seqs]
        /\ busy' = [busy EXCEPT ![k] = f]
        /\ UNCHANGED <<held, recvFinal, storeVars, stored>>
    BY <2>1 DEF IngestGaps, storeVars
  <2>4. /\ declaredGaps' \in [Sink -> SUBSET gaps]
        /\ busy' \in [Sink -> GoodFrames \cup {NoFrame}]
    BY <1>2, <2>2, <2>3, QuietFacts
  <2>5. HeldIsStored'
    BY <1>1, <2>2, <2>3, QuietFacts DEF HeldIsStored, NoFrame
  <2> QED
    BY <1>1, <1>2, <2>3, <2>4, <2>5, QuietFacts, EngineStep
<1> QED
  BY <1>3, <1>4

\* A chunk that another sink pushed was produced, and comes from a store.
LEMMA SyncChunkInv ==
  ASSUME Inv, NEW j \in Sink, NEW k \in Sink, SyncChunk(j, k)
  PROVE  Inv'
<1>1. busy[k] = NoFrame /\ UNCHANGED <<senderVars, toSink, toRecorder>>
  BY DEF SyncChunk, wireVars
<1>2. PICK s \in stored[j] \ held[k] : IngestChunk(k, s)
  BY DEF SyncChunk
<1>3. s \in Produced
  BY <1>2, QuietFacts
<1>4. UNCHANGED <<declaredGaps, recvFinal, storeVars>>
  BY <1>2 DEF IngestChunk
<1> QED
  BY <1>1, <1>2, <1>3, <1>4, IngestChunkFacts, QuietFacts, EngineStep

\* The final number a sink is told is the stream's.
LEMMA NoteFinalInv == ASSUME Inv, NEW k \in Sink, NoteFinal(k) PROVE Inv'
<1>1. /\ recvFinal' = [recvFinal EXCEPT ![k] = finalSeq]
      /\ UNCHANGED <<senderVars, toSink, toRecorder, held, declaredGaps, busy, storeVars, stored>>
  BY DEF NoteFinal, wireVars, storeVars
<1>2. recvFinal' \in [Sink -> -1 .. MaxSeq]
  BY <1>1, QuietFacts DEF Inv, SenderTyped
<1>3. HeldIsStored'
  BY <1>1, QuietFacts DEF HeldIsStored
<1> QED
  BY <1>1, <1>2, <1>3, QuietFacts, EngineStep

\* New gap rows cover only gaps.
LEMMA GapRowsFacts ==
  ASSUME NEW k \in Sink, NEW rows \in SUBSET (Seqs \X Seqs), NEW G \in SUBSET Seqs
  PROVE  /\ InsertGapRows(k, rows, RangesOf(G)) \in SUBSET (Seqs \X Seqs)
         /\ Covered(InsertGapRows(k, rows, RangesOf(G))) \subseteq Covered(rows) \cup G
<1>1. InsertGapRows(k, rows, RangesOf(G)) \subseteq rows \cup RangesOf(G)
  BY DEF InsertGapRows
<1>2. RangesOf(G) \in SUBSET (Seqs \X Seqs) /\ \A r \in RangesOf(G) : r[1] .. r[2] \subseteq G
  BY DEF RangesOf
<1> QED
  BY <1>1, <1>2 DEF Covered

\* What is persisted is what the engine took in, or the sink is restarted.
LEMMA PersistInv == ASSUME Inv, NEW k \in Sink, Persist(k) PROVE Inv'
<1>1. /\ busy[k] # NoFrame /\ busy[k] \in GoodFrames
      /\ busy' = [busy EXCEPT ![k] = NoFrame]
      /\ UNCHANGED <<takeVars, ringVars, proven, gapsReported, sinks, connected, control,
                     toSink, toRecorder, held, declaredGaps, recvFinal>>
  BY QuietFacts DEF Persist, senderVars, reportVars, wireVars
<1>2. busy' \in [Sink -> GoodFrames \cup {NoFrame}]
  BY <1>1, QuietFacts
<1>3. CASE busy[k].type = "chunk"
  <2>1. /\ stored' = [stored EXCEPT ![k] = @ \cup busy[k].seqs]
        /\ UNCHANGED gapRows
    BY <1>3 DEF Persist
  <2>2. busy[k].seqs \subseteq Produced
    BY <1>1, <1>3 DEF GoodFrames, Chunk, GapReport
  <2>3. stored' \in [Sink -> SUBSET Produced] /\ \A j \in Sink : stored[j] \subseteq stored'[j]
    BY <2>1, <2>2, QuietFacts
  <2>4. HeldIsStored'
    BY <1>1, <1>3, <2>1, QuietFacts DEF HeldIsStored, NoFrame
  <2> QED
    BY <1>1, <1>2, <2>1, <2>3, <2>4, QuietFacts, QuietStep
<1>4. CASE busy[k].type # "chunk"
  <2>1. /\ gapRows' = [gapRows EXCEPT ![k] = InsertGapRows(k, @, RangesOf(busy[k].seqs))]
        /\ UNCHANGED stored
    BY <1>4 DEF Persist
  <2>2. busy[k].seqs \subseteq gaps
    BY <1>1, <1>4 DEF GoodFrames, Chunk, GapReport
  <2>3. gaps \subseteq Seqs
    BY SenderConstants DEF Inv, Accounted, SenderTyped, Produced, Seqs
  <2>4. /\ gapRows[k] \in SUBSET (Seqs \X Seqs) /\ busy[k].seqs \in SUBSET Seqs
        /\ Covered(gapRows[k]) \subseteq gaps
    BY <2>2, <2>3, QuietFacts
  <2>5. /\ gapRows'[k] \in SUBSET (Seqs \X Seqs)
        /\ Covered(gapRows'[k]) \subseteq gaps
    <3>1. gapRows'[k] = InsertGapRows(k, gapRows[k], RangesOf(busy[k].seqs))
      BY <2>1, QuietFacts
    <3>2. /\ InsertGapRows(k, gapRows[k], RangesOf(busy[k].seqs)) \in SUBSET (Seqs \X Seqs)
          /\ Covered(InsertGapRows(k, gapRows[k], RangesOf(busy[k].seqs)))
               \subseteq Covered(gapRows[k]) \cup busy[k].seqs
      BY <2>4, GapRowsFacts
    <3> QED
      BY <2>2, <2>4, <3>1, <3>2
  <2>6. \A j \in Sink : j # k => gapRows'[j] = gapRows[j]
    BY <2>1, QuietFacts
  <2>7. /\ gapRows' \in [Sink -> SUBSET (Seqs \X Seqs)]
        /\ \A j \in Sink : Covered(gapRows'[j]) \subseteq gaps
    BY <2>1, <2>5, <2>6, QuietFacts
  <2>8. HeldIsStored'
    BY <1>1, <1>4, <2>1, QuietFacts DEF HeldIsStored, NoFrame
  <2> QED
    BY <1>1, <1>2, <2>1, <2>7, <2>8, QuietFacts, QuietStep
<1> QED
  BY <1>3, <1>4

\* After a rebuild the engine is what the store says.
LEMMA RebuildFacts ==
  ASSUME Inv, NEW k \in Sink, Rebuild(k)
  PROVE  /\ held' \in [Sink -> SUBSET Produced]
         /\ declaredGaps' \in [Sink -> SUBSET gaps]
         /\ busy' \in [Sink -> GoodFrames \cup {NoFrame}]
         /\ UNCHANGED <<recvFinal, stored, gapRows>>
         /\ HeldIsStored'
<1>1. /\ held' = [held EXCEPT ![k] = stored[k]]
      /\ declaredGaps' = [declaredGaps EXCEPT ![k] = Covered(gapRows[k])]
      /\ busy' = [busy EXCEPT ![k] = NoFrame]
      /\ UNCHANGED <<recvFinal, stored, gapRows>>
  BY DEF Rebuild, storeVars
<1>2. HeldIsStored'
  BY <1>1, QuietFacts DEF HeldIsStored, NoFrame
<1> QED
  BY <1>1, <1>2, QuietFacts

\* A rebuilt engine holds what its store has.
LEMMA RestartInv == ASSUME Inv, NEW k \in Sink, Restart(k) PROVE Inv'
<1>1. /\ Rebuild(k)
      /\ toSink' = [toSink EXCEPT ![k] = <<>>]
      /\ toRecorder' = [toRecorder EXCEPT ![k] = <<>>]
      /\ UNCHANGED <<takeVars, ringVars, proven, gapsReported, sinks, control>>
      /\ connected' = connected \/ connected' = [connected EXCEPT ![k] = FALSE]
  BY DEF Restart, SetDisconnected, senderVars, reportVars
<1>2. toSink' \in [Sink -> Seq(GoodFrames)]
  BY <1>1, QuietFacts
<1>3. toRecorder' \in [Sink -> Seq(Ack)] /\ \A j \in Sink : toRecorder'[j] \in Seq(GoodAcks(j))
  BY <1>1, QuietFacts
<1>4. connected' \in [Sink -> BOOLEAN]
  BY <1>1, QuietFacts
<1>5. /\ \A j \in Sink : stored[j] \subseteq stored'[j]
      /\ \A j \in Sink : Covered(gapRows'[j]) \subseteq gaps
  BY <1>1, RebuildFacts, QuietFacts
<1> QED
  BY <1>1, <1>2, <1>3, <1>4, <1>5, RebuildFacts, QuietFacts, QuietStep

\* The only place where a sink must be fail-stop.
LEMMA PersistFailsInv ==
  ASSUME Failing \subseteq FailStop, Inv, NEW k \in Sink, PersistFails(k)
  PROVE  Inv'
<1>1. Rebuild(k)
  BY DEF PersistFails
<1>2. /\ \A j \in Sink : stored[j] \subseteq stored'[j]
      /\ \A j \in Sink : Covered(gapRows'[j]) \subseteq gaps
  BY <1>1, RebuildFacts, QuietFacts
<1>3. CASE CutChannel(k)
  BY <1>1, <1>2, <1>3, CutChannelFacts, RebuildFacts, QuietFacts, QuietStep
<1>4. CASE UNCHANGED <<senderVars, wireVars>>
  <2>1. UNCHANGED <<takeVars, ringVars, proven, gapsReported, sinks, connected, control,
                    toSink, toRecorder>>
    BY <1>4 DEF senderVars, reportVars, wireVars
  <2> QED
    BY <1>1, <1>2, <2>1, RebuildFacts, QuietFacts, QuietStep
<1> QED
  BY <1>3, <1>4 DEF PersistFails
-----------------------------------------------------------------------------
(***************************************************************************)
(* The theorems.                                                           *)
(***************************************************************************)
LEMMA NextInv ==
  ASSUME Failing \subseteq FailStop, Inv, [Next]_vars
  PROVE  Inv'
<1>1. CASE UNCHANGED vars
  <2>1. UNCHANGED <<senderVars, toRecorder, storeVars, toSink, held, declaredGaps, recvFinal,
                    busy, stored>>
    BY <1>1 DEF vars, wireVars, sinkVars, engineVars, storeVars
  <2>2. HeldIsStored'
    BY <2>1, QuietFacts DEF HeldIsStored
  <2> QED
    BY <2>1, <2>2, QuietFacts, EngineStep
<1>2. CASE Capture \/ Stop
  BY <1>2, CaptureInv, StopInv
<1>3. ASSUME NEW k \in Sink,
             \/ Attach(k) \/ Connect(k) \/ Disconnect(k)
             \/ SendReport(k) \/ SendChunk(k) \/ SendNothing(k) \/ ReceiveAck(k)
             \/ SendAck(k)
      PROVE  Inv'
  BY <1>3, AttachInv, ConnectInv, DisconnectInv, SendReportInv, SendChunkInv, SendNothingInv,
     ReceiveAckInv, SendAckInv
<1>4. ASSUME NEW k \in Sink,
             \/ ProcessFrame(k) \/ Persist(k) \/ PersistFails(k) \/ Restart(k)
             \/ NoteFinal(k)
             \/ \E j \in Sink : SyncChunk(j, k)
      PROVE  Inv'
  BY <1>4, ProcessFrameInv, PersistInv, PersistFailsInv, RestartInv, NoteFinalInv, SyncChunkInv
<1> QED
  BY <1>1, <1>2, <1>3, <1>4 DEF Next

\* Every behaviour of the protocol, with faults at fail-stop sinks only, keeps the
\* inductive invariant.
THEOREM Invariance == ASSUME Failing \subseteq FailStop PROVE Spec => []Inv
<1>1. Init => Inv
  BY InitInv
<1>2. Inv /\ [Next]_vars => Inv'
  BY NextInv
<1> QED
  BY <1>1, <1>2, PTL DEF Spec

\* Every variable keeps its type.
THEOREM TypeCorrect == ASSUME Failing \subseteq FailStop PROVE Spec => []TypeOK
<1>1. Inv => TypeOK
  <2> SUFFICES ASSUME Inv PROVE TypeOK
    OBVIOUS
  <2> USE SenderConstants
  <2>1. Produced \subseteq Seqs /\ gaps \subseteq Seqs /\ chunks \subseteq Seqs
        /\ evictedAcked \subseteq Seqs
    BY DEF Inv, Accounted, SenderTyped, Produced, Seqs
  <2>2. GoodFrames \cup {NoFrame} \subseteq Frame
    <3>1. \A x \in Produced : Chunk(x) \in Frame
      BY <2>1 DEF Frame, Chunk, Seqs
    <3>2. \A G \in SUBSET gaps : GapReport(G) \in Frame
      BY <2>1 DEF Frame, GapReport, Seqs
    <3>3. NoFrame \in Frame
      BY DEF Frame, NoFrame
    <3> QED
      BY <3>1, <3>2, <3>3 DEF GoodFrames
  <2>3. control \in [Sink -> Seq(SUBSET Seqs)]
    BY <2>1, QuietFacts, SeqMonotone, SUBSET gaps \subseteq SUBSET Seqs
  <2>4. toSink \in [Sink -> Seq(Frame)]
    BY <2>2, QuietFacts, SeqMonotone
  <2>5. toRecorder \in [Sink -> Seq(Ack)]
    BY QuietFacts
  <2>6. /\ held \in [Sink -> SUBSET Seqs] /\ declaredGaps \in [Sink -> SUBSET Seqs]
        /\ stored \in [Sink -> SUBSET Seqs]
        /\ busy \in [Sink -> Frame]
        /\ gapRows \in [Sink -> SUBSET (Seqs \X Seqs)]
    BY <2>1, <2>2, QuietFacts
  <2> QED
    BY <2>1, <2>3, <2>4, <2>5, <2>6 DEF TypeOK, Inv, SenderTyped, Seqs
<1> QED
  BY <1>1, Invariance, PTL

\* The ring accounts for every chunk ever produced, exactly once.
THEOREM RingAccountsForAll == ASSUME Failing \subseteq FailStop PROVE Spec => []Accounted
<1>1. Inv => Accounted
  BY DEF Inv
<1> QED
  BY <1>1, Invariance, PTL

\* ACK honesty, end to end: the recorder never believes a sink has a chunk that
\* the sink's durable store does not have.
THEOREM AcksAreHonest == ASSUME Failing \subseteq FailStop PROVE Spec => []ProvenIsDurable
<1>1. Inv => ProvenIsDurable
  BY DEF Inv, SnapshotsDurable, ProvenIsDurable, SenderTyped
<1> QED
  BY <1>1, Invariance, PTL

\* Never lose audio: the ring evicts silently only what is durable somewhere.
THEOREM NoSilentLoss == ASSUME Failing \subseteq FailStop PROVE Spec => []EvictedIsDurable
<1>1. Inv => EvictedIsDurable
  BY DEF Inv
<1> QED
  BY <1>1, Invariance, PTL

\* A sink gives up only on chunks the recorder really lost.
THEOREM GapReportsAreTrue == ASSUME Failing \subseteq FailStop PROVE Spec => []GapReportsTrue
<1>1. Inv => GapReportsTrue
  BY DEF Inv, EngineGood, GapReportsTrue
<1> QED
  BY <1>1, Invariance, PTL

\* A step that closes the take finds every registered sink settled, by what it
\* has durably stored.
LEMMA ClosingStep ==
  ASSUME Inv, Next, state # "Closed", state' = "Closed"
  PROVE  /\ \A k \in sinks : 0 .. finalSeq' \subseteq stored[k] \cup gaps
         /\ sinks # {} /\ sinks \subseteq Sink
         /\ finalSeq' = nextSeq - 1
         /\ UNCHANGED <<nextSeq, chunks, gaps, stored>>
<1>1. CASE Stop
  <2>1. /\ finalSeq' = nextSeq - 1
        /\ state' = TryClose("Draining", proven, nextSeq - 1)
        /\ UNCHANGED <<nextSeq, chunks, gaps, stored>>
    BY <1>1 DEF Stop, Finish, ringVars, sinkVars, storeVars
  <2>2. DrainedAll(proven, nextSeq - 1)
    BY <2>1 DEF TryClose
  <2> QED
    BY <2>1, <2>2 DEF DrainedAll, Settled, Inv, SnapshotsDurable, SenderTyped
<1>2. ASSUME NEW k \in Sink, ReceiveAck(k)
      PROVE  /\ \A j \in sinks : 0 .. finalSeq' \subseteq stored[j] \cup gaps
             /\ sinks # {} /\ sinks \subseteq Sink
             /\ finalSeq' = nextSeq - 1
             /\ UNCHANGED <<nextSeq, chunks, gaps, stored>>
  <2>1. /\ state' = TryClose(state, proven', finalSeq)
        /\ UNCHANGED <<nextSeq, finalSeq, chunks, gaps, stored, sinks>>
    BY <1>2 DEF ReceiveAck, HandleAck, sinkVars, storeVars
  <2>2. state = "Draining" /\ DrainedAll(proven', finalSeq)
    BY <2>1 DEF TryClose
  <2>3. SnapshotsDurable'
    BY <1>2, ReceiveAckInv DEF Inv
  <2> QED
    BY <2>1, <2>2, <2>3 DEF DrainedAll, Settled, Inv, SnapshotsDurable, SenderTyped, FinalIsLast
<1>3. CASE Capture
  BY <1>3 DEF Capture, Arm, PushAudio
<1>4. ASSUME NEW k \in Sink,
             \/ Attach(k) \/ Connect(k) \/ Disconnect(k)
             \/ SendReport(k) \/ SendChunk(k) \/ SendNothing(k) \/ SendAck(k)
      PROVE  UNCHANGED state
  BY <1>4 DEF Attach, AddSink, Connect, SetConnected, Disconnect, CutChannel, SetDisconnected,
              SendReport, PopReport, SendChunk, PopChunk, SendNothing, PopNothing, SendAck,
              senderVars, takeVars
<1>5. ASSUME NEW k \in Sink,
             \/ ProcessFrame(k) \/ Persist(k) \/ PersistFails(k) \/ Restart(k)
             \/ NoteFinal(k)
             \/ \E j \in Sink : SyncChunk(j, k)
      PROVE  UNCHANGED state
  BY <1>5 DEF ProcessFrame, Persist, PersistFails, Restart, NoteFinal, SyncChunk, CutChannel,
              SetDisconnected, senderVars, takeVars
<1> QED
  BY <1>1, <1>2, <1>3, <1>4, <1>5 DEF Next

\* DRAINING ends only when every registered sink durably has the whole take.
THEOREM ClosingIsSafe == ASSUME Failing \subseteq FailStop PROVE Spec => CloseIsSafe
<1>1. Inv /\ [Next]_vars =>
        [state # "Closed" /\ state' = "Closed" =>
           \A k \in sinks : 0 .. finalSeq' \subseteq stored[k] \cup gaps]_vars
  BY ClosingStep
<1> QED
  BY <1>1, Invariance, PTL DEF Spec, CloseIsSafe
-----------------------------------------------------------------------------
(***************************************************************************)
(* The chunk protocol implements the take archive.                         *)
(***************************************************************************)
LEMMA CaptureMakes == ASSUME Inv, Capture PROVE Archive!Make
<1> DEFINE A == AckedVictims(nextSeq)
           U == UnackedVictims(nextSeq)
<1>1. A \subseteq chunks \cap ackedByAny /\ U \subseteq chunks
  BY VictimsAreResident
<1>2. /\ state # "Closed" /\ state' # "Closed"
      /\ nextSeq' = nextSeq + 1
      /\ chunks' = (chunks \cup {nextSeq}) \ (A \cup U)
      /\ gaps' = gaps \cup U
      /\ UNCHANGED stored
  BY DEF Capture, Arm, PushAudio, Produce, RingInsert, sinkVars, storeVars
<1> HIDE DEF A, U
<1>3. A \subseteq Archive!Archived
  BY <1>1 DEF Inv, AckedDurable, Accounted, Stored, Archive!Archived
<1>4. A \in SUBSET chunks /\ U \in SUBSET chunks
  BY <1>1
<1> QED
  BY <1>2, <1>3, <1>4 DEF Archive!Make

\* Persisting is a step of the abstract archive: it stores one chunk, or nothing.
LEMMA PersistStores ==
  ASSUME Inv, NEW k \in Sink, Persist(k)
  PROVE  Archive!Store \/ UNCHANGED Archive!archiveVars
<1>1. UNCHANGED <<state, nextSeq, chunks, gaps>>
  BY DEF Persist, senderVars, takeVars, ringVars
<1>2. CASE UNCHANGED stored
  BY <1>1, <1>2 DEF Archive!archiveVars
<1>3. CASE busy[k].type = "chunk"
  <2>1. busy[k] \in GoodFrames
    BY QuietFacts DEF Persist
  <2>2. PICK s \in Produced : busy[k] = Chunk(s)
    BY <1>3, <2>1 DEF GoodFrames, GapReport
  <2>3. busy[k].seqs = {s}
    BY <2>2 DEF Chunk
  <2>4. stored' = [stored EXCEPT ![k] = @ \cup {s}]
    BY <1>3, <2>3 DEF Persist
  <2> QED
    BY <1>1, <2>2, <2>4 DEF Archive!Store, Archive!Made, Produced
<1> QED
  BY <1>2, <1>3 DEF Persist

\* Steps that change nothing the archive can see.
LEMMA OtherStepsStutter ==
  ASSUME NEW k \in Sink,
         \/ Attach(k) \/ Connect(k) \/ Disconnect(k)
         \/ SendReport(k) \/ SendChunk(k) \/ SendNothing(k) \/ SendAck(k)
         \/ ProcessFrame(k) \/ PersistFails(k) \/ Restart(k) \/ NoteFinal(k)
         \/ \E j \in Sink : SyncChunk(j, k)
  PROVE  UNCHANGED <<state, nextSeq, chunks, gaps, stored>>
<1> USE DEF senderVars, takeVars, ringVars, sinkVars, storeVars
<1>1. CASE Attach(k) \/ Connect(k) \/ Disconnect(k)
  BY <1>1 DEF Attach, AddSink, Connect, SetConnected, Disconnect, CutChannel, SetDisconnected
<1>2. CASE SendReport(k) \/ SendChunk(k) \/ SendNothing(k) \/ SendAck(k)
  BY <1>2 DEF SendReport, PopReport, SendChunk, PopChunk, SendNothing, PopNothing, SendAck
<1>3. CASE ProcessFrame(k) \/ NoteFinal(k) \/ \E j \in Sink : SyncChunk(j, k)
  BY <1>3 DEF ProcessFrame, IngestChunk, IngestGaps, NoteFinal, SyncChunk
<1>4. CASE PersistFails(k) \/ Restart(k)
  BY <1>4 DEF PersistFails, Restart, Rebuild, CutChannel, SetDisconnected
<1> QED
  BY <1>1, <1>2, <1>3, <1>4

\* Every step of the protocol is a step of the archive, or none of its business.
LEMMA StepRefines ==
  ASSUME Inv, [Next]_vars
  PROVE  [Archive!ArchiveNext]_(Archive!archiveVars)
<1>1. CASE UNCHANGED vars
  BY <1>1 DEF vars, senderVars, takeVars, ringVars, sinkVars, storeVars, Archive!archiveVars
<1>2. CASE Capture
  BY <1>2, CaptureMakes DEF Archive!ArchiveNext
<1>3. CASE Next /\ state # "Closed" /\ state' = "Closed"
  <2>1. PICK k \in Sink : 0 .. nextSeq - 1 \subseteq stored[k] \cup gaps
    BY <1>3, ClosingStep
  <2> QED
    BY <1>3, <2>1, ClosingStep DEF Archive!Close, Archive!Made, Archive!ArchiveNext
<1>4. CASE Stop /\ ~ (state # "Closed" /\ state' = "Closed")
  BY <1>4 DEF Stop, Finish, TryClose, ringVars, sinkVars, storeVars, Archive!archiveVars
<1>5. ASSUME NEW k \in Sink, ReceiveAck(k), ~ (state # "Closed" /\ state' = "Closed")
      PROVE  UNCHANGED Archive!archiveVars
  BY <1>5 DEF ReceiveAck, HandleAck, TryClose, sinkVars, storeVars, Archive!archiveVars
<1>6. ASSUME NEW k \in Sink, Persist(k)
      PROVE  [Archive!ArchiveNext]_(Archive!archiveVars)
  BY <1>6, PersistStores DEF Archive!ArchiveNext
<1>7. ASSUME NEW k \in Sink,
             \/ Attach(k) \/ Connect(k) \/ Disconnect(k)
             \/ SendReport(k) \/ SendChunk(k) \/ SendNothing(k) \/ SendAck(k)
             \/ ProcessFrame(k) \/ PersistFails(k) \/ Restart(k) \/ NoteFinal(k)
             \/ \E j \in Sink : SyncChunk(j, k)
      PROVE  UNCHANGED Archive!archiveVars
  BY <1>7, OtherStepsStutter DEF Archive!archiveVars
<1> QED
  BY <1>1, <1>2, <1>3, <1>4, <1>5, <1>6, <1>7 DEF Next

\* The recorder, the channels and the sinks together implement TakeArchive.
THEOREM ImplementsTakeArchive ==
  ASSUME Failing \subseteq FailStop PROVE Spec => ImplementsArchive
<1>1. Init => Archive!ArchiveInit
  BY DEF Init, SenderInit, Archive!ArchiveInit
<1>2. Inv /\ [Next]_vars => [Archive!ArchiveNext]_(Archive!archiveVars)
  BY StepRefines
<1> QED
  BY <1>1, <1>2, Invariance, PTL DEF Spec, ImplementsArchive, Archive!ArchiveSpec
-----------------------------------------------------------------------------
(***************************************************************************)
(* What a sink remembers of the gaps, and what closing a take tells.       *)
(***************************************************************************)
\* A gap row is of a gap the engine was told of.
RowsDeclared ==
  \A k \in Sink :
    /\ Covered(gapRows[k]) \subseteq declaredGaps[k]
    /\ busy[k].type = "gaps" => busy[k].seqs \subseteq declaredGaps[k]

\* The engine was told of nothing that is not in a row, but for the report in busy.
GapsRowed ==
  \A k \in Sink :
    declaredGaps[k] \subseteq
      Covered(gapRows[k]) \cup (IF busy[k].type = "gaps" THEN busy[k].seqs ELSE {})

\* The gaps a sink does not forget: those in its rows, or, where nothing ever
\* fails, all it was told of.
Kept(k) == IF MaxFaults = 0 THEN declaredGaps[k] ELSE Covered(gapRows[k])

\* An ACK in flight proves what its sink keeps, and looks no further than the take.
SureAcks(k) ==
  {a \in Ack : a.holes \subseteq Produced /\ ProvenHeld(a) \subseteq stored[k] \cup Kept(k)}

\* No final number is beyond the take, and the newest chunk is resident.
FinalsInTake ==
  /\ finalSeq <= nextSeq - 1
  /\ \A k \in Sink : recvFinal[k] <= nextSeq - 1
  /\ nextSeq > 0 => nextSeq - 1 \in chunks

AcksSure == \A k \in Sink : toRecorder[k] \in Seq(SureAcks(k))

\* What the latest snapshot proves the sink keeps; a snapshot that proves the newest
\* chunk of the take proves all of them, as nothing is proven above a hole.
SnapshotsSure ==
  \A k \in Sink :
    /\ proven[k] \subseteq stored[k] \cup Kept(k)
    /\ nextSeq - 1 \in proven[k] => Produced \subseteq proven[k]

ToldInv ==
  /\ faults \in Nat
  /\ RowsDeclared
  /\ KeyedByStart = {} => GapsRowed
  /\ FinalsInTake /\ AcksSure /\ SnapshotsSure
-----------------------------------------------------------------------------
\* A set of naturals has a least element.
LEMMA LeastElement ==
  ASSUME NEW T \in SUBSET Nat, T # {}
  PROVE  \E m \in T : \A n \in T : m <= n
<1>1. PICK m \in T : \A n \in T : ~ (<<n, m>> \in OpToRel(<, Nat))
  BY NatLessThanWellFounded, WFMin
<1>2. \A n \in T : ~ (n < m)
  BY <1>1 DEF OpToRel
<1> QED
  BY <1>2

\* The maximal ranges of a set cover it: a report is wholly in the rows it makes.
LEMMA RangesCover ==
  ASSUME NEW N \in Nat, NEW G \in SUBSET (0 .. N)
  PROVE  G \subseteq Covered(RangesOf(G))
<1> SUFFICES ASSUME NEW s \in G PROVE s \in Covered(RangesOf(G))
  OBVIOUS
<1> DEFINE Low == {n \in Nat : n <= s /\ n .. s \subseteq G}
           High == {n \in Nat : n > s /\ n \notin G}
<1>1. s \in Nat /\ s \in Low /\ N + 1 \in High
  OBVIOUS
<1>2. PICK a \in Low : \A n \in Low : a <= n
  BY <1>1, LeastElement, Low \in SUBSET Nat
<1>3. PICK m \in High : \A n \in High : m <= n
  BY <1>1, LeastElement, High \in SUBSET Nat
<1>4. a \in Nat /\ a <= s /\ a .. s \subseteq G /\ a - 1 \notin G
  <2>1. a \in Nat /\ a <= s /\ a .. s \subseteq G
    BY <1>2
  <2>2. ASSUME a - 1 \in G PROVE FALSE
    <3>1. a - 1 \in Nat /\ a - 1 <= s
      BY <2>1, <2>2
    <3>2. (a - 1) .. s \subseteq G
      BY <1>1, <2>1, <2>2, <3>1
    <3>3. a - 1 \in Low
      BY <3>1, <3>2
    <3> QED
      BY <1>2, <2>1, <3>3
  <2> QED
    BY <2>1, <2>2
<1>5. m \in Nat /\ s <= m - 1 /\ s .. m - 1 \subseteq G /\ (m - 1) + 1 \notin G
  <2>1. m \in Nat /\ s < m /\ m \notin G
    BY <1>1, <1>3
  <2>2. \A n \in s .. m - 1 : n \in G
    <3> SUFFICES ASSUME NEW n \in s .. m - 1, n \notin G PROVE FALSE
      OBVIOUS
    <3>1. n \in Nat /\ n > s /\ n < m
      BY <1>1, <2>1
    <3>2. n \in High
      BY <3>1
    <3> QED
      BY <1>3, <3>1, <3>2, <2>1
  <2> QED
    BY <1>1, <2>1, <2>2
<1> HIDE DEF Low, High
<1> DEFINE r == <<a, m - 1>>
<1>6. a .. m - 1 \subseteq G /\ a \in G /\ m - 1 \in G
  <2>1. \A n \in a .. m - 1 : n \in a .. s \/ n \in s .. m - 1
    BY <1>1, <1>4, <1>5
  <2>2. a \in a .. s /\ m - 1 \in s .. m - 1
    BY <1>1, <1>4, <1>5
  <2> QED
    BY <1>4, <1>5, <2>1, <2>2
<1>7. r \in RangesOf(G)
  <2>1. r \in G \X G /\ r[1] = a /\ r[2] = m - 1
    BY <1>6
  <2>2. r[1] <= r[2]
    BY <1>1, <1>4, <1>5, <2>1
  <2> QED
    BY <1>4, <1>5, <1>6, <2>1, <2>2 DEF RangesOf
<1>8. s \in r[1] .. r[2]
  BY <1>1, <1>4, <1>5
<1> QED
  BY <1>7, <1>8 DEF Covered

\* Inserting rows keeps those there are and covers no more than what is reported; a
\* store that keys a row by both ends inserts them all.
LEMMA InsertedRows ==
  ASSUME NEW k \in Sink, NEW rows \in SUBSET (Seqs \X Seqs), NEW G \in SUBSET Seqs
  PROVE  LET new == InsertGapRows(k, rows, RangesOf(G))
         IN /\ Covered(rows) \subseteq Covered(new)
            /\ Covered(new) \subseteq Covered(rows) \cup G
            /\ k \notin KeyedByStart => G \subseteq Covered(new)
<1> DEFINE new == InsertGapRows(k, rows, RangesOf(G))
<1>1. rows \subseteq new
  BY DEF InsertGapRows
<1>2. Covered(rows) \subseteq Covered(new)
  BY <1>1 DEF Covered
<1>3. Covered(new) \subseteq Covered(rows) \cup G
  BY GapRowsFacts
<1>4. ASSUME k \notin KeyedByStart PROVE G \subseteq Covered(new)
  <2>1. RangesOf(G) \subseteq new
    BY <1>4 DEF InsertGapRows
  <2>2. Covered(RangesOf(G)) \subseteq Covered(new)
    BY <2>1 DEF Covered
  <2> QED
    BY <2>2, RangesCover, SenderConstants DEF Seqs
<1> QED
  BY <1>2, <1>3, <1>4
-----------------------------------------------------------------------------
\* Nobody has been told of anything yet.
LEMMA ToldStarts == ASSUME Init PROVE ToldInv
<1> USE DEF Init, SenderInit, NoSeq
<1>1. RowsDeclared /\ GapsRowed
  BY DEF RowsDeclared, GapsRowed, Covered, NoFrame
<1>2. FinalsInTake /\ AcksSure
  BY DEF FinalsInTake, AcksSure
<1>3. SnapshotsSure
  BY DEF SnapshotsSure
<1> QED
  BY <1>1, <1>2, <1>3 DEF ToldInv

\* Steps that make no chunk and read no ACK keep the invariant as long as nothing that
\* is kept is forgotten.
LEMMA ToldKeeps ==
  ASSUME ToldInv, UNCHANGED <<nextSeq, chunks, proven>>,
         faults' \in Nat, RowsDeclared', KeyedByStart = {} => GapsRowed',
         finalSeq' <= nextSeq - 1, \A k \in Sink : recvFinal'[k] <= nextSeq - 1,
         \A k \in Sink : stored[k] \subseteq stored'[k],
         \A k \in Sink : Kept(k) \subseteq Kept(k)',
         \A k \in Sink : toRecorder'[k] \in Seq(SureAcks(k))
  PROVE  ToldInv'
<1>1. Produced' = Produced
  BY DEF Produced
<1>2. FinalsInTake'
  BY DEF ToldInv, FinalsInTake
<1>3. ASSUME NEW k \in Sink PROVE SureAcks(k) \subseteq SureAcks(k)'
  <2>1. stored[k] \cup Kept(k) \subseteq stored'[k] \cup Kept(k)'
    OBVIOUS
  <2> QED
    BY <1>1, <2>1 DEF SureAcks
<1>4. AcksSure'
  <2>1. \A k \in Sink : toRecorder'[k] \in Seq(SureAcks(k)')
    BY <1>3, SeqMonotone
  <2> QED
    BY <2>1 DEF AcksSure
<1>5. SnapshotsSure'
  BY <1>1 DEF ToldInv, SnapshotsSure
<1> QED
  BY <1>2, <1>4, <1>5 DEF ToldInv
\* Steps at the recorder's side that leave sinks, take and ring alone.
LEMMA ToldRecorderSide ==
  ASSUME Inv, ToldInv, NEW k \in Sink,
         Attach(k) \/ Connect(k) \/ SendReport(k) \/ SendChunk(k) \/ SendNothing(k)
  PROVE  ToldInv'
<1>1. UNCHANGED <<nextSeq, finalSeq, chunks, proven, toRecorder, sinkVars, faults>>
  <2>1. CASE Attach(k) \/ Connect(k)
    BY <2>1 DEF Attach, AddSink, Connect, SetConnected, takeVars, ringVars, wireVars
  <2>2. CASE SendReport(k) \/ SendChunk(k) \/ SendNothing(k)
    BY <2>2 DEF SendReport, PopReport, SendChunk, PopChunk, SendNothing, PopNothing, takeVars,
                ringVars, wireVars
  <2> QED
    BY <2>1, <2>2
<1>2. UNCHANGED <<declaredGaps, recvFinal, busy, stored, gapRows>>
  BY <1>1 DEF sinkVars, engineVars, storeVars
<1>3. RowsDeclared' /\ (KeyedByStart = {} => GapsRowed') /\ \A j \in Sink : Kept(j)' = Kept(j)
  BY <1>2 DEF ToldInv, RowsDeclared, GapsRowed, Kept, Covered
<1> QED
  BY <1>1, <1>2, <1>3, ToldKeeps DEF ToldInv, FinalsInTake, AcksSure

\* A chunk that is captured is newer than all that any ACK or snapshot speaks of.
LEMMA ToldCapture == ASSUME Inv, ToldInv, Capture PROVE ToldInv'
<1> USE SenderConstants
<1>1. /\ nextSeq' = nextSeq + 1
      /\ chunks' = (chunks \cup {nextSeq}) \ (AckedVictims(nextSeq) \cup UnackedVictims(nextSeq))
      /\ UNCHANGED <<finalSeq, proven, toRecorder, declaredGaps, recvFinal, busy, stored,
                     gapRows, faults>>
  BY DEF Capture, Arm, PushAudio, Produce, RingInsert, wireVars, sinkVars, engineVars, storeVars
<1>2. nextSeq \in Nat /\ finalSeq \in Int
  BY DEF Inv, SenderTyped
<1>3. Produced \subseteq Produced' /\ nextSeq \notin Produced
  BY <1>1, <1>2 DEF Produced
<1>4. nextSeq \in chunks'
  BY <1>1, VictimsAreResident
<1>5. FinalsInTake'
  <2>1. \A k \in Sink : recvFinal[k] \in Int
    BY QuietFacts
  <2> QED
    BY <1>1, <1>2, <1>4, <2>1 DEF ToldInv, FinalsInTake
<1>6. RowsDeclared' /\ (KeyedByStart = {} => GapsRowed') /\ \A k \in Sink : Kept(k)' = Kept(k)
  BY <1>1 DEF ToldInv, RowsDeclared, GapsRowed, Kept, Covered
<1>7. AcksSure'
  <2>1. ASSUME NEW k \in Sink PROVE SureAcks(k) \subseteq SureAcks(k)'
    BY <1>1, <1>3, <1>6 DEF SureAcks
  <2>2. \A k \in Sink : toRecorder'[k] \in Seq(SureAcks(k)')
    BY <1>1, <2>1, SeqMonotone DEF ToldInv, AcksSure
  <2> QED
    BY <2>2 DEF AcksSure
<1>8. SnapshotsSure'
  <2>1. \A k \in Sink : stored[k] \subseteq Produced /\ Covered(gapRows[k]) \subseteq Produced
                        /\ declaredGaps[k] \subseteq Produced
    BY QuietFacts DEF Inv, Accounted
  <2>2. \A k \in Sink : nextSeq \notin proven[k]
    BY <1>3, <2>1 DEF ToldInv, SnapshotsSure, Kept
  <2>3. nextSeq' - 1 = nextSeq
    BY <1>1, <1>2
  <2> QED
    BY <1>1, <1>6, <2>2, <2>3 DEF ToldInv, SnapshotsSure
<1> QED
  BY <1>1, <1>5, <1>6, <1>7, <1>8 DEF ToldInv

\* The stop makes the newest chunk the last.
LEMMA ToldStop == ASSUME Inv, ToldInv, Stop PROVE ToldInv'
<1>1. /\ finalSeq' = nextSeq - 1
      /\ UNCHANGED <<nextSeq, chunks, proven, toRecorder, declaredGaps, recvFinal, busy, stored,
                     gapRows, faults>>
  BY DEF Stop, Finish, ringVars, wireVars, sinkVars, engineVars, storeVars
<1>2. RowsDeclared' /\ (KeyedByStart = {} => GapsRowed') /\ \A k \in Sink : Kept(k)' = Kept(k)
  BY <1>1 DEF ToldInv, RowsDeclared, GapsRowed, Kept, Covered
<1>3. nextSeq - 1 <= nextSeq - 1
  BY SenderConstants DEF Inv, SenderTyped
<1> QED
  BY <1>1, <1>2, <1>3, ToldKeeps DEF ToldInv, FinalsInTake, AcksSure

\* A snapshot of a sink that proves the newest chunk proves every chunk: no hole of it
\* is beyond the take, and between holes nothing is newer than the last hole.
LEMMA ToldReceiveAck == ASSUME Inv, ToldInv, NEW k \in Sink, ReceiveAck(k) PROVE ToldInv'
<1> DEFINE ack == Head(toRecorder[k])
           P == ProvenHeld(ack)
<1> USE SenderConstants
<1>1. /\ toRecorder[k] # <<>>
      /\ toRecorder' = [toRecorder EXCEPT ![k] = Tail(@)]
      /\ proven' = [proven EXCEPT ![k] = P]
      /\ UNCHANGED <<nextSeq, finalSeq, chunks, declaredGaps, recvFinal, busy, stored, gapRows,
                     faults>>
  BY DEF ReceiveAck, HandleAck, sinkVars, engineVars, storeVars
<1>2. /\ ack \in SureAcks(k) /\ Tail(toRecorder[k]) \in Seq(SureAcks(k))
  BY <1>1 DEF ToldInv, AcksSure
<1>3. ack \in Ack /\ ack.holes \subseteq Produced /\ P \subseteq stored[k] \cup Kept(k)
  BY <1>2 DEF SureAcks
<1>4. nextSeq - 1 \in P => Produced \subseteq P
  <2> SUFFICES ASSUME nextSeq - 1 \in P, NEW s \in Produced PROVE s \in P
    OBVIOUS
  <2>1. nextSeq \in Nat /\ ack.chwm \in Int /\ s \in Int /\ 0 <= s /\ s <= nextSeq - 1
    BY <1>3 DEF Ack, Inv, SenderTyped, Produced
  <2>2. ASSUME NEW h \in ack.holes PROVE h \in Int /\ h <= nextSeq - 1
    BY <1>3, <2>1 DEF Produced
  <2>3. nextSeq - 1 \in 0 .. ack.chwm
    <3> SUFFICES ASSUME NEW h \in ack.holes, nextSeq - 1 \in 0 .. h, nextSeq - 1 \notin ack.holes
                 PROVE  FALSE
      BY DEF ProvenHeld
    <3>1. h = nextSeq - 1
      BY <2>1, <2>2
    <3> QED
      BY <3>1
  <2>4. s \in 0 .. ack.chwm
    BY <2>1, <2>3
  <2> QED
    BY <2>4 DEF ProvenHeld
<1> HIDE DEF ack, P
<1>5. RowsDeclared' /\ (KeyedByStart = {} => GapsRowed') /\ \A j \in Sink : Kept(j)' = Kept(j)
  BY <1>1 DEF ToldInv, RowsDeclared, GapsRowed, Kept, Covered
<1>6. Produced' = Produced /\ \A j \in Sink : SureAcks(j)' = SureAcks(j)
  BY <1>1, <1>5 DEF SureAcks, Produced
<1>7. FinalsInTake'
  BY <1>1 DEF ToldInv, FinalsInTake
<1>8. AcksSure'
  <2>1. \A j \in Sink : toRecorder'[j] \in Seq(SureAcks(j))
    BY <1>1, <1>2, QuietFacts DEF ToldInv, AcksSure
  <2> QED
    BY <1>6, <2>1 DEF AcksSure
<1>9. SnapshotsSure'
  <2>1. proven'[k] = P /\ \A j \in Sink : j # k => proven'[j] = proven[j]
    BY <1>1 DEF Inv, SenderTyped
  <2> QED
    BY <1>1, <1>3, <1>4, <1>5, <1>6, <2>1 DEF ToldInv, SnapshotsSure
<1> QED
  BY <1>1, <1>5, <1>7, <1>8, <1>9 DEF ToldInv

\* An ACK is made from what is stored and, as no report is being persisted, from what
\* the sink keeps of the gaps.
LEMMA ToldSendAck ==
  ASSUME KeyedByStart = {} \/ MaxFaults = 0, Inv, ToldInv, NEW k \in Sink, SendAck(k)
  PROVE  ToldInv'
<1> DEFINE ack == AckStatus(held[k], declaredGaps[k], recvFinal[k])
<1> USE SenderConstants
<1>1. /\ busy[k] = NoFrame
      /\ toRecorder' = [toRecorder EXCEPT ![k] = Append(@, ack)]
      /\ UNCHANGED <<nextSeq, finalSeq, chunks, proven, declaredGaps, recvFinal, busy, stored,
                     gapRows, faults>>
  BY DEF SendAck, senderVars, takeVars, ringVars, sinkVars, engineVars, storeVars
<1>2. held[k] \subseteq stored[k]
  BY <1>1 DEF Inv, HeldIsStored, NoFrame
<1>3. declaredGaps[k] \subseteq Kept(k)
  BY <1>1 DEF ToldInv, GapsRowed, Kept, NoFrame
<1>4. /\ nextSeq \in Nat
      /\ held[k] \subseteq Produced /\ declaredGaps[k] \subseteq Produced
      /\ recvFinal[k] \in -1 .. nextSeq - 1
      /\ Produced \subseteq 0 .. MaxSeq
  BY QuietFacts DEF Inv, Accounted, SenderTyped, Produced, ToldInv, FinalsInTake
<1>5. /\ ack.chwm \in -1 .. MaxSeq /\ ack.holes \in SUBSET (0 .. MaxSeq)
      /\ ProvenHeld(ack) \subseteq held[k] \cup declaredGaps[k]
  <2>1. held[k] \in SUBSET (0 .. MaxSeq) /\ declaredGaps[k] \in SUBSET (0 .. MaxSeq)
        /\ recvFinal[k] \in -1 .. MaxSeq
    BY <1>4, QuietFacts
  <2> QED
    BY <2>1, SnapshotIsHonest
<1>6. ack.holes \subseteq Produced
  <2>1. ack.holes = Holes(held[k], declaredGaps[k], recvFinal[k])
    BY DEF AckStatus
  <2>2. \A t \in held[k] \cup {recvFinal[k]} : 0 .. t \subseteq Produced
    BY <1>4 DEF Produced
  <2> QED
    BY <2>1, <2>2 DEF Holes
<1>7. ack \in Ack
  BY <1>5 DEF Ack, AckStatus
<1> HIDE DEF ack
<1>8. ack \in SureAcks(k)
  BY <1>2, <1>3, <1>5, <1>6, <1>7 DEF SureAcks
<1>9. \A j \in Sink : toRecorder'[j] \in Seq(SureAcks(j))
  <2>1. Append(toRecorder[k], ack) \in Seq(SureAcks(k))
    BY <1>8 DEF ToldInv, AcksSure
  <2> QED
    BY <1>1, <2>1, QuietFacts DEF ToldInv, AcksSure
<1>10. RowsDeclared' /\ (KeyedByStart = {} => GapsRowed') /\ \A j \in Sink : Kept(j)' = Kept(j)
  BY <1>1 DEF ToldInv, RowsDeclared, GapsRowed, Kept, Covered
<1> QED
  BY <1>1, <1>9, <1>10, ToldKeeps DEF ToldInv, FinalsInTake
\* A sink that takes in a chunk is told nothing.
LEMMA ToldIngestChunk ==
  ASSUME Inv, ToldInv, NEW k \in Sink, NEW s, busy[k] = NoFrame, IngestChunk(k, s),
         UNCHANGED <<senderVars, toRecorder, faults>>
  PROVE  ToldInv'
<1>1. /\ busy' = [busy EXCEPT ![k] = IF s \in held[k] THEN NoFrame ELSE Chunk(s)]
      /\ UNCHANGED <<nextSeq, finalSeq, chunks, proven, toRecorder, declaredGaps, recvFinal,
                     stored, gapRows, faults>>
  BY DEF IngestChunk, senderVars, takeVars, ringVars, storeVars
<1>2. /\ busy[k].type # "gaps" /\ busy'[k].type # "gaps"
      /\ \A j \in Sink : j # k => busy'[j] = busy[j]
  BY <1>1, QuietFacts DEF NoFrame, Chunk
<1>3. RowsDeclared'
  BY <1>1, <1>2 DEF ToldInv, RowsDeclared, Covered
<1>4. KeyedByStart = {} => GapsRowed'
  BY <1>1, <1>2 DEF ToldInv, GapsRowed, Covered
<1>5. \A j \in Sink : Kept(j)' = Kept(j)
  BY <1>1 DEF Kept, Covered
<1> QED
  BY <1>1, <1>3, <1>4, <1>5, ToldKeeps DEF ToldInv, FinalsInTake, AcksSure

\* A report is in the engine and in busy before it is in a row.
LEMMA ToldProcessFrame == ASSUME Inv, ToldInv, NEW k \in Sink, ProcessFrame(k) PROVE ToldInv'
<1> DEFINE f == Head(toSink[k])
<1>1. busy[k] = NoFrame /\ UNCHANGED <<senderVars, toRecorder, faults>>
  BY DEF ProcessFrame
<1>2. CASE f.type = "chunk"
  <2>1. PICK s \in f.seqs : IngestChunk(k, s)
    BY <1>2 DEF ProcessFrame
  <2> QED
    BY <1>1, <2>1, ToldIngestChunk
<1>3. CASE f.type # "chunk"
  <2>1. IngestGaps(k, f)
    BY <1>3 DEF ProcessFrame
  <2> HIDE DEF f
  <2>2. /\ declaredGaps' = [declaredGaps EXCEPT ![k] = @ \cup f.seqs]
        /\ busy' = [busy EXCEPT ![k] = f]
        /\ UNCHANGED <<nextSeq, finalSeq, chunks, proven, toRecorder, recvFinal, stored, gapRows,
                       faults>>
    BY <1>1, <2>1 DEF IngestGaps, senderVars, takeVars, ringVars, storeVars
  <2>3. /\ declaredGaps'[k] = declaredGaps[k] \cup f.seqs /\ busy'[k] = f
        /\ \A j \in Sink : j # k => declaredGaps'[j] = declaredGaps[j] /\ busy'[j] = busy[j]
    BY <2>2, QuietFacts
  <2>4. f.type = "gaps"
    <3>1. toSink[k] # <<>> /\ toSink[k] \in Seq(GoodFrames)
      BY QuietFacts DEF ProcessFrame
    <3>2. f \in GoodFrames
      BY <3>1 DEF f
    <3> QED
      BY <1>3, <3>2 DEF GoodFrames, Chunk, GapReport
  <2>5. RowsDeclared'
    BY <2>2, <2>3 DEF ToldInv, RowsDeclared, Covered
  <2>6. KeyedByStart = {} => GapsRowed'
    <3> SUFFICES ASSUME KeyedByStart = {}, NEW j \in Sink
                 PROVE  declaredGaps'[j] \subseteq
                          Covered(gapRows[j]) \cup (IF busy'[j].type = "gaps" THEN busy'[j].seqs ELSE {})
      BY <2>2 DEF GapsRowed, Covered
    <3>1. declaredGaps[k] \subseteq Covered(gapRows[k])
      BY <1>1 DEF ToldInv, GapsRowed, NoFrame
    <3>2. CASE j = k
      BY <2>3, <2>4, <3>1, <3>2
    <3>3. CASE j # k
      BY <2>3, <3>3 DEF ToldInv, GapsRowed
    <3> QED
      BY <3>2, <3>3
  <2>7. \A j \in Sink : Kept(j) \subseteq Kept(j)'
    BY <2>2, <2>3 DEF Kept, Covered
  <2> QED
    BY <2>2, <2>5, <2>6, <2>7, ToldKeeps DEF ToldInv, FinalsInTake, AcksSure
<1> QED
  BY <1>2, <1>3

\* What is persisted: a chunk adds to the store, a report to the rows.
LEMMA ToldPersist == ASSUME Inv, ToldInv, NEW k \in Sink, Persist(k) PROVE ToldInv'
<1>1. /\ busy[k] # NoFrame /\ busy[k] \in GoodFrames
      /\ busy' = [busy EXCEPT ![k] = NoFrame]
      /\ UNCHANGED <<nextSeq, finalSeq, chunks, proven, toRecorder, declaredGaps, recvFinal, faults>>
  BY QuietFacts DEF Persist, senderVars, takeVars, ringVars, wireVars
<1>2. busy'[k].type # "gaps" /\ \A j \in Sink : j # k => busy'[j] = busy[j]
  BY <1>1, QuietFacts DEF NoFrame
<1>3. CASE busy[k].type = "chunk"
  <2>1. stored' = [stored EXCEPT ![k] = @ \cup busy[k].seqs] /\ UNCHANGED gapRows
    BY <1>3 DEF Persist
  <2>2. \A j \in Sink : stored[j] \subseteq stored'[j] /\ Kept(j)' = Kept(j)
    BY <1>1, <2>1, QuietFacts DEF Kept, Covered
  <2>3. RowsDeclared'
    BY <1>1, <1>2, <2>1 DEF ToldInv, RowsDeclared, Covered
  <2>4. KeyedByStart = {} => GapsRowed'
    BY <1>1, <1>2, <1>3, <2>1 DEF ToldInv, GapsRowed, Covered
  <2> QED
    BY <1>1, <2>2, <2>3, <2>4, ToldKeeps DEF ToldInv, FinalsInTake, AcksSure
<1>4. CASE busy[k].type # "chunk"
  <2> DEFINE G == busy[k].seqs
             new == InsertGapRows(k, gapRows[k], RangesOf(G))
  <2>1. gapRows' = [gapRows EXCEPT ![k] = new] /\ UNCHANGED stored
    BY <1>4 DEF Persist
  <2>2. busy[k].type = "gaps" /\ G \subseteq gaps
    BY <1>1, <1>4 DEF GoodFrames, Chunk, GapReport
  <2>3. G \in SUBSET Seqs /\ gapRows[k] \in SUBSET (Seqs \X Seqs)
    BY <2>2, QuietFacts, SenderConstants DEF Inv, Accounted, SenderTyped, Produced, Seqs
  <2>4. /\ Covered(gapRows[k]) \subseteq Covered(new)
        /\ Covered(new) \subseteq Covered(gapRows[k]) \cup G
        /\ k \notin KeyedByStart => G \subseteq Covered(new)
    BY <2>3, InsertedRows
  <2> HIDE DEF new, G
  <2>5. gapRows'[k] = new /\ \A j \in Sink : j # k => gapRows'[j] = gapRows[j]
    BY <2>1, QuietFacts
  <2>6. /\ Covered(gapRows[k]) \subseteq declaredGaps[k] /\ G \subseteq declaredGaps[k]
        /\ KeyedByStart = {} => declaredGaps[k] \subseteq Covered(gapRows[k]) \cup G
    BY <2>2 DEF ToldInv, RowsDeclared, GapsRowed, G
  <2>7. /\ Covered(gapRows'[k]) \subseteq declaredGaps'[k]
        /\ KeyedByStart = {} => declaredGaps'[k] \subseteq Covered(gapRows'[k])
    BY <1>1, <2>4, <2>5, <2>6
  <2>8. RowsDeclared'
    BY <1>1, <1>2, <2>5, <2>7 DEF ToldInv, RowsDeclared, Covered
  <2>9. KeyedByStart = {} => GapsRowed'
    BY <1>1, <1>2, <2>5, <2>7 DEF ToldInv, GapsRowed, Covered
  <2>10. \A j \in Sink : Kept(j) \subseteq Kept(j)'
    BY <1>1, <2>4, <2>5 DEF Kept, Covered
  <2> QED
    BY <1>1, <2>1, <2>8, <2>9, <2>10, ToldKeeps DEF ToldInv, FinalsInTake, AcksSure
<1> QED
  BY <1>3, <1>4

\* A fault costs a sink what is in no row, and the recorder the ACKs in flight.
LEMMA ToldFaults ==
  ASSUME Failing \subseteq FailStop, Inv, ToldInv, NEW k \in Sink,
         Disconnect(k) \/ PersistFails(k) \/ Restart(k)
  PROVE  ToldInv'
<1>1. /\ MaxFaults # 0 /\ faults' \in Nat
      /\ UNCHANGED <<nextSeq, finalSeq, chunks, proven, recvFinal, stored, gapRows>>
      /\ toRecorder' = toRecorder \/ toRecorder' = [toRecorder EXCEPT ![k] = <<>>]
      /\ UNCHANGED <<declaredGaps, busy>> \/ Rebuild(k)
  <2>1. faults < MaxFaults /\ faults' = faults + 1 /\ faults \in Nat /\ MaxFaults \in Nat
    BY ProtocolConstants DEF Disconnect, PersistFails, Restart, ToldInv
  <2>2. CutChannel(k) => /\ UNCHANGED <<nextSeq, finalSeq, chunks, proven>>
                         /\ toRecorder' = [toRecorder EXCEPT ![k] = <<>>]
    BY DEF CutChannel, SetDisconnected, takeVars, ringVars
  <2>3. Rebuild(k) => UNCHANGED <<recvFinal, stored, gapRows>>
    BY DEF Rebuild, storeVars
  <2>4. UNCHANGED senderVars => UNCHANGED <<nextSeq, finalSeq, chunks, proven>>
    BY DEF senderVars, takeVars, ringVars
  <2>5. CASE Disconnect(k)
    BY <2>1, <2>2, <2>5 DEF Disconnect, sinkVars, engineVars, storeVars
  <2>6. CASE PersistFails(k)
    BY <2>1, <2>2, <2>3, <2>4, <2>6 DEF PersistFails, wireVars
  <2>7. CASE Restart(k)
    <3>1. SetDisconnected(k) => UNCHANGED <<nextSeq, finalSeq, chunks, proven>>
      BY DEF SetDisconnected, takeVars, ringVars
    <3> QED
      BY <2>1, <2>3, <2>4, <2>7, <3>1 DEF Restart
  <2> QED
    BY <2>5, <2>6, <2>7
<1>2. \A j \in Sink : Kept(j)' = Kept(j)
  BY <1>1 DEF Kept, Covered
<1>3. \A j \in Sink : toRecorder'[j] \in Seq(SureAcks(j))
  <2>1. \A j \in Sink : toRecorder'[j] = toRecorder[j] \/ toRecorder'[j] = <<>>
    BY <1>1, QuietFacts
  <2>2. \A j \in Sink : toRecorder[j] \in Seq(SureAcks(j))
    BY DEF ToldInv, AcksSure
  <2>3. \A j \in Sink : <<>> \in Seq(SureAcks(j))
    OBVIOUS
  <2> QED
    BY <2>1, <2>2, <2>3
<1>4. RowsDeclared' /\ (KeyedByStart = {} => GapsRowed')
  <2>1. CASE UNCHANGED <<declaredGaps, busy>>
    BY <1>1, <2>1 DEF ToldInv, RowsDeclared, GapsRowed, Covered
  <2>2. CASE Rebuild(k)
    <3>1. /\ declaredGaps'[k] = Covered(gapRows[k]) /\ busy'[k].type # "gaps"
          /\ \A j \in Sink : j # k => declaredGaps'[j] = declaredGaps[j] /\ busy'[j] = busy[j]
      BY <2>2, QuietFacts DEF Rebuild, NoFrame
    <3>2. RowsDeclared'
      BY <1>1, <3>1 DEF ToldInv, RowsDeclared, Covered
    <3>3. KeyedByStart = {} => GapsRowed'
      BY <1>1, <3>1 DEF ToldInv, GapsRowed, Covered
    <3> QED
      BY <3>2, <3>3
  <2> QED
    BY <1>1, <2>1, <2>2
<1> QED
  BY <1>1, <1>2, <1>3, <1>4, ToldKeeps DEF ToldInv, FinalsInTake

\* The final number a sink is told is that of the take.
LEMMA ToldNoteFinal == ASSUME Inv, ToldInv, NEW k \in Sink, NoteFinal(k) PROVE ToldInv'
<1>1. /\ recvFinal' = [recvFinal EXCEPT ![k] = finalSeq]
      /\ UNCHANGED <<nextSeq, finalSeq, chunks, proven, toRecorder, declaredGaps, busy, stored,
                     gapRows, faults>>
  BY DEF NoteFinal, senderVars, takeVars, ringVars, wireVars, storeVars
<1>2. \A j \in Sink : recvFinal'[j] <= nextSeq - 1
  BY <1>1, QuietFacts DEF ToldInv, FinalsInTake
<1>3. RowsDeclared' /\ (KeyedByStart = {} => GapsRowed') /\ \A j \in Sink : Kept(j)' = Kept(j)
  BY <1>1 DEF ToldInv, RowsDeclared, GapsRowed, Kept, Covered
<1> QED
  BY <1>1, <1>2, <1>3, ToldKeeps DEF ToldInv, FinalsInTake, AcksSure
\* Every step keeps it; making an ACK is where a store that keys a row by its start
\* alone would break it.
LEMMA ToldStep ==
  ASSUME Failing \subseteq FailStop, KeyedByStart = {} \/ MaxFaults = 0,
         Inv, ToldInv, [Next]_vars
  PROVE  ToldInv'
<1>1. CASE UNCHANGED vars
  <2>1. UNCHANGED <<nextSeq, finalSeq, chunks, proven, toRecorder, declaredGaps, recvFinal, busy,
                    stored, gapRows, faults>>
    BY <1>1 DEF vars, senderVars, takeVars, ringVars, wireVars, sinkVars, engineVars, storeVars
  <2>2. RowsDeclared' /\ (KeyedByStart = {} => GapsRowed') /\ \A j \in Sink : Kept(j)' = Kept(j)
    BY <2>1 DEF ToldInv, RowsDeclared, GapsRowed, Kept, Covered
  <2> QED
    BY <2>1, <2>2, ToldKeeps DEF ToldInv, FinalsInTake, AcksSure
<1>2. CASE Capture \/ Stop
  BY <1>2, ToldCapture, ToldStop
<1>3. ASSUME NEW k \in Sink,
             \/ Attach(k) \/ Connect(k) \/ SendReport(k) \/ SendChunk(k) \/ SendNothing(k)
             \/ ReceiveAck(k) \/ SendAck(k)
      PROVE  ToldInv'
  BY <1>3, ToldRecorderSide, ToldReceiveAck, ToldSendAck
<1>4. ASSUME NEW k \in Sink,
             \/ ProcessFrame(k) \/ Persist(k) \/ NoteFinal(k)
             \/ Disconnect(k) \/ PersistFails(k) \/ Restart(k)
      PROVE  ToldInv'
  BY <1>4, ToldProcessFrame, ToldPersist, ToldNoteFinal, ToldFaults
<1>5. ASSUME NEW k \in Sink, NEW j \in Sink, SyncChunk(j, k) PROVE ToldInv'
  <2>1. busy[k] = NoFrame /\ UNCHANGED <<senderVars, toRecorder, faults>>
    BY <1>5 DEF SyncChunk, wireVars
  <2>2. PICK s \in stored[j] \ held[k] : IngestChunk(k, s)
    BY <1>5 DEF SyncChunk
  <2> QED
    BY <2>1, <2>2, ToldIngestChunk
<1> QED
  BY <1>1, <1>2, <1>3, <1>4, <1>5 DEF Next

\* Every behaviour keeps both invariants.
LEMMA ToldInvariance ==
  ASSUME Failing \subseteq FailStop, KeyedByStart = {} \/ MaxFaults = 0
  PROVE  Spec => [](Inv /\ ToldInv)
<1>1. Init => Inv /\ ToldInv
  BY InitInv, ToldStarts
<1>2. Inv /\ ToldInv /\ [Next]_vars => Inv' /\ ToldInv'
  BY NextInv, ToldStep
<1> QED
  BY <1>1, <1>2, PTL DEF Spec

-----------------------------------------------------------------------------
(***************************************************************************)
(* What every sink remembers, however its store keys a row.                *)
(***************************************************************************)
\* A sink that was told of `told` and has `rows`, with the frame b in its hands.
Remembers(k, told, rows, b) ==
  LET pending == IF b.type = "gaps" THEN b.seqs ELSE {}
  IN  /\ Covered(rows) \subseteq told
      /\ pending \subseteq told
      /\ k \notin KeyedByStart => told \subseteq Covered(rows) \cup pending
      /\ \A s \in told \ pending : \E r \in rows : r[1] <= s /\ r[1] .. s \subseteq told

Remembered == \A k \in Sink : Remembers(k, declaredGaps[k], gapRows[k], busy[k])

\* A report leaves, for each of its chunks, a row at the start of the chunk's range: its
\* own or one that was there.
LEMMA InsertedStarts ==
  ASSUME NEW k \in Sink, NEW rows \in SUBSET (Seqs \X Seqs), NEW G \in SUBSET Seqs, NEW s \in G
  PROVE  \E r \in InsertGapRows(k, rows, RangesOf(G)) : r[1] <= s /\ r[1] .. s \subseteq G
<1> DEFINE new == InsertGapRows(k, rows, RangesOf(G))
<1>a. MaxSeq \in Nat /\ Seqs = 0 .. MaxSeq
  BY SenderConstants DEF Seqs
<1>b. G \subseteq Covered(RangesOf(G))
  BY <1>a, RangesCover
<1>1. PICK r \in RangesOf(G) : s \in r[1] .. r[2]
  BY <1>b DEF Covered
<1>2. r[1] \in Nat /\ r[2] \in Nat /\ r[1] .. r[2] \subseteq G
  <2>1. r \in G \X G /\ r[1] .. r[2] \subseteq G
    BY <1>1 DEF RangesOf
  <2>2. r[1] \in Seqs /\ r[2] \in Seqs
    BY <2>1
  <2> QED
    BY <1>a, <2>1, <2>2
<1>3. r[1] <= s /\ r[1] .. s \subseteq G
  BY <1>1, <1>2
<1>4. \E q \in new : q[1] = r[1]
  <2>1. CASE r \in new
    BY <2>1
  <2>2. CASE r \notin new
    BY <1>1, <2>2 DEF InsertGapRows
  <2> QED
    BY <2>1, <2>2
<1> QED
  BY <1>3, <1>4

\* The rows of a report take its place.
LEMMA ReportRemembered ==
  ASSUME NEW k \in Sink, NEW told, NEW rows \in SUBSET (Seqs \X Seqs), NEW G \in SUBSET Seqs,
         Remembers(k, told, rows, GapReport(G))
  PROVE  Remembers(k, told, InsertGapRows(k, rows, RangesOf(G)), NoFrame)
<1> DEFINE new == InsertGapRows(k, rows, RangesOf(G))
<1>1. /\ Covered(rows) \subseteq Covered(new)
      /\ Covered(new) \subseteq Covered(rows) \cup G
      /\ k \notin KeyedByStart => G \subseteq Covered(new)
  BY InsertedRows
<1>2. /\ Covered(rows) \subseteq told /\ G \subseteq told
      /\ k \notin KeyedByStart => told \subseteq Covered(rows) \cup G
      /\ \A s \in told \ G : \E r \in rows : r[1] <= s /\ r[1] .. s \subseteq told
  BY DEF Remembers, GapReport
<1>3. rows \subseteq new
  BY DEF InsertGapRows
<1>4. ASSUME NEW s \in told PROVE \E r \in new : r[1] <= s /\ r[1] .. s \subseteq told
  <2>1. CASE s \in G
    <3>1. PICK r \in new : r[1] <= s /\ r[1] .. s \subseteq G
      BY <2>1, InsertedStarts
    <3> HIDE DEF new
    <3> QED
      BY <3>1, <1>2
  <2>2. CASE s \notin G
    BY <2>2, <1>2, <1>3
  <2> QED
    BY <2>1, <2>2
<1> HIDE DEF new
<1>5. Remembers(k, told, new, NoFrame)
  BY <1>1, <1>2, <1>4 DEF Remembers, NoFrame
<1> QED
  BY <1>5 DEF new

\* A rebuilt engine knows its rows, and their starts with them.
LEMMA RebuiltRemembers ==
  ASSUME NEW k \in Sink, NEW rows \in SUBSET (Seqs \X Seqs)
  PROVE  Remembers(k, Covered(rows), rows, NoFrame)
<1>1. ASSUME NEW s \in Covered(rows)
      PROVE  \E r \in rows : r[1] <= s /\ r[1] .. s \subseteq Covered(rows)
  <2>1. PICK r \in rows : s \in r[1] .. r[2]
    BY DEF Covered
  <2>2. r[1] \in Nat /\ r[2] \in Nat
    BY <2>1, SenderConstants DEF Seqs
  <2>3. r[1] .. s \subseteq r[1] .. r[2] /\ r[1] <= s
    BY <2>1, <2>2
  <2> QED
    BY <2>1, <2>3 DEF Covered
<1> QED
  BY <1>1 DEF Remembers, NoFrame

\* A sink that starts on a frame has lost nothing of what it was told.
LEMMA FrameRemembered ==
  ASSUME NEW k \in Sink, NEW told, NEW rows, NEW f, Remembers(k, told, rows, NoFrame)
  PROVE  /\ f.type # "gaps" => Remembers(k, told, rows, f)
         /\ f.type = "gaps" => Remembers(k, told \cup f.seqs, rows, f)
<1>1. /\ Covered(rows) \subseteq told
      /\ k \notin KeyedByStart => told \subseteq Covered(rows)
      /\ \A s \in told : \E r \in rows : r[1] <= s /\ r[1] .. s \subseteq told
  BY DEF Remembers, NoFrame
<1>2. ASSUME f.type = "gaps" PROVE Remembers(k, told \cup f.seqs, rows, f)
  <2> DEFINE G == f.seqs
             all == told \cup G
  <2>1. \A s \in all \ G : \E r \in rows : r[1] <= s /\ r[1] .. s \subseteq all
    BY <1>1
  <2>2. Covered(rows) \subseteq all /\ G \subseteq all
        /\ (k \notin KeyedByStart => all \subseteq Covered(rows) \cup G)
    BY <1>1
  <2>3. (IF f.type = "gaps" THEN f.seqs ELSE {}) = G
    BY <1>2
  <2> HIDE DEF G
  <2>4. Remembers(k, all, rows, f)
    BY <2>1, <2>2, <2>3 DEF Remembers
  <2> QED
    BY <2>4 DEF G
<1>3. ASSUME f.type # "gaps" PROVE Remembers(k, told, rows, f)
  BY <1>1, <1>3 DEF Remembers
<1> QED
  BY <1>2, <1>3

\* A step that concerns one sink leaves what the others remember.
LEMMA OthersRemember ==
  ASSUME Remembered, NEW k \in Sink,
         \A j \in Sink : j # k => /\ declaredGaps'[j] = declaredGaps[j]
                                  /\ gapRows'[j] = gapRows[j] /\ busy'[j] = busy[j],
         Remembers(k, declaredGaps'[k], gapRows'[k], busy'[k])
  PROVE  Remembered'
<1>1. \A j \in Sink : Remembers(j, declaredGaps'[j], gapRows'[j], busy'[j])
  BY DEF Remembered
<1> QED
  BY <1>1 DEF Remembered, Remembers, Covered

LEMMA IngestRemembered ==
  ASSUME Inv, Remembered, NEW k \in Sink, NEW s, busy[k] = NoFrame, IngestChunk(k, s)
  PROVE  Remembered'
<1>1. /\ UNCHANGED <<declaredGaps, gapRows>>
      /\ busy' = [busy EXCEPT ![k] = IF s \in held[k] THEN NoFrame ELSE Chunk(s)]
  BY DEF IngestChunk, storeVars
<1>2. busy'[k].type # "gaps" /\ \A j \in Sink : j # k => busy'[j] = busy[j]
  BY <1>1, QuietFacts DEF NoFrame, Chunk
<1>3. Remembers(k, declaredGaps[k], gapRows[k], NoFrame)
  BY DEF Remembered
<1>4. Remembers(k, declaredGaps[k], gapRows[k], busy'[k])
  BY <1>2, <1>3, FrameRemembered
<1> QED
  BY <1>1, <1>2, <1>4, OthersRemember

LEMMA ProcessRemembered ==
  ASSUME Inv, Remembered, NEW k \in Sink, ProcessFrame(k) PROVE Remembered'
<1> DEFINE f == Head(toSink[k])
<1>1. busy[k] = NoFrame
  BY DEF ProcessFrame
<1>2. CASE f.type = "chunk"
  BY <1>1, <1>2, IngestRemembered DEF ProcessFrame
<1>3. CASE f.type # "chunk"
  <2>1. IngestGaps(k, f)
    BY <1>3 DEF ProcessFrame
  <2>2. toSink[k] # <<>> /\ toSink[k] \in Seq(GoodFrames)
    BY QuietFacts DEF ProcessFrame
  <2>3. f \in GoodFrames
    BY <2>2
  <2>4. f.type = "gaps"
    BY <1>3, <2>3 DEF GoodFrames, Chunk, GapReport
  <2> HIDE DEF f
  <2>5. /\ declaredGaps'[k] = declaredGaps[k] \cup f.seqs /\ busy'[k] = f
        /\ UNCHANGED gapRows
        /\ \A j \in Sink : j # k => declaredGaps'[j] = declaredGaps[j] /\ busy'[j] = busy[j]
    BY <2>1, QuietFacts DEF IngestGaps, storeVars
  <2>6. Remembers(k, declaredGaps[k], gapRows[k], NoFrame)
    BY <1>1 DEF Remembered
  <2>7. Remembers(k, declaredGaps[k] \cup f.seqs, gapRows[k], f)
    BY <2>4, <2>6, FrameRemembered
  <2> QED
    BY <2>5, <2>7, OthersRemember
<1> QED
  BY <1>2, <1>3

LEMMA PersistRemembered ==
  ASSUME Inv, Remembered, NEW k \in Sink, Persist(k) PROVE Remembered'
<1>1. /\ busy[k] \in GoodFrames /\ UNCHANGED declaredGaps
      /\ busy'[k] = NoFrame /\ \A j \in Sink : j # k => busy'[j] = busy[j]
  BY QuietFacts DEF Persist
<1>2. Remembers(k, declaredGaps[k], gapRows[k], busy[k])
  BY DEF Remembered
<1>3. CASE busy[k].type = "chunk"
  <2>1. UNCHANGED gapRows
    BY <1>3 DEF Persist
  <2>2. Remembers(k, declaredGaps[k], gapRows[k], NoFrame)
    BY <1>2, <1>3 DEF Remembers, NoFrame
  <2> QED
    BY <1>1, <2>1, <2>2, OthersRemember
<1>4. CASE busy[k].type # "chunk"
  <2> DEFINE G == busy[k].seqs
  <2>1. /\ gapRows'[k] = InsertGapRows(k, gapRows[k], RangesOf(G))
        /\ \A j \in Sink : j # k => gapRows'[j] = gapRows[j]
    BY <1>4, QuietFacts DEF Persist
  <2>2. PICK H \in SUBSET gaps : busy[k] = GapReport(H)
    BY <1>1, <1>4 DEF GoodFrames, Chunk
  <2>3. G = H /\ G \in SUBSET Seqs /\ gapRows[k] \in SUBSET (Seqs \X Seqs)
    <3>1. gaps \subseteq Seqs
      BY SenderConstants DEF Inv, Accounted, SenderTyped, Produced, Seqs
    <3>2. G = H
      BY <2>2 DEF GapReport
    <3> QED
      BY <3>1, <3>2, QuietFacts
  <2> HIDE DEF G
  <2>4. Remembers(k, declaredGaps[k], InsertGapRows(k, gapRows[k], RangesOf(G)), NoFrame)
    BY <1>2, <2>2, <2>3, ReportRemembered
  <2> QED
    BY <1>1, <2>1, <2>4, OthersRemember
<1> QED
  BY <1>3, <1>4

LEMMA RebuildRemembered ==
  ASSUME Inv, Remembered, NEW k \in Sink, Rebuild(k) PROVE Remembered'
<1>1. /\ declaredGaps'[k] = Covered(gapRows[k]) /\ busy'[k] = NoFrame /\ UNCHANGED gapRows
      /\ \A j \in Sink : j # k => declaredGaps'[j] = declaredGaps[j] /\ busy'[j] = busy[j]
  BY QuietFacts DEF Rebuild, storeVars
<1>2. gapRows[k] \in SUBSET (Seqs \X Seqs)
  BY QuietFacts
<1>3. Remembers(k, Covered(gapRows[k]), gapRows[k], NoFrame)
  BY <1>2, RebuiltRemembers
<1> QED
  BY <1>1, <1>3, OthersRemember

LEMMA StepRemembers ==
  ASSUME Failing \subseteq FailStop, Inv, Remembered, [Next]_vars PROVE Remembered'
<1>1. CASE UNCHANGED <<declaredGaps, gapRows, busy>>
  BY <1>1 DEF Remembered, Remembers, Covered
<1>2. CASE UNCHANGED vars \/ Capture \/ Stop
  BY <1>1, <1>2 DEF vars, Capture, Stop, sinkVars, engineVars, storeVars
<1>3. ASSUME NEW k \in Sink,
             \/ Attach(k) \/ Connect(k) \/ Disconnect(k) \/ SendReport(k) \/ SendChunk(k)
             \/ SendNothing(k) \/ ReceiveAck(k) \/ NoteFinal(k) \/ SendAck(k)
      PROVE  Remembered'
  <2>1. UNCHANGED <<declaredGaps, gapRows, busy>>
    BY <1>3 DEF Attach, Connect, Disconnect, SendReport, SendChunk, SendNothing, ReceiveAck,
                NoteFinal, SendAck, sinkVars, engineVars, storeVars
  <2> QED
    BY <1>1, <2>1
<1>4. ASSUME NEW k \in Sink, ProcessFrame(k) \/ Persist(k) PROVE Remembered'
  BY <1>4, ProcessRemembered, PersistRemembered
<1>5. ASSUME NEW k \in Sink, PersistFails(k) \/ Restart(k) PROVE Remembered'
  BY <1>5, RebuildRemembered DEF PersistFails, Restart
<1>6. ASSUME NEW k \in Sink, NEW j \in Sink, SyncChunk(j, k) PROVE Remembered'
  BY <1>6, IngestRemembered DEF SyncChunk
<1> QED
  BY <1>2, <1>3, <1>4, <1>5, <1>6 DEF Next

\* Every sink, the server among them, remembers the start of every run of lost chunks it
\* was told of through failed writes and restarts, and a sink that stores gap ranges by
\* both ends, as the desk does, all of it (archive/index.ts and the desk's worker,
\* persistGaps).
THEOREM GapsStayRemembered ==
  ASSUME Failing \subseteq FailStop
  PROVE  Spec => []GapsRemembered
<1>1. Init => Inv /\ Remembered
  <2>1. Init => Remembered
    BY DEF Init, Remembered, Remembers, Covered, NoFrame
  <2> QED
    BY <2>1, InitInv
<1>2. Inv /\ Remembered /\ [Next]_vars => Inv' /\ Remembered'
  BY NextInv, StepRemembers
<1>3. Remembered => GapsRemembered
  BY DEF Remembered, Remembers, GapsRemembered, NoFrame
<1> QED
  BY <1>1, <1>2, <1>3, PTL DEF Spec

\* A settled sink has been told about the gaps: the take closes on a snapshot that
\* proves its newest chunk, and below that one the sink has, or was told of, everything
\* (sender.rs, sink_settled and try_close).
THEOREM ClosingIsTold ==
  ASSUME Failing \subseteq FailStop, KeyedByStart = {} \/ MaxFaults = 0
  PROVE  Spec => CloseIsTold
<1>1. ASSUME Inv, ToldInv, Next, state # "Closed", state' = "Closed"
      PROVE  \A k \in sinks : 0 .. finalSeq' \subseteq stored[k] \cup declaredGaps[k]
  <2>1. /\ finalSeq' = nextSeq - 1 /\ sinks \subseteq Sink
        /\ UNCHANGED <<nextSeq, chunks, gaps, stored>>
    BY <1>1, ClosingStep
  <2>2. ToldInv'
    BY <1>1, ToldStep
  <2>3. /\ DrainedAll(proven', finalSeq') /\ finalSeq' # NoSeq
        /\ UNCHANGED <<declaredGaps, sinks>>
    <3>1. CASE Stop
      BY <1>1, <3>1 DEF Stop, Finish, TryClose, DrainedAll, Settled, sinkVars, engineVars
    <3>2. ASSUME NEW k \in Sink, ReceiveAck(k)
          PROVE  /\ DrainedAll(proven', finalSeq') /\ finalSeq' # NoSeq
                 /\ UNCHANGED <<declaredGaps, sinks>>
      BY <1>1, <3>2 DEF ReceiveAck, HandleAck, TryClose, DrainedAll, Settled, sinkVars, engineVars
    <3>3. ASSUME NEW k \in Sink,
                 \/ Attach(k) \/ Connect(k) \/ Disconnect(k)
                 \/ SendReport(k) \/ SendChunk(k) \/ SendNothing(k) \/ SendAck(k)
                 \/ ProcessFrame(k) \/ Persist(k) \/ PersistFails(k) \/ Restart(k)
                 \/ NoteFinal(k)
                 \/ \E j \in Sink : SyncChunk(j, k)
          PROVE  FALSE
      <4>1. UNCHANGED state
        BY <3>3, OtherStepsStutter DEF Persist, senderVars, takeVars
      <4> QED
        BY <1>1, <4>1
    <3>4. CASE Capture
      BY <1>1, <3>4 DEF Capture, Arm, PushAudio
    <3> QED
      BY <1>1, <3>1, <3>2, <3>3, <3>4 DEF Next
  <2>4. ASSUME NEW k \in sinks
        PROVE  0 .. nextSeq - 1 \subseteq stored[k] \cup declaredGaps[k]
    <3>1. 0 .. nextSeq - 1 \subseteq proven'[k] \cup gaps /\ nextSeq \in Nat \ {0}
      <4>1. 0 .. finalSeq' \subseteq proven'[k] \cup gaps
        BY <2>3 DEF DrainedAll, Settled
      <4>2. nextSeq \in Nat /\ nextSeq # 0
        BY <1>1, <2>1, <2>3 DEF Inv, SenderTyped, NoSeq
      <4> QED
        BY <2>1, <4>1, <4>2
    <3>2. nextSeq - 1 \in chunks /\ nextSeq - 1 \in 0 .. nextSeq - 1
      BY <1>1, <3>1 DEF ToldInv, FinalsInTake
    <3>3. nextSeq - 1 \in proven'[k]
      <4>1. nextSeq - 1 \notin gaps
        BY <1>1, <3>2 DEF Inv, Accounted
      <4> QED
        BY <3>1, <3>2, <4>1
    <3>4. Produced \subseteq proven'[k] /\ proven'[k] \subseteq stored[k] \cup Kept(k)'
      BY <2>1, <2>2, <3>3 DEF ToldInv, SnapshotsSure, Produced
    <3>5. Kept(k)' \subseteq declaredGaps[k]
      BY <2>1, <2>2, <2>3 DEF Kept, ToldInv, RowsDeclared, Covered
    <3> QED
      BY <3>4, <3>5 DEF Produced
  <2> QED
    BY <2>1, <2>4
<1>2. Inv /\ ToldInv /\ [Next]_vars =>
        [state # "Closed" /\ state' = "Closed" =>
           \A k \in sinks : 0 .. finalSeq' \subseteq stored[k] \cup declaredGaps[k]]_vars
  BY <1>1
<1> QED
  BY <1>2, ToldInvariance, PTL DEF Spec, CloseIsTold

-----------------------------------------------------------------------------
(***************************************************************************)
(* The bytes of a set of chunks.  A sum is a count: each chunk s stands    *)
(* for Cost[s] units, and the bytes of a set are the units of its chunks.  *)
(***************************************************************************)
UnitsOf(S) == {u \in Seqs \X Nat : u[1] \in S /\ u[2] < Cost[u[1]]}

\* Every set of naturals that is not empty has a least element.
LEMMA LeastOf ==
  ASSUME NEW T \in SUBSET Nat, T # {}
  PROVE  \E m \in T : \A n \in T : m <= n
<1>1. PICK m \in T : \A n \in T : ~ (<<n, m>> \in OpToRel(<, Nat))
  BY NatLessThanWellFounded, WFMin
<1>2. \A n \in T : ~ (n < m)
  BY <1>1 DEF OpToRel
<1> QED
  BY <1>2

LEMMA SeqsFinite == \A S \in SUBSET Seqs : IsFiniteSet(S) /\ Cardinality(S) \in Nat
<1>1. 0 \in Int /\ MaxSeq \in Int
  BY SenderConstants
<1>2. IsFiniteSet(0 .. MaxSeq)
  BY <1>1, FS_Interval, Zenon
<1> QED
  BY <1>2, FS_Subset, FS_CardinalityType DEF Seqs

\* The units of one more chunk.
LEMMA UnitsOfOne ==
  ASSUME NEW s \in Seqs
  PROVE  IsFiniteSet(UnitsOf({s})) /\ Cardinality(UnitsOf({s})) = Cost[s]
<1> DEFINE c == Cost[s]
           I == 0 .. c - 1
<1>1. c \in Nat \ {0}
  BY SenderConstants DEF Seqs
<1>2. IsFiniteSet(I) /\ Cardinality(I) = c
  <2> HIDE DEF c
  <2>1. 0 \in Int /\ c - 1 \in Int /\ ~ (0 > c - 1) /\ c - 1 - 0 + 1 = c
    BY <1>1
  <2>2. /\ IsFiniteSet(0 .. c - 1)
        /\ Cardinality(0 .. c - 1) = IF 0 > c - 1 THEN 0 ELSE c - 1 - 0 + 1
    BY <2>1, FS_Interval, Zenon
  <2> QED
    BY <2>1, <2>2
<1>3. UnitsOf({s}) = {s} \X I
  BY <1>1 DEF UnitsOf
<1> HIDE DEF I, c
<1>4. IsFiniteSet({s}) /\ Cardinality({s}) = 1
  BY FS_Singleton
<1>5. IsFiniteSet({s} \X I) /\ Cardinality({s} \X I) = 1 * c
  BY <1>2, <1>4, FS_Product
<1>6. 1 * c = c
  BY <1>1
<1>7. IsFiniteSet(UnitsOf({s})) /\ Cardinality(UnitsOf({s})) = c
  BY <1>3, <1>5, <1>6
<1> QED
  BY <1>7 DEF c

LEMMA UnitsFinite == \A S \in SUBSET Seqs : IsFiniteSet(UnitsOf(S)) /\ Cardinality(UnitsOf(S)) \in Nat
<1> DEFINE U == [s \in Seqs |-> UnitsOf({s})]
           R == {U[s] : s \in Seqs}
<1>1. IsFiniteSet(Seqs)
  BY SeqsFinite
<1>2. U \in Surjection(Seqs, R)
  BY DEF Surjection
<1>3. IsFiniteSet(R)
  <2> HIDE DEF U, R
  <2> QED
    BY <1>1, <1>2, FS_Surjection
<1>4. \A r \in R : IsFiniteSet(r)
  BY UnitsOfOne
<1>5. IsFiniteSet(UNION R)
  <2> HIDE DEF R
  <2> QED
    BY <1>3, <1>4, FS_UNION
<1>6. \A S \in SUBSET Seqs : UnitsOf(S) \subseteq UNION R
  BY DEF UnitsOf
<1> HIDE DEF R
<1> QED
  BY <1>5, <1>6, FS_Subset, FS_CardinalityType

LEMMA UnitsOfMore ==
  ASSUME NEW S \in SUBSET Seqs, NEW s \in Seqs, s \notin S
  PROVE  Cardinality(UnitsOf(S \cup {s})) = Cost[s] + Cardinality(UnitsOf(S))
<1> DEFINE A == UnitsOf(S)
           B == UnitsOf({s})
<1>1. UnitsOf(S \cup {s}) = A \cup B /\ A \cap B = {}
  BY DEF UnitsOf
<1>2. /\ IsFiniteSet(A) /\ IsFiniteSet(B) /\ Cardinality(A) \in Nat
      /\ Cardinality(B) = Cost[s] /\ Cost[s] \in Nat
  BY UnitsFinite, UnitsOfOne, SenderConstants DEF Seqs
<1> HIDE DEF A, B
<1>3. Cardinality(A \cup B) = Cardinality(A) + Cardinality(B) - Cardinality(A \cap B)
  BY <1>2, FS_Union
<1>4. Cardinality(A \cap B) = 0
  BY <1>1, FS_EmptySet
<1> QED
  BY <1>1, <1>2, <1>3, <1>4 DEF A

\* Bytes counts the units.
LEMMA BytesAre ==
  ASSUME NEW S \in SUBSET Seqs
  PROVE  Bytes(S) = Cardinality(UnitsOf(S))
<1> DEFINE ch(s) == CHOOSE x \in s : TRUE
           Body(f) == [s \in SUBSET S |-> IF s = {} THEN 0 ELSE Cost[ch(s)] + f[s \ {ch(s)}]]
           sum == CHOOSE f : f = Body(f)
           W(s) == Cardinality(UnitsOf(s))
           g == [s \in SUBSET S |-> W(s)]
<1>1. Bytes(S) = sum[S]
  BY Zenon DEF Bytes, MapThenSumSet, MapThenFoldSet
<1>2. \A s \in SUBSET S : s # {} => ch(s) \in s
  OBVIOUS
<1> HIDE DEF ch
<1>3. W({}) = 0
  BY FS_EmptySet DEF UnitsOf
<1>4. \A s \in SUBSET S : s # {} => W(s) = Cost[ch(s)] + W(s \ {ch(s)})
  <2> SUFFICES ASSUME NEW s \in SUBSET S, s # {} PROVE W(s) = Cost[ch(s)] + W(s \ {ch(s)})
    OBVIOUS
  <2>1. ch(s) \in Seqs /\ s \ {ch(s)} \in SUBSET Seqs /\ s = (s \ {ch(s)}) \cup {ch(s)}
    BY <1>2
  <2> QED
    BY <2>1, UnitsOfMore
<1> HIDE DEF W
<1>5. g = Body(g)
  BY <1>2, <1>3, <1>4
<1>6. sum = Body(sum)
  BY <1>5
<1> HIDE DEF sum, g
<1>7. \A s \in SUBSET S : sum[s] = W(s)
  <2> DEFINE Bad == {s \in SUBSET S : sum[s] # W(s)}
             T == {Cardinality(s) : s \in Bad}
  <2> SUFFICES ASSUME Bad # {} PROVE FALSE
    OBVIOUS
  <2>1. T \in SUBSET Nat /\ T # {}
    BY SeqsFinite
  <2>2. PICK n \in T : \A m \in T : n <= m
    <3> HIDE DEF T
    <3> QED
      BY <2>1, LeastOf
  <2>3. PICK s \in Bad : n = Cardinality(s)
    BY <2>2
  <2>4. s \in SUBSET S
    OBVIOUS
  <2>5. sum[s] = IF s = {} THEN 0 ELSE Cost[ch(s)] + sum[s \ {ch(s)}]
    BY <1>6, <2>4
  <2>6. s # {}
    BY <1>3, <2>5
  <2> DEFINE r == s \ {ch(s)}
  <2>7. r \in SUBSET S /\ ch(s) \in s
    BY <1>2, <2>4, <2>6
  <2>8. Cardinality(r) < n
    <3>1. IsFiniteSet(s) /\ Cardinality(s) \in Nat
      BY <2>4, SeqsFinite
    <3>2. Cardinality(r) = Cardinality(s) - 1
      BY <2>7, <3>1, FS_RemoveElement
    <3> QED
      BY <2>3, <3>1, <3>2
  <2>9. r \notin Bad
    <3>1. Cardinality(r) \in Nat /\ n \in Nat
      BY <2>1, <2>7, SeqsFinite
    <3>2. r \in Bad => Cardinality(r) \in T
      OBVIOUS
    <3> HIDE DEF T, Bad, r
    <3> QED
      BY <2>2, <2>8, <3>1, <3>2
  <2>10. sum[r] = W(r)
    BY <2>7, <2>9
  <2> HIDE DEF r
  <2> QED
    BY <1>4, <2>3, <2>4, <2>5, <2>6, <2>10 DEF r
<1> QED
  BY <1>1, <1>7 DEF W

LEMMA BytesTyped == \A S \in SUBSET Seqs : Bytes(S) \in Nat
BY BytesAre, UnitsFinite

LEMMA BytesOfPart ==
  ASSUME NEW S \in SUBSET Seqs, NEW T \in SUBSET S
  PROVE  Bytes(T) <= Bytes(S) /\ Bytes(S \ T) = Bytes(S) - Bytes(T)
<1> DEFINE A == UnitsOf(S)
           B == UnitsOf(T)
<1>1. B \subseteq A /\ UnitsOf(S \ T) = A \ B /\ A \cap B = B
  BY DEF UnitsOf
<1>2. IsFiniteSet(A) /\ Bytes(S) = Cardinality(A) /\ Bytes(T) = Cardinality(B)
      /\ Bytes(S \ T) = Cardinality(A \ B)
  BY <1>1, UnitsFinite, BytesAre
<1> HIDE DEF A, B
<1>3. Cardinality(B) <= Cardinality(A)
  BY <1>1, <1>2, FS_Subset
<1>4. Cardinality(A \ B) = Cardinality(A) - Cardinality(A \cap B)
  BY <1>2, FS_Difference
<1> QED
  BY <1>1, <1>2, <1>3, <1>4

(***************************************************************************)
(* The ring.                                                               *)
(***************************************************************************)
\* An eviction pass that leaves a candidate has met the budget.
LEMMA VictimsSuffice ==
  ASSUME NEW C \in SUBSET Seqs, NEW used \in Nat
  PROVE  /\ Victims(C, used) \subseteq C
         /\ Victims(C, used) # C => used - Bytes(Victims(C, used)) <= Budget
<1> DEFINE V == Victims(C, used)
           Older(s) == {t \in C : t < s}
           Left == C \ V
<1>0. C \subseteq Nat
  BY DEF Seqs
<1>1. V = {s \in C : used - Bytes(Older(s)) > Budget}
  BY DEF Victims
<1> HIDE DEF V
<1>2. V \subseteq C
  BY <1>1
<1>3. ASSUME V # C PROVE used - Bytes(V) <= Budget
  <2>1. Left \in SUBSET Nat /\ Left # {}
    BY <1>0, <1>2, <1>3
  <2>2. PICK m \in Left : \A n \in Left : m <= n
    <3> HIDE DEF Left
    <3> QED
      BY <2>1, LeastOf
  <2>3. m \in C /\ m \notin V
    BY <2>2
  <2>4. \A s \in C : Older(s) \in SUBSET Seqs /\ Bytes(Older(s)) \in Nat
    BY BytesTyped
  <2>5. used - Bytes(Older(m)) <= Budget
    <3>1. ~ (used - Bytes(Older(m)) > Budget)
      BY <1>1, <2>3
    <3> QED
      BY <2>3, <2>4, <3>1, SenderConstants
  <2>6. Older(m) \subseteq V
    <3> SUFFICES ASSUME NEW t \in C, t < m, t \notin V PROVE FALSE
      OBVIOUS
    <3>1. t \in Left /\ t \in Nat /\ m \in Nat
      BY <1>0, <2>3
    <3> QED
      BY <2>2, <3>1
  <2>7. V \subseteq Older(m)
    <3> SUFFICES ASSUME NEW s \in V, s \notin Older(m) PROVE FALSE
      OBVIOUS
    <3>1. s \in C /\ used - Bytes(Older(s)) > Budget
      BY <1>1
    <3>2. m < s
      BY <1>0, <2>3, <3>1
    <3>3. Older(m) \subseteq Older(s)
      <4> SUFFICES ASSUME NEW t \in C, t < m PROVE t < s
        OBVIOUS
      <4>1. t \in Nat /\ m \in Nat /\ s \in Nat
        BY <1>0, <2>3, <3>1
      <4> QED
        BY <3>2, <4>1
    <3>4. Bytes(Older(m)) <= Bytes(Older(s))
      BY <2>4, <3>1, <3>3, BytesOfPart
    <3> HIDE DEF Older
    <3>5. Bytes(Older(m)) \in Nat /\ Bytes(Older(s)) \in Nat /\ Budget \in Nat
      BY <2>3, <2>4, <3>1, SenderConstants
    <3> QED
      BY <2>5, <3>1, <3>4, <3>5
  <2> HIDE DEF Older
  <2>8. V = Older(m)
    BY <2>6, <2>7
  <2> QED
    BY <2>5, <2>8
<1> QED
  BY <1>2, <1>3 DEF V

\* The ring after an insertion: the pinned chunks are there, and it is within its
\* budget or down to them.
LEMMA InsertedBounded ==
  ASSUME NEW seq \in Seqs, chunks \in SUBSET Seqs, RingInsert(seq), 0 \in chunks \cup {seq}
  PROVE  /\ {0, seq} \subseteq chunks'
         /\ Bytes(chunks') <= Budget \/ chunks' = {0, seq}
         /\ AckedVictims(seq) \subseteq chunks
         /\ UnackedVictims(seq) \subseteq chunks \ AckedVictims(seq)
<1> DEFINE All == chunks \cup {seq}
           A == AckedVictims(seq)
           U == UnackedVictims(seq)
           C == EvictableAfter(seq) \ A
           used == Bytes(All \ A)
<1>1. All \in SUBSET Seqs /\ EvictableAfter(seq) = All \ {0, seq} /\ {0, seq} \subseteq All
  BY DEF EvictableAfter
<1>2. A \subseteq All \ {0, seq}
  <2> DEFINE D == EvictableAfter(seq) \cap ackedByAny
  <2>1. D \in SUBSET Seqs /\ D \subseteq All \ {0, seq} /\ Bytes(All) \in Nat
    BY <1>1, BytesTyped
  <2>2. A = Victims(D, Bytes(All))
    BY DEF AckedVictims
  <2> HIDE DEF D, A, All
  <2>3. A \subseteq D
    BY <2>1, <2>2, VictimsSuffice
  <2> QED
    BY <2>1, <2>3
<1>3. U = Victims(C, used)
  BY DEF UnackedVictims
<1>4. C \in SUBSET Seqs /\ used \in Nat /\ C = (All \ {0, seq}) \ A
  BY <1>1, BytesTyped
<1>5. U \subseteq C /\ (U # C => used - Bytes(U) <= Budget)
  <2> HIDE DEF C, used, U
  <2> QED
    BY <1>3, <1>4, VictimsSuffice
<1>6. chunks' = (All \ A) \ U
  BY DEF RingInsert
<1> HIDE DEF U, A, C, All
<1>7. {0, seq} \subseteq chunks'
  BY <1>1, <1>2, <1>4, <1>5, <1>6
<1>8. ASSUME U = C PROVE chunks' = {0, seq}
  BY <1>1, <1>2, <1>4, <1>6, <1>7, <1>8
<1>9. ASSUME U # C PROVE Bytes(chunks') <= Budget
  <2>1. All \ A \in SUBSET Seqs /\ U \in SUBSET (All \ A)
    BY <1>1, <1>4, <1>5
  <2>2. Bytes((All \ A) \ U) = used - Bytes(U)
    BY <2>1, BytesOfPart
  <2> QED
    BY <1>5, <1>6, <1>7, <1>9, <2>2
<1>10. A \subseteq chunks /\ U \subseteq chunks \ A
  BY <1>2, <1>4, <1>5 DEF All
<1> QED
  BY <1>7, <1>8, <1>9, <1>10 DEF A, U

-----------------------------------------------------------------------------
(***************************************************************************)
(* The queues.                                                             *)
(***************************************************************************)
Distinct(q) == \A i, j \in DOMAIN q : i # j => q[i] # q[j]

\* A sorted set lists it, each chunk once.
LEMMA AscendingIs ==
  ASSUME NEW S \in SUBSET Seqs
  PROVE  Ascending(S) \in Seq(S) /\ Distinct(Ascending(S)) /\ ToSet(Ascending(S)) = S
<1> DEFINE n == Cardinality(S)
           Older(s) == {t \in S : t < s}
           rank(s) == Cardinality(Older(s))
           q == Ascending(S)
<1>1. S \subseteq Nat /\ IsFiniteSet(S) /\ n \in Nat
  BY SeqsFinite DEF Seqs
<1>2. \A s \in S : Older(s) \in SUBSET S /\ s \notin Older(s) /\ rank(s) \in Nat
  BY <1>1, SeqsFinite
<1>3. ASSUME NEW s \in S, NEW u \in S, s < u PROVE rank(s) < rank(u)
  <2>1. Older(s) \subseteq Older(u)
    <3> SUFFICES ASSUME NEW t \in S, t < s PROVE t < u
      OBVIOUS
    <3>1. t \in Nat /\ s \in Nat /\ u \in Nat
      BY <1>1
    <3> QED
      BY <1>3, <3>1
  <2>2. s \in Older(u) /\ s \notin Older(s)
    BY <1>2, <1>3
  <2>3. IsFiniteSet(Older(u)) /\ rank(s) \in Nat /\ rank(u) \in Nat
    BY <1>2, SeqsFinite
  <2> HIDE DEF Older
  <2>4. rank(s) <= rank(u) /\ (rank(u) = rank(s) => Older(u) = Older(s))
    BY <2>1, <2>3, FS_Subset
  <2> QED
    BY <2>2, <2>3, <2>4
<1>4. ASSUME NEW s \in S PROVE rank(s) < n
  <2>1. Older(s) \in SUBSET S /\ Older(s) # S /\ rank(s) \in Nat
    BY <1>2, <1>4
  <2> HIDE DEF Older
  <2>2. rank(s) <= n /\ (n = rank(s) => S = Older(s))
    BY <1>1, <2>1, FS_Subset
  <2> QED
    BY <1>1, <2>1, <2>2
<1>5. \A s, u \in S : rank(s) = rank(u) => s = u
  <2> SUFFICES ASSUME NEW s \in S, NEW u \in S, rank(s) = rank(u), s # u PROVE FALSE
    OBVIOUS
  <2>1. rank(s) \in Nat /\ rank(u) \in Nat /\ s \in Nat /\ u \in Nat
    BY <1>1, <1>2
  <2> HIDE DEF rank
  <2>2. s < u \/ u < s
    BY <2>1
  <2> QED
    BY <1>3, <2>1, <2>2
<1>6. \A i \in 1 .. n : \E s \in S : rank(s) = i - 1
  <2> DEFINE r == [s \in S |-> rank(s) + 1]
             I == 1 .. n
  <2>1. r \in Injection(S, I)
    <3>1. r \in [S -> I]
      <4> SUFFICES ASSUME NEW s \in S PROVE rank(s) + 1 \in I
        OBVIOUS
      <4>1. rank(s) \in Nat /\ rank(s) < n
        BY <1>2, <1>4
      <4> HIDE DEF rank, n
      <4> QED
        BY <1>1, <4>1
    <3>2. \A s, u \in S : r[s] = r[u] => s = u
      <4>1. \A s \in S : r[s] = rank(s) + 1 /\ rank(s) \in Nat
        BY <1>2
      <4> HIDE DEF rank, r
      <4> QED
        BY <1>5, <4>1
    <3> QED
      BY <3>1, <3>2 DEF Injection, IsInjective
  <2>2. IsFiniteSet(I) /\ Cardinality(I) = n
    <3> HIDE DEF n
    <3>1. 1 \in Int /\ n \in Int
      BY <1>1
    <3>2. IsFiniteSet(1 .. n) /\ Cardinality(1 .. n) = IF 1 > n THEN 0 ELSE n - 1 + 1
      BY <3>1, FS_Interval, Zenon
    <3> QED
      BY <1>1, <3>2
  <2>3. r \in Surjection(S, I)
    <3> HIDE DEF r, I
    <3> QED
      BY <2>1, <2>2, FS_Injection
  <2> SUFFICES ASSUME NEW i \in I PROVE \E s \in S : rank(s) = i - 1
    OBVIOUS
  <2>4. PICK s \in S : r[s] = i
    BY <2>3 DEF Surjection
  <2>5. rank(s) + 1 = i /\ rank(s) \in Nat
    BY <1>2, <2>4
  <2> HIDE DEF rank
  <2>6. rank(s) = i - 1
    BY <2>5
  <2> QED
    BY <2>6
<1>7. q = [i \in 1 .. n |-> CHOOSE s \in S : rank(s) = i - 1]
  BY DEF Ascending
<1> HIDE DEF rank, q, n
<1>8. \A i \in 1 .. n : q[i] \in S /\ rank(q[i]) = i - 1
  BY <1>6, <1>7
<1>9. q \in [1 .. n -> S] /\ DOMAIN q = 1 .. n
  BY <1>7, <1>8
<1>10. q \in Seq(S)
  BY <1>1, <1>9
<1>11. Distinct(q)
  <2> SUFFICES ASSUME NEW i \in 1 .. n, NEW j \in 1 .. n, q[i] = q[j] PROVE i = j
    BY <1>9 DEF Distinct
  <2>1. i - 1 = j - 1
    BY <1>8
  <2> QED
    BY <1>1, <2>1
<1>12. ToSet(q) = S
  <2>1. ToSet(q) \subseteq S
    BY <1>8, <1>9 DEF ToSet
  <2>2. ASSUME NEW s \in S PROVE s \in ToSet(q)
    <3>1. rank(s) \in Nat /\ rank(s) < n
      BY <1>2, <1>4
    <3>2. rank(s) + 1 \in 1 .. n /\ (rank(s) + 1) - 1 = rank(s)
      BY <1>1, <3>1
    <3>3. q[rank(s) + 1] = s
      BY <1>5, <1>8, <3>2
    <3> QED
      BY <1>9, <3>2, <3>3 DEF ToSet
  <2> QED
    BY <2>1, <2>2
<1> QED
  BY <1>10, <1>11, <1>12 DEF q

\* Two lists of distinct elements that share none.
LEMMA JoinIs ==
  ASSUME NEW T, NEW a \in Seq(T), NEW b \in Seq(T)
  PROVE  /\ a \o b \in Seq(T) /\ Len(a \o b) = Len(a) + Len(b)
         /\ ToSet(a \o b) = ToSet(a) \cup ToSet(b)
         /\ Distinct(a) /\ Distinct(b) /\ ToSet(a) \cap ToSet(b) = {} => Distinct(a \o b)
<1> DEFINE q == a \o b
           m == Len(a)
           n == Len(b)
<1>1. /\ q \in Seq(T) /\ Len(q) = m + n
      /\ \A i \in 1 .. m + n : q[i] = IF i <= m THEN a[i] ELSE b[i - m]
  BY ConcatProperties
<1>2. /\ m \in Nat /\ n \in Nat /\ DOMAIN a = 1 .. m /\ DOMAIN b = 1 .. n
      /\ DOMAIN q = 1 .. m + n
  BY <1>1
<1> HIDE DEF q, m, n
<1>3. \A i \in 1 .. m : i \in 1 .. m + n /\ q[i] = a[i]
  BY <1>1, <1>2
<1>4. \A j \in 1 .. n : j + m \in 1 .. m + n /\ q[j + m] = b[j]
  <2> SUFFICES ASSUME NEW j \in 1 .. n PROVE j + m \in 1 .. m + n /\ q[j + m] = b[j]
    OBVIOUS
  <2> DEFINE x == j + m
  <2>1. x \in 1 .. m + n /\ ~ (x <= m) /\ x - m = j
    BY <1>2
  <2> HIDE DEF x
  <2>2. q[x] = b[j]
    BY <1>1, <2>1
  <2> QED
    BY <2>1, <2>2 DEF x
<1>5. \A i \in 1 .. m + n : (i \in 1 .. m /\ q[i] = a[i]) \/ (i - m \in 1 .. n /\ q[i] = b[i - m])
  BY <1>1, <1>2
<1>6. ToSet(q) = ToSet(a) \cup ToSet(b)
  <2>1. ASSUME NEW x \in ToSet(q) PROVE x \in ToSet(a) \cup ToSet(b)
    <3>1. PICK i \in 1 .. m + n : x = q[i]
      BY <1>2, <2>1 DEF ToSet
    <3> QED
      BY <1>2, <1>5, <3>1 DEF ToSet
  <2>2. ToSet(a) \subseteq ToSet(q)
    BY <1>2, <1>3 DEF ToSet
  <2>3. ASSUME NEW x \in ToSet(b) PROVE x \in ToSet(q)
    <3>1. PICK j \in 1 .. n : x = b[j]
      BY <1>2, <2>3 DEF ToSet
    <3> QED
      BY <1>2, <1>4, <3>1 DEF ToSet
  <2> QED
    BY <2>1, <2>2, <2>3
<1>7. ASSUME Distinct(a), Distinct(b), ToSet(a) \cap ToSet(b) = {} PROVE Distinct(q)
  <2>1. \A i \in 1 .. m, j \in 1 .. n : a[i] # b[j]
    BY <1>2, <1>7 DEF ToSet
  <2> SUFFICES ASSUME NEW i \in 1 .. m + n, NEW j \in 1 .. m + n, i # j, q[i] = q[j] PROVE FALSE
    BY <1>2 DEF Distinct
  <2>2. CASE i \in 1 .. m /\ q[i] = a[i]
    <3>1. j \in 1 .. m /\ q[j] = a[j]
      BY <1>5, <2>1, <2>2
    <3> QED
      BY <1>2, <1>7, <2>2, <3>1 DEF Distinct
  <2>3. CASE i - m \in 1 .. n /\ q[i] = b[i - m]
    <3>1. j - m \in 1 .. n /\ q[j] = b[j - m]
      BY <1>5, <2>1, <2>3
    <3>2. i - m # j - m
      BY <1>2
    <3> QED
      BY <1>2, <1>7, <2>3, <3>1, <3>2 DEF Distinct
  <2> QED
    BY <1>5, <2>2, <2>3
<1> QED
  BY <1>1, <1>6, <1>7 DEF q, m, n

\* What is left when the first m elements are gone.
LEMMA DropIs ==
  ASSUME NEW T, NEW a \in Seq(T), NEW m \in 0 .. Len(a)
  PROVE  LET r == SubSeq(a, m + 1, Len(a))
         IN  /\ r \in Seq(T) /\ Len(r) = Len(a) - m
             /\ \A i \in 1 .. Len(a) - m : r[i] = a[m + i]
<1> DEFINE n == Len(a)
           r == SubSeq(a, m + 1, n)
<1>1. n \in Nat /\ \A i \in 1 .. n : a[i] \in T
  OBVIOUS
<1> HIDE DEF n
<1>2. m \in Nat /\ m <= n
  BY <1>1 DEF n
<1>3. m + 1 \in Int /\ n \in Int /\ \A i \in m + 1 .. n : a[i] \in T
  BY <1>1, <1>2
<1>4. /\ r \in Seq(T) /\ Len(r) = IF m + 1 <= n THEN n - (m + 1) + 1 ELSE 0
      /\ \A i \in 1 .. n - (m + 1) + 1 : r[i] = a[m + 1 + i - 1]
  BY <1>3, SubSeqProperties
<1>5. Len(r) = n - m
  BY <1>1, <1>2, <1>4
<1>6. \A i \in 1 .. n - m : r[i] = a[m + i]
  <2> SUFFICES ASSUME NEW i \in 1 .. n - m PROVE r[i] = a[m + i]
    OBVIOUS
  <2>1. i \in 1 .. n - (m + 1) + 1 /\ m + 1 + i - 1 = m + i
    BY <1>1, <1>2
  <2> QED
    BY <1>4, <2>1
<1> QED
  BY <1>4, <1>5, <1>6 DEF n

LEMMA DistinctDrop ==
  ASSUME NEW T, NEW a \in Seq(T), NEW m \in 0 .. Len(a), Distinct(a)
  PROVE  LET r == SubSeq(a, m + 1, Len(a))
         IN  Distinct(r) /\ ToSet(r) = ToSet(a) \ {a[i] : i \in 1 .. m}
<1> DEFINE n == Len(a)
           r == SubSeq(a, m + 1, n)
<1>1. n \in Nat /\ m \in Nat /\ m <= n /\ DOMAIN a = 1 .. n
  OBVIOUS
<1>2. r \in Seq(T) /\ Len(r) = n - m /\ \A i \in 1 .. n - m : r[i] = a[m + i]
  BY DropIs
<1>3. DOMAIN r = 1 .. n - m
  BY <1>2
<1> HIDE DEF r, n
<1>4. \A i \in 1 .. n - m : m + i \in 1 .. n
  BY <1>1
<1>5. Distinct(r)
  <2> SUFFICES ASSUME NEW i \in 1 .. n - m, NEW j \in 1 .. n - m, i # j PROVE r[i] # r[j]
    BY <1>3 DEF Distinct
  <2>1. m + i # m + j
    BY <1>1
  <2> QED
    BY <1>1, <1>2, <1>4, <2>1 DEF Distinct
<1>6. ASSUME NEW x \in ToSet(r) PROVE x \in ToSet(a) \ {a[i] : i \in 1 .. m}
  <2>1. PICK i \in 1 .. n - m : x = r[i]
    BY <1>3, <1>6 DEF ToSet
  <2>2. x = a[m + i] /\ m + i \in 1 .. n
    BY <1>2, <1>4, <2>1
  <2>3. \A j \in 1 .. m : j \in 1 .. n /\ j # m + i
    BY <1>1
  <2>4. \A j \in 1 .. m : a[j] # x
    BY <1>1, <2>2, <2>3 DEF Distinct
  <2> QED
    BY <1>1, <2>2, <2>4 DEF ToSet
<1>7. ASSUME NEW x \in ToSet(a), x \notin {a[i] : i \in 1 .. m} PROVE x \in ToSet(r)
  <2>1. PICK i \in 1 .. n : x = a[i]
    BY <1>1, <1>7 DEF ToSet
  <2>2. i \notin 1 .. m
    BY <1>7, <2>1
  <2>3. i - m \in 1 .. n - m /\ m + (i - m) = i
    BY <1>1, <2>2
  <2>4. r[i - m] = x
    BY <1>2, <2>1, <2>3
  <2> QED
    BY <1>3, <2>3, <2>4 DEF ToSet
<1>8. ToSet(r) = ToSet(a) \ {a[i] : i \in 1 .. m}
  BY <1>6, <1>7
<1> QED
  BY <1>5, <1>8 DEF r, n

\* A list of distinct elements counts them.
LEMMA DistinctCount ==
  ASSUME NEW T, NEW q \in Seq(T), Distinct(q)
  PROVE  Cardinality(ToSet(q)) = Len(q)
<1> DEFINE n == Len(q)
           I == 1 .. n
           R == ToSet(q)
<1>1. n \in Nat /\ DOMAIN q = I /\ q \in [I -> R]
  BY DEF ToSet
<1>2. q \in Bijection(I, R)
  BY <1>1 DEF Bijection, Injection, Surjection, IsInjective, Distinct, ToSet
<1>3. IsFiniteSet(I) /\ Cardinality(I) = n
  <2> HIDE DEF n
  <2>1. 1 \in Int /\ n \in Int
    BY <1>1
  <2>2. IsFiniteSet(1 .. n) /\ Cardinality(1 .. n) = IF 1 > n THEN 0 ELSE n - 1 + 1
    BY <2>1, FS_Interval, Zenon
  <2> QED
    BY <1>1, <2>2
<1>4. ExistsBijection(I, R)
  BY <1>2 DEF ExistsBijection
<1> HIDE DEF I, R, n
<1>5. Cardinality(R) = Cardinality(I)
  BY <1>3, <1>4, FS_Bijection
<1> QED
  BY <1>3, <1>5 DEF R, n

\* The queues of a sink, when the take has n chunks: the guard g is what the lists a
\* (live) and b (backlog) hold, each chunk once, and the live ones are the newest.
QueueGood(n, g, a, b) ==
  /\ a \in Seq(Seqs) /\ b \in Seq(Seqs) /\ g \subseteq 0 .. n - 1
  /\ g = ToSet(a) \cup ToSet(b)
  /\ Distinct(b) /\ ToSet(a) \cap ToSet(b) = {}
  /\ \A i \in 1 .. Len(a) : a[i] = n - Len(a) + i - 1

LEMMA LiveDistinct ==
  ASSUME NEW n \in Nat, NEW g, NEW a, NEW b, QueueGood(n, g, a, b)
  PROVE  Distinct(a)
<1>1. /\ a \in Seq(Seqs) /\ Len(a) \in Nat /\ DOMAIN a = 1 .. Len(a)
      /\ \A i \in 1 .. Len(a) : a[i] = n - Len(a) + i - 1
  BY DEF QueueGood
<1> DEFINE m == Len(a)
<1> HIDE DEF m
<1>2. /\ m \in Nat /\ DOMAIN a = 1 .. m
      /\ \A i \in 1 .. m : a[i] = n - m + i - 1
  BY <1>1 DEF m
<1> SUFFICES ASSUME NEW i \in 1 .. m, NEW j \in 1 .. m, i # j PROVE a[i] # a[j]
  BY <1>2 DEF Distinct
<1>3. n - m + i - 1 # n - m + j - 1
  BY <1>2
<1> QED
  BY <1>2, <1>3

LEMMA EmptyQueue ==
  /\ \A n \in Nat : QueueGood(n, {}, <<>>, <<>>)
  /\ <<>> \in Seq(Seqs) /\ Len(<<>>) = 0 /\ ToSet(<<>>) = {} /\ Distinct(<<>>)
BY DEF QueueGood, ToSet, Distinct

LEMMA SeqOfMore ==
  ASSUME NEW S, NEW T, S \subseteq T, NEW q \in Seq(S)
  PROVE  q \in Seq(T)
OBVIOUS

\* A backlog request queues what is not queued yet.
LEMMA EnqueueGood ==
  ASSUME NEW n \in Nat, NEW g, NEW a, NEW b, QueueGood(n, g, a, b),
         NEW S \in SUBSET Seqs, S \subseteq 0 .. n - 1, S \cap g = {}
  PROVE  QueueGood(n, g \cup S, a, b \o Ascending(S))
<1> DEFINE q == Ascending(S)
           c == b \o q
<1>1. q \in Seq(S) /\ Distinct(q) /\ ToSet(q) = S
  BY AscendingIs
<1>2. q \in Seq(Seqs)
  <2> HIDE DEF q
  <2> QED
    BY <1>1, SeqOfMore
<1>3. b \in Seq(Seqs) /\ Distinct(b) /\ ToSet(b) \cap ToSet(q) = {}
  BY <1>1 DEF QueueGood
<1> HIDE DEF q
<1>4. c \in Seq(Seqs) /\ ToSet(c) = ToSet(b) \cup S /\ Distinct(c)
  BY <1>1, <1>2, <1>3, JoinIs
<1> HIDE DEF c
<1> QED
  BY <1>4 DEF QueueGood, c, q

\* A new chunk goes to the end of the live list.
LEMMA LiveGood ==
  ASSUME NEW n \in Seqs, NEW g, NEW a, NEW b, QueueGood(n, g, a, b)
  PROVE  n \notin g /\ QueueGood(n + 1, g \cup {n}, Append(a, n), b)
<1> DEFINE d == Append(a, n)
           m == Len(a)
<1>0. n \in Nat /\ 0 .. n - 1 \subseteq 0 .. (n + 1) - 1 /\ n \in 0 .. (n + 1) - 1
      /\ n \notin 0 .. n - 1
  BY SenderConstants DEF Seqs
<1>1. /\ a \in Seq(Seqs) /\ m \in Nat /\ DOMAIN a = 1 .. m
      /\ \A i \in 1 .. m : a[i] = n - m + i - 1
  BY DEF QueueGood
<1>2. /\ d \in Seq(Seqs) /\ Len(d) = m + 1 /\ DOMAIN d = 1 .. m + 1
      /\ \A i \in 1 .. m : d[i] = a[i]
      /\ d[m + 1] = n
  BY <1>1
<1> HIDE DEF d, m
<1>3. \A i \in 1 .. m + 1 : d[i] = (n + 1) - (m + 1) + i - 1
  <2> SUFFICES ASSUME NEW i \in 1 .. m + 1 PROVE d[i] = (n + 1) - (m + 1) + i - 1
    OBVIOUS
  <2>1. CASE i \in 1 .. m
    <3>1. d[i] = n - m + i - 1
      BY <1>1, <1>2, <2>1
    <3> QED
      BY <1>0, <1>1, <3>1
  <2>2. CASE i = m + 1
    BY <1>0, <1>1, <1>2, <2>2
  <2> QED
    BY <1>1, <2>1, <2>2
<1>4. ToSet(d) = ToSet(a) \cup {n}
  <2>1. ASSUME NEW x \in ToSet(d) PROVE x \in ToSet(a) \cup {n}
    <3>1. PICK i \in 1 .. m + 1 : x = d[i]
      BY <1>2, <2>1 DEF ToSet
    <3>2. i \in 1 .. m \/ i = m + 1
      BY <1>1
    <3> QED
      BY <1>1, <1>2, <3>1, <3>2 DEF ToSet
  <2>2. ASSUME NEW x \in ToSet(a) PROVE x \in ToSet(d)
    <3>1. PICK i \in 1 .. m : x = a[i]
      BY <1>1, <2>2 DEF ToSet
    <3>2. i \in 1 .. m + 1
      BY <1>1
    <3> QED
      BY <1>2, <3>1, <3>2 DEF ToSet
  <2>3. n \in ToSet(d)
    <3>1. m + 1 \in 1 .. m + 1
      BY <1>1
    <3> QED
      BY <1>2, <3>1 DEF ToSet
  <2> QED
    BY <2>1, <2>2, <2>3
<1>5. n \notin g
  BY <1>0 DEF QueueGood
<1>6. /\ b \in Seq(Seqs) /\ Distinct(b) /\ ToSet(a) \cap ToSet(b) = {}
      /\ g \subseteq 0 .. n - 1 /\ g = ToSet(a) \cup ToSet(b)
  BY DEF QueueGood
<1>7. g \cup {n} \subseteq 0 .. (n + 1) - 1
  BY <1>0, <1>6
<1>8. ToSet(d) \cap ToSet(b) = {} /\ g \cup {n} = ToSet(d) \cup ToSet(b)
  BY <1>4, <1>5, <1>6
<1>9. \A i \in 1 .. Len(d) : d[i] = (n + 1) - Len(d) + i - 1
  BY <1>2, <1>3
<1>10. QueueGood(n + 1, g \cup {n}, d, b)
  BY <1>2, <1>6, <1>7, <1>8, <1>9 DEF QueueGood
<1> QED
  BY <1>5, <1>10 DEF d

\* A sink that has no live chunk: the take goes on without it.
LEMMA IdleGood ==
  ASSUME NEW n \in Nat, NEW g, NEW b, QueueGood(n, g, <<>>, b)
  PROVE  QueueGood(n + 1, g, <<>>, b)
<1>1. 0 .. n - 1 \subseteq 0 .. (n + 1) - 1 /\ 1 .. Len(<<>>) = {}
  OBVIOUS
<1> QED
  BY <1>1 DEF QueueGood

\* A disconnect demotes the live chunks.
LEMMA DemoteGood ==
  ASSUME NEW n \in Nat, NEW g, NEW a, NEW b, QueueGood(n, g, a, b)
  PROVE  QueueGood(n, g, <<>>, b \o Ascending(ToSet(a)))
<1> DEFINE S == ToSet(a)
           h == ToSet(b)
<1>0. /\ g \subseteq 0 .. n - 1 /\ g = S \cup h /\ S \cap h = {}
      /\ a \in Seq(Seqs) /\ b \in Seq(Seqs) /\ Distinct(b)
  BY DEF QueueGood
<1>1. /\ S \in SUBSET Seqs /\ S \subseteq 0 .. n - 1 /\ S \cap h = {} /\ g = h \cup S
      /\ h \subseteq 0 .. n - 1 /\ b \in Seq(Seqs) /\ Distinct(b)
  <2>1. \A i \in DOMAIN a : a[i] \in Seqs
    BY <1>0
  <2>2. S \in SUBSET Seqs
    BY <2>1 DEF ToSet
  <2> HIDE DEF S, h
  <2> QED
    BY <1>0, <2>2
<1>2. QueueGood(n, h, <<>>, b)
  <2>1. h = ToSet(<<>>) \cup h /\ ToSet(<<>>) \cap h = {} /\ <<>> \in Seq(Seqs)
    BY EmptyQueue
  <2>2. 1 .. Len(<<>>) = {}
    OBVIOUS
  <2> QED
    BY <1>1, <2>1, <2>2 DEF QueueGood
<1> HIDE DEF S, h
<1>3. QueueGood(n, h \cup S, <<>>, b \o Ascending(S))
  BY <1>1, <1>2, EnqueueGood
<1> QED
  BY <1>1, <1>3 DEF S

\* The first m chunks leave the queues.
LEMMA PopGood ==
  ASSUME NEW n \in Nat, NEW g, NEW a, NEW b, QueueGood(n, g, a, b),
         NEW m \in 0 .. Len(a \o b)
  PROVE  LET f == IF m <= Len(a) THEN m ELSE Len(a)
             q == a \o b
         IN  QueueGood(n, g \ {q[i] : i \in 1 .. m},
                       SubSeq(a, f + 1, Len(a)), SubSeq(b, m - f + 1, Len(b)))
<1> DEFINE f == IF m <= Len(a) THEN m ELSE Len(a)
           e == m - f
           q == a \o b
           x == SubSeq(a, f + 1, Len(a))
           y == SubSeq(b, e + 1, Len(b))
           A == {a[i] : i \in 1 .. f}
           B == {b[i] : i \in 1 .. e}
           G == {q[i] : i \in 1 .. m}
<1>1. /\ a \in Seq(Seqs) /\ b \in Seq(Seqs) /\ Distinct(b) /\ ToSet(a) \cap ToSet(b) = {}
      /\ g \subseteq 0 .. n - 1 /\ g = ToSet(a) \cup ToSet(b)
      /\ \A i \in 1 .. Len(a) : a[i] = n - Len(a) + i - 1
  BY DEF QueueGood
<1>2. Distinct(a)
  BY LiveDistinct
<1>3. /\ Len(q) = Len(a) + Len(b)
      /\ \A i \in 1 .. Len(a) + Len(b) : q[i] = IF i <= Len(a) THEN a[i] ELSE b[i - Len(a)]
  BY <1>1, ConcatProperties
<1>4. Len(a) \in Nat /\ Len(b) \in Nat /\ m \in Nat /\ m <= Len(a) + Len(b)
      /\ DOMAIN a = 1 .. Len(a) /\ DOMAIN b = 1 .. Len(b)
  BY <1>1, <1>3
<1>5. f \in 0 .. Len(a) /\ e \in 0 .. Len(b) /\ (e # 0 => f = Len(a)) /\ f + e = m
  BY <1>4
<1>6. x \in Seq(Seqs) /\ Len(x) = Len(a) - f /\ \A i \in 1 .. Len(a) - f : x[i] = a[f + i]
  <2> HIDE DEF f
  <2> QED
    BY <1>1, <1>5, DropIs
<1>7. y \in Seq(Seqs)
  <2> HIDE DEF e
  <2> QED
    BY <1>1, <1>5, DropIs
<1>8. ToSet(x) = ToSet(a) \ A
  <2> HIDE DEF f
  <2> QED
    BY <1>1, <1>2, <1>5, DistinctDrop
<1>9. Distinct(y) /\ ToSet(y) = ToSet(b) \ B
  <2> HIDE DEF e
  <2> QED
    BY <1>1, <1>5, DistinctDrop
<1> DEFINE la == Len(a)
           lb == Len(b)
<1>10. /\ la \in Nat /\ lb \in Nat /\ m \in Nat /\ f \in 0 .. la /\ e \in 0 .. lb
       /\ (e # 0 => f = la) /\ f + e = m
       /\ \A i \in 1 .. la + lb : q[i] = IF i <= la THEN a[i] ELSE b[i - la]
       /\ DOMAIN a = 1 .. la /\ DOMAIN b = 1 .. lb
       /\ (\A i \in 1 .. la : a[i] = n - la + i - 1)
       /\ Len(x) = la - f /\ \A i \in 1 .. la - f : x[i] = a[f + i]
  BY <1>1, <1>3, <1>4, <1>5, <1>6
<1> HIDE DEF f, e, q, x, y, la, lb
<1>11. G = A \cup B
  <2>1. ASSUME NEW i \in 1 .. m PROVE q[i] \in A \cup B
    <3>1. CASE i <= f
      <4>1. i \in 1 .. f /\ i \in 1 .. la + lb /\ i <= la
        BY <1>10, <3>1
      <4> QED
        BY <1>10, <4>1
    <3>2. CASE i > f
      <4>1. e # 0 /\ f = la
        BY <1>10, <3>2
      <4>2. i - la \in 1 .. e /\ i \in 1 .. la + lb /\ ~ (i <= la)
        BY <1>10, <3>2, <4>1
      <4>3. q[i] = b[i - la]
        BY <1>10, <4>2
      <4> QED
        BY <4>2, <4>3
    <3> QED
      BY <1>10, <3>1, <3>2
  <2>2. ASSUME NEW i \in 1 .. f PROVE a[i] \in G
    <3>1. i \in 1 .. m /\ i \in 1 .. la + lb /\ i <= la
      BY <1>10
    <3>2. q[i] = a[i]
      BY <1>10, <3>1
    <3> QED
      BY <3>1, <3>2
  <2>3. ASSUME NEW j \in 1 .. e PROVE b[j] \in G
    <3> DEFINE i == j + la
    <3>1. i \in 1 .. m /\ i \in 1 .. la + lb /\ ~ (i <= la) /\ i - la = j
      BY <1>10
    <3> HIDE DEF i
    <3>2. q[i] = b[j]
      BY <1>10, <3>1
    <3> QED
      BY <3>1, <3>2
  <2>4. G \subseteq A \cup B
    BY <2>1
  <2>5. A \subseteq G
    BY <2>2
  <2>6. B \subseteq G
    BY <2>3
  <2> QED
    BY <2>4, <2>5, <2>6
<1>12. A \subseteq ToSet(a) /\ B \subseteq ToSet(b)
  <2>1. ASSUME NEW i \in 1 .. f PROVE a[i] \in ToSet(a)
    <3>1. i \in DOMAIN a
      BY <1>10
    <3> QED
      BY <3>1 DEF ToSet
  <2>2. ASSUME NEW i \in 1 .. e PROVE b[i] \in ToSet(b)
    <3>1. i \in DOMAIN b
      BY <1>10
    <3> QED
      BY <3>1 DEF ToSet
  <2> QED
    BY <2>1, <2>2
<1> HIDE DEF A, B, G
<1>13. g \ G = ToSet(x) \cup ToSet(y) /\ ToSet(x) \cap ToSet(y) = {} /\ g \ G \subseteq 0 .. n - 1
  BY <1>1, <1>8, <1>9, <1>11, <1>12
<1>14. \A i \in 1 .. Len(x) : x[i] = n - Len(x) + i - 1
  <2> SUFFICES ASSUME NEW i \in 1 .. la - f PROVE x[i] = n - (la - f) + i - 1
    BY <1>10
  <2>1. f + i \in 1 .. la /\ n - la + (f + i) - 1 = n - (la - f) + i - 1
    BY <1>10
  <2>2. x[i] = a[f + i]
    BY <1>10
  <2>3. a[f + i] = n - la + (f + i) - 1
    BY <1>10, <2>1
  <2> QED
    BY <2>1, <2>2, <2>3
<1>15. QueueGood(n, g \ G, x, y)
  BY <1>6, <1>7, <1>9, <1>13, <1>14 DEF QueueGood
<1> QED
  BY <1>15 DEF G, q, x, y, e, f

-----------------------------------------------------------------------------
(***************************************************************************)
(* The inductive invariant of the sender engine.                           *)
(***************************************************************************)
SndTyped ==
  /\ state \in TakeState
  /\ nextSeq \in 0 .. MaxSeq + 1
  /\ state = "Idle" <=> nextSeq = 0
  /\ finalSeq \in -1 .. MaxSeq
  /\ sinks \subseteq Sink

SndFunctions ==
  /\ proven \in [Sink -> SUBSET Seqs]
  /\ queued \in [Sink -> SUBSET Seqs]
  /\ live \in [Sink -> Seq(Seqs)]
  /\ backfill \in [Sink -> Seq(Seqs)]
  /\ control \in [Sink -> Seq(SUBSET Seqs)]
  /\ unanswered \in [Sink -> SUBSET Seqs]

\* One sink: what is proven was produced, the queues are in order, the reports
\* are of gaps, a detached sink has no queue, and an attached one is owed, or was
\* sent, every resident chunk it is not proven to hold.
SinkGood(k) ==
  /\ proven[k] \subseteq 0 .. nextSeq - 1
  /\ QueueGood(nextSeq, queued[k], live[k], backfill[k])
  /\ control[k] \in Seq((SUBSET gaps) \ {{}})
  /\ k \notin sinks => live[k] = <<>> /\ backfill[k] = <<>>
  /\ k \in sinks => chunks \ proven[k] \subseteq queued[k] \cup unanswered[k]

SndInv ==
  /\ SndTyped
  /\ SndFunctions
  /\ Accounted
  /\ RingBounded
  /\ \A k \in Sink : SinkGood(k)

LEMMA SndSets ==
  ASSUME SndInv
  PROVE  /\ nextSeq \in Nat /\ 0 .. nextSeq - 1 \subseteq Seqs
         /\ chunks \subseteq 0 .. nextSeq - 1 /\ gaps \subseteq 0 .. nextSeq - 1
         /\ chunks \cap gaps = {}
<1>1. nextSeq \in Nat /\ 0 .. nextSeq - 1 \subseteq Seqs
  BY SenderConstants DEF SndInv, SndTyped, Seqs
<1> QED
  BY <1>1 DEF SndInv, Accounted, Produced

\* A report frame is added only when it has something new to say.
LEMMA ReportsStay ==
  ASSUME NEW G, NEW c \in Seq((SUBSET G) \ {{}}), NEW H \in SUBSET G, NEW R
  PROVE  c \o ReportFrames(H, R) \in Seq((SUBSET G) \ {{}})
<1> DEFINE T == (SUBSET G) \ {{}}
<1>1. ReportFrames(H, R) \in Seq(T)
  <2>1. CASE H \subseteq R
    <3>1. ReportFrames(H, R) = <<>>
      BY <2>1 DEF ReportFrames
    <3> QED
      BY <3>1
  <2>2. CASE ~ (H \subseteq R)
    <3> DEFINE e == H \ R
    <3>1. e \in T
      <4>1. e \subseteq G /\ e # {}
        BY <2>2
      <4> HIDE DEF e
      <4> QED
        BY <4>1
    <3>2. ReportFrames(H, R) = <<e>>
      BY <2>2 DEF ReportFrames
    <3> HIDE DEF T, e
    <3> QED
      BY <3>1, <3>2
  <2> QED
    BY <2>1, <2>2
<1> HIDE DEF T
<1>2. c \in Seq(T)
  BY DEF T
<1> QED
  BY <1>1, <1>2, ConcatProperties DEF T

\* pop_frame discards up to the first chunk it can send, or everything.
LEMMA SkippedSpec ==
  ASSUME NEW k \in Sink, NEW q \in Seq(Seqs)
  PROVE  /\ Skipped(k, q) \in 0 .. Len(q)
         /\ \A i \in 1 .. Skipped(k, q) : ~ Sendable(k, q[i])
         /\ Skipped(k, q) < Len(q) => Sendable(k, q[Skipped(k, q) + 1])
<1> DEFINE l == Len(q)
           T == {m \in 0 .. l : m < l => Sendable(k, q[m + 1])}
<1>1. l \in Nat
  OBVIOUS
<1> HIDE DEF l
<1>2. T \in SUBSET Nat /\ l \in T
  BY <1>1
<1>3. PICK m \in T : \A n \in T : m <= n
  <2> HIDE DEF T
  <2> QED
    BY <1>2, LeastOf
<1>4. m \in 0 .. l /\ (m < l => Sendable(k, q[m + 1]))
  OBVIOUS
<1>5. ASSUME NEW i \in 1 .. m PROVE ~ Sendable(k, q[i])
  <2>1. i - 1 \in 0 .. l /\ i - 1 < m /\ i - 1 < l /\ (i - 1) + 1 = i
    BY <1>1, <1>4
  <2>2. i - 1 \notin T
    <3>1. i - 1 \in T => m <= i - 1
      BY <1>3
    <3> HIDE DEF T
    <3> QED
      BY <1>1, <1>4, <2>1, <3>1
  <2> QED
    BY <2>1, <2>2
<1>6. \E n \in 0 .. l : /\ \A i \in 1 .. n : ~ Sendable(k, q[i])
                        /\ n < l => Sendable(k, q[n + 1])
  BY <1>4, <1>5
<1>7. Skipped(k, q) = CHOOSE n \in 0 .. l : /\ \A i \in 1 .. n : ~ Sendable(k, q[i])
                                            /\ n < l => Sendable(k, q[n + 1])
  BY DEF Skipped, l
<1> HIDE DEF T
<1>8. /\ Skipped(k, q) \in 0 .. l
      /\ \A i \in 1 .. Skipped(k, q) : ~ Sendable(k, q[i])
      /\ Skipped(k, q) < l => Sendable(k, q[Skipped(k, q) + 1])
  BY <1>6, <1>7
<1> QED
  BY <1>8 DEF l

\* What a step leaves alone stays good.
LEMMA SinkFrame ==
  ASSUME NEW j \in Sink, SinkGood(j), UNCHANGED <<nextSeq, chunks, gaps>>,
         proven'[j] = proven[j], queued'[j] = queued[j], live'[j] = live[j],
         backfill'[j] = backfill[j], control'[j] = control[j],
         unanswered'[j] = unanswered[j], j \in sinks' <=> j \in sinks
  PROVE  SinkGood(j)'
BY DEF SinkGood

LEMMA SndStarts == OpenInit => SndInv
<1> SUFFICES ASSUME OpenInit PROVE SndInv
  OBVIOUS
<1>1. SndTyped
  BY SenderConstants DEF OpenInit, SenderInit, SndTyped, TakeState, NoSeq
<1>2. SndFunctions
  <2>1. <<>> \in Seq(Seqs) /\ <<>> \in Seq(SUBSET Seqs) /\ {} \in SUBSET Seqs
    OBVIOUS
  <2> QED
    BY <2>1 DEF OpenInit, SenderInit, SndFunctions
<1>3. Accounted /\ RingBounded
  BY DEF OpenInit, SenderInit, Accounted, RingBounded, Produced
<1>4. \A k \in Sink : SinkGood(k)
  <2> SUFFICES ASSUME NEW k \in Sink PROVE SinkGood(k)
    OBVIOUS
  <2>1. /\ nextSeq = 0 /\ chunks = {} /\ proven[k] = {} /\ queued[k] = {}
        /\ live[k] = <<>> /\ backfill[k] = <<>> /\ control[k] = <<>>
    BY DEF OpenInit, SenderInit
  <2>2. QueueGood(nextSeq, queued[k], live[k], backfill[k])
    BY <2>1, EmptyQueue
  <2>3. <<>> \in Seq((SUBSET gaps) \ {{}})
    OBVIOUS
  <2> QED
    BY <2>1, <2>2, <2>3 DEF SinkGood
<1> QED
  BY <1>1, <1>2, <1>3, <1>4 DEF SndInv

\* A chunk is produced: numbered, put in the ring and queued for every sink.
LEMMA SndProduces ==
  ASSUME SndInv, Produce, UNCHANGED unanswered, 0 \in chunks \cup {nextSeq}
  PROVE  /\ nextSeq' \in 1 .. MaxSeq + 1
         /\ finalSeq' \in -1 .. MaxSeq /\ sinks' \subseteq Sink
         /\ SndFunctions' /\ Accounted' /\ RingBounded' /\ \A k \in Sink : SinkGood(k)'
<1> DEFINE seq == nextSeq
           A == AckedVictims(seq)
           U == UnackedVictims(seq)
<1>1. /\ seq \in Nat /\ seq \in Seqs /\ nextSeq' = seq + 1 /\ nextSeq' \in 1 .. MaxSeq + 1
      /\ chunks \subseteq 0 .. seq - 1 /\ gaps \subseteq 0 .. seq - 1 /\ chunks \cap gaps = {}
  BY SndSets, SenderConstants DEF Produce, Seqs
<1>2. /\ RingInsert(seq)
      /\ \A k \in Sink : /\ queued'[k] = IF k \in sinks /\ seq \notin queued[k]
                                           THEN queued[k] \cup {seq} ELSE queued[k]
                         /\ live'[k] = IF k \in sinks /\ seq \notin queued[k]
                                         THEN Append(live[k], seq) ELSE live[k]
                         /\ control'[k] = IF k \in sinks
                                            THEN control[k] \o ReportFrames(U, gapsReported[k])
                                            ELSE control[k]
      /\ UNCHANGED <<finalSeq, sinks, connected, proven, backfill>>
  BY DEF Produce
<1>3. DOMAIN queued' = Sink /\ DOMAIN live' = Sink /\ DOMAIN control' = Sink
      /\ queued' = [k \in Sink |-> queued'[k]] /\ live' = [k \in Sink |-> live'[k]]
      /\ control' = [k \in Sink |-> control'[k]]
  BY DEF Produce
<1>4. /\ chunks' = (chunks \cup {seq}) \ (A \cup U)
      /\ gaps' = gaps \cup U /\ evictedAcked' = evictedAcked \cup A
  BY <1>2 DEF RingInsert
<1>5. /\ {0, seq} \subseteq chunks'
      /\ Bytes(chunks') <= Budget \/ chunks' = {0, seq}
      /\ A \subseteq chunks /\ U \subseteq chunks \ A
  <2>1. chunks \in SUBSET Seqs /\ 0 \in chunks \cup {seq}
    BY SndSets
  <2> HIDE DEF seq
  <2> QED
    BY <1>1, <1>2, <2>1, InsertedBounded DEF A, U
<1>6. SndFunctions /\ Accounted /\ \A k \in Sink : SinkGood(k)
  BY DEF SndInv
<1>7. sinks \subseteq Sink /\ finalSeq \in -1 .. MaxSeq
  BY DEF SndInv, SndTyped
<1> HIDE DEF A, U
<1>8. nextSeq' - 1 = seq /\ 0 .. nextSeq' - 1 = (0 .. seq - 1) \cup {seq} /\ seq \notin 0 .. seq - 1
  BY <1>1
<1>9. Accounted'
  <2>1. /\ 0 .. seq - 1 = chunks \cup gaps \cup evictedAcked
        /\ chunks \cap gaps = {} /\ chunks \cap evictedAcked = {} /\ gaps \cap evictedAcked = {}
    BY <1>6 DEF Accounted, Produced
  <2>2. Produced' = (0 .. seq - 1) \cup {seq}
    BY <1>8 DEF Produced
  <2> DEFINE P == 0 .. seq - 1
  <2>3. seq \notin P /\ P = chunks \cup gaps \cup evictedAcked /\ Produced' = P \cup {seq}
    BY <1>8, <2>1, <2>2
  <2> HIDE DEF P, seq
  <2>4. Produced' = chunks' \cup gaps' \cup evictedAcked'
    BY <1>4, <1>5, <2>3
  <2>5. chunks' \cap gaps' = {} /\ chunks' \cap evictedAcked' = {}
    BY <1>4, <1>5, <2>1, <2>3
  <2>6. gaps' \cap evictedAcked' = {}
    BY <1>4, <1>5, <2>1
  <2> QED
    BY <2>4, <2>5, <2>6 DEF Accounted
<1>10. RingBounded'
  BY <1>5, <1>8 DEF RingBounded
<1>11. ASSUME NEW k \in Sink PROVE SinkGood(k)'
  <2>1. /\ proven[k] \subseteq 0 .. seq - 1
        /\ QueueGood(seq, queued[k], live[k], backfill[k])
        /\ control[k] \in Seq((SUBSET gaps) \ {{}})
        /\ k \notin sinks => live[k] = <<>> /\ backfill[k] = <<>>
        /\ k \in sinks => chunks \ proven[k] \subseteq queued[k] \cup unanswered[k]
    BY <1>6 DEF SinkGood
  <2>2. proven'[k] = proven[k] /\ backfill'[k] = backfill[k] /\ unanswered'[k] = unanswered[k]
        /\ (k \in sinks' <=> k \in sinks)
    BY <1>2
  <2>3. seq \notin queued[k]
        /\ QueueGood(seq + 1, queued[k] \cup {seq}, Append(live[k], seq), backfill[k])
    <3> HIDE DEF seq
    <3> QED
      BY <1>1, <2>1, LiveGood
  <2>4. QueueGood(nextSeq', queued'[k], live'[k], backfill'[k])
    <3>1. CASE k \in sinks
      BY <1>1, <1>2, <2>2, <2>3, <3>1
    <3>2. CASE k \notin sinks
      <4>1. QueueGood(seq + 1, queued[k], <<>>, backfill[k])
        <5> HIDE DEF seq
        <5> QED
          BY <1>1, <2>1, <3>2, IdleGood
      <4> QED
        BY <1>1, <1>2, <2>1, <2>2, <3>2, <4>1
    <3> QED
      BY <3>1, <3>2
  <2>5. control'[k] \in Seq((SUBSET gaps') \ {{}})
    <3> DEFINE T == (SUBSET gaps) \ {{}}
               R == (SUBSET gaps') \ {{}}
    <3>1. T \subseteq R /\ U \in SUBSET gaps'
      BY <1>4
    <3>2. control[k] \in Seq(R)
      <4>1. control[k] \in Seq(T)
        BY <2>1
      <4> HIDE DEF T, R
      <4> QED
        BY <3>1, <4>1, SeqOfMore
    <3>3. control[k] \o ReportFrames(U, gapsReported[k]) \in Seq(R)
      BY <3>1, <3>2, ReportsStay
    <3> HIDE DEF R
    <3>4. control'[k] \in Seq(R)
      BY <1>2, <3>2, <3>3
    <3> QED
      BY <3>4 DEF R
  <2>6. proven'[k] \subseteq 0 .. nextSeq' - 1
    BY <1>8, <2>1, <2>2
  <2>7. k \notin sinks' => live'[k] = <<>> /\ backfill'[k] = <<>>
    BY <1>2, <2>1, <2>2
  <2>8. k \in sinks' => chunks' \ proven'[k] \subseteq queued'[k] \cup unanswered'[k]
    <3> HIDE DEF seq
    <3> QED
      BY <1>2, <1>4, <2>1, <2>2, <2>3
  <2> QED
    BY <2>4, <2>5, <2>6, <2>7, <2>8 DEF SinkGood
<1>12. SndFunctions'
  <2>1. \A k \in Sink : queued'[k] \in SUBSET Seqs /\ live'[k] \in Seq(Seqs)
    <3> SUFFICES ASSUME NEW k \in Sink PROVE queued'[k] \in SUBSET Seqs /\ live'[k] \in Seq(Seqs)
      OBVIOUS
    <3>1. queued[k] \in SUBSET Seqs /\ live[k] \in Seq(Seqs) /\ Append(live[k], seq) \in Seq(Seqs)
      BY <1>1, <1>6 DEF SndFunctions
    <3>2. queued[k] \cup {seq} \in SUBSET Seqs
      BY <1>1, <3>1
    <3> QED
      BY <1>2, <3>1, <3>2
  <2>2. \A k \in Sink : control'[k] \in Seq(SUBSET Seqs)
    <3> SUFFICES ASSUME NEW k \in Sink PROVE control'[k] \in Seq(SUBSET Seqs)
      OBVIOUS
    <3> DEFINE R == (SUBSET gaps') \ {{}}
    <3>1. control'[k] \in Seq(R)
      BY <1>11 DEF SinkGood
    <3>2. R \subseteq SUBSET Seqs
      <4>1. gaps' \subseteq Seqs
        BY SndSets, <1>4, <1>5
      <4> QED
        BY <4>1
    <3> HIDE DEF R
    <3> QED
      BY <3>1, <3>2, SeqOfMore
  <2>3. queued' \in [Sink -> SUBSET Seqs] /\ live' \in [Sink -> Seq(Seqs)]
        /\ control' \in [Sink -> Seq(SUBSET Seqs)]
    BY <1>3, <2>1, <2>2
  <2>4. proven' \in [Sink -> SUBSET Seqs] /\ backfill' \in [Sink -> Seq(Seqs)]
        /\ unanswered' \in [Sink -> SUBSET Seqs]
    BY <1>2, <1>6 DEF SndFunctions
  <2> QED
    BY <2>3, <2>4 DEF SndFunctions
<1> QED
  BY <1>1, <1>2, <1>7, <1>9, <1>10, <1>11, <1>12

LEMMA SndRecords ==
  ASSUME SndInv, Recording
  PROVE  SndInv'
<1>1. SndTyped /\ SndFunctions /\ Accounted /\ RingBounded /\ \A k \in Sink : SinkGood(k)
  BY DEF SndInv
<1>2. CASE Arm
  <2>1. Produce /\ UNCHANGED unanswered /\ state' = "Streaming" /\ nextSeq = 0
    BY <1>1, <1>2 DEF Arm, Recording, SndTyped
  <2>2. /\ nextSeq' \in 1 .. MaxSeq + 1
        /\ finalSeq' \in -1 .. MaxSeq /\ sinks' \subseteq Sink
        /\ SndFunctions' /\ Accounted' /\ RingBounded' /\ \A k \in Sink : SinkGood(k)'
    BY <2>1, SndProduces
  <2>3. SndTyped'
    BY <2>1, <2>2, SenderConstants DEF SndTyped, TakeState
  <2> QED
    BY <2>2, <2>3 DEF SndInv
<1>3. CASE PushAudio
  <2>1. Produce /\ UNCHANGED unanswered /\ state' = "Streaming" /\ nextSeq > 0
    BY <1>1, <1>3 DEF PushAudio, Recording, SndTyped
  <2>2. 0 \in chunks
    BY <1>1, <2>1 DEF RingBounded
  <2>3. /\ nextSeq' \in 1 .. MaxSeq + 1
        /\ finalSeq' \in -1 .. MaxSeq /\ sinks' \subseteq Sink
        /\ SndFunctions' /\ Accounted' /\ RingBounded' /\ \A k \in Sink : SinkGood(k)'
    BY <2>1, <2>2, SndProduces
  <2>4. SndTyped'
    BY <2>1, <2>3, SenderConstants DEF SndTyped, TakeState
  <2> QED
    BY <2>3, <2>4 DEF SndInv
<1>4. CASE Finish
  <2>1. /\ state = "Streaming" /\ finalSeq' = nextSeq - 1 /\ state' \in {"Draining", "Closed"}
        /\ UNCHANGED <<nextSeq, ringVars, sinks, proven, queueVars, control, unanswered>>
    BY <1>4 DEF Finish, Recording, TryClose, reportVars
  <2>2. SndTyped'
    BY <1>1, <2>1, SenderConstants DEF SndTyped, TakeState
  <2>3. SndFunctions'
    BY <1>1, <2>1 DEF SndFunctions, queueVars
  <2>4. Accounted' /\ RingBounded'
    BY <1>1, <2>1 DEF Accounted, RingBounded, ringVars, Produced
  <2>5. \A k \in Sink : SinkGood(k)'
    BY <1>1, <2>1 DEF SinkGood, ringVars, queueVars
  <2> QED
    BY <2>2, <2>3, <2>4, <2>5 DEF SndInv
<1> QED
  BY <1>2, <1>3, <1>4 DEF Recording

\* A step of one sink: the ring and the other sinks are as they were.
LEMMA OneSink ==
  ASSUME SndInv, NEW k \in Sink,
         UNCHANGED <<nextSeq, finalSeq, chunks, gaps, evictedAcked>>,
         state' \in TakeState, state' = "Idle" <=> state = "Idle",
         sinks' \subseteq Sink, sinks' \ {k} = sinks \ {k}, SndFunctions',
         \A j \in Sink \ {k} :
            /\ proven'[j] = proven[j] /\ queued'[j] = queued[j] /\ live'[j] = live[j]
            /\ backfill'[j] = backfill[j] /\ control'[j] = control[j]
            /\ unanswered'[j] = unanswered[j],
         SinkGood(k)'
  PROVE  SndInv'
<1>1. SndTyped'
  BY DEF SndInv, SndTyped
<1>2. Accounted' /\ RingBounded'
  BY DEF SndInv, Accounted, RingBounded, Produced
<1>3. ASSUME NEW j \in Sink \ {k} PROVE SinkGood(j)'
  <2>1. j \in sinks' <=> j \in sinks
    OBVIOUS
  <2>2. SinkGood(j)
    BY DEF SndInv
  <2> QED
    BY <2>1, <2>2, SinkFrame
<1> QED
  BY <1>1, <1>2, <1>3 DEF SndInv

LEMMA SndJoins ==
  ASSUME SndInv, NEW k \in Sink, AddSink(k), UNCHANGED unanswered
  PROVE  SndInv'
<1>1. SndFunctions /\ SinkGood(k) /\ chunks \in SUBSET Seqs /\ sinks \subseteq Sink
      /\ state \in TakeState /\ nextSeq \in Nat /\ chunks \subseteq 0 .. nextSeq - 1
  BY SndSets DEF SndInv, SndTyped
<1>2. /\ k \notin sinks /\ sinks' = sinks \cup {k}
      /\ queued' = [queued EXCEPT ![k] = @ \cup chunks]
      /\ backfill' = [backfill EXCEPT ![k] = @ \o Ascending(chunks)]
      /\ UNCHANGED <<state, nextSeq, finalSeq, chunks, gaps, evictedAcked, live, proven,
                     control, unanswered>>
  BY DEF AddSink, EnqueueBackfill, takeVars, ringVars, reportVars
<1>3. live[k] = <<>> /\ backfill[k] = <<>> /\ QueueGood(nextSeq, queued[k], live[k], backfill[k])
  BY <1>1, <1>2 DEF SinkGood
<1>4. queued[k] = {}
  BY <1>3, EmptyQueue DEF QueueGood
<1>5. QueueGood(nextSeq, queued[k] \cup chunks, live[k], backfill[k] \o Ascending(chunks))
  BY <1>1, <1>3, <1>4, EnqueueGood
<1>6. queued'[k] = queued[k] \cup chunks /\ backfill'[k] = backfill[k] \o Ascending(chunks)
  BY <1>1, <1>2 DEF SndFunctions
<1>7. SinkGood(k)'
  <2>1. QueueGood(nextSeq, queued[k], live[k], backfill[k])'
    BY <1>2, <1>5, <1>6
  <2>2. chunks' \ proven'[k] \subseteq queued'[k]
    BY <1>2, <1>6
  <2>3. k \in sinks'
    BY <1>2
  <2>4. proven'[k] \subseteq 0 .. nextSeq' - 1 /\ control'[k] \in Seq((SUBSET gaps') \ {{}})
    BY <1>1, <1>2 DEF SinkGood
  <2> QED
    BY <2>1, <2>2, <2>3, <2>4 DEF SinkGood
<1>8. SndFunctions'
  <2> DEFINE q == backfill[k] \o Ascending(chunks)
             g == queued[k] \cup chunks
  <2>1. q \in Seq(Seqs) /\ g \in SUBSET Seqs
    BY <1>1, <1>5 DEF QueueGood, SndFunctions
  <2>2. queued' = [queued EXCEPT ![k] = g] /\ backfill' = [backfill EXCEPT ![k] = q]
    BY <1>2
  <2> HIDE DEF q, g
  <2> QED
    BY <1>1, <1>2, <2>1, <2>2 DEF SndFunctions
<1>9. \A j \in Sink \ {k} : queued'[j] = queued[j] /\ backfill'[j] = backfill[j]
  BY <1>1, <1>2 DEF SndFunctions
<1> QED
  BY <1>1, <1>2, <1>7, <1>8, <1>9, OneSink

LEMMA SndLeaves ==
  ASSUME SndInv, NEW k \in Sink, RemoveSink(k), unanswered' = [unanswered EXCEPT ![k] = {}]
  PROVE  SndInv'
<1>1. SndFunctions /\ sinks \subseteq Sink /\ state \in TakeState /\ nextSeq \in Nat
  BY SndSets DEF SndInv, SndTyped
<1>2. /\ sinks' = sinks \ {k}
      /\ proven' = [proven EXCEPT ![k] = {}] /\ queued' = [queued EXCEPT ![k] = {}]
      /\ live' = [live EXCEPT ![k] = <<>>] /\ backfill' = [backfill EXCEPT ![k] = <<>>]
      /\ control' = [control EXCEPT ![k] = <<>>]
      /\ UNCHANGED <<state, nextSeq, finalSeq, chunks, gaps, evictedAcked>>
  BY DEF RemoveSink, takeVars, ringVars
<1>3. /\ proven'[k] = {} /\ queued'[k] = {} /\ live'[k] = <<>> /\ backfill'[k] = <<>>
      /\ control'[k] = <<>>
  BY <1>1, <1>2 DEF SndFunctions
<1>4. SinkGood(k)'
  <2>1. QueueGood(nextSeq', queued'[k], live'[k], backfill'[k])
    BY <1>1, <1>2, <1>3, EmptyQueue
  <2>2. <<>> \in Seq((SUBSET gaps') \ {{}})
    OBVIOUS
  <2> QED
    BY <1>2, <1>3, <2>1, <2>2 DEF SinkGood
<1>5. SndFunctions'
  <2>1. <<>> \in Seq(Seqs) /\ <<>> \in Seq(SUBSET Seqs) /\ {} \in SUBSET Seqs
    OBVIOUS
  <2> QED
    BY <1>1, <1>2, <2>1 DEF SndFunctions
<1>6. \A j \in Sink \ {k} :
        /\ proven'[j] = proven[j] /\ queued'[j] = queued[j] /\ live'[j] = live[j]
        /\ backfill'[j] = backfill[j] /\ control'[j] = control[j]
        /\ unanswered'[j] = unanswered[j]
  BY <1>1, <1>2 DEF SndFunctions
<1> QED
  BY <1>1, <1>2, <1>4, <1>5, <1>6, OneSink

LEMMA SndDisconnects ==
  ASSUME SndInv, NEW k \in Sink, SetDisconnected(k), UNCHANGED unanswered
  PROVE  SndInv'
<1>1. SndFunctions /\ SinkGood(k) /\ sinks \subseteq Sink /\ state \in TakeState /\ nextSeq \in Nat
  BY SndSets DEF SndInv, SndTyped
<1> DEFINE q == backfill[k] \o Ascending(ToSet(live[k]))
<1>2. /\ live' = [live EXCEPT ![k] = <<>>] /\ backfill' = [backfill EXCEPT ![k] = q]
      /\ UNCHANGED <<state, nextSeq, finalSeq, chunks, gaps, evictedAcked, sinks, proven,
                     queued, control, unanswered>>
  BY DEF SetDisconnected, takeVars, ringVars, reportVars
<1>3. QueueGood(nextSeq, queued[k], <<>>, q)
  BY <1>1, DemoteGood DEF SinkGood
<1> HIDE DEF q
<1>4. live'[k] = <<>> /\ backfill'[k] = q
  BY <1>1, <1>2 DEF SndFunctions
<1>5. SinkGood(k)'
  <2>1. k \in sinks'
    BY <1>2 DEF SetDisconnected
  <2>2. QueueGood(nextSeq', queued'[k], live'[k], backfill'[k])
    BY <1>2, <1>3, <1>4
  <2> QED
    BY <1>1, <1>2, <2>1, <2>2 DEF SinkGood
<1>6. SndFunctions'
  <2>1. q \in Seq(Seqs) /\ <<>> \in Seq(Seqs)
    BY <1>3 DEF QueueGood
  <2> QED
    BY <1>1, <1>2, <2>1 DEF SndFunctions
<1>7. \A j \in Sink \ {k} : live'[j] = live[j] /\ backfill'[j] = backfill[j]
  BY <1>1, <1>2 DEF SndFunctions
<1> QED
  BY <1>1, <1>2, <1>5, <1>6, <1>7, OneSink

LEMMA SndMembership ==
  ASSUME SndInv, NEW k \in Sink, Membership(k)
  PROVE  SndInv'
<1>1. CASE AddSink(k) /\ UNCHANGED unanswered
  BY <1>1, SndJoins
<1>2. CASE RemoveSink(k) /\ unanswered' = [unanswered EXCEPT ![k] = {}]
  BY <1>2, SndLeaves
<1>3. CASE SetConnected(k) /\ UNCHANGED unanswered
  <2>1. UNCHANGED <<state, nextSeq, finalSeq, chunks, gaps, evictedAcked, sinks, proven,
                    queued, live, backfill, control, unanswered>>
    BY <1>3 DEF SetConnected, takeVars, ringVars, queueVars, reportVars
  <2>2. SndTyped' /\ SndFunctions' /\ Accounted' /\ RingBounded'
    BY <2>1 DEF SndInv, SndTyped, SndFunctions, Accounted, RingBounded, Produced
  <2>3. \A j \in Sink : SinkGood(j)'
    BY <2>1 DEF SndInv, SinkGood
  <2> QED
    BY <2>2, <2>3 DEF SndInv
<1>4. CASE SetDisconnected(k) /\ UNCHANGED unanswered
  BY <1>4, SndDisconnects
<1> QED
  BY <1>1, <1>2, <1>3, <1>4 DEF Membership

\* A snapshot a sink could send proves only what was produced.
LEMMA PossibleHeld ==
  ASSUME SndInv, NEW ack \in PossibleAcks
  PROVE  ProvenHeld(ack) \subseteq 0 .. nextSeq - 1
<1>1. PICK h \in SUBSET Produced, g \in SUBSET gaps, f \in {NoSeq, finalSeq} :
        ack = AckStatus(h, g, f)
  BY DEF PossibleAcks
<1>2. /\ h \subseteq 0 .. nextSeq - 1 /\ g \subseteq 0 .. nextSeq - 1
      /\ 0 .. nextSeq - 1 \subseteq Seqs
  BY SndSets DEF Produced
<1>3. h \in SUBSET (0 .. MaxSeq) /\ g \in SUBSET (0 .. MaxSeq) /\ MaxSeq \in Nat
  BY <1>2, SenderConstants DEF Seqs
<1>4. f \in -1 .. MaxSeq
  BY SenderConstants DEF SndInv, SndTyped, NoSeq
<1>5. ProvenHeld(AckStatus(h, g, f)) \subseteq h \cup g
  BY <1>3, <1>4, SnapshotIsHonest
<1> QED
  BY <1>1, <1>2, <1>5

LEMMA SndAcked ==
  ASSUME SndInv, NEW k \in Sink, NEW ack \in PossibleAcks, HandleAck(k, ack),
         unanswered' = [unanswered EXCEPT ![k] = {}]
  PROVE  SndInv'
<1> DEFINE sure == ProvenHeld(ack)
           S == (((Produced \ sure) \ gaps) \cap chunks) \ queued[k]
           gapped == ack.holes \cap gaps
           q == backfill[k] \o Ascending(S)
           g == queued[k] \cup S
           c == control[k] \o ReportFrames(gapped, {})
<1>1. /\ SndFunctions /\ SinkGood(k) /\ sinks \subseteq Sink /\ state \in TakeState
      /\ nextSeq \in Nat /\ chunks \subseteq 0 .. nextSeq - 1 /\ chunks \cap gaps = {}
      /\ chunks \in SUBSET Seqs /\ gaps \subseteq Seqs /\ sure \subseteq 0 .. nextSeq - 1
      /\ sure \subseteq Seqs
  BY SndSets, PossibleHeld DEF SndInv, SndTyped
<1>2. /\ k \in sinks /\ proven' = [proven EXCEPT ![k] = sure]
      /\ queued' = [queued EXCEPT ![k] = g] /\ backfill' = [backfill EXCEPT ![k] = q]
      /\ control' = [control EXCEPT ![k] = c]
      /\ state' = TryClose(state, [proven EXCEPT ![k] = sure], finalSeq)
      /\ UNCHANGED <<nextSeq, finalSeq, chunks, gaps, evictedAcked, sinks, live>>
  BY DEF HandleAck, EnqueueBackfill
<1>3. QueueGood(nextSeq, g, live[k], q)
  <2>1. S \in SUBSET Seqs /\ S \subseteq 0 .. nextSeq - 1 /\ S \cap queued[k] = {}
    BY <1>1
  <2>2. QueueGood(nextSeq, queued[k], live[k], backfill[k])
    BY <1>1 DEF SinkGood
  <2> HIDE DEF S
  <2> QED
    BY <1>1, <2>1, <2>2, EnqueueGood
<1>4. c \in Seq((SUBSET gaps) \ {{}})
  <2> HIDE DEF gapped
  <2>1. gapped \in SUBSET gaps
    BY DEF gapped
  <2> QED
    BY <1>1, <2>1, ReportsStay DEF SinkGood
<1>5. chunks \ sure \subseteq g
  BY <1>1 DEF Produced
<1>6. state' \in TakeState /\ (state' = "Idle" <=> state = "Idle")
  <2> DEFINE st == TryClose(state, [proven EXCEPT ![k] = sure], finalSeq)
  <2>1. st = state \/ (state = "Draining" /\ st = "Closed")
    BY DEF TryClose
  <2> HIDE DEF st
  <2>2. state' = st
    BY <1>2 DEF st
  <2> QED
    BY <1>1, <2>1, <2>2 DEF TakeState
<1>7. c \in Seq(SUBSET Seqs)
  <2> DEFINE R == (SUBSET gaps) \ {{}}
  <2>1. R \subseteq SUBSET Seqs
    BY <1>1
  <2>2. c \in Seq(R)
    BY <1>4
  <2> HIDE DEF R, c
  <2> QED
    BY <2>1, <2>2, SeqOfMore
<1>8. q \in Seq(Seqs) /\ g \in SUBSET Seqs /\ sure \in SUBSET Seqs
  <2>1. q \in Seq(Seqs)
    BY <1>3 DEF QueueGood
  <2>2. queued[k] \subseteq Seqs /\ S \subseteq Seqs
    BY <1>1 DEF SndFunctions
  <2> QED
    BY <1>1, <2>1, <2>2
<1> HIDE DEF sure, S, gapped, q, g, c
<1>9. /\ proven'[k] = sure /\ queued'[k] = g /\ backfill'[k] = q /\ control'[k] = c
  BY <1>1, <1>2 DEF SndFunctions
<1>10. SinkGood(k)'
  <2>1. QueueGood(nextSeq', queued'[k], live'[k], backfill'[k])
    BY <1>2, <1>3, <1>9
  <2>2. proven'[k] \subseteq 0 .. nextSeq' - 1 /\ control'[k] \in Seq((SUBSET gaps') \ {{}})
    BY <1>1, <1>2, <1>4, <1>9
  <2>3. chunks' \ proven'[k] \subseteq queued'[k] /\ k \in sinks'
    BY <1>2, <1>5, <1>9
  <2> QED
    BY <2>1, <2>2, <2>3 DEF SinkGood
<1>11. SndFunctions'
  <2>1. {} \in SUBSET Seqs
    OBVIOUS
  <2> QED
    BY <1>1, <1>2, <1>7, <1>8, <2>1 DEF SndFunctions
<1>12. \A j \in Sink \ {k} :
         /\ proven'[j] = proven[j] /\ queued'[j] = queued[j] /\ live'[j] = live[j]
         /\ backfill'[j] = backfill[j] /\ control'[j] = control[j]
         /\ unanswered'[j] = unanswered[j]
  BY <1>1, <1>2 DEF SndFunctions
<1> QED
  BY <1>1, <1>2, <1>6, <1>10, <1>11, <1>12, OneSink

LEMMA SndAsked ==
  ASSUME SndInv, NEW k \in Sink, NEW wanted \in SUBSET (0 .. MaxSeq),
         HandleBackfillRequest(k, wanted), UNCHANGED unanswered
  PROVE  SndInv'
<1> DEFINE S == (wanted \cap chunks) \ queued[k]
           gapped == wanted \cap gaps
           q == backfill[k] \o Ascending(S)
           g == queued[k] \cup S
           c == control[k] \o ReportFrames(gapped, gapsReported[k])
<1>1. /\ SndFunctions /\ SinkGood(k) /\ sinks \subseteq Sink /\ state \in TakeState
      /\ nextSeq \in Nat /\ chunks \subseteq 0 .. nextSeq - 1
      /\ chunks \in SUBSET Seqs /\ gaps \subseteq Seqs
  BY SndSets DEF SndInv, SndTyped
<1>2. /\ k \in sinks
      /\ queued' = [queued EXCEPT ![k] = g] /\ backfill' = [backfill EXCEPT ![k] = q]
      /\ control' = [control EXCEPT ![k] = c]
      /\ UNCHANGED <<state, nextSeq, finalSeq, chunks, gaps, evictedAcked, sinks, live, proven>>
  BY DEF HandleBackfillRequest, EnqueueBackfill, takeVars, ringVars
<1>3. QueueGood(nextSeq, g, live[k], q)
  <2>1. S \in SUBSET Seqs /\ S \subseteq 0 .. nextSeq - 1 /\ S \cap queued[k] = {}
    BY <1>1
  <2>2. QueueGood(nextSeq, queued[k], live[k], backfill[k])
    BY <1>1 DEF SinkGood
  <2> HIDE DEF S
  <2> QED
    BY <1>1, <2>1, <2>2, EnqueueGood
<1>4. c \in Seq((SUBSET gaps) \ {{}})
  <2> HIDE DEF gapped
  <2>1. gapped \in SUBSET gaps
    BY DEF gapped
  <2> QED
    BY <1>1, <2>1, ReportsStay DEF SinkGood
<1>5. chunks \ proven[k] \subseteq g \cup unanswered[k]
  BY <1>1, <1>2 DEF SinkGood
<1>6. c \in Seq(SUBSET Seqs)
  <2> DEFINE R == (SUBSET gaps) \ {{}}
  <2>1. R \subseteq SUBSET Seqs
    BY <1>1
  <2>2. c \in Seq(R)
    BY <1>4
  <2> HIDE DEF R, c
  <2> QED
    BY <2>1, <2>2, SeqOfMore
<1>7. q \in Seq(Seqs) /\ g \in SUBSET Seqs
  <2>1. q \in Seq(Seqs)
    BY <1>3 DEF QueueGood
  <2>2. queued[k] \subseteq Seqs /\ S \subseteq Seqs
    BY <1>1 DEF SndFunctions
  <2> QED
    BY <2>1, <2>2
<1> HIDE DEF S, gapped, q, g, c
<1>8. queued'[k] = g /\ backfill'[k] = q /\ control'[k] = c
  BY <1>1, <1>2 DEF SndFunctions
<1>9. SinkGood(k)'
  <2>1. QueueGood(nextSeq', queued'[k], live'[k], backfill'[k])
    BY <1>2, <1>3, <1>8
  <2>2. proven'[k] \subseteq 0 .. nextSeq' - 1 /\ control'[k] \in Seq((SUBSET gaps') \ {{}})
    BY <1>1, <1>2, <1>4, <1>8 DEF SinkGood
  <2>3. chunks' \ proven'[k] \subseteq queued'[k] \cup unanswered'[k] /\ k \in sinks'
    BY <1>2, <1>5, <1>8
  <2> QED
    BY <2>1, <2>2, <2>3 DEF SinkGood
<1>10. SndFunctions'
  BY <1>1, <1>2, <1>6, <1>7 DEF SndFunctions
<1>11. \A j \in Sink \ {k} :
         queued'[j] = queued[j] /\ backfill'[j] = backfill[j] /\ control'[j] = control[j]
  BY <1>1, <1>2 DEF SndFunctions
<1> QED
  BY <1>1, <1>2, <1>9, <1>10, <1>11, OneSink

\* A report leaves: the rest still are of gaps.
LEMMA SndReports ==
  ASSUME SndInv, NEW k \in Sink, control[k] # <<>>, PopReport(k, Head(control[k])),
         UNCHANGED unanswered
  PROVE  SndInv'
<1> DEFINE c == Tail(control[k])
<1>1. SndFunctions /\ SinkGood(k) /\ sinks \subseteq Sink /\ state \in TakeState
  BY DEF SndInv, SndTyped
<1>2. /\ control' = [control EXCEPT ![k] = c]
      /\ UNCHANGED <<state, nextSeq, finalSeq, chunks, gaps, evictedAcked, sinks, proven,
                     queued, live, backfill>>
  BY DEF PopReport, takeVars, ringVars, queueVars
<1>3. c \in Seq((SUBSET gaps) \ {{}}) /\ c \in Seq(SUBSET Seqs)
  <2> DEFINE R == (SUBSET gaps) \ {{}}
  <2>1. control[k] \in Seq(R) /\ control[k] \in Seq(SUBSET Seqs)
    BY <1>1 DEF SinkGood, SndFunctions
  <2> HIDE DEF R
  <2>2. Tail(control[k]) \in Seq(R) /\ Tail(control[k]) \in Seq(SUBSET Seqs)
    BY <2>1, HeadTailProperties
  <2> QED
    BY <2>2 DEF R
<1> HIDE DEF c
<1>4. control'[k] = c
  BY <1>1, <1>2 DEF SndFunctions
<1>5. SinkGood(k)'
  BY <1>1, <1>2, <1>3, <1>4 DEF SinkGood
<1>6. SndFunctions'
  BY <1>1, <1>2, <1>3 DEF SndFunctions
<1>7. \A j \in Sink \ {k} : control'[j] = control[j]
  BY <1>1, <1>2 DEF SndFunctions
<1> QED
  BY <1>1, <1>2, <1>5, <1>6, <1>7, OneSink

\* The first m chunks leave the queues: each is proven, gone from the ring, or the
\* one that is sent.
LEMMA SndDrops ==
  ASSUME SndInv, NEW k \in Sink, k \in sinks, NEW m \in 0 .. Len(live[k] \o backfill[k]),
         DropQueued(k, m), unanswered' \in [Sink -> SUBSET Seqs],
         unanswered[k] \subseteq unanswered'[k],
         \A j \in Sink \ {k} : unanswered'[j] = unanswered[j],
         \A i \in 1 .. m : LET s == (live[k] \o backfill[k])[i]
                           IN  s \in unanswered'[k] \/ s \in proven[k] \/ s \notin chunks,
         UNCHANGED <<takeVars, ringVars, sinks, connected, proven, reportVars>>
  PROVE  SndInv'
<1> DEFINE a == live[k]
           b == backfill[k]
           q == a \o b
           f == IF m <= Len(a) THEN m ELSE Len(a)
           x == SubSeq(a, f + 1, Len(a))
           y == SubSeq(b, m - f + 1, Len(b))
           G == {q[i] : i \in 1 .. m}
           g == queued[k] \ G
<1>1. SndFunctions /\ SinkGood(k) /\ sinks \subseteq Sink /\ state \in TakeState /\ nextSeq \in Nat
  BY SndSets DEF SndInv, SndTyped
<1>2. /\ queued' = [queued EXCEPT ![k] = g] /\ live' = [live EXCEPT ![k] = x]
      /\ backfill' = [backfill EXCEPT ![k] = y]
      /\ UNCHANGED <<state, nextSeq, finalSeq, chunks, gaps, evictedAcked, proven, control>>
  BY DEF DropQueued, takeVars, ringVars, reportVars
<1>3. QueueGood(nextSeq, g, x, y)
  <2>1. QueueGood(nextSeq, queued[k], a, b) /\ m \in 0 .. Len(q)
    BY <1>1 DEF SinkGood
  <2> HIDE DEF a, b
  <2> QED
    BY <1>1, <2>1, PopGood
<1>4. \A s \in G : s \in unanswered'[k] \/ s \in proven[k] \/ s \notin chunks
  OBVIOUS
<1>5. g \in SUBSET Seqs
  BY <1>1 DEF SndFunctions
<1> HIDE DEF a, b, q, f, x, y, G
<1>6. chunks \ proven[k] \subseteq g \cup unanswered'[k]
  BY <1>1, <1>4 DEF SinkGood
<1> HIDE DEF g
<1>7. queued'[k] = g /\ live'[k] = x /\ backfill'[k] = y
  BY <1>1, <1>2 DEF SndFunctions
<1>8. SinkGood(k)'
  <2>1. QueueGood(nextSeq', queued'[k], live'[k], backfill'[k])
    BY <1>2, <1>3, <1>7
  <2>2. proven'[k] \subseteq 0 .. nextSeq' - 1 /\ control'[k] \in Seq((SUBSET gaps') \ {{}})
    BY <1>1, <1>2 DEF SinkGood
  <2>3. chunks' \ proven'[k] \subseteq queued'[k] \cup unanswered'[k] /\ k \in sinks'
    BY <1>2, <1>6, <1>7
  <2> QED
    BY <2>1, <2>2, <2>3 DEF SinkGood
<1>9. SndFunctions'
  <2>1. x \in Seq(Seqs) /\ y \in Seq(Seqs)
    BY <1>3 DEF QueueGood
  <2> QED
    BY <1>1, <1>2, <1>5, <2>1 DEF SndFunctions
<1>10. \A j \in Sink \ {k} :
         queued'[j] = queued[j] /\ live'[j] = live[j] /\ backfill'[j] = backfill[j]
  BY <1>1, <1>2 DEF SndFunctions
<1> QED
  BY <1>1, <1>2, <1>8, <1>9, <1>10, OneSink

LEMMA SndInbound ==
  ASSUME SndInv, NEW k \in Sink, Inbound(k)
  PROVE  SndInv'
<1>1. CASE (\E ack \in PossibleAcks : HandleAck(k, ack)) /\ unanswered' = [unanswered EXCEPT ![k] = {}]
  BY <1>1, SndAcked
<1>2. CASE (\E wanted \in SUBSET (0 .. MaxSeq) : HandleBackfillRequest(k, wanted))
           /\ UNCHANGED unanswered
  BY <1>2, SndAsked
<1> QED
  BY <1>1, <1>2 DEF Inbound

LEMMA SndOutbound ==
  ASSUME SndInv, NEW k \in Sink, Outbound(k)
  PROVE  SndInv'
<1> DEFINE q == live[k] \o backfill[k]
           n == Skipped(k, q)
<1>1. SndFunctions
  BY DEF SndInv
<1>2. q \in Seq(Seqs) /\ Len(q) \in Nat
  <2>1. live[k] \in Seq(Seqs) /\ backfill[k] \in Seq(Seqs)
    BY <1>1 DEF SndFunctions
  <2>2. q \in Seq(Seqs)
    BY <2>1, ConcatProperties
  <2> HIDE DEF q
  <2> QED
    BY <2>2
<1> HIDE DEF q
<1>3. /\ n \in 0 .. Len(q)
      /\ \A i \in 1 .. n : ~ Sendable(k, q[i])
      /\ n < Len(q) => Sendable(k, q[n + 1])
  BY <1>2, SkippedSpec
<1>4. CASE control[k] # <<>> /\ PopReport(k, Head(control[k])) /\ UNCHANGED unanswered
  BY <1>4, SndReports
<1>5. ASSUME NEW s \in chunks, PopChunk(k, s),
             unanswered' = [unanswered EXCEPT ![k] = @ \cup {s}]
      PROVE  SndInv'
  <2>1. /\ k \in sinks /\ n < Len(q) /\ s = q[n + 1] /\ DropQueued(k, n + 1)
        /\ UNCHANGED <<takeVars, ringVars, sinks, connected, proven, reportVars>>
    BY <1>5 DEF PopChunk, q
  <2>2. s \in Seqs
    BY SndSets
  <2>3. /\ unanswered' \in [Sink -> SUBSET Seqs]
        /\ unanswered'[k] = unanswered[k] \cup {s}
        /\ \A j \in Sink \ {k} : unanswered'[j] = unanswered[j]
    <3> DEFINE v == unanswered[k] \cup {s}
    <3>1. unanswered' = [unanswered EXCEPT ![k] = v] /\ v \in SUBSET Seqs
      BY <1>1, <1>5, <2>2 DEF SndFunctions
    <3> HIDE DEF v
    <3>2. unanswered \in [Sink -> SUBSET Seqs]
      BY <1>1 DEF SndFunctions
    <3>3. /\ unanswered' \in [Sink -> SUBSET Seqs] /\ unanswered'[k] = v
          /\ \A j \in Sink \ {k} : unanswered'[j] = unanswered[j]
      BY <3>1, <3>2
    <3> QED
      BY <3>3 DEF v
  <2> HIDE DEF n
  <2>4. n + 1 \in 0 .. Len(q) /\ \A i \in 1 .. n + 1 : i \in 1 .. n \/ i = n + 1
    BY <1>2, <1>3, <2>1
  <2>5. ASSUME NEW i \in 1 .. n + 1
        PROVE  q[i] \in unanswered'[k] \/ q[i] \in proven[k] \/ q[i] \notin chunks
    BY <1>3, <2>1, <2>3, <2>4 DEF Sendable
  <2> QED
    BY <2>1, <2>3, <2>4, <2>5, SndDrops DEF q
<1>6. CASE PopNothing(k) /\ UNCHANGED unanswered
  <2>1. /\ k \in sinks /\ n = Len(q) /\ DropQueued(k, Len(q))
        /\ UNCHANGED <<takeVars, ringVars, sinks, connected, proven, reportVars>>
    BY <1>6 DEF PopNothing, q
  <2>2. /\ unanswered' \in [Sink -> SUBSET Seqs] /\ unanswered'[k] = unanswered[k]
        /\ \A j \in Sink \ {k} : unanswered'[j] = unanswered[j]
    BY <1>1, <1>6 DEF SndFunctions
  <2> HIDE DEF n
  <2>3. Len(q) \in 0 .. Len(q)
    BY <1>2
  <2>4. \A i \in 1 .. Len(q) :
          q[i] \in unanswered'[k] \/ q[i] \in proven[k] \/ q[i] \notin chunks
    BY <1>3, <2>1 DEF Sendable
  <2> QED
    BY <2>1, <2>2, <2>3, <2>4, SndDrops DEF q
<1> QED
  BY <1>4, <1>5, <1>6 DEF Outbound

LEMMA SndStutters ==
  ASSUME SndInv, UNCHANGED openVars
  PROVE  SndInv'
<1>1. UNCHANGED <<state, nextSeq, finalSeq, chunks, gaps, evictedAcked, sinks, proven,
                  queued, live, backfill, control, unanswered>>
  BY DEF openVars, senderVars, takeVars, ringVars, queueVars, reportVars
<1>2. SndTyped' /\ SndFunctions' /\ Accounted' /\ RingBounded'
  BY <1>1 DEF SndInv, SndTyped, SndFunctions, Accounted, RingBounded, Produced
<1>3. \A j \in Sink : SinkGood(j)'
  BY <1>1 DEF SndInv, SinkGood
<1> QED
  BY <1>2, <1>3 DEF SndInv

LEMMA SndInductive == OpenSpec => []SndInv
<1>1. SndInv /\ [OpenNext]_openVars => SndInv'
  BY SndRecords, SndMembership, SndInbound, SndOutbound, SndStutters DEF OpenNext
<1> QED
  BY SndStarts, <1>1, PTL DEF OpenSpec

\* The guard of a sink's queues is what they hold, each chunk once.
LEMMA GuardOf ==
  ASSUME NEW n \in Nat, NEW g, NEW a, NEW b, QueueGood(n, g, a, b)
  PROVE  g = ToSet(a \o b) /\ Cardinality(g) = Len(a \o b)
<1> DEFINE q == a \o b
<1>1. /\ a \in Seq(Seqs) /\ b \in Seq(Seqs) /\ Distinct(a) /\ Distinct(b)
      /\ ToSet(a) \cap ToSet(b) = {} /\ g = ToSet(a) \cup ToSet(b)
  BY LiveDistinct DEF QueueGood
<1>2. q \in Seq(Seqs) /\ ToSet(q) = g /\ Distinct(q)
  BY <1>1, JoinIs
<1> HIDE DEF q
<1>3. Cardinality(ToSet(q)) = Len(q)
  BY <1>2, DistinctCount
<1> QED
  BY <1>2, <1>3 DEF q

\* The live chunks are the newest, so nothing in the backlog is newer.
LEMMA FreshOf ==
  ASSUME NEW n \in Nat, NEW g, NEW a, NEW b, QueueGood(n, g, a, b)
  PROVE  /\ \A i \in DOMAIN a, j \in DOMAIN a : i < j => a[i] < a[j]
         /\ \A i \in DOMAIN a, j \in DOMAIN b : b[j] < a[i]
<1> DEFINE m == Len(a)
<1>1. /\ a \in Seq(Seqs) /\ m \in Nat /\ DOMAIN a = 1 .. m
      /\ b \in Seq(Seqs) /\ ToSet(a) \cap ToSet(b) = {} /\ ToSet(b) \subseteq 0 .. n - 1
      /\ \A i \in 1 .. m : a[i] = n - m + i - 1
  BY DEF QueueGood
<1> HIDE DEF m
<1>2. ASSUME NEW i \in 1 .. m, NEW j \in 1 .. m, i < j PROVE a[i] < a[j]
  <2>1. a[i] = n - m + i - 1 /\ a[j] = n - m + j - 1
    BY <1>1
  <2> QED
    BY <1>1, <1>2, <2>1
<1>3. ASSUME NEW i \in 1 .. m, NEW j \in DOMAIN b PROVE b[j] < a[i]
  <2> DEFINE s == b[j]
  <2>1. s \in ToSet(b)
    BY DEF ToSet
  <2> HIDE DEF s
  <2>2. s \in 0 .. n - 1 /\ s \notin ToSet(a)
    BY <1>1, <2>1
  <2>3. s < n - m
    <3> SUFFICES ASSUME s >= n - m PROVE FALSE
      BY <1>1, <2>2
    <3> DEFINE h == s - (n - m) + 1
    <3>1. h \in 1 .. m /\ n - m + h - 1 = s
      BY <1>1, <2>2
    <3> HIDE DEF h
    <3>2. a[h] = s
      BY <1>1, <3>1
    <3> QED
      BY <1>1, <2>2, <3>1, <3>2 DEF ToSet
  <2>4. a[i] = n - m + i - 1
    BY <1>1
  <2>5. s < a[i]
    BY <1>1, <2>2, <2>3, <2>4
  <2> QED
    BY <2>5 DEF s
<1> QED
  BY <1>1, <1>2, <1>3

\* The engine against a sink that may answer anything: the ring keeps to its budget,
\* the queue guard is exact, no chunk is forgotten, none is reported as a gap while it
\* could be sent, and fresh audio goes first.
THEOREM SenderIsSound == OpenSpec => []SenderSound
<1>1. ASSUME SndInv PROVE SenderSound
  <2>1. /\ SndTyped /\ SndFunctions /\ RingBounded /\ nextSeq \in Nat
        /\ \A k \in Sink : SinkGood(k)
    BY <1>1, SndSets DEF SndInv
  <2>2. OpenTypeOK
    BY <2>1 DEF SndTyped, SndFunctions, OpenTypeOK, SinkGood, Produced, Seqs
  <2>3. QueueGuardExact
    <3> SUFFICES ASSUME NEW k \in Sink
                 PROVE  LET q == live[k] \o backfill[k]
                        IN queued[k] = {q[i] : i \in DOMAIN q} /\ Cardinality(queued[k]) = Len(q)
      BY DEF QueueGuardExact
    <3>1. QueueGood(nextSeq, queued[k], live[k], backfill[k])
      BY <2>1 DEF SinkGood
    <3>2. nextSeq \in Nat
      BY <2>1
    <3> DEFINE q == live[k] \o backfill[k]
               g == queued[k]
               a == live[k]
               b == backfill[k]
    <3> HIDE DEF g, a, b, q
    <3>5. QueueGood(nextSeq, g, a, b)
      BY <3>1 DEF g, a, b
    <3>6. g = ToSet(a \o b) /\ Cardinality(g) = Len(a \o b)
      BY <3>2, <3>5, GuardOf
    <3>3. queued[k] = ToSet(q) /\ Cardinality(queued[k]) = Len(q)
      BY <3>6 DEF g, a, b, q
    <3>4. queued[k] = {q[i] : i \in DOMAIN q} /\ Cardinality(queued[k]) = Len(q)
      BY <3>3 DEF ToSet
    <3> QED
      BY <3>4 DEF q
  <2>4. NothingForgotten
    BY <2>1 DEF NothingForgotten, SinkGood, SndTyped
  <2>5. ReportsAreFinal
    <3> SUFFICES ASSUME NEW k \in Sink, NEW i \in DOMAIN control[k]
                 PROVE  control[k][i] # {} /\ control[k][i] \subseteq gaps
      BY DEF ReportsAreFinal
    <3> DEFINE R == (SUBSET gaps) \ {{}}
    <3>1. control[k] \in Seq(R)
      BY <2>1 DEF SinkGood
    <3> HIDE DEF R
    <3>2. control[k][i] \in R
      BY <3>1
    <3> QED
      BY <3>2 DEF R
  <2>6. FreshAudioFirst
    <3> SUFFICES ASSUME NEW k \in Sink
                 PROVE  /\ \A i \in DOMAIN live[k], j \in DOMAIN live[k] :
                             i < j => live[k][i] < live[k][j]
                        /\ \A i \in DOMAIN live[k], j \in DOMAIN backfill[k] :
                             backfill[k][j] < live[k][i]
      BY DEF FreshAudioFirst
    <3> QED
      BY <2>1, FreshOf DEF SinkGood
  <2> QED
    BY <2>1, <2>2, <2>3, <2>4, <2>5, <2>6 DEF SenderSound
<1> QED
  BY <1>1, SndInductive, PTL
=============================================================================
