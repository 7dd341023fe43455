----------------------------- MODULE OpenSender -----------------------------
(***************************************************************************)
(* The sender engine against sinks that may say anything a sink can say:   *)
(* any snapshot of what was produced, in any order, stale ones included;   *)
(* any BACKFILL_REQUEST; sinks attached and detached at any time.          *)
(*                                                                         *)
(* `unanswered` is a history variable: what was handed to a sink's channel *)
(* since the last snapshot of that sink was applied.                       *)
(***************************************************************************)
EXTENDS StreamSender

CONSTANT ReportCap   \* bound: reports waiting when a further frame arrives

ASSUME OpenConstants == ReportCap \in Nat

VARIABLE unanswered

openVars == <<senderVars, unanswered>>

OpenInit == SenderInit /\ unanswered = [k \in Sink |-> {}]

\* A snapshot some sink could send: it holds part of what was produced, it was
\* told of part of the gaps, and it may know the final sequence number.
PossibleAcks ==
  {AckStatus(h, g, f) : h \in SUBSET Produced, g \in SUBSET gaps, f \in {NoSeq, finalSeq}}

Recording == (Arm \/ PushAudio \/ Finish) /\ UNCHANGED unanswered

Membership(k) ==
  \/ AddSink(k) /\ UNCHANGED unanswered
  \/ RemoveSink(k) /\ unanswered' = [unanswered EXCEPT ![k] = {}]
  \/ ~ connected[k] /\ SetConnected(k) /\ UNCHANGED unanswered
  \/ connected[k] /\ SetDisconnected(k) /\ UNCHANGED unanswered

\* handle_frame.
Inbound(k) ==
  /\ Len(control[k]) < ReportCap
  /\ \/ /\ \E ack \in PossibleAcks : HandleAck(k, ack)
        /\ unanswered' = [unanswered EXCEPT ![k] = {}]
     \/ /\ \E wanted \in SUBSET (0 .. MaxSeq) : HandleBackfillRequest(k, wanted)
        /\ UNCHANGED unanswered

\* pop_frame.
Outbound(k) ==
  \/ /\ control[k] # <<>> /\ PopReport(k, Head(control[k]))
     /\ UNCHANGED unanswered
  \/ \E s \in chunks :
       /\ PopChunk(k, s)
       /\ unanswered' = [unanswered EXCEPT ![k] = @ \cup {s}]
  \/ PopNothing(k) /\ UNCHANGED unanswered

OpenNext ==
  Recording \/ \E k \in Sink : Membership(k) \/ Inbound(k) \/ Outbound(k)

OpenSpec == OpenInit /\ [][OpenNext]_openVars
-----------------------------------------------------------------------------
\* Every queue entry is a chunk, every report a set of chunks.
OpenTypeOK ==
  /\ state \in TakeState
  /\ nextSeq \in 0 .. MaxSeq + 1
  /\ finalSeq \in -1 .. MaxSeq
  /\ \A k \in Sink :
       /\ live[k] \in Seq(0 .. MaxSeq) /\ backfill[k] \in Seq(0 .. MaxSeq)
       /\ control[k] \in Seq(SUBSET (0 .. MaxSeq))
       /\ proven[k] \subseteq Produced

\* No chunk is forgotten: one that is resident and not proven to be at a
\* registered sink is queued for it, or was sent since that sink's last
\* snapshot (whose successor will queue it again if it was lost).
NothingForgotten ==
  \A k \in sinks : chunks \ proven[k] \subseteq queued[k] \cup unanswered[k]

\* A report never names a chunk that could still be sent.
ReportsAreFinal ==
  \A k \in Sink : \A i \in DOMAIN control[k] : control[k][i] # {} /\ control[k][i] \subseteq gaps

\* Transmit priority: a sink's live queue is ascending, and nothing in its
\* backlog is newer than anything live - after reconnects and requeues as well.
FreshAudioFirst ==
  \A k \in Sink :
    /\ \A i \in DOMAIN live[k], j \in DOMAIN live[k] : i < j => live[k][i] < live[k][j]
    /\ \A i \in DOMAIN live[k], j \in DOMAIN backfill[k] : backfill[k][j] < live[k][i]

\* The engine against a sink that may answer anything: whatever it acknowledges,
\* asks for or drops, the ring keeps to its budget, the queues to their guard, and
\* no chunk is forgotten, reported while it could be sent or sent before newer audio.
SenderSound ==
  /\ OpenTypeOK /\ RingBounded /\ QueueGuardExact
  /\ NothingForgotten /\ ReportsAreFinal /\ FreshAudioFirst
=============================================================================
