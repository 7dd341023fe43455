---------------------------- MODULE ChunkProtocol ----------------------------
(***************************************************************************)
(* One recorder stream and its sinks: the sender engine, a data channel    *)
(* per sink (reliable and ordered while open, cut at any time) and, at     *)
(* each sink, a receiver engine in front of durable storage.               *)
(*                                                                         *)
(* A sink works off one chain of tasks.  A frame's task feeds the engine,  *)
(* then awaits the store; an ACK is another task of the same chain, so     *)
(* nothing else of the sink runs while a frame is being persisted (busy).  *)
(***************************************************************************)
EXTENDS StreamSender

CONSTANTS
  FailStop,      \* sinks that rebuild from storage when a write fails (the server)
  Failing,       \* sinks whose storage writes can fail
  KeyedByStart,  \* sinks that store gap ranges keyed by their start alone
  WireCap,       \* bound: frames in flight towards a sink
  AckCap,        \* bound: ACKs in flight towards the recorder
  ControlCap,    \* bound: reports waiting when a further ACK is sent
  MaxFaults      \* bound: cut channels, failed writes and restarts in all

ASSUME ProtocolConstants ==
  /\ FailStop \subseteq Sink /\ Failing \subseteq Sink /\ KeyedByStart \subseteq Sink
  /\ {WireCap, AckCap, ControlCap, MaxFaults} \subseteq Nat

VARIABLES
  toSink,        \* per sink: frames sent and not yet processed
  toRecorder,    \* per sink: ACKs sent and not yet processed
  held,          \* per sink: engine, chunks held
  declaredGaps,  \* per sink: engine, gaps reported by the recorder
  recvFinal,     \* per sink: engine and store, final sequence number
  busy,          \* per sink: the frame being persisted, or NoFrame
  stored,        \* per sink: durable chunks
  gapRows,       \* per sink: durable gap ranges <<start, end>>
  faults         \* faults so far

wireVars == <<toSink, toRecorder>>
engineVars == <<held, declaredGaps, recvFinal, busy>>
storeVars == <<stored, gapRows>>
sinkVars == <<engineVars, storeVars>>
vars == <<senderVars, wireVars, sinkVars, faults>>

Chunk(s) == [type |-> "chunk", seqs |-> {s}]
GapReport(G) == [type |-> "gaps", seqs |-> G]
NoFrame == [type |-> "none", seqs |-> {}]
-----------------------------------------------------------------------------
(***************************************************************************)
(* Gap ranges in durable storage.                                          *)
(***************************************************************************)
\* The maximal ranges of a set of sequence numbers.
RangesOf(S) ==
  {r \in S \X S : /\ r[1] .. r[2] \subseteq S /\ r[1] <= r[2]
                  /\ r[1] - 1 \notin S /\ r[2] + 1 \notin S}

Covered(rows) == UNION {r[1] .. r[2] : r \in rows}

\* Broken variant: every store keys a range by its start alone.
InsertByStart(k, rows, new) ==
  rows \cup {r \in new : \A q \in rows : q[1] # r[1]}

\* persistGaps: one row per range, ON CONFLICT DO NOTHING; the server's key is
\* the start of the range, the desk's file name holds both ends.
InsertGapRows(k, rows, new) ==
  rows \cup {r \in new : k \in KeyedByStart => \A q \in rows : q[1] # r[1]}
-----------------------------------------------------------------------------
(***************************************************************************)
(* The recorder's own steps.                                               *)
(***************************************************************************)
Capture ==
  /\ Arm \/ PushAudio
  /\ UNCHANGED <<wireVars, sinkVars, faults>>

Stop ==
  /\ Finish
  /\ UNCHANGED <<wireVars, sinkVars, faults>>

Attach(k) ==
  /\ AddSink(k)
  /\ UNCHANGED <<wireVars, sinkVars, faults>>

Send(k, f) == toSink' = [toSink EXCEPT ![k] = Append(@, f)]

\* The pump asks the engine for frames while the channel has room.
SendReport(k) ==
  /\ Len(toSink[k]) < WireCap
  /\ control[k] # <<>>
  /\ PopReport(k, Head(control[k]))
  /\ Send(k, GapReport(Head(control[k])))
  /\ UNCHANGED <<toRecorder, sinkVars, faults>>

SendChunk(k) ==
  /\ Len(toSink[k]) < WireCap
  /\ \E s \in chunks : PopChunk(k, s) /\ Send(k, Chunk(s))
  /\ UNCHANGED <<toRecorder, sinkVars, faults>>

SendNothing(k) ==
  /\ Len(toSink[k]) < WireCap
  /\ PopNothing(k)
  /\ UNCHANGED <<wireVars, sinkVars, faults>>

ReceiveAck(k) ==
  /\ toRecorder[k] # <<>>
  /\ HandleAck(k, Head(toRecorder[k]))
  /\ toRecorder' = [toRecorder EXCEPT ![k] = Tail(@)]
  /\ UNCHANGED <<toSink, sinkVars, faults>>
-----------------------------------------------------------------------------
(***************************************************************************)
(* Channels.                                                               *)
(***************************************************************************)
Connect(k) ==
  /\ ~ connected[k]
  /\ SetConnected(k)
  /\ UNCHANGED <<wireVars, sinkVars, faults>>

\* A channel dies: ACKs in flight are gone, and of the frames in flight those
\* past some point; what reached the sink's task chain is still processed.
CutChannel(k) ==
  /\ connected[k]
  /\ SetDisconnected(k)
  /\ \E n \in 0 .. Len(toSink[k]) :
       toSink' = [toSink EXCEPT ![k] = SubSeq(@, 1, n)]
  /\ toRecorder' = [toRecorder EXCEPT ![k] = <<>>]

Disconnect(k) ==
  /\ faults < MaxFaults
  /\ faults' = faults + 1
  /\ CutChannel(k)
  /\ UNCHANGED sinkVars
-----------------------------------------------------------------------------
(***************************************************************************)
(* The sink.                                                               *)
(***************************************************************************)
\* engine.ingest: a chunk it holds already is a duplicate and needs no store.
IngestChunk(k, s) ==
  /\ held' = [held EXCEPT ![k] = @ \cup {s}]
  /\ busy' = [busy EXCEPT ![k] = IF s \in held[k] THEN NoFrame ELSE Chunk(s)]
  /\ UNCHANGED <<declaredGaps, recvFinal, storeVars>>

\* Broken variant: everything up to a reported gap is taken for lost.
IngestGapsPrefix(k, f) ==
  /\ declaredGaps' = [declaredGaps EXCEPT ![k] = @ \cup UNION {0 .. s : s \in f.seqs}]
  /\ busy' = [busy EXCEPT ![k] = f]
  /\ UNCHANGED <<held, recvFinal, storeVars>>

IngestGaps(k, f) ==
  /\ declaredGaps' = [declaredGaps EXCEPT ![k] = @ \cup f.seqs]
  /\ busy' = [busy EXCEPT ![k] = f]
  /\ UNCHANGED <<held, recvFinal, storeVars>>

ProcessFrame(k) ==
  /\ busy[k] = NoFrame
  /\ toSink[k] # <<>>
  /\ LET f == Head(toSink[k])
     IN IF f.type = "chunk" THEN \E s \in f.seqs : IngestChunk(k, s)
                            ELSE IngestGaps(k, f)
  /\ toSink' = [toSink EXCEPT ![k] = Tail(@)]
  /\ UNCHANGED <<senderVars, toRecorder, faults>>

\* A chunk another sink pushes or tees over the sync channel.
SyncChunk(j, k) ==
  /\ busy[k] = NoFrame
  /\ \E s \in stored[j] \ held[k] : IngestChunk(k, s)
  /\ UNCHANGED <<senderVars, wireVars, faults>>

\* The store has answered: the frame's task ends.
Persist(k) ==
  /\ busy[k] # NoFrame
  /\ \/ /\ busy[k].type = "chunk"
        /\ stored' = [stored EXCEPT ![k] = @ \cup busy[k].seqs]
        /\ UNCHANGED gapRows
     \/ /\ busy[k].type = "gaps"
        /\ gapRows' = [gapRows EXCEPT ![k] = InsertGapRows(k, @, RangesOf(busy[k].seqs))]
        /\ UNCHANGED stored
  /\ busy' = [busy EXCEPT ![k] = NoFrame]
  /\ UNCHANGED <<senderVars, wireVars, held, declaredGaps, recvFinal, faults>>

\* Broken variant: the engine is kept as it was.
RebuildNothing(k) ==
  /\ busy' = [busy EXCEPT ![k] = NoFrame]
  /\ UNCHANGED <<held, declaredGaps, recvFinal, storeVars>>

\* Crash rebuild: the engine is reloaded from what is durable.
Rebuild(k) ==
  /\ held' = [held EXCEPT ![k] = stored[k]]
  /\ declaredGaps' = [declaredGaps EXCEPT ![k] = Covered(gapRows[k])]
  /\ busy' = [busy EXCEPT ![k] = NoFrame]
  /\ UNCHANGED <<recvFinal, storeVars>>

\* A failed write at the server: every channel is closed and the engine
\* rebuilt.  The desk worker only reports the error.
PersistFails(k) ==
  /\ k \in Failing
  /\ busy[k] # NoFrame
  /\ faults < MaxFaults
  /\ faults' = faults + 1
  /\ IF k \in FailStop
     THEN /\ Rebuild(k)
          /\ IF connected[k] THEN CutChannel(k) ELSE UNCHANGED <<senderVars, wireVars>>
     ELSE /\ busy' = [busy EXCEPT ![k] = NoFrame]
          /\ UNCHANGED <<senderVars, wireVars, held, declaredGaps, recvFinal, storeVars>>

\* The sink's process dies and comes back: its task chain is gone as well.
Restart(k) ==
  /\ faults < MaxFaults
  /\ faults' = faults + 1
  /\ Rebuild(k)
  /\ toSink' = [toSink EXCEPT ![k] = <<>>]
  /\ toRecorder' = [toRecorder EXCEPT ![k] = <<>>]
  /\ IF connected[k] THEN SetDisconnected(k) ELSE UNCHANGED senderVars

\* stream-final over the control plane.
NoteFinal(k) ==
  /\ busy[k] = NoFrame
  /\ finalSeq # NoSeq
  /\ recvFinal[k] = NoSeq
  /\ recvFinal' = [recvFinal EXCEPT ![k] = finalSeq]
  /\ UNCHANGED <<senderVars, wireVars, held, declaredGaps, busy, storeVars, faults>>

\* The engine has a receiver for the stream once it heard of it.
KnowsStream(k) == held[k] # {} \/ declaredGaps[k] # {} \/ recvFinal[k] # NoSeq

\* Broken variant: the ACK does not wait for the frame being persisted.
SendAckEarly(k) ==
  /\ connected[k]
  /\ KnowsStream(k)
  /\ Len(toRecorder[k]) < AckCap
  /\ Len(control[k]) < ControlCap
  /\ toRecorder' = [toRecorder EXCEPT ![k] =
       Append(@, AckStatus(held[k], declaredGaps[k], recvFinal[k]))]
  /\ UNCHANGED <<senderVars, toSink, sinkVars, faults>>

\* ACK task: on the timer, on channel open, on take-stop and on stream-final.
SendAck(k) ==
  /\ busy[k] = NoFrame
  /\ connected[k]
  /\ KnowsStream(k)
  /\ Len(toRecorder[k]) < AckCap
  /\ Len(control[k]) < ControlCap
  /\ toRecorder' = [toRecorder EXCEPT ![k] =
       Append(@, AckStatus(held[k], declaredGaps[k], recvFinal[k]))]
  /\ UNCHANGED <<senderVars, toSink, sinkVars, faults>>
-----------------------------------------------------------------------------
Init ==
  /\ SenderInit
  /\ toSink = [k \in Sink |-> <<>>]
  /\ toRecorder = [k \in Sink |-> <<>>]
  /\ held = [k \in Sink |-> {}]
  /\ declaredGaps = [k \in Sink |-> {}]
  /\ recvFinal = [k \in Sink |-> NoSeq]
  /\ busy = [k \in Sink |-> NoFrame]
  /\ stored = [k \in Sink |-> {}]
  /\ gapRows = [k \in Sink |-> {}]
  /\ faults = 0

Next ==
  \/ Capture
  \/ Stop
  \/ \E k \in Sink :
       \/ Attach(k) \/ Connect(k) \/ Disconnect(k)
       \/ SendReport(k) \/ SendChunk(k) \/ SendNothing(k) \/ ReceiveAck(k)
       \/ ProcessFrame(k) \/ Persist(k) \/ PersistFails(k) \/ Restart(k)
       \/ NoteFinal(k) \/ SendAck(k)
       \/ \E j \in Sink \ {k} : SyncChunk(j, k)

Spec == Init /\ [][Next]_vars
-----------------------------------------------------------------------------
(***************************************************************************)
(* Properties.                                                             *)
(***************************************************************************)
Frame == [type : {"chunk", "gaps", "none"}, seqs : SUBSET (0 .. MaxSeq)]

Ack == [chwm : -1 .. MaxSeq, holes : SUBSET (0 .. MaxSeq)]

\* Every variable of the engine, the channels and the sinks has its type.
TypeOK ==
  /\ state \in TakeState
  /\ nextSeq \in 0 .. MaxSeq + 1
  /\ finalSeq \in -1 .. MaxSeq
  /\ {chunks, ackedByAny, gaps, evictedAcked} \subseteq SUBSET (0 .. MaxSeq)
  /\ sinks \subseteq Sink
  /\ connected \in [Sink -> BOOLEAN]
  /\ proven \in [Sink -> SUBSET (0 .. MaxSeq)]
  /\ control \in [Sink -> Seq(SUBSET (0 .. MaxSeq))]
  /\ toSink \in [Sink -> Seq(Frame)]
  /\ toRecorder \in [Sink -> Seq(Ack)]
  /\ held \in [Sink -> SUBSET (0 .. MaxSeq)]
  /\ declaredGaps \in [Sink -> SUBSET (0 .. MaxSeq)]
  /\ busy \in [Sink -> Frame]
  /\ stored \in [Sink -> SUBSET (0 .. MaxSeq)]
  /\ gapRows \in [Sink -> SUBSET ((0 .. MaxSeq) \X (0 .. MaxSeq))]

\* ACK honesty end to end: what a sink's latest snapshot proves to the recorder
\* is in that sink's durable store, or a gap the recorder declared itself -
\* across failed writes, restarts and stale ACKs.
ProvenIsDurable == \A k \in sinks : proven[k] \subseteq stored[k] \cup gaps

\* Never lose audio: a chunk the ring gave up as "acknowledged" is durable at
\* some sink.
EvictedIsDurable == evictedAcked \subseteq UNION {stored[k] : k \in Sink}

\* A sink stops asking only for what the recorder really cannot send any more.
GapReportsTrue == \A k \in Sink : declaredGaps[k] \subseteq gaps

\* DRAINING ends only when every registered sink durably has everything but the
\* declared gaps.
CloseIsSafe ==
  [][state # "Closed" /\ state' = "Closed" =>
       \A k \in sinks : 0 .. finalSeq' \subseteq stored[k] \cup gaps]_vars

\* The comment on sink_settled: a settled sink has been told about the gaps.
CloseIsTold ==
  [][state # "Closed" /\ state' = "Closed" =>
       \A k \in sinks : 0 .. finalSeq' \subseteq stored[k] \cup declaredGaps[k]]_vars

\* A recorded gap survives a restart, whole where both ends are the key: the store has
\* it as soon as the frame's task is done.  No store forgets a whole run of lost chunks:
\* what a row keyed by its start leaves out follows a remembered start without a break.
GapsRemembered ==
  \A k \in Sink : busy[k] = NoFrame =>
    /\ k \notin KeyedByStart => declaredGaps[k] \subseteq Covered(gapRows[k])
    /\ \A s \in declaredGaps[k] :
         \E r \in gapRows[k] : r[1] <= s /\ r[1] .. s \subseteq declaredGaps[k]

\* The abstract take archive, seen through the state of the protocol.
Archive == INSTANCE TakeArchive WITH
  made <- nextSeq, recorderHas <- chunks, sinkHas <- stored,
  lost <- gaps, closed <- state = "Closed"

\* The protocol implements the abstract take archive: rings, queues, channels, acks and
\* rebuilds only make, store, give up and close what TakeArchive allows.
ImplementsArchive == Archive!ArchiveSpec
-----------------------------------------------------------------------------
(***************************************************************************)
(* Liveness.  Timers drive the pump (100 ms) and the ACKs (2 s), links are *)
(* retried while a sink is configured, channels deliver and stores answer; *)
(* faults are finite by MaxFaults.  Nothing obliges the user to stop the   *)
(* take.  stream-final is sent once and not retried: FairSpec assumes that *)
(* it arrives, LossyFinalSpec does not.                                    *)
(***************************************************************************)
Fairness ==
  \A k \in Sink :
       /\ WF_vars(Attach(k)) /\ WF_vars(Connect(k))
       /\ WF_vars(SendReport(k)) /\ WF_vars(SendChunk(k)) /\ WF_vars(SendNothing(k))
       /\ WF_vars(ReceiveAck(k)) /\ WF_vars(ProcessFrame(k)) /\ WF_vars(Persist(k))
       /\ WF_vars(SendAck(k))
       /\ \A j \in Sink \ {k} : WF_vars(SyncChunk(j, k))

LossyFinalSpec == Spec /\ Fairness

FairSpec == LossyFinalSpec /\ \A k \in Sink : WF_vars(NoteFinal(k))

\* A finished take is eventually closed, whatever was lost on the way.
DrainsToClosed == (state = "Draining") ~> (state = "Closed")
=============================================================================
