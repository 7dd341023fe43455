---------------------------- MODULE StreamSender ----------------------------
(***************************************************************************)
(* The recorder's stream engine: one take of one stream, its ring buffer   *)
(* and one transmit record per sink.  The engine is sans-IO, so each of    *)
(* its methods is an action here; what arrives from a sink is a parameter. *)
(* A chunk is its sequence number (a sequence number has one immutable     *)
(* payload); a RangeSet is the set of numbers it covers.                   *)
(***************************************************************************)
EXTENDS AckSnapshot, Sequences, FiniteSets, SequencesExt

CONSTANTS
  Sink,     \* sink identities (stable across reconnects)
  MaxSeq,   \* bound: the last sequence number a take may reach
  Cost,     \* bytes of each chunk in the ring
  Budget    \* the ring's byte budget

ASSUME SenderConstants ==
  /\ MaxSeq \in Nat
  /\ Cost \in [0 .. MaxSeq -> Nat \ {0}]
  /\ Budget \in Nat

VARIABLES
  state,          \* TakeState
  nextSeq,        \* next sequence number; `produced` is 0 .. nextSeq - 1
  finalSeq,       \* last sequence number of a finished take, or NoSeq
  chunks,         \* ring: resident chunks
  ackedByAny,     \* ring: acknowledged by at least one sink
  gaps,           \* ring: evicted while unacknowledged, ever
  evictedAcked,   \* ring: evicted after some sink acknowledged
  sinks,          \* registered sinks
  connected,      \* per sink: channel open
  proven,         \* per sink: what its latest ACK snapshot proves it holds
  queued,         \* per sink: dedup guard over both chunk queues
  live,           \* per sink: fresh chunks to send
  backfill,       \* per sink: backlog to send
  control,        \* per sink: gap reports to send, each a set of numbers
  gapsReported    \* per sink: gaps already put in a report

takeVars == <<state, nextSeq, finalSeq>>
ringVars == <<chunks, ackedByAny, gaps, evictedAcked>>
queueVars == <<queued, live, backfill>>
reportVars == <<control, gapsReported>>
senderVars ==
  <<takeVars, ringVars, sinks, connected, proven, queueVars, reportVars>>

TakeState == {"Idle", "Streaming", "Draining", "Closed"}

Produced == 0 .. nextSeq - 1
-----------------------------------------------------------------------------
(***************************************************************************)
(* The ring buffer (ring.rs).                                              *)
(***************************************************************************)
Bytes(S) == MapThenSumSet(LAMBDA s : Cost[s], S)

\* One eviction pass over the candidates, oldest first, until the budget is
\* met: a candidate goes when evicting every older one is not enough.
Victims(candidates, used) ==
  {s \in candidates : used - Bytes({t \in candidates : t < s}) > Budget}

\* Inserting seq: the stream header and the newest chunk are pinned.
EvictableAfter(seq) == (chunks \cup {seq}) \ {0, seq}

\* Pass 1 takes acknowledged chunks ...
AckedVictims(seq) ==
  Victims(EvictableAfter(seq) \cap ackedByAny, Bytes(chunks \cup {seq}))

\* Broken variant: pass 2 forgets what pass 1 has freed.
UnackedVictimsAgain(seq) ==
  Victims(EvictableAfter(seq), Bytes(chunks \cup {seq}))

\* ... pass 2 whatever is left: these are declared gaps.
UnackedVictims(seq) ==
  Victims(EvictableAfter(seq) \ AckedVictims(seq),
          Bytes((chunks \cup {seq}) \ AckedVictims(seq)))

RingInsert(seq) ==
  /\ chunks' = (chunks \cup {seq}) \ (AckedVictims(seq) \cup UnackedVictims(seq))
  /\ evictedAcked' = evictedAcked \cup AckedVictims(seq)
  /\ gaps' = gaps \cup UnackedVictims(seq)
  /\ UNCHANGED ackedByAny
-----------------------------------------------------------------------------
(***************************************************************************)
(* Transmit records (SinkTx).                                              *)
(***************************************************************************)
\* A set of chunks in ascending order: the i-th has i - 1 before it.
Ascending(S) ==
  [i \in 1 .. Cardinality(S) |-> CHOOSE s \in S : Cardinality({t \in S : t < s}) = i - 1]

\* Queue a set of chunks, ascending, behind a sink's backlog.
EnqueueBackfill(k, S) ==
  /\ queued' = [queued EXCEPT ![k] = @ \cup S]
  /\ backfill' = [backfill EXCEPT ![k] = @ \o Ascending(S)]
  /\ UNCHANGED live

\* The report frame queue_gap_report adds for the gaps G, given what was
\* already reported: none when nothing is new.
ReportFrames(G, reported) == IF G \subseteq reported THEN <<>> ELSE <<G \ reported>>

\* produce: number the chunk, insert it, queue it live everywhere and
\* broadcast the gaps that the insertion declared.
Produce ==
  LET seq == nextSeq
      lost == UnackedVictims(seq)
      fresh == {k \in sinks : seq \notin queued[k]}
  IN /\ seq <= MaxSeq
     /\ nextSeq' = seq + 1
     /\ RingInsert(seq)
     /\ queued' = [k \in Sink |-> IF k \in fresh THEN queued[k] \cup {seq} ELSE queued[k]]
     /\ live' = [k \in Sink |-> IF k \in fresh THEN Append(live[k], seq) ELSE live[k]]
     /\ control' = [k \in Sink |->
          IF k \in sinks THEN control[k] \o ReportFrames(lost, gapsReported[k])
                         ELSE control[k]]
     /\ gapsReported' = [k \in Sink |->
          IF k \in sinks THEN gapsReported[k] \cup lost ELSE gapsReported[k]]
     /\ UNCHANGED <<finalSeq, sinks, connected, proven, backfill>>
-----------------------------------------------------------------------------
(***************************************************************************)
(* Completion.                                                             *)
(***************************************************************************)
\* sink_settled for a sink whose latest snapshot proves p.
Settled(p, final) == final # NoSeq /\ 0 .. final \subseteq p \cup gaps

DrainedAll(p, final) == sinks # {} /\ \A k \in sinks : Settled(p[k], final)

DrainedAny == \E k \in sinks : Settled(proven[k], finalSeq)

\* Broken variant: one settled sink is enough.
TryCloseAny(st, p, final) ==
  IF st = "Draining" /\ \E k \in sinks : Settled(p[k], final) THEN "Closed" ELSE st

\* try_close, with the values the caller has just computed.
TryClose(st, p, final) ==
  IF st = "Draining" /\ DrainedAll(p, final) THEN "Closed" ELSE st
-----------------------------------------------------------------------------
(***************************************************************************)
(* Take lifecycle.                                                         *)
(***************************************************************************)
\* arm: the header chunk, then Streaming.
Arm ==
  /\ state = "Idle"
  /\ Produce
  /\ state' = "Streaming"

PushAudio ==
  /\ state = "Streaming"
  /\ Produce
  /\ UNCHANGED state

Finish ==
  /\ state = "Streaming"
  /\ finalSeq' = nextSeq - 1
  /\ state' = TryClose("Draining", proven, nextSeq - 1)
  /\ UNCHANGED <<nextSeq, ringVars, sinks, connected, proven, queueVars, reportVars>>
-----------------------------------------------------------------------------
(***************************************************************************)
(* Sink management.                                                        *)
(***************************************************************************)
\* A new sink is owed everything still resident; re-adding is a no-op.
AddSink(k) ==
  /\ k \notin sinks
  /\ sinks' = sinks \cup {k}
  /\ EnqueueBackfill(k, chunks)
  /\ UNCHANGED <<takeVars, ringVars, connected, proven, reportVars>>

RemoveSink(k) ==
  /\ k \in sinks
  /\ sinks' = sinks \ {k}
  /\ connected' = [connected EXCEPT ![k] = FALSE]
  /\ proven' = [proven EXCEPT ![k] = {}]
  /\ queued' = [queued EXCEPT ![k] = {}]
  /\ live' = [live EXCEPT ![k] = <<>>]
  /\ backfill' = [backfill EXCEPT ![k] = <<>>]
  /\ control' = [control EXCEPT ![k] = <<>>]
  /\ gapsReported' = [gapsReported EXCEPT ![k] = {}]
  /\ UNCHANGED <<takeVars, ringVars>>

\* set_connected(true) only raises the flag; set_connected(false) demotes the
\* unsent live chunks, sorted, to the back of the backlog; each is there once
\* (QueueGuardExact).
SetConnected(k) ==
  /\ k \in sinks
  /\ connected' = [connected EXCEPT ![k] = TRUE]
  /\ UNCHANGED <<takeVars, ringVars, sinks, proven, queueVars, reportVars>>

\* Broken variant: the unsent live chunks are dropped.
SetDisconnectedDrop(k) ==
  /\ k \in sinks
  /\ connected' = [connected EXCEPT ![k] = FALSE]
  /\ queued' = [queued EXCEPT ![k] = ToSet(backfill[k])]
  /\ live' = [live EXCEPT ![k] = <<>>]
  /\ UNCHANGED <<takeVars, ringVars, sinks, proven, backfill, reportVars>>

\* Broken variant: the unsent live chunks are dropped and stay marked queued.
SetDisconnectedLossy(k) ==
  /\ k \in sinks
  /\ connected' = [connected EXCEPT ![k] = FALSE]
  /\ live' = [live EXCEPT ![k] = <<>>]
  /\ UNCHANGED <<takeVars, ringVars, sinks, proven, queued, backfill, reportVars>>

SetDisconnected(k) ==
  /\ k \in sinks
  /\ connected' = [connected EXCEPT ![k] = FALSE]
  /\ backfill' = [backfill EXCEPT ![k] = @ \o Ascending(ToSet(live[k]))]
  /\ live' = [live EXCEPT ![k] = <<>>]
  /\ UNCHANGED <<takeVars, ringVars, sinks, proven, queued, reportVars>>
-----------------------------------------------------------------------------
(***************************************************************************)
(* Inbound frames.                                                         *)
(***************************************************************************)
HandleAck(k, ack) ==
  LET held == ProvenHeld(ack)
      outstanding == (Produced \ held) \ gaps
      gapped == ack.holes \cap gaps
      proven2 == [proven EXCEPT ![k] = held]
  IN /\ k \in sinks
     /\ proven' = proven2
     /\ ackedByAny' = ackedByAny \cup held
     /\ EnqueueBackfill(k, (outstanding \cap chunks) \ queued[k])
     \* A hole that is a declared gap is reported again, whatever was said before.
     /\ control' = [control EXCEPT ![k] = @ \o ReportFrames(gapped, {})]
     /\ gapsReported' = [gapsReported EXCEPT ![k] = IF gapped = {} THEN @ ELSE gapped]
     /\ state' = TryClose(state, proven2, finalSeq)
     /\ UNCHANGED <<nextSeq, finalSeq, chunks, gaps, evictedAcked, sinks, connected>>

HandleBackfillRequest(k, wanted) ==
  LET gapped == wanted \cap gaps
  IN /\ k \in sinks
     /\ control' = [control EXCEPT ![k] = @ \o ReportFrames(gapped, gapsReported[k])]
     /\ gapsReported' = [gapsReported EXCEPT ![k] = @ \cup gapped]
     /\ EnqueueBackfill(k, (wanted \cap chunks) \ queued[k])
     /\ UNCHANGED <<takeVars, ringVars, sinks, connected, proven>>
-----------------------------------------------------------------------------
(***************************************************************************)
(* Outbound frames: gap reports, then live, then backlog.                  *)
(***************************************************************************)
\* Not sent: what the sink provably has, and what the ring no longer has.
Sendable(k, s) == s \notin proven[k] /\ s \in chunks

\* How many queued chunks pop_frame discards before one it can send.
Skipped(k, q) ==
  CHOOSE n \in 0 .. Len(q) :
     /\ \A i \in 1 .. n : ~ Sendable(k, q[i])
     /\ n < Len(q) => Sendable(k, q[n + 1])

PopReport(k, report) ==
  /\ k \in sinks /\ connected[k]
  /\ control[k] # <<>>
  /\ report = Head(control[k])
  /\ control' = [control EXCEPT ![k] = Tail(@)]
  /\ UNCHANGED <<takeVars, ringVars, sinks, connected, proven, queueVars, gapsReported>>

\* The first n chunks of the queues leave them.
DropQueued(k, n) ==
  LET q == live[k] \o backfill[k]
      fromLive == IF n <= Len(live[k]) THEN n ELSE Len(live[k])
  IN /\ queued' = [queued EXCEPT ![k] = @ \ {q[i] : i \in 1 .. n}]
     /\ live' = [live EXCEPT ![k] = SubSeq(@, fromLive + 1, Len(@))]
     /\ backfill' = [backfill EXCEPT ![k] = SubSeq(@, n - fromLive + 1, Len(@))]

PopChunk(k, seq) ==
  LET q == live[k] \o backfill[k]
      n == Skipped(k, q)
  IN /\ k \in sinks /\ connected[k]
     /\ control[k] = <<>>
     /\ n < Len(q)
     /\ seq = q[n + 1]
     /\ DropQueued(k, n + 1)
     /\ UNCHANGED <<takeVars, ringVars, sinks, connected, proven, reportVars>>

\* Everything queued was stale: the queues empty and nothing is sent.
PopNothing(k) ==
  LET q == live[k] \o backfill[k]
  IN /\ k \in sinks /\ connected[k]
     /\ control[k] = <<>>
     /\ q # <<>>
     /\ Skipped(k, q) = Len(q)
     /\ DropQueued(k, Len(q))
     /\ UNCHANGED <<takeVars, ringVars, sinks, connected, proven, reportVars>>
-----------------------------------------------------------------------------
SenderInit ==
  /\ state = "Idle"
  /\ nextSeq = 0
  /\ finalSeq = NoSeq
  /\ chunks = {} /\ ackedByAny = {} /\ gaps = {} /\ evictedAcked = {}
  /\ sinks = {}
  /\ connected = [k \in Sink |-> FALSE]
  /\ proven = [k \in Sink |-> {}]
  /\ queued = [k \in Sink |-> {}]
  /\ live = [k \in Sink |-> <<>>]
  /\ backfill = [k \in Sink |-> <<>>]
  /\ control = [k \in Sink |-> <<>>]
  /\ gapsReported = [k \in Sink |-> {}]
-----------------------------------------------------------------------------
(***************************************************************************)
(* What holds of the engine whatever its sinks do.                         *)
(***************************************************************************)
\* Ring: every chunk ever produced is resident, a declared gap, or was evicted
\* after an acknowledgement, and exactly one of these.
Accounted ==
  /\ Produced = chunks \cup gaps \cup evictedAcked
  /\ chunks \cap gaps = {} /\ chunks \cap evictedAcked = {} /\ gaps \cap evictedAcked = {}

\* Ring: over budget only when nothing but the pinned chunks is left, and the
\* pinned ones (the header and the newest chunk) are always there.
RingBounded ==
  nextSeq > 0 =>
    /\ {0, nextSeq - 1} \subseteq chunks
    /\ Bytes(chunks) <= Budget \/ chunks = {0, nextSeq - 1}

\* The dedup guard of a sink is exactly what its two queues hold, each chunk
\* once: a stale entry would keep a lost chunk from ever being queued again.
QueueGuardExact ==
  \A k \in Sink :
    LET q == live[k] \o backfill[k]
    IN queued[k] = {q[i] : i \in DOMAIN q} /\ Cardinality(queued[k]) = Len(q)
=============================================================================
