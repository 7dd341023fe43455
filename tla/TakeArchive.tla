---------------------------- MODULE TakeArchive ----------------------------
(***************************************************************************)
(* What the chunk protocol promises of one take, without any protocol:     *)
(* every chunk made is in the recorder, in some sink's durable store, or   *)
(* declared lost, and the take closes only when some sinks account for all *)
(* of it.                                                                  *)
(***************************************************************************)
EXTENDS Integers

CONSTANT Sink

VARIABLES
  made,          \* chunks made so far are 0 .. made - 1
  recorderHas,   \* chunks the recorder can still send
  sinkHas,       \* per sink: chunks in its durable store
  lost,          \* chunks declared permanently lost
  closed

archiveVars == <<made, recorderHas, sinkHas, lost, closed>>

Made == 0 .. made - 1

Archived == UNION {sinkHas[k] : k \in Sink}

ArchiveInit ==
  /\ made = 0
  /\ recorderHas = {}
  /\ sinkHas = [k \in Sink |-> {}]
  /\ lost = {}
  /\ closed = FALSE

\* The recorder makes a chunk and may drop older ones to make room: those no
\* sink has are thereby lost, and the newest is never dropped.
Make ==
  /\ ~ closed
  /\ made' = made + 1
  /\ \E dropped \in SUBSET recorderHas, sacrificed \in SUBSET recorderHas :
       /\ dropped \subseteq Archived
       /\ recorderHas' = (recorderHas \cup {made}) \ (dropped \cup sacrificed)
       /\ lost' = lost \cup sacrificed
  /\ UNCHANGED <<sinkHas, closed>>

\* A sink makes one chunk durable, for good.
Store ==
  /\ \E k \in Sink, s \in Made : sinkHas' = [sinkHas EXCEPT ![k] = @ \cup {s}]
  /\ UNCHANGED <<made, recorderHas, lost, closed>>

Close ==
  /\ \E k \in Sink : Made \subseteq sinkHas[k] \cup lost
  /\ closed' = TRUE
  /\ UNCHANGED <<made, recorderHas, sinkHas, lost>>

ArchiveNext == Make \/ Store \/ Close

ArchiveSpec == ArchiveInit /\ [][ArchiveNext]_archiveVars
=============================================================================
