------------------------------ MODULE MCSinks -------------------------------
(***************************************************************************)
(* Three scenes of a take without the liveness of MCChunkProtocol, and so  *)
(* larger: both sinks from the middle of a take on, one frame on each      *)
(* link, one ACK in flight and no fault; and either sink alone from the    *)
(* take's beginning, with faults, the second only in a take of three       *)
(* chunks.                                                                 *)
(***************************************************************************)
EXTENDS MCChunkProtocol

\* The sink that is alone, or "both".
VARIABLE scene

SceneInit ==
  \/ scene = "both" /\ MidTake
  \/ scene \in Sink /\ Init

\* Bounds of the scene with two sinks.
InMidTake ==
  /\ faults = 0 /\ nextSeq <= 3
  /\ \A k \in Sink : Len(toSink[k]) <= 1 /\ Len(control[k]) <= 1
  /\ \A j, k \in Sink : toRecorder[j] # <<>> /\ toRecorder[k] # <<>> => j = k

\* Bounds of a scene with one.
OtherStaysOut ==
  /\ \A k \in Sink \ {scene} :
       k \notin sinks' /\ UNCHANGED <<connected[k], held[k], recvFinal[k], busy[k]>>
  /\ faults' = 2 => nextSeq' <= 3

SceneNext ==
  \/ scene = "both" /\ Next /\ InMidTake' /\ UNCHANGED scene
  \/ scene \in Sink /\ Next /\ OtherStaysOut /\ UNCHANGED scene

SceneSpec == SceneInit /\ [][SceneNext]_<<vars, scene>>
=============================================================================
