--------------------------- MODULE MCTakeControl ---------------------------
(***************************************************************************)
(* Small instances of TakeControl; the configurations give every bound.    *)
(***************************************************************************)
EXTENDS TakeControl
=============================================================================
