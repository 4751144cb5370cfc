--------------------------- MODULE MCRealtimeHub ---------------------------
(***************************************************************************)
(* A small instance of the hub: every event belongs to the first network,  *)
(* and a snapshot has room for fewer events than a chunk holds.            *)
(***************************************************************************)
EXTENDS RealtimeHub

CONSTANTS n1

AllOfFirst == [e \in Events |-> n1]
OneChunk == {{1, 2}}

===========================================================================
