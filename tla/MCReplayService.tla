-------------------------- MODULE MCReplayService --------------------------
(***************************************************************************)
(* Small instances of the replay: how many events each ledger has.         *)
(***************************************************************************)
EXTENDS ReplayService

OneEach == [l \in 1 .. MaxLedger |-> 1]

\* A ledger whose events a listing can cut, inside a window or at its end.
TwoInTheSecond == [l \in 1 .. MaxLedger |-> IF l = 2 THEN 2 ELSE 1]

===========================================================================
