---------------------------- MODULE EventChain ----------------------------
(***************************************************************************)
(* The events of one Stellar network, as the ingest code sees them.        *)
(*                                                                         *)
(* An event is known by the ledger that emitted it, by the filter batch    *)
(* its contract falls into (the RPC takes at most 25 contract ids per      *)
(* request, so the watched list is cut into batches) and by its slot: its  *)
(* position within that ledger and batch.  The id the RPC gives an event   *)
(* orders the events of a batch by ledger and then by slot, and the        *)
(* pagination cursor is such an id.                                        *)
(***************************************************************************)
EXTENDS Integers, FiniteSets

CONSTANTS
  WatchedContracts,   \* how many contract ids WATCHED_CONTRACTS lists; 0 watches all
  MaxLedger,          \* bound: the last ledger the network closes
  EventsPerLedger     \* bound: events of one filter batch in one ledger

\* The watched list can be empty, and then one batch without a filter asks for all.
ASSUME WatchedAssumption == WatchedContracts \in Nat

\* There is something to ingest.
ASSUME BoundsAssumption ==
  /\ MaxLedger \in Nat \ {0}
  /\ EventsPerLedger \in Nat \ {0}

---------------------------------------------------------------------------

FilterSize == 25

NumBatches ==
  IF WatchedContracts = 0
    THEN 1
    ELSE (WatchedContracts + FilterSize - 1) \div FilterSize

Ledgers == 0 .. MaxLedger

Event == [ledger : 1 .. MaxLedger, batch : 1 .. NumBatches, slot : 1 .. EventsPerLedger]

\* The empty cursor string: a position before every event.
NoCursor == [ledger |-> 0, batch |-> 0, slot |-> 0]

\* The order of event ids, and so of pages, cursors and persisted chunks.
Precedes(x, y) ==
  \/ x.ledger < y.ledger
  \/ x.ledger = y.ledger /\ x.slot < y.slot

\* The first n events of S: a page of the RPC, or a chunk of persist.
FirstN(S, n) == {x \in S : Cardinality({y \in S : Precedes(y, x)}) < n}

IsLast(x, S) == x \in S /\ \A y \in S \ {x} : Precedes(y, x)

Larger(m, n) == IF m > n THEN m ELSE n

===========================================================================
