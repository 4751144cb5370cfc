---------------------------- MODULE LedgerIndex ----------------------------
(***************************************************************************)
(* What the ingest side promises to the readers of the index: the cursor   *)
(* only moves forward, and it moves over events that are all indexed,      *)
(* unless the step that skips one, or an earlier one, raised a flag.       *)
(* Nothing is said of workers, endpoints, pages, batches or chunks.        *)
(***************************************************************************)
EXTENDS EventChain

VARIABLES
  chain,    \* the events of the network so far
  late,     \* those that showed up after their ledger was closed
  indexed,  \* events that are stored with all their derived rows
  cursor,   \* the ledger up to which the index is complete
  origin,   \* the ledger from which it is
  skipped   \* whether an event may have been skipped

vars == <<chain, late, indexed, cursor, origin, skipped>>

CompleteTo(from, to) ==
  \A x \in chain \ late : from <= x.ledger /\ x.ledger <= to => x \in indexed

Init ==
  /\ chain = {} /\ late = {} /\ indexed = {}
  /\ cursor = 0 /\ origin = 0 /\ skipped = FALSE

\* New events belong to ledgers after the cursor, or are late.
Emit ==
  /\ chain \subseteq chain' /\ chain' \subseteq Event
  /\ late \subseteq late' /\ late' \ late \subseteq chain' \ chain
  /\ \A x \in (chain' \ chain) \ late' : cursor < x.ledger
  /\ UNCHANGED <<indexed, cursor, origin, skipped>>

\* More events of the network are stored, and none is taken out.
Index ==
  /\ indexed \subseteq indexed' /\ indexed' \subseteq chain
  /\ UNCHANGED <<chain, late, cursor, origin, skipped>>

Skip ==
  /\ skipped' = TRUE
  /\ UNCHANGED <<chain, late, indexed, cursor, origin>>

\* The first advance fixes where the index starts.
Advance ==
  /\ cursor < cursor'
  /\ cursor # 0 => origin' = origin
  /\ skipped => skipped'
  /\ skipped' \in BOOLEAN
  /\ ~skipped' => CompleteTo(origin', cursor')
  /\ UNCHANGED <<chain, late, indexed>>

Next == Emit \/ Index \/ Skip \/ Advance

Spec == Init /\ [][Next]_vars

===========================================================================
