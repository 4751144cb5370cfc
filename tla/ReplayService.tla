--------------------------- MODULE ReplayService ---------------------------
(***************************************************************************)
(* `atlas replay`: ReplayService.Run lists stored events window by window, *)
(* decodes them again and writes them back, while the live worker inserts  *)
(* and ClickHouse merges.                                                  *)
(*                                                                         *)
(* The events table is a ReplacingMergeTree that is read without FINAL: an *)
(* event that was written again is there several times until a merge, and  *)
(* every copy counts against the LIMIT of ListByLedgerRange.               *)
(***************************************************************************)
EXTENDS Integers, FiniteSets, FiniteSetsExt

CONSTANTS
  MaxLedger,      \* bound: the last ledger with events
  EventsOf,       \* how many events each ledger has
  BatchSize,      \* REPLAY_BATCH_SIZE: ledgers of a window, and rows of a listing
  MaxCopies,      \* bound: unmerged copies of an event
  MaxFaults       \* bound: calls that fail

ASSUME ReplayAssumption ==
  /\ MaxLedger \in Nat \ {0}
  /\ EventsOf \in [1 .. MaxLedger -> Nat]
  /\ BatchSize \in Nat \ {0}
  /\ MaxCopies \in Nat \ {0}
  /\ MaxFaults \in Nat

VARIABLES
  copies,     \* how many rows the events table holds of each event
  from, to,   \* the ledgers on the command line; to = 0 is open-ended
  pc,         \* where Run is
  cursor,     \* its local: the ledger the next window starts at
  chunk,      \* its local: the events listed
  full,       \* history: the listing left out rows of its window
  wanted,     \* history: the events in range when the replay was started
  replayed,   \* history: events this replay has written
  derived,    \* history: those whose address and token rows it has written too
  truncated,  \* history: a window was left with rows that were never listed
  stalled,    \* history: a round has ended at the ledger where it began
  faults      \* how many calls have failed

range == <<from, to>>
history == <<wanted, replayed, derived, truncated, stalled>>
vars == <<copies, range, pc, cursor, chunk, full, history, faults>>

Event == UNION {[ledger : {l}, slot : 1 .. EventsOf[l]] : l \in 1 .. MaxLedger}

\* ORDER BY ledger ASC, id ASC
Precedes(x, y) ==
  \/ x.ledger < y.ledger
  \/ x.ledger = y.ledger /\ x.slot < y.slot

InRange(x) == from <= x.ledger /\ (to > 0 => x.ledger <= to)

Init ==
  /\ copies \in [Event -> 0 .. 1]
  /\ from \in 0 .. MaxLedger /\ to \in 0 .. MaxLedger
  /\ pc = "start" /\ cursor = 0 /\ chunk = {} /\ full = FALSE
  /\ wanted = {} /\ replayed = {} /\ derived = {}
  /\ truncated = FALSE /\ stalled = FALSE /\ faults = 0

---------------------------------------------------------------------------
\* Run.

InvalidRange ==
  /\ pc = "start"
  /\ to > 0 /\ from > to
  /\ pc' = "failed"
  /\ UNCHANGED <<copies, range, cursor, chunk, full, history, faults>>

Begin ==
  /\ pc = "start"
  /\ to = 0 \/ from <= to
  /\ pc' = "list"
  /\ cursor' = from
  /\ wanted' = {x \in Event : copies[x] > 0 /\ InRange(x)}
  /\ replayed' = {} /\ derived' = {} /\ truncated' = FALSE /\ stalled' = FALSE
  /\ UNCHANGED <<copies, range, chunk, full, faults>>

\* Mutant: the last window is not cut at the end of the range.
UpperUnclamped == cursor + BatchSize - 1

Upper ==
  IF to > 0 /\ cursor + BatchSize - 1 > to THEN to ELSE cursor + BatchSize - 1

Window == {x \in Event : copies[x] > 0 /\ cursor <= x.ledger /\ x.ledger <= Upper}

\* How many rows hold the events of S: one for each copy.
RowsOf(S) == Cardinality({r \in S \X (1 .. MaxCopies) : r[2] <= copies[r[1]]})

\* ListByLedgerRange: the events among the first BatchSize rows of the window.
Listed == {x \in Window : RowsOf({y \in Window : Precedes(y, x)}) < BatchSize}

PastTheEnd == to > 0 /\ cursor > to

Finish ==
  /\ pc = "list"
  /\ PastTheEnd \/ (Listed = {} /\ (to = 0 \/ cursor >= to))
  /\ pc' = "done"
  /\ UNCHANGED <<copies, range, cursor, chunk, full, history, faults>>

\* Mutant: the listing is tried again, without moving the window.
SkipNothing ==
  /\ pc = "list"
  /\ ~PastTheEnd /\ Listed = {} /\ to > 0 /\ cursor < to
  /\ UNCHANGED vars

SkipWindow ==
  /\ pc = "list"
  /\ ~PastTheEnd /\ Listed = {} /\ to > 0 /\ cursor < to
  /\ cursor' = Upper + 1
  /\ UNCHANGED <<copies, range, pc, chunk, full, history, faults>>

ListByLedgerRange ==
  /\ pc = "list"
  /\ ~PastTheEnd /\ Listed # {}
  /\ chunk' = Listed
  /\ full' = (RowsOf(Window) > BatchSize)
  /\ pc' = "events"
  /\ UNCHANGED <<copies, range, cursor, history, faults>>

\* Insert one more row for every event of S (ClickHouse keeps one of the rows of an event
\* that are in the same insert).
Inserted(S) ==
  [x \in Event |-> IF x \in S /\ copies[x] < MaxCopies THEN copies[x] + 1 ELSE copies[x]]

UpsertBatch ==
  /\ pc = "events"
  /\ copies' = Inserted(chunk)
  /\ replayed' = replayed \cup chunk
  /\ pc' = "addresses"
  /\ UNCHANGED <<range, cursor, chunk, full, wanted, derived, truncated, stalled, faults>>

UpsertAddresses ==
  /\ pc = "addresses"
  /\ pc' = "tokens"
  /\ UNCHANGED <<copies, range, cursor, chunk, full, history, faults>>

LastLedger == Max({x.ledger : x \in chunk})

\* Mutant: the next window starts after the last ledger listed.
UpsertTokenEventsAndPass ==
  /\ pc = "tokens"
  /\ derived' = derived \cup chunk
  /\ cursor' = LastLedger + 1
  /\ truncated' = (truncated \/ (full /\ LastLedger >= Upper))
  /\ stalled' = stalled
  /\ pc' = "list"
  /\ UNCHANGED <<copies, range, chunk, full, wanted, replayed, faults>>

\* The next window starts at the last ledger listed, whose rows may not all have been.
UpsertTokenEvents ==
  /\ pc = "tokens"
  /\ derived' = derived \cup chunk
  /\ cursor' = IF LastLedger >= Upper THEN Upper + 1 ELSE LastLedger
  /\ truncated' = (truncated \/ (full /\ LastLedger >= Upper))
  /\ stalled' = (stalled \/ cursor' = cursor)
  /\ pc' = "list"
  /\ UNCHANGED <<copies, range, chunk, full, wanted, replayed, faults>>

---------------------------------------------------------------------------
\* Failures, the operator, and who else touches the table.

CallFails ==
  /\ pc \in {"list", "events", "addresses", "tokens"}
  /\ faults < MaxFaults
  /\ faults' = faults + 1
  /\ pc' = "failed"
  /\ UNCHANGED <<copies, range, cursor, chunk, full, history>>

\* The operator runs the same command again: nothing is kept of the replay that failed.
RunAgain ==
  /\ pc = "failed" /\ faults > 0 /\ (to = 0 \/ from <= to)
  /\ pc' = "start"
  /\ cursor' = 0 /\ chunk' = {} /\ full' = FALSE
  /\ UNCHANGED <<copies, range, history, faults>>

\* The live worker, or a backfill, writes an event for the first time or again.
IngestEvent(x) ==
  /\ copies[x] < MaxCopies
  /\ copies' = Inserted({x})
  /\ UNCHANGED <<range, pc, cursor, chunk, full, history, faults>>

\* ClickHouse merges parts of a month: of the copies in them one stays.
Merge(x) ==
  /\ \E n \in 1 .. copies[x] - 1 : copies' = [copies EXCEPT ![x] = n]
  /\ UNCHANGED <<range, pc, cursor, chunk, full, history, faults>>

---------------------------------------------------------------------------

Run ==
  \/ InvalidRange
  \/ Begin
  \/ Finish
  \/ SkipWindow
  \/ ListByLedgerRange
  \/ UpsertBatch
  \/ UpsertAddresses
  \/ UpsertTokenEvents

Next ==
  \/ Run
  \/ CallFails
  \/ RunAgain
  \/ \E x \in Event : IngestEvent(x) \/ Merge(x)

Spec == Init /\ [][Next]_vars

\* A replay that runs goes on; failures, inserts and merges may come or not.
FairSpec == Spec /\ WF_vars(Run)

---------------------------------------------------------------------------

\* Every variable stays in its set, and a replay with an end never lists past it.
TypeOK ==
  /\ copies \in [Event -> 0 .. MaxCopies]
  /\ from \in 0 .. MaxLedger /\ to \in 0 .. MaxLedger
  /\ pc \in {"start", "list", "events", "addresses", "tokens", "done", "failed"}
  /\ cursor \in Nat
  /\ to > 0 => cursor <= to + 1
  /\ chunk \in SUBSET Event
  /\ full \in BOOLEAN
  /\ wanted \in SUBSET Event /\ replayed \in SUBSET Event /\ derived \in SUBSET replayed
  /\ truncated \in BOOLEAN /\ stalled \in BOOLEAN
  /\ faults \in 0 .. MaxFaults

\* Only what was asked for is listed and rewritten, and all variables stay in their sets: the
\* cursor is never more than one past the end, and an event outside the range keeps its decoding.
OnlyTheRange == TypeOK /\ \A x \in replayed : InRange(x)

\* A replay with an end that reports completion has rewritten every event that was in the
\* range when it began, with its derived rows, however rows were duplicated, merged and
\* inserted under it and wherever windows cut a ledger; unless a listing was full and its
\* last ledger the last of the window (then the rest of that ledger was passed over).
CompletedCoversRange ==
  pc = "done" /\ to > 0 /\ ~truncated => wanted \subseteq derived

\* A replay comes to an end, unless a round ends where it began.
EndsUnlessStalled == <>(pc \in {"done", "failed"} \/ stalled)

\* A replay comes to an end: cmd/replay/replay.go:28 calls it an "idempotent upsert" over
\* stored events, and Run reports "decoder replay completed" when it has gone over them.
ReplayEnds == <>(pc \in {"done", "failed"})

===========================================================================
