-------------------------- MODULE BackfillService --------------------------
(***************************************************************************)
(* `atlas backfill`: BackfillService.Run fetches a range of ledgers window *)
(* by window, one fetch for each batch of watched contracts, and keeps its *)
(* progress in backfill_state, a row per network.  Nothing stops an        *)
(* operator from starting a second backfill of the network: both then      *)
(* write the same row.                                                     *)
(***************************************************************************)
EXTENDS Integers, FiniteSets, FiniteSetsExt

CONSTANTS
  Endpoints,    \* STELLAR_RPC_URL and its fallbacks
  NoEndpoint,   \* Pool.active before the first success
  Runs,         \* backfills an operator starts
  Commands,     \* their ranges: first and last ledger; last = 0 is up to the latest
  MaxLedger,    \* bound: the last ledger with events
  Batches,      \* the watched contracts are fetched in batches 1 .. Batches
  Events,       \* the events on chain: a ledger, and the batch of the contract
  BatchSize,    \* BACKFILL_BATCH_SIZE: ledgers of a window
  PageLimit,    \* INGEST_PAGE_LIMIT: events of a fetch
  NoRun,
  MaxFaults,    \* bound: calls that fail and processes that are killed
  MaxReruns     \* bound: commands that failed and are given again

ASSUME BackfillAssumption ==
  /\ Commands \subseteq [from : 1 .. MaxLedger, to : 0 .. MaxLedger]
  /\ MaxLedger \in Nat \ {0} /\ Batches \in Nat \ {0}
  /\ Events \subseteq [ledger : 1 .. MaxLedger, batch : 1 .. Batches] /\ IsFiniteSet(Events)
  /\ BatchSize \in Nat \ {0} /\ PageLimit \in Nat \ {0}
  /\ NoRun \notin Runs /\ NoEndpoint \notin Endpoints
  /\ MaxFaults \in Nat /\ MaxReruns \in Nat

VARIABLES
  tip,         \* the last ledger each endpoint serves
  row,         \* backfill_state of the network
  stored,      \* events in the events table
  derived,     \* events whose address and token rows are written
  command,     \* the arguments of each run
  pc,          \* where each Run is
  last,        \* its local: the last ledger of the range
  cursor,      \* its local: first ledger of the window
  batch,       \* its local: the batch of contracts it fetches
  chunk,       \* its local: the events fetched
  active,      \* Pool.active of its process
  first,       \* FetchEvents' local: the endpoint active when the fetch began
  pos,         \* FetchEvents' local: the ledger of its cursor; 0 when there is none
  wanted,      \* history: events on chain in the range when the run started
  missed,      \* history: those that a fetch of their window ended without
  overlapped,  \* history: a run was started while another one was under way
  owner,       \* history: the run that started last
  faults, reruns

tables == <<stored, derived>>
paging == <<first, pos>>
locals == <<last, cursor, batch, chunk, active, paging>>
history == <<wanted, missed, overlapped, owner>>
bounds == <<faults, reruns>>
vars == <<tip, row, tables, command, pc, locals, history, bounds>>

Row == [next : Nat, status : {"idle", "running", "completed"}]

UnderWay == {r \in Runs : pc[r] \notin {"new", "done", "failed"}}

Init ==
  /\ tip \in [Endpoints -> 1 .. MaxLedger]
  /\ row = [next |-> 0, status |-> "idle"]
  /\ stored = {} /\ derived = {}
  /\ command \in [Runs -> Commands]
  /\ pc = [r \in Runs |-> "new"]
  /\ last = [r \in Runs |-> 0] /\ cursor = [r \in Runs |-> 0]
  /\ batch = [r \in Runs |-> 1]
  /\ chunk = [r \in Runs |-> {}]
  /\ active = [r \in Runs |-> NoEndpoint] /\ first = [r \in Runs |-> NoEndpoint]
  /\ pos = [r \in Runs |-> 0]
  /\ wanted = [r \in Runs |-> {}] /\ missed = [r \in Runs |-> {}]
  /\ overlapped = FALSE /\ owner = NoRun
  /\ faults = 0 /\ reruns = 0

Goto(r, label) == pc' = [pc EXCEPT ![r] = label]

\* FetchEvents returns.
EndPaging(r) ==
  /\ first' = [first EXCEPT ![r] = NoEndpoint]
  /\ pos' = [pos EXCEPT ![r] = 0]

\* Run returns, and the process with its locals is gone.
Return(r, result) ==
  /\ Goto(r, result)
  /\ last' = [last EXCEPT ![r] = 0] /\ cursor' = [cursor EXCEPT ![r] = 0]
  /\ batch' = [batch EXCEPT ![r] = 1]
  /\ chunk' = [chunk EXCEPT ![r] = {}]
  /\ active' = [active EXCEPT ![r] = NoEndpoint]
  /\ EndPaging(r)

\* What is on chain: some endpoint serves it.
Closed == {x \in Events : \E e \in Endpoints : x.ledger <= tip[e]}

---------------------------------------------------------------------------
\* Run.

InvalidRange(r) ==
  /\ pc[r] = "new"
  /\ command[r].to > 0 /\ command[r].from > command[r].to
  /\ Return(r, "failed")
  /\ UNCHANGED <<tip, row, tables, command, history, bounds>>

LatestLedger(r, e) ==
  /\ pc[r] = "new"
  /\ command[r].to = 0
  /\ last' = [last EXCEPT ![r] = tip[e]]
  /\ active' = [active EXCEPT ![r] = e]
  /\ Goto(r, "start")
  /\ UNCHANGED <<tip, row, tables, command, cursor, batch, chunk, paging, history, bounds>>

GivenRange(r) ==
  /\ pc[r] = "new"
  /\ command[r].to > 0 /\ command[r].from <= command[r].to
  /\ last' = [last EXCEPT ![r] = command[r].to]
  /\ Goto(r, "start")
  /\ UNCHANGED <<tip, row, tables, command, cursor, batch, chunk, active, paging, history,
                 bounds>>

\* What a run that starts has to index; history only.
Starting(r) ==
  /\ wanted' = [wanted EXCEPT ![r] =
       {x \in Closed : command[r].from <= x.ledger /\ x.ledger <= last[r]}]
  /\ missed' = [missed EXCEPT ![r] = {}]
  /\ overlapped' = (overlapped \/ UnderWay # {r})
  /\ owner' = r

\* Mutant: ON CONFLICT keeps next_ledger, so that the run resumes where the row is.
StartKeepsProgress(r) ==
  /\ pc[r] = "start"
  /\ LET next == IF row.status = "idle" THEN command[r].from ELSE row.next IN
       /\ row' = [next |-> next, status |-> "running"]
       /\ cursor' = [cursor EXCEPT ![r] = next]
  /\ Starting(r)
  /\ Goto(r, "window")
  /\ UNCHANGED <<tip, tables, command, last, batch, chunk, active, paging, bounds>>

\* ON CONFLICT resets next_ledger, so that the run begins at its first ledger.
Start(r) ==
  /\ pc[r] = "start"
  /\ row' = [next |-> command[r].from, status |-> "running"]
  /\ cursor' = [cursor EXCEPT ![r] = command[r].from]
  /\ Starting(r)
  /\ Goto(r, "window")
  /\ UNCHANGED <<tip, tables, command, last, batch, chunk, active, paging, bounds>>

End(r) == IF cursor[r] + BatchSize - 1 > last[r] THEN last[r] ELSE cursor[r] + BatchSize - 1

BeginWindow(r) ==
  /\ pc[r] = "window"
  /\ cursor[r] <= last[r]
  /\ batch' = [batch EXCEPT ![r] = 1]
  /\ Goto(r, "fetch")
  /\ UNCHANGED <<tip, row, tables, command, last, cursor, chunk, active, paging, history,
                 bounds>>

\* The next batch of the window, or its end.
NextBatch(r) ==
  IF batch[r] < Batches
    THEN batch' = [batch EXCEPT ![r] = batch[r] + 1] /\ Goto(r, "fetch")
    ELSE UNCHANGED batch /\ Goto(r, "progress")

---------------------------------------------------------------------------
\* FetchEvents: one call per page, on whichever endpoint the pool gets to answer.

\* The pool's last success was elsewhere, so the cursor is not sent.  The first fetch of a
\* run that asked for no latest ledger has no endpoint to compare with.
MustReanchor(r) == pos[r] # 0 /\ first[r] # NoEndpoint /\ active[r] # first[r]

Reanchor(r) ==
  /\ pc[r] = "fetch"
  /\ MustReanchor(r)
  /\ Return(r, "failed")
  /\ UNCHANGED <<tip, row, tables, command, history, bounds>>

\* An endpoint answers from a ledger it has.
CanFetch(r, e) ==
  /\ pc[r] = "fetch"
  /\ ~MustReanchor(r)
  /\ IF pos[r] = 0 THEN cursor[r] <= tip[e] ELSE pos[r] <= tip[e]

\* The request names the contracts and where to begin; the end of the window is not in it.
Served(r, e) ==
  {x \in Events : /\ x.batch = batch[r]
                  /\ x.ledger <= tip[e]
                  /\ IF pos[r] = 0 THEN cursor[r] <= x.ledger ELSE pos[r] < x.ledger}

\* The first PageLimit of them (the events of a batch have distinct ledgers).
Page(r, e) ==
  {x \in Served(r, e) :
     Cardinality({y \in Served(r, e) : y.ledger < x.ledger}) < PageLimit}

Fetched(r, e) == chunk[r] \cup Page(r, e)

\* The page is the last one although the response carries a cursor.
FetchEnds(r, e) ==
  \/ Page(r, e) = {}
  \/ Cardinality(Fetched(r, e)) >= PageLimit
  \/ tip[e] >= End(r)

FetchNextPage(r, e) ==
  /\ CanFetch(r, e)
  /\ ~FetchEnds(r, e)
  /\ chunk' = [chunk EXCEPT ![r] = Fetched(r, e)]
  /\ \E x \in Page(r, e) :
       /\ \A y \in Page(r, e) : y.ledger <= x.ledger
       /\ pos' = [pos EXCEPT ![r] = x.ledger]
  /\ first' = [first EXCEPT ![r] = IF pos[r] = 0 THEN active[r] ELSE first[r]]
  /\ active' = [active EXCEPT ![r] = e]
  /\ UNCHANGED <<tip, row, tables, command, pc, last, cursor, batch, history, bounds>>

\* History only.  A fetch that ends with endpoint e's answer leaves out the events of the
\* window beyond the page limit, and those that this endpoint does not have yet.
NoteMissed(r, e) ==
  missed' = [missed EXCEPT ![r] = missed[r] \cup
    {x \in wanted[r] : /\ x.batch = batch[r]
                       /\ cursor[r] <= x.ledger /\ x.ledger <= End(r)
                       /\ x \in Served(r, e) \ Page(r, e) \/ tip[e] < x.ledger}]

\* The fetch ends, by the tests above or because the response carries no cursor.
LastPage(r, e) ==
  /\ CanFetch(r, e)
  /\ NoteMissed(r, e)
  /\ active' = [active EXCEPT ![r] = e]
  /\ EndPaging(r)

\* What a fetch gets from ledgers after the window is written as well.
FetchEvents(r, e) ==
  /\ LastPage(r, e)
  /\ Fetched(r, e) # {}
  /\ chunk' = [chunk EXCEPT ![r] = Fetched(r, e)]
  /\ Goto(r, "events")
  /\ UNCHANGED <<tip, row, tables, command, last, cursor, batch, wanted, overlapped, owner,
                 bounds>>

FetchNothing(r, e) ==
  /\ LastPage(r, e)
  /\ Fetched(r, e) = {}
  /\ NextBatch(r)
  /\ UNCHANGED <<tip, row, tables, command, last, cursor, chunk, wanted, overlapped, owner,
                 bounds>>

\* An endpoint refuses a first ledger it does not have yet: the call fails when all of them do.
FetchRefused(r) ==
  /\ pc[r] = "fetch"
  /\ pos[r] = 0 /\ \A e \in Endpoints : cursor[r] > tip[e]
  /\ Return(r, "failed")
  /\ UNCHANGED <<tip, row, tables, command, history, bounds>>

---------------------------------------------------------------------------
\* The writes of a window, and its end.

UpsertBatch(r) ==
  /\ pc[r] = "events"
  /\ stored' = stored \cup chunk[r]
  /\ Goto(r, "derived")
  /\ UNCHANGED <<tip, row, derived, command, locals, history, bounds>>

\* UpsertAddresses and UpsertTokenEvents.
UpsertDerived(r) ==
  /\ pc[r] = "derived"
  /\ derived' = derived \cup chunk[r]
  /\ chunk' = [chunk EXCEPT ![r] = {}]
  /\ NextBatch(r)
  /\ UNCHANGED <<tip, row, stored, command, last, cursor, active, paging, history, bounds>>

\* WHERE status = 'running': when another run has completed the row, this one fails.
UpdateProgress(r) ==
  /\ pc[r] = "progress"
  /\ IF row.status = "running"
       THEN /\ row' = [row EXCEPT !.next = End(r) + 1]
            /\ cursor' = [cursor EXCEPT ![r] = End(r) + 1]
            /\ Goto(r, "window")
            /\ UNCHANGED <<last, batch, chunk, active, paging>>
       ELSE Return(r, "failed") /\ UNCHANGED row
  /\ UNCHANGED <<tip, tables, command, history, bounds>>

Complete(r) ==
  /\ pc[r] = "window"
  /\ cursor[r] > last[r]
  /\ row' = [row EXCEPT !.status = "completed"]
  /\ Return(r, "done")
  /\ UNCHANGED <<tip, tables, command, history, bounds>>

---------------------------------------------------------------------------
\* Failures, the operator and the chain.

\* Mutant: a fetch or an insert that fails is only logged.
CallWarns(r) ==
  /\ pc[r] \in {"fetch", "events", "derived"}
  /\ faults < MaxFaults
  /\ faults' = faults + 1
  /\ Goto(r, "progress")
  /\ UNCHANGED <<tip, row, tables, command, locals, history, reruns>>

\* A call fails, or the process is told to stop or killed.
CallFails(r) ==
  /\ r \in UnderWay
  /\ faults < MaxFaults
  /\ faults' = faults + 1
  /\ Return(r, "failed")
  /\ UNCHANGED <<tip, row, tables, command, history, reruns>>

\* The operator gives a command that failed again.
RunAgain(r) ==
  /\ pc[r] = "failed"
  /\ reruns < MaxReruns
  /\ reruns' = reruns + 1
  /\ Goto(r, "new")
  /\ UNCHANGED <<tip, row, tables, command, locals, history, faults>>

EndpointAdvances(e) ==
  /\ tip[e] < MaxLedger
  /\ tip' = [tip EXCEPT ![e] = tip[e] + 1]
  /\ UNCHANGED <<row, tables, command, pc, locals, history, bounds>>

---------------------------------------------------------------------------

Step(r) ==
  \/ InvalidRange(r)
  \/ \E e \in Endpoints : LatestLedger(r, e)
  \/ GivenRange(r)
  \/ Start(r)
  \/ BeginWindow(r)
  \/ \E e \in Endpoints : FetchNextPage(r, e) \/ FetchEvents(r, e) \/ FetchNothing(r, e)
  \/ Reanchor(r)
  \/ FetchRefused(r)
  \/ UpsertBatch(r)
  \/ UpsertDerived(r)
  \/ UpdateProgress(r)
  \/ Complete(r)

Next ==
  \/ \E r \in Runs : Step(r) \/ CallFails(r) \/ RunAgain(r)
  \/ \E e \in Endpoints : EndpointAdvances(e)

Spec == Init /\ [][Next]_vars

---------------------------------------------------------------------------

\* Every variable stays in its set, and a run does not fetch past its range.
TypeOK ==
  /\ tip \in [Endpoints -> 1 .. MaxLedger]
  /\ row \in Row
  /\ stored \in SUBSET Events /\ derived \in SUBSET stored
  /\ command \in [Runs -> Commands]
  /\ pc \in [Runs -> {"new", "start", "window", "fetch", "events", "derived", "progress",
                      "done", "failed"}]
  /\ last \in [Runs -> 0 .. MaxLedger] /\ cursor \in [Runs -> Nat]
  /\ \A r \in Runs : pc[r] = "fetch" => End(r) <= last[r]
  /\ batch \in [Runs -> 1 .. Batches]
  /\ chunk \in [Runs -> SUBSET Events]
  /\ active \in [Runs -> Endpoints \cup {NoEndpoint}]
  /\ first \in [Runs -> Endpoints \cup {NoEndpoint}]
  /\ pos \in [Runs -> 0 .. MaxLedger]
  /\ wanted \in [Runs -> SUBSET Events] /\ missed \in [Runs -> SUBSET Events]
  /\ overlapped \in BOOLEAN /\ owner \in Runs \cup {NoRun}
  /\ faults \in 0 .. MaxFaults /\ reruns \in 0 .. MaxReruns

\* A backfill that succeeds has indexed every event that was on chain in its range when it
\* started, with its derived rows, but for those its fetches ended without: whatever ran
\* beside it, however often it was run before, and whatever the row said.  The exception is
\* not reported by the code.  A window with more than PageLimit events of a batch loses the
\* rest, and a window whose last page came from an endpoint behind the others loses what
\* that endpoint did not have; UpdateProgress passes over both.  Every variable stays in its
\* set, and no run fetches past its range.
FinishedRunCoversRange ==
  TypeOK /\ \A r \in Runs : pc[r] = "done" => wanted[r] \ missed[r] \subseteq derived

\* As long as no two backfills of the network overlap, the row can be believed, with the same
\* exception: what lies before next_ledger is indexed, and all of the range once the status
\* is completed.
RowTellsProgress ==
  ~overlapped /\ owner # NoRun =>
    /\ {x \in wanted[owner] \ missed[owner] : x.ledger < row.next} \subseteq derived
    /\ row.status = "completed" => wanted[owner] \ missed[owner] \subseteq derived

===========================================================================
