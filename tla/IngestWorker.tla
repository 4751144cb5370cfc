--------------------------- MODULE IngestWorker ---------------------------
(***************************************************************************)
(* The live ingest worker (`atlas worker`): IngestWorkerService.ingestOnce *)
(* run again and again against RPC endpoints that follow the network at    *)
(* their own pace, the Postgres cursor, the three ClickHouse tables and    *)
(* the Redis channel.                                                      *)
(*                                                                         *)
(* One action is one call the worker makes to another system, with the     *)
(* local computation up to the next call; between two actions the network, *)
(* the endpoints and the other workers move, a call may fail, and the      *)
(* process may be killed.  The length of the poll interval is left out: a  *)
(* worker that polls may start a cycle at any time.                        *)
(***************************************************************************)
EXTENDS EventChain

CONSTANTS
  Workers,           \* worker processes of one network
  Endpoints,         \* the RPC endpoints (RPC_URL and RPC_FALLBACK_URLS)
  NoEndpoint,        \* Pool.active = -1
  PageLimit,         \* INGEST_PAGE_LIMIT
  BatchSize,         \* INGEST_BATCH_SIZE
  RetentionLedgers,  \* RETENTION_LEDGERS
  StartKind,         \* START_LEDGER: "none", "absolute" (n) or "offset" (latest-n)
  StartValue,        \* its number n
  ReorgWindow,       \* REORG_WINDOW; 0 turns the rescan off
  AddressSlots,      \* slots whose events mention an address
  TokenSlots,        \* slots whose events are token transfers
  MaxLate,           \* bound: events that show up after their ledger was served
  MaxFaults          \* bound: failed calls and restarts

\* What config.validate leaves of the configuration.
ASSUME ConfigAssumption ==
  /\ NoEndpoint \notin Endpoints
  /\ PageLimit \in Nat \ {0}
  /\ BatchSize \in Nat \ {0}
  /\ RetentionLedgers \in Nat
  /\ StartKind \in {"none", "absolute", "offset"}
  /\ StartValue \in Nat
  /\ ReorgWindow \in Nat
  /\ MaxLate \in Nat
  /\ MaxFaults \in Nat

VARIABLES
  head,        \* the last closed ledger
  chain,       \* the events of the closed ledgers
  late,        \* history: the events of chain that showed up late
  tip,         \* the last ledger each endpoint serves
  cursor,      \* ingest_state.last_ledger; 0 when there is no row
  events,      \* ClickHouse: rows of events
  addresses,   \* ClickHouse: events that have their event_addresses rows
  tokens,      \* ClickHouse: events that have their token_events row
  published,   \* events sent over the Redis channel
  pc,          \* where each worker is
  cycle,       \* the locals of ingestOnce
  job,         \* the locals of FetchEvents
  todo,        \* fetched events that persist has still to write
  active,      \* Pool.active of each worker's process
  rescanDue,   \* lastReorg is zero or ReorgInterval has passed since
  faults,      \* how many calls have failed and processes been restarted
  origin,      \* history: where the cycle that first wrote the cursor started
  flaws        \* history: the ways in which events have been skipped so far

network == <<head, chain, late, tip>>
tables == <<events, addresses, tokens, published>>
locals == <<pc, cycle, job, todo, active, rescanDue>>
history == <<origin, flaws>>
vars == <<network, cursor, tables, locals, faults, history>>

Flaw == {"truncated", "skewed", "lagging", "coldstart"}

---------------------------------------------------------------------------
\* Pure helpers of the worker.

ParseStartLedger(latest) ==
  IF StartKind = "absolute" THEN StartValue
  ELSE IF latest <= StartValue THEN 1 ELSE latest - StartValue

\* Mutant: a cycle resumes after its cursor, and not at it.
ResumeAfterCursor(last, latest) ==
  IF last > 0 THEN last + 1
  ELSE IF latest <= RetentionLedgers THEN 0 ELSE latest - RetentionLedgers

ResolveColdStart(last, latest) ==
  IF last > 0 THEN last
  ELSE IF StartKind # "none" THEN ParseStartLedger(latest)
  ELSE IF latest <= RetentionLedgers THEN 0 ELSE latest - RetentionLedgers

ReorgFromLedger(last) ==
  IF ReorgWindow = 0 \/ last <= ReorgWindow THEN 0 ELSE last - ReorgWindow

RescanNeeded(w, last, start) ==
  /\ rescanDue[w]
  /\ ReorgFromLedger(last) # 0
  /\ ReorgFromLedger(last) < start

\* An event has all the rows persist writes for it.
Indexed(x) ==
  /\ x \in events
  /\ x.slot \in AddressSlots => x \in addresses
  /\ x.slot \in TokenSlots => x \in tokens

---------------------------------------------------------------------------
\* The worker's locals.

NoCycle == [last |-> 0, latest |-> 0, start |-> 0, next |-> 0,
            batch |-> 1, rescan |-> FALSE]

\* A FetchEvents call that starts at a ledger, with the endpoint active then.
NewJob(from, ep) == [from |-> from, acc |-> {}, pos |-> NoCursor, first |-> ep]

NoJob == NewJob(0, NoEndpoint)

Init ==
  /\ head = 0 /\ chain = {} /\ late = {}
  /\ tip = [e \in Endpoints |-> 0]
  /\ cursor = 0
  /\ events = {} /\ addresses = {} /\ tokens = {} /\ published = {}
  /\ pc = [w \in Workers |-> "poll"]
  /\ cycle = [w \in Workers |-> NoCycle]
  /\ job = [w \in Workers |-> NoJob]
  /\ todo = [w \in Workers |-> {}]
  /\ active = [w \in Workers |-> NoEndpoint]
  /\ rescanDue = [w \in Workers |-> TRUE]
  /\ faults = 0 /\ origin = 0 /\ flaws = {}

\* ingestOnce returns and the worker waits for its timer.
Return(w) ==
  /\ pc' = [pc EXCEPT ![w] = "poll"]
  /\ cycle' = [cycle EXCEPT ![w] = NoCycle]
  /\ job' = [job EXCEPT ![w] = NoJob]
  /\ todo' = [todo EXCEPT ![w] = {}]

Goto(w, label) == pc' = [pc EXCEPT ![w] = label]

---------------------------------------------------------------------------
\* The network and its endpoints.

CloseLedger ==
  /\ head < MaxLedger
  /\ head' = head + 1
  /\ \E new \in SUBSET {x \in Event : x.ledger = head + 1} : chain' = chain \cup new
  /\ UNCHANGED <<late, tip, cursor, tables, locals, faults, history>>

EndpointAdvances(e) ==
  /\ \E t \in Ledgers : tip[e] < t /\ t <= head /\ tip' = [tip EXCEPT ![e] = t]
  /\ UNCHANGED <<head, chain, late, cursor, tables, locals, faults, history>>

\* What the rescan exists for: an event of an old ledger that was not served before.
LateEvent ==
  /\ Cardinality(late) < MaxLate
  /\ \E x \in Event \ chain :
       /\ x.ledger <= head
       /\ chain' = chain \cup {x}
       /\ late' = late \cup {x}
  /\ UNCHANGED <<head, tip, cursor, tables, locals, faults, history>>

---------------------------------------------------------------------------
\* ingestOnce, up to the first fetch.

GetCursor(w) ==
  /\ pc[w] = "poll"
  /\ cycle' = [cycle EXCEPT ![w].last = cursor]
  /\ Goto(w, "latest")
  /\ UNCHANGED <<network, cursor, tables, job, todo, active, rescanDue, faults, history>>

AlreadyCaughtUp(w, e) ==
  /\ pc[w] = "latest"
  /\ ResolveColdStart(cycle[w].last, tip[e]) >= tip[e]
  /\ active' = [active EXCEPT ![w] = e]
  /\ Return(w)
  /\ UNCHANGED <<network, cursor, tables, rescanDue, faults, history>>

StartFetching(w, e) ==
  LET last   == cycle[w].last
      start  == ResolveColdStart(last, tip[e])
      rescan == RescanNeeded(w, last, start)
  IN
  /\ pc[w] = "latest"
  /\ start < tip[e]
  /\ active' = [active EXCEPT ![w] = e]
  /\ cycle' = [cycle EXCEPT ![w] =
       [last |-> last, latest |-> tip[e], start |-> start, next |-> start,
        batch |-> 1, rescan |-> rescan]]
  /\ job' = [job EXCEPT ![w] =
       NewJob(IF rescan THEN ReorgFromLedger(last) ELSE start, e)]
  /\ Goto(w, "fetch")
  /\ UNCHANGED <<network, cursor, tables, todo, rescanDue, faults, history>>

---------------------------------------------------------------------------
\* FetchEvents: one call per page, on whichever endpoint the pool gets to answer.

EndLedger(w) == IF cycle[w].rescan THEN cycle[w].start ELSE cycle[w].latest

\* The pool's last success was elsewhere, so the cursor is not sent.
MustReanchor(w) == job[w].pos # NoCursor /\ active[w] # job[w].first

Reanchor(w) ==
  /\ pc[w] = "fetch"
  /\ MustReanchor(w)
  /\ Return(w)
  /\ UNCHANGED <<network, cursor, tables, active, rescanDue, faults, history>>

\* What endpoint e has for the request: the end of the range is not part of it.
Served(w, e) ==
  {x \in chain : /\ x.batch = cycle[w].batch
                 /\ x.ledger <= tip[e]
                 /\ IF job[w].pos = NoCursor THEN job[w].from <= x.ledger
                                             ELSE Precedes(job[w].pos, x)}

Page(w, e) == FirstN(Served(w, e), PageLimit)

\* Mutant: the next ledger taken for the first one that is not served yet.
NextLedgerPastTip(w, e) == Larger(job[w].from, tip[e] + 1)

\* A cursor is an id the endpoint has served: its ledger is never past the tip.
NextLedger(w, e) == Larger(job[w].from, tip[e])

\* The page is the last one although the response carries a cursor.
FetchEnds(w, e) ==
  \/ Page(w, e) = {}
  \/ Cardinality(job[w].acc \cup Page(w, e)) >= PageLimit
  \/ NextLedger(w, e) >= EndLedger(w)

CanFetch(w, e) ==
  /\ pc[w] = "fetch"
  /\ ~MustReanchor(w)
  /\ job[w].from <= tip[e]

NoteTruncation(w, e) ==
  flaws' = IF cycle[w].rescan \/ Page(w, e) = Served(w, e)
             THEN flaws ELSE flaws \cup {"truncated"}

FetchNextPage(w, e) ==
  /\ CanFetch(w, e)
  /\ ~FetchEnds(w, e)
  /\ \E x \in Page(w, e) :
       /\ IsLast(x, Page(w, e))
       /\ job' = [job EXCEPT ![w] =
            [from |-> NextLedger(w, e), acc |-> job[w].acc \cup Page(w, e),
             pos |-> x, first |-> job[w].first]]
  /\ active' = [active EXCEPT ![w] = e]
  /\ NoteTruncation(w, e)
  /\ UNCHANGED <<network, cursor, tables, pc, cycle, todo, rescanDue, faults, origin>>

\* The fetch ends, by the tests above or because the response carries no cursor.
FetchLastPage(w, e) ==
  /\ CanFetch(w, e)
  /\ job' = [job EXCEPT ![w] = NewJob(NextLedger(w, e), NoEndpoint)]
  /\ todo' = [todo EXCEPT ![w] = job[w].acc \cup Page(w, e)]
  /\ active' = [active EXCEPT ![w] = e]
  /\ Goto(w, "persist")
  /\ NoteTruncation(w, e)
  /\ UNCHANGED <<network, cursor, tables, cycle, rescanDue, faults, origin>>

---------------------------------------------------------------------------
\* persist: chunk by chunk, each chunk into three tables and then to Redis.

Chunk(w) == FirstN(todo[w], BatchSize)

\* Mutant: the error of the events insert is dropped.
UpsertBatchUnchecked(w) ==
  /\ pc[w] = "persist"
  /\ todo[w] # {}
  /\ events' \in {events, events \cup Chunk(w)}
  /\ Goto(w, "addresses")
  /\ UNCHANGED <<network, cursor, addresses, tokens, published,
                 cycle, job, todo, active, rescanDue, faults, history>>

UpsertBatch(w) ==
  /\ pc[w] = "persist"
  /\ todo[w] # {}
  /\ events' = events \cup Chunk(w)
  /\ Goto(w, "addresses")
  /\ UNCHANGED <<network, cursor, addresses, tokens, published,
                 cycle, job, todo, active, rescanDue, faults, history>>

\* Mutant: the chunk is published before its token rows are written.
UpsertAddressesAndPublish(w) ==
  /\ pc[w] = "addresses"
  /\ addresses' = addresses \cup {x \in Chunk(w) : x.slot \in AddressSlots}
  /\ published' = published \cup Chunk(w)
  /\ Goto(w, "tokens")
  /\ UNCHANGED <<network, cursor, events, tokens,
                 cycle, job, todo, active, rescanDue, faults, history>>

UpsertAddresses(w) ==
  /\ pc[w] = "addresses"
  /\ addresses' = addresses \cup {x \in Chunk(w) : x.slot \in AddressSlots}
  /\ Goto(w, "tokens")
  /\ UNCHANGED <<network, cursor, events, tokens, published,
                 cycle, job, todo, active, rescanDue, faults, history>>

UpsertTokenEvents(w) ==
  /\ pc[w] = "tokens"
  /\ tokens' = tokens \cup {x \in Chunk(w) : x.slot \in TokenSlots}
  /\ Goto(w, "publish")
  /\ UNCHANGED <<network, cursor, events, addresses, published,
                 cycle, job, todo, active, rescanDue, faults, history>>

\* A publish that fails is logged and the chunk counts as done.
PublishIngest(w) ==
  /\ pc[w] = "publish"
  /\ published' \in {published, published \cup Chunk(w)}
  /\ todo' = [todo EXCEPT ![w] = todo[w] \ Chunk(w)]
  /\ Goto(w, "persist")
  /\ UNCHANGED <<network, cursor, events, addresses, tokens,
                 cycle, job, active, rescanDue, faults, history>>

---------------------------------------------------------------------------
\* The loops over the filter batches, and the end of the cycle.

Persisted(w) == pc[w] = "persist" /\ todo[w] = {}

\* cursorLedger: the rescan ignores what its fetches return.
CursorLedger(w) ==
  IF cycle[w].rescan THEN cycle[w].next ELSE Larger(cycle[w].next, job[w].from)

\* The endpoints were at different ledgers when they served two batches.
NoteSkew(w) ==
  flaws' = IF cycle[w].rescan \/ cycle[w].batch = 1 \/ job[w].from = cycle[w].next
             THEN flaws ELSE flaws \cup {"skewed"}

\* Mutant: the loop over the filter batches runs once too often.
NextFilterBatchTooFar(w) ==
  /\ Persisted(w)
  /\ cycle[w].batch <= NumBatches
  /\ cycle' = [cycle EXCEPT ![w].batch = cycle[w].batch + 1]
  /\ job' = [job EXCEPT ![w] = NewJob(cycle[w].start, active[w])]
  /\ Goto(w, "fetch")
  /\ UNCHANGED <<network, cursor, tables, todo, active, rescanDue, faults, history>>

NextFilterBatch(w) ==
  /\ Persisted(w)
  /\ cycle[w].batch < NumBatches
  /\ cycle' = [cycle EXCEPT ![w] =
       [cycle[w] EXCEPT !.batch = cycle[w].batch + 1, !.next = CursorLedger(w)]]
  /\ job' = [job EXCEPT ![w] =
       NewJob(IF cycle[w].rescan THEN ReorgFromLedger(cycle[w].last) ELSE cycle[w].start,
              active[w])]
  /\ Goto(w, "fetch")
  /\ NoteSkew(w)
  /\ UNCHANGED <<network, cursor, tables, todo, active, rescanDue, faults, origin>>

RescanDone(w) ==
  /\ Persisted(w)
  /\ cycle[w].rescan
  /\ cycle[w].batch = NumBatches
  /\ rescanDue' = [rescanDue EXCEPT ![w] = FALSE]
  /\ cycle' = [cycle EXCEPT ![w] = [cycle[w] EXCEPT !.rescan = FALSE, !.batch = 1]]
  /\ job' = [job EXCEPT ![w] = NewJob(cycle[w].start, active[w])]
  /\ Goto(w, "fetch")
  /\ UNCHANGED <<network, cursor, tables, todo, active, faults, history>>

BatchesDone(w) ==
  /\ Persisted(w)
  /\ ~cycle[w].rescan
  /\ cycle[w].batch = NumBatches
  /\ cycle' = [cycle EXCEPT ![w].next = CursorLedger(w)]
  /\ job' = [job EXCEPT ![w] = NoJob]
  /\ Goto(w, "upsert")
  /\ NoteSkew(w)
  /\ UNCHANGED <<network, cursor, tables, todo, active, rescanDue, faults, origin>>

\* No batch got past the old cursor: the endpoint that answered lags behind the one
\* that gave the latest ledger.
NoProgress(w) == cycle[w].next <= cycle[w].last

\* A second cold start: another worker wrote the first cursor while this one fetched.
LateColdStart(w) == cycle[w].last = 0 /\ cursor # 0 /\ cursor < cycle[w].start

\* Mutant: the upsert overwrites the cursor without GREATEST.
OverwriteCursor(w) ==
  /\ pc[w] = "upsert"
  /\ cursor' = IF NoProgress(w) THEN cycle[w].latest ELSE cycle[w].next
  /\ origin' = IF cursor = 0 THEN cycle[w].start ELSE origin
  /\ flaws' = flaws
  /\ Return(w)
  /\ UNCHANGED <<network, tables, active, rescanDue, faults>>

UpsertCursor(w) ==
  LET next == IF NoProgress(w) THEN cycle[w].latest ELSE cycle[w].next
  IN
  /\ pc[w] = "upsert"
  /\ cursor' = Larger(cursor, next)
  /\ origin' = IF cursor = 0 THEN cycle[w].start ELSE origin
  /\ flaws' = flaws \cup (IF NoProgress(w) THEN {"lagging"} ELSE {})
                    \cup (IF LateColdStart(w) THEN {"coldstart"} ELSE {})
  /\ Return(w)
  /\ UNCHANGED <<network, tables, active, rescanDue, faults>>

---------------------------------------------------------------------------
\* Time, failures and restarts.

ReorgIntervalElapses(w) ==
  /\ ~rescanDue[w]
  /\ rescanDue' = [rescanDue EXCEPT ![w] = TRUE]
  /\ UNCHANGED <<network, cursor, tables, pc, cycle, job, todo, active, faults, history>>

\* Mutant: persist logs the error of a chunk and goes on with the next.
SkipFailedChunk(w) ==
  /\ faults < MaxFaults
  /\ faults' = faults + 1
  /\ pc[w] \in {"persist", "addresses", "tokens"}
  /\ todo' = [todo EXCEPT ![w] = todo[w] \ Chunk(w)]
  /\ Goto(w, "persist")
  /\ UNCHANGED <<network, cursor, tables, cycle, job, active, rescanDue, history>>

\* The call the worker makes at its place returns an error: RPC, Postgres or ClickHouse,
\* before or after it took effect.
CycleFails(w) ==
  /\ faults < MaxFaults
  /\ faults' = faults + 1
  /\ pc[w] # "poll"
  /\ Return(w)
  /\ UNCHANGED <<network, cursor, tables, active, rescanDue, history>>

\* The process is killed and started again: what it kept in memory is gone.
Restart(w) ==
  /\ faults < MaxFaults
  /\ faults' = faults + 1
  /\ Return(w)
  /\ active' = [active EXCEPT ![w] = NoEndpoint]
  /\ rescanDue' = [rescanDue EXCEPT ![w] = TRUE]
  /\ UNCHANGED <<network, cursor, tables, history>>

---------------------------------------------------------------------------

Fetch(w) ==
  \/ Reanchor(w)
  \/ \E e \in Endpoints : FetchNextPage(w, e) \/ FetchLastPage(w, e)

Persist(w) ==
  \/ UpsertBatch(w)
  \/ UpsertAddresses(w)
  \/ UpsertTokenEvents(w)
  \/ PublishIngest(w)

IngestOnce(w) ==
  \/ GetCursor(w)
  \/ \E e \in Endpoints : AlreadyCaughtUp(w, e) \/ StartFetching(w, e)
  \/ Fetch(w)
  \/ Persist(w)
  \/ NextFilterBatch(w)
  \/ RescanDone(w)
  \/ BatchesDone(w)
  \/ UpsertCursor(w)

Network ==
  \/ CloseLedger
  \/ LateEvent
  \/ \E e \in Endpoints : EndpointAdvances(e)

Next ==
  \/ Network
  \/ \E w \in Workers : IngestOnce(w) \/ ReorgIntervalElapses(w) \/ CycleFails(w) \/ Restart(w)

Spec == Init /\ [][Next]_vars

\* Run's loop always starts the next cycle and a live endpoint follows the network; the
\* network need not go on, and a failure may come at any time.
Fairness ==
  /\ \A w \in Workers : WF_vars(IngestOnce(w))
  /\ \A e \in Endpoints : WF_vars(EndpointAdvances(e))

FairSpec == Spec /\ Fairness

---------------------------------------------------------------------------

CycleType ==
  [last : Nat, latest : Nat, start : Nat, next : Nat,
   batch : 1 .. NumBatches, rescan : BOOLEAN]

JobType ==
  [from : Nat, acc : SUBSET Event, pos : Event \cup {NoCursor},
   first : Endpoints \cup {NoEndpoint}]

\* Every variable stays in its set: the chain and the tables hold events of the bounded
\* network, and the ledgers a worker computes (ResolveColdStart, FetchEvents) are numbers.
TypeOK ==
  /\ head \in Ledgers
  /\ chain \in SUBSET Event
  /\ late \in SUBSET Event
  /\ tip \in [Endpoints -> Ledgers]
  /\ cursor \in Nat
  /\ events \in SUBSET Event
  /\ addresses \in SUBSET Event
  /\ tokens \in SUBSET Event
  /\ published \in SUBSET Event
  /\ pc \in [Workers -> {"poll", "latest", "fetch", "persist", "addresses", "tokens",
                         "publish", "upsert"}]
  /\ cycle \in [Workers -> CycleType]
  /\ job \in [Workers -> JobType]
  /\ todo \in [Workers -> SUBSET Event]
  /\ active \in [Workers -> Endpoints \cup {NoEndpoint}]
  /\ rescanDue \in [Workers -> BOOLEAN]
  /\ faults \in Nat
  /\ origin \in Nat
  /\ flaws \in SUBSET Flaw

\* The cursor promises that everything before it is in the index.  Events between the
\* first cycle's start and the cursor are stored with their derived rows, through every
\* crash, failed call, partial persist and race of workers, unless one of the four ways
\* of skipping has occurred: a full page (truncated), batches served at different tips
\* (skewed), an answer from an endpoint that lags (lagging), two cold starts (coldstart).
CursorCoverage ==
  flaws = {} =>
    \A x \in chain \ late :
      origin <= x.ledger /\ x.ledger <= cursor => Indexed(x)

\* The same promise without the exceptions: README.md:7 has `atlas worker` "Poll RPC,
\* persist L1 raw XDR + L2 generic JSON, derived tables, cursor".
NothingSkipped ==
  \A x \in chain \ late :
    origin <= x.ledger /\ x.ledger <= cursor => Indexed(x)

\* The worker publishes a chunk after it is persisted (lib/realtime/message.go:17): what
\* a subscriber hears of can be queried with its derived rows, whatever failed before.
PublishedAreIndexed == \A x \in published : Indexed(x)

\* No derived row without its event: an address or token row is only written after the
\* event row, also when the process dies between the three inserts of persist.
DerivedRowsHaveEvents == addresses \cup tokens \subseteq events

\* The cursor never passes the last closed ledger, even when it is taken from another
\* endpoint than the one that served the events (the fallback of ingestOnce).
CursorWithinNetwork == cursor <= head

\* Workers that overlap, or one that wakes up late, never move the cursor back: the
\* upsert takes the GREATEST of the stored and the new ledger.
CursorNeverRegresses == [][cursor <= cursor']_vars

IndexedEvents == {x \in chain : Indexed(x)}

Skipped == flaws # {}

Index == INSTANCE LedgerIndex WITH indexed <- IndexedEvents, skipped <- Skipped

\* The ingest side keeps the promise of LedgerIndex: each of its steps is a step of the
\* abstract index or changes nothing there.
ImplementsLedgerIndex == Index!Spec

\* Every event the worker has not skipped is indexed in the end: a cycle that was cut
\* anywhere (half a persist, a reanchor, no cursor written) is made up for by those after.
EventuallyIndexed ==
  \A x \in Event :
    x \in chain ~> \/ Indexed(x)
                   \/ x.ledger < origin \/ x \in late \/ flaws # {}

===========================================================================
