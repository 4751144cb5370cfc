------------------------ MODULE IngestWorkerProofs ------------------------
(***************************************************************************)
(* Theorems about the ingest worker, for every number of workers,          *)
(* endpoints, watched contracts and ledgers, every page and batch size and *)
(* every start, reorg and retention setting that ConfigAssumption allows.  *)
(***************************************************************************)
EXTENDS IngestWorker, TLAPS

---------------------------------------------------------------------------
\* The operators of EventChain and the helpers of the worker.

\* There is at least one filter batch, also when no contract is listed.
LEMMA NumBatchesPositive == NumBatches \in Nat /\ NumBatches >= 1
  BY WatchedAssumption DEF NumBatches, FilterSize

\* A page or a chunk is part of what it is cut from.
LEMMA FirstNSubset == ASSUME NEW S, NEW n PROVE FirstN(S, n) \subseteq S
  BY DEF FirstN

\* The larger of two ledgers is one of them, and at least as large as both.
LEMMA LargerProperties ==
  ASSUME NEW m \in Nat, NEW n \in Nat
  PROVE  /\ Larger(m, n) \in Nat
         /\ Larger(m, n) >= m /\ Larger(m, n) >= n
         /\ Larger(m, n) = m \/ Larger(m, n) = n
  BY DEF Larger

\* ResolveColdStart and ReorgFromLedger compute ledger numbers: no subtraction wraps.
LEMMA LedgerArithmetic ==
  ASSUME NEW last \in Nat, NEW latest \in Nat
  PROVE  /\ ResolveColdStart(last, latest) \in Nat
         /\ last > 0 => ResolveColdStart(last, latest) = last
         /\ ReorgFromLedger(last) \in Nat
         /\ ReorgFromLedger(last) <= last
  BY ConfigAssumption DEF ResolveColdStart, ParseStartLedger, ReorgFromLedger

\* What the locals of a worker and the tips hold are ledger numbers.
LEMMA LocalTypes ==
  ASSUME TypeOK, NEW w \in Workers
  PROVE  /\ cycle[w].last \in Nat /\ cycle[w].latest \in Nat /\ cycle[w].start \in Nat
         /\ cycle[w].next \in Nat /\ cycle[w].batch \in 1 .. NumBatches
         /\ cycle[w].rescan \in BOOLEAN
         /\ job[w].from \in Nat /\ job[w].acc \in SUBSET Event
         /\ todo[w] \in SUBSET Event
         /\ \A e \in Endpoints : tip[e] \in Nat /\ NextLedger(w, e) \in Nat
         /\ CursorLedger(w) \in Nat
<1>1. /\ cycle[w] \in CycleType /\ job[w] \in JobType /\ todo[w] \in SUBSET Event
      /\ \A e \in Endpoints : tip[e] \in Nat
  BY BoundsAssumption DEF TypeOK, Ledgers
<1>2. \A e \in Endpoints : NextLedger(w, e) \in Nat
  BY <1>1, LargerProperties DEF NextLedger, JobType
<1>3. CursorLedger(w) \in Nat
  BY <1>1, LargerProperties DEF CursorLedger, JobType, CycleType
<1> QED
  BY <1>1, <1>2, <1>3 DEF CycleType, JobType

---------------------------------------------------------------------------
\* Type correctness.

LEMMA InitTypeOK == Init => TypeOK
  BY BoundsAssumption, NumBatchesPositive
     DEF Init, TypeOK, Ledgers, CycleType, JobType, NoCycle, NoJob, NewJob

\* Returning from ingestOnce leaves well-typed locals.
LEMMA ReturnTypes ==
  ASSUME TypeOK, NEW w \in Workers, Return(w)
  PROVE  /\ pc' \in [Workers -> {"poll", "latest", "fetch", "persist", "addresses",
                                 "tokens", "publish", "upsert"}]
         /\ cycle' \in [Workers -> CycleType]
         /\ job' \in [Workers -> JobType]
         /\ todo' \in [Workers -> SUBSET Event]
  BY NumBatchesPositive
     DEF TypeOK, Return, CycleType, JobType, NoCycle, NoJob, NewJob

LEMMA NextTypeOK == TypeOK /\ [Next]_vars => TypeOK'
<1> SUFFICES ASSUME TypeOK, [Next]_vars PROVE TypeOK'
  OBVIOUS
<1> USE NumBatchesPositive, BoundsAssumption DEF network, tables, locals, history, Goto
<1>1. CASE CloseLedger
  BY <1>1 DEF CloseLedger, TypeOK, Ledgers
<1>2. CASE LateEvent
  BY <1>2 DEF LateEvent, TypeOK
<1>3. ASSUME NEW e \in Endpoints, EndpointAdvances(e) PROVE TypeOK'
  BY <1>3 DEF EndpointAdvances, TypeOK
<1>4. ASSUME NEW w \in Workers, GetCursor(w) PROVE TypeOK'
  BY <1>4 DEF GetCursor, TypeOK, CycleType
<1>5. ASSUME NEW w \in Workers, NEW e \in Endpoints, AlreadyCaughtUp(w, e) PROVE TypeOK'
  BY <1>5, ReturnTypes DEF AlreadyCaughtUp, TypeOK
<1>6. ASSUME NEW w \in Workers, NEW e \in Endpoints, StartFetching(w, e) PROVE TypeOK'
  <2> DEFINE last == cycle[w].last
             start == ResolveColdStart(last, tip[e])
             rescan == RescanNeeded(w, last, start)
  <2>1. last \in Nat /\ tip[e] \in Nat
    BY LocalTypes
  <2>2. start \in Nat /\ ReorgFromLedger(last) \in Nat
    BY <2>1, LedgerArithmetic
  <2>3. rescan \in BOOLEAN
    BY DEF RescanNeeded, TypeOK
  <2>4. cycle' \in [Workers -> CycleType]
    BY <1>6, <2>1, <2>2, <2>3 DEF StartFetching, TypeOK, CycleType
  <2>5. job' \in [Workers -> JobType]
    BY <1>6, <2>2 DEF StartFetching, TypeOK, JobType, NewJob
  <2> QED
    BY <1>6, <2>4, <2>5 DEF StartFetching, TypeOK
<1>7. ASSUME NEW w \in Workers, Reanchor(w) PROVE TypeOK'
  BY <1>7, ReturnTypes DEF Reanchor, TypeOK
<1>8. ASSUME NEW w \in Workers, NEW e \in Endpoints, FetchNextPage(w, e) PROVE TypeOK'
  <2>1. Page(w, e) \subseteq Event
    <3>1. Page(w, e) \subseteq Served(w, e)
      BY FirstNSubset DEF Page
    <3> QED
      BY <3>1 DEF Served, TypeOK
  <2>2. NextLedger(w, e) \in Nat
    BY LocalTypes
  <2>3. flaws' \in SUBSET Flaw
    BY <1>8 DEF FetchNextPage, NoteTruncation, TypeOK, Flaw
  <2>4. job' \in [Workers -> JobType]
    BY <1>8, <2>1, <2>2 DEF FetchNextPage, TypeOK, JobType
  <2> QED
    BY <1>8, <2>3, <2>4 DEF FetchNextPage, TypeOK
<1>9. ASSUME NEW w \in Workers, NEW e \in Endpoints, FetchLastPage(w, e) PROVE TypeOK'
  <2>1. Page(w, e) \subseteq Event
    <3>1. Page(w, e) \subseteq Served(w, e)
      BY FirstNSubset DEF Page
    <3> QED
      BY <3>1 DEF Served, TypeOK
  <2>2. NextLedger(w, e) \in Nat
    BY LocalTypes
  <2>3. flaws' \in SUBSET Flaw
    BY <1>9 DEF FetchLastPage, NoteTruncation, TypeOK, Flaw
  <2>4. job' \in [Workers -> JobType]
    BY <1>9, <2>2 DEF FetchLastPage, TypeOK, JobType, NewJob
  <2>5. todo' \in [Workers -> SUBSET Event]
    BY <1>9, <2>1 DEF FetchLastPage, TypeOK, JobType
  <2> QED
    BY <1>9, <2>3, <2>4, <2>5 DEF FetchLastPage, TypeOK
<1>10. ASSUME NEW w \in Workers, Persist(w) PROVE TypeOK'
  <2>1. Chunk(w) \subseteq Event
    BY FirstNSubset DEF Chunk, TypeOK
  <2> QED
    BY <1>10, <2>1
       DEF Persist, UpsertBatch, UpsertAddresses, UpsertTokenEvents, PublishIngest, TypeOK
<1>11. ASSUME NEW w \in Workers, NextFilterBatch(w) PROVE TypeOK'
  <2>1. CursorLedger(w) \in Nat /\ ReorgFromLedger(cycle[w].last) \in Nat
    BY LocalTypes, LedgerArithmetic
  <2>2. cycle' \in [Workers -> CycleType]
    <3> DEFINE new == [cycle[w] EXCEPT !.batch = cycle[w].batch + 1, !.next = CursorLedger(w)]
    <3>1. cycle[w] \in CycleType /\ cycle[w].batch + 1 \in 1 .. NumBatches
      BY <1>11, LocalTypes DEF NextFilterBatch, TypeOK
    <3>2. new \in CycleType
      BY <2>1, <3>1 DEF CycleType
    <3> QED
      BY <1>11, <3>2 DEF NextFilterBatch, TypeOK
  <2>3. job' \in [Workers -> JobType]
    BY <1>11, <2>1 DEF NextFilterBatch, TypeOK, CycleType, JobType, NewJob
  <2>4. flaws' \in SUBSET Flaw
    BY <1>11 DEF NextFilterBatch, NoteSkew, TypeOK, Flaw
  <2> QED
    BY <1>11, <2>2, <2>3, <2>4 DEF NextFilterBatch, TypeOK
<1>12. ASSUME NEW w \in Workers, RescanDone(w) PROVE TypeOK'
  <2>1. cycle' \in [Workers -> CycleType]
    <3> DEFINE new == [cycle[w] EXCEPT !.rescan = FALSE, !.batch = 1]
    <3>1. cycle[w] \in CycleType
      BY DEF TypeOK
    <3>2. FALSE \in BOOLEAN /\ 1 \in 1 .. NumBatches
      OBVIOUS
    <3>3. new \in CycleType
      BY <3>1, <3>2, Zenon DEF CycleType
    <3> QED
      BY <1>12, <3>3 DEF RescanDone, TypeOK
  <2>2. job' \in [Workers -> JobType]
    BY <1>12 DEF RescanDone, TypeOK, CycleType, JobType, NewJob
  <2> QED
    BY <1>12, <2>1, <2>2 DEF RescanDone, TypeOK
<1>13. ASSUME NEW w \in Workers, BatchesDone(w) PROVE TypeOK'
  <2>1. CursorLedger(w) \in Nat
    BY LocalTypes
  <2>2. cycle' \in [Workers -> CycleType]
    BY <1>13, <2>1 DEF BatchesDone, TypeOK, CycleType
  <2>3. job' \in [Workers -> JobType]
    BY <1>13 DEF BatchesDone, TypeOK, JobType, NoJob, NewJob
  <2>4. flaws' \in SUBSET Flaw
    BY <1>13 DEF BatchesDone, NoteSkew, TypeOK, Flaw
  <2> QED
    BY <1>13, <2>2, <2>3, <2>4 DEF BatchesDone, TypeOK
<1>14. ASSUME NEW w \in Workers, UpsertCursor(w) PROVE TypeOK'
  <2>1. cursor' \in Nat /\ origin' \in Nat
    BY <1>14, LargerProperties DEF UpsertCursor, TypeOK, CycleType
  <2>2. flaws' \in SUBSET Flaw
    BY <1>14 DEF UpsertCursor, TypeOK, Flaw
  <2> QED
    BY <1>14, <2>1, <2>2, ReturnTypes DEF UpsertCursor, TypeOK
<1>15. ASSUME NEW w \in Workers, ReorgIntervalElapses(w) PROVE TypeOK'
  BY <1>15 DEF ReorgIntervalElapses, TypeOK
<1>16. ASSUME NEW w \in Workers, CycleFails(w) PROVE TypeOK'
  BY <1>16, ReturnTypes DEF CycleFails, TypeOK
<1>17. ASSUME NEW w \in Workers, Restart(w) PROVE TypeOK'
  BY <1>17, ReturnTypes DEF Restart, TypeOK
<1>18. CASE UNCHANGED vars
  BY <1>18 DEF vars, TypeOK
<1> QED
  BY <1>1, <1>2, <1>3, <1>4, <1>5, <1>6, <1>7, <1>8, <1>9, <1>10, <1>11, <1>12, <1>13,
     <1>14, <1>15, <1>16, <1>17, <1>18
     DEF Next, Network, IngestOnce, Fetch

\* Type correctness: every step of a worker, the network or a failure keeps every
\* variable, the locals of ingestOnce and FetchEvents included, in its set.
THEOREM TypeCorrect == Spec => []TypeOK
  BY InitTypeOK, NextTypeOK, PTL DEF Spec

---------------------------------------------------------------------------
(***************************************************************************)
(* The inductive invariant.  CursorCoverage says nothing of a cycle that   *)
(* is under way, so it is not inductive: what the cursor may be set to is  *)
(* decided by what the fetches returned and persist has written.  The      *)
(* parts below follow an event from the chain to the cursor.               *)
(***************************************************************************)

\* No ledger anybody holds is past the last closed one.
LocalsWithin(w) ==
  /\ cycle[w].last <= cursor
  /\ cycle[w].latest <= head /\ cycle[w].start <= head /\ cycle[w].next <= head
  /\ job[w].from <= head

WithinNetwork ==
  /\ CursorWithinNetwork
  /\ \A e \in Endpoints : tip[e] <= head
  /\ \A x \in chain : x.ledger <= head
  /\ \A w \in Workers : LocalsWithin(w)

\* What is fetched or stored is an event of the chain.
FetchedAreReal ==
  /\ events \subseteq chain
  /\ \A w \in Workers : job[w].acc \subseteq chain /\ todo[w] \subseteq chain

\* The chunk a worker is writing is in the tables it has already visited.
ChunkWritten(w) ==
  /\ pc[w] \in {"addresses", "tokens", "publish"} => Chunk(w) \subseteq events
  /\ pc[w] \in {"tokens", "publish"} =>
       \A x \in Chunk(w) : x.slot \in AddressSlots => x \in addresses
  /\ pc[w] = "publish" =>
       \A x \in Chunk(w) : x.slot \in TokenSlots => x \in tokens

RowsInOrder ==
  /\ DerivedRowsHaveEvents
  /\ PublishedAreIndexed
  /\ \A w \in Workers : ChunkWritten(w)

Persisting == {"persist", "addresses", "tokens", "publish"}

\* How the ledgers of a cycle relate while it fetches and persists.
CycleShape(w) ==
  /\ pc[w] \in {"fetch", "upsert"} \cup Persisting =>
       /\ cycle[w].last > 0 => cycle[w].start = cycle[w].last
       /\ cycle[w].start <= cycle[w].next
       /\ cycle[w].last < cycle[w].latest
  /\ pc[w] \in {"fetch"} \cup Persisting =>
       /\ cycle[w].rescan \/ cycle[w].batch = 1 => cycle[w].next = cycle[w].start
       /\ ~cycle[w].rescan => cycle[w].start <= job[w].from
  /\ pc[w] = "fetch" =>
       IF job[w].pos = NoCursor
         THEN job[w].acc = {} /\ (~cycle[w].rescan => job[w].from = cycle[w].start)
         ELSE job[w].pos.ledger <= job[w].from
  /\ pc[w] = "upsert" => ~cycle[w].rescan

\* The events a cycle that reaches ledger l has to account for.
Owed(w, l) == {x \in chain \ late : cycle[w].start <= x.ledger /\ x.ledger <= l}

\* They are fetched, or on their way through persist, or indexed.
CycleCoverage(w) ==
  /\ pc[w] = "fetch" /\ ~cycle[w].rescan /\ job[w].pos # NoCursor =>
       \A x \in Owed(w, job[w].from) : x.batch = cycle[w].batch => x \in job[w].acc
  /\ pc[w] \in Persisting /\ ~cycle[w].rescan =>
       \A x \in Owed(w, job[w].from) :
         x.batch = cycle[w].batch => x \in todo[w] \/ Indexed(x)
  /\ pc[w] \in {"fetch"} \cup Persisting /\ ~cycle[w].rescan =>
       \A x \in Owed(w, cycle[w].next) : x.batch < cycle[w].batch => Indexed(x)
  /\ pc[w] = "upsert" =>
       \A x \in Owed(w, cycle[w].next) : Indexed(x)

Coverage ==
  /\ CursorCoverage
  /\ flaws = {} => \A w \in Workers : CycleCoverage(w)

Shapes == \A w \in Workers : CycleShape(w)

---------------------------------------------------------------------------
\* What a step leaves alone.

WorkerStep(w) ==
  IngestOnce(w) \/ ReorgIntervalElapses(w) \/ CycleFails(w) \/ Restart(w)

\* Next, by who takes the step.
LEMMA NextSplit ==
  ASSUME [Next]_vars
  PROVE  Network \/ (\E w \in Workers : WorkerStep(w)) \/ UNCHANGED vars
  BY DEF Next, WorkerStep

\* The locals of a worker that is back at its timer.
LEMMA ReturnLocals ==
  ASSUME TypeOK, NEW w \in Workers, Return(w)
  PROVE  /\ pc'[w] = "poll" /\ cycle'[w] = NoCycle /\ job'[w] = NoJob /\ todo'[w] = {}
         /\ \A v \in Workers \ {w} : /\ pc'[v] = pc[v] /\ cycle'[v] = cycle[v]
                                     /\ job'[v] = job[v] /\ todo'[v] = todo[v]
  BY DEF TypeOK, Return

\* A worker's step touches no other worker's locals and nothing of the network.
LEMMA WorkerStepFrame ==
  ASSUME TypeOK, NEW w \in Workers, WorkerStep(w)
  PROVE  /\ UNCHANGED network
         /\ \A v \in Workers \ {w} : /\ pc'[v] = pc[v] /\ cycle'[v] = cycle[v]
                                     /\ job'[v] = job[v] /\ todo'[v] = todo[v]
<1> USE DEF network, Goto
<1>1. CASE Return(w)
  BY <1>1, ReturnLocals
     DEF WorkerStep, IngestOnce, Fetch, Persist, GetCursor, AlreadyCaughtUp, StartFetching,
         Reanchor, FetchNextPage, FetchLastPage, UpsertBatch, UpsertAddresses,
         UpsertTokenEvents, PublishIngest, NextFilterBatch, RescanDone, BatchesDone,
         UpsertCursor, ReorgIntervalElapses, CycleFails, Restart
<1>2. CASE ~Return(w)
  BY <1>2
     DEF TypeOK, WorkerStep, IngestOnce, Fetch, Persist, GetCursor, AlreadyCaughtUp,
         StartFetching, Reanchor, FetchNextPage, FetchLastPage, UpsertBatch,
         UpsertAddresses, UpsertTokenEvents, PublishIngest, NextFilterBatch, RescanDone,
         BatchesDone, UpsertCursor, ReorgIntervalElapses, CycleFails, Restart
<1> QED
  BY <1>1, <1>2

\* The network goes on without touching the index or a worker; a new event belongs to a
\* new ledger or is late.
LEMMA NetworkFrame ==
  ASSUME TypeOK, Network
  PROVE  /\ UNCHANGED <<cursor, events, addresses, tokens, published,
                        pc, cycle, job, todo, origin, flaws>>
         /\ head <= head' /\ chain \subseteq chain' /\ late \subseteq late'
         /\ late' \ late \subseteq chain' \ chain
         /\ \A x \in (chain' \ late') \ (chain \ late) : x.ledger = head + 1
         /\ \A x \in chain' \ chain : x.ledger <= head'
         /\ \A e \in Endpoints : tip'[e] = tip[e] \/ tip'[e] <= head'
<1> USE DEF network, tables, locals, history
<1>1. CASE CloseLedger
  BY <1>1 DEF CloseLedger, TypeOK, Ledgers
<1>2. CASE LateEvent
  BY <1>2 DEF LateEvent, TypeOK, Ledgers
<1>3. CASE \E e \in Endpoints : EndpointAdvances(e)
  BY <1>3 DEF EndpointAdvances, TypeOK, Ledgers
<1> QED
  BY <1>1, <1>2, <1>3 DEF Network

\* The cursor is written by the last step of a cycle only, and the tables by persist.
LEMMA WorkerStepWrites ==
  ASSUME NEW w \in Workers, WorkerStep(w)
  PROVE  /\ UNCHANGED <<cursor, origin>> \/ UpsertCursor(w)
         /\ UNCHANGED tables \/ Persist(w)
  BY DEF WorkerStep, IngestOnce, Fetch, GetCursor, AlreadyCaughtUp, StartFetching, Reanchor,
         FetchNextPage, FetchLastPage, UpsertBatch, UpsertAddresses, UpsertTokenEvents,
         PublishIngest, Persist, NextFilterBatch, RescanDone, BatchesDone, UpsertCursor,
         ReorgIntervalElapses, CycleFails, Restart, history

---------------------------------------------------------------------------
\* The cursor stays within the network.

LEMMA InitWithinNetwork == Init => WithinNetwork
  BY DEF Init, WithinNetwork, CursorWithinNetwork, LocalsWithin, NoCycle, NoJob, NewJob

\* The step of a worker keeps its own ledgers within the network.
LEMMA StepLocalsWithin ==
  ASSUME TypeOK, WithinNetwork, NEW w \in Workers, WorkerStep(w), cursor <= cursor'
  PROVE  LocalsWithin(w)'
<1> USE DEF Goto
<1>0. /\ head \in Nat /\ cursor \in Nat /\ cursor' \in Nat
      /\ head' = head /\ tip' = tip
      /\ LocalsWithin(w)
      /\ \A e \in Endpoints : tip[e] <= head
  BY BoundsAssumption, NextTypeOK, WorkerStepFrame
     DEF TypeOK, Ledgers, network, WithinNetwork, Next, WorkerStep
<1>1. CASE Return(w)
  BY <1>0, <1>1, ReturnLocals DEF LocalsWithin, NoCycle, NoJob, NewJob
<1>2. CASE GetCursor(w)
  <2>1. /\ cycle'[w] = [cycle[w] EXCEPT !.last = cursor] /\ job'[w] = job[w]
        /\ cursor' = cursor /\ cycle[w] \in CycleType
    BY <1>2 DEF GetCursor, TypeOK
  <2> QED
    BY <1>0, <2>1 DEF LocalsWithin, CycleType
<1>3. ASSUME NEW e \in Endpoints, StartFetching(w, e) PROVE LocalsWithin(w)'
  <2> DEFINE last == cycle[w].last
             start == ResolveColdStart(last, tip[e])
             from == IF RescanNeeded(w, last, start) THEN ReorgFromLedger(last) ELSE start
  <2>1. last \in Nat /\ tip[e] \in Nat /\ start \in Nat /\ from \in Nat
    BY LocalTypes, LedgerArithmetic
  <2>2. from <= start
    <3>1. RescanNeeded(w, last, start) => ReorgFromLedger(last) < start
      BY DEF RescanNeeded
    <3>2. from = ReorgFromLedger(last) \/ from = start
      BY Zenon
    <3>3. from = ReorgFromLedger(last) => RescanNeeded(w, last, start) \/ from = start
      BY Zenon
    <3> HIDE DEF from, start
    <3> QED
      BY <2>1, <3>1, <3>2, <3>3
  <2>3. /\ cycle'[w].last = last /\ cycle'[w].latest = tip[e]
        /\ cycle'[w].start = start /\ cycle'[w].next = start
        /\ job'[w].from = from /\ start < tip[e] /\ cursor' = cursor
    BY <1>3 DEF StartFetching, TypeOK, NewJob
  <2> QED
    BY <1>0, <2>1, <2>2, <2>3 DEF LocalsWithin
<1>4. ASSUME NEW e \in Endpoints, FetchNextPage(w, e) \/ FetchLastPage(w, e)
      PROVE  LocalsWithin(w)'
  <2>1. /\ cycle'[w] = cycle[w] /\ cursor' = cursor
        /\ job'[w].from = NextLedger(w, e)
    BY <1>4 DEF FetchNextPage, FetchLastPage, TypeOK, NewJob
  <2>2. NextLedger(w, e) <= head
    BY <1>0, LocalTypes, LargerProperties DEF NextLedger, LocalsWithin
  <2> QED
    BY <1>0, <2>1, <2>2 DEF LocalsWithin
<1>5. CASE Persist(w) \/ ReorgIntervalElapses(w)
  BY <1>0, <1>5
     DEF Persist, UpsertBatch, UpsertAddresses, UpsertTokenEvents, PublishIngest,
         ReorgIntervalElapses, LocalsWithin
<1>6. CursorLedger(w) <= head
  BY <1>0, LocalTypes, LargerProperties DEF CursorLedger, LocalsWithin
<1>7. CASE NextFilterBatch(w)
  <2>1. /\ cycle'[w] = [cycle[w] EXCEPT !.batch = cycle[w].batch + 1,
                                        !.next = CursorLedger(w)]
        /\ cursor' = cursor
        /\ job'[w].from \in {ReorgFromLedger(cycle[w].last), cycle[w].start}
        /\ cycle[w] \in CycleType
    BY <1>7 DEF NextFilterBatch, TypeOK, NewJob
  <2>2. ReorgFromLedger(cycle[w].last) \in Nat
        /\ ReorgFromLedger(cycle[w].last) <= cycle[w].last
    BY LocalTypes, LedgerArithmetic
  <2>3. /\ cycle'[w].last = cycle[w].last /\ cycle'[w].latest = cycle[w].latest
        /\ cycle'[w].start = cycle[w].start /\ cycle'[w].next = CursorLedger(w)
    BY <2>1 DEF CycleType
  <2>4. job'[w].from <= head
    BY <1>0, <2>1, <2>2, LocalTypes DEF LocalsWithin, WithinNetwork, CursorWithinNetwork
  <2> QED
    BY <1>0, <1>6, <2>1, <2>3, <2>4 DEF LocalsWithin
<1>8. CASE RescanDone(w)
  <2>1. /\ cycle'[w] = [cycle[w] EXCEPT !.rescan = FALSE, !.batch = 1]
        /\ cursor' = cursor
        /\ job'[w].from = cycle[w].start
        /\ cycle[w] \in CycleType
    BY <1>8 DEF RescanDone, TypeOK, NewJob
  <2> QED
    BY <1>0, <2>1 DEF LocalsWithin, CycleType
<1>9. CASE BatchesDone(w)
  <2>1. /\ cycle'[w] = [cycle[w] EXCEPT !.next = CursorLedger(w)]
        /\ cursor' = cursor
        /\ job'[w].from = 0
        /\ cycle[w] \in CycleType
    BY <1>9 DEF BatchesDone, TypeOK, NoJob, NewJob
  <2> QED
    BY <1>0, <1>6, <2>1 DEF LocalsWithin, CycleType
<1> QED
  BY <1>1, <1>2, <1>3, <1>4, <1>5, <1>7, <1>8, <1>9
     DEF WorkerStep, IngestOnce, Fetch, AlreadyCaughtUp, Reanchor, UpsertCursor,
         CycleFails, Restart

LEMMA NextWithinNetwork == TypeOK /\ WithinNetwork /\ [Next]_vars => WithinNetwork'
<1> SUFFICES ASSUME TypeOK, WithinNetwork, [Next]_vars PROVE WithinNetwork'
  OBVIOUS
<1>0. head \in Nat /\ cursor \in Nat /\ head' \in Nat
  BY NextTypeOK, BoundsAssumption DEF TypeOK, Ledgers
<1>1. CASE Network
  <2>1. UNCHANGED <<cursor, cycle, job>> /\ head <= head'
    BY <1>1, NetworkFrame
  <2>2. \A e \in Endpoints : tip'[e] <= head'
    BY <1>0, <1>1, <2>1, NetworkFrame, LocalTypes, NextTypeOK, BoundsAssumption
       DEF TypeOK, Ledgers, WithinNetwork
  <2>3. \A x \in chain' : x.ledger <= head'
    BY <1>0, <1>1, <2>1, NetworkFrame DEF TypeOK, Event, WithinNetwork
  <2>4. ASSUME NEW v \in Workers PROVE LocalsWithin(v)'
    BY <1>0, <2>1, LocalTypes DEF WithinNetwork, LocalsWithin
  <2> QED
    BY <1>0, <2>1, <2>2, <2>3, <2>4 DEF WithinNetwork, CursorWithinNetwork
<1>2. ASSUME NEW w \in Workers, WorkerStep(w) PROVE WithinNetwork'
  <2>1. head' = head /\ tip' = tip /\ chain' = chain
    BY <1>2, WorkerStepFrame DEF network
  <2>2. cursor <= cursor' /\ cursor' <= head'
    <3>1. CASE UNCHANGED cursor
      BY <1>0, <2>1, <3>1 DEF WithinNetwork, CursorWithinNetwork
    <3>2. CASE UpsertCursor(w)
      <4> DEFINE next == IF NoProgress(w) THEN cycle[w].latest ELSE cycle[w].next
      <4>1. next \in Nat /\ next <= head
        BY LocalTypes DEF WithinNetwork, LocalsWithin
      <4>2. cursor' = Larger(cursor, next)
        BY <3>2 DEF UpsertCursor
      <4> QED
        BY <1>0, <2>1, <4>1, <4>2, LargerProperties DEF WithinNetwork, CursorWithinNetwork
    <3> QED
      BY <1>2, <3>1, <3>2, WorkerStepWrites
  <2>3. ASSUME NEW v \in Workers PROVE LocalsWithin(v)'
    <3>1. CASE v = w
      BY <1>2, <2>2, <3>1, StepLocalsWithin
    <3>2. CASE v # w
      <4>1. cycle'[v] = cycle[v] /\ job'[v] = job[v]
        BY <1>2, <3>2, WorkerStepFrame
      <4>2. cursor' \in Nat
        BY NextTypeOK DEF TypeOK
      <4> QED
        BY <1>0, <2>1, <2>2, <4>1, <4>2, LocalTypes DEF WithinNetwork, LocalsWithin
    <3> QED
      BY <3>1, <3>2
  <2> QED
    BY <2>1, <2>2, <2>3 DEF WithinNetwork, CursorWithinNetwork
<1>3. CASE UNCHANGED vars
  BY <1>3 DEF vars, network, locals, WithinNetwork, CursorWithinNetwork, LocalsWithin
<1> QED
  BY <1>1, <1>2, <1>3, NextSplit

\* The cursor never passes the last closed ledger, whichever endpoint it is taken from.
THEOREM CursorIsWithinNetwork == Spec => []CursorWithinNetwork
<1>1. Spec => [](TypeOK /\ WithinNetwork)
  BY InitTypeOK, NextTypeOK, InitWithinNetwork, NextWithinNetwork, PTL DEF Spec
<1>2. WithinNetwork => CursorWithinNetwork
  BY DEF WithinNetwork
<1> QED
  BY <1>1, <1>2, PTL

\* The cursor never moves back, however many workers write it and however late.
THEOREM CursorIsMonotone == Spec => CursorNeverRegresses
<1>1. TypeOK /\ [Next]_vars => cursor <= cursor'
  <2> SUFFICES ASSUME TypeOK, [Next]_vars PROVE cursor <= cursor'
    OBVIOUS
  <2>1. cursor \in Nat
    BY DEF TypeOK
  <2>2. CASE Network
    BY <2>1, <2>2, NetworkFrame
  <2>3. ASSUME NEW w \in Workers, UpsertCursor(w) PROVE cursor <= cursor'
    BY <2>1, <2>3, LocalTypes, LargerProperties DEF UpsertCursor
  <2> QED
    BY <2>1, <2>2, <2>3, NextSplit, WorkerStepWrites DEF vars
<1> QED
  BY <1>1, TypeCorrect, PTL DEF Spec, CursorNeverRegresses

---------------------------------------------------------------------------
\* Rows are written in order: events, derived rows, publication.

\* Nothing takes a row back, so an event that is indexed stays so.
LEMMA TablesGrow ==
  ASSUME TypeOK, [Next]_vars
  PROVE  /\ events \subseteq events' /\ addresses \subseteq addresses'
         /\ tokens \subseteq tokens'
         /\ \A x : Indexed(x) => Indexed(x)'
<1>1. /\ events \subseteq events' /\ addresses \subseteq addresses'
      /\ tokens \subseteq tokens'
  <2>1. CASE UNCHANGED <<events, addresses, tokens>>
    BY <2>1
  <2>2. ASSUME NEW w \in Workers, Persist(w) PROVE <1>1!:
    BY <2>2 DEF Persist, UpsertBatch, UpsertAddresses, UpsertTokenEvents, PublishIngest
  <2> QED
    BY <2>1, <2>2, NextSplit, NetworkFrame, WorkerStepWrites DEF vars, tables
<1> QED
  BY <1>1 DEF Indexed

LEMMA InitRowsInOrder == Init => RowsInOrder
  BY DEF Init, RowsInOrder, DerivedRowsHaveEvents, PublishedAreIndexed, ChunkWritten

LEMMA NextRowsInOrder == TypeOK /\ RowsInOrder /\ [Next]_vars => RowsInOrder'
<1> SUFFICES ASSUME TypeOK, RowsInOrder, [Next]_vars PROVE RowsInOrder'
  OBVIOUS
<1>1. ASSUME NEW v \in Workers, pc'[v] = pc[v], todo'[v] = todo[v]
      PROVE  ChunkWritten(v)'
  BY <1>1, TablesGrow DEF RowsInOrder, ChunkWritten, Chunk
<1>2. CASE Network
  <2>1. /\ UNCHANGED <<events, addresses, tokens, published>>
        /\ \A v \in Workers : pc'[v] = pc[v] /\ todo'[v] = todo[v]
    BY <1>2, NetworkFrame
  <2> QED
    BY <1>1, <2>1 DEF RowsInOrder, DerivedRowsHaveEvents, PublishedAreIndexed, Indexed
<1>3. ASSUME NEW w \in Workers, WorkerStep(w) PROVE RowsInOrder'
  <2> USE DEF Goto
  <2>1. /\ DerivedRowsHaveEvents /\ PublishedAreIndexed /\ ChunkWritten(w)
        /\ \A x : Indexed(x) => Indexed(x)'
        /\ pc \in [Workers -> {"poll", "latest", "fetch", "persist", "addresses",
                               "tokens", "publish", "upsert"}]
    BY TablesGrow DEF RowsInOrder, TypeOK
  <2>2. DerivedRowsHaveEvents' /\ PublishedAreIndexed' /\ ChunkWritten(w)'
    <3>1. CASE UpsertBatch(w)
      <4>1. /\ events' = events \cup Chunk(w) /\ UNCHANGED <<addresses, tokens, published>>
            /\ pc'[w] = "addresses" /\ Chunk(w)' = Chunk(w)
        BY <2>1, <3>1 DEF UpsertBatch, Chunk
      <4> QED
        BY <2>1, <4>1 DEF DerivedRowsHaveEvents, PublishedAreIndexed, ChunkWritten
    <3>2. CASE UpsertAddresses(w)
      <4>1. /\ addresses' = addresses \cup {x \in Chunk(w) : x.slot \in AddressSlots}
            /\ UNCHANGED <<events, tokens, published>>
            /\ pc[w] = "addresses" /\ pc'[w] = "tokens" /\ Chunk(w)' = Chunk(w)
        BY <2>1, <3>2 DEF UpsertAddresses, Chunk
      <4> QED
        BY <2>1, <4>1 DEF DerivedRowsHaveEvents, PublishedAreIndexed, ChunkWritten
    <3>3. CASE UpsertTokenEvents(w)
      <4>1. /\ tokens' = tokens \cup {x \in Chunk(w) : x.slot \in TokenSlots}
            /\ UNCHANGED <<events, addresses, published>>
            /\ pc[w] = "tokens" /\ pc'[w] = "publish" /\ Chunk(w)' = Chunk(w)
        BY <2>1, <3>3 DEF UpsertTokenEvents, Chunk
      <4> QED
        BY <2>1, <4>1 DEF DerivedRowsHaveEvents, PublishedAreIndexed, ChunkWritten
    <3>4. CASE PublishIngest(w)
      <4>1. /\ published' \in {published, published \cup Chunk(w)}
            /\ UNCHANGED <<events, addresses, tokens>>
            /\ pc[w] = "publish" /\ pc'[w] = "persist"
        BY <2>1, <3>4 DEF PublishIngest
      <4>2. \A x \in Chunk(w) : Indexed(x)
        BY <2>1, <4>1 DEF ChunkWritten, Indexed
      <4> QED
        BY <2>1, <4>1, <4>2 DEF DerivedRowsHaveEvents, PublishedAreIndexed, ChunkWritten
    <3>5. CASE ~Persist(w)
      <4>1. UNCHANGED <<events, addresses, tokens, published>>
        BY <1>3, <3>5, WorkerStepWrites DEF tables
      <4>2. \/ pc'[w] \in {"poll", "latest", "fetch", "persist", "upsert"}
            \/ pc'[w] = pc[w] /\ todo'[w] = todo[w]
        BY <1>3, <2>1, <3>5, ReturnLocals
           DEF WorkerStep, IngestOnce, Fetch, GetCursor, AlreadyCaughtUp, StartFetching,
               Reanchor, FetchNextPage, FetchLastPage, NextFilterBatch, RescanDone,
               BatchesDone, UpsertCursor, ReorgIntervalElapses, CycleFails, Restart
      <4>3. ChunkWritten(w)'
        BY <1>1, <4>2 DEF ChunkWritten
      <4> QED
        BY <2>1, <4>1, <4>3 DEF DerivedRowsHaveEvents, PublishedAreIndexed
    <3> QED
      BY <3>1, <3>2, <3>3, <3>4, <3>5 DEF Persist
  <2>3. \A v \in Workers \ {w} : ChunkWritten(v)'
    BY <1>1, <1>3, WorkerStepFrame
  <2> QED
    BY <2>2, <2>3 DEF RowsInOrder
<1>4. CASE UNCHANGED vars
  <2>1. /\ UNCHANGED <<events, addresses, tokens, published>>
        /\ \A v \in Workers : pc'[v] = pc[v] /\ todo'[v] = todo[v]
    BY <1>4 DEF vars, tables, locals
  <2> QED
    BY <1>1, <2>1 DEF RowsInOrder, DerivedRowsHaveEvents, PublishedAreIndexed, Indexed
<1> QED
  BY <1>2, <1>3, <1>4, NextSplit

LEMMA RowsInOrderInvariant == Spec => []RowsInOrder
  BY TypeCorrect, InitRowsInOrder, NextRowsInOrder, PTL DEF Spec

\* What Redis subscribers hear of is stored with its derived rows, also when persist was
\* cut between two inserts before, or another worker is in the middle of the same events.
THEOREM PublishedEventsAreIndexed == Spec => []PublishedAreIndexed
  BY RowsInOrderInvariant, PTL DEF RowsInOrder

\* An address or token row never stands without its event row.
THEOREM DerivedRowsAreBacked == Spec => []DerivedRowsHaveEvents
  BY RowsInOrderInvariant, PTL DEF RowsInOrder

---------------------------------------------------------------------------
\* Only events of the chain are fetched and stored.

LEMMA InitFetchedAreReal == Init => FetchedAreReal
  BY DEF Init, FetchedAreReal, NoJob, NewJob

LEMMA NextFetchedAreReal == TypeOK /\ FetchedAreReal /\ [Next]_vars => FetchedAreReal'
<1> SUFFICES ASSUME TypeOK, FetchedAreReal, [Next]_vars PROVE FetchedAreReal'
  OBVIOUS
<1>1. CASE Network
  BY <1>1, NetworkFrame DEF FetchedAreReal
<1>2. ASSUME NEW w \in Workers, WorkerStep(w) PROVE FetchedAreReal'
  <2> USE DEF Goto
  <2>1. chain' = chain
    BY <1>2, WorkerStepFrame DEF network
  <2>2. \A v \in Workers \ {w} : job'[v] = job[v] /\ todo'[v] = todo[v]
    BY <1>2, WorkerStepFrame
  <2>3. events' \subseteq chain
    <3>1. CASE UNCHANGED tables
      BY <3>1 DEF tables, FetchedAreReal
    <3>2. CASE Persist(w)
      <4>1. Chunk(w) \subseteq chain
        BY FirstNSubset DEF Chunk, FetchedAreReal
      <4> QED
        BY <3>2, <4>1 DEF FetchedAreReal, Persist, UpsertBatch, UpsertAddresses,
                          UpsertTokenEvents, PublishIngest
    <3> QED
      BY <1>2, <3>1, <3>2, WorkerStepWrites
  <2>4. job'[w].acc \subseteq chain /\ todo'[w] \subseteq chain
    <3>1. \A e \in Endpoints : Page(w, e) \subseteq chain
      BY FirstNSubset DEF Page, Served
    <3>2. job[w].acc \subseteq chain /\ todo[w] \subseteq chain
      BY DEF FetchedAreReal
    <3>3. CASE Return(w)
      BY <3>3, ReturnLocals DEF NoJob, NewJob
    <3>4. ASSUME NEW e \in Endpoints, FetchNextPage(w, e) \/ FetchLastPage(w, e)
          PROVE  <2>4!:
      BY <3>1, <3>2, <3>4 DEF FetchNextPage, FetchLastPage, TypeOK, NewJob
    <3>5. ASSUME NEW e \in Endpoints, StartFetching(w, e) PROVE <2>4!:
      BY <3>2, <3>5 DEF StartFetching, TypeOK, NewJob
    <3>6. CASE NextFilterBatch(w) \/ RescanDone(w) \/ BatchesDone(w)
      BY <3>2, <3>6 DEF NextFilterBatch, RescanDone, BatchesDone, TypeOK, NewJob, NoJob
    <3>7. CASE GetCursor(w) \/ Persist(w) \/ ReorgIntervalElapses(w)
      BY <3>2, <3>7 DEF GetCursor, Persist, UpsertBatch, UpsertAddresses,
                        UpsertTokenEvents, PublishIngest, ReorgIntervalElapses, TypeOK
    <3> QED
      BY <1>2, <3>3, <3>4, <3>5, <3>6, <3>7
         DEF WorkerStep, IngestOnce, Fetch, AlreadyCaughtUp, Reanchor, UpsertCursor,
             CycleFails, Restart
  <2> QED
    BY <2>1, <2>2, <2>3, <2>4 DEF FetchedAreReal
<1>3. CASE UNCHANGED vars
  BY <1>3 DEF vars, network, tables, locals, FetchedAreReal
<1> QED
  BY <1>1, <1>2, <1>3, NextSplit

---------------------------------------------------------------------------
\* The ledgers of a cycle.

LEMMA InitShapes == Init => Shapes
  BY DEF Init, Shapes, CycleShape, Persisting

\* A position in the chain is never the empty cursor.
LEMMA EventIsNoCursor == ASSUME NEW x \in Event PROVE x # NoCursor
  BY DEF Event, NoCursor

LEMMA StepShape ==
  ASSUME TypeOK, Shapes, NEW w \in Workers, WorkerStep(w)
  PROVE  CycleShape(w)'
<1> USE DEF Goto
<1>1. CycleShape(w) /\ cycle[w] \in CycleType /\ job[w] \in JobType
  BY DEF Shapes, TypeOK
<1>2. CASE Return(w)
  BY <1>2, ReturnLocals DEF CycleShape, Persisting
<1>3. CASE GetCursor(w)
  BY <1>3 DEF GetCursor, CycleShape, Persisting, TypeOK
<1>4. ASSUME NEW e \in Endpoints, StartFetching(w, e) PROVE CycleShape(w)'
  <2> DEFINE last == cycle[w].last
             start == ResolveColdStart(last, tip[e])
             rescan == RescanNeeded(w, last, start)
  <2>1. /\ last \in Nat /\ tip[e] \in Nat /\ start \in Nat
        /\ last > 0 => start = last
    BY LocalTypes, LedgerArithmetic
  <2>2. /\ pc'[w] = "fetch"
        /\ cycle'[w] = [last |-> last, latest |-> tip[e], start |-> start, next |-> start,
                        batch |-> 1, rescan |-> rescan]
        /\ job'[w] = NewJob(IF rescan THEN ReorgFromLedger(last) ELSE start, e)
        /\ start < tip[e]
    BY <1>4 DEF StartFetching, TypeOK
  <2>3. /\ job'[w].pos = NoCursor /\ job'[w].acc = {}
        /\ ~rescan => job'[w].from = start
    BY <2>2 DEF NewJob
  <2> HIDE DEF last, start, rescan
  <2> QED
    BY <2>1, <2>2, <2>3 DEF CycleShape, Persisting
<1>5. ASSUME NEW e \in Endpoints, FetchNextPage(w, e) PROVE CycleShape(w)'
  <2>1. NextLedger(w, e) \in Nat /\ NextLedger(w, e) >= job[w].from
        /\ NextLedger(w, e) >= tip[e] /\ tip[e] \in Nat
    BY LocalTypes, LargerProperties DEF NextLedger
  <2>2. PICK x \in Page(w, e) :
          job'[w] = [from |-> NextLedger(w, e), acc |-> job[w].acc \cup Page(w, e),
                     pos |-> x, first |-> job[w].first]
    BY <1>5 DEF FetchNextPage, TypeOK
  <2>3. x \in chain /\ x.ledger <= tip[e]
    BY FirstNSubset DEF Page, Served
  <2>4. x # NoCursor /\ x.ledger \in Nat
    BY <2>3, EventIsNoCursor DEF TypeOK, Event
  <2>5. cycle'[w] = cycle[w] /\ pc'[w] = "fetch" /\ pc[w] = "fetch"
    BY <1>5 DEF FetchNextPage, CanFetch
  <2> QED
    BY <1>1, <2>1, <2>2, <2>3, <2>4, <2>5, LocalTypes DEF CycleShape, Persisting
<1>6. ASSUME NEW e \in Endpoints, FetchLastPage(w, e) PROVE CycleShape(w)'
  <2>1. NextLedger(w, e) \in Nat /\ NextLedger(w, e) >= job[w].from
    BY LocalTypes, LargerProperties DEF NextLedger
  <2>2. /\ job'[w].from = NextLedger(w, e) /\ cycle'[w] = cycle[w]
        /\ pc'[w] = "persist" /\ pc[w] = "fetch"
    BY <1>6 DEF FetchLastPage, CanFetch, TypeOK, NewJob
  <2> QED
    BY <1>1, <2>1, <2>2, LocalTypes DEF CycleShape, Persisting
<1>7. CASE Persist(w)
  BY <1>1, <1>7
     DEF Persist, UpsertBatch, UpsertAddresses, UpsertTokenEvents, PublishIngest,
         CycleShape, Persisting, TypeOK
<1>8. CASE ReorgIntervalElapses(w)
  BY <1>1, <1>8 DEF ReorgIntervalElapses, CycleShape
<1>9. CursorLedger(w) \in Nat /\ CursorLedger(w) >= cycle[w].next
      /\ (cycle[w].rescan => CursorLedger(w) = cycle[w].next)
  <2>1. cycle[w].next \in Nat /\ job[w].from \in Nat
    BY LocalTypes
  <2>2. CASE cycle[w].rescan
    BY <2>1, <2>2 DEF CursorLedger
  <2>3. CASE ~cycle[w].rescan
    BY <2>1, <2>3, LargerProperties DEF CursorLedger
  <2> QED
    BY <2>2, <2>3
<1>10. CASE NextFilterBatch(w)
  <2>1. /\ pc[w] = "persist" /\ pc'[w] = "fetch"
        /\ cycle'[w] = [cycle[w] EXCEPT !.batch = cycle[w].batch + 1,
                                        !.next = CursorLedger(w)]
        /\ job'[w] = NewJob(IF cycle[w].rescan THEN ReorgFromLedger(cycle[w].last)
                                               ELSE cycle[w].start, active[w])
    BY <1>10 DEF NextFilterBatch, Persisted, TypeOK
  <2>2. /\ cycle'[w].last = cycle[w].last /\ cycle'[w].latest = cycle[w].latest
        /\ cycle'[w].start = cycle[w].start /\ cycle'[w].next = CursorLedger(w)
        /\ cycle'[w].batch = cycle[w].batch + 1 /\ cycle'[w].rescan = cycle[w].rescan
    BY <1>1, <2>1 DEF CycleType
  <2>3. /\ job'[w].pos = NoCursor /\ job'[w].acc = {}
        /\ ~cycle[w].rescan => job'[w].from = cycle[w].start
    BY <2>1 DEF NewJob
  <2>4. cycle[w].batch + 1 # 1
    BY LocalTypes
  <2> QED
    BY <1>1, <1>9, <2>1, <2>2, <2>3, <2>4, LocalTypes DEF CycleShape, Persisting
<1>11. CASE RescanDone(w)
  <2>1. /\ pc[w] = "persist" /\ pc'[w] = "fetch" /\ cycle[w].rescan
        /\ cycle'[w] = [cycle[w] EXCEPT !.rescan = FALSE, !.batch = 1]
        /\ job'[w] = NewJob(cycle[w].start, active[w])
    BY <1>11 DEF RescanDone, Persisted, TypeOK
  <2>2. /\ cycle'[w].last = cycle[w].last /\ cycle'[w].latest = cycle[w].latest
        /\ cycle'[w].start = cycle[w].start /\ cycle'[w].next = cycle[w].next
        /\ ~cycle'[w].rescan
    BY <1>1, <2>1 DEF CycleType
  <2>3. job'[w].pos = NoCursor /\ job'[w].acc = {} /\ job'[w].from = cycle[w].start
    BY <2>1 DEF NewJob
  <2> QED
    BY <1>1, <2>1, <2>2, <2>3, LocalTypes DEF CycleShape, Persisting
<1>12. CASE BatchesDone(w)
  <2>1. /\ pc[w] = "persist" /\ pc'[w] = "upsert" /\ ~cycle[w].rescan
        /\ cycle'[w] = [cycle[w] EXCEPT !.next = CursorLedger(w)]
    BY <1>12 DEF BatchesDone, Persisted, TypeOK
  <2>2. /\ cycle'[w].last = cycle[w].last /\ cycle'[w].latest = cycle[w].latest
        /\ cycle'[w].start = cycle[w].start /\ cycle'[w].next = CursorLedger(w)
        /\ cycle'[w].rescan = cycle[w].rescan
    BY <1>1, <2>1 DEF CycleType
  <2> QED
    BY <1>1, <1>9, <2>1, <2>2, LocalTypes DEF CycleShape, Persisting
<1> QED
  BY <1>2, <1>3, <1>4, <1>5, <1>6, <1>7, <1>8, <1>10, <1>11, <1>12
     DEF WorkerStep, IngestOnce, Fetch, AlreadyCaughtUp, Reanchor, UpsertCursor,
         CycleFails, Restart

LEMMA NextShapes == TypeOK /\ Shapes /\ [Next]_vars => Shapes'
<1> SUFFICES ASSUME TypeOK, Shapes, [Next]_vars, NEW v \in Workers PROVE CycleShape(v)'
  BY DEF Shapes
<1>1. CASE pc'[v] = pc[v] /\ cycle'[v] = cycle[v] /\ job'[v] = job[v]
  BY <1>1 DEF Shapes, CycleShape
<1>2. CASE WorkerStep(v)
  BY <1>2, StepShape
<1>3. CASE \E w \in Workers \ {v} : WorkerStep(w)
  BY <1>1, <1>3, WorkerStepFrame
<1> QED
  BY <1>1, <1>2, <1>3, NextSplit, NetworkFrame DEF vars, locals

LEMMA StructureInvariant ==
  Spec => [](TypeOK /\ WithinNetwork /\ RowsInOrder /\ FetchedAreReal /\ Shapes)
  BY InitTypeOK, NextTypeOK, InitWithinNetwork, NextWithinNetwork, InitRowsInOrder,
     NextRowsInOrder, InitFetchedAreReal, NextFetchedAreReal, InitShapes, NextShapes,
     PTL DEF Spec

---------------------------------------------------------------------------
\* Coverage: an event is followed from the chain to the cursor.

Structure == TypeOK /\ WithinNetwork /\ RowsInOrder /\ Shapes

\* No step adds an event in time to a ledger that was closed before it.
LEMMA OldEvents ==
  ASSUME TypeOK, [Next]_vars, NEW x \in chain' \ late', x.ledger <= head
  PROVE  x \in chain \ late
<1>1. head \in Nat /\ x.ledger # head + 1
  BY BoundsAssumption, NextTypeOK DEF TypeOK, Ledgers, Event
<1>2. CASE Network
  BY <1>1, <1>2, NetworkFrame
<1>3. CASE \E w \in Workers : WorkerStep(w)
  BY <1>3, WorkerStepFrame DEF network
<1>4. CASE UNCHANGED vars
  BY <1>4 DEF vars, network
<1> QED
  BY <1>2, <1>3, <1>4, NextSplit

\* What has been skipped stays on record.
LEMMA FlawsRemain == ASSUME TypeOK, [Next]_vars PROVE flaws \subseteq flaws'
<1>1. ASSUME NEW w \in Workers, WorkerStep(w) PROVE flaws \subseteq flaws'
  BY <1>1
     DEF WorkerStep, IngestOnce, Fetch, Persist, GetCursor, AlreadyCaughtUp, StartFetching,
         Reanchor, FetchNextPage, FetchLastPage, UpsertBatch, UpsertAddresses,
         UpsertTokenEvents, PublishIngest, NextFilterBatch, RescanDone, BatchesDone,
         UpsertCursor, ReorgIntervalElapses, CycleFails, Restart, history,
         NoteTruncation, NoteSkew
<1> QED
  BY <1>1, NextSplit, NetworkFrame DEF vars, history

\* A page that holds all the endpoint has brings a fetch to the ledger it returns: what
\* earlier pages did not bring is after the cursor and before the tip.
LEMMA PageCovers ==
  ASSUME Structure, NEW w \in Workers, NEW e \in Endpoints,
         CanFetch(w, e), ~cycle[w].rescan, Page(w, e) = Served(w, e), CycleCoverage(w),
         NEW x \in Owed(w, NextLedger(w, e)), x.batch = cycle[w].batch
  PROVE  x \in job[w].acc \cup Page(w, e)
<1> DEFINE from == job[w].from
<1>1. /\ pc[w] = "fetch" /\ from <= tip[e]
      /\ from \in Nat /\ tip[e] \in Nat /\ cycle[w].start \in Nat
      /\ CycleShape(w)
  BY LocalTypes DEF Structure, CanFetch, Shapes
<1>2. NextLedger(w, e) = tip[e]
  BY <1>1 DEF NextLedger, Larger
<1>3. /\ x \in chain /\ x \in chain \ late /\ x.ledger \in Nat
      /\ cycle[w].start <= x.ledger /\ x.ledger <= tip[e]
  BY <1>2 DEF Owed, Structure, TypeOK, Event
<1>4. CASE job[w].pos = NoCursor
  <2>1. from = cycle[w].start
    BY <1>1, <1>4 DEF CycleShape
  <2> QED
    BY <1>3, <1>4, <2>1 DEF Served
<1>5. CASE job[w].pos # NoCursor
  <2>1. job[w].pos.ledger <= from /\ job[w].pos.ledger \in Nat
    <3>1. job[w].pos \in Event
      BY <1>5 DEF Structure, TypeOK, JobType
    <3> QED
      BY <1>1, <1>5, <3>1 DEF CycleShape, Event
  <2>2. CASE x.ledger <= from
    BY <1>1, <1>3, <1>5, <2>2 DEF CycleCoverage, Owed
  <2>3. CASE from < x.ledger
    <3>1. Precedes(job[w].pos, x)
      BY <1>1, <1>3, <2>1, <2>3 DEF Precedes
    <3> QED
      BY <1>3, <1>5, <3>1 DEF Served
  <2> QED
    BY <1>1, <1>3, <2>2, <2>3
<1> QED
  BY <1>4, <1>5

\* A batch that ends without skew takes the cursor ledger to where its fetch got, and all
\* the batches so far are indexed up to there.
LEMMA BatchCovers ==
  ASSUME Structure, NEW w \in Workers, Persisted(w), ~cycle[w].rescan, CycleCoverage(w),
         cycle[w].batch = 1 \/ job[w].from = cycle[w].next
  PROVE  /\ CursorLedger(w) = job[w].from
         /\ \A x \in Owed(w, job[w].from) : x.batch <= cycle[w].batch => Indexed(x)
<1>1. /\ cycle[w].next \in Nat /\ job[w].from \in Nat /\ cycle[w].start \in Nat
      /\ cycle[w].batch \in 1 .. NumBatches
      /\ CycleShape(w) /\ pc[w] = "persist" /\ todo[w] = {}
  BY LocalTypes DEF Structure, Shapes, Persisted
<1>2. cycle[w].next <= job[w].from
  BY <1>1 DEF CycleShape, Persisting
<1>3. CursorLedger(w) = job[w].from
  BY <1>1, <1>2 DEF CursorLedger, Larger
<1>4. ASSUME NEW x \in Owed(w, job[w].from), x.batch <= cycle[w].batch PROVE Indexed(x)
  <2>1. x.batch \in 1 .. NumBatches
    BY DEF Owed, Structure, TypeOK, Event
  <2>2. CASE x.batch = cycle[w].batch
    BY <1>1, <2>2 DEF CycleCoverage, Persisting
  <2>3. CASE x.batch < cycle[w].batch
    <3>1. job[w].from = cycle[w].next
      BY <1>1, <2>1, <2>3, NumBatchesPositive
    <3> QED
      BY <1>1, <2>3, <3>1 DEF CycleCoverage, Persisting
  <2> QED
    BY <1>1, <1>4, <2>1, <2>2, <2>3, NumBatchesPositive
<1> QED
  BY <1>3, <1>4

\* A worker that does not move keeps its account, whoever else moves.
LEMMA StillCoverage ==
  ASSUME Structure, [Next]_vars, NEW v \in Workers, CycleCoverage(v),
         pc'[v] = pc[v], cycle'[v] = cycle[v], job'[v] = job[v], todo'[v] = todo[v]
  PROVE  CycleCoverage(v)'
<1>1. /\ cycle[v].next \in Nat /\ job[v].from \in Nat /\ cycle[v].start \in Nat
      /\ cycle[v].next <= head /\ job[v].from <= head /\ head \in Nat
  BY LocalTypes, BoundsAssumption
     DEF Structure, WithinNetwork, LocalsWithin, TypeOK, Ledgers
<1>2. ASSUME NEW l \in Nat, l <= head PROVE Owed(v, l)' \subseteq Owed(v, l)
  <2>1. \A x \in chain' \ late' : x.ledger \in Nat
    BY NextTypeOK DEF Structure, TypeOK, Event
  <2>2. \A x \in chain' \ late' : x.ledger <= l => x \in chain \ late
    BY <1>1, <1>2, <2>1, OldEvents DEF Structure
  <2> QED
    BY <2>2 DEF Owed
<1>3. \A x : Indexed(x) => Indexed(x)'
  BY TablesGrow DEF Structure
<1> HIDE DEF Structure
<1> QED
  BY <1>1, <1>2, <1>3 DEF CycleCoverage

LEMMA StepCoverage ==
  ASSUME Structure, [Next]_vars, flaws' = {}, NEW w \in Workers, WorkerStep(w),
         CycleCoverage(w)
  PROVE  CycleCoverage(w)'
<1> USE DEF Goto
<1>1. /\ TypeOK /\ chain' = chain /\ late' = late
      /\ \A x : Indexed(x) => Indexed(x)'
      /\ cycle[w] \in CycleType
  BY WorkerStepFrame, TablesGrow DEF Structure, network, TypeOK
<1>2. CASE Return(w)
  BY <1>1, <1>2, ReturnLocals DEF CycleCoverage, Persisting
<1>3. CASE GetCursor(w)
  BY <1>1, <1>3 DEF GetCursor, TypeOK, CycleCoverage, Persisting
<1>4. ASSUME NEW e \in Endpoints, StartFetching(w, e) PROVE CycleCoverage(w)'
  <2>1. pc'[w] = "fetch" /\ cycle'[w].batch = 1 /\ job'[w].pos = NoCursor
    BY <1>1, <1>4 DEF StartFetching, TypeOK, NewJob
  <2>2. \A x \in chain' : x.batch \in 1 .. NumBatches
    BY <1>1 DEF TypeOK, Event
  <2> QED
    BY <2>1, <2>2, NumBatchesPositive DEF CycleCoverage, Persisting, Owed
<1>5. ASSUME NEW e \in Endpoints, FetchNextPage(w, e) PROVE CycleCoverage(w)'
  <2>1. /\ pc[w] = "fetch" /\ pc'[w] = "fetch" /\ cycle'[w] = cycle[w] /\ CanFetch(w, e)
        /\ job'[w].from = NextLedger(w, e)
        /\ job'[w].acc = job[w].acc \cup Page(w, e)
    BY <1>1, <1>5 DEF FetchNextPage, CanFetch, TypeOK
  <2>2. cycle[w].rescan \/ Page(w, e) = Served(w, e)
    BY <1>5 DEF FetchNextPage, NoteTruncation
  <2>3. ~cycle[w].rescan =>
          \A x \in Owed(w, NextLedger(w, e)) :
            x.batch = cycle[w].batch => x \in job[w].acc \cup Page(w, e)
    BY <2>1, <2>2, PageCovers
  <2>4. \A l : Owed(w, l)' = Owed(w, l)
    BY <1>1, <2>1 DEF Owed
  <2> QED
    BY <1>1, <2>1, <2>3, <2>4 DEF CycleCoverage, Persisting
<1>6. ASSUME NEW e \in Endpoints, FetchLastPage(w, e) PROVE CycleCoverage(w)'
  <2>1. /\ pc[w] = "fetch" /\ pc'[w] = "persist" /\ cycle'[w] = cycle[w] /\ CanFetch(w, e)
        /\ job'[w].from = NextLedger(w, e)
        /\ todo'[w] = job[w].acc \cup Page(w, e)
    BY <1>1, <1>6 DEF FetchLastPage, CanFetch, TypeOK, NewJob
  <2>2. cycle[w].rescan \/ Page(w, e) = Served(w, e)
    BY <1>6 DEF FetchLastPage, NoteTruncation
  <2>3. ~cycle[w].rescan =>
          \A x \in Owed(w, NextLedger(w, e)) :
            x.batch = cycle[w].batch => x \in job[w].acc \cup Page(w, e)
    BY <2>1, <2>2, PageCovers
  <2>4. \A l : Owed(w, l)' = Owed(w, l)
    BY <1>1, <2>1 DEF Owed
  <2> QED
    BY <1>1, <2>1, <2>3, <2>4 DEF CycleCoverage, Persisting
<1>7. CASE UpsertBatch(w) \/ UpsertAddresses(w) \/ UpsertTokenEvents(w)
  <2>1. /\ pc[w] \in Persisting /\ pc'[w] \in Persisting
        /\ UNCHANGED <<cycle, job, todo>>
    BY <1>1, <1>7
       DEF UpsertBatch, UpsertAddresses, UpsertTokenEvents, TypeOK, Persisting
  <2> QED
    BY <1>1, <2>1 DEF CycleCoverage, Persisting, Owed
<1>8. CASE PublishIngest(w)
  <2>1. /\ pc[w] = "publish" /\ pc'[w] = "persist" /\ UNCHANGED <<cycle, job>>
        /\ todo'[w] = todo[w] \ Chunk(w)
    BY <1>1, <1>8 DEF PublishIngest, TypeOK
  <2>2. \A x \in Chunk(w) : Indexed(x)
    BY <2>1 DEF Structure, RowsInOrder, ChunkWritten, Indexed
  <2> QED
    BY <1>1, <2>1, <2>2 DEF CycleCoverage, Persisting, Owed
<1>9. CASE ReorgIntervalElapses(w)
  BY <1>9, StillCoverage DEF ReorgIntervalElapses
<1>10. CASE NextFilterBatch(w)
  <2>1. /\ pc'[w] = "fetch" /\ Persisted(w)
        /\ cycle'[w] = [cycle[w] EXCEPT !.batch = cycle[w].batch + 1,
                                        !.next = CursorLedger(w)]
        /\ job'[w].pos = NoCursor
        /\ cycle[w].rescan \/ cycle[w].batch = 1 \/ job[w].from = cycle[w].next
    BY <1>1, <1>10 DEF NextFilterBatch, NoteSkew, TypeOK, NewJob
  <2>2. /\ cycle'[w].start = cycle[w].start /\ cycle'[w].rescan = cycle[w].rescan
        /\ cycle'[w].batch = cycle[w].batch + 1 /\ cycle'[w].next = CursorLedger(w)
    BY <1>1, <2>1 DEF CycleType
  <2>3. CASE cycle[w].rescan
    BY <2>1, <2>2, <2>3 DEF CycleCoverage, Persisting
  <2>4. CASE ~cycle[w].rescan
    <3>1. /\ CursorLedger(w) = job[w].from
          /\ \A x \in Owed(w, job[w].from) : x.batch <= cycle[w].batch => Indexed(x)
      BY <2>1, <2>4, BatchCovers
    <3>2. Owed(w, cycle[w].next)' = Owed(w, job[w].from)
      BY <1>1, <2>2, <3>1 DEF Owed
    <3>3. \A x \in chain : x.batch \in Int
      BY <1>1, NumBatchesPositive DEF TypeOK, Event
    <3>4. \A x \in Owed(w, job[w].from) : x.batch < cycle[w].batch + 1 => Indexed(x)'
      BY <1>1, <3>1, <3>3, LocalTypes, NumBatchesPositive DEF Owed
    <3> QED
      BY <2>1, <2>2, <3>2, <3>4 DEF CycleCoverage, Persisting
  <2> QED
    BY <2>3, <2>4
<1>11. CASE RescanDone(w)
  <2>1. /\ pc'[w] = "fetch" /\ job'[w].pos = NoCursor
        /\ cycle'[w] = [cycle[w] EXCEPT !.rescan = FALSE, !.batch = 1]
    BY <1>1, <1>11 DEF RescanDone, TypeOK, NewJob
  <2>2. cycle'[w].batch = 1
    BY <1>1, <2>1 DEF CycleType
  <2>3. \A x \in chain' : x.batch \in 1 .. NumBatches
    BY <1>1 DEF TypeOK, Event
  <2> QED
    BY <2>1, <2>2, <2>3, NumBatchesPositive DEF CycleCoverage, Persisting, Owed
<1>12. CASE BatchesDone(w)
  <2>1. /\ pc'[w] = "upsert" /\ Persisted(w) /\ ~cycle[w].rescan
        /\ cycle[w].batch = NumBatches
        /\ cycle'[w] = [cycle[w] EXCEPT !.next = CursorLedger(w)]
        /\ cycle[w].batch = 1 \/ job[w].from = cycle[w].next
    BY <1>1, <1>12 DEF BatchesDone, NoteSkew, TypeOK
  <2>2. cycle'[w].start = cycle[w].start /\ cycle'[w].next = CursorLedger(w)
    BY <1>1, <2>1 DEF CycleType
  <2>3. /\ CursorLedger(w) = job[w].from
        /\ \A x \in Owed(w, job[w].from) : x.batch <= cycle[w].batch => Indexed(x)
    BY <2>1, BatchCovers
  <2>4. Owed(w, cycle[w].next)' = Owed(w, job[w].from)
    BY <1>1, <2>2, <2>3 DEF Owed
  <2>5. \A x \in chain : x.batch \in 1 .. NumBatches
    BY <1>1 DEF TypeOK, Event
  <2>6. \A x \in Owed(w, job[w].from) : Indexed(x)'
    BY <1>1, <2>1, <2>3, <2>5, NumBatchesPositive DEF Owed
  <2> QED
    BY <2>1, <2>4, <2>6 DEF CycleCoverage, Persisting
<1> QED
  BY <1>2, <1>3, <1>4, <1>5, <1>6, <1>7, <1>8, <1>9, <1>10, <1>11, <1>12
     DEF WorkerStep, IngestOnce, Fetch, Persist, AlreadyCaughtUp, Reanchor, UpsertCursor,
         CycleFails, Restart

LEMMA InitCoverage == Init => Coverage
  BY DEF Init, Coverage, CursorCoverage, CycleCoverage, Persisting

\* The account of every worker survives a step that skips nothing.
LEMMA NextCycleCoverage ==
  ASSUME Structure, Coverage, [Next]_vars, flaws' = {}, NEW v \in Workers
  PROVE  CycleCoverage(v)'
<1>1. TypeOK /\ CycleCoverage(v)
  BY FlawsRemain DEF Structure, Coverage
<1>2. CASE WorkerStep(v)
  BY <1>1, <1>2, StepCoverage
<1>3. CASE \E w \in Workers \ {v} : WorkerStep(w)
  BY <1>1, <1>3, StillCoverage, WorkerStepFrame
<1>4. CASE Network
  BY <1>1, <1>4, StillCoverage, NetworkFrame
<1>5. CASE UNCHANGED vars
  BY <1>1, <1>5, StillCoverage DEF vars, locals
<1> QED
  BY <1>2, <1>3, <1>4, <1>5, NextSplit

\* The cursor a cycle writes is a ledger up to which everything is indexed.
LEMMA UpsertCovers ==
  ASSUME Structure, Coverage, [Next]_vars, flaws' = {}, NEW w \in Workers, UpsertCursor(w),
         NEW x \in chain \ late, origin' <= x.ledger, x.ledger <= cursor'
  PROVE  Indexed(x)
<1> DEFINE start == cycle[w].start
           next == cycle[w].next
<1>1. /\ TypeOK /\ flaws = {} /\ CursorCoverage
      /\ cursor \in Nat /\ origin \in Nat /\ start \in Nat /\ next \in Nat
      /\ cycle[w].last \in Nat /\ cycle[w].last <= cursor
      /\ x.ledger \in Nat
      /\ pc[w] = "upsert" /\ CycleShape(w)
      /\ \A y \in Owed(w, next) : Indexed(y)
  <2>1. TypeOK /\ flaws = {} /\ pc[w] = "upsert"
    BY FlawsRemain DEF Structure, UpsertCursor
  <2>2. CursorCoverage /\ CycleCoverage(w)
    BY <2>1 DEF Coverage
  <2>3. x.ledger \in Nat
    BY <2>1 DEF TypeOK, Event
  <2> QED
    BY <2>1, <2>2, <2>3, LocalTypes
       DEF TypeOK, Structure, WithinNetwork, LocalsWithin, Shapes, CycleCoverage
<1>2. /\ ~NoProgress(w) /\ ~LateColdStart(w)
      /\ cursor' = Larger(cursor, next)
      /\ origin' = IF cursor = 0 THEN start ELSE origin
  BY DEF UpsertCursor
<1>3. CASE x.ledger <= next /\ start <= x.ledger
  BY <1>1, <1>3 DEF Owed
<1>4. CASE cursor = 0
  BY <1>1, <1>2, <1>3, <1>4 DEF Larger
<1>5. CASE cursor # 0 /\ x.ledger <= cursor
  BY <1>1, <1>2, <1>5 DEF CursorCoverage
<1>6. CASE cursor # 0 /\ cursor < x.ledger
  <2>1. start <= cursor
    BY <1>1, <1>2, <1>6 DEF LateColdStart, CycleShape
  <2>2. x.ledger <= next
    BY <1>1, <1>2, <1>6 DEF Larger
  <2> QED
    BY <1>1, <1>3, <1>6, <2>1, <2>2
<1> QED
  BY <1>1, <1>4, <1>5, <1>6

\* The ledgers up to the cursor are closed, so nothing is added to them in time, and only
\* UpsertCursor moves it.
LEMMA NextCursorCoverage ==
  ASSUME Structure, Coverage, [Next]_vars, flaws' = {}
  PROVE  CursorCoverage'
<1> SUFFICES ASSUME NEW x \in chain' \ late', origin' <= x.ledger, x.ledger <= cursor'
             PROVE  Indexed(x)'
  BY DEF CursorCoverage
<1>1. /\ TypeOK /\ flaws = {} /\ CursorCoverage
      /\ Indexed(x) => Indexed(x)'
  BY FlawsRemain, TablesGrow DEF Structure, Coverage
<1>2. CASE UNCHANGED <<cursor, origin>>
  <2>1. cursor <= head /\ cursor \in Nat /\ head \in Nat
    BY <1>1, BoundsAssumption DEF Structure, WithinNetwork, CursorWithinNetwork, TypeOK, Ledgers
  <2>2. x.ledger \in Nat
    BY <1>1, NextTypeOK DEF TypeOK, Event
  <2>3. x \in chain \ late
    BY <1>1, <1>2, <2>1, <2>2, OldEvents
  <2> QED
    BY <1>1, <1>2, <2>3 DEF CursorCoverage
<1>3. ASSUME NEW w \in Workers, UpsertCursor(w) PROVE Indexed(x)'
  <2>1. x \in chain \ late
    BY <1>3 DEF UpsertCursor, network
  <2> QED
    BY <1>1, <1>3, <2>1, UpsertCovers
<1> QED
  BY <1>1, <1>2, <1>3, NextSplit, NetworkFrame, WorkerStepWrites DEF vars, history

LEMMA NextCoverage == Structure /\ Coverage /\ [Next]_vars => Coverage'
  BY NextCycleCoverage, NextCursorCoverage DEF Coverage, CursorCoverage

LEMMA CoverageInvariant == Spec => [](Structure /\ Coverage)
<1>1. Spec => []Structure
  BY StructureInvariant, PTL DEF Structure
<1> QED
  BY <1>1, InitCoverage, NextCoverage, PTL DEF Spec

\* The main safety property: what the cursor has passed is indexed with its derived rows,
\* for every number of workers, endpoints, batches, pages and chunks, and wherever calls
\* fail or processes restart, as long as none of the four ways of skipping has occurred.
THEOREM CursorIsCovered == Spec => []CursorCoverage
  BY CoverageInvariant, PTL DEF Coverage

---------------------------------------------------------------------------
\* Refinement: LedgerIndex is what the readers of the index may rely on.

LEMMA InitMaps == Init => Index!Init
  BY DEF Init, Index!Init, IndexedEvents, Skipped

\* A step that changes no table and not the chain leaves the indexed events alone.
LEMMA SameIndexedEvents ==
  ASSUME UNCHANGED <<chain, events, addresses, tokens>>
  PROVE  IndexedEvents' = IndexedEvents
  BY DEF IndexedEvents, Indexed

\* The network's steps emit.
LEMMA NetworkMaps ==
  ASSUME Structure, FetchedAreReal, Network PROVE Index!Emit
<1>1. /\ TypeOK /\ cursor <= head /\ cursor \in Nat /\ head \in Nat
      /\ events \subseteq chain
  BY BoundsAssumption
     DEF Structure, WithinNetwork, CursorWithinNetwork, TypeOK, Ledgers, FetchedAreReal
<1>2. chain' \subseteq Index!Event
  <2>1. Index!Event = Event
    BY DEF Index!Event, Event, Index!NumBatches, NumBatches, Index!FilterSize, FilterSize
  <2> QED
    BY <1>1, <2>1, NextTypeOK DEF TypeOK, Next
<1>3. IndexedEvents' = IndexedEvents
  BY <1>1, NetworkFrame DEF IndexedEvents, Indexed
<1>4. \A x \in (chain' \ chain) \ late' : cursor < x.ledger
  BY <1>1, NetworkFrame
<1>5. Skipped' = Skipped
  BY <1>1, NetworkFrame DEF Skipped
<1> QED
  BY <1>1, <1>2, <1>3, <1>4, <1>5, NetworkFrame DEF Index!Emit

\* The steps of persist extend the index.
LEMMA PersistMaps ==
  ASSUME Structure, FetchedAreReal, [Next]_vars, NEW w \in Workers, Persist(w)
  PROVE  Index!Index
<1>1. UNCHANGED <<chain, late, cursor, origin, flaws>>
  BY DEF Persist, UpsertBatch, UpsertAddresses, UpsertTokenEvents, PublishIngest,
         network, history
<1>2. IndexedEvents \subseteq IndexedEvents'
  BY <1>1, TablesGrow DEF IndexedEvents, Structure
<1>3. IndexedEvents' \subseteq chain
  BY <1>1 DEF IndexedEvents
<1>4. Skipped' = Skipped
  BY <1>1 DEF Skipped
<1> QED
  BY <1>1, <1>2, <1>3, <1>4 DEF Index!Index

\* Writing the cursor advances the index, and one that stays where it is at most skips.
LEMMA UpsertMaps ==
  ASSUME Structure, Coverage, [Next]_vars, NEW w \in Workers, UpsertCursor(w)
  PROVE  Index!Advance \/ Index!Skip \/ UNCHANGED Index!vars
<1> DEFINE next == IF NoProgress(w) THEN cycle[w].latest ELSE cycle[w].next
<1>1. /\ TypeOK /\ UNCHANGED <<chain, late>>
      /\ IndexedEvents' = IndexedEvents
      /\ flaws \subseteq flaws'
  <2>1. TypeOK /\ UNCHANGED <<chain, late, events, addresses, tokens>>
    BY DEF Structure, UpsertCursor, network, tables
  <2> QED
    BY <2>1, SameIndexedEvents, FlawsRemain
<1>2. next \in Nat /\ next > 0 /\ cursor \in Nat
  <2>1. cycle[w].last < cycle[w].latest
    BY DEF Structure, Shapes, CycleShape, UpsertCursor
  <2> QED
    BY <1>1, <2>1, LocalTypes DEF NoProgress, TypeOK
<1>3. cursor' = Larger(cursor, next) /\ (cursor # 0 => origin' = origin)
  BY DEF UpsertCursor
<1>4. /\ Skipped \in BOOLEAN /\ Skipped' \in BOOLEAN
      /\ Skipped => Skipped'
  BY <1>1 DEF Skipped
<1> HIDE DEF next
<1>5. CASE cursor' = cursor
  <2>1. origin' = origin
    BY <1>2, <1>3, <1>5 DEF Larger
  <2>2. CASE Skipped'
    BY <1>1, <1>5, <2>1, <2>2, Zenon DEF Index!Skip
  <2>3. CASE ~Skipped'
    <3>1. Skipped' = Skipped
      BY <1>4, <2>3, Zenon
    <3> QED
      BY <1>1, <1>5, <2>1, <3>1 DEF Index!vars
  <2> QED
    BY <2>2, <2>3
<1>6. CASE cursor' # cursor
  <2>1. cursor < cursor'
    BY <1>2, <1>3, <1>6 DEF Larger
  <2>2. ~Skipped' => Index!CompleteTo(origin', cursor')
    <3> SUFFICES ASSUME flaws' = {} PROVE Index!CompleteTo(origin', cursor')
      BY DEF Skipped
    <3> QED
      BY UpsertCovers DEF Index!CompleteTo, IndexedEvents
  <2> QED
    BY <1>1, <1>3, <1>4, <2>1, <2>2 DEF Index!Advance
<1> QED
  BY <1>5, <1>6

\* What remains changes nothing readers see, or records that something was skipped.
LEMMA SilentStepMaps ==
  ASSUME TypeOK, [Next]_vars, UNCHANGED <<chain, late, cursor, tables, origin>>
  PROVE  Index!Skip \/ UNCHANGED Index!vars
<1>1. IndexedEvents' = IndexedEvents
  BY SameIndexedEvents DEF tables
<1>2. flaws \subseteq flaws'
  BY FlawsRemain
<1>3. CASE flaws' = {}
  BY <1>1, <1>2, <1>3 DEF Index!vars, Skipped
<1>4. CASE flaws' # {}
  <2>1. Skipped' = TRUE
    BY <1>4 DEF Skipped
  <2> QED
    BY <1>1, <2>1 DEF Index!Skip
<1> QED
  BY <1>3, <1>4

LEMMA NextMaps ==
  Structure /\ FetchedAreReal /\ Coverage /\ [Next]_vars => [Index!Next]_(Index!vars)
<1> SUFFICES ASSUME Structure, FetchedAreReal, Coverage, [Next]_vars
             PROVE  Index!Next \/ UNCHANGED Index!vars
  OBVIOUS
<1>1. TypeOK
  BY DEF Structure
<1>2. CASE Network
  BY <1>2, NetworkMaps DEF Index!Next
<1>3. ASSUME NEW w \in Workers, WorkerStep(w)
      PROVE  Index!Next \/ UNCHANGED Index!vars
  <2>1. CASE Persist(w)
    BY <2>1, PersistMaps DEF Index!Next
  <2>2. CASE UpsertCursor(w)
    BY <2>2, UpsertMaps DEF Index!Next
  <2>3. CASE ~Persist(w) /\ ~UpsertCursor(w)
    <3>1. UNCHANGED <<chain, late, cursor, tables, origin>>
      BY <1>1, <1>3, <2>3, WorkerStepFrame, WorkerStepWrites DEF network
    <3> QED
      BY <1>1, <3>1, SilentStepMaps DEF Index!Next
  <2> QED
    BY <2>1, <2>2, <2>3
<1>4. CASE UNCHANGED vars
  BY <1>1, <1>4, SilentStepMaps DEF vars, network, tables, history, Index!Next
<1> QED
  BY <1>2, <1>3, <1>4, NextSplit

\* The worker implements LedgerIndex: polling, paging, batching, chunking, reanchoring,
\* rescanning, failing and restarting are invisible to the readers of the index.
THEOREM ImplementsIndex == Spec => ImplementsLedgerIndex
<1>1. Spec => [](Structure /\ FetchedAreReal /\ Coverage)
  BY StructureInvariant, CoverageInvariant, PTL
<1> QED
  BY <1>1, InitMaps, NextMaps, PTL DEF Spec, ImplementsLedgerIndex, Index!Spec

===========================================================================
