----------------------- MODULE BackfillServiceProofs -----------------------
(***************************************************************************)
(* What a backfill that succeeds has indexed, and what its row tells, for  *)
(* any number of runs, commands, batches and events.                       *)
(*                                                                         *)
(* FinishedRunCoversRange is about the end of a run, so the invariant says *)
(* how far a run has come at each place of its loops: what it has still to *)
(* index is behind its cursor, behind its batch within the window, behind  *)
(* the page of its fetch, or in the chunk it holds.  RowTellsProgress rests on that of the run that     *)
(* started last, the only one that works as long as none overlap: the row  *)
(* says where its cursor is.                                               *)
(***************************************************************************)
EXTENDS BackfillService, FiniteSetTheorems, TLAPS

Working(r) == pc[r] \in {"window", "fetch", "events", "derived", "progress"}

\* What run r was started for and has neither missed nor indexed.
Pending(r) == (wanted[r] \ missed[r]) \ derived

\* Where event e is still to come, seen from run r.
Ahead(r, e) ==
  /\ cursor[r] <= e.ledger
  /\ pc[r] = "progress" => End(r) < e.ledger
  /\ pc[r] \in {"fetch", "events", "derived"} /\ e.ledger <= End(r) => batch[r] <= e.batch
  /\ pc[r] \in {"events", "derived"} /\ e.ledger <= End(r) /\ e.batch = batch[r] => e \in chunk[r]
  /\ pc[r] = "fetch" /\ e.ledger <= pos[r] /\ e.batch = batch[r] => e \in chunk[r]

RunProgress(r) ==
  /\ pc[r] # "fetch" => pos[r] = 0
  /\ Working(r) => \A e \in wanted[r] : e.ledger <= last[r]
  /\ Working(r) => \A e \in Pending(r) : Ahead(r, e)
  /\ pc[r] = "done" => Pending(r) = {}

\* The derived rows follow the rows of the events table.
ChunkIsStored == \A r \in Runs : pc[r] = "derived" => chunk[r] \subseteq stored

\* Until two runs overlap, the last one that was started is the one that works, and its
\* progress is in the row.
RowFollows ==
  ~overlapped => \A r \in Runs :
    Working(r) => r = owner /\ row.next = cursor[r] /\ row.status = "running"

Inv ==
  /\ TypeOK /\ ChunkIsStored
  /\ \A r \in Runs : RunProgress(r)
  /\ RowFollows /\ RowTellsProgress

---------------------------------------------------------------------------
\* Type correctness.

\* What the locals of a run and the events hold are numbers of ledgers and batches.
LEMMA LocalTypes ==
  ASSUME TypeOK, NEW r \in Runs
  PROVE  /\ last[r] \in Nat /\ cursor[r] \in Nat /\ batch[r] \in Int
         /\ 1 <= batch[r] /\ batch[r] <= Batches
         /\ End(r) \in Int /\ End(r) <= last[r]
         /\ command[r].from \in Nat /\ command[r].to \in 0 .. MaxLedger
         /\ pos[r] \in Nat /\ Batches \in Nat
  BY BackfillAssumption DEF TypeOK, End

LEMMA EventTypes ==
  ASSUME NEW e \in Events
  PROVE  e.ledger \in Nat /\ 1 <= e.ledger /\ e.batch \in Int /\ 1 <= e.batch /\ e.batch <= Batches
  BY BackfillAssumption

\* FetchEvents returns with well-typed locals.
LEMMA PagingTypes ==
  ASSUME TypeOK, NEW r \in Runs, EndPaging(r)
  PROVE  /\ first' \in [Runs -> Endpoints \cup {NoEndpoint}]
         /\ pos' \in [Runs -> 0 .. MaxLedger]
  BY BackfillAssumption DEF TypeOK, EndPaging

\* Run returns with well-typed locals.
LEMMA ReturnTypes ==
  ASSUME TypeOK, NEW r \in Runs, NEW result \in {"done", "failed"}, Return(r, result)
  PROVE  /\ pc' \in [Runs -> {"new", "start", "window", "fetch", "events", "derived",
                              "progress", "done", "failed"}]
         /\ last' \in [Runs -> 0 .. MaxLedger] /\ cursor' \in [Runs -> Nat]
         /\ batch' \in [Runs -> 1 .. Batches]
         /\ chunk' \in [Runs -> SUBSET Events]
         /\ active' \in [Runs -> Endpoints \cup {NoEndpoint}]
         /\ first' \in [Runs -> Endpoints \cup {NoEndpoint}]
         /\ pos' \in [Runs -> 0 .. MaxLedger]
<1>1. last' \in [Runs -> 0 .. MaxLedger] /\ cursor' \in [Runs -> Nat]
  BY BackfillAssumption DEF TypeOK, Return
<1>2. batch' \in [Runs -> 1 .. Batches] /\ chunk' \in [Runs -> SUBSET Events]
  BY BackfillAssumption DEF TypeOK, Return
<1>3. EndPaging(r) /\ active' \in [Runs -> Endpoints \cup {NoEndpoint}]
  BY DEF TypeOK, Return
<1> QED
  BY <1>1, <1>2, <1>3, PagingTypes DEF TypeOK, Return, Goto

\* The next batch is one there is.
LEMMA NextBatchTypes ==
  ASSUME TypeOK, NEW r \in Runs, NextBatch(r)
  PROVE  /\ pc' \in [Runs -> {"new", "start", "window", "fetch", "events", "derived",
                              "progress", "done", "failed"}]
         /\ batch' \in [Runs -> 1 .. Batches]
<1>1. batch[r] \in 1 .. Batches /\ batch \in [Runs -> 1 .. Batches]
  BY DEF TypeOK
<1>2. batch' \in [Runs -> 1 .. Batches]
  BY <1>1, BackfillAssumption DEF NextBatch
<1> QED
  BY <1>2 DEF TypeOK, NextBatch, Goto

\* What a fetch holds is on chain.
LEMMA FetchedTypes ==
  ASSUME TypeOK, NEW r \in Runs, NEW e \in Endpoints
  PROVE  Fetched(r, e) \in SUBSET Events
  BY DEF TypeOK, Fetched, Page, Served

\* The locals of a fetch that ends, and what is noted of it.
LEMMA LastPageTypes ==
  ASSUME TypeOK, NEW r \in Runs, NEW e \in Endpoints, LastPage(r, e)
  PROVE  /\ active' \in [Runs -> Endpoints \cup {NoEndpoint}]
         /\ first' \in [Runs -> Endpoints \cup {NoEndpoint}]
         /\ pos' \in [Runs -> 0 .. MaxLedger]
         /\ missed' \in [Runs -> SUBSET Events]
<1>1. missed' \in [Runs -> SUBSET Events]
  BY DEF TypeOK, LastPage, NoteMissed
<1>2. active' \in [Runs -> Endpoints \cup {NoEndpoint}]
  BY DEF TypeOK, LastPage
<1> QED
  BY <1>1, <1>2, PagingTypes DEF LastPage

\* TypeOK but for the end of the window, which holds by its definition.
InTheirSets ==
  /\ tip \in [Endpoints -> 1 .. MaxLedger]
  /\ row \in Row
  /\ stored \in SUBSET Events /\ derived \in SUBSET stored
  /\ command \in [Runs -> Commands]
  /\ pc \in [Runs -> {"new", "start", "window", "fetch", "events", "derived", "progress",
                      "done", "failed"}]
  /\ last \in [Runs -> 0 .. MaxLedger] /\ cursor \in [Runs -> Nat]
  /\ batch \in [Runs -> 1 .. Batches]
  /\ chunk \in [Runs -> SUBSET Events]
  /\ active \in [Runs -> Endpoints \cup {NoEndpoint}]
  /\ first \in [Runs -> Endpoints \cup {NoEndpoint}]
  /\ pos \in [Runs -> 0 .. MaxLedger]
  /\ wanted \in [Runs -> SUBSET Events] /\ missed \in [Runs -> SUBSET Events]
  /\ overlapped \in BOOLEAN /\ owner \in Runs \cup {NoRun}
  /\ faults \in 0 .. MaxFaults /\ reruns \in 0 .. MaxReruns

LEMMA TypesSuffice == InTheirSets <=> TypeOK
<1>1. ASSUME InTheirSets PROVE \A r \in Runs : End(r) <= last[r]
  <2> TAKE r \in Runs
  <2>1. last[r] \in Int /\ cursor[r] \in Int
    BY <1>1 DEF InTheirSets
  <2> QED
    BY <2>1, BackfillAssumption DEF End
<1> QED
  BY <1>1 DEF InTheirSets, TypeOK

LEMMA InitTypeOK == Init => TypeOK
<1> SUFFICES ASSUME Init PROVE InTheirSets
  BY TypesSuffice
<1> USE BackfillAssumption
<1>1. row \in Row
  BY DEF Init, Row
<1>2. last \in [Runs -> 0 .. MaxLedger] /\ batch \in [Runs -> 1 .. Batches]
  BY DEF Init
<1>3. cursor \in [Runs -> Nat] /\ chunk \in [Runs -> SUBSET Events]
  BY DEF Init
<1>4. wanted \in [Runs -> SUBSET Events] /\ missed \in [Runs -> SUBSET Events]
  BY DEF Init
<1>7. active \in [Runs -> Endpoints \cup {NoEndpoint}] /\ first = active
  BY DEF Init
<1>8. pos \in [Runs -> 0 .. MaxLedger]
  BY DEF Init
<1>5. derived \in SUBSET stored /\ stored \in SUBSET Events
  BY DEF Init
<1>6. faults \in 0 .. MaxFaults /\ reruns \in 0 .. MaxReruns
  BY DEF Init
<1> QED
  BY <1>1, <1>2, <1>3, <1>4, <1>5, <1>6, <1>7, <1>8 DEF Init, InTheirSets

LEMMA NextTypeOK == TypeOK /\ ChunkIsStored /\ [Next]_vars => TypeOK'
<1> SUFFICES ASSUME InTheirSets, TypeOK, ChunkIsStored, [Next]_vars PROVE InTheirSets'
  BY TypesSuffice, PTL
<1> USE BackfillAssumption DEF tables, locals, paging, history, bounds, Goto
<1>1. ASSUME NEW r \in Runs, InvalidRange(r) PROVE InTheirSets'
  BY <1>1, ReturnTypes DEF InvalidRange, InTheirSets
<1>2. ASSUME NEW r \in Runs, NEW e \in Endpoints, LatestLedger(r, e) PROVE InTheirSets'
  <2>1. tip[e] \in 0 .. MaxLedger
    BY DEF InTheirSets
  <2> QED
    BY <1>2, <2>1 DEF LatestLedger, InTheirSets
<1>3. ASSUME NEW r \in Runs, GivenRange(r) PROVE InTheirSets'
  BY <1>3, LocalTypes DEF GivenRange, InTheirSets
<1>4. ASSUME NEW r \in Runs, Start(r) PROVE InTheirSets'
  <2>1. row' \in Row /\ cursor' \in [Runs -> Nat]
    BY <1>4, LocalTypes DEF Start, Row, InTheirSets
  <2>2. wanted' \in [Runs -> SUBSET Events]
    BY <1>4 DEF Start, Starting, Closed, InTheirSets
  <2>3. missed' \in [Runs -> SUBSET Events] /\ overlapped' \in BOOLEAN /\ owner' \in Runs
    BY <1>4 DEF Start, Starting, InTheirSets
  <2> QED
    BY <1>4, <2>1, <2>2, <2>3 DEF Start, InTheirSets
<1>5. ASSUME NEW r \in Runs, BeginWindow(r) PROVE InTheirSets'
  BY <1>5 DEF BeginWindow, InTheirSets
<1>6. ASSUME NEW r \in Runs, NEW e \in Endpoints, FetchEvents(r, e) PROVE InTheirSets'
  <2>1. LastPage(r, e)
    BY <1>6 DEF FetchEvents
  <2>2. chunk' \in [Runs -> SUBSET Events]
    BY <1>6, FetchedTypes DEF FetchEvents, InTheirSets
  <2> QED
    BY <1>6, <2>1, <2>2, LastPageTypes DEF FetchEvents, InTheirSets
<1>7. ASSUME NEW r \in Runs, NEW e \in Endpoints, FetchNothing(r, e) PROVE InTheirSets'
  <2>1. LastPage(r, e)
    BY <1>7 DEF FetchNothing
  <2> QED
    BY <1>7, <2>1, LastPageTypes, NextBatchTypes DEF FetchNothing, InTheirSets
<1>17. ASSUME NEW r \in Runs, NEW e \in Endpoints, FetchNextPage(r, e) PROVE InTheirSets'
  <2>1. chunk' \in [Runs -> SUBSET Events]
    BY <1>17, FetchedTypes DEF FetchNextPage, InTheirSets
  <2>2. pos' \in [Runs -> 0 .. MaxLedger]
    <3>1. PICK x \in Page(r, e) : pos' = [pos EXCEPT ![r] = x.ledger]
      BY <1>17 DEF FetchNextPage
    <3>2. x \in Events
      BY FetchedTypes DEF Fetched
    <3>3. x.ledger \in 0 .. MaxLedger
      BY <3>2
    <3> QED
      BY <3>1, <3>3 DEF InTheirSets
  <2>3. first' \in [Runs -> Endpoints \cup {NoEndpoint}]
    BY <1>17 DEF FetchNextPage, InTheirSets
  <2> QED
    BY <1>17, <2>1, <2>2, <2>3 DEF FetchNextPage, InTheirSets
<1>18. ASSUME NEW r \in Runs, Reanchor(r) PROVE InTheirSets'
  BY <1>18, ReturnTypes DEF Reanchor, InTheirSets
<1>8. ASSUME NEW r \in Runs, FetchRefused(r) PROVE InTheirSets'
  BY <1>8, ReturnTypes DEF FetchRefused, InTheirSets
<1>9. ASSUME NEW r \in Runs, UpsertBatch(r) PROVE InTheirSets'
  BY <1>9 DEF UpsertBatch, InTheirSets
<1>10. ASSUME NEW r \in Runs, UpsertDerived(r) PROVE InTheirSets'
  <2>1. derived' \in SUBSET stored'
    BY <1>10 DEF UpsertDerived, ChunkIsStored, InTheirSets
  <2>2. chunk' \in [Runs -> SUBSET Events]
    BY <1>10 DEF UpsertDerived, InTheirSets
  <2> QED
    BY <1>10, <2>1, <2>2, NextBatchTypes DEF UpsertDerived, InTheirSets
<1>11. ASSUME NEW r \in Runs, UpdateProgress(r) PROVE InTheirSets'
  <2>1. CASE row.status = "running"
    <3>1. End(r) + 1 \in Nat
      BY LocalTypes DEF End
    <3>2. row' \in Row /\ cursor' \in [Runs -> Nat]
      BY <1>11, <2>1, <3>1 DEF UpdateProgress, Row, InTheirSets
    <3> QED
      BY <1>11, <2>1, <3>2 DEF UpdateProgress, InTheirSets
  <2>2. CASE row.status # "running"
    BY <1>11, <2>2, ReturnTypes DEF UpdateProgress, InTheirSets
  <2> QED
    BY <2>1, <2>2
<1>12. ASSUME NEW r \in Runs, Complete(r) PROVE InTheirSets'
  <2>1. row' \in Row
    BY <1>12 DEF Complete, Row, InTheirSets
  <2> QED
    BY <1>12, <2>1, ReturnTypes DEF Complete, InTheirSets
<1>13. ASSUME NEW r \in Runs, CallFails(r) PROVE InTheirSets'
  BY <1>13, ReturnTypes DEF CallFails, InTheirSets
<1>14. ASSUME NEW r \in Runs, RunAgain(r) PROVE InTheirSets'
  BY <1>14 DEF RunAgain, InTheirSets
<1>15. ASSUME NEW e \in Endpoints, EndpointAdvances(e) PROVE InTheirSets'
  <2>1. tip' \in [Endpoints -> 1 .. MaxLedger]
    BY <1>15 DEF EndpointAdvances, InTheirSets
  <2> QED
    BY <1>15, <2>1 DEF EndpointAdvances, InTheirSets
<1>16. CASE UNCHANGED vars
  BY <1>16 DEF vars, InTheirSets
<1> QED
  BY <1>1, <1>2, <1>3, <1>4, <1>5, <1>6, <1>7, <1>8, <1>9, <1>10, <1>11, <1>12, <1>13, <1>14,
     <1>15, <1>16, <1>17, <1>18 DEF Next, Step

---------------------------------------------------------------------------
\* The progress of a run.

\* What other runs and the chain do does not set a run back.
LEMMA OthersKeepProgress ==
  ASSUME TypeOK, NEW q \in Runs, RunProgress(q),
         pc'[q] = pc[q], last'[q] = last[q], cursor'[q] = cursor[q], batch'[q] = batch[q],
         chunk'[q] = chunk[q], pos'[q] = pos[q], wanted'[q] = wanted[q],
         missed'[q] = missed[q], derived \subseteq derived'
  PROVE  RunProgress(q)'
<1>1. End(q)' = End(q)
  BY DEF End
<1>2. Working(q)' = Working(q)
  BY DEF Working
<1>3. Pending(q)' \subseteq Pending(q)
  BY DEF Pending
<1>4. ASSUME NEW e, Ahead(q, e) PROVE Ahead(q, e)'
  BY <1>1, <1>4 DEF Ahead
<1> QED
  BY <1>2, <1>3, <1>4 DEF RunProgress

\* A run that has returned, or was told to start again, has nothing to answer for.
LEMMA IdleProgress ==
  ASSUME NEW q \in Runs, pc'[q] \in {"new", "start", "failed"}, pos'[q] = 0
  PROVE  RunProgress(q)'
  BY DEF RunProgress, Working

\* A run that starts has all of its range ahead.
LEMMA StartProgress ==
  ASSUME TypeOK, NEW r \in Runs, RunProgress(r), Start(r)
  PROVE  RunProgress(r)'
<1> USE DEF tables, paging, bounds, Goto
<1>1. /\ pc[r] = "start" /\ pc'[r] = "window" /\ cursor'[r] = command[r].from
      /\ last'[r] = last[r] /\ pos' = pos
  BY DEF Start, TypeOK
<1>2. \A e \in wanted'[r] : command[r].from <= e.ledger /\ e.ledger <= last[r]
  BY DEF Start, Starting, Closed, TypeOK
<1>3. \A e \in Pending(r)' : Ahead(r, e)'
  BY <1>1, <1>2 DEF Pending, Ahead
<1> QED
  BY <1>1, <1>2, <1>3 DEF RunProgress

\* A window begins with the first batch.
LEMMA BeginWindowProgress ==
  ASSUME TypeOK, NEW r \in Runs, RunProgress(r), BeginWindow(r)
  PROVE  RunProgress(r)'
<1> USE DEF tables, paging, history, bounds, Goto
<1>1. /\ pc[r] = "window" /\ pc'[r] = "fetch" /\ batch'[r] = 1 /\ pos'[r] = 0
      /\ cursor'[r] = cursor[r] /\ last'[r] = last[r] /\ wanted' = wanted
      /\ missed' = missed /\ derived' = derived
  BY DEF BeginWindow, RunProgress, TypeOK
<1>2. \A e \in Pending(r) : 1 <= e.batch /\ ~(e.ledger <= 0)
  BY EventTypes DEF Pending, TypeOK
<1>3. ASSUME NEW e \in Pending(r)' PROVE Ahead(r, e)'
  <2>1. e \in Pending(r) /\ Ahead(r, e)
    BY <1>1, <1>3 DEF Pending, RunProgress, Working
  <2> QED
    BY <1>1, <1>2, <2>1 DEF Ahead
<1> QED
  BY <1>1, <1>3 DEF RunProgress, Working

\* An endpoint serves all it has of the batch behind the page before.
LEMMA ServedBehindPage ==
  ASSUME TypeOK, NEW r \in Runs, RunProgress(r), pc[r] = "fetch", NEW ep \in Endpoints,
         NEW e \in Pending(r), e.batch = batch[r], e.ledger <= tip[ep]
  PROVE  e \in chunk[r] \/ e \in Served(r, ep)
<1>1. e \in Events /\ Ahead(r, e)
  BY DEF Pending, RunProgress, Working, TypeOK
<1>2. e.ledger \in Int /\ pos[r] \in Int
  BY <1>1, EventTypes, LocalTypes
<1>3. CASE pos[r] # 0 /\ e.ledger <= pos[r]
  BY <1>1, <1>3 DEF Ahead
<1>4. CASE pos[r] = 0 \/ pos[r] < e.ledger
  BY <1>1, <1>4 DEF Ahead, Served
<1> QED
  BY <1>2, <1>3, <1>4

\* A page holds what is served up to its last event.
LEMMA PageIsFirst ==
  ASSUME TypeOK, NEW r \in Runs, NEW ep \in Endpoints,
         NEW x \in Page(r, ep), NEW e \in Served(r, ep), e.ledger <= x.ledger
  PROVE  e \in Page(r, ep)
<1> DEFINE Before(z) == {y \in Served(r, ep) : y.ledger < z.ledger}
<1>1. IsFiniteSet(Before(x))
  BY BackfillAssumption, FS_Subset DEF Served
<1>2. Before(e) \subseteq Before(x)
  BY EventTypes DEF Served, Page
<1>3. /\ Cardinality(Before(e)) <= Cardinality(Before(x))
      /\ Cardinality(Before(e)) \in Nat /\ Cardinality(Before(x)) \in Nat
  BY <1>1, <1>2, FS_Subset, FS_CardinalityType
<1>4. Cardinality(Before(x)) < PageLimit
  BY DEF Page
<1>5. Cardinality(Before(e)) < PageLimit
  BY <1>3, <1>4, BackfillAssumption
<1> QED
  BY <1>5 DEF Page

\* The next page is read behind this one, which leaves out nothing before its last event.
LEMMA FetchNextPageProgress ==
  ASSUME TypeOK, NEW r \in Runs, RunProgress(r), NEW ep \in Endpoints, FetchNextPage(r, ep)
  PROVE  RunProgress(r)'
<1> USE DEF tables, history, bounds
<1>1. PICK x \in Page(r, ep) : pos' = [pos EXCEPT ![r] = x.ledger]
  BY DEF FetchNextPage
<1>2. /\ pc[r] = "fetch" /\ pc' = pc /\ chunk'[r] = chunk[r] \cup Page(r, ep)
      /\ pos'[r] = x.ledger /\ batch' = batch /\ cursor' = cursor /\ last' = last
      /\ wanted' = wanted /\ missed' = missed /\ derived' = derived
  BY <1>1 DEF FetchNextPage, CanFetch, Fetched, TypeOK
<1>3. End(r)' = End(r) /\ Pending(r)' = Pending(r)
  BY <1>2 DEF End, Pending
<1>4. ASSUME NEW e \in Pending(r) PROVE Ahead(r, e)'
  <2>1. Ahead(r, e)
    BY <1>2 DEF RunProgress, Working
  <2>2. ASSUME e.ledger <= x.ledger, e.batch = batch[r] PROVE e \in chunk'[r]
    <3>1. x.ledger <= tip[ep] /\ x \in Events
      BY DEF Page, Served
    <3>2. e.ledger \in Int /\ x.ledger \in Int /\ tip[ep] \in Int
      BY <3>1, EventTypes DEF Pending, TypeOK
    <3>3. e.ledger <= tip[ep]
      BY <2>2, <3>1, <3>2
    <3>4. e \in chunk[r] \/ e \in Served(r, ep)
      BY <1>2, <2>2, <3>3, ServedBehindPage
    <3> QED
      BY <1>2, <2>2, <3>4, PageIsFirst
  <2> QED
    BY <1>2, <1>3, <2>1, <2>2 DEF Ahead
<1> QED
  BY <1>2, <1>3, <1>4 DEF RunProgress, Working

\* What the last page leaves out of the window counts as missed.
LEMMA LastPageMisses ==
  ASSUME TypeOK, TypeOK', NEW r \in Runs, RunProgress(r), NEW ep \in Endpoints,
         LastPage(r, ep), wanted' = wanted, derived' = derived,
         NEW e \in Pending(r)', e.ledger <= End(r), e.batch = batch[r]
  PROVE  e \in Fetched(r, ep)
<1>1. e \in Pending(r) /\ pc[r] = "fetch"
  BY DEF Pending, LastPage, NoteMissed, CanFetch, TypeOK
<1>2. e \in Events /\ e \in wanted[r] /\ Ahead(r, e)
  BY <1>1 DEF Pending, RunProgress, Working, TypeOK
<1>3. e.ledger \in Int /\ tip[ep] \in Int
  BY <1>2, EventTypes DEF TypeOK
<1>4. ~(e \in Served(r, ep) \ Page(r, ep)) /\ ~(tip[ep] < e.ledger)
  BY <1>2 DEF Pending, LastPage, NoteMissed, Ahead, TypeOK
<1>5. e \in chunk[r] \/ e \in Served(r, ep)
  BY <1>1, <1>3, <1>4, ServedBehindPage
<1> QED
  BY <1>4, <1>5 DEF Fetched

\* The chunk of a fetch that ends holds what is pending of its batch in the window.
LEMMA FetchEventsProgress ==
  ASSUME TypeOK, TypeOK', NEW r \in Runs, RunProgress(r), NEW ep \in Endpoints,
         FetchEvents(r, ep)
  PROVE  RunProgress(r)'
<1> USE DEF tables, bounds, Goto
<1>1. /\ pc[r] = "fetch" /\ pc'[r] = "events" /\ chunk'[r] = Fetched(r, ep)
      /\ batch' = batch /\ cursor' = cursor /\ last' = last /\ wanted' = wanted
      /\ derived' = derived /\ pos'[r] = 0 /\ LastPage(r, ep)
  BY DEF FetchEvents, LastPage, EndPaging, CanFetch, TypeOK
<1>2. End(r)' = End(r)
  BY <1>1 DEF End
<1>3. Pending(r)' \subseteq Pending(r)
  BY <1>1 DEF LastPage, NoteMissed, Pending, TypeOK
<1>4. ASSUME NEW e \in Pending(r)' PROVE Ahead(r, e)'
  <2>1. Ahead(r, e)
    BY <1>1, <1>3, <1>4 DEF RunProgress, Working
  <2>2. e.ledger <= End(r) /\ e.batch = batch[r] => e \in Fetched(r, ep)
    BY <1>1, <1>4, LastPageMisses
  <2> QED
    BY <1>1, <1>2, <2>1, <2>2 DEF Ahead
<1> QED
  BY <1>1, <1>4 DEF RunProgress, Working

\* When no event of the batch is left in the window, the next batch or the end of the window.
LEMMA NextBatchProgress ==
  ASSUME TypeOK, NEW r \in Runs, RunProgress(r), NextBatch(r),
         pc[r] \in {"fetch", "derived"},
         cursor' = cursor, last' = last, wanted' = wanted, pos'[r] = 0,
         Pending(r)' \subseteq Pending(r),
         \A e \in Pending(r)' : Ahead(r, e) /\ e.ledger <= End(r) => e.batch # batch[r]
  PROVE  RunProgress(r)'
<1>1. End(r)' = End(r)
  BY DEF End
<1>2. \A e \in Pending(r)' : /\ e.batch \in Int /\ e.batch <= Batches
                             /\ e.ledger \in Nat /\ ~(e.ledger <= 0)
  BY EventTypes DEF Pending, TypeOK
<1>3. batch[r] \in Int /\ batch[r] <= Batches /\ End(r) \in Int /\ Batches \in Int
  BY LocalTypes
<1>4. ASSUME NEW e \in Pending(r)' PROVE Ahead(r, e)'
  <2>1. e \in Pending(r) /\ Ahead(r, e)
    BY <1>4 DEF RunProgress, Working
  <2>2. e.ledger <= End(r) => batch[r] + 1 <= e.batch
    <3>1. e.ledger <= End(r) => batch[r] <= e.batch /\ e.batch # batch[r]
      BY <2>1, <1>4 DEF Ahead
    <3> QED
      BY <3>1, <1>2, <1>3
  <2>3. CASE batch[r] < Batches
    <3>1. pc'[r] = "fetch" /\ batch'[r] = batch[r] + 1
      BY <2>3 DEF NextBatch, Goto, TypeOK
    <3> QED
      BY <3>1, <1>1, <1>2, <2>1, <2>2 DEF Ahead
  <2>4. CASE ~(batch[r] < Batches)
    <3>1. pc'[r] = "progress" /\ batch' = batch
      BY <2>4 DEF NextBatch, Goto, TypeOK
    <3>2. End(r) < e.ledger
      BY <2>2, <2>4, <1>2, <1>3
    <3> QED
      BY <3>1, <3>2, <1>1, <2>1 DEF Ahead
  <2> QED
    BY <2>3, <2>4
<1>5. pc'[r] \in {"fetch", "progress"}
  BY DEF NextBatch, Goto, TypeOK
<1> QED
  BY <1>4, <1>5 DEF RunProgress, Working

\* Run returns without success.
LEMMA FailedProgress ==
  ASSUME TypeOK, NEW q \in Runs, NEW r \in Runs, RunProgress(q), Return(r, "failed"),
         UNCHANGED <<derived, wanted, missed>>
  PROVE  RunProgress(q)'
<1>1. CASE q = r
  BY <1>1, IdleProgress DEF Return, EndPaging, Goto, TypeOK
<1>2. CASE q # r
  BY <1>2, OthersKeepProgress DEF Return, EndPaging, Goto, TypeOK
<1> QED
  BY <1>1, <1>2

LEMMA NextProgress == Inv /\ [Next]_vars => \A q \in Runs : RunProgress(q)'
<1> SUFFICES ASSUME Inv, [Next]_vars, NEW q \in Runs PROVE RunProgress(q)'
  OBVIOUS
<1> USE DEF tables, paging, history, bounds, Goto
<1>0. /\ TypeOK /\ TypeOK' /\ RunProgress(q)
      /\ \A r \in Runs : RunProgress(r)
  BY NextTypeOK DEF Inv
<1>1. ASSUME NEW r \in Runs, InvalidRange(r) PROVE RunProgress(q)'
  BY <1>0, <1>1, FailedProgress DEF InvalidRange
<1>2. ASSUME NEW r \in Runs, NEW e \in Endpoints, LatestLedger(r, e) PROVE RunProgress(q)'
  <2>1. pc'[r] = "start" /\ pos'[r] = 0
    BY <1>0, <1>2 DEF LatestLedger, RunProgress, TypeOK
  <2> QED
    BY <1>0, <1>2, <2>1, IdleProgress, OthersKeepProgress DEF LatestLedger, TypeOK
<1>3. ASSUME NEW r \in Runs, GivenRange(r) PROVE RunProgress(q)'
  <2>1. pc'[r] = "start" /\ pos'[r] = 0
    BY <1>0, <1>3 DEF GivenRange, RunProgress, TypeOK
  <2> QED
    BY <1>0, <1>3, <2>1, IdleProgress, OthersKeepProgress DEF GivenRange, TypeOK
<1>4. ASSUME NEW r \in Runs, Start(r) PROVE RunProgress(q)'
  <2>1. CASE q = r
    BY <1>0, <1>4, <2>1, StartProgress
  <2>2. CASE q # r
    <3>1. pc'[q] = pc[q] /\ cursor'[q] = cursor[q]
      BY <1>4, <2>2 DEF Start, TypeOK
    <3>2. wanted'[q] = wanted[q] /\ missed'[q] = missed[q]
      BY <1>4, <2>2 DEF Start, Starting, TypeOK
    <3>3. UNCHANGED <<derived, last, batch, chunk, pos>>
      BY <1>4 DEF Start
    <3> QED
      BY <1>0, <3>1, <3>2, <3>3, OthersKeepProgress
  <2> QED
    BY <2>1, <2>2
<1>5. ASSUME NEW r \in Runs, BeginWindow(r) PROVE RunProgress(q)'
  <2>1. CASE q = r
    BY <1>0, <1>5, <2>1, BeginWindowProgress
  <2>2. CASE q # r
    BY <1>0, <1>5, <2>2, OthersKeepProgress DEF BeginWindow, TypeOK
  <2> QED
    BY <2>1, <2>2
<1>6. ASSUME NEW r \in Runs, NEW e \in Endpoints, FetchNextPage(r, e) PROVE RunProgress(q)'
  <2>1. CASE q = r
    BY <1>0, <1>6, <2>1, FetchNextPageProgress
  <2>2. CASE q # r
    BY <1>0, <1>6, <2>2, OthersKeepProgress DEF FetchNextPage, TypeOK
  <2> QED
    BY <2>1, <2>2
<1>7. ASSUME NEW r \in Runs, NEW e \in Endpoints, FetchEvents(r, e) PROVE RunProgress(q)'
  <2>1. CASE q = r
    BY <1>0, <1>7, <2>1, FetchEventsProgress
  <2>2. CASE q # r
    BY <1>0, <1>7, <2>2, OthersKeepProgress
       DEF FetchEvents, LastPage, NoteMissed, EndPaging, TypeOK
  <2> QED
    BY <2>1, <2>2
<1>8. ASSUME NEW r \in Runs, NEW e \in Endpoints, FetchNothing(r, e) PROVE RunProgress(q)'
  <2>1. CASE q = r
    <3>1. LastPage(r, e) /\ Fetched(r, e) = {} /\ UNCHANGED <<wanted, derived, cursor, last>>
      BY <1>8 DEF FetchNothing
    <3>2. \A x \in Pending(r)' : Ahead(r, x) /\ x.ledger <= End(r) => x.batch # batch[r]
      BY <1>0, <3>1, LastPageMisses
    <3>3. Pending(r)' \subseteq Pending(r) /\ pc[r] = "fetch" /\ pos'[r] = 0
      BY <1>0, <3>1 DEF LastPage, NoteMissed, EndPaging, CanFetch, Pending, TypeOK
    <3>4. NextBatch(r)
      BY <1>8 DEF FetchNothing
    <3> QED
      BY <1>0, <2>1, <3>1, <3>2, <3>3, <3>4, NextBatchProgress
  <2>2. CASE q # r
    BY <1>0, <1>8, <2>2, OthersKeepProgress
       DEF FetchNothing, LastPage, NoteMissed, EndPaging, NextBatch, TypeOK
  <2> QED
    BY <2>1, <2>2
<1>9. ASSUME NEW r \in Runs, Reanchor(r) PROVE RunProgress(q)'
  BY <1>0, <1>9, FailedProgress DEF Reanchor
<1>10. ASSUME NEW r \in Runs, FetchRefused(r) PROVE RunProgress(q)'
  BY <1>0, <1>10, FailedProgress DEF FetchRefused
<1>11. ASSUME NEW r \in Runs, UpsertBatch(r) PROVE RunProgress(q)'
  <2>1. CASE q = r
    <3>1. /\ pc[r] = "events" /\ pc'[r] = "derived"
          /\ UNCHANGED <<derived, last, cursor, batch, chunk, pos, wanted, missed>>
      BY <1>0, <1>11 DEF UpsertBatch, TypeOK, locals
    <3>2. \A e : Ahead(r, e) => Ahead(r, e)'
      BY <3>1 DEF Ahead, End
    <3> QED
      BY <1>0, <2>1, <3>1, <3>2 DEF RunProgress, Working, Pending
  <2>2. CASE q # r
    BY <1>0, <1>11, <2>2, OthersKeepProgress DEF UpsertBatch, locals, TypeOK
  <2> QED
    BY <2>1, <2>2
<1>12. ASSUME NEW r \in Runs, UpsertDerived(r) PROVE RunProgress(q)'
  <2>1. CASE q = r
    <3>1. \A e \in Pending(r)' : Ahead(r, e) /\ e.ledger <= End(r) => e.batch # batch[r]
      BY <1>12 DEF UpsertDerived, Pending, Ahead
    <3>2. Pending(r)' \subseteq Pending(r) /\ pos'[r] = 0
      BY <1>0, <1>12 DEF UpsertDerived, RunProgress, Pending
    <3> QED
      BY <1>0, <1>12, <2>1, <3>1, <3>2, NextBatchProgress DEF UpsertDerived
  <2>2. CASE q # r
    BY <1>0, <1>12, <2>2, OthersKeepProgress DEF UpsertDerived, NextBatch, TypeOK
  <2> QED
    BY <2>1, <2>2
<1>13. ASSUME NEW r \in Runs, UpdateProgress(r) PROVE RunProgress(q)'
  <2>1. CASE q = r /\ row.status = "running"
    <3>1. /\ pc[r] = "progress" /\ pc'[r] = "window" /\ cursor'[r] = End(r) + 1
          /\ UNCHANGED <<derived, last, pos, wanted, missed>>
      BY <1>0, <1>13, <2>1 DEF UpdateProgress, TypeOK
    <3>2. \A e \in Pending(r) : e.ledger \in Int /\ End(r) \in Int
      BY <1>0, EventTypes, LocalTypes DEF Pending, TypeOK
    <3>3. \A e \in Pending(r) : Ahead(r, e) => Ahead(r, e)'
      BY <3>1, <3>2 DEF Ahead
    <3> QED
      BY <1>0, <2>1, <3>1, <3>3 DEF RunProgress, Working, Pending
  <2>2. CASE row.status # "running"
    BY <1>0, <1>13, <2>2, FailedProgress DEF UpdateProgress
  <2>3. CASE q # r /\ row.status = "running"
    BY <1>0, <1>13, <2>3, OthersKeepProgress DEF UpdateProgress, TypeOK
  <2> QED
    BY <2>1, <2>2, <2>3
<1>14. ASSUME NEW r \in Runs, Complete(r) PROVE RunProgress(q)'
  <2>1. CASE q = r
    <3>1. /\ pc[r] = "window" /\ pc'[r] = "done" /\ cursor[r] > last[r]
          /\ pos'[r] = 0 /\ UNCHANGED <<derived, wanted, missed>>
      BY <1>0, <1>14 DEF Complete, Return, EndPaging, TypeOK
    <3>2. Pending(r) = {}
      <4> SUFFICES ASSUME NEW e \in Pending(r) PROVE FALSE
        OBVIOUS
      <4>1. e.ledger \in Int /\ cursor[r] \in Int /\ last[r] \in Int
        BY <1>0, EventTypes, LocalTypes DEF Pending, TypeOK
      <4>2. cursor[r] <= e.ledger /\ e.ledger <= last[r]
        BY <1>0, <3>1 DEF RunProgress, Working, Pending, Ahead
      <4> QED
        BY <3>1, <4>1, <4>2
    <3> QED
      BY <2>1, <3>1, <3>2 DEF RunProgress, Working, Pending
  <2>2. CASE q # r
    BY <1>0, <1>14, <2>2, OthersKeepProgress DEF Complete, Return, EndPaging, TypeOK
  <2> QED
    BY <2>1, <2>2
<1>15. ASSUME NEW r \in Runs, CallFails(r) PROVE RunProgress(q)'
  BY <1>0, <1>15, FailedProgress DEF CallFails
<1>16. ASSUME NEW r \in Runs, RunAgain(r) PROVE RunProgress(q)'
  <2>1. pc'[r] = "new" /\ pos'[r] = 0
    BY <1>0, <1>16 DEF RunAgain, RunProgress, locals, TypeOK
  <2> QED
    BY <1>0, <1>16, <2>1, IdleProgress, OthersKeepProgress DEF RunAgain, locals, TypeOK
<1>17. ASSUME NEW e \in Endpoints, EndpointAdvances(e) PROVE RunProgress(q)'
  BY <1>0, <1>17, OthersKeepProgress DEF EndpointAdvances, locals
<1>18. CASE UNCHANGED vars
  BY <1>0, <1>18, OthersKeepProgress DEF vars, locals
<1> QED
  BY <1>1, <1>2, <1>3, <1>4, <1>5, <1>6, <1>7, <1>8, <1>9, <1>10, <1>11, <1>12, <1>13, <1>14,
     <1>15, <1>16, <1>17, <1>18 DEF Next, Step

---------------------------------------------------------------------------
\* The row of the network.

LEMMA NextChunkIsStored == TypeOK /\ ChunkIsStored /\ [Next]_vars => ChunkIsStored'
<1> SUFFICES ASSUME TypeOK, ChunkIsStored, [Next]_vars, NEW q \in Runs, pc'[q] = "derived"
             PROVE  chunk'[q] \subseteq stored'
  BY DEF ChunkIsStored
<1> USE DEF tables, locals, paging, history, bounds, Goto, Return, NextBatch
<1>1. ASSUME NEW r \in Runs, UpsertBatch(r) PROVE chunk'[q] \subseteq stored'
  BY <1>1 DEF UpsertBatch, ChunkIsStored, TypeOK
<1>2. ASSUME NEW r \in Runs, \/ InvalidRange(r) \/ GivenRange(r) \/ Start(r)
                             \/ BeginWindow(r) \/ FetchRefused(r) \/ Reanchor(r)
                             \/ UpsertDerived(r)
      PROVE  chunk'[q] \subseteq stored'
  BY <1>2 DEF InvalidRange, GivenRange, Start, BeginWindow, FetchRefused, Reanchor,
              UpsertDerived, ChunkIsStored, TypeOK
<1>3. ASSUME NEW r \in Runs, NEW e \in Endpoints,
             \/ LatestLedger(r, e) \/ FetchNextPage(r, e) \/ FetchEvents(r, e)
             \/ FetchNothing(r, e)
      PROVE  chunk'[q] \subseteq stored'
  BY <1>3 DEF LatestLedger, FetchNextPage, FetchEvents, FetchNothing, LastPage, CanFetch,
              ChunkIsStored, TypeOK
<1>4. ASSUME NEW r \in Runs, UpdateProgress(r) \/ Complete(r) \/ CallFails(r) \/ RunAgain(r)
      PROVE  chunk'[q] \subseteq stored'
  BY <1>4 DEF UpdateProgress, Complete, CallFails, RunAgain, ChunkIsStored, TypeOK
<1>5. ASSUME NEW e \in Endpoints, EndpointAdvances(e) PROVE chunk'[q] \subseteq stored'
  BY <1>5 DEF EndpointAdvances, ChunkIsStored
<1>6. CASE UNCHANGED vars
  BY <1>6 DEF vars, ChunkIsStored
<1> QED
  BY <1>1, <1>2, <1>3, <1>4, <1>5, <1>6 DEF Next, Step

\* The steps of run r that leave the row and the history of starts alone.
LEMMA RowKept ==
  ASSUME TypeOK, RowFollows, NEW r \in Runs, UNCHANGED <<row, overlapped, owner>>,
         \A q \in Runs : Working(q)' => Working(q) /\ cursor'[q] = cursor[q]
  PROVE  RowFollows'
  BY DEF RowFollows

LEMMA NextRowFollows == TypeOK /\ RowFollows /\ [Next]_vars => RowFollows'
<1> SUFFICES ASSUME TypeOK, RowFollows, [Next]_vars PROVE RowFollows'
  OBVIOUS
<1> USE DEF tables, history, bounds, Goto
<1>1. ASSUME NEW r \in Runs,
             \/ InvalidRange(r) \/ GivenRange(r) \/ FetchRefused(r) \/ Reanchor(r)
             \/ CallFails(r) \/ RunAgain(r)
      PROVE  RowFollows'
  <2>1. \A q \in Runs : Working(q)' => Working(q) /\ cursor'[q] = cursor[q]
    BY <1>1 DEF InvalidRange, GivenRange, FetchRefused, Reanchor, CallFails, RunAgain,
                Return, locals, Working, TypeOK
  <2>2. UNCHANGED <<row, overlapped, owner>>
    BY <1>1 DEF InvalidRange, GivenRange, FetchRefused, Reanchor, CallFails, RunAgain
  <2> QED
    BY <2>1, <2>2, RowKept
<1>2. ASSUME NEW r \in Runs, BeginWindow(r) \/ UpsertBatch(r) \/ UpsertDerived(r)
      PROVE  RowFollows'
  <2>1. \A q \in Runs : Working(q)' => Working(q) /\ cursor'[q] = cursor[q]
    BY <1>2 DEF BeginWindow, UpsertBatch, UpsertDerived, NextBatch, locals, Working, TypeOK
  <2>2. UNCHANGED <<row, overlapped, owner>>
    BY <1>2 DEF BeginWindow, UpsertBatch, UpsertDerived
  <2> QED
    BY <2>1, <2>2, RowKept
<1>7. ASSUME NEW r \in Runs, NEW e \in Endpoints,
             \/ LatestLedger(r, e) \/ FetchNextPage(r, e) \/ FetchEvents(r, e)
             \/ FetchNothing(r, e)
      PROVE  RowFollows'
  <2>1. \A q \in Runs : Working(q)' => Working(q) /\ cursor'[q] = cursor[q]
    BY <1>7 DEF LatestLedger, FetchNextPage, FetchEvents, FetchNothing, LastPage, CanFetch,
                NextBatch, Working, TypeOK
  <2>2. UNCHANGED <<row, overlapped, owner>>
    BY <1>7 DEF LatestLedger, FetchNextPage, FetchEvents, FetchNothing
  <2> QED
    BY <2>1, <2>2, RowKept
<1>3. ASSUME NEW r \in Runs, Start(r) PROVE RowFollows'
  <2>1. \A q \in Runs : Working(q)' /\ q # r => q \in UnderWay
    BY <1>3 DEF Start, Working, UnderWay, TypeOK
  <2>2. owner' = r /\ row'.next = cursor'[r] /\ row'.status = "running"
    BY <1>3 DEF Start, Starting, TypeOK
  <2>3. ~overlapped' => UnderWay = {r}
    BY <1>3 DEF Start, Starting
  <2> QED
    BY <2>1, <2>2, <2>3 DEF RowFollows
<1>4. ASSUME NEW r \in Runs, UpdateProgress(r) PROVE RowFollows'
  <2>1. pc[r] = "progress" /\ UNCHANGED <<overlapped, owner>>
    BY <1>4 DEF UpdateProgress
  <2>2. ~overlapped => r = owner /\ row.status = "running"
    BY <2>1 DEF RowFollows, Working
  <2>3. ASSUME row.status = "running"
        PROVE  row'.next = cursor'[r] /\ row'.status = "running"
    <3>1. row' = [row EXCEPT !.next = End(r) + 1] /\ cursor'[r] = End(r) + 1
      BY <1>4, <2>3 DEF UpdateProgress, TypeOK
    <3> QED
      BY <2>3, <3>1 DEF TypeOK, Row
  <2>4. \A q \in Runs : Working(q)' /\ q # r => Working(q)
    BY <1>4 DEF UpdateProgress, Return, Working, TypeOK
  <2> QED
    BY <2>1, <2>2, <2>3, <2>4 DEF RowFollows
<1>5. ASSUME NEW r \in Runs, Complete(r) PROVE RowFollows'
  <2>1. Working(r) /\ UNCHANGED <<overlapped, owner>> /\ ~Working(r)'
    BY <1>5 DEF Complete, Return, Working, TypeOK
  <2>2. \A q \in Runs : Working(q)' => Working(q)
    BY <1>5 DEF Complete, Return, Working, TypeOK
  <2> QED
    BY <2>1, <2>2 DEF RowFollows
<1>6. ASSUME NEW e \in Endpoints, EndpointAdvances(e) PROVE RowFollows'
  BY <1>6 DEF EndpointAdvances, locals, RowFollows, Working
<1>8. CASE UNCHANGED vars
  BY <1>8 DEF vars, locals, RowFollows, Working
<1> QED
  BY <1>1, <1>2, <1>3, <1>4, <1>5, <1>6, <1>7, <1>8 DEF Next, Step

\* What the row says of the run that started last, for any run.
Told(q) ==
  /\ {e \in wanted[q] \ missed[q] : e.ledger < row.next} \subseteq derived
  /\ row.status = "completed" => wanted[q] \ missed[q] \subseteq derived

\* The row of a run at work says where its cursor is.
LEMMA WorkingTold ==
  ASSUME TypeOK', NEW q \in Runs, RunProgress(q)', Working(q)',
         row'.next = cursor'[q], row'.status = "running"
  PROVE  Told(q)'
<1>1. \A e \in wanted'[q] : e.ledger \in Int /\ cursor'[q] \in Int
  BY EventTypes DEF TypeOK
<1>2. {e \in wanted'[q] \ missed'[q] : e.ledger < row'.next} \subseteq derived'
  BY <1>1 DEF RunProgress, Pending, Ahead
<1> QED
  BY <1>2 DEF Told

\* The steps that leave the row alone.
RowUntouched ==
  /\ UNCHANGED <<row, wanted, overlapped, owner>>
  /\ derived \subseteq derived'
  /\ \A q \in Runs : missed[q] \subseteq missed'[q]

LEMMA NextRowTellsProgress == Inv /\ [Next]_vars => RowTellsProgress'
<1> SUFFICES ASSUME Inv, [Next]_vars, ~overlapped', NEW q \in Runs, q = owner' PROVE Told(q)'
  <2>1. ASSUME Inv, [Next]_vars PROVE owner' \in Runs \cup {NoRun}
    BY <2>1, NextTypeOK DEF Inv, TypeOK
  <2> QED
    BY <2>1 DEF RowTellsProgress, Told
<1> USE DEF tables, history, bounds, Goto
<1>0. /\ TypeOK /\ RowFollows /\ RowTellsProgress /\ TypeOK' /\ RowFollows' /\ NoRun \notin Runs
      /\ RunProgress(q)'
  BY NextTypeOK, NextRowFollows, NextProgress, BackfillAssumption DEF Inv
<1>1. CASE Working(q)'
  <2>1. row'.next = cursor'[q] /\ row'.status = "running"
    BY <1>0, <1>1 DEF RowFollows
  <2> QED
    BY <1>0, <1>1, <2>1, WorkingTold
<1>2. ASSUME RowUntouched PROVE Told(q)'
  BY <1>0, <1>2 DEF RowUntouched, RowTellsProgress, Told
<1>3. ASSUME NEW r \in Runs,
             \/ InvalidRange(r) \/ GivenRange(r) \/ FetchRefused(r) \/ Reanchor(r)
             \/ CallFails(r) \/ RunAgain(r) \/ BeginWindow(r) \/ UpsertBatch(r)
             \/ UpsertDerived(r)
      PROVE  RowUntouched
  BY <1>3 DEF InvalidRange, GivenRange, FetchRefused, Reanchor, CallFails, RunAgain,
              BeginWindow, UpsertBatch, UpsertDerived, RowUntouched
<1>4. ASSUME NEW r \in Runs, NEW e \in Endpoints,
             \/ LatestLedger(r, e) \/ FetchNextPage(r, e) \/ FetchEvents(r, e)
             \/ FetchNothing(r, e)
      PROVE  RowUntouched
  <2>1. CASE LatestLedger(r, e) \/ FetchNextPage(r, e)
    BY <2>1 DEF LatestLedger, FetchNextPage, RowUntouched
  <2>2. CASE FetchEvents(r, e) \/ FetchNothing(r, e)
    <3>1. \A p \in Runs : missed[p] \subseteq missed'[p]
      BY <1>0, <2>2 DEF FetchEvents, FetchNothing, LastPage, NoteMissed, TypeOK
    <3> QED
      BY <2>2, <3>1 DEF FetchEvents, FetchNothing, RowUntouched
  <2> QED
    BY <1>4, <2>1, <2>2
<1>5. ASSUME NEW r \in Runs, Start(r) PROVE Working(q)'
  BY <1>0, <1>5 DEF Start, Starting, Working, TypeOK
<1>6. ASSUME NEW r \in Runs, UpdateProgress(r) PROVE Working(q)' \/ RowUntouched
  <2>1. r = q
    BY <1>0, <1>6 DEF UpdateProgress, RowFollows, Working
  <2>2. CASE row.status = "running"
    BY <1>0, <1>6, <2>1, <2>2 DEF UpdateProgress, Working, TypeOK
  <2>3. CASE row.status # "running"
    BY <1>6, <2>3 DEF UpdateProgress, RowUntouched
  <2> QED
    BY <2>2, <2>3
<1>7. ASSUME NEW r \in Runs, Complete(r) PROVE Told(q)'
  <2>1. r = q
    BY <1>0, <1>7 DEF Complete, RowFollows, Working
  <2>2. pc'[q] = "done"
    BY <1>0, <1>7, <2>1 DEF Complete, Return, TypeOK
  <2> QED
    BY <1>0, <2>2 DEF RunProgress, Pending, Told
<1>8. CASE (\E e \in Endpoints : EndpointAdvances(e)) \/ UNCHANGED vars
  BY <1>2, <1>8 DEF EndpointAdvances, vars, RowUntouched
<1>9. ASSUME NEW r \in Runs, Step(r) PROVE Told(q)'
  BY <1>1, <1>2, <1>3, <1>4, <1>5, <1>6, <1>7, <1>9, Zenon DEF Step
<1>10. ASSUME NEW r \in Runs, CallFails(r) \/ RunAgain(r) PROVE Told(q)'
  BY <1>2, <1>3, <1>10, Zenon
<1> QED
  BY <1>2, <1>8, <1>9, <1>10, Zenon DEF Next

---------------------------------------------------------------------------

LEMMA InitInv == Init => Inv
<1> SUFFICES ASSUME Init PROVE Inv
  OBVIOUS
<1>1. TypeOK
  BY InitTypeOK
<1>2. \A r \in Runs : pc[r] = "new" /\ pos[r] = 0
  BY DEF Init
<1>3. owner = NoRun
  BY DEF Init
<1> QED
  BY <1>1, <1>2, <1>3
     DEF Inv, ChunkIsStored, RunProgress, Working, RowFollows, RowTellsProgress

LEMMA NextInv == Inv /\ [Next]_vars => Inv'
<1> SUFFICES ASSUME Inv, [Next]_vars PROVE Inv'
  OBVIOUS
<1>1. TypeOK' /\ ChunkIsStored'
  BY NextTypeOK, NextChunkIsStored DEF Inv
<1>2. \A q \in Runs : RunProgress(q)'
  BY NextProgress
<1>3. RowFollows'
  BY NextRowFollows DEF Inv
<1>4. RowTellsProgress'
  BY NextRowTellsProgress
<1> QED
  BY <1>1, <1>2, <1>3, <1>4 DEF Inv

\* The invariant of the backfill, of which the two theorems below are parts.
THEOREM BackfillInvariant == Spec => []Inv
<1>1. Init => Inv
  BY InitInv
<1>2. Inv /\ [Next]_vars => Inv'
  BY NextInv
<1> QED
  BY <1>1, <1>2, PTL DEF Spec

\* BackfillService.Run: a backfill that returns without an error has indexed every event that
\* was on chain in its range when it started, whatever else ran, but for those that a fetch of
\* their window ended without: cut off by the page limit, or not yet served by the endpoint
\* that answered last.
THEOREM FinishedRunsCoverTheirRange == Spec => []FinishedRunCoversRange
<1>1. Inv => FinishedRunCoversRange
  BY DEF Inv, RunProgress, Pending, FinishedRunCoversRange
<1> QED
  BY <1>1, BackfillInvariant, PTL

\* backfill_state: as long as no two backfills of a network overlap, what lies before the row's
\* next_ledger is indexed, and the whole range once the row is completed, with the same
\* exception.
THEOREM RowsTellProgress == Spec => []RowTellsProgress
<1>1. Inv => RowTellsProgress
  BY DEF Inv
<1> QED
  BY <1>1, BackfillInvariant, PTL

===========================================================================
