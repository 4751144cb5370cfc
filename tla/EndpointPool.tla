---------------------------- MODULE EndpointPool ----------------------------
(***************************************************************************)
(* Calls to the RPC endpoints: ResilientClient.call, which is              *)
(* rpcchain.Do around Pool.Call.  A pool counts the failures of each       *)
(* endpoint since its last success, leaves one that has failed three times *)
(* alone for 30 seconds, and begins with the one that answered last.       *)
(*                                                                         *)
(* The API server asks for the latest ledger from many requests at a time, *)
(* any of which may be cancelled; the worker and the backfill fetch events *)
(* page by page, one call at a time, and give the pages up when another    *)
(* endpoint has become the active one.  One endpoint, `healthy', answers   *)
(* whatever it is asked; the others may fail.                              *)
(***************************************************************************)
EXTENDS Integers, FiniteSets

CONSTANTS
  Pools,         \* [process : {"api", "ingest"}, last : Nat, healthy : Nat]: which process it is,
                 \* its endpoints (0 .. last, in the order of RPCURLs), and the one that does not fail
  Clients,       \* requests of the API server
  Ingester,      \* the one client of a worker or a backfill
  MaxAttempts,   \* RPC_MAX_ATTEMPTS
  MaxCancels     \* bound: requests that are cancelled

EndpointsAssumption ==
  /\ Pools \subseteq [process : {"api", "ingest"}, last : Nat, healthy : Nat]
  /\ \A p \in Pools : p.healthy <= p.last
  /\ MaxAttempts \in Nat \ {0} /\ MaxCancels \in Nat

VARIABLES
  pool,       \* the process and its endpoints
  failures,   \* endpointState.errors, of which only whether there are 3 matters
  downUntil,  \* whether it is in the future
  activeIndex,\* Pool.active; -1 before the first answer
  client,     \* where each call is
  cancels     \* how many requests have been cancelled

poolVars == <<pool, failures, downUntil, activeIndex, client, cancels>>

Endpoints == 0 .. pool.last

Idle == [pc |-> "idle", start |-> 0, tried |-> 0, attempt |-> 1, err |-> "none",
         from |-> -1, paging |-> FALSE, cancelled |-> FALSE, missed |-> FALSE]

Running == IF pool.process = "api" THEN Clients ELSE {Ingester}

Init ==
  /\ pool \in Pools
  /\ failures = [x \in Endpoints |-> 0] /\ downUntil = [x \in Endpoints |-> FALSE]
  /\ activeIndex = -1
  /\ client = [c \in Clients \cup {Ingester} |-> Idle]
  /\ cancels = 0

---------------------------------------------------------------------------

\* The endpoint that the loop of Call is at, after i of them.
At(c) == (client[c].start + client[c].tried) % (pool.last + 1)

\* Mutant: one failure is enough.
OneFailure(n) == n >= 1

IsDown(n) == n >= 3

Pick ==
  LET usable == {x \in Endpoints : ~downUntil[x]} IN
  CASE activeIndex \in usable -> activeIndex
    [] usable = {}            -> 0
    [] OTHER                  -> CHOOSE x \in usable : \A y \in usable : x <= y

Moved(c, f) == client' = [client EXCEPT ![c] = f]

\* LatestLedger, and the first page of FetchEvents: without a cursor.
Begin(c) ==
  /\ client[c].pc \in {"idle", "page", "failed", "reanchor"}
  /\ Moved(c, [Idle EXCEPT !.pc = "loop", !.start = Pick,
                            !.from = IF pool.process = "ingest" THEN activeIndex ELSE -1])
  /\ UNCHANGED <<pool, failures, downUntil, activeIndex, cancels>>

\* Another page, with the cursor of the endpoint that was active when FetchEvents began.
NextPage(c) ==
  /\ pool.process = "ingest" /\ client[c].pc = "page"
  /\ Moved(c, [Idle EXCEPT !.pc = "loop", !.start = Pick, !.from = client[c].from, !.paging = TRUE])
  /\ UNCHANGED <<pool, failures, downUntil, activeIndex, cancels>>

Untried(c) == client[c].pc = "loop" /\ client[c].tried <= pool.last

Skip(c) ==
  /\ Untried(c) /\ downUntil[At(c)]
  /\ Moved(c, [client[c] EXCEPT !.tried = @ + 1, !.err = "down",
                                !.missed = @ \/ At(c) = pool.healthy])
  /\ UNCHANGED <<pool, failures, downUntil, activeIndex, cancels>>

\* FetchEvents looks at the active endpoint before it asks, and a pool call takes its
\* refusal for a failure of the endpoint.
MustReanchor(c) ==
  client[c].paging /\ client[c].from >= 0 /\ activeIndex >= 0 /\ activeIndex # client[c].from

Ask(c) ==
  /\ Untried(c) /\ ~downUntil[At(c)]
  /\ Moved(c, [client[c] EXCEPT !.pc = IF MustReanchor(c) THEN "refused" ELSE "asked"])
  /\ UNCHANGED <<pool, failures, downUntil, activeIndex, cancels>>

Answer(c) ==
  /\ client[c].pc = "asked" /\ ~client[c].cancelled
  /\ failures' = [failures EXCEPT ![At(c)] = 0]
  /\ activeIndex' = At(c)
  /\ Moved(c, [Idle EXCEPT !.pc = "page", !.from = client[c].from])
  /\ UNCHANGED <<pool, downUntil, cancels>>

\* errors.Add(1); the mark is another step.
Fails(c, e) ==
  LET count == IF failures[At(c)] < 3 THEN failures[At(c)] + 1 ELSE 3 IN
  /\ failures' = [failures EXCEPT ![At(c)] = count]
  /\ Moved(c, IF IsDown(count) THEN [client[c] EXCEPT !.pc = "mark", !.err = e]
              ELSE [client[c] EXCEPT !.pc = "loop", !.tried = @ + 1, !.err = e])
  /\ UNCHANGED <<pool, downUntil, activeIndex>>

AnswerError(c, e) ==
  /\ client[c].pc = "asked" /\ At(c) # pool.healthy
  /\ Fails(c, e)
  /\ UNCHANGED cancels

Refuse(c) ==
  /\ client[c].pc = "refused"
  /\ Fails(c, "reanchor")
  /\ UNCHANGED cancels

\* With its context cancelled, a request fails wherever it is sent.
CutShort(c) ==
  /\ client[c].pc = "asked" /\ client[c].cancelled
  /\ Fails(c, "cancelled")
  /\ UNCHANGED cancels

MarkDown(c) ==
  /\ client[c].pc = "mark"
  /\ downUntil' = [downUntil EXCEPT ![At(c)] = TRUE]
  /\ Moved(c, [client[c] EXCEPT !.pc = "loop", !.tried = @ + 1])
  /\ UNCHANGED <<pool, failures, activeIndex, cancels>>

\* Do: another attempt after a transient error; what Call returns is the last error it saw.
Exhausted(c) == client[c].pc = "loop" /\ client[c].tried > pool.last

Retry(c) ==
  /\ Exhausted(c) /\ client[c].err = "transient" /\ client[c].attempt < MaxAttempts
  /\ ~client[c].cancelled
  /\ Moved(c, [client[c] EXCEPT !.start = Pick, !.tried = 0, !.attempt = @ + 1])
  /\ UNCHANGED <<pool, failures, downUntil, activeIndex, cancels>>

GiveUp(c) ==
  /\ Exhausted(c)
  /\ client[c].err # "transient" \/ client[c].attempt = MaxAttempts \/ client[c].cancelled
  /\ Moved(c, [Idle EXCEPT !.pc = IF client[c].err = "reanchor" THEN "reanchor" ELSE "failed",
                            !.cancelled = client[c].cancelled, !.missed = client[c].missed])
  /\ UNCHANGED <<pool, failures, downUntil, activeIndex, cancels>>

\* The client of the API goes away.
Cancel(c) ==
  /\ pool.process = "api" /\ cancels < MaxCancels
  /\ client[c].pc \notin {"idle", "page", "failed"} /\ ~client[c].cancelled
  /\ Moved(c, [client[c] EXCEPT !.cancelled = TRUE])
  /\ cancels' = cancels + 1
  /\ UNCHANGED <<pool, failures, downUntil, activeIndex>>

\* 30 seconds pass.
Recover(x) ==
  /\ downUntil[x]
  /\ downUntil' = [downUntil EXCEPT ![x] = FALSE]
  /\ UNCHANGED <<pool, failures, activeIndex, client, cancels>>

Next ==
  \/ \E c \in Running :
       \/ Begin(c) \/ NextPage(c) \/ Skip(c) \/ Ask(c)
       \/ Answer(c) \/ \E e \in {"transient", "permanent"} : AnswerError(c, e)
       \/ Refuse(c) \/ CutShort(c) \/ MarkDown(c) \/ Retry(c) \/ GiveUp(c) \/ Cancel(c)
  \/ \E x \in Endpoints : Recover(x)

Spec == Init /\ [][Next]_poolVars

---------------------------------------------------------------------------

\* A call is at an endpoint of the pool.
TypeOK ==
  /\ pool \in Pools
  /\ failures \in [Endpoints -> 0 .. 3] /\ downUntil \in [Endpoints -> BOOLEAN]
  /\ activeIndex \in Endpoints \cup {-1}
  /\ \A c \in Clients \cup {Ingester} :
       /\ client[c].start \in Endpoints /\ client[c].tried \in 0 .. pool.last + 1
       /\ client[c].attempt \in 1 .. MaxAttempts /\ client[c].from \in Endpoints \cup {-1}

\* One endpoint that answers is enough for a worker if it is among the first four.  The pages that
\* the worker gives up count as failures of endpoints that were not asked, one at each for every
\* move of the active one: never so many that the healthy one is left alone, and no call fails.
\* (If it is the fifth, three moves may come before it answers.)
WorkerIsServed ==
  pool.process = "ingest" /\ pool.healthy <= 3 =>
    ~downUntil[pool.healthy] /\ client[Ingester].pc # "failed"

\* One is enough for the API: it loses the healthy endpoint to cancelled requests only, three of
\* them, and a request that is not cancelled fails only if the healthy one was lost.
RequestsAreServed ==
  pool.process = "api" =>
    /\ downUntil[pool.healthy] => cancels >= 3
    /\ \A c \in Clients : client[c].pc = "failed" => client[c].cancelled \/ client[c].missed

\* However many endpoints of the pool fail, the one that answers keeps it useful, though calls
\* that were never answered count against it (WorkerIsServed, RequestsAreServed).
HealthyServes == WorkerIsServed /\ RequestsAreServed

===========================================================================
