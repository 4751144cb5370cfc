--------------------------- MODULE StatsRefresh ---------------------------
(***************************************************************************)
(* The statistics of the home page: after each chunk of a network that     *)
(* HandleIngest broadcasts it re-arms the network's debounce timer; when   *)
(* the timer fires, refreshDerived runs in a goroutine of its own and      *)
(* queries and broadcasts the statistics, then the active contracts.  A    *)
(* timer that has fired cannot be stopped, so refreshes can overlap.       *)
(*                                                                         *)
(* The networks have a timer each and nothing in common: this is one.      *)
(***************************************************************************)
EXTENDS Integers

CONSTANTS
  Refreshes,    \* bound: refreshes that run at the same time
  MaxChunks,    \* bound: chunks the worker persists
  MaxFailures   \* bound: messages that are lost and queries that fail

ASSUME RefreshAssumption == MaxChunks \in Nat \ {0} /\ MaxFailures \in Nat

VARIABLES
  stored,      \* chunks the worker has persisted: what the queries count
  channel,     \* messages on the Redis channel
  handled,     \* the last chunk HandleIngest has broadcast, by number
  timer,       \* "none" before the first chunk, "armed", "fired"
  pc,          \* where each refreshDerived is
  result,      \* its local: what the last query returned
  stats,       \* the statistics the browsers were sent last
  contracts,   \* the active contracts they were sent last
  overtaken,   \* history: a broadcast was older than the one before
  failures

vars == <<stored, channel, handled, timer, pc, result, stats, contracts, overtaken, failures>>

Init ==
  /\ stored = 0 /\ channel = {} /\ handled = 0
  /\ timer = "none"
  /\ pc = [r \in Refreshes |-> "idle"]
  /\ result = [r \in Refreshes |-> 0]
  /\ stats = 0 /\ contracts = 0 /\ overtaken = FALSE
  /\ failures = 0

Goto(r, label) == pc' = [pc EXCEPT ![r] = label]

---------------------------------------------------------------------------
\* The worker, Redis and the subscriber.

Persist ==
  /\ stored < MaxChunks
  /\ stored' = stored + 1
  /\ channel' = channel \cup {stored + 1}
  /\ UNCHANGED <<handled, timer, pc, result, stats, contracts, overtaken, failures>>

Lose(k) ==
  /\ k \in channel
  /\ failures < MaxFailures
  /\ failures' = failures + 1
  /\ channel' = channel \ {k}
  /\ UNCHANGED <<stored, handled, timer, pc, result, stats, contracts, overtaken>>

\* Mutant: a timer that exists is left as it is.
ScheduleOnce == timer' = IF timer = "none" THEN "armed" ELSE timer

\* scheduleStatsRefresh: the old timer is stopped, and a new one is set.
Schedule == timer' = "armed"

\* Messages of a channel come in order.
HandleIngest ==
  /\ \E k \in channel :
       /\ \A j \in channel : k <= j
       /\ channel' = channel \ {k}
       /\ handled' = k
  /\ Schedule
  /\ UNCHANGED <<stored, pc, result, stats, contracts, overtaken, failures>>

---------------------------------------------------------------------------
\* refreshDerived.

Fire(r) ==
  /\ timer = "armed"
  /\ pc[r] = "idle"
  /\ timer' = "fired"
  /\ Goto(r, "stats")
  /\ UNCHANGED <<stored, channel, handled, result, stats, contracts, overtaken, failures>>

GetStats(r) ==
  /\ pc[r] = "stats"
  /\ result' = [result EXCEPT ![r] = stored]
  /\ Goto(r, "broadcastStats")
  /\ UNCHANGED <<stored, channel, handled, timer, stats, contracts, overtaken, failures>>

BroadcastStats(r) ==
  /\ pc[r] = "broadcastStats"
  /\ stats' = result[r]
  /\ overtaken' = (overtaken \/ result[r] < stats)
  /\ Goto(r, "contracts")
  /\ UNCHANGED <<stored, channel, handled, timer, result, contracts, failures>>

ListActiveContracts(r) ==
  /\ pc[r] = "contracts"
  /\ result' = [result EXCEPT ![r] = stored]
  /\ Goto(r, "broadcastContracts")
  /\ UNCHANGED <<stored, channel, handled, timer, stats, contracts, overtaken, failures>>

BroadcastContracts(r) ==
  /\ pc[r] = "broadcastContracts"
  /\ contracts' = result[r]
  /\ overtaken' = (overtaken \/ result[r] < contracts)
  /\ Goto(r, "idle")
  /\ result' = [result EXCEPT ![r] = 0]
  /\ UNCHANGED <<stored, channel, handled, timer, stats, failures>>

\* A query fails: the refresh is given up with a warning, and not tried again.
RefreshFails(r) ==
  /\ pc[r] \in {"stats", "contracts"}
  /\ failures < MaxFailures
  /\ failures' = failures + 1
  /\ Goto(r, "idle")
  /\ result' = [result EXCEPT ![r] = 0]
  /\ UNCHANGED <<stored, channel, handled, timer, stats, contracts, overtaken>>

---------------------------------------------------------------------------

RefreshDerived(r) ==
  \/ GetStats(r)
  \/ BroadcastStats(r)
  \/ ListActiveContracts(r)
  \/ BroadcastContracts(r)

Next ==
  \/ Persist
  \/ \E k \in channel : Lose(k)
  \/ HandleIngest
  \/ \E r \in Refreshes : Fire(r) \/ RefreshDerived(r) \/ RefreshFails(r)

Spec == Init /\ [][Next]_vars

\* The subscriber gets what is on the channel, the timer fires and goroutines run.
Fairness ==
  /\ WF_vars(HandleIngest)
  /\ WF_vars(\E r \in Refreshes : Fire(r))
  /\ \A r \in Refreshes : WF_vars(RefreshDerived(r))

FairSpec == Spec /\ Fairness

---------------------------------------------------------------------------

\* Every variable stays in its set; nothing is published or shown that is not stored.
TypeOK ==
  /\ stored \in 0 .. MaxChunks
  /\ channel \in SUBSET (1 .. stored)
  /\ handled \in 0 .. stored
  /\ timer \in {"none", "armed", "fired"}
  /\ pc \in [Refreshes -> {"idle", "stats", "broadcastStats", "contracts",
                           "broadcastContracts"}]
  /\ result \in [Refreshes -> 0 .. stored]
  /\ stats \in 0 .. stored /\ contracts \in 0 .. stored
  /\ overtaken \in BOOLEAN
  /\ failures \in 0 .. MaxFailures

\* No refresh is lost between a timer that is stopped and one that fires: a chunk that was
\* handled and is not in the statistics of the browsers will be, since a timer is armed
\* or a refresh has still to query or to broadcast a count that has it; unless a query has
\* failed, or an older broadcast came after a newer one.  Every variable stays in its set:
\* no count is shown that was not stored.
RefreshIsDue ==
  /\ TypeOK
  /\ \/ failures > 0 \/ overtaken
     \/ stats >= handled
     \/ timer = "armed"
     \/ \E r \in Refreshes :
          pc[r] = "stats" \/ (pc[r] = "broadcastStats" /\ result[r] >= handled)

\* When the chain is quiet the browsers come to see all of it and keep seeing it, unless a
\* message or a query was lost or the last broadcast was overtaken by an older one.
StatisticsSettle ==
  \/ <>(failures > 0 \/ overtaken)
  \/ <>[](stats = stored /\ contracts = stored)

===========================================================================
