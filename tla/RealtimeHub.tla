---------------------------- MODULE RealtimeHub ----------------------------
(***************************************************************************)
(* The realtime side of `atlas server`: the Redis subscriber hands the     *)
(* chunks the worker publishes to HomeWebSocketHandler.HandleIngest, which *)
(* broadcasts them through the Hub (StatsRefresh has the refresh of the    *)
(* statistics that follows); every browser has a handler goroutine         *)
(* (ServeHTTP), a writePump and a pingLoop that share its send channel.    *)
(*                                                                         *)
(* Register, Unregister, Broadcast and Close hold Hub.mu and are one step  *)
(* each; SendTo and writePump take no lock.  A Broadcast sends to several  *)
(* channels while writePumps drain them: its sends do not depend on each   *)
(* other, so one step stands for every order of them.                      *)
(***************************************************************************)
EXTENDS Integers, FiniteSets, Sequences

CONSTANTS
  Conns,         \* WebSocket connections; a browser that reconnects is another one
  Networks,
  NoNetwork,     \* of a connection that is not accepted yet
  Events,        \* numbers: a higher one has the higher (ledger, id)
  NetworkOf,     \* the network of each event
  Ingests,       \* the chunks, sets of events, that the worker may persist and publish
  RecentLimit,   \* how many events a snapshot shows: 8
  MaxClients,    \* REALTIME_MAX_CLIENTS
  SendBuffer,    \* capacity of Client.send
  Stamps,        \* bound: what the clock may say, in milliseconds
  MaxInserts,    \* bound: chunks persisted
  MaxFailures    \* bound: queries that fail and messages Redis loses

ASSUME HubAssumption ==
  /\ Events \subseteq Nat /\ IsFiniteSet(Events)
  /\ NetworkOf \in [Events -> Networks]
  /\ Ingests \subseteq SUBSET Events
  /\ \A i \in Ingests : i # {} /\ \E n \in Networks : \A e \in i : NetworkOf[e] = n
  /\ NoNetwork \notin Networks
  /\ MaxClients \in Nat \ {0}
  /\ SendBuffer \in Nat \ {0}
  /\ RecentLimit \in Nat \ {0}
  /\ Stamps \subseteq Nat /\ MaxInserts \in Nat
  /\ MaxFailures \in Nat

VARIABLES
  stored,      \* the inserts into the events table: each a chunk and its ingested_at
  unpublished, \* chunks persisted and not yet published
  channel,     \* chunks on the Redis channel that the subscriber has still to get
  handled,     \* events that HandleIngest has broadcast
  serving,     \* the server has not begun to shut down
  pc,          \* where each ServeHTTP is
  network,     \* the network each connection asked for
  broken,      \* connections whose socket has failed or was closed by the browser
  clients,     \* Hub.clients
  closed,      \* connections whose send channel is closed
  cancelled,   \* connections whose context is done
  queue,       \* Client.send
  snapshot,    \* what GetHome returned to each ServeHTTP
  pump,        \* each writePump: "off" before it starts, "on", "stopped"
  ping,        \* each pingLoop, the same way
  before,      \* history: events of its network broadcast before it registered
  seen,        \* history: events the browser has got, in the snapshot or as a message
  dropped,     \* history: events of messages that found the channel full
  failures,    \* how many queries and messages have been lost
  panic        \* which goroutine, if any, has sent on a closed channel

worker == <<stored, unpublished, channel>>
conn == <<pc, network, broken, snapshot>>
hub == <<clients, closed, cancelled, queue, pump, ping>>
history == <<before, seen, dropped>>
vars == <<worker, handled, serving, conn, hub, history, failures, panic>>

Of(n, S) == {e \in S : NetworkOf[e] = n}

Init ==
  /\ stored = <<>> /\ unpublished = {} /\ channel = {} /\ handled = {} /\ serving = TRUE
  /\ pc = [c \in Conns |-> "new"]
  /\ network = [c \in Conns |-> NoNetwork]
  /\ broken = {} /\ clients = {} /\ closed = {} /\ cancelled = {}
  /\ queue = [c \in Conns |-> <<>>]
  /\ snapshot = [c \in Conns |-> {}]
  /\ pump = [c \in Conns |-> "off"]
  /\ ping = [c \in Conns |-> "off"]
  /\ before = [c \in Conns |-> {}]
  /\ seen = [c \in Conns |-> {}]
  /\ dropped = [c \in Conns |-> {}]
  /\ failures = 0 /\ panic = "none"

Goto(c, label) == pc' = [pc EXCEPT ![c] = label]

---------------------------------------------------------------------------
\* The worker and Redis: a chunk is published after it is stored, and delivered at most
\* once (publishIngest logs an error and goes on; Redis keeps nothing for a subscriber).

\* UpsertBatch stamps the whole chunk with one now.  A rescan, or a cycle after one that
\* failed, inserts and publishes events once more.
Persist(i, now) ==
  /\ Len(stored) < MaxInserts
  /\ stored' = Append(stored, [events |-> i, at |-> now])
  /\ unpublished' = unpublished \cup {i}
  /\ UNCHANGED <<channel, handled, serving, conn, hub, history, failures, panic>>

\* Mutant: a chunk is published before it is persisted.
PublishUnchecked(i) ==
  /\ channel' = channel \cup {i}
  /\ unpublished' = unpublished \ {i}
  /\ UNCHANGED <<stored, handled, serving, conn, hub, history, failures, panic>>

PublishIngest(i) ==
  /\ i \in unpublished
  /\ channel' = channel \cup {i}
  /\ unpublished' = unpublished \ {i}
  /\ UNCHANGED <<stored, handled, serving, conn, hub, history, failures, panic>>

Lose(i) ==
  /\ i \in channel
  /\ failures < MaxFailures
  /\ failures' = failures + 1
  /\ channel' = channel \ {i}
  /\ UNCHANGED <<stored, unpublished, handled, serving, conn, hub, history, panic>>

---------------------------------------------------------------------------
\* Hub.Broadcast and HandleIngest.

\* A message is known by the events it carries: none, when it is a ping or the statistics.

\* Mutant: the channel has no capacity.
OfferUnbounded(targets, m) ==
  /\ queue' = [c \in Conns |-> IF c \in targets THEN Append(queue[c], m) ELSE queue[c]]
  /\ UNCHANGED dropped

\* The channels after a select with a default: the message is sent or, if full, dropped.
Offer(targets, m) ==
  /\ queue' = [c \in Conns |-> IF c \in targets /\ Len(queue[c]) < SendBuffer
                                 THEN Append(queue[c], m) ELSE queue[c]]
  /\ dropped' = [c \in Conns |-> IF c \in targets /\ Len(queue[c]) >= SendBuffer
                                   THEN dropped[c] \cup m ELSE dropped[c]]

Listeners(n) == {c \in clients : network[c] = n}

\* Mutant: the message goes to the clients of every network.
BroadcastToAll(n, m) ==
  IF clients \cap closed # {}
    THEN panic' = "broadcast" /\ UNCHANGED <<queue, dropped>>
    ELSE Offer(clients, m) /\ UNCHANGED panic

Broadcast(n, m) ==
  IF Listeners(n) \cap closed # {}
    THEN panic' = "broadcast" /\ UNCHANGED <<queue, dropped>>
    ELSE Offer(Listeners(n), m) /\ UNCHANGED panic

HandleIngest(i) ==
  /\ serving
  /\ i \in channel
  /\ channel' = channel \ {i}
  /\ handled' = handled \cup i
  /\ \E n \in Networks : i \subseteq Of(n, Events) /\ Broadcast(n, i)
  /\ UNCHANGED <<stored, unpublished, serving, conn, clients, closed, cancelled, pump,
                 ping, before, seen, failures>>

---------------------------------------------------------------------------
\* refreshDerived broadcasts the statistics and then the active contracts; when it does,
\* and what they count, is in StatsRefresh.

BroadcastDerived(n) ==
  /\ Of(n, handled) # {}
  /\ Broadcast(n, {})
  /\ UNCHANGED <<worker, handled, serving, conn, clients, closed, cancelled, pump, ping,
                 before, seen, failures>>

---------------------------------------------------------------------------
\* ServeHTTP.

\* Mutant: the limit is checked with one client too many.
RegisterOneMore(c, n) ==
  /\ pc[c] = "new"
  /\ Cardinality(clients) <= MaxClients
  /\ clients' = clients \cup {c}
  /\ pump' = [pump EXCEPT ![c] = "on"]
  /\ network' = [network EXCEPT ![c] = n]
  /\ before' = [before EXCEPT ![c] = Of(n, handled)]
  /\ Goto(c, "snapshot")
  /\ UNCHANGED <<worker, handled, serving, broken, snapshot, closed, cancelled,
                 queue, ping, seen, dropped, failures, panic>>

Register(c, n) ==
  /\ pc[c] = "new"
  /\ Cardinality(clients) < MaxClients
  /\ clients' = clients \cup {c}
  /\ pump' = [pump EXCEPT ![c] = "on"]
  /\ network' = [network EXCEPT ![c] = n]
  /\ before' = [before EXCEPT ![c] = Of(n, handled)]
  /\ Goto(c, "snapshot")
  /\ UNCHANGED <<worker, handled, serving, broken, snapshot, closed, cancelled,
                 queue, ping, seen, dropped, failures, panic>>

\* ErrTooManyClients: the connection is closed, and the deferred cancel runs.
Reject(c) ==
  /\ pc[c] = "new"
  /\ Cardinality(clients) >= MaxClients
  /\ Goto(c, "cancel")
  /\ UNCHANGED <<worker, handled, serving, network, broken, snapshot, hub, history,
                 failures, panic>>

\* The rows of a network, each known by its insert: ClickHouse keeps every copy of an
\* event until a merge in the background, which spares the copy with the latest stamp.
Rows(n) == {r \in (1 .. Len(stored)) \X Events :
              r[2] \in stored[r[1]].events /\ NetworkOf[r[2]] = n}

At(r) == stored[r[1]].at

Views(n) == {V \in SUBSET Rows(n) :
               \A r \in Rows(n) : \E v \in V : v[2] = r[2] /\ At(v) >= At(r)}

\* ORDER BY ingested_at DESC, ledger DESC, id DESC: the rows that come before r.
NewerRows(V, r) == {v \in V : At(v) > At(r) \/ (At(v) = At(r) /\ v[2] > r[2])}

Recent(V) == {r[2] : r \in {v \in V : Cardinality(NewerRows(V, v)) < RecentLimit}}

\* The query has no FINAL: the copies of an event that are left each take a place.
GetHome(c) ==
  /\ pc[c] = "snapshot"
  /\ \E V \in Views(network[c]) : snapshot' = [snapshot EXCEPT ![c] = Recent(V)]
  /\ Goto(c, "send")
  /\ UNCHANGED <<worker, handled, serving, network, broken, hub, history,
                 failures, panic>>

GetHomeFails(c) ==
  /\ pc[c] = "snapshot"
  /\ failures < MaxFailures
  /\ failures' = failures + 1
  /\ Goto(c, "unregister")
  /\ UNCHANGED <<worker, handled, serving, network, broken, snapshot, hub, history,
                 panic>>

\* Hub.Close may have closed the channel; net/http recovers the panic of a handler.
SendSnapshot(c) ==
  /\ pc[c] = "send"
  /\ IF c \in closed
       THEN Goto(c, "unregister") /\ UNCHANGED <<queue, dropped, ping>>
       ELSE /\ Offer({c}, snapshot[c])
            /\ ping' = [ping EXCEPT ![c] = "on"]
            /\ Goto(c, "read")
  /\ snapshot' = [snapshot EXCEPT ![c] = {}]
  /\ UNCHANGED <<worker, handled, serving, network, broken, clients, closed,
                 cancelled, pump, before, seen, failures, panic>>

SocketBreaks(c) ==
  /\ pc[c] # "new"
  /\ c \notin broken
  /\ broken' = broken \cup {c}
  /\ UNCHANGED <<worker, handled, serving, pc, network, snapshot, hub, history,
                 failures, panic>>

ReadFails(c) ==
  /\ pc[c] = "read"
  /\ c \in broken
  /\ Goto(c, "unregister")
  /\ UNCHANGED <<worker, handled, serving, network, broken, snapshot, hub, history,
                 failures, panic>>

\* Mutant: the client stays in the map when its channel is closed.
UnregisterKeepsClient(c) ==
  /\ pc[c] = "unregister"
  /\ closed' = IF c \in clients THEN closed \cup {c} ELSE closed
  /\ Goto(c, "cancel")
  /\ UNCHANGED <<worker, handled, serving, network, broken, snapshot, clients, cancelled,
                 queue, pump, ping, history, failures, panic>>

\* The deferred calls run in this order: Unregister first, then cancel.
Unregister(c) ==
  /\ pc[c] = "unregister"
  /\ clients' = clients \ {c}
  /\ closed' = IF c \in clients THEN closed \cup {c} ELSE closed
  /\ Goto(c, "cancel")
  /\ UNCHANGED <<worker, handled, serving, network, broken, snapshot, cancelled, queue,
                 pump, ping, history, failures, panic>>

\* What a browser got no longer matters once it is gone.
Forget(c) ==
  /\ snapshot' = [snapshot EXCEPT ![c] = {}]
  /\ before' = [before EXCEPT ![c] = {}]
  /\ seen' = [seen EXCEPT ![c] = {}]
  /\ dropped' = [dropped EXCEPT ![c] = {}]

\* Mutant: the context is left to the garbage collector.
ReturnWithoutCancel(c) ==
  /\ pc[c] = "cancel"
  /\ broken' = broken \cup {c}
  /\ Forget(c)
  /\ Goto(c, "done")
  /\ UNCHANGED <<worker, handled, serving, network, clients, closed, cancelled,
                 queue, pump, ping, failures, panic>>

\* cancel and conn.Close.
Cancel(c) ==
  /\ pc[c] = "cancel"
  /\ cancelled' = cancelled \cup {c}
  /\ broken' = broken \cup {c}
  /\ Forget(c)
  /\ Goto(c, "done")
  /\ UNCHANGED <<worker, handled, serving, network, clients, closed, queue,
                 pump, ping, failures, panic>>

---------------------------------------------------------------------------
\* writePump and pingLoop.

\* A message that is taken and cannot be written is gone, and so is the pump.
PumpWrites(c) ==
  /\ pump[c] = "on"
  /\ queue[c] # <<>>
  /\ queue' = [queue EXCEPT ![c] = Tail(queue[c])]
  /\ IF c \in broken
       THEN pump' = [pump EXCEPT ![c] = "stopped"] /\ UNCHANGED seen
       ELSE /\ seen' = [seen EXCEPT ![c] = seen[c] \cup Head(queue[c])]
            /\ UNCHANGED pump
  /\ UNCHANGED <<worker, handled, serving, conn, clients, closed, cancelled, ping,
                 before, dropped, failures, panic>>

PumpStops(c) ==
  /\ pump[c] = "on"
  /\ c \in cancelled \/ (c \in closed /\ queue[c] = <<>>)
  /\ pump' = [pump EXCEPT ![c] = "stopped"]
  /\ UNCHANGED <<worker, handled, serving, conn, clients, closed, cancelled, queue, ping,
                 history, failures, panic>>

\* The ticker fires; SendTo does not look whether the client is still registered.
Ping(c) ==
  /\ ping[c] = "on"
  /\ IF c \in closed
       THEN panic' = "ping" /\ UNCHANGED <<queue, dropped>>
       ELSE Offer({c}, {}) /\ UNCHANGED panic
  /\ UNCHANGED <<worker, handled, serving, conn, clients, closed, cancelled, pump, ping,
                 before, seen, failures>>

PingStops(c) ==
  /\ ping[c] = "on"
  /\ c \in cancelled
  /\ ping' = [ping EXCEPT ![c] = "stopped"]
  /\ UNCHANGED <<worker, handled, serving, conn, clients, closed, cancelled, queue, pump,
                 history, failures, panic>>

\* The deferred calls of the server: the subscriber ends and the hub is closed.  The
\* handlers of hijacked connections go on.
Shutdown ==
  /\ serving
  /\ serving' = FALSE
  /\ clients' = {}
  /\ closed' = closed \cup clients
  /\ UNCHANGED <<worker, handled, conn, cancelled, queue, pump, ping, history,
                 failures, panic>>

---------------------------------------------------------------------------

ServeHTTP(c) ==
  \/ \E n \in Networks : Register(c, n)
  \/ Reject(c)
  \/ GetHome(c)
  \/ GetHomeFails(c)
  \/ SendSnapshot(c)
  \/ ReadFails(c)
  \/ Unregister(c)
  \/ Cancel(c)

\* A panic outside a handler ends the process.
Next ==
  /\ panic = "none"
  /\ \/ \E i \in Ingests, now \in Stamps : Persist(i, now)
     \/ \E i \in Ingests : PublishIngest(i) \/ Lose(i) \/ HandleIngest(i)
     \/ \E n \in Networks : BroadcastDerived(n)
     \/ \E c \in Conns : ServeHTTP(c) \/ SocketBreaks(c)
     \/ \E c \in Conns : PumpWrites(c) \/ PumpStops(c) \/ Ping(c) \/ PingStops(c)
     \/ Shutdown

Spec == Init /\ [][Next]_vars

\* The goroutines of a live process run; a browser need not connect or leave, and the
\* worker need not publish.
Fairness ==
  \A c \in Conns :
    /\ WF_vars(panic = "none" /\ pc[c] # "new" /\ ServeHTTP(c))
    /\ WF_vars(panic = "none" /\ (PumpWrites(c) \/ PumpStops(c)))
    /\ WF_vars(panic = "none" /\ PingStops(c))

FairSpec == Spec /\ Fairness

---------------------------------------------------------------------------

\* What has been persisted so far.
Chunks == {stored[k].events : k \in 1 .. Len(stored)}

Goroutine == {"off", "on", "stopped"}

\* Every variable stays in its set, and no send channel holds more than its capacity:
\* Broadcast and SendTo never block on a browser that does not read.
TypeOK ==
  /\ stored \in Seq([events : Ingests, at : Stamps])
  /\ unpublished \in SUBSET Chunks /\ channel \in SUBSET Chunks
  /\ handled \in SUBSET UNION Chunks
  /\ serving \in BOOLEAN
  /\ pc \in [Conns -> {"new", "snapshot", "send", "read", "unregister", "cancel", "done"}]
  /\ network \in [Conns -> Networks \cup {NoNetwork}]
  /\ broken \in SUBSET Conns /\ clients \in SUBSET Conns
  /\ closed \in SUBSET Conns /\ cancelled \in SUBSET Conns
  /\ queue \in [Conns -> Seq(SUBSET Events)]
  /\ \A c \in Conns : Len(queue[c]) <= SendBuffer
  /\ snapshot \in [Conns -> SUBSET Events]
  /\ pump \in [Conns -> Goroutine] /\ ping \in [Conns -> Goroutine]
  /\ before \in [Conns -> SUBSET Events]
  /\ seen \in [Conns -> SUBSET Events] /\ dropped \in [Conns -> SUBSET Events]
  /\ failures \in Nat
  /\ panic \in {"none", "ping", "broadcast"}

\* The limit holds although handlers register concurrently: Register checks and inserts
\* under one lock.
AtMostMaxClients == Cardinality(clients) <= MaxClients

\* Broadcast never sends on a closed channel: whoever closes one, Unregister or Close,
\* has taken the client out of the map.  (pingLoop has no such protection.)
BroadcastNeverPanics == panic # "broadcast"

Queued(c) == UNION {queue[c][k] : k \in 1 .. Len(queue[c])}

\* Rows above it push an event out of the snapshot.
Buried(n, e) ==
  \E r \in Rows(n) : r[2] = e /\ Cardinality(NewerRows(Rows(n), r)) >= RecentLimit

\* No gap between the snapshot and the stream: of the events of its network that were
\* broadcast, a browser that reads lacks only those that found its channel full and those
\* broadcast before it registered that as many newer rows as a snapshot shows have pushed
\* out of it.  ServeHTTP registers before it reads the snapshot, and the worker publishes
\* after it has persisted: what is broadcast once the browser is registered it has got, or
\* has in its channel, however many events the snapshot leaves out.
NoGap ==
  \A c \in clients \ broken :
    pc[c] = "read" =>
      \A e \in Of(network[c], handled) :
        \/ e \in seen[c] \cup Queued(c) \cup dropped[c]
        \/ e \in before[c] /\ Buried(network[c], e)

\* A browser is told of its own network only.
OwnNetworkOnly ==
  \A c \in Conns : seen[c] \cup Queued(c) \subseteq Of(network[c], Events)

\* When a browser leaves, its client, its writePump and its pingLoop go too, or the
\* pingLoop has taken the process down.
NothingLeaks ==
  \A c \in Conns :
    pc[c] = "unregister" ~>
      panic # "none" \/ (c \notin clients /\ pump[c] # "on" /\ ping[c] # "on")

===========================================================================
