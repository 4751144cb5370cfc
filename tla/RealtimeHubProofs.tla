------------------------ MODULE RealtimeHubProofs ------------------------
(***************************************************************************)
(* Theorems about the hub, for every number of connections, networks,      *)
(* events and chunks, every limit of clients, every size of the send       *)
(* buffer and every number of events that a snapshot shows.                *)
(***************************************************************************)
EXTENDS RealtimeHub, FiniteSetTheorems, TLAPS

\* What the worker and Redis do with a chunk, short of its broadcast.
Publishing(i) ==
  (\E now \in Stamps : Persist(i, now)) \/ PublishIngest(i) \/ Lose(i)

---------------------------------------------------------------------------
\* Who may close a channel.

Places == {"new", "snapshot", "send", "read", "unregister", "cancel", "done"}

\* A channel is closed by whoever takes its client out of the map, and a connection that
\* has been registered once is never registered again: no client has a closed channel.
ClosedAreGone ==
  /\ pc \in [Conns -> Places]
  /\ clients \subseteq Conns /\ closed \subseteq Conns
  /\ clients \cap closed = {}
  /\ \A c \in clients \cup closed : pc[c] # "new"

\* A broadcast to clients whose channels are open does not panic.
LEMMA BroadcastToOpen ==
  ASSUME ClosedAreGone, NEW n, NEW m, Broadcast(n, m)
  PROVE  panic' = panic
<1>1. Listeners(n) \cap closed = {}
  BY DEF ClosedAreGone, Listeners
<1> QED
  BY <1>1 DEF Broadcast

\* A step of a handler other than Register and Unregister leaves the clients and their
\* channels, and does not make its connection new again.
LEMMA HandlerMoves ==
  ASSUME ClosedAreGone, NEW c \in Conns, NEW label \in Places, label # "new",
         Goto(c, label), UNCHANGED <<clients, closed>>
  PROVE  ClosedAreGone'
  BY DEF ClosedAreGone, Goto

LEMMA ServeHTTPKeepsClosedAreGone ==
  ASSUME ClosedAreGone, NEW c \in Conns, ServeHTTP(c)
  PROVE  ClosedAreGone'
<1> USE DEF hub, conn, Places
<1>1. ASSUME NEW n \in Networks, Register(c, n) PROVE ClosedAreGone'
  BY <1>1 DEF Register, Goto, ClosedAreGone
<1>2. CASE Reject(c)
  BY <1>2, HandlerMoves DEF Reject
<1>3. CASE GetHome(c)
  BY <1>3, HandlerMoves DEF GetHome
<1>4. CASE GetHomeFails(c)
  BY <1>4, HandlerMoves DEF GetHomeFails
<1>5. CASE SendSnapshot(c)
  <2>1. UNCHANGED <<clients, closed>>
    BY <1>5 DEF SendSnapshot
  <2>2. Goto(c, "unregister") \/ Goto(c, "read")
    BY <1>5 DEF SendSnapshot
  <2> QED
    BY <2>1, <2>2, HandlerMoves
<1>6. CASE ReadFails(c)
  BY <1>6, HandlerMoves DEF ReadFails
<1>7. CASE Unregister(c)
  BY <1>7 DEF Unregister, Goto, ClosedAreGone
<1>8. CASE Cancel(c)
  BY <1>8, HandlerMoves DEF Cancel
<1> QED
  BY <1>1, <1>2, <1>3, <1>4, <1>5, <1>6, <1>7, <1>8 DEF ServeHTTP

LEMMA NextClosedAreGone == ClosedAreGone /\ [Next]_vars => ClosedAreGone'
<1> SUFFICES ASSUME ClosedAreGone, [Next]_vars PROVE ClosedAreGone'
  OBVIOUS
<1>1. ASSUME NEW c \in Conns, ServeHTTP(c) PROVE ClosedAreGone'
  BY <1>1, ServeHTTPKeepsClosedAreGone
<1>2. CASE Shutdown
  BY <1>2 DEF Shutdown, conn, ClosedAreGone
<1>3. CASE UNCHANGED <<pc, clients, closed>>
  BY <1>3 DEF ClosedAreGone
<1>4. ASSUME NEW i \in Ingests, Publishing(i) \/ HandleIngest(i)
      PROVE  UNCHANGED <<pc, clients, closed>>
  BY <1>4 DEF Publishing, Persist, PublishIngest, Lose, HandleIngest, conn, hub
<1>5. ASSUME NEW n \in Networks, BroadcastDerived(n) PROVE UNCHANGED <<pc, clients, closed>>
  BY <1>5 DEF BroadcastDerived, conn
<1>6. ASSUME NEW c \in Conns,
             \/ SocketBreaks(c) \/ PumpWrites(c) \/ PumpStops(c)
             \/ Ping(c) \/ PingStops(c)
      PROVE  UNCHANGED <<pc, clients, closed>>
  BY <1>6 DEF SocketBreaks, PumpWrites, PumpStops, Ping, PingStops, conn, hub
<1>7. CASE UNCHANGED vars
  BY <1>3, <1>7 DEF vars, conn, hub
<1> QED
  BY <1>1, <1>2, <1>3, <1>4, <1>5, <1>6, <1>7 DEF Next, Publishing

LEMMA ClosedAreGoneInvariant == Spec => []ClosedAreGone
<1>1. Init => ClosedAreGone
  BY DEF Init, ClosedAreGone, Places
<1> QED
  BY <1>1, NextClosedAreGone, PTL DEF Spec

\* Broadcast never sends on a closed channel, whatever handlers, pumps, ping loops and the
\* shutdown do meanwhile.
THEOREM BroadcastIsSafe == Spec => []BroadcastNeverPanics
<1>1. Init => BroadcastNeverPanics
  BY DEF Init, BroadcastNeverPanics
<1>2. BroadcastNeverPanics /\ ClosedAreGone /\ [Next]_vars => BroadcastNeverPanics'
  <2> SUFFICES ASSUME BroadcastNeverPanics, ClosedAreGone, [Next]_vars
               PROVE  BroadcastNeverPanics'
    OBVIOUS
  <2>1. CASE UNCHANGED panic
    BY <2>1 DEF BroadcastNeverPanics
  <2>2. ASSUME NEW i \in Ingests, Publishing(i) \/ HandleIngest(i)
        PROVE  UNCHANGED panic
    BY <2>2, BroadcastToOpen DEF Publishing, Persist, PublishIngest, Lose, HandleIngest
  <2>3. ASSUME NEW n \in Networks, BroadcastDerived(n) PROVE UNCHANGED panic
    BY <2>3, BroadcastToOpen DEF BroadcastDerived
  <2>4. ASSUME NEW c \in Conns, ServeHTTP(c) PROVE UNCHANGED panic
    BY <2>4 DEF ServeHTTP, Register, Reject, GetHome, GetHomeFails, SendSnapshot,
                ReadFails, Unregister, Cancel
  <2>5. ASSUME NEW c \in Conns, SocketBreaks(c) \/ PumpWrites(c) \/ PumpStops(c) \/ PingStops(c)
        PROVE  UNCHANGED panic
    BY <2>5 DEF SocketBreaks, PumpWrites, PumpStops, PingStops
  <2>6. ASSUME NEW c \in Conns, Ping(c) PROVE BroadcastNeverPanics'
    BY <2>6 DEF Ping, BroadcastNeverPanics
  <2>7. Shutdown \/ UNCHANGED vars => UNCHANGED panic
    BY DEF Shutdown, vars
  <2> QED
    BY <2>1, <2>2, <2>3, <2>4, <2>5, <2>6, <2>7 DEF Next, Publishing
<1> QED
  BY <1>1, <1>2, ClosedAreGoneInvariant, PTL DEF Spec

---------------------------------------------------------------------------
\* The limit of clients.

\* The clients are finitely many, as the limit can only be compared with a number.
FewClients == IsFiniteSet(clients) /\ AtMostMaxClients

LEMMA NextFewClients == FewClients /\ [Next]_vars => FewClients'
<1> SUFFICES ASSUME FewClients, [Next]_vars PROVE FewClients'
  OBVIOUS
<1> USE DEF FewClients, AtMostMaxClients
<1>1. ASSUME NEW c \in Conns, NEW n \in Networks, Register(c, n) PROVE FewClients'
  <2>1. clients' = clients \cup {c} /\ Cardinality(clients) < MaxClients
    BY <1>1 DEF Register
  <2>2. /\ IsFiniteSet(clients \cup {c})
        /\ Cardinality(clients \cup {c}) \in {Cardinality(clients), Cardinality(clients) + 1}
    BY FS_AddElement
  <2>3. Cardinality(clients) \in Nat
    BY FS_CardinalityType
  <2> QED
    BY <2>1, <2>2, <2>3, HubAssumption
<1>2. CASE clients' \subseteq clients
  <2>1. IsFiniteSet(clients') /\ Cardinality(clients') <= Cardinality(clients)
    BY <1>2, FS_Subset
  <2>2. Cardinality(clients) \in Nat /\ Cardinality(clients') \in Nat
    BY <2>1, FS_CardinalityType
  <2> QED
    BY <2>1, <2>2, HubAssumption
<1>3. ASSUME NEW c \in Conns, ServeHTTP(c), \A n \in Networks : ~Register(c, n)
      PROVE  clients' \subseteq clients
  BY <1>3 DEF ServeHTTP, Reject, GetHome, GetHomeFails, SendSnapshot, ReadFails,
              Unregister, Cancel, hub
<1>4. ASSUME NEW i \in Ingests, Publishing(i) \/ HandleIngest(i)
      PROVE  clients' \subseteq clients
  BY <1>4 DEF Publishing, Persist, PublishIngest, Lose, HandleIngest, hub
<1>5. ASSUME NEW n \in Networks, BroadcastDerived(n) PROVE clients' \subseteq clients
  BY <1>5 DEF BroadcastDerived
<1>6. ASSUME NEW c \in Conns,
             \/ SocketBreaks(c) \/ PumpWrites(c) \/ PumpStops(c)
             \/ Ping(c) \/ PingStops(c)
      PROVE  clients' \subseteq clients
  BY <1>6 DEF SocketBreaks, PumpWrites, PumpStops, Ping, PingStops, hub
<1>7. Shutdown \/ UNCHANGED vars => clients' \subseteq clients
  BY DEF Shutdown, vars, hub
<1> QED
  BY <1>1, <1>2, <1>3, <1>4, <1>5, <1>6, <1>7 DEF Next, Publishing

\* However many handlers register at once, there are never more clients than the limit.
THEOREM ClientsAreLimited == Spec => []AtMostMaxClients
<1>1. Init => FewClients
  <2>1. IsFiniteSet({}) /\ Cardinality({}) = 0
    BY FS_EmptySet
  <2> QED
    BY <2>1, HubAssumption DEF Init, FewClients, AtMostMaxClients
<1>2. FewClients => AtMostMaxClients
  BY DEF FewClients
<1> QED
  BY <1>1, <1>2, NextFewClients, PTL DEF Spec

---------------------------------------------------------------------------
\* Type correctness.

\* Offering a message keeps queues within the buffer and counts what was dropped.
LEMMA OfferTypes ==
  ASSUME TypeOK, NEW targets, NEW m \in SUBSET Events, Offer(targets, m)
  PROVE  /\ queue' \in [Conns -> Seq(SUBSET Events)]
         /\ \A c \in Conns : Len(queue'[c]) <= SendBuffer
         /\ dropped' \in [Conns -> SUBSET Events]
<1>1. queue' \in [Conns -> Seq(SUBSET Events)]
  BY DEF TypeOK, Offer
<1>2. ASSUME NEW c \in Conns PROVE Len(queue'[c]) <= SendBuffer
  <2>1. queue[c] \in Seq(SUBSET Events) /\ Len(queue[c]) <= SendBuffer
    BY DEF TypeOK
  <2>2. CASE c \in targets /\ Len(queue[c]) < SendBuffer
    <3>1. queue'[c] = Append(queue[c], m)
      BY <2>2 DEF Offer
    <3>2. Len(queue'[c]) = Len(queue[c]) + 1
      BY <2>1, <3>1
    <3> QED
      BY <2>1, <2>2, <3>2, HubAssumption
  <2>3. CASE ~(c \in targets /\ Len(queue[c]) < SendBuffer)
    BY <2>1, <2>3 DEF Offer
  <2> QED
    BY <2>2, <2>3
<1>3. dropped' \in [Conns -> SUBSET Events]
  BY DEF TypeOK, Offer
<1> QED
  BY <1>1, <1>2, <1>3

LEMMA BroadcastTypes ==
  ASSUME TypeOK, NEW n, NEW m \in SUBSET Events, Broadcast(n, m)
  PROVE  /\ queue' \in [Conns -> Seq(SUBSET Events)]
         /\ \A c \in Conns : Len(queue'[c]) <= SendBuffer
         /\ dropped' \in [Conns -> SUBSET Events]
         /\ panic' \in {"none", "ping", "broadcast"}
  BY OfferTypes DEF Broadcast, TypeOK

LEMMA ElementOf ==
  ASSUME NEW S, NEW s \in Seq(S)
  PROVE  \A k \in 1 .. Len(s) : s[k] \in S
  OBVIOUS

\* Only events that have been persisted have been broadcast.
LEMMA StoredEvents ==
  ASSUME TypeOK
  PROVE  /\ handled \subseteq Events
         /\ \A e \in handled : \E k \in 1 .. Len(stored) : e \in stored[k].events
         /\ \A k \in 1 .. Len(stored) : stored[k].at \in Nat
<1>1. \A k \in 1 .. Len(stored) : stored[k] \in [events : Ingests, at : Stamps]
  BY ElementOf DEF TypeOK
<1>2. ASSUME NEW i \in Chunks PROVE i \subseteq Events
  <2>1. PICK k \in 1 .. Len(stored) : i = stored[k].events
    BY DEF Chunks
  <2> QED
    BY <1>1, <2>1, HubAssumption
<1>3. handled \subseteq UNION Chunks
  BY DEF TypeOK
<1>4. \A e \in handled : \E k \in 1 .. Len(stored) : e \in stored[k].events
  BY <1>3 DEF Chunks
<1> QED
  BY <1>1, <1>2, <1>3, <1>4, HubAssumption

\* A snapshot shows events of its network.
LEMMA RecentOfNetwork ==
  ASSUME NEW n, NEW V \in Views(n)
  PROVE  Recent(V) \subseteq Of(n, Events)
  BY DEF Views, Recent, Rows, Of

LEMMA ServeHTTPTypes ==
  ASSUME TypeOK, NEW c \in Conns, ServeHTTP(c)
  PROVE  TypeOK'
<1> USE DEF worker, conn, hub, history, Goto
<1>0. UNCHANGED stored => UNCHANGED Chunks
  BY DEF Chunks
<1> USE <1>0
<1>1. ASSUME NEW n \in Networks, Register(c, n) PROVE TypeOK'
  <2>1. Of(n, handled) \in SUBSET Events
    BY StoredEvents DEF Of
  <2> QED
    BY <1>1, <2>1 DEF Register, TypeOK, Goroutine
<1>2. CASE Reject(c)
  BY <1>2 DEF Reject, TypeOK
<1>3. CASE GetHome(c)
  <2>1. PICK V \in Views(network[c]) : snapshot' = [snapshot EXCEPT ![c] = Recent(V)]
    BY <1>3 DEF GetHome
  <2>2. Recent(V) \in SUBSET Events
    BY RecentOfNetwork DEF Of
  <2> QED
    BY <1>3, <2>1, <2>2 DEF GetHome, TypeOK
<1>4. CASE GetHomeFails(c)
  BY <1>4, HubAssumption DEF GetHomeFails, TypeOK
<1>5. CASE SendSnapshot(c)
  <2>1. snapshot[c] \in SUBSET Events
    BY DEF TypeOK
  <2>2. /\ queue' \in [Conns -> Seq(SUBSET Events)]
        /\ \A d \in Conns : Len(queue'[d]) <= SendBuffer
        /\ dropped' \in [Conns -> SUBSET Events]
    <3>1. CASE c \in closed
      BY <1>5, <3>1 DEF SendSnapshot, TypeOK
    <3>2. CASE c \notin closed
      BY <1>5, <2>1, <3>2, OfferTypes DEF SendSnapshot
    <3> QED
      BY <3>1, <3>2
  <2>3. ping' \in [Conns -> Goroutine]
    BY <1>5 DEF SendSnapshot, TypeOK, Goroutine
  <2> QED
    BY <1>5, <2>2, <2>3 DEF SendSnapshot, TypeOK
<1>6. CASE ReadFails(c)
  BY <1>6 DEF ReadFails, TypeOK
<1>7. CASE Unregister(c)
  BY <1>7 DEF Unregister, TypeOK
<1>8. CASE Cancel(c)
  BY <1>8 DEF Cancel, Forget, TypeOK
<1> QED
  BY <1>1, <1>2, <1>3, <1>4, <1>5, <1>6, <1>7, <1>8 DEF ServeHTTP

LEMMA PersistAdds ==
  ASSUME TypeOK, NEW i \in Ingests, NEW now \in Stamps, Persist(i, now)
  PROVE  /\ Chunks' = Chunks \cup {i}
         /\ Len(stored') = Len(stored) + 1
         /\ \A k \in 1 .. Len(stored) : stored'[k] = stored[k]
<1>1. stored \in Seq([events : Ingests, at : Stamps]) /\ stored' = Append(stored, [events |-> i, at |-> now])
  BY DEF Persist, TypeOK
<1>2. /\ Len(stored) \in Nat /\ Len(stored') = Len(stored) + 1
      /\ \A k \in 1 .. Len(stored) : stored'[k] = stored[k]
      /\ stored'[Len(stored) + 1].events = i
  BY <1>1
<1>3. 1 .. Len(stored') = (1 .. Len(stored)) \cup {Len(stored) + 1}
  BY <1>2
<1> QED
  BY <1>2, <1>3 DEF Chunks

LEMMA NextTypeOK == TypeOK /\ [Next]_vars => TypeOK'
<1> SUFFICES ASSUME TypeOK, [Next]_vars PROVE TypeOK'
  OBVIOUS
<1> USE DEF worker, conn, hub, history
<1>0. UNCHANGED stored => UNCHANGED Chunks
  BY DEF Chunks
<1> USE <1>0
<1>1. ASSUME NEW c \in Conns, ServeHTTP(c) PROVE TypeOK'
  BY <1>1, ServeHTTPTypes
<1>2. ASSUME NEW i \in Ingests, NEW now \in Stamps, Persist(i, now) PROVE TypeOK'
  <2>1. Chunks' = Chunks \cup {i}
    BY <1>2, PersistAdds
  <2>2. stored' \in Seq([events : Ingests, at : Stamps])
    BY <1>2 DEF Persist, TypeOK
  <2>3. UNION Chunks \subseteq UNION Chunks'
    BY <2>1
  <2> QED
    BY <1>2, <2>1, <2>2, <2>3 DEF Persist, TypeOK
<1>3. ASSUME NEW i \in Ingests, PublishIngest(i) PROVE TypeOK'
  BY <1>3 DEF PublishIngest, TypeOK
<1>4. ASSUME NEW i \in Ingests, Lose(i) PROVE TypeOK'
  BY <1>4, HubAssumption DEF Lose, TypeOK
<1>5. ASSUME NEW i \in Ingests, HandleIngest(i) PROVE TypeOK'
  <2>1. i \in SUBSET Events
    BY HubAssumption
  <2>2. PICK n \in Networks : Broadcast(n, i)
    BY <1>5 DEF HandleIngest
  <2>3. Chunks' = Chunks /\ handled' \subseteq UNION Chunks
    BY <1>5 DEF HandleIngest, TypeOK
  <2> QED
    BY <1>5, <2>1, <2>2, <2>3, BroadcastTypes DEF HandleIngest, TypeOK
<1>6. ASSUME NEW n \in Networks, BroadcastDerived(n) PROVE TypeOK'
  <2>1. {} \in SUBSET Events
    OBVIOUS
  <2> QED
    BY <1>6, <2>1, BroadcastTypes DEF BroadcastDerived, TypeOK
<1>7. ASSUME NEW c \in Conns, SocketBreaks(c) PROVE TypeOK'
  BY <1>7 DEF SocketBreaks, TypeOK
<1>8. ASSUME NEW c \in Conns, PumpWrites(c) PROVE TypeOK'
  <2>1. queue[c] \in Seq(SUBSET Events) /\ queue[c] # <<>> /\ Len(queue[c]) <= SendBuffer
    BY <1>8 DEF PumpWrites, TypeOK
  <2>2. /\ Tail(queue[c]) \in Seq(SUBSET Events)
        /\ Len(Tail(queue[c])) = Len(queue[c]) - 1
        /\ Head(queue[c]) \in SUBSET Events
        /\ Len(queue[c]) \in Nat
    BY <2>1
  <2>3. queue' = [queue EXCEPT ![c] = Tail(queue[c])]
    BY <1>8 DEF PumpWrites
  <2>4. queue' \in [Conns -> Seq(SUBSET Events)]
    BY <2>2, <2>3 DEF TypeOK
  <2>5. \A d \in Conns : Len(queue'[d]) <= SendBuffer
    <3> TAKE d \in Conns
    <3>1. CASE d = c
      <4>1. queue'[d] = Tail(queue[c])
        BY <2>3, <3>1 DEF TypeOK
      <4> QED
        BY <2>1, <2>2, <4>1, HubAssumption
    <3>2. CASE d # c
      BY <2>3, <3>2 DEF TypeOK
    <3> QED
      BY <3>1, <3>2
  <2>6. seen' \in [Conns -> SUBSET Events]
    <3>1. seen' = seen \/ seen' = [seen EXCEPT ![c] = seen[c] \cup Head(queue[c])]
      BY <1>8 DEF PumpWrites
    <3>2. seen \in [Conns -> SUBSET Events]
      BY DEF TypeOK
    <3> QED
      BY <2>2, <3>1, <3>2
  <2>7. pump' \in [Conns -> Goroutine]
    <3>1. pump' = pump \/ pump' = [pump EXCEPT ![c] = "stopped"]
      BY <1>8 DEF PumpWrites
    <3> QED
      BY <3>1 DEF TypeOK, Goroutine
  <2>8. UNCHANGED <<stored, unpublished, channel, handled, serving, pc, network, broken,
                    snapshot, clients, closed, cancelled, ping, before, dropped, failures,
                    panic>>
    BY <1>8 DEF PumpWrites, worker, conn
  <2> QED
    BY <2>4, <2>5, <2>6, <2>7, <2>8 DEF TypeOK
<1>9. ASSUME NEW c \in Conns, PumpStops(c) PROVE TypeOK'
  BY <1>9 DEF PumpStops, TypeOK, Goroutine
<1>10. ASSUME NEW c \in Conns, Ping(c) PROVE TypeOK'
  <2>1. {} \in SUBSET Events
    OBVIOUS
  <2>2. CASE c \in closed
    BY <1>10, <2>2 DEF Ping, TypeOK
  <2>3. CASE c \notin closed
    BY <1>10, <2>1, <2>3, OfferTypes DEF Ping, TypeOK
  <2> QED
    BY <2>2, <2>3
<1>11. ASSUME NEW c \in Conns, PingStops(c) PROVE TypeOK'
  BY <1>11 DEF PingStops, TypeOK, Goroutine
<1>12. CASE Shutdown
  BY <1>12 DEF Shutdown, TypeOK
<1>13. CASE UNCHANGED vars
  BY <1>13 DEF vars, TypeOK
<1> QED
  BY <1>1, <1>2, <1>3, <1>4, <1>5, <1>6, <1>7, <1>8, <1>9, <1>10, <1>11, <1>12, <1>13 DEF Next

\* Every variable stays in its set, and no channel ever holds more than its capacity.
THEOREM HubTypeCorrect == Spec => []TypeOK
<1>1. Init => TypeOK
  BY HubAssumption DEF Init, TypeOK, Goroutine
<1> QED
  BY <1>1, NextTypeOK, PTL DEF Spec

---------------------------------------------------------------------------
\* What a browser gets.

LEMMA QueuedAppend ==
  ASSUME TypeOK, NEW c \in Conns, NEW m \in SUBSET Events,
         queue'[c] = Append(queue[c], m)
  PROVE  Queued(c)' = Queued(c) \cup m
<1>1. queue[c] \in Seq(SUBSET Events)
  BY DEF TypeOK
<1>2. /\ Len(queue'[c]) = Len(queue[c]) + 1
      /\ Len(queue[c]) \in Nat
      /\ queue'[c][Len(queue[c]) + 1] = m
      /\ \A k \in 1 .. Len(queue[c]) : queue'[c][k] = queue[c][k]
  BY <1>1
<1>3. ASSUME NEW x, x \in Queued(c) \cup m PROVE x \in Queued(c)'
  <2>1. CASE x \in m
    <3>1. Len(queue[c]) + 1 \in 1 .. Len(queue'[c])
      BY <1>2
    <3> QED
      BY <1>2, <2>1, <3>1 DEF Queued
  <2>2. CASE x \in Queued(c)
    <3>1. PICK k \in 1 .. Len(queue[c]) : x \in queue[c][k]
      BY <2>2 DEF Queued
    <3>2. k \in 1 .. Len(queue'[c]) /\ x \in queue'[c][k]
      BY <1>2, <3>1
    <3> QED
      BY <3>2 DEF Queued
  <2> QED
    BY <1>3, <2>1, <2>2
<1>4. ASSUME NEW x, x \in Queued(c)' PROVE x \in Queued(c) \cup m
  <2>1. PICK k \in 1 .. Len(queue'[c]) : x \in queue'[c][k]
    BY <1>4 DEF Queued
  <2>2. k = Len(queue[c]) + 1 \/ k \in 1 .. Len(queue[c])
    BY <1>2
  <2> QED
    BY <1>2, <2>1, <2>2 DEF Queued
<1> QED
  BY <1>3, <1>4

LEMMA QueuedTail ==
  ASSUME TypeOK, NEW c \in Conns, queue[c] # <<>>, queue'[c] = Tail(queue[c])
  PROVE  Queued(c) = Queued(c)' \cup Head(queue[c])
<1>1. queue[c] \in Seq(SUBSET Events)
  BY DEF TypeOK
<1>2. /\ Len(queue[c]) \in Nat /\ Len(queue[c]) >= 1
      /\ Len(queue'[c]) = Len(queue[c]) - 1
      /\ Head(queue[c]) = queue[c][1]
      /\ \A k \in 1 .. Len(queue[c]) - 1 : queue'[c][k] = queue[c][k + 1]
  BY <1>1
<1>3. ASSUME NEW x, x \in Queued(c) PROVE x \in Queued(c)' \cup Head(queue[c])
  <2>1. PICK k \in 1 .. Len(queue[c]) : x \in queue[c][k]
    BY <1>3 DEF Queued
  <2>2. CASE k = 1
    BY <1>2, <2>1, <2>2
  <2>3. CASE k # 1
    <3>1. k - 1 \in 1 .. Len(queue'[c]) /\ queue'[c][k - 1] = queue[c][(k - 1) + 1]
      BY <1>2, <2>3
    <3>2. (k - 1) + 1 = k
      OBVIOUS
    <3>3. x \in queue'[c][k - 1]
      BY <2>1, <3>1, <3>2
    <3> QED
      BY <3>1, <3>3 DEF Queued
  <2> QED
    BY <2>2, <2>3
<1>4. ASSUME NEW x, x \in Queued(c)' \cup Head(queue[c]) PROVE x \in Queued(c)
  <2>1. CASE x \in Head(queue[c])
    <3>1. 1 \in 1 .. Len(queue[c]) /\ x \in queue[c][1]
      BY <1>2, <2>1
    <3> QED
      BY <3>1 DEF Queued
  <2>2. CASE x \in Queued(c)'
    <3>1. PICK k \in 1 .. Len(queue'[c]) : x \in queue'[c][k]
      BY <2>2 DEF Queued
    <3>2. k + 1 \in 1 .. Len(queue[c]) /\ x \in queue[c][k + 1]
      BY <1>2, <3>1
    <3> QED
      BY <3>2 DEF Queued
  <2> QED
    BY <1>4, <2>1, <2>2
<1> QED
  BY <1>3, <1>4

\* An offer loses nothing that was offered before, gives the message to every target or
\* counts it as dropped, and brings nothing else.
LEMMA OfferKeeps ==
  ASSUME TypeOK, NEW targets, NEW m \in SUBSET Events, Offer(targets, m),
         NEW c \in Conns
  PROVE  /\ Queued(c) \cup dropped[c] \subseteq Queued(c)' \cup dropped'[c]
         /\ c \in targets => m \subseteq Queued(c)' \cup dropped'[c]
         /\ Queued(c)' \subseteq Queued(c) \cup (IF c \in targets THEN m ELSE {})
<1>1. CASE c \in targets /\ Len(queue[c]) < SendBuffer
  <2>1. queue'[c] = Append(queue[c], m)
    BY <1>1 DEF Offer
  <2>2. Queued(c)' = Queued(c) \cup m
    BY <2>1, QueuedAppend
  <2>3. Len(queue[c]) \in Nat /\ SendBuffer \in Nat
    BY HubAssumption DEF TypeOK
  <2>4. dropped'[c] = dropped[c]
    BY <1>1, <2>3 DEF Offer
  <2> QED
    BY <1>1, <2>2, <2>4
<1>2. CASE ~(c \in targets /\ Len(queue[c]) < SendBuffer)
  <2>1. queue'[c] = queue[c]
    BY <1>2 DEF Offer
  <2>2. Queued(c)' = Queued(c)
    BY <2>1 DEF Queued
  <2>3. Len(queue[c]) \in Nat /\ SendBuffer \in Nat
    BY HubAssumption DEF TypeOK
  <2>4. dropped'[c] = IF c \in targets THEN dropped[c] \cup m ELSE dropped[c]
    BY <1>2, <2>3 DEF Offer
  <2> QED
    BY <2>2, <2>4
<1> QED
  BY <1>1, <1>2

\* What is kept for a connection: a snapshot that is still to be sent counts.
Pending(c) == IF pc[c] = "send" THEN snapshot[c] ELSE {}
Held(c) == Pending(c) \cup seen[c] \cup Queued(c) \cup dropped[c]

\* From its registration on, a live client holds what is broadcast to its network; of what
\* was broadcast before, the snapshot left out only what newer rows had pushed out.
Gapless ==
  \A c \in clients \ broken :
    pc[c] \in {"snapshot", "send", "read"} =>
      \A e \in Of(network[c], handled) :
        \/ e \in Held(c)
        \/ e \in before[c] /\ (pc[c] = "snapshot" \/ Buried(network[c], e))

---------------------------------------------------------------------------
\* What the snapshot leaves out.

LEMMA RowsAreFinite ==
  ASSUME NEW inserts \in Nat, NEW R, R \subseteq (1 .. inserts) \X Events
  PROVE  IsFiniteSet(R)
<1>1. IsFiniteSet(1 .. inserts) /\ IsFiniteSet(Events)
  BY FS_Interval, HubAssumption
<1>2. IsFiniteSet((1 .. inserts) \X Events)
  BY <1>1, FS_Product
<1> QED
  BY <1>2, FS_Subset

\* The more rows there are, the more are newer than a given one.
LEMMA MoreNewerRows ==
  ASSUME NEW V, NEW W, V \subseteq W, IsFiniteSet(W), NEW r
  PROVE  /\ Cardinality(NewerRows(V, r)) \in Nat /\ Cardinality(NewerRows(W, r)) \in Nat
         /\ Cardinality(NewerRows(V, r)) <= Cardinality(NewerRows(W, r))
<1>1. NewerRows(W, r) \subseteq W /\ NewerRows(V, r) \subseteq NewerRows(W, r)
  BY DEF NewerRows
<1>2. IsFiniteSet(NewerRows(W, r))
  BY <1>1, FS_Subset
<1>3. /\ IsFiniteSet(NewerRows(V, r))
      /\ Cardinality(NewerRows(V, r)) <= Cardinality(NewerRows(W, r))
  BY <1>1, <1>2, FS_Subset
<1> QED
  BY <1>2, <1>3, FS_CardinalityType

\* Whatever merges have left, the snapshot shows every event that is not buried.
LEMMA SnapshotShowsTheRest ==
  ASSUME TypeOK, NEW n, NEW V \in Views(n), NEW e \in Of(n, handled)
  PROVE  e \in Recent(V) \/ Buried(n, e)
<1>1. PICK k \in 1 .. Len(stored) : e \in stored[k].events
  BY StoredEvents DEF Of
<1>2. <<k, e>> \in Rows(n)
  BY <1>1, StoredEvents DEF Rows, Of
<1>3. PICK v \in V : v[2] = e
  BY <1>2 DEF Views
<1>4. V \subseteq Rows(n) /\ IsFiniteSet(Rows(n))
  <2>1. Rows(n) \subseteq (1 .. Len(stored)) \X Events /\ Len(stored) \in Nat
    BY DEF Rows, TypeOK
  <2> QED
    BY <2>1, RowsAreFinite DEF Views
<1>5. CASE Cardinality(NewerRows(V, v)) < RecentLimit
  BY <1>3, <1>5 DEF Recent
<1>6. CASE ~(Cardinality(NewerRows(V, v)) < RecentLimit)
  <2>1. Cardinality(NewerRows(Rows(n), v)) >= RecentLimit
    BY <1>4, <1>6, MoreNewerRows, HubAssumption
  <2> QED
    BY <1>3, <1>4, <2>1 DEF Buried
<1> QED
  BY <1>5, <1>6

\* What is buried stays buried.
LEMMA BuriedStays ==
  ASSUME TypeOK, TypeOK', NEW c, network'[c] = network[c], NEW e, Buried(network[c], e),
         Len(stored) <= Len(stored'), \A k \in 1 .. Len(stored) : stored'[k] = stored[k]
  PROVE  Buried(network[c], e)'
<1>1. Len(stored) \in Nat /\ Len(stored') \in Nat
  BY DEF TypeOK
<1>2. ASSUME NEW x \in Rows(network[c]) PROVE x \in Rows(network[c])' /\ At(x)' = At(x)
  BY <1>1, <1>2 DEF Rows, At
<1>3. PICK r \in Rows(network[c]) : r[2] = e /\ Cardinality(NewerRows(Rows(network[c]), r)) >= RecentLimit
  BY DEF Buried
<1>4. NewerRows(Rows(network[c]), r) \subseteq NewerRows(Rows(network[c]), r)'
  BY <1>2, <1>3 DEF NewerRows
<1>5. IsFiniteSet(NewerRows(Rows(network[c]), r)')
  <2>1. IsFiniteSet(Rows(network[c])')
    <3>1. Rows(network[c])' \subseteq (1 .. Len(stored')) \X Events
      BY DEF Rows
    <3> QED
      BY <1>1, <3>1, RowsAreFinite
  <2>2. NewerRows(Rows(network[c]), r)' \subseteq Rows(network[c])'
    BY DEF NewerRows
  <2> QED
    BY <2>1, <2>2, FS_Subset
<1>6. Cardinality(NewerRows(Rows(network[c]), r)) <= Cardinality(NewerRows(Rows(network[c]), r)')
  BY <1>4, <1>5, FS_Subset
<1>7. Cardinality(NewerRows(Rows(network[c]), r)) \in Nat /\ Cardinality(NewerRows(Rows(network[c]), r)') \in Nat
  BY <1>4, <1>5, FS_Subset, FS_CardinalityType
<1>8. r \in Rows(network[c])' /\ Cardinality(NewerRows(Rows(network[c]), r)') >= RecentLimit
  BY <1>2, <1>3, <1>6, <1>7, HubAssumption
<1> QED
  BY <1>3, <1>8 DEF Buried

LEMMA BroadcastKeeps ==
  ASSUME TypeOK, ClosedAreGone, NEW n, NEW m \in SUBSET Events, Broadcast(n, m),
         NEW c \in Conns
  PROVE  /\ Queued(c) \cup dropped[c] \subseteq Queued(c)' \cup dropped'[c]
         /\ c \in Listeners(n) => m \subseteq Queued(c)' \cup dropped'[c]
         /\ Queued(c)' \subseteq Queued(c) \cup (IF c \in Listeners(n) THEN m ELSE {})
<1>1. Listeners(n) \cap closed = {}
  BY DEF ClosedAreGone, Listeners
<1>2. Offer(Listeners(n), m)
  BY <1>1 DEF Broadcast
<1> QED
  BY <1>2, OfferKeeps

\* What is held for a connection changes only with its place, snapshot, queue and history.
LEMMA SameHeld ==
  ASSUME NEW c \in Conns, pc'[c] = pc[c], snapshot'[c] = snapshot[c], seen'[c] = seen[c],
         queue'[c] = queue[c], dropped'[c] = dropped[c]
  PROVE  Held(c)' = Held(c)
  BY DEF Held, Pending, Queued

\* The inserts are only added to.
Grows ==
  Len(stored) <= Len(stored') /\ \A k \in 1 .. Len(stored) : stored'[k] = stored[k]

LEMMA SameGrows ==
  ASSUME TypeOK, UNCHANGED stored
  PROVE  Grows
  BY DEF Grows, TypeOK

\* A step that moves no handler, brings no client and broadcasts no event, and takes
\* nothing of what is held for a live client, leaves no gap.
LEMMA KeepsGapless ==
  ASSUME TypeOK, TypeOK', Grows, Gapless, clients' \subseteq clients,
         broken \subseteq broken', UNCHANGED <<pc, network, handled, before>>,
         \A c \in clients' \ broken' : Held(c) \subseteq Held(c)'
  PROVE  Gapless'
<1> SUFFICES ASSUME NEW c \in clients' \ broken', pc'[c] \in {"snapshot", "send", "read"},
                    NEW e \in Of(network[c], handled)'
             PROVE  \/ e \in Held(c)'
                    \/ e \in before'[c] /\ (pc'[c] = "snapshot" \/ Buried(network[c], e)')
  BY DEF Gapless
<1>0. c \in clients \ broken /\ e \in Of(network[c], handled)
  BY DEF Of
<1>1. CASE e \in Held(c)
  BY <1>1
<1>2. CASE e \in before[c] /\ (pc[c] = "snapshot" \/ Buried(network[c], e))
  BY <1>2, BuriedStays DEF Grows
<1> QED
  BY <1>0, <1>1, <1>2 DEF Gapless

\* Every invariant the two results below rest on.
Base == TypeOK /\ ClosedAreGone

\* The steps of a handler change nothing of what the other connections hold, and nothing
\* that is stored.
LEMMA HandlersAreApart ==
  ASSUME Base, NEW c \in Conns, ServeHTTP(c), NEW d \in Conns, d # c
  PROVE  /\ pc'[d] = pc[d] /\ network'[d] = network[d] /\ before'[d] = before[d]
         /\ Held(d)' = Held(d)
         /\ d \in clients' \ broken' => d \in clients \ broken
<1> USE DEF Base, worker, conn, hub, history, Goto
<1>1. pc'[d] = pc[d] /\ network'[d] = network[d] /\ snapshot'[d] = snapshot[d]
  BY DEF ServeHTTP, Register, Reject, GetHome, GetHomeFails, SendSnapshot, ReadFails,
         Unregister, Cancel, Forget, TypeOK
<1>2. /\ seen'[d] = seen[d] /\ queue'[d] = queue[d] /\ dropped'[d] = dropped[d]
      /\ before'[d] = before[d]
  BY DEF ServeHTTP, Register, Reject, GetHome, GetHomeFails, SendSnapshot, ReadFails,
         Unregister, Cancel, Forget, Offer, TypeOK
<1>3. (d \in clients' => d \in clients) /\ broken \subseteq broken'
  BY DEF ServeHTTP, Register, Reject, GetHome, GetHomeFails, SendSnapshot, ReadFails,
         Unregister, Cancel
<1> QED
  BY <1>1, <1>2, <1>3, SameHeld

LEMMA ServeHTTPKeepsGapless ==
  ASSUME Base, TypeOK', Gapless, NEW c \in Conns, ServeHTTP(c)
  PROVE  Gapless'
<1> USE DEF Base, worker, conn, hub, history, Goto
<1>1. SUFFICES ASSUME NEW d \in clients' \ broken', pc'[d] \in {"snapshot", "send", "read"},
                      NEW e \in Of(network[d], handled)'
               PROVE  \/ e \in Held(d)'
                      \/ e \in before'[d] /\ (pc'[d] = "snapshot" \/ Buried(network[d], e)')
  BY DEF Gapless
<1>2. d \in Conns
  BY DEF TypeOK
<1>3. handled' = handled /\ broken \subseteq broken' /\ stored' = stored
  BY DEF ServeHTTP, Register, Reject, GetHome, GetHomeFails, SendSnapshot, ReadFails,
         Unregister, Cancel
<1>4. ASSUME network'[d] = network[d], Buried(network[d], e)
      PROVE  Buried(network[d], e)'
  BY <1>3, <1>4, SameGrows, BuriedStays DEF Grows
<1>5. CASE d # c
  <2>1. /\ pc'[d] = pc[d] /\ network'[d] = network[d] /\ before'[d] = before[d]
        /\ Held(d)' = Held(d) /\ d \in clients \ broken
    BY <1>2, <1>5, HandlersAreApart
  <2>2. e \in Of(network[d], handled)
    BY <1>3, <2>1 DEF Of
  <2> QED
    BY <1>1, <1>4, <2>1, <2>2 DEF Gapless
<1>6. ASSUME d = c, NEW n \in Networks, Register(c, n)
      PROVE  e \in before'[d] /\ pc'[d] = "snapshot"
  <2>1. before'[c] = Of(n, handled) /\ network'[c] = n /\ pc'[c] = "snapshot"
    BY <1>6 DEF Register, TypeOK
  <2> QED
    BY <1>3, <1>6, <2>1 DEF Of
<1>7. CASE d = c /\ GetHome(c)
  <2>1. /\ pc[c] = "snapshot" /\ pc'[c] = "send"
        /\ UNCHANGED <<network, clients, broken, seen, queue, dropped, before>>
    BY <1>7 DEF GetHome, TypeOK
  <2>2. PICK V \in Views(network[c]) : snapshot'[c] = Recent(V)
    BY <1>7 DEF GetHome, TypeOK
  <2>3. e \in Of(network[c], handled)
    BY <1>3, <1>7, <2>1 DEF Of
  <2>4. CASE e \in Held(c)
    BY <1>7, <2>1, <2>4 DEF Held, Pending, Queued
  <2>5. CASE e \in before[c] /\ e \in Recent(V)
    BY <1>7, <2>1, <2>2, <2>5 DEF Held, Pending
  <2>6. CASE e \in before[c] /\ Buried(network[c], e)
    BY <1>4, <1>7, <2>1, <2>6
  <2> QED
    BY <1>1, <1>7, <2>1, <2>3, <2>4, <2>5, <2>6, SnapshotShowsTheRest DEF Gapless
<1>8. CASE d = c /\ SendSnapshot(c)
  <2>1. c \notin closed
    BY <1>1, <1>8 DEF SendSnapshot, TypeOK
  <2>2. /\ Offer({c}, snapshot[c]) /\ seen' = seen /\ network' = network /\ before' = before
        /\ pc[c] = "send" /\ clients' = clients /\ broken' = broken
    BY <1>8, <2>1 DEF SendSnapshot
  <2>3. snapshot[c] \in SUBSET Events
    BY DEF TypeOK
  <2>4. /\ Queued(c) \cup dropped[c] \subseteq Queued(c)' \cup dropped'[c]
        /\ snapshot[c] \subseteq Queued(c)' \cup dropped'[c]
    BY <2>2, <2>3, OfferKeeps
  <2>5. Held(c) \subseteq Held(c)'
    BY <2>2, <2>4 DEF Held, Pending
  <2>6. e \in Of(network[c], handled)
    BY <1>3, <1>8, <2>2 DEF Of
  <2> QED
    BY <1>1, <1>4, <1>8, <2>2, <2>5, <2>6 DEF Gapless
<1>9. CASE /\ d = c /\ ~GetHome(c) /\ ~SendSnapshot(c) /\ \A n \in Networks : ~Register(c, n)
  <2>1. pc'[c] \notin {"snapshot", "send", "read"}
    BY <1>9 DEF ServeHTTP, Reject, GetHomeFails, ReadFails, Unregister, Cancel, TypeOK
  <2> QED
    BY <1>1, <1>9, <2>1
<1> QED
  BY <1>5, <1>6, <1>7, <1>8, <1>9

\* A chunk is broadcast to every client of its network, and it matters to no other.
LEMMA HandleIngestKeepsGapless ==
  ASSUME Base, TypeOK', Gapless, NEW i \in Ingests, HandleIngest(i)
  PROVE  Gapless'
<1> USE DEF Base, conn
<1>1. SUFFICES ASSUME NEW c \in clients \ broken, pc[c] \in {"snapshot", "send", "read"},
                      NEW e \in Of(network[c], handled)'
               PROVE  \/ e \in Held(c)'
                      \/ e \in before[c] /\ (pc[c] = "snapshot" \/ Buried(network[c], e)')
  BY DEF Gapless, HandleIngest
<1>2. /\ c \in Conns /\ i \in SUBSET Events
      /\ UNCHANGED <<pc, network, snapshot, seen, before, stored, clients, broken>>
  BY HubAssumption DEF TypeOK, HandleIngest
<1>3. PICK n \in Networks : i \subseteq Of(n, Events) /\ Broadcast(n, i)
  BY DEF HandleIngest
<1>4. /\ Queued(c) \cup dropped[c] \subseteq Queued(c)' \cup dropped'[c]
      /\ c \in Listeners(n) => i \subseteq Queued(c)' \cup dropped'[c]
  BY <1>2, <1>3, BroadcastKeeps
<1>5. Held(c) \subseteq Held(c)'
  BY <1>2, <1>4 DEF Held, Pending
<1>6. CASE e \in i
  <2>1. NetworkOf[e] = n /\ NetworkOf[e] = network[c]
    BY <1>2, <1>3, <1>6 DEF Of
  <2> QED
    BY <1>4, <1>6, <2>1 DEF Listeners, Held
<1>7. CASE e \in Of(network[c], handled)
  <2>1. Buried(network[c], e) => Buried(network[c], e)'
    BY <1>2, SameGrows, BuriedStays DEF Grows
  <2> QED
    BY <1>1, <1>5, <1>7, <2>1 DEF Gapless
<1> QED
  BY <1>2, <1>6, <1>7 DEF Of, HandleIngest

LEMMA PumpWritesKeepsGapless ==
  ASSUME Base, TypeOK', Gapless, NEW c \in Conns, PumpWrites(c)
  PROVE  Gapless'
<1> USE DEF Base, conn, worker
<1>1. ASSUME NEW d \in clients' \ broken' PROVE Held(d) \subseteq Held(d)'
  <2>1. d \in Conns
    BY DEF PumpWrites, TypeOK
  <2>2. CASE d = c
    <3>1. queue'[c] = Tail(queue[c]) /\ seen'[c] = seen[c] \cup Head(queue[c])
      BY <2>2 DEF PumpWrites, TypeOK
    <3>2. Queued(c) = Queued(c)' \cup Head(queue[c])
      BY <3>1, QueuedTail DEF PumpWrites
    <3> QED
      BY <2>2, <3>1, <3>2 DEF PumpWrites, Held, Pending
  <2>3. CASE d # c
    <3>1. queue'[d] = queue[d] /\ seen'[d] = seen[d]
      BY <2>1, <2>3 DEF PumpWrites, TypeOK
    <3> QED
      BY <2>1, <3>1, SameHeld DEF PumpWrites
  <2> QED
    BY <2>2, <2>3
<1> QED
  BY <1>1, SameGrows, KeepsGapless DEF PumpWrites

LEMMA NextGapless == Base /\ TypeOK' /\ Gapless /\ [Next]_vars => Gapless'
<1> SUFFICES ASSUME Base, TypeOK', Gapless, [Next]_vars PROVE Gapless'
  OBVIOUS
<1> USE DEF worker, conn, hub, history
<1>0. TypeOK
  BY DEF Base
<1>1. ASSUME NEW c \in Conns, ServeHTTP(c) PROVE Gapless'
  BY <1>1, ServeHTTPKeepsGapless
<1>2. ASSUME NEW i \in Ingests, HandleIngest(i) PROVE Gapless'
  BY <1>2, HandleIngestKeepsGapless
<1>3. ASSUME NEW c \in Conns, PumpWrites(c) PROVE Gapless'
  BY <1>3, PumpWritesKeepsGapless
<1>4. CASE /\ Grows /\ clients' \subseteq clients /\ broken \subseteq broken'
           /\ UNCHANGED <<pc, network, handled, snapshot, before, seen, queue, dropped>>
  <2>1. \A c \in clients' : Held(c)' = Held(c)
    BY <1>4, SameHeld DEF Base, TypeOK
  <2> QED
    BY <1>0, <1>4, <2>1, KeepsGapless
<1>5. ASSUME NEW i \in Ingests, Publishing(i) PROVE Gapless'
  <2>1. Grows
    <3>1. ASSUME NEW now \in Stamps, Persist(i, now) PROVE Grows
      BY <1>0, <3>1, PersistAdds DEF Grows, TypeOK
    <3> QED
      BY <1>0, <1>5, <3>1, SameGrows DEF Publishing, PublishIngest, Lose
  <2> QED
    BY <1>4, <1>5, <2>1 DEF Publishing, Persist, PublishIngest, Lose
<1>6. ASSUME NEW c \in Conns, SocketBreaks(c) \/ PumpStops(c) \/ PingStops(c) PROVE Gapless'
  BY <1>0, <1>4, <1>6, SameGrows DEF SocketBreaks, PumpStops, PingStops
<1>7. Shutdown \/ UNCHANGED vars => Gapless'
  BY <1>0, <1>4, SameGrows DEF Shutdown, vars
<1>8. CASE /\ UNCHANGED <<pc, network, stored, handled, snapshot, before, seen, clients, broken>>
           /\ \A c \in clients : Queued(c) \cup dropped[c] \subseteq Queued(c)' \cup dropped'[c]
  <2>1. \A c \in clients' : Held(c) \subseteq Held(c)'
    BY <1>8 DEF Held, Pending
  <2> QED
    BY <1>0, <1>8, <2>1, SameGrows, KeepsGapless
<1>9. {} \in SUBSET Events /\ clients \subseteq Conns
  BY <1>0 DEF TypeOK
<1>10. ASSUME NEW n \in Networks, BroadcastDerived(n) PROVE Gapless'
  <2>1. \A c \in clients : Queued(c) \cup dropped[c] \subseteq Queued(c)' \cup dropped'[c]
    BY <1>9, <1>10, BroadcastKeeps DEF BroadcastDerived, Base
  <2> QED
    BY <1>8, <1>10, <2>1 DEF BroadcastDerived
<1>11. ASSUME NEW c \in Conns, Ping(c) PROVE Gapless'
  <2>1. CASE c \in closed
    BY <1>0, <1>4, <1>11, <2>1, SameGrows DEF Ping
  <2>2. CASE c \notin closed
    <3>1. \A d \in clients : Queued(d) \cup dropped[d] \subseteq Queued(d)' \cup dropped'[d]
      BY <1>9, <1>11, <2>2, OfferKeeps DEF Ping, Base
    <3> QED
      BY <1>8, <1>11, <3>1 DEF Ping
  <2> QED
    BY <2>1, <2>2
<1> QED
  BY <1>1, <1>2, <1>3, <1>5, <1>6, <1>7, <1>10, <1>11 DEF Next, Publishing

\* The stream has no gap: of the events of its network that HandleIngest has broadcast, a
\* browser that reads lacks only those dropped because its channel was full and those
\* broadcast before it registered that newer rows had pushed out of its snapshot.
THEOREM StreamHasNoGap == Spec => []NoGap
<1>1. Init => Gapless
  BY DEF Init, Gapless
<1>2. Gapless => NoGap
  <2> SUFFICES ASSUME Gapless, NEW c \in clients \ broken, pc[c] = "read",
                      NEW e \in Of(network[c], handled)
               PROVE  \/ e \in seen[c] \cup Queued(c) \cup dropped[c]
                      \/ e \in before[c] /\ Buried(network[c], e)
    BY DEF NoGap
  <2> QED
    BY DEF Gapless, Held, Pending
<1>3. TypeOK /\ ClosedAreGone => Base
  BY DEF Base
<1> QED
  BY <1>1, <1>2, <1>3, NextGapless, HubTypeCorrect, ClosedAreGoneInvariant, PTL DEF Spec

---------------------------------------------------------------------------
\* Who gets an event.

\* A connection holds events of its network only, and has none before it asks for one.
ServedApart ==
  /\ \A c \in Conns : pc[c] = "new" => network[c] = NoNetwork
  /\ \A c \in Conns : snapshot[c] \cup seen[c] \cup Queued(c) \subseteq Of(network[c], Events)

\* A step that changes neither the places nor the networks, and brings a connection only
\* events of its network, keeps the connections apart.
LEMMA KeepsServedApart ==
  ASSUME ServedApart, UNCHANGED <<pc, network>>,
         \A c \in Conns : snapshot'[c] \cup seen'[c] \cup Queued(c)' \subseteq
           snapshot[c] \cup seen[c] \cup Queued(c) \cup Of(network[c], Events)
  PROVE  ServedApart'
  BY DEF ServedApart, Of

LEMMA ServeHTTPKeepsServedApart ==
  ASSUME Base, ServedApart, NEW c \in Conns, ServeHTTP(c)
  PROVE  ServedApart'
<1> USE DEF Base, hub, history, Goto
<1>1. SUFFICES ASSUME NEW d \in Conns
               PROVE  /\ pc'[d] = "new" => network'[d] = NoNetwork
                      /\ snapshot'[d] \cup seen'[d] \cup Queued(d)' \subseteq
                           Of(network[d], Events)'
  BY DEF ServedApart
<1>2. CASE d # c
  <2>1. pc'[d] = pc[d] /\ network'[d] = network[d] /\ snapshot'[d] = snapshot[d]
    BY <1>2 DEF ServeHTTP, Register, Reject, GetHome, GetHomeFails, SendSnapshot,
                ReadFails, Unregister, Cancel, Forget, TypeOK
  <2>2. seen'[d] = seen[d] /\ queue'[d] = queue[d]
    BY <1>2 DEF ServeHTTP, Register, Reject, GetHome, GetHomeFails, SendSnapshot,
                ReadFails, Unregister, Cancel, Forget, Offer, TypeOK
  <2> QED
    BY <2>1, <2>2 DEF ServedApart, Queued, Of
<1>3. ASSUME NEW n \in Networks, Register(c, n), d = c
      PROVE  /\ pc'[d] # "new"
             /\ snapshot'[d] \cup seen'[d] \cup Queued(d)' \subseteq Of(network[d], Events)'
  <2>1. Of(NoNetwork, Events) = {}
    <3>1. NetworkOf \in [Events -> Networks] /\ NoNetwork \notin Networks
      BY HubAssumption
    <3> QED
      BY <3>1 DEF Of
  <2>2. snapshot[c] \cup seen[c] \cup Queued(c) = {}
    BY <1>3, <2>1 DEF Register, ServedApart
  <2>3. snapshot'[c] \cup seen'[c] \cup Queued(c)' = {}
    BY <1>3, <2>2 DEF Register, Queued
  <2> QED
    BY <1>3, <2>3 DEF Register, TypeOK
<1>4. CASE d = c /\ GetHome(c)
  <2>1. UNCHANGED <<network, seen, queue>>
    BY <1>4 DEF GetHome
  <2>2. PICK V \in Views(network[c]) : snapshot'[c] = Recent(V)
    BY <1>4 DEF GetHome, TypeOK
  <2>3. pc'[c] # "new"
    BY <1>4 DEF GetHome, TypeOK
  <2> QED
    BY <1>4, <2>1, <2>2, <2>3, RecentOfNetwork DEF ServedApart, Queued, Of
<1>5. CASE d = c /\ SendSnapshot(c)
  <2>1. pc'[c] # "new" /\ snapshot'[c] = {} /\ UNCHANGED <<network, seen>>
    BY <1>5 DEF SendSnapshot, TypeOK
  <2>2. Queued(c)' \subseteq Queued(c) \cup snapshot[c]
    <3>1. CASE c \in closed
      BY <1>5, <3>1 DEF SendSnapshot, Queued
    <3>2. CASE c \notin closed
      <4>1. Offer({c}, snapshot[c]) /\ snapshot[c] \in SUBSET Events
        BY <1>5, <3>2 DEF SendSnapshot, TypeOK
      <4> QED
        BY <4>1, OfferKeeps
    <3> QED
      BY <3>1, <3>2
  <2> QED
    BY <1>5, <2>1, <2>2 DEF ServedApart, Of
<1>6. CASE d = c /\ (Reject(c) \/ GetHomeFails(c) \/ ReadFails(c) \/ Unregister(c) \/ Cancel(c))
  <2>1. pc'[c] # "new" /\ UNCHANGED <<network, queue>>
    BY <1>6 DEF Reject, GetHomeFails, ReadFails, Unregister, Cancel, TypeOK
  <2>2. snapshot'[c] \subseteq snapshot[c] /\ seen'[c] \subseteq seen[c]
    BY <1>6 DEF Reject, GetHomeFails, ReadFails, Unregister, Cancel, Forget, TypeOK
  <2> QED
    BY <1>6, <2>1, <2>2 DEF ServedApart, Queued, Of
<1> QED
  BY <1>2, <1>3, <1>4, <1>5, <1>6 DEF ServeHTTP

LEMMA NextServedApart == Base /\ ServedApart /\ [Next]_vars => ServedApart'
<1> SUFFICES ASSUME Base, ServedApart, [Next]_vars PROVE ServedApart'
  OBVIOUS
<1> USE DEF worker, conn, hub, history
<1>1. ASSUME NEW c \in Conns, ServeHTTP(c) PROVE ServedApart'
  BY <1>1, ServeHTTPKeepsServedApart
<1>2. CASE UNCHANGED <<pc, network, snapshot, seen, queue>>
  BY <1>2, KeepsServedApart DEF Queued
<1>3. ASSUME NEW i \in Ingests, Publishing(i) PROVE ServedApart'
  BY <1>2, <1>3 DEF Publishing, Persist, PublishIngest, Lose
<1>4. ASSUME NEW c \in Conns, SocketBreaks(c) \/ PumpStops(c) \/ PingStops(c) PROVE ServedApart'
  BY <1>2, <1>4 DEF SocketBreaks, PumpStops, PingStops
<1>5. Shutdown \/ UNCHANGED vars => ServedApart'
  BY <1>2 DEF Shutdown, vars
<1>6. ASSUME NEW i \in Ingests, HandleIngest(i) PROVE ServedApart'
  <2>1. PICK n \in Networks : i \subseteq Of(n, Events) /\ Broadcast(n, i)
    BY <1>6 DEF HandleIngest
  <2>2. \A c \in Conns : Queued(c)' \subseteq
          Queued(c) \cup (IF c \in Listeners(n) THEN i ELSE {})
    BY <2>1, HubAssumption, BroadcastKeeps DEF Base
  <2>3. \A c \in Conns : Queued(c)' \subseteq Queued(c) \cup Of(network[c], Events)
    BY <2>1, <2>2 DEF Listeners, Of
  <2> QED
    BY <1>6, <2>3, KeepsServedApart DEF HandleIngest
<1>7. CASE /\ UNCHANGED <<pc, network, snapshot, seen>>
           /\ \A c \in Conns : Queued(c)' \subseteq Queued(c)
  BY <1>7, KeepsServedApart
<1>8. {} \in SUBSET Events
  OBVIOUS
<1>9. ASSUME NEW n \in Networks, BroadcastDerived(n) PROVE ServedApart'
  <2>1. \A c \in Conns : Queued(c)' \subseteq Queued(c)
    BY <1>8, <1>9, BroadcastKeeps DEF BroadcastDerived, Base
  <2> QED
    BY <1>7, <1>9, <2>1 DEF BroadcastDerived
<1>10. ASSUME NEW c \in Conns, Ping(c) PROVE ServedApart'
  <2>1. CASE c \in closed
    BY <1>2, <1>10, <2>1 DEF Ping
  <2>2. CASE c \notin closed
    <3>1. \A d \in Conns : Queued(d)' \subseteq Queued(d)
      BY <1>8, <1>10, <2>2, OfferKeeps DEF Ping, Base
    <3> QED
      BY <1>7, <1>10, <3>1 DEF Ping
  <2> QED
    BY <2>1, <2>2
<1>11. ASSUME NEW c \in Conns, PumpWrites(c) PROVE ServedApart'
  <2>1. ASSUME NEW d \in Conns PROVE seen'[d] \cup Queued(d)' \subseteq seen[d] \cup Queued(d)
    <3>1. CASE d = c
      <4>1. queue'[c] = Tail(queue[c]) /\ seen'[c] \subseteq seen[c] \cup Head(queue[c])
        BY <1>11 DEF PumpWrites, Base, TypeOK
      <4>2. Queued(c) = Queued(c)' \cup Head(queue[c])
        BY <1>11, <4>1, QueuedTail DEF PumpWrites, Base
      <4> QED
        BY <3>1, <4>1, <4>2
    <3>2. CASE d # c
      BY <1>11, <3>2 DEF PumpWrites, Queued, Base, TypeOK
    <3> QED
      BY <3>1, <3>2
  <2>2. \A d \in Conns : snapshot'[d] \cup seen'[d] \cup Queued(d)' \subseteq
          snapshot[d] \cup seen[d] \cup Queued(d)
    BY <1>11, <2>1 DEF PumpWrites
  <2> QED
    BY <1>11, <2>2, KeepsServedApart DEF PumpWrites
<1> QED
  BY <1>1, <1>3, <1>4, <1>5, <1>6, <1>9, <1>10, <1>11 DEF Next, Publishing

\* A browser is never sent, and never has in its channel, an event of another network.
THEOREM NetworksAreApart == Spec => []OwnNetworkOnly
<1>1. Init => ServedApart
  BY DEF Init, ServedApart, Queued
<1>2. ServedApart => OwnNetworkOnly
  BY DEF ServedApart, OwnNetworkOnly
<1>3. TypeOK /\ ClosedAreGone => Base
  BY DEF Base
<1> QED
  BY <1>1, <1>2, <1>3, NextServedApart, HubTypeCorrect, ClosedAreGoneInvariant, PTL DEF Spec

===========================================================================
