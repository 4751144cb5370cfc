---------------------------- MODULE ExploreReads ----------------------------
(***************************************************************************)
(* What the explore API shows of the events table while it changes.        *)
(*                                                                         *)
(* The table is a ReplacingMergeTree(ingested_at), partitioned by the      *)
(* month of ingested_at, that is read without FINAL: an event that was     *)
(* written again is there several times until a merge drops an older copy, *)
(* and copies of different months are never merged.  The live worker (and  *)
(* a backfill) decodes a chunk of events and stamps all of it when it      *)
(* inserts it; a replay reads a batch, stamps all of it before it decodes  *)
(* it again, and inserts it.  Between decode and insert another version of *)
(* a schema may be chosen and the other may write the same events.         *)
(***************************************************************************)
EXTENDS Listings, FiniteSetsExt, SequencesExt

CONSTANTS
  Logs,         \* the contract events that are ingested, by id
  Emitter,      \* the contract of each
  LedgerOf,     \* the ledger of each
  MonthLength,  \* stamps of a month
  PageSizes,    \* page_size
  MaxBatch,     \* bound: the events of a chunk or of a batch
  MaxStamp,     \* bound: the stamps that are given out
  MaxErrors     \* bound: decodes that fail

ReadsAssumption ==
  /\ Logs \subseteq Nat /\ IsFiniteSet(Logs)
  /\ MaxBatch \in Nat /\ MaxStamp \in Nat /\ MaxErrors \in Nat
  /\ PageSizes \subseteq Nat \ {0}
  /\ \A e \in Logs : LedgerOf[e] \in Nat

VARIABLES
  table,   \* the rows of events
  batches, \* what the worker and a replay have decoded and not inserted
  stamp,   \* the clock; no two batches are stamped in the same millisecond
  errors   \* how many decodes have failed

tableVars == <<table, batches, stamp, errors>>

CopiesOf(e) == {c \in table : c.log = e}

Init ==
  /\ table = {} /\ errors = 0
  /\ batches = [worker |-> {}, replay |-> {}]
  /\ stamp = 0

---------------------------------------------------------------------------
\* The writers.

\* ApplyBatch.  Of each event name the newest version of the highest tier is chosen, and one that
\* is published or verified takes the place of another at any time: those chosen now match some
\* of the events, whatever was matched before.  The others become raw, which is no error; an
\* event whose decode fails stays as it was.
ApplyBatch(w, S, before, at) ==
  \E failed \in SUBSET S : \E decoded \in SUBSET (S \ failed) :
    /\ errors + Cardinality(failed) <= MaxErrors
    /\ errors' = errors + Cardinality(failed)
    /\ batches' = [batches EXCEPT ![w] =
         {[log |-> e, at |-> at, fields |-> e \in decoded,
           decoded |-> IF e \in failed THEN before[e] ELSE e \in decoded] : e \in S}]

\* The worker materializes events that it has fetched, perhaps again: they are raw at first.
WorkerDecodes(S) ==
  /\ batches.worker = {} /\ Cardinality(S) \in 1 .. MaxBatch
  /\ ApplyBatch("worker", S, [e \in S |-> FALSE], 0)
  /\ UNCHANGED <<table, stamp>>

\* A replay reads rows of a range, of an event any copy (of those it reads only one is kept, for
\* they get the same stamp).  rematerialize keeps the flag of a row, and nothing else of its decoding.
ReplayDecodes(rows) ==
  LET read == {c.log : c \in rows} IN
  /\ batches.replay = {} /\ stamp < MaxStamp
  /\ Cardinality(rows) \in 1 .. MaxBatch /\ Cardinality(read) = Cardinality(rows)
  /\ ApplyBatch("replay", read, [e \in read |-> \E c \in rows : c.log = e /\ c.decoded], stamp + 1)
  /\ stamp' = stamp + 1
  /\ UNCHANGED <<table>>

\* UpsertBatch: the events of a chunk without a time are stamped now, all with one stamp.
InsertWorker ==
  /\ batches.worker # {} /\ stamp < MaxStamp
  /\ table' = table \cup {[c EXCEPT !.at = stamp + 1] : c \in batches.worker}
  /\ stamp' = stamp + 1
  /\ batches' = [batches EXCEPT !.worker = {}]
  /\ UNCHANGED <<errors>>

InsertReplay ==
  /\ batches.replay # {}
  /\ table' = table \cup batches.replay
  /\ batches' = [batches EXCEPT !.replay = {}]
  /\ UNCHANGED <<stamp, errors>>

Month(c) == c.at \div MonthLength

\* Mutant: the engine has no version column, and keeps any of the copies.
Unversioned(c, d) == c.log = d.log /\ c # d /\ Month(c) = Month(d)

\* ReplacingMergeTree(ingested_at).
Replaces(c, d) == c.log = d.log /\ c.at > d.at /\ Month(c) = Month(d)

Merge(d) ==
  /\ \E c \in table : Replaces(c, d)
  /\ table' = table \ {d}
  /\ UNCHANGED <<batches, stamp, errors>>

Next ==
  \/ \E S \in SUBSET Logs : WorkerDecodes(S)
  \/ \E rows \in SUBSET table : ReplayDecodes(rows)
  \/ \E c \in table : Merge(c)
  \/ InsertWorker
  \/ InsertReplay

Spec == Init /\ [][Next]_tableVars

---------------------------------------------------------------------------
\* The queries.

\* GetEventByID: ORDER BY ingested_at DESC LIMIT 1; empty when it is not found.
GetEventByID(e) == {c \in CopiesOf(e) : \A d \in CopiesOf(e) : d.at <= c.at}

Matches(filter, c) ==
  CASE filter = "decoded" -> c.decoded
    [] filter = "raw"     -> ~c.decoded
    [] OTHER              -> TRUE

PageOf(seq, page, size) == SubSeq(seq, (page - 1) * size + 1, Min({page * size, Len(seq)}))

\* ORDER BY ingested_at DESC, ledger DESC, id DESC.
Newer(c, d) ==
  \/ c.at > d.at
  \/ c.at = d.at /\ LedgerOf[c.log] > LedgerOf[d.log]
  \/ c.at = d.at /\ LedgerOf[c.log] = LedgerOf[d.log] /\ c.log > d.log

Newest(rows) == InOrder(rows, Newer)

ListRecentEvents(limit) == PageOf(Newest(table), 1, limit)

\* The total counts the rows that the pages show: ListEvents of a network.
ListEvents(filter, page, size) ==
  LET matching == {c \in table : Matches(filter, c)} IN
  [total |-> Cardinality(matching),
   items |-> PageOf(Newest(matching), page, size)]

\* ListContractEvents of one contract, which must have an event.
ListContractEvents(contract, filter, page, size) ==
  LET matching == {c \in table : Emitter[c.log] = contract /\ Matches(filter, c)} IN
  [total |-> Cardinality(matching),
   items |-> PageOf(Newest(matching), page, size)]

EmittedBy(contract) == {c \in table : Emitter[c.log] = contract}

\* Mutant: one decoded row is enough.
AnyDecoded(contract) ==
  IF \E c \in EmittedBy(contract) : c.decoded THEN "decoded" ELSE "raw_only"

\* The status that GetContractByID shows.
ContractStatus(contract) ==
  CASE \A c \in EmittedBy(contract) : c.decoded -> "decoded"
    [] \E c \in EmittedBy(contract) : c.decoded -> "partial"
    [] OTHER                                    -> "raw_only"

\* An item of ListActiveContracts and ListContracts, which do not tell "decoded".
ContractItem(contract) ==
  [contract |-> contract, eventCount |-> Cardinality(EmittedBy(contract)),
   status   |-> IF \E c \in EmittedBy(contract) : c.decoded THEN "partial" ELSE "raw_only"]

LastSeen(contract) == Max({c.at : c \in EmittedBy(contract)})

\* ORDER BY last_seen DESC, event_count DESC.
Ahead(c, d) ==
  \/ LastSeen(c) > LastSeen(d)
  \/ LastSeen(c) = LastSeen(d) /\ Cardinality(EmittedBy(c)) > Cardinality(EmittedBy(d))

\* Nothing else decides between contracts: a query has those that tie in any order.
ContractLists(contracts) ==
  {[i \in DOMAIN sorted |-> ContractItem(sorted[i])] : sorted \in Orders(contracts, Ahead)}

\* The pages that these two queries may answer with.
ListActiveContracts(limit) ==
  {PageOf(list, 1, limit) : list \in ContractLists({Emitter[c.log] : c \in table})}

ListContracts(filter, page, size) ==
  LET seen == {Emitter[c.log] : c \in table}
      kept == {contract \in seen : CASE filter = "decoded"  -> ContractItem(contract).status = "partial"
                                     [] filter = "raw_only" -> ContractItem(contract).status = "raw_only"
                                     [] OTHER               -> TRUE} IN
  [total |-> Cardinality(kept), items |-> {PageOf(list, page, size) : list \in ContractLists(kept)}]

\* GetStats, with the ledger of ingest_state (0 when there is no row) and the latest ledger
\* of the RPC endpoint (0 when it does not answer).
GetStats(cursor, head) ==
  LET newest == Max({0} \cup {LedgerOf[c.log] : c \in table})
      last   == IF cursor > 0 THEN cursor ELSE newest IN
  [totalEvents |-> Cardinality(table), contractCount |-> Cardinality({Emitter[c.log] : c \in table}),
   lastIngested |-> last, lag |-> IF head > 0 /\ last <= head THEN {head - last} ELSE {}]

\* The three queries of the home page, in one state; StatsRefresh and RealtimeHub have them apart.
GetHome(cursor, head, limit) ==
  [stats |-> GetStats(cursor, head), recentEvents |-> ListRecentEvents(limit),
   activeContracts |-> ListActiveContracts(limit)]

---------------------------------------------------------------------------

Copy == [log : Logs, at : 0 .. MaxStamp, decoded : BOOLEAN, fields : BOOLEAN]

\* An event is in a batch once, and the copies that share a stamp are of different events.
TypeOK ==
  /\ table \subseteq Copy
  /\ stamp \in 0 .. MaxStamp /\ errors \in 0 .. MaxErrors
  /\ \A w \in {"worker", "replay"} :
       batches[w] \subseteq Copy /\ \A c \in batches[w], d \in batches[w] : c.log = d.log => c = d
  /\ \A c \in table, d \in table : c.log = d.log /\ c.at = d.at => c = d

Pages(total, size) == 1 .. (total + size - 1) \div size

\* The pages of a list show every row once, and its total is the number of them.
Covers(List(_, _), rows) ==
  \A size \in PageSizes :
    LET total == List(1, size).total
        shown == [p \in Pages(total, size) |-> List(p, size).items] IN
    /\ total = Cardinality(rows)
    /\ UNION {ToSet(shown[p]) : p \in DOMAIN shown} = rows
    /\ \A p, q \in DOMAIN shown : \A i \in DOMAIN shown[p], j \in DOMAIN shown[q] :
         shown[p][i] = shown[q][j] => p = q /\ i = j

\* Whatever order each of its queries has for contracts that tie, ListContracts counts the
\* contracts, shows only these and none twice on a page, and shows one that ties with no other
\* on one page.  (Contracts that tie may be on several pages, or on none.)
ShowsContracts(filter, contracts) ==
  \A size \in PageSizes :
    LET total == ListContracts(filter, 1, size).total
        pages == Pages(total, size) IN
    /\ total = Cardinality(contracts)
    /\ \A p \in pages : \A list \in ListContracts(filter, p, size).items :
         /\ ToSet(list) \subseteq {ContractItem(k) : k \in contracts}
         /\ \A i, j \in DOMAIN list : list[i] = list[j] => i = j
    /\ \A k \in contracts :
         (\A l \in contracts \ {k} : Ahead(k, l) \/ Ahead(l, k)) =>
           \E p \in pages : \A q \in pages : \A list \in ListContracts(filter, q, size).items :
             ContractItem(k) \in ToSet(list) <=> q = p

\* However many copies of an event are there, the pages of the API agree with each other: the
\* status of a contract with what its events show, lists with their filters and totals, an
\* event with the list it is in, and the numbers of the home page with the lists below them.
ExploreAgrees ==
  LET seen == {Emitter[c.log] : c \in table}
      Raw == {contract \in seen : ContractStatus(contract) = "raw_only"} IN
  /\ \A contract \in seen : \A c \in UNION {GetEventByID(e) : e \in {l \in Logs : Emitter[l] = contract}} :
       /\ ContractStatus(contract) = "decoded" => c.decoded
       /\ ContractStatus(contract) = "raw_only" => ~c.decoded
       /\ \E p \in 1 .. Cardinality(table) :
            c \in ToSet(ListContractEvents(contract, IF c.decoded THEN "decoded" ELSE "raw", p, 1).items)
  /\ \A filter \in {"decoded", "raw", ""} :
       /\ Covers(LAMBDA p, n : ListEvents(filter, p, n), {c \in table : Matches(filter, c)})
       /\ \A contract \in seen : Covers(LAMBDA p, n : ListContractEvents(contract, filter, p, n),
                                        {c \in EmittedBy(contract) : Matches(filter, c)})
  /\ ShowsContracts("", seen) /\ ShowsContracts("raw_only", Raw) /\ ShowsContracts("decoded", seen \ Raw)
  /\ \A size \in PageSizes :
       LET home == GetHome(0, MaxStamp, size) IN
       /\ home.stats.totalEvents = ListEvents("", 1, size).total
       /\ home.stats.contractCount = ListContracts("", 1, size).total
       /\ home.recentEvents = ListEvents("", 1, size).items
       /\ home.activeContracts = ListContracts("", 1, size).items
       /\ \A e \in Logs : CopiesOf(e) # {} => LedgerOf[e] <= home.stats.lastIngested

\* An event that is shown with its fields is shown with them until a newer copy is inserted that
\* has none: its decode failed, or no version chosen when it was decoded matched the event, which
\* a newer or newly verified version does without any failure.  No merge takes a decoding away,
\* and no replay that is inserted late, after the worker has decoded the event again.
DecodingStays ==
  [][\A e \in Logs :
      (\E c \in GetEventByID(e) : c.fields) =>
        \E c \in GetEventByID(e)' : c.fields \/ c \notin table]_tableVars

===========================================================================
