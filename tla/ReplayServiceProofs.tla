------------------------ MODULE ReplayServiceProofs ------------------------
(***************************************************************************)
(* What a replay that completes has rewritten, and that it rewrites        *)
(* nothing else, for any number of ledgers, events, rows of a listing and  *)
(* copies of an event.                                                     *)
(*                                                                         *)
(* The listing of a window is counted in rows, and a row is a copy of an   *)
(* event: the lemmas on RowsOf say what of its window a listing has, and   *)
(* the invariant, where in the range the events are that a replay has      *)
(* still to rewrite.                                                       *)
(***************************************************************************)
EXTENDS ReplayService, FiniteSetTheorems, WellFoundedInduction, TLAPS

\* Run is in its loop; it holds what it has listed.
Working == pc \in {"list", "events", "addresses", "tokens"}
Holding == pc \in {"events", "addresses", "tokens"}

\* What the replay has still to rewrite.
Pending == wanted \ derived

\* Of what is pending nothing is behind the cursor.
Progress ==
  Working =>
    /\ from <= cursor
    /\ \A x \in wanted : copies[x] > 0 /\ InRange(x)
    /\ ~truncated => \A x \in Pending : cursor <= x.ledger

\* What is pending and was not listed is not before what was, and out of the window unless
\* the listing was full.
Listing ==
  Holding =>
    /\ chunk # {}
    /\ \A x \in chunk : InRange(x) /\ cursor <= x.ledger /\ x.ledger <= Upper
    /\ to > 0 => cursor <= to
    /\ ~truncated =>
         \A x \in Pending \ chunk :
           (\A y \in chunk : y.ledger <= x.ledger) /\ (x.ledger <= Upper => full)

Inv ==
  /\ OnlyTheRange
  /\ Progress /\ Listing
  /\ pc \in {"addresses", "tokens"} => chunk \subseteq replayed
  /\ CompletedCoversRange

---------------------------------------------------------------------------
\* Numbers and finite sets.

\* A set of natural numbers that is not empty has a least one.
LEMMA Least ==
  ASSUME NEW T, T \subseteq Nat, T # {}
  PROVE  \E m \in T : \A n \in T : m <= n
<1> DEFINE Below(n) == 0 .. n
           U == {Below(n) : n \in T}
           R == StrictSubsetOrdering(Nat)
<1>1. IsWellFoundedOn(R, FiniteSubsetsOf(Nat))
  BY FS_StrictSubsetOrderingWellFounded, Zenon
<1>2. U \subseteq FiniteSubsetsOf(Nat)
  <2> SUFFICES ASSUME NEW n \in T PROVE Below(n) \in FiniteSubsetsOf(Nat)
    OBVIOUS
  <2>1. n \in Nat
    OBVIOUS
  <2>2. IsFiniteSet(0 .. n) /\ 0 .. n \subseteq Nat
    BY <2>1, FS_Interval
  <2> QED
    BY <2>2 DEF FiniteSubsetsOf
<1>3. U # {}
  OBVIOUS
<1> HIDE DEF U, R
<1>4. PICK u \in U : \A v \in U : <<v, u>> \notin R
  BY <1>1, <1>2, <1>3, WFMin, Zenon
<1>5. PICK m \in T : u = Below(m)
  BY DEF U
<1>6. ASSUME NEW n \in T PROVE m <= n
  <2>1. n \in Nat /\ m \in Nat /\ Below(n) \in U
    BY DEF U
  <2>2. ~(Below(n) \subseteq Below(m) /\ Below(n) # Below(m))
    <3>1. <<Below(n), Below(m)>> \notin R
      BY <1>4, <1>5, <2>1
    <3>2. Below(n) \in SUBSET Nat /\ Below(m) \in SUBSET Nat
      BY <2>1
    <3> HIDE DEF Below
    <3> QED
      BY <3>1, <3>2 DEF R, StrictSubsetOrdering
  <2>3. n < m => m \in Below(m) /\ m \notin Below(n) /\ Below(n) \subseteq Below(m)
    BY <2>1
  <2> QED
    BY <2>1, <2>2, <2>3
<1> QED
  BY <1>6

\* One that is bounded has a largest.
LEMMA Largest ==
  ASSUME NEW N \in Nat, NEW T, T \subseteq 0 .. N, T # {}
  PROVE  Max(T) \in T /\ \A n \in T : n <= Max(T)
<1> DEFINE U == {N - n : n \in T}
<1>1. U \subseteq Nat /\ U # {}
  <2>1. \A n \in T : N - n \in Nat
    OBVIOUS
  <2> QED
    BY <2>1
<1> HIDE DEF U
<1>2. PICK u \in U : \A v \in U : u <= v
  BY <1>1, Least
<1>3. PICK m \in T : u = N - m
  BY DEF U
<1>4. \A n \in T : m >= n
  <2> TAKE n \in T
  <2>1. N - n \in U
    BY DEF U
  <2>2. N - m <= N - n
    BY <1>2, <1>3, <2>1
  <2>3. n \in Int /\ m \in Int
    OBVIOUS
  <2> QED
    BY <2>2, <2>3
<1>5. \E x \in T : \A y \in T : x >= y
  BY <1>4
<1>6. Max(T) \in T /\ \A y \in T : Max(T) >= y
  BY <1>5 DEF Max
<1>7. \A y \in T : y \in Int
  OBVIOUS
<1> QED
  BY <1>6, <1>7

\* An event has a ledger and a place in it.
LEMMA EventTypes ==
  ASSUME NEW x \in Event
  PROVE  x.ledger \in 1 .. MaxLedger /\ x.ledger \in Nat /\ x.slot \in Nat
<1>1. PICK l \in 1 .. MaxLedger : x \in [ledger : {l}, slot : 1 .. EventsOf[l]]
  BY DEF Event
<1>2. EventsOf[l] \in Nat /\ l \in Nat
  BY ReplayAssumption
<1> QED
  BY <1>1, <1>2

LEMMA EventsAreFinite == IsFiniteSet(Event)
<1> DEFINE Slots(l) == [ledger : {l}, slot : 1 .. EventsOf[l]]
           Parts == {Slots(l) : l \in 1 .. MaxLedger}
<1>1. ASSUME NEW l \in 1 .. MaxLedger PROVE IsFiniteSet(Slots(l))
  <2> DEFINE f == [i \in 1 .. EventsOf[l] |-> [ledger |-> l, slot |-> i]]
  <2>1. IsFiniteSet(1 .. EventsOf[l])
    BY FS_Interval, ReplayAssumption
  <2>2. f \in Surjection(1 .. EventsOf[l], Slots(l))
    BY DEF Surjection
  <2> QED
    BY <2>1, <2>2, FS_Surjection
<1>2. IsFiniteSet(Parts)
  <2> DEFINE f == [l \in 1 .. MaxLedger |-> Slots(l)]
  <2>1. IsFiniteSet(1 .. MaxLedger)
    BY FS_Interval, ReplayAssumption
  <2>2. f \in Surjection(1 .. MaxLedger, Parts)
    BY DEF Surjection
  <2> QED
    BY <2>1, <2>2, FS_Surjection
<1>3. \A T \in Parts : IsFiniteSet(T)
  BY <1>1
<1>4. Event = UNION Parts
  BY DEF Event
<1> HIDE DEF Parts
<1> QED
  BY <1>2, <1>3, <1>4, FS_UNION

---------------------------------------------------------------------------
\* What a listing has of its window.

Rows(S) == {r \in S \X (1 .. MaxCopies) : r[2] <= copies[r[1]]}

LEMMA RowsAreFinite ==
  ASSUME NEW S \in SUBSET Event
  PROVE  IsFiniteSet(Rows(S)) /\ RowsOf(S) = Cardinality(Rows(S)) /\ RowsOf(S) \in Nat
<1>1. IsFiniteSet(S)
  BY EventsAreFinite, FS_Subset
<1>2. IsFiniteSet(1 .. MaxCopies)
  BY FS_Interval, ReplayAssumption
<1>3. IsFiniteSet(S \X (1 .. MaxCopies))
  BY <1>1, <1>2, FS_Product
<1>4. Rows(S) \subseteq S \X (1 .. MaxCopies)
  BY DEF Rows
<1>5. IsFiniteSet(Rows(S))
  BY <1>3, <1>4, FS_Subset
<1>6. RowsOf(S) = Cardinality(Rows(S))
  BY DEF RowsOf, Rows
<1> QED
  BY <1>5, <1>6, FS_CardinalityType

LEMMA RowsAreMonotone ==
  ASSUME NEW T \in SUBSET Event, NEW S \in SUBSET T
  PROVE  RowsOf(S) <= RowsOf(T)
<1>1. Rows(S) \subseteq Rows(T)
  BY DEF Rows
<1> QED
  BY <1>1, RowsAreFinite, FS_Subset

\* An event that is there has a row of its own.
LEMMA RowsOfMore ==
  ASSUME TypeOK, NEW T \in SUBSET Event, NEW S \in SUBSET T, NEW x \in T \ S, copies[x] > 0
  PROVE  RowsOf(S) < RowsOf(T)
<1> DEFINE r == <<x, 1>>
<1>1. r \in Rows(T)
  <2>1. copies[x] \in Int /\ 1 \in 1 .. MaxCopies
    BY ReplayAssumption DEF TypeOK
  <2> QED
    BY <2>1 DEF Rows
<1>2. Rows(S) \subseteq Rows(T) \ {r}
  BY DEF Rows
<1>3. IsFiniteSet(Rows(T)) /\ IsFiniteSet(Rows(T) \ {r})
  BY RowsAreFinite, FS_RemoveElement
<1>4. Cardinality(Rows(T) \ {r}) = Cardinality(Rows(T)) - 1
  BY <1>1, <1>3, FS_RemoveElement
<1>5. Cardinality(Rows(S)) <= Cardinality(Rows(T) \ {r})
  BY <1>2, <1>3, FS_Subset
<1>6. Cardinality(Rows(S)) \in Nat /\ Cardinality(Rows(T)) \in Nat
  BY RowsAreFinite
<1> QED
  BY <1>4, <1>5, <1>6, RowsAreFinite

LEMMA NoRows == RowsOf({}) = 0
<1>1. Rows({}) = {}
  BY DEF Rows
<1> QED
  BY <1>1, RowsAreFinite, FS_EmptySet

\* The events before x in the order of the listing.
Before(x) == {y \in Window : Precedes(y, x)}

LEMMA WindowTypes ==
  ASSUME TypeOK
  PROVE  /\ Window \in SUBSET Event
         /\ \A x \in Window : copies[x] > 0 /\ Before(x) \in SUBSET Window
  BY DEF Window, Before

\* A window that fits is listed as a whole.
LEMMA ListedAll ==
  ASSUME TypeOK, ~(RowsOf(Window) > BatchSize)
  PROVE  Window \subseteq Listed
<1> SUFFICES ASSUME NEW x \in Window PROVE x \in Listed
  OBVIOUS
<1>1. x \notin Before(x)
  BY WindowTypes, EventTypes DEF Before, Precedes
<1>2. RowsOf(Before(x)) < RowsOf(Window)
  BY <1>1, WindowTypes, RowsOfMore
<1>3. RowsOf(Window) \in Nat /\ RowsOf(Before(x)) \in Nat /\ BatchSize \in Nat
  BY WindowTypes, RowsAreFinite, ReplayAssumption
<1>4. RowsOf(Before(x)) < BatchSize
  BY <1>2, <1>3
<1> QED
  BY <1>4 DEF Listed, Before

\* A listing has all of the ledgers before its last one.
LEMMA ListedBefore ==
  ASSUME TypeOK, NEW y \in Listed, NEW x \in Window, x.ledger < y.ledger
  PROVE  x \in Listed
<1>1. y \in Window /\ RowsOf(Before(y)) < BatchSize
  BY DEF Listed, Before
<1>2. Before(x) \subseteq Before(y)
  <2> SUFFICES ASSUME NEW z \in Before(x) PROVE Precedes(z, y)
    BY DEF Before
  <2>1. z \in Event /\ x \in Event /\ y \in Event /\ Precedes(z, x)
    BY <1>1, WindowTypes DEF Before
  <2>2. z.ledger \in Int /\ x.ledger \in Int /\ y.ledger \in Int
    BY <2>1, EventTypes
  <2> QED
    BY <2>1, <2>2 DEF Precedes
<1>3. Before(y) \in SUBSET Event /\ Before(x) \in SUBSET Before(y)
  BY <1>2, WindowTypes DEF Before
<1>4. RowsOf(Before(x)) <= RowsOf(Before(y))
  BY <1>3, RowsAreMonotone
<1>5. RowsOf(Before(x)) \in Nat /\ RowsOf(Before(y)) \in Nat /\ BatchSize \in Nat
  BY <1>3, RowsAreFinite, ReplayAssumption
<1>6. RowsOf(Before(x)) < BatchSize
  BY <1>1, <1>4, <1>5
<1> QED
  BY <1>6 DEF Listed, Before

\* The first event of a window is listed.
LEMMA ListedSome ==
  ASSUME TypeOK, Window # {}
  PROVE  Listed # {}
<1> DEFINE Ledgers == {x.ledger : x \in Window}
<1>1. Ledgers \subseteq Nat /\ Ledgers # {}
  BY WindowTypes, EventTypes
<1>2. PICK l \in Ledgers : \A m \in Ledgers : l <= m
  BY <1>1, Least
<1> DEFINE Slots == {x.slot : x \in {y \in Window : y.ledger = l}}
<1>3. Slots \subseteq Nat /\ Slots # {}
  BY <1>2, WindowTypes, EventTypes
<1>4. PICK i \in Slots : \A j \in Slots : i <= j
  BY <1>3, Least
<1>5. PICK x \in Window : x.ledger = l /\ x.slot = i
  BY <1>4
<1>6. Before(x) = {}
  <2> SUFFICES ASSUME NEW y \in Window, Precedes(y, x) PROVE FALSE
    BY DEF Before
  <2>1. y \in Event /\ x \in Event
    BY WindowTypes
  <2>2. y.ledger \in Int /\ y.slot \in Int /\ x.ledger \in Int /\ x.slot \in Int
    BY <2>1, EventTypes
  <2>3. x.ledger <= y.ledger /\ (y.ledger = x.ledger => x.slot <= y.slot)
    BY <1>2, <1>4, <1>5
  <2> QED
    BY <2>2, <2>3 DEF Precedes
<1>7. RowsOf(Before(x)) < BatchSize
  BY <1>6, NoRows, ReplayAssumption
<1> QED
  BY <1>5, <1>7 DEF Listed, Before

---------------------------------------------------------------------------
\* The invariant.

\* The end of a window is a ledger of the range, and not before its start.
LEMMA UpperTypes ==
  ASSUME TypeOK
  PROVE  /\ Upper \in Nat /\ cursor \in Nat /\ from \in Nat /\ to \in Nat
         /\ to > 0 => Upper <= to
         /\ to = 0 => cursor <= Upper
         /\ to > 0 /\ cursor <= to => cursor <= Upper
         /\ to > 0 /\ cursor = to => Upper = to
  BY ReplayAssumption DEF TypeOK, Upper

\* The last ledger of what is listed.
LEMMA LastLedgerTypes ==
  ASSUME TypeOK, chunk # {}
  PROVE  /\ \E y \in chunk : y.ledger = LastLedger
         /\ \A y \in chunk : y.ledger <= LastLedger
         /\ LastLedger \in Nat
<1> DEFINE T == {x.ledger : x \in chunk}
<1>1. T \subseteq 0 .. MaxLedger /\ T # {}
  <2>1. \A x \in chunk : x.ledger \in 1 .. MaxLedger
    BY EventTypes DEF TypeOK
  <2> QED
    BY <2>1, ReplayAssumption
<1>2. MaxLedger \in Nat
  BY ReplayAssumption
<1>3. Max(T) \in T /\ \A n \in T : n <= Max(T)
  BY <1>1, <1>2, Largest
<1>4. Max(T) = LastLedger
  BY DEF LastLedger
<1>5. LastLedger \in T /\ \A n \in T : n <= LastLedger
  BY <1>3, <1>4
<1> QED
  BY <1>1, <1>2, <1>5

LEMMA InitInv == Init => Inv
<1> SUFFICES ASSUME Init PROVE Inv
  OBVIOUS
<1>1. copies \in [Event -> 0 .. MaxCopies]
  BY ReplayAssumption DEF Init
<1>2. TypeOK
  <2>1. cursor \in Nat /\ (to > 0 => cursor <= to + 1) /\ faults \in 0 .. MaxFaults
    BY ReplayAssumption DEF Init
  <2>2. wanted \in SUBSET Event /\ replayed \in SUBSET Event /\ derived \in SUBSET replayed
    BY DEF Init
  <2> QED
    BY <1>1, <2>1, <2>2 DEF Init, TypeOK
<1> QED
  BY <1>2
     DEF Init, Inv, OnlyTheRange, Progress, Listing, Working, Holding, CompletedCoversRange

\* The table gets rows and loses copies, and the replay is as it was.
LEMMA TableStep ==
  ASSUME Inv, copies' \in [Event -> 0 .. MaxCopies],
         \A x \in Event : copies[x] > 0 => copies'[x] > 0,
         UNCHANGED <<range, pc, cursor, chunk, full, history, faults>>
  PROVE  Inv'
<1> USE DEF range, history
<1>1. TypeOK' /\ Upper' = Upper
  BY DEF Inv, OnlyTheRange, TypeOK, Upper
<1>2. OnlyTheRange'
  BY <1>1 DEF Inv, OnlyTheRange, InRange
<1>3. Progress'
  BY DEF Inv, OnlyTheRange, TypeOK, Progress, Working, Pending, InRange
<1>4. Listing'
  BY <1>1 DEF Inv, Listing, Holding, Pending, InRange
<1> QED
  BY <1>2, <1>3, <1>4 DEF Inv, CompletedCoversRange

LEMMA IngestEventInv == ASSUME Inv, NEW x \in Event, IngestEvent(x) PROVE Inv'
<1>1. copies \in [Event -> 0 .. MaxCopies] /\ MaxCopies \in Nat
  BY ReplayAssumption DEF Inv, OnlyTheRange, TypeOK
<1>2. copies' \in [Event -> 0 .. MaxCopies]
  BY <1>1 DEF IngestEvent, Inserted
<1>3. \A y \in Event : copies[y] > 0 => copies'[y] > 0
  BY <1>1 DEF IngestEvent, Inserted
<1> QED
  BY <1>2, <1>3, TableStep DEF IngestEvent

LEMMA MergeInv == ASSUME Inv, NEW x \in Event, Merge(x) PROVE Inv'
<1>1. copies \in [Event -> 0 .. MaxCopies] /\ MaxCopies \in Nat
  BY ReplayAssumption DEF Inv, OnlyTheRange, TypeOK
<1>2. PICK n \in 1 .. copies[x] - 1 : copies' = [copies EXCEPT ![x] = n]
  BY DEF Merge
<1>3. n \in 0 .. MaxCopies /\ n > 0
  BY <1>1
<1>4. copies' \in [Event -> 0 .. MaxCopies]
  BY <1>1, <1>2, <1>3
<1>5. \A y \in Event : copies[y] > 0 => copies'[y] > 0
  BY <1>1, <1>2, <1>3
<1> QED
  BY <1>4, <1>5, TableStep DEF Merge

\* The steps that end a run, or make it ready to start.
LEMMA StopInv ==
  ASSUME Inv, pc' \in {"start", "failed"}, cursor' \in Nat, to > 0 => cursor' <= to + 1,
         chunk' \in SUBSET Event, full' \in BOOLEAN, faults' \in 0 .. MaxFaults,
         UNCHANGED <<copies, range, history>>
  PROVE  Inv'
<1> USE DEF range, history
<1>1. TypeOK'
  BY DEF Inv, OnlyTheRange, TypeOK
<1>2. OnlyTheRange'
  BY <1>1 DEF Inv, OnlyTheRange, InRange
<1> QED
  BY <1>2 DEF Inv, Progress, Listing, Working, Holding, CompletedCoversRange

LEMMA BeginInv == ASSUME Inv, Begin PROVE Inv'
<1> USE DEF range
<1>1. TypeOK
  BY DEF Inv, OnlyTheRange
<1>2. TypeOK'
  <2>1. cursor' \in Nat /\ (to' > 0 => cursor' <= to' + 1)
    BY <1>1, UpperTypes DEF Begin
  <2>2. wanted' \in SUBSET Event /\ replayed' = {} /\ derived' = {}
    BY DEF Begin
  <2> QED
    BY <1>1, <2>1, <2>2 DEF Begin, TypeOK
<1>3. OnlyTheRange'
  BY <1>2 DEF Begin, OnlyTheRange
<1>4. Progress'
  <2>1. \A x \in wanted' : x \in Event /\ copies'[x] > 0 /\ InRange(x)'
    BY DEF Begin, InRange
  <2>2. \A x \in wanted' : cursor' <= x.ledger
    BY DEF Begin, InRange
  <2>3. from' <= cursor'
    BY <1>1, UpperTypes DEF Begin
  <2> QED
    BY <2>1, <2>2, <2>3 DEF Progress, Pending
<1>5. pc' = "list"
  BY DEF Begin
<1> QED
  BY <1>3, <1>4, <1>5 DEF Inv, Listing, Holding, CompletedCoversRange

\* An event that is pending is in the window, or after it.
LEMMA PendingInWindow ==
  ASSUME Inv, Working, ~truncated, NEW x \in Pending, x.ledger <= Upper
  PROVE  x \in Window
  BY DEF Inv, OnlyTheRange, TypeOK, Progress, Pending, Window

\* A replay that ends has nothing pending.
LEMMA FinishInv == ASSUME Inv, Finish PROVE Inv'
<1> USE DEF range, history
<1>1. TypeOK /\ Working /\ Progress
  BY DEF Inv, OnlyTheRange, Finish, Working
<1>2. TypeOK'
  BY <1>1 DEF Finish, TypeOK
<1>3. OnlyTheRange'
  BY <1>2 DEF Inv, OnlyTheRange, InRange, Finish
<1>4. to > 0 /\ ~truncated => Pending = {}
  <2> SUFFICES ASSUME to > 0, ~truncated, NEW x \in Pending PROVE FALSE
    OBVIOUS
  <2>1. x \in Event /\ x.ledger \in Nat
    BY <1>1, EventTypes DEF Pending, TypeOK
  <2>2. cursor <= x.ledger /\ x.ledger <= to
    BY <1>1 DEF Progress, Pending, InRange
  <2>3. ~PastTheEnd /\ cursor = to /\ Listed = {}
    BY <1>1, <2>1, <2>2, UpperTypes DEF Finish, PastTheEnd
  <2>4. x \in Window
    BY <1>1, <2>1, <2>2, <2>3, UpperTypes, PendingInWindow
  <2> QED
    BY <1>1, <2>3, <2>4, ListedSome
<1>5. CompletedCoversRange'
  BY <1>4 DEF Finish, CompletedCoversRange, Pending
<1> QED
  BY <1>3, <1>5 DEF Finish, Inv, Progress, Listing, Working, Holding

LEMMA SkipWindowInv == ASSUME Inv, SkipWindow PROVE Inv'
<1> USE DEF range, history
<1>1. TypeOK /\ Working /\ Progress
  BY DEF Inv, OnlyTheRange, SkipWindow, Working
<1>2. TypeOK'
  BY <1>1, UpperTypes DEF SkipWindow, TypeOK
<1>3. OnlyTheRange'
  BY <1>2 DEF Inv, OnlyTheRange, InRange, SkipWindow
<1>4. \A x \in Pending : ~truncated => Upper + 1 <= x.ledger
  <2> SUFFICES ASSUME NEW x \in Pending, ~truncated PROVE Upper + 1 <= x.ledger
    OBVIOUS
  <2>1. x.ledger \in Nat /\ Upper \in Nat
    BY <1>1, EventTypes, UpperTypes DEF Pending, TypeOK
  <2>2. Window = {}
    BY <1>1, ListedSome DEF SkipWindow
  <2>3. ~(x.ledger <= Upper)
    BY <1>1, <2>2, PendingInWindow
  <2> QED
    BY <2>1, <2>3
<1>5. from <= Upper + 1
  BY <1>1, UpperTypes DEF SkipWindow, Progress
<1>6. Progress'
  BY <1>1, <1>4, <1>5 DEF SkipWindow, Progress, Working, Pending, InRange
<1> QED
  BY <1>3, <1>6 DEF SkipWindow, Inv, Listing, Holding, CompletedCoversRange

LEMMA ListByLedgerRangeInv == ASSUME Inv, ListByLedgerRange PROVE Inv'
<1> USE DEF range, history
<1>1. TypeOK /\ Working /\ Progress /\ pc = "list" /\ pc' = "events" /\ chunk' = Listed
  BY DEF Inv, OnlyTheRange, ListByLedgerRange, Working
<1>2. Listed \subseteq Window /\ Window \subseteq Event /\ Listed # {}
  BY <1>1, WindowTypes DEF Listed, ListByLedgerRange
<1>3. TypeOK'
  BY <1>1, <1>2 DEF ListByLedgerRange, TypeOK
<1>4. OnlyTheRange'
  BY <1>3 DEF Inv, OnlyTheRange, InRange, ListByLedgerRange
<1>5. Progress'
  BY <1>1 DEF ListByLedgerRange, Progress, Working, Pending, InRange
<1>6. to > 0 => cursor <= to
  BY <1>1, UpperTypes DEF ListByLedgerRange, PastTheEnd
<1>7. Upper' = Upper
  BY DEF ListByLedgerRange, Upper
<1>8. \A x \in Listed : InRange(x) /\ cursor <= x.ledger /\ x.ledger <= Upper
  <2> SUFFICES ASSUME NEW x \in Listed PROVE InRange(x) /\ cursor <= x.ledger /\ x.ledger <= Upper
    OBVIOUS
  <2>1. x.ledger \in Nat
    BY <1>2, EventTypes
  <2>2. cursor <= x.ledger /\ x.ledger <= Upper
    BY <1>2 DEF Window
  <2> QED
    BY <1>1, <2>1, <2>2, UpperTypes DEF InRange, Progress
<1>9. ASSUME ~truncated, NEW x \in Pending \ Listed
      PROVE  (\A y \in Listed : y.ledger <= x.ledger) /\ (x.ledger <= Upper => full')
  <2>1. x \in Event /\ x.ledger \in Nat
    BY <1>1, EventTypes DEF Pending, TypeOK
  <2>2. ASSUME NEW y \in Listed, ~(y.ledger <= x.ledger) PROVE FALSE
    <3>1. y.ledger \in Nat /\ y.ledger <= Upper /\ Upper \in Nat
      BY <1>1, <1>2, <1>8, EventTypes, UpperTypes
    <3>2. x.ledger < y.ledger /\ x.ledger <= Upper
      BY <2>1, <2>2, <3>1
    <3>3. x \in Window
      BY <1>1, <1>9, <3>2, PendingInWindow
    <3> QED
      BY <1>1, <1>9, <3>2, <3>3, ListedBefore
  <2>3. ASSUME x.ledger <= Upper PROVE RowsOf(Window) > BatchSize
    <3>1. x \in Window
      BY <1>1, <1>9, <2>3, PendingInWindow
    <3> QED
      BY <1>1, <1>9, <3>1, ListedAll
  <2> QED
    BY <2>2, <2>3 DEF ListByLedgerRange
<1>10. Listing'
  <2>1. UNCHANGED <<from, to, cursor, wanted, derived, truncated>>
    BY DEF ListByLedgerRange
  <2> QED
    BY <1>1, <1>2, <1>6, <1>7, <1>8, <1>9, <2>1 DEF Listing, Pending, InRange
<1> QED
  BY <1>1, <1>4, <1>5, <1>10 DEF Inv, CompletedCoversRange

LEMMA UpsertBatchInv == ASSUME Inv, UpsertBatch PROVE Inv'
<1> USE DEF range
<1>1. TypeOK /\ Working /\ Holding /\ Progress /\ Listing
  BY DEF Inv, OnlyTheRange, UpsertBatch, Working, Holding
<1>2. copies' \in [Event -> 0 .. MaxCopies] /\ \A x \in Event : copies[x] > 0 => copies'[x] > 0
  BY <1>1, ReplayAssumption DEF UpsertBatch, Inserted, TypeOK
<1>3. TypeOK'
  BY <1>1, <1>2 DEF UpsertBatch, TypeOK
<1>4. OnlyTheRange'
  BY <1>1, <1>3 DEF Inv, OnlyTheRange, Listing, InRange, UpsertBatch
<1>5. Progress'
  BY <1>1, <1>2 DEF UpsertBatch, Progress, Pending, InRange, TypeOK
<1>6. Upper' = Upper
  BY DEF UpsertBatch, Upper
<1>7. Listing'
  BY <1>1, <1>6 DEF UpsertBatch, Listing, Pending, InRange
<1>8. chunk' \subseteq replayed' /\ pc' = "addresses"
  BY DEF UpsertBatch
<1> QED
  BY <1>4, <1>5, <1>7, <1>8 DEF Inv, CompletedCoversRange

LEMMA UpsertAddressesInv == ASSUME Inv, UpsertAddresses PROVE Inv'
<1> USE DEF range, history
<1>1. TypeOK /\ Working /\ Holding /\ Progress /\ Listing
  BY DEF Inv, OnlyTheRange, UpsertAddresses, Working, Holding
<1>2. TypeOK'
  BY <1>1 DEF UpsertAddresses, TypeOK
<1>3. OnlyTheRange'
  BY <1>2 DEF Inv, OnlyTheRange, InRange, UpsertAddresses
<1>4. Progress'
  BY <1>1 DEF UpsertAddresses, Progress, Pending, InRange
<1>5. Upper' = Upper
  BY DEF UpsertAddresses, Upper
<1>6. Listing'
  BY <1>1, <1>5 DEF UpsertAddresses, Listing, Pending, InRange
<1> QED
  BY <1>3, <1>4, <1>6 DEF UpsertAddresses, Inv, CompletedCoversRange

\* Nothing that is pending stays behind when the cursor moves.
LEMMA UpsertTokenEventsInv == ASSUME Inv, UpsertTokenEvents PROVE Inv'
<1> USE DEF range
<1>1. TypeOK /\ Working /\ Holding /\ Progress /\ Listing /\ chunk \subseteq replayed
  BY DEF Inv, OnlyTheRange, UpsertTokenEvents, Working, Holding
<1>2. /\ chunk # {} /\ LastLedger \in Nat /\ Upper \in Nat /\ from \in Nat /\ to \in Nat
      /\ \E y \in chunk : y.ledger = LastLedger
      /\ \A y \in chunk : y.ledger <= LastLedger
  BY <1>1, LastLedgerTypes, UpperTypes DEF Listing
<1>3. LastLedger <= Upper /\ from <= LastLedger /\ (to > 0 => Upper <= to)
  BY <1>1, <1>2, UpperTypes DEF Listing, InRange
<1>4. cursor' = (IF LastLedger >= Upper THEN Upper + 1 ELSE LastLedger)
  BY DEF UpsertTokenEvents
<1>5. cursor' \in Nat /\ from <= cursor' /\ (to > 0 => cursor' <= to + 1)
  BY <1>2, <1>3, <1>4
<1>6. TypeOK'
  <2>1. derived' \in SUBSET replayed'
    BY <1>1 DEF UpsertTokenEvents, TypeOK
  <2>2. truncated' \in BOOLEAN /\ stalled' \in BOOLEAN
    BY <1>1 DEF UpsertTokenEvents, TypeOK
  <2> QED
    BY <1>1, <1>5, <2>1, <2>2 DEF UpsertTokenEvents, TypeOK
<1>7. OnlyTheRange'
  BY <1>6 DEF Inv, OnlyTheRange, InRange, UpsertTokenEvents
<1>8. ASSUME ~truncated', NEW x \in Pending' PROVE cursor' <= x.ledger
  <2>1. ~truncated /\ x \in Pending \ chunk /\ ~(full /\ LastLedger >= Upper)
    BY <1>8 DEF UpsertTokenEvents, Pending
  <2>2. x.ledger \in Nat
    BY <1>1, <2>1, EventTypes DEF Pending, TypeOK
  <2>3. LastLedger <= x.ledger /\ (x.ledger <= Upper => full)
    BY <1>1, <1>2, <2>1 DEF Listing
  <2> QED
    BY <1>2, <1>4, <2>1, <2>2, <2>3
<1>9. Progress'
  BY <1>1, <1>5, <1>8 DEF UpsertTokenEvents, Progress, InRange
<1> QED
  BY <1>7, <1>9 DEF UpsertTokenEvents, Inv, Listing, Holding, CompletedCoversRange

LEMMA NextInv == Inv /\ [Next]_vars => Inv'
<1> SUFFICES ASSUME Inv, [Next]_vars PROVE Inv'
  OBVIOUS
<1>1. TypeOK
  BY DEF Inv, OnlyTheRange
<1>2. CASE InvalidRange
  BY <1>1, <1>2, StopInv DEF InvalidRange, TypeOK
<1>3. CASE CallFails
  <2>1. faults' \in 0 .. MaxFaults
    BY <1>1, <1>3, ReplayAssumption DEF CallFails, TypeOK
  <2> QED
    BY <1>1, <1>3, <2>1, StopInv DEF CallFails, TypeOK
<1>4. CASE RunAgain
  <2>1. cursor' \in Nat /\ (to > 0 => cursor' <= to + 1)
    BY <1>1, <1>4, UpperTypes DEF RunAgain
  <2> QED
    BY <1>1, <1>4, <2>1, StopInv DEF RunAgain, TypeOK
<1>5. ASSUME NEW x \in Event, IngestEvent(x) \/ Merge(x) PROVE Inv'
  BY <1>5, IngestEventInv, MergeInv
<1>6. CASE UNCHANGED vars
  <2>1. copies' \in [Event -> 0 .. MaxCopies]
    BY <1>1, <1>6 DEF vars, TypeOK
  <2> QED
    BY <1>6, <2>1, TableStep DEF vars
<1>7. CASE Run
  BY <1>2, <1>7, BeginInv, FinishInv, SkipWindowInv, ListByLedgerRangeInv, UpsertBatchInv,
     UpsertAddressesInv, UpsertTokenEventsInv DEF Run
<1> QED
  BY <1>3, <1>4, <1>5, <1>6, <1>7 DEF Next

---------------------------------------------------------------------------

\* The invariant of the replay, of which the two theorems below are parts.
THEOREM ReplayInvariant == Spec => []Inv
<1>1. Init => Inv
  BY InitInv
<1>2. Inv /\ [Next]_vars => Inv'
  BY NextInv
<1> QED
  BY <1>1, <1>2, PTL DEF Spec

\* ReplayService.Run: a replay rewrites no event outside the ledgers it was given, and its
\* cursor is never more than one past the last.
THEOREM ReplaysKeepToTheirRange == Spec => []OnlyTheRange
<1>1. Inv => OnlyTheRange
  BY DEF Inv
<1> QED
  BY <1>1, ReplayInvariant, PTL

\* ReplayService.Run: a replay with an end that completes has rewritten all that was in its
\* range when it began, unless a full listing ended with the last ledger of its window.
THEOREM CompletedReplaysCoverTheirRange == Spec => []CompletedCoversRange
<1>1. Inv => CompletedCoversRange
  BY DEF Inv
<1> QED
  BY <1>1, ReplayInvariant, PTL

============================================================================
