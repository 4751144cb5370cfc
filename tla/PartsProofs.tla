---------------------------- MODULE PartsProofs -----------------------------
(***************************************************************************)
(* Theorems about the parts that share no state with each other: the       *)
(* events table that replays and merges rewrite, the poll interval of the  *)
(* worker, the API keys of a user, the mailed links of an account, the     *)
(* RPC endpoints, the schemas that decode events with the bundles they     *)
(* are listed in, and the pages of the explore API.  Each is proved of its *)
(* part alone, for all constants that its assumption admits, and then      *)
(* holds of the parts side by side.                                        *)
(***************************************************************************)
EXTENDS Parts, ProjectsProofs, WellFoundedInduction

\* Each part brings the cardinality of sets along.
LEMMA SameCardinality ==
  ASSUME NEW S
  PROVE  /\ Auth!Cardinality(S) = Cardinality(S)
         /\ Api!Cardinality(S) = Cardinality(S)
         /\ Explore!Cardinality(S) = Cardinality(S)
<1>1. Auth!Cardinality(S) = Cardinality(S)
  BY DEF Auth!Cardinality, Cardinality
<1>2. Api!Cardinality(S) = Cardinality(S)
  BY DEF Api!Cardinality, Cardinality
<1>3. Explore!Cardinality(S) = Cardinality(S)
  BY DEF Explore!Cardinality, Cardinality
<1> QED BY <1>1, <1>2, <1>3

\* And what is finite.
LEMMA SameFinite ==
  ASSUME NEW S
  PROVE  Explore!IsFiniteSet(S) <=> IsFiniteSet(S)
BY DEF Explore!IsFiniteSet, IsFiniteSet

---------------------------------------------------------------------------
\* Events and their copies.

\* The batches of the two writers and the table hold copies, none with a time that is still to
\* come; copies of an event are told apart by their stamps, an event is in a batch once, and the
\* stamp of a replay's batch is not in the table before the batch is.
CopiesAreStamped ==
  /\ stamp \in 0 .. MaxStamp /\ errors \in 0 .. MaxErrors
  /\ table \subseteq Explore!Copy
  /\ \A c \in table : c.at <= stamp
  /\ \A c \in table, d \in table : c.log = d.log /\ c.at = d.at => c = d
  /\ DOMAIN batches = {"worker", "replay"}
  /\ \A w \in {"worker", "replay"} : batches[w] \subseteq Explore!Copy
  /\ \A w \in {"worker", "replay"} : \A c \in batches[w], d \in batches[w] : c.log = d.log => c = d
  /\ \A c \in batches["replay"] : c.at <= stamp /\ \A d \in table : c.at # d.at

LEMMA CopiesAtFirst ==
  Explore!ReadsAssumption /\ Explore!Init => CopiesAreStamped
  BY DEF Explore!ReadsAssumption, Explore!Init, CopiesAreStamped

\* What ApplyBatch leaves: a copy of each event, all with one stamp.
LEMMA BatchIsStamped ==
  ASSUME Explore!ReadsAssumption, CopiesAreStamped,
         NEW w \in {"worker", "replay"}, NEW S, S \subseteq Logs, NEW before \in [S -> BOOLEAN],
         NEW at \in 0 .. MaxStamp, Explore!ApplyBatch(w, S, before, at)
  PROVE  /\ errors' \in 0 .. MaxErrors /\ DOMAIN batches' = {"worker", "replay"}
         /\ batches'[w] \subseteq Explore!Copy
         /\ \A c \in batches'[w] : c.at = at
         /\ \A c \in batches'[w], d \in batches'[w] : c.log = d.log => c = d
         /\ \A v \in {"worker", "replay"} \ {w} : batches'[v] = batches[v]
<1>1. PICK failed \in SUBSET S, decoded \in SUBSET S :
        /\ errors + Explore!Cardinality(failed) <= MaxErrors
        /\ errors' = errors + Explore!Cardinality(failed)
        /\ batches' = [batches EXCEPT ![w] =
             {[log |-> e, at |-> at, fields |-> e \in decoded,
               decoded |-> IF e \in failed THEN before[e] ELSE e \in decoded] : e \in S}]
  <2>1. PICK failed \in SUBSET S : \E decoded \in SUBSET (S \ failed) :
          /\ errors + Explore!Cardinality(failed) <= MaxErrors
          /\ errors' = errors + Explore!Cardinality(failed)
          /\ batches' = [batches EXCEPT ![w] =
               {[log |-> e, at |-> at, fields |-> e \in decoded,
                 decoded |-> IF e \in failed THEN before[e] ELSE e \in decoded] : e \in S}]
    BY Zenon DEF Explore!ApplyBatch
  <2>2. \A decoded \in SUBSET (S \ failed) : decoded \in SUBSET S
    OBVIOUS
  <2> QED BY <2>1, <2>2, Zenon
<1> DEFINE copy(e) == [log |-> e, at |-> at, fields |-> e \in decoded,
                       decoded |-> IF e \in failed THEN before[e] ELSE e \in decoded]
<1>2. errors' \in 0 .. MaxErrors
  <2>1. IsFiniteSet(failed)
    BY SameFinite, FS_Subset DEF Explore!ReadsAssumption
  <2>2. Explore!Cardinality(failed) \in Nat
    BY <2>1, FS_CardinalityType, SameCardinality
  <2> QED BY <1>1, <2>2 DEF CopiesAreStamped, Explore!ReadsAssumption
<1>3. \A e \in S : copy(e) \in Explore!Copy /\ copy(e).at = at /\ copy(e).log = e
  <2> SUFFICES ASSUME NEW e \in S PROVE copy(e) \in Explore!Copy /\ copy(e).at = at /\ copy(e).log = e
    OBVIOUS
  <2> DEFINE flag == IF e \in failed THEN before[e] ELSE e \in decoded
             shown == e \in decoded
  <2>1. shown \in BOOLEAN
    OBVIOUS
  <2>2. flag \in BOOLEAN
    <3>1. before[e] \in BOOLEAN
      OBVIOUS
    <3>2. CASE e \in failed
      <4>1. flag = before[e]
        BY <3>2
      <4> QED BY <3>1, <4>1
    <3>3. CASE e \notin failed
      <4>1. flag = shown
        BY <3>3
      <4> HIDE DEF flag, shown
      <4> QED BY <2>1, <4>1, Zenon
    <3> QED BY <3>2, <3>3
  <2>3. copy(e) = [log |-> e, at |-> at, fields |-> shown, decoded |-> flag]
    OBVIOUS
  <2> HIDE DEF flag, shown, copy
  <2> QED BY <2>1, <2>2, <2>3 DEF Explore!Copy
<1>4. /\ batches'[w] = {copy(e) : e \in S} /\ DOMAIN batches' = {"worker", "replay"}
      /\ \A v \in {"worker", "replay"} \ {w} : batches'[v] = batches[v]
  BY <1>1 DEF CopiesAreStamped
<1> HIDE DEF copy
<1> QED BY <1>2, <1>3, <1>4

\* The writers take turns with their batches and the clock; a merge only removes copies.
LEMMA CopiesStay ==
  ASSUME Explore!ReadsAssumption, CopiesAreStamped, [Explore!Next]_Explore!tableVars
  PROVE  CopiesAreStamped'
<1>0. MaxStamp \in Nat /\ \A c \in Explore!Copy : c.at \in Nat
  BY DEF Explore!ReadsAssumption, Explore!Copy
<1>2. ASSUME NEW S \in SUBSET Logs, Explore!WorkerDecodes(S)
      PROVE  CopiesAreStamped'
  <2> DEFINE before == [e \in S |-> FALSE]
  <2>1. Explore!ApplyBatch("worker", S, before, 0) /\ UNCHANGED <<table, stamp>>
    BY <1>2 DEF Explore!WorkerDecodes
  <2>2. /\ 0 \in 0 .. MaxStamp /\ "worker" \in {"worker", "replay"} /\ before \in [S -> BOOLEAN]
        /\ S \subseteq Logs
    BY <1>0
  <2> HIDE DEF before
  <2>3. /\ errors' \in 0 .. MaxErrors /\ DOMAIN batches' = {"worker", "replay"}
        /\ batches'["worker"] \subseteq Explore!Copy
        /\ \A c \in batches'["worker"], d \in batches'["worker"] : c.log = d.log => c = d
        /\ \A v \in {"worker", "replay"} \ {"worker"} : batches'[v] = batches[v]
    BY <2>1, <2>2, BatchIsStamped, Zenon
  <2>4. batches'["replay"] = batches["replay"]
    BY <2>3
  <2> QED BY <2>1, <2>3, <2>4 DEF CopiesAreStamped
<1>3. ASSUME NEW listed \in SUBSET table, Explore!ReplayDecodes(listed)
      PROVE  CopiesAreStamped'
  <2> DEFINE read == {c.log : c \in listed}
             before == [e \in read |-> \E c \in listed : c.log = e /\ c.decoded]
  <2>1. /\ Explore!ApplyBatch("replay", read, before, stamp + 1)
        /\ stamp < MaxStamp /\ stamp' = stamp + 1 /\ UNCHANGED table
    BY <1>3 DEF Explore!ReplayDecodes
  <2>2. read \subseteq Logs /\ before \in [read -> BOOLEAN]
    BY DEF CopiesAreStamped, Explore!Copy
  <2>3. stamp \in Nat /\ stamp' \in 0 .. MaxStamp /\ stamp + 1 \in 0 .. MaxStamp
    BY <1>0, <2>1 DEF CopiesAreStamped
  <2> HIDE DEF read, before
  <2>4. /\ errors' \in 0 .. MaxErrors /\ DOMAIN batches' = {"worker", "replay"}
        /\ batches'["replay"] \subseteq Explore!Copy
        /\ \A c \in batches'["replay"] : c.at = stamp + 1
        /\ \A c \in batches'["replay"], d \in batches'["replay"] : c.log = d.log => c = d
        /\ \A v \in {"worker", "replay"} \ {"replay"} : batches'[v] = batches[v]
    <3>1. "replay" \in {"worker", "replay"}
      OBVIOUS
    <3> QED BY <2>1, <2>2, <2>3, <3>1, BatchIsStamped, Zenon
  <2>5. \A c \in table : c.at \in Nat /\ c.at <= stamp
    BY <1>0 DEF CopiesAreStamped
  <2>6. /\ \A c \in table' : c.at <= stamp'
        /\ \A c \in batches'["replay"] : c.at <= stamp' /\ \A d \in table' : c.at # d.at
    BY <2>1, <2>3, <2>4, <2>5
  <2>7. batches'["worker"] = batches["worker"]
    BY <2>4
  <2> QED BY <2>1, <2>3, <2>4, <2>6, <2>7 DEF CopiesAreStamped
<1>4. ASSUME NEW d \in table, Explore!Merge(d)
      PROVE  CopiesAreStamped'
  BY <1>4 DEF Explore!Merge, CopiesAreStamped
<1>5. ASSUME Explore!InsertWorker
      PROVE  CopiesAreStamped'
  <2> DEFINE Stamped(c) == [c EXCEPT !.at = stamp + 1]
  <2>1. /\ table' = table \cup {Stamped(c) : c \in batches["worker"]}
        /\ stamp < MaxStamp /\ stamp' = stamp + 1
        /\ batches' = [batches EXCEPT !["worker"] = {}] /\ UNCHANGED <<errors>>
    BY <1>5 DEF Explore!InsertWorker
  <2>2. stamp \in Nat /\ stamp' \in 0 .. MaxStamp
    BY <1>0, <2>1 DEF CopiesAreStamped
  <2>3. ASSUME NEW c \in batches["worker"]
        PROVE  Stamped(c) \in Explore!Copy /\ Stamped(c).at = stamp + 1 /\ Stamped(c).log = c.log
    BY <2>1, <2>2 DEF CopiesAreStamped, Explore!Copy
  <2> HIDE DEF Stamped
  <2>4. \A c \in table : c.at \in Nat /\ c.at <= stamp
    BY <1>0 DEF CopiesAreStamped
  <2>5. table' \subseteq Explore!Copy /\ \A c \in table' : c.at <= stamp'
    BY <2>1, <2>2, <2>3, <2>4 DEF CopiesAreStamped
  <2>6. \A c \in table', d \in table' : c.log = d.log /\ c.at = d.at => c = d
    <3> SUFFICES ASSUME NEW c \in table', NEW d \in table', c.log = d.log, c.at = d.at PROVE c = d
      OBVIOUS
    <3>1. CASE c \in table /\ d \in table
      BY <3>1 DEF CopiesAreStamped
    <3>2. CASE c \notin table /\ d \notin table
      <4>1. PICK x \in batches["worker"], y \in batches["worker"] : c = Stamped(x) /\ d = Stamped(y)
        BY <2>1, <3>2
      <4>2. x.log = y.log
        BY <2>3, <4>1
      <4>3. x = y
        BY <4>2 DEF CopiesAreStamped
      <4> QED BY <4>1, <4>3
    <3>3. CASE c \in table /\ d \notin table
      BY <2>1, <2>2, <2>3, <2>4, <3>3
    <3>4. CASE c \notin table /\ d \in table
      BY <2>1, <2>2, <2>3, <2>4, <3>4
    <3> QED BY <3>1, <3>2, <3>3, <3>4
  <2>7. /\ DOMAIN batches' = {"worker", "replay"} /\ batches'["worker"] = {}
        /\ batches'["replay"] = batches["replay"]
    BY <2>1 DEF CopiesAreStamped
  <2>8. \A c \in batches'["replay"] : c.at <= stamp' /\ \A d \in table' : c.at # d.at
    <3>1. \A c \in batches["replay"] : c.at \in Nat /\ c.at <= stamp
      BY <1>0 DEF CopiesAreStamped
    <3> QED BY <2>1, <2>2, <2>3, <2>7, <3>1 DEF CopiesAreStamped
  <2> QED BY <2>1, <2>2, <2>5, <2>6, <2>7, <2>8 DEF CopiesAreStamped
<1>6. ASSUME Explore!InsertReplay
      PROVE  CopiesAreStamped'
  <2>1. /\ table' = table \cup batches["replay"]
        /\ batches' = [batches EXCEPT !["replay"] = {}] /\ UNCHANGED <<stamp, errors>>
    BY <1>6 DEF Explore!InsertReplay
  <2>2. /\ DOMAIN batches' = {"worker", "replay"} /\ batches'["replay"] = {}
        /\ batches'["worker"] = batches["worker"]
    BY <2>1 DEF CopiesAreStamped
  <2>3. /\ table' \subseteq Explore!Copy /\ \A c \in table' : c.at <= stamp'
        /\ \A c \in table', d \in table' : c.log = d.log /\ c.at = d.at => c = d
    BY <2>1 DEF CopiesAreStamped
  <2> QED BY <2>1, <2>2, <2>3 DEF CopiesAreStamped
<1>7. CASE UNCHANGED Explore!tableVars
  BY <1>7 DEF Explore!tableVars, CopiesAreStamped
<1> QED
  BY <1>2, <1>3, <1>4, <1>5, <1>6, <1>7 DEF Explore!Next

\* A step keeps the newest copy of an event, or puts one above it that was not in the table.
LEMMA ShownStays ==
  ASSUME CopiesAreStamped, [Explore!Next]_Explore!tableVars,
         Explore!ReadsAssumption, NEW e \in Logs, NEW c \in Explore!GetEventByID(e), c.fields
  PROVE  \E d \in Explore!GetEventByID(e)' : d.fields \/ d \notin table
<1>0. /\ c \in table /\ c.log = e
      /\ \A d \in table : d.log = e => d.at <= c.at
  BY DEF Explore!GetEventByID, Explore!CopiesOf
<1>1. stamp \in Nat /\ \A d \in table : d.at \in Nat /\ d.at <= stamp
  BY DEF CopiesAreStamped, Explore!Copy, Explore!ReadsAssumption
<1>2. ASSUME NEW d \in table', d.log = e, d.fields \/ d \notin table,
             \A f \in table' : f.log = e => f.at <= d.at
      PROVE  \E f \in Explore!GetEventByID(e)' : f.fields \/ f \notin table
  BY <1>2 DEF Explore!GetEventByID, Explore!CopiesOf
<1>3. ASSUME UNCHANGED table PROVE \E f \in Explore!GetEventByID(e)' : f.fields \/ f \notin table
  BY <1>0, <1>2, <1>3
<1>4. ASSUME NEW d \in table, Explore!Merge(d)
      PROVE  \E f \in Explore!GetEventByID(e)' : f.fields \/ f \notin table
  <2>1. PICK f \in table : f.log = d.log /\ f.at > d.at
    BY <1>4 DEF Explore!Merge, Explore!Replaces
  <2>2. c # d
    BY <1>0, <1>1, <2>1
  <2>3. c \in table' /\ table' \subseteq table
    BY <1>0, <1>4, <2>2 DEF Explore!Merge
  <2> QED BY <1>0, <1>2, <2>3
<1>5. ASSUME Explore!InsertWorker
      PROVE  \E f \in Explore!GetEventByID(e)' : f.fields \/ f \notin table
  <2> DEFINE Stamped(d) == [d EXCEPT !.at = stamp + 1]
  <2>1. table' = table \cup {Stamped(d) : d \in batches["worker"]}
    BY <1>5 DEF Explore!InsertWorker
  <2>2. \A d \in batches["worker"] : Stamped(d).at = stamp + 1 /\ Stamped(d).log = d.log
    BY DEF CopiesAreStamped, Explore!Copy
  <2> HIDE DEF Stamped
  <2>3. CASE \E d \in batches["worker"] : d.log = e
    <3>1. PICK d \in batches["worker"] : d.log = e
      BY <2>3
    <3>2. Stamped(d) \in table' /\ Stamped(d).log = e /\ Stamped(d) \notin table
      BY <1>1, <2>1, <2>2, <3>1
    <3>3. \A f \in table' : f.at <= stamp + 1
      BY <1>1, <2>1, <2>2
    <3> QED BY <1>2, <2>2, <3>2, <3>3
  <2>4. CASE ~\E d \in batches["worker"] : d.log = e
    <3>1. \A f \in table' : f.log = e => f \in table
      BY <2>1, <2>2, <2>4
    <3> QED BY <1>0, <1>2, <2>1, <3>1
  <2> QED BY <2>3, <2>4
<1>6. ASSUME Explore!InsertReplay
      PROVE  \E f \in Explore!GetEventByID(e)' : f.fields \/ f \notin table
  <2>1. table' = table \cup batches["replay"]
    BY <1>6 DEF Explore!InsertReplay
  <2>2. \A d \in batches["replay"] : d.at \in Nat /\ d \notin table
    BY DEF CopiesAreStamped, Explore!Copy, Explore!ReadsAssumption
  <2>3. CASE \E d \in batches["replay"] : d.log = e /\ d.at > c.at
    <3>1. PICK d \in batches["replay"] : d.log = e /\ d.at > c.at
      BY <2>3
    <3>2. \A f \in batches["replay"] : f.log = e => f = d
      BY <3>1 DEF CopiesAreStamped
    <3>3. \A f \in table' : f.log = e => f.at <= d.at
      BY <1>0, <1>1, <2>1, <2>2, <3>1, <3>2
    <3> QED BY <1>2, <2>1, <2>2, <3>1, <3>3
  <2>4. CASE ~\E d \in batches["replay"] : d.log = e /\ d.at > c.at
    <3>1. \A f \in table' : f.log = e => f.at <= c.at
      BY <1>0, <1>1, <2>1, <2>2, <2>4
    <3> QED BY <1>0, <1>2, <2>1, <3>1
  <2> QED BY <2>3, <2>4
<1>7. \/ UNCHANGED table \/ (\E d \in table : Explore!Merge(d))
      \/ Explore!InsertWorker \/ Explore!InsertReplay
  BY DEF Explore!Next, Explore!WorkerDecodes, Explore!ReplayDecodes, Explore!tableVars
<1> QED BY <1>3, <1>4, <1>5, <1>6, <1>7

\* However many events, writers' batches, merges and replays: an event that is shown with its
\* fields is shown without them only by a newer copy that is inserted.
THEOREM CopiesKeepDecoding == Explore!ReadsAssumption => (Explore!Spec => Explore!DecodingStays)
<1> SUFFICES ASSUME Explore!ReadsAssumption PROVE Explore!Spec => Explore!DecodingStays
  OBVIOUS
<1> DEFINE Stays == \A e \in Logs :
                     (\E c \in Explore!GetEventByID(e) : c.fields) =>
                       \E c \in Explore!GetEventByID(e)' : c.fields \/ c \notin table
<1>1. Explore!Init => CopiesAreStamped
  BY CopiesAtFirst
<1>2. CopiesAreStamped /\ [Explore!Next]_Explore!tableVars => CopiesAreStamped'
  BY CopiesStay
<1>3. CopiesAreStamped /\ [Explore!Next]_Explore!tableVars => [Stays]_Explore!tableVars
  BY ShownStays
<1> QED BY <1>1, <1>2, <1>3, PTL DEF Explore!Spec, Explore!DecodingStays

\* Whatever the writers do, stamps tell the copies of an event apart.
LEMMA CopiesStayStamped ==
  Explore!ReadsAssumption => (Explore!Spec => []CopiesAreStamped)
<1> SUFFICES ASSUME Explore!ReadsAssumption PROVE Explore!Spec => []CopiesAreStamped
  OBVIOUS
<1>1. Explore!Init => CopiesAreStamped
  BY CopiesAtFirst
<1>2. CopiesAreStamped /\ [Explore!Next]_Explore!tableVars => CopiesAreStamped'
  BY CopiesStay
<1> QED BY <1>1, <1>2, PTL DEF Explore!Spec

\* An event is in a batch once and the copies that share a stamp are of different events, which
\* is what the order of the lists of the explore API rests on.
THEOREM CopiesAreTyped == Explore!ReadsAssumption => (Explore!Spec => []Explore!TypeOK)
<1> SUFFICES ASSUME Explore!ReadsAssumption PROVE Explore!Spec => []Explore!TypeOK
  OBVIOUS
<1>1. CopiesAreStamped => Explore!TypeOK
  BY DEF CopiesAreStamped, Explore!TypeOK
<1> QED BY <1>1, CopiesStayStamped, PTL

---------------------------------------------------------------------------
\* The poll interval and the reload.

\* A configuration that is in use has been validated.
Usable(c) == c \in [poll : Int, min : Int, max : Int] /\ Poll!Accepted(c) /\ c.poll > 0

\* While a signal has been answered to, or is being, the file as it was at the signal is on its
\* way: it is what the watcher is about to read, has read, has stored half of, or has stored.
ReloadOnItsWay ==
  told /\ ~hup /\ Poll!Accepted(env) =>
    /\ watcher = "set" => conf = Poll!Validated(env)
    /\ watcher \in {"wait", "setInterval"} => settings = Poll!Validated(env)

Polling ==
  /\ env \in Settings /\ told \in BOOLEAN /\ hup \in BOOLEAN
  /\ Usable(conf) /\ Usable(settings)
  /\ pollInterval \in Int /\ pollInterval > 0
  /\ interval \in Nat /\ next \in Nat /\ (runner = "store" => next > 0)
  /\ watcher \in {"wait", "read", "set", "setInterval"} /\ runner \in {"cycle", "load", "store"}
  /\ ReloadOnItsWay

\* config.validate raises an interval that is below the minimum.
LEMMA ValidatedIsUsable ==
  ASSUME Poll!SettingsAssumption, NEW raw \in Settings, Poll!Accepted(raw)
  PROVE  Usable(Poll!Validated(raw))
<1>1. raw \in [poll : Int, min : Int, max : Int]
  BY DEF Poll!SettingsAssumption
<1> QED BY <1>1 DEF Poll!Accepted, Poll!Validated, Usable

\* nextAdaptivePoll gives a positive interval, within the bounds or nearer to them.
LEMMA AdaptedIsNearer ==
  ASSUME NEW c, Usable(c), NEW i \in Nat, i > 0, NEW caughtUp \in BOOLEAN
  PROVE  LET n == Poll!NextAdaptivePoll(i, c.min, c.max, caughtUp) IN
         /\ n \in Nat /\ n > 0
         /\ \/ Poll!Distance(c, n) = 0
            \/ Poll!Distance(c, n) < Poll!Distance(c, i)
            \/ i = 1
<1> DEFINE n == Poll!NextAdaptivePoll(i, c.min, c.max, caughtUp)
           half == i \div 2
           lo == c.min
           hi == c.max
<1>1. lo \in Int /\ hi \in Int /\ lo > 0 /\ hi >= lo
  BY DEF Usable, Poll!Accepted
<1>2. half \in Nat /\ half <= i /\ (i > 1 => half > 0 /\ half < i)
  OBVIOUS
<1>3. n = IF caughtUp THEN (IF i + half > hi THEN hi ELSE i + half)
          ELSE (IF half < lo THEN lo ELSE half)
  BY DEF Poll!NextAdaptivePoll
<1>4. \A x : Poll!Distance(c, x) = IF x < lo THEN lo - x ELSE IF x > hi THEN x - hi ELSE 0
  BY DEF Poll!Distance
<1> HIDE DEF n, half, lo, hi
<1>5. n \in Nat /\ n > 0
  BY <1>1, <1>2, <1>3
<1>6. CASE n = lo \/ n = hi
  <2>1. Poll!Distance(c, n) = 0
    BY <1>1, <1>4, <1>6
  <2> QED BY <1>5, <2>1 DEF n
<1>7. CASE caughtUp /\ n = i + half /\ n <= hi /\ i > 1
  <2>1. CASE n < lo
    <3>1. i < lo /\ Poll!Distance(c, n) = lo - n /\ Poll!Distance(c, i) = lo - i
      BY <1>1, <1>2, <1>4, <1>7, <2>1
    <3>2. Poll!Distance(c, n) < Poll!Distance(c, i)
      BY <1>1, <1>2, <1>5, <1>7, <3>1
    <3> QED BY <1>5, <3>2 DEF n
  <2>2. CASE n >= lo
    <3>1. Poll!Distance(c, n) = 0
      BY <1>1, <1>4, <1>5, <1>7, <2>2
    <3> QED BY <1>5, <3>1 DEF n
  <2> QED BY <1>1, <1>5, <2>1, <2>2
<1>8. CASE ~caughtUp /\ n = half /\ n >= lo /\ i > 1
  <2>1. CASE n > hi
    <3>1. i > hi /\ Poll!Distance(c, n) = n - hi /\ Poll!Distance(c, i) = i - hi
      BY <1>1, <1>2, <1>4, <1>8, <2>1
    <3>2. Poll!Distance(c, n) < Poll!Distance(c, i)
      BY <1>1, <1>2, <1>5, <1>8, <3>1
    <3> QED BY <1>5, <3>2 DEF n
  <2>2. CASE n <= hi
    <3>1. Poll!Distance(c, n) = 0
      BY <1>1, <1>4, <1>5, <1>8, <2>2
    <3> QED BY <1>5, <3>1 DEF n
  <2> QED BY <1>1, <1>5, <2>1, <2>2
<1>9. CASE i = 1
  BY <1>5, <1>9 DEF n
<1> QED BY <1>1, <1>2, <1>3, <1>6, <1>7, <1>8, <1>9

LEMMA PollingAtFirst == Poll!SettingsAssumption /\ Poll!Init => Polling
<1> SUFFICES ASSUME Poll!SettingsAssumption, Poll!Init PROVE Polling
  OBVIOUS
<1>1. env \in Settings /\ Poll!Accepted(env)
  BY DEF Poll!Init
<1>2. Usable(Poll!Validated(env))
  BY <1>1, ValidatedIsUsable
<1>3. Usable(conf) /\ settings = Poll!Validated(env) /\ pollInterval = conf.poll
  BY <1>2 DEF Poll!Init
<1>4. pollInterval \in Int /\ pollInterval > 0
  BY <1>3 DEF Usable
<1> QED BY <1>1, <1>2, <1>3, <1>4 DEF Poll!Init, Polling, ReloadOnItsWay

\* The watcher carries the file to the worker; Run writes nothing but its interval.
LEMMA PollingStays ==
  ASSUME Poll!SettingsAssumption, Polling, [Poll!Next]_Poll!pollVars
  PROVE  Polling'
<1>1. CASE Poll!Edit
  BY <1>1 DEF Poll!Edit, Polling, ReloadOnItsWay
<1>2. CASE Poll!Signal
  BY <1>2 DEF Poll!Signal, Polling, ReloadOnItsWay
<1>3. CASE Poll!Receive
  BY <1>3 DEF Poll!Receive, Polling, ReloadOnItsWay
<1>4. CASE Poll!Reload
  <2>1. Usable(Poll!Validated(env))
    BY <1>4, ValidatedIsUsable DEF Poll!Reload, Polling
  <2>2. conf' = Poll!Validated(env) /\ watcher' = "set"
        /\ UNCHANGED <<env, told, hup, settings, pollInterval, runner, interval, next>>
    BY <1>4 DEF Poll!Reload
  <2> QED BY <2>1, <2>2 DEF Polling, ReloadOnItsWay
<1>5. CASE Poll!RejectReload
  BY <1>5 DEF Poll!RejectReload, Polling, ReloadOnItsWay
<1>6. CASE Poll!SetConfigStep
  <2>1. UNCHANGED <<env, told, hup, conf, runner, interval, next>>
    BY <1>6 DEF Poll!SetConfigStep
  <2>2. CASE watcher = "set" /\ settings' = conf /\ watcher' = "setInterval" /\ UNCHANGED pollInterval
    BY <2>1, <2>2 DEF Polling, ReloadOnItsWay
  <2>3. CASE watcher = "setInterval" /\ pollInterval' = conf.poll /\ watcher' = "wait" /\ UNCHANGED settings
    <3>1. conf.poll \in Int /\ conf.poll > 0
      BY DEF Polling, Usable
    <3> QED BY <2>1, <2>3, <3>1 DEF Polling, ReloadOnItsWay
  <2> QED BY <1>6, <2>2, <2>3 DEF Poll!SetConfigStep, Poll!SetConfig
<1>7. CASE Poll!EndFirstCycle
  BY <1>7 DEF Poll!EndFirstCycle, Polling, ReloadOnItsWay
<1>8. CASE Poll!Sleep
  <2>1. interval' = pollInterval
    BY <1>8 DEF Poll!Sleep, Polling
  <2> QED BY <1>8, <2>1 DEF Poll!Sleep, Polling, ReloadOnItsWay
<1>9. ASSUME NEW caughtUp \in BOOLEAN, Poll!EndCycle(caughtUp) PROVE Polling'
  <2>1. next' \in Nat /\ next' > 0
    BY <1>9, AdaptedIsNearer DEF Poll!EndCycle, Polling
  <2> QED BY <1>9, <2>1 DEF Poll!EndCycle, Polling, ReloadOnItsWay
<1>10. CASE Poll!StoreInterval
  BY <1>10 DEF Poll!StoreInterval, Polling, ReloadOnItsWay
<1>11. CASE UNCHANGED Poll!pollVars
  BY <1>11 DEF Poll!pollVars, Polling, ReloadOnItsWay
<1> QED
  BY <1>1, <1>2, <1>3, <1>4, <1>5, <1>6, <1>7, <1>8, <1>9, <1>10, <1>11 DEF Poll!Next

\* Whatever the files, the signals that are dropped and the moments of a reload: an idle watcher
\* has handed the worker the file of the last signal, and each interval that Run computes is
\* within the bounds in use or nearer to them than the one it slept.
THEOREM LoopAppliesSettings == Poll!SettingsAssumption => (Poll!Spec => Poll!SettingsApply)
<1> SUFFICES ASSUME Poll!SettingsAssumption PROVE Poll!Spec => Poll!SettingsApply
  OBVIOUS
<1> DEFINE Applied == watcher = "wait" /\ ~hup /\ told /\ Poll!Accepted(env) => settings = Poll!Validated(env)
           Nearer == runner = "cycle" /\ runner' = "store" =>
                       \/ Poll!Distance(settings, next') = 0
                       \/ Poll!Distance(settings, next') < Poll!Distance(settings, interval)
                       \/ interval = 1
<1>1. Poll!Init => Polling
  BY PollingAtFirst
<1>2. Polling /\ [Poll!Next]_Poll!pollVars => Polling'
  BY PollingStays
<1>3. Polling => Applied
  BY DEF Polling, ReloadOnItsWay
<1>4. ASSUME Polling, Poll!Next, runner = "cycle", runner' = "store" PROVE Nearer
  <2>1. PICK caughtUp \in BOOLEAN : Poll!EndCycle(caughtUp)
    BY <1>4 DEF Poll!Next, Poll!Edit, Poll!Signal, Poll!Receive, Poll!Reload, Poll!RejectReload,
                Poll!SetConfigStep, Poll!EndFirstCycle, Poll!Sleep, Poll!StoreInterval
  <2> QED BY <1>4, <2>1, AdaptedIsNearer DEF Poll!EndCycle, Polling
<1>5. Polling /\ [Poll!Next]_Poll!pollVars => [Nearer]_Poll!pollVars
  BY <1>4
<1> HIDE DEF Applied, Nearer
<1>6. Poll!Spec => []Applied /\ [][Nearer]_Poll!pollVars
  BY <1>1, <1>2, <1>3, <1>5, PTL DEF Poll!Spec
<1> QED BY <1>6 DEF Poll!SettingsApply, Applied, Nearer

\* Only an accepted configuration is in use, and no interval is zero.
THEOREM PollingIsTyped == Poll!SettingsAssumption => (Poll!Spec => []Poll!TypeOK)
<1> SUFFICES ASSUME Poll!SettingsAssumption PROVE Poll!Spec => []Poll!TypeOK
  OBVIOUS
<1>1. Poll!Init => Polling
  BY PollingAtFirst
<1>2. Polling /\ [Poll!Next]_Poll!pollVars => Polling'
  BY PollingStays
<1>3. Polling => Poll!TypeOK
  BY DEF Polling, Usable, Poll!TypeOK
<1> QED BY <1>1, <1>2, <1>3, PTL DEF Poll!Spec

---------------------------------------------------------------------------
\* The limit on API keys.

CountedKeys == Api!ActiveKeys \ overlappedKeys

\* A creation that has counted and whose count no insert has made stale finds room.
RoomForKeys ==
  /\ IsFiniteSet(Api!ActiveKeys)
  /\ Cardinality(CountedKeys) <= MaxApiKeys
  /\ \A k \in Keys :
       kpc[k] = "insert" /\ k \notin overlappedKeys => Cardinality(CountedKeys) < MaxApiKeys

KeysAreSound == Api!TypeOK /\ RoomForKeys

LEMMA NoKeysAtFirst == Api!KeysAssumption /\ Api!Init => KeysAreSound
<1> SUFFICES ASSUME Api!KeysAssumption, Api!Init PROVE KeysAreSound
  OBVIOUS
<1>1. Api!ActiveKeys = {} /\ CountedKeys = {}
  BY DEF Api!Init, Api!ActiveKeys, CountedKeys
<1>2. IsFiniteSet(Api!ActiveKeys) /\ Cardinality(CountedKeys) = 0
  BY <1>1, FS_EmptySet
<1>3. RoomForKeys
  BY <1>2 DEF Api!Init, RoomForKeys, Api!KeysAssumption
<1>4. Api!TypeOK
  BY DEF Api!Init, Api!TypeOK
<1> QED BY <1>3, <1>4 DEF KeysAreSound

LEMMA KeyTypesStay == Api!TypeOK /\ [Api!Next]_Api!keyVars => Api!TypeOK'
<1> SUFFICES ASSUME Api!TypeOK, [Api!Next]_Api!keyVars PROVE Api!TypeOK'
  OBVIOUS
<1> USE DEF Api!TypeOK
<1>1. ASSUME NEW k \in Keys, Api!CountActiveByUser(k) PROVE Api!TypeOK'
  <2>1. kpc' = [kpc EXCEPT ![k] = "failed"] \/ kpc' = [kpc EXCEPT ![k] = "insert"]
    BY <1>1 DEF Api!CountActiveByUser
  <2> QED BY <1>1, <2>1 DEF Api!CountActiveByUser
<1>2. ASSUME NEW k \in Keys, Api!Insert(k) PROVE Api!TypeOK'
  BY <1>2 DEF Api!Insert
<1>3. ASSUME NEW k \in Keys, Api!Revoke(k) PROVE Api!TypeOK'
  BY <1>3 DEF Api!Revoke
<1>4. ASSUME NEW q \in Calls, NEW k \in Keys, Api!ResolveKey(q, k) PROVE Api!TypeOK'
  <2>1. call' = [call EXCEPT ![q] = "accepted"] \/ call' = [call EXCEPT ![q] = "refused"]
    BY <1>4 DEF Api!ResolveKey
  <2>2. call' \in [Calls -> {"idle", "accepted", "served", "refused"}]
    BY <2>1
  <2>3. keyUsed' \subseteq Keys
    BY <1>4 DEF Api!ResolveKey
  <2>4. bearer' \in [Calls -> Keys \cup {Anonymous}] /\ UNCHANGED <<key, kpc, overlappedKeys>>
    BY <1>4 DEF Api!ResolveKey
  <2> QED BY <2>2, <2>3, <2>4
<1>5. ASSUME NEW q \in Calls, Api!RefuseWithoutKey(q) \/ Api!AcceptWithoutKey(q) \/ Api!Serve(q)
      PROVE  Api!TypeOK'
  BY <1>5 DEF Api!RefuseWithoutKey, Api!AcceptWithoutKey, Api!Serve
<1>6. CASE UNCHANGED Api!keyVars
  BY <1>6 DEF Api!keyVars
<1> QED
  BY <1>1, <1>2, <1>3, <1>4, <1>5, <1>6 DEF Api!Next, Api!CreateKey, Api!HandleCall

\* Fewer keys and fewer counts leave room.
LEMMA FewerKeysLeaveRoom ==
  ASSUME Api!KeysAssumption, RoomForKeys, Api!ActiveKeys' \subseteq Api!ActiveKeys,
         overlappedKeys' = overlappedKeys,
         \A k \in Keys : kpc'[k] = "insert" => kpc[k] = "insert"
  PROVE  RoomForKeys'
<1>1. IsFiniteSet(Api!ActiveKeys') /\ IsFiniteSet(CountedKeys) /\ IsFiniteSet(CountedKeys')
  BY FS_Subset DEF RoomForKeys, CountedKeys
<1>2. Cardinality(CountedKeys') <= Cardinality(CountedKeys)
  BY <1>1, FS_Subset DEF CountedKeys
<1>3. Cardinality(CountedKeys) \in Nat /\ Cardinality(CountedKeys') \in Nat /\ MaxApiKeys \in Nat
  BY <1>1, FS_CardinalityType DEF Api!KeysAssumption
<1>4. Cardinality(CountedKeys') <= MaxApiKeys
  BY <1>2, <1>3 DEF RoomForKeys
<1>5. ASSUME NEW k \in Keys, kpc'[k] = "insert", k \notin overlappedKeys'
      PROVE  Cardinality(CountedKeys') < MaxApiKeys
  <2>1. Cardinality(CountedKeys) < MaxApiKeys
    BY <1>5 DEF RoomForKeys
  <2> QED BY <2>1, <1>2, <1>3
<1> QED
  BY <1>1, <1>4, <1>5 DEF RoomForKeys

\* A count below the limit leaves room for its creation.
LEMMA CountLeavesRoom ==
  ASSUME Api!KeysAssumption, Api!TypeOK, RoomForKeys, NEW k \in Keys, Api!CountActiveByUser(k)
  PROVE  RoomForKeys'
<1>1. Api!ActiveKeys' = Api!ActiveKeys /\ overlappedKeys' = overlappedKeys
  BY DEF Api!CountActiveByUser, Api!ActiveKeys
<1>2. CountedKeys' = CountedKeys
  BY <1>1 DEF CountedKeys
<1>3. IsFiniteSet(Api!ActiveKeys) /\ IsFiniteSet(CountedKeys)
  BY FS_Subset DEF RoomForKeys, CountedKeys
<1>4. Cardinality(CountedKeys) <= Cardinality(Api!ActiveKeys)
  BY <1>3, FS_Subset DEF CountedKeys
<1>5. /\ Cardinality(CountedKeys) \in Nat /\ Cardinality(Api!ActiveKeys) \in Nat
      /\ MaxApiKeys \in Nat
  BY <1>3, FS_CardinalityType DEF Api!KeysAssumption
<1>6. ASSUME kpc'[k] = "insert" PROVE Cardinality(CountedKeys) < MaxApiKeys
  <2>1. ~(Api!Cardinality(Api!ActiveKeys) >= MaxApiKeys)
    BY <1>6 DEF Api!CountActiveByUser, Api!TypeOK
  <2>2. ~(Cardinality(Api!ActiveKeys) >= MaxApiKeys)
    BY <2>1, SameCardinality
  <2> QED BY <2>2, <1>4, <1>5
<1>7. \A d \in Keys \ {k} : kpc'[d] = kpc[d]
  BY DEF Api!CountActiveByUser, Api!TypeOK
<1> QED
  BY <1>1, <1>2, <1>3, <1>6, <1>7 DEF RoomForKeys

\* An insert takes the room its count has found, and makes all other counts stale.
LEMMA InsertTakesRoom ==
  ASSUME Api!KeysAssumption, Api!TypeOK, RoomForKeys, NEW k \in Keys, Api!Insert(k)
  PROVE  RoomForKeys'
<1>1. Api!ActiveKeys' = Api!ActiveKeys \cup {k} /\ overlappedKeys \subseteq overlappedKeys'
  BY DEF Api!Insert, Api!TypeOK, Api!ActiveKeys
<1>2. IsFiniteSet(Api!ActiveKeys') /\ IsFiniteSet(CountedKeys)
  BY <1>1, FS_AddElement, FS_Subset DEF RoomForKeys, CountedKeys
<1>3. IsFiniteSet(CountedKeys')
  BY <1>2, FS_Subset DEF CountedKeys
<1>4. /\ Cardinality(CountedKeys) \in Nat /\ Cardinality(CountedKeys') \in Nat
      /\ MaxApiKeys \in Nat
  BY <1>2, <1>3, FS_CardinalityType DEF Api!KeysAssumption
<1>5. Cardinality(CountedKeys') <= MaxApiKeys
  <2>1. CASE k \in overlappedKeys
    <3>1. CountedKeys' \in SUBSET CountedKeys
      BY <1>1, <2>1 DEF CountedKeys
    <3>2. Cardinality(CountedKeys') <= Cardinality(CountedKeys)
      BY <1>2, <3>1, FS_Subset
    <3> QED BY <3>2, <1>4 DEF RoomForKeys
  <2>2. CASE k \notin overlappedKeys
    <3>1. CountedKeys' \in SUBSET (CountedKeys \cup {k})
      BY <1>1 DEF CountedKeys
    <3>2. IsFiniteSet(CountedKeys \cup {k}) /\ Cardinality(CountedKeys \cup {k}) <= Cardinality(CountedKeys) + 1
      <4>1. /\ IsFiniteSet(CountedKeys \cup {k})
            /\ Cardinality(CountedKeys \cup {k}) =
                 IF k \in CountedKeys THEN Cardinality(CountedKeys) ELSE Cardinality(CountedKeys) + 1
        BY <1>2, FS_AddElement
      <4>2. CASE k \in CountedKeys
        BY <4>1, <4>2, <1>4
      <4>3. CASE k \notin CountedKeys
        BY <4>1, <4>3, <1>4
      <4> QED BY <4>2, <4>3
    <3>3. Cardinality(CountedKeys') <= Cardinality(CountedKeys \cup {k})
      BY <3>1, <3>2, FS_Subset
    <3>4. Cardinality(CountedKeys) < MaxApiKeys
      BY <2>2 DEF RoomForKeys, Api!Insert
    <3>5. Cardinality(CountedKeys \cup {k}) \in Nat
      BY <3>2, FS_CardinalityType
    <3> QED BY <3>2, <3>3, <3>4, <3>5, <1>4
  <2> QED BY <2>1, <2>2
<1>6. \A d \in Keys : kpc'[d] = "insert" => d \in overlappedKeys'
  BY DEF Api!Insert, Api!TypeOK
<1> QED
  BY <1>2, <1>5, <1>6 DEF RoomForKeys

\* Revocations and requests that bring a key create none.
LEMMA KeysStaySound ==
  ASSUME Api!KeysAssumption, KeysAreSound, [Api!Next]_Api!keyVars
  PROVE  KeysAreSound'
<1>0. Api!TypeOK /\ RoomForKeys /\ Api!TypeOK'
  BY KeyTypesStay DEF KeysAreSound
<1>1. ASSUME NEW k \in Keys, Api!Revoke(k) PROVE RoomForKeys'
  <2>1. Api!ActiveKeys' \subseteq Api!ActiveKeys /\ overlappedKeys' = overlappedKeys /\ kpc' = kpc
    BY <1>0, <1>1 DEF Api!Revoke, Api!ActiveKeys, Api!TypeOK
  <2> QED BY <1>0, <2>1, FewerKeysLeaveRoom
<1>2. ASSUME UNCHANGED <<key, kpc, overlappedKeys>> PROVE RoomForKeys'
  <2>1. Api!ActiveKeys' \subseteq Api!ActiveKeys
    BY <1>2 DEF Api!ActiveKeys
  <2> QED BY <1>0, <1>2, <2>1, FewerKeysLeaveRoom
<1>3. \/ \E k \in Keys : Api!CreateKey(k) \/ Api!Revoke(k)
      \/ UNCHANGED <<key, kpc, overlappedKeys>>
  BY DEF Api!Next, Api!HandleCall, Api!ResolveKey, Api!RefuseWithoutKey, Api!AcceptWithoutKey,
         Api!Serve, Api!keyVars
<1>4. RoomForKeys'
  BY <1>0, <1>1, <1>2, <1>3, CountLeavesRoom, InsertTakesRoom DEF Api!CreateKey
<1> QED BY <1>0, <1>4 DEF KeysAreSound

\* A user never gets more active keys than the limit, whatever the limit and however many
\* requests: only a creation that ran at the same time as another can go beyond it.
THEOREM UserKeysStayLimited == Api!KeysAssumption => (Api!Spec => []Api!KeysAreLimited)
<1> SUFFICES ASSUME Api!KeysAssumption PROVE Api!Spec => []Api!KeysAreLimited
  OBVIOUS
<1>1. Api!Init => KeysAreSound
  BY NoKeysAtFirst
<1>2. KeysAreSound /\ [Api!Next]_Api!keyVars => KeysAreSound'
  BY KeysStaySound
<1>3. KeysAreSound => Api!KeysAreLimited
  <2> SUFFICES ASSUME RoomForKeys PROVE Api!Cardinality(CountedKeys) <= MaxApiKeys
    BY DEF KeysAreSound, Api!KeysAreLimited, CountedKeys
  <2>1. Api!Cardinality(CountedKeys) = Cardinality(CountedKeys)
    BY SameCardinality
  <2> QED BY <2>1 DEF RoomForKeys
<1> QED BY <1>1, <1>2, <1>3, PTL DEF Api!Spec

\* The keys and the requests that bring them hold only what the service puts there.
THEOREM KeysAreTyped == Api!KeysAssumption => (Api!Spec => []Api!TypeOK)
<1> SUFFICES ASSUME Api!KeysAssumption PROVE Api!Spec => []Api!TypeOK
  OBVIOUS
<1>1. Api!Init => KeysAreSound
  BY NoKeysAtFirst
<1>2. KeysAreSound /\ [Api!Next]_Api!keyVars => KeysAreSound'
  BY KeysStaySound
<1>3. KeysAreSound => Api!TypeOK
  BY DEF KeysAreSound
<1> QED BY <1>1, <1>2, <1>3, PTL DEF Api!Spec

---------------------------------------------------------------------------
\* Mailed links.

\* What a request holds at its place: a token it looks up or has stored, a new password.
RequestsHold ==
  \A r \in Requests :
    /\ rpc[r] \in {"cooldown", "invalidate", "store"} => job[r] \in {VerifyTokens, ResetTokens}
    /\ rpc[r] = "mail" => held[r] \in Auth!Tokens
    /\ rpc[r] = "verify" => held[r] \in VerifyTokens
    /\ rpc[r] \in {"reset", "password"} => held[r] \in ResetTokens

\* A link that works, and was not stored beside another.
Works(t) == link[t] = "active" /\ t \notin crossed

\* A request that has invalidated the links of a kind finds none when it stores its own.
LinksGiveWay ==
  /\ \A K \in {VerifyTokens, ResetTokens} : \A t \in K, s \in K : Works(t) /\ Works(s) => t = s
  /\ \A r \in Requests : rpc[r] = "store" => \A t \in job[r] : ~Works(t)

AccountIsSound == Auth!TypeOK /\ RequestsHold /\ LinksGiveWay /\ Auth!UsedLinksCount

LEMMA AccountAtFirst == Auth!AccountsAssumption /\ Auth!Init => AccountIsSound
<1> SUFFICES ASSUME Auth!AccountsAssumption, Auth!Init PROVE AccountIsSound
  OBVIOUS
<1>1. Auth!TypeOK
  <2>1. "idle" \in Auth!Stages /\ faults \in 0 .. MaxFaults
    BY DEF Auth!Init, Auth!AccountsAssumption, Auth!Stages
  <2>2. rpc \in [Requests -> Auth!Stages]
    BY <2>1 DEF Auth!Init
  <2> QED BY <2>1, <2>2 DEF Auth!Init, Auth!TypeOK
<1>2. RequestsHold
  BY DEF Auth!Init, RequestsHold
<1>3. \A t \in Auth!Tokens : ~Works(t)
  BY DEF Auth!Init, Works
<1>4. LinksGiveWay
  BY <1>3 DEF Auth!Init, LinksGiveWay, Auth!Tokens
<1>5. Auth!UsedLinksCount
  BY DEF Auth!Init, Auth!UsedLinksCount
<1> QED BY <1>1, <1>2, <1>4, <1>5 DEF AccountIsSound

\* The request that answers forgets what it holds.
LEMMA AnswerTypes ==
  ASSUME Auth!TypeOK, NEW r \in Requests, Auth!Answer(r)
  PROVE  /\ rpc' \in [Requests -> Auth!Stages]
         /\ job' \in [Requests -> {{}, VerifyTokens, ResetTokens}]
         /\ held' \in [Requests -> Auth!Tokens \cup {NoToken}]
         /\ chosen' \in [Requests -> Passwords \cup {NoPassword}]
         /\ rpc'[r] = "idle"
         /\ \A s \in Requests \ {r} : rpc'[s] = rpc[s] /\ job'[s] = job[s] /\ held'[s] = held[s]
<1>1. "idle" \in Auth!Stages
  BY DEF Auth!Stages
<1>2. /\ rpc' = [rpc EXCEPT ![r] = "idle"] /\ job' = [job EXCEPT ![r] = {}]
      /\ held' = [held EXCEPT ![r] = NoToken] /\ chosen' = [chosen EXCEPT ![r] = NoPassword]
  BY DEF Auth!Answer, Auth!Goto
<1> QED BY <1>1, <1>2 DEF Auth!TypeOK

\* The request that goes on to another place.
LEMMA GotoTypes ==
  ASSUME Auth!TypeOK, NEW r \in Requests, NEW label \in Auth!Stages, Auth!Goto(r, label)
  PROVE  /\ rpc' \in [Requests -> Auth!Stages] /\ rpc'[r] = label
         /\ \A s \in Requests \ {r} : rpc'[s] = rpc[s]
  BY DEF Auth!TypeOK, Auth!Goto

\* A step that lets no link work that did not, and brings no request to "store", keeps the links
\* apart.
LEMMA FewerLinksWork ==
  ASSUME Auth!TypeOK, RequestsHold, LinksGiveWay,
         \A t \in Auth!Tokens : Works(t)' => Works(t),
         \A r \in Requests : rpc'[r] = "store" => rpc[r] = "store" /\ job'[r] = job[r]
  PROVE  LinksGiveWay'
<1>1. \A K \in {VerifyTokens, ResetTokens} : \A t \in K, s \in K : Works(t)' /\ Works(s)' => t = s
  BY DEF LinksGiveWay, Auth!Tokens
<1>2. ASSUME NEW r \in Requests, rpc'[r] = "store", NEW t \in job'[r] PROVE ~Works(t)'
  <2>1. job[r] \in {VerifyTokens, ResetTokens} /\ t \in job[r] /\ ~Works(t)
    BY <1>2 DEF LinksGiveWay, RequestsHold
  <2> QED BY <2>1 DEF Auth!Tokens
<1> QED BY <1>1, <1>2 DEF LinksGiveWay

\* Every step keeps the types: a request marks a token that it holds.
LEMMA AccountTypesStay ==
  ASSUME Auth!AccountsAssumption, Auth!TypeOK, RequestsHold, [Auth!Next]_Auth!accountVars
  PROVE  Auth!TypeOK'
<1> USE DEF Auth!userVars, Auth!links, Auth!request
<1>0. /\ {"idle", "cooldown", "invalidate", "store", "mail", "verify", "reset", "password", "change",
          "drop"} = Auth!Stages
      /\ ResetTokens \subseteq Auth!Tokens /\ VerifyTokens \subseteq Auth!Tokens
  BY DEF Auth!Stages, Auth!Tokens
<1>1. ASSUME NEW t \in Auth!Tokens, Auth!Cool(t) PROVE Auth!TypeOK'
  BY <1>1 DEF Auth!Cool, Auth!TypeOK
<1>2. ASSUME NEW p \in Passwords, Auth!Login(p) PROVE Auth!TypeOK'
  BY <1>2 DEF Auth!Login, Auth!TypeOK
<1>3. ASSUME NEW r \in Requests, NEW K \in {VerifyTokens, ResetTokens},
             NEW label \in Auth!Stages, Auth!WillSend(r, K, label)
      PROVE  /\ rpc' \in [Requests -> Auth!Stages]
             /\ job' \in [Requests -> {{}, VerifyTokens, ResetTokens}]
             /\ UNCHANGED <<held, chosen>>
  <2>1. job' = [job EXCEPT ![r] = K] /\ Auth!Goto(r, label) /\ UNCHANGED <<held, chosen>>
    BY <1>3 DEF Auth!WillSend
  <2>2. job' \in [Requests -> {{}, VerifyTokens, ResetTokens}]
    BY <2>1 DEF Auth!TypeOK
  <2> QED BY <2>1, <2>2, GotoTypes
<1>4. ASSUME NEW r \in Requests, NEW p \in Passwords, Auth!CreateUser(r, p) PROVE Auth!TypeOK'
  <2>1. /\ user' = "unverified" /\ password' = p /\ Auth!WillSend(r, VerifyTokens, "invalidate")
        /\ UNCHANGED <<session, link, fresh, mailbox, crossed, burned, written, faults>>
    BY <1>4 DEF Auth!CreateUser
  <2>2. /\ rpc' \in [Requests -> Auth!Stages]
        /\ job' \in [Requests -> {{}, VerifyTokens, ResetTokens}]
        /\ UNCHANGED <<held, chosen>>
    BY <1>0, <1>3, <2>1
  <2> QED BY <2>1, <2>2 DEF Auth!TypeOK
<1>5. ASSUME NEW r \in Requests, Auth!ResendVerification(r) \/ Auth!RequestPasswordReset(r)
      PROVE  Auth!TypeOK'
  <2>1. /\ \E K \in {VerifyTokens, ResetTokens} : Auth!WillSend(r, K, "cooldown")
        /\ UNCHANGED <<user, password, session, link, fresh, mailbox, crossed, burned, written, faults>>
    BY <1>5 DEF Auth!ResendVerification, Auth!RequestPasswordReset
  <2>2. /\ rpc' \in [Requests -> Auth!Stages]
        /\ job' \in [Requests -> {{}, VerifyTokens, ResetTokens}]
        /\ UNCHANGED <<held, chosen>>
    BY <1>0, <1>3, <2>1
  <2> QED BY <2>1, <2>2 DEF Auth!TypeOK
<1>6. ASSUME NEW r \in Requests, Auth!PassCooldown(r) PROVE Auth!TypeOK'
  <2>1. UNCHANGED <<user, password, session, link, fresh, mailbox, crossed, burned, written, faults>>
    BY <1>6 DEF Auth!PassCooldown
  <2>2. CASE Auth!Goto(r, "invalidate") /\ UNCHANGED <<job, held, chosen>>
    <3>1. rpc' \in [Requests -> Auth!Stages]
      BY <1>0, <2>2, GotoTypes
    <3> QED BY <2>1, <2>2, <3>1 DEF Auth!TypeOK
  <2>3. CASE Auth!Answer(r)
    BY <2>1, <2>3, AnswerTypes DEF Auth!TypeOK
  <2> QED BY <1>6, <2>2, <2>3 DEF Auth!PassCooldown
<1>7. ASSUME NEW r \in Requests, Auth!Invalidate(r) PROVE Auth!TypeOK'
  <2>1. rpc' \in [Requests -> Auth!Stages]
    BY <1>0, <1>7, GotoTypes DEF Auth!Invalidate
  <2>2. link' \in [Auth!Tokens -> {"none", "active", "invalidated", "used"}]
    BY <1>7 DEF Auth!Invalidate, Auth!TypeOK
  <2>3. UNCHANGED <<user, password, session, fresh, mailbox, crossed, burned, written, job, held,
                    chosen, faults>>
    BY <1>7 DEF Auth!Invalidate
  <2> QED BY <2>1, <2>2, <2>3 DEF Auth!TypeOK
<1>8. ASSUME NEW r \in Requests, NEW t \in Auth!Tokens, Auth!StoreToken(r, t) PROVE Auth!TypeOK'
  <2>1. rpc' \in [Requests -> Auth!Stages]
    BY <1>0, <1>8, GotoTypes DEF Auth!StoreToken
  <2>2. /\ link' \in [Auth!Tokens -> {"none", "active", "invalidated", "used"}]
        /\ fresh' \subseteq Auth!Tokens /\ crossed' \subseteq Auth!Tokens
        /\ held' \in [Requests -> Auth!Tokens \cup {NoToken}]
    BY <1>8 DEF Auth!StoreToken, Auth!TypeOK
  <2>3. UNCHANGED <<user, password, session, mailbox, burned, written, job, chosen, faults>>
    BY <1>8 DEF Auth!StoreToken
  <2> QED BY <2>1, <2>2, <2>3 DEF Auth!TypeOK
<1>9. ASSUME NEW r \in Requests, Auth!SendMail(r) PROVE Auth!TypeOK'
  <2>1. held[r] \in Auth!Tokens /\ mailbox' = mailbox \cup {held[r]} /\ Auth!Answer(r)
    BY <1>9 DEF Auth!SendMail, RequestsHold
  <2>2. UNCHANGED <<user, password, session, link, fresh, crossed, burned, written, faults>>
    BY <1>9 DEF Auth!SendMail
  <2> QED BY <2>1, <2>2, AnswerTypes DEF Auth!TypeOK
<1>10. ASSUME NEW r \in Requests, NEW t \in Auth!Tokens, NEW p \in Passwords, Auth!OpenLink(r, t, p)
       PROVE  Auth!TypeOK'
  <2>1. rpc' \in [Requests -> Auth!Stages]
    <3>1. Auth!Goto(r, "verify") \/ Auth!Goto(r, "reset")
      BY <1>10 DEF Auth!OpenLink
    <3> QED BY <1>0, <3>1, GotoTypes
  <2>2. /\ held' \in [Requests -> Auth!Tokens \cup {NoToken}]
        /\ chosen' \in [Requests -> Passwords \cup {NoPassword}]
    BY <1>10 DEF Auth!OpenLink, Auth!TypeOK
  <2>3. UNCHANGED <<user, password, session, link, fresh, mailbox, crossed, burned, written, job, faults>>
    BY <1>10 DEF Auth!OpenLink
  <2> QED BY <2>1, <2>2, <2>3 DEF Auth!TypeOK
<1>11. ASSUME NEW r \in Requests, Auth!ConsumeVerificationToken(r) PROVE Auth!TypeOK'
  <2>1. /\ link' = [link EXCEPT ![held[r]] = "used"] /\ user' = "verified" /\ session' = TRUE
        /\ UNCHANGED <<password, fresh, mailbox, crossed, burned, written, faults>>
    BY <1>11 DEF Auth!ConsumeVerificationToken
  <2>2. Auth!Answer(r)
    BY <1>11 DEF Auth!ConsumeVerificationToken
  <2> QED BY <2>1, <2>2, AnswerTypes DEF Auth!TypeOK
<1>12. ASSUME NEW r \in Requests, Auth!ConsumePasswordResetToken(r) PROVE Auth!TypeOK'
  <2>1. rpc' \in [Requests -> Auth!Stages]
    BY <1>0, <1>12, GotoTypes DEF Auth!ConsumePasswordResetToken
  <2>2. /\ link' = [link EXCEPT ![held[r]] = "used"]
        /\ UNCHANGED <<user, password, session, fresh, mailbox, crossed, burned, written, job, held,
                       chosen, faults>>
    BY <1>12 DEF Auth!ConsumePasswordResetToken
  <2> QED BY <2>1, <2>2 DEF Auth!TypeOK
<1>13. ASSUME NEW r \in Requests, Auth!WriteResetPassword(r) PROVE Auth!TypeOK'
  <2>1. /\ password' = chosen[r] /\ session' = TRUE /\ written' = written \cup {held[r]}
        /\ held[r] \in ResetTokens
        /\ UNCHANGED <<user, link, fresh, mailbox, crossed, burned, faults>>
    BY <1>13 DEF Auth!WriteResetPassword, RequestsHold
  <2>2. Auth!Answer(r)
    BY <1>13 DEF Auth!WriteResetPassword
  <2> QED BY <2>1, <2>2, AnswerTypes DEF Auth!TypeOK
<1>14. ASSUME NEW r \in Requests, NEW p \in Passwords, Auth!CheckPasswords(r, p) PROVE Auth!TypeOK'
  <2>1. rpc' \in [Requests -> Auth!Stages]
    BY <1>0, <1>14, GotoTypes DEF Auth!CheckPasswords
  <2>2. /\ chosen' = [chosen EXCEPT ![r] = p]
        /\ UNCHANGED <<user, password, session, link, fresh, mailbox, crossed, burned, written, job,
                       held, faults>>
    BY <1>14 DEF Auth!CheckPasswords
  <2> QED BY <2>1, <2>2 DEF Auth!TypeOK
<1>15. ASSUME NEW r \in Requests, Auth!UpdatePasswordHash(r) PROVE Auth!TypeOK'
  <2>1. rpc' \in [Requests -> Auth!Stages]
    BY <1>0, <1>15, GotoTypes DEF Auth!UpdatePasswordHash
  <2>2. /\ password' = chosen[r]
        /\ UNCHANGED <<user, session, link, fresh, mailbox, crossed, burned, written, job, held,
                       chosen, faults>>
    BY <1>15 DEF Auth!UpdatePasswordHash
  <2> QED BY <2>1, <2>2 DEF Auth!TypeOK
<1>16. ASSUME NEW r \in Requests, Auth!DropResetLinks(r) PROVE Auth!TypeOK'
  <2>1. /\ link' \in [Auth!Tokens -> {"none", "active", "invalidated", "used"}]
        /\ UNCHANGED <<user, password, session, fresh, mailbox, crossed, burned, written, faults>>
    BY <1>16 DEF Auth!DropResetLinks, Auth!TypeOK
  <2>2. Auth!Answer(r)
    BY <1>16 DEF Auth!DropResetLinks
  <2> QED BY <2>1, <2>2, AnswerTypes DEF Auth!TypeOK
<1>17. ASSUME NEW r \in Requests, Auth!Fail(r) PROVE Auth!TypeOK'
  <2>1. faults' \in 0 .. MaxFaults
    BY <1>17 DEF Auth!Fail, Auth!TypeOK, Auth!AccountsAssumption
  <2>2. burned' \subseteq ResetTokens
    BY <1>17 DEF Auth!Fail, Auth!TypeOK, RequestsHold
  <2>3. Auth!Answer(r) /\ UNCHANGED <<user, password, session, link, fresh, mailbox, crossed, written>>
    BY <1>17 DEF Auth!Fail
  <2> QED BY <2>1, <2>2, <2>3, AnswerTypes DEF Auth!TypeOK
<1>18. CASE UNCHANGED Auth!accountVars
  BY <1>18 DEF Auth!accountVars, Auth!TypeOK
<1> QED
  BY <1>1, <1>2, <1>4, <1>5, <1>6, <1>7, <1>8, <1>9, <1>10, <1>11, <1>12, <1>13, <1>14, <1>15,
     <1>16, <1>17, <1>18
     DEF Auth!Next, Auth!HandleAccounts, Auth!Register, Auth!VerifyEmail, Auth!ResetPassword,
         Auth!ChangePassword, Auth!SendLink

\* Each step moves one request at most.
Moves(r) == \A s \in Requests \ {r} : rpc'[s] = rpc[s] /\ job'[s] = job[s] /\ held'[s] = held[s]

\* Where a request is going to be, and what it holds there.
LEMMA HoldStays ==
  ASSUME Auth!AccountsAssumption, Auth!TypeOK, RequestsHold, [Auth!Next]_Auth!accountVars
  PROVE  RequestsHold'
<1> USE DEF Auth!userVars, Auth!links, Auth!request
<1>0. /\ rpc \in [Requests -> Auth!Stages]
      /\ job \in [Requests -> {{}, VerifyTokens, ResetTokens}]
      /\ held \in [Requests -> Auth!Tokens \cup {NoToken}]
  BY DEF Auth!TypeOK
<1>1. ASSUME NEW r \in Requests, Moves(r),
             /\ rpc'[r] \in {"cooldown", "invalidate", "store"} => job'[r] \in {VerifyTokens, ResetTokens}
             /\ rpc'[r] = "mail" => held'[r] \in Auth!Tokens
             /\ rpc'[r] = "verify" => held'[r] \in VerifyTokens
             /\ rpc'[r] \in {"reset", "password"} => held'[r] \in ResetTokens
      PROVE  RequestsHold'
  BY <1>1 DEF RequestsHold, Moves, Auth!Tokens
<1>2. ASSUME NEW r \in Requests, Auth!Answer(r) PROVE RequestsHold'
  BY <1>1, <1>2, AnswerTypes DEF Moves
<1>3. ASSUME NEW r \in Requests, NEW K \in {VerifyTokens, ResetTokens},
             NEW label \in {"cooldown", "invalidate"}, Auth!WillSend(r, K, label)
      PROVE  RequestsHold'
  <2>1. rpc' = [rpc EXCEPT ![r] = label] /\ job' = [job EXCEPT ![r] = K] /\ UNCHANGED <<held, chosen>>
    BY <1>3 DEF Auth!WillSend, Auth!Goto
  <2>2. Moves(r) /\ rpc'[r] \in {"cooldown", "invalidate"} /\ job'[r] = K
    BY <1>0, <2>1 DEF Moves
  <2> QED BY <1>1, <2>2
<1>4. ASSUME NEW r \in Requests, NEW p \in Passwords, Auth!CreateUser(r, p) PROVE RequestsHold'
  BY <1>3, <1>4 DEF Auth!CreateUser
<1>5. ASSUME NEW r \in Requests, Auth!ResendVerification(r) \/ Auth!RequestPasswordReset(r)
      PROVE  RequestsHold'
  BY <1>3, <1>5 DEF Auth!ResendVerification, Auth!RequestPasswordReset
<1>6. ASSUME NEW r \in Requests, Auth!PassCooldown(r) PROVE RequestsHold'
  <2>1. CASE Auth!Goto(r, "invalidate") /\ UNCHANGED <<job, held, chosen>>
    <3>1. Moves(r) /\ rpc'[r] = "invalidate" /\ job'[r] = job[r]
      BY <1>0, <2>1 DEF Moves, Auth!Goto
    <3>2. rpc[r] = "cooldown"
      BY <1>6 DEF Auth!PassCooldown
    <3> QED BY <1>1, <3>1, <3>2 DEF RequestsHold
  <2> QED BY <1>2, <1>6, <2>1 DEF Auth!PassCooldown
<1>7. ASSUME NEW r \in Requests, Auth!Invalidate(r) PROVE RequestsHold'
  <2>1. Moves(r) /\ rpc[r] = "invalidate" /\ rpc'[r] = "store" /\ job'[r] = job[r]
    BY <1>0, <1>7 DEF Auth!Invalidate, Auth!Goto, Moves
  <2> QED BY <1>1, <2>1 DEF RequestsHold
<1>8. ASSUME NEW r \in Requests, NEW t \in Auth!Tokens, Auth!StoreToken(r, t) PROVE RequestsHold'
  <2>1. Moves(r) /\ rpc'[r] = "mail" /\ held'[r] = t
    BY <1>0, <1>8 DEF Auth!StoreToken, Auth!Goto, Moves
  <2> QED BY <1>1, <2>1
<1>9. ASSUME NEW r \in Requests, NEW t \in Auth!Tokens, NEW p \in Passwords, Auth!OpenLink(r, t, p)
      PROVE  RequestsHold'
  <2>1. Moves(r) /\ held'[r] = t /\ rpc'[r] = IF t \in VerifyTokens THEN "verify" ELSE "reset"
    BY <1>0, <1>9 DEF Auth!OpenLink, Auth!Goto, Moves
  <2>2. t \in VerifyTokens \/ t \in ResetTokens
    BY DEF Auth!Tokens
  <2> QED BY <1>1, <2>1, <2>2
<1>10. ASSUME NEW r \in Requests, Auth!ConsumePasswordResetToken(r) PROVE RequestsHold'
  <2>1. Moves(r) /\ rpc[r] = "reset" /\ rpc'[r] = "password" /\ held'[r] = held[r]
    BY <1>0, <1>10 DEF Auth!ConsumePasswordResetToken, Auth!Goto, Moves
  <2> QED BY <1>1, <2>1 DEF RequestsHold
<1>11. ASSUME NEW r \in Requests, NEW p \in Passwords, Auth!CheckPasswords(r, p)
       PROVE  RequestsHold'
  <2>1. Moves(r) /\ rpc'[r] = "change"
    BY <1>0, <1>11 DEF Auth!CheckPasswords, Auth!Goto, Moves
  <2> QED BY <1>1, <2>1
<1>12. ASSUME NEW r \in Requests, Auth!UpdatePasswordHash(r) PROVE RequestsHold'
  <2>1. Moves(r) /\ rpc'[r] = "drop"
    BY <1>0, <1>12 DEF Auth!UpdatePasswordHash, Auth!Goto, Moves
  <2> QED BY <1>1, <2>1
<1>13. ASSUME NEW r \in Requests,
              \/ Auth!SendMail(r) \/ Auth!ConsumeVerificationToken(r) \/ Auth!WriteResetPassword(r)
              \/ Auth!DropResetLinks(r) \/ Auth!Fail(r)
       PROVE  RequestsHold'
  BY <1>2, <1>13 DEF Auth!SendMail, Auth!ConsumeVerificationToken, Auth!WriteResetPassword,
                     Auth!DropResetLinks, Auth!Fail
<1>14. ASSUME UNCHANGED <<rpc, job, held>> PROVE RequestsHold'
  BY <1>14 DEF RequestsHold, Auth!Tokens
<1>15. \/ (\E t \in Auth!Tokens : Auth!Cool(t)) \/ (\E p \in Passwords : Auth!Login(p))
       \/ UNCHANGED Auth!accountVars
       => UNCHANGED <<rpc, job, held>>
  BY DEF Auth!Cool, Auth!Login, Auth!accountVars
<1> QED
  BY <1>4, <1>5, <1>6, <1>7, <1>8, <1>9, <1>10, <1>11, <1>12, <1>13, <1>14, <1>15
     DEF Auth!Next, Auth!HandleAccounts, Auth!Register, Auth!VerifyEmail, Auth!ResetPassword,
         Auth!ChangePassword, Auth!SendLink

\* A link begins to work when it is stored, and the links before it have been invalidated; what
\* another request stores in between is marked as stored beside it.
LEMMA LinksStayApart ==
  ASSUME Auth!AccountsAssumption, Auth!TypeOK, RequestsHold, LinksGiveWay,
         [Auth!Next]_Auth!accountVars
  PROVE  LinksGiveWay'
<1> USE DEF Auth!userVars, Auth!links, Auth!request
<1>0. /\ rpc \in [Requests -> Auth!Stages] /\ link \in [Auth!Tokens -> {"none", "active", "invalidated", "used"}]
      /\ job \in [Requests -> {{}, VerifyTokens, ResetTokens}]
      /\ held \in [Requests -> Auth!Tokens \cup {NoToken}]
  BY DEF Auth!TypeOK
<1>1. ASSUME NEW r \in Requests, Auth!Invalidate(r) PROVE LinksGiveWay'
  <2>1. /\ link' = [t \in Auth!Tokens |-> IF t \in Auth!Active(job[r]) THEN "invalidated" ELSE link[t]]
        /\ rpc' = [rpc EXCEPT ![r] = "store"] /\ UNCHANGED <<job, crossed>>
    BY <1>1 DEF Auth!Invalidate, Auth!Goto
  <2>2. \A t \in Auth!Tokens : Works(t)' => Works(t) /\ t \notin job[r]
    BY <2>1 DEF Works, Auth!Active
  <2>3. \A K \in {VerifyTokens, ResetTokens} : \A t \in K, s \in K : Works(t)' /\ Works(s)' => t = s
    BY <2>2 DEF LinksGiveWay, Auth!Tokens
  <2>4. ASSUME NEW s \in Requests, rpc'[s] = "store", NEW t \in job'[s] PROVE ~Works(t)'
    <3>1. t \in Auth!Tokens /\ t \in job[s]
      BY <1>0, <2>1, <2>4 DEF Auth!Tokens
    <3>2. CASE s = r
      BY <2>2, <3>1, <3>2
    <3>3. CASE s # r
      BY <1>0, <2>1, <2>2, <2>4, <3>1, <3>3 DEF LinksGiveWay
    <3> QED BY <3>2, <3>3
  <2> QED BY <2>3, <2>4 DEF LinksGiveWay
<1>2. ASSUME NEW r \in Requests, NEW t \in Auth!Tokens, Auth!StoreToken(r, t) PROVE LinksGiveWay'
  <2>1. /\ rpc[r] = "store" /\ t \in job[r] /\ link' = [link EXCEPT ![t] = "active"]
        /\ crossed' = IF \E s \in Requests \ {r} : rpc[s] = "store" /\ job[s] = job[r]
                      THEN crossed \cup {t} ELSE crossed
        /\ rpc' = [rpc EXCEPT ![r] = "mail"] /\ UNCHANGED job
    BY <1>2 DEF Auth!StoreToken, Auth!Goto
  <2>2. \A s \in Auth!Tokens \ {t} : Works(s)' => Works(s)
    BY <1>0, <2>1 DEF Works
  <2>3. \A s \in job[r] : ~Works(s)
    BY <2>1 DEF LinksGiveWay
  <2>4. job[r] \in {VerifyTokens, ResetTokens}
    BY <2>1 DEF RequestsHold
  <2>5. ASSUME NEW K \in {VerifyTokens, ResetTokens}, NEW a \in K, NEW b \in K, Works(a)', Works(b)'
        PROVE  a = b
    <3>1. a \in Auth!Tokens /\ b \in Auth!Tokens
      BY DEF Auth!Tokens
    <3>2. CASE t \in K
      <4>1. K = job[r]
        BY <2>1, <2>4, <3>2 DEF Auth!AccountsAssumption
      <4> QED BY <2>2, <2>3, <2>5, <3>1, <4>1
    <3>3. CASE t \notin K
      <4>1. Works(a) /\ Works(b)
        BY <2>2, <2>5, <3>1, <3>3
      <4> QED BY <4>1 DEF LinksGiveWay
    <3> QED BY <3>2, <3>3
  <2>6. ASSUME NEW s \in Requests, rpc'[s] = "store", NEW a \in job'[s] PROVE ~Works(a)'
    <3>1. s # r /\ rpc[s] = "store" /\ a \in job[s] /\ a \in Auth!Tokens
      BY <1>0, <2>1, <2>6 DEF Auth!Tokens
    <3>2. CASE a = t
      <4>1. job[s] = job[r]
        BY <1>0, <2>1, <2>4, <3>1, <3>2 DEF Auth!AccountsAssumption
      <4>2. t \in crossed'
        BY <2>1, <3>1, <4>1
      <4> QED BY <3>2, <4>2 DEF Works
    <3>3. CASE a # t
      BY <2>2, <3>1, <3>3 DEF LinksGiveWay
    <3> QED BY <3>2, <3>3
  <2> QED BY <2>5, <2>6 DEF LinksGiveWay
<1>3. ASSUME NEW r \in Requests, Auth!Answer(r), \A t \in Auth!Tokens : Works(t)' => Works(t)
      PROVE  LinksGiveWay'
  <2>1. \A s \in Requests : rpc'[s] = "store" => rpc[s] = "store" /\ job'[s] = job[s]
    BY <1>3, AnswerTypes
  <2> QED BY <1>3, <2>1, FewerLinksWork
<1>4. ASSUME NEW r \in Requests, Auth!DropResetLinks(r) PROVE LinksGiveWay'
  <2>1. \A t \in Auth!Tokens : Works(t)' => Works(t)
    BY <1>4 DEF Auth!DropResetLinks, Works
  <2> QED BY <1>3, <1>4, <2>1 DEF Auth!DropResetLinks
<1>5. ASSUME NEW r \in Requests, Auth!ConsumeVerificationToken(r) PROVE LinksGiveWay'
  <2>1. link' = [link EXCEPT ![held[r]] = "used"] /\ UNCHANGED crossed /\ Auth!Answer(r)
    BY <1>5 DEF Auth!ConsumeVerificationToken
  <2>2. \A t \in Auth!Tokens : Works(t)' => Works(t)
    BY <1>0, <2>1 DEF Works
  <2> QED BY <1>3, <2>1, <2>2
<1>6. ASSUME NEW r \in Requests, Auth!ConsumePasswordResetToken(r) PROVE LinksGiveWay'
  <2>1. /\ link' = [link EXCEPT ![held[r]] = "used"] /\ rpc' = [rpc EXCEPT ![r] = "password"]
        /\ UNCHANGED <<crossed, job>>
    BY <1>6 DEF Auth!ConsumePasswordResetToken, Auth!Goto
  <2>2. \A t \in Auth!Tokens : Works(t)' => Works(t)
    BY <1>0, <2>1 DEF Works
  <2>3. \A s \in Requests : rpc'[s] = "store" => rpc[s] = "store" /\ job'[s] = job[s]
    BY <1>0, <2>1
  <2> QED BY <2>2, <2>3, FewerLinksWork
<1>7. ASSUME NEW r \in Requests, UNCHANGED <<link, crossed>>, Auth!Answer(r) PROVE LinksGiveWay'
  BY <1>3, <1>7 DEF Works
<1>8. ASSUME UNCHANGED <<link, crossed>>,
             \A s \in Requests : rpc'[s] = "store" => rpc[s] = "store" /\ job'[s] = job[s]
      PROVE  LinksGiveWay'
  BY <1>8, FewerLinksWork DEF Works
<1>9. ASSUME NEW r \in Requests,
             \/ Auth!SendMail(r) \/ Auth!WriteResetPassword(r) \/ Auth!Fail(r)
      PROVE  LinksGiveWay'
  BY <1>7, <1>9 DEF Auth!SendMail, Auth!WriteResetPassword, Auth!Fail
<1>10. ASSUME NEW r \in Requests, NEW K, NEW label \in {"cooldown", "invalidate"},
              Auth!WillSend(r, K, label), UNCHANGED <<link, crossed>>
       PROVE  LinksGiveWay'
  <2>1. rpc' = [rpc EXCEPT ![r] = label] /\ job' = [job EXCEPT ![r] = K]
    BY <1>10 DEF Auth!WillSend, Auth!Goto
  <2>2. \A s \in Requests : rpc'[s] = "store" => rpc[s] = "store" /\ job'[s] = job[s]
    BY <1>0, <2>1
  <2> QED BY <1>8, <1>10, <2>2
<1>11. ASSUME NEW r \in Requests,
              \/ Auth!ResendVerification(r) \/ Auth!RequestPasswordReset(r)
              \/ \E p \in Passwords : Auth!CreateUser(r, p)
       PROVE  LinksGiveWay'
  BY <1>10, <1>11 DEF Auth!ResendVerification, Auth!RequestPasswordReset, Auth!CreateUser
<1>12. ASSUME NEW r \in Requests, Auth!PassCooldown(r) PROVE LinksGiveWay'
  <2>1. UNCHANGED <<link, crossed>>
    BY <1>12 DEF Auth!PassCooldown
  <2>2. CASE Auth!Goto(r, "invalidate") /\ UNCHANGED <<job, held, chosen>>
    <3>1. \A s \in Requests : rpc'[s] = "store" => rpc[s] = "store" /\ job'[s] = job[s]
      BY <1>0, <2>2 DEF Auth!Goto
    <3> QED BY <1>8, <2>1, <3>1
  <2> QED BY <1>7, <1>12, <2>1, <2>2 DEF Auth!PassCooldown
<1>13. ASSUME NEW r \in Requests,
              \/ Auth!UpdatePasswordHash(r) \/ (\E p \in Passwords : Auth!CheckPasswords(r, p))
              \/ \E t \in Auth!Tokens, p \in Passwords : Auth!OpenLink(r, t, p)
       PROVE  LinksGiveWay'
  <2>1. UNCHANGED <<link, crossed, job>>
        /\ \E label \in {"drop", "change", "verify", "reset"} : rpc' = [rpc EXCEPT ![r] = label]
    BY <1>13 DEF Auth!UpdatePasswordHash, Auth!CheckPasswords, Auth!OpenLink, Auth!Goto
  <2>2. \A s \in Requests : rpc'[s] = "store" => rpc[s] = "store" /\ job'[s] = job[s]
    BY <1>0, <2>1
  <2> QED BY <1>8, <2>1, <2>2
<1>14. ASSUME UNCHANGED <<link, crossed, rpc, job>> PROVE LinksGiveWay'
  BY <1>8, <1>14
<1>15. \/ (\E t \in Auth!Tokens : Auth!Cool(t)) \/ (\E p \in Passwords : Auth!Login(p))
       \/ UNCHANGED Auth!accountVars
       => UNCHANGED <<link, crossed, rpc, job>>
  BY DEF Auth!Cool, Auth!Login, Auth!accountVars
<1> QED
  BY <1>1, <1>2, <1>4, <1>5, <1>6, <1>9, <1>11, <1>12, <1>13, <1>14, <1>15
     DEF Auth!Next, Auth!HandleAccounts, Auth!Register, Auth!VerifyEmail, Auth!ResetPassword,
         Auth!ChangePassword, Auth!SendLink

\* What an account's token promised when it was marked is done, or under way, or has failed.
LEMMA UsedLinksStay ==
  ASSUME Auth!AccountsAssumption, Auth!TypeOK, RequestsHold, Auth!UsedLinksCount,
         [Auth!Next]_Auth!accountVars
  PROVE  Auth!UsedLinksCount'
<1> USE DEF Auth!userVars, Auth!links, Auth!request
<1>0. /\ rpc \in [Requests -> Auth!Stages] /\ link \in [Auth!Tokens -> {"none", "active", "invalidated", "used"}]
      /\ held \in [Requests -> Auth!Tokens \cup {NoToken}] /\ VerifyTokens \cap ResetTokens = {}
      /\ user \in {"none", "unverified", "verified"}
  BY DEF Auth!TypeOK, Auth!AccountsAssumption
\* A step that marks no token, changes no verified user and leaves alone who writes a password.
<1>1. ASSUME \A t \in Auth!Tokens : link'[t] = "used" => link[t] = "used",
             user = "verified" => user' = "verified",
             burned \subseteq burned', written \subseteq written',
             \A r \in Requests : rpc[r] = "password" =>
               (rpc'[r] = "password" /\ held'[r] = held[r]) \/ held[r] \in burned' \cup written'
      PROVE  Auth!UsedLinksCount'
  <2> SUFFICES ASSUME NEW t \in Auth!Tokens, link[t] = "used"
               PROVE  IF t \in VerifyTokens THEN user' = "verified"
                      ELSE \/ t \in burned' \cup written'
                           \/ \E r \in Requests : rpc'[r] = "password" /\ held'[r] = t
    BY <1>1 DEF Auth!UsedLinksCount
  <2>1. IF t \in VerifyTokens THEN user = "verified"
        ELSE \/ t \in burned \cup written
             \/ \E r \in Requests : rpc[r] = "password" /\ held[r] = t
    BY DEF Auth!UsedLinksCount
  <2> QED BY <1>1, <2>1
<1>2. ASSUME NEW r \in Requests, Auth!ConsumeVerificationToken(r) PROVE Auth!UsedLinksCount'
  <2>1. /\ rpc[r] = "verify" /\ link' = [link EXCEPT ![held[r]] = "used"] /\ user' = "verified"
        /\ Auth!Answer(r) /\ UNCHANGED <<burned, written>>
    BY <1>2 DEF Auth!ConsumeVerificationToken
  <2>2. held[r] \in VerifyTokens
    BY <2>1 DEF RequestsHold
  <2>3. \A t \in Auth!Tokens : link'[t] = "used" => link[t] = "used" \/ t \in VerifyTokens
    BY <1>0, <2>1, <2>2
  <2>4. \A s \in Requests : rpc[s] = "password" => rpc'[s] = "password" /\ held'[s] = held[s]
    BY <2>1, AnswerTypes
  <2> QED BY <2>1, <2>3, <2>4 DEF Auth!UsedLinksCount
<1>3. ASSUME NEW r \in Requests, Auth!ConsumePasswordResetToken(r) PROVE Auth!UsedLinksCount'
  <2>1. /\ rpc[r] = "reset" /\ link' = [link EXCEPT ![held[r]] = "used"]
        /\ rpc' = [rpc EXCEPT ![r] = "password"] /\ UNCHANGED <<user, held, burned, written>>
    BY <1>3 DEF Auth!ConsumePasswordResetToken, Auth!Goto
  <2>2. rpc'[r] = "password" /\ \A s \in Requests : rpc[s] = "password" => rpc'[s] = "password"
    BY <1>0, <2>1
  <2>3. held[r] \in ResetTokens
    BY <2>1 DEF RequestsHold
  <2>4. \A t \in Auth!Tokens : link'[t] = "used" => link[t] = "used" \/ t = held[r]
    BY <1>0, <2>1
  <2> QED BY <1>0, <2>1, <2>2, <2>3, <2>4 DEF Auth!UsedLinksCount
<1>4. ASSUME NEW r \in Requests, Auth!WriteResetPassword(r) PROVE Auth!UsedLinksCount'
  <2>1. /\ UNCHANGED <<user, link, burned>> /\ written' = written \cup {held[r]} /\ Auth!Answer(r)
    BY <1>4 DEF Auth!WriteResetPassword
  <2>2. \A s \in Requests \ {r} : rpc'[s] = rpc[s] /\ held'[s] = held[s]
    BY <2>1, AnswerTypes
  <2> QED BY <1>1, <2>1, <2>2
<1>5. ASSUME NEW r \in Requests, Auth!Fail(r) PROVE Auth!UsedLinksCount'
  <2>1. /\ UNCHANGED <<user, link, written>> /\ Auth!Answer(r) /\ burned \subseteq burned'
        /\ rpc[r] = "password" => held[r] \in burned'
    BY <1>5 DEF Auth!Fail
  <2>2. \A s \in Requests \ {r} : rpc'[s] = rpc[s] /\ held'[s] = held[s]
    BY <2>1, AnswerTypes
  <2> QED BY <1>1, <2>1, <2>2
<1>6. ASSUME NEW r \in Requests, rpc[r] # "password", Auth!Answer(r),
             \A t \in Auth!Tokens : link'[t] = "used" => link[t] = "used",
             UNCHANGED <<user, burned, written>>
      PROVE  Auth!UsedLinksCount'
  <2>1. \A s \in Requests : rpc[s] = "password" => rpc'[s] = "password" /\ held'[s] = held[s]
    BY <1>6, AnswerTypes
  <2> QED BY <1>1, <1>6, <2>1
<1>7. ASSUME NEW r \in Requests, Auth!DropResetLinks(r) \/ Auth!SendMail(r)
      PROVE  Auth!UsedLinksCount'
  <2>1. /\ rpc[r] # "password" /\ Auth!Answer(r) /\ UNCHANGED <<user, burned, written>>
        /\ \A t \in Auth!Tokens : link'[t] = "used" => link[t] = "used"
    BY <1>7 DEF Auth!DropResetLinks, Auth!SendMail
  <2> QED BY <1>6, <2>1
<1>8. ASSUME NEW r \in Requests, NEW label \in Auth!Stages, rpc[r] # "password", Auth!Goto(r, label),
             \A s \in Requests \ {r} : held'[s] = held[s],
             \A t \in Auth!Tokens : link'[t] = "used" => link[t] = "used",
             user = "verified" => user' = "verified", UNCHANGED <<burned, written>>
      PROVE  Auth!UsedLinksCount'
  <2>1. \A s \in Requests : rpc[s] = "password" => rpc'[s] = "password" /\ held'[s] = held[s]
    BY <1>8, GotoTypes
  <2> QED BY <1>1, <1>8, <2>1
<1>9. /\ {"idle", "cooldown", "invalidate", "store", "mail", "verify", "reset", "password", "change",
          "drop"} = Auth!Stages
  BY DEF Auth!Stages
<1>10. ASSUME NEW r \in Requests,
              \/ Auth!ResendVerification(r) \/ Auth!RequestPasswordReset(r)
              \/ \E p \in Passwords : Auth!CreateUser(r, p)
       PROVE  Auth!UsedLinksCount'
  <2>1. /\ rpc[r] = "idle" /\ (Auth!Goto(r, "cooldown") \/ Auth!Goto(r, "invalidate"))
        /\ UNCHANGED <<held, link, burned, written>> /\ (user = "verified" => user' = "verified")
    BY <1>10 DEF Auth!ResendVerification, Auth!RequestPasswordReset, Auth!CreateUser, Auth!WillSend
  <2> QED BY <1>8, <1>9, <2>1
<1>11. ASSUME NEW r \in Requests, Auth!PassCooldown(r) PROVE Auth!UsedLinksCount'
  <2>1. rpc[r] = "cooldown" /\ UNCHANGED <<user, link, burned, written>>
    BY <1>11 DEF Auth!PassCooldown
  <2>2. CASE Auth!Goto(r, "invalidate") /\ UNCHANGED <<job, held, chosen>>
    BY <1>8, <1>9, <2>1, <2>2
  <2> QED BY <1>6, <1>11, <2>1, <2>2 DEF Auth!PassCooldown
<1>12. ASSUME NEW r \in Requests, Auth!Invalidate(r) PROVE Auth!UsedLinksCount'
  <2>1. /\ rpc[r] = "invalidate" /\ Auth!Goto(r, "store") /\ UNCHANGED <<user, held, burned, written>>
        /\ \A t \in Auth!Tokens : link'[t] = "used" => link[t] = "used"
    BY <1>12 DEF Auth!Invalidate
  <2> QED BY <1>8, <1>9, <2>1
<1>13. ASSUME NEW r \in Requests, NEW t \in Auth!Tokens, Auth!StoreToken(r, t)
       PROVE  Auth!UsedLinksCount'
  <2>1. /\ rpc[r] = "store" /\ Auth!Goto(r, "mail") /\ UNCHANGED <<user, burned, written>>
        /\ link' = [link EXCEPT ![t] = "active"] /\ held' = [held EXCEPT ![r] = t]
    BY <1>13 DEF Auth!StoreToken
  <2>2. /\ \A s \in Requests \ {r} : held'[s] = held[s]
        /\ \A a \in Auth!Tokens : link'[a] = "used" => link[a] = "used"
    BY <1>0, <2>1
  <2> QED BY <1>8, <1>9, <2>1, <2>2
<1>14. ASSUME NEW r \in Requests,
              \/ Auth!UpdatePasswordHash(r) \/ (\E p \in Passwords : Auth!CheckPasswords(r, p))
              \/ \E t \in Auth!Tokens, p \in Passwords : Auth!OpenLink(r, t, p)
       PROVE  Auth!UsedLinksCount'
  <2>1. /\ rpc[r] # "password" /\ UNCHANGED <<user, link, burned, written>>
        /\ \E label \in {"drop", "change", "verify", "reset"} : Auth!Goto(r, label)
    BY <1>14 DEF Auth!UpdatePasswordHash, Auth!CheckPasswords, Auth!OpenLink
  <2>2. \A s \in Requests \ {r} : held'[s] = held[s]
    BY <1>0, <1>14 DEF Auth!UpdatePasswordHash, Auth!CheckPasswords, Auth!OpenLink
  <2> QED BY <1>8, <1>9, <2>1, <2>2
<1>15. ASSUME UNCHANGED <<user, link, rpc, held, burned, written>> PROVE Auth!UsedLinksCount'
  BY <1>1, <1>15
<1>16. \/ (\E t \in Auth!Tokens : Auth!Cool(t)) \/ (\E p \in Passwords : Auth!Login(p))
       \/ UNCHANGED Auth!accountVars
       => UNCHANGED <<user, link, rpc, held, burned, written>>
  BY DEF Auth!Cool, Auth!Login, Auth!accountVars
<1> QED
  BY <1>2, <1>3, <1>4, <1>5, <1>7, <1>10, <1>11, <1>12, <1>13, <1>14, <1>15, <1>16
     DEF Auth!Next, Auth!HandleAccounts, Auth!Register, Auth!VerifyEmail, Auth!ResetPassword,
         Auth!ChangePassword, Auth!SendLink

\* The account's invariant, of which the two properties below are parts.
LEMMA AccountStays ==
  ASSUME Auth!AccountsAssumption, AccountIsSound, [Auth!Next]_Auth!accountVars
  PROVE  AccountIsSound'
  BY AccountTypesStay, HoldStays, LinksStayApart, UsedLinksStay DEF AccountIsSound

\* For any number of tokens, requests at once, mails that get lost and statements that fail: of
\* the mailed links of a kind one works, but for those stored while another was being stored,
\* and a token that is marked as used has verified the address or written the password, or its
\* request is about to or has failed.
THEOREM AccountLinksStaySound == Auth!AccountsAssumption => (Auth!Spec => []Auth!LinksAreSound)
<1> SUFFICES ASSUME Auth!AccountsAssumption PROVE Auth!Spec => []Auth!LinksAreSound
  OBVIOUS
<1>1. Auth!Init => AccountIsSound
  BY AccountAtFirst
<1>2. AccountIsSound /\ [Auth!Next]_Auth!accountVars => AccountIsSound'
  BY AccountStays
<1>3. AccountIsSound => Auth!LinksAreSound
  <2> SUFFICES ASSUME AccountIsSound, NEW K \in {VerifyTokens, ResetTokens}
               PROVE  Auth!Cardinality(Auth!Active(K) \ crossed) <= 1
    BY DEF AccountIsSound, Auth!LinksAreSound, Auth!OneLinkWorks
  <2> DEFINE S == Auth!Active(K) \ crossed
  <2>1. \A t \in S, s \in S : t = s
    BY DEF AccountIsSound, LinksGiveWay, Works, Auth!Active
  <2> HIDE DEF S
  <2>2. Auth!Cardinality(S) = Cardinality(S)
    BY SameCardinality
  <2>3. CASE S = {}
    BY <2>2, <2>3, FS_EmptySet DEF S
  <2>4. CASE S # {}
    <3>1. PICK t \in S : S = {t}
      BY <2>1, <2>4
    <3>2. Cardinality({t}) = 1
      BY FS_Singleton
    <3>3. Auth!Cardinality(S) <= 1
      BY <2>2, <3>1, <3>2
    <3> QED BY <3>3 DEF S
  <2> QED BY <2>3, <2>4
<1> QED BY <1>1, <1>2, <1>3, PTL DEF Auth!Spec

\* The tables of an account and its requests hold only what the service puts there.
THEOREM AccountsAreTyped == Auth!AccountsAssumption => (Auth!Spec => []Auth!TypeOK)
<1> SUFFICES ASSUME Auth!AccountsAssumption PROVE Auth!Spec => []Auth!TypeOK
  OBVIOUS
<1>1. Auth!Init => AccountIsSound
  BY AccountAtFirst
<1>2. AccountIsSound /\ [Auth!Next]_Auth!accountVars => AccountIsSound'
  BY AccountStays
<1>3. AccountIsSound => Auth!TypeOK
  BY DEF AccountIsSound
<1> QED BY <1>1, <1>2, <1>3, PTL DEF Auth!Spec

---------------------------------------------------------------------------
\* The endpoints.

\* Adding less than n to an endpoint and going round.
LEMMA GoingRound ==
  ASSUME NEW n \in Nat \ {0}, NEW a \in 0 .. n - 1, NEW t \in 0 .. n - 1
  PROVE  (a + t) % n = IF a + t < n THEN a + t ELSE a + t - n
<1> DEFINE q == (a + t) \div n
           r == (a + t) % n
<1>1. q \in Int /\ r \in Int /\ a + t = n * q + r /\ 0 <= r /\ r < n
  OBVIOUS
<1> HIDE DEF q, r
<1>2. q < 2
  <2> SUFFICES ASSUME q >= 2 PROVE FALSE
    BY <1>1
  <2>1. n * q >= n * 2
    BY <1>1
  <2> QED BY <1>1, <2>1
<1>3. q > -1
  <2> SUFFICES ASSUME q <= -1 PROVE FALSE
    BY <1>1
  <2>1. n * q <= n * (-1)
    BY <1>1
  <2> QED BY <1>1, <2>1
<1>4. CASE q = 0
  <2>1. n * q = 0
    BY <1>4
  <2> QED BY <1>1, <2>1 DEF r
<1>5. CASE q = 1
  <2>1. n * q = n
    BY <1>5
  <2> QED BY <1>1, <2>1 DEF r
<1> QED BY <1>1, <1>2, <1>3, <1>4, <1>5

\* The endpoint that Call is at after t of them, from the one it begins with.
Point(s, t) == (s + t) % (pool.last + 1)

\* In one round Call comes to each endpoint once.
LEMMA OneRound ==
  ASSUME pool.last \in Nat, NEW s \in Rpc!Endpoints
  PROVE  /\ \A t \in 0 .. pool.last : Point(s, t) \in Rpc!Endpoints
         /\ \A t \in 0 .. pool.last, u \in 0 .. pool.last : Point(s, t) = Point(s, u) => t = u
         /\ \A x \in Rpc!Endpoints : \E t \in 0 .. pool.last : Point(s, t) = x
<1> DEFINE n == pool.last + 1
<1>1. n \in Nat \ {0} /\ s \in 0 .. n - 1 /\ Rpc!Endpoints = 0 .. n - 1 /\ 0 .. pool.last = 0 .. n - 1
  BY DEF Rpc!Endpoints
<1>2. \A t \in 0 .. n - 1 : Point(s, t) = IF s + t < n THEN s + t ELSE s + t - n
  BY <1>1, GoingRound DEF Point
<1> HIDE DEF n
<1>3. \A t \in 0 .. n - 1 : Point(s, t) \in 0 .. n - 1
  BY <1>1, <1>2
<1>4. \A t \in 0 .. n - 1, u \in 0 .. n - 1 : Point(s, t) = Point(s, u) => t = u
  BY <1>1, <1>2
<1>5. ASSUME NEW x \in 0 .. n - 1 PROVE \E t \in 0 .. n - 1 : Point(s, t) = x
  <2>1. CASE x >= s
    <3>1. x - s \in 0 .. n - 1 /\ Point(s, x - s) = x
      BY <1>1, <1>2, <2>1
    <3> QED BY <3>1
  <2>2. CASE x < s
    <3>1. x + n - s \in 0 .. n - 1 /\ Point(s, x + n - s) = x
      BY <1>1, <1>2, <2>2
    <3> QED BY <3>1
  <2> QED BY <1>1, <2>1, <2>2
<1> QED BY <1>1, <1>3, <1>4, <1>5

\* A set of natural numbers that is not empty has a least one.
LEMMA Least ==
  ASSUME NEW T, T \subseteq Nat, T # {}
  PROVE  \E m \in T : \A n \in T : m <= n
<1> DEFINE Below(n) == 0 .. n
           U == {Below(n) : n \in T}
           R == StrictSubsetOrdering(Nat)
<1>1. IsWellFoundedOn(R, FiniteSubsetsOf(Nat))
  BY FS_StrictSubsetOrderingWellFounded, Zenon
<1>2. U \subseteq FiniteSubsetsOf(Nat)
  <2> SUFFICES ASSUME NEW n \in T PROVE Below(n) \in FiniteSubsetsOf(Nat)
    OBVIOUS
  <2>1. n \in Nat
    OBVIOUS
  <2>2. IsFiniteSet(0 .. n) /\ 0 .. n \subseteq Nat
    BY <2>1, FS_Interval
  <2> QED
    BY <2>2 DEF FiniteSubsetsOf
<1>3. U # {}
  OBVIOUS
<1> HIDE DEF U, R
<1>4. PICK u \in U : \A v \in U : <<v, u>> \notin R
  BY <1>1, <1>2, <1>3, WFMin, Zenon
<1>5. PICK m \in T : u = Below(m)
  BY DEF U
<1>6. ASSUME NEW n \in T PROVE m <= n
  <2>1. n \in Nat /\ m \in Nat /\ Below(n) \in U
    BY DEF U
  <2>2. ~(Below(n) \subseteq Below(m) /\ Below(n) # Below(m))
    <3>1. <<Below(n), Below(m)>> \notin R
      BY <1>4, <1>5, <2>1
    <3>2. Below(n) \in SUBSET Nat /\ Below(m) \in SUBSET Nat
      BY <2>1
    <3> HIDE DEF Below
    <3> QED
      BY <3>1, <3>2 DEF R, StrictSubsetOrdering
  <2>3. n < m => m \in Below(m) /\ m \notin Below(n) /\ Below(n) \subseteq Below(m)
    BY <2>1
  <2> QED
    BY <2>1, <2>2, <2>3
<1> QED
  BY <1>6

\* Pool.pick gives an endpoint.
LEMMA PickIsEndpoint ==
  ASSUME pool.last \in Nat
  PROVE  Rpc!Pick \in Rpc!Endpoints
<1> DEFINE usable == {x \in Rpc!Endpoints : ~downUntil[x]}
<1>1. 0 \in Rpc!Endpoints /\ Rpc!Endpoints \subseteq Nat
  BY DEF Rpc!Endpoints
<1>2. usable # {} => \E x \in usable : \A y \in usable : x <= y
  <2> SUFFICES ASSUME usable # {} PROVE \E x \in usable : \A y \in usable : x <= y
    OBVIOUS
  <2>1. usable \subseteq Nat
    BY <1>1
  <2> HIDE DEF usable
  <2> QED BY <2>1, Least
<1>3. usable \subseteq Rpc!Endpoints
  OBVIOUS
<1>4. Rpc!Pick = CASE activeIndex \in usable -> activeIndex
                   [] usable = {} -> 0
                   [] OTHER -> CHOOSE x \in usable : \A y \in usable : x <= y
  BY DEF Rpc!Pick
<1> HIDE DEF usable
<1> QED BY <1>1, <1>2, <1>3, <1>4

\* What a call to the endpoints can be.
PoolCall ==
  [pc : {"idle", "loop", "asked", "refused", "mark", "page", "failed", "reanchor"},
   start : Rpc!Endpoints, tried : 0 .. pool.last + 1, attempt : 1 .. MaxAttempts,
   err : {"none", "down", "transient", "permanent", "cancelled", "reanchor"},
   from : Rpc!Endpoints \cup {-1}, paging : BOOLEAN, cancelled : BOOLEAN, missed : BOOLEAN]

PoolTyped ==
  /\ pool \in Pools
  /\ failures \in [Rpc!Endpoints -> 0 .. 3] /\ downUntil \in [Rpc!Endpoints -> BOOLEAN]
  /\ activeIndex \in Rpc!Endpoints \cup {-1}
  /\ client \in [Clients \cup {Ingester} -> PoolCall]
  /\ cancels \in Nat

\* A call that has an endpoint is within its round.
Pointing ==
  \A c \in Clients \cup {Ingester} :
    client[c].pc \in {"asked", "refused", "mark"} => client[c].tried <= pool.last

PoolSound == PoolTyped /\ Pointing

LEMMA PoolFacts ==
  ASSUME Rpc!EndpointsAssumption, pool \in Pools
  PROVE  /\ pool.last \in Nat /\ pool.healthy \in Rpc!Endpoints
         /\ pool.process \in {"api", "ingest"}
         /\ 0 \in Rpc!Endpoints /\ 0 \in 0 .. pool.last + 1 /\ 1 \in 1 .. MaxAttempts
<1>1. pool \in [process : {"api", "ingest"}, last : Nat, healthy : Nat] /\ pool.healthy <= pool.last
  BY DEF Rpc!EndpointsAssumption
<1>2. 1 \in 1 .. MaxAttempts
  BY DEF Rpc!EndpointsAssumption
<1> QED BY <1>1, <1>2 DEF Rpc!Endpoints

LEMMA PoolAtFirst ==
  ASSUME Rpc!EndpointsAssumption, Rpc!Init
  PROVE  PoolSound
<1>1. pool \in Pools /\ 0 \in Rpc!Endpoints /\ 0 \in 0 .. pool.last + 1 /\ 1 \in 1 .. MaxAttempts
  BY PoolFacts DEF Rpc!Init
<1>2. Rpc!Idle \in PoolCall /\ Rpc!Idle.pc = "idle"
  BY <1>1 DEF Rpc!Idle, PoolCall
<1>3. client \in [Clients \cup {Ingester} -> PoolCall]
  BY <1>2 DEF Rpc!Init
<1>4. Pointing
  BY <1>2 DEF Rpc!Init, Pointing
<1> QED BY <1>1, <1>3, <1>4 DEF Rpc!Init, PoolSound, PoolTyped

\* A step of a call leaves a call in its place.
LEMMA MovedTypes ==
  ASSUME PoolSound, NEW c \in Clients \cup {Ingester}, NEW f \in PoolCall, Rpc!Moved(c, f),
         f.pc \in {"asked", "refused", "mark"} => f.tried <= pool.last,
         pool' = pool
  PROVE  client' \in [Clients \cup {Ingester} -> PoolCall'] /\ Pointing'
<1>1. PoolCall' = PoolCall
  BY DEF PoolCall, Rpc!Endpoints
<1>2. client' = [client EXCEPT ![c] = f] /\ client \in [Clients \cup {Ingester} -> PoolCall]
  BY DEF Rpc!Moved, PoolSound, PoolTyped
<1>3. client' \in [Clients \cup {Ingester} -> PoolCall]
  BY <1>2
<1>4. \A d \in Clients \cup {Ingester} : client'[d] = IF d = c THEN f ELSE client[d]
  BY <1>2
<1>5. Pointing'
  BY <1>4 DEF PoolSound, Pointing
<1> QED BY <1>1, <1>3, <1>5

\* The endpoint a call is at is one of the pool.
LEMMA AtIsEndpoint ==
  ASSUME Rpc!EndpointsAssumption, PoolSound, NEW c \in Clients \cup {Ingester},
         client[c].tried <= pool.last
  PROVE  /\ client[c].tried \in 0 .. pool.last
         /\ Rpc!At(c) = Point(client[c].start, client[c].tried)
         /\ Rpc!At(c) \in Rpc!Endpoints
<1>1. client[c] \in PoolCall /\ pool \in Pools
  BY DEF PoolSound, PoolTyped
<1>2. client[c].start \in Rpc!Endpoints /\ client[c].tried \in 0 .. pool.last + 1
  BY <1>1 DEF PoolCall
<1>3. pool.last \in Nat
  BY <1>1, PoolFacts
<1>4. client[c].tried \in 0 .. pool.last
  BY <1>2, <1>3
<1> QED BY <1>2, <1>3, <1>4, OneRound DEF Rpc!At, Point

\* What Fails does to a call, with either outcome.
LEMMA FailureTypes ==
  ASSUME Rpc!EndpointsAssumption, PoolSound, NEW c \in Clients \cup {Ingester},
         client[c].pc \in {"asked", "refused"},
         NEW e \in {"transient", "permanent", "cancelled", "reanchor"},
         Rpc!Fails(c, e), cancels' \in Nat
  PROVE  PoolSound'
<1>1. client[c] \in PoolCall /\ client[c].tried <= pool.last
  BY DEF PoolSound, PoolTyped, Pointing
<1>2. Rpc!At(c) \in Rpc!Endpoints /\ client[c].tried \in 0 .. pool.last
  BY <1>1, AtIsEndpoint
<1>3. pool.last \in Nat
  BY PoolFacts DEF PoolSound, PoolTyped
<1> DEFINE count == IF failures[Rpc!At(c)] < 3 THEN failures[Rpc!At(c)] + 1 ELSE 3
           f == IF Rpc!IsDown(count) THEN [client[c] EXCEPT !.pc = "mark", !.err = e]
                ELSE [client[c] EXCEPT !.pc = "loop", !.tried = @ + 1, !.err = e]
<1>4. failures' = [failures EXCEPT ![Rpc!At(c)] = count] /\ Rpc!Moved(c, f)
      /\ pool' = pool /\ downUntil' = downUntil /\ activeIndex' = activeIndex
  BY DEF Rpc!Fails
<1>5. count \in 0 .. 3
  BY <1>2 DEF PoolSound, PoolTyped
<1>6. f \in PoolCall /\ (f.pc \in {"asked", "refused", "mark"} => f.tried <= pool.last)
  <2>1. [client[c] EXCEPT !.pc = "mark", !.err = e] \in PoolCall
    BY <1>1 DEF PoolCall
  <2>2. [client[c] EXCEPT !.pc = "loop", !.tried = @ + 1, !.err = e] \in PoolCall
    <3>1. client[c].tried + 1 \in 0 .. pool.last + 1
      BY <1>2, <1>3
    <3> QED BY <1>1, <3>1 DEF PoolCall
  <2>3. [client[c] EXCEPT !.pc = "mark", !.err = e].tried = client[c].tried
        /\ [client[c] EXCEPT !.pc = "loop", !.tried = @ + 1, !.err = e].pc = "loop"
    BY <1>1 DEF PoolCall
  <2> QED BY <1>1, <2>1, <2>2, <2>3
<1> HIDE DEF f, count
<1>7. client' \in [Clients \cup {Ingester} -> PoolCall'] /\ Pointing'
  BY <1>4, <1>6, MovedTypes
<1>8. failures' \in [Rpc!Endpoints -> 0 .. 3]
  BY <1>4, <1>5 DEF PoolSound, PoolTyped
<1> QED BY <1>4, <1>7, <1>8 DEF PoolSound, PoolTyped, Rpc!Endpoints

\* A step of a call that leaves what the endpoints are known for.
LEMMA CallTypes ==
  ASSUME PoolSound, NEW c \in Clients \cup {Ingester}, NEW f, f \in PoolCall, Rpc!Moved(c, f),
         f.pc \in {"asked", "refused", "mark"} => f.tried <= pool.last,
         pool' = pool, failures' = failures, activeIndex' = activeIndex,
         downUntil' \in [Rpc!Endpoints -> BOOLEAN], cancels' \in Nat
  PROVE  PoolSound'
<1>1. client' \in [Clients \cup {Ingester} -> PoolCall'] /\ Pointing'
  BY MovedTypes
<1> QED BY <1>1 DEF PoolSound, PoolTyped, Rpc!Endpoints

LEMMA PoolTypesStay ==
  ASSUME Rpc!EndpointsAssumption, PoolSound, [Rpc!Next]_Rpc!poolVars
  PROVE  PoolSound'
<1>1. pool \in Pools /\ client \in [Clients \cup {Ingester} -> PoolCall] /\ cancels \in Nat
      /\ downUntil \in [Rpc!Endpoints -> BOOLEAN]
      /\ failures \in [Rpc!Endpoints -> 0 .. 3] /\ activeIndex \in Rpc!Endpoints \cup {-1}
  BY DEF PoolSound, PoolTyped
<1>2. pool.last \in Nat /\ 0 \in 0 .. pool.last + 1 /\ 0 \in Rpc!Endpoints /\ 1 \in 1 .. MaxAttempts
  BY <1>1, PoolFacts
<1>3. Rpc!Pick \in Rpc!Endpoints
  BY <1>2, PickIsEndpoint
<1>4. Rpc!Running \subseteq Clients \cup {Ingester}
  BY DEF Rpc!Running
<1>5. Rpc!Idle \in PoolCall
  BY <1>2 DEF Rpc!Idle, PoolCall
<1>6. ASSUME NEW c \in Rpc!Running,
             \/ Rpc!Begin(c) \/ Rpc!NextPage(c) \/ Rpc!Skip(c) \/ Rpc!Ask(c)
             \/ Rpc!Answer(c) \/ \E e \in {"transient", "permanent"} : Rpc!AnswerError(c, e)
             \/ Rpc!Refuse(c) \/ Rpc!CutShort(c) \/ Rpc!MarkDown(c) \/ Rpc!Retry(c)
             \/ Rpc!GiveUp(c) \/ Rpc!Cancel(c)
      PROVE  PoolSound'
  <2>1. c \in Clients \cup {Ingester} /\ client[c] \in PoolCall
    BY <1>1, <1>4
  <2>2. CASE Rpc!Begin(c)
    <3> DEFINE f == [Rpc!Idle EXCEPT !.pc = "loop", !.start = Rpc!Pick,
                        !.from = IF pool.process = "ingest" THEN activeIndex ELSE -1]
    <3>1. f \in PoolCall /\ f.pc = "loop"
      BY <1>1, <1>3, <1>5 DEF PoolCall
    <3>2. Rpc!Moved(c, f) /\ UNCHANGED <<pool, failures, downUntil, activeIndex, cancels>>
      BY <2>2 DEF Rpc!Begin
    <3> HIDE DEF f
    <3> QED BY <1>1, <2>1, <3>1, <3>2, CallTypes
  <2>3. CASE Rpc!NextPage(c)
    <3> DEFINE f == [Rpc!Idle EXCEPT !.pc = "loop", !.start = Rpc!Pick,
                        !.from = client[c].from, !.paging = TRUE]
    <3>1. f \in PoolCall /\ f.pc = "loop"
      BY <1>1, <1>3, <1>5, <2>1 DEF PoolCall
    <3>2. Rpc!Moved(c, f) /\ UNCHANGED <<pool, failures, downUntil, activeIndex, cancels>>
      BY <2>3 DEF Rpc!NextPage
    <3> HIDE DEF f
    <3> QED BY <1>1, <2>1, <3>1, <3>2, CallTypes
  <2>4. CASE Rpc!Skip(c)
    <3> DEFINE f == [client[c] EXCEPT !.tried = @ + 1, !.err = "down",
                        !.missed = @ \/ Rpc!At(c) = pool.healthy]
    <3>1. client[c].pc = "loop" /\ client[c].tried <= pool.last
          /\ Rpc!Moved(c, f) /\ UNCHANGED <<pool, failures, downUntil, activeIndex, cancels>>
      BY <2>4 DEF Rpc!Skip, Rpc!Untried
    <3>2. client[c].tried + 1 \in 0 .. pool.last + 1
      BY <1>2, <2>1, <3>1 DEF PoolCall
    <3>3. (client[c].missed \/ Rpc!At(c) = pool.healthy) \in BOOLEAN
      OBVIOUS
    <3>4. f \in PoolCall /\ f.pc = "loop"
      BY <2>1, <3>1, <3>2, <3>3 DEF PoolCall
    <3> HIDE DEF f
    <3> QED BY <1>1, <2>1, <3>1, <3>4, CallTypes
  <2>5. CASE Rpc!Ask(c)
    <3> DEFINE f == [client[c] EXCEPT !.pc = IF Rpc!MustReanchor(c) THEN "refused" ELSE "asked"]
    <3>1. client[c].tried <= pool.last
          /\ Rpc!Moved(c, f) /\ UNCHANGED <<pool, failures, downUntil, activeIndex, cancels>>
      BY <2>5 DEF Rpc!Ask, Rpc!Untried
    <3>2. f \in PoolCall /\ f.tried = client[c].tried
      BY <2>1 DEF PoolCall
    <3> HIDE DEF f
    <3> QED BY <1>1, <2>1, <3>1, <3>2, CallTypes
  <2>6. CASE Rpc!Answer(c)
    <3> DEFINE f == [Rpc!Idle EXCEPT !.pc = "page", !.from = client[c].from]
    <3>1. /\ client[c].pc = "asked" /\ Rpc!Moved(c, f) /\ pool' = pool /\ downUntil' = downUntil
          /\ cancels' = cancels
          /\ failures' = [failures EXCEPT ![Rpc!At(c)] = 0] /\ activeIndex' = Rpc!At(c)
      BY <2>6 DEF Rpc!Answer
    <3>2. f \in PoolCall /\ f.pc = "page"
      BY <1>5, <2>1 DEF PoolCall
    <3>3. Rpc!At(c) \in Rpc!Endpoints
      BY <2>1, <3>1, AtIsEndpoint DEF PoolSound, Pointing
    <3> HIDE DEF f
    <3>4. client' \in [Clients \cup {Ingester} -> PoolCall'] /\ Pointing'
      BY <2>1, <3>1, <3>2, MovedTypes
    <3>5. failures' \in [Rpc!Endpoints -> 0 .. 3]
      <4>1. failures' = [failures EXCEPT ![Rpc!At(c)] = 0] /\ 0 \in 0 .. 3
        BY <3>1
      <4> QED BY <1>1, <4>1, Zenon
    <3> QED BY <1>1, <3>1, <3>3, <3>4, <3>5 DEF PoolSound, PoolTyped, Rpc!Endpoints
  <2>7. CASE \E e \in {"transient", "permanent"} : Rpc!AnswerError(c, e)
    <3>1. PICK e \in {"transient", "permanent"} : Rpc!AnswerError(c, e)
      BY <2>7
    <3>2. client[c].pc = "asked" /\ Rpc!Fails(c, e) /\ cancels' \in Nat
      BY <1>1, <3>1 DEF Rpc!AnswerError
    <3> QED BY <2>1, <3>2, FailureTypes
  <2>8. CASE Rpc!Refuse(c)
    <3>1. client[c].pc = "refused" /\ Rpc!Fails(c, "reanchor") /\ cancels' \in Nat
      BY <1>1, <2>8 DEF Rpc!Refuse
    <3> QED BY <2>1, <3>1, FailureTypes
  <2>9. CASE Rpc!CutShort(c)
    <3>1. client[c].pc = "asked" /\ Rpc!Fails(c, "cancelled") /\ cancels' \in Nat
      BY <1>1, <2>9 DEF Rpc!CutShort
    <3> QED BY <2>1, <3>1, FailureTypes
  <2>10. CASE Rpc!MarkDown(c)
    <3> DEFINE f == [client[c] EXCEPT !.pc = "loop", !.tried = @ + 1]
    <3>1. /\ client[c].pc = "mark" /\ Rpc!Moved(c, f)
          /\ UNCHANGED <<pool, failures, activeIndex, cancels>>
          /\ downUntil' = [downUntil EXCEPT ![Rpc!At(c)] = TRUE]
      BY <2>10 DEF Rpc!MarkDown
    <3>2. client[c].tried + 1 \in 0 .. pool.last + 1
      BY <1>2, <2>1, <3>1 DEF PoolSound, Pointing, PoolCall
    <3>3. f \in PoolCall /\ f.pc = "loop"
      BY <2>1, <3>2 DEF PoolCall
    <3>4. downUntil' \in [Rpc!Endpoints -> BOOLEAN]
      BY <1>1, <3>1
    <3> HIDE DEF f
    <3> QED BY <1>1, <2>1, <3>1, <3>3, <3>4, CallTypes
  <2>11. CASE Rpc!Retry(c)
    <3> DEFINE f == [client[c] EXCEPT !.start = Rpc!Pick, !.tried = 0, !.attempt = @ + 1]
    <3>1. client[c].pc = "loop" /\ client[c].attempt < MaxAttempts
          /\ Rpc!Moved(c, f) /\ UNCHANGED <<pool, failures, downUntil, activeIndex, cancels>>
      BY <2>11 DEF Rpc!Retry, Rpc!Exhausted
    <3>2. client[c].attempt + 1 \in 1 .. MaxAttempts
      BY <2>1, <3>1 DEF PoolCall, Rpc!EndpointsAssumption
    <3>3. f \in PoolCall /\ f.pc = "loop"
      BY <1>2, <1>3, <2>1, <3>1, <3>2 DEF PoolCall
    <3> HIDE DEF f
    <3> QED BY <1>1, <2>1, <3>1, <3>3, CallTypes
  <2>12. CASE Rpc!GiveUp(c)
    <3> DEFINE f == [Rpc!Idle EXCEPT !.pc = IF client[c].err = "reanchor" THEN "reanchor" ELSE "failed",
                        !.cancelled = client[c].cancelled, !.missed = client[c].missed]
    <3>1. Rpc!Moved(c, f) /\ UNCHANGED <<pool, failures, downUntil, activeIndex, cancels>>
      BY <2>12 DEF Rpc!GiveUp
    <3>2. f \in PoolCall /\ f.pc \in {"reanchor", "failed"}
      BY <1>5, <2>1 DEF PoolCall
    <3> HIDE DEF f
    <3> QED BY <1>1, <2>1, <3>1, <3>2, CallTypes
  <2>13. CASE Rpc!Cancel(c)
    <3> DEFINE f == [client[c] EXCEPT !.cancelled = TRUE]
    <3>1. Rpc!Moved(c, f) /\ UNCHANGED <<pool, failures, downUntil, activeIndex>>
          /\ cancels' = cancels + 1
      BY <2>13 DEF Rpc!Cancel
    <3>2. f \in PoolCall /\ f.pc = client[c].pc /\ f.tried = client[c].tried
      BY <2>1 DEF PoolCall
    <3>3. f.pc \in {"asked", "refused", "mark"} => f.tried <= pool.last
      BY <2>1, <3>2 DEF PoolSound, Pointing
    <3> HIDE DEF f
    <3> QED BY <1>1, <2>1, <3>1, <3>2, <3>3, CallTypes
  <2> QED
    BY <1>6, <2>2, <2>3, <2>4, <2>5, <2>6, <2>7, <2>8, <2>9, <2>10, <2>11, <2>12, <2>13
<1>7. ASSUME NEW x \in Rpc!Endpoints, Rpc!Recover(x) PROVE PoolSound'
  <2>1. downUntil' \in [Rpc!Endpoints -> BOOLEAN]
    BY <1>1, <1>7 DEF Rpc!Recover
  <2> QED
    BY <1>7, <2>1
    DEF Rpc!Recover, PoolSound, PoolTyped, Pointing, PoolCall, Rpc!Endpoints
<1>8. CASE UNCHANGED Rpc!poolVars
  BY <1>8 DEF Rpc!poolVars, PoolSound, PoolTyped, Pointing, PoolCall, Rpc!Endpoints
<1> QED
  BY <1>6, <1>7, <1>8 DEF Rpc!Next

\* The pool and the calls have the types that EndpointPool gives them, for any pools, requests
\* and attempts.
THEOREM PoolsAreTyped == Rpc!EndpointsAssumption => (Rpc!Spec => []Rpc!TypeOK)
<1> SUFFICES ASSUME Rpc!EndpointsAssumption PROVE Rpc!Spec => []Rpc!TypeOK
  OBVIOUS
<1>1. Rpc!Init => PoolSound
  BY PoolAtFirst
<1>2. PoolSound /\ [Rpc!Next]_Rpc!poolVars => PoolSound'
  BY PoolTypesStay
<1>3. PoolSound => Rpc!TypeOK
  BY DEF PoolSound, PoolTyped, PoolCall, Rpc!TypeOK
<1> QED
  BY <1>1, <1>2, <1>3, PTL DEF Rpc!Spec

---------------------------------------------------------------------------
\* The requests of the API and the endpoint that answers.

\* The next endpoint of its round a call comes to, and whether the healthy one is still to come.
Beyond(c) == IF client[c].pc = "mark" THEN client[c].tried + 1 ELSE client[c].tried

Ahead(c) == \E t \in 0 .. pool.last : Beyond(c) <= t /\ Point(client[c].start, t) = pool.healthy

Busy(c) == client[c].pc \in {"loop", "asked", "mark"}

\* The cancelled requests that may yet fail at the healthy endpoint.
Doomed == {c \in Clients : client[c].cancelled /\ Busy(c) /\ Ahead(c)}

\* Each failure of the healthy endpoint is a cancelled request that has passed it.
Blamed ==
  pool.process = "api" =>
    IsFiniteSet(Doomed) /\ failures[pool.healthy] + Cardinality(Doomed) <= cancels

\* A request asks for one page, and one that goes on without the healthy endpoint was cancelled
\* or found it marked.
OneRequest(c) ==
  /\ ~client[c].paging /\ client[c].pc # "refused"
  /\ Busy(c) => Ahead(c) \/ client[c].cancelled \/ client[c].missed
  /\ client[c].pc = "mark" /\ Rpc!At(c) = pool.healthy => cancels >= 3
  /\ client[c].pc = "failed" => client[c].cancelled \/ client[c].missed

Requested == pool.process = "api" => \A c \in Clients : OneRequest(c)

Marked == pool.process = "api" => (downUntil[pool.healthy] => cancels >= 3)

RequestsSound == Blamed /\ Requested /\ Marked

\* Before a round begins every endpoint is ahead of it.
LEMMA AheadAtFirst ==
  ASSUME Rpc!EndpointsAssumption, PoolSound, NEW s \in Rpc!Endpoints
  PROVE  \E t \in 0 .. pool.last : 0 <= t /\ Point(s, t) = pool.healthy
<1>1. pool.last \in Nat /\ pool.healthy \in Rpc!Endpoints
  BY PoolFacts DEF PoolSound, PoolTyped
<1>2. \E t \in 0 .. pool.last : Point(s, t) = pool.healthy
  BY <1>1, OneRound
<1> QED BY <1>1, <1>2

\* A call that has been at the healthy endpoint does not come to it again in that round, and
\* one that has been at another still comes to it.
LEMMA PassedBy ==
  ASSUME Rpc!EndpointsAssumption, PoolSound, NEW c \in Clients \cup {Ingester},
         client[c].tried <= pool.last,
         NEW n, n = client[c].tried + 1
  PROVE  LET Later == \E t \in 0 .. pool.last :
                        n <= t /\ Point(client[c].start, t) = pool.healthy
             Yet == \E t \in 0 .. pool.last :
                      client[c].tried <= t /\ Point(client[c].start, t) = pool.healthy
         IN  /\ Rpc!At(c) = pool.healthy => Yet /\ ~Later
             /\ Rpc!At(c) # pool.healthy => (Later <=> Yet)
<1>1. pool.last \in Nat /\ client[c] \in PoolCall
  BY PoolFacts DEF PoolSound, PoolTyped
<1>2. client[c].start \in Rpc!Endpoints
  BY <1>1 DEF PoolCall
<1>3. client[c].tried \in 0 .. pool.last /\ Rpc!At(c) = Point(client[c].start, client[c].tried)
  BY AtIsEndpoint
<1> DEFINE s == client[c].start
           k == client[c].tried
<1>4. \A t \in 0 .. pool.last, u \in 0 .. pool.last : Point(s, t) = Point(s, u) => t = u
  BY <1>1, <1>2, OneRound
<1>5. k \in 0 .. pool.last /\ Rpc!At(c) = Point(s, k) /\ n = k + 1
  BY <1>3
<1> SUFFICES /\ Rpc!At(c) = pool.healthy =>
                  /\ \E t \in 0 .. pool.last : k <= t /\ Point(s, t) = pool.healthy
                  /\ ~ \E t \in 0 .. pool.last : n <= t /\ Point(s, t) = pool.healthy
             /\ Rpc!At(c) # pool.healthy =>
                  ((\E t \in 0 .. pool.last : n <= t /\ Point(s, t) = pool.healthy)
                   <=> (\E t \in 0 .. pool.last : k <= t /\ Point(s, t) = pool.healthy))
  OBVIOUS
<1> HIDE DEF s, k
<1>6. ASSUME Rpc!At(c) = pool.healthy
      PROVE  /\ \E t \in 0 .. pool.last : k <= t /\ Point(s, t) = pool.healthy
             /\ ~ \E t \in 0 .. pool.last : n <= t /\ Point(s, t) = pool.healthy
  <2>1. k <= k /\ Point(s, k) = pool.healthy
    BY <1>5, <1>6
  <2>2. ASSUME NEW t \in 0 .. pool.last, n <= t, Point(s, t) = pool.healthy PROVE FALSE
    <3>1. t = k
      BY <1>4, <1>5, <1>6, <2>2
    <3> QED BY <1>5, <2>2, <3>1
  <2> QED BY <1>5, <2>1, <2>2
<1>7. ASSUME Rpc!At(c) # pool.healthy, NEW t \in 0 .. pool.last, Point(s, t) = pool.healthy
      PROVE  n <= t <=> k <= t
  <2>1. t # k
    BY <1>5, <1>7
  <2> QED BY <1>5, <2>1
<1> QED BY <1>6, <1>7

\* How the failures of the healthy endpoint and the cancelled requests still to come keep
\* within the requests that were cancelled.
LEMMA BlameStays ==
  ASSUME NEW S, IsFiniteSet(S), NEW f \in Nat, NEW k \in Nat, f + Cardinality(S) <= k,
         NEW T, NEW g \in Nat, NEW m \in Nat, NEW c,
         \/ T \subseteq S /\ g <= f /\ m = k
         \/ T \subseteq S \ {c} /\ c \in S /\ g <= f + 1 /\ m = k
         \/ T \subseteq S \cup {c} /\ g <= f /\ m = k + 1
  PROVE  IsFiniteSet(T) /\ g + Cardinality(T) <= m
<1>1. Cardinality(S) \in Nat
  BY FS_CardinalityType
<1>2. CASE T \subseteq S /\ g <= f /\ m = k
  <2>1. IsFiniteSet(T) /\ Cardinality(T) <= Cardinality(S) /\ Cardinality(T) \in Nat
    BY <1>2, FS_Subset, FS_CardinalityType
  <2> QED BY <1>1, <1>2, <2>1
<1>3. CASE T \subseteq S \ {c} /\ c \in S /\ g <= f + 1 /\ m = k
  <2>1. IsFiniteSet(S \ {c}) /\ Cardinality(S \ {c}) = Cardinality(S) - 1
    BY <1>3, FS_RemoveElement
  <2>2. IsFiniteSet(T) /\ Cardinality(T) <= Cardinality(S \ {c}) /\ Cardinality(T) \in Nat
    BY <1>3, <2>1, FS_Subset, FS_CardinalityType
  <2> QED BY <1>1, <1>3, <2>1, <2>2
<1>4. CASE T \subseteq S \cup {c} /\ g <= f /\ m = k + 1
  <2>1. IsFiniteSet(S \cup {c}) /\ Cardinality(S \cup {c}) <= Cardinality(S) + 1
    <3>1. IsFiniteSet(S \cup {c})
          /\ (Cardinality(S \cup {c}) = Cardinality(S) \/ Cardinality(S \cup {c}) = Cardinality(S) + 1)
      BY FS_AddElement
    <3> QED BY <1>1, <3>1
  <2>2. IsFiniteSet(T) /\ Cardinality(T) <= Cardinality(S \cup {c}) /\ Cardinality(T) \in Nat
        /\ Cardinality(S \cup {c}) \in Nat
    BY <1>4, <2>1, FS_Subset, FS_CardinalityType
  <2> QED BY <1>1, <1>4, <2>1, <2>2
<1> QED BY <1>2, <1>3, <1>4

\* A step of one request leaves the others as they are.
LEMMA RequestMoves ==
  ASSUME PoolSound, PoolSound', RequestsSound, pool.process = "api",
         pool.healthy \in Rpc!Endpoints,
         NEW c \in Clients, NEW f \in PoolCall, Rpc!Moved(c, f),
         pool' = pool, cancels <= cancels',
         OneRequest(c)',
         downUntil'[pool.healthy] => cancels' >= 3,
         \/ (c \in Doomed' => c \in Doomed) /\ failures'[pool.healthy] <= failures[pool.healthy]
              /\ cancels' = cancels
         \/ c \in Doomed /\ c \notin Doomed' /\ failures'[pool.healthy] <= failures[pool.healthy] + 1
              /\ cancels' = cancels
         \/ cancels' = cancels + 1 /\ failures'[pool.healthy] <= failures[pool.healthy]
  PROVE  RequestsSound'
<1>1. client \in [Clients \cup {Ingester} -> PoolCall] /\ client' = [client EXCEPT ![c] = f]
      /\ cancels \in Nat /\ cancels' \in Nat
  BY DEF PoolSound, PoolTyped, Rpc!Moved
<1>2. failures[pool.healthy] \in Nat /\ failures'[pool.healthy] \in Nat
  <2>1. failures \in [Rpc!Endpoints -> 0 .. 3] /\ failures' \in [Rpc!Endpoints -> 0 .. 3]
    BY DEF PoolSound, PoolTyped, Rpc!Endpoints
  <2> QED BY <2>1
<1>3. ASSUME NEW d \in Clients, d # c
      PROVE  client'[d] = client[d]
  BY <1>1, <1>3
<1>4. ASSUME NEW d \in Clients, d # c
      PROVE  (d \in Doomed' <=> d \in Doomed) /\ (OneRequest(d) => OneRequest(d)')
  <2>1. client'[d] = client[d]
    BY <1>3, <1>4
  <2>2. (Ahead(d)' <=> Ahead(d)) /\ (Busy(d)' <=> Busy(d)) /\ Rpc!At(d)' = Rpc!At(d)
    BY <2>1 DEF Ahead, Beyond, Busy, Point, Rpc!At
  <2>3. d \in Doomed' <=> d \in Doomed
    BY <2>1, <2>2 DEF Doomed
  <2>4. cancels >= 3 => cancels' >= 3
    BY <1>1
  <2> QED BY <2>1, <2>2, <2>3, <2>4 DEF OneRequest
<1>5. Requested'
  BY <1>4 DEF Requested, RequestsSound
<1>6. Doomed' \subseteq Clients /\ Doomed \subseteq Clients
  BY DEF Doomed
<1>7. IsFiniteSet(Doomed') /\ failures'[pool.healthy] + Cardinality(Doomed') <= cancels'
  <2>1. IsFiniteSet(Doomed) /\ failures[pool.healthy] + Cardinality(Doomed) <= cancels
    BY DEF RequestsSound, Blamed
  <2>2. \/ Doomed' \subseteq Doomed /\ failures'[pool.healthy] <= failures[pool.healthy]
             /\ cancels' = cancels
        \/ Doomed' \subseteq Doomed \ {c} /\ c \in Doomed
             /\ failures'[pool.healthy] <= failures[pool.healthy] + 1 /\ cancels' = cancels
        \/ Doomed' \subseteq Doomed \cup {c} /\ failures'[pool.healthy] <= failures[pool.healthy]
             /\ cancels' = cancels + 1
    <3>1. ASSUME NEW d \in Doomed' PROVE d = c \/ d \in Doomed
      BY <1>4, <1>6
    <3> QED BY <3>1
  <2> DEFINE S == Doomed
             T == Doomed'
             u == failures[pool.healthy]
             v == failures'[pool.healthy]
  <2>3. IsFiniteSet(S) /\ u \in Nat /\ v \in Nat /\ u + Cardinality(S) <= cancels
    BY <1>2, <2>1
  <2>4. \/ T \subseteq S /\ v <= u /\ cancels' = cancels
        \/ T \subseteq S \ {c} /\ c \in S /\ v <= u + 1 /\ cancels' = cancels
        \/ T \subseteq S \cup {c} /\ v <= u /\ cancels' = cancels + 1
    BY <2>2
  <2> HIDE DEF S, T, u, v
  <2>5. IsFiniteSet(T) /\ v + Cardinality(T) <= cancels'
    BY <1>1, <2>3, <2>4, BlameStays
  <2> QED BY <2>5 DEF T, v
<1>8. Blamed' /\ Marked'
  BY <1>7 DEF Blamed, Marked
<1> QED BY <1>5, <1>8 DEF RequestsSound

\* What is still ahead of a request after a step: everything, or what comes after the
\* endpoint it was at, or what was.
LEMMA AheadThen ==
  ASSUME PoolSound, NEW c \in Clients, NEW f \in PoolCall, Rpc!Moved(c, f), pool' = pool
  PROVE  /\ client'[c] = f
         /\ Ahead(c)' <=> \E t \in 0 .. pool.last :
              (IF f.pc = "mark" THEN f.tried + 1 ELSE f.tried) <= t /\ Point(f.start, t) = pool.healthy
         /\ Busy(c)' <=> f.pc \in {"loop", "asked", "mark"}
         /\ c \in Doomed' <=> f.cancelled /\ Busy(c)' /\ Ahead(c)'
         /\ Rpc!At(c)' = Point(f.start, f.tried)
<1>1. client \in [Clients \cup {Ingester} -> PoolCall] /\ client' = [client EXCEPT ![c] = f]
  BY DEF PoolSound, PoolTyped, Rpc!Moved
<1>2. client'[c] = f
  BY <1>1
<1> QED BY <1>2 DEF Ahead, Beyond, Busy, Doomed, Point, Rpc!At

\* A failure that is not of the healthy endpoint, or of a cancelled request.
LEMMA FailureIsBlamed ==
  ASSUME Rpc!EndpointsAssumption, PoolSound, PoolSound', RequestsSound, pool.process = "api",
         NEW c \in Clients, client[c].pc = "asked",
         Rpc!At(c) # pool.healthy \/ client[c].cancelled,
         NEW e \in {"transient", "permanent", "cancelled", "reanchor"},
         Rpc!Fails(c, e), cancels' = cancels
  PROVE  RequestsSound'
<1> DEFINE h == pool.healthy
           count == IF failures[Rpc!At(c)] < 3 THEN failures[Rpc!At(c)] + 1 ELSE 3
           f == IF Rpc!IsDown(count) THEN [client[c] EXCEPT !.pc = "mark", !.err = e]
                ELSE [client[c] EXCEPT !.pc = "loop", !.tried = @ + 1, !.err = e]
           n == client[c].tried + 1
           Later == \E t \in 0 .. pool.last : n <= t /\ Point(client[c].start, t) = h
           Yet == \E t \in 0 .. pool.last : client[c].tried <= t /\ Point(client[c].start, t) = h
<1>1. /\ client[c] \in PoolCall /\ client[c].tried <= pool.last /\ cancels \in Nat
      /\ failures \in [Rpc!Endpoints -> 0 .. 3] /\ h \in Rpc!Endpoints /\ pool.last \in Nat
  BY PoolFacts DEF PoolSound, PoolTyped, Pointing
<1>2. /\ Rpc!At(c) \in Rpc!Endpoints /\ Rpc!At(c) = Point(client[c].start, client[c].tried)
      /\ client[c].tried \in 0 .. pool.last
  BY <1>1, AtIsEndpoint
<1>3. failures' = [failures EXCEPT ![Rpc!At(c)] = count] /\ Rpc!Moved(c, f)
      /\ pool' = pool /\ downUntil' = downUntil
  BY DEF Rpc!Fails
<1>4. /\ f.start = client[c].start /\ f.cancelled = client[c].cancelled
      /\ f.missed = client[c].missed /\ f.paging = client[c].paging
      /\ \/ f.pc = "mark" /\ f.tried = client[c].tried /\ count >= 3
         \/ f.pc = "loop" /\ f.tried = n
  <2>1. Rpc!IsDown(count) => count >= 3
    BY DEF Rpc!IsDown
  <2> HIDE DEF count
  <2>2. CASE Rpc!IsDown(count)
    BY <1>1, <2>1, <2>2 DEF PoolCall
  <2>3. CASE ~Rpc!IsDown(count)
    BY <1>1, <2>3 DEF PoolCall
  <2> QED BY <2>2, <2>3
<1>5. f \in PoolCall
  <2>1. n \in 0 .. pool.last + 1
    BY <1>1, <1>2
  <2>2. [client[c] EXCEPT !.pc = "mark", !.err = e] \in PoolCall
    BY <1>1 DEF PoolCall
  <2>3. [client[c] EXCEPT !.pc = "loop", !.tried = @ + 1, !.err = e] \in PoolCall
    BY <1>1, <2>1 DEF PoolCall
  <2> HIDE DEF count
  <2> QED BY <2>2, <2>3
<1> HIDE DEF f
<1>6. /\ client'[c] = f /\ (Ahead(c)' <=> Later) /\ Busy(c)'
      /\ (c \in Doomed' <=> client[c].cancelled /\ Later)
      /\ (f.pc = "mark" => Rpc!At(c)' = Rpc!At(c))
  BY <1>2, <1>3, <1>4, <1>5, AheadThen
<1>7. (Ahead(c) <=> Yet) /\ Busy(c) /\ (c \in Doomed <=> client[c].cancelled /\ Yet)
  BY DEF Ahead, Beyond, Busy, Doomed
<1>8. (Rpc!At(c) = h => Yet /\ ~Later) /\ (Rpc!At(c) # h => (Later <=> Yet))
  BY <1>1, PassedBy
<1> HIDE DEF Later, Yet
<1>9. failures'[h] <= failures[h] + 1 /\ (Rpc!At(c) # h => failures'[h] = failures[h])
      /\ count <= failures[Rpc!At(c)] + 1
  BY <1>1, <1>2, <1>3
<1> HIDE DEF count
<1>10. Rpc!At(c) = h /\ count >= 3 => cancels >= 3
  <2> SUFFICES ASSUME Rpc!At(c) = h, count >= 3 PROVE cancels >= 3
    OBVIOUS
  <2>1. c \in Doomed
    BY <1>7, <1>8
  <2>2. IsFiniteSet(Doomed) /\ failures[h] + Cardinality(Doomed) <= cancels
    BY DEF RequestsSound, Blamed
  <2> HIDE DEF Doomed
  <2>3. Cardinality(Doomed) \in Nat /\ Cardinality(Doomed) # 0
    BY <2>1, <2>2, FS_CardinalityType, FS_EmptySet
  <2>4. failures[h] \in Nat /\ count <= failures[h] + 1
    BY <1>1, <1>9
  <2>5. count \in Nat
    BY <1>1, <1>2 DEF count
  <2> QED BY <1>1, <2>2, <2>3, <2>4, <2>5
<1>11. OneRequest(c)
  BY DEF RequestsSound, Requested
<1>12. OneRequest(c)'
  <2>1. ~f.paging
    BY <1>4, <1>11 DEF OneRequest
  <2>2. Ahead(c)' \/ f.cancelled \/ f.missed
    BY <1>4, <1>6, <1>7, <1>8, <1>11 DEF OneRequest
  <2>3. f.pc = "mark" /\ Rpc!At(c)' = h => cancels >= 3
    BY <1>4, <1>6, <1>10
  <2>4. f.pc \notin {"refused", "failed"}
    BY <1>4
  <2> QED BY <1>3, <1>6, <2>1, <2>2, <2>3, <2>4 DEF OneRequest
<1>13. downUntil'[h] => cancels' >= 3
  BY <1>3 DEF RequestsSound, Marked
<1>14. \/ (c \in Doomed' => c \in Doomed) /\ failures'[h] <= failures[h] /\ cancels' = cancels
       \/ c \in Doomed /\ c \notin Doomed' /\ failures'[h] <= failures[h] + 1 /\ cancels' = cancels
  <2>1. CASE Rpc!At(c) = h
    BY <1>6, <1>7, <1>8, <1>9, <2>1
  <2>2. CASE Rpc!At(c) # h
    <3>1. failures[h] \in Nat
      BY <1>1
    <3> QED BY <1>6, <1>7, <1>8, <1>9, <2>2, <3>1
  <2> QED BY <2>1, <2>2
<1> QED
  BY <1>1, <1>3, <1>5, <1>12, <1>13, <1>14, RequestMoves

LEMMA RequestsStaySound ==
  ASSUME Rpc!EndpointsAssumption, PoolSound, RequestsSound, [Rpc!Next]_Rpc!poolVars
  PROVE  RequestsSound'
<1> DEFINE h == pool.healthy
<1>1. PoolSound'
  BY PoolTypesStay
<1>2. /\ pool.last \in Nat /\ h \in Rpc!Endpoints /\ cancels \in Nat
      /\ 0 \in 0 .. pool.last + 1 /\ 1 \in 1 .. MaxAttempts
      /\ client \in [Clients \cup {Ingester} -> PoolCall]
      /\ failures \in [Rpc!Endpoints -> 0 .. 3] /\ downUntil \in [Rpc!Endpoints -> BOOLEAN]
  BY PoolFacts DEF PoolSound, PoolTyped
<1>3. Rpc!Pick \in Rpc!Endpoints
  BY <1>2, PickIsEndpoint
<1>4. Rpc!Idle \in PoolCall
  BY <1>2, PoolFacts DEF Rpc!Idle, PoolCall, PoolSound, PoolTyped
<1>5. \E t \in 0 .. pool.last : 0 <= t /\ Point(Rpc!Pick, t) = h
  BY <1>3, AheadAtFirst
<1>6. failures[h] \in 0 .. 3 /\ failures[h] <= failures[h] /\ cancels <= cancels
      /\ cancels <= cancels + 1
  BY <1>2
<1>7. ASSUME pool.process = "api", NEW c \in Rpc!Running,
             \/ Rpc!Begin(c) \/ Rpc!NextPage(c) \/ Rpc!Skip(c) \/ Rpc!Ask(c)
             \/ Rpc!Answer(c) \/ \E e \in {"transient", "permanent"} : Rpc!AnswerError(c, e)
             \/ Rpc!Refuse(c) \/ Rpc!CutShort(c) \/ Rpc!MarkDown(c) \/ Rpc!Retry(c)
             \/ Rpc!GiveUp(c) \/ Rpc!Cancel(c)
      PROVE  RequestsSound'
  <2>1. c \in Clients /\ client[c] \in PoolCall
    BY <1>2, <1>7 DEF Rpc!Running
  <2>2. OneRequest(c) /\ (downUntil[h] => cancels >= 3)
    BY <1>7, <2>1 DEF RequestsSound, Requested, Marked
  <2>3. CASE Rpc!Begin(c)
    <3> DEFINE f == [Rpc!Idle EXCEPT !.pc = "loop", !.start = Rpc!Pick,
                        !.from = IF pool.process = "ingest" THEN activeIndex ELSE -1]
    <3>1. /\ f \in PoolCall /\ f.pc = "loop" /\ f.start = Rpc!Pick /\ f.tried = 0
          /\ ~f.cancelled /\ ~f.paging
      BY <1>3, <1>4, <1>7 DEF PoolCall, Rpc!Idle
    <3>2. Rpc!Moved(c, f) /\ UNCHANGED <<pool, failures, downUntil, activeIndex, cancels>>
      BY <2>3 DEF Rpc!Begin
    <3> HIDE DEF f
    <3>3. client'[c] = f /\ Ahead(c)' /\ c \notin Doomed'
      BY <1>5, <2>1, <3>1, <3>2, AheadThen
    <3>4. OneRequest(c)'
      BY <3>1, <3>3 DEF OneRequest
    <3> QED BY <1>1, <1>2, <1>6, <1>7, <2>1, <2>2, <3>1, <3>2, <3>3, <3>4, RequestMoves
  <2>4. CASE Rpc!NextPage(c)
    BY <1>7, <2>4 DEF Rpc!NextPage
  <2>5. CASE Rpc!Skip(c)
    <3> DEFINE f == [client[c] EXCEPT !.tried = @ + 1, !.err = "down",
                        !.missed = @ \/ Rpc!At(c) = h]
               n == client[c].tried + 1
               Later == \E t \in 0 .. pool.last : n <= t /\ Point(client[c].start, t) = h
               Yet == \E t \in 0 .. pool.last : client[c].tried <= t /\ Point(client[c].start, t) = h
    <3>1. client[c].pc = "loop" /\ client[c].tried <= pool.last
          /\ Rpc!Moved(c, f) /\ UNCHANGED <<pool, failures, downUntil, activeIndex, cancels>>
      BY <2>5 DEF Rpc!Skip, Rpc!Untried
    <3>2. n \in 0 .. pool.last + 1
      BY <1>2, <2>1, <3>1 DEF PoolCall
    <3>3. (client[c].missed \/ Rpc!At(c) = h) \in BOOLEAN
      OBVIOUS
    <3>4. f \in PoolCall
      BY <2>1, <3>1, <3>2, <3>3 DEF PoolCall
    <3>5. /\ f.pc = "loop" /\ f.tried = n /\ f.start = client[c].start
          /\ f.cancelled = client[c].cancelled /\ f.paging = client[c].paging
          /\ f.missed = (client[c].missed \/ Rpc!At(c) = h)
      BY <2>1, <3>1 DEF PoolCall
    <3> HIDE DEF f
    <3>6. /\ client'[c] = f /\ (Ahead(c)' <=> Later) /\ Busy(c)'
          /\ (c \in Doomed' <=> client[c].cancelled /\ Later)
      BY <2>1, <3>1, <3>4, <3>5, AheadThen
    <3>7. (Ahead(c) <=> Yet) /\ Busy(c) /\ (c \in Doomed <=> client[c].cancelled /\ Yet)
      BY <2>1, <3>1 DEF Ahead, Beyond, Busy, Doomed
    <3>8. (Rpc!At(c) = h => Yet /\ ~Later) /\ (Rpc!At(c) # h => (Later <=> Yet))
      BY <2>1, <3>1, PassedBy
    <3> HIDE DEF Later, Yet, n
    <3>9. OneRequest(c)'
      BY <2>2, <3>1, <3>5, <3>6, <3>7, <3>8 DEF OneRequest
    <3>10. c \in Doomed' => c \in Doomed
      BY <3>6, <3>7, <3>8
    <3> QED BY <1>1, <1>2, <1>6, <1>7, <2>1, <2>2, <3>1, <3>4, <3>9, <3>10, RequestMoves
  <2>6. CASE Rpc!Ask(c)
    <3> DEFINE f == [client[c] EXCEPT !.pc = "asked"]
    <3>1. client[c].pc = "loop"
          /\ Rpc!Moved(c, f) /\ UNCHANGED <<pool, failures, downUntil, activeIndex, cancels>>
      BY <2>2, <2>6 DEF Rpc!Ask, Rpc!Untried, Rpc!MustReanchor, OneRequest
    <3>2. f \in PoolCall
      BY <2>1 DEF PoolCall
    <3>3. /\ f.pc = "asked" /\ f.tried = client[c].tried /\ f.start = client[c].start
          /\ f.cancelled = client[c].cancelled /\ f.paging = client[c].paging
          /\ f.missed = client[c].missed
      BY <2>1 DEF PoolCall
    <3> HIDE DEF f
    <3>4. client'[c] = f /\ (Ahead(c)' <=> Ahead(c)) /\ (c \in Doomed' => c \in Doomed)
      <4>1. Ahead(c) <=> \E t \in 0 .. pool.last :
                           client[c].tried <= t /\ Point(client[c].start, t) = h
        BY <3>1 DEF Ahead, Beyond
      <4> QED BY <2>1, <3>1, <3>2, <3>3, <4>1, AheadThen DEF Doomed, Busy
    <3>5. OneRequest(c)'
      BY <2>2, <3>1, <3>3, <3>4 DEF OneRequest, Busy
    <3> QED BY <1>1, <1>2, <1>6, <1>7, <2>1, <2>2, <3>1, <3>2, <3>4, <3>5, RequestMoves
  <2>7. CASE Rpc!Answer(c)
    <3> DEFINE f == [Rpc!Idle EXCEPT !.pc = "page", !.from = client[c].from]
    <3>1. /\ Rpc!Moved(c, f) /\ pool' = pool /\ downUntil' = downUntil /\ cancels' = cancels
          /\ failures' = [failures EXCEPT ![Rpc!At(c)] = 0]
      BY <2>7 DEF Rpc!Answer
    <3>2. f \in PoolCall /\ f.pc = "page" /\ ~f.paging
      BY <1>4, <2>1 DEF PoolCall, Rpc!Idle
    <3> HIDE DEF f
    <3>3. client'[c] = f /\ c \notin Doomed' /\ ~Busy(c)'
      BY <2>1, <3>1, <3>2, AheadThen
    <3>4. failures'[h] <= failures[h]
      <4>1. failures'[h] = failures[h] \/ failures'[h] = 0
        BY <1>2, <3>1
      <4> QED BY <1>6, <4>1
    <3>5. OneRequest(c)'
      BY <3>2, <3>3 DEF OneRequest
    <3> QED BY <1>1, <1>2, <1>6, <1>7, <2>1, <2>2, <3>1, <3>2, <3>3, <3>4, <3>5, RequestMoves
  <2>8. CASE \E e \in {"transient", "permanent"} : Rpc!AnswerError(c, e)
    <3>1. PICK e \in {"transient", "permanent"} : Rpc!AnswerError(c, e)
      BY <2>8
    <3>2. client[c].pc = "asked" /\ Rpc!At(c) # h /\ Rpc!Fails(c, e) /\ cancels' = cancels
      BY <3>1 DEF Rpc!AnswerError
    <3> QED BY <1>1, <1>7, <2>1, <3>2, FailureIsBlamed
  <2>9. CASE Rpc!Refuse(c)
    BY <2>2, <2>9 DEF Rpc!Refuse, OneRequest
  <2>10. CASE Rpc!CutShort(c)
    <3>1. client[c].pc = "asked" /\ client[c].cancelled /\ Rpc!Fails(c, "cancelled")
          /\ cancels' = cancels
      BY <2>10 DEF Rpc!CutShort
    <3> QED BY <1>1, <1>7, <2>1, <3>1, FailureIsBlamed
  <2>11. CASE Rpc!MarkDown(c)
    <3> DEFINE f == [client[c] EXCEPT !.pc = "loop", !.tried = @ + 1]
    <3>1. /\ client[c].pc = "mark" /\ Rpc!Moved(c, f)
          /\ UNCHANGED <<pool, failures, activeIndex, cancels>>
          /\ downUntil' = [downUntil EXCEPT ![Rpc!At(c)] = TRUE]
      BY <2>11 DEF Rpc!MarkDown
    <3>2. client[c].tried + 1 \in 0 .. pool.last + 1
      BY <1>2, <2>1, <3>1 DEF PoolSound, Pointing, PoolCall
    <3>3. f \in PoolCall
      BY <2>1, <3>2 DEF PoolCall
    <3>4. /\ f.pc = "loop" /\ f.tried = client[c].tried + 1 /\ f.start = client[c].start
          /\ f.cancelled = client[c].cancelled /\ f.paging = client[c].paging
          /\ f.missed = client[c].missed
      BY <2>1 DEF PoolCall
    <3> HIDE DEF f
    <3>5. client'[c] = f /\ (Ahead(c)' <=> Ahead(c)) /\ (c \in Doomed' => c \in Doomed)
      <4>1. Ahead(c) <=> \E t \in 0 .. pool.last :
                           client[c].tried + 1 <= t /\ Point(client[c].start, t) = h
        BY <3>1 DEF Ahead, Beyond
      <4> QED BY <2>1, <3>1, <3>3, <3>4, <4>1, AheadThen DEF Doomed, Busy
    <3>6. OneRequest(c)'
      BY <2>2, <3>1, <3>4, <3>5 DEF OneRequest, Busy
    <3>7. downUntil'[h] => cancels' >= 3
      <4>1. Rpc!At(c) # h => downUntil'[h] = downUntil[h]
        BY <1>2, <3>1
      <4>2. Rpc!At(c) = h => cancels >= 3
        BY <2>2, <3>1 DEF OneRequest
      <4> QED BY <2>2, <3>1, <4>1, <4>2
    <3> QED BY <1>1, <1>2, <1>6, <1>7, <2>1, <3>1, <3>3, <3>5, <3>6, <3>7, RequestMoves
  <2>12. CASE Rpc!Retry(c)
    <3> DEFINE f == [client[c] EXCEPT !.start = Rpc!Pick, !.tried = 0, !.attempt = @ + 1]
    <3>1. client[c].pc = "loop" /\ client[c].attempt < MaxAttempts /\ ~client[c].cancelled
          /\ Rpc!Moved(c, f) /\ UNCHANGED <<pool, failures, downUntil, activeIndex, cancels>>
      BY <2>12 DEF Rpc!Retry, Rpc!Exhausted
    <3>2. client[c].attempt + 1 \in 1 .. MaxAttempts
      BY <2>1, <3>1 DEF PoolCall, Rpc!EndpointsAssumption
    <3>3. f \in PoolCall
      BY <1>2, <1>3, <2>1, <3>1, <3>2 DEF PoolCall
    <3>4. /\ f.pc = "loop" /\ f.tried = 0 /\ f.start = Rpc!Pick /\ ~f.cancelled
          /\ f.paging = client[c].paging
      BY <2>1, <3>1 DEF PoolCall
    <3> HIDE DEF f
    <3>5. client'[c] = f /\ Ahead(c)' /\ c \notin Doomed'
      BY <1>5, <2>1, <3>1, <3>3, <3>4, AheadThen
    <3>6. OneRequest(c)'
      BY <2>2, <3>4, <3>5 DEF OneRequest
    <3> QED BY <1>1, <1>2, <1>6, <1>7, <2>1, <2>2, <3>1, <3>3, <3>5, <3>6, RequestMoves
  <2>13. CASE Rpc!GiveUp(c)
    <3> DEFINE f == [Rpc!Idle EXCEPT !.pc = IF client[c].err = "reanchor" THEN "reanchor" ELSE "failed",
                        !.cancelled = client[c].cancelled, !.missed = client[c].missed]
    <3>1. client[c].pc = "loop" /\ client[c].tried > pool.last
          /\ Rpc!Moved(c, f) /\ UNCHANGED <<pool, failures, downUntil, activeIndex, cancels>>
      BY <2>13 DEF Rpc!GiveUp, Rpc!Exhausted
    <3>2. f \in PoolCall
      BY <1>4, <2>1 DEF PoolCall
    <3>3. /\ f.pc \in {"reanchor", "failed"} /\ ~f.paging
          /\ f.cancelled = client[c].cancelled /\ f.missed = client[c].missed
      BY <1>4, <2>1 DEF PoolCall, Rpc!Idle
    <3> HIDE DEF f
    <3>4. ~Ahead(c)
      <4>1. client[c].tried \in 0 .. pool.last + 1
        BY <2>1 DEF PoolCall
      <4>2. \A t \in 0 .. pool.last : ~(client[c].tried <= t)
        BY <1>2, <3>1, <4>1
      <4> QED BY <3>1, <4>2 DEF Ahead, Beyond
    <3>5. client[c].cancelled \/ client[c].missed
      BY <2>2, <3>1, <3>4 DEF OneRequest, Busy
    <3>6. client'[c] = f /\ ~Busy(c)' /\ c \notin Doomed'
      BY <2>1, <3>1, <3>2, <3>3, AheadThen
    <3>7. OneRequest(c)'
      BY <3>3, <3>5, <3>6 DEF OneRequest
    <3> QED BY <1>1, <1>2, <1>6, <1>7, <2>1, <2>2, <3>1, <3>2, <3>6, <3>7, RequestMoves
  <2>14. CASE Rpc!Cancel(c)
    <3> DEFINE f == [client[c] EXCEPT !.cancelled = TRUE]
    <3>1. Rpc!Moved(c, f) /\ UNCHANGED <<pool, failures, downUntil, activeIndex>>
          /\ cancels' = cancels + 1 /\ client[c].pc # "failed"
      BY <2>14 DEF Rpc!Cancel
    <3>2. f \in PoolCall
      BY <2>1 DEF PoolCall
    <3>3. /\ f.pc = client[c].pc /\ f.tried = client[c].tried /\ f.start = client[c].start
          /\ f.cancelled /\ f.paging = client[c].paging
      BY <2>1 DEF PoolCall
    <3> HIDE DEF f
    <3>4. client'[c] = f /\ Rpc!At(c)' = Rpc!At(c)
      BY <2>1, <3>1, <3>2, <3>3, AheadThen DEF Rpc!At, Point
    <3>5. cancels >= 3 => cancels' >= 3
      BY <1>2, <3>1
    <3>6. OneRequest(c)'
      BY <2>2, <3>1, <3>3, <3>4, <3>5 DEF OneRequest
    <3> QED BY <1>1, <1>2, <1>6, <1>7, <2>1, <2>2, <3>1, <3>2, <3>5, <3>6, RequestMoves
  <2> QED
    BY <1>7, <2>3, <2>4, <2>5, <2>6, <2>7, <2>8, <2>9, <2>10, <2>11, <2>12, <2>13, <2>14
<1>8. ASSUME pool' = pool, failures' = failures, client' = client, cancels' = cancels,
             downUntil'[h] => downUntil[h]
      PROVE  RequestsSound'
  <2>1. Doomed' = Doomed /\ (\A c \in Clients : OneRequest(c)' <=> OneRequest(c))
    BY <1>8 DEF Doomed, OneRequest, Ahead, Beyond, Busy, Point, Rpc!At
  <2> QED BY <1>8, <2>1 DEF RequestsSound, Blamed, Requested, Marked
<1>9. ASSUME NEW x \in Rpc!Endpoints, Rpc!Recover(x) PROVE RequestsSound'
  <2>1. downUntil'[h] => downUntil[h]
    BY <1>2, <1>9 DEF Rpc!Recover
  <2> QED BY <1>8, <1>9, <2>1 DEF Rpc!Recover
<1>10. CASE UNCHANGED Rpc!poolVars
  BY <1>8, <1>10 DEF Rpc!poolVars
<1>11. CASE pool.process # "api"
  <2>1. pool' = pool
    BY <1>11
    DEF Rpc!Next, Rpc!poolVars, Rpc!Begin, Rpc!NextPage, Rpc!Skip, Rpc!Ask, Rpc!Answer,
        Rpc!AnswerError, Rpc!Refuse, Rpc!CutShort, Rpc!MarkDown, Rpc!Retry, Rpc!GiveUp,
        Rpc!Cancel, Rpc!Recover, Rpc!Fails
  <2> QED BY <1>11, <2>1 DEF RequestsSound, Blamed, Requested, Marked
<1> QED
  BY <1>7, <1>9, <1>10, <1>11 DEF Rpc!Next

LEMMA RequestsAtFirst ==
  ASSUME Rpc!EndpointsAssumption, Rpc!Init
  PROVE  RequestsSound
<1>1. pool.healthy \in Rpc!Endpoints
  BY PoolFacts DEF Rpc!Init
<1>2. \A c \in Clients : client[c] = Rpc!Idle
  BY DEF Rpc!Init
<1>3. Rpc!Idle.pc = "idle" /\ ~Rpc!Idle.paging
  BY DEF Rpc!Idle
<1>4. Doomed = {}
  BY <1>2, <1>3 DEF Doomed, Busy
<1>5. failures[pool.healthy] = 0 /\ ~downUntil[pool.healthy] /\ cancels = 0
  BY <1>1 DEF Rpc!Init
<1>6. Blamed /\ Marked
  <2>1. IsFiniteSet({}) /\ Cardinality({}) = 0
    BY FS_EmptySet
  <2> QED BY <1>4, <1>5, <2>1 DEF Blamed, Marked
<1>7. Requested
  BY <1>2, <1>3 DEF Requested, OneRequest, Busy
<1> QED BY <1>6, <1>7 DEF RequestsSound

\* One endpoint that answers is enough for the API, however many others there are: it is left
\* alone only after three requests have been cancelled, and a request that nobody cancelled
\* fails only if the one that answers was being left alone when its turn came.
THEOREM RequestsAreAnswered == Rpc!EndpointsAssumption => (Rpc!Spec => []Rpc!RequestsAreServed)
<1> SUFFICES ASSUME Rpc!EndpointsAssumption PROVE Rpc!Spec => []Rpc!RequestsAreServed
  OBVIOUS
<1>1. Rpc!Init => PoolSound /\ RequestsSound
  BY PoolAtFirst, RequestsAtFirst
<1>2. PoolSound /\ RequestsSound /\ [Rpc!Next]_Rpc!poolVars => (PoolSound /\ RequestsSound)'
  BY PoolTypesStay, RequestsStaySound
<1>3. RequestsSound => Rpc!RequestsAreServed
  BY DEF RequestsSound, Requested, Marked, OneRequest, Rpc!RequestsAreServed
<1> QED
  BY <1>1, <1>2, <1>3, PTL DEF Rpc!Spec

---------------------------------------------------------------------------
\* The worker's calls.

\* An endpoint of the pool is at most its last, and -1 is none.
WorkerCall == client[Ingester]

Working == WorkerCall.pc \in {"loop", "asked", "refused", "mark"}

\* The next page would be refused: another endpoint is active than when FetchEvents began.
Stale == WorkerCall.from >= 0 /\ WorkerCall.from # activeIndex

\* The endpoint that calls begin with: the active one is never left alone.
First == IF activeIndex = -1 THEN 0 ELSE activeIndex

Behind(x) == Working /\ x - WorkerCall.start < Beyond(Ingester)

\* The active endpoint only moves towards the healthy one, and the calls come to that before
\* they begin anew.
CallsGoOn ==
  /\ activeIndex <= pool.healthy /\ WorkerCall.from <= activeIndex
  /\ ~WorkerCall.cancelled /\ WorkerCall.pc # "failed"
  /\ Working => WorkerCall.start = First
  /\ Working /\ ~Stale =>
       WorkerCall.pc \in {"loop", "asked"} /\ WorkerCall.start + WorkerCall.tried <= pool.healthy
  /\ Working /\ Stale =>
       /\ WorkerCall.paging /\ WorkerCall.pc # "asked"
       /\ Beyond(Ingester) = pool.last + 1 => WorkerCall.err = "reanchor"

MarksAreCounted ==
  /\ \A x \in Rpc!Endpoints : downUntil[x] => failures[x] = 3
  /\ WorkerCall.pc = "mark" => failures[Rpc!At(Ingester)] = 3

\* An endpoint from the active to the healthy one has a failure for each round that was refused,
\* of which there is one at most for each move of the active one, and another when it failed
\* in this call.
FewFailures(x) ==
  failures[x] + (IF Stale /\ ~Behind(x) THEN 1 ELSE 0)
    <= (IF x = activeIndex THEN 1 ELSE First) + (IF ~Stale /\ Behind(x) THEN 1 ELSE 0)

\* A refused round ends at an endpoint that is not left alone.
LastRefuses ==
  Stale /\ ~(Working /\ Beyond(Ingester) = pool.last + 1) => failures[activeIndex - 1] <= 2

WorkerSound ==
  pool.process = "ingest" /\ pool.healthy <= 3 =>
    /\ CallsGoOn /\ MarksAreCounted /\ LastRefuses
    /\ \A x \in First .. pool.healthy : FewFailures(x)

LEMMA WorkerAtFirst == Rpc!EndpointsAssumption /\ Rpc!Init => WorkerSound
<1> SUFFICES ASSUME Rpc!EndpointsAssumption, Rpc!Init PROVE WorkerSound
  OBVIOUS
<1>1. WorkerCall = Rpc!Idle /\ activeIndex = -1 /\ pool.last \in Nat /\ pool.healthy \in 0 .. pool.last
  BY PoolFacts DEF Rpc!Init, WorkerCall, Rpc!Endpoints
<1>2. /\ WorkerCall.pc = "idle" /\ WorkerCall.from = -1 /\ ~WorkerCall.cancelled
  BY <1>1 DEF Rpc!Idle
<1>3. ~Working /\ ~Stale /\ First = 0
  BY <1>1, <1>2 DEF Working, Stale, First
<1>4. \A x \in Rpc!Endpoints : failures[x] = 0 /\ ~downUntil[x]
  BY DEF Rpc!Init
<1>5. CallsGoOn /\ MarksAreCounted /\ LastRefuses
  BY <1>1, <1>2, <1>3, <1>4 DEF CallsGoOn, MarksAreCounted, LastRefuses
<1>6. \A x \in First .. pool.healthy : FewFailures(x)
  <2> TAKE x \in First .. pool.healthy
  <2>1. x \in Rpc!Endpoints /\ ~Behind(x)
    BY <1>1, <1>3 DEF Rpc!Endpoints, Behind
  <2> QED BY <1>1, <1>3, <1>4, <2>1 DEF FewFailures
<1> QED BY <1>5, <1>6 DEF WorkerSound

\* The worker's call and pool in numbers.
LEMMA WorkerFacts ==
  ASSUME Rpc!EndpointsAssumption, PoolSound
  PROVE  /\ WorkerCall \in PoolCall
         /\ pool.last \in Nat /\ pool.healthy \in 0 .. pool.last /\ Rpc!Endpoints = 0 .. pool.last
         /\ WorkerCall.start \in 0 .. pool.last /\ WorkerCall.tried \in 0 .. pool.last + 1
         /\ WorkerCall.from \in -1 .. pool.last /\ activeIndex \in -1 .. pool.last
         /\ \A x \in 0 .. pool.last : failures[x] \in 0 .. 3 /\ downUntil[x] \in BOOLEAN
         /\ First \in 0 .. pool.last /\ Beyond(Ingester) \in Nat
         /\ WorkerCall.pc \in {"asked", "refused", "mark"} => WorkerCall.tried <= pool.last
<1>1. WorkerCall \in PoolCall /\ pool \in Pools
  BY DEF PoolSound, PoolTyped, WorkerCall
<1>2. pool.last \in Nat /\ pool.healthy \in 0 .. pool.last /\ Rpc!Endpoints = 0 .. pool.last
  BY <1>1, PoolFacts DEF Rpc!Endpoints
<1>3. /\ WorkerCall.start \in 0 .. pool.last /\ WorkerCall.tried \in 0 .. pool.last + 1
      /\ WorkerCall.from \in -1 .. pool.last
  BY <1>1, <1>2 DEF PoolCall
<1>4. activeIndex \in -1 .. pool.last
      /\ \A x \in 0 .. pool.last : failures[x] \in 0 .. 3 /\ downUntil[x] \in BOOLEAN
  BY <1>2 DEF PoolSound, PoolTyped
<1>5. First \in 0 .. pool.last /\ Beyond(Ingester) \in Nat
  BY <1>2, <1>3, <1>4 DEF First, Beyond, WorkerCall
<1>6. WorkerCall.pc \in {"asked", "refused", "mark"} => WorkerCall.tried <= pool.last
  BY DEF PoolSound, Pointing, WorkerCall
<1> QED BY <1>1, <1>2, <1>3, <1>4, <1>5, <1>6

\* What the worker's invariant says between calls: no endpoint up to the healthy one is left
\* alone, so that a call begins with the active one.
LEMMA WorkerPicks ==
  ASSUME Rpc!EndpointsAssumption, PoolSound, WorkerSound, pool.process = "ingest",
         pool.healthy <= 3, ~Working
  PROVE  Rpc!Pick = First
<1>1. /\ pool.last \in Nat /\ pool.healthy \in 0 .. pool.last /\ Rpc!Endpoints = 0 .. pool.last
      /\ activeIndex \in -1 .. pool.last /\ First \in 0 .. pool.last
      /\ \A x \in 0 .. pool.last : failures[x] \in 0 .. 3
  BY WorkerFacts
<1>2. First \in First .. pool.healthy /\ FewFailures(First) /\ ~Behind(First)
  BY <1>1 DEF WorkerSound, CallsGoOn, First, Behind
<1>3. failures[First] <= 1
  BY <1>1, <1>2 DEF FewFailures, First
<1>4. ~downUntil[First]
  BY <1>1, <1>3 DEF WorkerSound, MarksAreCounted
<1> DEFINE usable == {x \in Rpc!Endpoints : ~downUntil[x]}
<1>5. First \in usable
  BY <1>1, <1>4
<1>6. Rpc!Pick = CASE activeIndex \in usable -> activeIndex
                   [] usable = {} -> 0
                   [] OTHER -> CHOOSE x \in usable : \A y \in usable : x <= y
  BY DEF Rpc!Pick
<1>7. CASE activeIndex # -1
  BY <1>5, <1>6, <1>7 DEF First
<1>8. CASE activeIndex = -1
  <2>1. activeIndex \notin usable /\ usable # {} /\ usable \subseteq Nat /\ 0 \in usable /\ First = 0
    BY <1>1, <1>5, <1>8 DEF First
  <2> HIDE DEF usable
  <2>2. Rpc!Pick = CHOOSE x \in usable : \A y \in usable : x <= y
    BY <1>6, <2>1
  <2>3. \A x \in usable : x >= 0
    BY <2>1
  <2>4. \E x \in usable : \A y \in usable : x <= y
    BY <2>1, <2>3
  <2>5. \A y \in usable : Rpc!Pick <= y
    BY <2>2, <2>4
  <2>6. Rpc!Pick \in usable
    BY <2>2, <2>4
  <2>7. Rpc!Pick <= 0 /\ Rpc!Pick \in Nat
    BY <2>1, <2>5, <2>6
  <2> QED BY <2>1, <2>7
<1> QED BY <1>7, <1>8

\* A call begins with every endpoint before it.
LEMMA WorkerBegins ==
  ASSUME Rpc!EndpointsAssumption, PoolSound, WorkerSound, pool.process = "ingest",
         pool.healthy <= 3, Rpc!Begin(Ingester) \/ Rpc!NextPage(Ingester)
  PROVE  WorkerSound'
<1>1. /\ WorkerCall \in PoolCall
      /\ pool.last \in Nat /\ pool.healthy \in 0 .. pool.last /\ Rpc!Endpoints = 0 .. pool.last
      /\ WorkerCall.start \in 0 .. pool.last /\ WorkerCall.tried \in 0 .. pool.last + 1
      /\ WorkerCall.from \in -1 .. pool.last /\ activeIndex \in -1 .. pool.last
      /\ \A x \in 0 .. pool.last : failures[x] \in 0 .. 3
      /\ First \in 0 .. pool.last
  BY WorkerFacts
<1>2. CallsGoOn /\ MarksAreCounted /\ LastRefuses /\ \A x \in First .. pool.healthy : FewFailures(x)
  BY DEF WorkerSound
<1>3. ~Working /\ WorkerCall.pc \in {"idle", "page", "failed", "reanchor"}
  BY DEF Rpc!Begin, Rpc!NextPage, Working, WorkerCall
<1>4. Rpc!Pick = First
  BY <1>3, WorkerPicks
<1>5. UNCHANGED <<pool, failures, downUntil, activeIndex>>
  BY DEF Rpc!Begin, Rpc!NextPage
<1>6. /\ WorkerCall'.pc = "loop" /\ WorkerCall'.start = First /\ WorkerCall'.tried = 0
      /\ ~WorkerCall'.cancelled
      /\ \/ WorkerCall'.from = activeIndex
         \/ WorkerCall'.from = WorkerCall.from /\ WorkerCall'.paging
  <2>1. client \in [Clients \cup {Ingester} -> PoolCall]
    BY DEF PoolSound, PoolTyped
  <2>2. CASE Rpc!Begin(Ingester)
    <3>1. WorkerCall' = [Rpc!Idle EXCEPT !.pc = "loop", !.start = First, !.from = activeIndex]
      BY <1>4, <2>1, <2>2 DEF Rpc!Begin, Rpc!Moved, WorkerCall
    <3> QED BY <3>1 DEF Rpc!Idle
  <2>3. CASE Rpc!NextPage(Ingester)
    <3>1. WorkerCall' = [Rpc!Idle EXCEPT !.pc = "loop", !.start = First,
                            !.from = WorkerCall.from, !.paging = TRUE]
      BY <1>4, <2>1, <2>3 DEF Rpc!NextPage, Rpc!Moved, WorkerCall
    <3> QED BY <3>1 DEF Rpc!Idle
  <2> QED BY <2>2, <2>3
<1>7. /\ Working' /\ First' = First /\ Beyond(Ingester)' = 0
      /\ Stale' => Stale /\ WorkerCall'.paging
  BY <1>5, <1>6 DEF Working, First, Beyond, Stale, WorkerCall
<1>8. First <= pool.healthy /\ WorkerCall'.from <= activeIndex
  BY <1>1, <1>2, <1>6 DEF First, CallsGoOn
<1>9. CallsGoOn'
  BY <1>1, <1>2, <1>5, <1>6, <1>7, <1>8 DEF CallsGoOn
<1>10. MarksAreCounted'
  BY <1>2, <1>5, <1>6 DEF MarksAreCounted, Rpc!Endpoints
<1>11. LastRefuses'
  BY <1>2, <1>3, <1>5, <1>7 DEF LastRefuses
<1>12. ASSUME NEW x \in First .. pool.healthy PROVE FewFailures(x)'
  <2>1. ~Behind(x) /\ ~Behind(x)'
    BY <1>1, <1>3, <1>6, <1>7, <1>12 DEF Behind
  <2> DEFINE most == IF x = activeIndex THEN 1 ELSE First
  <2>2. failures[x] + (IF Stale THEN 1 ELSE 0) <= most + 0
    BY <1>2, <1>12, <2>1 DEF FewFailures
  <2>3. FewFailures(x)' <=> failures[x] + (IF Stale' THEN 1 ELSE 0) <= most + 0
    BY <1>5, <1>7, <2>1 DEF FewFailures
  <2>4. failures[x] \in Int /\ most \in Int
    BY <1>1, <1>12
  <2> QED BY <1>7, <2>2, <2>3, <2>4
<1> QED BY <1>5, <1>7, <1>9, <1>10, <1>11, <1>12 DEF WorkerSound

\* Where a round is, from the active endpoint on.
LEMMA WorkerIsAt ==
  ASSUME Rpc!EndpointsAssumption, PoolSound, WorkerSound, pool.process = "ingest",
         pool.healthy <= 3, Working, WorkerCall.tried <= pool.last
  PROVE  /\ Rpc!At(Ingester) \in 0 .. pool.last
         /\ ~Stale => /\ Rpc!At(Ingester) = First + WorkerCall.tried
                      /\ Rpc!At(Ingester) <= pool.healthy
         /\ Rpc!At(Ingester) \in First .. pool.healthy =>
              Rpc!At(Ingester) - WorkerCall.start = WorkerCall.tried
         /\ \A x \in First .. pool.healthy :
              x # Rpc!At(Ingester) => x - WorkerCall.start # WorkerCall.tried
         /\ Stale => (Rpc!At(Ingester) = activeIndex - 1 <=> WorkerCall.tried = pool.last)
         /\ Stale => activeIndex = First /\ First >= 1 /\ First <= pool.healthy
<1>1. /\ WorkerCall \in PoolCall
      /\ pool.last \in Nat /\ pool.healthy \in 0 .. pool.last /\ Rpc!Endpoints = 0 .. pool.last
      /\ WorkerCall.start \in 0 .. pool.last /\ WorkerCall.tried \in 0 .. pool.last + 1
      /\ WorkerCall.from \in -1 .. pool.last /\ activeIndex \in -1 .. pool.last
      /\ \A x \in 0 .. pool.last : failures[x] \in 0 .. 3
      /\ First \in 0 .. pool.last
  BY WorkerFacts
<1>2. CallsGoOn /\ MarksAreCounted /\ LastRefuses /\ \A x \in First .. pool.healthy : FewFailures(x)
  BY DEF WorkerSound
<1> DEFINE n == pool.last + 1
           s == WorkerCall.start
           t == WorkerCall.tried
<1>3. Rpc!At(Ingester) = (s + t) % n
  BY DEF Rpc!At, WorkerCall
<1>4. n \in Nat \ {0} /\ s \in 0 .. n - 1 /\ t \in 0 .. n - 1
  BY <1>1
<1>5. (s + t) % n = IF s + t < n THEN s + t ELSE s + t - n
  <2> HIDE DEF n, s, t
  <2> QED BY <1>4, GoingRound
<1>6. s = First
  BY <1>2 DEF CallsGoOn
<1>7. ~Stale => First + t <= pool.healthy
  BY <1>2, <1>6 DEF CallsGoOn
<1>8. Stale => activeIndex = First /\ First >= 1 /\ First <= pool.healthy
  BY <1>1, <1>2 DEF Stale, First, CallsGoOn
<1> HIDE DEF s, t
<1>9. Rpc!At(Ingester) = IF First + t <= pool.last THEN First + t ELSE First + t - pool.last - 1
  <2> HIDE DEF n
  <2>1. Rpc!At(Ingester) = IF First + t < n THEN First + t ELSE First + t - n
    BY <1>3, <1>5, <1>6
  <2>2. n = pool.last + 1 /\ pool.last \in Int /\ First \in Int /\ t \in Int
    BY <1>1, <1>4 DEF n
  <2> QED BY <2>1, <2>2
<1>10. t \in 0 .. pool.last
  BY <1>1, <1>4
<1>11. Rpc!At(Ingester) \in 0 .. pool.last
  <2>1. First \in 0 .. pool.last /\ pool.last \in Nat
    BY <1>1
  <2>2. CASE First + t <= pool.last
    <3>1. Rpc!At(Ingester) = First + t
      BY <1>9, <2>2
    <3> QED BY <1>10, <2>1, <2>2, <3>1
  <2>3. CASE ~(First + t <= pool.last)
    <3>1. Rpc!At(Ingester) = First + t - pool.last - 1
      BY <1>9, <2>3
    <3> QED BY <1>10, <2>1, <2>3, <3>1
  <2> QED BY <2>2, <2>3
<1>12. ASSUME ~Stale PROVE Rpc!At(Ingester) = First + t /\ Rpc!At(Ingester) <= pool.healthy
  <2>1. First \in Int /\ t \in Int /\ pool.healthy \in Int /\ pool.healthy <= pool.last /\ pool.last \in Int
    BY <1>1, <1>10
  <2>2. First + t <= pool.healthy
    BY <1>7, <1>12
  <2>3. First + t <= pool.last
    BY <2>1, <2>2
  <2>4. Rpc!At(Ingester) = First + t
    BY <1>9, <2>3
  <2> QED BY <2>2, <2>4
<1>13. Rpc!At(Ingester) \in First .. pool.healthy => Rpc!At(Ingester) - First = t
  BY <1>1, <1>9, <1>10
<1>14. \A x \in First .. pool.healthy : x # Rpc!At(Ingester) => x - First # t
  BY <1>1, <1>9, <1>10
<1>15. Stale => (Rpc!At(Ingester) = activeIndex - 1 <=> t = pool.last)
  BY <1>1, <1>8, <1>9, <1>10
<1> QED BY <1>6, <1>8, <1>11, <1>12, <1>13, <1>14, <1>15 DEF s, t

\* An endpoint that a call has yet to come to is not left alone.
LEMMA NextIsUp ==
  ASSUME Rpc!EndpointsAssumption, PoolSound, WorkerSound, pool.process = "ingest",
         pool.healthy <= 3, NEW y \in First .. pool.healthy, ~Behind(y)
  PROVE  /\ failures[y] <= 2 /\ ~downUntil[y]
         /\ y < pool.healthy => failures[y] <= 1
<1>1. /\ WorkerCall \in PoolCall
      /\ pool.last \in Nat /\ pool.healthy \in 0 .. pool.last /\ Rpc!Endpoints = 0 .. pool.last
      /\ WorkerCall.start \in 0 .. pool.last /\ WorkerCall.tried \in 0 .. pool.last + 1
      /\ WorkerCall.from \in -1 .. pool.last /\ activeIndex \in -1 .. pool.last
      /\ \A x \in 0 .. pool.last : failures[x] \in 0 .. 3
      /\ First \in 0 .. pool.last
  BY WorkerFacts
<1>2. CallsGoOn /\ MarksAreCounted /\ LastRefuses /\ \A x \in First .. pool.healthy : FewFailures(x)
  BY DEF WorkerSound
<1>3. y \in 0 .. pool.last /\ failures[y] \in 0 .. 3 /\ y <= 3
  BY <1>1
<1>4. failures[y] <= IF y = activeIndex THEN 1 ELSE First
  <2> DEFINE most == IF y = activeIndex THEN 1 ELSE First
  <2>1. failures[y] + (IF Stale THEN 1 ELSE 0) <= most + 0
    BY <1>2 DEF FewFailures
  <2>2. most \in Int
    BY <1>1
  <2> QED BY <1>3, <2>1, <2>2
<1>5. y # activeIndex => First = 0 \/ First < y
  BY <1>1 DEF First
<1>6. failures[y] <= 2 /\ (y < pool.healthy => failures[y] <= 1)
  BY <1>1, <1>3, <1>4, <1>5
<1>7. ~downUntil[y]
  BY <1>1, <1>2, <1>3, <1>6 DEF MarksAreCounted
<1> QED BY <1>6, <1>7

\* One more endpoint of the round has been asked or skipped, or none.
LEMMA WorkerGoesRound ==
  ASSUME Rpc!EndpointsAssumption, PoolSound, WorkerSound, pool.process = "ingest",
         pool.healthy <= 3, 
         Working, Working', pool' = pool, activeIndex' = activeIndex,
         WorkerCall'.start = WorkerCall.start, WorkerCall'.from = WorkerCall.from,
         WorkerCall.tried <= pool.last,
         \/ Beyond(Ingester)' = Beyond(Ingester) /\ failures' = failures
         \/ /\ WorkerCall.pc # "mark" /\ Beyond(Ingester)' = WorkerCall.tried + 1
            /\ \A x \in Rpc!Endpoints : x # Rpc!At(Ingester) => failures'[x] = failures[x]
            /\ failures'[Rpc!At(Ingester)] \in 0 .. failures[Rpc!At(Ingester)] + 1
  PROVE  LastRefuses' /\ \A x \in First .. pool.healthy : FewFailures(x)'
<1>1. /\ WorkerCall \in PoolCall
      /\ pool.last \in Nat /\ pool.healthy \in 0 .. pool.last /\ Rpc!Endpoints = 0 .. pool.last
      /\ WorkerCall.start \in 0 .. pool.last /\ WorkerCall.tried \in 0 .. pool.last + 1
      /\ WorkerCall.from \in -1 .. pool.last /\ activeIndex \in -1 .. pool.last
      /\ \A x \in 0 .. pool.last : failures[x] \in 0 .. 3
      /\ First \in 0 .. pool.last
  BY WorkerFacts
<1>2. CallsGoOn /\ MarksAreCounted /\ LastRefuses /\ \A x \in First .. pool.healthy : FewFailures(x)
  BY DEF WorkerSound
<1> DEFINE at == Rpc!At(Ingester)
<1>3. /\ at \in 0 .. pool.last
      /\ at \in First .. pool.healthy => at - WorkerCall.start = WorkerCall.tried
      /\ Stale => (at = activeIndex - 1 <=> WorkerCall.tried = pool.last)
      /\ Stale => activeIndex = First /\ First >= 1 /\ First <= pool.healthy
  BY WorkerIsAt
<1>4. Stale' <=> Stale
  BY DEF Stale
<1>5. First' = First
  BY DEF First
<1>6. WorkerCall.pc # "mark" => Beyond(Ingester) = WorkerCall.tried
  BY DEF Beyond, WorkerCall
<1>7. \A x : /\ Behind(x) <=> x - WorkerCall.start < Beyond(Ingester)
             /\ Behind(x)' <=> x - WorkerCall.start < Beyond(Ingester)'
  BY DEF Behind
<1> HIDE DEF at
<1>8. CASE Beyond(Ingester)' = Beyond(Ingester) /\ failures' = failures
  <2>1. LastRefuses'
    BY <1>2, <1>4, <1>8 DEF LastRefuses
  <2>2. \A x \in First .. pool.healthy : FewFailures(x)'
    <3> TAKE x \in First .. pool.healthy
    <3>1. Behind(x)' <=> Behind(x)
      BY <1>7, <1>8
    <3> QED BY <1>2, <1>4, <1>5, <1>8, <3>1 DEF FewFailures
  <2> QED BY <2>1, <2>2
<1>9. CASE /\ WorkerCall.pc # "mark" /\ Beyond(Ingester)' = WorkerCall.tried + 1
           /\ \A x \in Rpc!Endpoints : x # at => failures'[x] = failures[x]
           /\ failures'[at] \in 0 .. failures[at] + 1
  <2>1. LastRefuses'
    <3> SUFFICES ASSUME Stale, WorkerCall.tried + 1 # pool.last + 1
                 PROVE  failures'[activeIndex - 1] <= 2
      BY <1>4, <1>9 DEF LastRefuses
    <3>1. activeIndex - 1 # at /\ activeIndex - 1 \in Rpc!Endpoints
      BY <1>1, <1>3
    <3>2. failures[activeIndex - 1] <= 2
      BY <1>1, <1>2, <1>6, <1>9 DEF LastRefuses
    <3> QED BY <1>9, <3>1, <3>2
  <2>2. ASSUME NEW x \in First .. pool.healthy PROVE FewFailures(x)'
    <3> DEFINE most == IF x = activeIndex THEN 1 ELSE First
    <3>1. x \in Rpc!Endpoints /\ x \in Int /\ failures[x] \in Int /\ most \in Int
          /\ WorkerCall.start \in Int /\ WorkerCall.tried \in Int
      BY <1>1, <2>2
    <3>2. Behind(x) => Behind(x)'
      BY <1>6, <1>7, <1>9, <3>1
    <3>3. failures[x] + (IF Stale /\ ~Behind(x) THEN 1 ELSE 0)
            <= most + (IF ~Stale /\ Behind(x) THEN 1 ELSE 0)
      BY <1>2, <2>2 DEF FewFailures
    <3>4. failures'[x] + (IF Stale /\ ~Behind(x)' THEN 1 ELSE 0)
            <= most + (IF ~Stale /\ Behind(x)' THEN 1 ELSE 0)
      <4>1. CASE x = at
        <5>1. ~Behind(x) /\ Behind(x)'
          BY <1>3, <1>6, <1>7, <1>9, <2>2, <3>1, <4>1
        <5>2. failures'[x] \in Int /\ failures'[x] <= failures[x] + 1
          BY <1>9, <3>1, <4>1
        <5> HIDE DEF most
        <5> QED BY <3>1, <3>3, <5>1, <5>2
      <4>2. CASE x # at
        <5>1. failures'[x] = failures[x]
          BY <1>9, <3>1, <4>2
        <5> HIDE DEF most
        <5> QED BY <3>1, <3>2, <3>3, <5>1
      <4> QED BY <4>1, <4>2
    <3> QED BY <1>4, <1>5, <3>4 DEF FewFailures
  <2> QED BY <2>1, <2>2
<1> QED BY <1>8, <1>9 DEF at

\* A call finds its endpoint left alone, or asks it.
LEMMA WorkerAsks ==
  ASSUME Rpc!EndpointsAssumption, PoolSound, WorkerSound, pool.process = "ingest",
         pool.healthy <= 3, Rpc!Skip(Ingester) \/ Rpc!Ask(Ingester)
  PROVE  WorkerSound'
<1>1. /\ WorkerCall \in PoolCall
      /\ pool.last \in Nat /\ pool.healthy \in 0 .. pool.last /\ Rpc!Endpoints = 0 .. pool.last
      /\ WorkerCall.start \in 0 .. pool.last /\ WorkerCall.tried \in 0 .. pool.last + 1
      /\ WorkerCall.from \in -1 .. pool.last /\ activeIndex \in -1 .. pool.last
      /\ \A x \in 0 .. pool.last : failures[x] \in 0 .. 3
      /\ First \in 0 .. pool.last
  BY WorkerFacts
<1>2. CallsGoOn /\ MarksAreCounted /\ LastRefuses /\ \A x \in First .. pool.healthy : FewFailures(x)
  BY DEF WorkerSound
<1>3. Working /\ WorkerCall.tried <= pool.last /\ WorkerCall.pc = "loop"
      /\ UNCHANGED <<pool, failures, downUntil, activeIndex>>
  BY DEF Rpc!Skip, Rpc!Ask, Rpc!Untried, Working, WorkerCall
<1> DEFINE at == Rpc!At(Ingester)
<1>4. /\ at \in 0 .. pool.last
      /\ ~Stale => at = First + WorkerCall.tried /\ at <= pool.healthy
      /\ at \in First .. pool.healthy => at - WorkerCall.start = WorkerCall.tried
      /\ Stale => (at = activeIndex - 1 <=> WorkerCall.tried = pool.last)
      /\ Stale => activeIndex = First /\ First >= 1 /\ First <= pool.healthy
  BY <1>3, WorkerIsAt
<1>5. /\ WorkerCall'.start = WorkerCall.start /\ WorkerCall'.from = WorkerCall.from
      /\ WorkerCall'.paging = WorkerCall.paging /\ ~WorkerCall'.cancelled
      /\ \/ Rpc!Skip(Ingester) /\ WorkerCall'.pc = "loop" /\ WorkerCall'.tried = WorkerCall.tried + 1
         \/ /\ Rpc!Ask(Ingester) /\ WorkerCall'.tried = WorkerCall.tried
            /\ WorkerCall'.pc = IF Rpc!MustReanchor(Ingester) THEN "refused" ELSE "asked"
  <2>1. client \in [Clients \cup {Ingester} -> PoolCall]
    BY DEF PoolSound, PoolTyped
  <2>2. ~WorkerCall.cancelled
    BY <1>2 DEF CallsGoOn
  <2>3. CASE Rpc!Skip(Ingester)
    <3>1. WorkerCall' = [WorkerCall EXCEPT !.tried = @ + 1, !.err = "down",
                            !.missed = @ \/ Rpc!At(Ingester) = pool.healthy]
      BY <2>1, <2>3 DEF Rpc!Skip, Rpc!Moved, WorkerCall
    <3> QED BY <1>1, <1>3, <2>2, <2>3, <3>1 DEF PoolCall
  <2>4. CASE Rpc!Ask(Ingester)
    <3>1. WorkerCall' = [WorkerCall EXCEPT !.pc = IF Rpc!MustReanchor(Ingester) THEN "refused" ELSE "asked"]
      BY <2>1, <2>4 DEF Rpc!Ask, Rpc!Moved, WorkerCall
    <3> QED BY <1>1, <2>2, <2>4, <3>1 DEF PoolCall
  <2> QED BY <2>3, <2>4
<1>6. Working' /\ (Stale' <=> Stale) /\ First' = First
      /\ Beyond(Ingester) = WorkerCall.tried /\ Beyond(Ingester)' = WorkerCall'.tried
  BY <1>3, <1>5 DEF Working, Stale, First, Beyond, WorkerCall
<1>7. at \in First .. pool.healthy => ~downUntil[at]
  <2>1. at \in First .. pool.healthy => ~Behind(at)
    BY <1>1, <1>4, <1>6 DEF Behind
  <2> HIDE DEF at
  <2> QED BY <2>1, NextIsUp
<1>8. ASSUME Rpc!Skip(Ingester)
      PROVE  Stale /\ WorkerCall.tried # pool.last
  <2>1. downUntil[at]
    BY <1>8 DEF Rpc!Skip
  <2>2. Stale
    BY <1>1, <1>4, <1>7, <2>1
  <2>3. failures[activeIndex - 1] <= 2 \/ WorkerCall.tried = pool.last + 1
    BY <1>2, <1>6, <2>2 DEF LastRefuses
  <2>4. failures[at] = 3
    BY <1>1, <1>2, <1>4, <2>1 DEF MarksAreCounted
  <2> HIDE DEF at
  <2> QED BY <1>1, <1>3, <1>4, <2>2, <2>3, <2>4
<1>9. Rpc!MustReanchor(Ingester) <=> Stale
  BY <1>1, <1>2, <1>3, <1>4 DEF Rpc!MustReanchor, Stale, CallsGoOn, WorkerCall
<1>10. CallsGoOn'
  <2>1. CASE Rpc!Skip(Ingester)
    BY <1>1, <1>2, <1>3, <1>5, <1>6, <1>8, <2>1 DEF CallsGoOn, Rpc!Ask, Rpc!Skip
  <2>2. CASE Rpc!Ask(Ingester) /\ ~Rpc!Skip(Ingester)
    BY <1>1, <1>2, <1>3, <1>5, <1>6, <1>9, <2>2 DEF CallsGoOn
  <2> QED BY <1>5, <2>1, <2>2
<1>11. MarksAreCounted'
  BY <1>2, <1>3, <1>5 DEF MarksAreCounted, Rpc!Endpoints
<1>12. LastRefuses' /\ \A x \in First .. pool.healthy : FewFailures(x)'
  <2>1. /\ pool' = pool /\ activeIndex' = activeIndex
        /\ \/ Beyond(Ingester)' = Beyond(Ingester) /\ failures' = failures
           \/ /\ WorkerCall.pc # "mark" /\ Beyond(Ingester)' = WorkerCall.tried + 1
              /\ \A x \in Rpc!Endpoints : x # Rpc!At(Ingester) => failures'[x] = failures[x]
              /\ failures'[Rpc!At(Ingester)] \in 0 .. failures[Rpc!At(Ingester)] + 1
    <3>1. failures[at] \in 0 .. failures[at] + 1
      <4>1. at \in 0 .. pool.last
        BY <1>4
      <4> HIDE DEF at
      <4>2. failures[at] \in 0 .. 3
        BY <1>1, <4>1
      <4> QED BY <4>2
    <3> QED BY <1>3, <1>5, <1>6, <3>1
  <2> QED BY <1>3, <1>5, <1>6, <2>1, WorkerGoesRound
<1> QED BY <1>3, <1>6, <1>10, <1>11, <1>12 DEF WorkerSound

\* What a failure does to the worker's call and the endpoint.
LEMMA WorkerFails ==
  ASSUME Rpc!EndpointsAssumption, PoolSound, WorkerSound, pool.process = "ingest",
         pool.healthy <= 3, 
         WorkerCall.pc \in {"asked", "refused"}, NEW e \in {"transient", "permanent", "reanchor"},
         Rpc!Fails(Ingester, e), Stale => e = "reanchor",
         ~Stale => Rpc!At(Ingester) # pool.healthy
  PROVE  WorkerSound'
<1>1. /\ WorkerCall \in PoolCall
      /\ pool.last \in Nat /\ pool.healthy \in 0 .. pool.last /\ Rpc!Endpoints = 0 .. pool.last
      /\ WorkerCall.start \in 0 .. pool.last /\ WorkerCall.tried \in 0 .. pool.last + 1
      /\ WorkerCall.from \in -1 .. pool.last /\ activeIndex \in -1 .. pool.last
      /\ \A x \in 0 .. pool.last : failures[x] \in 0 .. 3
      /\ First \in 0 .. pool.last
  BY WorkerFacts
<1>2. CallsGoOn /\ MarksAreCounted /\ LastRefuses /\ \A x \in First .. pool.healthy : FewFailures(x)
  BY DEF WorkerSound
<1>3. Working /\ WorkerCall.tried <= pool.last /\ UNCHANGED <<pool, downUntil, activeIndex>>
  BY WorkerFacts DEF Rpc!Fails, Working
<1> DEFINE at == Rpc!At(Ingester)
<1>4. /\ at \in 0 .. pool.last
      /\ ~Stale => at = First + WorkerCall.tried /\ at <= pool.healthy
      /\ at \in First .. pool.healthy => at - WorkerCall.start = WorkerCall.tried
      /\ Stale => (at = activeIndex - 1 <=> WorkerCall.tried = pool.last)
      /\ Stale => activeIndex = First /\ First >= 1 /\ First <= pool.healthy
  BY <1>3, WorkerIsAt
<1> DEFINE count == IF failures[at] < 3 THEN failures[at] + 1 ELSE 3
<1>5. failures' = [failures EXCEPT ![at] = count] /\ count \in 1 .. 3 /\ count <= failures[at] + 1
      /\ (failures[at] = 3 => count = 3)
  <2>1. failures' = [failures EXCEPT ![at] = count]
    BY DEF Rpc!Fails
  <2> HIDE DEF at
  <2>2. failures[at] \in 0 .. 3
    BY <1>1, <1>4
  <2> QED BY <2>1, <2>2
<1>6. /\ failures'[at] = count
      /\ \A x \in Rpc!Endpoints : x # at => failures'[x] = failures[x]
  BY <1>1, <1>4, <1>5 DEF PoolSound, PoolTyped
<1>7. /\ WorkerCall'.start = WorkerCall.start /\ WorkerCall'.from = WorkerCall.from
      /\ WorkerCall'.paging = WorkerCall.paging /\ ~WorkerCall'.cancelled /\ WorkerCall'.err = e
      /\ \/ count = 3 /\ WorkerCall'.pc = "mark" /\ WorkerCall'.tried = WorkerCall.tried
         \/ count < 3 /\ WorkerCall'.pc = "loop" /\ WorkerCall'.tried = WorkerCall.tried + 1
  <2>1. client \in [Clients \cup {Ingester} -> PoolCall]
    BY DEF PoolSound, PoolTyped
  <2>2. ~WorkerCall.cancelled
    BY <1>2 DEF CallsGoOn
  <2>3. WorkerCall' = IF Rpc!IsDown(count) THEN [WorkerCall EXCEPT !.pc = "mark", !.err = e]
                      ELSE [WorkerCall EXCEPT !.pc = "loop", !.tried = @ + 1, !.err = e]
    BY <2>1 DEF Rpc!Fails, Rpc!Moved, WorkerCall
  <2> HIDE DEF count
  <2>4. CASE Rpc!IsDown(count)
    BY <1>1, <1>5, <2>2, <2>3, <2>4 DEF PoolCall, Rpc!IsDown
  <2>5. CASE ~Rpc!IsDown(count)
    BY <1>1, <1>5, <2>2, <2>3, <2>5 DEF PoolCall, Rpc!IsDown
  <2> QED BY <2>4, <2>5
<1> HIDE DEF count
<1>8. /\ Working' /\ (Stale' <=> Stale) /\ First' = First
      /\ Beyond(Ingester) = WorkerCall.tried /\ Beyond(Ingester)' = WorkerCall.tried + 1
  BY <1>3, <1>7 DEF Working, Stale, First, Beyond, WorkerCall
<1>9. ASSUME ~Stale PROVE count < 3 /\ WorkerCall'.pc = "loop" /\ at < pool.healthy
  <2>1. at \in First .. pool.healthy /\ at < pool.healthy
    BY <1>1, <1>4, <1>9
  <2>2. ~Behind(at)
    BY <1>1, <1>4, <1>8, <2>1 DEF Behind
  <2> HIDE DEF at
  <2>3. failures[at] <= 1
    BY <2>1, <2>2, NextIsUp
  <2> QED BY <1>1, <1>4, <1>5, <1>7, <2>1, <2>3
<1>10. CallsGoOn'
  <2>1. CASE Stale
    <3>1. WorkerCall.paging
      BY <1>2, <1>3, <2>1 DEF CallsGoOn
    <3> QED BY <1>2, <1>3, <1>7, <1>8, <2>1, <3>1 DEF CallsGoOn
  <2>2. CASE ~Stale
    <3>1. WorkerCall'.start + WorkerCall'.tried <= pool.healthy
      BY <1>1, <1>2, <1>3, <1>4, <1>7, <1>9, <2>2 DEF CallsGoOn
    <3> QED BY <1>2, <1>3, <1>7, <1>8, <1>9, <2>2, <3>1 DEF CallsGoOn
  <2> QED BY <2>1, <2>2
<1>11. MarksAreCounted'
  <2>1. Rpc!Endpoints' = Rpc!Endpoints
    BY <1>3 DEF Rpc!Endpoints
  <2>2. \A x \in Rpc!Endpoints : downUntil[x] => failures'[x] = 3
    BY <1>2, <1>5, <1>6 DEF MarksAreCounted
  <2>3. WorkerCall'.pc = "mark" => Rpc!At(Ingester)' = at /\ count = 3
    BY <1>3, <1>7 DEF Rpc!At, WorkerCall
  <2> QED BY <1>3, <1>6, <2>1, <2>2, <2>3 DEF MarksAreCounted
<1>12. LastRefuses' /\ \A x \in First .. pool.healthy : FewFailures(x)'
  <2>1. failures'[at] \in 0 .. failures[at] + 1
    BY <1>1, <1>4, <1>5, <1>6
  <2>2. WorkerCall.pc # "mark" /\ pool' = pool /\ activeIndex' = activeIndex
    BY <1>3
  <2> QED BY <1>3, <1>6, <1>7, <1>8, <2>1, <2>2, WorkerGoesRound
<1> QED BY <1>3, <1>8, <1>10, <1>11, <1>12 DEF WorkerSound

\* The mark comes after the count.
LEMMA WorkerMarks ==
  ASSUME Rpc!EndpointsAssumption, PoolSound, WorkerSound, pool.process = "ingest",
         pool.healthy <= 3, Rpc!MarkDown(Ingester)
  PROVE  WorkerSound'
<1>1. /\ WorkerCall \in PoolCall
      /\ pool.last \in Nat /\ pool.healthy \in 0 .. pool.last /\ Rpc!Endpoints = 0 .. pool.last
      /\ WorkerCall.start \in 0 .. pool.last /\ WorkerCall.tried \in 0 .. pool.last + 1
      /\ WorkerCall.from \in -1 .. pool.last /\ activeIndex \in -1 .. pool.last
      /\ \A x \in 0 .. pool.last : failures[x] \in 0 .. 3
      /\ First \in 0 .. pool.last
  BY WorkerFacts
<1>2. CallsGoOn /\ MarksAreCounted /\ LastRefuses /\ \A x \in First .. pool.healthy : FewFailures(x)
  BY DEF WorkerSound
<1>3. Working /\ WorkerCall.tried <= pool.last /\ WorkerCall.pc = "mark"
      /\ UNCHANGED <<pool, failures, activeIndex>>
  BY WorkerFacts DEF Rpc!MarkDown, Working, WorkerCall
<1>4. /\ WorkerCall'.start = WorkerCall.start /\ WorkerCall'.from = WorkerCall.from
      /\ WorkerCall'.paging = WorkerCall.paging /\ ~WorkerCall'.cancelled
      /\ WorkerCall'.err = WorkerCall.err /\ WorkerCall'.pc = "loop"
      /\ WorkerCall'.tried = WorkerCall.tried + 1
  <2>1. client \in [Clients \cup {Ingester} -> PoolCall]
    BY DEF PoolSound, PoolTyped
  <2>2. ~WorkerCall.cancelled
    BY <1>2 DEF CallsGoOn
  <2>3. WorkerCall' = [WorkerCall EXCEPT !.pc = "loop", !.tried = @ + 1]
    BY <2>1 DEF Rpc!MarkDown, Rpc!Moved, WorkerCall
  <2> QED BY <1>1, <2>2, <2>3 DEF PoolCall
<1>5. /\ Working' /\ (Stale' <=> Stale) /\ First' = First
      /\ Beyond(Ingester) = WorkerCall.tried + 1 /\ Beyond(Ingester)' = WorkerCall.tried + 1
  BY <1>3, <1>4 DEF Working, Stale, First, Beyond, WorkerCall
<1>6. Stale
  BY <1>2, <1>3 DEF CallsGoOn
<1>7. CallsGoOn'
  BY <1>2, <1>3, <1>4, <1>5, <1>6 DEF CallsGoOn
<1>8. MarksAreCounted'
  <2>1. Rpc!Endpoints' = Rpc!Endpoints
    BY <1>3 DEF Rpc!Endpoints
  <2>2. downUntil' = [downUntil EXCEPT ![Rpc!At(Ingester)] = TRUE]
    BY DEF Rpc!MarkDown
  <2>3. \A x \in Rpc!Endpoints : downUntil'[x] => x = Rpc!At(Ingester) \/ downUntil[x]
    BY <2>2 DEF PoolSound, PoolTyped
  <2> QED BY <1>2, <1>3, <1>4, <2>1, <2>3 DEF MarksAreCounted
<1>9. LastRefuses' /\ \A x \in First .. pool.healthy : FewFailures(x)'
  <2>1. Beyond(Ingester)' = Beyond(Ingester) /\ failures' = failures /\ pool' = pool
        /\ activeIndex' = activeIndex
    BY <1>3, <1>5
  <2> QED BY <1>3, <1>4, <1>5, <2>1, WorkerGoesRound
<1> QED BY <1>3, <1>5, <1>7, <1>8, <1>9 DEF WorkerSound

\* An endpoint that answers becomes the active one: the healthy one, or one before it.
LEMMA WorkerIsAnswered ==
  ASSUME Rpc!EndpointsAssumption, PoolSound, WorkerSound, pool.process = "ingest",
         pool.healthy <= 3, Rpc!Answer(Ingester)
  PROVE  WorkerSound'
<1>1. /\ WorkerCall \in PoolCall
      /\ pool.last \in Nat /\ pool.healthy \in 0 .. pool.last /\ Rpc!Endpoints = 0 .. pool.last
      /\ WorkerCall.start \in 0 .. pool.last /\ WorkerCall.tried \in 0 .. pool.last + 1
      /\ WorkerCall.from \in -1 .. pool.last /\ activeIndex \in -1 .. pool.last
      /\ \A x \in 0 .. pool.last : failures[x] \in 0 .. 3
      /\ First \in 0 .. pool.last
  BY WorkerFacts
<1>2. CallsGoOn /\ MarksAreCounted /\ LastRefuses /\ \A x \in First .. pool.healthy : FewFailures(x)
  BY DEF WorkerSound
<1>3. Working /\ WorkerCall.tried <= pool.last /\ WorkerCall.pc = "asked"
      /\ UNCHANGED <<pool, downUntil>>
  BY WorkerFacts DEF Rpc!Answer, Working, WorkerCall
<1> DEFINE at == Rpc!At(Ingester)
<1>4. /\ at \in 0 .. pool.last
      /\ ~Stale => at = First + WorkerCall.tried /\ at <= pool.healthy
      /\ at \in First .. pool.healthy => at - WorkerCall.start = WorkerCall.tried
      /\ Stale => (at = activeIndex - 1 <=> WorkerCall.tried = pool.last)
      /\ Stale => activeIndex = First /\ First >= 1 /\ First <= pool.healthy
  BY <1>3, WorkerIsAt
<1>5. ~Stale /\ at = First + WorkerCall.tried /\ at \in First .. pool.healthy
  BY <1>1, <1>2, <1>3, <1>4 DEF CallsGoOn
<1>6. activeIndex' = at /\ failures' = [failures EXCEPT ![at] = 0]
  BY DEF Rpc!Answer
<1>7. failures'[at] = 0 /\ \A x \in Rpc!Endpoints : x # at => failures'[x] = failures[x]
  BY <1>1, <1>4, <1>6 DEF PoolSound, PoolTyped
<1>8. WorkerCall'.pc = "page" /\ WorkerCall'.from = WorkerCall.from /\ ~WorkerCall'.cancelled
  <2>1. client \in [Clients \cup {Ingester} -> PoolCall]
    BY DEF PoolSound, PoolTyped
  <2>2. WorkerCall' = [Rpc!Idle EXCEPT !.pc = "page", !.from = WorkerCall.from]
    BY <2>1 DEF Rpc!Answer, Rpc!Moved, WorkerCall
  <2> QED BY <2>2 DEF Rpc!Idle
<1>9. ~Working' /\ First' = at /\ at >= 0 /\ at <= 3
  BY <1>1, <1>4, <1>5, <1>6, <1>8 DEF Working, First
<1> HIDE DEF at
<1>10. WorkerCall.from <= activeIndex /\ activeIndex <= First /\ First <= at
  BY <1>1, <1>2, <1>5 DEF CallsGoOn, First
<1>11. Stale' => activeIndex >= 0 /\ activeIndex = First /\ First < at
  BY <1>1, <1>4, <1>5, <1>6, <1>8, <1>10 DEF Stale, First
<1>12. CallsGoOn'
  BY <1>1, <1>3, <1>4, <1>5, <1>6, <1>8, <1>9, <1>10 DEF CallsGoOn
<1>13. MarksAreCounted'
  <2>1. Rpc!Endpoints' = Rpc!Endpoints
    BY <1>3 DEF Rpc!Endpoints
  <2>2. ~downUntil[at]
    <3>1. ~Behind(at)
      <4>1. Beyond(Ingester) = WorkerCall.tried
        BY <1>3 DEF Beyond, WorkerCall
      <4> QED BY <1>1, <1>4, <1>5, <4>1 DEF Behind
    <3> QED BY <1>5, <3>1, NextIsUp
  <2> QED BY <1>2, <1>3, <1>7, <1>8, <2>1, <2>2 DEF MarksAreCounted
<1>14. \A x \in First .. pool.healthy :
         failures[x] <= (IF x = activeIndex THEN 1 ELSE First) + (IF x < at THEN 1 ELSE 0)
  <2> TAKE x \in First .. pool.healthy
  <2> DEFINE most == IF x = activeIndex THEN 1 ELSE First
  <2>1. Behind(x) <=> x < at
    <3>1. Beyond(Ingester) = WorkerCall.tried /\ WorkerCall.start = First
      BY <1>2, <1>3 DEF Beyond, WorkerCall, CallsGoOn
    <3> QED BY <1>1, <1>3, <1>5, <3>1 DEF Behind
  <2>2. failures[x] + 0 <= most + (IF x < at THEN 1 ELSE 0)
    BY <1>2, <1>5, <2>1 DEF FewFailures
  <2>3. failures[x] \in Int
    BY <1>1
  <2> QED BY <2>2, <2>3
<1>15. ASSUME NEW x \in First' .. pool.healthy PROVE FewFailures(x)'
  <2>1. ~Behind(x)' /\ x \in First .. pool.healthy /\ x \in Rpc!Endpoints /\ x >= at
    BY <1>1, <1>4, <1>9, <1>10, <1>15 DEF Behind
  <2>2. CASE x = at
    <3>1. failures'[x] = 0 /\ x = activeIndex'
      BY <1>6, <1>7, <2>2
    <3> QED BY <2>1, <3>1 DEF FewFailures
  <2>3. CASE x # at
    <3>1. failures'[x] = failures[x] /\ x # activeIndex' /\ x > at /\ x # activeIndex
      BY <1>1, <1>4, <1>6, <1>7, <1>10, <2>1, <2>3
    <3>2. failures[x] \in Int /\ First \in Int /\ at \in Int /\ ~(x < at)
      BY <1>1, <1>4, <2>1
    <3>3. failures[x] <= First
      <4>1. failures[x] <= (IF x = activeIndex THEN 1 ELSE First) + (IF x < at THEN 1 ELSE 0)
        BY <1>14, <2>1
      <4> QED BY <3>1, <3>2, <4>1
    <3>4. failures[x] + (IF Stale' THEN 1 ELSE 0) <= at + 0
      BY <1>10, <1>11, <3>2, <3>3
    <3> QED BY <1>9, <2>1, <3>1, <3>4 DEF FewFailures
  <2> QED BY <2>2, <2>3
<1>16. LastRefuses'
  <2> SUFFICES ASSUME Stale' PROVE failures'[at - 1] <= 2
    BY <1>6 DEF LastRefuses
  <2>1. at - 1 \in First .. pool.healthy /\ at - 1 \in Rpc!Endpoints /\ at - 1 # at /\ at - 1 < at
    <3>1. at \in Nat /\ at <= pool.healthy /\ First \in Nat /\ First < at
      BY <1>1, <1>4, <1>5, <1>11
    <3>2. pool.healthy \in Nat /\ pool.last \in Nat /\ pool.healthy <= pool.last
      BY <1>1
    <3>3. at - 1 \in 0 .. pool.last
      BY <3>1, <3>2
    <3> QED BY <1>1, <3>1, <3>2, <3>3
  <2>2. failures[at - 1] <= (IF at - 1 = activeIndex THEN 1 ELSE First) + 1
    <3> DEFINE y == at - 1
    <3> HIDE DEF y
    <3>1. y \in First .. pool.healthy /\ y < at
      BY <2>1 DEF y
    <3>2. failures[y] <= (IF y = activeIndex THEN 1 ELSE First) + 1
      BY <1>14, <3>1
    <3> QED BY <3>2 DEF y
  <2>3. at - 1 # activeIndex => First <= 1
    BY <1>1, <1>4, <1>9, <1>11, <2>1
  <2>4. failures'[at - 1] = failures[at - 1] /\ failures[at - 1] \in Int
    BY <1>1, <1>7, <2>1
  <2> QED BY <1>1, <2>2, <2>3, <2>4
<1> QED BY <1>3, <1>12, <1>13, <1>15, <1>16 DEF WorkerSound

\* What is proved of the worker's calls is proved at every step of them.
LEMMA WorkerStays ==
  ASSUME Rpc!EndpointsAssumption, PoolSound, WorkerSound, [Rpc!Next]_Rpc!poolVars
  PROVE  WorkerSound'
<1>1. pool' = pool
  BY DEF Rpc!Next, Rpc!poolVars, Rpc!Begin, Rpc!NextPage, Rpc!Skip, Rpc!Ask, Rpc!Answer,
         Rpc!AnswerError, Rpc!Refuse, Rpc!CutShort, Rpc!MarkDown, Rpc!Retry, Rpc!GiveUp,
         Rpc!Cancel, Rpc!Recover, Rpc!Fails
<1> SUFFICES ASSUME pool.process = "ingest", pool.healthy <= 3 PROVE WorkerSound'
  BY <1>1 DEF WorkerSound
<1>2. CallsGoOn /\ MarksAreCounted /\ LastRefuses /\ \A x \in First .. pool.healthy : FewFailures(x)
  BY DEF WorkerSound
<1>3. /\ WorkerCall \in PoolCall
      /\ pool.last \in Nat /\ pool.healthy \in 0 .. pool.last /\ Rpc!Endpoints = 0 .. pool.last
      /\ WorkerCall.start \in 0 .. pool.last /\ WorkerCall.tried \in 0 .. pool.last + 1
      /\ First \in 0 .. pool.last
  BY WorkerFacts
<1>4. Rpc!Running = {Ingester}
  BY DEF Rpc!Running
<1>5. ASSUME Rpc!Exhausted(Ingester)
      PROVE  Stale /\ WorkerCall.err = "reanchor" /\ \A x \in First .. pool.healthy : Behind(x)
  <2>1. Working /\ WorkerCall.tried > pool.last /\ Beyond(Ingester) = WorkerCall.tried
    BY <1>5 DEF Rpc!Exhausted, Working, Beyond, WorkerCall
  <2>2. WorkerCall.tried = pool.last + 1 /\ WorkerCall.start = First
    BY <1>2, <1>3, <2>1 DEF CallsGoOn
  <2>3. Stale
    BY <1>2, <1>3, <2>1, <2>2 DEF CallsGoOn
  <2>4. WorkerCall.err = "reanchor"
    BY <1>2, <2>1, <2>2, <2>3 DEF CallsGoOn
  <2>5. \A x \in First .. pool.healthy : Behind(x)
    BY <1>3, <2>1, <2>2 DEF Behind
  <2> QED BY <2>3, <2>4, <2>5
<1>6. ASSUME Rpc!GiveUp(Ingester) PROVE WorkerSound'
  <2>1. Rpc!Exhausted(Ingester) /\ UNCHANGED <<pool, failures, downUntil, activeIndex>>
    BY <1>6 DEF Rpc!GiveUp
  <2>2. Stale /\ WorkerCall.err = "reanchor" /\ \A x \in First .. pool.healthy : Behind(x)
    BY <1>5, <2>1
  <2>3. WorkerCall'.pc = "reanchor" /\ WorkerCall'.from = -1 /\ ~WorkerCall'.cancelled
    <3>1. client \in [Clients \cup {Ingester} -> PoolCall]
      BY DEF PoolSound, PoolTyped
    <3>2. WorkerCall' = [Rpc!Idle EXCEPT !.pc = "reanchor", !.cancelled = WorkerCall.cancelled,
                                         !.missed = WorkerCall.missed]
      BY <1>6, <2>2, <3>1 DEF Rpc!GiveUp, Rpc!Moved, WorkerCall
    <3> QED BY <1>2, <3>2 DEF Rpc!Idle, CallsGoOn
  <2>4. ~Working' /\ ~Stale' /\ First' = First
    BY <2>1, <2>3 DEF Working, Stale, First
  <2>5. activeIndex >= -1
    BY WorkerFacts
  <2>6. CallsGoOn'
    BY <1>2, <2>1, <2>3, <2>4, <2>5 DEF CallsGoOn
  <2>7. MarksAreCounted' /\ LastRefuses'
    BY <1>2, <2>1, <2>3, <2>4 DEF MarksAreCounted, LastRefuses, Rpc!Endpoints
  <2>8. \A x \in First .. pool.healthy : FewFailures(x)'
    <3> TAKE x \in First .. pool.healthy
    <3>1. Behind(x) /\ ~Behind(x)'
      BY <2>2, <2>4 DEF Behind
    <3> QED BY <1>2, <2>1, <2>2, <2>4, <3>1 DEF FewFailures
  <2> QED BY <2>1, <2>4, <2>6, <2>7, <2>8 DEF WorkerSound
<1>7. ~Rpc!Retry(Ingester)
  BY <1>5 DEF Rpc!Retry, WorkerCall
<1>8. ~Rpc!CutShort(Ingester) /\ ~Rpc!Cancel(Ingester)
  BY <1>2 DEF Rpc!CutShort, Rpc!Cancel, CallsGoOn, WorkerCall
<1>9. ASSUME NEW e \in {"transient", "permanent"}, Rpc!AnswerError(Ingester, e) PROVE WorkerSound'
  <2>1. WorkerCall.pc = "asked" /\ Rpc!At(Ingester) # pool.healthy /\ Rpc!Fails(Ingester, e)
    BY <1>9 DEF Rpc!AnswerError, WorkerCall
  <2>2. ~Stale
    BY <1>2, <2>1 DEF CallsGoOn, Working
  <2> QED BY <2>1, <2>2, WorkerFails
<1>10. ASSUME Rpc!Refuse(Ingester) PROVE WorkerSound'
  <2>1. WorkerCall.pc = "refused" /\ Rpc!Fails(Ingester, "reanchor")
    BY <1>10 DEF Rpc!Refuse, WorkerCall
  <2>2. Stale
    BY <1>2, <2>1 DEF CallsGoOn, Working
  <2> QED BY <2>1, <2>2, WorkerFails
<1>11. ASSUME NEW x \in Rpc!Endpoints, Rpc!Recover(x) PROVE WorkerSound'
  <2>1. UNCHANGED <<pool, failures, activeIndex, client>> /\ downUntil' = [downUntil EXCEPT ![x] = FALSE]
    BY <1>11 DEF Rpc!Recover
  <2>2. \A y \in Rpc!Endpoints : downUntil'[y] => downUntil[y]
    BY <2>1 DEF PoolSound, PoolTyped
  <2>3. MarksAreCounted'
    BY <1>2, <2>1, <2>2 DEF MarksAreCounted, Rpc!Endpoints, WorkerCall, Rpc!At
  <2>4. CallsGoOn' /\ LastRefuses' /\ First' = First
    BY <1>2, <2>1 DEF CallsGoOn, LastRefuses, WorkerCall, Working, Stale, First, Beyond
  <2>5. \A y \in First .. pool.healthy : FewFailures(y)'
    BY <1>2, <2>1 DEF FewFailures, Behind, WorkerCall, Working, Stale, First, Beyond
  <2> QED BY <2>1, <2>3, <2>4, <2>5 DEF WorkerSound
<1>12. CASE UNCHANGED Rpc!poolVars
  <2>1. UNCHANGED <<pool, failures, activeIndex, client, downUntil>>
    BY <1>12 DEF Rpc!poolVars
  <2>2. MarksAreCounted'
    BY <1>2, <2>1 DEF MarksAreCounted, Rpc!Endpoints, WorkerCall, Rpc!At
  <2>3. CallsGoOn' /\ LastRefuses' /\ First' = First
    BY <1>2, <2>1 DEF CallsGoOn, LastRefuses, WorkerCall, Working, Stale, First, Beyond
  <2>4. \A y \in First .. pool.healthy : FewFailures(y)'
    BY <1>2, <2>1 DEF FewFailures, Behind, WorkerCall, Working, Stale, First, Beyond
  <2> QED BY <2>1, <2>2, <2>3, <2>4 DEF WorkerSound
<1>13. CASE Rpc!Begin(Ingester) \/ Rpc!NextPage(Ingester)
  BY <1>13, WorkerBegins
<1>14. CASE Rpc!Skip(Ingester) \/ Rpc!Ask(Ingester)
  BY <1>14, WorkerAsks
<1>15. CASE Rpc!Answer(Ingester)
  BY <1>15, WorkerIsAnswered
<1>16. CASE Rpc!MarkDown(Ingester)
  BY <1>16, WorkerMarks
<1> QED
  BY <1>4, <1>6, <1>7, <1>8, <1>9, <1>10, <1>11, <1>12, <1>13, <1>14, <1>15, <1>16 DEF Rpc!Next

\* A worker is served whatever its endpoints do, however many they are, if one of the first four
\* answers; the API is, wherever that one is.
THEOREM HealthyEndpointServes == Rpc!EndpointsAssumption => (Rpc!Spec => []Rpc!HealthyServes)
<1> SUFFICES ASSUME Rpc!EndpointsAssumption PROVE Rpc!Spec => []Rpc!HealthyServes
  OBVIOUS
<1>1. Rpc!Init => PoolSound /\ WorkerSound
  BY PoolAtFirst, WorkerAtFirst
<1>2. PoolSound /\ WorkerSound /\ [Rpc!Next]_Rpc!poolVars => (PoolSound /\ WorkerSound)'
  BY PoolTypesStay, WorkerStays
<1>3. PoolSound /\ WorkerSound => Rpc!WorkerIsServed
  <2> SUFFICES ASSUME PoolSound, WorkerSound, pool.process = "ingest", pool.healthy <= 3
               PROVE  ~downUntil[pool.healthy] /\ client[Ingester].pc # "failed"
    BY DEF Rpc!WorkerIsServed
  <2>1. pool.healthy \in First .. pool.healthy /\ pool.healthy \in 0 .. pool.last
        /\ Rpc!Endpoints = 0 .. pool.last /\ First \in 0 .. pool.last
        /\ failures[pool.healthy] \in 0 .. 3
    BY WorkerFacts DEF WorkerSound, CallsGoOn, First
  <2>2. CallsGoOn /\ MarksAreCounted /\ FewFailures(pool.healthy)
    BY <2>1 DEF WorkerSound
  <2>3. ~Stale => ~Behind(pool.healthy)
    <3>1. Working /\ ~Stale => Beyond(Ingester) = WorkerCall.tried
                               /\ WorkerCall.start + WorkerCall.tried <= pool.healthy
      BY <2>2 DEF CallsGoOn, Beyond, WorkerCall
    <3>2. WorkerCall.start \in Int /\ WorkerCall.tried \in Int
      BY WorkerFacts
    <3> QED BY <2>1, <3>1, <3>2 DEF Behind
  <2>4. failures[pool.healthy] <= IF pool.healthy = activeIndex THEN 1 ELSE First
    <3> DEFINE most == IF pool.healthy = activeIndex THEN 1 ELSE First
    <3>1. failures[pool.healthy] + (IF Stale /\ ~Behind(pool.healthy) THEN 1 ELSE 0) <= most + 0
      BY <2>2, <2>3 DEF FewFailures
    <3>2. most \in Int
      BY <2>1
    <3> HIDE DEF most
    <3>3. failures[pool.healthy] <= most
      BY <2>1, <3>1, <3>2
    <3> QED BY <3>3 DEF most
  <2>5. pool.healthy # activeIndex => First = 0 \/ First < pool.healthy
    BY <2>1 DEF First
  <2>6. failures[pool.healthy] <= 2
    BY <2>1, <2>4, <2>5
  <2> QED BY <2>1, <2>2, <2>6 DEF MarksAreCounted, CallsGoOn, WorkerCall
<1> QED
  BY <1>1, <1>2, <1>3, RequestsAreAnswered, PTL DEF Rpc!Spec, Rpc!HealthyServes

---------------------------------------------------------------------------
\* The rows of the registry.

\* What a row holds, in sets.
SchemaRow ==
  [publisher : Publishers, event : Reads!EventNames, version : 1 .. MaxClock,
   tier : {"community", "verified"}, status : {"published", "archived"},
   created : 1 .. MaxClock, updated : 1 .. MaxClock, body : Bodies]

\* Rows are never deleted, and there are fewer than ticks of the clock: a version is one more
\* than those before it.  Each is created at a time of its own, which is over.
RowsAreOrdered ==
  /\ time \in 1 .. MaxClock
  /\ schemaRows \subseteq SchemaRow
  /\ \A r \in schemaRows :
       /\ r.event = r.body.name
       /\ r.created < time /\ r.created <= r.updated /\ r.updated <= time
  /\ \A r, s \in schemaRows : r.created = s.created => r = s
  /\ IsFiniteSet(schemaRows) /\ Cardinality(schemaRows) < time

LEMMA RowsAtFirst == Reads!SchemasAssumption /\ Reads!Init => RowsAreOrdered
<1> SUFFICES ASSUME Reads!SchemasAssumption, Reads!Init PROVE RowsAreOrdered
  OBVIOUS
<1>1. IsFiniteSet({}) /\ Cardinality({}) = 0
  BY FS_EmptySet
<1> QED BY <1>1 DEF Reads!SchemasAssumption, Reads!Init, RowsAreOrdered

\* Statements that write tier, status or time of rows that there are.
LEMMA RowsAreRewritten ==
  ASSUME RowsAreOrdered, NEW f \in [schemaRows -> SchemaRow],
         schemaRows' \subseteq {f[r] : r \in schemaRows}, time' = time,
         \A r \in schemaRows :
           /\ f[r].event = r.event /\ f[r].body = r.body
           /\ f[r].created = r.created
           /\ f[r].updated = r.updated \/ f[r].updated = time
  PROVE  RowsAreOrdered'
<1> DEFINE image == {f[r] : r \in schemaRows}
<1>1. IsFiniteSet(image) /\ Cardinality(image) <= Cardinality(schemaRows)
  <2>1. f \in Surjection(schemaRows, image)
    BY DEF Surjection
  <2> HIDE DEF image
  <2> QED BY <2>1, FS_Surjection DEF RowsAreOrdered
<1>2. IsFiniteSet(schemaRows') /\ Cardinality(schemaRows') <= Cardinality(image)
  BY <1>1, FS_Subset
<1>3. Cardinality(schemaRows') \in Nat /\ Cardinality(image) \in Nat /\ Cardinality(schemaRows) \in Nat
  BY <1>1, <1>2, FS_CardinalityType DEF RowsAreOrdered
<1>4. Cardinality(schemaRows') < time'
  BY <1>1, <1>2, <1>3 DEF RowsAreOrdered
<1>5. ASSUME NEW x \in schemaRows'
      PROVE  /\ x \in SchemaRow /\ x.event = x.body.name
             /\ x.created < time /\ x.created <= x.updated /\ x.updated <= time
  <2>1. PICK r \in schemaRows : x = f[r]
    BY <1>5
  <2>2. r \in SchemaRow /\ r.event = r.body.name
        /\ r.created < time /\ r.created <= r.updated /\ r.updated <= time /\ time \in Nat
    BY DEF RowsAreOrdered
  <2>3. r.created \in Nat /\ r.updated \in Nat
    BY <2>2 DEF SchemaRow
  <2> QED BY <2>1, <2>2, <2>3
<1>6. SchemaRow' = SchemaRow
  BY DEF SchemaRow, Reads!EventNames
<1>7. ASSUME NEW x \in schemaRows', NEW y \in schemaRows', x.created = y.created PROVE x = y
  <2>1. PICK r \in schemaRows : x = f[r]
    BY <1>7
  <2>2. PICK s \in schemaRows : y = f[s]
    BY <1>7
  <2>3. r.created = s.created
    BY <1>7, <2>1, <2>2
  <2>4. r = s
    BY <2>3 DEF RowsAreOrdered
  <2> QED BY <2>1, <2>2, <2>4
<1> QED BY <1>2, <1>4, <1>5, <1>6, <1>7 DEF RowsAreOrdered

LEMMA RowsStayOrdered ==
  ASSUME Reads!SchemasAssumption, RowsAreOrdered, [Reads!Next]_Reads!readVars
  PROVE  RowsAreOrdered'
<1>1. /\ MaxClock \in Nat \ {0} /\ time \in 1 .. MaxClock /\ time \in Nat
      /\ schemaRows \subseteq SchemaRow /\ IsFiniteSet(schemaRows)
      /\ Cardinality(schemaRows) \in Nat /\ Cardinality(schemaRows) < time
  BY FS_CardinalityType DEF Reads!SchemasAssumption, RowsAreOrdered
<1>2. ASSUME NEW r \in schemaRows
      PROVE  Reads!Verified(r) \in SchemaRow /\ Reads!Verified(r).event = r.event
             /\ Reads!Verified(r).body = r.body /\ Reads!Verified(r).created = r.created
             /\ Reads!Verified(r).updated = time
  <2>1. r \in SchemaRow
    BY <1>1
  <2> QED BY <1>1, <2>1 DEF Reads!Verified, SchemaRow
<1>3. ASSUME Reads!Elapse PROVE RowsAreOrdered'
  <2>1. time' = time + 1 /\ time < MaxClock /\ schemaRows' = schemaRows
    BY <1>3 DEF Reads!Elapse
  <2>2. \A r \in schemaRows : r.created \in Nat /\ r.updated \in Nat
    BY <1>1 DEF SchemaRow
  <2>3. SchemaRow' = SchemaRow /\ time' \in 1 .. MaxClock /\ Cardinality(schemaRows) < time'
    BY <1>1, <2>1 DEF SchemaRow, Reads!EventNames
  <2>4. \A r \in schemaRows : r.created < time' /\ r.updated <= time'
    BY <1>1, <2>1, <2>2 DEF RowsAreOrdered
  <2> QED BY <1>1, <2>1, <2>3, <2>4 DEF RowsAreOrdered
<1>4. ASSUME NEW p \in Publishers, NEW b \in Bodies, Reads!Publish(p, b) PROVE RowsAreOrdered'
  <2> DEFINE mine == Reads!Of(p, b.name)
             new == [publisher |-> p, event |-> b.name, version |-> Reads!Cardinality(mine) + 1,
                     tier |-> "community", status |-> "published", created |-> time,
                     updated |-> time, body |-> b]
  <2>1. time < MaxClock /\ schemaRows' = schemaRows \cup {new} /\ time' = time + 1
    BY <1>4 DEF Reads!Publish
  <2>2. Reads!Cardinality(mine) = Cardinality(mine)
    BY DEF Reads!Cardinality, Cardinality
  <2>3. IsFiniteSet(mine) /\ Cardinality(mine) <= Cardinality(schemaRows)
    BY <1>1, FS_Subset DEF Reads!Of
  <2>4. Cardinality(mine) \in Nat
    BY <2>3, FS_CardinalityType
  <2>5. Reads!Cardinality(mine) + 1 \in 1 .. MaxClock
    BY <1>1, <2>1, <2>2, <2>3, <2>4
  <2> HIDE DEF mine
  <2>6. new \in SchemaRow /\ new.event = new.body.name /\ new.created = time /\ new.updated = time
    BY <1>1, <2>5 DEF SchemaRow, Reads!EventNames
  <2> HIDE DEF new
  <2>7. IsFiniteSet(schemaRows') /\ Cardinality(schemaRows') <= Cardinality(schemaRows) + 1
    <3>1. IsFiniteSet(schemaRows \cup {new})
          /\ (Cardinality(schemaRows \cup {new}) = Cardinality(schemaRows)
              \/ Cardinality(schemaRows \cup {new}) = Cardinality(schemaRows) + 1)
      BY <1>1, FS_AddElement
    <3> QED BY <1>1, <2>1, <3>1
  <2>8. Cardinality(schemaRows') \in Nat
    BY <2>7, FS_CardinalityType
  <2>9. time' \in 1 .. MaxClock /\ Cardinality(schemaRows') < time'
    BY <1>1, <2>1, <2>7, <2>8
  <2>10. ASSUME NEW r \in schemaRows'
         PROVE  /\ r \in SchemaRow /\ r.event = r.body.name
                /\ r.created < time' /\ r.created <= r.updated /\ r.updated <= time'
    <3>1. CASE r = new
      BY <1>1, <2>1, <2>6, <3>1
    <3>2. CASE r \in schemaRows
      <4>1. r \in SchemaRow
        BY <1>1, <3>2
      <4>2. r.created \in Nat /\ r.updated \in Nat
        BY <4>1 DEF SchemaRow
      <4> QED BY <1>1, <2>1, <3>2, <4>1, <4>2 DEF RowsAreOrdered
    <3> QED BY <2>1, <2>10, <3>1, <3>2
  <2>11. SchemaRow' = SchemaRow
    BY DEF SchemaRow, Reads!EventNames
  <2>12. ASSUME NEW r \in schemaRows', NEW s \in schemaRows', r.created = s.created PROVE r = s
    <3>1. \A q \in schemaRows : q.created # time
      <4> TAKE q \in schemaRows
      <4>1. q \in SchemaRow /\ q.created < time
        BY DEF RowsAreOrdered
      <4>2. q.created \in Nat
        BY <4>1 DEF SchemaRow
      <4> QED BY <1>1, <4>1, <4>2
    <3> QED BY <2>1, <2>6, <2>12, <3>1 DEF RowsAreOrdered
  <2> QED BY <2>7, <2>9, <2>10, <2>11, <2>12 DEF RowsAreOrdered
<1>5. ASSUME NEW x \in schemaRows, Reads!MarkVerified(x) PROVE RowsAreOrdered'
  <2> DEFINE f == [r \in schemaRows |-> IF r = x THEN Reads!Verified(r) ELSE r]
  <2>1. f \in [schemaRows -> SchemaRow]
    BY <1>1, <1>2
  <2>2. schemaRows' \subseteq {f[r] : r \in schemaRows} /\ time' = time
    <3>1. schemaRows' = (schemaRows \ {x}) \cup {Reads!Verified(x)} /\ time' = time
      BY <1>5 DEF Reads!MarkVerified
    <3>2. f[x] = Reads!Verified(x) /\ \A r \in schemaRows \ {x} : f[r] = r
      OBVIOUS
    <3> HIDE DEF f
    <3> QED BY <3>1, <3>2
  <2>3. \A r \in schemaRows :
          /\ f[r].event = r.event /\ f[r].body = r.body /\ f[r].created = r.created
          /\ f[r].updated = r.updated \/ f[r].updated = time
    BY <1>2
  <2> HIDE DEF f
  <2> QED BY <2>1, <2>2, <2>3, RowsAreRewritten
<1>6. ASSUME NEW p \in Publishers, Reads!VerifyContract(p) PROVE RowsAreOrdered'
  <2> DEFINE T == Reads!Targets(p)
             replaced == {r \in Reads!Published : r.tier = "verified" /\ \E t \in T : t.event = r.event}
             Archived(r) == [r EXCEPT !.status = "archived", !.updated = time]
             f == [r \in schemaRows |-> IF r \in T THEN Reads!Verified(r)
                                        ELSE IF r \in replaced THEN Archived(r) ELSE r]
  <2>1. ASSUME NEW r \in schemaRows
        PROVE  Archived(r) \in SchemaRow /\ Archived(r).event = r.event /\ Archived(r).body = r.body
               /\ Archived(r).created = r.created /\ Archived(r).updated = time
    <3>1. r \in SchemaRow
      BY <1>1
    <3> QED BY <1>1, <3>1 DEF SchemaRow
  <2>2. T \subseteq schemaRows /\ replaced \subseteq schemaRows /\ T \cap replaced = {}
    BY DEF Reads!Targets, Reads!Published
  <2>3. schemaRows' = (schemaRows \ (T \cup replaced)) \cup {Reads!Verified(t) : t \in T}
                        \cup {Archived(r) : r \in replaced}
        /\ time' = time
    BY <1>6 DEF Reads!VerifyContract
  <2> HIDE DEF T, replaced, Archived
  <2>4. f \in [schemaRows -> SchemaRow]
    BY <1>1, <1>2, <2>1
  <2>5. schemaRows' \subseteq {f[r] : r \in schemaRows}
    <3> SUFFICES ASSUME NEW x \in schemaRows' PROVE \E r \in schemaRows : x = f[r]
      OBVIOUS
    <3>1. CASE x \in schemaRows \ (T \cup replaced)
      BY <3>1
    <3>2. CASE x \in {Reads!Verified(t) : t \in T}
      BY <2>2, <3>2
    <3>3. CASE x \in {Archived(r) : r \in replaced}
      BY <2>2, <3>3
    <3> QED BY <2>3, <3>1, <3>2, <3>3
  <2>6. \A r \in schemaRows :
          /\ f[r].event = r.event /\ f[r].body = r.body /\ f[r].created = r.created
          /\ f[r].updated = r.updated \/ f[r].updated = time
    BY <1>2, <2>1
  <2> HIDE DEF f
  <2> QED BY <2>3, <2>4, <2>5, <2>6, RowsAreRewritten
<1>7. CASE UNCHANGED Reads!readVars
  BY <1>7 DEF Reads!readVars, RowsAreOrdered, SchemaRow, Reads!EventNames
<1> QED
  BY <1>3, <1>4, <1>5, <1>6, <1>7 DEF Reads!Next

LEMMA RowsStayInOrder ==
  Reads!SchemasAssumption => (Reads!Spec => []RowsAreOrdered)
<1> SUFFICES ASSUME Reads!SchemasAssumption PROVE Reads!Spec => []RowsAreOrdered
  OBVIOUS
<1>1. Reads!Init => RowsAreOrdered
  BY RowsAtFirst
<1>2. RowsAreOrdered /\ [Reads!Next]_Reads!readVars => RowsAreOrdered'
  BY RowsStayOrdered
<1> QED BY <1>1, <1>2, PTL DEF Reads!Spec

LEMMA RowsTyped == Reads!SchemasAssumption /\ RowsAreOrdered => Reads!TypeOK
<1> SUFFICES ASSUME Reads!SchemasAssumption, RowsAreOrdered,  NEW r \in schemaRows
             PROVE  /\ r.publisher \in Publishers /\ r.body \in Bodies
                    /\ r.version \in 1 .. MaxClock
                    /\ r.created \in 1 .. time /\ r.updated \in r.created .. time
                    /\ r.tier \in {"community", "verified"}
                    /\ r.status \in {"published", "archived"}
  BY DEF RowsAreOrdered, Reads!TypeOK
<1>1. r \in SchemaRow /\ time \in Nat /\ MaxClock \in Nat
  BY DEF RowsAreOrdered, Reads!SchemasAssumption
<1>2. /\ r.publisher \in Publishers /\ r.body \in Bodies /\ r.version \in 1 .. MaxClock
      /\ r.tier \in {"community", "verified"} /\ r.status \in {"published", "archived"}
      /\ r.created \in Nat /\ r.created >= 1 /\ r.updated \in Nat
  BY <1>1 DEF SchemaRow
<1> QED BY <1>1, <1>2 DEF RowsAreOrdered

\* A row is of a publisher and an event, and is no newer than the clock, however publications
\* and verifications interleave.
THEOREM RowsAreTyped == Reads!SchemasAssumption => (Reads!Spec => []Reads!TypeOK)
<1> SUFFICES ASSUME Reads!SchemasAssumption PROVE Reads!Spec => []Reads!TypeOK
  OBVIOUS
<1>1. RowsAreOrdered => Reads!TypeOK
  BY RowsTyped
<1> QED BY <1>1, RowsStayInOrder, PTL

---------------------------------------------------------------------------
\* What the readers of the registry make of the rows.

\* Versions are bounded, so that rows have a newest among them.
LEMMA SomeAreNewest ==
  ASSUME Reads!SchemasAssumption, RowsAreOrdered, NEW S, S \subseteq schemaRows, NEW r \in S
  PROVE  \E v \in Reads!NewestOf(S) : r.version <= v.version
<1> DEFINE Room(s) == MaxClock - s.version
           T == {Room(s) : s \in S}
<1>1. \A s \in S : s.version \in 1 .. MaxClock
  BY DEF RowsAreOrdered, SchemaRow
<1>2. MaxClock \in Nat
  BY DEF Reads!SchemasAssumption
<1>3. T \subseteq Nat /\ T # {}
  BY <1>1, <1>2
<1>4. PICK m \in T : \A n \in T : m <= n
  BY <1>3, Least
<1>5. PICK v \in S : m = Room(v)
  BY <1>4
<1>6. ASSUME NEW s \in S PROVE s.version <= v.version
  <2>1. Room(v) <= Room(s)
    BY <1>4, <1>5
  <2>2. s.version \in Int /\ v.version \in Int
    BY <1>1
  <2> QED BY <1>2, <2>1, <2>2
<1>7. v \in Reads!NewestOf(S)
  BY <1>5, <1>6 DEF Reads!NewestOf
<1> QED BY <1>6, <1>7

\* The versions of an event and publisher that the button compares: the newest verified one
\* stands for all of them.
LEMMA ButtonIsSound ==
  Reads!SchemasAssumption /\ RowsAreOrdered => Reads!ButtonPromotes
<1> SUFFICES ASSUME Reads!SchemasAssumption, RowsAreOrdered, NEW p \in Publishers, Reads!CanVerify(p)
             PROVE  \E t \in Reads!Targets(p) : \A r \in Reads!Of(p, t.event) \cap Reads!Published :
                      r.tier = "verified" => r.version < t.version
  BY DEF Reads!ButtonPromotes
<1> DEFINE Mine(e) == Reads!Of(p, e) \cap Reads!Published
           OfTier(e, tier) == {r \in Mine(e) : r.tier = tier}
<1>1. PICK e \in Reads!EventNames : \E c \in Reads!NewestOf(OfTier(e, "community")) :
        \A v \in Reads!NewestOf(OfTier(e, "verified")) : v.version < c.version
  BY DEF Reads!CanVerify
<1>2. PICK c \in Reads!NewestOf(OfTier(e, "community")) :
        \A v \in Reads!NewestOf(OfTier(e, "verified")) : v.version < c.version
  BY <1>1
<1>3. /\ c \in Mine(e) /\ c.tier = "community" /\ c.event = e /\ c.publisher = p
      /\ \A s \in OfTier(e, "community") : s.version <= c.version
  BY <1>2 DEF Reads!NewestOf, Reads!Of
<1>4. c \in Reads!Targets(p)
  BY <1>3 DEF Reads!Targets, Reads!Of, Reads!Published
<1>5. ASSUME NEW r \in Mine(e), r.tier = "verified" PROVE r.version < c.version
  <2>1. OfTier(e, "verified") \subseteq schemaRows /\ r \in OfTier(e, "verified")
    BY <1>5 DEF Reads!Published
  <2> HIDE DEF OfTier
  <2>2. PICK v \in Reads!NewestOf(OfTier(e, "verified")) : r.version <= v.version
    BY <2>1, SomeAreNewest
  <2>3. v.version < c.version /\ v \in schemaRows /\ r \in schemaRows /\ c \in schemaRows
    BY <1>2, <1>3, <2>1, <2>2 DEF Reads!NewestOf, Reads!Published
  <2>4. v.version \in Int /\ r.version \in Int /\ c.version \in Int
    BY <2>3 DEF RowsAreOrdered, SchemaRow
  <2> QED BY <2>2, <2>3, <2>4
<1> QED BY <1>3, <1>4, <1>5

\* A schema that is picked is one of the event's rows, a verified one if there is any, and an
\* event that has rows has one that is picked.
LEMMA FirstRowsOfEvent ==
  ASSUME Reads!SchemasAssumption, RowsAreOrdered, NEW e
  PROVE  LET rowsOf == Reads!RowsOfEvent(e)
             first  == Reads!FirstRows(rowsOf) IN
         /\ first \subseteq rowsOf
         /\ rowsOf # {} => first # {}
         /\ (\E r \in rowsOf : r.tier = "verified") => \A r \in first : r.tier = "verified"
<1> DEFINE rowsOf == Reads!RowsOfEvent(e)
           verified == {r \in rowsOf : r.tier = "verified"}
           preferred == IF \E r \in rowsOf : r.tier = "verified" THEN verified ELSE rowsOf
<1>1. Reads!FirstRows(rowsOf) = Reads!NewestOf(preferred)
  BY DEF Reads!FirstRows
<1>2. rowsOf \subseteq schemaRows /\ preferred \subseteq rowsOf
  BY DEF Reads!RowsOfEvent, Reads!Published
<1>3. rowsOf # {} => preferred # {}
  OBVIOUS
<1>4. (\E r \in rowsOf : r.tier = "verified") => \A r \in preferred : r.tier = "verified"
  OBVIOUS
<1>5. Reads!NewestOf(preferred) \subseteq preferred
  BY DEF Reads!NewestOf
<1> HIDE DEF preferred, rowsOf
<1>6. preferred # {} => Reads!NewestOf(preferred) # {}
  BY <1>2, SomeAreNewest
<1> QED BY <1>1, <1>2, <1>3, <1>4, <1>5, <1>6 DEF rowsOf

\* A decode without a name answers as a decode with its name may, and does not pass over a
\* name that is certain to decode.
LEMMA DecodingsAgreeThen ==
  Reads!SchemasAssumption /\ RowsAreOrdered => Reads!DecodingsAgree
<1> SUFFICES ASSUME Reads!SchemasAssumption, RowsAreOrdered, NEW event \in Events
             PROVE  /\ \A r \in Reads!ListByContract(event) :
                         /\ Reads!Decoding(r) \in Reads!DecodeNamed(event, r.event, 0)
                         /\ Reads!Decoding(r) \in Reads!DecodeNamed(event, r.event, r.version)
                         /\ r.tier = "community" =>
                              ~\E s \in Reads!Published : s.event = r.event /\ s.tier = "verified"
                    /\ \A e \in Reads!EventNames :
                         (\A answer \in Reads!DecodeNamed(event, e, 0) : answer.status = "decoded") =>
                           /\ Reads!Raw \notin Reads!DecodeUnnamed(event)
                           /\ Reads!DecodeUnnamed(event) # {}
                           /\ \A r \in Reads!ListByContract(event) : r.event <= e
  BY DEF Reads!DecodingsAgree
<1> DEFINE rowsOf(e) == Reads!RowsOfEvent(e)
           first(e) == Reads!FirstRows(rowsOf(e))
           Fits(r) == Reads!Decoded(r.body, event)
           matching == {e \in Reads!EventNames : \E r \in first(e) : Fits(r)}
           certain == {e \in Reads!EventNames : rowsOf(e) # {} /\ \A r \in first(e) : Fits(r)}
           reached == {e \in matching : \A d \in certain : e <= d}
<1>0. certain = Reads!CertainNames(event)
  BY DEF Reads!CertainNames
<1>1. Reads!ListByContract(event) = UNION {{r \in first(e) : Fits(r)} : e \in reached}
  BY DEF Reads!ListByContract, Reads!CertainNames
<1>2. \A e : /\ first(e) \subseteq rowsOf(e)
             /\ rowsOf(e) # {} => first(e) # {}
             /\ (\E r \in rowsOf(e) : r.tier = "verified") => \A r \in first(e) : r.tier = "verified"
  BY FirstRowsOfEvent
<1>3. \A e : Reads!GetEventSchema(e, 0) = first(e)
  BY DEF Reads!GetEventSchema
<1>4. \A e : rowsOf(e) = {r \in Reads!Published : r.event = e}
  BY DEF Reads!RowsOfEvent
<1>5. \A r \in Reads!Published : r.version \in Nat /\ r.version > 0
  BY DEF Reads!Published, RowsAreOrdered, SchemaRow, Reads!SchemasAssumption
<1>6. \A e, r : r \in rowsOf(e) => r \in Reads!GetEventSchema(e, r.version)
  BY <1>4, <1>5 DEF Reads!GetEventSchema
<1>7. Reads!EventNames \subseteq Nat
  BY DEF Reads!SchemasAssumption, Reads!EventNames
<1>8. ASSUME NEW e, NEW v, NEW r \in Reads!GetEventSchema(e, v), Fits(r)
      PROVE  Reads!Decoding(r) \in Reads!DecodeNamed(event, e, v)
  BY <1>8 DEF Reads!DecodeNamed
<1>9. ASSUME NEW e, \A answer \in Reads!DecodeNamed(event, e, 0) : answer.status = "decoded"
      PROVE  first(e) # {} /\ \A r \in first(e) : Fits(r)
  <2>1. Reads!Failed.status # "decoded" /\ Reads!Raw.status # "decoded"
    BY DEF Reads!Failed, Reads!Raw
  <2>2. first(e) # {}
    BY <1>3, <1>9, <2>1 DEF Reads!DecodeNamed
  <2>3. ASSUME NEW r \in first(e), ~Fits(r) PROVE FALSE
    <3>1. Reads!Raw \in Reads!DecodeNamed(event, e, 0)
      BY <1>3, <2>2, <2>3 DEF Reads!DecodeNamed
    <3> QED BY <1>9, <2>1, <3>1
  <2> QED BY <2>2, <2>3
<1> HIDE DEF rowsOf, first, Fits
<1>10. ASSUME NEW r \in Reads!ListByContract(event)
       PROVE  /\ Reads!Decoding(r) \in Reads!DecodeNamed(event, r.event, 0)
              /\ Reads!Decoding(r) \in Reads!DecodeNamed(event, r.event, r.version)
              /\ r.tier = "community" =>
                   ~\E s \in Reads!Published : s.event = r.event /\ s.tier = "verified"
              /\ \A d \in certain : r.event <= d
  <2>1. PICK e \in reached : r \in first(e) /\ Fits(r)
    BY <1>1
  <2>2. r \in rowsOf(e) /\ r.event = e
    BY <1>2, <1>4, <2>1
  <2>3. r \in Reads!GetEventSchema(e, 0) /\ r \in Reads!GetEventSchema(e, r.version)
    BY <1>3, <1>6, <2>1, <2>2
  <2>4. /\ Reads!Decoding(r) \in Reads!DecodeNamed(event, e, 0)
        /\ Reads!Decoding(r) \in Reads!DecodeNamed(event, e, r.version)
    BY <1>8, <2>1, <2>3
  <2> QED BY <1>2, <1>4, <2>1, <2>2, <2>4
<1>11. ASSUME NEW e \in Reads!EventNames,
              \A answer \in Reads!DecodeNamed(event, e, 0) : answer.status = "decoded"
       PROVE  e \in certain /\ Reads!ListByContract(event) # {}
  <2>1. e \in certain
    BY <1>2, <1>9, <1>11
  <2>2. certain \subseteq Nat /\ certain # {}
    BY <1>7, <2>1
  <2>3. PICK d \in certain : \A c \in certain : d <= c
    <3> HIDE DEF certain
    <3> QED BY <2>2, Least
  <2>4. PICK r \in first(d) : Fits(r)
    BY <1>2, <2>3
  <2>5. d \in reached
    BY <2>3, <2>4
  <2> QED BY <1>1, <2>1, <2>4, <2>5
<1>12. ASSUME certain # {}, Reads!ListByContract(event) # {}
       PROVE  Reads!Raw \notin Reads!DecodeUnnamed(event) /\ Reads!DecodeUnnamed(event) # {}
  <2>1. Reads!DecodeUnnamed(event) = {Reads!Decoding(r) : r \in Reads!ListByContract(event)}
    BY <1>0, <1>12 DEF Reads!DecodeUnnamed
  <2>2. \A r : Reads!Decoding(r).status = "decoded"
    BY DEF Reads!Decoding
  <2>3. Reads!Raw.status = "raw"
    BY DEF Reads!Raw
  <2> HIDE DEF certain
  <2> QED BY <1>12, <2>1, <2>2, <2>3
<1> HIDE DEF certain
<1> QED BY <1>10, <1>11, <1>12

\* What a decoded event shows of a document that it has.
ShownIn(event, type, shown) ==
  \E doc \in Reads!Documents(event) :
    /\ Reads!ExtractTypedValue(doc, type) = shown
    /\ shown = doc.val \/ (doc.tag \in Reads!NumberTypes /\ doc.val \notin -MaxExact .. MaxExact)

\* A value that is extracted from a document is its own, but for a great integer.
LEMMA TypedValueIsShown ==
  ASSUME Reads!SchemasAssumption, NEW event \in Events, NEW doc \in Reads!Documents(event), NEW type,
         Reads!ExtractTypedValue(doc, type) # NoValue
  PROVE  ShownIn(event, type, Reads!ExtractTypedValue(doc, type))
<1>1. MaxExact \in Nat /\ Int64Limit \in Nat /\ MaxExact < Int64Limit
  BY DEF Reads!SchemasAssumption
<1>2. CASE doc.tag = type
  <2>1. Reads!ExtractTypedValue(doc, type) = Reads!CoerceValue(type, doc.val)
    BY <1>2 DEF Reads!ExtractTypedValue
  <2>2. CASE type \in Reads!NumberTypes
    <3>1. Reads!ExtractTypedValue(doc, type) = Reads!AsInt64(Reads!AsFloat64(doc.val))
      BY <2>1, <2>2 DEF Reads!CoerceValue
    <3>2. ASSUME doc.val \in -MaxExact .. MaxExact
          PROVE  Reads!AsInt64(Reads!AsFloat64(doc.val)) = doc.val
      <4>1. Reads!AsFloat64(doc.val) = doc.val
        BY <3>2 DEF Reads!AsFloat64
      <4>2. doc.val \in -Int64Limit .. Int64Limit - 1
        BY <1>1, <3>2
      <4> QED BY <4>1, <4>2 DEF Reads!AsInt64
    <3> QED BY <1>2, <2>2, <3>1, <3>2 DEF ShownIn
  <2>3. CASE type \notin Reads!NumberTypes
    BY <2>1, <2>3 DEF Reads!CoerceValue, ShownIn
  <2> QED BY <2>2, <2>3
<1>3. CASE doc.tag # type
  BY <1>3 DEF Reads!ExtractTypedValue, ShownIn
<1> QED BY <1>2, <1>3

\* The topics, the value and its items are documents of the event.
LEMMA DocumentsOfEvent ==
  ASSUME NEW event
  PROVE  /\ event.value \in Reads!Documents(event)
         /\ \A i \in DOMAIN event.topics : event.topics[i] \in Reads!Documents(event)
         /\ event.value.tag = "vec" =>
              \A i \in DOMAIN event.value.val : event.value.val[i] \in Reads!Documents(event)
         /\ event.value.tag = "map" =>
              \A i \in DOMAIN event.value.val : event.value.val[i].v \in Reads!Documents(event)
<1> DEFINE inside == CASE event.value.tag = "vec" -> Reads!ToSet(event.value.val)
                       [] event.value.tag = "map" -> {entry.v : entry \in Reads!ToSet(event.value.val)}
                       [] OTHER -> {}
<1>1. Reads!Documents(event) = Reads!ToSet(event.topics) \cup {event.value} \cup inside
  BY DEF Reads!Documents
<1>2. /\ event.value.tag = "vec" => inside = Reads!ToSet(event.value.val)
      /\ event.value.tag = "map" => inside = {entry.v : entry \in Reads!ToSet(event.value.val)}
  OBVIOUS
<1> HIDE DEF inside
<1> QED BY <1>1, <1>2 DEF Reads!ToSet

\* A parameter in the data is one of the documents that the value holds.
LEMMA DataParamIsShown ==
  ASSUME Reads!SchemasAssumption, NEW event \in Events, NEW format, NEW param,
         Reads!ExtractDataParam(format, event.value, param) # NoValue
  PROVE  ShownIn(event, param.type, Reads!ExtractDataParam(format, event.value, param))
<1> DEFINE value == event.value
           shown == Reads!ExtractDataParam(format, value, param)
           Typed(doc) == Reads!ExtractTypedValue(doc, param.type)
<1>1. \A doc \in Reads!Documents(event) : Typed(doc) # NoValue => ShownIn(event, param.type, Typed(doc))
  BY TypedValueIsShown
<1>2. CASE format = "map"
  <2> DEFINE entries == {i \in DOMAIN value.val : value.val[i].k = [tag |-> "symbol", val |-> param.name]}
             first == CHOOSE i \in entries : \A j \in entries : i <= j
  <2>1. shown = Reads!ExtractFromMap(value, param)
    BY <1>2 DEF Reads!ExtractDataParam
  <2>2. value.tag = "map" /\ entries # {} /\ shown = Typed(value.val[first].v)
    BY <2>1 DEF Reads!ExtractFromMap
  <2>3. entries \subseteq Nat
    <3>1. Reads!IsList(value.val)
      BY <2>2 DEF Reads!SchemasAssumption
    <3> QED BY <3>1 DEF Reads!IsList
  <2>4. first \in entries
    <3> HIDE DEF entries
    <3>1. \E i \in entries : \A j \in entries : i <= j
      BY <2>2, <2>3, Least
    <3> QED BY <3>1
  <2>5. value.val[first].v \in Reads!Documents(event)
    <3> HIDE DEF first
    <3> QED BY <2>2, <2>4, DocumentsOfEvent
  <2> HIDE DEF first, entries
  <2> QED BY <1>1, <2>2, <2>5
<1>3. CASE format = "vec"
  <2>1. shown = Reads!ExtractFromVecAt(value, param.index, param)
    BY <1>3 DEF Reads!ExtractDataParam
  <2>2. CASE value.tag # "vec"
    <3>1. shown = Typed(value)
      BY <2>1, <2>2 DEF Reads!ExtractFromVecAt
    <3> QED BY <1>1, <3>1, DocumentsOfEvent
  <2>3. CASE value.tag = "vec"
    <3>1. param.index \in 0 .. Len(value.val) - 1 /\ shown = Typed(value.val[param.index + 1])
      BY <2>1, <2>3 DEF Reads!ExtractFromVecAt
    <3>2. param.index + 1 \in DOMAIN value.val
      BY <2>3, <3>1 DEF Reads!SchemasAssumption, Reads!IsList
    <3>3. value.val[param.index + 1] \in Reads!Documents(event)
      BY <2>3, <3>2, DocumentsOfEvent
    <3> QED BY <1>1, <3>1, <3>3
  <2> QED BY <2>2, <2>3
<1>4. CASE format \notin {"map", "vec"}
  <2>1. shown = Typed(value)
    BY <1>4 DEF Reads!ExtractDataParam
  <2> QED BY <1>1, <2>1, DocumentsOfEvent
<1> QED BY <1>2, <1>3, <1>4

\* The topic of a parameter comes after the prefix.
LEMMA TopicIndexIsPositive ==
  ASSUME Reads!SchemasAssumption, NEW b \in Bodies, NEW i \in DOMAIN Reads!ParamsOf(b),
         Reads!ParamsOf(b)[i].location = "topic"
  PROVE  Reads!TopicIndex(b, i) \in Nat /\ Reads!TopicIndex(b, i) >= 1
<1> DEFINE upTo == {j \in 1 .. i : Reads!ParamsOf(b)[j].location = "topic"}
<1>1. i \in Nat /\ i >= 1 /\ Len(b.prefix) \in Nat
  BY DEF Reads!SchemasAssumption, Reads!IsList
<1>2. i \in upTo /\ IsFiniteSet(upTo)
  <2>1. i \in upTo /\ upTo \in SUBSET (1 .. i)
    BY <1>1
  <2>2. IsFiniteSet(1 .. i)
    BY <1>1, FS_Interval
  <2> HIDE DEF upTo
  <2> QED BY <2>1, <2>2, FS_Subset
<1>3. Reads!TopicIndex(b, i) = Len(b.prefix) + Cardinality(upTo)
  <2>1. Reads!Cardinality(upTo) = Cardinality(upTo)
    BY DEF Reads!Cardinality, Cardinality
  <2> QED BY <2>1 DEF Reads!TopicIndex
<1> HIDE DEF upTo
<1>4. Cardinality(upTo) \in Nat /\ Cardinality(upTo) # 0
  BY <1>2, FS_CardinalityType, FS_EmptySet
<1> QED BY <1>1, <1>3, <1>4

\* Every field of a decoded event is in the event, under the type of its parameter.
LEMMA FieldsAreShown ==
  ASSUME Reads!SchemasAssumption, NEW event \in Events, NEW b \in Bodies,
         NEW i \in DOMAIN Reads!DecodeEvent(b, event)
  PROVE  ShownIn(event, Reads!ParamsOf(b)[i].type, Reads!DecodeEvent(b, event)[i])
<1> DEFINE params == Reads!ParamsOf(b)
           Extracted(k) == Reads!ExtractParam(b, event.topics, event.value, k)
           fields == [k \in DOMAIN params |-> Extracted(k)]
<1>1. Reads!DecodeEvent(b, event) = <<>> \/
      (Reads!DecodeEvent(b, event) = fields /\ ~\E k \in DOMAIN fields : fields[k] = NoValue)
  BY DEF Reads!DecodeEvent, Reads!ExtractFields
<1>2. /\ i \in DOMAIN params /\ Reads!DecodeEvent(b, event)[i] = Extracted(i)
      /\ Extracted(i) # NoValue
  BY <1>1
<1>3. CASE params[i].location \in {"data", ""}
  <2>1. Extracted(i) = Reads!ExtractDataParam(b.format, event.value, params[i])
    BY <1>3 DEF Reads!ExtractParam
  <2> HIDE DEF params, Extracted
  <2> QED BY <1>2, <2>1, DataParamIsShown DEF params
<1>4. CASE params[i].location = "topic" /\ Reads!TopicIndex(b, i) <= Len(event.topics)
  <2> DEFINE topic == Reads!TopicIndex(b, i)
  <2>1. Extracted(i) = Reads!ExtractTypedValue(event.topics[topic], params[i].type)
    BY <1>4 DEF Reads!ExtractParam
  <2>2. topic \in Nat /\ topic >= 1
    BY <1>2, <1>4, TopicIndexIsPositive
  <2>3. topic \in DOMAIN event.topics
    <3> HIDE DEF topic
    <3>1. Len(event.topics) \in Nat /\ DOMAIN event.topics = 1 .. Len(event.topics)
      BY DEF Reads!SchemasAssumption, Reads!IsList
    <3> QED BY <1>4, <2>2, <3>1 DEF topic
  <2>4. event.topics[topic] \in Reads!Documents(event)
    BY <2>3, DocumentsOfEvent
  <2> HIDE DEF topic, params, Extracted
  <2> QED BY <1>2, <2>1, <2>4, TypedValueIsShown DEF params
<1>5. CASE /\ params[i].location \notin {"data", ""}
           /\ ~(params[i].location = "topic" /\ Reads!TopicIndex(b, i) <= Len(event.topics))
  <2>1. Extracted(i) = NoValue
    BY <1>5 DEF Reads!ExtractParam
  <2> QED BY <1>2, <2>1
<1> QED BY <1>3, <1>4, <1>5

LEMMA DecodingIsSoundThen ==
  Reads!SchemasAssumption /\ RowsAreOrdered => Reads!DecodingIsSound
<1> SUFFICES ASSUME Reads!SchemasAssumption, RowsAreOrdered PROVE Reads!FieldsComeFromEvent
  BY DecodingsAgreeThen DEF Reads!DecodingIsSound
<1>1. \A r \in Reads!Published : r.body \in Bodies
  BY DEF Reads!Published, RowsAreOrdered, SchemaRow
<1> QED BY <1>1, FieldsAreShown DEF Reads!FieldsComeFromEvent, ShownIn

---------------------------------------------------------------------------
\* Lists in an order.

\* The elements of a finite set, each at the place after those that come before it.
LEMMA OrderedList ==
  ASSUME NEW S, IsFiniteSet(S), NEW R,
         \A x \in S : <<x, x>> \notin R,
         \A x, y, z \in S : <<x, y>> \in R /\ <<y, z>> \in R => <<x, z>> \in R,
         \A x, y \in S : x = y \/ <<x, y>> \in R \/ <<y, x>> \in R,
         NEW list, list = [i \in 1 .. Cardinality(S) |-> list[i]],
         \A i \in 1 .. Cardinality(S) :
           (\E x \in S : Cardinality({y \in S : <<y, x>> \in R}) = i - 1) =>
             list[i] \in S /\ Cardinality({y \in S : <<y, list[i]>> \in R}) = i - 1
  PROVE  /\ Cardinality(S) \in Nat /\ list \in [1 .. Cardinality(S) -> S]
         /\ \A x \in S : \E i \in 1 .. Cardinality(S) : list[i] = x
         /\ \A i, j \in 1 .. Cardinality(S) : i < j => <<list[i], list[j]>> \in R
<1> DEFINE Before(x) == {y \in S : <<y, x>> \in R}
           n == Cardinality(S)
           rank == [x \in S |-> Cardinality(Before(x)) + 1]
<1>1. n \in Nat
  BY FS_CardinalityType
<1>2. ASSUME NEW x \in S
      PROVE  IsFiniteSet(Before(x)) /\ Cardinality(Before(x)) \in 0 .. n - 1
  <2>1. Before(x) \in SUBSET S /\ Before(x) # S
    OBVIOUS
  <2>2. IsFiniteSet(Before(x)) /\ Cardinality(Before(x)) <= n /\ Cardinality(Before(x)) # n
    BY <2>1, FS_Subset
  <2>3. Cardinality(Before(x)) \in Nat
    BY <2>2, FS_CardinalityType
  <2> QED BY <1>1, <2>2, <2>3
<1>3. ASSUME NEW x \in S, NEW y \in S, <<x, y>> \in R
      PROVE  Cardinality(Before(x)) < Cardinality(Before(y))
  <2>1. Before(x) \in SUBSET Before(y) /\ Before(x) # Before(y)
    BY <1>3
  <2>2. Cardinality(Before(x)) <= Cardinality(Before(y)) /\ Cardinality(Before(x)) # Cardinality(Before(y))
    BY <1>2, <2>1, FS_Subset
  <2> HIDE DEF Before, n
  <2> QED BY <1>1, <1>2, <2>2
<1>4. rank \in [S -> 1 .. n]
  <2> SUFFICES ASSUME NEW x \in S PROVE Cardinality(Before(x)) + 1 \in 1 .. n
    OBVIOUS
  <2> HIDE DEF Before, n
  <2> QED BY <1>1, <1>2
<1>5. \A x, y \in S : rank[x] = rank[y] => x = y
  <2> TAKE x \in S, y \in S
  <2>1. rank[x] = Cardinality(Before(x)) + 1 /\ rank[y] = Cardinality(Before(y)) + 1
    OBVIOUS
  <2>2. x = y \/ <<x, y>> \in R \/ <<y, x>> \in R
    OBVIOUS
  <2> HIDE DEF Before, n, rank
  <2>3. Cardinality(Before(x)) \in Int /\ Cardinality(Before(y)) \in Int
    BY <1>1, <1>2
  <2> QED BY <1>3, <2>1, <2>2, <2>3
<1>6. rank \in Injection(S, 1 .. n)
  BY <1>4, <1>5 DEF Injection, IsInjective
<1>7. \A i \in 1 .. n : \E x \in S : rank[x] = i
  <2>1. IsFiniteSet(1 .. n) /\ Cardinality(1 .. n) = n
    BY <1>1, FS_Interval
  <2>2. rank \in Surjection(S, 1 .. n)
    BY <1>6, <2>1, FS_Injection
  <2> QED BY <2>2 DEF Surjection
<1>8. ASSUME NEW i \in 1 .. n
      PROVE  list[i] \in S /\ rank[list[i]] = i
  <2>1. (\E x \in S : Cardinality(Before(x)) = i - 1) =>
          list[i] \in S /\ Cardinality(Before(list[i])) = i - 1
    OBVIOUS
  <2>2. \A x \in S : rank[x] = Cardinality(Before(x)) + 1
    OBVIOUS
  <2> HIDE DEF Before, n, rank
  <2>3. PICK x \in S : Cardinality(Before(x)) + 1 = i
    BY <1>7, <2>2
  <2>4. Cardinality(Before(x)) = i - 1
    BY <1>1, <1>2, <2>3
  <2>5. list[i] \in S /\ Cardinality(Before(list[i])) = i - 1
    BY <2>1, <2>4
  <2> QED BY <1>1, <2>2, <2>5
<1>9. list \in [1 .. n -> S]
  BY <1>8
<1>10. ASSUME NEW x \in S PROVE \E i \in 1 .. n : list[i] = x
  <2>1. rank[x] \in 1 .. n
    BY <1>4
  <2> HIDE DEF n, rank
  <2>2. list[rank[x]] \in S /\ rank[list[rank[x]]] = rank[x]
    BY <1>8, <2>1
  <2>3. list[rank[x]] = x
    BY <1>5, <2>2
  <2> QED BY <2>1, <2>3
<1>11. ASSUME NEW i \in 1 .. n, NEW j \in 1 .. n, i < j
       PROVE  <<list[i], list[j]>> \in R
  <2>1. \A x \in S : rank[x] = Cardinality(Before(x)) + 1
    OBVIOUS
  <2> HIDE DEF Before, n, rank
  <2>2. list[i] \in S /\ list[j] \in S /\ rank[list[i]] = i /\ rank[list[j]] = j
    BY <1>8
  <2>3. Cardinality(Before(list[i])) < Cardinality(Before(list[j]))
    BY <1>1, <1>2, <1>11, <2>1, <2>2
  <2>4. <<list[j], list[i]>> \in R => Cardinality(Before(list[j])) < Cardinality(Before(list[i]))
    BY <1>3, <2>2
  <2>5. Cardinality(Before(list[i])) \in Int /\ Cardinality(Before(list[j])) \in Int
    BY <1>1, <1>2, <2>2
  <2>6. <<list[j], list[i]>> \notin R /\ list[i] # list[j]
    BY <2>3, <2>4, <2>5
  <2> QED BY <2>2, <2>6
<1> QED BY <1>1, <1>9, <1>10, <1>11

\* A list has each element of a set at one place.
IsListOf(list, T) ==
  /\ Cardinality(T) \in Nat /\ list \in [1 .. Cardinality(T) -> T]
  /\ \A x \in T : \E i \in 1 .. Cardinality(T) : list[i] = x
  /\ \A i, j \in 1 .. Cardinality(T) : list[i] = list[j] => i = j

\* A list of the elements with the greatest rank first.
LEMMA ListByKey ==
  ASSUME NEW S, IsFiniteSet(S), NEW rank \in [S -> Int], \A x, y \in S : rank[x] = rank[y] => x = y,
         NEW list, list = [i \in 1 .. Cardinality(S) |-> list[i]],
         \A i \in 1 .. Cardinality(S) :
           (\E x \in S : Cardinality({y \in S : rank[y] > rank[x]}) = i - 1) =>
             list[i] \in S /\ Cardinality({y \in S : rank[y] > rank[list[i]]}) = i - 1
  PROVE  /\ IsListOf(list, S)
         /\ \A i, j \in 1 .. Cardinality(S) : i < j => rank[list[i]] > rank[list[j]]
<1> DEFINE R == {r \in S \X S : rank[r[1]] > rank[r[2]]}
           n == Cardinality(S)
<1>1. \A x, y \in S : <<x, y>> \in R <=> rank[x] > rank[y]
  OBVIOUS
<1>2. \A x \in S : {y \in S : rank[y] > rank[x]} = {y \in S : <<y, x>> \in R}
  BY <1>1
<1>3. \A x \in S : rank[x] \in Int
  OBVIOUS
<1> HIDE DEF R
<1>4. /\ \A x \in S : <<x, x>> \notin R
      /\ \A x, y, z \in S : <<x, y>> \in R /\ <<y, z>> \in R => <<x, z>> \in R
      /\ \A x, y \in S : x = y \/ <<x, y>> \in R \/ <<y, x>> \in R
  BY <1>1, <1>3
<1>5. \A i \in 1 .. n : (\E x \in S : Cardinality({y \in S : <<y, x>> \in R}) = i - 1) =>
        list[i] \in S /\ Cardinality({y \in S : <<y, list[i]>> \in R}) = i - 1
  BY <1>2
<1>6. /\ n \in Nat /\ list \in [1 .. n -> S]
      /\ \A x \in S : \E i \in 1 .. n : list[i] = x
      /\ \A i, j \in 1 .. n : i < j => <<list[i], list[j]>> \in R
  BY <1>4, <1>5, OrderedList
<1>7. ASSUME NEW i \in 1 .. n, NEW j \in 1 .. n, list[i] = list[j] PROVE i = j
  <2>1. n \in Nat /\ list[i] \in S /\ list[j] \in S
    BY <1>6
  <2>2. ~(i < j) /\ ~(j < i)
    BY <1>4, <1>6, <1>7, <2>1
  <2> QED BY <2>1, <2>2
<1>8. \A i, j \in 1 .. n : i < j => rank[list[i]] > rank[list[j]]
  <2> TAKE i \in 1 .. n, j \in 1 .. n
  <2>1. list[i] \in S /\ list[j] \in S
    BY <1>6
  <2> QED BY <1>1, <1>6, <2>1
<1> QED BY <1>6, <1>7, <1>8 DEF IsListOf

\* One that is bounded has a largest.
LEMMA Largest ==
  ASSUME NEW N \in Nat, NEW T, T \subseteq 0 .. N, T # {}
  PROVE  \E m \in T : \A n \in T : n <= m
<1> DEFINE U == {N - n : n \in T}
<1>1. U \subseteq Nat /\ U # {}
  <2>1. \A n \in T : N - n \in Nat
    OBVIOUS
  <2> QED BY <2>1
<1> HIDE DEF U
<1>2. PICK u \in U : \A v \in U : u <= v
  BY <1>1, Least
<1>3. PICK m \in T : u = N - m
  BY DEF U
<1>4. \A n \in T : n <= m
  <2> TAKE n \in T
  <2>1. N - n \in U
    BY DEF U
  <2>2. N - m <= N - n /\ n \in Int /\ m \in Int
    BY <1>2, <1>3, <2>1
  <2> QED BY <2>2
<1> QED BY <1>4

\* A finite set of numbers has a largest: the one that has none before it.
LEMMA FiniteHasLargest ==
  ASSUME NEW T, IsFiniteSet(T), T \subseteq Nat, T # {}
  PROVE  \E m \in T : \A n \in T : n <= m
<1> DEFINE rank == [n \in T |-> n]
           first(i) == CHOOSE x \in T : Cardinality({y \in T : rank[y] > rank[x]}) = i - 1
           list == [i \in 1 .. Cardinality(T) |-> first(i)]
<1>0. \A n \in T : n \in Int
  OBVIOUS
<1>1. rank \in [T -> Int] /\ (\A x, y \in T : rank[x] = rank[y] => x = y) /\ \A n \in T : rank[n] = n
  OBVIOUS
<1>2. /\ list = [i \in 1 .. Cardinality(T) |-> list[i]]
      /\ \A i \in 1 .. Cardinality(T) : list[i] = first(i)
  <2> HIDE DEF first
  <2> QED OBVIOUS
<1>3. ASSUME NEW i \in 1 .. Cardinality(T), \E x \in T : Cardinality({y \in T : rank[y] > rank[x]}) = i - 1
      PROVE  list[i] \in T /\ Cardinality({y \in T : rank[y] > rank[list[i]]}) = i - 1
  <2>1. list[i] = CHOOSE x \in T : Cardinality({y \in T : rank[y] > rank[x]}) = i - 1
    BY <1>2
  <2> HIDE DEF rank, list
  <2> QED BY <1>3, <2>1
<1> HIDE DEF rank, list, first
<1>4. /\ IsListOf(list, T)
      /\ \A i, j \in 1 .. Cardinality(T) : i < j => rank[list[i]] > rank[list[j]]
  BY <1>1, <1>2, <1>3, ListByKey
<1>5. Cardinality(T) \in Nat /\ Cardinality(T) # 0
  BY FS_CardinalityType, FS_EmptySet
<1>6. 1 \in 1 .. Cardinality(T) /\ list[1] \in T
  BY <1>4, <1>5 DEF IsListOf
<1>7. ASSUME NEW n \in T PROVE n <= list[1]
  <2>1. PICK i \in 1 .. Cardinality(T) : list[i] = n
    BY <1>4 DEF IsListOf
  <2>2. CASE i = 1
    BY <2>1, <2>2
  <2>3. CASE 1 < i
    <3>1. rank[list[1]] > rank[list[i]] /\ rank[list[1]] = list[1] /\ rank[n] = n
      BY <1>1, <1>4, <1>6, <2>3
    <3>2. n \in Int /\ list[1] \in Int
      BY <1>0, <1>6
    <3> QED BY <2>1, <3>1, <3>2
  <2> QED BY <1>5, <2>2, <2>3
<1> QED BY <1>6, <1>7

---------------------------------------------------------------------------
\* The bundles of the schemas that are published.

\* Batches is a loop: for any list there is the function that it defines.  The least number of
\* rounds for which there were none would be one more than a number for which there is one.
LEMMA LoopIsDefined ==
  ASSUME NEW s, NEW n \in Nat
  PROVE  \E F : F = [k \in 0 .. n |-> IF k = 0 THEN <<>> ELSE Reads!AddToBatches(F[k - 1], s[k])]
<1> DEFINE Loop(F, m) == F = [k \in 0 .. m |-> IF k = 0 THEN <<>> ELSE Reads!AddToBatches(F[k - 1], s[k])]
           bad == {m \in Nat : ~\E F : Loop(F, m)}
<1>1. ASSUME bad # {} PROVE FALSE
  <2>1. PICK m \in bad : \A k \in bad : m <= k
    <3>1. bad \subseteq Nat
      OBVIOUS
    <3> HIDE DEF bad
    <3> QED BY <1>1, <3>1, Least
  <2>2. m \in Nat /\ ~\E F : Loop(F, m)
    OBVIOUS
  <2>3. m # 0
    <3> DEFINE E == [k \in 0 .. 0 |-> IF k = 0 THEN <<>> ELSE Reads!AddToBatches(<<>>, s[k])]
    <3>1. E = [k \in 0 .. 0 |-> IF k = 0 THEN <<>> ELSE Reads!AddToBatches(E[k - 1], s[k])]
      <4>1. \A k \in 0 .. 0 : k = 0
        OBVIOUS
      <4> QED BY <4>1
    <3>2. Loop(E, 0)
      BY <3>1
    <3> HIDE DEF Loop
    <3> QED BY <2>2, <3>2
  <2>4. m - 1 \in Nat /\ m - 1 \notin bad
    <3> HIDE DEF bad
    <3> QED BY <2>1, <2>2, <2>3
  <2>5. PICK F : Loop(F, m - 1)
    <3> HIDE DEF Loop
    <3> QED BY <2>4
  <2> DEFINE G == [k \in 0 .. m |-> IF k = m THEN Reads!AddToBatches(F[m - 1], s[m]) ELSE F[k]]
  <2>6. ASSUME NEW k \in 0 .. m
        PROVE  G[k] = IF k = 0 THEN <<>> ELSE Reads!AddToBatches(G[k - 1], s[k])
    <3>1. CASE k = m
      <4>1. k - 1 \in 0 .. m /\ k - 1 # m /\ k # 0
        BY <2>2, <2>3, <3>1
      <4>2. G[k - 1] = F[m - 1]
        BY <3>1, <4>1
      <4>3. G[k] = Reads!AddToBatches(F[m - 1], s[m])
        BY <3>1
      <4> QED BY <3>1, <4>1, <4>2, <4>3
    <3>2. CASE k # m
      <4>1. k \in 0 .. m - 1
        BY <2>2, <3>2
      <4>2. F[k] = IF k = 0 THEN <<>> ELSE Reads!AddToBatches(F[k - 1], s[k])
        BY <2>5, <4>1
      <4>3. G[k] = F[k]
        BY <3>2
      <4>4. CASE k = 0
        BY <4>2, <4>3, <4>4
      <4>5. CASE k # 0
        <5>1. k - 1 \in 0 .. m /\ k - 1 # m
          BY <2>2, <4>1, <4>5
        <5>2. G[k - 1] = F[k - 1]
          BY <5>1
        <5> QED BY <4>2, <4>3, <4>5, <5>2
      <4> QED BY <4>4, <4>5
    <3> QED BY <3>1, <3>2
  <2>7. G = [k \in 0 .. m |-> G[k]]
    OBVIOUS
  <2> HIDE DEF G
  <2>8. Loop(G, m)
    BY <2>6, <2>7
  <2> HIDE DEF Loop
  <2> QED BY <2>2, <2>8
<1> HIDE DEF Loop
<1>2. \E F : Loop(F, n)
  BY <1>1
<1> QED BY <1>2 DEF Loop

\* The batches after k schemas are of these, in their order; what is in a batch is of one
\* publisher and within the window of its first, and the first of the next is not.
SplitAt(groups, s, k) ==
  /\ groups \in Seq(Seq(schemaRows))
  /\ \A i \in 1 .. Len(groups) : groups[i] # <<>>
  /\ \A i \in 1 .. Len(groups) : \A r \in Reads!ToSet(groups[i]) : \E j \in 1 .. k : r = s[j]
  /\ \A j \in 1 .. k : \E i \in 1 .. Len(groups) : s[j] \in Reads!ToSet(groups[i])
  /\ \A i \in 1 .. Len(groups) : \A r \in Reads!ToSet(groups[i]) :
       /\ r.publisher = groups[i][1].publisher
       /\ r.created - groups[i][1].created \in 0 .. Window
  /\ \A i, j \in 1 .. Len(groups) : i < j =>
       \A r \in Reads!ToSet(groups[i]), q \in Reads!ToSet(groups[j]) : r.created < q.created
  /\ \A i \in 1 .. Len(groups) - 1 :
       groups[i + 1][1].publisher = groups[i][1].publisher =>
         groups[i + 1][1].created - groups[i][1].created > Window

\* The elements of a sequence to which one is appended.
LEMMA SetOfBatch ==
  ASSUME NEW S, NEW t \in Seq(S), NEW r \in S
  PROVE  /\ Reads!ToSet(t) = {t[i] : i \in 1 .. Len(t)} /\ Reads!ToSet(t) \subseteq S
         /\ Reads!ToSet(Append(t, r)) = Reads!ToSet(t) \cup {r}
         /\ Append(t, r) \in Seq(S) /\ Append(t, r) # <<>>
         /\ t # <<>> => Append(t, r)[1] = t[1] /\ t[1] \in Reads!ToSet(t)
         /\ <<r>>[1] = r /\ Reads!ToSet(<<r>>) = {r} /\ <<r>> \in Seq(S) /\ <<r>> # <<>>
<1>1. DOMAIN t = 1 .. Len(t) /\ Len(t) \in Nat /\ \A i \in 1 .. Len(t) : t[i] \in S
  OBVIOUS
<1>2. /\ Append(t, r) \in Seq(S) /\ DOMAIN Append(t, r) = 1 .. Len(t) + 1
      /\ \A i \in 1 .. Len(t) : Append(t, r)[i] = t[i]
      /\ Append(t, r)[Len(t) + 1] = r
  OBVIOUS
<1>3. Reads!ToSet(t) = {t[i] : i \in 1 .. Len(t)}
  BY <1>1 DEF Reads!ToSet
<1>4. Reads!ToSet(t) \subseteq S
  BY <1>1, <1>3
<1>5. Reads!ToSet(Append(t, r)) = Reads!ToSet(t) \cup {r}
  <2>1. Reads!ToSet(Append(t, r)) = {Append(t, r)[i] : i \in 1 .. Len(t) + 1}
    BY <1>2 DEF Reads!ToSet
  <2>2. ASSUME NEW x \in Reads!ToSet(t) PROVE x \in Reads!ToSet(Append(t, r))
    <3>1. PICK i \in 1 .. Len(t) : x = t[i]
      BY <1>3
    <3>2. i \in 1 .. Len(t) + 1
      BY <1>1
    <3> QED BY <1>2, <2>1, <3>1, <3>2
  <2>3. r \in Reads!ToSet(Append(t, r))
    <3>1. Len(t) + 1 \in 1 .. Len(t) + 1
      BY <1>1
    <3> QED BY <1>2, <2>1, <3>1
  <2>4. ASSUME NEW x \in Reads!ToSet(Append(t, r)) PROVE x \in Reads!ToSet(t) \cup {r}
    <3>1. PICK i \in 1 .. Len(t) + 1 : x = Append(t, r)[i]
      BY <2>1
    <3>2. i \in 1 .. Len(t) \/ i = Len(t) + 1
      BY <1>1
    <3> QED BY <1>2, <1>3, <3>1, <3>2
  <2> QED BY <2>2, <2>3, <2>4
<1>6. t # <<>> => 1 \in 1 .. Len(t)
  OBVIOUS
<1>7. /\ <<r>>[1] = r /\ <<r>> \in Seq(S) /\ <<r>> # <<>> /\ DOMAIN <<r>> = 1 .. 1
  OBVIOUS
<1>8. Reads!ToSet(<<r>>) = {r}
  BY <1>7 DEF Reads!ToSet
<1>9. Append(t, r) # <<>>
  BY <1>1, <1>2
<1> QED BY <1>2, <1>3, <1>4, <1>5, <1>6, <1>7, <1>8, <1>9

\* A batch that has schemas keeps them, and its first one, when it gets one more.
LEMMA BatchGrows ==
  ASSUME NEW S, NEW t \in Seq(S), t # <<>>, NEW r \in S
  PROVE  Reads!ToSet(Append(t, r)) = Reads!ToSet(t) \cup {r} /\ Append(t, r) # <<>> /\ Append(t, r)[1] = t[1]
<1>1. Reads!ToSet(Append(t, r)) = Reads!ToSet(t) \cup {r}
  BY SetOfBatch
<1>2. Append(t, r) # <<>> /\ Append(t, r)[1] = t[1]
  OBVIOUS
<1> QED BY <1>1, <1>2

\* The beginning of a sequence.
LEMMA PartBefore ==
  ASSUME NEW T, NEW t \in Seq(T), NEW m \in Nat, m <= Len(t)
  PROVE  SubSeq(t, 1, m) \in Seq(T) /\ Len(SubSeq(t, 1, m)) = m
         /\ \A i \in 1 .. m : SubSeq(t, 1, m)[i] = t[i]
<1>1. Len(t) \in Nat /\ \A i \in 1 .. m : i \in 1 .. Len(t)
  OBVIOUS
<1>2. Len(SubSeq(t, 1, m)) = m /\ \A i \in 1 .. m : SubSeq(t, 1, m)[i] = t[i]
  BY <1>1
<1>3. SubSeq(t, 1, m) \in Seq(T)
  BY <1>1
<1> QED BY <1>2, <1>3

\* Where a schema goes.
Joins(groups, r) ==
  /\ groups # <<>> /\ r.publisher = groups[Len(groups)][1].publisher
  /\ r.created - groups[Len(groups)][1].created <= Window

\* The batches after one more schema, place by place.
LEMMA WhereItGoes ==
  ASSUME NEW S, NEW groups \in Seq(Seq(S)), NEW r \in S,
         \A i \in 1 .. Len(groups) : groups[i] # <<>>
  PROVE  LET added == Reads!AddToBatches(groups, r)
             m == IF Joins(groups, r) THEN Len(groups) ELSE Len(groups) + 1 IN
         /\ added \in Seq(Seq(S)) /\ Len(added) = m /\ m \in Nat /\ m >= 1
         /\ \A i \in 1 .. m - 1 : added[i] = groups[i]
         /\ added[m] = IF Joins(groups, r) THEN Append(groups[m], r) ELSE <<r>>
<1> DEFINE added == Reads!AddToBatches(groups, r)
           L == Len(groups)
           current == groups[L]
           front == SubSeq(groups, 1, L - 1)
<1>1. L \in Nat /\ (groups # <<>> => L >= 1) /\ \A i \in 1 .. L : groups[i] \in Seq(S)
  OBVIOUS
<1>2. CASE Joins(groups, r)
  <2>1. L >= 1 /\ current \in Seq(S) /\ current # <<>>
    BY <1>1, <1>2 DEF Joins
  <2>2. added = Append(front, Append(current, r))
    <3>1. Reads!Last(groups) = current /\ Reads!Front(groups) = front /\ Head(current) = current[1]
      BY <2>1 DEF Reads!Last, Reads!Front
    <3> HIDE DEF current, front
    <3>2. /\ groups # <<>> /\ r.publisher = Head(current).publisher
          /\ r.created - Head(current).created <= Window
      BY <1>2, <3>1 DEF Joins, current
    <3> QED BY <3>1, <3>2 DEF Reads!AddToBatches
  <2>3. Append(current, r) \in Seq(S)
    BY <2>1
  <2>4. front \in Seq(Seq(S)) /\ Len(front) = L - 1 /\ \A i \in 1 .. L - 1 : front[i] = groups[i]
    <3>1. L - 1 \in Nat /\ L - 1 <= Len(groups)
      BY <1>1, <2>1
    <3> HIDE DEF L, current
    <3> QED BY <3>1, PartBefore
  <2> HIDE DEF added, front, current
  <2>5. /\ added \in Seq(Seq(S)) /\ Len(added) = L
        /\ \A i \in 1 .. L - 1 : added[i] = front[i]
        /\ added[L] = Append(current, r)
    <3>1. L - 1 + 1 = L
      BY <1>1
    <3> HIDE DEF L
    <3> QED BY <1>1, <2>1, <2>2, <2>3, <2>4, <3>1
  <2> QED BY <1>1, <1>2, <2>1, <2>4, <2>5 DEF added, current
<1>3. CASE ~Joins(groups, r)
  <2>1. added = Append(groups, <<r>>)
    <3>1. ASSUME groups # <<>> PROVE Reads!Last(groups) = current /\ Head(current) = current[1]
      BY <3>1, <1>1 DEF Reads!Last
    <3> HIDE DEF current
    <3>2. ~(/\ groups # <<>> /\ r.publisher = Head(Reads!Last(groups)).publisher
            /\ r.created - Head(Reads!Last(groups)).created <= Window)
      BY <1>3, <3>1 DEF Joins, current
    <3> QED BY <3>2 DEF Reads!AddToBatches
  <2>2. <<r>> \in Seq(S)
    OBVIOUS
  <2> HIDE DEF added
  <2>3. /\ added \in Seq(Seq(S)) /\ Len(added) = L + 1
        /\ \A i \in 1 .. L : added[i] = groups[i]
        /\ added[L + 1] = <<r>>
    BY <1>1, <2>1, <2>2
  <2> QED BY <1>1, <1>3, <2>3 DEF added
<1> QED BY <1>2, <1>3

\* One more schema, created after those before it, is split as they are.
LEMMA BatchIsAdded ==
  ASSUME Reads!SchemasAssumption, RowsAreOrdered, NEW n \in Nat, NEW s \in [1 .. n -> schemaRows],
         \A i, j \in 1 .. n : i < j => s[i].created < s[j].created,
         NEW k \in 0 .. n - 1, NEW groups, SplitAt(groups, s, k)
  PROVE  SplitAt(Reads!AddToBatches(groups, s[k + 1]), s, k + 1)
<1> DEFINE r == s[k + 1]
           added == Reads!AddToBatches(groups, r)
           L == Len(groups)
           m == IF Joins(groups, r) THEN L ELSE L + 1
<1>1. r \in schemaRows /\ k + 1 \in 1 .. n /\ k \in Nat /\ Window \in Nat
  BY DEF Reads!SchemasAssumption
<1>2. \A x \in schemaRows : x.created \in Nat
  BY DEF RowsAreOrdered, SchemaRow
<1>3. \A j \in 1 .. k : j \in 1 .. n /\ s[j] \in schemaRows /\ s[j].created < r.created
  BY <1>1
<1>4. /\ groups \in Seq(Seq(schemaRows)) /\ L \in Nat
      /\ \A i \in 1 .. L : groups[i] # <<>> /\ groups[i] \in Seq(schemaRows)
  BY DEF SplitAt
<1>5. /\ added \in Seq(Seq(schemaRows)) /\ Len(added) = m /\ m \in Nat /\ m >= 1
      /\ \A i \in 1 .. m - 1 : added[i] = groups[i]
      /\ added[m] = IF Joins(groups, r) THEN Append(groups[m], r) ELSE <<r>>
  BY <1>1, <1>4, WhereItGoes
<1>6. ASSUME NEW i \in 1 .. L
      PROVE  /\ Reads!ToSet(groups[i]) \subseteq schemaRows
             /\ groups[i][1] \in Reads!ToSet(groups[i])
             /\ \A x \in Reads!ToSet(groups[i]) : x.created < r.created /\ x.created \in Nat
  <2>1. groups[i] \in Seq(schemaRows) /\ groups[i] # <<>>
    BY <1>4
  <2>2. Reads!ToSet(groups[i]) \subseteq schemaRows /\ groups[i][1] \in Reads!ToSet(groups[i])
    <3> HIDE DEF r, L
    <3> QED BY <1>1, <2>1, SetOfBatch
  <2>3. \A x \in Reads!ToSet(groups[i]) : \E j \in 1 .. k : x = s[j]
    BY DEF SplitAt
  <2> HIDE DEF r
  <2> QED BY <1>2, <1>3, <2>2, <2>3
<1> HIDE DEF r, added, L
\* What each of the batches then has, and its first schema.
<1>7. ASSUME NEW i \in 1 .. m - 1
      PROVE  i \in 1 .. L /\ added[i] = groups[i]
  BY <1>4, <1>5
<1>8. /\ Reads!ToSet(added[m]) = (IF Joins(groups, r) THEN Reads!ToSet(groups[m]) ELSE {}) \cup {r}
      /\ added[m] # <<>>
      /\ added[m][1] = IF Joins(groups, r) THEN groups[m][1] ELSE r
      /\ Joins(groups, r) => m = L /\ m \in 1 .. L
  <2>1. CASE Joins(groups, r)
    <3>1. m = L /\ m \in 1 .. L /\ groups[m] \in Seq(schemaRows) /\ groups[m] # <<>>
          /\ added[m] = Append(groups[m], r)
      BY <1>4, <1>5, <2>1
    <3> DEFINE t == groups[m]
    <3>0. t \in Seq(schemaRows) /\ t # <<>>
      BY <3>1
    <3> HIDE DEF m, t
    <3>2. /\ Reads!ToSet(Append(t, r)) = Reads!ToSet(t) \cup {r}
          /\ Append(t, r) # <<>> /\ Append(t, r)[1] = t[1]
      <4>1. r \in schemaRows
        BY <1>1
      <4> QED BY <3>0, <4>1, BatchGrows
    <3> QED BY <2>1, <3>1, <3>2 DEF t
  <2>2. CASE ~Joins(groups, r)
    <3>1. added[m] = <<r>>
      BY <1>5, <2>2
    <3>2. <<>> \in Seq(schemaRows) /\ r \in schemaRows
      BY <1>1
    <3>3. <<r>>[1] = r /\ Reads!ToSet(<<r>>) = {r} /\ <<r>> # <<>>
      BY <3>2, SetOfBatch, Zenon
    <3> QED BY <2>2, <3>1, <3>3
  <2> QED BY <2>1, <2>2
<1> HIDE DEF m
<1>9. \A i \in 1 .. m : i = m \/ i \in 1 .. m - 1
  BY <1>5
<1>10. \A i \in 1 .. m : added[i] # <<>>
  BY <1>4, <1>7, <1>8, <1>9
<1>11. ASSUME NEW i \in 1 .. m, NEW x \in Reads!ToSet(added[i])
       PROVE  \E j \in 1 .. k + 1 : x = s[j]
  <2>1. x = r \/ \E h \in 1 .. L : x \in Reads!ToSet(groups[h])
    BY <1>7, <1>8, <1>9
  <2>2. CASE x = r
    BY <1>1, <2>2 DEF r
  <2>3. CASE \E h \in 1 .. L : x \in Reads!ToSet(groups[h])
    <3>1. PICK j \in 1 .. k : x = s[j]
      BY <2>3 DEF SplitAt, L
    <3>2. j \in 1 .. k + 1
      BY <1>1
    <3> QED BY <3>1, <3>2
  <2> QED BY <2>1, <2>2, <2>3
<1>12. ASSUME NEW j \in 1 .. k + 1
       PROVE  \E i \in 1 .. m : s[j] \in Reads!ToSet(added[i])
  <2>1. m \in 1 .. m
    BY <1>5
  <2>2. CASE j = k + 1
    BY <1>8, <2>1, <2>2 DEF r
  <2>3. CASE j # k + 1
    <3>1. j \in 1 .. k
      BY <1>1, <2>3
    <3>2. PICK h \in 1 .. L : s[j] \in Reads!ToSet(groups[h])
      BY <3>1 DEF SplitAt, L
    <3>3. h \in 1 .. m /\ (h = m => Joins(groups, r))
      BY <1>4, <1>5 DEF m
    <3>4. CASE h = m
      BY <1>8, <2>1, <3>2, <3>3, <3>4
    <3>5. CASE h # m
      <4>1. h \in 1 .. m - 1
        BY <1>5, <3>3, <3>5
      <4> QED BY <1>7, <3>2, <3>3, <4>1
    <3> QED BY <3>4, <3>5
  <2> QED BY <2>2, <2>3
<1>13. ASSUME NEW i \in 1 .. m, NEW x \in Reads!ToSet(added[i])
       PROVE  x.publisher = added[i][1].publisher /\ x.created - added[i][1].created \in 0 .. Window
  <2>1. \A h \in 1 .. L : \A y \in Reads!ToSet(groups[h]) :
          y.publisher = groups[h][1].publisher /\ y.created - groups[h][1].created \in 0 .. Window
    BY DEF SplitAt, L
  <2>2. CASE i \in 1 .. m - 1
    BY <1>7, <2>1, <2>2
  <2>3. CASE i = m /\ x # r
    BY <1>8, <2>1, <2>3
  <2>4. CASE i = m /\ x = r /\ ~Joins(groups, r)
    BY <1>1, <1>2, <1>8, <2>4
  <2>5. CASE i = m /\ x = r /\ Joins(groups, r)
    <3>1. r.publisher = groups[m][1].publisher /\ r.created - groups[m][1].created <= Window
      BY <1>8, <2>5 DEF Joins, L
    <3>2. groups[m][1].created < r.created /\ groups[m][1].created \in Nat /\ r.created \in Nat
      BY <1>1, <1>2, <1>6, <1>8, <2>5
    <3>3. r.created - groups[m][1].created \in 0 .. Window
      BY <1>1, <3>1, <3>2
    <3> QED BY <1>8, <2>5, <3>1, <3>3
  <2> QED BY <1>9, <2>2, <2>3, <2>4, <2>5
<1>14. ASSUME NEW i \in 1 .. m, NEW j \in 1 .. m, i < j,
              NEW x \in Reads!ToSet(added[i]), NEW y \in Reads!ToSet(added[j])
       PROVE  x.created < y.created
  <2>1. i \in 1 .. m - 1
    BY <1>5, <1>14
  <2>2. i \in 1 .. L /\ x \in Reads!ToSet(groups[i])
    BY <1>7, <2>1
  <2>3. CASE y = r
    BY <1>6, <2>2, <2>3
  <2>4. CASE y # r
    <3>1. j \in 1 .. L /\ y \in Reads!ToSet(groups[j])
      BY <1>7, <1>8, <1>9, <2>4
    <3> QED BY <1>14, <2>2, <3>1 DEF SplitAt, L
  <2> QED BY <2>3, <2>4
<1>15. ASSUME NEW i \in 1 .. m - 1, added[i + 1][1].publisher = added[i][1].publisher
       PROVE  added[i + 1][1].created - added[i][1].created > Window
  <2>1. added[i] = groups[i] /\ i \in 1 .. L /\ i \in Int
    BY <1>7
  <2>2. CASE i + 1 = m /\ ~Joins(groups, r)
    <3>1. i = L /\ groups # <<>>
      BY <1>4, <2>1, <2>2 DEF m, L
    <3>2. added[i + 1][1] = r
      BY <1>8, <2>2
    <3>3. ~(r.created - groups[L][1].created <= Window)
      BY <1>15, <2>1, <2>2, <3>1, <3>2 DEF Joins, L
    <3>4. r.created \in Int /\ groups[L][1].created \in Int
      BY <1>1, <1>2, <1>6, <2>1, <3>1
    <3> QED BY <1>1, <2>1, <3>1, <3>2, <3>3, <3>4
  <2>3. CASE ~(i + 1 = m /\ ~Joins(groups, r))
    <3>1. i + 1 \in 1 .. L /\ added[i + 1][1] = groups[i + 1][1]
      <4>1. CASE i + 1 = m
        BY <1>8, <2>3, <4>1
      <4>2. CASE i + 1 # m
        <5>1. i + 1 \in 1 .. m - 1
          BY <1>5, <4>2
        <5> QED BY <1>7, <5>1
      <4> QED BY <4>1, <4>2
    <3>2. i \in 1 .. L - 1
      BY <1>4, <2>1, <3>1
    <3> QED BY <1>15, <2>1, <3>1, <3>2 DEF SplitAt, L
  <2> QED BY <2>2, <2>3
<1> QED
  BY <1>5, <1>10, <1>11, <1>12, <1>13, <1>14, <1>15 DEF SplitAt, added, r

\* The schemas in the order of their creation.
CreatedInOrder(s, S) ==
  /\ Cardinality(S) \in Nat /\ s \in [1 .. Cardinality(S) -> S]
  /\ \A x \in S : \E i \in 1 .. Cardinality(S) : s[i] = x
  /\ \A i, j \in 1 .. Cardinality(S) : i < j => s[i].created < s[j].created

LEMMA SchemasAreListed ==
  ASSUME RowsAreOrdered
  PROVE  CreatedInOrder(Reads!ByCreation, Reads!Published)
<1> DEFINE S == Reads!Published
           list == Reads!ByCreation
           n == Cardinality(S)
           R == {p \in S \X S : p[1].created < p[2].created}
<1>1. S \subseteq schemaRows /\ IsFiniteSet(S)
  <2>1. S \subseteq schemaRows
    BY DEF Reads!Published
  <2> QED BY <2>1, FS_Subset DEF RowsAreOrdered
<1>2. \A x \in S : x.created \in Nat
  BY <1>1 DEF RowsAreOrdered, SchemaRow
<1>3. \A x, y \in S : x.created = y.created => x = y
  BY <1>1 DEF RowsAreOrdered
<1>4. list = [i \in 1 .. Reads!Cardinality(S) |->
                CHOOSE x \in S : Reads!Cardinality({y \in S : y.created < x.created}) = i - 1]
  BY DEF Reads!ByCreation, Reads!InOrder
<1>5. \A T : Reads!Cardinality(T) = Cardinality(T)
  BY DEF Reads!Cardinality, Cardinality
<1> HIDE DEF S, list
<1>6. \A x, y \in S : <<x, y>> \in R <=> x.created < y.created
  OBVIOUS
<1>7. \A x \in S : {y \in S : y.created < x.created} = {y \in S : <<y, x>> \in R}
  BY <1>6
<1> HIDE DEF R
<1>8. /\ \A x \in S : <<x, x>> \notin R
      /\ \A x, y, z \in S : <<x, y>> \in R /\ <<y, z>> \in R => <<x, z>> \in R
      /\ \A x, y \in S : x = y \/ <<x, y>> \in R \/ <<y, x>> \in R
  BY <1>2, <1>3, <1>6
<1>9. ASSUME NEW i \in 1 .. n, \E x \in S : Cardinality({y \in S : <<y, x>> \in R}) = i - 1
      PROVE  list[i] \in S /\ Cardinality({y \in S : <<y, list[i]>> \in R}) = i - 1
  <2>1. list[i] = CHOOSE x \in S : Reads!Cardinality({y \in S : y.created < x.created}) = i - 1
    BY <1>4, <1>5
  <2>2. \E x \in S : Reads!Cardinality({y \in S : y.created < x.created}) = i - 1
    BY <1>5, <1>7, <1>9
  <2>3. list[i] \in S /\ Reads!Cardinality({y \in S : y.created < list[i].created}) = i - 1
    BY <2>1, <2>2
  <2> QED BY <1>5, <1>7, <2>3
<1>10. list = [i \in 1 .. n |-> list[i]]
  <2> DEFINE first(i) == CHOOSE x \in S : Reads!Cardinality({y \in S : y.created < x.created}) = i - 1
  <2>1. list = [i \in 1 .. n |-> first(i)]
    BY <1>4, <1>5
  <2> HIDE DEF first
  <2> QED BY <2>1
<1>11. /\ n \in Nat /\ list \in [1 .. n -> S]
       /\ \A x \in S : \E i \in 1 .. n : list[i] = x
       /\ \A i, j \in 1 .. n : i < j => <<list[i], list[j]>> \in R
  BY <1>1, <1>8, <1>9, <1>10, OrderedList
<1>12. \A i, j \in 1 .. n : i < j => list[i].created < list[j].created
  BY <1>6, <1>11
<1>13. CreatedInOrder(list, S)
  BY <1>11, <1>12 DEF CreatedInOrder
<1> QED BY <1>13 DEF list, S

\* The batches of the published schemas are split as they should be.
LEMMA BatchesAreSplit ==
  ASSUME Reads!SchemasAssumption, RowsAreOrdered
  PROVE  SplitAt(Reads!Batches, Reads!ByCreation, Cardinality(Reads!Published))
<1> DEFINE s == Reads!ByCreation
           n == Cardinality(Reads!Published)
           Loop(F) == F = [k \in 0 .. n |-> IF k = 0 THEN <<>> ELSE Reads!AddToBatches(F[k - 1], s[k])]
           after == CHOOSE F : Loop(F)
<1>1. /\ n \in Nat /\ s \in [1 .. n -> schemaRows]
      /\ \A i, j \in 1 .. n : i < j => s[i].created < s[j].created
  <2>1. CreatedInOrder(s, Reads!Published)
    BY SchemasAreListed
  <2>2. Reads!Published \subseteq schemaRows
    BY DEF Reads!Published
  <2> HIDE DEF s
  <2> QED BY <2>1, <2>2 DEF CreatedInOrder
<1>2. Len(s) = n
  BY <1>1
<1>3. Reads!Batches = after[n]
  BY <1>2 DEF Reads!Batches
<1> HIDE DEF s, n
<1>4. Loop(after)
  <2>1. \E F : Loop(F)
    BY <1>1, LoopIsDefined
  <2> HIDE DEF Loop
  <2> QED BY <2>1
<1>5. after[0] = <<>> /\ \A k \in 1 .. n : after[k] = Reads!AddToBatches(after[k - 1], s[k])
  <2> HIDE DEF after
  <2> QED BY <1>1, <1>4
<1> HIDE DEF after, Loop
<1> DEFINE bad == {k \in 0 .. n : ~SplitAt(after[k], s, k)}
<1>6. SplitAt(after[0], s, 0)
  <2>1. SplitAt(<<>>, s, 0)
    BY DEF SplitAt
  <2> QED BY <1>5, <2>1
<1>7. ASSUME bad # {} PROVE FALSE
  <2>1. PICK k \in bad : \A j \in bad : k <= j
    <3>1. bad \subseteq Nat
      BY <1>1
    <3> HIDE DEF bad
    <3> QED BY <1>7, <3>1, Least
  <2>2. k \in 0 .. n /\ k # 0 /\ ~SplitAt(after[k], s, k)
    BY <1>6
  <2>3. k - 1 \in 0 .. n - 1 /\ k - 1 \in 0 .. n /\ k - 1 + 1 = k /\ k - 1 \notin bad /\ k \in 1 .. n
    <3> HIDE DEF bad
    <3> QED BY <1>1, <2>1, <2>2
  <2>4. SplitAt(after[k - 1], s, k - 1)
    BY <2>3
  <2> HIDE DEF bad
  <2>5. SplitAt(Reads!AddToBatches(after[k - 1], s[k - 1 + 1]), s, k - 1 + 1)
    BY <1>1, <2>3, <2>4, BatchIsAdded
  <2> QED BY <1>5, <2>2, <2>3, <2>5
<1>8. SplitAt(after[n], s, n)
  BY <1>1, <1>7
<1> QED BY <1>3, <1>8 DEF s, n

\* A bundle shows its batch: the versions and the updates have a greatest.
LEMMA BundleOfBatch ==
  ASSUME Reads!SchemasAssumption, RowsAreOrdered, NEW t \in Seq(schemaRows), t # <<>>
  PROVE  LET b == Reads!FinalizeBundle(t) IN
         /\ b.events = Reads!ToSet(t) /\ b.created = t[1].created
         /\ b.version \in Nat /\ b.updated \in Nat
         /\ b.verified <=> \E r \in b.events : r.tier = "verified"
<1> DEFINE b == Reads!FinalizeBundle(t)
           set == Reads!ToSet(t)
           versions == {r.version : r \in set}
           updates == {r.updated : r \in set}
<1>1. t[1] \in schemaRows /\ Head(t) = t[1]
  OBVIOUS
<1>2. set \subseteq schemaRows /\ t[1] \in set
  <2> DEFINE r == t[1]
  <2>1. r \in schemaRows
    BY <1>1
  <2> HIDE DEF r
  <2>2. Reads!ToSet(t) \subseteq schemaRows /\ t[1] \in Reads!ToSet(t)
    BY <2>1, SetOfBatch
  <2> QED BY <2>2
<1>3. /\ b.events = set /\ b.created = t[1].created
      /\ b.version = Reads!Greatest(versions) /\ b.updated = Reads!Greatest(updates)
      /\ b.verified <=> \E r \in set : r.tier = "verified"
  BY <1>1 DEF Reads!FinalizeBundle
<1> HIDE DEF set, b
<1>4. versions \subseteq 0 .. MaxClock /\ updates \subseteq 0 .. MaxClock /\ MaxClock \in Nat
      /\ versions # {} /\ updates # {}
  BY <1>2 DEF RowsAreOrdered, SchemaRow, Reads!SchemasAssumption
<1> HIDE DEF versions, updates
<1>5. ASSUME NEW T, T \subseteq 0 .. MaxClock, T # {} PROVE Reads!Greatest(T) \in Nat
  <2>1. \E m \in T : \A n \in T : n <= m
    BY <1>4, <1>5, Largest
  <2>2. Reads!Greatest(T) \in T
    BY <2>1 DEF Reads!Greatest
  <2>3. \A n \in 0 .. MaxClock : n \in Nat
    BY <1>4
  <2>4. Reads!Greatest(T) \in 0 .. MaxClock
    BY <1>5, <2>2
  <2> QED BY <2>3, <2>4
<1>6. b.version \in Nat /\ b.updated \in Nat
  BY <1>3, <1>4, <1>5
<1> QED BY <1>3, <1>6 DEF set, b

\* What the bundles are: the published schemas in pieces, in the order of their creation.
Bundled(found, n) ==
  /\ n \in Nat /\ DOMAIN found = 1 .. n /\ found \in Seq({found[i] : i \in 1 .. n})
  /\ \A i \in 1 .. n : found[i].events \subseteq Reads!Published
  /\ \A r \in Reads!Published : \E i \in 1 .. n : r \in found[i].events
  /\ \A i \in 1 .. n : \E h \in found[i].events :
       /\ found[i].created = h.created
       /\ \A r \in found[i].events : r.publisher = h.publisher /\ r.created - h.created \in 0 .. Window
  /\ \A i, j \in 1 .. n : i < j =>
       \A r \in found[i].events, q \in found[j].events : r.created < q.created
  /\ \A i \in 1 .. n - 1 : \A r \in found[i].events, q \in found[i + 1].events :
       r.publisher = q.publisher => found[i + 1].created - found[i].created > Window
  /\ \A i \in 1 .. n : found[i].version \in Nat /\ found[i].updated \in Nat
  /\ \A i \in 1 .. n : found[i].verified <=> \E r \in found[i].events : r.tier = "verified"

LEMMA SchemasAreBundled ==
  ASSUME Reads!SchemasAssumption, RowsAreOrdered
  PROVE  Bundled(Reads!GroupIntoBundles, Len(Reads!Batches))
<1> DEFINE found == Reads!GroupIntoBundles
           bs == Reads!Batches
           s == Reads!ByCreation
           k == Cardinality(Reads!Published)
           n == Len(bs)
<1>1. SplitAt(bs, s, k)
  BY BatchesAreSplit
<1>2. CreatedInOrder(s, Reads!Published)
  BY SchemasAreListed
<1>3. found = [i \in DOMAIN bs |-> Reads!FinalizeBundle(bs[i])]
  BY DEF Reads!GroupIntoBundles
<1> HIDE DEF found, bs, s, k
<1>4. /\ bs \in Seq(Seq(schemaRows)) /\ n \in Nat /\ DOMAIN bs = 1 .. n
      /\ \A i \in 1 .. n : bs[i] \in Seq(schemaRows) /\ bs[i] # <<>>
  <2>1. bs \in Seq(Seq(schemaRows)) /\ \A i \in 1 .. n : bs[i] # <<>>
    BY <1>1 DEF SplitAt
  <2> QED BY <2>1
<1> HIDE DEF n
<1>5. DOMAIN found = 1 .. n /\ \A i \in 1 .. n : found[i] = Reads!FinalizeBundle(bs[i])
  BY <1>3, <1>4
<1>6. ASSUME NEW i \in 1 .. n
      PROVE  /\ found[i].events = Reads!ToSet(bs[i]) /\ found[i].created = bs[i][1].created
             /\ found[i].version \in Nat /\ found[i].updated \in Nat
             /\ found[i].verified <=> \E r \in found[i].events : r.tier = "verified"
             /\ bs[i][1] \in Reads!ToSet(bs[i])
  <2> DEFINE t == bs[i]
  <2>1. t \in Seq(schemaRows) /\ t # <<>> /\ found[i] = Reads!FinalizeBundle(t)
    BY <1>4, <1>5
  <2> HIDE DEF t
  <2>2. LET b == Reads!FinalizeBundle(t) IN
        /\ b.events = Reads!ToSet(t) /\ b.created = t[1].created
        /\ b.version \in Nat /\ b.updated \in Nat
        /\ b.verified <=> \E r \in b.events : r.tier = "verified"
    BY <2>1, BundleOfBatch
  <2>3. t[1] \in Reads!ToSet(t)
    <3> DEFINE r == t[1]
    <3>1. r \in schemaRows
      BY <2>1
    <3> HIDE DEF r
    <3> QED BY <2>1, <3>1, SetOfBatch
  <2> QED BY <2>1, <2>2, <2>3 DEF t
<1>7. found \in Seq({found[i] : i \in 1 .. n})
  <2>1. found = [i \in 1 .. n |-> found[i]]
    BY <1>3, <1>4
  <2> DEFINE T == {found[i] : i \in 1 .. n}
  <2>2. found \in [1 .. n -> T]
    BY <2>1
  <2> HIDE DEF T
  <2>3. found \in Seq(T)
    BY <1>4, <2>2
  <2> QED BY <2>3 DEF T
<1>8. \A i \in 1 .. n : found[i].events \subseteq Reads!Published
  <2>1. \A i \in 1 .. n : \A r \in Reads!ToSet(bs[i]) : \E j \in 1 .. k : r = s[j]
    BY <1>1 DEF SplitAt, n
  <2>2. \A j \in 1 .. k : s[j] \in Reads!Published
    BY <1>2 DEF CreatedInOrder, k
  <2> QED BY <1>6, <2>1, <2>2
<1>9. \A r \in Reads!Published : \E i \in 1 .. n : r \in found[i].events
  <2>1. \A j \in 1 .. k : \E i \in 1 .. n : s[j] \in Reads!ToSet(bs[i])
    BY <1>1 DEF SplitAt, n
  <2>2. \A r \in Reads!Published : \E j \in 1 .. k : s[j] = r
    BY <1>2 DEF CreatedInOrder, k
  <2> QED BY <1>6, <2>1, <2>2
<1>10. \A i \in 1 .. n : \A r \in found[i].events :
         r.publisher = bs[i][1].publisher /\ r.created - bs[i][1].created \in 0 .. Window
  <2>1. \A i \in 1 .. n : \A r \in Reads!ToSet(bs[i]) :
         r.publisher = bs[i][1].publisher /\ r.created - bs[i][1].created \in 0 .. Window
    BY <1>1 DEF SplitAt, n
  <2> QED BY <1>6, <2>1
<1>11. \A i \in 1 .. n : \E h \in found[i].events :
       /\ found[i].created = h.created
       /\ \A r \in found[i].events : r.publisher = h.publisher /\ r.created - h.created \in 0 .. Window
  <2> TAKE i \in 1 .. n
  <2>1. bs[i][1] \in found[i].events
    BY <1>6
  <2> QED BY <1>6, <1>10, <2>1
<1>12. \A i, j \in 1 .. n : i < j =>
         \A r \in found[i].events, q \in found[j].events : r.created < q.created
  <2>1. \A i, j \in 1 .. n : i < j =>
         \A r \in Reads!ToSet(bs[i]), q \in Reads!ToSet(bs[j]) : r.created < q.created
    BY <1>1 DEF SplitAt, n
  <2> QED BY <1>6, <2>1
<1>13. ASSUME NEW i \in 1 .. n - 1, NEW r \in found[i].events, NEW q \in found[i + 1].events,
              r.publisher = q.publisher
       PROVE  found[i + 1].created - found[i].created > Window
  <2>1. i \in 1 .. n /\ i + 1 \in 1 .. n
    BY <1>4
  <2>2. bs[i + 1][1].publisher = bs[i][1].publisher
    BY <1>10, <1>13, <2>1
  <2>3. bs[i + 1][1].created - bs[i][1].created > Window
    BY <1>1, <2>2 DEF SplitAt, n
  <2> QED BY <1>6, <2>1, <2>3
<1>14. Bundled(found, n)
  BY <1>4, <1>5, <1>6, <1>7, <1>8, <1>9, <1>11, <1>12, <1>13 DEF Bundled
<1> QED BY <1>14 DEF found, n, bs

\* A schema that is published has a time.
LEMMA CreationsAreTimes ==
  ASSUME RowsAreOrdered
  PROVE  \A r \in Reads!Published : r \in schemaRows /\ r.created \in Int
BY DEF RowsAreOrdered, SchemaRow, Reads!Published

\* A bundle has the schema that it is dated by.
LEMMA BundlesAreDated ==
  ASSUME RowsAreOrdered, NEW found, NEW n, Bundled(found, n)
  PROVE  /\ Reads!ToSet(found) = {found[i] : i \in 1 .. n}
         /\ \A i \in 1 .. n : found[i].created \in Int
         /\ \A i, j \in 1 .. n : i < j => found[i].created < found[j].created
<1>1. \A i \in 1 .. n : found[i].created \in Int
      /\ \E h \in found[i].events : found[i].created = h.created
  BY CreationsAreTimes DEF Bundled
<1>2. \A i, j \in 1 .. n : i < j => found[i].created < found[j].created
  BY <1>1 DEF Bundled
<1>3. Reads!ToSet(found) = {found[i] : i \in 1 .. n}
  BY DEF Reads!ToSet, Bundled
<1> QED BY <1>1, <1>2, <1>3

\* The bundles are a partition, each of one publisher and within a window.
LEMMA BundlesArePartition ==
  ASSUME RowsAreOrdered, NEW found, NEW n, Bundled(found, n)
  PROVE  LET bundles == Reads!ToSet(found) IN
         /\ UNION {b.events : b \in bundles} = Reads!Published
         /\ \A b \in bundles : \A r \in b.events, s \in b.events :
              r.publisher = s.publisher /\ r.created - b.created \in 0 .. Window
         /\ \A b \in bundles, c \in bundles : b # c => b.events \cap c.events = {}
         /\ (\E r \in Reads!Published : r.tier = "verified") <=> \E b \in bundles : b.verified
<1> DEFINE bundles == Reads!ToSet(found)
<1>1. bundles = {found[i] : i \in 1 .. n} /\ n \in Nat
  BY BundlesAreDated DEF Bundled
<1> HIDE DEF bundles
<1>2. UNION {b.events : b \in bundles} = Reads!Published
  <2>1. \A i \in 1 .. n : found[i].events \subseteq Reads!Published
    BY DEF Bundled
  <2>2. \A r \in Reads!Published : \E i \in 1 .. n : r \in found[i].events
    BY DEF Bundled
  <2> QED BY <1>1, <2>1, <2>2
<1>3. ASSUME NEW b \in bundles, NEW r \in b.events, NEW s \in b.events
      PROVE  r.publisher = s.publisher /\ r.created - b.created \in 0 .. Window
  <2>1. PICK i \in 1 .. n : b = found[i]
    BY <1>1
  <2>2. PICK h \in b.events : /\ b.created = h.created
                              /\ \A x \in b.events : x.publisher = h.publisher /\ x.created - h.created \in 0 .. Window
    BY <2>1 DEF Bundled
  <2> QED BY <2>2
<1>4. ASSUME NEW b \in bundles, NEW c \in bundles, b # c, NEW r \in b.events \cap c.events
      PROVE  FALSE
  <2>1. PICK i \in 1 .. n : b = found[i]
    BY <1>1
  <2>2. PICK j \in 1 .. n : c = found[j]
    BY <1>1
  <2>3. i < j \/ j < i
    BY <1>1, <1>4, <2>1, <2>2
  <2>4. r.created < r.created
    BY <2>1, <2>2, <2>3 DEF Bundled
  <2>5. r.created \in Int
    BY <2>1, CreationsAreTimes DEF Bundled
  <2> QED BY <2>4, <2>5
<1>5. (\E r \in Reads!Published : r.tier = "verified") <=> \E b \in bundles : b.verified
  <2>1. \A i \in 1 .. n : found[i].verified <=> \E r \in found[i].events : r.tier = "verified"
    BY DEF Bundled
  <2> QED BY <1>1, <1>2, <2>1
<1> QED BY <1>2, <1>3, <1>4, <1>5 DEF bundles

\* No bundle is split without need: the one that follows is of another publisher or is late.
LEMMA BundlesAreWhole ==
  ASSUME RowsAreOrdered, NEW found, NEW n, Bundled(found, n),
         NEW b \in Reads!ToSet(found), NEW c \in Reads!ToSet(found),
         NEW r \in b.events, NEW s \in c.events,
         b.created < c.created,
         ~\E d \in Reads!ToSet(found) : b.created < d.created /\ d.created < c.created
  PROVE  r.created < s.created /\ (r.publisher = s.publisher => c.created - b.created > Window)
<1>1. n \in Nat /\ Reads!ToSet(found) = {found[i] : i \in 1 .. n}
  BY BundlesAreDated DEF Bundled
<1>2. PICK i \in 1 .. n : b = found[i]
  BY <1>1
<1>3. PICK j \in 1 .. n : c = found[j]
  BY <1>1
<1>4. \A k, l \in 1 .. n : found[k].created \in Int /\ (k < l => found[k].created < found[l].created)
  BY BundlesAreDated
<1>5. i < j
  <2>1. i # j
    BY <1>2, <1>3, <1>4
  <2>2. ~(j < i)
    BY <1>2, <1>3, <1>4
  <2> QED BY <1>1, <2>1, <2>2
<1>6. j = i + 1
  <2>1. ASSUME i + 1 < j PROVE FALSE
    <3>1. i + 1 \in 1 .. n /\ i < i + 1
      BY <1>1, <2>1
    <3>2. found[i + 1] \in Reads!ToSet(found)
      BY <1>1, <3>1
    <3>3. b.created < found[i + 1].created /\ found[i + 1].created < c.created
      BY <1>2, <1>3, <1>4, <2>1, <3>1
    <3> QED BY <3>2, <3>3
  <2> QED BY <1>1, <1>5, <2>1
<1>7. r.created < s.created
  BY <1>2, <1>3, <1>5 DEF Bundled
<1>8. i \in 1 .. n - 1
  BY <1>1, <1>6
<1>9. r.publisher = s.publisher => c.created - b.created > Window
  BY <1>2, <1>3, <1>6, <1>8 DEF Bundled
<1> QED BY <1>7, <1>9

\* Where the profile shows a bundle.
Earlier(found, i, j) ==
  \/ Reads!NewestFirst(found[i], found[j])
  \/ ~Reads!NewestFirst(found[j], found[i]) /\ i < j

\* The order of the bundles found: a permutation of their places, by which they are shown.
ShownInOrder(found, n, order) ==
  /\ order \in [1 .. n -> 1 .. n]
  /\ Reads!Bundles = [i \in 1 .. n |-> found[order[i]]]
  /\ \A k \in 1 .. n : \E i \in 1 .. n : order[i] = k
  /\ \A i, j \in 1 .. n : i < j => Earlier(found, order[i], order[j])

\* The profile shows each bundle once, the newest version first.
LEMMA BundlesAreShown ==
  ASSUME NEW found, NEW n, found = Reads!GroupIntoBundles, Bundled(found, n)
  PROVE  \E order : ShownInOrder(found, n, order)
<1> DEFINE D == 1 .. n
           R == {p \in D \X D : Earlier(found, p[1], p[2])}
           place(i) == CHOOSE x \in D : Reads!Cardinality({y \in D : Earlier(found, y, x)}) = i - 1
           order == [i \in 1 .. Reads!Cardinality(D) |-> place(i)]
<1>1. n \in Nat /\ DOMAIN found = D
  BY DEF Bundled
<1>2. \A i \in D : found[i].version \in Int /\ found[i].updated \in Int
  BY DEF Bundled
<1>3. \A T : Reads!Cardinality(T) = Cardinality(T)
  BY DEF Reads!Cardinality, Cardinality
<1>4. IsFiniteSet(D) /\ Cardinality(D) = n
  BY <1>1, FS_Interval
<1>5. Reads!Bundles = [i \in DOMAIN order |-> found[order[i]]]
  BY <1>1 DEF Reads!Bundles, Reads!InOrder, Earlier
<1>6. \A x, y \in D : <<x, y>> \in R <=> Earlier(found, x, y)
  OBVIOUS
<1>7. \A x \in D : {y \in D : Earlier(found, y, x)} = {y \in D : <<y, x>> \in R}
  BY <1>6
<1>8. /\ \A x \in D : ~Earlier(found, x, x)
      /\ \A x, y, z \in D : Earlier(found, x, y) /\ Earlier(found, y, z) => Earlier(found, x, z)
      /\ \A x, y \in D : x = y \/ Earlier(found, x, y) \/ Earlier(found, y, x)
  <2>1. \A x \in D : x \in Int
    OBVIOUS
  <2> HIDE DEF D
  <2> QED BY <1>2, <2>1 DEF Earlier, Reads!NewestFirst
<1> HIDE DEF R
<1>9. /\ \A x \in D : <<x, x>> \notin R
      /\ \A x, y, z \in D : <<x, y>> \in R /\ <<y, z>> \in R => <<x, z>> \in R
      /\ \A x, y \in D : x = y \/ <<x, y>> \in R \/ <<y, x>> \in R
  <2> HIDE DEF D
  <2> QED BY <1>6, <1>8
<1>10. /\ order = [i \in 1 .. Cardinality(D) |-> order[i]] /\ DOMAIN order = 1 .. n
       /\ \A i \in 1 .. n : order[i] = place(i)
  <2> HIDE DEF place, D
  <2> QED BY <1>3, <1>4
<1>11. ASSUME NEW i \in 1 .. Cardinality(D), \E x \in D : Cardinality({y \in D : <<y, x>> \in R}) = i - 1
       PROVE  order[i] \in D /\ Cardinality({y \in D : <<y, order[i]>> \in R}) = i - 1
  <2>1. order[i] = CHOOSE x \in D : Reads!Cardinality({y \in D : Earlier(found, y, x)}) = i - 1
    BY <1>4, <1>10
  <2> HIDE DEF D, order
  <2>2. \E x \in D : Reads!Cardinality({y \in D : Earlier(found, y, x)}) = i - 1
    BY <1>3, <1>7, <1>11
  <2>3. order[i] \in D /\ Reads!Cardinality({y \in D : Earlier(found, y, order[i])}) = i - 1
    BY <2>1, <2>2
  <2> QED BY <1>3, <1>7, <2>3
<1> HIDE DEF order, place, D
<1>12. /\ order \in [1 .. n -> D]
       /\ \A x \in D : \E i \in 1 .. n : order[i] = x
       /\ \A i, j \in 1 .. n : i < j => <<order[i], order[j]>> \in R
  <2>1. /\ Cardinality(D) \in Nat /\ order \in [1 .. Cardinality(D) -> D]
        /\ \A x \in D : \E i \in 1 .. Cardinality(D) : order[i] = x
        /\ \A i, j \in 1 .. Cardinality(D) : i < j => <<order[i], order[j]>> \in R
    <3>1. IsFiniteSet(D) /\ order = [i \in 1 .. Cardinality(D) |-> order[i]]
      BY <1>4, <1>10
    <3>2. \A i \in 1 .. Cardinality(D) : (\E x \in D : Cardinality({y \in D : <<y, x>> \in R}) = i - 1) =>
            order[i] \in D /\ Cardinality({y \in D : <<y, order[i]>> \in R}) = i - 1
      BY <1>11
    <3>3. \A x \in D : <<x, x>> \notin R
      BY <1>9
    <3>4. \A x, y, z \in D : <<x, y>> \in R /\ <<y, z>> \in R => <<x, z>> \in R
      BY <1>9
    <3>5. \A x, y \in D : x = y \/ <<x, y>> \in R \/ <<y, x>> \in R
      BY <1>9
    <3> QED BY <3>1, <3>2, <3>3, <3>4, <3>5, OrderedList
  <2> QED BY <1>4, <2>1
<1>13. \A i, j \in 1 .. n : i < j => Earlier(found, order[i], order[j])
  BY <1>6, <1>12
<1>14. Reads!Bundles = [i \in 1 .. n |-> found[order[i]]]
  BY <1>5, <1>10
<1>15. ShownInOrder(found, n, order)
  <2> HIDE DEF order
  <2> QED BY <1>12, <1>13, <1>14 DEF ShownInOrder, D
<1> QED BY <1>15

\* There are as many as are counted, and the one that is found of a version is the one of them
\* that changed last.
LEMMA BundleIsFound ==
  ASSUME NEW found, NEW n, found = Reads!GroupIntoBundles, Bundled(found, n),
         NEW v, NEW b \in Reads!FindBundleByVersion(v), NEW c \in Reads!ToSet(found), c.version = v
  PROVE  c.updated <= b.updated
<1>0. PICK order : ShownInOrder(found, n, order)
  BY BundlesAreShown
<1> DEFINE shown == Reads!Bundles
           places == {i \in DOMAIN shown : shown[i].version = v}
           first == CHOOSE i \in places : \A j \in places : i <= j
<1>1. /\ order \in [1 .. n -> 1 .. n]
      /\ shown = [i \in 1 .. n |-> found[order[i]]]
      /\ \A k \in 1 .. n : \E i \in 1 .. n : order[i] = k
      /\ \A i, j \in 1 .. n : i < j => Earlier(found, order[i], order[j])
  BY <1>0 DEF ShownInOrder
<1>2. places # {} /\ b = shown[first]
  BY DEF Reads!FindBundleByVersion
<1>3. n \in Nat /\ DOMAIN shown = 1 .. n /\ \A i \in 1 .. n : shown[i] = found[order[i]] /\ order[i] \in 1 .. n
  <2>1. n \in Nat
    BY DEF Bundled
  <2> HIDE DEF shown
  <2> QED BY <1>1, <2>1
<1> HIDE DEF shown
<1>4. places \subseteq Nat /\ places \subseteq 1 .. n
  BY <1>3
<1> HIDE DEF places
<1>5. PICK least \in places : \A j \in places : least <= j
  BY <1>2, <1>4, Least
<1>6. first \in places /\ \A j \in places : first <= j
  BY <1>5
<1> HIDE DEF first
<1>7. PICK k \in 1 .. n : c = found[k]
  <2>1. DOMAIN found = 1 .. n
    BY DEF Bundled
  <2> QED BY <2>1 DEF Reads!ToSet
<1>8. PICK j \in 1 .. n : order[j] = k
  BY <1>1
<1>9. j \in places
  BY <1>3, <1>7, <1>8 DEF places
<1>10. first \in 1 .. n /\ first <= j /\ first \in Int /\ j \in Int
  BY <1>4, <1>6, <1>9
<1>11. b.version = v /\ b = found[order[first]]
  BY <1>2, <1>3, <1>6, <1>10 DEF places
<1>12. /\ order[first] \in 1 .. n /\ b.version \in Int /\ b.updated \in Int
       /\ c.version \in Int /\ c.updated \in Int
  <2>1. \A i \in 1 .. n : found[i].version \in Int /\ found[i].updated \in Int
    BY DEF Bundled
  <2>2. order[first] \in 1 .. n
    BY <1>3, <1>10
  <2> QED BY <1>7, <1>11, <2>1, <2>2
<1>13. CASE first = j
  BY <1>7, <1>8, <1>11, <1>12, <1>13
<1>14. CASE first < j
  <2>1. Earlier(found, order[first], k)
    BY <1>1, <1>8, <1>10, <1>14
  <2>2. Reads!NewestFirst(b, c) \/ ~Reads!NewestFirst(c, b)
    BY <1>7, <1>11, <2>1 DEF Earlier
  <2> QED BY <1>11, <1>12, <2>2 DEF Reads!NewestFirst
<1> QED BY <1>10, <1>13, <1>14

\* The list counts the bundles that the profile shows.
LEMMA BundlesAreCounted ==
  ASSUME NEW found, NEW n, found = Reads!GroupIntoBundles, Bundled(found, n)
  PROVE  Len(Reads!GroupIntoBundles) = Len(Reads!Bundles)
<1>0. PICK order : ShownInOrder(found, n, order)
  BY BundlesAreShown
<1>1. Reads!Bundles = [i \in 1 .. n |-> found[order[i]]]
  BY <1>0 DEF ShownInOrder
<1>2. n \in Nat /\ DOMAIN found = 1 .. n /\ Len(found) = n
  <2>1. n \in Nat /\ DOMAIN found = 1 .. n /\ found \in Seq({found[i] : i \in 1 .. n})
    BY DEF Bundled
  <2> QED BY <2>1
<1>3. Len([i \in 1 .. n |-> found[order[i]]]) = n
  BY <1>2
<1> QED BY <1>1, <1>2, <1>3

\* What the bundles of any rows are, in the profile, the list and the detail.
LEMMA BundlesAreSoundThen ==
  Reads!SchemasAssumption /\ RowsAreOrdered => Reads!BundlesAreSound
<1> SUFFICES ASSUME Reads!SchemasAssumption, RowsAreOrdered PROVE Reads!BundlesAreSound
  OBVIOUS
<1> DEFINE found == Reads!GroupIntoBundles
           n == Len(Reads!Batches)
           bundles == Reads!ToSet(found)
<1>1. Bundled(found, n)
  BY SchemasAreBundled
<1> HIDE DEF n
<1>2. /\ UNION {b.events : b \in bundles} = Reads!Published
      /\ \A b \in bundles : \A r \in b.events, s \in b.events :
           r.publisher = s.publisher /\ r.created - b.created \in 0 .. Window
      /\ \A b \in bundles, c \in bundles : b # c => b.events \cap c.events = {}
      /\ (\E r \in Reads!Published : r.tier = "verified") <=> \E b \in bundles : b.verified
  <2> HIDE DEF found
  <2> QED BY <1>1, BundlesArePartition
<1>3. ASSUME NEW b \in bundles, NEW c \in bundles, NEW r \in b.events, NEW s \in c.events,
             b.created < c.created,
             ~\E d \in bundles : b.created < d.created /\ d.created < c.created
      PROVE  r.created < s.created /\ (r.publisher = s.publisher => c.created - b.created > Window)
  <2> HIDE DEF found
  <2> QED BY <1>1, <1>3, BundlesAreWhole
<1>4. \A v \in 1 .. MaxClock : \A b \in Reads!FindBundleByVersion(v), c \in bundles :
        c.version = v => c.updated <= b.updated
  BY <1>1, BundleIsFound
<1>5. Reads!ContractSummary.schemaCount = Len(Reads!Bundles)
  <2>1. Reads!ContractSummary.schemaCount = Len(Reads!GroupIntoBundles)
    BY DEF Reads!ContractSummary
  <2> QED BY <1>1, <2>1, BundlesAreCounted
<1>6. Reads!ContractSummary.isVerified <=> \E b \in bundles : b.verified
  <2>1. Reads!ContractSummary.isVerified <=> \E r \in Reads!Published : r.tier = "verified"
    BY DEF Reads!ContractSummary, Reads!ContractVerification
  <2> QED BY <1>2, <2>1
<1> QED BY <1>2, <1>3, <1>4, <1>5, <1>6 DEF Reads!BundlesAreSound

---------------------------------------------------------------------------
\* The pages of a list.

\* A quotient, and a product with it, which SMT proves from the definition of \div.
LEMMA Quotient ==
  ASSUME NEW n \in Nat, NEW size \in Nat \ {0}
  PROVE  /\ n \div size \in Nat /\ (n \div size) * size <= n /\ n < (n \div size) * size + size
OBVIOUS

\* The pages of a list begin where the pages before them have ended.
LEMMA PagesApart ==
  ASSUME NEW size \in Nat \ {0}, NEW p \in Nat, NEW q \in Nat, p < q
  PROVE  p * size <= (q - 1) * size
OBVIOUS

\* More pages have no fewer places.
LEMMA ProductsGrow ==
  ASSUME NEW size \in Nat \ {0}, NEW p \in Nat, NEW q \in Nat, p <= q
  PROVE  p * size <= q * size
OBVIOUS

\* A page more or fewer.
LEMMA NextProduct ==
  ASSUME NEW size \in Nat \ {0}, NEW p \in Int
  PROVE  (p - 1) * size = p * size - size /\ (p + 1) * size = p * size + size /\ p * size \in Int
OBVIOUS

\* The smaller of two.
LEMMA MinOfTwo ==
  ASSUME NEW a \in Int, NEW b \in Int
  PROVE  Explore!Min({a, b}) = IF a <= b THEN a ELSE b
BY DEF Explore!Min

\* A page has the places of a list after the first of these and up to the second.
PlaceBefore(p, size) == (p - 1) * size

PlaceUpTo(p, size, n) == IF p * size <= n THEN p * size ELSE n

PageHas(page, list, n, size, p) ==
  /\ p \in Nat /\ p >= 1 /\ PlaceBefore(p, size) \in Nat /\ PlaceUpTo(p, size, n) \in Nat
  /\ PlaceBefore(p, size) < PlaceUpTo(p, size, n) /\ PlaceUpTo(p, size, n) <= n
  /\ PlaceUpTo(p, size, n) <= p * size /\ p * size \in Int
  /\ DOMAIN page = 1 .. PlaceUpTo(p, size, n) - PlaceBefore(p, size)
  /\ \A i \in 1 .. PlaceUpTo(p, size, n) - PlaceBefore(p, size) : page[i] = list[PlaceBefore(p, size) + i]

\* A page that is counted begins within the list, and has its part of it.
LEMMA PageHolds ==
  ASSUME NEW T, NEW n \in Nat, NEW list \in [1 .. n -> T], NEW size \in Nat \ {0},
         NEW p \in Explore!Pages(n, size)
  PROVE  PageHas(Explore!PageOf(list, p, size), list, n, size, p)
<1> DEFINE first == (p - 1) * size
           last == IF p * size <= n THEN p * size ELSE n
           pages == (n + size - 1) \div size
<1>1. pages \in Nat /\ pages * size <= n + size - 1 /\ p \in 1 .. pages
  <2>1. n + size - 1 \in Nat
    OBVIOUS
  <2> QED BY <2>1, Quotient DEF Explore!Pages
<1>2. p \in Nat /\ p >= 1 /\ p * size \in Nat /\ first \in Nat /\ first = p * size - size
  BY <1>1, NextProduct
<1>3. p * size <= pages * size /\ pages * size \in Int
  BY <1>1, <1>2, ProductsGrow, NextProduct
<1>4. last \in Nat /\ first < last /\ last <= n
  BY <1>1, <1>2, <1>3
<1>5. list \in Seq(T) /\ Len(list) = n
  OBVIOUS
<1>6. Explore!PageOf(list, p, size) = SubSeq(list, first + 1, last)
  BY <1>2, <1>5, MinOfTwo DEF Explore!PageOf
<1> HIDE DEF first, last
<1>7. /\ DOMAIN SubSeq(list, first + 1, last) = 1 .. last - first
      /\ \A i \in 1 .. last - first : SubSeq(list, first + 1, last)[i] = list[first + i]
  <2>1. first + 1 \in 1 .. Len(list) + 1 /\ last \in first + 1 - 1 .. Len(list)
    BY <1>2, <1>4, <1>5
  <2> QED BY <1>2, <1>4, <1>5, <2>1
<1>8. last <= p * size
  BY <1>2 DEF last
<1> QED BY <1>2, <1>4, <1>6, <1>7, <1>8 DEF first, last, PlaceBefore, PlaceUpTo, PageHas

\* What the pages of a list are to show: the elements of T, at one place each.
PagesShow(list, n, size, T) ==
  /\ UNION {Explore!ToSet(Explore!PageOf(list, p, size)) : p \in Explore!Pages(n, size)} = T
  /\ \A p, q \in Explore!Pages(n, size) :
       \A i \in DOMAIN Explore!PageOf(list, p, size), j \in DOMAIN Explore!PageOf(list, q, size) :
         Explore!PageOf(list, p, size)[i] = Explore!PageOf(list, q, size)[j] => p = q /\ i = j

\* The pages of a list of distinct elements show each of them at one place.
LEMMA PagesShowAll ==
  ASSUME NEW T, NEW n \in Nat, NEW list \in [1 .. n -> T], NEW size \in Nat \ {0},
         \A x \in T : \E i \in 1 .. n : list[i] = x,
         \A i, j \in 1 .. n : list[i] = list[j] => i = j
  PROVE  PagesShow(list, n, size, T)
<1> DEFINE first(p) == PlaceBefore(p, size)
           last(p) == PlaceUpTo(p, size, n)
           page(p) == Explore!PageOf(list, p, size)
<1>1. ASSUME NEW p \in Explore!Pages(n, size)
      PROVE  /\ p \in Nat /\ p >= 1 /\ first(p) \in Nat /\ last(p) \in Nat
             /\ first(p) < last(p) /\ last(p) <= n /\ last(p) <= p * size
             /\ DOMAIN page(p) = 1 .. last(p) - first(p)
             /\ \A i \in 1 .. last(p) - first(p) : page(p)[i] = list[first(p) + i]
  <2>1. PageHas(page(p), list, n, size, p)
    BY PageHolds
  <2> HIDE DEF page
  <2> QED BY <2>1 DEF PageHas
<1>3. ASSUME NEW x \in T PROVE \E p \in Explore!Pages(n, size) : x \in Explore!ToSet(page(p))
  <2>1. PICK k \in 1 .. n : list[k] = x
    OBVIOUS
  <2> DEFINE q == (k - 1) \div size
  <2>2. k - 1 \in Nat /\ n - 1 \in Nat
    BY <2>1
  <2>3. q \in Nat /\ q * size <= k - 1 /\ k - 1 < q * size + size /\ q * size \in Int
    BY <2>2, Quotient, NextProduct
  <2> DEFINE pages == (n + size - 1) \div size
  <2>4. pages \in Nat /\ n + size - 1 < pages * size + size /\ pages * size \in Int
    <3>1. n + size - 1 \in Nat
      OBVIOUS
    <3> QED BY <3>1, Quotient, NextProduct
  <2> HIDE DEF q, pages
  <2>5. q < pages
    <3>1. q * size < pages * size
      BY <2>3, <2>4
    <3> QED BY <2>3, <2>4, <3>1, ProductsGrow
  <2>6. q + 1 \in Explore!Pages(n, size)
    BY <2>3, <2>4, <2>5 DEF Explore!Pages, pages
  <2>7. (q + 1) * size = q * size + size /\ first(q + 1) = q * size
    BY <2>3, NextProduct DEF PlaceBefore
  <2>8. k - q * size \in 1 .. last(q + 1) - first(q + 1)
    BY <2>2, <2>3, <2>7 DEF PlaceUpTo, PlaceBefore
  <2>9. page(q + 1)[k - q * size] = list[k] /\ k - q * size \in DOMAIN page(q + 1)
    <3>1. first(q + 1) + (k - q * size) = k
      BY <2>2, <2>3, <2>7 DEF PlaceUpTo, PlaceBefore
    <3> HIDE DEF first, last, page
    <3> DEFINE at == k - q * size
               on == q + 1
    <3>2. at \in 1 .. last(on) - first(on) /\ on \in Explore!Pages(n, size)
      BY <2>6, <2>8
    <3> HIDE DEF at, on
    <3>3. DOMAIN page(on) = 1 .. last(on) - first(on) /\ page(on)[at] = list[first(on) + at]
      BY <1>1, <3>2, Zenon
    <3>4. first(on) + at = k
      BY <3>1 DEF at, on
    <3> QED BY <3>2, <3>3, <3>4, Zenon DEF at, on
  <2> QED BY <2>1, <2>6, <2>9 DEF Explore!ToSet
<1> HIDE DEF first, last, page
<1>4. ASSUME NEW p \in Explore!Pages(n, size), NEW i \in DOMAIN page(p)
      PROVE  /\ first(p) + i \in 1 .. n /\ first(p) + i <= p * size /\ i \in Nat /\ i >= 1
             /\ page(p)[i] = list[first(p) + i]
  <2>1. p * size \in Int
    BY <1>1, NextProduct
  <2>2. /\ first(p) \in Nat /\ last(p) \in Nat /\ last(p) <= n /\ last(p) <= p * size
        /\ i \in 1 .. last(p) - first(p)
    BY <1>1
  <2>3. page(p)[i] = list[first(p) + i]
    BY <1>1, <2>2
  <2> QED BY <2>1, <2>2, <2>3
<1>5. ASSUME NEW p \in Explore!Pages(n, size) PROVE Explore!ToSet(page(p)) \subseteq T
  BY <1>4, <1>5 DEF Explore!ToSet
<1>6. ASSUME NEW p \in Explore!Pages(n, size), NEW q \in Explore!Pages(n, size),
             NEW i \in DOMAIN page(p), NEW j \in DOMAIN page(q), page(p)[i] = page(q)[j]
      PROVE  p = q /\ i = j
  <2>1. first(p) + i = first(q) + j
    BY <1>4, <1>6
  <2>2. p \in Nat /\ q \in Nat /\ i \in Nat /\ j \in Nat /\ i >= 1 /\ j >= 1
        /\ first(p) \in Nat /\ first(q) \in Nat /\ p * size \in Int /\ q * size \in Int
    <3>1. p \in Nat /\ q \in Nat /\ first(p) \in Nat /\ first(q) \in Nat
      BY <1>1
    <3> QED BY <1>4, <3>1, NextProduct
  <2>3. ~(p < q)
    <3>1. p < q => p * size <= first(q)
      BY <2>2, PagesApart DEF first, PlaceBefore
    <3> QED BY <1>4, <2>1, <2>2, <3>1
  <2>4. ~(q < p)
    <3>1. q < p => q * size <= first(p)
      BY <2>2, PagesApart DEF first, PlaceBefore
    <3> QED BY <1>4, <2>1, <2>2, <3>1
  <2>5. p = q
    BY <2>2, <2>3, <2>4
  <2> QED BY <2>1, <2>2, <2>5
<1>7. UNION {Explore!ToSet(page(p)) : p \in Explore!Pages(n, size)} = T
  BY <1>3, <1>5
<1> QED BY <1>6, <1>7 DEF page, PagesShow

\* The pages of a list of a set show the set, and each of its elements at one place.
LEMMA ListCovers ==
  ASSUME NEW T, NEW list, IsListOf(list, T), NEW size \in Nat \ {0},
         NEW shown, shown = [p \in Explore!Pages(Cardinality(T), size) |-> Explore!PageOf(list, p, size)]
  PROVE  /\ UNION {Explore!ToSet(shown[p]) : p \in DOMAIN shown} = T
         /\ \A p, q \in DOMAIN shown : \A i \in DOMAIN shown[p], j \in DOMAIN shown[q] :
              shown[p][i] = shown[q][j] => p = q /\ i = j
<1> DEFINE pages == Explore!Pages(Cardinality(T), size)
<1>1. PagesShow(list, Cardinality(T), size, T)
  <2>1. /\ Cardinality(T) \in Nat /\ list \in [1 .. Cardinality(T) -> T]
        /\ \A x \in T : \E i \in 1 .. Cardinality(T) : list[i] = x
        /\ \A i, j \in 1 .. Cardinality(T) : list[i] = list[j] => i = j
    BY DEF IsListOf
  <2> QED BY <2>1, PagesShowAll
<1> HIDE DEF pages
<1>2. DOMAIN shown = pages /\ \A p \in pages : shown[p] = Explore!PageOf(list, p, size)
  BY DEF pages
<1>3. {Explore!ToSet(shown[p]) : p \in DOMAIN shown}
        = {Explore!ToSet(Explore!PageOf(list, p, size)) : p \in pages}
  BY <1>2
<1> QED BY <1>1, <1>2, <1>3 DEF PagesShow, pages

---------------------------------------------------------------------------
\* What the pages of the explore API agree on.

\* What the lists of the explore API need of the table.
TableIsSound == CopiesAreStamped /\ IsFiniteSet(table) /\ Explore!ReadsAssumption

\* The module brings the cardinality of sets along.
LEMMA ExploreCounts ==
  ASSUME NEW S
  PROVE  Explore!Cardinality(S) = Cardinality(S)
BY SameCardinality

\* Newest lists copies: stamp, ledger and id tell them apart.
LEMMA CopiesAreListed ==
  ASSUME TableIsSound, NEW T, T \subseteq table
  PROVE  IsListOf(Explore!Newest(T), T)
<1> DEFINE list == Explore!Newest(T)
           R == {r \in T \X T : Explore!Newer(r[1], r[2])}
           n == Cardinality(T)
<1>1. IsFiniteSet(T)
  BY FS_Subset DEF TableIsSound
<1>2. \A c \in T : c.at \in Int /\ c.log \in Int /\ LedgerOf[c.log] \in Int
  <2>1. Logs \subseteq Nat /\ \A e \in Logs : LedgerOf[e] \in Nat
    BY DEF TableIsSound, Explore!ReadsAssumption
  <2>2. \A c \in T : c.at \in Int /\ c.log \in Logs
    BY DEF TableIsSound, CopiesAreStamped, Explore!Copy
  <2> HIDE DEF list, R, n
  <2>3. \A c \in T : c.log \in Nat /\ LedgerOf[c.log] \in Nat
    BY <2>1, <2>2
  <2> QED BY <2>2, <2>3
<1>3. \A c, d \in T : c.log = d.log /\ c.at = d.at => c = d
  BY DEF TableIsSound, CopiesAreStamped
<1>4. \A x, y \in T : <<x, y>> \in R <=> Explore!Newer(x, y)
  OBVIOUS
<1>5. \A x \in T : {y \in T : Explore!Newer(y, x)} = {y \in T : <<y, x>> \in R}
  BY <1>4
<1>6. list = [i \in 1 .. n |->
                CHOOSE x \in T : Explore!Cardinality({y \in T : Explore!Newer(y, x)}) = i - 1]
  BY ExploreCounts DEF Explore!Newest, Explore!InOrder
<1> HIDE DEF R
<1>7. ASSUME NEW i \in 1 .. n, \E x \in T : Cardinality({y \in T : <<y, x>> \in R}) = i - 1
      PROVE  list[i] \in T /\ Cardinality({y \in T : <<y, list[i]>> \in R}) = i - 1
  <2>1. list[i] = CHOOSE x \in T : Explore!Cardinality({y \in T : Explore!Newer(y, x)}) = i - 1
    BY <1>6
  <2> HIDE DEF list, n
  <2>2. PICK x \in T : Cardinality({y \in T : <<y, x>> \in R}) = i - 1
    BY <1>7
  <2>3. Explore!Cardinality({y \in T : Explore!Newer(y, x)}) = i - 1
    BY <1>5, <2>2, ExploreCounts
  <2>4. list[i] \in T /\ Explore!Cardinality({y \in T : Explore!Newer(y, list[i])}) = i - 1
    BY <2>1, <2>3
  <2> QED BY <1>5, <2>4, ExploreCounts
<1>8. list = [i \in 1 .. n |-> list[i]]
  BY <1>6
<1>9. \A x \in T : <<x, x>> \notin R
  BY <1>2, <1>4 DEF Explore!Newer
<1>10. \A x, y, z \in T : <<x, y>> \in R /\ <<y, z>> \in R => <<x, z>> \in R
  BY <1>2, <1>4 DEF Explore!Newer
<1>11. \A x, y \in T : x = y \/ <<x, y>> \in R \/ <<y, x>> \in R
  <2> SUFFICES ASSUME NEW x \in T, NEW y \in T, ~Explore!Newer(x, y), ~Explore!Newer(y, x)
               PROVE  x = y
    BY <1>4
  <2>1. x.at = y.at
    BY <1>2 DEF Explore!Newer
  <2>2. LedgerOf[x.log] = LedgerOf[y.log]
    BY <1>2, <2>1 DEF Explore!Newer
  <2>3. x.log = y.log
    BY <1>2, <2>1, <2>2 DEF Explore!Newer
  <2> QED BY <1>3, <2>1, <2>3
<1> HIDE DEF list, n
<1>12. /\ Cardinality(T) \in Nat /\ list \in [1 .. Cardinality(T) -> T]
       /\ \A x \in T : \E i \in 1 .. Cardinality(T) : list[i] = x
       /\ \A i, j \in 1 .. Cardinality(T) : i < j => <<list[i], list[j]>> \in R
  BY <1>1, <1>7, <1>8, <1>9, <1>10, <1>11, OrderedList DEF n
<1>13. ASSUME NEW i \in 1 .. Cardinality(T), NEW j \in 1 .. Cardinality(T), list[i] = list[j]
       PROVE  i = j
  <2>1. list[i] \in T /\ list[j] \in T
    BY <1>12
  <2>2. ~(i < j) /\ ~(j < i)
    BY <1>9, <1>12, <1>13, <2>1
  <2> QED BY <1>12, <2>2
<1>14. IsListOf(list, T)
  BY <1>12, <1>13 DEF IsListOf
<1> QED BY <1>14 DEF list

\* The contracts that have copies.
SeenContracts == {Emitter[c.log] : c \in table}

\* They are finitely many.
LEMMA FewContracts ==
  ASSUME TableIsSound, NEW S, S \subseteq SeenContracts
  PROVE  IsFiniteSet(S) /\ Cardinality(S) \in Nat
<1> DEFINE f == [c \in table |-> Emitter[c.log]]
<1>1. f \in Surjection(table, SeenContracts)
  BY DEF Surjection, SeenContracts
<1>2. IsFiniteSet(SeenContracts)
  BY <1>1, FS_Surjection DEF TableIsSound
<1> QED BY <1>2, FS_Subset, FS_CardinalityType

\* What contracts are ordered by.
LEMMA ContractsHaveKeys ==
  ASSUME TableIsSound, NEW k \in SeenContracts
  PROVE  Explore!LastSeen(k) \in Int /\ Explore!Cardinality(Explore!EmittedBy(k)) \in Int
<1> DEFINE stamps == {c.at : c \in Explore!EmittedBy(k)}
<1>1. stamps \subseteq 0 .. MaxStamp
  BY DEF TableIsSound, CopiesAreStamped, Explore!Copy, Explore!EmittedBy
<1>2. stamps # {}
  BY DEF SeenContracts, Explore!EmittedBy
<1> HIDE DEF stamps
<1>3. PICK m \in stamps : \A n \in stamps : n <= m
  BY <1>1, <1>2, Largest DEF TableIsSound, Explore!ReadsAssumption
<1>4. \A n \in stamps : n \in Int
  BY <1>1
<1>5. Explore!Max(stamps) \in stamps
  BY <1>3, <1>4 DEF Explore!Max
<1>6. Explore!LastSeen(k) \in stamps
  BY <1>5 DEF Explore!LastSeen, stamps
<1>7. Explore!Cardinality(Explore!EmittedBy(k)) \in Nat
  <2>1. IsFiniteSet(Explore!EmittedBy(k))
    BY FS_Subset DEF TableIsSound, Explore!EmittedBy
  <2> QED BY <2>1, FS_CardinalityType, ExploreCounts
<1> QED BY <1>4, <1>6, <1>7

\* A list that ORDER BY may make of contracts.
Ordered(list, S) == list \in Explore!Orders(S, Explore!Ahead)

\* Triples of numbers are in an order.
LEMMA TriplesInOrder ==
  ASSUME NEW i \in Int, NEW j \in Int, NEW k \in Int, NEW p \in Int, NEW q \in Int, NEW r \in Int,
         NEW u \in Int, NEW v \in Int, NEW w \in Int,
         i > j \/ (i = j /\ (p > q \/ (p = q /\ u < v))),
         j > k \/ (j = k /\ (q > r \/ (q = r /\ v < w)))
  PROVE  i > k \/ (i = k /\ (p > r \/ (p = r /\ u < w)))
<1>1. CASE i > j \/ j > k
  BY <1>1
<1>2. CASE i = j /\ j = k
  BY <1>2
<1> QED BY <1>1, <1>2

\* There is one: contracts that tie may stand in the order of any list of them.
LEMMA ContractsHaveAnOrder ==
  ASSUME TableIsSound, NEW S, S \subseteq SeenContracts
  PROVE  \E list : Ordered(list, S)
<1> DEFINE n == Cardinality(S)
           a == [k \in S |-> Explore!LastSeen(k)]
           b == [k \in S |-> Explore!Cardinality(Explore!EmittedBy(k))]
<1>1. IsFiniteSet(S) /\ n \in Nat
  BY FewContracts
<1>2. PICK g \in Bijection(1 .. n, S) : TRUE
  BY <1>1, FS_CardinalityType DEF ExistsBijection
<1> DEFINE place == [k \in S |-> CHOOSE i \in 1 .. n : g[i] = k]
<1>3. \A k \in S : place[k] \in 1 .. n /\ g[place[k]] = k
  BY <1>2 DEF Bijection, Surjection
<1>4. \A k \in S : a[k] \in Int /\ b[k] \in Int
  BY ContractsHaveKeys
<1>5. \A k, l \in S : Explore!Ahead(k, l) <=> a[k] > a[l] \/ (a[k] = a[l] /\ b[k] > b[l])
  BY DEF Explore!Ahead
<1> HIDE DEF a, b, place, n
<1> DEFINE R == {r \in S \X S : \/ Explore!Ahead(r[1], r[2])
                                \/ ~Explore!Ahead(r[2], r[1]) /\ place[r[1]] < place[r[2]]}
<1>6. \A x, y \in S : <<x, y>> \in R <=> \/ Explore!Ahead(x, y)
                                         \/ ~Explore!Ahead(y, x) /\ place[x] < place[y]
  OBVIOUS
<1> HIDE DEF R
<1>7. \A x \in S : place[x] \in Int
  BY <1>1, <1>3
<1>8. \A x \in S : <<x, x>> \notin R
  BY <1>4, <1>5, <1>6, <1>7
<1>9. \A x, y, z \in S : <<x, y>> \in R /\ <<y, z>> \in R => <<x, z>> \in R
  <2> SUFFICES ASSUME NEW x \in S, NEW y \in S, NEW z \in S, <<x, y>> \in R, <<y, z>> \in R
               PROVE  <<x, z>> \in R
    OBVIOUS
  <2>1. /\ a[x] \in Int /\ a[y] \in Int /\ a[z] \in Int /\ b[x] \in Int /\ b[y] \in Int /\ b[z] \in Int
        /\ place[x] \in Int /\ place[y] \in Int /\ place[z] \in Int
    BY <1>4, <1>7
  <2> DEFINE Beats(u, v) == a[u] > a[v] \/ (a[u] = a[v] /\ b[u] > b[v])
  <2>2. /\ Beats(x, y) \/ (~Beats(y, x) /\ place[x] < place[y])
        /\ Beats(y, z) \/ (~Beats(z, y) /\ place[y] < place[z])
    BY <1>5, <1>6
  <2>3. /\ a[x] > a[y] \/ (a[x] = a[y] /\ (b[x] > b[y] \/ (b[x] = b[y] /\ place[x] < place[y])))
        /\ a[y] > a[z] \/ (a[y] = a[z] /\ (b[y] > b[z] \/ (b[y] = b[z] /\ place[y] < place[z])))
    BY <2>1, <2>2
  <2>4. a[x] > a[z] \/ (a[x] = a[z] /\ (b[x] > b[z] \/ (b[x] = b[z] /\ place[x] < place[z])))
    BY <2>1, <2>3, TriplesInOrder
  <2>5. Beats(x, z) \/ (~Beats(z, x) /\ place[x] < place[z])
    BY <2>1, <2>4
  <2> QED BY <1>5, <1>6, <2>5
<1>10. \A x, y \in S : x = y \/ <<x, y>> \in R \/ <<y, x>> \in R
  <2> SUFFICES ASSUME NEW x \in S, NEW y \in S, <<x, y>> \notin R, <<y, x>> \notin R
               PROVE  x = y
    OBVIOUS
  <2>1. place[x] = place[y]
    BY <1>6, <1>7
  <2> QED BY <1>3, <2>1
<1> DEFINE at(i) == CHOOSE x \in S : Cardinality({y \in S : <<y, x>> \in R}) = i - 1
           list == [i \in 1 .. n |-> at(i)]
<1>11. /\ list \in [1 .. n -> S]
       /\ \A i, j \in 1 .. n : i < j => <<list[i], list[j]>> \in R
  <2>1. list = [i \in 1 .. n |-> list[i]]
    <3> HIDE DEF at
    <3> QED OBVIOUS
  <2>2. ASSUME NEW i \in 1 .. n, \E x \in S : Cardinality({y \in S : <<y, x>> \in R}) = i - 1
        PROVE  list[i] \in S /\ Cardinality({y \in S : <<y, list[i]>> \in R}) = i - 1
    BY <2>2
  <2> HIDE DEF list
  <2> QED BY <1>1, <1>8, <1>9, <1>10, <2>1, <2>2, OrderedList DEF n
<1> HIDE DEF list
<1>12. \A i, j \in 1 .. n : i # j => list[i] # list[j]
  <2> SUFFICES ASSUME NEW i \in 1 .. n, NEW j \in 1 .. n, i # j PROVE list[i] # list[j]
    OBVIOUS
  <2>1. i < j \/ j < i
    BY <1>1
  <2> QED BY <1>8, <1>11, <2>1
<1>13. \A i, j \in 1 .. n : i < j => ~Explore!Ahead(list[j], list[i])
  <2> SUFFICES ASSUME NEW i \in 1 .. n, NEW j \in 1 .. n, i < j
               PROVE  ~Explore!Ahead(list[j], list[i])
    OBVIOUS
  <2>1. list[i] \in S /\ list[j] \in S /\ <<list[i], list[j]>> \in R
    BY <1>11
  <2> QED BY <1>4, <1>5, <1>6, <2>1
<1>14. Explore!Cardinality(S) = n /\ DOMAIN list = 1 .. n
  BY <1>11, ExploreCounts DEF n
<1>15. list \in Explore!SetToSeqs(S)
  BY <1>11, <1>12, <1>14 DEF Explore!SetToSeqs
<1>16. list \in Explore!Orders(S, Explore!Ahead)
  BY <1>13, <1>14, <1>15 DEF Explore!Orders
<1> QED BY <1>16 DEF Ordered

\* The contracts that stand before one that ties with none.
AheadOf(S, k) == {l \in S : Explore!Ahead(l, k)}

Untied(S, k) == \A l \in S \ {k} : Explore!Ahead(k, l) \/ Explore!Ahead(l, k)

\* Every order has each contract once, and one that ties with none has its place in all of them.
LEMMA ContractsAreListed ==
  ASSUME TableIsSound, NEW S, S \subseteq SeenContracts, NEW list, Ordered(list, S)
  PROVE  /\ IsListOf(list, S)
         /\ \A k \in S : Untied(S, k) =>
              \E i \in 1 .. Cardinality(S) : list[i] = k /\ i = Cardinality(AheadOf(S, k)) + 1
<1> DEFINE n == Cardinality(S)
<1>1. IsFiniteSet(S) /\ n \in Nat
  BY FewContracts
<1>2. Explore!Cardinality(S) = n
  BY ExploreCounts
<1>3. list \in Explore!SetToSeqs(S) /\ \A i, j \in DOMAIN list : i < j => ~Explore!Ahead(list[j], list[i])
  BY DEF Ordered, Explore!Orders
<1> HIDE DEF n
<1>4. list \in [1 .. n -> S] /\ \A i, j \in 1 .. n : i # j => list[i] # list[j]
  BY <1>2, <1>3 DEF Explore!SetToSeqs
<1>5. \A i, j \in 1 .. n : i < j => ~Explore!Ahead(list[j], list[i])
  BY <1>3, <1>4
<1>6. \A k \in S : \E i \in 1 .. n : list[i] = k
  <2>1. list \in Injection(1 .. n, S)
    BY <1>4 DEF Injection, IsInjective
  <2>2. IsFiniteSet(1 .. n) /\ Cardinality(1 .. n) = n
    BY <1>1, FS_Interval
  <2>3. list \in Surjection(1 .. n, S)
    BY <1>1, <2>1, <2>2, FS_Injection DEF n
  <2> QED BY <2>3 DEF Surjection
<1>7. IsListOf(list, S)
  BY <1>1, <1>4, <1>6 DEF IsListOf, n
<1>8. ASSUME NEW k \in S, Untied(S, k)
      PROVE  \E i \in 1 .. n : list[i] = k /\ i = Cardinality(AheadOf(S, k)) + 1
  <2>1. PICK i \in 1 .. n : list[i] = k
    BY <1>6
  <2>2. ~Explore!Ahead(k, k)
    BY ContractsHaveKeys DEF Explore!Ahead
  <2> DEFINE f == [j \in 1 .. i - 1 |-> list[j]]
  <2>3. \A j \in 1 .. n : Explore!Ahead(list[j], k) <=> j < i
    <3> SUFFICES ASSUME NEW j \in 1 .. n PROVE Explore!Ahead(list[j], k) <=> j < i
      OBVIOUS
    <3>1. i \in Int /\ j \in Int /\ list[j] \in S
      BY <1>1, <1>4
    <3>2. CASE j < i
      <4>1. list[j] # k /\ ~Explore!Ahead(k, list[j])
        BY <1>4, <1>5, <2>1, <3>1, <3>2
      <4>2. list[j] \in S \ {k}
        BY <3>1, <4>1
      <4> QED BY <1>8, <3>2, <4>1, <4>2 DEF Untied
    <3>3. CASE i < j
      BY <1>5, <2>1, <3>1, <3>3
    <3>4. CASE i = j
      BY <2>1, <2>2, <3>1, <3>4
    <3> QED BY <3>1, <3>2, <3>3, <3>4
  <2>4. AheadOf(S, k) = {list[j] : j \in 1 .. i - 1}
    <3>1. \A j \in 1 .. i - 1 : j \in 1 .. n /\ j < i
      BY <1>1
    <3>2. \A j \in 1 .. n : j < i => j \in 1 .. i - 1
      BY <1>1
    <3>3. {list[j] : j \in 1 .. i - 1} \subseteq AheadOf(S, k)
      BY <1>4, <2>3, <3>1 DEF AheadOf
    <3>4. ASSUME NEW l \in AheadOf(S, k) PROVE \E j \in 1 .. i - 1 : list[j] = l
      <4>1. l \in S /\ Explore!Ahead(l, k)
        BY DEF AheadOf
      <4>2. PICK j \in 1 .. n : list[j] = l
        BY <1>6, <4>1
      <4> QED BY <2>3, <3>2, <4>1, <4>2
    <3> QED BY <3>3, <3>4
  <2>5. f \in Injection(1 .. i - 1, AheadOf(S, k)) /\ f \in Surjection(1 .. i - 1, AheadOf(S, k))
    <3>1. \A j \in 1 .. i - 1 : j \in 1 .. n
      BY <1>1
    <3> QED BY <1>4, <2>4, <3>1 DEF Injection, IsInjective, Surjection
  <2>6. IsFiniteSet(1 .. i - 1) /\ Cardinality(1 .. i - 1) = i - 1
    <3>1. i - 1 \in Nat
      BY <1>1
    <3> QED BY <3>1, FS_Interval
  <2> HIDE DEF f
  <2>7. Cardinality(AheadOf(S, k)) = i - 1
    BY <2>5, <2>6, FS_Surjection
  <2> QED BY <2>1, <2>7
<1> QED BY <1>7, <1>8 DEF n

\* The items of a list of contracts.
ItemList(sorted) == [i \in DOMAIN sorted |-> Explore!ContractItem(sorted[i])]

\* An item bears its contract, so that there are as many items as contracts.
LEMMA ItemsAreListed ==
  ASSUME TableIsSound, NEW S, S \subseteq SeenContracts, NEW sorted, Ordered(sorted, S)
  PROVE  LET items == {Explore!ContractItem(k) : k \in S} IN
         Cardinality(items) = Cardinality(S) /\ IsListOf(ItemList(sorted), items)
<1> DEFINE items == {Explore!ContractItem(k) : k \in S}
           n == Cardinality(S)
           item == [k \in S |-> Explore!ContractItem(k)]
<1>1. IsListOf(sorted, S)
  BY ContractsAreListed
<1>2. ItemList(sorted) = [i \in DOMAIN sorted |-> Explore!ContractItem(sorted[i])]
  BY DEF ItemList
<1>3. /\ n \in Nat /\ sorted \in [1 .. n -> S]
      /\ \A k \in S : \E i \in 1 .. n : sorted[i] = k
      /\ \A i, j \in 1 .. n : sorted[i] = sorted[j] => i = j
  BY <1>1 DEF IsListOf
<1>4. \A k, l \in S : Explore!ContractItem(k) = Explore!ContractItem(l) => k = l
  <2> TAKE k \in S, l \in S
  <2>1. Explore!ContractItem(k).contract = k /\ Explore!ContractItem(l).contract = l
    BY DEF Explore!ContractItem
  <2> QED BY <2>1
<1>5. IsFiniteSet(S)
  <2>1. IsFiniteSet(1 .. n) /\ sorted \in Surjection(1 .. n, S)
    BY <1>3, FS_Interval DEF Surjection
  <2> QED BY <2>1, FS_Surjection
<1>6. Cardinality(items) = n
  <2>1. item \in Surjection(S, items)
    BY DEF Surjection
  <2>2. item \in Injection(S, items)
    BY <1>4 DEF Injection, IsInjective
  <2> HIDE DEF item, items
  <2> QED BY <1>5, <2>1, <2>2, FS_Surjection
<1>7. \A i \in 1 .. n : ItemList(sorted)[i] = Explore!ContractItem(sorted[i])
  BY <1>2, <1>3
<1>8. ItemList(sorted) \in [1 .. n -> items]
  BY <1>2, <1>3
<1>9. \A x \in items : \E i \in 1 .. n : ItemList(sorted)[i] = x
  <2> TAKE x \in items
  <2>1. PICK k \in S : x = Explore!ContractItem(k)
    OBVIOUS
  <2>2. PICK i \in 1 .. n : sorted[i] = k
    BY <1>3
  <2> QED BY <1>7, <2>1, <2>2
<1>10. \A i, j \in 1 .. n : ItemList(sorted)[i] = ItemList(sorted)[j] => i = j
  BY <1>3, <1>4, <1>7
<1> HIDE DEF items, n
<1> QED BY <1>3, <1>6, <1>8, <1>9, <1>10 DEF IsListOf, items, n

\* The pages of all events, with a filter.
LEMMA EventsAreCovered ==
  ASSUME TableIsSound, Explore!ReadsAssumption, NEW filter
  PROVE  Explore!Covers(LAMBDA p, n : Explore!ListEvents(filter, p, n),
                        {c \in table : Explore!Matches(filter, c)})
<1> DEFINE T == {c \in table : Explore!Matches(filter, c)}
           list == Explore!Newest(T)
<1>1. IsListOf(list, T)
  BY CopiesAreListed
<1>2. \A p, n : Explore!ListEvents(filter, p, n) =
                  [total |-> Cardinality(T), items |-> Explore!PageOf(list, p, n)]
  BY ExploreCounts DEF Explore!ListEvents
<1> HIDE DEF T, list
<1>3. ASSUME NEW size \in PageSizes
      PROVE  LET total == Explore!ListEvents(filter, 1, size).total
                 shown == [p \in Explore!Pages(total, size) |-> Explore!ListEvents(filter, p, size).items] IN
             /\ total = Cardinality(T)
             /\ UNION {Explore!ToSet(shown[p]) : p \in DOMAIN shown} = T
             /\ \A p, q \in DOMAIN shown : \A i \in DOMAIN shown[p], j \in DOMAIN shown[q] :
                  shown[p][i] = shown[q][j] => p = q /\ i = j
  <2> DEFINE total == Explore!ListEvents(filter, 1, size).total
             shown == [p \in Explore!Pages(total, size) |-> Explore!ListEvents(filter, p, size).items]
  <2>1. total = Cardinality(T)
    BY <1>2
  <2>2. shown = [p \in Explore!Pages(Cardinality(T), size) |-> Explore!PageOf(list, p, size)]
    BY <1>2, <2>1
  <2> HIDE DEF total, shown
  <2>3. size \in Nat \ {0}
    BY DEF Explore!ReadsAssumption
  <2>4. /\ UNION {Explore!ToSet(shown[p]) : p \in DOMAIN shown} = T
        /\ \A p, q \in DOMAIN shown : \A i \in DOMAIN shown[p], j \in DOMAIN shown[q] :
             shown[p][i] = shown[q][j] => p = q /\ i = j
    BY <1>1, <2>2, <2>3, ListCovers
  <2> QED BY <2>1, <2>4 DEF total, shown
<1>4. Explore!Cardinality(T) = Cardinality(T)
  BY ExploreCounts
<1> QED BY <1>3, <1>4 DEF Explore!Covers, T

\* The pages of the events of a contract, with a filter.
LEMMA ContractEventsAreCovered ==
  ASSUME TableIsSound, Explore!ReadsAssumption, NEW filter, NEW of
  PROVE  Explore!Covers(LAMBDA p, n : Explore!ListContractEvents(of, filter, p, n),
                        {c \in Explore!EmittedBy(of) : Explore!Matches(filter, c)})
<1> DEFINE T == {c \in Explore!EmittedBy(of) : Explore!Matches(filter, c)}
           list == Explore!Newest(T)
<1>1. T = {c \in table : Emitter[c.log] = of /\ Explore!Matches(filter, c)}
  BY DEF Explore!EmittedBy
<1>2. IsListOf(list, T)
  BY CopiesAreListed DEF Explore!EmittedBy
<1>3. \A p, n : Explore!ListContractEvents(of, filter, p, n) =
                  [total |-> Cardinality(T), items |-> Explore!PageOf(list, p, n)]
  BY <1>1, ExploreCounts DEF Explore!ListContractEvents
<1> HIDE DEF T, list
<1>4. ASSUME NEW size \in PageSizes
      PROVE  LET total == Explore!ListContractEvents(of, filter, 1, size).total
                 shown == [p \in Explore!Pages(total, size) |-> Explore!ListContractEvents(of, filter, p, size).items] IN
             /\ total = Cardinality(T)
             /\ UNION {Explore!ToSet(shown[p]) : p \in DOMAIN shown} = T
             /\ \A p, q \in DOMAIN shown : \A i \in DOMAIN shown[p], j \in DOMAIN shown[q] :
                  shown[p][i] = shown[q][j] => p = q /\ i = j
  <2> DEFINE total == Explore!ListContractEvents(of, filter, 1, size).total
             shown == [p \in Explore!Pages(total, size) |-> Explore!ListContractEvents(of, filter, p, size).items]
  <2>1. total = Cardinality(T)
    BY <1>3
  <2>2. shown = [p \in Explore!Pages(Cardinality(T), size) |-> Explore!PageOf(list, p, size)]
    BY <1>3, <2>1
  <2> HIDE DEF total, shown
  <2>3. size \in Nat \ {0}
    BY DEF Explore!ReadsAssumption
  <2>4. /\ UNION {Explore!ToSet(shown[p]) : p \in DOMAIN shown} = T
        /\ \A p, q \in DOMAIN shown : \A i \in DOMAIN shown[p], j \in DOMAIN shown[q] :
             shown[p][i] = shown[q][j] => p = q /\ i = j
    BY <1>2, <2>2, <2>3, ListCovers
  <2> QED BY <2>1, <2>4 DEF total, shown
<1>5. Explore!Cardinality(T) = Cardinality(T)
  BY ExploreCounts
<1> QED BY <1>4, <1>5 DEF Explore!Covers, T

\* The contracts that ListContracts keeps.
ListedUnder(filter) ==
  {k \in SeenContracts :
     CASE filter = "decoded"  -> Explore!ContractItem(k).status = "partial"
       [] filter = "raw_only" -> Explore!ContractItem(k).status = "raw_only"
       [] OTHER               -> TRUE}

\* An element that stands at one place in two lists is on the same pages of them.
LEMMA PagesAlike ==
  ASSUME NEW T, NEW n \in Nat, NEW list \in [1 .. n -> T], NEW other \in [1 .. n -> T],
         \A i, j \in 1 .. n : list[i] = list[j] => i = j,
         NEW m \in 1 .. n, NEW x, list[m] = x, other[m] = x,
         NEW size \in Nat \ {0}, NEW p \in Explore!Pages(n, size),
         x \in Explore!ToSet(Explore!PageOf(list, p, size))
  PROVE  x \in Explore!ToSet(Explore!PageOf(other, p, size))
<1> DEFINE page == Explore!PageOf(list, p, size)
           copy == Explore!PageOf(other, p, size)
           first == PlaceBefore(p, size)
           last == PlaceUpTo(p, size, n)
<1>1. PageHas(page, list, n, size, p) /\ PageHas(copy, other, n, size, p)
  BY PageHolds
<1>2. PICK i \in DOMAIN page : page[i] = x
  BY DEF Explore!ToSet
<1> HIDE DEF page, copy, first, last
<1>3. /\ first \in Nat /\ last \in Nat /\ last <= n
      /\ DOMAIN page = 1 .. last - first /\ DOMAIN copy = 1 .. last - first
      /\ \A j \in 1 .. last - first : page[j] = list[first + j] /\ copy[j] = other[first + j]
  BY <1>1 DEF PageHas, first, last
<1>4. i \in 1 .. last - first /\ list[first + i] = x /\ first + i \in 1 .. n
  BY <1>2, <1>3
<1>5. first + i = m
  BY <1>4
<1>6. i \in DOMAIN copy /\ copy[i] = x
  BY <1>3, <1>4, <1>5
<1> QED BY <1>6 DEF copy, Explore!ToSet

\* A page of the contracts, in whatever order.
LEMMA ContractPages ==
  ASSUME NEW filter, NEW p, NEW size
  PROVE  /\ Explore!ListContracts(filter, p, size).total = Cardinality(ListedUnder(filter))
         /\ \A shown : shown \in Explore!ListContracts(filter, p, size).items <=>
              \E sorted : /\ Ordered(sorted, ListedUnder(filter))
                          /\ shown = Explore!PageOf(ItemList(sorted), p, size)
<1>1. Explore!ListContracts(filter, p, size) =
        [total |-> Cardinality(ListedUnder(filter)),
         items |-> {Explore!PageOf(list, p, size) : list \in Explore!ContractLists(ListedUnder(filter))}]
  BY ExploreCounts DEF Explore!ListContracts, ListedUnder, SeenContracts
<1>2. \A list : list \in Explore!ContractLists(ListedUnder(filter)) <=>
        \E sorted : Ordered(sorted, ListedUnder(filter)) /\ list = ItemList(sorted)
  BY DEF Explore!ContractLists, Ordered, ItemList
<1> QED BY <1>1, <1>2

\* The pages of the contracts, with a filter, in whatever order each query has those that tie.
LEMMA ContractsAreShown ==
  ASSUME TableIsSound, NEW filter
  PROVE  Explore!ShowsContracts(filter, ListedUnder(filter))
<1> DEFINE S == ListedUnder(filter)
           T == {Explore!ContractItem(k) : k \in S}
           n == Cardinality(S)
<1>1. S \subseteq SeenContracts
  BY DEF ListedUnder
<1> HIDE DEF S
<1>2. n \in Nat /\ n = Cardinality(T) /\ Explore!Cardinality(S) = n
  <2>1. PICK sorted : Ordered(sorted, S)
    BY <1>1, ContractsHaveAnOrder
  <2> QED BY <1>1, <2>1, FewContracts, ItemsAreListed, ExploreCounts
<1> HIDE DEF n, T
<1>3. ASSUME NEW sorted, Ordered(sorted, S)
      PROVE  IsListOf(ItemList(sorted), T) /\ DOMAIN sorted = 1 .. n
  <2>1. IsListOf(ItemList(sorted), T)
    BY <1>1, <1>3, ItemsAreListed DEF T
  <2>2. IsListOf(sorted, S)
    BY <1>1, <1>3, ContractsAreListed
  <2> QED BY <2>1, <2>2 DEF IsListOf, n
<1>4. ASSUME NEW size \in PageSizes
      PROVE  LET total == Explore!ListContracts(filter, 1, size).total
                 pages == Explore!Pages(total, size) IN
             /\ total = n
             /\ \A p \in pages : \A list \in Explore!ListContracts(filter, p, size).items :
                  /\ Explore!ToSet(list) \subseteq T
                  /\ \A i, j \in DOMAIN list : list[i] = list[j] => i = j
             /\ \A k \in S : Untied(S, k) =>
                  \E p \in pages : \A q \in pages :
                    \A list \in Explore!ListContracts(filter, q, size).items :
                      Explore!ContractItem(k) \in Explore!ToSet(list) <=> q = p
  <2> DEFINE pages == Explore!Pages(n, size)
  <2>1. Explore!ListContracts(filter, 1, size).total = n
    BY ContractPages DEF S, n
  <2>2. size \in Nat \ {0}
    BY DEF TableIsSound, Explore!ReadsAssumption
  <2>3. \A p, list : list \in Explore!ListContracts(filter, p, size).items <=>
          \E sorted : Ordered(sorted, S) /\ list = Explore!PageOf(ItemList(sorted), p, size)
    BY ContractPages DEF S
  <2>4. ASSUME NEW sorted, Ordered(sorted, S) PROVE PagesShow(ItemList(sorted), n, size, T)
    <3>1. /\ ItemList(sorted) \in [1 .. n -> T]
          /\ \A x \in T : \E i \in 1 .. n : ItemList(sorted)[i] = x
          /\ \A i, j \in 1 .. n : ItemList(sorted)[i] = ItemList(sorted)[j] => i = j
      BY <1>2, <1>3, <2>4 DEF IsListOf
    <3> QED BY <1>2, <2>2, <3>1, PagesShowAll
  <2> HIDE DEF pages
  <2>5. ASSUME NEW p \in pages, NEW list \in Explore!ListContracts(filter, p, size).items
        PROVE  /\ Explore!ToSet(list) \subseteq T
               /\ \A i, j \in DOMAIN list : list[i] = list[j] => i = j
    <3>1. PICK sorted : Ordered(sorted, S) /\ list = Explore!PageOf(ItemList(sorted), p, size)
      BY <2>3, <2>5
    <3>2. PagesShow(ItemList(sorted), n, size, T)
      BY <2>4, <3>1
    <3> QED BY <2>5, <3>1, <3>2 DEF PagesShow, pages
  <2>6. ASSUME NEW k \in S, Untied(S, k)
        PROVE  \E p \in pages : \A q \in pages :
                 \A list \in Explore!ListContracts(filter, q, size).items :
                   Explore!ContractItem(k) \in Explore!ToSet(list) <=> q = p
    <3> DEFINE m == Cardinality(AheadOf(S, k)) + 1
               x == Explore!ContractItem(k)
    <3>1. ASSUME NEW sorted, Ordered(sorted, S)
          PROVE  m \in 1 .. n /\ ItemList(sorted)[m] = x
      <4>1. PICK i \in 1 .. Cardinality(S) : sorted[i] = k /\ i = m
        BY <1>1, <2>6, <3>1, ContractsAreListed
      <4> HIDE DEF m
      <4> QED BY <1>3, <3>1, <4>1 DEF ItemList, n
    <3>2. x \in T
      BY DEF T
    <3> HIDE DEF m, x
    <3>3. PICK one : Ordered(one, S)
      BY <1>1, ContractsHaveAnOrder
    <3>4. PagesShow(ItemList(one), n, size, T)
      BY <2>4, <3>3
    <3>5. PICK p \in pages : x \in Explore!ToSet(Explore!PageOf(ItemList(one), p, size))
      BY <3>2, <3>4 DEF PagesShow, pages
    <3>6. ASSUME NEW q \in pages, x \in Explore!ToSet(Explore!PageOf(ItemList(one), q, size))
          PROVE  q = p
      BY <3>4, <3>5, <3>6 DEF PagesShow, Explore!ToSet, pages
    <3>7. ASSUME NEW q \in pages, NEW sorted, Ordered(sorted, S)
          PROVE  x \in Explore!ToSet(Explore!PageOf(ItemList(sorted), q, size))
                   <=> x \in Explore!ToSet(Explore!PageOf(ItemList(one), q, size))
      <4>1. /\ ItemList(sorted) \in [1 .. n -> T] /\ ItemList(one) \in [1 .. n -> T]
            /\ \A i, j \in 1 .. n : ItemList(sorted)[i] = ItemList(sorted)[j] => i = j
            /\ \A i, j \in 1 .. n : ItemList(one)[i] = ItemList(one)[j] => i = j
        BY <1>2, <1>3, <3>3, <3>7 DEF IsListOf
      <4>2. m \in 1 .. n /\ ItemList(sorted)[m] = x /\ ItemList(one)[m] = x
        BY <3>1, <3>3, <3>7
      <4>3. q \in Explore!Pages(n, size)
        BY DEF pages
      <4>4. x \in Explore!ToSet(Explore!PageOf(ItemList(sorted), q, size))
              => x \in Explore!ToSet(Explore!PageOf(ItemList(one), q, size))
        BY <1>2, <2>2, <4>1, <4>2, <4>3, PagesAlike
      <4>5. x \in Explore!ToSet(Explore!PageOf(ItemList(one), q, size))
              => x \in Explore!ToSet(Explore!PageOf(ItemList(sorted), q, size))
        BY <1>2, <2>2, <4>1, <4>2, <4>3, PagesAlike
      <4> QED BY <4>4, <4>5
    <3>8. \A q \in pages : \A list \in Explore!ListContracts(filter, q, size).items :
            x \in Explore!ToSet(list) <=> q = p
      <4> SUFFICES ASSUME NEW q \in pages, NEW list \in Explore!ListContracts(filter, q, size).items
                   PROVE  x \in Explore!ToSet(list) <=> q = p
        OBVIOUS
      <4>1. PICK sorted : Ordered(sorted, S) /\ list = Explore!PageOf(ItemList(sorted), q, size)
        BY <2>3
      <4>2. x \in Explore!ToSet(list) <=> x \in Explore!ToSet(Explore!PageOf(ItemList(one), q, size))
        BY <3>7, <4>1
      <4> QED BY <3>5, <3>6, <4>2
    <3> QED BY <3>8 DEF x
  <2> QED BY <2>1, <2>5, <2>6 DEF pages
<1>5. Explore!Cardinality(S) = n
  BY <1>2
<1> QED BY <1>4, <1>5, Zenon DEF Explore!ShowsContracts, T, S, Untied

\* A page of one row for each copy shows the copy.
LEMMA CopyIsShown ==
  ASSUME TableIsSound, NEW of, NEW filter, NEW c \in table,
         Emitter[c.log] = of, Explore!Matches(filter, c)
  PROVE  \E p \in 1 .. Cardinality(table) :
           c \in Explore!ToSet(Explore!ListContractEvents(of, filter, p, 1).items)
<1> DEFINE T == {d \in table : Emitter[d.log] = of /\ Explore!Matches(filter, d)}
           list == Explore!Newest(T)
           n == Cardinality(T)
           shown == [p \in Explore!Pages(n, 1) |-> Explore!PageOf(list, p, 1)]
<1>1. IsListOf(list, T)
  BY CopiesAreListed
<1>2. c \in UNION {Explore!ToSet(shown[p]) : p \in DOMAIN shown}
  <2>1. c \in T /\ n = Cardinality(T)
    OBVIOUS
  <2>2. shown = [p \in Explore!Pages(Cardinality(T), 1) |-> Explore!PageOf(list, p, 1)]
    OBVIOUS
  <2> HIDE DEF T, list, n, shown
  <2>3. 1 \in Nat \ {0}
    OBVIOUS
  <2>4. UNION {Explore!ToSet(shown[p]) : p \in DOMAIN shown} = T
    BY <1>1, <2>2, <2>3, ListCovers
  <2> QED BY <2>1, <2>4
<1>3. PICK p \in Explore!Pages(n, 1) : c \in Explore!ToSet(Explore!PageOf(list, p, 1))
  <2> HIDE DEF T, list, n
  <2> QED BY <1>2
<1>4. n \in Nat /\ n <= Cardinality(table) /\ Cardinality(table) \in Nat
  <2>1. T \in SUBSET table
    OBVIOUS
  <2> QED BY <2>1, FS_Subset, FS_CardinalityType DEF TableIsSound
<1>5. Explore!ListContractEvents(of, filter, p, 1).items = Explore!PageOf(list, p, 1)
  BY DEF Explore!ListContractEvents
<1>6. p \in 1 .. Cardinality(table)
  <2> HIDE DEF n
  <2>1. n + 1 - 1 = n /\ n \div 1 = n
    BY <1>4
  <2> QED BY <1>4, <2>1 DEF Explore!Pages
<1> QED BY <1>3, <1>5, <1>6

\* The home page's lists are the first pages of the lists.
LEMMA HomeAgrees ==
  ASSUME TableIsSound, Explore!ReadsAssumption, NEW size \in PageSizes
  PROVE  LET home == Explore!GetHome(0, MaxStamp, size) IN
         /\ home.stats.totalEvents = Explore!ListEvents("", 1, size).total
         /\ home.stats.contractCount = Explore!ListContracts("", 1, size).total
         /\ home.recentEvents = Explore!ListEvents("", 1, size).items
         /\ home.activeContracts = Explore!ListContracts("", 1, size).items
         /\ \A e \in Logs : Explore!CopiesOf(e) # {} => LedgerOf[e] <= home.stats.lastIngested
<1> DEFINE home == Explore!GetHome(0, MaxStamp, size)
           ledgers == {0} \cup {LedgerOf[c.log] : c \in table}
<1>1. {c \in table : Explore!Matches("", c)} = table
  BY DEF Explore!Matches
<1>2. ListedUnder("") = SeenContracts
  BY DEF ListedUnder
<1>3. /\ home.stats.totalEvents = Explore!Cardinality(table)
      /\ home.stats.contractCount = Explore!Cardinality(SeenContracts)
      /\ home.stats.lastIngested = Explore!Max(ledgers)
      /\ home.recentEvents = Explore!PageOf(Explore!Newest(table), 1, size)
      /\ home.activeContracts = {Explore!PageOf(list, 1, size) : list \in Explore!ContractLists(SeenContracts)}
  BY DEF Explore!GetHome, Explore!GetStats, Explore!ListRecentEvents, Explore!ListActiveContracts, SeenContracts
<1>4. /\ Explore!ListEvents("", 1, size).total = Explore!Cardinality(table)
      /\ Explore!ListEvents("", 1, size).items = Explore!PageOf(Explore!Newest(table), 1, size)
  BY <1>1 DEF Explore!ListEvents
<1>5. /\ Explore!ListContracts("", 1, size).total = Explore!Cardinality(SeenContracts)
      /\ Explore!ListContracts("", 1, size).items =
           {Explore!PageOf(list, 1, size) : list \in Explore!ContractLists(SeenContracts)}
  BY <1>2 DEF Explore!ListContracts, ListedUnder, SeenContracts
<1>6. ASSUME NEW e \in Logs, Explore!CopiesOf(e) # {} PROVE LedgerOf[e] <= Explore!Max(ledgers)
  <2>1. IsFiniteSet(ledgers)
    <3> DEFINE f == [c \in table |-> LedgerOf[c.log]]
    <3>1. f \in Surjection(table, {LedgerOf[c.log] : c \in table})
      BY DEF Surjection
    <3>2. IsFiniteSet({LedgerOf[c.log] : c \in table})
      BY <3>1, FS_Surjection DEF TableIsSound
    <3> QED BY <3>2, FS_Singleton, FS_Union
  <2>2. ledgers \subseteq Nat
    <3>1. \A c \in table : c.log \in Logs
      BY DEF TableIsSound, CopiesAreStamped, Explore!Copy
    <3>2. \A l \in Logs : LedgerOf[l] \in Nat
      BY DEF Explore!ReadsAssumption
    <3> QED BY <3>1, <3>2
  <2>3. LedgerOf[e] \in ledgers
    BY <1>6 DEF Explore!CopiesOf
  <2>4. PICK m \in ledgers : \A k \in ledgers : k <= m
    <3>1. ledgers # {}
      OBVIOUS
    <3> HIDE DEF ledgers
    <3> QED BY <2>1, <2>2, <3>1, FiniteHasLargest
  <2>5. Explore!Max(ledgers) \in ledgers /\ \A k \in ledgers : Explore!Max(ledgers) >= k
    BY <2>2, <2>4 DEF Explore!Max
  <2> QED BY <2>2, <2>3, <2>5
<1> HIDE DEF home
<1> QED BY <1>3, <1>4, <1>5, <1>6 DEF home

\* Copies that stamps tell apart are no more than the events and the stamps.
LEMMA TableOfStamps == Explore!ReadsAssumption /\ CopiesAreStamped => TableIsSound
<1> SUFFICES ASSUME Explore!ReadsAssumption, CopiesAreStamped PROVE IsFiniteSet(table)
  BY DEF TableIsSound
<1> DEFINE f == [c \in table |-> <<c.log, c.at>>]
<1>1. f \in Injection(table, Logs \X (0 .. MaxStamp))
  BY DEF CopiesAreStamped, Explore!Copy, Injection, IsInjective
<1>2. IsFiniteSet(Logs \X (0 .. MaxStamp))
  <2>1. IsFiniteSet(0 .. MaxStamp) /\ IsFiniteSet(Logs)
    BY FS_Interval, SameFinite DEF Explore!ReadsAssumption
  <2> QED BY <2>1, FS_Product
<1> HIDE DEF f
<1> QED BY <1>1, <1>2, FS_Injection

\* The three filters of the contracts.
LEMMA KeptContracts ==
  LET Raw == {k \in SeenContracts : Explore!ContractStatus(k) = "raw_only"} IN
  ListedUnder("") = SeenContracts /\ ListedUnder("raw_only") = Raw /\ ListedUnder("decoded") = SeenContracts \ Raw
<1>1. ASSUME NEW k \in SeenContracts
      PROVE  /\ Explore!ContractStatus(k) = "raw_only" <=> ~\E c \in Explore!EmittedBy(k) : c.decoded
             /\ Explore!ContractItem(k).status =
                  IF \E c \in Explore!EmittedBy(k) : c.decoded THEN "partial" ELSE "raw_only"
  <2>1. Explore!EmittedBy(k) # {}
    BY DEF SeenContracts, Explore!EmittedBy
  <2>2. Explore!ContractItem(k).status =
          IF \E c \in Explore!EmittedBy(k) : c.decoded THEN "partial" ELSE "raw_only"
    BY DEF Explore!ContractItem
  <2>3. CASE \E c \in Explore!EmittedBy(k) : c.decoded
    BY <2>2, <2>3 DEF Explore!ContractStatus
  <2>4. CASE ~\E c \in Explore!EmittedBy(k) : c.decoded
    <3>1. ~\A c \in Explore!EmittedBy(k) : c.decoded
      BY <2>1, <2>4
    <3> QED BY <2>2, <2>4, <3>1 DEF Explore!ContractStatus
  <2> QED BY <2>3, <2>4
<1>2. \A k \in SeenContracts :
        /\ Explore!ContractItem(k).status = "raw_only" <=> Explore!ContractStatus(k) = "raw_only"
        /\ Explore!ContractItem(k).status = "partial" <=> Explore!ContractStatus(k) # "raw_only"
  BY <1>1
<1> QED BY <1>2 DEF ListedUnder

\* A contract's status and the copies that are shown of its events.
LEMMA StatusAgrees ==
  ASSUME TableIsSound, NEW k \in SeenContracts, NEW c \in table, Emitter[c.log] = k
  PROVE  /\ Explore!ContractStatus(k) = "decoded" => c.decoded
         /\ Explore!ContractStatus(k) = "raw_only" => ~c.decoded
         /\ \E p \in 1 .. Explore!Cardinality(table) :
              c \in Explore!ToSet(Explore!ListContractEvents(
                                    k, IF c.decoded THEN "decoded" ELSE "raw", p, 1).items)
<1>1. c \in Explore!EmittedBy(k)
  BY DEF Explore!EmittedBy
<1>2. Explore!Matches(IF c.decoded THEN "decoded" ELSE "raw", c)
  BY DEF Explore!Matches
<1>3. \E p \in 1 .. Cardinality(table) :
        c \in Explore!ToSet(Explore!ListContractEvents(
                              k, IF c.decoded THEN "decoded" ELSE "raw", p, 1).items)
  BY <1>2, CopyIsShown
<1>4. Explore!ContractStatus(k) = "decoded" => c.decoded
  BY <1>1 DEF Explore!ContractStatus
<1>5. Explore!ContractStatus(k) = "raw_only" => ~c.decoded
  BY <1>1 DEF Explore!ContractStatus
<1> QED BY <1>3, <1>4, <1>5, ExploreCounts

\* What the pages of the API agree on, in any table of copies that stamps tell apart.
LEMMA ExploreAgreesThen ==
  Explore!ReadsAssumption /\ CopiesAreStamped => Explore!ExploreAgrees
<1> SUFFICES ASSUME Explore!ReadsAssumption, CopiesAreStamped PROVE Explore!ExploreAgrees
  OBVIOUS
<1> DEFINE Raw == {k \in SeenContracts : Explore!ContractStatus(k) = "raw_only"}
<1>1. TableIsSound
  BY TableOfStamps
<1>2. ASSUME NEW k \in SeenContracts, NEW c \in UNION {Explore!GetEventByID(e) : e \in {l \in Logs : Emitter[l] = k}}
      PROVE  /\ Explore!ContractStatus(k) = "decoded" => c.decoded
             /\ Explore!ContractStatus(k) = "raw_only" => ~c.decoded
             /\ \E p \in 1 .. Explore!Cardinality(table) :
                  c \in Explore!ToSet(Explore!ListContractEvents(
                                        k, IF c.decoded THEN "decoded" ELSE "raw", p, 1).items)
  <2>1. c \in table /\ Emitter[c.log] = k
    BY <1>2 DEF Explore!GetEventByID, Explore!CopiesOf
  <2> QED BY <1>1, <2>1, StatusAgrees
<1>3. \A filter \in {"decoded", "raw", ""} :
        /\ Explore!Covers(LAMBDA p, n : Explore!ListEvents(filter, p, n),
                          {c \in table : Explore!Matches(filter, c)})
        /\ \A k \in SeenContracts : Explore!Covers(LAMBDA p, n : Explore!ListContractEvents(k, filter, p, n),
                                          {c \in Explore!EmittedBy(k) : Explore!Matches(filter, c)})
  BY <1>1, EventsAreCovered, ContractEventsAreCovered
<1>4. /\ Explore!ShowsContracts("", SeenContracts) /\ Explore!ShowsContracts("raw_only", Raw)
      /\ Explore!ShowsContracts("decoded", SeenContracts \ Raw)
  <2>1. ListedUnder("") = SeenContracts /\ ListedUnder("raw_only") = Raw /\ ListedUnder("decoded") = SeenContracts \ Raw
    BY KeptContracts
  <2> HIDE DEF Raw
  <2>2. /\ Explore!ShowsContracts("", ListedUnder(""))
        /\ Explore!ShowsContracts("raw_only", ListedUnder("raw_only"))
        /\ Explore!ShowsContracts("decoded", ListedUnder("decoded"))
    BY <1>1, ContractsAreShown
  <2> QED BY <2>1, <2>2
<1>5. \A size \in PageSizes :
         LET home == Explore!GetHome(0, MaxStamp, size) IN
         /\ home.stats.totalEvents = Explore!ListEvents("", 1, size).total
         /\ home.stats.contractCount = Explore!ListContracts("", 1, size).total
         /\ home.recentEvents = Explore!ListEvents("", 1, size).items
         /\ home.activeContracts = Explore!ListContracts("", 1, size).items
         /\ \A e \in Logs : Explore!CopiesOf(e) # {} => LedgerOf[e] <= home.stats.lastIngested
  BY <1>1, HomeAgrees
<1> QED BY <1>2, <1>3, <1>4, <1>5, Zenon DEF Explore!ExploreAgrees, SeenContracts

---------------------------------------------------------------------------
\* The parts side by side.

\* A step of Parts is one of each part, or leaves it alone.
LEMMA PartsStepApart ==
  [PartsNext]_<<part, partVars>> =>
    /\ [Next]_projectVars /\ [Auth!Next]_Auth!accountVars /\ [Api!Next]_Api!keyVars
    /\ [Reads!Next]_Reads!readVars /\ [Explore!Next]_Explore!tableVars
    /\ [Rpc!Next]_Rpc!poolVars /\ [Poll!Next]_Poll!pollVars
<1>1. UNCHANGED accounts => UNCHANGED Auth!accountVars
  BY DEF accounts, Auth!accountVars, Auth!userVars, Auth!links, Auth!request
<1>2. UNCHANGED apiKeys => UNCHANGED Api!keyVars
  BY DEF apiKeys, Api!keyVars
<1>3. UNCHANGED schemas => UNCHANGED Reads!readVars
  BY DEF schemas, Reads!readVars
<1>4. UNCHANGED events => UNCHANGED Explore!tableVars
  BY DEF events, Explore!tableVars
<1>5. UNCHANGED rpcPool => UNCHANGED Rpc!poolVars
  BY DEF rpcPool, Rpc!poolVars
<1>6. UNCHANGED pollLoop => UNCHANGED Poll!pollVars
  BY DEF pollLoop, Poll!pollVars
<1>7. UNCHANGED partVars =>
        UNCHANGED <<projectVars, accounts, apiKeys, schemas, events, rpcPool, pollLoop>>
  BY DEF partVars
<1>8. PartsNext =>
        /\ [Next]_projectVars /\ (Auth!Next \/ UNCHANGED accounts) /\ (Api!Next \/ UNCHANGED apiKeys)
        /\ (Reads!Next \/ UNCHANGED schemas) /\ (Explore!Next \/ UNCHANGED events)
        /\ (Rpc!Next \/ UNCHANGED rpcPool) /\ (Poll!Next \/ UNCHANGED pollLoop)
  BY DEF PartsNext
<1> QED BY <1>1, <1>2, <1>3, <1>4, <1>5, <1>6, <1>7, <1>8

\* What is proved of a part holds beside the others.
LEMMA PartsImplementEach ==
  PartsSpec => /\ Spec /\ Auth!Spec /\ Api!Spec /\ Reads!Spec
               /\ Explore!Spec /\ Rpc!Spec /\ Poll!Spec
<1>1. PartsInit => /\ Init /\ Auth!Init /\ Api!Init /\ Reads!Init
                   /\ Explore!Init /\ Rpc!Init /\ Poll!Init
  BY DEF PartsInit
<1> QED
  BY <1>1, PartsStepApart, PTL
  DEF PartsSpec, Spec, Auth!Spec, Api!Spec, Reads!Spec, Explore!Spec, Rpc!Spec, Poll!Spec

\* A user gets no more active publish tokens and API keys than the limits allow, for any limits
\* and any number of requests, but for those whose count another request made stale.
THEOREM LimitsAreHeld == PartsSpec => []LimitsHold
<1>1. TokensAreLimited /\ Api!KeysAreLimited => LimitsHold
  BY DEF LimitsHold
<1>2. Api!KeysAssumption
  BY PartsAssumption
<1> QED
  BY <1>1, <1>2, PartsImplementEach, TokensStayLimited, UserKeysStayLimited, PTL

\* Of the links of a kind mailed to an account at most one works, but for those sent at the same
\* time, and what a used link promised is done, under way or failed, for any number of tokens, of
\* requests and of faults; two requests at the same time may both use one.
THEOREM LinksStaySound == PartsSpec => []LinksAreSound
<1>1. Auth!LinksAreSound => LinksAreSound
  BY DEF LinksAreSound
<1>2. Auth!AccountsAssumption
  BY PartsAssumption
<1> QED
  BY <1>1, <1>2, PartsImplementEach, AccountLinksStaySound, PTL

\* No merge and no late replay takes a decoding away, for any events, batches, stamps and months:
\* only a newer copy does that is inserted, whose decode failed or whose event the schema versions
\* chosen at the time did not match.
THEOREM DecodingIsKept == PartsSpec => DecodingStays
<1>1. Explore!ReadsAssumption
  BY PartsAssumption
<1> QED
  BY <1>1, PartsImplementEach, CopiesKeepDecoding, PTL DEF DecodingStays

\* The last reload wins and the intervals of Run come within its bounds, for any integers as
\* settings and any number of signals.
THEOREM SettingsAreApplied == PartsSpec => SettingsApply
<1>1. Poll!SettingsAssumption
  BY PartsAssumption
<1> QED
  BY <1>1, PartsImplementEach, LoopAppliesSettings, PTL DEF SettingsApply

\* Whatever the parts do beside each other, each has only what it may have.
THEOREM PartsStayTyped == PartsSpec => []PartsTypesOK
<1>1. TypeOK /\ Auth!TypeOK /\ Api!TypeOK /\ Reads!TypeOK /\ Explore!TypeOK /\ Rpc!TypeOK
      /\ Poll!TypeOK => PartsTypesOK
  BY DEF PartsTypesOK
<1>2. /\ Auth!AccountsAssumption /\ Api!KeysAssumption /\ Reads!SchemasAssumption
      /\ Explore!ReadsAssumption /\ Rpc!EndpointsAssumption /\ Poll!SettingsAssumption
  BY PartsAssumption
<1> QED
  BY <1>1, <1>2, PartsImplementEach, ProjectsTypeCorrect, AccountsAreTyped, KeysAreTyped,
     RowsAreTyped, CopiesAreTyped, PoolsAreTyped, PollingIsTyped, PTL

\* The bundles are a partition of what is published, each of one publisher and within the window
\* of its first schema, none is split without need, profile, list and detail agree on them, and
\* the button promotes: for any schemas, publishers and window, in any interleaving.
THEOREM ReadsStaySound == PartsSpec => []ReadsAreSound
<1>1. Reads!SchemasAssumption
  BY PartsAssumption
<1>2. RowsAreOrdered => ReadsAreSound
  BY <1>1, BundlesAreSoundThen, ButtonIsSound DEF ReadsAreSound, Reads!ReadsAreSound
<1> QED BY <1>1, <1>2, RowsStayInOrder, PartsImplementEach, PTL

\* Decoding with a name and without one agree, and what a decoded event shows is in the event,
\* for any schemas, events and publications.
THEOREM DecodingStaysSound == PartsSpec => []DecodingIsSound
<1>1. Reads!SchemasAssumption
  BY PartsAssumption
<1>2. RowsAreOrdered => DecodingIsSound
  BY <1>1, DecodingIsSoundThen DEF DecodingIsSound
<1> QED BY <1>1, <1>2, RowsStayInOrder, PartsImplementEach, PTL

\* One RPC endpoint that answers is enough, for any endpoints, requests, attempts and cancelled
\* requests.
THEOREM HealthyStillServes == PartsSpec => []HealthyServes
<1>1. Rpc!HealthyServes => HealthyServes
  BY DEF HealthyServes
<1>2. Rpc!EndpointsAssumption
  BY PartsAssumption
<1> QED
  BY <1>1, <1>2, PartsImplementEach, HealthyEndpointServes, PTL

\* However many copies of an event there are, the pages of the explore API agree with each
\* other, but for the places of contracts that tie: for any events, contracts, batches, stamps
\* and page sizes, and whatever order each query has such contracts in.
THEOREM PagesAgree == PartsSpec => []ExploreAgrees
<1>1. Explore!ReadsAssumption
  BY PartsAssumption
<1>2. CopiesAreStamped => ExploreAgrees
  BY <1>1, ExploreAgreesThen DEF ExploreAgrees
<1> QED BY <1>1, <1>2, CopiesStayStamped, PartsImplementEach, PTL

=============================================================================
