------------------------ MODULE SchemaRegistryProofs ------------------------
(***************************************************************************)
(* What keeps the schemas of a contract in order, for any number of        *)
(* publishers, events, versions, publications, challenges and              *)
(* verifications.                                                          *)
(*                                                                         *)
(* One verified schema an event: a transaction that is about to make one   *)
(* verified has archived, out of sight, the only other one, and keeps      *)
(* everybody else from the event until it ends.  So the invariant says     *)
(* what a transaction that is under way has written, and what others       *)
(* cannot have done to the rows it has.                                    *)
(***************************************************************************)
EXTENDS SchemaRegistry, FiniteSetTheorems, TLAPS

\* The verified schema x of an event is being replaced by verification r.
Replaces(r, x) ==
  \/ \E y \in promoted[r] : y.event = x.event
  \/ vpc[r] = "promote" /\ target[r].event = x.event

\* What verification r has written, and has still to write.
Transaction(r) ==
  /\ vpc[r] = "check" => archived[r] \cup promoted[r] = {}
  /\ \A x \in archived[r] : status[x] = "verified"
  /\ \A x \in promoted[r] : status[x] = "community"
  /\ promoted[r] \subseteq targets[r]
  /\ \A x, y \in targets[r] : x.event = y.event => x = y
  /\ vpc[r] \in {"archiving", "promote"} => target[r] \in targets[r] \ promoted[r]
  /\ vpc[r] = "archiving" => \A x \in found[r] : x.event = target[r].event
  /\ vpc[r] = "commit" => targets[r] \subseteq promoted[r]
  /\ \A x \in archived[r] : Replaces(r, x)
  /\ \A x \in promoted[r] : VerifiedRows(x.event) \subseteq archived[r]

\* Two transactions do not promote schemas of the same event.
Apart ==
  \A r, s \in Verifications : r # s =>
    \A x \in promoted[r], y \in promoted[s] : x.event # y.event

UniqueVerified ==
  \A x, y \in Schemas :
    status[x] = "verified" /\ status[y] = "verified" /\ x.event = y.event => x = y

\* What a verification has consumed is no longer there for another.
Consumed == \A r \in Verifications : nonce[r] # None => challenge[nonce[r]] = "used"

\* The row that publication q is about to insert follows one there is.
Publication(q) ==
  /\ ppc[q] = "insert" =>
       /\ row[q] \in Schemas
       /\ row[q].publisher = Publisher[q] /\ row[q].event = Event[q]
       /\ row[q].version = 1 \/ row[q].version - 1 \in VersionsOf(Publisher[q], Event[q])
  /\ ppc[q] = "done" =>
       row[q] \in Schemas /\ status[row[q]] # "absent" /\ publishedBy[row[q]] = q

\* The versions of an event by one publisher have no gap.
NoGap(p, e) == \E n \in 0 .. MaxVersion : VersionsOf(p, e) = 1 .. n

Inv ==
  /\ TypeOK
  /\ \A r \in Verifications : Transaction(r)
  /\ Apart /\ UniqueVerified
  /\ Consumed /\ ChallengeServesOnce
  /\ \A q \in Publications : Publication(q)
  /\ \A p \in Publishers, e \in Events : NoGap(p, e)

---------------------------------------------------------------------------
\* Type correctness.

\* The sets of TypeOK, and what it says of the locks, which no two verifications share.
InTheirSets ==
  /\ status \in [Schemas -> {"absent", "community", "verified", "archived"}]
  /\ publishedBy \in [Schemas -> Publications \cup {None}]
  /\ ppc \in [Publications -> {"idle", "insert", "done", "failed"}]
  /\ row \in [Publications -> Schemas \cup {NoRow}]
  /\ challenge \in [Nonces -> {"none", "open", "used"}]
  /\ owner \in [Nonces -> Publishers \cup {None}]
  /\ vpc \in [Verifications -> Stages]
  /\ nonce \in [Verifications -> Nonces \cup {None}]
  /\ targets \in [Verifications -> SUBSET Schemas]
  /\ target \in [Verifications -> Schemas \cup {NoRow}]
  /\ found \in [Verifications -> SUBSET Schemas]
  /\ archived \in [Verifications -> SUBSET Schemas]
  /\ promoted \in [Verifications -> SUBSET Schemas]
  /\ failures \in 0 .. MaxFailures

Written(r) == archived[r] \cup promoted[r]

Disjoint == \A r, s \in Verifications : r # s => Written(r) \cap Written(s) = {}

NoneKept == \A r \in Verifications : vpc[r] \in Ended => Written(r) = {}

LEMMA TypesAndLocks == TypeOK <=> InTheirSets /\ Disjoint /\ NoneKept
<1>1. (\A r \in Verifications : Written(r) \cap Locked(Others(r)) = {}) <=> Disjoint
  BY DEF Disjoint, Written, Locked, Others
<1> QED
  BY <1>1 DEF TypeOK, InTheirSets, NoneKept, Written

\* What the rows and statements of a verification that is under way are.
LEMMA TargetTypes ==
  ASSUME TypeOK, NEW r \in Verifications, Transaction(r), vpc[r] \in {"archiving", "promote"}
  PROVE  target[r] \in Schemas
  BY DEF TypeOK, Transaction

LEMMA InitTypeOK == Init => TypeOK
<1> SUFFICES ASSUME Init PROVE TypeOK
  OBVIOUS
<1>1. status \in [Schemas -> {"absent", "community", "verified", "archived"}]
  BY DEF Init
<1>2. /\ targets \in [Verifications -> SUBSET Schemas]
      /\ found \in [Verifications -> SUBSET Schemas]
      /\ archived \in [Verifications -> SUBSET Schemas]
      /\ promoted \in [Verifications -> SUBSET Schemas]
  BY DEF Init
<1>3. vpc \in [Verifications -> Stages] /\ target \in [Verifications -> Schemas \cup {NoRow}]
  BY DEF Init, Stages, Ended
<1>4. failures \in 0 .. MaxFailures
  BY RegistryAssumption DEF Init
<1>5. InTheirSets
  BY <1>1, <1>2, <1>3, <1>4 DEF Init, InTheirSets
<1>6. Disjoint /\ NoneKept
  BY DEF Init, Disjoint, NoneKept, Written
<1> QED
  BY <1>5, <1>6, TypesAndLocks

\* A request that ends keeps nothing.
LEMMA EndTypes ==
  ASSUME InTheirSets, NEW r \in Verifications, NEW label \in {"done", "failed"}, End(r, label)
  PROVE  /\ vpc' \in [Verifications -> Stages] /\ vpc'[r] \in Ended
         /\ targets' \in [Verifications -> SUBSET Schemas]
         /\ target' \in [Verifications -> Schemas \cup {NoRow}]
         /\ found' \in [Verifications -> SUBSET Schemas]
         /\ archived' \in [Verifications -> SUBSET Schemas]
         /\ promoted' \in [Verifications -> SUBSET Schemas]
         /\ Written(r)' = {} /\ targets'[r] = {}
         /\ \A q \in Verifications : q # r =>
              /\ vpc'[q] = vpc[q] /\ targets'[q] = targets[q] /\ target'[q] = target[q]
              /\ found'[q] = found[q] /\ archived'[q] = archived[q]
              /\ promoted'[q] = promoted[q]
<1>1. vpc' \in [Verifications -> Stages] /\ vpc'[r] \in Ended
  BY DEF End, At, InTheirSets, Stages, Ended
<1>2. /\ targets' \in [Verifications -> SUBSET Schemas]
      /\ target' \in [Verifications -> Schemas \cup {NoRow}]
      /\ found' \in [Verifications -> SUBSET Schemas]
  BY DEF End, InTheirSets
<1>3. /\ archived' \in [Verifications -> SUBSET Schemas]
      /\ promoted' \in [Verifications -> SUBSET Schemas]
  BY DEF End, InTheirSets
<1>4. Written(r)' = {} /\ targets'[r] = {}
  BY DEF End, InTheirSets, Written
<1>5. \A q \in Verifications : q # r =>
              /\ vpc'[q] = vpc[q] /\ targets'[q] = targets[q] /\ target'[q] = target[q]
              /\ found'[q] = found[q] /\ archived'[q] = archived[q]
              /\ promoted'[q] = promoted[q]
  BY DEF End, At, InTheirSets
<1> QED
  BY <1>1, <1>2, <1>3, <1>4, <1>5

\* A version that is free is one of those there can be.
LEMMA VersionTypes ==
  ASSUME NEW q \in Publications, NEW v \in 1 .. MaxVersion
  PROVE  [publisher |-> Publisher[q], event |-> Event[q], version |-> v] \in Schemas
  BY RegistryAssumption DEF Schemas

\* The largest of a publisher's versions of an event, when they have no gap.
LEMMA NextVersionFollows ==
  ASSUME NEW p \in Publishers, NEW e \in Events, NEW n \in 0 .. MaxVersion,
         VersionsOf(p, e) = 1 .. n
  PROVE  NextVersion(p, e) = n + 1
<1> DEFINE V == VersionsOf(p, e) \cup {0}
<1>1. n \in V /\ \A v \in V : n >= v
  BY RegistryAssumption
<1>2. \A m \in V : (\A v \in V : m >= v) => m = n
  BY <1>1, RegistryAssumption
<1>3. Max(V) = n
  BY <1>1, <1>2 DEF Max
<1> QED
  BY <1>3 DEF NextVersion

LEMMA ReadVersionTypes ==
  ASSUME Inv, NEW q \in Publications, ReadVersion(q)
  PROVE  /\ row'[q] \in Schemas
         /\ row'[q].publisher = Publisher[q] /\ row'[q].event = Event[q]
         /\ row'[q].version = 1 \/ row'[q].version - 1 \in VersionsOf(Publisher[q], Event[q])
<1> DEFINE p == Publisher[q]  e == Event[q]
<1>1. p \in Publishers /\ e \in Events
  BY RegistryAssumption
<1>2. PICK n \in 0 .. MaxVersion : VersionsOf(p, e) = 1 .. n
  BY <1>1 DEF Inv, NoGap
<1>3. NextVersion(p, e) = n + 1
  BY <1>1, <1>2, NextVersionFollows
<1>4. n + 1 <= MaxVersion
  BY <1>3 DEF ReadVersion
<1>5. row'[q] = [publisher |-> p, event |-> e, version |-> n + 1]
  BY <1>3 DEF ReadVersion, Inv, TypeOK
<1>6. n + 1 \in 1 .. MaxVersion
  BY <1>4, RegistryAssumption
<1> QED
  BY <1>2, <1>5, <1>6, VersionTypes

LEMMA NextInTheirSets == Inv /\ [Next]_vars => InTheirSets'
<1> SUFFICES ASSUME Inv, [Next]_vars PROVE InTheirSets'
  OBVIOUS
<1> USE DEF publishing, challenges, transaction, verifying, At
<1>0. /\ TypeOK /\ InTheirSets /\ \A r \in Verifications : Transaction(r)
      /\ \A q \in Publications : Publication(q)
  BY TypesAndLocks DEF Inv
<1>1. ASSUME NEW q \in Publications, ReadVersion(q) PROVE InTheirSets'
  <2>1. row'[q] \in Schemas
    BY <1>1, ReadVersionTypes
  <2>2. row' \in [Publications -> Schemas \cup {NoRow}]
    BY <1>0, <1>1, <2>1 DEF ReadVersion, InTheirSets
  <2> QED
    BY <1>0, <1>1, <2>2 DEF ReadVersion, InTheirSets
<1>2. ASSUME NEW q \in Publications, Insert(q) PROVE InTheirSets'
  <2>1. ppc' \in [Publications -> {"idle", "insert", "done", "failed"}]
    BY <1>0, <1>2 DEF Insert, InTheirSets
  <2>2. /\ status' \in [Schemas -> {"absent", "community", "verified", "archived"}]
        /\ publishedBy' \in [Schemas -> Publications \cup {None}]
        /\ row' \in [Publications -> Schemas \cup {NoRow}]
    BY <1>0, <1>2 DEF Insert, InTheirSets
  <2> QED
    BY <1>0, <1>2, <2>1, <2>2 DEF Insert, InTheirSets
<1>3. ASSUME NEW s \in Schemas, MarkVerified(s) PROVE InTheirSets'
  BY <1>0, <1>3 DEF MarkVerified, InTheirSets
<1>4. ASSUME NEW n \in Nonces, NEW p \in Publishers, CreateChallenge(n, p) PROVE InTheirSets'
  BY <1>0, <1>4 DEF CreateChallenge, InTheirSets
<1>5. ASSUME NEW r \in Verifications, NEW n \in Nonces, Consume(r, n) PROVE InTheirSets'
  <2>1. vpc' \in [Verifications -> Stages]
    BY <1>0, <1>5 DEF Consume, InTheirSets, Stages
  <2> QED
    BY <1>0, <1>5, <2>1 DEF Consume, InTheirSets
<1>6. ASSUME NEW r \in Verifications, CheckFails(r) PROVE InTheirSets'
  BY <1>0, <1>6, EndTypes DEF CheckFails, InTheirSets
<1>7. ASSUME NEW r \in Verifications, ListTargets(r) PROVE InTheirSets'
  <2> DEFINE T == LatestCommunity(owner[nonce[r]])
  <2>1. CASE T = {}
    BY <1>0, <1>7, <2>1, EndTypes DEF ListTargets, InTheirSets
  <2>2. CASE T # {}
    <3>1. T \subseteq Schemas
      BY DEF LatestCommunity
    <3>2. vpc' \in [Verifications -> Stages]
      BY <1>0, <1>7, <2>2 DEF ListTargets, InTheirSets, Stages
    <3>3. targets' \in [Verifications -> SUBSET Schemas]
      BY <1>0, <1>7, <2>2, <3>1 DEF ListTargets, InTheirSets
    <3> QED
      BY <1>0, <1>7, <2>2, <3>2, <3>3 DEF ListTargets, InTheirSets
  <2> QED
    BY <2>1, <2>2
<1>8. ASSUME NEW r \in Verifications, StartArchive(r) PROVE InTheirSets'
  <2>1. vpc' \in [Verifications -> Stages]
    BY <1>0, <1>8 DEF StartArchive, InTheirSets, Stages
  <2>2. PICK s \in FirstOf(targets[r] \ promoted[r]) :
          /\ target' = [target EXCEPT ![r] = s]
          /\ found' = [found EXCEPT ![r] = VerifiedRows(s.event)]
    BY <1>8 DEF StartArchive
  <2>3. s \in Schemas /\ VerifiedRows(s.event) \subseteq Schemas
    BY <1>0, <2>2 DEF FirstOf, VerifiedRows, InTheirSets
  <2>4. target' \in [Verifications -> Schemas \cup {NoRow}]
    BY <1>0, <2>2, <2>3 DEF InTheirSets
  <2>5. found' \in [Verifications -> SUBSET Schemas]
    BY <1>0, <2>2, <2>3 DEF InTheirSets
  <2> QED
    BY <1>0, <1>8, <2>1, <2>4, <2>5 DEF StartArchive, InTheirSets
<1>9. ASSUME NEW r \in Verifications, Archive(r) PROVE InTheirSets'
  <2>1. vpc' \in [Verifications -> Stages]
    BY <1>0, <1>9 DEF Archive, InTheirSets, Stages
  <2>2. archived' \in [Verifications -> SUBSET Schemas]
    BY <1>0, <1>9 DEF Archive, InTheirSets
  <2>3. found' \in [Verifications -> SUBSET Schemas]
    BY <1>0, <1>9 DEF Archive, InTheirSets
  <2> QED
    BY <1>0, <1>9, <2>1, <2>2, <2>3 DEF Archive, InTheirSets
<1>10. ASSUME NEW r \in Verifications, Promote(r) PROVE InTheirSets'
  <2>1. CASE status[target[r]] # "community" \/ Clashes(r, target[r])
    BY <1>0, <1>10, <2>1, EndTypes DEF Promote, InTheirSets
  <2>2. CASE ~(status[target[r]] # "community" \/ Clashes(r, target[r]))
    <3>1. target[r] \in Schemas
      BY <1>0, <1>10, TargetTypes DEF Promote
    <3>2. promoted' \in [Verifications -> SUBSET Schemas]
      BY <1>0, <1>10, <2>2, <3>1 DEF Promote, InTheirSets
    <3>3. vpc' \in [Verifications -> Stages]
      BY <1>0, <1>10, <2>2 DEF Promote, InTheirSets, Stages
    <3>4. target' \in [Verifications -> Schemas \cup {NoRow}]
      BY <1>0, <1>10, <2>2 DEF Promote, InTheirSets
    <3> QED
      BY <1>0, <1>10, <2>2, <3>2, <3>3, <3>4 DEF Promote, InTheirSets
  <2> QED
    BY <2>1, <2>2
<1>11. ASSUME NEW r \in Verifications, Commit(r) PROVE InTheirSets'
  <2>1. status' \in [Schemas -> {"absent", "community", "verified", "archived"}]
    BY <1>0, <1>11 DEF Commit, InTheirSets
  <2> QED
    BY <1>0, <1>11, <2>1, EndTypes DEF Commit, InTheirSets
<1>12. ASSUME NEW r \in Verifications, Rollback(r) PROVE InTheirSets'
  <2>1. failures' \in 0 .. MaxFailures
    BY <1>0, <1>12, RegistryAssumption DEF Rollback, InTheirSets
  <2> QED
    BY <1>0, <1>12, <2>1, EndTypes DEF Rollback, InTheirSets
<1>13. CASE UNCHANGED vars
  BY <1>0, <1>13 DEF vars, InTheirSets
<1> QED
  BY <1>1, <1>2, <1>3, <1>4, <1>5, <1>6, <1>7, <1>8, <1>9, <1>10, <1>11, <1>12, <1>13
     DEF Next, VerifyContract

---------------------------------------------------------------------------
\* The transactions.

Orderly ==
  /\ Disjoint /\ NoneKept
  /\ \A r \in Verifications : Transaction(r)
  /\ Apart /\ UniqueVerified

\* What verification q has of its own is as it was.
Untouched(q) ==
  /\ vpc'[q] = vpc[q] /\ targets'[q] = targets[q] /\ target'[q] = target[q]
  /\ found'[q] = found[q] /\ archived'[q] = archived[q] /\ promoted'[q] = promoted[q]

\* A transaction is not disturbed by a step that leaves the rows it has written alone, and
\* makes no schema of its events verified.
LEMMA TransactionKept ==
  ASSUME NEW q \in Verifications, Transaction(q), Untouched(q),
         \A x \in Written(q) : status'[x] = status[x],
         \A x \in promoted[q] : VerifiedRows(x.event)' \subseteq VerifiedRows(x.event)
  PROVE  Transaction(q)'
<1>1. \A x : Replaces(q, x) => Replaces(q, x)'
  BY DEF Untouched, Replaces
<1>2. /\ \A x \in archived[q] : status'[x] = "verified"
      /\ \A x \in promoted[q] : status'[x] = "community"
  BY DEF Transaction, Written
<1>3. \A x \in promoted[q] : VerifiedRows(x.event)' \subseteq archived[q]
  BY DEF Transaction
<1> QED
  BY <1>1, <1>2, <1>3 DEF Untouched, Transaction

\* A step of the others that writes no schema.
LEMMA OrderlyKept ==
  ASSUME Orderly, \A q \in Verifications : Untouched(q), status' = status
  PROVE  Orderly'
<1>1. \A q \in Verifications : Transaction(q)'
  BY TransactionKept DEF Orderly, VerifiedRows
<1>2. Disjoint' /\ NoneKept' /\ Apart'
  BY DEF Orderly, Disjoint, NoneKept, Apart, Written, Untouched
<1> QED
  BY <1>1, <1>2 DEF Orderly, UniqueVerified

\* A request that ends lets go of the rows it kept.
LEMMA EndOrderly ==
  ASSUME InTheirSets, Orderly, NEW r \in Verifications, NEW label \in {"done", "failed"},
         End(r, label), status' = status
  PROVE  Orderly'
<1>1. /\ vpc'[r] \in Ended /\ Written(r)' = {} /\ targets'[r] = {}
      /\ \A q \in Verifications : q # r => Untouched(q)
  BY EndTypes DEF Untouched
<1>2. Transaction(r)'
  BY <1>1 DEF Transaction, Written, Ended
<1>3. \A q \in Verifications : q # r => Transaction(q)'
  BY <1>1, TransactionKept DEF Orderly, VerifiedRows
<1>4. Disjoint' /\ NoneKept' /\ Apart'
  <2>1. \A q \in Verifications : Written(q)' \subseteq Written(q) /\ promoted'[q] \subseteq promoted[q]
    BY <1>1 DEF Written, Untouched
  <2>2. Disjoint'
    BY <2>1 DEF Orderly, Disjoint
  <2>3. NoneKept'
    BY <1>1 DEF Orderly, NoneKept, Written, Untouched
  <2>4. Apart'
    BY <2>1 DEF Orderly, Apart
  <2> QED
    BY <2>2, <2>3, <2>4
<1> QED
  BY <1>2, <1>3, <1>4 DEF Orderly, UniqueVerified

LEMMA InsertOrderly ==
  ASSUME InTheirSets, Orderly, NEW q \in Publications, Publication(q), Insert(q)
  PROVE  Orderly'
<1> USE DEF verifying, transaction
<1>1. \A r \in Verifications : Untouched(r)
  BY DEF Insert, Untouched
<1>2. \A x \in Schemas : status[x] # "absent" => status'[x] = status[x]
  BY DEF Insert, InTheirSets
<1>3. \A x \in Schemas : status'[x] = "verified" => status[x] = "verified"
  BY DEF Insert, InTheirSets
<1>4. ASSUME NEW r \in Verifications PROVE Transaction(r)'
  <2>1. \A x \in Written(r) : x \in Schemas /\ status[x] # "absent"
    BY DEF Orderly, Transaction, Written, InTheirSets
  <2>2. \A e : VerifiedRows(e)' \subseteq VerifiedRows(e)
    BY <1>3 DEF VerifiedRows
  <2> QED
    BY <1>1, <1>2, <2>1, <2>2, TransactionKept DEF Orderly
<1>5. Disjoint' /\ NoneKept' /\ Apart'
  BY <1>1 DEF Orderly, Disjoint, NoneKept, Apart, Written, Untouched
<1>6. UniqueVerified'
  BY <1>3 DEF Orderly, UniqueVerified
<1> QED
  BY <1>4, <1>5, <1>6 DEF Orderly

LEMMA MarkVerifiedOrderly ==
  ASSUME InTheirSets, Orderly, NEW s \in Schemas, MarkVerified(s)
  PROVE  Orderly'
<1> USE DEF verifying, transaction
<1>1. \A r \in Verifications : Untouched(r)
  BY DEF MarkVerified, Untouched
<1>2. \A x \in Schemas : x # s => status'[x] = status[x]
  BY DEF MarkVerified, InTheirSets
<1>3. \A r \in Verifications : \A x \in Written(r) : x.event # s.event
  BY DEF MarkVerified, MustWait, Locked, Written
<1>4. ASSUME NEW r \in Verifications PROVE Transaction(r)'
  <2>1. \A x \in Written(r) : x \in Schemas /\ status'[x] = status[x]
    BY <1>2, <1>3 DEF Written, InTheirSets
  <2>2. \A x \in promoted[r] : VerifiedRows(x.event)' \subseteq VerifiedRows(x.event)
    BY <1>2, <1>3 DEF VerifiedRows, Written
  <2> QED
    BY <1>1, <2>1, <2>2, TransactionKept DEF Orderly
<1>5. Disjoint' /\ NoneKept' /\ Apart'
  BY <1>1 DEF Orderly, Disjoint, NoneKept, Apart, Written, Untouched
<1>6. UniqueVerified'
  <2>1. \A x \in Schemas : status[x] = "verified" => x.event # s.event
    BY DEF MarkVerified, VerifiedRows
  <2> QED
    BY <1>2, <2>1 DEF Orderly, UniqueVerified
<1> QED
  BY <1>4, <1>5, <1>6 DEF Orderly

LEMMA ConsumeOrderly ==
  ASSUME InTheirSets, Orderly, NEW r \in Verifications, NEW n \in Nonces, Consume(r, n)
  PROVE  Orderly'
<1> USE DEF transaction
<1>1. /\ vpc[r] = "idle" /\ vpc'[r] = "check"
      /\ \A q \in Verifications : q # r => vpc'[q] = vpc[q]
      /\ UNCHANGED <<status, targets, target, found, archived, promoted>>
  BY DEF Consume, At, InTheirSets
<1>2. \A q \in Verifications : q # r => Transaction(q)'
  BY <1>1, TransactionKept DEF Orderly, Untouched, VerifiedRows
<1>3. archived[r] \cup promoted[r] = {}
  BY <1>1 DEF Orderly, NoneKept, Written, Ended
<1>4. Transaction(r)'
  BY <1>1, <1>3 DEF Orderly, Transaction
<1>5. Disjoint' /\ NoneKept' /\ Apart' /\ UniqueVerified'
  BY <1>1 DEF Orderly, Disjoint, NoneKept, Apart, UniqueVerified, Written, Ended
<1> QED
  BY <1>2, <1>4, <1>5 DEF Orderly

\* The latest schemas of a publisher are of different events.
LEMMA ListTargetsOrderly ==
  ASSUME InTheirSets, Orderly, NEW r \in Verifications, ListTargets(r)
  PROVE  Orderly'
<1> DEFINE T == LatestCommunity(owner[nonce[r]])
<1>1. CASE T = {}
  BY <1>1, EndOrderly DEF ListTargets
<1>2. CASE T # {}
  <2>1. /\ vpc[r] = "check" /\ vpc'[r] = "archive" /\ targets'[r] = T
        /\ \A q \in Verifications : q # r => Untouched(q)
        /\ UNCHANGED <<status, target, found, archived, promoted>>
    BY <1>2 DEF ListTargets, At, InTheirSets, Untouched
  <2>2. archived[r] \cup promoted[r] = {}
    BY <2>1 DEF Orderly, Transaction
  <2>3. ASSUME NEW x \in T, NEW y \in T, x.event = y.event PROVE x = y
    <3>1. x \in Schemas /\ y \in Schemas /\ x.publisher = y.publisher
      BY DEF LatestCommunity
    <3>2. x.version <= y.version /\ y.version <= x.version
      BY <2>3 DEF LatestCommunity
    <3>3. x.version \in Int /\ y.version \in Int
      BY <3>1, RegistryAssumption DEF Schemas
    <3>4. x.version = y.version
      BY <3>2, <3>3
    <3> QED
      BY <2>3, <3>1, <3>4 DEF Schemas
  <2>4. Transaction(r)'
    BY <2>1, <2>2, <2>3 DEF Transaction
  <2>5. \A q \in Verifications : q # r => Transaction(q)'
    BY <2>1, TransactionKept DEF Orderly, VerifiedRows
  <2>6. Disjoint' /\ NoneKept' /\ Apart' /\ UniqueVerified'
    BY <2>1 DEF Orderly, Disjoint, NoneKept, Apart, UniqueVerified, Written, Ended, Untouched
  <2> QED
    BY <2>4, <2>5, <2>6 DEF Orderly
<1> QED
  BY <1>1, <1>2

LEMMA StartArchiveOrderly ==
  ASSUME InTheirSets, Orderly, NEW r \in Verifications, StartArchive(r)
  PROVE  Orderly'
<1>1. /\ vpc[r] = "archive" /\ vpc'[r] = "archiving"
      /\ \A q \in Verifications : q # r => Untouched(q)
      /\ UNCHANGED <<status, targets, archived, promoted>>
  BY DEF StartArchive, At, InTheirSets, Untouched
<1>2. PICK s \in targets[r] \ promoted[r] :
        target'[r] = s /\ found'[r] = VerifiedRows(s.event)
  BY DEF StartArchive, FirstOf, InTheirSets
<1>3. \A x \in archived[r] : Replaces(r, x)'
  BY <1>1 DEF Orderly, Transaction, Replaces
<1>4. Transaction(r)'
  BY <1>1, <1>2, <1>3 DEF Orderly, Transaction, VerifiedRows
<1>5. \A q \in Verifications : q # r => Transaction(q)'
  BY <1>1, TransactionKept DEF Orderly, VerifiedRows
<1>6. Disjoint' /\ NoneKept' /\ Apart' /\ UniqueVerified'
  BY <1>1 DEF Orderly, Disjoint, NoneKept, Apart, UniqueVerified, Written, Ended, Untouched
<1> QED
  BY <1>4, <1>5, <1>6 DEF Orderly

\* The rows that are archived are not those of another transaction, and of the event that is
\* promoted next.
LEMMA ArchiveOrderly ==
  ASSUME InTheirSets, Orderly, NEW r \in Verifications, Archive(r)
  PROVE  Orderly'
<1> DEFINE A == {s \in found[r] : status[s] = "verified"}
<1>1. /\ vpc[r] = "archiving" /\ vpc'[r] = "promote" /\ archived'[r] = archived[r] \cup A
      /\ \A q \in Verifications : q # r => Untouched(q)
      /\ UNCHANGED <<status, targets, target, promoted>>
  BY DEF Archive, At, InTheirSets, Untouched
<1>2. \A x \in A : x.event = target[r].event /\ status[x] = "verified"
  BY <1>1 DEF Orderly, Transaction
<1>3. \A x \in archived'[r] : Replaces(r, x)'
  <2>1. \A x \in archived[r] : \E y \in promoted[r] : y.event = x.event
    BY <1>1 DEF Orderly, Transaction, Replaces
  <2> QED
    BY <1>1, <1>2, <2>1 DEF Replaces
<1>4. \A x \in promoted[r] : VerifiedRows(x.event)' \subseteq archived'[r]
  BY <1>1 DEF Orderly, Transaction, VerifiedRows
<1>5. Transaction(r)'
  BY <1>1, <1>2, <1>3, <1>4 DEF Orderly, Transaction
<1>6. \A q \in Verifications : q # r => Transaction(q)'
  BY <1>1, TransactionKept DEF Orderly, VerifiedRows
<1>7. Disjoint'
  <2>1. \A q \in Verifications : q # r => A \cap Written(q) = {}
    BY DEF Archive, Locked, Others, Written
  <2>2. Written(r)' \subseteq Written(r) \cup A
    BY <1>1 DEF Written
  <2>3. \A q \in Verifications : q # r => Written(q)' = Written(q)
    BY <1>1 DEF Written, Untouched
  <2> QED
    BY <2>1, <2>2, <2>3 DEF Orderly, Disjoint
<1>8. NoneKept' /\ Apart' /\ UniqueVerified'
  BY <1>1 DEF Orderly, NoneKept, Apart, UniqueVerified, Written, Ended, Untouched
<1> QED
  BY <1>5, <1>6, <1>7, <1>8 DEF Orderly

\* A schema is promoted when no other transaction has written a row of its event, and this one
\* has archived the verified one.
LEMMA PromoteOrderly ==
  ASSUME InTheirSets, Orderly, NEW r \in Verifications, Promote(r)
  PROVE  Orderly'
<1> DEFINE s == target[r]
<1>1. CASE status[s] # "community" \/ Clashes(r, s)
  BY <1>1, EndOrderly DEF Promote
<1>2. CASE status[s] = "community" /\ ~Clashes(r, s)
  <2>1. /\ vpc[r] = "promote" /\ vpc'[r] = (IF Left(r) = {} THEN "commit" ELSE "archive")
        /\ promoted'[r] = promoted[r] \cup {s}
        /\ \A q \in Verifications : q # r => Untouched(q)
        /\ UNCHANGED <<status, targets, found, archived>>
    BY <1>2 DEF Promote, At, InTheirSets, Untouched
  <2>2. s \in targets[r] \ promoted[r] /\ s \in Schemas
    BY <2>1 DEF Orderly, Transaction, InTheirSets
  <2>3. \A q \in Verifications : q # r => \A x \in Written(q) : x.event # s.event
    BY DEF Promote, MustWait, Locked, Others, Written
  <2>4. VerifiedRows(s.event) \subseteq archived[r]
    BY <1>2 DEF Clashes, VerifiedRows
  <2>5. \A x \in archived[r] : Replaces(r, x)'
    BY <2>1 DEF Orderly, Transaction, Replaces
  <2>6. vpc'[r] = "commit" => targets[r] \subseteq promoted'[r]
    BY <2>1 DEF Left
  <2>7. Transaction(r)'
    <3>1. \A x \in promoted'[r] : VerifiedRows(x.event)' \subseteq archived'[r]
      BY <2>1, <2>4 DEF Orderly, Transaction, VerifiedRows
    <3>2. /\ promoted'[r] \subseteq targets'[r]
          /\ \A x \in promoted'[r] : status'[x] = "community"
      BY <1>2, <2>1, <2>2 DEF Orderly, Transaction
    <3> QED
      BY <2>1, <2>5, <2>6, <3>1, <3>2 DEF Orderly, Transaction
  <2>8. \A q \in Verifications : q # r => Transaction(q)'
    BY <2>1, TransactionKept DEF Orderly, VerifiedRows
  <2>9. Disjoint'
    <3>1. Written(r)' = Written(r) \cup {s}
      BY <2>1 DEF Written
    <3>2. \A q \in Verifications : q # r => Written(q)' = Written(q) /\ s \notin Written(q)
      BY <2>1, <2>3 DEF Written, Untouched
    <3> QED
      BY <3>1, <3>2 DEF Orderly, Disjoint
  <2>10. Apart'
    <3>1. \A q \in Verifications : q # r => promoted'[q] = promoted[q]
      BY <2>1 DEF Untouched
    <3>2. \A q \in Verifications : q # r => \A x \in promoted[q] : x.event # s.event
      BY <2>3 DEF Written
    <3> QED
      BY <2>1, <3>1, <3>2 DEF Orderly, Apart
  <2>11. NoneKept' /\ UniqueVerified'
    BY <2>1 DEF Orderly, NoneKept, UniqueVerified, Written, Ended, Untouched
  <2> QED
    BY <2>7, <2>8, <2>9, <2>10, <2>11 DEF Orderly
<1> QED
  BY <1>1, <1>2

\* What a commit makes visible is one verified schema for each event it archived one of.
LEMMA CommitEffect ==
  ASSUME InTheirSets, Orderly, NEW r \in Verifications, Commit(r)
  PROVE  /\ \A x \in archived[r] : status'[x] = "archived" /\ status[x] = "verified"
         /\ \A x \in promoted[r] : status'[x] = "verified" /\ status[x] = "community"
         /\ \A x \in Schemas : x \notin Written(r) => status'[x] = status[x]
         /\ Written(r) \subseteq Schemas
<1>1. /\ \A x \in archived[r] : status[x] = "verified"
      /\ \A x \in promoted[r] : status[x] = "community"
  BY DEF Orderly, Transaction
<1>2. archived[r] \subseteq Schemas /\ promoted[r] \subseteq Schemas
  BY DEF InTheirSets
<1>3. \A x \in promoted[r] : x \notin archived[r]
  BY <1>1
<1> QED
  BY <1>1, <1>2, <1>3 DEF Commit, Written

LEMMA CommitOrderly ==
  ASSUME InTheirSets, Orderly, NEW r \in Verifications, Commit(r)
  PROVE  Orderly'
<1>1. /\ vpc'[r] \in Ended /\ Written(r)' = {} /\ targets'[r] = {}
      /\ \A q \in Verifications : q # r => Untouched(q)
  BY EndTypes DEF Commit, Untouched
<1>2. Transaction(r)'
  BY <1>1 DEF Transaction, Written, Ended
<1>3. ASSUME NEW q \in Verifications, q # r PROVE Transaction(q)'
  <2>1. \A x \in Written(q) : x \in Schemas /\ status'[x] = status[x]
    BY <1>3, CommitEffect DEF Orderly, Disjoint, Written, InTheirSets
  <2>2. \A x \in promoted[q], y \in promoted[r] : x.event # y.event
    BY <1>3 DEF Orderly, Apart
  <2>3. \A x \in promoted[q] : VerifiedRows(x.event)' \subseteq VerifiedRows(x.event)
    BY <2>2, CommitEffect DEF VerifiedRows, Written
  <2> QED
    BY <1>1, <1>3, <2>1, <2>3, TransactionKept DEF Orderly
<1>4. Disjoint' /\ NoneKept' /\ Apart'
  <2>1. \A q \in Verifications : Written(q)' \subseteq Written(q) /\ promoted'[q] \subseteq promoted[q]
    BY <1>1 DEF Written, Untouched
  <2>2. Disjoint'
    BY <2>1 DEF Orderly, Disjoint
  <2>3. NoneKept'
    BY <1>1 DEF Orderly, NoneKept, Written, Untouched
  <2>4. Apart'
    BY <2>1 DEF Orderly, Apart
  <2> QED
    BY <2>2, <2>3, <2>4
<1>5. UniqueVerified'
  <2> SUFFICES ASSUME NEW x \in Schemas, NEW y \in Schemas, x.event = y.event,
                      status'[x] = "verified", status'[y] = "verified"
               PROVE  x = y
    BY DEF UniqueVerified
  <2>1. \A z \in Schemas : status'[z] = "verified" =>
          z \in promoted[r] \/ (status[z] = "verified" /\ z \notin archived[r])
    BY CommitEffect DEF Written
  <2>2. CASE x \in promoted[r] /\ y \in promoted[r]
    BY <2>2 DEF Orderly, Transaction
  <2>3. ASSUME NEW a \in promoted[r], NEW b \in Schemas, status[b] = "verified",
               a.event = b.event
        PROVE  b \in archived[r]
    BY <2>3 DEF Orderly, Transaction, VerifiedRows
  <2>4. CASE status[x] = "verified" /\ status[y] = "verified"
    BY <2>4 DEF Orderly, UniqueVerified
  <2> QED
    BY <2>1, <2>2, <2>3, <2>4
<1> QED
  BY <1>2, <1>3, <1>4, <1>5 DEF Orderly

LEMMA NextOrderly == Inv /\ [Next]_vars => Orderly'
<1> SUFFICES ASSUME Inv, [Next]_vars PROVE Orderly'
  OBVIOUS
<1>1. Orderly /\ InTheirSets /\ \A q \in Publications : Publication(q)
  BY TypesAndLocks DEF Inv, Orderly
<1>2. ASSUME NEW q \in Publications, ReadVersion(q) PROVE Orderly'
  BY <1>1, <1>2, OrderlyKept DEF ReadVersion, Untouched, verifying, transaction
<1>3. ASSUME NEW q \in Publications, Insert(q) PROVE Orderly'
  BY <1>1, <1>3, InsertOrderly
<1>4. ASSUME NEW s \in Schemas, MarkVerified(s) PROVE Orderly'
  BY <1>1, <1>4, MarkVerifiedOrderly
<1>5. ASSUME NEW n \in Nonces, NEW p \in Publishers, CreateChallenge(n, p) PROVE Orderly'
  BY <1>1, <1>5, OrderlyKept DEF CreateChallenge, Untouched, verifying, transaction
<1>6. ASSUME NEW r \in Verifications, NEW n \in Nonces, Consume(r, n) PROVE Orderly'
  BY <1>1, <1>6, ConsumeOrderly
<1>7. ASSUME NEW r \in Verifications, CheckFails(r) \/ Rollback(r) PROVE Orderly'
  BY <1>1, <1>7, EndOrderly DEF CheckFails, Rollback
<1>8. ASSUME NEW r \in Verifications,
             \/ ListTargets(r) \/ StartArchive(r) \/ Archive(r) \/ Promote(r) \/ Commit(r)
      PROVE  Orderly'
  BY <1>1, <1>8, ListTargetsOrderly, StartArchiveOrderly, ArchiveOrderly, PromoteOrderly,
     CommitOrderly
<1>9. CASE UNCHANGED vars
  BY <1>1, <1>9, OrderlyKept DEF vars, Untouched, verifying, transaction
<1> QED
  BY <1>2, <1>3, <1>4, <1>5, <1>6, <1>7, <1>8, <1>9 DEF Next, VerifyContract

---------------------------------------------------------------------------
\* The challenges.

LEMMA NextConsumed ==
  Inv /\ [Next]_vars => Consumed' /\ ChallengeServesOnce'
<1> SUFFICES ASSUME Inv, [Next]_vars PROVE Consumed' /\ ChallengeServesOnce'
  OBVIOUS
<1> USE DEF publishing, verifying, challenges
<1>1. TypeOK /\ Consumed /\ ChallengeServesOnce /\ None \notin Nonces
  BY RegistryAssumption DEF Inv
<1>2. CASE UNCHANGED <<challenge, nonce>>
  BY <1>1, <1>2 DEF Consumed, ChallengeServesOnce
<1>3. ASSUME NEW n \in Nonces, NEW p \in Publishers, CreateChallenge(n, p)
      PROVE  Consumed' /\ ChallengeServesOnce'
  BY <1>1, <1>3 DEF CreateChallenge, Consumed, ChallengeServesOnce, TypeOK
<1>4. ASSUME NEW r \in Verifications, NEW n \in Nonces, Consume(r, n)
      PROVE  Consumed' /\ ChallengeServesOnce'
  <2>1. /\ nonce'[r] = n /\ challenge'[n] = "used" /\ challenge[n] = "open"
        /\ \A q \in Verifications : q # r => nonce'[q] = nonce[q]
        /\ \A m \in Nonces : m # n => challenge'[m] = challenge[m]
    BY <1>1, <1>4 DEF Consume, TypeOK
  <2>2. \A q \in Verifications : nonce[q] # n
    BY <1>1, <2>1 DEF Consumed
  <2>3. \A q \in Verifications : nonce[q] \in Nonces \cup {None}
    BY <1>1 DEF TypeOK
  <2>4. Consumed'
    BY <1>1, <2>1, <2>3 DEF Consumed
  <2> QED
    BY <1>1, <2>1, <2>2, <2>4 DEF ChallengeServesOnce
<1>5. ASSUME NEW q \in Publications, ReadVersion(q) \/ Insert(q)
      PROVE  UNCHANGED <<challenge, nonce>>
  BY <1>5 DEF ReadVersion, Insert
<1>6. ASSUME NEW s \in Schemas, MarkVerified(s) PROVE UNCHANGED <<challenge, nonce>>
  BY <1>6 DEF MarkVerified
<1>7. ASSUME NEW r \in Verifications, VerifyContract(r) \/ Rollback(r)
      PROVE  UNCHANGED <<challenge, nonce>>
  BY <1>7 DEF VerifyContract, CheckFails, ListTargets, StartArchive, Archive, Promote, Commit,
              Rollback
<1>8. CASE UNCHANGED vars
  BY <1>2, <1>8 DEF vars
<1> QED
  BY <1>2, <1>3, <1>4, <1>5, <1>6, <1>7, <1>8 DEF Next

---------------------------------------------------------------------------
\* The publications.

Published ==
  /\ \A q \in Publications : Publication(q)
  /\ \A p \in Publishers, e \in Events : NoGap(p, e)

\* The versions of an event are those whose row is there.
LEMMA VersionsAreRows ==
  ASSUME NEW p \in Publishers, NEW e \in Events, NEW v \in 1 .. MaxVersion
  PROVE  [publisher |-> p, event |-> e, version |-> v] \in Schemas
  BY DEF Schemas

\* A step that inserts no row.
LEMMA PublishedKept ==
  ASSUME TypeOK, Published, UNCHANGED <<publishedBy, ppc, row>>,
         \A x \in Schemas : status'[x] = "absent" <=> status[x] = "absent"
  PROVE  Published'
<1>1. \A p \in Publishers, e \in Events : VersionsOf(p, e)' = VersionsOf(p, e)
  BY VersionsAreRows DEF VersionsOf
<1>2. \A p \in Publishers, e \in Events : NoGap(p, e)'
  BY <1>1 DEF Published, NoGap
<1>3. ASSUME NEW q \in Publications PROVE Publication(q)'
  <2>1. Publisher[q] \in Publishers /\ Event[q] \in Events
    BY RegistryAssumption
  <2> QED
    BY <1>1, <2>1 DEF Published, Publication
<1> QED
  BY <1>2, <1>3 DEF Published

LEMMA ReadVersionPublished ==
  ASSUME Inv, NEW q \in Publications, ReadVersion(q)
  PROVE  Published'
<1>1. Published /\ TypeOK
  BY DEF Inv, Published
<1>2. /\ ppc'[q] = "insert"
      /\ \A o \in Publications : o # q => ppc'[o] = ppc[o] /\ row'[o] = row[o]
      /\ UNCHANGED <<status, publishedBy>>
  BY <1>1 DEF ReadVersion, TypeOK
<1>3. \A p, e : VersionsOf(p, e)' = VersionsOf(p, e)
  BY <1>2 DEF VersionsOf
<1>4. Publication(q)'
  BY <1>2, <1>3, ReadVersionTypes DEF Publication
<1>5. \A o \in Publications : o # q => Publication(o)'
  BY <1>1, <1>2, <1>3 DEF Published, Publication
<1> QED
  BY <1>1, <1>3, <1>4, <1>5 DEF Published, NoGap

\* The row that is inserted is the next version, also when others were inserted since it was
\* looked up.
LEMMA InsertPublished ==
  ASSUME Inv, NEW q \in Publications, Insert(q)
  PROVE  Published'
<1> DEFINE p == Publisher[q]  e == Event[q]
<1>1. Published /\ TypeOK /\ p \in Publishers /\ e \in Events
  BY RegistryAssumption DEF Inv, Published
<1>2. /\ ppc[q] = "insert" /\ row[q] \in Schemas
      /\ row[q].publisher = p /\ row[q].event = e
      /\ row[q].version = 1 \/ row[q].version - 1 \in VersionsOf(p, e)
  BY <1>1 DEF Insert, Published, Publication
<1>3. CASE status[row[q]] # "absent"
  <2>1. /\ ppc'[q] = "failed" /\ UNCHANGED <<status, publishedBy>>
        /\ \A o \in Publications : o # q => ppc'[o] = ppc[o] /\ row'[o] = row[o]
    BY <1>1, <1>3 DEF Insert, TypeOK
  <2>2. \A d, f : VersionsOf(d, f)' = VersionsOf(d, f)
    BY <2>1 DEF VersionsOf
  <2>3. \A o \in Publications : Publication(o)'
    BY <1>1, <2>1, <2>2 DEF Published, Publication
  <2> QED
    BY <1>1, <2>2, <2>3 DEF Published, NoGap
<1>4. CASE status[row[q]] = "absent"
  <2>1. /\ ppc'[q] = "done" /\ row' = row
        /\ status' = [status EXCEPT ![row[q]] = "community"]
        /\ publishedBy' = [publishedBy EXCEPT ![row[q]] = q]
        /\ \A o \in Publications : o # q => ppc'[o] = ppc[o]
    BY <1>1, <1>4 DEF Insert, TypeOK
  <2>2. /\ status'[row[q]] # "absent" /\ publishedBy'[row[q]] = q
        /\ \A x \in Schemas : x # row[q] =>
             status'[x] = status[x] /\ publishedBy'[x] = publishedBy[x]
    BY <1>1, <1>2, <2>1 DEF TypeOK
  <2>3. \A d \in Publishers, f \in Events :
          VersionsOf(d, f) \subseteq VersionsOf(d, f)'
    BY <2>2, VersionsAreRows DEF VersionsOf
  <2>4. ASSUME NEW o \in Publications PROVE Publication(o)'
    <3>1. Publisher[o] \in Publishers /\ Event[o] \in Events
      BY RegistryAssumption
    <3>2. CASE o = q
      BY <1>2, <2>1, <2>2, <3>2 DEF Publication
    <3>3. CASE o # q
      <4>1. VersionsOf(Publisher[o], Event[o]) \subseteq VersionsOf(Publisher[o], Event[o])'
        BY <2>3, <3>1
      <4>2. ppc[o] = "done" => row[o] # row[q]
        BY <1>1, <1>4 DEF Published, Publication
      <4> QED
        BY <1>1, <2>1, <2>2, <3>3, <4>1, <4>2 DEF Published, Publication
    <3> QED
      BY <3>2, <3>3
  <2>5. ASSUME NEW d \in Publishers, NEW f \in Events PROVE NoGap(d, f)'
    <3>1. CASE d = p /\ f = e
      <4>1. PICK n \in 0 .. MaxVersion : VersionsOf(p, e) = 1 .. n
        BY <1>1 DEF Published, NoGap
      <4>2. DEFINE v == row[q].version
      <4>3. v \in 1 .. MaxVersion /\ row[q] = [publisher |-> p, event |-> e, version |-> v]
        BY <1>2 DEF Schemas
      <4>4. v \notin 1 .. n
        BY <1>4, <4>1, <4>3 DEF VersionsOf
      <4>5. v = n + 1
        BY <1>2, <4>1, <4>3, <4>4, RegistryAssumption
      <4>6. VersionsOf(p, e)' = VersionsOf(p, e) \cup {v}
        <5>1. \A w \in 1 .. MaxVersion :
                w # v => [publisher |-> p, event |-> e, version |-> w] # row[q]
          BY <4>3
        <5> QED
          BY <1>1, <2>2, <4>3, <5>1, VersionsAreRows DEF VersionsOf
      <4>7. VersionsOf(p, e)' = 1 .. n + 1 /\ n + 1 \in 0 .. MaxVersion
        BY <4>1, <4>3, <4>5, <4>6, RegistryAssumption
      <4> QED
        BY <3>1, <4>7 DEF NoGap
    <3>2. CASE ~(d = p /\ f = e)
      <4>1. \A v \in 1 .. MaxVersion : [publisher |-> d, event |-> f, version |-> v] # row[q]
        BY <1>2, <3>2
      <4>2. VersionsOf(d, f)' = VersionsOf(d, f)
        BY <2>2, <4>1, VersionsAreRows DEF VersionsOf
      <4> QED
        BY <1>1, <4>2 DEF Published, NoGap
    <3> QED
      BY <3>1, <3>2
  <2> QED
    BY <2>4, <2>5 DEF Published
<1> QED
  BY <1>3, <1>4

LEMMA NextPublished == Inv /\ [Next]_vars => Published'
<1> SUFFICES ASSUME Inv, [Next]_vars PROVE Published'
  OBVIOUS
<1> USE DEF publishing
<1>1. TypeOK /\ InTheirSets /\ Published /\ Orderly
  BY TypesAndLocks DEF Inv, Published, Orderly
<1>2. CASE UNCHANGED <<publishing, status>>
  BY <1>1, <1>2, PublishedKept
<1>3. ASSUME NEW q \in Publications, ReadVersion(q) \/ Insert(q) PROVE Published'
  BY <1>3, ReadVersionPublished, InsertPublished
<1>4. ASSUME NEW s \in Schemas, MarkVerified(s) PROVE Published'
  <2>1. \A x \in Schemas : status'[x] = "absent" <=> status[x] = "absent"
    BY <1>1, <1>4 DEF MarkVerified, TypeOK
  <2> QED
    BY <1>1, <1>4, <2>1, PublishedKept DEF MarkVerified
<1>5. ASSUME NEW r \in Verifications, Commit(r) PROVE Published'
  <2>1. \A x \in Schemas : status'[x] = "absent" <=> status[x] = "absent"
    BY <1>1, <1>5, CommitEffect DEF Written
  <2> QED
    BY <1>1, <1>5, <2>1, PublishedKept DEF Commit
<1>6. ASSUME NEW r \in Verifications,
             \/ CheckFails(r) \/ ListTargets(r) \/ StartArchive(r) \/ Archive(r) \/ Promote(r)
             \/ Rollback(r) \/ \E n \in Nonces : Consume(r, n)
      PROVE  UNCHANGED <<publishing, status>>
  BY <1>6 DEF CheckFails, ListTargets, StartArchive, Archive, Promote, Rollback, Consume
<1>7. ASSUME NEW n \in Nonces, NEW p \in Publishers, CreateChallenge(n, p)
      PROVE  UNCHANGED <<publishing, status>>
  BY <1>7 DEF CreateChallenge
<1>8. CASE UNCHANGED vars
  BY <1>2, <1>8 DEF vars
<1> QED
  BY <1>2, <1>3, <1>4, <1>5, <1>6, <1>7, <1>8 DEF Next, VerifyContract

---------------------------------------------------------------------------

LEMMA InitInv == Init => Inv
<1> SUFFICES ASSUME Init PROVE Inv
  OBVIOUS
<1>1. TypeOK
  BY InitTypeOK
<1>2. \A r \in Verifications : Transaction(r)
  BY DEF Init, Transaction
<1>3. Apart /\ UniqueVerified
  BY DEF Init, Apart, UniqueVerified
<1>4. Consumed /\ ChallengeServesOnce
  BY DEF Init, Consumed, ChallengeServesOnce
<1>5. \A q \in Publications : Publication(q)
  BY DEF Init, Publication
<1>6. ASSUME NEW p \in Publishers, NEW e \in Events PROVE NoGap(p, e)
  <2> DEFINE first == [publisher |-> p, event |-> e, version |-> 1]
  <2>1. \A v \in 1 .. MaxVersion : v \in VersionsOf(p, e) <=> v = 1 /\ first \in Earlier
    <3> TAKE v \in 1 .. MaxVersion
    <3> DEFINE s == [publisher |-> p, event |-> e, version |-> v]
    <3>1. s \in Schemas /\ s.version = v
      BY VersionsAreRows
    <3>2. status[s] # "absent" <=> s \in Earlier
      BY <3>1 DEF Init
    <3>3. s \in Earlier => v = 1
      BY <3>1, RegistryAssumption
    <3> QED
      BY <3>2, <3>3 DEF VersionsOf
  <2>2. VersionsOf(p, e) = 1 .. 0 \/ VersionsOf(p, e) = 1 .. 1
    <3>1. VersionsOf(p, e) \subseteq 1 .. MaxVersion
      BY DEF VersionsOf
    <3> QED
      BY <2>1, <3>1, RegistryAssumption
  <2>3. 0 \in 0 .. MaxVersion /\ 1 \in 0 .. MaxVersion
    BY RegistryAssumption
  <2> QED
    BY <2>2, <2>3, Zenon DEF NoGap
<1> QED
  BY <1>1, <1>2, <1>3, <1>4, <1>5, <1>6 DEF Inv

LEMMA NextInv == Inv /\ [Next]_vars => Inv'
<1> SUFFICES ASSUME Inv, [Next]_vars PROVE Inv'
  OBVIOUS
<1>1. InTheirSets' /\ Orderly' /\ Consumed' /\ ChallengeServesOnce' /\ Published'
  BY NextInTheirSets, NextOrderly, NextConsumed, NextPublished
<1>2. TypeOK'
  <2>1. TypeOK <=> InTheirSets /\ Disjoint /\ NoneKept
    BY TypesAndLocks
  <2>2. (TypeOK <=> InTheirSets /\ Disjoint /\ NoneKept)'
    BY TypesAndLocks, PTL
  <2> QED
    BY <1>1, <2>2 DEF Orderly
<1> QED
  BY <1>1, <1>2 DEF Inv, Orderly, Published

\* The invariant of the registry, of which the theorems below are parts.
THEOREM RegistryInvariant == Spec => []Inv
<1>1. Init => Inv
  BY InitInv
<1>2. Inv /\ [Next]_vars => Inv'
  BY NextInv
<1> QED
  BY <1>1, <1>2, PTL DEF Spec

\* idx_event_schemas_unique_verified and VerifyContract's transaction: an event has at most
\* one verified schema, and no two transactions are writing the same row.
THEOREM EventsHaveOneVerifiedSchema == Spec => []OneVerified
<1>1. Inv => OneVerified
  <2> SUFFICES ASSUME Inv, NEW e \in Events PROVE Cardinality(VerifiedRows(e)) <= 1
    BY DEF OneVerified, Inv
  <2>1. CASE VerifiedRows(e) = {}
    BY <2>1, FS_EmptySet
  <2>2. CASE VerifiedRows(e) # {}
    <3>1. PICK x : x \in VerifiedRows(e)
      BY <2>2
    <3>2. VerifiedRows(e) = {x}
      BY <3>1 DEF VerifiedRows, Inv, UniqueVerified
    <3>3. Cardinality({x}) = 1
      BY FS_Singleton, Zenon
    <3> QED
      BY <3>2, <3>3
  <2> QED
    BY <2>1, <2>2
<1> QED
  BY <1>1, RegistryInvariant, PTL

\* SchemaService.Publish: a publisher's versions of an event have no gap, and a publication
\* that has answered has its row.
THEOREM VersionsHaveNoGap == Spec => []VersionsAreSound
<1>1. Inv => VersionsAreSound
  <2> SUFFICES ASSUME Inv PROVE VersionsAreSound
    OBVIOUS
  <2>1. ASSUME NEW p \in Publishers, NEW e \in Events
        PROVE  VersionsOf(p, e) = 1 .. Cardinality(VersionsOf(p, e))
    <3>1. PICK n \in 0 .. MaxVersion : VersionsOf(p, e) = 1 .. n
      BY DEF Inv, NoGap
    <3>2. Cardinality(1 .. n) = n
      BY FS_Interval, RegistryAssumption
    <3> QED
      BY <3>1, <3>2
  <2> QED
    BY <2>1 DEF Inv, Publication, VersionsAreSound
<1> QED
  BY <1>1, RegistryInvariant, PTL

\* ChallengeRepository.Consume: a challenge serves one request.
THEOREM ChallengesServeOnce == Spec => []ChallengeServesOnce
<1>1. Inv => ChallengeServesOnce
  BY DEF Inv
<1> QED
  BY <1>1, RegistryInvariant, PTL

\* VerifyContract: no commit leaves an event without a verified schema that had one.
THEOREM EventsStayVerified == Spec => VerifiedStays
<1>1. Inv /\ [Next]_vars =>
        [\A e \in Events : VerifiedRows(e) # {} => VerifiedRows(e)' # {}]_vars
  <2> SUFFICES ASSUME Inv, [Next]_vars, NEW e \in Events, NEW x \in VerifiedRows(e)
               PROVE  VerifiedRows(e)' # {}
    OBVIOUS
  <2>1. InTheirSets /\ Orderly
    BY TypesAndLocks DEF Inv, Orderly
  <2>2. x \in Schemas /\ x.event = e /\ status[x] = "verified"
    BY DEF VerifiedRows
  <2>3. CASE status'[x] = "verified"
    BY <2>2, <2>3 DEF VerifiedRows
  <2>4. ASSUME NEW r \in Verifications, Commit(r) PROVE VerifiedRows(e)' # {}
    <3>1. CASE x \in archived[r]
      <4>1. PICK y \in promoted[r] : y.event = e
        BY <2>1, <2>2, <2>4, <3>1 DEF Commit, Orderly, Transaction, Replaces
      <4>2. y \in Schemas /\ status'[y] = "verified"
        BY <2>1, <2>4, <4>1, CommitEffect DEF Written
      <4> QED
        BY <4>1, <4>2 DEF VerifiedRows
    <3>2. CASE x \notin archived[r]
      BY <2>1, <2>2, <2>3, <2>4, <3>2, CommitEffect DEF Written
    <3> QED
      BY <3>1, <3>2
  <2>5. ASSUME NEW q \in Publications, Insert(q) PROVE status'[x] = "verified"
    BY <2>1, <2>2, <2>5 DEF Insert, InTheirSets
  <2>6. ASSUME NEW s \in Schemas, MarkVerified(s) PROVE status'[x] = "verified"
    BY <2>1, <2>2, <2>6 DEF MarkVerified, InTheirSets
  <2>7. ASSUME NEW q \in Publications, ReadVersion(q) PROVE status' = status
    BY <2>7 DEF ReadVersion
  <2>8. ASSUME NEW n \in Nonces, NEW p \in Publishers, CreateChallenge(n, p)
        PROVE  status' = status
    BY <2>8 DEF CreateChallenge
  <2>9. ASSUME NEW r \in Verifications,
               \/ CheckFails(r) \/ ListTargets(r) \/ StartArchive(r) \/ Archive(r) \/ Promote(r)
               \/ Rollback(r) \/ \E n \in Nonces : Consume(r, n)
        PROVE  status' = status
    BY <2>9 DEF CheckFails, ListTargets, StartArchive, Archive, Promote, Rollback, Consume
  <2>10. CASE UNCHANGED vars
    BY <2>2, <2>3, <2>10 DEF vars
  <2> QED
    BY <2>2, <2>3, <2>4, <2>5, <2>6, <2>7, <2>8, <2>9, <2>10 DEF Next, VerifyContract
<1> QED
  BY <1>1, RegistryInvariant, PTL DEF Spec, VerifiedStays

\* VerifyContract: a request that succeeds has promoted every schema it had listed.
THEOREM RequestsPromoteAll == Spec => AllOrNothing
<1>1. Inv /\ [Next]_vars =>
        [\A r \in Verifications :
           vpc'[r] = "done" /\ vpc[r] # "done" =>
             \A s \in targets[r] : status'[s] = "verified"]_vars
  <2> SUFFICES ASSUME Inv, [Next]_vars, NEW r \in Verifications, vpc'[r] = "done",
                      vpc[r] # "done", NEW s \in targets[r]
               PROVE  status'[s] = "verified"
    OBVIOUS
  <2>1. InTheirSets /\ Orderly
    BY TypesAndLocks DEF Inv, Orderly
  <2>2. ASSUME Commit(r) PROVE status'[s] = "verified"
    <3>1. s \in promoted[r]
      BY <2>1, <2>2 DEF Commit, Orderly, Transaction
    <3> QED
      BY <2>1, <2>2, <3>1, CommitEffect
  <2>3. ASSUME NEW q \in Publications, ReadVersion(q) \/ Insert(q) PROVE vpc' = vpc
    BY <2>3 DEF ReadVersion, Insert, verifying
  <2>4. ASSUME NEW x \in Schemas, MarkVerified(x) PROVE vpc' = vpc
    BY <2>4 DEF MarkVerified, verifying
  <2>5. ASSUME NEW n \in Nonces, NEW p \in Publishers, CreateChallenge(n, p) PROVE vpc' = vpc
    BY <2>5 DEF CreateChallenge, verifying
  <2>6. ASSUME NEW q \in Verifications, CheckFails(q) \/ ListTargets(q) \/ Promote(q) \/ Rollback(q)
        PROVE  vpc'[r] = vpc[r] \/ vpc'[r] # "done"
    BY <2>1, <2>6 DEF CheckFails, ListTargets, Promote, Rollback, End, At, InTheirSets
  <2>7. ASSUME NEW q \in Verifications,
               StartArchive(q) \/ Archive(q) \/ \E n \in Nonces : Consume(q, n)
        PROVE  vpc'[r] = vpc[r] \/ vpc'[r] # "done"
    BY <2>1, <2>7 DEF StartArchive, Archive, Consume, At, InTheirSets
  <2>8. ASSUME NEW q \in Verifications, q # r, Commit(q) PROVE vpc'[r] = vpc[r]
    BY <2>1, <2>8 DEF Commit, End, At, InTheirSets
  <2>9. CASE UNCHANGED vars
    BY <2>9 DEF vars, verifying
  <2> QED
    BY <2>2, <2>3, <2>4, <2>5, <2>6, <2>7, <2>8, <2>9 DEF Next, VerifyContract
<1> QED
  BY <1>1, RegistryInvariant, PTL DEF Spec, AllOrNothing

=============================================================================
