--------------------------- MODULE SchemaRegistry ---------------------------
(***************************************************************************)
(* The event schemas of one contract on one network: requests publish      *)
(* versions (SchemaService.Publish), mark one as verified                  *)
(* (SchemaService.Verify) or prove by a signed challenge that they speak   *)
(* for the contract, which promotes the latest version of each event       *)
(* (VerifyService.VerifyContract).                                         *)
(*                                                                         *)
(* Requests run concurrently; what keeps them apart is PostgreSQL, at its  *)
(* default level, READ COMMITTED: a statement sees what is committed when  *)
(* it starts, and waits for a transaction that has written a row it wants  *)
(* to write, or a row it would clash with in a unique index.  What a       *)
(* transaction has written is kept beside the table until it commits.      *)
(***************************************************************************)
EXTENDS Integers, FiniteSetsExt

CONSTANTS
  Publishers,
  Events,         \* the names of the contract's events: numbers, in their order
  Earlier,        \* the schemas that are published already, each the first of its event
  MaxVersion,     \* bound: versions of an event by one publisher
  Publications,   \* requests to publish
  Publisher,      \* who makes each of them,
  Event,          \* and for which event
  Nonces,         \* challenges
  Verifications,  \* requests to verify the contract
  MaxFailures,    \* bound: statements and commits that fail
  None            \* no publisher, no publication, no challenge

Schemas == [publisher : Publishers, event : Events, version : 1 .. MaxVersion]

ASSUME RegistryAssumption ==
  /\ Events \subseteq Nat
  /\ MaxVersion \in Nat \ {0} /\ MaxFailures \in Nat
  /\ Publisher \in [Publications -> Publishers] /\ Event \in [Publications -> Events]
  /\ Earlier \subseteq {s \in Schemas : s.version = 1}
  /\ None \notin Publishers \cup Publications \cup Nonces

VARIABLES
  status,       \* event_schemas: "absent", "community", "verified" or "archived"
  publishedBy,  \* the publication that inserted each row
  ppc,          \* where each publication is
  row,          \* the row each publication is going to insert, or has inserted
  challenge,    \* each challenge: "none", "open" or "used"
  owner,        \* the publisher that asked for each challenge
  vpc,          \* where each verification is
  nonce,        \* the challenge of each verification
  targets,      \* rows each verification is to promote
  target,       \* the one it is about
  found,        \* rows that its archive statement has found and may have to wait for
  archived,     \* uncommitted: rows it has archived
  promoted,     \* uncommitted: rows it has promoted
  failures      \* how many statements have failed

publishing == <<publishedBy, ppc, row>>
challenges == <<challenge, owner>>
transaction == <<targets, target, found, archived, promoted>>
verifying == <<vpc, nonce, transaction>>
vars == <<status, publishing, challenges, verifying, failures>>

NoRow == [publisher |-> None, event |-> 0, version |-> 0]

Init ==
  /\ status = [s \in Schemas |-> IF s \in Earlier THEN "community" ELSE "absent"]
  /\ publishedBy = [s \in Schemas |-> None]
  /\ ppc = [q \in Publications |-> "idle"]
  /\ row = [q \in Publications |-> NoRow]
  /\ challenge = [n \in Nonces |-> "none"]
  /\ owner = [n \in Nonces |-> None]
  /\ vpc = [r \in Verifications |-> "idle"]
  /\ nonce = [r \in Verifications |-> None]
  /\ targets = [r \in Verifications |-> {}]
  /\ target = [r \in Verifications |-> NoRow]
  /\ found = [r \in Verifications |-> {}]
  /\ archived = [r \in Verifications |-> {}]
  /\ promoted = [r \in Verifications |-> {}]
  /\ failures = 0

---------------------------------------------------------------------------
\* Publish.

VersionsOf(p, e) ==
  {v \in 1 .. MaxVersion :
     status[[publisher |-> p, event |-> e, version |-> v]] # "absent"}

NextVersion(p, e) == Max(VersionsOf(p, e) \cup {0}) + 1

ReadVersion(q) ==
  LET p == Publisher[q]  e == Event[q] IN
  /\ ppc[q] = "idle"
  /\ NextVersion(p, e) <= MaxVersion
  /\ row' = [row EXCEPT ![q] = [publisher |-> p, event |-> e,
                                version |-> NextVersion(p, e)]]
  /\ ppc' = [ppc EXCEPT ![q] = "insert"]
  /\ UNCHANGED <<status, publishedBy, challenges, verifying, failures>>

\* Mutant: a row that exists is replaced.
Upsert(q) ==
  /\ ppc[q] = "insert"
  /\ status' = [status EXCEPT ![row[q]] = "community"]
  /\ publishedBy' = [publishedBy EXCEPT ![row[q]] = q]
  /\ ppc' = [ppc EXCEPT ![q] = "done"]
  /\ UNCHANGED <<row, challenges, verifying, failures>>

\* The unique index on the publisher's versions turns down the second of two.
Insert(q) ==
  /\ ppc[q] = "insert"
  /\ IF status[row[q]] = "absent"
       THEN /\ status' = [status EXCEPT ![row[q]] = "community"]
            /\ publishedBy' = [publishedBy EXCEPT ![row[q]] = q]
            /\ ppc' = [ppc EXCEPT ![q] = "done"]
            /\ UNCHANGED row
       ELSE /\ ppc' = [ppc EXCEPT ![q] = "failed"]
            /\ row' = [row EXCEPT ![q] = NoRow]
            /\ UNCHANGED <<status, publishedBy>>
  /\ UNCHANGED <<challenges, verifying, failures>>

---------------------------------------------------------------------------
\* Transactions.

\* The rows that the transactions in R have written.
Locked(R) == UNION {archived[r] \cup promoted[r] : r \in R}

Others(r) == Verifications \ {r}

VerifiedRows(e) == {s \in Schemas : s.event = e /\ status[s] = "verified"}

\* Mutant: nothing keeps a second verified schema out.
NoClash(r, s) == FALSE

\* The unique index on verified schemas: another row of the event is verified, and this
\* transaction has not archived it.
Clashes(r, s) == VerifiedRows(s.event) \ (archived[r] \cup {s}) # {}

\* A statement that makes s verified waits for those in R that have written a row of the event.
MustWait(R, s) == \E x \in Locked(R) : x.event = s.event

At(r, label) == vpc' = [vpc EXCEPT ![r] = label]

\* The request ends, and with it what its transaction had to keep.
End(r, label) ==
  /\ At(r, label)
  /\ targets' = [targets EXCEPT ![r] = {}]
  /\ target' = [target EXCEPT ![r] = NoRow]
  /\ found' = [found EXCEPT ![r] = {}]
  /\ archived' = [archived EXCEPT ![r] = {}]
  /\ promoted' = [promoted EXCEPT ![r] = {}]

\* SchemaService.Verify: one statement.  Its look-up before only turns down requests that
\* would change nothing; a second verified schema of the event makes it fail.
MarkVerified(s) ==
  /\ status[s] = "community"
  /\ ~MustWait(Verifications, s)
  /\ VerifiedRows(s.event) = {}
  /\ status' = [status EXCEPT ![s] = "verified"]
  /\ UNCHANGED <<publishing, challenges, verifying, failures>>

---------------------------------------------------------------------------
\* VerifyContract.

CreateChallenge(n, p) ==
  /\ challenge[n] = "none"
  /\ challenge' = [challenge EXCEPT ![n] = "open"]
  /\ owner' = [owner EXCEPT ![n] = p]
  /\ UNCHANGED <<status, publishing, verifying, failures>>

\* Mutant: a challenge that is used can be used again.
ConsumeAgain(r, n) ==
  /\ vpc[r] = "idle"
  /\ challenge[n] \in {"open", "used"}
  /\ challenge' = [challenge EXCEPT ![n] = "used"]
  /\ nonce' = [nonce EXCEPT ![r] = n]
  /\ At(r, "check")
  /\ UNCHANGED <<status, publishing, owner, transaction, failures>>

\* One statement looks at the challenge and marks it.  A request it turns down changes
\* nothing; one that has expired is a challenge that nothing consumes.
Consume(r, n) ==
  /\ vpc[r] = "idle"
  /\ challenge[n] = "open"
  /\ challenge' = [challenge EXCEPT ![n] = "used"]
  /\ nonce' = [nonce EXCEPT ![r] = n]
  /\ At(r, "check")
  /\ UNCHANGED <<status, publishing, owner, transaction, failures>>

\* The signature is wrong, or the wallet is not the deployer's, or nobody can tell.
CheckFails(r) ==
  /\ vpc[r] = "check"
  /\ End(r, "failed")
  /\ UNCHANGED <<status, publishing, challenges, nonce, failures>>

LatestCommunity(p) ==
  {s \in Schemas :
     /\ s.publisher = p /\ status[s] = "community"
     /\ \A x \in Schemas : /\ x.publisher = p /\ x.event = s.event
                           /\ status[x] = "community"
                           => x.version <= s.version}

\* The checks, which read nothing that others write, have passed.
ListTargets(r) ==
  /\ vpc[r] = "check"
  /\ LET T == LatestCommunity(owner[nonce[r]]) IN
       IF T = {}
         THEN End(r, "failed")
         ELSE /\ targets' = [targets EXCEPT ![r] = T]
              /\ At(r, "archive")
              /\ UNCHANGED <<target, found, archived, promoted>>
  /\ UNCHANGED <<status, publishing, challenges, nonce, failures>>

\* Mutant: the events come in any order.
AnyOf(T) == T

\* The targets are listed in the order of their events.
FirstOf(T) == {s \in T : \A x \in T : s.event <= x.event}

\* The archive statement starts: what it finds is what is committed now.
StartArchive(r) ==
  /\ vpc[r] = "archive"
  /\ \E s \in FirstOf(targets[r] \ promoted[r]) :
       /\ target' = [target EXCEPT ![r] = s]
       /\ found' = [found EXCEPT ![r] = VerifiedRows(s.event)]
  /\ At(r, "archiving")
  /\ UNCHANGED <<status, publishing, challenges, nonce, targets, archived, promoted,
                 failures>>

\* Mutant: the rows are archived outside the transaction.
ArchiveAtOnce(r) ==
  /\ vpc[r] = "archiving"
  /\ found[r] \cap Locked(Others(r)) = {}
  /\ status' = [s \in Schemas |-> IF s \in found[r] /\ status[s] = "verified"
                                    THEN "archived" ELSE status[s]]
  /\ found' = [found EXCEPT ![r] = {}]
  /\ At(r, "promote")
  /\ UNCHANGED <<publishing, challenges, nonce, targets, target, archived, promoted,
                 failures>>

\* It has waited for the rows it found, and looks at them again.
Archive(r) ==
  /\ vpc[r] = "archiving"
  /\ found[r] \cap Locked(Others(r)) = {}
  /\ archived' = [archived EXCEPT ![r] =
                    archived[r] \cup {s \in found[r] : status[s] = "verified"}]
  /\ found' = [found EXCEPT ![r] = {}]
  /\ At(r, "promote")
  /\ UNCHANGED <<status, publishing, challenges, nonce, targets, target, promoted, failures>>

\* Mutant: only the first event is promoted.
NothingLeft(r) == {}

Left(r) == targets[r] \ (promoted[r] \cup {target[r]})

\* A target that is promoted already, or another verified schema, ends the request.
Promote(r) ==
  LET s == target[r] IN
  /\ vpc[r] = "promote"
  /\ ~MustWait(Others(r), s)
  /\ IF status[s] # "community" \/ Clashes(r, s)
       THEN End(r, "failed")
       ELSE /\ promoted' = [promoted EXCEPT ![r] = promoted[r] \cup {s}]
            /\ target' = [target EXCEPT ![r] = NoRow]
            /\ At(r, IF Left(r) = {} THEN "commit" ELSE "archive")
            /\ UNCHANGED <<targets, found, archived>>
  /\ UNCHANGED <<status, publishing, challenges, nonce, failures>>

Commit(r) ==
  /\ vpc[r] = "commit"
  /\ status' = [s \in Schemas |-> CASE s \in archived[r] -> "archived"
                                    [] s \in promoted[r] -> "verified"
                                    [] OTHER -> status[s]]
  /\ End(r, "done")
  /\ UNCHANGED <<publishing, challenges, nonce, failures>>

\* A statement or the commit fails, and the deferred Rollback runs.
Rollback(r) ==
  /\ vpc[r] \in {"archive", "archiving", "promote", "commit"}
  /\ failures < MaxFailures
  /\ failures' = failures + 1
  /\ End(r, "failed")
  /\ UNCHANGED <<status, publishing, challenges, nonce>>

VerifyContract(r) ==
  \/ CheckFails(r) \/ ListTargets(r) \/ StartArchive(r) \/ Archive(r)
  \/ Promote(r) \/ Commit(r)

---------------------------------------------------------------------------

Next ==
  \/ \E q \in Publications : ReadVersion(q) \/ Insert(q)
  \/ \E s \in Schemas : MarkVerified(s)
  \/ \E n \in Nonces, p \in Publishers : CreateChallenge(n, p)
  \/ \E r \in Verifications :
       VerifyContract(r) \/ Rollback(r) \/ \E n \in Nonces : Consume(r, n)

Spec == Init /\ [][Next]_vars

\* A request that has begun goes on, and waits no longer than it has to.
Fairness == \A r \in Verifications : WF_vars(VerifyContract(r))

FairSpec == Spec /\ Fairness

---------------------------------------------------------------------------

Ended == {"idle", "done", "failed"}
Stages == Ended \cup {"check", "archive", "archiving", "promote", "commit"}

\* Every variable stays in its set, no row is written by two transactions at a time, and
\* only a request that is at it keeps rows for one.
TypeOK ==
  /\ status \in [Schemas -> {"absent", "community", "verified", "archived"}]
  /\ publishedBy \in [Schemas -> Publications \cup {None}]
  /\ ppc \in [Publications -> {"idle", "insert", "done", "failed"}]
  /\ row \in [Publications -> Schemas \cup {NoRow}]
  /\ challenge \in [Nonces -> {"none", "open", "used"}]
  /\ owner \in [Nonces -> Publishers \cup {None}]
  /\ vpc \in [Verifications -> Stages]
  /\ nonce \in [Verifications -> Nonces \cup {None}]
  /\ targets \in [Verifications -> SUBSET Schemas]
  /\ target \in [Verifications -> Schemas \cup {NoRow}]
  /\ found \in [Verifications -> SUBSET Schemas]
  /\ archived \in [Verifications -> SUBSET Schemas]
  /\ promoted \in [Verifications -> SUBSET Schemas]
  /\ failures \in 0 .. MaxFailures
  /\ \A r \in Verifications :
       /\ (archived[r] \cup promoted[r]) \cap Locked(Others(r)) = {}
       /\ vpc[r] \in Ended => archived[r] \cup promoted[r] = {}

\* However the requests of two publishers run into each other, an event has at most one
\* verified schema; every variable stays in its set, and no row is being written by two
\* transactions at a time.
OneVerified == TypeOK /\ \A e \in Events : Cardinality(VerifiedRows(e)) <= 1

\* A publisher's versions of an event are numbered without a gap, and every publication
\* that has answered has the row it was promised: no other has taken its version.
VersionsAreSound ==
  /\ \A p \in Publishers, e \in Events :
       VersionsOf(p, e) = 1 .. Cardinality(VersionsOf(p, e))
  /\ \A q \in Publications : ppc[q] = "done" => publishedBy[row[q]] = q

\* Readers never see an event that had a verified schema without one: the old one goes
\* when the new one comes.
VerifiedStays ==
  [][\A e \in Events : VerifiedRows(e) # {} => VerifiedRows(e)' # {}]_vars

\* A request that succeeds has promoted the schemas of all the events it had listed.
AllOrNothing ==
  [][\A r \in Verifications :
       vpc'[r] = "done" /\ vpc[r] # "done" =>
         \A s \in targets[r] : status'[s] = "verified"]_vars

\* A challenge serves one request.
ChallengeServesOnce ==
  \A r, s \in Verifications : nonce[r] = nonce[s] /\ nonce[r] # None => r = s

\* Requests that wait for each other's rows do not wait forever: all of them take the
\* events in the same order.
RequestsEnd ==
  \A r \in Verifications : vpc[r] \notin Ended ~> vpc[r] \in Ended

===========================================================================
