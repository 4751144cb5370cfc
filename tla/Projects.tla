------------------------------ MODULE Projects ------------------------------
(***************************************************************************)
(* The projects of one user and their publish tokens.  ProjectService      *)
(* creates a project in three steps (a free slug, a token, the row),       *)
(* renames it in three (the row, a free slug, the row), and shows it as    *)
(* published once its token has been used.  SchemaHandler.HandlePublish    *)
(* uses the token before and after it publishes a schema, and then marks   *)
(* the project.                                                            *)
(*                                                                         *)
(* Every statement is a transaction of its own, so requests of the user    *)
(* interleave between any two of them.  A token and the project that is    *)
(* created with it bear the name of the request that creates them.         *)
(***************************************************************************)
EXTENDS Integers, Sequences, FiniteSets

CONSTANTS
  Creations,         \* requests for a project or for a token alone
  Updates,           \* requests to change a project
  Publications,      \* requests to publish a schema
  Names,             \* names of projects
  Slugify,           \* the slug of each: a sequence of words
  MaxTries,          \* slugs that uniqueSlug tries
  MaxPublishTokens,  \* active tokens of a user
  ContractOf,        \* the contract of each publication
  MaxFailures,       \* bound: statements that fail and whose failure is ignored
  None               \* no name, no contract, no project

ASSUME ProjectsAssumption ==
  /\ Slugify \in [Names -> Seq(Nat)]
  /\ MaxTries \in Nat \ {0} /\ MaxPublishTokens \in Nat /\ MaxFailures \in Nat
  /\ None \notin Names \cup Creations
  /\ DOMAIN ContractOf = Publications
  /\ \A q \in Publications : ContractOf[q] # None

VARIABLES
  token,         \* publish_tokens: "none", "active" or "revoked"
  used,          \* which have last_used_at set
  status,        \* schema_projects: "none", "draft" or "published"
  name,          \* the name,
  slug,          \* the slug,
  contract,      \* and the contract of each
  cpc,           \* where each creation is
  wanted,        \* the name it is for: None for a token alone
  tried,         \* the slugs it has tried, the last of them free
  overlapped,    \* history: creations whose count of tokens another has made stale
  upc,           \* where each update is
  subject,       \* its project
  newName,       \* what it is going to write
  newSlug,
  retries,       \* the slugs it has tried
  ppc,           \* where each publication is
  with,          \* its token
  ignored        \* failures so far

creating == <<cpc, wanted, tried>>
rows == <<status, name, slug, contract>>
tokens == <<token, used, overlapped>>
updating == <<upc, subject, newName, newSlug, retries>>
publishing == <<ppc, with>>
projectVars == <<tokens, rows, creating, updating, publishing, ignored>>

Init ==
  /\ token = [c \in Creations |-> "none"]
  /\ used = [c \in Creations |-> FALSE]
  /\ overlapped = {}
  /\ status = [c \in Creations |-> "none"]
  /\ name = [c \in Creations |-> None]
  /\ slug = [c \in Creations |-> <<>>]
  /\ contract = [c \in Creations |-> None]
  /\ cpc = [c \in Creations |-> "idle"]
  /\ wanted = [c \in Creations |-> None]
  /\ tried = [c \in Creations |-> 0]
  /\ upc = [u \in Updates |-> "idle"]
  /\ subject = [u \in Updates |-> None]
  /\ newName = [u \in Updates |-> None]
  /\ newSlug = [u \in Updates |-> <<>>]
  /\ retries = [u \in Updates |-> 0]
  /\ ppc = [q \in Publications |-> "idle"]
  /\ with = [q \in Publications |-> None]
  /\ ignored = 0

---------------------------------------------------------------------------
\* Slugs.

Projects == {c \in Creations : status[c] # "none"}

\* The slug of a name, then the same with -2, -3, ... appended.
Candidate(n, i) == IF i = 1 THEN Slugify[n] ELSE Append(Slugify[n], i)

SlugExists(s) == \E c \in Projects : slug[c] = s

---------------------------------------------------------------------------
\* Publish tokens.

ActiveTokens == {c \in Creations : token[c] = "active"}

\* Mutant: a user at the limit gets one more.
CountLoosely(c) ==
  /\ cpc[c] = "count"
  /\ cpc' = [cpc EXCEPT ![c] =
               IF Cardinality(ActiveTokens) > MaxPublishTokens THEN "failed" ELSE "token"]
  /\ UNCHANGED <<tokens, rows, wanted, tried, updating, publishing, ignored>>

CountActive(c) ==
  /\ cpc[c] = "count"
  /\ cpc' = [cpc EXCEPT ![c] =
               IF Cardinality(ActiveTokens) >= MaxPublishTokens THEN "failed" ELSE "token"]
  /\ UNCHANGED <<tokens, rows, wanted, tried, updating, publishing, ignored>>

\* The count of every other creation that is about to insert is stale now.
InsertToken(c) ==
  /\ cpc[c] = "token"
  /\ token' = [token EXCEPT ![c] = "active"]
  /\ overlapped' = overlapped \cup {d \in Creations \ {c} : cpc[d] = "token"}
  /\ cpc' = [cpc EXCEPT ![c] = IF wanted[c] = None THEN "done" ELSE "insert"]
  /\ UNCHANGED <<used, rows, wanted, tried, updating, publishing, ignored>>

\* PublishTokenService.Create by itself.
CreateToken(c) ==
  /\ cpc[c] = "idle"
  /\ cpc' = [cpc EXCEPT ![c] = "count"]
  /\ UNCHANGED <<tokens, rows, wanted, tried, updating, publishing, ignored>>

\* The row of the project keeps its token.
Revoke(c) ==
  /\ token[c] = "active"
  /\ token' = [token EXCEPT ![c] = "revoked"]
  /\ UNCHANGED <<used, overlapped, rows, creating, updating, publishing, ignored>>

Ignore == ignored < MaxFailures /\ ignored' = ignored + 1

\* ResolvePublishAuth of an active token; that last_used_at cannot be written is ignored.
Touch(c) ==
  \/ used' = [used EXCEPT ![c] = TRUE] /\ UNCHANGED ignored
  \/ Ignore /\ UNCHANGED used

---------------------------------------------------------------------------
\* ProjectService.Create.

CreateProject(c, n) ==
  /\ cpc[c] = "idle"
  /\ wanted' = [wanted EXCEPT ![c] = n]
  /\ tried' = [tried EXCEPT ![c] = 1]
  /\ cpc' = [cpc EXCEPT ![c] = "slug"]
  /\ UNCHANGED <<tokens, rows, updating, publishing, ignored>>

\* One round of uniqueSlug.
TrySlug(c) ==
  /\ cpc[c] = "slug"
  /\ LET taken == SlugExists(Candidate(wanted[c], tried[c])) IN
       /\ cpc' = [cpc EXCEPT ![c] = CASE ~taken -> "count"
                                      [] taken /\ tried[c] = MaxTries -> "failed"
                                      [] OTHER -> "slug"]
       /\ tried' = [tried EXCEPT ![c] =
                      IF taken /\ tried[c] < MaxTries THEN tried[c] + 1 ELSE tried[c]]
  /\ UNCHANGED <<tokens, rows, wanted, updating, publishing, ignored>>

\* A slug that was taken meanwhile violates the unique constraint.  The token stays: nobody
\* has been told it, and it counts against the limit.
InsertProject(c) ==
  LET s == Candidate(wanted[c], tried[c]) IN
  /\ cpc[c] = "insert"
  /\ \/ /\ ~SlugExists(s)
        /\ status' = [status EXCEPT ![c] = "draft"]
        /\ name' = [name EXCEPT ![c] = wanted[c]]
        /\ slug' = [slug EXCEPT ![c] = s]
        /\ cpc' = [cpc EXCEPT ![c] = "done"]
     \/ /\ SlugExists(s)
        /\ cpc' = [cpc EXCEPT ![c] = "failed"]
        /\ UNCHANGED <<status, name, slug>>
  /\ UNCHANGED <<tokens, contract, wanted, tried, updating, publishing, ignored>>

\* Get and List repair a draft whose token has been used.
SyncPublishedStatus(c) ==
  /\ status[c] = "draft"
  /\ used[c]
  /\ status' = [status EXCEPT ![c] = "published"]
  /\ UNCHANGED <<tokens, name, slug, contract, creating, updating, publishing, ignored>>

---------------------------------------------------------------------------
\* ProjectService.Update.

\* What is not asked for, or does not change, is written back as it is read.
ReadProject(u, c, n) ==
  /\ upc[u] = "idle"
  /\ c \in Projects
  /\ subject' = [subject EXCEPT ![u] = c]
  /\ newName' = [newName EXCEPT ![u] = IF n = None THEN name[c] ELSE n]
  /\ newSlug' = [newSlug EXCEPT ![u] = slug[c]]
  /\ retries' = [retries EXCEPT ![u] = 1]
  /\ upc' = [upc EXCEPT ![u] = IF n \in {None, name[c]} THEN "write" ELSE "slug"]
  /\ UNCHANGED <<tokens, rows, creating, publishing, ignored>>

\* Mutant: a rename keeps the slug if none is free at the first try.
KeepSlug(u) ==
  /\ upc[u] = "slug"
  /\ upc' = [upc EXCEPT ![u] = "write"]
  /\ newSlug' = [newSlug EXCEPT ![u] =
                   IF SlugExists(Candidate(newName[u], 1)) THEN newSlug[u]
                   ELSE Candidate(newName[u], 1)]
  /\ UNCHANGED <<tokens, rows, creating, subject, newName, retries, publishing, ignored>>

\* The project's own slug is among those that exist.
RetrySlug(u) ==
  LET s == Candidate(newName[u], retries[u]) IN
  /\ upc[u] = "slug"
  /\ \/ /\ ~SlugExists(s)
        /\ newSlug' = [newSlug EXCEPT ![u] = s]
        /\ upc' = [upc EXCEPT ![u] = "write"]
        /\ UNCHANGED retries
     \/ /\ SlugExists(s) /\ retries[u] < MaxTries
        /\ retries' = [retries EXCEPT ![u] = retries[u] + 1]
        /\ UNCHANGED <<newSlug, upc>>
     \/ /\ SlugExists(s) /\ retries[u] = MaxTries
        /\ upc' = [upc EXCEPT ![u] = "failed"]
        /\ UNCHANGED <<newSlug, retries>>
  /\ UNCHANGED <<tokens, rows, creating, subject, newName, publishing, ignored>>

WriteProject(u) ==
  LET c == subject[u] IN
  /\ upc[u] = "write"
  /\ IF \E d \in Projects \ {c} : slug[d] = newSlug[u]
       THEN upc' = [upc EXCEPT ![u] = "failed"] /\ UNCHANGED <<name, slug>>
       ELSE /\ name' = [name EXCEPT ![c] = newName[u]]
            /\ slug' = [slug EXCEPT ![c] = newSlug[u]]
            /\ upc' = [upc EXCEPT ![u] = "done"]
  /\ UNCHANGED <<tokens, status, contract, creating, subject, newName, newSlug, retries,
                 publishing, ignored>>

---------------------------------------------------------------------------
\* SchemaHandler.HandlePublish.

\* A token is known to its user once its creation has answered.
ResolveUser(q, c) ==
  /\ ppc[q] = "idle"
  /\ cpc[c] = "done" /\ token[c] = "active"
  /\ Touch(c)
  /\ with' = [with EXCEPT ![q] = c]
  /\ ppc' = [ppc EXCEPT ![q] = "publish"]
  /\ UNCHANGED <<token, overlapped, rows, creating, updating>>

\* SchemaService.Publish succeeds, or the schema is turned down.
PublishSchema(q) ==
  /\ ppc[q] = "publish"
  /\ \E after \in {"again", "failed"} : ppc' = [ppc EXCEPT ![q] = after]
  /\ UNCHANGED <<tokens, rows, creating, updating, with, ignored>>

\* The token is resolved once more.  If it is revoked by now, or cannot be read, the project
\* is not marked, and the answer is the same.
ResolveToken(q) ==
  LET c == with[q] IN
  /\ ppc[q] = "again"
  /\ \/ /\ token[c] = "active"
        /\ Touch(c)
        /\ ppc' = [ppc EXCEPT ![q] = "mark"]
     \/ /\ token[c] # "active"
        /\ ppc' = [ppc EXCEPT ![q] = "done"]
        /\ UNCHANGED <<used, ignored>>
     \/ /\ Ignore
        /\ ppc' = [ppc EXCEPT ![q] = "done"]
        /\ UNCHANGED used
  /\ UNCHANGED <<token, overlapped, rows, creating, updating, with>>

\* Mutant: the contract published last replaces the one before.
MarkLatest(q) ==
  LET c == with[q] IN
  /\ ppc[q] = "mark"
  /\ c \in Projects
  /\ status' = [status EXCEPT ![c] = "published"]
  /\ contract' = [contract EXCEPT ![c] = ContractOf[q]]
  /\ ppc' = [ppc EXCEPT ![q] = "done"]
  /\ UNCHANGED <<tokens, name, slug, creating, updating, with, ignored>>

\* The project keeps the first contract.  That it cannot be written is ignored.
MarkPublished(q) ==
  LET c == with[q] IN
  /\ ppc[q] = "mark"
  /\ \/ /\ c \in Projects
        /\ status' = [status EXCEPT ![c] = "published"]
        /\ contract' = [contract EXCEPT ![c] = IF contract[c] = None THEN ContractOf[q] ELSE contract[c]]
        /\ UNCHANGED ignored
     \/ c \notin Projects /\ UNCHANGED <<status, contract, ignored>>
     \/ Ignore /\ UNCHANGED <<status, contract>>
  /\ ppc' = [ppc EXCEPT ![q] = "done"]
  /\ UNCHANGED <<tokens, name, slug, creating, updating, with>>

---------------------------------------------------------------------------

Create(c) ==
  \/ CreateToken(c) \/ CountActive(c) \/ InsertToken(c)
  \/ TrySlug(c) \/ InsertProject(c)
  \/ \E n \in Names : CreateProject(c, n)

Update(u) ==
  \/ RetrySlug(u) \/ WriteProject(u)
  \/ \E c \in Creations, n \in Names \cup {None} : ReadProject(u, c, n)

HandlePublish(q) ==
  \/ PublishSchema(q) \/ ResolveToken(q) \/ MarkPublished(q)
  \/ \E c \in Creations : ResolveUser(q, c)

Next ==
  \/ \E c \in Creations : Create(c) \/ Revoke(c) \/ SyncPublishedStatus(c)
  \/ \E u \in Updates : Update(u)
  \/ \E q \in Publications : HandlePublish(q)

Spec == Init /\ [][Next]_projectVars

---------------------------------------------------------------------------

SlugsOf(n) == {Candidate(n, i) : i \in 1 .. MaxTries}

\* The tables and the requests hold what the services can put there.
TypeOK ==
  /\ token \in [Creations -> {"none", "active", "revoked"}]
  /\ used \in [Creations -> BOOLEAN]
  /\ overlapped \subseteq Creations
  /\ status \in [Creations -> {"none", "draft", "published"}]
  /\ name \in [Creations -> Names \cup {None}]
  /\ slug \in [Creations -> Seq(Nat)]
  /\ contract \in [Creations -> {ContractOf[q] : q \in Publications} \cup {None}]
  /\ cpc \in [Creations -> {"idle", "slug", "count", "token", "insert", "done", "failed"}]
  /\ wanted \in [Creations -> Names \cup {None}]
  /\ tried \in [Creations -> 0 .. MaxTries]
  /\ upc \in [Updates -> {"idle", "slug", "write", "done", "failed"}]
  /\ subject \in [Updates -> Creations \cup {None}]
  /\ newName \in [Updates -> Names \cup {None}]
  /\ newSlug \in [Updates -> Seq(Nat)]
  /\ retries \in [Updates -> 0 .. MaxTries]
  /\ ppc \in [Publications -> {"idle", "publish", "again", "mark", "done", "failed"}]
  /\ with \in [Publications -> Creations \cup {None}]
  /\ ignored \in 0 .. MaxFailures

\* However creations and renames of a user interleave, no two projects share a slug, and a
\* project's slug is one of its own name's: name and slug of two requests never mix.
SlugsAreSound ==
  \A c \in Projects :
    /\ slug[c] \in SlugsOf(name[c])
    /\ \A d \in Projects : slug[c] = slug[d] => c = d

\* The limit on active tokens is exceeded only by creations that ran at the same time.
TokensAreLimited == Cardinality(ActiveTokens \ overlapped) <= MaxPublishTokens

\* When a publication has answered, its project shows it: the status can be repaired.
PublicationSeen ==
  \A q \in Publications :
    LET c == with[q] IN
    ppc[q] = "done" /\ ignored <= 1 /\ c \in Projects /\ token[c] = "active" =>
      used[c] \/ status[c] = "published"

\* A project never loses its status or its contract.
PublishedStays ==
  [][\A c \in Projects :
       /\ status[c] = "published" => status'[c] = "published"
       /\ contract[c] # None => contract'[c] = contract[c]]_projectVars

\* One statement that fails cannot hide a publication: when it has answered, the user finds
\* the project published, unless its token has been revoked.  (Two can: the token's use is
\* not noted, and then the token is not found again.)  Later publications, renames and
\* reads, at the same time or not, take neither the status nor the first contract from it.
PublicationShows == []PublicationSeen /\ PublishedStays

===========================================================================
