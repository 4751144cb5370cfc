--------------------------- MODULE ProjectsProofs ---------------------------
(***************************************************************************)
(* The slugs and the publish tokens of a user, for any number of requests  *)
(* at once and any names, slugs and limits that ProjectsAssumption admits. *)
(*                                                                         *)
(* That no two projects share a slug rests on the unique constraint alone, *)
(* which both writes look at.  That a project's slug is one of its name's  *)
(* is not inductive: WriteProject writes what ReadProject and RetrySlug    *)
(* found before, so the invariant says of a request on its way that the    *)
(* slug it holds is one of the name it holds.                              *)
(*                                                                         *)
(* That the limit on tokens holds but for concurrent creations is not      *)
(* inductive either: the invariant says that a creation whose count is not *)
(* stale still finds room.                                                 *)
(***************************************************************************)
EXTENDS Projects, FiniteSetTheorems, TLAPS

\* A creation for a project has a slug to try, and no other one inserts a project.
Wanting ==
  \A c \in Creations :
    /\ wanted[c] # None => tried[c] # 0
    /\ cpc[c] \in {"slug", "insert"} => wanted[c] # None

\* A change that is under way is one of a project, and writes a slug of the name it writes.
Changing ==
  \A u \in Updates :
    /\ upc[u] \in {"slug", "write"} =>
         subject[u] \in Projects /\ newName[u] # None /\ retries[u] # 0
    /\ upc[u] = "write" => newSlug[u] \in SlugsOf(newName[u])

Named == \A c \in Projects : name[c] # None

\* The first slug and all others of a name are sequences of words.
LEMMA CandidatesAreSlugs ==
  ASSUME NEW n \in Names, NEW i \in Nat
  PROVE  Candidate(n, i) \in Seq(Nat)
  BY ProjectsAssumption DEF ProjectsAssumption, Candidate

\* ResolvePublishAuth marks a token as used, or one more failure is ignored.
LEMMA TouchTypes ==
  ASSUME TypeOK, NEW c \in Creations \cup {None},
         Touch(c) \/ UNCHANGED <<used, ignored>>
  PROVE  used' \in [Creations -> BOOLEAN] /\ ignored' \in 0 .. MaxFailures
<1>1. used' \in [Creations -> BOOLEAN]
  BY DEF TypeOK, Touch, Ignore
<1>2. ignored \in 0 .. MaxFailures
  BY DEF TypeOK
<1>3. ignored' \in 0 .. MaxFailures
  BY <1>2, ProjectsAssumption DEF Touch, Ignore, ProjectsAssumption
<1> QED
  BY <1>1, <1>3

\* Every step keeps the types: a request holds a name, a slug and a number of tries.
LEMMA TypesStay == TypeOK /\ Wanting /\ Changing /\ Named /\ [Next]_projectVars => TypeOK'
<1> SUFFICES ASSUME TypeOK, Wanting, Changing, Named, [Next]_projectVars PROVE TypeOK'
  OBVIOUS
<1> USE DEF TypeOK, tokens, rows, creating, updating, publishing
<1>1. ASSUME NEW c \in Creations, CreateToken(c) PROVE TypeOK'
  BY <1>1 DEF CreateToken
<1>2. ASSUME NEW c \in Creations, CountActive(c) PROVE TypeOK'
  BY <1>2 DEF CountActive
<1>3. ASSUME NEW c \in Creations, InsertToken(c) PROVE TypeOK'
  BY <1>3 DEF InsertToken
<1>4. ASSUME NEW c \in Creations, TrySlug(c) PROVE TypeOK'
  BY <1>4, ProjectsAssumption DEF TrySlug, ProjectsAssumption
<1>5. ASSUME NEW c \in Creations, InsertProject(c) PROVE TypeOK'
  <2>1. wanted[c] \in Names /\ tried[c] \in Nat
    BY <1>5, ProjectsAssumption DEF InsertProject, Wanting, ProjectsAssumption
  <2>2. Candidate(wanted[c], tried[c]) \in Seq(Nat)
    BY <2>1, CandidatesAreSlugs
  <2>3. status' \in [Creations -> {"none", "draft", "published"}]
        /\ cpc' \in [Creations -> {"idle", "slug", "count", "token", "insert", "done", "failed"}]
    BY <1>5 DEF InsertProject
  <2>4. name' \in [Creations -> Names \cup {None}]
    <3>1. name' = name \/ name' = [name EXCEPT ![c] = wanted[c]]
      BY <1>5 DEF InsertProject
    <3> QED BY <2>1, <3>1
  <2>5. slug' \in [Creations -> Seq(Nat)]
    <3>1. slug' = slug \/ slug' = [slug EXCEPT ![c] = Candidate(wanted[c], tried[c])]
      BY <1>5 DEF InsertProject
    <3>2. slug \in [Creations -> Seq(Nat)]
      OBVIOUS
    <3> HIDE DEF TypeOK
    <3> QED BY <2>2, <3>1, <3>2
  <2>6. UNCHANGED <<token, used, overlapped, contract, wanted, tried, upc, subject, newName,
                    newSlug, retries, ppc, with, ignored>>
    BY <1>5 DEF InsertProject
  <2> QED BY <2>3, <2>4, <2>5, <2>6
<1>6. ASSUME NEW c \in Creations, NEW n \in Names, CreateProject(c, n) PROVE TypeOK'
  BY <1>6, ProjectsAssumption DEF CreateProject, ProjectsAssumption
<1>7. ASSUME NEW c \in Creations, Revoke(c) PROVE TypeOK'
  BY <1>7 DEF Revoke
<1>8. ASSUME NEW c \in Creations, SyncPublishedStatus(c) PROVE TypeOK'
  BY <1>8 DEF SyncPublishedStatus
<1>9. ASSUME NEW u \in Updates, NEW c \in Creations, NEW n \in Names \cup {None},
             ReadProject(u, c, n)
      PROVE  TypeOK'
  BY <1>9, ProjectsAssumption DEF ReadProject, Projects, ProjectsAssumption
<1>10. ASSUME NEW u \in Updates, RetrySlug(u) PROVE TypeOK'
  <2>1. newName[u] \in Names /\ retries[u] \in Nat
    BY <1>10, ProjectsAssumption DEF RetrySlug, Changing, ProjectsAssumption
  <2>2. Candidate(newName[u], retries[u]) \in Seq(Nat)
    BY <2>1, CandidatesAreSlugs
  <2>3. newSlug' \in [Updates -> Seq(Nat)]
    BY <1>10, <2>2 DEF RetrySlug
  <2>4. upc' \in [Updates -> {"idle", "slug", "write", "done", "failed"}]
    BY <1>10 DEF RetrySlug
  <2>5. retries' \in [Updates -> 0 .. MaxTries]
    <3>1. \/ retries' = retries
          \/ retries' = [retries EXCEPT ![u] = retries[u] + 1] /\ retries[u] < MaxTries
      BY <1>10 DEF RetrySlug
    <3>2. retries[u] < MaxTries => retries[u] + 1 \in 0 .. MaxTries
      BY ProjectsAssumption DEF ProjectsAssumption
    <3> QED BY <3>1, <3>2
  <2>6. UNCHANGED <<tokens, rows, creating, subject, newName, publishing, ignored>>
    BY <1>10 DEF RetrySlug
  <2> QED BY <2>3, <2>4, <2>5, <2>6
<1>11. ASSUME NEW u \in Updates, WriteProject(u) PROVE TypeOK'
  <2>1. name' \in [Creations -> Names \cup {None}]
    BY <1>11 DEF WriteProject
  <2>2. slug' \in [Creations -> Seq(Nat)]
    <3>1. newSlug[u] \in Seq(Nat)
      OBVIOUS
    <3>2. slug' = slug \/ slug' = [slug EXCEPT ![subject[u]] = newSlug[u]]
      BY <1>11 DEF WriteProject
    <3> QED BY <3>1, <3>2
  <2>3. upc' \in [Updates -> {"idle", "slug", "write", "done", "failed"}]
    BY <1>11 DEF WriteProject
  <2>4. UNCHANGED <<tokens, status, contract, creating, subject, newName, newSlug, retries,
                    publishing, ignored>>
    BY <1>11 DEF WriteProject
  <2> QED BY <2>1, <2>2, <2>3, <2>4
<1>12. ASSUME NEW q \in Publications, NEW c \in Creations, ResolveUser(q, c) PROVE TypeOK'
  <2>1. used' \in [Creations -> BOOLEAN] /\ ignored' \in 0 .. MaxFailures
    BY <1>12, TouchTypes DEF ResolveUser
  <2>2. with' \in [Publications -> Creations \cup {None}]
        /\ ppc' \in [Publications -> {"idle", "publish", "again", "mark", "done", "failed"}]
    BY <1>12 DEF ResolveUser
  <2>3. UNCHANGED <<token, overlapped, rows, creating, updating>>
    BY <1>12 DEF ResolveUser
  <2> QED BY <2>1, <2>2, <2>3
<1>13. ASSUME NEW q \in Publications, PublishSchema(q) PROVE TypeOK'
  BY <1>13 DEF PublishSchema
<1>14. ASSUME NEW q \in Publications, ResolveToken(q) PROVE TypeOK'
  <2>1. used' \in [Creations -> BOOLEAN] /\ ignored' \in 0 .. MaxFailures
    <3>1. Touch(with[q]) \/ UNCHANGED <<used, ignored>>
      BY <1>14 DEF ResolveToken, Touch
    <3>2. with[q] \in Creations \cup {None}
      OBVIOUS
    <3> QED BY <3>1, <3>2, TouchTypes
  <2>2. ppc' \in [Publications -> {"idle", "publish", "again", "mark", "done", "failed"}]
    <3>1. ppc' = [ppc EXCEPT ![q] = "mark"] \/ ppc' = [ppc EXCEPT ![q] = "done"]
      BY <1>14 DEF ResolveToken
    <3> QED BY <3>1
  <2>3. UNCHANGED <<token, overlapped, rows, creating, updating, with>>
    BY <1>14 DEF ResolveToken
  <2> QED BY <2>1, <2>2, <2>3
<1>15. ASSUME NEW q \in Publications, MarkPublished(q) PROVE TypeOK'
  <2>1. status' \in [Creations -> {"none", "draft", "published"}]
    BY <1>15 DEF MarkPublished
  <2>2. contract' \in [Creations -> {ContractOf[p] : p \in Publications} \cup {None}]
    <3>1. ContractOf[q] \in {ContractOf[p] : p \in Publications}
      OBVIOUS
    <3>2. \/ contract' = contract
          \/ contract' = [contract EXCEPT ![with[q]] = ContractOf[q]]
          \/ contract' = [contract EXCEPT ![with[q]] = contract[with[q]]]
      BY <1>15 DEF MarkPublished
    <3>3. contract \in [Creations -> {ContractOf[p] : p \in Publications} \cup {None}]
      OBVIOUS
    <3>4. contract' = [contract EXCEPT ![with[q]] = contract[with[q]]] => contract' = contract
      BY <3>3
    <3> QED BY <3>1, <3>2, <3>3, <3>4
  <2>3. ignored' \in 0 .. MaxFailures
    BY <1>15, ProjectsAssumption DEF MarkPublished, Ignore, ProjectsAssumption
  <2>4. ppc' \in [Publications -> {"idle", "publish", "again", "mark", "done", "failed"}]
    BY <1>15 DEF MarkPublished
  <2>5. UNCHANGED <<tokens, name, slug, creating, updating, with>>
    BY <1>15 DEF MarkPublished
  <2> QED BY <2>1, <2>2, <2>3, <2>4, <2>5
<1>16. CASE UNCHANGED projectVars
  BY <1>16 DEF projectVars
<1> QED
  BY <1>1, <1>2, <1>3, <1>4, <1>5, <1>6, <1>7, <1>8, <1>9, <1>10, <1>11, <1>12, <1>13,
     <1>14, <1>15, <1>16 DEF Next, Create, Update, HandlePublish

\* No step takes a project away, and a request on its way holds a project, a name and a slug.
LEMMA RequestsStay ==
  TypeOK /\ SlugsAreSound /\ Wanting /\ Changing /\ Named /\ [Next]_projectVars
    => Wanting' /\ Changing' /\ Named'
<1> SUFFICES ASSUME TypeOK, SlugsAreSound, Wanting, Changing, Named, [Next]_projectVars
             PROVE  Wanting' /\ Changing' /\ Named'
  OBVIOUS
<1>0. /\ wanted \in [Creations -> Names \cup {None}] /\ tried \in [Creations -> 0 .. MaxTries]
      /\ cpc \in [Creations -> {"idle", "slug", "count", "token", "insert", "done", "failed"}]
      /\ status \in [Creations -> {"none", "draft", "published"}]
      /\ name \in [Creations -> Names \cup {None}] /\ slug \in [Creations -> Seq(Nat)]
      /\ upc \in [Updates -> {"idle", "slug", "write", "done", "failed"}]
      /\ subject \in [Updates -> Creations \cup {None}]
      /\ newName \in [Updates -> Names \cup {None}] /\ newSlug \in [Updates -> Seq(Nat)]
      /\ retries \in [Updates -> 0 .. MaxTries]
  BY DEF TypeOK
<1>00. None \notin Names /\ MaxTries \in Nat /\ MaxTries >= 1
  BY ProjectsAssumption DEF ProjectsAssumption
<1> USE DEF tokens, rows, creating, updating, publishing
<1>1. ASSUME NEW c \in Creations, CreateToken(c) PROVE Wanting' /\ Changing' /\ Named'
  BY <1>0, <1>1 DEF CreateToken, Wanting, Changing, Named, Projects
<1>2. ASSUME NEW c \in Creations, CountActive(c) PROVE Wanting' /\ Changing' /\ Named'
  BY <1>0, <1>2 DEF CountActive, Wanting, Changing, Named, Projects
<1>3. ASSUME NEW c \in Creations, InsertToken(c) PROVE Wanting' /\ Changing' /\ Named'
  BY <1>0, <1>3 DEF InsertToken, Wanting, Changing, Named, Projects
<1>4. ASSUME NEW c \in Creations, TrySlug(c) PROVE Wanting' /\ Changing' /\ Named'
  <2>1. Wanting'
    BY <1>0, <1>4 DEF TrySlug, Wanting
  <2>2. Changing' /\ Named'
    BY <1>4 DEF TrySlug, Changing, Named, Projects
  <2> QED BY <2>1, <2>2
<1>5. ASSUME NEW c \in Creations, InsertProject(c) PROVE Wanting' /\ Changing' /\ Named'
  <2>1. Wanting'
    BY <1>0, <1>5 DEF InsertProject, Wanting
  <2>2. Projects \subseteq Projects' /\ UNCHANGED updating
    BY <1>0, <1>5 DEF InsertProject, Projects
  <2>3. Changing'
    BY <2>2 DEF Changing
  <2>4. Named'
    BY <1>0, <1>5 DEF InsertProject, Wanting, Named, Projects
  <2> QED BY <2>1, <2>3, <2>4
<1>6. ASSUME NEW c \in Creations, NEW n \in Names, CreateProject(c, n)
      PROVE  Wanting' /\ Changing' /\ Named'
  <2>1. Wanting'
    BY <1>0, <1>00, <1>6 DEF CreateProject, Wanting
  <2>2. Changing' /\ Named'
    BY <1>6 DEF CreateProject, Changing, Named, Projects
  <2> QED BY <2>1, <2>2
<1>7. ASSUME NEW c \in Creations, Revoke(c) PROVE Wanting' /\ Changing' /\ Named'
  BY <1>7 DEF Revoke, Wanting, Changing, Named, Projects
<1>8. ASSUME NEW c \in Creations, SyncPublishedStatus(c) PROVE Wanting' /\ Changing' /\ Named'
  <2>1. Projects' = Projects
    BY <1>0, <1>8 DEF SyncPublishedStatus, Projects
  <2> QED BY <1>8, <2>1 DEF SyncPublishedStatus, Wanting, Changing, Named
<1>9. ASSUME NEW u \in Updates, NEW c \in Creations, NEW n \in Names \cup {None},
             ReadProject(u, c, n)
      PROVE  Wanting' /\ Changing' /\ Named'
  <2>1. Wanting' /\ Named' /\ Projects' = Projects
    BY <1>9 DEF ReadProject, Wanting, Named, Projects
  <2>2. c \in Projects /\ name[c] # None /\ slug[c] \in SlugsOf(name[c])
    BY <1>9 DEF ReadProject, Named, SlugsAreSound
  <2>3. ASSUME NEW v \in Updates \ {u}
        PROVE  /\ upc'[v] = upc[v] /\ subject'[v] = subject[v] /\ newName'[v] = newName[v]
               /\ newSlug'[v] = newSlug[v] /\ retries'[v] = retries[v]
    BY <1>0, <1>9 DEF ReadProject
  <2>4. /\ subject'[u] = c /\ retries'[u] = 1 /\ newSlug'[u] = slug[c]
        /\ newName'[u] = IF n = None THEN name[c] ELSE n
        /\ upc'[u] = IF n \in {None, name[c]} THEN "write" ELSE "slug"
    BY <1>0, <1>9 DEF ReadProject
  <2>5. upc'[u] = "write" => newName'[u] = name[c]
    BY <2>4
  <2>6. Changing'
    BY <2>1, <2>2, <2>3, <2>4, <2>5 DEF Changing, SlugsOf
  <2> QED BY <2>1, <2>6
<1>10. ASSUME NEW u \in Updates, RetrySlug(u) PROVE Wanting' /\ Changing' /\ Named'
  <2>1. Wanting' /\ Named' /\ Projects' = Projects
    BY <1>10 DEF RetrySlug, Wanting, Named, Projects
  <2>2. /\ subject[u] \in Projects /\ newName[u] # None /\ retries[u] \in 1 .. MaxTries
    BY <1>0, <1>10 DEF RetrySlug, Changing
  <2>3. ASSUME NEW v \in Updates \ {u}
        PROVE  /\ upc'[v] = upc[v] /\ newSlug'[v] = newSlug[v] /\ retries'[v] = retries[v]
    BY <1>0, <1>10 DEF RetrySlug
  <2>4. UNCHANGED <<subject, newName>>
    BY <1>10 DEF RetrySlug
  <2>5. retries'[u] # 0
    BY <1>0, <1>10, <2>2 DEF RetrySlug
  <2>6. upc'[u] = "write" => newSlug'[u] = Candidate(newName[u], retries[u])
    BY <1>0, <1>10 DEF RetrySlug
  <2>7. upc'[u] = "write" => newSlug'[u] \in SlugsOf(newName[u])
    BY <2>2, <2>6 DEF SlugsOf
  <2>8. Changing'
    BY <2>1, <2>2, <2>3, <2>4, <2>5, <2>7 DEF Changing, SlugsOf
  <2> QED BY <2>1, <2>8
<1>11. ASSUME NEW u \in Updates, WriteProject(u) PROVE Wanting' /\ Changing' /\ Named'
  <2>1. Wanting'
    BY <1>11 DEF WriteProject, Wanting
  <2>2. Projects' = Projects /\ UNCHANGED <<subject, newName, newSlug, retries>>
    BY <1>11 DEF WriteProject, Projects
  <2>3. \A v \in Updates : upc'[v] \in {"slug", "write"} => upc'[v] = upc[v]
    BY <1>0, <1>11 DEF WriteProject
  <2>4. Changing'
    BY <2>2, <2>3 DEF Changing, SlugsOf
  <2>5. newName[u] # None
    BY <1>11 DEF WriteProject, Changing
  <2>6. Named'
    BY <1>0, <1>11, <2>2, <2>5 DEF WriteProject, Named, Projects
  <2> QED BY <2>1, <2>4, <2>6
<1>12. ASSUME NEW q \in Publications, NEW c \in Creations, ResolveUser(q, c)
       PROVE  Wanting' /\ Changing' /\ Named'
  BY <1>12 DEF ResolveUser, Wanting, Changing, Named, Projects
<1>13. ASSUME NEW q \in Publications, PublishSchema(q) PROVE Wanting' /\ Changing' /\ Named'
  BY <1>13 DEF PublishSchema, Wanting, Changing, Named, Projects
<1>14. ASSUME NEW q \in Publications, ResolveToken(q) PROVE Wanting' /\ Changing' /\ Named'
  BY <1>14 DEF ResolveToken, Wanting, Changing, Named, Projects
<1>15. ASSUME NEW q \in Publications, MarkPublished(q) PROVE Wanting' /\ Changing' /\ Named'
  <2>1. Projects' = Projects
    BY <1>0, <1>15 DEF MarkPublished, Projects
  <2> QED BY <1>15, <2>1 DEF MarkPublished, Wanting, Changing, Named
<1>16. CASE UNCHANGED projectVars
  BY <1>16 DEF projectVars, Wanting, Changing, Named, Projects
<1> QED
  BY <1>1, <1>2, <1>3, <1>4, <1>5, <1>6, <1>7, <1>8, <1>9, <1>10, <1>11, <1>12, <1>13,
     <1>14, <1>15, <1>16 DEF Next, Create, Update, HandlePublish

\* A step that leaves the rows alone leaves the slugs sound.
LEMMA SameRows ==
  ASSUME SlugsAreSound, UNCHANGED <<name, slug>>, Projects' = Projects
  PROVE  SlugsAreSound'
  BY DEF SlugsAreSound

\* Both writes look at the slugs of all other projects, and write a slug of the name they write.
LEMMA SlugsStay ==
  TypeOK /\ SlugsAreSound /\ Wanting /\ Changing /\ [Next]_projectVars => SlugsAreSound'
<1> SUFFICES ASSUME TypeOK, SlugsAreSound, Wanting, Changing, [Next]_projectVars
             PROVE  SlugsAreSound'
  OBVIOUS
<1>0. /\ wanted \in [Creations -> Names \cup {None}] /\ tried \in [Creations -> 0 .. MaxTries]
      /\ status \in [Creations -> {"none", "draft", "published"}]
      /\ name \in [Creations -> Names \cup {None}] /\ slug \in [Creations -> Seq(Nat)]
  BY DEF TypeOK
<1> USE DEF rows
<1>1. ASSUME NEW c \in Creations, CreateToken(c) \/ CountActive(c) \/ InsertToken(c) \/ TrySlug(c)
                                 \/ Revoke(c) \/ \E n \in Names : CreateProject(c, n)
      PROVE  SlugsAreSound'
  <2>1. UNCHANGED rows
    BY <1>1 DEF CreateToken, CountActive, InsertToken, TrySlug, Revoke, CreateProject
  <2> QED BY <2>1, SameRows DEF Projects
<1>2. ASSUME NEW c \in Creations, InsertProject(c) PROVE SlugsAreSound'
  <2> DEFINE s == Candidate(wanted[c], tried[c])
  <2>1. CASE UNCHANGED <<status, name, slug>>
    BY <2>1, SameRows DEF Projects
  <2>2. CASE /\ ~SlugExists(s)
             /\ status' = [status EXCEPT ![c] = "draft"]
             /\ name' = [name EXCEPT ![c] = wanted[c]]
             /\ slug' = [slug EXCEPT ![c] = s]
    <3>1. wanted[c] # None /\ tried[c] \in 1 .. MaxTries
      BY <1>0, <1>2, ProjectsAssumption DEF InsertProject, Wanting, ProjectsAssumption
    <3>2. s \in SlugsOf(wanted[c])
      BY <3>1 DEF SlugsOf
    <3> HIDE DEF s
    <3>3. Projects' = Projects \cup {c} /\ slug'[c] = s /\ name'[c] = wanted[c]
      BY <1>0, <2>2 DEF Projects
    <3>4. ASSUME NEW d \in Projects', d # c
          PROVE  d \in Projects /\ slug'[d] = slug[d] /\ name'[d] = name[d] /\ slug[d] # s
      BY <1>0, <2>2, <3>3, <3>4 DEF SlugExists, Projects
    <3> QED BY <3>2, <3>3, <3>4 DEF SlugsAreSound
  <2> QED BY <1>2, <2>1, <2>2 DEF InsertProject
<1>3. ASSUME NEW c \in Creations, SyncPublishedStatus(c) PROVE SlugsAreSound'
  <2>1. Projects' = Projects /\ UNCHANGED <<name, slug>>
    BY <1>0, <1>3 DEF SyncPublishedStatus, Projects
  <2> QED BY <2>1, SameRows
<1>4. ASSUME NEW u \in Updates, NEW c \in Creations, NEW n \in Names \cup {None},
             ReadProject(u, c, n)
      PROVE  SlugsAreSound'
  <2>1. UNCHANGED rows
    BY <1>4 DEF ReadProject
  <2> QED BY <2>1, SameRows DEF Projects
<1>5. ASSUME NEW u \in Updates, WriteProject(u) PROVE SlugsAreSound'
  <2> DEFINE c == subject[u]
  <2>1. c \in Projects /\ newSlug[u] \in SlugsOf(newName[u]) /\ Projects' = Projects
    BY <1>5 DEF WriteProject, Changing, Projects
  <2>2. CASE UNCHANGED <<name, slug>>
    BY <2>1, <2>2, SameRows
  <2>3. CASE /\ ~\E d \in Projects \ {c} : slug[d] = newSlug[u]
             /\ name' = [name EXCEPT ![c] = newName[u]]
             /\ slug' = [slug EXCEPT ![c] = newSlug[u]]
    <3>1. c \in Creations
      BY <2>1 DEF Projects
    <3> HIDE DEF c
    <3>2. slug'[c] = newSlug[u] /\ name'[c] = newName[u]
      BY <1>0, <2>3, <3>1
    <3>3. ASSUME NEW d \in Projects, d # c
          PROVE  slug'[d] = slug[d] /\ name'[d] = name[d] /\ slug[d] # newSlug[u]
      BY <1>0, <2>3, <3>3 DEF Projects
    <3> QED BY <2>1, <3>2, <3>3 DEF SlugsAreSound
  <2> QED BY <1>5, <2>2, <2>3 DEF WriteProject
<1>6. ASSUME NEW q \in Publications, NEW c \in Creations,
             ResolveUser(q, c)
      PROVE  SlugsAreSound'
  <2>1. UNCHANGED rows
    BY <1>6 DEF ResolveUser
  <2> QED BY <2>1, SameRows DEF Projects
<1>7. ASSUME NEW q \in Publications, PublishSchema(q) \/ ResolveToken(q) PROVE SlugsAreSound'
  <2>1. UNCHANGED rows
    BY <1>7 DEF PublishSchema, ResolveToken
  <2> QED BY <2>1, SameRows DEF Projects
<1>8. ASSUME NEW q \in Publications, MarkPublished(q) PROVE SlugsAreSound'
  <2>1. Projects' = Projects /\ UNCHANGED <<name, slug>>
    BY <1>0, <1>8 DEF MarkPublished, Projects
  <2> QED BY <2>1, SameRows
<1>9. ASSUME NEW u \in Updates, RetrySlug(u) PROVE SlugsAreSound'
  <2>1. UNCHANGED rows
    BY <1>9 DEF RetrySlug
  <2> QED BY <2>1, SameRows DEF Projects
<1>10. CASE UNCHANGED projectVars
  BY <1>10, SameRows DEF projectVars, Projects
<1> QED
  BY <1>1, <1>2, <1>3, <1>4, <1>5, <1>6, <1>7, <1>8, <1>9, <1>10
     DEF Next, Create, Update, HandlePublish

\* Nothing is there at first.
LEMMA Initially == Init => TypeOK /\ SlugsAreSound /\ Wanting /\ Changing /\ Named
<1> SUFFICES ASSUME Init PROVE TypeOK /\ SlugsAreSound /\ Wanting /\ Changing /\ Named
  OBVIOUS
<1>1. Projects = {}
  BY DEF Init, Projects
<1>2. SlugsAreSound /\ Named
  BY <1>1 DEF SlugsAreSound, Named
<1>3. Wanting /\ Changing
  BY DEF Init, Wanting, Changing
<1>4. <<>> \in Seq(Nat) /\ 0 \in 0 .. MaxTries /\ 0 \in 0 .. MaxFailures
  BY ProjectsAssumption DEF ProjectsAssumption
<1>5. TypeOK
  BY <1>4 DEF Init, TypeOK
<1> QED BY <1>2, <1>3, <1>5

\* However many requests create, rename and publish projects of a user at the same time, no
\* two projects share a slug, and ProjectService never writes the slug of one name with
\* another name.
THEOREM SlugsStaySound == Spec => []SlugsAreSound
<1> DEFINE Sound == TypeOK /\ SlugsAreSound /\ Wanting /\ Changing /\ Named
<1>1. Init => Sound
  BY Initially
<1>2. Sound /\ [Next]_projectVars => Sound'
  BY TypesStay, SlugsStay, RequestsStay
<1>3. Sound => SlugsAreSound
  OBVIOUS
<1> HIDE DEF Sound
<1> QED BY <1>1, <1>2, <1>3, PTL DEF Spec

\* Tables and requests hold only what the services put there.
THEOREM ProjectsTypeCorrect == Spec => []TypeOK
<1> DEFINE Sound == TypeOK /\ SlugsAreSound /\ Wanting /\ Changing /\ Named
<1>1. Init => Sound
  BY Initially
<1>2. Sound /\ [Next]_projectVars => Sound'
  BY TypesStay, SlugsStay, RequestsStay
<1>3. Sound => TypeOK
  OBVIOUS
<1> HIDE DEF Sound
<1> QED BY <1>1, <1>2, <1>3, PTL DEF Spec

---------------------------------------------------------------------------
\* The limit on tokens.

Counted == ActiveTokens \ overlapped

\* A creation that has counted and whose count nobody has made stale finds room.
RoomIsLeft ==
  /\ IsFiniteSet(ActiveTokens)
  /\ Cardinality(Counted) <= MaxPublishTokens
  /\ \A c \in Creations :
       cpc[c] = "token" /\ c \notin overlapped => Cardinality(Counted) < MaxPublishTokens

\* Fewer tokens and fewer counts leave room.
LEMMA LessLeavesRoom ==
  ASSUME RoomIsLeft, ActiveTokens' \subseteq ActiveTokens, overlapped' = overlapped,
         \A c \in Creations : cpc'[c] = "token" => cpc[c] = "token"
  PROVE  RoomIsLeft'
<1>1. IsFiniteSet(ActiveTokens') /\ IsFiniteSet(Counted) /\ IsFiniteSet(Counted')
  BY FS_Subset DEF RoomIsLeft, Counted
<1>2. Cardinality(Counted') <= Cardinality(Counted)
  BY <1>1, FS_Subset DEF Counted
<1>3. Cardinality(Counted) \in Nat /\ Cardinality(Counted') \in Nat /\ MaxPublishTokens \in Nat
  BY <1>1, FS_CardinalityType, ProjectsAssumption DEF ProjectsAssumption
<1>4. Cardinality(Counted') <= MaxPublishTokens
  BY <1>2, <1>3 DEF RoomIsLeft
<1>5. ASSUME NEW c \in Creations, cpc'[c] = "token", c \notin overlapped'
      PROVE  Cardinality(Counted') < MaxPublishTokens
  <2>1. Cardinality(Counted) < MaxPublishTokens
    BY <1>5 DEF RoomIsLeft
  <2> QED BY <2>1, <1>2, <1>3
<1> QED
  BY <1>1, <1>4, <1>5 DEF RoomIsLeft

\* A count below the limit leaves room for its creation.
LEMMA CountKeepsRoom ==
  ASSUME TypeOK, RoomIsLeft, NEW c \in Creations, CountActive(c)
  PROVE  RoomIsLeft'
<1>1. ActiveTokens' = ActiveTokens /\ overlapped' = overlapped
  BY DEF CountActive, tokens, ActiveTokens
<1>2. Counted' = Counted
  BY <1>1 DEF Counted
<1>3. IsFiniteSet(ActiveTokens) /\ IsFiniteSet(Counted)
  BY FS_Subset DEF RoomIsLeft, Counted
<1>4. Cardinality(Counted) <= Cardinality(ActiveTokens)
  BY <1>3, FS_Subset DEF Counted
<1>5. /\ Cardinality(Counted) \in Nat /\ Cardinality(ActiveTokens) \in Nat
      /\ MaxPublishTokens \in Nat
  BY <1>3, FS_CardinalityType, ProjectsAssumption DEF ProjectsAssumption
<1>6. ASSUME cpc'[c] = "token" PROVE Cardinality(Counted) < MaxPublishTokens
  <2>1. ~(Cardinality(ActiveTokens) >= MaxPublishTokens)
    BY <1>6 DEF CountActive, TypeOK
  <2> QED BY <2>1, <1>4, <1>5
<1>7. \A d \in Creations \ {c} : cpc'[d] = cpc[d]
  BY DEF CountActive, TypeOK
<1> QED
  BY <1>1, <1>2, <1>3, <1>6, <1>7 DEF RoomIsLeft

\* An insert takes the room its count has found, and makes all other counts stale.
LEMMA InsertKeepsRoom ==
  ASSUME TypeOK, RoomIsLeft, NEW c \in Creations, InsertToken(c)
  PROVE  RoomIsLeft'
<1>1. ActiveTokens' = ActiveTokens \cup {c} /\ overlapped \subseteq overlapped'
  BY DEF InsertToken, TypeOK, ActiveTokens
<1>2. IsFiniteSet(ActiveTokens') /\ IsFiniteSet(Counted)
  BY <1>1, FS_AddElement, FS_Subset DEF RoomIsLeft, Counted
<1>3. IsFiniteSet(Counted')
  BY <1>2, FS_Subset DEF Counted
<1>4. /\ Cardinality(Counted) \in Nat /\ Cardinality(Counted') \in Nat
      /\ MaxPublishTokens \in Nat
  BY <1>2, <1>3, FS_CardinalityType, ProjectsAssumption DEF ProjectsAssumption
<1>5. Cardinality(Counted') <= MaxPublishTokens
  <2>1. CASE c \in overlapped
    <3>1. Counted' \in SUBSET Counted
      BY <1>1, <2>1 DEF Counted
    <3>2. Cardinality(Counted') <= Cardinality(Counted)
      BY <1>2, <3>1, FS_Subset
    <3> QED BY <3>2, <1>4 DEF RoomIsLeft
  <2>2. CASE c \notin overlapped
    <3>1. Counted' \in SUBSET (Counted \cup {c})
      BY <1>1 DEF Counted
    <3>2. /\ IsFiniteSet(Counted \cup {c})
          /\ Cardinality(Counted \cup {c}) <= Cardinality(Counted) + 1
      <4>1. /\ IsFiniteSet(Counted \cup {c})
            /\ Cardinality(Counted \cup {c}) =
                 IF c \in Counted THEN Cardinality(Counted) ELSE Cardinality(Counted) + 1
        BY <1>2, FS_AddElement
      <4>2. CASE c \in Counted
        BY <4>1, <4>2, <1>4
      <4>3. CASE c \notin Counted
        BY <4>1, <4>3, <1>4
      <4> QED BY <4>2, <4>3
    <3>3. Cardinality(Counted') <= Cardinality(Counted \cup {c})
      BY <3>1, <3>2, FS_Subset
    <3>4. Cardinality(Counted) < MaxPublishTokens
      BY <2>2 DEF RoomIsLeft, InsertToken
    <3>5. Cardinality(Counted \cup {c}) \in Nat
      BY <3>2, FS_CardinalityType
    <3> QED BY <3>2, <3>3, <3>4, <3>5, <1>4
  <2> QED BY <2>1, <2>2
<1>6. \A d \in Creations : cpc'[d] = "token" => d \in overlapped'
  BY DEF InsertToken, TypeOK
<1> QED
  BY <1>2, <1>5, <1>6 DEF RoomIsLeft

\* No other step creates a token or counts.
LEMMA RoomStays == TypeOK /\ RoomIsLeft /\ [Next]_projectVars => RoomIsLeft'
<1> SUFFICES ASSUME TypeOK, RoomIsLeft, [Next]_projectVars PROVE RoomIsLeft'
  OBVIOUS
<1> USE DEF tokens, creating
<1>1. ASSUME NEW c \in Creations,
             \/ CreateToken(c) \/ TrySlug(c) \/ InsertProject(c)
             \/ \E n \in Names : CreateProject(c, n)
      PROVE  RoomIsLeft'
  <2>1. ActiveTokens' \subseteq ActiveTokens /\ overlapped' = overlapped
    BY <1>1 DEF CreateToken, TrySlug, InsertProject, CreateProject, ActiveTokens
  <2>2. \A d \in Creations : cpc'[d] = "token" => cpc[d] = "token"
    BY <1>1 DEF CreateToken, TrySlug, InsertProject, CreateProject, TypeOK
  <2> QED BY <2>1, <2>2, LessLeavesRoom
<1>2. ASSUME NEW c \in Creations, Revoke(c) \/ SyncPublishedStatus(c) PROVE RoomIsLeft'
  <2>1. ActiveTokens' \subseteq ActiveTokens /\ overlapped' = overlapped /\ cpc' = cpc
    BY <1>2 DEF Revoke, SyncPublishedStatus, ActiveTokens, TypeOK
  <2> QED BY <2>1, LessLeavesRoom
<1>3. ASSUME NEW u \in Updates, Update(u) PROVE RoomIsLeft'
  <2>1. ActiveTokens' \subseteq ActiveTokens /\ overlapped' = overlapped /\ cpc' = cpc
    BY <1>3 DEF Update, RetrySlug, WriteProject, ReadProject, ActiveTokens
  <2> QED BY <2>1, LessLeavesRoom
<1>4. ASSUME NEW q \in Publications, HandlePublish(q) PROVE RoomIsLeft'
  <2>1. ActiveTokens' \subseteq ActiveTokens /\ overlapped' = overlapped /\ cpc' = cpc
    BY <1>4 DEF HandlePublish, PublishSchema, ResolveToken, MarkPublished, ResolveUser,
                ActiveTokens
  <2> QED BY <2>1, LessLeavesRoom
<1>5. CASE UNCHANGED projectVars
  <2>1. ActiveTokens' \subseteq ActiveTokens /\ overlapped' = overlapped /\ cpc' = cpc
    BY <1>5 DEF projectVars, ActiveTokens
  <2> QED BY <2>1, LessLeavesRoom
<1> QED
  BY <1>1, <1>2, <1>3, <1>4, <1>5, CountKeepsRoom, InsertKeepsRoom DEF Next, Create

\* A user never gets more active tokens than the limit, whatever the limit and however many
\* requests: only a creation that ran at the same time as another can go beyond it.
THEOREM TokensStayLimited == Spec => []TokensAreLimited
<1> DEFINE Sound == TypeOK /\ SlugsAreSound /\ Wanting /\ Changing /\ Named
<1>1. Init => Sound /\ RoomIsLeft
  <2>1. ASSUME Init PROVE RoomIsLeft
    <3>1. ActiveTokens = {} /\ Counted = {}
      BY <2>1 DEF Init, ActiveTokens, Counted
    <3>2. IsFiniteSet(ActiveTokens) /\ Cardinality(Counted) = 0
      BY <3>1, FS_EmptySet
    <3> QED BY <2>1, <3>2, ProjectsAssumption DEF Init, RoomIsLeft, ProjectsAssumption
  <2> QED BY <2>1, Initially
<1>2. Sound /\ RoomIsLeft /\ [Next]_projectVars => Sound' /\ RoomIsLeft'
  BY TypesStay, SlugsStay, RequestsStay, RoomStays
<1>3. RoomIsLeft => TokensAreLimited
  BY DEF RoomIsLeft, Counted, TokensAreLimited
<1> HIDE DEF Sound
<1> QED BY <1>1, <1>2, <1>3, PTL DEF Spec

---------------------------------------------------------------------------
\* Publications.

\* What is known of a publication: its token is one whose creation has answered.  It uses the
\* token twice and then marks the project; the first use is noted or is among the failures
\* that were ignored, and the rest is done or takes one failure more.
SeenBy(q) ==
  LET c == with[q] IN
  /\ ppc[q] \in {"publish", "again", "mark", "done"} => c \in Creations /\ cpc[c] = "done"
  /\ ppc[q] \in {"publish", "again", "mark"} => used[c] \/ ignored >= 1
  /\ ppc[q] = "done" /\ c \in Projects /\ token[c] = "active" =>
       used[c] \/ status[c] = "published" \/ ignored >= 2

\* A project is there when its creation has answered.
Seen == (\A c \in Projects : cpc[c] = "done") /\ (\A q \in Publications : SeenBy(q))

\* What is used, published or ignored stays so, and once a creation has answered, neither its
\* project nor an active token of it comes into being.
Kept ==
  /\ \A c \in Creations :
       /\ used[c] => used'[c]
       /\ status[c] = "published" => status'[c] = "published"
       /\ cpc[c] = "done" =>
            /\ cpc'[c] = "done"
            /\ token'[c] = "active" => token[c] = "active"
            /\ status'[c] # "none" => status[c] # "none"
  /\ ignored' >= ignored
  /\ \A c \in Projects' : cpc'[c] = "done"

\* A use of a token counts, or is one more failure.
LEMMA TouchCounts ==
  ASSUME TypeOK, NEW c \in Creations, Touch(c)
  PROVE  /\ \A d \in Creations : used[d] => used'[d]
         /\ used'[c] \/ ignored' = ignored + 1
         /\ ignored \in Nat /\ ignored' >= ignored
<1>1. ignored \in Nat /\ used \in [Creations -> BOOLEAN]
  BY ProjectsAssumption DEF TypeOK, ProjectsAssumption
<1>2. CASE used' = [used EXCEPT ![c] = TRUE] /\ UNCHANGED ignored
  BY <1>1, <1>2
<1>3. CASE Ignore /\ UNCHANGED used
  BY <1>1, <1>3 DEF Ignore
<1> QED BY <1>2, <1>3 DEF Touch

\* What is known of a publication outlasts the steps of others.
LEMMA KeptSeen ==
  ASSUME TypeOK, TypeOK', Kept, NEW q \in Publications, SeenBy(q),
         ppc'[q] = ppc[q], with'[q] = with[q]
  PROVE  SeenBy(q)'
<1> DEFINE c == with[q]
<1>1. ignored \in Nat /\ ignored' \in Nat /\ ignored' >= ignored
  BY ProjectsAssumption DEF TypeOK, Kept, ProjectsAssumption
<1>2. ppc[q] \in {"publish", "again", "mark", "done"} => c \in Creations /\ cpc[c] = "done"
  BY DEF SeenBy
<1>3. c \in Creations /\ cpc[c] = "done" =>
        /\ cpc'[c] = "done" /\ (used[c] => used'[c])
        /\ status[c] = "published" => status'[c] = "published"
        /\ c \in Projects' /\ token'[c] = "active" => c \in Projects /\ token[c] = "active"
  BY DEF Kept, Projects
<1> HIDE DEF Kept
<1>4. ppc[q] \in {"publish", "again", "mark"} => used'[c] \/ ignored' >= 1
  BY <1>1, <1>2, <1>3 DEF SeenBy
<1>5. ppc[q] = "done" /\ c \in Projects' /\ token'[c] = "active" =>
        used'[c] \/ status'[c] = "published" \/ ignored' >= 2
  BY <1>1, <1>2, <1>3 DEF SeenBy
<1> QED
  BY <1>2, <1>3, <1>4, <1>5 DEF SeenBy

\* No step takes anything back: rows are inserted by requests that have not answered, a use is
\* never unmarked, and a status only becomes "published".
LEMMA StepsKeep == TypeOK /\ TypeOK' /\ Seen /\ [Next]_projectVars => Kept
<1> SUFFICES ASSUME TypeOK, TypeOK', Seen, [Next]_projectVars PROVE Kept
  OBVIOUS
<1>0. /\ token \in [Creations -> {"none", "active", "revoked"}]
      /\ used \in [Creations -> BOOLEAN]
      /\ status \in [Creations -> {"none", "draft", "published"}]
      /\ cpc \in [Creations -> {"idle", "slug", "count", "token", "insert", "done", "failed"}]
      /\ ignored \in Nat
  BY ProjectsAssumption DEF TypeOK, ProjectsAssumption
<1>00. \A c \in Creations : status[c] # "none" => cpc[c] = "done"
  BY DEF Seen, Projects
<1> USE DEF tokens, rows, creating, updating, publishing
<1>1. ASSUME NEW c \in Creations,
             CreateToken(c) \/ CountActive(c) \/ TrySlug(c) \/ \E n \in Names : CreateProject(c, n)
      PROVE  Kept
  <2>1. UNCHANGED <<token, used, status, ignored>>
    BY <1>1 DEF CreateToken, CountActive, TrySlug, CreateProject
  <2>2. \A d \in Creations : cpc[d] = "done" => cpc'[d] = "done"
    BY <1>0, <1>1 DEF CreateToken, CountActive, TrySlug, CreateProject
  <2> QED BY <1>0, <1>00, <2>1, <2>2 DEF Kept, Projects
<1>2. ASSUME NEW c \in Creations, InsertToken(c) PROVE Kept
  <2>1. UNCHANGED <<used, status, ignored>> /\ cpc[c] = "token"
    BY <1>2 DEF InsertToken
  <2>2. \A d \in Creations : cpc[d] = "done" => cpc'[d] = "done" /\ token'[d] = token[d]
    BY <1>0, <1>2 DEF InsertToken
  <2> QED BY <1>0, <1>00, <2>1, <2>2 DEF Kept, Projects
<1>3. ASSUME NEW c \in Creations, InsertProject(c) PROVE Kept
  <2>1. UNCHANGED <<used, token, ignored>> /\ cpc[c] = "insert"
    BY <1>3 DEF InsertProject
  <2>2. \A d \in Creations \ {c} : cpc'[d] = cpc[d] /\ status'[d] = status[d]
    BY <1>0, <1>3 DEF InsertProject
  <2>3. status'[c] = status[c] \/ cpc'[c] = "done"
    BY <1>0, <1>3 DEF InsertProject
  <2> QED BY <1>0, <1>00, <2>1, <2>2, <2>3 DEF Kept, Projects
<1>4. ASSUME NEW c \in Creations, Revoke(c) PROVE Kept
  <2>1. UNCHANGED <<used, status, cpc, ignored>>
    BY <1>4 DEF Revoke
  <2>2. \A d \in Creations : token'[d] = "active" => token[d] = "active"
    BY <1>0, <1>4 DEF Revoke
  <2> QED BY <1>0, <1>00, <2>1, <2>2 DEF Kept, Projects
<1>5. ASSUME NEW c \in Creations, SyncPublishedStatus(c) PROVE Kept
  <2>1. UNCHANGED <<used, token, cpc, ignored>> /\ status[c] = "draft"
    BY <1>5 DEF SyncPublishedStatus
  <2>2. \A d \in Creations : status'[d] = status[d] \/ (d = c /\ status'[d] = "published")
    BY <1>0, <1>5 DEF SyncPublishedStatus
  <2> QED BY <1>0, <1>00, <2>1, <2>2 DEF Kept, Projects
<1>6. ASSUME NEW u \in Updates, Update(u) PROVE Kept
  <2>1. UNCHANGED <<token, used, status, cpc, ignored>>
    BY <1>6 DEF Update, RetrySlug, WriteProject, ReadProject
  <2> QED BY <1>0, <1>00, <2>1 DEF Kept, Projects
<1>7. ASSUME NEW q \in Publications, PublishSchema(q) PROVE Kept
  <2>1. UNCHANGED <<token, used, status, cpc, ignored>>
    BY <1>7 DEF PublishSchema
  <2> QED BY <1>0, <1>00, <2>1 DEF Kept, Projects
<1>8. ASSUME NEW q \in Publications, ResolveToken(q) PROVE Kept
  <2>1. UNCHANGED <<token, status, cpc>>
    BY <1>8 DEF ResolveToken
  <2>2. (\A d \in Creations : used[d] => used'[d]) /\ ignored' >= ignored
    <3>1. CASE UNCHANGED <<used, ignored>>
      BY <1>0, <3>1
    <3>2. CASE token[with[q]] = "active" /\ Touch(with[q])
      <4>1. with[q] \in Creations
        BY <1>8 DEF Seen, SeenBy, ResolveToken
      <4> QED BY <3>2, <4>1, TouchCounts
    <3>3. CASE Ignore /\ UNCHANGED used
      BY <1>0, <3>3 DEF Ignore
    <3> QED BY <1>8, <3>1, <3>2, <3>3 DEF ResolveToken
  <2> QED BY <1>0, <1>00, <2>1, <2>2 DEF Kept, Projects
<1>9. ASSUME NEW q \in Publications, MarkPublished(q) PROVE Kept
  <2>1. UNCHANGED <<token, used, cpc>> /\ ignored' >= ignored
    BY <1>0, <1>9 DEF MarkPublished, Ignore
  <2>2. \A d \in Creations : status'[d] = status[d] \/ (status[d] # "none" /\ status'[d] = "published")
    BY <1>0, <1>9 DEF MarkPublished, Projects
  <2> QED BY <1>0, <1>00, <2>1, <2>2 DEF Kept, Projects
<1>10. ASSUME NEW q \in Publications, NEW c \in Creations, ResolveUser(q, c) PROVE Kept
  <2>1. UNCHANGED <<token, status, cpc>> /\ Touch(c)
    BY <1>10 DEF ResolveUser
  <2>2. (\A d \in Creations : used[d] => used'[d]) /\ ignored' >= ignored
    BY <2>1, TouchCounts
  <2> QED BY <1>0, <1>00, <2>1, <2>2 DEF Kept, Projects
<1>11. CASE UNCHANGED projectVars
  <2>1. UNCHANGED <<token, used, status, cpc, ignored>>
    BY <1>11 DEF projectVars
  <2> QED BY <1>0, <1>00, <2>1 DEF Kept, Projects
<1> QED
  BY <1>1, <1>2, <1>3, <1>4, <1>5, <1>6, <1>7, <1>8, <1>9, <1>10, <1>11
     DEF Next, Create, HandlePublish

\* A publication takes its token from one that has answered, and each of its three statements
\* has its effect or is one more failure.
LEMMA SeenStays == TypeOK /\ TypeOK' /\ Seen /\ [Next]_projectVars => Seen'
<1> SUFFICES ASSUME TypeOK, TypeOK', Seen, [Next]_projectVars PROVE Seen'
  OBVIOUS
<1>0. /\ used \in [Creations -> BOOLEAN] /\ ignored \in Nat /\ ignored' \in Nat
      /\ status \in [Creations -> {"none", "draft", "published"}]
      /\ ppc \in [Publications -> {"idle", "publish", "again", "mark", "done", "failed"}]
      /\ with \in [Publications -> Creations \cup {None}]
  BY ProjectsAssumption DEF TypeOK, ProjectsAssumption
<1>1. Kept
  BY StepsKeep
<1>2. ASSUME NEW q \in Publications, ppc'[q] = ppc[q], with'[q] = with[q] PROVE SeenBy(q)'
  BY <1>1, <1>2, KeptSeen DEF Seen
<1> USE DEF tokens, rows, creating, updating, publishing
<1>3. ASSUME NEW q \in Publications, NEW c \in Creations, ResolveUser(q, c) PROVE SeenBy(q)'
  <2>1. /\ with'[q] = c /\ ppc'[q] = "publish" /\ cpc'[c] = "done" /\ Touch(c)
    BY <1>0, <1>3 DEF ResolveUser
  <2>2. used'[c] \/ ignored' >= 1
    BY <1>0, <2>1, TouchCounts
  <2> QED BY <2>1, <2>2 DEF SeenBy
<1>4. ASSUME NEW q \in Publications, PublishSchema(q) PROVE SeenBy(q)'
  <2>1. /\ with' = with /\ cpc' = cpc /\ used' = used /\ ignored' = ignored
        /\ ppc[q] = "publish" /\ ppc'[q] \in {"again", "failed"}
    BY <1>0, <1>4 DEF PublishSchema
  <2>2. SeenBy(q)
    BY DEF Seen
  <2> QED BY <2>1, <2>2 DEF SeenBy
<1>5. ASSUME NEW q \in Publications, ResolveToken(q) PROVE SeenBy(q)'
  <2> DEFINE c == with[q]
  <2>1. with' = with /\ cpc' = cpc /\ token' = token /\ ppc[q] = "again"
    BY <1>5 DEF ResolveToken
  <2>2. c \in Creations /\ cpc[c] = "done" /\ (used[c] \/ ignored >= 1)
    BY <2>1 DEF Seen, SeenBy
  <2>3. CASE Touch(c) /\ ppc' = [ppc EXCEPT ![q] = "mark"]
    <3>1. ppc'[q] = "mark"
      BY <1>0, <2>3
    <3>2. used'[c] \/ ignored' >= 1
      BY <1>0, <2>2, <2>3, TouchCounts
    <3> QED BY <2>1, <2>2, <3>1, <3>2 DEF SeenBy
  <2>4. CASE token[c] # "active" /\ ppc' = [ppc EXCEPT ![q] = "done"]
    <3>1. ppc'[q] = "done"
      BY <1>0, <2>4
    <3> QED BY <2>1, <2>2, <2>4, <3>1 DEF SeenBy
  <2>5. CASE Ignore /\ UNCHANGED used /\ ppc' = [ppc EXCEPT ![q] = "done"]
    <3>1. ppc'[q] = "done" /\ (used'[c] \/ ignored' >= 2)
      BY <1>0, <2>2, <2>5 DEF Ignore
    <3> QED BY <2>1, <2>2, <3>1 DEF SeenBy
  <2> QED BY <1>5, <2>3, <2>4, <2>5 DEF ResolveToken
<1>6. ASSUME NEW q \in Publications, MarkPublished(q) PROVE SeenBy(q)'
  <2> DEFINE c == with[q]
  <2>1. /\ with' = with /\ cpc' = cpc /\ used' = used
        /\ ppc[q] = "mark" /\ ppc'[q] = "done"
    BY <1>0, <1>6 DEF MarkPublished
  <2>2. c \in Creations /\ cpc[c] = "done" /\ (used[c] \/ ignored >= 1)
    BY <2>1 DEF Seen, SeenBy
  <2>3. \/ status'[c] = "published"
        \/ c \notin Projects'
        \/ ignored' = ignored + 1
    BY <1>0, <1>6, <2>2 DEF MarkPublished, Ignore, Projects
  <2> QED BY <1>0, <2>1, <2>2, <2>3 DEF SeenBy
<1>7. ASSUME NEW q \in Publications, NEW p \in Publications, p # q, HandlePublish(q)
      PROVE  ppc'[p] = ppc[p] /\ with'[p] = with[p]
  BY <1>0, <1>7 DEF HandlePublish, PublishSchema, ResolveToken, MarkPublished, ResolveUser
<1>8. ASSUME NEW q \in Publications, HandlePublish(q) PROVE \A p \in Publications : SeenBy(p)'
  BY <1>2, <1>3, <1>4, <1>5, <1>6, <1>7, <1>8 DEF HandlePublish
<1>9. ASSUME UNCHANGED publishing PROVE \A p \in Publications : SeenBy(p)'
  BY <1>2, <1>9
<1>10. (\E q \in Publications : HandlePublish(q)) \/ UNCHANGED publishing
  BY DEF Next, Create, CreateToken, CountActive, InsertToken, TrySlug, InsertProject,
         CreateProject, Revoke, SyncPublishedStatus, Update, RetrySlug, WriteProject, ReadProject,
         projectVars
<1>11. \A p \in Publications : SeenBy(p)'
  BY <1>8, <1>9, <1>10
<1> QED
  BY <1>1, <1>11 DEF Seen, Kept

\* A contract is written by MarkPublished alone, and only where there is none.
LEMMA ContractsStay ==
  TypeOK /\ [Next]_projectVars =>
    \A c \in Creations : contract[c] # None => contract'[c] = contract[c]
<1> SUFFICES ASSUME TypeOK, [Next]_projectVars
             PROVE  \A c \in Creations : contract[c] # None => contract'[c] = contract[c]
  OBVIOUS
<1>1. ASSUME NEW q \in Publications, MarkPublished(q)
      PROVE  \A c \in Creations : contract[c] # None => contract'[c] = contract[c]
  BY <1>1 DEF MarkPublished, TypeOK
<1>2. (\E q \in Publications : MarkPublished(q)) \/ UNCHANGED contract
  BY DEF Next, Create, CreateToken, CountActive, InsertToken, TrySlug, InsertProject,
         CreateProject, Revoke, SyncPublishedStatus, Update, RetrySlug, WriteProject, ReadProject,
         HandlePublish, PublishSchema, ResolveToken, ResolveUser, projectVars, rows
<1> QED BY <1>1, <1>2

\* When a publication has answered, its project shows it or can be repaired from the token,
\* unless two statements have failed; and no request, publications and renames
\* included, takes the status or the first contract of a project away.
THEOREM PublicationsStayVisible == Spec => PublicationShows
<1> DEFINE Sound == TypeOK /\ SlugsAreSound /\ Wanting /\ Changing /\ Named /\ Seen
<1>1. Init => Sound
  <2>1. ASSUME Init PROVE Seen
    BY <2>1 DEF Init, Seen, SeenBy, Projects
  <2> QED BY <2>1, Initially
<1>2. Sound /\ [Next]_projectVars => Sound'
  BY TypesStay, SlugsStay, RequestsStay, SeenStays
<1>3. Sound => PublicationSeen
  <2> SUFFICES ASSUME Sound, NEW q \in Publications, ppc[q] = "done", ignored <= 1,
                      with[q] \in Projects, token[with[q]] = "active"
               PROVE  used[with[q]] \/ status[with[q]] = "published"
    BY DEF PublicationSeen
  <2>1. ignored \in Nat
    BY ProjectsAssumption DEF TypeOK, ProjectsAssumption
  <2> QED BY <2>1 DEF Seen, SeenBy
<1>4. ASSUME Sound, [Next]_projectVars
      PROVE  \A c \in Projects :
               /\ status[c] = "published" => status'[c] = "published"
               /\ contract[c] # None => contract'[c] = contract[c]
  <2>1. Kept
    BY <1>4, TypesStay, StepsKeep
  <2> QED BY <1>4, <2>1, ContractsStay DEF Kept, Projects
<1> HIDE DEF Sound
<1>5. Sound /\ [Next]_projectVars =>
        [\A c \in Projects :
           /\ status[c] = "published" => status'[c] = "published"
           /\ contract[c] # None => contract'[c] = contract[c]]_projectVars
  BY <1>4
<1> QED BY <1>1, <1>2, <1>3, <1>5, PTL DEF Spec, PublicationShows, PublishedStays

=============================================================================
