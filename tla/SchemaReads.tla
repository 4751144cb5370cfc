---------------------------- MODULE SchemaReads -----------------------------
(***************************************************************************)
(* What the registry shows of one contract on one network, and how an      *)
(* event of it is decoded.  The rows of event_schemas change by the        *)
(* statements that SchemaRegistry models step by step; here each is one    *)
(* action, and the subject is what the readers make of the rows: bundles   *)
(* of versions published together (SchemaBundleService), the button that   *)
(* offers a verification (VerifyService), and the schema that a decode     *)
(* with or without an event name picks (DecodeService).                    *)
(*                                                                         *)
(* Event names are numbers, ordered as the names are.                      *)
(***************************************************************************)
EXTENDS Decoder, Listings, SequencesExt

CONSTANTS
  Publishers,
  Bodies,       \* the bodies they publish
  Events,       \* contract events: records of topics and a value
  Window,       \* publishBatchWindow
  MaxClock      \* bound: the time until which schemas are published

VARIABLES
  rows,  \* event_schemas
  time   \* the clock: no two statements run at the same time

readVars == <<rows, time>>

Init == rows = {} /\ time = 1

Published == {r \in rows : r.status = "published"}

EventNames == {b.name : b \in Bodies}

Of(p, e) == {r \in rows : r.publisher = p /\ r.event = e}

---------------------------------------------------------------------------
\* The statements that change the rows.

Publish(p, b) ==
  /\ time < MaxClock
  /\ ValidateSchemaBody(b.name, b)
  /\ rows' = rows \cup {[publisher |-> p, event |-> b.name,
                         version |-> Cardinality(Of(p, b.name)) + 1, tier |-> "community",
                         status |-> "published", created |-> time, updated |-> time, body |-> b]}
  /\ time' = time + 1

Elapse == time < MaxClock /\ time' = time + 1 /\ UNCHANGED rows

Verified(r) == [r EXCEPT !.tier = "verified", !.updated = time]

\* SchemaService.Verify: a second verified schema violates the unique index.
MarkVerified(r) ==
  /\ r \in Published
  /\ \A s \in Published \ {r} : ~(s.event = r.event /\ s.tier = "verified")
  /\ rows' = (rows \ {r}) \cup {Verified(r)}
  /\ UNCHANGED time

\* The latest community version of each event that a publisher has.
Targets(p) ==
  LET community == {r \in Published : r.publisher = p /\ r.tier = "community"} IN
  {r \in community : \A s \in community : s.event = r.event => s.version <= r.version}

\* VerifyContractForPublisher: what was verified makes room.
VerifyContract(p) ==
  LET replaced == {r \in Published : /\ r.tier = "verified"
                                     /\ \E t \in Targets(p) : t.event = r.event} IN
  /\ Targets(p) # {}
  /\ rows' = (rows \ (Targets(p) \cup replaced))
               \cup {Verified(t) : t \in Targets(p)}
               \cup {[r EXCEPT !.status = "archived", !.updated = time] : r \in replaced}
  /\ UNCHANGED time

---------------------------------------------------------------------------
\* Bundles: groupIntoBundles and its users.

ByCreation == InOrder(Published, LAMBDA r, s : r.created < s.created)

\* Mutant: the window begins anew with every schema.
SlidingBatches(batches, r) ==
  LET current == Last(batches) IN
  IF /\ batches # <<>> /\ r.publisher = Last(current).publisher
     /\ r.created - Last(current).created <= Window
    THEN Append(Front(batches), Append(current, r))
    ELSE Append(batches, <<r>>)

\* A schema joins the batch before it, or begins one of its own.
AddToBatches(batches, r) ==
  LET current == Last(batches) IN
  IF /\ batches # <<>> /\ r.publisher = Head(current).publisher
     /\ r.created - Head(current).created <= Window
    THEN Append(Front(batches), Append(current, r))
    ELSE Append(batches, <<r>>)

Greatest(S) == CHOOSE n \in S : \A k \in S : k <= n

FinalizeBundle(batch) ==
  [version  |-> Greatest({r.version : r \in ToSet(batch)}),
   created  |-> Head(batch).created,
   updated  |-> Greatest({r.updated : r \in ToSet(batch)}),
   verified |-> \E r \in ToSet(batch) : r.tier = "verified",
   events   |-> ToSet(batch)]

NewestFirst(a, b) ==
  a.version > b.version \/ (a.version = b.version /\ a.updated > b.updated)

\* The loop over the schemas in the order of their creation.
Batches ==
  LET sorted == ByCreation
      after[n \in 0 .. Len(sorted)] ==
        IF n = 0 THEN <<>> ELSE AddToBatches(after[n - 1], sorted[n]) IN
  after[Len(sorted)]

GroupIntoBundles == [i \in DOMAIN Batches |-> FinalizeBundle(Batches[i])]

\* GetContractProfile shows them in this order, and equal ones as they come.
Bundles ==
  LET found == GroupIntoBundles
      ShownBefore(i, j) == \/ NewestFirst(found[i], found[j])
                           \/ ~NewestFirst(found[j], found[i]) /\ i < j
      order == InOrder(DOMAIN found, ShownBefore) IN
  [i \in DOMAIN order |-> found[order[i]]]

\* GetBundleDetail: the first bundle of that version, or none.
FindBundleByVersion(v) ==
  LET found == {i \in DOMAIN Bundles : Bundles[i].version = v} IN
  IF found = {} THEN {} ELSE {Bundles[CHOOSE i \in found : \A j \in found : i <= j]}

ContractVerification == \E r \in Published : r.tier = "verified"

\* ListContracts and GetRegistrySummary.
ContractSummary ==
  [schemaCount |-> Len(GroupIntoBundles), eventCount |-> Cardinality(Published),
   isVerified |-> ContractVerification]

---------------------------------------------------------------------------
\* The button: buildContractPublications.

NewestOf(S) == {r \in S : \A s \in S : s.version <= r.version}

CanVerify(p) ==
  \E e \in EventNames :
    LET mine == Of(p, e) \cap Published
        verified == NewestOf({r \in mine : r.tier = "verified"}) IN
    \E c \in NewestOf({r \in mine : r.tier = "community"}) :
      \A v \in verified : v.version < c.version

---------------------------------------------------------------------------
\* Decoding: resolveSchema.

\* ORDER BY trust_tier DESC, version DESC, of which some row is the first.
FirstRows(S) ==
  LET preferred == IF \E r \in S : r.tier = "verified" THEN {r \in S : r.tier = "verified"} ELSE S
  IN NewestOf(preferred)

RowsOfEvent(e) == {r \in Published : r.event = e}

\* Mutant: the newest version, verified or not.
GetNewest(e, v) == NewestOf(RowsOfEvent(e))

\* A version that is asked for may be that of any publisher.
GetEventSchema(e, v) ==
  IF v > 0 THEN {r \in RowsOfEvent(e) : r.version = v} ELSE FirstRows(RowsOfEvent(e))

\* The names whose chosen row decodes the event, whichever of equally good rows it is.
CertainNames(event) ==
  {e \in EventNames : /\ RowsOfEvent(e) # {}
                      /\ \A r \in FirstRows(RowsOfEvent(e)) : Decoded(r.body, event)}

\* One row of each event, in the order of their names: the first that decodes is taken.
\* The set has several rows when two publishers' are equally good.
ListByContract(event) ==
  LET decoding == {e \in EventNames : \E r \in FirstRows(RowsOfEvent(e)) : Decoded(r.body, event)}
      reached  == {e \in decoding : \A d \in CertainNames(event) : e <= d} IN
  UNION {{r \in FirstRows(RowsOfEvent(e)) : Decoded(r.body, event)} : e \in reached}

Decoding(r) == [status |-> "decoded", schema |-> r]
Raw == [status |-> "raw"]
Failed == [status |-> "error"]

\* What Decode may answer for an event with a name, and perhaps a version.  Where no row has
\* them, the repository's ErrSchemaNotFound is not the one that resolveSchema looks for, and
\* the request fails.
DecodeNamed(event, e, v) ==
  IF GetEventSchema(e, v) = {} THEN {Failed}
  ELSE {IF Decoded(r.body, event) THEN Decoding(r) ELSE Raw : r \in GetEventSchema(e, v)}

\* What it may answer without a name.
DecodeUnnamed(event) ==
  {Decoding(r) : r \in ListByContract(event)}
    \cup IF CertainNames(event) = {} THEN {Raw} ELSE {}

---------------------------------------------------------------------------

Next ==
  \/ Elapse
  \/ \E p \in Publishers : VerifyContract(p) \/ \E b \in Bodies : Publish(p, b)
  \/ \E r \in rows : MarkVerified(r)

Spec == Init /\ [][Next]_readVars

---------------------------------------------------------------------------

\* The topics of an event, its value and what that holds.
Documents(event) ==
  ToSet(event.topics) \cup {event.value} \cup
    CASE event.value.tag = "vec" -> ToSet(event.value.val)
      [] event.value.tag = "map" -> {entry.v : entry \in ToSet(event.value.val)}
      [] OTHER -> {}

IsList(s) == Len(s) \in Nat /\ DOMAIN s = 1 .. Len(s)

\* What the JSON of a body and the XDR of an event hold where the decoder looks.
SchemasAssumption ==
  /\ MaxClock \in Nat \ {0} /\ Window \in Nat
  /\ MaxExact \in Nat /\ Int64Limit \in Nat /\ MaxExact < Int64Limit
  /\ OutOfRange \in {-Int64Limit, Int64Limit - 1}
  /\ \A b \in Bodies : b.name \in Nat /\ IsList(b.prefix) /\ IsList(ParamsOf(b))
  /\ \A e \in Events :
       /\ IsList(e.topics) /\ (e.value.tag \in {"vec", "map"} => IsList(e.value.val))
       /\ \A doc \in Documents(e) : doc.tag \in NumberTypes => doc.val \in Int

\* A row is of a publisher and an event, and is no newer than the clock.
TypeOK ==
  /\ time \in 1 .. MaxClock
  /\ \A r \in rows :
       /\ r.publisher \in Publishers /\ r.body \in Bodies /\ r.event = r.body.name
       /\ r.version \in 1 .. MaxClock /\ r.created \in 1 .. time /\ r.updated \in r.created .. time
       /\ r.tier \in {"community", "verified"} /\ r.status \in {"published", "archived"}

\* However publications and verifications interleave, the bundles are a partition of what
\* is published, each of one publisher and within the window of its first schema, none is
\* split without need, and profile, list and detail agree on them.
BundlesAreSound ==
  LET bundles == ToSet(GroupIntoBundles)
      Follows(c, b) == /\ b.created < c.created
                       /\ ~\E d \in bundles : b.created < d.created /\ d.created < c.created IN
  /\ UNION {b.events : b \in bundles} = Published
  /\ \A b \in bundles : \A r \in b.events, s \in b.events :
       r.publisher = s.publisher /\ r.created - b.created \in 0 .. Window
  /\ \A b \in bundles, c \in bundles : b # c => b.events \cap c.events = {}
  /\ \A b \in bundles, c \in bundles : \A r \in b.events, s \in c.events :
       Follows(c, b) => r.created < s.created
                        /\ (r.publisher = s.publisher => c.created - b.created > Window)
  /\ ContractSummary.schemaCount = Len(Bundles)
  /\ ContractSummary.isVerified <=> \E b \in bundles : b.verified
  /\ \A v \in 1 .. MaxClock : \A b \in FindBundleByVersion(v), c \in bundles :
       c.version = v => c.updated <= b.updated

\* A decode without a name answers as a decode with the name of the schema it takes may
\* answer, and a verified schema comes first.  It does not pass over a name that is certain
\* to decode: it is not raw then, and takes no later name.
DecodingsAgree ==
  \A event \in Events :
    /\ \A r \in ListByContract(event) :
         /\ Decoding(r) \in DecodeNamed(event, r.event, 0)
         /\ Decoding(r) \in DecodeNamed(event, r.event, r.version)
         /\ r.tier = "community" => ~\E s \in Published : s.event = r.event /\ s.tier = "verified"
    /\ \A e \in EventNames :
         (\A answer \in DecodeNamed(event, e, 0) : answer.status = "decoded") =>
           /\ Raw \notin DecodeUnnamed(event)
           /\ DecodeUnnamed(event) # {}
           /\ \A r \in ListByContract(event) : r.event <= e

\* What a decoded event shows is in the event, as a topic or in the value, under the type
\* of the parameter.  An integer of a magnitude beyond 2^53 is shown as what remains of it:
\* the nearest float64, or the build's OutOfRange from 2^63 on.
FieldsComeFromEvent ==
  \A event \in Events, r \in Published :
    LET fields == DecodeEvent(r.body, event) IN
    \A i \in DOMAIN fields : \E doc \in Documents(event) :
      /\ ExtractTypedValue(doc, ParamsOf(r.body)[i].type) = fields[i]
      /\ fields[i] = doc.val \/ (doc.tag \in NumberTypes /\ doc.val \notin -MaxExact .. MaxExact)

DecodingIsSound == DecodingsAgree /\ FieldsComeFromEvent

\* The button offers a verification only where it promotes a newer version of the publisher's.
ButtonPromotes ==
  \A p \in Publishers : CanVerify(p) =>
    \E t \in Targets(p) : \A r \in Of(p, t.event) \cap Published :
      r.tier = "verified" => r.version < t.version

ReadsAreSound == BundlesAreSound /\ ButtonPromotes

\* When no schema of the name and version that a request gives is published, the answer stays
\* raw; here for a contract that has schemas of other names or versions.
NoMatchStaysRaw ==
  Published # {} =>
    \A event \in Events, e \in EventNames, v \in 0 .. MaxClock :
      Failed \notin DecodeNamed(event, e, v)

\* The arguments of a schema are positional: one that the registry accepts, and whose
\* parameters say no location, decodes some event.
PositionalArgsDecode ==
  \A r \in rows :
    (\A i \in DOMAIN ParamsOf(r.body) : ParamsOf(r.body)[i].location = "") =>
      \E event \in Events : Decoded(r.body, event)

===========================================================================
