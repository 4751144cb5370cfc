------------------------------ MODULE Decoder -------------------------------
(***************************************************************************)
(* Decoding a contract event with a schema (lib/decoder), and what the     *)
(* registry accepts as a schema (validateSchemaBody).  An event is a       *)
(* sequence of topics and a value, each a tagged document:                 *)
(*                                                                         *)
(*   [tag |-> "u64", val |-> 5]      a scalar, a symbol's name included    *)
(*   [tag |-> "vec", val |-> <<...>>]                                      *)
(*   [tag |-> "map", val |-> <<[k |-> ..., v |-> ...], ...>>]              *)
(*                                                                         *)
(* A schema is a record with a name, prefix topics, a data format, and     *)
(* parameters under "args" or "params"; a key that the JSON lacks is no    *)
(* field of it.  The XDR of the documents and the summary are left out.    *)
(***************************************************************************)
EXTENDS Integers, Sequences, FiniteSets

CONSTANTS
  MaxExact,    \* 2^53: a float64 holds all integers of up to this magnitude
  Int64Limit,  \* 2^63
  OutOfRange,  \* what the build's int64 of a greater float64 is
  NoValue      \* a value cannot be extracted

---------------------------------------------------------------------------
\* Documents.

\* How far apart float64 values of 64 bits are.
Spacings == {1, 2, 4, 8, 16, 32, 64, 128, 256, 512, 1024, 2048}

Spacing(m) ==
  CHOOSE s \in Spacings :
    m <= MaxExact * s /\ \A t \in Spacings : m <= MaxExact * t => s <= t

\* The float64 nearest to m; of two, the one that is an even multiple of the spacing.
Nearest(m) ==
  LET s == Spacing(m)
      below == m - (m % s) IN
  IF 2 * (m % s) < s \/ (2 * (m % s) = s /\ (m \div s) % 2 = 0) THEN below ELSE below + s

\* A JSON number becomes a float64.
AsFloat64(n) ==
  IF n \in -MaxExact .. MaxExact THEN n ELSE IF n < 0 THEN -Nearest(-n) ELSE Nearest(n)

\* Go leaves the conversion of a greater one to the build: amd64 yields the least int64,
\* arm64 the greatest.
AsInt64(x) == IF x \in -Int64Limit .. Int64Limit - 1 THEN x ELSE OutOfRange

NumberTypes == {"u32", "i32", "u64", "i64", "timepoint", "duration"}

\* The integers of 128 bits and more are strings in the document.
CoerceValue(type, val) == IF type \in NumberTypes THEN AsInt64(AsFloat64(val)) ELSE val

ExtractTypedValue(doc, type) ==
  IF doc.tag = type THEN CoerceValue(type, doc.val)
  ELSE IF type = "string" /\ doc.tag = "symbol" THEN doc.val
  ELSE NoValue

---------------------------------------------------------------------------
\* Schemas.

WellFormed(args) == args # <<>> /\ \A i \in DOMAIN args : args[i].name # "" /\ args[i].type # ""

\* "params" is looked at only if there are no "args".
ValidateSchemaBody(eventName, body) ==
  /\ body.name = eventName
  /\ IF "args" \in DOMAIN body THEN WellFormed(body.args)
     ELSE "params" \in DOMAIN body /\ WellFormed(body.params)

Field(body, key) == IF key \in DOMAIN body THEN body[key] ELSE <<>>

\* The parameters of a definition: "params" comes first.
ParamsOf(body) == IF Field(body, "params") = <<>> THEN Field(body, "args") ELSE body.params

---------------------------------------------------------------------------
\* Matching and extraction.

MatchPrefixTopics(topics, prefixes) ==
  /\ Len(prefixes) <= Len(topics)
  /\ \A i \in DOMAIN prefixes : topics[i].tag = "symbol" /\ topics[i].val = prefixes[i]

ExtractFromMap(doc, param) ==
  LET entries == {i \in DOMAIN doc.val : doc.val[i].k = [tag |-> "symbol", val |-> param.name]} IN
  IF doc.tag # "map" \/ entries = {} THEN NoValue
  ELSE ExtractTypedValue(doc.val[CHOOSE i \in entries : \A j \in entries : i <= j].v, param.type)

\* The index counts from 0; a value that is no vector has one item.
ExtractFromVecAt(doc, index, param) ==
  IF doc.tag # "vec" THEN IF index = 0 THEN ExtractTypedValue(doc, param.type) ELSE NoValue
  ELSE IF index \in 0 .. Len(doc.val) - 1 THEN ExtractTypedValue(doc.val[index + 1], param.type)
  ELSE NoValue

ExtractDataParam(format, value, param) ==
  CASE format = "map" -> ExtractFromMap(value, param)
    [] format = "vec" -> ExtractFromVecAt(value, param.index, param)
    [] OTHER          -> ExtractTypedValue(value, param.type)

\* The topic of parameter i: the topics after the prefix are taken in order.
TopicIndex(body, i) ==
  Len(body.prefix) + Cardinality({j \in 1 .. i : ParamsOf(body)[j].location = "topic"})

\* What parameter i is in the event.
ExtractParam(body, topics, value, i) ==
  LET param == ParamsOf(body)[i] IN
  CASE param.location \in {"data", ""} -> ExtractDataParam(body.format, value, param)
    [] param.location = "topic" /\ TopicIndex(body, i) <= Len(topics) ->
         ExtractTypedValue(topics[TopicIndex(body, i)], param.type)
    [] OTHER -> NoValue

\* The values of the parameters; one that is missing fails them all.
ExtractFields(body, topics, value) ==
  LET fields == [i \in DOMAIN ParamsOf(body) |-> ExtractParam(body, topics, value, i)] IN
  IF \E i \in DOMAIN fields : fields[i] = NoValue THEN <<>> ELSE fields

\* The fields of a decoded event; none if it stays raw.
DecodeEvent(body, event) ==
  IF MatchPrefixTopics(event.topics, body.prefix)
    THEN ExtractFields(body, event.topics, event.value) ELSE <<>>

Decoded(body, event) == DecodeEvent(body, event) # <<>>

===========================================================================
