--------------------------- MODULE SchemaSamples ----------------------------
(***************************************************************************)
(* Bodies of schemas and contract events for model checking, in the shapes *)
(* of testdata/registry/samples and of docs/sep-0048: prefix topics with   *)
(* data in a scalar, a vector and a map, and positional arguments.         *)
(***************************************************************************)
EXTENDS Integers, Sequences

Param(name, type, location, index) ==
  [name |-> name, type |-> type, location |-> location, index |-> index]

Doc(tag, val) == [tag |-> tag, val |-> val]
Symbol(s) == Doc("symbol", s)

Counter ==
  [name |-> 2, prefix |-> <<"cntr", "incr">>, format |-> "single_value",
   params |-> <<Param("count", "u64", "data", 0)>>]

\* An event whose schema matches those of Counter too.
AnyCounter ==
  [name |-> 1, prefix |-> <<"cntr">>, format |-> "single_value",
   params |-> <<Param("kind", "string", "topic", 0)>>]

Approve ==
  [name |-> 3, prefix |-> <<"approve">>, format |-> "vec",
   params |-> <<Param("from", "address", "topic", 0), Param("amount", "i64", "data", 0),
                Param("expiration_ledger", "u32", "data", 1)>>]

\* Accepted for its arguments, and decoded by parameters that nobody has looked at.
CounterBoth ==
  [name |-> 2, prefix |-> <<"cntr">>, format |-> "map",
   args |-> <<Param("count", "u64", "", 0)>>,
   params |-> <<Param("count", "u64", "data", 0), Param("kind", "symbol", "topic", 0)>>]

\* The minimal example of docs/sep-0048.
Transfer ==
  [name |-> 3, prefix |-> <<>>, format |-> "single_value",
   args |-> <<Param("from", "address", "", 0), Param("to", "address", "", 0),
              Param("amount", "i128", "", 0)>>]

\* With MaxExact = 4 and Int64Limit = 16, the u64 5 and the i64 -7 are rounded, and the u64
\* 31 becomes what amd64 makes of it.
OutOfRange64 == -16

SampleEvents ==
  {[topics |-> <<Symbol("cntr"), Symbol("incr")>>, value |-> Doc("u64", n)] : n \in {3, 5, 31}}
  \cup
  {[topics |-> <<Symbol("cntr"), Symbol("incr")>>,
    value  |-> Doc("map", <<[k |-> Symbol("count"), v |-> Doc("u64", 7)]>>)],
   [topics |-> <<Symbol("approve"), Doc("address", "A")>>,
    value  |-> Doc("vec", <<Doc("i64", -7), Doc("u32", 2)>>)],
   [topics |-> <<Symbol("transfer"), Doc("address", "A"), Doc("address", "B")>>,
    value  |-> Doc("i128", 1)],
   [topics |-> <<Symbol("transfer")>>,
    value  |-> Doc("vec", <<Doc("address", "A"), Doc("address", "B"), Doc("i128", 1)>>)]}

===========================================================================
