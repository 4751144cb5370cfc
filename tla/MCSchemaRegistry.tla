-------------------------- MODULE MCSchemaRegistry --------------------------
EXTENDS SchemaRegistry

CONSTANT p1

\* The first publisher has published all events, the second only the first.
SomePublished == {s \in Schemas : s.version = 1 /\ (s.publisher = p1 \/ s.event = 1)}

\* All publish a version of the first event for p1.
OfFirst == [q \in Publications |-> p1]
ToFirst == [q \in Publications |-> 1]
=============================================================================
