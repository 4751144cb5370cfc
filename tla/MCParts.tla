------------------------------ MODULE MCParts -------------------------------
(***************************************************************************)
(* The instance of each part that TLC checks.                              *)
(***************************************************************************)
EXTENDS Parts, SchemaSamples

CONSTANT q1

MCSlugify == [n \in Names |-> CASE n = 1 -> <<7>> [] OTHER -> <<7, 2>>]
MCContractOf == [q \in Publications |-> IF q = q1 THEN "A" ELSE "B"]
MCBodies == {Counter, AnyCounter, Approve, CounterBoth}
MCEmitter == [e \in Logs |-> IF e = 2 THEN "B" ELSE "A"]
MCLedgerOf == [e \in Logs |-> IF e = 2 THEN 2 ELSE 1]
MCPools == [process : {"api"}, last : {1}, healthy : 0 .. 1]
             \cup [process : {"ingest"}, last : {4}, healthy : 0 .. 3]
MCSettings == {[poll |-> 2, min |-> 2, max |-> 3], [poll |-> 20, min |-> 6, max |-> 9],
               [poll |-> 0, min |-> 0, max |-> 4], [poll |-> 1, min |-> 4, max |-> 12]}

===========================================================================
