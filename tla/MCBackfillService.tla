------------------------- MODULE MCBackfillService -------------------------
(***************************************************************************)
(* A small instance of the backfill.  The first window, that of ledgers   *)
(* 1 to 3 has more events of the first batch of contracts than a page and  *)
(* ledger 4 only one of the second batch; an endpoint behind the others    *)
(* can cut a window short, or hand out a page before it catches up.        *)
(***************************************************************************)
EXTENDS BackfillService, TLC

\* No operator tells the runs from each other, nor the endpoints.
Symmetry == Permutations(Runs) \cup Permutations(Endpoints)

TwoBatches ==
  {[ledger |-> 1, batch |-> 1], [ledger |-> 2, batch |-> 1],
   [ledger |-> 3, batch |-> 1], [ledger |-> 4, batch |-> 2]}

\* A range without an end, one whose window fits a page, and one that is refused.
ThreeCommands ==
  {[from |-> 1, to |-> 0], [from |-> 2, to |-> 4], [from |-> 3, to |-> 1]}

===========================================================================
