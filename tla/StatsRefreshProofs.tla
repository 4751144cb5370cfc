------------------------- MODULE StatsRefreshProofs -------------------------
(***************************************************************************)
(* RefreshIsDue, for any number of refreshes at once, of chunks and of     *)
(* failures.                                                               *)
(*                                                                         *)
(* RefreshIsDue with its types is inductive: each step either keeps the    *)
(* witness for it (statistics that are new enough, an armed timer, or a    *)
(* refresh that has still to query or to broadcast) or hands it on to the  *)
(* next in this chain: HandleIngest arms the timer, Fire starts a refresh, *)
(* its query counts whatever is stored, and its broadcast makes the        *)
(* statistics at least as new, or is overtaken.                            *)
(***************************************************************************)
EXTENDS StatsRefresh, TLAPS

\* The witness, without the types.
Due ==
  \/ failures > 0 \/ overtaken
  \/ stats >= handled
  \/ timer = "armed"
  \/ \E r \in Refreshes :
       pc[r] = "stats" \/ (pc[r] = "broadcastStats" /\ result[r] >= handled)

\* No message, count or broadcast is ahead of what is stored.
LEMMA TypesStay == TypeOK /\ [Next]_vars => TypeOK'
<1> SUFFICES ASSUME TypeOK, [Next]_vars PROVE TypeOK'
  OBVIOUS
<1> USE RefreshAssumption DEF RefreshAssumption
<1>1. CASE Persist
  <2>1. /\ stored' = stored + 1 /\ stored' \in 0 .. MaxChunks
        /\ handled' \in 0 .. stored' /\ stats' \in 0 .. stored' /\ contracts' \in 0 .. stored'
    BY <1>1 DEF Persist, TypeOK
  <2>2. channel' \in SUBSET (1 .. stored')
    BY <1>1, <2>1 DEF Persist, TypeOK
  <2>3. result' \in [Refreshes -> 0 .. stored']
    <3>1. 0 .. stored \subseteq 0 .. stored'
      BY <2>1 DEF TypeOK
    <3> QED BY <1>1, <3>1 DEF Persist, TypeOK
  <2> QED BY <1>1, <2>1, <2>2, <2>3 DEF Persist, TypeOK
<1>2. ASSUME NEW k \in channel, Lose(k) PROVE TypeOK'
  BY <1>2 DEF Lose, TypeOK
<1>3. CASE HandleIngest
  BY <1>3 DEF HandleIngest, Schedule, TypeOK
<1>4. ASSUME NEW r \in Refreshes, Fire(r) PROVE TypeOK'
  BY <1>4 DEF Fire, Goto, TypeOK
<1>5. ASSUME NEW r \in Refreshes, GetStats(r) PROVE TypeOK'
  BY <1>5 DEF GetStats, Goto, TypeOK
<1>6. ASSUME NEW r \in Refreshes, BroadcastStats(r) PROVE TypeOK'
  BY <1>6 DEF BroadcastStats, Goto, TypeOK
<1>7. ASSUME NEW r \in Refreshes, ListActiveContracts(r) PROVE TypeOK'
  BY <1>7 DEF ListActiveContracts, Goto, TypeOK
<1>8. ASSUME NEW r \in Refreshes, BroadcastContracts(r) PROVE TypeOK'
  BY <1>8 DEF BroadcastContracts, Goto, TypeOK
<1>9. ASSUME NEW r \in Refreshes, RefreshFails(r) PROVE TypeOK'
  BY <1>9 DEF RefreshFails, Goto, TypeOK
<1>10. CASE UNCHANGED vars
  BY <1>10 DEF vars, TypeOK
<1> QED
  BY <1>1, <1>2, <1>3, <1>4, <1>5, <1>6, <1>7, <1>8, <1>9, <1>10 DEF Next, RefreshDerived

\* The witness is kept or handed on.
LEMMA DueStays == TypeOK /\ Due /\ [Next]_vars => Due'
<1> SUFFICES ASSUME TypeOK, Due, [Next]_vars PROVE Due'
  OBVIOUS
<1>1. CASE Persist
  BY <1>1 DEF Persist, Due
<1>2. ASSUME NEW k \in channel, Lose(k) PROVE Due'
  BY <1>2 DEF Lose, TypeOK, Due
<1>3. CASE HandleIngest
  BY <1>3 DEF HandleIngest, Schedule, Due
<1>4. ASSUME NEW r \in Refreshes, Fire(r) PROVE Due'
  BY <1>4 DEF Fire, Goto, TypeOK, Due
<1>5. ASSUME NEW r \in Refreshes, GetStats(r) PROVE Due'
  <2>1. pc'[r] = "broadcastStats" /\ result'[r] = stored /\ handled' = handled
    BY <1>5 DEF GetStats, Goto, TypeOK
  <2>2. result'[r] >= handled'
    BY <2>1 DEF TypeOK
  <2> QED BY <2>1, <2>2 DEF Due
<1>6. ASSUME NEW r \in Refreshes, BroadcastStats(r) PROVE Due'
  <2> USE <1>6 DEF BroadcastStats, Goto, TypeOK, Due
  <2>1. CASE failures > 0 \/ overtaken \/ timer = "armed"
    BY <2>1
  <2>2. CASE stats >= handled
    <3>1. CASE result[r] < stats
      BY <3>1
    <3>2. CASE ~(result[r] < stats)
      <4>1. stats' = result[r] /\ handled' = handled /\ result[r] \in Int /\ stats \in Int
        OBVIOUS
      <4>2. stats' >= handled'
        BY <2>2, <3>2, <4>1
      <4> QED BY <4>2
    <3> QED BY <3>1, <3>2
  <2>3. ASSUME NEW s \in Refreshes,
               pc[s] = "stats" \/ (pc[s] = "broadcastStats" /\ result[s] >= handled)
        PROVE  Due'
    BY <2>3
  <2> QED BY <2>1, <2>2, <2>3
<1>7. ASSUME NEW r \in Refreshes, ListActiveContracts(r) PROVE Due'
  BY <1>7 DEF ListActiveContracts, Goto, TypeOK, Due
<1>8. ASSUME NEW r \in Refreshes, BroadcastContracts(r) PROVE Due'
  BY <1>8 DEF BroadcastContracts, Goto, TypeOK, Due
<1>9. ASSUME NEW r \in Refreshes, RefreshFails(r) PROVE Due'
  BY <1>9 DEF RefreshFails, TypeOK, Due
<1>10. CASE UNCHANGED vars
  BY <1>10 DEF vars, Due
<1> QED
  BY <1>1, <1>2, <1>3, <1>4, <1>5, <1>6, <1>7, <1>8, <1>9, <1>10 DEF Next, RefreshDerived

\* However often the debounce timer is stopped and set anew, and however many refreshes run
\* at once, a chunk that was handled is in the statistics or will be: scheduleStatsRefresh
\* and refreshDerived lose none, unless a query fails or an older broadcast comes last.
THEOREM NoRefreshIsLost == Spec => []RefreshIsDue
<1>1. Init => TypeOK /\ Due
  <2> SUFFICES ASSUME Init PROVE TypeOK /\ Due
    OBVIOUS
  <2>1. stored = 0 /\ handled = 0 /\ stats = 0
    BY DEF Init
  <2>2. Due
    BY <2>1 DEF Due
  <2>3. TypeOK
    <3>1. pc \in [Refreshes -> {"idle"}] /\ result \in [Refreshes -> {0}]
      BY DEF Init
    <3>2. result \in [Refreshes -> 0 .. stored]
      BY <2>1, <3>1
    <3>3. stored \in 0 .. MaxChunks /\ failures \in 0 .. MaxFailures
      BY <2>1, RefreshAssumption DEF RefreshAssumption, Init
    <3>4. channel \in SUBSET (1 .. stored) /\ handled \in 0 .. stored
          /\ stats \in 0 .. stored /\ contracts \in 0 .. stored
      BY <2>1 DEF Init
    <3> QED BY <3>1, <3>2, <3>3, <3>4 DEF Init, TypeOK
  <2> QED BY <2>2, <2>3
<1>2. TypeOK /\ Due /\ [Next]_vars => (TypeOK /\ Due)'
  BY TypesStay, DueStays
<1>3. TypeOK /\ Due => RefreshIsDue
  BY DEF RefreshIsDue, Due
<1> QED BY <1>1, <1>2, <1>3, PTL DEF Spec

=============================================================================
