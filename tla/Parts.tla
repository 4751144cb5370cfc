------------------------------- MODULE Parts -------------------------------
(***************************************************************************)
(* The parts of Atlas that share no state with each other, side by side:   *)
(* projects and publish tokens, accounts, API keys, the readers of the     *)
(* registry with the decoder, the explore API's queries, the RPC endpoint  *)
(* pool and the worker's poll loop.  A behaviour is one of one part.       *)
(***************************************************************************)
EXTENDS Projects

CONSTANTS
  VerifyTokens, ResetTokens, Requests, Passwords, MaxLinks, MaxFaults, NoPassword, NoToken,
  Keys, Calls, MaxApiKeys, Anonymous,
  MaxExact, Int64Limit, OutOfRange, NoValue, Publishers, Bodies, Events, Window, MaxClock,
  Logs, Emitter, LedgerOf, MonthLength, PageSizes, MaxBatch, MaxStamp, MaxErrors,
  Pools, Clients, Ingester, MaxAttempts, MaxCancels,
  Settings, MaxReloads

VARIABLES
  part,
  user, password, link, fresh, mailbox, session, rpc, job, held, chosen, crossed, burned, written, faults,
  key, keyUsed, kpc, overlappedKeys, call, bearer,
  schemaRows, time,
  table, batches, stamp, errors,
  pool, failures, downUntil, activeIndex, client, cancels,
  env, told, hup, conf, settings, pollInterval, watcher, runner, interval, next, reloads

Auth == INSTANCE Accounts
Api == INSTANCE ApiKeys
Reads == INSTANCE SchemaReads WITH rows <- schemaRows
Explore == INSTANCE ExploreReads
Rpc == INSTANCE EndpointPool
Poll == INSTANCE PollLoop

ASSUME PartsAssumption ==
  /\ Auth!AccountsAssumption /\ Api!KeysAssumption /\ Poll!SettingsAssumption
  /\ Reads!SchemasAssumption /\ Explore!ReadsAssumption /\ Rpc!EndpointsAssumption

accounts == <<user, password, link, fresh, mailbox, session, rpc, job, held, chosen, crossed,
              burned, written, faults>>
apiKeys == <<key, keyUsed, kpc, overlappedKeys, call, bearer>>
schemas == <<schemaRows, time>>
events == <<table, batches, stamp, errors>>
rpcPool == <<pool, failures, downUntil, activeIndex, client, cancels>>
pollLoop == <<env, told, hup, conf, settings, pollInterval, watcher, runner, interval, next, reloads>>
partVars == <<projectVars, accounts, apiKeys, schemas, events, rpcPool, pollLoop>>

PartsInit ==
  /\ part \in 1 .. 7
  /\ Init /\ Auth!Init /\ Api!Init /\ Reads!Init /\ Explore!Init /\ Rpc!Init /\ Poll!Init
  /\ part # 6 => pool = CHOOSE p \in Pools : TRUE
  /\ part # 7 => env = CHOOSE raw \in Settings : Poll!Accepted(raw)

PartsNext ==
  /\ UNCHANGED part
  /\ \/ /\ part = 1 /\ Next
        /\ UNCHANGED <<accounts, apiKeys, schemas, events, rpcPool, pollLoop>>
     \/ /\ part = 2 /\ Auth!Next
        /\ UNCHANGED <<projectVars, apiKeys, schemas, events, rpcPool, pollLoop>>
     \/ /\ part = 3 /\ Api!Next
        /\ UNCHANGED <<projectVars, accounts, schemas, events, rpcPool, pollLoop>>
     \/ /\ part = 4 /\ Reads!Next
        /\ UNCHANGED <<projectVars, accounts, apiKeys, events, rpcPool, pollLoop>>
     \/ /\ part = 5 /\ Explore!Next
        /\ UNCHANGED <<projectVars, accounts, apiKeys, schemas, rpcPool, pollLoop>>
     \/ /\ part = 6 /\ Rpc!Next
        /\ UNCHANGED <<projectVars, accounts, apiKeys, schemas, events, pollLoop>>
     \/ /\ part = 7 /\ Poll!Next
        /\ UNCHANGED <<projectVars, accounts, apiKeys, schemas, events, rpcPool>>

PartsSpec == PartsInit /\ [][PartsNext]_<<part, partVars>>

---------------------------------------------------------------------------
\* The properties of the parts.

\* What a registry row, a token, a key, a request, a copy of an event and a configuration can
\* be, in every part (TypeOK of each module).
PartsTypesOK ==
  /\ part = 1 => TypeOK
  /\ part = 2 => Auth!TypeOK
  /\ part = 3 => Api!TypeOK
  /\ part = 4 => Reads!TypeOK
  /\ part = 5 => Explore!TypeOK
  /\ part = 6 => Rpc!TypeOK
  /\ part = 7 => Poll!TypeOK

\* A user gets no more active tokens and keys than the limit allows, but for those whose
\* count another request made stale.
LimitsHold == (part = 1 => TokensAreLimited) /\ (part = 3 => Api!KeysAreLimited)

\* Of the links of a kind at most one works, but for those sent at the same time, and what
\* a used link promised has been done, is under way or has failed.  That a link serves only
\* one request is not claimed: two at the same time may both use it (LinksAreSound of
\* Accounts).
LinksAreSound == part = 2 => Auth!LinksAreSound

\* Bundles partition what is published, and the button promotes (ReadsAreSound of SchemaReads).
ReadsAreSound == part = 4 => Reads!ReadsAreSound

\* Decoding with and without a name agree, and show what is in the event (DecodingIsSound of
\* SchemaReads).
DecodingIsSound == part = 4 => Reads!DecodingIsSound

\* The pages of the explore API agree with each other (ExploreAgrees of ExploreReads).
ExploreAgrees == part = 5 => Explore!ExploreAgrees

\* One RPC endpoint that answers is enough (HealthyServes of EndpointPool).
HealthyServes == part = 6 => Rpc!HealthyServes

\* Merges and late replays take no decoding away (DecodingStays of ExploreReads).
DecodingStays == Explore!DecodingStays

\* The last reload wins and the interval obeys it (SettingsApply of PollLoop).
SettingsApply == Poll!SettingsApply

===========================================================================
