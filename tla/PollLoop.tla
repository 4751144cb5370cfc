------------------------------ MODULE PollLoop ------------------------------
(***************************************************************************)
(* The poll interval of the live worker and the reload of its              *)
(* configuration: IngestWorkerService.Run sleeps, runs a cycle (which      *)
(* IngestWorker models) and adapts the interval, while watchConfigReload   *)
(* answers SIGHUP with config.Reload and SetConfig.                        *)
(*                                                                         *)
(* The configuration and the interval are two atomics: Run reads the       *)
(* interval before it sleeps and writes it back, adapted, after a cycle,   *)
(* whatever has been stored in between.                                    *)
(***************************************************************************)
EXTENDS Integers

CONSTANTS
  Settings,     \* what .env may say: [poll, min, max], of any sign
  MaxReloads    \* bound: signals sent

SettingsAssumption == Settings \subseteq [poll : Int, min : Int, max : Int] /\ MaxReloads \in Nat

VARIABLES
  env,          \* .env and the environment
  told,         \* history: a signal has been sent since env was edited
  hup,          \* the channel of one signal
  conf,         \* config.conf
  settings,     \* IngestWorkerService.cfg
  pollInterval, \* IngestWorkerService.pollInterval
  watcher,      \* where watchConfigReload is
  runner,       \* where Run is
  interval,     \* its local
  next,         \* what it has computed to be the next
  reloads       \* how many signals have been sent

pollVars == <<env, told, hup, conf, settings, pollInterval, watcher, runner, interval, next, reloads>>

---------------------------------------------------------------------------
\* config.validate.

Accepted(raw) == raw.min > 0 /\ raw.max >= raw.min

Validated(raw) == [raw EXCEPT !.poll = IF raw.poll < raw.min THEN raw.min ELSE raw.poll]

\* Mutant: an interval below the new minimum is halved all the same.
NoFloor(current, min, max, caughtUp) ==
  LET longer == current + current \div 2 IN
  IF caughtUp THEN (IF longer > max THEN max ELSE longer) ELSE current \div 2

\* For a minimum and an interval that are positive.
NextAdaptivePoll(current, min, max, caughtUp) ==
  LET longer  == current + current \div 2
      shorter == current \div 2 IN
  IF caughtUp THEN (IF longer > max THEN max ELSE longer)
  ELSE (IF shorter < min THEN min ELSE shorter)

Init ==
  /\ env \in {raw \in Settings : Accepted(raw)} /\ told = TRUE /\ hup = FALSE
  /\ conf = Validated(env) /\ settings = conf /\ pollInterval = conf.poll
  /\ watcher = "wait" /\ runner = "cycle" /\ interval = 0 /\ next = 0
  /\ reloads = 0

---------------------------------------------------------------------------

\* Someone edits the file.
Edit ==
  /\ env' \in Settings /\ told' = FALSE
  /\ UNCHANGED <<hup, conf, settings, pollInterval, watcher, runner, interval, next, reloads>>

\* A signal that finds another one in the channel is dropped.
Signal ==
  /\ reloads < MaxReloads
  /\ hup' = TRUE /\ told' = TRUE
  /\ reloads' = reloads + 1
  /\ UNCHANGED <<env, conf, settings, pollInterval, watcher, runner, interval, next>>

Receive ==
  /\ watcher = "wait" /\ hup
  /\ hup' = FALSE
  /\ watcher' = "read"
  /\ UNCHANGED <<env, told, conf, settings, pollInterval, runner, interval, next, reloads>>

Reload ==
  /\ watcher = "read" /\ Accepted(env)
  /\ conf' = Validated(env)
  /\ watcher' = "set"
  /\ UNCHANGED <<env, told, hup, settings, pollInterval, runner, interval, next, reloads>>

RejectReload ==
  /\ watcher = "read" /\ ~Accepted(env)
  /\ watcher' = "wait"
  /\ UNCHANGED <<env, told, hup, conf, settings, pollInterval, runner, interval, next, reloads>>

\* SetConfig: two stores.
SetConfig ==
  \/ /\ watcher = "set"
     /\ settings' = conf
     /\ watcher' = "setInterval"
     /\ UNCHANGED pollInterval
  \/ /\ watcher = "setInterval"
     /\ pollInterval' = conf.poll
     /\ watcher' = "wait"
     /\ UNCHANGED settings

SetConfigStep ==
  /\ SetConfig
  /\ UNCHANGED <<env, told, hup, conf, runner, interval, next, reloads>>

\* Run.
EndFirstCycle ==
  /\ runner = "cycle" /\ interval = 0
  /\ runner' = "load"
  /\ UNCHANGED <<env, told, hup, conf, settings, pollInterval, watcher, interval, next, reloads>>

Sleep ==
  /\ runner = "load"
  /\ interval' = IF pollInterval <= 0 THEN settings.poll ELSE pollInterval
  /\ runner' = "cycle"
  /\ UNCHANGED <<env, told, hup, conf, settings, pollInterval, watcher, next, reloads>>

\* The cycle ends; it has caught up with the chain, or it has not or has failed.
EndCycle(caughtUp) ==
  /\ runner = "cycle" /\ interval > 0
  /\ next' = NextAdaptivePoll(interval, settings.min, settings.max, caughtUp)
  /\ runner' = "store"
  /\ UNCHANGED <<env, told, hup, conf, settings, pollInterval, watcher, interval, reloads>>

StoreInterval ==
  /\ runner = "store"
  /\ pollInterval' = next
  /\ runner' = "load" /\ next' = 0
  /\ UNCHANGED <<env, told, hup, conf, settings, watcher, interval, reloads>>

Next ==
  \/ Edit \/ Signal \/ Receive \/ Reload \/ RejectReload \/ SetConfigStep
  \/ EndFirstCycle \/ Sleep \/ StoreInterval
  \/ \E caughtUp \in BOOLEAN : EndCycle(caughtUp)

Spec == Init /\ [][Next]_pollVars

---------------------------------------------------------------------------

\* Only an accepted configuration is in use, and no interval is zero.
TypeOK ==
  /\ env \in Settings /\ told \in BOOLEAN /\ hup \in BOOLEAN
  /\ Accepted(conf) /\ Accepted(settings)
  /\ pollInterval > 0 /\ interval >= 0 /\ next >= 0
  /\ watcher \in {"wait", "read", "set", "setInterval"} /\ runner \in {"cycle", "load", "store"}

Distance(c, x) == IF x < c.min THEN c.min - x ELSE IF x > c.max THEN x - c.max ELSE 0

\* The last reload wins, though signals are dropped while others wait: when the watcher has
\* nothing to do, the worker has the file as it was at the last signal.  The intervals that Run
\* stores over those of a reload reach its bounds: each is within them or, unless it is only
\* now that they have changed, nearer to them than the one before (but for an interval of one
\* nanosecond, which does not grow by half of it).
SettingsApply ==
  /\ [](watcher = "wait" /\ ~hup /\ told /\ Accepted(env) => settings = Validated(env))
  /\ [][runner = "cycle" /\ runner' = "store" =>
           \/ Distance(settings, next') = 0
           \/ Distance(settings, next') < Distance(settings, interval)
           \/ interval = 1]_pollVars

===========================================================================
