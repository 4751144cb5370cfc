------------------------------ MODULE ApiKeys -------------------------------
(***************************************************************************)
(* The API keys of one user (APIKeyService), and the requests that bring   *)
(* one: a decode must, an explore query may.  A key is created in two      *)
(* statements, the count of the active ones and the insert; a request      *)
(* looks its key up, notes that it was used, and is then served, whatever  *)
(* happens to the key meanwhile.                                           *)
(***************************************************************************)
EXTENDS Integers, FiniteSets

CONSTANTS
  Keys,       \* requests for a key, and the keys they create
  Calls,      \* requests that may bring one
  MaxApiKeys,
  Anonymous   \* no key is brought

KeysAssumption == MaxApiKeys \in Nat

VARIABLES
  key,             \* api_keys: "none", "active" or "revoked"
  keyUsed,         \* which have last_used_at set
  kpc,             \* where each creation is
  overlappedKeys,  \* history: creations whose count another insert has made stale
  call,            \* each request: "idle", "accepted", "served" or "refused"
  bearer           \* the key it brings

keyVars == <<key, keyUsed, kpc, overlappedKeys, call, bearer>>

Init ==
  /\ key = [k \in Keys |-> "none"]
  /\ keyUsed = {}
  /\ kpc = [k \in Keys |-> "idle"]
  /\ overlappedKeys = {}
  /\ call = [q \in Calls |-> "idle"]
  /\ bearer = [q \in Calls |-> Anonymous]

ActiveKeys == {k \in Keys : key[k] = "active"}

CountActiveByUser(k) ==
  /\ kpc[k] = "idle"
  /\ kpc' = [kpc EXCEPT ![k] = IF Cardinality(ActiveKeys) >= MaxApiKeys THEN "failed" ELSE "insert"]
  /\ UNCHANGED <<key, keyUsed, overlappedKeys, call, bearer>>

Insert(k) ==
  /\ kpc[k] = "insert"
  /\ key' = [key EXCEPT ![k] = "active"]
  /\ kpc' = [kpc EXCEPT ![k] = "done"]
  /\ overlappedKeys' = overlappedKeys \cup {j \in Keys \ {k} : kpc[j] = "insert"}
  /\ UNCHANGED <<keyUsed, call, bearer>>

Revoke(k) ==
  /\ key[k] = "active"
  /\ key' = [key EXCEPT ![k] = "revoked"]
  /\ UNCHANGED <<keyUsed, kpc, overlappedKeys, call, bearer>>

---------------------------------------------------------------------------

\* ResolveAPIKeyAuth.  That last_used_at cannot be written is ignored.
ResolveKey(q, k) ==
  /\ call[q] = "idle"
  /\ kpc[k] = "done"
  /\ bearer' = [bearer EXCEPT ![q] = k]
  /\ \/ /\ key[k] = "active"
        /\ call' = [call EXCEPT ![q] = "accepted"]
        /\ keyUsed' \in {keyUsed, keyUsed \cup {k}}
     \/ /\ key[k] = "revoked"
        /\ call' = [call EXCEPT ![q] = "refused"]
        /\ UNCHANGED keyUsed
  /\ UNCHANGED <<key, kpc, overlappedKeys>>

\* RequireAPIKey of a request that brings none.
RefuseWithoutKey(q) ==
  /\ call[q] = "idle"
  /\ call' = [call EXCEPT ![q] = "refused"]
  /\ UNCHANGED <<key, keyUsed, kpc, overlappedKeys, bearer>>

\* ValidateOptionalAPIKey of a request that brings none.
AcceptWithoutKey(q) ==
  /\ call[q] = "idle"
  /\ call' = [call EXCEPT ![q] = "accepted"]
  /\ UNCHANGED <<key, keyUsed, kpc, overlappedKeys, bearer>>

Serve(q) ==
  /\ call[q] = "accepted"
  /\ call' = [call EXCEPT ![q] = "served"]
  /\ UNCHANGED <<key, keyUsed, kpc, overlappedKeys, bearer>>

---------------------------------------------------------------------------

CreateKey(k) == CountActiveByUser(k) \/ Insert(k)

HandleCall(q) ==
  RefuseWithoutKey(q) \/ AcceptWithoutKey(q) \/ Serve(q) \/ \E k \in Keys : ResolveKey(q, k)

Next ==
  \/ \E k \in Keys : CreateKey(k) \/ Revoke(k)
  \/ \E q \in Calls : HandleCall(q)

Spec == Init /\ [][Next]_keyVars

---------------------------------------------------------------------------

\* The table and the requests hold what the code can put there.
TypeOK ==
  /\ key \in [Keys -> {"none", "active", "revoked"}]
  /\ keyUsed \subseteq Keys
  /\ kpc \in [Keys -> {"idle", "insert", "done", "failed"}]
  /\ overlappedKeys \subseteq Keys
  /\ call \in [Calls -> {"idle", "accepted", "served", "refused"}]
  /\ bearer \in [Calls -> Keys \cup {Anonymous}]

\* The limit on active keys is exceeded only by creations that ran at the same time.
KeysAreLimited == Cardinality(ActiveKeys \ overlappedKeys) <= MaxApiKeys

===========================================================================
