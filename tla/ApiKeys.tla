------------------------------ MODULE ApiKeys -------------------------------
(***************************************************************************)
(* The api_keys table: read-only keys that admins create and revoke, with  *)
(* an optional expiry, a cap on their number and a last-used time that is  *)
(* written at most once per API_KEY_TOUCH_SEC.  Every method reads the     *)
(* clock before it takes the lock.                                         *)
(***************************************************************************)
EXTENDS Requests

CONSTANTS
  MaxApiKeys,  \* MAX_API_KEYS
  TouchSec,    \* API_KEY_TOUCH_SEC
  Lifetimes,   \* the expiries that are asked for, in ticks
  MaxKeyTime,  \* bound: the clock runs from 1 to MaxKeyTime
  MaxIds       \* bound: keys ever created

ASSUME ApiKeysAssumption ==
  /\ MaxApiKeys \in Nat /\ TouchSec \in Nat \ {0} /\ Lifetimes \subseteq Nat \ {0}
  /\ MaxKeyTime \in Nat \ {0} /\ MaxIds \in Nat

Never == 0   \* NULL: no expiry, or not used yet

VARIABLES
  keyTime,  \* time.time()
  keys,     \* api_keys: id -> [expires, used]
  lastKey,  \* AUTOINCREMENT
  keyTask,  \* what each request thread has read
  uses,     \* history: id -> the latest time the key was let in (Never: not yet)
  revoked   \* history: ids of deleted keys

keyVars == <<keyTime, keys, lastKey, keyTask, uses, revoked>>

KeysInit ==
  /\ keyTime = 1 /\ lastKey = 0 /\ revoked = {}
  /\ keys = [k \in {} |-> 0] /\ uses = [k \in 1..MaxIds |-> Never]
  /\ keyTask = [r \in Threads |-> Idle]

KeyTick ==
  /\ keyTime < MaxKeyTime /\ keyTime' = keyTime + 1
  /\ UNCHANGED <<keys, lastKey, keyTask, uses, revoked>>

\* _handle_create_api_key turns expires_days into a time; create_api_key
\* looks at the clock again.
NewKeyRead(r) ==
  /\ keyTask[r] = Idle
  /\ \E e \in {Never} \cup {keyTime + d : d \in Lifetimes} :
       keyTask' = [keyTask EXCEPT ![r] = [op |-> "create", expires |-> e]]
  /\ UNCHANGED <<keyTime, keys, lastKey, uses, revoked>>

HasRoom == Cardinality(DOMAIN keys) < MaxApiKeys

\* "expiry must be in the future", and the cap, counted under the lock that
\* covers the insert.
CreateApiKey(r) ==
  /\ keyTask[r].op = "create"
  /\ IF (keyTask[r].expires = Never \/ keyTask[r].expires > keyTime) /\ HasRoom
       THEN /\ lastKey < MaxIds /\ lastKey' = lastKey + 1
            /\ keys' = [k \in DOMAIN keys \cup {lastKey'} |->
                 IF k = lastKey' THEN [expires |-> keyTask[r].expires, used |-> Never]
                 ELSE keys[k]]
       ELSE UNCHANGED <<keys, lastKey>>
  /\ keyTask' = [keyTask EXCEPT ![r] = Idle]
  /\ UNCHANGED <<keyTime, uses, revoked>>

\* A request with a bearer key on one of API_KEY_ROUTES.
KeyArrives(r) ==
  /\ keyTask[r] = Idle
  /\ \E k \in 1..lastKey :
       keyTask' = [keyTask EXCEPT ![r] = [op |-> "verify", id |-> k, now |-> keyTime]]
  /\ UNCHANGED <<keyTime, keys, lastKey, uses, revoked>>

\* Mutant: a use a whole interval after the last one is not written.
Stale_Late(used, now) == used = Never \/ now - used > TouchSec

\* row[3] is None or now - row[3] >= API_KEY_TOUCH_SEC
Stale(used, now) == used = Never \/ now - used >= TouchSec

\* verify_api_key
VerifyApiKey(r) ==
  /\ keyTask[r].op = "verify"
  /\ LET k == keyTask[r].id
         now == keyTask[r].now
     IN  IF k \in DOMAIN keys /\ (keys[k].expires = Never \/ keys[k].expires >= now)
           THEN /\ uses' = [uses EXCEPT ![k] = IF now > @ THEN now ELSE @]
                /\ keys' = IF Stale(keys[k].used, now)
                             THEN [keys EXCEPT ![k].used = now] ELSE keys
           ELSE UNCHANGED <<keys, uses>>
  /\ keyTask' = [keyTask EXCEPT ![r] = Idle]
  /\ UNCHANGED <<keyTime, lastKey, revoked>>

\* delete_api_key
DeleteApiKey ==
  /\ \E k \in DOMAIN keys :
       /\ keys' = [j \in DOMAIN keys \ {k} |-> keys[j]]
       /\ revoked' = revoked \cup {k}
  /\ UNCHANGED <<keyTime, lastKey, keyTask, uses>>

KeysNext ==
  \/ KeyTick \/ DeleteApiKey
  \/ \E r \in Threads :
       NewKeyRead(r) \/ CreateApiKey(r) \/ KeyArrives(r) \/ VerifyApiKey(r)

KeysSpec == KeysInit /\ [][KeysNext]_keyVars

----------------------------------------------------------------------------
(* Properties *)

\* The table keeps its shape and its cap, and no id is handed out again, so a
\* revoked key names no later one.
KeysTypeOK ==
  /\ keyTime \in 1..MaxKeyTime /\ lastKey \in 0..MaxIds
  /\ DOMAIN keys \subseteq (1..lastKey) \ revoked
  /\ Cardinality(DOMAIN keys) <= MaxApiKeys
  /\ \A k \in DOMAIN keys : keys[k] \in [expires : Nat, used : 0..MaxKeyTime]

\* last_used_at trails the latest use by less than API_KEY_TOUCH_SEC: the
\* throttle loses no more than that, and a slow request that read the clock
\* before a faster one does not set it back.
LastUsedFresh ==
  \A k \in DOMAIN keys :
    /\ keys[k].used <= uses[k]
    /\ uses[k] # Never => keys[k].used # Never /\ uses[k] - keys[k].used < TouchSec
=============================================================================
