------------------------------ MODULE KeyCache ------------------------------
(***************************************************************************)
(* The keys that tokens are verified with (utils/jwt_utils.py), for a      *)
(* deployment with a JWKS_URI: the key set that Keycloak publishes, the    *)
(* cached copy that ages, and the stale copy that is used while Keycloak   *)
(* does not answer.  Signatures are abstracted to the name of the key.     *)
(***************************************************************************)
EXTENDS Naturals

CONSTANTS
  Keys,     \* signing keys
  KeySets,  \* the sets of them that the realm may publish
  NoKeys    \* no key set

VARIABLES
  published,  \* the keys Keycloak publishes
  reachable,  \* whether it answers within ten seconds
  jwks,       \* _jwks_cache
  staleJwks   \* _stale_jwks

realmVars == <<published, reachable>>
cacheVars == <<jwks, staleJwks>>
keyVars   == <<realmVars, cacheVars>>

ASSUME KeyCacheAssumption ==
  /\ KeySets \subseteq SUBSET Keys
  /\ \A S \in KeySets : S # NoKeys

KeysTypeOK ==
  /\ published \in KeySets
  /\ reachable \in BOOLEAN
  /\ jwks = NoKeys \/ jwks \in KeySets
  /\ staleJwks = NoKeys \/ staleJwks \in KeySets

KeysInit ==
  /\ published \in KeySets
  /\ reachable \in BOOLEAN
  /\ jwks = NoKeys
  /\ staleJwks = NoKeys
----------------------------------------------------------------------------
(* _fetch_jwks.  Its result: the cached copy, else the answer of Keycloak,
   else the copy of the last answer, else nothing (it raises). *)

Asks == jwks = NoKeys /\ reachable

FetchedStale ==  \* mutant: the stale copy comes before Keycloak
  IF jwks # NoKeys THEN jwks ELSE IF staleJwks # NoKeys THEN staleJwks ELSE published

Fetched ==
  IF jwks # NoKeys THEN jwks ELSE IF reachable THEN published ELSE staleJwks

\* What a call of it leaves behind.
KeepFetched ==
  /\ jwks' = IF Asks THEN published ELSE jwks
  /\ staleJwks' = IF Asks THEN published ELSE staleJwks

\* The same, and then _get_jwks_cache().clear().
ForgetFetched ==
  /\ jwks' = NoKeys
  /\ staleJwks' = IF Asks THEN published ELSE staleJwks
----------------------------------------------------------------------------
(* The environment. *)

RotateKeys ==
  /\ published' \in KeySets \ {published}
  /\ UNCHANGED <<reachable, cacheVars>>

\* Keycloak goes down, or comes back.
ChangeReachability ==
  /\ reachable' = ~reachable
  /\ UNCHANGED <<published, cacheVars>>

ExpireNever == FALSE /\ UNCHANGED keyVars  \* mutant: the copy does not age

\* The time to live of the TTLCache passes.
ExpireKeys ==
  /\ jwks # NoKeys
  /\ jwks' = NoKeys
  /\ UNCHANGED <<realmVars, staleJwks>>
============================================================================
