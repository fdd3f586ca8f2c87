------------------------------ MODULE ApiKeys ------------------------------
(***************************************************************************)
(* The life of an opaque API key: issued, presented, revoked one by one or *)
(* all at once (routers/me.py, middleware/auth.py).  A row is loaded by one *)
(* statement and written by a later commit, which touches only the columns *)
(* the session changed; requests interleave between the two.               *)
(***************************************************************************)
EXTENDS Integers

CONSTANTS
  Workers,   \* threads of the pool
  KeyIds,    \* primary keys of api_keys
  Users,     \* rows of the users table
  Scopes,    \* permission scopes, "apikey:create" among them
  Logins,    \* [id, scopes] of the JWTs a client can present
  KeyTTL,    \* lifetime of a key, DEFAULT_TTL_DAYS
  MaxTime,   \* bound of the clock
  Crashes,   \* whether the process may be killed and restarted
  Absent,    \* the row that was never inserted
  None       \* NULL

Time == 0 .. MaxTime

\* The columns of api_keys that decide something.
ApiKey == [user_id : Users, scopes : SUBSET Scopes, expires_at : Nat,
           last_used_at : Time \cup {None}, revoked_at : Time \cup {None}]

\* An AuthenticatedUser; key is the id in its azp, None for a JWT.
Caller == [id : Users, scopes : SUBSET Scopes, key : KeyIds \cup {None}]

\* A row of prompt_events about a key, or about a user after a sweep.
Event == [action : {"issued", "revoked"}, id : KeyIds]
         \cup [action : {"logout_everywhere"}, id : Users]

ASSUME ApiKeysAssumption ==
  /\ KeyTTL \in Nat /\ MaxTime \in Nat
  /\ Crashes \in BOOLEAN
  /\ Logins \subseteq [id : Users, scopes : SUBSET Scopes]
  /\ Absent \notin ApiKey /\ None \notin ApiKey /\ None \notin Caller
  /\ None \notin Time /\ None \notin KeyIds

VARIABLES
  keys,    \* the api_keys table
  clock,   \* datetime.now
  audit,   \* prompt_events about keys and sweeps
  pc,      \* where the request of a worker stands
  caller,  \* its AuthenticatedUser
  target,  \* the key it works on
  loaded,  \* the row its session loaded
  sweep,   \* the keys logout_everywhere loaded
  failed   \* whether Keycloak refused to end the sessions

vars == <<keys, clock, audit, pc, caller, target, loaded, sweep, failed>>

session == <<caller, target, loaded, sweep, failed>>

PCs == {"idle", "authenticating", "ready", "issued", "revoking", "revoked",
        "selecting", "sweeping", "swept"}

Init ==
  /\ keys   = [k \in KeyIds |-> Absent]
  /\ clock  = 0
  /\ audit  = {}
  /\ pc     = [w \in Workers |-> "idle"]
  /\ caller = [w \in Workers |-> None]
  /\ target = [w \in Workers |-> None]
  /\ loaded = [w \in Workers |-> None]
  /\ sweep  = [w \in Workers |-> {}]
  /\ failed = [w \in Workers |-> FALSE]

Goto(w, label) == pc' = [pc EXCEPT ![w] = label]

\* The response is sent and the session is closed.
Respond(w) ==
  /\ Goto(w, "idle")
  /\ caller' = [caller EXCEPT ![w] = None]
  /\ target' = [target EXCEPT ![w] = None]
  /\ loaded' = [loaded EXCEPT ![w] = None]
  /\ sweep'  = [sweep EXCEPT ![w] = {}]
  /\ failed' = [failed EXCEPT ![w] = FALSE]

Active(k) == keys[k] # Absent /\ keys[k].revoked_at = None
----------------------------------------------------------------------------
(* Authentication. *)

\* A verified JWT.
Login(w) ==
  /\ pc[w] = "idle"
  /\ \E c \in Logins :
       caller' = [caller EXCEPT ![w] = [id |-> c.id, scopes |-> c.scopes, key |-> None]]
  /\ Goto(w, "ready")
  /\ UNCHANGED <<keys, clock, audit, target, loaded, sweep, failed>>

\* A key: its row is found by the hash and must not be revoked ...
PresentKey(w) ==
  /\ pc[w] = "idle"
  /\ \E k \in KeyIds :
       /\ Active(k)
       /\ target' = [target EXCEPT ![w] = k]
       /\ loaded' = [loaded EXCEPT ![w] = keys[k]]
  /\ Goto(w, "authenticating")
  /\ UNCHANGED <<keys, clock, audit, caller, sweep, failed>>

ExpiredNever(key) == FALSE  \* mutant: the expiry is not looked at

Expired(key) == key.expires_at < clock

UsedAsLoaded(key, row) == [row EXCEPT !.last_used_at = clock]  \* mutant: writes all columns

\* The UPDATE that stamps the use: key is the stored row, row the loaded one.
Used(key, row) == [key EXCEPT !.last_used_at = clock]

\* ... nor expired; the use is stamped and the scopes are the snapshot.
AcceptKey(w) ==
  /\ pc[w] = "authenticating"
  /\ ~Expired(loaded[w])
  /\ keys' = [keys EXCEPT ![target[w]] = Used(keys[target[w]], loaded[w])]
  /\ caller' = [caller EXCEPT ![w] = [id |-> loaded[w].user_id,
                                      scopes |-> loaded[w].scopes, key |-> target[w]]]
  /\ target' = [target EXCEPT ![w] = None]
  /\ loaded' = [loaded EXCEPT ![w] = None]
  /\ Goto(w, "ready")
  /\ UNCHANGED <<clock, audit, sweep, failed>>

RefuseKey(w) ==
  /\ pc[w] = "authenticating"
  /\ Expired(loaded[w])
  /\ Respond(w)
  /\ UNCHANGED <<keys, clock, audit>>
----------------------------------------------------------------------------
(* POST /me/api-keys. *)

MayIssueAnything(c) == "apikey:create" \in c.scopes  \* mutant: a key mints keys

MayIssue(c) == "apikey:create" \in c.scopes /\ c.key = None

NewKeyEternal(c) ==  \* mutant: the expiry is left NULL
  [user_id |-> c.id, scopes |-> c.scopes, expires_at |-> None,
   last_used_at |-> None, revoked_at |-> None]

NewKey(c) == [user_id |-> c.id, scopes |-> c.scopes, expires_at |-> clock + KeyTTL,
              last_used_at |-> None, revoked_at |-> None]

CreateApiKey(w) ==
  /\ pc[w] = "ready"
  /\ MayIssue(caller[w])
  /\ \E k \in KeyIds :
       /\ keys[k] = Absent
       /\ keys'   = [keys EXCEPT ![k] = NewKey(caller[w])]
       /\ target' = [target EXCEPT ![w] = k]
  /\ Goto(w, "issued")
  /\ UNCHANGED <<clock, audit, caller, loaded, sweep, failed>>
----------------------------------------------------------------------------
(* DELETE /me/api-keys/{id}. *)

MayRevoke(key, c) == key.user_id = c.id /\ key.revoked_at = None

\* The key is loaded, found to be the caller's and still active ...
LoadKey(w) ==
  /\ pc[w] = "ready"
  /\ \E k \in KeyIds :
       /\ keys[k] # Absent
       /\ MayRevoke(keys[k], caller[w])
       /\ target' = [target EXCEPT ![w] = k]
  /\ Goto(w, "revoking")
  /\ UNCHANGED <<keys, clock, audit, caller, loaded, sweep, failed>>

\* ... and the UPDATE of revoked_at is committed.
RevokeKey(w) ==
  /\ pc[w] = "revoking"
  /\ keys' = [keys EXCEPT ![target[w]].revoked_at = clock]
  /\ Goto(w, "revoked")
  /\ UNCHANGED <<clock, audit>> /\ UNCHANGED session
----------------------------------------------------------------------------
(* POST /me/logout-everywhere. *)

\* A refusal or a timeout of Keycloak, or no connection to it, is noted and does
\* not stop the handler.
LogoutAllSessions(w) ==
  /\ pc[w] = "ready"
  /\ \E refused \in BOOLEAN : failed' = [failed EXCEPT ![w] = refused]
  /\ Goto(w, "selecting")
  /\ UNCHANGED <<keys, clock, audit, caller, target, loaded, sweep>>

\* A 200 of Keycloak without a token in it raises an error that the handler does
\* not catch: 500, and no key is looked at.
BreakLogout(w) ==
  /\ pc[w] = "ready"
  /\ Respond(w)
  /\ UNCHANGED <<keys, clock, audit>>

ActiveKeys(w) == {k \in KeyIds : Active(k) /\ keys[k].user_id = caller[w].id}

SelectActiveKeys(w) ==
  /\ pc[w] = "selecting"
  /\ sweep' = [sweep EXCEPT ![w] = ActiveKeys(w)]
  /\ Goto(w, "sweeping")
  /\ UNCHANGED <<keys, clock, audit, caller, target, loaded, failed>>

\* One commit revokes the keys that were loaded.
SweptUnlessFailed(w) ==  \* mutant: 502 is raised before the commit
  [k \in KeyIds |-> IF k \in sweep[w] /\ ~failed[w]
                    THEN [keys[k] EXCEPT !.revoked_at = clock] ELSE keys[k]]

Swept(w) ==
  [k \in KeyIds |-> IF k \in sweep[w]
                    THEN [keys[k] EXCEPT !.revoked_at = clock] ELSE keys[k]]

SweepKeys(w) ==
  /\ pc[w] = "sweeping"
  /\ keys' = Swept(w)
  /\ Goto(w, "swept")
  /\ UNCHANGED <<clock, audit>> /\ UNCHANGED session

\* 502: the sessions are not ended, the keys are revoked, nothing is audited.
ReportFailure(w) ==
  /\ pc[w] = "swept"
  /\ failed[w]
  /\ Respond(w)
  /\ UNCHANGED <<keys, clock, audit>>
----------------------------------------------------------------------------
EventOf(w) ==
  IF pc[w] = "issued" THEN [action |-> "issued", id |-> target[w]]
  ELSE IF pc[w] = "swept" THEN [action |-> "logout_everywhere", id |-> caller[w].id]
  ELSE [action |-> "revoked", id |-> target[w]]

AuditedEarly == {"issued", "revoking", "swept"}  \* mutant: before the commit

\* Where the handlers call write_event: behind their commit.
Audited == {"issued", "revoked", "swept"}

\* write_event commits in a transaction of its own, then the response is sent.
WriteEvent(w) ==
  /\ pc[w] \in Audited
  /\ ~failed[w]
  /\ audit' = audit \cup {EventOf(w)}
  /\ Respond(w)
  /\ UNCHANGED <<keys, clock>>

\* Any other endpoint, and 403, 404 and 409.
Other(w) ==
  /\ pc[w] = "ready"
  /\ Respond(w)
  /\ UNCHANGED <<keys, clock, audit>>

Tick ==
  /\ clock < MaxTime
  /\ clock' = clock + 1
  /\ UNCHANGED <<keys, audit, pc>> /\ UNCHANGED session

Crash ==
  /\ Crashes
  /\ pc # [w \in Workers |-> "idle"]
  /\ pc'     = [w \in Workers |-> "idle"]
  /\ caller' = [w \in Workers |-> None]
  /\ target' = [w \in Workers |-> None]
  /\ loaded' = [w \in Workers |-> None]
  /\ sweep'  = [w \in Workers |-> {}]
  /\ failed' = [w \in Workers |-> FALSE]
  /\ UNCHANGED <<keys, clock, audit>>

Step(w) ==
  \/ Login(w) \/ PresentKey(w) \/ AcceptKey(w) \/ RefuseKey(w)
  \/ CreateApiKey(w)
  \/ LoadKey(w) \/ RevokeKey(w)
  \/ LogoutAllSessions(w) \/ BreakLogout(w)
  \/ SelectActiveKeys(w) \/ SweepKeys(w) \/ ReportFailure(w)
  \/ WriteEvent(w) \/ Other(w)

Next == Tick \/ Crash \/ \E w \in Workers : Step(w)

Spec == Init /\ [][Next]_vars
----------------------------------------------------------------------------
(* Correctness. *)

\* Every variable has its type.
TypeOK ==
  /\ keys   \in [KeyIds -> ApiKey \cup {Absent}]
  /\ clock  \in Time
  /\ audit  \subseteq Event
  /\ pc     \in [Workers -> PCs]
  /\ caller \in [Workers -> Caller \cup {None}]
  /\ target \in [Workers -> KeyIds \cup {None}]
  /\ loaded \in [Workers -> ApiKey \cup {None}]
  /\ sweep  \in [Workers -> SUBSET KeyIds]
  /\ failed \in [Workers -> BOOLEAN]

\* A revoked key stays revoked, whoever is presenting it or stamping its use
\* at that moment, and nothing changes whose key it is, what it may do or when
\* it ends.
RevocationFinal ==
  [][\A k \in KeyIds :
       keys[k] # Absent =>
         /\ keys'[k] # Absent
         /\ keys'[k].user_id = keys[k].user_id
         /\ keys'[k].scopes = keys[k].scopes
         /\ keys'[k].expires_at = keys[k].expires_at
         /\ ~Active(k) => keys'[k].revoked_at # None]_vars

\* A key comes from an interactive login of its owner, with the scopes of that
\* login: keys do not mint keys, so revoking the keys of a user cuts the tree.
MintedInteractively ==
  [][\A k \in KeyIds :
       keys[k] = Absent /\ keys'[k] # Absent =>
         \E c \in Logins : /\ c.id = keys'[k].user_id
                           /\ c.scopes = keys'[k].scopes
                           /\ "apikey:create" \in c.scopes
                           /\ \E w \in Workers : /\ caller[w] # None
                                                 /\ caller[w].id = c.id
                                                 /\ caller[w].key = None]_vars

\* A key is revoked only by a request of the user it belongs to.
RevokedByOwner ==
  [][\A k \in KeyIds :
       Active(k) /\ keys'[k].revoked_at # None =>
         \E w \in Workers : /\ pc[w] \in {"revoking", "sweeping"}
                            /\ caller[w].id = keys[k].user_id]_vars

\* From its first day to its last a key is its owner's: issued by a login of the
\* owner and revoked by a request of the owner, by whatever chain of keys,
\* sessions and overlapping revocations.
KeysOwned == MintedInteractively /\ RevokedByOwner

\* When logout_everywhere answers 204 or 502, every key it found is revoked.  It
\* finds none if the answer of Keycloak breaks it (500, BreakLogout).
SweepCovers ==
  \A w \in Workers : pc[w] = "swept" => \A k \in sweep[w] : ~Active(k)

\* No key was used after its last day, although the clock runs on between the
\* SELECT of the row and the UPDATE of last_used_at.
UsedBeforeExpiry ==
  \A k \in KeyIds :
    keys[k] # Absent /\ keys[k].last_used_at # None =>
      keys[k].last_used_at <= keys[k].expires_at

\* The audit trail is never ahead of the table: a key with an event "issued"
\* exists, one with an event "revoked" is revoked, whatever crashed.
AuditNeverAhead ==
  \A e \in audit :
    /\ e.action \in {"issued", "revoked"} => keys[e.id] # Absent
    /\ e.action = "revoked" => ~Active(e.id)
----------------------------------------------------------------------------
(* A sentence of the documentation that the code does not keep. *)

\* me.py: logout-everywhere revokes all active API keys of the caller.
SweepTotal ==
  [][\A w \in Workers :
       pc[w] = "sweeping" /\ pc'[w] = "swept" =>
         \A k \in KeyIds :
           keys'[k] # Absent /\ keys'[k].user_id = caller[w].id =>
             keys'[k].revoked_at # None]_vars
============================================================================
