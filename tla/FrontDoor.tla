----------------------------- MODULE FrontDoor -----------------------------
(***************************************************************************)
(* The way of a request into the API: the rate limiter, which verifies the *)
(* token to know whom to count it for (middleware/rate_limit.py), then the *)
(* authentication, which verifies it again (middleware/auth.py), then the  *)
(* handler.  The first two run on the event loop and hold it while they    *)
(* fetch keys; between them other requests get their turn.                 *)
(***************************************************************************)
EXTENDS KeyCache

CONSTANTS
  Slots,      \* clients; each has one call under way at a time
  Subjects,   \* users, OAuth clients, organisations and addresses
  Jwts,       \* tokens of Keycloak
  Secrets,    \* API keys
  Calls,      \* the calls that a client makes
  Limit,      \* the limit per minute of each axis
  MaxMinute,  \* the clock stops here; by then tokens of earlier minutes are expired
  MaxCalls,   \* bound on the calls that begin in a minute
  Nobody      \* no subject, no header, no call

Jwt == [user : Subjects, azp : Subjects \cup {Nobody}, org : Subjects \cup {Nobody},
        key : Keys, until : Nat]
Secret == [owner : Subjects, valid : BOOLEAN]

\* A blank header has no scheme.
Header == [scheme : {"Bearer", "bearer", "Basic", ""}, token : Jwts \cup Secrets]

\* An endpoint may demand a credential, take one, or not look for one.
Call == [header : Header \cup {Nobody}, endpoint : {"required", "optional", "open"},
         tool : BOOLEAN, ip : Subjects]

Buckets == {"anon", "user", "azp", "org"} \X Subjects

ASSUME FrontDoorAssumption ==
  /\ Jwts \subseteq Jwt
  /\ Secrets \subseteq Secret
  /\ Jwts \cap Secrets = {}
  /\ Calls \in [Slots -> SUBSET Call]
  /\ Limit \in [{"anon", "user", "azp", "org"} -> Nat]
  /\ MaxMinute \in Nat /\ MaxCalls \in Nat
  /\ Nobody \notin Subjects \cup Header \cup Call \cup Slots

VARIABLES
  minute,   \* the window of the clock
  begun,    \* calls begun in this window
  counts,   \* _counts in this window: those of earlier ones are not read again
  passed,   \* history: requests that every bucket let through in this window
  loop,     \* the request that holds the event loop for a second fetch
  request   \* the calls under way

clockVars == <<minute, begun>>
countVars == <<counts, passed>>
doorVars  == <<clockVars, countVars, loop, request>>

Stages == {"idle", "tool", "limiting", "limitingAgain", "admitted", "authenticatingAgain",
           "serving", "answered", "responding"}

InApi == {"limiting", "limitingAgain", "admitted", "authenticatingAgain", "serving"}

Request == [
  stage   : Stages,
  call    : Call \cup {Nobody},
  sent    : Header \cup {Nobody},    \* the Authorization header the API got
  caller  : Subjects \cup {Nobody},  \* the user it is served as
  answer  : {"ok", "unauthorized", "failed", "none"},  \* of the API: 200, 401, any other
  flag    : BOOLEAN,                 \* _gallery_auth_failed of a tool call
  counted : SUBSET Buckets,          \* history: the buckets it was counted in
  steady  : BOOLEAN]                 \* history: Keycloak has not changed since then

Idle == [stage |-> "idle", call |-> Nobody, sent |-> Nobody, caller |-> Nobody,
         answer |-> "none", flag |-> FALSE, counted |-> {}, steady |-> TRUE]

Becomes(r, new) == request' = [request EXCEPT ![r] = new]

Move(r, s) == Becomes(r, [request[r] EXCEPT !.stage = s])

\* The request is over in the API: nothing of it remains but the answer.
Over(q, a) == [q EXCEPT !.stage = "answered", !.answer = a, !.sent = Nobody,
                        !.caller = Nobody, !.counted = {}, !.steady = TRUE]

Reply(r, a) == Becomes(r, Over(request[r], a))
----------------------------------------------------------------------------
(* decode_and_verify.  A first try that finds the token invalid empties the
   cache and fetches again; expiry is final, and so is a fetch that raises.
   An API key has no signature, so it is invalid as a token. *)

Token(r) == request[r].sent.token

Judge(t, keys) ==
  CASE keys = NoKeys -> "error"
    [] keys # NoKeys /\ (t \notin Jwts \/ t.key \notin keys) -> "invalid"
    [] keys # NoKeys /\ t \in Jwts /\ t.key \in keys /\ minute > t.until -> "expired"
    [] OTHER -> "ok"

Verdict(r) == Judge(Token(r), Fetched)

\* The loop is kept for a second try.
TryAgain(r, s) ==
  /\ Verdict(r) = "invalid"
  /\ ForgetFetched
  /\ loop' = r
  /\ Move(r, s)

\* The first try of a request, and its second.
FirstUnheld(r, s) == request[r].stage = s  \* mutant: other requests run during the fetch

First(r, s) == request[r].stage = s /\ loop = Nobody

Again(r, s) == request[r].stage = s /\ loop = r
----------------------------------------------------------------------------
(* RateLimitMiddleware *)

\* _identify: the buckets of a verified token, or that of the address.
BucketsOf(r, verified) ==
  IF ~verified THEN {<<"anon", request[r].call.ip>>}
  ELSE {b \in Buckets : \/ b = <<"user", Token(r).user>>
                        \/ b = <<"azp", Token(r).azp>>
                        \/ b = <<"org", Token(r).org>>}

Before(b, c) == <<b[1], c[1]>> \in {<<"user", "azp">>, <<"user", "org">>, <<"azp", "org">>}

FullLate(b) == counts[b] > Limit[b[1]]  \* mutant: compares before it counts

Full(b) == counts[b] + 1 > Limit[b[1]]

\* dispatch counts one bucket after the other, up to the first that is full.
Reached(B) == {b \in B : \A c \in B : Before(c, b) => ~Full(c)}

Limited(r, B) ==
  /\ counts' = [b \in Buckets |-> IF b \in Reached(B) THEN counts[b] + 1 ELSE counts[b]]
  /\ \/ /\ \E b \in B : Full(b)
        /\ Reply(r, "failed")
        /\ passed' = passed
     \/ /\ \A b \in B : ~Full(b)
        /\ Becomes(r, [request[r] EXCEPT !.stage = "admitted", !.counted = B])
        /\ passed' = [b \in Buckets |-> IF b \in B THEN passed[b] + 1 ELSE passed[b]]
  /\ UNCHANGED <<clockVars, realmVars>>

\* The scheme is compared as it is written.
IsBearer(r) == request[r].sent # Nobody /\ request[r].sent.scheme = "Bearer"

LimitAnonymous(r) ==
  /\ First(r, "limiting")
  /\ ~IsBearer(r)
  /\ Limited(r, BucketsOf(r, FALSE))
  /\ UNCHANGED <<cacheVars, loop>>

LimitBearer(r) ==
  /\ First(r, "limiting")
  /\ IsBearer(r)
  /\ \/ /\ TryAgain(r, "limitingAgain")
        /\ UNCHANGED <<clockVars, countVars, realmVars>>
     \/ /\ Verdict(r) # "invalid"
        /\ KeepFetched
        /\ Limited(r, BucketsOf(r, Verdict(r) = "ok"))
        /\ loop' = loop

LimitAgain(r) ==
  /\ Again(r, "limitingAgain")
  /\ KeepFetched
  /\ loop' = Nobody
  /\ Limited(r, BucketsOf(r, Verdict(r) = "ok"))
----------------------------------------------------------------------------
(* get_current_user and get_optional_user *)

\* HTTPBearer knows the scheme in any spelling.
HasCredentials(r) == request[r].sent # Nobody /\ request[r].sent.scheme \in {"Bearer", "bearer"}

Accept(r, u) ==
  Becomes(r, [request[r] EXCEPT !.stage = "serving", !.caller = u, !.counted = {}, !.steady = TRUE])

Refuse(r) == Reply(r, "unauthorized")

\* Nothing to verify, or an API key, which is looked up in the database.
AuthenticateWithoutToken(r) ==
  /\ First(r, "admitted")
  /\ LET endpoint == request[r].call.endpoint IN
     IF endpoint = "open" \/ (endpoint = "optional" /\ ~HasCredentials(r)) THEN Accept(r, Nobody)
     ELSE IF ~HasCredentials(r) THEN Refuse(r)
     ELSE /\ Token(r) \in Secrets
          /\ IF Token(r).valid THEN Accept(r, Token(r).owner) ELSE Refuse(r)
  /\ UNCHANGED <<clockVars, countVars, keyVars, loop>>

Judged(r) == IF Verdict(r) = "ok" THEN Accept(r, Token(r).user) ELSE Refuse(r)

HasJwt(r) ==
  /\ request[r].call.endpoint # "open" /\ HasCredentials(r)
  /\ Token(r) \in Jwts

AuthenticateToken(r) ==
  /\ First(r, "admitted") /\ HasJwt(r)
  /\ \/ TryAgain(r, "authenticatingAgain")
     \/ /\ Verdict(r) # "invalid"
        /\ KeepFetched
        /\ Judged(r)
        /\ loop' = loop
  /\ UNCHANGED <<clockVars, countVars, realmVars>>

AuthenticateAgain(r) ==
  /\ Again(r, "authenticatingAgain")
  /\ KeepFetched
  /\ Judged(r)
  /\ loop' = Nobody
  /\ UNCHANGED <<clockVars, countVars, realmVars>>

\* The handler, which the other modules model, on a thread of the pool.
Serve(r) ==
  /\ request[r].stage = "serving"
  /\ \E a \in {"ok", "failed"} : Reply(r, a)
  /\ UNCHANGED <<clockVars, countVars, keyVars, loop>>
============================================================================
