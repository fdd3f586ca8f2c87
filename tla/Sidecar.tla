------------------------------ MODULE Sidecar ------------------------------
(***************************************************************************)
(* The gallery as its clients see it: calls that reach the API directly,   *)
(* and tool calls that pass through the MCP sidecar (gallery_mcp/), which  *)
(* forwards the header of its caller and turns a 401 of the API into one   *)
(* of its own.                                                             *)
(***************************************************************************)
EXTENDS FrontDoor

galleryVars == <<doorVars, keyVars>>

GalleryTypeOK ==
  /\ KeysTypeOK
  /\ minute \in 0..MaxMinute
  /\ begun \in 0..MaxCalls
  /\ counts \in [Buckets -> Nat] /\ passed \in [Buckets -> Nat]
  /\ loop \in Slots \cup {Nobody}
  /\ request \in [Slots -> Request]

GalleryInit ==
  /\ KeysInit
  /\ minute = 0 /\ begun = 0
  /\ counts = [b \in Buckets |-> 0] /\ passed = [b \in Buckets |-> 0]
  /\ loop = Nobody
  /\ request = [r \in Slots |-> Idle]
----------------------------------------------------------------------------
(* Calls.  The context variable _authorization of a tool call holds the header
   that came with it. *)

Begin(r, c, s, h) ==
  /\ request[r].stage = "idle"
  /\ begun < MaxCalls
  /\ begun' = begun + 1
  /\ Becomes(r, [Idle EXCEPT !.stage = s, !.call = c, !.sent = h])
  /\ UNCHANGED <<minute, countVars, loop, keyVars>>

CallApi(r) == \E c \in Calls[r] : ~c.tool /\ Begin(r, c, "limiting", c.header)

\* _AuthMiddleware: without a header it answers itself.
CallTool(r) == \E c \in Calls[r] :
  c.tool /\ Begin(r, c, IF c.header = Nobody THEN "responding" ELSE "tool", Nobody)

Captured(r) == request[r].call.header

\* A tool with a blank header raises, any other asks the API.
Forward(r) ==
  /\ request[r].stage = "tool"
  /\ IF Captured(r).scheme = "" THEN Move(r, "responding")
     ELSE Becomes(r, [request[r] EXCEPT !.stage = "limiting", !.sent = Captured(r)])
  /\ UNCHANGED <<clockVars, countVars, loop, keyVars>>

\* GALLERY_REQUEST_TIMEOUT: the tool has failed, and the API goes on for nobody.
TimeOut(r) ==
  /\ request[r].stage \in InApi /\ request[r].call.tool
  /\ Becomes(r, [request[r] EXCEPT !.call.tool = FALSE])
  /\ UNCHANGED <<clockVars, countVars, loop, keyVars>>

\* The tool notes a 401.  Whether the middleware sees the note depends on the
\* context in which the MCP library runs the tool.
ToolReturns(r) ==
  /\ request[r].stage = "answered" /\ request[r].call.tool
  /\ \E shared \in BOOLEAN :
       Becomes(r, [request[r] EXCEPT !.stage = "responding",
                                     !.flag = request[r].answer = "unauthorized" /\ shared])
  /\ UNCHANGED <<clockVars, countVars, loop, keyVars>>

FlagAnywhere(r) == \E q \in Slots : request[q].flag  \* mutant: one flag for all calls

Flagged(r) == request[r].flag

\* The status of the answer to a tool call (_send_401, _patched_send).
Status(r) ==
  IF request[r].call.header = Nobody \/ Flagged(r) THEN "unauthorized"
  ELSE IF request[r].answer = "ok" THEN "ok" ELSE "failed"

\* The answer has reached the client; the contexts are reset.
Respond(r) ==
  /\ \/ request[r].stage = "responding"
     \/ request[r].stage = "answered" /\ ~request[r].call.tool
  /\ Becomes(r, Idle)
  /\ UNCHANGED <<clockVars, countVars, loop, keyVars>>
----------------------------------------------------------------------------
(* The environment. *)

Deciding(r) == request[r].stage \in {"admitted", "authenticatingAgain"}

KeycloakStep ==
  /\ RotateKeys \/ ChangeReachability
  /\ request' = [r \in Slots |-> [request[r] EXCEPT !.steady = @ /\ ~Deciding(r)]]
  /\ UNCHANGED <<clockVars, countVars, loop>>

CacheExpires == ExpireKeys /\ UNCHANGED doorVars

\* A new minute, in which nothing has been counted yet.
Tick ==
  /\ minute' = IF minute < MaxMinute THEN minute + 1 ELSE minute
  /\ begun' = 0
  /\ counts' = [b \in Buckets |-> 0] /\ passed' = [b \in Buckets |-> 0]
  /\ UNCHANGED <<loop, request, keyVars>>

\* The API process dies with the requests in it, and starts anew.
RestartApi ==
  /\ jwks' = NoKeys /\ staleJwks' = NoKeys
  /\ counts' = [b \in Buckets |-> 0] /\ passed' = [b \in Buckets |-> 0]
  /\ loop' = Nobody
  /\ request' = [r \in Slots |-> IF request[r].stage \in InApi THEN Over(request[r], "failed")
                                 ELSE request[r]]
  /\ UNCHANGED <<clockVars, realmVars>>

LoopStep(r) ==
  \/ LimitAnonymous(r) \/ LimitBearer(r) \/ LimitAgain(r)
  \/ AuthenticateWithoutToken(r) \/ AuthenticateToken(r) \/ AuthenticateAgain(r)

CallStep(r) ==
  \/ CallApi(r) \/ CallTool(r) \/ Forward(r) \/ TimeOut(r)
  \/ ToolReturns(r) \/ Respond(r) \/ Serve(r)

GalleryNext ==
  \/ \E r \in Slots : LoopStep(r) \/ CallStep(r)
  \/ KeycloakStep \/ CacheExpires \/ Tick \/ RestartApi

\* Time passes for the keys in the cache.
GalleryFairness == WF_galleryVars(CacheExpires)

GallerySpec == GalleryInit /\ [][GalleryNext]_galleryVars /\ GalleryFairness
----------------------------------------------------------------------------
(* Properties. *)

\* A token that has not expired is refused only if its key is not known to
\* Keycloak, or, while that is down, was not when it last answered; an API key
\* only if it is not valid, whatever Keycloak does (jwt_utils.py:70-86, auth.py:137-149).
GenuineRefused(r) ==
  /\ request[r].stage \in InApi /\ request'[r].answer = "unauthorized"
  /\ HasCredentials(r)
  /\ \/ /\ Token(r) \in Jwts /\ minute <= Token(r).until
        /\ IF reachable THEN Token(r).key \in published
           ELSE staleJwks # NoKeys /\ Token(r).key \in staleJwks
     \/ Token(r) \in Secrets /\ Token(r).valid

GenuineAccepted == [][\A r \in Slots : ~GenuineRefused(r)]_galleryVars

AcceptedKey(r, k) ==
  /\ Deciding(r) /\ request'[r].stage = "serving" /\ request'[r].caller # Nobody
  /\ Token(r) \in Jwts /\ Token(r).key = k

\* Once Keycloak answers and has withdrawn a key for good, tokens signed with it
\* are in the end refused, although copies of the key are kept (jwt_utils.py:38-55).
WithdrawnKeysFade == \A k \in Keys :
  <>[](reachable /\ k \notin published) =>
    <>[][~ \E r \in Slots : AcceptedKey(r, k)]_galleryVars

\* In a minute, one process lets no more requests through for an address, a user,
\* a client or an organisation than its limit (rate_limit.py:75-80).
WithinLimits == \A b \in Buckets : passed[b] <= Limit[b[1]]

\* A request served as the user of a token was counted for that user, although
\* the token is verified once to count it and once to serve it, and others empty
\* or fill the key cache in between.  Exceptions are a change at Keycloak in the
\* meantime and a scheme not written "Bearer" (rate_limit.py:56-73, auth.py:137-152).
ServedAsCounted == [][\A r \in Slots :
    (Deciding(r) /\ request'[r].stage = "serving" /\ request'[r].caller # Nobody
       /\ Token(r) \in Jwts /\ IsBearer(r) /\ request[r].steady) =>
    <<"user", request'[r].caller>> \in request[r].counted]_galleryVars

\* The API got the header of the caller, of no other call, and a tool call is
\* answered with 401 only if it had no header or the API said so, with a result
\* only if the API gave one (gallery_mcp/server.py:59-100).
ToolsAnswerTrue == \A r \in Slots :
  /\ request[r].stage \in InApi => request[r].sent = request[r].call.header
  /\ request[r].stage = "responding" =>
       /\ Status(r) = "unauthorized" =>
            request[r].call.header = Nobody \/ request[r].answer = "unauthorized"
       /\ Status(r) = "ok" => request[r].answer = "ok"
============================================================================
