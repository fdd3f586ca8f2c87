--------------------------- MODULE GalleryProofs ---------------------------
(***************************************************************************)
(* Proofs about the way into the gallery.  What makes the two looks at a   *)
(* token agree is Hopeless: a token that was not counted for its user      *)
(* could not be verified with any key at hand, and cannot be later, as     *)
(* long as nothing changes at Keycloak, whoever fills or empties the cache *)
(* in between.  That a second try finds the cache empty is because it      *)
(* holds the event loop.                                                   *)
(***************************************************************************)
EXTENDS Sidecar, TLAPS

USE KeyCacheAssumption, FrontDoorAssumption

\* No key at hand verifies the token.
Hopeless(t) ==
  \/ minute > t.until
  \/ reachable /\ (jwks = NoKeys \/ jwks = published) /\ t.key \notin published
  \/ ~reachable /\ jwks = NoKeys /\ (staleJwks = NoKeys \/ t.key \notin staleJwks)

CallTrue(r) ==
  /\ request[r].stage \in InApi => /\ request[r].sent = request[r].call.header
                                   /\ request[r].answer = "none"
                                   /\ request[r].call # Nobody
  /\ request[r].stage = "tool" => /\ request[r].call # Nobody /\ request[r].call.header # Nobody
                                  /\ request[r].answer = "none"
  /\ request[r].stage = "answered" => request[r].call # Nobody
  /\ request[r].stage = "authenticatingAgain" => Token(r) \in Jwts
  /\ request[r].flag => request[r].stage = "responding" /\ request[r].answer = "unauthorized"

CountedTrue(r) ==
  Deciding(r) /\ request[r].steady /\ IsBearer(r) /\ Token(r) \in Jwts =>
    <<"user", Token(r).user>> \in request[r].counted \/ Hopeless(Token(r))

LoopTrue == loop # Nobody => jwks = NoKeys

CountsTrue == \A b \in Buckets : passed[b] <= counts[b] /\ passed[b] <= Limit[b[1]]

GInv ==
  /\ GalleryTypeOK
  /\ LoopTrue /\ CountsTrue
  /\ \A r \in Slots : CallTrue(r) /\ CountedTrue(r)

\* What the two action properties say of one client.
Fair(r) ==
  (Deciding(r) /\ request'[r].stage = "serving" /\ request'[r].caller # Nobody
     /\ Token(r) \in Jwts /\ IsBearer(r) /\ request[r].steady) =>
  <<"user", request'[r].caller>> \in request[r].counted

StepTrue == \A r \in Slots : ~GenuineRefused(r) /\ Fair(r)

\* The rest of the state while one request moves.
Kept ==
  /\ UNCHANGED realmVars /\ (KeepFetched \/ ForgetFetched \/ UNCHANGED cacheVars)
  /\ minute' = minute /\ begun' \in 0..MaxCalls
  /\ counts' \in [Buckets -> Nat] /\ passed' \in [Buckets -> Nat] /\ CountsTrue'
  /\ loop' \in Slots \cup {Nobody} /\ LoopTrue'
----------------------------------------------------------------------------
LEMMA KeysTyped ==
  ASSUME KeysTypeOK, UNCHANGED realmVars, KeepFetched \/ ForgetFetched \/ UNCHANGED cacheVars
  PROVE  KeysTypeOK'
  BY DEF KeysTypeOK, realmVars, cacheVars, KeepFetched, ForgetFetched, Asks

LEMMA StaysHopeless ==
  ASSUME KeysTypeOK, NEW t \in Jwts, minute' = minute, UNCHANGED realmVars, Hopeless(t),
         KeepFetched \/ ForgetFetched \/ UNCHANGED cacheVars
  PROVE  Hopeless(t)'
  BY DEF KeysTypeOK, realmVars, cacheVars, KeepFetched, ForgetFetched, Asks, Hopeless

LEMMA OneTurn ==
  ASSUME GInv, NEW r \in Slots, Kept,
         request' = [request EXCEPT ![r] = request'[r]], request'[r] \in Request,
         CallTrue(r)', CountedTrue(r)', ~GenuineRefused(r), Fair(r)
  PROVE  GInv' /\ StepTrue
<1>1. request' \in [Slots -> Request] /\ \A q \in Slots \ {r} : request'[q] = request[q]
  BY DEF GInv, GalleryTypeOK
<1>2. GalleryTypeOK'
  BY <1>1, KeysTyped DEF GInv, GalleryTypeOK, Kept
<1>3. ASSUME NEW q \in Slots \ {r} PROVE CallTrue(q)' /\ CountedTrue(q)'
  <2>1. request'[q] = request[q] /\ CallTrue(q) /\ CountedTrue(q) /\ KeysTypeOK
    BY <1>1, <1>3 DEF GInv, GalleryTypeOK
  <2>2. CallTrue(q)'
    BY <2>1 DEF CallTrue, Token
  <2>3. CountedTrue(q)'
    BY <2>1, StaysHopeless DEF CountedTrue, Deciding, IsBearer, Token, Kept
  <2>4. QED
    BY <2>2, <2>3
<1>4. ASSUME NEW q \in Slots \ {r} PROVE ~GenuineRefused(q) /\ Fair(q)
  BY <1>1, <1>4 DEF GInv, CallTrue, GenuineRefused, Fair, Deciding
<1>5. QED
  BY <1>2, <1>3, <1>4 DEF GInv, StepTrue, Kept

\* A step that neither refuses the request nor begins to serve it.
LEMMA Harmless ==
  ASSUME NEW r \in Slots,
         request[r].stage \in InApi => request'[r].answer # "unauthorized",
         request'[r].stage # "serving"
  PROVE  ~GenuineRefused(r) /\ Fair(r)
  BY DEF GenuineRefused, Fair

LEMMA Typed ==
  ASSUME GInv, NEW r \in Slots
  PROVE  /\ request \in [Slots -> Request] /\ request[r] \in Request
         /\ request[r].call # Nobody => request[r].call \in Call
         /\ request[r].sent # Nobody => request[r].sent \in Header
         /\ KeysTypeOK
  BY DEF GInv, GalleryTypeOK, Request

\* A request that is answered.
LEMMA Overs ==
  ASSUME GInv, NEW r \in Slots, NEW a \in {"ok", "unauthorized", "failed"}, Reply(r, a)
  PROVE  /\ request' = [request EXCEPT ![r] = request'[r]] /\ request'[r] \in Request
         /\ request'[r].stage = "answered" /\ request'[r].answer = a
         /\ request'[r].call = request[r].call /\ request'[r].flag = request[r].flag
<1>1. request \in [Slots -> Request] /\ request[r] \in Request
  BY Typed
<1>2. /\ request' = [request EXCEPT ![r] = request'[r]]
      /\ request'[r] = [request[r] EXCEPT !.stage = "answered", !.answer = a, !.sent = Nobody,
                                          !.caller = Nobody, !.counted = {}, !.steady = TRUE]
  BY <1>1 DEF Reply, Becomes, Over
<1>3. QED
  BY <1>1, <1>2 DEF Request, Stages

LEMMA AnsweredTrue ==
  ASSUME NEW r \in Slots, request'[r].stage = "answered",
         request'[r].call # Nobody, ~request'[r].flag
  PROVE  CallTrue(r)' /\ CountedTrue(r)'
  BY DEF CallTrue, CountedTrue, Deciding, InApi

\* Fields that stay when only the stage changes.
LEMMA Moved ==
  ASSUME GInv, NEW r \in Slots, NEW s \in Stages, Move(r, s)
  PROVE  /\ request' = [request EXCEPT ![r] = request'[r]] /\ request'[r] \in Request
         /\ request'[r].stage = s /\ request'[r].answer = request[r].answer
         /\ request'[r].call = request[r].call /\ request'[r].flag = request[r].flag
         /\ request'[r].sent = request[r].sent /\ request'[r].counted = request[r].counted
         /\ request'[r].steady = request[r].steady
<1>1. request \in [Slots -> Request] /\ request[r] \in Request
  BY Typed
<1>2. /\ request' = [request EXCEPT ![r] = request'[r]]
      /\ request'[r] = [request[r] EXCEPT !.stage = s]
  BY <1>1 DEF Move, Becomes
<1>3. QED
  BY <1>1, <1>2 DEF Request

\* Steps outside the API leave keys, counts, clock and loop alone.
LEMMA Aside ==
  ASSUME GInv, UNCHANGED <<clockVars, countVars, loop, keyVars>>
  PROVE  Kept
  BY DEF GInv, GalleryTypeOK, Kept, clockVars, countVars, keyVars, realmVars, cacheVars,
     CountsTrue, LoopTrue
----------------------------------------------------------------------------
(* Tokens. *)

LEMMA VerdictMeans ==
  ASSUME GInv, NEW r \in Slots, Token(r) \in Jwts
  PROVE  /\ Verdict(r) \in {"ok", "expired", "error", "invalid"}
         /\ Verdict(r) = "ok" => /\ minute <= Token(r).until
                                 /\ Fetched # NoKeys /\ Token(r).key \in Fetched
         /\ Verdict(r) = "expired" => minute > Token(r).until
         /\ Verdict(r) = "error" => Fetched = NoKeys
         /\ Verdict(r) = "invalid" => Fetched # NoKeys /\ Token(r).key \notin Fetched
<1>1. Token(r).until \in Nat /\ minute \in Nat
  BY DEF GInv, GalleryTypeOK, Jwt
<1>2. QED
  BY <1>1 DEF Verdict, Judge

LEMMA OnlyTokens ==
  ASSUME NEW r \in Slots, Verdict(r) = "ok"
  PROVE  Token(r) \in Jwts
  BY DEF Verdict, Judge

LEMMA HopelessFails ==
  ASSUME GInv, NEW r \in Slots, Token(r) \in Jwts, Hopeless(Token(r))
  PROVE  Verdict(r) # "ok"
<1>1. Token(r).until \in Nat /\ minute \in Nat
  BY DEF GInv, GalleryTypeOK, Jwt
<1>2. QED
  BY <1>1, VerdictMeans DEF Hopeless, Fetched

\* A token that fails with the cache empty or not cleared since is hopeless.
LEMMA FailsHopeless ==
  ASSUME GInv, NEW r \in Slots, NEW t \in Jwts, Token(r) = t, Verdict(r) # "ok",
         Verdict(r) = "invalid" => jwks = NoKeys,
         KeepFetched, UNCHANGED realmVars, minute' = minute
  PROVE  Hopeless(t)'
<1>1. t.until \in Nat /\ minute \in Nat /\ KeysTypeOK
  BY DEF GInv, GalleryTypeOK, Jwt
<1>2. published' = published /\ reachable' = reachable
  BY DEF realmVars
<1>3. CASE Verdict(r) = "expired"
  BY <1>3, VerdictMeans DEF Hopeless
<1>4. CASE Verdict(r) = "error"
  BY <1>1, <1>2, <1>4, VerdictMeans DEF Hopeless, Fetched, KeepFetched, Asks, KeysTypeOK
<1>5. CASE Verdict(r) = "invalid"
  BY <1>1, <1>2, <1>5, VerdictMeans DEF Hopeless, Fetched, KeepFetched, Asks, KeysTypeOK
<1>6. QED
  BY <1>3, <1>4, <1>5, VerdictMeans
----------------------------------------------------------------------------
(* Calls. *)

LEMMA BeginTurns ==
  ASSUME GInv, NEW r \in Slots, NEW c \in Calls[r], NEW s \in {"limiting", "tool", "responding"},
         NEW h \in Header \cup {Nobody}, Begin(r, c, s, h),
         s = "limiting" => h = c.header, s = "tool" => c.header # Nobody
  PROVE  GInv' /\ StepTrue
<1>1. /\ request' = [request EXCEPT ![r] = request'[r]]
      /\ request'[r] = [Idle EXCEPT !.stage = s, !.call = c, !.sent = h]
  BY Typed DEF Begin, Becomes
<1>2. c \in Call /\ c # Nobody
  OBVIOUS
<1>3. /\ request'[r] \in Request /\ request'[r].stage = s /\ request'[r].call = c
      /\ request'[r].sent = h /\ request'[r].answer = "none" /\ request'[r].flag = FALSE
  <2>1. request'[r] = [stage |-> s, call |-> c, sent |-> h, caller |-> Nobody, answer |-> "none",
                       flag |-> FALSE, counted |-> {}, steady |-> TRUE]
    BY <1>1 DEF Idle
  <2>2. s \in Stages
    BY DEF Stages
  <2>3. QED
    BY <1>2, <2>1, <2>2 DEF Request
<1>4. CallTrue(r)' /\ CountedTrue(r)'
  BY <1>3, <1>2 DEF CallTrue, CountedTrue, Deciding, InApi
<1>5. ~GenuineRefused(r) /\ Fair(r)
  BY <1>3, Harmless
<1>6. Kept
  BY DEF GInv, GalleryTypeOK, Begin, Kept, clockVars, countVars, keyVars, realmVars, cacheVars,
     CountsTrue, LoopTrue
<1>7. QED
  BY <1>1, <1>3, <1>4, <1>5, <1>6, OneTurn

LEMMA CallsTurn == ASSUME GInv, NEW r \in Slots, CallApi(r) \/ CallTool(r) PROVE GInv' /\ StepTrue
<1>1. CASE CallApi(r)
  <2>1. PICK c \in Calls[r] : Begin(r, c, "limiting", c.header)
    BY <1>1 DEF CallApi
  <2>2. c.header \in Header \cup {Nobody}
    BY DEF Call
  <2>3. QED
    BY <2>1, <2>2, BeginTurns
<1>2. CASE CallTool(r)
  <2>1. PICK c \in Calls[r] : Begin(r, c, IF c.header = Nobody THEN "responding" ELSE "tool", Nobody)
    BY <1>2 DEF CallTool
  <2>2. CASE c.header = Nobody
    BY <2>1, <2>2, BeginTurns
  <2>3. CASE c.header # Nobody
    BY <2>1, <2>3, BeginTurns
  <2>4. QED
    BY <2>2, <2>3
<1>3. QED
  BY <1>1, <1>2

LEMMA ForwardTurns == ASSUME GInv, NEW r \in Slots, Forward(r) PROVE GInv' /\ StepTrue
<1>1. /\ request[r].stage = "tool" /\ request[r].call \in Call /\ request[r].call.header # Nobody
      /\ request[r].answer = "none" /\ request[r].flag \in BOOLEAN /\ ~request[r].flag
  BY Typed DEF Forward, GInv, CallTrue, Request
<1>2. Kept
  BY Aside DEF Forward
<1>3. CASE Captured(r).scheme = ""
  <2>1. Move(r, "responding")
    BY <1>3 DEF Forward
  <2>2. CallTrue(r)' /\ CountedTrue(r)' /\ ~GenuineRefused(r) /\ Fair(r)
    BY <1>1, <2>1, Moved, Harmless DEF Stages, CallTrue, CountedTrue, Deciding, InApi
  <2>3. QED
    BY <1>2, <2>1, <2>2, Moved, OneTurn DEF Stages
<1>4. CASE Captured(r).scheme # ""
  <2>1. request'[r] = [request[r] EXCEPT !.stage = "limiting", !.sent = Captured(r)]
        /\ request' = [request EXCEPT ![r] = request'[r]]
    BY <1>4, Typed DEF Forward, Becomes
  <2>2. Captured(r) \in Header
    BY <1>1 DEF Captured, Call
  <2>3. /\ request'[r] \in Request /\ request'[r].stage = "limiting"
        /\ request'[r].sent = request'[r].call.header /\ request'[r].answer = "none"
        /\ request'[r].call # Nobody /\ request'[r].flag = FALSE
    <3>1. /\ request[r] \in Request /\ request[r].flag = FALSE /\ request[r].call # Nobody
      BY <1>1, Typed
    <3>2. request[r].call.header = Captured(r)
      BY DEF Captured
    <3>3. QED
      BY <1>1, <2>1, <2>2, <3>1, <3>2 DEF Request, Stages
  <2>4. CallTrue(r)' /\ CountedTrue(r)' /\ ~GenuineRefused(r) /\ Fair(r)
    BY <2>3, Harmless DEF CallTrue, CountedTrue, Deciding, InApi
  <2>5. QED
    BY <1>2, <2>1, <2>3, <2>4, OneTurn
<1>5. QED
  BY <1>3, <1>4

LEMMA TimeOutTurns == ASSUME GInv, NEW r \in Slots, TimeOut(r) PROVE GInv' /\ StepTrue
<1>1. /\ request[r].stage \in InApi /\ request[r].call \in Call /\ request[r].answer = "none"
      /\ request[r].sent = request[r].call.header /\ ~request[r].flag /\ CountedTrue(r)
      /\ request[r] \in Request
  BY Typed DEF TimeOut, GInv, CallTrue, InApi
<1>2. request[r].stage = "authenticatingAgain" => Token(r) \in Jwts
  BY DEF GInv, CallTrue
<1>3. Kept
  BY Aside DEF TimeOut
<1>4. request'[r] = [request[r] EXCEPT !.call = [request[r].call EXCEPT !.tool = FALSE]]
      /\ request' = [request EXCEPT ![r] = request'[r]]
  BY Typed DEF TimeOut, Becomes
<1>5. /\ [request[r].call EXCEPT !.tool = FALSE] \in Call
      /\ [request[r].call EXCEPT !.tool = FALSE].header = request[r].call.header
  BY <1>1 DEF Call
<1>6. /\ request'[r] \in Request /\ request'[r].stage = request[r].stage
      /\ request'[r].sent = request[r].sent /\ request'[r].answer = "none"
      /\ request'[r].call = [request[r].call EXCEPT !.tool = FALSE]
      /\ request'[r].flag = request[r].flag /\ request'[r].counted = request[r].counted
      /\ request'[r].steady = request[r].steady
  BY <1>1, <1>4, <1>5 DEF Request
<1>7. CallTrue(r)'
  BY <1>1, <1>5, <1>6, <1>2 DEF CallTrue, InApi, Token
<1>8. CountedTrue(r)'
  <2>1. UNCHANGED <<minute, reachable, published, jwks, staleJwks>>
    BY DEF TimeOut, clockVars, keyVars, realmVars, cacheVars
  <2>2. QED
    BY <1>1, <1>6, <2>1 DEF CountedTrue, Deciding, IsBearer, Token, Hopeless
<1>9. ~GenuineRefused(r) /\ Fair(r)
  BY <1>6 DEF GenuineRefused, Fair, Deciding
<1>10. QED
  BY <1>3, <1>4, <1>6, <1>7, <1>8, <1>9, OneTurn

LEMMA ReturnTurns == ASSUME GInv, NEW r \in Slots, ToolReturns(r) PROVE GInv' /\ StepTrue
<1>1. Kept /\ request[r].stage = "answered"
  BY Aside DEF ToolReturns
<1>2. PICK flag \in BOOLEAN :
        /\ flag => request[r].answer = "unauthorized"
        /\ Becomes(r, [request[r] EXCEPT !.stage = "responding", !.flag = flag])
  <2>1. PICK shared \in BOOLEAN :
          Becomes(r, [request[r] EXCEPT !.stage = "responding",
                                        !.flag = request[r].answer = "unauthorized" /\ shared])
    BY DEF ToolReturns
  <2>2. (request[r].answer = "unauthorized" /\ shared) \in BOOLEAN
    OBVIOUS
  <2>3. QED
    BY <2>1, <2>2
<1>3. request'[r] = [request[r] EXCEPT !.stage = "responding", !.flag = flag]
      /\ request' = [request EXCEPT ![r] = request'[r]]
  BY <1>2, Typed DEF Becomes
<1>4. /\ request'[r] \in Request /\ request'[r].stage = "responding"
      /\ request'[r].flag = flag /\ request'[r].answer = request[r].answer
  BY <1>3, Typed DEF Request, Stages
<1>5. CallTrue(r)' /\ CountedTrue(r)' /\ ~GenuineRefused(r) /\ Fair(r)
  BY <1>1, <1>2, <1>4, Harmless DEF CallTrue, CountedTrue, Deciding, InApi
<1>6. QED
  BY <1>1, <1>3, <1>4, <1>5, OneTurn

LEMMA RespondTurns == ASSUME GInv, NEW r \in Slots, Respond(r) PROVE GInv' /\ StepTrue
<1>1. Kept
  BY Aside DEF Respond
<1>2. request'[r] = Idle /\ request' = [request EXCEPT ![r] = request'[r]]
  BY Typed DEF Respond, Becomes
<1>3. /\ request'[r] \in Request /\ request'[r].stage = "idle" /\ request'[r].answer = "none"
      /\ request'[r].flag = FALSE
  BY <1>2 DEF Idle, Request, Stages
<1>4. CallTrue(r)' /\ CountedTrue(r)' /\ ~GenuineRefused(r) /\ Fair(r)
  BY <1>3, Harmless DEF CallTrue, CountedTrue, Deciding, InApi
<1>5. QED
  BY <1>1, <1>2, <1>3, <1>4, OneTurn

LEMMA ServeTurns == ASSUME GInv, NEW r \in Slots, Serve(r) PROVE GInv' /\ StepTrue
<1>1. PICK a \in {"ok", "failed"} : Reply(r, a)
  BY DEF Serve
<1>2. Kept /\ request[r].stage = "serving" /\ request[r].call # Nobody /\ ~request[r].flag
  BY Aside DEF Serve, GInv, CallTrue, InApi
<1>3. CallTrue(r)' /\ CountedTrue(r)'
  BY <1>1, <1>2, Overs, AnsweredTrue
<1>4. ~GenuineRefused(r) /\ Fair(r)
  BY <1>1, Overs, Harmless
<1>5. QED
  BY <1>1, <1>2, <1>3, <1>4, Overs, OneTurn
----------------------------------------------------------------------------
(* The rate limiter. *)

\* What is counted is at least what was let through, and within the limit.
LEMMA LimitedCounts ==
  ASSUME GInv, NEW r \in Slots, NEW B \in SUBSET Buckets, Limited(r, B)
  PROVE  counts' \in [Buckets -> Nat] /\ passed' \in [Buckets -> Nat] /\ CountsTrue'
<1>1. /\ counts \in [Buckets -> Nat] /\ passed \in [Buckets -> Nat] /\ CountsTrue
      /\ \A b \in Buckets : b[1] \in {"anon", "user", "azp", "org"} /\ Limit[b[1]] \in Nat
  BY DEF GInv, GalleryTypeOK, Buckets
<1>2. counts' = [b \in Buckets |-> IF b \in Reached(B) THEN counts[b] + 1 ELSE counts[b]]
  BY DEF Limited
<1>3. CASE passed' = passed
  BY <1>1, <1>2, <1>3 DEF CountsTrue
<1>4. CASE /\ \A b \in B : ~Full(b)
           /\ passed' = [b \in Buckets |-> IF b \in B THEN passed[b] + 1 ELSE passed[b]]
  <2>1. Reached(B) = B
    BY <1>4 DEF Reached
  <2>2. counts' \in [Buckets -> Nat] /\ passed' \in [Buckets -> Nat]
    BY <1>1, <1>2, <1>4
  <2>3. ASSUME NEW b \in Buckets PROVE passed'[b] <= counts'[b] /\ passed'[b] <= Limit[b[1]]
    <3>1. CASE b \in B
      <4>1. passed'[b] = passed[b] + 1 /\ counts'[b] = counts[b] + 1
        BY <1>2, <1>4, <2>1, <3>1
      <4>2. ~(counts[b] + 1 > Limit[b[1]])
        BY <1>4, <3>1 DEF Full
      <4>3. /\ counts[b] \in Nat /\ passed[b] \in Nat /\ Limit[b[1]] \in Nat
            /\ passed[b] <= counts[b]
        BY <1>1 DEF CountsTrue
      <4>4. QED
        BY <4>1, <4>2, <4>3
    <3>2. CASE b \notin B
      <4>1. passed'[b] = passed[b] /\ counts'[b] = counts[b]
        BY <1>2, <1>4, <2>1, <3>2
      <4>2. QED
        BY <1>1, <4>1 DEF CountsTrue
    <3>3. QED
      BY <3>1, <3>2
  <2>4. QED
    BY <2>2, <2>3 DEF CountsTrue
<1>5. QED
  BY <1>3, <1>4 DEF Limited

\* The limiter answers, or lets through what it has counted in B.
LEMMA LimitedTurns ==
  ASSUME GInv, NEW r \in Slots, request[r].stage \in {"limiting", "limitingAgain"},
         NEW B \in SUBSET Buckets, Limited(r, B),
         KeepFetched \/ UNCHANGED cacheVars,
         loop' \in Slots \cup {Nobody}, LoopTrue',
         IsBearer(r) => \A t \in Jwts : t = Token(r) => <<"user", t.user>> \in B \/ Hopeless(t)'
  PROVE  GInv' /\ StepTrue
<1>1. Kept
  BY LimitedCounts DEF GInv, GalleryTypeOK, Kept, Limited, clockVars, realmVars
<1>2. /\ request[r] \in Request /\ request[r].call # Nobody /\ request[r].answer = "none"
      /\ request[r].sent = request[r].call.header /\ ~request[r].flag
  BY Typed DEF GInv, CallTrue, InApi
<1>3. CASE Reply(r, "failed")
  <2>1. CallTrue(r)' /\ CountedTrue(r)'
    BY <1>2, <1>3, Overs, AnsweredTrue
  <2>2. ~GenuineRefused(r) /\ Fair(r)
    BY <1>3, Overs, Harmless
  <2>3. QED
    BY <1>1, <1>3, <2>1, <2>2, Overs, OneTurn
<1>4. CASE Becomes(r, [request[r] EXCEPT !.stage = "admitted", !.counted = B])
  <2>1. /\ request'[r] = [request[r] EXCEPT !.stage = "admitted", !.counted = B]
        /\ request' = [request EXCEPT ![r] = request'[r]]
    BY <1>4, Typed DEF Becomes
  <2>2. /\ request'[r] \in Request /\ request'[r].stage = "admitted"
        /\ request'[r].sent = request[r].sent /\ request'[r].call = request[r].call
        /\ request'[r].answer = request[r].answer /\ request'[r].flag = request[r].flag
        /\ request'[r].counted = B
    BY <1>2, <2>1 DEF Request, Stages
  <2>3. CallTrue(r)'
    BY <1>2, <2>2 DEF CallTrue, InApi
  <2>4. CountedTrue(r)'
    <3>1. SUFFICES ASSUME IsBearer(r)', Token(r)' \in Jwts
                   PROVE  <<"user", Token(r)'.user>> \in B \/ Hopeless(Token(r))'
      BY <2>2 DEF CountedTrue
    <3>2. PICK t \in Jwts : t = Token(r) /\ t = Token(r)'
      BY <2>2, <3>1 DEF Token
    <3>3. IsBearer(r)
      BY <2>2, <3>1 DEF IsBearer
    <3>4. <<"user", t.user>> \in B \/ Hopeless(t)'
      BY <3>2, <3>3 DEF Hopeless
    <3>5. QED
      BY <3>2, <3>4 DEF Hopeless
  <2>5. ~GenuineRefused(r) /\ Fair(r)
    BY <1>2, <2>2, Harmless
  <2>6. QED
    BY <1>1, <2>1, <2>2, <2>3, <2>4, <2>5, OneTurn
<1>5. QED
  BY <1>3, <1>4 DEF Limited

LEMMA BucketsFit ==
  ASSUME GInv, NEW r \in Slots, NEW v \in BOOLEAN, request[r].call # Nobody,
         v => Token(r) \in Jwts
  PROVE  /\ BucketsOf(r, v) \in SUBSET Buckets
         /\ v => <<"user", Token(r).user>> \in BucketsOf(r, v)
<1>1. request[r].call.ip \in Subjects
  BY Typed DEF Call
<1>2. v => Token(r).user \in Subjects
  BY DEF Jwt
<1>3. QED
  BY <1>1, <1>2 DEF BucketsOf, Buckets

\* The first try finds the token invalid, and holds the loop.
LEMMA TryTurns ==
  ASSUME GInv, NEW r \in Slots, NEW s \in {"limitingAgain", "authenticatingAgain"},
         s = "limitingAgain" => request[r].stage = "limiting",
         s = "authenticatingAgain" => request[r].stage = "admitted" /\ Token(r) \in Jwts,
         TryAgain(r, s), UNCHANGED <<clockVars, countVars, realmVars>>
  PROVE  GInv' /\ StepTrue
<1>1. s \in Stages /\ Move(r, s) /\ ForgetFetched /\ loop' = r
  BY DEF Stages, TryAgain
<1>2. Kept
  BY <1>1 DEF GInv, GalleryTypeOK, Kept, clockVars, countVars, realmVars, CountsTrue, LoopTrue,
     ForgetFetched
<1>3. /\ request[r].call # Nobody /\ request[r].answer = "none"
      /\ request[r].sent = request[r].call.header /\ ~request[r].flag
  BY DEF GInv, CallTrue, InApi
<1>4. CallTrue(r)'
  BY <1>1, <1>3, Moved DEF CallTrue, InApi, Token
<1>5. CountedTrue(r)'
  <2>1. CASE s = "limitingAgain"
    BY <1>1, <2>1, Moved DEF CountedTrue, Deciding
  <2>2. CASE request[r].stage = "admitted"
    <3>1. SUFFICES ASSUME request'[r].steady, IsBearer(r)', Token(r)' \in Jwts
                   PROVE  <<"user", Token(r)'.user>> \in request'[r].counted \/ Hopeless(Token(r))'
      BY DEF CountedTrue
    <3>2. PICK t \in Jwts : t = Token(r) /\ t = Token(r)'
      BY <1>1, <3>1, Moved DEF Token
    <3>3. <<"user", t.user>> \in request[r].counted \/ Hopeless(t)
      BY <1>1, <2>2, <3>1, <3>2, Moved DEF GInv, CountedTrue, Deciding, IsBearer
    <3>4. Hopeless(t) => Hopeless(t)'
      BY <1>1, Typed, StaysHopeless DEF clockVars
    <3>5. QED
      BY <1>1, <3>2, <3>3, <3>4, Moved DEF Hopeless
  <2>3. QED
    BY <2>1, <2>2
<1>6. ~GenuineRefused(r) /\ Fair(r)
  BY <1>1, <1>3, Moved, Harmless
<1>7. QED
  BY <1>1, <1>2, <1>4, <1>5, <1>6, Moved, OneTurn

LEMMA LimitTurns ==
  ASSUME GInv, NEW r \in Slots, LimitAnonymous(r) \/ LimitBearer(r) \/ LimitAgain(r)
  PROVE  GInv' /\ StepTrue
<1>1. /\ request[r].stage \in {"limiting", "limitingAgain"} /\ request[r].call # Nobody
      /\ loop \in Slots \cup {Nobody} /\ LoopTrue
  BY DEF LimitAnonymous, LimitBearer, LimitAgain, First, Again, GInv, GalleryTypeOK, CallTrue, InApi
<1>2. CASE LimitAnonymous(r)
  <2>1. Limited(r, BucketsOf(r, FALSE)) /\ BucketsOf(r, FALSE) \in SUBSET Buckets
    BY <1>1, <1>2, BucketsFit DEF LimitAnonymous
  <2>2. ~IsBearer(r) /\ loop' = loop /\ UNCHANGED cacheVars
    BY <1>2 DEF LimitAnonymous
  <2>3. LoopTrue'
    BY <1>1, <2>2 DEF LoopTrue, cacheVars
  <2>4. QED
    BY <1>1, <2>1, <2>2, <2>3, LimitedTurns
<1>3. CASE LimitBearer(r) /\ Verdict(r) = "invalid"
  <2>1. /\ request[r].stage = "limiting" /\ TryAgain(r, "limitingAgain")
        /\ UNCHANGED <<clockVars, countVars, realmVars>>
    BY <1>3 DEF LimitBearer, First
  <2>2. QED
    BY <2>1, TryTurns
<1>4. CASE \/ LimitBearer(r) /\ Verdict(r) # "invalid"
           \/ LimitAgain(r)
  <2>1. PICK v \in BOOLEAN : v = (Verdict(r) = "ok")
    OBVIOUS
  <2>2. KeepFetched /\ Limited(r, BucketsOf(r, v)) /\ loop' \in {loop, Nobody}
    BY <1>4, <2>1 DEF LimitBearer, LimitAgain, TryAgain
  <2>3. loop' = Nobody
    BY <1>4, <2>2 DEF LimitBearer, LimitAgain, First, TryAgain
  <2>4. /\ BucketsOf(r, v) \in SUBSET Buckets
        /\ v => <<"user", Token(r).user>> \in BucketsOf(r, v)
    BY <1>1, <2>1, OnlyTokens, BucketsFit
  <2>5. ASSUME NEW t \in Jwts, t = Token(r), ~v
        PROVE  Hopeless(t)'
    <3>2. minute' = minute /\ UNCHANGED realmVars
      BY <2>2 DEF Limited, clockVars
    <3>3. Verdict(r) = "invalid" => jwks = NoKeys
      BY <1>1, <1>4 DEF LimitBearer, LimitAgain, Again, LoopTrue
    <3>4. QED
      BY <2>1, <2>2, <2>5, <3>2, <3>3, FailsHopeless
  <2>6. QED
    BY <1>1, <2>2, <2>3, <2>4, <2>5, LimitedTurns DEF LoopTrue
<1>5. QED
  BY <1>2, <1>3, <1>4
----------------------------------------------------------------------------
(* The authentication. *)

\* A request refused for a reason that GenuineRefused does not object to.
LEMMA RefuseTurns ==
  ASSUME GInv, NEW r \in Slots, request[r].stage \in {"admitted", "authenticatingAgain"},
         Refuse(r), Kept, ~GenuineRefused(r)
  PROVE  GInv' /\ StepTrue
<1>1. request[r].call # Nobody /\ ~request[r].flag
  BY DEF GInv, CallTrue, InApi
<1>2. Reply(r, "unauthorized")
  BY DEF Refuse
<1>3. CallTrue(r)' /\ CountedTrue(r)' /\ Fair(r)
  BY <1>1, <1>2, Overs, AnsweredTrue DEF Fair
<1>4. QED
  BY <1>2, <1>3, Overs, OneTurn

\* A request that is let in.
LEMMA AcceptTurns ==
  ASSUME GInv, NEW r \in Slots, request[r].stage \in {"admitted", "authenticatingAgain"},
         NEW u \in Subjects \cup {Nobody}, Accept(r, u), Kept,
         IsBearer(r) /\ Token(r) \in Jwts /\ request[r].steady /\ u # Nobody =>
           <<"user", u>> \in request[r].counted
  PROVE  GInv' /\ StepTrue
<1>1. /\ request[r] \in Request /\ request[r].call # Nobody /\ request[r].answer = "none"
      /\ request[r].sent = request[r].call.header /\ ~request[r].flag
  BY Typed DEF GInv, CallTrue, InApi
<1>2. /\ request' = [request EXCEPT ![r] = request'[r]]
      /\ request'[r] = [request[r] EXCEPT !.stage = "serving", !.caller = u, !.counted = {},
                                          !.steady = TRUE]
  BY Typed DEF Accept, Becomes
<1>3. /\ request'[r] \in Request /\ request'[r].stage = "serving" /\ request'[r].caller = u
      /\ request'[r].call = request[r].call /\ request'[r].sent = request[r].sent
      /\ request'[r].answer = "none" /\ request'[r].flag = request[r].flag
  BY <1>1, <1>2 DEF Request, Stages
<1>4. CallTrue(r)' /\ CountedTrue(r)'
  BY <1>1, <1>3 DEF CallTrue, CountedTrue, Deciding, InApi
<1>5. ~GenuineRefused(r) /\ Fair(r)
  BY <1>3 DEF GenuineRefused, Fair
<1>6. QED
  BY <1>2, <1>3, <1>4, <1>5, OneTurn

LEMMA WithoutTokenTurns ==
  ASSUME GInv, NEW r \in Slots, AuthenticateWithoutToken(r) PROVE GInv' /\ StepTrue
<1>1. /\ request[r].stage = "admitted" /\ Kept /\ Jwts \cap Secrets = {}
  BY Aside DEF AuthenticateWithoutToken, First
<1>2. CASE Accept(r, Nobody)
  BY <1>1, <1>2, AcceptTurns
<1>3. CASE ~HasCredentials(r) /\ Refuse(r)
  BY <1>1, <1>3, RefuseTurns DEF GenuineRefused
<1>4. CASE Token(r) \in Secrets /\ Token(r).valid /\ Accept(r, Token(r).owner)
  <2>1. PICK u \in Subjects : u = Token(r).owner
    BY <1>4 DEF Secret
  <2>2. Accept(r, u) /\ Token(r) \notin Jwts
    BY <1>1, <1>4, <2>1
  <2>3. QED
    BY <1>1, <2>2, AcceptTurns
<1>5. CASE Token(r) \in Secrets /\ ~Token(r).valid /\ Refuse(r)
  BY <1>1, <1>5, RefuseTurns DEF GenuineRefused
<1>6. QED
  BY <1>2, <1>3, <1>4, <1>5 DEF AuthenticateWithoutToken

\* The verdict on a token stands: of a first try, or of a second one.
LEMMA JudgedTurns ==
  ASSUME GInv, NEW r \in Slots, request[r].stage \in {"admitted", "authenticatingAgain"},
         Token(r) \in Jwts, Judged(r), KeepFetched, loop' = Nobody,
         Verdict(r) = "invalid" => jwks = NoKeys,
         UNCHANGED <<clockVars, countVars, realmVars>>
  PROVE  GInv' /\ StepTrue
<1>1. Kept
  BY DEF GInv, GalleryTypeOK, Kept, clockVars, countVars, CountsTrue, LoopTrue
<1>2. CASE Verdict(r) = "ok"
  <2>1. PICK t \in Jwts : t = Token(r)
    OBVIOUS
  <2>2. t.user \in Subjects /\ Accept(r, t.user)
    BY <1>2, <2>1 DEF Judged, Jwt
  <2>3. IsBearer(r) /\ request[r].steady => <<"user", t.user>> \in request[r].counted
    BY <1>2, <2>1, HopelessFails DEF GInv, CountedTrue, Deciding
  <2>4. QED
    BY <1>1, <2>1, <2>2, <2>3, AcceptTurns
<1>3. CASE Verdict(r) # "ok"
  <2>1. Refuse(r)
    BY <1>3 DEF Judged
  <2>2. ~GenuineRefused(r)
    <3>1. Token(r).until \in Nat /\ minute \in Nat /\ KeysTypeOK /\ Token(r) \notin Secrets
      BY DEF GInv, GalleryTypeOK, Jwt
    <3>2. CASE Verdict(r) = "expired"
      BY <3>1, <3>2, VerdictMeans DEF GenuineRefused
    <3>3. CASE Verdict(r) = "error"
      BY <3>1, <3>3, VerdictMeans DEF GenuineRefused, Fetched, KeysTypeOK
    <3>4. CASE Verdict(r) = "invalid"
      BY <3>1, <3>4, VerdictMeans DEF GenuineRefused, Fetched, KeysTypeOK
    <3>5. QED
      BY <1>3, <3>2, <3>3, <3>4, VerdictMeans
  <2>3. QED
    BY <1>1, <2>1, <2>2, RefuseTurns
<1>4. QED
  BY <1>2, <1>3

LEMMA TokenTurns ==
  ASSUME GInv, NEW r \in Slots, AuthenticateToken(r) \/ AuthenticateAgain(r)
  PROVE  GInv' /\ StepTrue
<1>1. CASE AuthenticateToken(r) /\ Verdict(r) = "invalid"
  <2>1. /\ request[r].stage = "admitted" /\ Token(r) \in Jwts
        /\ TryAgain(r, "authenticatingAgain") /\ UNCHANGED <<clockVars, countVars, realmVars>>
    BY <1>1 DEF AuthenticateToken, First, HasJwt
  <2>2. QED
    BY <2>1, TryTurns
<1>2. CASE AuthenticateToken(r) /\ Verdict(r) # "invalid"
  <2>1. /\ request[r].stage = "admitted" /\ Token(r) \in Jwts /\ Judged(r) /\ KeepFetched
        /\ loop' = Nobody /\ UNCHANGED <<clockVars, countVars, realmVars>>
    BY <1>2 DEF AuthenticateToken, First, HasJwt, TryAgain
  <2>2. QED
    BY <1>2, <2>1, JudgedTurns
<1>3. CASE AuthenticateAgain(r)
  <2>1. /\ request[r].stage = "authenticatingAgain" /\ Judged(r) /\ KeepFetched
        /\ loop' = Nobody /\ UNCHANGED <<clockVars, countVars, realmVars>>
    BY <1>3 DEF AuthenticateAgain, Again
  <2>2. Token(r) \in Jwts /\ jwks = NoKeys
    BY <1>3 DEF AuthenticateAgain, Again, GInv, CallTrue, LoopTrue
  <2>3. QED
    BY <2>1, <2>2, JudgedTurns
<1>4. QED
  BY <1>1, <1>2, <1>3
----------------------------------------------------------------------------
(* The environment. *)

\* Keycloak changes: nobody's look at a token is steady any more.
LEMMA KeycloakTurns == ASSUME GInv, KeycloakStep PROVE GInv' /\ StepTrue
<1>1. request \in [Slots -> Request] /\ KeysTypeOK
  BY DEF GInv, GalleryTypeOK
<1>2. ASSUME NEW r \in Slots
      PROVE  /\ request'[r] \in Request /\ CallTrue(r)' /\ CountedTrue(r)'
             /\ ~GenuineRefused(r) /\ Fair(r)
  <2>1. PICK s \in BOOLEAN : s = (request[r].steady /\ ~Deciding(r))
    OBVIOUS
  <2>2. request'[r] = [request[r] EXCEPT !.steady = s]
    BY <2>1 DEF KeycloakStep
  <2>3. request[r] \in Request
    BY <1>1
  <2>4. /\ request'[r] \in Request /\ request'[r].stage = request[r].stage
        /\ request'[r].call = request[r].call /\ request'[r].sent = request[r].sent
        /\ request'[r].answer = request[r].answer /\ request'[r].flag = request[r].flag
        /\ request'[r].steady = s
    BY <2>2, <2>3 DEF Request
  <2>5. CallTrue(r)
    BY DEF GInv
  <2>6. CallTrue(r)'
    BY <2>4, <2>5 DEF CallTrue, Token
  <2>7. CountedTrue(r)'
    BY <2>1, <2>4 DEF CountedTrue, Deciding
  <2>8. ~GenuineRefused(r) /\ Fair(r)
    BY <2>4, <2>5 DEF CallTrue, GenuineRefused, Fair, Deciding
  <2>9. QED
    BY <2>4, <2>6, <2>7, <2>8
<1>3. request' \in [Slots -> Request]
  <2>1. request' = [r \in Slots |-> request'[r]]
    BY DEF KeycloakStep
  <2>2. QED
    BY <1>2, <2>1
<1>4. KeysTypeOK' /\ UNCHANGED <<clockVars, countVars, loop, jwks>>
  BY <1>1 DEF KeycloakStep, RotateKeys, ChangeReachability, KeysTypeOK, cacheVars
<1>5. GalleryTypeOK' /\ LoopTrue' /\ CountsTrue'
  BY <1>3, <1>4 DEF GInv, GalleryTypeOK, LoopTrue, CountsTrue, clockVars, countVars
<1>6. QED
  BY <1>2, <1>5 DEF GInv, StepTrue

\* The requests stay as they are, and hopeless tokens hopeless.
LEMMA StillTurns ==
  ASSUME GInv, request' = request, GalleryTypeOK', LoopTrue', CountsTrue',
         \A t \in Jwts : Hopeless(t) => Hopeless(t)'
  PROVE  GInv' /\ StepTrue
<1>1. ASSUME NEW r \in Slots
      PROVE  CallTrue(r)' /\ CountedTrue(r)' /\ ~GenuineRefused(r) /\ Fair(r)
  <2>1. CallTrue(r) /\ CountedTrue(r)
    BY DEF GInv
  <2>2. CallTrue(r)'
    BY <2>1 DEF CallTrue, Token
  <2>3. CountedTrue(r)'
    <3>1. CASE Token(r) \in Jwts
      <4>1. PICK t \in Jwts : t = Token(r) /\ t = Token(r)'
        BY <3>1 DEF Token
      <4>2. QED
        BY <2>1, <4>1 DEF CountedTrue, Deciding, IsBearer, Hopeless
    <3>2. CASE Token(r) \notin Jwts
      BY <3>2 DEF CountedTrue, Token
    <3>3. QED
      BY <3>1, <3>2
  <2>4. ~GenuineRefused(r) /\ Fair(r)
    BY <2>1 DEF CallTrue, GenuineRefused, Fair, Deciding
  <2>5. QED
    BY <2>2, <2>3, <2>4
<1>2. QED
  BY <1>1 DEF GInv, StepTrue

LEMMA ExpiresTurns == ASSUME GInv, CacheExpires PROVE GInv' /\ StepTrue
<1>1. /\ request' = request /\ UNCHANGED <<minute, begun, counts, passed, loop, realmVars, staleJwks>>
      /\ jwks' = NoKeys /\ jwks # NoKeys
  BY DEF CacheExpires, ExpireKeys, doorVars, clockVars, countVars
<1>2. GalleryTypeOK' /\ LoopTrue' /\ CountsTrue'
  BY <1>1 DEF GInv, GalleryTypeOK, KeysTypeOK, LoopTrue, CountsTrue, realmVars
<1>3. ASSUME NEW t \in Jwts, Hopeless(t) PROVE Hopeless(t)'
  BY <1>1, <1>3 DEF Hopeless, realmVars
<1>4. QED
  BY <1>1, <1>2, <1>3, StillTurns

LEMMA TickTurns == ASSUME GInv, Tick PROVE GInv' /\ StepTrue
<1>1. /\ request' = request /\ UNCHANGED <<loop, published, reachable, jwks, staleJwks>>
      /\ minute' = IF minute < MaxMinute THEN minute + 1 ELSE minute
      /\ begun' = 0 /\ minute \in 0..MaxMinute /\ MaxMinute \in Nat /\ MaxCalls \in Nat
      /\ counts' = [b \in Buckets |-> 0] /\ passed' = [b \in Buckets |-> 0]
  BY DEF Tick, GInv, GalleryTypeOK, keyVars, realmVars, cacheVars
<1>2. minute' \in 0..MaxMinute /\ minute' >= minute /\ begun' \in 0..MaxCalls
  BY <1>1
<1>3. GalleryTypeOK' /\ LoopTrue'
  BY <1>1, <1>2 DEF GInv, GalleryTypeOK, KeysTypeOK, LoopTrue
<1>4. CountsTrue'
  BY <1>1 DEF CountsTrue, Buckets
<1>5. ASSUME NEW t \in Jwts, Hopeless(t) PROVE Hopeless(t)'
  <2>1. t.until \in Nat
    BY DEF Jwt
  <2>2. QED
    BY <1>1, <1>2, <1>5, <2>1 DEF Hopeless
<1>6. QED
  BY <1>1, <1>3, <1>4, <1>5, StillTurns

LEMMA RestartTurns == ASSUME GInv, RestartApi PROVE GInv' /\ StepTrue
<1>1. request \in [Slots -> Request]
  BY DEF GInv, GalleryTypeOK
<1>2. ASSUME NEW r \in Slots
      PROVE  /\ request'[r] \in Request /\ CallTrue(r)' /\ CountedTrue(r)'
             /\ ~GenuineRefused(r) /\ Fair(r)
  <2>1. CallTrue(r) /\ request[r] \in Request
    BY <1>1 DEF GInv
  <2>2. CASE request[r].stage \in InApi
    <3>1. request'[r] = [request[r] EXCEPT !.stage = "answered", !.answer = "failed",
                           !.sent = Nobody, !.caller = Nobody, !.counted = {}, !.steady = TRUE]
      BY <2>2 DEF RestartApi, Over
    <3>2. /\ request'[r] \in Request /\ request'[r].stage = "answered"
          /\ request'[r].answer = "failed" /\ request'[r].call = request[r].call
          /\ request'[r].flag = request[r].flag
      BY <2>1, <3>1 DEF Request, Stages
    <3>3. CallTrue(r)' /\ CountedTrue(r)'
      BY <2>1, <2>2, <3>2, AnsweredTrue DEF CallTrue, InApi
    <3>4. QED
      BY <3>2, <3>3, Harmless
  <2>3. CASE request[r].stage \notin InApi
    <3>1. request'[r] = request[r]
      BY <2>3 DEF RestartApi
    <3>2. CallTrue(r)'
      BY <2>1, <3>1 DEF CallTrue, Token
    <3>3. CountedTrue(r)' /\ ~GenuineRefused(r) /\ Fair(r)
      BY <2>3, <3>1 DEF CountedTrue, GenuineRefused, Fair, Deciding, InApi
    <3>4. QED
      BY <2>1, <3>1, <3>2, <3>3
  <2>4. QED
    BY <2>2, <2>3
<1>3. request' \in [Slots -> Request]
  <2>1. request' = [r \in Slots |-> request'[r]]
    BY DEF RestartApi
  <2>2. QED
    BY <1>2, <2>1
<1>4. GalleryTypeOK' /\ LoopTrue'
  BY <1>3 DEF GInv, GalleryTypeOK, KeysTypeOK, LoopTrue, RestartApi, clockVars, realmVars
<1>5. CountsTrue'
  BY DEF RestartApi, CountsTrue, Buckets
<1>6. QED
  BY <1>2, <1>4, <1>5 DEF GInv, StepTrue
----------------------------------------------------------------------------
(* All together. *)

LEMMA Begins == ASSUME GalleryInit PROVE GInv
<1>2. Idle \in Request /\ Idle.stage = "idle" /\ Idle.flag = FALSE
  BY DEF Idle, Request, Stages
<1>3. GalleryTypeOK
  BY <1>2 DEF GalleryInit, KeysInit, GalleryTypeOK, KeysTypeOK
<1>4. LoopTrue /\ CountsTrue
  BY DEF GalleryInit, LoopTrue, CountsTrue, Buckets
<1>5. ASSUME NEW r \in Slots PROVE CallTrue(r) /\ CountedTrue(r)
  <2>1. request[r] = Idle
    BY DEF GalleryInit
  <2>2. QED
    BY <1>2, <2>1 DEF CallTrue, CountedTrue, Deciding, InApi
<1>6. QED
  BY <1>3, <1>4, <1>5 DEF GInv

LEMMA Steps == ASSUME GInv, [GalleryNext]_galleryVars PROVE GInv' /\ (StepTrue \/ UNCHANGED galleryVars)
<1>1. CASE UNCHANGED galleryVars
  <2>1. /\ request' = request
        /\ UNCHANGED <<minute, begun, counts, passed, loop, published, reachable, jwks, staleJwks>>
    BY <1>1 DEF galleryVars, doorVars, clockVars, countVars, keyVars, realmVars, cacheVars
  <2>2. GalleryTypeOK' /\ LoopTrue' /\ CountsTrue'
    BY <2>1 DEF GInv, GalleryTypeOK, KeysTypeOK, LoopTrue, CountsTrue
  <2>3. \A t \in Jwts : Hopeless(t) => Hopeless(t)'
    BY <2>1 DEF Hopeless
  <2>4. QED
    BY <1>1, <2>1, <2>2, <2>3, StillTurns
<1>2. ASSUME NEW r \in Slots, LoopStep(r) PROVE GInv' /\ StepTrue
  BY <1>2, LimitTurns, WithoutTokenTurns, TokenTurns DEF LoopStep
<1>3. ASSUME NEW r \in Slots, CallStep(r) PROVE GInv' /\ StepTrue
  BY <1>3, CallsTurn, ForwardTurns, TimeOutTurns, ReturnTurns, RespondTurns, ServeTurns DEF CallStep
<1>4. QED
  BY <1>1, <1>2, <1>3, KeycloakTurns, ExpiresTurns, TickTurns, RestartTurns DEF GalleryNext

LEMMA Invariant == GallerySpec => []GInv
<1>1. GalleryInit => GInv
  BY Begins
<1>2. GInv /\ [GalleryNext]_galleryVars => GInv'
  BY Steps
<1>3. QED
  BY <1>1, <1>2, PTL DEF GallerySpec

\* The state of the keys, the counters and every call has its type.
THEOREM GalleryTypeCorrect == GallerySpec => []GalleryTypeOK
<1>1. GInv => GalleryTypeOK
  BY DEF GInv
<1>2. QED
  BY <1>1, Invariant, PTL

\* In a minute, no bucket lets more requests through than its limit
\* (rate_limit.py:75-80), however the requests overlap.
THEOREM LimitsHold == GallerySpec => []WithinLimits
<1>1. GInv => WithinLimits
  BY DEF GInv, CountsTrue, WithinLimits
<1>2. QED
  BY <1>1, Invariant, PTL

\* A tool call sends the header of its own caller, and is answered as the API
\* answered it (gallery_mcp/server.py:59-100).
THEOREM ToolAnswers == GallerySpec => []ToolsAnswerTrue
<1>1. ASSUME GInv, NEW r \in Slots
      PROVE  /\ request[r].stage \in InApi => request[r].sent = request[r].call.header
             /\ request[r].stage = "responding" =>
                  /\ Status(r) = "unauthorized" =>
                       request[r].call.header = Nobody \/ request[r].answer = "unauthorized"
                  /\ Status(r) = "ok" => request[r].answer = "ok"
  <2>1. CallTrue(r)
    BY <1>1 DEF GInv
  <2>2. QED
    BY <2>1 DEF CallTrue, Status, Flagged
<1>2. GInv => ToolsAnswerTrue
  BY <1>1 DEF ToolsAnswerTrue
<1>3. QED
  BY <1>2, Invariant, PTL

\* No token that Keycloak, or the copy of its last answer, can vouch for is
\* refused, whatever other requests do to the cache (jwt_utils.py:70-86).
THEOREM Genuine == GallerySpec => GenuineAccepted
<1>1. GInv /\ [GalleryNext]_galleryVars => [\A r \in Slots : ~GenuineRefused(r)]_galleryVars
  BY Steps DEF StepTrue
<1>2. QED
  BY <1>1, Invariant, PTL DEF GallerySpec, GenuineAccepted

\* A request served as the user of a token has been counted for that user,
\* although the token is looked at twice (rate_limit.py:56-73, auth.py:137-152).
THEOREM Counted == GallerySpec => ServedAsCounted
<1>1. GInv /\ [GalleryNext]_galleryVars =>
        [\A r \in Slots :
           (Deciding(r) /\ request'[r].stage = "serving" /\ request'[r].caller # Nobody
              /\ Token(r) \in Jwts /\ IsBearer(r) /\ request[r].steady) =>
           <<"user", request'[r].caller>> \in request[r].counted]_galleryVars
  BY Steps DEF StepTrue, Fair
<1>2. QED
  BY <1>1, Invariant, PTL DEF GallerySpec, ServedAsCounted
=============================================================================
