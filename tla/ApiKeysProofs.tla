--------------------------- MODULE ApiKeysProofs ---------------------------
(***************************************************************************)
(* Proofs, for every number of workers, keys, users and clock ticks, of    *)
(* the correctness properties of ApiKeys.                                  *)
(***************************************************************************)
EXTENDS ApiKeys, TLAPS

USE ApiKeysAssumption

\* What holds of the request of one worker: whose keys it has its hands on,
\* and that a caller without a key is a login.
SessionAt(w) ==
  /\ pc[w] \notin {"idle", "authenticating"} => caller[w] # None
  /\ caller[w] # None /\ caller[w].key = None =>
       [id |-> caller[w].id, scopes |-> caller[w].scopes] \in Logins
  /\ pc[w] = "authenticating" =>
       /\ target[w] # None /\ keys[target[w]] # Absent
       /\ loaded[w] # None /\ loaded[w].expires_at = keys[target[w]].expires_at
  /\ pc[w] \in {"issued", "revoking", "revoked"} =>
       target[w] # None /\ keys[target[w]] # Absent
  /\ pc[w] = "revoking" => keys[target[w]].user_id = caller[w].id
  /\ pc[w] = "revoked" => ~Active(target[w])
  /\ pc[w] \in {"sweeping", "swept"} =>
       \A k \in sweep[w] : keys[k] # Absent /\ keys[k].user_id = caller[w].id
  /\ pc[w] = "swept" => \A k \in sweep[w] : ~Active(k)

SessionOK == \A w \in Workers : SessionAt(w)

IInv == TypeOK /\ SessionOK /\ UsedBeforeExpiry /\ AuditNeverAhead

\* What every step leaves of a row: it stays, its fixed columns do not change
\* and a revocation is not undone.
RowKept(k) ==
  keys[k] # Absent =>
    /\ keys'[k] # Absent
    /\ keys'[k].user_id = keys[k].user_id
    /\ keys'[k].scopes = keys[k].scopes
    /\ keys'[k].expires_at = keys[k].expires_at
    /\ ~Active(k) => keys'[k].revoked_at # None

RowsKept == \A k \in KeyIds : RowKept(k)

LEMMA InitHolds == Init => IInv
BY DEF Init, IInv, TypeOK, SessionOK, SessionAt, UsedBeforeExpiry, AuditNeverAhead,
       PCs, Time, ApiKey, Caller, Event

\* The two column updates make rows of rows.
LEMMA ColumnTypes ==
  ASSUME NEW key \in ApiKey, NEW t \in Time
  PROVE  /\ [key EXCEPT !.last_used_at = t] \in ApiKey
         /\ [key EXCEPT !.revoked_at = t] \in ApiKey
BY DEF ApiKey

LEMMA NewKeyType ==
  ASSUME NEW c \in Caller, clock \in Time
  PROVE  NewKey(c) \in ApiKey
BY DEF NewKey, ApiKey, Caller, Time

\* The row and the caller a session works with, by where it stands.
LEMMA SessionTypes ==
  ASSUME TypeOK, NEW w \in Workers, SessionAt(w)
  PROVE  /\ pc[w] \notin {"idle", "authenticating"} => caller[w] \in Caller
         /\ pc[w] \in {"authenticating", "issued", "revoking", "revoked"} =>
              target[w] \in KeyIds /\ keys[target[w]] \in ApiKey
         /\ pc[w] = "authenticating" => loaded[w] \in ApiKey
         /\ pc[w] \in {"sweeping", "swept"} => \A k \in sweep[w] : k \in KeyIds /\ keys[k] \in ApiKey
BY DEF TypeOK, SessionAt

LEMMA TypeStep == IInv /\ [Next]_vars => TypeOK'
<1> SUFFICES ASSUME IInv, [Next]_vars PROVE TypeOK'
  OBVIOUS
<1> USE DEF IInv, TypeOK
<1>1. ASSUME NEW w \in Workers, Login(w) PROVE TypeOK'
  BY <1>1 DEF Login, Goto, PCs, Caller
<1>2. ASSUME NEW w \in Workers, PresentKey(w) PROVE TypeOK'
  BY <1>2 DEF PresentKey, Goto, PCs, Active
<1>3. ASSUME NEW w \in Workers, AcceptKey(w) PROVE TypeOK'
  <2>1. pc[w] = "authenticating" /\ SessionAt(w)
    BY <1>3 DEF AcceptKey, SessionOK
  <2>2. target[w] \in KeyIds /\ keys[target[w]] \in ApiKey /\ loaded[w] \in ApiKey
    BY <2>1, SessionTypes
  <2>3. Used(keys[target[w]], loaded[w]) \in ApiKey
    BY <2>2, ColumnTypes DEF Used
  <2>4. [id |-> loaded[w].user_id, scopes |-> loaded[w].scopes, key |-> target[w]] \in Caller
    BY <2>2 DEF ApiKey, Caller
  <2>5. QED
    BY <1>3, <2>2, <2>3, <2>4 DEF AcceptKey, Goto, PCs
<1>4. ASSUME NEW w \in Workers, CreateApiKey(w) PROVE TypeOK'
  <2>1. caller[w] \in Caller
    BY <1>4, SessionTypes DEF CreateApiKey, SessionOK
  <2>2. NewKey(caller[w]) \in ApiKey
    BY <2>1, NewKeyType
  <2>3. QED
    BY <1>4, <2>2 DEF CreateApiKey, Goto, PCs
<1>5. ASSUME NEW w \in Workers, LoadKey(w) PROVE TypeOK'
  BY <1>5 DEF LoadKey, Goto, PCs
<1>6. ASSUME NEW w \in Workers, RevokeKey(w) PROVE TypeOK'
  <2>1. target[w] \in KeyIds /\ keys[target[w]] \in ApiKey
    BY <1>6, SessionTypes DEF RevokeKey, SessionOK
  <2>2. [keys[target[w]] EXCEPT !.revoked_at = clock] \in ApiKey
    BY <2>1, ColumnTypes
  <2>3. QED
    BY <1>6, <2>1, <2>2 DEF RevokeKey, Goto, PCs, session
<1>7. ASSUME NEW w \in Workers, LogoutAllSessions(w) PROVE TypeOK'
  BY <1>7 DEF LogoutAllSessions, Goto, PCs
<1>8. ASSUME NEW w \in Workers, SelectActiveKeys(w) PROVE TypeOK'
  BY <1>8 DEF SelectActiveKeys, Goto, PCs, ActiveKeys
<1>9. ASSUME NEW w \in Workers, SweepKeys(w) PROVE TypeOK'
  <2>1. \A k \in sweep[w] : keys[k] \in ApiKey
    BY <1>9, SessionTypes DEF SweepKeys, SessionOK
  <2>2. Swept(w) \in [KeyIds -> ApiKey \cup {Absent}]
    BY <2>1, ColumnTypes DEF Swept
  <2>3. QED
    BY <1>9, <2>2 DEF SweepKeys, Goto, PCs, session
<1>10. ASSUME NEW w \in Workers, WriteEvent(w) PROVE TypeOK'
  <2>1. /\ caller[w] \in Caller
        /\ pc[w] \in {"issued", "revoked"} => target[w] \in KeyIds
    BY <1>10, SessionTypes DEF WriteEvent, Audited, SessionOK
  <2>2. EventOf(w) \in Event
    BY <1>10, <2>1 DEF WriteEvent, EventOf, Audited, Event, Caller
  <2>3. QED
    BY <1>10, <2>2 DEF WriteEvent, Respond, Goto, PCs
<1>11. ASSUME NEW w \in Workers, RefuseKey(w) \/ BreakLogout(w) \/ ReportFailure(w) \/ Other(w) PROVE TypeOK'
  BY <1>11 DEF RefuseKey, BreakLogout, ReportFailure, Other, Respond, Goto, PCs
<1>12. ASSUME Tick PROVE TypeOK'
  BY <1>12 DEF Tick, Time, session
<1>13. ASSUME Crash PROVE TypeOK'
  BY <1>13 DEF Crash, PCs
<1>14. CASE UNCHANGED vars
  BY <1>14 DEF vars
<1>15. QED
  BY <1>1, <1>2, <1>3, <1>4, <1>5, <1>6, <1>7, <1>8, <1>9, <1>10, <1>11, <1>12, <1>13, <1>14
     DEF Next, Step

\* Who writes the table writes one column of rows that exist, or a new row.
LEMMA RowsStep == IInv /\ [Next]_vars => RowsKept
<1> SUFFICES ASSUME IInv, [Next]_vars PROVE RowsKept
  OBVIOUS
<1> USE DEF IInv, TypeOK, RowsKept, RowKept, Active
<1>1. ASSUME NEW w \in Workers, AcceptKey(w) PROVE RowsKept
  BY <1>1 DEF AcceptKey, Used, SessionOK, SessionAt, ApiKey
<1>2. ASSUME NEW w \in Workers, CreateApiKey(w) PROVE RowsKept
  BY <1>2 DEF CreateApiKey
<1>3. ASSUME NEW w \in Workers, RevokeKey(w) PROVE RowsKept
  BY <1>3 DEF RevokeKey, SessionOK, SessionAt, ApiKey
<1>4. ASSUME NEW w \in Workers, SweepKeys(w) PROVE RowsKept
  BY <1>4 DEF SweepKeys, Swept, SessionOK, SessionAt, ApiKey
<1>5. ASSUME UNCHANGED keys PROVE RowsKept
  BY <1>5
<1>6. QED
  BY <1>1, <1>2, <1>3, <1>4, <1>5
     DEF Next, Step, Login, PresentKey, RefuseKey, LoadKey, LogoutAllSessions,
         SelectActiveKeys, BreakLogout, ReportFailure, WriteEvent, Other, Tick, Crash, vars

\* A session that does not move keeps its invariant while rows are kept.
LEMMA OthersKept ==
  ASSUME IInv, TypeOK', RowsKept, NEW v \in Workers,
         pc'[v] = pc[v], caller'[v] = caller[v], target'[v] = target[v],
         loaded'[v] = loaded[v], sweep'[v] = sweep[v]
  PROVE  SessionAt(v)'
BY DEF IInv, TypeOK, RowsKept, RowKept, SessionOK, SessionAt, Active

LEMMA SessionStep == IInv /\ [Next]_vars => SessionOK'
<1> SUFFICES ASSUME IInv, [Next]_vars, NEW v \in Workers PROVE SessionAt(v)'
  BY DEF SessionOK
<1>1. TypeOK' /\ RowsKept
  BY TypeStep, RowsStep
<1>2. TypeOK /\ SessionAt(v)
  BY DEF IInv, SessionOK
<1>3. ASSUME NEW w \in Workers, w # v,
             \A u \in Workers \ {w} : /\ pc'[u] = pc[u] /\ caller'[u] = caller[u]
                                      /\ target'[u] = target[u] /\ loaded'[u] = loaded[u]
                                      /\ sweep'[u] = sweep[u]
      PROVE SessionAt(v)'
  BY <1>1, <1>3, OthersKept
<1>4. ASSUME NEW w \in Workers, Step(w), w # v PROVE SessionAt(v)'
  <2>1. \A u \in Workers \ {w} : /\ pc'[u] = pc[u] /\ caller'[u] = caller[u]
                                 /\ target'[u] = target[u] /\ loaded'[u] = loaded[u]
                                 /\ sweep'[u] = sweep[u]
    BY <1>2, <1>4 DEF TypeOK, Step, Login, PresentKey, AcceptKey, RefuseKey, CreateApiKey, LoadKey,
       RevokeKey, LogoutAllSessions, BreakLogout, SelectActiveKeys, SweepKeys, ReportFailure, WriteEvent,
       Other, Respond, Goto, session
  <2>2. QED
    BY <1>3, <1>4, <2>1
<1>5. ASSUME Login(v) PROVE SessionAt(v)'
  BY <1>2, <1>5 DEF Login, Goto, TypeOK, SessionAt, Caller
<1>6. ASSUME PresentKey(v) PROVE SessionAt(v)'
  BY <1>2, <1>6 DEF PresentKey, Goto, TypeOK, SessionAt, Active
<1>7. ASSUME AcceptKey(v) PROVE SessionAt(v)'
  <2>1. target[v] \in KeyIds /\ loaded[v] \in ApiKey
    BY <1>2, <1>7, SessionTypes DEF AcceptKey
  <2>2. caller'[v].key = target[v] /\ caller'[v] # None
    <3>1. [id |-> loaded[v].user_id, scopes |-> loaded[v].scopes, key |-> target[v]] \in Caller
      BY <2>1 DEF ApiKey, Caller
    <3>2. QED
      BY <1>2, <1>7, <3>1 DEF AcceptKey, TypeOK
  <2>3. target[v] # None /\ pc'[v] = "ready"
    BY <1>2, <1>7, <2>1 DEF AcceptKey, Goto, TypeOK
  <2>4. QED
    BY <2>2, <2>3 DEF SessionAt
<1>8. ASSUME CreateApiKey(v) PROVE SessionAt(v)'
  <2>1. NewKey(caller[v]) # Absent
    BY <1>2, <1>8, SessionTypes, NewKeyType DEF CreateApiKey, TypeOK
  <2>2. QED
    BY <1>2, <1>8, <2>1 DEF CreateApiKey, Goto, TypeOK, SessionAt
<1>9. ASSUME LoadKey(v) PROVE SessionAt(v)'
  BY <1>2, <1>9 DEF LoadKey, MayRevoke, Goto, TypeOK, SessionAt
<1>10. ASSUME RevokeKey(v) PROVE SessionAt(v)'
  <2>1. target[v] \in KeyIds /\ keys[target[v]] \in ApiKey
    BY <1>2, <1>10, SessionTypes DEF RevokeKey
  <2>2. keys'[target[v]].revoked_at = clock /\ clock # None
    BY <1>2, <1>10, <2>1 DEF RevokeKey, TypeOK, ApiKey
  <2>3. keys'[target[v]] # Absent
    BY <1>1, <1>2, <1>10, <2>1 DEF RowsKept, RowKept, RevokeKey, SessionAt
  <2>4. QED
    BY <1>2, <1>10, <2>1, <2>2, <2>3 DEF RevokeKey, Goto, TypeOK, SessionAt, Active, session
<1>11. ASSUME LogoutAllSessions(v) PROVE SessionAt(v)'
  BY <1>2, <1>11 DEF LogoutAllSessions, Goto, TypeOK, SessionAt
<1>12. ASSUME SelectActiveKeys(v) PROVE SessionAt(v)'
  BY <1>2, <1>12 DEF SelectActiveKeys, ActiveKeys, Active, Goto, TypeOK, SessionAt
<1>13. ASSUME SweepKeys(v) PROVE SessionAt(v)'
  <2>1. \A k \in sweep[v] : k \in KeyIds /\ keys[k] \in ApiKey /\ keys[k] # Absent
    BY <1>2, <1>13, SessionTypes DEF SweepKeys, SessionAt
  <2>2. \A k \in sweep[v] : keys'[k].revoked_at = clock /\ clock # None
    BY <1>2, <1>13, <2>1 DEF SweepKeys, Swept, TypeOK, ApiKey
  <2>3. \A k \in sweep[v] : keys'[k] # Absent /\ keys'[k].user_id = keys[k].user_id
    BY <1>1, <2>1 DEF RowsKept, RowKept
  <2>4. QED
    BY <1>2, <1>13, <2>1, <2>2, <2>3 DEF SweepKeys, Goto, TypeOK, SessionAt, Active, session
<1>14. ASSUME RefuseKey(v) \/ BreakLogout(v) \/ ReportFailure(v) \/ WriteEvent(v) \/ Other(v) PROVE SessionAt(v)'
  BY <1>2, <1>14 DEF RefuseKey, BreakLogout, ReportFailure, WriteEvent, Other, Respond, Goto, TypeOK, SessionAt
<1>15. ASSUME Tick \/ UNCHANGED vars PROVE SessionAt(v)'
  BY <1>1, <1>15, OthersKept DEF Tick, session, vars
<1>16. ASSUME Crash PROVE SessionAt(v)'
  BY <1>16 DEF Crash, SessionAt
<1>17. QED
  BY <1>4, <1>5, <1>6, <1>7, <1>8, <1>9, <1>10, <1>11, <1>12, <1>13, <1>14, <1>15, <1>16
     DEF Next, Step

\* Only AcceptKey stamps a use, and it looked at the expiry it stamps under.
LEMMA UseStep == IInv /\ [Next]_vars => UsedBeforeExpiry'
<1> SUFFICES ASSUME IInv, [Next]_vars PROVE UsedBeforeExpiry'
  OBVIOUS
<1> USE DEF IInv, TypeOK, UsedBeforeExpiry
<1>1. ASSUME NEW w \in Workers, AcceptKey(w) PROVE UsedBeforeExpiry'
  <2>1. pc[w] = "authenticating" /\ SessionAt(w)
    BY <1>1 DEF AcceptKey, SessionOK
  <2>2. target[w] \in KeyIds /\ keys[target[w]] \in ApiKey /\ loaded[w] \in ApiKey
    BY <2>1, SessionTypes
  <2>3. clock <= keys[target[w]].expires_at
    BY <1>1, <2>1, <2>2 DEF AcceptKey, Expired, SessionAt, ApiKey, Time
  <2>4. keys'[target[w]].last_used_at = clock /\ keys'[target[w]].expires_at = keys[target[w]].expires_at
    BY <1>1, <2>2 DEF AcceptKey, Used, ApiKey
  <2>5. QED
    BY <1>1, <2>2, <2>3, <2>4 DEF AcceptKey
<1>2. ASSUME NEW w \in Workers, CreateApiKey(w) PROVE UsedBeforeExpiry'
  BY <1>2 DEF CreateApiKey, NewKey
<1>3. ASSUME NEW w \in Workers, RevokeKey(w) PROVE UsedBeforeExpiry'
  <2>1. target[w] \in KeyIds /\ keys[target[w]] \in ApiKey
    BY <1>3, SessionTypes DEF RevokeKey, SessionOK
  <2>2. QED
    BY <1>3, <2>1 DEF RevokeKey, ApiKey, SessionOK, SessionAt
<1>4. ASSUME NEW w \in Workers, SweepKeys(w) PROVE UsedBeforeExpiry'
  <2>1. \A k \in sweep[w] : keys[k] \in ApiKey /\ keys[k] # Absent
    BY <1>4, SessionTypes DEF SweepKeys, SessionOK, SessionAt
  <2>2. QED
    BY <1>4, <2>1 DEF SweepKeys, Swept, ApiKey
<1>5. ASSUME UNCHANGED keys PROVE UsedBeforeExpiry'
  BY <1>5
<1>6. QED
  BY <1>1, <1>2, <1>3, <1>4, <1>5
     DEF Next, Step, Login, PresentKey, RefuseKey, LoadKey, LogoutAllSessions,
         SelectActiveKeys, BreakLogout, ReportFailure, WriteEvent, Other, Tick, Crash, vars

\* Events are written from "issued" and "revoked", where the row is as they say.
LEMMA AuditStep == IInv /\ [Next]_vars => AuditNeverAhead'
<1> SUFFICES ASSUME IInv, [Next]_vars PROVE AuditNeverAhead'
  OBVIOUS
<1>1. RowsKept
  BY RowsStep
<1>2. \A e \in audit : e.action \in {"issued", "revoked"} => e.id \in KeyIds
  BY DEF IInv, TypeOK, Event
<1>3. ASSUME NEW e \in audit
      PROVE  /\ e.action \in {"issued", "revoked"} => keys'[e.id] # Absent
             /\ e.action = "revoked" => ~Active(e.id)'
  BY <1>1, <1>2 DEF IInv, AuditNeverAhead, RowsKept, RowKept, Active
<1>4. ASSUME UNCHANGED audit PROVE AuditNeverAhead'
  BY <1>3, <1>4 DEF AuditNeverAhead
<1>5. ASSUME NEW w \in Workers, WriteEvent(w) PROVE AuditNeverAhead'
  <2>1. SessionAt(w) /\ pc[w] \in Audited /\ keys' = keys
    BY <1>5 DEF WriteEvent, IInv, SessionOK
  <2> PICK new : new = EventOf(w)
    OBVIOUS
  <2>2. /\ new.action \in {"issued", "revoked"} => keys'[new.id] # Absent
        /\ new.action = "revoked" => ~Active(new.id)'
    BY <2>1 DEF EventOf, Audited, SessionAt, Active
  <2>3. audit' = audit \cup {new}
    BY <1>5 DEF WriteEvent
  <2>4. QED
    BY <1>3, <2>2, <2>3 DEF AuditNeverAhead
<1>6. QED
  BY <1>4, <1>5
     DEF Next, Step, Login, PresentKey, AcceptKey, RefuseKey, CreateApiKey, LoadKey, RevokeKey,
         LogoutAllSessions, SelectActiveKeys, SweepKeys, BreakLogout, ReportFailure, Other, Tick,
         Crash, session, vars

LEMMA Invariance == Spec => []IInv
<1>1. IInv /\ [Next]_vars => IInv'
  BY TypeStep, SessionStep, UseStep, AuditStep DEF IInv
<1>2. QED
  BY InitHolds, <1>1, PTL DEF Spec

----------------------------------------------------------------------------
(* Theorems. *)

\* Every variable keeps its type.
THEOREM KeysTypeCorrect == Spec => []TypeOK
<1>1. IInv => TypeOK
  BY DEF IInv
<1>2. QED
  BY Invariance, <1>1, PTL

\* When logout_everywhere answers, every key its SELECT found is revoked.
THEOREM SweepIsComplete == Spec => []SweepCovers
<1>1. IInv => SweepCovers
  BY DEF IInv, SessionOK, SessionAt, SweepCovers
<1>2. QED
  BY Invariance, <1>1, PTL

\* No use is stamped after the expiry of the key.
THEOREM ExpiryHolds == Spec => []UsedBeforeExpiry
<1>1. IInv => UsedBeforeExpiry
  BY DEF IInv
<1>2. QED
  BY Invariance, <1>1, PTL

\* The audit trail of keys is never ahead of the table.
THEOREM AuditIsTrue == Spec => []AuditNeverAhead
<1>1. IInv => AuditNeverAhead
  BY DEF IInv
<1>2. QED
  BY Invariance, <1>1, PTL

\* No interleaving with a use or another revocation brings a key back.
THEOREM RevocationIsFinal == Spec => RevocationFinal
<1>1. IInv /\ [Next]_vars =>
        [\A k \in KeyIds :
           keys[k] # Absent =>
             /\ keys'[k] # Absent
             /\ keys'[k].user_id = keys[k].user_id
             /\ keys'[k].scopes = keys[k].scopes
             /\ keys'[k].expires_at = keys[k].expires_at
             /\ ~Active(k) => keys'[k].revoked_at # None]_vars
  BY RowsStep DEF RowsKept, RowKept
<1>2. QED
  BY Invariance, <1>1, PTL DEF Spec, RevocationFinal

\* Every key comes from a login of its owner.
THEOREM KeysAreMinted == Spec => MintedInteractively
<1> DEFINE A == \A k \in KeyIds :
       keys[k] = Absent /\ keys'[k] # Absent =>
         \E c \in Logins : /\ c.id = keys'[k].user_id
                           /\ c.scopes = keys'[k].scopes
                           /\ "apikey:create" \in c.scopes
                           /\ \E w \in Workers : /\ caller[w] # None
                                                 /\ caller[w].id = c.id
                                                 /\ caller[w].key = None
<1>1. IInv /\ [Next]_vars => [A]_vars
  <2> SUFFICES ASSUME IInv, Next, NEW k \in KeyIds, keys[k] = Absent, keys'[k] # Absent
      PROVE \E c \in Logins : /\ c.id = keys'[k].user_id
                              /\ c.scopes = keys'[k].scopes
                              /\ "apikey:create" \in c.scopes
                              /\ \E w \in Workers : /\ caller[w] # None
                                                    /\ caller[w].id = c.id
                                                    /\ caller[w].key = None
    OBVIOUS
  <2>1. PICK w \in Workers : CreateApiKey(w)
    BY DEF IInv, TypeOK, SessionOK, SessionAt, Next, Step, Login, PresentKey, AcceptKey, RefuseKey,
       LoadKey, RevokeKey, LogoutAllSessions, SelectActiveKeys, SweepKeys, Swept,
       BreakLogout, ReportFailure, WriteEvent, Other, Tick, Crash
  <2>2. SessionAt(w) /\ MayIssue(caller[w]) /\ pc[w] = "ready" /\ keys'[k] = NewKey(caller[w])
    BY <2>1 DEF IInv, TypeOK, SessionOK, CreateApiKey
  <2>3. caller[w] # None /\ caller[w].key = None /\ "apikey:create" \in caller[w].scopes
    BY <2>2 DEF SessionAt, MayIssue
  <2>4. [id |-> caller[w].id, scopes |-> caller[w].scopes] \in Logins
    BY <2>2, <2>3 DEF SessionAt
  <2>5. keys'[k].user_id = caller[w].id /\ keys'[k].scopes = caller[w].scopes
    BY <2>2 DEF NewKey
  <2>6. WITNESS [id |-> caller[w].id, scopes |-> caller[w].scopes] \in Logins
  <2>7. QED
    BY <2>3, <2>5
<1>2. QED
  BY Invariance, <1>1, PTL DEF Spec, MintedInteractively

\* A key is revoked by a request of its owner only.
THEOREM OwnersRevoke == Spec => RevokedByOwner
<1> DEFINE A == \A k \in KeyIds :
       Active(k) /\ keys'[k].revoked_at # None =>
         \E w \in Workers : /\ pc[w] \in {"revoking", "sweeping"}
                            /\ caller[w].id = keys[k].user_id
<1>1. IInv /\ [Next]_vars => [A]_vars
  <2> SUFFICES ASSUME IInv, Next, NEW k \in KeyIds, Active(k), keys'[k].revoked_at # None
      PROVE \E w \in Workers : /\ pc[w] \in {"revoking", "sweeping"}
                               /\ caller[w].id = keys[k].user_id
    OBVIOUS
  <2> USE DEF IInv, TypeOK, SessionOK
  <2>1. ASSUME NEW w \in Workers, AcceptKey(w) PROVE FALSE
    <3>1. SessionAt(w) /\ target[w] \in KeyIds /\ keys[target[w]] \in ApiKey
      BY <2>1, SessionTypes DEF AcceptKey
    <3>2. QED
      BY <2>1, <3>1 DEF AcceptKey, Used, Active, ApiKey
  <2>2. ASSUME NEW w \in Workers, CreateApiKey(w) PROVE FALSE
    BY <2>2 DEF CreateApiKey, Active
  <2>3. ASSUME NEW w \in Workers, RevokeKey(w)
        PROVE pc[w] = "revoking" /\ caller[w].id = keys[k].user_id
    BY <2>3 DEF RevokeKey, SessionAt, Active
  <2>4. ASSUME NEW w \in Workers, SweepKeys(w)
        PROVE pc[w] = "sweeping" /\ caller[w].id = keys[k].user_id
    BY <2>4 DEF SweepKeys, Swept, SessionAt, Active
  <2>5. ASSUME UNCHANGED keys PROVE FALSE
    BY <2>5 DEF Active
  <2>6. QED
    BY <2>1, <2>2, <2>3, <2>4, <2>5
       DEF Next, Step, Login, PresentKey, RefuseKey, LoadKey, LogoutAllSessions,
           SelectActiveKeys, BreakLogout, ReportFailure, WriteEvent, Other, Tick, Crash
<1>2. QED
  BY Invariance, <1>1, PTL DEF Spec, RevokedByOwner

\* Keys are issued to and revoked by their owners.
THEOREM OwnersKeepTheirKeys == Spec => KeysOwned
BY KeysAreMinted, OwnersRevoke, PTL DEF KeysOwned
============================================================================
