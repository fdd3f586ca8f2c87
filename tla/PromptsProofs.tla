--------------------------- MODULE PromptsProofs ---------------------------
(***************************************************************************)
(* Proofs, for every number of workers, prompts, users and request bodies, *)
(* of the properties of PromptsCorrect that hold under any interleaving,   *)
(* and of those that hold when requests do not overlap.                    *)
(***************************************************************************)
EXTENDS PromptsCorrect, TLAPS

USE PromptsAssumption

\* The row a POST inserts is a row, stamped when it is published.
LEMMA NewRowType ==
  ASSUME NEW data \in PromptCreate, NEW c \in CallerRecord
  PROVE  /\ NewRow(data, c) \in Row
         /\ NewRow(data, c).creator = c.id
         /\ NewRow(data, c).status = data.status
         /\ data.status \in Published => NewRow(data, c).published_at
<1> DEFINE stamp == data.status \in Published
<1>1. stamp \in BOOLEAN
  OBVIOUS
<1>2. EmbeddingSource(data.title, data.body) \in Vectors
  BY DEF PromptCreate, Vectors, EmbeddingSource
<1>3. NewRow(data, c) =
        [creator |-> c.id, status |-> data.status, visibility |-> data.visibility,
         featured |-> data.featured, title |-> data.title, body |-> data.body,
         vector |-> EmbeddingSource(data.title, data.body),
         published_at |-> stamp, deleted_at |-> FALSE]
  BY DEF NewRow
<1>4. c.id \in Users
  BY DEF CallerRecord
<1> HIDE DEF stamp
<1>5. NewRow(data, c) \in Row
  BY <1>1, <1>2, <1>3, <1>4 DEF Row, PromptCreate
<1>6. NewRow(data, c).published_at = stamp
  BY <1>3
<1>7. NewRow(data, c).creator = c.id /\ NewRow(data, c).status = data.status
  BY <1>3
<1>8. data.status \in Published => stamp
  BY DEF stamp
<1>9. QED
  BY <1>5, <1>6, <1>7, <1>8

\* An UPDATE leaves a row a row and keeps its owner; it changes the status only
\* to the one it carries.
LEMMA FlushType ==
  ASSUME NEW row \in Row, NEW change \in Change
  PROVE  /\ Flush(row, change) \in Row
         /\ Flush(row, change).creator = row.creator
         /\ Flush(row, change).status =
              IF change.status = None THEN row.status ELSE change.status
         /\ row.deleted_at => Flush(row, change).deleted_at
         /\ change.deleted_at = None => Flush(row, change).deleted_at = row.deleted_at
         /\ change.deleted_at = TRUE => Flush(row, change).deleted_at
         /\ row.published_at \/ change.published_at = TRUE => Flush(row, change).published_at
<1>1. Flush(row, change) \in Row
  BY DEF Flush, Patched, Row, Change
<1>2. QED
  BY <1>1 DEF Flush, Patched, Row, Change

\* What a PATCH computes is a change, decided as SessionAt wants it.
LEMMA PatchChangeType ==
  ASSUME NEW row \in Row, NEW data \in PromptUpdate, NEW c \in CallerRecord,
         PatchAllowed(row, data, c)
  PROVE  PatchChange(row, data) \in Change /\ PatchDecided(PatchChange(row, data), c)
<1> DEFINE old == EmbeddingSource(row.title, row.body)
           new == EmbeddingSource(Patched(data.title, row.title), Patched(data.body, row.body))
           status == Dirty(data.status, row.status)
<1>1. new \in Vectors
  BY DEF Patched, EmbeddingSource, Vectors, Row, PromptUpdate
<1>2. status \in Statuses \cup {None}
  BY DEF Dirty, Row, PromptUpdate
<1>3. PatchChange(row, data) \in Change
  BY <1>1, <1>2 DEF PatchChange, Reembed, Stamp, Dirty, Change, Row, PromptUpdate
<1>4. status # None => MayLeadTo(status, c)
  BY DEF Dirty, PatchAllowed, TransitionAllowed, MayLeadTo
<1>5. status \in Published => status # None
  BY DEF Published, Statuses
<1>6. PatchDecided(PatchChange(row, data), c)
  BY <1>4, <1>5 DEF PatchDecided, PatchChange, Stamp
<1>7. QED
  BY <1>3, <1>6

LEMMA DeletionChangeType ==
  DeletionChange \in Change /\ DeletionChange.deleted_at = TRUE
    /\ DeletionChange.status = None
BY DEF DeletionChange, Change

\* A prompt that is there makes an answer.
LEMMA SummaryType ==
  ASSUME TypeOK, NEW p \in PromptIds, prompts[p] # Absent,
         NEW c \in CallerRecord \cup {Anonymous}
  PROVE  Summary(p, c) \in Answer
BY DEF TypeOK, Summary, Answer, Row

\* Outdating lists that are kept leaves lists.
LEMMA OutdateType ==
  ASSUME TypeOK, NEW K, \A k \in K : kept[k] # None, Outdate(K)
  PROVE  kept' \in [Viewers -> Answer \cup {None}]
<1>1. ASSUME NEW e \in Answer PROVE [e EXCEPT !.outdated = TRUE] \in Answer
  BY DEF Answer
<1>2. QED
  BY <1>1 DEF Outdate, TypeOK
----------------------------------------------------------------------------
(* The inductive invariant.  TypeOK alone does not survive a Commit, which  *)
(* flushes a change computed earlier into a row that may have changed, and  *)
(* PublishedStamped does not either: SessionOK says what is still true of   *)
(* the pending change when it is committed.                                 *)

IInv == TypeOK /\ SessionOK /\ PublishedStamped

LEMMA InitIInv == Init => IInv
<1> SUFFICES ASSUME Init PROVE IInv
  OBVIOUS
<1>1. TypeOK
  BY DEF Init, TypeOK, PCs
<1>2. SessionOK
  BY DEF Init, SessionOK, SessionAt, Writing
<1>3. PublishedStamped
  BY DEF Init, PublishedStamped
<1>4. QED
  BY <1>1, <1>2, <1>3 DEF IInv

\* A step of one worker that removes no row and keeps every owner leaves the
\* sessions of the others in order.
LEMMA Frame ==
  ASSUME IInv, TypeOK', PublishedStamped', NEW w \in Workers, SessionAt(w)',
         \A v \in Workers \ {w} :
           /\ pc'[v] = pc[v] /\ caller'[v] = caller[v] /\ target'[v] = target[v]
           /\ dirty'[v] = dirty[v] /\ event'[v] = event[v],
         \A p \in PromptIds :
           prompts[p] # Absent =>
             prompts'[p] # Absent /\ prompts'[p].creator = prompts[p].creator
  PROVE  IInv'
<1>1. ASSUME NEW v \in Workers, v # w PROVE SessionAt(v)'
  <2>1. SessionAt(v)
    BY DEF IInv, SessionOK
  <2>2. target[v] \in PromptIds \cup {None}
    BY DEF IInv, TypeOK
  <2>3. v \in Workers \ {w}
    BY <1>1
  <2>4. QED
    BY <2>1, <2>2, <2>3 DEF SessionAt, DeleteAllowed, Owns, Writing
<1>2. SessionOK'
  BY <1>1 DEF SessionOK
<1>3. QED
  BY <1>2 DEF IInv

\* Closing a session is a step of that kind.
LEMMA RespondIInv ==
  ASSUME IInv, NEW w \in Workers, Respond(w), UNCHANGED <<prompts, userOrg>>,
         audit' \in [PromptIds -> Event \cup {None}], unaudited' \subseteq PromptIds,
         kept' \in [Viewers -> Answer \cup {None}]
  PROVE  IInv'
<1>1. TypeOK'
  BY DEF IInv, TypeOK, Respond, Goto, PCs
<1>2. SessionAt(w)'
  BY DEF IInv, TypeOK, Respond, Goto, SessionAt, Writing
<1>3. PublishedStamped'
  BY DEF IInv, PublishedStamped
<1>4. QED
  BY <1>1, <1>2, <1>3, Frame DEF IInv, TypeOK, Respond, Goto

\* A step of a worker that has nothing pending and touches no prompt.
LEMMA AuthenticationIInv ==
  ASSUME IInv, NEW w \in Workers,
         Authenticate(w) \/ AuthenticateApiKey(w) \/ AcceptAnonymous(w)
  PROVE  IInv'
<1>1. caller' \in [Workers -> CallerRecord \cup {Anonymous, None}] /\ caller'[w] # None
  <2>1. CASE Authenticate(w)
    BY <2>1 DEF Authenticate, IInv, TypeOK
  <2>2. CASE AuthenticateApiKey(w)
    <3>1. \A k \in KeyOwners :
            [id |-> k.id, org |-> userOrg[k.id], scopes |-> k.scopes] \in CallerRecord
      BY DEF IInv, TypeOK, CallerRecord
    <3>2. QED
      BY <2>2, <3>1 DEF AuthenticateApiKey, IInv, TypeOK
  <2>3. CASE AcceptAnonymous(w)
    BY <2>3 DEF AcceptAnonymous, IInv, TypeOK
  <2>4. QED
    BY <2>1, <2>2, <2>3
<1>2. userOrg' \in [Users -> Orgs \cup {NoOrg}]
  BY DEF Authenticate, AuthenticateApiKey, AcceptAnonymous, IInv, TypeOK, CallerRecord
<1>3. /\ pc' = [pc EXCEPT ![w] = "ready"]
      /\ \A v \in Workers \ {w} : caller'[v] = caller[v]
      /\ UNCHANGED <<prompts, audit, unaudited, target, dirty, event, obj>>
  BY DEF Authenticate, AuthenticateApiKey, AcceptAnonymous, Goto, IInv, TypeOK
<1>4. kept' \in [Viewers -> Answer \cup {None}]
  <2>1. CASE Authenticate(w)
    BY <2>1, OutdateType DEF Authenticate, IInv
  <2>2. CASE AuthenticateApiKey(w) \/ AcceptAnonymous(w)
    BY <2>2 DEF AuthenticateApiKey, AcceptAnonymous, IInv, TypeOK
  <2>3. QED
    BY <2>1, <2>2
<1>5. TypeOK'
  BY <1>1, <1>2, <1>3, <1>4 DEF IInv, TypeOK, PCs
<1>6. SessionAt(w)'
  BY <1>1, <1>3 DEF IInv, TypeOK, SessionAt, Writing
<1>7. PublishedStamped'
  BY <1>3 DEF IInv, PublishedStamped
<1>8. QED
  BY <1>3, <1>5, <1>6, <1>7, Frame DEF IInv, TypeOK

LEMMA ReadIInv ==
  ASSUME IInv, NEW w \in Workers,
         \/ GetPrompt(w) \/ RefreshViewed(w) \/ ListPrompts(w)
         \/ HitFeatured(w) \/ MissFeatured(w) \/ ListFeatured(w) \/ StoreFeatured(w)
         \/ SearchPrompts(w) \/ FetchPage(w)
  PROVE  IInv'
<1> USE DEF IInv
<1>1. UNCHANGED <<prompts, userOrg, audit, unaudited, caller, dirty, event>>
  BY DEF GetPrompt, RefreshViewed, ListPrompts, HitFeatured, MissFeatured, ListFeatured,
         StoreFeatured, SearchPrompts, FetchPage
<1>2. pc[w] # "idle" /\ caller[w] # None /\ caller[w] \in CallerRecord \cup {Anonymous}
  BY DEF GetPrompt, RefreshViewed, ListPrompts, HitFeatured, MissFeatured, ListFeatured,
         StoreFeatured, SearchPrompts, FetchPage, TypeOK, SessionOK, SessionAt
<1>3. Viewer(caller[w]) \in Viewers
  BY <1>2 DEF Viewer, Viewers, CallerRecord
<1>4. obj' \in [Workers -> Answer \cup {None}]
  <2>1. \A p \in PromptIds : prompts[p] # Absent => Summary(p, caller[w]) \in Answer
    BY <1>2, SummaryType
  <2>2. pc[w] \in {"viewing", "fetching"} =>
          target[w] \in PromptIds /\ prompts[target[w]] # Absent
    BY DEF TypeOK, SessionOK, SessionAt
  <2>3. QED
    BY <1>3, <2>1, <2>2 DEF GetPrompt, RefreshViewed, ListPrompts, HitFeatured, MissFeatured,
       ListFeatured, StoreFeatured, SearchPrompts, FetchPage, TypeOK, Selected, Found, Live
<1>5. kept' \in [Viewers -> Answer \cup {None}]
  BY <1>3 DEF GetPrompt, RefreshViewed, ListPrompts, HitFeatured, MissFeatured, ListFeatured,
         StoreFeatured, SearchPrompts, FetchPage, TypeOK
<1>6. \/ /\ \E l \in {"missed", "storing", "replying"} : pc' = [pc EXCEPT ![w] = l]
         /\ target' = target
      \/ \E p \in PromptIds, l \in {"viewing", "fetching"} :
           /\ prompts[p] # Absent
           /\ target' = [target EXCEPT ![w] = p]
           /\ pc' = [pc EXCEPT ![w] = l]
  BY DEF GetPrompt, RefreshViewed, ListPrompts, HitFeatured, MissFeatured, ListFeatured,
         StoreFeatured, SearchPrompts, FetchPage, Goto, Found, Selected, Live
<1>7. TypeOK'
  BY <1>1, <1>4, <1>5, <1>6 DEF TypeOK, PCs
<1>8. SessionAt(w)'
  BY <1>1, <1>2, <1>6 DEF TypeOK, SessionAt, Writing
<1>9. PublishedStamped'
  BY <1>1 DEF PublishedStamped
<1>10. \A v \in Workers \ {w} : pc'[v] = pc[v] /\ target'[v] = target[v]
  BY <1>6 DEF TypeOK
<1>11. QED
  BY <1>1, <1>7, <1>8, <1>9, <1>10, Frame

\* An INSERT adds a row where none was; a publication is stamped with it.
LEMMA CreateIInv ==
  ASSUME IInv, NEW w \in Workers, CreatePrompt(w) PROVE IInv'
<1> USE DEF IInv
<1>1. caller[w] \in CallerRecord
  BY DEF CreatePrompt, TypeOK, SessionOK, SessionAt
<1>2. PICK p \in PromptIds, data \in Creations :
        /\ prompts[p] = Absent
        /\ prompts' = [prompts EXCEPT ![p] = NewRow(data, caller[w])]
        /\ target'  = [target EXCEPT ![w] = p]
  BY DEF CreatePrompt
<1>3. /\ NewRow(data, caller[w]) \in Row
      /\ NewRow(data, caller[w]).status \in Published => NewRow(data, caller[w]).published_at
  BY <1>1, NewRowType
<1>4. /\ pc' = [pc EXCEPT ![w] = "committed"]
      /\ event' = [event EXCEPT ![w] = [action |-> "created", status |-> None]]
      /\ UNCHANGED <<userOrg, kept, audit, unaudited, caller, dirty, obj>>
  BY DEF CreatePrompt, Goto
<1>5. [action |-> "created", status |-> None] \in Event
  BY DEF Event
<1>6. TypeOK'
  BY <1>2, <1>3, <1>4, <1>5 DEF TypeOK, PCs
<1>7. prompts' \in [PromptIds -> Row \cup {Absent}] /\ prompts'[p] = NewRow(data, caller[w])
  BY <1>2, <1>6 DEF TypeOK
<1>8. SessionAt(w)'
  BY <1>1, <1>2, <1>3, <1>4, <1>5, <1>7 DEF TypeOK, SessionAt, Writing
<1>9. PublishedStamped'
  BY <1>2, <1>3 DEF TypeOK, PublishedStamped
<1>10. QED
  BY <1>2, <1>4, <1>6, <1>8, <1>9, Frame DEF TypeOK

\* Loading a row and deciding: what is pending suits the row and the caller.
LEMMA UpdateIInv ==
  ASSUME IInv, NEW w \in Workers, UpdatePrompt(w) PROVE IInv'
<1> USE DEF IInv
<1>1. caller[w] \in CallerRecord /\ caller[w] # Anonymous
  BY DEF UpdatePrompt, TypeOK, SessionOK, SessionAt
<1>2. PICK p \in PromptIds, data \in Patches :
        /\ Found(p, caller[w])
        /\ PatchAllowed(prompts[p], data, caller[w])
        /\ target' = [target EXCEPT ![w] = p]
        /\ dirty'  = [dirty EXCEPT ![w] = PatchChange(prompts[p], data)]
        /\ event'  = [event EXCEPT ![w] =
                        [action |-> IF data.status # None THEN "status_changed" ELSE "updated",
                         status |-> None]]
  BY DEF UpdatePrompt
<1>3. prompts[p] \in Row /\ prompts[p] # Absent
  BY <1>2 DEF Found, Selected, Live, TypeOK
<1>4. /\ PatchChange(prompts[p], data) \in Change
      /\ PatchDecided(PatchChange(prompts[p], data), caller[w])
  BY <1>1, <1>2, <1>3, PatchChangeType
<1>5. [action |-> IF data.status # None THEN "status_changed" ELSE "updated",
       status |-> None] \in Event
  BY DEF Event
<1>6. pc' = [pc EXCEPT ![w] = "updating"] /\ UNCHANGED <<prompts, userOrg, kept, audit, unaudited, caller, obj>>
  BY DEF UpdatePrompt, Goto
<1>7. TypeOK'
  BY <1>2, <1>4, <1>5, <1>6 DEF TypeOK, PCs
<1>8. SessionAt(w)'
  <2>1. /\ pc'[w] = "updating" /\ target'[w] = p
        /\ dirty'[w] = PatchChange(prompts[p], data) /\ event'[w] \in Event
    BY <1>2, <1>5, <1>6 DEF TypeOK
  <2>2. PatchChange(prompts[p], data) # None
    BY <1>4
  <2>3. QED
    BY <1>1, <1>3, <1>4, <1>6, <2>1, <2>2 DEF SessionAt, Writing
<1>9. PublishedStamped'
  BY <1>6 DEF PublishedStamped
<1>10. QED
  BY <1>2, <1>6, <1>7, <1>8, <1>9, Frame DEF TypeOK

LEMMA DeleteIInv ==
  ASSUME IInv, NEW w \in Workers, DeletePrompt(w) PROVE IInv'
<1> USE DEF IInv
<1>1. caller[w] # None /\ caller[w] # Anonymous
  BY DEF DeletePrompt, TypeOK, SessionOK, SessionAt
<1>2. PICK p \in PromptIds :
        /\ Found(p, caller[w])
        /\ DeleteAllowed(prompts[p], caller[w])
        /\ target' = [target EXCEPT ![w] = p]
  BY DEF DeletePrompt
<1>3. prompts[p] # Absent
  BY <1>2 DEF Found, Selected, Live
<1>4. /\ pc' = [pc EXCEPT ![w] = "deleting"]
      /\ dirty' = [dirty EXCEPT ![w] = DeletionChange]
      /\ event' = [event EXCEPT ![w] = [action |-> "deleted", status |-> None]]
      /\ UNCHANGED <<prompts, userOrg, kept, audit, unaudited, caller, obj>>
  BY DEF DeletePrompt, Goto
<1>5. [action |-> "deleted", status |-> None] \in Event
  BY DEF Event
<1>6. TypeOK'
  BY <1>2, <1>4, <1>5, DeletionChangeType DEF TypeOK, PCs
<1>7. SessionAt(w)'
  BY <1>1, <1>2, <1>3, <1>4, <1>5 DEF TypeOK, SessionAt, Writing
<1>8. PublishedStamped'
  BY <1>4 DEF PublishedStamped
<1>9. QED
  BY <1>2, <1>4, <1>6, <1>7, <1>8, Frame DEF TypeOK

\* What a Commit writes: the pending change, into the row as it is now.
LEMMA CommitFacts ==
  ASSUME IInv, NEW w \in Workers, Commit(w)
  PROVE  /\ target[w] \in PromptIds
         /\ prompts[target[w]] \in Row
         /\ dirty[w] \in Change
         /\ pc[w] = "updating" => PatchDecided(dirty[w], caller[w])
         /\ pc[w] = "deleting" =>
              /\ dirty[w] = DeletionChange
              /\ DeleteAllowed(prompts[target[w]], caller[w])
         /\ prompts' = [prompts EXCEPT ![target[w]] = Flush(prompts[target[w]], dirty[w])]
         /\ Flush(prompts[target[w]], dirty[w]) \in Row
<1>1. /\ target[w] \in PromptIds /\ prompts[target[w]] \in Row
      /\ pc[w] = "updating" => PatchDecided(dirty[w], caller[w])
      /\ pc[w] = "deleting" =>
           dirty[w] = DeletionChange /\ DeleteAllowed(prompts[target[w]], caller[w])
  BY DEF Commit, IInv, TypeOK, SessionOK, SessionAt, Writing
<1>2. dirty[w] \in Change
  BY DeletionChangeType DEF Commit, IInv, TypeOK, SessionOK, SessionAt
<1>3. Flush(prompts[target[w]], dirty[w]) \in Row
  BY <1>1, <1>2, FlushType
<1>4. QED
  BY <1>1, <1>2, <1>3 DEF Commit

LEMMA CommitIInv ==
  ASSUME IInv, NEW w \in Workers, Commit(w) PROVE IInv'
<1> USE DEF IInv
<1> DEFINE t == target[w]
           row == prompts[t]
           new == Flush(row, dirty[w])
<1>1. /\ t \in PromptIds /\ row \in Row /\ dirty[w] \in Change /\ new \in Row
      /\ prompts' = [prompts EXCEPT ![t] = new]
  BY CommitFacts
<1>2. dirty[w].status \in Published => dirty[w].published_at = TRUE
  <2>1. CASE pc[w] = "updating"
    BY <2>1, CommitFacts DEF PatchDecided
  <2>2. CASE pc[w] = "deleting"
    <3>1. dirty[w].status = None
      BY <2>2, CommitFacts, DeletionChangeType
    <3>2. None \notin Published
      BY DEF Published, Statuses
    <3>3. QED
      BY <3>1, <3>2
  <2>3. QED
    BY <2>1, <2>2 DEF Commit
<1>3. new.creator = row.creator
  BY <1>1, FlushType
<1>4. new.status \in Published => new.published_at
  <2>1. new.status = IF dirty[w].status = None THEN row.status ELSE dirty[w].status
    BY <1>1, FlushType
  <2>2. row.published_at \/ dirty[w].published_at = TRUE => new.published_at
    BY <1>1, FlushType
  <2>3. row.status \in Published => row.published_at
    BY <1>1 DEF PublishedStamped
  <2>4. QED
    BY <1>2, <2>1, <2>2, <2>3
<1>5. /\ pc' = [pc EXCEPT ![w] = "committed"]
      /\ dirty' = [dirty EXCEPT ![w] = None]
      /\ UNCHANGED <<userOrg, audit, unaudited, caller, target, event, obj>>
  BY DEF Commit, Goto
<1>6. kept' \in [Viewers -> Answer \cup {None}]
  BY OutdateType DEF Commit, Showing
<1> HIDE DEF new
<1>7. TypeOK'
  BY <1>1, <1>5, <1>6 DEF TypeOK, PCs
<1>8. SessionAt(w)'
  <2>1. /\ caller[w] # None /\ caller[w] # Anonymous /\ event[w] # None
    BY DEF Commit, SessionOK, SessionAt, Writing
  <2>2. pc'[w] = "committed" /\ prompts'[t] = new /\ target'[w] = t
    BY <1>1, <1>5 DEF TypeOK
  <2>3. QED
    BY <1>1, <1>5, <2>1, <2>2 DEF SessionAt, Writing
<1>9. PublishedStamped'
  BY <1>1, <1>4 DEF TypeOK, PublishedStamped
<1>10. \A p \in PromptIds :
        prompts[p] # Absent => prompts'[p] # Absent /\ prompts'[p].creator = prompts[p].creator
  BY <1>1, <1>3 DEF TypeOK
<1>11. QED
  BY <1>5, <1>7, <1>8, <1>9, <1>10, Frame DEF TypeOK

LEMMA RefreshIInv ==
  ASSUME IInv, NEW w \in Workers, RefreshCommitted(w) PROVE IInv'
<1> USE DEF IInv
<1> DEFINE s == IF event[w].action = "deleted" THEN None ELSE prompts[target[w]].status
<1>1. /\ caller[w] # None /\ caller[w] # Anonymous /\ event[w] \in Event
      /\ target[w] \in PromptIds /\ prompts[target[w]] \in Row
  BY DEF RefreshCommitted, TypeOK, SessionOK, SessionAt, Writing
<1>2. s \in Statuses \cup {None}
  BY <1>1 DEF Row
<1>3. [event[w] EXCEPT !.status = s] \in Event
  BY <1>1, <1>2 DEF Event
<1>4. event' = [event EXCEPT ![w] = [event[w] EXCEPT !.status = s]]
  BY DEF RefreshCommitted, TypeOK
<1>5. pc' = [pc EXCEPT ![w] = "auditing"]
      /\ UNCHANGED <<prompts, userOrg, kept, audit, unaudited, caller, target, dirty, obj>>
  BY DEF RefreshCommitted, Goto
<1> HIDE DEF s
<1>6. TypeOK'
  BY <1>3, <1>4, <1>5 DEF TypeOK, PCs
<1>7. SessionAt(w)'
  BY <1>1, <1>3, <1>4, <1>5 DEF TypeOK, SessionAt, Writing
<1>8. PublishedStamped'
  BY <1>5 DEF PublishedStamped
<1>9. QED
  BY <1>4, <1>5, <1>6, <1>7, <1>8, Frame DEF TypeOK

\* What follows the refresh: the event, and the keys of the cache.
LEMMA BehindIInv ==
  ASSUME IInv, NEW w \in Workers, WriteEvent(w) \/ EmptyAnonymous(w) PROVE IInv'
<1> USE DEF IInv
<1>1. /\ pc[w] \in {"auditing", "emptying"} /\ target[w] \in PromptIds /\ event[w] \in Event
      /\ UNCHANGED <<prompts, userOrg, caller, target, dirty, event, obj>>
  BY DEF WriteEvent, EmptyAnonymous, TypeOK, SessionOK, SessionAt, Writing
<1>2. \E l \in {"emptying", "emptyingOwn"} : pc' = [pc EXCEPT ![w] = l]
  BY DEF WriteEvent, EmptyAnonymous, Goto
<1>3. TypeOK'
  BY <1>1, <1>2 DEF WriteEvent, EmptyAnonymous, TypeOK, PCs, Viewers
<1>4. SessionAt(w)'
  BY <1>1, <1>2 DEF TypeOK, SessionOK, SessionAt, Writing
<1>5. PublishedStamped'
  BY <1>1 DEF PublishedStamped
<1>6. \A v \in Workers \ {w} : pc'[v] = pc[v]
  BY <1>2 DEF TypeOK
<1>7. QED
  BY <1>1, <1>3, <1>4, <1>5, <1>6, Frame

LEMMA CloseIInv ==
  ASSUME IInv, NEW w \in Workers,
         \/ SendPage(w) \/ FailFeatured(w) \/ AbortUpdate(w) \/ RefuseRequest(w)
         \/ FailEvent(w) \/ EmptyOwn(w) \/ FailEmptying(w)
  PROVE  IInv'
<1>1. /\ Respond(w) /\ UNCHANGED <<prompts, userOrg, audit>>
      /\ unaudited' = unaudited \/ FailEvent(w)
  BY DEF SendPage, FailFeatured, AbortUpdate, RefuseRequest, FailEvent, EmptyOwn, FailEmptying
<1>2. pc[w] \in {"committed", "auditing"} => target[w] \in PromptIds
  BY DEF IInv, TypeOK, SessionOK, SessionAt, Writing
<1>3. unaudited' \subseteq PromptIds
  BY <1>1, <1>2 DEF FailEvent, IInv, TypeOK
<1>4. kept' \in [Viewers -> Answer \cup {None}]
  <2>1. CASE FailEvent(w) \/ FailEmptying(w)
    BY <2>1, OutdateType DEF FailEvent, FailEmptying, Showing, IInv
  <2>2. CASE EmptyOwn(w)
    BY <2>2 DEF EmptyOwn, IInv, TypeOK
  <2>3. CASE SendPage(w) \/ FailFeatured(w) \/ AbortUpdate(w) \/ RefuseRequest(w)
    BY <2>3 DEF SendPage, FailFeatured, AbortUpdate, RefuseRequest, IInv, TypeOK
  <2>4. QED
    BY <2>1, <2>2, <2>3
<1>5. QED
  BY <1>1, <1>3, <1>4, RespondIInv DEF IInv, TypeOK

LEMMA CrashIInv ==
  ASSUME IInv, Crash PROVE IInv'
<1>1. TypeOK'
  <2>1. ASSUME NEW v \in Workers, pc[v] \in {"committed", "auditing"} PROVE target[v] \in PromptIds
    BY <2>1 DEF IInv, TypeOK, SessionOK, SessionAt, Writing
  <2>2. unaudited' \subseteq PromptIds
    BY <2>1 DEF Crash, IInv, TypeOK
  <2>3. kept' \in [Viewers -> Answer \cup {None}]
    <3>1. CASE Redis
      <4> DEFINE K == UNION {Showing(target[w]) : w \in {v \in Workers : Behind(v)}}
      <4>1. Outdate(K) /\ \A k \in K : kept[k] # None
        BY <3>1 DEF Crash, Showing
      <4> HIDE DEF K
      <4>2. QED
        BY <4>1, OutdateType DEF IInv
    <3>2. CASE ~Redis
      BY <3>2 DEF Crash
    <3>3. QED
      BY <3>1, <3>2
  <2>4. QED
    BY <2>2, <2>3 DEF Crash, IInv, TypeOK, PCs
<1>2. SessionOK'
  BY DEF Crash, SessionOK, SessionAt, Writing
<1>3. PublishedStamped'
  BY DEF Crash, IInv, PublishedStamped
<1>4. QED
  BY <1>1, <1>2, <1>3 DEF IInv

LEMMA ExpireIInv ==
  ASSUME IInv, NEW k \in Viewers, Expire(k) PROVE IInv'
<1>1. TypeOK'
  BY DEF Expire, IInv, TypeOK
<1>2. SessionOK' /\ PublishedStamped'
  BY DEF Expire, IInv, SessionOK, SessionAt, PublishedStamped
<1>3. QED
  BY <1>1, <1>2 DEF IInv

LEMMA NextIInv == IInv /\ [Next]_vars => IInv'
<1> SUFFICES ASSUME IInv, [Next]_vars PROVE IInv'
  OBVIOUS
<1>1. CASE Crash
  BY <1>1, CrashIInv
<1>2. ASSUME NEW w \in Workers, Step(w) PROVE IInv'
  BY <1>2, AuthenticationIInv, ReadIInv, CreateIInv, UpdateIInv, DeleteIInv, CommitIInv,
     RefreshIInv, BehindIInv, CloseIInv DEF Step
<1>3. ASSUME NEW k \in Viewers, Expire(k) PROVE IInv'
  BY <1>3, ExpireIInv
<1>4. CASE UNCHANGED vars
  BY <1>4 DEF vars, IInv, TypeOK, SessionOK, SessionAt, PublishedStamped
<1>5. QED
  BY <1>1, <1>2, <1>3, <1>4 DEF Next

LEMMA SpecIInv == Spec => []IInv
BY InitIInv, NextIInv, PTL DEF Spec
----------------------------------------------------------------------------
\* Every reachable state is well typed, for any number of workers and prompts.
THEOREM TypeCorrect == Spec => []TypeOK
BY SpecIInv, PTL DEF IInv

\* What PATCH and DELETE decided when they loaded the row still holds when they
\* commit, whatever was committed in between.
THEOREM DecisionsHold == Spec => []SessionOK
BY SpecIInv, PTL DEF IInv

\* A published prompt always has a publication time.
THEOREM PublishedIsStamped == Spec => []PublishedStamped
BY SpecIInv, PTL DEF IInv

----------------------------------------------------------------------------
(* Action properties.  Only CreatePrompt and Commit write the table. *)

LEMMA OnlyWriters ==
  ASSUME Next,
         \A w \in Workers : ~CreatePrompt(w) /\ ~Commit(w)
  PROVE  prompts' = prompts
<1>1. CASE Crash \/ \E k \in Viewers : Expire(k)
  BY <1>1 DEF Crash, Expire
<1>2. ASSUME NEW w \in Workers, Step(w) PROVE prompts' = prompts
  BY <1>2 DEF Step, Authenticate, AuthenticateApiKey, AcceptAnonymous, GetPrompt,
     RefreshViewed, ListPrompts, HitFeatured, MissFeatured, ListFeatured, StoreFeatured,
     FailFeatured, SearchPrompts, FetchPage, SendPage, UpdatePrompt, AbortUpdate, DeletePrompt,
     RefreshCommitted, WriteEvent, FailEvent, EmptyAnonymous, EmptyOwn, FailEmptying, RefuseRequest
<1>3. QED
  BY <1>1, <1>2 DEF Next

\* One step of the table: an INSERT where no row was, or one UPDATE by key.
LEMMA TableStep ==
  ASSUME IInv, Next
  PROVE  \/ prompts' = prompts
         \/ \E w \in Workers, p \in PromptIds, data \in Creations :
              /\ CreatePrompt(w)
              /\ prompts[p] = Absent
              /\ CreateAllowed(data.status, caller[w])
              /\ prompts' = [prompts EXCEPT ![p] = NewRow(data, caller[w])]
              /\ target' = [target EXCEPT ![w] = p]
         \/ \E w \in Workers :
              /\ Commit(w)
              /\ prompts' = [prompts EXCEPT ![target[w]] = Flush(prompts[target[w]], dirty[w])]
<1>1. ASSUME NEW w \in Workers, CreatePrompt(w)
      PROVE  \E p \in PromptIds, data \in Creations :
               /\ CreatePrompt(w)
               /\ prompts[p] = Absent
               /\ CreateAllowed(data.status, caller[w])
               /\ prompts' = [prompts EXCEPT ![p] = NewRow(data, caller[w])]
               /\ target' = [target EXCEPT ![w] = p]
  BY <1>1 DEF CreatePrompt
<1>2. ASSUME NEW w \in Workers, Commit(w)
      PROVE  prompts' = [prompts EXCEPT ![target[w]] = Flush(prompts[target[w]], dirty[w])]
  BY <1>2 DEF Commit
<1>3. QED
  BY <1>1, <1>2, OnlyWriters

\* A deletion is never undone, no row changes hands or disappears.
THEOREM DeletionIsFinal == Spec => DeletionFinal
<1> DEFINE Kept == \A p \in PromptIds :
                     prompts[p] # Absent =>
                       /\ prompts'[p] # Absent
                       /\ prompts'[p].creator = prompts[p].creator
                       /\ prompts[p].deleted_at => prompts'[p].deleted_at
<1>1. ASSUME IInv, Next PROVE Kept
  <2>1. CASE prompts' = prompts
    BY <2>1
  <2>2. ASSUME NEW w \in Workers, NEW q \in PromptIds, NEW data \in Creations,
               prompts[q] = Absent,
               prompts' = [prompts EXCEPT ![q] = NewRow(data, caller[w])]
        PROVE  Kept
    BY <1>1, <2>2 DEF IInv, TypeOK
  <2>3. ASSUME NEW w \in Workers, Commit(w) PROVE Kept
    <3> DEFINE t == target[w]
               new == Flush(prompts[t], dirty[w])
    <3>1. /\ t \in PromptIds /\ new \in Row
          /\ prompts' = [prompts EXCEPT ![t] = new]
          /\ new.creator = prompts[t].creator
          /\ prompts[t].deleted_at => new.deleted_at
      BY <1>1, <2>3, CommitFacts, FlushType
    <3> HIDE DEF new
    <3>2. QED
      BY <1>1, <3>1 DEF IInv, TypeOK
  <2>4. QED
    BY <1>1, <2>1, <2>2, <2>3, TableStep
<1>2. IInv /\ [Next]_vars => [Kept]_vars
  BY <1>1
<1>3. QED
  BY <1>2, SpecIInv, PTL DEF Spec, DeletionFinal

\* A prompt is deleted only by its owner or a moderator.
THEOREM DeletionIsAuthorised == Spec => DeletionAuthorised
<1> DEFINE Authorised ==
      \A p \in PromptIds :
        /\ prompts[p] # Absent
        /\ prompts'[p] # Absent
        /\ prompts'[p].deleted_at # prompts[p].deleted_at
        => \E w \in Workers : /\ pc[w] = "deleting"
                              /\ target[w] = p
                              /\ \/ caller[w].id = prompts[p].creator
                                 \/ HasScope(caller[w], "prompt:moderate")
<1>1. ASSUME IInv, Next PROVE Authorised
  <2>1. CASE prompts' = prompts
    BY <2>1
  <2>2. ASSUME NEW w \in Workers, NEW q \in PromptIds, NEW data \in Creations,
               prompts[q] = Absent,
               prompts' = [prompts EXCEPT ![q] = NewRow(data, caller[w])]
        PROVE  Authorised
    BY <1>1, <2>2 DEF IInv, TypeOK
  <2>3. ASSUME NEW w \in Workers, Commit(w) PROVE Authorised
    <3> DEFINE t == target[w]
               new == Flush(prompts[t], dirty[w])
    <3>1. /\ t \in PromptIds /\ new \in Row
          /\ prompts' = [prompts EXCEPT ![t] = new]
          /\ dirty[w].deleted_at = None => new.deleted_at = prompts[t].deleted_at
      BY <1>1, <2>3, CommitFacts, FlushType
    <3>2. pc[w] = "updating" => dirty[w].deleted_at = None
      BY <1>1, <2>3, CommitFacts DEF PatchDecided
    <3>3. pc[w] = "deleting" => DeleteAllowed(prompts[t], caller[w])
      BY <1>1, <2>3, CommitFacts
    <3>4. pc[w] \in {"updating", "deleting"}
      BY <2>3 DEF Commit
    <3> HIDE DEF new
    <3>5. QED
      BY <1>1, <3>1, <3>2, <3>3, <3>4 DEF IInv, TypeOK, DeleteAllowed, Owns
  <2>4. QED
    BY <1>1, <2>1, <2>2, <2>3, TableStep
<1>2. IInv /\ [Next]_vars => [Authorised]_vars
  BY <1>1
<1>3. QED
  BY <1>2, SpecIInv, PTL DEF Spec, DeletionAuthorised

\* A status other than the one a row had is written on behalf of a caller
\* with the scopes for it, under any interleaving.
THEOREM PublicationIsAuthorised == Spec => PublicationAuthorised
<1> DEFINE Authorised ==
      \A p \in PromptIds :
        StatusOf(prompts'[p]) # StatusOf(prompts[p]) =>
          \E w \in Workers : /\ pc[w] \in {"ready", "updating"}
                             /\ pc'[w] = "committed"
                             /\ target'[w] = p
                             /\ MayLeadTo(prompts'[p].status, caller[w])
<1>1. ASSUME IInv, Next PROVE Authorised
  <2>1. CASE prompts' = prompts
    BY <2>1
  <2>2. ASSUME NEW w \in Workers, NEW q \in PromptIds, NEW data \in Creations,
               CreatePrompt(w), prompts[q] = Absent,
               CreateAllowed(data.status, caller[w]),
               prompts' = [prompts EXCEPT ![q] = NewRow(data, caller[w])],
               target' = [target EXCEPT ![w] = q]
        PROVE  Authorised
    <3> DEFINE new == NewRow(data, caller[w])
    <3>1. caller[w] \in CallerRecord
      BY <1>1, <2>2 DEF CreatePrompt, IInv, TypeOK, SessionOK, SessionAt
    <3>2. new \in Row /\ new.status = data.status
      BY <3>1, NewRowType
    <3>3. new.status # "draft" => MayLeadTo(new.status, caller[w])
      BY <2>2, <3>2 DEF CreateAllowed, MayLeadTo
    <3>4. pc[w] = "ready" /\ pc'[w] = "committed" /\ target'[w] = q /\ prompts'[q] = new
      BY <1>1, <2>2 DEF CreatePrompt, Goto, IInv, TypeOK
    <3>5. \A p \in PromptIds \ {q} : prompts'[p] = prompts[p]
      BY <1>1, <2>2 DEF IInv, TypeOK
    <3> HIDE DEF new
    <3>6. StatusOf(new) # StatusOf(prompts[q]) => new.status # "draft"
      BY <2>2, <3>2 DEF StatusOf
    <3>7. QED
      BY <3>3, <3>4, <3>5, <3>6
  <2>3. ASSUME NEW w \in Workers, Commit(w) PROVE Authorised
    <3> DEFINE t == target[w]
               new == Flush(prompts[t], dirty[w])
    <3>1. /\ t \in PromptIds /\ prompts[t] \in Row /\ new \in Row
          /\ prompts' = [prompts EXCEPT ![t] = new]
          /\ new.status = IF dirty[w].status = None THEN prompts[t].status ELSE dirty[w].status
      BY <1>1, <2>3, CommitFacts, FlushType
    <3>2. pc[w] = "updating" /\ dirty[w].status # None => MayLeadTo(new.status, caller[w])
      BY <1>1, <2>3, <3>1, CommitFacts DEF PatchDecided
    <3>3. pc[w] = "deleting" => dirty[w].status = None
      BY <1>1, <2>3, CommitFacts, DeletionChangeType
    <3>4. /\ pc[w] \in {"updating", "deleting"}
          /\ pc'[w] = "committed" /\ target'[w] = t
      BY <1>1, <2>3 DEF Commit, Goto, IInv, TypeOK
    <3>5. prompts'[t] = new /\ \A p \in PromptIds \ {t} : prompts'[p] = prompts[p]
      BY <1>1, <3>1 DEF IInv, TypeOK
    <3> HIDE DEF new
    <3>6. StatusOf(new) # StatusOf(prompts[t]) => new.status # prompts[t].status
      BY <3>1 DEF StatusOf
    <3>7. QED
      BY <3>1, <3>2, <3>3, <3>4, <3>5, <3>6
  <2>4. QED
    BY <1>1, <2>1, <2>2, <2>3, TableStep
<1>2. IInv /\ [Next]_vars => [Authorised]_vars
  BY <1>1
<1>3. QED
  BY <1>2, SpecIInv, PTL DEF Spec, PublicationAuthorised
-----------------------------------------------------------------------------
(* What holds when requests do not overlap, for every set of prompts, users and
   request bodies: with one worker, the row a request commits into is the row it
   loaded.  The assumption Serial is needed: TLC finds both properties violated
   with two workers. *)

Serial == \A v, w \in Workers : v = w

\* What is pending was computed from the row as it is.
Fresh(w) ==
  /\ pc[w] = "updating" =>
       /\ Live(target[w])
       /\ \E data \in Patches :
            /\ PatchAllowed(prompts[target[w]], data, caller[w])
            /\ dirty[w] = PatchChange(prompts[target[w]], data)
  /\ pc[w] = "deleting" => Live(target[w])

SerialInv == IInv /\ EmbeddingCurrent /\ \A w \in Workers : Fresh(w)

\* A PATCH of a row whose vector fits its text leaves one whose vector does,
\* and a status that is the old one or a successor of it.
LEMMA FlushedPatch ==
  ASSUME NEW row \in Row, NEW data \in PromptUpdate, NEW c \in CallerRecord,
         PatchAllowed(row, data, c),
         row.vector = EmbeddingSource(row.title, row.body)
  PROVE  LET new == Flush(row, PatchChange(row, data))
         IN  /\ new.vector = EmbeddingSource(new.title, new.body)
             /\ new.status = row.status \/ new.status \in ValidTransitions(row.status)
             /\ new.deleted_at = row.deleted_at
<1> DEFINE change == PatchChange(row, data)
           new == Flush(row, change)
           title == Patched(data.title, row.title)
           body == Patched(data.body, row.body)
           source == EmbeddingSource(title, body)
<1>1. new.title = title /\ new.body = body
  BY DEF Flush, PatchChange, Patched, Dirty
<1>2. source \in Vectors
  BY DEF Patched, EmbeddingSource, Vectors, Row, PromptUpdate
<1>3. change.vector = Reembed(row.vector, source, row.vector)
  BY DEF PatchChange
<1>4. new.vector = Patched(change.vector, row.vector)
  BY DEF Flush
<1>5. new.vector = source
  <2> HIDE DEF new, change, source
  <2>1. QED
    BY <1>2, <1>3, <1>4 DEF Reembed, Patched, Dirty
<1>6. new.status = Patched(Dirty(data.status, row.status), row.status)
  BY DEF Flush, PatchChange
<1>7. new.status = row.status \/ new.status \in ValidTransitions(row.status)
  <2> HIDE DEF new, change
  <2>1. QED
    BY <1>6 DEF Patched, Dirty, PatchAllowed, TransitionAllowed
<1>8. new.deleted_at = row.deleted_at
  BY DEF Flush, PatchChange, Patched
<1>9. QED
  BY <1>1, <1>5, <1>7, <1>8

LEMMA FreshStep ==
  ASSUME Serial, SerialInv, Next PROVE \A w \in Workers : Fresh(w)'
<1> USE DEF SerialInv, IInv
<1>1. CASE Crash \/ \E k \in Viewers : Expire(k)
  BY <1>1 DEF Crash, Expire, Fresh, Live
<1>2. ASSUME NEW w \in Workers, Step(w) PROVE Fresh(w)'
  <2>1. CASE UpdatePrompt(w)
    <3>1. PICK p \in PromptIds, data \in Patches :
            /\ Found(p, caller[w])
            /\ PatchAllowed(prompts[p], data, caller[w])
            /\ target' = [target EXCEPT ![w] = p]
            /\ dirty'  = [dirty EXCEPT ![w] = PatchChange(prompts[p], data)]
      BY <2>1 DEF UpdatePrompt
    <3>2. pc'[w] = "updating" /\ UNCHANGED <<prompts, caller>>
      BY <2>1 DEF UpdatePrompt, Goto, TypeOK
    <3>3. target'[w] = p /\ dirty'[w] = PatchChange(prompts[p], data)
      BY <3>1 DEF TypeOK
    <3>4. Live(p)
      BY <3>1 DEF Found, Selected
    <3>5. QED
      BY <3>1, <3>2, <3>3, <3>4 DEF Fresh, Live
  <2>2. CASE DeletePrompt(w)
    <3>1. PICK p \in PromptIds : Live(p) /\ target' = [target EXCEPT ![w] = p]
      BY <2>2 DEF DeletePrompt, Found, Selected
    <3>2. pc'[w] = "deleting" /\ target'[w] = p /\ prompts' = prompts
      BY <2>2, <3>1 DEF DeletePrompt, Goto, TypeOK
    <3>3. QED
      BY <3>1, <3>2 DEF Fresh, Live
  <2>3. CASE ~UpdatePrompt(w) /\ ~DeletePrompt(w)
    <3>1. pc'[w] \notin {"updating", "deleting"}
      BY <1>2, <2>3 DEF Step, Authenticate, AuthenticateApiKey, AcceptAnonymous, GetPrompt,
         RefreshViewed, ListPrompts, HitFeatured, MissFeatured, ListFeatured, StoreFeatured,
         FailFeatured, SearchPrompts, FetchPage, SendPage, CreatePrompt, AbortUpdate, Commit,
         RefreshCommitted, WriteEvent, FailEvent, EmptyAnonymous, EmptyOwn, FailEmptying,
         RefuseRequest, Respond, Goto, TypeOK
    <3>2. QED
      BY <3>1 DEF Fresh
  <2>4. QED
    BY <2>1, <2>2, <2>3
<1>3. QED
  BY <1>1, <1>2 DEF Next, Serial

\* What the step of the one worker does to a row.
LEMMA SerialStep ==
  ASSUME SerialInv, Next, NEW p \in PromptIds, prompts'[p] # prompts[p]
  PROVE  /\ prompts'[p] \in Row
         /\ prompts'[p].vector = EmbeddingSource(prompts'[p].title, prompts'[p].body)
         /\ \/ prompts[p] = Absent /\ ~prompts'[p].deleted_at
            \/ /\ prompts[p] \in Row /\ ~prompts[p].deleted_at
               /\ \/ prompts'[p].deleted_at
                  \/ /\ ~prompts'[p].deleted_at
                     /\ \/ prompts'[p].status = prompts[p].status
                        \/ prompts'[p].status \in ValidTransitions(prompts[p].status)
         /\ \A q \in PromptIds \ {p} : prompts'[q] = prompts[q]
<1> USE DEF SerialInv
<1>1. ASSUME NEW w \in Workers, NEW q \in PromptIds, NEW data \in Creations,
             CreatePrompt(w), prompts[q] = Absent,
             prompts' = [prompts EXCEPT ![q] = NewRow(data, caller[w])]
      PROVE  /\ q = p /\ prompts'[p] \in Row /\ ~prompts'[p].deleted_at
             /\ prompts'[p].vector = EmbeddingSource(prompts'[p].title, prompts'[p].body)
  <2>1. caller[w] \in CallerRecord
    BY <1>1 DEF CreatePrompt, IInv, TypeOK, SessionOK, SessionAt
  <2>2. q = p /\ prompts'[p] = NewRow(data, caller[w])
    BY <1>1 DEF IInv, TypeOK
  <2>3. NewRow(data, caller[w]) \in Row
    BY <2>1, NewRowType
  <2>4. QED
    BY <2>2, <2>3 DEF NewRow
<1>2. ASSUME NEW w \in Workers, Commit(w)
      PROVE  /\ target[w] = p /\ prompts'[p] \in Row
             /\ prompts[p] \in Row /\ ~prompts[p].deleted_at
             /\ prompts'[p].vector = EmbeddingSource(prompts'[p].title, prompts'[p].body)
             /\ \/ prompts'[p].deleted_at
                \/ /\ ~prompts'[p].deleted_at
                   /\ \/ prompts'[p].status = prompts[p].status
                      \/ prompts'[p].status \in ValidTransitions(prompts[p].status)
  <2> DEFINE t == target[w]
             new == Flush(prompts[t], dirty[w])
  <2>1. /\ t \in PromptIds /\ prompts[t] \in Row /\ new \in Row
        /\ prompts' = [prompts EXCEPT ![t] = new]
    BY <1>2, CommitFacts
  <2>2. t = p /\ prompts'[p] = new
    BY <2>1 DEF IInv, TypeOK
  <2>3. prompts[p].vector = EmbeddingSource(prompts[p].title, prompts[p].body)
    BY <2>1, <2>2 DEF EmbeddingCurrent
  <2>4. CASE pc[w] = "updating"
    <3>1. PICK data \in Patches :
            /\ PatchAllowed(prompts[t], data, caller[w])
            /\ dirty[w] = PatchChange(prompts[t], data)
      BY <2>4 DEF Fresh
    <3>2. ~prompts[t].deleted_at
      BY <2>4 DEF Fresh, Live
    <3>3. caller[w] \in CallerRecord /\ data \in PromptUpdate
      BY <2>4 DEF IInv, TypeOK, SessionOK, SessionAt, Writing
    <3>4. /\ new.vector = EmbeddingSource(new.title, new.body)
          /\ new.status = prompts[t].status \/ new.status \in ValidTransitions(prompts[t].status)
          /\ new.deleted_at = prompts[t].deleted_at
      BY <2>1, <2>2, <2>3, <3>1, <3>3, FlushedPatch
    <3> HIDE DEF new
    <3>5. QED
      BY <2>1, <2>2, <3>2, <3>4
  <2>5. CASE pc[w] = "deleting"
    <3>1. dirty[w] = DeletionChange
      BY <1>2, <2>5, CommitFacts
    <3>2. ~prompts[t].deleted_at
      BY <2>5 DEF Fresh, Live
    <3>3. new.deleted_at
      BY <2>1, <3>1, FlushType, DeletionChangeType
    <3>4. /\ new.vector = prompts[t].vector
          /\ new.title = prompts[t].title /\ new.body = prompts[t].body
      BY <3>1 DEF Flush, DeletionChange, Patched
    <3> HIDE DEF new
    <3>5. QED
      BY <2>1, <2>2, <2>3, <3>2, <3>3, <3>4
  <2>6. QED
    BY <1>2, <2>4, <2>5 DEF Commit
<1>3. \/ \E w \in Workers, q \in PromptIds, data \in Creations :
           /\ CreatePrompt(w) /\ prompts[q] = Absent
           /\ prompts' = [prompts EXCEPT ![q] = NewRow(data, caller[w])]
      \/ \E w \in Workers :
           Commit(w) /\ prompts' = [prompts EXCEPT ![target[w]] = Flush(prompts[target[w]], dirty[w])]
  BY TableStep
<1>4. CASE \E w \in Workers, q \in PromptIds, data \in Creations :
           /\ CreatePrompt(w) /\ prompts[q] = Absent
           /\ prompts' = [prompts EXCEPT ![q] = NewRow(data, caller[w])]
  <2>1. PICK w \in Workers, q \in PromptIds, data \in Creations :
          /\ CreatePrompt(w) /\ prompts[q] = Absent
          /\ prompts' = [prompts EXCEPT ![q] = NewRow(data, caller[w])]
    BY <1>4
  <2>2. /\ q = p /\ prompts'[p] \in Row /\ ~prompts'[p].deleted_at
        /\ prompts'[p].vector = EmbeddingSource(prompts'[p].title, prompts'[p].body)
    BY <1>1, <2>1
  <2>3. \A r \in PromptIds \ {p} : prompts'[r] = prompts[r]
    BY <2>1, <2>2 DEF IInv, TypeOK
  <2>4. QED
    BY <2>1, <2>2, <2>3
<1>5. CASE \E w \in Workers :
           Commit(w) /\ prompts' = [prompts EXCEPT ![target[w]] = Flush(prompts[target[w]], dirty[w])]
  <2>1. PICK w \in Workers :
          Commit(w) /\ prompts' = [prompts EXCEPT ![target[w]] = Flush(prompts[target[w]], dirty[w])]
    BY <1>5
  <2>2. \A r \in PromptIds \ {p} : prompts'[r] = prompts[r]
    BY <1>2, <2>1 DEF IInv, TypeOK
  <2>3. QED
    BY <1>2, <2>1, <2>2
<1>6. QED
  BY <1>3, <1>4, <1>5

LEMMA SerialInvInit == Init => SerialInv
BY InitIInv DEF Init, SerialInv, EmbeddingCurrent, Fresh

LEMMA SerialInvNext == ASSUME Serial PROVE SerialInv /\ [Next]_vars => SerialInv'
<1>1. ASSUME SerialInv, Next PROVE SerialInv'
  <2>1. IInv'
    BY <1>1, NextIInv DEF SerialInv
  <2>2. \A w \in Workers : Fresh(w)'
    BY <1>1, FreshStep
  <2>3. EmbeddingCurrent'
    <3>1. ASSUME NEW p \in PromptIds, prompts'[p] # Absent
          PROVE  prompts'[p].vector = EmbeddingSource(prompts'[p].title, prompts'[p].body)
      BY <1>1, <3>1, SerialStep DEF SerialInv, EmbeddingCurrent
    <3>2. QED
      BY <3>1 DEF EmbeddingCurrent
  <2>4. QED
    BY <2>1, <2>2, <2>3 DEF SerialInv
<1>2. ASSUME SerialInv, UNCHANGED vars PROVE SerialInv'
  <2>1. IInv'
    BY <1>2, NextIInv DEF SerialInv
  <2>2. EmbeddingCurrent' /\ \A w \in Workers : Fresh(w)'
    BY <1>2 DEF vars, SerialInv, EmbeddingCurrent, Fresh, Live
  <2>3. QED
    BY <2>1, <2>2 DEF SerialInv
<1>3. QED
  BY <1>1, <1>2

\* Without overlapping requests the vector of a prompt is the embedding of its
\* text, with crashes and failing embeddings.
THEOREM SerialEmbedding == ASSUME Serial PROVE Spec => []EmbeddingCurrent
<1>1. SerialInv => EmbeddingCurrent
  BY DEF SerialInv
<1>2. QED
  BY <1>1, SerialInvInit, SerialInvNext, PTL DEF Spec
----------------------------------------------------------------------------
\* Without overlapping requests the prompts table implements PromptLifecycle.
THEOREM SerialLifecycle == ASSUME Serial PROVE Spec => FollowsLifecycle
<1> DEFINE life == [p \in PromptIds |-> Life(prompts[p])]
<1>1. Init => Lifecycle!LifeInit
  BY DEF Init, Lifecycle!LifeInit, Life
<1>2. ASSUME SerialInv, Next, NEW p \in PromptIds, prompts'[p] # prompts[p]
      PROVE  Lifecycle!LifeNext \/ UNCHANGED life
  <2>1. /\ prompts'[p] \in Row
        /\ \/ prompts[p] = Absent /\ ~prompts'[p].deleted_at
           \/ /\ prompts[p] \in Row /\ ~prompts[p].deleted_at
              /\ \/ prompts'[p].deleted_at
                 \/ /\ ~prompts'[p].deleted_at
                    /\ \/ prompts'[p].status = prompts[p].status
                       \/ prompts'[p].status \in ValidTransitions(prompts[p].status)
        /\ \A q \in PromptIds \ {p} : prompts'[q] = prompts[q]
    BY <1>2, SerialStep
  <2>2. life' = [life EXCEPT ![p] = Life(prompts'[p])]
    BY <2>1
  <2>3. /\ DOMAIN Lifecycle!Graph = Statuses
        /\ \A s \in Statuses : Lifecycle!Graph[s] = ValidTransitions(s)
    BY DEF Lifecycle!Graph, Statuses, ValidTransitions
  <2>4. prompts'[p] # Absent /\ prompts'[p].status \in Statuses
    BY <2>1 DEF Row
  <2>5. CASE prompts[p] = Absent /\ ~prompts'[p].deleted_at
    <3>1. Lifecycle!Create(p)
      BY <2>2, <2>3, <2>4, <2>5 DEF Lifecycle!Create, Life
    <3>2. QED
      BY <3>1 DEF Lifecycle!LifeNext
  <2>6. CASE prompts[p] \in Row /\ ~prompts[p].deleted_at /\ prompts'[p].deleted_at
    <3>1. Life(prompts[p]) = prompts[p].status /\ prompts[p].status \in Statuses
      BY <2>6 DEF Life, Row
    <3>2. Lifecycle!Delete(p)
      BY <2>2, <2>3, <2>4, <2>6, <3>1 DEF Lifecycle!Delete, Life
    <3>3. QED
      BY <3>2 DEF Lifecycle!LifeNext
  <2>7. CASE /\ prompts[p] \in Row /\ ~prompts[p].deleted_at /\ ~prompts'[p].deleted_at
             /\ \/ prompts'[p].status = prompts[p].status
                \/ prompts'[p].status \in ValidTransitions(prompts[p].status)
    <3>1. Life(prompts[p]) = prompts[p].status /\ prompts[p].status \in Statuses
      BY <2>7 DEF Life, Row
    <3>2. Life(prompts'[p]) = prompts'[p].status
      BY <2>4, <2>7 DEF Life
    <3>3. CASE prompts'[p].status = prompts[p].status
      BY <2>2, <3>1, <3>2, <3>3
    <3>4. CASE prompts'[p].status \in ValidTransitions(prompts[p].status)
      <4>1. Lifecycle!Transition(p)
        BY <2>2, <2>3, <3>1, <3>2, <3>4 DEF Lifecycle!Transition
      <4>2. QED
        BY <4>1 DEF Lifecycle!LifeNext
    <3>5. QED
      BY <2>7, <3>3, <3>4
  <2>8. QED
    BY <2>1, <2>5, <2>6, <2>7
<1>3. SerialInv /\ [Next]_vars => [Lifecycle!LifeNext]_life
  <2>1. ASSUME SerialInv, Next PROVE Lifecycle!LifeNext \/ UNCHANGED life
    BY <1>2, <2>1
  <2>2. UNCHANGED vars => UNCHANGED life
    BY DEF vars
  <2>3. QED
    BY <2>1, <2>2
<1>4. QED
  BY <1>1, <1>3, SerialInvInit, SerialInvNext, PTL DEF Spec, FollowsLifecycle, Lifecycle!LifeSpec
----------------------------------------------------------------------------
\* Without overlapping requests nothing is written to a deleted row.
THEOREM SerialFrozen == ASSUME Serial PROVE Spec => DeletedFrozen
<1> DEFINE Frozen == \A p \in PromptIds :
             prompts[p] # Absent /\ prompts[p].deleted_at => prompts'[p] = prompts[p]
<1>1. SerialInv /\ [Next]_vars => [Frozen]_vars
  <2>1. ASSUME SerialInv, Next, NEW p \in PromptIds, prompts[p] # Absent, prompts[p].deleted_at
        PROVE  prompts'[p] = prompts[p]
    BY <2>1, SerialStep
  <2>2. QED
    BY <2>1
<1>2. QED
  BY <1>1, SerialInvInit, SerialInvNext, PTL DEF Spec, DeletedFrozen
----------------------------------------------------------------------------
(* Reads.  The users row of a caller is that of its credential while its    *)
(* request lasts, so that the organisation the filters compare with is the  *)
(* one the table of the documentation speaks of.  A featured list that is   *)
(* kept agrees with the database, or it is outdated, or the one request     *)
(* that overtook it is on its way to empty it.                              *)

OrgKnown(w) ==
  pc[w] # "idle" /\ caller[w] # Anonymous => userOrg[caller[w].id] = caller[w].org

\* An answer is what its caller would be told now.
Agrees(e) ==
  /\ Live(e.id) /\ e = Summary(e.id, e.for)
  /\ ModelVisible(e, e.for)
  /\ e.for # Anonymous => userOrg[e.for.id] = e.for.org

\* The request is behind its commit and has yet to empty the key of a list.
Leaves(w, k) ==
  /\ Behind(w) /\ target[w] = kept[k].id /\ k \in Emptied(caller[w])
  /\ pc[w] = "emptyingOwn" => k = Viewer(caller[w])

KeptFits(k) ==
  kept[k] # None =>
    /\ Viewer(kept[k].for) = k /\ ~kept[k].deleted_at
    /\ kept[k].outdated \/ Agrees(kept[k]) \/ \E w \in Workers : Leaves(w, k)

\* What a read has found is visible to its caller and not deleted.
Sees(w) ==
  /\ pc[w] \in {"idle", "ready", "missed"} => obj[w] = None
  /\ pc[w] \in {"viewing", "fetching"} =>
       Live(target[w]) /\ ModelVisible(prompts[target[w]], caller[w])
  /\ pc[w] = "storing" => obj[w] # None /\ obj[w].for = caller[w] /\ Agrees(obj[w])
  /\ pc[w] = "replying" /\ obj[w] # None =>
       /\ Viewer(obj[w].for) = Viewer(caller[w]) /\ ~obj[w].deleted_at
       /\ obj[w].outdated \/ Agrees(obj[w])

ReadInv ==
  /\ SerialInv
  /\ \A w \in Workers : OrgKnown(w) /\ Sees(w)
  /\ \A k \in Viewers : KeptFits(k)

LEMMA FiltersShow ==
  ASSUME NEW row, NEW c, NEW asked, ApplyVisibilityFilters(row, c, userOrg, asked)
  PROVE  ModelVisible(row, c)
  BY DEF ApplyVisibilityFilters, VisibilityFilter, DraftVisible, SameOrg, Owns, IsOrgAdmin,
     ModelVisible, AuthorOrgIs

LEMMA FiltersMiss ==
  ASSUME NEW p \in PromptIds, NEW c \in CallerRecord, userOrg[c.id] = c.org,
         Live(p), prompts[p].visibility # "restricted", ModelVisible(prompts[p], c)
  PROVE  Found(p, c)
  BY DEF Found, Selected, ApplyVisibilityFilters, VisibilityFilter, DraftVisible, SameOrg, Owns,
     IsOrgAdmin, ModelVisible, AuthorOrgIs

LEMMA OrgStep ==
  ASSUME Serial, ReadInv, Next PROVE \A w \in Workers : OrgKnown(w)'
<1> USE DEF ReadInv, SerialInv, IInv, TypeOK
<1>1. CASE Crash \/ \E k \in Viewers : Expire(k)
  BY <1>1 DEF Crash, Expire, OrgKnown
<1>2. ASSUME NEW w \in Workers, Step(w) PROVE OrgKnown(w)'
  <2>1. CASE Authenticate(w)
    <3>1. PICK c \in Claims : /\ caller' = [caller EXCEPT ![w] = c]
                              /\ userOrg' = [userOrg EXCEPT ![c.id] = c.org]
      BY <2>1 DEF Authenticate
    <3>2. caller'[w] = c /\ c.id \in Users /\ userOrg'[c.id] = c.org
      BY <3>1 DEF CallerRecord
    <3>3. QED
      BY <3>2 DEF OrgKnown
  <2>2. CASE AuthenticateApiKey(w)
    <3>1. PICK k \in KeyOwners :
            caller' = [caller EXCEPT ![w] =
                         [id |-> k.id, org |-> userOrg[k.id], scopes |-> k.scopes]]
      BY <2>2 DEF AuthenticateApiKey
    <3>2. caller'[w] = [id |-> k.id, org |-> userOrg[k.id], scopes |-> k.scopes]
      BY <3>1
    <3>3. userOrg' = userOrg
      BY <2>2 DEF AuthenticateApiKey
    <3>4. QED
      BY <3>2, <3>3 DEF OrgKnown
  <2>3. CASE AcceptAnonymous(w)
    <3>1. caller'[w] = Anonymous
      BY <2>3 DEF AcceptAnonymous
    <3>2. QED
      BY <3>1 DEF OrgKnown
  <2>4. CASE ~Authenticate(w) /\ ~AuthenticateApiKey(w) /\ ~AcceptAnonymous(w)
    <3>1. userOrg' = userOrg /\ (pc'[w] # "idle" => pc[w] # "idle" /\ caller'[w] = caller[w])
      BY <1>2, <2>4 DEF Step, GetPrompt, RefreshViewed, ListPrompts, HitFeatured, MissFeatured,
         ListFeatured, StoreFeatured, FailFeatured, SearchPrompts, FetchPage, SendPage,
         CreatePrompt, UpdatePrompt, DeletePrompt, AbortUpdate, Commit, RefreshCommitted,
         WriteEvent, FailEvent, EmptyAnonymous, EmptyOwn, FailEmptying, RefuseRequest, Respond, Goto
    <3>2. QED
      BY <3>1 DEF OrgKnown
  <2>5. QED
    BY <2>1, <2>2, <2>3, <2>4
<1>3. QED
  BY <1>1, <1>2 DEF Next, Serial

\* What a filtered SELECT finds agrees with the database.
LEMMA FoundAgrees ==
  ASSUME ReadInv, NEW w \in Workers, pc[w] # "idle", NEW p \in PromptIds,
         Live(p), ModelVisible(prompts[p], caller[w])
  PROVE  /\ Summary(p, caller[w]) # None
         /\ Agrees(Summary(p, caller[w]))
         /\ Summary(p, caller[w]).for = caller[w] /\ ~Summary(p, caller[w]).deleted_at
<1> USE DEF ReadInv, SerialInv, IInv
<1>1. caller[w] \in CallerRecord \cup {Anonymous}
  BY DEF TypeOK, SessionOK, SessionAt
<1>2. Summary(p, caller[w]) # None
  BY <1>1, SummaryType DEF Live
<1>3. ModelVisible(Summary(p, caller[w]), caller[w])
  BY DEF Summary, ModelVisible, AuthorOrgIs
<1>4. QED
  BY <1>2, <1>3 DEF Agrees, Summary, Live, OrgKnown

\* A list that agrees goes on to do so while its prompt stays as it is and the
\* organisations it depends on stay.
LEMMA AgreesStep ==
  ASSUME NEW k, Agrees(kept[k]), kept'[k] = kept[k],
         prompts'[kept[k].id] = prompts[kept[k].id],
         kept[k].for # Anonymous =>
           /\ userOrg'[kept[k].creator] = userOrg[kept[k].creator]
           /\ userOrg'[kept[k].for.id] = userOrg[kept[k].for.id]
  PROVE  Agrees(kept[k])'
BY DEF Agrees, Live, Summary, ModelVisible, AuthorOrgIs

LEMMA SeesStep ==
  ASSUME Serial, ReadInv, Next PROVE \A w \in Workers : Sees(w)'
<1> USE DEF ReadInv, SerialInv, IInv, TypeOK
<1>1. CASE Crash
  BY <1>1 DEF Crash, Sees
<1>2. ASSUME NEW k \in Viewers, Expire(k) PROVE \A w \in Workers : Sees(w)'
  BY <1>2 DEF Expire, Sees, Agrees, Live, Summary, ModelVisible, AuthorOrgIs
<1>3. ASSUME NEW w \in Workers, Step(w) PROVE Sees(w)'
  <2>1. CASE Authenticate(w) \/ AuthenticateApiKey(w) \/ AcceptAnonymous(w)
    <3>1. pc[w] = "idle" /\ pc'[w] = "ready" /\ obj' = obj
      BY <2>1 DEF Authenticate, AuthenticateApiKey, AcceptAnonymous, Goto
    <3>2. QED
      BY <3>1 DEF Sees
  <2>2. CASE GetPrompt(w) \/ SearchPrompts(w)
    <3>1. PICK p \in PromptIds, asked \in Visibilities \cup {"any"} :
            Selected(p, caller[w], asked) /\ target' = [target EXCEPT ![w] = p]
      BY <2>2 DEF GetPrompt, SearchPrompts, Found
    <3>2. /\ pc'[w] \in {"viewing", "fetching"} /\ target'[w] = p
          /\ UNCHANGED <<prompts, userOrg, caller>>
      BY <2>2, <3>1 DEF GetPrompt, SearchPrompts, Goto
    <3>3. Live(p) /\ ModelVisible(prompts[p], caller[w])
      BY <3>1, FiltersShow DEF Selected
    <3>4. QED
      BY <3>2, <3>3 DEF Sees, Live, ModelVisible, AuthorOrgIs
  <2>3. CASE ListPrompts(w) \/ ListFeatured(w)
    <3>1. /\ pc[w] \in {"ready", "missed"} /\ pc'[w] \in {"replying", "storing"}
          /\ UNCHANGED <<prompts, userOrg, caller>>
      BY <2>3 DEF ListPrompts, ListFeatured, Goto
    <3>2. CASE obj' = obj /\ pc'[w] = "replying"
      BY <3>1, <3>2 DEF Sees
    <3>3. CASE \E p \in PromptIds, asked \in Visibilities \cup {"any"} :
                 Selected(p, caller[w], asked)
                   /\ obj' = [obj EXCEPT ![w] = Summary(p, caller[w])]
      <4>1. PICK p \in PromptIds, asked \in Visibilities \cup {"any"} :
              Selected(p, caller[w], asked) /\ obj' = [obj EXCEPT ![w] = Summary(p, caller[w])]
        BY <3>3
      <4>2. Live(p) /\ ModelVisible(prompts[p], caller[w])
        BY <4>1, FiltersShow DEF Selected
      <4>3. /\ Summary(p, caller[w]) # None /\ Agrees(Summary(p, caller[w]))
            /\ Summary(p, caller[w]).for = caller[w] /\ ~Summary(p, caller[w]).deleted_at
        BY <3>1, <4>2, FoundAgrees
      <4>4. obj'[w] = Summary(p, caller[w])
        BY <4>1
      <4>5. Agrees(obj[w])'
        BY <3>1, <4>3, <4>4 DEF Agrees, Live, Summary, ModelVisible, AuthorOrgIs
      <4>6. QED
        BY <3>1, <4>3, <4>4, <4>5 DEF Sees
    <3>4. QED
      BY <2>3, <3>2, <3>3 DEF ListPrompts, ListFeatured, Found, Goto
  <2>4. CASE RefreshViewed(w) \/ FetchPage(w)
    <3>1. /\ pc[w] \in {"viewing", "fetching"} /\ pc'[w] = "replying"
          /\ UNCHANGED <<prompts, userOrg, caller>>
          /\ obj'[w] \in {Summary(target[w], caller[w]), None}
      BY <2>4 DEF RefreshViewed, FetchPage, Goto
    <3>2. /\ target[w] \in PromptIds /\ Live(target[w])
          /\ ModelVisible(prompts[target[w]], caller[w])
      BY <3>1 DEF Sees, SessionOK, SessionAt
    <3>3. /\ Agrees(Summary(target[w], caller[w]))
          /\ Summary(target[w], caller[w]).for = caller[w]
          /\ ~Summary(target[w], caller[w]).deleted_at
      BY <3>1, <3>2, FoundAgrees
    <3>4. obj'[w] # None => Agrees(obj[w])'
      BY <3>1, <3>3 DEF Agrees, Live, Summary, ModelVisible, AuthorOrgIs
    <3>5. QED
      BY <3>1, <3>3, <3>4 DEF Sees
  <2>5. CASE HitFeatured(w)
    <3> DEFINE k == Viewer(caller[w])
    <3>1. /\ pc[w] = "ready" /\ pc'[w] = "replying" /\ obj'[w] = kept[k] /\ kept[k] # None
          /\ UNCHANGED <<prompts, userOrg, caller>>
      BY <2>5 DEF HitFeatured, Goto
    <3>2. k \in Viewers
      BY <3>1 DEF SessionOK, SessionAt, Viewer, Viewers, CallerRecord
    <3>3. ~\E v \in Workers : Leaves(v, k)
      BY <3>1 DEF Serial, Leaves, Behind
    <3>4. Viewer(kept[k].for) = k /\ ~kept[k].deleted_at /\ (kept[k].outdated \/ Agrees(kept[k]))
      BY <3>1, <3>2, <3>3 DEF KeptFits
    <3> HIDE DEF k
    <3>5. Agrees(kept[k]) => Agrees(obj[w])'
      BY <3>1 DEF Agrees, Live, Summary, ModelVisible, AuthorOrgIs
    <3>6. k = Viewer(caller[w])
      BY DEF k
    <3>7. Viewer(obj'[w].for) = Viewer(caller'[w])
      BY <3>1, <3>4, <3>6
    <3>8. QED
      BY <3>1, <3>4, <3>5, <3>7 DEF Sees
  <2>6. CASE MissFeatured(w)
    BY <2>6 DEF MissFeatured, Goto, Sees
  <2>7. CASE StoreFeatured(w)
    <3>1. /\ pc[w] = "storing" /\ pc'[w] = "replying"
          /\ UNCHANGED <<prompts, userOrg, caller, obj>>
      BY <2>7 DEF StoreFeatured, Goto
    <3>2. Agrees(obj[w]) /\ obj[w].for = caller[w]
      BY <3>1 DEF Sees
    <3>3. ~obj[w].deleted_at
      BY <3>2 DEF Agrees, Live, Summary
    <3>4. Agrees(obj[w])'
      BY <3>1, <3>2 DEF Agrees, Live, Summary, ModelVisible, AuthorOrgIs
    <3>5. QED
      BY <3>1, <3>2, <3>3, <3>4 DEF Sees
  <2>8. CASE Respond(w)
    BY <2>8 DEF Respond, Goto, Sees
  <2>9. CASE \/ CreatePrompt(w) \/ UpdatePrompt(w) \/ DeletePrompt(w) \/ Commit(w)
             \/ RefreshCommitted(w) \/ WriteEvent(w) \/ EmptyAnonymous(w)
    <3>1. pc'[w] \in Writing
      BY <2>9 DEF CreatePrompt, UpdatePrompt, DeletePrompt, Commit, RefreshCommitted, WriteEvent,
         EmptyAnonymous, Goto, Writing
    <3>2. QED
      BY <3>1 DEF Sees, Writing
  <2>10. QED
    BY <1>3, <2>1, <2>2, <2>3, <2>4, <2>5, <2>6, <2>7, <2>8, <2>9 DEF Step, SendPage, FailFeatured,
       AbortUpdate, FailEvent, EmptyOwn, FailEmptying, RefuseRequest
<1>4. QED
  BY <1>1, <1>2, <1>3 DEF Next, Serial

\* Outdating lists changes nothing else about them.
LEMMA OutdateFits ==
  ASSUME TypeOK, NEW K, \A j \in K : kept[j] # None, Outdate(K), NEW k \in Viewers, kept'[k] # None
  PROVE  /\ kept[k] # None /\ kept[k] \in Answer
         /\ kept'[k].for = kept[k].for /\ kept'[k].deleted_at = kept[k].deleted_at
         /\ kept'[k].id = kept[k].id
         /\ kept[k].outdated => kept'[k].outdated
         /\ k \in K => kept'[k].outdated
         /\ k \notin K => kept'[k] = kept[k]
BY DEF Outdate, TypeOK, Answer

\* A list that agreed and that no other user's write has touched agrees still.
LEMMA KeptStep ==
  ASSUME Serial, ReadInv, Next PROVE \A k \in Viewers : KeptFits(k)'
<1> SUFFICES ASSUME NEW k \in Viewers, kept'[k] # None PROVE KeptFits(k)'
  BY DEF KeptFits
<1> USE DEF ReadInv, SerialInv, IInv
<1> DEFINE e == kept[k]
<1>1. e # None => /\ e \in Answer /\ Viewer(e.for) = k /\ ~e.deleted_at
                  /\ e.outdated \/ Agrees(e) \/ \E w \in Workers : Leaves(w, k)
  BY DEF KeptFits, TypeOK
<1>2. ASSUME kept'[k] = e, UNCHANGED <<prompts, userOrg>>, ~\E w \in Workers : Leaves(w, k)
      PROVE  KeptFits(k)'
  <2>1. Agrees(e) => Agrees(kept[k])'
    BY <1>2 DEF Agrees, Live, Summary, ModelVisible, AuthorOrgIs
  <2>2. QED
    BY <1>1, <1>2, <2>1 DEF KeptFits
<1>3. CASE Crash
  <2>1. CASE Redis
    <3> DEFINE K == UNION {Showing(target[w]) : w \in {v \in Workers : Behind(v)}}
    <3>1. /\ Outdate(K) /\ \A j \in K : kept[j] # None
          /\ UNCHANGED <<prompts, userOrg>>
      BY <1>3, <2>1 DEF Crash, Showing
    <3>2. (e # None /\ \E w \in Workers : Leaves(w, k)) => k \in K
      BY DEF Leaves, Showing
    <3> HIDE DEF K
    <3>3. CASE k \in K
      BY <1>1, <3>1, <3>3, OutdateFits DEF KeptFits
    <3>4. CASE k \notin K
      <4>1. kept'[k] = e
        BY <3>1, <3>4, OutdateFits
      <4>2. QED
        BY <1>2, <3>1, <3>2, <3>4, <4>1
    <3>5. QED
      BY <3>3, <3>4
  <2>2. CASE ~Redis
    BY <1>3, <2>2 DEF Crash
  <2>3. QED
    BY <2>1, <2>2
<1>4. ASSUME NEW j \in Viewers, Expire(j) PROVE KeptFits(k)'
  <2>1. kept'[k] = e /\ UNCHANGED <<prompts, userOrg, pc, caller, target>>
    BY <1>4 DEF Expire, TypeOK
  <2>2. CASE \E w \in Workers : Leaves(w, k)
    BY <1>1, <2>1, <2>2 DEF KeptFits, Leaves, Behind
  <2>3. QED
    BY <1>2, <2>1, <2>2
<1>5. ASSUME NEW w \in Workers, Step(w) PROVE KeptFits(k)'
  <2>1. ~Behind(w) => ~\E v \in Workers : Leaves(v, k)
    BY DEF Serial, Leaves
  <2>2. CASE Authenticate(w)
    <3>1. PICK c \in Claims :
            /\ userOrg' = [userOrg EXCEPT ![c.id] = c.org]
            /\ Outdate({j \in Users : /\ kept[j] # None /\ userOrg[c.id] # c.org
                                      /\ c.id \in {j, kept[j].creator}})
      BY <2>2 DEF Authenticate
    <3> DEFINE K == {j \in Users : /\ kept[j] # None /\ userOrg[c.id] # c.org
                                   /\ c.id \in {j, kept[j].creator}}
    <3>2. Outdate(K) /\ (\A j \in K : kept[j] # None) /\ prompts' = prompts /\ ~Behind(w)
      BY <2>2, <3>1 DEF Authenticate, Behind
    <3>3. CASE k \in K
      <4> HIDE DEF K
      <4>1. QED
        BY <1>1, <3>2, <3>3, OutdateFits DEF KeptFits
    <3>4. CASE k \notin K
      <4>1. kept'[k] = e /\ e # None
        <5> HIDE DEF K
        <5>1. QED
          BY <3>2, <3>4, OutdateFits
      <4>2. e \in Answer /\ Viewer(e.for) = k /\ ~e.deleted_at /\ (e.outdated \/ Agrees(e))
        BY <1>1, <2>1, <3>2, <4>1
      <4>3. ASSUME e.for # Anonymous
            PROVE  userOrg'[e.creator] = userOrg[e.creator] /\ userOrg'[e.for.id] = userOrg[e.for.id]
        <5>1. k = e.for.id /\ k \in Users /\ e.creator \in Users
          BY <4>2, <4>3 DEF Viewer, Answer, CallerRecord
        <5>2. userOrg[c.id] = c.org \/ c.id \notin {k, e.creator}
          BY <3>4, <4>1, <5>1
        <5>3. QED
          BY <3>1, <5>1, <5>2 DEF TypeOK
      <4>4. Agrees(e) => Agrees(kept[k])'
        BY <3>2, <4>1, <4>2, <4>3, AgreesStep
      <4>5. QED
        BY <4>1, <4>2, <4>4 DEF KeptFits
    <3>5. QED
      BY <3>3, <3>4
  <2>3. CASE \/ AuthenticateApiKey(w) \/ AcceptAnonymous(w)
             \/ GetPrompt(w) \/ RefreshViewed(w) \/ ListPrompts(w)
             \/ HitFeatured(w) \/ MissFeatured(w) \/ ListFeatured(w) \/ FailFeatured(w)
             \/ SearchPrompts(w) \/ FetchPage(w) \/ SendPage(w)
             \/ UpdatePrompt(w) \/ AbortUpdate(w) \/ DeletePrompt(w) \/ RefuseRequest(w)
    <3>1. UNCHANGED <<prompts, userOrg, kept>> /\ ~Behind(w)
      BY <2>3 DEF AuthenticateApiKey, AcceptAnonymous, GetPrompt, RefreshViewed, ListPrompts,
         HitFeatured, MissFeatured, ListFeatured, FailFeatured, SearchPrompts, FetchPage, SendPage,
         UpdatePrompt, AbortUpdate, DeletePrompt, RefuseRequest, Behind
    <3>2. QED
      BY <1>2, <2>1, <3>1
  <2>4. CASE StoreFeatured(w)
    <3>1. /\ pc[w] = "storing" /\ kept' = [kept EXCEPT ![Viewer(caller[w])] = obj[w]]
          /\ UNCHANGED <<prompts, userOrg>> /\ ~Behind(w)
      BY <2>4 DEF StoreFeatured, Behind
    <3>2. CASE k = Viewer(caller[w])
      <4>1. kept'[k] = obj[w] /\ obj[w].for = caller[w] /\ Agrees(obj[w])
        BY <3>1, <3>2 DEF TypeOK, Sees
      <4>2. Agrees(kept[k])'
        BY <3>1, <4>1 DEF Agrees, Live, Summary, ModelVisible, AuthorOrgIs
      <4>3. ~obj[w].deleted_at
        BY <4>1 DEF Agrees, Live, Summary
      <4>4. Viewer(kept'[k].for) = k
        BY <3>2, <4>1
      <4>5. QED
        BY <4>1, <4>2, <4>3, <4>4 DEF KeptFits
    <3>3. CASE k # Viewer(caller[w])
      <4>1. kept'[k] = e
        BY <3>1, <3>3 DEF TypeOK
      <4>2. QED
        BY <1>2, <2>1, <3>1, <4>1
    <3>4. QED
      BY <3>2, <3>3
  <2>5. CASE CreatePrompt(w)
    <3>1. PICK p \in PromptIds : /\ prompts[p] = Absent
                                 /\ \A q \in PromptIds \ {p} : prompts'[q] = prompts[q]
      <4>1. PICK p \in PromptIds, data \in Creations :
              prompts[p] = Absent /\ prompts' = [prompts EXCEPT ![p] = NewRow(data, caller[w])]
        BY <2>5 DEF CreatePrompt
      <4>2. QED
        BY <4>1 DEF TypeOK
    <3>2. UNCHANGED <<userOrg, kept>> /\ ~Behind(w)
      BY <2>5 DEF CreatePrompt, Behind
    <3>3. e \in Answer /\ Viewer(e.for) = k /\ ~e.deleted_at /\ (e.outdated \/ Agrees(e))
      BY <1>1, <2>1, <3>2
    <3>4. Agrees(e) => Agrees(kept[k])'
      <4>1. Agrees(e) => e.id \in PromptIds \ {p}
        BY <3>1, <3>3 DEF Agrees, Live, Answer
      <4>2. QED
        BY <3>1, <3>2, <3>3, <4>1, AgreesStep
    <3>5. QED
      BY <3>2, <3>3, <3>4 DEF KeptFits
  <2>6. CASE Commit(w)
    <3> DEFINE t == target[w]
               K == Showing(t) \ Emptied(caller[w])
    <3>1. /\ Outdate(K) /\ \A j \in K : kept[j] # None
          /\ pc' = [pc EXCEPT ![w] = "committed"] /\ UNCHANGED <<userOrg, caller, target>>
          /\ ~Behind(w)
      BY <2>6 DEF Commit, Goto, Showing, Behind
    <3>2. t \in PromptIds /\ \A q \in PromptIds \ {t} : prompts'[q] = prompts[q]
      BY <2>6, CommitFacts DEF TypeOK
    <3>3. e # None /\ e \in Answer
      <4> HIDE DEF K
      <4>1. QED
        BY <3>1, OutdateFits
    <3>4. Viewer(e.for) = k /\ ~e.deleted_at /\ (e.outdated \/ Agrees(e))
      BY <1>1, <2>1, <3>1, <3>3
    <3>5. CASE k \in K
      <4> HIDE DEF K
      <4>1. QED
        BY <3>1, <3>4, <3>5, OutdateFits DEF KeptFits
    <3>6. CASE k \notin K
      <4>1. kept'[k] = e
        <5> HIDE DEF K
        <5>1. QED
          BY <3>1, <3>6, OutdateFits
      <4>2. CASE e.id = t
        <5>1. k \in Emptied(caller[w])
          BY <3>3, <3>6, <4>2 DEF Showing
        <5>2. pc'[w] = "committed"
          BY <3>1 DEF TypeOK
        <5>3. Leaves(w, k)'
          BY <3>1, <4>1, <4>2, <5>1, <5>2 DEF Leaves, Behind, Emptied
        <5>4. QED
          BY <3>4, <4>1, <5>3 DEF KeptFits
      <4>3. CASE e.id # t
        <5>1. prompts'[e.id] = prompts[e.id]
          BY <3>2, <3>3, <4>3 DEF Answer
        <5>2. Agrees(e) => Agrees(kept[k])'
          BY <3>1, <4>1, <5>1, AgreesStep
        <5>3. QED
          BY <3>4, <4>1, <5>2 DEF KeptFits
      <4>4. QED
        BY <4>2, <4>3
    <3>7. QED
      BY <3>5, <3>6
  <2>7. CASE RefreshCommitted(w) \/ WriteEvent(w)
    <3>1. /\ Behind(w) /\ pc'[w] \in {"auditing", "emptying"}
          /\ UNCHANGED <<prompts, userOrg, kept, caller, target>>
      BY <2>7 DEF RefreshCommitted, WriteEvent, Goto, Behind, TypeOK
    <3>2. CASE \E v \in Workers : Leaves(v, k)
      <4>1. Leaves(w, k)
        BY <3>2 DEF Serial
      <4>2. Leaves(w, k)'
        BY <3>1, <4>1 DEF Leaves, Behind, Emptied
      <4>3. QED
        BY <1>1, <3>1, <4>2 DEF KeptFits
    <3>3. QED
      BY <1>2, <3>1, <3>2
  <2>8. CASE FailEvent(w) \/ FailEmptying(w)
    <3> DEFINE K == Showing(target[w])
    <3>1. Outdate(K) /\ (\A j \in K : kept[j] # None) /\ UNCHANGED <<prompts, userOrg>>
      BY <2>8 DEF FailEvent, FailEmptying, Showing
    <3>2. (e # None /\ \E v \in Workers : Leaves(v, k)) => k \in K
      BY DEF Serial, Leaves, Showing
    <3> HIDE DEF K
    <3>3. CASE k \in K
      BY <1>1, <3>1, <3>3, OutdateFits DEF KeptFits
    <3>4. CASE k \notin K
      <4>1. kept'[k] = e /\ e # None
        BY <3>1, <3>4, OutdateFits
      <4>2. QED
        BY <1>2, <3>1, <3>2, <3>4, <4>1
    <3>5. QED
      BY <3>3, <3>4
  <2>9. CASE EmptyAnonymous(w)
    <3>1. /\ pc[w] = "emptying" /\ pc'[w] = "emptyingOwn"
          /\ kept' = [kept EXCEPT ![Anonymous] = None]
          /\ UNCHANGED <<prompts, userOrg, caller, target>>
      BY <2>9 DEF EmptyAnonymous, Goto, TypeOK
    <3>2. k # Anonymous /\ kept'[k] = e
      BY <3>1 DEF TypeOK
    <3>3. CASE \E v \in Workers : Leaves(v, k)
      <4>1. Leaves(w, k)
        BY <3>3 DEF Serial
      <4>2. k = Viewer(caller[w])
        BY <3>2, <4>1 DEF Leaves, Emptied
      <4>3. Leaves(w, k)'
        BY <3>1, <3>2, <4>1, <4>2 DEF Leaves, Behind, Emptied
      <4>4. QED
        BY <1>1, <3>2, <4>3 DEF KeptFits
    <3>4. QED
      BY <1>2, <3>1, <3>2, <3>3
  <2>10. CASE EmptyOwn(w)
    <3>1. /\ pc[w] = "emptyingOwn" /\ kept' = [kept EXCEPT ![Viewer(caller[w])] = None]
          /\ UNCHANGED <<prompts, userOrg>>
      BY <2>10 DEF EmptyOwn
    <3>2. k # Viewer(caller[w]) /\ kept'[k] = e
      BY <3>1 DEF TypeOK
    <3>3. ~\E v \in Workers : Leaves(v, k)
      BY <3>1, <3>2 DEF Serial, Leaves
    <3>4. QED
      BY <1>2, <3>1, <3>2, <3>3
  <2>11. QED
    BY <1>5, <2>2, <2>3, <2>4, <2>5, <2>6, <2>7, <2>8, <2>9, <2>10 DEF Step
<1>6. QED
  BY <1>3, <1>4, <1>5 DEF Next

LEMMA ReadInvariant == ASSUME Serial PROVE Spec => []ReadInv
<1>1. Init => ReadInv
  BY SerialInvInit DEF Init, ReadInv, OrgKnown, Sees, KeptFits
<1>2. ReadInv /\ [Next]_vars => ReadInv'
  <2>1. ASSUME ReadInv, UNCHANGED vars
        PROVE  /\ \A w \in Workers : OrgKnown(w)' /\ Sees(w)'
               /\ \A k \in Viewers : KeptFits(k)'
    <3>1. \A w \in Workers : OrgKnown(w)' /\ Sees(w)'
      BY <2>1 DEF ReadInv, vars, OrgKnown, Sees, Agrees, Live, Summary, ModelVisible, AuthorOrgIs
    <3>2. \A k \in Viewers : KeptFits(k)'
      BY <2>1 DEF ReadInv, vars, KeptFits, Leaves, Behind, Agrees, Live, Summary, ModelVisible,
         AuthorOrgIs
    <3>3. QED
      BY <3>1, <3>2
  <2>2. ASSUME ReadInv, [Next]_vars PROVE SerialInv'
    BY <2>2, SerialInvNext DEF ReadInv
  <2>3. QED
    BY <2>1, <2>2, OrgStep, SeesStep, KeptStep DEF ReadInv
<1>3. QED
  BY <1>1, <1>2, PTL DEF Spec

\* Without overlapping requests no read sends what the visibility table of
\* CONTEXT.md hides from its caller, or what is deleted, but for an outdated
\* featured list; and such a list was made for a credential of the same user.
THEOREM SerialServed == ASSUME Serial PROVE Spec => []ServedVisible
<1>1. ReadInv => ServedVisible
  BY DEF ReadInv, Sees, Agrees, ServedVisible
<1>2. QED
  BY <1>1, ReadInvariant, PTL

LEMMA CallerTyped ==
  ASSUME ReadInv, NEW w \in Workers, pc[w] # "idle", caller[w] # Anonymous
  PROVE  caller[w] \in CallerRecord /\ userOrg[caller[w].id] = caller[w].org
  BY DEF ReadInv, SerialInv, IInv, TypeOK, SessionOK, SessionAt, OrgKnown

\* Without overlapping requests the lookup finds all that the table shows.
THEOREM SerialComplete == ASSUME Serial PROVE Spec => []ModelComplete
<1>1. ReadInv => ModelComplete
  BY CallerTyped, FiltersMiss DEF ModelComplete
<1>2. QED
  BY <1>1, ReadInvariant, PTL

\* With the scopes of the verb, every status can be left.
LEMMA NoDeadEnd ==
  ASSUME NEW s \in Statuses, NEW c, HasScope(c, "prompt:publish")
  PROVE  \E t \in Statuses : TransitionAllowed(s, t, c)
<1>1. CASE s = "draft"
  <2>1. TransitionAllowed(s, "published_org", c)
    BY <1>1 DEF TransitionAllowed, ValidTransitions
  <2>2. QED
    BY <2>1 DEF Statuses
<1>2. CASE s \in {"published_org", "published_public"}
  <2>1. TransitionAllowed(s, "archived", c)
    BY <1>2 DEF TransitionAllowed, ValidTransitions
  <2>2. QED
    BY <2>1 DEF Statuses
<1>3. CASE s = "archived"
  <2>1. TransitionAllowed(s, "draft", c)
    BY <1>3 DEF TransitionAllowed, ValidTransitions
  <2>2. QED
    BY <2>1 DEF Statuses
<1>4. QED
  BY <1>1, <1>2, <1>3 DEF Statuses

\* Without overlapping requests the flags that are sent, out of the cache or not,
\* hold for the credential they were made for, unless their list is outdated.
THEOREM SerialFlags == ASSUME Serial PROVE Spec => []FlagsActionable
<1>1. ASSUME ReadInv, NEW w \in Workers, pc[w] = "replying", obj[w] # None,
             obj[w].for # Anonymous, ~obj[w].outdated, obj[w].visibility # "restricted"
      PROVE  /\ Found(obj[w].id, obj[w].for)
             /\ PromptCapabilities(obj[w], obj[w].for).can_delete
                  <=> DeleteAllowed(prompts[obj[w].id], obj[w].for)
             /\ HasScope(obj[w].for, "prompt:publish") =>
                  \E s \in Statuses : TransitionAllowed(prompts[obj[w].id].status, s, obj[w].for)
  <2> DEFINE e == obj[w]
  <2>1. e \in Answer /\ Agrees(e)
    BY <1>1 DEF ReadInv, SerialInv, IInv, TypeOK, Sees
  <2>2. e.id \in PromptIds /\ e.for \in CallerRecord
    BY <1>1, <2>1 DEF Answer
  <2> HIDE DEF e
  <2>3. prompts[e.id] \in Row
    BY <1>1, <2>1, <2>2 DEF ReadInv, SerialInv, IInv, TypeOK, Agrees, Live
  <2>4. /\ e.creator = prompts[e.id].creator /\ e.status = prompts[e.id].status
        /\ e.visibility = prompts[e.id].visibility
    BY <2>1 DEF Agrees, Summary
  <2>5. /\ Live(e.id) /\ userOrg[e.for.id] = e.for.org /\ e.for # Anonymous
        /\ ModelVisible(prompts[e.id], e.for)
    BY <2>1, <2>2, <2>4 DEF Agrees, ModelVisible, AuthorOrgIs
  <2>6. Found(e.id, e.for)
    BY <1>1, <2>2, <2>4, <2>5, FiltersMiss DEF e
  <2>7. PromptCapabilities(e, e.for).can_delete <=> DeleteAllowed(prompts[e.id], e.for)
    BY <2>4, <2>5 DEF PromptCapabilities, DeleteAllowed, Owns
  <2>8. prompts[e.id].status \in Statuses
    BY <2>3 DEF Row
  <2>9. QED
    BY <2>6, <2>7, <2>8, NoDeadEnd DEF e
<1>2. ReadInv => FlagsActionable
  BY <1>1 DEF FlagsActionable
<1>3. QED
  BY <1>2, ReadInvariant, PTL
----------------------------------------------------------------------------
(* The audit trail.  A change is told by the newest event of its prompt, by  *)
(* a request that has yet to write one, or it is known to be lost.           *)

Told(p) ==
  /\ audit[p] # None
  /\ (audit[p].action = "deleted") <=> prompts[p].deleted_at
  /\ audit[p].status \in {None, prompts[p].status}

Telling(w, p) == pc[w] \in {"committed", "auditing"} /\ target[w] = p

\* The event a request carries fits the row it has changed or is to change.
EventFits(w) ==
  /\ pc[w] = "updating" => event[w].action # "deleted"
  /\ pc[w] = "deleting" => event[w].action = "deleted"
  /\ pc[w] \in {"committed", "auditing"} =>
       ((event[w].action = "deleted") <=> prompts[target[w]].deleted_at)
  /\ pc[w] = "auditing" => event[w].status \in {None, prompts[target[w]].status}

Accounted(p) == Told(p) \/ p \in unaudited \/ \E w \in Workers : Telling(w, p)

AuditInv ==
  /\ SerialInv
  /\ \A w \in Workers : EventFits(w)
  /\ \A p \in PromptIds : prompts[p] # Absent => Accounted(p)

\* After its commit a row is deleted if and only if DELETE committed it.
LEMMA CommitDeletes ==
  ASSUME SerialInv, NEW w \in Workers, Commit(w)
  PROVE  /\ target[w] \in PromptIds
         /\ prompts'[target[w]].deleted_at <=> pc[w] = "deleting"
<1> DEFINE t == target[w]
           new == Flush(prompts[t], dirty[w])
<1>1. /\ t \in PromptIds /\ prompts[t] \in Row /\ new \in Row
      /\ prompts' = [prompts EXCEPT ![t] = new]
      /\ pc[w] = "deleting" => dirty[w] = DeletionChange
  BY CommitFacts DEF SerialInv
<1>2. prompts'[t] = new
  BY <1>1 DEF SerialInv, IInv, TypeOK
<1>3. CASE pc[w] = "deleting"
  <2>1. new.deleted_at
    BY <1>1, <1>3, FlushType, DeletionChangeType
  <2> HIDE DEF new
  <2>2. QED
    BY <1>1, <1>2, <1>3, <2>1
<1>4. CASE pc[w] = "updating"
  <2>1. PICK data \in Patches : dirty[w] = PatchChange(prompts[t], data)
    BY <1>4 DEF SerialInv, Fresh
  <2>2. ~prompts[t].deleted_at
    BY <1>4 DEF SerialInv, Fresh, Live
  <2>3. new.deleted_at = prompts[t].deleted_at
    BY <2>1 DEF Flush, PatchChange, Patched
  <2> HIDE DEF new
  <2>4. QED
    BY <1>1, <1>2, <1>4, <2>2, <2>3
<1>5. QED
  BY <1>3, <1>4 DEF Commit

LEMMA FitsStep ==
  ASSUME Serial, AuditInv, Next PROVE \A w \in Workers : EventFits(w)'
<1> USE DEF AuditInv
<1>1. CASE Crash \/ \E k \in Viewers : Expire(k)
  BY <1>1 DEF Crash, Expire, EventFits
<1>2. ASSUME NEW w \in Workers, Step(w) PROVE EventFits(w)'
  <2> USE DEF SerialInv, IInv, TypeOK
  <2>1. CASE CreatePrompt(w)
    <3>1. PICK p \in PromptIds, data \in Creations :
            /\ prompts' = [prompts EXCEPT ![p] = NewRow(data, caller[w])]
            /\ target'  = [target EXCEPT ![w] = p]
      BY <2>1 DEF CreatePrompt
    <3>2. /\ pc'[w] = "committed" /\ target'[w] = p
          /\ prompts'[p] = NewRow(data, caller[w])
          /\ event'[w] = [action |-> "created", status |-> None]
      BY <2>1, <3>1 DEF CreatePrompt, Goto
    <3>3. QED
      BY <3>2 DEF EventFits, NewRow
  <2>2. CASE UpdatePrompt(w)
    <3>1. PICK data \in Patches :
            event' = [event EXCEPT ![w] =
                        [action |-> IF data.status # None THEN "status_changed" ELSE "updated",
                         status |-> None]]
      BY <2>2 DEF UpdatePrompt
    <3>2. pc'[w] = "updating" /\ event'[w].action # "deleted"
      BY <2>2, <3>1 DEF UpdatePrompt, Goto
    <3>3. QED
      BY <3>2 DEF EventFits
  <2>3. CASE DeletePrompt(w)
    <3>1. pc'[w] = "deleting" /\ event'[w].action = "deleted"
      BY <2>3 DEF DeletePrompt, Goto
    <3>2. QED
      BY <3>1 DEF EventFits
  <2>4. CASE Commit(w)
    <3>1. prompts'[target[w]].deleted_at <=> pc[w] = "deleting"
      BY <2>4, CommitDeletes
    <3>2. pc[w] \in {"updating", "deleting"} /\ pc'[w] = "committed" /\ UNCHANGED <<target, event>>
      BY <2>4 DEF Commit, Goto
    <3>3. (event[w].action = "deleted") <=> pc[w] = "deleting"
      BY <3>2 DEF EventFits
    <3>4. QED
      BY <3>1, <3>2, <3>3 DEF EventFits
  <2>5. CASE RefreshCommitted(w)
    <3>1. event[w] \in Event /\ pc[w] = "committed"
      BY <2>5 DEF RefreshCommitted, SessionOK, SessionAt, Writing
    <3>2. /\ event'[w].action = event[w].action
          /\ event'[w].status \in {None, prompts[target[w]].status}
      BY <2>5, <3>1 DEF RefreshCommitted, Event
    <3>3. pc'[w] = "auditing" /\ UNCHANGED <<prompts, target>>
      BY <2>5 DEF RefreshCommitted, Goto
    <3>4. QED
      BY <3>1, <3>2, <3>3 DEF EventFits
  <2>6. CASE /\ ~CreatePrompt(w) /\ ~UpdatePrompt(w) /\ ~DeletePrompt(w) /\ ~Commit(w)
             /\ ~RefreshCommitted(w)
    <3>1. pc'[w] \notin {"updating", "deleting", "committed", "auditing"}
      BY <1>2, <2>6 DEF Step, Authenticate, AuthenticateApiKey, AcceptAnonymous, GetPrompt,
         RefreshViewed, ListPrompts, HitFeatured, MissFeatured, ListFeatured, StoreFeatured,
         FailFeatured, SearchPrompts, FetchPage, SendPage, AbortUpdate, WriteEvent, FailEvent,
         EmptyAnonymous, EmptyOwn, FailEmptying, RefuseRequest, Respond, Goto
    <3>2. QED
      BY <3>1 DEF EventFits
  <2>7. QED
    BY <2>1, <2>2, <2>3, <2>4, <2>5, <2>6
<1>3. QED
  BY <1>1, <1>2 DEF Next, Serial

LEMMA AccountedStep ==
  ASSUME Serial, AuditInv, Next, NEW p \in PromptIds, prompts'[p] # Absent
  PROVE  Accounted(p)'
<1> USE DEF AuditInv, SerialInv, IInv, TypeOK
<1>1. CASE Crash
  <2>1. UNCHANGED <<prompts, audit>>
    BY <1>1 DEF Crash
  <2>2. CASE Told(p)
    BY <2>1, <2>2 DEF Told, Accounted
  <2>3. CASE p \in unaudited \/ \E w \in Workers : Telling(w, p)
    BY <1>1, <2>3 DEF Crash, Telling, Accounted
  <2>4. QED
    BY <2>1, <2>2, <2>3 DEF Accounted
<1>2. ASSUME NEW w \in Workers, Step(w) PROVE Accounted(p)'
  <2>1. CASE CreatePrompt(w) \/ Commit(w)
    <3>1. PICK t \in PromptIds :
            target'[w] = t /\ \A q \in PromptIds \ {t} : prompts'[q] = prompts[q]
      <4>1. CASE CreatePrompt(w)
        <5>1. PICK t \in PromptIds, data \in Creations :
                /\ prompts' = [prompts EXCEPT ![t] = NewRow(data, caller[w])]
                /\ target'  = [target EXCEPT ![w] = t]
          BY <4>1 DEF CreatePrompt
        <5>2. QED
          BY <5>1
      <4>2. CASE Commit(w)
        BY <4>2, CommitDeletes DEF Commit
      <4>3. QED
        BY <2>1, <4>1, <4>2
    <3>2. /\ pc'[w] = "committed" /\ pc[w] \notin {"committed", "auditing"}
          /\ UNCHANGED <<audit, unaudited>>
      BY <2>1 DEF CreatePrompt, Commit, Goto
    <3>3. CASE p = t
      BY <3>1, <3>2, <3>3 DEF Accounted, Telling
    <3>4. CASE p # t
      <4>1. ~\E v \in Workers : Telling(v, p)
        BY <3>2 DEF Serial, Telling
      <4>2. prompts'[p] = prompts[p]
        BY <3>1, <3>4
      <4>3. QED
        BY <3>2, <4>1, <4>2 DEF Accounted, Told
    <3>5. QED
      BY <3>3, <3>4
  <2>2. CASE WriteEvent(w)
    <3>1. /\ pc[w] = "auditing" /\ prompts' = prompts /\ event[w] \in Event
          /\ target[w] \in PromptIds
          /\ audit' = [audit EXCEPT ![target[w]] = event[w]]
          /\ unaudited' = unaudited \ {target[w]}
      BY <2>2 DEF WriteEvent, SessionOK, SessionAt, Writing
    <3>2. CASE p = target[w]
      BY <3>1, <3>2, PromptsAssumption DEF EventFits, Told, Accounted
    <3>3. CASE p # target[w]
      <4>1. ~\E v \in Workers : Telling(v, p)
        BY <3>3 DEF Serial, Telling
      <4>2. audit'[p] = audit[p]
        BY <3>1, <3>3
      <4>3. QED
        BY <3>1, <3>3, <4>1, <4>2 DEF Accounted, Told
    <3>4. QED
      BY <3>2, <3>3
  <2>3. CASE FailEvent(w)
    <3>1. /\ prompts' = prompts /\ audit' = audit
          /\ unaudited' = unaudited \cup {target[w]}
      BY <2>3 DEF FailEvent
    <3>2. CASE Told(p)
      BY <3>1, <3>2 DEF Told, Accounted
    <3>3. CASE p \in unaudited \/ \E v \in Workers : Telling(v, p)
      BY <3>1, <3>3 DEF Serial, Telling, Accounted
    <3>4. QED
      BY <3>1, <3>2, <3>3 DEF Accounted
  <2>4. CASE ~CreatePrompt(w) /\ ~Commit(w) /\ ~WriteEvent(w) /\ ~FailEvent(w)
    <3>1. /\ UNCHANGED <<prompts, audit, unaudited>>
          /\ pc[w] \in {"committed", "auditing"} =>
               pc'[w] \in {"committed", "auditing"} /\ target'[w] = target[w]
      BY <1>2, <2>4 DEF Step, Authenticate, AuthenticateApiKey, AcceptAnonymous, GetPrompt,
         RefreshViewed, ListPrompts, HitFeatured, MissFeatured, ListFeatured, StoreFeatured,
         FailFeatured, SearchPrompts, FetchPage, SendPage, UpdatePrompt, DeletePrompt, AbortUpdate,
         RefreshCommitted, EmptyAnonymous, EmptyOwn, FailEmptying, RefuseRequest, Respond, Goto
    <3>2. CASE Told(p) \/ p \in unaudited
      BY <3>1, <3>2 DEF Told, Accounted
    <3>3. CASE \E v \in Workers : Telling(v, p)
      BY <3>1, <3>3 DEF Serial, Telling, Accounted
    <3>4. QED
      BY <3>1, <3>2, <3>3 DEF Accounted
  <2>5. QED
    BY <2>1, <2>2, <2>3, <2>4
<1>3. ASSUME NEW k \in Viewers, Expire(k) PROVE Accounted(p)'
  BY <1>3 DEF Expire, Accounted, Told, Telling
<1>4. QED
  BY <1>1, <1>2, <1>3 DEF Next

\* Without overlapping requests the newest event of a prompt tells its state,
\* but for a change whose request died between its two commits.
THEOREM SerialAudit == ASSUME Serial PROVE Spec => []AuditTailCurrent
<1>1. Init => AuditInv
  BY SerialInvInit DEF Init, AuditInv, EventFits
<1>2. AuditInv /\ [Next]_vars => AuditInv'
  <2>1. ASSUME AuditInv, Next PROVE \A w \in Workers : EventFits(w)'
    BY <2>1, FitsStep
  <2>2. ASSUME AuditInv, Next PROVE \A p \in PromptIds : prompts'[p] # Absent => Accounted(p)'
    BY <2>2, AccountedStep
  <2>3. ASSUME AuditInv, UNCHANGED vars
        PROVE  /\ \A w \in Workers : EventFits(w)'
               /\ \A p \in PromptIds : prompts'[p] # Absent => Accounted(p)'
    BY <2>3 DEF AuditInv, vars, EventFits, Accounted, Told, Telling
  <2>4. ASSUME AuditInv, [Next]_vars PROVE SerialInv'
    BY <2>4, SerialInvNext DEF AuditInv
  <2>5. QED
    BY <2>1, <2>2, <2>3, <2>4 DEF AuditInv
<1>3. AuditInv => AuditTailCurrent
  BY DEF AuditInv, Accounted, Told, Telling, AuditTailCurrent
<1>4. QED
  BY <1>1, <1>2, <1>3, PTL DEF Spec
============================================================================
