------------------------------ MODULE Prompts ------------------------------
(***************************************************************************)
(* The prompts of the gallery: routers/prompts.py over prompt_service.py   *)
(* over one prompts table.  Endpoints are sync functions, so each request  *)
(* runs on a thread of the pool with a database session of its own.  A     *)
(* request is a chain of transactions and of work between them, and the    *)
(* steps of two requests interleave.  Statements that read a row and the   *)
(* commit that writes it are separate steps; a flush writes, by primary    *)
(* key, only the columns that changed since the load.                      *)
(***************************************************************************)
EXTENDS PromptAccess, Naturals, FiniteSets

CONSTANTS
  Workers,    \* threads of the pool; one worker is the serial execution
  PromptIds,  \* primary keys the table can hand out
  Titles,     \* contents of the title column
  Bodies,     \* contents of description and prompt_text together
  Claims,     \* callers whose JWT a client can present
  KeyOwners,  \* [id, scopes] of the API keys a client can present
  Creations,  \* bodies of POST /prompts
  Patches,    \* bodies of PATCH /prompts/{id}
  Redis,      \* whether REDIS_URL is set: the cache outlives the process, and fails
  MaxKept,    \* bound on the featured lists that are kept at a time
  Crashes,    \* whether the process may be killed and restarted
  Absent,     \* the row that was never inserted
  None        \* NULL, or an absent field of a body

\* What the embedder is given: a vector stands for the text it was made from.
EmbeddingSource(title, body) == <<title, body>>

Vectors == Titles \X Bodies

\* A column set to the current time is a stamp: TRUE once it was written.
Row == [creator : Users, status : Statuses, visibility : Visibilities,
        featured : BOOLEAN, title : Titles, body : Bodies, vector : Vectors,
        published_at : BOOLEAN, deleted_at : BOOLEAN]

\* PromptCreate, and PromptUpdate where None is a field that is not sent.
PromptCreate == [status : Statuses, visibility : Visibilities,
                 featured : BOOLEAN, title : Titles, body : Bodies]
PromptUpdate == [status : Statuses \cup {None}, visibility : Visibilities \cup {None},
                 featured : BOOLEAN \cup {None}, title : Titles \cup {None},
                 body : Bodies \cup {None}]

\* The UPDATE a session would send: None is a column that is not dirty.
Change == [status : Statuses \cup {None}, visibility : Visibilities \cup {None},
           featured : BOOLEAN \cup {None}, title : Titles \cup {None},
           body : Bodies \cup {None}, vector : Vectors \cup {None},
           published_at : {TRUE, None}, deleted_at : {TRUE, None}]

\* A row of prompt_events: the action and the status in its details.
Event == [action : {"created", "updated", "status_changed", "deleted"},
          status : Statuses \cup {None}]

\* The featured list is cached per viewer: a user, whatever the credential, or
\* everybody without one.
Viewers == Users \cup {Anonymous}

Viewer(c) == IF c = Anonymous THEN Anonymous ELSE c.id

\* What an answer tells of a prompt, as it was read, and the caller whose flags it
\* carries.  outdated is a history variable: see Outdate.
Answer == [id : PromptIds, creator : Users, status : Statuses, visibility : Visibilities,
           deleted_at : BOOLEAN, for : CallerRecord \cup {Anonymous}, outdated : BOOLEAN]

ASSUME PromptsAssumption ==
  /\ Creations \subseteq PromptCreate
  /\ Patches \subseteq PromptUpdate
  /\ Claims \subseteq CallerRecord
  /\ KeyOwners \subseteq [id : Users, scopes : SUBSET Scopes]
  /\ Crashes \in BOOLEAN /\ Redis \in BOOLEAN
  /\ MaxKept \in Nat
  /\ NoOrg \notin Orgs
  /\ Anonymous \notin CallerRecord /\ Anonymous \notin Users
  /\ Absent \notin Row
  /\ None \notin Row /\ None \notin Event /\ None \notin Change /\ None \notin Answer
  /\ None \notin CallerRecord /\ None # Anonymous /\ None \notin PromptIds
  /\ None \notin Statuses /\ None \notin Visibilities /\ None \notin BOOLEAN
  /\ None \notin Titles /\ None \notin Bodies /\ None \notin Vectors

VARIABLES
  prompts,  \* the prompts table
  userOrg,  \* the org_id column of the users table
  kept,     \* the featured list in the cache of each viewer
  audit,    \* the newest row of prompt_events of each prompt
  pc,       \* where the request of a worker stands
  caller,   \* its AuthenticatedUser, or Anonymous
  target,   \* the prompt it works on
  dirty,    \* the UPDATE its session will send
  event,    \* the audit event it has yet to write
  obj,      \* the answer it is about to send
  unaudited \* history: prompts whose last change has no event, as its request died

vars == <<prompts, userOrg, kept, audit, unaudited, pc, caller, target, dirty, event, obj>>

PCs == {"idle", "ready", "viewing", "fetching", "missed", "storing", "replying",
        "updating", "deleting", "committed", "auditing", "emptying", "emptyingOwn"}
----------------------------------------------------------------------------
Init ==
  /\ prompts = [p \in PromptIds |-> Absent]
  /\ userOrg = [u \in Users |-> NoOrg]
  /\ kept    = [k \in Viewers |-> None]
  /\ audit   = [p \in PromptIds |-> None]
  /\ unaudited = {}
  /\ pc      = [w \in Workers |-> "idle"]
  /\ caller  = [w \in Workers |-> None]
  /\ target  = [w \in Workers |-> None]
  /\ dirty   = [w \in Workers |-> None]
  /\ event   = [w \in Workers |-> None]
  /\ obj     = [w \in Workers |-> None]

Goto(w, label) == pc' = [pc EXCEPT ![w] = label]

\* The response is sent and the session is closed; what it did not commit is lost.
Respond(w) ==
  /\ Goto(w, "idle")
  /\ caller' = [caller EXCEPT ![w] = None]
  /\ target' = [target EXCEPT ![w] = None]
  /\ dirty'  = [dirty EXCEPT ![w] = None]
  /\ event'  = [event EXCEPT ![w] = None]
  /\ obj'    = [obj EXCEPT ![w] = None]

\* The lists that show a prompt.
Showing(p) == {k \in Viewers : kept[k] # None /\ kept[k].id = p}

\* History: for one worker.  A list is outdated when it was read before another
\* user wrote the prompt, before the author or the viewer moved to another
\* organisation, or before a request that failed to empty it.
Outdate(K) ==
  kept' = [k \in Viewers |-> IF k \in K THEN [kept[k] EXCEPT !.outdated = TRUE] ELSE kept[k]]
----------------------------------------------------------------------------
(* Authentication runs on the event loop without an await: one step. *)

\* A JWT: the users row is upserted from its claims before the handler runs.
Authenticate(w) ==
  /\ pc[w] = "idle"
  /\ \E c \in Claims :
       /\ caller'  = [caller EXCEPT ![w] = c]
       /\ userOrg' = [userOrg EXCEPT ![c.id] = c.org]
       /\ Outdate({k \in Users : /\ kept[k] # None /\ userOrg[c.id] # c.org
                                 /\ c.id \in {k, kept[k].creator}})
  /\ Goto(w, "ready")
  /\ UNCHANGED <<prompts, audit, unaudited, target, dirty, event, obj>>

\* An API key: the scopes are the snapshot taken at issuance, the
\* organisation is the one the owner's users row has now.
AuthenticateApiKey(w) ==
  /\ pc[w] = "idle"
  /\ \E k \in KeyOwners :
       caller' = [caller EXCEPT ![w] =
                    [id |-> k.id, org |-> userOrg[k.id], scopes |-> k.scopes]]
  /\ Goto(w, "ready")
  /\ UNCHANGED <<prompts, userOrg, kept, audit, unaudited, target, dirty, event, obj>>

\* No credential: only the endpoints with an optional user go on.
AcceptAnonymous(w) ==
  /\ pc[w] = "idle"
  /\ caller' = [caller EXCEPT ![w] = Anonymous]
  /\ Goto(w, "ready")
  /\ UNCHANGED <<prompts, userOrg, kept, audit, unaudited, target, dirty, event, obj>>
----------------------------------------------------------------------------
(* Reads. *)

Inserted(p) == prompts[p] # Absent  \* mutant: deleted rows are selected too

Live(p) == prompts[p] # Absent /\ ~prompts[p].deleted_at

Selected(p, c, asked) ==
  Live(p) /\ ApplyVisibilityFilters(prompts[p], c, userOrg, asked)

Found(p, c) == Selected(p, c, "any")

\* The prompt as it is, serialised for a caller.
Summary(p, c) ==
  [id |-> p, creator |-> prompts[p].creator, status |-> prompts[p].status,
   visibility |-> prompts[p].visibility, deleted_at |-> prompts[p].deleted_at,
   for |-> c, outdated |-> FALSE]

\* GET /prompts/{id}: the filtered SELECT, then the view count is committed ...
GetPrompt(w) ==
  /\ pc[w] = "ready"
  /\ \E p \in PromptIds :
       /\ Found(p, caller[w])
       /\ target' = [target EXCEPT ![w] = p]
  /\ Goto(w, "viewing")
  /\ UNCHANGED <<prompts, userOrg, kept, audit, unaudited, caller, dirty, event, obj>>

\* ... and the row is read again, by its key alone.
RefreshViewed(w) ==
  /\ pc[w] = "viewing"
  /\ obj' = [obj EXCEPT ![w] = Summary(target[w], caller[w])]
  /\ Goto(w, "replying")
  /\ UNCHANGED <<prompts, userOrg, kept, audit, unaudited, caller, target, dirty, event>>

\* A page of the list without a search term, read with the filters.  The rows
\* of a page do not depend on each other: it holds at most one.
ListPrompts(w) ==
  /\ pc[w] = "ready"
  /\ \/ obj' = obj
     \/ \E p \in PromptIds, asked \in Visibilities \cup {"any"} :
          /\ Selected(p, caller[w], asked)
          /\ obj' = [obj EXCEPT ![w] = Summary(p, caller[w])]
  /\ Goto(w, "replying")
  /\ UNCHANGED <<prompts, userOrg, kept, audit, unaudited, caller, target, dirty, event>>

(* GET /prompts/featured *)

\* A list that is in the cache is sent as it is: no filter, nothing read again,
\* and the flags of whoever it was made for.
HitFeatured(w) ==
  /\ pc[w] = "ready"
  /\ kept[Viewer(caller[w])] # None
  /\ obj' = [obj EXCEPT ![w] = kept[Viewer(caller[w])]]
  /\ Goto(w, "replying")
  /\ UNCHANGED <<prompts, userOrg, kept, audit, unaudited, caller, target, dirty, event>>

MissFeatured(w) ==
  /\ pc[w] = "ready"
  /\ kept[Viewer(caller[w])] = None
  /\ Goto(w, "missed")
  /\ UNCHANGED <<prompts, userOrg, kept, audit, unaudited, caller, target, dirty, event, obj>>

\* The SELECT.  A list without the prompt is stored too; sending it from the cache
\* tells no more than sending it now, so it leaves no entry here.
ListFeatured(w) ==
  /\ pc[w] = "missed"
  /\ \/ /\ obj' = obj
        /\ Goto(w, "replying")
     \/ \E p \in PromptIds :
          /\ Found(p, caller[w])
          /\ prompts[p].featured
          /\ prompts[p].status # "draft"
          /\ obj' = [obj EXCEPT ![w] = Summary(p, caller[w])]
          /\ Goto(w, "storing")
  /\ UNCHANGED <<prompts, userOrg, kept, audit, unaudited, caller, target, dirty, event>>

StoreFeatured(w) ==
  /\ pc[w] = "storing"
  /\ Cardinality({k \in Viewers \ {Viewer(caller[w])} : kept[k] # None}) < MaxKept
  /\ kept' = [kept EXCEPT ![Viewer(caller[w])] = obj[w]]
  /\ Goto(w, "replying")
  /\ UNCHANGED <<prompts, userOrg, audit, unaudited, caller, target, dirty, event, obj>>

\* Redis raises in cache_get or cache_set: 500.
FailFeatured(w) ==
  /\ Redis
  /\ pc[w] \in {"ready", "storing"}
  /\ Respond(w)
  /\ UNCHANGED <<prompts, userOrg, kept, audit, unaudited>>

\* The TTL of a list ran out, or it was evicted for lack of room.
Expire(k) ==
  /\ kept[k] # None
  /\ kept' = [kept EXCEPT ![k] = None]
  /\ UNCHANGED <<prompts, userOrg, audit, unaudited, pc, caller, target, dirty, event, obj>>

\* The list with a search term: the filters select ids, the query is embedded
\* and the ids are ranked ...
SearchPrompts(w) ==
  /\ pc[w] = "ready"
  /\ \E p \in PromptIds, asked \in Visibilities \cup {"any"} :
       /\ Selected(p, caller[w], asked)
       /\ target' = [target EXCEPT ![w] = p]
  /\ Goto(w, "fetching")
  /\ UNCHANGED <<prompts, userOrg, kept, audit, unaudited, caller, dirty, event, obj>>

\* ... and the rows of the page are read by id: deleted ones drop out.
FetchPage(w) ==
  /\ pc[w] = "fetching"
  /\ obj' = [obj EXCEPT ![w] = IF Live(target[w]) THEN Summary(target[w], caller[w])
                                  ELSE None]
  /\ Goto(w, "replying")
  /\ UNCHANGED <<prompts, userOrg, kept, audit, unaudited, caller, target, dirty, event>>

SendPage(w) ==
  /\ pc[w] = "replying"
  /\ Respond(w)
  /\ UNCHANGED <<prompts, userOrg, kept, audit, unaudited>>
----------------------------------------------------------------------------
(* Writes. *)

NewRow(data, c) ==
  [creator |-> c.id, status |-> data.status, visibility |-> data.visibility,
   featured |-> data.featured, title |-> data.title, body |-> data.body,
   vector |-> EmbeddingSource(data.title, data.body),
   published_at |-> data.status \in Published, deleted_at |-> FALSE]

\* POST /prompts: everything before the INSERT depends on the body alone.
CreatePrompt(w) ==
  /\ pc[w] = "ready"
  /\ caller[w] # Anonymous
  /\ \E p \in PromptIds, data \in Creations :
       /\ prompts[p] = Absent
       /\ CreateAllowed(data.status, caller[w])
       /\ prompts' = [prompts EXCEPT ![p] = NewRow(data, caller[w])]
       /\ target'  = [target EXCEPT ![w] = p]
  /\ event' = [event EXCEPT ![w] = [action |-> "created", status |-> None]]
  /\ Goto(w, "committed")
  /\ UNCHANGED <<userOrg, kept, audit, unaudited, caller, dirty, obj>>

\* Assigning a column its loaded value does not make it dirty.
Dirty(new, loaded) == IF new = loaded THEN None ELSE new

Patched(new, loaded) == IF new = None THEN loaded ELSE new

\* The vector is computed when the text of the loaded row changes.
ReembedOnTitle(old, new, loaded) ==  \* mutant: forgets the other text columns
  IF new[1] = old[1] THEN None ELSE Dirty(new, loaded)

Reembed(old, new, loaded) == IF new = old THEN None ELSE Dirty(new, loaded)

\* The publication stamp goes with the status.
StampPublic(status) == IF status = "published_public" THEN TRUE ELSE None  \* mutant

Stamp(status) == IF status \in Published THEN TRUE ELSE None

\* What update_prompt leaves dirty.
PatchChange(row, data) ==
  LET old == EmbeddingSource(row.title, row.body)
      new == EmbeddingSource(Patched(data.title, row.title), Patched(data.body, row.body))
      status == Dirty(data.status, row.status)
  IN [status       |-> status,
      visibility   |-> Dirty(data.visibility, row.visibility),
      featured     |-> Dirty(data.featured, row.featured),
      title        |-> Dirty(data.title, row.title),
      body         |-> Dirty(data.body, row.body),
      vector       |-> Reembed(old, new, row.vector),
      published_at |-> Stamp(status),
      deleted_at   |-> None]

PatchAllowed(row, data, c) ==
  /\ EditAllowed(c)
  /\ data.status \notin {None, row.status} => TransitionAllowed(row.status, data.status, c)

\* PATCH /prompts/{id}: load the row, decide, compute the change, embed ...
UpdatePrompt(w) ==
  /\ pc[w] = "ready"
  /\ caller[w] # Anonymous
  /\ \E p \in PromptIds, data \in Patches :
       /\ Found(p, caller[w])
       /\ PatchAllowed(prompts[p], data, caller[w])
       /\ target' = [target EXCEPT ![w] = p]
       /\ dirty'  = [dirty EXCEPT ![w] = PatchChange(prompts[p], data)]
       /\ event'  = [event EXCEPT ![w] =
                       [action |-> IF data.status # None THEN "status_changed" ELSE "updated",
                        status |-> None]]
  /\ Goto(w, "updating")
  /\ UNCHANGED <<prompts, userOrg, kept, audit, unaudited, caller, obj>>

\* ... or fail on an unknown category or in the embedder: nothing is committed.
AbortUpdate(w) ==
  /\ pc[w] = "updating"
  /\ Respond(w)
  /\ UNCHANGED <<prompts, userOrg, kept, audit, unaudited>>

DeletionChange ==
  [status |-> None, visibility |-> None, featured |-> None, title |-> None,
   body |-> None, vector |-> None, published_at |-> None, deleted_at |-> TRUE]

\* DELETE /prompts/{id}: load the row and decide.
DeletePrompt(w) ==
  /\ pc[w] = "ready"
  /\ caller[w] # Anonymous
  /\ \E p \in PromptIds :
       /\ Found(p, caller[w])
       /\ DeleteAllowed(prompts[p], caller[w])
       /\ target' = [target EXCEPT ![w] = p]
  /\ dirty' = [dirty EXCEPT ![w] = DeletionChange]
  /\ event' = [event EXCEPT ![w] = [action |-> "deleted", status |-> None]]
  /\ Goto(w, "deleting")
  /\ UNCHANGED <<prompts, userOrg, kept, audit, unaudited, caller, obj>>

FlushUnsent(row, change) ==  \* mutant: fields that were not sent become NULL
  [row EXCEPT !.status = change.status]

FlushLoaded(row, change) ==  \* mutant: writes the deleted_at it loaded
  [row EXCEPT !.status = Patched(change.status, row.status),
              !.published_at = Patched(change.published_at, row.published_at),
              !.deleted_at = change.deleted_at = TRUE]

\* UPDATE prompts SET <dirty columns> WHERE id = ...
Flush(row, change) ==
  [creator      |-> row.creator,
   status       |-> Patched(change.status, row.status),
   visibility   |-> Patched(change.visibility, row.visibility),
   featured     |-> Patched(change.featured, row.featured),
   title        |-> Patched(change.title, row.title),
   body         |-> Patched(change.body, row.body),
   vector       |-> Patched(change.vector, row.vector),
   published_at |-> Patched(change.published_at, row.published_at),
   deleted_at   |-> Patched(change.deleted_at, row.deleted_at)]

\* The keys a handler empties behind its commit.
Emptied(c) == {Anonymous, Viewer(c)}

Commit(w) ==
  /\ pc[w] \in {"updating", "deleting"}
  /\ prompts' = [prompts EXCEPT ![target[w]] = Flush(prompts[target[w]], dirty[w])]
  /\ dirty'   = [dirty EXCEPT ![w] = None]
  /\ Outdate(Showing(target[w]) \ Emptied(caller[w]))
  /\ Goto(w, "committed")
  /\ UNCHANGED <<userOrg, audit, unaudited, caller, target, event, obj>>

\* The committed row is read again; the details of the event come from it.
RefreshCommitted(w) ==
  /\ pc[w] = "committed"
  /\ event' = [event EXCEPT ![w].status =
                 IF event[w].action = "deleted" THEN None ELSE prompts[target[w]].status]
  /\ Goto(w, "auditing")
  /\ UNCHANGED <<prompts, userOrg, kept, audit, unaudited, caller, target, dirty, obj>>

WriteEventOfRow(w) ==  \* mutant: deletions are not audited
  /\ pc[w] = "auditing"
  /\ audit' = IF event[w].action = "deleted" THEN audit
              ELSE [audit EXCEPT ![target[w]] = event[w]]
  /\ unaudited' = unaudited \ {target[w]}
  /\ Goto(w, "emptying")
  /\ UNCHANGED <<prompts, userOrg, kept, caller, target, dirty, event, obj>>

\* write_event commits the audit row in a transaction of its own.
WriteEvent(w) ==
  /\ pc[w] = "auditing"
  /\ audit' = [audit EXCEPT ![target[w]] = event[w]]
  /\ unaudited' = unaudited \ {target[w]}
  /\ Goto(w, "emptying")
  /\ UNCHANGED <<prompts, userOrg, kept, caller, target, dirty, event, obj>>

\* Reading the row again or writing the event fails: 500, and the change stays.
FailEvent(w) ==
  /\ pc[w] \in {"committed", "auditing"}
  /\ unaudited' = unaudited \cup {target[w]}
  /\ Outdate(Showing(target[w]))
  /\ Respond(w)
  /\ UNCHANGED <<prompts, userOrg, audit>>

\* The list of visitors leaves the cache, then that of the caller.
EmptyAnonymous(w) ==
  /\ pc[w] = "emptying"
  /\ kept' = [kept EXCEPT ![Anonymous] = None]
  /\ Goto(w, "emptyingOwn")
  /\ UNCHANGED <<prompts, userOrg, audit, unaudited, caller, target, dirty, event, obj>>

EmptyAnonymousAgain(w) ==  \* mutant: the list of the caller stays
  /\ pc[w] = "emptyingOwn"
  /\ kept' = [kept EXCEPT ![Anonymous] = None]
  /\ Respond(w)
  /\ UNCHANGED <<prompts, userOrg, audit, unaudited>>

EmptyOwn(w) ==
  /\ pc[w] = "emptyingOwn"
  /\ kept' = [kept EXCEPT ![Viewer(caller[w])] = None]
  /\ Respond(w)
  /\ UNCHANGED <<prompts, userOrg, audit, unaudited>>

\* Redis raises in cache_delete: 500, and the change and its event stay.
FailEmptying(w) ==
  /\ Redis
  /\ pc[w] \in {"emptying", "emptyingOwn"}
  /\ Outdate(Showing(target[w]))
  /\ Respond(w)
  /\ UNCHANGED <<prompts, userOrg, audit, unaudited>>
----------------------------------------------------------------------------
\* 403, 404 or 409 before anything is written, or a POST that fails on an
\* unknown category (404) or in the embedder (500).
RefuseRequest(w) ==
  /\ pc[w] = "ready"
  /\ \/ \E p \in PromptIds : ~Found(p, caller[w])
     \/ /\ caller[w] # Anonymous
        /\ \/ \E data \in Creations : ~CreateAllowed(data.status, caller[w])
           \/ \E data \in Creations : CreateAllowed(data.status, caller[w])
           \/ \E p \in PromptIds :
                /\ Found(p, caller[w])
                /\ \/ ~DeleteAllowed(prompts[p], caller[w])
                   \/ \E data \in Patches : ~PatchAllowed(prompts[p], data, caller[w])
  /\ Respond(w)
  /\ UNCHANGED <<prompts, userOrg, kept, audit, unaudited>>

\* Behind a commit.
Behind(w) == pc[w] \in {"committed", "auditing", "emptying", "emptyingOwn"}

\* The process is killed: every request is lost, what was committed stays, and so
\* does what Redis keeps.
Crash ==
  /\ Crashes
  /\ pc # [w \in Workers |-> "idle"]
  /\ pc'     = [w \in Workers |-> "idle"]
  /\ caller' = [w \in Workers |-> None]
  /\ target' = [w \in Workers |-> None]
  /\ dirty'  = [w \in Workers |-> None]
  /\ event'  = [w \in Workers |-> None]
  /\ obj'    = [w \in Workers |-> None]
  /\ unaudited' = unaudited \cup
       {target[w] : w \in {v \in Workers : pc[v] \in {"committed", "auditing"}}}
  /\ IF Redis THEN Outdate(UNION {Showing(target[w]) : w \in {v \in Workers : Behind(v)}})
     ELSE kept' = [k \in Viewers |-> None]
  /\ UNCHANGED <<prompts, userOrg, audit>>

Step(w) ==
  \/ Authenticate(w) \/ AuthenticateApiKey(w) \/ AcceptAnonymous(w)
  \/ GetPrompt(w) \/ RefreshViewed(w)
  \/ ListPrompts(w)
  \/ HitFeatured(w) \/ MissFeatured(w) \/ ListFeatured(w) \/ StoreFeatured(w) \/ FailFeatured(w)
  \/ SearchPrompts(w) \/ FetchPage(w) \/ SendPage(w)
  \/ CreatePrompt(w)
  \/ UpdatePrompt(w) \/ AbortUpdate(w) \/ DeletePrompt(w) \/ Commit(w)
  \/ RefreshCommitted(w) \/ WriteEvent(w) \/ FailEvent(w)
  \/ EmptyAnonymous(w) \/ EmptyOwn(w) \/ FailEmptying(w)
  \/ RefuseRequest(w)

Next == Crash \/ (\E k \in Viewers : Expire(k)) \/ (\E w \in Workers : Step(w))

Spec == Init /\ [][Next]_vars
============================================================================
