# A TLA+ model of the prompt library

This directory holds a specification of the prompt library: the API (`src/`), the
MCP sidecar in front of it (`gallery_mcp/`) and the two scripts that change its
data from outside (`scripts/reembed.py`, `scripts/import_prompts.py`). It
consists of TLA+ modules, TLC configurations and proofs checked by TLAPS. Paths
below are relative to the repository root, or to `src/` where they name a part of
the API.

The API is a FastAPI process over PostgreSQL. Most endpoints are plain `def`
functions, so each request runs on a thread of a pool and has a database session
of its own (`src/database.py:25-30`). A handler is therefore a sequence of
statements and commits, and everything between a SELECT and the commit that
depends on it can be interleaved with other requests. The rows have no version
column, no statement locks a row on reading (`FOR UPDATE` is used nowhere) and
UPDATEs carry no condition but the primary key. SQLAlchemy writes only the
columns whose value changed since the load. That is what most models are built on.
The rate limiter and the authentication are `async`: they run on the event loop
and hold it through every call they make, a fetch of up to 10 s included.

## 1. Inventory

| Part | Code | State | Operations | Modelled in |
|---|---|---|---|---|
| Prompt lifecycle, access, reads | `services/prompt_service.py`, `routers/prompts.py`, `middleware/auth.py` | table `prompts`, `users.org_id`, `prompts:featured:<viewer>` | create, patch, delete, get, list, featured, search | `PromptAccess`, `Prompts`, `PromptLifecycle` |
| API keys, logout-everywhere | `routers/me.py`, `middleware/auth.py`, `services/keycloak_client.py` | table `api_keys` | issue, present, revoke, sweep, list | `ApiKeys` |
| Response caches, vector cache | `cache.py`, `routers/{categories,tags,prompts}.py`, `prompt_service.py:41-86` | `_local_cache` or Redis, `_vector_cache` | fill, hit, expire, invalidate | `Caches` |
| Audit trail | `services/audit_service.py`, `routers/admin.py` | table `prompt_events` | append, list | `WriteEvent` of each module above |
| Authentication | `middleware/auth.py`, `utils/jwt_utils.py` | table `users`, JWKS cache and stale copy | fetch, verify, try again, upsert user, stamp key | `KeyCache`, `FrontDoor`; the upsert in `Prompts`, the stamp in `ApiKeys` |
| Taxonomy | `services/taxonomy_service.py`, `routers/{categories,tags}.py` | categories, tags, link tables | create, rename, soft-delete, get-or-create | `Taxonomy` |
| Engagement | `prompt_service.py:346, 527-591` | counters, `prompt_ratings` | view, use, rate | `Engagement`, `RatingBook` |
| Rate limiting | `middleware/rate_limit.py` | counters in memory | identify, count, refuse | `FrontDoor` |
| MCP sidecar | `gallery_mcp/` | two context variables per call | capture, forward, translate a 401 | `Sidecar` |
| Re-embedding | `scripts/reembed.py` | `prompts.embedding_vector` | rewrite in batches, resume | `Reembed` |
| Import | `scripts/import_prompts.py` | none; prompts of the gallery | look up, post, patch | `Import` |
| Search ranking | `prompt_service.py:65-107, 249-337` | none of its own; the vector matrix | select, score, fuse, page | `Search` |
| Embeddings | `embeddings/` | none | embed a text | no (a model) |
| Uploads | `routers/uploads.py`, `storage/` | files under fresh names | store, remove | no (I/O) |
| Wiring, configuration, migrations, other scripts | the rest | none | | no |

How the parts interact. Every request passes the rate limiter, then
authentication (which writes `users` or `api_keys`), then its handler. Handlers
of prompts call the embedder, the taxonomy service (tags are created on the fly)
and, after their commit, the audit service (a commit of its own) and then the
cache. The search reads the vector cache, which any create or text change
resets. Listings of the taxonomy count links that the prompt handlers write.
Reads go to the cache first where there is one. The MCP sidecar, the import and
the re-embedding script are other processes: the first two are clients of the
API, the third writes the same table. A token is verified twice on its way in,
once by the rate limiter and once by the authentication, and both go through one
cache of keys that every other request may empty or fill.

What is hard here, and what makes each part correct:

* **Prompts.** Two PATCHes, or a PATCH and a DELETE, decide on rows that change
  before they commit. Statuses must follow the graph, publications must be
  authorised and stamped, deletions final, vectors true to the text, and no read
  may send what its caller must not see.
* **Search.** A ranking is made anew for each page, from two lists, one of which
  comes in no order at all. It must be fair to both, and the pages of a search
  between which nothing changes must hold every result once.
* **API keys.** A key is used, revoked and swept at the same time; the clock
  moves between the check and the stamp; Keycloak fails half-way. Revocation must
  be final, nothing used after its last day, no key minted by a key, and the
  audit trail never ahead of the table.
* **Caches.** Fills and invalidations race; invalidation follows two commits and
  may not happen at all. No write may be overlooked, flags must stay with their
  viewer, and the caches must converge.
* **Taxonomy.** Unique names and soft deletion pull in opposite directions; links
  race with deletions; two writers of the same tags may deadlock.
* **Engagement.** Counters and ratings are read-modify-write without locks. A
  counter may lose what overlapped and nothing else; ratings must come out as if
  each user had one register per prompt.
* **Rate limiter and key cache.** Buckets are counted before a refusal; Keycloak
  rotates keys, fails and comes back; two copies of the keys age differently. No
  genuine token may be refused, no withdrawn key live for ever, and a request
  must be counted for the user it is served as.
* **MCP sidecar.** Calls overlap in one process, time out and fail; the 401 of
  one must not become the answer of another.
* **Scripts.** They fail half-way and are run again, next to a server that goes
  on working. Repeating them must repair, not duplicate or corrupt.

`PROJECT.json` lists each of these hazards at its line.

## 2. Modules

| Module | What it is |
|---|---|
| `PromptAccess` | the decisions on one row and one caller: visibility filters, scopes, transition graph, capability flags. No variables. |
| `Prompts` | the prompts API as a state machine: one action per statement or commit that other requests can come between |
| `PromptLifecycle` | the abstract specification: one status per prompt, moving along the graph, deleted for good |
| `PromptsCorrect` | the properties of `Prompts`, and the refinement of `PromptLifecycle` |
| `Search` | the hybrid search and its pages, next to requests that write the table |
| `ApiKeys` | keys from issue to revocation, with logins, sweeps, the clock and the events |
| `Caches` | the four caches of one process |
| `Taxonomy` | categories, tags and links, with transactions of several flushes and the locks they take |
| `Engagement` | counters and ratings, with the unique constraint and the rating events |
| `RatingBook` | the abstract specification of the ratings: one register per prompt and user |
| `KeyCache` | the keys that tokens are verified with, and Keycloak as it rotates and fails. Actions on keys only, no specification of its own. |
| `FrontDoor` | the rate limiter and the authentication, on one event loop; extends `KeyCache` |
| `Sidecar` | clients that call directly or through the MCP sidecar, the clock and crashes; extends `FrontDoor` and states its properties |
| `Reembed` | the re-embedding script next to the server |
| `Import` | runs of the import script against one gallery |
| `Services` | the composition of `Sidecar`, `Engagement`, `Reembed`, `Import` and `Search`, which share no state |
| `MCPrompts`, `MCApiKeys`, `MCCaches`, `MCTaxonomy`, `MCServices` | instances for TLC |
| `PromptsProofs`, `ApiKeysProofs`, `CachesProofs`, `TaxonomyProofs`, `GalleryProofs`, `ScriptsProofs`, `SearchProofs`, `ServicesProofs` | theorems |

Operators marked `\* mutant` are wrong versions of the operator after them. They
are used by no specification; substituted for the right one, each makes some
property fail, which shows that the property depends on that code.

### Prompts

State: `prompts` (the table, `Absent` before the INSERT), `userOrg`
(`users.org_id`), `kept` (the featured list in the cache of each viewer: a user,
whatever the credential, or all visitors), `audit` (the newest event of each
prompt) and, per worker thread, the program counter, the caller, the prompt it works on, the UPDATE its
session will send (`dirty`), the event it has yet to write, and the answer it is
about to send (`obj`).

| Code | Actions |
|---|---|
| `get_current_user`, `_upsert_user` | `Authenticate`, `AuthenticateApiKey`, `AcceptAnonymous` (runs on the event loop without an await, and its only write is the upsert: one step) |
| `get_prompt` | `GetPrompt` (filtered SELECT), `RefreshViewed` (re-read by key after the counter's commit), `SendPage` |
| `list_prompts` | `ListPrompts`; with a search term `SearchPrompts` (ids by filter), `FetchPage` (rows by id) |
| `list_featured` | `HitFeatured` (sent as it was kept, no filter and nothing read again), `MissFeatured`, `ListFeatured` (the filtered SELECT), `StoreFeatured`; `FailFeatured` (Redis), `Expire` (the TTL) |
| `create_prompt` | `CreatePrompt`, then as below |
| `update_prompt` | `UpdatePrompt` (load, check, compute the change and the vector), `AbortUpdate`, `Commit`, `RefreshCommitted` (`db.refresh`), `WriteEvent`; `FailEvent` if one of the last two fails (500, and the change stays) |
| `delete_prompt` | `DeletePrompt`, `Commit`, `RefreshCommitted`, `WriteEvent` |
| `cache_delete` behind these | `EmptyAnonymous`, `EmptyOwn`; `FailEmptying` (Redis) |
| `_handle` | `RefuseRequest` |

A pending UPDATE is a record whose `None` fields are columns that are not dirty;
`Flush` applies it to whatever the row is by then. `description` and
`prompt_text` are one field, `body`: they are embedded together. A vector is the
pair of texts it was made from. Times are stamps (set or not). A caller is the
record the middleware builds: id, organisation of the credential and scopes. For
an API key the organisation is the one its owner's row has at that moment.
`unaudited` is a history variable: the prompts whose last change has no event, as
its request failed or was killed between the two commits. An answer carries what
it tells of its prompt, the caller it was made for (`for`: its flags are those of
this caller) and a history field `outdated`, which no behaviour depends on. With one
worker it marks a kept list when another user writes its prompt, when the
author or the viewer moves to another organisation, and when a request fails or dies
before it has emptied the list. `Caches` has the same cache beside the others
and under overlapping fills; here it is what the filters of a read can be bypassed by.
An empty list is stored too; it tells nobody of a prompt, and is left out.

### PromptLifecycle

`life[p]` is `"absent"`, a status or `"deleted"`. `Prompts` implements it under
`life <- [p \in PromptIds |-> Life(prompts[p])]` as long as requests do not
overlap. With two workers it does not (run `lifecycle_race`).

### Search

State: the rows and `heap`, the order in which a SELECT without ORDER BY returns
them, the matrix of vectors, and the request of one client with the ids answered so
far. Any write, a view count too, may move its row in `heap`.

| Code | Actions |
|---|---|
| `list_prompts` with a search term | `SelectKeyword`, `LoadVectors` (`_load_vector_cache`), `FuseCandidates` (`Nearest`, `Fuse`, from the ids that pass the filters by then), `FetchPage` (`Slice`, the rows by id) |
| the client, failures | `StartOver` |
| other requests | `CreatePrompt`, `UpdatePrompt`, `CountView`, `DeletePrompt`, `ForgetVectors`, `ReloadVectors` |

Who sees what is in `PromptAccess`; here it is a flag of the row. A vector stands for
the text it was made from, and its similarity to the query is the rank of that text
(`Nearness`). `Sorted` is the one sequence of a set in a given order, `StableSort` Python's
sort by it, `Only` what a WHERE or a comprehension leaves of a sequence; all three are
plain definitions by CHOOSE over finite sets, without recursion, so that they can be
reasoned about. Scores are exact fractions. The code adds floats, in an order that makes
the sums of exchanged ranks equal too. `steady` is a history variable: nothing was
written, and the matrix was not replaced by another, since the first page. When
the matrix is dropped is left open; `Caches` says when it must be.

### ApiKeys

State: the table, the clock, the events, and per worker the caller (with the key
it used, the `azp` of the code), the loaded row, the keys its sweep loaded and
whether Keycloak refused. `PresentKey` and `AcceptKey` are the SELECT and the
UPDATE of `_authenticate_api_key`, `LoadKey` and `RevokeKey` those of
`revoke_api_key` (handlers on other threads commit in between); `logout_everywhere` is `LogoutAllSessions`,
`SelectActiveKeys`, `SweepKeys` and then `ReportFailure` (502) or `WriteEvent`
(204). Tokens and hashes are abstracted to the row they find.

### Caches

An entry is abstracted to the set of committed writes its rows lack. A fill is
`Miss`, `Select`, `Store`; a write that commits between `Select` and `Store` is
added to what the fill lacks. A write is `CommitWrite`, `InvalidateVectors`,
`WriteEvent`, `DeleteFirst`, `DeleteOwn`, in the order of the handlers, with
`FailWrite` and `Crash` in between; its kind (`"text"`, `"prompt"`,
`"taxonomy"`, `"counter"`) and its author determine the answers it changes
(`Changes`) and the keys it empties (`Deletes`). The field `excused` is a history
variable: the writes an entry may lack because they overtook its fill or because
their request failed. Nothing in the behaviour depends on it. `redis` is chosen
at the start: with Redis, entries survive a crash, deletions can fail, and
listings cannot be encoded (`FailStore`).

### Taxonomy

State: `terms` (both tables; `live` is `deleted_at IS NULL`) and `links` (both
association tables), as committed, and per worker the request it is in the
middle of. A prompt is saved in one transaction that is open for several steps:

| Code | Actions |
|---|---|
| `create_prompt`, `update_prompt` | `LoadPrompt` (with its links, and the live categories of the body), the actions of the next line, `FinishTags`, `SavePrompt` (the links and the commit) |
| `get_or_create_tags` | `LookUp` of one name after the other, `InsertTag`, `ResurrectTag` |
| `create_category`, `create_tag` | `CheckName`, `InsertTerm` |
| `update_category` | `LoadCategory`, `Rename` |
| `soft_delete_category`, `soft_delete_tag` | `LoadTerm`, `DeleteLinks`, `CommitDeletion` |
| an exception, `get_db` closing the session | `FailRequest` |
| PostgreSQL | `Waits`, `BreakDeadlock` |

`flushed` holds the tags and `locked` the links that a transaction has written
and not committed; others that need the same name or link wait (`WaitsFor`). `rows`
is the identity map of the session: a tag it has loaded is not loaded again, so a
worker may go on with a tag that was deleted meanwhile (`Seen`). The session does
not flush on queries, so the deletion stamp reaches the row only at the commit,
while the DELETE of the links is sent before; the first flush of a tag takes the
new categories of the prompt with it. A POST is the case of a prompt without
links. `Normal` is `strip().lower()`, `None` if nothing is left; POST /tags does
not normalise. `undisturbed` is a history variable on which no behaviour
depends: no request has clashed with this one so far. `write_event` and
`cache_delete` behind these commits are in `Caches`.

### Engagement and RatingBook

State: the two counters of each prompt, `prompt_ratings`, the number of rating
events, and per thread its request (`job`) with what it has loaded.

| Code | Actions |
|---|---|
| `get_prompt`, `increment_use_count` | `LoadCounter`, `CommitCounter` (the sum is computed in Python and written by key), `NotFound` |
| `submit_rating` | `LoadRatedPrompt`, `FindRating`, then `Overwrite` (an UPDATE of the score only if it differs from the one loaded) or `InsertRating` (refused by `uq_prompt_user_rating` if a row came in between: then only `FailEngagement` is left) |
| `routers/prompts.py`, the event | `WriteRatingEvent` |
| `delete_prompt`, a crash, an exception | `DeleteRatedPrompt`, `FailEngagement` |

`commits`, `lost` and `missed` are history variables: the requests committed to a
counter, and the commits that a request had not seen when it wrote its sum.
`RatingBook` has `book` (the registers), `noted` and the phase of each request;
`Ask`, `Apply`, `Note`, `Fail`, `Look` (a stutter). A rating takes effect at its insert or update,
except when it equals the score it found: then the UPDATE sets `updated_at` only and
leaves the score out, another rating may be committed in between, and the only moment at which this one can be said
to have taken effect is the lookup. `Phase` says so, and the refinement needs it.

### KeyCache, FrontDoor and Sidecar

State: what Keycloak publishes and whether it answers, `jwks` and `staleJwks`, the
minute, the counters, `loop` (the request that holds the event loop between two
tries), and per client the call under way (`request`).

| Code | Actions |
|---|---|
| `_fetch_jwks` | `Fetched` (its result), `KeepFetched` (what it leaves behind) |
| `decode_and_verify` | `Verdict`; a token found invalid the first time is `TryAgain` (`ForgetFetched`), and the second try is an `...Again` action |
| `RateLimitMiddleware` | `LimitAnonymous`, `LimitBearer`, `LimitAgain`, each with `Limited` (count one bucket after the other up to the first that is full) |
| `get_current_user`, `get_optional_user` | `AuthenticateWithoutToken` (nobody, or an API key), `AuthenticateToken`, `AuthenticateAgain` |
| the handler | `Serve` |
| `_AuthMiddleware` | `CallTool`, `Flagged`, `Status`, `Respond` |
| the five tools | `Forward`, `TimeOut`, `ToolReturns` |
| Keycloak, the cache's TTL, the clock, a crash of the API | `KeycloakStep`, `CacheExpires`, `Tick`, `RestartApi` |

A first try and a second are two steps because Keycloak may change and a handler on
another thread may go on during the second fetch; no other request can run on the
loop then, which is what the guards `First` and `Again` say. The five tools differ
in URL and parameters only. Whether a context variable set in a tool is seen by
the middleware depends on the task the MCP library runs it in: `ToolReturns`
allows both. A signature is the name of its key, a token its claims; leeway,
issuer and audience are left out. `passed`, `counted` and `steady` are history
variables: requests let through, the buckets a request was counted in, and
whether Keycloak has stayed as it was since.

### Reembed

State: the rows with text and vector (a pair of model and text), the run of the
script, at most one PATCH of the server. `StartReembed` takes the ids, `BeginBatch`,
`ReadRow` (loads and embeds one row), `CommitBatch`, `FailBatch`, `FinishReembed`; the
server has `CreateRow`, `LoadEdited`, `CommitEdited`, `DeleteStored`. Script and
server send only the columns that differ from those they loaded, so an equal
vector is not written again. `overlapped` is a history variable: the rows where
one of them committed between the other's reading and commit.

### Import

State: the titles in the gallery, and per run of the script the titles it still has
to copy. `StartImport`, `Look` (`find_prompt_by_title`), `Patch` or `Post` or
`PostRefused`, `FinishImport`, `AbortImport`; `RemovePrompt` is a moderator. A lookup may
miss a title that is there: the code treats a refused search as none found, the
search returns at most a hundred prompts, and it shows only what the caller may
see. `unsure` is a history variable: the titles posted by a run whose lookup had
not seen that there were none, or no longer.

## 3. What the runs check

| Run | Instance | States | Question |
|---|---|---|---|
| `prompts_concurrent` | 2 workers, 1 prompt, 3 callers, all status patches, deletions, crashes, no Redis | 387,222 | what holds for any interleaving |
| `prompts_serial` | 1 worker, 1 prompt, 2 texts, 5 logins and 2 API keys of 2 users in 2 organisations and none, visitors, creations with each status and visibility, patches of status and text, 1 featured list kept at a time, Redis, crashes | 2.2 million | what holds when requests do not overlap |
| `api_keys` | 2 workers, 2 keys, 2 users, expiry on the day of issue, one tick, crashes | 1.6 million | everything about keys |
| `caches` | 2 workers, a listing, the vectors, a user who reads, another one who writes, a visitor, 2 writes, with and without Redis, crash | 1.8 million | staleness and convergence |
| `taxonomy` | 2 workers, 2 prompts, 2 categories, 2 tags, a name in two spellings and a blank one, crashes | 448,937 | names, deletions and links |
| `taxonomy_answers` | 2 workers that save a prompt with the same two tags in opposite orders, tags created and deleted | 46,524 | every request is answered |
| `services` | `Sidecar`: 2 clients, 2 tokens, an API key, 2 key sets, 2 minutes; `Engagement`: 2 threads; `Reembed`: 2 prompts, 2 texts, 2 models; `Import`: 2 runs, 2 titles; `Search`: 3 prompts, 3 texts, 2 vectors kept, pages of 2, 1 write by others | 603,584 | the way in, the ratings, the search and the scripts |
| `lifecycle_race`, `texts_race`, `read_race`, `logout_race`, `featured_flags` | as above | | documented claims the code does not keep (section 6) |

**`prompts_concurrent`.** `SessionOK`: what a request decided about row, owner
and scopes on load is still true when it commits. `PublishedStamped`: a
published prompt has its time. `PublicationAuthorised`: every status was written
for a caller who holds the scopes for it, although the row may have changed
since the check. `DeletionFinal`: no PATCH in flight undoes a deletion, removes
a row or changes its owner. `DeletionAuthorised`.

**`prompts_serial`.** `FollowsLifecycle` (the refinement), `DeletedFrozen`,
`EmbeddingCurrent`, `AuditTailCurrent` (the newest event tells status and
deletion, except after a change whose request died before its event; the event of
the next change makes up for that), `ServedVisible` and `ModelComplete` (what is sent is
what the table in `CONTEXT.md` says, in both directions, including callers who log in from
another organisation than before and keys whose owner has moved),
`FlagsActionable` (for the credential the flags were made for, DELETE does what
`can_delete` promised, and `can_publish` is no dead end).

The cached featured list is where these two end. `list_featured` sends it for up to
60 s without a filter, and a write empties the lists of visitors and of its own user
only. So another user may be sent a prompt that has been hidden or deleted since,
without any overlap, and two credentials of one user share a list and its flags.
The properties say exactly that and no more: a list only ever goes to the user (or
the visitors) it was made for; it holds what the table showed to that credential and no
deleted row; and unless it is `outdated` it tells the prompt as it is now. A completed
write outdates no list of visitors and none of its own user, so it must have emptied
those that told what it changed.

**`api_keys`.** `RevocationFinal`, `SweepCovers` (all keys that were found are revoked,
whether Keycloak refused or not; a malformed answer ends the call before any is
looked for, section 6), `UsedBeforeExpiry`,
`AuditNeverAhead`, and `KeysOwned`: keys are issued to interactive logins only
(`MintedInteractively`) and revoked by their owners only (`RevokedByOwner`).

**`caches`.** `AnswersTrue`: an entry lacks a write that should have emptied it
only while that write is still on its way, or if it overtook the fill, or if its
request failed (`WritesReachEntries`), and no viewer gets the flags of another user
(`FlagsSameUser`). What overtook or failed is excused and thereby bounded: that no
such entry stays is `Converges`, which says that once nothing more is
written, the caches are true for good. This bounds also what no handler invalidates:
counters, other viewers' featured prompts (those of the user who reads, after a
write of the other), link counts, tags made on the fly.

**`taxonomy`.** `NamesUnique`: no two rows of a table have the same name, live or
deleted, although each check for a duplicate is a SELECT that others overtake.
`TermsKept`: rows stay, tags keep their name, and a rename committed after the
deletion of its category does not revive it. `SavedAsChosen`: a save that clashes
with no deletion and no other save of its prompt leaves exactly the links it
chose, to live rows, whatever was left there before and whatever else happens to
the same tags. `DeletedUnlinked`: a deletion that no save runs beside leaves no
link. The code prevents neither of the two clashes: a link to a deleted row then
stays until the prompt is saved again (section 6).

**`taxonomy_answers`.** `RequestsEnd`: requests that wait for each other's tags or
links are all answered.

**`services`.** The five parts share no state, so a behaviour of this instance
belongs to one of them (`part`, chosen at the start) and all actors of that part
interleave in it; they stand in one instance only to be run together. `MCInit`
is `Init` of `Services` with the parts that stand still in one state and the
prompts of the search in one order. Of its
states about 291,000 belong to the gallery, 23,000 to the engagement, 89,000 to
the re-embedding, 105,000 to the import and 95,000 to the search.

* `WithinLimits`: in a minute one process lets no more requests through for an
  address, user, client or organisation than its limit, although requests refused
  on a later bucket stay counted in the earlier ones.
* `GenuineAccepted`: a token that has not expired is refused only if Keycloak does
  not know its key or, while that is down, did not when it last answered. Other
  requests may empty and fill the cache at any time.
* `ServedAsCounted`: a request served as a user was counted for that user, although
  its token is verified twice. The exceptions are in the property: Keycloak
  changed in between, or the scheme is not written `Bearer` (section 6).
* `WithdrawnKeysFade`: once Keycloak answers and has withdrawn a key for good, no
  request is served for it in the end.
* `ToolsAnswerTrue`: the API gets the header of the caller and of nobody else; a
  tool call is answered with 401 only if it had no header or the API said so for
  this call, with a result only if the API gave one.
* `CountsHonest`: a counter is never ahead of the requests committed to it, and
  behind them by no more than the overlapping commits.
* `RatingsLinearise`: the refinement of `RatingBook`.
* `FusedFairly`: no result stands behind one that it leads in each list it is in,
  and one found by both halves comes before those found by one, as long as its
  ranks are at most 61.
* `PagesComplete`: a client that turns all pages is answered with each relevant
  prompt once (`Relevant` says which without lists and ranks), if nothing changed
  meanwhile. It does not hold without that condition: the keyword hits come in the
  order of the table (section 6). It also rests on an assumption that PostgreSQL does
  not guarantee: the same SELECT without ORDER BY returns the rows in the same order as
  long as nothing is written.
* `ReembedTrue`: a full run that ended well leaves the right vector for every prompt
  that was not edited between a read and a commit of the other side, whichever
  earlier runs failed; a run with `--only-missing` leaves none without.
* `ImportOnce`: however often an import with `--overwrite` is aborted and repeated,
  a title is there once, unless a lookup missed it; a run that exits with 0 leaves
  every title it listed.

**Bounds.** No invariant of `Prompts` relates two prompts, and no action reads
one prompt to write another, so one id suffices (for one prompt there is also one
item per list). `MaxKept` bounds the lists kept at a time, in the guard of `StoreFeatured`;
that there are others does not matter to a list, which is emptied by its own key.
`prompts_serial` has one title, so that the text changes by the body alone; both
columns are patched in `texts_race`; two workers give every pairwise
race, and three workers on one row only repeat them. Two keys let a sweep miss
one. One tick with a TTL of 0 puts the expiry between any SELECT and UPDATE.
In `Search`, three
prompts of which two vectors are kept and pages of two give a cut of the list, a
second page that is full or not, and prompts of each half and of both; one write
is what it takes to have a stale matrix. The prompts are interchangeable, so the table
starts in one order; three prompts to start with all have vectors, fewer may not. The constants are the code's own (60)
where the size does not matter.
There are as many tags and categories as names that are sent for them, so no
insertion lacks an id; two names are what a deadlock needs, two categories what a
rename into a taken name needs.
`MaxWrites = 2` gives a write that overtakes another's fill or deletion. `MaxTime`
and `MaxWrites` are the only bounds on counters, and sit in the guards of `Tick`,
`CommitCounter` and `CommitWrite`. The proofs remove the bounds on everything but
`MaxTime`, which is an arbitrary number there.
In `services`, one client calls a tool with a token that stays valid, the other
directly (with the scheme in either spelling) with one of another user of the organisation
that expires after the first minute and is signed with the
other key, through a tool with an API key (which empties the key cache, being no
token) or without a header. That makes each verdict happen, at each place, and
lets one request disturb the cache between the two looks of another. Limits of 2 for
a user and 1 for the rest, with `MaxCalls = 2` calls begun in a minute (and counted in
that one or the next), give refusals at the first, the second
and the third bucket and by the limit of an address: the token without a client
and the other one meet in their organisation only. `MaxMinute = 1` is one change of the window. Not
enumerated are direct calls to endpoints that take no credential, and an
optional one without any: they pass the authentication without a step of the key
cache. `MaxCounted = 2` commits to a counter and events of a register let one
overlap another; one user suffices as registers share nothing. `MaxRevisions = 2`
gives a prompt created or edited during a run and one more before the next, and
`BatchSize = 1` a failure after a committed batch.
`MaxCalls`, `MaxMinute`, `MaxCounted` and `MaxRevisions` sit in the guards of `Begin`,
`Tick`, `LoadCounter` and `LoadRatedPrompt`, `CreateRow` and `LoadEdited`,
`MaxChanges` in that of `Written`.

**Symmetry** over workers (and keys) is used in runs with
safety properties only that name none of them.

**Fairness.** `Caches`, `Taxonomy` and `Sidecar` have some. In `Caches` it is `WF(Expire(k))` for each key. An entry ages
whatever the requests do (Redis `SETEX` and `TTLCache` with 60 s, `_CACHE_TTL` of
60 s for the vectors), so one that stays is dropped. Nothing is assumed of the
requests: they may hang or die anywhere. In particular `Converges` does not rely
on an invalidation being carried out.
In `Taxonomy` it is `SF(Proceed(w))` for each worker: threads of the pool are
scheduled, PostgreSQL grants locks in the order of the requests, so that one that
can proceed again and again does, and it aborts one of the transactions of a
deadlock after `deadlock_timeout`. Nobody has to send a request.
In `Sidecar` it is `WF(CacheExpires)`: an entry of the `TTLCache` of
`jwt_utils.py:30-35` is dropped `JWKS_CACHE_TTL_SECONDS` after it was written,
whoever reads it. Nothing is assumed of Keycloak, of the clients or of the API.

**Deadlock** is checked in every run; no configuration turns it off.

## 4. What is proved

All theorems hold for any finite or infinite set of workers, prompts, users,
keys, texts and request bodies (for the search, any finite set of prompts: their keys
are 32-bit integers). The assumptions are those stated in the modules
(`PromptsAssumption`, `ApiKeysAssumption`, `CachesAssumption`, `TaxonomyAssumption`,
`EngagementAssumption`, `KeyCacheAssumption`, `FrontDoorAssumption`,
`ReembedAssumption`, `ImportAssumption`, `SearchAssumption`): the constants have their types and the placeholders (`None`, `Absent`, `Anonymous`, `NoOrg`) are
different from the values they stand next to. TLC evaluates them in each run.

* **`PromptsProofs`**: `TypeCorrect`, `DecisionsHold`, `PublishedIsStamped`,
  `PublicationIsAuthorised`, `DeletionIsFinal`, `DeletionIsAuthorised`. The
  inductive invariant is `TypeOK /\ SessionOK /\ PublishedStamped`. `SessionOK`
  is what makes the rest inductive: a stamp is kept because the pending UPDATE of
  each PATCH sets status and stamp together (`PatchDecided`), and a commit is
  authorised because the scopes needed for a new status depend on that status
  and the caller, never on the old one. The action properties follow from the
  invariant in the state before the step.
  For one worker (`Serial`), all properties of `prompts_serial`.
  `SerialEmbedding`, `SerialLifecycle` (initial states map to initial states of
  `PromptLifecycle`, every step to a step or a stutter) and `SerialFrozen` rest on
  `SerialInv`: the pending UPDATE was computed from the row as it still is; a second
  worker is what breaks it. `SerialServed`, `SerialComplete` and `SerialFlags` add
  (`ReadInv`) that the users row of a caller still has the organisation of the
  credential, and that what a read has found is visible and not deleted. For the lists in
  the cache it adds `KeptFits`: each was made for its own viewer and, unless it is
  outdated, tells what the filters would tell now (`Agrees`), except between a
  commit and the deletion of the key, when the request that is to delete it is still
  on its way (`Leaves`). `AgreesStep` says once which changes of the tables leave a
  list agreeing, and `KeptStep` that each of the others marks it or is on its way to
  empty it.
  `SerialAudit` adds (`AuditInv`) that the event a request carries fits the row it
  changes, and that each change is told by the newest event, by a request that has
  yet to write one, or is in `unaudited`.
* **`ApiKeysProofs`**: the five properties and the type invariant. The invariant
  is `TypeOK /\ SessionOK /\ UsedBeforeExpiry /\ AuditNeverAhead`, where its
  `SessionOK` says what a worker knows at each point: a caller without a key is a
  login, a loaded row has the expiry of the stored one, a key about to be revoked
  is the caller's, and behind a commit the row is there and revoked. The central lemma is
  that no step removes a row or changes these columns.
* **`CachesProofs`**: `CachesTypeCorrect`, and `AnswersAreTrue` from
  `WritesAreNotOverlooked` and `FlagsAreKeyed`. The invariant adds to the properties that each worker has a
  key, a caller or a write exactly where its program counter says so, and that an
  entry of a viewer holds flags made for that viewer.
* **`TaxonomyProofs`**: `TypeCorrect`, `UniqueNames`, `RowsStay`, `SavesAreAsChosen`,
  `DeletionsUnlink`. Uniqueness of the
  committed names is not inductive: a commit adds all tags of a transaction at
  once. The invariant adds `Apart`: the names in a transaction differ from those
  of all committed tags and of all other transactions. A flush keeps it because
  it waits for a transaction with the name (`FlushKeeps`), a commit because of it
  (`SavePromptKeeps`), and everything else leaves names alone (`RespondKeeps`,
  `MoveKeeps`). `Working` and `Staged` say what a worker knows where it stands,
  such as that a name to be inserted is not among the tags it has flushed itself.
  The two properties of links need `DInv` on top: of two requests that clash each is
  marked at the step that makes them clash, never later (`Separate`), so a worker that is
  still undisturbed may trust what it read some steps ago: the links a save has
  loaded are those of its prompt and the tags it found alive are so or will be by its own
  commit (`AsLoaded`), and a deletion holds the locks of all links of its row
  (`HoldsAll`). `BesideKeeps` says once what another worker must leave alone for that,
  and each action has a lemma that it does.
* **`GalleryProofs`**: `GalleryTypeCorrect`, `LimitsHold`, `ToolAnswers`, `Genuine`,
  `Counted`, for any clients, tokens, keys, limits and clock. The difficult one is
  `Counted`: the two looks at a token are far apart and the cache in between belongs
  to everybody. The invariant says that a request which was not counted for its
  user has a token that is `Hopeless`: expired, or signed with a key that neither
  Keycloak nor the copies can vouch for. Whoever fills or empties the cache, a
  hopeless token stays so as long as Keycloak does (`StaysHopeless`), and a token
  that fails is hopeless afterwards (`FailsHopeless`): for this a second try must
  find the cache empty, which holds because it holds the loop (`LoopTrue`).
  `Genuine` rests on the same two facts.
* **`ScriptsProofs`**: `ReembedTypeCorrect`, `VectorsRight`, `ImportTypeCorrect`,
  `ImportedOnce`, for any number of prompts, texts, models, runs and titles and any
  batch size. `RInv` says that every id already handled in a full run has its
  right vector or was overlapped, that the updates of a batch still fit their rows
  unless those were overlapped, and that an edit in flight holds the vector of its
  row unless the script has crossed it. `JInv` says that a run that is sure of its lookup is at a title
  nobody has, and what each run has done of its list so far.
* **`SearchProofs`**: `SearchTypeCorrect`, `RankingIsFair`, `PagesAreComplete`, for any
  finite set of prompts and any ranking constant, number of vectors kept and size of a
  page. Sorting is proved without induction: in a finite set that is ordered a
  member has fewer ahead of it than those it is ahead of (`FewerAhead`), so the number of
  those ahead is a bijection and its inverse the sorted sequence (`CanBeSorted`,
  `SortedProperties`). `OnlyProperties` and `StableProperties` say what is left of a
  sequence, `FractionsCompare` that scores are compared as numbers are, so that the sort
  has an order to sort by. `FuseIsFair`: an id that leads another in each of its lists has the
  higher sum (`SumsCompare`), and 1/x + 1/y is more than 1/(K + 1) for x and y up to
  2K + 1 (`TwoNearTheTop`). `NearestProperties` turns the cut of the list into "fewer than
  `TopK` are nearer". The invariant `SearchInv` says that while nothing changes each
  page is cut from the same ranking (`Turning`), that the client has the first
  `page * PerPage` of it, and that items are of rows in the table, no two of one
  row (`Known`); `SliceProperties` joins a page to those before it and `PagesSuffice`
  is the rounding of `meta.pages`.
* **`ServicesProofs`**: `EngagementTypeCorrect`, `CountersHonest`,
  `RatingsImplementBook`, of `Engagement`, for any number of threads, prompts, users and scores. The
  invariant adds that the value a request has loaded and the commits it missed
  together keep the bounds that the counter keeps (`JobCounts`), so that its sum
  will; that a row found is still there and of the same register (`JobKnown`), and
  that a register has at most one row (`OneRow`). The
  refinement has one lemma per action; the step of `FindRating` is `Apply` when the
  score is the one found, a stutter otherwise. `Parts`: a behaviour of
  `Services` is one of each of the five parts, so what is proved of them holds of
  the composition (`ServicesTypeCorrect`, `ServicesCorrect`).

Model-checked only: `Converges`, `RequestsEnd` and
`WithdrawnKeysFade`, which are liveness. Liveness under fairness and ENABLED are
beyond the proof system, as are RECURSIVE operators and induction over data.

## 5. Not modelled

* The arithmetic of embeddings, which is on floats; image storage, whose files
  have fresh names that nothing but the answer refers to; wiring, configuration and
  migrations: see the notes in `PROJECT.json`.
* The HMAC branch of `decode_and_verify` (`jwt_utils.py:88-109`), for development
  without Keycloak: it has no state. A token without `sub`, which is counted for
  `unknown` and then refused.
* The averages of ratings, a read of one statement.
* The vector cache of the server after a run of `reembed.py`: the script is another
  process and does not reset it, so the old vectors stay for a TTL. `Caches` has
  the TTL, `Reembed` the table only.
* Other scripts (evaluation, benchmarks, creation of keys and prompts by hand),
  which are reports or single calls of the API.
* In `Prompts` a page holds at most one prompt, as rows do not depend on each other.
* PostgreSQL may return the rows of an unchanged table in another order from one
  SELECT to the next (a parallel or synchronised scan, another plan). `Search` takes
  the order to be the same until something is written.
* Statements are atomic and reads see what is committed (READ COMMITTED). Row
  locks held from flush to commit matter only where two rows are flushed, in the
  taxonomy.
* More than one server process: the local caches of others are never
  invalidated. The models are of one process, and of Redis shared by all.
* The two assignments of the vector cache (`prompt_service.py:63-64, 85-86`) are one
  step of `Caches`. Torn, they leave either a matrix with time 0, which is as if it
  had expired, or one that is kept for another TTL; `Expire` may do both at any
  moment, so no behaviour is lost. The interpreter of the image (CPython 3.11) does
  not switch threads between them.
* Calls that overlap inside `cachetools.TTLCache`, which has no lock (`cache.py:11`).
* The order of a list without a search term, and its pages (`ListPrompts`).

## 6. Where documents and code disagree

Found by a run:

1. `lifecycle_race` — ARCHITECTURE.md:112 has the transition graph "enforced in
   `_apply_status_transition`". Two PATCHes checked on the same loaded status
   together take an edge that is not in it, archived → published_public.
2. `texts_race` — ARCHITECTURE.md:208 has changed text re-embedded with "the same
   transactional guarantee". Two PATCHes of different columns leave a vector of
   neither text.
3. `read_race` — `src/main.py:74-75`: anonymous callers see only published_public
   prompts. `get_prompt` and the search re-read by id and send what was
   withdrawn in between.
4. `logout_race` — `routers/me.py:137`: revoke all API keys of the caller. A key
   issued between SELECT and commit survives.
5. `featured_flags` — ADR 0006:49-51: caching must key on the caller. The key is
   the user id, and two credentials of one user with different scopes share it.

Read off the source, without a run:

* PLAN.md:92 wants `prompt:publish:public` for published_public → published_org,
  and `*→archived`; the code asks for `prompt:publish` and refuses
  draft → archived.
* PLAN.md:293: a soft-deleted row has its status set to archived.
  `delete_prompt` leaves the status alone.
* `routers/prompts.py:187`: organisation admins may delete prompts of their
  organisation. `delete_prompt` knows owners and moderators only.
* ADR 0006:34-36 derives the flags from `prompt:write` among others;
  `prompt_capabilities` does not look at it, and a moderator without
  `prompt:publish` gets `can_publish`.
* CONTEXT.md:35: the filter is "applied uniformly to read endpoints". In the
  list, `visibility=restricted` takes the branch without the scope check that
  hides restricted prompts from every other read.
* ARCHITECTURE.md:116: every write is audited. A crash between the two commits
  loses the event (`unaudited` in `Prompts`), and a failed logout-everywhere revokes keys without one.
* `routers/me.py:147-148`: "revocation is local and cannot partially fail per key". It
  is, but it is not always reached: a 200 of Keycloak without a token in it raises an error other than `KeycloakError`
  (`keycloak_client.py:52`) and ends the call with 500 before any key is looked at
  (`BreakLogout` in `ApiKeys`).
* `logout_everywhere` and `revoke_api_key` that overlap overwrite the time of an
  earlier revocation.
* README.md:401: caches are invalidated on any write to the resource. See the
  list under `Converges` above. The featured list is the one that matters: after
  another user archives or deletes a prompt, a user who has the list in the cache is
  sent it for up to a minute more, and DELETE or PATCH on it then answers 404
  (`outdated` in `Prompts`). Also, with Redis, listings are not cached at all
  (`created_at` does not encode).
* ARCHITECTURE.md:113: association rows are removed on soft deletion. Soft-deleted
  prompts keep theirs and go on being counted, and a link that a request beside
  the deletion commits stays (the reason for `undisturbed` in `Taxonomy`).
* `scripts/import_prompts.py:177` says that without `--overwrite` existing prompts
  are skipped. The code looks for them only with it, and posts them again.
* `gallery_mcp/server.py:28` says that `search_prompts` sets the flag of a 401; all
  five tools do.
* `create_category` and `create_tag` answer 409 for a live name only. The name of a
  deleted row passes their check and then violates the UNIQUE constraint: 500.

* PLAN.md:81, 153-161: offset pages, and `sort` and `order` for GET /prompts. With a
  search term both are ignored, the keyword hits are ranked in the order the
  SELECT happens to return them, and a view between two pages may repeat one
  prompt and hide another (the reason for `steady` in `Search`).

Two parts of the code that treat the same request differently:

* The rate limiter compares the scheme with `"Bearer "` as it is written
  (`rate_limit.py:56`), the authentication in any spelling: a user whose client
  writes `bearer` is served as the user and counted as an address.
* An API key is no token, so the rate limiter counts its requests for their address
  (`rate_limit.py:61-73`), and each of them empties the key cache that the
  authentication of others uses (`jwt_utils.py:77`).

## 7. Plan

The order is by what matters most to the system. All of it is done.

1. `PromptAccess`, `Prompts`, `PromptLifecycle`: lifecycle and visibility.
2. `ApiKeys`: credentials.
3. `Caches`: what readers are answered with.
4. `Taxonomy`: names, links and locks.
5. `Engagement`, `RatingBook`: counters, and ratings as registers.
6. `Reembed`, `Import`: the scripts as actors that fail and are repeated.
7. `KeyCache`, `FrontDoor`, `Sidecar`: limits, keys and the way in.
8. `Search`: the ranking and its pages.

Left: the listings without a search term, whose order has ties; several server
processes, with local caches that nobody invalidates.
