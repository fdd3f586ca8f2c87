------------------------------- MODULE Caches -------------------------------
(***************************************************************************)
(* The caches of one server process: the answers that cache.py keeps for   *)
(* GET /categories, /tags and /prompts/featured, and the matrix of vectors *)
(* that prompt_service.py keeps for the search.  All four are filled after *)
(* a miss and emptied by the handlers of some writes, behind their commit. *)
(* The contents of an answer are abstracted to the writes that were        *)
(* committed since it was read from the database and that it lacks.        *)
(***************************************************************************)
EXTENDS Integers

CONSTANTS
  Workers,    \* threads of the pool
  Listings,   \* "categories" and "tags", whose handlers are alike
  Users,      \* rows of the users table
  Anonymous,  \* the caller of a request without a credential
  ScopeSets,  \* scopes a credential can carry
  Callers,    \* [id, scopes] of the callers of GET /prompts/featured
  MaxWrites,  \* bound on the number of committed writes
  None

\* The keys: of each listing, of the featured prompts as one viewer sees them,
\* and the module-level dictionary of vectors.
Viewers == Users \cup {Anonymous}
Keys    == Listings \cup {"vectors"} \cup Viewers

Caller == [id : Viewers, scopes : ScopeSets]

\* What a committed write did, and whose it was: "text" is a new prompt or a
\* changed text, "prompt" any other PATCH or DELETE, "counter" a view or a use,
\* "taxonomy" a POST, PATCH or DELETE of a category or a tag.
Writes == ({"text", "prompt"} \X Users) \cup {<<"counter", Anonymous>>}
          \cup ({"taxonomy"} \X Listings)

\* The writes that change the answer at a key.  Listings count links, the
\* featured prompts show counters and the names of categories and tags, and
\* the vectors of deleted prompts are dropped by the search itself.
Changes(k) ==
  IF k \in Listings THEN {wr \in Writes : wr[1] \in {"text", "prompt"} \/ wr[2] = k}
  ELSE IF k = "vectors" THEN {wr \in Writes : wr[1] = "text"}
  ELSE Writes

\* The keys that the handler of a write empties when nothing fails.
Deletes(wr) ==
  CASE wr[1] = "text"     -> {"vectors", Anonymous, wr[2]}
    [] wr[1] = "prompt"   -> {Anonymous, wr[2]}
    [] wr[1] = "taxonomy" -> {wr[2]}
    [] wr[1] = "counter"  -> {}

\* An entry: the writes it lacks; the ones of these that it may lack, because
\* they overtook its fill or because their request failed before it deleted
\* the key (a history variable, nothing depends on it); and the caller whose
\* capability flags it holds.
Entry == [lacks : SUBSET Writes, excused : SUBSET Writes, for : Callers \cup {None}]

ASSUME CachesAssumption ==
  /\ MaxWrites \in Nat
  /\ Callers \subseteq Caller
  /\ None \notin Keys /\ None \notin Entry /\ None \notin Caller /\ None \notin Writes
  /\ Anonymous \notin Users
  /\ "vectors" \notin Listings
  /\ Viewers \cap (Listings \cup {"vectors"}) = {}

VARIABLES
  redis,   \* whether REDIS_URL is set
  cache,   \* the entry at each key
  writes,  \* number of committed writes
  pc,      \* where the request of a worker stands
  caller,  \* its caller
  key,     \* the key it fills
  lacks,   \* the writes its rows lack
  write    \* the write it committed

vars == <<redis, cache, writes, pc, caller, key, lacks, write>>

PCs == {"idle", "missed", "storing", "committed", "auditing", "deleting", "deletingOwn"}

Init ==
  /\ redis  \in BOOLEAN
  /\ cache  = [k \in Keys |-> None]
  /\ writes = 0
  /\ pc     = [w \in Workers |-> "idle"]
  /\ caller = [w \in Workers |-> None]
  /\ key    = [w \in Workers |-> None]
  /\ lacks  = [w \in Workers |-> {}]
  /\ write  = [w \in Workers |-> None]

Goto(w, label) == pc' = [pc EXCEPT ![w] = label]

Respond(w) ==
  /\ Goto(w, "idle")
  /\ caller' = [caller EXCEPT ![w] = None]
  /\ key'    = [key EXCEPT ![w] = None]
  /\ lacks'  = [lacks EXCEPT ![w] = {}]
  /\ write'  = [write EXCEPT ![w] = None]
----------------------------------------------------------------------------
(* Reads.  A hit answers with the entry and changes nothing. *)

CacheKey(c) == c.id

\* cache_get finds nothing, or the dictionary of vectors is empty or too old.
Miss(w) ==
  /\ pc[w] = "idle"
  /\ \/ \E c \in Callers :
          /\ cache[CacheKey(c)] = None
          /\ caller' = [caller EXCEPT ![w] = c]
          /\ key'    = [key EXCEPT ![w] = CacheKey(c)]
     \/ \E k \in Listings \cup {"vectors"} :
          /\ cache[k] = None
          /\ caller' = caller
          /\ key'    = [key EXCEPT ![w] = k]
  /\ Goto(w, "missed")
  /\ UNCHANGED <<redis, cache, writes, lacks, write>>

\* The rows are read.
Select(w) ==
  /\ pc[w] = "missed"
  /\ Goto(w, "storing")
  /\ UNCHANGED <<redis, cache, writes, caller, key, lacks, write>>

FilledRaw(w) ==  \* mutant: the flags are left out
  [lacks |-> lacks[w], excused |-> lacks[w], for |-> None]

Filled(w) == [lacks |-> lacks[w], excused |-> lacks[w], for |-> caller[w]]

\* The answer is stored, whatever is at the key by now, and sent.
Store(w) ==
  /\ pc[w] = "storing"
  /\ cache' = [cache EXCEPT ![key[w]] = Filled(w)]
  /\ Respond(w)
  /\ UNCHANGED <<redis, writes>>

\* With Redis a listing that is not empty cannot be encoded: its created_at is
\* a datetime and json.dumps raises.  500 instead of the rows that were read.
FailStore(w) ==
  /\ pc[w] = "storing"
  /\ redis /\ key[w] \in Listings
  /\ Respond(w)
  /\ UNCHANGED <<redis, cache, writes>>

\* The TTL of an entry ran out, or the entry was evicted for lack of room.
OverNever(k) == cache[k] # None /\ k \notin Viewers  \* mutant: a key without TTL

Over(k) == cache[k] # None

Expire(k) ==
  /\ Over(k)
  /\ cache' = [cache EXCEPT ![k] = None]
  /\ UNCHANGED <<redis, writes, pc, caller, key, lacks, write>>
----------------------------------------------------------------------------
(* Writes. *)

\* A write is committed: entries and fills in flight lack it from now on.
Outdated(wr) ==
  /\ cache' = [k \in Keys |->
                 IF cache[k] # None /\ wr \in Changes(k)
                 THEN [cache[k] EXCEPT !.lacks = @ \cup {wr}, !.excused = @ \ {wr}]
                 ELSE cache[k]]
  /\ lacks' = [v \in Workers |->
                 IF pc[v] = "storing" /\ wr \in Changes(key[v])
                 THEN lacks[v] \cup {wr} ELSE lacks[v]]
  /\ writes' = writes + 1

\* GET /prompts/{id} and POST /prompts/{id}/use count and empty no key.
CommitCounter(w) ==
  /\ pc[w] = "idle"
  /\ writes < MaxWrites
  /\ Outdated(<<"counter", Anonymous>>)
  /\ UNCHANGED <<redis, pc, caller, key, write>>

CommitWrite(w) ==
  /\ pc[w] = "idle"
  /\ writes < MaxWrites
  /\ \E wr \in Writes :
       /\ wr[1] # "counter"
       /\ Outdated(wr)
       /\ write' = [write EXCEPT ![w] = wr]
  /\ Goto(w, "committed")
  /\ UNCHANGED <<redis, caller, key>>

\* _invalidate_vector_cache, in the service that committed a new text.
InvalidateVectors(w) ==
  /\ pc[w] = "committed"
  /\ cache' = IF write[w][1] = "text" THEN [cache EXCEPT !["vectors"] = None] ELSE cache
  /\ Goto(w, "auditing")
  /\ UNCHANGED <<redis, writes, caller, key, lacks, write>>

\* write_event commits.
WriteEvent(w) ==
  /\ pc[w] = "auditing"
  /\ Goto(w, "deleting")
  /\ UNCHANGED <<redis, cache, writes, caller, key, lacks, write>>

\* The key of a listing, or the first of the two of the featured prompts.
FirstKey(wr) == IF wr[1] = "taxonomy" THEN wr[2] ELSE Anonymous

OwnKeyAnonymous(wr) == Anonymous  \* mutant: the same key twice

OwnKey(wr) == wr[2]

DeleteFirst(w) ==
  /\ pc[w] = "deleting"
  /\ cache' = [cache EXCEPT ![FirstKey(write[w])] = None]
  /\ IF write[w][1] \in {"text", "prompt"}
     THEN Goto(w, "deletingOwn") /\ UNCHANGED <<caller, key, lacks, write>>
     ELSE Respond(w)
  /\ UNCHANGED <<redis, writes>>

DeleteOwn(w) ==
  /\ pc[w] = "deletingOwn"
  /\ cache' = [cache EXCEPT ![OwnKey(write[w])] = None]
  /\ Respond(w)
  /\ UNCHANGED <<redis, writes>>

\* The keys a request has yet to empty.
Pending(w) ==
  CASE pc[w] = "committed"   -> Deletes(write[w])
    [] pc[w] = "auditing"    -> Deletes(write[w]) \ {"vectors"}
    [] pc[w] = "deleting"    -> Deletes(write[w]) \ {"vectors"}
    [] pc[w] = "deletingOwn" -> {write[w][2]}
    [] OTHER                 -> {}

\* History: the entries at these keys are excused for lacking the write of w.
Excused(k, W) ==
  IF cache[k] = None THEN None
  ELSE [cache[k] EXCEPT !.excused =
          @ \cup {wr \in cache[k].lacks : \E w \in W : wr = write[w] /\ k \in Pending(w)}]

\* Reading the row again, write_event or Redis raises: 500, and the keys that are
\* left stay as they are.
FailWrite(w) ==
  /\ \/ pc[w] \in {"committed", "auditing"}
     \/ pc[w] \in {"deleting", "deletingOwn"} /\ redis
  /\ cache' = [k \in Keys |-> Excused(k, {w})]
  /\ Respond(w)
  /\ UNCHANGED <<redis, writes>>

\* The process is killed and restarted: its own caches are gone, the entries
\* in Redis are not.
Crash ==
  /\ pc # [w \in Workers |-> "idle"]
  /\ cache'  = [k \in Keys |-> IF redis /\ k # "vectors" THEN Excused(k, Workers) ELSE None]
  /\ pc'     = [w \in Workers |-> "idle"]
  /\ caller' = [w \in Workers |-> None]
  /\ key'    = [w \in Workers |-> None]
  /\ lacks'  = [w \in Workers |-> {}]
  /\ write'  = [w \in Workers |-> None]
  /\ UNCHANGED <<redis, writes>>

Step(w) ==
  \/ Miss(w) \/ Select(w) \/ Store(w) \/ FailStore(w)
  \/ CommitCounter(w) \/ CommitWrite(w)
  \/ InvalidateVectors(w) \/ WriteEvent(w) \/ DeleteFirst(w) \/ DeleteOwn(w) \/ FailWrite(w)

Next == Crash \/ (\E k \in Keys : Expire(k)) \/ (\E w \in Workers : Step(w))

\* Time passes: an entry that stays runs out of its TTL.  Nothing is assumed
\* of the requests.
Fairness == \A k \in Keys : WF_vars(Expire(k))

Spec == Init /\ [][Next]_vars /\ Fairness
----------------------------------------------------------------------------
(* Correctness. *)

\* Every variable has its type; featured prompts are kept with flags.
TypeOK ==
  /\ redis  \in BOOLEAN
  /\ cache  \in [Keys -> Entry \cup {None}]
  /\ \A k \in Viewers : cache[k] # None => cache[k].for # None
  /\ writes \in Nat
  /\ pc     \in [Workers -> PCs]
  /\ caller \in [Workers -> Callers \cup {None}]
  /\ key    \in [Workers -> Keys \cup {None}]
  /\ lacks  \in [Workers -> SUBSET Writes]
  /\ write  \in [Workers -> Writes \cup {None}]

\* A write is not overlooked: an entry that lacks a write whose handler empties
\* its key either is about to be emptied by a request that is still running, or
\* was filled from rows read before that write, or the request that made it
\* failed half-way.  Two writers and fills in any order.
WritesReachEntries ==
  \A k \in Keys :
    cache[k] # None =>
      \A wr \in cache[k].lacks \ cache[k].excused :
        k \in Deletes(wr) => \E w \in Workers : write[w] = wr /\ k \in Pending(w)

\* The featured prompts a viewer is answered with were built for that viewer.
FlagsSameUser ==
  \A c \in Callers :
    cache[CacheKey(c)] # None => cache[CacheKey(c)].for.id = c.id

\* What a viewer is answered with was built for that viewer and overlooks no write.
AnswersTrue == WritesReachEntries /\ FlagsSameUser

\* When no more is written the caches tell the truth for good: what overtook a
\* fill, what a failed request or another viewer's write left behind and what
\* no handler invalidates at all is gone when the TTL is over.
Converges == <>[](\A k \in Keys : cache[k] # None => cache[k].lacks = {})
----------------------------------------------------------------------------
(* A sentence of the documentation that the code does not keep. *)

\* ADR 0006: the flags an answer carries are those of its caller, derived from
\* ownership and from the scopes of the credential.
FlagsOwn ==
  \A c \in Callers : cache[CacheKey(c)] # None => cache[CacheKey(c)].for = c
============================================================================
