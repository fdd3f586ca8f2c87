---------------------------- MODULE CachesProofs ----------------------------
(***************************************************************************)
(* Proofs about Caches.  The inductive invariant adds to the properties    *)
(* what a request knows between two of its steps: which key it fills for   *)
(* whom, and which write it is emptying keys for.                          *)
(***************************************************************************)
EXTENDS Caches, TLAPS

USE CachesAssumption

Writing == {"committed", "auditing", "deleting", "deletingOwn"}

RequestOK ==
  \A w \in Workers :
    /\ pc[w] \in {"missed", "storing"} =>
         /\ key[w] \in Keys
         /\ key[w] \in Viewers => caller[w] \in Callers /\ caller[w].id = key[w]
         /\ key[w] \notin Viewers => caller[w] = None
    /\ pc[w] = "idle" => caller[w] = None
    /\ pc[w] \in Writing =>
         write[w] \in Writes /\ write[w][1] # "counter" /\ caller[w] = None
    /\ pc[w] = "deletingOwn" => write[w][1] \in {"text", "prompt"}

FlagsOK ==
  \A k \in Viewers :
    cache[k] # None => cache[k].for \in Callers /\ cache[k].for.id = k

IInv == TypeOK /\ RequestOK /\ FlagsOK /\ WritesReachEntries

----------------------------------------------------------------------------
(* The data. *)

\* The four kinds of writes, and whose keys they carry.
LEMMA WriteTypes ==
  ASSUME NEW wr \in Writes
  PROVE  /\ wr[1] \in {"text", "prompt", "counter", "taxonomy"}
         /\ wr[1] \in {"text", "prompt"} => wr[2] \in Users
         /\ wr[1] = "taxonomy" => wr[2] \in Listings
  BY DEF Writes

LEMMA DeletesTypes ==
  ASSUME NEW wr \in Writes
  PROVE  /\ Deletes(wr) \subseteq Keys
         /\ wr[1] = "text" => Deletes(wr) = {"vectors", Anonymous, wr[2]}
         /\ wr[1] = "prompt" => Deletes(wr) = {Anonymous, wr[2]}
         /\ wr[1] = "taxonomy" => Deletes(wr) = {wr[2]}
         /\ wr[1] = "counter" => Deletes(wr) = {}
  BY WriteTypes DEF Deletes, Keys, Viewers

\* What a commit and what a failure do to the entries: the flags stay, the
\* writes an entry lacks grow by the committed one, the excuses of a failure
\* grow by the keys that were pending.
LEMMA OutdatedEntries ==
  ASSUME TypeOK, NEW wr \in Writes, Outdated(wr), NEW k \in Keys
  PROVE  /\ cache' \in [Keys -> Entry \cup {None}]
         /\ lacks' \in [Workers -> SUBSET Writes]
         /\ cache[k] = None => cache'[k] = None
         /\ cache[k] # None => /\ cache'[k] # None
                               /\ cache'[k].for = cache[k].for
                               /\ cache'[k].lacks \ cache'[k].excused
                                    \subseteq (cache[k].lacks \ cache[k].excused) \cup {wr}
<1>1. ASSUME NEW i \in Keys
      PROVE  /\ cache'[i] \in Entry \cup {None}
             /\ cache[i] = None => cache'[i] = None
             /\ cache[i] # None => /\ cache'[i] # None
                                   /\ cache'[i].for = cache[i].for
                                   /\ cache'[i].lacks \ cache'[i].excused
                                        \subseteq (cache[i].lacks \ cache[i].excused) \cup {wr}
  <2>1. cache'[i] = IF cache[i] # None /\ wr \in Changes(i)
                    THEN [cache[i] EXCEPT !.lacks = cache[i].lacks \cup {wr},
                                          !.excused = cache[i].excused \ {wr}]
                    ELSE cache[i]
    BY DEF Outdated
  <2>2. CASE cache[i] = None
    BY <2>1, <2>2
  <2>3. CASE cache[i] # None
    <3>1. cache[i] \in Entry
      BY <2>3 DEF TypeOK
    <3>2. cache[i].lacks \cup {wr} \in SUBSET Writes /\ cache[i].excused \ {wr} \in SUBSET Writes
      BY <3>1 DEF Entry
    <3>3. PICK e \in Entry, l \in SUBSET Writes, x \in SUBSET Writes :
            /\ e = cache[i]
            /\ l = cache[i].lacks \cup {wr}
            /\ x = cache[i].excused \ {wr}
      BY <3>1, <3>2
    <3>4. /\ [e EXCEPT !.lacks = l, !.excused = x] \in Entry
          /\ [e EXCEPT !.lacks = l, !.excused = x].for = e.for
          /\ [e EXCEPT !.lacks = l, !.excused = x].lacks = l
          /\ [e EXCEPT !.lacks = l, !.excused = x].excused = x
      BY DEF Entry
    <3>5. cache'[i] = [e EXCEPT !.lacks = l, !.excused = x] \/ cache'[i] = e
      BY <2>1, <3>3
    <3>6. QED BY <2>3, <3>1, <3>3, <3>4, <3>5
  <2>4. QED BY <2>2, <2>3
<1>2. cache' \in [Keys -> Entry \cup {None}]
  BY <1>1 DEF Outdated
<1>3. lacks' \in [Workers -> SUBSET Writes]
  BY DEF Outdated, TypeOK
<1>4. QED BY <1>1, <1>2, <1>3

LEMMA ExcusedEntries ==
  ASSUME TypeOK, NEW k \in Keys, NEW W
  PROVE  /\ Excused(k, W) \in Entry \cup {None}
         /\ cache[k] = None => Excused(k, W) = None
         /\ cache[k] # None =>
              /\ Excused(k, W) # None
              /\ Excused(k, W).for = cache[k].for
              /\ Excused(k, W).lacks = cache[k].lacks
              /\ Excused(k, W).excused = cache[k].excused \cup
                   {wr \in cache[k].lacks : \E w \in W : wr = write[w] /\ k \in Pending(w)}
<1> DEFINE x == cache[k].excused \cup
                  {wr \in cache[k].lacks : \E w \in W : wr = write[w] /\ k \in Pending(w)}
<1>1. CASE cache[k] = None
  BY <1>1 DEF Excused
<1>2. CASE cache[k] # None
  <2>1. cache[k] \in Entry
    BY <1>2 DEF TypeOK
  <2>2. x \in SUBSET Writes
    BY <2>1 DEF Entry
  <2>3. Excused(k, W) = [cache[k] EXCEPT !.excused = x]
    BY <1>2 DEF Excused
  <2>4. PICK e \in Entry, y \in SUBSET Writes : e = cache[k] /\ y = x
    BY <2>1, <2>2
  <2>5. /\ [e EXCEPT !.excused = y] \in Entry
        /\ [e EXCEPT !.excused = y].for = e.for
        /\ [e EXCEPT !.excused = y].lacks = e.lacks
        /\ [e EXCEPT !.excused = y].excused = y
    BY DEF Entry
  <2>6. Excused(k, W) = [e EXCEPT !.excused = y]
    BY <2>3, <2>4
  <2>7. QED BY <1>2, <2>4, <2>5, <2>6
<1>3. QED BY <1>1, <1>2

\* A fill in flight stores an entry with the flags of its caller and with
\* every write it lacks excused.
LEMMA FilledEntries ==
  ASSUME TypeOK, RequestOK, NEW w \in Workers, pc[w] = "storing"
  PROVE  /\ Filled(w) \in Entry
         /\ Filled(w) # None
         /\ key[w] \in Keys
         /\ key[w] \in Viewers => Filled(w).for \in Callers /\ Filled(w).for.id = key[w]
         /\ Filled(w).lacks \ Filled(w).excused = {}
  BY DEF TypeOK, RequestOK, Filled, Entry

LEMMA WriterTypes ==
  ASSUME RequestOK, NEW w \in Workers, pc[w] \in Writing
  PROVE  /\ write[w] \in Writes
         /\ FirstKey(write[w]) \in Keys
         /\ pc[w] = "deletingOwn" => OwnKey(write[w]) = write[w][2] /\ write[w][2] \in Keys
         /\ write[w][1] \in {"text", "prompt", "taxonomy"}
  BY WriteTypes DEF RequestOK, FirstKey, OwnKey, Keys, Viewers

----------------------------------------------------------------------------
(* The steps. *)

LEMMA Initial == Init => IInv
  BY DEF Init, IInv, TypeOK, RequestOK, FlagsOK, WritesReachEntries, Keys, Viewers, PCs, Writing

LEMMA Typed ==
  ASSUME TypeOK, RequestOK, [Next]_vars
  PROVE  /\ redis' \in BOOLEAN /\ cache' \in [Keys -> Entry \cup {None}]
         /\ writes' \in Nat /\ pc' \in [Workers -> PCs]
         /\ caller' \in [Workers -> Callers \cup {None}]
         /\ key' \in [Workers -> Keys \cup {None}]
         /\ lacks' \in [Workers -> SUBSET Writes]
         /\ write' \in [Workers -> Writes \cup {None}]
<1> DEFINE Goal == /\ redis' \in BOOLEAN /\ cache' \in [Keys -> Entry \cup {None}]
                 /\ writes' \in Nat /\ pc' \in [Workers -> PCs]
                 /\ caller' \in [Workers -> Callers \cup {None}]
                 /\ key' \in [Workers -> Keys \cup {None}]
                 /\ lacks' \in [Workers -> SUBSET Writes]
                 /\ write' \in [Workers -> Writes \cup {None}]
<1>1. ASSUME NEW w \in Workers, Miss(w) PROVE Goal
  BY <1>1 DEF Miss, CacheKey, Keys, Caller, Goto, PCs, TypeOK
<1>2. ASSUME NEW w \in Workers, Select(w) PROVE Goal
  BY <1>2 DEF Select, Goto, PCs, TypeOK
<1>3. ASSUME NEW w \in Workers, Store(w) PROVE Goal
  BY <1>3, FilledEntries DEF Store, Respond, Goto, PCs, TypeOK
<1>4. ASSUME NEW w \in Workers, FailStore(w) PROVE Goal
  BY <1>4 DEF FailStore, Respond, Goto, PCs, TypeOK
<1>5. ASSUME NEW w \in Workers, CommitCounter(w) PROVE Goal
  <2>1. <<"counter", Anonymous>> \in Writes
    BY DEF Writes
  <2>2. cache' \in [Keys -> Entry \cup {None}] /\ lacks' \in [Workers -> SUBSET Writes]
    BY <1>5, <2>1, OutdatedEntries DEF CommitCounter, Keys
  <2>3. writes' = writes + 1
    BY <1>5 DEF CommitCounter, Outdated
  <2>4. QED BY <1>5, <2>2, <2>3 DEF CommitCounter, TypeOK
<1>6. ASSUME NEW w \in Workers, CommitWrite(w) PROVE Goal
  <2>1. PICK wr \in Writes : Outdated(wr) /\ write' = [write EXCEPT ![w] = wr]
    BY <1>6 DEF CommitWrite
  <2>2. cache' \in [Keys -> Entry \cup {None}] /\ lacks' \in [Workers -> SUBSET Writes]
    BY <2>1, OutdatedEntries DEF Keys
  <2>3. writes' = writes + 1
    BY <2>1 DEF Outdated
  <2>4. write' \in [Workers -> Writes \cup {None}]
    BY <2>1 DEF TypeOK
  <2>5. pc' \in [Workers -> PCs]
    BY <1>6 DEF CommitWrite, Goto, PCs, TypeOK
  <2>6. redis' = redis /\ caller' = caller /\ key' = key
    BY <1>6 DEF CommitWrite
  <2>7. QED BY <2>2, <2>3, <2>4, <2>5, <2>6 DEF TypeOK
<1>7. ASSUME NEW w \in Workers, InvalidateVectors(w) PROVE Goal
  BY <1>7 DEF InvalidateVectors, Goto, PCs, TypeOK
<1>8. ASSUME NEW w \in Workers, WriteEvent(w) PROVE Goal
  BY <1>8 DEF WriteEvent, Goto, PCs, TypeOK
<1>9. ASSUME NEW w \in Workers, DeleteFirst(w) PROVE Goal
  BY <1>9, WriterTypes DEF DeleteFirst, Respond, Writing, Goto, PCs, TypeOK
<1>10. ASSUME NEW w \in Workers, DeleteOwn(w) PROVE Goal
  BY <1>10, WriterTypes DEF DeleteOwn, Respond, Writing, Goto, PCs, TypeOK
<1>11. ASSUME NEW w \in Workers, FailWrite(w) PROVE Goal
  BY <1>11, ExcusedEntries DEF FailWrite, Respond, Goto, PCs, TypeOK
<1>12. ASSUME NEW k \in Keys, Expire(k) PROVE Goal
  BY <1>12 DEF Expire, TypeOK
<1>13. CASE Crash
  BY <1>13, ExcusedEntries DEF Crash, PCs, TypeOK
<1>14. CASE UNCHANGED vars
  BY <1>14 DEF vars, TypeOK
<1>15. QED BY <1>1, <1>2, <1>3, <1>4, <1>5, <1>6, <1>7, <1>8, <1>9, <1>10, <1>11, <1>12, <1>13, <1>14 DEF Next, Step

\* A request fills the key of its own caller and empties keys for its own write.
LEMMA Requests ==
  ASSUME TypeOK, RequestOK, [Next]_vars
  PROVE  RequestOK'
<1>1. ASSUME NEW w \in Workers, Miss(w) PROVE RequestOK'
  BY <1>1, CachesAssumption DEF Miss, CacheKey, Keys, Viewers, Caller, Goto, RequestOK, Writing, TypeOK
<1>2. ASSUME NEW w \in Workers, Select(w) PROVE RequestOK'
  BY <1>2 DEF Select, Goto, RequestOK, Writing, TypeOK
<1>3. ASSUME NEW w \in Workers, Store(w) PROVE RequestOK'
  BY <1>3 DEF Store, Respond, Goto, RequestOK, Writing, TypeOK
<1>4. ASSUME NEW w \in Workers, FailStore(w) PROVE RequestOK'
  BY <1>4 DEF FailStore, Respond, Goto, RequestOK, Writing, TypeOK
<1>5. ASSUME NEW w \in Workers, CommitCounter(w) PROVE RequestOK'
  BY <1>5 DEF CommitCounter, Goto, RequestOK, Writing, TypeOK
<1>6. ASSUME NEW w \in Workers, CommitWrite(w) PROVE RequestOK'
  BY <1>6 DEF CommitWrite, Goto, RequestOK, Writing, TypeOK
<1>7. ASSUME NEW w \in Workers, InvalidateVectors(w) PROVE RequestOK'
  BY <1>7 DEF InvalidateVectors, Goto, RequestOK, Writing, TypeOK
<1>8. ASSUME NEW w \in Workers, WriteEvent(w) PROVE RequestOK'
  BY <1>8 DEF WriteEvent, Goto, RequestOK, Writing, TypeOK
<1>9. ASSUME NEW w \in Workers, DeleteFirst(w) PROVE RequestOK'
  BY <1>9 DEF DeleteFirst, Respond, Goto, RequestOK, Writing, TypeOK
<1>10. ASSUME NEW w \in Workers, DeleteOwn(w) PROVE RequestOK'
  BY <1>10 DEF DeleteOwn, Respond, Goto, RequestOK, Writing, TypeOK
<1>11. ASSUME NEW w \in Workers, FailWrite(w) PROVE RequestOK'
  BY <1>11 DEF FailWrite, Respond, Goto, RequestOK, Writing, TypeOK
<1>12. ASSUME NEW k \in Keys, Expire(k) PROVE RequestOK'
  BY <1>12 DEF Expire, RequestOK
<1>13. CASE Crash
  BY <1>13 DEF Crash, RequestOK, Writing
<1>14. CASE UNCHANGED vars
  BY <1>14 DEF vars, RequestOK
<1>15. QED BY <1>1, <1>2, <1>3, <1>4, <1>5, <1>6, <1>7, <1>8, <1>9, <1>10, <1>11, <1>12, <1>13, <1>14 DEF Next, Step

\* What is kept at the key of a viewer has the flags of that viewer.
LEMMA Flags ==
  ASSUME TypeOK, RequestOK, FlagsOK, [Next]_vars
  PROVE  FlagsOK'
<1>1. ASSUME NEW w \in Workers, Miss(w) PROVE FlagsOK'
  BY <1>1 DEF Miss, FlagsOK
<1>2. ASSUME NEW w \in Workers, Select(w) PROVE FlagsOK'
  BY <1>2 DEF Select, FlagsOK
<1>3. ASSUME NEW w \in Workers, Store(w) PROVE FlagsOK'
  <2>1. cache' = [cache EXCEPT ![key[w]] = Filled(w)] /\ pc[w] = "storing"
    BY <1>3 DEF Store
  <2>2. QED BY <2>1, FilledEntries DEF FlagsOK, TypeOK
<1>4. ASSUME NEW w \in Workers, FailStore(w) PROVE FlagsOK'
  BY <1>4 DEF FailStore, FlagsOK
<1>5. ASSUME NEW w \in Workers, CommitCounter(w) PROVE FlagsOK'
  <2>1. <<"counter", Anonymous>> \in Writes /\ Outdated(<<"counter", Anonymous>>)
    BY <1>5 DEF CommitCounter, Writes
  <2>2. QED BY <2>1, OutdatedEntries DEF FlagsOK, Keys
<1>6. ASSUME NEW w \in Workers, CommitWrite(w) PROVE FlagsOK'
  <2>1. PICK wr \in Writes : Outdated(wr)
    BY <1>6 DEF CommitWrite
  <2>2. QED BY <2>1, OutdatedEntries DEF FlagsOK, Keys
<1>7. ASSUME NEW w \in Workers, InvalidateVectors(w) PROVE FlagsOK'
  BY <1>7 DEF InvalidateVectors, FlagsOK, TypeOK, Keys
<1>8. ASSUME NEW w \in Workers, WriteEvent(w) PROVE FlagsOK'
  BY <1>8 DEF WriteEvent, FlagsOK
<1>9. ASSUME NEW w \in Workers, DeleteFirst(w) PROVE FlagsOK'
  BY <1>9 DEF DeleteFirst, FlagsOK, TypeOK, Keys
<1>10. ASSUME NEW w \in Workers, DeleteOwn(w) PROVE FlagsOK'
  BY <1>10 DEF DeleteOwn, FlagsOK, TypeOK, Keys
<1>11. ASSUME NEW w \in Workers, FailWrite(w) PROVE FlagsOK'
  <2>1. \A k \in Keys : cache'[k] = Excused(k, {w})
    BY <1>11 DEF FailWrite
  <2>2. QED BY <2>1, ExcusedEntries DEF FlagsOK, Keys
<1>12. ASSUME NEW k \in Keys, Expire(k) PROVE FlagsOK'
  BY <1>12 DEF Expire, FlagsOK, TypeOK, Keys
<1>13. CASE Crash
  <2>1. \A k \in Keys : cache'[k] = None \/ cache'[k] = Excused(k, Workers)
    BY <1>13 DEF Crash
  <2>2. QED BY <2>1, ExcusedEntries DEF FlagsOK, Keys
<1>14. CASE UNCHANGED vars
  BY <1>14 DEF vars, FlagsOK
<1>15. QED BY <1>1, <1>2, <1>3, <1>4, <1>5, <1>6, <1>7, <1>8, <1>9, <1>10, <1>11, <1>12, <1>13, <1>14 DEF Next, Step

\* The entry at a key k lacks a write wr whose handler empties k: some request
\* still has k to empty for it.
LEMMA Reached ==
  ASSUME TypeOK, RequestOK, WritesReachEntries, [Next]_vars, TypeOK'
  PROVE  WritesReachEntries'
<1> SUFFICES ASSUME NEW k \in Keys, cache'[k] # None,
                    NEW wr \in cache'[k].lacks \ cache'[k].excused, k \in Deletes(wr)
             PROVE  \E v \in Workers : write'[v] = wr /\ k \in Pending(v)'
  BY DEF WritesReachEntries
<1> DEFINE Emptied(v) == write[v] = wr /\ k \in Pending(v)
           Goal == \E v \in Workers : write'[v] = wr /\ k \in Pending(v)'
<1>1. wr \in Writes
  BY DEF TypeOK, Entry
<1>2. ASSUME cache[k] # None, wr \in cache[k].lacks \ cache[k].excused
      PROVE  \E v \in Workers : Emptied(v)
  BY <1>2 DEF WritesReachEntries
<1>3. ASSUME NEW v \in Workers, pc'[v] = pc[v], write'[v] = write[v]
      PROVE  Pending(v)' = Pending(v)
  BY <1>3 DEF Pending
<1>4. ASSUME NEW v \in Workers, pc[v] \notin Writing
      PROVE  Pending(v) = {}
  BY <1>4 DEF Pending, Writing
<1>5. ASSUME NEW w \in Workers, pc[w] \notin Writing, pc' = [pc EXCEPT ![w] = pc'[w]],
             \A v \in Workers \ {w} : write'[v] = write[v],
             cache[k] # None, wr \in cache[k].lacks \ cache[k].excused
      PROVE  Goal
  <2>1. PICK v \in Workers : Emptied(v)
    BY <1>5, <1>2
  <2>2. v # w
    BY <2>1, <1>4, <1>5
  <2>3. pc'[v] = pc[v] /\ write'[v] = write[v]
    BY <2>2, <1>5 DEF TypeOK
  <2>4. QED BY <2>1, <2>3, <1>3
<1>6. ASSUME NEW w \in Workers, Miss(w) PROVE Goal
  BY <1>6, <1>5 DEF Miss, Goto, Writing, TypeOK
<1>7. ASSUME NEW w \in Workers, Select(w) PROVE Goal
  BY <1>7, <1>5 DEF Select, Goto, Writing, TypeOK
<1>8. ASSUME NEW w \in Workers, Store(w) PROVE Goal
  <2>1. key[w] # k
    BY <1>8, FilledEntries DEF Store, TypeOK
  <2>2. cache'[k] = cache[k]
    BY <2>1, <1>8 DEF Store, TypeOK
  <2>3. QED BY <2>2, <1>8, <1>5 DEF Store, Respond, Goto, Writing, TypeOK
<1>9. ASSUME NEW w \in Workers, FailStore(w) PROVE Goal
  BY <1>9, <1>5 DEF FailStore, Respond, Goto, Writing, TypeOK
<1>10. ASSUME NEW w \in Workers, CommitCounter(w) PROVE Goal
  <2>1. <<"counter", Anonymous>> \in Writes /\ Outdated(<<"counter", Anonymous>>)
    BY <1>10 DEF CommitCounter, Writes
  <2>2. wr[1] # "counter"
    BY <1>1, DeletesTypes
  <2>3. cache[k] # None /\ wr \in cache[k].lacks \ cache[k].excused
    BY <2>1, <2>2, OutdatedEntries
  <2>4. PICK v \in Workers : Emptied(v)
    BY <2>3, <1>2
  <2>5. QED BY <2>4, <1>10, <1>3 DEF CommitCounter
<1>11. ASSUME NEW w \in Workers, CommitWrite(w) PROVE Goal
  <2>1. PICK new \in Writes : Outdated(new) /\ write' = [write EXCEPT ![w] = new]
    BY <1>11 DEF CommitWrite
  <2>2. cache[k] # None /\ wr \in (cache[k].lacks \ cache[k].excused) \cup {new}
    BY <2>1, OutdatedEntries
  <2>3. CASE wr = new
    BY <2>1, <2>3, <1>11 DEF CommitWrite, Goto, Pending, TypeOK
  <2>4. CASE wr # new
    BY <2>1, <2>2, <2>4, <1>11, <1>5 DEF CommitWrite, Goto, Writing, TypeOK
  <2>5. QED BY <2>3, <2>4
<1>12. ASSUME NEW w \in Workers, InvalidateVectors(w) PROVE Goal
  <2>1. cache'[k] = cache[k] /\ (k = "vectors" => write[w][1] # "text")
    BY <1>12 DEF InvalidateVectors, TypeOK
  <2>2. PICK v \in Workers : Emptied(v)
    BY <2>1, <1>2
  <2>3. CASE v = w
    <3>1. k # "vectors"
      BY <2>1, <2>2, <2>3, <1>1, DeletesTypes, WriteTypes, CachesAssumption DEF Viewers
    <3>2. QED BY <3>1, <2>2, <2>3, <1>12 DEF InvalidateVectors, Goto, Pending, TypeOK
  <2>4. CASE v # w
    BY <2>2, <2>4, <1>3, <1>12 DEF InvalidateVectors, Goto, TypeOK
  <2>5. QED BY <2>3, <2>4
<1>13. ASSUME NEW w \in Workers, WriteEvent(w) PROVE Goal
  <2>1. PICK v \in Workers : Emptied(v)
    BY <1>2, <1>13 DEF WriteEvent
  <2>2. CASE v = w
    BY <2>1, <2>2, <1>13 DEF WriteEvent, Goto, Pending, TypeOK
  <2>3. CASE v # w
    BY <2>1, <2>3, <1>3, <1>13 DEF WriteEvent, Goto, TypeOK
  <2>4. QED BY <2>2, <2>3
<1>14. ASSUME NEW w \in Workers, DeleteFirst(w) PROVE Goal
  <2>1. k # FirstKey(write[w]) /\ cache'[k] = cache[k]
    BY <1>14 DEF DeleteFirst, TypeOK
  <2>2. PICK v \in Workers : Emptied(v)
    BY <2>1, <1>2
  <2>3. CASE v = w
    <3>1. k \in Deletes(wr) \ {"vectors"} /\ k # FirstKey(wr) /\ write[w] = wr
      BY <2>1, <2>2, <2>3, <1>14 DEF DeleteFirst, Pending
    <3>2. wr[1] \in {"text", "prompt"} /\ k = wr[2]
      BY <3>1, <1>1, DeletesTypes, WriteTypes DEF FirstKey
    <3>3. pc'[w] = "deletingOwn" /\ write'[w] = wr
      BY <3>1, <3>2, <1>14 DEF DeleteFirst, Goto, TypeOK
    <3>4. QED BY <3>2, <3>3 DEF Pending
  <2>4. CASE v # w
    BY <2>2, <2>4, <1>3, <1>14 DEF DeleteFirst, Respond, Goto, TypeOK
  <2>5. QED BY <2>3, <2>4
<1>15. ASSUME NEW w \in Workers, DeleteOwn(w) PROVE Goal
  <2>1. k # write[w][2] /\ cache'[k] = cache[k]
    BY <1>15 DEF DeleteOwn, OwnKey, TypeOK
  <2>2. PICK v \in Workers : Emptied(v)
    BY <2>1, <1>2
  <2>3. v # w
    BY <2>1, <2>2, <1>15 DEF DeleteOwn, Pending
  <2>4. QED BY <2>2, <2>3, <1>3, <1>15 DEF DeleteOwn, Respond, Goto, TypeOK
<1>16. ASSUME NEW w \in Workers, FailWrite(w) PROVE Goal
  <2>1. cache'[k] = Excused(k, {w})
    BY <1>16 DEF FailWrite
  <2>2. /\ cache[k] # None /\ wr \in cache[k].lacks \ cache[k].excused
        /\ ~Emptied(w)
    BY <2>1, ExcusedEntries
  <2>3. PICK v \in Workers : Emptied(v)
    BY <2>2, <1>2
  <2>4. QED BY <2>2, <2>3, <1>3, <1>16 DEF FailWrite, Respond, Goto, TypeOK
<1>17. ASSUME NEW i \in Keys, Expire(i) PROVE Goal
  <2>1. cache'[k] = cache[k]
    BY <1>17 DEF Expire, TypeOK
  <2>2. PICK v \in Workers : Emptied(v)
    BY <2>1, <1>2
  <2>3. QED BY <2>2, <1>3, <1>17 DEF Expire
<1>18. CASE Crash
  <2>1. cache'[k] = Excused(k, Workers)
    BY <1>18 DEF Crash
  <2>2. /\ cache[k] # None /\ wr \in cache[k].lacks \ cache[k].excused
        /\ \A v \in Workers : ~Emptied(v)
    BY <2>1, ExcusedEntries
  <2>3. QED BY <2>2, <1>2
<1>19. CASE UNCHANGED vars
  <2>1. PICK v \in Workers : Emptied(v)
    BY <1>2, <1>19 DEF vars
  <2>2. QED BY <2>1, <1>3, <1>19 DEF vars
<1>20. QED
  BY <1>6, <1>7, <1>8, <1>9, <1>10, <1>11, <1>12, <1>13, <1>14, <1>15, <1>16, <1>17,
     <1>18, <1>19 DEF Next, Step
----------------------------------------------------------------------------
(* The theorems. *)

LEMMA Inductive == IInv /\ [Next]_vars => IInv'
<1> SUFFICES ASSUME IInv, [Next]_vars PROVE IInv'
  OBVIOUS
<1>1. TypeOK /\ RequestOK /\ FlagsOK /\ WritesReachEntries
  BY DEF IInv
<1>2. RequestOK' /\ FlagsOK'
  BY <1>1, Requests, Flags
<1>3. TypeOK'
  BY <1>1, <1>2, Typed, CachesAssumption DEF TypeOK, FlagsOK, Caller
<1>4. QED BY <1>1, <1>2, <1>3, Reached DEF IInv

LEMMA Invariance == Spec => []IInv
  BY Initial, Inductive, PTL DEF Spec

\* Every variable keeps its type, and featured prompts are kept with flags.
THEOREM CachesTypeCorrect == Spec => []TypeOK
  BY Invariance, PTL DEF IInv

\* However fills and writes interleave, an entry misses a write that empties
\* its key only while that write is still emptying, or if it overtook the fill
\* or failed.
THEOREM WritesAreNotOverlooked == Spec => []WritesReachEntries
  BY Invariance, PTL DEF IInv

\* The capability flags a viewer gets from the cache were built for the same user.
THEOREM FlagsAreKeyed == Spec => []FlagsSameUser
<1>1. IInv => FlagsSameUser
  BY CachesAssumption DEF IInv, FlagsOK, FlagsSameUser, CacheKey, Caller
<1>2. QED BY <1>1, Invariance, PTL

\* No entry overlooks a write or holds the flags of another viewer.
THEOREM AnswersAreTrue == Spec => []AnswersTrue
BY WritesAreNotOverlooked, FlagsAreKeyed, PTL DEF AnswersTrue
============================================================================
