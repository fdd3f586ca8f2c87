--------------------------- MODULE ScriptsProofs ---------------------------
(***************************************************************************)
(* Proofs about the two scripts.  Of Reembed: what the script has read of  *)
(* a row is what the row still is, unless the row is in overlapped; so a   *)
(* commit leaves the vector of the text it stores.  Of Import: what a run  *)
(* has listed it has copied, or has yet to, or counted as a failure.       *)
(***************************************************************************)
EXTENDS Reembed, Import, TLAPS

----------------------------------------------------------------------------
(* Reembed *)

Working == script.stage = "running"

\* The session holds one update of each row it has read, as the row was then.
SessionTrue ==
  /\ script.read \subseteq script.batch /\ script.batch \subseteq script.todo
  /\ script.todo \subseteq DOMAIN stored
  /\ ~Working => script.batch = {}
  /\ \A u \in script.updates : /\ u.id \in script.read
                               /\ u.was # NoVector => stored[u.id].vector # NoVector
  /\ \A u, v \in script.updates : u.id = v.id => u = v
  /\ \A i \in script.read \cap Undeleted : \E u \in script.updates : u.id = i

\* With --all semantics an update is still right for a row that did not overlap.
UpdatesCurrent == \A u \in script.updates :
  script.mode = "all" /\ u.id \in Undeleted \ overlapped =>
    /\ u.was = stored[u.id].vector
    /\ u.vector = Embedded(stored[u.id].text)

\* A PATCH under way holds the vector that the row has, unless the script wrote it.
EditCurrent == edit # NoVector =>
  /\ edit.id \in DOMAIN stored
  /\ ~edit.crossed => edit.was = stored[edit.id].vector

\* What the script has behind it is done.
BehindDone == script.stage # "failed" => \A i \in Undeleted \ script.todo :
  /\ (script.mode = "all" /\ i \notin overlapped) => stored[i].vector = Embedded(stored[i].text)
  /\ script.mode = "only_missing" => stored[i].vector # NoVector

AllBehind == script.stage = "done" => script.todo = {}

RInv == ReembedTypeOK /\ SessionTrue /\ UpdatesCurrent /\ EditCurrent /\ BehindDone /\ AllBehind

LEMMA VectorsExist == ASSUME NEW text \in Contents
                      PROVE  Embedded(text) \in Vector /\ Embedded(text) # NoVector
  BY ReembedAssumption DEF Embedded, Vector

\* A table is typed by its rows.
LEMMA RowsOfTable ==
  ASSUME ReembedTypeOK
  PROVE  /\ DOMAIN stored \subseteq Ids
         /\ \A i \in DOMAIN stored : stored[i] \in StoredRow
         /\ stored = [i \in DOMAIN stored |-> stored[i]]
  BY DEF ReembedTypeOK

LEMMA ReembedInitially == ReembedInit => RInv
<1> SUFFICES ASSUME ReembedInit PROVE RInv
  OBVIOUS
<1>1. script \in Script
  BY DEF ReembedInit, Script
<1>2. ReembedTypeOK
  BY <1>1, ReembedAssumption DEF ReembedInit, ReembedTypeOK
<1>3. QED
  BY <1>2 DEF RInv, ReembedInit, SessionTrue, UpdatesCurrent, EditCurrent, BehindDone, AllBehind,
     Working

LEMMA StartKeeps == ASSUME RInv, StartReembed PROVE RInv'
<1>1. PICK mode \in {"all", "only_missing", "dry_run"} :
        script' = [stage |-> "running", mode |-> mode, batch |-> {}, read |-> {}, updates |-> {},
                   todo |-> {i \in Undeleted : mode = "only_missing" => stored[i].vector = NoVector}]
  BY DEF StartReembed
<1>2. Undeleted \subseteq DOMAIN stored /\ DOMAIN stored \subseteq Ids
  BY RowsOfTable DEF Undeleted, RInv
<1>3. /\ script'.stage = "running" /\ script'.mode = mode /\ script'.batch = {}
      /\ script'.read = {} /\ script'.updates = {}
      /\ script'.todo = {i \in Undeleted : mode = "only_missing" => stored[i].vector = NoVector}
  BY <1>1
<1>4. script' \in Script
  BY <1>1, <1>2 DEF Script
<1>5. UNCHANGED <<stored, edit, revisions, overlapped>>
  BY DEF StartReembed
<1>6. ReembedTypeOK' /\ EditCurrent'
  BY <1>4, <1>5 DEF RInv, ReembedTypeOK, EditCurrent
<1>7. SessionTrue' /\ UpdatesCurrent' /\ AllBehind'
  BY <1>2, <1>3, <1>5 DEF SessionTrue, UpdatesCurrent, AllBehind, Working
<1>8. BehindDone'
  BY <1>3, <1>5 DEF BehindDone, Undeleted
<1>9. QED
  BY <1>6, <1>7, <1>8 DEF RInv

\* While no batch is open the session holds nothing.
LEMMA NothingHeld == ASSUME RInv, script.batch = {} PROVE script.read = {} /\ script.updates = {}
  BY DEF RInv, SessionTrue

LEMMA BeginKeeps == ASSUME RInv, BeginBatch PROVE RInv'
<1>1. script \in Script /\ script.read = {} /\ script.updates = {}
  BY NothingHeld DEF RInv, ReembedTypeOK, BeginBatch
<1>2. FirstOf(script.todo) \subseteq script.todo
  BY DEF FirstOf
<1>3. /\ script'.stage = script.stage /\ script'.mode = script.mode
      /\ script'.todo = script.todo /\ script'.batch = FirstOf(script.todo)
      /\ script'.read = {} /\ script'.updates = {}
      /\ script' \in Script
  BY <1>1, <1>2 DEF BeginBatch, Script
<1>4. /\ UNCHANGED <<stored, edit, revisions, overlapped>>
      /\ script.stage = "running"
  BY DEF BeginBatch
<1>5. ReembedTypeOK' /\ EditCurrent'
  BY <1>3, <1>4 DEF RInv, ReembedTypeOK, EditCurrent
<1>6. SessionTrue' /\ UpdatesCurrent' /\ AllBehind'
  BY <1>2, <1>3, <1>4 DEF RInv, SessionTrue, UpdatesCurrent, AllBehind, Working
<1>7. BehindDone'
  BY <1>3, <1>4 DEF RInv, BehindDone, Undeleted
<1>8. QED
  BY <1>5, <1>6, <1>7 DEF RInv

LEMMA ReadKeeps == ASSUME RInv, ReadRow PROVE RInv'
<1>1. PICK i \in script.batch \ script.read :
        /\ script' = [script EXCEPT !.read = script.read \cup {i},
                        !.updates = IF i \notin Undeleted THEN script.updates
                                    ELSE script.updates \cup {[id |-> i, was |-> stored[i].vector,
                                                          vector |-> Embedded(stored[i].text)]}]
        /\ overlapped' = IF script.mode = "all" THEN overlapped \ {i} ELSE overlapped
  BY DEF ReadRow
<1> DEFINE new == [id |-> i, was |-> stored[i].vector, vector |-> Embedded(stored[i].text)]
<1>2. UNCHANGED <<stored, edit, revisions>> /\ Undeleted' = Undeleted
  BY DEF ReadRow, Undeleted
<1>3. script \in Script /\ i \in script.todo /\ i \in DOMAIN stored /\ i \in Ids /\ Working
  BY RowsOfTable DEF RInv, SessionTrue, ReembedTypeOK
<1>4. stored[i] \in StoredRow
  BY <1>3, RowsOfTable DEF RInv
<1>5. new \in [id : Ids, was : Vector \cup {NoVector}, vector : Vector]
  BY <1>3, <1>4, VectorsExist DEF StoredRow
<1>6. /\ script'.stage = script.stage /\ script'.mode = script.mode
      /\ script'.todo = script.todo /\ script'.batch = script.batch
      /\ script'.read = script.read \cup {i}
      /\ script'.updates = IF i \notin Undeleted THEN script.updates ELSE script.updates \cup {new}
  BY <1>1, <1>3 DEF Script
<1>7. script' \in Script
  <2>1. script.read \cup {i} \in SUBSET Ids
    BY <1>3 DEF Script
  <2>2. (IF i \notin Undeleted THEN script.updates ELSE script.updates \cup {new})
          \in SUBSET [id : Ids, was : Vector \cup {NoVector}, vector : Vector]
    BY <1>3, <1>5 DEF Script
  <2> HIDE DEF new
  <2>3. script' = [script EXCEPT !.read = script.read \cup {i},
                     !.updates = IF i \notin Undeleted THEN script.updates
                                 ELSE script.updates \cup {new}]
    BY <1>1 DEF new
  <2>4. QED
    BY <1>3, <2>1, <2>2, <2>3 DEF Script
<1>8. ReembedTypeOK' /\ EditCurrent' /\ AllBehind'
  BY <1>1, <1>2, <1>6, <1>7 DEF RInv, ReembedTypeOK, EditCurrent, AllBehind
<1>9. \A u \in script.updates : u.id # i
  BY <1>1 DEF RInv, SessionTrue
<1>10. new.id = i /\ new.was = stored[i].vector /\ new.vector = Embedded(stored[i].text)
  OBVIOUS
<1> HIDE DEF new
<1>11. SessionTrue'
  BY <1>1, <1>2, <1>3, <1>6, <1>9, <1>10 DEF RInv, SessionTrue, Working
<1>12. UpdatesCurrent'
  BY <1>1, <1>2, <1>6, <1>9, <1>10 DEF RInv, UpdatesCurrent
<1>13. BehindDone'
  BY <1>1, <1>2, <1>3, <1>6 DEF RInv, BehindDone
<1>14. QED
  BY <1>8, <1>11, <1>12, <1>13 DEF RInv

\* What a commit does to one row.
LEMMA Commits ==
  ASSUME RInv, CommitBatch, NEW k \in DOMAIN stored
  PROVE  /\ k \in DOMAIN stored' /\ stored'[k].text = stored[k].text
         /\ stored'[k].deleted = stored[k].deleted /\ stored'[k] \in StoredRow
         /\ \A u \in Sent : u.id = k => stored'[k].vector = u.vector
         /\ (\A u \in Sent : u.id # k) => stored'[k] = stored[k]
<1>1. /\ k \in DOMAIN stored'
      /\ stored'[k] = IF \E u \in Sent : u.id = k
                      THEN [stored[k] EXCEPT !.vector = (CHOOSE u \in Sent : u.id = k).vector]
                      ELSE stored[k]
  BY DEF CommitBatch
<1>2. stored[k] \in StoredRow
  BY RowsOfTable DEF RInv
<1>3. CASE \E u \in Sent : u.id = k
  <2> DEFINE w == CHOOSE u \in Sent : u.id = k
  <2>1. w \in Sent /\ w.id = k
    BY <1>3
  <2> HIDE DEF w
  <2>2. Sent \subseteq script.updates
    BY DEF Sent
  <2>3. \A u \in Sent : u.id = k => u = w
    BY <2>1, <2>2 DEF RInv, SessionTrue
  <2>4. w.vector \in Vector
    BY <2>1, <2>2 DEF RInv, ReembedTypeOK, Script
  <2>5. stored'[k] = [stored[k] EXCEPT !.vector = w.vector]
    BY <1>1, <1>3 DEF w
  <2>6. QED
    BY <1>1, <1>2, <2>1, <2>3, <2>4, <2>5 DEF StoredRow
<1>4. CASE \A u \in Sent : u.id # k
  BY <1>1, <1>2, <1>4
<1>5. QED
  BY <1>3, <1>4

LEMMA CommitKeeps == ASSUME RInv, CommitBatch PROVE RInv'
<1>1. /\ script \in Script /\ script.read = script.batch /\ Working
      /\ script.batch \subseteq script.todo /\ script.todo \subseteq DOMAIN stored
  BY DEF RInv, ReembedTypeOK, SessionTrue, CommitBatch
<1>2. /\ script'.stage = script.stage /\ script'.mode = script.mode
      /\ script'.todo = script.todo \ script.batch
      /\ script'.batch = {} /\ script'.read = {} /\ script'.updates = {}
      /\ script' \in Script
  BY <1>1 DEF CommitBatch, Script
<1>3. DOMAIN stored' = DOMAIN stored /\ Undeleted' = Undeleted
  <2>1. DOMAIN stored' = DOMAIN stored
    BY DEF CommitBatch
  <2>2. QED
    BY <2>1, Commits DEF Undeleted
<1>4. UNCHANGED <<revisions, overlapped>>
  BY DEF CommitBatch
<1>5. \E I \in SUBSET Ids : stored' \in [I -> StoredRow]
  <2>1. stored' = [k \in DOMAIN stored |-> stored'[k]]
    BY DEF CommitBatch
  <2>2. DOMAIN stored \in SUBSET Ids
    BY RowsOfTable DEF RInv
  <2>3. QED
    BY <2>1, <2>2, Commits
<1>6. \/ edit' = edit /\ (edit # NoVector => \A u \in Sent : u.id # edit.id)
      \/ edit # NoVector /\ edit' = [edit EXCEPT !.crossed = TRUE]
  BY DEF CommitBatch
<1>7. edit' \in Edit \cup {NoVector}
  BY <1>6 DEF RInv, ReembedTypeOK, Edit
<1>8. ReembedTypeOK'
  BY <1>2, <1>4, <1>5, <1>7 DEF RInv, ReembedTypeOK
<1>9. EditCurrent'
  <2>1. CASE edit' = edit /\ (edit # NoVector => \A u \in Sent : u.id # edit.id)
    BY <1>3, <2>1, Commits DEF RInv, EditCurrent
  <2>2. CASE edit # NoVector /\ edit' = [edit EXCEPT !.crossed = TRUE]
    <3>1. edit \in Edit /\ edit.id \in DOMAIN stored
      BY <2>2 DEF RInv, ReembedTypeOK, EditCurrent
    <3>2. edit'.id = edit.id /\ edit'.crossed = TRUE
      BY <2>2, <3>1 DEF Edit
    <3>3. QED
      BY <1>3, <3>1, <3>2 DEF EditCurrent
  <2>3. QED
    BY <1>6, <2>1, <2>2
<1>10. SessionTrue' /\ UpdatesCurrent' /\ AllBehind'
  BY <1>1, <1>2, <1>3 DEF RInv, SessionTrue, UpdatesCurrent, AllBehind, Working
<1>11. BehindDone'
  <2>1. SUFFICES ASSUME NEW k \in Undeleted, k \notin script.todo \ script.batch
        PROVE  /\ (script.mode = "all" /\ k \notin overlapped) =>
                    stored'[k].vector = Embedded(stored'[k].text)
               /\ script.mode = "only_missing" => stored'[k].vector # NoVector
    BY <1>2, <1>3, <1>4 DEF BehindDone
  <2>2. k \in DOMAIN stored
    BY DEF Undeleted
  <2>3. CASE k \notin script.todo
    <3>1. \A u \in Sent : u.id # k
      BY <1>1, <2>3 DEF RInv, SessionTrue, Sent
    <3>2. stored'[k] = stored[k]
      BY <2>2, <3>1, Commits
    <3>3. QED
      BY <1>1, <2>3, <3>2 DEF RInv, BehindDone, Working
  <2>4. CASE k \in script.batch /\ script.mode # "dry_run"
    <3>1. PICK u \in script.updates : u.id = k
      BY <1>1, <2>4 DEF RInv, SessionTrue
    <3>2. u.vector \in Vector /\ u.vector # NoVector
      BY ReembedAssumption DEF RInv, ReembedTypeOK, Script, Vector
    <3>3. CASE u \in Sent
      <4>1. stored'[k].vector = u.vector /\ stored'[k].text = stored[k].text
        BY <2>2, <3>1, <3>3, Commits
      <4>2. QED
        BY <3>1, <3>2, <4>1 DEF RInv, UpdatesCurrent
    <3>4. CASE u \notin Sent
      <4>1. u.vector = u.was
        BY <2>4, <3>4 DEF Sent
      <4>2. \A v \in Sent : v.id # k
        BY <3>1, <3>4 DEF RInv, SessionTrue, Sent
      <4>3. stored'[k] = stored[k]
        BY <2>2, <4>2, Commits
      <4>4. QED
        BY <3>1, <3>2, <4>1, <4>3 DEF RInv, UpdatesCurrent, SessionTrue
    <3>5. QED
      BY <3>3, <3>4
  <2>5. QED
    BY <2>1, <2>3, <2>4
<1>12. QED
  BY <1>8, <1>9, <1>10, <1>11 DEF RInv

LEMMA FailKeeps == ASSUME RInv, FailBatch PROVE RInv'
<1>1. script \in Script
  BY DEF RInv, ReembedTypeOK
<1>2. /\ script'.stage = "failed" /\ script'.todo = script.todo
      /\ script'.batch = {} /\ script'.read = {} /\ script'.updates = {}
      /\ script' \in Script
  BY <1>1 DEF FailBatch, Script
<1>3. UNCHANGED <<stored, edit, revisions, overlapped>>
  BY DEF FailBatch
<1>4. QED
  BY <1>2, <1>3 DEF RInv, ReembedTypeOK, SessionTrue, UpdatesCurrent, EditCurrent, BehindDone,
     AllBehind, Working

LEMMA FinishKeeps == ASSUME RInv, FinishReembed PROVE RInv'
<1>1. script \in Script /\ script.todo = {} /\ script.batch = {} /\ script.stage = "running"
  BY DEF RInv, ReembedTypeOK, FinishReembed, SessionTrue
<1>2. script.read = {} /\ script.updates = {}
  BY <1>1, NothingHeld
<1>3. /\ script'.stage = "done" /\ script'.mode = script.mode /\ script'.todo = {}
      /\ script'.batch = {} /\ script'.read = {} /\ script'.updates = {}
      /\ script' \in Script
  BY <1>1, <1>2 DEF FinishReembed, Script
<1>4. UNCHANGED <<stored, edit, revisions, overlapped>> /\ Undeleted' = Undeleted
  BY DEF FinishReembed, Undeleted
<1>5. BehindDone'
  BY <1>1, <1>3, <1>4 DEF RInv, BehindDone
<1>6. QED
  BY <1>3, <1>4, <1>5 DEF RInv, ReembedTypeOK, SessionTrue, UpdatesCurrent, EditCurrent,
     AllBehind, Working

LEMMA CreateKeeps == ASSUME RInv, CreateRow PROVE RInv'
<1>1. PICK i \in Ids \ DOMAIN stored, text \in Contents :
        stored' = [j \in DOMAIN stored \cup {i} |->
                     IF j = i THEN [text |-> text, vector |-> Embedded(text), deleted |-> FALSE]
                     ELSE stored[j]]
  BY DEF CreateRow
<1>2. /\ DOMAIN stored' = DOMAIN stored \cup {i}
      /\ stored'[i].vector = Embedded(stored'[i].text) /\ stored'[i].vector # NoVector
      /\ stored'[i] \in StoredRow /\ ~stored'[i].deleted
      /\ \A j \in DOMAIN stored : stored'[j] = stored[j]
  BY <1>1, VectorsExist DEF StoredRow
<1>3. \E I \in SUBSET Ids : stored' \in [I -> StoredRow]
  <2>1. DOMAIN stored \cup {i} \in SUBSET Ids
    BY RowsOfTable DEF RInv
  <2>2. stored' \in [DOMAIN stored \cup {i} -> StoredRow]
    BY <1>1, <1>2, RowsOfTable DEF RInv
  <2>3. QED
    BY <2>1, <2>2
<1>4. UNCHANGED <<script, edit, overlapped>> /\ revisions' \in 0..MaxRevisions
  BY ReembedAssumption DEF CreateRow, RInv, ReembedTypeOK
<1>5. Undeleted' = Undeleted \cup {i}
  BY <1>2 DEF Undeleted
<1>6. ReembedTypeOK' /\ EditCurrent' /\ AllBehind'
  BY <1>2, <1>3, <1>4 DEF RInv, ReembedTypeOK, EditCurrent, AllBehind
<1>7. SessionTrue' /\ UpdatesCurrent'
  BY <1>2, <1>4, <1>5 DEF RInv, SessionTrue, UpdatesCurrent, Working
<1>8. BehindDone'
  BY <1>2, <1>4, <1>5 DEF RInv, BehindDone, Undeleted
<1>9. QED
  BY <1>6, <1>7, <1>8 DEF RInv

LEMMA LoadKeeps == ASSUME RInv, LoadEdited PROVE RInv'
<1>1. PICK i \in Undeleted, text \in Contents :
        edit' = [id |-> i, text |-> text, was |-> stored[i].vector, crossed |-> FALSE]
  BY DEF LoadEdited
<1>2. i \in DOMAIN stored /\ i \in Ids /\ stored[i] \in StoredRow
  BY RowsOfTable DEF RInv, Undeleted
<1>3. edit' \in Edit /\ edit'.id = i /\ edit'.was = stored[i].vector
  BY <1>1, <1>2 DEF Edit, StoredRow
<1>4. UNCHANGED <<stored, script, overlapped>> /\ revisions' \in 0..MaxRevisions
  BY ReembedAssumption DEF LoadEdited, RInv, ReembedTypeOK
<1>5. QED
  BY <1>2, <1>3, <1>4 DEF RInv, ReembedTypeOK, SessionTrue, UpdatesCurrent, EditCurrent,
     BehindDone, AllBehind, Working, Undeleted

LEMMA EditKeeps == ASSUME RInv, CommitEdited PROVE RInv'
<1> DEFINE e == edit.id
<1>1. edit # NoVector /\ edit \in Edit /\ e \in DOMAIN stored /\ stored[e] \in StoredRow
  BY RowsOfTable DEF CommitEdited, RInv, ReembedTypeOK, EditCurrent
<1>2. /\ edit.text \in Contents /\ edit.crossed \in BOOLEAN
      /\ Embedded(edit.text) \in Vector /\ Embedded(edit.text) # NoVector
  BY <1>1, VectorsExist DEF Edit
<1>3. /\ DOMAIN stored' = DOMAIN stored
      /\ \A j \in DOMAIN stored \ {e} : stored'[j] = stored[j]
      /\ stored'[e].text = edit.text /\ stored'[e].deleted = stored[e].deleted
      /\ stored'[e].vector = IF Embedded(edit.text) = edit.was THEN stored[e].vector
                             ELSE Embedded(edit.text)
      /\ stored'[e] \in StoredRow
  BY <1>1, <1>2, RowsOfTable DEF CommitEdited, RInv, StoredRow
<1>4. \E I \in SUBSET Ids : stored' \in [I -> StoredRow]
  <2>1. DOMAIN stored \in SUBSET Ids /\ stored' = [j \in DOMAIN stored |-> stored'[j]]
    BY RowsOfTable DEF RInv, CommitEdited
  <2>2. QED
    BY <1>3, <2>1, RowsOfTable DEF RInv
<1>5. /\ edit' = NoVector /\ UNCHANGED <<script, revisions>>
      /\ overlapped' = IF edit.crossed \/ e \in script.read
                       THEN overlapped \cup {e} ELSE overlapped
  BY DEF CommitEdited
<1>6. Undeleted' = Undeleted
  BY <1>3 DEF Undeleted
<1>7. ReembedTypeOK' /\ EditCurrent' /\ AllBehind'
  BY <1>1, <1>4, <1>5 DEF RInv, ReembedTypeOK, EditCurrent, AllBehind, Edit
<1>8. SessionTrue'
  BY <1>2, <1>3, <1>5, <1>6 DEF RInv, SessionTrue, Working
<1>9. UpdatesCurrent'
  BY <1>3, <1>5, <1>6 DEF RInv, UpdatesCurrent, SessionTrue, Undeleted
<1>10. BehindDone'
  <2>1. ~edit.crossed => edit.was = stored[e].vector
    BY <1>1 DEF RInv, EditCurrent
  <2>2. QED
    BY <1>2, <1>3, <1>5, <1>6, <2>1 DEF RInv, BehindDone, Undeleted
<1>11. QED
  BY <1>7, <1>8, <1>9, <1>10 DEF RInv

LEMMA DeleteKeeps == ASSUME RInv, DeleteStored PROVE RInv'
<1>1. PICK i \in Undeleted : stored' = [stored EXCEPT ![i].deleted = TRUE]
  BY DEF DeleteStored
<1>2. i \in DOMAIN stored /\ \A j \in DOMAIN stored : stored[j] \in StoredRow
  BY RowsOfTable DEF RInv, Undeleted
<1>3. /\ DOMAIN stored' = DOMAIN stored
      /\ \A j \in DOMAIN stored : /\ stored'[j].text = stored[j].text
                                  /\ stored'[j].vector = stored[j].vector
                                  /\ stored'[j] \in StoredRow
                                  /\ stored[j].deleted => stored'[j].deleted
  BY <1>1, <1>2 DEF StoredRow
<1>4. \E I \in SUBSET Ids : stored' \in [I -> StoredRow]
  <2>1. DOMAIN stored \in SUBSET Ids /\ stored' = [j \in DOMAIN stored |-> stored'[j]]
    BY <1>1, RowsOfTable DEF RInv
  <2>2. QED
    BY <1>3, <2>1
<1>5. UNCHANGED <<script, edit, revisions, overlapped>>
  BY DEF DeleteStored
<1>6. Undeleted' \subseteq Undeleted /\ Undeleted \subseteq DOMAIN stored
  BY <1>3 DEF Undeleted
<1>7. ReembedTypeOK' /\ EditCurrent' /\ AllBehind'
  BY <1>3, <1>4, <1>5 DEF RInv, ReembedTypeOK, EditCurrent, AllBehind
<1>8. SessionTrue'
  BY <1>3, <1>5, <1>6 DEF RInv, SessionTrue, Working
<1>9. UpdatesCurrent' /\ BehindDone'
  BY <1>3, <1>5, <1>6 DEF RInv, UpdatesCurrent, BehindDone
<1>10. QED
  BY <1>7, <1>8, <1>9 DEF RInv

LEMMA ReembedInductive == RInv /\ [ReembedNext]_reembedVars => RInv'
<1> SUFFICES ASSUME RInv, [ReembedNext]_reembedVars PROVE RInv'
  OBVIOUS
<1>1. CASE UNCHANGED reembedVars
  BY <1>1 DEF reembedVars, RInv, ReembedTypeOK, SessionTrue, UpdatesCurrent, EditCurrent,
     BehindDone, AllBehind, Working, Undeleted
<1>2. QED
  BY <1>1, StartKeeps, BeginKeeps, ReadKeeps, CommitKeeps, FailKeeps, FinishKeeps, CreateKeeps,
     LoadKeeps, EditKeeps, DeleteKeeps DEF ReembedNext

\* The table, the script and the PATCH under way are of their types (reembed.py:38-108).
THEOREM ReembedTypeCorrect == ReembedSpec => []ReembedTypeOK
<1>1. RInv => ReembedTypeOK
  BY DEF RInv
<1>2. QED
  BY <1>1, ReembedInitially, ReembedInductive, PTL DEF ReembedSpec

\* For any number of prompts, texts and models and any batch size, a run that ended
\* well leaves the right vectors, but for rows edited between read and commit.
THEOREM VectorsRight == ReembedSpec => []ReembedTrue
<1>1. RInv => ReembedTrue
  BY DEF RInv, ReembedTrue, AllBehind, BehindDone
<1>2. QED
  BY <1>1, ReembedInitially, ReembedInductive, PTL DEF ReembedSpec

----------------------------------------------------------------------------
(* Import *)

StillToCopy(r) == {copying[r].todo[k] : k \in DOMAIN copying[r].todo}

\* What a run knows of the prompt it is at.
RunAims(r) ==
  /\ copying[r].stage = "looked" => copying[r].todo # <<>>
  /\ copying[r].target # Vacant => /\ copying[r].stage = "looked"
                                   /\ titled[copying[r].target] \in {Current(r), Removed}
  /\ copying[r].sure => copying[r].stage = "looked" /\ Titled(Current(r)) = {}

\* What a run has behind it is in the gallery, or is a failure.
RunCopies(r) ==
  /\ copying[r].stage = "done" => copying[r].todo = <<>> /\ ~copying[r].failures
  /\ ~copying[r].dry_run /\ ~copying[r].failures =>
       \A t \in copying[r].listed : Titled(t) # {} \/ t \in StillToCopy(r)

Single == \A t \in Headings \ unsure : \A i, j \in Titled(t) : i = j

JInv ==
  /\ ImportTypeOK
  /\ \A r \in Runs : RunAims(r) /\ RunCopies(r)
  /\ Single

LEMMA EndedRun == Ended \in Copying /\ Ended.todo = <<>> /\ Ended.target = Vacant /\ ~Ended.sure
                  /\ Ended.listed = {} /\ Ended.stage = "failed"
<1>1. <<>> \in Seq(Headings)
  OBVIOUS
<1>2. QED
  BY <1>1 DEF Ended, Copying

LEMMA ImportInitially == ImportInit => JInv
<1> SUFFICES ASSUME ImportInit PROVE JInv
  OBVIOUS
<1>1. \A t \in Headings : Titled(t) = {}
  BY ImportAssumption DEF ImportInit, Titled
<1>2. QED
  BY <1>1, EndedRun DEF ImportInit, JInv, ImportTypeOK, RunAims, RunCopies, Single

LEMMA Remaining ==
  ASSUME NEW s \in Seq(Headings), s # <<>>
  PROVE  /\ Head(s) \in Headings /\ Tail(s) \in Seq(Headings)
         /\ \A k \in DOMAIN s : s[k] = Head(s) \/ \E l \in DOMAIN Tail(s) : Tail(s)[l] = s[k]
<1>1. Head(s) \in Headings /\ Tail(s) \in Seq(Headings) /\ Head(s) = s[1]
  OBVIOUS
<1>2. Len(Tail(s)) = Len(s) - 1 /\ \A l \in 1..Len(s) - 1 : Tail(s)[l] = s[l + 1]
  OBVIOUS
<1>3. ASSUME NEW k \in DOMAIN s, k # 1
      PROVE  \E l \in DOMAIN Tail(s) : Tail(s)[l] = s[k]
  <2>1. k \in 1..Len(s) /\ k - 1 \in 1..Len(s) - 1 /\ k - 1 + 1 = k
    BY <1>3
  <2>2. k - 1 \in DOMAIN Tail(s) /\ Tail(s)[k - 1] = s[k]
    BY <1>1, <1>2, <2>1
  <2>3. QED
    BY <2>2
<1>4. QED
  BY <1>1, <1>3

\* A step of one run that leaves the gallery alone.
LEMMA RunKeeps ==
  ASSUME JInv, NEW r \in Runs, NEW run \in Copying, Copies(r, run), UNCHANGED <<titled, unsure>>,
         RunAims(r)', RunCopies(r)'
  PROVE  JInv'
<1>1. copying' = [copying EXCEPT ![r] = run] /\ copying' \in [Runs -> Copying]
  BY DEF JInv, ImportTypeOK, Copies
<1>2. \A q \in Runs \ {r} : copying'[q] = copying[q]
  BY <1>1 DEF JInv, ImportTypeOK
<1>3. \A q \in Runs : RunAims(q)' /\ RunCopies(q)'
  BY <1>2 DEF JInv, RunAims, RunCopies, Titled, Current, StillToCopy
<1>4. QED
  BY <1>1, <1>3 DEF JInv, ImportTypeOK, Single, Titled

\* On to the next prompt: what was ahead and is not is the current one.
LEMMA Advances ==
  ASSUME JInv, NEW r \in Runs, copying[r].todo # <<>>, NEW failed \in BOOLEAN,
         copying'[r] = Advanced(r, failed)
  PROVE  /\ Advanced(r, failed) \in Copying
         /\ copying'[r].stage = "next" /\ copying'[r].target = Vacant /\ ~copying'[r].sure
         /\ copying'[r].dry_run = copying[r].dry_run /\ copying'[r].listed = copying[r].listed
         /\ copying'[r].failures = (copying[r].failures \/ failed)
         /\ \A t \in StillToCopy(r) : t = Current(r) \/ t \in StillToCopy(r)'
<1>1. copying[r] \in Copying /\ copying[r].todo \in Seq(Headings)
  BY DEF JInv, ImportTypeOK, Copying
<1>2. Tail(copying[r].todo) \in Seq(Headings)
  BY <1>1, Remaining
<1>3. PICK f \in BOOLEAN : f = (copying[r].failures \/ failed)
  BY <1>1 DEF Copying
<1>4. copying'[r] = [copying[r] EXCEPT !.stage = "next", !.todo = Tail(copying[r].todo),
                                      !.failures = f, !.target = Vacant, !.sure = FALSE]
  BY <1>3 DEF Advanced
<1>5. /\ copying'[r] \in Copying
      /\ copying'[r].stage = "next" /\ copying'[r].target = Vacant /\ copying'[r].sure = FALSE
      /\ copying'[r].dry_run = copying[r].dry_run /\ copying'[r].listed = copying[r].listed
      /\ copying'[r].failures = f
      /\ copying'[r].todo = Tail(copying[r].todo)
  BY <1>1, <1>2, <1>4 DEF Copying
<1>6. \A t \in StillToCopy(r) : t = Current(r) \/ t \in StillToCopy(r)'
  BY <1>1, <1>5, Remaining DEF StillToCopy, Current
<1>7. QED
  BY <1>3, <1>5, <1>6

LEMMA StartImportKeeps == ASSUME JInv, NEW r \in Runs, StartImport(r) PROVE JInv'
<1>1. PICK list \in Listings, overwrite \in BOOLEAN, dry \in BOOLEAN :
        Copies(r, [Ended EXCEPT !.stage = "next", !.overwrite = overwrite, !.dry_run = dry,
                                !.todo = list, !.listed = {list[k] : k \in DOMAIN list}])
  BY DEF StartImport
<1> DEFINE run == [Ended EXCEPT !.stage = "next", !.overwrite = overwrite, !.dry_run = dry,
                                !.todo = list, !.listed = {list[k] : k \in DOMAIN list}]
<1>2. list \in Seq(Headings) /\ {list[k] : k \in DOMAIN list} \subseteq Headings
  BY ImportAssumption
<1>3. /\ run \in Copying /\ run.stage = "next" /\ run.target = Vacant /\ run.sure = FALSE
      /\ run.todo = list /\ run.listed = {list[k] : k \in DOMAIN list}
  BY <1>2 DEF Ended, Copying
<1> HIDE DEF run
<1>4. copying'[r] = run
  BY <1>1 DEF Copies, JInv, ImportTypeOK, run
<1>5. RunAims(r)' /\ RunCopies(r)'
  BY <1>3, <1>4 DEF RunAims, RunCopies, StillToCopy
<1>6. QED
  BY <1>1, <1>3, <1>5, RunKeeps DEF StartImport, run

LEMMA LookKeeps == ASSUME JInv, NEW r \in Runs, Look(r) PROVE JInv'
<1>1. /\ copying[r] \in Copying /\ copying[r].stage = "next" /\ copying[r].todo # <<>>
      /\ copying \in [Runs -> Copying] /\ UNCHANGED <<titled, unsure>> /\ Current(r) \in Headings
  BY Remaining DEF JInv, ImportTypeOK, Look, Copying, Current
<1>2. CASE copying[r].dry_run
  <2>1. Copies(r, Advanced(r, FALSE)) /\ copying'[r] = Advanced(r, FALSE)
    BY <1>1, <1>2 DEF Look, Copies
  <2>2. RunAims(r)' /\ RunCopies(r)'
    BY <1>1, <1>2, <2>1, Advances DEF RunAims, RunCopies
  <2>3. QED
    BY <1>1, <2>1, <2>2, Advances, RunKeeps
<1>3. CASE ~copying[r].dry_run
  <2>1. PICK target \in Titled(Current(r)) \cup {Vacant} :
          Copies(r, [copying[r] EXCEPT !.stage = "looked", !.target = target,
                       !.sure = copying[r].overwrite /\ Titled(Current(r)) = {}])
    BY <1>3 DEF Look
  <2> DEFINE run == [copying[r] EXCEPT !.stage = "looked", !.target = target,
                       !.sure = copying[r].overwrite /\ Titled(Current(r)) = {}]
  <2>2. target \in Imported \cup {Vacant}
    BY DEF Titled
  <2>3. (copying[r].overwrite /\ Titled(Current(r)) = {}) \in BOOLEAN
    BY <1>1 DEF Copying
  <2>4. /\ run \in Copying /\ run.stage = "looked" /\ run.target = target
        /\ run.sure = (copying[r].overwrite /\ Titled(Current(r)) = {})
        /\ run.todo = copying[r].todo /\ run.listed = copying[r].listed
        /\ run.dry_run = copying[r].dry_run /\ run.failures = copying[r].failures
    BY <1>1, <2>2, <2>3 DEF Copying
  <2> HIDE DEF run
  <2>5. copying'[r] = run
    BY <1>1, <2>1 DEF Copies, run
  <2>6. Current(r)' = Current(r) /\ StillToCopy(r)' = StillToCopy(r)
    BY <2>4, <2>5 DEF Current, StillToCopy
  <2>7. RunAims(r)'
    BY <1>1, <2>4, <2>5, <2>6 DEF RunAims, Titled
  <2>8. RunCopies(r)'
    BY <1>1, <2>4, <2>5, <2>6 DEF JInv, RunCopies, Titled
  <2>9. QED
    BY <1>1, <2>1, <2>4, <2>7, <2>8, RunKeeps DEF run
<1>4. QED
  BY <1>2, <1>3

LEMMA PatchKeeps == ASSUME JInv, NEW r \in Runs, Patch(r) PROVE JInv'
<1>1. PICK refused \in BOOLEAN : /\ titled[copying[r].target] = Removed => refused
                                 /\ Copies(r, Advanced(r, refused))
  BY DEF Patch
<1>2. /\ copying[r].stage = "looked" /\ copying[r].target # Vacant
      /\ UNCHANGED <<titled, unsure>> /\ copying[r].todo # <<>>
      /\ titled[copying[r].target] \in {Current(r), Removed}
      /\ copying[r].target \in Imported
  BY DEF Patch, JInv, RunAims, ImportTypeOK, Copying
<1>3. copying'[r] = Advanced(r, refused)
  BY <1>1 DEF Copies, JInv, ImportTypeOK
<1>4. RunAims(r)'
  BY <1>2, <1>3, Advances DEF RunAims
<1>5. ~refused => Titled(Current(r)) # {}
  BY <1>1, <1>2 DEF Titled
<1>6. RunCopies(r)'
  <2>1. SUFFICES ASSUME ~copying'[r].dry_run, ~copying'[r].failures, NEW t \in copying[r].listed
                 PROVE  Titled(t)' # {} \/ t \in StillToCopy(r)'
    BY <1>2, <1>3, Advances DEF RunCopies
  <2>2. ~refused /\ ~copying[r].failures /\ ~copying[r].dry_run
    BY <1>2, <1>3, <2>1, Advances
  <2>3. Titled(t) # {} \/ t \in StillToCopy(r)
    BY <2>2 DEF JInv, RunCopies
  <2>4. Titled(t)' = Titled(t)
    BY <1>2 DEF Titled
  <2>5. QED
    BY <1>2, <1>3, <1>5, <2>2, <2>3, <2>4, Advances
<1>7. QED
  BY <1>1, <1>2, <1>3, <1>4, <1>6, Advances, RunKeeps

\* One more prompt in the gallery.
LEMMA Adds ==
  ASSUME JInv, NEW t \in Headings, NEW i \in Titled(Vacant), titled' = [titled EXCEPT ![i] = t]
  PROVE  /\ titled' \in [Imported -> Headings \cup {Vacant, Removed}]
         /\ Titled(t)' = Titled(t) \cup {i}
         /\ \A u \in Headings \ {t} : Titled(u)' = Titled(u)
         /\ \A k \in Imported : titled[k] # Vacant => titled'[k] = titled[k]
  BY ImportAssumption DEF JInv, ImportTypeOK, Titled

LEMMA PostKeeps == ASSUME JInv, NEW r \in Runs, Post(r) PROVE JInv'
<1>1. /\ copying[r].stage = "looked" /\ copying[r].target = Vacant /\ copying[r].todo # <<>>
      /\ copying \in [Runs -> Copying]
  BY DEF Post, JInv, RunAims, ImportTypeOK
<1>2. PICK t \in Headings : t = Current(r)
  BY <1>1, Remaining DEF JInv, ImportTypeOK, Copying, Current
<1>3. PICK i \in Titled(Vacant) : titled' = [titled EXCEPT ![i] = t]
  BY <1>2 DEF Post
<1>4. copying' = [q \in Runs |->
       IF q = r THEN Advanced(r, FALSE)
       ELSE IF copying[q].stage = "looked" /\ Current(q) = t
       THEN [copying[q] EXCEPT !.sure = FALSE] ELSE copying[q]]
  BY <1>2 DEF Post, Posted
<1>5. copying'[r] = Advanced(r, FALSE)
  BY <1>4
<1>6. /\ titled' \in [Imported -> Headings \cup {Vacant, Removed}]
      /\ Titled(t)' = Titled(t) \cup {i}
      /\ \A u \in Headings \ {t} : Titled(u)' = Titled(u)
      /\ \A k \in Imported : titled[k] # Vacant => titled'[k] = titled[k]
  BY <1>2, <1>3, Adds
<1>7. unsure' = IF copying[r].sure THEN unsure ELSE unsure \cup {t}
  BY <1>2 DEF Post
<1>8. ASSUME NEW q \in Runs \ {r}
      PROVE  /\ copying'[q] \in Copying
             /\ copying'[q].stage = copying[q].stage /\ copying'[q].todo = copying[q].todo
             /\ copying'[q].target = copying[q].target /\ copying'[q].listed = copying[q].listed
             /\ copying'[q].dry_run = copying[q].dry_run
             /\ copying'[q].failures = copying[q].failures
             /\ copying'[q].sure => copying[q].sure /\ Current(q) # t
  <2>1. copying[q] \in Copying
    BY <1>1
  <2>2. copying'[q] = IF copying[q].stage = "looked" /\ Current(q) = t
                      THEN [copying[q] EXCEPT !.sure = FALSE] ELSE copying[q]
    BY <1>4
  <2>3. copying[q].sure => copying[q].stage = "looked"
    BY DEF JInv, RunAims
  <2>4. CASE copying[q].stage = "looked" /\ Current(q) = t
    BY <2>1, <2>2, <2>4 DEF Copying
  <2>5. CASE ~(copying[q].stage = "looked" /\ Current(q) = t)
    BY <2>1, <2>2, <2>3, <2>5
  <2>6. QED
    BY <2>4, <2>5
<1>9. copying' \in [Runs -> Copying]
  <2>1. Advanced(r, FALSE) \in Copying
    BY <1>1, <1>5, Advances
  <2>2. \A q \in Runs : copying'[q] \in Copying
    BY <1>5, <1>8, <2>1
  <2>3. QED
    BY <1>4, <2>2
<1>10. RunAims(r)' /\ RunCopies(r)'
  <2>1. RunAims(r)'
    BY <1>1, <1>5, Advances DEF RunAims
  <2>2. \A u \in Headings : Titled(u) # {} => Titled(u)' # {}
    BY <1>6
  <2>3. copying[r].listed \subseteq Headings
    BY <1>1 DEF Copying
  <2>4. QED
    BY <1>1, <1>2, <1>5, <1>6, <2>1, <2>2, <2>3, Advances DEF JInv, RunCopies
<1>11. ASSUME NEW q \in Runs \ {r} PROVE RunAims(q)' /\ RunCopies(q)'
  <2>1. Current(q)' = Current(q) /\ StillToCopy(q)' = StillToCopy(q)
    BY <1>8 DEF Current, StillToCopy
  <2>2. copying[q] \in Copying /\ copying[q].listed \subseteq Headings
    BY <1>1 DEF Copying
  <2>3. copying[q].target # Vacant => titled'[copying[q].target] = titled[copying[q].target]
    <3>1. copying[q].target # Vacant =>
            copying[q].target \in Imported /\ titled[copying[q].target] # Vacant
      <4>1. copying[q].stage = "looked" => Current(q) \in Headings
        BY <2>2, Remaining DEF JInv, RunAims, Current, Copying
      <4>2. QED
        BY <2>2, <4>1, ImportAssumption DEF JInv, RunAims, Copying
    <3>2. QED
      BY <1>6, <3>1
  <2>4. copying'[q].sure => Titled(Current(q))' = {}
    <3>1. SUFFICES ASSUME copying'[q].sure PROVE Titled(Current(q))' = {}
      OBVIOUS
    <3>2. copying[q].sure /\ Current(q) # t /\ copying[q].stage = "looked" /\ copying[q].todo # <<>>
          /\ Titled(Current(q)) = {}
      BY <1>8, <3>1 DEF JInv, RunAims
    <3>3. Current(q) \in Headings
      BY <2>2, <3>2, Remaining DEF Current, Copying
    <3>4. QED
      BY <1>6, <2>1, <3>2, <3>3 DEF Titled
  <2>5. RunAims(q)'
    BY <1>8, <2>1, <2>3, <2>4 DEF JInv, RunAims
  <2>6. \A u \in Headings : Titled(u) # {} => Titled(u)' # {}
    BY <1>6
  <2>7. RunCopies(q)'
    BY <1>8, <2>1, <2>2, <2>6 DEF JInv, RunCopies
  <2>8. QED
    BY <2>5, <2>7
<1>12. Single'
  <2>1. copying[r].sure => Titled(t) = {}
    BY <1>2 DEF JInv, RunAims
  <2>2. SUFFICES ASSUME NEW u \in Headings \ unsure', NEW k \in Titled(u)', NEW l \in Titled(u)'
                 PROVE  k = l
    BY DEF Single
  <2>3. u \notin unsure
    BY <1>7
  <2>4. CASE u = t
    BY <1>6, <1>7, <2>1, <2>2, <2>4
  <2>5. CASE u # t
    BY <1>6, <2>2, <2>3, <2>5 DEF JInv, Single
  <2>6. QED
    BY <2>4, <2>5
<1>13. ImportTypeOK'
  BY <1>2, <1>6, <1>7, <1>9 DEF JInv, ImportTypeOK
<1>14. QED
  BY <1>10, <1>11, <1>12, <1>13 DEF JInv

LEMMA PostRefusedKeeps == ASSUME JInv, NEW r \in Runs, PostRefused(r) PROVE JInv'
<1>1. /\ copying[r].todo # <<>> /\ UNCHANGED <<titled, unsure>> /\ Copies(r, Advanced(r, TRUE))
      /\ copying'[r] = Advanced(r, TRUE) /\ copying[r].stage = "looked"
  BY DEF PostRefused, JInv, RunAims, ImportTypeOK, Copies
<1>2. RunAims(r)' /\ RunCopies(r)'
  BY <1>1, Advances DEF RunAims, RunCopies
<1>3. QED
  BY <1>1, <1>2, Advances, RunKeeps

LEMMA EndKeeps == ASSUME JInv, NEW r \in Runs, Copies(r, Ended), UNCHANGED <<titled, unsure>>
                  PROVE  JInv'
<1>1. copying'[r] = Ended
  BY DEF Copies, JInv, ImportTypeOK
<1>2. RunAims(r)' /\ RunCopies(r)'
  BY <1>1, EndedRun DEF RunAims, RunCopies
<1>3. QED
  BY <1>2, EndedRun, RunKeeps

LEMMA FinishImportKeeps == ASSUME JInv, NEW r \in Runs, FinishImport(r) PROVE JInv'
<1>1. /\ copying[r] \in Copying /\ copying[r].stage = "next" /\ copying[r].todo = <<>>
      /\ UNCHANGED <<titled, unsure>>
  BY DEF FinishImport, JInv, ImportTypeOK
<1>2. CASE copying[r].failures
  BY <1>1, <1>2, EndKeeps DEF FinishImport
<1>3. CASE ~copying[r].failures
  <2> DEFINE run == [copying[r] EXCEPT !.stage = "done"]
  <2>1. /\ run \in Copying /\ run.stage = "done" /\ run.todo = <<>> /\ ~run.failures
        /\ run.target = copying[r].target /\ run.sure = copying[r].sure
        /\ run.dry_run = copying[r].dry_run /\ run.listed = copying[r].listed
    BY <1>1, <1>3 DEF Copying
  <2>2. Copies(r, run) /\ copying'[r] = run
    BY <1>1, <1>3 DEF FinishImport, Copies, JInv, ImportTypeOK
  <2> HIDE DEF run
  <2>3. copying[r].target = Vacant /\ ~copying[r].sure
    BY <1>1 DEF JInv, RunAims
  <2>4. RunAims(r)'
    BY <2>1, <2>2, <2>3 DEF RunAims
  <2>5. StillToCopy(r)' = StillToCopy(r) /\ \A t \in Headings : Titled(t)' = Titled(t)
    BY <1>1, <2>1, <2>2 DEF StillToCopy, Titled
  <2>6. copying[r].listed \subseteq Headings
    BY <1>1 DEF Copying
  <2>7. RunCopies(r)'
    BY <1>3, <2>1, <2>2, <2>5, <2>6 DEF JInv, RunCopies
  <2>8. QED
    BY <1>1, <2>1, <2>2, <2>4, <2>7, RunKeeps
<1>4. QED
  BY <1>2, <1>3

LEMMA RemoveKeeps == ASSUME JInv, NEW i \in Imported, RemovePrompt(i) PROVE JInv'
<1>1. /\ titled \in [Imported -> Headings \cup {Vacant, Removed}] /\ titled[i] \in Headings
      /\ copying \in [Runs -> Copying] /\ unsure' = unsure
      /\ titled' = [titled EXCEPT ![i] = Removed]
  BY DEF JInv, ImportTypeOK, RemovePrompt
<1>2. ASSUME NEW q \in Runs
      PROVE  /\ copying'[q] \in Copying
             /\ copying'[q].stage = copying[q].stage /\ copying'[q].todo = copying[q].todo
             /\ copying'[q].target = copying[q].target /\ copying'[q].sure = copying[q].sure
             /\ copying'[q].dry_run = copying[q].dry_run
             /\ copying'[q].failures = copying[q].failures
             /\ copying'[q].listed = copying[q].listed \ {titled[i]}
  <2>1. copying[q] \in Copying /\ copying[q].listed \subseteq Headings
    BY <1>1 DEF Copying
  <2>2. copying'[q] = [copying[q] EXCEPT !.listed = copying[q].listed \ {titled[i]}]
    BY DEF RemovePrompt
  <2>3. copying[q].listed \ {titled[i]} \in SUBSET Headings
    BY <2>1
  <2>4. QED
    BY <2>1, <2>2, <2>3 DEF Copying
<1>3. \A u \in Headings : /\ Titled(u)' \subseteq Titled(u)
                          /\ u # titled[i] => Titled(u)' = Titled(u)
  BY <1>1, ImportAssumption DEF Titled
<1>4. ASSUME NEW q \in Runs PROVE RunAims(q)' /\ RunCopies(q)'
  <2>1. Current(q)' = Current(q) /\ StillToCopy(q)' = StillToCopy(q)
    BY <1>2 DEF Current, StillToCopy
  <2>2. copying[q] \in Copying /\ copying[q].listed \subseteq Headings
    BY <1>1 DEF Copying
  <2>3. copying[q].target # Vacant =>
          titled'[copying[q].target] \in {titled[copying[q].target], Removed}
    BY <1>1, <2>2 DEF Copying
  <2>4. copying[q].sure => Titled(Current(q))' = {}
    <3>1. copying[q].sure => Current(q) \in Headings
      BY <2>2, Remaining DEF JInv, RunAims, Current, Copying
    <3>2. copying[q].sure => Titled(Current(q)) = {}
      BY DEF JInv, RunAims
    <3>3. \A x \in {Current(q)} : Current(q)' = x
      BY <2>1
    <3>4. QED
      BY <1>3, <2>1, <3>1, <3>2 DEF Titled
  <2>5. RunAims(q)'
    BY <1>2, <2>1, <2>3, <2>4 DEF JInv, RunAims
  <2>6. RunCopies(q)'
    BY <1>2, <1>3, <2>1, <2>2 DEF JInv, RunCopies
  <2>7. QED
    BY <2>5, <2>6
<1>5. ImportTypeOK'
  <2>1. titled' \in [Imported -> Headings \cup {Vacant, Removed}]
    BY <1>1
  <2>2. copying' \in [Runs -> Copying]
    BY <1>2 DEF RemovePrompt
  <2>3. QED
    BY <1>1, <2>1, <2>2 DEF JInv, ImportTypeOK
<1>6. Single'
  BY <1>1, <1>3 DEF JInv, Single
<1>7. QED
  BY <1>4, <1>5, <1>6 DEF JInv

LEMMA ImportInductive == JInv /\ [ImportNext]_importVars => JInv'
<1> SUFFICES ASSUME JInv, [ImportNext]_importVars PROVE JInv'
  OBVIOUS
<1>1. CASE UNCHANGED importVars
  BY <1>1 DEF importVars, JInv, ImportTypeOK, RunAims, RunCopies, Single, Titled, Current, StillToCopy
<1>2. ASSUME NEW r \in Runs, AbortImport(r) PROVE JInv'
  BY <1>2, EndKeeps DEF AbortImport
<1>3. QED
  BY <1>1, <1>2, StartImportKeeps, LookKeeps, PatchKeeps, PostKeeps, PostRefusedKeeps,
     FinishImportKeeps, RemoveKeeps DEF ImportNext

\* The gallery and the runs of the import are of their types (import_prompts.py:93-165).
THEOREM ImportTypeCorrect == ImportSpec => []ImportTypeOK
<1>1. JInv => ImportTypeOK
  BY DEF JInv
<1>2. QED
  BY <1>1, ImportInitially, ImportInductive, PTL DEF ImportSpec

\* For any number of overlapping and repeated runs over any lists, titles are imported
\* once unless a lookup missed them, and a run that succeeds has copied its list.
THEOREM ImportedOnce == ImportSpec => []ImportOnce
<1>1. JInv => ImportOnce
  <2> SUFFICES ASSUME JInv PROVE ImportOnce
    OBVIOUS
  <2>1. ASSUME NEW r \in Runs, copying[r].todo = <<>> PROVE StillToCopy(r) = {}
    BY <2>1 DEF StillToCopy
  <2>2. QED
    BY <2>1 DEF JInv, Single, RunCopies, ImportOnce
<1>2. QED
  BY <1>1, ImportInitially, ImportInductive, PTL DEF ImportSpec
=============================================================================
