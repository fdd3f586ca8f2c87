------------------------------ MODULE Reembed ------------------------------
(***************************************************************************)
(* The re-embedding script (scripts/reembed.py) next to a server that      *)
(* creates, edits and deletes prompts with the same embedding model.  The  *)
(* script takes the ids once, then reads and embeds the rows of a batch    *)
(* one after the other and writes their vectors in one commit.  As in the  *)
(* server, a session writes only the columns that differ from what it had  *)
(* loaded.                                                                 *)
(***************************************************************************)
EXTENDS Naturals, FiniteSets

CONSTANTS
  Ids,              \* primary keys of prompts
  Contents,         \* texts that are embedded
  EmbeddingModels,  \* embedding models
  Configured,       \* EMBEDDING_MODEL, of the server and of the script
  BatchSize,        \* --batch-size
  MaxRevisions,     \* bound on the prompts the server creates and edits
  NoVector          \* NULL

ASSUME ReembedAssumption ==
  /\ Ids \subseteq Nat
  /\ Configured \in EmbeddingModels
  /\ BatchSize \in Nat \ {0} /\ MaxRevisions \in Nat
  /\ NoVector \notin EmbeddingModels \X Contents /\ NoVector \notin Ids

VARIABLES
  stored,     \* the prompts that were ever inserted
  script,     \* the last run of the script
  edit,       \* the PATCH of the server that is under way
  revisions,  \* prompts created and edited so far
  overlapped  \* history: rows written by one of the two while the other had read them

reembedVars == <<stored, script, edit, revisions, overlapped>>

Vector == EmbeddingModels \X Contents

Embedded(text) == <<Configured, text>>

StoredRow == [text : Contents, vector : Vector \cup {NoVector}, deleted : BOOLEAN]

\* todo holds the ids after the last commit, batch those of them the session is at.
Script == [stage : {"running", "done", "failed"}, mode : {"all", "only_missing", "dry_run"},
           todo : SUBSET Ids, batch : SUBSET Ids, read : SUBSET Ids,
           updates : SUBSET [id : Ids, was : Vector \cup {NoVector}, vector : Vector]]

Edit == [id : Ids, text : Contents, was : Vector \cup {NoVector}, crossed : BOOLEAN]

ReembedTypeOK ==
  /\ \E I \in SUBSET Ids : stored \in [I -> StoredRow]
  /\ script \in Script
  /\ edit \in Edit \cup {NoVector}
  /\ revisions \in 0..MaxRevisions
  /\ overlapped \subseteq Ids

\* Vectors of any age, or none; the script has not been run yet.
ReembedInit ==
  /\ \E I \in SUBSET Ids : stored \in [I -> StoredRow]
  /\ \A i \in DOMAIN stored :
       stored[i].vector \in {NoVector} \cup {<<m, stored[i].text>> : m \in EmbeddingModels}
  /\ script = [stage |-> "failed", mode |-> "all", todo |-> {}, batch |-> {}, read |-> {},
               updates |-> {}]
  /\ edit = NoVector
  /\ revisions = 0
  /\ overlapped = {}

Undeleted == {i \in DOMAIN stored : ~stored[i].deleted}
----------------------------------------------------------------------------
(* The script. *)

StartReembed ==
  /\ script.stage # "running"
  /\ \E mode \in {"all", "only_missing", "dry_run"} :
       script' = [stage |-> "running", mode |-> mode, batch |-> {}, read |-> {}, updates |-> {},
                  todo |-> {i \in Undeleted : mode = "only_missing" => stored[i].vector = NoVector}]
  /\ UNCHANGED <<stored, edit, revisions, overlapped>>

FirstOf(S) == {i \in S : Cardinality({j \in S : j < i}) < BatchSize}

BeginBatch ==
  /\ script.stage = "running" /\ script.batch = {} /\ script.todo # {}
  /\ script' = [script EXCEPT !.batch = FirstOf(script.todo)]
  /\ UNCHANGED <<stored, edit, revisions, overlapped>>

\* A row that is deleted by now is passed over.
ReadRow == \E i \in script.batch \ script.read :
  /\ \A j \in script.batch \ script.read : i <= j
  /\ script' = [script EXCEPT !.read = @ \cup {i},
                              !.updates = IF i \notin Undeleted THEN @
                                          ELSE @ \cup {[id |-> i, was |-> stored[i].vector,
                                                        vector |-> Embedded(stored[i].text)]}]
  /\ overlapped' = IF script.mode = "all" THEN overlapped \ {i} ELSE overlapped
  /\ UNCHANGED <<stored, edit, revisions>>

Sent == IF script.mode = "dry_run" THEN {} ELSE {u \in script.updates : u.vector # u.was}

CommitBatch ==
  /\ script.batch # {} /\ script.read = script.batch
  /\ stored' = [i \in DOMAIN stored |->
                  IF \E u \in Sent : u.id = i
                  THEN [stored[i] EXCEPT !.vector = (CHOOSE u \in Sent : u.id = i).vector]
                  ELSE stored[i]]
  /\ edit' = IF edit # NoVector /\ \E u \in Sent : u.id = edit.id
             THEN [edit EXCEPT !.crossed = TRUE] ELSE edit
  /\ script' = [script EXCEPT !.todo = @ \ script.batch, !.batch = {}, !.read = {}, !.updates = {}]
  /\ UNCHANGED <<revisions, overlapped>>

SkipBatch ==  \* mutant: a batch that fails is passed over
  /\ script.batch # {}
  /\ script' = [script EXCEPT !.todo = @ \ script.batch, !.batch = {}, !.read = {}, !.updates = {}]
  /\ UNCHANGED <<stored, edit, revisions, overlapped>>

\* The embedder or the database fails, or the script is killed: the batch is rolled
\* back, the earlier ones stay.
FailBatch ==
  /\ script.stage = "running"
  /\ script' = [script EXCEPT !.stage = "failed", !.batch = {}, !.read = {}, !.updates = {}]
  /\ UNCHANGED <<stored, edit, revisions, overlapped>>

FinishReembed ==
  /\ script.stage = "running" /\ script.todo = {}
  /\ script' = [script EXCEPT !.stage = "done"]
  /\ UNCHANGED <<stored, edit, revisions, overlapped>>
----------------------------------------------------------------------------
(* The server, with one PATCH at a time: Prompts is about several. *)

CreateRow == \E i \in Ids \ DOMAIN stored, text \in Contents :
  /\ revisions < MaxRevisions
  /\ revisions' = revisions + 1
  /\ stored' = [j \in DOMAIN stored \cup {i} |->
                  IF j = i THEN [text |-> text, vector |-> Embedded(text), deleted |-> FALSE]
                  ELSE stored[j]]
  /\ UNCHANGED <<script, edit, overlapped>>

LoadEdited == \E i \in Undeleted, text \in Contents :
  /\ edit = NoVector
  /\ revisions < MaxRevisions
  /\ revisions' = revisions + 1
  /\ text # stored[i].text
  /\ edit' = [id |-> i, text |-> text, was |-> stored[i].vector, crossed |-> FALSE]
  /\ UNCHANGED <<stored, script, overlapped>>

CommitEdited ==
  /\ edit # NoVector
  /\ stored' = [stored EXCEPT ![edit.id].text = edit.text,
                              ![edit.id].vector = IF Embedded(edit.text) = edit.was THEN @
                                                  ELSE Embedded(edit.text)]
  /\ edit' = NoVector
  /\ overlapped' = IF edit.crossed \/ edit.id \in script.read
                   THEN overlapped \cup {edit.id} ELSE overlapped
  /\ UNCHANGED <<script, revisions>>

DeleteStored == \E i \in Undeleted :
  /\ stored' = [stored EXCEPT ![i].deleted = TRUE]
  /\ UNCHANGED <<script, edit, revisions, overlapped>>

ReembedNext ==
  \/ StartReembed \/ BeginBatch \/ ReadRow \/ CommitBatch \/ FailBatch \/ FinishReembed
  \/ CreateRow \/ LoadEdited \/ CommitEdited \/ DeleteStored

ReembedSpec == ReembedInit /\ [][ReembedNext]_reembedVars
----------------------------------------------------------------------------
(* Properties. *)

\* After a full run that ended well every prompt has the vector that the configured
\* model gives for its text, whatever was created, edited or deleted meanwhile and
\* whichever earlier runs failed half-way, except for a row that was edited between
\* its reading and the commit of the other side; after a run with --only-missing
\* every prompt has some vector (reembed.py:45-58, 79-108).
ReembedTrue == script.stage = "done" => \A i \in Undeleted :
  /\ (script.mode = "all" /\ i \notin overlapped) => stored[i].vector = Embedded(stored[i].text)
  /\ script.mode = "only_missing" => stored[i].vector # NoVector
============================================================================
