------------------------------ MODULE Taxonomy ------------------------------
(***************************************************************************)
(* Categories, tags and their links to prompts: taxonomy_service.py and    *)
(* the parts of create_prompt and update_prompt that set the links.  Names *)
(* are UNIQUE in the database over live and soft-deleted rows alike.  A    *)
(* prompt is saved in one transaction that may flush several tags before   *)
(* it commits, and PostgreSQL makes others wait for what it has flushed.   *)
(***************************************************************************)
EXTENDS Sequences

CONSTANTS
  Workers,      \* threads of the pool
  PromptIds,    \* prompts that links can be set of
  CategoryIds,  \* primary keys of prompt_categories
  TagIds,       \* primary keys of prompt_tags
  Names,        \* strings a client can send
  Normal,       \* Normal[n] is n stripped and in lower case, None if that is blank
  Bodies,       \* the category_ids and tag_names of POST and PATCH of prompts
  Named,        \* the names that POST and PATCH of categories and tags send, by table
  Absent,       \* the row that was never inserted
  None          \* a blank name, no name, no target, a row not seen

Terms == CategoryIds \cup TagIds

\* The columns of both tables that decide something; live is deleted_at IS NULL.
Term == [name : Names, live : BOOLEAN]

\* The table of a row, as the set of its primary keys.
Table(t) == IF t \in TagIds THEN TagIds ELSE CategoryIds

Links == PromptIds \X Terms

\* tables are those whose field was sent; categories and tags are its value.
Body == [tables : SUBSET {CategoryIds, TagIds}, categories : SUBSET CategoryIds, tags : Seq(Names)]

ASSUME TaxonomyAssumption ==
  /\ CategoryIds \cap TagIds = {}
  /\ Normal \in [Names -> Names \cup {None}]
  /\ Bodies \subseteq Body
  /\ Named \subseteq [table : {CategoryIds, TagIds}, name : Names]
  /\ Absent \notin Term /\ None \notin Term /\ None # Absent
  /\ None \notin Names

VARIABLES
  terms,    \* the two tables, as committed
  links,    \* the two association tables, as committed
  pc,       \* where the request of a worker stands
  target,   \* the prompt or the row it works on
  todo,     \* tag_names it has yet to look up
  name,     \* the name it is about to insert
  tables,   \* the tables whose links it sets, or whose row it inserts
  chosen,   \* the rows it will link the prompt to
  had,      \* the links it loaded
  rows,     \* the tags as its session has them: a SELECT does not reload these
  flushed,  \* the tags it has written and not committed
  locked,   \* the links it has written or deleted and not committed
  undisturbed  \* history: no request beside it has touched the same links

vars == <<terms, links, pc, target, todo, name, tables, chosen, had, rows, flushed, locked, undisturbed>>

session == <<target, todo, name, tables, chosen, had, rows, flushed, locked>>

PCs == {"idle", "tagging", "inserting tag", "resurrecting", "saving",
        "inserting", "renaming", "unlinking", "deleting"}

NoRows == [t \in Terms |-> None]

Init ==
  /\ terms  = [t \in Terms |-> Absent]
  /\ links  = {}
  /\ pc     = [w \in Workers |-> "idle"]
  /\ target = [w \in Workers |-> None]
  /\ todo   = [w \in Workers |-> <<>>]
  /\ name   = [w \in Workers |-> None]
  /\ tables = [w \in Workers |-> {}]
  /\ chosen = [w \in Workers |-> {}]
  /\ had    = [w \in Workers |-> {}]
  /\ rows   = [w \in Workers |-> NoRows]
  /\ flushed = [w \in Workers |-> {}]
  /\ locked = [w \in Workers |-> {}]
  /\ undisturbed = [w \in Workers |-> TRUE]

Goto(w, label) == pc' = [pc EXCEPT ![w] = label]

ReleasedNever(w) == UNCHANGED locked  \* mutant: the session is not closed

Released(w) == locked' = [locked EXCEPT ![w] = {}]

\* The response is sent and get_db closes the session: what was flushed and
\* not committed is rolled back, its locks are released.
Respond(w) ==
  /\ Goto(w, "idle")
  /\ target' = [target EXCEPT ![w] = None]
  /\ todo'   = [todo EXCEPT ![w] = <<>>]
  /\ name'   = [name EXCEPT ![w] = None]
  /\ tables' = [tables EXCEPT ![w] = {}]
  /\ chosen' = [chosen EXCEPT ![w] = {}]
  /\ had'    = [had EXCEPT ![w] = {}]
  /\ rows'   = [rows EXCEPT ![w] = NoRows]
  /\ flushed' = [flushed EXCEPT ![w] = {}]
  /\ Released(w)

Inserted(t) == terms[t] # Absent

Live(t) == Inserted(t) /\ terms[t].live

\* Some committed row of the table has the name: the UNIQUE index says no.
Taken(n, table) == \E t \in table : Inserted(t) /\ terms[t].name = n

TakenNever(n, table) == FALSE  \* mutant: no UNIQUE index

Duplicate(n, table) == Taken(n, table)
----------------------------------------------------------------------------
(* Who waits for whom. *)

HoldsName(v, n) == \E t \in flushed[v] : rows[v][t].name = n

\* What the flush of a prompt deletes from and inserts into the association
\* tables, as far as they are in the given ones.
Dropped(w, table) == {l \in had[w] : l[2] \in (tables[w] \cap table) \ chosen[w]}

Added(w, table) == {<<target[w], t>> : t \in chosen[w] \cap table} \ had[w]

\* The links that the next statements of w write: the first flush of a tag
\* takes the new categories of the prompt with it.
Written(w) ==
  CASE pc[w] \in {"inserting tag", "resurrecting"} ->
         Dropped(w, CategoryIds) \cup Added(w, CategoryIds)
    [] pc[w] = "saving" -> Dropped(w, Terms) \cup Added(w, Terms)
    [] pc[w] = "unlinking" -> {l \in links : l[2] = target[w]}
    [] OTHER -> {}

WaitsFor(w, v) ==
  /\ v # w
  /\ \/ pc[w] = "inserting" /\ tables[w] = TagIds /\ HoldsName(v, name[w])
     \/ pc[w] \in {"inserting tag", "resurrecting"} /\ HoldsName(v, name[w])
     \/ pc[w] = "deleting" /\ target[w] \in flushed[v]
     \/ Written(w) \cap locked[v] # {}

Waits(w) == \E v \in Workers : WaitsFor(w, v)
----------------------------------------------------------------------------
(* POST /prompts and PATCH /prompts/{id}. *)

\* The prompt is loaded with its links, and the categories with live rows.
LoadPrompt(w) ==
  /\ pc[w] = "idle"
  /\ \E p \in PromptIds, body \in Bodies :
       /\ \A c \in body.categories : Live(c)
       /\ target' = [target EXCEPT ![w] = p]
       /\ todo'   = [todo EXCEPT ![w] = body.tags]
       /\ chosen' = [chosen EXCEPT ![w] = body.categories]
       /\ tables' = [tables EXCEPT ![w] = UNION body.tables]
       /\ had'    = [had EXCEPT ![w] = {l \in links : l[1] = p}]
       /\ rows'   = [rows EXCEPT ![w] =
                       [t \in Terms |-> IF t \in TagIds /\ <<p, t>> \in links
                                        THEN terms[t] ELSE None]]
  /\ Goto(w, "tagging")
  /\ UNCHANGED <<terms, links, name, flushed, locked>>

\* A tag that the session of w has loaded or written stays as it has it.
Seen(w, t) == IF rows[w][t] # None THEN rows[w][t] ELSE terms[t]

SeenAs(w, n) == {t \in TagIds : Seen(w, t) # Absent /\ Seen(w, t).name = n}

BlankNever(n) == FALSE  \* mutant: a name of blanks is taken for a name

Blank(n) == n = None

\* get_or_create_tags: the next name is blank, or names a live tag, a deleted
\* tag, or no tag.
LookUp(w) ==
  /\ pc[w] = "tagging"
  /\ todo[w] # <<>>
  /\ LET n == Normal[Head(todo[w])]
         same == SeenAs(w, n)
         found == {t \in same : Seen(w, t).live}
     IN IF Blank(n) \/ found # {}
        THEN /\ chosen' = [chosen EXCEPT ![w] = @ \cup found]
             /\ todo'   = [todo EXCEPT ![w] = Tail(@)]
             /\ rows'   = [rows EXCEPT ![w] =
                             [t \in Terms |-> IF t \in found THEN Seen(w, t) ELSE @[t]]]
             /\ UNCHANGED <<pc, name>>
        ELSE /\ name' = [name EXCEPT ![w] = n]
             /\ Goto(w, IF same = {} THEN "inserting tag" ELSE "resurrecting")
             /\ UNCHANGED <<chosen, todo, rows>>
  /\ UNCHANGED <<terms, links, target, tables, had, flushed, locked>>

\* A row is flushed, with the new categories; the transaction stays open.
Flush(w, t, row) ==
  /\ Added(w, CategoryIds) \cap links = {}
  /\ locked' = [locked EXCEPT ![w] = @ \cup Written(w)]
  /\ rows'   = [rows EXCEPT ![w][t] = row]
  /\ flushed' = [flushed EXCEPT ![w] = @ \cup {t}]
  /\ chosen' = [chosen EXCEPT ![w] = @ \cup {t}]
  /\ todo'   = [todo EXCEPT ![w] = Tail(@)]
  /\ name'   = [name EXCEPT ![w] = None]
  /\ Goto(w, "tagging")
  /\ UNCHANGED <<terms, links, target, tables, had>>

InsertTag(w) ==
  /\ pc[w] = "inserting tag"
  /\ ~Waits(w)
  /\ ~Duplicate(name[w], TagIds)
  /\ \E t \in TagIds :
       /\ ~Inserted(t)
       /\ \A v \in Workers : t \notin flushed[v]
       /\ Flush(w, t, [name |-> name[w], live |-> TRUE])

ResurrectedNot(row) == row  \* mutant: deleted_at is not reset

Resurrected(row) == [name |-> row.name, live |-> TRUE]

ResurrectTag(w) ==
  /\ pc[w] = "resurrecting"
  /\ ~Waits(w)
  /\ \E t \in TagIds :
       /\ Inserted(t)
       /\ terms[t].name = name[w]
       /\ Flush(w, t, Resurrected(terms[t]))

\* All names are looked up; the embedder is called before the commit.
FinishTags(w) ==
  /\ pc[w] = "tagging"
  /\ todo[w] = <<>>
  /\ Goto(w, "saving")
  /\ UNCHANGED <<terms, links>> /\ UNCHANGED session

\* The flush of the links and the commit.
SavePrompt(w) ==
  /\ pc[w] = "saving"
  /\ ~Waits(w)
  /\ Added(w, Terms) \cap links = {}
  /\ links' = (links \ Dropped(w, Terms)) \cup Added(w, Terms)
  /\ terms' = [t \in Terms |-> IF t \in flushed[w] THEN rows[w][t] ELSE terms[t]]
  /\ Respond(w)

\* The links that the flush deletes or inserts are not as they were loaded.
Stale(w, table) ==
  Added(w, table) \cap links # {} \/ ~(Dropped(w, table) \subseteq links)

\* The flush violates a UNIQUE or PRIMARY KEY constraint, misses a link it
\* deletes (StaleDataError, if the driver counts), or the embedder fails.
FailRequest(w) ==
  /\ ~Waits(w)
  /\ \/ pc[w] = "inserting tag" /\ Duplicate(name[w], TagIds)
     \/ pc[w] \in {"inserting", "renaming"} /\ Duplicate(name[w], tables[w] \ {target[w]})
     \/ pc[w] \in {"inserting tag", "resurrecting"} /\ Stale(w, CategoryIds)
     \/ pc[w] = "saving"
  /\ Respond(w)
  /\ UNCHANGED <<terms, links>>

\* deadlock_timeout: PostgreSQL aborts one of a circle of waiting transactions.
BreakDeadlock(w) ==
  /\ \E S \in SUBSET Workers :
       w \in S /\ \A v \in S : \E u \in S : WaitsFor(v, u)
  /\ Respond(w)
  /\ UNCHANGED <<terms, links>>
----------------------------------------------------------------------------
(* /categories and /tags. *)

\* create_category and create_tag look for a live row with the name ...
CheckName(w) ==
  /\ pc[w] = "idle"
  /\ \E sent \in Named :
       /\ \A t \in sent.table : Live(t) => terms[t].name # sent.name
       /\ name'   = [name EXCEPT ![w] = sent.name]
       /\ tables' = [tables EXCEPT ![w] = sent.table]
  /\ Goto(w, "inserting")
  /\ UNCHANGED <<terms, links, target, todo, chosen, had, rows, flushed, locked>>

\* ... and insert one.
InsertTerm(w) ==
  /\ pc[w] = "inserting"
  /\ ~Waits(w)
  /\ ~Duplicate(name[w], tables[w])
  /\ \E t \in tables[w] :
       /\ ~Inserted(t)
       /\ \A v \in Workers : t \notin flushed[v]
       /\ terms' = [terms EXCEPT ![t] = [name |-> name[w], live |-> TRUE]]
  /\ Respond(w)
  /\ UNCHANGED links

\* update_category: the category is live and no live one has the name (its own
\* name would change nothing) ...
LoadCategory(w) ==
  /\ pc[w] = "idle"
  /\ \E c \in CategoryIds, sent \in Named :
       /\ sent.table = CategoryIds
       /\ Live(c)
       /\ \A t \in CategoryIds : Live(t) => terms[t].name # sent.name
       /\ target' = [target EXCEPT ![w] = c]
       /\ name'   = [name EXCEPT ![w] = sent.name]
       /\ tables' = [tables EXCEPT ![w] = CategoryIds]
  /\ Goto(w, "renaming")
  /\ UNCHANGED <<terms, links, todo, chosen, had, rows, flushed, locked>>

RenamedRow(row, n) == [name |-> n, live |-> TRUE]  \* mutant: writes all columns

Renamed(row, n) == [row EXCEPT !.name = n]

\* ... and is renamed, whatever it has become.
Rename(w) ==
  /\ pc[w] = "renaming"
  /\ ~Duplicate(name[w], CategoryIds \ {target[w]})
  /\ terms' = [terms EXCEPT ![target[w]] = Renamed(terms[target[w]], name[w])]
  /\ Respond(w)
  /\ UNCHANGED links

\* soft_delete_category and soft_delete_tag load a live row, ...
LoadTerm(w) ==
  /\ pc[w] = "idle"
  /\ \E t \in Terms :
       /\ Live(t)
       /\ target' = [target EXCEPT ![w] = t]
  /\ Goto(w, "unlinking")
  /\ UNCHANGED <<terms, links, todo, name, tables, chosen, had, rows, flushed, locked>>

UnlinkedNone(w) == {}  \* mutant: the association rows stay

\* ... delete the links that are there (nothing is flushed before) ...
Unlinked(w) == Written(w)

DeleteLinks(w) ==
  /\ pc[w] = "unlinking"
  /\ ~Waits(w)
  /\ locked' = [locked EXCEPT ![w] = Unlinked(w)]
  /\ Goto(w, "deleting")
  /\ UNCHANGED <<terms, links, target, todo, name, tables, chosen, had, rows, flushed>>

\* ... and commit the stamp with the deletion of these links.
CommitDeletion(w) ==
  /\ pc[w] = "deleting"
  /\ ~Waits(w)
  /\ terms' = [terms EXCEPT ![target[w]].live = FALSE]
  /\ links' = links \ locked[w]
  /\ Respond(w)
----------------------------------------------------------------------------
\* The process is killed: PostgreSQL rolls back what was not committed.
Crash ==
  /\ pc' = [w \in Workers |-> "idle"]
  /\ target' = [w \in Workers |-> None]
  /\ todo'   = [w \in Workers |-> <<>>]
  /\ name'   = [w \in Workers |-> None]
  /\ tables' = [w \in Workers |-> {}]
  /\ chosen' = [w \in Workers |-> {}]
  /\ had'    = [w \in Workers |-> {}]
  /\ rows'   = [w \in Workers |-> NoRows]
  /\ flushed' = [w \in Workers |-> {}]
  /\ locked' = [w \in Workers |-> {}]
  /\ UNCHANGED <<terms, links>>

Begin(w) == LoadPrompt(w) \/ CheckName(w) \/ LoadCategory(w) \/ LoadTerm(w)

Proceed(w) ==
  \/ LookUp(w) \/ InsertTag(w) \/ ResurrectTag(w) \/ FinishTags(w) \/ SavePrompt(w)
  \/ FailRequest(w) \/ BreakDeadlock(w)
  \/ InsertTerm(w) \/ Rename(w) \/ DeleteLinks(w) \/ CommitDeletion(w)

Saves(w) == pc[w] \in {"tagging", "inserting tag", "resurrecting", "saving"}

Deletes(w) == pc[w] \in {"unlinking", "deleting"}

\* Two requests that overwrite each other's links: the code prevents neither
\* the deletion of a row that is being linked nor two PATCHes of a prompt.
Clash(v, w) ==
  \/ Saves(v) /\ Deletes(w)
  \/ Deletes(v) /\ Saves(w)
  \/ Saves(v) /\ Saves(w) /\ target[v] = target[w]

\* History: which requests have had no clash so far.
Overlap ==
  undisturbed' = [w \in Workers |->
              \/ pc'[w] = "idle"
              \/ undisturbed[w] /\ \A v \in Workers \ {w} : ~Clash(v, w)']

Next == (Crash \/ \E w \in Workers : Begin(w) \/ Proceed(w)) /\ Overlap

\* Threads are scheduled, locks are granted in the order of the requests, and
\* a deadlock is broken.  Nobody has to send a request.
Fairness == \A w \in Workers : SF_vars(Proceed(w) /\ Overlap)

Spec == Init /\ [][Next]_vars /\ Fairness
----------------------------------------------------------------------------
(* Correctness. *)

\* Every variable has its type.
TypeOK ==
  /\ terms  \in [Terms -> Term \cup {Absent}]
  /\ links  \subseteq Links
  /\ pc     \in [Workers -> PCs]
  /\ target \in [Workers -> PromptIds \cup Terms \cup {None}]
  /\ todo   \in [Workers -> Seq(Names)]
  /\ name   \in [Workers -> Names \cup {None}]
  /\ tables \in [Workers -> SUBSET Terms]
  /\ chosen \in [Workers -> SUBSET Terms]
  /\ had    \in [Workers -> SUBSET Links]
  /\ rows   \in [Workers -> [Terms -> Term \cup {None}]]
  /\ flushed \in [Workers -> SUBSET TagIds]
  /\ locked \in [Workers -> SUBSET Links]
  /\ undisturbed \in [Workers -> BOOLEAN]

\* No two rows of a table have the same name, live or not, although every
\* check for duplicates is a SELECT that other requests overtake: POST, rename
\* and the tags created on the fly, in any order.
NamesUnique ==
  \A t, u \in Terms :
    /\ Table(t) = Table(u) /\ Inserted(t) /\ Inserted(u)
    /\ terms[t].name = terms[u].name
    => t = u

\* Rows stay, tags keep their name, and a deleted category stays deleted, also
\* when a rename that loaded it live is committed after the deletion.
TermsKept ==
  [][\A t \in Terms :
       Inserted(t) =>
         /\ terms'[t] # Absent
         /\ t \in TagIds => terms'[t].name = terms[t].name
         /\ t \in CategoryIds /\ ~terms[t].live => ~terms'[t].live]_vars

\* A prompt saved with no deletion and no other save of it beside leaves exactly
\* the links it chose in the tables it set, all of them to live rows: what races
\* and deletions left there before is gone, and the deleted tags it names are
\* alive, whoever else creates, resurrects or renames rows meanwhile.
SavedAsChosen ==
  [][\A w \in Workers :
       SavePrompt(w) /\ undisturbed[w] =>
         \A t \in tables[w] :
           /\ <<target[w], t>> \in links' <=> t \in chosen[w]
           /\ <<target[w], t>> \in links' => terms'[t] # Absent /\ terms'[t].live]_vars

\* A deletion with no prompt being saved beside it leaves no link to the row.
DeletedUnlinked ==
  [][\A w \in Workers :
       CommitDeletion(w) /\ undisturbed[w] =>
         \A p \in PromptIds : <<p, target[w]>> \notin links']_vars

\* Every request is answered: tags flushed in opposite orders, and deletions of
\* rows that others are linking, do not make requests wait for each other for
\* ever, and no failed request keeps its locks.
RequestsEnd == \A w \in Workers : pc[w] # "idle" ~> pc[w] = "idle"
============================================================================
