--------------------------- MODULE TaxonomyProofs ---------------------------
(***************************************************************************)
(* Proofs about Taxonomy: names are unique, rows, the names of tags and    *)
(* the deletion of categories are for good, and a save or a deletion that  *)
(* clashes with no other leaves exactly the links it should, for any       *)
(* number of workers, rows and names.                                      *)
(***************************************************************************)
EXTENDS Taxonomy, TLAPS

SavingPCs == {"tagging", "inserting tag", "resurrecting", "saving"}

\* What a worker knows of what it works on, by where it stands.
Working(w) ==
  /\ pc[w] \in SavingPCs => target[w] \in PromptIds
  /\ pc[w] \in {"inserting tag", "resurrecting"} => name[w] \in Names /\ todo[w] # <<>>
  /\ pc[w] \in {"inserting", "renaming"} =>
       name[w] \in Names /\ tables[w] \in {CategoryIds, TagIds}
  /\ pc[w] = "renaming" => target[w] \in CategoryIds /\ Inserted(target[w])
  /\ Deletes(w) => target[w] \in Terms /\ Inserted(target[w])
  /\ pc[w] \notin SavingPCs => flushed[w] = {}

\* What a worker has flushed are tags it has seen; what it has chosen is there.
Staged(w) ==
  /\ \A t \in chosen[w] : Inserted(t) \/ t \in flushed[w]
  /\ \A t \in flushed[w] : rows[w][t] # None
  /\ \A t \in TagIds : rows[w][t] # None => Inserted(t) \/ t \in flushed[w]
  /\ \A t \in flushed[w] : Inserted(t) => rows[w][t].name = terms[t].name
  /\ pc[w] = "inserting tag" => \A t \in flushed[w] : rows[w][t].name # name[w]

\* The names in transactions differ from those in the table and from each other.
Apart(w) ==
  \A t \in flushed[w] :
    /\ \A u \in TagIds : Inserted(u) /\ terms[u].name = rows[w][t].name => u = t
    /\ \A v \in Workers : \A u \in flushed[v] :
         u = t \/ rows[v][u].name = rows[w][t].name => u = t /\ v = w

IInv ==
  /\ TypeOK
  /\ NamesUnique
  /\ \A l \in links : Inserted(l[2])
  /\ \A w \in Workers : Working(w) /\ Staged(w) /\ Apart(w)
----------------------------------------------------------------------------
\* The bodies of requests have the fields that the model reads.
LEMMA BodyFields ==
  ASSUME NEW body \in Bodies
  PROVE  /\ UNION body.tables \subseteq Terms
         /\ body.categories \subseteq CategoryIds
         /\ body.tags \in Seq(Names)
BY TaxonomyAssumption DEF Body, Terms

\* The rows of a term: absent or with both columns.
LEMMA Rows ==
  ASSUME NEW r \in Term
  PROVE  r.name \in Names /\ r.live \in BOOLEAN /\ r # Absent /\ r # None
BY TaxonomyAssumption DEF Term

\* The history variable is a Boolean of each worker after every step.
LEMMA OverlapType ==
  ASSUME TypeOK, Overlap
  PROVE  undisturbed' \in [Workers -> BOOLEAN]
BY DEF TypeOK, Overlap

\* All workers are idle and nothing is stored at first.
LEMMA InitIInv == Init => IInv
BY TaxonomyAssumption
   DEF Init, IInv, TypeOK, NamesUnique, Working, Staged, Apart, Inserted, Deletes,
       SavingPCs, PCs, NoRows, Links, Terms

\* What holds of a worker stays when it does not move, rows stay and no row
\* takes a name that it has flushed.
LEMMA StandsStill ==
  ASSUME NEW v \in Workers, TypeOK, Working(v), Staged(v),
         pc'[v] = pc[v], target'[v] = target[v], todo'[v] = todo[v], name'[v] = name[v],
         tables'[v] = tables[v], chosen'[v] = chosen[v], rows'[v] = rows[v],
         flushed'[v] = flushed[v],
         \A t \in Terms : Inserted(t) => Inserted(t)',
         \A t \in flushed[v] : Inserted(t)' => Inserted(t) /\ terms'[t].name = terms[t].name
  PROVE  Working(v)' /\ Staged(v)'
<1>1. Working(v)'
  BY DEF Working, Deletes, SavingPCs, Terms
<1>2. \A t \in chosen[v] : t \in Terms
  BY DEF TypeOK
<1>3. Staged(v)'
  BY <1>2 DEF Staged, Terms
<1> QED BY <1>1, <1>3

\* Names stay apart when nothing is flushed and no row gets another name.
LEMMA StayApart ==
  ASSUME \A v \in Workers : Apart(v),
         \A v \in Workers : flushed'[v] \subseteq flushed[v],
         \A v \in Workers : \A t \in flushed'[v] : rows'[v][t] = rows[v][t],
         \A t \in TagIds : Inserted(t)' => Inserted(t) /\ terms'[t].name = terms[t].name
  PROVE  \A v \in Workers : Apart(v)'
<1> SUFFICES ASSUME NEW v \in Workers, NEW t \in flushed'[v]
             PROVE  /\ \A u \in TagIds : Inserted(u)' /\ terms'[u].name = rows'[v][t].name => u = t
                    /\ \A x \in Workers : \A u \in flushed'[x] :
                         u = t \/ rows'[x][u].name = rows'[v][t].name => u = t /\ x = v
  BY DEF Apart
<1>1. t \in flushed[v] /\ rows'[v][t] = rows[v][t]
  OBVIOUS
<1>2. \A u \in TagIds : Inserted(u)' /\ terms'[u].name = rows'[v][t].name => u = t
  BY <1>1 DEF Apart
<1>3. \A x \in Workers : \A u \in flushed'[x] :
        u = t \/ rows'[x][u].name = rows'[v][t].name => u = t /\ x = v
  BY <1>1 DEF Apart
<1> QED BY <1>2, <1>3

\* Loading a prompt writes nothing.
LEMMA LoadPromptKeeps ==
  ASSUME IInv, NEW w \in Workers, LoadPrompt(w), undisturbed' \in [Workers -> BOOLEAN]
  PROVE  IInv'
<1> USE DEF LoadPrompt, Goto
<1>1. PICK p \in PromptIds, body \in Bodies :
        /\ \A c \in body.categories : Live(c)
        /\ target' = [target EXCEPT ![w] = p]
        /\ todo'   = [todo EXCEPT ![w] = body.tags]
        /\ chosen' = [chosen EXCEPT ![w] = body.categories]
        /\ tables' = [tables EXCEPT ![w] = UNION body.tables]
        /\ had'    = [had EXCEPT ![w] = {l \in links : l[1] = p}]
        /\ rows'   = [rows EXCEPT ![w] =
                        [t \in Terms |-> IF t \in TagIds /\ <<p, t>> \in links
                                         THEN terms[t] ELSE None]]
  OBVIOUS
<1>2. /\ UNION body.tables \subseteq Terms
      /\ body.categories \subseteq Terms
      /\ body.tags \in Seq(Names)
  BY BodyFields DEF Terms
<1>3. \A t \in TagIds : <<p, t>> \in links => terms[t] \in Term
  BY DEF IInv, TypeOK, Inserted, Terms
<1>4. TypeOK'
  BY <1>1, <1>2, <1>3 DEF IInv, TypeOK, PCs
<1>5. NamesUnique' /\ \A l \in links' : Inserted(l[2])'
  BY DEF IInv, NamesUnique, Inserted
<1>6. flushed[w] = {}
  BY DEF IInv, Working, SavingPCs
<1>7. \A v \in Workers : Working(v)'
  BY <1>1, <1>6 DEF IInv, TypeOK, Working, Deletes, SavingPCs, Inserted
<1>8. \A v \in Workers : Staged(v)'
  <2> SUFFICES ASSUME NEW v \in Workers PROVE Staged(v)'
    OBVIOUS
  <2>1. CASE v # w
    BY <1>1, <2>1, StandsStill DEF IInv, TypeOK, Inserted
  <2>2. CASE v = w
    <3>1. chosen'[w] = body.categories /\ flushed'[w] = {} /\ pc'[w] = "tagging"
      BY <1>1, <1>6 DEF IInv, TypeOK
    <3>2. rows'[w] = [t \in Terms |-> IF t \in TagIds /\ <<p, t>> \in links
                                      THEN terms[t] ELSE None]
      BY <1>1 DEF IInv, TypeOK
    <3>3. \A t \in TagIds : rows'[w][t] # None => Inserted(t)
      BY <3>2 DEF IInv, Terms
    <3> QED BY <1>1, <2>2, <3>1, <3>3 DEF Staged, Inserted, Live
  <2> QED BY <2>1, <2>2
<1>9. \A v \in Workers : Apart(v)'
  <2>1. \A v \in Workers : \A t \in flushed[v] : rows'[v][t] = rows[v][t]
    BY <1>1, <1>6 DEF IInv, TypeOK
  <2> QED BY <2>1, StayApart DEF IInv, Inserted
<1> QED BY <1>4, <1>5, <1>7, <1>8, <1>9 DEF IInv

\* A tag that is flushed is seen as it was flushed.
LEMMA SeenFlushed ==
  ASSUME IInv, NEW w \in Workers, NEW t \in flushed[w]
  PROVE  t \in TagIds /\ t \in Terms /\ rows[w][t] \in Term /\ Seen(w, t) = rows[w][t]
<1>1. t \in TagIds /\ t \in Terms
  BY DEF IInv, TypeOK, Terms
<1>2. rows[w] \in [Terms -> Term \cup {None}] /\ rows[w][t] # None
  BY DEF IInv, TypeOK, Staged
<1> QED BY <1>1, <1>2 DEF Seen

\* A session sees a row only of a tag that is in the table or that it wrote.
LEMMA SeenThere ==
  ASSUME IInv, NEW w \in Workers, NEW t \in TagIds, Seen(w, t) # Absent
  PROVE  Seen(w, t) \in Term
<1>1. rows[w] \in [Terms -> Term \cup {None}] /\ terms[t] \in Term \cup {Absent} /\ t \in Terms
  BY DEF IInv, TypeOK, Terms
<1> QED BY <1>1 DEF Seen

LEMMA LookUpKeeps ==
  ASSUME IInv, NEW w \in Workers, LookUp(w), undisturbed' \in [Workers -> BOOLEAN]
  PROVE  IInv'
<1> DEFINE n == Normal[Head(todo[w])]
           same == SeenAs(w, n)
           found == {t \in same : Seen(w, t).live}
<1>1. /\ Tail(todo[w]) \in Seq(Names)
      /\ todo[w] # <<>> 
      /\ n \in Names \cup {None}
  <2>1. todo[w] \in Seq(Names) /\ todo[w] # <<>>
    BY DEF LookUp, IInv, TypeOK
  <2>2. Head(todo[w]) \in Names /\ Tail(todo[w]) \in Seq(Names)
    BY <2>1
  <2> QED BY <2>1, <2>2, TaxonomyAssumption DEF n
<1>2. \A t \in found : t \in Terms /\ Seen(w, t) \in Term
  BY SeenThere DEF SeenAs, Terms
<1>3. /\ terms' = terms /\ links' = links /\ target' = target /\ tables' = tables
      /\ had' = had /\ flushed' = flushed /\ locked' = locked
  BY DEF LookUp
<1>4. NamesUnique' /\ \A l \in links' : Inserted(l[2])'
  BY <1>3 DEF IInv, NamesUnique, Inserted
<1>5. CASE Blank(n) \/ found # {}
  <2>1. /\ chosen' = [chosen EXCEPT ![w] = @ \cup found]
        /\ todo'   = [todo EXCEPT ![w] = Tail(@)]
        /\ rows'   = [rows EXCEPT ![w] =
                        [t \in Terms |-> IF t \in found THEN Seen(w, t) ELSE @[t]]]
        /\ pc' = pc /\ name' = name
    BY <1>5 DEF LookUp
  <2>2. \A t \in Terms :
          rows'[w][t] = IF t \in found THEN Seen(w, t) ELSE rows[w][t]
    BY <2>1 DEF IInv, TypeOK
  <2>3. \A t \in flushed[w] : rows'[w][t] = rows[w][t]
    BY <2>2, SeenFlushed
  <2>4. TypeOK'
    BY <1>1, <1>2, <1>3, <2>1 DEF IInv, TypeOK
  <2>5. \A v \in Workers : Working(v)'
    BY <1>3, <2>1, pc[w] = "tagging"
       DEF LookUp, IInv, TypeOK, Working, Deletes, SavingPCs, Inserted
  <2>6. \A v \in Workers : Staged(v)'
    <3> SUFFICES ASSUME NEW v \in Workers PROVE Staged(v)'
      OBVIOUS
    <3>1. CASE v # w
      BY <1>3, <2>1, <3>1, StandsStill DEF IInv, TypeOK, Inserted
    <3>2. CASE v = w
      <4>1. \A t \in found : t \in TagIds /\ (Inserted(t) \/ t \in flushed[w])
        BY DEF SeenAs, Seen, IInv, Staged, Inserted
      <4>2. chosen'[w] = chosen[w] \cup found
        BY <2>1 DEF IInv, TypeOK
      <4>3. \A t \in TagIds : rows'[w][t] # None => Inserted(t) \/ t \in flushed[w]
        BY <2>2, <4>1 DEF IInv, Staged, Terms
      <4>4. pc'[w] = "tagging" /\ Staged(w)
        BY <2>1 DEF LookUp, IInv
      <4>5. \A t \in chosen'[w] : Inserted(t) \/ t \in flushed[w]
        BY <4>1, <4>2, <4>4 DEF Staged
      <4>6. \A t \in flushed[w] :
              rows'[w][t] # None /\ (Inserted(t) => rows'[w][t].name = terms[t].name)
        BY <2>3, <4>4 DEF Staged
      <4> QED BY <1>3, <3>2, <4>3, <4>4, <4>5, <4>6 DEF Staged, Inserted
    <3> QED BY <3>1, <3>2
  <2>7. \A v \in Workers : Apart(v)'
    <3>1. \A v \in Workers : \A t \in flushed[v] : rows'[v][t] = rows[v][t]
      BY <2>1, <2>3 DEF IInv, TypeOK
    <3> QED BY <1>3, <3>1, StayApart DEF IInv, Inserted
  <2> QED BY <1>4, <2>4, <2>5, <2>6, <2>7 DEF IInv
<1>6. CASE ~(Blank(n) \/ found # {})
  <2>1. /\ name' = [name EXCEPT ![w] = n]
        /\ pc' = [pc EXCEPT ![w] = IF same = {} THEN "inserting tag" ELSE "resurrecting"]
        /\ chosen' = chosen /\ todo' = todo /\ rows' = rows
    BY <1>6 DEF LookUp, Goto
  <2>2. n \in Names /\ pc[w] = "tagging"
    BY <1>1, <1>6 DEF Blank, LookUp
  <2>3. TypeOK'
    BY <1>3, <2>1, <2>2 DEF IInv, TypeOK, PCs
  <2>4. \A v \in Workers : Working(v)'
    BY <1>1, <1>3, <2>1, <2>2 DEF IInv, TypeOK, Working, Deletes, SavingPCs, Inserted
  <2>5. \A v \in Workers : Staged(v)'
    <3> SUFFICES ASSUME NEW v \in Workers PROVE Staged(v)'
      OBVIOUS
    <3>1. CASE v # w
      BY <1>3, <2>1, <3>1, StandsStill DEF IInv, TypeOK, Inserted
    <3>2. CASE v = w
      <4>1. SUFFICES ASSUME pc'[w] = "inserting tag", NEW t \in flushed[w]
                     PROVE  rows[w][t].name # n
        BY <1>3, <2>1, <3>2 DEF IInv, TypeOK, Staged, Inserted
      <4>2. same = {}
        BY <2>1, <4>1 DEF IInv, TypeOK
      <4> QED BY <4>2, SeenFlushed, Rows DEF SeenAs
    <3> QED BY <3>1, <3>2
  <2>6. \A v \in Workers : Apart(v)'
    BY <1>3, <2>1, StayApart DEF IInv, Inserted
  <2> QED BY <1>4, <2>3, <2>4, <2>5, <2>6 DEF IInv
<1> QED BY <1>5, <1>6

\* A step in which a worker writes and sees no row.
LEMMA MoveKeeps ==
  ASSUME IInv, NEW w \in Workers, TypeOK', Working(w)', pc'[w] # "inserting tag",
         terms' = terms, links' = links, rows' = rows, flushed' = flushed, chosen' = chosen,
         \A v \in Workers \ {w} :
           /\ pc'[v] = pc[v] /\ target'[v] = target[v] /\ todo'[v] = todo[v]
           /\ name'[v] = name[v] /\ tables'[v] = tables[v]
  PROVE  IInv'
<1>1. NamesUnique' /\ \A l \in links' : Inserted(l[2])'
  BY DEF IInv, NamesUnique, Inserted
<1>2. \A v \in Workers \ {w} : Working(v)' /\ Staged(v)'
  BY StandsStill DEF IInv, Inserted
<1>3. Staged(w)'
  <2>1. Staged(w)
    BY DEF IInv
  <2> QED BY <2>1 DEF Staged, Inserted
<1>4. \A v \in Workers : Apart(v)'
  BY StayApart DEF IInv, Inserted
<1> QED BY <1>1, <1>2, <1>3, <1>4 DEF IInv

\* The looking up ends.
LEMMA FinishTagsKeeps ==
  ASSUME IInv, NEW w \in Workers, FinishTags(w), undisturbed' \in [Workers -> BOOLEAN]
  PROVE  IInv'
<1> USE DEF FinishTags, Goto, session
<1>1. TypeOK'
  BY DEF IInv, TypeOK, PCs
<1>2. Working(w)'
  BY DEF IInv, TypeOK, Working, Deletes, SavingPCs
<1> QED BY <1>1, <1>2, MoveKeeps DEF IInv, TypeOK

\* A name that is sent belongs to one of the tables.
LEMMA SentFields ==
  ASSUME NEW sent \in Named
  PROVE  sent.table \in {CategoryIds, TagIds} /\ sent.table \subseteq Terms /\ sent.name \in Names
BY TaxonomyAssumption DEF Terms

\* The checks for a duplicate write nothing.
LEMMA CheckNameKeeps ==
  ASSUME IInv, NEW w \in Workers, CheckName(w), undisturbed' \in [Workers -> BOOLEAN]
  PROVE  IInv'
<1> USE DEF CheckName, Goto
<1>1. PICK sent \in Named : name'   = [name EXCEPT ![w] = sent.name] /\
                            tables' = [tables EXCEPT ![w] = sent.table]
  OBVIOUS
<1>2. TypeOK'
  BY <1>1, SentFields DEF IInv, TypeOK, PCs
<1>3. Working(w)'
  BY <1>1, SentFields DEF IInv, TypeOK, Working, Deletes, SavingPCs
<1> QED BY <1>1, <1>2, <1>3, MoveKeeps DEF IInv, TypeOK

LEMMA LoadCategoryKeeps ==
  ASSUME IInv, NEW w \in Workers, LoadCategory(w), undisturbed' \in [Workers -> BOOLEAN]
  PROVE  IInv'
<1> USE DEF LoadCategory, Goto
<1>1. PICK c \in CategoryIds, sent \in Named :
        /\ Live(c)
        /\ target' = [target EXCEPT ![w] = c]
        /\ name'   = [name EXCEPT ![w] = sent.name]
        /\ tables' = [tables EXCEPT ![w] = CategoryIds]
  OBVIOUS
<1>2. TypeOK'
  BY <1>1, SentFields DEF IInv, TypeOK, PCs, Terms
<1>3. Working(w)'
  BY <1>1, SentFields DEF IInv, TypeOK, Working, Deletes, SavingPCs, Live, Inserted
<1> QED BY <1>1, <1>2, <1>3, MoveKeeps DEF IInv, TypeOK

\* A deletion loads its row, and then deletes the links it finds.
LEMMA LoadTermKeeps ==
  ASSUME IInv, NEW w \in Workers, LoadTerm(w), undisturbed' \in [Workers -> BOOLEAN]
  PROVE  IInv'
<1> USE DEF LoadTerm, Goto
<1>1. PICK t \in Terms : Live(t) /\ target' = [target EXCEPT ![w] = t]
  OBVIOUS
<1>2. TypeOK'
  BY <1>1 DEF IInv, TypeOK, PCs
<1>3. Working(w)'
  BY <1>1 DEF IInv, TypeOK, Working, Deletes, SavingPCs, Live, Inserted
<1> QED BY <1>1, <1>2, <1>3, MoveKeeps DEF IInv, TypeOK

LEMMA DeleteLinksKeeps ==
  ASSUME IInv, NEW w \in Workers, DeleteLinks(w), undisturbed' \in [Workers -> BOOLEAN]
  PROVE  IInv'
<1> USE DEF DeleteLinks, Goto
<1>1. Unlinked(w) \subseteq Links
  BY DEF IInv, TypeOK, Unlinked, Written
<1>2. TypeOK'
  BY <1>1 DEF IInv, TypeOK, PCs
<1>3. Working(w)'
  BY DEF IInv, TypeOK, Working, Deletes, SavingPCs, Inserted
<1> QED BY <1>2, <1>3, MoveKeeps DEF IInv, TypeOK

LEMMA NoRowsType == NoRows \in [Terms -> Term \cup {None}]
BY DEF NoRows

\* A worker that commits or rolls back leaves the others as they are.
LEMMA RespondKeeps ==
  ASSUME IInv, NEW w \in Workers, Respond(w), undisturbed' \in [Workers -> BOOLEAN],
         terms' \in [Terms -> Term \cup {Absent}],
         links' \subseteq Links,
         NamesUnique',
         \A l \in links' : Inserted(l[2])',
         \A t \in Terms : Inserted(t) => Inserted(t)',
         \A v \in Workers \ {w} : \A t \in flushed[v] :
           /\ Inserted(t)' => Inserted(t) /\ terms'[t].name = terms[t].name
           /\ \A u \in TagIds :
                Inserted(u)' /\ terms'[u].name = rows[v][t].name => u = t
  PROVE  IInv'
<1> USE DEF Respond, Released, Goto
<1>1. /\ pc'[w] = "idle" /\ chosen'[w] = {} /\ flushed'[w] = {}
      /\ rows'[w] = NoRows
  BY DEF IInv, TypeOK
<1>2. TypeOK'
  <2>1. <<>> \in Seq(Names)
    OBVIOUS
  <2> QED BY <2>1, NoRowsType DEF IInv, TypeOK, PCs
<1>3. \A v \in Workers \ {w} : Working(v)' /\ Staged(v)'
  BY StandsStill DEF IInv, TypeOK
<1>4. Working(w)'
  BY <1>1 DEF Working, Deletes, SavingPCs
<1>5. Staged(w)'
  <2>1. \A t \in TagIds : rows'[w][t] = None
    BY <1>1 DEF NoRows, Terms
  <2> QED BY <1>1, <2>1 DEF Staged
<1>6. \A v \in Workers : Apart(v)'
  <2>1. \A v \in Workers \ {w} : flushed'[v] = flushed[v] /\ rows'[v] = rows[v]
    BY DEF IInv, TypeOK
  <2> SUFFICES ASSUME NEW v \in Workers, NEW t \in flushed'[v]
               PROVE  /\ \A u \in TagIds : Inserted(u)' /\ terms'[u].name = rows'[v][t].name => u = t
                      /\ \A x \in Workers : \A u \in flushed'[x] :
                           u = t \/ rows'[x][u].name = rows'[v][t].name => u = t /\ x = v
    BY DEF Apart
  <2>2. v # w /\ t \in flushed[v] /\ rows'[v] = rows[v] /\ Apart(v)
    BY <1>1, <2>1 DEF IInv
  <2>3. \A u \in TagIds : Inserted(u)' /\ terms'[u].name = rows'[v][t].name => u = t
    BY <2>2
  <2>4. ASSUME NEW x \in Workers, NEW u \in flushed'[x], u = t \/ rows'[x][u].name = rows'[v][t].name
        PROVE  u = t /\ x = v
    <3>1. x # w /\ u \in flushed[x] /\ rows'[x] = rows[x]
      BY <1>1, <2>1
    <3> QED BY <2>2, <2>4, <3>1 DEF Apart
  <2> QED BY <2>3, <2>4
<1> QED BY <1>2, <1>3, <1>4, <1>5, <1>6 DEF IInv

\* A rollback changes no row.
LEMMA RollbackKeeps ==
  ASSUME IInv, NEW w \in Workers, Respond(w), UNCHANGED <<terms, links>>,
         undisturbed' \in [Workers -> BOOLEAN]
  PROVE  IInv'
<1>1. terms' = terms /\ links' = links
  OBVIOUS
<1>2. /\ terms' \in [Terms -> Term \cup {Absent}]
      /\ links' \subseteq Links
      /\ NamesUnique'
      /\ \A l \in links' : Inserted(l[2])'
  BY <1>1 DEF IInv, TypeOK, NamesUnique, Inserted
<1>3. \A v \in Workers : \A t \in flushed[v] : \A u \in TagIds :
        Inserted(u)' /\ terms'[u].name = rows[v][t].name => u = t
  BY <1>1 DEF IInv, Apart, Inserted
<1> QED BY <1>1, <1>2, <1>3, RespondKeeps DEF Inserted

\* The kill of the process rolls everything back.
LEMMA CrashKeeps ==
  ASSUME IInv, Crash, undisturbed' \in [Workers -> BOOLEAN]
  PROVE  IInv'
<1> USE DEF Crash
<1>1. TypeOK'
  <2>1. <<>> \in Seq(Names)
    OBVIOUS
  <2> QED BY <2>1, NoRowsType DEF IInv, TypeOK, PCs
<1>2. NamesUnique' /\ \A l \in links' : Inserted(l[2])'
  BY DEF IInv, NamesUnique, Inserted
<1>3. \A w \in Workers : Working(w)' /\ Apart(w)'
  BY DEF Working, Apart, Deletes, SavingPCs
<1>4. \A w \in Workers : Staged(w)'
  BY DEF Staged, NoRows, Terms
<1> QED BY <1>1, <1>2, <1>3, <1>4 DEF IInv

\* POST /categories and /tags: the name is in no row of the table, nor in the
\* transaction of another worker, which the insertion waits for.
LEMMA InsertTermKeeps ==
  ASSUME IInv, NEW w \in Workers, InsertTerm(w), undisturbed' \in [Workers -> BOOLEAN]
  PROVE  IInv' /\ \A t \in Terms : Inserted(t) => terms'[t] = terms[t]
<1>1. PICK t \in tables[w] :
        /\ ~Inserted(t)
        /\ \A v \in Workers : t \notin flushed[v]
        /\ terms' = [terms EXCEPT ![t] = [name |-> name[w], live |-> TRUE]]
  BY DEF InsertTerm
<1>2. /\ tables[w] \in {CategoryIds, TagIds} /\ name[w] \in Names /\ flushed[w] = {}
      /\ links' = links /\ t \in Terms
  BY DEF InsertTerm, IInv, Working, SavingPCs, Terms
<1> DEFINE row == [name |-> name[w], live |-> TRUE]
<1>3. row \in Term
  BY <1>2 DEF Term
<1>4. /\ terms' \in [Terms -> Term \cup {Absent}]
      /\ terms'[t] = row
      /\ \A u \in Terms \ {t} : terms'[u] = terms[u]
  BY <1>1, <1>2, <1>3 DEF IInv, TypeOK
<1>5. \A u \in Terms : Inserted(u) => u # t /\ terms'[u] = terms[u] /\ Inserted(u)'
  BY <1>1, <1>4 DEF Inserted
<1>6. \A u \in tables[w] : Inserted(u) => terms[u].name # name[w]
  BY DEF InsertTerm, Duplicate, Taken, Inserted
<1>7. NamesUnique'
  <2> SUFFICES ASSUME NEW a \in Terms, NEW b \in Terms, Table(a) = Table(b),
                      Inserted(a)', Inserted(b)', terms'[a].name = terms'[b].name, a # b
               PROVE  FALSE
    BY DEF NamesUnique, Table
  <2>1. CASE a # t /\ b # t
    BY <1>4, <2>1 DEF IInv, NamesUnique, Inserted
  <2>2. \A c \in Terms : Table(c) = Table(t) => c \in tables[w]
    BY <1>2, TaxonomyAssumption DEF Table, Terms
  <2>3. CASE a = t
    BY <1>4, <1>6, <2>2, <2>3 DEF Inserted
  <2>4. CASE b = t
    BY <1>4, <1>6, <2>2, <2>4 DEF Inserted
  <2> QED BY <2>1, <2>3, <2>4
<1>8. ASSUME NEW v \in Workers \ {w}, NEW f \in flushed[v]
      PROVE  /\ Inserted(f)' => Inserted(f) /\ terms'[f].name = terms[f].name
             /\ \A u \in TagIds : Inserted(u)' /\ terms'[u].name = rows[v][f].name => u = f
  <2>1. f \in TagIds /\ f # t /\ f \in Terms /\ Apart(v)
    BY <1>1, <1>8 DEF IInv, TypeOK, Terms
  <2>2. t \in TagIds => rows[v][f].name # name[w]
    <3>1. t \in TagIds => tables[w] = TagIds
      BY <1>1, <1>2, TaxonomyAssumption
    <3> QED BY <3>1 DEF InsertTerm, Waits, WaitsFor, HoldsName
  <2> QED BY <1>4, <2>1, <2>2 DEF Inserted, Apart, Terms
<1>9. Respond(w)
  BY DEF InsertTerm
<1>10. links' \subseteq Links /\ \A l \in links' : Inserted(l[2])'
  BY <1>2, <1>5 DEF IInv, TypeOK, Links
<1> QED BY <1>4, <1>5, <1>7, <1>8, <1>9, <1>10, RespondKeeps

\* A renamed category differs from all others, whatever happened since the check.
LEMMA RenameKeeps ==
  ASSUME IInv, NEW w \in Workers, Rename(w), undisturbed' \in [Workers -> BOOLEAN]
  PROVE  /\ IInv'
         /\ \A t \in TagIds : terms'[t] = terms[t]
         /\ \A t \in Terms : Inserted(t) => Inserted(t)' /\ terms'[t].live = terms[t].live
<1> DEFINE c == target[w]
           row == Renamed(terms[c], name[w])
<1>1. /\ c \in CategoryIds /\ c \in Terms /\ c \notin TagIds /\ Inserted(c)
      /\ name[w] \in Names /\ links' = links
      /\ terms' = [terms EXCEPT ![c] = row]
  BY TaxonomyAssumption DEF Rename, IInv, Working, Terms
<1>2. terms[c] \in Term
  BY <1>1 DEF IInv, TypeOK, Inserted
<1>3. row \in Term /\ row.name = name[w] /\ row.live = terms[c].live
  BY <1>1, <1>2 DEF Renamed, Term
<1>4. /\ terms' \in [Terms -> Term \cup {Absent}]
      /\ terms'[c] = row
      /\ \A u \in Terms \ {c} : terms'[u] = terms[u]
  BY <1>1, <1>3 DEF IInv, TypeOK
<1>5. row # Absent
  BY <1>3, Rows
<1>6. \A t \in TagIds : terms'[t] = terms[t]
  BY <1>1, <1>4 DEF Terms
<1>7. \A t \in Terms : Inserted(t) => Inserted(t)' /\ terms'[t].live = terms[t].live
  BY <1>3, <1>4, <1>5 DEF Inserted
<1>8. NamesUnique'
  <2> SUFFICES ASSUME NEW a \in Terms, NEW b \in Terms, Table(a) = Table(b),
                      Inserted(a)', Inserted(b)', terms'[a].name = terms'[b].name, a # b
               PROVE  FALSE
    BY DEF NamesUnique, Table
  <2>1. \A u \in CategoryIds \ {c} : Inserted(u) => terms[u].name # name[w]
    BY DEF Rename, Duplicate, Taken, Inserted
  <2>2. \A u \in Terms : Table(u) = Table(c) => u \in CategoryIds
    BY <1>1, TaxonomyAssumption DEF Table, Terms
  <2>3. CASE a # c /\ b # c
    BY <1>4, <2>3 DEF IInv, NamesUnique, Inserted
  <2>4. CASE a = c
    BY <1>3, <1>4, <2>1, <2>2, <2>4 DEF Inserted
  <2>5. CASE b = c
    BY <1>3, <1>4, <2>1, <2>2, <2>5 DEF Inserted
  <2> QED BY <2>3, <2>4, <2>5
<1>9. ASSUME NEW v \in Workers \ {w}, NEW f \in flushed[v]
      PROVE  /\ Inserted(f)' => Inserted(f) /\ terms'[f].name = terms[f].name
             /\ \A u \in TagIds : Inserted(u)' /\ terms'[u].name = rows[v][f].name => u = f
  <2>1. f \in TagIds /\ Apart(v)
    BY DEF IInv, TypeOK
  <2> QED BY <1>6, <2>1 DEF Inserted, Apart
<1>10. Respond(w)
  BY DEF Rename
<1>11. links' \subseteq Links /\ \A l \in links' : Inserted(l[2])'
  BY <1>1, <1>7 DEF IInv, TypeOK, Links
<1> QED BY <1>4, <1>6, <1>7, <1>8, <1>9, <1>10, <1>11, RespondKeeps

\* A deletion changes no name and removes links only.
LEMMA CommitDeletionKeeps ==
  ASSUME IInv, NEW w \in Workers, CommitDeletion(w), undisturbed' \in [Workers -> BOOLEAN]
  PROVE  /\ IInv'
         /\ \A t \in Terms : Inserted(t) =>
              /\ Inserted(t)' /\ terms'[t].name = terms[t].name
              /\ ~terms[t].live => ~terms'[t].live
<1> DEFINE c == target[w]
           row == [terms[c] EXCEPT !.live = FALSE]
<1>1. /\ c \in Terms /\ Inserted(c)
      /\ terms' = [terms EXCEPT ![c] = row]
      /\ links' = links \ locked[w]
  BY DEF CommitDeletion, IInv, Working, Deletes
<1>2. terms[c] \in Term
  BY <1>1 DEF IInv, TypeOK, Inserted
<1>3. row \in Term /\ row.name = terms[c].name /\ ~row.live
  BY <1>2 DEF Term
<1>4. /\ terms' \in [Terms -> Term \cup {Absent}]
      /\ terms'[c] = row
      /\ \A u \in Terms \ {c} : terms'[u] = terms[u]
  BY <1>1, <1>3 DEF IInv, TypeOK
<1>5. \A t \in Terms :
        /\ Inserted(t)' <=> Inserted(t)
        /\ Inserted(t) => /\ terms'[t].name = terms[t].name
                          /\ ~terms[t].live => ~terms'[t].live
  BY <1>1, <1>3, <1>4, Rows DEF Inserted
<1>6. NamesUnique'
  BY <1>5 DEF IInv, NamesUnique, Table
<1>7. ASSUME NEW v \in Workers \ {w}, NEW f \in flushed[v]
      PROVE  /\ Inserted(f)' => Inserted(f) /\ terms'[f].name = terms[f].name
             /\ \A u \in TagIds : Inserted(u)' /\ terms'[u].name = rows[v][f].name => u = f
  <2>1. f \in TagIds /\ Apart(v)
    BY DEF IInv, TypeOK
  <2> QED BY <1>5, <2>1 DEF Apart, Terms
<1>8. Respond(w)
  BY DEF CommitDeletion
<1>9. links' \subseteq Links /\ \A l \in links' : Inserted(l[2])'
  BY <1>1, <1>5 DEF IInv, TypeOK, Links
<1> QED BY <1>4, <1>5, <1>6, <1>7, <1>8, <1>9, RespondKeeps

\* A commit of a prompt commits the tags of its transaction, whose names are
\* in no other row and no other transaction.
LEMMA SavePromptKeeps ==
  ASSUME IInv, NEW w \in Workers, SavePrompt(w), undisturbed' \in [Workers -> BOOLEAN]
  PROVE  /\ IInv'
         /\ \A t \in CategoryIds : terms'[t] = terms[t]
         /\ \A t \in Terms : Inserted(t) => Inserted(t)' /\ terms'[t].name = terms[t].name
<1>1. /\ terms' = [t \in Terms |-> IF t \in flushed[w] THEN rows[w][t] ELSE terms[t]]
      /\ links' = (links \ Dropped(w, Terms)) \cup Added(w, Terms)
      /\ pc[w] = "saving" /\ Respond(w)
  BY DEF SavePrompt
<1>2. /\ Working(w) /\ Staged(w) /\ Apart(w)
      /\ flushed[w] \subseteq TagIds
      /\ \A t \in flushed[w] : rows[w][t] \in Term
  BY SeenFlushed DEF IInv, TypeOK
<1>3. /\ terms' \in [Terms -> Term \cup {Absent}]
      /\ \A t \in flushed[w] : terms'[t] = rows[w][t] /\ Inserted(t)'
      /\ \A t \in Terms \ flushed[w] : terms'[t] = terms[t]
  BY <1>1, <1>2, Rows DEF IInv, TypeOK, Terms, Inserted
<1>4. \A t \in Terms : Inserted(t) => Inserted(t)' /\ terms'[t].name = terms[t].name
  BY <1>2, <1>3 DEF Staged, Inserted
<1>5. \A t \in CategoryIds : terms'[t] = terms[t]
  BY <1>2, <1>3, TaxonomyAssumption DEF Terms
<1>6. NamesUnique'
  <2> SUFFICES ASSUME NEW a \in Terms, NEW b \in Terms, Table(a) = Table(b),
                      Inserted(a)', Inserted(b)', terms'[a].name = terms'[b].name
               PROVE  a = b
    BY DEF NamesUnique, Table
  <2>1. CASE a \notin flushed[w] /\ b \notin flushed[w]
    BY <1>3, <2>1 DEF IInv, NamesUnique, Inserted
  <2>2. CASE a \in flushed[w] /\ b \in flushed[w]
    BY <1>2, <1>3, <2>2 DEF Apart
  <2>3. \A x \in Terms, y \in Terms : x \in TagIds /\ Table(x) = Table(y) => y \in TagIds
    BY TaxonomyAssumption DEF Table, Terms
  <2>4. CASE a \in flushed[w] /\ b \notin flushed[w]
    BY <1>2, <1>3, <2>3, <2>4 DEF Apart, Inserted
  <2>5. CASE a \notin flushed[w] /\ b \in flushed[w]
    BY <1>2, <1>3, <2>3, <2>5 DEF Apart, Inserted
  <2> QED BY <2>1, <2>2, <2>4, <2>5
<1>7. ASSUME NEW v \in Workers \ {w}, NEW f \in flushed[v]
      PROVE  /\ Inserted(f)' => Inserted(f) /\ terms'[f].name = terms[f].name
             /\ \A u \in TagIds : Inserted(u)' /\ terms'[u].name = rows[v][f].name => u = f
  <2>1. f \in TagIds /\ f \in Terms /\ Apart(v)
    BY DEF IInv, TypeOK, Terms
  <2>2. \A u \in flushed[w] : rows[w][u].name # rows[v][f].name
    BY <1>2, <1>7 DEF Apart
  <2>3. f \notin flushed[w]
    BY <1>2, <1>7 DEF Apart
  <2>4. Inserted(f)' => Inserted(f) /\ terms'[f].name = terms[f].name
    BY <1>3, <2>1, <2>3 DEF Inserted
  <2>5. ASSUME NEW u \in TagIds, Inserted(u)', terms'[u].name = rows[v][f].name
        PROVE  u = f
    BY <1>3, <2>1, <2>2, <2>5 DEF Apart, Inserted, Terms
  <2> QED BY <2>4, <2>5
<1>8. \A t \in chosen[w] : t \in Terms /\ Inserted(t)'
  BY <1>2, <1>3, <1>4 DEF IInv, TypeOK, Staged
<1>9. target[w] \in PromptIds
  BY <1>1, <1>2 DEF Working, SavingPCs
<1>10. links' \subseteq Links /\ \A l \in links' : Inserted(l[2])'
  <2>1. ASSUME NEW l \in Added(w, Terms)
        PROVE  l \in Links /\ Inserted(l[2])'
    <3>1. PICK t \in chosen[w] : l = <<target[w], t>>
      BY DEF Added
    <3> QED BY <1>8, <1>9, <3>1 DEF Links
  <2>2. ASSUME NEW l \in links
        PROVE  l \in Links /\ Inserted(l[2])'
    BY <1>4 DEF IInv, TypeOK, Links
  <2> QED BY <1>1, <2>1, <2>2
<1> QED BY <1>1, <1>3, <1>4, <1>5, <1>6, <1>7, <1>10, RespondKeeps

\* A tag joins a transaction: its name is in no other row and no other
\* transaction, which the flush waits for.
LEMMA FlushKeeps ==
  ASSUME IInv, NEW w \in Workers, NEW t \in TagIds,
         Flush(w, t, [name |-> name[w], live |-> TRUE]),
         undisturbed' \in [Workers -> BOOLEAN],
         target[w] \in PromptIds, name[w] \in Names, todo[w] # <<>>,
         Inserted(t) => terms[t].name = name[w],
         \A u \in TagIds : Inserted(u) /\ terms[u].name = name[w] => u = t,
         \A v \in Workers \ {w} : t \notin flushed[v],
         \A v \in Workers \ {w} : \A u \in flushed[v] : rows[v][u].name # name[w],
         \A u \in flushed[w] : rows[w][u].name = name[w] => u = t
  PROVE  IInv'
<1> DEFINE row == [name |-> name[w], live |-> TRUE]
<1>0. row \in Term /\ row.name = name[w]
  BY DEF Term
<1>1. /\ rows' = [rows EXCEPT ![w][t] = row]
      /\ flushed' = [flushed EXCEPT ![w] = flushed[w] \cup {t}]
      /\ chosen' = [chosen EXCEPT ![w] = chosen[w] \cup {t}]
      /\ todo' = [todo EXCEPT ![w] = Tail(todo[w])]
      /\ name' = [name EXCEPT ![w] = None]
      /\ pc' = [pc EXCEPT ![w] = "tagging"]
      /\ locked' = [locked EXCEPT ![w] = locked[w] \cup Written(w)]
      /\ terms' = terms /\ links' = links /\ target' = target /\ tables' = tables /\ had' = had
  BY DEF Flush, Goto
<1>2. t \in Terms
  BY DEF Terms
<1>3. /\ rows'[w][t] = row
      /\ \A u \in Terms \ {t} : rows'[w][u] = rows[w][u]
      /\ \A v \in Workers \ {w} : rows'[v] = rows[v] /\ flushed'[v] = flushed[v]
      /\ flushed'[w] = flushed[w] \cup {t}
      /\ rows' \in [Workers -> [Terms -> Term \cup {None}]]
  BY <1>0, <1>1, <1>2 DEF IInv, TypeOK
<1>4. TypeOK'
  <2>1. Tail(todo[w]) \in Seq(Names)
    BY <1>2 DEF IInv, TypeOK
  <2>2. Written(w) \subseteq Links
    <3>1. \A table \in {CategoryIds, Terms} : Dropped(w, table) \subseteq Links
      BY DEF Dropped, IInv, TypeOK
    <3>2. \A table \in {CategoryIds, Terms} : Added(w, table) \subseteq Links
      BY DEF Added, Links, IInv, TypeOK
    <3>3. {l \in links : l[2] = target[w]} \subseteq Links
      BY DEF IInv, TypeOK
    <3> QED BY <3>1, <3>2, <3>3 DEF Written
  <2>3. "tagging" \in PCs
    BY DEF PCs
  <2> QED BY <1>1, <1>2, <1>3, <2>1, <2>2, <2>3 DEF IInv, TypeOK
<1>5. NamesUnique' /\ \A l \in links' : Inserted(l[2])'
  BY <1>1 DEF IInv, NamesUnique, Inserted
<1>6. \A v \in Workers \ {w} : Working(v)' /\ Staged(v)'
  BY <1>1, <1>3, StandsStill DEF IInv, TypeOK, Inserted
<1>7. Working(w)'
  BY <1>1, <1>2 DEF IInv, TypeOK, Working, Deletes, SavingPCs
<1>8. Staged(w)'
  <2>1. pc'[w] = "tagging" /\ chosen'[w] = chosen[w] \cup {t}
    BY <1>1 DEF IInv, TypeOK
  <2>2. row # None
    BY <1>0, Rows
  <2>3. flushed[w] \subseteq Terms
    BY DEF IInv, TypeOK, Terms
  <2>4. \A u \in chosen'[w] : Inserted(u)' \/ u \in flushed'[w]
    BY <1>1, <1>2, <1>3, <2>1 DEF IInv, Staged, Inserted
  <2>5. \A u \in flushed'[w] :
          rows'[w][u] # None /\ (Inserted(u)' => rows'[w][u].name = terms'[u].name)
    <3> SUFFICES ASSUME NEW u \in flushed'[w]
                 PROVE  rows'[w][u] # None /\ (Inserted(u)' => rows'[w][u].name = terms'[u].name)
      OBVIOUS
    <3>1. CASE u = t
      BY <1>0, <1>1, <1>3, <2>2, <3>1 DEF Inserted
    <3>2. CASE u # t
      <4>1. u \in flushed[w] /\ rows'[w][u] = rows[w][u]
        BY <1>3, <2>3, <3>2
      <4>2. rows[w][u] # None /\ (Inserted(u) => rows[w][u].name = terms[u].name)
        BY <4>1 DEF IInv, Staged
      <4> QED BY <1>1, <4>1, <4>2 DEF Inserted
    <3> QED BY <3>1, <3>2
  <2>6. \A u \in TagIds : rows'[w][u] # None => Inserted(u)' \/ u \in flushed'[w]
    BY <1>1, <1>2, <1>3 DEF IInv, Staged, Inserted, Terms
  <2> QED BY <2>1, <2>4, <2>5, <2>6 DEF Staged
<1>9. \A v \in Workers : Apart(v)'
  <2>1. \A v \in Workers \ {w} : \A u \in flushed[v] : rows[v][u].name # name[w] /\ u # t
    BY DEF HoldsName
  <2>2. flushed[w] \subseteq Terms
    BY DEF IInv, TypeOK, Terms
  <2>3. ASSUME NEW v \in Workers, NEW f \in flushed'[v], NEW u \in TagIds,
               Inserted(u)', terms'[u].name = rows'[v][f].name
        PROVE  u = f
    BY <1>0, <1>1, <1>3, <2>2, <2>3 DEF IInv, Apart, Inserted
  <2>4. ASSUME NEW v \in Workers, NEW f \in flushed'[v], NEW x \in Workers, NEW u \in flushed'[x],
               u = f \/ rows'[x][u].name = rows'[v][f].name
        PROVE  u = f /\ x = v
    <3>1. CASE f = t /\ v = w
      BY <1>0, <1>2, <1>3, <2>1, <2>2, <2>4, <3>1 DEF IInv, Apart
    <3>2. CASE u = t /\ x = w
      BY <1>0, <1>2, <1>3, <2>1, <2>2, <2>4, <3>2 DEF IInv, Apart
    <3>3. CASE ~(f = t /\ v = w) /\ ~(u = t /\ x = w)
      <4>1. f \in flushed[v] /\ rows'[v][f] = rows[v][f]
        BY <1>3, <2>2, <3>3
      <4>2. u \in flushed[x] /\ rows'[x][u] = rows[x][u]
        BY <1>3, <2>2, <3>3
      <4> QED BY <2>4, <4>1, <4>2 DEF IInv, Apart
    <3> QED BY <3>1, <3>2, <3>3
  <2> QED BY <2>3, <2>4 DEF IInv, Apart
<1> QED BY <1>4, <1>5, <1>6, <1>7, <1>8, <1>9 DEF IInv

LEMMA InsertTagKeeps ==
  ASSUME IInv, NEW w \in Workers, InsertTag(w), undisturbed' \in [Workers -> BOOLEAN]
  PROVE  IInv'
<1>1. PICK t \in TagIds :
        /\ ~Inserted(t)
        /\ \A v \in Workers : t \notin flushed[v]
        /\ Flush(w, t, [name |-> name[w], live |-> TRUE])
  BY DEF InsertTag
<1>2. /\ target[w] \in PromptIds /\ name[w] \in Names /\ todo[w] # <<>>
      /\ \A u \in flushed[w] : rows[w][u].name # name[w]
  BY DEF InsertTag, IInv, Working, Staged, SavingPCs
<1>3. \A u \in TagIds : Inserted(u) => terms[u].name # name[w]
  BY DEF InsertTag, Duplicate, Taken, Inserted
<1>4. \A v \in Workers \ {w} : \A u \in flushed[v] : rows[v][u].name # name[w]
  BY DEF InsertTag, Waits, WaitsFor, HoldsName
<1> QED BY <1>1, <1>2, <1>3, <1>4, FlushKeeps

LEMMA ResurrectTagKeeps ==
  ASSUME IInv, NEW w \in Workers, ResurrectTag(w), undisturbed' \in [Workers -> BOOLEAN]
  PROVE  IInv'
<1>1. PICK t \in TagIds :
        /\ Inserted(t)
        /\ terms[t].name = name[w]
        /\ Flush(w, t, Resurrected(terms[t]))
  BY DEF ResurrectTag
<1>2. target[w] \in PromptIds /\ name[w] \in Names /\ todo[w] # <<>>
  BY DEF ResurrectTag, IInv, Working, SavingPCs
<1>3. Resurrected(terms[t]) = [name |-> name[w], live |-> TRUE]
  BY <1>1 DEF Resurrected
<1>4. \A u \in TagIds : Inserted(u) /\ terms[u].name = name[w] => u = t
  BY <1>1 DEF IInv, NamesUnique, Table, Terms
<1>5. \A v \in Workers \ {w} : \A u \in flushed[v] : rows[v][u].name # name[w]
  BY DEF ResurrectTag, Waits, WaitsFor, HoldsName
<1>6. \A v \in Workers \ {w} : t \notin flushed[v]
  <2> SUFFICES ASSUME NEW v \in Workers \ {w}, t \in flushed[v] PROVE FALSE
    OBVIOUS
  <2>1. Staged(v)
    BY DEF IInv
  <2>2. rows[v][t].name = terms[t].name
    BY <1>1, <2>1 DEF Staged
  <2> QED BY <1>1, <1>5, <2>2
<1>7. \A u \in flushed[w] : rows[w][u].name = name[w] => u = t
  BY <1>1 DEF IInv, Apart
<1>8. Flush(w, t, [name |-> name[w], live |-> TRUE])
  BY <1>1, <1>3
<1> QED BY <1>1, <1>2, <1>4, <1>5, <1>6, <1>7, <1>8, FlushKeeps
----------------------------------------------------------------------------
\* Every step of the system keeps the invariant.
LEMMA NextKeeps == IInv /\ [Next]_vars => IInv'
<1> SUFFICES ASSUME IInv, [Next]_vars PROVE IInv'
  OBVIOUS
<1>1. CASE UNCHANGED vars
  <2> USE <1>1 DEF vars
  <2>1. TypeOK' /\ NamesUnique' /\ \A l \in links' : Inserted(l[2])'
    BY DEF IInv, TypeOK, NamesUnique, Inserted
  <2>2. \A w \in Workers : Working(w)' /\ Staged(w)'
    BY StandsStill DEF IInv, Inserted
  <2>3. \A w \in Workers : Apart(w)'
    BY StayApart DEF IInv, Inserted
  <2> QED BY <2>1, <2>2, <2>3 DEF IInv
<1>2. CASE Next
  <2>1. undisturbed' \in [Workers -> BOOLEAN]
    BY <1>2, OverlapType DEF Next, IInv
  <2>2. CASE Crash
    BY <2>1, <2>2, CrashKeeps
  <2>3. ASSUME NEW w \in Workers, Begin(w)
        PROVE  IInv'
    BY <2>1, <2>3, LoadPromptKeeps, CheckNameKeeps, LoadCategoryKeeps, LoadTermKeeps DEF Begin
  <2>4. ASSUME NEW w \in Workers, Proceed(w)
        PROVE  IInv'
    <3>1. CASE FailRequest(w) \/ BreakDeadlock(w)
      BY <2>1, <3>1, RollbackKeeps DEF FailRequest, BreakDeadlock
    <3> QED BY <2>1, <2>4, <3>1, LookUpKeeps, InsertTagKeeps, ResurrectTagKeeps,
              FinishTagsKeeps, SavePromptKeeps, InsertTermKeeps, RenameKeeps,
              DeleteLinksKeeps, CommitDeletionKeeps DEF Proceed
  <2> QED BY <1>2, <2>2, <2>3, <2>4 DEF Next
<1> QED BY <1>1, <1>2

\* The invariant holds in every state.
LEMMA Invariance == Spec => []IInv
<1>1. Init => IInv
  BY InitIInv
<1>2. IInv /\ [Next]_vars => IInv'
  BY NextKeeps
<1> QED BY <1>1, <1>2, PTL DEF Spec

\* Every variable has its type, with any bodies and names that clients send.
THEOREM TypeCorrect == Spec => []TypeOK
<1>1. IInv => TypeOK
  BY DEF IInv
<1> QED BY <1>1, Invariance, PTL

\* No two rows of a table have the same name, for any number of workers that
\* create, rename and resurrect them in any order.
THEOREM UniqueNames == Spec => []NamesUnique
<1>1. IInv => NamesUnique
  BY DEF IInv
<1> QED BY <1>1, Invariance, PTL

\* What a step may not do to a row that is there.
Kept ==
  \A t \in Terms :
    Inserted(t) =>
      /\ terms'[t] # Absent
      /\ t \in TagIds => terms'[t].name = terms[t].name
      /\ t \in CategoryIds /\ ~terms[t].live => ~terms'[t].live

\* A step that changes no row does none of this.
LEMMA SameRows == terms' = terms => Kept
BY DEF Kept, Inserted

\* Rows stay, tags keep their name and deleted categories stay deleted: the
\* rename of a category that another request has deleted does not revive it.
THEOREM RowsStay == Spec => TermsKept
<1>1. IInv /\ [Next]_vars => [Kept]_vars
  <2> SUFFICES ASSUME IInv, Next PROVE Kept
    OBVIOUS
  <2>1. undisturbed' \in [Workers -> BOOLEAN]
    BY OverlapType DEF Next, IInv
  <2>2. CASE Crash
    BY <2>2, SameRows DEF Crash
  <2>3. ASSUME NEW w \in Workers, Begin(w)
        PROVE  Kept
    BY <2>3, SameRows DEF Begin, LoadPrompt, CheckName, LoadCategory, LoadTerm
  <2>4. ASSUME NEW w \in Workers, Proceed(w)
        PROVE  Kept
    <3>1. CASE \/ LookUp(w) \/ InsertTag(w) \/ ResurrectTag(w) \/ FinishTags(w)
               \/ FailRequest(w) \/ BreakDeadlock(w) \/ DeleteLinks(w)
      BY <3>1, SameRows
         DEF LookUp, InsertTag, ResurrectTag, Flush, FinishTags, FailRequest,
             BreakDeadlock, DeleteLinks
    <3>2. CASE SavePrompt(w)
      BY <2>1, <3>2, SavePromptKeeps DEF Kept, Inserted, Terms
    <3>3. CASE InsertTerm(w)
      BY <2>1, <3>3, InsertTermKeeps DEF Kept, Inserted
    <3>4. CASE Rename(w)
      BY <2>1, <3>4, RenameKeeps DEF Kept, Inserted
    <3>5. CASE CommitDeletion(w)
      BY <2>1, <3>5, CommitDeletionKeeps DEF Kept, Inserted
    <3> QED BY <2>4, <3>1, <3>2, <3>3, <3>4, <3>5 DEF Proceed
  <2> QED BY <2>2, <2>3, <2>4 DEF Next
<1> QED BY <1>1, Invariance, PTL DEF Spec, TermsKept, Kept
-----------------------------------------------------------------------------
\* Of two requests that clash each has been disturbed by the other.
Separate(w) ==
  undisturbed[w] /\ pc[w] # "idle" => \A v \in Workers \ {w} : ~Clash(v, w)

\* The links a session has loaded are those of its prompt; it writes live tags only.
Loaded(w) ==
  /\ \A l \in had[w] : l[1] = target[w]
  /\ ~Saves(w) => had[w] = {}
  /\ \A t \in flushed[w] : rows[w][t].live

\* A row that w will commit, or that is live as it is.
Stands(w, t) == t \in flushed[w] \/ Live(t)

\* What an undisturbed save has loaded and chosen is as it was.
AsLoaded(w) ==
  Saves(w) /\ undisturbed[w] =>
    /\ had[w] = {l \in links : l[1] = target[w]}
    /\ \A t \in chosen[w] : Stands(w, t)
    /\ \A t \in TagIds : rows[w][t] # None /\ rows[w][t].live => Stands(w, t)

\* An undisturbed deletion holds all links of its row.
HoldsAll(w) ==
  pc[w] = "deleting" /\ undisturbed[w] =>
    \A l \in links : l[2] = target[w] => l \in locked[w]

Sound(w) == Loaded(w) /\ AsLoaded(w) /\ HoldsAll(w)

DInv == IInv /\ \A w \in Workers : Separate(w) /\ Sound(w)

\* A request clashes with none of those beside it, or is marked at once.
LEMMA SeparateNext ==
  ASSUME Overlap, NEW w \in Workers
  PROVE  Separate(w)' /\ (pc'[w] # "idle" /\ undisturbed'[w] => undisturbed[w])
BY DEF Overlap, Separate

\* A worker keeps its knowledge while another moves, as long as that one leaves
\* its links and the rows it has found alive.
LEMMA BesideKeeps ==
  ASSUME Overlap, NEW w \in Workers, Sound(w), TypeOK,
         pc'[w] = pc[w], target'[w] = target[w], chosen'[w] = chosen[w], had'[w] = had[w],
         rows'[w] = rows[w], flushed'[w] = flushed[w], locked'[w] = locked[w],
         Saves(w) /\ undisturbed[w] =>
           /\ {l \in links' : l[1] = target[w]} = {l \in links : l[1] = target[w]}
           /\ \A t \in Terms : Live(t) => Live(t)',
         pc[w] = "deleting" /\ undisturbed[w] =>
           \A l \in links' : l[2] = target[w] => l \in links
  PROVE  Sound(w)'
<1>1. Loaded(w)'
  BY DEF Sound, Loaded, Saves
<1>2. AsLoaded(w)'
  <2> SUFFICES ASSUME Saves(w)', undisturbed'[w]
               PROVE  /\ had'[w] = {l \in links' : l[1] = target'[w]}
                      /\ \A t \in chosen'[w] : Stands(w, t)'
                      /\ \A t \in TagIds : rows'[w][t] # None /\ rows'[w][t].live => Stands(w, t)'
    BY DEF AsLoaded
  <2>1. Saves(w) /\ undisturbed[w]
    BY SeparateNext DEF Saves
  <2>2. \A t \in Terms : Stands(w, t) => Stands(w, t)'
    BY <2>1 DEF Stands
  <2>3. chosen[w] \subseteq Terms /\ TagIds \subseteq Terms
    BY DEF TypeOK, Terms
  <2> QED BY <2>1, <2>2, <2>3 DEF Sound, AsLoaded
<1>3. HoldsAll(w)'
  BY SeparateNext DEF Sound, HoldsAll
<1> QED BY <1>1, <1>2, <1>3 DEF Sound

\* A request that ends knows nothing any more.
LEMMA EndSound ==
  ASSUME TypeOK, NEW w \in Workers, Respond(w)
  PROVE  Sound(w)'
<1>1. pc'[w] = "idle" /\ had'[w] = {} /\ flushed'[w] = {}
  BY DEF Respond, Goto, TypeOK
<1> QED BY <1>1 DEF Sound, Loaded, AsLoaded, HoldsAll, Saves

\* The others of a request that ends.
LEMMA RespondBeside ==
  ASSUME TypeOK, NEW u \in Workers, Respond(u), NEW w \in Workers \ {u}
  PROVE  /\ pc'[w] = pc[w] /\ target'[w] = target[w] /\ chosen'[w] = chosen[w]
         /\ had'[w] = had[w] /\ rows'[w] = rows[w] /\ flushed'[w] = flushed[w]
         /\ locked'[w] = locked[w]
BY DEF Respond, Released, Goto, TypeOK

\* A request that ends without a commit.
LEMMA RollbackSound ==
  ASSUME DInv, Overlap, NEW u \in Workers, Respond(u), UNCHANGED <<terms, links>>
  PROVE  \A w \in Workers : Sound(w)'
<1> SUFFICES ASSUME NEW w \in Workers \ {u} PROVE Sound(w)'
  BY EndSound DEF DInv, IInv
<1>1. TypeOK /\ Sound(w) /\ (\A t \in Terms : Live(t) => Live(t)')
  BY DEF DInv, IInv, Live, Inserted
<1> QED BY <1>1, RespondBeside, BesideKeeps

\* A step that commits nothing.
LEMMA QuietSound ==
  ASSUME DInv, Overlap, NEW u \in Workers, Sound(u)', UNCHANGED <<terms, links>>,
         \A w \in Workers \ {u} :
           /\ pc'[w] = pc[w] /\ target'[w] = target[w] /\ chosen'[w] = chosen[w]
           /\ had'[w] = had[w] /\ rows'[w] = rows[w] /\ flushed'[w] = flushed[w]
           /\ locked'[w] = locked[w]
  PROVE  \A w \in Workers : Sound(w)'
<1> SUFFICES ASSUME NEW w \in Workers \ {u} PROVE Sound(w)'
  OBVIOUS
<1>1. TypeOK /\ Sound(w) /\ (\A t \in Terms : Live(t) => Live(t)')
  BY DEF DInv, IInv, Live, Inserted
<1> QED BY <1>1, BesideKeeps

\* A prompt is loaded with its links as they are.
LEMMA LoadPromptSound ==
  ASSUME DInv, Overlap, NEW u \in Workers, LoadPrompt(u)
  PROVE  \A w \in Workers : Sound(w)'
<1>1. PICK p \in PromptIds, body \in Bodies :
        /\ \A c \in body.categories : Live(c)
        /\ target' = [target EXCEPT ![u] = p]
        /\ chosen' = [chosen EXCEPT ![u] = body.categories]
        /\ had'    = [had EXCEPT ![u] = {l \in links : l[1] = p}]
        /\ rows'   = [rows EXCEPT ![u] =
                        [t \in Terms |-> IF t \in TagIds /\ <<p, t>> \in links
                                         THEN terms[t] ELSE None]]
  BY DEF LoadPrompt
<1>2. /\ pc' = [pc EXCEPT ![u] = "tagging"]
      /\ UNCHANGED <<terms, links, flushed, locked>>
      /\ flushed[u] = {} /\ TypeOK
  BY DEF LoadPrompt, Goto, DInv, IInv, Working, SavingPCs
<1>3. /\ pc'[u] = "tagging" /\ target'[u] = p /\ chosen'[u] = body.categories
      /\ had'[u] = {l \in links : l[1] = p} /\ flushed'[u] = {} /\ links' = links
      /\ \A t \in TagIds : rows'[u][t] # None => rows'[u][t] = terms[t] /\ Inserted(t)
  BY <1>1, <1>2 DEF TypeOK, DInv, IInv, Terms
<1>4. \A t \in Terms : Live(t)' = Live(t)
  BY <1>2 DEF Live, Inserted
<1>5. \A c \in body.categories : c \in Terms
  BY BodyFields DEF Terms
<1>6. Sound(u)'
  <2>1. Loaded(u)'
    BY <1>3 DEF Loaded, Saves
  <2>2. \A t \in chosen'[u] : Stands(u, t)'
    BY <1>1, <1>3, <1>4, <1>5 DEF Stands
  <2>3. \A t \in TagIds : rows'[u][t] # None /\ rows'[u][t].live => Stands(u, t)'
    BY <1>3, <1>4 DEF Stands, Live, Terms
  <2> QED BY <1>3, <2>1, <2>2, <2>3 DEF Sound, AsLoaded, HoldsAll
<1> QED BY <1>1, <1>2, <1>6, QuietSound DEF TypeOK

\* The tags that are looked up are alive, as far as the session can know.
LEMMA LookUpSound ==
  ASSUME DInv, Overlap, NEW u \in Workers, LookUp(u)
  PROVE  \A w \in Workers : Sound(w)'
<1> DEFINE n == Normal[Head(todo[u])]
           same == SeenAs(u, n)
           found == {t \in same : Seen(u, t).live}
<1>1. /\ UNCHANGED <<terms, links, target, tables, had, flushed, locked>>
      /\ pc[u] = "tagging" /\ IInv /\ TypeOK /\ Sound(u)
      /\ \A t \in Terms : Live(t)' = Live(t)
  BY DEF LookUp, DInv, IInv, Live, Inserted
<1>2. CASE Blank(n) \/ found # {}
  <2>1. /\ chosen' = [chosen EXCEPT ![u] = @ \cup found]
        /\ rows'   = [rows EXCEPT ![u] =
                        [t \in Terms |-> IF t \in found THEN Seen(u, t) ELSE @[t]]]
        /\ pc' = pc
    BY <1>2 DEF LookUp
  <2>2. /\ chosen'[u] = chosen[u] \cup found
        /\ \A t \in Terms : rows'[u][t] = IF t \in found THEN Seen(u, t) ELSE rows[u][t]
    BY <1>1, <2>1 DEF TypeOK
  <2>3. \A t \in flushed[u] : rows'[u][t] = rows[u][t]
    BY <1>1, <2>2, SeenFlushed
  <2>4. Loaded(u)'
    BY <1>1, <2>1, <2>3 DEF Sound, Loaded, Saves
  <2>5. AsLoaded(u)'
    <3> SUFFICES ASSUME undisturbed'[u]
                 PROVE  /\ had'[u] = {l \in links' : l[1] = target'[u]}
                        /\ \A t \in chosen'[u] : Stands(u, t)'
                        /\ \A t \in TagIds : rows'[u][t] # None /\ rows'[u][t].live => Stands(u, t)'
      BY DEF AsLoaded
    <3>1. Saves(u) /\ undisturbed[u]
      BY <1>1, <2>1, SeparateNext DEF Saves
    <3>2. /\ had[u] = {l \in links : l[1] = target[u]}
          /\ \A t \in chosen[u] : Stands(u, t)
          /\ \A t \in TagIds : rows[u][t] # None /\ rows[u][t].live => Stands(u, t)
      BY <1>1, <3>1 DEF Sound, AsLoaded
    <3>3. \A t \in Terms : Stands(u, t)' = Stands(u, t)
      BY <1>1 DEF Stands
    <3>4. ASSUME NEW t \in found
          PROVE  t \in TagIds /\ Stands(u, t)
      <4>1. t \in TagIds /\ t \in Terms /\ Seen(u, t) # Absent /\ Seen(u, t).live
        BY DEF SeenAs, Terms
      <4>2. CASE rows[u][t] # None
        BY <3>2, <4>1, <4>2 DEF Seen
      <4>3. CASE rows[u][t] = None
        BY <4>1, <4>3 DEF Seen, Stands, Live, Inserted
      <4> QED BY <4>1, <4>2, <4>3
    <3>5. chosen[u] \subseteq Terms /\ TagIds \subseteq Terms
      BY <1>1 DEF TypeOK, Terms
    <3>6. \A t \in chosen'[u] : Stands(u, t)'
      BY <2>2, <3>2, <3>3, <3>4, <3>5
    <3>7. ASSUME NEW t \in TagIds, rows'[u][t] # None, rows'[u][t].live
          PROVE  Stands(u, t)'
      BY <2>2, <3>2, <3>3, <3>4, <3>5, <3>7
    <3> QED BY <1>1, <3>2, <3>6, <3>7
  <2>6. HoldsAll(u)'
    BY <1>1, <2>1 DEF HoldsAll
  <2>7. Sound(u)'
    BY <2>4, <2>5, <2>6 DEF Sound
  <2> QED BY <1>1, <2>1, <2>7, QuietSound DEF TypeOK
<1>3. CASE ~(Blank(n) \/ found # {})
  <2>1. /\ pc' = [pc EXCEPT ![u] = IF same = {} THEN "inserting tag" ELSE "resurrecting"]
        /\ chosen' = chosen /\ rows' = rows
    BY <1>3 DEF LookUp, Goto
  <2>2. pc'[u] \in {"inserting tag", "resurrecting"}
    BY <1>1, <2>1 DEF TypeOK
  <2>3. Loaded(u)'
    BY <1>1, <2>1, <2>2 DEF Sound, Loaded, Saves
  <2>4. \A t \in Terms : Stands(u, t)' = Stands(u, t)
    BY <1>1 DEF Stands
  <2>5. chosen[u] \subseteq Terms /\ TagIds \subseteq Terms
    BY <1>1 DEF TypeOK, Terms
  <2>6. AsLoaded(u)' /\ HoldsAll(u)'
    BY <1>1, <2>1, <2>2, <2>4, <2>5, SeparateNext DEF Sound, AsLoaded, HoldsAll, Saves
  <2>7. Sound(u)'
    BY <2>3, <2>6 DEF Sound
  <2> QED BY <1>1, <2>1, <2>7, QuietSound DEF TypeOK
<1> QED BY <1>2, <1>3

\* A tag is flushed alive.
LEMMA FlushSound ==
  ASSUME DInv, Overlap, NEW u \in Workers, NEW t \in TagIds, NEW row,
         Flush(u, t, row), row.live, Saves(u)
  PROVE  \A w \in Workers : Sound(w)'
<1>1. /\ rows' = [rows EXCEPT ![u][t] = row]
      /\ flushed' = [flushed EXCEPT ![u] = flushed[u] \cup {t}]
      /\ chosen' = [chosen EXCEPT ![u] = chosen[u] \cup {t}]
      /\ pc' = [pc EXCEPT ![u] = "tagging"]
      /\ locked' = [locked EXCEPT ![u] = locked[u] \cup Written(u)]
      /\ terms' = terms /\ links' = links /\ target' = target /\ had' = had
  BY DEF Flush, Goto
<1>2. TypeOK /\ Sound(u) /\ t \in Terms /\ flushed[u] \subseteq Terms
  BY DEF DInv, IInv, TypeOK, Terms
<1>3. /\ pc'[u] = "tagging"
      /\ flushed'[u] = flushed[u] \cup {t} /\ chosen'[u] = chosen[u] \cup {t}
      /\ rows'[u][t] = row
      /\ \A s \in Terms \ {t} : rows'[u][s] = rows[u][s]
  BY <1>1, <1>2 DEF TypeOK
<1>4. Loaded(u)'
  BY <1>1, <1>2, <1>3 DEF Sound, Loaded, Saves
<1>5. AsLoaded(u)'
  <2> SUFFICES ASSUME undisturbed'[u]
               PROVE  /\ had'[u] = {l \in links' : l[1] = target'[u]}
                      /\ \A s \in chosen'[u] : Stands(u, s)'
                      /\ \A s \in TagIds : rows'[u][s] # None /\ rows'[u][s].live => Stands(u, s)'
    BY DEF AsLoaded
  <2>1. undisturbed[u]
    BY <1>3, SeparateNext
  <2>2. \A s \in Terms : Stands(u, s) \/ s = t => Stands(u, s)'
    BY <1>1, <1>3 DEF Stands, Live, Inserted
  <2>3. chosen[u] \subseteq Terms /\ TagIds \subseteq Terms
    BY <1>2 DEF TypeOK, Terms
  <2> QED BY <1>1, <1>2, <1>3, <2>1, <2>2, <2>3 DEF Sound, AsLoaded
<1>6. Sound(u)'
  BY <1>3, <1>4, <1>5 DEF Sound, HoldsAll
<1> QED BY <1>1, <1>2, <1>6, QuietSound DEF TypeOK

LEMMA InsertTagSound ==
  ASSUME DInv, Overlap, NEW u \in Workers, InsertTag(u)
  PROVE  \A w \in Workers : Sound(w)'
<1>1. PICK t \in TagIds : Flush(u, t, [name |-> name[u], live |-> TRUE])
  BY DEF InsertTag
<1>2. Saves(u)
  BY DEF InsertTag, Saves
<1> QED BY <1>1, <1>2, FlushSound

LEMMA ResurrectTagSound ==
  ASSUME DInv, Overlap, NEW u \in Workers, ResurrectTag(u)
  PROVE  \A w \in Workers : Sound(w)'
<1>1. PICK t \in TagIds : Flush(u, t, [name |-> terms[t].name, live |-> TRUE])
  BY DEF ResurrectTag, Resurrected
<1>2. Saves(u)
  BY DEF ResurrectTag, Saves
<1> QED BY <1>1, <1>2, FlushSound

LEMMA FinishTagsSound ==
  ASSUME DInv, Overlap, NEW u \in Workers, FinishTags(u)
  PROVE  \A w \in Workers : Sound(w)'
<1>1. /\ pc' = [pc EXCEPT ![u] = "saving"] /\ pc[u] = "tagging"
      /\ UNCHANGED <<terms, links>> /\ UNCHANGED session
      /\ TypeOK /\ Sound(u) /\ \A t \in Terms : Live(t)' = Live(t)
  BY DEF FinishTags, Goto, DInv, IInv, Live, Inserted
<1>2. pc'[u] = "saving"
  BY <1>1 DEF TypeOK
<1>3. Loaded(u)' /\ HoldsAll(u)'
  BY <1>1, <1>2 DEF session, Sound, Loaded, HoldsAll, Saves
<1>4. \A t \in Terms : Stands(u, t)' = Stands(u, t)
  BY <1>1 DEF Stands, session
<1>5. chosen[u] \subseteq Terms /\ TagIds \subseteq Terms
  BY <1>1 DEF TypeOK, Terms
<1>6. AsLoaded(u)'
  BY <1>1, <1>2, <1>4, <1>5, SeparateNext DEF session, Sound, AsLoaded, Saves
<1>7. Sound(u)'
  BY <1>3, <1>6 DEF Sound
<1> QED BY <1>1, <1>7, QuietSound DEF TypeOK, session

\* A request on the taxonomy loads no links.
LEMMA BeginSound ==
  ASSUME DInv, Overlap, NEW u \in Workers, CheckName(u) \/ LoadCategory(u) \/ LoadTerm(u)
  PROVE  \A w \in Workers : Sound(w)'
<1>1. /\ pc[u] = "idle" /\ UNCHANGED <<terms, links, todo, chosen, had, rows, flushed, locked>>
      /\ \E label \in {"inserting", "renaming", "unlinking"} : pc' = [pc EXCEPT ![u] = label]
      /\ \A w \in Workers \ {u} : target'[w] = target[w]
      /\ IInv /\ TypeOK /\ Sound(u)
  BY DEF CheckName, LoadCategory, LoadTerm, Goto, DInv, IInv, TypeOK
<1>2. pc'[u] \in {"inserting", "renaming", "unlinking"} /\ had[u] = {} /\ flushed[u] = {}
  BY <1>1 DEF Sound, Loaded, Saves, IInv, Working, SavingPCs, TypeOK
<1>3. Sound(u)'
  BY <1>1, <1>2 DEF Sound, Loaded, AsLoaded, HoldsAll, Saves
<1> QED BY <1>1, <1>3, QuietSound DEF TypeOK

\* A deletion takes all links of its row that are there.
LEMMA DeleteLinksSound ==
  ASSUME DInv, Overlap, NEW u \in Workers, DeleteLinks(u)
  PROVE  \A w \in Workers : Sound(w)'
<1>1. /\ pc[u] = "unlinking" /\ pc' = [pc EXCEPT ![u] = "deleting"]
      /\ locked' = [locked EXCEPT ![u] = {l \in links : l[2] = target[u]}]
      /\ UNCHANGED <<terms, links, target, chosen, had, rows, flushed>>
      /\ IInv /\ TypeOK /\ Sound(u)
  BY DEF DeleteLinks, Unlinked, Written, Goto, DInv, IInv
<1>2. /\ pc'[u] = "deleting" /\ locked'[u] = {l \in links : l[2] = target[u]}
      /\ had[u] = {} /\ flushed[u] = {}
  BY <1>1 DEF Sound, Loaded, Saves, IInv, Working, SavingPCs, TypeOK
<1>3. Sound(u)'
  BY <1>1, <1>2 DEF Sound, Loaded, AsLoaded, HoldsAll, Saves
<1> QED BY <1>1, <1>3, QuietSound DEF TypeOK

\* A commit whose links are of one prompt, and which leaves no row dead.
LEMMA SavePromptSound ==
  ASSUME DInv, Overlap, NEW u \in Workers, SavePrompt(u)
  PROVE  \A w \in Workers : Sound(w)'
<1>1. /\ links' = (links \ Dropped(u, Terms)) \cup Added(u, Terms)
      /\ terms' = [t \in Terms |-> IF t \in flushed[u] THEN rows[u][t] ELSE terms[t]]
      /\ Saves(u) /\ Respond(u) /\ IInv /\ TypeOK /\ Loaded(u)
  BY DEF SavePrompt, Saves, DInv, IInv, Sound
<1>2. \A l \in Dropped(u, Terms) \cup Added(u, Terms) : l[1] = target[u]
  BY <1>1 DEF Dropped, Added, Loaded
<1>3. \A t \in Terms : Live(t) => Live(t)'
  BY <1>1, SeenFlushed, Rows DEF Live, Inserted, Loaded
<1> SUFFICES ASSUME NEW w \in Workers \ {u} PROVE Sound(w)'
  BY <1>1, EndSound
<1>4. Separate(w) /\ Sound(w)
  BY DEF DInv
<1>5. Saves(w) /\ undisturbed[w] => target[u] # target[w]
  BY <1>1, <1>4 DEF Separate, Clash, Saves
<1>6. Saves(w) /\ undisturbed[w] =>
        {l \in links' : l[1] = target[w]} = {l \in links : l[1] = target[w]}
  BY <1>1, <1>2, <1>5
<1>7. ~(pc[w] = "deleting" /\ undisturbed[w])
  BY <1>1, <1>4 DEF Separate, Clash, Deletes
<1> QED BY <1>1, <1>3, <1>4, <1>6, <1>7, RespondBeside, BesideKeeps

\* A row is inserted or renamed: no link changes, and no row dies.
LEMMA WriteTermSound ==
  ASSUME DInv, Overlap, NEW u \in Workers, InsertTerm(u) \/ Rename(u)
  PROVE  \A w \in Workers : Sound(w)'
<1>1. Respond(u) /\ links' = links /\ IInv /\ TypeOK /\ undisturbed' \in [Workers -> BOOLEAN]
  BY OverlapType DEF InsertTerm, Rename, DInv, IInv
<1>2. \A t \in Terms : Live(t) => Live(t)'
  BY <1>1, InsertTermKeeps, RenameKeeps DEF Live, Inserted
<1> SUFFICES ASSUME NEW w \in Workers \ {u} PROVE Sound(w)'
  BY <1>1, EndSound
<1>3. Sound(w)
  BY DEF DInv
<1> QED BY <1>1, <1>2, <1>3, RespondBeside, BesideKeeps

\* A deletion has disturbed every save beside it.
LEMMA CommitDeletionSound ==
  ASSUME DInv, Overlap, NEW u \in Workers, CommitDeletion(u)
  PROVE  \A w \in Workers : Sound(w)'
<1>1. Respond(u) /\ Deletes(u) /\ links' = links \ locked[u] /\ TypeOK
  BY DEF CommitDeletion, Deletes, DInv, IInv
<1> SUFFICES ASSUME NEW w \in Workers \ {u} PROVE Sound(w)'
  BY <1>1, EndSound
<1>2. Separate(w) /\ Sound(w)
  BY DEF DInv
<1>3. ~(Saves(w) /\ undisturbed[w])
  BY <1>1, <1>2 DEF Separate, Clash, Saves
<1> QED BY <1>1, <1>2, <1>3, RespondBeside, BesideKeeps

\* Every step keeps what requests know of each other.
LEMMA NextSound == DInv /\ [Next]_vars => DInv'
<1> SUFFICES ASSUME DInv, [Next]_vars PROVE DInv'
  OBVIOUS
<1>1. IInv'
  BY NextKeeps DEF DInv
<1>2. CASE UNCHANGED vars
  <2>1. \A w \in Workers : Separate(w)'
    BY <1>2 DEF DInv, vars, Separate, Clash, Saves, Deletes
  <2>2. \A w \in Workers : Loaded(w)'
    BY <1>2 DEF DInv, vars, Sound, Loaded, Saves
  <2>3. \A w \in Workers : AsLoaded(w)'
    BY <1>2 DEF DInv, vars, Sound, AsLoaded, Stands, Live, Inserted, Saves
  <2>4. \A w \in Workers : HoldsAll(w)'
    BY <1>2 DEF DInv, vars, Sound, HoldsAll
  <2> QED BY <1>1, <2>1, <2>2, <2>3, <2>4 DEF DInv, Sound
<1>3. CASE Next
  <2>1. Overlap /\ \A w \in Workers : Separate(w)'
    BY <1>3, SeparateNext DEF Next
  <2>2. \A w \in Workers : Sound(w)'
    <3>1. CASE Crash
      BY <3>1 DEF Crash, Sound, Loaded, AsLoaded, HoldsAll, Saves
    <3>2. ASSUME NEW u \in Workers, Begin(u)
          PROVE  \A w \in Workers : Sound(w)'
      BY <2>1, <3>2, LoadPromptSound, BeginSound DEF Begin
    <3>3. ASSUME NEW u \in Workers, Proceed(u)
          PROVE  \A w \in Workers : Sound(w)'
      <4>1. CASE FailRequest(u) \/ BreakDeadlock(u)
        BY <2>1, <4>1, RollbackSound DEF FailRequest, BreakDeadlock
      <4> QED BY <2>1, <3>3, <4>1, LookUpSound, InsertTagSound, ResurrectTagSound,
                 FinishTagsSound, SavePromptSound, WriteTermSound, DeleteLinksSound,
                 CommitDeletionSound DEF Proceed
    <3> QED BY <1>3, <3>1, <3>2, <3>3 DEF Next
  <2> QED BY <1>1, <2>1, <2>2 DEF DInv
<1> QED BY <1>2, <1>3

LEMMA SoundAlways == Spec => []DInv
<1>1. Init => DInv
  BY InitIInv DEF Init, DInv, Separate, Sound, Loaded, AsLoaded, HoldsAll, Saves
<1> QED BY <1>1, NextSound, PTL DEF Spec

\* A prompt saved with no deletion and no other save of it beside is left with
\* exactly the links it chose, to live rows, for any number of workers that
\* create, resurrect and rename the same tags and categories meanwhile.
THEOREM SavesAreAsChosen == Spec => SavedAsChosen
<1>1. DInv /\ [Next]_vars =>
        [\A w \in Workers :
           SavePrompt(w) /\ undisturbed[w] =>
             \A t \in tables[w] :
               /\ <<target[w], t>> \in links' <=> t \in chosen[w]
               /\ <<target[w], t>> \in links' => terms'[t] # Absent /\ terms'[t].live]_vars
  <2> SUFFICES ASSUME DInv, NEW w \in Workers, SavePrompt(w), undisturbed[w], NEW t \in tables[w]
               PROVE  /\ <<target[w], t>> \in links' <=> t \in chosen[w]
                      /\ <<target[w], t>> \in links' => terms'[t] # Absent /\ terms'[t].live
    OBVIOUS
  <2> DEFINE link == <<target[w], t>>
  <2>1. /\ links' = (links \ Dropped(w, Terms)) \cup Added(w, Terms)
        /\ terms' = [s \in Terms |-> IF s \in flushed[w] THEN rows[w][s] ELSE terms[s]]
        /\ IInv /\ Loaded(w) /\ t \in Terms
    BY DEF SavePrompt, DInv, IInv, TypeOK, Sound
  <2>2. /\ had[w] = {l \in links : l[1] = target[w]}
        /\ \A s \in chosen[w] : Stands(w, s)
    BY DEF SavePrompt, DInv, Sound, AsLoaded, Saves
  <2>3. link[1] = target[w] /\ link[2] = t
    OBVIOUS
  <2>4. link \in Dropped(w, Terms) <=> link \in links /\ t \notin chosen[w]
    BY <2>1, <2>2, <2>3 DEF Dropped
  <2>5. link \in Added(w, Terms) <=> t \in chosen[w] /\ link \notin links
    BY <2>1, <2>2, <2>3 DEF Added
  <2>6. link \in links' <=> t \in chosen[w]
    BY <2>1, <2>4, <2>5
  <2>7. t \in chosen[w] => terms'[t] # Absent /\ terms'[t].live
    BY <2>1, <2>2, SeenFlushed, Rows DEF Stands, Live, Inserted, Loaded
  <2> QED BY <2>6, <2>7
<1> QED BY <1>1, SoundAlways, PTL DEF Spec, SavedAsChosen

\* A deletion with no prompt being saved beside it leaves no link to the row.
THEOREM DeletionsUnlink == Spec => DeletedUnlinked
<1>1. DInv /\ [Next]_vars =>
        [\A w \in Workers :
           CommitDeletion(w) /\ undisturbed[w] =>
             \A p \in PromptIds : <<p, target[w]>> \notin links']_vars
  BY DEF CommitDeletion, DInv, Sound, HoldsAll
<1> QED BY <1>1, SoundAlways, PTL DEF Spec, DeletedUnlinked
=============================================================================
