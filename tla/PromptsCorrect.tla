--------------------------- MODULE PromptsCorrect ---------------------------
(***************************************************************************)
(* The correctness properties of Prompts.  The first group holds for any   *)
(* number of concurrent requests, the second when requests run one after   *)
(* the other; the third states what a document of the repository says and  *)
(* the code does not do.                                                   *)
(***************************************************************************)
EXTENDS Prompts

----------------------------------------------------------------------------
(* Any interleaving. *)

\* Every variable has its type.
TypeOK ==
  /\ prompts \in [PromptIds -> Row \cup {Absent}]
  /\ userOrg \in [Users -> Orgs \cup {NoOrg}]
  /\ kept    \in [Viewers -> Answer \cup {None}]
  /\ audit   \in [PromptIds -> Event \cup {None}]
  /\ unaudited \subseteq PromptIds
  /\ pc      \in [Workers -> PCs]
  /\ caller  \in [Workers -> CallerRecord \cup {Anonymous, None}]
  /\ target  \in [Workers -> PromptIds \cup {None}]
  /\ dirty   \in [Workers -> Change \cup {None}]
  /\ event   \in [Workers -> Event \cup {None}]
  /\ obj     \in [Workers -> Answer \cup {None}]

Writing == {"updating", "deleting", "committed", "auditing", "emptying", "emptyingOwn"}

MayLeadTo(status, c) ==
  /\ HasScope(c, "prompt:publish")
  /\ status = "published_public" => HasScope(c, "prompt:publish:public")

\* The UPDATE a PATCH has pending: the caller has the scopes for its status,
\* which does not depend on the row it was decided on, and a publication is
\* stamped by the same statement.
PatchDecided(change, c) ==
  /\ change.status # None => MayLeadTo(change.status, c)
  /\ change.status \in Published => change.published_at = TRUE
  /\ change.deleted_at = None

SessionAt(w) ==
  /\ pc[w] # "idle" => caller[w] # None
  /\ pc[w] \in Writing => caller[w] # Anonymous /\ event[w] # None
  /\ pc[w] \in Writing \cup {"viewing", "fetching"} =>
       target[w] # None /\ prompts[target[w]] # Absent
  /\ pc[w] = "updating" => dirty[w] # None /\ PatchDecided(dirty[w], caller[w])
  /\ pc[w] = "deleting" =>
       dirty[w] = DeletionChange /\ DeleteAllowed(prompts[target[w]], caller[w])

\* What update_prompt and delete_prompt decided between loading a row and
\* committing still holds when they commit, whatever other requests did to the
\* row meanwhile: the row is there, its owner is the same, and the scopes that
\* the pending UPDATE needs are the caller's.
SessionOK == \A w \in Workers : SessionAt(w)

\* A published prompt has a publication time, whichever requests raced to
\* change its status: create_prompt and _apply_status_transition write both
\* columns in one flush and nothing clears published_at.
PublishedStamped ==
  \A p \in PromptIds :
    prompts[p] # Absent /\ prompts[p].status \in Published => prompts[p].published_at

\* A prompt enters a status other than draft only by the write of a request
\* whose caller holds prompt:publish, and published_public only by one whose
\* caller holds prompt:publish:public, although the decision was taken on a
\* row that other requests may have changed since.  The way back to draft
\* asks for prompt:publish as well.
StatusOf(row) == IF row = Absent THEN "draft" ELSE row.status

PublicationAuthorised ==
  [][\A p \in PromptIds :
       StatusOf(prompts'[p]) # StatusOf(prompts[p]) =>
         \E w \in Workers : /\ pc[w] \in {"ready", "updating"}
                            /\ pc'[w] = "committed"
                            /\ target'[w] = p
                            /\ MayLeadTo(prompts'[p].status, caller[w])]_vars

\* A row is never removed, never changes hands, and a deletion is never undone,
\* not even by a PATCH that loaded the row before the deletion.
DeletionFinal ==
  [][\A p \in PromptIds :
       prompts[p] # Absent =>
         /\ prompts'[p] # Absent
         /\ prompts'[p].creator = prompts[p].creator
         /\ prompts[p].deleted_at => prompts'[p].deleted_at]_vars

\* Only the owner of a prompt or a moderator makes it disappear.
DeletionAuthorised ==
  [][\A p \in PromptIds :
       /\ prompts[p] # Absent
       /\ prompts'[p] # Absent
       /\ prompts'[p].deleted_at # prompts[p].deleted_at
       => \E w \in Workers : /\ pc[w] = "deleting"
                             /\ target[w] = p
                             /\ \/ caller[w].id = prompts[p].creator
                                \/ HasScope(caller[w], "prompt:moderate")]_vars

----------------------------------------------------------------------------
(* One request at a time. *)

\* The vector of a prompt is the embedding of the text it has: the semantic
\* half of the search scores what a reader of the prompt would see.
EmbeddingCurrent ==
  \A p \in PromptIds :
    prompts[p] # Absent =>
      prompts[p].vector = EmbeddingSource(prompts[p].title, prompts[p].body)

\* Statuses follow the transition graph: the prompts table implements
\* PromptLifecycle, where a change of a deleted row is not a step.
Life(row) == IF row = Absent THEN "absent"
             ELSE IF row.deleted_at THEN "deleted" ELSE row.status

Lifecycle == INSTANCE PromptLifecycle WITH life <- [p \in PromptIds |-> Life(prompts[p])]

FollowsLifecycle == Lifecycle!LifeSpec

\* A deleted row is frozen: nothing is written to it any more.
DeletedFrozen ==
  [][\A p \in PromptIds :
       prompts[p] # Absent /\ prompts[p].deleted_at => prompts'[p] = prompts[p]]_vars

\* The newest audit event of a prompt tells the state it is in, whether it is
\* deleted and its status, except after a change whose request died between its
\* two commits; the event of the next change makes up for that (prompts.py:144-191).
AuditTailCurrent ==
  (\A w \in Workers : pc[w] = "idle") =>
    \A p \in PromptIds :
      prompts[p] # Absent /\ p \notin unaudited =>
        /\ audit[p] # None
        /\ (audit[p].action = "deleted") <=> prompts[p].deleted_at
        /\ audit[p].status \in {None, prompts[p].status}

\* The visibility table of CONTEXT.md, written down on its own: what a caller
\* may see by status, organisation and authorship.
AuthorOrgIs(row, c) == c.org # NoOrg /\ userOrg[row.creator] = c.org

ModelVisible(row, c) ==
  \/ row.status = "published_public"
  \/ /\ c # Anonymous
     /\ \/ HasScope(c, "prompt:moderate")
        \/ row.status = "published_org" /\ AuthorOrgIs(row, c)
        \/ row.status = "draft" /\ \/ row.creator = c.id
                                   \/ IsOrgAdmin(c) /\ AuthorOrgIs(row, c)

\* No read sends a prompt that the table hides from its caller or that is deleted.
\* The one exception is a featured list out of the cache (prompts.py:66-70): it is
\* what the table showed to a credential of the same user, and if it is outdated,
\* what it showed then.  A completed write outdates no list of visitors and none of
\* the writer, so it must have emptied those that told what it changed.
ServedVisible ==
  \A w \in Workers :
    pc[w] = "replying" /\ obj[w] # None =>
      /\ Viewer(obj[w].for) = Viewer(caller[w]) /\ ~obj[w].deleted_at
      /\ ~obj[w].outdated => /\ ModelVisible(obj[w], obj[w].for)
                             /\ obj[w] = Summary(obj[w].id, obj[w].for)

\* Every row the table shows to an authenticated caller is found by the id
\* lookup, unless the visibility column restricts it.
ModelComplete ==
  \A w \in Workers, p \in PromptIds :
    /\ pc[w] = "ready" /\ caller[w] # Anonymous
    /\ Live(p) /\ prompts[p].visibility # "restricted"
    /\ ModelVisible(prompts[p], caller[w])
    => Found(p, caller[w])

\* Who acts on the flags of a prompt that was sent is let through, unless they
\* are out of an outdated list: for the credential they were made for, DELETE
\* finds the prompt and accepts if and only if can_delete says so; and can_publish
\* is no dead end, with the two scopes of the verb some change of status is
\* accepted from whatever status the prompt is in.
FlagsActionable ==
  \A w \in Workers :
    /\ pc[w] = "replying" /\ obj[w] # None
    /\ obj[w].for # Anonymous /\ ~obj[w].outdated /\ obj[w].visibility # "restricted"
    => LET p == obj[w].id
           c == obj[w].for
           flags == PromptCapabilities(obj[w], c)
       IN /\ Found(p, c)
          /\ flags.can_delete <=> DeleteAllowed(prompts[p], c)
          /\ flags.can_publish /\ EditAllowed(c) /\ HasScope(c, "prompt:publish") =>
               \E s \in Statuses : TransitionAllowed(prompts[p].status, s, c)
----------------------------------------------------------------------------
(* A sentence of the documentation that the code does not keep. *)

\* main.py: anonymous callers see only published_public prompts.
AnonymousServedPublic ==
  \A w \in Workers :
    pc[w] = "replying" /\ caller[w] = Anonymous /\ obj[w] # None =>
      obj[w].status = "published_public"
============================================================================
