---------------------------- MODULE PromptAccess ----------------------------
(***************************************************************************)
(* Who may see and who may change a prompt: the decisions that             *)
(* services/prompt_service.py takes on one row and one caller, with no     *)
(* state of their own.  A caller is the AuthenticatedUser that             *)
(* middleware/auth.py builds from a credential: the id of its users row,   *)
(* the organisation its credential carries and the scopes it holds.        *)
(* userOrg is the org_id column of the users table, which the same-org     *)
(* subquery of visibility_filter reads.                                    *)
(***************************************************************************)
CONSTANTS
  Users,      \* rows of the users table
  Orgs,       \* organisations
  NoOrg,      \* the empty org_id
  Anonymous   \* the caller None of a request without a credential

Statuses     == {"draft", "published_org", "published_public", "archived"}
Visibilities == {"public", "internal", "restricted"}
Published    == {"published_org", "published_public"}

\* The scopes the handlers of a prompt ask for.
Scopes == {"prompt:create", "prompt:write", "prompt:publish",
           "prompt:publish:public", "prompt:moderate",
           "prompt:read:restricted", "admin:manage_users"}

CallerRecord == [id : Users, org : Orgs \cup {NoOrg}, scopes : SUBSET Scopes]

HasScope(c, scope) == scope \in c.scopes

IsOrgAdmin(c) == HasScope(c, "admin:manage_users")

Owns(c, row) == row.creator = c.id

----------------------------------------------------------------------------
(* The row-level filters of every read and of the loads of PATCH and DELETE. *)

\* The correlated subquery: the author's users row is in the caller's org.
SameOrg(row, c, userOrg) == c.org # NoOrg /\ userOrg[row.creator] = c.org

\* Drafts: an org admin is matched on the organisation INSTEAD of on
\* authorship, everybody else (and an admin without an org) on authorship.
DraftVisibleToAuthor(row, c, userOrg) == Owns(c, row)  \* mutant: no org admins

DraftVisible(row, c, userOrg) ==
  IF c.org # NoOrg /\ IsOrgAdmin(c) THEN SameOrg(row, c, userOrg) ELSE Owns(c, row)

VisibilityFilter(row, c, userOrg) ==
  IF c = Anonymous
  THEN row.status = "published_public"
  ELSE \/ HasScope(c, "prompt:moderate")
       \/ row.status = "published_public"
       \/ row.status = "published_org" /\ SameOrg(row, c, userOrg)
       \/ row.status = "draft" /\ DraftVisible(row, c, userOrg)

MayReadRestricted(c) == c # Anonymous /\ HasScope(c, "prompt:read:restricted")

\* asked is the visibility query parameter of the list endpoint, or "any".
\* The gate on restricted rows is the ELSE branch of the parameter.
ApplyVisibilityFilters(row, c, userOrg, asked) ==
  /\ IF asked # "any"
     THEN row.visibility = asked
     ELSE MayReadRestricted(c) \/ row.visibility # "restricted"
  /\ c = Anonymous => row.visibility = "public"
  /\ VisibilityFilter(row, c, userOrg)

----------------------------------------------------------------------------
(* Verbs. *)

ValidTransitionsShortcut(status) ==  \* mutant: a draft may go public at once
  CASE status = "draft"            -> {"published_org", "published_public"}
    [] status = "published_org"    -> {"published_public", "archived"}
    [] status = "published_public" -> {"published_org", "archived"}
    [] status = "archived"         -> {"draft"}

ValidTransitions(status) ==
  CASE status = "draft"            -> {"published_org"}
    [] status = "published_org"    -> {"published_public", "archived"}
    [] status = "published_public" -> {"published_org", "archived"}
    [] status = "archived"         -> {"draft"}

\* A status change that _apply_status_transition lets through.
TransitionByPublisher(old, new, c) ==  \* mutant: one scope for both publications
  new \in ValidTransitions(old) /\ HasScope(c, "prompt:publish")

TransitionAllowed(old, new, c) ==
  /\ new \in ValidTransitions(old)
  /\ new = "published_public" => HasScope(c, "prompt:publish:public")
  /\ HasScope(c, "prompt:publish")

\* The scope dependency of POST /prompts and the two checks of create_prompt.
CreateByPublisher(status, c) ==  \* mutant: one scope for both publications
  /\ HasScope(c, "prompt:create")
  /\ status # "draft" => HasScope(c, "prompt:publish")

CreateAllowed(status, c) ==
  /\ HasScope(c, "prompt:create")
  /\ status = "published_public" => HasScope(c, "prompt:publish:public")
  /\ status # "draft" => HasScope(c, "prompt:publish")

\* PATCH asks for the verb only: the row was found by the filters.
EditAllowed(c) == HasScope(c, "prompt:write")

DeleteByWriter(row, c) == EditAllowed(c)  \* mutant: the check of PATCH

DeleteAllowed(row, c) == Owns(c, row) \/ HasScope(c, "prompt:moderate")

\* The flags on every serialised prompt (ADR 0006).
PromptCapabilities(row, c) ==
  [can_edit    |-> c # Anonymous /\ (Owns(c, row) \/ HasScope(c, "prompt:moderate")),
   can_delete  |-> c # Anonymous /\ (Owns(c, row) \/ HasScope(c, "prompt:moderate")),
   can_publish |-> c # Anonymous /\ \/ Owns(c, row) /\ HasScope(c, "prompt:publish")
                                    \/ HasScope(c, "prompt:moderate"),
   can_feature |-> c # Anonymous /\ HasScope(c, "prompt:moderate")]
============================================================================
