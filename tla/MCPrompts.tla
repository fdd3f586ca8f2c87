----------------------------- MODULE MCPrompts -----------------------------
(***************************************************************************)
(* Small instances of Prompts for TLC.                                     *)
(***************************************************************************)
EXTENDS PromptsCorrect, TLC

CONSTANTS w1, w2, u1, u2, orgA, orgB

\* Workers are interchangeable: no property names one.
Symmetry == Permutations(Workers)

Caller(id, org, scopes) == [id |-> id, org |-> org, scopes |-> scopes]
Key(id, scopes) == [id |-> id, scopes |-> scopes]

Post(status, visibility, featured, title) ==
  [status |-> status, visibility |-> visibility, featured |-> featured,
   title |-> title, body |-> "b1"]

NoPatch == [status |-> None, visibility |-> None, featured |-> None,
            title |-> None, body |-> None]
SetStatus(s) == [NoPatch EXCEPT !.status = s]
SetTitle(t)  == [NoPatch EXCEPT !.title = t]
SetBody(b)   == [NoPatch EXCEPT !.body = b]

OneText  == {"t1"}
TwoTitles == {"t1", "t2"}
OneBody  == {"b1"}
TwoBodies == {"b1", "b2"}
NoKeys   == {}

\* An author who may publish within the organisation, and a gallery operator.
Writer   == Caller(u1, orgA, {"prompt:create", "prompt:write", "prompt:publish"})
Operator == Caller(u2, orgB, {"prompt:write", "prompt:publish",
                              "prompt:publish:public", "prompt:moderate"})

Creator  == Caller(u1, orgA, {"prompt:create", "prompt:write", "prompt:publish",
                              "prompt:publish:public"})
Mate     == Caller(u2, orgA, {"prompt:write"})
OrgAdmin == Caller(u2, orgA, {"admin:manage_users", "prompt:write"})
Stranger == Caller(u2, orgB, {"prompt:create", "prompt:publish", "prompt:publish:public"})
Elsewhere == Caller(u1, orgB, {"admin:manage_users", "prompt:create"})
Homeless == Caller(u2, NoOrg, {"prompt:moderate", "prompt:publish", "prompt:write"})

\* Everything that moves a prompt through its lifecycle, and a colleague.
LifecycleClaims    == {Writer, Operator, Mate}
LifecycleCreations == {Post(s, "public", FALSE, "t1") : s \in Statuses \ {"archived"}}
LifecyclePatches   == {SetStatus(s) : s \in Statuses}

\* Texts: two columns, two contents each.
TextClaims    == {Writer}
TextCreations == {Post("draft", "public", FALSE, "t1")}
TextPatches   == {SetTitle("t1"), SetTitle("t2"), SetBody("b1"), SetBody("b2")}

\* The callers the visibility table tells apart, and what they may send.
AccessClaims    == {Creator, Elsewhere, OrgAdmin, Stranger, Homeless}
AccessKeys      == {Key(u2, {"prompt:read:restricted"}), Key(u1, {"prompt:write"})}
AccessCreations == {Post(s, v, v = "public" /\ s = "published_public", "t1") :
                      s \in Statuses, v \in Visibilities}
AccessPatches   == LifecyclePatches \cup {SetBody(b) : b \in TwoBodies}

\* An author withdraws what others are reading.
ReadClaims    == {Creator}
ReadCreations == {Post("published_public", "public", FALSE, "t1")}
ReadPatches   == {SetStatus("archived"), SetStatus("draft")}
============================================================================
