------------------------------- MODULE Import -------------------------------
(***************************************************************************)
(* The import script (scripts/import_prompts.py): it lists the prompts of  *)
(* an external source and copies them one after the other through the API, *)
(* and with --overwrite updates the prompt that a search finds under the   *)
(* same title.  Runs may be killed, be repeated and overlap.  The prompts  *)
(* are abstracted to their titles.                                         *)
(***************************************************************************)
EXTENDS Sequences

CONSTANTS
  Runs,      \* invocations of the script that may be under way together
  Headings,  \* titles
  Listings,  \* lists of titles that the source may show
  Imported,  \* primary keys of the gallery
  Vacant,    \* no title, no key
  Removed    \* the title of a deleted prompt

ASSUME ImportAssumption ==
  /\ Listings \subseteq Seq(Headings)
  /\ Vacant \notin Headings /\ Vacant \notin Imported /\ Removed \notin Headings
  /\ Vacant # Removed

VARIABLES
  titled,   \* the titles of the prompts in the gallery
  copying,  \* the runs of the script
  unsure    \* history: titles posted by a run that did not see what the gallery holds

importVars == <<titled, copying, unsure>>

\* todo begins with the prompt the script is at.
Copying == [stage : {"next", "looked", "done", "failed"},
            overwrite : BOOLEAN, dry_run : BOOLEAN,
            todo : Seq(Headings), target : Imported \cup {Vacant},
            failures : BOOLEAN,
            sure : BOOLEAN,              \* history: it saw that no prompt has the title
            listed : SUBSET Headings]    \* history: what the source showed and was not
                                         \* deleted in the gallery since

Ended == [stage |-> "failed", overwrite |-> FALSE, dry_run |-> FALSE, todo |-> <<>>,
          target |-> Vacant, failures |-> FALSE, sure |-> FALSE, listed |-> {}]

ImportTypeOK ==
  /\ titled \in [Imported -> Headings \cup {Vacant, Removed}]
  /\ copying \in [Runs -> Copying]
  /\ unsure \subseteq Headings

ImportInit ==
  /\ titled = [i \in Imported |-> Vacant]
  /\ copying = [r \in Runs |-> Ended]
  /\ unsure = {}

Titled(t) == {i \in Imported : titled[i] = t}

Copies(r, new) == copying' = [copying EXCEPT ![r] = new]

Current(r) == Head(copying[r].todo)

\* On to the next prompt, with one more failure or not.
Advanced(r, failed) ==
  [copying[r] EXCEPT !.stage = "next", !.todo = Tail(@), !.failures = @ \/ failed,
                     !.target = Vacant, !.sure = FALSE]
----------------------------------------------------------------------------
(* import_prompts *)

StartImport(r) ==
  /\ copying[r].stage \in {"done", "failed"}
  /\ \E list \in Listings, overwrite, dry \in BOOLEAN :
       Copies(r, [Ended EXCEPT !.stage = "next", !.overwrite = overwrite, !.dry_run = dry,
                               !.todo = list, !.listed = {list[k] : k \in DOMAIN list}])
  /\ UNCHANGED <<titled, unsure>>

\* find_prompt_by_title: the search may be refused, or not show the prompt among
\* its hundred, or not show it to this caller; each counts as no such prompt.
Look(r) ==
  /\ copying[r].stage = "next" /\ copying[r].todo # <<>>
  /\ LET found == Titled(Current(r)) IN
     \E target \in IF copying[r].overwrite THEN found \cup {Vacant} ELSE {Vacant} :
       Copies(r, IF copying[r].dry_run THEN Advanced(r, FALSE)
                 ELSE [copying[r] EXCEPT !.stage = "looked", !.target = target,
                                         !.sure = copying[r].overwrite /\ found = {}])
  /\ UNCHANGED <<titled, unsure>>

\* PATCH, which leaves the title as it is.
Patch(r) ==
  /\ copying[r].stage = "looked" /\ copying[r].target # Vacant
  /\ \E refused \in BOOLEAN :
       /\ titled[copying[r].target] = Removed => refused
       /\ Copies(r, Advanced(r, refused))
  /\ UNCHANGED <<titled, unsure>>

PostAgain(r) == [copying[r] EXCEPT !.failures = FALSE]  \* mutant: after a timeout it posts again

Posted(r) == Advanced(r, FALSE)

Post(r) ==
  /\ copying[r].stage = "looked" /\ copying[r].target = Vacant
  /\ \E i \in Titled(Vacant) : titled' = [titled EXCEPT ![i] = Current(r)]
  /\ unsure' = IF copying[r].sure THEN unsure ELSE unsure \cup {Current(r)}
  /\ copying' = [q \in Runs |->
       IF q = r THEN Posted(r)
       ELSE IF copying[q].stage = "looked" /\ Current(q) = Current(r)
       THEN [copying[q] EXCEPT !.sure = FALSE] ELSE copying[q]]

PostRefused(r) ==
  /\ copying[r].stage = "looked" /\ copying[r].target = Vacant
  /\ Copies(r, Advanced(r, TRUE))
  /\ UNCHANGED <<titled, unsure>>

FinishImport(r) ==
  /\ copying[r].stage = "next" /\ copying[r].todo = <<>>
  /\ Copies(r, IF copying[r].failures THEN Ended ELSE [copying[r] EXCEPT !.stage = "done"])
  /\ UNCHANGED <<titled, unsure>>

\* The source or the connection fails, also after a POST or PATCH took effect.
AbortImport(r) ==
  /\ copying[r].stage \in {"next", "looked"}
  /\ Copies(r, Ended)
  /\ UNCHANGED <<titled, unsure>>

\* A moderator deletes a prompt.
RemovePrompt(i) ==
  /\ titled[i] \in Headings
  /\ titled' = [titled EXCEPT ![i] = Removed]
  /\ copying' = [r \in Runs |-> [copying[r] EXCEPT !.listed = @ \ {titled[i]}]]
  /\ unsure' = unsure

ImportNext ==
  \/ \E r \in Runs : \/ StartImport(r) \/ Look(r) \/ Patch(r) \/ Post(r) \/ PostRefused(r)
                     \/ FinishImport(r) \/ AbortImport(r)
  \/ \E i \in Imported : RemovePrompt(i)

ImportSpec == ImportInit /\ [][ImportNext]_importVars
----------------------------------------------------------------------------
(* Properties. *)

\* However often the import with --overwrite is aborted and repeated, and whatever is
\* deleted meanwhile, a title is in the gallery once, unless a search did not show
\* what was there or two runs were at the title together; and a run that exits with 0
\* leaves every title it listed (import_prompts.py:40-54, 138-165).
ImportOnce ==
  /\ \A t \in Headings \ unsure : \A i, j \in Titled(t) : i = j
  /\ \A r \in Runs : copying[r].stage = "done" /\ ~copying[r].dry_run =>
       \A t \in copying[r].listed : Titled(t) # {}
============================================================================
