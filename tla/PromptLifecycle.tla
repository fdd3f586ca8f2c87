-------------------------- MODULE PromptLifecycle --------------------------
(***************************************************************************)
(* What the gallery promises about one status per prompt, without          *)
(* requests, sessions or scopes: a prompt is created in some status, moves *)
(* along the transition graph, and once deleted it stays deleted.          *)
(***************************************************************************)
CONSTANTS PromptIds

VARIABLE life  \* "absent", a status, or "deleted"

Graph == [draft            |-> {"published_org"},
          published_org    |-> {"published_public", "archived"},
          published_public |-> {"published_org", "archived"},
          archived         |-> {"draft"}]

LifeInit == life = [p \in PromptIds |-> "absent"]

Create(p) ==
  /\ life[p] = "absent"
  /\ \E s \in DOMAIN Graph : life' = [life EXCEPT ![p] = s]

Transition(p) ==
  /\ life[p] \in DOMAIN Graph
  /\ \E s \in Graph[life[p]] : life' = [life EXCEPT ![p] = s]

Delete(p) ==
  /\ life[p] \in DOMAIN Graph
  /\ life' = [life EXCEPT ![p] = "deleted"]

LifeNext == \E p \in PromptIds : Create(p) \/ Transition(p) \/ Delete(p)

LifeSpec == LifeInit /\ [][LifeNext]_life
============================================================================
