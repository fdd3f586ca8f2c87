------------------------------ MODULE Services ------------------------------
(***************************************************************************)
(* The parts that share no state with each other: the way into the         *)
(* gallery, its counters and ratings, its search, and its two scripts.  A  *)
(* behaviour belongs to one part, in which all actors of it interleave;    *)
(* the other parts stand still in it.                                      *)
(***************************************************************************)
EXTENDS Sidecar, Engagement, Reembed, Import, Search

VARIABLE part

vars == <<part, galleryVars, engagementVars, reembedVars, importVars, searchVars>>

Init ==
  /\ part \in {"gallery", "engagement", "reembed", "import", "search"}
  /\ GalleryInit /\ EngagementInit /\ ReembedInit /\ ImportInit /\ SearchInit

Next ==
  \/ /\ part = "gallery" /\ GalleryNext
     /\ UNCHANGED <<part, engagementVars, reembedVars, importVars, searchVars>>
  \/ /\ part = "engagement" /\ EngagementNext
     /\ UNCHANGED <<part, galleryVars, reembedVars, importVars, searchVars>>
  \/ /\ part = "reembed" /\ ReembedNext
     /\ UNCHANGED <<part, galleryVars, engagementVars, importVars, searchVars>>
  \/ /\ part = "import" /\ ImportNext
     /\ UNCHANGED <<part, galleryVars, engagementVars, reembedVars, searchVars>>
  \/ /\ part = "search" /\ SearchNext
     /\ UNCHANGED <<part, galleryVars, engagementVars, reembedVars, importVars>>

Spec == Init /\ [][Next]_vars /\ GalleryFairness

\* Every variable of the five parts has a value of its type.
TypeOK ==
  GalleryTypeOK /\ EngagementTypeOK /\ ReembedTypeOK /\ ImportTypeOK /\ SearchTypeOK
=============================================================================
