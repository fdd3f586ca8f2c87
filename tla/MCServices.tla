----------------------------- MODULE MCServices -----------------------------
(***************************************************************************)
(* One instance of Services: two requests, two keys and one counter, two   *)
(* rows and two headings, three prompts and texts.                         *)
(***************************************************************************)
EXTENDS Services, TLC

CONSTANTS r1, r2, k1, k2, anne, bob, web, org, here, side, prompt, ha, hb, new,
          p1, p2, p3, exact, related, other

\* A token that never expires, and one of another user of the same organisation,
\* through no client, that expires with the first minute and is signed with the
\* other key.
Lasting == [user |-> bob, azp |-> web, org |-> org, key |-> k1, until |-> 1]
Short   == [user |-> anne, azp |-> Nobody, org |-> org, key |-> k2, until |-> 0]
ApiKey  == [owner |-> anne, valid |-> TRUE]

MCJwts    == {Lasting, Short}
MCSecrets == {ApiKey}
MCKeySets == {{k1}, {k2}}
MCLimit   == [anon |-> 1, user |-> 2, azp |-> 1, org |-> 1]

With(scheme, token) == [scheme |-> scheme, token |-> token]
Direct(header) == [header |-> header, endpoint |-> "required", tool |-> FALSE, ip |-> here]
Tool(header) == [header |-> header, endpoint |-> "optional", tool |-> TRUE, ip |-> side]

MCCalls ==
  (r1 :> {Tool(With("Bearer", Lasting))}) @@
  (r2 :> {Direct(With("bearer", Short)), Direct(With("Bearer", Short)),
          Tool(With("Bearer", ApiKey)), Tool(Nobody)})

MCCounters == {<<prompt, "view_count">>}
MCListings == {<<ha, hb>>}

\* A text with the term in it, a nearer one without, and one that is neither.
MCNearness == [t \in Texts |-> IF t = related THEN 2 ELSE IF t = exact THEN 1 ELSE 0]

\* Prompts are interchangeable, so one order of them is enough to start with.  A
\* table of three has all its vectors, to keep the instance small.
Tables == {<< >>, <<p1>>, <<p1, p2>>, <<p1, p2, p3>>}

Vacated == [text |-> other, embedded |-> FALSE, shown |-> TRUE, deleted |-> FALSE]

\* Some of the states that Init allows: a part that stands still need only stand
\* in one place.
MCInit ==
  /\ part \in {"gallery", "engagement", "reembed", "import", "search"}
  /\ SearchInit
  /\ heap \in IF part = "search" THEN Tables ELSE {<< >>}
  /\ \A p \in PromptIds \ ToSet(heap) : table[p] = Vacated
  /\ ToSet(heap) = PromptIds => \A p \in PromptIds : table[p].embedded
  /\ GalleryInit /\ EngagementInit /\ ReembedInit /\ ImportInit
  /\ part # "gallery" => published = {k1} /\ reachable
  /\ part # "reembed" => stored = << >>

MCSpec == MCInit /\ [][Next]_vars /\ GalleryFairness
=============================================================================
