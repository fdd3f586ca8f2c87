----------------------------- MODULE Engagement -----------------------------
(***************************************************************************)
(* The counters and ratings of prompts (get_prompt, increment_use_count    *)
(* and submit_rating in prompt_service.py).  Each request runs on a thread *)
(* with a session of its own; the statements that read a row and the       *)
(* commit that writes it are separate steps.                               *)
(***************************************************************************)
EXTENDS Naturals

CONSTANTS
  Threads,       \* threads of the pool
  Counters,      \* pairs of a prompt and one of its two counters
  RatedPrompts,  \* prompts that are viewed, used and rated
  Scorers,       \* users
  Scores,        \* values of a rating
  RatingIds,     \* primary keys of prompt_ratings
  NoRow,         \* the row that was not inserted
  MaxCounted     \* requests begin up to this many counted or audited ones

RatingRow == [entry : RatedPrompts \X Scorers, score : Scores]

ASSUME EngagementAssumption ==
  /\ Counters \subseteq RatedPrompts \X {"view_count", "use_count"}
  /\ MaxCounted \in Nat
  /\ NoRow \notin RatingIds /\ NoRow \notin Scores /\ NoRow \notin RatingRow
  /\ NoRow \notin Counters /\ NoRow \notin RatedPrompts \X Scorers

VARIABLES
  live,     \* prompts whose deleted_at is NULL
  counter,  \* view_count and use_count
  ratings,  \* prompt_ratings
  audited,  \* rating events of each prompt and user
  job,      \* the request of each thread
  commits,  \* history: requests of each counter that were committed
  lost      \* history: increments of a counter that later commits had not seen

engagementVars == <<live, counter, ratings, audited, job, commits, lost>>

\* The counter and the value loaded of it; the rating, the row found and its score.
Job == [stage : {"free", "counting", "rating", "found", "saved"},
        counts : Counters \cup {NoRow}, loaded : Nat,
        missed : Nat,  \* history: commits to the counter since it was loaded
        entry : (RatedPrompts \X Scorers) \cup {NoRow}, score : Scores \cup {NoRow},
        row : RatingIds \cup {NoRow}, was : Scores \cup {NoRow}]

Free == [stage |-> "free", counts |-> NoRow, loaded |-> 0, missed |-> 0,
         entry |-> NoRow, score |-> NoRow, row |-> NoRow, was |-> NoRow]

EngagementTypeOK ==
  /\ live \subseteq RatedPrompts
  /\ counter \in [Counters -> Nat] /\ commits \in [Counters -> Nat] /\ lost \in [Counters -> Nat]
  /\ ratings \in [RatingIds -> RatingRow \cup {NoRow}]
  /\ audited \in [RatedPrompts \X Scorers -> Nat]
  /\ job \in [Threads -> Job]

EngagementInit ==
  /\ live = RatedPrompts
  /\ counter = [c \in Counters |-> 0] /\ commits = counter /\ lost = counter
  /\ ratings = [i \in RatingIds |-> NoRow]
  /\ audited = [e \in RatedPrompts \X Scorers |-> 0]
  /\ job = [t \in Threads |-> Free]

Turns(t, new) == job' = [job EXCEPT ![t] = new]
----------------------------------------------------------------------------
(* GET /prompts/{id} and POST /prompts/{id}/use *)

LoadCounter(t) ==
  /\ job[t].stage = "free"
  /\ \E c \in Counters :
       /\ c[1] \in live
       /\ commits[c] < MaxCounted
       /\ Turns(t, [Free EXCEPT !.stage = "counting", !.counts = c, !.loaded = counter[c]])
  /\ UNCHANGED <<live, counter, ratings, audited, commits, lost>>

Decremented(t) == job[t].loaded - 1  \* mutant: the wrong sign

IncrementedTwice(t) == job[t].loaded + 2  \* mutant: a view is counted as a use too

Incremented(t) == job[t].loaded + 1

\* The commit writes the sum by primary key, whatever became of the row.
CommitCounter(t) ==
  /\ job[t].stage = "counting"
  /\ LET c == job[t].counts IN
     /\ counter' = [counter EXCEPT ![c] = Incremented(t)]
     /\ commits' = [commits EXCEPT ![c] = @ + 1]
     /\ lost' = [lost EXCEPT ![c] = @ + job[t].missed]
     /\ job' = [q \in Threads |->
                  IF q = t THEN Free
                  ELSE IF job[q].counts = c THEN [job[q] EXCEPT !.missed = @ + 1] ELSE job[q]]
  /\ UNCHANGED <<live, ratings, audited>>
----------------------------------------------------------------------------
(* POST /prompts/{id}/rate *)

LoadRatedPrompt(t) ==
  /\ job[t].stage = "free"
  /\ \E p \in live, u \in Scorers, s \in Scores :
       /\ audited[<<p, u>>] < MaxCounted
       /\ Turns(t, [Free EXCEPT !.stage = "rating", !.entry = <<p, u>>, !.score = s])
  /\ UNCHANGED <<live, counter, ratings, audited, commits, lost>>

Rows(e) == {i \in RatingIds : ratings[i] # NoRow /\ ratings[i].entry = e}

FindRating(t) ==
  /\ job[t].stage = "rating"
  /\ LET found == Rows(job[t].entry) IN
     \/ /\ found = {}
        /\ Turns(t, [job[t] EXCEPT !.stage = "found"])
     \/ \E i \in found :
          Turns(t, [job[t] EXCEPT !.stage = "found", !.row = i, !.was = ratings[i].score])
  /\ UNCHANGED <<live, counter, ratings, audited, commits, lost>>

\* UPDATE by primary key.  It always sends updated_at, and the score only if it
\* differs from the one loaded.
Overwrite(t) ==
  /\ job[t].stage = "found" /\ job[t].row # NoRow
  /\ ratings' = IF job[t].score = job[t].was THEN ratings
                ELSE [ratings EXCEPT ![job[t].row].score = job[t].score]
  /\ Turns(t, [job[t] EXCEPT !.stage = "saved"])
  /\ UNCHANGED <<live, counter, audited, commits, lost>>

UniqueUnchecked(e) == TRUE  \* mutant: the table has no uq_prompt_user_rating

UniqueRating(e) == Rows(e) = {}

\* INSERT, unless a first rating of the same user came in between.
InsertRating(t) ==
  /\ job[t].stage = "found" /\ job[t].row = NoRow
  /\ UniqueRating(job[t].entry)
  /\ \E i \in RatingIds :
       /\ ratings[i] = NoRow
       /\ ratings' = [ratings EXCEPT ![i] = [entry |-> job[t].entry, score |-> job[t].score]]
  /\ Turns(t, [job[t] EXCEPT !.stage = "saved"])
  /\ UNCHANGED <<live, counter, audited, commits, lost>>

\* write_event, and the answer.
WriteRatingEvent(t) ==
  /\ job[t].stage = "saved"
  /\ audited' = [audited EXCEPT ![job[t].entry] = @ + 1]
  /\ Turns(t, Free)
  /\ UNCHANGED <<live, counter, ratings, commits, lost>>
----------------------------------------------------------------------------
\* A unique violation, a failing statement or a crash ends a request with what
\* it has committed by then; no handler of these endpoints catches it.
FailEngagement(t) ==
  /\ job[t].stage # "free"
  /\ Turns(t, Free)
  /\ UNCHANGED <<live, counter, ratings, audited, commits, lost>>

\* delete_prompt, by another request.
DeleteRatedPrompt(p) ==
  /\ live' = live \ {p}
  /\ UNCHANGED <<counter, ratings, audited, job, commits, lost>>

\* A request for a deleted prompt is answered with 404.
NotFound ==
  /\ live # RatedPrompts
  /\ UNCHANGED engagementVars

EngagementNext ==
  \/ \E t \in Threads :
       \/ LoadCounter(t) \/ CommitCounter(t) \/ LoadRatedPrompt(t) \/ FindRating(t)
       \/ Overwrite(t) \/ InsertRating(t) \/ WriteRatingEvent(t) \/ FailEngagement(t)
  \/ \E p \in live : DeleteRatedPrompt(p)
  \/ NotFound

EngagementSpec == EngagementInit /\ [][EngagementNext]_engagementVars
----------------------------------------------------------------------------
(* Properties. *)

\* A counter never runs ahead of the requests committed to it, and falls short of
\* them by no more than the commits that overlapping requests had not seen; without
\* overlap it is exact, whatever failed or was deleted (prompt_service.py:346, 531).
CountsHonest == \A c \in Counters :
  counter[c] <= commits[c] /\ commits[c] <= counter[c] + lost[c]

\* The registers that the table stands for.  A rating equal to the score it finds
\* takes effect when it finds it: its UPDATE leaves the score as it is by then.
Register(e) ==
  IF Rows(e) = {} THEN NoRow
  ELSE IF \E i \in RatingIds : Rows(e) = {i} THEN ratings[CHOOSE i \in RatingIds : Rows(e) = {i}].score
  ELSE "many"

Phase(j) ==
  IF j.stage = "saved" \/ (j.stage = "found" /\ j.score = j.was) THEN "applied"
  ELSE IF j.stage \in {"rating", "found"} THEN "asked" ELSE "none"

Registers == INSTANCE RatingBook WITH
  Raters <- Threads, Book <- RatedPrompts \X Scorers, Marks <- Scores, Unrated <- NoRow,
  book   <- [e \in RatedPrompts \X Scorers |-> Register(e)],
  noted  <- audited,
  rating <- [t \in Threads |->
               [phase |-> Phase(job[t]), entry |-> job[t].entry, mark |-> job[t].score]]

\* Each rating that is answered took effect exactly once while it was under way, as
\* if there were one register per prompt and user, although the row is looked for in
\* one step and inserted or updated in another (prompt_service.py:545-566, rating.py:12).
RatingsLinearise == Registers!BookSpec
============================================================================
