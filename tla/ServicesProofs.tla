--------------------------- MODULE ServicesProofs ---------------------------
(***************************************************************************)
(* Proofs about Engagement, and about Services, of which it is a part.     *)
(* The inductive invariant ties the value that a thread loaded of a        *)
(* counter to the commits it has missed since, and the row it found to the *)
(* table; with one row per prompt and user the table is a book of          *)
(* registers, and every step one of RatingBook or none.  A behaviour of    *)
(* Services is one of each of its parts, so what the proof modules show of *)
(* the parts holds of it.                                                  *)
(***************************************************************************)
EXTENDS Services, GalleryProofs, ScriptsProofs, SearchProofs

USE EngagementAssumption

Entries == RatedPrompts \X Scorers

\* What a request knows at each of its stages.
JobKnown(t) ==
  /\ job[t].stage = "counting" <=> job[t].counts # NoRow
  /\ job[t].stage \in {"rating", "found", "saved"} => job[t].entry \in Entries /\ job[t].score \in Scores
  /\ job[t].stage \in {"free", "counting"} => job[t].entry = NoRow /\ job[t].score = NoRow
  /\ job[t].row = NoRow => job[t].was = NoRow
  /\ job[t].row # NoRow => /\ job[t].was \in Scores
                           /\ ratings[job[t].row] # NoRow
                           /\ ratings[job[t].row].entry = job[t].entry
  /\ job[t].stage = "rating" => job[t].row = NoRow

\* Loaded and missed together are the counter as it would be without losses.
JobCounts(t) ==
  job[t].counts # NoRow =>
    LET c == job[t].counts IN
    /\ job[t].loaded + job[t].missed <= commits[c]
    /\ commits[c] <= job[t].loaded + job[t].missed + lost[c]

OneRow == \A i, j \in RatingIds :
  ratings[i] # NoRow /\ ratings[j] # NoRow /\ ratings[i].entry = ratings[j].entry => i = j

IInv ==
  /\ EngagementTypeOK
  /\ \A t \in Threads : JobKnown(t)
  /\ \A t \in Threads : JobCounts(t)
  /\ CountsHonest
  /\ OneRow

----------------------------------------------------------------------------
(* The inductive invariant. *)

LEMMA FreeJob == Free \in Job
  BY DEF Free, Job

LEMMA Initially == EngagementInit => IInv
  BY FreeJob DEF EngagementInit, IInv, EngagementTypeOK, JobKnown, JobCounts, CountsHonest, OneRow,
     Free

\* A step that turns one job and leaves tables and counters alone.
LEMMA TurnKeeps ==
  ASSUME IInv, NEW t \in Threads, NEW new \in Job, Turns(t, new),
         UNCHANGED <<counter, ratings, commits, lost>>,
         live' \subseteq RatedPrompts, audited' \in [Entries -> Nat],
         JobKnown(t)', JobCounts(t)'
  PROVE  IInv'
<1>1. job' = [job EXCEPT ![t] = new] /\ job' \in [Threads -> Job]
  BY DEF IInv, EngagementTypeOK, Turns
<1>2. \A q \in Threads \ {t} : job'[q] = job[q]
  BY <1>1 DEF IInv, EngagementTypeOK
<1>3. \A q \in Threads : JobKnown(q)'
  BY <1>2 DEF IInv, JobKnown
<1>4. \A q \in Threads : JobCounts(q)'
  BY <1>2 DEF IInv, JobCounts
<1>5. CountsHonest' /\ OneRow'
  BY DEF IInv, CountsHonest, OneRow
<1>6. EngagementTypeOK'
  BY <1>1 DEF IInv, EngagementTypeOK, Entries
<1>7. QED
  BY <1>3, <1>4, <1>5, <1>6 DEF IInv

LEMMA LoadCounterKeeps == ASSUME IInv, NEW t \in Threads, LoadCounter(t) PROVE IInv'
<1>1. PICK c \in Counters :
        Turns(t, [Free EXCEPT !.stage = "counting", !.counts = c, !.loaded = counter[c]])
  BY DEF LoadCounter
<1> DEFINE new == [Free EXCEPT !.stage = "counting", !.counts = c, !.loaded = counter[c]]
<1>2. counter[c] \in Nat /\ commits[c] \in Nat /\ lost[c] \in Nat
  BY DEF IInv, EngagementTypeOK
<1>3. /\ new \in Job /\ new.stage = "counting" /\ new.counts = c /\ new.loaded = counter[c]
      /\ new.missed = 0 /\ new.entry = NoRow /\ new.score = NoRow /\ new.row = NoRow /\ new.was = NoRow
  BY <1>2 DEF Free, Job
<1>4. job'[t] = new
  BY <1>1 DEF Turns, IInv, EngagementTypeOK
<1> HIDE DEF new
<1>5. JobKnown(t)'
  BY <1>3, <1>4 DEF JobKnown
<1>6. JobCounts(t)'
  BY <1>2, <1>3, <1>4 DEF JobCounts, IInv, CountsHonest, LoadCounter
<1>7. QED
  BY <1>1, <1>3, <1>5, <1>6, TurnKeeps DEF LoadCounter, IInv, EngagementTypeOK, Entries, new

LEMMA CommitCounterKeeps == ASSUME IInv, NEW t \in Threads, CommitCounter(t) PROVE IInv'
<1> DEFINE c == job[t].counts
<1>1. c \in Counters /\ job[t] \in Job
  BY DEF IInv, EngagementTypeOK, JobKnown, CommitCounter, Job
<1>2. /\ counter' = [counter EXCEPT ![c] = job[t].loaded + 1]
      /\ commits' = [commits EXCEPT ![c] = commits[c] + 1]
      /\ lost' = [lost EXCEPT ![c] = lost[c] + job[t].missed]
      /\ UNCHANGED <<live, ratings, audited>>
      /\ job' = [q \in Threads |->
                   IF q = t THEN Free
                   ELSE IF job[q].counts = c THEN [job[q] EXCEPT !.missed = job[q].missed + 1]
                   ELSE job[q]]
  BY DEF CommitCounter, Incremented, IInv, EngagementTypeOK
<1>3. \A q \in Threads : job[q] \in Job
  BY DEF IInv, EngagementTypeOK
<1>4. /\ counter' \in [Counters -> Nat] /\ commits' \in [Counters -> Nat]
      /\ lost' \in [Counters -> Nat]
  BY <1>1, <1>2 DEF IInv, EngagementTypeOK, Job
<1>5. job' \in [Threads -> Job]
  <2>1. /\ \A j \in Job : j.missed \in Nat
        /\ \A j \in Job, n \in Nat : [j EXCEPT !.missed = n] \in Job
    BY DEF Job
  <2>2. QED
    <3>1. SUFFICES ASSUME NEW q \in Threads PROVE job'[q] \in Job
      BY <1>2
    <3>2. job[q].missed + 1 \in Nat
      BY <1>3, <2>1
    <3>3. [job[q] EXCEPT !.missed = job[q].missed + 1] \in Job
      BY <1>3, <2>1, <3>2
    <3>4. QED
      BY <1>2, <1>3, <3>3, FreeJob
<1>6. /\ job'[t] = Free
      /\ \A q \in Threads \ {t} :
           /\ job'[q].stage = job[q].stage /\ job'[q].counts = job[q].counts
           /\ job'[q].loaded = job[q].loaded /\ job'[q].entry = job[q].entry
           /\ job'[q].score = job[q].score /\ job'[q].row = job[q].row /\ job'[q].was = job[q].was
           /\ job'[q].missed = IF job[q].counts = c THEN job[q].missed + 1 ELSE job[q].missed
  BY <1>2, <1>3 DEF Job
<1>7. \A q \in Threads : JobKnown(q)'
  BY <1>2, <1>6 DEF IInv, JobKnown, Free
<1>8. \A q \in Threads : JobCounts(q)'
  <2>1. SUFFICES ASSUME NEW q \in Threads, job'[q].counts # NoRow PROVE JobCounts(q)'
    BY DEF JobCounts
  <2>2. q # t /\ job[q].counts # NoRow /\ job[q].counts \in Counters /\ job[q] \in Job
    BY <1>3, <1>6, <2>1 DEF Free, Job
  <2>3. /\ job[q].loaded + job[q].missed <= commits[job[q].counts]
        /\ commits[job[q].counts] <= job[q].loaded + job[q].missed + lost[job[q].counts]
    BY <2>2 DEF IInv, JobCounts
  <2>4. job[q].loaded \in Nat /\ job[q].missed \in Nat /\ job[t].missed \in Nat
    BY <1>1, <2>2 DEF Job
  <2>5. QED
    BY <1>1, <1>2, <1>4, <1>6, <2>2, <2>3, <2>4 DEF JobCounts, IInv, EngagementTypeOK
<1>9. CountsHonest'
  <2>1. /\ job[t].loaded + job[t].missed <= commits[c]
        /\ commits[c] <= job[t].loaded + job[t].missed + lost[c]
    BY <1>1 DEF IInv, JobCounts
  <2>2. job[t].loaded \in Nat /\ job[t].missed \in Nat
    BY <1>1 DEF Job
  <2>3. QED
    BY <1>1, <1>2, <2>1, <2>2 DEF CountsHonest, IInv, EngagementTypeOK
<1>10. EngagementTypeOK' /\ OneRow'
  BY <1>2, <1>4, <1>5 DEF IInv, EngagementTypeOK, OneRow
<1>11. QED
  BY <1>7, <1>8, <1>9, <1>10 DEF IInv

LEMMA LoadRatedPromptKeeps == ASSUME IInv, NEW t \in Threads, LoadRatedPrompt(t) PROVE IInv'
<1>1. PICK p \in live, u \in Scorers, s \in Scores :
        Turns(t, [Free EXCEPT !.stage = "rating", !.entry = <<p, u>>, !.score = s])
  BY DEF LoadRatedPrompt
<1> DEFINE new == [Free EXCEPT !.stage = "rating", !.entry = <<p, u>>, !.score = s]
<1>2. <<p, u>> \in Entries
  BY DEF IInv, EngagementTypeOK, Entries
<1>3. /\ new \in Job /\ new.stage = "rating" /\ new.entry = <<p, u>> /\ new.score = s
      /\ new.counts = NoRow /\ new.row = NoRow /\ new.was = NoRow
  BY <1>2 DEF Free, Job, Entries
<1>4. job'[t] = new
  BY <1>1 DEF Turns, IInv, EngagementTypeOK
<1> HIDE DEF new
<1>5. JobKnown(t)' /\ JobCounts(t)'
  BY <1>2, <1>3, <1>4 DEF JobKnown, JobCounts, Entries
<1>6. QED
  BY <1>1, <1>3, <1>5, TurnKeeps DEF LoadRatedPrompt, IInv, EngagementTypeOK, Entries, new

\* The two outcomes of FindRating.
Unfound(t) == job'[t].row = NoRow /\ job'[t].was = NoRow /\ Rows(job[t].entry) = {}

FoundRow(t) ==
  /\ job'[t].row \in Rows(job[t].entry)
  /\ job'[t].was = ratings[job'[t].row].score /\ job'[t].was \in Scores

LEMMA Finds ==
  ASSUME IInv, NEW t \in Threads, FindRating(t)
  PROVE  /\ job' = [job EXCEPT ![t] = job'[t]] /\ job'[t] \in Job
         /\ job[t].entry \in Entries /\ job[t].score \in Scores
         /\ job'[t].stage = "found" /\ job'[t].counts = NoRow
         /\ job'[t].entry = job[t].entry /\ job'[t].score = job[t].score
         /\ Unfound(t) \/ FoundRow(t)
<1>1. /\ job[t] \in Job /\ job[t].stage = "rating" /\ JobKnown(t) /\ job \in [Threads -> Job]
      /\ \A i \in RatingIds : ratings[i] \in RatingRow \cup {NoRow}
  BY DEF FindRating, IInv, EngagementTypeOK
<1>2. /\ job[t].entry \in Entries /\ job[t].score \in Scores /\ job[t].counts = NoRow
      /\ job[t].row = NoRow /\ job[t].was = NoRow
  BY <1>1 DEF JobKnown
<1>3. CASE Turns(t, [job[t] EXCEPT !.stage = "found"]) /\ Rows(job[t].entry) = {}
  <2>1. job'[t] = [job[t] EXCEPT !.stage = "found"] /\ job' = [job EXCEPT ![t] = job'[t]]
    BY <1>1, <1>3 DEF Turns
  <2>2. QED
    BY <1>1, <1>2, <1>3, <2>1 DEF Job, Unfound
<1>4. ASSUME NEW i \in Rows(job[t].entry),
             Turns(t, [job[t] EXCEPT !.stage = "found", !.row = i, !.was = ratings[i].score])
      PROVE  /\ job' = [job EXCEPT ![t] = job'[t]] /\ job'[t] \in Job
             /\ job'[t].stage = "found" /\ job'[t].counts = NoRow
             /\ job'[t].entry = job[t].entry /\ job'[t].score = job[t].score
             /\ FoundRow(t)
  <2>1. i \in RatingIds /\ ratings[i].score \in Scores
    BY <1>1 DEF Rows, RatingRow
  <2>2. /\ job'[t] = [job[t] EXCEPT !.stage = "found", !.row = i, !.was = ratings[i].score]
        /\ job' = [job EXCEPT ![t] = job'[t]]
    BY <1>1, <1>4 DEF Turns
  <2>3. QED
    BY <1>1, <1>2, <2>1, <2>2 DEF Job, FoundRow
<1>5. QED
  BY <1>1, <1>2, <1>3, <1>4 DEF FindRating

LEMMA FindRatingKeeps == ASSUME IInv, NEW t \in Threads, FindRating(t) PROVE IInv'
<1>1. JobKnown(t)' /\ JobCounts(t)'
  BY Finds DEF FindRating, JobKnown, JobCounts, Unfound, FoundRow, Rows
<1>2. QED
  BY <1>1, Finds, TurnKeeps DEF FindRating, Turns, IInv, EngagementTypeOK, Entries

LEMMA OverwriteKeeps == ASSUME IInv, NEW t \in Threads, Overwrite(t) PROVE IInv'
<1> DEFINE i == job[t].row
<1>1. /\ job[t] \in Job /\ JobKnown(t) /\ JobCounts(t) /\ job \in [Threads -> Job]
      /\ ratings \in [RatingIds -> RatingRow \cup {NoRow}]
  BY DEF IInv, EngagementTypeOK
<1>2. /\ i \in RatingIds /\ ratings[i] \in RatingRow /\ job[t].score \in Scores
  BY <1>1 DEF Overwrite, JobKnown, Job
<1>3. /\ ratings' \in [RatingIds -> RatingRow \cup {NoRow}]
      /\ \A k \in RatingIds : /\ ratings'[k] = NoRow <=> ratings[k] = NoRow
                              /\ ratings[k] # NoRow => ratings'[k].entry = ratings[k].entry
  BY <1>1, <1>2 DEF Overwrite, RatingRow
<1>4. job' = [job EXCEPT ![t] = job'[t]] /\ job'[t] = [job[t] EXCEPT !.stage = "saved"]
  BY <1>1 DEF Overwrite, Turns
<1>5. /\ job'[t] \in Job /\ job'[t].stage = "saved" /\ job'[t].counts = job[t].counts
      /\ job'[t].entry = job[t].entry /\ job'[t].score = job[t].score
      /\ job'[t].row = i /\ job'[t].was = job[t].was
  BY <1>1, <1>4 DEF Job
<1>6. \A q \in Threads \ {t} : job'[q] = job[q]
  BY <1>1, <1>4
<1>7. \A q \in Threads : JobKnown(q)'
  <2>1. JobKnown(t)'
    BY <1>1, <1>2, <1>3, <1>5 DEF JobKnown, Overwrite
  <2>2. ASSUME NEW q \in Threads \ {t} PROVE JobKnown(q)'
    BY <1>3, <1>6 DEF IInv, EngagementTypeOK, Job, JobKnown
  <2>3. QED
    BY <2>1, <2>2
<1>8. \A q \in Threads : JobCounts(q)'
  <2>1. JobCounts(t)'
    BY <1>1, <1>5 DEF JobKnown, JobCounts, Overwrite
  <2>2. QED
    BY <1>6, <2>1 DEF IInv, JobCounts, Overwrite
<1>9. CountsHonest' /\ OneRow'
  BY <1>3 DEF IInv, CountsHonest, OneRow, Overwrite
<1>10. EngagementTypeOK'
  BY <1>1, <1>3, <1>4, <1>5 DEF IInv, EngagementTypeOK, Overwrite
<1>11. QED
  BY <1>7, <1>8, <1>9, <1>10 DEF IInv

LEMMA InsertRatingKeeps == ASSUME IInv, NEW t \in Threads, InsertRating(t) PROVE IInv'
<1>1. /\ job[t] \in Job /\ JobKnown(t) /\ job \in [Threads -> Job]
      /\ ratings \in [RatingIds -> RatingRow \cup {NoRow}]
  BY DEF IInv, EngagementTypeOK
<1> DEFINE row == [entry |-> job[t].entry, score |-> job[t].score]
<1>2. PICK i \in RatingIds : ratings[i] = NoRow /\ ratings' = [ratings EXCEPT ![i] = row]
  BY DEF InsertRating
<1>3. row \in RatingRow /\ row # NoRow /\ row.entry = job[t].entry
  BY <1>1 DEF InsertRating, JobKnown, RatingRow, Entries
<1>4. /\ ratings' \in [RatingIds -> RatingRow \cup {NoRow}]
      /\ ratings'[i] = row /\ \A k \in RatingIds \ {i} : ratings'[k] = ratings[k]
  BY <1>1, <1>2, <1>3
<1>5. job' = [job EXCEPT ![t] = job'[t]] /\ job'[t] = [job[t] EXCEPT !.stage = "saved"]
  BY <1>1 DEF InsertRating, Turns
<1>6. /\ job'[t] \in Job /\ job'[t].stage = "saved" /\ job'[t].counts = NoRow
      /\ job'[t].entry = job[t].entry /\ job'[t].score = job[t].score
      /\ job'[t].row = NoRow /\ job'[t].was = NoRow
  BY <1>1, <1>5 DEF Job, InsertRating, JobKnown
<1>7. \A q \in Threads \ {t} : job'[q] = job[q]
  BY <1>1, <1>5
<1>8. \A q \in Threads : JobKnown(q)'
  <2>1. JobKnown(t)'
    BY <1>1, <1>6 DEF JobKnown, InsertRating
  <2>2. ASSUME NEW q \in Threads \ {t} PROVE JobKnown(q)'
    BY <1>2, <1>4, <1>7 DEF IInv, EngagementTypeOK, Job, JobKnown
  <2>3. QED
    BY <2>1, <2>2
<1>9. \A q \in Threads : JobCounts(q)'
  BY <1>6, <1>7 DEF IInv, JobCounts, InsertRating
<1>10. OneRow'
  <2>1. \A k \in RatingIds : ratings[k] # NoRow => ratings[k].entry # row.entry
    BY <1>3 DEF InsertRating, UniqueRating, Rows
  <2>2. QED
    BY <1>2, <1>4, <2>1 DEF IInv, OneRow
<1>11. EngagementTypeOK' /\ CountsHonest'
  BY <1>1, <1>4, <1>5, <1>6 DEF IInv, EngagementTypeOK, CountsHonest, InsertRating
<1>12. QED
  BY <1>8, <1>9, <1>10, <1>11 DEF IInv

LEMMA FreeKnown == ASSUME NEW t \in Threads, job'[t] = Free PROVE JobKnown(t)' /\ JobCounts(t)'
  BY DEF JobKnown, JobCounts, Free

LEMMA WriteRatingEventKeeps == ASSUME IInv, NEW t \in Threads, WriteRatingEvent(t) PROVE IInv'
<1>1. job[t].entry \in Entries
  BY DEF IInv, JobKnown, WriteRatingEvent
<1>2. audited' \in [Entries -> Nat]
  BY <1>1 DEF IInv, EngagementTypeOK, WriteRatingEvent, Entries
<1>3. job'[t] = Free
  BY DEF IInv, EngagementTypeOK, WriteRatingEvent, Turns
<1>4. QED
  BY <1>2, <1>3, FreeJob, FreeKnown, TurnKeeps DEF WriteRatingEvent, IInv, EngagementTypeOK

LEMMA FailEngagementKeeps == ASSUME IInv, NEW t \in Threads, FailEngagement(t) PROVE IInv'
<1>1. job'[t] = Free
  BY DEF IInv, EngagementTypeOK, FailEngagement, Turns
<1>2. QED
  BY <1>1, FreeJob, FreeKnown, TurnKeeps DEF FailEngagement, IInv, EngagementTypeOK, Entries

\* live is in no other part of the invariant.
LEMMA DeletionKeeps ==
  ASSUME IInv, UNCHANGED <<counter, ratings, audited, job, commits, lost>>, live' \subseteq live
  PROVE  IInv'
<1>1. EngagementTypeOK'
  BY DEF IInv, EngagementTypeOK
<1>2. \A t \in Threads : JobKnown(t)' /\ JobCounts(t)'
  BY DEF IInv, JobKnown, JobCounts
<1>3. QED
  BY <1>1, <1>2 DEF IInv, CountsHonest, OneRow

LEMMA Inductive == IInv /\ [EngagementNext]_engagementVars => IInv'
<1> SUFFICES ASSUME IInv, [EngagementNext]_engagementVars PROVE IInv'
  OBVIOUS
<1>1. ASSUME NEW p \in live, DeleteRatedPrompt(p) PROVE IInv'
  BY <1>1, DeletionKeeps DEF DeleteRatedPrompt
<1>2. ASSUME NotFound \/ UNCHANGED engagementVars PROVE IInv'
  BY <1>2, DeletionKeeps DEF NotFound, engagementVars
<1>3. QED
  BY <1>1, <1>2, LoadCounterKeeps, CommitCounterKeeps, LoadRatedPromptKeeps, FindRatingKeeps,
     OverwriteKeeps, InsertRatingKeeps, WriteRatingEventKeeps, FailEngagementKeeps
     DEF EngagementNext

LEMMA Invariance == EngagementSpec => []IInv
  BY Initially, Inductive, PTL DEF EngagementSpec

----------------------------------------------------------------------------
(* The refinement. *)

\* The abstract state: the register of each entry, the request of each thread.
bookOf   == [e \in Entries |-> Register(e)]
ratingOf == [t \in Threads |->
               [phase |-> Phase(job[t]), entry |-> job[t].entry, mark |-> job[t].score]]

LEMMA Registered ==
  ASSUME OneRow, NEW i \in RatingIds, ratings[i] # NoRow
  PROVE  Register(ratings[i].entry) = ratings[i].score
<1>1. Rows(ratings[i].entry) = {i}
  BY DEF OneRow, Rows
<1>2. (CHOOSE k \in RatingIds : {i} = {k}) = i
  OBVIOUS
<1>3. QED
  BY <1>1, <1>2 DEF Register

\* The registers follow from the table.
LEMMA SameBook ==
  ASSUME UNCHANGED ratings
  PROVE  UNCHANGED bookOf
  BY DEF bookOf, Register, Rows

\* A step in which one request moves and nothing else: what RatingBook sees of it.
LEMMA OneMoves ==
  ASSUME IInv, NEW t \in Threads, job' = [job EXCEPT ![t] = job'[t]]
  PROVE  ratingOf' = [ratingOf EXCEPT ![t] =
           [phase |-> Phase(job'[t]), entry |-> job'[t].entry, mark |-> job'[t].score]]
  BY DEF ratingOf, IInv, EngagementTypeOK

LEMMA NoneFree ==
  /\ Phase(Free) = "none" /\ Free.entry = NoRow /\ Free.score = NoRow
  BY DEF Free, Phase

USE DEF Registers!NoRating

LEMMA CounterSteps ==
  ASSUME IInv, NEW t \in Threads, LoadCounter(t) \/ CommitCounter(t)
  PROVE  UNCHANGED <<bookOf, audited, ratingOf>>
<1>1. UNCHANGED <<ratings, audited>>
  BY DEF LoadCounter, CommitCounter
<1>2. job \in [Threads -> Job] /\ \A q \in Threads : JobKnown(q)
  BY DEF IInv, EngagementTypeOK
<1>3. \A q \in Threads : /\ Phase(job'[q]) = Phase(job[q])
                         /\ job'[q].entry = job[q].entry /\ job'[q].score = job[q].score
  <2>1. CASE LoadCounter(t)
    <3> PICK c \in Counters :
          Turns(t, [Free EXCEPT !.stage = "counting", !.counts = c, !.loaded = counter[c]])
      BY <2>1 DEF LoadCounter
    <3> DEFINE new == [Free EXCEPT !.stage = "counting", !.counts = c, !.loaded = counter[c]]
    <3>0. new.stage = "counting" /\ new.entry = NoRow /\ new.score = NoRow
      BY DEF Free
    <3>1. /\ job'[t].stage = "counting" /\ job'[t].entry = NoRow /\ job'[t].score = NoRow
          /\ \A q \in Threads \ {t} : job'[q] = job[q]
      <4> HIDE DEF new
      <4>1. Turns(t, new)
        BY DEF new
      <4>2. QED
        BY <1>2, <3>0, <4>1 DEF Turns
    <3>2. job[t].stage = "free" /\ job[t].entry = NoRow /\ job[t].score = NoRow
      BY <1>2, <2>1 DEF LoadCounter, JobKnown
    <3>3. QED
      BY <3>1, <3>2 DEF Phase
  <2>2. CASE CommitCounter(t)
    <3>1. job[t].stage = "counting" /\ job[t].entry = NoRow /\ job[t].score = NoRow
      BY <1>2, <2>2 DEF CommitCounter, JobKnown
    <3>2. \A q \in Threads \ {t} :
            /\ job'[q].stage = job[q].stage /\ job'[q].was = job[q].was
            /\ job'[q].entry = job[q].entry /\ job'[q].score = job[q].score
      BY <1>2, <2>2 DEF CommitCounter, Job
    <3>3. job'[t] = Free
      BY <2>2 DEF CommitCounter
    <3>4. QED
      BY <3>1, <3>2, <3>3, NoneFree DEF Phase
  <2>3. QED
    BY <2>1, <2>2
<1>4. QED
  BY <1>1, <1>3, SameBook DEF ratingOf

LEMMA AskStep ==
  ASSUME IInv, NEW t \in Threads, LoadRatedPrompt(t)
  PROVE  Registers!Ask(t)
<1>1. /\ job[t].stage = "free" /\ job \in [Threads -> Job]
      /\ job[t].entry = NoRow /\ job[t].score = NoRow
  BY DEF IInv, EngagementTypeOK, JobKnown, LoadRatedPrompt
<1>2. PICK e \in Entries, s \in Scores :
        job' = [job EXCEPT ![t] = [Free EXCEPT !.stage = "rating", !.entry = e, !.score = s]]
  BY DEF LoadRatedPrompt, Turns, Entries, IInv, EngagementTypeOK
<1>3. /\ job'[t].stage = "rating" /\ job'[t].entry = e /\ job'[t].score = s
      /\ job' = [job EXCEPT ![t] = job'[t]]
  BY <1>1, <1>2 DEF Free
<1>4. ratingOf' = [ratingOf EXCEPT ![t] = [phase |-> "asked", entry |-> e, mark |-> s]]
  BY <1>3, OneMoves DEF Phase
<1>5. ratingOf[t].phase = "none"
  BY <1>1 DEF ratingOf, Phase
<1>6. UNCHANGED <<bookOf, audited>>
  BY SameBook DEF LoadRatedPrompt
<1>7. QED
  BY <1>4, <1>5, <1>6 DEF Registers!Ask, ratingOf, bookOf, Entries

\* Found: the score it wants is already there (a registered rating), or it is not.
LEMMA FindStep ==
  ASSUME IInv, NEW t \in Threads, FindRating(t)
  PROVE  Registers!Apply(t) \/ UNCHANGED <<bookOf, audited, ratingOf>>
<1>1. /\ job[t].stage = "rating" /\ job \in [Threads -> Job] /\ OneRow
      /\ \A i \in RatingIds : ratings[i] \in RatingRow \cup {NoRow}
  BY DEF FindRating, IInv, EngagementTypeOK
<1>2. UNCHANGED <<bookOf, audited>>
  BY SameBook DEF FindRating
<1>3. ratingOf' = [ratingOf EXCEPT ![t] =
         [phase |-> Phase(job'[t]), entry |-> job[t].entry, mark |-> job[t].score]]
  BY Finds, OneMoves
<1>4. ratingOf[t] = [phase |-> "asked", entry |-> job[t].entry, mark |-> job[t].score]
  BY <1>1 DEF ratingOf, Phase
<1>5. CASE job[t].score = job'[t].was
  <2>1. Phase(job'[t]) = "applied"
    BY <1>5, Finds DEF Phase
  <2>2. job'[t].was # NoRow /\ job[t].entry \in Entries /\ job[t].score \in Scores
    BY <1>5, Finds
  <2>3. FoundRow(t)
    BY <2>2, Finds DEF Unfound
  <2>4. PICK i \in RatingIds : /\ ratings[i] # NoRow /\ ratings[i].entry = job[t].entry
                              /\ job[t].score = ratings[i].score
    BY <1>5, <2>3 DEF FoundRow, Rows
  <2>5. Register(job[t].entry) = job[t].score
    BY <1>1, <2>4, Registered
  <2>6. bookOf' = [bookOf EXCEPT ![job[t].entry] = job[t].score]
    BY <1>2, <2>2, <2>5 DEF bookOf
  <2>7. ratingOf' = [ratingOf EXCEPT ![t] = [ratingOf[t] EXCEPT !.phase = "applied"]]
    <3>1. [ratingOf[t] EXCEPT !.phase = "applied"] =
            [phase |-> "applied", entry |-> job[t].entry, mark |-> job[t].score]
      BY <1>4
    <3>2. QED
      BY <1>3, <2>1, <3>1
  <2>8. QED
    BY <1>2, <1>4, <2>6, <2>7 DEF Registers!Apply, ratingOf, bookOf, Entries
<1>6. CASE job[t].score # job'[t].was
  <2>1. Phase(job'[t]) = "asked"
    BY <1>6, Finds DEF Phase
  <2>2. ratingOf' = ratingOf
    BY <1>3, <1>4, <2>1 DEF ratingOf
  <2>3. QED
    BY <1>2, <2>2
<1>7. QED
  BY <1>5, <1>6

\* One row is inserted or rewritten, and with it one register.
LEMMA OneRegister ==
  ASSUME OneRow, OneRow', NEW i \in RatingIds, NEW e \in Entries, NEW s \in Scores,
         ratings'[i] # NoRow, ratings'[i].entry = e, ratings'[i].score = s,
         ratings[i] # NoRow => ratings[i].entry = e,
         \A k \in RatingIds \ {i} : ratings'[k] = ratings[k]
  PROVE  bookOf' = [bookOf EXCEPT ![e] = s]
<1>1. Register(e)' = s
  <2>1. Rows(e)' = {i}
    BY DEF OneRow, Rows
  <2>2. (CHOOSE k \in RatingIds : {i} = {k}) = i
    OBVIOUS
  <2>3. QED
    BY <2>1, <2>2 DEF Register
<1>2. ASSUME NEW f \in Entries, f # e PROVE Register(f)' = Register(f)
  <2>1. Rows(f)' = Rows(f)
    BY <1>2 DEF Rows
  <2>2. ASSUME NEW k \in RatingIds, Rows(f) = {k} PROVE ratings'[k] = ratings[k]
    BY <1>2, <2>2 DEF Rows
  <2>3. CASE \E k \in RatingIds : Rows(f) = {k}
    <3> DEFINE k == CHOOSE k \in RatingIds : Rows(f) = {k}
    <3>1. k \in RatingIds /\ Rows(f) = {k}
      BY <2>3
    <3>2. Register(f) = ratings[k].score /\ Register(f)' = ratings'[k].score
      BY <2>1, <2>3, <3>1 DEF Register
    <3>3. QED
      BY <2>2, <3>1, <3>2
  <2>4. CASE ~\E k \in RatingIds : Rows(f) = {k}
    BY <2>1, <2>4 DEF Register
  <2>5. QED
    BY <2>3, <2>4
<1>3. QED
  BY <1>1, <1>2 DEF bookOf

LEMMA OverwriteStep ==
  ASSUME IInv, NEW t \in Threads, Overwrite(t)
  PROVE  Registers!Apply(t) \/ UNCHANGED <<bookOf, audited, ratingOf>>
<1>1. /\ job[t].stage = "found" /\ job \in [Threads -> Job] /\ job[t] \in Job
      /\ ratings \in [RatingIds -> RatingRow \cup {NoRow}] /\ JobKnown(t)
  BY DEF Overwrite, IInv, EngagementTypeOK
<1>2. /\ job[t].row \in RatingIds /\ ratings[job[t].row] \in RatingRow
      /\ ratings[job[t].row].entry = job[t].entry
      /\ job[t].entry \in Entries /\ job[t].score \in Scores
  BY <1>1 DEF Overwrite, JobKnown, Job
<1>3. /\ job' = [job EXCEPT ![t] = job'[t]] /\ job'[t].stage = "saved"
      /\ job'[t].entry = job[t].entry /\ job'[t].score = job[t].score
  BY <1>1 DEF Overwrite, Turns, Job
<1>4. ratingOf' = [ratingOf EXCEPT ![t] =
         [phase |-> "applied", entry |-> job[t].entry, mark |-> job[t].score]]
  BY <1>3, OneMoves DEF Phase
<1>5. CASE job[t].score = job[t].was
  <2>1. ratingOf[t] = [phase |-> "applied", entry |-> job[t].entry, mark |-> job[t].score]
    BY <1>1, <1>5 DEF ratingOf, Phase
  <2>2. QED
    BY <1>4, <1>5, <2>1, SameBook DEF Overwrite, ratingOf
<1>6. CASE job[t].score # job[t].was
  <2>1. ratingOf[t] = [phase |-> "asked", entry |-> job[t].entry, mark |-> job[t].score]
    BY <1>1, <1>6 DEF ratingOf, Phase
  <2>2. ratings' = [ratings EXCEPT ![job[t].row].score = job[t].score]
    BY <1>6 DEF Overwrite
  <2>3. /\ ratings'[job[t].row] \in RatingRow /\ ratings'[job[t].row].entry = job[t].entry
        /\ ratings'[job[t].row].score = job[t].score
        /\ \A k \in RatingIds \ {job[t].row} : ratings'[k] = ratings[k]
    BY <1>1, <1>2, <2>2 DEF RatingRow
  <2>4. OneRow /\ OneRow'
    BY OverwriteKeeps DEF IInv
  <2>5. bookOf' = [bookOf EXCEPT ![job[t].entry] = job[t].score]
    BY <1>2, <2>3, <2>4, OneRegister
  <2>6. ratingOf' = [ratingOf EXCEPT ![t] = [ratingOf[t] EXCEPT !.phase = "applied"]]
    <3>1. [ratingOf[t] EXCEPT !.phase = "applied"] =
            [phase |-> "applied", entry |-> job[t].entry, mark |-> job[t].score]
      BY <2>1
    <3>2. QED
      BY <1>4, <3>1
  <2>7. QED
    BY <2>1, <2>5, <2>6 DEF Registers!Apply, ratingOf, bookOf, Entries, Overwrite
<1>7. QED
  BY <1>5, <1>6

LEMMA InsertStep ==
  ASSUME IInv, NEW t \in Threads, InsertRating(t)
  PROVE  Registers!Apply(t)
<1>1. /\ job[t].stage = "found" /\ job \in [Threads -> Job] /\ job[t] \in Job
      /\ ratings \in [RatingIds -> RatingRow \cup {NoRow}] /\ JobKnown(t)
  BY DEF InsertRating, IInv, EngagementTypeOK
<1>2. /\ job[t].entry \in Entries /\ job[t].score \in Scores /\ job[t].was = NoRow
  BY <1>1 DEF InsertRating, JobKnown
<1> DEFINE row == [entry |-> job[t].entry, score |-> job[t].score]
<1>3. PICK i \in RatingIds : ratings[i] = NoRow /\ ratings' = [ratings EXCEPT ![i] = row]
  BY DEF InsertRating
<1>4. row \in RatingRow
  BY <1>2 DEF RatingRow, Entries
<1>5. /\ ratings'[i] # NoRow /\ ratings'[i].entry = job[t].entry
      /\ ratings'[i].score = job[t].score
      /\ \A k \in RatingIds \ {i} : ratings'[k] = ratings[k]
  BY <1>1, <1>3, <1>4
<1>6. OneRow /\ OneRow'
  BY InsertRatingKeeps DEF IInv
<1>7. bookOf' = [bookOf EXCEPT ![job[t].entry] = job[t].score]
  BY <1>2, <1>3, <1>5, <1>6, OneRegister
<1>8. /\ job' = [job EXCEPT ![t] = job'[t]] /\ job'[t].stage = "saved"
      /\ job'[t].entry = job[t].entry /\ job'[t].score = job[t].score
  BY <1>1 DEF InsertRating, Turns, Job
<1>9. ratingOf' = [ratingOf EXCEPT ![t] =
         [phase |-> "applied", entry |-> job[t].entry, mark |-> job[t].score]]
  BY <1>8, OneMoves DEF Phase
<1>10. ratingOf[t] = [phase |-> "asked", entry |-> job[t].entry, mark |-> job[t].score]
  BY <1>1, <1>2 DEF ratingOf, Phase
<1>11. ratingOf' = [ratingOf EXCEPT ![t] = [ratingOf[t] EXCEPT !.phase = "applied"]]
  <2>1. [ratingOf[t] EXCEPT !.phase = "applied"] =
          [phase |-> "applied", entry |-> job[t].entry, mark |-> job[t].score]
    BY <1>10
  <2>2. QED
    BY <1>9, <2>1
<1>12. QED
  BY <1>7, <1>10, <1>11 DEF Registers!Apply, ratingOf, bookOf, Entries, InsertRating

\* The end of a request gives its place back.
LEMMA EndsFree ==
  ASSUME IInv, NEW t \in Threads, Turns(t, Free)
  PROVE  ratingOf' = [ratingOf EXCEPT ![t] = Registers!NoRating]
<1>1. job' = [job EXCEPT ![t] = job'[t]] /\ job'[t] = Free
  BY DEF Turns, IInv, EngagementTypeOK
<1>2. QED
  BY <1>1, OneMoves, NoneFree

LEMMA NoteStep ==
  ASSUME IInv, NEW t \in Threads, WriteRatingEvent(t)
  PROVE  Registers!Note(t)
<1>1. ratingOf[t].phase = "applied" /\ ratingOf[t].entry = job[t].entry
  BY DEF WriteRatingEvent, ratingOf, Phase
<1>2. ratingOf' = [ratingOf EXCEPT ![t] = Registers!NoRating] /\ UNCHANGED bookOf
  BY EndsFree, SameBook DEF WriteRatingEvent
<1>3. audited' = [audited EXCEPT ![ratingOf[t].entry] = audited[ratingOf[t].entry] + 1]
  BY <1>1 DEF WriteRatingEvent
<1>4. QED
  BY <1>1, <1>2, <1>3 DEF Registers!Note, ratingOf, bookOf, Entries

LEMMA FailStep ==
  ASSUME IInv, NEW t \in Threads, FailEngagement(t)
  PROVE  Registers!Fail(t) \/ UNCHANGED <<bookOf, audited, ratingOf>>
<1>1. ratingOf' = [ratingOf EXCEPT ![t] = Registers!NoRating] /\ UNCHANGED <<bookOf, audited>>
  BY EndsFree, SameBook DEF FailEngagement
<1>2. CASE job[t].stage \in {"rating", "found", "saved"}
  <2>1. ratingOf[t].phase # "none"
    BY <1>2 DEF ratingOf, Phase
  <2>2. QED
    BY <1>1, <2>1 DEF Registers!Fail, ratingOf, bookOf, Entries
<1>3. CASE job[t].stage = "counting"
  <2>1. ratingOf[t] = Registers!NoRating
    BY <1>3 DEF ratingOf, Phase, IInv, JobKnown
  <2>2. ratingOf' = ratingOf
    BY <1>1, <2>1 DEF ratingOf
  <2>3. QED
    BY <1>1, <2>2
<1>4. QED
  BY <1>2, <1>3 DEF IInv, EngagementTypeOK, Job, FailEngagement

LEMMA InitialBook == EngagementInit => Registers!BookInit
<1> SUFFICES ASSUME EngagementInit PROVE Registers!BookInit
  OBVIOUS
<1>1. \A e \in Entries : Register(e) = NoRow
  BY DEF EngagementInit, Register, Rows
<1>2. \A t \in Threads : Phase(job[t]) = "none" /\ job[t].entry = NoRow /\ job[t].score = NoRow
  BY NoneFree DEF EngagementInit
<1>3. QED
  BY <1>1, <1>2 DEF EngagementInit, Registers!BookInit, Entries

LEMMA EachStep == IInv /\ [EngagementNext]_engagementVars => [Registers!BookNext]_(Registers!bookVars)
<1> SUFFICES ASSUME IInv, [EngagementNext]_engagementVars
             PROVE  Registers!BookNext \/ UNCHANGED <<bookOf, audited, ratingOf>>
  BY DEF Registers!bookVars, bookOf, ratingOf, Entries
<1>1. ASSUME UNCHANGED <<ratings, audited, job>> PROVE UNCHANGED <<bookOf, audited, ratingOf>>
  BY <1>1, SameBook DEF ratingOf
<1>2. ASSUME NEW t \in Threads,
             Registers!Ask(t) \/ Registers!Apply(t) \/ Registers!Note(t) \/ Registers!Fail(t)
      PROVE  Registers!BookNext
  BY <1>2 DEF Registers!BookNext
<1>3. CASE \E p \in live : DeleteRatedPrompt(p)
  BY <1>1, <1>3 DEF DeleteRatedPrompt
<1>4. CASE NotFound \/ UNCHANGED engagementVars
  BY <1>1, <1>4 DEF NotFound, engagementVars
<1>5. ASSUME NEW t \in Threads, LoadCounter(t) \/ CommitCounter(t) \/ LoadRatedPrompt(t)
      PROVE  Registers!BookNext \/ UNCHANGED <<bookOf, audited, ratingOf>>
  BY <1>2, <1>5, CounterSteps, AskStep
<1>6. ASSUME NEW t \in Threads, FindRating(t) \/ Overwrite(t) \/ InsertRating(t)
      PROVE  Registers!BookNext \/ UNCHANGED <<bookOf, audited, ratingOf>>
  BY <1>2, <1>6, FindStep, OverwriteStep, InsertStep
<1>7. ASSUME NEW t \in Threads, WriteRatingEvent(t) \/ FailEngagement(t)
      PROVE  Registers!BookNext \/ UNCHANGED <<bookOf, audited, ratingOf>>
  BY <1>2, <1>7, NoteStep, FailStep
<1>8. QED
  BY <1>3, <1>4, <1>5, <1>6, <1>7 DEF EngagementNext

----------------------------------------------------------------------------
(* The theorems. *)

\* The state of counters, ratings and requests is of its types: a request holds
\* only rows, prompts and users that exist (prompt_service.py:335-350, 526-566).
THEOREM EngagementTypeCorrect == EngagementSpec => []EngagementTypeOK
<1>1. IInv => EngagementTypeOK
  BY DEF IInv
<1>2. QED
  BY <1>1, Invariance, PTL

\* With any number of overlapping views and uses a counter is never ahead of the
\* requests committed to it, and behind by no more than the overlapping commits.
THEOREM CountersHonest == EngagementSpec => []CountsHonest
<1>1. IInv => CountsHonest
  BY DEF IInv
<1>2. QED
  BY <1>1, Invariance, PTL

\* submit_rating implements one register per prompt and user: its lookup, its
\* update or insert and its event are together one step of RatingBook each.
THEOREM RatingsImplementBook == EngagementSpec => RatingsLinearise
<1>1. EngagementSpec => Registers!BookInit /\ [][Registers!BookNext]_(Registers!bookVars)
  BY InitialBook, EachStep, Invariance, PTL DEF EngagementSpec
<1>2. QED
  BY <1>1 DEF RatingsLinearise, Registers!BookSpec
----------------------------------------------------------------------------
(* Services. *)

\* A behaviour of Services is a behaviour of each part: a step of one part leaves
\* the variables of the others alone.
LEMMA Parts ==
  Spec => GallerySpec /\ EngagementSpec /\ ReembedSpec /\ ImportSpec /\ SearchSpec
<1>1. Init => GalleryInit /\ EngagementInit /\ ReembedInit /\ ImportInit /\ SearchInit
  BY DEF Init
<1>2. [Next]_vars => [GalleryNext]_galleryVars
  BY DEF Next, vars
<1>3. [Next]_vars => [EngagementNext]_engagementVars
  BY DEF Next, vars
<1>4. [Next]_vars => [ReembedNext]_reembedVars
  BY DEF Next, vars
<1>5. [Next]_vars => [ImportNext]_importVars
  BY DEF Next, vars
<1>6. [Next]_vars => [SearchNext]_searchVars
  BY DEF Next, vars
<1>7. QED
  BY <1>1, <1>2, <1>3, <1>4, <1>5, <1>6, PTL
  DEF Spec, GallerySpec, EngagementSpec, ReembedSpec, ImportSpec, SearchSpec

\* Every variable of the five parts keeps its type, whichever part moves.
THEOREM ServicesTypeCorrect == Spec => []TypeOK
<1>1. Spec => []GalleryTypeOK /\ []EngagementTypeOK /\ []ReembedTypeOK
              /\ []ImportTypeOK /\ []SearchTypeOK
  BY Parts, GalleryTypeCorrect, EngagementTypeCorrect, ReembedTypeCorrect, ImportTypeCorrect,
     SearchTypeCorrect, PTL
<1>2. QED
  BY <1>1, PTL DEF TypeOK

\* The safety properties of the five parts hold together, of the specification
\* that composes them.
THEOREM ServicesCorrect ==
  Spec => /\ [](WithinLimits /\ ToolsAnswerTrue /\ CountsHonest /\ ReembedTrue /\ ImportOnce)
          /\ [](FusedFairly /\ PagesComplete)
          /\ GenuineAccepted /\ ServedAsCounted /\ RatingsLinearise
<1>1. Spec => [](WithinLimits /\ ToolsAnswerTrue /\ CountsHonest /\ ReembedTrue /\ ImportOnce)
  BY Parts, LimitsHold, ToolAnswers, CountersHonest, VectorsRight, ImportedOnce, PTL
<1>2. Spec => [](FusedFairly /\ PagesComplete)
  BY Parts, RankingIsFair, PagesAreComplete, PTL
<1>3. Spec => GenuineAccepted /\ ServedAsCounted /\ RatingsLinearise
  BY Parts, Genuine, Counted, RatingsImplementBook
<1>4. QED
  BY <1>1, <1>2, <1>3
=============================================================================
