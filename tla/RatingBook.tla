----------------------------- MODULE RatingBook -----------------------------
(***************************************************************************)
(* What the rating of prompts promises: for each prompt and user one       *)
(* register, the user's rating.  A request to rate takes effect at most    *)
(* once, at one moment between its start and its end; the audit trail may  *)
(* tell of it only after that moment, and it is answered only after that.  *)
(***************************************************************************)
EXTENDS Naturals

CONSTANTS
  Raters,   \* requests that can be under way
  Book,     \* the registers: pairs of a prompt and a user
  Marks,    \* ratings
  Unrated   \* the register of a user who has not rated

VARIABLES
  book,     \* the registers
  noted,    \* how often the audit trail tells of each
  rating    \* the requests under way

bookVars == <<book, noted, rating>>

\* No request.
NoRating == [phase |-> "none", entry |-> Unrated, mark |-> Unrated]

BookInit ==
  /\ book = [e \in Book |-> Unrated]
  /\ noted = [e \in Book |-> 0]
  /\ rating = [r \in Raters |-> NoRating]

Ask(r) ==
  /\ rating[r].phase = "none"
  /\ \E e \in Book, m \in Marks :
       rating' = [rating EXCEPT ![r] = [phase |-> "asked", entry |-> e, mark |-> m]]
  /\ UNCHANGED <<book, noted>>

Apply(r) ==
  /\ rating[r].phase = "asked"
  /\ book' = [book EXCEPT ![rating[r].entry] = rating[r].mark]
  /\ rating' = [rating EXCEPT ![r] = [rating[r] EXCEPT !.phase = "applied"]]
  /\ noted' = noted

\* The event is written, which is the last thing before the answer.
Note(r) ==
  /\ rating[r].phase = "applied"
  /\ noted' = [noted EXCEPT ![rating[r].entry] = @ + 1]
  /\ rating' = [rating EXCEPT ![r] = NoRating]
  /\ book' = book

Fail(r) ==
  /\ rating[r].phase # "none"
  /\ rating' = [rating EXCEPT ![r] = NoRating]
  /\ UNCHANGED <<book, noted>>

\* Named, although a stutter is always allowed: TLC tries it first.
Look == UNCHANGED bookVars

BookNext == Look \/ \E r \in Raters : Ask(r) \/ Apply(r) \/ Note(r) \/ Fail(r)

BookSpec == BookInit /\ [][BookNext]_bookVars
=============================================================================
