------------------------------ MODULE MCCaches ------------------------------
(***************************************************************************)
(* A small instance of Caches for TLC.                                     *)
(***************************************************************************)
EXTENDS Caches, TLC

CONSTANTS w1, w2, u1, u2

\* For runs without a liveness property: workers are interchangeable.
Symmetry == Permutations(Workers)

\* A user who is a moderator in one session and has an API key without that
\* scope, and a visitor.  The other user only writes.
Moderating == [id |-> u1, scopes |-> {"prompt:moderate"}]
Plain      == [id |-> u1, scopes |-> {}]
Visitor    == [id |-> Anonymous, scopes |-> {}]

AllScopeSets == SUBSET {"prompt:moderate"}
OneEach      == {Plain, Visitor}
TwoSessions  == {Moderating, Plain, Visitor}
============================================================================
