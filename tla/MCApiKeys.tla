----------------------------- MODULE MCApiKeys -----------------------------
(***************************************************************************)
(* Small instances of ApiKeys for TLC.                                     *)
(***************************************************************************)
EXTENDS ApiKeys, TLC

CONSTANTS w1, w2, k1, k2, u1, u2

\* Workers and ids are interchangeable: no property names one.
Symmetry == Permutations(Workers) \cup Permutations(KeyIds)

AllScopes == {"apikey:create", "prompt:write"}

\* A user who may issue keys and one who may not.
SomeLogins == {[id |-> u1, scopes |-> AllScopes], [id |-> u2, scopes |-> {"prompt:write"}]}

OneLogin == {[id |-> u1, scopes |-> {"apikey:create"}]}
============================================================================
