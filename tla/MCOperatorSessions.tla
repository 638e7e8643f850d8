------------------------- MODULE MCOperatorSessions -------------------------
EXTENDS OperatorSessions, TLC

CONSTANTS c1, c2, t1, t2, t3

\* run_teamserver registers an admin, an operator and a viewer; the tests also
\* build registries with several admins.
TwoAdmins == {<<t1, "admin">>, <<t2, "admin">>}
\* The connections and the two admins differ in nothing but their names.
SameNames == Permutations(Clients) \cup Permutations({t1, t2})
=============================================================================
