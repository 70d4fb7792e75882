------------------------------ MODULE MCDrain16 ------------------------------
\* Small instances of Drain16.
EXTENDS Drain16, TLC

\* drainQueue does not tell its callers apart.
DrainerSymmetry == Permutations(Drainers)

\* Sessions started over REST or remotely, and with the sessions API as well.
FromRest == {-1}
FromRestAndSessionsAPI == {-1, 1}
=============================================================================
