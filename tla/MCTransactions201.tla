-------------------------- MODULE MCTransactions201 --------------------------
\* Small instances of Transactions201.
EXTENDS Transactions201, TLC

\* The transaction ids remote start and the sessions API pass.
FromRemote == {0}
FromRemoteAndSessionsAPI == {0, 1}
=============================================================================
