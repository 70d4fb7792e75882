------------------------------- MODULE MCFleet -------------------------------
\* Small instances of Fleet.
EXTENDS Fleet, TLC
=============================================================================
