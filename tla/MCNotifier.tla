----------------------------- MODULE MCNotifier -----------------------------
\* Small instances of Notifier.
EXTENDS Notifier
=============================================================================
