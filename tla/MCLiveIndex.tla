---------------------------- MODULE MCLiveIndex ----------------------------
EXTENDS LiveIndex, TLC

\* Two documents: enough for the base ranges of one to shift when the other
\* is rebuilt in or out of the base.
MCDocs == {1, 2}
=============================================================================
