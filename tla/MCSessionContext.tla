-------------------------- MODULE MCSessionContext --------------------------
\* Small instances of SessionContext, of the requests made from it and of the
\* history shown of it.
EXTENDS Wire, Replay
=============================================================================
