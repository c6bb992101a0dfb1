------------------------------ MODULE MCStreams ------------------------------
\* What the server reads from its peers: the answers of models and the frames
\* of browsers.  They have nothing in common, so that one rests while the other
\* moves; the fairness of the one at rest asks for nothing.
\* Frames are not read once for each decoder that rests.
EXTENDS ModelStream, WebSocket

StreamsInit == StreamInit /\ ConnInit

StreamsNext ==
  \/ ConnInit /\ StreamNext /\ UNCHANGED connVars
  \/ StreamInit /\ kind = (CHOOSE k \in Kinds : TRUE) /\ ConnNext /\ UNCHANGED streamVars

StreamsSpec ==
  StreamsInit /\ [][StreamsNext]_<<streamVars, connVars>> /\ StreamFairness /\ ConnFairness
=============================================================================
