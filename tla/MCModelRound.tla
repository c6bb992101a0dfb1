----------------------------- MODULE MCModelRound -----------------------------
\* Small instances of what a run does between two answers of a model: the
\* rounds, with two configured models, and the todo list.  They share no state,
\* so that one rests while the other moves.
EXTENDS ModelRound, Todo

CONSTANTS m1, m2
MCAvailable == <<m1, m2>>

RoundsInit == RoundInit /\ TodoInit

RoundsNext ==
  \/ TodoInit /\ RoundNext /\ UNCHANGED todoVars
  \/ RoundInit /\ TodoNext /\ UNCHANGED roundVars

RoundsSpec == RoundsInit /\ [][RoundsNext]_<<roundVars, todoVars>> /\ RoundFairness
=============================================================================
