---------------------------- MODULE MCRegistries ----------------------------
\* Bundles, callers, the models of users and feedback have no row in common, so
\* that three of them rest while the fourth moves.  Two files of the bundle name
\* the same skill, and it brings a server; an agent is written by hand only.
\* Two callers, one name; an administrator and another user; one run.
EXTENDS Bundles, Callers, UserModels, Feedback, TLC

CONSTANTS agent, skill, server

MCContent == <<skill, skill, server>>

\* Definitions are also the versions of models, workers also serve models and
\* feedback.
Symmetry == Permutations(Workers) \cup Permutations(Defs)

RegistriesInit == Init /\ CallerInit /\ ModelInit /\ FeedbackInit

RegistriesNext ==
  \/ CallerInit /\ ModelInit /\ FeedbackInit /\ Next /\ UNCHANGED <<callerVars, modelVars, feedbackVars>>
  \/ Init /\ ModelInit /\ FeedbackInit /\ CallerNext /\ UNCHANGED <<vars, modelVars, feedbackVars>>
  \/ Init /\ CallerInit /\ FeedbackInit /\ ModelNext /\ UNCHANGED <<vars, callerVars, feedbackVars>>
  \/ Init /\ CallerInit /\ ModelInit /\ FeedbackNext /\ UNCHANGED <<vars, callerVars, modelVars>>

RegistriesSpec == RegistriesInit /\ [][RegistriesNext]_<<vars, callerVars, modelVars, feedbackVars>>
=============================================================================
