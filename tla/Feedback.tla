------------------------------ MODULE Feedback ------------------------------
(***************************************************************************)
(* What a user says of one run: a vote and the text of a problem, in one   *)
(* row that is unique for the run (models/llm/react_run_feedback.go).  A   *)
(* request brings one of them or both and looks in a transaction whether   *)
(* the row exists; it then creates it, or updates the columns it brings.   *)
(***************************************************************************)
EXTENDS Integers, FiniteSets

CONSTANTS Votes, Problems,  \* what a request may say, without the defaults
          NoVote, NoProblem, \* the defaults of the columns
          Authors,          \* the goroutines that serve requests
          MaxRemarks        \* bound: requests

ASSUME FeedbackAssumption ==
  /\ NoVote \notin Votes /\ NoProblem \notin Problems /\ MaxRemarks \in Nat

Columns == {"vote", "problem"}
Unset == [vote |-> NoVote, problem |-> NoProblem]

\* The run has no row.
NoRemark == [there |-> FALSE, columns |-> Unset, timed |-> {}]

VARIABLES remark,   \* the row of the run: its columns and which were ever set
          saying,   \* what each request is about to write
          remarks,  \* how many requests have come
          said      \* per column, what was last answered with success (history)

feedbackVars == <<remark, saying, remarks, said>>

Silent == [brings |-> {}]

FeedbackInit ==
  /\ remark = NoRemark /\ saying = [a \in Authors |-> Silent] /\ remarks = 0
  /\ said = Unset

\* feedback and problemFeedback: at least one is there.  0 takes a vote back.
Requests ==
  {request \in [brings : {{"vote"}, {"problem"}, Columns},
                vote : Votes \cup {NoVote}, problem : Problems \cup {NoProblem}] :
     \A c \in Columns \ request.brings : request[c] = Unset[c]}

\* The columns a request brings, over those of a row.
Over(request, columns) == [c \in Columns |-> IF c \in request.brings THEN request[c] ELSE columns[c]]

\* UpdateReactRunFeedback up to tx.First: a snapshot.
FindRemark(a, request) ==
  /\ saying[a] = Silent /\ remarks < MaxRemarks /\ remarks' = remarks + 1
  /\ saying' = [saying EXCEPT ![a] = [brings |-> request.brings, vote |-> request.vote,
                                      problem |-> request.problem, isNew |-> ~remark.there,
                                      existing |-> remark.columns]]
  /\ UNCHANGED <<remark, said>>

Forget(a) == saying' = [saying EXCEPT ![a] = Silent] /\ UNCHANGED remarks

\* tx.Create: of two requests that found no row the second violates the key
\* of the run.  A column that was not touched keeps no time.
CreateRemark(a) ==
  /\ saying[a] # Silent /\ saying[a].isNew /\ Forget(a)
  /\ IF remark.there
     THEN UNCHANGED <<remark, said>>
     ELSE /\ remark' = [there |-> TRUE, columns |-> Over(saying[a], Unset),
                        timed |-> saying[a].brings]
          /\ said' = Over(saying[a], said)

\* Mutant of Updates: the row is saved as it was read.
UpdatesAll(request) == Over(request, request.existing)
\* Only the columns that were touched.
Updates(request) == Over(request, remark.columns)

UpdateRemark(a) ==
  /\ saying[a] # Silent /\ ~saying[a].isNew /\ Forget(a)
  /\ remark' = [there |-> TRUE, columns |-> Updates(saying[a]),
                timed |-> remark.timed \cup saying[a].brings]
  /\ said' = Over(saying[a], said)

\* A statement fails or the process stops: the transaction leaves nothing.
RemarkFails(a) == saying[a] # Silent /\ Forget(a) /\ UNCHANGED <<remark, said>>

FeedbackNext ==
  \E a \in Authors :
    \/ \E request \in Requests : FindRemark(a, request)
    \/ CreateRemark(a) \/ UpdateRemark(a) \/ RemarkFails(a)

FeedbackSpec == FeedbackInit /\ [][FeedbackNext]_feedbackVars
-----------------------------------------------------------------------------
(* Properties.                                                             *)

\* Every column shows what was last confirmed for it, and has a time
\* if it says something: a vote and a text that are given at once do not take
\* each other back (toReactRunFeedbackResp).
FeedbackIsKept ==
  /\ remark.columns = said
  /\ \A c \in Columns : said[c] # Unset[c] => c \in remark.timed
=============================================================================
