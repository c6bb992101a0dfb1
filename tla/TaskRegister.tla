----------------------------- MODULE TaskRegister -----------------------------
(***************************************************************************)
(* What the rows of asynchronous tasks promise to those who read them: a   *)
(* task is recorded once, is found to have ended at most once and in one   *)
(* way, and is closed at most once, in whatever order news of it arrives.  *)
(* AsyncTask implements it.                                                *)
(***************************************************************************)
CONSTANT Tasks

VARIABLES
  exec,   \* exec[t]: execution_status; "none" without a row, "unmanaged"
          \* when no provider follows the task
  state   \* state[t]: "none" without a row

registerVars == <<exec, state>>

Ends == {"succeeded", "failed"}
Recorded == {t \in Tasks : state[t] # "none"}
Pending == {t \in Tasks : state[t] = "pending"}

RegisterInit == exec = [t \in Tasks |-> "none"] /\ state = [t \in Tasks |-> "none"]

Record(t, managed) ==
  /\ state[t] = "none"
  /\ state' = [state EXCEPT ![t] = "pending"]
  /\ exec' = [exec EXCEPT ![t] = IF managed THEN "processing" ELSE "unmanaged"]

(* Tasks of one job end together.                                          *)
Finish(T, how) ==
  /\ \A t \in T : exec[t] = "processing"
  /\ exec' = [t \in Tasks |-> IF t \in T THEN how ELSE exec[t]]
  /\ UNCHANGED state

Close(T, how) ==
  /\ T \subseteq Pending
  /\ state' = [t \in Tasks |-> IF t \in T THEN how ELSE state[t]]
  /\ UNCHANGED exec

RegisterNext ==
  \/ \E t \in Tasks, managed \in BOOLEAN : Record(t, managed)
  \/ \E T \in SUBSET Tasks, how \in Ends : Finish(T, how)
  \/ \E T \in SUBSET Tasks, how \in {"resolved", "expired"} : Close(T, how)

RegisterSpec == RegisterInit /\ [][RegisterNext]_registerVars
=============================================================================
