---------------------------- MODULE AnswerDelivery ----------------------------
(***************************************************************************)
(* What the client message hub promises to the goroutines of a run and to  *)
(* the user, with no queue, buffer, lock or pump: a set of wait calls, the *)
(* messages offered so far, and the outcome of each wait call.             *)
(***************************************************************************)
CONSTANTS
  Waiters,     \* the wait calls
  Messages,    \* what the client may send
  Owners,      \* Owners[m]: the wait calls m may resolve
  Broadcasts   \* the messages that may resolve any number of them

VARIABLES
  offered,   \* the messages the client has sent
  ended,     \* the connection is gone or the run over
  outcome    \* outcome[w]: open, a message, or the error of the connection

vars == <<offered, ended, outcome>>

Open == [kind |-> "open"]
Disconnected == [kind |-> "err"]
Answered(m) == [kind |-> "msg", msg |-> m]

Init ==
  /\ offered = {} /\ ended = FALSE
  /\ outcome = [w \in Waiters |-> Open]

Offer(m) ==
  /\ ~ended /\ offered' = offered \cup {m}
  /\ UNCHANGED <<ended, outcome>>

End ==
  /\ ended' = TRUE
  /\ UNCHANGED <<offered, outcome>>

(* A wait call is resolved by a message that was offered, that may resolve *)
(* it, and that resolved no other unless it is a broadcast.                *)
Resolve(w, m) ==
  /\ outcome[w] = Open
  /\ m \in offered /\ w \in Owners[m]
  /\ m \in Broadcasts \/ \A v \in Waiters : outcome[v] # Answered(m)
  /\ outcome' = [outcome EXCEPT ![w] = Answered(m)]
  /\ UNCHANGED <<offered, ended>>

Disconnect(w) ==
  /\ outcome[w] = Open /\ ended
  /\ outcome' = [outcome EXCEPT ![w] = Disconnected]
  /\ UNCHANGED <<offered, ended>>

Next ==
  \/ \E m \in Messages : Offer(m)
  \/ End
  \/ \E w \in Waiters, m \in Messages : Resolve(w, m)
  \/ \E w \in Waiters : Disconnect(w)

Spec == Init /\ [][Next]_vars
=============================================================================
