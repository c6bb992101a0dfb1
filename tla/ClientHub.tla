------------------------------ MODULE ClientHub ------------------------------
(***************************************************************************)
(* The client message hub of one outer run (service/react/client_hub.go):  *)
(* every run goroutine that needs something from the user - the outer run  *)
(* and the sub runs delegated in parallel - blocks in clientMessageHub.    *)
(* wait, and a single pump goroutine reads the run's message channel and   *)
(* hands each message to a waiter.                                         *)
(*                                                                         *)
(* A waiter stands for one wait call, that is for one tool use (an         *)
(* ask_question, a batch of client tools, a confirmation).  The actions    *)
(* follow the lock: what runs inside one critical section of h.mu is one   *)
(* step, and everything between two critical sections may interleave.      *)
(* In particular dispatch takes its snapshot of the waiters, unlocks, and  *)
(* only then sends or buffers.                                             *)
(***************************************************************************)
EXTENDS Naturals, Sequences, FiniteSets, SequencesExt

CONSTANTS
  Waiters,       \* the wait calls of one run tree
  Messages,      \* the messages the client may send, each at most once
  Kind,          \* Kind[w]: the type of message w waits for
  Wants,         \* Wants[w]: the toolUseIds w waits for
  Type,          \* Type[m]: the type of the message
  Ids,           \* Ids[m]: the toolUseIds the message answers
  InboxCap,      \* capacity of runMsgCh (16 in the code)
  PendingCap,    \* clientHubPendingCap (16 in the code)
  EarlyAnswers   \* may an answer overtake the registration of its waiter?

AddressableTypes == {"tool_use_answer", "client_tool_use_end"}
AnswerTypes == AddressableTypes \cup {"tool_confirm_answer"}

ASSUME HubAssumption ==
  /\ IsFiniteSet(Waiters)
  /\ InboxCap \in Nat \ {0} /\ PendingCap \in Nat \ {0}
  /\ Kind \in [Waiters -> AnswerTypes]
  /\ Type \in [Messages -> AnswerTypes \cup {"cancel"}]
  /\ DOMAIN Wants = Waiters /\ DOMAIN Ids = Messages
  /\ EarlyAnswers \in BOOLEAN

VARIABLES
  inbox,     \* runMsgCh: forwarded messages the pump has not read
  closed,    \* runMsgCh has been closed by the WebSocket loop
  sent,      \* messages the client has sent
  phase,     \* phase[w]: where the goroutine of wait call w stands
  ch,        \* ch[w]: the waiter's channel, of capacity 1
  result,    \* result[w]: the event wait returned (meaningful once returned)
  waiters,   \* h.waiters
  pending,   \* h.pending
  deadErr,   \* h.deadErr # nil
  pump       \* the pump goroutine: its step, message and targets

envVars == <<inbox, closed, sent>>
hubVars == <<waiters, pending, deadErr>>
vars == <<inbox, closed, sent, phase, ch, result, waiters, pending, deadErr, pump>>

(* hubEvent is either a message or the error of the read channel.          *)
DeadEvent == [kind |-> "err"]
MsgEvent(m) == [kind |-> "msg", msg |-> m]
Events == {DeadEvent} \cup {MsgEvent(m) : m \in Messages}

Addressable(m) == Type[m] \in AddressableTypes

(* w.match of the four callers of waitClientMessage: the type, and one of  *)
(* the awaited toolUseIds.                                                 *)
Matches(w, m) == Type[m] = Kind[w] /\ Ids[m] \cap Wants[w] # {}

PumpOff == [at |-> "off"]
PumpReading == [at |-> "read"]
PumpExited == [at |-> "exit"]
PumpBuffering(m) == [at |-> "buffer", msg |-> m]
(* Sending ev to cur, then to the waiters of rest, then going on to after. *)
PumpSending(ev, cur, rest, after) ==
  [at |-> "send", ev |-> ev, cur |-> cur, rest |-> rest, after |-> after]

(* The loop "for _, w := range waiters { w.ch <- ev }": the next waiter is *)
(* fixed by the iteration order, so the pump is committed to it even when  *)
(* its channel is full.                                                    *)
Broadcast(ev, targets, after) ==
  IF targets = {}
  THEN pump' = [at |-> after]
  ELSE \E w \in targets : pump' = PumpSending(ev, w, targets \ {w}, after)

Init ==
  /\ inbox = <<>> /\ closed = FALSE /\ sent = {}
  /\ phase = [w \in Waiters |-> "idle"]
  /\ ch = [w \in Waiters |-> <<>>]
  /\ result = [w \in Waiters |-> DeadEvent]
  /\ waiters = {} /\ pending = <<>> /\ deadErr = FALSE
  /\ pump = PumpOff

-----------------------------------------------------------------------------
(* The client and the WebSocket loop                                       *)

(* The user can only answer what a *_start(waiting) or confirm_request     *)
(* event has shown; whether the answer can also come before the goroutine  *)
(* has reached the hub is EarlyAnswers.                                    *)
Answerable(m) ==
  \/ Type[m] = "cancel"
  \/ \E w \in Waiters :
       /\ Matches(w, m)
       /\ phase[w] \in IF EarlyAnswers THEN {"announced", "blocked", "returned"}
                                       ELSE {"blocked", "returned"}

(* forwardWSRunMessage: a non-blocking send, the message is dropped when   *)
(* the channel is full.                                                    *)
ClientSend(m) ==
  /\ ~closed /\ m \notin sent /\ Answerable(m)
  /\ sent' = sent \cup {m}
  /\ inbox' = IF Len(inbox) < InboxCap THEN Append(inbox, m) ELSE inbox
  /\ UNCHANGED <<closed, phase, ch, result, hubVars, pump>>

(* A read error of the connection, or the end of the run: WS closes        *)
(* runMsgCh. What it holds can still be received.                          *)
CloseChannel ==
  /\ ~closed
  /\ closed' = TRUE
  /\ UNCHANGED <<inbox, sent, phase, ch, result, hubVars, pump>>

-----------------------------------------------------------------------------
(* A run goroutine                                                         *)

(* The waiting event is emitted and the run row set to                     *)
(* waiting_client_message; the hub does not know the waiter yet.           *)
Announce(w) ==
  /\ phase[w] = "idle"
  /\ phase' = [phase EXCEPT ![w] = "announced"]
  /\ UNCHANGED <<envVars, ch, result, hubVars, pump>>

(* wait on a terminated read channel returns deadErr at once.              *)
WaitDead(w) ==
  /\ phase[w] = "announced" /\ deadErr
  /\ phase' = [phase EXCEPT ![w] = "returned"]
  /\ result' = [result EXCEPT ![w] = DeadEvent]
  /\ UNCHANGED <<envVars, ch, hubVars, pump>>

(* wait claims the first buffered message it matches.                      *)
WaitClaim(w) ==
  /\ phase[w] = "announced" /\ ~deadErr
  /\ \E i \in 1..Len(pending) :
       /\ Matches(w, pending[i])
       /\ \A j \in 1..(i - 1) : ~Matches(w, pending[j])
       /\ pending' = RemoveAt(pending, i)
       /\ result' = [result EXCEPT ![w] = MsgEvent(pending[i])]
  /\ phase' = [phase EXCEPT ![w] = "returned"]
  /\ UNCHANGED <<envVars, ch, waiters, deadErr, pump>>

(* Mutant of WaitRegister: the pump is not started.                         *)
WaitRegisterNoPump(w) ==
  /\ phase[w] = "announced" /\ ~deadErr
  /\ waiters' = waiters \cup {w}
  /\ phase' = [phase EXCEPT ![w] = "blocked"]
  /\ UNCHANGED <<envVars, ch, result, pending, deadErr, pump>>

(* wait registers the waiter, starts the pump if nobody has, and blocks.   *)
WaitRegister(w) ==
  /\ phase[w] = "announced" /\ ~deadErr
  /\ \A i \in 1..Len(pending) : ~Matches(w, pending[i])
  /\ waiters' = waiters \cup {w}
  /\ phase' = [phase EXCEPT ![w] = "blocked"]
  /\ pump' = IF pump = PumpOff THEN PumpReading ELSE pump
  /\ UNCHANGED <<envVars, ch, result, pending, deadErr>>

(* event := <-w.ch.  The waiter stays in h.waiters: nothing removes it.    *)
WaitReceive(w) ==
  /\ phase[w] = "blocked" /\ ch[w] # <<>>
  /\ result' = [result EXCEPT ![w] = Head(ch[w])]
  /\ ch' = [ch EXCEPT ![w] = <<>>]
  /\ phase' = [phase EXCEPT ![w] = "returned"]
  /\ UNCHANGED <<envVars, hubVars, pump>>

-----------------------------------------------------------------------------
(* The pump goroutine                                                      *)

(* Mutant of PumpReadError: the waiters are not told.                       *)
PumpReadErrorSilent ==
  /\ pump = PumpReading /\ inbox = <<>> /\ closed
  /\ pending' = <<>> /\ deadErr' = TRUE /\ pump' = PumpExited
  /\ UNCHANGED <<envVars, phase, ch, result, waiters>>

(* readClient reports the closed channel once it is drained; broadcastError *)
(* drops the buffer, marks the hub dead and snapshots the waiters.         *)
PumpReadError ==
  /\ pump = PumpReading /\ inbox = <<>> /\ closed
  /\ pending' = <<>> /\ deadErr' = TRUE
  /\ Broadcast(DeadEvent, waiters, "exit")
  /\ UNCHANGED <<envVars, phase, ch, result, waiters>>

(* Mutants of Dispatch: an answer nobody matches goes to the only waiter    *)
(* instead of the buffer; what nobody matches goes to every waiter.        *)
DispatchUnbuffered(m) ==
  LET matching == {w \in waiters : Matches(w, m)} IN
  IF matching # {}
  THEN \E w \in matching : pump' = PumpSending(MsgEvent(m), w, {}, "read")
  ELSE IF Cardinality(waiters) = 1
  THEN \E w \in waiters : pump' = PumpSending(MsgEvent(m), w, {}, "read")
  ELSE pump' = PumpReading

DispatchToAll(m) ==
  LET matching == {w \in waiters : Matches(w, m)} IN
  IF matching # {}
  THEN \E w \in matching : pump' = PumpSending(MsgEvent(m), w, {}, "read")
  ELSE IF Addressable(m)
  THEN pump' = PumpBuffering(m)
  ELSE Broadcast(MsgEvent(m), waiters, "read")

(* What dispatch decides on the snapshot of the waiters it took.           *)
Dispatch(m) ==
  LET matching == {w \in waiters : Matches(w, m)} IN
  IF waiters # {} /\ Type[m] = "cancel"
  THEN Broadcast(MsgEvent(m), waiters, "read")
  ELSE IF matching # {}
  THEN \E w \in matching : pump' = PumpSending(MsgEvent(m), w, {}, "read")
  ELSE IF Addressable(m)
  THEN pump' = PumpBuffering(m)
  ELSE IF Cardinality(waiters) = 1
  THEN \E w \in waiters : pump' = PumpSending(MsgEvent(m), w, {}, "read")
  ELSE pump' = PumpReading

PumpRead ==
  /\ pump = PumpReading /\ inbox # <<>>
  /\ inbox' = Tail(inbox)
  /\ Dispatch(Head(inbox))
  /\ UNCHANGED <<closed, sent, phase, ch, result, hubVars>>

(* w.ch <- event: blocks while the channel still holds an event.           *)
PumpSend ==
  /\ pump.at = "send" /\ ch[pump.cur] = <<>>
  /\ ch' = [ch EXCEPT ![pump.cur] = <<pump.ev>>]
  /\ Broadcast(pump.ev, pump.rest, pump.after)
  /\ UNCHANGED <<envVars, phase, result, hubVars>>

(* Mutant of PumpBuffer: the buffer keeps the newest message only.          *)
PumpBufferLatest ==
  /\ pump.at = "buffer"
  /\ pending' = <<pump.msg>>
  /\ pump' = PumpReading
  /\ UNCHANGED <<envVars, phase, ch, result, waiters, deadErr>>

(* bufferPending, in a critical section of its own.                        *)
PumpBuffer ==
  /\ pump.at = "buffer"
  /\ pending' = Append(IF Len(pending) >= PendingCap THEN Tail(pending) ELSE pending,
                       pump.msg)
  /\ pump' = PumpReading
  /\ UNCHANGED <<envVars, phase, ch, result, waiters, deadErr>>

-----------------------------------------------------------------------------
Goroutine(w) ==
  Announce(w) \/ WaitDead(w) \/ WaitClaim(w) \/ WaitRegister(w) \/ WaitReceive(w)

Pump == PumpReadError \/ PumpRead \/ PumpSend \/ PumpBuffer

(* Every wait call is over and the pump has nothing left to do.            *)
Finished ==
  /\ closed /\ \A w \in Waiters : phase[w] = "returned"
  /\ pump \in {PumpOff, PumpExited}
  /\ UNCHANGED vars

Next ==
  \/ \E m \in Messages : ClientSend(m)
  \/ CloseChannel
  \/ \E w \in Waiters : Goroutine(w)
  \/ Pump
  \/ Finished

(* The Go scheduler runs every runnable goroutine; nothing is assumed of   *)
(* the client, which may stay silent and connected for ever.               *)
Fairness ==
  /\ \A w \in Waiters : WF_vars(Goroutine(w))
  /\ WF_vars(Pump)

Spec == Init /\ [][Next]_vars /\ Fairness

-----------------------------------------------------------------------------
(* Properties                                                              *)

PumpStates ==
  {PumpOff, PumpReading, PumpExited}
    \cup {PumpBuffering(m) : m \in Messages}
    \cup {PumpSending(ev, cur, rest, after) :
            ev \in Events, cur \in Waiters, rest \in SUBSET Waiters,
            after \in {"read", "exit"}}

(* The types of the hub's state: in particular a waiter's channel never    *)
(* holds more than the one event make(chan hubEvent, 1) has room for.      *)
TypeOK ==
  /\ inbox \in Seq(Messages) /\ closed \in BOOLEAN /\ sent \subseteq Messages
  /\ phase \in [Waiters -> {"idle", "announced", "blocked", "returned"}]
  /\ ch \in [Waiters -> {<<>>} \cup {<<e>> : e \in Events}]
  /\ result \in [Waiters -> Events]
  /\ waiters \subseteq Waiters /\ pending \in Seq(Messages) /\ deadErr \in BOOLEAN
  /\ pump \in PumpStates

(* Where a message can be between the client and the wait call it ends.    *)
InInbox(m) == \E i \in 1..Len(inbox) : inbox[i] = m
InPending(m) == \E i \in 1..Len(pending) : pending[i] = m
InPump(m) ==
  \/ pump.at = "buffer" /\ pump.msg = m
  \/ pump.at = "send" /\ pump.ev = MsgEvent(m)
InChannel(m, w) == ch[w] = <<MsgEvent(m)>>
Resolved(m, w) == phase[w] = "returned" /\ result[w] = MsgEvent(m)

(* An answer that names its tool use never reaches another wait call, not  *)
(* even while several sub runs wait at once and answers come out of order  *)
(* (dispatch, wait's claim of the buffer, and the waiter's own channel).   *)
AnswersAreRouted ==
  \A w \in Waiters, m \in Messages :
    Addressable(m) /\ (InChannel(m, w) \/ Resolved(m, w)) => Matches(w, m)

(* Once the read channel is dead no wait call is left behind: every        *)
(* blocked waiter has an event in its channel or is still to be served by  *)
(* the broadcast under way, whatever the order in which waits register and *)
(* the connection drops (deadErr and broadcastError).                      *)
DeadHubForgetsNoWaiter ==
  deadErr =>
    \A w \in Waiters :
      phase[w] = "blocked" =>
        \/ ch[w] # <<>>
        \/ pump.at = "send" /\ pump.ev = DeadEvent /\ w \in {pump.cur} \cup pump.rest

(* While the connection lives and no buffer has overflowed, an addressable *)
(* answer the client sent is always somewhere: still to be read, in the    *)
(* pump's hands, buffered, or delivered (runMsgCh, dispatch, pending).     *)
NoAnswerIsLost ==
  ~deadErr /\ Cardinality(sent) <= InboxCap /\ Cardinality(sent) <= PendingCap =>
    \A m \in sent :
      Addressable(m) =>
        \/ InInbox(m) \/ InPending(m) \/ InPump(m)
        \/ \E w \in Waiters : InChannel(m, w) \/ Resolved(m, w)

(* A message other than a cancel is in one place at most, so that no       *)
(* answer can end two wait calls: not through the channels of two waiters  *)
(* it matches, not out of the buffer after having been sent, although the  *)
(* pump works on a snapshot and waits claim the buffer on their own.       *)
HeldOnce ==
  /\ \A i, j \in 1..Len(inbox) : inbox[i] = inbox[j] => i = j
  /\ \A i, j \in 1..Len(pending) : pending[i] = pending[j] => i = j
  /\ \A m \in Messages :
       /\ InInbox(m) => ~InPending(m) /\ ~InPump(m)
       /\ InPending(m) => ~InPump(m)
       /\ InInbox(m) \/ InPending(m) \/ (InPump(m) /\ Type[m] # "cancel") =>
            \A w \in Waiters : ~InChannel(m, w) /\ ~Resolved(m, w)
       /\ \A v, w \in Waiters :
            Type[m] # "cancel" =>
              /\ InChannel(m, v) => ~Resolved(m, w)
              /\ InChannel(m, v) /\ InChannel(m, w) => v = w
              /\ Resolved(m, v) /\ Resolved(m, w) => v = w

(* The hub of one run implements the abstract delivery of answers: an      *)
(* answer resolves at most one wait call, one it may resolve; an outcome   *)
(* is final; a disconnection is only reported after one.                   *)
Outcome == [w \in Waiters |->
              IF phase[w] = "returned" THEN result[w] ELSE [kind |-> "open"]]
Cancels == {m \in Messages : Type[m] = "cancel"}
MayEnd == [m \in Messages |-> {w \in Waiters : Addressable(m) => Matches(w, m)}]

Delivery ==
  INSTANCE AnswerDelivery WITH
    Broadcasts <- Cancels, Owners <- MayEnd,
    offered <- sent, ended <- closed, outcome <- Outcome

ImplementsDelivery == Delivery!Spec

(* An answer whose waiter was blocked when it came always wakes it.        *)
AnsweredWaiterReturns ==
  \A w \in Waiters, m \in Messages :
    (m \in sent /\ Matches(w, m) /\ phase[w] = "blocked") ~> phase[w] = "returned"

(* After the channel is closed every wait call that is under way returns,  *)
(* so that the run converges and the WebSocket handler, which waits for    *)
(* runDone, can return (client_hub.go:30, ws.go:95).                       *)
CloseReleasesEveryone ==
  \A w \in Waiters :
    (closed /\ phase[w] \in {"announced", "blocked"}) ~> phase[w] = "returned"

(* Confirmations that wait at the same time do not disturb other waits     *)
(* (tool_confirm.go:9): what a wait call returns is meant for it.          *)
ConfirmationsDoNotInterfere ==
  \A w \in Waiters, m \in Messages :
    Type[m] = "tool_confirm_answer" /\ Resolved(m, w) => Matches(w, m)
=============================================================================
