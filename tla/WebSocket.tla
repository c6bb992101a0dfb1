------------------------------ MODULE WebSocket ------------------------------
(***************************************************************************)
(* The connection to a browser (service/react/ws.go): a goroutine puts     *)
(* messages together from frames and passes them to the session; it, the   *)
(* heartbeat and the run with its events write frames under one lock, and  *)
(* deadlines end what a silent peer would block.                           *)
(*                                                                         *)
(* External: the peer, which may send frames in any order, and the link,   *)
(* which keeps their order, and may fall silent or break.  A frame is sent *)
(* as it is read.  Its payload is its place among the frames sent, and     *)
(* counts one in the size of a message; masks and lengths are left out.    *)
(***************************************************************************)
EXTENDS Naturals, Sequences, SequencesExt

CONSTANTS
  MaxFrames,  \* bound: frames of the peer
  MaxWrites,  \* bound: frames of the heartbeat, and of the run
  MaxSize,    \* maxWSMessageSize, in frames
  Places,     \* of the channel of the session, 16
  NoOne

Data == {"text", "continuation"}
Frames == [op : Data \cup {"ping", "pong", "close"}, fin : BOOLEAN]
Writers == {"reader", "heartbeat", "run"}

ASSUME WebSocketAssumption ==
  {MaxFrames, MaxWrites, MaxSize, Places} \subseteq Nat \ {0} /\ NoOne \notin Writers

VARIABLES
  frames,    \* frames of the peer that readFrame has returned
  payload,   \* messagePayload, the frames of the message so far
  reader,    \* "reading", "answering" a ping, "echoing" a close, "passing", "ended"
  passing,   \* the message to be passed
  incoming,  \* the channel of the session
  messages,  \* what the session has taken
  silent,    \* nothing more comes from the peer
  shut,      \* CloseWithCause
  mu,        \* who holds the lock
  writing,   \* writing[w]: "nothing", or what it writes next of its frame
  broken,    \* the buffer remembers an error, and takes no more
  wire       \* parts of frames in the order in which they left

input == <<frames, payload, reader, passing, incoming, messages>>
output == <<mu, writing, broken, wire>>
connVars == <<input, output, silent, shut>>

ConnInit ==
  /\ frames = <<>> /\ payload = <<>> /\ reader = "reading" /\ passing = <<>>
  /\ incoming = <<>> /\ messages = <<>> /\ silent = FALSE /\ shut = FALSE
  /\ mu = NoOne /\ writing = [w \in Writers |-> "nothing"] /\ broken = FALSE /\ wire = <<>>

\* A device goes to sleep, a proxy forgets the connection: no FIN, no RST.
FallSilent == ~silent /\ silent' = TRUE /\ UNCHANGED <<input, output, shut>>
-----------------------------------------------------------------------------
(* ReadMessage and readWSMessages.                                         *)

fragmented == payload # <<>>
Id == Len(frames) + 1

Receives(frame) ==
  /\ reader = "reading" /\ ~silent /\ ~shut /\ Len(frames) < MaxFrames
  /\ frames' = Append(frames, frame)
  /\ UNCHANGED <<output, silent, shut, incoming, messages>>

\* Mutant of InOrder: a text frame may begin a message before the end of another.
InOrderOrText(frame) == frame.op = "text" \/ fragmented
\* A text frame begins a message, continuations belong to one.
InOrder(frame) == (frame.op = "text") <=> ~fragmented
Fits == Len(payload) < MaxSize
Extended(frame) == IF frame.op = "text" THEN <<Id>> ELSE Append(payload, Id)

ReadPart(frame) ==
  /\ frame.op \in Data /\ ~frame.fin /\ InOrder(frame) /\ Fits
  /\ Receives(frame) /\ payload' = Extended(frame)
  /\ UNCHANGED <<reader, passing>>

\* decodeReactWSMessage; the next ReadMessage begins with nothing.
ReadWhole(frame) ==
  /\ frame.op \in Data /\ frame.fin /\ InOrder(frame) /\ Fits
  /\ Receives(frame) /\ payload' = <<>> /\ reader' = "passing"
  /\ passing' = Extended(frame)

ReadControl(frame) ==
  /\ frame.op \notin Data /\ frame.fin /\ Receives(frame)
  /\ reader' = CASE frame.op = "ping"  -> "answering"
                 [] frame.op = "pong"  -> "reading"
                 [] frame.op = "close" -> "echoing"
  /\ UNCHANGED <<payload, passing>>

\* A frame that is out of place or too large, a control frame in parts, a
\* message that is not JSON: an error for the session, which closes.
ReadWrong(frame) ==
  /\ IF frame.op \in Data THEN ~InOrder(frame) \/ ~Fits \/ frame.fin ELSE ~frame.fin
  /\ Receives(frame) /\ reader' = "ended"
  /\ UNCHANGED <<payload, passing>>

\* The connection was closed here, or broke there.
ReadError ==
  /\ reader = "reading" /\ reader' = "ended"
  /\ UNCHANGED <<frames, payload, passing, incoming, messages, output, silent, shut>>

\* Mutant of ReadTimeout: only the wait for a new message has a deadline.
ReadTimeoutBetween ==
  /\ reader = "reading" /\ silent /\ ~fragmented /\ reader' = "ended"
  /\ UNCHANGED <<frames, payload, passing, incoming, messages, output, silent, shut>>
\* readFrame: each wait for a frame has a deadline, which a live peer meets,
\* since it answers pings.
ReadTimeout ==
  /\ reader = "reading" /\ silent /\ reader' = "ended"
  /\ UNCHANGED <<frames, payload, passing, incoming, messages, output, silent, shut>>

Pass ==
  /\ reader = "passing" /\ Len(incoming) < Places
  /\ incoming' = Append(incoming, passing) /\ passing' = <<>> /\ reader' = "reading"
  /\ UNCHANGED <<frames, payload, messages, output, silent, shut>>

TakeMessage ==
  /\ incoming # <<>>
  /\ messages' = Append(messages, Head(incoming)) /\ incoming' = Tail(incoming)
  /\ UNCHANGED <<frames, payload, reader, passing, output, silent, shut>>
-----------------------------------------------------------------------------
(* writeFrame.                                                             *)

Parts(w) == SelectSeq(wire, LAMBDA part : part[1] = w)
WantsLock(w) ==
  /\ writing[w] = "nothing"
  /\ IF w = "reader" THEN reader \in {"answering", "echoing"}
     ELSE Len(Parts(w)) < 2 * MaxWrites /\ (w = "heartbeat" => ~shut)

\* Mutant of Lock: the answer to a ping does not wait for an event.
LockUnlessControl(w) ==
  /\ WantsLock(w) /\ (mu = NoOne \/ w = "reader") /\ mu' = w
  /\ writing' = [writing EXCEPT ![w] = "header"]
  /\ UNCHANGED <<input, broken, wire, silent, shut>>
Lock(w) ==
  /\ WantsLock(w) /\ mu = NoOne /\ mu' = w
  /\ writing' = [writing EXCEPT ![w] = "header"]
  /\ UNCHANGED <<input, broken, wire, silent, shut>>

\* What the writer does then: the reader reads on, or has ended.
Unlock(w) ==
  /\ mu' = NoOne /\ writing' = [writing EXCEPT ![w] = "nothing"]
  /\ UNCHANGED <<frames, payload, passing, incoming, messages, silent>>

WriteHeader(w) ==
  /\ writing[w] = "header" /\ ~broken /\ ~shut
  /\ wire' = Append(wire, <<w, "header">>) /\ writing' = [writing EXCEPT ![w] = "payload"]
  /\ UNCHANGED <<input, mu, broken, silent, shut>>

WritePayload(w) ==
  /\ writing[w] = "payload" /\ ~broken /\ ~shut /\ Unlock(w)
  /\ wire' = Append(wire, <<w, "payload">>)
  /\ reader' = IF w # "reader" THEN reader ELSE IF reader = "answering" THEN "reading" ELSE "ended"
  /\ UNCHANGED <<broken, shut>>

\* The deadline passes, or the connection is closed or broken; a bufio.Writer
\* that has failed once fails always.  The heartbeat closes the connection.
WriteFails(w) ==
  /\ writing[w] # "nothing" /\ Unlock(w) /\ broken' = TRUE
  /\ reader' = IF w = "reader" THEN "ended" ELSE reader
  /\ shut' = (shut \/ w = "heartbeat")
  /\ UNCHANGED wire

WriteStep(w) == WriteHeader(w) \/ WritePayload(w) \/ WriteFails(w)
-----------------------------------------------------------------------------
\* The handler returns when its reader has ended, and closes.
HandlerExit ==
  /\ reader = "ended" /\ ~shut /\ shut' = TRUE
  /\ UNCHANGED <<input, output, silent>>

ReadEnds == ReadError \/ ReadTimeout

ConnNext ==
  \/ FallSilent \/ ReadEnds \/ Pass \/ TakeMessage \/ HandlerExit
  \/ \E frame \in Frames :
       ReadPart(frame) \/ ReadWhole(frame) \/ ReadControl(frame) \/ ReadWrong(frame)
  \/ \E w \in Writers : Lock(w) \/ WriteStep(w)

\* A write ends within its deadline, a wait of a silent peer's reader as well;
\* a Go mutex starves nobody, and the session takes what it is passed.
ConnFairness ==
  /\ WF_connVars(silent /\ ReadTimeout) /\ WF_connVars(Pass) /\ WF_connVars(TakeMessage)
  /\ SF_connVars(Lock("reader"))
  /\ \A w \in Writers : WF_connVars(WriteStep(w))

ConnSpec == ConnInit /\ [][ConnNext]_connVars /\ ConnFairness
-----------------------------------------------------------------------------
(* Properties.                                                             *)

DataFrames == {n \in DOMAIN frames : frames[n].op \in Data}
\* The messages that were passed, and their frames with those of the next.
Passed == messages \o incoming \o (IF passing = <<>> THEN <<>> ELSE <<passing>>)
Gathered == FlattenSeq(Passed) \o payload

\* The session is passed what the peer sent: the data frames in their order,
\* none lost, doubled or moved by the control frames in between, cut into
\* messages at the frames that end one, of an allowed size (ReadMessage).
ReadIsSent ==
  /\ \A m, n \in DOMAIN Gathered : m < n => Gathered[m] < Gathered[n]
  /\ Range(Gathered) \subseteq DataFrames
  /\ \A n \in DataFrames \ Range(Gathered) :
       reader = "ended" /\ \A m \in Range(Gathered) : m < n
  /\ \A m \in DOMAIN Passed : LET message == Passed[m] IN
       /\ Len(message) \in 1..MaxSize
       /\ \A n \in DOMAIN message :
            /\ (frames[message[n]].op = "text") <=> (n = 1)
            /\ frames[message[n]].fin <=> (n = Len(message))

\* Whatever writers do at once, and wherever a write fails, what the peer gets
\* is whole frames, and after a cut one nothing more (writeFrame).
WholeFrames ==
  \A n \in DOMAIN wire :
    IF wire[n][2] = "header"
    THEN n < Len(wire) => wire[n + 1] = <<wire[n][1], "payload">>
    ELSE n > 1 /\ wire[n - 1] = <<wire[n][1], "header">>

\* A connection that falls silent is noticed, whoever holds the lock and
\* however full the channel of the session is (wsIOTimeout).
SilenceIsNoticed == silent ~> reader = "ended"
=============================================================================
