------------------------------ MODULE ModelStream ------------------------------
(***************************************************************************)
(* The stream decoders of the model clients (api/llm): a goroutine reads   *)
(* the lines of a response and puts chunks into a channel of Capacity      *)
(* (64); its caller takes them, and may leave. Claude's events, and the    *)
(* format that GPT and MiniMax share, each with and without tools.         *)
(*                                                                         *)
(* External: the provider, which says an answer line by line, and the      *)
(* connection, which may end early or break. A line is read as it is sent: *)
(* what is under way when the context is cancelled is as if said later.    *)
(***************************************************************************)
EXTENDS Naturals, Sequences, FiniteSets

CONSTANTS
  Kinds,      \* decoders among AllKinds
  Capacity,   \* of the channel
  MaxDeltas,  \* bound: increments of an answer
  MaxCalls    \* bound: tool calls of an answer

AllKinds == {"claude tools", "gpt tools", "claude", "gpt", "minimax"}

ASSUME ModelStreamAssumption ==
  /\ Kinds \subseteq AllKinds
  /\ Capacity \in Nat \ {0} /\ MaxDeltas \in Nat /\ MaxCalls \in Nat

VARIABLES
  kind,      \* the decoder of this call
  said,      \* increments that the provider has sent
  asked,     \* tool calls it has sent: "open", or "whole" with all arguments
  reason,    \* finish reason it has sent, "" before
  ended,     \* it has sent the end of the answer
  live,      \* the context of the call is not cancelled
  heard,     \* calls and finish reason as the decoder has them
  pc,        \* "asking", "refused"; decoder: "reading", "writing", "closing", "closed"
  out,       \* the chunk that it is writing
  channel,
  taken,     \* chunks the caller has taken
  reading    \* the caller still reads

provider == <<said, asked, reason, ended>>
streamVars == <<kind, provider, live, heard, pc, out, channel, taken, reading>>

Reasons == {"stop", "tool_calls", "length"}
HasTools == kind \in {"claude tools", "gpt tools"}

Chunk(how, stop, calls) == [how |-> how, stop |-> stop, calls |-> calls]
NoChunk == Chunk("none", "", <<>>)
Deltas == {Chunk("reasoning", "", <<>>), Chunk("text", "", <<>>)}
Failed == Chunk("error", "", <<>>)

StreamInit ==
  /\ kind \in Kinds
  /\ said = <<>> /\ asked = <<>> /\ reason = "" /\ ended = FALSE
  /\ live = TRUE /\ heard = [calls |-> <<>>, finish |-> ""]
  /\ pc = "asking" /\ out = NoChunk /\ channel = <<>> /\ taken = <<>> /\ reading = FALSE

-----------------------------------------------------------------------------
(* Asking, with or without files; the caller blocks until it is answered.  *)

(* Status 200: the goroutine starts, and the caller gets the channel.      *)
Opens ==
  /\ pc = "asking" /\ live
  /\ pc' = "reading" /\ reading' = TRUE
  /\ UNCHANGED <<kind, provider, live, heard, out, channel, taken>>

(* The caller gets an error and no channel: the request cannot be built or *)
(* sent, or the context is cancelled; ...                                  *)
NotAsked ==
  /\ pc = "asking" /\ pc' = "refused"
  /\ UNCHANGED <<kind, provider, live, heard, out, channel, taken, reading>>

(* ... or any other status: the body is read and closed.                   *)
Refuses ==
  /\ pc = "asking" /\ live /\ pc' = "refused"
  /\ UNCHANGED <<kind, provider, live, heard, out, channel, taken, reading>>

-----------------------------------------------------------------------------
(* Final chunks                                                            *)

Accepted(finish) == finish = "stop"

(* Claude's calls end with their block.                                    *)
WholeOf(calls) == SelectSeq(calls, LAMBDA c : c = "whole")

(* Mutant of ToolsDone: Claude's calls do not wait for their block's end.  *)
ToolsDoneAtOnce ==
  IF kind = "claude tools" THEN Chunk("done", heard.finish, heard.calls)
  ELSE IF heard.calls # <<>> \/ heard.finish = "tool_calls"
       THEN Chunk("done", "tool_use", heard.calls)
       ELSE Chunk("done", "end_turn", <<>>)
(* The end of a stream with tools. GPT's format asks for tools as soon as  *)
(* any part of a call has come.                                            *)
ToolsDone ==
  IF kind = "claude tools"
  THEN Chunk("done", heard.finish, WholeOf(heard.calls))
  ELSE IF heard.calls # <<>> \/ heard.finish = "tool_calls"
       THEN Chunk("done", "tool_use", heard.calls)
       ELSE Chunk("done", "end_turn", <<>>)

Done == IF HasTools THEN ToolsDone ELSE Chunk("done", "", <<>>)

(* [DONE], or Claude's message_stop. MiniMax without tools refuses other   *)
(* reasons than the end of the answer.                                     *)
AtEnd ==
  IF kind = "minimax" /\ heard.finish # "" /\ ~Accepted(heard.finish) THEN Failed ELSE Done

(* The connection ends without it: only MiniMax without tools minds.       *)
AtEof == IF kind = "minimax" /\ ~Accepted(heard.finish) THEN Failed ELSE Done

Finish(final) ==
  /\ out' = final /\ pc' = "writing"

-----------------------------------------------------------------------------
(* A line is read. With a cancelled context it ends the stream.            *)

Reads == pc = "reading"

Says(delta) ==
  /\ Reads /\ live /\ ~ended /\ reason = "" /\ Len(said) < MaxDeltas
  /\ said' = Append(said, delta)
  /\ out' = delta /\ pc' = "writing"
  /\ UNCHANGED <<kind, asked, reason, ended, live, heard, channel, taken, reading>>

(* A tool call begins; with it comes its name, and nothing is put into the *)
(* channel until the answer ends.                                          *)
OpensCall ==
  /\ Reads /\ live /\ HasTools /\ ~ended /\ reason = "" /\ Len(asked) < MaxCalls
  /\ \A n \in DOMAIN asked : asked[n] = "whole"
  /\ asked' = Append(asked, "open") /\ heard' = [heard EXCEPT !.calls = Append(@, "open")]
  /\ UNCHANGED <<kind, said, reason, ended, live, pc, out, channel, taken, reading>>

ClosesCall ==
  /\ Reads /\ live /\ ~ended /\ reason = ""
  /\ \E n \in DOMAIN asked :
       /\ asked[n] = "open" /\ asked' = [asked EXCEPT ![n] = "whole"]
       /\ heard' = [heard EXCEPT !.calls[n] = "whole"]
  /\ UNCHANGED <<kind, said, reason, ended, live, pc, out, channel, taken, reading>>

(* An answer that is cut by its length may end within a call.              *)
Concludes(r) ==
  /\ Reads /\ live /\ ~ended /\ reason = ""
  /\ r # "length" => \A n \in DOMAIN asked : asked[n] = "whole"
  /\ (r = "tool_calls") <=> (asked # <<>> /\ r # "length")
  /\ reason' = r
  /\ heard' = [heard EXCEPT !.finish = IF kind = "claude" THEN @ ELSE r]
  /\ UNCHANGED <<kind, said, asked, ended, live, pc, out, channel, taken, reading>>

Ends ==
  /\ Reads /\ live /\ ~ended /\ reason # ""
  /\ ended' = TRUE /\ Finish(AtEnd)
  /\ UNCHANGED <<kind, said, asked, reason, live, heard, channel, taken, reading>>

(* Claude's error event; a line that is no chunk, which the others skip.   *)
ReportsError ==
  /\ Reads /\ live /\ kind \in {"claude", "claude tools", "minimax"}
  /\ Finish(Failed)
  /\ UNCHANGED <<kind, provider, live, heard, channel, taken, reading>>

(* The connection ends, before or after the provider has said all.         *)
Eof ==
  /\ Reads /\ live /\ Finish(AtEof)
  /\ UNCHANGED <<kind, provider, live, heard, channel, taken, reading>>

(* It breaks, or is closed since the context is cancelled.                 *)
Breaks ==
  /\ Reads /\ Finish(Failed)
  /\ UNCHANGED <<kind, provider, live, heard, channel, taken, reading>>

(* A line that had arrived when the context was cancelled.                 *)
ReadsCancelled ==
  /\ Reads /\ ~live /\ Finish(Chunk("cancelled", "", <<>>))
  /\ UNCHANGED <<kind, provider, live, heard, channel, taken, reading>>

-----------------------------------------------------------------------------
(* The channel                                                             *)

(* Mutant of Write: the return after the final chunk is forgotten.         *)
WriteAndReadOn ==
  /\ pc = "writing" /\ Len(channel) < Capacity
  /\ channel' = Append(channel, out)
  /\ pc' = "reading"
  /\ UNCHANGED <<kind, provider, live, heard, out, taken, reading>>
Write ==
  /\ pc = "writing" /\ Len(channel) < Capacity
  /\ channel' = Append(channel, out)
  /\ pc' = IF out \in Deltas THEN "reading" ELSE "closing"
  /\ UNCHANGED <<kind, provider, live, heard, out, taken, reading>>

Close ==
  /\ pc = "closing" /\ pc' = "closed"
  /\ UNCHANGED <<kind, provider, live, heard, out, channel, taken, reading>>

Take ==
  /\ reading /\ channel # <<>>
  /\ taken' = Append(taken, Head(channel)) /\ channel' = Tail(channel)
  /\ UNCHANGED <<kind, provider, live, heard, pc, out, reading>>

(* The caller, the idle timer or the end of the run.                       *)
Cancel ==
  /\ live /\ live' = FALSE
  /\ UNCHANGED <<kind, provider, heard, pc, out, channel, taken, reading>>

(* The caller returns, and cancels, without reading the rest: after an     *)
(* error of its own, or with what it wanted.                               *)
Leave ==
  /\ reading /\ reading' = FALSE /\ live' = FALSE
  /\ UNCHANGED <<kind, provider, heard, pc, out, channel, taken>>

-----------------------------------------------------------------------------
Line ==
  \/ \E delta \in Deltas : Says(delta)
  \/ OpensCall \/ ClosesCall \/ Ends \/ ReportsError
  \/ \E r \in Reasons : Concludes(r)

Decoder == Opens \/ NotAsked \/ Refuses \/ Eof \/ Breaks \/ ReadsCancelled \/ Write \/ Close

StreamNext == Line \/ Decoder \/ Take \/ Cancel \/ Leave

(* Reading ends when the context is cancelled, since net/http closes the   *)
(* body; the caller that reads, reads on.                                  *)
StreamFairness == WF_streamVars(~live /\ Decoder) /\ WF_streamVars(Write) /\ WF_streamVars(Close) /\ WF_streamVars(Take)

StreamSpec == StreamInit /\ [][StreamNext]_streamVars /\ StreamFairness

-----------------------------------------------------------------------------
(* Properties                                                              *)

CallLists == UNION {[1..n -> {"open", "whole"}] : n \in 0..MaxCalls}
Finals == [how : {"done", "error", "cancelled"}, stop : Reasons \cup {"", "tool_use", "end_turn"},
           calls : CallLists \cup {WholeOf(calls) : calls \in CallLists}]

(* Every decoder keeps the promise of ChunkStream, whatever the provider   *)
(* and the connection do.                                                  *)
Stream == INSTANCE ChunkStream WITH chunks <- taken \o channel, closed <- pc = "closed"
KeepsChunkStream == Stream!ChunkSpec

Put == taken \o channel
LastOf(s) == s[Len(s)]
IsDone == Put # <<>> /\ LastOf(Put).how = "done"

(* An answer that the provider has ended is taken whole: its increments in *)
(* order, none lost while the channel was full, and with tools the calls   *)
(* as they were sent, the cut one of a Claude answer left out.             *)
EndedIsWhole ==
  ended /\ IsDone =>
    /\ SubSeq(Put, 1, Len(Put) - 1) = said
    /\ HasTools =>
         LastOf(Put).calls =
           IF kind = "claude tools" THEN WholeOf(asked) ELSE asked
    /\ HasTools /\ reason = "tool_calls" => LastOf(Put).stop \in {"tool_use", "tool_calls"}

(* The decoder ends with its context (defer close, defer body.Close).      *)
NoLeak == ~live ~> pc \in {"closed", "refused"}

(* "Model stream did not end normally" is an error (engine.go:563): only   *)
(* an answer that the provider has ended is an answer.                     *)
DoneIsEnded == IsDone => ended

(* The idle timer fires when nothing has come (conf/config.go:66): every   *)
(* line of an answer gives the caller a chunk.                             *)
LinesAreHeard == [][provider' # provider /\ reason' = "" => pc' = "writing"]_streamVars
=============================================================================
