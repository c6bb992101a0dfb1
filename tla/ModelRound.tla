------------------------------ MODULE ModelRound ------------------------------
(***************************************************************************)
(* The model rounds of a run (service/react/engine.go, model_failover.go): *)
(* the models are asked in turn until one of them answers; the first one's *)
(* answer is shown while it streams, a later one's when it is whole, and a *)
(* fallback event tells the browser (web/sdk) to drop what it was shown.   *)
(*                                                                         *)
(* The client of a model is ChunkStream, which ModelStream implements. The *)
(* browser applies events in the order in which they are sent. External:   *)
(* the provider, what the user does, and the error by which net/http tells *)
(* that a context is cancelled.                                            *)
(***************************************************************************)
EXTENDS Naturals, Sequences, SequencesExt

CONSTANTS
  Selected,    \* the model that the request names
  Available,   \* the configured models, in their order
  Mutual,      \* mutual_failover
  TellsCause,  \* a cancelled call fails with the cause of the cancellation
  MaxDeltas,   \* bound: increments of a stream
  RoundLimit    \* max_steps

ASSUME ModelRoundAssumption ==
  /\ Mutual \in BOOLEAN /\ TellsCause \in BOOLEAN
  /\ MaxDeltas \in Nat /\ RoundLimit \in Nat \ {0}

VARIABLES
  round,
  current,   \* the model that answered last
  attempt,   \* place in the order of this round
  phase,     \* "ask", "stream", "answered", "over"
  chunks, closed,   \* the channel of the client (ChunkStream)
  taken,     \* chunks collected
  got,       \* what has been collected of this attempt
  view,      \* what the browser shows of this round
  cause,     \* why the context of the run is cancelled, "none" before
  outcome,
  kept,      \* what the last round has left in the table of messages
  tokens     \* [spent |-> by the provider, counted |-> in the row of the run]

stream == <<chunks, closed, taken>>
roundVars == <<round, current, attempt, phase, stream, got, view, cause, outcome, kept, tokens>>

Causes == {"cancelled", "disconnected"}
Chunk(how, calls) == [how |-> how, calls |-> calls]
Deltas == {Chunk(how, FALSE) : how \in {"think", "say", "blank"}}
Finals == {Chunk("done", FALSE), Chunk("done", TRUE), Chunk("error", FALSE),
           Chunk("canceled", FALSE), Chunk("stopped", FALSE)}

Stream == INSTANCE ChunkStream

-----------------------------------------------------------------------------
(* The order of the models                                                 *)

Others(models, m) == SelectSeq(models, LAMBDA other : other # m)

FailoverModels ==
  IF Mutual /\ Contains(Available, Selected)
  THEN <<Selected>> \o Others(Available, Selected) ELSE <<Selected>>
Order == <<current>> \o Others(FailoverModels, current)
IsLast == attempt = Len(Order)

-----------------------------------------------------------------------------
(* What is collected and what is shown                                     *)

Nothing == [reasoning |-> <<>>, block |-> <<>>, text |-> <<>>, thinking |-> FALSE,
            saying |-> FALSE, calls |-> FALSE, done |-> FALSE, stopped |-> FALSE]
Blank == [thoughts |-> <<>>, text |-> <<>>]

(* thought_end has the text of its block, and replaces what was shown;     *)
(* content_end has the whole text.                                         *)
CloseThought(g) == [g EXCEPT !.thinking = FALSE, !.block = <<>>]
ThoughtEnd(v, g) == IF g.thinking THEN [v EXCEPT !.thoughts = g.block] ELSE v
ContentEnd(v, g) == IF g.saying THEN [v EXCEPT !.text = g.text] ELSE v

Collected(g, c) ==
  CASE c.how = "think" -> [g EXCEPT !.reasoning = Append(@, c), !.block = Append(@, c),
                                    !.thinking = TRUE]
    [] c.how \in {"say", "blank"} -> [CloseThought(g) EXCEPT !.text = Append(@, c), !.saying = TRUE]
    [] c.how \in {"done", "stopped"} -> [CloseThought(g) EXCEPT !.saying = FALSE,
         !.calls = c.calls, !.done = TRUE, !.stopped = c.how = "stopped"]

Shown(v, g, c) ==
  CASE c.how = "think" -> [v EXCEPT !.thoughts = Append(@, c)]
    [] c.how \in {"say", "blank"} -> [ThoughtEnd(v, g) EXCEPT !.text = Append(@, c)]
    [] c.how \in {"done", "stopped"} -> ContentEnd(ThoughtEnd(v, g), g)

(* emitCollectedModelResult                                                *)
Replayed(v, g) ==
  [thoughts |-> IF g.reasoning # <<>> THEN g.reasoning ELSE v.thoughts,
   text |-> IF g.text # <<>> THEN g.text ELSE v.text]

OnlyBlanks(text) == \A i \in DOMAIN text : text[i].how = "blank"
IsBlank(g) == OnlyBlanks(g.text) /\ g.reasoning = <<>> /\ ~g.calls

-----------------------------------------------------------------------------
RoundInit ==
  /\ round = 1 /\ current = Selected /\ attempt = 1 /\ phase = "ask"
  /\ chunks = <<>> /\ closed = FALSE /\ taken = 0
  /\ got = Nothing /\ view = Blank /\ cause = "none" /\ outcome = "none"
  /\ kept = Nothing /\ tokens = [spent |-> 0, counted |-> 0]

(* Mutant of Interrupted: an answer that has not ended is not kept.        *)
InterruptedWhenDone(how, g) ==
  /\ phase' = "over" /\ outcome' = how
  /\ kept' = IF ~g.done THEN kept ELSE g
  /\ tokens' = IF g.stopped \/ g.done THEN [tokens EXCEPT !.counted = @ + 1] ELSE tokens
(* persistPartialAssistant; the loop returns.                              *)
Interrupted(how, g) ==
  /\ phase' = "over" /\ outcome' = how
  /\ kept' = IF IsBlank(g) THEN kept ELSE g
  /\ tokens' = IF g.stopped \/ g.done THEN [tokens EXCEPT !.counted = @ + 1] ELSE tokens

Broken(how) ==
  /\ phase' = "over" /\ outcome' = how /\ UNCHANGED <<kept, tokens>>

(* Mutant of Reset: only text counts as output.                            *)
ResetText(g) == ~OnlyBlanks(g.text)
Reset(g) == ~IsBlank(g)

(* The next model, with model_fallback, or the end of the run. The event   *)
(* is lost with the connection, and the run then ends.                     *)
AttemptFails(g) ==
  \/ IsLast /\ Broken("failed") /\ UNCHANGED <<attempt, view>>
  \/ ~IsLast /\ Broken("unsent") /\ UNCHANGED <<attempt, view>>
  \/ /\ ~IsLast /\ attempt' = attempt + 1 /\ phase' = "ask"
     /\ view' = IF Reset(g) THEN Blank ELSE view
     /\ UNCHANGED <<outcome, kept, tokens>>

-----------------------------------------------------------------------------
(* Asking a model                                                          *)

(* GetClientWithUserModel fails. The client of the current model is kept.  *)
NoClient ==
  /\ phase = "ask" /\ Order[attempt] # current
  /\ AttemptFails(Nothing)
  /\ UNCHANGED <<round, current, stream, got, cause>>

(* ChatStreamWithTools fails, and does in a cancelled context.             *)
RequestFails ==
  /\ phase = "ask"
  /\ IF cause = "none" \/ TellsCause THEN AttemptFails(Nothing)
     ELSE Interrupted(cause, Nothing) /\ UNCHANGED <<attempt, view>>
  /\ UNCHANGED <<round, current, stream, got, cause>>

Opens ==
  /\ phase = "ask" /\ cause = "none"
  /\ phase' = "stream" /\ got' = Nothing
  /\ chunks' = <<>> /\ closed' = FALSE /\ taken' = 0
  /\ UNCHANGED <<round, current, attempt, view, cause, outcome, kept, tokens>>

(* The provider and its decoder. An answer that ends costs tokens, one     *)
(* that breaks as well.                                                    *)
Puts ==
  /\ phase = "stream"
  /\ \/ \E c \in Deltas : Len(chunks) < MaxDeltas /\ Stream!Put(c) /\ UNCHANGED tokens
     \/ \E c \in Finals :
          /\ c.how = "canceled" => cause # "none" /\ ~TellsCause
          /\ c.how = "stopped" => cause # "none"
          /\ Stream!Put(c) /\ tokens' = [tokens EXCEPT !.spent = @ + 1]
     \/ Stream!CloseChannel /\ UNCHANGED tokens
  /\ UNCHANGED <<round, current, attempt, phase, taken, got, view, cause, outcome, kept>>

-----------------------------------------------------------------------------
(* collectLLMStreamWithEmitter                                             *)

Streaming == phase = "stream"
Live == attempt = 1

Collects ==
  /\ Streaming /\ taken < Len(chunks)
  /\ LET c == chunks[taken + 1] IN
       /\ c.how \notin {"error", "canceled"}
       /\ taken' = taken + 1 /\ got' = Collected(got, c)
       /\ view' = IF Live THEN Shown(view, got, c) ELSE view
       /\ IF c.how = "stopped" THEN Interrupted("cancelled", got')
          ELSE UNCHANGED <<phase, outcome, kept, tokens>>
  /\ UNCHANGED <<round, current, attempt, chunks, closed, cause>>

CollectsError ==
  /\ Streaming /\ taken < Len(chunks)
  /\ LET c == chunks[taken + 1] IN
       \/ c.how = "error" /\ AttemptFails(got)
       \/ c.how = "canceled" /\ Interrupted(cause, got) /\ UNCHANGED <<attempt, view>>
  /\ taken' = taken + 1 /\ UNCHANGED <<round, current, chunks, closed, got, cause>>

(* Mutant of Idle: the timer is for the first chunk only.                  *)
IdleAtFirst ==
  /\ Streaming /\ taken = Len(chunks) /\ ~closed /\ taken = 0
  /\ AttemptFails(got)
  /\ UNCHANGED <<round, current, stream, got, cause>>
(* Nothing has come in stream_idle_timeout.                                *)
Idle ==
  /\ Streaming /\ taken = Len(chunks) /\ ~closed
  /\ AttemptFails(got)
  /\ UNCHANGED <<round, current, stream, got, cause>>

(* An event cannot be sent.                                                *)
Unsent ==
  /\ Streaming /\ Live /\ taken < Len(chunks) /\ chunks[taken + 1].how \notin {"error", "canceled"}
  /\ taken' = taken + 1 /\ got' = Collected(got, chunks[taken + 1]) /\ Broken("unsent")
  /\ UNCHANGED <<round, current, attempt, chunks, closed, view, cause>>

Answered ==
  /\ Streaming /\ taken = Len(chunks) /\ closed
  /\ IF cause # "none"
     THEN Interrupted(cause, got) /\ UNCHANGED <<current, view>>
     ELSE /\ phase' = "answered" /\ current' = Order[attempt]
          /\ view' = IF Live THEN view ELSE Replayed(view, got)
          /\ kept' = got /\ tokens' = [tokens EXCEPT !.counted = @ + 1]
          /\ UNCHANGED outcome
  /\ UNCHANGED <<round, attempt, stream, got, cause>>

(* The replay of a later answer breaks off.                                *)
ReplayUnsent ==
  /\ Streaming /\ taken = Len(chunks) /\ closed /\ cause = "none" /\ ~Live
  /\ Broken("unsent")
  /\ UNCHANGED <<round, current, attempt, stream, got, view, cause>>

-----------------------------------------------------------------------------
(* The loop of the run. What its tools do is in SessionContext.            *)

NextRound ==
  /\ phase = "answered" /\ got.calls /\ round < RoundLimit
  /\ round' = round + 1 /\ attempt' = 1 /\ phase' = "ask" /\ view' = Blank
  /\ UNCHANGED <<current, stream, got, cause, outcome, kept, tokens>>

Finish ==
  /\ phase = "answered" /\ (got.calls => round = RoundLimit)
  /\ phase' = "over" /\ outcome' = IF got.calls THEN "failed" ELSE "finished"
  /\ UNCHANGED <<round, current, attempt, stream, got, view, cause, kept, tokens>>

Cancel ==
  /\ phase # "over" /\ cause = "none" /\ cause' \in Causes
  /\ UNCHANGED <<round, current, attempt, phase, stream, got, view, outcome, kept, tokens>>

-----------------------------------------------------------------------------
Engine ==
  \/ NoClient \/ RequestFails \/ Opens \/ Collects \/ CollectsError
  \/ Answered \/ NextRound \/ Finish
RoundNext == Engine \/ Puts \/ Idle \/ Unsent \/ ReplayUnsent \/ Cancel

(* The goroutine runs, and its timer fires; the provider owes nothing.     *)
RoundFairness == WF_roundVars(Engine) /\ WF_roundVars(Idle)
RoundSpec == RoundInit /\ [][RoundNext]_roundVars /\ RoundFairness

-----------------------------------------------------------------------------
(* Properties                                                              *)

Results == [reasoning : Seq(Deltas), block : Seq(Deltas), text : Seq(Deltas), thinking : BOOLEAN,
            saying : BOOLEAN, calls : BOOLEAN, done : BOOLEAN, stopped : BOOLEAN]
Outcomes == Causes \cup {"none", "failed", "unsent", "finished"}

(* The types of the variables.                                             *)
TypeOK ==
  /\ round \in 1..RoundLimit /\ current \in {Selected} \cup Range(Available)
  /\ attempt \in 1..Len(Order) /\ phase \in {"ask", "stream", "answered", "over"}
  /\ chunks \in Seq(Deltas \cup Finals) /\ closed \in BOOLEAN /\ taken \in 0..Len(chunks)
  /\ got \in Results /\ kept \in Results
  /\ view \in [thoughts : Seq(Deltas), text : Seq(Deltas)]
  /\ cause \in Causes \cup {"none"} /\ outcome \in Outcomes
  /\ tokens \in [spent : Nat, counted : Nat]

(* When a round has been answered, the browser shows that answer's text    *)
(* and nothing of the models that were given up, up to blanks, although it *)
(* was shown their output and not told where the answer begins.            *)
ShownIsTheAnswer ==
  phase = "answered" =>
    /\ view.text = kept.text \/ OnlyBlanks(view.text \o kept.text)
    /\ kept.reasoning = <<>> => view.thoughts = <<>>

(* A user who stops a run keeps what he has seen: it is in the messages    *)
(* that the next run reads.                                                *)
StoppedKeepsShown ==
  outcome \in Causes => OnlyBlanks(view.text) \/ IsPrefix(view.text, kept.text)

(* A model that hangs, trickles or breaks does not hold the run: a round   *)
(* is answered or over.                                                    *)
RoundEnds == phase \in {"ask", "stream"} ~> phase \in {"answered", "over"}

(* thought_end shows "the complete content" (event-reducer.ts:12).         *)
ThoughtsAreWhole == phase = "answered" => view.thoughts = kept.reasoning

(* Tokens are not lost when a round breaks (engine.go:236).                *)
TokensAreCounted == phase \in {"answered", "over"} => tokens.counted = tokens.spent

(* A run that is cancelled by its user is cancelled, not failed.           *)
CancelIsTold == phase = "over" /\ cause = "cancelled" => outcome # "failed"
=============================================================================
