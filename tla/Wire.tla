-------------------------------- MODULE Wire --------------------------------
(***************************************************************************)
(* What the model interfaces make of a context: the messages of a request. *)
(* The tool interfaces of GPT and MiniMax give a message with results one  *)
(* message of role "tool" per result; Claude keeps them as parts of a user *)
(* message.  The interfaces without tools send texts alone.                *)
(***************************************************************************)
EXTENDS SessionContext, SequencesExt

Providers == {"claude", "gpt", "minimax"}

\* A message of a request: what it is of, the calls it makes (in an assistant
\* message), and the calls it answers.
Sent(role, of, calls, answers) == [role |-> role, of |-> of, calls |-> calls, answers |-> answers]

\* reactMessageToChatMessage: a user's input and a summary are user messages.
RoleOf(i) == IF stored[i].type = "assistant" THEN "assistant" ELSE "user"
UsesOf(i) == 1..stored[i].uses

\* buildGPTToolMessages, buildMiniMaxToolMessages: texts are joined into the
\* message that holds the calls, and each result becomes a message.
ToolMessages(i) ==
  IF IsResult(i)
  THEN LET calls == InOrder(stored[i].answers)
       IN [n \in DOMAIN calls |-> Sent("tool", stored[i].for, {}, {calls[n]})]
  ELSE <<Sent(RoleOf(i), i, UsesOf(i), {})>>

\* ChatStreamWithTools of Claude: message for message, part for part.
PartMessages(i) ==
  <<Sent(RoleOf(i), IF IsResult(i) THEN stored[i].for ELSE i, UsesOf(i), stored[i].answers)>>

Request(provider) ==
  FlattenSeq([n \in DOMAIN ctx |->
    IF provider = "claude" THEN PartMessages(ctx[n]) ELSE ToolMessages(ctx[n])])

\* Each provider refuses a result that does not follow the message that asked
\* for it: between the two there are only results of the same message, and no
\* call is answered twice (alignKeepStartToTurnBoundary, ORDER BY created_at,
\* seq; closeInterruptedToolUse).
RoundsAreWhole ==
  pc = "model" =>
    \A provider \in Providers :
      LET sent == Request(provider) IN
      \A n \in DOMAIN sent : sent[n].answers # {} =>
        \E m \in 1..(n - 1) :
          /\ sent[m].of = sent[n].of /\ sent[n].answers \subseteq sent[m].calls
          /\ \A l \in (m + 1)..(n - 1) :
               /\ sent[l].of = sent[n].of
               /\ sent[l].answers # {} /\ sent[l].answers \cap sent[n].answers = {}
=============================================================================
