---------------------------- MODULE SessionContext ----------------------------
(***************************************************************************)
(* What the model remembers: the messages an outer run stores              *)
(* (tblLlmReactMessage), the context it sends to the model, the compaction *)
(* of that context, and the context the next run of the session loads back *)
(* (service/react/engine.go executeReactLoop, runtime_support.go           *)
(* maybeCompactContext, runtime.go createReactRunContext).                 *)
(*                                                                         *)
(* A message is known by its place in stored, its primary key. Texts are   *)
(* left out: an assistant message is the number of its tool uses, a result *)
(* message the calls it answers, a summary the messages it speaks for. How *)
(* many messages a compaction keeps depends on token counts: any number.   *)
(* The system prompt is never compacted and is left out. Runs of a session *)
(* follow each other (OneRunPerSession of RunLifecycle).                   *)
(***************************************************************************)
EXTENDS Naturals, Sequences, FiniteSets, Functions, FiniteSetsExt

CONSTANTS
  MaxRuns,     \* bound: runs of the session
  MaxSteps,    \* maxSteps: model rounds of a run
  MaxRounds,   \* bound: model rounds of the session
  MaxCalls,    \* bound: tool calls of a model round
  MaxCompacts, \* bound: compactions of the session
  MaxParallel, \* sub_agent.max_parallel
  FastUser,    \* may a run start in the second in which the last one ended?
  Truncated,   \* may the model stop at its token limit after a tool use?
  Failures     \* may the process, the model or the database fail?

Calls == 1..MaxCalls
Runs == 1..MaxRuns

ASSUME ContextAssumption ==
  /\ {MaxRuns, MaxSteps, MaxRounds, MaxCalls, MaxCompacts, MaxParallel} \subseteq Nat
  /\ {FastUser, Truncated, Failures} \subseteq BOOLEAN

VARIABLES
  stored,   \* tblLlmReactMessage in the order of insertion
  ctx,      \* state.messages with messageRefs: the messages shown to the model
  run,      \* the current run, 0 before the first
  pc,       \* where its loop stands
  step,     \* step_index
  compacts, \* compactions of the run so far
  call,     \* call[k]: progress of call k of the round
  peers,    \* the calls of the round that run in parallel (delegate_agent)
  maxSeq,   \* maxSeq[k]: MAX(seq) read by closeInterruptedToolUse for call k
  stopped,  \* the run's context is cancelled
  clock     \* seconds, the resolution of created_at

vars == <<stored, ctx, run, pc, step, compacts, call, peers, maxSeq, stopped, clock>>
batch == <<call, peers, maxSeq>>
NewBatch == call' = [k \in Calls |-> "none"] /\ peers' = {} /\ maxSeq' = [k \in Calls |-> 0]
(* The loop returns: its local state is gone.                              *)
EndRun == pc' = "idle" /\ step' = 0 /\ stopped' = FALSE /\ NewBatch

Init ==
  /\ stored = <<>> /\ ctx = <<>> /\ run = 0 /\ pc = "idle" /\ step = 0
  /\ compacts = 0 /\ stopped = FALSE /\ clock = 0
  /\ call = [k \in Calls |-> "none"] /\ peers = {} /\ maxSeq = [k \in Calls |-> 0]

-----------------------------------------------------------------------------
(* Stored messages.                                                        *)

Ids == DOMAIN stored
Of(type) == {i \in Ids : stored[i].type = type}
(* GetReactMessageMaxSeqByRunID                                            *)
MaxSeqOf(r) == Max({0} \cup {stored[i].seq : i \in {j \in Ids : stored[j].run = r}})

(* One row: uses tool uses, answered calls of message for, covers maximal  *)
(* seq per run, gist the messages the text speaks for.                     *)
Message(r, seq, type, at) ==
  [run |-> r, seq |-> seq, type |-> type, at |-> at, uses |-> 0, for |-> 0,
   answers |-> {}, covers |-> [q \in Runs |-> 0], gist |-> {}]
NewId == Len(stored) + 1
InOrder(calls) ==
  [n \in 1..Cardinality(calls) |->
     CHOOSE k \in calls : Cardinality({j \in calls : j < k}) = n - 1]

(* filterCoveredReactMessages: a summary hides seq 1 to covers[r] of run r. *)
Covered(i) ==
  \E s \in Of("compact_summary") : stored[s].covers[stored[i].run] >= stored[i].seq
(* ORDER BY created_at ASC, seq ASC; the key decides between equals.       *)
Before(i, j) ==
  \/ stored[i].at < stored[j].at
  \/ /\ stored[i].at = stored[j].at
     /\ \/ stored[i].seq < stored[j].seq
        \/ stored[i].seq = stored[j].seq /\ i < j
(* GetOuterReactMessagesBySessionIDWithDB, reactMessagesToChatMessagesWithRefs *)
History == {i \in Ids : stored[i].type # "assistant_partial" /\ ~Covered(i)}
Reloaded ==
  [n \in 1..Cardinality(History) |->
     CHOOSE i \in History : Cardinality({j \in History : Before(j, i)}) = n - 1]

(* What a context tells the model: its messages and what its summaries     *)
(* speak for.                                                              *)
Direct(S) == S \ Of("compact_summary")
Told(S) == Direct(S) \cup UNION {stored[s].gist : s \in S \cap Of("compact_summary")}

(* buildInitialChatMessages: the history as it was loaded, then what the   *)
(* user says now.                                                          *)
InitialContext(userInput) == Append(Reloaded, userInput)

-----------------------------------------------------------------------------
(* createReactRunContext: history, then the user's message as seq 1.       *)
StartRun ==
  /\ pc = "idle" /\ run < MaxRuns
  /\ run' = run + 1 /\ pc' = "compact" /\ compacts' = 0
  /\ clock' \in (IF FastUser THEN {clock} ELSE {}) \cup {clock + 1}
  /\ stored' = Append(stored, Message(run + 1, 1, "user_input", clock'))
  /\ ctx' = InitialContext(NewId)
  /\ UNCHANGED <<step, stopped, batch>>

(* The user cancels, or the connection drops; a compaction does not notice *)
(* (it has a context of its own), the model round after it does.           *)
Stop ==
  /\ pc \in {"model", "tools"} /\ ~stopped /\ stopped' = TRUE
  /\ UNCHANGED <<stored, ctx, run, pc, step, compacts, batch, clock>>

(* Every error that ends the run without storing anything more: the model  *)
(* or the database fails, the process dies.                                *)
Fail ==
  /\ Failures /\ pc # "idle" /\ EndRun
  /\ UNCHANGED <<stored, ctx, run, compacts, clock>>

-----------------------------------------------------------------------------
(* maybeCompactContext                                                     *)

IsResult(i) == stored[i].type = "tool_result"
HasToolUse(i) == stored[i].uses > 0
(* Mutant of Boundary: only the message before it is looked at.            *)
BoundaryAfterToolUse(n) == ~HasToolUse(ctx[n])
(* alignKeepStartToTurnBoundary: the messages up to AlignKeepStart(n) are  *)
(* compacted, the largest boundary up to n that cuts no round; 0 is none.  *)
Boundary(n) == ~IsResult(ctx[n + 1]) /\ ~HasToolUse(ctx[n])
AlignKeepStart(n) == Max({0} \cup {m \in 1..n : Boundary(m)})
(* Mutant of CoveredThrough: everything stored so far.                     *)
CoveredThroughEverything(S) == [r \in Runs |-> MaxSeqOf(r)]
(* compactCoveredThrough                                                   *)
CoveredThrough(S) ==
  [r \in Runs |-> Max({0} \cup {stored[i].seq : i \in {j \in S : stored[j].run = r}})]

NoCompact ==
  /\ pc = "compact" /\ pc' = "model"
  /\ UNCHANGED <<stored, ctx, run, step, compacts, batch, stopped, clock>>

Compact ==
  /\ pc = "compact" /\ Cardinality(Of("compact_summary")) < MaxCompacts
  /\ \E keepCount \in 1..(Len(ctx) - 1) :
       LET keepStart == AlignKeepStart(Len(ctx) - keepCount)
           early == {ctx[n] : n \in 1..keepStart}
           summary == [Message(run, MaxSeqOf(run) + 1, "compact_summary", clock)
                         EXCEPT !.covers = CoveredThrough(early), !.gist = Told(early)]
       IN /\ keepStart > 0
          /\ stored' = Append(stored, summary)
          /\ ctx' = <<NewId>> \o SubSeq(ctx, keepStart + 1, Len(ctx))
  /\ compacts' = compacts + 1 /\ pc' = "model"
  /\ UNCHANGED <<run, step, batch, stopped, clock>>

-----------------------------------------------------------------------------
(* callModelRound and persistAssistantMessage. A round takes a second at   *)
(* least. delegateParallelism: with one call, or max_parallel 1, none is   *)
(* run in parallel.                                                        *)
ModelRound ==
  /\ pc = "model" /\ Cardinality(Of("assistant")) < MaxRounds /\ clock' = clock + 1
  /\ \E n \in 0..MaxCalls, D \in SUBSET Calls :
       /\ D \subseteq 1..n /\ ((n <= 1 \/ MaxParallel <= 1) => D = {})
       /\ stored' = Append(stored,
            [Message(run, MaxSeqOf(run) + 1, "assistant", clock + 1) EXCEPT !.uses = n])
       /\ \/ /\ n > 0 /\ pc' = "tools" /\ peers' = D
             /\ call' = [k \in Calls |-> IF k <= n THEN "queued" ELSE "none"]
             /\ UNCHANGED <<step, maxSeq, stopped>>
          \/ D = {} /\ (n = 0 \/ Truncated) /\ EndRun
  /\ UNCHANGED <<ctx, run, compacts>>

(* persistPartialAssistant: the stream is cut, what came is stored.        *)
ModelCut ==
  /\ pc = "model" /\ stopped /\ EndRun /\ clock' = clock + 1
  /\ stored' = Append(stored, Message(run, MaxSeqOf(run) + 1, "assistant_partial", clock + 1))
  /\ ctx' = Append(ctx, NewId)
  /\ UNCHANGED <<run, compacts>>

-----------------------------------------------------------------------------
(* executeToolCalls                                                        *)

(* The assistant message of the round: nothing but results comes after it. *)
Asking == Max(Of("assistant"))
Busy == {"running", "closing"}
(* A delegation takes a slot of the semaphore, whatever became of the      *)
(* others; any other call follows the ones before it, if they succeeded.   *)
MayStart(k) ==
  /\ call[k] = "queued"
  /\ IF k \in peers
     THEN Cardinality({j \in peers : call[j] \in Busy}) < MaxParallel
     ELSE \A j \in Calls \ peers : j < k => call[j] = "done"

CallStart(k) ==
  /\ pc = "tools" /\ MayStart(k)
  /\ call' = [call EXCEPT ![k] = "running"]
  /\ UNCHANGED <<stored, ctx, run, pc, step, compacts, peers, maxSeq, stopped, clock>>

(* A result, in memory until the round ends; a soft error is a result.     *)
CallReturn(k) ==
  /\ pc = "tools" /\ call[k] = "running"
  /\ call' = [call EXCEPT ![k] = "done"]
  /\ UNCHANGED <<stored, ctx, run, pc, step, compacts, peers, maxSeq, stopped, clock>>

(* An error that leaves no result: storeResultRef or the update of the row *)
(* fails, the answer of a client tool cannot be read.                      *)
CallFail(k) ==
  /\ Failures /\ pc = "tools" /\ call[k] = "running"
  /\ call' = [call EXCEPT ![k] = "failed"]
  /\ UNCHANGED <<stored, ctx, run, pc, step, compacts, peers, maxSeq, stopped, clock>>

(* closeInterruptedToolUse, persistAskQuestionCancelledResult,             *)
(* persistToolConfirmInterrupted, persistClientToolInterruptedResults:     *)
(* the maximal seq is read in one statement, the row inserted in another,  *)
(* and peers of the round may do the same in between.                      *)
CallInterrupted(k) ==
  /\ pc = "tools" /\ call[k] = "running" /\ stopped
  /\ call' = [call EXCEPT ![k] = "closing"]
  /\ maxSeq' = [maxSeq EXCEPT ![k] = MaxSeqOf(run)]
  /\ clock' \in {clock, clock + 1}
  /\ UNCHANGED <<stored, ctx, run, pc, step, compacts, peers, stopped>>

CallClose(k) ==
  /\ pc = "tools" /\ call[k] = "closing"
  /\ call' = [call EXCEPT ![k] = "cut"]
  /\ \/ stored' = Append(stored, [Message(run, maxSeq[k] + 1, "tool_result", clock)
                                    EXCEPT !.for = Asking, !.answers = {k}])
     \/ Failures /\ UNCHANGED stored
  /\ UNCHANGED <<ctx, run, pc, step, compacts, peers, maxSeq, stopped, clock>>

(* wg.Wait: nothing runs and nothing can start.                            *)
BatchOver ==
  /\ pc = "tools"
  /\ \A k \in Calls : call[k] \notin Busy /\ ~MayStart(k)
Uses == {k \in Calls : call[k] # "none"}

(* persistToolResultMessage: all results in one message.                   *)
BatchDone ==
  /\ BatchOver /\ \A k \in Uses : call[k] = "done"
  /\ stored' = Append(stored, [Message(run, MaxSeqOf(run) + 1, "tool_result", clock)
                                 EXCEPT !.for = Asking, !.answers = Uses])
  /\ ctx' = ctx \o <<Asking, NewId>>
  /\ IF step + 1 < MaxSteps
     THEN pc' = "compact" /\ step' = step + 1 /\ NewBatch /\ UNCHANGED stopped
     ELSE EndRun
  /\ UNCHANGED <<run, compacts, clock>>

(* The first error of the round ends the run; finished results are lost.   *)
BatchFailed ==
  /\ BatchOver /\ \E k \in Uses : call[k] \in {"cut", "failed"}
  /\ EndRun
  /\ UNCHANGED <<stored, ctx, run, compacts, clock>>

-----------------------------------------------------------------------------
CallStep(k) ==
  \/ CallStart(k) \/ CallReturn(k) \/ CallFail(k) \/ CallInterrupted(k) \/ CallClose(k)

Next ==
  \/ StartRun \/ Stop \/ Fail \/ NoCompact \/ Compact \/ ModelRound \/ ModelCut
  \/ BatchDone \/ BatchFailed
  \/ \E k \in Calls : CallStep(k)

Spec == Init /\ [][Next]_vars

-----------------------------------------------------------------------------
(* Properties                                                              *)

(* What the model of this run has been told, the next run would be told,   *)
(* whatever ends this run and when: compaction hides no message from the   *)
(* next run that no summary speaks for (filterCoveredReactMessages).       *)
NothingForgotten == Told(Range(ctx)) \ Of("assistant_partial") \subseteq Told(History)

(* The same for a run that compacts its context once at most.              *)
OneCompactionForgetsNothing == compacts <= 1 => NothingForgotten

Answers(S, i) == {j \in S \cap Of("tool_result") : stored[j].for = i}

(* "So that the context of the next round has no dangling tool_use"        *)
(* (ask_question.go:320): a request holds a result for each tool use.      *)
NoDanglingToolUse ==
  pc = "model" =>
    \A i \in Range(ctx) : HasToolUse(i) =>
      UNION {stored[j].answers : j \in Answers(Range(ctx), i)} = 1..stored[i].uses
=============================================================================
