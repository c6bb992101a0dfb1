# A verification of react-base-service

react-base-service is a Go service that runs ReAct agents: a browser opens a WebSocket, a *run*
alternates rounds of a language model with rounds of tool calls, delegates work to *sub runs*,
asks the user for answers and confirmations, compacts its context, and stores everything in
MySQL so that the next run of the *session* continues where this one ended. Around it are
registries that administrators edit: tools, MCP servers, bundles, callers, models.

This directory holds TLA+ models of the parts of it in which goroutines, requests, processes and
messages interact, TLC configurations that check them on small instances, and TLAPS proofs of
the invariants that matter most for every instance. Line numbers refer to the sources at the
verified commit.

## 1. Inventory

| Component | Code | State | Hard because | Correct when | Modules |
|---|---|---|---|---|---|
| **Client message hub** | `service/react/client_hub.go`, its callers `ask_question.go`, `client_tool.go`, `tool_confirm.go` | waiters, pending answers, dead error, a channel of one place per waiter, the pump | answers early, late, twice or out of order; a connection that drops | an answer ends the wait it is for, at most one; none is lost; a dead connection releases everyone | `AnswerDelivery`, `ClientHub` |
| **Run lifecycle** | `runtime.go`, `cancel.go`, `shutdown.go`, `delegate.go`, `models/llm/react_run.go`, `main.go` | run rows, cancel registry, contexts, the goroutines of a tree | check-then-write on rows by several goroutines and processes; crashes | one run executes per session; an outcome is final and true; everything ends | `RunLifecycle` |
| **Session context** | `engine.go`, `runtime_support.go`, `models/llm/react_message.go` | stored messages, the context in memory, covered ranges | compaction hides stored messages; order by second and seq; rounds that end half way | the next run is told what this one was; results keep their tool uses | `SessionContext`, `Wire` |
| **History replay** | `history.go` | none (reads) | asked for at any time, ordered differently from the context | a reload shows what was shown live | `Replay` |
| **Workspaces, MCP clients** | `service/workspace`, `service/mcpclient` | allocations, worktrees, clients and processes, tool rows | names shared between runs, three locks, release outside the lock, hanging servers | nothing is left when runs have ended; a mounted client has its code | `Workspace` |
| **Async tasks** | `async_task.go`, `service/asynctask`, `models/llm/react_async_task*.go` | task rows, leases, observations | events lost, repeated, reordered, early; several servers; time rounded to seconds | a task ends once and truly; a claim belongs to one server | `TaskRegister`, `AsyncTask` |
| **Memory store, reflection** | `service/memory`, `memory*.go` | rows with versions, the log of revisions | snapshots read before the write, retries | the log is the history of the row; no write is lost | `MemoryStore` |
| **Model APIs** | `api/llm` | one stream | five decoders, connections that end early, callers that leave | an answer is taken whole, or is known not to be | `ChunkStream`, `ModelStream` |
| **WebSocket session** | `service/react/ws.go`, `controllers/http/react/ws.go` | the connection, three writers, deadlines | fragments, control frames in between, silent peers | frames are whole, messages in order, silence is noticed | `WebSocket` |
| **Model rounds** | `engine.go`, `model_failover.go` | attempts, collected answer, what the browser shows | a model that fails after it has been shown; cancels at any point | what is shown is what is kept; every round ends | `ModelRound` |
| **Todo list, plan** | `todo.go`, `plan.go`, `runtime_support.go` | the list in memory, in a row, in messages, in the browser | four copies, saves that fail, batches cut | the copies agree | `Todo` |
| **MCP server register** | `controllers/http/react/mcp_server.go`, `service/mcpclient/manager.go`, `service/tool` | row, bindings, client, tool rows | handlers of many statements without a transaction, failures, restarts | "connected" means synchronised; off or deleted means gone | `McpRegistry` |
| **Loading of tools** | `meta_tools.go`, `tool_confirm.go`, `engine.go` | loaded tools of a run and their definitions | the register changes between load and call, and between runs | what runs is what the model was shown | `ToolActivation` |
| **Agent bundles** | `service/bundle` | the bundle, what it found, the resources | writes many rows one by one and rolls back | uninstalling restores what was there | `Bundles` |
| **Callers** | `service/caller`, `systemprompt`, `apikey`, `tool`, `skill` | callers and what they own | check-then-write next to transactions that copy and delete | nobody inherits rows; a copy is a copy | `Callers` |
| **Models of users, credits** | `service/llmmodel`, `service/credits` | models, bonus accounts | 15 s between read and write of single columns | what is called was tried; sums add up | `UserModels` |
| **Feedback** | `models/llm/react_run_feedback.go` | one row per run | read without lock, then create or update | the row is what was last confirmed | `Feedback` |
| Python executor | `python_exec.go`, `service/tool/executor.go`, `sandbox/server.py` | none | – | – | – |
| Web SDK | `web/sdk` | ledger, reducer | reconnections | – | – |
| Code search | `repotools`, `mcpserver`, `cmd/repo-mcp` | none | – | – | – |

`PROJECT.json` lists, under `hazards`, what in this code is hard to test, each at its line and
with the properties that are about it, and under `components` what each model leaves out.

How they interact: the WebSocket puts messages together and passes them to the loop of the
session, which starts a run and forwards client messages into `runMsgCh`; the hub of the *outer*
run pumps them to whatever goroutine of the tree waits; `Cancel` comes through the same loop,
writes the row and cancels the context found in the registry, and is also sent through the hub.
A round of a run asks the models in turn and collects their streams; tool calls go to the tools
that the run has loaded from what the registries hold at that time; what a tool submits to a
scheduler goes on as a task after the run. The end of a run releases its workspace; the context
of a session, and its history, are built from the rows that runs have stored; reflections write
memory after a run.

## 2. Plan

The order followed, most important first; each step a model, its runs, then its proofs. Done:

1. `ClientHub` against its promise `AnswerDelivery`; refinement and invariants proved.
2. `RunLifecycle`; safety proved.
3. `SessionContext`, then what providers are sent of it (`Wire`) and what the user is shown
   (`Replay`); invariants proved.
4. `Workspace`; safety proved.
5. `AsyncTask` against its promise `TaskRegister`; refinement and invariants proved.
6. `ModelStream` against its promise `ChunkStream`, `WebSocket`; refinement and invariants proved.
7. `ModelRound`, built on `ChunkStream`, and `Todo`; invariants proved.
8. `MemoryStore`; invariants proved.
9. `McpRegistry` and, composed with it, `ToolActivation`; invariants proved.
10. `Bundles`, `Callers`, `UserModels`, `Feedback`; invariants and an action property proved.

Every safety property that a run checks is now a theorem too. Left for later, in this order:
`RunLifecycle` and `ClientHub` in one model, instead of the abstraction each makes of the other;
sub-agents in `Replay`; the ledger and reducer of the Web SDK over reconnections; more than one
service in `Workspace`.

## 3. Modules

Names follow the source. Every module is parameterised by `CONSTANTS` with a named assumption;
the `MC` modules and the configurations give them small values. Definitions marked as *mutant* in
a comment are variants with a plausible bug; `PROJECT.json` uses them to show that each property
can fail. Variables marked *history* record what a property speaks of and steer nothing.

**AnswerDelivery, ClientHub, MCClientHub.** `AnswerDelivery` is what the hub promises, without
queue, lock or pump: messages are *offered*, each wait is *resolved* once by a message that may
resolve it, or by the end of the connection, and only a broadcast resolves several. `ClientHub` is
the code. `inbox` is `runMsgCh`, `phase[w]` and `ch[w]` a call of `wait` and its channel,
`waiters`, `pending`, `deadErr` the fields of the hub, `pump` the position of the pump with its
snapshot of waiters. Its actions are the critical sections: `WaitDead`, `WaitClaim`,
`WaitRegister` (the three ends of the locked part of `wait`), `WaitReceive`, `PumpRead` (`dispatch`
up to its unlock), `PumpSend` (one blocking send to one waiter of the snapshot), `PumpBuffer`
(`bufferPending`, a second critical section), `PumpReadError`; and the environment: `ClientSend` (a
non-blocking send, dropped when full), `CloseChannel`, `Announce` (the waiting event precedes the
registration). A message is a type and the tool use ids it names.

**RunLifecycle, MCRunLifecycle.** One session: `row[r]` (state of `tblLlmReactRun`), `aged[r]`
(untouched for 30 minutes), `pc[r]` the goroutine, `err[r]` and `cause[r]` (`context.Cause`),
`registry` (`activeRunCancels`), `home[r]` the process, `req[c]` a call of `Cancel` between its
read, its registry lookup, its write and its signal. The environment: `Disconnect`, `Crash`,
`ShutdownRead`/`ShutdownExpire`/`Exit` (the hook expires a snapshot while runs go on), `Restart`
(expires what is older than 30 minutes), `Age`. Starting a run is one action because the code does
it in one transaction under the session lock; rows are written by runs, cancels and hooks without
that lock. Of the hub of a tree the broadcasts are left and what blocks them: `PumpCancel` hands a cancel to
the waits it finds (`told`), `PumpError` the end of the connection (`dead`); a wait that has
returned stays registered (`left`) and its channel takes one more event (`full`), by a cancel or a
second answer (`PumpAnswerAgain`); at a full channel the pump stops for ever (`stuck`), with any
part of the open waits not served (`missed`). `Interrupted` takes the cause of the context or, as the
decoders do with a stream that is cut between two lines, a cancel whatever the cause; only the
outer run looks at the cause again before it writes its outcome.

**SessionContext, Wire, Replay, MCSessionContext.** The outer runs of one session, one after the
other. `stored` is the message table in order of insertion (run, seq, type, second of creation,
number of tool uses, what a result answers, what a summary covers and tells), `ctx` the context in
memory, `call` the calls of a round, `maxSeq` what each storing goroutine has read as the last seq
(read and insert are two statements). `StartRun` loads `History` (filter of covered messages,
order by second and seq, merge), `Compact` chooses any count the token budget could ask for;
`ModelRound`, `ModelCut`, the calls (`CallStart` to `CallClose`), `BatchDone`/`BatchFailed`. `Wire`
is pure: the request that each provider's interface makes of a context. `Replay` is pure too: the
events of the history that the user interface asks for, of outer runs (`Built[n]` is what is built
of the first `n` messages of the timeline, `Build` the whole), and the context whose tokens are
counted (`Tracked`).

**Workspace, MCWorkspace.** The runs that use one service. `mu` is `Manager.mu`, `mounted` its
allocations (`active`), `tree` the worktrees on the disk, `clients` the map entry `ws_<service>`, `proc` the
clients with a process, `busy` the mutex of a client, `handle[r]` the pointer a goroutine holds
across steps, `rows` the callers with live tool copies, `swept` the `sync.Once` that clears old
directories. `Load` is nine steps under `mu`; `ReleaseRun` takes its allocations out under `mu` and
does the rest (tool rows read, then deleted; client out of the map, then stopped; worktree) outside
it; calls look the client up and then take its mutex.

**TaskRegister, AsyncTask, MCAsyncTask.** `TaskRegister` is what a reader of the rows may rely on:
a task is recorded once, ends at most once and in one way, is closed at most once. `AsyncTask` is
the code: a tool submits a job and its row is written afterwards (`submitted`), the scheduler's
`events` are applied late, twice, in any order or never, servers claim the row under a lease,
ask, and report (`poll`), put off or give up; a run resolves the row or lets it expire. A time is
a number of ticks, and `Stored` is what a DATETIME column makes of it.

**MemoryStore, MCMemoryStore.** `row[i]` and `log[i]`, the revisions of an item. A write is a step
that plans – reads the snapshot and makes its checks, `change[w]` – and one that commits, since in
InnoDB the SELECT reads a snapshot and the UPDATE the row of its time. Runs, reflections (whose
second attempt counts its writes anew) and administrators share them; `Rollback` is a write too.

**ChunkStream, ModelStream.** `ChunkStream` is what an interface promises to the engine:
increments, then one final chunk, then the end of the channel. `ModelStream` is the five decoders:
`provider` what was said, `heard` what the decoder has made of it, `pc`/`out` its position
and the chunk it writes, `channel`, `taken`. The connection may end cleanly, with or without the
end of the answer, or break; the context may be cancelled; the caller may leave.

**WebSocket.** The reader with the rules for fragments, control frames, sizes and closing; the
three writers, each with the steps lock, header, payload, unlock; the deadlines; the message that
is passed on to the session. A frame is its kind, its final bit and its place. `MCStreams` puts
both next to each other.

**ModelRound, Todo, MCModelRound.** `ModelRound` is the loop of rounds: the order of models (the
one that answered last first), the request, the stream through `ChunkStream`, the idle timeout,
what is sent to the browser at once (first model) or when it is whole (a later one), the fallback
event that makes the page forget, the end by an answer, an error, a cancel or a disconnection, and
what is kept (`kept`). `Todo` has the four copies of a list, `MergeItem` and the normalisation of a
call, the batch that stores results at its end, and runs that end before.

**McpRegistry, ToolActivation, MCToolActivation.** `McpRegistry`: the handlers that create (or
revive), update, switch, bind, connect and delete a server, each a chain of statements
(`h[w].pc`) that work on a copy of the row; every statement may fail, with what the handler does
then; `Restart` starts the servers that are on. Any owner may register the name, an insert takes the
column default of the status (`Revive`), callers are switched off and on (`SwitchCaller`), and a
result may fail to be written (`Reports`). A version stands for what an endpoint serves. In
`ToolActivation`, which EXTENDS it, a session of a bound caller loads tools (`get_tool`), runs
them (`execute_tool`: look-up, question to the user, call), saves what it has loaded, and the next
run takes over what is still the same. What `get_tool` has returned (`given`) reaches the model when
the batch is over (`HandOver`, `seen`), and is dropped when the batch is cut (`EndRun`); `lost` are
the tools of which the last answer never arrived.

**Bundles, Callers, UserModels, Feedback, MCRegistries.** `Bundles`: install, uninstall and the
clean-up of a failed install, statement by statement; `list` is what the bundle has recorded of
what it found. `Callers`: handlers that check and then write next to the two transactions that copy
and delete a caller; `rows` is one table of rows of any kind, and a copy is inserted with the column
default for a status of zero (`Cloned`). `UserModels`: the handler reads the
record, checks, asks the model, and writes the columns that differ from what it read. `Feedback`:
one row, looked up without a lock, then created or updated. `MCRegistries` puts them next to each other.

## 4. Model checking

`tlc -config X.cfg M` in this directory runs each. State counts are distinct states.

| Run | Module, configuration | Shows | States |
|---|---|---|---|
| `hub_safety` | MCClientHub, HubSafety | routing, no answer lost below the caps, refinement of `AnswerDelivery` | 406,415 |
| `hub_liveness` | MCClientHub, HubLiveness | an answered wait returns, a closed channel releases every wait – with one message per wait, sent after its registration; no deadlock | 1,612 |
| `run_safety` | MCRunLifecycle, RunSafety | two runs that execute at once belong to one tree | 1,590,793 |
| `run_stops` | MCRunLifecycle, RunStops | ended runs have settled rows, cancelled is put down to users only (for sub runs, or to a lost connection), a disconnection ends the whole tree but for a wait behind a blocked pump | 463,120 |
| `context_safety` | MCSessionContext, ContextSafety | a run that compacts once hides nothing; no provider is sent a result without its call; a reload shows what was shown; tokens are counted of what is sent | 954,245 |
| `workspace_safety` | MCWorkspace, WorkspaceSafety | nothing is left behind, the mounted client has its worktree, every release returns | 298,950 |
| `async_tasks` | MCAsyncTask, AsyncTasks | refinement of `TaskRegister`, a lost lease is never written through, the end of a job is noticed without events | 231,022 |
| `memory_safety` | MCMemoryStore, MemorySafety | the log tells the row, quoted versions lose no write | 434,702 |
| `stream_safety` | MCStreams, StreamSafety | answers are taken whole, refinement of `ChunkStream`; messages are what the browser sent, frames are whole, silence is noticed | 380,184 |
| `rounds` | MCModelRound, Rounds | what is shown is the answer, what a stopped round showed is kept, every round ends; the copies of the todo list agree | 359,832 |
| `mcp_tools` | MCToolActivation, McpTools | "connected" is synchronised, off and deleted is gone, what runs is what was loaded | 1,778,651 |
| `bundles` | MCRegistries, Registries | uninstalling restores, nobody inherits, copies are whole, models are tried, sums add up, feedback is kept | 2,864,200 |

### Bounds, and why they are enough

- **Hub.** `hub_safety`: a question, a confirmation and a batch of client tools at once (one of
  each kind of matching), one answer each, a double of one of them and a cancel; capacities 3 of
  `runMsgCh` and the buffer, so that full queues happen (five messages). Three waiters are needed:
  one that has returned, one that the pump serves, one that registers meanwhile. `hub_liveness`
  leaves cancels, doubles and early answers out because with them the property is false (below).
- **Runs.** `run_safety`: an outer run with a sub run and a rival outer run, one cancel from any
  tab, one crash with restart, one wait each, sub runs whose first message is not stored. No
  shutdown hook and no 30-minute expiry of a live run: with those the property is false (below).
  `run_stops` has all ways to stop at once, for one tree, with answers that come early or twice, so that the
  pump blocks: it asks what one tree does. `MaxWaits` and `MaxStops` are 1; the three safety
  properties are also proved, without these bounds.
- **Context.** Three runs, two model rounds per run at most, two calls per round, parallel or not,
  two compactions: the second run sees what a compaction of the first has covered, and the third
  what the second did to that. `FastUser = FALSE` means that a run does not start in the second in
  which the last one stored a message (otherwise `RoundsAreWhole` is false, below).
- **Workspace.** Two runs of one caller and one of another: two share a row, all three the
  client; three are needed for one that releases while two others load in turn. `MaxFaults = 1`:
  one death of the process or one failed removal.
- **Async tasks.** One task, two servers (the second takes over the lease of the first), four
  versions of the job, so that two old events and two new ones can change places; every delay is
  one tick and the clock stops at two, past all of them. One fault. Rows of different jobs do not
  touch each other; the proofs are for any number.
- **Memory.** One fact in one space, an administrator and a reflection with its second attempt,
  four revisions (five when the last two overlap): a creation, overlapping writes and one that
  builds on them. A reflection is allowed one write in each attempt. `LayerArgs` and
  `TagArgs` have one value and "left out", enough for a write to change a column and for one to
  leave it.
- **Streams.** A channel of one place is full at once, as the real one of 64 is with a caller that
  does not read; three increments and two calls are the first, the middle and the last, and calls
  that are whole next to one that is cut. Four frames: a fragmented message with a control
  frame in it, or two messages; two of them is the size limit, so that one too many happens. One
  place in the channel of the session.
- **Rounds.** Two models, the selected one and one to fall back on, two increments, two rounds.
  The todo list has two ids, two texts, two statuses, two calls of up to two items, two runs: a
  merge into a list that a run before has left.
- **MCP register.** Two callers, each of which may register the server, bind the other or be switched
  off; two handlers at once, three requests: one to create and two that overlap, or an update, a
  failure and a repair, or a deletion and a registration by the other owner; two versions.
  Workers and versions are symmetric. The constraint `Going` leaves out what shows nothing new: a
  session beside handlers that overlap or callers that are off (these are explored without one), a session
  of the owner, one that has nothing to load or is over, and one beside a result
  that could be written (it cannot see results, and each may fail to be written). The action constraint `InTime` lets the
  session move only before a statement that writes a tool or between two requests: its steps read of the register the tools
  alone, so that they commute with the other statements. Both are about the session and the
  register together; the proofs have neither.
- **Registries.** Bundle: a skill that two files name and a server, two definitions, two handlers,
  three requests. Callers: two, with one name of a tool and of a key, three rows, two handlers, six
  requests (register, restrict, copy, delete, and another change). Models: an administrator and
  another user, two models, three requests, two at once. Feedback: four requests, two at once.
  Definitions are also versions, workers serve all, so that both sets are symmetric.

`MCStreams`, `MCModelRound` and `MCRegistries` each put components next to each other that share
no state and send each other nothing: one rests in its initial state while another moves, so that
the states are a sum and not a product. Their properties speak of one component each.

`CHECK_DEADLOCK FALSE` stands where all runs may be over, or a bound used up, and nothing is left
to do; in `hub_liveness` the deadlock check is on and `Finished` marks the intended end.

### What a step is

A statement of SQL and what the handler computes before its next one are a step, unless nothing
else can see the difference; a transaction is one step where InnoDB's locks make it one, and two (a
snapshot read, then the locked write) where its SELECT takes none. Two places are coarser: in
`McpRegistry` the list of tools and the upsert of the tool for one caller are one step, and the
bindings of a server are replaced in one, as their transaction does; in `UserModels` the check of a
name is at the read of the record.

### Fairness

- Hub: weak fairness of each waiting goroutine and of the pump – the Go scheduler runs runnable
  goroutines. Nothing of the client: it may stay connected and silent for ever.
- Runs: weak fairness of the loop of each run and of the pump of each outer run: both are goroutines,
  and runnable ones run. Nothing else: `Cancel` calls, servers and users owe no step, a wait has no
  timeout in the code and none here. `ServedSpec` adds that a `Cancel` under way goes on and that a
  server finishes its stop and is started again; it is there for the temporal counterexamples
  below, which do not come from a step that is merely never taken.
- Workspace: weak fairness of the steps of a load or release that need no lock and of call
  timeouts (timers fire); strong fairness of steps that wait for a mutex, because a Go mutex
  hands itself over to a goroutine that has waited for 1 ms (starvation mode), so that it is not
  withheld for ever while others take it again and again. A server owes no answer.
- Tasks: time passes and servers keep polling (their loop is a ticker). No event need arrive.
- Streams: writing into a channel with room, closing, and a caller that takes what is there; the
  decoder moves once its context is cancelled, because net/http closes the body. The provider
  owes no line. Nothing is claimed from these but what the refinement says.
- WebSocket: deadlines fire (reads of a silent peer, writes); the session takes what is passed; the
  reader gets the lock of the writers (strong fairness, as for the mutex above).
- Rounds: the goroutine runs and its idle timer fires; the provider owes nothing, the user nothing.
- No liveness is stated of the others, and no fairness assumed.

### Counterexamples

These statements of the repository's documentation and comments are false; `findings` in
`PROJECT.json` quotes each and says what the code does. No configuration is kept for them; the
constants named are the ones that differ from the runs above. First those that a model finds:

- `AnsweredWaiterReturns` with `EarlyAnswers` TRUE: an early answer is buffered after its wait has
  looked (`client_hub.go:153`).
- `CloseReleasesEveryone` with waits `{ask, ask2}`, messages `CancelMessages`, `InboxCap` 2,
  `PendingCap` 2: a returned wait stays in `h.waiters`, a second message to its full channel blocks the pump
  for ever (`client_hub.go:140`), and the wait that is still open is never released.
- `ConfirmationsDoNotInterfere` with waits `{ask, confirm}` and `ConfirmMessages`, `EarlyAnswers`
  TRUE: a confirmation that comes before its own wait is not addressable (`client_hub.go:176`), so
  it is not buffered; it goes to the only wait there is (`client_hub.go:158`), which fails on it, or
  is dropped when there are several, against `tool_confirm.go:9`.
- `SubRunsDoNotBlock` with `Runs = {o1, c1}`, `DBErrors` TRUE, no stops: the row of a sub run whose
  first message could not be stored (`delegate.go:276`) stays active, and the check for a new run
  (`react_run.go:187`) counts it although `react_run.go:215` says sub runs take no part.
- `LostRunsExpire` (under `ServedSpec`) with `Runs = {o1}`, `Crashes` TRUE: after a quick restart the rows are less than
  30 minutes old and are not expired, against `main.go:62`; nothing expires them later.
- `OneRunPerSession` with two servers and `LongWaits` TRUE: a restarting server expires the row of
  a run that waits on the *other* server for more than 30 minutes, and the session takes a second
  run, against `architecture.md:110`.
- `ShutdownExpiresRuns` with `Graceful` TRUE: a run writes its row after the hook has expired it,
  or starts after the hook has read the registry, against `deployment.md:139`.
- `OutcomeIsFinal` with cancels: `Cancel` overwrites an outcome (`runtime.go:754`); and with
  `SendErrors` TRUE and no cancel: `finish` has stored `finished` when its event cannot be sent, and
  the error path overwrites it (`engine.go:789`).
- `CancelConverges` (under `ServedSpec`): an accepted cancel does not end a run that then waits for the user.
- `CancelledByAUser`: a stream of a sub run that is cut because the browser has gone ends as a cancelled one
  (`gpt.go:633`, `claude.go:728`, `minimax.go:678`), and the sub run is recorded as cancelled
  (`delegate.go:284`), against `runtime_support.go:77`.
- `NothingForgotten` with two compactions in one run: the second hides messages that no summary
  covers. `NoDanglingToolUse` with cancels: a cancelled round of two calls leaves a tool use
  without a result.
- `RoundsAreWhole` with `FastUser` TRUE, `MaxSteps` 1, `MaxRounds` 4, `MaxCalls` 1: messages of two runs
  within one second are ordered by a seq that starts at 1 in each run, so that a user message comes
  between a tool use and its result.
- `OwnCode`, `NoLeakedProcess` with two runs and `MaxFaults` 0: a run reads another run's worktree;
  `ListTools` starts a client again that another run has taken out of the map and stopped.
  `RestartLeavesNoTools` with `MaxFaults` 1: tool rows survive a crash.
- `EndIsNews` with `Second` 2 and `MaxTime` 4: an event is dropped because the time of the
  one before was rounded up.
- `ResidentCap`, `VersionGrows`, `ChainIsWhole`, `LockedIsReadOnly`, `OneRowPerFact`,
  `ReflectionBudget` (`ResidentCap` and `OneRowPerFact` with two facts): what overlapping snapshots, unquoted
  versions, a content that leaves its key, and a second attempt do to the memory store.
- `DoneIsEnded`, `NoLeak`, `LinesAreHeard`: a connection that closes cleanly makes a cut answer a
  whole one; a decoder whose caller has left blocks at a full channel; the lines of a tool call are
  silence to the idle timer.
- `ThoughtsAreWhole`, `CancelIsTold`, `TokensAreCounted`: the second block of thoughts replaces the
  first on the page; some cancelled runs end as errors; failed attempts cost no tokens in the row.

- `CopyIsFaithful`: what the source has switched off is on in the copy, because GORM takes the column
  default for a status of zero (`caller_config.go:112`).

Then those read from the code at the border of a model, with the step of the model that has them
where there is one: `ReplayIsWhole` for sub-agents, `SameSecond`, `SummaryComesFirst`,
`UnsignedThoughts`, `MountedCodeExists` for two services, `NameIsUnique`, `SyncedToTheCaller`,
`ConnectedIsWhole`, `CreatedOff`, `OffMeansOff`, `ShownIsWhatRuns`, `OffStopsACall`, `NoHalfInstall`,
`ListIsThisInstall`, `RestoredOffIsOff`, `OneRowPerRoute`, `DeleteTakesAll`,
`SeenOnlyWhenAllowed`, `CheckedTogether`, `OneName`, `UpsertNeverFails`, `RemindedIsSaved`.

Some properties are true only because they leave such cases out, and say so in their comments:
`DisconnectEndsTree` names the wait behind a blocked pump; `CancelledForAReason` excepts sub runs whose
connection was lost; `ConnectedIsSynced` and `GoneLeavesNothing` are about handlers that ran alone
and passed over no error, the first about callers that are not switched off, and it does not say
whose tool the one without a suffix is; `RunsWhatWasLoaded` excepts tools whose last answer of
`get_tool` never reached the model; `CopyIsWhole` says that what is copied is on; `WasChecked` about models whose settings two updates did not write at once;
`UninstallRestores` about installs whose list is complete and resources nobody else wrote.

## 5. Proofs

`tlapm M.tla` checks each proof module. The theorems hold for all values of the constants that
satisfy the assumption named in each module.

**RunLifecycleProofs.** `TypeCorrect`. `OneRun`: `OneRunPerSession` assuming no shutdown hook and
no 30-minute expiry of a live run (without that assumption it is false, above). `ExclInv` adds
that an executing run keeps its row active and young (so that the check at the start of another
run sees it and the clean-up of a restarted server spares it), that the parent of a live sub run
is in its loop on the same server (so that a sub run never outlives its outer run), and that no
server runs its hook. `Settled`: `EndedRunIsSettled` is inductive with the types, for every
combination of stops. `Blamed` (`CancelledForAReason`): the invariant `Blame` traces each way to a cancelled
outcome – the row, the first error, the cause of the context, a message in the channel or at a
wait – to a `Cancel` of the tree, or to the loss of its connection; in the second case the
cause of an outer run is that loss, which `run` puts before the error. `OutcomeTakenBack` (`OutcomesStand`, an action property) delimits the
counterexample to `OutcomeIsFinal`: an outcome is replaced only by a cancel that found the run in
the registry before it left it, by the run's own goroutine when its done event could not be sent,
or when the row expired under a run that still executes; `OnlyExpires` says that
expiry is the only outcome the row of an executing run can have.

**ReactProofs.** Model rounds: `AnswerIsShown` and `ShownIsKept` follow from `RoundInv`, which
adds what the page shows while a round is not decided (`ShownSoFar`): of the first model what has
been collected of it, of the others nothing but blanks, since they are shown only when they are
whole. `NoTokenTwice` delimits the counterexample to `TokensAreCounted`: tokens get lost, but none
is counted twice. `TokensInv` adds that a stream has one final chunk, its last, and is closed only
after it, and that while it is read an answer that has ended is still to be counted. The todo list: `ListsAgree` from `TodoInv`: results that are not stored yet exist only in a
run, and are then the list that the row and the browser have. The session:
`CompactionForgetsNothing` and `TokensAreOfTheContext` from `SessionInv`. Its part `StoreInv` is
about the table alone: rows are in the order of time and runs (`Timed`) and of their numbers but
for the results of calls that were cut at once (`InTurn`); results come next after the message
that asked for them and answer calls of their own (`ResultsOf`); a summary covers only what was
stored before it (`CoversPast`), and a request never without its results (`CoversWhole`). The rest
ties the context in memory to the table: it has each message once and a request with its results
(`CtxWhole`), in the order of the numbers until the first compaction (`CtxOrder`); it is the
history that a reload would read while the run compacted once at most (`Kept`, which is what the
property needs); and while calls run, what is stored after the message that asked for them are
results of cut calls of that message (`RoundOf`).

**HistoryProofs.** The same `SessionInv`, and what is computed from it. `ResultsFollowTheirCalls`
(`RoundsAreWhole`, for every provider): `Joined` says what a place in a concatenation is a place
of, `BlockOf` what each message becomes, and `SentWhole` carries over from the context to the
request. `HistoryIsWhole`: `Lined` is what the timeline keeps of the table, given that each run
has stored its input first (`Opened`); `Lists` says what a list of events tells of the first n
messages – only what is stored, the input of a run first and its end last, each start of a call,
each end once and after its start, one terminal event for each run that is over – and `Building`
that `Built[n]` lists them. The theorem says that the history tells the session as it happened in
every state, and the property that the run checks is the part outside a round of calls.

The theorems about the session assume `~FastUser`, as the configuration does: with `FastUser`,
messages of two runs of one second mix, and `RoundsAreWhole` is false (above).

**AsyncTaskProofs.** `TypeCorrect`, for which rounding must stay within the times. `Told`:
whatever is on its way – an event, the answer to a poll – is what the job was at that version, and
no version is ahead of the job. `Fresh`: a tool use whose row is still to be written has none.
With these, `EndsAreTrue` (a row that says the job has ended says so truly) is inductive,
`LeaseKept` is an action property of the types, `SequenceGrows` needs `Numbering` (with a
scheduler that numbers, the two numbers of a row are the same), and `RegisterKept` maps each step
to one of `TaskRegister`: the observation that ends a row is `EndIsTrue`'s, all others stutter.
`EndIsFinal` (`NothingIsTakenBack`, an action property) says that no server, whatever it has read
before, takes back the end of a job or the answer that a tool row has got: an
observation looks at the rows it has locked, and the other updates name the state in their WHERE
clause. `EndedNotPolled` (`EndedIsLeftAlone`) is inductive with the types: a
row that does not run has neither a next poll nor a lease, and a poller that is late with its
failure, which would put off the next poll, finds that the lease is no longer its own.

**MemoryStoreProofs.** `TypeCorrect`. `LogIsTrue`: a row was written exactly when its log is not
empty (`Kept`), and the change a transaction has planned is one that its action may make of the
row it read (`SoundPlans`). `QuotedChain`: `ChainInv` adds that the row is what its last revision
left, with as many versions as there are revisions, and that a plan starts from what some revision
left, no earlier than the version it quotes, as long as every revision quotes one.

**StreamProofs.** `FramesAreWhole`: `Alone` says that only the holder of the lock is within a
frame, `WireInv` that what left last is its header or a whole frame unless the buffer is broken.
`SessionGetsWhatIsSent` (`ReadIsSent`): `ReadInv` says that each message passed, being passed or
waiting is whole (`Whole`: its first frame and only that one is a text frame, its last and only
that one is final, it is not too long), that what is being gathered is the beginning of such a one
(`Part`), and that all of them together are the data frames in order, of which only a tail can be
missing, once the reader has ended (`Sound`). `WholeAnswers`: `StreamInv` says that the decoder
has heard what was said (`Heard`) and that what it has put is what was said, in order, then one
final chunk, with its position telling which; at the end of the answer that chunk is the one with
all of it. `DecodersImplementStream`: with it each step is a `Put`, the end of the channel, or a
stutter (taking a chunk moves it from `channel` to `taken`).

The last section of this module is about the hub. `TypeCorrect`. `DeadHubWakesWaiters`: the property alone is not
inductive; `DeadInv` adds that a blocked wait is registered (so that a broadcast targets it), and
that once `deadErr` is set the pump is either sending the error, and exits after that, or has
exited. `Routing` and `AtMostOnce` follow from `DeliveryInv`: `Sourced` (a message in the pump,
the buffer, a channel or a result was sent, so that it cannot be sent again), `PumpRoutes` (an
answer the pump holds has one target, which it matches when it is addressed, and only such answers
are about to be buffered), and the two properties. `HubImplementsDelivery`: with `EndInv` (there
is an error event only after the channel was closed) each step is a step of `AnswerDelivery` –
`ClientSend` an offer, `CloseChannel` the end, the return of a wait a resolution or a
disconnection – or a stutter. `NothingLost`: `KeptInv` says that, while no more was sent than the
queues hold, every addressed answer is in a queue, with the pump, in a channel or returned; the
queues hold different messages, all of them sent, so that neither is full before that and nothing
is dropped. `PumpIsNotBlocked` (`PumpGoesOn`) delimits the counterexample to
`CloseReleasesEveryone`: when the client answers each question once (`AnswersOnce`), the pump never
stands at a full channel whose wait has returned. `ToldOnce` says of the error that a waiter which
has it is neither the one the broadcast stands at nor among those still to come, and that no other
broadcast follows; `Sourced` and `AnswersOnce` say that it gets no second answer.

**McpProofs.** `TypeCorrect`. `ConnectedSynced` and `GoneLeaves`: `RegistryInv` consists of the
types, `Grounded` (rows and copies of rows that are used are of a registered server; tool rows
were written for a caller or never) and `Undisturbed`: what a handler that runs alone *knows* at
each statement – which client runs, which callers already have the tool, which are still to do,
that the row is the one it copied, but for the status of a new one – stays true until its next statement, since nobody else writes;
when another request comes it is no longer `sound`. `RunsLoaded`: `SessionInv` says that every
list of definitions – of the run, of the one before, saved, of the call – agrees with what
`get_tool` last returned (`Given`), for every tool that is not `lost`; a batch that is cut takes the
answers the model has not seen back and makes their tools lost; it holds against any step of the register. Its last section
is about the other place that runs MCP clients, the workspaces. `WorkTypes`. `NothingLeft` and
`MountedCode`: `MountInv` names for everything that exists a run that will take it away – a
registered client belongs to a run that has not yet passed its own `Unmount`, a worktree to a run
that has not passed `Remove` – and says that the registered client has its worktree, and that
nothing of this process exists before `Default` has swept; `RowInv` names such a run for tool
rows, which all runs of a caller share. `NothingLeftBehind` speaks of quiet states only and could
not be inductive. `NoCircle` (`NobodyWaitsInACircle`) is the safety half of `ReleaseReturns`: a
load holds `Manager.mu` while it waits for the mutex of a client, and a release needs both;
`LockInv` says where the holder of each of them is, so that who is waited for is loading or in a
call, and a load waits for a call at most, which waits for nobody.

**RegistriesProofs.** The same argument four times: a request reads, decides and writes later, so
that the invariant comes with what it says of the writes still to come. `FeedbackKept`:
`RemarkInv` adds that nothing was confirmed before there is a row. `ModelTypes`, `KindKept`,
`SettingsTried`, `SumsKept`: `ModelInv` adds that every order that will create or change a model
has had an answer with the settings it will leave, that its record was tidy when it was read and
only what may change has, and that an order that found an account still has one. `NobodyInherits`:
`CallerInv` adds that what a handler is about to copy was live when its owner was (`NewErrand`),
and that no key that was never a caller owns a row, or will. `CopiesAreWhole` (`CopyIsWhole`) is an
action property: what the copied rows give (`RowGrants`) is what the owner's gave when they were
read, switched on (`ClonedOn`).
`BundleIsUninstalled`: `UninstallRestores` is about installs that nobody disturbed, so
`ListIsTrue` speaks of the time while `before` is known. Then one handler runs at most (`Sole`),
each record names the row it was made for (`IdsAgree`), the first record of a resource has what
was there before the bundle (`FirstFound`; two files may name one resource), and what is on no
list is as it was (`Untouched`). `HandlerIsGood` says where a handler is in this: a record not yet
written is already good, while it installs all that is listed is there, and halfway through a
rollback, which goes backwards, what has no record left is as it was. The property speaks of
clients of the servers on the list only: of all servers it is false (TLC finds a skill before a
server, five requests), since a request that fails between the row of a server and its client
leaves a client, and the next install may fail before it comes to this server.

Only model-checked: liveness, because the prover has no rule for `ENABLED`. These are
`AnsweredWaiterReturns` and `CloseReleasesEveryone` (hub), `DisconnectEndsTree` (runs),
`ReleaseReturns` (workspace), `EndIsNoticed` (tasks), `SilenceIsNoticed` (WebSocket) and
`RoundEnds` (rounds). Three of the definitions that theorems speak of are
computed along a sequence: `MergeItem` over the items
of a call, `Built` over the timeline, and `FlattenSeq` of the community modules. They are
recursive functions on numbers, whose value at n follows from the one at n - 1; that there is such
a function, and that what holds of each of its steps holds of its value, is shown by taking the
least number where it would fail. False statements are refuted by a trace or by reading, and need
no proof. Type invariants are proved where an invariant needs them; no run spends a property on
them. Six theorems state properties that no run spends a property on either, since they say what
remains true where another one fails or is temporal: `OutcomeTakenBack`, `NoTokenTwice`,
`PumpIsNotBlocked`, `NoCircle`, `EndIsFinal` and `EndedNotPolled`.

## 6. What is not modelled

- Contents: texts, prompts, token counts, JSON, requests in a provider's format beyond the roles and
  calls of `Wire`. Where a decision depends on them (compaction, the next tool, whether a call
  fails) the model chooses freely.
- Python executor (one request per call, no state), code search (reads files), the Web SDK, of which
  only the rule that turns events into shown text is used, in `ModelRound`.
- Code without an effect: `CheckCredits` and `DeductCredits` have no caller, base credits are
  created by a list and nothing takes from them; `create_plan` puts a record in a map that nothing
  reads; `createDefaultSkill` is commented out.
- In `RunLifecycle`, snapshots of todo lists and loaded tools that are stored with the row: they are
  in `Todo` and `ToolActivation`.
- In `Workspace`, HTTP and SDK clients, mirrors, more than one service, and a client process that
  ends by itself (its calls fail, nothing is freed). Servers that administrators configure are in
  `McpRegistry`, those of the yaml file nowhere.
- In `Replay`, the messages of sub-agents, files and the list of sessions. The run checks the
  history outside rounds of calls, the theorem at every time.
- In `AsyncTask`, the lists for the model and the browser; in `MemoryStore`, reading, secrets and
  lengths and the cooldown; in `ModelStream`, calls without a stream; in `WebSocket`, bytes, masks,
  handshake; in `ToolActivation`, skills and the paging of results; in `Todo`, lists of 64 KiB or
  more, where the column ends.
- In `Bundles`, fetching and reading files, and more than one bundle; in `Callers`, how a key or a
  prompt is found by a prefix of a route.
- Memory-level races (one is known: after a timeout the reader goroutine still uses `c.stdout`,
  which `stopLocked` sets to nil, `client.go:315`).
- Database failures are modelled where the code treats them in a way of its own; elsewhere an
  operation that fails is the error of the loop or of the request.
