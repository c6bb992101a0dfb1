----------------------------- MODULE RunLifecycle -----------------------------
(***************************************************************************)
(* The runs of one session: the rows of tblLlmReactRun, the goroutines     *)
(* that execute them (service/react/runtime.go run, delegate.go            *)
(* executeDelegateAgent), the registry of cancel functions (cancel.go),    *)
(* the Cancel entry point, the shutdown hook and the clean-up at start.    *)
(*                                                                         *)
(* A run row is written by whoever comes last: no writer but the shutdown  *)
(* hook and the clean-up looks at the state it replaces.  The properties   *)
(* are about what those unguarded writes do to each other, to the session  *)
(* that refuses a new run while a row is active, and to the user.          *)
(*                                                                         *)
(* The model's loop is abstracted to what moves the row: rounds that are   *)
(* interrupted or fail, waits for the user, delegations, the end. Of the   *)
(* hub of ClientHub the broadcasts are left, of a cancel and of the end,   *)
(* and what blocks them: a wait stays registered when it has returned, and *)
(* its channel takes one event more. A write that the database refuses is  *)
(* modelled for the first message of a sub run.                            *)
(***************************************************************************)
EXTENDS Naturals, FiniteSets

CONSTANTS
  Runs,        \* run ids, each used once
  NoRun,
  Parent,      \* Parent[r]: parent_run_id, NoRun for an outer run
  Ancestors,   \* Ancestors[r]: the runs above r
  Cancellers,  \* the cancel messages users send
  Servers,     \* the processes that serve the session
  NoServer,
  MaxWaits,    \* bound: waits for the user per run
  MaxStops,    \* bound: crashes and shutdowns
  Graceful,    \* may a server be shut down by a signal?
  Crashes,     \* may a server die?
  LongWaits,   \* may the user leave a waiting run alone for 30 minutes?
  OtherTabs,   \* may a cancel come from another connection?
  DBErrors,    \* may the first message of a sub run fail to be stored?
  SendErrors,  \* may an event be lost on a connection not yet known to be broken?
  EarlyAnswers, \* may an answer come before its wait is registered?
  AnswersAgain  \* may an answer come twice?

Active == {"running", "waiting_client_message", "cancelling"}
Terminal == {"finished", "cancelled", "error", "expired"}

IsOuter(r) == Parent[r] = NoRun
OutersOf(r) == {o \in Ancestors[r] \cup {r} : IsOuter(o)}
(* The outer run of r's tree.                                              *)
Outer(r) == CHOOSE o \in OutersOf(r) : TRUE
Tree(o) == {r \in Runs : Outer(r) = o}
Children(r) == {c \in Runs : Parent[c] = r}
SelfAndBelow(r) == {d \in Runs : d = r \/ r \in Ancestors[d]}

ASSUME RunAssumption ==
  /\ NoRun \notin Runs /\ NoServer \notin Servers
  /\ Parent \in [Runs -> Runs \cup {NoRun}]
  /\ Ancestors \in [Runs -> SUBSET Runs]
  /\ \A r \in Runs : IsOuter(r) <=> Ancestors[r] = {}
  /\ \A r \in Runs : ~IsOuter(r) => Parent[r] \in Ancestors[r]
  /\ \A r \in Runs : OutersOf(r) # {}
  /\ \A r \in Runs : \A a \in Ancestors[r] : OutersOf(a) = OutersOf(r)
  /\ MaxWaits \in Nat /\ MaxStops \in Nat
  /\ {Graceful, Crashes, LongWaits, OtherTabs, DBErrors, SendErrors,
      EarlyAnswers, AnswersAgain} \subseteq BOOLEAN

VARIABLES
  row,        \* row[r]: state of the row, "none" before it is created
  aged,       \* aged[r]: the row was last written more than 30 minutes ago
  pc,         \* pc[r]: where the goroutine of the run stands
  err,        \* err[r]: the first error the loop has met
  cause,      \* cause[r]: context.Cause of the run's context
  waits,      \* waits[r]: waits for the user so far
  registry,   \* activeRunCancels
  home,       \* home[r]: the process the run executes in
  gone,       \* outer runs whose connection has dropped
  cancelMsg,  \* outer runs with a cancel message in their runMsgCh
  told,       \* waiting runs whose channel holds a cancel message
  left,       \* outer runs with a wait that has returned and stays registered
  full,       \* ...and has an event in its channel that nobody will take
  dead,       \* outer runs whose hub has begun to broadcast the end (deadErr)
  stuck,      \* outer runs whose pump is blocked for ever
  missed,     \* waiting runs that a blocked broadcast of the end never reaches
  req,        \* req[c]: progress and target of a Cancel call
  server,     \* server[s]: up, hook (shutdown hook running), stopping, down
  snap,       \* snap[s]: the run ids the shutdown hook has read
  stops       \* crashes and shutdowns so far

runVars == <<row, aged, pc, err, waits, registry, home>>
hubVars == <<gone, cancelMsg, told, left, full, dead, stuck, missed>>
srvVars == <<server, snap, stops>>
vars == <<row, aged, pc, err, cause, waits, registry, home, gone, cancelMsg,
          told, left, full, dead, stuck, missed, req, server, snap, stops>>

InLoop == {"working", "draining", "waiting"}
Live == {"created", "unsent", "ended"} \cup InLoop
(* wg.Wait: no delegated sub run is under way.                             *)
ChildrenOver(r) == \A c \in Children(r) : pc[c] \notin Live

(* UpdateReactRunByRunID: the state is overwritten, updated_at refreshed.  *)
Write(r, s) ==
  /\ row' = [row EXCEPT ![r] = s]
  /\ aged' = [aged EXCEPT ![r] = FALSE]

(* The hub of a tree is no longer used by anybody.                         *)
ForgetHub(rs) ==
  /\ cancelMsg' = cancelMsg \ rs /\ told' = told \ rs /\ left' = left \ rs
  /\ full' = full \ rs /\ dead' = dead \ rs /\ stuck' = stuck \ rs
  /\ missed' = missed \ rs

FirstError(r, e) == IF err[r] = "none" THEN e ELSE err[r]

Init ==
  /\ row = [r \in Runs |-> "none"] /\ aged = [r \in Runs |-> FALSE]
  /\ pc = [r \in Runs |-> "off"] /\ err = [r \in Runs |-> "none"]
  /\ cause = [r \in Runs |-> "none"] /\ waits = [r \in Runs |-> 0]
  /\ registry = {} /\ home = [r \in Runs |-> NoServer]
  /\ gone = {} /\ cancelMsg = {} /\ told = {} /\ left = {} /\ full = {}
  /\ dead = {} /\ stuck = {} /\ missed = {}
  /\ req = [c \in Cancellers |-> [at |-> "idle", run |-> NoRun]]
  /\ server = [s \in Servers |-> "up"] /\ snap = [s \in Servers |-> {}]
  /\ stops = 0

-----------------------------------------------------------------------------
(* Starting runs                                                           *)

(* Mutant of HasActiveReactRun: a run that waits for the user is forgotten. *)
HasRunningReactRun == \E r \in Runs : row[r] \in {"running", "cancelling"}

(* HasActiveReactRunWithDB: sub runs count like outer ones.                *)
HasActiveReactRun == \E r \in Runs : row[r] \in Active

(* createReactRunContext: one transaction that holds the session row. The  *)
(* connections a stopping server still has can start runs too.             *)
StartRun(r, s) ==
  /\ IsOuter(r) /\ row[r] = "none" /\ server[s] # "down"
  /\ ~HasActiveReactRun
  /\ Write(r, "running")
  /\ pc' = [pc EXCEPT ![r] = "created"]
  /\ home' = [home EXCEPT ![r] = s]
  /\ UNCHANGED <<err, cause, waits, registry, hubVars, req, srvVars>>

(* The context of the run is derived and its cancel function registered,   *)
(* after the row has become visible.                                       *)
Register(r) ==
  /\ pc[r] = "created"
  /\ pc' = [pc EXCEPT ![r] = "working"]
  /\ registry' = registry \cup {r}
  /\ cause' = [cause EXCEPT ![r] =
                 IF ~IsOuter(r) THEN cause[Parent[r]]
                 ELSE IF r \in gone THEN "disconnected" ELSE "none"]
  /\ UNCHANGED <<row, aged, err, waits, home, hubVars, req, srvVars>>

(* buildSubAgentRuntimeRequest and createSubAgentRunRecord: the row of the *)
(* sub run, then its first message, in two statements. If the second fails *)
(* the error is a tool result, unless the run is being interrupted.        *)
Delegate(c) ==
  LET p == Parent[c] IN
  /\ ~IsOuter(c) /\ row[c] = "none" /\ pc[p] \in InLoop
  /\ Write(c, "running")
  /\ home' = [home EXCEPT ![c] = home[p]]
  /\ \/ pc' = [pc EXCEPT ![c] = "created"] /\ UNCHANGED err
     \/ /\ DBErrors
        /\ pc' = [pc EXCEPT ![c] = "orphan"]
        /\ err' = IF cause[p] = "none" THEN err
                  ELSE [err EXCEPT ![p] = FirstError(p, "other")]
  /\ UNCHANGED <<cause, waits, registry, hubVars, req, srvVars>>

-----------------------------------------------------------------------------
(* The loop                                                                *)

(* A model call or a tool notices the end of the run's context. Most look  *)
(* for its cause; a stream that notices it between two lines yields a last *)
(* chunk that says cancelled, whatever the cause.                          *)
Interrupted(r) ==
  /\ pc[r] = "working" /\ cause[r] # "none"
  /\ pc' = [pc EXCEPT ![r] = "draining"]
  /\ \E e \in {cause[r], "cancelled"} : err' = [err EXCEPT ![r] = FirstError(r, e)]
  /\ UNCHANGED <<row, aged, cause, waits, registry, home, hubVars, req, srvVars>>

(* Model failure, too many steps, budget exceeded; an event of the model's *)
(* stream cannot be written.                                               *)
Break(r) ==
  /\ pc[r] = "working"
  /\ pc' = [pc EXCEPT ![r] = "draining"]
  /\ \/ err' = [err EXCEPT ![r] = FirstError(r, "other")]
     \/ SendErrors /\ err' = [err EXCEPT ![r] = FirstError(r, "disconnected")]
  /\ UNCHANGED <<row, aged, cause, waits, registry, home, hubVars, req, srvVars>>

(* ask_question, client tools and confirmations write the waiting state    *)
(* whatever the row says, then block; they do not look at the context.     *)
WaitUser(r) ==
  /\ pc[r] = "working" /\ waits[r] < MaxWaits
  /\ Write(r, "waiting_client_message")
  /\ pc' = [pc EXCEPT ![r] = "waiting"]
  /\ waits' = [waits EXCEPT ![r] = @ + 1]
  /\ UNCHANGED <<err, cause, registry, home, hubVars, req, srvVars>>

(* The answer comes through the pump or, when it is early, from the        *)
(* messages kept for later: then the wait was never registered.            *)
WaitAnswered(r) ==
  /\ pc[r] = "waiting" /\ r \notin told /\ Outer(r) \notin dead
  /\ Write(r, "running")
  /\ pc' = [pc EXCEPT ![r] = "working"]
  /\ \/ Outer(r) \notin stuck /\ left' = left \cup {Outer(r)}
     \/ EarlyAnswers /\ left' = left
  /\ UNCHANGED <<err, cause, waits, registry, home, gone, cancelMsg, told, full,
                 dead, stuck, missed, req, srvVars>>

(* A cancel message ends the wait. The question leaves the row alone, the  *)
(* confirmation sets it back to running first.                             *)
WaitCancelled(r) ==
  /\ pc[r] = "waiting" /\ r \in told
  /\ Write(r, "running") \/ UNCHANGED <<row, aged>>
  /\ pc' = [pc EXCEPT ![r] = "draining"]
  /\ err' = [err EXCEPT ![r] = FirstError(r, "cancelled")]
  /\ told' = told \ {r}
  /\ left' = left \cup {Outer(r)}
  /\ UNCHANGED <<cause, waits, registry, home, gone, cancelMsg, full, dead, stuck,
                 missed, req, srvVars>>

(* Mutant of WaitDisconnected: only the wait of the outer run is released.  *)
WaitDisconnectedOuterOnly(r) ==
  /\ pc[r] = "waiting" /\ r \notin told /\ r \in dead /\ r \notin missed
  /\ Write(r, "running")
  /\ pc' = [pc EXCEPT ![r] = "draining"]
  /\ err' = [err EXCEPT ![r] = FirstError(r, "disconnected")]
  /\ UNCHANGED <<cause, waits, registry, home, hubVars, req, srvVars>>

(* The wait receives the error the pump has broadcast, or finds deadErr    *)
(* set when it registers.                                                  *)
WaitDisconnected(r) ==
  /\ pc[r] = "waiting" /\ r \notin told /\ Outer(r) \in dead /\ r \notin missed
  /\ Write(r, "running")
  /\ pc' = [pc EXCEPT ![r] = "draining"]
  /\ err' = [err EXCEPT ![r] = FirstError(r, "disconnected")]
  /\ UNCHANGED <<cause, waits, registry, home, hubVars, req, srvVars>>

(* finish.                                                                 *)
Finish(r) ==
  /\ pc[r] = "working" /\ err[r] = "none" /\ ChildrenOver(r)
  /\ Write(r, "finished")
  /\ pc' = [pc EXCEPT ![r] = "ended"]
  /\ UNCHANGED <<err, cause, waits, registry, home, hubVars, req, srvVars>>

(* finish has written the row when its done event fails: the error of the  *)
(* connection becomes the error of the loop.                               *)
FinishUnsent(r) ==
  /\ SendErrors
  /\ pc[r] = "working" /\ err[r] = "none" /\ ChildrenOver(r)
  /\ Write(r, "finished")
  /\ pc' = [pc EXCEPT ![r] = "unsent"]
  /\ err' = [err EXCEPT ![r] = "disconnected"]
  /\ UNCHANGED <<cause, waits, registry, home, hubVars, req, srvVars>>

(* Mutants of LoopError: a lost connection is not told from a cancel; the  *)
(* row is left alone, as run leaves it on its success path.                *)
LoopErrorAllCancelled(r) ==
  /\ pc[r] \in {"working", "draining", "unsent"} /\ err[r] # "none" /\ ChildrenOver(r)
  /\ Write(r, IF err[r] = "other" THEN "error" ELSE "cancelled")
  /\ pc' = [pc EXCEPT ![r] = "ended"]
  /\ UNCHANGED <<err, cause, waits, registry, home, hubVars, req, srvVars>>

LoopErrorUnwritten(r) ==
  /\ pc[r] \in {"working", "draining", "unsent"} /\ err[r] # "none" /\ ChildrenOver(r)
  /\ pc' = [pc EXCEPT ![r] = "ended"]
  /\ UNCHANGED <<row, aged, err, cause, waits, registry, home, hubVars, req, srvVars>>

(* The loop returns its error; run (finalizeSubAgentRunError for a sub     *)
(* run) writes the outcome. Only the outer run puts the disconnection      *)
(* before the error.                                                       *)
LoopError(r) ==
  /\ pc[r] \in {"working", "draining", "unsent"} /\ err[r] # "none" /\ ChildrenOver(r)
  /\ Write(r, IF err[r] = "cancelled" /\ ~(IsOuter(r) /\ cause[r] = "disconnected")
              THEN "cancelled" ELSE "error")
  /\ pc' = [pc EXCEPT ![r] = "ended"]
  /\ UNCHANGED <<err, cause, waits, registry, home, hubVars, req, srvVars>>

(* The deferred unregisterReactRunCancel; an interrupted sub run hands its *)
(* error to the parent's loop, a failed one is a tool result. The context  *)
(* of the run goes out of use, with an outer run the hub of its tree.      *)
Return(r) ==
  /\ pc[r] = "ended"
  /\ pc' = [pc EXCEPT ![r] = "done"]
  /\ registry' = registry \ {r}
  /\ err' = [d \in Runs |->
               IF d = r THEN "none"
               ELSE IF d = Parent[r] /\ err[r] \in {"cancelled", "disconnected"}
               THEN FirstError(d, err[r]) ELSE err[d]]
  /\ cause' = [cause EXCEPT ![r] = "none"]
  /\ waits' = [waits EXCEPT ![r] = 0]
  /\ ForgetHub(IF IsOuter(r) THEN Tree(r) ELSE {})
  /\ UNCHANGED <<row, aged, home, gone, req, srvVars>>

-----------------------------------------------------------------------------
(* The user                                                                *)

(* context.WithCancelCause: the first cause stays, and reaches the         *)
(* contexts derived so far.                                                *)
CancelContext(r, why) ==
  cause' = [d \in Runs |->
              IF d \in SelfAndBelow(r) /\ pc[d] \in InLoop /\ cause[d] = "none"
              THEN why ELSE cause[d]]

(* The WebSocket loop sees a read error: connCancel, close(runMsgCh).      *)
Disconnect(o) ==
  /\ IsOuter(o) /\ pc[o] \in Live /\ o \notin gone
  /\ gone' = gone \cup {o}
  /\ CancelContext(o, "disconnected")
  /\ UNCHANGED <<runVars, cancelMsg, told, left, full, dead, stuck, missed, req, srvVars>>

(* Cancel reads the row and refuses a run that has ended.                  *)
CancelRead(c, r) ==
  /\ req[c].at = "idle" /\ row[r] \in Active
  /\ req' = [req EXCEPT ![c] = [at |-> "read", run |-> r]]
  /\ UNCHANGED <<runVars, cause, hubVars, srvVars>>

(* getActiveReactRunCancel.                                                *)
CancelLookup(c) ==
  /\ req[c].at = "read"
  /\ req' = [req EXCEPT ![c].at = IF req[c].run \in registry THEN "found" ELSE "refused"]
  /\ UNCHANGED <<runVars, cause, hubVars, srvVars>>

CancelWrite(c) ==
  /\ req[c].at = "found"
  /\ Write(req[c].run, "cancelling")
  /\ req' = [req EXCEPT ![c].at = "written"]
  /\ UNCHANGED <<pc, err, cause, waits, registry, home, hubVars, srvVars>>

(* cancel(ErrReactRunCancelled); the WebSocket loop then forwards the      *)
(* message to the run of its own connection, if it has one.                *)
CancelSignal(c) ==
  LET r == req[c].run  o == Outer(r) IN
  /\ req[c].at = "written"
  /\ CancelContext(r, "cancelled")
  /\ req' = [req EXCEPT ![c].at = "signalled"]
  /\ \/ OtherTabs /\ UNCHANGED cancelMsg
     \/ cancelMsg' = IF pc[o] \in Live /\ o \notin gone THEN cancelMsg \cup {o}
                     ELSE cancelMsg
  /\ UNCHANGED <<runVars, gone, told, left, full, dead, stuck, missed, srvVars>>

(* The open waits of a tree, and whether some other wait will keep what is *)
(* sent to it now in its channel: it has returned, or will, with what it   *)
(* has got already.                                                        *)
OpenWaits(o) == {r \in Tree(o) \ told : pc[r] = "waiting"}
SomeKeep(o) == o \in left \/ Tree(o) \cap told # {}
(* The pump runs from the first wait on, until it ends or blocks.          *)
Pumping(o) == o \notin dead \cup stuck /\ (SomeKeep(o) \/ OpenWaits(o) # {})

(* It hands a cancel to every wait it finds registered; a run that waits   *)
(* later is not told. At a full channel it stops for ever, with any part   *)
(* of the waits served.                                                    *)
PumpCancel(o) ==
  /\ o \in cancelMsg /\ Pumping(o)
  /\ cancelMsg' = cancelMsg \ {o}
  /\ \/ o \notin full /\ told' = told \cup OpenWaits(o) /\ stuck' = stuck
     \/ /\ o \in full /\ stuck' = stuck \cup {o}
        /\ \E ws \in SUBSET OpenWaits(o) : told' = told \cup ws
  /\ full' = IF SomeKeep(o) THEN full \cup {o} ELSE full
  /\ UNCHANGED <<runVars, cause, gone, left, dead, missed, req, srvVars>>

(* A second answer goes to the wait that has returned with the first.      *)
PumpAnswerAgain(o) ==
  /\ AnswersAgain /\ Pumping(o) /\ SomeKeep(o)
  /\ \/ full' = full \cup {o} /\ stuck' = stuck
     \/ o \in full /\ stuck' = stuck \cup {o} /\ full' = full
  /\ UNCHANGED <<runVars, cause, gone, cancelMsg, told, left, dead, missed, req, srvVars>>

(* The end of the messages: deadErr is set first, then the error goes to   *)
(* every wait, unless the pump stops at a full channel before.             *)
PumpError(o) ==
  /\ o \in gone \ cancelMsg /\ Pumping(o)
  /\ dead' = dead \cup {o}
  /\ \/ o \notin full /\ UNCHANGED <<stuck, missed>>
     \/ /\ o \in full /\ stuck' = stuck \cup {o}
        /\ \E ws \in SUBSET OpenWaits(o) : missed' = missed \cup ws
  /\ UNCHANGED <<runVars, cause, gone, cancelMsg, told, left, full, req, srvVars>>

Pump(o) == PumpCancel(o) \/ PumpError(o)

-----------------------------------------------------------------------------
(* The processes                                                           *)

(* Everything the process had in memory is lost.                           *)
LoseMemory(s) ==
  LET lost == {r \in Runs : home[r] = s /\ pc[r] \in Live}
      here == {r \in Runs : home[r] = s}
      Gone(f, zero) == [r \in Runs |-> IF r \in here THEN zero ELSE f[r]]
  IN
  /\ server' = [server EXCEPT ![s] = "down"]
  /\ pc' = [r \in Runs |-> IF r \in lost THEN "lost" ELSE pc[r]]
  /\ err' = Gone(err, "none") /\ cause' = Gone(cause, "none") /\ waits' = Gone(waits, 0)
  /\ registry' = registry \ here
  /\ ForgetHub(here)
  /\ req' = [c \in Cancellers |->
               IF req[c].at \in {"read", "found", "written"} /\ home[req[c].run] = s
               THEN [req[c] EXCEPT !.at = "refused"] ELSE req[c]]

Crash(s) ==
  /\ Crashes /\ server[s] # "down" /\ stops < MaxStops
  /\ LoseMemory(s)
  /\ stops' = stops + 1 /\ snap' = [snap EXCEPT ![s] = {}]
  /\ UNCHANGED <<row, aged, home, gone>>

(* The shutdown hook reads the registry...                                 *)
ShutdownRead(s) ==
  /\ Graceful /\ server[s] = "up" /\ stops < MaxStops
  /\ server' = [server EXCEPT ![s] = "hook"]
  /\ snap' = [snap EXCEPT ![s] = {r \in registry : home[r] = s}]
  /\ stops' = stops + 1
  /\ UNCHANGED <<runVars, cause, hubVars, req>>

(* A set of rows expires, those that are active only.                      *)
Expire(rs) ==
  LET hit == {r \in rs : row[r] \in Active} IN
  /\ row' = [r \in Runs |-> IF r \in hit THEN "expired" ELSE row[r]]
  /\ aged' = [r \in Runs |-> aged[r] /\ r \notin hit]

(* ...and expires what it has read.                                        *)
ShutdownExpire(s) ==
  /\ server[s] = "hook"
  /\ Expire(snap[s])
  /\ server' = [server EXCEPT ![s] = "stopping"]
  /\ UNCHANGED <<pc, err, cause, waits, registry, home, hubVars, req, snap, stops>>

(* http.Server.Shutdown does not wait for WebSocket connections.           *)
Exit(s) ==
  /\ server[s] = "stopping"
  /\ LoseMemory(s)
  /\ UNCHANGED <<row, aged, home, gone, snap, stops>>

(* httpServer: the rows not written for 30 minutes expire, then it serves. *)
Restart(s) ==
  /\ server[s] = "down"
  /\ Expire({r \in Runs : aged[r]})
  /\ server' = [server EXCEPT ![s] = "up"]
  /\ snap' = [snap EXCEPT ![s] = {}]
  /\ UNCHANGED <<pc, err, cause, waits, registry, home, hubVars, req, stops>>

(* 30 minutes pass without a write: for a row nobody executes, or a run    *)
(* that waits, or whose sub run waits, for the user. A run at work writes  *)
(* its row in every step.                                                  *)
Age(r) ==
  /\ row[r] \in Active /\ ~aged[r]
  /\ \/ pc[r] \in {"lost", "orphan", "done"}
     \/ LongWaits /\ \E d \in SelfAndBelow(r) : pc[d] = "waiting"
  /\ aged' = [aged EXCEPT ![r] = TRUE]
  /\ UNCHANGED <<row, pc, err, cause, waits, registry, home, hubVars, req, srvVars>>

-----------------------------------------------------------------------------
Loop(r) ==
  \/ Register(r) \/ Interrupted(r) \/ Break(r) \/ WaitUser(r)
  \/ WaitCancelled(r) \/ WaitDisconnected(r) \/ Finish(r) \/ FinishUnsent(r)
  \/ LoopError(r) \/ Return(r)

CancelStep(c) == CancelLookup(c) \/ CancelWrite(c) \/ CancelSignal(c)

Next ==
  \/ \E r \in Runs, s \in Servers : StartRun(r, s)
  \/ \E r \in Runs : Delegate(r) \/ Loop(r) \/ WaitAnswered(r) \/ Age(r)
  \/ \E o \in Runs : Disconnect(o) \/ Pump(o) \/ PumpAnswerAgain(o)
  \/ \E c \in Cancellers, r \in Runs : CancelRead(c, r)
  \/ \E c \in Cancellers : CancelStep(c)
  \/ \E s \in Servers : Crash(s) \/ ShutdownRead(s) \/ ShutdownExpire(s)
                        \/ Exit(s) \/ Restart(s)

(* Every goroutine that can run does. The user owes nothing.               *)
Fairness ==
  /\ \A r \in Runs : WF_vars(Loop(r))
  /\ \A o \in {r \in Runs : IsOuter(r)} : WF_vars(Pump(o))

Spec == Init /\ [][Next]_vars /\ Fairness

(* The same where a Cancel call also goes on, a server that has begun to   *)
(* stop does, and one that is down is started again.                       *)
ServedSpec ==
  /\ Spec
  /\ \A c \in Cancellers : WF_vars(CancelStep(c))
  /\ \A s \in Servers : WF_vars(ShutdownExpire(s) \/ Exit(s) \/ Restart(s))

-----------------------------------------------------------------------------
(* Properties                                                              *)

(* The types of the rows, goroutines, contexts and requests.               *)
TypeOK ==
  /\ row \in [Runs -> Active \cup Terminal \cup {"none"}]
  /\ aged \in [Runs -> BOOLEAN]
  /\ pc \in [Runs -> Live \cup {"off", "orphan", "done", "lost"}]
  /\ err \in [Runs -> {"none", "cancelled", "disconnected", "other"}]
  /\ cause \in [Runs -> {"none", "cancelled", "disconnected"}]
  /\ waits \in [Runs -> 0..MaxWaits]
  /\ registry \subseteq Runs /\ home \in [Runs -> Servers \cup {NoServer}]
  /\ gone \subseteq Runs /\ cancelMsg \subseteq Runs /\ told \subseteq Runs
  /\ left \subseteq Runs /\ full \subseteq Runs /\ dead \subseteq Runs
  /\ stuck \subseteq Runs /\ missed \subseteq Runs
  /\ req \in [Cancellers ->
                [at : {"idle"}, run : {NoRun}]
                  \cup [at : {"read", "found", "written", "signalled", "refused"},
                        run : Runs]]
  /\ server \in [Servers -> {"up", "hook", "stopping", "down"}]
  /\ snap \in [Servers -> SUBSET Runs] /\ stops \in 0..MaxStops

(* The goroutine of a run is between the creation of its row and the write *)
(* of its outcome.                                                         *)
Executing(r) == pc[r] \in {"created"} \cup InLoop

(* "Only one run of a session is active at a time" (architecture.md:110):  *)
(* two runs that execute at once belong to one outer run. It holds across  *)
(* cancels that race with the end of a run, disconnections, and the death  *)
(* and return of servers, because an executing run keeps its row active.   *)
OneRunPerSession ==
  \A q, r \in Runs : Executing(q) /\ Executing(r) => Outer(q) = Outer(r)

(* A goroutine that has returned has settled its row: whatever the order   *)
(* of its own writes and those of waits and cancels, the row is left       *)
(* neither running nor waiting, and cancelling only behind the late write  *)
(* of a Cancel that had found the run in the registry.                     *)
EndedRunIsSettled ==
  \A r \in Runs :
    pc[r] \in {"ended", "done"} =>
      \/ row[r] \in Terminal
      \/ row[r] = "cancelling"
         /\ \E c \in Cancellers : req[c].run = r /\ req[c].at \in {"written", "signalled", "refused"}

(* A user has cancelled a run of o's tree.                                 *)
Cancelled(o) == \E c \in Cancellers : req[c].at = "signalled" /\ Outer(req[c].run) = o

(* An outer run is recorded as cancelled only if a user has cancelled a    *)
(* run of its tree: a lost connection, a failed sub run or a dead server   *)
(* is never put down to the user (run). For a sub run the connection of    *)
(* its tree may be lost instead (finalizeSubAgentRunError), see            *)
(* CancelledByAUser; nothing else counts as a cancel.                      *)
CancelledForAReason ==
  \A r \in Runs :
    row[r] = "cancelled" =>
      Cancelled(Outer(r)) \/ (~IsOuter(r) /\ Outer(r) \in gone)

(* An open wait that the blocked pump of its tree never reaches.           *)
Abandoned(r) ==
  /\ pc[r] = "waiting" /\ r \notin told /\ Outer(r) \in stuck
  /\ Outer(r) \in dead => r \in missed

(* When the connection of an outer run drops, every goroutine of its tree  *)
(* ends, those that wait for the user included, whatever cancels and       *)
(* shutdowns race with it (run, executeDelegateAgent, wait). The exception *)
(* is said: the pump has blocked before at the full channel of a wait that *)
(* has returned, and the run, or a sub run it is waiting for, stands in a  *)
(* wait that the pump will not reach. Nothing else holds a run back.       *)
DisconnectEndsTree ==
  \A r \in Runs :
    (Outer(r) \in gone /\ pc[r] \in Live)
      ~> pc[r] \notin Live \/ \E d \in SelfAndBelow(r) : Abandoned(d)

(* "Only the former" - the user's cancel - "counts as cancelled, a lost    *)
(* connection is an error" (runtime_support.go:77), sub runs included.     *)
CancelledByAUser == \A r \in Runs : row[r] = "cancelled" => Cancelled(Outer(r))

(* "The run has ended and cannot be cancelled" (runtime.go:748), and the   *)
(* state machine of architecture.md:175: an outcome is final.              *)
OutcomeIsFinal ==
  [][\A r \in Runs : row[r] \in Terminal => row'[r] = row[r]]_vars

(* "The final cancelled event is sent once the run has converged"          *)
(* (runtime.go:730): a cancel that was accepted ends its run.              *)
CancelConverges ==
  \A r \in Runs :
    (\E c \in Cancellers : req[c] = [at |-> "signalled", run |-> r]) ~> pc[r] \notin Live

(* "Sub runs take no part in the check for concurrent runs of a session"   *)
(* (react_run.go:215): a session without an outer run accepts a new one.   *)
SubRunsDoNotBlock ==
  (\A r \in Runs : IsOuter(r) => row[r] \in Terminal \cup {"none"}) => ~HasActiveReactRun

(* "Left-over runs would block the messages of their session for ever"     *)
(* (main.go:62, react_run.go:149): what a dead process leaves is expired.  *)
LostRunsExpire ==
  \A r \in Runs : pc[r] = "lost" ~> row[r] \in Terminal

(* "When the process exits its active runs are set to expired"             *)
(* (deployment.md:139).                                                    *)
ShutdownExpiresRuns ==
  \A s \in Servers :
    server[s] = "down" => \A r \in Runs : home[r] = s => row[r] \notin Active
=============================================================================
