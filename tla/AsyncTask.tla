------------------------------- MODULE AsyncTask -------------------------------
(***************************************************************************)
(* Asynchronous tasks: a tool hands a job to an external scheduler and     *)
(* returns; the service keeps a row per tool use                           *)
(* (models/llm/react_async_task.go), and follows the job by its events and *)
(* by polling from several servers (react_async_task_sync.go,              *)
(* service/asynctask).                                                     *)
(*                                                                         *)
(* External: the scheduler, whose job goes through numbered versions and   *)
(* ends with the last one; its events, which are lost, repeated and        *)
(* reordered; the provider's loop, which claims a row, asks the scheduler, *)
(* and reports through ProviderRuntime.                                    *)
(*                                                                         *)
(* Time is counted in ticks, Second of them to the second the database     *)
(* rounds to. At MaxTime the clock is past every deadline.                 *)
(***************************************************************************)
EXTENDS Integers, FiniteSets

CONSTANTS
  Tasks,         \* tool uses that submit a job
  NoTask,
  Keys,          \* jobs of the scheduler (task_key)
  Key,           \* Key[t]: the job that the tool use submits
  Outcome,       \* Outcome[k]: how the job ends
  Servers,       \* processes that poll
  NoServer,
  LastVersion,   \* the version with which a job has ended
  Numbered,      \* the scheduler numbers its events
  Second, Lease, Stale, Backoff, TTL,
  MaxTime,       \* bound on the clock
  MaxFaults      \* bound: crashes of servers, polls and inserts that fail

ASSUME AsyncTaskAssumption ==
  /\ Key \in [Tasks -> Keys] /\ Outcome \in [Keys -> {"succeeded", "failed"}]
  /\ NoTask \notin Tasks /\ NoServer \notin Servers /\ Numbered \in BOOLEAN
  /\ LastVersion \in Nat \ {0} /\ Second \in Nat \ {0}
  /\ {Lease, Stale, Backoff, TTL, MaxTime, MaxFaults} \subseteq Nat
  /\ MaxTime % Second = 0

VARIABLES
  now,
  job,        \* job[k]: version of the job, 0 before it is submitted
  events,     \* the events the scheduler has sent
  submitted,  \* tools that have run, whose row is not written yet
  row,        \* row[t]: the row of the task
  poll,       \* poll[s]: the claimed row and the answer of the scheduler
  faults

vars == <<now, job, events, submitted, row, poll, faults>>
world == <<now, job, events>>

Unset == -1
Terminal == {"succeeded", "failed"}
StatusOf(k, version) == IF version = LastVersion THEN Outcome[k] ELSE "processing"

(* A DATETIME column keeps whole seconds; MySQL rounds to the nearest.     *)
Stored(time) == Second * ((time + (Second \div 2)) \div Second)
Reached(time) == time <= now \/ now = MaxTime
Past(time) == time < now \/ now = MaxTime

NoRow == [state |-> "none", exec |-> "none", seq |-> 0, event |-> 0, obs |-> Unset,
          sync |-> Unset, owner |-> NoServer, until |-> Unset, expire |-> Unset]
Idle == [task |-> NoTask, version |-> 0, at |-> Unset]

Init ==
  /\ now = 0 /\ job = [k \in Keys |-> 0] /\ events = {} /\ submitted = {}
  /\ row = [t \in Tasks |-> NoRow] /\ poll = [s \in Servers |-> Idle] /\ faults = 0

Fault == faults < MaxFaults /\ faults' = faults + 1

-----------------------------------------------------------------------------
(* The world: the clock and the scheduler                                  *)

Tick ==
  /\ now < MaxTime /\ now' = now + 1
  /\ UNCHANGED <<job, events, submitted, row, poll, faults>>

(* The job goes on; the scheduler tells so by an event.                    *)
JobAdvances(k) ==
  /\ job[k] \in 1..(LastVersion - 1)
  /\ job' = [job EXCEPT ![k] = @ + 1]
  /\ events' = events \cup {[key |-> k, version |-> job[k] + 1, at |-> now]}
  /\ UNCHANGED <<now, submitted, row, poll, faults>>

-----------------------------------------------------------------------------
(* The row of a run                                                        *)

(* The tool has run: the scheduler has the job, or has had it already.     *)
Submit(t) ==
  /\ row[t] = NoRow /\ t \notin submitted
  /\ submitted' = submitted \cup {t}
  /\ job' = [job EXCEPT ![Key[t]] = IF @ = 0 THEN 1 ELSE @]
  /\ UNCHANGED <<now, events, row, poll, faults>>

(* recordAsyncSubmit: a task that no provider identifies is recorded for   *)
(* the model alone.                                                        *)
NewRow(managed) ==
  [NoRow EXCEPT !.state = "pending", !.expire = Stored(now + TTL),
                !.exec = IF managed THEN "processing" ELSE "unmanaged",
                !.sync = IF managed THEN Stored(now) ELSE Unset]

Insert(t, managed) ==
  /\ t \in submitted /\ submitted' = submitted \ {t}
  /\ row' = [row EXCEPT ![t] = NewRow(managed)]
  /\ UNCHANGED <<world, poll, faults>>

(* The insert fails, or the process dies before it: the task has no row.   *)
InsertFails(t) ==
  /\ t \in submitted /\ submitted' = submitted \ {t} /\ Fault
  /\ UNCHANGED <<world, row, poll>>

(* ResolveReactAsyncTask changes a pending row only.                       *)
Resolve(t) ==
  /\ row[t].state = "pending"
  /\ row' = [row EXCEPT ![t].state = "resolved"]
  /\ UNCHANGED <<world, submitted, poll, faults>>

Overdue(r) == r.state = "pending" /\ r.expire <= now
(* ExpireReactAsyncTasks, before the rows of a session are read.           *)
Expire ==
  /\ \E t \in Tasks : Overdue(row[t])
  /\ row' = [t \in Tasks |-> IF Overdue(row[t]) THEN [row[t] EXCEPT !.state = "expired"]
                             ELSE row[t]]
  /\ UNCHANGED <<world, submitted, poll, faults>>

-----------------------------------------------------------------------------
(* Observations (ApplyReactAsyncTaskObservation)                           *)

(* Mutant of Eligible: any row of the job.                                 *)
EligibleAny(r, status) == r.exec \in {"processing"} \cup Terminal
Eligible(r, status) ==
  r.exec = "processing" \/ (status \in Terminal /\ r.exec = status)

(* The row has seen this event, or a later one, or was observed later.     *)
Outdated(r, event, seq, at) ==
  \/ event # 0 /\ r.event = event
  \/ seq > 0 /\ r.seq > 0 /\ seq <= r.seq
  \/ r.obs # Unset /\ at < r.obs

Observed(r, status, event, seq, at) ==
  [r EXCEPT !.exec = status, !.obs = Stored(at), !.owner = NoServer, !.until = Unset,
            !.event = IF event # 0 THEN event ELSE @,
            !.seq = IF seq > 0 THEN seq ELSE @,
            !.sync = IF status \in Terminal THEN Unset ELSE @]

(* One transaction over the locked rows of the job. An observation that    *)
(* finds no row changes nothing.                                           *)
ApplyObservation(k, status, event, seq, at) ==
  row' = [t \in Tasks |->
            IF /\ Key[t] = k /\ Eligible(row[t], status)
               /\ ~Outdated(row[t], event, seq, at)
            THEN Observed(row[t], status, event, seq, at) ELSE row[t]]

(* EmitObservation of an event: it arrives any number of times, in any     *)
(* order, or never.                                                        *)
EventArrives(e) ==
  /\ ApplyObservation(e.key, StatusOf(e.key, e.version), e.version,
                      IF Numbered THEN e.version ELSE 0, e.at)
  /\ UNCHANGED <<world, submitted, poll, faults>>

-----------------------------------------------------------------------------
(* Polling by the servers                                                  *)

(* Mutant of Claimable: a lease is not over when its holder is dead.       *)
ClaimableOnce(r) ==
  /\ r.exec = "processing" /\ Reached(r.sync)
  /\ r.until = Unset /\ (r.obs <= now - Stale \/ now = MaxTime)
Claimable(r) ==
  /\ r.exec = "processing" /\ Reached(r.sync)
  /\ r.until = Unset \/ Past(r.until)
  /\ r.obs = Unset \/ r.obs <= now - Stale \/ now = MaxTime

(* ClaimReactAsyncTasks: rows are locked, or skipped, so that the check    *)
(* and the lease are one step.                                             *)
Claim(s, t) ==
  /\ poll[s] = Idle /\ Claimable(row[t])
  /\ row' = [row EXCEPT ![t].owner = s, ![t].until = Stored(now + Lease)]
  /\ poll' = [poll EXCEPT ![s] = [task |-> t, version |-> 0, at |-> Unset]]
  /\ UNCHANGED <<world, submitted, faults>>

Polling(s) == poll[s].task \in Tasks
Asked(s) == Polling(s) /\ poll[s].version > 0
Forget(s) == poll' = [poll EXCEPT ![s] = Idle]

Ask(s) ==
  /\ Polling(s) /\ ~Asked(s)
  /\ poll' = [poll EXCEPT ![s].version = job[Key[poll[s].task]], ![s].at = now]
  /\ UNCHANGED <<world, submitted, row, faults>>

(* The time of the answer is the provider's, or by default that of the     *)
(* report.                                                                 *)
Report(s) ==
  /\ Asked(s) /\ Forget(s)
  /\ LET k == Key[poll[s].task] IN
     \E at \in {poll[s].at, now} :
       ApplyObservation(k, StatusOf(k, poll[s].version), 0, 0, at)
  /\ UNCHANGED <<world, submitted, faults>>

(* Mutant of GiveBack: the holder of the lease is not compared.            *)
GiveBackAny(s) ==
  row' = [row EXCEPT ![poll[s].task].sync = Stored(now + Backoff),
                     ![poll[s].task].owner = NoServer, ![poll[s].task].until = Unset]
(* ScheduleReactAsyncTaskRetry and ReleaseReactAsyncTaskLease: only the    *)
(* holder of the lease changes the row.                                    *)
GiveBack(s) ==
  LET t == poll[s].task IN
  row' = IF row[t].owner = s
         THEN [row EXCEPT ![t].sync = Stored(now + Backoff), ![t].owner = NoServer,
                          ![t].until = Unset]
         ELSE row

(* The scheduler does not answer, or its answer says nothing.              *)
Retry(s) ==
  /\ Polling(s) /\ Fault /\ GiveBack(s) /\ Forget(s)
  /\ UNCHANGED <<world, submitted>>

(* A server dies with the rows it has claimed; the next one polls again.   *)
ServerCrash(s) ==
  /\ Polling(s) /\ Fault /\ Forget(s)
  /\ UNCHANGED <<world, submitted, row>>

-----------------------------------------------------------------------------
Poll(s) == (\E t \in Tasks : Claim(s, t)) \/ Ask(s) \/ Report(s)

Run(t) ==
  \/ Submit(t) \/ InsertFails(t) \/ Resolve(t)
  \/ \E managed \in BOOLEAN : Insert(t, managed)

Next ==
  \/ Tick
  \/ \E k \in Keys : JobAdvances(k)
  \/ \E e \in events : EventArrives(e)
  \/ \E s \in Servers : Poll(s) \/ Retry(s) \/ ServerCrash(s)
  \/ \E t \in Tasks : Run(t)
  \/ Expire

(* Time passes, and the providers keep polling. No event need arrive.      *)
Fairness == WF_vars(Tick) /\ \A s \in Servers : WF_vars(Poll(s))

Spec == Init /\ [][Next]_vars /\ Fairness

-----------------------------------------------------------------------------
(* Properties                                                              *)

Times == {Unset} \cup Nat
RowType ==
  [state : {"none", "pending", "resolved", "expired"},
   exec : {"none", "unmanaged", "processing"} \cup Terminal,
   seq : Nat, event : Nat, obs : Times, sync : Times,
   owner : Servers \cup {NoServer}, until : Times, expire : Times]

(* The types of the variables; an answer has a time.                       *)
TypeOK ==
  /\ now \in Nat /\ job \in [Keys -> 0..LastVersion]
  /\ events \subseteq [key : Keys, version : 1..LastVersion, at : Nat]
  /\ submitted \subseteq Tasks /\ row \in [Tasks -> RowType]
  /\ poll \in [Servers -> [task : Tasks \cup {NoTask}, version : 0..LastVersion, at : Times]]
  /\ \A s \in Servers : poll[s].version > 0 => poll[s].at # Unset
  /\ faults \in Nat

(* The rows keep the promise of TaskRegister although events are repeated  *)
(* and reordered, answers of polls are old when they are reported, and     *)
(* several servers report at once.                                         *)
Register == INSTANCE TaskRegister WITH
  exec <- [t \in Tasks |-> row[t].exec], state <- [t \in Tasks |-> row[t].state]
KeepsRegister == Register!RegisterSpec

(* The row of a numbered scheduler never takes an older event for news     *)
(* (react_async_task_sync.go:114), whoever observed the job in between.    *)
SequenceOnlyGrows ==
  [][Numbered => \A t \in Tasks :
       row[t].seq <= row'[t].seq /\ row[t].event <= row'[t].event]_row

(* While a server holds the lease of a row, nobody else puts off its next  *)
(* poll: a server that has lost the lease, and reports a failed poll late, *)
(* leaves the row to the next holder (lease_owner in ScheduleRetry,        *)
(* ReleaseLease). The end of the job drops the next poll.                  *)
LeaseIsTheHolders ==
  [][\A t \in Tasks :
       row[t].owner # NoServer /\ row'[t].sync # row[t].sync =>
         \/ row'[t].exec \in Terminal
         \/ poll[row[t].owner].task = t /\ poll'[row[t].owner] = Idle]_<<row, poll>>

(* A job that has ended is known to have ended, whatever is lost: polling  *)
(* repairs events that never arrived, arrived before the row, or were      *)
(* dropped as outdated, and deaths of servers that held the lease.         *)
EndIsNoticed ==
  \A t \in Tasks :
    row[t].exec = "processing" /\ job[Key[t]] = LastVersion ~> row[t].exec = Outcome[Key[t]]

(* "Applies an observation to the running rows of the job"                 *)
(* (react_async_task_sync.go:92): the event that the job has ended is news *)
(* to every row that still says that it runs.                              *)
EndIsNews ==
  \A e \in events, t \in Tasks :
    e.version = LastVersion /\ Key[t] = e.key /\ row[t].exec = "processing" =>
      ~Outdated(row[t], e.version, IF Numbered THEN e.version ELSE 0, e.at)
=============================================================================
