--------------------------- MODULE AsyncTaskProofs ---------------------------
(***************************************************************************)
(* Proofs about AsyncTask, for any tasks, jobs, servers, versions and      *)
(* times, whether the scheduler numbers its events or not.                 *)
(***************************************************************************)
EXTENDS AsyncTask, TLAPS

-----------------------------------------------------------------------------
(* Type correctness                                                        *)

(* What the database stores is a time.                                     *)
LEMMA StoredIsATime == \A time \in Nat : Stored(time) \in Nat
<1> SUFFICES ASSUME NEW time \in Nat PROVE Stored(time) \in Nat
  OBVIOUS
<1>1. Second \in Nat /\ Second > 0
  BY AsyncTaskAssumption
<1>2. PICK half \in Nat : half = Second \div 2
  BY <1>1
<1>3. \A n \in Nat : n \div Second \in Nat
  BY <1>1
<1>4. PICK n \in Nat : n = (time + half) \div Second
  BY <1>3
<1> QED
  BY <1>1, <1>2, <1>4 DEF Stored

LEMMA RowTypes == NoRow \in RowType /\ \A managed \in BOOLEAN : now \in Nat => NewRow(managed) \in RowType
<1>1. NoRow \in RowType
  BY AsyncTaskAssumption DEF NoRow, RowType, Times, Unset
<1>2. ASSUME NEW managed \in BOOLEAN, now \in Nat PROVE NewRow(managed) \in RowType
  <2>1. Stored(now + TTL) \in Times /\ Stored(now) \in Times /\ Unset \in Times
    BY <1>2, AsyncTaskAssumption, StoredIsATime DEF Times
  <2> QED
    BY <1>1, <2>1 DEF NewRow, RowType
<1> QED
  BY <1>1, <1>2

LEMMA RowUpdates ==
  ASSUME NEW r \in RowType, NEW time \in Times, NEW s \in Servers \cup {NoServer}
  PROVE  /\ [r EXCEPT !.sync = time] \in RowType
         /\ [r EXCEPT !.until = time] \in RowType
         /\ [r EXCEPT !.owner = s] \in RowType
BY DEF RowType

(* What an observation is: a job, its status, its version if the scheduler *)
(* told it, and a time.                                                    *)
LEMMA StatusType ==
  ASSUME NEW k \in Keys, NEW version PROVE StatusOf(k, version) \in {"processing"} \cup Terminal
BY AsyncTaskAssumption DEF StatusOf, Terminal

LEMMA ObservedType ==
  ASSUME NEW r \in RowType, NEW status \in {"processing"} \cup Terminal,
         NEW event \in Nat, NEW seq \in Nat, NEW at \in Nat
  PROVE  Observed(r, status, event, seq, at) \in RowType
<1>1. Stored(at) \in Times /\ Unset \in Times
  BY StoredIsATime DEF Times
<1>2. PICK obs \in Times : obs = Stored(at)
  BY <1>1
<1>3. PICK newEvent \in Nat : newEvent = IF event # 0 THEN event ELSE r.event
  BY DEF RowType
<1>4. PICK newSeq \in Nat : newSeq = IF seq > 0 THEN seq ELSE r.seq
  BY DEF RowType
<1>5. PICK sync \in Times : sync = IF status \in Terminal THEN Unset ELSE r.sync
  BY <1>1 DEF RowType
<1> DEFINE a == [r EXCEPT !.exec = status, !.obs = obs, !.owner = NoServer]
           b == [a EXCEPT !.until = Unset, !.event = newEvent]
<1>6. a \in RowType
  BY DEF RowType
<1>7. b \in RowType
  BY <1>1, <1>6 DEF RowType
<1>8. [b EXCEPT !.seq = newSeq, !.sync = sync] \in RowType
  BY <1>7 DEF RowType
<1> QED
  BY <1>2, <1>3, <1>4, <1>5, <1>8 DEF Observed

LEMMA ObservationType ==
  ASSUME row \in [Tasks -> RowType], NEW k, NEW status \in {"processing"} \cup Terminal,
         NEW event \in Nat, NEW seq \in Nat, NEW at \in Nat,
         ApplyObservation(k, status, event, seq, at)
  PROVE  row' \in [Tasks -> RowType]
<1>1. \A t \in Tasks : Observed(row[t], status, event, seq, at) \in RowType
  BY ObservedType
<1> QED
  BY <1>1 DEF ApplyObservation

LEMMA TypeInit == Init => TypeOK
<1> SUFFICES ASSUME Init PROVE TypeOK
  OBVIOUS
<1>1. Idle \in [task : Tasks \cup {NoTask}, version : 0..LastVersion, at : Times]
  BY AsyncTaskAssumption DEF Idle, Times
<1> QED
  BY <1>1, RowTypes, AsyncTaskAssumption DEF Init, TypeOK, Idle

(* The steps of the world and of the runs.                                 *)
LEMMA TypeOfRuns ==
  ASSUME TypeOK,
         Tick \/ Expire \/ (\E k \in Keys : JobAdvances(k)) \/ (\E t \in Tasks : Run(t))
  PROVE  TypeOK'
<1> USE AsyncTaskAssumption
<1>1. CASE Tick
  BY <1>1 DEF TypeOK, Tick
<1>2. ASSUME NEW k \in Keys, JobAdvances(k) PROVE TypeOK'
  <2>1. job[k] + 1 \in 1..LastVersion
    BY <1>2 DEF JobAdvances
  <2> QED
    BY <1>2, <2>1 DEF TypeOK, JobAdvances
<1>3. ASSUME NEW t \in Tasks, Submit(t) PROVE TypeOK'
  <2>1. Key[t] \in Keys /\ 1 \in 0..LastVersion
    OBVIOUS
  <2> QED
    BY <1>3, <2>1 DEF TypeOK, Submit
<1>4. ASSUME NEW t \in Tasks, NEW managed \in BOOLEAN, Insert(t, managed) PROVE TypeOK'
  <2>1. NewRow(managed) \in RowType
    BY RowTypes DEF TypeOK
  <2> QED
    BY <1>4, <2>1 DEF TypeOK, Insert, world
<1>5. ASSUME NEW t \in Tasks, InsertFails(t) PROVE TypeOK'
  BY <1>5 DEF TypeOK, InsertFails, Fault, world
<1>6. ASSUME NEW t \in Tasks, Resolve(t) PROVE TypeOK'
  <2>1. [row[t] EXCEPT !.state = "resolved"] \in RowType
    BY DEF TypeOK, RowType
  <2> QED
    BY <1>6, <2>1 DEF TypeOK, Resolve, world
<1>7. CASE Expire
  <2>1. \A t \in Tasks : [row[t] EXCEPT !.state = "expired"] \in RowType
    BY DEF TypeOK, RowType
  <2> QED
    BY <1>7, <2>1 DEF TypeOK, Expire, world
<1> QED
  BY <1>1, <1>2, <1>3, <1>4, <1>5, <1>6, <1>7 DEF Run

(* The steps by which rows are observed.                                   *)
LEMMA TypeOfObservers ==
  ASSUME TypeOK,
         \/ \E e \in events : EventArrives(e)
         \/ \E s \in Servers : Poll(s) \/ Retry(s) \/ ServerCrash(s)
  PROVE  TypeOK'
<1> USE AsyncTaskAssumption
<1> DEFINE PollType == [task : Tasks \cup {NoTask}, version : 0..LastVersion, at : Times]
<1>1. ASSUME NEW e \in events, EventArrives(e) PROVE TypeOK'
  <2>1. e.key \in Keys /\ e.version \in Nat /\ e.at \in Nat
    BY DEF TypeOK
  <2>2. PICK seq \in Nat : seq = IF Numbered THEN e.version ELSE 0
    BY <2>1
  <2>3. PICK status \in {"processing"} \cup Terminal : status = StatusOf(e.key, e.version)
    BY <2>1, StatusType
  <2>4. ApplyObservation(e.key, status, e.version, seq, e.at)
    BY <1>1, <2>2, <2>3 DEF EventArrives
  <2>5. row' \in [Tasks -> RowType]
    BY <2>1, <2>4, ObservationType DEF TypeOK
  <2> QED
    BY <1>1, <2>5 DEF TypeOK, EventArrives, world
<1>2. ASSUME NEW s \in Servers, NEW t \in Tasks, Claim(s, t) PROVE TypeOK'
  <2>1. Stored(now + Lease) \in Times
    BY StoredIsATime DEF TypeOK, Times
  <2>2. [row[t] EXCEPT !.owner = s, !.until = Stored(now + Lease)] \in RowType
    BY <2>1, RowUpdates DEF TypeOK
  <2>3. row' \in [Tasks -> RowType]
    BY <1>2, <2>2 DEF TypeOK, Claim
  <2>4. [task |-> t, version |-> 0, at |-> Unset] \in PollType
    BY DEF Times
  <2> QED
    BY <1>2, <2>3, <2>4 DEF TypeOK, Claim, world
<1>3. ASSUME NEW s \in Servers, Ask(s) PROVE TypeOK'
  <2>1. job[Key[poll[s].task]] \in 0..LastVersion /\ now \in Times
    BY <1>3 DEF TypeOK, Ask, Polling, Times
  <2>2. [poll[s] EXCEPT !.version = job[Key[poll[s].task]], !.at = now] \in PollType
    BY <2>1 DEF TypeOK
  <2>3. poll' \in [Servers -> PollType]
    BY <1>3, <2>2 DEF TypeOK, Ask
  <2>4. \A v \in Servers : poll'[v] = poll[v] \/ poll'[v].at = now
    BY <1>3 DEF TypeOK, Ask
  <2>5. now # Unset /\ poll' \in [Servers -> PollType]
    BY <2>3 DEF TypeOK, Unset
  <2>6. \A v \in Servers : poll'[v].version > 0 => poll'[v].at # Unset
    BY <2>4, <2>5 DEF TypeOK
  <2>7. UNCHANGED <<now, job, events, submitted, row, faults>>
    BY <1>3 DEF Ask, world
  <2> QED
    BY <2>3, <2>6, <2>7 DEF TypeOK, Unset
<1>4. ASSUME NEW s \in Servers, Forget(s)
      PROVE  /\ poll' \in [Servers -> PollType]
             /\ \A v \in Servers : poll'[v].version > 0 => poll'[v].at # Unset
  BY <1>4 DEF TypeOK, Forget, Idle, Times
<1>5. ASSUME NEW s \in Servers, Report(s) PROVE TypeOK'
  <2> DEFINE k == Key[poll[s].task]
  <2>1. k \in Keys /\ poll[s].at \in Nat /\ now \in Nat
    BY <1>5 DEF TypeOK, Report, Asked, Polling, Times
  <2>2. PICK at \in {poll[s].at, now} :
          ApplyObservation(k, StatusOf(k, poll[s].version), 0, 0, at)
    BY <1>5 DEF Report
  <2>3. PICK status \in {"processing"} \cup Terminal : status = StatusOf(k, poll[s].version)
    BY <2>1, StatusType
  <2>4. row' \in [Tasks -> RowType]
    <3>1. ApplyObservation(k, status, 0, 0, at) /\ at \in Nat
      BY <2>1, <2>2, <2>3
    <3>2. row \in [Tasks -> RowType]
      BY DEF TypeOK
    <3> HIDE DEF k
    <3> QED
      BY <2>1, <3>1, <3>2, ObservationType
  <2> QED
    BY <1>4, <1>5, <2>4 DEF TypeOK, Report, world
<1>6. ASSUME NEW s \in Servers, Retry(s) PROVE TypeOK'
  <2>1. Stored(now + Backoff) \in Times /\ Unset \in Times
    BY StoredIsATime DEF TypeOK, Times
  <2>2. [row[poll[s].task] EXCEPT !.sync = Stored(now + Backoff), !.owner = NoServer,
                                  !.until = Unset] \in RowType
    BY <1>6, <2>1, RowUpdates DEF TypeOK, Retry, Polling
  <2>3. row' \in [Tasks -> RowType]
    BY <1>6, <2>2 DEF TypeOK, Retry, GiveBack
  <2> QED
    BY <1>4, <1>6, <2>3 DEF TypeOK, Retry, Fault, world
<1>7. ASSUME NEW s \in Servers, ServerCrash(s) PROVE TypeOK'
  BY <1>4, <1>7 DEF TypeOK, ServerCrash, Fault, world
<1> QED
  BY <1>1, <1>2, <1>3, <1>5, <1>6, <1>7 DEF Poll

LEMMA TypeNext == TypeOK /\ [Next]_vars => TypeOK'
<1>1. TypeOK /\ UNCHANGED vars => TypeOK'
  BY DEF TypeOK, vars
<1> QED
  BY <1>1, TypeOfRuns, TypeOfObservers DEF Next

(* The types of the variables; rounding never leaves the times.            *)
THEOREM TypeCorrect == Spec => []TypeOK
<1> QED
  BY TypeInit, TypeNext, PTL DEF Spec

-----------------------------------------------------------------------------
(* What a step does to a row                                               *)

(* An observation leaves a row or takes its status, and never reopens it.  *)
Heeds(t, k, status, event, seq, at) ==
  /\ Key[t] = k /\ Eligible(row[t], status) /\ ~Outdated(row[t], event, seq, at)
  /\ row'[t].exec = status /\ row'[t].state = row[t].state
  /\ row'[t].event = IF event # 0 THEN event ELSE row[t].event
  /\ row'[t].seq = IF seq > 0 THEN seq ELSE row[t].seq
  /\ row'[t].sync = IF status \in Terminal THEN Unset ELSE row[t].sync

LEMMA ObservationEffect ==
  ASSUME TypeOK, NEW k, NEW status, NEW event \in Nat, NEW seq \in Nat, NEW at \in Nat,
         ApplyObservation(k, status, event, seq, at), NEW t \in Tasks
  PROVE  row'[t] = row[t] \/ Heeds(t, k, status, event, seq, at)
<1>1. row[t] \in RowType
  BY DEF TypeOK
<1>2. ASSUME NEW r \in RowType, NEW x, x = Observed(r, status, event, seq, at)
      PROVE  /\ x.exec = status /\ x.state = r.state
             /\ x.event = IF event # 0 THEN event ELSE r.event
             /\ x.seq = IF seq > 0 THEN seq ELSE r.seq
             /\ x.sync = IF status \in Terminal THEN Unset ELSE r.sync
  BY <1>2 DEF Observed, RowType
<1> QED
  BY <1>1, <1>2 DEF ApplyObservation, Heeds

(* The steps by kind: those that leave the rows alone, those of a run, the *)
(* observations, and those of a lease.                                     *)
Observes ==
  \/ \E e \in events : EventArrives(e)
  \/ \E s \in Servers : Report(s)
LeaseStep(s) == (\E t \in Tasks : Claim(s, t)) \/ Retry(s)
RunStep == Expire \/ \E t \in Tasks : Resolve(t) \/ \E managed \in BOOLEAN : Insert(t, managed)
Beside ==
  \/ Tick
  \/ \E k \in Keys : JobAdvances(k)
  \/ \E t \in Tasks : Submit(t) \/ InsertFails(t)
  \/ \E s \in Servers : Ask(s) \/ ServerCrash(s)

LEMMA NextSteps == Next => Beside \/ RunStep \/ Observes \/ \E s \in Servers : LeaseStep(s)
BY DEF Next, Run, Poll, Beside, RunStep, Observes, LeaseStep

LEMMA BesideEffect == Beside => row' = row
BY DEF Beside, Tick, JobAdvances, Submit, InsertFails, Ask, ServerCrash

-----------------------------------------------------------------------------
(* What is told of a job is true                                           *)

(* No event and no answer to a poll is ahead of the job.                   *)
Told ==
  /\ \A e \in events : e.version <= job[e.key]
  /\ \A s \in Servers : Polling(s) => poll[s].version <= job[Key[poll[s].task]]

LEMMA ToldInit == TypeOK /\ Init => Told
BY AsyncTaskAssumption DEF TypeOK, Init, Told, Polling, Idle

LEMMA ToldNext == TypeOK /\ Told /\ [Next]_vars => Told'
<1> SUFFICES ASSUME TypeOK, Told, [Next]_vars PROVE Told'
  OBVIOUS
<1> USE AsyncTaskAssumption DEF TypeOK, Told, Polling
<1>1. ASSUME job' = job, events' = events, poll' = poll PROVE Told'
  BY <1>1
<1>2. ASSUME job' = job, events' = events, NEW s \in Servers, Forget(s) PROVE Told'
  BY <1>2 DEF Forget, Idle
<1>3. ASSUME NEW k \in Keys, JobAdvances(k) PROVE Told'
  BY <1>3 DEF JobAdvances
<1>4. ASSUME NEW t \in Tasks, Submit(t) PROVE Told'
  BY <1>4 DEF Submit
<1>5. ASSUME NEW s \in Servers, NEW t \in Tasks, Claim(s, t) PROVE Told'
  BY <1>5 DEF Claim, world
<1>6. ASSUME NEW s \in Servers, Ask(s) PROVE Told'
  <2>1. job' = job /\ events' = events
    BY <1>6 DEF Ask, world
  <2>2. \A v \in Servers \ {s} : poll'[v] = poll[v]
    BY <1>6 DEF Ask
  <2>3. poll'[s].task = poll[s].task /\ poll'[s].version = job[Key[poll[s].task]]
    BY <1>6 DEF Ask
  <2>4. poll[s].task \in Tasks /\ job[Key[poll[s].task]] \in Nat
    BY <1>6 DEF Ask
  <2>5. ASSUME NEW v \in Servers, poll'[v].task \in Tasks
        PROVE  poll'[v].version <= job[Key[poll'[v].task]]
    <3>1. CASE v = s
      BY <2>3, <2>4, <3>1
    <3>2. CASE v # s
      BY <2>2, <2>5, <3>2
    <3> QED
      BY <3>1, <3>2
  <2> QED
    BY <2>1, <2>5
<1>7. CASE \E s \in Servers : Report(s) \/ Retry(s) \/ ServerCrash(s)
  BY <1>2, <1>7 DEF Report, Retry, ServerCrash, world
<1>8. CASE Tick \/ RunStep \/ (\E t \in Tasks : InsertFails(t)) \/ \E e \in events : EventArrives(e)
  BY <1>1, <1>8 DEF Tick, RunStep, Expire, Resolve, Insert, InsertFails, EventArrives, world
<1>9. CASE UNCHANGED vars
  BY <1>1, <1>9 DEF vars
<1> QED
  BY <1>3, <1>4, <1>5, <1>6, <1>7, <1>8, <1>9, NextSteps DEF Beside, Observes, LeaseStep

(* An observation is of a job, its status and a time; it says that the job *)
(* has ended when it has, and how.                                         *)
Observation(k, status, event, seq, at) ==
  /\ ApplyObservation(k, status, event, seq, at)
  /\ k \in Keys /\ status \in {"processing"} \cup Terminal
  /\ event \in Nat /\ seq \in Nat /\ at \in Nat
  /\ (event = 0 /\ seq = 0) \/ seq = IF Numbered THEN event ELSE 0
  /\ status \in Terminal => job[k] = LastVersion /\ status = Outcome[k]

LEMMA StatusIsTrue ==
  ASSUME TypeOK, NEW k \in Keys, NEW version \in 0..job[k]
  PROVE  LET status == StatusOf(k, version)
         IN  /\ status \in {"processing"} \cup Terminal
             /\ status \in Terminal => job[k] = LastVersion /\ status = Outcome[k]
BY AsyncTaskAssumption DEF TypeOK, StatusOf, Terminal

LEMMA ObservesEffect ==
  ASSUME TypeOK, Told, Observes
  PROVE  /\ \E k, status, event, seq, at : Observation(k, status, event, seq, at)
         /\ job' = job /\ events' = events /\ submitted' = submitted
<1>1. ASSUME NEW e \in events, EventArrives(e)
      PROVE  \E k, status, event, seq, at : Observation(k, status, event, seq, at)
  <2>1. e.key \in Keys /\ e.version \in 0..job[e.key] /\ e.at \in Nat
    BY DEF TypeOK, Told
  <2>2. PICK seq \in Nat : seq = IF Numbered THEN e.version ELSE 0
    BY <2>1
  <2>3. Observation(e.key, StatusOf(e.key, e.version), e.version, seq, e.at)
    BY <1>1, <2>1, <2>2, StatusIsTrue DEF EventArrives, Observation
  <2> QED
    BY <2>3
<1>2. ASSUME NEW s \in Servers, Report(s)
      PROVE  \E k, status, event, seq, at : Observation(k, status, event, seq, at)
  <2> DEFINE k == Key[poll[s].task]
  <2>1. k \in Keys /\ poll[s].version \in 0..job[k] /\ poll[s].at \in Nat /\ now \in Nat
    BY <1>2, AsyncTaskAssumption DEF TypeOK, Told, Report, Asked, Polling, Times
  <2>2. PICK at \in {poll[s].at, now} :
          ApplyObservation(k, StatusOf(k, poll[s].version), 0, 0, at)
    BY <1>2 DEF Report
  <2>3. Observation(k, StatusOf(k, poll[s].version), 0, 0, at)
    BY <2>1, <2>2, StatusIsTrue DEF Observation
  <2> QED
    BY <2>3
<1>3. job' = job /\ events' = events /\ submitted' = submitted
  BY DEF Observes, EventArrives, Report, world
<1> QED
  BY <1>1, <1>2, <1>3 DEF Observes

(* A lease changes a row that somebody polls, and no news in it.           *)
LEMMA LeaseEffect ==
  ASSUME TypeOK, NEW s \in Servers, LeaseStep(s), NEW t \in Tasks
  PROVE  \/ row'[t] = row[t]
         \/ /\ row[t].exec = "processing" \/ (row[t].owner = s /\ poll[s].task = t)
            /\ row'[t].exec = row[t].exec /\ row'[t].state = row[t].state
            /\ row'[t].event = row[t].event /\ row'[t].seq = row[t].seq
            /\ row'[t].sync = row[t].sync \/ (row[t].owner = s /\ poll[s].task = t)
<1>1. row[t] \in RowType
  BY DEF TypeOK
<1>2. ASSUME NEW u \in Tasks, Claim(s, u)
      PROVE  \/ row'[t] = row[t]
             \/ /\ row[t].exec = "processing" /\ row'[t].exec = row[t].exec
                /\ row'[t].state = row[t].state /\ row'[t].event = row[t].event
                /\ row'[t].seq = row[t].seq /\ row'[t].sync = row[t].sync
  <2>1. CASE t # u
    BY <1>2, <2>1 DEF TypeOK, Claim
  <2>2. CASE t = u
    <3>1. PICK time : row'[t] = [row[t] EXCEPT !.owner = s, !.until = time]
      BY <1>2, <2>2 DEF TypeOK, Claim
    <3>2. row[t].exec = "processing"
      BY <1>2, <2>2 DEF Claim, Claimable
    <3>3. PICK r \in RowType : r = row[t]
      BY <1>1
    <3>4. LET x == [r EXCEPT !.owner = s, !.until = time]
          IN  /\ x.exec = r.exec /\ x.state = r.state /\ x.event = r.event
              /\ x.seq = r.seq /\ x.sync = r.sync
      BY DEF RowType
    <3> QED
      BY <3>1, <3>2, <3>3, <3>4
  <2> QED
    BY <2>1, <2>2
<1>3. ASSUME Retry(s)
      PROVE  \/ row'[t] = row[t]
             \/ /\ row[t].owner = s /\ poll[s].task = t /\ row'[t].exec = row[t].exec
                /\ row'[t].state = row[t].state /\ row'[t].event = row[t].event
                /\ row'[t].seq = row[t].seq
  BY <1>1, <1>3 DEF TypeOK, Retry, GiveBack, Polling, RowType
<1> QED
  BY <1>2, <1>3 DEF LeaseStep

-----------------------------------------------------------------------------
(* The next poll belongs to the holder of the lease                        *)

(* A tool that has just run has no row.                                    *)
Fresh == \A t \in submitted : row[t] = NoRow

LEMMA FreshNext == TypeOK /\ Told /\ Fresh /\ [Next]_vars => Fresh'
<1> SUFFICES ASSUME TypeOK, Told, Fresh, [Next]_vars PROVE Fresh'
  OBVIOUS
<1> USE DEF Fresh
<1>1. CASE Beside
  <2>1. ASSUME NEW t \in submitted', t \notin submitted PROVE row[t] = NoRow
    BY <1>1, <2>1 DEF Beside, Tick, JobAdvances, Submit, InsertFails, Ask, ServerCrash, world
  <2> QED
    BY <1>1, <2>1, BesideEffect
<1>2. CASE RunStep
  <2>1. ASSUME NEW t \in Tasks, Resolve(t) PROVE Fresh'
    BY <2>1 DEF TypeOK, Resolve, NoRow
  <2>2. ASSUME NEW t \in Tasks, NEW managed, Insert(t, managed) PROVE Fresh'
    BY <2>2 DEF TypeOK, Insert
  <2>3. CASE Expire
    BY <2>3 DEF TypeOK, Expire, Overdue, NoRow
  <2> QED
    BY <1>2, <2>1, <2>2, <2>3 DEF RunStep
<1>3. CASE Observes
  <2>1. PICK k, status, event, seq, at : Observation(k, status, event, seq, at)
    BY <1>3, ObservesEffect
  <2>2. \A t \in Tasks : Eligible(row[t], status) => row[t] # NoRow
    BY <2>1 DEF Eligible, NoRow, Terminal
  <2>3. \A t \in Tasks : row'[t] = row[t] \/ Heeds(t, k, status, event, seq, at)
    BY <2>1, ObservationEffect DEF Observation
  <2> QED
    BY <1>3, <2>2, <2>3, ObservesEffect DEF Heeds, TypeOK
<1>4. ASSUME NEW s \in Servers, LeaseStep(s) PROVE Fresh'
  <2>1. submitted' = submitted
    BY <1>4 DEF LeaseStep, Claim, Retry
  <2>2. NoRow.exec # "processing" /\ NoRow.owner # s
    BY AsyncTaskAssumption DEF NoRow
  <2> QED
    BY <1>4, <2>1, <2>2, LeaseEffect DEF TypeOK
<1>5. CASE UNCHANGED vars
  BY <1>5 DEF vars
<1> QED
  BY <1>1, <1>2, <1>3, <1>4, <1>5, NextSteps

LEMMA FreshInit == Init => Fresh
BY DEF Init, Fresh

LEMMA HolderStep ==
  ASSUME TypeOK, Told, Fresh, [Next]_vars, NEW t \in Tasks, row[t].owner # NoServer,
         row'[t].sync # row[t].sync
  PROVE  \/ row'[t].exec \in Terminal
         \/ poll[row[t].owner].task = t /\ poll'[row[t].owner] = Idle
<1>1. CASE Beside
  BY <1>1, BesideEffect
<1>2. CASE RunStep
  <2>1. row[t] \in RowType /\ row[t] # NoRow
    BY DEF TypeOK, NoRow
  <2>2. row'[t].sync = row[t].sync
    <3>1. ASSUME NEW u \in Tasks, NEW managed, Insert(u, managed) PROVE row'[t] = row[t]
      BY <2>1, <3>1 DEF Insert, Fresh, TypeOK
    <3>2. ASSUME NEW u \in Tasks, Resolve(u) PROVE row'[t].sync = row[t].sync
      BY <2>1, <3>2 DEF Resolve, RowType, TypeOK
    <3>3. CASE Expire
      BY <2>1, <3>3 DEF Expire, RowType, TypeOK
    <3> QED
      BY <1>2, <3>1, <3>2, <3>3 DEF RunStep
  <2> QED
    BY <2>2
<1>3. CASE Observes
  <2>1. PICK k, status, event, seq, at : Observation(k, status, event, seq, at)
    BY <1>3, ObservesEffect
  <2>2. row'[t] = row[t] \/ Heeds(t, k, status, event, seq, at)
    BY <2>1, ObservationEffect DEF Observation
  <2> QED
    BY <2>2 DEF Heeds
<1>4. ASSUME NEW s \in Servers, LeaseStep(s)
      PROVE  poll[row[t].owner].task = t /\ poll'[row[t].owner] = Idle
  <2>1. row[t].owner = s /\ poll[s].task = t
    BY <1>4, LeaseEffect
  <2>2. CASE Retry(s)
    BY <2>1, <2>2 DEF Retry, Forget, TypeOK
  <2>3. ASSUME NEW u \in Tasks, Claim(s, u) PROVE FALSE
    BY <2>1, <2>3, AsyncTaskAssumption DEF Claim, Idle
  <2> QED
    BY <1>4, <2>1, <2>2, <2>3 DEF LeaseStep
<1>5. CASE UNCHANGED vars
  BY <1>5 DEF vars
<1> QED
  BY <1>1, <1>2, <1>3, <1>4, <1>5, NextSteps

-----------------------------------------------------------------------------
(* What the rows say of the job                                            *)

(* A row says that the job has ended only when it has, and how it has.     *)
EndIsTrue ==
  \A t \in Tasks :
    row[t].exec \in Terminal => job[Key[t]] = LastVersion /\ row[t].exec = Outcome[Key[t]]
(* The events of a numbered scheduler are their numbers.                   *)
Numbering == Numbered => \A t \in Tasks : row[t].seq = row[t].event

LEMMA TruthNext == TypeOK /\ Told /\ EndIsTrue /\ Numbering /\ [Next]_vars => (EndIsTrue /\ Numbering)'
<1> SUFFICES ASSUME TypeOK, Told, EndIsTrue, Numbering, [Next]_vars
             PROVE  (EndIsTrue /\ Numbering)'
  OBVIOUS
<1>1. \A k \in Keys : job[k] = LastVersion => job'[k] = LastVersion
  <2>1. CASE UNCHANGED job
    BY <2>1
  <2>2. ASSUME NEW k \in Keys, JobAdvances(k) PROVE \A j \in Keys : job[j] = LastVersion => job'[j] = LastVersion
    BY <2>2, AsyncTaskAssumption DEF JobAdvances, TypeOK
  <2>3. ASSUME NEW t \in Tasks, Submit(t) PROVE \A j \in Keys : job[j] = LastVersion => job'[j] = LastVersion
    BY <2>3, AsyncTaskAssumption DEF Submit, TypeOK
  <2> QED
    BY <2>1, <2>2, <2>3 DEF Next, Tick, Expire, EventArrives, Poll, Claim, Ask, Report, Retry,
       ServerCrash, Run, InsertFails, Resolve, Insert, vars, world
<1> DEFINE Same(t) == /\ row'[t].exec = row[t].exec \/ row'[t].exec \notin Terminal
                      /\ row'[t].seq = row[t].seq /\ row'[t].event = row[t].event
<1>2. ASSUME \A t \in Tasks : Same(t) \/ (row'[t].exec \notin Terminal /\ row'[t].seq = row'[t].event)
      PROVE  (EndIsTrue /\ Numbering)'
  BY <1>1, <1>2, AsyncTaskAssumption DEF EndIsTrue, Numbering
<1>3. CASE Beside \/ UNCHANGED vars
  BY <1>2, <1>3, BesideEffect DEF vars
<1>4. CASE RunStep
  <2>1. ASSUME NEW u \in Tasks, NEW managed \in BOOLEAN, Insert(u, managed), NEW t \in Tasks
        PROVE  Same(t) \/ (row'[t].exec \notin Terminal /\ row'[t].seq = row'[t].event)
    <3>1. NewRow(managed).exec \notin Terminal /\ NewRow(managed).seq = NewRow(managed).event
      BY DEF NewRow, NoRow, Terminal
    <3> QED
      BY <2>1, <3>1 DEF Insert, TypeOK
  <2>2. ASSUME NEW u \in Tasks, Resolve(u), NEW t \in Tasks PROVE Same(t)
    BY <2>2 DEF Resolve, TypeOK, RowType
  <2>3. ASSUME Expire, NEW t \in Tasks PROVE Same(t)
    BY <2>3 DEF Expire, TypeOK, RowType
  <2> QED
    BY <1>2, <1>4, <2>1, <2>2, <2>3 DEF RunStep
<1>5. CASE Observes
  <2>1. PICK k, status, event, seq, at : Observation(k, status, event, seq, at)
    BY <1>5, ObservesEffect
  <2>2. \A t \in Tasks : row'[t] = row[t] \/ Heeds(t, k, status, event, seq, at)
    BY <2>1, ObservationEffect DEF Observation
  <2>3. ASSUME NEW t \in Tasks PROVE row'[t].exec \in Terminal =>
          job[Key[t]] = LastVersion /\ row'[t].exec = Outcome[Key[t]]
    BY <2>1, <2>2 DEF EndIsTrue, Heeds, Observation
  <2>4. ASSUME NEW t \in Tasks, Numbered PROVE row'[t].seq = row'[t].event
    BY <2>1, <2>2, <2>4 DEF Numbering, Heeds, Observation
  <2> QED
    BY <1>5, <2>3, <2>4, ObservesEffect DEF EndIsTrue, Numbering
<1>6. ASSUME NEW s \in Servers, LeaseStep(s) PROVE (EndIsTrue /\ Numbering)'
  BY <1>2, <1>6, LeaseEffect
<1> QED
  BY <1>3, <1>4, <1>5, <1>6, NextSteps

Inv == TypeOK /\ Told /\ Fresh /\ EndIsTrue /\ Numbering

LEMMA InvInit == Init => Inv
<1>1. Init => EndIsTrue /\ Numbering
  BY DEF Init, EndIsTrue, Numbering, NoRow, Terminal
<1> QED
  BY <1>1, TypeInit, ToldInit, FreshInit DEF Inv

LEMMA InvNext == Inv /\ [Next]_vars => Inv'
BY TypeNext, ToldNext, FreshNext, TruthNext DEF Inv

(* A row says that the job has ended only when it has, and as it has,      *)
(* however late events and answers are (ApplyReactAsyncTaskObservation).   *)
THEOREM EndsAreTrue == Spec => []EndIsTrue
<1>1. Inv => EndIsTrue
  BY DEF Inv
<1> QED
  BY <1>1, InvInit, InvNext, PTL DEF Spec

(* A server that has lost its lease, and reports late that it could not    *)
(* poll, does not put off the poll of the next holder                      *)
(* (ScheduleReactAsyncTaskRetry, ReleaseReactAsyncTaskLease).              *)
THEOREM LeaseKept == Spec => LeaseIsTheHolders
<1> DEFINE Step == \A t \in Tasks :
       row[t].owner # NoServer /\ row'[t].sync # row[t].sync =>
         \/ row'[t].exec \in Terminal
         \/ poll[row[t].owner].task = t /\ poll'[row[t].owner] = Idle
<1>1. Inv /\ [Next]_vars => [Step]_<<row, poll>>
  BY HolderStep DEF Inv
<1>2. Spec => [][Step]_<<row, poll>>
  BY <1>1, InvInit, InvNext, PTL DEF Spec
<1> QED
  BY <1>2 DEF LeaseIsTheHolders

-----------------------------------------------------------------------------
(* Rows of a numbered scheduler take newer events only                     *)

LEMMA SequenceStep ==
  ASSUME Inv, [Next]_vars, Numbered, NEW t \in Tasks
  PROVE  row[t].seq <= row'[t].seq /\ row[t].event <= row'[t].event
<1> USE DEF Inv
<1>1. row[t] \in RowType /\ row[t].seq \in Nat /\ row[t].seq = row[t].event
  BY DEF TypeOK, RowType, Numbering
<1> DEFINE Same == row'[t].seq = row[t].seq /\ row'[t].event = row[t].event
<1>2. CASE Beside \/ UNCHANGED vars
  BY <1>1, <1>2, BesideEffect DEF vars
<1>3. CASE RunStep
  <2>1. ASSUME NEW u \in Tasks, NEW managed \in BOOLEAN, Insert(u, managed) PROVE Same
    BY <2>1 DEF Insert, Fresh, TypeOK, NewRow, NoRow
  <2>2. ASSUME NEW u \in Tasks, Resolve(u) PROVE Same
    BY <1>1, <2>2 DEF Resolve, TypeOK, RowType
  <2>3. CASE Expire
    BY <1>1, <2>3 DEF Expire, TypeOK, RowType
  <2> QED
    BY <1>1, <1>3, <2>1, <2>2, <2>3 DEF RunStep
<1>4. CASE Observes
  <2>1. PICK k, status, event, seq, at : Observation(k, status, event, seq, at)
    BY <1>4, ObservesEffect
  <2>2. row'[t] = row[t] \/ Heeds(t, k, status, event, seq, at)
    BY <2>1, ObservationEffect DEF Observation
  <2> QED
    BY <1>1, <2>1, <2>2 DEF Heeds, Observation, Outdated
<1>5. ASSUME NEW s \in Servers, LeaseStep(s) PROVE Same
  BY <1>5, LeaseEffect
<1> QED
  BY <1>1, <1>2, <1>3, <1>4, <1>5, NextSteps

(* Neither the number nor the event of a row ever goes back, although      *)
(* events arrive in any order and polls are reported in between.           *)
THEOREM SequenceGrows == Spec => SequenceOnlyGrows
<1> DEFINE Step == Numbered => \A t \in Tasks :
                     row[t].seq <= row'[t].seq /\ row[t].event <= row'[t].event
<1>1. Inv /\ [Next]_vars => [Step]_row
  BY SequenceStep
<1>2. Spec => [][Step]_row
  BY <1>1, InvInit, InvNext, PTL DEF Spec
<1> QED
  BY <1>2 DEF SequenceOnlyGrows

-----------------------------------------------------------------------------
(* The rows keep a register of tasks                                       *)

LEMMA RegisterInit == Init => Register!RegisterInit
BY DEF Init, NoRow, Register!RegisterInit

LEMMA ObservationKeeps ==
  ASSUME Inv, Observes
  PROVE  Register!RegisterNext \/ UNCHANGED Register!registerVars
<1>1. PICK k, status, event, seq, at : Observation(k, status, event, seq, at)
  BY ObservesEffect DEF Inv
<1>2. \A t \in Tasks : row'[t] = row[t] \/ Heeds(t, k, status, event, seq, at)
  BY <1>1, ObservationEffect DEF Observation, Inv
<1> DEFINE T == {t \in Tasks : row[t].exec = "processing" /\ row'[t].exec = status}
<1>3. \A t \in Tasks : row'[t].state = row[t].state
  BY <1>2 DEF Heeds
<1>4. CASE status = "processing"
  <2>1. \A t \in Tasks : row'[t].exec = row[t].exec
    BY <1>2, <1>4 DEF Heeds, Eligible, Terminal
  <2> QED
    BY <1>3, <2>1 DEF Register!registerVars
<1>5. CASE status \in Terminal
  <2>1. \A t \in Tasks : row'[t].exec = IF t \in T THEN status ELSE row[t].exec
    BY <1>2, <1>5 DEF Heeds, Eligible, Terminal
  <2>2. Register!Finish(T, status)
    BY <1>3, <2>1 DEF Register!Finish
  <2>3. T \in SUBSET Tasks /\ status \in Register!Ends
    BY <1>5 DEF Terminal, Register!Ends
  <2> QED
    BY <2>2, <2>3 DEF Register!RegisterNext
<1> QED
  BY <1>1, <1>4, <1>5 DEF Observation

LEMMA RunKeeps ==
  ASSUME Inv, RunStep
  PROVE  Register!RegisterNext
<1> USE DEF Inv
<1>1. ASSUME NEW t \in Tasks, NEW managed \in BOOLEAN, Insert(t, managed)
      PROVE  Register!Record(t, managed)
  <2>1. row[t] = NoRow /\ row' = [row EXCEPT ![t] = NewRow(managed)]
    BY <1>1 DEF Insert, Fresh
  <2>2. NewRow(managed).state = "pending" /\ NoRow.state = "none"
    BY DEF NewRow, NoRow
  <2>3. NewRow(managed).exec = IF managed THEN "processing" ELSE "unmanaged"
    BY DEF NewRow, NoRow
  <2> QED
    BY <2>1, <2>2, <2>3 DEF TypeOK, Register!Record
<1>2. ASSUME NEW T \in SUBSET Tasks, NEW how \in {"resolved", "expired"},
             \A t \in T : row[t].state = "pending",
             row' = [t \in Tasks |-> IF t \in T THEN [row[t] EXCEPT !.state = how] ELSE row[t]]
      PROVE  Register!Close(T, how)
  <2>1. \A t \in Tasks : row'[t].exec = row[t].exec
    BY <1>2 DEF TypeOK, RowType
  <2>2. \A t \in Tasks : row'[t].state = IF t \in T THEN how ELSE row[t].state
    BY <1>2 DEF TypeOK, RowType
  <2> QED
    BY <1>2, <2>1, <2>2 DEF Register!Close, Register!Pending
<1>3. ASSUME NEW t \in Tasks, Resolve(t) PROVE Register!Close({t}, "resolved")
  <2>1. row' = [u \in Tasks |-> IF u \in {t} THEN [row[u] EXCEPT !.state = "resolved"] ELSE row[u]]
    BY <1>3 DEF Resolve, TypeOK
  <2> QED
    BY <1>2, <1>3, <2>1 DEF Resolve
<1>4. ASSUME Expire PROVE Register!Close({t \in Tasks : Overdue(row[t])}, "expired")
  <2> DEFINE T == {t \in Tasks : Overdue(row[t])}
  <2>1. row' = [t \in Tasks |-> IF t \in T THEN [row[t] EXCEPT !.state = "expired"] ELSE row[t]]
    BY <1>4 DEF Expire
  <2>2. \A t \in T : row[t].state = "pending"
    BY DEF Overdue
  <2> QED
    BY <1>2, <2>1, <2>2
<1> QED
  BY <1>1, <1>3, <1>4 DEF RunStep, Register!RegisterNext

LEMMA RegisterStep == Inv /\ [Next]_vars => [Register!RegisterNext]_(Register!registerVars)
<1> SUFFICES ASSUME Inv, [Next]_vars
             PROVE  Register!RegisterNext \/ UNCHANGED Register!registerVars
  OBVIOUS
<1>1. CASE Beside \/ UNCHANGED vars
  BY <1>1, BesideEffect DEF vars, Register!registerVars
<1>2. ASSUME NEW s \in Servers, LeaseStep(s) PROVE UNCHANGED Register!registerVars
  BY <1>2, LeaseEffect DEF Inv, Register!registerVars
<1> QED
  BY <1>1, <1>2, RunKeeps, ObservationKeeps, NextSteps

(* Whatever is lost, repeated or late, a task is recorded once, found to   *)
(* have ended at most once and in one way, and closed at most once.        *)
THEOREM RegisterKept == Spec => KeepsRegister
<1> QED
  BY InvInit, InvNext, RegisterInit, RegisterStep, PTL DEF Spec, KeepsRegister, Register!RegisterSpec

-----------------------------------------------------------------------------
(* What has ended is over                                                  *)

(* Nothing is taken back: a row that says how its job has ended says so    *)
(* for ever, and a row that is resolved or expired is never opened again,  *)
(* whatever observations, answers of polls and runs come later             *)
(* (eligible in ApplyReactAsyncTaskObservation, the state in the UPDATE of *)
(* ResolveReactAsyncTask and ExpireReactAsyncTasks).                       *)
NothingIsTakenBack ==
  [][\A t \in Tasks :
       /\ row[t].exec \in Terminal => row'[t].exec = row[t].exec
       /\ row[t].state \in {"resolved", "expired"} => row'[t].state = row[t].state]_row

LEMMA StatusKept ==
  ASSUME Inv, [Next]_vars, NEW t \in Tasks
  PROVE  /\ row[t].exec \in Terminal => row'[t].exec = row[t].exec
         /\ row[t].state \in {"resolved", "expired"} => row'[t].state = row[t].state
<1> USE DEF Inv
<1> DEFINE Kept == row'[t].exec = row[t].exec /\ row'[t].state = row[t].state
<1>1. row[t] \in RowType
  BY DEF TypeOK
<1>2. CASE Beside \/ UNCHANGED vars
  BY <1>2, BesideEffect DEF vars
<1>3. CASE RunStep
  <2>1. ASSUME NEW u \in Tasks, NEW managed \in BOOLEAN, Insert(u, managed)
        PROVE  Kept \/ row[t] = NoRow
    BY <2>1 DEF Insert, Fresh, TypeOK
  <2>2. NoRow.exec \notin Terminal /\ NoRow.state \notin {"resolved", "expired"}
    BY DEF NoRow, Terminal
  <2>3. ASSUME NEW u \in Tasks, Resolve(u)
        PROVE  row'[t].exec = row[t].exec /\ (Kept \/ row[t].state = "pending")
    BY <1>1, <2>3 DEF Resolve, TypeOK, RowType
  <2>4. ASSUME Expire
        PROVE  row'[t].exec = row[t].exec /\ (Kept \/ row[t].state = "pending")
    BY <1>1, <2>4 DEF Expire, Overdue, TypeOK, RowType
  <2> QED
    BY <1>3, <2>1, <2>2, <2>3, <2>4 DEF RunStep
<1>4. CASE Observes
  <2>1. PICK k, status, event, seq, at : Observation(k, status, event, seq, at)
    BY <1>4, ObservesEffect
  <2>2. row'[t] = row[t] \/ Heeds(t, k, status, event, seq, at)
    BY <2>1, ObservationEffect DEF Observation
  <2> QED
    BY <2>2 DEF Heeds, Eligible, Terminal
<1>5. ASSUME NEW s \in Servers, LeaseStep(s) PROVE Kept
  BY <1>5, LeaseEffect
<1> QED
  BY <1>2, <1>3, <1>4, <1>5, NextSteps

THEOREM EndIsFinal == Spec => NothingIsTakenBack
<1> DEFINE Step == \A t \in Tasks :
       /\ row[t].exec \in Terminal => row'[t].exec = row[t].exec
       /\ row[t].state \in {"resolved", "expired"} => row'[t].state = row[t].state
<1>1. Inv /\ [Next]_vars => [Step]_row
  BY StatusKept
<1>2. Spec => [][Step]_row
  BY <1>1, InvInit, InvNext, PTL DEF Spec
<1> QED
  BY <1>2 DEF NothingIsTakenBack

(* No row is polled any more once it does not run: it has no next poll and *)
(* no lease, although a server that has claimed it before may come back    *)
(* with a failure and put off the poll (updates of                         *)
(* ApplyReactAsyncTaskObservation, lease_owner in                          *)
(* ScheduleReactAsyncTaskRetry). A row that no provider follows is never   *)
(* claimed at all.                                                         *)
EndedIsLeftAlone ==
  \A t \in Tasks :
    row[t].exec # "processing" =>
      row[t].sync = Unset /\ row[t].owner = NoServer /\ row[t].until = Unset

LEMMA ObservationReleases ==
  ASSUME TypeOK, NEW k, NEW status, NEW event, NEW seq, NEW at,
         ApplyObservation(k, status, event, seq, at), NEW t \in Tasks
  PROVE  \/ row'[t] = row[t]
         \/ /\ row'[t].exec = status /\ row'[t].owner = NoServer /\ row'[t].until = Unset
            /\ status \in Terminal => row'[t].sync = Unset
<1>1. row[t] \in RowType
  BY DEF TypeOK
<1>2. ASSUME NEW r \in RowType, NEW x, x = Observed(r, status, event, seq, at)
      PROVE  /\ x.exec = status /\ x.owner = NoServer /\ x.until = Unset
             /\ status \in Terminal => x.sync = Unset
  BY <1>2 DEF Observed, RowType
<1> QED
  BY <1>1, <1>2 DEF ApplyObservation

LEMMA LeftAloneNext == Inv /\ EndedIsLeftAlone /\ [Next]_vars => EndedIsLeftAlone'
<1> SUFFICES ASSUME Inv, EndedIsLeftAlone, [Next]_vars, NEW t \in Tasks,
                    row'[t] # row[t], row'[t].exec # "processing"
             PROVE  row'[t].sync = Unset /\ row'[t].owner = NoServer /\ row'[t].until = Unset
  BY DEF EndedIsLeftAlone
<1> USE DEF Inv
<1>1. row[t] \in RowType
  BY DEF TypeOK
<1>2. ~(Beside \/ UNCHANGED vars)
  BY BesideEffect DEF vars
<1>3. CASE RunStep
  <2>1. ASSUME NEW u \in Tasks, NEW managed \in BOOLEAN, Insert(u, managed)
        PROVE  row'[t] = NewRow(managed)
    BY <2>1 DEF Insert, TypeOK
  <2>2. \A managed \in BOOLEAN :
          NewRow(managed).exec # "processing" =>
            /\ NewRow(managed).sync = Unset /\ NewRow(managed).owner = NoServer
            /\ NewRow(managed).until = Unset
    BY DEF NewRow, NoRow
  <2> DEFINE Kept == /\ row'[t].exec = row[t].exec /\ row'[t].sync = row[t].sync
                     /\ row'[t].owner = row[t].owner /\ row'[t].until = row[t].until
  <2>3. ASSUME NEW u \in Tasks, Resolve(u) PROVE Kept
    BY <1>1, <2>3 DEF Resolve, TypeOK, RowType
  <2>4. ASSUME Expire PROVE Kept
    BY <1>1, <2>4 DEF Expire, TypeOK, RowType
  <2>5. CASE Kept
    BY <2>5 DEF EndedIsLeftAlone
  <2>6. CASE \E managed \in BOOLEAN : row'[t] = NewRow(managed)
    BY <2>2, <2>6
  <2> QED
    BY <1>3, <2>1, <2>3, <2>4, <2>5, <2>6 DEF RunStep
<1>4. CASE Observes
  <2>1. PICK k, status, event, seq, at : Observation(k, status, event, seq, at)
    BY <1>4, ObservesEffect
  <2>2. /\ row'[t].exec = status /\ row'[t].owner = NoServer /\ row'[t].until = Unset
        /\ status \in Terminal => row'[t].sync = Unset
    BY <2>1, ObservationReleases DEF Observation
  <2> QED
    BY <2>1, <2>2 DEF Observation
<1>5. ASSUME NEW s \in Servers, LeaseStep(s) PROVE FALSE
  <2>1. row[t].exec = "processing" \/ row[t].owner = s
    BY <1>5, LeaseEffect
  <2>2. row[t].exec = "processing"
    BY <2>1, AsyncTaskAssumption DEF EndedIsLeftAlone
  <2> QED
    BY <1>5, <2>2, LeaseEffect
<1> QED
  BY <1>2, <1>3, <1>4, <1>5, NextSteps

THEOREM EndedNotPolled == Spec => []EndedIsLeftAlone
<1>1. Init => EndedIsLeftAlone
  BY DEF Init, NoRow, EndedIsLeftAlone
<1> QED
  BY <1>1, LeftAloneNext, InvInit, InvNext, PTL DEF Spec
=============================================================================
