-------------------------- MODULE RunLifecycleProofs --------------------------
(***************************************************************************)
(* Proofs about RunLifecycle, for every set of runs, users and servers.    *)
(***************************************************************************)
EXTENDS RunLifecycle, TLAPS

(* A sub run belongs to the outer run of its parent, and every run to the  *)
(* outer run of what is above it.                                          *)
LEMMA SameTree ==
  ASSUME NEW r \in Runs
  PROVE /\ \A a \in Ancestors[r] : a \in Runs /\ Outer(a) = Outer(r)
        /\ ~IsOuter(r) => Parent[r] \in Runs /\ Outer(Parent[r]) = Outer(r)
        /\ Outer(r) \in Runs
<1>1. \A a \in Ancestors[r] : a \in Runs /\ OutersOf(a) = OutersOf(r)
  BY RunAssumption
<1>2. \A a \in Ancestors[r] : a \in Runs /\ Outer(a) = Outer(r)
  BY <1>1 DEF Outer
<1>3. ~IsOuter(r) => Parent[r] \in Ancestors[r]
  BY RunAssumption
<1>4. Outer(r) \in OutersOf(r)
  BY RunAssumption DEF Outer
<1>5. OutersOf(r) \subseteq Runs
  BY RunAssumption DEF OutersOf
<1> QED
  BY <1>2, <1>3, <1>4, <1>5

LEMMA OuterOfOuter ==
  ASSUME NEW r \in Runs, IsOuter(r)
  PROVE  Outer(r) = r
<1>1. OutersOf(r) = {r}
  BY RunAssumption DEF OutersOf
<1> QED
  BY <1>1 DEF Outer

(* The actions of the user's and the pump's side that touch neither a row  *)
(* nor a goroutine.                                                        *)
Aside ==
  \/ \E o \in Runs : Disconnect(o) \/ Pump(o) \/ PumpAnswerAgain(o)
  \/ \E c \in Cancellers, r \in Runs : CancelRead(c, r)
  \/ \E c \in Cancellers : CancelLookup(c) \/ CancelSignal(c)
  \/ \E s \in Servers : ShutdownRead(s)

LEMMA AsideKeeps == Aside => UNCHANGED <<row, pc, home>>
  BY DEF Aside, Disconnect, Pump, PumpCancel, PumpError, PumpAnswerAgain, CancelRead,
     CancelLookup, CancelSignal, ShutdownRead, runVars

-----------------------------------------------------------------------------
(* Type correctness                                                        *)

LEMMA TypeInit == Init => TypeOK
  BY RunAssumption DEF Init, TypeOK, Live, InLoop

(* The sets of the hub.                                                    *)
HubOK ==
  /\ gone \subseteq Runs /\ cancelMsg \subseteq Runs /\ told \subseteq Runs
  /\ left \subseteq Runs /\ full \subseteq Runs /\ dead \subseteq Runs
  /\ stuck \subseteq Runs /\ missed \subseteq Runs

(* What a dying process leaves is still of its type.                       *)
TypesKept ==
  /\ pc \in [Runs -> Live \cup {"off", "orphan", "done", "lost"}]
  /\ err \in [Runs -> {"none", "cancelled", "disconnected", "other"}]
  /\ cause \in [Runs -> {"none", "cancelled", "disconnected"}]
  /\ waits \in [Runs -> 0..MaxWaits] /\ registry \subseteq Runs /\ HubOK
  /\ req \in [Cancellers ->
                [at : {"idle"}, run : {NoRun}]
                  \cup [at : {"read", "found", "written", "signalled", "refused"},
                        run : Runs]]
  /\ server \in [Servers -> {"up", "hook", "stopping", "down"}]

LEMMA LoseTypes ==
  ASSUME TypeOK, NEW s \in Servers, LoseMemory(s), UNCHANGED gone
  PROVE  TypesKept'
<1>1. pc' \in [Runs -> Live \cup {"off", "orphan", "done", "lost"}]
  BY DEF TypeOK, LoseMemory
<1>2. /\ err' \in [Runs -> {"none", "cancelled", "disconnected", "other"}]
      /\ cause' \in [Runs -> {"none", "cancelled", "disconnected"}]
  BY DEF TypeOK, LoseMemory
<1>3. waits' \in [Runs -> 0..MaxWaits]
  BY RunAssumption DEF TypeOK, LoseMemory
<1>4. registry' \subseteq Runs /\ HubOK'
  BY DEF TypeOK, LoseMemory, ForgetHub, HubOK
<1>5. /\ req' \in [Cancellers ->
                     [at : {"idle"}, run : {NoRun}]
                       \cup [at : {"read", "found", "written", "signalled", "refused"},
                             run : Runs]]
      /\ server' \in [Servers -> {"up", "hook", "stopping", "down"}]
  BY DEF TypeOK, LoseMemory
<1> QED
  BY <1>1, <1>2, <1>3, <1>4, <1>5 DEF TypesKept

LEMMA TypeNext == TypeOK /\ [Next]_vars => TypeOK'
<1> SUFFICES ASSUME TypeOK, [Next]_vars PROVE TypeOK'
  OBVIOUS
<1> USE RunAssumption
<1>1. ASSUME NEW r \in Runs, NEW s \in Servers, StartRun(r, s) PROVE TypeOK'
  BY <1>1 DEF TypeOK, StartRun, Write, Active, Terminal, Live, InLoop, hubVars, srvVars
<1>2. ASSUME NEW r \in Runs, Delegate(r) PROVE TypeOK'
  BY <1>2 DEF TypeOK, Delegate, Write, FirstError, Active, Terminal, Live, InLoop, hubVars, srvVars, IsOuter
<1>3. ASSUME NEW r \in Runs, Register(r) PROVE TypeOK'
  BY <1>3 DEF TypeOK, Register, Live, InLoop, hubVars, srvVars, IsOuter
<1>4. ASSUME NEW r \in Runs, Interrupted(r) PROVE TypeOK'
  BY <1>4 DEF TypeOK, Interrupted, FirstError, Live, InLoop, hubVars, srvVars
<1>5. ASSUME NEW r \in Runs, Break(r) PROVE TypeOK'
  BY <1>5 DEF TypeOK, Break, FirstError, Live, InLoop, hubVars, srvVars
<1>6. ASSUME NEW r \in Runs, WaitUser(r) PROVE TypeOK'
  BY <1>6 DEF TypeOK, WaitUser, Write, Active, Terminal, Live, InLoop, hubVars, srvVars
<1>7. ASSUME NEW r \in Runs, WaitAnswered(r) PROVE TypeOK'
  <2>1. left' \subseteq Runs
    BY <1>7, SameTree DEF TypeOK, WaitAnswered
  <2> QED
    BY <1>7, <2>1 DEF TypeOK, WaitAnswered, Write, Active, Terminal, Live, InLoop, srvVars
<1>8. ASSUME NEW r \in Runs, WaitCancelled(r) PROVE TypeOK'
  <2>1. row' \in [Runs -> Active \cup Terminal \cup {"none"}] /\ aged' \in [Runs -> BOOLEAN]
    <3>1. CASE Write(r, "running")
      BY <3>1 DEF TypeOK, Write, Active, Terminal
    <3>2. CASE UNCHANGED <<row, aged>>
      BY <3>2 DEF TypeOK
    <3> QED
      BY <1>8, <3>1, <3>2 DEF WaitCancelled
  <2>2. /\ pc' \in [Runs -> Live \cup {"off", "orphan", "done", "lost"}]
        /\ err' \in [Runs -> {"none", "cancelled", "disconnected", "other"}]
        /\ told' \subseteq Runs /\ left' \subseteq Runs
    BY <1>8, SameTree DEF TypeOK, WaitCancelled, FirstError, Live, InLoop
  <2>3. UNCHANGED <<cause, waits, registry, home, gone, cancelMsg, full, dead, stuck, missed,
                    req, server, snap, stops>>
    BY <1>8 DEF WaitCancelled, srvVars
  <2> QED
    BY <2>1, <2>2, <2>3 DEF TypeOK
<1>9. ASSUME NEW r \in Runs, WaitDisconnected(r) PROVE TypeOK'
  BY <1>9 DEF TypeOK, WaitDisconnected, Write, FirstError, Active, Terminal, Live, InLoop, hubVars, srvVars
<1>10. ASSUME NEW r \in Runs, Finish(r) \/ FinishUnsent(r) PROVE TypeOK'
  <2>1. CASE Finish(r)
    BY <2>1 DEF TypeOK, Finish, Write, Active, Terminal, Live, InLoop, hubVars, srvVars
  <2>2. CASE FinishUnsent(r)
    BY <2>2 DEF TypeOK, FinishUnsent, Write, Active, Terminal, Live, InLoop, hubVars, srvVars
  <2> QED
    BY <1>10, <2>1, <2>2
<1>11. ASSUME NEW r \in Runs, LoopError(r) PROVE TypeOK'
  BY <1>11 DEF TypeOK, LoopError, Write, Active, Terminal, Live, InLoop, hubVars, srvVars
<1>12. ASSUME NEW r \in Runs, Return(r) PROVE TypeOK'
  <2>1. /\ pc' \in [Runs -> Live \cup {"off", "orphan", "done", "lost"}]
        /\ err' \in [Runs -> {"none", "cancelled", "disconnected", "other"}]
        /\ cause' \in [Runs -> {"none", "cancelled", "disconnected"}]
        /\ waits' \in [Runs -> 0..MaxWaits] /\ registry' \subseteq Runs
    BY <1>12 DEF TypeOK, Return, FirstError, Live, InLoop
  <2>2. HubOK'
    BY <1>12 DEF TypeOK, HubOK, Return, ForgetHub
  <2> QED
    BY <1>12, <2>1, <2>2 DEF TypeOK, HubOK, Return, srvVars
<1>13. ASSUME NEW r \in Runs, Age(r) PROVE TypeOK'
  BY <1>13 DEF TypeOK, Age, hubVars, srvVars
<1>14. ASSUME NEW o \in Runs, Disconnect(o) PROVE TypeOK'
  BY <1>14 DEF TypeOK, Disconnect, CancelContext, runVars, srvVars
<1>15. ASSUME NEW o \in Runs, Pump(o) \/ PumpAnswerAgain(o) PROVE TypeOK'
  <2>1. HubOK'
    BY <1>15 DEF TypeOK, HubOK, Pump, PumpCancel, PumpError, PumpAnswerAgain, OpenWaits, Tree
  <2>2. UNCHANGED <<row, aged, pc, err, cause, waits, registry, home, req, server, snap, stops>>
    BY <1>15 DEF Pump, PumpCancel, PumpError, PumpAnswerAgain, runVars, srvVars
  <2> QED
    BY <2>1, <2>2 DEF TypeOK, HubOK
<1>16. ASSUME NEW c \in Cancellers, NEW r \in Runs, CancelRead(c, r) PROVE TypeOK'
  BY <1>16 DEF TypeOK, CancelRead, runVars, hubVars, srvVars
<1>17. ASSUME NEW c \in Cancellers, CancelLookup(c) PROVE TypeOK'
  BY <1>17 DEF TypeOK, CancelLookup, runVars, hubVars, srvVars
<1>18. ASSUME NEW c \in Cancellers, CancelWrite(c) PROVE TypeOK'
  <2>1. req[c].run \in Runs
    BY <1>18 DEF TypeOK, CancelWrite
  <2> QED
    BY <1>18, <2>1 DEF TypeOK, CancelWrite, Write, Active, hubVars, srvVars
<1>19. ASSUME NEW c \in Cancellers, CancelSignal(c) PROVE TypeOK'
  <2>1. req[c].run \in Runs
    BY <1>19 DEF TypeOK, CancelSignal
  <2>2. Outer(req[c].run) \in Runs
    BY <2>1, SameTree
  <2> QED
    BY <1>19, <2>1, <2>2 DEF TypeOK, CancelSignal, CancelContext, runVars, srvVars
<1>20. ASSUME NEW s \in Servers, Crash(s) PROVE TypeOK'
  <2>1. TypesKept'
    BY <1>20, LoseTypes DEF Crash
  <2>2. snap' \in [Servers -> SUBSET Runs] /\ stops' \in 0..MaxStops
    BY <1>20 DEF TypeOK, Crash
  <2>3. UNCHANGED <<row, aged, home>>
    BY <1>20 DEF Crash
  <2> QED
    BY <2>1, <2>2, <2>3 DEF TypeOK, TypesKept, HubOK
<1>21. ASSUME NEW s \in Servers, ShutdownRead(s) PROVE TypeOK'
  BY <1>21 DEF TypeOK, ShutdownRead, runVars, hubVars
<1>22. ASSUME NEW s \in Servers, ShutdownExpire(s) PROVE TypeOK'
  BY <1>22 DEF TypeOK, ShutdownExpire, Expire, Active, Terminal, hubVars
<1>23. ASSUME NEW s \in Servers, Exit(s) PROVE TypeOK'
  <2>1. TypesKept'
    BY <1>23, LoseTypes DEF Exit
  <2> QED
    BY <1>23, <2>1 DEF TypeOK, TypesKept, HubOK, Exit
<1>24. ASSUME NEW s \in Servers, Restart(s) PROVE TypeOK'
  BY <1>24 DEF TypeOK, Restart, Expire, Active, Terminal, hubVars
<1>25. ASSUME UNCHANGED vars PROVE TypeOK'
  BY <1>25 DEF TypeOK, vars
<1> QED
  BY <1>1, <1>2, <1>3, <1>4, <1>5, <1>6, <1>7, <1>8, <1>9, <1>10, <1>11, <1>12,
     <1>13, <1>14, <1>15, <1>16, <1>17, <1>18, <1>19, <1>20, <1>21, <1>22, <1>23,
     <1>24, <1>25 DEF Next, Loop, CancelStep

(* The rows, goroutines, contexts and requests keep their types.           *)
THEOREM TypeCorrect == Spec => []TypeOK
  BY TypeInit, TypeNext, PTL DEF Spec

-----------------------------------------------------------------------------
(* Mutual exclusion                                                        *)
(*                                                                         *)
(* The check that admits a run looks at the rows; the property is about    *)
(* goroutines. What joins them: an executing run keeps its row active and  *)
(* freshly written, and a sub run never outlives the loop of its parent.   *)

ActiveRows == \A r \in Runs : Executing(r) => row[r] \in Active /\ ~aged[r]

ParentsInLoop ==
  \A c \in Runs :
    ~IsOuter(c) /\ pc[c] \in Live =>
      pc[Parent[c]] \in InLoop /\ home[Parent[c]] = home[c]

NoHook == \A s \in Servers : server[s] \in {"up", "down"}

ExclInv == TypeOK /\ ActiveRows /\ ParentsInLoop /\ NoHook /\ OneRunPerSession

LEMMA ExclInit == Init => ExclInv
  BY TypeInit DEF Init, ExclInv, ActiveRows, ParentsInLoop, NoHook,
     OneRunPerSession, Executing, Live, InLoop

(* Steps of one goroutine that stays in the loop, whatever it writes.      *)
LEMMA LoopStepExcl ==
  ASSUME ExclInv, NEW r \in Runs, pc[r] \in {"created"} \cup InLoop,
         NEW q \in InLoop, pc' = [pc EXCEPT ![r] = q],
         UNCHANGED <<row, aged>>
           \/ \E x \in Active : Write(r, x),
         UNCHANGED <<home, server>>
  PROVE ActiveRows' /\ ParentsInLoop' /\ NoHook' /\ OneRunPerSession'
<1> USE DEF ExclInv, TypeOK
<1>1. ActiveRows'
  BY DEF ActiveRows, Executing, Write
<1>2. ParentsInLoop'
  <2> SUFFICES ASSUME NEW c \in Runs, ~IsOuter(c), pc'[c] \in Live
               PROVE pc'[Parent[c]] \in InLoop /\ home'[Parent[c]] = home'[c]
    BY DEF ParentsInLoop
  <2>1. pc[c] \in Live
    BY DEF Live
  <2>2. Parent[c] \in Runs
    BY SameTree
  <2> QED
    BY <2>1, <2>2 DEF ParentsInLoop
<1>3. \A c \in Runs : Executing(c)' => Executing(c)
  BY DEF Executing
<1>4. OneRunPerSession'
  BY <1>3 DEF OneRunPerSession
<1>5. NoHook'
  BY DEF NoHook
<1> QED
  BY <1>1, <1>2, <1>4, <1>5

(* Steps that end the goroutines of a set of runs closed under children.   *)
LEMMA StopStepExcl ==
  ASSUME ExclInv, NEW rs \in SUBSET Runs,
         \A r \in rs : pc[r] \in Live /\ pc'[r] \in {"unsent", "ended", "done", "lost"},
         \A r \in Runs \ rs : pc'[r] = pc[r],
         \A c \in Runs : ~IsOuter(c) /\ Parent[c] \in rs /\ pc[c] \in Live =>
                            pc'[c] = "lost",
         \A r \in Runs \ rs : row'[r] = row[r] /\ aged'[r] = aged[r],
         UNCHANGED home, NoHook'
  PROVE ActiveRows' /\ ParentsInLoop' /\ NoHook' /\ OneRunPerSession'
<1> USE DEF ExclInv, TypeOK
<1>1. \A c \in Runs : Executing(c)' => Executing(c) /\ c \notin rs
  BY DEF Executing, InLoop
<1>2. ActiveRows'
  BY <1>1 DEF ActiveRows
<1>3. OneRunPerSession'
  BY <1>1 DEF OneRunPerSession
<1>4. ParentsInLoop'
  <2> SUFFICES ASSUME NEW c \in Runs, ~IsOuter(c), pc'[c] \in Live
               PROVE pc'[Parent[c]] \in InLoop /\ home'[Parent[c]] = home'[c]
    BY DEF ParentsInLoop
  <2>1. Parent[c] \in Runs
    BY SameTree
  <2>2. pc[c] \in Live
    BY DEF Live
  <2>3. pc[Parent[c]] \in InLoop /\ home[Parent[c]] = home[c]
    BY <2>2 DEF ParentsInLoop
  <2>4. Parent[c] \notin rs
    BY <2>1, <2>2 DEF Live, InLoop
  <2> QED
    BY <2>1, <2>3, <2>4
<1> QED
  BY <1>2, <1>3, <1>4

LEMMA ExclNext ==
  ASSUME ~LongWaits, ~Graceful
  PROVE ExclInv /\ [Next]_vars => ExclInv'
<1> SUFFICES ASSUME ExclInv, [Next]_vars PROVE ExclInv'
  OBVIOUS
<1> DEFINE Goal == ActiveRows' /\ ParentsInLoop' /\ NoHook' /\ OneRunPerSession'
<1> USE RunAssumption DEF ExclInv
<1>0. TypeOK'
  BY TypeNext
<1>1. ASSUME NEW r \in Runs, NEW s \in Servers, StartRun(r, s) PROVE Goal
  (* No row is active, so nothing executes: r will be alone.               *)
  <2>1. \A q \in Runs : ~Executing(q)
    BY <1>1 DEF StartRun, HasActiveReactRun, ActiveRows
  <2>2. \A q \in Runs : Executing(q)' => q = r
    BY <1>1, <2>1 DEF StartRun, Executing, TypeOK
  <2>3. ActiveRows'
    BY <1>1, <2>2 DEF StartRun, Write, ActiveRows, Active, TypeOK
  <2>4. \A c \in Runs : ~IsOuter(c) => pc[c] \notin Live
    <3> SUFFICES ASSUME NEW c \in Runs, ~IsOuter(c), pc[c] \in Live PROVE FALSE
      OBVIOUS
    <3>1. Parent[c] \in Runs /\ pc[Parent[c]] \in InLoop
      BY SameTree DEF ParentsInLoop
    <3> QED
      BY <2>1, <3>1 DEF Executing
  <2>5. ParentsInLoop'
    BY <1>1, <2>4 DEF StartRun, ParentsInLoop, TypeOK
  <2>6. OneRunPerSession'
    BY <2>2 DEF OneRunPerSession
  <2>7. NoHook'
    BY <1>1 DEF StartRun, NoHook, srvVars
  <2> QED
    BY <2>3, <2>5, <2>6, <2>7
<1>2. ASSUME NEW c \in Runs, Delegate(c) PROVE Goal
  <2> DEFINE p == Parent[c]
  <2>1. p \in Runs /\ Outer(p) = Outer(c) /\ p # c
    <3>1. p \in Runs /\ Outer(p) = Outer(c)
      BY <1>2, SameTree DEF Delegate
    <3>2. pc[p] \in InLoop /\ row[c] = "none"
      BY <1>2 DEF Delegate
    <3>3. row[p] \in Active
      BY <3>1, <3>2 DEF ActiveRows, Executing
    <3> QED
      BY <3>1, <3>2, <3>3 DEF Active
  <2>2. pc[p] \in InLoop /\ ~Executing(c)
        /\ (\A q \in Runs \ {c} : pc'[q] = pc[q]) /\ pc'[c] \in {"created", "orphan"}
    <3>1. ~Executing(c)
      BY <1>2 DEF Delegate, ActiveRows, Active
    <3> QED
      BY <1>2, <3>1 DEF Delegate, TypeOK, Live, InLoop
  <2>3. ActiveRows'
    BY <1>2, <2>2 DEF Delegate, Write, ActiveRows, Executing, Active, TypeOK, InLoop
  <2>4. OneRunPerSession'
    <3> SUFFICES ASSUME NEW q \in Runs, NEW r \in Runs, Executing(q)', Executing(r)'
                 PROVE Outer(q) = Outer(r)
      BY DEF OneRunPerSession
    <3>1. Executing(p)
      BY <2>2 DEF Executing
    <3>2. \A x \in Runs \ {c} : Executing(x)' => Executing(x)
      BY <2>2 DEF Executing
    <3>3. \A x \in Runs : Executing(x)' => Outer(x) = Outer(p)
      BY <2>1, <3>1, <3>2 DEF OneRunPerSession
    <3> QED
      BY <3>3
  <2>5. ParentsInLoop'
    <3> SUFFICES ASSUME NEW d \in Runs, ~IsOuter(d), pc'[d] \in Live
                 PROVE pc'[Parent[d]] \in InLoop /\ home'[Parent[d]] = home'[d]
      BY DEF ParentsInLoop
    <3>1. Parent[d] \in Runs
      BY SameTree
    <3>2. home' = [home EXCEPT ![c] = home[p]]
      BY <1>2 DEF Delegate
    <3>3. CASE d = c
      BY <2>1, <2>2, <3>2, <3>3 DEF TypeOK
    <3>4. CASE d # c
      <4>1. pc[Parent[d]] \in InLoop /\ home[Parent[d]] = home[d]
        BY <2>2, <3>4 DEF ParentsInLoop
      <4>2. Parent[d] # c
        BY <4>1, <2>2 DEF Executing
      <4> QED
        BY <4>1, <4>2, <2>2, <3>1, <3>2, <3>4 DEF TypeOK
    <3> QED
      BY <3>3, <3>4
  <2>6. NoHook'
    BY <1>2 DEF Delegate, NoHook, srvVars
  <2> QED
    BY <2>3, <2>4, <2>5, <2>6
<1>3. ASSUME NEW r \in Runs, Register(r) PROVE Goal
  BY <1>3, LoopStepExcl DEF Register, InLoop, hubVars, srvVars
<1>4. ASSUME NEW r \in Runs, Interrupted(r) \/ Break(r) PROVE Goal
  BY <1>4, LoopStepExcl DEF Interrupted, Break, InLoop, hubVars, srvVars
<1>5. ASSUME NEW r \in Runs, WaitUser(r) \/ WaitAnswered(r) PROVE Goal
  BY <1>5, LoopStepExcl DEF WaitUser, WaitAnswered, InLoop, Active, hubVars, srvVars
<1>6. ASSUME NEW r \in Runs, WaitCancelled(r) \/ WaitDisconnected(r) PROVE Goal
  BY <1>6, LoopStepExcl DEF WaitCancelled, WaitDisconnected, InLoop, Active, hubVars, srvVars
<1>7. ASSUME NEW r \in Runs, Finish(r) \/ FinishUnsent(r) \/ LoopError(r) PROVE Goal
  <2>0. \E x \in {"unsent", "ended"} : pc' = [pc EXCEPT ![r] = x]
    BY <1>7 DEF Finish, FinishUnsent, LoopError
  <2>1. pc[r] \in InLoop \cup {"unsent"} /\ ChildrenOver(r) /\ UNCHANGED <<home, server>>
        /\ \E y \in Terminal : Write(r, y)
    BY <1>7 DEF Finish, FinishUnsent, LoopError, InLoop, Terminal, srvVars
  <2>2. /\ \A q \in {r} : pc[q] \in Live /\ pc'[q] \in {"unsent", "ended", "done", "lost"}
        /\ \A q \in Runs \ {r} : pc'[q] = pc[q]
    BY <2>0, <2>1 DEF TypeOK, Live
  <2>3. \A q \in Runs \ {r} : row'[q] = row[q] /\ aged'[q] = aged[q]
    BY <2>1 DEF Write, TypeOK
  <2>4. \A c \in Runs : ~IsOuter(c) /\ Parent[c] \in {r} => pc[c] \notin Live
    BY <2>1 DEF ChildrenOver, Children
  <2>5. NoHook'
    BY <2>1 DEF NoHook
  <2> QED
    <3>1. {r} \in SUBSET Runs /\ UNCHANGED home
      BY <2>1
    <3> HIDE DEF ExclInv
    <3> QED
      BY <3>1, <2>2, <2>3, <2>4, <2>5, StopStepExcl
<1>8. ASSUME NEW r \in Runs, Return(r) PROVE Goal
  <2>1. pc[r] = "ended" /\ pc' = [pc EXCEPT ![r] = "done"] /\ UNCHANGED <<row, aged, home, server>>
    BY <1>8 DEF Return, srvVars
  <2>2. /\ \A q \in {r} : pc[q] \in Live /\ pc'[q] \in {"unsent", "ended", "done", "lost"}
        /\ \A q \in Runs \ {r} : pc'[q] = pc[q]
    BY <2>1 DEF TypeOK, Live
  <2>3. \A c \in Runs : ~IsOuter(c) /\ Parent[c] \in {r} => pc[c] \notin Live
    BY <2>1 DEF ParentsInLoop, InLoop
  <2>4. NoHook'
    BY <2>1 DEF NoHook
  <2> QED
    <3>1. {r} \in SUBSET Runs /\ UNCHANGED home
          /\ \A q \in Runs \ {r} : row'[q] = row[q] /\ aged'[q] = aged[q]
      BY <2>1
    <3> HIDE DEF ExclInv
    <3> QED
      BY <3>1, <2>2, <2>3, <2>4, StopStepExcl
<1>9. ASSUME NEW r \in Runs, Age(r) PROVE Goal
  <2>1. ~Executing(r) /\ UNCHANGED <<row, pc, home, server>> /\ aged' = [aged EXCEPT ![r] = TRUE]
    BY <1>9 DEF Age, Executing, InLoop, hubVars, srvVars
  <2> QED
    BY <2>1 DEF ActiveRows, ParentsInLoop, NoHook, OneRunPerSession, Executing, TypeOK
<1>10. ASSUME Aside PROVE Goal
  <2>1. UNCHANGED <<row, pc, home>>
    BY <1>10, AsideKeeps
  <2>2. UNCHANGED <<aged, server>>
    BY <1>10 DEF Aside, Disconnect, Pump, PumpCancel, PumpError, PumpAnswerAgain, CancelRead,
       CancelLookup, CancelSignal, ShutdownRead, runVars, srvVars
  <2> QED
    BY <2>1, <2>2 DEF ActiveRows, ParentsInLoop, NoHook, OneRunPerSession, Executing
<1>11. ASSUME NEW c \in Cancellers, CancelWrite(c) PROVE Goal
  <2>1. UNCHANGED <<pc, home, server>> /\ Write(req[c].run, "cancelling")
    BY <1>11 DEF CancelWrite, srvVars
  <2> QED
    BY <2>1 DEF ActiveRows, ParentsInLoop, NoHook, OneRunPerSession, Executing, Write, Active, TypeOK
<1>12. ASSUME NEW s \in Servers, Crash(s) PROVE Goal
  <2> DEFINE lost == {r \in Runs : home[r] = s /\ pc[r] \in Live}
  <2>1. /\ \A r \in lost : pc[r] \in Live /\ pc'[r] \in {"unsent", "ended", "done", "lost"}
        /\ \A r \in Runs \ lost : pc'[r] = pc[r]
        /\ UNCHANGED <<row, aged, home>>
    BY <1>12 DEF Crash, LoseMemory
  <2>2. \A c \in Runs : ~IsOuter(c) /\ Parent[c] \in lost /\ pc[c] \in Live => pc'[c] = "lost"
    BY <1>12 DEF ParentsInLoop, Crash, LoseMemory
  <2>3. NoHook'
    BY <1>12 DEF NoHook, Crash, LoseMemory, TypeOK
  <2> QED
    <3>1. lost \in SUBSET Runs /\ UNCHANGED home
          /\ \A r \in Runs \ lost : row'[r] = row[r] /\ aged'[r] = aged[r]
      BY <2>1
    <3> HIDE DEF ExclInv, lost
    <3> QED
      BY <3>1, <2>1, <2>2, <2>3, StopStepExcl
<1>13. ASSUME NEW s \in Servers, ShutdownExpire(s) \/ Exit(s) PROVE Goal
  BY <1>13 DEF ShutdownExpire, Exit, NoHook
<1>14. ASSUME NEW s \in Servers, Restart(s) PROVE Goal
  <2>1. UNCHANGED <<pc, home>> /\ Expire({r \in Runs : aged[r]})
        /\ server' = [server EXCEPT ![s] = "up"]
    BY <1>14 DEF Restart
  <2>2. ActiveRows'
    BY <2>1 DEF ActiveRows, Executing, Expire, TypeOK
  <2> QED
    BY <2>1, <2>2 DEF ParentsInLoop, NoHook, OneRunPerSession, Executing, TypeOK
<1>15. ASSUME UNCHANGED vars PROVE Goal
  BY <1>15 DEF vars, ActiveRows, ParentsInLoop, NoHook, OneRunPerSession, Executing
<1>16. Goal
  <2>1. CASE Aside
    BY <2>1, <1>10
  <2>2. CASE \E r \in Runs, s \in Servers : StartRun(r, s)
    BY <2>2, <1>1
  <2>3. CASE \E r \in Runs : Delegate(r) \/ Loop(r) \/ WaitAnswered(r) \/ Age(r)
    BY <2>3, <1>2, <1>3, <1>4, <1>5, <1>6, <1>7, <1>8, <1>9 DEF Loop
  <2>4. CASE \E c \in Cancellers : CancelWrite(c)
    BY <2>4, <1>11
  <2>5. CASE \E s \in Servers : Crash(s) \/ ShutdownExpire(s) \/ Exit(s) \/ Restart(s)
    BY <2>5, <1>12, <1>13, <1>14
  <2> QED
    BY <2>1, <2>2, <2>3, <2>4, <2>5, <1>15 DEF Next, CancelStep, Aside
<1> QED
  BY <1>0, <1>16

(* Two runs of a session never execute at the same time, as long as no     *)
(* user leaves a waiting run alone for 30 minutes and no server is shut    *)
(* down by its hook: for any number of runs, cancels, servers and crashes. *)
THEOREM OneRun ==
  ASSUME ~LongWaits, ~Graceful
  PROVE Spec => []OneRunPerSession
<1>1. Init => ExclInv
  BY ExclInit
<1>2. ExclInv /\ [Next]_vars => ExclInv'
  BY ExclNext
<1>3. ExclInv => OneRunPerSession
  BY DEF ExclInv
<1> QED
  BY <1>1, <1>2, <1>3, PTL DEF Spec

-----------------------------------------------------------------------------
(* Outcomes                                                                *)

(* Cancel has found r in the registry, and may write its row from now on.  *)
LateCancel(r) ==
  \E c \in Cancellers : req[c].run = r /\ req[c].at \in {"written", "signalled", "refused"}

LEMMA LateCancelStays ==
  ASSUME TypeOK, [Next]_vars, NEW r \in Runs, LateCancel(r)
  PROVE LateCancel(r)'
<1>1. PICK c \in Cancellers : req[c].run = r /\ req[c].at \in {"written", "signalled", "refused"}
  BY DEF LateCancel
<1> DEFINE Goal == req'[c].run = r /\ req'[c].at \in {"written", "signalled", "refused"}
<1>2. Goal
  <2>1. CASE UNCHANGED req
    BY <1>1, <2>1
  <2>2. ASSUME NEW d \in Cancellers, NEW q \in Runs, CancelRead(d, q) PROVE Goal
    BY <1>1, <2>2 DEF CancelRead, TypeOK
  <2>3. ASSUME NEW d \in Cancellers, CancelStep(d) PROVE Goal
    BY <1>1, <2>3 DEF CancelStep, CancelLookup, CancelWrite, CancelSignal, TypeOK
  <2>4. ASSUME NEW s \in Servers, LoseMemory(s) PROVE Goal
    BY <1>1, <2>4 DEF LoseMemory, TypeOK
  <2>5. UNCHANGED req \/ (\E d \in Cancellers : CancelStep(d))
        \/ (\E d \in Cancellers, q \in Runs : CancelRead(d, q))
        \/ (\E s \in Servers : LoseMemory(s))
    BY DEF Next, vars, StartRun, Register, Delegate, Loop, Interrupted, Break, WaitUser,
       WaitAnswered, WaitCancelled, WaitDisconnected, Finish, FinishUnsent, LoopError,
       Return, Age,
       Disconnect, Pump, PumpCancel, PumpError, PumpAnswerAgain, Crash, ShutdownRead,
       ShutdownExpire, Exit, Restart
  <2> QED
    BY <2>1, <2>2, <2>3, <2>4, <2>5
<1> QED
  BY <1>2 DEF LateCancel


LEMMA SettledNext == TypeOK /\ EndedRunIsSettled /\ [Next]_vars => EndedRunIsSettled'
<1> SUFFICES ASSUME TypeOK, EndedRunIsSettled, [Next]_vars, NEW r \in Runs,
                    pc'[r] \in {"ended", "done"}
             PROVE row'[r] \in Terminal \/ (row'[r] = "cancelling" /\ LateCancel(r)')
  BY DEF EndedRunIsSettled, LateCancel
<1> DEFINE Settled == row[r] \in Terminal \/ (row[r] = "cancelling" /\ LateCancel(r))
           Goal == row'[r] \in Terminal \/ (row'[r] = "cancelling" /\ LateCancel(r)')
<1>1. pc[r] \in {"ended", "done"} => Settled
  BY DEF EndedRunIsSettled, LateCancel
<1>2. CASE row'[r] = row[r] /\ pc[r] \in {"ended", "done"}
  BY <1>1, <1>2, LateCancelStays
<1>3. ASSUME NEW q \in Runs, \/ \E s \in Servers : StartRun(q, s)
                             \/ FinishUnsent(q) \/ Delegate(q) \/ WaitUser(q) \/ WaitAnswered(q)
                             \/ WaitCancelled(q) \/ WaitDisconnected(q)
      PROVE Goal
  <2>1. pc'[q] \in {"created", "orphan", "waiting", "working", "draining", "unsent"}
        /\ \A d \in Runs \ {q} : row'[d] = row[d] /\ pc'[d] = pc[d]
    BY <1>3 DEF TypeOK, StartRun, FinishUnsent, Delegate, WaitUser, WaitAnswered,
       WaitCancelled, WaitDisconnected, Write
  <2> QED
    BY <1>2, <2>1
<1>4. ASSUME NEW q \in Runs, Finish(q) \/ LoopError(q) PROVE Goal
  <2>1. CASE q = r
    BY <1>4, <2>1 DEF TypeOK, Finish, LoopError, Write, Terminal
  <2>2. CASE q # r
    <3>1. row'[r] = row[r] /\ pc'[r] = pc[r]
      BY <1>4, <2>2 DEF TypeOK, Finish, LoopError, Write
    <3> QED
      BY <1>2, <3>1
  <2> QED
    BY <2>1, <2>2
<1>5. ASSUME NEW q \in Runs, Register(q) \/ Interrupted(q) \/ Break(q) \/ Return(q) \/ Age(q)
      PROVE Goal
  <2>1. row'[r] = row[r] /\ pc[r] \in {"ended", "done"}
    BY <1>5 DEF TypeOK, Register, Interrupted, Break, Return, Age
  <2> QED
    BY <1>2, <2>1
<1>6. ASSUME NEW c \in Cancellers, CancelWrite(c) PROVE Goal
  <2>1. pc'[r] = pc[r] /\ Write(req[c].run, "cancelling") /\ req' = [req EXCEPT ![c].at = "written"]
    BY <1>6 DEF CancelWrite
  <2>2. CASE req[c].run = r
    BY <2>1, <2>2 DEF TypeOK, LateCancel, Write
  <2>3. CASE req[c].run # r
    BY <1>2, <2>1, <2>3 DEF TypeOK, Write
  <2> QED
    BY <2>2, <2>3
<1>7. ASSUME UNCHANGED <<row, pc>> PROVE Goal
  BY <1>2, <1>7
<1>8. ASSUME NEW s \in Servers, LoseMemory(s), UNCHANGED row PROVE Goal
  <2>1. pc'[r] = pc[r]
    BY <1>8 DEF TypeOK, LoseMemory
  <2> QED
    BY <1>2, <1>8, <2>1
<1>9. ASSUME NEW rs \in SUBSET Runs, Expire(rs), UNCHANGED pc PROVE Goal
  <2>1. row'[r] = row[r] \/ row'[r] = "expired"
    BY <1>9 DEF TypeOK, Expire
  <2> QED
    BY <1>2, <1>9, <2>1 DEF Terminal
<1>10. CASE Aside
  BY <1>7, <1>10, AsideKeeps
<1>11. CASE \E s \in Servers : Crash(s) \/ ShutdownExpire(s) \/ Exit(s) \/ Restart(s)
  <2>1. \A s \in Servers : snap[s] \in SUBSET Runs
    BY DEF TypeOK
  <2>2. {q \in Runs : aged[q]} \in SUBSET Runs
    OBVIOUS
  <2> QED
    BY <1>8, <1>9, <1>11, <2>1, <2>2 DEF Crash, Exit, ShutdownExpire, Restart
<1>12. CASE UNCHANGED vars
  BY <1>7, <1>12 DEF vars
<1> QED
  BY <1>3, <1>4, <1>5, <1>6, <1>10, <1>11, <1>12 DEF Next, Loop, CancelStep, Aside

(* Whatever the order of waits, cancels, crashes and restarts, a goroutine *)
(* that has returned leaves its row neither running nor waiting.           *)
THEOREM Settled == Spec => []EndedRunIsSettled
<1>1. Init => TypeOK /\ EndedRunIsSettled
  BY TypeInit DEF Init, EndedRunIsSettled
<1>2. TypeOK /\ EndedRunIsSettled /\ [Next]_vars => TypeOK' /\ EndedRunIsSettled'
  BY TypeNext, SettledNext
<1> QED
  BY <1>1, <1>2, PTL DEF Spec


(* Whatever says that a run was cancelled goes back to such a request or   *)
(* to a lost connection: its row, the error of its loop, the cause of its  *)
(* context, a message on its way to a waiter. Where the connection is lost *)
(* the outer run knows it from the cause of its context.                   *)
Blame ==
  /\ CancelledForAReason
  /\ \A r \in Runs : err[r] = "cancelled" => Cancelled(Outer(r)) \/ Outer(r) \in gone
  /\ \A r \in Runs : cause[r] = "cancelled" => Cancelled(Outer(r))
  /\ \A r \in Runs : cause[r] = "disconnected" => Outer(r) \in gone
  /\ \A r \in gone : pc[r] \in InLoop => cause[r] # "none"
  /\ \A r \in Runs : pc[r] = "unsent" => err[r] = "disconnected"
  /\ \A r \in told : Cancelled(Outer(r))
  /\ \A o \in cancelMsg : Cancelled(o)
  /\ \A o \in gone : IsOuter(o)

LEMMA CancelledStays ==
  ASSUME TypeOK, [Next]_vars, NEW o, Cancelled(o)
  PROVE Cancelled(o)'
<1>1. PICK c \in Cancellers : req[c].at = "signalled" /\ Outer(req[c].run) = o
  BY DEF Cancelled
<1> DEFINE Goal == req'[c].at = "signalled" /\ req'[c].run = req[c].run
<1>2. Goal
  <2>1. CASE UNCHANGED req
    BY <1>1, <2>1
  <2>2. ASSUME NEW d \in Cancellers, NEW q \in Runs, CancelRead(d, q) PROVE Goal
    BY <1>1, <2>2 DEF CancelRead, TypeOK
  <2>3. ASSUME NEW d \in Cancellers, CancelStep(d) PROVE Goal
    BY <1>1, <2>3 DEF CancelStep, CancelLookup, CancelWrite, CancelSignal, TypeOK
  <2>4. ASSUME NEW s \in Servers, LoseMemory(s) PROVE Goal
    BY <1>1, <2>4 DEF LoseMemory, TypeOK
  <2>5. UNCHANGED req \/ (\E d \in Cancellers : CancelStep(d))
        \/ (\E d \in Cancellers, q \in Runs : CancelRead(d, q))
        \/ (\E s \in Servers : LoseMemory(s))
    BY DEF Next, vars, StartRun, Register, Delegate, Loop, Interrupted, Break, WaitUser,
       WaitAnswered, WaitCancelled, WaitDisconnected, Finish, FinishUnsent, LoopError,
       Return, Age,
       Disconnect, Pump, PumpCancel, PumpError, PumpAnswerAgain, Crash, ShutdownRead,
       ShutdownExpire, Exit, Restart
  <2> QED
    BY <2>1, <2>2, <2>3, <2>4, <2>5
<1> QED
  BY <1>1, <1>2 DEF Cancelled, Outer, OutersOf, IsOuter


LEMMA BlameNext == TypeOK /\ Blame /\ [Next]_vars => Blame'
<1> SUFFICES ASSUME TypeOK, Blame, [Next]_vars PROVE Blame'
  OBVIOUS
<1> DEFINE C(o) == Cancelled(o) \/ Cancelled(o)'
           Rows == \A r \in Runs : row'[r] = "cancelled" =>
                     C(Outer(r)) \/ (~IsOuter(r) /\ Outer(r) \in gone')
           Errs == \A r \in Runs : err'[r] = "cancelled" => C(Outer(r)) \/ Outer(r) \in gone'
           Causes == /\ \A r \in Runs : cause'[r] = "cancelled" => C(Outer(r))
                     /\ \A r \in Runs : cause'[r] = "disconnected" => Outer(r) \in gone'
           Known == /\ \A r \in gone' : pc'[r] \in InLoop => cause'[r] # "none"
                    /\ \A r \in Runs : pc'[r] = "unsent" => err'[r] = "disconnected"
                    /\ \A o \in gone' : IsOuter(o)
           Hub == (\A r \in told' : C(Outer(r))) /\ (\A o \in cancelMsg' : C(o))
           Goal == Rows /\ Errs /\ Causes /\ Known /\ Hub
<1>0. /\ \A r \in Runs : row[r] = "cancelled" =>
                     C(Outer(r)) \/ (~IsOuter(r) /\ Outer(r) \in gone)
      /\ \A r \in Runs : err[r] = "cancelled" => C(Outer(r)) \/ Outer(r) \in gone
      /\ \A r \in Runs : cause[r] = "cancelled" => C(Outer(r))
      /\ \A r \in Runs : cause[r] = "disconnected" => Outer(r) \in gone
      /\ \A r \in gone : pc[r] \in InLoop => cause[r] # "none"
      /\ \A r \in Runs : pc[r] = "unsent" => err[r] = "disconnected"
      /\ \A r \in told : C(Outer(r))
      /\ \A o \in cancelMsg : C(o)
      /\ \A o \in gone : IsOuter(o)
  BY DEF Blame, CancelledForAReason
<1> HIDE DEF C
<1> USE DEF TypeOK
<1>1. ASSUME NEW r \in Runs, \/ \E s \in Servers : StartRun(r, s)
                             \/ WaitUser(r) \/ WaitAnswered(r) \/ Finish(r) \/ FinishUnsent(r)
                             \/ Break(r) \/ Age(r)
      PROVE Goal
  BY <1>0, <1>1 DEF StartRun, WaitUser, WaitAnswered, Finish, FinishUnsent, Break, Age,
     FirstError, Write, hubVars, InLoop
<1>2. ASSUME NEW r \in Runs, Delegate(r) PROVE Goal
  BY <1>0, <1>2, SameTree DEF Delegate, FirstError, Write, hubVars, InLoop
<1>3. ASSUME NEW r \in Runs, Register(r) PROVE Goal
  BY <1>0, <1>3, SameTree, OuterOfOuter DEF Register, hubVars, InLoop
<1>4. ASSUME NEW r \in Runs, Interrupted(r) PROVE Goal
  BY <1>0, <1>4 DEF Interrupted, FirstError, hubVars, InLoop
<1>5. ASSUME NEW r \in Runs, WaitCancelled(r) \/ WaitDisconnected(r) PROVE Goal
  BY <1>0, <1>5 DEF WaitCancelled, WaitDisconnected, FirstError, Write, hubVars, InLoop
<1>6. ASSUME NEW r \in Runs, LoopError(r) PROVE Goal
  <2>1. UNCHANGED <<err, cause, hubVars>> /\ err[r] # "none"
        /\ pc' = [pc EXCEPT ![r] = "ended"] /\ pc[r] \in {"working", "draining", "unsent"}
    BY <1>6 DEF LoopError
  <2>2. Errs /\ Causes /\ Known /\ Hub
    BY <1>0, <2>1 DEF hubVars, InLoop
  <2>3. ASSUME row'[r] = "cancelled"
        PROVE  C(Outer(r)) \/ (~IsOuter(r) /\ Outer(r) \in gone)
    <3>1. err[r] = "cancelled" /\ ~(IsOuter(r) /\ cause[r] = "disconnected")
      BY <1>6, <2>3 DEF LoopError, Write
    <3>2. CASE IsOuter(r) /\ r \in gone
      <4>1. pc[r] \in InLoop
        BY <1>0, <2>1, <3>1 DEF InLoop
      <4> QED
        BY <1>0, <3>1, <3>2, <4>1
    <3> QED
      BY <1>0, <3>1, <3>2, OuterOfOuter
  <2>4. \A d \in Runs \ {r} : row'[d] = row[d]
    BY <1>6 DEF LoopError, Write
  <2>5. Rows
    BY <1>0, <2>1, <2>3, <2>4 DEF hubVars
  <2> QED
    BY <2>2, <2>5
<1>7. ASSUME NEW r \in Runs, Return(r) PROVE Goal
  <2>1. /\ pc[r] = "ended" /\ pc' = [pc EXCEPT ![r] = "done"] /\ UNCHANGED <<row, gone>>
        /\ cause' = [cause EXCEPT ![r] = "none"]
        /\ told' \subseteq told /\ cancelMsg' \subseteq cancelMsg
    BY <1>7 DEF Return, ForgetHub
  <2>2. \A d \in Runs : \/ err'[d] = err[d] \/ d = r
                        \/ d = Parent[r] /\ err'[d] = FirstError(d, err[r])
    BY <1>7 DEF Return
  <2>3. Parent[r] \in Runs => Outer(Parent[r]) = Outer(r)
    BY SameTree, RunAssumption DEF IsOuter
  <2>4. \A d \in Runs : err[d] # "none" => err'[d] = err[d] \/ d = r
    BY <2>2 DEF FirstError
  <2>5. Errs
    BY <1>0, <1>7, <2>1, <2>2, <2>3 DEF Return, FirstError
  <2>6. Rows /\ Causes /\ Hub
    BY <1>0, <2>1
  <2>7. Known
    BY <1>0, <2>1, <2>4 DEF InLoop
  <2> QED
    BY <2>5, <2>6, <2>7
<1>8. ASSUME NEW o \in Runs, Disconnect(o) PROVE Goal
  <2>1. /\ UNCHANGED <<row, pc, err, told, cancelMsg>> /\ gone' = gone \cup {o} /\ IsOuter(o)
        /\ \A d \in Runs : \/ cause'[d] = cause[d]
                           \/ d \in SelfAndBelow(o) /\ cause'[d] = "disconnected"
        /\ pc[o] \in InLoop => cause'[o] # "none"
    BY <1>8 DEF Disconnect, CancelContext, runVars, SelfAndBelow
  <2>2. \A d \in SelfAndBelow(o) : Outer(d) = o
    BY <2>1, SameTree, OuterOfOuter DEF SelfAndBelow
  <2>3. Rows /\ Errs /\ Hub
    BY <1>0, <2>1
  <2>4. Causes
    BY <1>0, <2>1, <2>2
  <2>5. Known
    BY <1>0, <2>1
  <2> QED
    BY <2>3, <2>4, <2>5
<1>9. ASSUME NEW o \in Runs, Pump(o) \/ PumpAnswerAgain(o) PROVE Goal
  <2>1. UNCHANGED <<row, pc, err, cause, gone>> /\ cancelMsg' \subseteq cancelMsg
    BY <1>9 DEF Pump, PumpCancel, PumpError, PumpAnswerAgain, runVars
  <2>2. told' = told \/ (o \in cancelMsg /\ \A r \in told' : r \in told \/ Outer(r) = o)
    BY <1>9 DEF Pump, PumpCancel, PumpError, PumpAnswerAgain, OpenWaits, Tree
  <2>3. Hub
    BY <1>0, <2>1, <2>2
  <2> QED
    BY <1>0, <2>1, <2>3
<1>10. ASSUME NEW c \in Cancellers, \/ \E r \in Runs : CancelRead(c, r)
                                    \/ CancelLookup(c) \/ CancelWrite(c)
       PROVE Goal
  <2>1. UNCHANGED <<pc, err, cause, gone, told, cancelMsg>>
    BY <1>10 DEF CancelRead, CancelLookup, CancelWrite, runVars, hubVars
  <2>2. Rows
    BY <1>0, <1>10, <2>1 DEF CancelRead, CancelLookup, CancelWrite, Write, runVars
  <2> QED
    BY <1>0, <2>1, <2>2
<1>11. ASSUME NEW c \in Cancellers, CancelSignal(c) PROVE Goal
  <2>0. PICK q \in Runs : q = req[c].run
    BY <1>11 DEF CancelSignal
  <2>1. req'[c].at = "signalled" /\ req'[c].run = q
    BY <1>11, <2>0 DEF CancelSignal
  <2>2. C(Outer(q))
    BY <2>1 DEF C, Cancelled, Outer, OutersOf, IsOuter
  <2>3. \A d \in SelfAndBelow(q) : Outer(d) = Outer(q)
    BY SameTree DEF SelfAndBelow
  <2>4. /\ UNCHANGED <<row, pc, err, told, gone>> /\ cancelMsg' \subseteq cancelMsg \cup {Outer(q)}
        /\ \A d \in Runs : \/ cause'[d] = cause[d]
                           \/ d \in SelfAndBelow(q) /\ cause'[d] = "cancelled"
    BY <1>11, <2>0 DEF CancelSignal, CancelContext, runVars
  <2>5. Rows /\ Errs
    BY <1>0, <2>4
  <2>6. Causes
    BY <1>0, <2>2, <2>3, <2>4
  <2>7. Known
    BY <1>0, <2>4
  <2>8. Hub
    BY <1>0, <2>2, <2>4
  <2> QED
    BY <2>5, <2>6, <2>7, <2>8
<1>12. ASSUME NEW s \in Servers, Crash(s) \/ Exit(s) PROVE Goal
  <2>1. /\ UNCHANGED <<row, gone>> /\ told' \subseteq told /\ cancelMsg' \subseteq cancelMsg
        /\ \A r \in Runs :
             \/ pc'[r] = pc[r] /\ err'[r] = err[r] /\ cause'[r] = cause[r]
             \/ pc'[r] \notin InLoop \cup {"unsent"} /\ err'[r] = "none" /\ cause'[r] = "none"
    BY <1>12 DEF Crash, Exit, LoseMemory, ForgetHub, Live, InLoop
  <2>2. Rows /\ Errs
    BY <1>0, <2>1
  <2>3. Causes /\ Known
    BY <1>0, <2>1 DEF InLoop
  <2>4. Hub
    BY <1>0, <2>1
  <2> QED
    BY <2>2, <2>3, <2>4
<1>13. ASSUME NEW s \in Servers, ShutdownRead(s) \/ ShutdownExpire(s) \/ Restart(s) PROVE Goal
  <2>1. UNCHANGED <<pc, err, cause, gone, told, cancelMsg>>
    BY <1>13 DEF ShutdownRead, ShutdownExpire, Restart, runVars, hubVars
  <2>2. \A r \in Runs : row'[r] = "cancelled" => row[r] = "cancelled"
    BY <1>13 DEF ShutdownRead, ShutdownExpire, Restart, Expire, runVars
  <2> QED
    BY <1>0, <2>1, <2>2
<1>14. ASSUME UNCHANGED vars PROVE Goal
  <2>1. UNCHANGED <<row, pc, err, cause, gone, told, cancelMsg>>
    BY <1>14 DEF vars
  <2> QED
    BY <1>0, <2>1
<1>15. Goal
  BY <1>1, <1>2, <1>3, <1>4, <1>5, <1>6, <1>7, <1>8, <1>9, <1>10, <1>11, <1>12, <1>13,
     <1>14 DEF Next, Loop, CancelStep
<1>16. \A o : C(o) => Cancelled(o)'
  BY CancelledStays DEF C
<1> QED
  BY <1>15, <1>16 DEF Blame, CancelledForAReason

(* An outer run is never recorded as cancelled unless a user has cancelled *)
(* a run of its tree; a sub run also when the connection of its tree is    *)
(* lost.                                                                   *)
THEOREM Blamed == Spec => []CancelledForAReason
<1>1. Init => TypeOK /\ Blame
  BY TypeInit DEF Init, Blame, CancelledForAReason
<1>2. TypeOK /\ Blame /\ [Next]_vars => TypeOK' /\ Blame'
  BY TypeNext, BlameNext
<1>3. Blame => CancelledForAReason
  BY DEF Blame
<1> QED
  BY <1>1, <1>2, <1>3, PTL DEF Spec

-----------------------------------------------------------------------------
(* Who may take an outcome back                                            *)

(* Only three writers take the outcome in the row of r back: a Cancel that *)
(* has found the run in the registry before its goroutine left it, the     *)
(* goroutine whose done event has failed, and the goroutine of a run that  *)
(* was expired under it.                                                   *)
TakenBack(r) ==
  \/ /\ row'[r] = "cancelling"
     /\ \E c \in Cancellers : req[c] = [at |-> "found", run |-> r] /\ req'[c].at = "written"
  \/ pc[r] = "unsent" /\ pc'[r] = "ended"
  \/ Executing(r) /\ row[r] = "expired"

(* An outcome is not final (see OutcomeIsFinal), but nobody else replaces  *)
(* it (Cancel; finish and run; ExpireReactRunsByRunIDs): once a goroutine  *)
(* has returned or is lost, only the Cancel is left.                       *)
OutcomesStand ==
  [][\A r \in Runs : row[r] \in Terminal /\ row'[r] # row[r] => TakenBack(r)]_<<row, pc, req>>

(* A run that executes has no outcome but one that was given to it.        *)
OnlyExpires == \A r \in Runs : Executing(r) /\ row[r] \in Terminal => row[r] = "expired"

LEMMA OutcomeStep ==
  ASSUME TypeOK, OnlyExpires, [Next]_vars, NEW r \in Runs
  PROVE  /\ row[r] \in Terminal /\ row'[r] # row[r] => TakenBack(r)
         /\ Executing(r)' /\ row'[r] \in Terminal => row'[r] = "expired"
<1> DEFINE Goal == /\ row[r] \in Terminal /\ row'[r] # row[r] => TakenBack(r)
                   /\ Executing(r)' /\ row'[r] \in Terminal => row'[r] = "expired"
<1>1. CASE row'[r] = row[r] /\ (Executing(r)' => Executing(r))
  BY <1>1 DEF OnlyExpires
<1>2. CASE /\ row'[r] \in Active \/ row'[r] = row[r]
           /\ row[r] = "none" \/ Executing(r)
  BY <1>2 DEF OnlyExpires, TakenBack, Active, Terminal
<1>3. CASE Executing(r) /\ ~Executing(r)'
  BY <1>3 DEF OnlyExpires, TakenBack
<1>4. ASSUME NEW q \in Runs, \/ \E s \in Servers : StartRun(q, s)
                             \/ Delegate(q) \/ WaitUser(q) \/ WaitAnswered(q)
                             \/ WaitCancelled(q) \/ WaitDisconnected(q)
      PROVE  Goal
  <2>1. row[q] = "none" \/ Executing(q)
    BY <1>4 DEF StartRun, Delegate, WaitUser, WaitAnswered, WaitCancelled, WaitDisconnected,
       Executing, InLoop
  <2>2. row'[q] \in Active \/ row'[q] = row[q]
    BY <1>4 DEF TypeOK, StartRun, Delegate, WaitUser, WaitAnswered, WaitCancelled,
       WaitDisconnected, Write, Active
  <2>3. ASSUME NEW d \in Runs \ {q} PROVE row'[d] = row[d] /\ pc'[d] = pc[d]
    BY <1>4 DEF TypeOK, StartRun, Delegate, WaitUser, WaitAnswered, WaitCancelled,
       WaitDisconnected, Write
  <2> QED
    BY <1>1, <1>2, <2>1, <2>2, <2>3 DEF Executing
<1>5. ASSUME NEW q \in Runs, Finish(q) \/ FinishUnsent(q) \/ LoopError(q) PROVE Goal
  <2>1. CASE q # r
    <3>1. row'[r] = row[r] /\ pc'[r] = pc[r]
      BY <1>5, <2>1 DEF TypeOK, Finish, FinishUnsent, LoopError, Write
    <3> QED
      BY <1>1, <3>1 DEF Executing
  <2>2. CASE q = r
    <3>1. pc[r] \in {"working", "draining", "unsent"} /\ pc'[r] \in {"ended", "unsent"}
      BY <1>5, <2>2 DEF TypeOK, Finish, FinishUnsent, LoopError
    <3>2. pc[r] = "unsent" => pc'[r] = "ended"
      BY <1>5, <2>2 DEF TypeOK, Finish, FinishUnsent, LoopError
    <3>3. ~Executing(r)'
      BY <3>1 DEF Executing, InLoop
    <3>4. CASE pc[r] = "unsent"
      BY <3>2, <3>3, <3>4 DEF TakenBack
    <3>5. CASE pc[r] # "unsent"
      BY <1>3, <3>1, <3>3, <3>5 DEF Executing, InLoop
    <3> QED
      BY <3>4, <3>5
  <2> QED
    BY <2>1, <2>2
<1>6. ASSUME NEW q \in Runs, Register(q) \/ Interrupted(q) \/ Break(q) \/ Return(q) \/ Age(q)
      PROVE  Goal
  <2>1. row' = row /\ (pc'[r] # pc[r] => Executing(r) \/ pc'[r] = "done")
    BY <1>6 DEF TypeOK, Register, Interrupted, Break, Return, Age, Executing, InLoop
  <2> QED
    BY <1>1, <2>1 DEF Executing, InLoop
<1>7. ASSUME NEW c \in Cancellers, CancelWrite(c) PROVE Goal
  <2>1. /\ pc'[r] = pc[r] /\ Write(req[c].run, "cancelling") /\ req[c].at = "found"
        /\ req' = [req EXCEPT ![c].at = "written"]
    BY <1>7 DEF CancelWrite
  <2>2. CASE req[c].run = r
    <3>1. row'[r] = "cancelling" /\ req'[c].at = "written"
      BY <2>1, <2>2 DEF TypeOK, Write
    <3>2. req[c] = [at |-> "found", run |-> r]
      BY <2>1, <2>2 DEF TypeOK
    <3> QED
      BY <3>1, <3>2 DEF TakenBack, Terminal
  <2>3. CASE req[c].run # r
    <3>1. row'[r] = row[r]
      BY <2>1, <2>3 DEF TypeOK, Write
    <3> QED
      BY <1>1, <2>1, <3>1 DEF Executing
  <2> QED
    BY <2>2, <2>3
<1>8. ASSUME UNCHANGED <<row, pc>> PROVE Goal
  BY <1>1, <1>8 DEF Executing
<1>9. ASSUME NEW s \in Servers, LoseMemory(s), UNCHANGED row PROVE Goal
  <2>1. pc'[r] = pc[r] \/ pc'[r] = "lost"
    BY <1>9 DEF TypeOK, LoseMemory
  <2> QED
    BY <1>1, <1>9, <2>1 DEF Executing, InLoop
<1>10. ASSUME NEW rs \in SUBSET Runs, Expire(rs), UNCHANGED pc PROVE Goal
  <2>1. row'[r] = row[r] \/ (row'[r] = "expired" /\ row[r] \in Active)
    BY <1>10 DEF TypeOK, Expire
  <2>2. Active \cap Terminal = {}
    BY DEF Active, Terminal
  <2> QED
    BY <1>1, <1>10, <2>1, <2>2 DEF Executing
<1>11. CASE Aside
  BY <1>8, <1>11, AsideKeeps
<1>12. CASE \E s \in Servers : Crash(s) \/ ShutdownExpire(s) \/ Exit(s) \/ Restart(s)
  <2>1. \A s \in Servers : snap[s] \in SUBSET Runs
    BY DEF TypeOK
  <2>2. {q \in Runs : aged[q]} \in SUBSET Runs
    OBVIOUS
  <2> QED
    BY <1>9, <1>10, <1>12, <2>1, <2>2 DEF Crash, Exit, ShutdownExpire, Restart
<1>13. CASE UNCHANGED vars
  BY <1>8, <1>13 DEF vars
<1> QED
  BY <1>4, <1>5, <1>6, <1>7, <1>11, <1>12, <1>13 DEF Next, Loop, CancelStep, Aside

(* The outcome of a run stands, whatever races with its end, but for the   *)
(* late write of a Cancel that was accepted while the run executed.        *)
THEOREM OutcomeTakenBack == Spec => OutcomesStand
<1> DEFINE Step == \A r \in Runs : row[r] \in Terminal /\ row'[r] # row[r] => TakenBack(r)
<1>1. Init => OnlyExpires
  BY DEF Init, OnlyExpires, Executing, InLoop
<1>2. TypeOK /\ OnlyExpires /\ [Next]_vars => OnlyExpires' /\ [Step]_<<row, pc, req>>
  <2>1. TypeOK /\ OnlyExpires /\ [Next]_vars => OnlyExpires'
    BY OutcomeStep DEF OnlyExpires
  <2>2. TypeOK /\ OnlyExpires /\ [Next]_vars => Step
    BY OutcomeStep
  <2> QED
    BY <2>1, <2>2
<1>3. Spec => [][Step]_<<row, pc, req>>
  BY <1>1, <1>2, TypeInit, TypeNext, PTL DEF Spec
<1> QED
  BY <1>3 DEF OutcomesStand
=============================================================================
