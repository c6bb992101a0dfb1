----------------------------- MODULE McpProofs -----------------------------
(***************************************************************************)
(* Theorems about the MCP servers a run works with: the register of those  *)
(* an administrator configures and the tools a session loads from it, and  *)
(* the servers of the workspaces that a run loads and releases itself, for *)
(* any callers, versions, workers, requests and runs.                      *)
(*                                                                         *)
(* The argument for the register is about a handler that runs alone: what  *)
(* it knows at each statement stays true until its next one, since nobody  *)
(* else writes.  When another request comes it is no longer sound, and     *)
(* nothing is claimed of what it reports.                                  *)
(***************************************************************************)
EXTENDS ToolActivation, Workspace, TLAPS

-----------------------------------------------------------------------------
(* The register.                                                           *)

Tools == [caller : Callers \cup {Nobody}, def : Definitions, on : BOOLEAN, live : BOOLEAN]

RegistryTypes ==
  /\ row \in Rows /\ bound \subseteq Callers /\ off \subseteq Callers /\ check \in Checks
  /\ client \in Versions \cup {NoVersion}
  /\ tool \in [ToolIds -> Tools]
  /\ h \in [Workers -> Handlers] /\ last \in Results /\ requests \in 0 .. MaxRequests

\* A row that was written has an owner and an endpoint, and so has its copy.
Registered(r) == r.owner \in Callers /\ r.ver \in Versions

\* A tool that was written has a definition, and under a caller's id it is a
\* tool of that caller.
Kept(i, y) ==
  \/ y.caller \in Callers /\ y.def # NoVersion /\ (i # Primary => y.caller = i)
  \/ ~y.live /\ y = NoTool

Grounded ==
  /\ row.live => Registered(row)
  /\ \A w \in Workers : h[w].pc # "idle" => Registered(h[w].snap)
  /\ \A i \in ToolIds : Kept(i, tool[i])

\* The callers that a sync is for.
Served == (bound \ off) \cup {row.owner}

\* What a handler that runs alone knows before each of its statements.  The row
\* is what it has written or read, but for the status of a new one.
Knows(x) ==
  /\ x.pc = "revive" => x.snap.live
  /\ x.pc \in {"revive", "bind"} => x.op = "create"
  /\ x.pc \in {"write", "reread"} => row.live /\ row.id = x.snap.id
  /\ x.pc = "bind" => row.live /\ (x.snap.on => row = x.snap)
  /\ x.pc = "stop" => row.live /\ (x.op # "create" => row = x.snap)
  /\ x.pc \in {"rebind", "unbind", "start", "callers", "sync", "purge", "delete"}
       => row = x.snap /\ row.live
  /\ x.pc \in {"start", "callers", "sync"} => row.on
  /\ x.pc \in {"callers", "sync"} => client = row.ver
  /\ x.pc = "sync" => \A c \in Served \ x.todo : Serving(ToolIdOf(c, row), row.ver)
  /\ x.pc \in {"stop", "purge"} /\ x.op \notin {"create", "delete"} => ~row.on
  /\ x.pc = "purge" => x.op # "create"
  /\ x.pc = "result" => ~row.on
  /\ x.pc \in {"purge", "result", "delete"} => client = NoVersion
  /\ x.pc \in {"result", "delete"} => \A i \in ToolIds : ~tool[i].live

Undisturbed ==
  /\ \A w \in Workers : h[w].sound =>
       Knows(h[w]) /\ \A u \in Workers \ {w} : h[u] = Idle
  /\ last # "none" => \A u \in Workers : h[u] = Idle

RegistryInv ==
  RegistryTypes /\ Grounded /\ Undisturbed /\ ConnectedIsSynced /\ GoneLeavesNothing

LEMMA IdleType == Idle \in Handlers /\ Idle.pc = "idle" /\ Idle.sound = FALSE
<1>1. NoRow \in Rows
  BY RegistryAssumption DEF NoRow, Rows
<1> QED
  BY <1>1 DEF Idle, Handlers, Phases, Rows

LEMMA RegistryStarts == RegistryInit => RegistryInv
<1> SUFFICES ASSUME RegistryInit PROVE RegistryInv
  OBVIOUS
<1>1. NoRow \in Rows /\ NoRow.live = FALSE /\ NoTool \in Tools /\ NoTool.live = FALSE
  BY RegistryAssumption DEF NoRow, Rows, NoTool, Tools, Definitions
<1>2. RegistryTypes
  BY <1>1, IdleType, RegistryAssumption DEF RegistryInit, RegistryTypes, Checks, Results
<1>3. Grounded /\ Undisturbed
  BY <1>1, IdleType DEF RegistryInit, Grounded, Undisturbed, Kept
<1> QED
  BY <1>2, <1>3 DEF RegistryInit, RegistryInv, ConnectedIsSynced, GoneLeavesNothing

\* A statement of one handler finds the others idle or unsound.
LEMMA OthersUnsound ==
  ASSUME RegistryInv, NEW w \in Workers, h[w].pc # "idle"
  PROVE  /\ \A u \in Workers \ {w} : ~h[u].sound
         /\ last = "none"
         /\ h[w] \in Handlers /\ Registered(h[w].snap)
BY IdleType DEF RegistryInv, RegistryTypes, Undisturbed, Grounded

\* What each kind of statement has to establish.
Written ==
  /\ row \in Rows /\ bound \subseteq Callers /\ off \subseteq Callers /\ check \in Checks
  /\ client \in Versions \cup {NoVersion} /\ tool \in [ToolIds -> Tools]
  /\ row.live => Registered(row)
  /\ \A i \in ToolIds : Kept(i, tool[i])

LEMMA Continues ==
  ASSUME RegistryInv, NEW w \in Workers, h[w].pc # "idle", NEW x \in Handlers,
         h' = [h EXCEPT ![w] = x], last' = last, requests' = requests, Written',
         Registered(x.snap), x.sound => h[w].sound, x.sound => Knows(x)'
  PROVE  RegistryInv'
<1>1. /\ \A u \in Workers \ {w} : ~h[u].sound /\ h'[u] = h[u]
      /\ last' = "none" /\ h'[w] = x /\ h' \in [Workers -> Handlers]
  BY OthersUnsound DEF RegistryInv, RegistryTypes
<1>2. RegistryTypes'
  BY <1>1 DEF RegistryInv, RegistryTypes, Written
<1>3. Grounded'
  BY <1>1 DEF RegistryInv, Grounded, Written
<1>4. Undisturbed'
  <2>1. \A u \in Workers : h'[u].sound => u = w
    BY <1>1
  <2>2. x.sound => \A u \in Workers \ {w} : h'[u] = Idle
    BY <1>1 DEF RegistryInv, Undisturbed
  <2> QED
    BY <1>1, <2>1, <2>2 DEF Undisturbed, Knows
<1> QED
  BY <1>1, <1>2, <1>3, <1>4 DEF RegistryInv, ConnectedIsSynced, GoneLeavesNothing

LEMMA Concludes ==
  ASSUME RegistryInv, NEW w \in Workers, h[w].pc # "idle", NEW result \in Results,
         Ends(w, result), requests' = requests, Written',
         h[w].sound /\ result = "connected" =>
           (/\ row.live /\ row.on /\ check = "connected" /\ client = row.ver
            /\ \A c \in Served : Serving(ToolIdOf(c, row), row.ver))',
         h[w].sound /\ result \in {"off", "deleted"} =>
           (/\ ~(row.live /\ row.on) /\ client = NoVersion
            /\ \A i \in ToolIds : ~tool[i].live)'
  PROVE  RegistryInv'
<1>1. /\ \A u \in Workers \ {w} : ~h[u].sound /\ h'[u] = h[u]
      /\ h'[w] = Idle /\ h' \in [Workers -> Handlers]
      /\ last' = IF h[w].sound THEN result ELSE "none"
  BY OthersUnsound, IdleType DEF RegistryInv, RegistryTypes, Ends
<1>2. RegistryTypes'
  BY <1>1 DEF RegistryInv, RegistryTypes, Written, Results
<1>3. Grounded'
  BY <1>1, IdleType DEF RegistryInv, Grounded, Written
<1>4. Undisturbed'
  <2>1. \A u \in Workers : ~h'[u].sound
    BY <1>1, IdleType
  <2>2. h[w].sound => \A u \in Workers : h'[u] = Idle
    BY <1>1 DEF RegistryInv, Undisturbed
  <2> QED
    BY <1>1, <2>1, <2>2 DEF Undisturbed
<1>5. ConnectedIsSynced'
  BY <1>1 DEF ConnectedIsSynced, Served
<1>6. GoneLeavesNothing'
  BY <1>1 DEF GoneLeavesNothing
<1> QED
  BY <1>2, <1>3, <1>4, <1>5, <1>6 DEF RegistryInv

-----------------------------------------------------------------------------
(* A request comes.                                                        *)

LEMMA BeginsKeeps ==
  ASSUME RegistryInv, NEW w \in Workers, NEW x \in Handlers, Begins(w, x),
         Registered(x.snap), Knows(x)
  PROVE  RegistryInv'
<1>1. PICK b \in BOOLEAN : b = (\A u \in Workers : h[u] = Idle)
  OBVIOUS
<1>2. PICK y : y = [x EXCEPT !.sound = b]
  OBVIOUS
<1>3. y \in Handlers /\ y.snap = x.snap /\ y.sound = b /\ y.pc = x.pc
      /\ y.op = x.op /\ y.todo = x.todo
  BY <1>2 DEF Handlers
<1>4. \A u \in Workers : h[u] \in Handlers
  BY DEF RegistryInv, RegistryTypes
<1>5. /\ h'[w] = y /\ \A u \in Workers \ {w} : h'[u] = [h[u] EXCEPT !.sound = FALSE]
      /\ \A u \in Workers \ {w} : h'[u] \in Handlers /\ ~h'[u].sound
           /\ h'[u].snap = h[u].snap /\ h'[u].pc = h[u].pc
  <2>1. h' = [v \in Workers |-> IF v = w THEN [x EXCEPT !.sound = \A u \in Workers : h[u] = Idle]
                               ELSE [h[v] EXCEPT !.sound = FALSE]]
    BY DEF Begins
  <2>2. h'[w] = [x EXCEPT !.sound = \A u \in Workers : h[u] = Idle]
    BY <2>1, Zenon
  <2>3. h'[w] = y
    BY <1>1, <1>2, <2>2
  <2>4. \A u \in Workers \ {w} : h'[u] = [h[u] EXCEPT !.sound = FALSE]
    BY <2>1, Zenon
  <2> QED
    <3> SUFFICES ASSUME NEW u \in Workers \ {w}
                 PROVE  /\ h'[u] \in Handlers /\ ~h'[u].sound
                        /\ h'[u].snap = h[u].snap /\ h'[u].pc = h[u].pc
      BY <2>3, <2>4
    <3>1. PICK y0 : y0 = h[u]
      OBVIOUS
    <3>2. y0 \in Handlers /\ h'[u] = [y0 EXCEPT !.sound = FALSE]
      BY <1>4, <2>4, <3>1
    <3>3. PICK z : z = [y0 EXCEPT !.sound = FALSE]
      OBVIOUS
    <3>4. z \in Handlers /\ z.sound = FALSE /\ z.snap = y0.snap /\ z.pc = y0.pc
      BY <3>2, <3>3 DEF Handlers
    <3> QED
      BY <3>1, <3>2, <3>3, <3>4
<1>6. h' = [v \in Workers |-> h'[v]]
  BY Zenon DEF Begins
<1>7. h' \in [Workers -> Handlers]
  BY <1>3, <1>5, <1>6
<1>8. RegistryTypes'
  BY <1>7, RegistryAssumption DEF RegistryInv, RegistryTypes, Begins, Results
<1>9. Grounded'
  BY <1>3, <1>5 DEF RegistryInv, Grounded, Begins, Registered
<1>10. [Idle EXCEPT !.sound = FALSE] = Idle
  BY IdleType DEF Handlers
<1>11. Undisturbed'
  <2>1. Knows(y)'
    BY <1>3 DEF Begins, Knows, Serving, Served, ToolIdOf
  <2>2. y.sound => \A u \in Workers \ {w} : h'[u] = Idle
    BY <1>1, <1>3, <1>5, <1>10
  <2>3. last' = "none"
    BY DEF Begins
  <2> QED
    BY <1>5, <2>1, <2>2, <2>3 DEF Undisturbed
<1> QED
  BY <1>8, <1>9, <1>11 DEF RegistryInv, ConnectedIsSynced, GoneLeavesNothing, Begins

LEMMA RequestsKeep ==
  ASSUME RegistryInv, NEW w \in Workers,
         \/ \E o \in Owners, v \in Versions, on \in BOOLEAN, bind \in SUBSET Callers :
              Create(w, o, v, on, bind)
         \/ \E v \in Versions : UpdateEndpoint(w, v)
         \/ \E on \in BOOLEAN : UpdateStatus(w, on)
         \/ \E bind \in SUBSET Callers : UpdateBindings(w, bind)
         \/ Delete(w) \/ Connect(w)
  PROVE  RegistryInv'
<1> USE RegistryAssumption
<1>1. row \in Rows /\ bound \subseteq Callers /\ requests \in 0 .. MaxRequests
      /\ (row.live => Registered(row))
  BY DEF RegistryInv, RegistryTypes, Grounded
<1>2. ASSUME NEW o \in Owners, NEW v \in Versions, NEW on \in BOOLEAN, NEW bind \in SUBSET Callers,
             Create(w, o, v, on, bind)
      PROVE  RegistryInv'
  <2>1. PICK r : r = [id |-> requests + 1, owner |-> o, ver |-> v, on |-> on, live |-> TRUE]
    OBVIOUS
  <2>2. r \in Rows /\ r.live /\ Registered(r)
    <3>1. requests < MaxRequests
      BY <1>2 DEF Create, Begins
    <3>2. requests + 1 \in 0 .. MaxRequests
      BY <1>1, <3>1
    <3> QED
      BY <2>1, <3>2 DEF Rows, Registered
  <2>3. PICK x : x = [Idle EXCEPT !.pc = "revive", !.op = "create",
                        !.bind = Normalized(o, bind), !.snap = r]
    OBVIOUS
  <2>4. x \in Handlers /\ x.pc = "revive" /\ x.snap = r /\ x.op = "create"
    BY <2>2, <2>3, IdleType DEF Handlers, Phases, Rows, Normalized
  <2>5. Begins(w, x)
    BY <1>2, <2>1, <2>3 DEF Create
  <2>6. Knows(x)
    BY <2>2, <2>4 DEF Knows
  <2> QED
    BY <2>2, <2>4, <2>5, <2>6, BeginsKeeps
<1>3. ASSUME NEW v \in Versions, UpdateEndpoint(w, v) PROVE RegistryInv'
  <2>1. PICK r : r = [row EXCEPT !.ver = v]
    OBVIOUS
  <2>2. r \in Rows /\ r.id = row.id /\ Registered(r)
    BY <1>1, <1>3, <2>1 DEF Rows, Registered, UpdateEndpoint
  <2>3. PICK x : x = [Idle EXCEPT !.pc = "write", !.op = "endpoint", !.snap = r]
    OBVIOUS
  <2>4. x \in Handlers /\ x.pc = "write" /\ x.snap = r
    BY <2>2, <2>3, IdleType DEF Handlers, Phases, Rows
  <2>5. Begins(w, x) /\ row.live
    BY <1>3, <2>1, <2>3 DEF UpdateEndpoint
  <2>6. Knows(x)
    BY <2>2, <2>4, <2>5 DEF Knows
  <2> QED
    BY <2>2, <2>4, <2>5, <2>6, BeginsKeeps
<1>4. ASSUME NEW on \in BOOLEAN, UpdateStatus(w, on) PROVE RegistryInv'
  <2>1. PICK r : r = [row EXCEPT !.on = on]
    OBVIOUS
  <2>2. r \in Rows /\ r.id = row.id /\ Registered(r)
    BY <1>1, <1>4, <2>1 DEF Rows, Registered, UpdateStatus
  <2>3. PICK x : x = [Idle EXCEPT !.pc = "write", !.op = "switch", !.snap = r]
    OBVIOUS
  <2>4. x \in Handlers /\ x.pc = "write" /\ x.snap = r
    BY <2>2, <2>3, IdleType DEF Handlers, Phases, Rows
  <2>5. Begins(w, x) /\ row.live
    BY <1>4, <2>1, <2>3 DEF UpdateStatus
  <2>6. Knows(x)
    BY <2>2, <2>4, <2>5 DEF Knows
  <2> QED
    BY <2>2, <2>4, <2>5, <2>6, BeginsKeeps
<1>5. ASSUME NEW bind \in SUBSET Callers, UpdateBindings(w, bind) PROVE RegistryInv'
  <2>1. PICK x : x = [Idle EXCEPT !.pc = "rebind", !.op = "bindings", !.snap = row,
                        !.bind = Normalized(row.owner, bind), !.left = bound \ bind]
    OBVIOUS
  <2>2. x \in Handlers /\ x.pc = "rebind" /\ x.snap = row
    BY <1>1, <2>1, IdleType DEF Handlers, Phases, Rows, Normalized
  <2>3. Begins(w, x) /\ row.live
    BY <1>5, <2>1 DEF UpdateBindings
  <2>4. Knows(x)
    BY <2>2, <2>3 DEF Knows
  <2> QED
    BY <1>1, <2>2, <2>3, <2>4, BeginsKeeps
<1>6. ASSUME Delete(w) PROVE RegistryInv'
  <2>1. PICK x : x = [Idle EXCEPT !.pc = "stop", !.op = "delete", !.snap = row]
    OBVIOUS
  <2>2. x \in Handlers /\ x.pc = "stop" /\ x.op = "delete" /\ x.snap = row
    BY <1>1, <2>1, IdleType DEF Handlers, Phases, Rows
  <2>3. Begins(w, x) /\ row.live
    BY <1>6, <2>1 DEF Delete
  <2>4. Knows(x)
    BY <2>2, <2>3 DEF Knows
  <2> QED
    BY <1>1, <2>2, <2>3, <2>4, BeginsKeeps
<1>7. ASSUME Connect(w) PROVE RegistryInv'
  <2>1. PICK x : x = [Idle EXCEPT !.pc = "start", !.op = "connect", !.snap = row]
    OBVIOUS
  <2>2. x \in Handlers /\ x.pc = "start" /\ x.snap = row /\ x.op = "connect"
    BY <1>1, <2>1, IdleType DEF Handlers, Phases, Rows
  <2>3. Begins(w, x) /\ row.live /\ row.on
    BY <1>7, <2>1 DEF Connect
  <2>4. Knows(x)
    BY <2>2, <2>3 DEF Knows
  <2> QED
    BY <1>1, <2>2, <2>3, <2>4, BeginsKeeps
<1> QED
  BY <1>2, <1>3, <1>4, <1>5, <1>6, <1>7

-----------------------------------------------------------------------------
(* The statements.                                                         *)

\* What a handler knows where it is, and what its record is made of.
LEMMA AtStatement ==
  ASSUME RegistryInv, NEW w \in Workers, h[w].pc # "idle"
  PROVE  /\ h[w] \in Handlers /\ Registered(h[w].snap) /\ h[w].snap \in Rows
         /\ h[w].bind \subseteq Callers /\ h[w].todo \subseteq Callers /\ h[w].left \subseteq Callers
         /\ (h[w].sound => Knows(h[w])) /\ Written /\ last = "none"
<1>1. h[w] \in Handlers /\ Registered(h[w].snap) /\ last = "none"
  BY OthersUnsound
<1>2. h[w].snap \in Rows /\ h[w].bind \subseteq Callers /\ h[w].todo \subseteq Callers
      /\ h[w].left \subseteq Callers
  BY <1>1 DEF Handlers, Rows
<1> QED
  BY <1>1, <1>2 DEF RegistryInv, RegistryTypes, Grounded, Undisturbed, Written

\* From one statement to the next.
LEMMA Moves ==
  ASSUME RegistryInv, NEW w \in Workers, h[w].pc # "idle", NEW p \in Phases, Goes(w, p),
         last' = last, requests' = requests, Written',
         NEW x, x = [h[w] EXCEPT !.pc = p], x.sound => Knows(x)'
  PROVE  RegistryInv'
<1>1. PICK y : y = h[w]
  OBVIOUS
<1>2. y \in Handlers /\ Registered(y.snap) /\ x = [y EXCEPT !.pc = p]
  BY <1>1, AtStatement
<1>3. x \in Handlers /\ x.snap = y.snap /\ x.sound = y.sound
  BY <1>2 DEF Handlers
<1>4. h' = [h EXCEPT ![w] = x]
  BY DEF Goes
<1> QED
  BY <1>1, <1>2, <1>3, <1>4, Continues

LEMMA PurgeLeaves ==
  ASSUME NEW t, t = tool, Written, NEW callers \in SUBSET Callers
  PROVE  /\ Purge(t, callers) \in [ToolIds -> Tools]
         /\ \A i \in ToolIds : Kept(i, Purge(t, callers)[i])
         /\ callers = Callers => \A i \in ToolIds : ~Purge(t, callers)[i].live
<1>1. t \in [ToolIds -> Tools] /\ NoTool.caller \notin Callers
  BY RegistryAssumption DEF Written, NoTool, Nobody
<1> SUFFICES ASSUME NEW i \in ToolIds
             PROVE  /\ Purge(t, callers)[i] \in Tools
                    /\ Kept(i, Purge(t, callers)[i])
                    /\ callers = Callers => ~Purge(t, callers)[i].live
  BY <1>1 DEF Purge
<1>2. PICK y : y = t[i]
  OBVIOUS
<1>3. y \in Tools /\ Kept(i, y)
  BY <1>1, <1>2 DEF Written
<1>4. Purge(t, callers)[i] = IF y.caller \in callers THEN [y EXCEPT !.live = FALSE] ELSE y
  BY <1>2 DEF Purge
<1> QED
  BY <1>1, <1>3, <1>4 DEF Tools, Kept

LEMMA UpsertServes ==
  ASSUME NEW t, t = tool, Written, NEW i \in ToolIds, NEW c \in Callers, NEW v \in Versions,
         i # Primary => i = c
  PROVE  /\ Upsert(t, i, c, v) \in [ToolIds -> Tools]
         /\ Upsert(t, i, c, v)[i].live /\ Upsert(t, i, c, v)[i].on
         /\ Upsert(t, i, c, v)[i].def = v /\ Kept(i, Upsert(t, i, c, v)[i])
         /\ i # Primary => Upsert(t, i, c, v)[i].caller = i
         /\ \A j \in ToolIds \ {i} : Upsert(t, i, c, v)[j] = t[j]
<1>1. t \in [ToolIds -> Tools]
  BY DEF Written
<1>2. PICK y : y = [caller |-> IF t[i] = NoTool THEN c ELSE t[i].caller,
                    def |-> v, on |-> TRUE, live |-> TRUE]
  OBVIOUS
<1>3. y.caller \in Callers /\ (i # Primary => y.caller = i)
  BY <1>2 DEF Written, Kept
<1>4. y \in Tools /\ y.def # NoVersion
  BY <1>2, <1>3, RegistryAssumption DEF Tools, Definitions
<1> QED
  BY <1>1, <1>2, <1>3, <1>4 DEF Upsert, Kept

LEMMA WritesKeep ==
  ASSUME RegistryInv, NEW w \in Workers, Revive(w) \/ Bind(w) \/ Write(w)
  PROVE  RegistryInv'
<1>1. h[w].pc # "idle"
  BY DEF Revive, Bind, Write
<1>2. PICK y : y = h[w]
  OBVIOUS
<1>3. /\ y \in Handlers /\ Registered(y.snap) /\ y.snap \in Rows /\ y.bind \subseteq Callers
      /\ (y.sound => Knows(y)) /\ Written /\ y.snap.on \in BOOLEAN
  BY <1>1, <1>2, AtStatement DEF Rows
<1>4. CASE Revive(w)
  <2>1. PICK p \in Phases : p = IF y.bind # {} THEN "bind"
                                ELSE IF y.snap.on THEN "start" ELSE "stop"
    BY DEF Phases
  <2>2. PICK x : x = [y EXCEPT !.pc = p]
    OBVIOUS
  <2>3. x.pc = p /\ x.sound = y.sound /\ x.snap = y.snap /\ x.op = y.op
    BY <1>3, <2>2 DEF Handlers
  <2>4. PICK r : r = [y.snap EXCEPT !.on = @ \/ row = NoRow]
    OBVIOUS
  <2>5. r \in Rows /\ Registered(r) /\ r.live = y.snap.live /\ (y.snap.on => r = y.snap)
    <3>1. PICK q : q = y.snap
      OBVIOUS
    <3>2. PICK b \in BOOLEAN : b = (q.on \/ row = NoRow)
      OBVIOUS
    <3>3. q \in Rows /\ Registered(q) /\ r = [q EXCEPT !.on = b]
      BY <1>3, <2>4, <3>1, <3>2
    <3>4. r \in Rows /\ r.owner = q.owner /\ r.ver = q.ver /\ r.live = q.live
      BY <3>3 DEF Rows
    <3>5. q.on => b = q.on
      BY <1>3, <3>1, <3>2
    <3>6. q.on => r = q
      BY <3>3, <3>5 DEF Rows
    <3> QED
      BY <3>1, <3>3, <3>4, <3>6 DEF Registered
  <2>6. Goes(w, p) /\ row' = r /\ bound' = {} /\ check' = "unknown"
        /\ UNCHANGED <<off, client, tool, last, requests>>
    BY <1>2, <1>4, <2>1, <2>4 DEF Revive, GoesOn
  <2>7. Written'
    BY <1>3, <2>5, <2>6 DEF Written, Checks
  <2>8. x.sound => Knows(x)'
    <3>1. y.sound => row'.live /\ y.op = "create"
      BY <1>2, <1>3, <1>4, <2>5, <2>6 DEF Revive, Knows
    <3> QED
      BY <2>1, <2>3, <2>5, <2>6, <3>1 DEF Knows
  <2> QED
    BY <1>1, <1>2, <2>2, <2>6, <2>7, <2>8, Moves
<1>5. CASE Bind(w)
  <2>1. PICK p \in Phases : p = IF y.pc = "bind" THEN IF y.snap.on THEN "start" ELSE "stop"
                                ELSE "reread"
    BY DEF Phases
  <2>2. PICK x : x = [y EXCEPT !.pc = p]
    OBVIOUS
  <2>3. x.pc = p /\ x.sound = y.sound /\ x.snap = y.snap /\ x.op = y.op
    BY <1>3, <2>2 DEF Handlers
  <2>4. Goes(w, p) /\ bound' = (IF row.id = y.snap.id THEN y.bind ELSE bound)
        /\ UNCHANGED <<row, off, check, client, tool, last, requests>>
    BY <1>2, <1>5, <2>1 DEF Bind, GoesOn
  <2>5. Written'
    BY <1>3, <2>4 DEF Written
  <2>6. x.sound => Knows(x)'
    <3>1. y.sound => /\ row.live /\ (y.pc = "bind" => y.op = "create")
                     /\ (y.pc = "rebind" \/ y.snap.on => row = y.snap)
      BY <1>2, <1>3, <1>5 DEF Bind, Knows
    <3>2. y.pc \in {"bind", "rebind"}
      BY <1>2, <1>5 DEF Bind
    <3>3. CASE p = "reread"
      BY <2>1, <2>3, <2>4, <3>1, <3>2, <3>3 DEF Knows
    <3>4. CASE p = "start"
      BY <2>1, <2>3, <2>4, <3>1, <3>4 DEF Knows
    <3>5. CASE p = "stop"
      BY <2>1, <2>3, <2>4, <3>1, <3>5 DEF Knows
    <3> QED
      BY <2>1, <3>3, <3>4, <3>5
  <2> QED
    BY <1>1, <1>2, <2>2, <2>4, <2>5, <2>6, Moves
<1>6. CASE Write(w)
  <2>1. PICK r : r = IF ~Holds(y.snap.id) THEN row
                     ELSE IF y.op = "endpoint" THEN [row EXCEPT !.ver = y.snap.ver]
                     ELSE [row EXCEPT !.on = y.snap.on]
    OBVIOUS
  <2>2. r \in Rows /\ r.id = row.id /\ r.live = row.live /\ (r.live => Registered(r))
    BY <1>3, <2>1 DEF Rows, Registered, Written
  <2>3. PICK x : x = [y EXCEPT !.pc = "reread"]
    OBVIOUS
  <2>4. x.pc = "reread" /\ x.sound = y.sound /\ x.snap = y.snap
    BY <1>3, <2>3 DEF Handlers
  <2>5. Goes(w, "reread") /\ row' = r /\ UNCHANGED <<bound, off, check, client, tool, last, requests>>
    BY <1>2, <1>6, <2>1 DEF Write
  <2>6. Written'
    BY <1>3, <2>2, <2>5 DEF Written
  <2>7. x.sound => Knows(x)'
    <3>1. y.sound => row.live /\ row.id = y.snap.id
      BY <1>2, <1>3, <1>6 DEF Write, Knows
    <3> QED
      BY <2>2, <2>4, <2>5, <3>1 DEF Knows
  <2>8. "reread" \in Phases
    BY DEF Phases
  <2> QED
    BY <1>1, <1>2, <2>3, <2>5, <2>6, <2>7, <2>8, Moves
<1> QED
  BY <1>4, <1>5, <1>6

LEMMA RereadKeeps ==
  ASSUME RegistryInv, NEW w \in Workers, Reread(w)
  PROVE  RegistryInv'
<1>1. h[w].pc = "reread"
  BY DEF Reread
<1>2. PICK y : y = h[w]
  OBVIOUS
<1>3. y \in Handlers /\ (y.sound => Knows(y)) /\ Written
  BY <1>1, <1>2, AtStatement
<1>4. Written' /\ requests' = requests /\ UNCHANGED <<row, bound, off, check, client, tool>>
  BY <1>3 DEF Reread, Written
<1>5. CASE Holds(y.snap.id)
  <2>1. PICK r : r = row
    OBVIOUS
  <2>2. r \in Rows /\ Registered(r) /\ r.live
    BY <1>3, <1>5, <2>1 DEF Written, Holds
  <2>3. PICK x : x = [y EXCEPT !.snap = r, !.pc = "unbind"]
    OBVIOUS
  <2>4. x \in Handlers /\ x.pc = "unbind" /\ x.snap = r /\ x.sound = y.sound
    BY <1>3, <2>2, <2>3 DEF Handlers, Phases, Rows
  <2>5. h' = [h EXCEPT ![w] = x] /\ last' = last
    BY <1>2, <1>5, <2>1, <2>3 DEF Reread
  <2>6. Knows(x)'
    BY <1>4, <2>1, <2>2, <2>4 DEF Knows
  <2> QED
    BY <1>1, <1>2, <1>4, <2>2, <2>4, <2>5, <2>6, Continues
<1>6. CASE ~Holds(y.snap.id)
  <2>1. Ends(w, "none")
    BY <1>2, <1>6 DEF Reread
  <2> QED
    BY <1>1, <1>4, <2>1, Concludes DEF Results
<1> QED
  BY <1>5, <1>6

LEMMA PurgesKeep ==
  ASSUME RegistryInv, NEW w \in Workers, Unbind(w) \/ PurgeAll(w)
  PROVE  RegistryInv'
<1>1. h[w].pc # "idle"
  BY DEF Unbind, PurgeAll
<1>2. PICK y : y = h[w]
  OBVIOUS
<1>3. /\ y \in Handlers /\ (y.sound => Knows(y)) /\ Written /\ y.left \subseteq Callers
      /\ y.snap.on \in BOOLEAN
  BY <1>1, <1>2, AtStatement DEF Rows
<1>4. CASE Unbind(w)
  <2>1. PICK p \in Phases : p = IF y.snap.on THEN "start" ELSE "stop"
    BY DEF Phases
  <2>2. PICK x : x = [y EXCEPT !.pc = p]
    OBVIOUS
  <2>3. x.pc = p /\ x.sound = y.sound /\ x.snap = y.snap /\ x.op = y.op
    BY <1>3, <2>2 DEF Handlers
  <2>4. Goes(w, p) /\ tool' = Purge(tool, y.left)
        /\ UNCHANGED <<row, bound, off, check, client, last, requests>>
    BY <1>2, <1>4, <2>1 DEF Unbind, GoesOn
  <2>5. Written'
    BY <1>3, <2>4, PurgeLeaves DEF Written
  <2>6. x.sound => Knows(x)'
    <3>1. y.sound => row = y.snap /\ row.live
      BY <1>2, <1>3, <1>4 DEF Unbind, Knows
    <3> QED
      BY <2>1, <2>3, <2>4, <3>1 DEF Knows
  <2> QED
    BY <1>1, <1>2, <2>2, <2>4, <2>5, <2>6, Moves
<1>5. CASE PurgeAll(w)
  <2>1. PICK p \in Phases : p = IF y.op = "delete" THEN "delete" ELSE "result"
    BY DEF Phases
  <2>2. PICK x : x = [y EXCEPT !.pc = p]
    OBVIOUS
  <2>3. x.pc = p /\ x.sound = y.sound /\ x.snap = y.snap /\ x.op = y.op
    BY <1>3, <2>2 DEF Handlers
  <2>4. Goes(w, p) /\ tool' = Purge(tool, Callers)
        /\ UNCHANGED <<row, bound, off, check, client, last, requests>>
    BY <1>2, <1>5, <2>1 DEF PurgeAll
  <2>5. Written' /\ \A i \in ToolIds : ~tool'[i].live
    BY <1>3, <2>4, PurgeLeaves DEF Written
  <2>6. x.sound => Knows(x)'
    <3>1. y.sound => /\ row = y.snap /\ row.live /\ client = NoVersion
                     /\ (y.op # "delete" => ~row.on)
      BY <1>2, <1>3, <1>5 DEF PurgeAll, Knows
    <3> QED
      BY <2>1, <2>3, <2>4, <2>5, <3>1 DEF Knows
  <2> QED
    BY <1>1, <1>2, <2>2, <2>4, <2>5, <2>6, Moves
<1> QED
  BY <1>4, <1>5

LEMMA StartKeeps ==
  ASSUME RegistryInv, NEW w \in Workers, Start(w)
  PROVE  RegistryInv'
<1>1. h[w].pc = "start"
  BY DEF Start
<1>2. PICK y : y = h[w]
  OBVIOUS
<1>3. y \in Handlers /\ (y.sound => Knows(y)) /\ Written /\ Registered(y.snap)
  BY <1>1, <1>2, AtStatement
<1>4. CASE client' = h[w].snap.ver /\ Goes(w, "callers") /\ UNCHANGED <<check, last>>
  <2>1. PICK x : x = [y EXCEPT !.pc = "callers"]
    OBVIOUS
  <2>2. x.pc = "callers" /\ x.sound = y.sound /\ x.snap = y.snap
    BY <1>3, <2>1 DEF Handlers
  <2>3. UNCHANGED <<row, bound, off, tool, requests>>
    BY DEF Start
  <2>4. Written'
    BY <1>2, <1>3, <1>4, <2>3 DEF Written, Registered
  <2>5. x.sound => Knows(x)'
    <3>1. y.sound => row = y.snap /\ row.live /\ row.on
      BY <1>1, <1>2, <1>3 DEF Knows
    <3> QED
      BY <1>2, <1>4, <2>2, <2>3, <3>1 DEF Knows
  <2>6. "callers" \in Phases
    BY DEF Phases
  <2> QED
    BY <1>1, <1>2, <1>4, <2>1, <2>3, <2>4, <2>5, <2>6, Moves
<1>5. CASE Reports(w, "disconnected") /\ UNCHANGED client
  <2>1. PICK result \in {"none", "disconnected"} : Ends(w, result)
    BY <1>5 DEF Reports
  <2>2. UNCHANGED <<row, bound, off, tool, requests>>
    BY DEF Start
  <2>3. Written'
    BY <1>3, <1>5, <2>2 DEF Written, Reports, Checks
  <2> QED
    BY <1>1, <2>1, <2>2, <2>3, Concludes DEF Results
<1> QED
  BY <1>4, <1>5 DEF Start

LEMMA ReadCallersKeeps ==
  ASSUME RegistryInv, NEW w \in Workers, ReadCallers(w)
  PROVE  RegistryInv'
<1>1. h[w].pc = "callers"
  BY DEF ReadCallers
<1>2. PICK y : y = h[w]
  OBVIOUS
<1>3. y \in Handlers /\ (y.sound => Knows(y)) /\ Written /\ Registered(y.snap)
  BY <1>1, <1>2, AtStatement
<1>4. PICK d : d = {y.snap.owner} \cup IF row.id = y.snap.id THEN bound ELSE {}
  OBVIOUS
<1>5. d \subseteq Callers
  BY <1>3, <1>4 DEF Written, Registered
<1>6. PICK x : x = [y EXCEPT !.pc = "sync", !.todo = d]
  OBVIOUS
<1>7. x \in Handlers /\ x.pc = "sync" /\ x.todo = d /\ x.snap = y.snap /\ x.sound = y.sound
  BY <1>3, <1>5, <1>6 DEF Handlers, Phases
<1>8. h' = [h EXCEPT ![w] = x] /\ UNCHANGED <<row, bound, off, check, client, tool, last, requests>>
  BY <1>2, <1>4, <1>6 DEF ReadCallers
<1>9. Written'
  BY <1>3, <1>8 DEF Written
<1>10. x.sound => Knows(x)'
  <2>1. y.sound => row = y.snap /\ row.live /\ row.on /\ client = row.ver
    BY <1>1, <1>2, <1>3 DEF Knows
  <2>2. y.sound => Served \ d = {}
    BY <1>4, <2>1 DEF Served
  <2> QED
    BY <1>7, <1>8, <2>1, <2>2 DEF Knows, Served
<1> QED
  BY <1>1, <1>2, <1>3, <1>7, <1>8, <1>9, <1>10, Continues

LEMMA SyncKeeps ==
  ASSUME RegistryInv, NEW w \in Workers, NEW c \in Callers, Sync(w, c)
  PROVE  RegistryInv'
<1>1. h[w].pc = "sync" /\ (Skipped(w, c) \/ client # NoVersion) /\ c \in h[w].todo
  BY DEF Sync, Turn
<1>2. PICK y : y = h[w]
  OBVIOUS
<1>3. /\ y \in Handlers /\ (y.sound => Knows(y)) /\ Written /\ Registered(y.snap)
      /\ y.todo \subseteq Callers
  BY <1>1, <1>2, AtStatement
<1>4. PICK d : d = y.todo \ {c}
  OBVIOUS
<1>5. PICK x : x = [y EXCEPT !.todo = d]
  OBVIOUS
<1>6. x \in Handlers /\ x.pc = y.pc /\ x.todo = d /\ x.snap = y.snap /\ x.sound = y.sound
      /\ x.op = y.op
  BY <1>3, <1>4, <1>5 DEF Handlers
<1>7. PICK i \in ToolIds : i = ToolIdOf(c, y.snap)
  BY DEF ToolIds, ToolIdOf
<1>8. h' = [h EXCEPT ![w] = x] /\ UNCHANGED <<row, bound, off, check, client, last, requests>>
  <2>1. /\ h' = [h EXCEPT ![w].todo = @ \ {c}]
        /\ UNCHANGED <<row, bound, off, check, client, last, requests>>
    BY DEF Sync
  <2> QED
    BY <1>2, <1>4, <1>5, <2>1
<1>9. y.sound => /\ row = y.snap /\ row.live /\ row.on /\ client = row.ver
                 /\ \A u \in Served \ y.todo : Serving(ToolIdOf(u, row), row.ver)
  BY <1>1, <1>2, <1>3 DEF Knows
<1>10. CASE Skipped(w, c)
  <2>1. tool' = tool
    BY <1>10 DEF Sync
  <2>2. Written'
    BY <1>3, <1>8, <2>1 DEF Written
  <2>3. x.sound => Knows(x)'
    <3>1. y.sound => Served \ d = Served \ y.todo
      BY <1>2, <1>4, <1>9, <1>10 DEF Served, Skipped
    <3>2. UNCHANGED <<row, client, tool, Served>>
      BY <1>8, <2>1 DEF Served
    <3> QED
      BY <1>1, <1>2, <1>6, <1>9, <3>1, <3>2 DEF Knows, Serving, ToolIdOf
  <2> QED
    BY <1>1, <1>2, <1>3, <1>6, <1>8, <2>2, <2>3, Continues
<1>11. CASE ~Skipped(w, c)
  <2>1. tool' = Upsert(tool, i, c, client) /\ client \in Versions
    BY <1>1, <1>2, <1>3, <1>7, <1>11 DEF Sync, Written
  <2>2. i # Primary => i = c
    BY <1>7 DEF ToolIdOf
  <2>3. /\ tool' \in [ToolIds -> Tools] /\ Serving(i, client)' /\ Kept(i, tool'[i])
        /\ \A j \in ToolIds \ {i} : tool'[j] = tool[j]
    BY <1>3, <1>8, <2>1, <2>2, UpsertServes DEF Serving
  <2>4. Written'
    BY <1>3, <1>8, <2>3 DEF Written
  <2>5. ASSUME y.sound, NEW u \in Served \ d PROVE Serving(ToolIdOf(u, row), row.ver)'
    <3>1. PICK j \in ToolIds : j = ToolIdOf(u, row)
      BY <1>3, <1>9, <2>5 DEF Written, ToolIds, ToolIdOf, Registered, Served
    <3>2. CASE j = i
      BY <1>8, <1>9, <2>3, <2>5, <3>1, <3>2 DEF Serving, ToolIdOf
    <3>3. CASE j # i
      <4>1. u # c
        BY <1>7, <1>9, <2>5, <3>1, <3>3
      <4>2. Serving(j, row.ver)
        BY <1>4, <1>9, <2>5, <3>1, <4>1
      <4> QED
        BY <1>8, <2>3, <3>1, <3>3, <4>2 DEF Serving, ToolIdOf
    <3> QED
      BY <3>2, <3>3
  <2>6. x.sound => Knows(x)'
    <3>1. UNCHANGED <<row, client, Served>>
      BY <1>8 DEF Served
    <3> QED
      BY <1>1, <1>2, <1>6, <1>9, <2>5, <3>1 DEF Knows
  <2> QED
    BY <1>1, <1>2, <1>3, <1>6, <1>8, <2>4, <2>6, Continues
<1> QED
  BY <1>10, <1>11

LEMMA ReportsKeep ==
  ASSUME RegistryInv, NEW w \in Workers, Synced(w) \/ TurnedOff(w) \/ DeleteRow(w)
  PROVE  RegistryInv'
<1>1. h[w].pc # "idle"
  BY DEF Synced, TurnedOff, DeleteRow
<1>2. PICK y : y = h[w]
  OBVIOUS
<1>3. y \in Handlers /\ (y.sound => Knows(y)) /\ Written
  BY <1>1, <1>2, AtStatement
<1>4. CASE Synced(w)
  <2>1. PICK result \in {"connected", "disconnected"} :
          result = IF y.todo = {} THEN "connected" ELSE "disconnected"
    OBVIOUS
  <2>2. UNCHANGED <<row, bound, off, client, tool, requests>> /\ Reports(w, result)
    BY <1>2, <1>4, <2>1 DEF Synced
  <2>3. Written'
    BY <1>3, <2>1, <2>2 DEF Written, Checks, Reports
  <2>4. CASE Ends(w, "none")
    BY <1>1, <2>2, <2>3, <2>4, Concludes DEF Results
  <2>5. CASE ~Ends(w, "none")
    <3>1. Ends(w, result) /\ check' = IF Holds(y.snap.id) THEN result ELSE check
      BY <1>2, <2>1, <2>2, <2>5 DEF Reports
    <3>2. ASSUME y.sound, result = "connected"
          PROVE  (/\ row.live /\ row.on /\ check = "connected" /\ client = row.ver
                  /\ \A c \in Served : Serving(ToolIdOf(c, row), row.ver))'
      <4>1. /\ row = y.snap /\ row.live /\ row.on /\ client = row.ver
            /\ \A c \in Served : Serving(ToolIdOf(c, row), row.ver)
        BY <1>2, <1>3, <1>4, <2>1, <3>2 DEF Knows, Synced
      <4>2. check' = "connected"
        BY <3>1, <3>2, <4>1 DEF Holds
      <4>3. UNCHANGED <<row, client, tool, Served>>
        BY <2>2 DEF Served
      <4> QED
        BY <4>1, <4>2, <4>3 DEF Serving, ToolIdOf
    <3> QED
      BY <1>1, <1>2, <2>1, <2>2, <2>3, <3>1, <3>2, Concludes DEF Results
  <2> QED
    BY <2>4, <2>5
<1>5. CASE TurnedOff(w)
  <2>1. PICK result \in {"none", "off"} : Ends(w, result)
    BY <1>5 DEF TurnedOff, Reports
  <2>2. UNCHANGED <<row, bound, off, client, tool, requests>>
    BY <1>5 DEF TurnedOff
  <2>3. Written'
    BY <1>3, <1>5, <2>2 DEF Written, Checks, TurnedOff, Reports
  <2>4. y.sound => (/\ ~(row.live /\ row.on) /\ client = NoVersion
                    /\ \A i \in ToolIds : ~tool[i].live)'
    BY <1>2, <1>3, <1>5, <2>2 DEF Knows, TurnedOff
  <2> QED
    BY <1>1, <1>2, <2>1, <2>2, <2>3, <2>4, Concludes DEF Results
<1>6. CASE DeleteRow(w)
  <2>1. PICK r : r = IF Holds(y.snap.id) THEN [row EXCEPT !.live = FALSE] ELSE row
    OBVIOUS
  <2>2. r \in Rows /\ (r.live => Registered(r)) /\ (Holds(y.snap.id) => ~r.live)
    BY <1>3, <2>1 DEF Rows, Registered, Written
  <2>3. row' = r /\ UNCHANGED <<bound, off, check, client, tool, requests>> /\ Ends(w, "deleted")
    BY <1>2, <1>6, <2>1 DEF DeleteRow
  <2>4. Written'
    BY <1>3, <2>2, <2>3 DEF Written
  <2>5. y.sound => (/\ ~(row.live /\ row.on) /\ client = NoVersion
                    /\ \A i \in ToolIds : ~tool[i].live)'
    BY <1>2, <1>3, <1>6, <2>2, <2>3 DEF Knows, DeleteRow, Holds
  <2> QED
    BY <1>1, <1>2, <2>3, <2>4, <2>5, Concludes DEF Results
<1> QED
  BY <1>4, <1>5, <1>6

LEMMA StopKeeps ==
  ASSUME RegistryInv, NEW w \in Workers, Stop(w)
  PROVE  RegistryInv'
<1>1. h[w].pc = "stop"
  BY DEF Stop
<1>2. PICK y : y = h[w]
  OBVIOUS
<1>3. y \in Handlers /\ (y.sound => Knows(y)) /\ Written
  BY <1>1, <1>2, AtStatement
<1>4. client' = NoVersion /\ UNCHANGED <<row, bound, off, check, tool, requests>>
  BY DEF Stop
<1>5. Written'
  BY <1>3, <1>4 DEF Written
<1>6. CASE y.op = "create"
  <2>1. Ends(w, "none")
    BY <1>2, <1>6 DEF Stop
  <2> QED
    BY <1>1, <1>4, <1>5, <2>1, Concludes DEF Results
<1>7. CASE y.op # "create"
  <2>1. Goes(w, "purge") /\ last' = last
    BY <1>2, <1>7 DEF Stop
  <2>2. PICK x : x = [y EXCEPT !.pc = "purge"]
    OBVIOUS
  <2>3. x.pc = "purge" /\ x.sound = y.sound /\ x.snap = y.snap /\ x.op = y.op
    BY <1>3, <2>2 DEF Handlers
  <2>4. x.sound => Knows(x)'
    <3>1. y.sound => row = y.snap /\ row.live /\ (y.op # "delete" => ~row.on)
      BY <1>1, <1>2, <1>3, <1>7 DEF Knows
    <3> QED
      BY <1>4, <1>7, <2>3, <3>1 DEF Knows
  <2>5. "purge" \in Phases
    BY DEF Phases
  <2> QED
    BY <1>1, <1>2, <1>4, <1>5, <2>1, <2>2, <2>4, <2>5, Moves
<1> QED
  BY <1>6, <1>7
-----------------------------------------------------------------------------
(* Errors, and the process.                                                *)

LEMMA FailsKeeps ==
  ASSUME RegistryInv, NEW w \in Workers, Fails(w)
  PROVE  RegistryInv'
<1>1. h[w].pc # "idle"
  BY DEF Fails
<1>2. Ends(w, "none") /\ UNCHANGED <<row, bound, off, check, client, tool, requests>>
  BY DEF Fails
<1>3. Written'
  BY <1>1, <1>2, AtStatement DEF Written
<1> QED
  BY <1>1, <1>2, <1>3, Concludes DEF Results

LEMMA PassesOverKeeps ==
  ASSUME RegistryInv, NEW w \in Workers, PassesOver(w)
  PROVE  RegistryInv'
<1>1. h[w].pc # "idle" /\ UNCHANGED <<row, bound, off, check, client, tool, last, requests>>
  BY DEF PassesOver
<1>2. PICK y : y = h[w]
  OBVIOUS
<1>3. /\ y \in Handlers /\ Written /\ Registered(y.snap) /\ y.todo \subseteq Callers
  BY <1>1, <1>2, AtStatement
<1>4. Written'
  BY <1>1, <1>3 DEF Written
<1>5. PICK x : x \in Handlers /\ x.snap = y.snap /\ x.sound = FALSE /\ h' = [h EXCEPT ![w] = x]
  <2>1. CASE y.pc = "unbind"
    <3>1. PICK p \in Phases : p = IF y.snap.on THEN "start" ELSE "stop"
      BY DEF Phases
    <3>2. PICK x : x = [y EXCEPT !.pc = p, !.sound = FALSE]
      OBVIOUS
    <3>3. x \in Handlers /\ x.snap = y.snap /\ x.sound = FALSE
      BY <1>3, <3>2 DEF Handlers
    <3>4. h' = [h EXCEPT ![w] = x]
      BY <1>2, <2>1, <3>1, <3>2 DEF PassesOver
    <3> QED
      BY <3>3, <3>4
  <2>2. CASE y.pc = "purge"
    <3>1. PICK x : x = [y EXCEPT !.pc = "result", !.sound = FALSE]
      OBVIOUS
    <3>2. x \in Handlers /\ x.snap = y.snap /\ x.sound = FALSE
      BY <1>3, <3>1 DEF Handlers, Phases
    <3>3. h' = [h EXCEPT ![w] = x]
      BY <1>2, <2>2, <3>1 DEF PassesOver
    <3> QED
      BY <3>2, <3>3
  <2>3. CASE y.pc = "callers"
    <3>1. PICK d \in SUBSET Callers : d = {y.snap.owner}
      BY <1>3 DEF Registered
    <3>2. PICK x : x = [y EXCEPT !.pc = "sync", !.todo = d, !.sound = FALSE]
      OBVIOUS
    <3>3. x \in Handlers /\ x.snap = y.snap /\ x.sound = FALSE
      BY <1>3, <3>2 DEF Handlers, Phases
    <3>4. h' = [h EXCEPT ![w] = x]
      BY <1>2, <2>3, <3>1, <3>2 DEF PassesOver
    <3> QED
      BY <3>3, <3>4
  <2>4. CASE y.pc = "sync"
    <3>1. PICK c \in Callers : h' = [h EXCEPT ![w].todo = @ \ {c}, ![w].sound = FALSE]
      BY <1>2, <2>4 DEF PassesOver
    <3>2. PICK d \in SUBSET Callers : d = y.todo \ {c}
      BY <1>3
    <3>3. PICK x : x = [y EXCEPT !.todo = d, !.sound = FALSE]
      OBVIOUS
    <3>4. x \in Handlers /\ x.snap = y.snap /\ x.sound = FALSE
      BY <1>3, <3>3 DEF Handlers
    <3>5. h' = [h EXCEPT ![w] = x]
      BY <1>2, <3>1, <3>2, <3>3
    <3> QED
      BY <3>4, <3>5
  <2> QED
    BY <1>2, <2>1, <2>2, <2>3, <2>4 DEF PassesOver
<1> QED
  BY <1>1, <1>2, <1>3, <1>4, <1>5, Continues

\* Somebody who is no handler writes: none of them is sound any more.
LEMMA Disturbs ==
  ASSUME RegistryInv, Written', last' = "none",
         h' = [u \in Workers |-> [h[u] EXCEPT !.sound = FALSE]],
         requests < MaxRequests, requests' = requests + 1
  PROVE  RegistryInv'
<1>1. ASSUME NEW u \in Workers
      PROVE  h'[u] \in Handlers /\ ~h'[u].sound /\ h'[u].snap = h[u].snap /\ h'[u].pc = h[u].pc
  <2>1. PICK z : z = h[u]
    OBVIOUS
  <2>2. PICK x : x = [z EXCEPT !.sound = FALSE]
    OBVIOUS
  <2>3. z \in Handlers
    BY <2>1 DEF RegistryInv, RegistryTypes
  <2>4. x \in Handlers /\ x.sound = FALSE /\ x.snap = z.snap /\ x.pc = z.pc
    BY <2>2, <2>3 DEF Handlers
  <2> QED
    BY <2>1, <2>2, <2>4
<1>2. RegistryTypes'
  BY <1>1, RegistryAssumption DEF RegistryInv, RegistryTypes, Written, Results
<1>3. Grounded'
  BY <1>1 DEF RegistryInv, Grounded, Written, Registered
<1>4. Undisturbed'
  BY <1>1 DEF Undisturbed
<1> QED
  BY <1>2, <1>3, <1>4 DEF RegistryInv, ConnectedIsSynced, GoneLeavesNothing

LEMMA EditKeeps ==
  ASSUME RegistryInv, NEW i \in ToolIds, NEW on \in BOOLEAN,
         NEW def \in {tool[i].def, Edited}, EditTool(i, def, on)
  PROVE  RegistryInv'
<1>1. tool \in [ToolIds -> Tools] /\ Kept(i, tool[i]) /\ tool[i].live
  BY DEF RegistryInv, RegistryTypes, Grounded, EditTool
<1>2. PICK z : z = tool[i]
  OBVIOUS
<1>3. PICK y : y = [z EXCEPT !.def = def, !.on = on]
  OBVIOUS
<1>4. y \in Tools /\ Kept(i, y)
  BY <1>1, <1>2, <1>3, RegistryAssumption DEF Tools, Definitions, Kept, NoTool
<1>5. tool' = [tool EXCEPT ![i] = y]
  BY <1>1, <1>2, <1>3 DEF EditTool
<1>6. UNCHANGED <<row, bound, off, check, client>>
  BY DEF EditTool
<1>7. Written'
  BY <1>1, <1>4, <1>5, <1>6 DEF RegistryInv, RegistryTypes, Grounded, Written
<1> QED
  BY <1>7, Disturbs DEF EditTool

LEMMA SwitchKeeps ==
  ASSUME RegistryInv, NEW c \in Callers, SwitchCaller(c)
  PROVE  RegistryInv'
<1>1. Written'
  BY DEF SwitchCaller, RegistryInv, RegistryTypes, Grounded, Written
<1> QED
  BY <1>1, Disturbs DEF SwitchCaller

LEMMA RestartKeeps ==
  ASSUME RegistryInv, Restart
  PROVE  RegistryInv'
<1>1. /\ h' = [w \in Workers |-> Idle] /\ last' = "none"
      /\ requests < MaxRequests /\ requests' = requests + 1 /\ UNCHANGED <<row, bound, off, check>>
  BY DEF Restart
<1>2. Written
  BY DEF RegistryInv, RegistryTypes, Grounded, Written
<1>3. Written'
  <2>1. CASE client' = NoVersion /\ tool' = tool
    BY <1>1, <1>2, <2>1 DEF Written
  <2>2. ASSUME row.live, row.on, client' = row.ver, NEW served \in SUBSET ((bound \ off) \cup {row.owner}),
               tool' = [i \in ToolIds |->
                          IF \E c \in served : i = ToolIdOf(c, row)
                          THEN Upsert(tool, i, IF i = Primary THEN row.owner ELSE i, row.ver)[i]
                          ELSE tool[i]]
        PROVE  Written'
    <3>1. row.owner \in Callers /\ row.ver \in Versions
      BY <1>2, <2>2 DEF Written, Registered
    <3>2. ASSUME NEW i \in ToolIds
          PROVE  tool'[i] \in Tools /\ Kept(i, tool'[i])
      <4>1. CASE \E c \in served : i = ToolIdOf(c, row)
        <5>1. PICK c \in Callers : c = IF i = Primary THEN row.owner ELSE i
          BY <3>1 DEF ToolIds
        <5>2. tool'[i] = Upsert(tool, i, c, row.ver)[i]
          BY <2>2, <4>1, <5>1
        <5> QED
          BY <1>2, <3>1, <5>1, <5>2, UpsertServes
      <4>2. CASE ~(\E c \in served : i = ToolIdOf(c, row))
        <5>1. tool'[i] = tool[i]
          BY <2>2, <4>2
        <5> QED
          BY <1>2, <5>1 DEF Written
      <4> QED
        BY <4>1, <4>2
    <3>3. tool' = [i \in ToolIds |-> tool'[i]]
      BY <2>2
    <3>4. tool' \in [ToolIds -> Tools]
      BY <3>2, <3>3
    <3> QED
      BY <1>1, <1>2, <2>2, <3>1, <3>2, <3>4 DEF Written
  <2> QED
    BY <2>1, <2>2 DEF Restart
<1>4. RegistryTypes'
  BY <1>1, <1>3, IdleType, RegistryAssumption
  DEF RegistryInv, RegistryTypes, Written, Results
<1>5. Grounded' /\ Undisturbed'
  BY <1>1, <1>3, IdleType DEF Grounded, Undisturbed, Written
<1> QED
  BY <1>1, <1>4, <1>5 DEF RegistryInv, ConnectedIsSynced, GoneLeavesNothing

LEMMA RegistryIdles ==
  ASSUME RegistryInv, UNCHANGED regVars
  PROVE  RegistryInv'
<1>1. RegistryTypes' /\ Grounded'
  BY DEF RegistryInv, regVars, RegistryTypes, Grounded, Registered
<1>2. Undisturbed'
  BY DEF RegistryInv, regVars, Undisturbed, Knows, Serving, Served, ToolIdOf
<1> QED
  BY <1>1, <1>2 DEF RegistryInv, regVars, ConnectedIsSynced, GoneLeavesNothing, Serving, ToolIdOf

LEMMA ServesKeeps ==
  ASSUME RegistryInv, Serves
  PROVE  RegistryInv'
<1>1. ASSUME NEW w \in Workers, Handle(w) PROVE RegistryInv'
  BY <1>1, RequestsKeep, WritesKeep, RereadKeeps, PurgesKeep, StartKeeps, ReadCallersKeeps,
     SyncKeeps, ReportsKeep, StopKeeps, FailsKeeps, PassesOverKeeps, Zenon DEF Handle
<1> QED
  BY <1>1, EditKeeps, SwitchKeeps DEF Serves
-----------------------------------------------------------------------------
(* The session.                                                            *)

SessionTypes ==
  /\ run \in 0 .. MaxRuns /\ running \in BOOLEAN /\ lost \subseteq ToolIds
  /\ active \in [ToolIds -> Definitions] /\ prev \in [ToolIds -> Definitions]
  /\ saved \in [ToolIds -> Definitions]
  /\ given \in [ToolIds -> Definitions] /\ seen \in [ToolIds -> Definitions]
  /\ call \in [id : ToolIds, def : Definitions, phase : CallPhases]

\* Whatever list a definition is kept in, it is the one that get_tool returned
\* last, unless the model never got it.
Agree(list, i) == list[i] # NoVersion => list[i] = Given(i)
SessionInv ==
  /\ \A i \in ToolIds \ lost : Agree(active, i) /\ Agree(saved, i)
  /\ \A i \in ToolIds \ lost : active[i] = NoVersion => Agree(prev, i)
  /\ call.phase # "none" /\ call.id \notin lost => call.def = Given(call.id)

LEMMA ActivationStarts == ActivationInit => SessionTypes /\ SessionInv
<1> SUFFICES ASSUME ActivationInit PROVE SessionTypes /\ SessionInv
  OBVIOUS
<1>1. NoTools \in [ToolIds -> Definitions] /\ \A i \in ToolIds : NoTools[i] = NoVersion
  BY DEF NoTools, Definitions
<1>2. NoCall \in [id : ToolIds, def : Definitions, phase : CallPhases] /\ NoCall.phase = "none"
  BY DEF NoCall, CallPhases, Definitions, ToolIds
<1>3. SessionTypes
  <2>1. run = 0 /\ MaxRuns \in Nat
    BY ActivationAssumption DEF ActivationInit
  <2>2. run \in 0 .. MaxRuns
    BY <2>1
  <2>3. running \in BOOLEAN /\ lost \subseteq ToolIds
    BY DEF ActivationInit
  <2>4. active = NoTools /\ prev = NoTools /\ saved = NoTools /\ given = NoTools
        /\ seen = NoTools /\ call = NoCall
    BY DEF ActivationInit
  <2> QED
    BY <1>1, <1>2, <2>2, <2>3, <2>4 DEF SessionTypes
<1> QED
  BY <1>1, <1>2, <1>3 DEF ActivationInit, SessionInv, Agree

LEMMA SessionIdles ==
  ASSUME SessionTypes, SessionInv, UNCHANGED sessionVars
  PROVE  SessionTypes' /\ SessionInv'
BY DEF SessionTypes, SessionInv, Agree, Given, sessionVars

\* A visible tool has a definition.
LEMMA VisibleIsDefined ==
  ASSUME RegistryInv, NEW i \in ToolIds, Visible(i)
  PROVE  tool[i].def \in Definitions /\ tool[i].def # NoVersion
BY DEF RegistryInv, RegistryTypes, Grounded, Visible, Tools, Kept

LEMMA RunsKeep ==
  ASSUME RegistryInv, SessionTypes, SessionInv,
         EndRun \/ HandOver \/ \E readable, ok \in BOOLEAN : StartRun(readable, ok)
  PROVE  SessionTypes' /\ SessionInv'
<1>1. NoTools \in [ToolIds -> Definitions] /\ \A i \in ToolIds : NoTools[i] = NoVersion
  BY DEF NoTools, Definitions
<1>2. CASE EndRun
  <2>1. /\ running' = FALSE /\ active' = NoTools /\ prev' = NoTools /\ call' = NoCall
        /\ given' = NoTools /\ lost' = lost \cup {i \in ToolIds : Given(i) # seen[i]}
        /\ UNCHANGED <<run, saved, seen>>
    BY <1>2 DEF EndRun
  <2>2. NoCall \in [id : ToolIds, def : Definitions, phase : CallPhases] /\ NoCall.phase = "none"
    BY DEF NoCall, CallPhases, ToolIds, Definitions
  <2>3. SessionTypes'
    BY <1>1, <2>1, <2>2 DEF SessionTypes
  <2>4. \A i \in ToolIds \ lost' : i \notin lost /\ Given(i)' = Given(i)
    BY <1>1, <2>1 DEF Given
  <2>5. SessionInv'
    BY <1>1, <2>1, <2>2, <2>4 DEF SessionInv, Agree
  <2> QED
    BY <2>3, <2>5
<1>3. CASE HandOver
  <2>1. /\ seen' = [i \in ToolIds |-> Given(i)] /\ given' = NoTools
        /\ UNCHANGED <<run, running, active, prev, saved, call, lost>>
    BY <1>3 DEF HandOver
  <2>2. \A i \in ToolIds : Given(i) \in Definitions
    BY DEF Given, SessionTypes
  <2>3. SessionTypes'
    BY <1>1, <2>1, <2>2 DEF SessionTypes
  <2>4. \A i \in ToolIds : Given(i)' = Given(i)
    BY <1>1, <2>1 DEF Given
  <2>5. SessionInv'
    BY <2>1, <2>4 DEF SessionInv, Agree, SessionTypes
  <2> QED
    BY <2>3, <2>5
<1>4. ASSUME NEW readable \in BOOLEAN, NEW ok \in BOOLEAN, StartRun(readable, ok)
      PROVE  SessionTypes' /\ SessionInv'
  <2>1. PICK kept \in SUBSET ToolIds :
          /\ \A i \in kept : Visible(i) /\ saved[i] # NoVersion /\ saved[i] = tool[i].def
          /\ active' = [i \in ToolIds |-> IF i \in kept THEN tool[i].def ELSE NoVersion]
          /\ saved' = IF kept # {} /\ ok THEN active' ELSE NoTools
    <3> DEFINE same == {i \in ToolIds : Visible(i) /\ saved[i] # NoVersion /\ saved[i] = tool[i].def}
               kept == IF readable THEN same ELSE {}
    <3> WITNESS kept \in SUBSET ToolIds
    <3> QED
      BY <1>4 DEF StartRun
  <2>2. run' \in 0 .. MaxRuns /\ running' = TRUE /\ prev' = saved
        /\ UNCHANGED <<call, given, seen, lost>>
    BY <1>4, ActivationAssumption DEF StartRun, SessionTypes
  <2>3. active' \in [ToolIds -> Definitions]
    BY <2>1, VisibleIsDefined DEF Definitions
  <2>4. SessionTypes'
    BY <1>1, <2>1, <2>2, <2>3 DEF SessionTypes
  <2>5. SessionInv'
    <3>1. \A i \in ToolIds : active'[i] # NoVersion => active'[i] = saved[i]
      BY <2>1
    <3>2. \A i \in ToolIds \ lost : saved[i] # NoVersion => saved[i] = Given(i)
      BY DEF SessionInv, Agree
    <3>3. \A i \in ToolIds : Given(i)' = Given(i)
      BY <2>2 DEF Given
    <3>4. \A i \in ToolIds \ lost : Agree(active, i)'
      BY <3>1, <3>2, <3>3 DEF Agree
    <3>5. \A i \in ToolIds \ lost : Agree(saved, i)'
      BY <1>1, <2>1, <3>1, <3>2, <3>3 DEF Agree
    <3>6. \A i \in ToolIds \ lost : Agree(prev, i)'
      BY <2>2, <3>2, <3>3 DEF Agree
    <3> QED
      BY <2>2, <3>3, <3>4, <3>5, <3>6 DEF SessionInv, SessionTypes
  <2> QED
    BY <2>4, <2>5
<1> QED
  BY <1>2, <1>3, <1>4

LEMMA LoadsKeep ==
  ASSUME RegistryInv, SessionTypes, SessionInv, NEW i \in ToolIds, NEW ok \in BOOLEAN,
         GetTool(i, ok) \/ Reload(i, ok)
  PROVE  SessionTypes' /\ SessionInv'
<1>1. PICK d \in Definitions : d = tool[i].def /\ d # NoVersion
  BY VisibleIsDefined DEF GetTool, Reload
<1>2. /\ active' = [active EXCEPT ![i] = d] /\ saved' = (IF ok THEN active' ELSE saved)
      /\ UNCHANGED <<run, running, prev, seen>> /\ call = NoCall
  BY <1>1 DEF GetTool, Reload, Saves, Ready
<1>3. /\ active' \in [ToolIds -> Definitions] /\ active'[i] = d
      /\ \A j \in ToolIds \ {i} : active'[j] = active[j]
  BY <1>2 DEF SessionTypes
<1>4. CASE GetTool(i, ok)
  <2>1. /\ call' = call /\ given' = (IF ok THEN [given EXCEPT ![i] = d] ELSE given)
        /\ lost' = IF ok THEN lost \ {i} ELSE lost \cup {i}
    BY <1>1, <1>4 DEF GetTool
  <2>2. SessionTypes'
    BY <1>2, <1>3, <2>1 DEF SessionTypes
  <2>3. \A j \in ToolIds \ lost' : j # i => j \notin lost /\ Given(j)' = Given(j)
    BY <1>2, <2>1 DEF Given, SessionTypes
  <2>4. i \notin lost' => ok /\ saved' = active' /\ Given(i)' = d
    BY <1>1, <1>2, <2>1 DEF Given, SessionTypes
  <2>5. \A j \in ToolIds \ lost' : Agree(active, j)' /\ Agree(saved, j)'
    BY <1>2, <1>3, <2>3, <2>4 DEF SessionInv, Agree
  <2>6. \A j \in ToolIds \ lost' : active'[j] = NoVersion => Agree(prev, j)'
    BY <1>1, <1>2, <1>3, <2>3 DEF SessionInv, Agree
  <2> QED
    BY <1>2, <2>1, <2>2, <2>5, <2>6 DEF SessionInv, NoCall
<1>5. CASE Reload(i, ok)
  <2>1. /\ call' = (IF ok THEN [id |-> i, def |-> d, phase |-> "found"] ELSE NoCall)
        /\ UNCHANGED <<given, lost>> /\ active[i] = NoVersion /\ prev[i] = d
    BY <1>1, <1>5 DEF Reload
  <2>2. call' \in [id : ToolIds, def : Definitions, phase : CallPhases]
    BY <2>1 DEF NoCall, CallPhases, Definitions, ToolIds
  <2>3. SessionTypes'
    BY <1>2, <1>3, <2>1, <2>2 DEF SessionTypes
  <2>4. \A j \in ToolIds : Given(j)' = Given(j)
    BY <1>2, <2>1 DEF Given
  <2>5. i \notin lost => Given(i) = d
    BY <1>1, <2>1 DEF SessionInv, Agree
  <2>6. \A j \in ToolIds \ lost' : Agree(active, j)' /\ Agree(saved, j)'
    BY <1>2, <1>3, <2>1, <2>4, <2>5 DEF SessionInv, Agree
  <2>7. \A j \in ToolIds \ lost' : active'[j] = NoVersion => Agree(prev, j)'
    BY <1>1, <1>2, <1>3, <2>1, <2>4 DEF SessionInv, Agree
  <2> QED
    BY <2>1, <2>3, <2>4, <2>5, <2>6, <2>7 DEF SessionInv, NoCall
<1> QED
  BY <1>4, <1>5

LEMMA CallsKeep ==
  ASSUME SessionTypes, SessionInv,
         \/ \E i \in ToolIds : Execute(i)
         \/ \E phase \in Gates : Revalidate(phase)
         \/ Approve \/ Return
  PROVE  SessionTypes' /\ SessionInv'
<1>1. UNCHANGED <<run, running, active, prev, saved, given, seen, lost>>
  BY DEF Execute, Revalidate, Approve, Return
<1>2. PICK y : y = call
  OBVIOUS
<1>3. y \in [id : ToolIds, def : Definitions, phase : CallPhases]
  BY <1>2 DEF SessionTypes
<1>4. PICK z : z = call'
  OBVIOUS
<1> DEFINE Goal == /\ z \in [id : ToolIds, def : Definitions, phase : CallPhases]
                   /\ z.phase # "none" /\ z.id \notin lost => z.def = Given(z.id)
<1>5. ASSUME NEW i \in ToolIds, Execute(i) PROVE Goal
  BY <1>4, <1>5 DEF Execute, SessionTypes, SessionInv, Agree, CallPhases
<1>6. NoCall \in [id : ToolIds, def : Definitions, phase : CallPhases] /\ NoCall.phase = "none"
  BY DEF NoCall, CallPhases, ToolIds, Definitions
<1>7. ASSUME NEW phase \in Gates, Revalidate(phase) PROVE Goal
  <2>1. CASE StillValid(y.id, y.def)
    <3>1. z = [y EXCEPT !.def = y.def, !.phase = phase] /\ y.phase = "found"
      BY <1>2, <1>4, <1>7, <2>1 DEF Revalidate, StillValid
    <3>2. z.id = y.id /\ z.def = y.def /\ z.phase = phase
          /\ z \in [id : ToolIds, def : Definitions, phase : CallPhases]
      BY <1>3, <1>7, <3>1 DEF Gates, CallPhases
    <3> QED
      BY <1>2, <3>1, <3>2 DEF SessionInv
  <2>2. CASE ~StillValid(y.id, y.def)
    BY <1>2, <1>4, <1>6, <1>7, <2>2 DEF Revalidate
  <2> QED
    BY <2>1, <2>2
<1>8. ASSUME Approve PROVE Goal
  <2>1. z = [y EXCEPT !.phase = "sent"] /\ y.phase = "confirm"
    BY <1>2, <1>4, <1>8 DEF Approve
  <2>2. z.id = y.id /\ z.def = y.def
        /\ z \in [id : ToolIds, def : Definitions, phase : CallPhases]
    BY <1>3, <2>1 DEF CallPhases
  <2>3. y.id \notin lost => y.def = Given(y.id)
    BY <1>2, <2>1 DEF SessionInv
  <2> QED
    BY <2>2, <2>3
<1>9. ASSUME Return PROVE Goal
  <2>1. z = NoCall
    BY <1>4, <1>9 DEF Return
  <2> QED
    BY <1>6, <2>1
<1> HIDE DEF Goal
<1>10. Goal
  BY <1>5, <1>7, <1>8, <1>9
<1> QED
  BY <1>1, <1>4, <1>10 DEF Goal, SessionTypes, SessionInv, Agree, Given
-----------------------------------------------------------------------------
(* The specification.                                                      *)

Inv == RegistryInv /\ SessionTypes /\ SessionInv

LEMMA Starts == Init => Inv
BY RegistryStarts, ActivationStarts DEF Init, Inv

LEMMA StepKeeps == Inv /\ [Next]_vars => Inv'
<1> SUFFICES ASSUME Inv, [Next]_vars PROVE Inv'
  OBVIOUS
<1>1. CASE Serves /\ UNCHANGED sessionVars
  BY <1>1, ServesKeeps, SessionIdles DEF Inv
<1>2. CASE Restart /\ (EndRun \/ (~running /\ UNCHANGED sessionVars))
  BY <1>2, RestartKeeps, RunsKeep, SessionIdles DEF Inv
<1>3. CASE SessionNext /\ UNCHANGED regVars
  BY <1>3, RegistryIdles, RunsKeep, LoadsKeep, CallsKeep DEF Inv, SessionNext
<1>4. CASE UNCHANGED vars
  BY <1>4, RegistryIdles, SessionIdles DEF Inv, vars
<1> QED
  BY <1>1, <1>2, <1>3, <1>4 DEF Next

LEMMA InvHolds == Spec => []Inv
BY Starts, StepKeeps, PTL DEF Spec

\* Every variable has its type, whatever requests, restarts and runs come.
THEOREM TypeCorrect == Spec => []TypeOK
<1>1. Inv => TypeOK
  BY DEF Inv, RegistryInv, RegistryTypes, SessionTypes, TypeOK, Tools
<1> QED
  BY <1>1, InvHolds, PTL

\* The server that recordMcpCheckResult reports as connected, for a handler
\* that ran alone, runs the version of its row, and every bound caller that is
\* not switched off has its tool, as the id of the owner has.
THEOREM ConnectedSynced == Spec => []ConnectedIsSynced
<1>1. Inv => ConnectedIsSynced
  BY DEF Inv, RegistryInv
<1> QED
  BY <1>1, InvHolds, PTL

\* After a handler that ran alone has turned a server off or deleted it, no
\* client and no tool of it is left.
THEOREM GoneLeaves == Spec => []GoneLeavesNothing
<1>1. Inv => GoneLeavesNothing
  BY DEF Inv, RegistryInv
<1> QED
  BY <1>1, InvHolds, PTL

\* execute_tool runs the definition that get_tool has returned last, which the
\* model was handed with the results of its batch, unless that was cut or the
\* tool could not be saved.
THEOREM RunsLoaded == Spec => []RunsWhatWasLoaded
<1>1. Inv => RunsWhatWasLoaded
  BY DEF Inv, SessionInv, RunsWhatWasLoaded
<1> QED
  BY <1>1, InvHolds, PTL
-----------------------------------------------------------------------------
(* Workspaces.                                                             *)

(* What a step of run r is, by the data it can touch.                      *)
LoadStep(r) == LoadStart(r) \/ Load(r) \/ Retire(r) \/ ListTools(r)
CallStep(r) == CallLookup(r) \/ CallEnter(r) \/ CallAnswer(r) \/ CallTimeout(r)
EndStep(r) == RunEnd(r) \/ Pop(r) \/ Release(r) \/ StopServer(r)

LEMMA NextSteps ==
  WorkNext <=> Crash \/ \E r \in Runs : LoadStep(r) \/ CallStep(r) \/ EndStep(r)
BY DEF WorkNext, Choice, Locking, LoadStep, CallStep, EndStep

-----------------------------------------------------------------------------
(* Type correctness                                                        *)

LEMMA WorkTypeInit == WorkInit => WorkTypeOK
<1> SUFFICES ASSUME WorkInit PROVE WorkTypeOK
  OBVIOUS
<1>1. "idle" \in Steps /\ "idle" \notin HandleSteps
  BY DEF Steps, HandleSteps
<1>2. {crashes, slips} \subseteq 0..MaxFaults
  BY WorkspaceAssumption DEF WorkInit
<1> QED
  BY <1>1, <1>2 DEF WorkInit, WorkTypeOK

LEMMA TypeLoad ==
  ASSUME WorkTypeOK, NEW r \in Runs, LoadStep(r)
  PROVE  WorkTypeOK'
<1> USE WorkspaceAssumption DEF Steps, HandleSteps, LoadSteps, ReleaseSteps, Goto, Point, faults
<1>1. CASE LoadStart(r)
  BY <1>1 DEF WorkTypeOK, LoadStart, Sweep
<1>2. CASE LoadFails(r)
  BY <1>2 DEF WorkTypeOK, LoadFails
<1>3. CASE AddWorktree(r)
  BY <1>3 DEF WorkTypeOK, AddWorktree
<1>4. CASE MountFails(r)
  BY <1>4 DEF WorkTypeOK, MountFails, Slip, MayFault
<1>5. CASE EnsureServer(r)
  BY <1>5 DEF WorkTypeOK, EnsureServer
<1>6. CASE Retire(r)
  BY <1>6 DEF WorkTypeOK, Retire, StopClient
<1>7. CASE GetServer(r)
  BY <1>7 DEF WorkTypeOK, GetServer
<1>8. CASE ListTools(r)
  BY <1>8 DEF WorkTypeOK, ListTools
<1>9. CASE UpsertRead(r)
  BY <1>9 DEF WorkTypeOK, UpsertRead
<1>10. CASE UpsertWrite(r)
  BY <1>10 DEF WorkTypeOK, UpsertWrite
<1>11. CASE Allocate(r)
  BY <1>11 DEF WorkTypeOK, Allocate
<1> QED
  BY <1>1, <1>2, <1>3, <1>4, <1>5, <1>6, <1>7, <1>8, <1>9, <1>10, <1>11 DEF LoadStep, Load

LEMMA TypeCall ==
  ASSUME WorkTypeOK, NEW r \in Runs, CallStep(r)
  PROVE  WorkTypeOK'
<1> USE WorkspaceAssumption DEF Steps, HandleSteps, LoadSteps, ReleaseSteps, Goto, Point, faults
<1>1. CASE CallLookup(r)
  BY <1>1 DEF WorkTypeOK, CallLookup
<1>2. CASE CallEnter(r)
  BY <1>2 DEF WorkTypeOK, CallEnter
<1>3. CASE CallAnswer(r)
  BY <1>3 DEF WorkTypeOK, CallAnswer, Unlock
<1>4. CASE CallTimeout(r)
  BY <1>4 DEF WorkTypeOK, CallTimeout, Unlock
<1> QED
  BY <1>1, <1>2, <1>3, <1>4 DEF CallStep

LEMMA TypeEnd ==
  ASSUME WorkTypeOK, NEW r \in Runs, EndStep(r)
  PROVE  WorkTypeOK'
<1> USE WorkspaceAssumption DEF Steps, HandleSteps, LoadSteps, ReleaseSteps, Goto, Point, faults
<1>1. CASE RunEnd(r)
  BY <1>1 DEF WorkTypeOK, RunEnd
<1>2. CASE Pop(r)
  BY <1>2 DEF WorkTypeOK, Pop, Sweep
<1>3. CASE Unregister(r)
  BY <1>3 DEF WorkTypeOK, Unregister, Slip, MayFault
<1>4. CASE Erase(r)
  BY <1>4 DEF WorkTypeOK, Erase, Slip, MayFault
<1>5. CASE Unmount(r)
  BY <1>5 DEF WorkTypeOK, Unmount
<1>6. CASE StopServer(r)
  BY <1>6 DEF WorkTypeOK, StopServer, StopClient
<1>7. CASE Remove(r)
  BY <1>7 DEF WorkTypeOK, Remove
<1> QED
  BY <1>1, <1>2, <1>3, <1>4, <1>5, <1>6, <1>7 DEF EndStep, Release

LEMMA WorkTypeNext == WorkTypeOK /\ [WorkNext]_workVars => WorkTypeOK'
<1> SUFFICES ASSUME WorkTypeOK, [WorkNext]_workVars PROVE WorkTypeOK'
  OBVIOUS
<1>1. CASE Crash
  <2>1. {"idle", "over"} \subseteq Steps /\ {"idle", "over"} \cap HandleSteps = {}
    BY DEF Steps, HandleSteps
  <2>2. {crashes, slips}' \subseteq 0..MaxFaults
    BY <1>1, WorkspaceAssumption DEF WorkTypeOK, Crash, MayFault
  <2>3. pc' \in [Runs -> Steps] /\ \A r \in Runs : pc'[r] \notin HandleSteps
    BY <1>1, <2>1 DEF Crash
  <2> QED
    BY <1>1, <2>2, <2>3 DEF WorkTypeOK, Crash
<1>2. CASE UNCHANGED workVars
  BY <1>2 DEF WorkTypeOK, workVars, faults
<1> QED
  BY <1>1, <1>2, NextSteps, TypeLoad, TypeCall, TypeEnd

(* The types, and that every goroutine that uses a client has one          *)
(* (EnsureServer, SyncServerRegistryScoped, Call, RemoveServer).           *)
THEOREM WorkTypes == WorkSpec => []WorkTypeOK
<1> QED
  BY WorkTypeInit, WorkTypeNext, PTL DEF WorkSpec

-----------------------------------------------------------------------------
(* What is there has an owner that will take it away                       *)

(* No run has used the workspaces of this process yet.                     *)
Untouched == mounted = {} /\ clients = NoRun /\ \A r \in Runs : pc[r] \in {"idle", "over"}
(* An allocation is neither loaded again nor kept by a release.            *)
NotMounted(r) == pc[r] \in LoadSteps \cup ReleaseSteps \cup {"idle", "over"} => r \notin mounted
(* r has mounted a client, and has not yet removed what is mounted.        *)
MayBeMounted(r) ==
  \/ r \in mounted
  \/ pc[r] \in (LoadSteps \ {"fetch", "mount"}) \cup {"unregister", "erase", "unmount"}
MayHaveTree(r) == r \in mounted \/ pc[r] \in (LoadSteps \ {"fetch"}) \cup ReleaseSteps
MayHaveRow(r) == r \in mounted \/ pc[r] \in {"append", "unregister", "erase"}

MountInv ==
  /\ ~swept => Untouched
  /\ \A r \in Runs : NotMounted(r)
  /\ \A r \in Runs : clients = r => MayBeMounted(r) /\ r \in tree
  /\ swept /\ slips = 0 => \A r \in tree : MayHaveTree(r)

(* The copies of tools of a caller are some run's to remove.               *)
RowInv ==
  slips = 0 /\ crashes = 0 =>
    \A c \in rows : \E r \in Runs : Caller[r] = c /\ MayHaveRow(r)

LEMMA MountInit == WorkInit => MountInv /\ RowInv
BY WorkspaceAssumption
   DEF WorkInit, MountInv, RowInv, Untouched, NotMounted, MayBeMounted, LoadSteps, ReleaseSteps

LEMMA MountLoad ==
  ASSUME WorkTypeOK, MountInv, NEW r \in Runs, LoadStep(r)
  PROVE  MountInv'
<1> USE WorkspaceAssumption
    DEF WorkTypeOK, MountInv, Untouched, NotMounted, MayBeMounted, MayHaveTree,
        LoadSteps, ReleaseSteps, Goto, Point, faults
<1>1. CASE LoadStart(r)
  BY <1>1 DEF LoadStart, Sweep, Free
<1>2. CASE LoadFails(r)
  BY <1>2 DEF LoadFails
<1>3. CASE AddWorktree(r)
  BY <1>3 DEF AddWorktree
<1>4. CASE MountFails(r)
  BY <1>4 DEF MountFails, Slip
<1>5. CASE EnsureServer(r)
  BY <1>5 DEF EnsureServer
<1>6. CASE Retire(r)
  BY <1>6 DEF Retire, StopClient
<1>7. CASE GetServer(r)
  BY <1>7 DEF GetServer
<1>8. CASE ListTools(r)
  BY <1>8 DEF ListTools
<1>9. CASE UpsertRead(r)
  BY <1>9 DEF UpsertRead
<1>10. CASE UpsertWrite(r)
  BY <1>10 DEF UpsertWrite
<1>11. CASE Allocate(r)
  BY <1>11 DEF Allocate
<1> QED
  BY <1>1, <1>2, <1>3, <1>4, <1>5, <1>6, <1>7, <1>8, <1>9, <1>10, <1>11 DEF LoadStep, Load

LEMMA MountCall ==
  ASSUME WorkTypeOK, MountInv, NEW r \in Runs, CallStep(r)
  PROVE  MountInv'
<1> USE WorkspaceAssumption
    DEF WorkTypeOK, MountInv, Untouched, NotMounted, MayBeMounted, MayHaveTree,
        LoadSteps, ReleaseSteps, Goto, Point, faults
<1>1. CASE CallLookup(r)
  BY <1>1 DEF CallLookup, Free
<1>2. CASE CallEnter(r)
  BY <1>2 DEF CallEnter
<1>3. CASE CallAnswer(r)
  BY <1>3 DEF CallAnswer, Unlock
<1>4. CASE CallTimeout(r)
  BY <1>4 DEF CallTimeout, Unlock
<1> QED
  BY <1>1, <1>2, <1>3, <1>4 DEF CallStep

LEMMA MountEnd ==
  ASSUME WorkTypeOK, MountInv, NEW r \in Runs, EndStep(r)
  PROVE  MountInv'
<1> USE WorkspaceAssumption
    DEF WorkTypeOK, MountInv, Untouched, NotMounted, MayBeMounted, MayHaveTree,
        LoadSteps, ReleaseSteps, Goto, Point, faults
<1>1. CASE RunEnd(r)
  BY <1>1 DEF RunEnd
<1>2. CASE Pop(r)
  BY <1>2 DEF Pop, Sweep
<1>3. CASE Unregister(r)
  BY <1>3 DEF Unregister, Slip
<1>4. CASE Erase(r)
  BY <1>4 DEF Erase, Slip
<1>5. CASE Unmount(r)
  BY <1>5 DEF Unmount
<1>6. CASE StopServer(r)
  BY <1>6 DEF StopServer, StopClient
<1>7. CASE Remove(r)
  BY <1>7 DEF Remove
<1> QED
  BY <1>1, <1>2, <1>3, <1>4, <1>5, <1>6, <1>7 DEF EndStep, Release

LEMMA MountNext == WorkTypeOK /\ MountInv /\ [WorkNext]_workVars => MountInv'
<1> SUFFICES ASSUME WorkTypeOK, MountInv, [WorkNext]_workVars PROVE MountInv'
  OBVIOUS
<1>1. CASE Crash
  BY <1>1, WorkspaceAssumption
     DEF WorkTypeOK, MountInv, Untouched, NotMounted, Crash, LoadSteps, ReleaseSteps
<1>2. CASE UNCHANGED workVars
  BY <1>2 DEF MountInv, Untouched, NotMounted, MayBeMounted, MayHaveTree, workVars, faults
<1> QED
  BY <1>1, <1>2, NextSteps, MountLoad, MountCall, MountEnd

(* A run that has rows to remove keeps them in its charge until it has     *)
(* found or deleted them.                                                  *)
LEMMA RowKept ==
  ASSUME WorkTypeOK, NEW q \in Runs, MayHaveRow(q), WorkNext, crashes' = 0, slips' = 0,
         ~MayHaveRow(q)'
  PROVE  Caller[q] \notin rows'
<1> USE DEF WorkTypeOK, MayHaveRow, Goto, faults
<1>1. CASE Crash
  BY <1>1 DEF Crash
<1>2. ASSUME NEW r \in Runs, LoadStep(r) \/ CallStep(r) PROVE FALSE
  <2>1. mounted \subseteq mounted'
    BY <1>2 DEF LoadStep, CallStep, LoadStart, Load, LoadFails, AddWorktree, MountFails,
       EnsureServer, Retire, GetServer, ListTools, UpsertRead, UpsertWrite, Allocate,
       CallLookup, CallEnter, CallAnswer, CallTimeout
  <2>2. pc[q] \in {"append", "unregister", "erase"} => pc'[q] = pc[q] \/ q \in mounted'
    BY <1>2 DEF LoadStep, CallStep, LoadStart, Load, LoadFails, AddWorktree, MountFails,
       EnsureServer, Retire, GetServer, ListTools, UpsertRead, UpsertWrite, Allocate,
       CallLookup, CallEnter, CallAnswer, CallTimeout, Unlock, Free
  <2> QED
    BY <2>1, <2>2
<1>3. ASSUME NEW r \in Runs, EndStep(r) PROVE Caller[q] \notin rows'
  <2>1. CASE RunEnd(r)
    BY <1>3, <2>1 DEF RunEnd
  <2>2. CASE Pop(r)
    BY <1>3, <2>2 DEF Pop
  <2>3. CASE Unregister(r)
    BY <1>3, <2>3 DEF Unregister, Slip
  <2>4. CASE Erase(r)
    BY <1>3, <2>4 DEF Erase, Slip
  <2>5. CASE Unmount(r) \/ StopServer(r) \/ Remove(r)
    BY <1>3, <2>5 DEF Unmount, StopServer, Remove
  <2> QED
    BY <1>3, <2>1, <2>2, <2>3, <2>4, <2>5 DEF EndStep, Release
<1> QED
  BY <1>1, <1>2, <1>3, NextSteps

(* A row that is new is in the charge of the run that has created it.      *)
LEMMA RowCreated ==
  ASSUME WorkTypeOK, WorkNext, NEW c \in rows', c \notin rows
  PROVE  \E r \in Runs : Caller[r] = c /\ MayHaveRow(r)'
<1>1. PICK r \in Runs : UpsertWrite(r)
  BY DEF WorkNext, Choice, Load, Release, Locking, LoadStart, LoadFails, AddWorktree, MountFails,
     EnsureServer, Retire, GetServer, ListTools, UpsertRead, Allocate, CallLookup, CallEnter,
     CallAnswer, CallTimeout, RunEnd, Pop, Unregister, Erase, Unmount, StopServer, Remove, Crash
<1>2. Caller[r] = c /\ pc'[r] = "append"
  BY <1>1 DEF WorkTypeOK, UpsertWrite, Goto
<1> QED
  BY <1>2 DEF MayHaveRow

(* Faults are only ever counted up.                                        *)
LEMMA FaultsGrow ==
  ASSUME WorkTypeOK, WorkNext, crashes' = 0, slips' = 0
  PROVE  crashes = 0 /\ slips = 0
<1>1. crashes \in Nat /\ slips \in Nat
  BY WorkspaceAssumption DEF WorkTypeOK
<1> QED
  BY <1>1 DEF WorkNext, Choice, Load, Release, Locking, LoadStart, LoadFails, AddWorktree, MountFails,
     EnsureServer, Retire, GetServer, ListTools, UpsertRead, UpsertWrite, Allocate, CallLookup,
     CallEnter, CallAnswer, CallTimeout, RunEnd, Pop, Unregister, Erase, Unmount, StopServer, Remove,
     Crash, Slip, faults

LEMMA RowNext == WorkTypeOK /\ RowInv /\ [WorkNext]_workVars => RowInv'
<1> SUFFICES ASSUME WorkTypeOK, RowInv, [WorkNext]_workVars PROVE RowInv'
  OBVIOUS
<1>1. CASE UNCHANGED workVars
  BY <1>1 DEF RowInv, MayHaveRow, workVars, faults
<1>2. CASE WorkNext
  <2> SUFFICES ASSUME crashes' = 0, slips' = 0, NEW c \in rows'
               PROVE  \E r \in Runs : Caller[r] = c /\ MayHaveRow(r)'
    BY DEF RowInv
  <2>1. CASE c \notin rows
    BY <1>2, <2>1, RowCreated
  <2>2. CASE c \in rows
    <3>1. PICK r \in Runs : Caller[r] = c /\ MayHaveRow(r)
      BY <1>2, <2>2, FaultsGrow DEF RowInv
    <3>2. MayHaveRow(r)'
      BY <1>2, <3>1, RowKept
    <3> QED
      BY <3>1, <3>2
  <2> QED
    BY <2>1, <2>2
<1> QED
  BY <1>1, <1>2

LEMMA OwnerInvariant == WorkSpec => [](WorkTypeOK /\ MountInv /\ RowInv)
<1> QED
  BY WorkTypeInit, WorkTypeNext, MountInit, MountNext, RowNext, PTL DEF WorkSpec

(* Nothing is left when nobody holds a workspace, whatever runs share      *)
(* (Load, ReleaseRun, Default).                                            *)
THEOREM NothingLeft == WorkSpec => []NothingLeftBehind
<1>1. WorkTypeOK /\ MountInv /\ RowInv => NothingLeftBehind
  BY DEF WorkTypeOK, MountInv, RowInv, NothingLeftBehind, Holding, MayBeMounted, MayHaveTree,
     MayHaveRow, LoadSteps, ReleaseSteps
<1> QED
  BY <1>1, OwnerInvariant, PTL

(* The registered client always has its worktree (EnsureServer, release).  *)
THEOREM MountedCode == WorkSpec => []MountedCodeExists
<1>1. WorkTypeOK /\ MountInv => MountedCodeExists
  BY DEF WorkTypeOK, MountInv, MountedCodeExists
<1> QED
  BY <1>1, OwnerInvariant, PTL

-----------------------------------------------------------------------------
(* Nobody waits in a circle                                                *)

(* The run whose step the goroutine of r has to wait for: the holder of    *)
(* Manager.mu, to load or to take its allocations out, or the caller that  *)
(* holds the mutex of the client that r is about to use.                   *)
Awaited(r) ==
  {q \in Runs : \/ pc[r] \in {"idle", "working", "pop"} /\ mu = q
                \/ pc[r] \in {"retire", "list", "enter", "stop"} /\ busy[handle[r]] = q}

(* Waiting ends with a call: who is waited for is loading or in a call, and *)
(* if it waits itself, then for a call, which waits for nobody but its     *)
(* server and has a timeout (Load, EnsureServer, ListTools, ReleaseRun,    *)
(* CallTool). A load that holds Manager.mu waits for a call; no call needs *)
(* Manager.mu.                                                             *)
NobodyWaitsInACircle ==
  \A r \in Runs : \A q \in Awaited(r) :
    /\ q # r /\ pc[q] \in LoadSteps \cup {"calling"}
    /\ \A p \in Awaited(q) : p \notin {q, r} /\ pc[p] = "calling" /\ Awaited(p) = {}

(* The locks: Manager.mu is held by the load that is under way, the mutex  *)
(* of a client by the call that is.                                        *)
LockInv ==
  /\ mu # NoRun => pc[mu] \in LoadSteps
  /\ \A r \in Runs : pc[r] \in LoadSteps => mu = r
  /\ \A g \in Runs : busy[g] # NoRun => pc[busy[g]] = "calling" /\ handle[busy[g]] = g
  /\ \A r \in Runs : pc[r] = "calling" => busy[handle[r]] = r

LEMMA LockInit == WorkInit => LockInv
BY WorkspaceAssumption DEF WorkInit, LockInv, LoadSteps

LEMMA LockLoad ==
  ASSUME WorkTypeOK, LockInv, NEW r \in Runs, LoadStep(r)
  PROVE  LockInv'
<1> USE WorkspaceAssumption
    DEF WorkTypeOK, LockInv, LoadSteps, ReleaseSteps, HandleSteps, Goto, Point, faults
<1>1. CASE LoadStart(r)
  BY <1>1 DEF LoadStart, Sweep, Free
<1>2. CASE LoadFails(r)
  BY <1>2 DEF LoadFails
<1>3. CASE AddWorktree(r)
  BY <1>3 DEF AddWorktree
<1>4. CASE MountFails(r)
  BY <1>4 DEF MountFails, Slip
<1>5. CASE EnsureServer(r)
  BY <1>5 DEF EnsureServer
<1>6. CASE Retire(r)
  BY <1>6 DEF Retire, StopClient
<1>7. CASE GetServer(r)
  BY <1>7 DEF GetServer
<1>8. CASE ListTools(r)
  BY <1>8 DEF ListTools
<1>9. CASE UpsertRead(r)
  BY <1>9 DEF UpsertRead
<1>10. CASE UpsertWrite(r)
  BY <1>10 DEF UpsertWrite
<1>11. CASE Allocate(r)
  BY <1>11 DEF Allocate
<1> QED
  BY <1>1, <1>2, <1>3, <1>4, <1>5, <1>6, <1>7, <1>8, <1>9, <1>10, <1>11 DEF LoadStep, Load

LEMMA LockCall ==
  ASSUME WorkTypeOK, LockInv, NEW r \in Runs, CallStep(r)
  PROVE  LockInv'
<1> USE WorkspaceAssumption
    DEF WorkTypeOK, LockInv, LoadSteps, ReleaseSteps, HandleSteps, Goto, Point, faults
<1>1. CASE CallLookup(r)
  BY <1>1 DEF CallLookup, Free
<1>2. CASE CallEnter(r)
  BY <1>2 DEF CallEnter
<1>3. CASE CallAnswer(r)
  BY <1>3 DEF CallAnswer, Unlock
<1>4. CASE CallTimeout(r)
  BY <1>4 DEF CallTimeout, Unlock
<1> QED
  BY <1>1, <1>2, <1>3, <1>4 DEF CallStep

LEMMA LockEnd ==
  ASSUME WorkTypeOK, LockInv, NEW r \in Runs, EndStep(r)
  PROVE  LockInv'
<1> USE WorkspaceAssumption
    DEF WorkTypeOK, LockInv, LoadSteps, ReleaseSteps, HandleSteps, Goto, Point, faults
<1>1. CASE RunEnd(r)
  BY <1>1 DEF RunEnd
<1>2. CASE Pop(r)
  BY <1>2 DEF Pop, Sweep
<1>3. CASE Unregister(r)
  BY <1>3 DEF Unregister, Slip
<1>4. CASE Erase(r)
  BY <1>4 DEF Erase, Slip
<1>5. CASE Unmount(r)
  BY <1>5 DEF Unmount
<1>6. CASE StopServer(r)
  BY <1>6 DEF StopServer, StopClient
<1>7. CASE Remove(r)
  BY <1>7 DEF Remove
<1> QED
  BY <1>1, <1>2, <1>3, <1>4, <1>5, <1>6, <1>7 DEF EndStep, Release

LEMMA LockNext == WorkTypeOK /\ LockInv /\ [WorkNext]_workVars => LockInv'
<1> SUFFICES ASSUME WorkTypeOK, LockInv, [WorkNext]_workVars PROVE LockInv'
  OBVIOUS
<1>1. CASE Crash
  BY <1>1, WorkspaceAssumption DEF WorkTypeOK, LockInv, Crash, LoadSteps
<1>2. CASE UNCHANGED workVars
  BY <1>2 DEF LockInv, workVars, faults
<1> QED
  BY <1>1, <1>2, NextSteps, LockLoad, LockCall, LockEnd

(* Loads, calls and releases never wait for each other in a circle, however *)
(* runs share Manager.mu and a client: whatever a run waits for is at most *)
(* two steps from a call that its server answers or its timeout ends.      *)
THEOREM NoCircle == WorkSpec => []NobodyWaitsInACircle
<1>1. ASSUME WorkTypeOK, LockInv PROVE NobodyWaitsInACircle
  <2>1. ASSUME NEW r \in Runs, NEW q \in Awaited(r)
        PROVE  q \in Runs /\ q # r /\ pc[q] \in LoadSteps \cup {"calling"}
    BY <1>1, <2>1, WorkspaceAssumption DEF WorkTypeOK, LockInv, Awaited, LoadSteps, HandleSteps
  <2>2. ASSUME NEW q \in Runs, pc[q] = "calling" PROVE Awaited(q) = {}
    BY <2>2 DEF Awaited
  <2>3. ASSUME NEW q \in Runs, pc[q] \in LoadSteps, NEW p \in Awaited(q) PROVE pc[p] = "calling"
    BY <1>1, <2>3, WorkspaceAssumption DEF WorkTypeOK, LockInv, Awaited, LoadSteps, HandleSteps
  <2>4. ASSUME NEW r \in Runs, NEW q \in Awaited(r), NEW p \in Awaited(q)
        PROVE  p \notin {q, r} /\ pc[p] = "calling" /\ Awaited(p) = {}
    <3>1. q \in Runs /\ pc[q] \in LoadSteps \cup {"calling"}
      BY <2>1, <2>4
    <3>2. p \in Runs /\ p # q
      BY <2>1, <2>4, <3>1
    <3>3. pc[p] = "calling" /\ Awaited(p) = {}
      BY <2>2, <2>3, <2>4, <3>1, <3>2
    <3>4. p # r
      BY <2>4, <3>3, <2>2
    <3> QED
      BY <3>2, <3>3, <3>4
  <2> QED
    BY <2>1, <2>4 DEF NobodyWaitsInACircle
<1> QED
  BY <1>1, WorkTypeInit, WorkTypeNext, LockInit, LockNext, PTL DEF WorkSpec
=============================================================================
