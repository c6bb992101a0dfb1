---------------------------- MODULE McpRegistry ----------------------------
(***************************************************************************)
(* The register of MCP servers: the row of one server, the callers bound   *)
(* to it, the client that runs in the process, and the tools that its      *)
(* handlers keep in the tool table.  A handler is an HTTP request that     *)
(* goes from statement to statement; the handlers of several requests      *)
(* interleave, any statement may fail, and the process may be restarted.   *)
(*                                                                         *)
(* A version stands for what an endpoint serves: its tool and the          *)
(* definition of that tool.  All requests name the same server.            *)
(***************************************************************************)
EXTENDS Naturals, FiniteSets

CONSTANTS Callers,      \* the callers of the platform
          Owners,       \* those that register the server
          Workers,      \* the goroutines that serve requests
          Versions,     \* the versions of the endpoint
          NoVersion,    \* none of them
          Edited,       \* a definition an administrator has edited
          MaxRequests   \* bound: requests

ASSUME RegistryAssumption ==
  /\ Owners # {} /\ Owners \subseteq Callers /\ IsFiniteSet(Callers)
  /\ Versions # {} /\ NoVersion \notin Versions /\ Edited \notin Versions
  /\ NoVersion # Edited /\ MaxRequests \in Nat
  /\ "primary" \notin Callers /\ "nobody" \notin Callers

Primary == "primary"    \* the tool id without a suffix
ToolIds == Callers \cup {Primary}
Nobody == "nobody"
NoTool == [caller |-> Nobody, def |-> NoVersion, on |-> FALSE, live |-> FALSE]
NoRow == [id |-> 0, owner |-> Nobody, ver |-> NoVersion, on |-> FALSE, live |-> FALSE]

VARIABLES row,        \* the row of the server; NoRow before the first
          bound,      \* the callers bound to the id of the row
          off,        \* the callers that are switched off
          check,      \* the last result of a check that the row holds
          client,     \* the version the client of the process runs, or none
          tool,       \* the rows of the tool table
          h,          \* the handler of each worker
          last,       \* how the last handler ended that ran alone (history)
          requests    \* how many requests have come

regVars == <<row, bound, off, check, client, tool, h, last, requests>>

Checks == {"unknown", "connected", "disconnected"}
Results == {"none", "connected", "disconnected", "off", "deleted"}
Phases == {"idle", "revive", "bind", "write", "rebind", "reread", "unbind",
           "start", "callers", "sync", "stop", "purge", "result", "delete"}

\* "snap" is the row as the handler has it, "bind" the bindings it will write
\* (none when there is nothing to write), "todo" the callers still to sync,
\* "left" those just unbound, and "sound" says that no other handler ran
\* meanwhile and that no error was passed over (history).
Idle == [pc |-> "idle", op |-> "none", snap |-> NoRow, bind |-> {}, todo |-> {},
         left |-> {}, sound |-> FALSE]
Handlers ==
  [pc : Phases, op : {"none", "create", "endpoint", "switch", "bindings", "delete", "connect"},
   snap : [id : 0 .. MaxRequests, owner : Callers \cup {Nobody},
           ver : Versions \cup {NoVersion}, on : BOOLEAN, live : BOOLEAN],
   bind : SUBSET Callers, todo : SUBSET Callers, left : SUBSET Callers, sound : BOOLEAN]

RegistryInit ==
  /\ row = NoRow /\ bound = {} /\ off = {} /\ check = "unknown" /\ client = NoVersion
  /\ tool = [i \in ToolIds |-> NoTool]
  /\ h = [w \in Workers |-> Idle] /\ last = "none" /\ requests = 0
-----------------------------------------------------------------------------
(* Statements that several handlers make.                                  *)

ToolIdOf(c, snap) == IF c = snap.owner THEN Primary ELSE c

\* The upsert of a tool: a row that exists, deleted or not, keeps its caller.
Upsert(t, i, c, v) ==
  [t EXCEPT ![i] = [caller |-> IF t[i] = NoTool THEN c ELSE t[i].caller,
                    def |-> v, on |-> TRUE, live |-> TRUE]]

\* The tools of the given callers are deleted.
Purge(t, callers) ==
  [i \in ToolIds |-> IF t[i].caller \in callers THEN [t[i] EXCEPT !.live = FALSE] ELSE t[i]]

\* A statement that is scoped by the id finds the row.
Holds(id) == row.live /\ row.id = id

Goes(w, pc) == h' = [h EXCEPT ![w].pc = pc]
GoesOn(w) == Goes(w, IF h[w].snap.on THEN "start" ELSE "stop")

\* A request comes; with another one under way neither runs alone.
Begins(w, handler) ==
  /\ h[w] = Idle /\ requests < MaxRequests
  /\ requests' = requests + 1 /\ last' = "none"
  /\ h' = [v \in Workers |->
             IF v = w THEN [handler EXCEPT !.sound = \A u \in Workers : h[u] = Idle]
             ELSE [h[v] EXCEPT !.sound = FALSE]]
  /\ UNCHANGED <<row, bound, off, check, client, tool>>

Ends(w, result) ==
  /\ h' = [h EXCEPT ![w] = Idle]
  /\ last' = IF h[w].sound THEN result ELSE "none"

\* The result of a check is written to the row, if it is still there; when the
\* statement fails, the row keeps the old one and the request succeeds.
Reports(w, result) ==
  \/ /\ check' = IF Holds(h[w].snap.id) THEN result ELSE check
     /\ Ends(w, IF result = "unknown" THEN "off" ELSE result)
  \/ Ends(w, "none") /\ UNCHANGED check
-----------------------------------------------------------------------------
(* The requests.                                                           *)

\* The owner has the tools anyway; a caller that is off cannot be bound.
Normalized(owner, bind) == bind \ {owner}
Bindable(owner, bind) == Normalized(owner, bind) \cap off = {}

\* To register the server: refused while the name is in use.
Create(w, owner, v, on, bind) ==
  /\ ~row.live /\ Bindable(owner, bind)
  /\ Begins(w, [Idle EXCEPT !.pc = "revive", !.op = "create", !.bind = Normalized(owner, bind),
       !.snap = [id |-> requests + 1, owner |-> owner, ver |-> v, on |-> on, live |-> TRUE]])

\* To change one field: the endpoint, or whether the server is on.
UpdateEndpoint(w, v) ==
  /\ row.live
  /\ Begins(w, [Idle EXCEPT !.pc = "write", !.op = "endpoint", !.snap = [row EXCEPT !.ver = v]])

UpdateStatus(w, on) ==
  /\ row.live
  /\ Begins(w, [Idle EXCEPT !.pc = "write", !.op = "switch", !.snap = [row EXCEPT !.on = on]])

\* To replace the bindings; those there are now are read at once.
UpdateBindings(w, bind) ==
  /\ row.live /\ Bindable(row.owner, bind)
  /\ Begins(w, [Idle EXCEPT !.pc = "rebind", !.op = "bindings", !.snap = row,
       !.bind = Normalized(row.owner, bind), !.left = bound \ bind])

\* To delete the server.
Delete(w) ==
  /\ row.live
  /\ Begins(w, [Idle EXCEPT !.pc = "stop", !.op = "delete", !.snap = row])

\* To test the connection.
Connect(w) ==
  /\ row.live /\ row.on
  /\ Begins(w, [Idle EXCEPT !.pc = "start", !.op = "connect", !.snap = row])
-----------------------------------------------------------------------------
(* The statements of a creation and of an update.                          *)

\* The name is looked up again, with the deleted rows, and whatever row is
\* there is written over, under a new id.  Where there is none the row is
\* inserted, and the column default takes the place of a status of zero: the
\* server is on, although the handler goes on with one that is off.
Revive(w) ==
  /\ h[w].pc = "revive"
  /\ row' = [h[w].snap EXCEPT !.on = @ \/ row = NoRow] /\ bound' = {} /\ check' = "unknown"
  /\ IF h[w].bind # {} THEN Goes(w, "bind") ELSE GoesOn(w)
  /\ UNCHANGED <<off, client, tool, last, requests>>

Bind(w) ==
  /\ h[w].pc \in {"bind", "rebind"}
  /\ bound' = IF row.id = h[w].snap.id THEN h[w].bind ELSE bound
  /\ IF h[w].pc = "bind" THEN GoesOn(w) ELSE Goes(w, "reread")
  /\ UNCHANGED <<row, off, check, client, tool, last, requests>>

\* The field of the request is written.
Write(w) ==
  /\ h[w].pc = "write"
  /\ row' = IF ~Holds(h[w].snap.id) THEN row
            ELSE IF h[w].op = "endpoint" THEN [row EXCEPT !.ver = h[w].snap.ver]
            ELSE [row EXCEPT !.on = h[w].snap.on]
  /\ Goes(w, "reread")
  /\ UNCHANGED <<bound, off, check, client, tool, last, requests>>

\* The row is read again: one that has gone ends the request.
Reread(w) ==
  /\ h[w].pc = "reread"
  /\ IF Holds(h[w].snap.id)
     THEN h' = [h EXCEPT ![w].snap = row, ![w].pc = "unbind"] /\ UNCHANGED last
     ELSE Ends(w, "none")
  /\ UNCHANGED <<row, bound, off, check, client, tool, requests>>

\* The tools of the callers just unbound are deleted.
Unbind(w) ==
  /\ h[w].pc = "unbind"
  /\ tool' = Purge(tool, h[w].left) /\ GoesOn(w)
  /\ UNCHANGED <<row, bound, off, check, client, last, requests>>
-----------------------------------------------------------------------------
(* The connection of a server that is on.                                  *)

\* Mutant of Start: a client that runs is kept.
StartOnce(w) ==
  /\ h[w].pc = "start" /\ UNCHANGED <<row, bound, off, tool, requests>>
  /\ \/ /\ client' = IF client = NoVersion THEN h[w].snap.ver ELSE client
        /\ Goes(w, "callers") /\ UNCHANGED <<check, last>>
     \/ Reports(w, "disconnected") /\ UNCHANGED client

\* The new client takes the place of the old one; one that does not start
\* leaves the old one there.
Start(w) ==
  /\ h[w].pc = "start" /\ UNCHANGED <<row, bound, off, tool, requests>>
  /\ \/ client' = h[w].snap.ver /\ Goes(w, "callers") /\ UNCHANGED <<check, last>>
     \/ Reports(w, "disconnected") /\ UNCHANGED client

\* The owner and the bound callers.
ReadCallers(w) ==
  /\ h[w].pc = "callers"
  /\ h' = [h EXCEPT ![w].pc = "sync",
             ![w].todo = {h[w].snap.owner} \cup IF row.id = h[w].snap.id THEN bound ELSE {}]
  /\ UNCHANGED <<row, bound, off, check, client, tool, last, requests>>

\* The owner comes first.
Turn(w, c) == c \in h[w].todo /\ (h[w].snap.owner \in h[w].todo => c = h[w].snap.owner)

\* A bound caller that is off is passed over.
Skipped(w, c) == c \in off /\ c # h[w].snap.owner

\* The tools the running client lists are written for the next caller.
Sync(w, c) ==
  /\ h[w].pc = "sync" /\ Turn(w, c) /\ (Skipped(w, c) \/ client # NoVersion)
  /\ tool' = IF Skipped(w, c) THEN tool
             ELSE Upsert(tool, ToolIdOf(c, h[w].snap), c, client)
  /\ h' = [h EXCEPT ![w].todo = @ \ {c}]
  /\ UNCHANGED <<row, bound, off, check, client, last, requests>>

\* There is no client, its list fails, or all the callers are served.
Synced(w) ==
  /\ h[w].pc = "sync" /\ (h[w].todo = {} \/ \E c \in Callers : Turn(w, c) /\ ~Skipped(w, c))
  /\ Reports(w, IF h[w].todo = {} THEN "connected" ELSE "disconnected")
  /\ UNCHANGED <<row, bound, off, client, tool, requests>>
-----------------------------------------------------------------------------
(* The end of a server that is off, or deleted.                            *)

Stop(w) ==
  /\ h[w].pc = "stop" /\ client' = NoVersion
  /\ IF h[w].op = "create" THEN Ends(w, "none") ELSE Goes(w, "purge") /\ UNCHANGED last
  /\ UNCHANGED <<row, bound, off, check, tool, requests>>

\* Mutant of PurgeAll: the tools of the owner alone are deleted.
PurgeOwners(w) ==
  /\ h[w].pc = "purge"
  /\ tool' = Purge(tool, {h[w].snap.owner})
  /\ Goes(w, IF h[w].op = "delete" THEN "delete" ELSE "result")
  /\ UNCHANGED <<row, bound, off, check, client, last, requests>>

PurgeAll(w) ==
  /\ h[w].pc = "purge"
  /\ tool' = Purge(tool, Callers)
  /\ Goes(w, IF h[w].op = "delete" THEN "delete" ELSE "result")
  /\ UNCHANGED <<row, bound, off, check, client, last, requests>>

TurnedOff(w) ==
  /\ h[w].pc = "result" /\ Reports(w, "unknown")
  /\ UNCHANGED <<row, bound, off, client, tool, requests>>

DeleteRow(w) ==
  /\ h[w].pc = "delete"
  /\ row' = IF Holds(h[w].snap.id) THEN [row EXCEPT !.live = FALSE] ELSE row
  /\ Ends(w, "deleted")
  /\ UNCHANGED <<bound, off, check, client, tool, requests>>
-----------------------------------------------------------------------------
(* Errors, and the process.                                                *)

\* An error of these statements ends the request.
Fails(w) ==
  /\ \/ h[w].pc \in {"revive", "bind", "write", "rebind", "reread", "delete"}
     \/ h[w].pc = "purge" /\ h[w].op = "delete"
  /\ Ends(w, "none")
  /\ UNCHANGED <<row, bound, off, check, client, tool, requests>>

\* An error of these is logged and the request goes on: the tools of unbound
\* callers or of a server turned off, the bindings, the look-up of a caller,
\* the upsert of a tool.
PassesOver(w) ==
  /\ \/ h[w].pc = "unbind" /\ h' = [h EXCEPT ![w].pc = IF h[w].snap.on THEN "start" ELSE "stop",
                                              ![w].sound = FALSE]
     \/ h[w].pc = "purge" /\ h[w].op # "delete"
        /\ h' = [h EXCEPT ![w].pc = "result", ![w].sound = FALSE]
     \/ h[w].pc = "callers"
        /\ h' = [h EXCEPT ![w].pc = "sync", ![w].todo = {h[w].snap.owner}, ![w].sound = FALSE]
     \/ h[w].pc = "sync" /\ \E c \in Callers :
          Turn(w, c) /\ h' = [h EXCEPT ![w].todo = @ \ {c}, ![w].sound = FALSE]
  /\ UNCHANGED <<row, bound, off, check, client, tool, last, requests>>

\* An administrator edits a tool; the row of a tool is not deleted by hand.
EditTool(i, def, on) ==
  /\ tool[i].live /\ requests < MaxRequests
  /\ tool' = [tool EXCEPT ![i].def = def, ![i].on = on]
  /\ requests' = requests + 1 /\ last' = "none"
  /\ h' = [w \in Workers |-> [h[w] EXCEPT !.sound = FALSE]]
  /\ UNCHANGED <<row, bound, off, check, client>>

\* A caller is switched off, or on again; its tools and bindings stay.
SwitchCaller(c) ==
  /\ requests < MaxRequests
  /\ off' = IF c \in off THEN off \ {c} ELSE off \cup {c}
  /\ requests' = requests + 1 /\ last' = "none"
  /\ h' = [w \in Workers |-> [h[w] EXCEPT !.sound = FALSE]]
  /\ UNCHANGED <<row, bound, check, client, tool>>

\* The process starts again.  A server that is on gets its client and the
\* tools of its callers, as far as nothing fails; the row is not written.
Restart ==
  /\ requests < MaxRequests /\ requests' = requests + 1
  /\ h' = [w \in Workers |-> Idle] /\ last' = "none"
  /\ \/ client' = NoVersion /\ tool' = tool
     \/ /\ row.live /\ row.on /\ client' = row.ver
        /\ \E served \in SUBSET ((bound \ off) \cup {row.owner}) :
             tool' = [i \in ToolIds |->
                        IF \E c \in served : i = ToolIdOf(c, row)
                        THEN Upsert(tool, i, IF i = Primary THEN row.owner ELSE i, row.ver)[i]
                        ELSE tool[i]]
  /\ UNCHANGED <<row, bound, off, check>>

Handle(w) ==
  \/ \E o \in Owners, v \in Versions, on \in BOOLEAN, bind \in SUBSET Callers :
       Create(w, o, v, on, bind)
  \/ \E v \in Versions : UpdateEndpoint(w, v)
  \/ \E on \in BOOLEAN : UpdateStatus(w, on)
  \/ \E bind \in SUBSET Callers : UpdateBindings(w, bind)
  \/ Delete(w) \/ Connect(w)
  \/ Revive(w) \/ Bind(w) \/ Write(w) \/ Reread(w) \/ Unbind(w)
  \/ Start(w) \/ ReadCallers(w) \/ (\E c \in Callers : Sync(w, c)) \/ Synced(w)
  \/ Stop(w) \/ PurgeAll(w) \/ TurnedOff(w) \/ DeleteRow(w)
  \/ Fails(w) \/ PassesOver(w)

Serves ==
  \/ \E w \in Workers : Handle(w)
  \/ \E i \in ToolIds, on \in BOOLEAN : \E def \in {tool[i].def, Edited} : EditTool(i, def, on)
  \/ \E c \in Callers : SwitchCaller(c)
-----------------------------------------------------------------------------
(* Properties.                                                             *)

\* What the running client lists is in the tool table, under this id, and is
\* the tool of the caller the id belongs to.
Serving(i, v) ==
  tool[i].live /\ tool[i].on /\ tool[i].def = v /\ (i # Primary => tool[i].caller = i)

\* When a handler that ran alone and passed over no error has reported the
\* server as connected, whatever the overlaps, crashes and failed purges
\* before it, the client runs the version of the row, every bound caller that
\* is not switched off has the tool of that version, and so has the id without
\* a suffix.  Whose tool that one is is not said: it is the owner's, or still
\* that of the first owner of the name, whose tools a later one does not get.
ConnectedIsSynced ==
  last = "connected" =>
    /\ row.live /\ row.on /\ check = "connected" /\ client = row.ver
    /\ \A c \in (bound \ off) \cup {row.owner} : Serving(ToolIdOf(c, row), row.ver)

\* When such a handler has turned the server off or deleted it, no client
\* runs and no tool of it is left, of whatever caller and however it came.
GoneLeavesNothing ==
  last \in {"off", "deleted"} =>
    /\ ~(row.live /\ row.on) /\ client = NoVersion
    /\ \A i \in ToolIds : ~tool[i].live
=============================================================================
