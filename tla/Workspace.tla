------------------------------ MODULE Workspace ------------------------------
(***************************************************************************)
(* The code workspaces of runs (service/workspace/workspace.go) and the    *)
(* repo MCP server that is mounted for them (service/mcpclient/manager.go, *)
(* client.go), for one service.                                            *)
(*                                                                         *)
(* A run, outer or sub, that calls load_runtime_code gets a worktree of    *)
(* its own, a client named ws_<service> that serves it, and copies of the  *)
(* client's tools in the registry of its caller; when the run has ended    *)
(* all of it is taken away. Clients have one name per service and registry *)
(* rows one per caller, so that runs share what only the worktree gives to *)
(* one of them.                                                            *)
(*                                                                         *)
(* A client is named by the run that created it: its process reads that    *)
(* run's worktree. Load holds Manager.mu from end to end; the release of a *)
(* run only while it takes its allocations out. Every use of a client's    *)
(* process holds the client's own mutex; a use that does not last is one   *)
(* step here. The tools of a client are one registry row per caller.       *)
(***************************************************************************)
EXTENDS Naturals, FiniteSets

CONSTANTS
  Runs,        \* the runs that may load the service
  NoRun,
  RunCallers,
  Caller,      \* Caller[r]: the caller (tenant) of the run
  MaxFaults    \* bound: deaths of the process and failed removals

ASSUME WorkspaceAssumption ==
  /\ NoRun \notin Runs
  /\ Caller \in [Runs -> RunCallers]
  /\ MaxFaults \in Nat

VARIABLES
  pc,       \* pc[r]: where the goroutine of the run stands
  mu,       \* the run that holds Manager.mu
  mounted,  \* Manager.active: the runs with an allocation
  tree,     \* the runs whose worktree is on the disk
  clients,  \* the client registered as ws_<service>
  proc,     \* the clients whose process lives (cmd # nil)
  busy,     \* busy[h]: the run whose call holds the mutex of client h
  handle,   \* handle[r]: the client the goroutine of r has a pointer to
  rows,     \* the callers with live copies of the tools (tblLlmTool)
  swept,    \* Default has run: the worktrees of the last process are gone
  crashes,  \* deaths of the process so far
  slips     \* ignored failures of a removal so far

workVars == <<pc, mu, mounted, tree, clients, proc, busy, handle, rows, swept, crashes, slips>>
faults == <<crashes, slips>>
MayFault == crashes + slips < MaxFaults

LoadSteps == {"fetch", "mount", "retire", "sync", "list", "upsert", "update", "create", "append"}
ReleaseSteps == {"unregister", "erase", "unmount", "stop", "remove"}
(* The goroutine uses the client it has a pointer to.                      *)
HandleSteps == {"retire", "list", "enter", "calling", "stop"}
Steps == LoadSteps \cup ReleaseSteps \cup {"idle", "working", "enter", "calling", "pop", "over"}

WorkInit ==
  /\ pc = [r \in Runs |-> "idle"] /\ mu = NoRun /\ mounted = {} /\ tree = {}
  /\ clients = NoRun /\ proc = {} /\ busy = [h \in Runs |-> NoRun]
  /\ handle = [r \in Runs |-> NoRun] /\ rows = {} /\ swept = FALSE
  /\ crashes = 0 /\ slips = 0

(* A removal fails; the error is logged or dropped.                        *)
Slip == MayFault /\ slips' = slips + 1
Goto(r, step) == pc' = [pc EXCEPT ![r] = step]
Point(r, h) == handle' = [handle EXCEPT ![r] = h]

(* The run is in its loop; idle: it has not used the service yet.          *)
Free(r) == pc[r] \in {"idle", "working"}

-----------------------------------------------------------------------------
(* Load                                                                    *)

(* Default: its first use removes what the last process left on the disk.  *)
Sweep ==
  /\ tree' = IF swept THEN tree ELSE {}
  /\ swept' = TRUE

(* A run that has the service already gets its allocation again.           *)
LoadStart(r) ==
  /\ Free(r) /\ r \notin mounted /\ mu = NoRun
  /\ mu' = r /\ Goto(r, "fetch") /\ Sweep
  /\ UNCHANGED <<mounted, clients, proc, busy, handle, rows, faults>>

(* Mutant of LoadFails: the early return keeps the lock.                   *)
LoadFailsLocked(r) ==
  /\ pc[r] = "fetch" /\ Goto(r, "working")
  /\ UNCHANGED <<mu, mounted, tree, clients, proc, busy, handle, rows, swept, faults>>
(* The mirror or the commit cannot be had.                                 *)
LoadFails(r) ==
  /\ pc[r] = "fetch" /\ Goto(r, "working") /\ mu' = NoRun
  /\ UNCHANGED <<mounted, tree, clients, proc, busy, handle, rows, swept, faults>>

(* A worktree that cannot be added is removed and added once more; the     *)
(* errors of that are ignored, and the run goes on without a worktree.     *)
AddWorktree(r) ==
  /\ pc[r] = "fetch" /\ Goto(r, "mount")
  /\ tree' \in {tree \cup {r}, tree \ {r}}
  /\ UNCHANGED <<mu, mounted, clients, proc, busy, handle, rows, swept, faults>>

(* Mutant of MountFails: the worktree is forgotten.                        *)
MountFailsKeeping(r) ==
  /\ pc[r] = "mount" /\ Goto(r, "working") /\ mu' = NoRun
  /\ UNCHANGED <<mounted, tree, clients, proc, busy, handle, rows, swept, faults>>
(* The process of the new client does not start; nothing is registered.    *)
MountFails(r) ==
  /\ pc[r] = "mount" /\ Goto(r, "working") /\ mu' = NoRun
  /\ \/ tree' = tree \ {r} /\ UNCHANGED slips
     \/ Slip /\ UNCHANGED tree
  /\ UNCHANGED <<mounted, clients, proc, busy, handle, rows, swept, crashes>>

(* EnsureServer: the new client runs before it replaces the old one; its   *)
(* process ends at once when its directory does not exist (repotools.New). *)
EnsureServer(r) ==
  /\ pc[r] = "mount" /\ r \in tree /\ proc' = proc \cup {r}
  /\ clients' = r /\ Point(r, clients)
  /\ Goto(r, IF clients = NoRun THEN "sync" ELSE "retire")
  /\ UNCHANGED <<mu, mounted, tree, busy, rows, swept, faults>>

(* Client.Stop of what handle[r] points to waits for the call under way.   *)
StopClient(r) ==
  /\ busy[handle[r]] = NoRun
  /\ proc' = proc \ {handle[r]}
  /\ Point(r, NoRun)

Retire(r) ==
  /\ pc[r] = "retire" /\ StopClient(r) /\ Goto(r, "sync")
  /\ UNCHANGED <<mu, mounted, tree, clients, busy, rows, swept, faults>>

(* SyncServerRegistryScoped: whatever is registered under the name by now. *)
GetServer(r) ==
  /\ pc[r] = "sync" /\ Point(r, clients)
  /\ Goto(r, IF clients = NoRun THEN "append" ELSE "list")
  /\ UNCHANGED <<mu, mounted, tree, clients, proc, busy, rows, swept, faults>>

(* ListTools starts the process again if it has been stopped; a process    *)
(* that does not start or does not answer in time is stopped.              *)
ListTools(r) ==
  /\ pc[r] = "list" /\ busy[handle[r]] = NoRun /\ Point(r, NoRun)
  /\ \/ /\ handle[r] \in proc \cup tree /\ proc' = proc \cup {handle[r]}
        /\ \E next \in {"upsert", "append"} : Goto(r, next)
     \/ proc' = proc \ {handle[r]} /\ Goto(r, "append")
  /\ UNCHANGED <<mu, mounted, tree, clients, busy, rows, swept, faults>>

(* upsertRegistryTool reads the row, then updates, revives or creates it;  *)
(* errors are logged. The update does not see a row that is deleted by now. *)
UpsertRead(r) ==
  /\ pc[r] = "upsert"
  /\ Goto(r, IF Caller[r] \in rows THEN "update" ELSE "create") \/ Goto(r, "append")
  /\ UNCHANGED <<mu, mounted, tree, clients, proc, busy, handle, rows, swept, faults>>

UpsertWrite(r) ==
  /\ pc[r] \in {"update", "create"} /\ Goto(r, "append")
  /\ \/ pc[r] = "create" /\ rows' = rows \cup {Caller[r]}
     \/ UNCHANGED rows
  /\ UNCHANGED <<mu, mounted, tree, clients, proc, busy, handle, swept, faults>>

(* An error of the registry has been ignored: the allocation stands.       *)
Allocate(r) ==
  /\ pc[r] = "append" /\ Goto(r, "working") /\ mu' = NoRun
  /\ mounted' = mounted \cup {r}
  /\ UNCHANGED <<tree, clients, proc, busy, handle, rows, swept, faults>>

-----------------------------------------------------------------------------
(* Calls: execute_tool of a tool that is in the registry of the caller, or *)
(* that the run has loaded from it.                                        *)

(* mcpclient.Call; without a client it is an error, and nothing happens.   *)
CallLookup(r) ==
  /\ Free(r) /\ clients # NoRun
  /\ r \in mounted \/ Caller[r] \in rows
  /\ Point(r, clients) /\ Goto(r, "enter")
  /\ UNCHANGED <<mu, mounted, tree, clients, proc, busy, rows, swept, faults>>

(* CallTool: a stopped process is an error and is not started again.       *)
CallEnter(r) ==
  /\ pc[r] = "enter" /\ busy[handle[r]] = NoRun
  /\ IF handle[r] \in proc
     THEN busy' = [busy EXCEPT ![handle[r]] = r] /\ Goto(r, "calling") /\ UNCHANGED handle
     ELSE Goto(r, "working") /\ Point(r, NoRun) /\ UNCHANGED busy
  /\ UNCHANGED <<mu, mounted, tree, clients, proc, rows, swept, faults>>

Unlock(r) ==
  /\ busy' = [busy EXCEPT ![handle[r]] = NoRun]
  /\ Point(r, NoRun) /\ Goto(r, "working")

CallAnswer(r) ==
  /\ pc[r] = "calling" /\ Unlock(r)
  /\ UNCHANGED <<mu, mounted, tree, clients, proc, rows, swept, faults>>

(* roundTripLockedTimeout stops a process that does not answer in time.    *)
CallTimeout(r) ==
  /\ pc[r] = "calling" /\ Unlock(r)
  /\ proc' = proc \ {handle[r]}
  /\ UNCHANGED <<mu, mounted, tree, clients, rows, swept, faults>>

-----------------------------------------------------------------------------
(* ReleaseRun                                                              *)

(* The run ends, in whatever way.                                          *)
RunEnd(r) ==
  /\ pc[r] = "working" /\ Goto(r, "pop")
  /\ UNCHANGED <<mu, mounted, tree, clients, proc, busy, handle, rows, swept, faults>>

Pop(r) ==
  /\ pc[r] = "pop" /\ mu = NoRun
  /\ Goto(r, IF r \in mounted THEN "unregister" ELSE "over")
  /\ mounted' = mounted \ {r} /\ Sweep
  /\ UNCHANGED <<mu, clients, proc, busy, handle, rows, faults>>

(* RemoveRegistryToolsForCaller reads the rows, then deletes them.         *)
Unregister(r) ==
  /\ pc[r] = "unregister"
  /\ \/ Goto(r, IF Caller[r] \in rows THEN "erase" ELSE "unmount") /\ UNCHANGED slips
     \/ Goto(r, "unmount") /\ Slip
  /\ UNCHANGED <<mu, mounted, tree, clients, proc, busy, handle, rows, swept, crashes>>

Erase(r) ==
  /\ pc[r] = "erase" /\ Goto(r, "unmount")
  /\ \/ rows' = rows \ {Caller[r]} /\ UNCHANGED slips
     \/ UNCHANGED rows /\ Slip
  /\ UNCHANGED <<mu, mounted, tree, clients, proc, busy, handle, swept, crashes>>

(* RemoveServer takes the client of that name out, whoever mounted it.     *)
Unmount(r) ==
  /\ pc[r] = "unmount" /\ Point(r, clients) /\ clients' = NoRun
  /\ Goto(r, IF clients = NoRun THEN "remove" ELSE "stop")
  /\ UNCHANGED <<mu, mounted, tree, proc, busy, rows, swept, faults>>

StopServer(r) ==
  /\ pc[r] = "stop" /\ StopClient(r) /\ Goto(r, "remove")
  /\ UNCHANGED <<mu, mounted, tree, clients, busy, rows, swept, faults>>

(* Mutant of Remove: the worktree goes before the client.                  *)
RemoveFirst(r) ==
  /\ pc[r] \in {"unmount", "remove"} /\ tree' = tree \ {r}
  /\ IF pc[r] = "remove" THEN Goto(r, "over") ELSE UNCHANGED pc
  /\ UNCHANGED <<mu, mounted, clients, proc, busy, handle, rows, swept, faults>>
(* The directory is removed when git does not remove the worktree.         *)
Remove(r) ==
  /\ pc[r] = "remove" /\ Goto(r, "over") /\ tree' = tree \ {r}
  /\ UNCHANGED <<mu, mounted, clients, proc, busy, handle, rows, swept, faults>>

-----------------------------------------------------------------------------
(* The process dies, its children with it; the next one serves new runs.   *)
Crash ==
  /\ MayFault /\ crashes' = crashes + 1
  /\ pc' = [r \in Runs |-> IF pc[r] = "idle" THEN "idle" ELSE "over"]
  /\ mu' = NoRun /\ mounted' = {} /\ clients' = NoRun /\ proc' = {}
  /\ busy' = [h \in Runs |-> NoRun] /\ handle' = [r \in Runs |-> NoRun]
  /\ swept' = FALSE
  /\ UNCHANGED <<tree, rows, slips>>

(* Steps that wait for Manager.mu or for the mutex of a client.            *)
Locking(r) == Retire(r) \/ ListTools(r) \/ CallEnter(r) \/ Pop(r) \/ StopServer(r)
Load(r) ==
  \/ LoadFails(r) \/ AddWorktree(r) \/ MountFails(r) \/ EnsureServer(r)
  \/ GetServer(r) \/ UpsertRead(r) \/ UpsertWrite(r) \/ Allocate(r)
Release(r) == Unregister(r) \/ Erase(r) \/ Unmount(r) \/ Remove(r)
Choice(r) == LoadStart(r) \/ CallLookup(r) \/ CallAnswer(r) \/ RunEnd(r)

WorkNext ==
  \/ \E r \in Runs : Choice(r) \/ Load(r) \/ Release(r) \/ Locking(r) \/ CallTimeout(r)
  \/ Crash

(* A goroutine that can go on does, a mutex is not withheld for ever (Go's *)
(* starvation mode), timers fire. A server owes no answer, a run may go on *)
(* working, and loading again, for ever.                                   *)
WorkFairness ==
  \A r \in Runs :
    /\ WF_workVars(Load(r)) /\ WF_workVars(Release(r)) /\ WF_workVars(CallTimeout(r))
    /\ SF_workVars(Locking(r))

WorkSpec == WorkInit /\ [][WorkNext]_workVars /\ WorkFairness

-----------------------------------------------------------------------------
(* Properties                                                              *)

(* The types; a goroutine only uses a client when it has one.              *)
WorkTypeOK ==
  /\ pc \in [Runs -> Steps] /\ mu \in Runs \cup {NoRun}
  /\ mounted \subseteq Runs /\ tree \subseteq Runs
  /\ clients \in Runs \cup {NoRun} /\ proc \subseteq Runs
  /\ busy \in [Runs -> Runs \cup {NoRun}] /\ handle \in [Runs -> Runs \cup {NoRun}]
  /\ \A r \in Runs : pc[r] \in HandleSteps => handle[r] \in Runs
  /\ rows \subseteq RunCallers /\ swept \in BOOLEAN
  /\ {crashes, slips} \subseteq 0..MaxFaults

Holding(r) == r \in mounted \/ pc[r] \in LoadSteps \cup ReleaseSteps

(* When no run has a workspace, loads or releases one, nothing is left: no *)
(* registered client, no worktree, no copies of tools in a registry,       *)
(* however loads and releases of runs that share a client and a row have   *)
(* interleaved (Load's error paths, release, Default).                     *)
NothingLeftBehind ==
  swept /\ (\A r \in Runs : ~Holding(r)) =>
    /\ clients = NoRun
    /\ slips = 0 => tree = {}
    /\ slips = 0 /\ crashes = 0 => rows = {}

(* "Take the tools and the client away first, then the worktree"           *)
(* (workspace.go:228): the registered client always has the worktree it    *)
(* was mounted on, also while runs replace and remove each other's client. *)
MountedCodeExists == clients # NoRun => clients \in tree

(* Every run that ends gives its workspace back, although releases wait    *)
(* for the loads of others and for calls of servers that hang.             *)
ReleaseReturns == \A r \in Runs : pc[r] = "pop" ~> pc[r] = "over"

(* "A worktree per run, locked to its commit", "a read-only repo MCP for   *)
(* that run" (workspace.go:9-13): the calls of a run that has loaded the   *)
(* service read its own worktree.                                          *)
OwnCode == \A r \in Runs : pc[r] = "calling" /\ r \in mounted => handle[r] = r

(* "Stops and removes a registered client" (manager.go:204): a process     *)
(* lives only as a registered client, or is about to be stopped.           *)
NoLeakedProcess ==
  \A h \in proc : clients = h \/ \E r \in Runs : handle[r] = h /\ pc[r] \in {"retire", "stop"}

(* "The restart means that all runs are over, it is enough to clear the    *)
(* directories" (workspace.go, cleanupOrphans): no tools are left either.  *)
RestartLeavesNoTools ==
  swept /\ (\A r \in Runs : ~Holding(r)) /\ slips = 0 => rows = {}
=============================================================================
