--------------------------- MODULE ToolActivation ---------------------------
(***************************************************************************)
(* The business tools of one session.  A tool must be loaded with get_tool *)
(* before execute_tool may run it: the run keeps the tools it has loaded   *)
(* and their definitions in its row, and the next run of the session takes *)
(* them over as far as their definitions have not changed.  Meanwhile the  *)
(* register of MCP servers rewrites, hides and deletes the tools.          *)
(***************************************************************************)
EXTENDS McpRegistry

CONSTANTS Me,        \* the caller of the session
          MaxRuns    \* bound: runs of the session

ASSUME ActivationAssumption == Me \in Callers /\ MaxRuns \in Nat

NoTools == [i \in ToolIds |-> NoVersion]
NoCall == [id |-> Primary, def |-> NoVersion, phase |-> "none"]
CallPhases == {"none", "found", "confirm", "sent"}

VARIABLES run,       \* how many runs the session has had
          running,   \* the last of them goes on
          active,    \* activeTools of the run: the definition of each tool
          prev,      \* prevToolDefFingerprint: those of the run before
          saved,     \* active_tool_defs_json of the last run
          call,      \* the call of execute_tool under way
          given,     \* what get_tool has returned in the batch under way
          seen,      \* the definition of a tool the model was last handed (history)
          lost       \* the tools whose last answer of get_tool never reached
                     \* the model (history)

sessionVars == <<run, running, active, prev, saved, call, given, seen, lost>>
vars == <<regVars, sessionVars>>

ActivationInit ==
  /\ run = 0 /\ running = FALSE /\ active = NoTools /\ prev = NoTools /\ saved = NoTools
  /\ call = NoCall /\ given = NoTools /\ seen = NoTools /\ lost = {}

Visible(i) == tool[i].live /\ tool[i].on /\ tool[i].caller = Me
Ready == running /\ call = NoCall

\* The tools of the run are saved, or that fails and the step is an error.
Saves(ok) == saved' = IF ok THEN active' ELSE saved

\* A run begins with the tools the one before has saved and that are still
\* what they were; when the tool table cannot be read, with none.
StartRun(readable, ok) ==
  LET same == {i \in ToolIds : Visible(i) /\ saved[i] # NoVersion /\ saved[i] = tool[i].def}
      kept == IF readable THEN same ELSE {} IN
  /\ ~running /\ run < MaxRuns
  /\ run' = run + 1 /\ running' = TRUE /\ prev' = saved
  /\ active' = [i \in ToolIds |-> IF i \in kept THEN tool[i].def ELSE NoVersion]
  /\ saved' = IF kept # {} /\ ok THEN active' ELSE NoTools
  /\ UNCHANGED <<call, given, seen, lost>>

\* get_tool loads a visible tool and returns its definition.  A list that
\* cannot be saved makes it an error, but the tool stays loaded.
GetTool(i, ok) ==
  /\ Ready /\ Visible(i)
  /\ active' = [active EXCEPT ![i] = tool[i].def]
  /\ Saves(ok)
  /\ given' = IF ok THEN [given EXCEPT ![i] = tool[i].def] ELSE given
  /\ lost' = IF ok THEN lost \ {i} ELSE lost \cup {i}
  /\ UNCHANGED <<run, running, prev, call, seen>>

\* The definition of the last get_tool that has returned.
Given(i) == IF given[i] # NoVersion THEN given[i] ELSE seen[i]

\* All calls of the batch have ended: their results are stored, and the model
\* is handed them with its next request.
HandOver ==
  /\ Ready /\ given # NoTools
  /\ seen' = [i \in ToolIds |-> Given(i)] /\ given' = NoTools
  /\ UNCHANGED <<run, running, active, prev, saved, call, lost>>

\* execute_tool finds a tool that is loaded.
Execute(i) ==
  /\ Ready /\ active[i] # NoVersion
  /\ call' = [id |-> i, def |-> active[i], phase |-> "found"]
  /\ UNCHANGED <<run, running, active, prev, saved, given, seen, lost>>

\* One that is not loaded is, when the run before had the same definition.
Reload(i, ok) ==
  /\ Ready /\ active[i] = NoVersion
  /\ Visible(i) /\ prev[i] # NoVersion /\ prev[i] = tool[i].def
  /\ active' = [active EXCEPT ![i] = tool[i].def]
  /\ Saves(ok)
  /\ call' = IF ok THEN [id |-> i, def |-> tool[i].def, phase |-> "found"] ELSE NoCall
  /\ UNCHANGED <<run, running, prev, given, seen, lost>>

\* The tool is read again before it runs: it must be visible and have the
\* definition it was loaded with.  Some tools then wait for the user.

\* Mutant of StillValid: the definition is not compared.
StillVisible(i, def) == Visible(i)

StillValid(i, def) == Visible(i) /\ tool[i].def = def

\* By the permission modes of the tool and of the agent, and by its input.
Gates == {"confirm", "sent"}

Revalidate(phase) ==
  /\ call.phase = "found"
  /\ call' = IF StillValid(call.id, call.def)
             THEN [call EXCEPT !.def = tool[call.id].def, !.phase = phase] ELSE NoCall
  /\ UNCHANGED <<run, running, active, prev, saved, given, seen, lost>>

Approve ==
  /\ call.phase = "confirm" /\ call' = [call EXCEPT !.phase = "sent"]
  /\ UNCHANGED <<run, running, active, prev, saved, given, seen, lost>>

\* The call is refused by the user, answered, or fails.
Return ==
  /\ call.phase # "none" /\ call' = NoCall
  /\ UNCHANGED <<run, running, active, prev, saved, given, seen, lost>>

\* The run ends, whatever it waits for; so it does when the process ends.  The
\* results of a batch that is cut are dropped, what it has saved is not.
EndRun ==
  /\ running
  /\ running' = FALSE /\ active' = NoTools /\ prev' = NoTools /\ call' = NoCall
  /\ given' = NoTools /\ lost' = lost \cup {i \in ToolIds : Given(i) # seen[i]}
  /\ UNCHANGED <<run, saved, seen>>

SessionNext ==
  \/ \E readable, ok \in BOOLEAN : StartRun(readable, ok)
  \/ \E i \in ToolIds : (\E ok \in BOOLEAN : GetTool(i, ok) \/ Reload(i, ok)) \/ Execute(i)
  \/ \E phase \in Gates : Revalidate(phase)
  \/ HandOver \/ Approve \/ Return \/ EndRun

Init == RegistryInit /\ ActivationInit
Next ==
  \/ Serves /\ UNCHANGED sessionVars
  \/ Restart /\ (EndRun \/ (~running /\ UNCHANGED sessionVars))
  \/ SessionNext /\ UNCHANGED regVars
Spec == Init /\ [][Next]_vars
-----------------------------------------------------------------------------
(* Properties.                                                             *)

Definitions == Versions \cup {NoVersion, Edited}
Rows == [id : 0 .. MaxRequests, owner : Callers \cup {Nobody}, ver : Versions \cup {NoVersion}, on : BOOLEAN, live : BOOLEAN]

\* Every variable has its type.
TypeOK ==
  /\ row \in Rows /\ bound \subseteq Callers /\ off \subseteq Callers /\ check \in Checks
  /\ client \in Versions \cup {NoVersion}
  /\ tool \in [ToolIds -> [caller : Callers \cup {Nobody}, def : Definitions, on : BOOLEAN, live : BOOLEAN]]
  /\ h \in [Workers -> Handlers] /\ last \in Results /\ requests \in 0 .. MaxRequests
  /\ run \in 0 .. MaxRuns /\ running \in BOOLEAN /\ lost \subseteq ToolIds
  /\ {active, prev, saved, given, seen} \subseteq [ToolIds -> Definitions]
  /\ call \in [id : ToolIds, def : Definitions, phase : CallPhases]

\* A tool that execute_tool runs, or asks the user about, has the definition
\* that the model was last handed, in this run or one before, or that get_tool
\* has returned in the same batch and the model has yet to see, across restarts
\* and whatever the register did to the tool.  A tool is left out from an
\* answer of get_tool that never reached the model, since its list could not be
\* saved or its batch was cut, to the next one: it may run unseen.
RunsWhatWasLoaded ==
  call.phase \in {"confirm", "sent"} /\ call.id \notin lost => call.def = Given(call.id)
=============================================================================
