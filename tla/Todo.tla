-------------------------------- MODULE Todo --------------------------------
(***************************************************************************)
(* The todo list of a session (service/react/todo.go).  It is in four      *)
(* places: in the memory of the run, from which the model is reminded of   *)
(* it; in the row of the run, from which the next run begins; in the       *)
(* events the browser gets; and in the results of todo_write among the     *)
(* messages of the session, from which the history shows it.  A call       *)
(* writes them one after the other, the results when their batch is over,  *)
(* and a statement or the process may fail in between.                     *)
(*                                                                         *)
(* Runs of a session follow each other; sub-agents have no list.  A text   *)
(* that is not there and an empty one are the same to the code.  A list is *)
(* shorter than 64 KiB, where its column ends and results are cut.         *)
(***************************************************************************)
EXTENDS Naturals, Sequences, FiniteSets, SequencesExt

CONSTANTS TodoIds, Contents, Statuses,
          Absent,      \* a field that the call does not give
          MaxPatch,    \* bound: items of a call
          MaxTodoCalls, MaxTodoRuns  \* bounds: calls, runs

ASSUME TodoAssumption ==
  /\ Absent \notin Contents \cup Statuses /\ "pending" \in Statuses /\ MaxPatch \in Nat
  /\ Statuses \subseteq {"pending", "in_progress", "completed", "cancelled"}

VARIABLES
  todos,      \* todoStateJSON, in memory
  saved,      \* todo_state_json of the last run
  told,       \* results of the batch that are not stored yet
  recorded,   \* the last result among the messages
  browser,    \* the list the browser shows
  running, runs, calls,
  unsaved,    \* the last call could not save (history)
  unstored    \* a run ended with results that were not stored (history)

todoVars == <<todos, saved, told, recorded, browser, running, runs, calls, unsaved, unstored>>

Items == [id : TodoIds, content : Contents, status : Statuses]
Updates == [id : TodoIds, content : Contents \cup {Absent}, status : Statuses \cup {Absent}]
Patches == BoundedSeq(Updates, MaxPatch) \ {<<>>}

TodoInit ==
  /\ todos = <<>> /\ saved = <<>> /\ told = <<>> /\ recorded = <<>> /\ browser = <<>>
  /\ running = FALSE /\ runs = 0 /\ calls = 0 /\ unsaved = FALSE /\ unstored = FALSE
-----------------------------------------------------------------------------
(* What a call does to the list.                                           *)

\* normalizeReactTodoItems: an item without an id or a text is not read, the
\* others are read in their order.
Readable(list) ==
  LET whole == {i \in DOMAIN list : list[i].id # Absent /\ list[i].content # Absent}
      Nth(n) == CHOOSE i \in whole : Cardinality({j \in whole : j < i}) = n - 1
  IN  [n \in 1..Cardinality(whole) |-> list[Nth(n)]]

Knows(list, id) == \E i \in DOMAIN list : list[i].id = id
Given(new, old) == IF new = Absent THEN old ELSE new

Begun(u) == [id |-> u.id, content |-> u.content, status |-> Given(u.status, "pending")]
Changed(item, u) ==
  [id |-> item.id, content |-> Given(u.content, item.content), status |-> Given(u.status, item.status)]

MergeItem(list, u) ==
  IF Knows(list, u.id)
  THEN [i \in DOMAIN list |-> IF list[i].id = u.id THEN Changed(list[i], u) ELSE list[i]]
  ELSE Append(list, Begun(u))

\* mergeReactTodoItems: an item that the call itself has added is known.
Merged(list, patch) ==
  LET after[n \in 0..Len(patch)] ==
        IF n = 0 THEN list ELSE MergeItem(after[n - 1], patch[n])
  IN  after[Len(patch)]

Replaced(patch) == [i \in DOMAIN patch |-> Begun(patch[i])]

\* A new item needs its content, a list that replaces names nothing twice.
Accepts(list, patch, merge) ==
  \A i \in DOMAIN patch :
    LET known == \E j \in 1..(i - 1) : patch[j].id = patch[i].id IN
    IF merge THEN patch[i].content # Absent \/ known \/ Knows(list, patch[i].id)
             ELSE patch[i].content # Absent /\ ~known

Applied(list, patch, merge) == IF merge THEN Merged(list, patch) ELSE Replaced(patch)
-----------------------------------------------------------------------------
(* Runs and calls.                                                         *)

\* Mutant of RowOfRun: the row of a run is created without the list.
RowOfRunWithout == <<>>
\* prepare: the list of the run before it is also what the new row begins with.
RowOfRun == saved

StartTodoRun ==
  /\ ~running /\ runs < MaxTodoRuns /\ runs' = runs + 1
  /\ running' = TRUE /\ todos' = saved /\ saved' = RowOfRun /\ unsaved' = FALSE
  /\ UNCHANGED <<told, recorded, browser, calls, unstored>>

\* A call that is refused changes nothing.
TodoCalls(patch, merge) ==
  /\ running /\ calls < MaxTodoCalls /\ calls' = calls + 1
  /\ Accepts(Readable(todos), patch, merge) /\ todos' = Applied(Readable(todos), patch, merge)

WriteTodos(patch, merge) ==
  /\ TodoCalls(patch, merge)
  /\ saved' = todos' /\ browser' = todos' /\ told' = todos' /\ unsaved' = FALSE
  /\ UNCHANGED <<recorded, running, runs, unstored>>

\* The memory keeps what the row did not take, and the model is told an error.
SaveTodosFails(patch, merge) ==
  /\ TodoCalls(patch, merge) /\ unsaved' = TRUE
  /\ UNCHANGED <<saved, browser, told, recorded, running, runs, unstored>>

StoreResults ==
  /\ running /\ told # <<>>
  /\ recorded' = told /\ told' = <<>> /\ unstored' = FALSE
  /\ UNCHANGED <<todos, saved, browser, running, runs, calls, unsaved>>

\* The run ends, also with its process; results wait in its memory only.
EndTodoRun ==
  /\ running /\ running' = FALSE /\ told' = <<>>
  /\ unstored' = (unstored \/ told # <<>>)
  /\ UNCHANGED <<todos, saved, recorded, browser, runs, calls, unsaved>>

\* The browser reloads the session; a running run's results come as events.
ReloadTodos ==
  /\ ~running /\ browser # recorded /\ browser' = recorded
  /\ UNCHANGED <<todos, saved, told, recorded, running, runs, calls, unsaved, unstored>>

TodoNext ==
  \/ StartTodoRun \/ StoreResults \/ EndTodoRun \/ ReloadTodos
  \/ \E patch \in Patches, merge \in BOOLEAN : WriteTodos(patch, merge) \/ SaveTodosFails(patch, merge)

TodoSpec == TodoInit /\ [][TodoNext]_todoVars
-----------------------------------------------------------------------------
(* Properties.                                                             *)

\* The list is the same wherever it is looked at, unless the last save failed
\* or a run ended before its results were stored: the model is reminded of what
\* is saved, and so are the next run, the browser and the history.
TodosAgree ==
  ~unsaved /\ ~unstored =>
    /\ running => todos = saved
    /\ browser = saved
    /\ recorded = saved \/ told = saved
=============================================================================
