------------------------------ MODULE Bundles ------------------------------
(***************************************************************************)
(* Agent bundles.  Installing a bundle writes its agents, skills and MCP   *)
(* servers over what is registered, one by one, and records for each what  *)
(* was there before; uninstalling restores from these records in reverse   *)
(* order.  An install that fails cleans up after itself, and one of a      *)
(* bundle that is installed uninstalls it first.  Nothing of this is one   *)
(* transaction: any statement may fail, the process may stop between two   *)
(* of them, and administrators write the same rows.                        *)
(*                                                                         *)
(* There is one bundle.  A resource is the row that a name finds: its id,  *)
(* its definition and whether it is there or soft-deleted.                 *)
(***************************************************************************)
EXTENDS Naturals, Sequences

CONSTANTS Agents, Skills, Servers,   \* the resources, by kind
          Defs,         \* definitions of a resource
          Nothing,      \* none of them
          Content,      \* what the bundle installs, in order
          Workers,      \* the goroutines that serve requests
          MaxRequests   \* bound: requests

Resources == Agents \cup Skills \cup Servers

ASSUME BundlesAssumption ==
  /\ Agents \cap Skills = {} /\ Agents \cap Servers = {} /\ Skills \cap Servers = {}
  /\ Content \in Seq(Resources) /\ Content # <<>>
  /\ Nothing \notin Defs /\ MaxRequests \in Nat

NoRow == [id |-> 0, def |-> Nothing, live |-> FALSE]

VARIABLES row,       \* the row of each resource
          client,    \* what the client of each server runs
          bundle,    \* the row of the bundle: "none", "live" or "dead"
          list,      \* the resource rows of the bundle, oldest first
          h,         \* the handler of each worker
          before,    \* what the last install found, or Unknown when the list
                     \* does not say what that install did or somebody else
                     \* has written since (history)
          requests   \* how many requests have come

vars == <<row, client, bundle, list, h, before, requests>>

\* "todo" is the part of the list still to restore, "new" the record to add,
\* and "op" says what follows a rollback.
Idle == [pc |-> "idle", op |-> "none", def |-> Nothing, k |-> 1, todo |-> <<>>,
         new |-> [res |-> Content[1], id |-> 0, prev |-> NoRow]]

Unknown == <<>>
Look == [r \in Resources |-> IF row[r].live THEN row[r].def ELSE Nothing]

Init ==
  /\ row = [r \in Resources |-> NoRow] /\ client = [r \in Servers |-> Nothing]
  /\ bundle = "none" /\ list = <<>> /\ h = [w \in Workers |-> Idle]
  /\ before = Unknown /\ requests = 0
-----------------------------------------------------------------------------
(* Statements.                                                             *)

\* A request comes; two at once make the list unreliable.
Begins(w, handler) ==
  /\ h[w] = Idle /\ requests < MaxRequests
  /\ requests' = requests + 1 /\ h' = [h EXCEPT ![w] = handler]
  /\ before' = IF \A v \in Workers : h[v] = Idle THEN before ELSE Unknown

Alone(w) == \A v \in Workers \ {w} : h[v] = Idle
Goes(w, pc) == h' = [h EXCEPT ![w].pc = pc]
Ends(w) == h' = [h EXCEPT ![w] = Idle]

\* The rollback reads the list once.
RollsBack(handler, op) == [handler EXCEPT !.pc = "rollback", !.op = op, !.todo = list]

\* The list now belongs to this install, and what it finds is written down.
\* Another request may have closed the bundle meanwhile.
Opens(w) ==
  /\ list' = <<>> /\ Goes(w, "apply")
  /\ before' = IF Alone(w) /\ bundle' = "live" THEN Look ELSE Unknown

\* Agents: a live row is written over, a dead one revived; both keep their id.
AgentRow(old, def) == [id |-> IF old.id = 0 THEN 1 ELSE old.id, def |-> def, live |-> TRUE]

\* Skills: a live row is written over; names are not unique, so that beside a
\* dead row a new one is created.
SkillRow(old, def) == [id |-> IF old.live THEN old.id ELSE old.id + 1, def |-> def, live |-> TRUE]

\* Servers: a live row is written over, a dead one revived under a new id.
ServerRow(old, def) == [id |-> IF old.live THEN old.id ELSE old.id + 1, def |-> def, live |-> TRUE]

Applied(r, def) ==
  CASE r \in Agents  -> AgentRow(row[r], def)
    [] r \in Skills  -> SkillRow(row[r], def)
    [] r \in Servers -> ServerRow(row[r], def)

\* What to restore: the row as it was, or nothing when it is new.
RecordOf(r, def) ==
  [res |-> r, id |-> Applied(r, def).id,
   prev |-> IF row[r].live \/ r \notin Skills THEN row[r] ELSE NoRow]

\* The row is found by its id: a new one is deleted, any other gets back what
\* it had.
Restored(rec) ==
  IF row[rec.res].id # rec.id THEN row[rec.res]
  ELSE [row[rec.res] EXCEPT !.def = IF rec.prev = NoRow THEN @ ELSE rec.prev.def,
                            !.live = rec.prev.live]
-----------------------------------------------------------------------------
(* Install.                                                                *)

\* The files of a version, in the order in which they are applied: agents,
\* skills, servers.
Files(def) == [k \in 1..Len(Content) |-> [res |-> Content[k], def |-> def]]

Install(w) ==
  /\ Begins(w, [Idle EXCEPT !.pc = "fetch"])
  /\ UNCHANGED <<row, client, bundle, list>>

\* The mirror is refreshed and the version checked out.  A bundle that is
\* installed is uninstalled first.
Fetch(w, def) ==
  /\ h[w].pc = "fetch"
  /\ LET handler == [h[w] EXCEPT !.pc = "open", !.def = def] IN
     h' = [h EXCEPT ![w] = IF bundle = "live" THEN RollsBack(handler, "again") ELSE handler]
  /\ UNCHANGED <<row, client, bundle, list, before, requests>>

\* The row of the bundle is created, or revived with its old list; a live row
\* of another request is an error.
Open(w) ==
  /\ h[w].pc = "open" /\ UNCHANGED <<row, client, requests>>
  /\ CASE bundle = "none" -> bundle' = "live" /\ Opens(w)
       [] bundle = "dead" -> /\ bundle' = "live" /\ before' = Unknown /\ Goes(w, "wipe")
                             /\ UNCHANGED list
       [] OTHER -> Ends(w) /\ UNCHANGED <<bundle, list, before>>

Wipe(w) ==
  /\ h[w].pc = "wipe"
  /\ UNCHANGED <<row, client, bundle, requests>> /\ Opens(w)

\* The next resource is written; a server is connected, which may fail.
Apply(w) ==
  /\ h[w].pc = "apply" /\ h[w].k <= Len(Content)
  /\ LET file == Files(h[w].def)[h[w].k]  r == file.res IN
     /\ row' = [row EXCEPT ![r] = Applied(r, file.def)]
     /\ \/ r \in Servers /\ client' = [client EXCEPT ![r] = file.def]
        \/ UNCHANGED client
     /\ h' = [h EXCEPT ![w].pc = "record", ![w].new = RecordOf(r, file.def)]
  /\ UNCHANGED <<bundle, list, before, requests>>

\* It is recorded.
Record(w) ==
  /\ h[w].pc = "record"
  /\ list' = Append(list, h[w].new)
  /\ h' = [h EXCEPT ![w].pc = "apply", ![w].k = @ + 1, ![w].new = Idle.new]
  /\ UNCHANGED <<row, client, bundle, before, requests>>

\* The next resource cannot be written, or what was written cannot be read
\* back or recorded: the list does not know of it.  What is on the list is
\* rolled back.
ApplyFails(w) ==
  /\ \/ h[w].pc = "apply" /\ h[w].k <= Len(Content) /\ UNCHANGED before
     \/ h[w].pc = "record" /\ before' = Unknown
  /\ h' = [h EXCEPT ![w] = RollsBack([h[w] EXCEPT !.new = Idle.new], "clean")]
  /\ UNCHANGED <<row, client, bundle, list, requests>>

Installed(w) ==
  /\ h[w].pc = "apply" /\ h[w].k > Len(Content)
  /\ Ends(w) /\ UNCHANGED <<row, client, bundle, list, before, requests>>
-----------------------------------------------------------------------------
(* Uninstall.                                                              *)

Uninstall(w) ==
  /\ bundle = "live" /\ Begins(w, RollsBack(Idle, "uninstall"))
  /\ UNCHANGED <<row, client, bundle, list>>

\* Mutant of NextOf: the records are taken oldest first.
FirstOf(todo) == [rec |-> Head(todo), rest |-> Tail(todo)]

\* The last record comes first.
NextOf(todo) == [rec |-> todo[Len(todo)], rest |-> SubSeq(todo, 1, Len(todo) - 1)]

\* A record of an agent or a skill is rolled back.
RollbackRow(w) ==
  LET next == NextOf(h[w].todo) IN
  /\ h[w].pc = "rollback" /\ h[w].todo # <<>> /\ next.rec.res \notin Servers
  /\ row' = [row EXCEPT ![next.rec.res] = Restored(next.rec)]
  /\ h' = [h EXCEPT ![w].todo = next.rest]
  /\ UNCHANGED <<client, bundle, list, before, requests>>

\* The client of a new server stops before its row goes; that of a server that
\* was there is connected again after the row was restored, and stops when the
\* row is a deleted one again.  The request may fail in between.
RollbackServer(w) ==
  LET next == NextOf(h[w].todo)  r == next.rec.res IN
  /\ h[w].pc = "rollback" /\ h[w].todo # <<>> /\ r \in Servers
  /\ \/ /\ row' = [row EXCEPT ![r] = Restored(next.rec)]
        /\ client' = [client EXCEPT ![r] = IF next.rec.prev.live THEN next.rec.prev.def ELSE Nothing]
        /\ h' = [h EXCEPT ![w].todo = next.rest]
     \/ /\ next.rec.prev # NoRow
        /\ row' = [row EXCEPT ![r] = Restored(next.rec)]
        /\ Ends(w) /\ UNCHANGED client
     \/ /\ next.rec.prev = NoRow
        /\ client' = [client EXCEPT ![r] = Nothing]
        /\ Ends(w) /\ UNCHANGED row
  /\ UNCHANGED <<bundle, list, before, requests>>

\* The row of the bundle is deleted; its list stays.
Close(w) ==
  /\ h[w].pc = "rollback" /\ h[w].todo = <<>>
  /\ bundle' = "dead"
  /\ IF h[w].op = "again" THEN Goes(w, "open") ELSE Ends(w)
  /\ UNCHANGED <<row, client, list, before, requests>>

\* A statement fails, and with it the request.
Fails(w) ==
  /\ h[w].pc \in {"fetch", "open", "wipe", "rollback"} /\ Ends(w)
  /\ UNCHANGED <<row, client, bundle, list, before, requests>>
-----------------------------------------------------------------------------
(* Administrators, and the process.                                        *)

\* By hand.
Writes(r, def) ==
  /\ requests < MaxRequests /\ requests' = requests + 1
  /\ def = Nothing => row[r].live
  /\ row' = [row EXCEPT ![r] = IF def = Nothing THEN [@ EXCEPT !.live = FALSE]
                               ELSE Applied(r, def)]
  /\ before' = Unknown
  /\ UNCHANGED <<bundle, list, h>>

\* An agent is created, which revives a dead one of its key, changed or deleted.
EditAgent(r, def) == r \in Agents /\ Writes(r, def) /\ UNCHANGED client

\* A skill is created, changed or deleted.
EditSkill(r, def) == r \in Skills /\ Writes(r, def) /\ UNCHANGED client

\* A server, and its client with it.
EditServer(r, def) ==
  /\ r \in Servers /\ Writes(r, def)
  /\ client' = [client EXCEPT ![r] = def]

\* The process stops and comes back: a resource that was not yet recorded stays
\* written, and of the servers some connect.
Crash ==
  /\ requests < MaxRequests /\ requests' = requests + 1
  /\ h' = [w \in Workers |-> Idle]
  /\ before' = IF \A w \in Workers : h[w].pc # "record" THEN before ELSE Unknown
  /\ \E up \in SUBSET {r \in Servers : row[r].live} :
       client' = [r \in Servers |-> IF r \in up THEN row[r].def ELSE Nothing]
  /\ UNCHANGED <<row, bundle, list>>

Handle(w) ==
  \/ Install(w) \/ (\E def \in Defs : Fetch(w, def)) \/ Uninstall(w)
  \/ Open(w) \/ Wipe(w) \/ Apply(w) \/ Record(w) \/ ApplyFails(w) \/ Installed(w)
  \/ RollbackRow(w) \/ RollbackServer(w) \/ Close(w) \/ Fails(w)

Next ==
  \/ \E w \in Workers : Handle(w)
  \/ \E r \in Resources, def \in Defs \cup {Nothing} :
       EditAgent(r, def) \/ EditSkill(r, def) \/ EditServer(r, def)
  \/ Crash

Spec == Init /\ [][Next]_vars
-----------------------------------------------------------------------------
(* Properties.                                                             *)

\* A bundle that is gone (uninstalled, replaced, or cleaned up after an install
\* that failed), and whose list said all that was done, has left every agent,
\* skill and server as it found it, however often the rollback was begun, cut
\* by a crash and begun again; of the servers on the list no client runs unless
\* the server is there.  (Not of every server: a request that failed between the
\* row of a server and its client has left a client, and the next install may
\* fail before it comes to this server.)
UninstallRestores ==
  bundle = "dead" /\ before # Unknown =>
    /\ Look = before
    /\ \A k \in DOMAIN list : LET r == list[k].res IN
         r \in Servers /\ ~row[r].live => client[r] = Nothing
=============================================================================
