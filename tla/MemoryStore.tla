------------------------------ MODULE MemoryStore ------------------------------
(***************************************************************************)
(* Long-term memory (service/memory/memory.go, models/llm/memory.go): rows *)
(* of facts in spaces of callers and of their users, and the log of every  *)
(* revision. Three kinds of writers share one core: runs of the model,     *)
(* background runs that tidy up (reflection), and administrators.          *)
(*                                                                         *)
(* A write is one transaction, but its checks read a snapshot and its      *)
(* UPDATE finds the row as it is then: a step that plans, and one that     *)
(* commits. A row is named by the unique key that its creation gave it:    *)
(* the space, and the fingerprint of the content. Titles, descriptions and *)
(* reasons are left out; two calls differ in their reasons, so that an     *)
(* UPDATE always changes its row.                                          *)
(***************************************************************************)
EXTENDS Integers, Sequences, FiniteSets, FiniteSetsExt

CONSTANTS
  Spaces,          \* memory spaces (owner_type, owner_key)
  Facts,           \* contents
  Writers,
  Kind,            \* Kind[w]: "model", "reflection" or "admin"
  Scope,           \* Scope[w]: spaces that a run may touch (resolveMemoryScope)
  Target,          \* Target[w]: spaces in which it creates
  NoChange,
  ResidentMax, DetachedMax,  \* caps of a space
  MaxWrites,       \* writes of a reflection run
  LayerArgs, TagArgs,  \* layers and tags of requests, "" to leave them out
  MaxRevisions     \* bound: revisions of all rows

ASSUME MemoryStoreAssumption ==
  /\ Kind \in [Writers -> {"model", "reflection", "admin"}]
  /\ Scope \in [Writers -> SUBSET Spaces] /\ Target \in [Writers -> SUBSET Spaces]
  /\ LayerArgs \subseteq {"resident", "detached", ""}
  /\ TagArgs \subseteq {"locked", "plain", ""}
  /\ {ResidentMax, DetachedMax, MaxWrites, MaxRevisions} \subseteq Nat

Items == Spaces \X Facts
Layers == {"resident", "detached"}

VARIABLES
  row,      \* row[i]: the row
  log,      \* log[i]: its revisions
  change,   \* change[w]: the write that a transaction has planned
  writes,   \* writes[w]: writes of this attempt (memoryWrites)
  attempt   \* attempt[w] of a reflection run

vars == <<row, log, change, writes, attempt>>

NoRow == [layer |-> "none", content |-> "none", locked |-> FALSE, state |-> "none",
          version |-> 0]

Init ==
  /\ row = [i \in Items |-> NoRow] /\ log = [i \in Items |-> <<>>]
  /\ change = [w \in Writers |-> NoChange]
  /\ writes = [w \in Writers |-> 0] /\ attempt = [w \in Writers |-> 1]

Revisions == MapThenSumSet(LAMBDA i : Len(log[i]), Items)

Resident(s) == {i \in Items : i[1] = s /\ row[i].state = "active" /\ row[i].layer = "resident"}
Active(s) == {i \in Items : i[1] = s /\ row[i].state = "active"}
(* checkLayerCap for one row more.                                         *)
HasRoom(s, layer) ==
  IF layer = "resident" THEN Cardinality(Resident(s)) < ResidentMax
  ELSE Cardinality(Active(s)) < DetachedMax

(* A request may leave out the layer and the tags.                         *)
Or(given, default) == IF given = "" THEN default ELSE given
Locks(tags, default) == IF tags = "" THEN default ELSE tags = "locked"

-----------------------------------------------------------------------------
(* The first half of a transaction: read, check, plan                      *)

Plan(w, action, i, after, quoted) ==
  /\ change[w] = NoChange /\ Revisions < MaxRevisions
  /\ Kind[w] = "reflection" => writes[w] < MaxWrites
  /\ change' = [change EXCEPT ![w] = [action |-> action, item |-> i, before |-> row[i],
                                      after |-> after, quoted |-> quoted]]
  /\ UNCHANGED <<row, log, writes, attempt>>

(* A reflection leaves locked rows alone (RespectLocked).                  *)
MayTouch(w, r) == Kind[w] = "reflection" => ~r.locked

(* loadItemForMutation: an active row, for a run one of its spaces.        *)
Loads(w, i) ==
  /\ row[i].state = "active" /\ MayTouch(w, row[i])
  /\ Kind[w] # "admin" => i[1] \in Scope[w]

(* mutateCreate without a row of the same key, deleted ones included.      *)
PlanInsert(w, i, layer, tags) ==
  /\ row[i] = NoRow /\ i[1] \in Target[w]
  /\ HasRoom(i[1], Or(layer, "detached"))
  /\ Plan(w, "create", i,
          [layer |-> Or(layer, "detached"), content |-> i[2], locked |-> Locks(tags, FALSE),
           state |-> "active", version |-> 1], 0)

(* applyUpdate, for an update and for a create that finds its row. Only a  *)
(* row that enters the resident layer is counted.                          *)
Updated(r, layer, content, tags) ==
  [layer |-> Or(layer, r.layer), content |-> content, locked |-> Locks(tags, r.locked),
   state |-> "active", version |-> r.version + 1]
Fits(i, layer) ==
  Or(layer, row[i].layer) = "resident" /\ row[i].layer # "resident" => HasRoom(i[1], "resident")

(* mutateCreate of a fact that has a row: it becomes an update, whatever   *)
(* version the row has; a deleted row comes back to life.                  *)
PlanConverge(w, i, layer, tags) ==
  /\ row[i] # NoRow /\ i[1] \in Target[w] /\ MayTouch(w, row[i]) /\ Fits(i, layer)
  /\ Plan(w, "update", i, Updated(row[i], layer, i[2], tags), 0)

(* The version that a caller quotes was shown to it; 0 overwrites.         *)
VersionAfter(rev) == IF rev.action = "create" THEN 1 ELSE rev.before.version + 1
Quotable(i) == {0} \cup {VersionAfter(log[i][n]) : n \in DOMAIN log[i]}

PlanUpdate(w, i, layer, content, tags, quoted) ==
  /\ Loads(w, i) /\ Fits(i, layer)
  /\ Plan(w, "update", i, Updated(row[i], layer, content, tags), quoted)

PlanDelete(w, i, quoted) == Loads(w, i) /\ Plan(w, "delete", i, NoRow, quoted)

(* RollbackRevision: an administrator takes any row, deleted or not, to    *)
(* what it was before a revision.                                          *)
PlanRollback(w, i, n) ==
  /\ Kind[w] = "admin" /\ log[i][n].before # NoRow
  /\ Plan(w, "rollback", i, [log[i][n].before EXCEPT !.version = row[i].version + 1], 0)

-----------------------------------------------------------------------------
(* The second half: the row, its revision, commit                          *)

(* Mutant of Written: a deletion writes the row as it was read.            *)
WrittenAsRead(c, r) ==
  IF c.action = "delete" THEN [r EXCEPT !.state = "deleted"] ELSE c.after
(* A deletion sets the state and the version, any other write all columns. *)
Written(c, r) ==
  IF c.action = "delete" THEN [r EXCEPT !.state = "deleted", !.version = c.before.version + 1]
  ELSE c.after

(* Mutant of Applies: a delete does not compare the version.               *)
AppliesUnlessUpdate(c, r) ==
  IF c.action = "create" THEN r = NoRow
  ELSE c.action = "update" /\ c.quoted > 0 => r.version = c.quoted
(* The unique key of a new row; the version, if one is quoted.             *)
Applies(c, r) ==
  IF c.action = "create" THEN r = NoRow ELSE c.quoted > 0 => r.version = c.quoted

Commit(w) ==
  LET c == change[w] IN
  /\ c # NoChange /\ Applies(c, row[c.item])
  /\ row' = [row EXCEPT ![c.item] = Written(c, @)]
  /\ log' = [log EXCEPT ![c.item] =
               Append(@, [action |-> c.action, before |-> c.before, after |-> c.after,
                          quoted |-> c.quoted, by |-> w])]
  /\ change' = [change EXCEPT ![w] = NoChange]
  /\ writes' = [writes EXCEPT ![w] = IF Kind[w] = "reflection" THEN @ + 1 ELSE @]
  /\ UNCHANGED attempt

(* A version that has changed, a duplicate key, any error of the database: *)
(* the transaction changes nothing.                                        *)
Abort(w) ==
  /\ change[w] # NoChange
  /\ change' = [change EXCEPT ![w] = NoChange]
  /\ UNCHANGED <<row, log, writes, attempt>>

(* runMemoryReflection starts a failed run again, once.                    *)
TryAgain(w) ==
  /\ Kind[w] = "reflection" /\ attempt[w] = 1 /\ change[w] = NoChange
  /\ attempt' = [attempt EXCEPT ![w] = 2] /\ writes' = [writes EXCEPT ![w] = 0]
  /\ UNCHANGED <<row, log, change>>

-----------------------------------------------------------------------------
Next ==
  \E w \in Writers :
    \/ \E i \in Items :
         \/ \E layer \in LayerArgs, tags \in TagArgs :
              \/ PlanInsert(w, i, layer, tags) \/ PlanConverge(w, i, layer, tags)
              \/ \E content \in Facts, quoted \in Quotable(i) :
                   PlanUpdate(w, i, layer, content, tags, quoted)
         \/ \E quoted \in Quotable(i) : PlanDelete(w, i, quoted)
         \/ \E n \in DOMAIN log[i] : PlanRollback(w, i, n)
    \/ Commit(w) \/ Abort(w) \/ TryAgain(w)

Spec == Init /\ [][Next]_vars

-----------------------------------------------------------------------------
(* Properties                                                              *)

RowType == [layer : Layers, content : Facts, locked : BOOLEAN,
            state : {"active", "deleted"}, version : Nat \ {0}]
Rows == RowType \cup {NoRow}
Actions == {"create", "update", "delete", "rollback"}

(* The types of the variables.                                             *)
TypeOK ==
  /\ row \in [Items -> Rows]
  /\ log \in [Items -> Seq([action : Actions, before : Rows, after : Rows, quoted : Nat,
                            by : Writers])]
  /\ change \in [Writers -> [action : Actions, item : Items, before : Rows, after : Rows,
                             quoted : Nat] \cup {NoChange}]
  /\ writes \in [Writers -> Nat] /\ attempt \in [Writers -> {1, 2}]

Last(s) == s[Len(s)]

(* The log tells what every row is (memory.go:1-2, one way to write and no *)
(* other): the last revision ends with the row, however transactions       *)
(* overlap, or it is the deletion that the row shows.                      *)
Tells(rev, r) ==
  IF rev.action = "delete"
  THEN rev.after = NoRow /\ r.state = "deleted" /\ r.version = rev.before.version + 1
  ELSE rev.after = r
LogTellsItem ==
  \A i \in Items :
    IF log[i] = <<>> THEN row[i] = NoRow ELSE Tells(Last(log[i]), row[i])

(* What a revision leaves, as it saw the row.                              *)
Leaves(rev) ==
  IF rev.action = "delete"
  THEN [rev.before EXCEPT !.state = "deleted", !.version = rev.before.version + 1]
  ELSE rev.after
Chained(revs) ==
  \A n \in DOMAIN revs :
    /\ VersionAfter(revs[n]) = n
    /\ n > 1 => revs[n].before = Leaves(revs[n - 1])

(* While every writer of a row quotes a version that it was shown, its     *)
(* revisions form an unbroken chain: each starts from what the one before  *)
(* it left, versions count them, and no write is lost                      *)
(* (UpdateMemoryItemWithVersionWithDB), although the check and the write   *)
(* of two transactions overlap.                                            *)
QuotedChainIsWhole ==
  \A i \in Items :
    (\A n \in 2..Len(log[i]) : log[i][n].quoted > 0) => Chained(log[i])

(* The audit chain is complete (memory.go:1-2).                            *)
ChainIsWhole == \A i \in Items : Chained(log[i])

(* An update always increases the version (models/llm/memory.go:173).      *)
VersionGrows == [][\A i \in Items : row'[i] # row[i] => row'[i].version > row[i].version]_row

(* The resident layer of a space has at most ResidentMaxItems rows         *)
(* (conf/config.go:184).                                                   *)
ResidentCap == \A s \in Spaces : Cardinality(Resident(s)) <= ResidentMax

(* One fact has one row in a space (memory.go:62-63, sql/init.sql:502).    *)
OneRowPerFact ==
  \A i, j \in Items :
    i # j /\ i[1] = j[1] /\ row[i].state = "active" /\ row[j].state = "active" =>
      row[i].content # row[j].content

(* A reflection does not change a locked row (memory.go:52-53).            *)
LockedIsReadOnly ==
  [][\A w \in Writers : Kind[w] = "reflection" =>
       \A i \in Items : row[i].locked /\ Len(log'[i]) > Len(log[i]) =>
         Last(log'[i]).by # w]_<<row, log>>

(* One reflection writes at most MaxWritesPerRun rows (config.go:206).     *)
ReflectionBudget ==
  \A w \in Writers : Kind[w] = "reflection" =>
    MapThenSumSet(LAMBDA i : Cardinality({n \in DOMAIN log[i] : log[i][n].by = w}), Items)
      <= MaxWrites
=============================================================================
