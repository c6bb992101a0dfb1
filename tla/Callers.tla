------------------------------ MODULE Callers ------------------------------
(***************************************************************************)
(* Callers and the rows they own: skills, system prompts, tools and API    *)
(* keys.  A row is registered, changed and deleted by handlers that check  *)
(* first and write later, without a transaction; a caller is copied with   *)
(* all its rows, or deleted with them, in one transaction that locks the   *)
(* caller's row and nothing else.  A tool may be restricted to some users. *)
(*                                                                         *)
(* Rows are never removed from their tables: rows is all of them, in the   *)
(* order of their ids.  The policy of a tool, which is a row of its own    *)
(* under the tool's id, is kept with it.                                   *)
(***************************************************************************)
EXTENDS Naturals, Sequences, SequencesExt

CONSTANTS CallerKeys,  \* keys of callers
          Default,     \* the key whose rows every caller has
          RowKinds,    \* what a caller owns
          Names,       \* names of tools and skills, routes of prompts and keys
          Users,
          Clerks,      \* the goroutines that serve requests
          MaxRows, MaxWrites  \* bounds: rows, requests

ASSUME CallersAssumption ==
  /\ Default \notin CallerKeys
  /\ RowKinds \subseteq {"skill", "prompt", "tool", "key"}
  /\ MaxRows \in Nat /\ MaxWrites \in Nat

VARIABLES caller,   \* each caller: "none", "on", "off" or "dead"
          rows,     \* the rows, oldest first
          clerk,    \* what each handler has read
          writes    \* how many requests have come

callerVars == <<caller, rows, clerk, writes>>

Free == [op |-> "free"]

\* A prompt, tool or skill may belong to every caller, a key may not.
Owners(kind) == CallerKeys \cup IF kind = "key" THEN {} ELSE {Default}

\* "white" is the list of the policy, empty when there is none, and "late"
\* says that the owner was deleted before the row came (history).
NewRows == UNION {[kind : {kind}, owner : Owners(kind), name : Names, on : {TRUE},
                   live : {TRUE}, white : {{}}, late : {FALSE}] : kind \in RowKinds}

CallerInit ==
  /\ caller = [c \in CallerKeys |-> "none"] /\ rows = <<>>
  /\ clerk = [w \in Clerks |-> Free] /\ writes = 0
-----------------------------------------------------------------------------
(* What handlers look at.                                                  *)

Exists(c) == caller[c] \in {"on", "off"}
Active(c) == c \in {Default} \cup {k \in CallerKeys : caller[k] = "on"}
Dead(c) == c # Default /\ caller[c] = "dead"

\* Mutant of Unused: deleted callers are not looked at.
UnusedAmongLive(c) == ~Exists(c)

\* A key that was ever a caller's, deleted ones included, is not free.
Unused(c) == caller[c] = "none"

\* The row of the caller is locked.
Locked(c) == \E w \in Clerks : clerk[w].op \in {"copy", "delete"} /\ clerk[w].caller = c

\* One row of a kind and a name to a caller; skills may share a name.
Taken(r) ==
  /\ r.kind # "skill"
  /\ \E i \in DOMAIN rows : /\ rows[i].live /\ rows[i].kind = r.kind
                            /\ rows[i].owner = r.owner /\ rows[i].name = r.name

\* The live rows of a caller, in the order in which they happen to be found.
OwnedBy(c) ==
  LET ids == SetToSeq({i \in DOMAIN rows : rows[i].live /\ rows[i].owner = c})
  IN  [k \in DOMAIN ids |-> rows[ids[k]]]

\* What the rows rs give to whom: a tool with a policy only to its users.
Grants(rs) ==
  UNION {{[kind |-> rs[i].kind, name |-> rs[i].name, on |-> rs[i].on, user |-> u] :
             u \in IF rs[i].white = {} THEN Users ELSE rs[i].white} : i \in DOMAIN rs}

Takes(w, read) ==
  /\ clerk[w] = Free /\ writes < MaxWrites
  /\ writes' = writes + 1 /\ clerk' = [clerk EXCEPT ![w] = read]

Done(w) == clerk' = [clerk EXCEPT ![w] = Free] /\ UNCHANGED writes
-----------------------------------------------------------------------------
(* Callers.                                                                *)

RegisterCaller(c) ==
  /\ Unused(c) /\ writes < MaxWrites /\ writes' = writes + 1
  /\ caller' = [caller EXCEPT ![c] = "on"]
  /\ UNCHANGED <<rows, clerk>>

\* A caller is switched on or off; the statement waits for the lock.
UpdateCaller(c, status) ==
  /\ Exists(c) /\ ~Locked(c) /\ status \in {"on", "off"}
  /\ writes < MaxWrites /\ writes' = writes + 1
  /\ caller' = [caller EXCEPT ![c] = status]
  /\ UNCHANGED <<rows, clerk>>

\* The source is locked, the target must be new, and the source's live rows
\* are read.
CopyConfig(w, from, to) ==
  /\ from # to /\ Exists(from) /\ ~Locked(from) /\ Unused(to)
  /\ Takes(w, [op |-> "copy", caller |-> from, to |-> to, all |-> OwnedBy(from)])
  /\ UNCHANGED <<caller, rows>>

\* Mutant of Cloned: policies keep the ids of the source's tools.
ClonedAlone(all, to) ==
  [i \in DOMAIN all |-> [all[i] EXCEPT !.owner = to, !.on = TRUE, !.white = {}]]

\* The rows get new ids and the new owner; a policy follows its tool.  They are
\* inserted, and the column default takes the place of a status of zero: a row
\* that was off comes out on.
Cloned(all, to) == [i \in DOMAIN all |-> [all[i] EXCEPT !.owner = to, !.on = TRUE]]

\* They are written with the target, all or none.
CopyCommit(w) ==
  /\ clerk[w].op = "copy" /\ Done(w)
  /\ LET all == Cloned(clerk[w].all, clerk[w].to) IN
     /\ Unused(clerk[w].to) /\ Len(rows) + Len(all) <= MaxRows
     /\ rows' = rows \o all
     /\ caller' = [caller EXCEPT ![clerk[w].to] = "on"]

\* The caller is locked and the ids of its tools are read.
BatchDelete(w, c) ==
  /\ Exists(c) /\ ~Locked(c)
  /\ Takes(w, [op |-> "delete", caller |-> c,
               tools |-> {i \in DOMAIN rows : /\ rows[i].live /\ rows[i].owner = c
                                              /\ rows[i].kind = "tool"}])
  /\ UNCHANGED <<caller, rows>>

\* Mutant of Swept: only rows that were read when the caller was locked go.
SweptAsRead(i, c, tools) ==
  [rows[i] EXCEPT !.live = @ /\ ~(rows[i].owner = c /\ (rows[i].kind = "tool" => i \in tools)),
                  !.white = IF i \in tools THEN {} ELSE @]

\* Policies go by the ids read before, rows by their owner.
Swept(i, c, tools) ==
  [rows[i] EXCEPT !.live = @ /\ rows[i].owner # c, !.white = IF i \in tools THEN {} ELSE @]

DeleteCommit(w) ==
  /\ clerk[w].op = "delete" /\ Done(w)
  /\ rows' = [i \in DOMAIN rows |-> Swept(i, clerk[w].caller, clerk[w].tools)]
  /\ caller' = [caller EXCEPT ![clerk[w].caller] = "dead"]
-----------------------------------------------------------------------------
(* Rows.                                                                   *)

\* The owner is looked up and its rows are counted, ...
RegisterRow(w, r) ==
  /\ Active(r.owner) /\ ~Taken(r)
  /\ Takes(w, [op |-> "insert", row |-> r])
  /\ UNCHANGED <<caller, rows>>

\* ... and the row is written, whatever became of the owner.
InsertRow(w) ==
  /\ clerk[w].op = "insert" /\ Len(rows) < MaxRows /\ Done(w)
  /\ rows' = Append(rows, [clerk[w].row EXCEPT !.late = Dead(clerk[w].row.owner)])
  /\ UNCHANGED caller

\* A new name must be free when it is looked up; a statement that comes after
\* the row was deleted changes nothing.
UpdateRow(w, i, name, on) ==
  /\ rows[i].live
  /\ name # rows[i].name => ~Taken([rows[i] EXCEPT !.name = name])
  /\ Takes(w, [op |-> "update", at |-> i, name |-> name, on |-> on])
  /\ UNCHANGED <<caller, rows>>

WriteRow(w) ==
  /\ clerk[w].op = "update" /\ Done(w)
  /\ rows' = [rows EXCEPT ![clerk[w].at] =
                IF @.live THEN [@ EXCEPT !.name = clerk[w].name, !.on = clerk[w].on] ELSE @]
  /\ UNCHANGED caller

DeleteRow(i) ==
  /\ rows[i].live /\ writes < MaxWrites /\ writes' = writes + 1
  /\ rows' = [rows EXCEPT ![i].live = FALSE]
  /\ UNCHANGED <<caller, clerk>>

\* A policy is written for a tool that is there and off when it is looked up.
CheckPolicy(w, i, op, users) ==
  /\ rows[i].kind = "tool" /\ rows[i].live /\ ~rows[i].on /\ users # {}
  /\ op \in {"restrict", "rewrite"}
  /\ Takes(w, [op |-> op, at |-> i, users |-> users])
  /\ UNCHANGED <<caller, rows>>

\* It is created, or revived, where there is none, or changed where there is
\* one; otherwise the request fails.
WritePolicy(w) ==
  /\ clerk[w].op \in {"restrict", "rewrite"} /\ Done(w)
  /\ rows' = [rows EXCEPT ![clerk[w].at].white =
                IF (clerk[w].op = "restrict") = (@ = {}) THEN clerk[w].users ELSE @]
  /\ UNCHANGED caller

\* Whatever the state of its tool.
DeletePolicy(i) ==
  /\ rows[i].white # {} /\ writes < MaxWrites /\ writes' = writes + 1
  /\ rows' = [rows EXCEPT ![i].white = {}]
  /\ UNCHANGED <<caller, clerk>>

\* A statement fails, and with it the request and its transaction.
RequestFails(w) ==
  clerk[w] # Free /\ Done(w) /\ UNCHANGED <<caller, rows>>

CallerNext ==
  \/ \E c \in CallerKeys :
       \/ RegisterCaller(c)
       \/ \E status \in {"on", "off"} : UpdateCaller(c, status)
  \/ \E w \in Clerks :
       \/ \E from, to \in CallerKeys : CopyConfig(w, from, to)
       \/ \E c \in CallerKeys : BatchDelete(w, c)
       \/ CopyCommit(w) \/ DeleteCommit(w)
       \/ (\E r \in NewRows : RegisterRow(w, r)) \/ InsertRow(w)
       \/ \E i \in DOMAIN rows :
            \/ \E name \in Names, on \in BOOLEAN : UpdateRow(w, i, name, on)
            \/ \E op \in {"restrict", "rewrite"}, users \in SUBSET Users : CheckPolicy(w, i, op, users)
       \/ WriteRow(w) \/ WritePolicy(w) \/ RequestFails(w)
  \/ \E i \in DOMAIN rows : DeleteRow(i) \/ DeletePolicy(i)

CallerSpec == CallerInit /\ [][CallerNext]_callerVars
-----------------------------------------------------------------------------
(* Properties.                                                             *)

\* A deleted caller keeps no row but those that handlers, who had looked it up
\* before, wrote after it was gone, and nobody inherits these: no key that
\* becomes a caller, by registration or as the target of a copy, has one.
NothingIsInherited ==
  \A i \in DOMAIN rows : rows[i].live => (rows[i].late <=> Dead(rows[i].owner))

\* At the step at which the copy of worker w becomes the caller c, it gives what
\* promised says.
Gives(w, c, promised) ==
  clerk[w].op = "copy" /\ clerk[w].to = c /\ caller[c] = "none" /\ caller'[c] = "on"
    /\ clerk'[w] = Free => Grants(OwnedBy(c)') = promised

SwitchedOn(grants) == {[g EXCEPT !.on = TRUE] : g \in grants}

\* A copy gives every user the tools, prompts, skills and keys that the source
\* had for him when it was read, and no restricted tool to anybody else,
\* whatever is written to the source meanwhile; but those that the source had
\* switched off are on.
CopyIsWhole ==
  [][\A w \in Clerks, c \in CallerKeys :
       Gives(w, c, SwitchedOn(Grants(clerk[w].all)))]_callerVars

\* The description of the endpoint, "the source is the template, all of its
\* configuration is copied": what is off in the source is off in the copy.  It
\* is not, see Cloned.
CopyIsFaithful ==
  [][\A w \in Clerks, c \in CallerKeys : Gives(w, c, Grants(clerk[w].all))]_callerVars
=============================================================================
