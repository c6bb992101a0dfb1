----------------------------- MODULE UserModels -----------------------------
(***************************************************************************)
(* The models that people register with a key of their own, or, as         *)
(* administrators, for everybody (service/llmmodel/user_model.go), and the *)
(* credits that administrators give on the latter.  A handler reads the    *)
(* record, decides, asks the model to answer, and writes much later only   *)
(* the columns that differ from what it had read.                          *)
(*                                                                         *)
(* External: the model, which answers or not, with any settings.  The      *)
(* kind of a model and its version are one value here, and scenes are left *)
(* out.  Credits are those of one person on each model.                    *)
(***************************************************************************)
EXTENDS Integers, Sequences

CONSTANTS People,      \* names of users
          Admins,      \* IsWhitelisted
          Nobody,      \* the empty user name
          NoBonus,     \* no account
          ModelNames, Versions, ApiKeys,
          Servants,    \* the goroutines that serve requests
          MaxModels, MaxOrders  \* bounds: models, requests

ASSUME UserModelsAssumption ==
  /\ Admins \subseteq People /\ Nobody \notin People /\ NoBonus \notin Int
  /\ MaxModels \in Nat /\ MaxOrders \in Nat

VARIABLES models,     \* the records, in the order of their ids, deleted ones too
          bonus,      \* bonus[id]: the credits given on the model, or NoBonus
          order,      \* what each handler is about to write
          orders,     \* how many requests have come
          checked,    \* the settings with which a model has answered (history)
          mixed,      \* ids whose settings two updates wrote at once (history)
          given       \* the adjustments that were answered with success (history)

modelVars == <<models, bonus, order, orders, checked, mixed, given>>

Model == [owner : People \cup {Nobody}, name : ModelNames, version : Versions,
          key : ApiKeys, default : BOOLEAN, live : BOOLEAN]

NoOrder == [op |-> "none"]

ModelInit ==
  /\ models = <<>> /\ bonus = <<>> /\ order = [s \in Servants |-> NoOrder] /\ orders = 0
  /\ checked = {} /\ mixed = {} /\ given = <<>>

\* What a request asks for; the owner follows.
Asked == [name : ModelNames, version : Versions, key : ApiKeys, default : BOOLEAN]
ModelOf(asked, owner) ==
  [owner |-> owner, name |-> asked.name, version |-> asked.version, key |-> asked.key,
   default |-> asked.default, live |-> TRUE]

Settings(m) == <<m.version, m.key>>
-----------------------------------------------------------------------------
(* What handlers decide.                                                   *)

\* ExistUserModelByUserAndName; there is no unique index.
NameTaken(owner, name) ==
  \E i \in DOMAIN models : models[i].live /\ models[i].owner = owner /\ models[i].name = name

OwnerFor(p, default) == IF default THEN Nobody ELSE p

\* A platform default is an administrator's, any other model its creator's.
MayChange(p, m) == IF m.default THEN p \in Admins ELSE m.owner = p

\* The kind of a model is changed by administrators.
MayMake(p, m, default) == m.default # default => p \in Admins

\* Mutant of MustAnswer: a key that goes with another version is not tried.
MustAnswerKey(m, new) == new.key # m.key
\* needConnCheck
MustAnswer(m, new) == Settings(new) # Settings(m)

Begin(s, what) ==
  /\ order[s] = NoOrder /\ orders < MaxOrders
  /\ orders' = orders + 1 /\ order' = [order EXCEPT ![s] = what]

\* Mutant of AsOwned: a model that becomes a default one keeps its owner.
AsOwnedBefore(p, m, default) == IF m.default /\ ~default THEN p ELSE m.owner
\* A change of the kind changes the owner.
AsOwned(p, m, default) == IF default = m.default THEN m.owner ELSE OwnerFor(p, default)

Finish(s) == order' = [order EXCEPT ![s] = NoOrder] /\ UNCHANGED orders
-----------------------------------------------------------------------------
(* Models.                                                                 *)

CreateModel(s, p, asked) ==
  /\ asked.default => p \in Admins
  /\ ~NameTaken(OwnerFor(p, asked.default), asked.name)
  /\ Begin(s, [op |-> "create", who |-> p, new |-> ModelOf(asked, OwnerFor(p, asked.default))])
  /\ checked' = checked \cup {Settings(asked)}
  /\ UNCHANGED <<models, bonus, mixed, given>>

InsertModel(s) ==
  /\ order[s].op = "create" /\ Len(models) < MaxModels /\ Finish(s)
  /\ models' = Append(models, order[s].new)
  /\ bonus' = Append(bonus, NoBonus) /\ given' = Append(given, 0)
  /\ UNCHANGED <<checked, mixed>>

\* The name is looked up only when the owner changes.
UpdateModel(s, p, i, asked) ==
  /\ models[i].live /\ MayChange(p, models[i]) /\ MayMake(p, models[i], asked.default)
  /\ asked.default # models[i].default => ~NameTaken(OwnerFor(p, asked.default), asked.name)
  /\ LET new == ModelOf(asked, AsOwned(p, models[i], asked.default)) IN
     /\ new # models[i]
     /\ Begin(s, [op |-> "update", who |-> p, at |-> i, old |-> models[i], new |-> new])
     /\ checked' = checked \cup (IF MustAnswer(models[i], new) THEN {Settings(new)} ELSE {})
  /\ UNCHANGED <<models, bonus, mixed, given>>

\* The columns that changed are written over what is there now.
Column(now, old, new) == IF new = old THEN now ELSE new
Merged(now, old, new) ==
  [owner   |-> Column(now.owner, old.owner, new.owner),
   name    |-> Column(now.name, old.name, new.name),
   version |-> Column(now.version, old.version, new.version),
   key     |-> Column(now.key, old.key, new.key),
   default |-> Column(now.default, old.default, new.default),
   live    |-> now.live]

\* A record that was deleted meanwhile stays as it is.
WriteModel(s) ==
  /\ order[s].op = "update" /\ Finish(s)
  /\ LET i == order[s].at  old == order[s].old  new == order[s].new IN
     /\ models' = [models EXCEPT ![i] = IF @.live THEN Merged(@, old, new) ELSE @]
     /\ mixed' = IF Settings(models[i]) # Settings(old) /\ Settings(new) # Settings(old)
                 THEN mixed \cup {i} ELSE mixed
  /\ UNCHANGED <<bonus, checked, given>>

DeleteModel(s, p, i) ==
  /\ models[i].live /\ (models[i].owner = p \/ p \in Admins)
  /\ Begin(s, [op |-> "delete", who |-> p, at |-> i])
  /\ UNCHANGED <<models, bonus, checked, mixed, given>>

RemoveModel(s) ==
  /\ order[s].op = "delete" /\ Finish(s)
  /\ models' = [models EXCEPT ![order[s].at].live = FALSE]
  /\ UNCHANGED <<bonus, checked, mixed, given>>
-----------------------------------------------------------------------------
(* Credits: FirstOrCreate, then an addition in the database.               *)

AdjustCredits(s, p, i, delta) ==
  /\ p \in Admins /\ models[i].live /\ models[i].default
  /\ Begin(s, [op |-> "adjust", who |-> p, at |-> i, delta |-> delta, found |-> bonus[i] # NoBonus])
  /\ UNCHANGED <<models, bonus, checked, mixed, given>>

\* Of two requests that found none the second violates the unique key.
CreateBonus(s) ==
  /\ order[s].op = "adjust" /\ ~order[s].found
  /\ IF bonus[order[s].at] = NoBonus
     THEN /\ order' = [order EXCEPT ![s].found = TRUE] /\ UNCHANGED orders
          /\ bonus' = [bonus EXCEPT ![order[s].at] = 0]
     ELSE Finish(s) /\ UNCHANGED bonus
  /\ UNCHANGED <<models, checked, mixed, given>>

\* Mutant of Added: the sum is made of what was read.
AddedOnce(i, delta) == delta
\* "credits + ?"
Added(i, delta) == bonus[i] + delta

AddCredits(s) ==
  /\ order[s].op = "adjust" /\ order[s].found /\ Finish(s)
  /\ LET i == order[s].at  delta == order[s].delta IN
     bonus' = [bonus EXCEPT ![i] = Added(i, delta)] /\ given' = [given EXCEPT ![i] = @ + delta]
  /\ UNCHANGED <<models, checked, mixed>>
-----------------------------------------------------------------------------
\* A statement fails, or the process stops and with it the request.
OrderFails(s) ==
  /\ order[s] # NoOrder /\ Finish(s) /\ UNCHANGED <<models, bonus, checked, mixed, given>>

ModelNext ==
  \E s \in Servants :
    \/ \E p \in People :
         \/ \E asked \in Asked : CreateModel(s, p, asked)
         \/ \E i \in DOMAIN models :
              \/ \E asked \in Asked : UpdateModel(s, p, i, asked)
              \/ DeleteModel(s, p, i)
              \/ \E delta \in {-1, 1} : AdjustCredits(s, p, i, delta)
    \/ InsertModel(s) \/ WriteModel(s) \/ RemoveModel(s)
    \/ CreateBonus(s) \/ AddCredits(s) \/ OrderFails(s)

ModelSpec == ModelInit /\ [][ModelNext]_modelVars
-----------------------------------------------------------------------------
(* Properties.                                                             *)

ModelTypeOK ==
  /\ models \in Seq(Model) /\ orders \in Nat
  /\ bonus \in Seq(Int \cup {NoBonus}) /\ given \in Seq(Int)
  /\ Len(bonus) = Len(models) /\ Len(given) = Len(models)

\* What is stored has answered: unless two updates of its settings overlapped,
\* the version and the key of a model were tried together (CheckConnectivity).
WasChecked ==
  \A i \in DOMAIN models : models[i].live /\ i \notin mixed => Settings(models[i]) \in checked

\* A model belongs to nobody exactly when it is a platform default, however
\* updates that change its kind overlap: the lists, the checks of names and of
\* permission each look at one of the two columns only.
KindIsOwner ==
  \A i \in DOMAIN models : models[i].default <=> models[i].owner = Nobody

\* The credits of an account are the sum of the adjustments that were
\* confirmed, although those that find no account create it first.
CreditsAddUp ==
  \A i \in DOMAIN models : (IF bonus[i] = NoBonus THEN 0 ELSE bonus[i]) = given[i]
=============================================================================
