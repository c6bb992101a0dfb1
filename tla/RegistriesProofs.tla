------------------------- MODULE RegistriesProofs -------------------------
(***************************************************************************)
(* What overlapping requests leave in the registries: the feedback on a    *)
(* run, the models of users, the bundles of an agent that is installed,    *)
(* and callers with their rows.  A request is a read, a decision and a     *)
(* later write, so that each invariant comes with what it says about the   *)
(* writes that are still to come.                                          *)
(***************************************************************************)
EXTENDS Feedback, UserModels, Bundles, Callers, SequenceTheorems, FiniteSetTheorems, TLAPS

-----------------------------------------------------------------------------
(* Feedback.                                                               *)

\* Before the row exists nothing was said, and what is said has its time.
RemarkInv ==
  /\ ~remark.there => said = Unset
  /\ FeedbackIsKept

LEMMA RemarkInit == FeedbackInit => RemarkInv
BY DEF FeedbackInit, RemarkInv, FeedbackIsKept, NoRemark, Unset, Columns

LEMMA RemarkStep == RemarkInv /\ [FeedbackNext]_feedbackVars => RemarkInv'
<1> SUFFICES ASSUME RemarkInv, [FeedbackNext]_feedbackVars PROVE RemarkInv'
  OBVIOUS
<1>1. CASE UNCHANGED <<remark, said>>
  BY <1>1 DEF RemarkInv, FeedbackIsKept
<1>2. ASSUME NEW a \in Authors, CreateRemark(a), ~remark.there PROVE RemarkInv'
  <2>1. /\ remark'.there /\ remark'.columns = Over(saying[a], Unset)
        /\ remark'.timed = saying[a].brings /\ said' = Over(saying[a], Unset)
    BY <1>2 DEF CreateRemark, RemarkInv
  <2>2. \A c \in Columns : said'[c] # Unset[c] => c \in saying[a].brings
    BY <2>1 DEF Over
  <2> QED
    BY <2>1, <2>2 DEF RemarkInv, FeedbackIsKept
<1>3. ASSUME NEW a \in Authors, UpdateRemark(a) PROVE RemarkInv'
  <2>1. /\ remark'.there /\ remark'.columns = Over(saying[a], remark.columns)
        /\ remark'.timed = remark.timed \cup saying[a].brings
        /\ said' = Over(saying[a], remark.columns)
    BY <1>3 DEF UpdateRemark, Updates, RemarkInv, FeedbackIsKept
  <2>2. \A c \in Columns : said'[c] # Unset[c] => c \in remark'.timed
    BY <2>1 DEF Over, RemarkInv, FeedbackIsKept
  <2> QED
    BY <2>1, <2>2 DEF RemarkInv, FeedbackIsKept
<1> QED
  BY <1>1, <1>2, <1>3 DEF FeedbackNext, feedbackVars, FindRemark, CreateRemark, RemarkFails

\* The row of a run shows for its vote and for its text what was last confirmed
\* for each, whatever requests overlap (UpdateReactRunFeedback).
THEOREM FeedbackKept == FeedbackSpec => []FeedbackIsKept
<1>1. RemarkInv => FeedbackIsKept
  BY DEF RemarkInv
<1> QED
  BY <1>1, RemarkInit, RemarkStep, PTL DEF FeedbackSpec
-----------------------------------------------------------------------------
(* Models of users.                                                        *)

Tidy(m) == m \in Model /\ (m.default <=> m.owner = Nobody)

\* What a handler is about to write.  An update changes the owner with the kind
\* and only with it, and settings that it changes have been tried.
CreateOrder == [op : {"create"}, who : People, new : Model]
UpdateOrder(n) == [op : {"update"}, who : People, at : 1 .. n, old : Model, new : Model]
DeleteOrder(n) == [op : {"delete"}, who : People, at : 1 .. n]
AdjustOrder(n) == [op : {"adjust"}, who : People, at : 1 .. n, delta : Int, found : BOOLEAN]

Orders(n) == {NoOrder} \cup CreateOrder \cup UpdateOrder(n) \cup DeleteOrder(n) \cup AdjustOrder(n)

TriedCreate(o) == o.op = "create" => Tidy(o.new) /\ Settings(o.new) \in checked
TriedUpdate(o) ==
  o.op = "update" => /\ Tidy(o.old) /\ Tidy(o.new)
                     /\ o.old.default = o.new.default => o.old.owner = o.new.owner
                     /\ Settings(o.new) # Settings(o.old) => Settings(o.new) \in checked
HasAccount(o) == o.op = "adjust" /\ o.found => bonus[o.at] # NoBonus

ModelInv ==
  /\ ModelTypeOK
  /\ order \in [Servants -> Orders(Len(models))]
  /\ \A s \in Servants : TriedCreate(order[s]) /\ TriedUpdate(order[s]) /\ HasAccount(order[s])
  /\ KindIsOwner /\ WasChecked /\ CreditsAddUp

LEMMA ModelInitInv == ModelInit => ModelInv
BY UserModelsAssumption
   DEF ModelInit, ModelInv, ModelTypeOK, Orders, NoOrder, TriedCreate, TriedUpdate, HasAccount,
       KindIsOwner, WasChecked, CreditsAddUp

LEMMA NewModel ==
  ASSUME NEW asked \in Asked, NEW owner \in People \cup {Nobody},
         asked.default <=> owner = Nobody
  PROVE  /\ Tidy(ModelOf(asked, owner))
         /\ Settings(ModelOf(asked, owner)) = Settings(asked)
         /\ ModelOf(asked, owner).owner = owner
         /\ ModelOf(asked, owner).default = asked.default
<1>1. PICK n \in ModelNames, v \in Versions, k \in ApiKeys, d \in BOOLEAN :
        asked = [name |-> n, version |-> v, key |-> k, default |-> d]
  BY DEF Asked
<1> QED
  BY <1>1 DEF Tidy, ModelOf, Model, Settings

LEMMA MoreOrders ==
  ASSUME NEW n \in Nat, NEW k \in Nat, n <= k
  PROVE  Orders(n) \subseteq Orders(k)
<1>1. 1 .. n \subseteq 1 .. k
  OBVIOUS
<1> QED
  BY <1>1 DEF Orders, UpdateOrder, DeleteOrder, AdjustOrder

\* The orders of the others stay good while models and settings are added and
\* accounts stay.
OrdersOK ==
  /\ order \in [Servants -> Orders(Len(models))]
  /\ \A s \in Servants : TriedCreate(order[s]) /\ TriedUpdate(order[s]) /\ HasAccount(order[s])

LEMMA OrdersKept ==
  ASSUME ModelInv, NEW s \in Servants, NEW o, order' = [order EXCEPT ![s] = o],
         models' \in Seq(Model), Len(models) <= Len(models'), checked \subseteq checked',
         \A i \in 1 .. Len(models) : bonus[i] # NoBonus => bonus'[i] # NoBonus,
         o \in Orders(Len(models')), TriedCreate(o)', TriedUpdate(o)', HasAccount(o)'
  PROVE  OrdersOK'
<1>1. /\ Len(models) \in Nat /\ Len(models') \in Nat
      /\ Orders(Len(models)) \subseteq Orders(Len(models'))
  BY MoreOrders DEF ModelInv, ModelTypeOK
<1>2. order' \in [Servants -> Orders(Len(models'))]
  BY <1>1 DEF ModelInv
<1>3. ASSUME NEW t \in Servants, t # s
      PROVE  (TriedCreate(order[t]) /\ TriedUpdate(order[t]) /\ HasAccount(order[t]))'
  <2>1. PICK p : p = order[t]
    OBVIOUS
  <2>2. order'[t] = p /\ p \in Orders(Len(models))
    BY <1>3, <2>1 DEF ModelInv
  <2>3. TriedCreate(p) /\ TriedUpdate(p) /\ HasAccount(p)
    BY <2>1 DEF ModelInv
  <2>4. TriedCreate(p)' /\ TriedUpdate(p)'
    BY <2>3 DEF TriedCreate, TriedUpdate
  <2>5. HasAccount(p)'
    <3>1. p.op = "adjust" => p \in AdjustOrder(Len(models))
      BY <2>2 DEF Orders, NoOrder, CreateOrder, UpdateOrder, DeleteOrder
    <3> QED
      BY <2>3, <3>1 DEF HasAccount, AdjustOrder
  <2> QED
    BY <2>2, <2>4, <2>5 DEF TriedCreate, TriedUpdate, HasAccount
<1>4. order'[s] = o
  BY DEF ModelInv
<1>5. (TriedCreate(order[s]) /\ TriedUpdate(order[s]) /\ HasAccount(order[s]))'
  BY <1>4 DEF TriedCreate, TriedUpdate, HasAccount
<1> QED
  BY <1>2, <1>3, <1>5, Zenon DEF OrdersOK

LEMMA OrdersFinish ==
  ASSUME ModelInv, NEW s \in Servants, Finish(s),
         models' \in Seq(Model), Len(models) <= Len(models'), checked \subseteq checked',
         \A i \in 1 .. Len(models) : bonus[i] # NoBonus => bonus'[i] # NoBonus
  PROVE  OrdersOK' /\ orders' \in Nat
<1>1. NoOrder \in Orders(Len(models')) /\ NoOrder.op = "none"
  BY DEF Orders, NoOrder
<1>2. TriedCreate(NoOrder)' /\ TriedUpdate(NoOrder)' /\ HasAccount(NoOrder)'
  BY <1>1 DEF TriedCreate, TriedUpdate, HasAccount
<1>3. order' = [order EXCEPT ![s] = NoOrder] /\ orders' \in Nat
  BY DEF Finish, ModelInv, ModelTypeOK
<1> QED
  BY <1>1, <1>2, <1>3, OrdersKept

\* A read decides and changes nothing that is stored.
LEMMA OrdersBegin ==
  ASSUME ModelInv, NEW s \in Servants, NEW o, Begin(s, o), checked \subseteq checked',
         UNCHANGED <<models, bonus, mixed, given>>,
         o \in Orders(Len(models)), TriedCreate(o)', TriedUpdate(o)', HasAccount(o)'
  PROVE  ModelInv'
<1>1. order' = [order EXCEPT ![s] = o] /\ orders' \in Nat
  BY DEF Begin, ModelInv, ModelTypeOK
<1>2. models' \in Seq(Model) /\ Len(models) \in Nat
  BY DEF ModelInv, ModelTypeOK
<1>3. /\ o \in Orders(Len(models')) /\ Len(models) <= Len(models')
      /\ \A i \in 1 .. Len(models) : bonus[i] # NoBonus => bonus'[i] # NoBonus
  BY <1>2
<1>4. OrdersOK'
  BY <1>1, <1>2, <1>3, OrdersKept
<1> QED
  BY <1>1, <1>2, <1>4
     DEF ModelInv, OrdersOK, ModelTypeOK, KindIsOwner, WasChecked, CreditsAddUp

LEMMA StepCreateModel ==
  ASSUME ModelInv, NEW s \in Servants, NEW p \in People, NEW asked \in Asked,
         CreateModel(s, p, asked)
  PROVE  ModelInv'
<1> DEFINE owner == OwnerFor(p, asked.default)
<1>1. owner \in People \cup {Nobody} /\ (asked.default <=> owner = Nobody)
  BY UserModelsAssumption DEF OwnerFor
<1>2. PICK new : new = ModelOf(asked, owner)
  OBVIOUS
<1>3. Tidy(new) /\ new \in Model /\ Settings(new) = Settings(asked)
  BY <1>1, <1>2, NewModel DEF Tidy
<1>4. PICK o : o = [op |-> "create", who |-> p, new |-> new]
  OBVIOUS
<1>5. /\ Begin(s, o) /\ checked' = checked \cup {Settings(new)}
      /\ UNCHANGED <<models, bonus, mixed, given>>
  BY <1>2, <1>3, <1>4 DEF CreateModel
<1>6. o \in Orders(Len(models)) /\ o.op = "create" /\ o.new = new
  BY <1>3, <1>4 DEF Orders, CreateOrder
<1>7. TriedCreate(o)' /\ TriedUpdate(o)' /\ HasAccount(o)'
  BY <1>3, <1>5, <1>6 DEF TriedCreate, TriedUpdate, HasAccount
<1> QED
  BY <1>5, <1>6, <1>7, OrdersBegin

LEMMA StepUpdateModel ==
  ASSUME ModelInv, NEW s \in Servants, NEW p \in People, NEW i \in DOMAIN models,
         NEW asked \in Asked, UpdateModel(s, p, i, asked)
  PROVE  ModelInv'
<1>1. PICK old : old = models[i]
  OBVIOUS
<1>2. Tidy(old) /\ i \in 1 .. Len(models)
  BY <1>1 DEF ModelInv, ModelTypeOK, KindIsOwner, Tidy
<1> DEFINE owner == AsOwned(p, old, asked.default)
<1>3. /\ owner \in People \cup {Nobody} /\ (asked.default <=> owner = Nobody)
      /\ asked.default = old.default => owner = old.owner
  BY <1>2, UserModelsAssumption DEF AsOwned, OwnerFor, Tidy, Model
<1>4. PICK new : new = ModelOf(asked, owner)
  OBVIOUS
<1>5. Tidy(new) /\ (old.default = new.default => old.owner = new.owner)
  BY <1>3, <1>4, NewModel
<1>6. PICK o : o = [op |-> "update", who |-> p, at |-> i, old |-> old, new |-> new]
  OBVIOUS
<1>7. /\ Begin(s, o) /\ UNCHANGED <<models, bonus, mixed, given>>
      /\ checked' = checked \cup (IF MustAnswer(old, new) THEN {Settings(new)} ELSE {})
  BY <1>1, <1>4, <1>6 DEF UpdateModel
<1>8. o \in UpdateOrder(Len(models)) /\ o.op = "update" /\ o.old = old /\ o.new = new
  BY <1>2, <1>5, <1>6 DEF UpdateOrder, Tidy
<1>9. TriedCreate(o)' /\ TriedUpdate(o)' /\ HasAccount(o)'
  BY <1>2, <1>5, <1>7, <1>8 DEF TriedCreate, TriedUpdate, HasAccount, MustAnswer
<1> QED
  BY <1>7, <1>8, <1>9, OrdersBegin DEF Orders

LEMMA StepDeleteModel ==
  ASSUME ModelInv, NEW s \in Servants, NEW p \in People, NEW i \in DOMAIN models,
         DeleteModel(s, p, i)
  PROVE  ModelInv'
<1>1. PICK o : o = [op |-> "delete", who |-> p, at |-> i]
  OBVIOUS
<1>2. o \in DeleteOrder(Len(models)) /\ o.op = "delete"
  BY <1>1 DEF DeleteOrder, ModelInv, ModelTypeOK
<1>3. TriedCreate(o)' /\ TriedUpdate(o)' /\ HasAccount(o)'
  BY <1>2 DEF TriedCreate, TriedUpdate, HasAccount
<1> QED
  BY <1>1, <1>2, <1>3, OrdersBegin DEF DeleteModel, Orders

LEMMA StepAdjustCredits ==
  ASSUME ModelInv, NEW s \in Servants, NEW p \in People, NEW i \in DOMAIN models,
         NEW delta \in {-1, 1}, AdjustCredits(s, p, i, delta)
  PROVE  ModelInv'
<1>0. PICK found \in BOOLEAN : found = (bonus[i] # NoBonus)
  OBVIOUS
<1>1. PICK o : o = [op |-> "adjust", who |-> p, at |-> i, delta |-> delta, found |-> found]
  OBVIOUS
<1>2. o \in AdjustOrder(Len(models)) /\ o.op = "adjust" /\ o.at = i
  <2>1. i \in 1 .. Len(models) /\ delta \in Int
    BY DEF ModelInv, ModelTypeOK
  <2> QED
    BY <1>1, <2>1 DEF AdjustOrder
<1>21. o.found => bonus[i] # NoBonus
  BY <1>0, <1>1, Zenon
<1>3. Begin(s, o) /\ checked' = checked /\ UNCHANGED <<models, bonus, mixed, given>>
  BY <1>0, <1>1 DEF AdjustCredits
<1>4. TriedCreate(o)' /\ TriedUpdate(o)' /\ HasAccount(o)'
  BY <1>2, <1>21, <1>3 DEF TriedCreate, TriedUpdate, HasAccount
<1> QED
  BY <1>2, <1>3, <1>4, OrdersBegin DEF Orders

LEMMA StepInsertModel ==
  ASSUME ModelInv, NEW s \in Servants, InsertModel(s)
  PROVE  ModelInv'
<1>1. PICK new : new = order[s].new
  OBVIOUS
<1>2. order[s].op = "create" /\ Tidy(new) /\ Settings(new) \in checked
  BY <1>1 DEF InsertModel, ModelInv, TriedCreate
<1>3. /\ models \in Seq(Model) /\ bonus \in Seq(Int \cup {NoBonus}) /\ given \in Seq(Int)
      /\ Len(bonus) = Len(models) /\ Len(given) = Len(models)
  BY DEF ModelInv, ModelTypeOK
<1>4. /\ models' = Append(models, new) /\ bonus' = Append(bonus, NoBonus)
      /\ given' = Append(given, 0) /\ Finish(s) /\ checked' = checked /\ mixed' = mixed
  BY <1>1 DEF InsertModel
<1>5. /\ models' \in Seq(Model) /\ bonus' \in Seq(Int \cup {NoBonus}) /\ given' \in Seq(Int)
      /\ Len(models') = Len(models) + 1 /\ Len(bonus') = Len(models')
      /\ Len(given') = Len(models')
  BY <1>2, <1>3, <1>4 DEF Tidy
<1>6. \A i \in DOMAIN models' :
        \/ i \in DOMAIN models /\ models'[i] = models[i] /\ bonus'[i] = bonus[i] /\ given'[i] = given[i]
        \/ models'[i] = new /\ bonus'[i] = NoBonus /\ given'[i] = 0
  BY <1>2, <1>3, <1>4 DEF Tidy
<1>7. \A i \in 1 .. Len(models) : bonus'[i] = bonus[i]
  BY <1>3, <1>4
<1>8. OrdersOK' /\ orders' \in Nat
  BY <1>3, <1>4, <1>5, <1>7, OrdersFinish
<1>9. KindIsOwner'
  BY <1>2, <1>6 DEF ModelInv, KindIsOwner, Tidy
<1>10. WasChecked'
  BY <1>2, <1>4, <1>6 DEF ModelInv, WasChecked
<1>11. CreditsAddUp'
  BY <1>6 DEF ModelInv, CreditsAddUp
<1> QED
  BY <1>5, <1>8, <1>9, <1>10, <1>11 DEF ModelInv, OrdersOK, ModelTypeOK

\* What an update leaves of a record is one of four.
LEMMA Merging ==
  ASSUME NEW now \in Model, Tidy(now), NEW old \in Model, NEW new \in Model,
         Tidy(old), Tidy(new), old.default = new.default => old.owner = new.owner
  PROVE  /\ Tidy(Merged(now, old, new))
         /\ Settings(new) = Settings(old) => Settings(Merged(now, old, new)) = Settings(now)
         /\ Settings(now) = Settings(old) => Settings(Merged(now, old, new)) = Settings(new)
<1>1. PICK o, n, v, k, d :
        /\ o = Column(now.owner, old.owner, new.owner) /\ n = Column(now.name, old.name, new.name)
        /\ v = Column(now.version, old.version, new.version)
        /\ k = Column(now.key, old.key, new.key)
        /\ d = Column(now.default, old.default, new.default)
  OBVIOUS
<1>2. /\ o \in People \cup {Nobody} /\ n \in ModelNames /\ v \in Versions /\ k \in ApiKeys
      /\ d \in BOOLEAN /\ now.live \in BOOLEAN
  BY <1>1 DEF Column, Model
<1>3. PICK m : m = Merged(now, old, new)
  OBVIOUS
<1>4. m = [owner |-> o, name |-> n, version |-> v, key |-> k, default |-> d, live |-> now.live]
  BY <1>1, <1>3 DEF Merged
<1>5. m \in Model /\ m.owner = o /\ m.default = d /\ m.version = v /\ m.key = k
  BY <1>2, <1>4 DEF Model
<1>6. old.default # new.default => old.owner # new.owner
  BY DEF Tidy, Model
<1>7. m.default <=> m.owner = Nobody
  <2>1. CASE old.default = new.default
    <3>1. d = now.default /\ o = now.owner
      BY <1>1, <2>1 DEF Column
    <3> QED
      BY <1>5, <3>1 DEF Tidy
  <2>2. CASE old.default # new.default
    <3>1. d = new.default /\ o = new.owner
      BY <1>1, <1>6, <2>2 DEF Column
    <3> QED
      BY <1>5, <3>1 DEF Tidy
  <2> QED
    BY <2>1, <2>2
<1>8. Settings(new) = Settings(old) => Settings(m) = Settings(now)
  BY <1>1, <1>5 DEF Settings, Column
<1>9. Settings(now) = Settings(old) => Settings(m) = Settings(new)
  BY <1>1, <1>5 DEF Settings, Column
<1> QED
  BY <1>3, <1>5, <1>7, <1>8, <1>9 DEF Tidy

LEMMA StepWriteModel ==
  ASSUME ModelInv, NEW s \in Servants, WriteModel(s)
  PROVE  ModelInv'
<1>1. PICK o : o = order[s]
  OBVIOUS
<1>2. o.op = "update" /\ o \in Orders(Len(models)) /\ TriedUpdate(o)
  BY <1>1 DEF WriteModel, ModelInv
<1>3. o \in UpdateOrder(Len(models))
  BY <1>2 DEF Orders, NoOrder, CreateOrder, DeleteOrder, AdjustOrder
<1>4. PICK i \in 1 .. Len(models), old \in Model, new \in Model :
        i = o.at /\ old = o.old /\ new = o.new
  BY <1>3 DEF UpdateOrder
<1>5. /\ Tidy(old) /\ Tidy(new) /\ (old.default = new.default => old.owner = new.owner)
      /\ Settings(new) # Settings(old) => Settings(new) \in checked
  BY <1>2, <1>4 DEF TriedUpdate
<1>6. PICK now \in Model : now = models[i] /\ Tidy(now)
  BY DEF ModelInv, ModelTypeOK, KindIsOwner, Tidy
<1>7. PICK m : m = IF now.live THEN Merged(now, old, new) ELSE now
  OBVIOUS
<1>8. m \in Model /\ Tidy(m)
  BY <1>5, <1>6, <1>7, Merging DEF Tidy
<1>9. /\ models' = [models EXCEPT ![i] = m] /\ Finish(s) /\ UNCHANGED <<bonus, checked, given>>
      /\ mixed \subseteq mixed'
      /\ Settings(now) # Settings(old) /\ Settings(new) # Settings(old) => i \in mixed'
  BY <1>1, <1>4, <1>6, <1>7 DEF WriteModel
<1>10. models \in Seq(Model) /\ models' \in Seq(Model) /\ Len(models') = Len(models)
  BY <1>8, <1>9 DEF ModelInv, ModelTypeOK
<1>11. /\ DOMAIN models' = DOMAIN models /\ models'[i] = m
       /\ \A j \in DOMAIN models : j # i => models'[j] = models[j]
  BY <1>9, <1>10
<1>12. m.live /\ i \notin mixed' => Settings(m) \in checked
  <2> SUFFICES ASSUME m.live, i \notin mixed' PROVE Settings(m) \in checked
    OBVIOUS
  <2>1. now.live /\ m = Merged(now, old, new)
    BY <1>7
  <2>2. Settings(now) \in checked
    BY <1>6, <1>9, <2>1, <1>10 DEF ModelInv, WasChecked
  <2>3. CASE Settings(new) = Settings(old)
    BY <1>5, <1>6, <2>1, <2>2, <2>3, Merging
  <2>4. CASE Settings(new) # Settings(old)
    BY <1>5, <1>6, <1>9, <2>1, <2>4, Merging
  <2> QED
    BY <2>3, <2>4
<1>13. WasChecked'
  BY <1>9, <1>11, <1>12 DEF ModelInv, WasChecked
<1>14. KindIsOwner'
  BY <1>8, <1>11 DEF ModelInv, KindIsOwner, Tidy
<1>15. CreditsAddUp'
  BY <1>9, <1>11 DEF ModelInv, CreditsAddUp
<1>16. OrdersOK' /\ orders' \in Nat
  <2>1. Len(models) <= Len(models')
    BY <1>10
  <2> QED
    BY <1>9, <1>10, <2>1, OrdersFinish
<1> QED
  BY <1>9, <1>10, <1>13, <1>14, <1>15, <1>16 DEF ModelInv, OrdersOK, ModelTypeOK

LEMMA StepRemoveModel ==
  ASSUME ModelInv, NEW s \in Servants, RemoveModel(s)
  PROVE  ModelInv'
<1>1. PICK o : o = order[s]
  OBVIOUS
<1>2. o.op = "delete" /\ o \in Orders(Len(models))
  BY <1>1 DEF RemoveModel, ModelInv
<1>3. PICK i \in 1 .. Len(models) : i = o.at
  BY <1>2 DEF Orders, NoOrder, CreateOrder, UpdateOrder, DeleteOrder, AdjustOrder
<1>4. PICK now \in Model : now = models[i] /\ Tidy(now)
  BY DEF ModelInv, ModelTypeOK, KindIsOwner, Tidy
<1>5. PICK m : m = [now EXCEPT !.live = FALSE]
  OBVIOUS
<1>6. m \in Model /\ ~m.live /\ m.owner = now.owner /\ m.default = now.default
  BY <1>5 DEF Model
<1>7. /\ models' = [models EXCEPT ![i] = m] /\ Finish(s)
      /\ UNCHANGED <<bonus, checked, mixed, given>>
  BY <1>1, <1>3, <1>4, <1>5 DEF RemoveModel
<1>8. models \in Seq(Model) /\ models' \in Seq(Model) /\ Len(models') = Len(models)
  BY <1>6, <1>7 DEF ModelInv, ModelTypeOK
<1>9. /\ DOMAIN models' = DOMAIN models /\ models'[i] = m
      /\ \A j \in DOMAIN models : j # i => models'[j] = models[j]
  BY <1>7, <1>8
<1>10. WasChecked' /\ CreditsAddUp'
  BY <1>6, <1>7, <1>9 DEF ModelInv, WasChecked, CreditsAddUp
<1>11. KindIsOwner'
  BY <1>4, <1>6, <1>9 DEF ModelInv, KindIsOwner, Tidy
<1>12. OrdersOK' /\ orders' \in Nat
  <2>1. Len(models) <= Len(models')
    BY <1>8
  <2> QED
    BY <1>7, <1>8, <2>1, OrdersFinish
<1> QED
  BY <1>7, <1>8, <1>10, <1>11, <1>12 DEF ModelInv, OrdersOK, ModelTypeOK

LEMMA StepCreateBonus ==
  ASSUME ModelInv, NEW s \in Servants, CreateBonus(s)
  PROVE  ModelInv'
<1>1. PICK o : o = order[s]
  OBVIOUS
<1>2. o \in AdjustOrder(Len(models)) /\ TriedCreate(o) /\ TriedUpdate(o)
  BY <1>1 DEF CreateBonus, ModelInv, Orders, NoOrder, CreateOrder, UpdateOrder, DeleteOrder
<1>3. PICK i \in 1 .. Len(models) : i = o.at
  BY <1>2 DEF AdjustOrder
<1>4. /\ UNCHANGED <<models, checked, mixed, given>>
      /\ models' \in Seq(Model) /\ Len(models) \in Nat /\ Len(models) <= Len(models')
  BY DEF CreateBonus, ModelInv, ModelTypeOK
<1>5. CASE bonus[i] # NoBonus
  <2>1. Finish(s) /\ bonus' = bonus
    BY <1>1, <1>3, <1>5 DEF CreateBonus
  <2>2. OrdersOK' /\ orders' \in Nat
    BY <1>4, <2>1, OrdersFinish
  <2> QED
    BY <1>4, <2>1, <2>2
       DEF ModelInv, OrdersOK, ModelTypeOK, KindIsOwner, WasChecked, CreditsAddUp
<1>6. CASE bonus[i] = NoBonus
  <2>1. PICK p : p = [o EXCEPT !.found = TRUE]
    OBVIOUS
  <2>2. p \in AdjustOrder(Len(models)) /\ p.op = "adjust" /\ p.at = i
    BY <1>2, <1>3, <2>1 DEF AdjustOrder
  <2>3. order' = [order EXCEPT ![s] = p] /\ orders' = orders /\ bonus' = [bonus EXCEPT ![i] = 0]
    BY <1>1, <1>3, <1>6, <2>1 DEF CreateBonus
  <2>4. /\ bonus \in Seq(Int \cup {NoBonus}) /\ Len(bonus) = Len(models)
        /\ bonus' \in Seq(Int \cup {NoBonus}) /\ Len(bonus') = Len(models)
        /\ bonus'[i] = 0 /\ \A j \in 1 .. Len(models) : j # i => bonus'[j] = bonus[j]
    BY <1>4, <2>3 DEF ModelInv, ModelTypeOK
  <2>5. 0 # NoBonus
    BY UserModelsAssumption
  <2>6. \A j \in 1 .. Len(models) : bonus[j] # NoBonus => bonus'[j] # NoBonus
    BY <2>4, <2>5
  <2>7. p \in Orders(Len(models')) /\ TriedCreate(p)' /\ TriedUpdate(p)' /\ HasAccount(p)'
    BY <1>4, <2>2, <2>4, <2>5 DEF Orders, TriedCreate, TriedUpdate, HasAccount
  <2>8. OrdersOK'
    BY <1>4, <2>3, <2>6, <2>7, OrdersKept
  <2>9. CreditsAddUp'
    BY <1>4, <1>6, <2>4, <2>5 DEF ModelInv, ModelTypeOK, CreditsAddUp
  <2> QED
    BY <1>4, <2>3, <2>4, <2>8, <2>9 DEF ModelInv, OrdersOK, ModelTypeOK, KindIsOwner, WasChecked
<1> QED
  BY <1>5, <1>6

LEMMA StepAddCredits ==
  ASSUME ModelInv, NEW s \in Servants, AddCredits(s)
  PROVE  ModelInv'
<1>1. PICK o : o = order[s]
  OBVIOUS
<1>2. o \in AdjustOrder(Len(models)) /\ HasAccount(o) /\ o.found /\ o.op = "adjust"
  BY <1>1 DEF AddCredits, ModelInv, Orders, NoOrder, CreateOrder, UpdateOrder, DeleteOrder
<1>3. PICK i \in 1 .. Len(models), delta \in Int : i = o.at /\ delta = o.delta
  BY <1>2 DEF AdjustOrder
<1>4. /\ models \in Seq(Model) /\ Len(models) \in Nat /\ Len(bonus) = Len(models)
      /\ bonus \in Seq(Int \cup {NoBonus}) /\ given \in Seq(Int) /\ Len(given) = Len(models)
  BY DEF ModelInv, ModelTypeOK
<1>5. bonus[i] # NoBonus /\ bonus[i] \in Int /\ given[i] \in Int
  BY <1>2, <1>3, <1>4 DEF HasAccount
<1>6. PICK sum \in Int, total \in Int : sum = bonus[i] + delta /\ total = given[i] + delta
  BY <1>5
<1>7. /\ bonus' = [bonus EXCEPT ![i] = sum] /\ given' = [given EXCEPT ![i] = total]
      /\ Finish(s) /\ UNCHANGED <<models, checked, mixed>>
  BY <1>1, <1>3, <1>6 DEF AddCredits, Added
<1>8. /\ bonus' \in Seq(Int \cup {NoBonus}) /\ given' \in Seq(Int)
      /\ Len(bonus') = Len(models) /\ Len(given') = Len(models)
      /\ bonus'[i] = sum /\ given'[i] = total
      /\ \A j \in 1 .. Len(models) : j # i => bonus'[j] = bonus[j] /\ given'[j] = given[j]
  BY <1>4, <1>7
<1>9. sum # NoBonus
  BY <1>6, UserModelsAssumption
<1>10. /\ \A j \in 1 .. Len(models) : bonus[j] # NoBonus => bonus'[j] # NoBonus
       /\ models' \in Seq(Model) /\ Len(models) <= Len(models')
  BY <1>4, <1>7, <1>8, <1>9
<1>11. OrdersOK' /\ orders' \in Nat
  BY <1>7, <1>10, OrdersFinish
<1>12. CreditsAddUp'
  BY <1>4, <1>5, <1>6, <1>7, <1>8, <1>9 DEF ModelInv, CreditsAddUp
<1> QED
  BY <1>4, <1>7, <1>8, <1>11, <1>12
     DEF ModelInv, OrdersOK, ModelTypeOK, KindIsOwner, WasChecked

LEMMA ModelStep == ModelInv /\ [ModelNext]_modelVars => ModelInv'
<1> SUFFICES ASSUME ModelInv, [ModelNext]_modelVars PROVE ModelInv'
  OBVIOUS
<1>1. CASE UNCHANGED modelVars
  BY <1>1 DEF modelVars, ModelInv, ModelTypeOK, TriedCreate, TriedUpdate, HasAccount, KindIsOwner,
              WasChecked, CreditsAddUp
<1>2. ASSUME NEW s \in Servants, OrderFails(s) PROVE ModelInv'
  <2>1. /\ Finish(s) /\ UNCHANGED <<models, bonus, checked, mixed, given>>
        /\ models' \in Seq(Model) /\ Len(models) <= Len(models')
    BY <1>2 DEF OrderFails, ModelInv, ModelTypeOK
  <2>2. OrdersOK' /\ orders' \in Nat
    BY <2>1, OrdersFinish
  <2> QED
    BY <2>1, <2>2 DEF ModelInv, OrdersOK, ModelTypeOK, KindIsOwner, WasChecked, CreditsAddUp
<1> QED
  BY <1>1, <1>2, StepCreateModel, StepUpdateModel, StepDeleteModel, StepAdjustCredits,
     StepInsertModel, StepWriteModel, StepRemoveModel, StepCreateBonus, StepAddCredits
     DEF ModelNext

\* The facts that hold of the models of users, with what they rest on.
LEMMA ModelsInvariant == ModelSpec => []ModelInv
BY ModelInitInv, ModelStep, PTL DEF ModelSpec

\* Types: an account and a sum go with every record.
THEOREM ModelTypes == ModelSpec => []ModelTypeOK
<1>1. ModelInv => ModelTypeOK
  BY DEF ModelInv
<1> QED
  BY <1>1, ModelsInvariant, PTL

\* A model is nobody's exactly when it is a platform default, however updates
\* of single columns overlap (UpdateUserModel writes only what it changes).
THEOREM KindKept == ModelSpec => []KindIsOwner
<1>1. ModelInv => KindIsOwner
  BY DEF ModelInv
<1> QED
  BY <1>1, ModelsInvariant, PTL

\* The version and the key of a live model have answered together, unless two
\* updates of them overlapped (CheckConnectivity before the write).
THEOREM SettingsTried == ModelSpec => []WasChecked
<1>1. ModelInv => WasChecked
  BY DEF ModelInv
<1> QED
  BY <1>1, ModelsInvariant, PTL

\* An account holds the sum of the adjustments that were confirmed, for any
\* number of requests that create and change it (UpsertBonusCredits).
THEOREM SumsKept == ModelSpec => []CreditsAddUp
<1>1. ModelInv => CreditsAddUp
  BY DEF ModelInv
<1> QED
  BY <1>1, ModelsInvariant, PTL
-----------------------------------------------------------------------------
(* Bundles.                                                                *)

\* A row that is there has an id.
RowOf == {x \in [id : Nat, def : Defs \cup {Nothing}, live : BOOLEAN] : x.live => x.id # 0}
RecordSet == [res : Resources, id : Nat \ {0}, prev : RowOf]
Handlers ==
  [pc : {"idle", "fetch", "open", "wipe", "apply", "record", "rollback"},
   op : {"none", "again", "clean", "uninstall"}, def : Defs \cup {Nothing}, k : Nat \ {0},
   todo : Seq(RecordSet), new : RecordSet \cup {Idle.new}]

\* The types of the variables.
BundleTypeOK ==
  /\ row \in [Resources -> RowOf] /\ client \in [Servers -> Defs \cup {Nothing}]
  /\ bundle \in {"none", "live", "dead"} /\ list \in Seq(RecordSet)
  /\ h \in [Workers -> Handlers]
  /\ \A w \in Workers : h[w].pc = "record" => h[w].new \in RecordSet

LEMMA ContentTypes ==
  /\ 1 \in 1 .. Len(Content) /\ Len(Content) \in Nat
  /\ \A k \in 1 .. Len(Content) : Content[k] \in Resources
  /\ NoRow \in RowOf /\ Idle \in Handlers
<1>1. /\ 1 \in 1 .. Len(Content) /\ Len(Content) \in Nat
      /\ \A k \in 1 .. Len(Content) : Content[k] \in Resources
  BY BundlesAssumption
<1>2. NoRow \in RowOf
  BY DEF NoRow, RowOf
<1>4. <<>> \in Seq(RecordSet)
  OBVIOUS
<1> QED
  BY <1>1, <1>2, <1>4 DEF Idle, Handlers

LEMMA AppliedType ==
  ASSUME BundleTypeOK, NEW r \in Resources, NEW def \in Defs \cup {Nothing}
  PROVE  /\ Applied(r, def) \in RowOf /\ Applied(r, def).live
         /\ row[r].live => Applied(r, def).id = row[r].id
         /\ RecordOf(r, def) \in RecordSet
<1>1. PICK old \in RowOf : old = row[r]
  BY DEF BundleTypeOK
<1>2. /\ AgentRow(old, def) \in RowOf /\ SkillRow(old, def) \in RowOf /\ ServerRow(old, def) \in RowOf
      /\ AgentRow(old, def).live /\ SkillRow(old, def).live /\ ServerRow(old, def).live
      /\ old.live => \A x \in {AgentRow(old, def), SkillRow(old, def), ServerRow(old, def)} :
                       x.id = old.id
  BY <1>1 DEF AgentRow, SkillRow, ServerRow, RowOf
<1>3. Applied(r, def) \in {AgentRow(old, def), SkillRow(old, def), ServerRow(old, def)}
  BY <1>1, BundlesAssumption DEF Applied, Resources
<1>4. /\ Applied(r, def) \in RowOf /\ Applied(r, def).live
      /\ row[r].live => Applied(r, def).id = row[r].id
  BY <1>1, <1>2, <1>3
<1>5. RecordOf(r, def) \in RecordSet
  BY <1>1, <1>4, ContentTypes DEF RecordOf, RecordSet, RowOf
<1> QED
  BY <1>4, <1>5

LEMMA RestoredType ==
  ASSUME BundleTypeOK, NEW rec \in RecordSet
  PROVE  /\ Restored(rec) \in RowOf /\ Restored(rec).id = row[rec.res].id
         /\ row[rec.res].id = rec.id => /\ Restored(rec).live = rec.prev.live
                                        /\ rec.prev.live => Restored(rec).def = rec.prev.def
<1>1. PICK old \in RowOf : old = row[rec.res]
  BY DEF BundleTypeOK, RecordSet
<1>2. PICK prev \in RowOf : prev = rec.prev
  BY DEF RecordSet
<1>3. rec.id \in Nat \ {0}
  BY DEF RecordSet
<1>4. prev = NoRow => ~prev.live
  BY DEF NoRow
<1> QED
  BY <1>1, <1>2, <1>3, <1>4 DEF Restored, RowOf

LEMMA NextOfType ==
  ASSUME NEW todo \in Seq(RecordSet), todo # <<>>
  PROVE  /\ Len(todo) \in Nat \ {0} /\ NextOf(todo).rec = todo[Len(todo)]
         /\ NextOf(todo).rec \in RecordSet /\ NextOf(todo).rest \in Seq(RecordSet)
         /\ Len(NextOf(todo).rest) = Len(todo) - 1
         /\ \A i \in 1 .. Len(todo) - 1 : NextOf(todo).rest[i] = todo[i]
<1>1. /\ Len(todo) \in Nat \ {0} /\ \A i \in 1 .. Len(todo) : todo[i] \in RecordSet
  OBVIOUS
<1>2. PICK n \in Nat : n = Len(todo) - 1
  BY <1>1
<1>3. /\ 1 \in Int /\ n \in Int /\ \A i \in 1 .. n : todo[i] \in RecordSet
  BY <1>1, <1>2
<1>4. /\ SubSeq(todo, 1, n) \in Seq(RecordSet)
      /\ Len(SubSeq(todo, 1, n)) = IF 1 <= n THEN n - 1 + 1 ELSE 0
      /\ \A i \in 1 .. n - 1 + 1 : SubSeq(todo, 1, n)[i] = todo[1 + i - 1]
  BY <1>3, SubSeqProperties
<1>5. /\ Len(SubSeq(todo, 1, n)) = n
      /\ \A i \in 1 .. n : SubSeq(todo, 1, n)[i] = todo[i]
  BY <1>4
<1> QED
  BY <1>1, <1>2, <1>4, <1>5 DEF NextOf

LEMMA BundleTypeInit == Init => BundleTypeOK
BY ContentTypes DEF Init, BundleTypeOK, Idle

LEMMA HandlerType ==
  ASSUME BundleTypeOK, NEW w \in Workers, NEW x \in Handlers, h' = [h EXCEPT ![w] = x],
         x.pc = "record" => x.new \in RecordSet
  PROVE  /\ h' \in [Workers -> Handlers]
         /\ \A v \in Workers : h'[v].pc = "record" => h'[v].new \in RecordSet
BY DEF BundleTypeOK

LEMMA RollsBackType ==
  ASSUME BundleTypeOK, NEW x \in Handlers, NEW op \in {"again", "clean", "uninstall"}
  PROVE  /\ RollsBack(x, op) \in Handlers /\ RollsBack(x, op).pc = "rollback"
         /\ RollsBack(x, op).todo = list
BY DEF BundleTypeOK, RollsBack, Handlers

\* What a worker does next leaves its handler a handler.
LEMMA GoesType ==
  ASSUME BundleTypeOK, NEW w \in Workers,
         NEW pc \in {"open", "wipe", "apply"}, Goes(w, pc)
  PROVE  /\ h' = [h EXCEPT ![w] = [h[w] EXCEPT !.pc = pc]] /\ [h[w] EXCEPT !.pc = pc] \in Handlers
         /\ h' \in [Workers -> Handlers]
         /\ \A v \in Workers : h'[v].pc = "record" => h'[v].new \in RecordSet
<1>1. h[w] \in Handlers
  BY DEF BundleTypeOK
<1>2. PICK x : x = [h[w] EXCEPT !.pc = pc]
  OBVIOUS
<1>3. x \in Handlers /\ x.pc = pc
  BY <1>1, <1>2 DEF Handlers
<1>4. h' = [h EXCEPT ![w] = x]
  BY <1>2 DEF Goes
<1> QED
  BY <1>2, <1>3, <1>4, HandlerType

LEMMA EndsType ==
  ASSUME BundleTypeOK, NEW w \in Workers, Ends(w)
  PROVE  /\ h' = [h EXCEPT ![w] = Idle] /\ Idle \in Handlers /\ Idle.pc = "idle"
         /\ h' \in [Workers -> Handlers]
         /\ \A v \in Workers : h'[v].pc = "record" => h'[v].new \in RecordSet
<1>1. Idle \in Handlers /\ Idle.pc = "idle"
  BY ContentTypes DEF Idle
<1> QED
  BY <1>1, HandlerType DEF Ends

LEMMA BundleTypeStep == BundleTypeOK /\ [Next]_vars => BundleTypeOK'
<1> SUFFICES ASSUME BundleTypeOK, [Next]_vars PROVE BundleTypeOK'
  OBVIOUS
<1> USE ContentTypes
<1>1. ASSUME NEW w \in Workers, Install(w) PROVE BundleTypeOK'
  <2>1. PICK x : x = [Idle EXCEPT !.pc = "fetch"]
    OBVIOUS
  <2>2. x \in Handlers /\ x.pc = "fetch" /\ h' = [h EXCEPT ![w] = x]
    BY <1>1, <2>1 DEF Install, Begins, Handlers
  <2> QED
    BY <1>1, <2>2, HandlerType DEF Install, BundleTypeOK
<1>2. ASSUME NEW w \in Workers, Uninstall(w) PROVE BundleTypeOK'
  <2>1. PICK x : x = RollsBack(Idle, "uninstall")
    OBVIOUS
  <2>2. x \in Handlers /\ x.pc = "rollback" /\ h' = [h EXCEPT ![w] = x]
    BY <1>2, <2>1, RollsBackType DEF Uninstall, Begins
  <2> QED
    BY <1>2, <2>2, HandlerType DEF Uninstall, BundleTypeOK
<1>3. ASSUME NEW w \in Workers, NEW def \in Defs, Fetch(w, def) PROVE BundleTypeOK'
  <2>1. PICK x : x = [h[w] EXCEPT !.pc = "open", !.def = def]
    OBVIOUS
  <2>2. x \in Handlers /\ x.pc = "open"
    BY <2>1 DEF Handlers, BundleTypeOK
  <2>3. PICK y : y = RollsBack(x, "again")
    OBVIOUS
  <2>4. y \in Handlers /\ y.pc = "rollback"
    BY <2>2, <2>3, RollsBackType
  <2>5. h' = [h EXCEPT ![w] = x] \/ h' = [h EXCEPT ![w] = y]
    BY <1>3, <2>1, <2>3 DEF Fetch
  <2> QED
    BY <1>3, <2>2, <2>4, <2>5, HandlerType DEF Fetch, BundleTypeOK
<1>4. ASSUME NEW w \in Workers, Open(w) PROVE BundleTypeOK'
  <2>1. CASE Ends(w) /\ UNCHANGED <<bundle, list, row, client>>
    BY <2>1, EndsType DEF BundleTypeOK
  <2>2. CASE bundle' = "live" /\ Opens(w) /\ UNCHANGED <<row, client>>
    <3>1. Goes(w, "apply") /\ list' = <<>> /\ list' \in Seq(RecordSet)
      BY <2>2 DEF Opens
    <3> QED
      BY <2>2, <3>1, GoesType DEF BundleTypeOK
  <2>3. CASE bundle' = "live" /\ Goes(w, "wipe") /\ UNCHANGED <<row, client, list>>
    BY <2>3, GoesType DEF BundleTypeOK
  <2> QED
    BY <1>4, <2>1, <2>2, <2>3 DEF Open
<1>5. ASSUME NEW w \in Workers, Wipe(w) PROVE BundleTypeOK'
  <2>1. Goes(w, "apply") /\ list' = <<>> /\ list' \in Seq(RecordSet) /\ UNCHANGED <<row, client, bundle>>
    BY <1>5 DEF Wipe, Opens
  <2> QED
    BY <2>1, GoesType DEF BundleTypeOK
<1>6. ASSUME NEW w \in Workers, Apply(w) PROVE BundleTypeOK'
  <2>1. PICK y : y = h[w]
    OBVIOUS
  <2>2. y \in Handlers /\ y.pc = "apply" /\ y.k <= Len(Content)
    BY <1>6, <2>1 DEF Apply, BundleTypeOK
  <2>3. PICK r, def : r = Content[y.k] /\ def = y.def
    OBVIOUS
  <2>4. y.k \in 1 .. Len(Content) /\ r \in Resources /\ def \in Defs \cup {Nothing}
    BY <2>2, <2>3 DEF Handlers
  <2>5. Files(y.def)[y.k] = [res |-> r, def |-> def]
    BY <2>3, <2>4 DEF Files
  <2>6. PICK new : new = RecordOf(r, def)
    OBVIOUS
  <2>7. PICK x : x = [y EXCEPT !.pc = "record", !.new = new]
    OBVIOUS
  <2>8. x \in Handlers /\ x.pc = "record" /\ x.new \in RecordSet
    BY <2>2, <2>4, <2>6, <2>7, AppliedType DEF Handlers
  <2>9. /\ row' = [row EXCEPT ![r] = Applied(r, def)]
        /\ (r \in Servers /\ client' = [client EXCEPT ![r] = def]) \/ UNCHANGED client
        /\ h' = [h EXCEPT ![w] = x] /\ UNCHANGED <<bundle, list>>
    <3>1. /\ row' = [row EXCEPT ![r] = Applied(r, def)]
          /\ (r \in Servers /\ client' = [client EXCEPT ![r] = def]) \/ UNCHANGED client
          /\ UNCHANGED <<bundle, list>>
      BY <1>6, <2>1, <2>5 DEF Apply
    <3>2. h' = [h EXCEPT ![w].pc = "record", ![w].new = new]
      BY <1>6, <2>1, <2>5, <2>6 DEF Apply
    <3>3. h' = [h EXCEPT ![w] = x]
      BY <3>2, <2>1, <2>7, <2>2 DEF BundleTypeOK
    <3> QED
      BY <3>1, <3>3
  <2>10. row' \in [Resources -> RowOf] /\ client' \in [Servers -> Defs \cup {Nothing}]
    BY <2>4, <2>9, AppliedType DEF BundleTypeOK
  <2> QED
    BY <2>8, <2>9, <2>10, HandlerType DEF BundleTypeOK
<1>7. ASSUME NEW w \in Workers, Record(w) PROVE BundleTypeOK'
  <2>1. PICK y : y = h[w]
    OBVIOUS
  <2>2. y \in Handlers /\ y.new \in RecordSet
    BY <1>7, <2>1 DEF Record, BundleTypeOK
  <2>3. PICK x : x = [y EXCEPT !.pc = "apply", !.k = @ + 1, !.new = Idle.new]
    OBVIOUS
  <2>4. x \in Handlers /\ x.pc = "apply"
    <3>1. y.k + 1 \in Nat \ {0}
      BY <2>2 DEF Handlers
    <3>2. PICK new : new = Idle.new
      OBVIOUS
    <3> QED
      BY <2>2, <2>3, <3>1, <3>2 DEF Handlers
  <2>5. h' = [h EXCEPT ![w] = x] /\ list' = Append(list, y.new) /\ UNCHANGED <<row, client, bundle>>
    BY <1>7, <2>1, <2>3 DEF Record
  <2> QED
    BY <2>2, <2>4, <2>5, HandlerType DEF BundleTypeOK
<1>8. ASSUME NEW w \in Workers, ApplyFails(w) PROVE BundleTypeOK'
  <2>1. PICK y : y = [h[w] EXCEPT !.new = Idle.new]
    OBVIOUS
  <2>2. y \in Handlers
    BY <2>1 DEF Handlers, BundleTypeOK
  <2>3. PICK x : x = RollsBack(y, "clean")
    OBVIOUS
  <2>4. x \in Handlers /\ x.pc = "rollback"
    BY <2>2, <2>3, RollsBackType
  <2>5. h' = [h EXCEPT ![w] = x] /\ UNCHANGED <<row, client, bundle, list>>
    BY <1>8, <2>1, <2>3 DEF ApplyFails
  <2> QED
    BY <2>4, <2>5, HandlerType DEF BundleTypeOK
<1>9. ASSUME NEW w \in Workers, Installed(w) \/ Fails(w) PROVE BundleTypeOK'
  <2>1. Ends(w) /\ UNCHANGED <<row, client, bundle, list>>
    BY <1>9 DEF Installed, Fails
  <2> QED
    BY <2>1, EndsType DEF BundleTypeOK
<1>10. ASSUME NEW w \in Workers, RollbackRow(w) \/ RollbackServer(w) PROVE BundleTypeOK'
  <2>1. PICK y : y = h[w]
    OBVIOUS
  <2>2. y \in Handlers /\ y.pc = "rollback" /\ y.todo \in Seq(RecordSet) /\ y.todo # <<>>
    BY <1>10, <2>1 DEF RollbackRow, RollbackServer, BundleTypeOK, Handlers
  <2>3. PICK rec \in RecordSet, rest \in Seq(RecordSet) : rec = NextOf(y.todo).rec /\ rest = NextOf(y.todo).rest
    BY <2>2, NextOfType
  <2>4. PICK x : x = [y EXCEPT !.todo = rest]
    OBVIOUS
  <2>5. x \in Handlers /\ x.pc = "rollback"
    BY <2>2, <2>3, <2>4 DEF Handlers
  <2>6. rec.res \in Resources /\ rec.prev.def \in Defs \cup {Nothing} /\ Restored(rec) \in RowOf
    BY <2>3, RestoredType DEF RecordSet, RowOf
  <2>7. row' = [row EXCEPT ![rec.res] = Restored(rec)] \/ row' = row
    BY <1>10, <2>1, <2>3 DEF RollbackRow, RollbackServer
  <2>8. \/ UNCHANGED client
        \/ client' = [client EXCEPT ![rec.res] = IF rec.prev.live THEN rec.prev.def ELSE Nothing]
        \/ client' = [client EXCEPT ![rec.res] = Nothing]
    BY <1>10, <2>1, <2>3 DEF RollbackRow, RollbackServer
  <2>9. h' = [h EXCEPT ![w] = x] \/ Ends(w)
    BY <1>10, <2>1, <2>3, <2>4 DEF RollbackRow, RollbackServer
  <2>10. UNCHANGED <<bundle, list>>
    BY <1>10 DEF RollbackRow, RollbackServer
  <2>11. row' \in [Resources -> RowOf] /\ client' \in [Servers -> Defs \cup {Nothing}]
    BY <2>6, <2>7, <2>8 DEF BundleTypeOK
  <2> QED
    BY <2>5, <2>9, <2>10, <2>11, HandlerType, EndsType DEF BundleTypeOK
<1>11. ASSUME NEW w \in Workers, Close(w) PROVE BundleTypeOK'
  <2>1. (Goes(w, "open") \/ Ends(w)) /\ bundle' = "dead" /\ UNCHANGED <<row, client, list>>
    BY <1>11 DEF Close
  <2> QED
    BY <2>1, GoesType, EndsType DEF BundleTypeOK
<1>12. ASSUME NEW r \in Resources, NEW def \in Defs \cup {Nothing},
              EditAgent(r, def) \/ EditSkill(r, def) \/ EditServer(r, def)
       PROVE  BundleTypeOK'
  <2>1. Writes(r, def) /\ (UNCHANGED client \/ client' = [client EXCEPT ![r] = def])
    BY <1>12 DEF EditAgent, EditSkill, EditServer
  <2>2. [row[r] EXCEPT !.live = FALSE] \in RowOf /\ Applied(r, def) \in RowOf
    BY AppliedType DEF BundleTypeOK, RowOf
  <2>3. row' \in [Resources -> RowOf] /\ client' \in [Servers -> Defs \cup {Nothing}]
    BY <2>1, <2>2 DEF Writes, BundleTypeOK
  <2> QED
    BY <2>1, <2>3 DEF Writes, BundleTypeOK
<1>13. CASE Crash
  <2>1. PICK up \in SUBSET {r \in Servers : row[r].live} :
          client' = [r \in Servers |-> IF r \in up THEN row[r].def ELSE Nothing]
    BY <1>13 DEF Crash
  <2>2. client' \in [Servers -> Defs \cup {Nothing}]
    BY <2>1 DEF BundleTypeOK, RowOf, Resources
  <2>3. h' \in [Workers -> Handlers] /\ \A w \in Workers : h'[w].pc = "idle"
    BY <1>13 DEF Crash, Idle
  <2> QED
    BY <1>13, <2>2, <2>3 DEF Crash, BundleTypeOK
<1>14. CASE UNCHANGED vars
  BY <1>14 DEF vars, BundleTypeOK
<1> QED
  BY <1>1, <1>2, <1>3, <1>4, <1>5, <1>6, <1>7, <1>8, <1>9, <1>10, <1>11, <1>12, <1>13, <1>14
     DEF Next, Handle

\* While the list says all that was done (before is known), what it says is
\* true, for every resource and at every step of an install or of a rollback.
Seen(x) == IF x.live THEN x.def ELSE Nothing
OnList(r) == \E i \in 1 .. Len(list) : list[i].res = r
InHand(r) == \E w \in Workers : h[w].pc = "record" /\ h[w].new.res = r
Stopped(r) == r \in Servers /\ ~row[r].live => client[r] = Nothing

\* One handler runs at most.
Sole == \A v, w \in Workers : h[v] # Idle /\ h[w] # Idle => v = w

\* Each record finds its row, and the first of a resource has what was before.
IdsAgree == \A i \in 1 .. Len(list) : list[i].id = row[list[i].res].id
FirstFound ==
  \A i \in 1 .. Len(list) :
    (\A j \in 1 .. Len(list) : j < i => list[j].res # list[i].res)
      => Seen(list[i].prev) = before[list[i].res]

\* What is on no list is as it was.
Untouched == \A r \in Resources : ~OnList(r) /\ ~InHand(r) => Seen(row[r]) = before[r]

\* A handler that writes has the bundle open; a record not yet written is good;
\* while it installs, what is on the list is there; in a rollback, what has no
\* record left is as it was.
OpensFirst(x) == x.pc # "wipe" /\ (x.pc \in {"apply", "record", "rollback"} => bundle = "live")
NewIsGood(x) ==
  x.pc = "record" =>
    /\ x.new.id = row[x.new.res].id /\ row[x.new.res].live
    /\ ~OnList(x.new.res) => Seen(x.new.prev) = before[x.new.res]
ListIsLive(x) ==
  x.pc \in {"apply", "record"} => \A i \in 1 .. Len(list) : row[list[i].res].live
Left(x, r) == \E i \in 1 .. Len(x.todo) : x.todo[i].res = r
Halfway(x) ==
  x.pc = "rollback" =>
    /\ Len(x.todo) <= Len(list) /\ \A i \in 1 .. Len(x.todo) : x.todo[i] = list[i]
    /\ \A r \in Resources : ~Left(x, r) => Seen(row[r]) = before[r] /\ (OnList(r) => Stopped(r))
HandlerIsGood(x) == OpensFirst(x) /\ NewIsGood(x) /\ ListIsLive(x) /\ Halfway(x)

GoneIsRestored ==
  bundle = "dead" => \A r \in Resources : Seen(row[r]) = before[r] /\ (OnList(r) => Stopped(r))

ListIsTrue ==
  before # Unknown =>
    /\ before \in [Resources -> Defs \cup {Nothing}]
    /\ Sole /\ IdsAgree /\ FirstFound /\ Untouched
    /\ \A w \in Workers : HandlerIsGood(h[w])
    /\ GoneIsRestored

LEMMA ListResources ==
  ASSUME BundleTypeOK
  PROVE  /\ Len(list) \in Nat
         /\ \A i \in 1 .. Len(list) : list[i] \in RecordSet /\ list[i].res \in Resources
<1>1. \A x \in RecordSet : x.res \in Resources
  BY DEF RecordSet
<1> QED
  BY <1>1 DEF BundleTypeOK

\* A handler that runs is the only one.
LEMMA OnlyOne ==
  ASSUME BundleTypeOK, Sole, NEW w \in Workers, h[w].pc # "idle"
  PROVE  \A v \in Workers \ {w} : h[v] = Idle
BY DEF Sole, Idle

LEMMA OneMoves ==
  ASSUME BundleTypeOK, NEW w \in Workers, NEW x, h' = [h EXCEPT ![w] = x],
         \A v \in Workers \ {w} : h[v] = Idle
  PROVE  /\ Sole' /\ h'[w] = x /\ \A v \in Workers \ {w} : h'[v] = Idle
         /\ \A r : InHand(r)' <=> x.pc = "record" /\ x.new.res = r
         /\ \A r : InHand(r) <=> h[w].pc = "record" /\ h[w].new.res = r
BY DEF BundleTypeOK, Sole, InHand, Idle

LEMMA IdleIsGood == HandlerIsGood(Idle)
BY DEF Idle, HandlerIsGood, OpensFirst, NewIsGood, ListIsLive, Halfway

\* A step that changes nothing but the handler, and begins nothing or a rollback.
LEMMA HandlerMoves ==
  ASSUME BundleTypeOK, ListIsTrue, before # Unknown,
         UNCHANGED <<row, client, bundle, list, before>>,
         NEW w \in Workers, NEW x, h' = [h EXCEPT ![w] = x], h[w].pc # "record",
         \A v \in Workers \ {w} : h[v] = Idle,
         \/ x.pc \in {"idle", "fetch", "open"}
         \/ x.pc = "rollback" /\ x.todo = list /\ bundle = "live"
  PROVE  ListIsTrue'
<1>1. /\ Sole' /\ h'[w] = x /\ \A v \in Workers \ {w} : h'[v] = Idle
      /\ \A r : ~InHand(r)' /\ ~InHand(r)
  BY OneMoves
<1>2. \A r : OnList(r)' = OnList(r)
  BY DEF OnList
<1>3. IdsAgree' /\ FirstFound' /\ Untouched' /\ GoneIsRestored'
  BY <1>1, <1>2 DEF ListIsTrue, IdsAgree, FirstFound, Untouched, GoneIsRestored, Stopped
<1>4. HandlerIsGood(x)'
  <2>1. CASE x.pc \in {"idle", "fetch", "open"}
    BY <2>1 DEF HandlerIsGood, OpensFirst, NewIsGood, ListIsLive, Halfway
  <2>2. CASE x.pc = "rollback" /\ x.todo = list /\ bundle = "live"
    <3>1. \A r \in Resources : ~OnList(r) => Seen(row[r]) = before[r]
      BY <1>1 DEF ListIsTrue, Untouched
    <3>2. Halfway(x)'
      BY <2>2, <3>1, ListResources DEF Halfway, Left, OnList
    <3> QED
      BY <2>2, <3>2 DEF HandlerIsGood, OpensFirst, NewIsGood, ListIsLive
  <2> QED
    BY <2>1, <2>2
<1>5. HandlerIsGood(Idle)'
  BY DEF Idle, HandlerIsGood, OpensFirst, NewIsGood, ListIsLive, Halfway
<1>6. \A v \in Workers : HandlerIsGood(h[v])'
  <2> SUFFICES ASSUME NEW v \in Workers PROVE HandlerIsGood(h[v])'
    OBVIOUS
  <2>1. CASE v = w
    BY <1>1, <1>4, <2>1 DEF HandlerIsGood, OpensFirst, NewIsGood, ListIsLive, Halfway, Left
  <2>2. CASE v # w
    BY <1>1, <1>5, <2>2 DEF HandlerIsGood, OpensFirst, NewIsGood, ListIsLive, Halfway, Left
  <2> QED
    BY <2>1, <2>2
<1> QED
  BY <1>1, <1>3, <1>6 DEF ListIsTrue

\* One handler moves and the others are idle: what is to be shown of it.
LEMMA ListStaysTrue ==
  ASSUME BundleTypeOK, NEW w \in Workers, NEW x, h' = [h EXCEPT ![w] = x],
         \A v \in Workers \ {w} : h[v] = Idle,
         before' \in [Resources -> Defs \cup {Nothing}],
         IdsAgree', FirstFound', Untouched', HandlerIsGood(x)', GoneIsRestored'
  PROVE  ListIsTrue'
<1>1. /\ Sole' /\ h'[w] = x /\ \A v \in Workers \ {w} : h'[v] = Idle
  BY OneMoves
<1>2. HandlerIsGood(Idle)'
  BY DEF Idle, HandlerIsGood, OpensFirst, NewIsGood, ListIsLive, Halfway
<1>3. \A v \in Workers : HandlerIsGood(h[v])'
  <2> SUFFICES ASSUME NEW v \in Workers PROVE HandlerIsGood(h[v])'
    OBVIOUS
  <2>1. CASE v = w
    BY <1>1, <2>1 DEF HandlerIsGood, OpensFirst, NewIsGood, ListIsLive, Halfway, Left
  <2>2. CASE v # w
    BY <1>1, <1>2, <2>2 DEF HandlerIsGood, OpensFirst, NewIsGood, ListIsLive, Halfway, Left
  <2> QED
    BY <2>1, <2>2
<1> QED
  BY <1>1, <1>3 DEF ListIsTrue

\* The list is opened.
LEMMA OpensIsTrue ==
  ASSUME BundleTypeOK, NEW w \in Workers, Opens(w), UNCHANGED <<row, client>>
  PROVE  ListIsTrue'
<1> SUFFICES ASSUME before' # Unknown PROVE ListIsTrue'
  BY DEF ListIsTrue
<1>1. Alone(w) /\ bundle' = "live" /\ before' = Look /\ list' = <<>>
  BY DEF Opens
<1>2. PICK x : x = [h[w] EXCEPT !.pc = "apply"]
  OBVIOUS
<1>3. x.pc = "apply" /\ h' = [h EXCEPT ![w] = x]
  BY <1>2, GoesType DEF Opens, BundleTypeOK, Goes, Handlers
<1>4. before' \in [Resources -> Defs \cup {Nothing}] /\ \A r \in Resources : before'[r] = Seen(row[r])
  BY <1>1 DEF Look, Seen, BundleTypeOK, RowOf
<1>5. Len(list') = 0 /\ \A r : ~OnList(r)'
  BY <1>1 DEF OnList
<1>6. IdsAgree' /\ FirstFound' /\ Untouched' /\ GoneIsRestored'
  BY <1>1, <1>4, <1>5 DEF IdsAgree, FirstFound, Untouched, GoneIsRestored
<1>7. HandlerIsGood(x)'
  BY <1>1, <1>3, <1>5 DEF HandlerIsGood, OpensFirst, NewIsGood, ListIsLive, Halfway
<1> QED
  BY <1>1, <1>3, <1>4, <1>6, <1>7, ListStaysTrue DEF Alone

\* A resource is written.
LEMMA ApplyIsTrue ==
  ASSUME BundleTypeOK, ListIsTrue, before # Unknown, NEW w \in Workers, Apply(w)
  PROVE  ListIsTrue'
<1>1. PICK y : y = h[w]
  OBVIOUS
<1>2. /\ y \in Handlers /\ y.pc = "apply" /\ y.k <= Len(Content)
      /\ \A v \in Workers \ {w} : h[v] = Idle
  BY <1>1, OnlyOne DEF Apply, BundleTypeOK, ListIsTrue
<1>3. PICK r, def : r = Content[y.k] /\ def = y.def
  OBVIOUS
<1>4. y.k \in 1 .. Len(Content) /\ r \in Resources /\ def \in Defs \cup {Nothing}
  BY <1>2, <1>3, ContentTypes DEF Handlers
<1>5. Files(y.def)[y.k] = [res |-> r, def |-> def]
  BY <1>3, <1>4 DEF Files
<1>6. PICK new : new = RecordOf(r, def)
  OBVIOUS
<1>7. PICK x : x = [y EXCEPT !.pc = "record", !.new = new]
  OBVIOUS
<1>8. x \in Handlers /\ x.pc = "record" /\ x.new = new
  BY <1>2, <1>4, <1>6, <1>7, AppliedType DEF Handlers
<1>9. /\ row' = [row EXCEPT ![r] = Applied(r, def)] /\ UNCHANGED <<bundle, list, before>>
      /\ h' = [h EXCEPT ![w].pc = "record", ![w].new = new]
  BY <1>1, <1>5, <1>6 DEF Apply
<1>10. h' = [h EXCEPT ![w] = x]
  BY <1>1, <1>2, <1>7, <1>9 DEF BundleTypeOK
<1>11. /\ new.res = r /\ new.id = Applied(r, def).id
       /\ Seen(new.prev) = Seen(row[r])
  BY <1>6 DEF RecordOf, Seen, NoRow
<1>12. PICK now \in RowOf : now = Applied(r, def)
  BY <1>4, AppliedType
<1>13. now.live /\ (row[r].live => now.id = row[r].id)
  BY <1>4, <1>12, AppliedType
<1>14. row'[r] = now /\ \A q \in Resources : q # r => row'[q] = row[q]
  BY <1>4, <1>9, <1>12 DEF BundleTypeOK
<1>15. /\ HandlerIsGood(y) /\ IdsAgree /\ FirstFound /\ Untouched /\ bundle = "live"
       /\ before \in [Resources -> Defs \cup {Nothing}]
  BY <1>1, <1>2 DEF ListIsTrue, HandlerIsGood, OpensFirst
<1>16. \A i \in 1 .. Len(list) : row[list[i].res].live /\ row'[list[i].res].live
                                   /\ row'[list[i].res].id = row[list[i].res].id
  BY <1>2, <1>13, <1>14, <1>15, ListResources DEF HandlerIsGood, ListIsLive
<1>17. \A q : /\ OnList(q)' <=> OnList(q)
              /\ InHand(q)' <=> q = r
              /\ ~InHand(q)
  <2>1. \A q : OnList(q)' <=> OnList(q)
    BY <1>9 DEF OnList
  <2>2. /\ \A q : InHand(q)' <=> x.pc = "record" /\ x.new.res = q
        /\ \A q : InHand(q) <=> h[w].pc = "record" /\ h[w].new.res = q
    BY <1>2, <1>10, OneMoves
  <2>3. h[w].pc # "record" /\ x.new.res = r
    BY <1>1, <1>2, <1>8, <1>11
  <2> QED
    BY <1>8, <2>1, <2>2, <2>3
<1>18. IdsAgree' /\ FirstFound'
  BY <1>9, <1>15, <1>16 DEF IdsAgree, FirstFound
<1>19. Untouched' /\ GoneIsRestored'
  <2>1. ASSUME NEW q \in Resources, ~OnList(q)', ~InHand(q)' PROVE Seen(row'[q]) = before'[q]
    <3>1. q # r /\ ~OnList(q) /\ ~InHand(q)
      BY <1>17, <2>1
    <3> QED
      BY <3>1, <1>9, <1>14, <1>15 DEF Untouched
  <2> QED
    BY <2>1, <1>9, <1>15 DEF Untouched, GoneIsRestored, Seen
<1>20. NewIsGood(x)'
  BY <1>4, <1>8, <1>9, <1>11, <1>12, <1>13, <1>14, <1>15, <1>17 DEF NewIsGood, Untouched
<1>21. HandlerIsGood(x)'
  BY <1>8, <1>9, <1>15, <1>16, <1>20 DEF HandlerIsGood, OpensFirst, ListIsLive, Halfway
<1> QED
  BY <1>2, <1>9, <1>10, <1>15, <1>18, <1>19, <1>21, ListStaysTrue

\* What was written is recorded.
LEMMA RecordIsTrue ==
  ASSUME BundleTypeOK, ListIsTrue, before # Unknown, NEW w \in Workers, Record(w)
  PROVE  ListIsTrue'
<1>1. PICK y : y = h[w]
  OBVIOUS
<1>2. /\ y \in Handlers /\ y.pc = "record" /\ y.new \in RecordSet
      /\ \A v \in Workers \ {w} : h[v] = Idle
  BY <1>1, OnlyOne DEF Record, BundleTypeOK, ListIsTrue
<1>3. PICK new \in RecordSet : new = y.new
  BY <1>2
<1>4. PICK x : x = [y EXCEPT !.pc = "apply", !.k = @ + 1, !.new = Idle.new]
  OBVIOUS
<1>5. x.pc = "apply"
  BY <1>2, <1>4 DEF Handlers
<1>6. /\ h' = [h EXCEPT ![w] = x] /\ UNCHANGED <<row, client, bundle, before>>
      /\ list' = Append(list, new)
  BY <1>1, <1>3, <1>4 DEF Record
<1>7. PICK n \in Nat : n = Len(list)
  BY ListResources
<1>8. /\ Len(list') = n + 1 /\ list'[n + 1] = new
      /\ \A i \in 1 .. n : list'[i] = list[i] /\ list[i] \in RecordSet
  BY <1>3, <1>6, <1>7 DEF BundleTypeOK
<1>9. /\ HandlerIsGood(y) /\ IdsAgree /\ FirstFound /\ Untouched /\ bundle = "live"
      /\ before \in [Resources -> Defs \cup {Nothing}]
  BY <1>1, <1>2 DEF ListIsTrue, HandlerIsGood, OpensFirst
<1>10. /\ new.id = row[new.res].id /\ row[new.res].live
       /\ ~OnList(new.res) => Seen(new.prev) = before[new.res]
       /\ \A i \in 1 .. n : row[list[i].res].live
  BY <1>2, <1>3, <1>7, <1>9 DEF HandlerIsGood, NewIsGood, ListIsLive
<1>11. \A q : OnList(q)' <=> OnList(q) \/ q = new.res
  BY <1>7, <1>8 DEF OnList
<1>12. \A q : /\ InHand(q) <=> q = new.res
              /\ ~InHand(q)'
  BY <1>1, <1>2, <1>3, <1>5, <1>6, OneMoves
<1>13. IdsAgree'
  BY <1>6, <1>7, <1>8, <1>9, <1>10 DEF IdsAgree
<1>14. FirstFound'
  <2> SUFFICES ASSUME NEW i \in 1 .. n + 1,
                      \A j \in 1 .. n + 1 : j < i => list'[j].res # list'[i].res
               PROVE  Seen(list'[i].prev) = before[list'[i].res]
    BY <1>6, <1>8 DEF FirstFound, Seen
  <2>1. CASE i \in 1 .. n
    <3>1. \A j \in 1 .. n : j < i => list[j].res # list[i].res
      BY <1>8, <2>1
    <3> QED
      BY <1>7, <1>8, <1>9, <2>1, <3>1 DEF FirstFound
  <2>2. CASE i = n + 1
    <3>1. \A j \in 1 .. n : list[j].res # new.res
      BY <1>8, <2>2
    <3> QED
      BY <1>7, <1>8, <1>10, <2>2, <3>1 DEF OnList
  <2> QED
    BY <2>1, <2>2
<1>15. Untouched' /\ GoneIsRestored'
  BY <1>6, <1>9, <1>11, <1>12 DEF Untouched, GoneIsRestored, Seen
<1>16. ListIsLive(x)'
  BY <1>6, <1>7, <1>8, <1>10 DEF ListIsLive
<1>17. HandlerIsGood(x)'
  BY <1>5, <1>6, <1>9, <1>16 DEF HandlerIsGood, OpensFirst, NewIsGood, Halfway
<1> QED
  BY <1>2, <1>6, <1>9, <1>13, <1>14, <1>15, <1>17, ListStaysTrue

\* A record is rolled back, or half of it and the request fails.
LEMMA RollbackIsTrue ==
  ASSUME BundleTypeOK, ListIsTrue, before # Unknown, NEW w \in Workers,
         RollbackRow(w) \/ RollbackServer(w)
  PROVE  ListIsTrue'
<1>1. PICK y : y = h[w]
  OBVIOUS
<1>2. /\ y \in Handlers /\ y.pc = "rollback" /\ y.todo \in Seq(RecordSet) /\ y.todo # <<>>
      /\ \A v \in Workers \ {w} : h[v] = Idle
  BY <1>1, OnlyOne DEF RollbackRow, RollbackServer, BundleTypeOK, Handlers, ListIsTrue
<1>3. PICK rec \in RecordSet, rest \in Seq(RecordSet), n \in Nat \ {0} :
        /\ rec = NextOf(y.todo).rec /\ rest = NextOf(y.todo).rest /\ n = Len(y.todo)
        /\ rec = y.todo[n] /\ Len(rest) = n - 1
        /\ \A i \in 1 .. n - 1 : rest[i] = y.todo[i]
  <2>1. PICK a, b, n : a = NextOf(y.todo).rec /\ b = NextOf(y.todo).rest /\ n = Len(y.todo)
    OBVIOUS
  <2>2. /\ n \in Nat \ {0} /\ a = y.todo[n] /\ a \in RecordSet /\ b \in Seq(RecordSet)
        /\ Len(b) = n - 1 /\ \A i \in 1 .. n - 1 : b[i] = y.todo[i]
    BY <1>2, <2>1, NextOfType
  <2> QED
    BY <2>1, <2>2
<1>4. PICK r \in Resources : r = rec.res
  BY <1>3 DEF RecordSet
<1>5. /\ HandlerIsGood(y) /\ IdsAgree /\ FirstFound /\ Untouched /\ bundle = "live"
      /\ before \in [Resources -> Defs \cup {Nothing}]
  BY <1>1, <1>2 DEF ListIsTrue, HandlerIsGood, OpensFirst
<1>6. /\ n \in 1 .. Len(list) /\ rec = list[n] /\ \A i \in 1 .. n : y.todo[i] = list[i]
      /\ \A q \in Resources : ~Left(y, q) => Seen(row[q]) = before[q] /\ (OnList(q) => Stopped(q))
  BY <1>2, <1>3, <1>5, ListResources DEF HandlerIsGood, Halfway
<1>7. row[r].id = rec.id
  BY <1>4, <1>5, <1>6 DEF IdsAgree
<1>8. PICK now \in RowOf : now = Restored(rec)
  BY <1>3, RestoredType
<1>9. now.id = row[r].id /\ now.live = rec.prev.live /\ (now.live => now.def = rec.prev.def)
  BY <1>3, <1>4, <1>7, <1>8, RestoredType
<1>10. Seen(now) = Seen(rec.prev)
  BY <1>9 DEF Seen
<1>11. /\ row' = [row EXCEPT ![r] = now] \/ row' = row
       /\ UNCHANGED <<bundle, list, before>>
  BY <1>1, <1>3, <1>4, <1>8 DEF RollbackRow, RollbackServer
<1>12. \A q \in Resources : /\ row'[q].id = row[q].id
                            /\ q # r => row'[q] = row[q] /\ (q \in Servers => client'[q] = client[q])
  <2>1. \A q \in Resources : q # r /\ q \in Servers => client'[q] = client[q]
    <3>1. client' = client \/ \E d : client' = [client EXCEPT ![r] = d]
      BY <1>1, <1>3, <1>4 DEF RollbackRow, RollbackServer
    <3>2. CASE \E d : client' = [client EXCEPT ![r] = d]
      BY <3>2 DEF BundleTypeOK
    <3> QED
      BY <3>1, <3>2
  <2> QED
    BY <1>9, <1>11, <2>1 DEF BundleTypeOK
<1>13. IdsAgree' /\ FirstFound' /\ GoneIsRestored'
  <2>1. IdsAgree'
    BY <1>5, <1>11, <1>12, ListResources DEF IdsAgree
  <2>2. FirstFound' /\ GoneIsRestored'
    BY <1>5, <1>11 DEF FirstFound, GoneIsRestored, Seen
  <2> QED
    BY <2>1, <2>2
<1>14. \A q : OnList(q)' <=> OnList(q)
  BY <1>11 DEF OnList
<1>15. OnList(r)
  BY <1>4, <1>6 DEF OnList
<1>16. PICK x : x = [y EXCEPT !.todo = rest]
  OBVIOUS
<1>17. /\ x.pc = "rollback" /\ x.todo = rest
       /\ Idle.pc = "idle"
  BY <1>2, <1>16 DEF Handlers, Idle
<1>18. ASSUME NEW z, z \in {x, Idle}, h' = [h EXCEPT ![w] = z] PROVE Untouched'
  <2>1. \A q : ~InHand(q) /\ ~InHand(q)'
    BY <1>1, <1>2, <1>17, <1>18, OneMoves
  <2>2. \A q \in Resources : ~OnList(q) => Seen(row'[q]) = before[q]
    <3> SUFFICES ASSUME NEW q \in Resources, ~OnList(q) PROVE Seen(row'[q]) = before[q]
      OBVIOUS
    <3>1. q # r
      BY <1>15
    <3>2. Seen(row[q]) = before[q]
      BY <1>5, <2>1 DEF Untouched
    <3> QED
      BY <1>12, <3>1, <3>2
  <2> QED
    BY <1>11, <1>14, <2>2 DEF Untouched, Seen
<1>19. CASE h' = [h EXCEPT ![w] = Idle]
  <2>1. HandlerIsGood(Idle)'
    BY DEF Idle, HandlerIsGood, OpensFirst, NewIsGood, ListIsLive, Halfway
  <2> QED
    BY <1>2, <1>5, <1>11, <1>13, <1>18, <1>19, <2>1, ListStaysTrue
<1>20. CASE h' = [h EXCEPT ![w] = x] /\ ~(h' = [h EXCEPT ![w] = Idle])
  <2>1. /\ row' = [row EXCEPT ![r] = now]
        /\ r \in Servers => client' = [client EXCEPT ![r] = IF rec.prev.live THEN rec.prev.def ELSE Nothing]
    BY <1>1, <1>3, <1>4, <1>8, <1>20 DEF RollbackRow, RollbackServer, Ends
  <2>2. row'[r] = now /\ Stopped(r)'
    BY <1>9, <2>1 DEF BundleTypeOK, Stopped
  <2>3. ASSUME ~Left(x, r) PROVE Seen(row'[r]) = before[r]
    <3>1. \A j \in 1 .. Len(list) : j < n => list[j].res # list[n].res
      <4> SUFFICES ASSUME NEW j \in 1 .. Len(list), j < n PROVE list[j].res # list[n].res
        OBVIOUS
      <4>1. Len(list) \in Nat /\ Len(rest) = n - 1 /\ j \in 1 .. n - 1 /\ j \in 1 .. Len(rest)
        <5>1. Len(list) \in Nat
          BY ListResources
        <5>2. Len(rest) = n - 1
          BY <1>3
        <5> QED
          BY ONLY <5>1, <5>2, n \in Nat \ {0}, j \in 1 .. Len(list), j < n
      <4>2. rest[j] = list[j]
        <5>1. rest[j] = y.todo[j]
          BY <1>3, <4>1
        <5>2. j \in 1 .. n
          BY ONLY <4>1, n \in Nat \ {0}
        <5> QED
          BY <1>6, <5>1, <5>2
      <4>3. \A i \in 1 .. Len(rest) : rest[i].res # r
        BY <1>17, <2>3 DEF Left
      <4>4. list[n].res = r
        BY <1>4, <1>6
      <4> QED
        BY <4>1, <4>2, <4>3, <4>4
    <3> QED
      BY <1>4, <1>5, <1>6, <1>10, <2>2, <3>1 DEF FirstFound
  <2>4. ASSUME NEW q \in Resources, q # r, ~Left(x, q)
        PROVE  Seen(row'[q]) = before[q] /\ (OnList(q) => Stopped(q)')
    <3>1. ~Left(y, q)
      BY <1>3, <1>4, <1>17, <2>4 DEF Left
    <3> QED
      <4>1. Seen(row[q]) = before[q] /\ (OnList(q) => Stopped(q))
        BY <1>6, <2>4, <3>1
      <4>2. row'[q] = row[q] /\ (q \in Servers => client'[q] = client[q])
        BY <1>12, <2>4
      <4>3. Stopped(q)' <=> Stopped(q)
        BY <4>2 DEF Stopped
      <4> QED
        BY <4>1, <4>2, <4>3
  <2>5. Halfway(x)'
    <3>1. Len(x.todo) <= Len(list) /\ \A i \in 1 .. Len(x.todo) : x.todo[i] = list[i]
      BY <1>3, <1>6, <1>17, ListResources
    <3> QED
      BY <1>11, <1>14, <2>2, <2>3, <2>4, <3>1 DEF Halfway, Seen, Left
  <2>6. HandlerIsGood(x)'
    BY <1>5, <1>11, <1>17, <2>5 DEF HandlerIsGood, OpensFirst, NewIsGood, ListIsLive
  <2> QED
    BY <1>2, <1>5, <1>11, <1>13, <1>18, <1>20, <2>6, ListStaysTrue
<1> QED
  <2>1. h' = [h EXCEPT ![w] = x] \/ h' = [h EXCEPT ![w] = Idle]
    BY <1>1, <1>3, <1>16 DEF RollbackRow, RollbackServer, Ends
  <2> QED
    BY <1>19, <1>20, <2>1

\* All is rolled back: the bundle is gone.
LEMMA CloseIsTrue ==
  ASSUME BundleTypeOK, ListIsTrue, before # Unknown, NEW w \in Workers, Close(w)
  PROVE  ListIsTrue'
<1>1. PICK y : y = h[w]
  OBVIOUS
<1>2. /\ y \in Handlers /\ y.pc = "rollback" /\ y.todo = <<>>
      /\ \A v \in Workers \ {w} : h[v] = Idle
  BY <1>1, OnlyOne DEF Close, BundleTypeOK, ListIsTrue
<1>3. /\ HandlerIsGood(y) /\ IdsAgree /\ FirstFound /\ Untouched
      /\ before \in [Resources -> Defs \cup {Nothing}]
  BY <1>1 DEF ListIsTrue
<1>4. PICK z : z = [y EXCEPT !.pc = "open"]
  OBVIOUS
<1>5. PICK x \in {z, Idle} : h' = [h EXCEPT ![w] = x]
  BY <1>1, <1>4 DEF Close, Goes, Ends, BundleTypeOK
<1>6. x.pc \in {"open", "idle"}
  BY <1>2, <1>4 DEF Handlers, Idle
<1>7. UNCHANGED <<row, client, list, before>> /\ bundle' = "dead"
  BY DEF Close
<1>8. \A r : ~InHand(r) /\ ~InHand(r)'
  BY <1>1, <1>2, <1>5, <1>6, OneMoves
<1>9. \A r : OnList(r)' <=> OnList(r)
  BY <1>7 DEF OnList
<1>10. \A r \in Resources : Seen(row[r]) = before[r] /\ (OnList(r) => Stopped(r))
  <2>1. \A r : ~Left(y, r)
    BY <1>2 DEF Left
  <2> QED
    BY <1>2, <1>3, <2>1 DEF HandlerIsGood, Halfway
<1>11. IdsAgree' /\ FirstFound' /\ Untouched'
  BY <1>3, <1>7, <1>8, <1>9 DEF IdsAgree, FirstFound, Untouched, Seen
<1>12. GoneIsRestored'
  BY <1>7, <1>9, <1>10 DEF GoneIsRestored, Stopped, Seen
<1>13. HandlerIsGood(x)'
  BY <1>6 DEF HandlerIsGood, OpensFirst, NewIsGood, ListIsLive, Halfway
<1> QED
  BY <1>2, <1>3, <1>5, <1>7, <1>11, <1>12, <1>13, ListStaysTrue

\* The process stops and comes back.
LEMMA CrashIsTrue ==
  ASSUME BundleTypeOK, ListIsTrue, before # Unknown, before' = before, Crash
  PROVE  ListIsTrue'
<1>1. /\ h' = [v \in Workers |-> Idle] /\ UNCHANGED <<row, bundle, list, before>>
      /\ \A w \in Workers : h[w].pc # "record"
  BY DEF Crash
<1>2. \A r \in Servers : ~row[r].live => client'[r] = Nothing
  BY DEF Crash
<1>3. \A w \in Workers : h'[w] = Idle
  BY <1>1
<1>4. \A r : OnList(r)' <=> OnList(r)
  BY <1>1 DEF OnList
<1>5. \A r : ~InHand(r) /\ ~InHand(r)'
  BY <1>1, <1>3 DEF InHand, Idle
<1>6. IdsAgree' /\ FirstFound' /\ Untouched'
  BY <1>1, <1>4, <1>5 DEF ListIsTrue, IdsAgree, FirstFound, Untouched, Seen
<1>7. GoneIsRestored'
  <2>1. \A r \in Resources : Stopped(r)'
    BY <1>1, <1>2 DEF Stopped
  <2> QED
    BY <1>1, <2>1 DEF ListIsTrue, GoneIsRestored, Seen
<1>8. HandlerIsGood(Idle)'
  BY DEF Idle, HandlerIsGood, OpensFirst, NewIsGood, ListIsLive, Halfway
<1>9. \A w \in Workers : HandlerIsGood(h[w])'
  BY <1>3, <1>8 DEF HandlerIsGood, OpensFirst, NewIsGood, ListIsLive, Halfway, Left
<1> QED
  BY <1>1, <1>3, <1>6, <1>7, <1>9 DEF ListIsTrue, Sole

LEMMA ListInit == Init => ListIsTrue
BY DEF Init, ListIsTrue

LEMMA ListStep == BundleTypeOK /\ ListIsTrue /\ [Next]_vars => ListIsTrue'
<1> SUFFICES ASSUME BundleTypeOK, ListIsTrue, [Next]_vars, before' # Unknown PROVE ListIsTrue'
  BY DEF ListIsTrue
<1>1. ASSUME NEW w \in Workers, NEW x, Begins(w, x), UNCHANGED <<row, client, bundle, list>>,
             \/ x.pc = "fetch"
             \/ x.pc = "rollback" /\ x.todo = list /\ bundle = "live"
      PROVE  ListIsTrue'
  <2>1. /\ before' = before /\ before # Unknown /\ \A v \in Workers : h[v] = Idle
        /\ h' = [h EXCEPT ![w] = x]
    BY <1>1 DEF Begins
  <2> QED
    <3>1. /\ h[w].pc # "record" /\ \A v \in Workers \ {w} : h[v] = Idle
          /\ UNCHANGED <<row, client, bundle, list, before>>
      BY <1>1, <2>1 DEF Idle
    <3>2. \/ x.pc \in {"idle", "fetch", "open"}
          \/ x.pc = "rollback" /\ x.todo = list /\ bundle = "live"
      BY <1>1
    <3> QED
      BY <2>1, <3>1, <3>2, HandlerMoves
<1>2. ASSUME NEW w \in Workers, Install(w) PROVE ListIsTrue'
  <2>1. PICK x : x = [Idle EXCEPT !.pc = "fetch"]
    OBVIOUS
  <2>2. x.pc = "fetch"
    BY <2>1 DEF Idle
  <2> QED
    <3>1. Begins(w, x) /\ UNCHANGED <<row, client, bundle, list>>
      BY <1>2, <2>1 DEF Install
    <3> QED
      BY <1>1, <2>2, <3>1
<1>3. ASSUME NEW w \in Workers, Uninstall(w) PROVE ListIsTrue'
  <2>1. PICK x : x = RollsBack(Idle, "uninstall")
    OBVIOUS
  <2>2. x.pc = "rollback" /\ x.todo = list
    BY <2>1, RollsBackType, ContentTypes
  <2> QED
    BY <1>1, <1>3, <2>1, <2>2 DEF Uninstall
<1>4. ASSUME NEW w \in Workers, h[w].pc \notin {"idle", "record"}, NEW x, h' = [h EXCEPT ![w] = x],
             UNCHANGED <<row, client, bundle, list, before>>,
             \/ x.pc \in {"idle", "fetch", "open"}
             \/ x.pc = "rollback" /\ x.todo = list /\ bundle = "live"
      PROVE  ListIsTrue'
  <2>1. before # Unknown
    BY <1>4
  <2>2. \A v \in Workers \ {w} : h[v] = Idle
    BY <1>4, <2>1, OnlyOne DEF ListIsTrue
  <2> QED
    BY <1>4, <2>1, <2>2, HandlerMoves
<1>5. ASSUME NEW w \in Workers, NEW def \in Defs, Fetch(w, def) PROVE ListIsTrue'
  <2>1. PICK x : x = [h[w] EXCEPT !.pc = "open", !.def = def]
    OBVIOUS
  <2>2. x \in Handlers /\ x.pc = "open"
    BY <2>1 DEF Handlers, BundleTypeOK
  <2>3. PICK y : y = RollsBack(x, "again")
    OBVIOUS
  <2>4. y.pc = "rollback" /\ y.todo = list
    BY <2>2, <2>3, RollsBackType
  <2>5. \/ h' = [h EXCEPT ![w] = x]
        \/ h' = [h EXCEPT ![w] = y] /\ bundle = "live"
    BY <1>5, <2>1, <2>3 DEF Fetch
  <2> QED
    BY <1>4, <1>5, <2>2, <2>4, <2>5 DEF Fetch
<1>6. ASSUME NEW w \in Workers, Ends(w), UNCHANGED <<row, client, bundle, list, before>>,
             h[w].pc \notin {"idle", "record"}
      PROVE  ListIsTrue'
  <2>1. Idle.pc = "idle"
    BY DEF Idle
  <2> QED
    BY <1>4, <1>6, <2>1 DEF Ends
<1>7. ASSUME NEW w \in Workers, Open(w) PROVE ListIsTrue'
  <2>1. CASE Opens(w) /\ UNCHANGED <<row, client>>
    BY <2>1, OpensIsTrue
  <2>2. CASE before' = Unknown
    BY <2>2
  <2>3. CASE Ends(w) /\ UNCHANGED <<row, client, bundle, list, before>>
    BY <1>6, <1>7, <2>3 DEF Open
  <2> QED
    BY <1>7, <2>1, <2>2, <2>3 DEF Open
<1>8. ASSUME NEW w \in Workers, Wipe(w) PROVE ListIsTrue'
  BY <1>8, OpensIsTrue DEF Wipe
<1>9. ASSUME NEW w \in Workers, Apply(w) PROVE ListIsTrue'
  <2>1. before' = before
    BY <1>9 DEF Apply
  <2> QED
    BY <1>9, <2>1, ApplyIsTrue
<1>10. ASSUME NEW w \in Workers, Record(w) PROVE ListIsTrue'
  <2>1. before' = before
    BY <1>10 DEF Record
  <2> QED
    BY <1>10, <2>1, RecordIsTrue
<1>11. ASSUME NEW w \in Workers, ApplyFails(w) PROVE ListIsTrue'
  <2>1. PICK y : y = [h[w] EXCEPT !.new = Idle.new]
    OBVIOUS
  <2>2. y \in Handlers
    BY <2>1 DEF Handlers, BundleTypeOK
  <2>3. PICK x : x = RollsBack(y, "clean")
    OBVIOUS
  <2>4. x.pc = "rollback" /\ x.todo = list
    BY <2>2, <2>3, RollsBackType
  <2>5. /\ h' = [h EXCEPT ![w] = x] /\ h[w].pc = "apply"
        /\ UNCHANGED <<row, client, bundle, list, before>>
    BY <1>11, <2>1, <2>3 DEF ApplyFails
  <2>6. bundle = "live"
    BY <2>5 DEF ListIsTrue, HandlerIsGood, OpensFirst
  <2> QED
    BY <1>4, <2>4, <2>5, <2>6
<1>12. ASSUME NEW w \in Workers, Installed(w) \/ Fails(w) PROVE ListIsTrue'
  <2>1. Ends(w) /\ UNCHANGED <<row, client, bundle, list, before>> /\ h[w].pc \notin {"idle", "record"}
    BY <1>12 DEF Installed, Fails
  <2> QED
    BY <1>6, <2>1
<1>13. ASSUME NEW w \in Workers, RollbackRow(w) \/ RollbackServer(w) PROVE ListIsTrue'
  <2>1. before' = before
    BY <1>13 DEF RollbackRow, RollbackServer
  <2> QED
    BY <1>13, <2>1, RollbackIsTrue
<1>14. ASSUME NEW w \in Workers, Close(w) PROVE ListIsTrue'
  <2>1. before' = before
    BY <1>14 DEF Close
  <2> QED
    BY <1>14, <2>1, CloseIsTrue
<1>15. ASSUME NEW r \in Resources, NEW def \in Defs \cup {Nothing},
              EditAgent(r, def) \/ EditSkill(r, def) \/ EditServer(r, def)
       PROVE  ListIsTrue'
  BY <1>15 DEF EditAgent, EditSkill, EditServer, Writes
<1>16. CASE Crash
  <2>1. before' = before
    BY <1>16 DEF Crash
  <2> QED
    BY <1>16, <2>1, CrashIsTrue
<1>17. CASE UNCHANGED vars
  BY <1>17 DEF vars, ListIsTrue, Sole, IdsAgree, FirstFound, Untouched, GoneIsRestored, HandlerIsGood,
       OpensFirst, NewIsGood, ListIsLive, Halfway, Left, OnList, InHand, Stopped, Seen
<1> QED
  BY <1>2, <1>3, <1>5, <1>7, <1>8, <1>9, <1>10, <1>11, <1>12, <1>13, <1>14, <1>15, <1>16, <1>17
     DEF Next, Handle

\* A bundle that is gone, and whose list said all that was done, has left
\* everything as it found it, and no client of a server that it took away: for
\* every content, also one that names a resource twice, any number of requests
\* and every crash and failure (Uninstall, rollbackResources, cleanupFailed).
THEOREM BundleIsUninstalled == Spec => []UninstallRestores
<1>1. BundleTypeOK /\ ListIsTrue => UninstallRestores
  <2> SUFFICES ASSUME BundleTypeOK, ListIsTrue, bundle = "dead", before # Unknown
               PROVE  /\ Look = before
                      /\ \A k \in DOMAIN list :
                           list[k].res \in Servers /\ ~row[list[k].res].live
                             => client[list[k].res] = Nothing
    BY DEF UninstallRestores
  <2>1. /\ before \in [Resources -> Defs \cup {Nothing}]
        /\ \A r \in Resources : Seen(row[r]) = before[r] /\ (OnList(r) => Stopped(r))
    BY DEF ListIsTrue, GoneIsRestored
  <2>2. Look = before
    BY <2>1 DEF Look, Seen
  <2>3. ASSUME NEW k \in DOMAIN list PROVE list[k].res \in Resources /\ Stopped(list[k].res)
    <3>1. k \in 1 .. Len(list) /\ list[k].res \in Resources
      BY <2>3, ListResources DEF BundleTypeOK
    <3>2. OnList(list[k].res)
      BY <3>1 DEF OnList
    <3> QED
      BY <2>1, <3>1, <3>2
  <2> QED
    BY <2>2, <2>3 DEF Stopped
<1> QED
  BY <1>1, BundleTypeInit, BundleTypeStep, ListInit, ListStep, PTL DEF Spec
-----------------------------------------------------------------------------
(* Callers.                                                                *)

OwnedRow == [kind : RowKinds, owner : CallerKeys \cup {Default}, name : Names, on : BOOLEAN,
             live : BOOLEAN, white : SUBSET Users, late : BOOLEAN]

\* What a handler has read, of any kind.
Errands ==
  {Free} \cup [op : {"copy"}, caller : CallerKeys, to : CallerKeys, all : Seq(OwnedRow)]
         \cup [op : {"delete"}, caller : CallerKeys, tools : SUBSET Nat]
         \cup [op : {"insert"}, row : OwnedRow]
         \cup [op : {"update"}, at : Nat, name : Names, on : BOOLEAN]
         \cup [op : {"restrict", "rewrite"}, at : Nat, users : SUBSET Users]

\* The types of the variables.
CallerTypeOK ==
  /\ caller \in [CallerKeys -> {"none", "on", "off", "dead"}]
  /\ rows \in Seq(OwnedRow) /\ clerk \in [Clerks -> Errands]

\* Sequences that come from sets, and their elements.
LEMMA SetToSeqElements ==
  ASSUME NEW S, IsFiniteSet(S)
  PROVE  /\ Cardinality(S) \in Nat /\ SetToSeq(S) \in [1 .. Cardinality(S) -> S]
         /\ \A x \in S : \E k \in 1 .. Cardinality(S) : SetToSeq(S)[k] = x
<1>1. PICK n \in Nat : n = Cardinality(S)
  BY FS_CardinalityType
<1>2. PICK g \in Bijection(1 .. n, S) : TRUE
  BY <1>1, FS_CardinalityType DEF ExistsBijection
<1>3. g \in [1 .. n -> S] /\ IsInjective(g)
  BY <1>2 DEF Bijection, Injection, IsInjective
<1>4. PICK f : f = SetToSeq(S)
  OBVIOUS
<1>5. f \in [1 .. n -> S] /\ IsInjective(f)
  BY <1>1, <1>3, <1>4 DEF SetToSeq
<1>6. f \in Injection(1 .. n, S)
  BY <1>5 DEF Injection, IsInjective
<1>7. Cardinality(1 .. n) = n
  BY FS_Interval
<1>8. f \in Surjection(1 .. n, S)
  BY <1>1, <1>6, <1>7, FS_Injection
<1> QED
  BY <1>1, <1>4, <1>5, <1>8 DEF Surjection

\* The live rows of a caller among the rows rs, as OwnedBy finds them.
OwnedIn(rs, c) ==
  LET ids == SetToSeq({i \in DOMAIN rs : rs[i].live /\ rs[i].owner = c})
  IN  [k \in DOMAIN ids |-> rs[ids[k]]]

LEMMA OwnedInRows ==
  ASSUME NEW rs \in Seq(OwnedRow), NEW c
  PROVE  /\ OwnedIn(rs, c) \in Seq(OwnedRow)
         /\ \A k \in DOMAIN OwnedIn(rs, c) : \E i \in DOMAIN rs :
              rs[i].live /\ rs[i].owner = c /\ OwnedIn(rs, c)[k] = rs[i]
         /\ \A i \in DOMAIN rs : rs[i].live /\ rs[i].owner = c
              => \E k \in DOMAIN OwnedIn(rs, c) : OwnedIn(rs, c)[k] = rs[i]
<1> DEFINE S == {i \in DOMAIN rs : rs[i].live /\ rs[i].owner = c}
           ids == SetToSeq(S)
<1>1. DOMAIN rs = 1 .. Len(rs) /\ Len(rs) \in Nat
  OBVIOUS
<1>2. IsFiniteSet(S)
  <2>1. IsFiniteSet(DOMAIN rs)
    BY <1>1, FS_Interval
  <2> QED
    BY <2>1, FS_Subset
<1>3. PICK n \in Nat : /\ ids \in [1 .. n -> S]
                       /\ \A x \in S : \E k \in 1 .. n : ids[k] = x
  BY <1>2, SetToSeqElements
<1>4. OwnedIn(rs, c) = [k \in 1 .. n |-> rs[ids[k]]]
  BY <1>3 DEF OwnedIn
<1> HIDE DEF ids
<1>5. \A k \in 1 .. n : ids[k] \in S /\ rs[ids[k]] \in OwnedRow
  BY <1>1, <1>3
<1>6. PICK o : o = OwnedIn(rs, c)
  OBVIOUS
<1>7. /\ DOMAIN o = 1 .. n /\ o \in [1 .. n -> OwnedRow]
      /\ \A k \in 1 .. n : o[k] = rs[ids[k]]
  BY <1>4, <1>5, <1>6
<1>8. o \in Seq(OwnedRow)
  BY <1>7
<1>9. \A k \in 1 .. n : \E i \in DOMAIN rs : rs[i].live /\ rs[i].owner = c /\ o[k] = rs[i]
  BY <1>5, <1>7
<1>10. ASSUME NEW i \in DOMAIN rs, rs[i].live, rs[i].owner = c
       PROVE  \E k \in 1 .. n : o[k] = rs[i]
  <2>1. PICK k \in 1 .. n : ids[k] = i
    BY <1>3, <1>10
  <2> QED
    BY <1>7, <2>1
<1> QED
  BY <1>6, <1>7, <1>8, <1>9, <1>10

LEMMA OwnedRows ==
  ASSUME rows \in Seq(OwnedRow), NEW c
  PROVE  /\ OwnedBy(c) \in Seq(OwnedRow)
         /\ \A k \in DOMAIN OwnedBy(c) : \E i \in DOMAIN rows :
              rows[i].live /\ rows[i].owner = c /\ OwnedBy(c)[k] = rows[i]
<1>1. OwnedBy(c) = OwnedIn(rows, c)
  BY DEF OwnedBy, OwnedIn
<1> QED
  BY <1>1, OwnedInRows

NewErrand(e) ==
  /\ e.op = "copy" => \A k \in 1 .. Len(e.all) : e.all[k].live /\ ~e.all[k].late
  /\ e.op = "insert" => /\ e.row.live
                        /\ e.row.owner # Default => caller[e.row.owner] # "none"

\* Besides: what a handler is about to copy was live when its owner was, and no
\* key that was never a caller owns a row, or will.
CallerInv ==
  /\ \A w \in Clerks : NewErrand(clerk[w])
  /\ \A i \in DOMAIN rows : rows[i].owner # Default => caller[rows[i].owner] # "none"
  /\ NothingIsInherited

LEMMA CallerTypeInit == CallerInit => CallerTypeOK
BY DEF CallerInit, CallerTypeOK, Errands

LEMMA ErrandKinds ==
  /\ Free.op = "free"
  /\ \A e \in Errands :
       /\ e.op = "copy" => e \in [op : {"copy"}, caller : CallerKeys, to : CallerKeys, all : Seq(OwnedRow)]
       /\ e.op = "delete" => e \in [op : {"delete"}, caller : CallerKeys, tools : SUBSET Nat]
       /\ e.op = "insert" => e \in [op : {"insert"}, row : OwnedRow]
       /\ e.op = "update" => e \in [op : {"update"}, at : Nat, name : Names, on : BOOLEAN]
       /\ e.op \in {"restrict", "rewrite"}
            => e \in [op : {"restrict", "rewrite"}, at : Nat, users : SUBSET Users]
BY DEF Errands, Free

LEMMA NewRowsType ==
  \A r \in NewRows : r \in OwnedRow /\ r.live /\ ~r.late /\ r.owner \in CallerKeys \cup {Default}
<1> SUFFICES ASSUME NEW r \in NewRows
             PROVE  r \in OwnedRow /\ r.live /\ ~r.late /\ r.owner \in CallerKeys \cup {Default}
  OBVIOUS
<1>1. PICK kind \in RowKinds :
        r \in [kind : {kind}, owner : Owners(kind), name : Names, on : {TRUE},
               live : {TRUE}, white : {{}}, late : {FALSE}]
  BY DEF NewRows
<1>2. Owners(kind) \subseteq CallerKeys \cup {Default}
  BY DEF Owners
<1> QED
  BY <1>1, <1>2 DEF OwnedRow

LEMMA ClonedRows ==
  ASSUME NEW all \in Seq(OwnedRow), NEW to \in CallerKeys
  PROVE  /\ Cloned(all, to) \in Seq(OwnedRow) /\ Len(Cloned(all, to)) = Len(all)
         /\ \A k \in 1 .. Len(all) :
              LET r == Cloned(all, to)[k] IN
              /\ r.owner = to /\ r.live = all[k].live /\ r.late = all[k].late
              /\ r.kind = all[k].kind /\ r.name = all[k].name /\ r.white = all[k].white
<1>1. PICK n \in Nat : n = Len(all) /\ DOMAIN all = 1 .. n /\ \A k \in 1 .. n : all[k] \in OwnedRow
  OBVIOUS
<1>2. ASSUME NEW r \in OwnedRow
      PROVE  [r EXCEPT !.owner = to, !.on = TRUE] \in OwnedRow
  BY DEF OwnedRow
<1>3. PICK s : s = Cloned(all, to)
  OBVIOUS
<1>4. s = [k \in 1 .. n |-> [all[k] EXCEPT !.owner = to, !.on = TRUE]]
  BY <1>1, <1>3 DEF Cloned
<1>5. s \in [1 .. n -> OwnedRow]
  BY <1>1, <1>2, <1>4
<1>6. s \in Seq(OwnedRow) /\ Len(s) = n
  BY <1>5
<1>7. \A k \in 1 .. n :
        /\ s[k].owner = to /\ s[k].live = all[k].live /\ s[k].late = all[k].late
        /\ s[k].kind = all[k].kind /\ s[k].name = all[k].name /\ s[k].white = all[k].white
  BY <1>1, <1>4 DEF OwnedRow
<1> QED
  BY <1>1, <1>3, <1>6, <1>7

\* Whatever they were, they are on.
LEMMA ClonedOn ==
  ASSUME NEW all \in Seq(OwnedRow), NEW to \in CallerKeys, NEW k \in 1 .. Len(all)
  PROVE  Cloned(all, to)[k].on = TRUE
<1>1. all[k] \in OwnedRow /\ k \in DOMAIN all
  OBVIOUS
<1>2. Cloned(all, to)[k] = [all[k] EXCEPT !.owner = to, !.on = TRUE]
  BY <1>1 DEF Cloned
<1> QED
  BY <1>1, <1>2 DEF OwnedRow

LEMMA TakesType ==
  ASSUME CallerTypeOK, NEW w \in Clerks, NEW e \in Errands, Takes(w, e)
  PROVE  /\ clerk' \in [Clerks -> Errands] /\ clerk' = [clerk EXCEPT ![w] = e]
         /\ clerk'[w] = e /\ \A v \in Clerks \ {w} : clerk'[v] = clerk[v]
BY DEF CallerTypeOK, Takes

LEMMA DoneType ==
  ASSUME CallerTypeOK, NEW w \in Clerks, Done(w)
  PROVE  /\ clerk' \in [Clerks -> Errands]
         /\ clerk'[w] = Free /\ \A v \in Clerks \ {w} : clerk'[v] = clerk[v]
BY DEF CallerTypeOK, Done, Errands

\* One row is changed.
LEMMA RowChanged ==
  ASSUME rows \in Seq(OwnedRow), NEW i, NEW r \in OwnedRow, rows' = [rows EXCEPT ![i] = r]
  PROVE  /\ rows' \in Seq(OwnedRow) /\ DOMAIN rows' = DOMAIN rows /\ Len(rows') = Len(rows)
         /\ \A j \in DOMAIN rows : rows'[j] = IF j = i THEN r ELSE rows[j]
<1>1. PICK n \in Nat : n = Len(rows) /\ DOMAIN rows = 1 .. n /\ rows \in [1 .. n -> OwnedRow]
  OBVIOUS
<1>2. rows' \in [1 .. n -> OwnedRow]
  BY <1>1
<1>3. rows' \in Seq(OwnedRow) /\ Len(rows') = n /\ DOMAIN rows' = 1 .. n
  BY <1>2
<1> QED
  BY <1>1, <1>3

\* What each step does to the rows, one by one: it sweeps a caller's, appends
\* some, or changes one, and never its kind, owner or lateness.
LEMMA CopyCommits ==
  ASSUME CallerTypeOK, NEW w \in Clerks, CopyCommit(w)
  PROVE  \E all \in Seq(OwnedRow), to \in CallerKeys, n \in Nat, m \in Nat :
           /\ clerk[w].op = "copy" /\ all = clerk[w].all /\ to = clerk[w].to
           /\ n = Len(rows) /\ m = Len(all)
           /\ caller[to] = "none" /\ caller' = [caller EXCEPT ![to] = "on"]
           /\ rows' \in Seq(OwnedRow) /\ Len(rows') = n + m
           /\ \A i \in 1 .. n : rows'[i] = rows[i]
           /\ \A k \in 1 .. m : rows'[n + k] = Cloned(all, to)[k]
           /\ Done(w)
<1>1. PICK e \in Errands : e = clerk[w]
  BY DEF CallerTypeOK
<1>2. e.op = "copy" /\ e.all \in Seq(OwnedRow) /\ e.to \in CallerKeys
  BY <1>1, ErrandKinds DEF CopyCommit
<1>3. PICK all \in Seq(OwnedRow), to \in CallerKeys, n \in Nat, m \in Nat :
        all = e.all /\ to = e.to /\ n = Len(rows) /\ m = Len(all)
  BY <1>2 DEF CallerTypeOK
<1>4. PICK s \in Seq(OwnedRow) : s = Cloned(all, to)
  BY ClonedRows
<1>5. /\ caller[to] = "none" /\ caller' = [caller EXCEPT ![to] = "on"]
      /\ rows' = rows \o s /\ Done(w)
  BY <1>1, <1>3, <1>4 DEF CopyCommit, Unused
<1>6. Len(s) = m
  BY <1>3, <1>4, ClonedRows
<1>7. /\ rows' \in Seq(OwnedRow) /\ Len(rows') = n + m
      /\ \A i \in 1 .. n : rows'[i] = rows[i]
      /\ \A k \in 1 .. m : rows'[n + k] = s[k]
  <2>1. PICK t \in Seq(OwnedRow) : t = rows
    BY DEF CallerTypeOK
  <2>2. n = Len(t)
    BY <1>3, <2>1
  <2>3. t \o s \in Seq(OwnedRow)
    BY ConcatProperties
  <2>4. Len(t \o s) = n + m
    BY ONLY <1>6, <2>2, ConcatProperties, t \in Seq(OwnedRow), s \in Seq(OwnedRow)
  <2>5. ASSUME NEW i \in 1 .. n PROVE (t \o s)[i] = t[i]
    BY ONLY <2>2, t \in Seq(OwnedRow), s \in Seq(OwnedRow), n \in Nat, i \in 1 .. n
  <2>6. ASSUME NEW k \in 1 .. m PROVE (t \o s)[n + k] = s[k]
    BY ONLY <1>6, <2>2, t \in Seq(OwnedRow), s \in Seq(OwnedRow), n \in Nat, m \in Nat, k \in 1 .. m
  <2> QED
    BY <1>5, <2>1, <2>3, <2>4, <2>5, <2>6
<1>8. /\ clerk[w].op = "copy" /\ all = clerk[w].all /\ to = clerk[w].to
      /\ n = Len(rows) /\ m = Len(all)
      /\ caller[to] = "none" /\ caller' = [caller EXCEPT ![to] = "on"] /\ Done(w)
  BY <1>1, <1>2, <1>3, <1>5
<1>9. \A k \in 1 .. m : rows'[n + k] = Cloned(all, to)[k]
  BY <1>4, <1>7
<1> DEFINE Copies(a, t, k, l) ==
             /\ clerk[w].op = "copy" /\ a = clerk[w].all /\ t = clerk[w].to
             /\ k = Len(rows) /\ l = Len(a)
             /\ caller[t] = "none" /\ caller' = [caller EXCEPT ![t] = "on"]
             /\ rows' \in Seq(OwnedRow) /\ Len(rows') = k + l
             /\ \A i \in 1 .. k : rows'[i] = rows[i]
             /\ \A i \in 1 .. l : rows'[k + i] = Cloned(a, t)[i]
             /\ Done(w)
<1>10. Copies(all, to, n, m)
  BY <1>7, <1>8, <1>9
<1>11. \E a \in Seq(OwnedRow), t \in CallerKeys, k \in Nat, l \in Nat : Copies(a, t, k, l)
  <2> HIDE DEF Copies
  <2> QED
    BY <1>10
<1> QED
  BY <1>11

LEMMA DeleteCommits ==
  ASSUME CallerTypeOK, NEW w \in Clerks, DeleteCommit(w)
  PROVE  \E c \in CallerKeys :
           /\ caller' = [caller EXCEPT ![c] = "dead"]
           /\ rows' \in Seq(OwnedRow) /\ DOMAIN rows' = DOMAIN rows
           /\ \A i \in DOMAIN rows :
                /\ rows'[i].owner = rows[i].owner /\ rows'[i].late = rows[i].late
                /\ rows'[i].live <=> rows[i].live /\ rows[i].owner # c
           /\ Done(w)
<1>1. PICK e \in Errands : e = clerk[w]
  BY DEF CallerTypeOK
<1>2. e.op = "delete" /\ e.caller \in CallerKeys
  BY <1>1, ErrandKinds DEF DeleteCommit
<1>9. PICK tools : tools = e.tools
  OBVIOUS
<1>3. PICK c \in CallerKeys : c = e.caller
  BY <1>2
<1>4. PICK n \in Nat : n = Len(rows) /\ DOMAIN rows = 1 .. n /\ \A i \in 1 .. n : rows[i] \in OwnedRow
  BY DEF CallerTypeOK
<1>5. /\ caller' = [caller EXCEPT ![c] = "dead"] /\ Done(w)
      /\ rows' = [i \in 1 .. n |-> Swept(i, c, tools)]
  BY <1>1, <1>3, <1>4, <1>9 DEF DeleteCommit
<1>6. ASSUME NEW i \in 1 .. n
      PROVE  /\ Swept(i, c, tools) \in OwnedRow
             /\ Swept(i, c, tools).owner = rows[i].owner /\ Swept(i, c, tools).late = rows[i].late
             /\ Swept(i, c, tools).live <=> rows[i].live /\ rows[i].owner # c
  <2>1. PICK r \in OwnedRow : r = rows[i]
    BY <1>4
  <2>2. PICK l \in BOOLEAN, p \in SUBSET Users :
          l = (r.live /\ r.owner # c) /\ p = IF i \in tools THEN {} ELSE r.white
    BY DEF OwnedRow
  <2>3. Swept(i, c, tools) = [r EXCEPT !.live = l, !.white = p]
    BY <2>1, <2>2 DEF Swept
  <2> QED
    BY <2>1, <2>2, <2>3 DEF OwnedRow
<1>7. rows' \in [1 .. n -> OwnedRow]
  BY <1>5, <1>6
<1>8. rows' \in Seq(OwnedRow) /\ DOMAIN rows' = DOMAIN rows
  BY <1>4, <1>7
<1> QED
  BY <1>4, <1>5, <1>6, <1>8

LEMMA InsertsRow ==
  ASSUME CallerTypeOK, NEW w \in Clerks, InsertRow(w)
  PROVE  \E r \in OwnedRow, n \in Nat :
           /\ clerk[w].op = "insert" /\ r.owner = clerk[w].row.owner /\ r.live = clerk[w].row.live
           /\ r.late = Dead(r.owner)
           /\ n = Len(rows) /\ rows' \in Seq(OwnedRow) /\ Len(rows') = n + 1 /\ rows'[n + 1] = r
           /\ \A i \in 1 .. n : rows'[i] = rows[i]
           /\ Done(w) /\ UNCHANGED caller
<1>1. PICK e \in Errands : e = clerk[w]
  BY DEF CallerTypeOK
<1>2. e.op = "insert" /\ e.row \in OwnedRow
  BY <1>1, ErrandKinds DEF InsertRow
<1>3. PICK q \in OwnedRow : q = e.row
  BY <1>2
<1>4. PICK late \in BOOLEAN : late = Dead(q.owner)
  BY DEF Dead
<1>5. PICK r : r = [q EXCEPT !.late = late]
  OBVIOUS
<1>6. r \in OwnedRow /\ r.owner = q.owner /\ r.live = q.live /\ r.late = late
  BY <1>5 DEF OwnedRow
<1>7. rows' = Append(rows, r) /\ Done(w) /\ UNCHANGED caller
  BY <1>1, <1>3, <1>4, <1>5 DEF InsertRow
<1>8. PICK n \in Nat : n = Len(rows)
  BY DEF CallerTypeOK
<1>9. /\ rows' \in Seq(OwnedRow) /\ Len(rows') = n + 1 /\ rows'[n + 1] = r
      /\ \A i \in 1 .. n : rows'[i] = rows[i]
  BY <1>6, <1>7, <1>8 DEF CallerTypeOK
<1> QED
  BY <1>1, <1>2, <1>3, <1>4, <1>6, <1>7, <1>8, <1>9

\* The other statements: one row is changed, or none.
RowsKeepOwners ==
  /\ rows' \in Seq(OwnedRow) /\ DOMAIN rows' = DOMAIN rows
  /\ \A i \in DOMAIN rows : /\ rows'[i].owner = rows[i].owner /\ rows'[i].late = rows[i].late
                            /\ rows'[i].live => rows[i].live

LEMMA OneRow ==
  ASSUME CallerTypeOK, NEW i, NEW r, rows' = [rows EXCEPT ![i] = r],
         i \in DOMAIN rows => /\ r \in OwnedRow /\ r.owner = rows[i].owner /\ r.late = rows[i].late
                              /\ r.live => rows[i].live
  PROVE  RowsKeepOwners
<1>1. CASE i \in DOMAIN rows
  BY <1>1, RowChanged DEF CallerTypeOK, RowsKeepOwners
<1>2. CASE i \notin DOMAIN rows
  <2>1. rows' = rows
    BY <1>2 DEF CallerTypeOK
  <2> QED
    BY <2>1 DEF CallerTypeOK, RowsKeepOwners
<1> QED
  BY <1>1, <1>2

LEMMA WritesRow ==
  ASSUME CallerTypeOK, NEW w \in Clerks, WriteRow(w) \/ WritePolicy(w)
  PROVE  RowsKeepOwners /\ Done(w) /\ UNCHANGED caller
<1>1. PICK e \in Errands : e = clerk[w]
  BY DEF CallerTypeOK
<1>2. CASE WriteRow(w)
  <2>1. e \in [op : {"update"}, at : Nat, name : Names, on : BOOLEAN]
    BY <1>1, <1>2, ErrandKinds DEF WriteRow
  <2>2. PICK i, name, on : i = e.at /\ name = e.name /\ on = e.on
    OBVIOUS
  <2>7. name \in Names /\ on \in BOOLEAN
    BY <2>1, <2>2
  <2>3. PICK r : r = IF rows[i].live THEN [rows[i] EXCEPT !.name = name, !.on = on] ELSE rows[i]
    OBVIOUS
  <2>4. rows' = [rows EXCEPT ![i] = r]
    BY <1>1, <1>2, <2>2, <2>3 DEF WriteRow
  <2>5. ASSUME i \in DOMAIN rows
        PROVE  /\ r \in OwnedRow /\ r.owner = rows[i].owner /\ r.late = rows[i].late
               /\ r.live => rows[i].live
    <3>1. PICK q \in OwnedRow : q = rows[i]
      BY <2>5 DEF CallerTypeOK
    <3> QED
      BY <2>3, <2>7, <3>1 DEF OwnedRow
  <2>6. RowsKeepOwners
    BY <2>4, <2>5, OneRow
  <2> QED
    BY <1>2, <2>6 DEF WriteRow
<1>3. CASE WritePolicy(w)
  <2>1. e \in [op : {"restrict", "rewrite"}, at : Nat, users : SUBSET Users]
    BY <1>1, <1>3, ErrandKinds DEF WritePolicy
  <2>2. PICK i, op, users : i = e.at /\ op = e.op /\ users = e.users
    OBVIOUS
  <2>8. users \in SUBSET Users
    BY <2>1, <2>2
  <2>3. PICK p : p = IF (op = "restrict") = (rows[i].white = {}) THEN users ELSE rows[i].white
    OBVIOUS
  <2>4. PICK r : r = [rows[i] EXCEPT !.white = p]
    OBVIOUS
  <2>5. rows' = [rows EXCEPT ![i] = r]
    BY <1>1, <1>3, <2>2, <2>3, <2>4 DEF WritePolicy
  <2>6. ASSUME i \in DOMAIN rows
        PROVE  /\ r \in OwnedRow /\ r.owner = rows[i].owner /\ r.late = rows[i].late
               /\ r.live => rows[i].live
    <3>1. PICK q \in OwnedRow : q = rows[i]
      BY <2>6 DEF CallerTypeOK
    <3>2. p \in SUBSET Users
      BY <2>8, <2>3, <3>1 DEF OwnedRow
    <3> QED
      BY <2>4, <3>1, <3>2 DEF OwnedRow
  <2>7. RowsKeepOwners
    BY <2>5, <2>6, OneRow
  <2> QED
    BY <1>3, <2>7 DEF WritePolicy
<1> QED
  BY <1>2, <1>3

LEMMA DropsRow ==
  ASSUME CallerTypeOK, NEW i \in DOMAIN rows, DeleteRow(i) \/ DeletePolicy(i)
  PROVE  RowsKeepOwners /\ UNCHANGED <<caller, clerk>>
<1>1. PICK q \in OwnedRow : q = rows[i]
  BY DEF CallerTypeOK
<1>2. PICK r \in {[q EXCEPT !.live = FALSE], [q EXCEPT !.white = {}]} : rows' = [rows EXCEPT ![i] = r]
  BY <1>1 DEF DeleteRow, DeletePolicy, CallerTypeOK
<1>3. r \in OwnedRow /\ r.owner = q.owner /\ r.late = q.late /\ (r.live => q.live)
  BY <1>2 DEF OwnedRow
<1>4. RowsKeepOwners
  BY <1>1, <1>2, <1>3, OneRow
<1> QED
  BY <1>4 DEF DeleteRow, DeletePolicy

\* The steps that read.
LEMMA Reads ==
  ASSUME CallerTypeOK, NEW w \in Clerks,
         \/ \E from, to \in CallerKeys : CopyConfig(w, from, to)
         \/ \E c \in CallerKeys : BatchDelete(w, c)
         \/ \E r \in NewRows : RegisterRow(w, r)
         \/ \E i \in DOMAIN rows :
              \/ \E name \in Names, on \in BOOLEAN : UpdateRow(w, i, name, on)
              \/ \E op \in {"restrict", "rewrite"}, users \in SUBSET Users : CheckPolicy(w, i, op, users)
  PROVE  \E e \in Errands :
           /\ Takes(w, e) /\ UNCHANGED <<caller, rows>>
           /\ e.op = "copy" => \E c \in CallerKeys : Exists(c) /\ e.all = OwnedBy(c)
           /\ e.op = "insert" => e.row \in NewRows /\ Active(e.row.owner)
<1>1. ASSUME NEW from \in CallerKeys, NEW to \in CallerKeys, CopyConfig(w, from, to)
      PROVE  \E e \in Errands :
               /\ Takes(w, e) /\ UNCHANGED <<caller, rows>> /\ e.op = "copy"
               /\ Exists(from) /\ e.all = OwnedBy(from)
  <2>1. PICK all \in Seq(OwnedRow) : all = OwnedBy(from)
    BY OwnedRows DEF CallerTypeOK
  <2>2. PICK e : e = [op |-> "copy", caller |-> from, to |-> to, all |-> all]
    OBVIOUS
  <2>3. e \in Errands /\ e.op = "copy" /\ e.all = all
    BY <2>2 DEF Errands
  <2> QED
    BY <1>1, <2>1, <2>2, <2>3 DEF CopyConfig
<1>2. ASSUME NEW c \in CallerKeys, BatchDelete(w, c)
      PROVE  \E e \in Errands : Takes(w, e) /\ UNCHANGED <<caller, rows>> /\ e.op = "delete"
  <2>1. PICK tools : tools = {i \in DOMAIN rows : /\ rows[i].live /\ rows[i].owner = c
                                                  /\ rows[i].kind = "tool"}
    OBVIOUS
  <2>2. tools \in SUBSET Nat
    BY <2>1 DEF CallerTypeOK
  <2>3. PICK e : e = [op |-> "delete", caller |-> c, tools |-> tools]
    OBVIOUS
  <2>4. e \in Errands /\ e.op = "delete"
    BY <2>2, <2>3 DEF Errands
  <2> QED
    BY <1>2, <2>1, <2>3, <2>4 DEF BatchDelete
<1>3. ASSUME NEW r \in NewRows, RegisterRow(w, r)
      PROVE  \E e \in Errands :
               /\ Takes(w, e) /\ UNCHANGED <<caller, rows>> /\ e.op = "insert"
               /\ e.row \in NewRows /\ Active(e.row.owner)
  <2>1. PICK e : e = [op |-> "insert", row |-> r]
    OBVIOUS
  <2>2. e \in Errands /\ e.op = "insert" /\ e.row = r
    BY <2>1, NewRowsType DEF Errands
  <2> QED
    BY <1>3, <2>1, <2>2 DEF RegisterRow
<1>4. ASSUME NEW i \in DOMAIN rows, NEW name \in Names, NEW on \in BOOLEAN, UpdateRow(w, i, name, on)
      PROVE  \E e \in Errands : Takes(w, e) /\ UNCHANGED <<caller, rows>> /\ e.op = "update"
  <2>1. PICK e : e = [op |-> "update", at |-> i, name |-> name, on |-> on]
    OBVIOUS
  <2>2. e \in Errands /\ e.op = "update"
    BY <2>1 DEF Errands, CallerTypeOK
  <2> QED
    BY <1>4, <2>1, <2>2 DEF UpdateRow
<1>5. ASSUME NEW i \in DOMAIN rows, NEW op \in {"restrict", "rewrite"}, NEW users \in SUBSET Users,
             CheckPolicy(w, i, op, users)
      PROVE  \E e \in Errands : Takes(w, e) /\ UNCHANGED <<caller, rows>> /\ e.op = op
  <2>1. PICK e : e = [op |-> op, at |-> i, users |-> users]
    OBVIOUS
  <2>2. e \in Errands /\ e.op = op
    BY <2>1 DEF Errands, CallerTypeOK
  <2> QED
    BY <1>5, <2>1, <2>2 DEF CheckPolicy
<1> QED
  BY <1>1, <1>2, <1>3, <1>4, <1>5

LEMMA CallerTypeStep == CallerTypeOK /\ [CallerNext]_callerVars => CallerTypeOK'
<1> SUFFICES ASSUME CallerTypeOK, [CallerNext]_callerVars PROVE CallerTypeOK'
  OBVIOUS
<1>1. ASSUME NEW c \in CallerKeys,
             RegisterCaller(c) \/ \E status \in {"on", "off"} : UpdateCaller(c, status)
      PROVE  CallerTypeOK'
  BY <1>1 DEF RegisterCaller, UpdateCaller, CallerTypeOK
<1>2. ASSUME NEW w \in Clerks, NEW e \in Errands, Takes(w, e), UNCHANGED <<caller, rows>>
      PROVE  CallerTypeOK'
  BY <1>2, TakesType DEF CallerTypeOK
<1>3. ASSUME NEW w \in Clerks, CopyCommit(w) PROVE CallerTypeOK'
  <2>1. rows' \in Seq(OwnedRow) /\ Done(w) /\ \E to \in CallerKeys : caller' = [caller EXCEPT ![to] = "on"]
    BY <1>3, CopyCommits
  <2> QED
    BY <2>1, DoneType DEF CallerTypeOK
<1>4. ASSUME NEW w \in Clerks, DeleteCommit(w) PROVE CallerTypeOK'
  <2>1. rows' \in Seq(OwnedRow) /\ Done(w) /\ \E c \in CallerKeys : caller' = [caller EXCEPT ![c] = "dead"]
    BY <1>4, DeleteCommits
  <2> QED
    BY <2>1, DoneType DEF CallerTypeOK
<1>5. ASSUME NEW w \in Clerks, InsertRow(w) PROVE CallerTypeOK'
  <2>1. rows' \in Seq(OwnedRow) /\ Done(w) /\ UNCHANGED caller
    BY <1>5, InsertsRow
  <2> QED
    BY <2>1, DoneType DEF CallerTypeOK
<1>6. ASSUME NEW w \in Clerks, WriteRow(w) \/ WritePolicy(w) PROVE CallerTypeOK'
  BY <1>6, WritesRow, DoneType DEF CallerTypeOK, RowsKeepOwners
<1>7. ASSUME NEW i \in DOMAIN rows, DeleteRow(i) \/ DeletePolicy(i) PROVE CallerTypeOK'
  BY <1>7, DropsRow DEF CallerTypeOK, RowsKeepOwners
<1>8. ASSUME NEW w \in Clerks, RequestFails(w) PROVE CallerTypeOK'
  BY <1>8, DoneType DEF CallerTypeOK, RequestFails
<1>9. CASE UNCHANGED callerVars
  BY <1>9 DEF callerVars, CallerTypeOK
<1> QED
  BY <1>1, <1>2, <1>3, <1>4, <1>5, <1>6, <1>7, <1>8, <1>9, Reads DEF CallerNext

\* Callers are born once.
LEMMA BornOnce ==
  ASSUME CallerTypeOK, NEW c \in CallerKeys, caller[c] # "none", NEW k \in CallerKeys,
         NEW status \in {"on", "off", "dead"}, caller' = [caller EXCEPT ![k] = status]
  PROVE  caller'[c] # "none"
BY DEF CallerTypeOK

LEMMA ErrandsKept ==
  ASSUME CallerTypeOK, CallerInv, NEW e \in Errands, NewErrand(e),
         \A c \in CallerKeys : caller[c] # "none" => caller'[c] # "none"
  PROVE  NewErrand(e)'
<1>1. e.op = "insert" => e.row.owner \in CallerKeys \cup {Default}
  BY ErrandKinds DEF OwnedRow
<1> QED
  BY <1>1 DEF NewErrand

LEMMA ErrandsDone ==
  ASSUME CallerTypeOK, CallerInv, NEW w \in Clerks, Done(w),
         \A c \in CallerKeys : caller[c] # "none" => caller'[c] # "none"
  PROVE  \A v \in Clerks : NewErrand(clerk[v])'
<1> SUFFICES ASSUME NEW v \in Clerks PROVE NewErrand(clerk[v])'
  OBVIOUS
<1>1. PICK e \in Errands : e = clerk'[v]
  BY DoneType
<1>2. NewErrand(e)
  <2>1. CASE v = w
    BY <1>1, <2>1, DoneType, ErrandKinds DEF NewErrand
  <2>2. CASE v # w
    BY <1>1, <2>2, DoneType DEF CallerInv
  <2> QED
    BY <2>1, <2>2
<1>3. NewErrand(e)'
  BY <1>2, ErrandsKept
<1> QED
  BY <1>1, <1>3 DEF NewErrand

\* What is to be shown of the rows.
NotUnborn == \A i \in DOMAIN rows : rows[i].owner # Default => caller[rows[i].owner] # "none"

LEMMA RowsKept ==
  ASSUME CallerTypeOK, CallerInv, RowsKeepOwners, UNCHANGED caller
  PROVE  NotUnborn' /\ NothingIsInherited'
BY DEF CallerInv, NotUnborn, NothingIsInherited, RowsKeepOwners, Dead

LEMMA RowTypes ==
  ASSUME CallerTypeOK
  PROVE  /\ Len(rows) \in Nat /\ DOMAIN rows = 1 .. Len(rows)
         /\ \A i \in DOMAIN rows : rows[i] \in OwnedRow /\ rows[i].owner \in CallerKeys \cup {Default}
<1>1. \A r \in OwnedRow : r.owner \in CallerKeys \cup {Default}
  BY DEF OwnedRow
<1> QED
  BY <1>1 DEF CallerTypeOK

LEMMA CallerInvInit == CallerInit => CallerInv
BY ErrandKinds DEF CallerInit, CallerInv, NewErrand, NothingIsInherited

LEMMA CallerStep == CallerTypeOK /\ CallerInv /\ [CallerNext]_callerVars => CallerInv'
<1> SUFFICES ASSUME CallerTypeOK, CallerInv, [CallerNext]_callerVars PROVE CallerInv'
  OBVIOUS
<1> DEFINE ErrandsOK == \A v \in Clerks : NewErrand(clerk[v])
<1>0. /\ NotUnborn /\ NothingIsInherited /\ ErrandsOK
      /\ ErrandsOK' /\ NotUnborn' /\ NothingIsInherited' => CallerInv'
  BY DEF CallerInv, NotUnborn
<1> HIDE DEF ErrandsOK
<1>1. ASSUME NEW c \in CallerKeys, NEW status \in {"on", "off"}, caller' = [caller EXCEPT ![c] = status],
             caller[c] # "dead", UNCHANGED <<rows, clerk>>
      PROVE  CallerInv'
  <2>1. \A k \in CallerKeys : caller[k] # "none" => caller'[k] # "none"
    BY <1>1 DEF CallerTypeOK
  <2>2. \A k \in CallerKeys : caller'[k] = "dead" <=> caller[k] = "dead"
    BY <1>1 DEF CallerTypeOK
  <2>3. NotUnborn' /\ NothingIsInherited'
    BY <1>0, <1>1, <2>1, <2>2, RowTypes DEF NotUnborn, NothingIsInherited, Dead
  <2>4. ErrandsOK'
    <3> SUFFICES ASSUME NEW v \in Clerks PROVE NewErrand(clerk[v])'
      BY DEF ErrandsOK
    <3>1. PICK e \in Errands : e = clerk[v]
      BY DEF CallerTypeOK
    <3>2. NewErrand(e)'
      BY <1>0, <2>1, <3>1, ErrandsKept DEF ErrandsOK
    <3> QED
      BY <1>1, <3>1, <3>2 DEF NewErrand
  <2> QED
    BY <1>0, <2>3, <2>4
<1>2. ASSUME NEW c \in CallerKeys,
             RegisterCaller(c) \/ \E status \in {"on", "off"} : UpdateCaller(c, status)
      PROVE  CallerInv'
  BY <1>1, <1>2 DEF RegisterCaller, UpdateCaller, Unused, Exists
<1>3. ASSUME NEW w \in Clerks, NEW e \in Errands, Takes(w, e), UNCHANGED <<caller, rows>>,
             e.op = "copy" => \E c \in CallerKeys : Exists(c) /\ e.all = OwnedBy(c),
             e.op = "insert" => e.row \in NewRows /\ Active(e.row.owner)
      PROVE  CallerInv'
  <2>1. NotUnborn' /\ NothingIsInherited'
    BY <1>0, <1>3 DEF NotUnborn, NothingIsInherited, Dead
  <2>2. ASSUME e.op = "copy" PROVE \A k \in 1 .. Len(e.all) : e.all[k].live /\ ~e.all[k].late
    <3>1. PICK c \in CallerKeys : Exists(c) /\ e.all = OwnedBy(c)
      BY <1>3, <2>2
    <3>2. e.all \in Seq(OwnedRow)
      BY <3>1, OwnedRows DEF CallerTypeOK
    <3>3. \A k \in 1 .. Len(e.all) : \E i \in DOMAIN rows :
            rows[i].live /\ rows[i].owner = c /\ e.all[k] = rows[i]
      BY <3>1, <3>2, OwnedRows DEF CallerTypeOK
    <3>4. ~Dead(c)
      BY <3>1 DEF Dead, Exists
    <3> QED
      BY <1>0, <3>3, <3>4 DEF NothingIsInherited
  <2>3. ASSUME e.op = "insert"
        PROVE  e.row.live /\ (e.row.owner # Default => caller[e.row.owner] # "none")
    BY <1>3, <2>3, NewRowsType DEF Active
  <2>4. NewErrand(e)
    BY <2>2, <2>3 DEF NewErrand
  <2>5. ErrandsOK'
    <3> SUFFICES ASSUME NEW v \in Clerks PROVE NewErrand(clerk[v])'
      BY DEF ErrandsOK
    <3>1. PICK d \in Errands : d = clerk'[v]
      BY <1>3, TakesType
    <3>2. NewErrand(d)
      BY <1>0, <1>3, <2>4, <3>1, TakesType DEF ErrandsOK
    <3> QED
      BY <1>3, <3>1, <3>2 DEF NewErrand
  <2> QED
    BY <1>0, <2>1, <2>5
<1>4. ASSUME NEW w \in Clerks, CopyCommit(w) PROVE CallerInv'
  <2>1. PICK all \in Seq(OwnedRow), to \in CallerKeys, n \in Nat, m \in Nat :
           /\ clerk[w].op = "copy" /\ all = clerk[w].all /\ to = clerk[w].to
           /\ n = Len(rows) /\ m = Len(all)
           /\ caller[to] = "none" /\ caller' = [caller EXCEPT ![to] = "on"]
           /\ rows' \in Seq(OwnedRow) /\ Len(rows') = n + m
           /\ \A i \in 1 .. n : rows'[i] = rows[i]
           /\ \A k \in 1 .. m : rows'[n + k] = Cloned(all, to)[k]
           /\ Done(w)
    BY <1>4, CopyCommits
  <2>2. /\ \A k \in CallerKeys : caller[k] # "none" => caller'[k] # "none"
        /\ \A k \in CallerKeys : caller'[k] = "dead" <=> caller[k] = "dead"
        /\ caller'[to] = "on"
    BY <2>1 DEF CallerTypeOK
  <2>3. ErrandsOK'
    BY <2>1, <2>2, ErrandsDone DEF ErrandsOK
  <2>4. \A k \in 1 .. m : all[k].live /\ ~all[k].late
    BY <1>0, <2>1 DEF ErrandsOK, NewErrand
  <2>5. \A k \in 1 .. m : rows'[n + k].owner = to /\ ~rows'[n + k].late
    <3> SUFFICES ASSUME NEW k \in 1 .. m PROVE rows'[n + k].owner = to /\ ~rows'[n + k].late
      OBVIOUS
    <3>1. PICK r : r = Cloned(all, to)[k]
      OBVIOUS
    <3>2. r.owner = to /\ r.late = all[k].late
      <4>1. k \in 1 .. Len(all)
        BY <2>1
      <4> QED
        BY <3>1, <4>1, ClonedRows
    <3>3. rows'[n + k] = r
      BY <2>1, <3>1
    <3>4. ~all[k].late
      BY <2>4
    <3> QED
      BY <3>2, <3>3, <3>4
  <2>6. \A i \in DOMAIN rows' : i \in 1 .. n \/ \E k \in 1 .. m : i = n + k
    <3> SUFFICES ASSUME NEW i \in DOMAIN rows', i \notin 1 .. n PROVE \E k \in 1 .. m : i = n + k
      OBVIOUS
    <3>1. i \in 1 .. n + m
      BY <2>1
    <3>2. i - n \in 1 .. m /\ i = n + (i - n)
      BY <3>1
    <3> QED
      BY <3>2
  <2>7. \A i \in 1 .. n : rows[i].owner \in CallerKeys \cup {Default} /\ i \in DOMAIN rows
    BY <2>1, RowTypes
  <2>8. to # Default
    BY CallersAssumption
  <2>9. NotUnborn'
    <3> SUFFICES ASSUME NEW i \in DOMAIN rows', rows'[i].owner # Default
                 PROVE  caller'[rows'[i].owner] # "none"
      BY DEF NotUnborn
    <3>1. CASE i \in 1 .. n
      BY <1>0, <2>1, <2>2, <2>7, <3>1 DEF NotUnborn
    <3>2. CASE \E k \in 1 .. m : i = n + k
      BY <2>2, <2>5, <3>2
    <3> QED
      BY <2>6, <3>1, <3>2
  <2>10. NothingIsInherited'
    BY <1>0, <2>1, <2>2, <2>5, <2>6, <2>7 DEF NothingIsInherited, Dead
  <2> QED
    BY <1>0, <2>3, <2>9, <2>10
<1>5. ASSUME NEW w \in Clerks, DeleteCommit(w) PROVE CallerInv'
  <2>1. PICK c \in CallerKeys :
           /\ caller' = [caller EXCEPT ![c] = "dead"] /\ DOMAIN rows' = DOMAIN rows
           /\ \A i \in DOMAIN rows :
                /\ rows'[i].owner = rows[i].owner /\ rows'[i].late = rows[i].late
                /\ rows'[i].live <=> rows[i].live /\ rows[i].owner # c
           /\ Done(w)
    BY <1>5, DeleteCommits
  <2>2. /\ \A k \in CallerKeys : caller[k] # "none" => caller'[k] # "none"
        /\ \A k \in CallerKeys : k # c => (caller'[k] = "dead" <=> caller[k] = "dead")
    BY <2>1 DEF CallerTypeOK
  <2>3. ErrandsOK'
    BY <2>1, <2>2, ErrandsDone DEF ErrandsOK
  <2>4. NotUnborn' /\ NothingIsInherited'
    BY <1>0, <2>1, <2>2, RowTypes DEF NotUnborn, NothingIsInherited, Dead
  <2> QED
    BY <1>0, <2>3, <2>4
<1>6. ASSUME NEW w \in Clerks, InsertRow(w) PROVE CallerInv'
  <2>1. PICK r \in OwnedRow, n \in Nat :
           /\ clerk[w].op = "insert" /\ r.owner = clerk[w].row.owner /\ r.late = Dead(r.owner)
           /\ n = Len(rows) /\ rows' \in Seq(OwnedRow) /\ Len(rows') = n + 1 /\ rows'[n + 1] = r
           /\ \A i \in 1 .. n : rows'[i] = rows[i]
           /\ Done(w) /\ UNCHANGED caller
    BY <1>6, InsertsRow
  <2>2. ErrandsOK'
    BY <2>1, ErrandsDone DEF ErrandsOK
  <2>3. r.owner # Default => caller[r.owner] # "none"
    BY <1>0, <2>1 DEF ErrandsOK, NewErrand
  <2>4. DOMAIN rows' = 1 .. n + 1 /\ DOMAIN rows = 1 .. n
    BY <2>1, RowTypes
  <2>5. NotUnborn'
    BY <1>0, <2>1, <2>3, <2>4 DEF NotUnborn
  <2>6. NothingIsInherited'
    <3> SUFFICES ASSUME NEW i \in DOMAIN rows', rows'[i].live
                 PROVE  rows'[i].late <=> Dead(rows'[i].owner)
      BY <2>1 DEF NothingIsInherited, Dead
    <3>1. CASE i \in 1 .. n
      BY <1>0, <2>1, <2>4, <3>1 DEF NothingIsInherited
    <3>2. CASE i = n + 1
      BY <2>1, <3>2
    <3> QED
      BY <2>4, <3>1, <3>2
  <2> QED
    BY <1>0, <2>2, <2>5, <2>6
<1>7. ASSUME NEW w \in Clerks, WriteRow(w) \/ WritePolicy(w) PROVE CallerInv'
  <2>1. RowsKeepOwners /\ Done(w) /\ UNCHANGED caller
    BY <1>7, WritesRow
  <2>2. ErrandsOK'
    BY <2>1, ErrandsDone DEF ErrandsOK
  <2> QED
    BY <1>0, <2>1, <2>2, RowsKept
<1>8. ASSUME NEW i \in DOMAIN rows, DeleteRow(i) \/ DeletePolicy(i) PROVE CallerInv'
  <2>1. RowsKeepOwners /\ UNCHANGED <<caller, clerk>>
    BY <1>8, DropsRow
  <2>2. ErrandsOK'
    BY <1>0, <2>1 DEF ErrandsOK, NewErrand
  <2> QED
    BY <1>0, <2>1, <2>2, RowsKept
<1>9. ASSUME NEW w \in Clerks, RequestFails(w) PROVE CallerInv'
  <2>1. Done(w) /\ UNCHANGED <<caller, rows>>
    BY <1>9 DEF RequestFails
  <2>2. ErrandsOK'
    BY <2>1, ErrandsDone DEF ErrandsOK
  <2>3. NotUnborn' /\ NothingIsInherited'
    BY <1>0, <2>1 DEF NotUnborn, NothingIsInherited, Dead
  <2> QED
    BY <1>0, <2>2, <2>3
<1>10. CASE UNCHANGED callerVars
  <2>1. ErrandsOK' /\ NotUnborn' /\ NothingIsInherited'
    BY <1>0, <1>10 DEF callerVars, ErrandsOK, NewErrand, NotUnborn, NothingIsInherited, Dead
  <2> QED
    BY <1>0, <2>1
<1> QED
  BY <1>2, <1>3, <1>4, <1>5, <1>6, <1>7, <1>8, <1>9, <1>10, Reads DEF CallerNext

\* No row of a deleted caller, but those that came too late, and none of a key
\* that was never a caller, whatever the handlers had looked up before.
THEOREM NobodyInherits == CallerSpec => []NothingIsInherited
<1>1. CallerInit => CallerTypeOK /\ CallerInv
  BY CallerTypeInit, CallerInvInit
<1>2. CallerTypeOK /\ CallerInv /\ [CallerNext]_callerVars => (CallerTypeOK /\ CallerInv)'
  BY CallerTypeStep, CallerStep
<1>3. CallerTypeOK /\ CallerInv => NothingIsInherited
  BY DEF CallerInv
<1> QED
  BY <1>1, <1>2, <1>3, PTL DEF CallerSpec
-----------------------------------------------------------------------------
\* What one row gives.
RowGrants(r) ==
  {[kind |-> r.kind, name |-> r.name, on |-> r.on, user |-> u] :
     u \in IF r.white = {} THEN Users ELSE r.white}

LEMMA GrantsOfRows ==
  ASSUME NEW rs, NEW x
  PROVE  x \in Grants(rs) <=> \E i \in DOMAIN rs : x \in RowGrants(rs[i])
BY DEF Grants, RowGrants

\* A record whose field is changed.
LEMMA FieldChanged ==
  ASSUME NEW kind, NEW name, NEW on, NEW user, NEW b
  PROVE  [[kind |-> kind, name |-> name, on |-> on, user |-> user] EXCEPT !.on = b]
           = [kind |-> kind, name |-> name, on |-> b, user |-> user]
OBVIOUS

\* A row that has been switched on gives what it gave, switched on.
LEMMA SameGrants ==
  ASSUME NEW r \in OwnedRow, NEW q \in OwnedRow, r.kind = q.kind, r.name = q.name, r.on = TRUE,
         r.white = q.white
  PROVE  RowGrants(r) = SwitchedOn(RowGrants(q))
<1>1. PICK us, b : us = (IF q.white = {} THEN Users ELSE q.white) /\ b = TRUE
  OBVIOUS
<1>2. RowGrants(r) = {[kind |-> q.kind, name |-> q.name, on |-> b, user |-> u] : u \in us}
  BY <1>1 DEF RowGrants
<1>3. RowGrants(q) = {[kind |-> q.kind, name |-> q.name, on |-> q.on, user |-> u] : u \in us}
  BY <1>1 DEF RowGrants
<1>4. SwitchedOn(RowGrants(q)) = {[g EXCEPT !.on = b] : g \in RowGrants(q)}
  BY <1>1 DEF SwitchedOn
<1> DEFINE Old(u) == [kind |-> q.kind, name |-> q.name, on |-> q.on, user |-> u]
           New(u) == [kind |-> q.kind, name |-> q.name, on |-> b, user |-> u]
           Turned(g) == [g EXCEPT !.on = b]
<1>5. \A u : Turned(Old(u)) = New(u)
  BY FieldChanged
<1>6. /\ RowGrants(r) = {New(u) : u \in us} /\ RowGrants(q) = {Old(u) : u \in us}
      /\ SwitchedOn(RowGrants(q)) = {Turned(g) : g \in RowGrants(q)}
  BY <1>2, <1>3, <1>4
<1> HIDE DEF Old, New, Turned
<1> QED
  BY <1>5, <1>6

\* What becomes of the rows of the target of a copy.
LEMMA CopyGrants ==
  ASSUME CallerTypeOK, CallerInv, NEW w \in Clerks, CopyCommit(w), NEW c, c = clerk[w].to
  PROVE  Grants(OwnedBy(c)') = SwitchedOn(Grants(clerk[w].all))
<1>1. PICK all \in Seq(OwnedRow), to \in CallerKeys, n \in Nat, m \in Nat :
         /\ clerk[w].op = "copy" /\ all = clerk[w].all /\ to = clerk[w].to
         /\ n = Len(rows) /\ m = Len(all)
         /\ caller[to] = "none" /\ caller' = [caller EXCEPT ![to] = "on"]
         /\ rows' \in Seq(OwnedRow) /\ Len(rows') = n + m
         /\ \A i \in 1 .. n : rows'[i] = rows[i]
         /\ \A k \in 1 .. m : rows'[n + k] = Cloned(all, to)[k]
         /\ Done(w)
  BY CopyCommits
<1>2. \A k \in 1 .. m : all[k] \in OwnedRow /\ all[k].live
  BY <1>1 DEF CallerInv, NewErrand
<1>3. PICK o : o = OwnedBy(c)'
  OBVIOUS
<1>4. c = to
  BY <1>1
<1>11. /\ o \in Seq(OwnedRow)
       /\ \A k \in DOMAIN o : \E i \in DOMAIN rows' :
            rows'[i].live /\ rows'[i].owner = to /\ o[k] = rows'[i]
       /\ \A i \in DOMAIN rows' : rows'[i].live /\ rows'[i].owner = to
            => \E k \in DOMAIN o : o[k] = rows'[i]
  <2>1. PICK rs \in Seq(OwnedRow) : rs = rows'
    BY <1>1
  <2>2. o = OwnedIn(rs, to)
    BY <1>3, <1>4, <2>1 DEF OwnedBy, OwnedIn
  <2> QED
    BY <2>1, <2>2, OwnedInRows
<1>5. DOMAIN all = 1 .. m /\ DOMAIN rows' = 1 .. n + m
  BY <1>1
<1>6. ASSUME NEW i \in 1 .. n PROVE rows'[i].owner # to
  <2>1. i \in DOMAIN rows
    BY <1>1, RowTypes
  <2>2. rows[i].owner # to
    BY <1>1, <2>1, CallersAssumption DEF CallerInv
  <2> QED
    BY <1>1, <2>2
<1>7. ASSUME NEW k \in 1 .. m
      PROVE  /\ n + k \in DOMAIN rows' /\ rows'[n + k].live /\ rows'[n + k].owner = to
             /\ RowGrants(rows'[n + k]) = SwitchedOn(RowGrants(all[k]))
  <2>1. PICK r : r = Cloned(all, to)[k]
    OBVIOUS
  <2>7. k \in 1 .. Len(all)
    BY <1>1
  <2>2. /\ r.owner = to /\ r.live = all[k].live /\ r.kind = all[k].kind
        /\ r.name = all[k].name /\ r.white = all[k].white
    BY <2>1, <2>7, ClonedRows
  <2>3. rows'[n + k] = r
    BY <1>1, <2>1
  <2>4. n + k \in DOMAIN rows'
    BY <1>1, <1>5
  <2>5. r \in OwnedRow
    BY <1>1, <2>3, <2>4
  <2>8. r.on = TRUE
    BY <2>1, <2>7, ClonedOn
  <2>6. RowGrants(r) = SwitchedOn(RowGrants(all[k]))
    BY <1>2, <2>2, <2>5, <2>8, SameGrants
  <2> QED
    BY <1>2, <2>2, <2>3, <2>4, <2>6
<1>8. ASSUME NEW x \in Grants(o) PROVE x \in SwitchedOn(Grants(all))
  <2>1. PICK k \in DOMAIN o : x \in RowGrants(o[k])
    BY <1>8, GrantsOfRows
  <2>2. PICK i \in DOMAIN rows' : rows'[i].owner = to /\ o[k] = rows'[i]
    BY <1>11
  <2>3. i - n \in 1 .. m /\ i = n + (i - n)
    BY <1>1, <1>5, <1>6, <2>2
  <2>4. PICK j \in 1 .. m : i = n + j
    BY <2>3
  <2>5. PICK g \in RowGrants(all[j]) : x = [g EXCEPT !.on = TRUE]
    BY <1>7, <2>1, <2>2, <2>4 DEF SwitchedOn
  <2>6. g \in Grants(all)
    BY <1>5, <2>5, GrantsOfRows
  <2> QED
    BY <2>5, <2>6 DEF SwitchedOn
<1>9. ASSUME NEW x \in SwitchedOn(Grants(all)) PROVE x \in Grants(o)
  <2>0. PICK g \in Grants(all) : x = [g EXCEPT !.on = TRUE]
    BY <1>9 DEF SwitchedOn
  <2>1. PICK j \in 1 .. m : g \in RowGrants(all[j])
    BY <1>5, <2>0, GrantsOfRows
  <2>2. x \in SwitchedOn(RowGrants(all[j]))
    BY <2>0, <2>1 DEF SwitchedOn
  <2>3. PICK i \in DOMAIN rows' : rows'[i].live /\ rows'[i].owner = to /\ x \in RowGrants(rows'[i])
    BY <1>7, <2>2
  <2>4. PICK k \in DOMAIN o : o[k] = rows'[i]
    <3>1. i \in DOMAIN rows' /\ rows'[i].live /\ rows'[i].owner = to
      BY <2>3
    <3>2. \E k \in DOMAIN o : o[k] = rows'[i]
      BY <1>11, <3>1
    <3> QED
      BY <3>2
  <2> QED
    BY <2>3, <2>4, GrantsOfRows
<1>10. Grants(o) = SwitchedOn(Grants(all))
  BY <1>8, <1>9
<1> QED
  BY <1>1, <1>3, <1>4, <1>10

\* The steps at which a copy ends and its target becomes a caller are commits.
LEMMA CopyEnds ==
  ASSUME CallerTypeOK, [CallerNext]_callerVars, NEW w \in Clerks, NEW c \in CallerKeys,
         clerk[w].op = "copy", clerk[w].to = c, caller[c] = "none", caller'[c] = "on", clerk'[w] = Free
  PROVE  CopyCommit(w)
<1>0. clerk[w] # Free /\ clerk'[w] # clerk[w] /\ caller' # caller
  BY ErrandKinds
<1>1. ASSUME NEW k \in CallerKeys,
             RegisterCaller(k) \/ \E status \in {"on", "off"} : UpdateCaller(k, status)
      PROVE  FALSE
  BY <1>0, <1>1 DEF RegisterCaller, UpdateCaller
<1>2. ASSUME NEW v \in Clerks, NEW e, Takes(v, e), UNCHANGED <<caller, rows>> PROVE FALSE
  BY <1>0, <1>2
<1>3. ASSUME NEW v \in Clerks, Done(v), v # w PROVE FALSE
  BY <1>0, <1>3, DoneType
<1>4. ASSUME NEW v \in Clerks, InsertRow(v) \/ WriteRow(v) \/ WritePolicy(v) \/ RequestFails(v)
      PROVE  FALSE
  BY <1>0, <1>4 DEF InsertRow, WriteRow, WritePolicy, RequestFails
<1>5. ASSUME NEW v \in Clerks, DeleteCommit(v) PROVE FALSE
  BY <1>0, <1>5, <1>3 DEF DeleteCommit
<1>6. ASSUME NEW v \in Clerks, CopyCommit(v) PROVE v = w
  BY <1>6, <1>3 DEF CopyCommit
<1>7. ASSUME NEW i \in DOMAIN rows, DeleteRow(i) \/ DeletePolicy(i) PROVE FALSE
  BY <1>0, <1>7 DEF DeleteRow, DeletePolicy
<1>8. CASE UNCHANGED callerVars
  BY <1>0, <1>8 DEF callerVars
<1> QED
  BY <1>1, <1>2, <1>4, <1>5, <1>6, <1>7, <1>8, Reads DEF CallerNext

\* What a copy gives to whom is what the source had for him when it was read,
\* restricted tools to their users alone, and all of it switched on.
THEOREM CopiesAreWhole == CallerSpec => CopyIsWhole
<1>1. CallerInit => CallerTypeOK /\ CallerInv
  BY CallerTypeInit, CallerInvInit
<1>2. CallerTypeOK /\ CallerInv /\ [CallerNext]_callerVars => (CallerTypeOK /\ CallerInv)'
  BY CallerTypeStep, CallerStep
<1> DEFINE Whole ==
      \A w \in Clerks, c \in CallerKeys : Gives(w, c, SwitchedOn(Grants(clerk[w].all)))
<1>3. CallerTypeOK /\ CallerInv /\ [CallerNext]_callerVars => Whole
  <2> SUFFICES ASSUME CallerTypeOK, CallerInv, [CallerNext]_callerVars,
                      NEW w \in Clerks, NEW c \in CallerKeys,
                      clerk[w].op = "copy", clerk[w].to = c, caller[c] = "none", caller'[c] = "on",
                      clerk'[w] = Free
               PROVE  Grants(OwnedBy(c)') = SwitchedOn(Grants(clerk[w].all))
    BY DEF Gives
  <2>1. CopyCommit(w)
    BY CopyEnds
  <2> QED
    BY <2>1, CopyGrants
<1>4. CallerTypeOK /\ CallerInv /\ [CallerNext]_callerVars => [Whole]_callerVars
  BY <1>3
<1> HIDE DEF Whole
<1>5. CallerSpec => [][Whole]_callerVars
  BY <1>1, <1>2, <1>4, PTL DEF CallerSpec
<1> QED
  BY <1>5 DEF CopyIsWhole, Whole
=============================================================================
