-------------------------- MODULE MemoryStoreProofs --------------------------
(***************************************************************************)
(* Proofs about MemoryStore, for any spaces, facts, writers of the three   *)
(* kinds, caps and bounds.                                                 *)
(***************************************************************************)
EXTENDS MemoryStore, TLAPS

ChangeType == [action : Actions, item : Items, before : Rows, after : Rows, quoted : Nat]
RevisionType ==
  [action : Actions, before : Rows, after : Rows, quoted : Nat, by : Writers]

-----------------------------------------------------------------------------
(* Type correctness                                                        *)

LEMMA RowFacts ==
  /\ NoRow \in Rows /\ NoRow \notin RowType
  /\ \A r \in Rows : r.version \in Nat
  /\ \A r \in Rows : r # NoRow <=> r \in RowType
BY DEF NoRow, Rows, RowType

LEMMA GivenTypes ==
  ASSUME NEW layer \in LayerArgs, NEW tags
  PROVE  /\ \A default \in Layers : Or(layer, default) \in Layers
         /\ \A default \in BOOLEAN : Locks(tags, default) \in BOOLEAN
<1>1. layer \in {"resident", "detached", ""}
  BY MemoryStoreAssumption
<1> QED
  BY <1>1 DEF Or, Locks, Layers

LEMMA UpdatedType ==
  ASSUME NEW r \in RowType, NEW layer \in LayerArgs, NEW content \in Facts, NEW tags
  PROVE  /\ Updated(r, layer, content, tags) \in RowType
         /\ Updated(r, layer, content, tags).version = r.version + 1
<1>1. PICK newLayer \in Layers : newLayer = Or(layer, r.layer)
  BY GivenTypes DEF RowType
<1>2. PICK locked \in BOOLEAN : locked = Locks(tags, r.locked)
  BY GivenTypes DEF RowType
<1>3. r.version + 1 \in Nat \ {0}
  BY DEF RowType
<1> QED
  BY <1>1, <1>2, <1>3 DEF RowType, Updated

LEMMA RevisionTypes ==
  ASSUME TypeOK, NEW i \in Items, NEW n \in DOMAIN log[i]
  PROVE  log[i][n] \in RevisionType
<1>1. log[i] \in Seq(RevisionType)
  BY DEF TypeOK, RevisionType
<1> QED
  BY <1>1

LEMMA QuotableType ==
  ASSUME TypeOK, NEW i \in Items
  PROVE  Quotable(i) \subseteq Nat
<1>1. \A rev \in RevisionType : VersionAfter(rev) \in Nat
  BY RowFacts DEF RevisionType, VersionAfter
<1> QED
  BY <1>1, RevisionTypes DEF Quotable

(* What a step plans: an action on an item, as its row is.                 *)
Plans(w, i) ==
  \/ \E layer \in LayerArgs, tags \in TagArgs :
       \/ PlanInsert(w, i, layer, tags) \/ PlanConverge(w, i, layer, tags)
       \/ \E content \in Facts, quoted \in Quotable(i) :
            PlanUpdate(w, i, layer, content, tags, quoted)
  \/ \E quoted \in Quotable(i) : PlanDelete(w, i, quoted)
  \/ \E n \in DOMAIN log[i] : PlanRollback(w, i, n)

LEMMA NextSteps ==
  Next => \E w \in Writers :
            (\E i \in Items : Plans(w, i)) \/ Commit(w) \/ Abort(w) \/ TryAgain(w)
BY DEF Next, Plans

(* A creation makes the first row of its item; any other change finds one, *)
(* and adds one to its version; a deletion has nothing after it.           *)
Sound(c) ==
  /\ c.action = "create" => c.before = NoRow /\ c.after \in RowType /\ c.after.version = 1
  /\ c.action # "create" => c.before \in RowType
  /\ c.action = "delete" => c.after = NoRow
  /\ c.action \in {"update", "rollback"} =>
       c.after \in RowType /\ c.after.version = c.before.version + 1

(* An item has a row when it has revisions.                                *)
Kept == \A i \in Items : row[i] = NoRow <=> log[i] = <<>>

LEMMA PlanEffect ==
  ASSUME TypeOK, Kept, NEW w \in Writers, NEW i \in Items, Plans(w, i)
  PROVE  /\ UNCHANGED <<row, log, writes, attempt>>
         /\ \E c \in ChangeType :
              /\ change' = [change EXCEPT ![w] = c]
              /\ c.item = i /\ c.before = row[i] /\ c.quoted \in Quotable(i) /\ Sound(c)
<1> DEFINE Goal == \E c \in ChangeType :
              /\ change' = [change EXCEPT ![w] = c]
              /\ c.item = i /\ c.before = row[i] /\ c.quoted \in Quotable(i) /\ Sound(c)
<1>1. row[i] \in Rows /\ 0 \in Quotable(i) /\ Quotable(i) \subseteq Nat
  BY QuotableType DEF TypeOK, Quotable
<1>2. ASSUME NEW action \in Actions, NEW after \in Rows, NEW quoted \in Quotable(i),
             Plan(w, action, i, after, quoted),
             Sound([action |-> action, item |-> i, before |-> row[i], after |-> after,
                    quoted |-> quoted])
      PROVE  UNCHANGED <<row, log, writes, attempt>> /\ Goal
  BY <1>1, <1>2 DEF Plan, ChangeType
<1>3. ASSUME NEW layer \in LayerArgs, NEW tags \in TagArgs, PlanInsert(w, i, layer, tags)
      PROVE  UNCHANGED <<row, log, writes, attempt>> /\ Goal
  <2> DEFINE after == [layer |-> Or(layer, "detached"), content |-> i[2],
                       locked |-> Locks(tags, FALSE), state |-> "active", version |-> 1]
  <2>1. after \in RowType /\ after.version = 1
    <3>1. i[2] \in Facts /\ "detached" \in Layers
      BY DEF Items, Layers
    <3>2. PICK newLayer \in Layers : newLayer = Or(layer, "detached")
      BY <3>1, GivenTypes
    <3>3. PICK locked \in BOOLEAN : locked = Locks(tags, FALSE)
      BY GivenTypes
    <3>4. [layer |-> newLayer, content |-> i[2], locked |-> locked, state |-> "active",
           version |-> 1] \in RowType
      BY <3>1 DEF RowType
    <3> QED
      BY <3>2, <3>3, <3>4
  <2>2. Plan(w, "create", i, after, 0) /\ row[i] = NoRow
    BY <1>3 DEF PlanInsert
  <2>3. "create" \in Actions /\ after \in Rows
    BY <2>1 DEF Actions, Rows
  <2> HIDE DEF after
  <2> QED
    BY <1>1, <1>2, <2>1, <2>2, <2>3 DEF Sound
<1>4. ASSUME NEW layer \in LayerArgs, NEW tags \in TagArgs, NEW content \in Facts,
             NEW quoted \in Quotable(i), row[i] # NoRow,
             Plan(w, "update", i, Updated(row[i], layer, content, tags), quoted)
      PROVE  UNCHANGED <<row, log, writes, attempt>> /\ Goal
  <2>1. row[i] \in RowType
    BY <1>1, <1>4, RowFacts
  <2>2. PICK after \in RowType : after = Updated(row[i], layer, content, tags) /\ after.version = row[i].version + 1
    BY <2>1, UpdatedType
  <2>3. "update" \in Actions /\ after \in Rows
    BY DEF Actions, Rows
  <2> QED
    BY <1>1, <1>2, <1>4, <2>1, <2>2, <2>3 DEF Sound
<1>5. ASSUME NEW layer \in LayerArgs, NEW tags \in TagArgs, PlanConverge(w, i, layer, tags)
      PROVE  UNCHANGED <<row, log, writes, attempt>> /\ Goal
  BY <1>1, <1>4, <1>5 DEF PlanConverge, Items
<1>6. ASSUME NEW layer \in LayerArgs, NEW tags \in TagArgs, NEW content \in Facts,
             NEW quoted \in Quotable(i), PlanUpdate(w, i, layer, content, tags, quoted)
      PROVE  UNCHANGED <<row, log, writes, attempt>> /\ Goal
  BY <1>4, <1>6 DEF PlanUpdate, Loads, NoRow
<1>7. ASSUME NEW quoted \in Quotable(i), PlanDelete(w, i, quoted)
      PROVE  UNCHANGED <<row, log, writes, attempt>> /\ Goal
  <2>1. row[i] \in RowType
    BY <1>1, <1>7, RowFacts DEF PlanDelete, Loads, NoRow
  <2>2. "delete" \in Actions /\ NoRow \in Rows
    BY RowFacts DEF Actions
  <2> QED
    BY <1>2, <1>7, <2>1, <2>2 DEF PlanDelete, Sound
<1>8. ASSUME NEW n \in DOMAIN log[i], PlanRollback(w, i, n)
      PROVE  UNCHANGED <<row, log, writes, attempt>> /\ Goal
  <2>1. log[i][n] \in RevisionType /\ log[i][n].before \in RowType
    BY <1>8, RowFacts, RevisionTypes DEF PlanRollback, RevisionType
  <2>2. row[i] \in RowType /\ row[i].version + 1 \in Nat \ {0}
    BY <1>1, RowFacts DEF Kept, RowType
  <2> DEFINE after == [log[i][n].before EXCEPT !.version = row[i].version + 1]
  <2>3. after \in RowType /\ after.version = row[i].version + 1
    BY <2>1, <2>2 DEF RowType
  <2>4. "rollback" \in Actions /\ after \in Rows
    BY <2>3 DEF Actions, Rows
  <2>5. Plan(w, "rollback", i, after, 0)
    BY <1>8 DEF PlanRollback
  <2> HIDE DEF after
  <2> QED
    BY <1>1, <1>2, <2>2, <2>3, <2>4, <2>5 DEF Sound
<1> QED
  BY <1>3, <1>5, <1>6, <1>7, <1>8 DEF Plans

LEMMA TypeInit == Init => TypeOK
<1>1. \A T : <<>> \in Seq(T)
  OBVIOUS
<1> QED
  BY <1>1, RowFacts DEF Init, TypeOK

(* The effects of a commit, as an append to the log.                       *)
RevisionOf(w) ==
  [action |-> change[w].action, before |-> change[w].before, after |-> change[w].after,
   quoted |-> change[w].quoted, by |-> w]

LEMMA CommitEffect ==
  ASSUME TypeOK, NEW w \in Writers, Commit(w)
  PROVE  /\ change[w] \in ChangeType /\ change[w].item \in Items
         /\ RevisionOf(w) \in RevisionType
         /\ Applies(change[w], row[change[w].item])
         /\ row' = [row EXCEPT ![change[w].item] = Written(change[w], row[change[w].item])]
         /\ log' = [log EXCEPT ![change[w].item] = Append(log[change[w].item], RevisionOf(w))]
         /\ change' = [change EXCEPT ![w] = NoChange]
<1>1. change[w] \in ChangeType
  BY DEF TypeOK, Commit, ChangeType
<1> QED
  BY <1>1 DEF Commit, ChangeType, RevisionType, RevisionOf

(* Every planned change is sound, and its item still has a row.            *)
SoundPlans ==
  \A w \in Writers : change[w] # NoChange =>
    Sound(change[w]) /\ (change[w].action # "create" => row[change[w].item] # NoRow)

LEMMA WrittenType ==
  ASSUME NEW c \in ChangeType, Sound(c), NEW r \in Rows, Applies(c, r),
         c.action # "create" => r # NoRow
  PROVE  Written(c, r) \in RowType
<1>1. CASE c.action = "delete"
  <2>1. r \in RowType /\ c.before.version + 1 \in Nat \ {0}
    BY <1>1, RowFacts DEF Sound, RowType
  <2> QED
    BY <1>1, <2>1 DEF Written, RowType
<1>2. CASE c.action # "delete"
  BY <1>2 DEF Written, Sound, ChangeType, Actions
<1> QED
  BY <1>1, <1>2

LEMMA TypeNext == TypeOK /\ Kept /\ SoundPlans /\ [Next]_vars => (TypeOK /\ Kept /\ SoundPlans)'
<1> SUFFICES ASSUME TypeOK, Kept, SoundPlans, [Next]_vars PROVE (TypeOK /\ Kept /\ SoundPlans)'
  OBVIOUS
<1>1. ASSUME NEW w \in Writers, NEW i \in Items, Plans(w, i)
      PROVE  (TypeOK /\ Kept /\ SoundPlans)'
  <2>1. PICK c \in ChangeType :
          /\ change' = [change EXCEPT ![w] = c] /\ Sound(c)
          /\ c.action # "create" => row[c.item] # NoRow
    BY <1>1, PlanEffect, RowFacts DEF Sound
  <2>2. UNCHANGED <<row, log, writes, attempt>>
    BY <1>1, PlanEffect
  <2>3. TypeOK'
    BY <2>1, <2>2 DEF TypeOK, ChangeType
  <2> QED
    BY <2>1, <2>2, <2>3 DEF TypeOK, Kept, SoundPlans
<1>2. ASSUME NEW w \in Writers, Commit(w) PROVE (TypeOK /\ Kept /\ SoundPlans)'
  <2> DEFINE c == change[w]
             i == c.item
  <2>1. /\ c \in ChangeType /\ i \in Items /\ Sound(c) /\ Applies(c, row[i])
        /\ c.action # "create" => row[i] # NoRow
    BY <1>2, CommitEffect DEF SoundPlans, Commit
  <2>2. row' = [row EXCEPT ![i] = Written(c, row[i])]
    BY <1>2, CommitEffect
  <2>3. log' = [log EXCEPT ![i] = Append(log[i], RevisionOf(w))] /\ RevisionOf(w) \in RevisionType
    BY <1>2, CommitEffect
  <2>4. change' = [change EXCEPT ![w] = NoChange] /\ c # NoChange
    BY <1>2, CommitEffect DEF Commit
  <2> HIDE DEF c, i
  <2>5. Written(c, row[i]) \in RowType
    <3>1. row[i] \in Rows
      BY <2>1 DEF TypeOK
    <3> QED
      BY <2>1, <3>1, WrittenType
  <2>6. row' \in [Items -> Rows]
    BY <2>2, <2>5 DEF TypeOK, Rows
  <2>7. log' \in [Items -> Seq(RevisionType)]
    <3>1. log \in [Items -> Seq(RevisionType)]
      BY DEF TypeOK, RevisionType
    <3>2. Append(log[i], RevisionOf(w)) \in Seq(RevisionType)
      BY <2>1, <2>3, <3>1
    <3> QED
      BY <2>3, <3>1, <3>2
  <2>8. TypeOK'
    <3>1. change' \in [Writers -> ChangeType \cup {NoChange}]
      BY <2>4 DEF TypeOK, ChangeType
    <3>2. writes' \in [Writers -> Nat] /\ attempt' \in [Writers -> {1, 2}]
      BY <1>2 DEF TypeOK, Commit
    <3> QED
      BY <2>6, <2>7, <3>1, <3>2 DEF TypeOK, RevisionType, ChangeType
  <2>9. Kept'
    <3>1. log[i] \in Seq(RevisionType)
      BY <2>1 DEF TypeOK, RevisionType
    <3>2. Append(log[i], RevisionOf(w)) # <<>>
      BY <2>3, <3>1
    <3>3. row'[i] # NoRow /\ log'[i] # <<>>
      BY <2>1, <2>2, <2>3, <2>5, <3>2, RowFacts DEF TypeOK
    <3>4. \A j \in Items \ {i} : row'[j] = row[j] /\ log'[j] = log[j]
      BY <2>1, <2>2, <2>3 DEF TypeOK
    <3> QED
      BY <3>3, <3>4 DEF Kept
  <2> QED
    <3>1. \A j \in Items : row[j] # NoRow => row'[j] # NoRow
      BY <2>1, <2>2, <2>5, RowFacts DEF TypeOK
    <3>2. \A v \in Writers : change'[v] # NoChange => change'[v] = change[v] /\ change[v] \in ChangeType
      BY <2>4 DEF TypeOK, ChangeType
    <3> QED
      BY <2>8, <2>9, <3>1, <3>2 DEF SoundPlans, ChangeType
<1>3. ASSUME NEW w \in Writers, Abort(w) PROVE (TypeOK /\ Kept /\ SoundPlans)'
  <2>1. TypeOK'
    BY <1>3 DEF TypeOK, Abort
  <2> QED
    BY <1>3, <2>1 DEF TypeOK, Kept, SoundPlans, Abort
<1>4. ASSUME NEW w \in Writers, TryAgain(w) PROVE (TypeOK /\ Kept /\ SoundPlans)'
  <2>1. TypeOK'
    BY <1>4 DEF TypeOK, TryAgain
  <2> QED
    BY <1>4, <2>1 DEF Kept, SoundPlans, TryAgain
<1>5. CASE UNCHANGED vars
  BY <1>5 DEF TypeOK, Kept, SoundPlans, vars
<1> QED
  BY <1>1, <1>2, <1>3, <1>4, <1>5, NextSteps

LEMMA SoundInit == Init => TypeOK /\ Kept /\ SoundPlans
BY TypeInit DEF Init, Kept, SoundPlans

(* The types of the variables: every row that was written is whole.        *)
THEOREM TypeCorrect == Spec => []TypeOK
<1> QED
  BY SoundInit, TypeNext, PTL DEF Spec

-----------------------------------------------------------------------------
(* The log tells what every row is                                         *)

LEMMA LastOfAppend ==
  ASSUME NEW T, NEW s \in Seq(T), NEW e \in T
  PROVE  Last(Append(s, e)) = e /\ Append(s, e) # <<>>
BY DEF Last

LEMMA LogInit == Init => LogTellsItem
BY DEF Init, LogTellsItem

LEMMA LogNext == TypeOK /\ Kept /\ SoundPlans /\ LogTellsItem /\ [Next]_vars => LogTellsItem'
<1> SUFFICES ASSUME TypeOK, Kept, SoundPlans, LogTellsItem, [Next]_vars PROVE LogTellsItem'
  OBVIOUS
<1>1. ASSUME row' = row, log' = log PROVE LogTellsItem'
  BY <1>1 DEF LogTellsItem, Last
<1>2. ASSUME NEW w \in Writers, Commit(w) PROVE LogTellsItem'
  <2> DEFINE c == change[w]
             i == c.item
  <2>1. c \in ChangeType /\ i \in Items /\ Sound(c) /\ row[i] \in Rows
    BY <1>2, CommitEffect DEF SoundPlans, Commit, TypeOK
  <2>2. row' = [row EXCEPT ![i] = Written(c, row[i])]
    BY <1>2, CommitEffect
  <2>3. log' = [log EXCEPT ![i] = Append(log[i], RevisionOf(w))] /\ RevisionOf(w) \in RevisionType
    BY <1>2, CommitEffect
  <2>4. RevisionOf(w).action = c.action /\ RevisionOf(w).before = c.before /\ RevisionOf(w).after = c.after
    BY DEF RevisionOf
  <2> HIDE DEF c, i
  <2>5. log[i] \in Seq(RevisionType)
    BY <2>1 DEF TypeOK, RevisionType
  <2>6. Tells(RevisionOf(w), Written(c, row[i]))
    BY <2>1, <2>4, RowFacts DEF Tells, Written, Sound, Rows, RowType, NoRow
  <2>7. Last(log'[i]) = RevisionOf(w) /\ log'[i] # <<>> /\ row'[i] = Written(c, row[i])
    BY <2>1, <2>2, <2>3, <2>5, LastOfAppend DEF TypeOK
  <2>8. \A j \in Items \ {i} : row'[j] = row[j] /\ log'[j] = log[j]
    BY <2>1, <2>2, <2>3 DEF TypeOK
  <2> QED
    BY <2>6, <2>7, <2>8 DEF LogTellsItem, Last
<1>3. ASSUME NEW w \in Writers, NEW i \in Items, Plans(w, i) PROVE row' = row /\ log' = log
  BY <1>3, PlanEffect
<1> QED
  BY <1>1, <1>2, <1>3, NextSteps DEF Abort, TryAgain, vars

(* Whatever writes overlap, the last revision of an item is what its row   *)
(* is (createRevision in the transaction of the row).                      *)
THEOREM LogIsTrue == Spec => []LogTellsItem
<1> QED
  BY SoundInit, TypeNext, LogInit, LogNext, PTL DEF Spec

-----------------------------------------------------------------------------
(* Quoted revisions form a chain                                           *)

(* QuotedChainIsWhole says it of the log alone. It is inductive when the   *)
(* row is known to be what the last revision left, with as many versions   *)
(* as there are revisions, and a planned change to start from what some    *)
(* revision left, the version it quotes being no later.                    *)
Quoted(i) == \A n \in 2..Len(log[i]) : log[i][n].quoted > 0
ChainKept(i) ==
  Quoted(i) =>
    /\ Chained(log[i])
    /\ log[i] # <<>> => row[i] = Leaves(Last(log[i])) /\ row[i].version = Len(log[i])
StartsFrom(c) ==
  c.action # "create" /\ Quoted(c.item) =>
    /\ c.before.version \in 1..Len(log[c.item]) /\ c.quoted <= c.before.version
    /\ c.before = Leaves(log[c.item][c.before.version])

ChainInv ==
  /\ \A i \in Items : ChainKept(i)
  /\ \A w \in Writers : change[w] # NoChange => StartsFrom(change[w])

Inv == TypeOK /\ Kept /\ SoundPlans /\ LogTellsItem

LEMMA ChainPlan ==
  ASSUME Inv, ChainInv, NEW w \in Writers, NEW i \in Items, Plans(w, i)
  PROVE  ChainInv'
<1> USE DEF Inv
<1>1. PICK c \in ChangeType :
        /\ change' = [change EXCEPT ![w] = c]
        /\ c.item = i /\ c.before = row[i] /\ c.quoted \in Quotable(i) /\ Sound(c)
  BY PlanEffect
<1>2. row' = row /\ log' = log
  BY PlanEffect
<1>3. ASSUME c.action # "create", Quoted(i)
      PROVE  /\ c.before.version \in 1..Len(log[i]) /\ c.quoted <= c.before.version
             /\ c.before = Leaves(log[i][c.before.version])
  <2>1. log[i] # <<>> /\ log[i] \in Seq(RevisionType)
    BY <1>1, <1>3, RowFacts DEF Sound, Kept, TypeOK, RevisionType
  <2>2. Chained(log[i]) /\ row[i] = Leaves(Last(log[i])) /\ row[i].version = Len(log[i])
    BY <1>3, <2>1 DEF ChainInv, ChainKept
  <2>3. Len(log[i]) \in Nat \ {0} /\ DOMAIN log[i] = 1..Len(log[i])
    BY <2>1
  <2>4. c.quoted \in 0..Len(log[i])
    BY <1>1, <2>2, <2>3 DEF Quotable, Chained
  <2> QED
    BY <1>1, <2>2, <2>3, <2>4 DEF Last
<1>4. StartsFrom(c)'
  BY <1>1, <1>2, <1>3 DEF StartsFrom, Quoted
<1> QED
  BY <1>1, <1>2, <1>4 DEF ChainInv, ChainKept, StartsFrom, Quoted, TypeOK

(* A log that grows by one revision keeps what was said of its prefix.     *)
LEMMA Prefix ==
  ASSUME NEW T, NEW s \in Seq(T), NEW e \in T
  PROVE  /\ Len(Append(s, e)) = Len(s) + 1 /\ Append(s, e)[Len(s) + 1] = e
         /\ \A n \in 1..Len(s) : Append(s, e)[n] = s[n]
         /\ DOMAIN Append(s, e) = 1..(Len(s) + 1) /\ DOMAIN s = 1..Len(s)
         /\ Len(s) \in Nat /\ (s = <<>> <=> Len(s) = 0)
OBVIOUS

LEMMA ChainCommit ==
  ASSUME Inv, ChainInv, NEW w \in Writers, Commit(w)
  PROVE  ChainInv'
<1> USE DEF Inv
<1>0. PICK c, i, rev, L :
        c = change[w] /\ i = c.item /\ rev = RevisionOf(w) /\ L = Len(log[i])
  OBVIOUS
<1>1. /\ c \in ChangeType /\ i \in Items /\ Sound(c) /\ Applies(c, row[i])
      /\ c.action # "create" => row[i] # NoRow
      /\ StartsFrom(c)
  BY <1>0, CommitEffect DEF SoundPlans, Commit, ChainInv
<1>2. row' = [row EXCEPT ![i] = Written(c, row[i])]
  BY <1>0, CommitEffect
<1>3. log' = [log EXCEPT ![i] = Append(log[i], rev)] /\ rev \in RevisionType
  BY <1>0, CommitEffect
<1>4. change' = [change EXCEPT ![w] = NoChange]
  BY <1>0, CommitEffect
<1>5. rev.action = c.action /\ rev.before = c.before /\ rev.after = c.after /\ rev.quoted = c.quoted
  BY <1>0 DEF RevisionOf
<1>6. log[i] \in Seq(RevisionType) /\ row[i] \in Rows /\ ChainKept(i)
  BY <1>1 DEF TypeOK, RevisionType, ChainInv
<1>7. /\ Len(log'[i]) = L + 1 /\ log'[i][L + 1] = rev /\ \A n \in 1..L : log'[i][n] = log[i][n]
      /\ DOMAIN log'[i] = 1..(L + 1) /\ DOMAIN log[i] = 1..L /\ L \in Nat /\ (log[i] = <<>> <=> L = 0)
  <2>1. log'[i] = Append(log[i], rev)
    BY <1>1, <1>3 DEF TypeOK
  <2> QED
    BY <1>0, <1>3, <1>6, <2>1, Prefix
<1>8. row'[i] = Written(c, row[i]) /\ \A j \in Items \ {i} : row'[j] = row[j] /\ log'[j] = log[j]
  BY <1>1, <1>2, <1>3 DEF TypeOK
<1>9. Quoted(i)' => Quoted(i) /\ (L > 0 => c.quoted > 0)
  <2>1. ASSUME Quoted(i)' PROVE \A n \in 2..(L + 1) : log'[i][n].quoted > 0
    BY <1>7, <2>1 DEF Quoted
  <2>2. ASSUME Quoted(i)', NEW n \in 2..L PROVE log[i][n].quoted > 0
    <3>1. n \in 1..L /\ n \in 2..(L + 1)
      BY <1>7
    <3>2. log'[i][n].quoted > 0 /\ log'[i][n] = log[i][n]
      BY <1>7, <2>1, <2>2, <3>1
    <3> QED
      BY <3>2
  <2>3. ASSUME Quoted(i)', L > 0 PROVE c.quoted > 0
    <3>1. L + 1 \in 2..(L + 1)
      BY <1>7, <2>3
    <3> QED
      BY <1>5, <1>7, <2>1, <2>3, <3>1
  <2> QED
    BY <1>0, <2>2, <2>3 DEF Quoted
<1>10. ASSUME Quoted(i)'
       PROVE  /\ Chained(log[i]) /\ VersionAfter(rev) = L + 1
              /\ L > 0 => rev.before = Leaves(log[i][L])
              /\ row'[i] = Leaves(rev) /\ row'[i].version = L + 1
  <2>1. CASE c.action = "create"
    <3>1. row[i] = NoRow /\ L = 0
      BY <1>1, <1>7, <2>1 DEF Applies, Kept
    <3>2. Chained(log[i])
      BY <1>7, <3>1 DEF Chained
    <3> QED
      BY <1>1, <1>5, <1>7, <1>8, <2>1, <3>1, <3>2 DEF Sound, VersionAfter, Written, Leaves
  <2>2. CASE c.action # "create"
    <3>1. Quoted(i) /\ L \in Nat \ {0} /\ c.quoted > 0
      BY <1>1, <1>7, <1>9, <1>10, <2>2 DEF Kept
    <3>2. Chained(log[i]) /\ row[i] = Leaves(log[i][L]) /\ row[i].version = L
      BY <1>0, <1>6, <1>7, <3>1 DEF ChainKept, Last
    <3>3. c.before.version = L /\ c.before = row[i]
      BY <1>0, <1>1, <2>2, <3>1, <3>2 DEF StartsFrom, Applies, ChangeType
    <3>4. row[i] \in RowType
      BY <1>1, <1>6, <2>2, RowFacts
    <3>5. CASE c.action = "delete"
      BY <1>5, <1>8, <3>2, <3>3, <3>4, <3>5 DEF VersionAfter, Written, Leaves, RowType
    <3>6. CASE c.action \in {"update", "rollback"}
      BY <1>1, <1>5, <1>8, <3>2, <3>3, <3>6 DEF Sound, VersionAfter, Written, Leaves
    <3> QED
      BY <1>1, <2>2, <3>2, <3>3, <3>5, <3>6, <1>5 DEF ChangeType, Actions
  <2> QED
    BY <2>1, <2>2
<1>11. ASSUME Quoted(i)' PROVE Chained(log'[i])
  <2>1. \A n \in 1..L : VersionAfter(log[i][n]) = n /\ (n > 1 => log[i][n].before = Leaves(log[i][n - 1]))
    BY <1>7, <1>10, <1>11 DEF Chained
  <2>2. ASSUME NEW n \in 1..L PROVE VersionAfter(log'[i][n]) = n /\ (n > 1 => log'[i][n].before = Leaves(log'[i][n - 1]))
    <3>1. log'[i][n] = log[i][n] /\ VersionAfter(log[i][n]) = n
      BY <1>7, <2>1
    <3>2. CASE n > 1
      <4>1. n - 1 \in 1..L
        BY <1>7, <3>2
      <4> QED
        BY <1>7, <2>1, <3>1, <4>1
    <3> QED
      BY <3>1, <3>2
  <2>3. VersionAfter(log'[i][L + 1]) = L + 1 /\ (L + 1 > 1 => log'[i][L + 1].before = Leaves(log'[i][L]))
    BY <1>7, <1>10, <1>11
  <2> QED
    BY <1>7, <2>2, <2>3 DEF Chained
<1>12. ChainKept(i)'
  BY <1>7, <1>10, <1>11 DEF ChainKept, Last
<1>13. \A j \in Items : ChainKept(j)'
  BY <1>8, <1>12 DEF ChainInv, ChainKept, Quoted
<1>14. ASSUME NEW v \in Writers, change'[v] # NoChange PROVE StartsFrom(change[v])'
  <2>1. PICK d \in ChangeType : d = change[v] /\ change'[v] = d
    BY <1>4, <1>14 DEF TypeOK, ChangeType
  <2>2. StartsFrom(d) /\ d.item \in Items
    BY <1>14, <2>1 DEF ChainInv, ChangeType
  <2>3. CASE d.item # i
    BY <1>8, <2>1, <2>2, <2>3 DEF StartsFrom, Quoted
  <2>4. CASE d.item = i
    <3>1. ASSUME d.action # "create", Quoted(i)'
          PROVE  /\ d.before.version \in 1..L /\ d.quoted <= d.before.version
                 /\ d.before = Leaves(log[i][d.before.version])
      BY <1>0, <1>9, <2>2, <2>4, <3>1 DEF StartsFrom
    <3>2. ASSUME d.action # "create", Quoted(i)'
          PROVE  /\ d.before.version \in 1..Len(log'[i])
                 /\ d.before = Leaves(log'[i][d.before.version])
      BY <1>7, <3>1, <3>2
    <3> QED
      BY <2>1, <2>4, <3>1, <3>2 DEF StartsFrom
  <2> QED
    BY <2>3, <2>4
<1> QED
  BY <1>13, <1>14 DEF ChainInv

LEMMA ChainInit == Init => ChainInv
<1> SUFFICES ASSUME Init PROVE ChainInv
  OBVIOUS
<1>1. ASSUME NEW i \in Items PROVE ChainKept(i)
  <2>1. log[i] = <<>>
    BY DEF Init
  <2> QED
    BY <2>1 DEF ChainKept, Chained
<1> QED
  BY <1>1 DEF Init, ChainInv

LEMMA ChainNext == Inv /\ ChainInv /\ [Next]_vars => ChainInv'
<1> SUFFICES ASSUME Inv, ChainInv, [Next]_vars PROVE ChainInv'
  OBVIOUS
<1>1. ASSUME row' = row, log' = log,
             \A w \in Writers : change'[w] = change[w] \/ change'[w] = NoChange
      PROVE  ChainInv'
  BY <1>1 DEF ChainInv, ChainKept, StartsFrom, Quoted
<1>2. ASSUME NEW w \in Writers, Abort(w) \/ TryAgain(w) PROVE ChainInv'
  BY <1>1, <1>2 DEF Abort, TryAgain, Inv, TypeOK
<1>3. CASE UNCHANGED vars
  BY <1>1, <1>3 DEF vars
<1> QED
  BY <1>2, <1>3, ChainPlan, ChainCommit, NextSteps

(* While the writers of an item quote the version that they were shown,    *)
(* each revision starts from what the one before it left and versions      *)
(* count revisions: no write is lost, though what a transaction checked    *)
(* may be old when it writes (UpdateMemoryItemWithVersionWithDB).          *)
THEOREM QuotedChain == Spec => []QuotedChainIsWhole
<1>1. Inv /\ ChainInv => QuotedChainIsWhole
  BY DEF ChainInv, ChainKept, Quoted, QuotedChainIsWhole
<1>2. Init => Inv /\ ChainInv
  BY SoundInit, LogInit, ChainInit DEF Inv
<1>3. Inv /\ ChainInv /\ [Next]_vars => (Inv /\ ChainInv)'
  BY TypeNext, LogNext, ChainNext DEF Inv
<1> QED
  BY <1>1, <1>2, <1>3, PTL DEF Spec
=============================================================================
