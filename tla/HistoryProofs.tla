--------------------------- MODULE HistoryProofs ---------------------------
(***************************************************************************)
(* What is made of the stored messages of a session: the requests that the *)
(* model interfaces are sent, and the history that the user interface      *)
(* shows.  They rest on the invariant of the session in ReactProofs.       *)
(***************************************************************************)
EXTENDS ReactProofs

-----------------------------------------------------------------------------
(* Sequences that are joined.                                              *)

\* Item n of flat is item off[n] of the sequence blk[n] of the first k, and
\* the items are in the order of the sequences, then of their own.
Laid(seqs, k, flat, blk, off) ==
  /\ \A n \in DOMAIN flat :
       /\ blk[n] \in 1..k /\ off[n] \in DOMAIN seqs[blk[n]] /\ flat[n] = seqs[blk[n]][off[n]]
  /\ \A m, n \in DOMAIN flat : m < n => blk[m] < blk[n] \/ (blk[m] = blk[n] /\ off[m] < off[n])
  /\ \A b \in 1..k : \A o \in DOMAIN seqs[b] : \E n \in DOMAIN flat : blk[n] = b /\ off[n] = o
Joined(seqs, k, flat) ==
  \E blk \in [DOMAIN flat -> Nat], off \in [DOMAIN flat -> Nat] : Laid(seqs, k, flat, blk, off)

LEMMA Joins ==
  ASSUME NEW S, NEW seqs \in Seq(Seq(S)), NEW k \in Nat, k + 1 \in DOMAIN seqs,
         NEW flat \in Seq(S), Joined(seqs, k, flat)
  PROVE  flat \o seqs[k + 1] \in Seq(S) /\ Joined(seqs, k + 1, flat \o seqs[k + 1])
<1>1. PICK next \in Seq(S) : next = seqs[k + 1]
  OBVIOUS
<1>2. PICK p \in Nat : p = Len(flat) /\ DOMAIN flat = 1..p
  OBVIOUS
<1>3. PICK q \in Nat : q = Len(next) /\ DOMAIN next = 1..q
  OBVIOUS
<1>4. PICK all \in Seq(S) : all = flat \o next
  BY ConcatProperties
<1>5. /\ DOMAIN all = 1..(p + q) /\ Len(all) = p + q
      /\ \A n \in 1..p : all[n] = flat[n]
      /\ \A n \in 1..(p + q) : ~(n <= p) => all[n] = next[n - p]
  BY <1>2, <1>3, <1>4
<1>6. PICK blk \in [1..p -> Nat], off \in [1..p -> Nat] : Laid(seqs, k, flat, blk, off)
  BY <1>2 DEF Joined
<1>7. PICK blks : blks = [n \in 1..(p + q) |-> IF n <= p THEN blk[n] ELSE k + 1]
  OBVIOUS
<1>8. PICK offs : offs = [n \in 1..(p + q) |-> IF n <= p THEN off[n] ELSE n - p]
  OBVIOUS
<1>9. /\ \A n \in 1..p : n \in 1..(p + q) /\ blks[n] = blk[n] /\ offs[n] = off[n] /\ blk[n] \in Nat /\ off[n] \in Nat
      /\ \A n \in 1..(p + q) : ~(n <= p) => blks[n] = k + 1 /\ offs[n] = n - p /\ n - p \in 1..q
      /\ \A n \in 1..(p + q) : n <= p => n \in 1..p
  <2>1. /\ \A n \in 1..p : n \in 1..(p + q) /\ n <= p
        /\ \A n \in 1..(p + q) : n <= p => n \in 1..p
        /\ \A n \in 1..(p + q) : ~(n <= p) => n - p \in 1..q
    OBVIOUS
  <2>2. \A n \in 1..p : blks[n] = blk[n] /\ offs[n] = off[n]
    BY <1>7, <1>8, <2>1
  <2>3. \A n \in 1..p : blk[n] \in Nat /\ off[n] \in Nat
    BY <1>6
  <2>4. \A n \in 1..(p + q) : ~(n <= p) => blks[n] = k + 1 /\ offs[n] = n - p
    BY <1>7, <1>8
  <2> QED
    BY <2>1, <2>2, <2>3, <2>4
<1>10. blks \in [1..(p + q) -> Nat] /\ offs \in [1..(p + q) -> Nat]
  <2>1. ASSUME NEW n \in 1..(p + q) PROVE blks[n] \in Nat /\ offs[n] \in Nat
    <3>1. CASE n <= p
      BY <1>9, <3>1
    <3>2. CASE ~(n <= p)
      BY <1>9, <3>2
    <3> QED
      BY <3>1, <3>2
  <2> QED
    BY <1>7, <1>8, <2>1
<1>11. ASSUME NEW n \in 1..(p + q)
       PROVE  blks[n] \in 1..(k + 1) /\ offs[n] \in DOMAIN seqs[blks[n]] /\ all[n] = seqs[blks[n]][offs[n]]
  <2>1. CASE n <= p
    <3>1. n \in 1..p /\ blks[n] = blk[n] /\ offs[n] = off[n] /\ all[n] = flat[n]
      BY <1>5, <1>9, <2>1
    <3>2. blk[n] \in 1..k /\ off[n] \in DOMAIN seqs[blk[n]] /\ flat[n] = seqs[blk[n]][off[n]]
      BY <1>2, <1>6, <3>1 DEF Laid
    <3>3. blk[n] \in 1..(k + 1)
      BY <3>2
    <3> QED
      BY <3>1, <3>2, <3>3
  <2>2. CASE ~(n <= p)
    <3>1. blks[n] = k + 1 /\ offs[n] = n - p /\ n - p \in 1..q /\ all[n] = next[n - p]
      BY <1>5, <1>9, <2>2
    <3> QED
      BY <1>1, <1>3, <3>1
  <2> QED
    BY <2>1, <2>2
<1>12. ASSUME NEW m \in 1..(p + q), NEW n \in 1..(p + q), m < n
       PROVE  blks[m] < blks[n] \/ (blks[m] = blks[n] /\ offs[m] < offs[n])
  <2>1. CASE n <= p
    <3>1. m \in 1..p /\ n \in 1..p
      BY <1>2, <1>3, <1>12, <2>1
    <3>2. blk[m] < blk[n] \/ (blk[m] = blk[n] /\ off[m] < off[n])
      BY <1>2, <1>6, <1>12, <3>1 DEF Laid
    <3> QED
      BY <1>9, <3>1, <3>2
  <2>2. CASE m <= p /\ ~(n <= p)
    <3>1. m \in 1..p /\ blks[m] = blk[m] /\ blks[n] = k + 1
      BY <1>9, <2>2
    <3>2. blk[m] \in 1..k
      BY <1>2, <1>6, <3>1 DEF Laid
    <3> QED
      BY <3>1, <3>2
  <2>3. CASE ~(m <= p)
    <3>1. ~(n <= p)
      BY <1>2, <1>3, <1>12, <2>3
    <3>2. blks[m] = k + 1 /\ blks[n] = k + 1 /\ offs[m] = m - p /\ offs[n] = n - p
      BY <1>9, <2>3, <3>1
    <3> QED
      BY <1>2, <1>3, <1>12, <3>2
  <2> QED
    BY <2>1, <2>2, <2>3
<1>13. ASSUME NEW b \in 1..(k + 1), NEW o \in DOMAIN seqs[b]
       PROVE  \E n \in 1..(p + q) : blks[n] = b /\ offs[n] = o
  <2>1. CASE b = k + 1
    <3>1. o \in 1..q
      BY <1>1, <1>3, <1>13, <2>1
    <3>2. p + o \in 1..(p + q) /\ ~(p + o <= p) /\ (p + o) - p = o
      BY SMTT(20), <1>2, <1>3, <3>1
    <3> QED
      BY <1>9, <2>1, <3>2
  <2>2. CASE b # k + 1
    <3>1. b \in 1..k
      BY <2>2
    <3>2. PICK n \in 1..p : blk[n] = b /\ off[n] = o
      BY <1>2, <1>6, <1>13, <3>1 DEF Laid
    <3> QED
      BY <1>9, <3>2
  <2> QED
    BY <2>1, <2>2
<1>14. Laid(seqs, k + 1, all, blks, offs)
  <2>1. \A n \in DOMAIN all :
          blks[n] \in 1..(k + 1) /\ offs[n] \in DOMAIN seqs[blks[n]] /\ all[n] = seqs[blks[n]][offs[n]]
    BY <1>5, <1>11
  <2>2. \A m, n \in DOMAIN all : m < n => blks[m] < blks[n] \/ (blks[m] = blks[n] /\ offs[m] < offs[n])
    BY <1>5, <1>12
  <2>3. \A b \in 1..(k + 1) : \A o \in DOMAIN seqs[b] : \E n \in DOMAIN all : blks[n] = b /\ offs[n] = o
    <3>1. ASSUME NEW b \in 1..(k + 1), NEW o \in DOMAIN seqs[b]
          PROVE  \E n \in DOMAIN all : blks[n] = b /\ offs[n] = o
      <4>1. \E n \in 1..(p + q) : blks[n] = b /\ offs[n] = o
        BY <1>13
      <4>2. DOMAIN all = 1..(p + q)
        BY <1>5
      <4> QED
        BY <4>1, <4>2, Zenon
    <3> QED
      BY <3>1, Zenon
  <2> QED
    BY <2>1, <2>2, <2>3 DEF Laid
<1> QED
  BY <1>1, <1>4, <1>5, <1>10, <1>14 DEF Joined

LEMMA JoinsNone ==
  ASSUME NEW seqs
  PROVE  Joined(seqs, 0, <<>>)
<1>1. PICK f : f = [n \in {} |-> 0]
  OBVIOUS
<1>2. DOMAIN <<>> = {}
  OBVIOUS
<1>3. f \in [{} -> Nat] /\ Laid(seqs, 0, <<>>, f, f)
  BY <1>1, <1>2 DEF Laid
<1> QED
  BY <1>2, <1>3 DEF Joined

\* The sequences up to each.
UpTo(f, seqs, k) == f[1] = seqs[1] /\ \A n \in 2..k : f[n] = f[n - 1] \o seqs[n]

LEMMA JoinedUpTo ==
  ASSUME NEW S, NEW seqs \in Seq(Seq(S)), NEW k \in DOMAIN seqs, NEW f, UpTo(f, seqs, k)
  PROVE  \A n \in 1..k : f[n] \in Seq(S) /\ Joined(seqs, n, f[n])
<1>1. k \in Nat /\ k <= Len(seqs) /\ DOMAIN seqs = 1..Len(seqs) /\ Len(seqs) \in Nat
  OBVIOUS
<1> DEFINE Bad == {n \in 1..k : ~(f[n] \in Seq(S) /\ Joined(seqs, n, f[n]))}
<1> SUFFICES ASSUME NEW x \in Bad PROVE FALSE
  OBVIOUS
<1>2. Bad \in SUBSET Nat
  BY <1>1
<1>3. PICK n \in Bad : \A m \in Bad : n <= m
  BY <1>2, Least
<1>4. n \in 1..k /\ n \in DOMAIN seqs /\ 1 \in DOMAIN seqs
  BY <1>1, <1>3
<1>5. CASE n = 1
  <2>1. seqs[1] \in Seq(S) /\ f[1] = seqs[1]
    BY <1>4 DEF UpTo
  <2>2. PICK none : none = <<>>
    OBVIOUS
  <2>3. none \in Seq(S) /\ Joined(seqs, 0, none)
    BY <2>2, JoinsNone
  <2>4. 0 + 1 \in DOMAIN seqs /\ 0 + 1 = 1
    BY <1>4
  <2>5. none \o seqs[0 + 1] \in Seq(S) /\ Joined(seqs, 0 + 1, none \o seqs[0 + 1])
    BY <2>3, <2>4, Joins
  <2>6. none \o seqs[1] = seqs[1]
    BY <2>1, <2>2
  <2> QED
    BY <1>3, <1>5, <2>1, <2>4, <2>5, <2>6
<1>6. CASE n # 1
  <2>1. n \in 2..k /\ n - 1 \in Nat /\ n - 1 \in 1..k /\ (n - 1) + 1 = n /\ ~(n <= n - 1)
    BY <1>1, <1>4, <1>6
  <2>2. n - 1 \notin Bad
    BY <1>3, <2>1
  <2>3. f[n - 1] \in Seq(S) /\ Joined(seqs, n - 1, f[n - 1])
    BY <2>1, <2>2
  <2>4. f[n] = f[n - 1] \o seqs[n]
    BY <2>1 DEF UpTo
  <2>5. PICK m \in Nat : m = n - 1
    BY <2>1
  <2>6. PICK flat \in Seq(S) : flat = f[m]
    BY <2>3, <2>5
  <2>7. m + 1 \in DOMAIN seqs /\ m + 1 = n /\ Joined(seqs, m, flat) /\ f[n] = flat \o seqs[m + 1]
    BY <1>4, <2>1, <2>3, <2>4, <2>5, <2>6
  <2>8. flat \o seqs[m + 1] \in Seq(S) /\ Joined(seqs, m + 1, flat \o seqs[m + 1])
    BY <2>7, Joins
  <2> QED
    BY <1>3, <2>7, <2>8
<1> QED
  BY <1>5, <1>6

LEMMA UpToExists ==
  ASSUME NEW S, NEW seqs \in Seq(Seq(S))
  PROVE  \A k \in DOMAIN seqs : \E f : f = [n \in 1..k |-> f[n]] /\ UpTo(f, seqs, k)
<1> DEFINE Bad == {k \in DOMAIN seqs : ~\E f : f = [n \in 1..k |-> f[n]] /\ UpTo(f, seqs, k)}
<1> SUFFICES ASSUME NEW x \in Bad PROVE FALSE
  OBVIOUS
<1>1. PICK size \in Nat : size = Len(seqs) /\ DOMAIN seqs = 1..size
  OBVIOUS
<1>2. Bad \in SUBSET Nat
  BY <1>1
<1>3. PICK k \in Bad : \A m \in Bad : k <= m
  BY <1>2, Least
<1>4. k \in 1..size
  BY <1>1, <1>3
<1>5. k # 1
  <2>1. PICK f : f = [n \in 1..1 |-> seqs[1]]
    OBVIOUS
  <2>2. f = [n \in 1..1 |-> f[n]] /\ UpTo(f, seqs, 1)
    BY <2>1 DEF UpTo
  <2> QED
    BY <1>3, <2>2
<1>6. k - 1 \in 1..size /\ ~(k <= k - 1)
  BY <1>1, <1>4, <1>5
<1>7. k - 1 \notin Bad
  BY <1>3, <1>6
<1>8. PICK f : f = [n \in 1..(k - 1) |-> f[n]] /\ UpTo(f, seqs, k - 1)
  BY <1>1, <1>6, <1>7
<1>9. PICK last : last = f[k - 1] \o seqs[k]
  OBVIOUS
<1>10. PICK g : g = [n \in 1..k |-> IF n = k THEN last ELSE f[n]]
  OBVIOUS
<1>11. g[1] = seqs[1]
  <2>1. 1 \in 1..k /\ 1 # k
    BY <1>4, <1>5
  <2>2. g[1] = f[1]
    BY <1>10, <2>1
  <2> QED
    BY <1>8, <2>2 DEF UpTo
<1>12. ASSUME NEW n \in 2..k PROVE g[n] = g[n - 1] \o seqs[n]
  <2>1. n - 1 \in 1..k /\ n - 1 # k /\ n \in 1..k /\ g[n - 1] = f[n - 1]
    BY <1>4, <1>10
  <2>2. CASE n = k
    BY <1>9, <1>10, <2>1, <2>2
  <2>3. CASE n # k
    <3>1. n \in 2..(k - 1) /\ g[n] = f[n]
      BY <1>4, <1>10, <2>3
    <3> QED
      BY <1>8, <2>1, <3>1 DEF UpTo
  <2> QED
    BY <2>2, <2>3
<1>13. g = [n \in 1..k |-> g[n]]
  BY <1>10
<1> QED
  BY <1>3, <1>11, <1>12, <1>13 DEF UpTo

LEMMA Flattened ==
  ASSUME NEW S, NEW seqs \in Seq(Seq(S))
  PROVE  FlattenSeq(seqs) \in Seq(S) /\ Joined(seqs, Len(seqs), FlattenSeq(seqs))
<1>1. PICK size \in Nat : size = Len(seqs) /\ DOMAIN seqs = 1..size
  OBVIOUS
<1>2. CASE size = 0
  <2>1. seqs = <<>> /\ FlattenSeq(seqs) = seqs
    BY <1>1, <1>2 DEF FlattenSeq
  <2>2. <<>> \in Seq(S) /\ Joined(seqs, 0, <<>>)
    BY JoinsNone
  <2>3. Len(seqs) = 0
    BY <1>1, <1>2
  <2>4. Joined(seqs, Len(seqs), <<>>)
    BY <2>2, <2>3
  <2> QED
    BY <2>1, <2>2, <2>4
<1>3. CASE size # 0
  <2>1. size \in DOMAIN seqs
    BY <1>1, <1>3
  <2>2. PICK f : f = [n \in 1..size |-> f[n]] /\ UpTo(f, seqs, size)
    BY <2>1, UpToExists
  <2> DEFINE fill(a) == [n \in 1..Len(seqs) |-> IF n = 1 THEN seqs[n] ELSE a[n - 1] \o seqs[n]]
             flatten == CHOOSE a : a = fill(a)
  <2>3. f = fill(f)
    <3>1. \A n \in 1..size : f[n] = IF n = 1 THEN seqs[n] ELSE f[n - 1] \o seqs[n]
      <4>1. \A n \in 1..size : n = 1 \/ n \in 2..size
        BY <1>1
      <4> QED
        BY <2>2, <4>1 DEF UpTo
    <3> QED
      BY <1>1, <2>2, <3>1
  <2>4. flatten = fill(flatten)
    BY <2>3
  <2>5. PICK a : a = flatten /\ a = fill(a)
    BY <2>4
  <2>6. FlattenSeq(seqs) = a[size]
    BY <1>1, <1>3, <2>5 DEF FlattenSeq
  <2> HIDE DEF flatten
  <2>7. UpTo(a, seqs, size)
    <3>1. \A n \in 1..size : a[n] = IF n = 1 THEN seqs[n] ELSE a[n - 1] \o seqs[n]
      BY <1>1, <2>5
    <3>2. 1 \in 1..size /\ \A n \in 2..size : n \in 1..size /\ n # 1
      BY <1>1, <1>3
    <3> QED
      BY <3>1, <3>2 DEF UpTo
  <2>8. \A n \in 1..size : a[n] \in Seq(S) /\ Joined(seqs, n, a[n])
    BY <2>1, <2>7, JoinedUpTo
  <2> QED
    BY <1>1, <2>1, <2>6, <2>8
<1> QED
  BY <1>2, <1>3
-----------------------------------------------------------------------------
(* The messages of a request.                                              *)

\* What a stored message becomes: one message, or of a result one or more,
\* each with answers of its own.
BlockOf(row, i, block) ==
  IF row.type = "tool_result"
  THEN /\ \A n \in DOMAIN block :
            block[n].of = row.for /\ block[n].answers # {} /\ block[n].answers \subseteq row.answers
       /\ \A m, n \in DOMAIN block : m < n => block[m].answers \cap block[n].answers = {}
  ELSE /\ DOMAIN block = {1}
       /\ block[1].of = i /\ block[1].calls = 1..row.uses /\ block[1].answers = {}

\* A result at place n follows the message at place m that asked for it.
Follow(sent, m, n) ==
  /\ sent[m].of = sent[n].of /\ sent[n].answers \subseteq sent[m].calls
  /\ \A l \in (m + 1)..(n - 1) :
       /\ sent[l].of = sent[n].of
       /\ sent[l].answers # {} /\ sent[l].answers \cap sent[n].answers = {}
SentWhole(sent) == \A n \in DOMAIN sent : sent[n].answers # {} => \E m \in 1..(n - 1) : Follow(sent, m, n)

LEMMA BlocksFollow ==
  ASSUME ContextAssumption, NEW rs, StoreInv(rs), NEW cx, CtxWhole(rs, cx),
         NEW S, NEW blocks \in Seq(Seq(S)), DOMAIN blocks = DOMAIN cx,
         \A b \in DOMAIN cx : BlockOf(rs[cx[b]], cx[b], blocks[b]),
         NEW sent \in Seq(S), NEW k \in Nat, DOMAIN blocks = 1..k, Joined(blocks, k, sent)
  PROVE  SentWhole(sent)
<1>1. PICK size \in Nat : DOMAIN sent = 1..size
  OBVIOUS
<1>2. PICK blk \in [1..size -> Nat], off \in [1..size -> Nat] : Laid(blocks, k, sent, blk, off)
  BY <1>1 DEF Joined
<1>3. \A n \in 1..size : blk[n] \in DOMAIN cx /\ off[n] \in DOMAIN blocks[blk[n]] /\ sent[n] = blocks[blk[n]][off[n]]
  BY <1>1, <1>2 DEF Laid
<1>4. \A m, n \in 1..size : m < n => blk[m] < blk[n] \/ (blk[m] = blk[n] /\ off[m] < off[n])
  BY <1>1, <1>2 DEF Laid
<1>5. /\ \A n \in 1..size : blk[n] \in Nat
      /\ \A b \in DOMAIN cx : b \in Nat
  BY <1>2
<1>6. \A b \in DOMAIN cx : cx[b] \in DOMAIN rs
  <2>1. cx \in Seq(DOMAIN rs)
    BY DEF CtxWhole
  <2> QED
    BY ONLY <2>1
<1>7. ASSUME NEW b \in DOMAIN cx, IsRes(rs, cx[b])
      PROVE  /\ \A o \in DOMAIN blocks[b] :
                  /\ blocks[b][o].of = rs[cx[b]].for /\ blocks[b][o].answers # {}
                  /\ blocks[b][o].answers \subseteq rs[cx[b]].answers
             /\ \A o, u \in DOMAIN blocks[b] : o < u => blocks[b][o].answers \cap blocks[b][u].answers = {}
  <2>1. rs[cx[b]].type = "tool_result" /\ BlockOf(rs[cx[b]], cx[b], blocks[b])
    BY <1>7 DEF IsRes
  <2> QED
    BY <2>1 DEF BlockOf
<1>8. ASSUME NEW b \in DOMAIN cx, ~IsRes(rs, cx[b])
      PROVE  /\ DOMAIN blocks[b] = {1} /\ blocks[b][1].of = cx[b]
             /\ blocks[b][1].calls = 1..rs[cx[b]].uses /\ blocks[b][1].answers = {}
  <2>1. rs[cx[b]].type # "tool_result" /\ BlockOf(rs[cx[b]], cx[b], blocks[b])
    BY <1>8 DEF IsRes
  <2> QED
    BY <2>1 DEF BlockOf
<1> SUFFICES ASSUME NEW n \in 1..size, sent[n].answers # {}
             PROVE  \E m \in 1..(n - 1) : Follow(sent, m, n)
  BY <1>1 DEF SentWhole
<1>9. PICK b \in DOMAIN cx : b = blk[n] /\ b \in Nat
  BY <1>3, <1>5
<1>10. off[n] \in DOMAIN blocks[b] /\ sent[n] = blocks[b][off[n]]
  BY <1>3, <1>9
<1>11. IsRes(rs, cx[b])
  <2> SUFFICES ASSUME ~IsRes(rs, cx[b]) PROVE FALSE
    OBVIOUS
  <2>1. DOMAIN blocks[b] = {1} /\ blocks[b][1].answers = {}
    BY <1>8
  <2> QED
    BY <1>10, <2>1
<1>12. PICK j \in DOMAIN rs : j = cx[b]
  BY <1>6
<1>13. /\ sent[n].of = rs[j].for /\ sent[n].answers \subseteq rs[j].answers /\ IsRes(rs, j)
  <2>1. \A o \in DOMAIN blocks[b] : /\ blocks[b][o].of = rs[cx[b]].for
                                    /\ blocks[b][o].answers \subseteq rs[cx[b]].answers
    BY <1>7, <1>11
  <2>2. /\ blocks[b][off[n]].of = rs[cx[b]].for
        /\ blocks[b][off[n]].answers \subseteq rs[cx[b]].answers
    BY <1>10, <2>1
  <2> QED
    BY <1>10, <1>11, <1>12, <2>2
<1>14. PICK a : a = rs[j].for
  OBVIOUS
<1>15. /\ rs[a].type = "assistant" /\ rs[j].answers \subseteq 1..rs[a].uses
       /\ \A l \in DOMAIN rs : l # j /\ IsRes(rs, l) /\ rs[l].for = a => rs[l].answers \cap rs[j].answers = {}
  BY <1>13, <1>14 DEF StoreInv, ResultsOf
<1>16. PICK p \in DOMAIN cx : cx[p] = a
  BY <1>11, <1>12, <1>14 DEF CtxWhole, Asked
<1>17. ComesWith(rs, cx, p, j)
  BY <1>13, <1>14, <1>16 DEF CtxWhole, AnsweredIn
<1>18. /\ p < b
       /\ \A l \in DOMAIN cx : p < l /\ l <= b => IsRes(rs, cx[l]) /\ rs[cx[l]].for = a
  <2>1. PICK q \in DOMAIN cx :
          /\ cx[q] = j /\ p < q
          /\ \A l \in DOMAIN cx : p < l /\ l <= q => IsRes(rs, cx[l]) /\ rs[cx[l]].for = cx[p]
    BY <1>17 DEF ComesWith
  <2>2. q = b
    BY <1>12, <2>1 DEF CtxWhole, Once
  <2> QED
    BY <1>16, <2>1, <2>2
<1>19. ~IsRes(rs, cx[p])
  BY <1>15, <1>16 DEF IsRes
<1>20. /\ DOMAIN blocks[p] = {1} /\ blocks[p][1].of = a /\ blocks[p][1].calls = 1..rs[a].uses
  BY <1>8, <1>16, <1>19
<1>21. PICK m \in 1..size : blk[m] = p /\ off[m] = 1
  <2>1. \A c \in 1..k : \A o \in DOMAIN blocks[c] : \E x \in DOMAIN sent : blk[x] = c /\ off[x] = o
    BY <1>2 DEF Laid
  <2>2. p \in 1..k /\ 1 \in DOMAIN blocks[p]
    BY <1>20
  <2> QED
    BY SMTT(20), <1>1, <2>1, <2>2
<1>22. sent[m].of = a /\ sent[m].calls = 1..rs[a].uses
  BY <1>3, <1>20, <1>21
<1>23. p \in Nat /\ b \in Nat
  BY <1>5
<1>24. m < n
  <2>1. n < m => b < p \/ b = p
    BY <1>4, <1>9, <1>21
  <2>2. p < b
    BY <1>18
  <2>3. p \in Nat /\ b \in Nat /\ p # b /\ ~(b < p)
    <3>1. p \in Nat /\ b \in Nat
      BY <1>23
    <3> QED
      BY ONLY <2>2, <3>1
  <2>4. ~(n < m)
    BY <2>1, <2>3
  <2>5. n # m
    BY <1>9, <1>21, <2>3
  <2> QED
    BY <1>1, <2>4, <2>5
<1>25. ASSUME NEW l \in (m + 1)..(n - 1)
       PROVE  /\ sent[l].of = sent[n].of
              /\ sent[l].answers # {} /\ sent[l].answers \cap sent[n].answers = {}
  <2>1. l \in 1..size /\ m < l /\ l < n
    BY <1>1
  <2>2. PICK c \in DOMAIN cx : c = blk[l] /\ c \in Nat
    BY <1>3, <1>5, <2>1
  <2>3. off[l] \in DOMAIN blocks[c] /\ sent[l] = blocks[c][off[l]]
    BY <1>3, <2>1, <2>2
  <2>4. p < c
    <3>1. p < c \/ (p = c /\ 1 < off[l])
      BY <1>4, <1>21, <2>1, <2>2
    <3>2. p = c => off[l] = 1
      BY <1>20, <2>3
    <3>3. PICK o : o = off[l]
      OBVIOUS
    <3>4. p < c \/ (p = c /\ 1 < o)
      BY <3>1, <3>3
    <3>5. p = c => o = 1
      BY <3>2, <3>3
    <3> QED
      BY ONLY <3>4, <3>5
  <2>5. c < b \/ (c = b /\ off[l] < off[n])
    BY <1>4, <1>9, <2>1, <2>2
  <2>6. c <= b
    <3>1. c \in Nat /\ b \in Nat
      BY <1>23, <2>2
    <3> QED
      BY ONLY <2>5, <3>1
  <2>7. IsRes(rs, cx[c]) /\ rs[cx[c]].for = a
    BY <1>18, <2>4, <2>6
  <2>8. sent[l].of = a /\ sent[l].answers # {} /\ sent[l].answers \subseteq rs[cx[c]].answers
    <3>1. \A o \in DOMAIN blocks[c] :
            /\ blocks[c][o].of = rs[cx[c]].for /\ blocks[c][o].answers # {}
            /\ blocks[c][o].answers \subseteq rs[cx[c]].answers
      BY <1>7, <2>7
    <3> QED
      BY <2>3, <2>7, <3>1
  <2>9. CASE c = b
    <3>1. off[l] < off[n] /\ off[l] \in DOMAIN blocks[b]
      BY <1>23, <2>3, <2>5, <2>9
    <3>2. blocks[b][off[l]].answers \cap blocks[b][off[n]].answers = {}
      BY <1>7, <1>10, <1>11, <3>1
    <3> QED
      BY <1>10, <1>13, <1>14, <2>3, <2>8, <2>9, <3>2
  <2>10. CASE c # b
    <3>1. cx[c] # j /\ cx[c] \in DOMAIN rs
      BY <1>6, <1>12, <2>10 DEF CtxWhole, Once
    <3>2. rs[cx[c]].answers \cap rs[j].answers = {}
      BY <1>15, <2>7, <3>1
    <3> QED
      BY <1>13, <1>14, <2>8, <3>2
  <2> QED
    BY <2>9, <2>10
<1>26. sent[m].of = sent[n].of /\ sent[n].answers \subseteq sent[m].calls
  BY <1>13, <1>14, <1>15, <1>22
<1>27. m \in 1..(n - 1)
  BY <1>24
<1> QED
  BY <1>25, <1>26, <1>27 DEF Follow

\* Numbers in their order: each of them once.
LEMMA InOrderOf ==
  ASSUME NEW asked \in SUBSET Nat, IsFiniteSet(asked)
  PROVE  /\ InOrder(asked) \in Seq(asked)
         /\ \A m, n \in DOMAIN InOrder(asked) : m < n => InOrder(asked)[m] # InOrder(asked)[n]
         /\ \A k \in asked : \E n \in DOMAIN InOrder(asked) : InOrder(asked)[n] = k
<1> DEFINE R == {p \in Nat \X Nat : p[1] < p[2]}
           f == InOrder(asked)
           below(k) == {j \in asked : j < k}
<1>1. asked \subseteq Nat /\ IsFiniteSet(asked)
  OBVIOUS
<1>2. \A i, j \in asked : <<i, j>> \in R <=> i < j
  BY <1>1
<1>3. f = [n \in 1..Cardinality(asked) |-> CHOOSE k \in asked : Cardinality(below(k)) = n - 1]
  BY DEF InOrder
<1> HIDE DEF R, f
<1>4. Orders(R, asked)
  BY <1>1, <1>2 DEF Orders
<1>5. \A i \in asked : Preceding(R, asked, i) = below(i)
  BY <1>2 DEF Preceding
<1> HIDE DEF below
<1>6. \A n \in 1..Cardinality(asked) : \E i \in asked : Cardinality(Preceding(R, asked, i)) = n - 1
  BY <1>1, <1>4, EachPlace
<1>7. ASSUME NEW n \in 1..Cardinality(asked)
      PROVE  f[n] \in asked /\ Cardinality(Preceding(R, asked, f[n])) = n - 1
  <2>1. \E i \in asked : Cardinality(below(i)) = n - 1
    BY <1>5, <1>6
  <2>2. f[n] = CHOOSE i \in asked : Cardinality(below(i)) = n - 1
    BY <1>3
  <2>3. f[n] \in asked /\ Cardinality(below(f[n])) = n - 1
    BY <2>1, <2>2
  <2> QED
    BY <1>5, <2>3
<1>8. f \in [1..Cardinality(asked) -> asked]
  <2> DEFINE nth(n) == CHOOSE i \in asked : Cardinality(below(i)) = n - 1
  <2>1. f = [n \in 1..Cardinality(asked) |-> nth(n)]
    BY <1>3
  <2> HIDE DEF nth
  <2>2. f = [n \in 1..Cardinality(asked) |-> f[n]]
    BY <2>1
  <2> QED
    BY <1>7, <2>2
<1>9. InPlaces(f, R, asked)
  <2>1. \A n \in 1..Cardinality(asked) : Cardinality(Preceding(R, asked, f[n])) = n - 1
    BY <1>7
  <2> QED
    BY <1>1, <1>4, <1>8, <2>1, Ranked
<1>10. /\ f \in Seq(asked) /\ \A m, n \in DOMAIN f : m < n => <<f[m], f[n]>> \in R
       /\ \A k \in asked : \E n \in DOMAIN f : f[n] = k
  BY <1>9 DEF InPlaces
<1>11. \A m, n \in DOMAIN f : m < n => f[m] # f[n]
  <2>1. \A n \in DOMAIN f : f[n] \in asked
    BY <1>10
  <2>2. \A i \in asked : ~(<<i, i>> \in R)
    BY <1>4 DEF Orders
  <2> QED
    BY <1>10, <2>1, <2>2
<1> QED
  BY <1>10, <1>11 DEF f

LEMMA InOrderIs ==
  ASSUME ContextAssumption, NEW asked \in SUBSET Calls
  PROVE  /\ InOrder(asked) \in Seq(asked)
         /\ \A m, n \in DOMAIN InOrder(asked) : m < n => InOrder(asked)[m] # InOrder(asked)[n]
<1>1. MaxCalls \in Nat /\ Calls = 1..MaxCalls
  BY DEF ContextAssumption, Calls
<1>2. IsFiniteSet(Calls) /\ Calls \in SUBSET Nat
  BY <1>1, FS_Interval
<1>3. asked \in SUBSET Nat /\ IsFiniteSet(asked)
  BY <1>2, FS_Subset
<1> QED
  BY ONLY <1>3, InOrderOf

Sents == [role : {"assistant", "user", "tool"}, of : Nat, calls : SUBSET Nat, answers : SUBSET Calls]

LEMMA SentIs ==
  ASSUME ContextAssumption, NEW role \in {"assistant", "user", "tool"}, NEW of \in Nat,
         NEW cs \in SUBSET Nat, NEW as \in SUBSET Calls
  PROVE  /\ Sent(role, of, cs, as) \in Sents /\ Sent(role, of, cs, as).of = of
         /\ Sent(role, of, cs, as).calls = cs /\ Sent(role, of, cs, as).answers = as
BY DEF Sent, Sents

\* ChatStreamWithTools of Claude.
LEMMA PartsAreOf ==
  ASSUME ContextAssumption, stored \in Seq(Rows), NEW i \in DOMAIN stored
  PROVE  PartMessages(i) \in Seq(Sents) /\ BlockOf(stored[i], i, PartMessages(i))
<1>1. PICK row \in Rows : row = stored[i]
  OBVIOUS
<1>2. /\ row.uses \in Nat /\ row.for \in Nat /\ row.answers \in SUBSET Calls
      /\ row.type = "tool_result" <=> row.answers # {}
  BY <1>1 DEF Rows
<1>3. PICK role : role = RoleOf(i) /\ role \in {"assistant", "user", "tool"}
  BY DEF RoleOf
<1>4. PICK of \in Nat : of = (IF row.type = "tool_result" THEN row.for ELSE i)
  BY <1>2
<1>5. 1..row.uses \in SUBSET Nat
  BY <1>2
<1>6. PICK block : block = <<Sent(role, of, 1..row.uses, row.answers)>>
  OBVIOUS
<1>7. PartMessages(i) = block
  BY <1>1, <1>3, <1>4, <1>6 DEF PartMessages, UsesOf, IsResult
<1>s. PICK s : s = Sent(role, of, 1..row.uses, row.answers)
  OBVIOUS
<1>8. s \in Sents /\ s.of = of /\ s.calls = 1..row.uses /\ s.answers = row.answers
  <2>1. row.answers \in SUBSET Calls /\ role \in {"assistant", "user", "tool"}
    BY <1>2, <1>3
  <2> QED
    BY <1>5, <1>s, <2>1 DEF Sent, Sents
<1>9. block = <<s>> /\ block \in Seq(Sents) /\ DOMAIN block = {1} /\ block[1] = s
  BY <1>6, <1>s, <1>8
<1>10. BlockOf(row, i, block)
  BY <1>2, <1>4, <1>8, <1>9 DEF BlockOf
<1> QED
  BY <1>1, <1>7, <1>9, <1>10

\* buildGPTToolMessages, buildMiniMaxToolMessages.
LEMMA ToolsAreOf ==
  ASSUME ContextAssumption, stored \in Seq(Rows), NEW i \in DOMAIN stored
  PROVE  ToolMessages(i) \in Seq(Sents) /\ BlockOf(stored[i], i, ToolMessages(i))
<1>1. PICK row \in Rows : row = stored[i]
  OBVIOUS
<1>2. /\ row.uses \in Nat /\ row.for \in Nat /\ row.answers \in SUBSET Calls
      /\ row.type = "tool_result" <=> row.answers # {}
  BY <1>1 DEF Rows
<1>3. CASE row.type = "tool_result"
  <2>1. PICK asked : asked = InOrder(row.answers)
    OBVIOUS
  <2>2. asked \in Seq(row.answers) /\ \A m, n \in DOMAIN asked : m < n => asked[m] # asked[n]
    BY <1>2, <2>1, InOrderIs
  <2>3. PICK size \in Nat : DOMAIN asked = 1..size /\ \A n \in 1..size : asked[n] \in row.answers /\ asked[n] \in Calls
    BY SMTT(20), <1>2, <2>2
  <2> DEFINE nth(n) == Sent("tool", row.for, {}, {asked[n]})
  <2>4. ASSUME NEW n \in 1..size
        PROVE  nth(n) \in Sents /\ nth(n).of = row.for /\ nth(n).answers = {asked[n]}
    <3>1. {asked[n]} \in SUBSET Calls /\ {} \in SUBSET Nat
      BY <2>3
    <3> QED
      BY SMTT(20), <1>2, <3>1, SentIs
  <2>5. ToolMessages(i) = [n \in 1..size |-> nth(n)]
    BY <1>1, <1>3, <2>1, <2>3 DEF ToolMessages, IsResult
  <2> HIDE DEF nth
  <2>6. PICK block : block = ToolMessages(i) /\ block = [n \in 1..size |-> nth(n)]
    BY <2>5
  <2>7. /\ DOMAIN block = 1..size
        /\ \A n \in 1..size : block[n] \in Sents /\ block[n].of = row.for /\ block[n].answers = {asked[n]}
    BY <2>4, <2>6
  <2>8. block \in Seq(Sents)
    BY <2>6, <2>7
  <2>9. BlockOf(row, i, block)
    <3>1. \A n \in DOMAIN block :
            block[n].of = row.for /\ block[n].answers # {} /\ block[n].answers \subseteq row.answers
      <4> SUFFICES ASSUME NEW n \in 1..size
                   PROVE  block[n].of = row.for /\ block[n].answers # {} /\ block[n].answers \subseteq row.answers
        BY <2>7
      <4>1. asked[n] \in row.answers
        BY <2>3
      <4>2. block[n].of = row.for /\ block[n].answers = {asked[n]}
        BY <2>7
      <4> QED
        BY <4>1, <4>2
    <3>2. \A m, n \in DOMAIN block : m < n => block[m].answers \cap block[n].answers = {}
      <4> SUFFICES ASSUME NEW m \in 1..size, NEW n \in 1..size, m < n
                   PROVE  block[m].answers \cap block[n].answers = {}
        BY <2>7
      <4>1. asked[m] # asked[n]
        BY <2>2, <2>3
      <4>2. block[m].answers = {asked[m]} /\ block[n].answers = {asked[n]}
        BY <2>7
      <4> QED
        BY <4>1, <4>2
    <3> QED
      BY <1>3, <3>1, <3>2 DEF BlockOf
  <2> QED
    BY <1>1, <2>6, <2>8, <2>9
<1>4. CASE row.type # "tool_result"
  <2>1. PICK role : role = RoleOf(i) /\ role \in {"assistant", "user", "tool"}
    BY DEF RoleOf
  <2>2. i \in Nat /\ 1..row.uses \in SUBSET Nat /\ {} \in SUBSET Calls
    BY <1>2
  <2>3. PICK block : block = <<Sent(role, i, 1..row.uses, {})>>
    OBVIOUS
  <2>4. ToolMessages(i) = block
    BY <1>1, <1>4, <2>1, <2>3 DEF ToolMessages, UsesOf, IsResult
  <2>s. PICK s : s = Sent(role, i, 1..row.uses, {})
    OBVIOUS
  <2>5. s \in Sents /\ s.of = i /\ s.calls = 1..row.uses /\ s.answers = {}
    <3>1. role \in {"assistant", "user", "tool"}
      BY <2>1
    <3> QED
      BY <2>2, <2>s, <3>1 DEF Sent, Sents
  <2>6. block = <<s>> /\ block \in Seq(Sents) /\ DOMAIN block = {1} /\ block[1] = s
    BY <2>3, <2>s, <2>5
  <2>7. BlockOf(row, i, block)
    BY <1>4, <2>5, <2>6 DEF BlockOf
  <2> QED
    BY <1>1, <2>4, <2>6, <2>7
<1> QED
  BY <1>3, <1>4

\* Every provider is sent the results after the message that asked for them:
\* between the two there are only results of the same message, and no call is
\* answered twice (alignKeepStartToTurnBoundary, closeInterruptedToolUse, ORDER
\* BY created_at, seq).
THEOREM ResultsFollowTheirCalls ==
  ASSUME ~FastUser
  PROVE  Spec => []RoundsAreWhole
<1>1. SessionInv => RoundsAreWhole
  <2> SUFFICES ASSUME SessionInv, NEW provider \in Providers
               PROVE  SentWhole(Request(provider))
    BY DEF RoundsAreWhole, SentWhole, Follow
  <2>1. PICK rs : rs = stored
    OBVIOUS
  <2>2. PICK cx : cx = ctx
    OBVIOUS
  <2>3. StoreInv(rs) /\ rs \in Seq(Rows) /\ CtxWhole(rs, cx) /\ cx \in Seq(DOMAIN rs)
    BY <2>1, <2>2 DEF SessionInv, SessionAt, StoreInv, CtxWhole
  <2>4. PICK k \in Nat : DOMAIN cx = 1..k
    BY <2>3
  <2>5. \A n \in 1..k : cx[n] \in DOMAIN stored
    <3>1. \A n \in DOMAIN cx : cx[n] \in DOMAIN rs
      BY ONLY <2>3
    <3> QED
      BY <2>1, <2>4, <3>1
  <2> DEFINE block(n) == IF provider = "claude" THEN PartMessages(cx[n]) ELSE ToolMessages(cx[n])
  <2>6. ASSUME NEW n \in 1..k PROVE block(n) \in Seq(Sents) /\ BlockOf(rs[cx[n]], cx[n], block(n))
    <3>1. PICK i \in DOMAIN stored : i = cx[n]
      BY <2>5
    <3>2. PartMessages(i) \in Seq(Sents) /\ BlockOf(stored[i], i, PartMessages(i))
      BY ContextAssumption, <2>1, <2>3, PartsAreOf
    <3>3. ToolMessages(i) \in Seq(Sents) /\ BlockOf(stored[i], i, ToolMessages(i))
      BY ContextAssumption, <2>1, <2>3, ToolsAreOf
    <3> QED
      BY <2>1, <3>1, <3>2, <3>3
  <2>7. Request(provider) = FlattenSeq([n \in 1..k |-> block(n)])
    BY <2>2, <2>4 DEF Request
  <2> HIDE DEF block
  <2>8. PICK blocks : blocks = [n \in 1..k |-> block(n)]
    OBVIOUS
  <2>9. blocks \in Seq(Seq(Sents)) /\ DOMAIN blocks = 1..k /\ Len(blocks) = k
    BY <2>6, <2>8
  <2>10. \A n \in DOMAIN cx : BlockOf(rs[cx[n]], cx[n], blocks[n])
    BY <2>4, <2>6, <2>8
  <2>11. PICK sent : sent = FlattenSeq(blocks)
    OBVIOUS
  <2>12. sent \in Seq(Sents) /\ Joined(blocks, k, sent)
    BY <2>9, <2>11, Flattened
  <2>13. DOMAIN blocks = DOMAIN cx
    BY <2>4, <2>9
  <2>14. SentWhole(sent)
    BY ContextAssumption, <2>3, <2>9, <2>10, <2>12, <2>13, BlocksFollow
  <2> QED
    BY <2>7, <2>8, <2>11, <2>14
<1>2. Spec => []SessionInv
  BY SessionHolds
<1> QED
  BY <1>1, <1>2, PTL
-----------------------------------------------------------------------------
(* The first rows of the runs.                                             *)

\* Each run has stored what its user said, with number 1 and before the rest.
Opened(rs, r) ==
  /\ \A q \in 1..r : \E i \in DOMAIN rs : rs[i].run = q
  /\ \A i \in DOMAIN rs : rs[i].type = "user_input" =>
       rs[i].seq = 1 /\ \A j \in DOMAIN rs : rs[j].run = rs[i].run => i <= j

LEMMA OneMore ==
  ASSUME NEW S, NEW rs \in Seq(S), NEW row, NEW new, new = Append(rs, row)
  PROVE  /\ Len(rs) \in Nat /\ DOMAIN rs = 1..Len(rs) /\ DOMAIN new = 1..(Len(rs) + 1)
         /\ new[Len(rs) + 1] = row /\ \A i \in DOMAIN rs : new[i] = rs[i]
OBVIOUS

LEMMA OpenedStays ==
  ASSUME NEW S, NEW rs \in Seq(S), NEW r, Opened(rs, r), NEW row, row.type # "user_input",
         NEW new, new = Append(rs, row)
  PROVE  Opened(new, r)
<1>1. PICK n \in Nat : n = Len(rs)
  BY LenProperties
<1>2. DOMAIN rs = 1..n /\ DOMAIN new = 1..(n + 1) /\ new[n + 1] = row /\ \A i \in 1..n : new[i] = rs[i]
  BY <1>1, OneMore
<1>3. ASSUME NEW q \in 1..r PROVE \E i \in DOMAIN new : new[i].run = q
  <2>1. PICK i \in 1..n : rs[i].run = q
    BY <1>2 DEF Opened
  <2> QED
    BY <1>2, <2>1
<1>4. ASSUME NEW i \in DOMAIN new, new[i].type = "user_input"
      PROVE  new[i].seq = 1 /\ \A j \in DOMAIN new : new[j].run = new[i].run => i <= j
  <2>1. i \in 1..n /\ new[i] = rs[i]
    BY <1>2, <1>4
  <2>2. rs[i].seq = 1 /\ \A j \in 1..n : rs[j].run = rs[i].run => i <= j
    BY <1>2, <1>4, <2>1 DEF Opened
  <2> QED
    BY <1>2, <2>1, <2>2
<1> QED
  BY <1>3, <1>4 DEF Opened

LEMMA OpenedNext ==
  ASSUME NEW S, NEW rs \in Seq(S), NEW r \in Nat, Opened(rs, r),
         \A i \in DOMAIN rs : rs[i].run \in Nat /\ rs[i].run <= r,
         NEW row, row.seq = 1, row.run = r + 1, NEW new, new = Append(rs, row)
  PROVE  Opened(new, r + 1)
<1>1. PICK n \in Nat : n = Len(rs)
  BY LenProperties
<1>2. DOMAIN rs = 1..n /\ DOMAIN new = 1..(n + 1) /\ new[n + 1] = row /\ \A i \in 1..n : new[i] = rs[i]
  BY <1>1, OneMore
<1>3. ASSUME NEW q \in 1..(r + 1) PROVE \E i \in DOMAIN new : new[i].run = q
  <2>1. CASE q = r + 1
    BY <1>2, <2>1
  <2>2. CASE q # r + 1
    <3>1. q \in 1..r
      BY <2>2
    <3>2. PICK i \in 1..n : rs[i].run = q
      BY <1>2, <3>1 DEF Opened
    <3> QED
      BY <1>2, <3>2
  <2> QED
    BY <2>1, <2>2
<1>4. ASSUME NEW i \in DOMAIN new, new[i].type = "user_input"
      PROVE  new[i].seq = 1 /\ \A j \in DOMAIN new : new[j].run = new[i].run => i <= j
  <2>1. CASE i = n + 1
    <3>1. \A j \in 1..n : new[j].run # r + 1
      BY <1>2
    <3> QED
      BY <1>2, <2>1, <3>1
  <2>2. CASE i # n + 1
    <3>1. i \in 1..n /\ new[i] = rs[i]
      BY <1>2, <2>2
    <3>2. rs[i].seq = 1 /\ \A j \in 1..n : rs[j].run = rs[i].run => i <= j
      BY <1>2, <1>4, <3>1 DEF Opened
    <3> QED
      BY <1>2, <3>1, <3>2
  <2> QED
    BY <2>1, <2>2
<1> QED
  BY <1>3, <1>4 DEF Opened

\* What a message is, whatever is added to it.
LEMMA MessageFields ==
  ASSUME NEW r, NEW q, NEW type, NEW at, NEW row, row = Message(r, q, type, at)
  PROVE  /\ row.run = r /\ row.seq = q /\ row.type = type
         /\ \A c, g : [row EXCEPT !.covers = c, !.gist = g].type = type
         /\ \A a, s : [row EXCEPT !.for = a, !.answers = s].type = type
         /\ \A n : [row EXCEPT !.uses = n].type = type
BY DEF Message

LEMMA OpenedHolds ==
  ASSUME ~FastUser
  PROVE  Spec => []Opened(stored, run)
<1>1. Init => Opened(stored, run)
  BY DEF Init, Opened
<1>2. ASSUME SessionInv, Opened(stored, run), [Next]_vars PROVE Opened(stored, run)'
  <2>1. stored \in Seq(Rows) /\ run \in Nat /\ Present(stored, run, clock)
    BY <1>2 DEF SessionInv, SessionAt, StoreInv, LoopTypes
  <2>2. PICK rs : rs = stored
    OBVIOUS
  <2>3. PICK new : new = stored'
    OBVIOUS
  <2>4. rs \in Seq(Rows) /\ Opened(rs, run)
    BY <1>2, <2>1, <2>2
  <2>5. ASSUME NEW row, row.type # "user_input", stored' = Append(stored, row), run' = run
        PROVE  Opened(stored, run)'
    <3>1. Opened(new, run)
      BY <2>2, <2>3, <2>4, <2>5, OpenedStays
    <3> QED
      BY <2>3, <2>5, <3>1
  <2>6. CASE StartRun
    <3>1. PICK row : row = Message(run + 1, 1, "user_input", clock')
      OBVIOUS
    <3>2. row.run = run + 1 /\ row.seq = 1
      BY <3>1, MessageFields
    <3>3. \A i \in DOMAIN rs : rs[i].run \in Nat /\ rs[i].run <= run
      BY ContextAssumption, <2>1, <2>2, Fields DEF Present
    <3>4. new = Append(rs, row)
      BY <2>2, <2>3, <2>6, <3>1 DEF StartRun
    <3>5. Opened(new, run + 1)
      BY <2>1, <2>4, <3>2, <3>3, <3>4, OpenedNext
    <3> QED
      BY <2>3, <2>6, <3>5 DEF StartRun
  <2>7. CASE Compact
    <3>1. PICK c, g : /\ stored' = Append(stored, [Message(run, MaxSeqOf(run) + 1, "compact_summary", clock)
                                                     EXCEPT !.covers = c, !.gist = g])
                      /\ run' = run
      BY <2>7 DEF Compact
    <3>2. PICK m : m = Message(run, MaxSeqOf(run) + 1, "compact_summary", clock)
      OBVIOUS
    <3>3. [m EXCEPT !.covers = c, !.gist = g].type = "compact_summary"
      BY <3>2, MessageFields
    <3> QED
      BY <2>5, <3>1, <3>2, <3>3
  <2>8. CASE ModelRound
    <3>1. PICK n : /\ stored' = Append(stored, [Message(run, MaxSeqOf(run) + 1, "assistant", clock + 1)
                                                  EXCEPT !.uses = n])
                   /\ run' = run
      BY <2>8 DEF ModelRound
    <3>2. PICK m : m = Message(run, MaxSeqOf(run) + 1, "assistant", clock + 1)
      OBVIOUS
    <3>3. [m EXCEPT !.uses = n].type = "assistant"
      BY <3>2, MessageFields
    <3> QED
      BY <2>5, <3>1, <3>2, <3>3
  <2>9. CASE ModelCut
    <3>1. PICK m : m = Message(run, MaxSeqOf(run) + 1, "assistant_partial", clock + 1)
      OBVIOUS
    <3>2. m.type = "assistant_partial"
      BY <3>1, MessageFields
    <3> QED
      BY <2>5, <2>9, <3>1, <3>2 DEF ModelCut
  <2>10. CASE BatchDone
    <3>1. PICK m : m = Message(run, MaxSeqOf(run) + 1, "tool_result", clock)
      OBVIOUS
    <3>2. [m EXCEPT !.for = Asking, !.answers = Uses].type = "tool_result"
      BY <3>1, MessageFields
    <3> QED
      BY <2>5, <2>10, <3>1, <3>2 DEF BatchDone
  <2>11. ASSUME NEW k \in Calls, CallClose(k) PROVE Opened(stored, run)'
    <3>1. CASE stored' = stored
      BY <1>2, <2>11, <3>1 DEF CallClose
    <3>2. CASE stored' # stored
      <4>1. PICK m : m = Message(run, maxSeq[k] + 1, "tool_result", clock)
        OBVIOUS
      <4>2. [m EXCEPT !.for = Asking, !.answers = {k}].type = "tool_result"
        BY <4>1, MessageFields
      <4> QED
        BY <2>5, <2>11, <3>2, <4>1, <4>2 DEF CallClose
    <3> QED
      BY <3>1, <3>2
  <2>12. CASE UNCHANGED <<stored, run>>
    BY <1>2, <2>12
  <2>13. CASE Stop \/ Fail \/ NoCompact \/ BatchFailed \/ UNCHANGED vars
    BY <2>12, <2>13 DEF Stop, Fail, NoCompact, BatchFailed, vars
  <2>14. ASSUME NEW k \in Calls, CallStart(k) \/ CallReturn(k) \/ CallFail(k) \/ CallInterrupted(k)
         PROVE  Opened(stored, run)'
    BY <2>12, <2>14 DEF CallStart, CallReturn, CallFail, CallInterrupted
  <2> QED
    BY <1>2, <2>6, <2>7, <2>8, <2>9, <2>10, <2>11, <2>13, <2>14 DEF Next, CallStep
<1>3. Spec => []SessionInv
  BY SessionHolds
<1> QED
  BY <1>1, <1>2, <1>3, PTL DEF Spec
-----------------------------------------------------------------------------
(* The timeline.                                                           *)

\* A time, a run, a number in the run and a key come before others.
Ahead(a, r, s, i, b, q, t, j) ==
  a < b \/ (a = b /\ (r < q \/ (r = q /\ (s < t \/ (s = t /\ i < j)))))

LEMMA AheadOrders ==
  ASSUME NEW a \in Nat, NEW r \in Nat, NEW s \in Nat, NEW i \in Nat,
         NEW b \in Nat, NEW q \in Nat, NEW t \in Nat, NEW j \in Nat,
         NEW c \in Nat, NEW p \in Nat, NEW u \in Nat, NEW k \in Nat
  PROVE  Ahead(a, r, s, i, b, q, t, j) /\ Ahead(b, q, t, j, c, p, u, k) => Ahead(a, r, s, i, c, p, u, k)
BY DEF Ahead

LEMMA AheadDecides ==
  ASSUME NEW a \in Nat, NEW r \in Nat, NEW s \in Nat, NEW i \in Nat,
         NEW b \in Nat, NEW q \in Nat, NEW t \in Nat, NEW j \in Nat
  PROVE  i # j => Ahead(a, r, s, i, b, q, t, j) \/ Ahead(b, q, t, j, a, r, s, i)
BY DEF Ahead

LEMMA NotAhead ==
  ASSUME NEW a \in Nat, NEW r \in Nat, NEW s \in Nat, NEW i \in Nat
  PROVE  ~Ahead(a, r, s, i, a, r, s, i)
BY DEF Ahead

LEMMA EarlierIs ==
  \A i, j : Earlier(i, j) <=>
    Ahead(stored[i].at, stored[i].run, stored[i].seq, i, stored[j].at, stored[j].run, stored[j].seq, j)
BY DEF Earlier, Ahead

LEMMA EarlierOrders ==
  ASSUME ContextAssumption, stored \in Seq(Rows), NEW i \in DOMAIN stored, NEW j \in DOMAIN stored,
         NEW k \in DOMAIN stored
  PROVE  /\ ~Earlier(i, i)
         /\ i # j => Earlier(i, j) \/ Earlier(j, i)
         /\ Earlier(i, j) /\ Earlier(j, k) => Earlier(i, k)
<1>1. \A x \in DOMAIN stored : x \in Nat /\ stored[x].at \in Nat /\ stored[x].run \in Nat /\ stored[x].seq \in Nat
  BY Fields
<1>2. PICK a \in Nat, r \in Nat, s \in Nat : a = stored[i].at /\ r = stored[i].run /\ s = stored[i].seq
  BY <1>1
<1>3. PICK b \in Nat, q \in Nat, t \in Nat : b = stored[j].at /\ q = stored[j].run /\ t = stored[j].seq
  BY <1>1
<1>4. PICK c \in Nat, p \in Nat, u \in Nat : c = stored[k].at /\ p = stored[k].run /\ u = stored[k].seq
  BY <1>1
<1>5. i \in Nat /\ j \in Nat /\ k \in Nat
  BY <1>1
<1>6. Ahead(a, r, s, i, b, q, t, j) /\ Ahead(b, q, t, j, c, p, u, k) => Ahead(a, r, s, i, c, p, u, k)
  BY ONLY <1>5, AheadOrders, a \in Nat, r \in Nat, s \in Nat, b \in Nat, q \in Nat, t \in Nat,
          c \in Nat, p \in Nat, u \in Nat
<1>7. ~Ahead(a, r, s, i, a, r, s, i)
  BY <1>5, NotAhead
<1>8. i # j => Ahead(a, r, s, i, b, q, t, j) \/ Ahead(b, q, t, j, a, r, s, i)
  BY ONLY <1>5, AheadDecides, a \in Nat, r \in Nat, s \in Nat, b \in Nat, q \in Nat, t \in Nat
<1> QED
  BY <1>2, <1>3, <1>4, <1>6, <1>7, <1>8, EarlierIs

LEMMA TimelineIs ==
  ASSUME ContextAssumption, stored \in Seq(Rows)
  PROVE  /\ Timeline \in Seq(DOMAIN stored) /\ DOMAIN Timeline = 1..Len(stored)
         /\ \A m, n \in DOMAIN Timeline : m < n => Earlier(Timeline[m], Timeline[n])
         /\ \A i \in DOMAIN stored : \E n \in DOMAIN Timeline : Timeline[n] = i
<1> DEFINE S == DOMAIN stored
           R == {p \in Nat \X Nat : Earlier(p[1], p[2])}
           f == Timeline
<1>1. PICK size \in Nat : size = Len(stored) /\ S = 1..size
  BY LenProperties
<1>2. IsFiniteSet(S) /\ Cardinality(S) = size /\ S \subseteq Nat
  <2>1. IsFiniteSet(1..size) /\ Cardinality(1..size) = IF 1 > size THEN 0 ELSE size - 1 + 1
    BY ONLY size \in Nat, FS_Interval
  <2>2. Cardinality(1..size) = size
    BY ONLY <2>1, size \in Nat
  <2>3. 1..size \subseteq Nat
    BY ONLY size \in Nat
  <2> HIDE DEF S
  <2> QED
    BY <1>1, <2>1, <2>2, <2>3
<1>3. \A i, j \in S : <<i, j>> \in R <=> Earlier(i, j)
  BY <1>2
<1>4. Orders(R, S)
  <2>1. ASSUME NEW i \in S, NEW j \in S, NEW k \in S
        PROVE  /\ ~Earlier(i, i)
               /\ i # j => Earlier(i, j) \/ Earlier(j, i)
               /\ Earlier(i, j) /\ Earlier(j, k) => Earlier(i, k)
    BY EarlierOrders
  <2> HIDE DEF S, R
  <2> QED
    BY <1>3, <2>1 DEF Orders
<1>5. \A i \in S : Preceding(R, S, i) = {j \in S : Earlier(j, i)}
  <2> HIDE DEF S, R
  <2> QED
    BY <1>3 DEF Preceding
<1>6. f = [n \in 1..size |-> CHOOSE i \in S : Cardinality({j \in S : Earlier(j, i)}) = n - 1]
  BY <1>1 DEF Timeline, Ids
<1> HIDE DEF S, R, f
<1>7. \A n \in 1..size : \E i \in S : Cardinality(Preceding(R, S, i)) = n - 1
  BY <1>2, <1>4, EachPlace
<1>8. ASSUME NEW n \in 1..size
      PROVE  f[n] \in S /\ Cardinality(Preceding(R, S, f[n])) = n - 1
  <2>1. \E i \in S : Cardinality({j \in S : Earlier(j, i)}) = n - 1
    BY <1>5, <1>7
  <2>2. f[n] = CHOOSE i \in S : Cardinality({j \in S : Earlier(j, i)}) = n - 1
    BY <1>6
  <2>3. f[n] \in S /\ Cardinality({j \in S : Earlier(j, f[n])}) = n - 1
    BY <2>1, <2>2
  <2> QED
    BY <1>5, <2>3
<1>9. f \in [1..size -> S]
  <2> DEFINE nth(n) == CHOOSE i \in S : Cardinality({j \in S : Earlier(j, i)}) = n - 1
  <2>1. f = [n \in 1..size |-> nth(n)]
    BY <1>6
  <2> HIDE DEF nth
  <2>2. f = [n \in 1..size |-> f[n]]
    BY <2>1
  <2> QED
    BY <1>8, <2>2
<1>10. InPlaces(f, R, S)
  <2>1. \A n \in 1..Cardinality(S) : Cardinality(Preceding(R, S, f[n])) = n - 1
    BY <1>2, <1>8
  <2>2. f \in [1..Cardinality(S) -> S]
    BY <1>2, <1>9
  <2> QED
    BY <1>2, <1>4, <2>1, <2>2, Ranked
<1>11. /\ f \in Seq(S) /\ DOMAIN f = 1..size
       /\ \A m, n \in DOMAIN f : m < n => <<f[m], f[n]>> \in R
       /\ \A i \in S : \E n \in DOMAIN f : f[n] = i
  BY <1>9, <1>10 DEF InPlaces
<1>12. \A m, n \in DOMAIN f : m < n => Earlier(f[m], f[n])
  <2>1. \A n \in DOMAIN f : f[n] \in S
    BY <1>11
  <2> QED
    BY <1>3, <1>11, <2>1
<1>13. DOMAIN f = 1..Len(stored)
  BY <1>1, <1>11
<1> QED
  BY <1>11, <1>12, <1>13 DEF f, S

\* What the order of the timeline says of two messages.
LEMMA InTimeline ==
  ASSUME ContextAssumption, StoreInv(stored), NEW i \in DOMAIN stored, NEW j \in DOMAIN stored
  PROVE  /\ Earlier(i, j) => stored[i].run <= stored[j].run
         /\ stored[j].type = "tool_result" => stored[j].for \in DOMAIN stored /\ Earlier(stored[j].for, j)
         /\ \A r : /\ Opened(stored, r) /\ stored[j].type = "user_input" /\ stored[i].run = stored[j].run
                   => ~Earlier(i, j)
<1>0. stored \in Seq(Rows)
  BY DEF StoreInv
<1>1. \A x \in DOMAIN stored : x \in Nat /\ stored[x].at \in Nat /\ stored[x].run \in Nat /\ stored[x].seq \in Nat
  BY <1>0, Fields
<1>2. \A x, y \in DOMAIN stored : x < y =>
        /\ stored[x].at <= stored[y].at /\ stored[x].run <= stored[y].run
        /\ stored[x].run < stored[y].run => stored[x].at < stored[y].at
  BY DEF StoreInv, Timed
<1>3. ASSUME Earlier(i, j) PROVE stored[i].run <= stored[j].run
  <2> SUFFICES ASSUME stored[j].run < stored[i].run PROVE FALSE
    BY <1>1
  <2>1. j < i
    BY <1>1, <1>2
  <2>2. stored[j].at < stored[i].at
    BY <1>2, <2>1
  <2> QED
    BY <1>1, <1>3, <2>2 DEF Earlier
<1>4. ASSUME stored[j].type = "tool_result" PROVE stored[j].for \in DOMAIN stored /\ Earlier(stored[j].for, j)
  <2>1. PICK a : a = stored[j].for
    OBVIOUS
  <2>2. a \in 1..(j - 1) /\ stored[a].run = stored[j].run /\ stored[a].seq < stored[j].seq
    BY <1>4, <2>1 DEF StoreInv, ResultsOf, IsRes
  <2>3. a \in DOMAIN stored /\ a < j
    <3>1. PICK n \in Nat : DOMAIN stored = 1..n
      BY <1>0, LenProperties
    <3>2. j \in 1..n
      BY <3>1
    <3> QED
      BY ONLY <2>2, <3>1, <3>2
  <2>4. stored[a].at <= stored[j].at
    BY <1>2, <2>3
  <2>5. Earlier(a, j)
    BY <1>1, <2>2, <2>3, <2>4 DEF Earlier
  <2> QED
    BY <2>1, <2>3, <2>5
<1>5. ASSUME NEW r, Opened(stored, r), stored[j].type = "user_input", stored[i].run = stored[j].run, Earlier(i, j)
      PROVE  FALSE
  <2>1. stored[j].seq = 1 /\ j <= i
    BY <1>5 DEF Opened
  <2>2. i # j
    BY <1>0, <1>5, EarlierOrders
  <2>3. stored[j].at <= stored[i].at
    BY <1>1, <1>2, <2>1, <2>2
  <2>4. stored[i].seq \in 1..i
    BY DEF StoreInv, Numbered
  <2> QED
    BY <1>1, <1>5, <2>1, <2>2, <2>3, <2>4 DEF Earlier
<1> QED
  BY <1>3, <1>4, <1>5
-----------------------------------------------------------------------------
(* The events of a message.                                                *)

Kinds == {"run", "content", "tool_use_start", "tool_use_end", "compact_end", "terminal"}
Events == [type : Kinds, run : Nat, of : Nat, call : Nat]

\* An event that message i of the rows may have.
EventOf(row, i, e) ==
  /\ e \in Events /\ e.of = i /\ e.run = row.run /\ e.type # "terminal"
  /\ e.type = "run" => row.type = "user_input"
  /\ e.type = "tool_use_end" => row.type = "tool_result" /\ e.call \in row.answers

\* The events of message i: an end for each of the calls, a start for each use.
EventsAre(row, i, block) ==
  /\ block \in Seq(Events) /\ \A n \in DOMAIN block : EventOf(row, i, block[n])
  /\ \A n \in DOMAIN block : block[n].type = "run" => DOMAIN block = {1}
  /\ \A m, n \in DOMAIN block : m < n /\ block[m].type = "tool_use_end" => block[m].call # block[n].call
  /\ row.type = "assistant" =>
       \A k \in 1..row.uses : \E n \in DOMAIN block : block[n].type = "tool_use_start" /\ block[n].call = k

LEMMA EventFields ==
  ASSUME NEW type, NEW r, NEW i, NEW k, NEW e, e = Event(type, r, i, k)
  PROVE  e.type = type /\ e.run = r /\ e.of = i /\ e.call = k
BY DEF Event

LEMMA EventIn ==
  ASSUME NEW type \in Kinds, NEW r \in Nat, NEW i \in Nat, NEW k \in Nat
  PROVE  Event(type, r, i, k) \in Events
BY DEF Event, Events

\* One event for each of some calls.
AnEventEach(type, r, i, asked, each) ==
  /\ each \in Seq(Events)
  /\ \A n \in DOMAIN each : each[n].type = type /\ each[n].run = r /\ each[n].of = i /\ each[n].call \in asked
  /\ \A m, n \in DOMAIN each : m < n => each[m].call # each[n].call
  /\ \A k \in asked : \E n \in DOMAIN each : each[n].type = type /\ each[n].call = k

LEMMA EachCall ==
  ASSUME NEW type \in Kinds, NEW r \in Nat, NEW i \in Nat, NEW asked \in SUBSET Nat, NEW nums \in Seq(asked),
         \A m, n \in DOMAIN nums : m < n => nums[m] # nums[n],
         \A k \in asked : \E n \in DOMAIN nums : nums[n] = k,
         NEW each, each = [n \in DOMAIN nums |-> Event(type, r, i, nums[n])]
  PROVE  AnEventEach(type, r, i, asked, each)
<1>1. PICK len \in Nat : DOMAIN nums = 1..len /\ len = Len(nums)
  BY LenProperties
<1>2. \A n \in 1..len : nums[n] \in asked /\ nums[n] \in Nat
  <2>1. \A n \in 1..len : nums[n] \in asked
    BY ONLY <1>1, nums \in Seq(asked), ElementOfSeq
  <2> QED
    BY <2>1
<1>3. \A n \in 1..len : each[n] = Event(type, r, i, nums[n])
  BY <1>1
<1>4. \A n \in 1..len : each[n] \in Events
  BY <1>2, <1>3, EventIn
<1>5. each \in [1..len -> Events]
  BY <1>1, <1>4
<1>6. each \in Seq(Events) /\ DOMAIN each = DOMAIN nums
  BY <1>1, <1>5
<1>7. \A n \in 1..len : each[n].type = type /\ each[n].run = r /\ each[n].of = i /\ each[n].call = nums[n]
  BY <1>3, EventFields
<1>8. \A m, n \in DOMAIN each : m < n => each[m].call # each[n].call
  BY <1>1, <1>6, <1>7
<1>9. \A k \in asked : \E n \in DOMAIN each : each[n].type = type /\ each[n].call = k
  BY <1>1, <1>6, <1>7
<1>10. \A n \in DOMAIN each : each[n].type = type /\ each[n].run = r /\ each[n].of = i /\ each[n].call \in asked
  BY <1>1, <1>2, <1>6, <1>7
<1> QED
  BY <1>6, <1>8, <1>9, <1>10 DEF AnEventEach

\* A sequence with a first event.
LEMMA FirstThen ==
  ASSUME NEW S, NEW first \in S, NEW rest \in Seq(S), NEW all, all = <<first>> \o rest
  PROVE  /\ all \in Seq(S) /\ 1 \in DOMAIN all /\ all[1] = first
         /\ \A n \in DOMAIN rest : n + 1 \in DOMAIN all /\ all[n + 1] = rest[n]
         /\ \A n \in DOMAIN all : n = 1 \/ (n - 1 \in DOMAIN rest /\ all[n] = rest[n - 1])
OBVIOUS

LEMMA EventsOfAre ==
  ASSUME ContextAssumption, stored \in Seq(Rows), NEW i \in DOMAIN stored
  PROVE  EventsAre(stored[i], i, EventsOf(i))
<1>1. PICK row \in Rows : row = stored[i]
  OBVIOUS
<1>r. PICK rs \in Seq(Rows) : rs = stored /\ i \in DOMAIN rs
  OBVIOUS
<1>2. /\ row.uses \in Nat /\ row.run \in Nat /\ row.answers \in SUBSET Calls /\ i \in Nat
      /\ row.type \in Types
  <2>1. /\ rs[i].uses \in Nat /\ rs[i].run \in Nat /\ rs[i].answers \in SUBSET Calls /\ i \in Nat
        /\ rs[i].type \in Types
    BY <1>r, ContextAssumption, Fields
  <2> QED
    BY <1>1, <1>r, <2>1
<1>3. MaxCalls \in Nat /\ Calls = 1..MaxCalls
  BY DEF ContextAssumption, Calls
<1>4. row.answers \in SUBSET Nat /\ IsFiniteSet(row.answers)
  <2>1. IsFiniteSet(Calls)
    BY <1>3, FS_Interval
  <2> QED
    BY <1>2, <1>3, <2>1, FS_Subset
<1>5. 1..row.uses \in SUBSET Nat /\ IsFiniteSet(1..row.uses)
  <2>1. PICK u \in Nat : u = row.uses
    BY <1>2
  <2>2. IsFiniteSet(1..u) /\ 1..u \in SUBSET Nat
    BY ONLY u \in Nat, FS_Interval
  <2> QED
    BY <2>1, <2>2
<1>6. PICK block : block = EventsOf(i)
  OBVIOUS
<1>7. ASSUME NEW type \in Kinds \ {"terminal", "tool_use_end"}, type = "run" => row.type = "user_input",
             row.type # "assistant", block = <<Event(type, row.run, i, 0)>>
      PROVE  EventsAre(row, i, block)
  <2>1. PICK e : e = Event(type, row.run, i, 0)
    OBVIOUS
  <2>e. e \in Events
    BY <1>2, <1>7, <2>1, EventIn
  <2>2. e \in Events /\ e.of = i /\ e.run = row.run /\ e.type = type
    BY <2>1, <2>e, EventFields
  <2>3. block \in Seq(Events) /\ DOMAIN block = {1} /\ block[1] = e
    BY <1>7, <2>1, <2>2
  <2>4. EventOf(row, i, e)
    BY <1>7, <2>2 DEF EventOf
  <2> QED
    BY <1>7, <2>3, <2>4 DEF EventsAre
<1>8. CASE row.type = "user_input"
  <2>1. block = <<Event("run", row.run, i, 0)>>
    BY <1>1, <1>6, <1>8 DEF EventsOf
  <2> QED
    BY <1>1, <1>6, <1>7, <1>8, <2>1 DEF Kinds
<1>9. CASE row.type = "assistant_partial"
  <2>1. block = <<Event("content", row.run, i, 0)>>
    BY <1>1, <1>6, <1>9 DEF EventsOf
  <2> QED
    BY <1>1, <1>6, <1>7, <1>9, <2>1 DEF Kinds
<1>10. CASE row.type = "compact_summary"
  <2>1. block = <<Event("compact_end", row.run, i, 0)>>
    BY <1>1, <1>6, <1>10 DEF EventsOf
  <2> QED
    BY <1>1, <1>6, <1>7, <1>10, <2>1 DEF Kinds
<1>11. CASE row.type = "tool_result"
  <2>1. PICK nums : nums = InOrder(row.answers)
    OBVIOUS
  <2>2. /\ nums \in Seq(row.answers) /\ \A m, n \in DOMAIN nums : m < n => nums[m] # nums[n]
        /\ \A k \in row.answers : \E n \in DOMAIN nums : nums[n] = k
    BY <1>4, <2>1, InOrderOf
  <2>3. block = [n \in DOMAIN nums |-> Event("tool_use_end", row.run, i, nums[n])]
    BY <1>1, <1>6, <1>11, <2>1 DEF EventsOf
  <2>4. "tool_use_end" \in Kinds
    BY DEF Kinds
  <2>5. /\ block \in Seq(Events)
        /\ \A n \in DOMAIN block : block[n].type = "tool_use_end" /\ block[n].run = row.run /\ block[n].of = i
                                   /\ block[n].call \in row.answers
        /\ \A m, n \in DOMAIN block : m < n => block[m].call # block[n].call
    <3>1. AnEventEach("tool_use_end", row.run, i, row.answers, block)
      BY ONLY <1>2, <1>4, <2>2, <2>3, <2>4, EachCall
    <3> QED
      BY <3>1 DEF AnEventEach
  <2>6. \A n \in DOMAIN block : EventOf(row, i, block[n])
    BY <1>11, <2>5 DEF EventOf
  <2> QED
    BY <1>1, <1>6, <1>11, <2>5, <2>6 DEF EventsAre
<1>12. CASE row.type = "assistant"
  <2>1. PICK nums : nums = InOrder(1..row.uses)
    OBVIOUS
  <2>2. /\ nums \in Seq(1..row.uses) /\ \A m, n \in DOMAIN nums : m < n => nums[m] # nums[n]
        /\ \A k \in 1..row.uses : \E n \in DOMAIN nums : nums[n] = k
    <3>1. PICK asked : asked = 1..row.uses
      OBVIOUS
    <3>2. /\ InOrder(asked) \in Seq(asked)
          /\ \A m, n \in DOMAIN InOrder(asked) : m < n => InOrder(asked)[m] # InOrder(asked)[n]
          /\ \A k \in asked : \E n \in DOMAIN InOrder(asked) : InOrder(asked)[n] = k
      <4>1. asked \in SUBSET Nat /\ IsFiniteSet(asked)
        BY <1>5, <3>1
      <4> QED
        BY ONLY <4>1, InOrderOf
    <3> QED
      BY <2>1, <3>1, <3>2
  <2>3. PICK each : each = [n \in DOMAIN nums |-> Event("tool_use_start", row.run, i, nums[n])]
    OBVIOUS
  <2>4. PICK e : e = Event("content", row.run, i, 0)
    OBVIOUS
  <2>5. block = <<e>> \o each
    BY <1>1, <1>6, <1>12, <2>1, <2>3, <2>4 DEF EventsOf
  <2>6. "tool_use_start" \in Kinds /\ "content" \in Kinds
    BY DEF Kinds
  <2>7. /\ each \in Seq(Events)
        /\ \A n \in DOMAIN each : each[n].type = "tool_use_start" /\ each[n].run = row.run /\ each[n].of = i
        /\ \A k \in 1..row.uses : \E n \in DOMAIN each : each[n].type = "tool_use_start" /\ each[n].call = k
    <3>1. AnEventEach("tool_use_start", row.run, i, 1..row.uses, each)
      BY ONLY <1>2, <1>5, <2>2, <2>3, <2>6, EachCall
    <3> QED
      BY <3>1 DEF AnEventEach
  <2>e. e \in Events
    BY <1>2, <2>4, <2>6, EventIn
  <2>8. e \in Events /\ e.of = i /\ e.run = row.run /\ e.type = "content"
    BY <2>4, <2>e, EventFields
  <2>9. /\ block \in Seq(Events) /\ 1 \in DOMAIN block /\ block[1] = e
        /\ \A n \in DOMAIN each : n + 1 \in DOMAIN block /\ block[n + 1] = each[n]
        /\ \A n \in DOMAIN block : n = 1 \/ (n - 1 \in DOMAIN each /\ block[n] = each[n - 1])
    <3>1. e \in Events /\ each \in Seq(Events) /\ block = <<e>> \o each
      BY <2>5, <2>7, <2>8
    <3> QED
      BY ONLY <3>1, FirstThen
  <2>10. \A n \in DOMAIN block : /\ block[n] \in Events /\ block[n].of = i /\ block[n].run = row.run
                                 /\ block[n].type \in {"content", "tool_use_start"}
    <3> SUFFICES ASSUME NEW n \in DOMAIN block
                 PROVE  /\ block[n] \in Events /\ block[n].of = i /\ block[n].run = row.run
                        /\ block[n].type \in {"content", "tool_use_start"}
      OBVIOUS
    <3>1. CASE n = 1
      BY <2>8, <2>9, <3>1
    <3>2. CASE n # 1
      <4>1. PICK m : m \in DOMAIN each /\ block[n] = each[m]
        BY <2>9, <3>2
      <4>2. each[m] \in Events
        BY <2>7, <4>1, ElementOfSeq
      <4> QED
        BY <2>7, <4>1, <4>2
    <3> QED
      BY <3>1, <3>2
  <2>11. \A n \in DOMAIN block : EventOf(row, i, block[n])
    BY <2>10 DEF EventOf
  <2>12. \A k \in 1..row.uses : \E n \in DOMAIN block : block[n].type = "tool_use_start" /\ block[n].call = k
    <3> SUFFICES ASSUME NEW k \in 1..row.uses
                 PROVE  \E n \in DOMAIN block : block[n].type = "tool_use_start" /\ block[n].call = k
      OBVIOUS
    <3>1. PICK m : m \in DOMAIN each /\ each[m].type = "tool_use_start" /\ each[m].call = k
      BY <2>7
    <3> QED
      BY <2>9, <3>1
  <2> QED
    BY <1>1, <1>6, <2>9, <2>10, <2>11, <2>12 DEF EventsAre
<1> QED
  BY <1>1, <1>2, <1>6, <1>8, <1>9, <1>10, <1>11, <1>12 DEF Types
-----------------------------------------------------------------------------
(* What a list of events tells of the first n messages of the timeline tl  *)
(* when the runs in shut are ended, and those in over with a terminal    *)
(* event.                                                                  *)

\* Each event is the terminal event of an ended run, or of a message.
ListsOnly(rs, tl, n, e, shut) ==
  \A p \in DOMAIN e :
    /\ e[p].type = "terminal" => e[p].run \in shut
    /\ e[p].type # "terminal" => \E m \in 1..n : EventOf(rs[tl[m]], tl[m], e[p])
ListsTerminals(e, shut, over) ==
  \A r \in shut \cap over : \E p \in DOMAIN e : e[p].type = "terminal" /\ e[p].run = r
\* A run begins with its input and ends with its terminal event.
ListsInTurn(e) ==
  \A p, q \in DOMAIN e : p < q /\ e[p].run = e[q].run => e[p].type # "terminal" /\ e[q].type # "run"
ListsStarts(rs, tl, n, e) ==
  \A m \in 1..n : rs[tl[m]].type = "assistant" =>
    \A k \in 1..rs[tl[m]].uses :
      \E p \in DOMAIN e : e[p].type = "tool_use_start" /\ e[p].call = k /\ e[p].of = tl[m]
EndFollows(rs, e, q) ==
  /\ \E p \in 1..(q - 1) : /\ e[p].type = "tool_use_start" /\ e[p].call = e[q].call
                           /\ e[p].of = rs[e[q].of].for
  /\ \A p \in 1..(q - 1) : e[p].type = "tool_use_end" /\ e[p].call = e[q].call =>
       rs[e[p].of].for # rs[e[q].of].for
ListsEnds(rs, e) == \A q \in DOMAIN e : e[q].type = "tool_use_end" => EndFollows(rs, e, q)

Lists(rs, tl, n, e, shut, over) ==
  /\ e \in Seq(Events) /\ ListsOnly(rs, tl, n, e, shut) /\ ListsTerminals(e, shut, over)
  /\ ListsInTurn(e) /\ ListsStarts(rs, tl, n, e) /\ ListsEnds(rs, e)

\* The timeline has each message once, the runs in their order, the input of a
\* run first in it and a result after the message that asked for it.
Lined(rs, tl) ==
  /\ DOMAIN tl = DOMAIN rs /\ \A n \in DOMAIN tl : tl[n] \in DOMAIN rs
  /\ \A m, n \in DOMAIN tl : m < n =>
       /\ tl[m] # tl[n] /\ rs[tl[m]].run <= rs[tl[n]].run
       /\ rs[tl[m]].run = rs[tl[n]].run => rs[tl[n]].type # "user_input"
  /\ \A n \in DOMAIN tl : rs[tl[n]].type = "tool_result" => \E m \in 1..(n - 1) : tl[m] = rs[tl[n]].for

\* A sequence behind another.
Behind(e, b, new, len, size) ==
  /\ len \in Nat /\ size \in Nat /\ DOMAIN e = 1..len /\ DOMAIN b = 1..size /\ DOMAIN new = 1..(len + size)
  /\ \A p \in 1..len : new[p] = e[p]
  /\ \A p \in 1..size : len + p \in 1..(len + size) /\ new[len + p] = b[p]
  /\ \A p \in 1..(len + size) : p \in 1..len \/ (p > len /\ p - len \in 1..size /\ new[p] = b[p - len])

LEMMA BehindIs ==
  ASSUME NEW S, NEW e \in Seq(S), NEW b \in Seq(S), NEW new, new = e \o b
  PROVE  new \in Seq(S) /\ \E len, size : Behind(e, b, new, len, size)
<1>1. PICK len \in Nat, size \in Nat : len = Len(e) /\ size = Len(b)
  BY LenProperties
<1>2. /\ DOMAIN e = 1..len /\ DOMAIN b = 1..size /\ DOMAIN new = 1..(len + size) /\ new \in Seq(S)
      /\ \A p \in 1..len : new[p] = e[p]
      /\ \A p \in 1..size : new[len + p] = b[p]
  BY <1>1
<1>3. \A p \in 1..size : len + p \in 1..(len + size)
  BY ONLY len \in Nat, size \in Nat
<1>4. ASSUME NEW p \in 1..(len + size), ~(p \in 1..len)
      PROVE  p > len /\ p - len \in 1..size /\ new[p] = b[p - len]
  <2>1. p > len /\ p - len \in 1..size /\ len + (p - len) = p
    BY ONLY <1>4, len \in Nat, size \in Nat
  <2> QED
    BY <1>2, <2>1
<1>5. Behind(e, b, new, len, size)
  BY <1>2, <1>3, <1>4 DEF Behind
<1> QED
  BY <1>2, <1>5

LEMMA EndsFollowStill ==
  ASSUME NEW rs, NEW e, NEW new, NEW len \in Nat, DOMAIN e = 1..len, ListsEnds(rs, e),
         \A p \in 1..len : new[p] = e[p], NEW q \in 1..len, new[q].type = "tool_use_end"
  PROVE  EndFollows(rs, new, q)
<1>1. EndFollows(rs, e, q)
  BY DEF ListsEnds
<1>2. \A p \in 1..(q - 1) : p \in 1..len
  BY ONLY len \in Nat, q \in 1..len
<1>3. \A p \in 1..(q - 1) : new[p] = e[p]
  BY <1>2
<1>4. new[q] = e[q]
  OBVIOUS
<1> QED
  BY <1>1, <1>3, <1>4 DEF EndFollows

\* appendRunTerminal of a run that is over.
LEMMA ListsATerminal ==
  ASSUME NEW rs, NEW tl, NEW n, NEW e, NEW shut, NEW over, Lists(rs, tl, n, e, shut, over),
         NEW r, r \notin shut, NEW t \in Events, t.type = "terminal", t.run = r,
         NEW new, new = Append(e, t)
  PROVE  Lists(rs, tl, n, new, shut \cup {r}, over)
<1>1. e \in Seq(Events)
  BY DEF Lists
<1>2. PICK len \in Nat : len = Len(e)
  BY <1>1, LenProperties
<1>3. /\ DOMAIN e = 1..len /\ DOMAIN new = 1..(len + 1) /\ new[len + 1] = t
      /\ \A p \in 1..len : new[p] = e[p]
  BY <1>1, <1>2, OneMore
<1>4. new \in Seq(Events)
  BY <1>1, AppendProperties
<1>5. \A p \in 1..(len + 1) : p \in 1..len \/ p = len + 1
  BY ONLY len \in Nat
<1>6. ListsOnly(rs, tl, n, new, shut \cup {r})
  <2> SUFFICES ASSUME NEW p \in 1..(len + 1)
               PROVE  /\ new[p].type = "terminal" => new[p].run \in shut \cup {r}
                      /\ new[p].type # "terminal" => \E m \in 1..n : EventOf(rs[tl[m]], tl[m], new[p])
    BY <1>3 DEF ListsOnly
  <2>1. CASE p = len + 1
    BY <1>3, <2>1
  <2>2. CASE p \in 1..len
    BY <1>3, <2>2 DEF Lists, ListsOnly
  <2> QED
    BY <1>5, <2>1, <2>2
<1>7. ListsTerminals(new, shut \cup {r}, over)
  <2> SUFFICES ASSUME NEW x \in (shut \cup {r}) \cap over
               PROVE  \E p \in 1..(len + 1) : new[p].type = "terminal" /\ new[p].run = x
    BY <1>3 DEF ListsTerminals
  <2>1. CASE x = r
    BY <1>3, <2>1
  <2>2. CASE x # r
    <3>1. PICK p \in 1..len : e[p].type = "terminal" /\ e[p].run = x
      BY <1>3, <2>2 DEF Lists, ListsTerminals
    <3> QED
      BY <1>3, <3>1
  <2> QED
    BY <2>1, <2>2
<1>8. ListsInTurn(new)
  <2> SUFFICES ASSUME NEW p \in 1..(len + 1), NEW q \in 1..(len + 1), p < q, new[p].run = new[q].run
               PROVE  new[p].type # "terminal" /\ new[q].type # "run"
    BY <1>3 DEF ListsInTurn
  <2>1. p \in 1..len /\ new[p] = e[p]
    BY <1>3
  <2>2. CASE q = len + 1
    <3>1. e[p].run \notin shut
      BY <1>3, <2>1, <2>2
    <3>2. e[p].type # "terminal"
      BY <1>3, <2>1, <3>1 DEF Lists, ListsOnly
    <3> QED
      BY <1>3, <2>1, <2>2, <3>2
  <2>3. CASE q \in 1..len
    BY <1>3, <2>1, <2>3 DEF Lists, ListsInTurn
  <2> QED
    BY <1>5, <2>2, <2>3
<1>9. ListsStarts(rs, tl, n, new)
  <2> SUFFICES ASSUME NEW m \in 1..n, rs[tl[m]].type = "assistant", NEW k \in 1..rs[tl[m]].uses
               PROVE  \E p \in DOMAIN new : new[p].type = "tool_use_start" /\ new[p].call = k /\ new[p].of = tl[m]
    BY DEF ListsStarts
  <2>1. PICK p \in 1..len : e[p].type = "tool_use_start" /\ e[p].call = k /\ e[p].of = tl[m]
    BY <1>3 DEF Lists, ListsStarts
  <2> QED
    BY <1>3, <2>1
<1>10. ListsEnds(rs, new)
  <2> SUFFICES ASSUME NEW q \in 1..(len + 1), new[q].type = "tool_use_end" PROVE EndFollows(rs, new, q)
    BY <1>3 DEF ListsEnds
  <2>1. q \in 1..len
    BY <1>3, <1>5
  <2>2. ListsEnds(rs, e)
    BY DEF Lists
  <2> QED
    BY <1>3, <2>1, <2>2, EndsFollowStill
<1> QED
  BY <1>4, <1>6, <1>7, <1>8, <1>9, <1>10 DEF Lists

\* appendRunTerminal of a run that goes on.
LEMMA ListsNoTerminal ==
  ASSUME NEW rs, NEW tl, NEW n, NEW e, NEW shut, NEW over, Lists(rs, tl, n, e, shut, over),
         NEW r, r \notin over
  PROVE  Lists(rs, tl, n, e, shut \cup {r}, over)
BY DEF Lists, ListsOnly, ListsTerminals

LEMMA ListsNothing ==
  ASSUME NEW rs, NEW tl, NEW over
  PROVE  Lists(rs, tl, 0, <<>>, {}, over)
<1>1. PICK e : e = <<>>
  OBVIOUS
<1>2. e \in Seq(Events) /\ DOMAIN e = {}
  BY <1>1
<1>3. \A m \in 1..0 : FALSE
  OBVIOUS
<1>4. Lists(rs, tl, 0, e, {}, over)
  BY <1>2, <1>3 DEF Lists, ListsOnly, ListsTerminals, ListsInTurn, ListsStarts, ListsEnds
<1> QED
  BY <1>1, <1>4
-----------------------------------------------------------------------------
(* The events of the next message.                                         *)

\* What a message of the timeline is to those before it.
LEMMA LinedUp ==
  ASSUME NEW rs, NEW tl, Lined(rs, tl), NEW n \in Nat, n + 1 \in DOMAIN tl, NEW d \in Nat, DOMAIN tl = 1..d
  PROVE  /\ tl[n + 1] \in DOMAIN rs
         /\ \A m \in 1..n : /\ m \in DOMAIN tl /\ tl[m] \in DOMAIN rs /\ tl[m] # tl[n + 1]
                            /\ rs[tl[m]].run <= rs[tl[n + 1]].run
                            /\ rs[tl[m]].run = rs[tl[n + 1]].run => rs[tl[n + 1]].type # "user_input"
         /\ rs[tl[n + 1]].type = "tool_result" => \E m \in 1..n : tl[m] = rs[tl[n + 1]].for
<1>1. \A m \in 1..n : m \in DOMAIN tl /\ m < n + 1
  BY ONLY n \in Nat, n + 1 \in DOMAIN tl, d \in Nat, DOMAIN tl = 1..d
<1>2. 1..((n + 1) - 1) = 1..n
  BY ONLY n \in Nat
<1>3. rs[tl[n + 1]].type = "tool_result" => \E m \in 1..((n + 1) - 1) : tl[m] = rs[tl[n + 1]].for
  BY DEF Lined
<1>4. \A m \in 1..n : /\ m \in DOMAIN tl /\ tl[m] \in DOMAIN rs /\ tl[m] # tl[n + 1]
                      /\ rs[tl[m]].run <= rs[tl[n + 1]].run
                      /\ rs[tl[m]].run = rs[tl[n + 1]].run => rs[tl[n + 1]].type # "user_input"
  BY <1>1 DEF Lined
<1>5. tl[n + 1] \in DOMAIN rs
  BY DEF Lined
<1> QED
  BY <1>2, <1>3, <1>4, <1>5

\* The end of a call of the next message: it has started, and has not ended.
LEMMA NextEndFollows ==
  ASSUME NEW rs, ResultsOf(rs), NEW tl, NEW n \in Nat, NEW e, NEW shut, NEW i \in DOMAIN rs, NEW j,
         ListsOnly(rs, tl, n, e, shut), ListsStarts(rs, tl, n, e),
         \A m \in 1..n : tl[m] \in DOMAIN rs /\ tl[m] # i,
         \E m \in 1..n : tl[m] = rs[i].for,
         EventOf(rs[i], i, j), j.type = "tool_use_end"
  PROVE  /\ \E p \in DOMAIN e : e[p].type = "tool_use_start" /\ e[p].call = j.call /\ e[p].of = rs[i].for
         /\ \A p \in DOMAIN e : e[p].type = "tool_use_end" /\ e[p].call = j.call =>
              rs[e[p].of].for # rs[i].for
<1>1. rs[i].type = "tool_result" /\ j.call \in rs[i].answers
  BY DEF EventOf
<1>2. PICK a : a = rs[i].for
  OBVIOUS
<1>3. /\ rs[a].type = "assistant" /\ j.call \in 1..rs[a].uses
      /\ \A l \in DOMAIN rs : l # i /\ IsRes(rs, l) /\ rs[l].for = a => rs[l].answers \cap rs[i].answers = {}
  BY <1>1, <1>2 DEF ResultsOf, IsRes
<1>4. PICK m \in 1..n : tl[m] = a
  BY <1>2
<1>5. \E p \in DOMAIN e : e[p].type = "tool_use_start" /\ e[p].call = j.call /\ e[p].of = a
  BY <1>3, <1>4 DEF ListsStarts
<1>6. ASSUME NEW p \in DOMAIN e, e[p].type = "tool_use_end", e[p].call = j.call, rs[e[p].of].for = a
      PROVE  FALSE
  <2>1. PICK l \in 1..n : EventOf(rs[tl[l]], tl[l], e[p])
    BY <1>6 DEF ListsOnly
  <2>2. rs[tl[l]].type = "tool_result" /\ j.call \in rs[tl[l]].answers /\ e[p].of = tl[l]
    BY <1>6, <2>1 DEF EventOf
  <2>3. tl[l] \in DOMAIN rs /\ tl[l] # i
    OBVIOUS
  <2> QED
    BY <1>1, <1>3, <1>6, <2>2, <2>3 DEF IsRes
<1> QED
  BY <1>2, <1>5, <1>6

\* Build: the events of a message are added.
LEMMA ListsMore ==
  ASSUME NEW rs, ResultsOf(rs), NEW tl, Lined(rs, tl), NEW d \in Nat, DOMAIN tl = 1..d,
         NEW n \in Nat, n + 1 \in DOMAIN tl,
         NEW e, NEW shut, NEW over, Lists(rs, tl, n, e, shut, over),
         NEW i, i = tl[n + 1], rs[i].run \notin shut, NEW b, EventsAre(rs[i], i, b),
         NEW new, new = e \o b
  PROVE  Lists(rs, tl, n + 1, new, shut, over)
<1>1. e \in Seq(Events) /\ b \in Seq(Events)
  BY DEF Lists, EventsAre
<1>2. new \in Seq(Events) /\ \E len, size : Behind(e, b, new, len, size)
  BY ONLY <1>1, new = e \o b, BehindIs
<1>3. PICK len, size : Behind(e, b, new, len, size)
  BY <1>2
<1>4. /\ len \in Nat /\ size \in Nat /\ DOMAIN e = 1..len /\ DOMAIN b = 1..size /\ DOMAIN new = 1..(len + size)
      /\ \A p \in 1..len : new[p] = e[p]
      /\ \A p \in 1..size : len + p \in 1..(len + size) /\ new[len + p] = b[p]
      /\ \A p \in 1..(len + size) : p \in 1..len \/ (p > len /\ p - len \in 1..size /\ new[p] = b[p - len])
  BY <1>3 DEF Behind
<1>5. /\ i \in DOMAIN rs
      /\ \A m \in 1..n : /\ tl[m] \in DOMAIN rs /\ tl[m] # i
                         /\ rs[tl[m]].run = rs[i].run => rs[i].type # "user_input"
      /\ rs[i].type = "tool_result" => \E m \in 1..n : tl[m] = rs[i].for
  BY LinedUp
<1>6. \A m \in 1..(n + 1) : m \in 1..n \/ m = n + 1
  BY ONLY n \in Nat
<1>7. \A m \in 1..n : m \in 1..(n + 1)
  BY ONLY n \in Nat
<1>8. n + 1 \in 1..(n + 1)
  BY ONLY n \in Nat
<1>9. \A p \in 1..len : p \in 1..(len + size)
  BY ONLY <1>4
<1>10. \A p \in 1..size : EventOf(rs[i], i, b[p])
  BY <1>4 DEF EventsAre
<1>11. ListsOnly(rs, tl, n + 1, new, shut)
  <2> SUFFICES ASSUME NEW p \in 1..(len + size)
               PROVE  /\ new[p].type = "terminal" => new[p].run \in shut
                      /\ new[p].type # "terminal" => \E m \in 1..(n + 1) : EventOf(rs[tl[m]], tl[m], new[p])
    BY <1>4 DEF ListsOnly
  <2>1. CASE p \in 1..len
    BY <1>4, <1>7, <2>1 DEF Lists, ListsOnly
  <2>2. CASE p - len \in 1..size /\ new[p] = b[p - len]
    <3>1. EventOf(rs[tl[n + 1]], tl[n + 1], new[p])
      BY <1>10, <2>2
    <3>2. new[p].type # "terminal"
      BY <3>1 DEF EventOf
    <3> QED
      BY <1>8, <3>1, <3>2
  <2> QED
    BY <1>4, <2>1, <2>2
<1>12. ListsTerminals(new, shut, over)
  <2> SUFFICES ASSUME NEW x \in shut \cap over
               PROVE  \E p \in 1..(len + size) : new[p].type = "terminal" /\ new[p].run = x
    BY <1>4 DEF ListsTerminals
  <2>1. PICK p \in 1..len : e[p].type = "terminal" /\ e[p].run = x
    BY <1>4 DEF Lists, ListsTerminals
  <2> QED
    BY <1>4, <1>9, <2>1
<1>13. ListsInTurn(new)
  <2> SUFFICES ASSUME NEW p \in 1..(len + size), NEW q \in 1..(len + size), p < q, new[p].run = new[q].run
               PROVE  new[p].type # "terminal" /\ new[q].type # "run"
    BY <1>4 DEF ListsInTurn
  <2>1. CASE q \in 1..len
    <3>1. p \in 1..len
      BY ONLY <1>4, <2>1, p < q, p \in 1..(len + size)
    <3>2. p \in DOMAIN e /\ q \in DOMAIN e /\ e[p] = new[p] /\ e[q] = new[q]
      BY <1>4, <2>1, <3>1
    <3>3. ListsInTurn(e)
      BY DEF Lists
    <3>4. e[p].type # "terminal" /\ e[q].type # "run"
      BY <3>2, <3>3 DEF ListsInTurn
    <3> QED
      BY <3>2, <3>4
  <2>2. CASE q > len /\ q - len \in 1..size /\ new[q] = b[q - len]
    <3>1. EventOf(rs[i], i, new[q]) /\ new[q].run = rs[i].run
      BY <1>10, <2>2 DEF EventOf
    <3>2. CASE p \in 1..len
      <4>1. e[p] = new[p] /\ e[p].run = rs[i].run
        BY <1>4, <3>1, <3>2
      <4>2. e[p].type # "terminal"
        BY <1>4, <3>2, <4>1 DEF Lists, ListsOnly
      <4>3. PICK m \in 1..n : EventOf(rs[tl[m]], tl[m], e[p])
        BY <1>4, <3>2, <4>2 DEF Lists, ListsOnly
      <4>4. rs[tl[m]].run = rs[i].run
        BY <4>1, <4>3 DEF EventOf
      <4>5. rs[i].type # "user_input"
        BY <1>5, <4>4
      <4> QED
        BY <3>1, <4>1, <4>2, <4>5 DEF EventOf
    <3>3. CASE p > len /\ p - len \in 1..size /\ new[p] = b[p - len]
      <4>1. new[p].type # "terminal"
        BY <1>10, <3>3 DEF EventOf
      <4>2. ASSUME new[q].type = "run" PROVE FALSE
        <5>1. 1..size = {1}
          <6>1. PICK y : y = q - len /\ y \in DOMAIN b /\ b[y].type = "run"
            BY <1>4, <2>2, <4>2
          <6>2. DOMAIN b = {1}
            BY <6>1 DEF EventsAre
          <6> QED
            BY <1>4, <6>2
        <5>2. p - len = 1 /\ q - len = 1
          BY <2>2, <3>3, <5>1
        <5>3. p = q
          BY ONLY <1>4, <5>2, p \in 1..(len + size), q \in 1..(len + size)
        <5> QED
          BY ONLY <1>4, <5>3, p < q, p \in 1..(len + size), q \in 1..(len + size)
      <4> QED
        BY <4>1, <4>2
    <3> QED
      BY <1>4, <3>2, <3>3
  <2> QED
    BY <1>4, <2>1, <2>2
<1>14. ListsStarts(rs, tl, n + 1, new)
  <2> SUFFICES ASSUME NEW m \in 1..(n + 1), rs[tl[m]].type = "assistant", NEW k \in 1..rs[tl[m]].uses
               PROVE  \E p \in DOMAIN new : new[p].type = "tool_use_start" /\ new[p].call = k /\ new[p].of = tl[m]
    BY DEF ListsStarts
  <2>1. CASE m \in 1..n
    <3>1. PICK p \in 1..len : e[p].type = "tool_use_start" /\ e[p].call = k /\ e[p].of = tl[m]
      <4>1. ListsStarts(rs, tl, n, e)
        BY DEF Lists
      <4>2. \E p \in DOMAIN e : e[p].type = "tool_use_start" /\ e[p].call = k /\ e[p].of = tl[m]
        BY <2>1, <4>1 DEF ListsStarts
      <4> QED
        BY <1>4, <4>2
    <3> QED
      BY <1>4, <1>9, <3>1
  <2>2. CASE m = n + 1
    <3>1. PICK p \in 1..size : b[p].type = "tool_use_start" /\ b[p].call = k
      BY <1>4, <2>2 DEF EventsAre
    <3>2. b[p].of = i
      BY <1>10 DEF EventOf
    <3>3. PICK x : x = len + p /\ x \in DOMAIN new /\ new[x] = b[p]
      BY <1>4, <3>1
    <3>4. new[x].type = "tool_use_start" /\ new[x].call = k /\ new[x].of = tl[m]
      BY <2>2, <3>1, <3>2, <3>3
    <3> QED
      BY <3>3, <3>4
  <2> QED
    BY <1>6, <2>1, <2>2
<1>15. ListsEnds(rs, new)
  <2> SUFFICES ASSUME NEW q \in 1..(len + size), new[q].type = "tool_use_end" PROVE EndFollows(rs, new, q)
    BY <1>4 DEF ListsEnds
  <2>1. CASE q \in 1..len
    <3>1. ListsEnds(rs, e)
      BY DEF Lists
    <3> QED
      BY <1>4, <2>1, <3>1, EndsFollowStill
  <2>2. CASE q > len /\ q - len \in 1..size /\ new[q] = b[q - len]
    <3>1. PICK j : j = new[q]
      OBVIOUS
    <3>2. EventOf(rs[i], i, j) /\ j.type = "tool_use_end"
      BY <1>10, <2>2, <3>1
    <3>3. rs[i].type = "tool_result" /\ j.of = i
      BY <3>2 DEF EventOf
    <3>4. ListsOnly(rs, tl, n, e, shut) /\ ListsStarts(rs, tl, n, e)
      BY DEF Lists
    <3>5. /\ \E p \in DOMAIN e : e[p].type = "tool_use_start" /\ e[p].call = j.call /\ e[p].of = rs[i].for
          /\ \A p \in DOMAIN e : e[p].type = "tool_use_end" /\ e[p].call = j.call =>
               rs[e[p].of].for # rs[i].for
      BY <1>5, <3>2, <3>3, <3>4, NextEndFollows
    <3>6. \A p \in 1..len : p \in 1..(q - 1)
      BY ONLY <1>4, <2>2, q \in 1..(len + size)
    <3>7. \E p \in 1..(q - 1) : /\ new[p].type = "tool_use_start" /\ new[p].call = j.call
                                /\ new[p].of = rs[i].for
      <4>1. PICK p \in 1..len : e[p].type = "tool_use_start" /\ e[p].call = j.call /\ e[p].of = rs[i].for
        BY <1>4, <3>5
      <4> QED
        BY <1>4, <3>6, <4>1
    <3>8. ASSUME NEW p \in 1..(q - 1), new[p].type = "tool_use_end", new[p].call = j.call
          PROVE  rs[new[p].of].for # rs[i].for
      <4>1. p \in 1..(len + size) /\ p < q
        BY ONLY <1>4, q \in 1..(len + size), p \in 1..(q - 1)
      <4>2. CASE p \in 1..len
        <5>1. p \in DOMAIN e /\ e[p] = new[p]
          BY <1>4, <4>2
        <5>2. e[p].type = "tool_use_end" /\ e[p].call = j.call
          BY <3>8, <5>1
        <5>3. rs[e[p].of].for # rs[i].for
          BY <3>5, <5>1, <5>2
        <5> QED
          BY <5>1, <5>3
      <4>3. CASE p > len /\ p - len \in 1..size /\ new[p] = b[p - len]
        <5>1. p - len < q - len
          BY ONLY <1>4, <4>1, q \in 1..(len + size)
        <5>2. b[p - len].call # b[q - len].call
          <6>1. PICK x : x = p - len /\ x \in DOMAIN b /\ b[x].type = "tool_use_end"
            BY <1>4, <3>8, <4>3
          <6>2. PICK y : y = q - len /\ y \in DOMAIN b
            BY <1>4, <2>2
          <6>3. x < y
            BY <5>1, <6>1, <6>2
          <6>4. b[x].call # b[y].call
            BY <6>1, <6>2, <6>3 DEF EventsAre
          <6> QED
            BY <6>1, <6>2, <6>4
        <5> QED
          BY <2>2, <3>1, <3>8, <4>3, <5>2
      <4> QED
        BY <1>4, <4>1, <4>2, <4>3
    <3> QED
      BY <3>1, <3>3, <3>7, <3>8 DEF EndFollows
  <2> QED
    BY <1>4, <2>1, <2>2
<1> QED
  BY <1>2, <1>11, <1>12, <1>13, <1>14, <1>15 DEF Lists
-----------------------------------------------------------------------------
(* The history.                                                            *)

LEMMA LinedTimeline ==
  ASSUME ContextAssumption, StoreInv(stored), NEW r, Opened(stored, r)
  PROVE  Lined(stored, Timeline)
<1>1. stored \in Seq(Rows)
  BY DEF StoreInv
<1>2. PICK tl : tl = Timeline
  OBVIOUS
<1>3. PICK size \in Nat : size = Len(stored) /\ DOMAIN stored = 1..size
  BY <1>1, LenProperties
<1>4. /\ tl \in Seq(DOMAIN stored) /\ DOMAIN tl = 1..size
      /\ \A m, n \in DOMAIN tl : m < n => Earlier(tl[m], tl[n])
      /\ \A i \in DOMAIN stored : \E n \in DOMAIN tl : tl[n] = i
  BY <1>1, <1>2, <1>3, TimelineIs
<1>5. \A n \in 1..size : tl[n] \in DOMAIN stored
  BY <1>4, ElementOfSeq
<1>6. \A i \in DOMAIN stored : ~Earlier(i, i)
  BY <1>1, EarlierOrders
<1>7. ASSUME NEW m \in 1..size, NEW n \in 1..size, m < n
      PROVE  /\ tl[m] # tl[n] /\ stored[tl[m]].run <= stored[tl[n]].run
             /\ stored[tl[m]].run = stored[tl[n]].run => stored[tl[n]].type # "user_input"
  <2>1. PICK i \in DOMAIN stored : i = tl[m]
    BY <1>5
  <2>2. PICK j \in DOMAIN stored : j = tl[n]
    BY <1>5
  <2>3. Earlier(i, j)
    BY <1>4, <1>7, <2>1, <2>2
  <2>4. stored[i].run <= stored[j].run
    BY <2>3, InTimeline
  <2>5. stored[i].run = stored[j].run => stored[j].type # "user_input"
    BY <2>3, InTimeline
  <2>6. i # j
    BY <1>6, <2>3
  <2> QED
    BY <2>1, <2>2, <2>4, <2>5, <2>6
<1>8. ASSUME NEW n \in 1..size, stored[tl[n]].type = "tool_result"
      PROVE  \E m \in 1..(n - 1) : tl[m] = stored[tl[n]].for
  <2>1. PICK j \in DOMAIN stored : j = tl[n]
    BY <1>5
  <2>2. PICK a : a = stored[j].for
    OBVIOUS
  <2>3. a \in DOMAIN stored /\ Earlier(a, j)
    BY <1>8, <2>1, <2>2, InTimeline
  <2>4. PICK m \in 1..size : tl[m] = a
    BY <1>4, <2>3
  <2>5. m # n
    BY <1>6, <2>1, <2>3, <2>4
  <2>6. ASSUME n < m PROVE FALSE
    <3>1. Earlier(j, a)
      BY <1>4, <2>1, <2>4, <2>6
    <3>2. Earlier(a, a)
      BY <1>1, <2>3, <3>1, EarlierOrders
    <3> QED
      BY <1>6, <2>3, <3>2
  <2>7. m \in 1..(n - 1)
    BY ONLY <2>5, <2>6, m \in 1..size, n \in 1..size, size \in Nat
  <2> QED
    BY <2>1, <2>2, <2>4, <2>7
<1>9. DOMAIN tl = DOMAIN stored /\ \A n \in DOMAIN tl : tl[n] \in DOMAIN stored
  BY <1>3, <1>4, <1>5
<1>10. \A m, n \in DOMAIN tl : m < n =>
         /\ tl[m] # tl[n] /\ stored[tl[m]].run <= stored[tl[n]].run
         /\ stored[tl[m]].run = stored[tl[n]].run => stored[tl[n]].type # "user_input"
  BY <1>4, <1>7
<1>11. \A n \in DOMAIN tl : stored[tl[n]].type = "tool_result" =>
         \E m \in 1..(n - 1) : tl[m] = stored[tl[n]].for
  BY <1>4, <1>8
<1> QED
  BY <1>2, <1>9, <1>10, <1>11 DEF Lined

\* The runs that are over.
Over == {r \in Nat : IsOver(r)}

\* What Build has made of the first n messages.
Shaped(b) == b = [events |-> b.events, closed |-> b.closed, current |-> b.current]
Building(b, n) ==
  /\ Shaped(b) /\ Lists(stored, Timeline, n, b.events, b.closed, Over)
  /\ b.current \in Nat /\ \A x \in b.closed : x \in Nat /\ x < b.current
  /\ IF n = 0 THEN b.current = 0 ELSE b.current = stored[Timeline[n]].run
  /\ \A m \in 1..n : stored[Timeline[m]].run \in b.closed \cup {b.current}

LEMMA ShapedIs ==
  ASSUME NEW e, NEW s, NEW u, NEW b, b = [events |-> e, closed |-> s, current |-> u]
  PROVE  Shaped(b) /\ b.events = e /\ b.closed = s /\ b.current = u
BY DEF Shaped

LEMMA Shapes ==
  ASSUME NEW e, NEW s, NEW u, NEW b, b = [events |-> e, closed |-> s, current |-> u], NEW x, NEW y
  PROVE  /\ [b EXCEPT !.closed = y, !.events = x] = [events |-> x, closed |-> y, current |-> u]
         /\ [b EXCEPT !.current = y, !.events = x] = [events |-> x, closed |-> s, current |-> y]
<1>1. [b EXCEPT !.closed = y, !.events = x] = [events |-> x, closed |-> y, current |-> u]
  <2>1. PICK c : c = [b EXCEPT !.closed = y, !.events = x]
    OBVIOUS
  <2>2. c.events = x
    BY <2>1
  <2>3. c.closed = y
    BY <2>1
  <2>4. c.current = u
    BY <2>1
  <2>5. c = [events |-> c.events, closed |-> c.closed, current |-> c.current]
    BY <2>1
  <2> QED
    BY <2>1, <2>2, <2>3, <2>4, <2>5
<1>2. [b EXCEPT !.current = y, !.events = x] = [events |-> x, closed |-> s, current |-> y]
  <2>1. PICK c : c = [b EXCEPT !.current = y, !.events = x]
    OBVIOUS
  <2>2. c.events = x
    BY <2>1
  <2>3. c.current = y
    BY <2>1
  <2>4. c.closed = s
    BY <2>1
  <2>5. c = [events |-> c.events, closed |-> c.closed, current |-> c.current]
    BY <2>1
  <2> QED
    BY <2>1, <2>2, <2>3, <2>4, <2>5
<1> QED
  BY <1>1, <1>2

\* The list when its run is ended, if it has one.
LEMMA EndsItsRun ==
  ASSUME NEW b, NEW n, Building(b, n), NEW t, t = Terminated(b, b.current)
  PROVE  /\ Shaped(t) /\ t.current = b.current
         /\ t.closed = b.closed \cup ({b.current} \ {0})
         /\ Lists(stored, Timeline, n, t.events, t.closed, Over)
<1>1. PICK e, s, u : e = b.events /\ s = b.closed /\ u = b.current
  OBVIOUS
<1>2. /\ b = [events |-> e, closed |-> s, current |-> u] /\ Lists(stored, Timeline, n, e, s, Over)
      /\ u \in Nat /\ u \notin s
  BY <1>1 DEF Building, Shaped
<1>3. CASE u = 0
  <2>1. t = b
    BY <1>1, <1>3 DEF Terminated
  <2> QED
    BY <1>1, <1>2, <1>3, <2>1 DEF Building
<1>4. CASE u # 0
  <2>1. PICK last : last = Event("terminal", u, 0, 0)
    OBVIOUS
  <2>2. last.type = "terminal" /\ last.run = u
    BY <2>1, EventFields
  <2>3. last \in Events
    <3>1. "terminal" \in Kinds /\ 0 \in Nat
      BY DEF Kinds
    <3> QED
      BY <1>2, <2>1, <3>1, EventIn
  <2>4. PICK f : f = (IF IsOver(u) THEN Append(e, last) ELSE e)
    OBVIOUS
  <2>5. t = [b EXCEPT !.closed = s \cup {u}, !.events = f]
    BY <1>1, <1>2, <1>4, <2>1, <2>4 DEF Terminated
  <2>6. t = [events |-> f, closed |-> s \cup {u}, current |-> u]
    BY <1>2, <2>5, Shapes
  <2>7. Shaped(t) /\ t.events = f /\ t.closed = s \cup {u} /\ t.current = u
    BY <2>6, ShapedIs
  <2>8. Lists(stored, Timeline, n, f, s \cup {u}, Over)
    <3>1. CASE IsOver(u)
      <4>1. f = Append(e, last)
        BY <2>4, <3>1
      <4> QED
        BY <1>2, <2>2, <2>3, <4>1, ListsATerminal
    <3>2. CASE ~IsOver(u)
      <4>1. f = e /\ u \notin Over
        BY <2>4, <3>2 DEF Over
      <4> QED
        BY <1>2, <4>1, ListsNoTerminal
    <3> QED
      BY <3>1, <3>2
  <2> QED
    BY <1>1, <1>4, <2>7, <2>8
<1> QED
  BY <1>3, <1>4

LEMMA BuildsNext ==
  ASSUME ContextAssumption, StoreInv(stored), Lined(stored, Timeline), NEW d \in Nat, DOMAIN Timeline = 1..d,
         NEW n \in Nat, n + 1 \in DOMAIN Timeline, NEW b, Building(b, n)
  PROVE  Building(Listed(b, Timeline[n + 1]), n + 1)
<1>1. stored \in Seq(Rows) /\ ResultsOf(stored)
  BY DEF StoreInv
<1>2. PICK i : i = Timeline[n + 1]
  OBVIOUS
<1>3. /\ i \in DOMAIN stored
      /\ \A m \in 1..n : stored[Timeline[m]].run <= stored[i].run
  BY <1>2, LinedUp
<1>4. PICK r : r = stored[i].run
  OBVIOUS
<1>5. r \in Nat /\ r # 0
  <2>1. PICK rs \in Seq(Rows) : rs = stored /\ i \in DOMAIN rs
    BY <1>1, <1>3
  <2>2. rs[i].run \in Runs /\ rs[i].run \in Nat
    BY <2>1, ContextAssumption, Fields
  <2>3. \A q \in Runs : q # 0
    BY DEF Runs
  <2> QED
    BY <1>4, <2>1, <2>2, <2>3
<1>6. PICK t : t = (IF b.current # r THEN Terminated(b, b.current) ELSE b)
  OBVIOUS
<1>7. /\ Shaped(t) /\ t.current = b.current /\ Lists(stored, Timeline, n, t.events, t.closed, Over)
      /\ t.closed = b.closed \cup (IF b.current # r THEN {b.current} \ {0} ELSE {})
  <2>1. CASE b.current # r
    BY <1>6, <2>1, EndsItsRun
  <2>2. CASE b.current = r
    BY <1>6, <2>2 DEF Building
  <2> QED
    BY <2>1, <2>2
<1>8. b.current \in Nat /\ b.current <= r
  <2>1. CASE n = 0
    BY <1>5, <2>1 DEF Building
  <2>2. CASE n # 0
    <3>1. n \in 1..n
      BY <2>2
    <3> QED
      BY <1>3, <1>4, <2>2, <3>1 DEF Building
  <2> QED
    BY <2>1, <2>2
<1>9. \A x \in t.closed : x \in Nat /\ x < r
  <2>1. PICK u \in Nat : u = b.current
    BY <1>8
  <2> SUFFICES ASSUME NEW x \in t.closed PROVE x \in Nat /\ x < r
    OBVIOUS
  <2>2. CASE x \in b.closed
    <3>1. x \in Nat /\ x < u
      BY <2>1, <2>2 DEF Building
    <3> QED
      BY <1>5, <1>8, <2>1, <3>1
  <2>3. CASE x \notin b.closed
    <3>1. x = u /\ u # r
      BY <1>7, <2>1, <2>3
    <3> QED
      BY <1>5, <1>8, <2>1, <3>1
  <2> QED
    BY <2>2, <2>3
<1>10. r \notin t.closed
  BY <1>5, <1>9
<1>11. PICK e, s : e = t.events /\ s = t.closed
  OBVIOUS
<1>12. PICK block : block = EventsOf(i)
  OBVIOUS
<1>13. EventsAre(stored[i], i, block)
  BY <1>1, <1>3, <1>12, EventsOfAre
<1>14. PICK new : new = e \o block
  OBVIOUS
<1>15. Lists(stored, Timeline, n + 1, new, s, Over)
  <2>1. Lists(stored, Timeline, n, e, s, Over) /\ stored[i].run \notin s
    BY <1>4, <1>7, <1>10, <1>11
  <2> QED
    BY <1>1, <1>2, <1>13, <1>14, <2>1, ListsMore
<1>16. PICK next : next = Listed(b, Timeline[n + 1])
  OBVIOUS
<1>17. next = [t EXCEPT !.current = r, !.events = new]
  BY <1>2, <1>4, <1>6, <1>11, <1>12, <1>14, <1>16 DEF Listed
<1>18. t = [events |-> e, closed |-> s, current |-> b.current]
  BY <1>7, <1>11 DEF Shaped
<1>19. next = [events |-> new, closed |-> s, current |-> r]
  BY <1>17, <1>18, Shapes
<1>20. Shaped(next) /\ next.events = new /\ next.closed = s /\ next.current = r
  BY <1>19, ShapedIs
<1>21. \A m \in 1..(n + 1) : stored[Timeline[m]].run \in s \cup {r}
  <2> SUFFICES ASSUME NEW m \in 1..(n + 1) PROVE stored[Timeline[m]].run \in s \cup {r}
    OBVIOUS
  <2>1. CASE m = n + 1
    BY <1>2, <1>4, <2>1
  <2>2. CASE m # n + 1
    <3>1. m \in 1..n
      BY ONLY <2>2, n \in Nat, m \in 1..(n + 1)
    <3>2. PICK q : q = stored[Timeline[m]].run
      OBVIOUS
    <3>3. q \in b.closed \cup {b.current}
      BY <3>1, <3>2 DEF Building
    <3>4. q # 0
      <4>1. Timeline[m] \in DOMAIN stored
        BY <3>1, LinedUp
      <4>2. PICK rs \in Seq(Rows) : rs = stored
        BY <1>1
      <4>3. \A x \in DOMAIN rs : rs[x].run \in Runs
        BY ContextAssumption, Fields
      <4>4. \A x \in Runs : x # 0
        BY DEF Runs
      <4> QED
        BY <3>2, <4>1, <4>2, <4>3, <4>4
    <3> QED
      BY <1>7, <1>11, <3>2, <3>3, <3>4
  <2> QED
    BY <2>1, <2>2
<1>22. n + 1 # 0
  BY ONLY n \in Nat
<1>23. \A x \in next.closed : x \in Nat /\ x < next.current
  BY <1>9, <1>11, <1>20
<1> QED
  BY <1>2, <1>4, <1>5, <1>15, <1>16, <1>20, <1>21, <1>22, <1>23 DEF Building

Unbuilt == [events |-> <<>>, closed |-> {}, current |-> 0]
BuildsUpTo(f, k) ==
  /\ f = [n \in 0..k |-> f[n]] /\ f[0] = Unbuilt
  /\ \A n \in 1..k : f[n] = Listed(f[n - 1], Timeline[n])

LEMMA BuildsExist == \A k \in Nat : \E f : BuildsUpTo(f, k)
<1> DEFINE Bad == {k \in Nat : ~\E f : BuildsUpTo(f, k)}
<1> SUFFICES ASSUME NEW x \in Bad PROVE FALSE
  OBVIOUS
<1>1. PICK k \in Bad : \A m \in Bad : k <= m
  <2>1. Bad \in SUBSET Nat
    OBVIOUS
  <2> QED
    BY <2>1, Least
<1>2. k \in Nat /\ ~\E f : BuildsUpTo(f, k)
  BY <1>1
<1>3. k # 0
  <2>1. PICK f : f = [n \in 0..0 |-> Unbuilt]
    OBVIOUS
  <2>2. f[0] = Unbuilt /\ \A n \in 1..0 : FALSE
    BY <2>1
  <2>3. f = [n \in 0..0 |-> f[n]]
    BY <2>1
  <2>4. BuildsUpTo(f, 0)
    BY <2>2, <2>3 DEF BuildsUpTo
  <2> QED
    BY <1>2, <2>4
<1>4. k - 1 \in Nat /\ ~(k <= k - 1)
  BY <1>2, <1>3
<1>5. k - 1 \notin Bad
  BY <1>1, <1>4
<1>6. PICK m \in Nat : m = k - 1 /\ k = m + 1
  BY <1>2, <1>4
<1>7. PICK f : BuildsUpTo(f, m)
  BY <1>4, <1>5, <1>6
<1>8. PICK last : last = Listed(f[m], Timeline[k])
  OBVIOUS
<1>9. PICK g : g = [n \in 0..k |-> IF n = k THEN last ELSE f[n]]
  OBVIOUS
<1>10. g = [n \in 0..k |-> g[n]]
  BY <1>9
<1>11. g[0] = Unbuilt
  BY <1>2, <1>3, <1>7, <1>9 DEF BuildsUpTo
<1>12. ASSUME NEW n \in 1..k PROVE g[n] = Listed(g[n - 1], Timeline[n])
  <2>1. n \in 0..k /\ n - 1 \in 0..k /\ n - 1 # k
    BY <1>2
  <2>2. g[n - 1] = f[n - 1]
    BY <1>9, <2>1
  <2>3. CASE n = k
    <3>1. n - 1 = m
      BY <1>6, <2>3
    <3>2. g[n] = last
      BY <1>9, <2>1, <2>3
    <3> QED
      BY <1>8, <2>2, <2>3, <3>1, <3>2
  <2>4. CASE n # k
    <3>1. n \in 1..m
      BY <1>6, <2>4
    <3>2. f[n] = Listed(f[n - 1], Timeline[n])
      BY <1>7, <3>1 DEF BuildsUpTo
    <3>3. g[n] = f[n]
      BY <1>9, <2>1, <2>4
    <3> QED
      BY <2>2, <3>2, <3>3
  <2> QED
    BY <2>3, <2>4
<1>13. BuildsUpTo(g, k)
  BY <1>10, <1>11, <1>12 DEF BuildsUpTo
<1> QED
  BY <1>2, <1>13

LEMMA BuiltIs ==
  ASSUME NEW size \in Nat, size = Len(stored)
  PROVE  BuildsUpTo(Built, size)
<1> DEFINE fill(a) == [n \in 0..Len(stored) |-> IF n = 0 THEN Unbuilt ELSE Listed(a[n - 1], Timeline[n])]
           after == CHOOSE a : a = fill(a)
<1>1. PICK f : BuildsUpTo(f, size)
  BY BuildsExist
<1>2. f = fill(f)
  <2>1. f = [n \in 0..size |-> f[n]]
    BY <1>1 DEF BuildsUpTo
  <2>2. \A n \in 0..size : f[n] = IF n = 0 THEN Unbuilt ELSE Listed(f[n - 1], Timeline[n])
    <3>1. \A n \in 0..size : n = 0 \/ n \in 1..size
      OBVIOUS
    <3> QED
      BY <1>1, <3>1 DEF BuildsUpTo
  <2> QED
    BY <2>1, <2>2
<1>3. after = fill(after)
  BY <1>2
<1>4. Built = after
  BY DEF Built, Unbuilt
<1> HIDE DEF after
<1>5. PICK a : a = Built /\ a = fill(a)
  BY <1>3, <1>4
<1>6. a = [n \in 0..size |-> a[n]]
  BY <1>5
<1>7. \A n \in 0..size : a[n] = IF n = 0 THEN Unbuilt ELSE Listed(a[n - 1], Timeline[n])
  BY <1>5
<1>8. 0 \in 0..size /\ \A n \in 1..size : n \in 0..size /\ n # 0
  OBVIOUS
<1> QED
  BY <1>5, <1>6, <1>7, <1>8 DEF BuildsUpTo

LEMMA BuiltIsBuilding ==
  ASSUME ContextAssumption, StoreInv(stored), NEW r, Opened(stored, r), NEW size \in Nat, size = Len(stored)
  PROVE  Building(Built[size], size) /\ DOMAIN stored = 1..size /\ Lined(stored, Timeline)
<1>1. stored \in Seq(Rows)
  BY DEF StoreInv
<1>2. DOMAIN stored = 1..size /\ Lined(stored, Timeline) /\ DOMAIN Timeline = 1..size
  <2>1. DOMAIN stored = 1..size
    BY <1>1, LenProperties
  <2> QED
    BY <2>1, LinedTimeline DEF Lined
<1>3. PICK f : f = Built /\ BuildsUpTo(f, size)
  BY BuiltIs
<1> DEFINE Bad == {n \in 0..size : ~Building(f[n], n)}
<1>4. ASSUME NEW x \in Bad PROVE FALSE
  <2>1. Bad \in SUBSET Nat
    OBVIOUS
  <2>2. PICK n \in Bad : \A m \in Bad : n <= m
    BY <1>4, <2>1, Least
  <2>3. n \in 0..size /\ ~Building(f[n], n)
    BY <2>2
  <2>4. n # 0
    <3>1. PICK b : b = Unbuilt
      OBVIOUS
    <3>2. Shaped(b) /\ b.events = <<>> /\ b.closed = {} /\ b.current = 0
      BY <3>1, ShapedIs DEF Unbuilt
    <3>3. Lists(stored, Timeline, 0, b.events, b.closed, Over)
      BY <3>2, ListsNothing
    <3>4. \A m \in 1..0 : FALSE
      OBVIOUS
    <3>5. Building(b, 0)
      BY <3>2, <3>3, <3>4 DEF Building
    <3> QED
      BY <1>3, <2>3, <3>1, <3>5 DEF BuildsUpTo
  <2>5. PICK k \in Nat : n = k + 1 /\ k \in 0..size /\ k = n - 1 /\ n \in 1..size /\ ~(n <= k)
    BY <2>3, <2>4
  <2>6. Building(f[k], k)
    BY <2>2, <2>5
  <2>7. f[n] = Listed(f[k], Timeline[k + 1])
    BY <1>3, <2>5 DEF BuildsUpTo
  <2>8. k + 1 \in DOMAIN Timeline
    BY <1>2, <2>5
  <2>9. Building(Listed(f[k], Timeline[k + 1]), k + 1)
    BY <1>2, <2>6, <2>8, BuildsNext
  <2> QED
    BY <2>3, <2>5, <2>7, <2>9
<1>5. Building(f[size], size)
  <2>1. size \in 0..size
    OBVIOUS
  <2> QED
    BY <1>4, <2>1
<1> QED
  BY <1>2, <1>3, <1>5

LEMMA BuildTells ==
  ASSUME ContextAssumption, StoreInv(stored), run \in Nat, Opened(stored, run)
  PROVE  ToldAsItHappened(Build)
<1>1. PICK size \in Nat : size = Len(stored)
  BY LenProperties DEF StoreInv
<1>2. PICK b : b = Built[size]
  OBVIOUS
<1>3. Building(b, size) /\ DOMAIN stored = 1..size /\ Lined(stored, Timeline)
  BY <1>1, <1>2, BuiltIsBuilding
<1>4. PICK t : t = Terminated(b, b.current)
  OBVIOUS
<1>5. PICK e : e = Build
  OBVIOUS
<1>6. e = t.events
  BY <1>1, <1>2, <1>4, <1>5 DEF Build
<1>7. /\ t.closed = b.closed \cup ({b.current} \ {0})
      /\ Lists(stored, Timeline, size, t.events, t.closed, Over)
  BY <1>3, <1>4, EndsItsRun
<1>8. PICK s : s = t.closed
  OBVIOUS
<1>9. Lists(stored, Timeline, size, e, s, Over)
  BY <1>6, <1>7, <1>8
<1>10. PICK last \in Nat : DOMAIN e = 1..last
  BY <1>9, LenProperties DEF Lists
<1>11. ASSUME NEW r \in 1..run, IsOver(r) PROVE Cardinality({n \in DOMAIN e : e[n].type = "terminal" /\ e[n].run = r}) = 1
  <2>1. PICK i \in DOMAIN stored : stored[i].run = r
    BY DEF Opened
  <2>2. PICK m \in DOMAIN stored : Timeline[m] = i
    BY <1>3, TimelineIs DEF StoreInv, Lined
  <2>3. r \in b.closed \cup {b.current}
    BY <1>3, <2>1, <2>2 DEF Building
  <2>4. r \in s \cap Over /\ r # 0
    BY <1>7, <1>8, <1>11, <2>3 DEF Over
  <2>5. PICK p \in DOMAIN e : e[p].type = "terminal" /\ e[p].run = r
    BY <1>9, <2>4 DEF Lists, ListsTerminals
  <2>6. ASSUME NEW q \in DOMAIN e, e[q].type = "terminal", e[q].run = r PROVE q = p
    <3>1. ~(p < q) /\ ~(q < p)
      BY <1>9, <2>5, <2>6 DEF Lists, ListsInTurn
    <3> QED
      BY ONLY <1>10, <3>1, p \in DOMAIN e, q \in DOMAIN e
  <2>7. {n \in DOMAIN e : e[n].type = "terminal" /\ e[n].run = r} = {p}
    BY <2>5, <2>6
  <2> QED
    BY <2>7, FS_Singleton
<1>12. \A m, n \in DOMAIN e : m < n /\ e[m].run = e[n].run => e[m].type # "terminal" /\ e[n].type # "run"
  BY <1>9 DEF Lists, ListsInTurn
<1>13. \A n \in DOMAIN e : e[n].type = "tool_use_end" => EndFollows(stored, e, n)
  BY <1>9 DEF Lists, ListsEnds
<1>14. ToldAsItHappened(e)
  BY <1>11, <1>12, <1>13 DEF ToldAsItHappened, EndFollows
<1> QED
  BY <1>5, <1>14

\* The history of the user interface: of a run that is over nothing comes after
\* its one terminal event, a call ends once, after it started, and a run begins
\* with the input of its user (history.go Build).  It holds while calls run too.
THEOREM HistoryIsWhole ==
  ASSUME ~FastUser
  PROVE  Spec => [](ToldAsItHappened(Build) /\ ReplayIsWhole)
<1>1. SessionInv /\ Opened(stored, run) => ToldAsItHappened(Build) /\ ReplayIsWhole
  <2> SUFFICES ASSUME SessionInv, Opened(stored, run) PROVE ToldAsItHappened(Build) /\ ReplayIsWhole
    OBVIOUS
  <2>1. StoreInv(stored) /\ run \in Nat
    BY DEF SessionInv, SessionAt, LoopTypes
  <2>2. ToldAsItHappened(Build)
    BY <2>1, ContextAssumption, BuildTells
  <2> QED
    BY <2>2 DEF ReplayIsWhole
<1>2. Spec => []SessionInv
  BY SessionHolds
<1>3. Spec => []Opened(stored, run)
  BY OpenedHolds
<1> QED
  BY <1>1, <1>2, <1>3, PTL
=============================================================================
