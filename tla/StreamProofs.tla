---------------------------- MODULE StreamProofs ----------------------------
(***************************************************************************)
(* Theorems about what the server and its peers pass each other: what it   *)
(* reads from models and writes to browsers, and what the browser answers  *)
(* to the calls of the hub that wait for it.  They hold for any capacity   *)
(* of a channel, any number of increments and calls of an answer, any      *)
(* number of frames, and any set of wait calls and messages.               *)
(***************************************************************************)
EXTENDS ModelStream, WebSocket, ClientHub,
        SequenceTheorems, FiniteSetTheorems, WellFoundedInduction, TLAPS

-----------------------------------------------------------------------------
(* Whole frames.                                                           *)

WriteStates == {"nothing", "header", "payload"}

\* Only the writer that holds the lock is within a frame, and unless the buffer
\* is broken what left last is its header, or a whole frame.
Alone ==
  /\ writing \in [Writers -> WriteStates]
  /\ \A w \in Writers : writing[w] # "nothing" => mu = w
CutAt(w) == wire # <<>> /\ wire[Len(wire)] = <<w, "header">>
WireInv ==
  /\ Alone
  /\ wire \in Seq(Writers \X {"header", "payload"})
  /\ \A w \in Writers : ~broken => (CutAt(w) <=> writing[w] = "payload")
  /\ WholeFrames

LEMMA WireInit == ConnInit => WireInv
BY DEF ConnInit, WireInv, Alone, WriteStates, CutAt, WholeFrames, Writers

\* What a part that is appended must be.
LEMMA FrameGrows ==
  ASSUME wire \in Seq(Writers \X {"header", "payload"}), WholeFrames,
         NEW w \in Writers, NEW part \in {"header", "payload"},
         wire' = Append(wire, <<w, part>>),
         part = "payload" => CutAt(w),
         part = "header" => \A v \in Writers : ~CutAt(v)
  PROVE  /\ WholeFrames'
         /\ wire' \in Seq(Writers \X {"header", "payload"})
         /\ \A v \in Writers : CutAt(v)' <=> part = "header" /\ v = w
<1>1. PICK n \in Nat : n = Len(wire)
  BY LenProperties
<1>2. /\ Len(wire') = n + 1 /\ wire'[n + 1] = <<w, part>>
      /\ \A i \in 1..n : wire'[i] = wire[i]
      /\ DOMAIN wire = 1..n /\ DOMAIN wire' = 1..(n + 1)
      /\ wire' \in Seq(Writers \X {"header", "payload"})
  <2>1. <<w, part>> \in Writers \X {"header", "payload"}
    OBVIOUS
  <2> QED
    BY <1>1, <2>1, AppendProperties, LenProperties
<1>3. \A i \in 1..n : wire[i] = <<wire[i][1], wire[i][2]>> /\ wire[i][1] \in Writers
  BY <1>1, ElementOfSeq
<1>4. \A v \in Writers : CutAt(v) <=> n > 0 /\ wire[n] = <<v, "header">>
  BY <1>1, EmptySeq DEF CutAt
<1>5. \A i \in 1..n : IF wire[i][2] = "header"
                      THEN i < n => wire[i + 1] = <<wire[i][1], "payload">>
                      ELSE i > 1 /\ wire[i - 1] = <<wire[i][1], "header">>
  BY <1>1, <1>2 DEF WholeFrames
<1>6. ASSUME NEW i \in 1..(n + 1)
      PROVE  IF wire'[i][2] = "header"
             THEN i < n + 1 => wire'[i + 1] = <<wire'[i][1], "payload">>
             ELSE i > 1 /\ wire'[i - 1] = <<wire'[i][1], "header">>
  <2>1. CASE i = n + 1
    <3>1. wire'[i][1] = w /\ wire'[i][2] = part
      BY <1>2, <2>1
    <3>2. part = "payload" => n \in 1..n /\ wire'[n] = <<w, "header">>
      BY <1>2, <1>4
    <3>3. i - 1 = n /\ (n \in 1..n => i > 1)
      BY <2>1
    <3>4. CASE part = "header"
      BY <2>1, <3>1, <3>4
    <3>5. CASE part = "payload"
      <4>1. i > 1 /\ wire'[i - 1] = <<w, "header">>
        BY <3>2, <3>3, <3>5
      <4>2. wire'[i][2] # "header"
        BY <3>1, <3>5
      <4> QED
        BY <3>1, <4>1, <4>2
    <3> QED
      BY <3>4, <3>5
  <2>2. CASE i < n
    <3>1. i \in 1..n /\ i + 1 \in 1..n /\ (i > 1 => i - 1 \in 1..n)
      BY <2>2
    <3>2. /\ wire'[i] = wire[i] /\ wire'[i + 1] = wire[i + 1]
          /\ i > 1 => wire'[i - 1] = wire[i - 1]
      BY <1>2, <3>1
    <3> QED
      BY <1>5, <2>2, <3>1, <3>2
  <2>3. CASE i = n
    <3>1. i \in 1..n /\ (i > 1 => i - 1 \in 1..n)
      BY <2>3
    <3>2. /\ wire'[i] = wire[i] /\ wire'[i + 1] = <<w, part>>
          /\ i > 1 => wire'[i - 1] = wire[i - 1]
      BY <1>2, <2>3, <3>1
    <3>3. wire[i][2] = "header" => CutAt(wire[i][1])
      BY <1>3, <1>4, <2>3, <3>1
    <3>4. wire[i][2] = "header" => part = "payload" /\ wire[i][1] = w
      BY <1>3, <1>4, <2>3, <3>1, <3>3
    <3> QED
      BY <1>5, <2>3, <3>1, <3>2, <3>4
  <2>4. i = n + 1 \/ i < n \/ i = n
    OBVIOUS
  <2> QED
    BY <2>1, <2>2, <2>3, <2>4, Zenon
<1>7. \A v \in Writers : CutAt(v)' <=> part = "header" /\ v = w
  BY <1>2, EmptySeq DEF CutAt
<1> QED
  BY <1>2, <1>6, <1>7 DEF WholeFrames

LEMMA WireStep == WireInv /\ [ConnNext]_connVars => WireInv'
<1> SUFFICES ASSUME WireInv, [ConnNext]_connVars PROVE WireInv'
  OBVIOUS
<1>1. CASE UNCHANGED output
  BY <1>1 DEF output, WireInv, Alone, CutAt, WholeFrames
<1>2. ASSUME NEW w \in Writers, Lock(w) PROVE WireInv'
  <2>1. /\ \A v \in Writers : writing[v] = "nothing"
        /\ mu' = w /\ writing' = [writing EXCEPT ![w] = "header"] /\ wire' = wire /\ broken' = broken
    BY <1>2, WebSocketAssumption DEF Lock, WireInv, Alone, input
  <2> QED
    BY <2>1 DEF WireInv, Alone, WriteStates, CutAt, WholeFrames
<1>3. ASSUME NEW w \in Writers, WriteHeader(w) PROVE WireInv'
  <2>1. /\ writing[w] = "header" /\ ~broken /\ mu = w /\ mu' = mu /\ broken' = broken
        /\ wire' = Append(wire, <<w, "header">>) /\ writing' = [writing EXCEPT ![w] = "payload"]
    BY <1>3 DEF WriteHeader, WireInv, Alone
  <2>2. \A v \in Writers : ~CutAt(v)
    BY <2>1 DEF WireInv, Alone
  <2>3. /\ WholeFrames' /\ wire' \in Seq(Writers \X {"header", "payload"})
        /\ \A v \in Writers : CutAt(v)' <=> v = w
    BY <2>1, <2>2, FrameGrows DEF WireInv
  <2>4. Alone' /\ \A v \in Writers : writing'[v] = "payload" <=> v = w
    BY <2>1 DEF WireInv, Alone, WriteStates
  <2> QED
    BY <2>3, <2>4 DEF WireInv
<1>4. ASSUME NEW w \in Writers, WritePayload(w) PROVE WireInv'
  <2>1. /\ writing[w] = "payload" /\ ~broken /\ mu = w /\ mu' = NoOne /\ broken' = broken
        /\ wire' = Append(wire, <<w, "payload">>) /\ writing' = [writing EXCEPT ![w] = "nothing"]
    BY <1>4 DEF WritePayload, Unlock, WireInv, Alone
  <2>2. CutAt(w)
    BY <2>1 DEF WireInv
  <2>3. /\ WholeFrames' /\ wire' \in Seq(Writers \X {"header", "payload"})
        /\ \A v \in Writers : ~CutAt(v)'
    BY <2>1, <2>2, FrameGrows DEF WireInv
  <2>4. Alone' /\ \A v \in Writers : writing'[v] = "nothing"
    BY <2>1 DEF WireInv, Alone, WriteStates
  <2> QED
    BY <2>3, <2>4 DEF WireInv
<1>5. ASSUME NEW w \in Writers, WriteFails(w) PROVE WireInv'
  <2>1. /\ writing[w] # "nothing" /\ mu = w /\ broken' /\ wire' = wire
        /\ writing' = [writing EXCEPT ![w] = "nothing"]
    BY <1>5 DEF WriteFails, Unlock, WireInv, Alone
  <2>2. Alone'
    BY <2>1 DEF WireInv, Alone, WriteStates
  <2> QED
    BY <2>1, <2>2 DEF WireInv, WholeFrames
<1> QED
  BY <1>1, <1>2, <1>3, <1>4, <1>5
     DEF ConnNext, connVars, FallSilent, ReadEnds, ReadError, ReadTimeout, Pass, TakeMessage,
         HandlerExit, ReadPart, ReadWhole, ReadControl, ReadWrong, Receives, WriteStep

\* The bytes on the connection are whole frames, one after the other, and at
\* most a cut one at the end, for any writers that fail anywhere (writeFrame).
THEOREM FramesAreWhole == ConnSpec => []WholeFrames
<1>1. WireInv => WholeFrames
  BY DEF WireInv
<1> QED
  BY <1>1, WireInit, WireStep, PTL DEF ConnSpec
-----------------------------------------------------------------------------
(* Messages of frames.                                                     *)

\* The least of a set of numbers.
LEMMA Least ==
  ASSUME NEW S \in SUBSET Nat, NEW x \in S
  PROVE  \E n \in S : \A m \in S : n <= m
<1>1. IsWellFoundedOn(OpToRel(<, Nat), Nat)
  BY NatLessThanWellFounded
<1>2. PICK n \in S : \A m \in S : ~ (<<m, n>> \in OpToRel(<, Nat))
  BY <1>1, WFMin
<1>3. \A m \in S : ~ (m < n)
  BY <1>2 DEF OpToRel
<1> QED
  BY <1>3

\* f joins the sequences up to each of the first k.
UpTo(f, seqs, k) == f[1] = seqs[1] /\ \A n \in 2..k : f[n] = f[n - 1] \o seqs[n]

LEMMA UpToExists ==
  ASSUME NEW S, NEW seqs \in Seq(Seq(S))
  PROVE  \A k \in DOMAIN seqs : \E f : f = [n \in 1..k |-> f[n]] /\ UpTo(f, seqs, k)
<1> DEFINE Bad == {k \in DOMAIN seqs : ~\E f : f = [n \in 1..k |-> f[n]] /\ UpTo(f, seqs, k)}
<1> SUFFICES ASSUME NEW x \in Bad PROVE FALSE
  OBVIOUS
<1>1. PICK size \in Nat : size = Len(seqs) /\ DOMAIN seqs = 1..size
  OBVIOUS
<1>2. Bad \in SUBSET Nat
  BY <1>1
<1>3. PICK k \in Bad : \A m \in Bad : k <= m
  BY <1>2, Least
<1>4. k \in 1..size
  BY <1>1, <1>3
<1>5. k # 1
  <2>1. PICK f : f = [n \in 1..1 |-> seqs[1]]
    OBVIOUS
  <2>2. f = [n \in 1..1 |-> f[n]] /\ UpTo(f, seqs, 1)
    BY <2>1 DEF UpTo
  <2> QED
    BY <1>3, <2>2
<1>6. k - 1 \in 1..size /\ ~(k <= k - 1)
  BY <1>1, <1>4, <1>5
<1>7. k - 1 \notin Bad
  BY <1>3, <1>6
<1>8. PICK f : f = [n \in 1..(k - 1) |-> f[n]] /\ UpTo(f, seqs, k - 1)
  BY <1>1, <1>6, <1>7
<1>9. PICK last : last = f[k - 1] \o seqs[k]
  OBVIOUS
<1>10. PICK g : g = [n \in 1..k |-> IF n = k THEN last ELSE f[n]]
  OBVIOUS
<1>11. g[1] = seqs[1]
  <2>1. 1 \in 1..k /\ 1 # k
    BY <1>4, <1>5
  <2>2. g[1] = f[1]
    BY <1>10, <2>1
  <2> QED
    BY <1>8, <2>2 DEF UpTo
<1>12. ASSUME NEW n \in 2..k PROVE g[n] = g[n - 1] \o seqs[n]
  <2>1. n - 1 \in 1..k /\ n - 1 # k /\ n \in 1..k /\ g[n - 1] = f[n - 1]
    BY <1>4, <1>10
  <2>2. CASE n = k
    BY <1>9, <1>10, <2>1, <2>2
  <2>3. CASE n # k
    <3>1. n \in 2..(k - 1) /\ g[n] = f[n]
      BY <1>4, <1>10, <2>3
    <3> QED
      BY <1>8, <2>1, <3>1 DEF UpTo
  <2> QED
    BY <2>2, <2>3
<1>13. g = [n \in 1..k |-> g[n]]
  BY <1>10
<1> QED
  BY <1>3, <1>11, <1>12, <1>13 DEF UpTo

LEMMA UpToType ==
  ASSUME NEW S, NEW seqs \in Seq(Seq(S)), NEW k \in DOMAIN seqs, NEW f, UpTo(f, seqs, k)
  PROVE  \A n \in 1..k : f[n] \in Seq(S)
<1>1. k \in Nat /\ DOMAIN seqs = 1..Len(seqs) /\ Len(seqs) \in Nat /\ \A n \in DOMAIN seqs : seqs[n] \in Seq(S)
  OBVIOUS
<1> DEFINE Bad == {n \in 1..k : f[n] \notin Seq(S)}
<1> SUFFICES ASSUME NEW x \in Bad PROVE FALSE
  OBVIOUS
<1>2. Bad \in SUBSET Nat
  BY <1>1
<1>3. PICK n \in Bad : \A m \in Bad : n <= m
  BY <1>2, Least
<1>4. n \in 1..k /\ n \in DOMAIN seqs /\ 1 \in DOMAIN seqs
  BY <1>1, <1>3
<1>5. n # 1
  BY <1>1, <1>3, <1>4 DEF UpTo
<1>6. n \in 2..k /\ n - 1 \in 1..k /\ ~(n <= n - 1)
  BY <1>1, <1>4, <1>5
<1>7. f[n - 1] \in Seq(S)
  BY <1>3, <1>6
<1>8. f[n] = f[n - 1] \o seqs[n]
  BY <1>6 DEF UpTo
<1>9. f[n - 1] \o seqs[n] \in Seq(S)
  BY <1>1, <1>4, <1>7, ConcatProperties
<1> QED
  BY <1>3, <1>8, <1>9

\* Sequences that begin alike are joined alike.
LEMMA UpToSame ==
  ASSUME NEW seqs, NEW others, NEW k \in Nat, \A n \in 1..k : seqs[n] = others[n],
         NEW f, UpTo(f, seqs, k), NEW g, UpTo(g, others, k)
  PROVE  \A n \in 1..k : f[n] = g[n]
<1> DEFINE Bad == {n \in 1..k : f[n] # g[n]}
<1> SUFFICES ASSUME NEW x \in Bad PROVE FALSE
  OBVIOUS
<1>1. Bad \in SUBSET Nat
  OBVIOUS
<1>2. PICK n \in Bad : \A m \in Bad : n <= m
  BY <1>1, Least
<1>3. n \in 1..k /\ 1 \in 1..k
  BY <1>2
<1>4. n # 1
  BY <1>2, <1>3 DEF UpTo
<1>5. n \in 2..k /\ n - 1 \in 1..k /\ ~(n <= n - 1)
  BY <1>3, <1>4
<1>6. f[n - 1] = g[n - 1] /\ seqs[n] = others[n]
  BY <1>2, <1>3, <1>5
<1>7. f[n] = f[n - 1] \o seqs[n] /\ g[n] = g[n - 1] \o others[n]
  BY <1>5 DEF UpTo
<1> QED
  BY <1>2, <1>6, <1>7

LEMMA FlattenIs ==
  ASSUME NEW S, NEW seqs \in Seq(Seq(S)), NEW size \in Nat, size = Len(seqs), size # 0
  PROVE  \E f : UpTo(f, seqs, size) /\ FlattenSeq(seqs) = f[size]
<1>1. size \in DOMAIN seqs /\ DOMAIN seqs = 1..size
  OBVIOUS
<1>2. PICK f : f = [n \in 1..size |-> f[n]] /\ UpTo(f, seqs, size)
  BY <1>1, UpToExists
<1> DEFINE fill(a) == [n \in 1..Len(seqs) |-> IF n = 1 THEN seqs[n] ELSE a[n - 1] \o seqs[n]]
           flatten == CHOOSE a : a = fill(a)
<1>3. f = fill(f)
  <2>1. \A n \in 1..size : n = 1 \/ n \in 2..size
    OBVIOUS
  <2>2. \A n \in 1..size : f[n] = IF n = 1 THEN seqs[n] ELSE f[n - 1] \o seqs[n]
    BY <1>2, <2>1 DEF UpTo
  <2> QED
    BY <1>2, <2>2
<1>4. flatten = fill(flatten)
  BY <1>3
<1>5. PICK a : a = flatten /\ a = fill(a)
  BY <1>4
<1>6. FlattenSeq(seqs) = a[size]
  BY <1>5 DEF FlattenSeq
<1> HIDE DEF flatten
<1>7. UpTo(a, seqs, size)
  <2>1. \A n \in 1..size : a[n] = IF n = 1 THEN seqs[n] ELSE a[n - 1] \o seqs[n]
    BY <1>5
  <2>2. 1 \in 1..size /\ \A n \in 2..size : n \in 1..size /\ n # 1
    OBVIOUS
  <2> QED
    BY <2>1, <2>2 DEF UpTo
<1> QED
  BY <1>6, <1>7

LEMMA FlattenNone ==
  FlattenSeq(<<>>) = <<>>
BY DEF FlattenSeq

LEMMA FlattenType ==
  ASSUME NEW S, NEW seqs \in Seq(Seq(S))
  PROVE  FlattenSeq(seqs) \in Seq(S)
<1>1. PICK size \in Nat : size = Len(seqs) /\ DOMAIN seqs = 1..size
  OBVIOUS
<1>2. CASE size = 0
  <2>1. seqs = <<>>
    BY <1>1, <1>2
  <2>2. <<>> \in Seq(S)
    BY EmptySeq
  <2> QED
    BY <2>1, <2>2, FlattenNone
<1>3. CASE size # 0
  <2>1. PICK f : UpTo(f, seqs, size) /\ FlattenSeq(seqs) = f[size]
    BY <1>1, <1>3, FlattenIs
  <2>2. size \in DOMAIN seqs /\ size \in 1..size
    BY <1>1, <1>3
  <2> QED
    BY <2>1, <2>2, UpToType
<1> QED
  BY <1>2, <1>3

LEMMA FlattenAppend ==
  ASSUME NEW S, NEW seqs \in Seq(Seq(S)), NEW x \in Seq(S)
  PROVE  FlattenSeq(Append(seqs, x)) = FlattenSeq(seqs) \o x
<1>1. PICK size \in Nat : size = Len(seqs) /\ DOMAIN seqs = 1..size
  OBVIOUS
<1>2. PICK more \in Seq(Seq(S)) : more = Append(seqs, x)
  BY AppendProperties
<1>3. Len(more) = size + 1 /\ more[size + 1] = x /\ \A n \in 1..size : seqs[n] = more[n]
  BY <1>1, <1>2, AppendProperties
<1>4. size + 1 \in Nat /\ size + 1 # 0
  BY <1>1
<1>5. PICK g : UpTo(g, more, size + 1) /\ FlattenSeq(more) = g[size + 1]
  BY <1>3, <1>4, FlattenIs
<1>6. CASE size = 0
  <2>1. seqs = <<>>
    BY <1>1, <1>6
  <2>2. FlattenSeq(more) = x
    BY <1>3, <1>5, <1>6 DEF UpTo
  <2>3. <<>> \o x = x
    BY ConcatEmptySeq
  <2> QED
    BY <1>2, <2>1, <2>2, <2>3, FlattenNone
<1>7. CASE size # 0
  <2>1. PICK f : UpTo(f, seqs, size) /\ FlattenSeq(seqs) = f[size]
    BY <1>1, <1>7, FlattenIs
  <2>2. size + 1 \in 2..(size + 1) /\ (size + 1) - 1 = size /\ size \in 1..size
        /\ \A n \in 2..size : n \in 2..(size + 1)
    BY <1>1, <1>7
  <2>3. UpTo(g, more, size)
    BY <1>5, <2>2 DEF UpTo
  <2>4. g[size] = f[size]
    <3>1. \A n \in 1..size : seqs[n] = more[n]
      BY <1>3
    <3>2. UpTo(f, seqs, size)
      BY <2>1
    <3>3. \A n \in 1..size : f[n] = g[n]
      BY <2>3, <3>1, <3>2, UpToSame
    <3> QED
      BY <2>2, <3>3
  <2>5. g[size + 1] = g[size] \o x
    BY <1>3, <1>5, <2>2 DEF UpTo
  <2> QED
    BY <1>2, <1>5, <2>1, <2>4, <2>5
<1> QED
  BY <1>6, <1>7

-----------------------------------------------------------------------------
(* What the session is passed.                                             *)

IsData(fr, n) == fr[n].op \in Data

\* put are data frames in order; one that it lacks comes after them, and the
\* reader has ended.
Sound(fr, put, rd) ==
  /\ put \in Seq(Nat)
  /\ \A m, n \in DOMAIN put : m < n => put[m] < put[n]
  /\ \A m \in DOMAIN put : put[m] \in DOMAIN fr /\ IsData(fr, put[m])
  /\ \A n \in DOMAIN fr : IsData(fr, n) =>
       \/ \E m \in DOMAIN put : put[m] = n
       \/ rd = "ended" /\ \A m \in DOMAIN put : put[m] < n

\* The frames of a message that is whole, and of one that is not yet.
Whole(fr, message) ==
  /\ Len(message) \in 1..MaxSize
  /\ \A n \in DOMAIN message :
       /\ message[n] \in DOMAIN fr
       /\ (fr[message[n]].op = "text") <=> (n = 1)
       /\ fr[message[n]].fin <=> (n = Len(message))
Part(fr, message) ==
  /\ Len(message) <= MaxSize
  /\ \A n \in DOMAIN message :
       /\ message[n] \in DOMAIN fr
       /\ (fr[message[n]].op = "text") <=> (n = 1)
       /\ ~fr[message[n]].fin

\* fw are the frames after frame.
Receive(fr, frame, fw) ==
  /\ fr \in Seq(Frames) /\ frame \in Frames /\ fw \in Seq(Frames)
  /\ DOMAIN fr = 1..Len(fr) /\ DOMAIN fw = 1..(Len(fr) + 1) /\ Len(fr) \in Nat
  /\ fw[Len(fr) + 1] = frame /\ \A n \in DOMAIN fr : n \in DOMAIN fw /\ fw[n] = fr[n]

LEMMA ReceiveIs ==
  ASSUME NEW fr \in Seq(Frames), NEW frame \in Frames
  PROVE  Receive(fr, frame, Append(fr, frame))
<1>1. PICK fw : fw = Append(fr, frame)
  OBVIOUS
<1>2. /\ fw \in Seq(Frames) /\ Len(fw) = Len(fr) + 1 /\ Len(fr) \in Nat
      /\ fw[Len(fr) + 1] = frame /\ \A n \in 1..Len(fr) : fw[n] = fr[n]
  BY <1>1, AppendProperties
<1>3. DOMAIN fr = 1..Len(fr) /\ DOMAIN fw = 1..(Len(fr) + 1)
  BY <1>2
<1> QED
  BY <1>1, <1>2, <1>3 DEF Receive

LEMMA WholeStays ==
  ASSUME NEW fr, NEW frame, NEW fw, Receive(fr, frame, fw), NEW message, Whole(fr, message)
  PROVE  Whole(fw, message)
BY DEF Receive, Whole

LEMMA PartStays ==
  ASSUME NEW fr, NEW frame, NEW fw, Receive(fr, frame, fw), NEW message, Part(fr, message)
  PROVE  Part(fw, message)
BY DEF Receive, Part

\* A frame in its place makes a part longer, or whole.
LEMMA PartGrows ==
  ASSUME WebSocketAssumption, NEW fr, NEW frame, NEW fw, Receive(fr, frame, fw),
         NEW message \in Seq(Nat), Part(fr, message), Len(message) < MaxSize,
         (frame.op = "text") <=> message = <<>>,
         NEW more, more = Append(message, Len(fr) + 1)
  PROVE  /\ more \in Seq(Nat)
         /\ frame.fin => Whole(fw, more)
         /\ ~frame.fin => Part(fw, more)
<1>1. PICK k \in Nat : k = Len(message) /\ DOMAIN message = 1..k
  OBVIOUS
<1>2. PICK id : id = Len(fr) + 1 /\ id \in Nat /\ id \in DOMAIN fw /\ fw[id] = frame
  BY DEF Receive
<1>3. /\ more \in Seq(Nat) /\ Len(more) = k + 1 /\ DOMAIN more = 1..(k + 1)
      /\ more[k + 1] = id /\ \A n \in 1..k : more[n] = message[n]
  BY <1>1, <1>2, AppendProperties
<1>4. MaxSize \in Nat
  BY DEF WebSocketAssumption
<1>5. k = 0 <=> message = <<>>
  BY <1>1
<1>6. ASSUME NEW n \in 1..(k + 1)
      PROVE  /\ more[n] \in DOMAIN fw
             /\ (fw[more[n]].op = "text") <=> (n = 1)
             /\ n # k + 1 => ~fw[more[n]].fin
             /\ n = k + 1 => fw[more[n]] = frame
  <2>1. CASE n = k + 1
    BY <1>1, <1>2, <1>3, <1>5, <2>1
  <2>2. CASE n # k + 1
    <3>1. n \in 1..k /\ more[n] = message[n]
      BY <1>3, <2>2
    <3>3. message[n] \in DOMAIN fr /\ ((fr[message[n]].op = "text") <=> (n = 1)) /\ ~fr[message[n]].fin
      BY <1>1, <3>1 DEF Part
    <3>4. message[n] \in DOMAIN fw /\ fw[message[n]] = fr[message[n]]
      BY <3>3 DEF Receive
    <3> QED
      BY <2>2, <3>1, <3>3, <3>4
  <2> QED
    BY <2>1, <2>2
<1>7. k + 1 \in 1..MaxSize
  BY <1>1, <1>4
<1>8. ASSUME frame.fin PROVE Whole(fw, more)
  <2>1. \A n \in DOMAIN more : fw[more[n]].fin <=> (n = Len(more))
    BY <1>3, <1>6, <1>8
  <2> QED
    BY <1>3, <1>6, <1>7, <2>1 DEF Whole
<1>9. ASSUME ~frame.fin PROVE Part(fw, more)
  <2>1. \A n \in DOMAIN more : ~fw[more[n]].fin
    BY <1>3, <1>6, <1>9
  <2> QED
    BY <1>3, <1>4, <1>6, <1>7, <2>1 DEF Part
<1> QED
  BY <1>3, <1>8, <1>9

\* A data frame is put with the others, any other is not.
LEMMA SoundData ==
  ASSUME NEW fr, NEW frame, NEW fw, Receive(fr, frame, fw), frame.op \in Data,
         NEW put, NEW rd, Sound(fr, put, rd), rd # "ended", NEW rd2
  PROVE  Sound(fw, Append(put, Len(fr) + 1), rd2)
<1>1. PICK k \in Nat : k = Len(put) /\ DOMAIN put = 1..k /\ put \in Seq(Nat)
  BY DEF Sound
<1>2. PICK id : id = Len(fr) + 1 /\ id \in Nat /\ id \in DOMAIN fw /\ fw[id] = frame
  BY DEF Receive
<1>3. PICK more : more = Append(put, id)
  OBVIOUS
<1>4. /\ more \in Seq(Nat) /\ DOMAIN more = 1..(k + 1)
      /\ more[k + 1] = id /\ \A n \in 1..k : more[n] = put[n]
  BY <1>1, <1>2, <1>3, AppendProperties
<1>5. \A n \in 1..k : put[n] \in DOMAIN fr /\ IsData(fr, put[n]) /\ put[n] \in Nat /\ put[n] < id
  <2>1. \A n \in 1..k : put[n] \in DOMAIN fr /\ IsData(fr, put[n])
    BY <1>1 DEF Sound
  <2>2. \A x \in DOMAIN fr : x \in Nat /\ x < id
    BY <1>2 DEF Receive
  <2> QED
    BY <2>1, <2>2
<1>6. ASSUME NEW m \in 1..(k + 1), NEW n \in 1..(k + 1), m < n PROVE more[m] < more[n]
  <2>1. m \in 1..k
    BY <1>6
  <2>2. CASE n = k + 1
    BY <1>4, <1>5, <2>1, <2>2
  <2>3. CASE n # k + 1
    <3>1. n \in 1..k
      BY <2>3
    <3>2. put[m] < put[n]
      BY <1>1, <1>6, <2>1, <3>1 DEF Sound
    <3> QED
      BY <1>4, <2>1, <3>1, <3>2
  <2> QED
    BY <2>2, <2>3
<1>7. ASSUME NEW m \in 1..(k + 1) PROVE more[m] \in DOMAIN fw /\ IsData(fw, more[m])
  <2>1. CASE m = k + 1
    BY <1>2, <1>4, <2>1 DEF IsData
  <2>2. CASE m # k + 1
    <3>1. m \in 1..k /\ more[m] = put[m] /\ put[m] \in DOMAIN fr /\ IsData(fr, put[m])
      BY <1>4, <1>5, <2>2
    <3> QED
      BY <3>1 DEF Receive, IsData
  <2> QED
    BY <2>1, <2>2
<1>8. ASSUME NEW n \in DOMAIN fw, IsData(fw, n) PROVE \E m \in 1..(k + 1) : more[m] = n
  <2>1. CASE n = id
    <3>1. k + 1 \in 1..(k + 1)
      OBVIOUS
    <3> QED
      BY <1>4, <2>1, <3>1
  <2>2. CASE n # id
    <3>1. n \in DOMAIN fr /\ IsData(fr, n)
      BY <1>2, <1>8, <2>2 DEF Receive, IsData
    <3>2. PICK m \in 1..k : put[m] = n
      BY <1>1, <3>1 DEF Sound
    <3>3. m \in 1..(k + 1) /\ more[m] = n
      BY <1>4, <3>2
    <3> QED
      BY <3>3
  <2> QED
    BY <2>1, <2>2
<1>9. Sound(fw, more, rd2)
  BY <1>4, <1>6, <1>7, <1>8 DEF Sound
<1> QED
  BY <1>2, <1>3, <1>9

LEMMA SoundOther ==
  ASSUME NEW fr, NEW frame, NEW fw, Receive(fr, frame, fw),
         NEW put, NEW rd, Sound(fr, put, rd), rd # "ended", NEW rd2, frame.op \notin Data \/ rd2 = "ended"
  PROVE  Sound(fw, put, rd2)
<1>1. PICK id : id = Len(fr) + 1 /\ id \in Nat /\ fw[id] = frame /\ \A x \in DOMAIN fr : x \in Nat /\ x < id
  BY DEF Receive
<1>2. put \in Seq(Nat) /\ \A m, n \in DOMAIN put : m < n => put[m] < put[n]
  BY DEF Sound
<1>3. ASSUME NEW m \in DOMAIN put PROVE put[m] \in DOMAIN fw /\ IsData(fw, put[m]) /\ put[m] < id
  <2>1. put[m] \in DOMAIN fr /\ IsData(fr, put[m])
    BY DEF Sound
  <2> QED
    BY <1>1, <2>1 DEF Receive, IsData
<1>4. ASSUME NEW n \in DOMAIN fw, IsData(fw, n)
      PROVE  \/ \E m \in DOMAIN put : put[m] = n
             \/ rd2 = "ended" /\ \A m \in DOMAIN put : put[m] < n
  <2>1. CASE n = id
    BY <1>1, <1>3, <1>4, <2>1 DEF IsData
  <2>2. CASE n # id
    <3>1. n \in DOMAIN fr /\ IsData(fr, n)
      BY <1>1, <1>4, <2>2 DEF Receive, IsData
    <3> QED
      BY <3>1 DEF Sound
  <2> QED
    BY <2>1, <2>2
<1> QED
  BY <1>2, <1>3, <1>4 DEF Sound

LEMMA SoundSame ==
  ASSUME NEW fr, NEW put, NEW rd, Sound(fr, put, rd), NEW rd2, rd = "ended" => rd2 = "ended"
  PROVE  Sound(fr, put, rd2)
BY DEF Sound

\* The messages that were passed: taken, in the channel, or at its door.
PassedOf(ms, inc, pas) == ms \o inc \o (IF pas = <<>> THEN <<>> ELSE <<pas>>)

LEMMA One ==
  ASSUME NEW S, NEW x \in S
  PROVE  <<x>> \in Seq(S) /\ Len(<<x>>) = 1 /\ <<x>>[1] = x
OBVIOUS

Associates(s, t, u) == (s \o t) \o u = s \o (t \o u)
LEMMA Associative ==
  ASSUME NEW S, NEW s \in Seq(S), NEW t \in Seq(S), NEW u \in Seq(S)
  PROVE  Associates(s, t, u)
BY ConcatAssociative DEF Associates

AppendsTo(s, t, x) == Append(s \o t, x) = s \o Append(t, x)
LEMMA Joint ==
  ASSUME NEW S, NEW s \in Seq(S), NEW t \in Seq(S), NEW x \in S
  PROVE  AppendsTo(s, t, x)
<1>1. PICK one \in Seq(S) : one = <<x>>
  BY One
<1>2. (s \o t) \o one = s \o (t \o one)
  BY Associative DEF Associates
<1>3. PICK all \in Seq(S) : all = s \o t
  BY ConcatProperties
<1>4. Append(all, x) = all \o one /\ Append(t, x) = t \o one
  BY <1>1, AppendIsConcat
<1> QED
  BY <1>1, <1>2, <1>3, <1>4 DEF AppendsTo

LEMMA PassedType ==
  ASSUME NEW ms \in Seq(Seq(Nat)), NEW inc \in Seq(Seq(Nat)), NEW pas \in Seq(Nat)
  PROVE  PassedOf(ms, inc, pas) \in Seq(Seq(Nat))
<1>1. PICK last \in Seq(Seq(Nat)) : last = IF pas = <<>> THEN <<>> ELSE <<pas>>
  <2>1. <<pas>> \in Seq(Seq(Nat)) /\ <<>> \in Seq(Seq(Nat))
    BY One, EmptySeq
  <2> QED
    BY <2>1
<1>2. PICK first \in Seq(Seq(Nat)) : first = ms \o inc
  BY ConcatProperties
<1>3. first \o last \in Seq(Seq(Nat))
  BY ConcatProperties
<1> QED
  BY <1>1, <1>2, <1>3 DEF PassedOf

LEMMA PassedMore ==
  ASSUME NEW ms \in Seq(Seq(Nat)), NEW inc \in Seq(Seq(Nat)), NEW more \in Seq(Nat), more # <<>>
  PROVE  PassedOf(ms, inc, more) = Append(PassedOf(ms, inc, <<>>), more)
<1>1. PICK first \in Seq(Seq(Nat)) : first = ms \o inc
  BY ConcatProperties
<1>2. first \o <<>> = first /\ Append(first, more) = first \o <<more>>
  BY ConcatEmptySeq, AppendIsConcat
<1> QED
  BY <1>1, <1>2 DEF PassedOf

LEMMA PassedIn ==
  ASSUME NEW ms \in Seq(Seq(Nat)), NEW inc \in Seq(Seq(Nat)), NEW pas \in Seq(Nat), pas # <<>>
  PROVE  PassedOf(ms, Append(inc, pas), <<>>) = PassedOf(ms, inc, pas)
<1>1. PICK first \in Seq(Seq(Nat)) : first = ms \o inc
  BY ConcatProperties
<1>2. Append(first, pas) = ms \o Append(inc, pas)
  <2>1. AppendsTo(ms, inc, pas)
    BY ONLY Joint
  <2> QED
    BY <1>1, <2>1, Zenon DEF AppendsTo
<1>3. Append(first, pas) = first \o <<pas>> /\ Append(first, pas) \in Seq(Seq(Nat))
  BY AppendIsConcat, AppendProperties
<1>4. Append(first, pas) \o <<>> = Append(first, pas)
  BY <1>3, ConcatEmptySeq
<1> QED
  BY <1>1, <1>2, <1>3, <1>4 DEF PassedOf

LEMMA PassedTaken ==
  ASSUME NEW ms \in Seq(Seq(Nat)), NEW inc \in Seq(Seq(Nat)), inc # <<>>, NEW pas \in Seq(Nat)
  PROVE  PassedOf(Append(ms, Head(inc)), Tail(inc), pas) = PassedOf(ms, inc, pas)
<1>1. PICK h \in Seq(Nat), t \in Seq(Seq(Nat)) : h = Head(inc) /\ t = Tail(inc)
  BY HeadTailProperties
<1>2. PICK one \in Seq(Seq(Nat)) : one = <<h>> /\ Len(one) = 1 /\ one[1] = h
  BY One
<1>3. one \o t = inc
  <2>1. PICK k \in Nat : k = Len(inc) /\ k # 0
    BY EmptySeq
  <2>2. Len(t) = k - 1 /\ \A i \in 1..(k - 1) : t[i] = inc[i + 1]
    BY <1>1, <2>1, HeadTailProperties
  <2>3. /\ one \o t \in Seq(Seq(Nat)) /\ Len(one \o t) = 1 + (k - 1)
        /\ \A i \in 1..(1 + (k - 1)) : (one \o t)[i] = IF i <= 1 THEN one[i] ELSE t[i - 1]
    BY <1>2, <2>1, <2>2, ConcatProperties
  <2>4. inc[1] = h
    BY <1>1, <2>1
  <2>5. ASSUME NEW i \in 1..k PROVE (one \o t)[i] = inc[i]
    <3>1. CASE i = 1
      BY <1>2, <2>1, <2>3, <2>4, <3>1
    <3>2. CASE i # 1
      <4>1. i - 1 \in 1..(k - 1) /\ (i - 1) + 1 = i /\ i \in 1..(1 + (k - 1)) /\ ~(i <= 1)
        BY <2>1, <3>2
      <4> QED
        BY <2>2, <2>3, <4>1
    <3> QED
      BY <3>1, <3>2
  <2>6. Len(one \o t) = k
    BY <2>1, <2>3
  <2> QED
    BY <2>1, <2>3, <2>5, <2>6, SeqEqual
<1>4. Append(ms, h) = ms \o one
  BY <1>2, AppendIsConcat
<1>5. (ms \o one) \o t = ms \o (one \o t)
  <2>1. Associates(ms, one, t)
    BY ONLY Associative
  <2> QED
    BY ONLY <2>1, Zenon DEF Associates
<1> QED
  BY <1>1, <1>3, <1>4, <1>5 DEF PassedOf

\* The frames that were put together: those of the messages, and of the next.
Gathers(ms, inc, pay, id) ==
  FlattenSeq(PassedOf(ms, inc, Append(pay, id))) \o <<>> =
    Append(FlattenSeq(PassedOf(ms, inc, <<>>)) \o pay, id)
LEMMA GatheredMore ==
  ASSUME NEW ms \in Seq(Seq(Nat)), NEW inc \in Seq(Seq(Nat)), NEW pay \in Seq(Nat), NEW id \in Nat
  PROVE  Gathers(ms, inc, pay, id)
<1>1. PICK more \in Seq(Nat) : more = Append(pay, id) /\ more # <<>>
  BY AppendProperties
<1>2. <<>> \in Seq(Nat)
  BY EmptySeq
<1>3. PICK passed \in Seq(Seq(Nat)) : passed = PassedOf(ms, inc, <<>>)
  BY <1>2, PassedType
<1>4. PassedOf(ms, inc, more) = Append(passed, more)
  BY <1>1, <1>3, PassedMore
<1>5. FlattenSeq(Append(passed, more)) = FlattenSeq(passed) \o more
  BY FlattenAppend
<1>6. PICK flat \in Seq(Nat) : flat = FlattenSeq(passed)
  BY FlattenType
<1>7. flat \o more = Append(flat \o pay, id)
  <2>1. AppendsTo(flat, pay, id)
    BY ONLY Joint
  <2> QED
    BY <1>1, <2>1, Zenon DEF AppendsTo
<1>8. flat \o more \in Seq(Nat)
  BY ConcatProperties
<1>9. (flat \o more) \o <<>> = flat \o more
  BY <1>8, ConcatEmptySeq
<1> QED
  BY <1>1, <1>3, <1>4, <1>5, <1>6, <1>7, <1>9 DEF Gathers

LEMMA GatheredOn ==
  ASSUME NEW passed \in Seq(Seq(Nat)), NEW pay \in Seq(Nat), NEW id \in Nat
  PROVE  FlattenSeq(passed) \o Append(pay, id) = Append(FlattenSeq(passed) \o pay, id)
<1>1. PICK flat \in Seq(Nat) : flat = FlattenSeq(passed)
  BY FlattenType
<1>2. flat \o Append(pay, id) = Append(flat \o pay, id)
  <2>1. AppendsTo(flat, pay, id)
    BY ONLY Joint
  <2> QED
    BY <2>1, Zenon DEF AppendsTo
<1> QED
  BY <1>1, <1>2

\* The reader: what it was sent, has put together, and passed.
ReadAt(fr, pay, rd, pas, inc, ms) ==
  /\ fr \in Seq(Frames) /\ pay \in Seq(Nat) /\ pas \in Seq(Nat)
  /\ inc \in Seq(Seq(Nat)) /\ ms \in Seq(Seq(Nat))
  /\ rd = "passing" => pas # <<>>
  /\ pas # <<>> => rd \in {"passing", "ended"}
  /\ Part(fr, pay)
  /\ \A m \in DOMAIN PassedOf(ms, inc, pas) : Whole(fr, PassedOf(ms, inc, pas)[m])
  /\ Sound(fr, FlattenSeq(PassedOf(ms, inc, pas)) \o pay, rd)
ReadInv == ReadAt(frames, payload, reader, passing, incoming, messages)

LEMMA ReadStarts ==
  ASSUME WebSocketAssumption, ConnInit
  PROVE  ReadInv
<1>1. PICK none : none = <<>>
  OBVIOUS
<1>2. none \in Seq(Nat) /\ none \in Seq(Seq(Nat)) /\ none \in Seq(Frames) /\ DOMAIN none = {} /\ Len(none) = 0
  BY <1>1
<1>3. PassedOf(none, none, none) = none
  BY <1>1, <1>2, ConcatEmptySeq DEF PassedOf
<1>4. FlattenSeq(none) \o none = none
  BY <1>1, <1>2, FlattenNone, ConcatEmptySeq
<1>5. Part(none, none) /\ Sound(none, none, "reading")
  BY <1>2 DEF Part, Sound, WebSocketAssumption
<1>6. ReadAt(none, none, "reading", none, none, none)
  BY <1>1, <1>2, <1>3, <1>4, <1>5 DEF ReadAt
<1> QED
  BY <1>1, <1>6 DEF ReadInv, ConnInit

\* The reader goes on with nothing read.
LEMMA ReadGoesOn ==
  ASSUME NEW fr, NEW pay, NEW rd, NEW pas, NEW inc, NEW ms, ReadAt(fr, pay, rd, pas, inc, ms),
         NEW rd2, rd = "ended" => rd2 = "ended", rd2 = "passing" => rd = "passing",
         pas # <<>> => rd2 \in {"passing", "ended"}
  PROVE  ReadAt(fr, pay, rd2, pas, inc, ms)
<1>1. Sound(fr, FlattenSeq(PassedOf(ms, inc, pas)) \o pay, rd2)
  BY SoundSame DEF ReadAt
<1> QED
  BY <1>1 DEF ReadAt

LEMMA ReadPasses ==
  ASSUME NEW fr, NEW pay, NEW pas, NEW inc, NEW ms, ReadAt(fr, pay, "passing", pas, inc, ms)
  PROVE  ReadAt(fr, pay, "reading", <<>>, Append(inc, pas), ms)
<1>1. pas # <<>> /\ pas \in Seq(Nat) /\ inc \in Seq(Seq(Nat)) /\ ms \in Seq(Seq(Nat))
  BY DEF ReadAt
<1>2. PassedOf(ms, Append(inc, pas), <<>>) = PassedOf(ms, inc, pas)
  BY <1>1, PassedIn
<1>3. Append(inc, pas) \in Seq(Seq(Nat)) /\ <<>> \in Seq(Nat)
  BY <1>1, AppendProperties, EmptySeq
<1>4. Sound(fr, FlattenSeq(PassedOf(ms, inc, pas)) \o pay, "reading")
  BY SoundSame DEF ReadAt
<1> QED
  BY <1>1, <1>2, <1>3, <1>4 DEF ReadAt

LEMMA ReadIsTaken ==
  ASSUME NEW fr, NEW pay, NEW rd, NEW pas, NEW inc, NEW ms, ReadAt(fr, pay, rd, pas, inc, ms), inc # <<>>
  PROVE  ReadAt(fr, pay, rd, pas, Tail(inc), Append(ms, Head(inc)))
<1>1. pas \in Seq(Nat) /\ inc \in Seq(Seq(Nat)) /\ ms \in Seq(Seq(Nat))
  BY DEF ReadAt
<1>2. PassedOf(Append(ms, Head(inc)), Tail(inc), pas) = PassedOf(ms, inc, pas)
  BY <1>1, PassedTaken
<1>3. Head(inc) \in Seq(Nat) /\ Tail(inc) \in Seq(Seq(Nat))
  BY <1>1, HeadTailProperties
<1>4. Append(ms, Head(inc)) \in Seq(Seq(Nat))
  BY <1>1, <1>3, AppendProperties
<1> QED
  BY <1>1, <1>2, <1>3, <1>4 DEF ReadAt

\* What is appended to is not empty.
LEMMA AppendIsSome ==
  \A s \in Seq(Nat), x \in Nat : Append(s, x) # <<>>
<1> SUFFICES ASSUME NEW s \in Seq(Nat), NEW x \in Nat, Append(s, x) = <<>> PROVE FALSE
  OBVIOUS
<1>1. Len(Append(s, x)) = Len(s) + 1
  BY AppendProperties
<1>2. PICK k \in Nat : k = Len(s)
  BY LenProperties
<1>3. Len(<<>>) = 0
  OBVIOUS
<1>4. k + 1 = 0
  BY <1>1, <1>2, <1>3
<1> QED
  BY ONLY <1>2, <1>4

\* A frame is read that is put with the others: the message goes on, or ends.
LEMMA ReadIsPut ==
  ASSUME WebSocketAssumption, NEW fr, NEW pay, NEW inc, NEW ms, ReadAt(fr, pay, "reading", <<>>, inc, ms),
         NEW frame \in Frames, frame.op \in Data, (frame.op = "text") <=> pay = <<>>, Len(pay) < MaxSize,
         NEW fw, fw = Append(fr, frame), NEW more, more = Append(pay, Len(fr) + 1)
  PROVE  /\ ~frame.fin => ReadAt(fw, more, "reading", <<>>, inc, ms)
         /\ frame.fin => ReadAt(fw, <<>>, "passing", more, inc, ms)
<1>1. /\ fr \in Seq(Frames) /\ pay \in Seq(Nat) /\ inc \in Seq(Seq(Nat)) /\ ms \in Seq(Seq(Nat))
      /\ Part(fr, pay) /\ <<>> \in Seq(Nat)
  BY EmptySeq DEF ReadAt
<1>2. Receive(fr, frame, fw)
  BY <1>1, ReceiveIs
<1>3. PICK passed \in Seq(Seq(Nat)) : passed = PassedOf(ms, inc, <<>>)
  BY <1>1, PassedType
<1>4. \A m \in DOMAIN passed : Whole(fw, passed[m])
  <2>1. \A m \in DOMAIN passed : Whole(fr, passed[m])
    BY <1>3 DEF ReadAt
  <2> QED
    BY <1>2, <2>1, WholeStays
<1>5. PICK id \in Nat : id = Len(fr) + 1
  BY <1>1, LenProperties
<1>6. more \in Seq(Nat) /\ (frame.fin => Whole(fw, more)) /\ (~frame.fin => Part(fw, more))
  BY <1>1, <1>2, PartGrows
<1>7. PICK put : put = FlattenSeq(passed) \o pay
  OBVIOUS
<1>8. Sound(fr, put, "reading")
  BY <1>3, <1>7 DEF ReadAt
<1>9. fw \in Seq(Frames)
  BY <1>2 DEF Receive
<1>10. more # <<>>
  <2>1. Append(pay, id) # <<>>
    BY <1>1, AppendIsSome
  <2> QED
    BY <1>5, <2>1
<1>11. ASSUME ~frame.fin PROVE ReadAt(fw, more, "reading", <<>>, inc, ms)
  <2>1. FlattenSeq(passed) \o more = Append(put, id)
    BY <1>1, <1>5, <1>7, GatheredOn
  <2>2. Sound(fw, Append(put, id), "reading")
    BY <1>2, <1>5, <1>8, SoundData
  <2> QED
    BY <1>1, <1>3, <1>4, <1>6, <1>9, <1>11, <2>1, <2>2 DEF ReadAt
<1>12. ASSUME frame.fin PROVE ReadAt(fw, <<>>, "passing", more, inc, ms)
  <2>1. FlattenSeq(PassedOf(ms, inc, more)) \o <<>> = Append(put, id)
    <3>1. FlattenSeq(PassedOf(ms, inc, Append(pay, id))) \o <<>> =
            Append(FlattenSeq(PassedOf(ms, inc, <<>>)) \o pay, id)
      <4>1. Gathers(ms, inc, pay, id)
        BY <1>1, GatheredMore
      <4> QED
        BY <4>1, Zenon DEF Gathers
    <3> QED
      BY <1>3, <1>5, <1>7, <3>1
  <2>2. Sound(fw, Append(put, id), "passing")
    BY <1>2, <1>5, <1>8, SoundData
  <2>3. PassedOf(ms, inc, more) = Append(passed, more)
    BY <1>1, <1>3, <1>6, <1>10, PassedMore
  <2>4. PICK all : all = PassedOf(ms, inc, more)
    OBVIOUS
  <2>5. \A m \in DOMAIN all : Whole(fw, all[m])
    <3>1. PICK k \in Nat : k = Len(passed) /\ DOMAIN passed = 1..k
      BY LenProperties
    <3>2. /\ Len(all) = k + 1 /\ all[k + 1] = more /\ all \in Seq(Seq(Nat))
          /\ \A m \in 1..k : all[m] = passed[m]
      BY <1>6, <2>3, <2>4, <3>1, AppendProperties
    <3>3. DOMAIN all = 1..(k + 1)
      BY <3>2, LenProperties
    <3> SUFFICES ASSUME NEW m \in 1..(k + 1) PROVE Whole(fw, all[m])
      BY <3>3
    <3>4. CASE m = k + 1
      BY <1>6, <1>12, <3>2, <3>4
    <3>5. CASE m # k + 1
      <4>1. m \in 1..k
        BY <3>5
      <4> QED
        BY <1>4, <3>1, <3>2, <4>1
    <3> QED
      BY <3>4, <3>5
  <2>6. Part(fw, <<>>)
    BY DEF Part, WebSocketAssumption
  <2> QED
    BY <1>1, <1>6, <1>9, <1>10, <2>1, <2>2, <2>4, <2>5, <2>6 DEF ReadAt
<1> QED
  BY <1>11, <1>12

\* A frame is read that is not put with the others.
LEMMA ReadIsNotPut ==
  ASSUME NEW fr, NEW pay, NEW inc, NEW ms, ReadAt(fr, pay, "reading", <<>>, inc, ms),
         NEW frame \in Frames, NEW rd, rd # "passing", frame.op \notin Data \/ rd = "ended",
         NEW fw, fw = Append(fr, frame)
  PROVE  ReadAt(fw, pay, rd, <<>>, inc, ms)
<1>1. fr \in Seq(Frames) /\ Part(fr, pay)
  BY DEF ReadAt
<1>2. Receive(fr, frame, fw)
  BY <1>1, ReceiveIs
<1>3. PICK passed : passed = PassedOf(ms, inc, <<>>)
  OBVIOUS
<1>4. \A m \in DOMAIN passed : Whole(fw, passed[m])
  <2>1. \A m \in DOMAIN passed : Whole(fr, passed[m])
    BY <1>3 DEF ReadAt
  <2> QED
    BY <1>2, <2>1, WholeStays
<1>5. PICK put : put = FlattenSeq(passed) \o pay
  OBVIOUS
<1>6. Sound(fr, put, "reading")
  BY <1>3, <1>5 DEF ReadAt
<1>7. Sound(fw, put, rd)
  BY <1>2, <1>6, SoundOther
<1>8. Part(fw, pay) /\ fw \in Seq(Frames)
  BY <1>1, <1>2, PartStays DEF Receive
<1> QED
  BY <1>3, <1>4, <1>5, <1>7, <1>8 DEF ReadAt

LEMMA NothingIsPassed ==
  ASSUME NEW fr, NEW pay, NEW rd, NEW pas, NEW inc, NEW ms, ReadAt(fr, pay, rd, pas, inc, ms),
         rd \notin {"passing", "ended"}
  PROVE  pas = <<>>
BY DEF ReadAt

LEMMA AppendNone ==
  \A x : Append(<<>>, x) = <<x>>
OBVIOUS

LEMMA ReadStep ==
  ASSUME WebSocketAssumption, ReadInv, [ConnNext]_connVars
  PROVE  ReadInv'
<1>0. ReadAt(frames, payload, reader, passing, incoming, messages)
  BY DEF ReadInv
<1>1. CASE UNCHANGED input
  BY <1>0, <1>1 DEF ReadInv, input
<1>2. ASSUME NEW frame \in Frames, ReadPart(frame) PROVE ReadInv'
  <2>1. /\ frame.op \in Data /\ ~frame.fin /\ InOrder(frame) /\ Fits /\ reader = "reading" /\ reader' = "reading"
        /\ frames' = Append(frames, frame) /\ payload' = Extended(frame)
        /\ UNCHANGED <<passing, incoming, messages>>
    BY <1>2 DEF ReadPart, Receives
  <2>2. passing = <<>>
    BY <1>0, <2>1, NothingIsPassed
  <2>3. Extended(frame) = Append(payload, Len(frames) + 1)
    BY <2>1, AppendNone DEF InOrder, Extended, fragmented, Id
  <2>4. ((frame.op = "text") <=> payload = <<>>) /\ Len(payload) < MaxSize
    BY <2>1 DEF InOrder, fragmented, Fits
  <2>5. ReadAt(frames, payload, "reading", <<>>, incoming, messages)
    BY <1>0, <2>1, <2>2
  <2>6. PICK fw, more : fw = Append(frames, frame) /\ more = Append(payload, Len(frames) + 1)
    OBVIOUS
  <2>7. ReadAt(fw, more, "reading", <<>>, incoming, messages)
    BY <2>1, <2>4, <2>5, <2>6, ReadIsPut
  <2> QED
    BY <2>1, <2>2, <2>3, <2>6, <2>7 DEF ReadInv
<1>3. ASSUME NEW frame \in Frames, ReadWhole(frame) PROVE ReadInv'
  <2>1. /\ frame.op \in Data /\ frame.fin /\ InOrder(frame) /\ Fits /\ reader = "reading" /\ reader' = "passing"
        /\ frames' = Append(frames, frame) /\ payload' = <<>> /\ passing' = Extended(frame)
        /\ UNCHANGED <<incoming, messages>>
    BY <1>3 DEF ReadWhole, Receives
  <2>2. passing = <<>>
    BY <1>0, <2>1, NothingIsPassed
  <2>3. Extended(frame) = Append(payload, Len(frames) + 1)
    BY <2>1, AppendNone DEF InOrder, Extended, fragmented, Id
  <2>4. ((frame.op = "text") <=> payload = <<>>) /\ Len(payload) < MaxSize
    BY <2>1 DEF InOrder, fragmented, Fits
  <2>5. ReadAt(frames, payload, "reading", <<>>, incoming, messages)
    BY <1>0, <2>1, <2>2
  <2>6. PICK fw, more : fw = Append(frames, frame) /\ more = Append(payload, Len(frames) + 1)
    OBVIOUS
  <2>7. ReadAt(fw, <<>>, "passing", more, incoming, messages)
    BY <2>1, <2>4, <2>5, <2>6, ReadIsPut
  <2> QED
    BY <2>1, <2>3, <2>6, <2>7 DEF ReadInv
<1>4. ASSUME NEW frame \in Frames, ReadControl(frame) \/ ReadWrong(frame) PROVE ReadInv'
  <2>1. /\ reader = "reading" /\ reader' # "passing" /\ (frame.op \notin Data \/ reader' = "ended")
        /\ frames' = Append(frames, frame) /\ UNCHANGED <<payload, passing, incoming, messages>>
    <3>1. CASE ReadControl(frame)
      <4>1. frame.op \in {"ping", "pong", "close"}
        BY <3>1 DEF ReadControl, Frames
      <4>2. reader' # "passing"
        BY <3>1, <4>1 DEF ReadControl
      <4> QED
        BY <3>1, <4>2 DEF ReadControl, Receives
    <3>2. CASE ReadWrong(frame)
      BY <3>2 DEF ReadWrong, Receives
    <3> QED
      BY <1>4, <3>1, <3>2
  <2>2. passing = <<>>
    BY <1>0, <2>1, NothingIsPassed
  <2>3. ReadAt(frames, payload, "reading", <<>>, incoming, messages)
    BY <1>0, <2>1, <2>2
  <2>4. PICK fw, rd : fw = Append(frames, frame) /\ rd = reader'
    OBVIOUS
  <2>5. ReadAt(fw, payload, rd, <<>>, incoming, messages)
    BY <2>1, <2>3, <2>4, ReadIsNotPut
  <2> QED
    BY <2>1, <2>2, <2>4, <2>5 DEF ReadInv
<1>5. CASE Pass
  <2>1. /\ reader = "passing" /\ reader' = "reading" /\ incoming' = Append(incoming, passing) /\ passing' = <<>>
        /\ UNCHANGED <<frames, payload, messages>>
    BY <1>5 DEF Pass
  <2>2. ReadAt(frames, payload, "passing", passing, incoming, messages)
    BY <1>0, <2>1
  <2>3. ReadAt(frames, payload, "reading", <<>>, Append(incoming, passing), messages)
    BY <2>2, ReadPasses
  <2> QED
    BY <2>1, <2>3 DEF ReadInv
<1>6. CASE TakeMessage
  <2>1. /\ incoming # <<>> /\ messages' = Append(messages, Head(incoming)) /\ incoming' = Tail(incoming)
        /\ UNCHANGED <<frames, payload, reader, passing>>
    BY <1>6 DEF TakeMessage
  <2>2. ReadAt(frames, payload, reader, passing, Tail(incoming), Append(messages, Head(incoming)))
    BY <1>0, <2>1, ReadIsTaken
  <2> QED
    BY <2>1, <2>2 DEF ReadInv
<1>7. ASSUME UNCHANGED <<frames, payload, passing, incoming, messages>>,
             \/ reader' = reader \/ reader' = "ended" \/ (reader = "answering" /\ reader' = "reading")
      PROVE  ReadInv'
  <2>1. PICK rd : rd = reader'
    OBVIOUS
  <2>2. passing # <<>> => rd \in {"passing", "ended"}
    BY <1>0, <1>7, <2>1 DEF ReadAt
  <2>3. (reader = "ended" => rd = "ended") /\ (rd = "passing" => reader = "passing")
    BY <1>7, <2>1
  <2>4. ReadAt(frames, payload, rd, passing, incoming, messages)
    BY <1>0, <2>2, <2>3, ReadGoesOn
  <2> QED
    BY <1>7, <2>1, <2>4 DEF ReadInv
<1>8. CASE ReadEnds
  BY <1>7, <1>8 DEF ReadEnds, ReadError, ReadTimeout
<1>9. ASSUME NEW w \in Writers, Lock(w) \/ WriteStep(w) PROVE ReadInv'
  <2>1. CASE Lock(w) \/ WriteHeader(w)
    BY <1>1, <2>1 DEF Lock, WriteHeader
  <2>2. CASE WritePayload(w)
    BY <1>7, <2>2 DEF WritePayload, Unlock
  <2>3. CASE WriteFails(w)
    BY <1>7, <2>3 DEF WriteFails, Unlock
  <2> QED
    BY <1>9, <2>1, <2>2, <2>3 DEF WriteStep
<1>10. CASE FallSilent \/ HandlerExit \/ UNCHANGED connVars
  BY <1>1, <1>10 DEF FallSilent, HandlerExit, connVars
<1> QED
  BY <1>2, <1>3, <1>4, <1>5, <1>6, <1>8, <1>9, <1>10 DEF ConnNext

\* The session is passed what the peer sent, in messages of the allowed size,
\* whatever control frames and ends of the connection come in between
\* (ReadMessage, readWSMessages).
THEOREM SessionGetsWhatIsSent == ConnSpec => []ReadIsSent
<1>1. ConnInit => ReadInv
  BY WebSocketAssumption, ReadStarts
<1>2. ReadInv /\ [ConnNext]_connVars => ReadInv'
  BY WebSocketAssumption, ReadStep
<1>3. ReadInv => ReadIsSent
  <2> SUFFICES ASSUME ReadInv PROVE ReadIsSent
    OBVIOUS
  <2>1. Passed = PassedOf(messages, incoming, passing)
    BY DEF Passed, PassedOf
  <2>2. PICK put : put = Gathered
    OBVIOUS
  <2>3. Sound(frames, put, reader)
    BY <2>1, <2>2 DEF ReadInv, ReadAt, Gathered
  <2>4. \A m \in DOMAIN Passed : Whole(frames, Passed[m])
    BY <2>1 DEF ReadInv, ReadAt
  <2>5. \A m, n \in DOMAIN put : m < n => put[m] < put[n]
    BY <2>3 DEF Sound
  <2>6. Range(put) \subseteq DataFrames
    BY <2>3 DEF Sound, Range, DataFrames, IsData
  <2>7. \A n \in DataFrames \ Range(put) : reader = "ended" /\ \A m \in Range(put) : m < n
    BY <2>3 DEF Sound, Range, DataFrames, IsData
  <2>8. \A m \in DOMAIN Passed : LET message == Passed[m] IN
          /\ Len(message) \in 1..MaxSize
          /\ \A n \in DOMAIN message :
               /\ (frames[message[n]].op = "text") <=> (n = 1)
               /\ frames[message[n]].fin <=> (n = Len(message))
    BY <2>4 DEF Whole
  <2> QED
    BY <2>2, <2>5, <2>6, <2>7, <2>8 DEF ReadIsSent
<1> QED
  BY <1>1, <1>2, <1>3, PTL DEF ConnSpec

-----------------------------------------------------------------------------
(* Streams of models.                                                      *)

Chunks == Deltas \cup Finals

LEMMA DeltaIsNotFinal == \A c \in Deltas : c \notin Finals /\ c.how \in {"reasoning", "text"}
<1>1. ASSUME NEW c \in Deltas PROVE c.how \in {"reasoning", "text"}
  <2>1. CASE c = Chunk("reasoning", "", <<>>)
    BY <2>1 DEF Chunk
  <2>2. CASE c = Chunk("text", "", <<>>)
    BY <2>2 DEF Chunk
  <2> QED
    BY <2>1, <2>2 DEF Deltas
<1>2. \A c \in Finals : c.how \in {"done", "error", "cancelled"}
  BY DEF Finals
<1> QED
  BY <1>1, <1>2

LEMMA FinalChunk ==
  ASSUME NEW how \in {"done", "error", "cancelled"},
         NEW stop \in Reasons \cup {"", "tool_use", "end_turn"},
         NEW calls \in CallLists \cup {WholeOf(c) : c \in CallLists}
  PROVE  Chunk(how, stop, calls) \in Finals
BY DEF Chunk, Finals

LEMMA ShortList ==
  ASSUME NEW calls \in Seq({"open", "whole"}), Len(calls) <= MaxCalls
  PROVE  calls \in CallLists
<1>1. Len(calls) \in 0..MaxCalls /\ calls \in [1..Len(calls) -> {"open", "whole"}]
  BY LenProperties, ModelStreamAssumption
<1> QED
  BY <1>1 DEF CallLists

LEMMA NoCalls == <<>> \in CallLists
<1>1. <<>> \in Seq({"open", "whole"}) /\ Len(<<>>) <= MaxCalls
  BY EmptySeq, ModelStreamAssumption
<1> QED
  BY <1>1, ShortList

\* What the decoder has, and what it is about to put.
Heard ==
  /\ kind \in AllKinds /\ reason \in Reasons \cup {""}
  /\ asked \in Seq({"open", "whole"}) /\ Len(asked) <= MaxCalls
  /\ ~HasTools => asked = <<>>
  /\ heard = [calls |-> asked, finish |-> IF kind = "claude" THEN "" ELSE reason]

LEMMA EndIsFinal == Heard => AtEnd \in Finals /\ AtEof \in Finals
<1> SUFFICES ASSUME Heard PROVE AtEnd \in Finals /\ AtEof \in Finals
  OBVIOUS
<1>1. Failed \in Finals /\ Chunk("done", "", <<>>) \in Finals /\ Chunk("done", "end_turn", <<>>) \in Finals
  BY FinalChunk, NoCalls DEF Failed
<1>2. /\ heard.calls \in CallLists /\ WholeOf(heard.calls) \in {WholeOf(c) : c \in CallLists}
      /\ heard.finish \in Reasons \cup {"", "tool_use", "end_turn"}
  <2>1. asked \in CallLists
    BY ShortList DEF Heard
  <2> QED
    BY <2>1 DEF Heard
<1>3. /\ Chunk("done", heard.finish, WholeOf(heard.calls)) \in Finals
      /\ Chunk("done", "tool_use", heard.calls) \in Finals
  BY <1>2, FinalChunk
<1>4. ToolsDone \in Finals
  BY <1>1, <1>3 DEF ToolsDone
<1> QED
  BY <1>1, <1>4 DEF AtEnd, AtEof, Done

\* Increments are put as they are said, then one final chunk.
StreamInv ==
  /\ Heard
  /\ taken \in Seq(Chunks) /\ channel \in Seq(Chunks) /\ said \in Seq(Deltas)
  /\ pc \in {"asking", "refused", "reading", "writing", "closing", "closed"}
  /\ pc \in {"asking", "refused", "reading"} => Put = said
  /\ pc = "writing" => /\ out \in Chunks /\ Put \in Seq(Deltas)
                       /\ said = IF out \in Deltas THEN Append(Put, out) ELSE Put
  /\ pc \in {"closing", "closed"} => out \in Finals /\ Put = Append(said, out)
  /\ ended => pc \notin {"asking", "refused", "reading"} /\ out = AtEnd

LEMMA PutWrites ==
  ASSUME taken \in Seq(Chunks), channel \in Seq(Chunks), out \in Chunks,
         channel' = Append(channel, out), taken' = taken
  PROVE  channel' \in Seq(Chunks) /\ Put' = Append(Put, out)
<1>1. <<out>> \in Seq(Chunks)
  OBVIOUS
<1>2. taken \o (channel \o <<out>>) = (taken \o channel) \o <<out>>
  BY <1>1, ConcatAssociative
<1>3. Append(channel, out) = channel \o <<out>> /\ taken \o channel \in Seq(Chunks)
  BY AppendIsConcat, ConcatProperties
<1>4. Append(taken \o channel, out) = (taken \o channel) \o <<out>>
  BY <1>3, AppendIsConcat
<1> QED
  BY <1>2, <1>3, <1>4, AppendProperties DEF Put

LEMMA PutTakes ==
  ASSUME taken \in Seq(Chunks), channel \in Seq(Chunks), channel # <<>>,
         taken' = Append(taken, Head(channel)), channel' = Tail(channel)
  PROVE  taken' \in Seq(Chunks) /\ channel' \in Seq(Chunks) /\ Put' = Put
<1>1. Head(channel) \in Chunks /\ Tail(channel) \in Seq(Chunks)
  BY HeadTailProperties
<1>2. PICK h \in Chunks, t \in Seq(Chunks) : h = Head(channel) /\ t = Tail(channel)
  BY <1>1
<1>3. <<h>> \in Seq(Chunks) /\ channel = <<h>> \o t
  <2>1. <<h>> \in Seq(Chunks)
    OBVIOUS
  <2> QED
    BY <1>2, <2>1
<1>4. (taken \o <<h>>) \o t = taken \o (<<h>> \o t)
  BY <1>3, ConcatAssociative
<1>5. Append(taken, h) = taken \o <<h>> /\ Append(taken, h) \in Seq(Chunks)
  BY AppendIsConcat, AppendProperties
<1> QED
  BY <1>2, <1>3, <1>4, <1>5 DEF Put

LEMMA StreamStarts == StreamInit => StreamInv
<1> SUFFICES ASSUME StreamInit PROVE StreamInv
  OBVIOUS
<1>1. /\ taken = <<>> /\ channel = <<>> /\ said = <<>> /\ asked = <<>> /\ reason = "" /\ ~ended
      /\ heard = [calls |-> <<>>, finish |-> ""] /\ pc = "asking" /\ kind \in AllKinds
  BY ModelStreamAssumption DEF StreamInit
<1>2. Put = said
  BY <1>1, EmptySeq, ConcatEmptySeq DEF Put
<1>3. Heard
  <2>1. <<>> \in Seq({"open", "whole"}) /\ Len(<<>>) <= MaxCalls
    BY EmptySeq, ModelStreamAssumption
  <2> QED
    BY <1>1, <2>1 DEF Heard
<1> QED
  BY <1>1, <1>2, <1>3, EmptySeq DEF StreamInv

LEMMA LineKeeps ==
  ASSUME StreamInv, Line
  PROVE  StreamInv'
<1>1. /\ pc = "reading" /\ ~ended /\ Put = said /\ Put' = Put /\ Put \in Seq(Deltas)
      /\ UNCHANGED <<kind, taken, channel>> /\ Heard /\ said \in Seq(Deltas)
      /\ taken \in Seq(Chunks) /\ channel \in Seq(Chunks)
  BY DEF Line, Says, OpensCall, ClosesCall, Ends, ReportsError, Concludes, Reads, StreamInv, Put
<1>2. Failed \in Finals /\ AtEnd \in Finals
  BY EndIsFinal, <1>1, FinalChunk, NoCalls DEF Failed
<1>3. ASSUME NEW delta \in Deltas, Says(delta) PROVE StreamInv'
  <2>1. /\ said' = Append(said, delta) /\ out' = delta /\ pc' = "writing"
        /\ UNCHANGED <<asked, reason, ended, heard>>
    BY <1>3 DEF Says
  <2>2. Heard' /\ said' \in Seq(Deltas)
    BY <1>1, <2>1, AppendProperties DEF Heard, HasTools
  <2> QED
    BY <1>1, <2>1, <2>2 DEF StreamInv, Chunks
<1>4. ASSUME asked' \in Seq({"open", "whole"}), Len(asked') <= MaxCalls, HasTools,
             heard' = [heard EXCEPT !.calls = asked'],
             UNCHANGED <<said, reason, ended, pc, out>>
      PROVE  StreamInv'
  <2>1. Heard'
    BY <1>1, <1>4 DEF Heard, HasTools
  <2> QED
    BY <1>1, <1>4, <2>1 DEF StreamInv
<1>5. ASSUME OpensCall PROVE StreamInv'
  <2>1. /\ asked' = Append(asked, "open") /\ Len(asked) < MaxCalls /\ HasTools
        /\ heard' = [heard EXCEPT !.calls = Append(heard.calls, "open")]
        /\ UNCHANGED <<said, reason, ended, pc, out>>
    BY <1>5 DEF OpensCall
  <2>2. asked' \in Seq({"open", "whole"}) /\ Len(asked') <= MaxCalls
    <3>1. asked \in Seq({"open", "whole"}) /\ Len(asked) \in Nat /\ MaxCalls \in Nat
      BY <1>1, LenProperties, ModelStreamAssumption DEF Heard
    <3>2. asked' \in Seq({"open", "whole"}) /\ Len(asked') = Len(asked) + 1
      BY <2>1, <3>1, AppendProperties
    <3> QED
      BY <2>1, <3>1, <3>2
  <2>3. heard.calls = asked
    BY <1>1 DEF Heard
  <2> QED
    BY <1>4, <2>1, <2>2, <2>3
<1>6. ASSUME ClosesCall PROVE StreamInv'
  <2>1. PICK n \in DOMAIN asked :
          /\ asked' = [asked EXCEPT ![n] = "whole"]
          /\ heard' = [heard EXCEPT !.calls = [heard.calls EXCEPT ![n] = "whole"]]
          /\ UNCHANGED <<said, reason, ended, pc, out>>
    BY <1>6 DEF ClosesCall
  <2>2. /\ asked' \in Seq({"open", "whole"}) /\ Len(asked') = Len(asked)
        /\ Len(asked) <= MaxCalls /\ asked # <<>>
    <3>1. asked \in Seq({"open", "whole"}) /\ Len(asked) <= MaxCalls
      BY <1>1 DEF Heard
    <3>2. asked # <<>> /\ n \in 1..Len(asked)
      BY <2>1, <3>1, EmptySeq, LenProperties
    <3> QED
      BY <2>1, <3>1, <3>2, ExceptSeq
  <2>3. heard.calls = asked /\ HasTools
    BY <1>1, <2>2 DEF Heard
  <2> QED
    BY <1>4, <2>1, <2>2, <2>3
<1>7. ASSUME NEW r \in Reasons, Concludes(r) PROVE StreamInv'
  <2>1. /\ reason' = r /\ heard' = [heard EXCEPT !.finish = IF kind = "claude" THEN heard.finish ELSE r]
        /\ UNCHANGED <<said, asked, ended, pc, out>>
    BY <1>7 DEF Concludes
  <2>2. Heard'
    BY <1>1, <2>1 DEF Heard, HasTools
  <2> QED
    BY <1>1, <2>1, <2>2 DEF StreamInv
<1>8. ASSUME Ends \/ ReportsError PROVE StreamInv'
  <2>1. /\ out' \in Finals /\ pc' = "writing" /\ UNCHANGED <<said, asked, reason, heard>>
        /\ (ended' => out' = AtEnd)
    <3>1. CASE Ends
      BY <1>2, <3>1 DEF Ends, Finish
    <3>2. CASE ReportsError
      BY <1>1, <1>2, <3>2 DEF ReportsError, Finish, provider
    <3> QED
      BY <1>8, <3>1, <3>2
  <2>2. Heard' /\ AtEnd' = AtEnd
    BY <1>1, <2>1 DEF Heard, HasTools, AtEnd, Done, ToolsDone
  <2>3. out' \notin Deltas /\ out' \in Chunks
    BY <2>1, DeltaIsNotFinal DEF Chunks
  <2> QED
    BY <1>1, <2>1, <2>2, <2>3 DEF StreamInv
<1> QED
  BY <1>3, <1>5, <1>6, <1>7, <1>8 DEF Line

LEMMA DecoderKeeps ==
  ASSUME StreamInv, Decoder
  PROVE  StreamInv'
<1>1. /\ UNCHANGED <<kind, said, asked, reason, ended, heard, taken>>
      /\ Heard' /\ Heard /\ AtEnd' = AtEnd
  BY DEF Decoder, Opens, NotAsked, Refuses, Eof, Breaks, ReadsCancelled, Write, Close, provider,
         StreamInv, Heard, HasTools, AtEnd, Done, ToolsDone
<1>2. ASSUME Opens \/ NotAsked \/ Refuses \/ Close PROVE StreamInv'
  <2>1. Put' = Put /\ channel' = channel /\ out' = out
    BY <1>1, <1>2 DEF Opens, NotAsked, Refuses, Close, Put
  <2>2. \/ pc = "asking" /\ pc' \in {"reading", "refused"}
        \/ pc = "closing" /\ pc' = "closed"
    BY <1>2 DEF Opens, NotAsked, Refuses, Close
  <2> QED
    BY <1>1, <2>1, <2>2 DEF StreamInv
<1>3. ASSUME Eof \/ Breaks \/ ReadsCancelled PROVE StreamInv'
  <2>1. pc = "reading" /\ pc' = "writing" /\ channel' = channel /\ ~ended /\ Put = said
    BY <1>3 DEF Eof, Breaks, ReadsCancelled, Reads, Finish, StreamInv
  <2>2. Put' = Put
    BY <1>1, <2>1 DEF Put
  <2>3. out' \in Finals
    BY <1>1, <1>3, EndIsFinal, FinalChunk, NoCalls DEF Eof, Breaks, ReadsCancelled, Finish, Failed
  <2>4. out' \notin Deltas /\ out' \in Chunks
    BY <2>3, DeltaIsNotFinal DEF Chunks
  <2> QED
    BY <1>1, <2>1, <2>2, <2>3, <2>4 DEF StreamInv
<1>4. ASSUME Write PROVE StreamInv'
  <2>1. /\ pc = "writing" /\ channel' = Append(channel, out) /\ out' = out
        /\ pc' = IF out \in Deltas THEN "reading" ELSE "closing"
    BY <1>4 DEF Write
  <2>2. channel' \in Seq(Chunks) /\ Put' = Append(Put, out)
    BY <1>1, <2>1, PutWrites DEF StreamInv
  <2>3. ended => out \in Finals
    BY <1>1, EndIsFinal DEF StreamInv
  <2>4. CASE out \in Deltas
    BY <1>1, <2>1, <2>2, <2>3, <2>4, DeltaIsNotFinal DEF StreamInv
  <2>5. CASE out \notin Deltas
    BY <1>1, <2>1, <2>2, <2>5 DEF StreamInv, Chunks
  <2> QED
    BY <2>4, <2>5
<1> QED
  BY <1>2, <1>3, <1>4 DEF Decoder

LEMMA StreamStep == StreamInv /\ [StreamNext]_streamVars => StreamInv'
<1> SUFFICES ASSUME StreamInv, [StreamNext]_streamVars PROVE StreamInv'
  OBVIOUS
<1>1. CASE Cancel \/ Leave \/ UNCHANGED streamVars
  <2>1. UNCHANGED <<kind, said, asked, reason, ended, heard, pc, out, channel, taken>>
    BY <1>1 DEF Cancel, Leave, streamVars, provider
  <2> QED
    BY <2>1 DEF StreamInv, Heard, HasTools, Put, AtEnd, Done, ToolsDone
<1>2. CASE Take
  <2>1. /\ UNCHANGED <<kind, said, asked, reason, ended, heard, pc, out>> /\ channel # <<>>
        /\ taken' = Append(taken, Head(channel)) /\ channel' = Tail(channel)
    BY <1>2 DEF Take, provider
  <2>2. taken' \in Seq(Chunks) /\ channel' \in Seq(Chunks) /\ Put' = Put
    BY <2>1, PutTakes DEF StreamInv
  <2>3. Heard' /\ AtEnd' = AtEnd
    BY <2>1 DEF StreamInv, Heard, HasTools, AtEnd, Done, ToolsDone
  <2> QED
    BY <2>1, <2>2, <2>3 DEF StreamInv
<1> QED
  BY <1>1, <1>2, LineKeeps, DecoderKeeps DEF StreamNext

LEMMA StreamInvariant == StreamSpec => []StreamInv
BY StreamStarts, StreamStep, PTL DEF StreamSpec

\* An answer that its provider has ended is taken whole and in order, with
\* every call that was sent, whatever the capacity of the channel is.
THEOREM WholeAnswers == StreamSpec => []EndedIsWhole
<1>1. ASSUME StreamInv, ended, IsDone
      PROVE  EndedIsWhole
  <2>1. pc \in {"closing", "closed"}
    <3> SUFFICES ASSUME pc = "writing" PROVE FALSE
      BY <1>1 DEF StreamInv
    <3>1. Put \in Seq(Deltas) /\ Put # <<>>
      BY <1>1 DEF StreamInv, IsDone
    <3>2. LastOf(Put) \in Deltas
      BY <3>1, EmptySeq, LenProperties, ElementOfSeq DEF LastOf
    <3> QED
      BY <1>1, <3>2, DeltaIsNotFinal DEF IsDone
  <2>2. Put = Append(said, out) /\ out = AtEnd /\ said \in Seq(Deltas) /\ out \in Chunks
    BY <1>1, <2>1 DEF StreamInv, Chunks
  <2>3. said \in Seq(Chunks)
    BY <2>2, SeqMonotonic DEF Chunks
  <2>4. Len(Put) = Len(said) + 1 /\ LastOf(Put) = out /\ Put \in Seq(Chunks) /\ Len(said) \in Nat
    BY <2>2, <2>3, AppendProperties, LenProperties DEF LastOf
  <2>5. SubSeq(Put, 1, Len(Put) - 1) = said
    BY <2>2, <2>3, <2>4
  <2>6. out = Done
    <3>1. out.how = "done" /\ Failed.how = "error"
      BY <1>1, <2>4 DEF IsDone, Failed, Chunk
    <3> QED
      BY <2>2, <3>1 DEF AtEnd
  <2>7. heard.calls = asked /\ heard.finish = IF kind = "claude" THEN "" ELSE reason
    BY <1>1 DEF StreamInv, Heard
  <2>8. ASSUME HasTools
        PROVE  /\ out.calls = IF kind = "claude tools" THEN WholeOf(asked) ELSE asked
               /\ reason = "tool_calls" => out.stop \in {"tool_use", "tool_calls"}
    <3>1. kind # "claude" /\ out = ToolsDone
      BY <2>6, <2>8 DEF Done, HasTools
    <3> QED
      BY <2>7, <3>1 DEF ToolsDone, Chunk
  <2> QED
    BY <2>4, <2>5, <2>8 DEF EndedIsWhole
<1>2. StreamInv => EndedIsWhole
  BY <1>1 DEF EndedIsWhole
<1> QED
  BY <1>2, StreamInvariant, PTL

LEMMA StepStreams == StreamInv /\ [StreamNext]_streamVars => [Stream!ChunkNext]_(Stream!chunkVars)
<1> SUFFICES ASSUME StreamInv, [StreamNext]_streamVars
             PROVE  Stream!ChunkNext \/ UNCHANGED Stream!chunkVars
  OBVIOUS
<1>1. CASE Write
  <2>1. /\ pc = "writing" /\ channel' = Append(channel, out) /\ taken' = taken
        /\ pc' # "closed" /\ out \in Chunks /\ Put \in Seq(Deltas)
    BY <1>1 DEF Write, StreamInv
  <2>2. Put' = Append(Put, out)
    BY <2>1, PutWrites DEF StreamInv
  <2>3. Put # <<>> => Put[Len(Put)] \notin Finals
    BY <2>1, EmptySeq, LenProperties, ElementOfSeq, DeltaIsNotFinal
  <2>4. Stream!Put(out)
    BY <2>1, <2>2, <2>3 DEF Stream!Put, Stream!HasFinal, Put
  <2> QED
    BY <2>1, <2>4 DEF Stream!ChunkNext, Chunks
<1>2. CASE Close
  <2>1. /\ pc = "closing" /\ pc' = "closed" /\ Put' = Put
        /\ Put = Append(said, out) /\ out \in Finals /\ said \in Seq(Deltas)
    BY <1>2 DEF Close, StreamInv, Put
  <2>2. said \in Seq(Chunks)
    BY <2>1, SeqMonotonic DEF Chunks
  <2>3. Put # <<>> /\ Put[Len(Put)] \in Finals
    BY <2>1, <2>2, AppendProperties, LenProperties, EmptySeq DEF Chunks
  <2> QED
    BY <2>1, <2>3 DEF Stream!CloseChannel, Stream!HasFinal, Stream!ChunkNext, Put
<1>3. CASE Take
  <2>1. Put' = Put
    BY <1>3, PutTakes DEF Take, StreamInv
  <2> QED
    BY <1>3, <2>1 DEF Take, Stream!chunkVars, Put
<1>4. CASE UNCHANGED <<channel, taken>> /\ ~Close
  <2>1. (pc = "closed")' <=> pc = "closed"
    BY <1>4 DEF StreamNext, Line, Decoder, Says, OpensCall, ClosesCall, Ends, ReportsError, Concludes,
           Reads, Finish, Opens, NotAsked, Refuses, Eof, Breaks, ReadsCancelled, Write, Take,
           Cancel, Leave, streamVars
  <2> QED
    BY <1>4, <2>1 DEF Stream!chunkVars
<1> QED
  BY <1>1, <1>2, <1>3, <1>4
     DEF StreamNext, Line, Decoder, Says, OpensCall, ClosesCall, Ends, ReportsError, Concludes,
         Opens, NotAsked, Refuses, Eof, Breaks, ReadsCancelled, Cancel, Leave, streamVars

\* Every decoder, whatever its provider and the connection do, gives its caller
\* increments, one final chunk and then the end of the channel.
THEOREM DecodersImplementStream == StreamSpec => KeepsChunkStream
<1>1. StreamInit => Stream!ChunkInit
  BY EmptySeq, ConcatEmptySeq DEF StreamInit, Stream!ChunkInit
<1> QED
  BY <1>1, StepStreams, StreamInvariant, PTL DEF StreamSpec, KeepsChunkStream, Stream!ChunkSpec
-----------------------------------------------------------------------------
(* The hub of the waiting calls.                                           *)

(* What PumpSend and the broadcasts leave in pump.                         *)
LEMMA BroadcastType ==
  ASSUME NEW ev \in Events, NEW targets \in SUBSET Waiters,
         NEW after \in {"read", "exit"}, Broadcast(ev, targets, after)
  PROVE  pump' \in PumpStates
<1>1. CASE targets = {}
  BY <1>1 DEF Broadcast, PumpStates, PumpReading, PumpExited
<1>2. CASE targets # {}
  <2>1. PICK w \in targets : pump' = PumpSending(ev, w, targets \ {w}, after)
    BY <1>2 DEF Broadcast
  <2> QED BY <2>1 DEF PumpStates
<1> QED BY <1>1, <1>2

LEMMA DispatchType ==
  ASSUME NEW m \in Messages, waiters \subseteq Waiters, Dispatch(m)
  PROVE  pump' \in PumpStates
<1>1. MsgEvent(m) \in Events
  BY DEF Events
<1> DEFINE matching == {w \in waiters : Matches(w, m)}
<1>2. CASE waiters # {} /\ Type[m] = "cancel"
  BY <1>1, <1>2, BroadcastType DEF Dispatch
<1>3. CASE ~(waiters # {} /\ Type[m] = "cancel") /\ matching # {}
  <2>1. PICK w \in matching : pump' = PumpSending(MsgEvent(m), w, {}, "read")
    BY <1>3 DEF Dispatch
  <2> QED BY <1>1, <2>1 DEF PumpStates
<1>4. CASE ~(waiters # {} /\ Type[m] = "cancel") /\ matching = {} /\ Addressable(m)
  BY <1>4 DEF Dispatch, PumpStates
<1>5. CASE /\ ~(waiters # {} /\ Type[m] = "cancel")
           /\ matching = {} /\ ~Addressable(m) /\ Cardinality(waiters) = 1
  <2>1. PICK w \in waiters : pump' = PumpSending(MsgEvent(m), w, {}, "read")
    BY <1>5 DEF Dispatch
  <2> QED BY <1>1, <2>1 DEF PumpStates
<1>6. CASE /\ ~(waiters # {} /\ Type[m] = "cancel")
           /\ matching = {} /\ ~Addressable(m) /\ Cardinality(waiters) # 1
  BY <1>6 DEF Dispatch, PumpStates
<1> QED BY <1>2, <1>3, <1>4, <1>5, <1>6

(* The fields of a pump state, from its step.                              *)
LEMMA PumpFields ==
  ASSUME pump \in PumpStates
  PROVE  /\ pump.at = "buffer" => pump.msg \in Messages
         /\ pump.at = "send" =>
              /\ pump.ev \in Events /\ pump.cur \in Waiters
              /\ pump.rest \in SUBSET Waiters /\ pump.after \in {"read", "exit"}
BY DEF PumpStates, PumpOff, PumpReading, PumpExited, PumpBuffering, PumpSending

LEMMA RemoveAtType ==
  ASSUME NEW S, NEW s \in Seq(S), NEW i \in 1..Len(s)
  PROVE  RemoveAt(s, i) \in Seq(S)
BY DEF RemoveAt

-----------------------------------------------------------------------------
(* Type correctness                                                        *)

LEMMA TypeInit == Init => TypeOK
<1> SUFFICES ASSUME Init PROVE TypeOK
  OBVIOUS
<1>1. inbox \in Seq(Messages) /\ pending \in Seq(Messages)
  BY EmptySeq DEF Init
<1>2. ch \in [Waiters -> {<<>>} \cup {<<e>> : e \in Events}]
  BY DEF Init
<1>3. result \in [Waiters -> Events]
  BY DEF Init, Events
<1>4. pump \in PumpStates
  BY DEF Init, PumpStates
<1> QED BY <1>1, <1>2, <1>3, <1>4 DEF Init, TypeOK

LEMMA TypeEnvironment ==
  ASSUME TypeOK, (\E m \in Messages : ClientSend(m)) \/ CloseChannel
  PROVE  TypeOK'
<1>1. ASSUME NEW m \in Messages, ClientSend(m) PROVE TypeOK'
  BY <1>1 DEF TypeOK, ClientSend, hubVars
<1>2. CASE CloseChannel
  BY <1>2 DEF TypeOK, CloseChannel, hubVars
<1> QED BY <1>1, <1>2

LEMMA TypeGoroutine ==
  ASSUME TypeOK, NEW w \in Waiters, Goroutine(w)
  PROVE  TypeOK'
<1>1. CASE Announce(w)
  BY <1>1 DEF TypeOK, Announce, envVars, hubVars
<1>2. CASE WaitDead(w)
  BY <1>2 DEF TypeOK, WaitDead, envVars, hubVars, Events
<1>3. CASE WaitClaim(w)
  <2>1. PICK i \in 1..Len(pending) :
          /\ pending' = RemoveAt(pending, i)
          /\ result' = [result EXCEPT ![w] = MsgEvent(pending[i])]
    BY <1>3 DEF WaitClaim
  <2>2. pending[i] \in Messages
    BY <2>1, ElementOfSeq DEF TypeOK
  <2>3. pending' \in Seq(Messages)
    BY <2>1, RemoveAtType DEF TypeOK
  <2>4. MsgEvent(pending[i]) \in Events
    BY <2>2 DEF Events
  <2>5. result' \in [Waiters -> Events]
    BY <2>1, <2>4 DEF TypeOK
  <2> QED BY <1>3, <2>3, <2>5 DEF TypeOK, WaitClaim, envVars
<1>4. CASE WaitRegister(w)
  BY <1>4 DEF TypeOK, WaitRegister, envVars, PumpStates
<1>5. CASE WaitReceive(w)
  <2>1. PICK e \in Events : ch[w] = <<e>>
    BY <1>5 DEF TypeOK, WaitReceive
  <2> QED BY <1>5, <2>1 DEF TypeOK, WaitReceive, envVars, hubVars
<1> QED BY <1>1, <1>2, <1>3, <1>4, <1>5 DEF Goroutine

LEMMA TypePump ==
  ASSUME TypeOK, Pump
  PROVE  TypeOK'
<1>0. DeadEvent \in Events
  BY DEF Events
<1>1. CASE PumpReadError
  <2>1. pump' \in PumpStates
    BY <1>0, <1>1, BroadcastType DEF PumpReadError, TypeOK
  <2> QED BY <1>1, <2>1 DEF TypeOK, PumpReadError, envVars
<1>2. CASE PumpRead
  <2>1. Head(inbox) \in Messages /\ Tail(inbox) \in Seq(Messages)
    BY <1>2, HeadTailProperties DEF PumpRead, TypeOK
  <2>2. pump' \in PumpStates
    BY <1>2, <2>1, DispatchType DEF PumpRead, TypeOK
  <2> QED BY <1>2, <2>1, <2>2 DEF TypeOK, PumpRead, hubVars
<1>3. CASE PumpSend
  <2>1. /\ pump.ev \in Events /\ pump.cur \in Waiters
        /\ pump.rest \in SUBSET Waiters /\ pump.after \in {"read", "exit"}
    BY <1>3, PumpFields DEF PumpSend, TypeOK
  <2>2. pump' \in PumpStates
    BY <1>3, <2>1, BroadcastType DEF PumpSend
  <2>3. ch' \in [Waiters -> {<<>>} \cup {<<e>> : e \in Events}]
    BY <1>3, <2>1 DEF TypeOK, PumpSend
  <2> QED BY <1>3, <2>2, <2>3 DEF TypeOK, PumpSend, envVars, hubVars
<1>4. CASE PumpBuffer
  <2>1. pump.msg \in Messages
    BY <1>4, PumpFields DEF PumpBuffer, TypeOK
  <2>2. ASSUME Len(pending) >= PendingCap PROVE Tail(pending) \in Seq(Messages)
    <3>1. pending # <<>>
      BY <2>2, HubAssumption DEF TypeOK
    <3> QED BY <3>1, HeadTailProperties DEF TypeOK
  <2>3. pending' \in Seq(Messages)
    BY <1>4, <2>1, <2>2, AppendProperties DEF PumpBuffer, TypeOK
  <2> QED BY <1>4, <2>3 DEF TypeOK, PumpBuffer, envVars, PumpStates
<1> QED BY <1>1, <1>2, <1>3, <1>4 DEF Pump

LEMMA TypeNext == TypeOK /\ [Next]_vars => TypeOK'
<1> SUFFICES ASSUME TypeOK, [Next]_vars PROVE TypeOK'
  OBVIOUS
<1>1. CASE UNCHANGED vars
  BY <1>1 DEF TypeOK, vars
<1>2. CASE Finished
  BY <1>2 DEF TypeOK, Finished, vars
<1> QED
  BY <1>1, <1>2, TypeEnvironment, TypeGoroutine, TypePump DEF Next

(* The state of the hub keeps its types: a waiter's channel never holds    *)
(* more than one event, whatever the pump and the waiters interleave.      *)
THEOREM TypeCorrect == Spec => []TypeOK
BY TypeInit, TypeNext, PTL DEF Spec
-----------------------------------------------------------------------------
(* A dead hub forgets no waiter                                            *)

(* DeadHubForgetsNoWaiter is inductive once it is known that a blocked     *)
(* waiter is registered, and that a dead hub's pump is either broadcasting *)
(* the error or gone - so that no step of a dead hub dispatches a message. *)
DeadInv ==
  /\ \A w \in Waiters : phase[w] = "blocked" => w \in waiters
  /\ deadErr => pump = PumpExited \/ (pump.at = "send" /\ pump.ev = DeadEvent)
  /\ pump.at = "send" /\ pump.ev = DeadEvent => pump.after = "exit"
  /\ DeadHubForgetsNoWaiter

(* After a broadcast step the pump holds all the targets, or has gone on.  *)
LEMMA BroadcastTargets ==
  ASSUME NEW ev, NEW targets, NEW after, Broadcast(ev, targets, after)
  PROVE  \/ targets = {} /\ pump' = [at |-> after]
         \/ /\ targets # {} /\ pump'.at = "send" /\ pump'.ev = ev
            /\ pump'.after = after /\ pump'.cur \in targets
            /\ pump'.rest = targets \ {pump'.cur}
<1>1. CASE targets = {}
  BY <1>1 DEF Broadcast
<1>2. CASE targets # {}
  <2>1. PICK w \in targets : pump' = PumpSending(ev, w, targets \ {w}, after)
    BY <1>2 DEF Broadcast
  <2> QED BY <1>2, <2>1 DEF PumpSending
<1> QED BY <1>1, <1>2

(* Dispatching a message m leads to sending m, buffering m or dropping it. *)
LEMMA DispatchCases ==
  ASSUME NEW m \in Messages, waiters \subseteq Waiters, Dispatch(m)
  PROVE  \/ pump' = PumpReading /\ ~(Addressable(m) /\ Type[m] # "cancel")
         \/ pump' = PumpBuffering(m) /\ Addressable(m) /\ Type[m] # "cancel"
         \/ /\ pump'.at = "send" /\ pump'.ev = MsgEvent(m) /\ pump'.after = "read"
            /\ pump'.cur \in waiters /\ pump'.rest \subseteq waiters
            /\ pump'.cur \notin pump'.rest
            /\ Type[m] # "cancel" => pump'.rest = {}
            /\ Addressable(m) => Matches(pump'.cur, m)
<1> DEFINE matching == {w \in waiters : Matches(w, m)}
<1>0. Addressable(m) => Type[m] # "cancel"
  BY DEF Addressable, AddressableTypes
<1>1. CASE waiters # {} /\ Type[m] = "cancel"
  <2>1. Broadcast(MsgEvent(m), waiters, "read")
    BY <1>1 DEF Dispatch
  <2> QED BY <1>0, <1>1, <2>1, BroadcastTargets
<1>2. CASE ~(waiters # {} /\ Type[m] = "cancel") /\ matching # {}
  <2>1. PICK w \in matching : pump' = PumpSending(MsgEvent(m), w, {}, "read")
    BY <1>2 DEF Dispatch
  <2> QED BY <2>1 DEF PumpSending
<1>3. CASE ~(waiters # {} /\ Type[m] = "cancel") /\ matching = {}
  <2>1. CASE Addressable(m)
    BY <1>0, <1>3, <2>1 DEF Dispatch
  <2>2. CASE ~Addressable(m) /\ Cardinality(waiters) = 1
    <3>1. PICK w \in waiters : pump' = PumpSending(MsgEvent(m), w, {}, "read")
      BY <1>3, <2>2 DEF Dispatch
    <3> QED BY <2>2, <3>1 DEF PumpSending
  <2>3. CASE ~Addressable(m) /\ Cardinality(waiters) # 1
    BY <1>3, <2>3 DEF Dispatch
  <2> QED BY <2>1, <2>2, <2>3
<1> QED BY <1>1, <1>2, <1>3

LEMMA DeadGoroutine ==
  ASSUME TypeOK, DeadInv, NEW w \in Waiters, Goroutine(w)
  PROVE  DeadInv'
<1> USE DEF DeadInv, DeadHubForgetsNoWaiter, TypeOK
<1>1. CASE Announce(w)
  BY <1>1 DEF Announce, hubVars
<1>2. CASE WaitDead(w)
  BY <1>2 DEF WaitDead, hubVars
<1>3. CASE WaitClaim(w)
  BY <1>3 DEF WaitClaim
<1>4. CASE WaitRegister(w)
  BY <1>4 DEF WaitRegister, PumpReading
<1>5. CASE WaitReceive(w)
  BY <1>5 DEF WaitReceive, hubVars
<1> QED BY <1>1, <1>2, <1>3, <1>4, <1>5 DEF Goroutine

LEMMA DeadPump ==
  ASSUME TypeOK, DeadInv, Pump
  PROVE  DeadInv'
<1> USE DEF DeadInv, DeadHubForgetsNoWaiter
<1>0. \A m \in Messages : MsgEvent(m) # DeadEvent
  BY DEF MsgEvent, DeadEvent
<1>1. CASE PumpReadError
  <2>1. \/ waiters = {} /\ pump' = PumpExited
        \/ /\ pump'.at = "send" /\ pump'.ev = DeadEvent /\ pump'.after = "exit"
           /\ waiters = {pump'.cur} \cup pump'.rest
    BY <1>1, BroadcastTargets DEF PumpReadError, PumpExited
  <2> QED BY <1>1, <2>1 DEF PumpReadError, PumpExited
<1>2. CASE PumpRead
  <2>1. ~deadErr
    BY <1>2 DEF PumpRead, PumpReading, PumpExited
  <2>2. Head(inbox) \in Messages
    BY <1>2, HeadTailProperties DEF PumpRead, TypeOK
  <2>3. pump'.at = "send" => pump'.ev # DeadEvent
    BY <1>0, <1>2, <2>2, DispatchCases
      DEF PumpRead, TypeOK, PumpReading, PumpBuffering
  <2> QED BY <1>2, <2>1, <2>3 DEF PumpRead, hubVars
<1>3. CASE PumpSend
  <2>1. /\ pump.ev \in Events /\ pump.cur \in Waiters
        /\ pump.rest \in SUBSET Waiters /\ pump.after \in {"read", "exit"}
    BY <1>3, PumpFields DEF PumpSend, TypeOK
  <2>2. \/ pump.rest = {} /\ pump' = [at |-> pump.after]
        \/ /\ pump'.at = "send" /\ pump'.ev = pump.ev /\ pump'.after = pump.after
           /\ pump.rest = {pump'.cur} \cup pump'.rest
    BY <1>3, BroadcastTargets DEF PumpSend
  <2>3. /\ ch'[pump.cur] # <<>>
        /\ \A w \in Waiters : ch[w] # <<>> => ch'[w] # <<>>
    BY <1>3, <2>1 DEF PumpSend, TypeOK
  <2> QED BY <1>3, <2>1, <2>2, <2>3 DEF PumpSend, hubVars, envVars, PumpExited
<1>4. CASE PumpBuffer
  BY <1>4 DEF PumpBuffer, PumpReading, PumpExited
<1> QED BY <1>1, <1>2, <1>3, <1>4 DEF Pump

LEMMA DeadNext == TypeOK /\ DeadInv /\ [Next]_vars => DeadInv'
<1> SUFFICES ASSUME TypeOK, DeadInv, [Next]_vars PROVE DeadInv'
  OBVIOUS
<1>1. ASSUME NEW m \in Messages, ClientSend(m) PROVE DeadInv'
  BY <1>1 DEF ClientSend, hubVars, DeadInv, DeadHubForgetsNoWaiter
<1>2. CASE CloseChannel
  BY <1>2 DEF CloseChannel, hubVars, DeadInv, DeadHubForgetsNoWaiter
<1>3. CASE Finished \/ UNCHANGED vars
  BY <1>3 DEF Finished, vars, DeadInv, DeadHubForgetsNoWaiter
<1> QED BY <1>1, <1>2, <1>3, DeadGoroutine, DeadPump DEF Next

(* When the read channel is gone, every wait call under way has been or is *)
(* being told, however its registration interleaved with the disconnection.*)
THEOREM DeadHubWakesWaiters == Spec => []DeadHubForgetsNoWaiter
<1>1. Init => DeadInv
  BY DEF Init, DeadInv, DeadHubForgetsNoWaiter, PumpOff
<1>2. DeadInv => DeadHubForgetsNoWaiter
  BY DEF DeadInv
<1> QED BY <1>1, <1>2, DeadNext, TypeCorrect, PTL DEF Spec
-----------------------------------------------------------------------------
(* Answers are routed to their waiter, and held in one place at most       *)

(* Whatever is on its way was sent by the client.                          *)
Sourced ==
  /\ \A i \in 1..Len(inbox) : inbox[i] \in sent
  /\ \A i \in 1..Len(pending) : pending[i] \in sent /\ Addressable(pending[i])
  /\ \A m \in Messages :
       /\ InPump(m) => m \in sent
       /\ \A w \in Waiters : InChannel(m, w) \/ Resolved(m, w) => m \in sent

(* What the pump is about to do with the message in its hands: an answer   *)
(* goes to one waiter, a matching one when it is addressed.                *)
PumpRoutes ==
  /\ pump.at = "buffer" => Addressable(pump.msg)
  /\ \A m \in Messages :
       pump.at = "send" /\ pump.ev = MsgEvent(m) =>
         /\ pump.after = "read"
         /\ Type[m] # "cancel" => pump.rest = {}
         /\ Addressable(m) => Matches(pump.cur, m)

DeliveryInv == Sourced /\ PumpRoutes /\ AnswersAreRouted /\ HeldOnce

LEMMA AddressableNotCancel ==
  ASSUME NEW m, Addressable(m)
  PROVE  Type[m] # "cancel"
BY DEF Addressable, AddressableTypes

LEMMA MsgEventInjective ==
  /\ \A m, n : MsgEvent(m) = MsgEvent(n) => m = n
  /\ \A m : MsgEvent(m) # DeadEvent
BY DEF MsgEvent, DeadEvent

LEMMA RemoveAtElements ==
  ASSUME NEW S, NEW s \in Seq(S), NEW i \in 1..Len(s)
  PROVE  /\ Len(RemoveAt(s, i)) = Len(s) - 1
         /\ \A j \in 1..Len(RemoveAt(s, i)) :
              RemoveAt(s, i)[j] = IF j < i THEN s[j] ELSE s[j + 1]
<1> DEFINE front == SubSeq(s, 1, i - 1)
           back == SubSeq(s, i + 1, Len(s))
<1>1. Len(s) \in Nat /\ \A j \in 1..Len(s) : s[j] \in S
  BY ElementOfSeq, LenProperties
<1>2. /\ front \in Seq(S) /\ Len(front) = i - 1
      /\ \A j \in 1..(i - 1) : front[j] = s[j]
  BY <1>1, SubSeqProperties
<1>3. /\ back \in Seq(S) /\ Len(back) = Len(s) - i
      /\ \A j \in 1..(Len(s) - i) : back[j] = s[i + j]
  BY <1>1, SubSeqProperties
<1>4. RemoveAt(s, i) = front \o back
  BY DEF RemoveAt
<1>5. /\ Len(front \o back) = Len(front) + Len(back)
      /\ \A j \in 1..(Len(front) + Len(back)) :
           (front \o back)[j] = IF j <= Len(front) THEN front[j] ELSE back[j - Len(front)]
  BY <1>2, <1>3, ConcatProperties
<1>6. i \in Nat /\ 1 <= i /\ i <= Len(s)
  BY <1>1
<1> HIDE DEF front, back
<1>7. Len(RemoveAt(s, i)) = Len(s) - 1
  BY <1>1, <1>2, <1>3, <1>4, <1>5, <1>6
<1>8. ASSUME NEW j \in 1..Len(RemoveAt(s, i))
      PROVE  RemoveAt(s, i)[j] = IF j < i THEN s[j] ELSE s[j + 1]
  <2>1. j \in Nat /\ 1 <= j /\ j <= Len(s) - 1
    BY <1>1, <1>7
  <2>2. (front \o back)[j] = IF j <= Len(front) THEN front[j] ELSE back[j - Len(front)]
    BY <2>1, <1>1, <1>2, <1>3, <1>5, <1>6
  <2>3. CASE j < i
    BY <2>1, <2>2, <2>3, <1>2, <1>4, <1>6
  <2>4. CASE ~(j < i)
    <3>1. j - (i - 1) \in 1..(Len(s) - i) /\ i + (j - (i - 1)) = j + 1
      BY <2>1, <2>4, <1>1, <1>6
    <3>2. back[j - (i - 1)] = s[j + 1]
      BY <3>1, <1>3
    <3>3. ~(j <= Len(front)) /\ j - Len(front) = j - (i - 1)
      BY <2>1, <2>4, <1>2, <1>6
    <3> QED BY <2>2, <2>4, <3>2, <3>3, <1>4
  <2> QED BY <2>3, <2>4
<1> QED BY <1>7, <1>8

LEMMA DeliverySend ==
  ASSUME TypeOK, DeliveryInv, NEW m \in Messages, ClientSend(m)
  PROVE  DeliveryInv'
<1>1. \/ inbox' = inbox
      \/ /\ Len(inbox') = Len(inbox) + 1 /\ inbox'[Len(inbox) + 1] = m
         /\ \A i \in 1..Len(inbox) : inbox'[i] = inbox[i]
  BY AppendProperties DEF ClientSend, TypeOK
<1>2. sent' = sent \cup {m} /\ m \notin sent
  BY DEF ClientSend
<1>3. Len(inbox) \in Nat
  BY LenProperties DEF TypeOK
<1>4. UNCHANGED <<phase, ch, result, waiters, pending, deadErr, pump>>
  BY DEF ClientSend, hubVars
<1>5. Sourced'
  BY <1>1, <1>2, <1>3, <1>4
    DEF DeliveryInv, Sourced, InPump, InChannel, Resolved
<1>6. PumpRoutes' /\ AnswersAreRouted'
  BY <1>4 DEF DeliveryInv, PumpRoutes, AnswersAreRouted, InChannel, Resolved
<1>7. ~InPending(m) /\ ~InPump(m) /\ \A w \in Waiters : ~InChannel(m, w) /\ ~Resolved(m, w)
  BY <1>2 DEF DeliveryInv, Sourced, InPending
<1>8. \A i \in 1..Len(inbox') :
        inbox'[i] = m \/ \E j \in 1..Len(inbox) : inbox'[i] = inbox[j]
  BY <1>1, <1>3
<1>9. \A i, j \in 1..Len(inbox') : inbox'[i] = inbox'[j] => i = j
  BY <1>1, <1>2, <1>3 DEF DeliveryInv, Sourced, HeldOnce
<1>10. ASSUME NEW n \in Messages, InInbox(n)'
       PROVE  ~InPending(n) /\ ~InPump(n) /\ \A w \in Waiters : ~InChannel(n, w) /\ ~Resolved(n, w)
  BY <1>7, <1>8, <1>10 DEF DeliveryInv, HeldOnce, InInbox
<1>11. HeldOnce'
  BY <1>4, <1>9, <1>10 DEF DeliveryInv, HeldOnce, InPending, InPump, InChannel, Resolved
<1> QED BY <1>5, <1>6, <1>11 DEF DeliveryInv

LEMMA DeliveryGoroutine ==
  ASSUME TypeOK, DeliveryInv, NEW w \in Waiters, Goroutine(w)
  PROVE  DeliveryInv'
<1>1. CASE Announce(w)
  <2>1. \A m \in Messages : \A v \in Waiters : Resolved(m, v)' => Resolved(m, v)
    BY <1>1 DEF Announce, Resolved, TypeOK
  <2>2. UNCHANGED <<inbox, sent, ch, pending, pump>>
    BY <1>1 DEF Announce, envVars, hubVars
  <2> QED BY <2>1, <2>2 DEF DeliveryInv, Sourced, PumpRoutes,
       AnswersAreRouted, HeldOnce, InInbox, InPending, InPump, InChannel
<1>2. CASE WaitDead(w)
  <2>1. \A m \in Messages : \A v \in Waiters : Resolved(m, v)' => Resolved(m, v)
    BY <1>2, MsgEventInjective DEF WaitDead, Resolved, TypeOK
  <2>2. UNCHANGED <<inbox, sent, ch, pending, pump>>
    BY <1>2 DEF WaitDead, envVars, hubVars
  <2> QED BY <2>1, <2>2 DEF DeliveryInv, Sourced, PumpRoutes,
       AnswersAreRouted, HeldOnce, InInbox, InPending, InPump, InChannel
<1>3. CASE WaitClaim(w)
  <2>1. PICK i \in 1..Len(pending) :
          /\ Matches(w, pending[i])
          /\ pending' = RemoveAt(pending, i)
          /\ result' = [result EXCEPT ![w] = MsgEvent(pending[i])]
    BY <1>3 DEF WaitClaim
  <2> DEFINE c == pending[i]
  <2>2. c \in Messages /\ InPending(c) /\ Len(pending) \in Nat
    BY <2>1, ElementOfSeq, LenProperties DEF TypeOK, InPending
  <2>3. /\ Len(pending') = Len(pending) - 1
        /\ \A j \in 1..Len(pending') :
             pending'[j] = IF j < i THEN pending[j] ELSE pending[j + 1]
    BY <2>1, RemoveAtElements DEF TypeOK
  <2>4. \A j, k \in 1..Len(pending') : pending'[j] = pending'[k] => j = k
    BY <2>1, <2>2, <2>3 DEF DeliveryInv, HeldOnce
  <2>5. \A j \in 1..Len(pending') :
          pending'[j] # c /\ \E k \in 1..Len(pending) : pending'[j] = pending[k]
    BY <2>1, <2>2, <2>3 DEF DeliveryInv, HeldOnce
  <2>6. \A m \in Messages : InPending(m)' => InPending(m) /\ m # c
    BY <2>5 DEF InPending
  <2>7. UNCHANGED <<inbox, sent, ch, pump>>
    BY <1>3 DEF WaitClaim, envVars
  <2>8. \A m \in Messages : \A v \in Waiters :
          Resolved(m, v)' => Resolved(m, v) \/ (m = c /\ v = w)
    BY <1>3, <2>1, MsgEventInjective DEF WaitClaim, Resolved, TypeOK
  <2>9. \A m \in Messages : /\ InInbox(m)' <=> InInbox(m)
                            /\ InPump(m)' <=> InPump(m)
                            /\ \A v \in Waiters : InChannel(m, v)' <=> InChannel(m, v)
    BY <2>7 DEF InInbox, InPump, InChannel
  <2>10. c \in sent /\ Type[c] # "cancel" /\ Matches(w, c)
    BY <2>1, AddressableNotCancel DEF DeliveryInv, Sourced
  <2>11. Sourced'
    BY <2>5, <2>7, <2>8, <2>9, <2>10 DEF DeliveryInv, Sourced
  <2>12. PumpRoutes' /\ AnswersAreRouted'
    BY <2>7, <2>8, <2>9, <2>10 DEF DeliveryInv, PumpRoutes, AnswersAreRouted
  <2>13. HeldOnce'
    BY <2>2, <2>4, <2>6, <2>7, <2>8, <2>9 DEF DeliveryInv, HeldOnce
  <2> QED BY <2>11, <2>12, <2>13 DEF DeliveryInv
<1>4. CASE WaitRegister(w)
  <2>1. UNCHANGED <<inbox, sent, ch, pending, result>>
    BY <1>4 DEF WaitRegister, envVars
  <2>2. \A m \in Messages : \A v \in Waiters : Resolved(m, v)' <=> Resolved(m, v)
    BY <1>4 DEF WaitRegister, Resolved, TypeOK
  <2>3. pump' = pump \/ (pump = PumpOff /\ pump' = PumpReading)
    BY <1>4 DEF WaitRegister
  <2> QED BY <2>1, <2>2, <2>3 DEF DeliveryInv, Sourced, PumpRoutes, PumpOff, PumpReading,
       AnswersAreRouted, HeldOnce, InInbox, InPending, InPump, InChannel
<1>5. CASE WaitReceive(w)
  <2>1. UNCHANGED <<inbox, sent, pending, pump>>
    BY <1>5 DEF WaitReceive, envVars, hubVars
  <2>2. PICK e \in Events : ch[w] = <<e>>
    BY <1>5 DEF WaitReceive, TypeOK
  <2>3. result' = [result EXCEPT ![w] = e]
    BY <1>5, <2>2 DEF WaitReceive
  <2>4. \A m \in Messages : \A v \in Waiters :
          /\ InChannel(m, v)' => InChannel(m, v) /\ v # w
          /\ Resolved(m, v)' => (Resolved(m, v) /\ v # w) \/ (v = w /\ InChannel(m, w))
    BY <1>5, <2>2, <2>3 DEF WaitReceive, TypeOK, InChannel, Resolved
  <2>5. \A m \in Messages : /\ InInbox(m)' <=> InInbox(m)
                            /\ InPump(m)' <=> InPump(m)
                            /\ InPending(m)' <=> InPending(m)
    BY <2>1 DEF InInbox, InPump, InPending
  <2>6. Sourced' /\ PumpRoutes' /\ AnswersAreRouted'
    BY <2>1, <2>4, <2>5 DEF DeliveryInv, Sourced, PumpRoutes, AnswersAreRouted
  <2>7. HeldOnce'
    BY <2>1, <2>4, <2>5 DEF DeliveryInv, HeldOnce
  <2> QED BY <2>6, <2>7 DEF DeliveryInv
<1> QED BY <1>1, <1>2, <1>3, <1>4, <1>5 DEF Goroutine
LEMMA DeliveryReadError ==
  ASSUME TypeOK, DeliveryInv, PumpReadError
  PROVE  DeliveryInv'
<1>1. /\ UNCHANGED <<inbox, sent, phase, ch, result>>
      /\ pending' = <<>> /\ Len(pending') = 0
  BY EmptySeq DEF PumpReadError, envVars
<1>2. /\ pump'.at = "buffer" => FALSE
      /\ pump'.at = "send" => pump'.ev = DeadEvent
  BY BroadcastTargets DEF PumpReadError
<1>3. \A m \in Messages : ~InPump(m)'
  BY <1>2, MsgEventInjective DEF InPump
<1>4. Sourced' /\ PumpRoutes' /\ AnswersAreRouted'
  BY <1>1, <1>2, <1>3, MsgEventInjective
    DEF DeliveryInv, Sourced, PumpRoutes, AnswersAreRouted, InChannel, Resolved
<1>5. HeldOnce'
  BY <1>1, <1>3 DEF DeliveryInv, HeldOnce, InInbox, InPending, InChannel, Resolved
<1> QED BY <1>4, <1>5 DEF DeliveryInv

LEMMA DeliveryRead ==
  ASSUME TypeOK, DeliveryInv, PumpRead
  PROVE  DeliveryInv'
<1> DEFINE m == Head(inbox)
<1>1. /\ m \in Messages /\ m = inbox[1] /\ Len(inbox) \in Nat \ {0}
      /\ Len(inbox') = Len(inbox) - 1
      /\ \A i \in 1..Len(inbox') : inbox'[i] = inbox[i + 1]
  BY HeadTailProperties, LenProperties, EmptySeq DEF PumpRead, TypeOK
<1>2. UNCHANGED <<sent, phase, ch, result, pending>>
  BY DEF PumpRead, hubVars
<1>3. \/ pump' = PumpReading
      \/ pump' = PumpBuffering(m) /\ Addressable(m) /\ Type[m] # "cancel"
      \/ /\ pump'.at = "send" /\ pump'.ev = MsgEvent(m) /\ pump'.after = "read"
         /\ Type[m] # "cancel" => pump'.rest = {}
         /\ Addressable(m) => Matches(pump'.cur, m)
  BY <1>1, DispatchCases DEF PumpRead, TypeOK
<1>4. \A n \in Messages : InPump(n)' => n = m
  BY <1>3, MsgEventInjective DEF InPump, PumpReading, PumpBuffering
<1>5. /\ \A i, j \in 1..Len(inbox') : inbox'[i] = inbox'[j] => i = j
      /\ \A i \in 1..Len(inbox') : inbox'[i] # m
      /\ \A i \in 1..Len(inbox') : \E j \in 1..Len(inbox) : inbox'[i] = inbox[j]
  BY <1>1 DEF DeliveryInv, HeldOnce
<1>6. InInbox(m) /\ m \in sent
  BY <1>1 DEF InInbox, DeliveryInv, Sourced
<1>7. Sourced'
  BY <1>2, <1>4, <1>5, <1>6 DEF DeliveryInv, Sourced, InChannel, Resolved
<1>8. PumpRoutes'
  BY <1>3, MsgEventInjective DEF PumpRoutes, PumpReading, PumpBuffering
<1>9. AnswersAreRouted'
  BY <1>2 DEF DeliveryInv, AnswersAreRouted, InChannel, Resolved
<1>10. ASSUME NEW n \in Messages, InInbox(n)'
       PROVE  n # m /\ InInbox(n)
  BY <1>5, <1>10 DEF InInbox
<1>11. HeldOnce'
  BY <1>2, <1>4, <1>5, <1>6, <1>10
    DEF DeliveryInv, HeldOnce, InPending, InChannel, Resolved
<1> QED BY <1>7, <1>8, <1>9, <1>11 DEF DeliveryInv

LEMMA DeliverySendToWaiter ==
  ASSUME TypeOK, DeliveryInv, PumpSend
  PROVE  DeliveryInv'
<1>1. /\ pump.at = "send" /\ pump.ev \in Events /\ pump.cur \in Waiters
      /\ ch' = [ch EXCEPT ![pump.cur] = <<pump.ev>>]
      /\ UNCHANGED <<inbox, sent, phase, result, pending>>
  BY PumpFields DEF PumpSend, TypeOK, envVars, hubVars
<1>2. \/ pump.rest = {} /\ pump' = [at |-> pump.after]
      \/ /\ pump.rest # {} /\ pump'.at = "send" /\ pump'.ev = pump.ev
         /\ pump'.after = pump.after
         /\ pump'.rest = pump.rest \ {pump'.cur}
  BY BroadcastTargets DEF PumpSend
<1>3. pump.after \in {"read", "exit"}
  BY <1>1, PumpFields DEF TypeOK
<1>4. \A m \in Messages : \A w \in Waiters :
        InChannel(m, w)' => \/ InChannel(m, w) /\ w # pump.cur
                            \/ w = pump.cur /\ pump.ev = MsgEvent(m)
  BY <1>1 DEF InChannel, TypeOK
<1>5. ASSUME NEW m \in Messages, InPump(m)'
      PROVE  pump.ev = MsgEvent(m) /\ Type[m] = "cancel"
  BY <1>1, <1>2, <1>3, <1>5 DEF InPump, DeliveryInv, PumpRoutes
<1>6. ASSUME NEW m \in Messages, pump.ev = MsgEvent(m)
      PROVE  InPump(m) /\ m \in sent /\ (Addressable(m) => Matches(pump.cur, m))
  BY <1>1, <1>6 DEF InPump, DeliveryInv, Sourced, PumpRoutes
<1>7. Sourced'
  <2>1. \A m \in Messages : InPump(m)' => m \in sent
    BY <1>5, <1>6
  <2>2. \A m \in Messages : \A w \in Waiters : InChannel(m, w)' => m \in sent
    BY <1>4, <1>6 DEF DeliveryInv, Sourced
  <2> QED BY <1>1, <2>1, <2>2 DEF DeliveryInv, Sourced, Resolved
<1>8. PumpRoutes'
  <2>1. ASSUME NEW m \in Messages, pump'.at = "send", pump'.ev = MsgEvent(m)
        PROVE  /\ pump'.after = "read"
               /\ Type[m] = "cancel" /\ ~Addressable(m)
    BY <1>1, <1>2, <1>3, <2>1, AddressableNotCancel DEF DeliveryInv, PumpRoutes
  <2> QED BY <1>2, <1>3, <2>1 DEF PumpRoutes
<1>9. AnswersAreRouted'
  BY <1>1, <1>4, <1>6 DEF DeliveryInv, AnswersAreRouted, Resolved
<1>10. HeldOnce'
  BY <1>1, <1>4, <1>5, <1>6, MsgEventInjective
    DEF DeliveryInv, HeldOnce, InInbox, InPending, Resolved
<1> QED BY <1>7, <1>8, <1>9, <1>10 DEF DeliveryInv

LEMMA DeliveryBuffer ==
  ASSUME TypeOK, DeliveryInv, PumpBuffer
  PROVE  DeliveryInv'
<1> DEFINE m == pump.msg
           kept == IF Len(pending) >= PendingCap THEN Tail(pending) ELSE pending
<1>1. /\ m \in Messages /\ InPump(m) /\ Addressable(m) /\ m \in sent
      /\ Type[m] # "cancel"
  BY PumpFields, AddressableNotCancel
    DEF PumpBuffer, TypeOK, InPump, DeliveryInv, PumpRoutes, Sourced
<1>2. /\ UNCHANGED <<inbox, sent, phase, ch, result>>
      /\ pump' = PumpReading /\ pending' = Append(kept, m)
  BY DEF PumpBuffer, envVars
<1>3. /\ kept \in Seq(Messages) /\ Len(kept) \in Nat
      /\ \A i, j \in 1..Len(kept) : kept[i] = kept[j] => i = j
      /\ \A i \in 1..Len(kept) : \E j \in 1..Len(pending) : kept[i] = pending[j]
  <2>1. CASE Len(pending) >= PendingCap
    <3>1. pending # <<>> /\ Len(pending) \in Nat
      BY <2>1, HubAssumption, LenProperties DEF TypeOK
    <3>2. /\ kept \in Seq(Messages) /\ Len(kept) = Len(pending) - 1
          /\ \A i \in 1..Len(kept) : kept[i] = pending[i + 1]
      BY <2>1, <3>1, HeadTailProperties DEF TypeOK
    <3> QED BY <3>1, <3>2, LenProperties DEF DeliveryInv, HeldOnce
  <2>2. CASE ~(Len(pending) >= PendingCap)
    BY <2>2, LenProperties DEF TypeOK, DeliveryInv, HeldOnce
  <2> QED BY <2>1, <2>2
<1> HIDE DEF kept
<1>4. /\ Len(pending') = Len(kept) + 1 /\ pending'[Len(kept) + 1] = m
      /\ \A i \in 1..Len(kept) : pending'[i] = kept[i]
  BY <1>1, <1>2, <1>3, AppendProperties
<1>5. \A i \in 1..Len(kept) : kept[i] # m
  BY <1>1, <1>3 DEF DeliveryInv, HeldOnce, InPending
<1>6. /\ \A i, j \in 1..Len(pending') : pending'[i] = pending'[j] => i = j
      /\ \A i \in 1..Len(pending') :
           pending'[i] = m \/ \E j \in 1..Len(pending) : pending'[i] = pending[j]
  <2>1. \A i \in 1..Len(pending') : i \in 1..Len(kept) \/ i = Len(kept) + 1
    BY <1>3, <1>4
  <2>2. \A i, j \in 1..Len(pending') : pending'[i] = pending'[j] => i = j
    BY <1>3, <1>4, <1>5, <2>1
  <2>3. \A i \in 1..Len(pending') :
          pending'[i] = m \/ \E j \in 1..Len(pending) : pending'[i] = pending[j]
    BY <1>3, <1>4, <2>1
  <2> QED BY <2>2, <2>3
<1>7. \A n \in Messages : ~InPump(n)'
  BY <1>2 DEF InPump, PumpReading
<1>8. Sourced'
  BY <1>1, <1>2, <1>6, <1>7 DEF DeliveryInv, Sourced, InChannel, Resolved
<1>9. PumpRoutes' /\ AnswersAreRouted'
  BY <1>2 DEF DeliveryInv, PumpRoutes, PumpReading, AnswersAreRouted, InChannel, Resolved
<1>10. ASSUME NEW n \in Messages, InPending(n)'
       PROVE  n = m \/ InPending(n)
  BY <1>6, <1>10 DEF InPending
<1>11. ASSUME NEW n \in Messages
       PROVE  /\ InInbox(n)' => ~InPending(n)'
              /\ InPending(n)' =>
                   \A w \in Waiters : ~InChannel(n, w)' /\ ~Resolved(n, w)'
  BY <1>1, <1>2, <1>10 DEF DeliveryInv, HeldOnce, InInbox, InChannel, Resolved
<1>12. HeldOnce'
  BY <1>2, <1>6, <1>7, <1>11
    DEF DeliveryInv, HeldOnce, InInbox, InChannel, Resolved
<1> QED BY <1>8, <1>9, <1>12 DEF DeliveryInv

LEMMA DeliveryInit == Init => DeliveryInv
<1> SUFFICES ASSUME Init PROVE DeliveryInv
  OBVIOUS
<1>1. Len(inbox) = 0 /\ Len(pending) = 0 /\ pump = PumpOff
  BY EmptySeq DEF Init
<1>2. \A m \in Messages : \A w \in Waiters : ~InChannel(m, w) /\ ~Resolved(m, w)
  BY DEF Init, InChannel, Resolved
<1> QED BY <1>1, <1>2 DEF DeliveryInv, Sourced, PumpRoutes, AnswersAreRouted, HeldOnce,
          InInbox, InPending, InPump, PumpOff

LEMMA DeliveryNext == TypeOK /\ DeliveryInv /\ [Next]_vars => DeliveryInv'
<1> SUFFICES ASSUME TypeOK, DeliveryInv, [Next]_vars PROVE DeliveryInv'
  OBVIOUS
<1>1. CASE CloseChannel \/ Finished \/ UNCHANGED vars
  BY <1>1 DEF CloseChannel, Finished, vars, hubVars, DeliveryInv, Sourced, PumpRoutes,
       AnswersAreRouted, HeldOnce, InInbox, InPending, InPump, InChannel, Resolved
<1>2. CASE Pump
  BY <1>2, DeliveryReadError, DeliveryRead, DeliverySendToWaiter, DeliveryBuffer DEF Pump
<1> QED BY <1>1, <1>2, DeliverySend, DeliveryGoroutine DEF Next

LEMMA DeliveryInvariant == Spec => []DeliveryInv
BY DeliveryInit, DeliveryNext, TypeCorrect, PTL DEF Spec

(* An addressed answer never ends another wait call.                       *)
THEOREM Routing == Spec => []AnswersAreRouted
<1>1. DeliveryInv => AnswersAreRouted
  BY DEF DeliveryInv
<1> QED BY <1>1, DeliveryInvariant, PTL

(* No answer is in two places, and none ends two wait calls.               *)
THEOREM AtMostOnce == Spec => []HeldOnce
<1>1. DeliveryInv => HeldOnce
  BY DEF DeliveryInv
<1> QED BY <1>1, DeliveryInvariant, PTL
-----------------------------------------------------------------------------
(* The hub implements the abstract delivery of answers                     *)

(* The error of the read channel is only on its way once it is closed.     *)
EndInv ==
  /\ deadErr \/ (pump.at = "send" /\ pump.ev = DeadEvent) => closed
  /\ \A w \in Waiters : ch[w] = <<DeadEvent>> => closed

LEMMA EndNext == TypeOK /\ EndInv /\ [Next]_vars => EndInv'
<1> SUFFICES ASSUME TypeOK, EndInv, [Next]_vars PROVE EndInv'
  OBVIOUS
<1> USE DEF EndInv, TypeOK
<1>1. ASSUME NEW m \in Messages, ClientSend(m) PROVE EndInv'
  BY <1>1 DEF ClientSend, hubVars
<1>2. CASE CloseChannel
  BY <1>2 DEF CloseChannel
<1>3. ASSUME NEW w \in Waiters, Goroutine(w) PROVE EndInv'
  <2>1. CASE Announce(w) \/ WaitDead(w) \/ WaitClaim(w)
    BY <2>1 DEF Announce, WaitDead, WaitClaim, envVars, hubVars
  <2>2. CASE WaitRegister(w)
    BY <2>2 DEF WaitRegister, envVars, PumpReading
  <2>3. CASE WaitReceive(w)
    BY <2>3 DEF WaitReceive, envVars, hubVars
  <2> QED BY <1>3, <2>1, <2>2, <2>3 DEF Goroutine
<1>4. CASE PumpReadError
  BY <1>4, BroadcastTargets DEF PumpReadError, envVars
<1>5. CASE PumpRead
  <2>1. Head(inbox) \in Messages
    BY <1>5, HeadTailProperties DEF PumpRead
  <2>2. pump'.at = "send" => pump'.ev # DeadEvent
    BY <1>5, <2>1, DispatchCases, MsgEventInjective
      DEF PumpRead, PumpReading, PumpBuffering
  <2> QED BY <1>5, <2>2 DEF PumpRead, hubVars
<1>6. CASE PumpSend
  <2>1. /\ pump.at = "send" /\ pump.cur \in Waiters
        /\ ch' = [ch EXCEPT ![pump.cur] = <<pump.ev>>]
        /\ UNCHANGED <<closed, deadErr>>
    BY <1>6, PumpFields DEF PumpSend, envVars, hubVars
  <2>2. pump'.at = "send" => pump'.ev = pump.ev
    <3>1. pump.after \in {"read", "exit"}
      BY <2>1, PumpFields
    <3> QED BY <1>6, <3>1, BroadcastTargets DEF PumpSend
  <2> QED BY <2>1, <2>2
<1>7. CASE PumpBuffer
  BY <1>7 DEF PumpBuffer, envVars, PumpReading
<1>8. CASE Finished \/ UNCHANGED vars
  BY <1>8 DEF Finished, vars
<1> QED BY <1>1, <1>2, <1>3, <1>4, <1>5, <1>6, <1>7, <1>8 DEF Next, Pump

LEMMA EndInvariant == Spec => []EndInv
<1>1. Init => EndInv
  BY DEF Init, EndInv, PumpOff, DeadEvent
<1> QED BY <1>1, EndNext, TypeCorrect, PTL DEF Spec

(* What the outcome of a wait call becomes when it returns event e.        *)
LEMMA OutcomeOfReturn ==
  ASSUME TypeOK, NEW w \in Waiters, NEW e, phase[w] # "returned",
         phase' = [phase EXCEPT ![w] = "returned"],
         result' = [result EXCEPT ![w] = e]
  PROVE  /\ Outcome[w] = [kind |-> "open"]
         /\ Outcome' = [Outcome EXCEPT ![w] = e]
BY DEF Outcome, TypeOK

LEMMA OutcomeKept ==
  ASSUME TypeOK, NEW w \in Waiters, NEW s, phase[w] # "returned", s # "returned",
         phase' = [phase EXCEPT ![w] = s], result' = result
  PROVE  Outcome' = Outcome
BY DEF Outcome, TypeOK

(* Returning message m is a Resolve step if no wait call has returned it   *)
(* before and w may.                                                       *)
LEMMA ReturnResolves ==
  ASSUME TypeOK, NEW w \in Waiters, NEW m \in Messages, phase[w] # "returned",
         phase' = [phase EXCEPT ![w] = "returned"],
         result' = [result EXCEPT ![w] = MsgEvent(m)],
         UNCHANGED <<sent, closed>>,
         m \in sent, Addressable(m) => Matches(w, m),
         Type[m] # "cancel" => \A v \in Waiters : ~Resolved(m, v)
  PROVE  Delivery!Resolve(w, m)
<1>1. /\ Outcome[w] = Delivery!Open
      /\ Outcome' = [Outcome EXCEPT ![w] = Delivery!Answered(m)]
  BY OutcomeOfReturn DEF Delivery!Open, Delivery!Answered, MsgEvent
<1>2. w \in MayEnd[m]
  BY DEF MayEnd
<1>3. m \in Cancels \/ \A v \in Waiters : Outcome[v] # Delivery!Answered(m)
  <2>1. [kind |-> "open"] # MsgEvent(m)
    BY DEF MsgEvent
  <2> QED BY <2>1 DEF Cancels, Outcome, Delivery!Answered, MsgEvent, Resolved
<1> QED BY <1>1, <1>2, <1>3 DEF Delivery!Resolve

LEMMA ReturnDisconnects ==
  ASSUME TypeOK, NEW w \in Waiters, phase[w] # "returned", closed,
         phase' = [phase EXCEPT ![w] = "returned"],
         result' = [result EXCEPT ![w] = DeadEvent],
         UNCHANGED <<sent, closed>>
  PROVE  Delivery!Disconnect(w)
BY OutcomeOfReturn
  DEF Delivery!Disconnect, Delivery!Open, Delivery!Disconnected, DeadEvent

LEMMA StepDelivers ==
  TypeOK /\ DeliveryInv /\ EndInv /\ [Next]_vars => [Delivery!Next]_(Delivery!vars)
<1> SUFFICES ASSUME TypeOK, DeliveryInv, EndInv, [Next]_vars
             PROVE  Delivery!Next \/ UNCHANGED Delivery!vars
  OBVIOUS
<1>1. ASSUME NEW m \in Messages, ClientSend(m) PROVE Delivery!Next
  <2>1. Outcome' = Outcome
    BY <1>1 DEF ClientSend, Outcome
  <2> QED BY <1>1, <2>1 DEF ClientSend, Delivery!Offer, Delivery!Next
<1>2. CASE CloseChannel
  <2>1. Outcome' = Outcome
    BY <1>2 DEF CloseChannel, Outcome
  <2> QED BY <1>2, <2>1 DEF CloseChannel, Delivery!End, Delivery!Next
<1>3. ASSUME NEW w \in Waiters, Goroutine(w)
      PROVE  Delivery!Next \/ UNCHANGED Delivery!vars
  <2>1. CASE Announce(w) \/ WaitRegister(w)
    <3>1. Outcome' = Outcome
      BY <2>1, OutcomeKept DEF Announce, WaitRegister
    <3> QED BY <2>1, <3>1 DEF Announce, WaitRegister, envVars, Delivery!vars
  <2>2. CASE WaitDead(w)
    <3>1. Delivery!Disconnect(w)
      BY <2>2, ReturnDisconnects DEF WaitDead, envVars, EndInv
    <3> QED BY <3>1 DEF Delivery!Next
  <2>3. CASE WaitClaim(w)
    <3>1. PICK i \in 1..Len(pending) :
            /\ Matches(w, pending[i])
            /\ result' = [result EXCEPT ![w] = MsgEvent(pending[i])]
      BY <2>3 DEF WaitClaim
    <3>2. pending[i] \in Messages /\ InPending(pending[i]) /\ pending[i] \in sent
      BY <3>1, ElementOfSeq DEF TypeOK, InPending, DeliveryInv, Sourced
    <3>3. \A v \in Waiters : ~Resolved(pending[i], v)
      BY <3>2 DEF DeliveryInv, HeldOnce
    <3>4. Delivery!Resolve(w, pending[i])
      BY <2>3, <3>1, <3>2, <3>3, ReturnResolves DEF WaitClaim, envVars
    <3> QED BY <3>2, <3>4 DEF Delivery!Next
  <2>4. CASE WaitReceive(w)
    <3>1. PICK e \in Events : ch[w] = <<e>>
      BY <2>4 DEF WaitReceive, TypeOK
    <3>2. /\ phase[w] # "returned" /\ phase' = [phase EXCEPT ![w] = "returned"]
          /\ result' = [result EXCEPT ![w] = e] /\ UNCHANGED <<sent, closed>>
      BY <2>4, <3>1 DEF WaitReceive, envVars
    <3>3. CASE e = DeadEvent
      <4>1. Delivery!Disconnect(w)
        BY <3>1, <3>2, <3>3, ReturnDisconnects DEF EndInv
      <4> QED BY <4>1 DEF Delivery!Next
    <3>4. ASSUME NEW m \in Messages, e = MsgEvent(m) PROVE Delivery!Next
      <4>1. InChannel(m, w)
        BY <3>1, <3>4 DEF InChannel
      <4>2. /\ m \in sent /\ (Addressable(m) => Matches(w, m))
            /\ Type[m] # "cancel" => \A v \in Waiters : ~Resolved(m, v)
        BY <4>1 DEF DeliveryInv, Sourced, AnswersAreRouted, HeldOnce
      <4>3. Delivery!Resolve(w, m)
        BY <3>2, <3>4, <4>2, ReturnResolves
      <4> QED BY <4>3 DEF Delivery!Next
    <3> QED BY <3>3, <3>4 DEF Events
  <2> QED BY <1>3, <2>1, <2>2, <2>3, <2>4 DEF Goroutine
<1>4. CASE Pump \/ Finished \/ UNCHANGED vars
  <2>1. UNCHANGED <<phase, result, sent, closed>>
    BY <1>4 DEF Pump, PumpReadError, PumpRead, PumpSend, PumpBuffer, Finished, vars, envVars
  <2> QED BY <2>1 DEF Outcome, Delivery!vars
<1> QED BY <1>1, <1>2, <1>3, <1>4 DEF Next

(* The hub, with its lock, snapshots, buffer and channels, implements the  *)
(* abstract delivery: every step resolves or disconnects one wait call as  *)
(* AnswerDelivery allows, or is invisible to it.                           *)
THEOREM HubImplementsDelivery == Spec => ImplementsDelivery
<1>1. Init => Delivery!Init
  BY DEF Init, Delivery!Init, Outcome, Delivery!Open
<1> QED
  BY <1>1, StepDelivers, TypeCorrect, DeliveryInvariant, EndInvariant, PTL
    DEF Spec, ImplementsDelivery, Delivery!Spec
-----------------------------------------------------------------------------
(* No answer is lost                                                       *)

(* Where an answer is.  With HeldOnce it bounds the queues: what they hold *)
(* was sent and is there once, so that they are no longer than what was    *)
(* sent, and the newest message finds room.                                *)
Somewhere(m) ==
  \/ InInbox(m) \/ InPending(m) \/ InPump(m)
  \/ \E w \in Waiters : InChannel(m, w) \/ Resolved(m, w)

Small == Cardinality(sent) <= InboxCap /\ Cardinality(sent) <= PendingCap

KeptInv ==
  /\ IsFiniteSet(sent)
  /\ ~deadErr /\ Small => \A m \in sent : Addressable(m) => Somewhere(m)

LEMMA DistinctFits ==
  ASSUME NEW S, IsFiniteSet(S), NEW s, Len(s) \in Nat, \A i \in 1..Len(s) : s[i] \in S,
         \A i, j \in 1..Len(s) : s[i] = s[j] => i = j
  PROVE  Len(s) <= Cardinality(S)
<1> DEFINE f == [i \in 1..Len(s) |-> s[i]]
<1>1. f \in Injection(1..Len(s), S)
  BY DEF Injection, IsInjective
<1>2. Cardinality(1..Len(s)) <= Cardinality(S)
  BY <1>1, FS_Injection, Zenon
<1>3. Cardinality(1..Len(s)) = Len(s)
  <2>1. 1 \in Int /\ Len(s) \in Int /\ (1 > Len(s) => Len(s) = 0)
    OBVIOUS
  <2>2. Cardinality(1..Len(s)) = IF 1 > Len(s) THEN 0 ELSE Len(s) - 1 + 1
    BY <2>1, FS_Interval, Zenon
  <2> QED BY <2>1, <2>2
<1> QED BY <1>2, <1>3

LEMMA KeptSend ==
  ASSUME TypeOK, DeliveryInv, KeptInv, NEW m \in Messages, ClientSend(m)
  PROVE  KeptInv'
<1>1. /\ sent' = sent \cup {m} /\ m \notin sent
      /\ UNCHANGED <<phase, ch, result, pending, deadErr, pump>>
      /\ inbox' = IF Len(inbox) < InboxCap THEN Append(inbox, m) ELSE inbox
  BY DEF ClientSend, hubVars
<1>2. /\ IsFiniteSet(sent') /\ Cardinality(sent) \in Nat
      /\ Cardinality(sent') = Cardinality(sent) + 1
  BY <1>1, FS_AddElement, FS_CardinalityType DEF KeptInv
<1> SUFFICES ASSUME ~deadErr', Small', NEW n \in sent', Addressable(n)
             PROVE  Somewhere(n)'
  BY <1>2 DEF KeptInv
<1>3. Small
  BY <1>2, HubAssumption DEF Small
<1>4. inbox \in Seq(Messages) /\ Len(inbox) \in Nat
  BY LenProperties DEF TypeOK
<1>5. Len(inbox) <= Cardinality(sent)
  BY <1>4, DistinctFits DEF KeptInv, DeliveryInv, HeldOnce, Sourced
<1>6. inbox' = Append(inbox, m)
  BY <1>1, <1>2, <1>4, <1>5, HubAssumption DEF Small
<1>7. /\ Len(inbox') = Len(inbox) + 1 /\ inbox'[Len(inbox) + 1] = m
      /\ \A i \in 1..Len(inbox) : inbox'[i] = inbox[i]
  BY <1>4, <1>6, AppendProperties
<1>8. CASE n = m
  <2>1. InInbox(n)'
    BY <1>4, <1>7, <1>8 DEF InInbox
  <2> QED BY <2>1 DEF Somewhere
<1>9. CASE n # m
  <2>1. Somewhere(n)
    BY <1>1, <1>3, <1>9 DEF KeptInv
  <2>2. InInbox(n) => InInbox(n)'
    BY <1>4, <1>7 DEF InInbox
  <2> QED BY <1>1, <2>1, <2>2 DEF Somewhere, InPending, InPump, InChannel, Resolved
<1> QED BY <1>8, <1>9

LEMMA KeptGoroutine ==
  ASSUME TypeOK, KeptInv, NEW w \in Waiters, Goroutine(w)
  PROVE  KeptInv'
<1>1. UNCHANGED <<sent, inbox, deadErr>>
  BY DEF Goroutine, Announce, WaitDead, WaitClaim, WaitRegister, WaitReceive, envVars, hubVars
<1> SUFFICES ASSUME NEW m \in Messages, Somewhere(m), Addressable(m) PROVE Somewhere(m)'
  BY <1>1 DEF KeptInv, Small, TypeOK
<1>2. CASE InInbox(m)
  BY <1>1, <1>2 DEF Somewhere, InInbox
<1>3. CASE InPump(m)
  <2>1. pump' = pump
    BY <1>3 DEF InPump, PumpOff, Goroutine, Announce, WaitDead, WaitClaim, WaitRegister, WaitReceive
  <2> QED BY <1>3, <2>1 DEF Somewhere, InPump
<1>4. CASE \E v \in Waiters : Resolved(m, v)
  <2>1. PICK v \in Waiters : Resolved(m, v)
    BY <1>4
  <2>2. v # w
    BY <2>1 DEF Resolved, Goroutine, Announce, WaitDead, WaitClaim, WaitRegister, WaitReceive
  <2>3. phase'[v] = phase[v] /\ result'[v] = result[v]
    BY <2>2 DEF TypeOK, Goroutine, Announce, WaitDead, WaitClaim, WaitRegister, WaitReceive
  <2> QED BY <2>1, <2>3 DEF Somewhere, Resolved
<1>5. CASE \E v \in Waiters : InChannel(m, v)
  <2>1. PICK v \in Waiters : ch[v] = <<MsgEvent(m)>>
    BY <1>5 DEF InChannel
  <2>2. CASE WaitReceive(w) /\ v = w
    <3>1. result'[v] = MsgEvent(m) /\ phase'[v] = "returned"
      BY <2>1, <2>2 DEF WaitReceive, TypeOK
    <3> QED BY <3>1 DEF Somewhere, Resolved
  <2>3. CASE ~(WaitReceive(w) /\ v = w)
    <3>1. ch'[v] = ch[v]
      BY <2>3 DEF TypeOK, Goroutine, Announce, WaitDead, WaitClaim, WaitRegister, WaitReceive
    <3> QED BY <2>1, <3>1 DEF Somewhere, InChannel
  <2> QED BY <2>2, <2>3
<1>6. CASE InPending(m)
  <2>1. CASE WaitClaim(w)
    <3>1. PICK i \in 1..Len(pending) :
            /\ pending' = RemoveAt(pending, i)
            /\ result' = [result EXCEPT ![w] = MsgEvent(pending[i])]
            /\ phase' = [phase EXCEPT ![w] = "returned"]
      BY <2>1 DEF WaitClaim
    <3>2. PICK j \in 1..Len(pending) : pending[j] = m
      BY <1>6 DEF InPending
    <3>3. CASE j = i
      <4>1. phase'[w] = "returned" /\ result'[w] = MsgEvent(m)
        BY <3>1, <3>2, <3>3 DEF TypeOK
      <4> QED BY <4>1 DEF Somewhere, Resolved
    <3>4. CASE j # i
      <4>1. Len(pending) \in Nat /\ pending \in Seq(Messages)
        BY LenProperties DEF TypeOK
      <4>2. /\ Len(pending') = Len(pending) - 1
            /\ \A k \in 1..Len(pending') :
                 pending'[k] = IF k < i THEN pending[k] ELSE pending[k + 1]
        BY <3>1, <4>1, RemoveAtElements
      <4>3. \E k \in 1..Len(pending') : pending'[k] = m
        <5>1. CASE j < i
          <6>1. j \in 1..Len(pending')
            BY <4>1, <4>2, <5>1
          <6> QED BY <3>2, <4>2, <5>1, <6>1
        <5>2. CASE j > i
          <6>1. j - 1 \in 1..Len(pending') /\ ~(j - 1 < i) /\ (j - 1) + 1 = j
            BY <4>1, <4>2, <5>2
          <6> QED BY <3>2, <4>2, <6>1
        <5> QED BY <3>4, <4>1, <5>1, <5>2
      <4> QED BY <4>3 DEF Somewhere, InPending
    <3> QED BY <3>3, <3>4
  <2>2. CASE ~WaitClaim(w)
    <3>1. pending' = pending
      BY <2>2 DEF Goroutine, Announce, WaitDead, WaitRegister, WaitReceive, hubVars
    <3> QED BY <1>6, <3>1 DEF Somewhere, InPending
  <2> QED BY <2>1, <2>2
<1> QED BY <1>2, <1>3, <1>4, <1>5, <1>6 DEF Somewhere

LEMMA KeptPump ==
  ASSUME TypeOK, DeliveryInv, KeptInv, Pump
  PROVE  KeptInv'
<1>1. UNCHANGED <<sent, phase, result>>
  BY DEF Pump, PumpReadError, PumpRead, PumpSend, PumpBuffer, envVars
<1> SUFFICES ASSUME ~deadErr', Small', NEW m \in sent', Addressable(m)
             PROVE  Somewhere(m)'
  BY <1>1 DEF KeptInv
<1>2. ~deadErr /\ ~PumpReadError
  BY DEF Pump, PumpReadError, PumpRead, PumpSend, PumpBuffer, hubVars
<1>3. m \in Messages /\ m \in sent /\ Small /\ Somewhere(m) /\ Type[m] # "cancel"
  BY <1>1, <1>2, AddressableNotCancel DEF Small, TypeOK, KeptInv
<1>4. CASE \E w \in Waiters : Resolved(m, w)
  BY <1>1, <1>4 DEF Somewhere, Resolved
<1>5. CASE \E w \in Waiters : InChannel(m, w)
  <2>1. PICK w \in Waiters : ch[w] = <<MsgEvent(m)>>
    BY <1>5 DEF InChannel
  <2>2. ch'[w] = ch[w]
    <3>1. CASE PumpSend
      <4>1. pump.cur \in Waiters /\ ch[pump.cur] = <<>> /\ ch' = [ch EXCEPT ![pump.cur] = <<pump.ev>>]
        BY <3>1, PumpFields DEF PumpSend, TypeOK
      <4>2. <<MsgEvent(m)>> # <<>>
        OBVIOUS
      <4>3. pump.cur # w
        BY <2>1, <4>1, <4>2
      <4> QED BY <4>1, <4>3 DEF TypeOK
    <3>2. CASE ~PumpSend
      BY <1>2, <3>2 DEF Pump, PumpRead, PumpBuffer
    <3> QED BY <3>1, <3>2
  <2> QED BY <2>1, <2>2 DEF Somewhere, InChannel
<1>6. CASE InInbox(m)
  <2>1. CASE PumpRead
    <3>1. /\ inbox \in Seq(Messages) /\ inbox # <<>> /\ inbox' = Tail(inbox)
          /\ Head(inbox) \in Messages /\ Head(inbox) = inbox[1] /\ Len(inbox) \in Nat
          /\ Len(Tail(inbox)) = Len(inbox) - 1
          /\ \A i \in 1..Len(Tail(inbox)) : Tail(inbox)[i] = inbox[i + 1]
      BY <2>1, HeadTailProperties, LenProperties DEF PumpRead, TypeOK
    <3>2. PICK i \in 1..Len(inbox) : inbox[i] = m
      BY <1>6 DEF InInbox
    <3>3. CASE i = 1
      <4>1. InPump(m)'
        BY <1>3, <2>1, <3>1, <3>2, <3>3, DispatchCases
           DEF PumpRead, TypeOK, InPump, PumpBuffering
      <4> QED BY <4>1 DEF Somewhere
    <3>4. CASE i # 1
      <4>1. i - 1 \in 1..Len(Tail(inbox)) /\ (i - 1) + 1 = i
        BY <3>1, <3>4
      <4>2. InInbox(m)'
        BY <3>1, <3>2, <4>1 DEF InInbox
      <4> QED BY <4>2 DEF Somewhere
    <3> QED BY <3>3, <3>4
  <2>2. CASE ~PumpRead
    <3>1. inbox' = inbox
      BY <1>2, <2>2 DEF Pump, PumpSend, PumpBuffer, envVars
    <3> QED BY <1>6, <3>1 DEF Somewhere, InInbox
  <2> QED BY <2>1, <2>2
<1>7. pending \in Seq(Messages) /\ Len(pending) \in Nat
  BY LenProperties DEF TypeOK
<1>8. ASSUME PumpBuffer, pump.msg \in sent, ~InPending(pump.msg)
      PROVE  /\ Len(pending') = Len(pending) + 1 /\ pending'[Len(pending) + 1] = pump.msg
             /\ \A i \in 1..Len(pending) : pending'[i] = pending[i]
  <2> DEFINE others == sent \ {pump.msg}
  <2>1. IsFiniteSet(others) /\ Cardinality(others) = Cardinality(sent) - 1
    BY <1>8, FS_RemoveElement DEF KeptInv
  <2>2. \A i \in 1..Len(pending) : pending[i] \in others
    BY <1>8 DEF DeliveryInv, Sourced, InPending
  <2>3. Len(pending) <= Cardinality(others)
    <3> HIDE DEF others
    <3> QED BY <1>7, <2>1, <2>2, DistinctFits DEF DeliveryInv, HeldOnce
  <2>4. Cardinality(sent) \in Nat /\ PendingCap \in Nat
    BY FS_CardinalityType, HubAssumption DEF KeptInv
  <2>5. pending' = Append(pending, pump.msg)
    BY <1>3, <1>7, <1>8, <2>1, <2>3, <2>4 DEF PumpBuffer, Small
  <2>6. pump.msg \in Messages
    BY <1>8 DEF TypeOK
  <2> QED BY <1>7, <2>5, <2>6, AppendProperties
<1>9. PumpBuffer => pump.msg \in Messages /\ InPump(pump.msg)
  BY DEF PumpBuffer, InPump, TypeOK, PumpStates, PumpOff, PumpReading, PumpExited, PumpBuffering,
         PumpSending
<1>10. PumpBuffer => pump.msg \in sent /\ ~InPending(pump.msg)
  BY <1>9 DEF DeliveryInv, Sourced, HeldOnce
<1>11. CASE InPending(m)
  <2>1. CASE PumpBuffer
    <3>1. InPending(m)'
      BY <1>7, <1>8, <1>10, <1>11, <2>1 DEF InPending
    <3> QED BY <3>1 DEF Somewhere
  <2>2. CASE ~PumpBuffer
    <3>1. pending' = pending
      BY <1>2, <2>2 DEF Pump, PumpRead, PumpSend, hubVars
    <3> QED BY <1>11, <3>1 DEF Somewhere, InPending
  <2> QED BY <2>1, <2>2
<1>12. CASE InPump(m)
  <2>1. CASE pump.at = "buffer" /\ pump.msg = m
    <3>1. PumpBuffer
      BY <1>2, <2>1 DEF Pump, PumpRead, PumpSend, PumpReading
    <3>2. InPending(m)'
      BY <1>7, <1>8, <1>10, <2>1, <3>1 DEF InPending
    <3> QED BY <3>2 DEF Somewhere
  <2>2. CASE pump.at = "send" /\ pump.ev = MsgEvent(m)
    <3>1. PumpSend
      BY <1>2, <2>2 DEF Pump, PumpRead, PumpBuffer, PumpReading
    <3>2. pump.cur \in Waiters /\ ch' = [ch EXCEPT ![pump.cur] = <<MsgEvent(m)>>]
      BY <2>2, <3>1, PumpFields DEF PumpSend, TypeOK
    <3>3. ch'[pump.cur] = <<MsgEvent(m)>>
      BY <3>2 DEF TypeOK
    <3> QED BY <3>2, <3>3 DEF Somewhere, InChannel
  <2> QED BY <1>12, <2>1, <2>2 DEF InPump
<1> QED BY <1>3, <1>4, <1>5, <1>6, <1>11, <1>12 DEF Somewhere

(* While the channel of the connection is open and fewer answers came than *)
(* the queues hold, every addressed answer is on its way or delivered.     *)
THEOREM NothingLost == Spec => []NoAnswerIsLost
<1>1. Init => KeptInv
  BY FS_EmptySet DEF Init, KeptInv
<1>2. TypeOK /\ DeliveryInv /\ KeptInv /\ [Next]_vars => KeptInv'
  <2> SUFFICES ASSUME TypeOK, DeliveryInv, KeptInv, [Next]_vars PROVE KeptInv'
    OBVIOUS
  <2>1. CASE CloseChannel \/ Finished \/ UNCHANGED vars
    BY <2>1 DEF CloseChannel, Finished, vars, hubVars, KeptInv, Small, Somewhere, InInbox,
         InPending, InPump, InChannel, Resolved
  <2> QED BY <2>1, KeptSend, KeptGoroutine, KeptPump DEF Next
<1>3. KeptInv => NoAnswerIsLost
  BY DEF KeptInv, Small, Somewhere, NoAnswerIsLost
<1> QED BY <1>1, <1>2, <1>3, TypeCorrect, DeliveryInvariant, PTL DEF Spec

-----------------------------------------------------------------------------
(* A client that answers once never blocks the pump                        *)

(* The client sends only answers that name their tool use, and no two of   *)
(* them for one wait call: no cancel, no double click, no confirmation.    *)
AnswersOnce ==
  /\ \A m \in sent : Addressable(m)
  /\ \A m, n \in sent : \A w \in Waiters : Matches(w, m) /\ Matches(w, n) => m = n

(* The loop "w.ch <- event" of the pump waits only for a goroutine that is *)
(* about to receive, never for one that has returned: so long as the       *)
(* client answers once, the connection may drop at any moment and the      *)
(* error reaches everybody. (With a cancel or a second copy it need not:   *)
(* see CloseReleasesEveryone.)                                             *)
PumpGoesOn ==
  AnswersOnce /\ pump.at = "send" /\ ch[pump.cur] # <<>> => phase[pump.cur] = "blocked"

(* A waiter is told of the error once: it is not told again by the         *)
(* broadcast under way, and no other follows.                              *)
ToldOfError(w) == ch[w] = <<DeadEvent>> \/ (phase[w] = "returned" /\ result[w] = DeadEvent)
ToldOnce ==
  /\ \A w \in Waiters : ch[w] # <<>> => w \in waiters
  /\ \A w \in waiters : phase[w] \in {"blocked", "returned"}
  /\ pump.at = "send" =>
       pump.cur \in waiters /\ pump.rest \subseteq waiters /\ pump.cur \notin pump.rest
  /\ \A w \in waiters :
       ToldOfError(w) =>
         \/ pump = PumpExited
         \/ pump.at = "send" /\ pump.ev = DeadEvent /\ w \notin {pump.cur} \cup pump.rest

LEMMA ToldGoroutine ==
  ASSUME TypeOK, ToldOnce, NEW w \in Waiters, Goroutine(w)
  PROVE  ToldOnce'
<1> USE DEF ToldOnce, ToldOfError, TypeOK
<1>1. CASE Announce(w)
  BY <1>1 DEF Announce, hubVars
<1>2. CASE WaitDead(w)
  BY <1>2 DEF WaitDead, hubVars
<1>3. CASE WaitClaim(w)
  BY <1>3 DEF WaitClaim
<1>4. CASE WaitRegister(w)
  <2>1. /\ waiters' = waiters \cup {w} /\ w \notin waiters /\ ch[w] = <<>>
        /\ phase' = [phase EXCEPT ![w] = "blocked"] /\ ch' = ch /\ result' = result
    BY <1>4 DEF WaitRegister
  <2>2. pump' = pump \/ (pump = PumpOff /\ pump' = PumpReading)
    BY <1>4 DEF WaitRegister
  <2>3. ASSUME NEW v \in waiters', ToldOfError(v)' PROVE v \in waiters /\ ToldOfError(v)
    <3>1. v \in Waiters /\ <<>> # <<DeadEvent>>
      BY <2>1
    <3>2. v # w
      BY <2>1, <2>3, <3>1
    <3> QED
      BY <2>1, <2>3, <3>1, <3>2
  <2>4. CASE pump' = pump
    <3>1. \A v \in Waiters : ch'[v] # <<>> => v \in waiters'
      BY <2>1
    <3>2. \A v \in waiters' : phase'[v] \in {"blocked", "returned"}
      BY <2>1
    <3>3. pump'.at = "send" =>
            /\ pump'.cur \in waiters' /\ pump'.rest \subseteq waiters'
            /\ pump'.cur \notin pump'.rest
      BY <2>1, <2>4
    <3>4. \A v \in waiters' :
            ToldOfError(v)' =>
              \/ pump' = PumpExited
              \/ /\ pump'.at = "send" /\ pump'.ev = DeadEvent
                 /\ v \notin {pump'.cur} \cup pump'.rest
      BY <2>3, <2>4 DEF ToldOnce
    <3> QED
      BY <3>1, <3>2, <3>3, <3>4 DEF ToldOnce
  <2>5. CASE pump = PumpOff /\ pump' = PumpReading
    BY <2>1, <2>3, <2>5 DEF PumpOff, PumpReading, PumpExited
  <2> QED
    BY <2>2, <2>4, <2>5
<1>5. CASE WaitReceive(w)
  <2>1. PICK e \in Events : ch[w] = <<e>>
    BY <1>5 DEF WaitReceive
  <2>2. result' = [result EXCEPT ![w] = e] /\ ch' = [ch EXCEPT ![w] = <<>>]
    BY <1>5, <2>1 DEF WaitReceive
  <2>3. phase' = [phase EXCEPT ![w] = "returned"] /\ waiters' = waiters /\ pump' = pump
    BY <1>5 DEF WaitReceive, hubVars
  <2>4. \A v \in waiters : ToldOfError(v)' => ToldOfError(v)
    BY <2>1, <2>2, <2>3
  <2> QED
    BY <2>2, <2>3, <2>4
<1> QED BY <1>1, <1>2, <1>3, <1>4, <1>5 DEF Goroutine

LEMMA ToldPump ==
  ASSUME TypeOK, DeadInv, ToldOnce, Pump
  PROVE  ToldOnce'
<1>0. /\ \A m \in Messages : MsgEvent(m) # DeadEvent
      /\ UNCHANGED <<phase, result, waiters>>
  BY DEF MsgEvent, DeadEvent, Pump, PumpReadError, PumpRead, PumpSend, PumpBuffer, hubVars
<1> USE DEF ToldOnce, ToldOfError
<1>1. CASE PumpReadError
  <2>1. \/ waiters = {} /\ pump' = PumpExited
        \/ /\ pump'.at = "send" /\ pump'.cur \in waiters
           /\ pump'.rest = waiters \ {pump'.cur}
    BY <1>1, BroadcastTargets DEF PumpReadError, PumpExited
  <2>2. ch' = ch /\ \A w \in waiters : ~ToldOfError(w)
    BY <1>1 DEF PumpReadError, PumpReading, PumpExited
  <2>3. ASSUME NEW w \in waiters PROVE ~ToldOfError(w)'
    BY <1>0, <2>2 DEF TypeOK
  <2>4. pump'.at = "send" =>
          pump'.cur \in waiters /\ pump'.rest \subseteq waiters /\ pump'.cur \notin pump'.rest
    BY <2>1 DEF PumpExited
  <2> QED BY <1>0, <2>2, <2>3, <2>4
<1>2. CASE PumpRead
  <2>1. ch' = ch /\ \A w \in waiters : ~ToldOfError(w)
    BY <1>2 DEF PumpRead, PumpReading, PumpExited
  <2>2. Head(inbox) \in Messages /\ Dispatch(Head(inbox)) /\ waiters \subseteq Waiters
    BY <1>2, HeadTailProperties DEF PumpRead, TypeOK
  <2>3. pump'.at = "send" =>
          pump'.cur \in waiters /\ pump'.rest \subseteq waiters /\ pump'.cur \notin pump'.rest
    <3>1. PICK m \in Messages : Dispatch(m)
      BY <2>2
    <3>2. \/ pump' = PumpReading \/ pump' = PumpBuffering(m)
          \/ /\ pump'.cur \in waiters /\ pump'.rest \subseteq waiters
             /\ pump'.cur \notin pump'.rest
      BY <2>2, <3>1, DispatchCases
    <3>3. PumpReading.at # "send" /\ PumpBuffering(m).at # "send"
      BY DEF PumpReading, PumpBuffering
    <3> QED BY <3>2, <3>3
  <2> QED BY <1>0, <2>1, <2>3
<1>3. CASE PumpSend
  <2>1. /\ pump.at = "send" /\ pump.cur \in waiters /\ pump.rest \subseteq waiters
        /\ pump.cur \notin pump.rest /\ waiters \subseteq Waiters
        /\ ch' = [ch EXCEPT ![pump.cur] = <<pump.ev>>]
    BY <1>3 DEF PumpSend, TypeOK
  <2>2. \/ pump.rest = {} /\ pump' = [at |-> pump.after]
        \/ /\ pump'.at = "send" /\ pump'.ev = pump.ev /\ pump'.cur \in pump.rest
           /\ pump'.rest = pump.rest \ {pump'.cur}
    BY <1>3, BroadcastTargets DEF PumpSend
  <2>3. pump.after \in {"read", "exit"} /\ pump.ev \in Events
    BY <2>1, PumpFields DEF TypeOK
  <2>4. pump'.at = "send" =>
          pump'.cur \in waiters /\ pump'.rest \subseteq waiters /\ pump'.cur \notin pump'.rest
    BY <2>1, <2>2, <2>3
  <2>5. \A w \in Waiters : ch'[w] = IF w = pump.cur THEN <<pump.ev>> ELSE ch[w]
    BY <2>1 DEF TypeOK
  <2>6. ASSUME NEW w \in waiters, ToldOfError(w)'
        PROVE  \/ pump' = PumpExited
               \/ /\ pump'.at = "send" /\ pump'.ev = DeadEvent
                  /\ w \notin {pump'.cur} \cup pump'.rest
    <3>1. CASE pump.ev = DeadEvent
      <4>1. pump.after = "exit"
        BY <2>1, <3>1 DEF DeadInv
      <4>2. w \notin pump.rest
        <5>1. CASE w = pump.cur
          BY <2>1, <5>1
        <5>2. CASE w # pump.cur
          BY <1>0, <2>1, <2>5, <2>6, <5>2 DEF PumpExited
        <5> QED BY <5>1, <5>2
      <4> QED BY <2>2, <3>1, <4>1, <4>2 DEF PumpExited
    <3>2. CASE pump.ev # DeadEvent
      <4>1. ToldOfError(w)
        BY <1>0, <2>1, <2>5, <2>6, <3>2
      <4> QED BY <2>1, <3>2, <4>1 DEF PumpExited
    <3> QED BY <3>1, <3>2
  <2> QED BY <1>0, <2>1, <2>4, <2>5, <2>6
<1>4. CASE PumpBuffer
  <2>1. ch' = ch /\ \A w \in waiters : ~ToldOfError(w)
    BY <1>4 DEF PumpBuffer, PumpExited
  <2>2. pump' = PumpReading
    BY <1>4 DEF PumpBuffer
  <2> QED BY <1>0, <2>1, <2>2 DEF PumpReading
<1> QED BY <1>1, <1>2, <1>3, <1>4 DEF Pump

LEMMA ToldNext == TypeOK /\ DeadInv /\ ToldOnce /\ [Next]_vars => ToldOnce'
<1> SUFFICES ASSUME TypeOK, DeadInv, ToldOnce, [Next]_vars PROVE ToldOnce'
  OBVIOUS
<1>1. ASSUME NEW m \in Messages, ClientSend(m) PROVE ToldOnce'
  BY <1>1 DEF ClientSend, hubVars, ToldOnce, ToldOfError
<1>2. CASE CloseChannel
  BY <1>2 DEF CloseChannel, hubVars, ToldOnce, ToldOfError
<1>3. CASE Finished \/ UNCHANGED vars
  BY <1>3 DEF Finished, vars, ToldOnce, ToldOfError
<1> QED BY <1>1, <1>2, <1>3, ToldGoroutine, ToldPump DEF Next

LEMMA GoesOn == TypeOK /\ DeliveryInv /\ ToldOnce => PumpGoesOn
<1> SUFFICES ASSUME TypeOK, DeliveryInv, ToldOnce, AnswersOnce,
                    pump.at = "send", ch[pump.cur] # <<>>, phase[pump.cur] # "blocked"
             PROVE  FALSE
  BY DEF PumpGoesOn
<1>1. PICK w \in waiters : w = pump.cur
  BY DEF ToldOnce
<1>2. w \in Waiters /\ phase[w] = "returned" /\ ~ToldOfError(w)
  <2>1. pump # PumpExited
    BY DEF PumpExited
  <2> QED
    BY <1>1, <2>1 DEF ToldOnce, TypeOK
<1>3. PICK k \in Messages : result[w] = MsgEvent(k)
  BY <1>2 DEF TypeOK, Events, ToldOfError
<1>4. PICK n \in Messages : ch[w] = <<MsgEvent(n)>>
  <2>1. PICK e \in Events : ch[w] = <<e>>
    BY <1>1, <1>2 DEF TypeOK
  <2> QED
    BY <1>2, <2>1 DEF Events, ToldOfError
<1>5. Resolved(k, w) /\ InChannel(n, w)
  BY <1>2, <1>3, <1>4 DEF Resolved, InChannel
<1>6. k \in sent /\ n \in sent
  BY <1>2, <1>5 DEF DeliveryInv, Sourced
<1>7. Matches(w, k) /\ Matches(w, n) /\ Type[n] # "cancel"
  BY <1>2, <1>5, <1>6, AddressableNotCancel DEF DeliveryInv, AnswersAreRouted, AnswersOnce
<1>8. k = n
  BY <1>2, <1>6, <1>7 DEF AnswersOnce
<1> QED
  BY <1>2, <1>5, <1>7, <1>8 DEF DeliveryInv, HeldOnce

(* The pump is never blocked for good by a client that answers once,       *)
(* whatever the order of answers, registrations and the end of the         *)
(* connection (dispatch, broadcastError, wait).                            *)
THEOREM PumpIsNotBlocked == Spec => []PumpGoesOn
<1>1. Init => DeadInv /\ ToldOnce
  BY DEF Init, DeadInv, DeadHubForgetsNoWaiter, ToldOnce, ToldOfError, PumpOff
<1> QED
  BY <1>1, DeadNext, ToldNext, GoesOn, TypeCorrect, DeliveryInvariant, PTL DEF Spec
=============================================================================
