---------------------------- MODULE ReactProofs ----------------------------
(***************************************************************************)
(* What the loop of a run tells: what of a model round is shown and kept,  *)
(* the todo list of the session, and the messages of the session: what a   *)
(* compaction leaves of them and what the next run loads back.             *)
(***************************************************************************)
EXTENDS ModelRound, Todo, Wire, Replay,
        FiniteSetTheorems, SequenceTheorems, WellFoundedInduction, TLAPS

-----------------------------------------------------------------------------
(* Numbers and orders.                                                     *)

\* The least of a set of numbers.
LEMMA Least ==
  ASSUME NEW S \in SUBSET Nat, NEW x \in S
  PROVE  \E n \in S : \A m \in S : n <= m
<1>1. IsWellFoundedOn(OpToRel(<, Nat), Nat)
  BY NatLessThanWellFounded
<1>2. PICK n \in S : \A m \in S : ~ (<<m, n>> \in OpToRel(<, Nat))
  BY <1>1, WFMin
<1>3. \A m \in S : ~ (m < n)
  BY <1>2 DEF OpToRel
<1> QED
  BY <1>3

\* R is a strict total order of S, and what of S is before i in it.
Orders(R, S) ==
  /\ \A i \in S : <<i, i>> \notin R
  /\ \A i, j \in S : i # j => <<i, j>> \in R \/ <<j, i>> \in R
  /\ \A i, j, k \in S : <<i, j>> \in R /\ <<j, k>> \in R => <<i, k>> \in R
Preceding(R, S, i) == {j \in S : <<j, i>> \in R}

\* A set that is totally ordered has one member at each place.
LEMMA Places ==
  ASSUME NEW S, IsFiniteSet(S), NEW R, Orders(R, S)
  PROVE  /\ Cardinality(S) \in Nat
         /\ \A n \in 1 .. Cardinality(S) : \E i \in S : Cardinality(Preceding(R, S, i)) = n - 1
         /\ \A i \in S : \E n \in 1 .. Cardinality(S) : Cardinality(Preceding(R, S, i)) = n - 1
         /\ \A i, k \in S : Cardinality(Preceding(R, S, i)) = Cardinality(Preceding(R, S, k)) => i = k
         /\ \A i, k \in S : <<i, k>> \in R => Cardinality(Preceding(R, S, i)) < Cardinality(Preceding(R, S, k))
<1> USE DEF Orders
<1> DEFINE below(i) == Preceding(R, S, i)
           place == [i \in S |-> Cardinality(below(i)) + 1]
<1>0. \A i \in S : below(i) = {j \in S : <<j, i>> \in R}
  BY DEF Preceding
<1> HIDE DEF below
<1>1. PICK size \in Nat : size = Cardinality(S)
  BY FS_CardinalityType
<1>2. ASSUME NEW T \in SUBSET S
      PROVE  IsFiniteSet(T) /\ Cardinality(T) \in Nat
  BY FS_Subset, FS_CardinalityType
<1>3. ASSUME NEW T \in SUBSET S, NEW U \in SUBSET T, NEW x \in T, x \notin U
      PROVE  Cardinality(U) < Cardinality(T)
  <2>1. IsFiniteSet(T) /\ Cardinality(T) \in Nat /\ Cardinality(U) \in Nat
    BY <1>2
  <2>2. Cardinality(U) <= Cardinality(T) /\ (Cardinality(T) = Cardinality(U) => T = U)
    BY <2>1, FS_Subset
  <2> QED
    BY <1>3, <2>1, <2>2
<1>4. ASSUME NEW i \in S
      PROVE  Cardinality(below(i)) \in Nat /\ Cardinality(below(i)) < size
  <2>1. below(i) \in SUBSET S /\ i \notin below(i)
    BY <1>0
  <2>2. Cardinality(below(i)) < Cardinality(S)
    BY <1>3, <2>1
  <2> QED
    BY <1>1, <1>2, <2>1, <2>2
<1>5. ASSUME NEW i \in S, NEW k \in S, <<i, k>> \in R
      PROVE  Cardinality(below(i)) < Cardinality(below(k))
  <2>1. below(i) \in SUBSET below(k) /\ i \in below(k) /\ i \notin below(i) /\ below(k) \in SUBSET S
    BY ZenonT(40), <1>0, <1>5
  <2> QED
    BY <1>3, <2>1
<1>6. \A i, k \in S : Cardinality(below(i)) = Cardinality(below(k)) => i = k
  <2> SUFFICES ASSUME NEW i \in S, NEW k \in S, Cardinality(below(i)) = Cardinality(below(k)), i # k
               PROVE  FALSE
    OBVIOUS
  <2>1. Cardinality(below(i)) \in Nat /\ Cardinality(below(k)) \in Nat
    BY <1>4
  <2>2. <<i, k>> \in R \/ <<k, i>> \in R
    OBVIOUS
  <2>3. Cardinality(below(i)) < Cardinality(below(k)) \/ Cardinality(below(k)) < Cardinality(below(i))
    BY <1>5, <2>2
  <2> QED
    BY <2>1, <2>3
<1>7. place \in Injection(S, 1 .. size)
  <2>1. \A i \in S : place[i] \in 1 .. size
    BY <1>4
  <2>2. place \in [S -> 1 .. size]
    BY <2>1
  <2>3. \A i, k \in S : place[i] = place[k] => i = k
    BY <1>4, <1>6
  <2> QED
    BY <2>2, <2>3 DEF Injection, IsInjective
<1>8. IsFiniteSet(1 .. size) /\ Cardinality(1 .. size) = size
  BY FS_Interval
<1>9. place \in Surjection(S, 1 .. size)
  BY <1>1, <1>7, <1>8, FS_Injection
<1>10. \A n \in 1 .. size : \E i \in S : place[i] = n
  BY <1>9 DEF Surjection
<1>11. \A n \in 1 .. size : \E i \in S : Cardinality(below(i)) = n - 1
  <2> SUFFICES ASSUME NEW n \in 1 .. size PROVE \E i \in S : Cardinality(below(i)) = n - 1
    OBVIOUS
  <2>1. PICK i \in S : place[i] = n
    BY <1>10
  <2>2. Cardinality(below(i)) + 1 = n /\ Cardinality(below(i)) \in Nat
    BY <1>4, <2>1
  <2>3. Cardinality(below(i)) = n - 1
    BY <2>2
  <2> QED
    BY <2>3
<1>12. \A i \in S : \E n \in 1 .. size : Cardinality(below(i)) = n - 1
  <2> SUFFICES ASSUME NEW i \in S PROVE \E n \in 1 .. size : Cardinality(below(i)) = n - 1
    OBVIOUS
  <2>1. Cardinality(below(i)) + 1 \in 1 .. size
    BY <1>4
  <2>2. Cardinality(below(i)) = (Cardinality(below(i)) + 1) - 1
    BY <1>4
  <2> QED
    BY <2>1, <2>2
<1> QED
  BY <1>1, <1>5, <1>6, <1>11, <1>12 DEF below
LEMMA EachPlace ==
  ASSUME NEW S, IsFiniteSet(S), NEW R, Orders(R, S)
  PROVE  \A n \in 1 .. Cardinality(S) : \E i \in S : Cardinality(Preceding(R, S, i)) = n - 1
BY Places

LEMMA RankGrows ==
  ASSUME NEW S, IsFiniteSet(S), NEW R, Orders(R, S)
  PROVE  \A i, k \in S : <<i, k>> \in R => Cardinality(Preceding(R, S, i)) < Cardinality(Preceding(R, S, k))
BY Places

LEMMA RankIsOnes ==
  ASSUME NEW S, IsFiniteSet(S), NEW R, Orders(R, S)
  PROVE  \A i, k \in S : Cardinality(Preceding(R, S, i)) = Cardinality(Preceding(R, S, k)) => i = k
BY Places

LEMMA RankIsPlace ==
  ASSUME NEW S, IsFiniteSet(S), NEW R, Orders(R, S)
  PROVE  \A i \in S : \E n \in 1 .. Cardinality(S) : Cardinality(Preceding(R, S, i)) = n - 1
BY Places

\* The sequence of the members of S in their places.
InPlaces(f, R, S) ==
  /\ f \in Seq(S) /\ DOMAIN f = 1 .. Len(f) /\ Len(f) = Cardinality(S)
  /\ \A m, n \in DOMAIN f : m < n => <<f[m], f[n]>> \in R
  /\ \A i \in S : \E n \in DOMAIN f : f[n] = i

LEMMA Ranked ==
  ASSUME NEW S, IsFiniteSet(S), NEW R, Orders(R, S), NEW f \in [1 .. Cardinality(S) -> S],
         \A n \in 1 .. Cardinality(S) : Cardinality(Preceding(R, S, f[n])) = n - 1
  PROVE  InPlaces(f, R, S)
<1>1. PICK size \in Nat : size = Cardinality(S)
  BY FS_CardinalityType
<1>2. f \in [1 .. size -> S]
  BY <1>1
<1>3. f \in Seq(S) /\ Len(f) = size /\ DOMAIN f = 1 .. size
  BY <1>1, <1>2
<1>4. /\ \A i, k \in S : Cardinality(Preceding(R, S, i)) = Cardinality(Preceding(R, S, k)) => i = k
      /\ \A i, k \in S : <<i, k>> \in R => Cardinality(Preceding(R, S, i)) < Cardinality(Preceding(R, S, k))
      /\ \A i \in S : \E n \in 1 .. Cardinality(S) : Cardinality(Preceding(R, S, i)) = n - 1
  BY RankGrows, RankIsOnes, RankIsPlace
<1>5. PICK rank : rank = [i \in S |-> Cardinality(Preceding(R, S, i))]
  OBVIOUS
<1>6. /\ \A n \in 1 .. size : f[n] \in S /\ rank[f[n]] = n - 1
      /\ \A i, k \in S : rank[i] = rank[k] => i = k
      /\ \A i, k \in S : <<i, k>> \in R => rank[i] < rank[k]
      /\ \A i \in S : \E n \in 1 .. size : rank[i] = n - 1
  BY <1>1, <1>4, <1>5
<1>7. ASSUME NEW m \in 1 .. size, NEW n \in 1 .. size, m < n PROVE <<f[m], f[n]>> \in R
  <2>1. rank[f[m]] = m - 1 /\ rank[f[n]] = n - 1 /\ f[m] \in S /\ f[n] \in S
    BY <1>6
  <2>2. f[m] # f[n]
    BY <1>1, <1>7, <2>1
  <2>3. ~(<<f[n], f[m]>> \in R)
    BY <1>1, <1>6, <1>7, <2>1
  <2> QED
    BY <2>1, <2>2, <2>3 DEF Orders
<1>8. ASSUME NEW i \in S PROVE \E n \in 1 .. size : f[n] = i
  <2>1. PICK n \in 1 .. size : rank[i] = n - 1
    BY <1>6
  <2>2. f[n] \in S /\ rank[f[n]] = rank[i]
    BY <1>6, <2>1
  <2>3. f[n] = i
    BY <1>6, <2>2
  <2> QED
    BY <2>3
<1> QED
  BY <1>1, <1>3, <1>7, <1>8 DEF InPlaces

-----------------------------------------------------------------------------
(* Model rounds.                                                           *)

Views == [thoughts : Seq(Deltas), text : Seq(Deltas)]

\* The types of the variables, but for the place in the order of the models.
RoundTypes ==
  /\ attempt \in Nat \ {0} /\ phase \in {"ask", "stream", "answered", "over"}
  /\ chunks \in Seq(Deltas \cup Finals) /\ taken \in 0..Len(chunks)
  /\ got \in Results /\ kept \in Results /\ view \in Views
  /\ cause \in Causes \cup {"none"} /\ outcome \in Outcomes

\* What is shown while the round is not decided: of the first model what has
\* been collected of it, of what the others were given up for nothing but
\* blanks.
ShownSoFar ==
  /\ phase = "ask" /\ attempt = 1 => view = Blank
  /\ phase = "stream" /\ attempt = 1 =>
       view.text = got.text /\ (got.reasoning = <<>> => view.thoughts = <<>>)
  /\ phase \in {"ask", "stream"} /\ attempt # 1 => OnlyBlanks(view.text) /\ view.thoughts = <<>>

RoundInv ==
  /\ ShownSoFar
  /\ got.thinking => got.reasoning # <<>>
  /\ outcome # "none" => phase = "over"
  /\ ShownIsTheAnswer /\ StoppedKeepsShown

LEMMA BlankResults ==
  /\ Nothing \in Results /\ Blank \in Views /\ IsBlank(Nothing)
  /\ Nothing.text = <<>> /\ Nothing.reasoning = <<>> /\ Nothing.thinking = FALSE
  /\ Blank.text = <<>> /\ Blank.thoughts = <<>> /\ OnlyBlanks(<<>>)
BY DEF Nothing, Blank, Results, Views, IsBlank, OnlyBlanks

LEMMA RoundTypeInit == RoundInit => RoundTypes
BY BlankResults DEF RoundInit, RoundTypes, Outcomes, Causes

LEMMA RoundInvInit == RoundInit => RoundInv
BY BlankResults DEF RoundInit, RoundInv, ShownSoFar, ShownIsTheAnswer, StoppedKeepsShown, Causes

\* One chunk: what is collected and what is shown of it.
LEMMA OneChunk ==
  ASSUME NEW g \in Results, NEW v \in Views, NEW c \in Deltas \cup Finals,
         c.how \notin {"error", "canceled"}, g.thinking => g.reasoning # <<>>
  PROVE  /\ Collected(g, c) \in Results /\ Shown(v, g, c) \in Views
         /\ Collected(g, c).thinking => Collected(g, c).reasoning # <<>>
         /\ v.text = g.text => Shown(v, g, c).text = Collected(g, c).text
         /\ Collected(g, c).reasoning = <<>> => g.reasoning = <<>>
         /\ Collected(g, c).reasoning = <<>> /\ v.thoughts = <<>> => Shown(v, g, c).thoughts = <<>>
<1>1. PICK reasoning \in Seq(Deltas), block \in Seq(Deltas), text \in Seq(Deltas),
           thinking \in BOOLEAN, saying \in BOOLEAN :
        /\ g.reasoning = reasoning /\ g.block = block /\ g.text = text
        /\ g.thinking = thinking /\ g.saying = saying
  BY DEF Results
<1>2. PICK thoughts \in Seq(Deltas), shown \in Seq(Deltas) : v.thoughts = thoughts /\ v.text = shown
  BY DEF Views
<1>3. CASE c.how = "think"
  <2>1. c \in Deltas
    BY <1>3 DEF Finals, Chunk
  <2>2. Append(reasoning, c) \in Seq(Deltas) /\ Append(reasoning, c) # <<>>
        /\ Append(block, c) \in Seq(Deltas) /\ Append(thoughts, c) \in Seq(Deltas)
    BY SMTT(20), <2>1
  <2>3. Collected(g, c) = [g EXCEPT !.reasoning = Append(reasoning, c), !.block = Append(block, c),
                                    !.thinking = TRUE]
    BY <1>1, <1>3 DEF Collected
  <2>4. Shown(v, g, c) = [v EXCEPT !.thoughts = Append(thoughts, c)]
    BY <1>2, <1>3 DEF Shown
  <2>5. Collected(g, c) \in Results /\ Collected(g, c).reasoning = Append(reasoning, c)
        /\ Collected(g, c).text = text
    BY <1>1, <2>2, <2>3 DEF Results
  <2>6. Shown(v, g, c) \in Views /\ Shown(v, g, c).text = shown
    BY <1>2, <2>2, <2>4 DEF Views
  <2> QED
    BY <1>1, <1>2, <2>2, <2>5, <2>6
<1>4. PICK u : u = ThoughtEnd(v, g)
  OBVIOUS
<1>5. u \in Views /\ u.text = shown /\ (reasoning = <<>> /\ thoughts = <<>> => u.thoughts = <<>>)
  BY <1>1, <1>2, <1>4 DEF ThoughtEnd, Views
<1>6. PICK d : d = CloseThought(g)
  OBVIOUS
<1>7. d \in Results /\ d.reasoning = reasoning /\ d.text = text /\ d.thinking = FALSE
  <2>1. d = [g EXCEPT !.thinking = FALSE, !.block = <<>>]
    BY <1>6 DEF CloseThought
  <2>2. <<>> \in Seq(Deltas)
    OBVIOUS
  <2>3. d \in Results
    BY <2>1, <2>2 DEF Results
  <2>4. d.reasoning = g.reasoning /\ d.text = g.text /\ d.thinking = FALSE
    BY <2>1 DEF Results
  <2> QED
    BY <1>1, <2>3, <2>4
<1>8. CASE c.how \in {"say", "blank"}
  <2>1. c \in Deltas
    BY <1>8 DEF Finals, Chunk
  <2>2. Append(text, c) \in Seq(Deltas) /\ Append(shown, c) \in Seq(Deltas)
    BY <2>1
  <2>3. PICK e : e = Collected(g, c)
    OBVIOUS
  <2>4. e = [d EXCEPT !.text = Append(text, c), !.saying = TRUE]
    BY <1>6, <1>7, <1>8, <2>3 DEF Collected
  <2>5. e \in Results /\ e.reasoning = reasoning /\ e.text = Append(text, c) /\ ~e.thinking
    BY <1>7, <2>2, <2>4 DEF Results
  <2>6. PICK s : s = Shown(v, g, c)
    OBVIOUS
  <2>7. s = [u EXCEPT !.text = Append(shown, c)]
    BY <1>4, <1>5, <1>8, <2>6 DEF Shown
  <2>8. s \in Views /\ s.text = Append(shown, c) /\ s.thoughts = u.thoughts
    BY <1>5, <2>2, <2>7 DEF Views
  <2> QED
    BY <1>1, <1>2, <1>5, <2>3, <2>5, <2>6, <2>8
<1>9. CASE c.how \in {"done", "stopped"}
  <2>1. c \in Finals
    BY <1>9 DEF Deltas, Chunk
  <2>9. c.calls \in BOOLEAN
    <3>1. \A how : \A b \in BOOLEAN : Chunk(how, b).calls = b
      BY DEF Chunk
    <3>2. \E how : \E b \in BOOLEAN : c = Chunk(how, b)
      BY <2>1, Zenon DEF Finals
    <3> QED
      BY <3>1, <3>2
  <2>2. PICK asks \in BOOLEAN, ended \in BOOLEAN : asks = c.calls /\ ended = (c.how = "stopped")
    BY <2>9
  <2>3. PICK e : e = Collected(g, c)
    OBVIOUS
  <2>4. e = [d EXCEPT !.saying = FALSE, !.calls = asks, !.done = TRUE, !.stopped = ended]
    BY <1>6, <1>9, <2>2, <2>3 DEF Collected
  <2>5. e \in Results /\ e.reasoning = reasoning /\ e.text = text /\ ~e.thinking
    BY <1>7, <2>2, <2>4 DEF Results
  <2>6. PICK s : s = Shown(v, g, c)
    OBVIOUS
  <2>7. s = IF saying THEN [u EXCEPT !.text = text] ELSE u
    BY <1>1, <1>4, <1>9, <2>6 DEF Shown, ContentEnd
  <2>8. s \in Views /\ s.thoughts = u.thoughts /\ (shown = text => s.text = text)
    BY <1>5, <2>7 DEF Views
  <2> QED
    BY <1>1, <1>2, <1>5, <2>3, <2>5, <2>6, <2>8
<1>10. c.how \in {"think", "say", "blank", "done", "stopped"}
  BY DEF Deltas, Finals, Chunk
<1> QED
  BY <1>3, <1>8, <1>9, <1>10

LEMMA Same == \A s \in Seq(Deltas) : IsPrefix(s, s)
BY DEF IsPrefix

\* A model is given up: the run ends, or the next one is asked.
LEMMA GivenUp ==
  ASSUME RoundTypes, RoundInv, NEW g \in Results, AttemptFails(g), phase \in {"ask", "stream"},
         UNCHANGED <<chunks, got, cause>>, taken' \in 0..Len(chunks),
         IsBlank(g) => OnlyBlanks(view.text) /\ view.thoughts = <<>>
  PROVE  RoundTypes' /\ RoundInv'
<1>0. outcome = "none" /\ attempt + 1 \in Nat \ {0} /\ attempt + 1 # 1
  BY DEF RoundTypes, RoundInv
<1>1. ASSUME NEW how \in {"failed", "unsent"}, Broken(how), UNCHANGED <<attempt, view>>
      PROVE  RoundTypes' /\ RoundInv'
  <2>1. phase' = "over" /\ outcome' = how /\ kept' = kept
    BY <1>1 DEF Broken
  <2>2. RoundTypes'
    BY <1>1, <2>1 DEF RoundTypes, Outcomes
  <2>3. RoundInv'
    BY <1>1, <2>1 DEF RoundInv, ShownSoFar, ShownIsTheAnswer, StoppedKeepsShown, Causes
  <2> QED
    BY <2>2, <2>3
<1>2. ASSUME attempt' = attempt + 1, phase' = "ask", view' = IF Reset(g) THEN Blank ELSE view,
             UNCHANGED <<outcome, kept>>
      PROVE  RoundTypes' /\ RoundInv'
  <2>1. view' \in Views /\ OnlyBlanks(view'.text) /\ view'.thoughts = <<>>
    BY <1>2, BlankResults DEF Reset, RoundTypes
  <2>2. RoundTypes'
    BY <1>0, <1>2, <2>1 DEF RoundTypes
  <2>3. RoundInv'
    BY <1>0, <1>2, <2>1 DEF RoundInv, ShownSoFar, ShownIsTheAnswer, StoppedKeepsShown, Causes
  <2> QED
    BY <2>2, <2>3
<1> QED
  BY <1>1, <1>2 DEF AttemptFails

\* A round is interrupted: what came is kept, if it is anything.
LEMMA Cut ==
  ASSUME RoundTypes, RoundInv, NEW g \in Results, NEW how \in Causes \cup {"none"}, Interrupted(how, g),
         attempt' = attempt, chunks' = chunks, taken' \in 0..Len(chunks), cause' = cause,
         got' \in Results, got'.thinking => got'.reasoning # <<>>,
         view' \in Views, OnlyBlanks(view'.text) \/ view'.text = g.text
  PROVE  RoundTypes' /\ RoundInv'
<1>1. phase' = "over" /\ outcome' = how /\ kept' = IF IsBlank(g) THEN kept ELSE g
  BY DEF Interrupted
<1>2. RoundTypes'
  BY <1>1 DEF RoundTypes, Outcomes
<1>3. OnlyBlanks(view'.text) \/ IsPrefix(view'.text, kept'.text)
  <2>1. g.text \in Seq(Deltas)
    BY DEF Results
  <2>2. CASE IsBlank(g)
    BY <2>2 DEF IsBlank
  <2>3. CASE ~IsBlank(g)
    BY <1>1, <2>1, <2>3, Same
  <2> QED
    BY <2>2, <2>3
<1>4. RoundInv'
  BY <1>1, <1>3 DEF RoundInv, ShownSoFar, ShownIsTheAnswer, StoppedKeepsShown
<1> QED
  BY <1>2, <1>4

\* What is on the page when a round is given up or interrupted.
LEMMA OnThePage ==
  ASSUME RoundTypes, RoundInv
  PROVE  /\ phase = "ask" => OnlyBlanks(view.text) /\ view.thoughts = <<>>
         /\ phase = "stream" => /\ OnlyBlanks(view.text) \/ view.text = got.text
                                /\ IsBlank(got) => OnlyBlanks(view.text) /\ view.thoughts = <<>>
BY BlankResults DEF RoundInv, ShownSoFar, IsBlank

LEMMA RoundAsks ==
  ASSUME RoundTypes, RoundInv, NoClient \/ RequestFails \/ Opens
  PROVE  RoundTypes' /\ RoundInv'
<1>1. phase = "ask" /\ taken \in 0..Len(chunks)
  BY DEF NoClient, RequestFails, Opens, RoundTypes
<1>2. OnlyBlanks(view.text) /\ view.thoughts = <<>>
  BY <1>1, OnThePage
<1>3. CASE AttemptFails(Nothing) /\ UNCHANGED <<chunks, taken, got, cause>>
  BY <1>1, <1>2, <1>3, GivenUp, BlankResults
<1>4. CASE /\ cause # "none" /\ Interrupted(cause, Nothing)
           /\ UNCHANGED <<attempt, view, chunks, taken, got, cause>>
  <2>1. cause \in Causes /\ got \in Results /\ view \in Views
    BY <1>4 DEF RoundTypes
  <2>2. got.thinking => got.reasoning # <<>>
    BY DEF RoundInv
  <2> QED
    BY <1>1, <1>2, <1>4, <2>1, <2>2, Cut, BlankResults
<1>5. CASE Opens
  <2>1. /\ phase' = "stream" /\ got' = Nothing /\ chunks' = <<>> /\ taken' = 0
        /\ UNCHANGED <<attempt, view, cause, outcome, kept>>
    BY <1>5 DEF Opens
  <2>2. RoundTypes'
    BY <2>1, BlankResults DEF RoundTypes
  <2>3. RoundInv'
    BY <1>1, <2>1, BlankResults
      DEF RoundInv, ShownSoFar, ShownIsTheAnswer, StoppedKeepsShown
  <2> QED
    BY <2>2, <2>3
<1> QED
  BY <1>3, <1>4, <1>5 DEF NoClient, RequestFails, stream

\* The next chunk, and what its collection makes of the attempt.
LEMMA NextChunk ==
  ASSUME RoundTypes, RoundInv, phase = "stream", taken < Len(chunks),
         chunks[taken + 1].how \notin {"error", "canceled"}
  PROVE  LET g == Collected(got, chunks[taken + 1])
             v == Shown(view, got, chunks[taken + 1])
         IN  /\ taken + 1 \in 0..Len(chunks)
             /\ g \in Results /\ v \in Views /\ (g.thinking => g.reasoning # <<>>)
             /\ attempt = 1 => v.text = g.text /\ (g.reasoning = <<>> => v.thoughts = <<>>)
<1>1. PICK c \in Deltas \cup Finals : c = chunks[taken + 1]
  BY DEF RoundTypes
<1>2. taken + 1 \in 0..Len(chunks)
  BY DEF RoundTypes
<1>3. /\ got \in Results /\ view \in Views /\ (got.thinking => got.reasoning # <<>>)
      /\ attempt = 1 => view.text = got.text /\ (got.reasoning = <<>> => view.thoughts = <<>>)
  BY DEF RoundTypes, RoundInv, ShownSoFar
<1>4. PICK g, v : g = Collected(got, c) /\ v = Shown(view, got, c)
  OBVIOUS
<1>5. /\ g \in Results /\ v \in Views /\ (g.thinking => g.reasoning # <<>>)
      /\ view.text = got.text => v.text = g.text
      /\ g.reasoning = <<>> => got.reasoning = <<>>
      /\ g.reasoning = <<>> /\ view.thoughts = <<>> => v.thoughts = <<>>
  BY <1>1, <1>3, <1>4, OneChunk
<1> QED
  BY <1>1, <1>2, <1>3, <1>4, <1>5

LEMMA RoundCollects ==
  ASSUME RoundTypes, RoundInv, Collects \/ CollectsError \/ Unsent \/ Idle
  PROVE  RoundTypes' /\ RoundInv'
<1>1. phase = "stream" /\ taken \in 0..Len(chunks) /\ got \in Results
      /\ view \in Views /\ (got.thinking => got.reasoning # <<>>) /\ outcome = "none"
  BY DEF Collects, CollectsError, Unsent, Idle, Streaming, RoundTypes, RoundInv
<1>2. CASE Collects
  <2>1. PICK c : c = chunks[taken + 1]
    OBVIOUS
  <2>2. PICK g, v : g = Collected(got, c) /\ v = Shown(view, got, c)
    OBVIOUS
  <2>3. /\ taken < Len(chunks) /\ c.how \notin {"error", "canceled"}
        /\ taken' = taken + 1 /\ got' = g /\ view' = IF attempt = 1 THEN v ELSE view
        /\ IF c.how = "stopped" THEN Interrupted("cancelled", g)
           ELSE UNCHANGED <<phase, outcome, kept, tokens>>
        /\ UNCHANGED <<attempt, chunks, cause>>
    BY <1>2, <2>1, <2>2 DEF Collects, Live
  <2>4. /\ taken + 1 \in 0..Len(chunks)
        /\ g \in Results /\ v \in Views /\ (g.thinking => g.reasoning # <<>>)
        /\ attempt = 1 => v.text = g.text /\ (g.reasoning = <<>> => v.thoughts = <<>>)
    BY <1>1, <2>1, <2>2, <2>3, NextChunk
  <2>5. attempt # 1 => OnlyBlanks(view.text) /\ view.thoughts = <<>>
    BY <1>1 DEF RoundInv, ShownSoFar
  <2>6. view' \in Views /\ taken' \in 0..Len(chunks)
    BY <1>1, <2>3, <2>4
  <2>7. CASE c.how = "stopped"
    <3>1. OnlyBlanks(view'.text) \/ view'.text = g.text
      BY <2>3, <2>4, <2>5
    <3>2. "cancelled" \in Causes \cup {"none"}
      BY DEF Causes
    <3>3. Interrupted("cancelled", g)
      BY <2>3, <2>7
    <3> QED
      BY <2>3, <2>4, <2>6, <3>1, <3>2, <3>3, Cut
  <2>8. CASE c.how # "stopped"
    <3>1. UNCHANGED <<phase, outcome, kept>>
      BY <2>3, <2>8
    <3>2. RoundTypes'
      BY <2>3, <2>4, <2>6, <3>1 DEF RoundTypes
    <3>3. RoundInv'
      BY <1>1, <2>3, <2>4, <2>5, <3>1
        DEF RoundInv, ShownSoFar, ShownIsTheAnswer, StoppedKeepsShown, Causes
    <3> QED
      BY <3>2, <3>3
  <2> QED
    BY <2>7, <2>8
<1>3. CASE CollectsError
  <2>1. taken' = taken + 1 /\ taken < Len(chunks) /\ UNCHANGED <<chunks, got, cause>>
    BY <1>3 DEF CollectsError
  <2>2. taken' \in 0..Len(chunks)
    BY <1>1, <2>1 DEF RoundTypes
  <2>3. CASE AttemptFails(got)
    BY <1>1, <2>1, <2>2, <2>3, GivenUp, OnThePage
  <2>4. CASE Interrupted(cause, got) /\ UNCHANGED <<attempt, view>>
    <3>1. cause \in Causes \cup {"none"}
      BY DEF RoundTypes
    <3> QED
      BY <1>1, <2>1, <2>2, <2>4, <3>1, Cut, OnThePage
  <2> QED
    BY <1>3, <2>3, <2>4 DEF CollectsError
<1>4. CASE Idle
  <2>1. AttemptFails(got) /\ UNCHANGED <<chunks, taken, got, cause>>
    BY <1>4 DEF Idle, stream
  <2> QED
    BY <1>1, <2>1, GivenUp, OnThePage
<1>5. CASE Unsent
  <2>1. PICK g : g = Collected(got, chunks[taken + 1])
    OBVIOUS
  <2>2. /\ taken < Len(chunks) /\ chunks[taken + 1].how \notin {"error", "canceled"}
        /\ taken' = taken + 1 /\ got' = g /\ phase' = "over" /\ outcome' = "unsent"
        /\ UNCHANGED <<attempt, chunks, view, cause, kept>>
    BY <1>5, <2>1 DEF Unsent, Broken
  <2>3. taken + 1 \in 0..Len(chunks) /\ g \in Results /\ (g.thinking => g.reasoning # <<>>)
    BY <1>1, <2>1, <2>2, NextChunk
  <2>4. RoundTypes'
    BY <2>2, <2>3 DEF RoundTypes, Outcomes
  <2>5. RoundInv'
    BY <2>2, <2>3 DEF RoundInv, ShownSoFar, ShownIsTheAnswer, StoppedKeepsShown, Causes
  <2> QED
    BY <2>4, <2>5
<1> QED
  BY <1>2, <1>3, <1>4, <1>5

LEMMA RoundAnswers ==
  ASSUME RoundTypes, RoundInv, Answered \/ ReplayUnsent
  PROVE  RoundTypes' /\ RoundInv'
<1>1. phase = "stream" /\ got \in Results /\ view \in Views /\ (got.thinking => got.reasoning # <<>>)
      /\ outcome = "none" /\ taken \in 0..Len(chunks)
  BY DEF Answered, ReplayUnsent, Streaming, RoundTypes, RoundInv
<1>2. CASE Answered /\ cause # "none"
  <2>1. Interrupted(cause, got) /\ UNCHANGED <<attempt, chunks, taken, got, view, cause>>
    BY <1>2 DEF Answered, stream
  <2>2. cause \in Causes \cup {"none"}
    BY DEF RoundTypes
  <2> QED
    BY <1>1, <2>1, <2>2, Cut, OnThePage
<1>3. CASE Answered /\ cause = "none"
  <2>1. /\ phase' = "answered" /\ kept' = got
        /\ view' = IF attempt = 1 THEN view ELSE Replayed(view, got)
        /\ UNCHANGED <<attempt, chunks, taken, got, cause, outcome>>
    BY <1>3 DEF Answered, Live, stream
  <2>2. PICK v : v = Replayed(view, got)
    OBVIOUS
  <2>3. v \in Views
    BY <1>1, <2>2 DEF Replayed, Views, Results
  <2>4. /\ v.text = IF got.text # <<>> THEN got.text ELSE view.text
        /\ v.thoughts = IF got.reasoning # <<>> THEN got.reasoning ELSE view.thoughts
    BY <2>2 DEF Replayed
  <2>5. RoundTypes'
    BY <1>1, <2>1, <2>2, <2>3 DEF RoundTypes
  <2>6. /\ view'.text = got.text \/ OnlyBlanks(view'.text \o got.text)
        /\ got.reasoning = <<>> => view'.thoughts = <<>>
    <3>1. CASE attempt = 1
      BY <1>1, <2>1, <3>1 DEF RoundInv, ShownSoFar
    <3>2. CASE attempt # 1
      <4>1. OnlyBlanks(view.text) /\ view.thoughts = <<>>
        BY <1>1, <3>2 DEF RoundInv, ShownSoFar
      <4>2. CASE got.text # <<>>
        BY <2>1, <2>2, <2>4, <3>2, <4>1, <4>2
      <4>3. CASE got.text = <<>>
        <5>1. view'.text = view.text
          BY <2>1, <2>2, <2>4, <3>2, <4>3
        <5>2. view.text \o <<>> = view.text
          BY <1>1 DEF Views
        <5>3. got.reasoning = <<>> => view'.thoughts = <<>>
          BY <2>1, <2>2, <2>4, <3>2, <4>1
        <5> QED
          BY <4>1, <4>3, <5>1, <5>2, <5>3
      <4> QED
        BY <4>2, <4>3
    <3> QED
      BY <3>1, <3>2
  <2>7. RoundInv'
    BY <1>1, <2>1, <2>6 DEF RoundInv, ShownSoFar, ShownIsTheAnswer, StoppedKeepsShown, Causes
  <2> QED
    BY <2>5, <2>7
<1>4. CASE ReplayUnsent
  <2>1. /\ phase' = "over" /\ outcome' = "unsent"
        /\ UNCHANGED <<attempt, chunks, taken, got, view, cause, kept>>
    BY <1>4 DEF ReplayUnsent, Broken, stream
  <2>2. RoundTypes'
    BY <2>1 DEF RoundTypes, Outcomes
  <2>3. RoundInv'
    BY <2>1 DEF RoundInv, ShownSoFar, ShownIsTheAnswer, StoppedKeepsShown, Causes
  <2> QED
    BY <2>2, <2>3
<1> QED
  BY <1>2, <1>3, <1>4

\* The other steps: the provider, the loop of the run and its user.
LEMMA RoundGoesOn ==
  ASSUME RoundTypes, RoundInv, Puts \/ NextRound \/ Finish \/ Cancel
  PROVE  RoundTypes' /\ RoundInv'
<1>1. CASE Puts
  <2>1. /\ UNCHANGED <<attempt, phase, taken, got, view, cause, outcome, kept>>
        /\ \/ \E c \in Deltas \cup Finals : chunks' = Append(chunks, c)
           \/ chunks' = chunks
    BY <1>1 DEF Puts, Stream!Put, Stream!CloseChannel
  <2>2. chunks' \in Seq(Deltas \cup Finals) /\ taken \in 0..Len(chunks')
    BY <2>1 DEF RoundTypes
  <2>3. RoundTypes'
    BY <2>1, <2>2 DEF RoundTypes
  <2>4. RoundInv'
    BY <2>1 DEF RoundInv, ShownSoFar, ShownIsTheAnswer, StoppedKeepsShown
  <2> QED
    BY <2>3, <2>4
<1>2. CASE NextRound
  <2>1. /\ phase = "answered" /\ attempt' = 1 /\ phase' = "ask" /\ view' = Blank
        /\ UNCHANGED <<chunks, taken, got, cause, outcome, kept>>
    BY <1>2 DEF NextRound, stream
  <2>2. RoundTypes'
    BY <2>1, BlankResults DEF RoundTypes
  <2>3. RoundInv'
    BY <2>1 DEF RoundInv, ShownSoFar, ShownIsTheAnswer, StoppedKeepsShown, Causes
  <2> QED
    BY <2>2, <2>3
<1>3. CASE Finish
  <2>1. /\ phase' = "over" /\ outcome' \in {"failed", "finished"}
        /\ UNCHANGED <<attempt, chunks, taken, got, view, cause, kept>>
    BY <1>3 DEF Finish, stream
  <2>2. RoundTypes'
    BY <2>1 DEF RoundTypes, Outcomes
  <2>3. RoundInv'
    BY <2>1 DEF RoundInv, ShownSoFar, ShownIsTheAnswer, StoppedKeepsShown, Causes
  <2> QED
    BY <2>2, <2>3
<1>4. CASE Cancel
  <2>1. /\ cause' \in Causes
        /\ UNCHANGED <<attempt, phase, chunks, taken, got, view, outcome, kept>>
    BY <1>4 DEF Cancel, stream
  <2>2. RoundTypes'
    BY <2>1 DEF RoundTypes
  <2>3. RoundInv'
    BY <2>1 DEF RoundInv, ShownSoFar, ShownIsTheAnswer, StoppedKeepsShown
  <2> QED
    BY <2>2, <2>3
<1> QED
  BY <1>1, <1>2, <1>3, <1>4

LEMMA RoundStep == RoundTypes /\ RoundInv /\ [RoundNext]_roundVars => RoundTypes' /\ RoundInv'
<1> SUFFICES ASSUME RoundTypes, RoundInv, [RoundNext]_roundVars PROVE RoundTypes' /\ RoundInv'
  OBVIOUS
<1>1. CASE UNCHANGED roundVars
  <2>1. UNCHANGED <<attempt, phase, chunks, taken, got, view, cause, outcome, kept>>
    BY <1>1 DEF roundVars, stream
  <2> QED
    BY <2>1 DEF RoundTypes, RoundInv, ShownSoFar, ShownIsTheAnswer, StoppedKeepsShown
<1>2. CASE RoundNext
  BY <1>2, RoundAsks, RoundCollects, RoundAnswers, RoundGoesOn DEF RoundNext, Engine
<1> QED
  BY <1>1, <1>2

LEMMA RoundAlways == RoundSpec => [](RoundTypes /\ RoundInv)
<1>1. RoundInit => RoundTypes /\ RoundInv
  BY RoundTypeInit, RoundInvInit
<1>2. RoundTypes /\ RoundInv /\ [RoundNext]_roundVars => (RoundTypes /\ RoundInv)'
  BY RoundStep
<1> QED
  BY <1>1, <1>2, PTL DEF RoundSpec

\* What the browser shows of an answered round is the answer, whichever models
\* were asked before the one that gave it, and wherever they broke.
THEOREM AnswerIsShown == RoundSpec => []ShownIsTheAnswer
<1>1. RoundTypes /\ RoundInv => ShownIsTheAnswer
  BY DEF RoundInv
<1> QED
  BY <1>1, RoundAlways, PTL

\* Whatever the moment at which a run is stopped, what its user saw is kept.
THEOREM ShownIsKept == RoundSpec => []StoppedKeepsShown
<1>1. RoundTypes /\ RoundInv => StoppedKeepsShown
  BY DEF RoundInv
<1> QED
  BY <1>1, RoundAlways, PTL

\* The tokens of a round.  A stream has one final chunk, the last of it, and is
\* closed after it; while it is read, an answer that has ended is not counted.
TokensInv ==
  /\ tokens \in [spent : Nat, counted : Nat] /\ tokens.counted <= tokens.spent
  /\ \A i \in 1..Len(chunks) : (chunks[i] \in Finals => i = Len(chunks))
  /\ closed => Stream!HasFinal
  /\ phase = "stream" /\ Stream!HasFinal => tokens.counted < tokens.spent

\* The row of a run counts no token twice and none that was not spent, although
\* an answer is counted where it ends and where the run is interrupted
\* (engine.go, addTokenUsage and persistPartialAssistant), after models that
\* were given up and whatever comes between the last chunk and its reading.
\* That it may count less is what TokensAreCounted is about.
NothingCountedTwice == tokens.counted <= tokens.spent

LEMMA NotCounted ==
  ASSUME TokensInv, UNCHANGED <<chunks, closed, tokens>>, phase' = phase \/ phase' # "stream"
  PROVE  TokensInv'
BY DEF TokensInv, Stream!HasFinal

LEMMA CountedOnce ==
  ASSUME TokensInv, phase = "stream", Stream!HasFinal, phase' # "stream", UNCHANGED <<chunks, closed>>,
         \/ tokens' = tokens
         \/ tokens' = [tokens EXCEPT !.counted = @ + 1]
  PROVE  TokensInv'
<1>1. PICK spent \in Nat, counted \in Nat : tokens = [spent |-> spent, counted |-> counted]
  BY DEF TokensInv
<1>2. counted < spent
  BY <1>1 DEF TokensInv
<1>3. tokens' = tokens \/ tokens' = [spent |-> spent, counted |-> counted + 1]
  BY <1>1
<1>4. tokens' \in [spent : Nat, counted : Nat] /\ tokens'.counted <= tokens'.spent
  BY <1>1, <1>2, <1>3
<1> QED
  BY <1>4 DEF TokensInv, Stream!HasFinal

\* A chunk that ends a stream is the last one that is read.
LEMMA LastRead ==
  ASSUME RoundTypes, TokensInv, taken < Len(chunks),
         chunks[taken + 1].how \in {"stopped", "canceled"}
  PROVE  Stream!HasFinal
<1>1. taken + 1 \in 1..Len(chunks) /\ chunks[taken + 1] \in Deltas \cup Finals /\ Len(chunks) \in Nat
  BY DEF RoundTypes
<1>2. chunks[taken + 1] \in Finals
  BY <1>1 DEF Deltas, Chunk
<1>3. taken + 1 = Len(chunks)
  BY <1>1, <1>2 DEF TokensInv
<1> QED
  BY <1>1, <1>2, <1>3 DEF Stream!HasFinal

LEMMA TokensPut ==
  ASSUME RoundTypes, TokensInv, Puts
  PROVE  TokensInv'
<1>1. PICK spent \in Nat, counted \in Nat : tokens = [spent |-> spent, counted |-> counted]
  BY DEF TokensInv
<1>2. PICK n \in Nat : n = Len(chunks)
  BY DEF RoundTypes
<1>3. phase' = phase /\ phase = "stream" /\ counted <= spent /\ chunks \in Seq(Deltas \cup Finals)
  BY <1>1 DEF Puts, TokensInv, RoundTypes
<1>4. ASSUME NEW c \in Deltas \cup Finals, Stream!Put(c)
      PROVE  /\ \A i \in 1..Len(chunks') : (chunks'[i] \in Finals => i = Len(chunks'))
             /\ chunks'[Len(chunks')] = c /\ ~closed'
  <2>1. chunks' = Append(chunks, c) /\ ~closed' /\ ~Stream!HasFinal
    BY <1>4 DEF Stream!Put
  <2>2. /\ Len(chunks') = n + 1 /\ chunks'[n + 1] = c
        /\ \A i \in 1..n : chunks'[i] = chunks[i]
    BY <1>2, <1>3, <2>1
  <2>3. \A i \in 1..n : chunks[i] \notin Finals
    <3> SUFFICES ASSUME NEW i \in 1..n, chunks[i] \in Finals PROVE FALSE
      OBVIOUS
    <3>1. i = n
      BY <1>2 DEF TokensInv
    <3>2. chunks # <<>>
      BY <1>2, <1>3
    <3> QED
      BY <1>2, <2>1, <3>1, <3>2 DEF Stream!HasFinal
  <2>4. \A i \in 1..(n + 1) : i \in 1..n \/ i = n + 1
    BY <1>2
  <2> QED
    BY <2>1, <2>2, <2>3, <2>4
<1>5. CASE \E c \in Deltas : Stream!Put(c) /\ UNCHANGED tokens
  <2>1. PICK c \in Deltas : Stream!Put(c)
    BY <1>5
  <2>2. c \notin Finals
    BY DEF Deltas, Finals, Chunk
  <2>3. ~Stream!HasFinal' /\ ~closed'
    BY <1>4, <2>1, <2>2 DEF Stream!HasFinal
  <2> QED
    BY <1>4, <1>5, <2>1, <2>3 DEF TokensInv
<1>6. CASE \E c \in Finals : Stream!Put(c) /\ tokens' = [tokens EXCEPT !.spent = @ + 1]
  <2>1. PICK c \in Finals : Stream!Put(c)
    BY <1>6
  <2>2. tokens' = [spent |-> spent + 1, counted |-> counted]
    BY <1>1, <1>6
  <2>3. tokens' \in [spent : Nat, counted : Nat] /\ tokens'.counted <= tokens'.spent
        /\ tokens'.counted < tokens'.spent
    BY <1>3, <2>2
  <2> QED
    BY <1>4, <2>1, <2>3 DEF TokensInv
<1>7. CASE Stream!CloseChannel /\ UNCHANGED tokens
  <2>1. Stream!HasFinal /\ chunks' = chunks
    BY <1>7 DEF Stream!CloseChannel
  <2>2. Stream!HasFinal'
    BY <2>1 DEF Stream!HasFinal
  <2> QED
    BY <1>3, <1>7, <2>1, <2>2 DEF TokensInv
<1> QED
  BY <1>5, <1>6, <1>7 DEF Puts

LEMMA TokensStep ==
  ASSUME RoundTypes, TokensInv, [RoundNext]_roundVars
  PROVE  TokensInv'
<1>1. ASSUME NEW g, AttemptFails(g), UNCHANGED <<chunks, closed>> PROVE TokensInv'
  <2>1. tokens' = tokens /\ phase' \in {"over", "ask"}
    BY <1>1 DEF AttemptFails, Broken
  <2> QED
    BY <1>1, <2>1, NotCounted
<1>2. ASSUME NEW how, NEW g, Interrupted(how, g), UNCHANGED <<chunks, closed>>, phase = "stream", Stream!HasFinal
      PROVE  TokensInv'
  <2>1. phase' = "over" /\ (tokens' = tokens \/ tokens' = [tokens EXCEPT !.counted = @ + 1])
    BY <1>2 DEF Interrupted
  <2> QED
    BY <1>2, <2>1, CountedOnce
<1>3. CASE NoClient
  BY <1>1, <1>3 DEF NoClient, stream
<1>4. CASE RequestFails
  <2>1. CASE AttemptFails(Nothing)
    BY <1>1, <1>4, <2>1 DEF RequestFails, stream
  <2>2. CASE Interrupted(cause, Nothing)
    <3>1. ~Nothing.done /\ ~Nothing.stopped
      BY DEF Nothing
    <3>2. phase' = "over" /\ tokens' = tokens
      BY <2>2, <3>1 DEF Interrupted
    <3> QED
      BY <1>4, <3>2, NotCounted DEF RequestFails, stream
  <2> QED
    BY <1>4, <2>1, <2>2 DEF RequestFails
<1>5. CASE Opens
  <2>1. chunks' = <<>> /\ ~closed' /\ tokens' = tokens
    BY <1>5 DEF Opens
  <2>2. ~Stream!HasFinal'
    BY <2>1 DEF Stream!HasFinal
  <2>3. \A i \in 1..Len(chunks') : (chunks'[i] \in Finals => i = Len(chunks'))
    BY <2>1
  <2> QED
    BY <2>1, <2>2, <2>3 DEF TokensInv
<1>6. CASE Collects
  <2>1. phase = "stream" /\ taken < Len(chunks) /\ UNCHANGED <<chunks, closed>>
    BY <1>6 DEF Collects, Streaming
  <2>2. CASE chunks[taken + 1].how = "stopped"
    <3>1. Interrupted("cancelled", got')
      BY <1>6, <2>2 DEF Collects
    <3> QED
      BY <1>2, <2>1, <2>2, <3>1, LastRead
  <2>3. CASE chunks[taken + 1].how # "stopped"
    BY <1>6, <2>1, <2>3, NotCounted DEF Collects
  <2> QED
    BY <2>2, <2>3
<1>7. CASE CollectsError
  <2>1. phase = "stream" /\ taken < Len(chunks) /\ UNCHANGED <<chunks, closed>>
    BY <1>7 DEF CollectsError, Streaming
  <2>2. CASE AttemptFails(got)
    BY <1>1, <2>1, <2>2
  <2>3. CASE chunks[taken + 1].how = "canceled" /\ Interrupted(cause, got)
    BY <1>2, <2>1, <2>3, LastRead
  <2> QED
    BY <1>7, <2>2, <2>3 DEF CollectsError
<1>8. CASE Idle
  BY <1>1, <1>8 DEF Idle, stream
<1>9. CASE Unsent \/ ReplayUnsent
  BY <1>9, NotCounted DEF Unsent, ReplayUnsent, Broken, stream
<1>10. CASE Answered
  <2>1. phase = "stream" /\ Stream!HasFinal /\ UNCHANGED <<chunks, closed>>
    BY <1>10 DEF Answered, Streaming, TokensInv, stream
  <2>2. CASE Interrupted(cause, got)
    BY <1>2, <2>1, <2>2
  <2>3. CASE phase' = "answered" /\ tokens' = [tokens EXCEPT !.counted = @ + 1]
    BY <2>1, <2>3, CountedOnce
  <2> QED
    BY <1>10, <2>2, <2>3 DEF Answered
<1>11. CASE NextRound \/ Finish \/ Cancel
  BY <1>11, NotCounted DEF NextRound, Finish, Cancel, stream
<1>12. CASE UNCHANGED roundVars
  BY <1>12, NotCounted DEF roundVars, stream
<1> QED
  BY <1>3, <1>4, <1>5, <1>6, <1>7, <1>8, <1>9, <1>10, <1>11, <1>12, TokensPut DEF RoundNext, Engine

THEOREM NoTokenTwice == RoundSpec => []NothingCountedTwice
<1>1. RoundInit => TokensInv
  <2> SUFFICES ASSUME RoundInit PROVE TokensInv
    OBVIOUS
  <2>1. chunks = <<>> /\ ~closed /\ phase = "ask" /\ tokens = [spent |-> 0, counted |-> 0]
    BY DEF RoundInit
  <2>2. tokens \in [spent : Nat, counted : Nat] /\ tokens.counted <= tokens.spent
    BY <2>1
  <2> QED
    BY <2>1, <2>2 DEF TokensInv
<1>2. RoundTypes /\ TokensInv /\ [RoundNext]_roundVars => TokensInv'
  BY TokensStep
<1>3. TokensInv => NothingCountedTwice
  BY DEF TokensInv, NothingCountedTwice
<1> QED
  BY <1>1, <1>2, <1>3, RoundAlways, PTL DEF RoundSpec
-----------------------------------------------------------------------------
(* The todo list.                                                          *)

\* Items of a list, whole or not.
LEMMA ReadableType ==
  ASSUME NEW list \in Seq(Updates)
  PROVE  Readable(list) \in Seq(Updates)
<1> DEFINE whole == {i \in DOMAIN list : list[i].id # Absent /\ list[i].content # Absent}
           R == {p \in Nat \X Nat : p[1] < p[2]}
           Nth(n) == CHOOSE i \in whole : Cardinality({j \in whole : j < i}) = n - 1
<1>1. DOMAIN list = 1 .. Len(list) /\ Len(list) \in Nat
  OBVIOUS
<1>2. IsFiniteSet(whole) /\ whole \subseteq Nat
  <2>1. IsFiniteSet(DOMAIN list)
    BY <1>1, FS_Interval
  <2> QED
    BY <1>1, <2>1, FS_Subset
<1>3. \A i, j \in whole : <<j, i>> \in R <=> j < i
  BY <1>2
<1>4. \A i \in whole : Preceding(R, whole, i) = {j \in whole : j < i}
  BY <1>3 DEF Preceding
<1> HIDE DEF whole, R
<1>5. Orders(R, whole)
  BY <1>2, <1>3 DEF Orders
<1>6. PICK m \in Nat : m = Cardinality(whole)
  BY <1>2, FS_CardinalityType
<1>7. \A n \in 1 .. m : \E i \in whole : Cardinality(Preceding(R, whole, i)) = n - 1
  <2>1. IsFiniteSet(whole)
    BY <1>2
  <2>2. \A n \in 1 .. Cardinality(whole) : \E i \in whole : Cardinality(Preceding(R, whole, i)) = n - 1
    BY <1>5, <2>1, EachPlace
  <2> QED
    BY <1>6, <2>2
<1>8. ASSUME NEW n \in 1 .. m PROVE list[Nth(n)] \in Updates
  <2>1. \E i \in whole : Cardinality({j \in whole : j < i}) = n - 1
    BY <1>4, <1>7
  <2>2. Nth(n) \in whole
    BY <2>1
  <2> QED
    BY <2>2 DEF whole
<1>9. Readable(list) = [n \in 1 .. m |-> list[Nth(n)]]
  BY <1>6 DEF Readable, whole
<1> HIDE DEF Nth
<1>10. Readable(list) \in [1 .. m -> Updates]
  BY <1>8, <1>9
<1> QED
  BY <1>10

LEMMA MergeItemType ==
  ASSUME TodoAssumption, NEW list \in Seq(Updates), NEW u \in Updates
  PROVE  MergeItem(list, u) \in Seq(Updates) /\ MergeItem(list, u) # <<>>
<1>1. PICK n \in Nat : n = Len(list) /\ DOMAIN list = 1 .. n /\ \A i \in 1 .. n : list[i] \in Updates
  OBVIOUS
<1>2. Begun(u) \in Updates
  BY DEF Begun, Given, Updates, TodoAssumption
<1>3. ASSUME NEW item \in Updates PROVE Changed(item, u) \in Updates
  BY DEF Changed, Given, Updates
<1>4. CASE Knows(list, u.id)
  <2>1. n # 0
    BY <1>1, <1>4 DEF Knows
  <2>2. MergeItem(list, u) = [i \in 1 .. n |-> IF list[i].id = u.id THEN Changed(list[i], u) ELSE list[i]]
    BY <1>1, <1>4 DEF MergeItem
  <2>3. MergeItem(list, u) \in [1 .. n -> Updates]
    BY <1>1, <1>3, <2>2
  <2>4. MergeItem(list, u) \in Seq(Updates) /\ Len(MergeItem(list, u)) = n
    BY <2>3
  <2> QED
    BY <2>1, <2>4
<1>5. CASE ~Knows(list, u.id)
  <2>1. PICK b \in Updates : b = Begun(u)
    BY <1>2
  <2>2. MergeItem(list, u) = Append(list, b)
    BY <1>5, <2>1 DEF MergeItem
  <2>3. Append(list, b) \in Seq(Updates) /\ Len(Append(list, b)) = Len(list) + 1 /\ Len(list) \in Nat
    BY <2>1
  <2> QED
    BY <2>2, <2>3
<1> QED
  BY <1>4, <1>5

\* The lists after each item of a call.
After(f, list, patch, k) ==
  /\ f \in [0 .. k -> Seq(Updates)] /\ f[0] = list
  /\ \A n \in 1 .. k : f[n] = MergeItem(f[n - 1], patch[n])

LEMMA AfterExists ==
  ASSUME TodoAssumption, NEW list \in Seq(Updates), NEW patch \in Seq(Updates)
  PROVE  \A k \in 0 .. Len(patch) : \E f : After(f, list, patch, k)
<1> DEFINE Bad == {k \in 0 .. Len(patch) : ~\E f : After(f, list, patch, k)}
<1>0. PICK size \in Nat : size = Len(patch) /\ \A n \in 1 .. size : patch[n] \in Updates
  OBVIOUS
<1> SUFFICES ASSUME NEW x \in Bad PROVE FALSE
  OBVIOUS
<1>1. Bad \in SUBSET Nat
  BY <1>0
<1>2. PICK k \in Bad : \A m \in Bad : k <= m
  BY <1>1, Least
<1>3. k # 0
  <2>1. PICK f : f = [n \in 0 .. 0 |-> list]
    OBVIOUS
  <2>2. After(f, list, patch, 0)
    BY <2>1 DEF After
  <2> QED
    BY <2>2
<1>4. k - 1 \in 0 .. Len(patch) /\ k - 1 \in Nat /\ k \in 1 .. size
  BY <1>0, <1>3
<1>5. k - 1 \notin Bad
  BY <1>0, <1>2, <1>4
<1>6. PICK f : After(f, list, patch, k - 1)
  BY <1>4, <1>5
<1>7. PICK last : last = MergeItem(f[k - 1], patch[k])
  OBVIOUS
<1>8. last \in Seq(Updates)
  BY <1>0, <1>4, <1>6, <1>7, MergeItemType DEF After
<1>9. PICK g : g = [n \in 0 .. k |-> IF n = k THEN last ELSE f[n]]
  OBVIOUS
<1>10. After(g, list, patch, k)
  <2>1. g \in [0 .. k -> Seq(Updates)]
    BY <1>4, <1>6, <1>8, <1>9 DEF After
  <2>2. g[0] = list
    BY <1>4, <1>6, <1>9 DEF After
  <2>3. ASSUME NEW n \in 1 .. k PROVE g[n] = MergeItem(g[n - 1], patch[n])
    <3>1. g[n - 1] = f[n - 1]
      BY <1>4, <1>9
    <3>2. CASE n = k
      BY <1>7, <1>9, <3>1, <3>2
    <3>3. CASE n # k
      <4>1. n \in 1 .. k - 1 /\ g[n] = f[n]
        BY <1>4, <1>9, <3>3
      <4> QED
        BY <1>6, <3>1, <4>1 DEF After
    <3> QED
      BY <3>2, <3>3
  <2> QED
    BY <2>1, <2>2, <2>3 DEF After
<1> QED
  BY <1>10

LEMMA MergedType ==
  ASSUME TodoAssumption, NEW list \in Seq(Updates), NEW patch \in Seq(Updates), patch # <<>>
  PROVE  Merged(list, patch) \in Seq(Updates) /\ Merged(list, patch) # <<>>
<1>1. PICK size \in Nat : size = Len(patch) /\ size # 0 /\ \A n \in 1 .. size : patch[n] \in Updates
  OBVIOUS
<1>2. PICK f : After(f, list, patch, size)
  BY <1>1, AfterExists
<1> DEFINE fill(a) == [n \in 0 .. Len(patch) |-> IF n = 0 THEN list ELSE MergeItem(a[n - 1], patch[n])]
           after == CHOOSE a : a = fill(a)
<1>3. f = fill(f)
  <2>1. f = [n \in 0 .. size |-> f[n]]
    BY <1>2 DEF After
  <2>2. \A n \in 0 .. size : f[n] = IF n = 0 THEN list ELSE MergeItem(f[n - 1], patch[n])
    BY <1>2 DEF After
  <2> QED
    BY <1>1, <2>1, <2>2
<1>4. after = fill(after)
  BY <1>3
<1>5. PICK a : a = after /\ a = fill(a)
  BY <1>4
<1>6. Merged(list, patch) = a[size]
  BY <1>1, <1>5 DEF Merged
<1> HIDE DEF after
<1>7. ASSUME NEW n \in 0 .. size PROVE a[n] \in Seq(Updates)
  <2> DEFINE Bad == {k \in 0 .. size : a[k] \notin Seq(Updates)}
  <2> SUFFICES ASSUME NEW x \in Bad PROVE FALSE
    OBVIOUS
  <2>0. Bad \in SUBSET Nat
    OBVIOUS
  <2>1. PICK k \in Bad : \A m \in Bad : k <= m
    BY <2>0, Least
  <2>2. k # 0
    BY <1>1, <1>5
  <2>3. k - 1 \in 0 .. size /\ a[k - 1] \in Seq(Updates) /\ k \in 1 .. size
    BY <2>1, <2>2
  <2>4. a[k] = MergeItem(a[k - 1], patch[k])
    BY <1>1, <1>5, <2>2
  <2> QED
    BY <1>1, <2>3, <2>4, MergeItemType
<1>8. size - 1 \in 0 .. size /\ size \in 1 .. size /\ size \in 0 .. size
  BY <1>1
<1>9. a[size] = MergeItem(a[size - 1], patch[size])
  BY <1>1, <1>5, <1>8
<1>10. MergeItem(a[size - 1], patch[size]) # <<>>
  BY <1>1, <1>7, <1>8, MergeItemType
<1> QED
  BY <1>6, <1>7, <1>8, <1>9, <1>10

\* What a call makes of the list that it finds.
LEMMA AppliedType ==
  ASSUME TodoAssumption, NEW list \in Seq(Updates), NEW patch \in Patches, NEW merge \in BOOLEAN
  PROVE  /\ Applied(Readable(list), patch, merge) \in Seq(Updates)
         /\ Applied(Readable(list), patch, merge) # <<>>
<1>1. patch \in Seq(Updates) /\ patch # <<>>
  <2>1. PICK n \in 0 .. MaxPatch : patch \in [1 .. n -> Updates]
    BY DEF Patches, BoundedSeq, SeqOf
  <2>2. n \in Nat
    BY <2>1, TodoAssumption
  <2> QED
    BY <2>1, <2>2 DEF Patches
<1>2. Readable(list) \in Seq(Updates)
  BY ReadableType
<1>3. CASE merge
  BY <1>1, <1>2, <1>3, MergedType DEF Applied
<1>4. CASE ~merge
  <2>1. PICK n \in Nat : n = Len(patch) /\ n # 0 /\ DOMAIN patch = 1 .. n /\ \A i \in 1 .. n : patch[i] \in Updates
    BY <1>1
  <2>2. \A u \in Updates : Begun(u) \in Updates
    BY DEF Begun, Given, Updates, TodoAssumption
  <2>3. Replaced(patch) \in [1 .. n -> Updates]
    BY <2>1, <2>2 DEF Replaced
  <2>4. Replaced(patch) \in Seq(Updates) /\ Len(Replaced(patch)) = n
    BY <2>3
  <2> QED
    BY <1>4, <2>1, <2>4 DEF Applied
<1> QED
  BY <1>3, <1>4

TodoTypes ==
  /\ todos \in Seq(Updates) /\ saved \in Seq(Updates)
  /\ running \in BOOLEAN /\ unsaved \in BOOLEAN /\ unstored \in BOOLEAN

\* Results wait only in a run, and are then the list that the row and the browser
\* have; once they are stored, or were never given, the messages have that list.
TodoInv ==
  /\ ~running => told = <<>>
  /\ told # <<>> => told = saved /\ browser = saved
  /\ ~unstored => browser = saved
  /\ ~unstored /\ told = <<>> => recorded = saved
  /\ ~unsaved /\ running => todos = saved

LEMMA TodoBegins == ASSUME TodoInit PROVE TodoTypes /\ TodoInv
<1>1. <<>> \in Seq(Updates)
  OBVIOUS
<1> QED
  BY <1>1 DEF TodoInit, TodoTypes, TodoInv

LEMMA TodoStep ==
  ASSUME TodoAssumption, TodoTypes, TodoInv, [TodoNext]_todoVars
  PROVE  TodoTypes' /\ TodoInv'
<1> USE DEF TodoTypes, TodoInv
<1>1. CASE StartTodoRun
  BY <1>1 DEF StartTodoRun, RowOfRun
<1>2. CASE StoreResults
  BY <1>2 DEF StoreResults
<1>3. CASE EndTodoRun
  BY <1>3 DEF EndTodoRun
<1>4. CASE ReloadTodos
  BY <1>4 DEF ReloadTodos
<1>5. ASSUME NEW patch \in Patches, NEW merge \in BOOLEAN, WriteTodos(patch, merge)
      PROVE  TodoTypes' /\ TodoInv'
  <2>1. todos' \in Seq(Updates) /\ todos' # <<>> /\ running
    BY <1>5, AppliedType DEF WriteTodos, TodoCalls
  <2> QED
    BY <1>5, <2>1 DEF WriteTodos
<1>6. ASSUME NEW patch \in Patches, NEW merge \in BOOLEAN, SaveTodosFails(patch, merge)
      PROVE  TodoTypes' /\ TodoInv'
  <2>1. todos' \in Seq(Updates)
    BY <1>6, AppliedType DEF SaveTodosFails, TodoCalls
  <2> QED
    BY <1>6, <2>1 DEF SaveTodosFails
<1>7. CASE UNCHANGED todoVars
  BY <1>7 DEF todoVars
<1> QED
  BY <1>1, <1>2, <1>3, <1>4, <1>5, <1>6, <1>7 DEF TodoNext

\* The list of a session is the same wherever it is looked at, unless the last
\* save failed or a run ended before its results were stored: what the model is
\* reminded of, the row the next run begins with, the browser and the history.
THEOREM ListsAgree == TodoSpec => []TodosAgree
<1>1. TodoInit => TodoTypes /\ TodoInv
  BY TodoBegins
<1>2. TodoTypes /\ TodoInv /\ [TodoNext]_todoVars => (TodoTypes /\ TodoInv)'
  BY TodoAssumption, TodoStep
<1>3. TodoTypes /\ TodoInv => TodosAgree
  BY DEF TodoTypes, TodoInv, TodosAgree
<1> QED
  BY <1>1, <1>2, <1>3, PTL DEF TodoSpec

-----------------------------------------------------------------------------
(* The messages of a session.                                              *)

\* Of a set of numbers with a bound, Max is the greatest.
LEMMA Greatest ==
  ASSUME NEW b \in Nat, NEW S \in SUBSET (0..b), S # {}
  PROVE  Max(S) \in S /\ \A m \in S : m <= Max(S)
<1> DEFINE above == {n \in 0..b : \A m \in S : m <= n}
<1>1. b \in above /\ above \in SUBSET Nat
  OBVIOUS
<1>2. PICK n \in above : \A m \in above : n <= m
  BY <1>1, Least
<1>3. n \in S
  <2> SUFFICES ASSUME n \notin S PROVE FALSE
    OBVIOUS
  <2>1. PICK x \in S : x <= n
    BY <1>2
  <2>2. n - 1 \in above
    BY <1>2, <2>1
  <2> QED
    BY <1>2, <2>2
<1>4. \E x \in S : \A y \in S : x >= y
  BY <1>2, <1>3
<1>5. Max(S) \in S /\ \A y \in S : Max(S) >= y
  BY <1>4 DEF Max
<1> QED
  BY <1>5

Types == {"user_input", "assistant", "assistant_partial", "tool_result", "compact_summary"}
Rows ==
  {row \in [run : Runs, seq : Nat, type : Types, at : Nat, uses : Nat, for : Nat,
            answers : SUBSET Calls, covers : [Runs -> Nat], gist : SUBSET Nat] :
     row.type = "tool_result" <=> row.answers # {}}

IsSum(rs, s) == rs[s].type = "compact_summary"
IsRes(rs, j) == rs[j].type = "tool_result"

\* A number in its run is not above the key.
Numbered(rs) == \A i \in DOMAIN rs : rs[i].seq \in 1..i

\* The clock and the runs go on, and a run begins in a later second.
Timed(rs) ==
  \A i, j \in DOMAIN rs : i < j =>
    /\ rs[i].at <= rs[j].at /\ rs[i].run <= rs[j].run
    /\ rs[i].run < rs[j].run => rs[i].at < rs[j].at

\* The numbers of a run grow, but for the results of calls that were cut at
\* once: they come after everything in their run that is no result.
InTurn(rs) ==
  \A i, j \in DOMAIN rs : i < j /\ rs[i].run = rs[j].run /\ rs[j].seq <= rs[i].seq =>
    \A x \in DOMAIN rs : rs[x].run = rs[i].run /\ ~IsRes(rs, x) => x < i /\ rs[x].seq < rs[i].seq

\* A summary covers nothing that is stored with it or later.
CoversPast(rs) ==
  \A s \in DOMAIN rs : IsSum(rs, s) =>
    /\ \A i \in DOMAIN rs : s <= i => rs[s].covers[rs[i].run] < rs[i].seq
    /\ \A r \in Runs : r > rs[s].run => rs[s].covers[r] = 0

\* A result belongs to the message that asked for it: what is stored between
\* them are results of the same message, and each answers calls of its own.
ResultsOf(rs) ==
  \A j \in DOMAIN rs : IsRes(rs, j) =>
    LET a == rs[j].for IN
    /\ a \in 1..(j - 1) /\ rs[a].type = "assistant" /\ rs[a].run = rs[j].run /\ rs[a].seq < rs[j].seq
    /\ rs[a].uses > 0 /\ rs[j].answers \subseteq 1..rs[a].uses
    /\ \A l \in DOMAIN rs : a < l /\ l <= j => IsRes(rs, l) /\ rs[l].for = a
    /\ \A l \in DOMAIN rs : l # j /\ IsRes(rs, l) /\ rs[l].for = a => rs[l].answers \cap rs[j].answers = {}

\* A summary that covers a request covers its results.
CoversWhole(rs) ==
  \A s, j \in DOMAIN rs :
    IsSum(rs, s) /\ IsRes(rs, j) /\ rs[s].covers[rs[j].run] >= rs[rs[j].for].seq =>
      rs[s].covers[rs[j].run] >= rs[j].seq

StoreInv(rs) ==
  /\ rs \in Seq(Rows) /\ Numbered(rs) /\ Timed(rs) /\ InTurn(rs)
  /\ CoversPast(rs) /\ ResultsOf(rs) /\ CoversWhole(rs)

\* In run r no number is out of turn yet.
Straight(rs, r) ==
  \A i, j \in DOMAIN rs : i < j /\ rs[i].run = r /\ rs[j].run = r => rs[i].seq < rs[j].seq

\* What a row is to those before it.
Follows(rs, row) ==
  /\ row.seq \in 1..(Len(rs) + 1)
  /\ \A i \in DOMAIN rs :
       /\ rs[i].at <= row.at /\ rs[i].run <= row.run
       /\ rs[i].run < row.run => rs[i].at < row.at
Above(rs, row) == \A i \in DOMAIN rs : rs[i].run = row.run => rs[i].seq < row.seq
Unhidden(rs, row) == \A s \in DOMAIN rs : IsSum(rs, s) => rs[s].covers[row.run] < row.seq

LEMMA Fields ==
  ASSUME ContextAssumption, NEW rs \in Seq(Rows)
  PROVE  /\ Len(rs) \in Nat /\ DOMAIN rs = 1..Len(rs)
         /\ \A i \in DOMAIN rs :
              /\ rs[i] \in Rows /\ rs[i].run \in Runs /\ rs[i].run \in Nat /\ rs[i].seq \in Nat
              /\ rs[i].at \in Nat /\ rs[i].uses \in Nat /\ rs[i].for \in Nat /\ rs[i].type \in Types
              /\ rs[i].answers \subseteq Calls /\ \A r \in Runs : rs[i].covers[r] \in Nat
<1>1. Len(rs) \in Nat /\ DOMAIN rs = 1..Len(rs) /\ \A i \in DOMAIN rs : rs[i] \in Rows
  OBVIOUS
<1>2. ASSUME NEW row \in Rows
      PROVE  /\ row.run \in Runs /\ row.seq \in Nat /\ row.at \in Nat /\ row.uses \in Nat
             /\ row.for \in Nat /\ row.type \in Types /\ row.answers \subseteq Calls
             /\ \A r \in Runs : row.covers[r] \in Nat
  BY DEF Rows
<1>3. \A r \in Runs : r \in Nat
  BY DEF Runs
<1> QED
  BY <1>1, <1>2, <1>3

LEMMA Stored ==
  ASSUME NEW rs \in Seq(Rows), NEW row \in Rows, NEW new, new = Append(rs, row)
  PROVE  /\ new \in Seq(Rows) /\ Len(new) = Len(rs) + 1 /\ Len(rs) \in Nat
         /\ DOMAIN rs = 1..Len(rs) /\ DOMAIN new = 1..(Len(rs) + 1)
         /\ new[Len(rs) + 1] = row /\ \A i \in DOMAIN rs : new[i] = rs[i]
OBVIOUS

\* What every row keeps.
LEMMA StoreOrder ==
  ASSUME ContextAssumption, NEW rs, StoreInv(rs), NEW row \in Rows, Follows(rs, row), Unhidden(rs, row),
         NEW new, new = Append(rs, row)
  PROVE  /\ new \in Seq(Rows) /\ Numbered(new) /\ Timed(new)
         /\ row.type # "compact_summary" => CoversPast(new)
<1> DEFINE n == Len(rs)
<1>1. /\ new \in Seq(Rows) /\ n \in Nat
      /\ DOMAIN rs = 1..n /\ DOMAIN new = 1..(n + 1)
      /\ new[n + 1] = row /\ \A i \in 1..n : new[i] = rs[i]
  BY Stored DEF StoreInv
<1>2. /\ \A i \in 1..n : rs[i].run \in Nat /\ rs[i].seq \in Nat /\ rs[i].at \in Nat
      /\ row.run \in Nat /\ row.seq \in Nat /\ row.at \in Nat
  <2>1. new[n + 1].run \in Nat /\ new[n + 1].seq \in Nat /\ new[n + 1].at \in Nat
    <3>1. n + 1 \in DOMAIN new
      BY ONLY <1>1
    <3> QED
      BY <1>1, <3>1, Fields
  <2> QED
    BY <1>1, <2>1, Fields DEF StoreInv
<1> HIDE DEF n
<1>n. n = Len(rs)
  BY DEF n
<1>3. Numbered(new)
  BY <1>1, <1>n DEF StoreInv, Numbered, Follows
<1>4. Timed(new)
  <2> SUFFICES ASSUME NEW i \in 1..(n + 1), NEW j \in 1..(n + 1), i < j
               PROVE  /\ new[i].at <= new[j].at /\ new[i].run <= new[j].run
                      /\ new[i].run < new[j].run => new[i].at < new[j].at
    BY <1>1 DEF Timed
  <2>1. i \in 1..n /\ new[i] = rs[i]
    BY <1>1
  <2>2. CASE j = n + 1
    BY <1>1, <2>1, <2>2 DEF Follows
  <2>3. CASE j # n + 1
    BY SMTT(20), <1>1, <2>1, <2>3 DEF StoreInv, Timed
  <2> QED
    BY <2>2, <2>3
<1>5. CASE row.type # "compact_summary"
  <2> SUFFICES ASSUME NEW s \in 1..(n + 1), IsSum(new, s)
               PROVE  /\ \A i \in 1..(n + 1) : s <= i => new[s].covers[new[i].run] < new[i].seq
                      /\ \A r \in Runs : r > new[s].run => new[s].covers[r] = 0
    BY <1>1, <1>3, <1>4 DEF CoversPast
  <2>1. s \in 1..n /\ new[s] = rs[s] /\ IsSum(rs, s)
    BY <1>1, <1>5 DEF IsSum
  <2>2. /\ \A i \in 1..n : s <= i => rs[s].covers[rs[i].run] < rs[i].seq
        /\ \A r \in Runs : r > rs[s].run => rs[s].covers[r] = 0
    BY <1>1, <2>1 DEF StoreInv, CoversPast
  <2>3. rs[s].covers[row.run] < row.seq
    BY <1>1, <2>1 DEF Unhidden
  <2> QED
    BY <1>1, <2>1, <2>2, <2>3
<1> QED
  BY <1>1, <1>3, <1>4, <1>5

\* Rows that are stored in turn.
LEMMA StoreTurn ==
  ASSUME ContextAssumption, NEW rs, StoreInv(rs), NEW row \in Rows,
         Straight(rs, row.run), Above(rs, row), NEW new, new = Append(rs, row)
  PROVE  InTurn(new) /\ Straight(new, row.run)
<1> DEFINE n == Len(rs)
<1>1. /\ n \in Nat /\ DOMAIN rs = 1..n /\ DOMAIN new = 1..(n + 1)
      /\ new[n + 1] = row /\ \A i \in 1..n : new[i] = rs[i]
      /\ rs \in Seq(Rows) /\ new \in Seq(Rows)
  BY Stored DEF StoreInv
<1>2. \A i \in 1..(n + 1) : new[i].run \in Nat /\ new[i].seq \in Nat
  BY <1>1, Fields
<1> HIDE DEF n
<1>3. Straight(new, row.run)
  <2> SUFFICES ASSUME NEW i \in 1..(n + 1), NEW j \in 1..(n + 1), i < j,
                      new[i].run = row.run, new[j].run = row.run
               PROVE  new[i].seq < new[j].seq
    BY <1>1 DEF Straight
  <2>0. n \in Nat
    BY <1>1
  <2>4. i \in 1..n
    BY ONLY <2>0, i \in 1..(n + 1), j \in 1..(n + 1), i < j
  <2>1. i \in 1..n /\ new[i] = rs[i]
    BY <1>1, <2>4
  <2>2. CASE j = n + 1
    BY <1>1, <2>1, <2>2 DEF Above
  <2>3. CASE j # n + 1
    BY SMTT(20), <1>1, <2>1, <2>3 DEF Straight
  <2> QED
    BY <2>2, <2>3
<1>4. InTurn(new)
  <2> SUFFICES ASSUME NEW i \in 1..(n + 1), NEW j \in 1..(n + 1), i < j, new[i].run = new[j].run,
                      new[j].seq <= new[i].seq,
                      NEW x \in 1..(n + 1), new[x].run = new[i].run, ~IsRes(new, x)
               PROVE  x < i /\ new[x].seq < new[i].seq
    BY <1>1 DEF InTurn
  <2>1. new[i].run # row.run
    <3>1. \A k, l \in 1..(n + 1) : k < l /\ new[k].run = row.run /\ new[l].run = row.run => new[k].seq < new[l].seq
      BY <1>1, <1>3 DEF Straight
    <3> QED
      BY SMTT(20), <1>1, <1>2, <3>1
  <2>2. i \in 1..n /\ j \in 1..n /\ x \in 1..n
    BY <1>1, <2>1
  <2>3. new[i] = rs[i] /\ new[j] = rs[j] /\ new[x] = rs[x]
    BY <1>1, <2>2
  <2> QED
    BY <1>1, <2>2, <2>3 DEF StoreInv, InTurn, IsRes
<1> QED
  BY <1>3, <1>4

\* The result of a call that was cut: a is the message that asked for it.
LEMMA StoreLate ==
  ASSUME ContextAssumption, NEW rs, StoreInv(rs), NEW row \in Rows, row.type = "tool_result",
         NEW a \in DOMAIN rs, rs[a].seq < row.seq,
         \A x \in DOMAIN rs : rs[x].run = row.run /\ ~IsRes(rs, x) => rs[x].seq <= rs[a].seq,
         NEW new, new = Append(rs, row)
  PROVE  InTurn(new)
<1> DEFINE n == Len(rs)
<1>1. /\ n \in Nat /\ DOMAIN rs = 1..n /\ DOMAIN new = 1..(n + 1)
      /\ new[n + 1] = row /\ \A i \in 1..n : new[i] = rs[i]
      /\ rs \in Seq(Rows) /\ new \in Seq(Rows)
  BY Stored DEF StoreInv
<1>2. \A i \in 1..(n + 1) : new[i].run \in Nat /\ new[i].seq \in Nat
  BY <1>1, Fields
<1> HIDE DEF n
<1> SUFFICES ASSUME NEW i \in 1..(n + 1), NEW j \in 1..(n + 1), i < j, new[i].run = new[j].run,
                    new[j].seq <= new[i].seq,
                    NEW x \in 1..(n + 1), new[x].run = new[i].run, ~IsRes(new, x)
             PROVE  x < i /\ new[x].seq < new[i].seq
  BY <1>1 DEF InTurn
<1>3. i \in 1..n /\ x \in 1..n /\ new[i] = rs[i] /\ new[x] = rs[x] /\ ~IsRes(rs, x)
  BY <1>1 DEF IsRes
<1>4. \A k, l \in 1..n : k < l /\ rs[k].run = rs[l].run /\ rs[l].seq <= rs[k].seq =>
        \A y \in 1..n : rs[y].run = rs[k].run /\ ~IsRes(rs, y) => y < k /\ rs[y].seq < rs[k].seq
  BY <1>1 DEF StoreInv, InTurn
<1>5. CASE j # n + 1
  <2>1. j \in 1..n /\ new[j] = rs[j]
    BY <1>1, <1>5
  <2> QED
    BY <1>3, <1>4, <2>1
<1>6. CASE j = n + 1
  <2>0. /\ \A k \in 1..n : rs[k].seq \in Nat
        /\ row.seq \in Nat /\ new[j] = row /\ a \in 1..n
    BY <1>1, <1>2, <1>6
  <2>1. rs[x].seq < rs[i].seq
    <3>1. rs[x].seq <= rs[a].seq
      BY <1>1, <1>3, <2>0
    <3>2. row.seq <= rs[i].seq
      BY <1>3, <2>0
    <3>3. PICK p, q, s, t : p = rs[x].seq /\ q = rs[a].seq /\ s = row.seq /\ t = rs[i].seq
      OBVIOUS
    <3>4. /\ p \in Nat /\ q \in Nat /\ s \in Nat /\ t \in Nat
          /\ p <= q /\ q < s /\ s <= t
      BY <1>3, <2>0, <3>1, <3>2, <3>3
    <3>5. p < t
      BY ONLY <3>4
    <3> QED
      BY <3>3, <3>5
  <2>2. x < i
    <3> SUFFICES ASSUME i < x PROVE FALSE
      BY <1>1, <1>3, <2>1, <2>0
    <3>1. rs[i].run = rs[x].run
      BY <1>3
    <3>3. rs[x].seq <= rs[i].seq
      BY SMTT(20), <1>3, <2>0, <2>1
    <3>4. i \in 1..n /\ x \in 1..n /\ i < x /\ ~IsRes(rs, x)
      BY <1>3
    <3>2. x < i
      BY <1>4, <3>1, <3>3, <3>4
    <3> QED
      BY <1>1, <1>3, <3>2
  <2> QED
    BY <1>3, <2>1, <2>2
<1> QED
  BY <1>5, <1>6

\* What a result needs of those before it.
Answering(rs, row) ==
  LET a == row.for IN
  /\ a \in DOMAIN rs /\ rs[a].type = "assistant" /\ rs[a].run = row.run /\ rs[a].seq < row.seq
  /\ rs[a].uses > 0 /\ row.answers \subseteq 1..rs[a].uses
  /\ \A l \in DOMAIN rs : a < l => IsRes(rs, l) /\ rs[l].for = a /\ rs[l].answers \cap row.answers = {}
  /\ \A s \in DOMAIN rs : IsSum(rs, s) => rs[s].covers[row.run] < rs[a].seq

LEMMA StoreResult ==
  ASSUME ContextAssumption, NEW rs, StoreInv(rs), NEW row \in Rows,
         row.type = "tool_result" => Answering(rs, row),
         NEW new, new = Append(rs, row)
  PROVE  /\ ResultsOf(new)
         /\ row.type # "compact_summary" => CoversWhole(new)
<1> DEFINE n == Len(rs)
<1>1. /\ n \in Nat /\ DOMAIN rs = 1..n /\ DOMAIN new = 1..(n + 1)
      /\ new[n + 1] = row /\ \A i \in 1..n : new[i] = rs[i]
      /\ rs \in Seq(Rows) /\ new \in Seq(Rows)
  BY Stored DEF StoreInv
<1>2. \A i \in 1..(n + 1) : new[i].run \in Runs /\ new[i].run \in Nat /\ new[i].seq \in Nat
  BY <1>1, Fields
<1>m. \A s \in 1..n : \A r \in Runs : rs[s].covers[r] \in Nat
  BY <1>1, Fields
<1> HIDE DEF n
<1>3. \A j \in 1..n : IsRes(rs, j) =>
        LET a == rs[j].for IN
        /\ a \in 1..(j - 1) /\ rs[a].type = "assistant" /\ rs[a].run = rs[j].run /\ rs[a].seq < rs[j].seq
        /\ rs[a].uses > 0 /\ rs[j].answers \subseteq 1..rs[a].uses
        /\ \A l \in 1..n : a < l /\ l <= j => IsRes(rs, l) /\ rs[l].for = a
        /\ \A l \in 1..n : l # j /\ IsRes(rs, l) /\ rs[l].for = a => rs[l].answers \cap rs[j].answers = {}
  BY <1>1 DEF StoreInv, ResultsOf
<1>4. \A j \in 1..n : (IsRes(new, j) <=> IsRes(rs, j)) /\ (IsSum(new, j) <=> IsSum(rs, j))
  BY <1>1 DEF IsRes, IsSum
<1>5. IsRes(new, n + 1) <=> row.type = "tool_result"
  BY <1>1 DEF IsRes
<1>6. row.type = "tool_result" =>
        LET a == row.for IN
        /\ a \in 1..n /\ rs[a].type = "assistant" /\ rs[a].run = row.run /\ rs[a].seq < row.seq
        /\ rs[a].uses > 0 /\ row.answers \subseteq 1..rs[a].uses
        /\ \A l \in 1..n : a < l => IsRes(rs, l) /\ rs[l].for = a /\ rs[l].answers \cap row.answers = {}
        /\ \A s \in 1..n : IsSum(rs, s) => rs[s].covers[row.run] < rs[a].seq
  BY <1>1 DEF Answering
<1>7. ResultsOf(new)
  <2> SUFFICES ASSUME NEW j \in 1..(n + 1), IsRes(new, j)
               PROVE  LET a == new[j].for IN
                      /\ a \in 1..(j - 1) /\ new[a].type = "assistant" /\ new[a].run = new[j].run
                      /\ new[a].seq < new[j].seq
                      /\ new[a].uses > 0 /\ new[j].answers \subseteq 1..new[a].uses
                      /\ \A l \in 1..(n + 1) : a < l /\ l <= j => IsRes(new, l) /\ new[l].for = a
                      /\ \A l \in 1..(n + 1) : l # j /\ IsRes(new, l) /\ new[l].for = a =>
                           new[l].answers \cap new[j].answers = {}
    BY ZenonT(40), <1>1 DEF ResultsOf
  <2>1. CASE j = n + 1
    <3>1. row.type = "tool_result" /\ new[j] = row
      BY <1>1, <1>5, <2>1
    <3>0. PICK a : a = row.for /\ a = new[j].for
      BY <3>1
    <3>2. a \in 1..n /\ new[a] = rs[a]
      BY <1>1, <1>6, <3>0, <3>1
    <3>3. /\ new[a].type = "assistant" /\ new[a].run = new[j].run /\ new[a].seq < new[j].seq
          /\ new[a].uses > 0 /\ new[j].answers \subseteq 1..new[a].uses
      BY <1>6, <3>0, <3>1, <3>2
    <3>4. ASSUME NEW l \in 1..n, IsRes(rs, l), rs[l].for = a PROVE a < l
      BY <1>1, <1>3, <3>2, <3>4
    <3>5. \A l \in 1..(n + 1) : a < l /\ l <= j => IsRes(new, l) /\ new[l].for = a
      BY <1>1, <1>4, <1>5, <1>6, <3>0, <3>1, <3>2
    <3>6. \A l \in 1..(n + 1) : l # j /\ IsRes(new, l) /\ new[l].for = a =>
                           new[l].answers \cap new[j].answers = {}
      BY <1>1, <1>4, <1>6, <2>1, <3>0, <3>1, <3>4
    <3>7. a \in 1..(j - 1)
      BY <1>1, <2>1, <3>2
    <3> QED
      BY ONLY <3>0, <3>3, <3>5, <3>6, <3>7
  <2>2. CASE j # n + 1
    <3>1. j \in 1..n /\ IsRes(rs, j) /\ new[j] = rs[j]
      BY <1>1, <1>4, <2>2
    <3>0. PICK a : a = rs[j].for /\ a = new[j].for
      BY <3>1
    <3>2. a \in 1..(j - 1) /\ a \in 1..n /\ new[a] = rs[a]
      BY <1>1, <1>3, <3>0, <3>1
    <3>3. \A l \in 1..(n + 1) : a < l /\ l <= j => IsRes(new, l) /\ new[l].for = a
      BY <1>1, <1>3, <1>4, <3>0, <3>1
    <3>4. ASSUME NEW l \in 1..(n + 1), l # j, IsRes(new, l), new[l].for = a
          PROVE  new[l].answers \cap new[j].answers = {}
      <4>1. CASE l = n + 1
        <5>1. row.type = "tool_result" /\ row.for = a /\ new[l] = row
          BY <1>1, <1>5, <3>4, <4>1
        <5>2. rs[j].answers \cap row.answers = {}
          <6>1. a < j /\ row.for < j /\ j \in 1..n
            BY <3>1, <3>2, <5>1
          <6>2. rs[j].answers \cap row.answers = {}
            BY <1>6, <5>1, <6>1
          <6> QED
            BY <6>2
        <5> QED
          BY <3>1, <5>1, <5>2
      <4>2. CASE l # n + 1
        <5>1. l \in 1..n /\ IsRes(rs, l) /\ new[l] = rs[l]
          BY <1>1, <1>4, <3>4, <4>2
        <5> QED
          BY <1>3, <3>0, <3>1, <3>4, <5>1
      <4> QED
        BY <4>1, <4>2
    <3> QED
      BY <1>3, <3>0, <3>1, <3>2, <3>3, <3>4
  <2> QED
    BY <2>1, <2>2
<1>8. CASE row.type # "compact_summary"
  <2> SUFFICES ASSUME NEW s \in 1..(n + 1), NEW j \in 1..(n + 1), IsSum(new, s), IsRes(new, j),
                      new[s].covers[new[j].run] >= new[new[j].for].seq
               PROVE  new[s].covers[new[j].run] >= new[j].seq
    BY <1>1, <1>7 DEF CoversWhole
  <2>1. s \in 1..n /\ IsSum(rs, s) /\ new[s] = rs[s]
    BY <1>1, <1>4, <1>8 DEF IsSum
  <2>2. CASE j = n + 1
    <3>1. row.type = "tool_result" /\ new[j] = row
      BY <1>1, <1>5, <2>2
    <3>2. new[row.for] = rs[row.for] /\ row.run \in Runs /\ rs[row.for].seq \in Nat
      BY <1>1, <1>2, <1>6, <3>1, <2>2
    <3>3. rs[s].covers[row.run] \in Nat /\ rs[s].covers[row.run] < rs[row.for].seq
      BY <1>6, <1>m, <2>1, <3>1, <3>2
    <3> QED
      BY SMTT(20), <2>1, <3>1, <3>2, <3>3
  <2>3. CASE j # n + 1
    <3>1. j \in 1..n /\ IsRes(rs, j) /\ new[j] = rs[j]
      BY <1>1, <1>4, <2>3
    <3>2. new[rs[j].for] = rs[rs[j].for]
      BY <1>1, <1>3, <3>1
    <3> QED
      BY <1>1, <2>1, <3>1, <3>2 DEF StoreInv, CoversWhole
  <2> QED
    BY <2>2, <2>3
<1> QED
  BY <1>7, <1>8

\* The messages that a context is loaded from: no partial ones, none covered.
HistoryOf(rs) ==
  {i \in DOMAIN rs : /\ rs[i].type # "assistant_partial"
                     /\ \A s \in DOMAIN rs : IsSum(rs, s) => rs[s].covers[rs[i].run] < rs[i].seq}

LEMMA HistoryIs ==
  ASSUME ContextAssumption, stored \in Seq(Rows)
  PROVE  History = HistoryOf(stored)
<1>1. \A i \in DOMAIN stored : stored[i].run \in Runs /\ stored[i].seq \in Nat
  BY Fields
<1>2. \A s \in DOMAIN stored : \A r \in Runs : stored[s].covers[r] \in Nat
  BY Fields
<1>3. ASSUME NEW i \in DOMAIN stored, NEW s \in DOMAIN stored
      PROVE  ~(stored[s].covers[stored[i].run] >= stored[i].seq) <=> stored[s].covers[stored[i].run] < stored[i].seq
  <2>1. stored[s].covers[stored[i].run] \in Nat /\ stored[i].seq \in Nat
    BY <1>1, <1>2
  <2> QED
    BY <2>1
<1>4. ASSUME NEW i \in DOMAIN stored
      PROVE  ~Covered(i) <=> \A s \in DOMAIN stored : IsSum(stored, s) => stored[s].covers[stored[i].run] < stored[i].seq
  BY <1>3 DEF Covered, Of, Ids, IsSum
<1> QED
  BY <1>4 DEF History, HistoryOf, Ids

LEMMA HistoryGrows ==
  ASSUME ContextAssumption, NEW rs \in Seq(Rows), NEW row \in Rows, row.type # "compact_summary",
         Unhidden(rs, row), NEW new, new = Append(rs, row)
  PROVE  HistoryOf(new) = HistoryOf(rs) \cup (IF row.type = "assistant_partial" THEN {} ELSE {Len(rs) + 1})
<1> DEFINE n == Len(rs)
<1>1. /\ n \in Nat /\ DOMAIN rs = 1..n /\ DOMAIN new = 1..(n + 1)
      /\ new[n + 1] = row /\ \A i \in 1..n : new[i] = rs[i]
  BY Stored
<1> HIDE DEF n
<1>2. \A s \in 1..(n + 1) : IsSum(new, s) <=> s \in 1..n /\ IsSum(rs, s)
  BY <1>1 DEF IsSum
<1>3. \A i \in 1..n : i \in HistoryOf(new) <=> i \in HistoryOf(rs)
  BY <1>1, <1>2 DEF HistoryOf
<1>4. n + 1 \in HistoryOf(new) <=> row.type # "assistant_partial"
  BY <1>1, <1>2 DEF HistoryOf, Unhidden
<1>5. HistoryOf(new) \subseteq 1..(n + 1) /\ HistoryOf(rs) \subseteq 1..n
  BY <1>1 DEF HistoryOf
<1> QED
  BY <1>1, <1>3, <1>4, <1>5 DEF n

LEMMA HistoryHides ==
  ASSUME ContextAssumption, NEW rs \in Seq(Rows), NEW row \in Rows, row.type = "compact_summary",
         Unhidden(rs, row), row.covers[row.run] < row.seq, NEW new, new = Append(rs, row)
  PROVE  HistoryOf(new) = {i \in HistoryOf(rs) : row.covers[rs[i].run] < rs[i].seq} \cup {Len(rs) + 1}
<1> DEFINE n == Len(rs)
<1>1. /\ n \in Nat /\ DOMAIN rs = 1..n /\ DOMAIN new = 1..(n + 1)
      /\ new[n + 1] = row /\ \A i \in 1..n : new[i] = rs[i]
  BY Stored
<1> HIDE DEF n
<1>2. \A s \in 1..(n + 1) : IsSum(new, s) <=> s = n + 1 \/ (s \in 1..n /\ IsSum(rs, s))
  BY <1>1 DEF IsSum
<1>3. \A i \in 1..n : i \in HistoryOf(new) <=> i \in HistoryOf(rs) /\ row.covers[rs[i].run] < rs[i].seq
  <2> SUFFICES ASSUME NEW i \in 1..n
               PROVE  i \in HistoryOf(new) <=> i \in HistoryOf(rs) /\ row.covers[rs[i].run] < rs[i].seq
    OBVIOUS
  <2>1. i \in HistoryOf(new) <=>
          /\ rs[i].type # "assistant_partial"
          /\ \A s \in 1..(n + 1) : IsSum(new, s) => new[s].covers[rs[i].run] < rs[i].seq
    <3>1. i \in HistoryOf(new) <=>
            /\ i \in DOMAIN new /\ new[i].type # "assistant_partial"
            /\ \A s \in DOMAIN new : IsSum(new, s) => new[s].covers[new[i].run] < new[i].seq
      BY DEF HistoryOf
    <3>2. i \in DOMAIN new /\ new[i] = rs[i] /\ DOMAIN new = 1..(n + 1)
      BY <1>1
    <3> QED
      BY <3>1, <3>2
  <2>2. i \in HistoryOf(rs) <=>
          /\ rs[i].type # "assistant_partial"
          /\ \A s \in 1..n : IsSum(rs, s) => rs[s].covers[rs[i].run] < rs[i].seq
    BY <1>1 DEF HistoryOf
  <2>3. (\A s \in 1..(n + 1) : IsSum(new, s) => new[s].covers[rs[i].run] < rs[i].seq) <=>
          /\ \A s \in 1..n : IsSum(rs, s) => rs[s].covers[rs[i].run] < rs[i].seq
          /\ row.covers[rs[i].run] < rs[i].seq
    BY <1>1, <1>2
  <2> QED
    BY <2>1, <2>2, <2>3
<1>4. n + 1 \in HistoryOf(new)
  <2>1. \A s \in 1..(n + 1) : IsSum(new, s) => new[s].covers[row.run] < row.seq
    BY <1>1, <1>2 DEF Unhidden
  <2> QED
    BY <1>1, <2>1 DEF HistoryOf
<1>5. HistoryOf(new) \subseteq 1..(n + 1) /\ HistoryOf(rs) \subseteq 1..n
  BY <1>1 DEF HistoryOf
<1> QED
  BY <1>1, <1>3, <1>4, <1>5 DEF n

\* created_at, then seq, then the key.
Sooner(rs, i, j) ==
  \/ rs[i].at < rs[j].at
  \/ /\ rs[i].at = rs[j].at
     /\ rs[i].seq < rs[j].seq \/ (rs[i].seq = rs[j].seq /\ i < j)

LEMMA ReloadedIs ==
  ASSUME ContextAssumption, stored \in Seq(Rows)
  PROVE  /\ Reloaded \in Seq(HistoryOf(stored)) /\ DOMAIN Reloaded = 1..Len(Reloaded)
         /\ \A m, n \in DOMAIN Reloaded : m < n => Sooner(stored, Reloaded[m], Reloaded[n])
         /\ \A i \in HistoryOf(stored) : \E n \in DOMAIN Reloaded : Reloaded[n] = i
<1> DEFINE S == History
           R == {p \in Nat \X Nat : Sooner(stored, p[1], p[2])}
           f == Reloaded
<1>1. DOMAIN stored = 1..Len(stored) /\ Len(stored) \in Nat
      /\ \A i \in 1..Len(stored) : stored[i].at \in Nat /\ stored[i].seq \in Nat
  BY Fields
<1>2. S \subseteq 1..Len(stored) /\ IsFiniteSet(S)
  <2>1. S \subseteq 1..Len(stored)
    BY <1>1 DEF History, Ids
  <2>2. IsFiniteSet(1..Len(stored))
    BY <1>1, FS_Interval
  <2> HIDE DEF S
  <2> QED
    BY <2>1, <2>2, FS_Subset
<1>3. \A i, j \in S : <<i, j>> \in R <=> Sooner(stored, i, j)
  BY <1>1, <1>2
<1>4. Orders(R, S)
  <2> HIDE DEF S, R
  <2>1. ASSUME NEW i \in S, NEW j \in S, NEW k \in S
        PROVE  /\ ~Sooner(stored, i, i)
               /\ i # j => Sooner(stored, i, j) \/ Sooner(stored, j, i)
               /\ Sooner(stored, i, j) /\ Sooner(stored, j, k) => Sooner(stored, i, k)
    <3>1. /\ stored[i].at \in Nat /\ stored[i].seq \in Nat /\ stored[j].at \in Nat /\ stored[j].seq \in Nat
          /\ stored[k].at \in Nat /\ stored[k].seq \in Nat /\ i \in Nat /\ j \in Nat /\ k \in Nat
      BY SMTT(20), <1>1, <1>2
    <3>2. PICK at \in [{i, j, k} -> Nat], seq \in [{i, j, k} -> Nat] :
            \A x \in {i, j, k} : at[x] = stored[x].at /\ seq[x] = stored[x].seq
      <4>1. [x \in {i, j, k} |-> stored[x].at] \in [{i, j, k} -> Nat]
        BY <3>1
      <4>2. [x \in {i, j, k} |-> stored[x].seq] \in [{i, j, k} -> Nat]
        BY <3>1
      <4> QED
        BY <4>1, <4>2
    <3>3. ASSUME NEW x \in {i, j, k}, NEW y \in {i, j, k}
          PROVE  Sooner(stored, x, y) <=>
                   at[x] < at[y] \/ (at[x] = at[y] /\ (seq[x] < seq[y] \/ (seq[x] = seq[y] /\ x < y)))
      BY <3>2 DEF Sooner
    <3>4. /\ at[i] \in Nat /\ at[j] \in Nat /\ at[k] \in Nat
          /\ seq[i] \in Nat /\ seq[j] \in Nat /\ seq[k] \in Nat
      BY <3>2
    <3>5. ~Sooner(stored, i, i)
      BY SMTT(20), <3>1, <3>3, <3>4
    <3>6. i # j => Sooner(stored, i, j) \/ Sooner(stored, j, i)
      <4>1. Sooner(stored, i, j) <=>
              at[i] < at[j] \/ (at[i] = at[j] /\ (seq[i] < seq[j] \/ (seq[i] = seq[j] /\ i < j)))
        BY <3>3
      <4>2. Sooner(stored, j, i) <=>
              at[j] < at[i] \/ (at[j] = at[i] /\ (seq[j] < seq[i] \/ (seq[j] = seq[i] /\ j < i)))
        BY <3>3
      <4>3. PICK ai, aj, si, sj : ai = at[i] /\ aj = at[j] /\ si = seq[i] /\ sj = seq[j]
        OBVIOUS
      <4>4. ai \in Nat /\ aj \in Nat /\ si \in Nat /\ sj \in Nat /\ i \in Nat /\ j \in Nat
        BY <3>1, <3>4, <4>3
      <4>5. i # j =>
              \/ ai < aj \/ (ai = aj /\ (si < sj \/ (si = sj /\ i < j)))
              \/ aj < ai \/ (aj = ai /\ (sj < si \/ (sj = si /\ j < i)))
        BY ONLY <4>4
      <4> QED
        BY <4>1, <4>2, <4>3, <4>5
    <3>7. Sooner(stored, i, j) /\ Sooner(stored, j, k) => Sooner(stored, i, k)
      BY SMTT(20), <3>1, <3>3, <3>4
    <3> QED
      BY <3>5, <3>6, <3>7
  <2> QED
    BY <1>3, <2>1 DEF Orders
<1>5. \A i \in S : Preceding(R, S, i) = {j \in S : Before(j, i)}
  <2>1. \A i, j \in S : Before(j, i) <=> Sooner(stored, j, i)
    BY DEF Before, Sooner
  <2> HIDE DEF S, R
  <2> QED
    BY <1>3, <2>1 DEF Preceding
<1>6. f = [n \in 1..Cardinality(S) |-> CHOOSE i \in S : Cardinality({j \in S : Before(j, i)}) = n - 1]
  BY DEF Reloaded
<1>7. S = HistoryOf(stored)
  BY HistoryIs
<1> HIDE DEF S, R, f
<1>8. \A n \in 1..Cardinality(S) : \E i \in S : Cardinality(Preceding(R, S, i)) = n - 1
  BY <1>2, <1>4, EachPlace
<1>9. ASSUME NEW n \in 1..Cardinality(S)
      PROVE  f[n] \in S /\ Cardinality(Preceding(R, S, f[n])) = n - 1
  <2>1. \E i \in S : Cardinality({j \in S : Before(j, i)}) = n - 1
    BY <1>5, <1>8
  <2>2. f[n] = CHOOSE i \in S : Cardinality({j \in S : Before(j, i)}) = n - 1
    BY <1>6
  <2>3. f[n] \in S /\ Cardinality({j \in S : Before(j, f[n])}) = n - 1
    BY <2>1, <2>2
  <2> QED
    BY <1>5, <2>3
<1>10. f = [n \in 1..Cardinality(S) |-> f[n]]
  <2> DEFINE nth(n) == CHOOSE i \in S : Cardinality({j \in S : Before(j, i)}) = n - 1
  <2>1. f = [n \in 1..Cardinality(S) |-> nth(n)]
    BY <1>6
  <2> HIDE DEF nth
  <2> QED
    BY <2>1
<1>11. /\ f \in Seq(S) /\ DOMAIN f = 1..Len(f)
       /\ \A m, n \in DOMAIN f : m < n => <<f[m], f[n]>> \in R
       /\ \A i \in S : \E n \in DOMAIN f : f[n] = i
  <2>1. IsFiniteSet(S)
    BY <1>2
  <2>2. \A n \in 1..Cardinality(S) : Cardinality(Preceding(R, S, f[n])) = n - 1
    BY <1>9
  <2>3. f \in [1..Cardinality(S) -> S]
    BY <1>9, <1>10
  <2> QED
    <3>1. InPlaces(f, R, S)
      BY <1>4, <2>1, <2>2, <2>3, Ranked
    <3> QED
      BY <3>1 DEF InPlaces
<1>12. \A m, n \in DOMAIN f : m < n => Sooner(stored, f[m], f[n])
  <2>1. \A n \in DOMAIN f : f[n] \in S
    BY <1>11
  <2> QED
    BY <1>3, <1>11, <2>1
<1> QED
  BY <1>7, <1>11, <1>12 DEF f

\* GetReactMessageMaxSeqByRunID.
LEMMA MaxSeqIs ==
  ASSUME ContextAssumption, stored \in Seq(Rows), Numbered(stored), NEW r
  PROVE  /\ MaxSeqOf(r) \in 0..Len(stored)
         /\ \A i \in DOMAIN stored : stored[i].run = r => stored[i].seq <= MaxSeqOf(r)
<1> DEFINE S == {0} \cup {stored[i].seq : i \in {j \in Ids : stored[j].run = r}}
<1>1. Len(stored) \in Nat /\ DOMAIN stored = 1..Len(stored)
  BY Fields
<1>2. S \in SUBSET (0..Len(stored)) /\ S # {}
  BY <1>1 DEF Numbered, Ids
<1>3. Max(S) \in S /\ \A m \in S : m <= Max(S)
  BY <1>1, <1>2, Greatest
<1>4. MaxSeqOf(r) = Max(S)
  BY DEF MaxSeqOf
<1>5. \A i \in DOMAIN stored : stored[i].run = r => stored[i].seq \in S
  BY DEF Ids
<1> HIDE DEF S
<1> QED
  BY <1>2, <1>3, <1>4, <1>5
-----------------------------------------------------------------------------
(* The order of the messages, and what is loaded from them.                *)

\* The types of two rows that are compared.
Pair(rs, i, j) ==
  /\ i \in DOMAIN rs /\ j \in DOMAIN rs /\ i \in Nat /\ j \in Nat
  /\ rs[i].run \in Nat /\ rs[j].run \in Nat /\ rs[i].seq \in Nat /\ rs[j].seq \in Nat
  /\ rs[i].at \in Nat /\ rs[j].at \in Nat

LEMMA PairTypes ==
  ASSUME ContextAssumption, NEW rs \in Seq(Rows), NEW i \in DOMAIN rs, NEW j \in DOMAIN rs
  PROVE  Pair(rs, i, j)
BY SMTT(20), Fields DEF Pair

\* What is not a result comes after all that its run stored before it.
LEMMA InTurnLater ==
  ASSUME ContextAssumption, NEW rs, StoreInv(rs), NEW i \in DOMAIN rs, NEW j \in DOMAIN rs,
         i < j, rs[i].run = rs[j].run, ~IsRes(rs, j)
  PROVE  rs[i].seq < rs[j].seq
<1>1. Pair(rs, i, j)
  BY PairTypes DEF StoreInv
<1> SUFFICES ASSUME rs[j].seq <= rs[i].seq PROVE FALSE
  BY <1>1 DEF Pair
<1>2. j < i
  BY DEF StoreInv, InTurn
<1> QED
  BY <1>1, <1>2 DEF Pair

LEMMA Strict ==
  ASSUME ContextAssumption, NEW rs, StoreInv(rs), NEW i \in DOMAIN rs, NEW j \in DOMAIN rs, Sooner(rs, i, j)
  PROVE  i # j /\ ~Sooner(rs, j, i)
<1>1. Pair(rs, i, j)
  BY PairTypes DEF StoreInv
<1> QED
  BY <1>1 DEF Pair, Sooner

\* What its run stored before it is sooner than what is not a result.
LEMMA SoonerLater ==
  ASSUME ContextAssumption, NEW rs, StoreInv(rs), NEW i \in DOMAIN rs, NEW j \in DOMAIN rs,
         i < j, rs[i].seq < rs[j].seq
  PROVE  Sooner(rs, i, j)
<1>1. Pair(rs, i, j)
  BY PairTypes DEF StoreInv
<1>2. rs[i].at <= rs[j].at
  BY DEF StoreInv, Timed
<1> QED
  BY <1>1, <1>2 DEF Pair, Sooner

LEMMA SoonerEven ==
  ASSUME ContextAssumption, NEW rs, StoreInv(rs), NEW i \in DOMAIN rs, NEW j \in DOMAIN rs,
         i < j, rs[i].seq <= rs[j].seq
  PROVE  Sooner(rs, i, j)
<1>1. Pair(rs, i, j)
  BY PairTypes DEF StoreInv
<1>2. rs[i].at <= rs[j].at
  BY DEF StoreInv, Timed
<1> QED
  BY <1>1, <1>2 DEF Pair, Sooner

\* Runs are not mixed.
LEMMA SameRun ==
  ASSUME ContextAssumption, NEW rs, StoreInv(rs), NEW i \in DOMAIN rs, NEW x \in DOMAIN rs, NEW j \in DOMAIN rs,
         rs[i].run = rs[j].run, Sooner(rs, i, x), Sooner(rs, x, j)
  PROVE  rs[x].run = rs[i].run
<1>1. Pair(rs, i, x) /\ Pair(rs, x, j)
  BY PairTypes DEF StoreInv
<1>2. rs[i].at <= rs[x].at /\ rs[x].at <= rs[j].at
  BY <1>1 DEF Pair, Sooner
<1>3. \A k, l \in DOMAIN rs : k < l =>
        rs[k].run <= rs[l].run /\ (rs[k].run < rs[l].run => rs[k].at < rs[l].at)
  BY DEF StoreInv, Timed
<1>4. ~(rs[x].run < rs[i].run)
  BY <1>1, <1>2, <1>3 DEF Pair
<1>5. ~(rs[j].run < rs[x].run)
  BY <1>1, <1>2, <1>3 DEF Pair
<1> QED
  BY <1>1, <1>4, <1>5 DEF Pair

\* The facts of a result.
LEMMA ResultFacts ==
  ASSUME ContextAssumption, NEW rs, StoreInv(rs), NEW j \in DOMAIN rs, IsRes(rs, j), NEW a, a = rs[j].for
  PROVE  /\ a \in DOMAIN rs /\ a < j /\ ~IsRes(rs, a) /\ rs[a].type = "assistant" /\ rs[a].run = rs[j].run
         /\ rs[a].seq < rs[j].seq /\ rs[a].uses > 0
         /\ \A l \in DOMAIN rs : a < l /\ l <= j => IsRes(rs, l) /\ rs[l].for = a
<1>1. DOMAIN rs = 1..Len(rs) /\ Len(rs) \in Nat
  BY Fields DEF StoreInv
<1> QED
  BY <1>1 DEF StoreInv, ResultsOf, IsRes

\* Between a request and its result are results of it.
LEMMA Between ==
  ASSUME ContextAssumption, NEW rs, StoreInv(rs), NEW j \in DOMAIN rs, IsRes(rs, j), NEW a, a = rs[j].for,
         NEW x \in DOMAIN rs, Sooner(rs, a, x), Sooner(rs, x, j)
  PROVE  IsRes(rs, x) /\ rs[x].for = a
<1>1. /\ a \in DOMAIN rs /\ a < j /\ ~IsRes(rs, a) /\ rs[a].run = rs[j].run /\ rs[a].seq < rs[j].seq
      /\ \A l \in DOMAIN rs : a < l /\ l <= j => IsRes(rs, l) /\ rs[l].for = a
  BY ResultFacts
<1>2. Pair(rs, a, x) /\ Pair(rs, x, j)
  BY <1>1, PairTypes DEF StoreInv
<1>3. rs[x].run = rs[a].run /\ x # a /\ x # j
  BY <1>1, SameRun, Strict
<1>4. a < x
  <2> SUFFICES ASSUME x < a PROVE FALSE
    BY <1>2, <1>3 DEF Pair
  <2>1. Sooner(rs, x, a)
    BY <1>1, <1>3, InTurnLater, SoonerLater
  <2> QED
    BY <1>1, <2>1, Strict
<1>5. CASE x < j
  BY <1>1, <1>2, <1>4, <1>5 DEF Pair
<1>6. CASE j < x
  <2>1. IsRes(rs, x)
    <3> SUFFICES ASSUME ~IsRes(rs, x) PROVE FALSE
      OBVIOUS
    <3>1. Sooner(rs, j, x)
      BY <1>1, <1>3, <1>6, InTurnLater, SoonerLater
    <3> QED
      BY <3>1, Strict
  <2>2. PICK b : b = rs[x].for
    OBVIOUS
  <2>3. /\ b \in DOMAIN rs /\ b < x /\ ~IsRes(rs, b) /\ rs[b].run = rs[x].run /\ rs[b].seq < rs[x].seq
        /\ \A l \in DOMAIN rs : b < l /\ l <= x => IsRes(rs, l) /\ rs[l].for = b
    BY <2>1, <2>2, ResultFacts
  <2>4. Pair(rs, b, x) /\ Pair(rs, j, b)
    BY <2>3, PairTypes DEF StoreInv
  <2>5. CASE b < j
    <3>1. rs[j].for = b
      BY <1>6, <2>3, <2>4, <2>5 DEF Pair
    <3> QED
      BY <2>1, <2>2, <3>1
  <2>6. CASE ~(b < j)
    <3>1. j < b
      BY <2>3, <2>4, <2>6 DEF Pair
    <3>2. rs[j].seq < rs[b].seq
      BY <1>1, <1>3, <2>3, <3>1, InTurnLater
    <3>3. rs[j].seq < rs[x].seq
      BY <2>3, <2>4, <3>2 DEF Pair
    <3>4. Sooner(rs, j, x)
      BY <1>6, <3>3, SoonerLater
    <3> QED
      BY <3>4, Strict
  <2> QED
    BY <2>5, <2>6
<1> QED
  BY <1>2, <1>3, <1>5, <1>6 DEF Pair

\* The history holds a request and its results, or none of them.
LEMMA HistoryWhole ==
  ASSUME ContextAssumption, NEW rs, StoreInv(rs), NEW j \in DOMAIN rs, IsRes(rs, j), NEW a, a = rs[j].for
  PROVE  j \in HistoryOf(rs) <=> a \in HistoryOf(rs)
<1>1. /\ a \in DOMAIN rs /\ rs[a].type = "assistant" /\ rs[a].run = rs[j].run /\ rs[a].seq < rs[j].seq
  BY ResultFacts
<1>2. rs[j].type # "assistant_partial" /\ rs[a].type # "assistant_partial"
  BY <1>1 DEF IsRes
<1>3. Pair(rs, a, j)
  BY <1>1, PairTypes DEF StoreInv
<1>4. \A s \in DOMAIN rs : rs[s].covers[rs[j].run] \in Nat
  BY Fields DEF StoreInv
<1>5. ASSUME NEW s \in DOMAIN rs, IsSum(rs, s)
      PROVE  rs[s].covers[rs[j].run] < rs[j].seq <=> rs[s].covers[rs[a].run] < rs[a].seq
  <2>1. rs[s].covers[rs[j].run] >= rs[a].seq => rs[s].covers[rs[j].run] >= rs[j].seq
    BY <1>5 DEF StoreInv, CoversWhole
  <2> QED
    BY <1>1, <1>3, <1>4, <2>1 DEF Pair
<1> QED
  BY <1>1, <1>2, <1>5 DEF HistoryOf

\* Every message of a context is there once, and a request comes with its
\* results, which follow it.
ComesWith(rs, cx, p, j) ==
  \E q \in DOMAIN cx :
    /\ cx[q] = j /\ p < q
    /\ \A l \in DOMAIN cx : p < l /\ l <= q => IsRes(rs, cx[l]) /\ rs[cx[l]].for = cx[p]
Once(cx) == \A m, n \in DOMAIN cx : cx[m] = cx[n] => m = n
Asked(rs, cx) == \A q \in DOMAIN cx : IsRes(rs, cx[q]) => \E p \in DOMAIN cx : cx[p] = rs[cx[q]].for
AnsweredIn(rs, cx) ==
  \A p \in DOMAIN cx, j \in DOMAIN rs : IsRes(rs, j) /\ rs[j].for = cx[p] => ComesWith(rs, cx, p, j)
CtxWhole(rs, cx) == cx \in Seq(DOMAIN rs) /\ Once(cx) /\ Asked(rs, cx) /\ AnsweredIn(rs, cx)

\* Numbers of a run grow, but among results that follow each other.
CtxOrder(rs, cx) ==
  \A m, n \in DOMAIN cx : m < n /\ rs[cx[m]].run = rs[cx[n]].run =>
     \/ rs[cx[m]].seq < rs[cx[n]].seq
     \/ \A l \in DOMAIN cx : m < l /\ l <= n => IsRes(rs, cx[l])

LEMMA LoadedWhole ==
  ASSUME ContextAssumption, NEW rs, StoreInv(rs), NEW cx \in Seq(HistoryOf(rs)),
         \A m, n \in DOMAIN cx : m < n => Sooner(rs, cx[m], cx[n]),
         \A i \in HistoryOf(rs) : \E n \in DOMAIN cx : cx[n] = i
  PROVE  CtxWhole(rs, cx) /\ CtxOrder(rs, cx)
<1>0. HistoryOf(rs) \subseteq DOMAIN rs
  BY DEF HistoryOf
<1>1. /\ DOMAIN cx = 1..Len(cx) /\ Len(cx) \in Nat
      /\ \A n \in DOMAIN cx : n \in Nat /\ cx[n] \in HistoryOf(rs) /\ cx[n] \in DOMAIN rs
  BY <1>0
<1>2. cx \in Seq(DOMAIN rs)
  BY <1>0, <1>1
<1>3. ASSUME NEW m \in DOMAIN cx, NEW n \in DOMAIN cx, cx[m] = cx[n] PROVE m = n
  <2> SUFFICES ASSUME m # n PROVE FALSE
    OBVIOUS
  <2>1. m < n \/ n < m
    BY <1>1
  <2> QED
    BY <1>1, <1>3, <2>1, Strict
<1>4. ASSUME NEW q \in DOMAIN cx, IsRes(rs, cx[q]) PROVE \E p \in DOMAIN cx : cx[p] = rs[cx[q]].for
  <2>1. PICK a, j : a = rs[cx[q]].for /\ j = cx[q]
    OBVIOUS
  <2>2. j \in DOMAIN rs /\ IsRes(rs, j) /\ j \in HistoryOf(rs) /\ a = rs[j].for
    BY <1>1, <1>4, <2>1
  <2>3. a \in HistoryOf(rs)
    BY <2>2, HistoryWhole
  <2> QED
    BY <2>1, <2>3
<1>5. ASSUME NEW p \in DOMAIN cx, NEW j \in DOMAIN rs, IsRes(rs, j), rs[j].for = cx[p]
      PROVE  ComesWith(rs, cx, p, j)
  <2>1. PICK a : a = cx[p] /\ a = rs[j].for /\ a \in HistoryOf(rs) /\ a \in DOMAIN rs
    BY <1>1, <1>5
  <2>2. j \in HistoryOf(rs)
    BY <1>5, <2>1, HistoryWhole
  <2>3. PICK q \in DOMAIN cx : cx[q] = j
    BY <2>2
  <2>4. Sooner(rs, a, j)
    <3>1. a < j /\ rs[a].seq < rs[j].seq
      BY <1>5, <2>1, ResultFacts
    <3> QED
      BY <2>1, <3>1, SoonerLater
  <2>5. p < q
    <3>1. a # j /\ ~Sooner(rs, j, a)
      BY <2>1, <2>4, Strict
    <3>2. p # q /\ ~(q < p)
      BY <2>1, <2>3, <3>1
    <3> QED
      BY <1>1, <3>2
  <2>6. ASSUME NEW l \in DOMAIN cx, p < l, l <= q PROVE IsRes(rs, cx[l]) /\ rs[cx[l]].for = cx[p]
    <3>1. PICK x : x = cx[l] /\ x \in DOMAIN rs
      BY <1>1
    <3>2. CASE l = q
      BY <1>5, <2>3, <3>2
    <3>3. CASE l # q
      <4>1. l < q
        BY <1>1, <2>6, <3>3
      <4>2. Sooner(rs, a, x) /\ Sooner(rs, x, j)
        BY <2>1, <2>3, <2>6, <3>1, <4>1
      <4>3. IsRes(rs, x) /\ rs[x].for = a
        BY SMTT(20), <1>5, <2>1, <3>1, <4>2, Between
      <4> QED
        BY <2>1, <3>1, <4>3
    <3> QED
      BY <3>2, <3>3
  <2> QED
    BY <2>3, <2>5, <2>6 DEF ComesWith
<1>6. ASSUME NEW m \in DOMAIN cx, NEW n \in DOMAIN cx, m < n, rs[cx[m]].run = rs[cx[n]].run,
             ~(rs[cx[m]].seq < rs[cx[n]].seq), NEW l \in DOMAIN cx, m < l, l <= n
      PROVE  IsRes(rs, cx[l])
  <2>1. PICK i, j, x : i = cx[m] /\ j = cx[n] /\ x = cx[l]
    OBVIOUS
  <2>2. i \in DOMAIN rs /\ j \in DOMAIN rs /\ x \in DOMAIN rs
    BY <1>1, <2>1
  <2>a. rs \in Seq(Rows)
    BY DEF StoreInv
  <2>b. Pair(rs, i, j)
    BY <2>2, <2>a, PairTypes
  <2>c. Pair(rs, i, x)
    BY <2>2, <2>a, PairTypes
  <2>3. Pair(rs, i, j) /\ Pair(rs, i, x)
    BY <2>b, <2>c
  <2>4. rs[i].run = rs[j].run /\ rs[j].seq <= rs[i].seq /\ Sooner(rs, i, j) /\ Sooner(rs, i, x)
    <3>1. rs[i].run = rs[j].run /\ ~(rs[i].seq < rs[j].seq)
      BY <1>6, <2>1
    <3>0. rs[i].seq \in Nat /\ rs[j].seq \in Nat
      BY <2>3 DEF Pair
    <3>2. rs[j].seq <= rs[i].seq
      BY SMTT(20), <3>0, <3>1
    <3>3. Sooner(rs, i, j)
      BY <1>6, <2>1
    <3>4. Sooner(rs, i, x)
      BY <1>6, <2>1
    <3> QED
      BY <3>1, <3>2, <3>3, <3>4
  <2>5. i < j
    <3>1. i # j
      BY <2>2, <2>4, Strict
    <3> SUFFICES ASSUME j < i PROVE FALSE
      BY <2>3, <3>1 DEF Pair
    <3>2. Sooner(rs, j, i)
      BY <2>2, <2>4, SoonerEven
    <3> QED
      BY <2>2, <2>4, <3>2, Strict
  <2> SUFFICES ASSUME ~IsRes(rs, x) PROVE FALSE
    BY <2>1
  <2>6. x # j
    <3> SUFFICES ASSUME x = j PROVE FALSE
      OBVIOUS
    <3>0. rs[i].seq \in Nat /\ rs[j].seq \in Nat
      BY <2>3 DEF Pair
    <3>1. rs[i].seq < rs[j].seq
      BY <2>2, <2>4, <2>5, InTurnLater
    <3>2. rs[j].seq <= rs[i].seq
      BY <2>4
    <3> QED
      BY SMTT(20), <3>0, <3>1, <3>2
  <2>7. Sooner(rs, x, j)
    <3>1. l # n
      BY <2>1, <2>6
    <3>2. l < n
      BY <1>1, <1>6, <3>1
    <3> QED
      BY <2>1, <3>2
  <2>8. rs[x].run = rs[i].run
    BY <2>2, <2>4, <2>7, SameRun
  <2>9. x < i /\ rs[x].seq < rs[i].seq
    BY <2>2, <2>4, <2>5, <2>8 DEF StoreInv, InTurn
  <2>10. Sooner(rs, x, i)
    BY <2>2, <2>9, SoonerLater
  <2> QED
    BY <2>2, <2>4, <2>10, Strict
<1>7. CtxWhole(rs, cx)
  BY <1>2, <1>3, <1>4, <1>5 DEF CtxWhole, Once, Asked, AnsweredIn
<1>8. CtxOrder(rs, cx)
  BY <1>6 DEF CtxOrder
<1> QED
  BY <1>7, <1>8
-----------------------------------------------------------------------------
(* What becomes of a context.                                              *)

\* A row is stored, the context stays.
LEMMA CtxKeeps ==
  ASSUME ContextAssumption, NEW rs, StoreInv(rs), NEW cx, CtxWhole(rs, cx), NEW row \in Rows,
         row.type = "tool_result" => \A n \in DOMAIN cx : cx[n] # row.for,
         NEW new, new = Append(rs, row)
  PROVE  CtxWhole(new, cx) /\ (CtxOrder(rs, cx) => CtxOrder(new, cx))
<1> DEFINE n == Len(rs)
<1>1. /\ n \in Nat /\ DOMAIN rs = 1..n /\ DOMAIN new = 1..(n + 1)
      /\ new[n + 1] = row /\ \A i \in 1..n : new[i] = rs[i]
  BY Stored DEF StoreInv
<1> HIDE DEF n
<1>2. /\ cx \in Seq(1..n) /\ \A q \in DOMAIN cx : cx[q] \in 1..n /\ new[cx[q]] = rs[cx[q]]
  BY <1>1 DEF CtxWhole
<1>3. \A j \in 1..n : IsRes(new, j) <=> IsRes(rs, j)
  BY <1>1 DEF IsRes
<1>4. cx \in Seq(DOMAIN new)
  BY <1>1, <1>2
<1>5. \A p, q \in DOMAIN cx : cx[p] = cx[q] => p = q
  BY DEF CtxWhole, Once
<1>6. ASSUME NEW q \in DOMAIN cx, IsRes(new, cx[q]) PROVE \E p \in DOMAIN cx : cx[p] = new[cx[q]].for
  BY <1>2, <1>3, <1>6 DEF CtxWhole, Asked
<1>7. ASSUME NEW p \in DOMAIN cx, NEW j \in 1..(n + 1), IsRes(new, j), new[j].for = cx[p]
      PROVE  ComesWith(new, cx, p, j)
  <2>1. j # n + 1
    BY <1>1, <1>7 DEF IsRes
  <2>2. j \in 1..n /\ IsRes(rs, j) /\ rs[j].for = cx[p]
    BY <1>1, <1>3, <1>7, <2>1
  <2>3. PICK q \in DOMAIN cx : cx[q] = j /\ p < q /\
               \A l \in DOMAIN cx : p < l /\ l <= q => IsRes(rs, cx[l]) /\ rs[cx[l]].for = cx[p]
    BY <1>1, <2>2 DEF CtxWhole, AnsweredIn, ComesWith
  <2>4. ASSUME NEW l \in DOMAIN cx, p < l, l <= q PROVE IsRes(new, cx[l]) /\ new[cx[l]].for = cx[p]
    BY <1>2, <1>3, <2>3, <2>4
  <2> QED
    BY <2>3, <2>4 DEF ComesWith
<1>8. CtxWhole(new, cx)
  BY <1>1, <1>4, <1>5, <1>6, <1>7 DEF CtxWhole, Once, Asked, AnsweredIn
<1>9. CtxOrder(rs, cx) => CtxOrder(new, cx)
  BY <1>2, <1>3 DEF CtxOrder
<1> QED
  BY <1>8, <1>9

\* A message is stored and shown to the model.
LEMMA CtxGrows ==
  ASSUME ContextAssumption, NEW rs, StoreInv(rs), NEW cx, CtxWhole(rs, cx), NEW row \in Rows,
         row.type # "tool_result", NEW new, new = Append(rs, row),
         NEW cy, cy = Append(cx, Len(rs) + 1)
  PROVE  CtxWhole(new, cy) /\ (CtxOrder(rs, cx) /\ Above(rs, row) => CtxOrder(new, cy))
<1> DEFINE n == Len(rs)
           k == Len(cx)
<1>1. /\ n \in Nat /\ DOMAIN rs = 1..n /\ DOMAIN new = 1..(n + 1)
      /\ new[n + 1] = row /\ \A i \in 1..n : new[i] = rs[i]
  BY Stored DEF StoreInv
<1>2. CtxWhole(new, cx) /\ (CtxOrder(rs, cx) => CtxOrder(new, cx))
  BY CtxKeeps
<1>0. cx \in Seq(1..n)
  BY <1>1 DEF CtxWhole
<1>3. /\ k \in Nat /\ DOMAIN cx = 1..k /\ DOMAIN cy = 1..(k + 1) /\ cy[k + 1] = n + 1
      /\ \A q \in 1..k : cx[q] \in 1..n /\ cy[q] = cx[q] /\ new[cx[q]] = rs[cx[q]]
      /\ cy \in Seq(1..(n + 1))
  <2>1. PICK id : id = n + 1
    OBVIOUS
  <2>2. id \in 1..(n + 1) /\ \A q \in 1..n : q \in 1..(n + 1)
    BY <1>1, <2>1
  <2>3. cx \in Seq(1..(n + 1))
    BY <1>0, <2>2
  <2>4. cy = Append(cx, id)
    BY <2>1
  <2>5. /\ cy \in Seq(1..(n + 1)) /\ Len(cy) = Len(cx) + 1 /\ DOMAIN cy = 1..(Len(cx) + 1)
        /\ cy[Len(cx) + 1] = id /\ \A q \in 1..Len(cx) : cy[q] = cx[q]
    BY <2>2, <2>3, <2>4
  <2>6. Len(cx) \in Nat /\ DOMAIN cx = 1..Len(cx) /\ \A q \in 1..Len(cx) : cx[q] \in 1..n
    BY SMTT(20), <1>0
  <2> QED
    BY <1>1, <2>1, <2>5, <2>6
<1>4. \A j \in 1..n : IsRes(rs, j) => rs[j].for \in 1..n
  BY <1>1, ResultFacts
<1> HIDE DEF n, k
<1>w. /\ \A q \in DOMAIN cx : IsRes(new, cx[q]) => \E p \in DOMAIN cx : cx[p] = new[cx[q]].for
      /\ \A p \in DOMAIN cx, j \in DOMAIN new : IsRes(new, j) /\ new[j].for = cx[p] => ComesWith(new, cx, p, j)
  BY <1>2 DEF CtxWhole, Asked, AnsweredIn
<1>5. ~IsRes(new, n + 1)
  BY <1>1 DEF IsRes
<1>6. \A j \in 1..(n + 1) : IsRes(new, j) => j \in 1..n /\ IsRes(rs, j) /\ new[j] = rs[j] /\ new[j].for # n + 1
  BY <1>1, <1>4, <1>5 DEF IsRes
<1>d. /\ \A q \in DOMAIN cx : q \in 1..k /\ q \in DOMAIN cy /\ cy[q] = cx[q]
      /\ \A q \in DOMAIN cy : q \in 1..(k + 1) /\ (q # k + 1 => q \in DOMAIN cx)
  BY <1>3
<1>7. ASSUME NEW p \in DOMAIN cy, NEW q \in DOMAIN cy, cy[p] = cy[q] PROVE p = q
  <2>1. \A x, y \in DOMAIN cx : cx[x] = cx[y] => x = y
    BY DEF CtxWhole, Once
  <2>2. \A x \in DOMAIN cx : cx[x] # n + 1
    BY <1>1, <1>3
  <2> QED
    BY SMTT(20), <1>3, <1>7, <1>d, <2>1, <2>2
<1>8. ASSUME NEW q \in DOMAIN cy, IsRes(new, cy[q]) PROVE \E p \in DOMAIN cy : cy[p] = new[cy[q]].for
  <2>1. q \in DOMAIN cx /\ cy[q] = cx[q]
    BY <1>3, <1>5, <1>8, <1>d
  <2>2. PICK p \in DOMAIN cx : cx[p] = new[cx[q]].for
    BY <1>8, <1>w, <2>1
  <2> QED
    BY <1>d, <2>1, <2>2
<1>9. ASSUME NEW p \in DOMAIN cy, NEW j \in DOMAIN new, IsRes(new, j), new[j].for = cy[p]
      PROVE  ComesWith(new, cy, p, j)
  <2>1. p \in DOMAIN cx /\ cy[p] = cx[p]
    BY <1>1, <1>3, <1>6, <1>9, <1>d
  <2>2. new[j].for = cx[p]
    BY <1>9, <2>1
  <2>3. PICK q \in DOMAIN cx : cx[q] = j /\ p < q /\
               \A l \in DOMAIN cx : p < l /\ l <= q => IsRes(new, cx[l]) /\ new[cx[l]].for = cx[p]
    BY <1>9, <1>w, <2>1, <2>2 DEF ComesWith
  <2>4. ASSUME NEW l \in DOMAIN cy, p < l, l <= q PROVE IsRes(new, cy[l]) /\ new[cy[l]].for = cy[p]
    <3>1. l # k + 1
      BY <1>3, <1>d, <2>3, <2>4
    <3>2. l \in DOMAIN cx /\ cy[l] = cx[l]
      BY <1>d, <3>1
    <3> QED
      BY <2>1, <2>3, <2>4, <3>2
  <2>5. q \in DOMAIN cy /\ cy[q] = cx[q]
    BY <1>d
  <2> QED
    BY <2>3, <2>4, <2>5 DEF ComesWith
<1>10. CtxWhole(new, cy)
  <2>1. cy \in Seq(DOMAIN new)
    BY <1>1, <1>3
  <2> QED
    BY <1>7, <1>8, <1>9, <2>1 DEF CtxWhole, Once, Asked, AnsweredIn
<1>11. ASSUME CtxOrder(rs, cx), Above(rs, row) PROVE CtxOrder(new, cy)
  <2> SUFFICES ASSUME NEW p \in 1..(k + 1), NEW q \in 1..(k + 1), p < q, new[cy[p]].run = new[cy[q]].run
               PROVE  \/ new[cy[p]].seq < new[cy[q]].seq
                      \/ \A l \in 1..(k + 1) : p < l /\ l <= q => IsRes(new, cy[l])
    BY <1>3 DEF CtxOrder
  <2>1. p \in 1..k /\ cy[p] = cx[p]
    BY <1>3
  <2>2. CASE q = k + 1
    BY SMTT(20), <1>1, <1>3, <1>11, <2>1, <2>2 DEF Above
  <2>3. CASE q # k + 1
    <3>a. k \in Nat
      BY <1>3
    <3>0. q \in 1..k
      BY ONLY <3>a, <2>3
    <3>b. \A l \in 1..k : cy[l] = cx[l]
      BY <1>3
    <3>1. q \in 1..k /\ cy[q] = cx[q]
      BY <3>b, <3>0
    <3>2. \/ new[cx[p]].seq < new[cx[q]].seq
          \/ \A l \in 1..k : p < l /\ l <= q => IsRes(new, cx[l])
      BY <1>2, <1>3, <1>11, <2>1, <3>1 DEF CtxOrder
    <3>c. \A l \in 1..(k + 1) : l <= q => l \in 1..k
      BY ONLY <3>a, <3>0
    <3>3. \A l \in 1..(k + 1) : l <= q => l \in 1..k /\ cy[l] = cx[l]
      BY ONLY <3>b, <3>c
    <3> QED
      BY <2>1, <3>1, <3>2, <3>3
  <2> QED
    BY <2>2, <2>3
<1> QED
  BY <1>10, <1>11

\* A round is over: its request and its results are shown to the model.
LEMMA CtxAnswered ==
  ASSUME ContextAssumption, NEW rs, StoreInv(rs), NEW cx, CtxWhole(rs, cx), NEW row \in Rows,
         row.type = "tool_result", NEW a, a = row.for, a = Len(rs), a \in DOMAIN rs, ~IsRes(rs, a),
         \A q \in DOMAIN cx : cx[q] < a,
         NEW new, new = Append(rs, row), NEW cy, cy = cx \o <<a, Len(rs) + 1>>
  PROVE  /\ CtxWhole(new, cy)
         /\ CtxOrder(rs, cx) /\ Above(rs, row) /\ Straight(rs, row.run) /\ rs[a].run = row.run => CtxOrder(new, cy)
<1> DEFINE n == Len(rs)
           k == Len(cx)
<1>1. /\ n \in Nat /\ DOMAIN rs = 1..n /\ DOMAIN new = 1..(n + 1)
      /\ new[n + 1] = row /\ \A i \in 1..n : new[i] = rs[i]
  BY Stored DEF StoreInv
<1>2. \A q \in DOMAIN cx : cx[q] # row.for
  <2>1. cx \in Seq(1..n)
    BY <1>1 DEF CtxWhole
  <2>2. \A q \in DOMAIN cx : cx[q] \in 1..n
    BY SMTT(20), <2>1
  <2> QED
    BY <1>1, <2>2
<1>3. CtxWhole(new, cx) /\ (CtxOrder(rs, cx) => CtxOrder(new, cx))
  BY <1>2, CtxKeeps
<1>4. /\ k \in Nat /\ DOMAIN cx = 1..k /\ DOMAIN cy = 1..(k + 2) /\ cy[k + 1] = a /\ cy[k + 2] = n + 1
      /\ \A q \in 1..k : cx[q] \in 1..n /\ cy[q] = cx[q] /\ new[cx[q]] = rs[cx[q]] /\ cx[q] < a
      /\ cy \in Seq(DOMAIN new)
  <2>1. PICK id : id = n + 1
    OBVIOUS
  <2>2. id \in DOMAIN new /\ a \in DOMAIN new /\ \A q \in 1..n : q \in DOMAIN new
    BY <1>1, <2>1
  <2>3. cx \in Seq(DOMAIN new)
    BY <1>3 DEF CtxWhole
  <2>4. cy = cx \o <<a, id>> /\ <<a, id>> \in Seq(DOMAIN new)
    BY <2>1, <2>2
  <2>5. /\ cy \in Seq(DOMAIN new) /\ Len(cy) = Len(cx) + 2 /\ DOMAIN cy = 1..(Len(cx) + 2)
        /\ cy[Len(cx) + 1] = a /\ cy[Len(cx) + 2] = id /\ \A q \in 1..Len(cx) : cy[q] = cx[q]
    BY SMTT(20), <2>3, <2>4
  <2>6. Len(cx) \in Nat /\ DOMAIN cx = 1..Len(cx)
    BY <2>3
  <2>7. cx \in Seq(1..n)
    BY <1>1 DEF CtxWhole
  <2>8. \A q \in 1..Len(cx) : cx[q] \in 1..n
    BY SMTT(20), <2>7
  <2> QED
    BY <1>1, <2>1, <2>5, <2>6, <2>8
<1>5. /\ \A j \in 1..n : IsRes(new, j) <=> IsRes(rs, j)
      /\ IsRes(new, n + 1) /\ new[n + 1].for = a
  BY <1>1 DEF IsRes
<1>6. ASSUME NEW j \in 1..n, IsRes(rs, j) PROVE rs[j].for \in 1..n /\ rs[j].for < j
  <2>1. PICK b : b = rs[j].for
    OBVIOUS
  <2>2. b \in DOMAIN rs /\ b < j
    BY <1>1, <1>6, <2>1, ResultFacts
  <2> QED
    BY <1>1, <2>1, <2>2
<1>7. n = a /\ a \in 1..n /\ ~IsRes(new, a)
  BY <1>1, <1>5
<1> HIDE DEF n, k
<1>w. /\ \A q \in DOMAIN cx : IsRes(new, cx[q]) => \E p \in DOMAIN cx : cx[p] = new[cx[q]].for
      /\ \A p \in DOMAIN cx, j \in DOMAIN new : IsRes(new, j) /\ new[j].for = cx[p] => ComesWith(new, cx, p, j)
      /\ \A x, y \in DOMAIN cx : cx[x] = cx[y] => x = y
  BY <1>3 DEF CtxWhole, Asked, AnsweredIn, Once
<1>d. /\ \A q \in DOMAIN cx : q \in Nat /\ q <= k /\ q \in DOMAIN cy /\ cy[q] = cx[q]
      /\ \A q \in DOMAIN cy : q \in Nat /\ q <= k + 2 /\ (q # k + 1 /\ q # k + 2 => q \in DOMAIN cx)
      /\ k + 1 \in DOMAIN cy /\ k + 2 \in DOMAIN cy /\ k \in Nat
  <2>1. k \in Nat /\ DOMAIN cx = 1..k /\ DOMAIN cy = 1..(k + 2) /\ \A q \in 1..k : cy[q] = cx[q]
    BY <1>4
  <2>2. ASSUME NEW q \in 1..k PROVE q \in Nat /\ q <= k /\ q \in 1..(k + 2)
    BY SMTT(20), <2>1
  <2>3. ASSUME NEW q \in 1..(k + 2) PROVE q \in Nat /\ q <= k + 2 /\ (q # k + 1 /\ q # k + 2 => q \in 1..k)
    BY <2>1
  <2>4. k + 1 \in 1..(k + 2) /\ k + 2 \in 1..(k + 2)
    BY SMTT(20), <2>1
  <2> QED
    BY <2>1, <2>2, <2>3, <2>4
<1>e. \A q \in DOMAIN cx : cx[q] \in 1..n /\ cx[q] # n + 1 /\ cx[q] # a
  <2>1. n \in Nat /\ a \in Nat /\ DOMAIN cx = 1..k /\ \A q \in 1..k : cx[q] \in 1..n /\ cx[q] < a
    BY <1>1, <1>4, <1>7
  <2>2. \A q \in DOMAIN cx : cx[q] \in 1..n /\ cx[q] < a
    BY <2>1
  <2> QED
    BY SMTT(20), <2>1, <2>2
<1>f. cy[k + 1] = a /\ cy[k + 2] = n + 1
  BY <1>4
<1>g. \A p, q \in DOMAIN cy : (p < q /\ q \in DOMAIN cx => p \in DOMAIN cx) /\ (p <= q /\ q \in DOMAIN cx => p \in DOMAIN cx)
                          /\ (p < q /\ q = k + 1 => p \in DOMAIN cx) /\ (p < q /\ q = k + 2 /\ p # k + 1 => p \in DOMAIN cx)
                          /\ ~(p < q /\ p = k + 2) /\ (p < q /\ p = k + 1 => q = k + 2)
                          /\ (q \in DOMAIN cx => q # k + 1 /\ q # k + 2) /\ (p = k + 1 => p < k + 2)
  <2>1. k \in Nat /\ DOMAIN cx = 1..k /\ DOMAIN cy = 1..(k + 2)
    BY <1>4
  <2> QED
    BY SMTT(20), <2>1
<1>8. ASSUME NEW p \in DOMAIN cy, NEW q \in DOMAIN cy, cy[p] = cy[q] PROVE p = q
  <2>2. a # n + 1
    BY <1>1, <1>7
  <2>3. CASE p \in DOMAIN cx /\ q \in DOMAIN cx
    BY <1>8, <1>d, <1>w, <2>3
  <2>4. CASE ~(p \in DOMAIN cx /\ q \in DOMAIN cx)
    BY <1>8, <1>d, <1>e, <1>f, <2>2, <2>4
  <2> QED
    BY <2>3, <2>4
<1>9. ASSUME NEW q \in DOMAIN cy, IsRes(new, cy[q]) PROVE \E p \in DOMAIN cy : cy[p] = new[cy[q]].for
  <2>1. CASE q \in DOMAIN cx
    <3>1. IsRes(new, cx[q]) /\ cy[q] = cx[q]
      BY <1>9, <1>d, <2>1
    <3>2. PICK p \in DOMAIN cx : cx[p] = new[cx[q]].for
      BY <1>w, <2>1, <3>1
    <3> QED
      BY <1>d, <3>1, <3>2
  <2>2. CASE q = k + 2
    BY <1>4, <1>5, <1>d, <2>2
  <2>3. q # k + 1
    BY <1>4, <1>7, <1>9
  <2> QED
    BY <1>d, <2>1, <2>2, <2>3
<1>10. ASSUME NEW p \in DOMAIN cy, NEW j \in DOMAIN new, IsRes(new, j), new[j].for = cy[p]
       PROVE  ComesWith(new, cy, p, j)
  <2>1. CASE p \in DOMAIN cx
    <3>2. new[j].for = cx[p] /\ cy[p] = cx[p]
      BY <1>10, <1>d, <2>1
    <3>3. PICK q \in DOMAIN cx : cx[q] = j /\ p < q /\
                 \A l \in DOMAIN cx : p < l /\ l <= q => IsRes(new, cx[l]) /\ new[cx[l]].for = cx[p]
      BY <1>10, <1>w, <2>1, <3>2 DEF ComesWith
    <3>4. ASSUME NEW l \in DOMAIN cy, p < l, l <= q PROVE IsRes(new, cy[l]) /\ new[cy[l]].for = cy[p]
      <4>1. q \in DOMAIN cy /\ l \in DOMAIN cx
        BY <1>d, <1>g, <3>3, <3>4
      <4>2. cy[l] = cx[l]
        BY <1>d, <4>1
      <4>3. IsRes(new, cx[l]) /\ new[cx[l]].for = cx[p]
        BY <3>3, <3>4, <4>1
      <4> QED
        BY <3>2, <4>2, <4>3
    <3>5. q \in DOMAIN cy /\ cy[q] = cx[q]
      BY <1>d
    <3> QED
      BY <3>3, <3>4, <3>5 DEF ComesWith
  <2>2. CASE p = k + 1
    <3>1. j = n + 1
      <4> SUFFICES ASSUME j # n + 1 PROVE FALSE
        OBVIOUS
      <4>1. j \in 1..n /\ new[j] = rs[j] /\ IsRes(rs, j)
        BY SMTT(20), <1>1, <1>5, <1>10
      <4>2. rs[j].for < j /\ rs[j].for = n
        BY <1>4, <1>6, <1>7, <1>10, <2>2, <4>1
      <4> QED
        BY SMTT(20), <1>1, <4>1, <4>2
    <3>2. \A l \in DOMAIN cy : p < l /\ l <= k + 2 => l = k + 2
      BY <1>g, <2>2
    <3>3. cy[k + 2] = j /\ p < k + 2 /\ IsRes(new, cy[k + 2]) /\ new[cy[k + 2]].for = cy[p]
      <4>1. p < k + 2 /\ cy[k + 2] = j /\ cy[p] = a
        BY <1>d, <1>f, <1>g, <2>2, <3>1
      <4> QED
        BY <1>5, <3>1, <4>1
    <3>4. \A l \in DOMAIN cy : p < l /\ l <= k + 2 => IsRes(new, cy[l]) /\ new[cy[l]].for = cy[p]
      BY <3>2, <3>3
    <3> QED
      BY <1>d, <3>3, <3>4 DEF ComesWith
  <2>3. CASE p = k + 2
    <3>1. new[j].for = n + 1
      BY <1>4, <1>10, <2>3
    <3>2. j # n + 1
      BY <1>1, <1>5, <1>7, <3>1
    <3>3. j \in 1..n /\ new[j] = rs[j] /\ IsRes(rs, j)
      BY SMTT(20), <1>1, <1>5, <1>10, <3>2
    <3> QED
      BY SMTT(20), <1>1, <1>6, <3>1, <3>3
  <2> QED
    BY <1>d, <2>1, <2>2, <2>3
<1>11. CtxWhole(new, cy)
  BY <1>4, <1>8, <1>9, <1>10 DEF CtxWhole, Once, Asked, AnsweredIn
<1>12. ASSUME CtxOrder(rs, cx), Above(rs, row), Straight(rs, row.run), rs[a].run = row.run PROVE CtxOrder(new, cy)
  <2> SUFFICES ASSUME NEW p \in DOMAIN cy, NEW q \in DOMAIN cy, p < q, new[cy[p]].run = new[cy[q]].run
               PROVE  \/ new[cy[p]].seq < new[cy[q]].seq
                      \/ \A l \in DOMAIN cy : p < l /\ l <= q => IsRes(new, cy[l])
    BY DEF CtxOrder
  <2>0. p # k + 2 /\ (p = k + 1 => q = k + 2)
    BY <1>g
  <2>1. CASE q = k + 2
    <3>1. cy[q] = n + 1 /\ cy[p] \in 1..n
      <4>1. CASE p = k + 1
        BY <1>7, <1>f, <2>1, <4>1
      <4>2. CASE p # k + 1
        BY <1>d, <1>e, <1>f, <1>g, <2>1, <4>2
      <4> QED
        BY <4>1, <4>2
    <3> QED
      BY <1>1, <1>12, <3>1 DEF Above
  <2>2. CASE q = k + 1
    <3>1. p \in DOMAIN cx /\ cy[q] = a /\ cy[p] = cx[p] /\ cy[p] \in 1..n
      BY <1>d, <1>e, <1>f, <1>g, <2>2
    <3>2. cy[p] < a
      BY <3>1
    <3>3. new[cy[p]] = rs[cy[p]] /\ new[cy[q]] = rs[a]
      BY <1>1, <1>7, <3>1
    <3>4. cy[p] \in DOMAIN rs /\ a \in DOMAIN rs /\ rs[cy[p]].run = row.run /\ rs[a].run = row.run
      BY <1>1, <1>7, <1>12, <3>1, <3>3
    <3>5. rs[cy[p]].seq < rs[a].seq
      BY <1>12, <3>2, <3>4 DEF Straight
    <3> QED
      BY <3>3, <3>5
  <2>3. CASE q \in DOMAIN cx
    <3>1. p \in DOMAIN cx /\ cy[p] = cx[p] /\ cy[q] = cx[q]
      BY <1>d, <1>g, <2>3
    <3>2. \/ new[cx[p]].seq < new[cx[q]].seq
          \/ \A l \in DOMAIN cx : p < l /\ l <= q => IsRes(new, cx[l])
      BY <1>3, <1>12, <2>3, <3>1 DEF CtxOrder
    <3>3. \A l \in DOMAIN cy : l <= q => l \in DOMAIN cx /\ cy[l] = cx[l]
      BY <1>d, <1>g, <2>3
    <3> QED
      BY <3>1, <3>2, <3>3
  <2> QED
    BY <1>d, <2>1, <2>2, <2>3
<1> QED
  BY <1>11, <1>12

-----------------------------------------------------------------------------
(* A compaction.                                                           *)

\* Where no result stands, no round is cut.
LEMMA CutsNoRound ==
  ASSUME NEW rs, NEW cx, CtxWhole(rs, cx), NEW keep \in Nat, keep + 1 \in DOMAIN cx, ~IsRes(rs, cx[keep + 1]),
         NEW p \in DOMAIN cx, NEW q \in DOMAIN cx, IsRes(rs, cx[q]), rs[cx[q]].for = cx[p], cx[q] \in DOMAIN rs
  PROVE  p < q /\ (p <= keep <=> q <= keep)
<1>1. PICK x \in DOMAIN cx : cx[x] = cx[q] /\ p < x /\
               \A l \in DOMAIN cx : p < l /\ l <= x => IsRes(rs, cx[l]) /\ rs[cx[l]].for = cx[p]
  BY DEF CtxWhole, AnsweredIn, ComesWith
<1>2. x = q
  BY <1>1 DEF CtxWhole, Once
<1>3. p \in Nat /\ q \in Nat /\ DOMAIN cx \subseteq Nat
  <2>1. cx \in Seq(DOMAIN rs)
    BY DEF CtxWhole
  <2>2. DOMAIN cx = 1..Len(cx) /\ Len(cx) \in Nat
    BY <2>1
  <2> QED
    BY <2>2
<1>4. ~(p < keep + 1 /\ keep + 1 <= q)
  BY <1>1, <1>2
<1> QED
  BY <1>1, <1>2, <1>3, <1>4

LEMMA Shift ==
  ASSUME NEW k \in Nat, NEW m \in Nat, m < k
  PROVE  \A q \in 1..(k - m + 1) : q # 1 => q \in 2..(k - m + 1) /\ m + q - 1 \in 1..k /\ m < m + q - 1
OBVIOUS

LEMMA ShiftOrder ==
  ASSUME NEW keep \in Nat, NEW p \in Nat, NEW q \in Nat
  PROVE  /\ p < q <=> keep + p - 1 < keep + q - 1
         /\ p <= q <=> keep + p - 1 <= keep + q - 1
         /\ keep + p - 1 = keep + q - 1 => p = q
OBVIOUS

LEMMA ShiftBack ==
  ASSUME NEW k \in Nat, NEW m \in Nat, NEW l \in 1..k, m < l
  PROVE  l - m + 1 \in 1..(k - m + 1) /\ l - m + 1 # 1 /\ m + (l - m + 1) - 1 = l
OBVIOUS

\* S is message id and what stands behind the boundary.
Remains(cx, keep, id, S) == \A i : i \in S <=> i = id \/ \E l \in DOMAIN cx : keep < l /\ cx[l] = i

\* A summary is stored and takes the place of what stood before the boundary.
LEMMA CtxCut ==
  ASSUME ContextAssumption, NEW rs, StoreInv(rs), NEW cx, CtxWhole(rs, cx), NEW row \in Rows,
         row.type = "compact_summary", NEW new, new = Append(rs, row),
         NEW keep \in Nat, 0 < keep, keep + 1 \in DOMAIN cx, ~IsRes(rs, cx[keep + 1]),
         NEW cy, cy = <<Len(rs) + 1>> \o SubSeq(cx, keep + 1, Len(cx))
  PROVE  /\ CtxWhole(new, cy)
         /\ Remains(cx, keep, Len(rs) + 1, Range(cy))
<1> DEFINE n == Len(rs)
           k == Len(cx)
           at(q) == keep + q - 1
           to(l) == l - keep + 1
<1>1. /\ n \in Nat /\ DOMAIN rs = 1..n /\ DOMAIN new = 1..(n + 1)
      /\ new[n + 1] = row /\ \A i \in 1..n : new[i] = rs[i]
  BY Stored DEF StoreInv
<1>2. CtxWhole(new, cx)
  BY CtxKeeps
<1>3. /\ k \in Nat /\ DOMAIN cx = 1..k /\ keep < k /\ keep \in 1..k
      /\ \A l \in 1..k : cx[l] \in 1..n /\ new[cx[l]] = rs[cx[l]]
      /\ DOMAIN cy = 1..(k - keep + 1) /\ cy[1] = n + 1
      /\ \A q \in 2..(k - keep + 1) : cy[q] = cx[keep + q - 1]
      /\ cy \in Seq(DOMAIN new)
  <2>0. cx \in Seq(1..n)
    BY <1>1 DEF CtxWhole
  <2>1. k \in Nat /\ DOMAIN cx = 1..k /\ keep < k /\ keep \in 1..k /\ \A l \in 1..k : cx[l] \in 1..n
    <3>1. Len(cx) \in Nat /\ DOMAIN cx = 1..Len(cx)
      BY <2>0
    <3>2. keep < Len(cx) /\ keep \in 1..Len(cx)
      BY <3>1
    <3>3. \A l \in 1..Len(cx) : cx[l] \in 1..n
      BY <2>0, ElementOfSeq
    <3> QED
      BY <3>1, <3>2, <3>3
  <2>2. PICK id : id = n + 1
    OBVIOUS
  <2>3. id \in DOMAIN new /\ \A q \in 1..n : q \in DOMAIN new
    BY <1>1, <2>2
  <2>4. cx \in Seq(DOMAIN new)
    BY <1>2 DEF CtxWhole
  <2>5. PICK tail : tail = SubSeq(cx, keep + 1, k)
    OBVIOUS
  <2>6. /\ tail \in Seq(DOMAIN new) /\ Len(tail) = k - keep
        /\ \A q \in 1..(k - keep) : tail[q] = cx[keep + q]
    <3>1. tail = SubSeq(cx, keep + 1, Len(cx)) /\ Len(cx) = k
      BY <2>5
    <3>2. keep + 1 \in 1..(Len(cx) + 1) /\ Len(cx) \in 0..Len(cx)
      BY <2>1
    <3>3. keep + 1 \in Int /\ Len(cx) \in Int /\ keep + 1 <= Len(cx)
          /\ \A l \in (keep + 1)..Len(cx) : cx[l] \in DOMAIN new
      <4>1. \A l \in 1..Len(cx) : cx[l] \in DOMAIN new
        BY <2>4, ElementOfSeq
      <4> QED
        BY <2>1, <3>2, <4>1
    <3>0. /\ tail \in Seq(DOMAIN new)
          /\ Len(tail) = IF keep + 1 <= Len(cx) THEN Len(cx) - (keep + 1) + 1 ELSE 0
          /\ \A q \in 1..(Len(cx) - (keep + 1) + 1) : tail[q] = cx[(keep + 1) + q - 1]
      BY SMTT(20), <3>1, <3>3, SubSeqProperties
    <3>4. /\ Len(tail) = Len(cx) - (keep + 1) + 1
          /\ \A q \in 1..(Len(cx) - (keep + 1) + 1) : tail[q] = cx[(keep + 1) + q - 1]
      BY <3>0, <3>3
    <3>5. Len(cx) - (keep + 1) + 1 = k - keep /\ \A q \in Nat : (keep + 1) + q - 1 = keep + q
      BY <2>1
    <3>6. \A q \in 1..(k - keep) : q \in Nat
      BY <2>1
    <3> QED
      BY <3>0, <3>4, <3>5, <3>6
  <2>7. cy = <<id>> \o tail /\ <<id>> \in Seq(DOMAIN new)
    BY <2>2, <2>3, <2>5 DEF n, k
  <2>8. /\ cy \in Seq(DOMAIN new) /\ Len(cy) = 1 + Len(tail) /\ DOMAIN cy = 1..Len(cy)
        /\ cy[1] = id /\ \A q \in 2..Len(cy) : cy[q] = tail[q - 1]
    <3>0. PICK one : one = <<id>>
      OBVIOUS
    <3>1. one \in Seq(DOMAIN new) /\ Len(one) = 1 /\ one[1] = id /\ cy = one \o tail
      BY <2>3, <2>7, <3>0
    <3>2. /\ one \o tail \in Seq(DOMAIN new) /\ Len(one \o tail) = Len(one) + Len(tail)
          /\ \A q \in 1..(Len(one) + Len(tail)) :
               (one \o tail)[q] = IF q <= Len(one) THEN one[q] ELSE tail[q - Len(one)]
      BY ONLY <2>6, <3>1, ConcatProperties
    <3>3. /\ cy \in Seq(DOMAIN new) /\ Len(cy) = 1 + Len(tail) /\ DOMAIN cy = 1..Len(cy)
          /\ \A q \in 1..(1 + Len(tail)) : cy[q] = IF q <= 1 THEN one[q] ELSE tail[q - 1]
      <4>1. cy \in Seq(DOMAIN new) /\ Len(cy) = 1 + Len(tail)
        BY <3>1, <3>2
      <4>2. \A q \in 1..(1 + Len(tail)) : cy[q] = IF q <= 1 THEN one[q] ELSE tail[q - 1]
        BY ONLY <3>1, <3>2
      <4>3. DOMAIN cy = 1..Len(cy)
        BY <4>1
      <4> QED
        BY <4>1, <4>2, <4>3
    <3>4. Len(tail) \in Nat
      BY <2>6
    <3>5. cy[1] = id
      BY <3>1, <3>3, <3>4
    <3>6. ASSUME NEW q \in 2..Len(cy) PROVE cy[q] = tail[q - 1]
      <4>1. q \in 1..(1 + Len(tail)) /\ ~(q <= 1)
        BY <3>3, <3>4
      <4> QED
        BY <3>3, <4>1
    <3> QED
      BY <3>3, <3>5, <3>6
  <2>9. DOMAIN cy = 1..(k - keep + 1)
    BY <2>1, <2>6, <2>8
  <2>10. ASSUME NEW q \in 2..(k - keep + 1) PROVE cy[q] = cx[keep + q - 1]
    <3>a. k \in Nat /\ keep < k
      BY <2>1
    <3>0. q - 1 \in 1..(k - keep) /\ q \in 2..(1 + (k - keep))
      BY ONLY <3>a, keep \in Nat
    <3>1. cy[q] = tail[q - 1] /\ q - 1 \in 1..(k - keep)
      BY <2>6, <2>8, <3>0
    <3>2. tail[q - 1] = cx[keep + (q - 1)] /\ keep + (q - 1) = keep + q - 1
      BY <2>1, <2>6, <3>1
    <3> QED
      BY <3>1, <3>2
  <2> QED
    BY <1>1, <2>1, <2>2, <2>8, <2>9, <2>10
<1> HIDE DEF n, k
<1>d. /\ \A q \in DOMAIN cy : q # 1 => at(q) \in DOMAIN cx /\ keep < at(q) /\ cy[q] = cx[at(q)]
      /\ \A l \in DOMAIN cx : keep < l => to(l) \in DOMAIN cy /\ to(l) # 1 /\ at(to(l)) = l /\ cy[to(l)] = cx[l]
      /\ 1 \in DOMAIN cy
  <2>1. ASSUME NEW q \in DOMAIN cy, q # 1 PROVE at(q) \in DOMAIN cx /\ keep < at(q) /\ cy[q] = cx[at(q)]
    <3>1. k \in Nat /\ keep < k /\ q \in 1..(k - keep + 1)
      BY <1>3
    <3>2. q \in 2..(k - keep + 1) /\ at(q) \in 1..k /\ keep < at(q)
      BY <2>1, <3>1, Shift
    <3> QED
      BY <1>3, <3>2
  <2>2. ASSUME NEW l \in DOMAIN cx, keep < l PROVE to(l) \in DOMAIN cy /\ to(l) # 1 /\ at(to(l)) = l
    <3>1. k \in Nat /\ keep < k /\ l \in 1..k
      BY <1>3
    <3>2. to(l) \in 1..(k - keep + 1) /\ to(l) # 1 /\ at(to(l)) = l
      BY ONLY SMTT(20), <2>2, <3>1, keep \in Nat, ShiftBack
    <3> QED
      BY <1>3, <3>2
  <2>3. ASSUME NEW l \in DOMAIN cx, keep < l PROVE cy[to(l)] = cx[l]
    <3>1. to(l) \in DOMAIN cy /\ to(l) # 1 /\ at(to(l)) = l
      BY <2>2, <2>3
    <3> QED
      BY <2>1, <3>1
  <2>4. 1 \in DOMAIN cy
    BY <1>3
  <2> QED
    BY <2>1, <2>2, <2>3, <2>4
<1>e. /\ \A p, q \in DOMAIN cy : p # 1 /\ q # 1 => (p < q <=> at(p) < at(q)) /\ (p <= q <=> at(p) <= at(q))
                                                   /\ (at(p) = at(q) => p = q)
      /\ \A p, l \in DOMAIN cy : p # 1 /\ p < l => l # 1
      /\ \A p, l \in DOMAIN cx : p < l /\ keep < p => keep < l
  <2>1. DOMAIN cy \subseteq Nat /\ \A p \in DOMAIN cy : 1 <= p
    BY <1>3
  <2>2. DOMAIN cx \subseteq Nat
    BY <1>3
  <2>3. ASSUME NEW p \in Nat, NEW q \in Nat
        PROVE  (p < q <=> at(p) < at(q)) /\ (p <= q <=> at(p) <= at(q)) /\ (at(p) = at(q) => p = q)
    BY ShiftOrder
  <2>4. \A p, l \in DOMAIN cy : p # 1 /\ p < l => l # 1
    BY <2>1
  <2>5. \A p, l \in DOMAIN cx : p < l /\ keep < p => keep < l
    BY <2>2
  <2> HIDE DEF at
  <2> QED
    BY <2>1, <2>3, <2>4, <2>5
<1>f. /\ \A j \in 1..n : IsRes(new, j) <=> IsRes(rs, j)
      /\ ~IsRes(new, n + 1)
      /\ \A j \in DOMAIN new : IsRes(new, j) => j \in 1..n /\ IsRes(rs, j) /\ new[j] = rs[j]
  <2>1. \A j \in 1..n : IsRes(new, j) <=> IsRes(rs, j)
    BY <1>1 DEF IsRes
  <2>2. ~IsRes(new, n + 1)
    BY <1>1 DEF IsRes
  <2>3. \A j \in DOMAIN new : j = n + 1 \/ j \in 1..n
    BY SMTT(20), <1>1
  <2> QED
    BY <1>1, <2>1, <2>2, <2>3
<1>w. /\ \A q \in DOMAIN cx : IsRes(new, cx[q]) => \E p \in DOMAIN cx : cx[p] = new[cx[q]].for
      /\ \A p \in DOMAIN cx, j \in DOMAIN new : IsRes(new, j) /\ new[j].for = cx[p] => ComesWith(new, cx, p, j)
      /\ \A x, y \in DOMAIN cx : cx[x] = cx[y] => x = y
  BY <1>2 DEF CtxWhole, Asked, AnsweredIn, Once
<1>g. \A l \in DOMAIN cx : cx[l] # n + 1 /\ cx[l] \in 1..n /\ cx[l] \in DOMAIN new
  <2>1. \A i \in 1..n : i # n + 1 /\ i \in 1..(n + 1)
    BY SMTT(20), <1>1
  <2> QED
    BY <1>1, <1>3, <2>1
<1>s. keep + 1 \in DOMAIN cx /\ ~IsRes(new, cx[keep + 1])
  BY <1>3, <1>f
<1> HIDE DEF at, to
<1>4. ASSUME NEW p \in DOMAIN cy, NEW q \in DOMAIN cy, cy[p] = cy[q] PROVE p = q
  <2>1. CASE p # 1 /\ q # 1
    <3>1. cx[at(p)] = cx[at(q)] /\ at(p) \in DOMAIN cx /\ at(q) \in DOMAIN cx
      BY <1>4, <1>d, <2>1
    <3>2. at(p) = at(q)
      BY <1>w, <3>1
    <3> QED
      BY <1>e, <2>1, <3>2
  <2>2. CASE ~(p # 1 /\ q # 1)
    <3>1. \A x \in DOMAIN cy : x # 1 => cy[x] # n + 1
      <4> SUFFICES ASSUME NEW x \in DOMAIN cy, x # 1 PROVE cy[x] # n + 1
        OBVIOUS
      <4>1. at(x) \in DOMAIN cx /\ cy[x] = cx[at(x)]
        BY <1>d
      <4> QED
        BY <1>g, <4>1
    <3>2. cy[1] = n + 1
      BY <1>3
    <3> QED
      BY <1>4, <2>2, <3>1, <3>2
  <2> QED
    BY <2>1, <2>2
<1>5. ASSUME NEW q \in DOMAIN cy, IsRes(new, cy[q]) PROVE \E p \in DOMAIN cy : cy[p] = new[cy[q]].for
  <2>1. q # 1
    BY <1>3, <1>5, <1>f
  <2>2. PICK y \in DOMAIN cx : y = at(q) /\ keep < y /\ cy[q] = cx[y]
    BY <1>d, <2>1
  <2>3. PICK x \in DOMAIN cx : cx[x] = new[cx[y]].for
    BY <1>5, <1>w, <2>2
  <2>4. x <= keep <=> y <= keep
    BY <1>2, <1>5, <1>g, <1>s, <2>2, <2>3, CutsNoRound
  <2>5. keep < x
    <3>1. x \in Nat /\ y \in Nat
      <4>1. DOMAIN cx \subseteq Nat
        BY <1>3
      <4> QED
        BY <4>1
    <3> QED
      BY <2>2, <2>4, <3>1
  <2> QED
    <3>1. to(x) \in DOMAIN cy /\ cy[to(x)] = cx[x]
      BY <1>d, <2>5
    <3> QED
      BY <2>2, <2>3, <3>1
<1>6. ASSUME NEW p \in DOMAIN cy, NEW j \in DOMAIN new, IsRes(new, j), new[j].for = cy[p]
      PROVE  ComesWith(new, cy, p, j)
  <2>1. j \in 1..n /\ IsRes(rs, j) /\ new[j] = rs[j]
    BY <1>6, <1>f
  <2>2. PICK b : b = rs[j].for
    OBVIOUS
  <2>0. b \in DOMAIN rs
    BY <1>1, <2>1, <2>2, ResultFacts
  <2>3. p # 1
    <3>1. cy[p] = b /\ b \in 1..n /\ n \in Nat
      BY <1>1, <1>6, <2>0, <2>1, <2>2
    <3>2. b # n + 1
      BY <3>1
    <3> QED
      BY <1>3, <3>1, <3>2
  <2>4. PICK x \in DOMAIN cx : x = at(p) /\ keep < x /\ cy[p] = cx[x]
    BY <1>d, <2>3
  <2>5. new[j].for = cx[x]
    BY <1>6, <2>4
  <2>6. PICK y \in DOMAIN cx : cx[y] = j /\ x < y /\
               \A l \in DOMAIN cx : x < l /\ l <= y => IsRes(new, cx[l]) /\ new[cx[l]].for = cx[x]
    BY <1>6, <1>w, <2>5 DEF ComesWith
  <2>7. PICK q \in DOMAIN cy : q # 1 /\ at(q) = y /\ cy[q] = cx[y]
    <3>1. keep < y
      BY <1>e, <2>4, <2>6
    <3> QED
      BY <1>d, <3>1
  <2>8. p < q
    BY <1>e, <2>3, <2>4, <2>6, <2>7
  <2>9. ASSUME NEW l \in DOMAIN cy, p < l, l <= q PROVE IsRes(new, cy[l]) /\ new[cy[l]].for = cy[p]
    <3>1. l # 1
      BY <1>e, <2>3, <2>9
    <3>2. at(l) \in DOMAIN cx /\ x < at(l) /\ at(l) <= y /\ cy[l] = cx[at(l)]
      BY <1>d, <1>e, <2>3, <2>4, <2>7, <2>9, <3>1
    <3>3. IsRes(new, cx[at(l)]) /\ new[cx[at(l)]].for = cx[x]
      BY <2>6, <3>2
    <3> QED
      BY <2>4, <3>2, <3>3
  <2>10. cy[q] = j
    BY <2>6, <2>7
  <2> QED
    BY <2>8, <2>9, <2>10 DEF ComesWith
<1>7. CtxWhole(new, cy)
  BY <1>3, <1>4, <1>5, <1>6 DEF CtxWhole, Once, Asked, AnsweredIn
<1>8. \A i : i \in Range(cy) <=> i = n + 1 \/ \E l \in DOMAIN cx : keep < l /\ cx[l] = i
  <2>1. \A i : i \in Range(cy) <=> \E q \in DOMAIN cy : cy[q] = i
    BY DEF Range
  <2>2. ASSUME NEW i, i \in Range(cy) PROVE i = n + 1 \/ \E l \in DOMAIN cx : keep < l /\ cx[l] = i
    <3>1. PICK q \in DOMAIN cy : cy[q] = i
      BY <2>1, <2>2
    <3>2. q # 1 => at(q) \in DOMAIN cx /\ keep < at(q) /\ cy[q] = cx[at(q)]
      BY <1>d
    <3>3. cy[1] = n + 1
      BY <1>3
    <3> QED
      BY <3>1, <3>2, <3>3
  <2>3. n + 1 \in Range(cy)
    BY <1>3, <1>d, <2>1
  <2>4. ASSUME NEW l \in DOMAIN cx, keep < l PROVE cx[l] \in Range(cy)
    BY <1>d, <2>1, <2>4
  <2> QED
    BY <2>2, <2>3, <2>4
<1> QED
  BY <1>7, <1>8 DEF n, Remains

\* compactCoveredThrough: the greatest number of each run among what stands at
\* the boundary or before it.
Spans(rs, cx, keep, c) ==
  \A r \in Runs :
    /\ \A l \in DOMAIN cx : l <= keep /\ rs[cx[l]].run = r => rs[cx[l]].seq <= c[r]
    /\ c[r] = 0 \/ \E l \in DOMAIN cx : l <= keep /\ rs[cx[l]].run = r /\ rs[cx[l]].seq = c[r]

LEMMA CtxRows ==
  ASSUME ContextAssumption, NEW rs, StoreInv(rs), NEW cx, CtxWhole(rs, cx), NEW l \in DOMAIN cx
  PROVE  /\ l \in Nat /\ cx[l] \in DOMAIN rs /\ cx[l] \in Nat
         /\ rs[cx[l]].run \in Runs /\ rs[cx[l]].run \in Nat /\ rs[cx[l]].seq \in Nat /\ 1 <= rs[cx[l]].seq
<1>1. cx \in Seq(DOMAIN rs) /\ rs \in Seq(Rows)
  BY DEF CtxWhole, StoreInv
<1>2. DOMAIN cx = 1..Len(cx) /\ Len(cx) \in Nat
  BY <1>1
<1>3. l \in Nat /\ cx[l] \in DOMAIN rs
  BY <1>1, <1>2, ElementOfSeq
<1>4. \A i \in DOMAIN rs : i \in Nat /\ rs[i].run \in Runs /\ rs[i].run \in Nat /\ rs[i].seq \in Nat
  BY <1>1, Fields
<1>5. \A i \in DOMAIN rs : rs[i].seq \in 1..i
  BY DEF StoreInv, Numbered
<1> QED
  BY <1>3, <1>4, <1>5

\* What a summary covers of a round, it covers to the end.
LEMMA SpansWhole ==
  ASSUME ContextAssumption, NEW rs, StoreInv(rs), NEW cx, CtxWhole(rs, cx),
         NEW keep \in Nat, keep + 1 \in DOMAIN cx, ~IsRes(rs, cx[keep + 1]),
         NEW c, c \in [Runs -> Nat], Spans(rs, cx, keep, c),
         NEW j \in DOMAIN rs, IsRes(rs, j), NEW a, a = rs[j].for, c[rs[j].run] >= rs[a].seq
  PROVE  c[rs[j].run] >= rs[j].seq
<1>1. /\ a \in DOMAIN rs /\ a < j /\ ~IsRes(rs, a) /\ rs[a].run = rs[j].run /\ rs[a].seq < rs[j].seq
      /\ \A l \in DOMAIN rs : a < l /\ l <= j => IsRes(rs, l) /\ rs[l].for = a
  BY ResultFacts
<1>2. rs \in Seq(Rows)
  BY DEF StoreInv
<1>3. PICK r \in Runs : r = rs[j].run
  BY <1>2, Fields
<1>4. c[r] \in Nat /\ rs[a].seq \in Nat /\ rs[j].seq \in Nat /\ a \in Nat /\ j \in Nat
  BY <1>1, <1>2, <1>3, PairTypes DEF Pair
<1>5. SUFFICES ASSUME ~(c[r] >= rs[j].seq) PROVE FALSE
  BY <1>3
<1>6. c[r] # 0
  <2>1. rs[a].seq \in 1..a
    BY <1>1 DEF StoreInv, Numbered
  <2>2. c[r] >= rs[a].seq
    BY <1>3
  <2> QED
    BY <1>4, <2>1, <2>2
<1>7. PICK p \in DOMAIN cx : p <= keep /\ rs[cx[p]].run = r /\ rs[cx[p]].seq = c[r]
  BY <1>6 DEF Spans
<1>8. PICK e : e = cx[p]
  OBVIOUS
<1>9. e \in DOMAIN rs /\ rs[e].run = r /\ rs[e].seq = c[r] /\ e \in Nat
  BY <1>7, <1>8, CtxRows
<1>10. rs[a].seq <= rs[e].seq /\ rs[e].seq < rs[j].seq
  <2>1. c[r] >= rs[a].seq
    BY <1>3
  <2> QED
    BY <1>4, <1>5, <1>9, <2>1
<1>11. e = a \/ (IsRes(rs, e) /\ rs[e].for = a)
  <2>1. CASE e < a
    <3>1. rs[e].seq < rs[a].seq
      BY <1>1, <1>3, <1>9, <2>1, InTurnLater
    <3> QED
      BY <1>4, <1>9, <1>10, <3>1
  <2>2. CASE a < e /\ e <= j
    BY <1>1, <1>9, <2>2
  <2>3. CASE j < e
    <3>1. IsRes(rs, e)
      <4> SUFFICES ASSUME ~IsRes(rs, e) PROVE FALSE
        OBVIOUS
      <4>1. rs[j].seq < rs[e].seq
        BY <1>3, <1>9, <2>3, InTurnLater
      <4> QED
        BY <1>4, <1>9, <1>10, <4>1
    <3>2. PICK b : b = rs[e].for
      OBVIOUS
    <3>3. /\ b \in DOMAIN rs /\ b < e /\ ~IsRes(rs, b) /\ rs[b].run = rs[e].run /\ rs[b].seq < rs[e].seq
          /\ \A l \in DOMAIN rs : b < l /\ l <= e => IsRes(rs, l) /\ rs[l].for = b
      BY <1>9, <3>1, <3>2, ResultFacts
    <3>4. b \in Nat /\ rs[b].seq \in Nat
      BY <1>2, <3>3, PairTypes DEF Pair
    <3>5. CASE b < j
      <4>1. rs[j].for = b
        BY <1>4, <1>9, <2>3, <3>3, <3>5
      <4> QED
        BY <3>1, <3>2, <4>1
    <3>6. CASE b = j
      BY <3>3, <3>6
    <3>7. CASE j < b
      <4>1. rs[j].seq < rs[b].seq
        BY <1>3, <1>9, <3>3, <3>7, InTurnLater
      <4> QED
        BY <1>4, <1>9, <1>10, <3>3, <3>4, <4>1
    <3> QED
      BY <1>4, <3>4, <3>5, <3>6, <3>7
  <2> QED
    BY <1>4, <1>9, <2>1, <2>2, <2>3
<1>12. PICK x \in DOMAIN cx : cx[x] = a /\ x <= keep
  <2>1. CASE e = a
    BY <1>7, <1>8, <2>1
  <2>2. CASE IsRes(rs, e) /\ rs[e].for = a
    <3>1. PICK x \in DOMAIN cx : cx[x] = rs[cx[p]].for
      BY <1>8, <2>2 DEF CtxWhole, Asked
    <3>2. x <= keep <=> p <= keep
      BY <1>8, <1>9, <2>2, <3>1, CutsNoRound
    <3> QED
      BY <1>7, <1>8, <2>2, <3>1, <3>2
  <2> QED
    BY <1>11, <2>1, <2>2
<1>13. PICK y \in DOMAIN cx : cx[y] = j
  BY <1>12 DEF CtxWhole, AnsweredIn, ComesWith
<1>14. y <= keep
  BY <1>12, <1>13, CutsNoRound
<1>15. rs[j].seq <= c[r]
  BY <1>3, <1>13, <1>14 DEF Spans
<1> QED
  BY <1>4, <1>5, <1>15

LEMMA StoreSummary ==
  ASSUME ContextAssumption, NEW rs, StoreInv(rs), NEW cx, CtxWhole(rs, cx), NEW row \in Rows,
         row.type = "compact_summary", NEW new, new = Append(rs, row),
         NEW keep \in Nat, keep + 1 \in DOMAIN cx, ~IsRes(rs, cx[keep + 1]),
         Spans(rs, cx, keep, row.covers), Follows(rs, row), Above(rs, row), Unhidden(rs, row)
  PROVE  CoversPast(new) /\ CoversWhole(new)
<1> DEFINE n == Len(rs)
<1>1. /\ n \in Nat /\ DOMAIN rs = 1..n /\ DOMAIN new = 1..(n + 1)
      /\ new[n + 1] = row /\ \A i \in 1..n : new[i] = rs[i]
  BY Stored DEF StoreInv
<1> HIDE DEF n
<1>2. /\ \A i \in 1..n : i \in Nat /\ rs[i].run \in Nat /\ rs[i].run \in Runs /\ rs[i].seq \in Nat
      /\ row.run \in Nat /\ row.run \in Runs /\ row.seq \in Nat /\ row.covers \in [Runs -> Nat]
  <2>1. \A i \in 1..n : i \in Nat /\ rs[i].run \in Nat /\ rs[i].run \in Runs /\ rs[i].seq \in Nat
    BY <1>1, Fields DEF StoreInv
  <2>2. row.run \in Nat /\ row.run \in Runs /\ row.seq \in Nat /\ row.covers \in [Runs -> Nat]
    BY DEF Rows, Runs
  <2> QED
    BY <2>1, <2>2
<1>3. \A j \in 1..n : (IsRes(new, j) <=> IsRes(rs, j)) /\ (IsSum(new, j) <=> IsSum(rs, j))
  BY <1>1 DEF IsRes, IsSum
<1>4. ~IsRes(new, n + 1)
  BY <1>1 DEF IsRes
<1>5. \A r \in Runs : r > row.run => row.covers[r] = 0
  <2> SUFFICES ASSUME NEW r \in Runs, r > row.run, row.covers[r] # 0 PROVE FALSE
    OBVIOUS
  <2>1. PICK l \in DOMAIN cx : rs[cx[l]].run = r
    BY DEF Spans
  <2>2. PICK i \in 1..n : i = cx[l]
    BY <1>1, CtxRows
  <2>3. rs[i].run <= row.run
    BY <1>1 DEF Follows
  <2> QED
    BY SMTT(20), <1>2, <2>1, <2>2, <2>3
<1>6. row.covers[row.run] < row.seq
  <2>1. CASE row.covers[row.run] = 0
    <3>1. row.seq \in 1..(n + 1)
      BY DEF Follows, n
    <3> QED
      BY <1>1, <2>1, <3>1
  <2>2. CASE row.covers[row.run] # 0
    <3>1. PICK l \in DOMAIN cx : rs[cx[l]].run = row.run /\ rs[cx[l]].seq = row.covers[row.run]
      BY <1>2, <2>2 DEF Spans
    <3>2. cx[l] \in DOMAIN rs
      BY CtxRows
    <3> QED
      BY <3>1, <3>2 DEF Above
  <2> QED
    BY <2>1, <2>2
<1>7. CoversPast(new)
  <2> SUFFICES ASSUME NEW s \in 1..(n + 1), IsSum(new, s)
               PROVE  /\ \A i \in 1..(n + 1) : s <= i => new[s].covers[new[i].run] < new[i].seq
                      /\ \A r \in Runs : r > new[s].run => new[s].covers[r] = 0
    BY <1>1 DEF CoversPast
  <2>1. CASE s = n + 1
    <3>1. \A i \in 1..(n + 1) : s <= i => i = n + 1
      BY <1>1, <2>1
    <3>2. new[s] = row
      BY <1>1, <2>1
    <3> QED
      BY <1>1, <1>5, <1>6, <3>1, <3>2
  <2>2. CASE s # n + 1
    <3>1. s \in 1..n /\ new[s] = rs[s] /\ IsSum(rs, s)
      BY <1>1, <1>3, <2>2
    <3>2. /\ \A i \in 1..n : s <= i => rs[s].covers[rs[i].run] < rs[i].seq
          /\ \A r \in Runs : r > rs[s].run => rs[s].covers[r] = 0
      BY <1>1, <3>1 DEF StoreInv, CoversPast
    <3>3. rs[s].covers[row.run] < row.seq
      BY <1>1, <3>1 DEF Unhidden
    <3>4. ASSUME NEW i \in 1..(n + 1), s <= i PROVE new[s].covers[new[i].run] < new[i].seq
      <4>1. CASE i = n + 1
        BY <1>1, <3>1, <3>3, <4>1
      <4>2. CASE i # n + 1
        <5>1. i \in 1..n /\ new[i] = rs[i]
          BY <1>1, <4>2
        <5> QED
          BY <3>1, <3>2, <3>4, <5>1
      <4> QED
        BY <4>1, <4>2
    <3> QED
      BY <3>1, <3>2, <3>4
  <2> QED
    BY <2>1, <2>2
<1>8. CoversWhole(new)
  <2> SUFFICES ASSUME NEW s \in 1..(n + 1), NEW j \in 1..(n + 1), IsSum(new, s), IsRes(new, j),
                      new[s].covers[new[j].run] >= new[new[j].for].seq
               PROVE  new[s].covers[new[j].run] >= new[j].seq
    BY <1>1 DEF CoversWhole
  <2>1. j \in 1..n /\ IsRes(rs, j) /\ new[j] = rs[j]
    BY <1>1, <1>3, <1>4
  <2>2. PICK a : a = rs[j].for
    OBVIOUS
  <2>3. a \in 1..n /\ new[a] = rs[a]
    BY <1>1, <2>1, <2>2, ResultFacts
  <2>4. CASE s = n + 1
    <3>1. row.covers[rs[j].run] >= rs[a].seq
      BY <1>1, <2>1, <2>2, <2>3, <2>4
    <3>2. row.covers[rs[j].run] >= rs[j].seq
      BY <1>1, <1>2, <2>1, <2>2, <3>1, SpansWhole
    <3> QED
      BY <1>1, <2>1, <2>4, <3>2
  <2>5. CASE s # n + 1
    <3>1. s \in 1..n /\ IsSum(rs, s) /\ new[s] = rs[s]
      BY <1>1, <1>3, <2>5
    <3> QED
      BY <1>1, <2>1, <2>2, <2>3, <3>1 DEF StoreInv, CoversWhole
  <2> QED
    BY <2>4, <2>5
<1> QED
  BY <1>7, <1>8

\* What is shown to the model after a compaction is what a summary leaves of
\* the history, in a context that is still in order.
LEMMA HistoryCut ==
  ASSUME ContextAssumption, NEW rs, StoreInv(rs), NEW cx, CtxWhole(rs, cx), CtxOrder(rs, cx),
         Range(cx) = HistoryOf(rs), NEW row \in Rows,
         row.type = "compact_summary", NEW new, new = Append(rs, row),
         NEW keep \in Nat, keep + 1 \in DOMAIN cx, ~IsRes(rs, cx[keep + 1]),
         Spans(rs, cx, keep, row.covers), Above(rs, row), Unhidden(rs, row), row.covers[row.run] < row.seq
  PROVE  Remains(cx, keep, Len(rs) + 1, HistoryOf(new))
<1>1. rs \in Seq(Rows)
  BY DEF StoreInv
<1>2. HistoryOf(new) = {i \in HistoryOf(rs) : row.covers[rs[i].run] < rs[i].seq} \cup {Len(rs) + 1}
  BY <1>1, HistoryHides
<1>3. \A r \in Runs : row.covers[r] \in Nat
  BY DEF Rows
<1>4. \A i : i \in HistoryOf(rs) <=> \E l \in DOMAIN cx : cx[l] = i
  BY DEF Range
<1>5. ASSUME NEW l \in DOMAIN cx PROVE keep < l <=> row.covers[rs[cx[l]].run] < rs[cx[l]].seq
  <2>1. PICK i : i = cx[l]
    OBVIOUS
  <2>2. l \in Nat /\ rs[i].run \in Runs /\ rs[i].seq \in Nat /\ 1 <= rs[i].seq /\ row.covers[rs[i].run] \in Nat
    BY <1>3, <2>1, CtxRows
  <2>3. CASE l <= keep
    <3>1. rs[i].seq <= row.covers[rs[i].run]
      BY <2>1, <2>2, <2>3 DEF Spans
    <3> QED
      BY <2>1, <2>2, <2>3, <3>1
  <2>4. CASE keep < l
    <3>1. CASE row.covers[rs[i].run] = 0
      BY <2>1, <2>2, <2>4, <3>1
    <3>2. CASE row.covers[rs[i].run] # 0
      <4>1. PICK p \in DOMAIN cx : p <= keep /\ rs[cx[p]].run = rs[i].run /\ rs[cx[p]].seq = row.covers[rs[i].run]
        BY <2>2, <3>2 DEF Spans
      <4>2. p \in Nat
        BY CtxRows
      <4>3. p < l /\ p < keep + 1 /\ keep + 1 <= l
        BY <2>2, <2>4, <4>1, <4>2
      <4>4. rs[cx[p]].seq < rs[cx[l]].seq
        BY <2>1, <4>1, <4>3 DEF CtxOrder
      <4> QED
        BY <2>1, <2>4, <4>1, <4>4
    <3> QED
      BY <3>1, <3>2
  <2> QED
    BY <2>2, <2>3, <2>4
<1> QED
  BY <1>2, <1>4, <1>5 DEF Remains

-----------------------------------------------------------------------------
(* The rows of the run.                                                    *)

LEMMA MessageIs ==
  ASSUME ContextAssumption, NEW r \in Runs, NEW q \in Nat, NEW type \in Types, type # "tool_result", NEW at \in Nat,
         NEW row, row = Message(r, q, type, at)
  PROVE  /\ row \in Rows /\ row.run = r /\ row.seq = q /\ row.type = type /\ row.at = at
         /\ row.uses = 0 /\ row.for = 0 /\ row.answers = {}
BY DEF Message, Rows

\* No summary covers what comes after all of its run.
LEMMA Hides ==
  ASSUME ContextAssumption, NEW rs, StoreInv(rs), NEW row \in Rows, Follows(rs, row), Above(rs, row)
  PROVE  Unhidden(rs, row)
<1> SUFFICES ASSUME NEW s \in DOMAIN rs, IsSum(rs, s) PROVE rs[s].covers[row.run] < row.seq
  BY DEF Unhidden
<1>1. rs \in Seq(Rows) /\ Len(rs) \in Nat
  BY Fields DEF StoreInv
<1>2. /\ s \in Nat /\ rs[s].run \in Nat /\ rs[s].seq \in Nat /\ rs[s].run \in Runs
      /\ \A r \in Runs : rs[s].covers[r] \in Nat
  BY <1>1, Fields
<1>3. row.run \in Runs /\ row.run \in Nat /\ row.seq \in Nat
  BY DEF Rows, Runs
<1>4. /\ s <= s => rs[s].covers[rs[s].run] < rs[s].seq
      /\ \A r \in Runs : r > rs[s].run => rs[s].covers[r] = 0
  BY DEF StoreInv, CoversPast
<1>5. rs[s].run <= row.run
  BY DEF Follows
<1>6. CASE rs[s].run = row.run
  <2>1. rs[s].seq < row.seq
    BY <1>6 DEF Above
  <2>2. rs[s].covers[row.run] < rs[s].seq
    BY <1>2, <1>4, <1>6
  <2> QED
    BY <1>2, <1>3, <2>1, <2>2
<1>7. CASE rs[s].run # row.run
  <2>1. rs[s].covers[row.run] = 0
    BY <1>2, <1>3, <1>4, <1>5, <1>7
  <2>2. row.seq \in 1..(Len(rs) + 1)
    BY DEF Follows
  <2> QED
    BY <1>1, <2>1, <2>2
<1> QED
  BY <1>6, <1>7

\* A row in turn that is no summary.
LEMMA StoreNext ==
  ASSUME ContextAssumption, NEW rs, StoreInv(rs), NEW row \in Rows, row.type # "compact_summary",
         row.type = "tool_result" => Answering(rs, row),
         Follows(rs, row), Above(rs, row), Straight(rs, row.run), NEW new, new = Append(rs, row)
  PROVE  StoreInv(new) /\ Straight(new, row.run)
<1>1. Unhidden(rs, row)
  BY Hides
<1>2. new \in Seq(Rows) /\ Numbered(new) /\ Timed(new) /\ CoversPast(new)
  BY <1>1, StoreOrder
<1>3. InTurn(new) /\ Straight(new, row.run)
  BY StoreTurn
<1>4. ResultsOf(new) /\ CoversWhole(new)
  BY StoreResult
<1> QED
  BY <1>2, <1>3, <1>4 DEF StoreInv

-----------------------------------------------------------------------------
(* The invariant of a session.                                             *)

States == {"idle", "compact", "model", "tools"}
Progress == {"none", "queued", "running", "done", "failed", "closing", "cut"}

LoopTypes(r, p, cp, cl, mx, ck) ==
  /\ r \in Nat /\ ck \in Nat /\ cp \in Nat /\ p \in States /\ (p # "idle" => r \in Runs)
  /\ cl \in [Calls -> Progress] /\ mx \in [Calls -> Nat]

\* Everything stored is of this run or of an earlier second.
Present(rs, r, ck) ==
  \A i \in DOMAIN rs : rs[i].at <= ck /\ rs[i].run <= r /\ (rs[i].run < r => rs[i].at < ck)

\* What was shown to the model is in the history while the context was
\* compacted once at most.
Kept(rs, cx, p, cp) ==
  cp <= 1 =>
    /\ \A i \in Range(cx) : rs[i].type = "assistant_partial" \/ i \in HistoryOf(rs)
    /\ p \in {"compact", "model"} => Range(cx) = HistoryOf(rs)

\* The round that message a asked for: after it there are only results of
\* calls that were cut, numbered from what was read after a was stored.
RoundOf(rs, cx, r, cp, cl, mx, a) ==
  /\ rs[a].type = "assistant" /\ rs[a].run = r /\ rs[a].uses > 0
  /\ \A l \in DOMAIN cx : cx[l] < a
  /\ \A j \in DOMAIN rs : a < j =>
       IsRes(rs, j) /\ rs[j].for = a /\ rs[j].run = r /\ \A k \in rs[j].answers : cl[k] = "cut"
  /\ (\A k \in Calls : cl[k] # "cut") => a = Len(rs) /\ Straight(rs, r)
  /\ \A k \in Calls : cl[k] # "none" => k \in 1..rs[a].uses
  /\ \E k \in Calls : cl[k] # "none"
  /\ \A k \in Calls : cl[k] = "closing" => rs[a].seq <= mx[k] /\ mx[k] <= Len(rs)
  /\ cp <= 1 => HistoryOf(rs) = Range(cx) \cup {i \in DOMAIN rs : a <= i}

SessionAt(rs, cx, r, p, cp, cl, mx, ck) ==
  /\ LoopTypes(r, p, cp, cl, mx, ck)
  /\ StoreInv(rs) /\ Present(rs, r, ck)
  /\ CtxWhole(rs, cx) /\ (cp = 0 => CtxOrder(rs, cx))
  /\ p \in {"compact", "model"} => Straight(rs, r)
  /\ Kept(rs, cx, p, cp)
  /\ p = "tools" => \E a \in DOMAIN rs : RoundOf(rs, cx, r, cp, cl, mx, a)

SessionInv == SessionAt(stored, ctx, run, pc, compacts, call, maxSeq, clock)

LEMMA SessionStarts ==
  ASSUME ContextAssumption, Init
  PROVE  SessionInv
<1>1. LoopTypes(run, pc, compacts, call, maxSeq, clock)
  BY DEF Init, LoopTypes, States, Progress
<1>2. PICK rs : rs = stored
  OBVIOUS
<1>3. rs \in Seq(Rows) /\ DOMAIN rs = {}
  BY <1>2 DEF Init
<1>4. StoreInv(rs)
  BY <1>3 DEF StoreInv, Numbered, Timed, InTurn, CoversPast, ResultsOf, CoversWhole
<1>5. PICK cx : cx = ctx
  OBVIOUS
<1>6. cx \in Seq(DOMAIN rs) /\ DOMAIN cx = {}
  BY <1>5 DEF Init
<1>7. CtxWhole(rs, cx) /\ CtxOrder(rs, cx)
  BY <1>6 DEF CtxWhole, Once, Asked, AnsweredIn, CtxOrder
<1>8. Present(rs, run, clock) /\ Kept(rs, cx, pc, compacts)
  BY <1>3, <1>6 DEF Present, Kept, HistoryOf, Range, Init
<1>9. pc = "idle"
  BY DEF Init
<1> QED
  BY <1>1, <1>2, <1>4, <1>5, <1>7, <1>8, <1>9 DEF SessionInv, SessionAt

-----------------------------------------------------------------------------
(* Every step keeps it.                                                    *)

\* A row of this run, now.
LEMMA RowFollows ==
  ASSUME ContextAssumption, NEW rs, StoreInv(rs), NEW r \in Nat, NEW ck \in Nat, Present(rs, r, ck),
         NEW row \in Rows, row.run = r, row.at \in Nat, ck <= row.at, row.seq \in 1..(Len(rs) + 1),
         NEW new, new = Append(rs, row)
  PROVE  Follows(rs, row) /\ Present(new, r, row.at)
<1>1. rs \in Seq(Rows)
  BY DEF StoreInv
<1>2. \A i \in DOMAIN rs : rs[i].at \in Nat /\ rs[i].run \in Nat
  BY <1>1, Fields
<1>3. \A i \in DOMAIN rs : rs[i].at <= row.at /\ rs[i].run <= r /\ (rs[i].run < r => rs[i].at < row.at)
  BY <1>2 DEF Present
<1>4. Follows(rs, row)
  BY <1>3 DEF Follows
<1>5. /\ Len(rs) \in Nat /\ DOMAIN rs = 1..Len(rs) /\ DOMAIN new = 1..(Len(rs) + 1)
      /\ new[Len(rs) + 1] = row /\ \A i \in DOMAIN rs : new[i] = rs[i]
  BY <1>1, Stored
<1>6. ASSUME NEW i \in DOMAIN new
      PROVE  new[i].at <= row.at /\ new[i].run <= r /\ (new[i].run < r => new[i].at < row.at)
  <2>1. CASE i = Len(rs) + 1
    BY <1>5, <2>1
  <2>2. CASE i # Len(rs) + 1
    <3>1. i \in DOMAIN rs /\ new[i] = rs[i]
      BY <1>5, <2>2
    <3> QED
      BY <1>3, <3>1
  <2> QED
    BY <2>1, <2>2
<1> QED
  BY <1>4, <1>6 DEF Present

\* The next number of the run.
LEMMA RowAbove ==
  ASSUME ContextAssumption, StoreInv(stored), NEW r, NEW row, row.run = r, row.seq = MaxSeqOf(r) + 1
  PROVE  Above(stored, row) /\ row.seq \in 1..(Len(stored) + 1) /\ MaxSeqOf(r) + 1 \in Nat
<1>1. stored \in Seq(Rows) /\ Numbered(stored)
  BY DEF StoreInv
<1>2. MaxSeqOf(r) \in 0..Len(stored) /\ \A i \in DOMAIN stored : stored[i].run = r => stored[i].seq <= MaxSeqOf(r)
  BY <1>1, MaxSeqIs
<1>3. Len(stored) \in Nat /\ \A i \in DOMAIN stored : stored[i].seq \in Nat
  BY <1>1, Fields
<1>4. PICK m \in Nat : m = MaxSeqOf(r)
  BY <1>2, <1>3
<1>5. \A i \in DOMAIN stored : stored[i].run = r => stored[i].seq < m + 1
  BY <1>2, <1>3, <1>4
<1> QED
  BY <1>2, <1>3, <1>4, <1>5 DEF Above

\* What a row that is no summary leaves of what is kept.
LEMMA KeptStays ==
  ASSUME ContextAssumption, NEW rs, StoreInv(rs), NEW cx, CtxWhole(rs, cx), NEW row \in Rows,
         row.type # "compact_summary", Unhidden(rs, row), NEW new, new = Append(rs, row),
         NEW p, NEW cp, Kept(rs, cx, p, cp)
  PROVE  Kept(new, cx, "idle", cp)
<1>1. rs \in Seq(Rows) /\ cx \in Seq(DOMAIN rs)
  BY DEF StoreInv, CtxWhole
<1>2. HistoryOf(rs) \subseteq HistoryOf(new)
  BY ZenonT(40), <1>1, HistoryGrows
<1>3. \A i \in DOMAIN rs : new[i] = rs[i]
  BY <1>1, Stored
<1>4. \A i \in Range(cx) : i \in DOMAIN rs
  BY <1>1 DEF Range
<1> QED
  BY <1>2, <1>3, <1>4 DEF Kept

LEMMA ToIdle ==
  ASSUME NEW rs, NEW cx, NEW r, NEW p, NEW cp, NEW cl, NEW mx, NEW ck, SessionAt(rs, cx, r, p, cp, cl, mx, ck),
         NEW cl2 \in [Calls -> Progress], NEW mx2 \in [Calls -> Nat]
  PROVE  SessionAt(rs, cx, r, "idle", cp, cl2, mx2, ck)
<1>1. LoopTypes(r, "idle", cp, cl2, mx2, ck)
  BY DEF SessionAt, LoopTypes, States
<1>2. Kept(rs, cx, "idle", cp)
  BY DEF SessionAt, Kept
<1> QED
  BY <1>1, <1>2 DEF SessionAt

LEMMA BatchIsNew ==
  ASSUME ContextAssumption, NewBatch
  PROVE  call' \in [Calls -> Progress] /\ maxSeq' \in [Calls -> Nat]
BY DEF NewBatch, Progress

LEMMA FailKeeps ==
  ASSUME ContextAssumption, SessionInv, Fail \/ BatchFailed
  PROVE  SessionInv'
<1>1. EndRun /\ UNCHANGED <<stored, ctx, run, compacts, clock>>
  BY DEF Fail, BatchFailed
<1>2. pc' = "idle" /\ call' \in [Calls -> Progress] /\ maxSeq' \in [Calls -> Nat]
  BY <1>1, BatchIsNew DEF EndRun
<1>3. SessionAt(stored, ctx, run, "idle", compacts, call', maxSeq', clock)
  BY <1>2, ToIdle DEF SessionInv
<1> QED
  BY <1>1, <1>2, <1>3 DEF SessionInv

LEMMA StopKeeps ==
  ASSUME ContextAssumption, SessionInv, Stop
  PROVE  SessionInv'
BY DEF Stop, batch, SessionInv

LEMMA NoCompactKeeps ==
  ASSUME ContextAssumption, SessionInv, NoCompact
  PROVE  SessionInv'
<1>1. pc = "compact" /\ pc' = "model" /\ UNCHANGED <<stored, ctx, run, compacts, call, maxSeq, clock>>
  BY DEF NoCompact, batch
<1>2. SessionAt(stored, ctx, run, "compact", compacts, call, maxSeq, clock)
  BY <1>1 DEF SessionInv
<1>3. LoopTypes(run, "model", compacts, call, maxSeq, clock) /\ Kept(stored, ctx, "model", compacts)
  BY <1>2 DEF SessionAt, LoopTypes, States, Kept
<1>4. SessionAt(stored, ctx, run, "model", compacts, call, maxSeq, clock)
  BY <1>2, <1>3 DEF SessionAt
<1> QED
  BY <1>1, <1>4 DEF SessionInv

LEMMA RangeAppend ==
  ASSUME NEW S, NEW cx \in Seq(S), NEW x, NEW cy, cy = Append(cx, x)
  PROVE  Range(cy) = Range(cx) \cup {x}
<1>1. cx \in Seq(S \cup {x}) /\ x \in S \cup {x}
  OBVIOUS
<1>2. /\ DOMAIN cy = 1..(Len(cx) + 1) /\ Len(cx) \in Nat /\ DOMAIN cx = 1..Len(cx)
      /\ cy[Len(cx) + 1] = x /\ \A l \in 1..Len(cx) : cy[l] = cx[l]
  BY <1>1
<1>3. \A l \in DOMAIN cy : l = Len(cx) + 1 \/ l \in DOMAIN cx
  BY <1>2
<1>4. Len(cx) + 1 \in DOMAIN cy /\ \A l \in DOMAIN cx : l \in DOMAIN cy /\ cy[l] = cx[l]
  BY <1>2
<1>5. \A i : (i \in Range(cy) <=> \E l \in DOMAIN cy : cy[l] = i) /\ (i \in Range(cx) <=> \E l \in DOMAIN cx : cx[l] = i)
  BY DEF Range
<1>6. \A i : i \in Range(cy) => i \in Range(cx) \cup {x}
  BY <1>2, <1>3, <1>4, <1>5
<1>7. x \in Range(cy) /\ \A i \in Range(cx) : i \in Range(cy)
  BY <1>2, <1>4, <1>5
<1> QED
  BY <1>6, <1>7

\* A run begins with what its user says.
LEMMA StartRunKeeps ==
  ASSUME ContextAssumption, ~FastUser, SessionInv, StartRun
  PROVE  SessionInv'
<1>1. /\ SessionAt(stored, ctx, run, pc, compacts, call, maxSeq, clock)
      /\ run \in Nat /\ clock \in Nat /\ StoreInv(stored) /\ Present(stored, run, clock)
      /\ call \in [Calls -> Progress] /\ maxSeq \in [Calls -> Nat]
  BY DEF SessionInv, SessionAt, LoopTypes
<1>2. /\ run < MaxRuns /\ run' = run + 1 /\ pc' = "compact" /\ compacts' = 0 /\ clock' = clock + 1
      /\ stored' = Append(stored, Message(run + 1, 1, "user_input", clock'))
      /\ ctx' = Append(Reloaded, Len(stored) + 1)
      /\ UNCHANGED <<call, maxSeq>>
  BY DEF StartRun, InitialContext, NewId, batch
<1>3. PICK rs : rs = stored
  OBVIOUS
<1>4. PICK new : new = stored'
  OBVIOUS
<1>5. PICK row : row = Message(run + 1, 1, "user_input", clock + 1)
  OBVIOUS
<1>6. run + 1 \in Runs /\ run + 1 \in Nat /\ clock + 1 \in Nat
  BY <1>1, <1>2 DEF Runs, ContextAssumption
<1>7. row \in Rows /\ row.run = run + 1 /\ row.seq = 1 /\ row.type = "user_input" /\ row.at = clock + 1
  <2>1. "user_input" \in Types /\ 1 \in Nat
    BY DEF Types
  <2>2. PICK r \in Runs : r = run + 1
    BY <1>6
  <2>3. PICK at \in Nat : at = clock + 1
    BY <1>6
  <2>4. row = Message(r, 1, "user_input", at)
    BY <1>5, <2>2, <2>3
  <2>5. row \in Rows /\ row.run = r /\ row.seq = 1 /\ row.type = "user_input" /\ row.at = at
    BY <2>1, <2>4, MessageIs
  <2> QED
    BY <2>2, <2>3, <2>5
<1>8. new = Append(rs, row) /\ StoreInv(rs)
  BY <1>1, <1>2, <1>3, <1>4, <1>5
<1>9. rs \in Seq(Rows) /\ Len(rs) \in Nat
  BY <1>8, Fields DEF StoreInv
<1>10. \A i \in DOMAIN rs : rs[i].run \in Nat /\ rs[i].at \in Nat
  BY <1>9, Fields
<1>11. \A i \in DOMAIN rs : rs[i].at < clock + 1 /\ rs[i].run < run + 1
  BY <1>1, <1>3, <1>10 DEF Present
<1>12. Present(rs, run + 1, clock + 1)
  BY <1>1, <1>6, <1>10, <1>11 DEF Present
<1>13. Follows(rs, row) /\ Present(new, run + 1, clock + 1)
  <2>1. 1 \in 1..(Len(rs) + 1) /\ clock + 1 <= clock + 1
    BY <1>6, <1>9
  <2> QED
    BY <1>6, <1>7, <1>8, <1>12, <2>1, RowFollows
<1>14. Above(rs, row) /\ Straight(rs, row.run)
  <2>1. \A i \in DOMAIN rs : rs[i].run # row.run
    BY <1>1, <1>7, <1>10, <1>11
  <2> QED
    BY <2>1 DEF Above, Straight
<1>15. StoreInv(new) /\ Straight(new, run + 1)
  BY <1>7, <1>8, <1>13, <1>14, StoreNext
<1>16. PICK cx : cx = Reloaded
  OBVIOUS
<1>17. /\ cx \in Seq(HistoryOf(rs)) /\ \A m, n \in DOMAIN cx : m < n => Sooner(rs, cx[m], cx[n])
       /\ \A i \in HistoryOf(rs) : \E n \in DOMAIN cx : cx[n] = i
  BY <1>3, <1>9, <1>16, ReloadedIs
<1>18. CtxWhole(rs, cx) /\ CtxOrder(rs, cx)
  BY <1>8, <1>17, LoadedWhole
<1>19. PICK cy : cy = ctx'
  OBVIOUS
<1>20. cy = Append(cx, Len(rs) + 1)
  BY <1>2, <1>3, <1>16, <1>19
<1>21. CtxWhole(new, cy) /\ CtxOrder(new, cy)
  BY <1>7, <1>8, <1>14, <1>18, <1>20, CtxGrows
<1>22. HistoryOf(new) = HistoryOf(rs) \cup {Len(rs) + 1}
  <2>1. Unhidden(rs, row)
    BY <1>7, <1>8, <1>13, <1>14, Hides
  <2> QED
    BY <1>7, <1>8, <1>9, <2>1, HistoryGrows
<1>23. Range(cy) = HistoryOf(rs) \cup {Len(rs) + 1}
  <2>1. Range(cy) = Range(cx) \cup {Len(rs) + 1}
    BY <1>17, <1>20, RangeAppend
  <2>2. \A i : i \in Range(cx) <=> \E l \in DOMAIN cx : cx[l] = i
    BY DEF Range
  <2>3. \A l \in DOMAIN cx : cx[l] \in HistoryOf(rs)
    BY <1>17
  <2> QED
    BY <1>17, <2>1, <2>2, <2>3
<1>24. Kept(new, cy, "compact", 0)
  BY <1>22, <1>23 DEF Kept
<1>25. LoopTypes(run', "compact", 0, call', maxSeq', clock')
  BY <1>1, <1>2, <1>6 DEF LoopTypes, States
<1>26. SessionAt(new, cy, run', "compact", 0, call', maxSeq', clock')
  BY <1>2, <1>13, <1>15, <1>21, <1>24, <1>25 DEF SessionAt
<1> QED
  BY <1>2, <1>4, <1>19, <1>26 DEF SessionInv

\* What stands at a boundary or before it.
LEMMA CoversSpan ==
  ASSUME ContextAssumption, StoreInv(stored), CtxWhole(stored, ctx), NEW keep \in Nat, keep + 1 \in DOMAIN ctx,
         NEW early, early = {ctx[n] : n \in 1..keep}
  PROVE  /\ CoveredThrough(early) \in [Runs -> Nat] /\ Spans(stored, ctx, keep, CoveredThrough(early))
         /\ Told(early) \in SUBSET Nat
<1>1. stored \in Seq(Rows) /\ ctx \in Seq(DOMAIN stored)
  BY DEF StoreInv, CtxWhole
<1>2. DOMAIN ctx = 1..Len(ctx) /\ Len(ctx) \in Nat /\ Len(stored) \in Nat /\ DOMAIN stored = 1..Len(stored)
  BY <1>1, Fields
<1>3. \A l \in 1..keep : l \in DOMAIN ctx
  BY <1>2
<1>4. \A l \in DOMAIN ctx : l \in Nat /\ ctx[l] \in DOMAIN stored
  BY <1>1, <1>2, ElementOfSeq
<1>5. early \subseteq DOMAIN stored
  BY <1>3, <1>4
<1>6. \A i \in DOMAIN stored : stored[i].seq \in 0..Len(stored) /\ stored[i].seq \in Nat
  <2>1. \A i \in DOMAIN stored : stored[i].seq \in 1..i /\ i \in 1..Len(stored)
    BY <1>2 DEF StoreInv, Numbered
  <2> QED
    BY <1>2, <2>1
<1> DEFINE seqs(r) == {0} \cup {stored[i].seq : i \in {j \in early : stored[j].run = r}}
           c == CoveredThrough(early)
<1>7. ASSUME NEW r \in Runs
      PROVE  Max(seqs(r)) \in seqs(r) /\ \A m \in seqs(r) : m <= Max(seqs(r))
  <2>1. seqs(r) \in SUBSET (0..Len(stored)) /\ seqs(r) # {}
    BY <1>2, <1>5, <1>6
  <2> QED
    BY <1>2, <2>1, Greatest
<1>8. c = [r \in Runs |-> Max(seqs(r))]
  BY DEF CoveredThrough
<1> HIDE DEF c
<1>9. ASSUME NEW r \in Runs
      PROVE  /\ c[r] \in Nat
             /\ \A i \in early : stored[i].run = r => stored[i].seq <= c[r]
             /\ c[r] = 0 \/ \E i \in early : stored[i].run = r /\ stored[i].seq = c[r]
  <2>1. c[r] = Max(seqs(r))
    BY <1>8
  <2>2. c[r] \in seqs(r) /\ \A m \in seqs(r) : m <= c[r]
    BY <1>7, <2>1
  <2> QED
    BY SMTT(20), <1>5, <1>6, <2>2
<1>10. c \in [Runs -> Nat]
  <2>1. \A r \in Runs : Max(seqs(r)) \in Nat
    BY <1>8, <1>9
  <2> HIDE DEF seqs
  <2> QED
    BY <1>8, <2>1
<1>11. Spans(stored, ctx, keep, c)
  <2> SUFFICES ASSUME NEW r \in Runs
               PROVE  /\ \A l \in DOMAIN ctx : l <= keep /\ stored[ctx[l]].run = r => stored[ctx[l]].seq <= c[r]
                      /\ c[r] = 0 \/ \E l \in DOMAIN ctx : l <= keep /\ stored[ctx[l]].run = r /\ stored[ctx[l]].seq = c[r]
    BY DEF Spans
  <2>1. ASSUME NEW l \in DOMAIN ctx, l <= keep PROVE ctx[l] \in early
    <3>1. l \in 1..keep
      BY <1>2, <2>1
    <3> QED
      BY <3>1
  <2>2. \A i \in early : \E l \in DOMAIN ctx : l <= keep /\ ctx[l] = i
    BY <1>3
  <2> HIDE DEF seqs
  <2> QED
    BY <1>9, <2>1, <2>2
<1>12. Told(early) \in SUBSET Nat
  <2>1. \A i \in DOMAIN stored : stored[i].gist \subseteq Nat /\ i \in Nat
    <3>1. \A i \in DOMAIN stored : stored[i] \in Rows /\ i \in Nat
      BY <1>1, <1>2, Fields
    <3>2. \A w \in Rows : w.gist \subseteq Nat
      BY DEF Rows
    <3> QED
      BY <3>1, <3>2
  <2>2. Direct(early) \subseteq Nat
    BY <1>5, <2>1 DEF Direct
  <2>3. UNION {stored[s].gist : s \in early \cap Of("compact_summary")} \subseteq Nat
    BY <1>5, <2>1
  <2> QED
    BY <2>2, <2>3 DEF Told
<1> QED
  BY <1>10, <1>11, <1>12 DEF c

LEMMA CompactKeeps ==
  ASSUME ContextAssumption, SessionInv, Compact
  PROVE  SessionInv'
<1>1. /\ run \in Nat /\ run \in Runs /\ clock \in Nat /\ compacts \in Nat /\ StoreInv(stored) /\ Present(stored, run, clock)
      /\ CtxWhole(stored, ctx) /\ (compacts = 0 => CtxOrder(stored, ctx)) /\ Straight(stored, run)
      /\ Kept(stored, ctx, "compact", compacts)
      /\ call \in [Calls -> Progress] /\ maxSeq \in [Calls -> Nat]
  BY DEF SessionInv, SessionAt, LoopTypes, Compact
<1>2. PICK keepCount \in 1..(Len(ctx) - 1) :
        LET keepStart == AlignKeepStart(Len(ctx) - keepCount)
            early == {ctx[n] : n \in 1..keepStart}
            summary == [Message(run, MaxSeqOf(run) + 1, "compact_summary", clock)
                          EXCEPT !.covers = CoveredThrough(early), !.gist = Told(early)]
        IN /\ keepStart > 0
           /\ stored' = Append(stored, summary)
           /\ ctx' = <<NewId>> \o SubSeq(ctx, keepStart + 1, Len(ctx))
  BY DEF Compact
<1>3. compacts' = compacts + 1 /\ pc' = "model" /\ UNCHANGED <<run, call, maxSeq, clock>>
  BY DEF Compact, batch
<1>4. PICK keep : keep = AlignKeepStart(Len(ctx) - keepCount)
  OBVIOUS
<1>5. PICK early : early = {ctx[n] : n \in 1..keep}
  OBVIOUS
<1>6. PICK row : row = [Message(run, MaxSeqOf(run) + 1, "compact_summary", clock)
                          EXCEPT !.covers = CoveredThrough(early), !.gist = Told(early)]
  OBVIOUS
<1>7. keep > 0 /\ stored' = Append(stored, row) /\ ctx' = <<Len(stored) + 1>> \o SubSeq(ctx, keep + 1, Len(ctx))
  BY <1>2, <1>4, <1>5, <1>6 DEF NewId
<1>8. stored \in Seq(Rows) /\ ctx \in Seq(DOMAIN stored) /\ Len(ctx) \in Nat /\ DOMAIN ctx = 1..Len(ctx)
  <2>1. stored \in Seq(Rows) /\ ctx \in Seq(DOMAIN stored)
    BY <1>1 DEF StoreInv, CtxWhole
  <2> QED
    BY <2>1
<1>9. keep \in Nat /\ keep + 1 \in DOMAIN ctx /\ ~IsRes(stored, ctx[keep + 1])
  <2>1. PICK n \in Nat : n = Len(ctx) - keepCount /\ n < Len(ctx)
    <3>1. keepCount \in Nat /\ 1 <= keepCount /\ keepCount <= Len(ctx) - 1
      BY <1>8
    <3>2. Len(ctx) - keepCount \in Nat /\ Len(ctx) - keepCount < Len(ctx)
      BY <1>8, <3>1
    <3> QED
      BY <3>2
  <2>2. PICK S : S = {0} \cup {m \in 1..n : Boundary(m)}
    OBVIOUS
  <2>3. S \in SUBSET (0..n) /\ S # {}
    BY <2>1, <2>2
  <2>4. keep = Max(S)
    BY <1>4, <2>1, <2>2 DEF AlignKeepStart
  <2>5. keep \in S
    BY <2>1, <2>3, <2>4, Greatest
  <2>6. keep \in 1..n /\ Boundary(keep)
    BY <1>7, <2>2, <2>5
  <2>7. keep \in Nat /\ keep + 1 \in 1..Len(ctx)
    BY <1>8, <2>1, <2>6
  <2> QED
    BY <1>8, <2>6, <2>7 DEF Boundary, IsResult, IsRes
<1>10. PICK c : c = CoveredThrough(early)
  OBVIOUS
<1>11. c \in [Runs -> Nat] /\ Spans(stored, ctx, keep, c) /\ Told(early) \in SUBSET Nat
  BY <1>1, <1>5, <1>9, <1>10, CoversSpan
<1>12. PICK q : q = MaxSeqOf(run) + 1
  OBVIOUS
<1>13. q \in Nat
  <2>1. MaxSeqOf(run) \in 0..Len(stored)
    BY <1>1, <1>8, MaxSeqIs DEF StoreInv
  <2> QED
    BY <1>8, <1>12, <2>1
<1>14. row \in Rows /\ row.run = run /\ row.seq = q /\ row.type = "compact_summary" /\ row.at = clock /\ row.covers = c
  <2>1. PICK g \in SUBSET Nat : g = Told(early)
    BY <1>11
  <2>2. PICK r \in Runs : r = run
    BY <1>1
  <2>3. PICK at \in Nat : at = clock
    BY <1>1
  <2>4. row = [Message(r, q, "compact_summary", at) EXCEPT !.covers = c, !.gist = g]
    BY <1>6, <1>10, <1>12, <2>1, <2>2, <2>3
  <2>5. /\ row \in Rows /\ row.run = r /\ row.seq = q /\ row.type = "compact_summary" /\ row.at = at
        /\ row.covers = c
    BY <1>11, <1>13, <2>4 DEF Message, Rows, Types
  <2> QED
    BY <2>2, <2>3, <2>5
<1>15. PICK rs : rs = stored
  OBVIOUS
<1>16. PICK new : new = stored'
  OBVIOUS
<1>17. PICK cx : cx = ctx
  OBVIOUS
<1>18. PICK cy : cy = ctx'
  OBVIOUS
<1>19. Above(rs, row) /\ row.seq \in 1..(Len(rs) + 1)
  BY <1>1, <1>12, <1>14, <1>15, RowAbove
<1>20. new = Append(rs, row) /\ cy = <<Len(rs) + 1>> \o SubSeq(cx, keep + 1, Len(cx))
  BY <1>7, <1>15, <1>16, <1>17, <1>18
<1>0. /\ StoreInv(rs) /\ CtxWhole(rs, cx) /\ keep + 1 \in DOMAIN cx /\ ~IsRes(rs, cx[keep + 1])
      /\ Spans(rs, cx, keep, row.covers)
  BY <1>1, <1>9, <1>11, <1>14, <1>15, <1>17
<1>21. Follows(rs, row) /\ Present(new, run, clock)
  <2>1. clock <= clock
    BY <1>1
  <2> QED
    BY <1>1, <1>14, <1>15, <1>19, <1>20, <2>1, RowFollows
<1>22. Unhidden(rs, row)
  BY <1>1, <1>14, <1>15, <1>19, <1>21, Hides
<1>23. StoreInv(new) /\ Straight(new, run)
  <2>1. new \in Seq(Rows) /\ Numbered(new) /\ Timed(new)
    BY <1>1, <1>14, <1>15, <1>20, <1>21, <1>22, StoreOrder
  <2>2. InTurn(new) /\ Straight(new, run)
    BY <1>1, <1>14, <1>15, <1>19, <1>20, StoreTurn
  <2>3. ResultsOf(new)
    BY <1>1, <1>14, <1>15, <1>20, StoreResult
  <2>4. CoversPast(new) /\ CoversWhole(new)
    BY <1>0, <1>9, <1>14, <1>19, <1>20, <1>21, <1>22, StoreSummary
  <2> QED
    BY <2>1, <2>2, <2>3, <2>4 DEF StoreInv
<1>24. /\ CtxWhole(new, cy)
       /\ Remains(cx, keep, Len(rs) + 1, Range(cy))
  <2>1. 0 < keep
    BY <1>7
  <2> QED
    BY <1>0, <1>9, <1>14, <1>20, <2>1, CtxCut
<1>25. Kept(new, cy, "model", compacts + 1)
  <2>1. SUFFICES ASSUME compacts = 0 PROVE Range(cy) = HistoryOf(new)
    <3>1. compacts + 1 <= 1 => compacts = 0
      BY <1>1
    <3> QED
      BY <3>1 DEF Kept
  <2>2. CtxOrder(rs, cx) /\ Range(cx) = HistoryOf(rs)
    BY <1>1, <1>15, <1>17, <2>1 DEF Kept
  <2>3. row.covers[row.run] < row.seq
    <3>1. CoversPast(new)
      BY <1>23 DEF StoreInv
    <3>2. Len(rs) + 1 \in DOMAIN new /\ new[Len(rs) + 1] = row /\ Len(rs) + 1 \in Nat
      BY <1>8, <1>14, <1>15, <1>20, Stored
    <3>3. PICK id : id = Len(rs) + 1
      OBVIOUS
    <3>4. id \in DOMAIN new /\ IsSum(new, id) /\ id <= id /\ new[id] = row
      BY <1>14, <3>2, <3>3 DEF IsSum
    <3>5. new[id].covers[new[id].run] < new[id].seq
      BY <3>1, <3>4 DEF CoversPast
    <3> QED
      BY <3>4, <3>5
  <2>4. Remains(cx, keep, Len(rs) + 1, HistoryOf(new))
    BY <1>0, <1>9, <1>14, <1>19, <1>20, <1>22, <2>2, <2>3, HistoryCut
  <2> QED
    BY <1>24, <2>4 DEF Remains
<1>26. LoopTypes(run, "model", compacts + 1, call, maxSeq, clock)
  BY <1>1 DEF LoopTypes, States
<1>27. SessionAt(new, cy, run, "model", compacts + 1, call, maxSeq, clock)
  <2>1. compacts + 1 # 0
    BY <1>1
  <2> QED
    BY <1>21, <1>23, <1>24, <1>25, <1>26, <2>1 DEF SessionAt
<1> QED
  BY <1>3, <1>16, <1>18, <1>27 DEF SessionInv

LEMMA ModelRoundKeeps ==
  ASSUME ContextAssumption, SessionInv, ModelRound
  PROVE  SessionInv'
<1>1. /\ run \in Nat /\ run \in Runs /\ clock \in Nat /\ compacts \in Nat /\ StoreInv(stored) /\ Present(stored, run, clock)
      /\ CtxWhole(stored, ctx) /\ (compacts = 0 => CtxOrder(stored, ctx)) /\ Straight(stored, run)
      /\ Kept(stored, ctx, "model", compacts)
      /\ call \in [Calls -> Progress] /\ maxSeq \in [Calls -> Nat]
  BY DEF SessionInv, SessionAt, LoopTypes, ModelRound
<1>2. PICK uses \in 0..MaxCalls, D \in SUBSET Calls :
       /\ stored' = Append(stored,
            [Message(run, MaxSeqOf(run) + 1, "assistant", clock + 1) EXCEPT !.uses = uses])
       /\ \/ /\ uses > 0 /\ pc' = "tools"
             /\ call' = [k \in Calls |-> IF k <= uses THEN "queued" ELSE "none"]
             /\ UNCHANGED maxSeq
          \/ EndRun
  BY DEF ModelRound
<1>3. clock' = clock + 1 /\ UNCHANGED <<ctx, run, compacts>>
  BY DEF ModelRound
<1>4. PICK q : q = MaxSeqOf(run) + 1
  OBVIOUS
<1>5. PICK at \in Nat : at = clock + 1 /\ clock <= at
  BY <1>1
<1>6. PICK row : row = [Message(run, q, "assistant", at) EXCEPT !.uses = uses]
  OBVIOUS
<1>7. q \in Nat
  <2>1. stored \in Seq(Rows) /\ Numbered(stored)
    BY <1>1 DEF StoreInv
  <2>2. MaxSeqOf(run) \in 0..Len(stored) /\ Len(stored) \in Nat
    BY <2>1, MaxSeqIs, Fields
  <2> QED
    BY <1>4, <2>2
<1>8. row \in Rows /\ row.run = run /\ row.seq = q /\ row.type = "assistant" /\ row.at = at /\ row.uses = uses
  <2>1. uses \in Nat
    BY DEF ContextAssumption
  <2> QED
    BY <1>1, <1>6, <1>7, <2>1 DEF Message, Rows, Types
<1>9. PICK rs : rs = stored
  OBVIOUS
<1>10. PICK new : new = stored'
  OBVIOUS
<1>11. PICK cx : cx = ctx
  OBVIOUS
<1>12. /\ StoreInv(rs) /\ CtxWhole(rs, cx) /\ (compacts = 0 => CtxOrder(rs, cx)) /\ Straight(rs, row.run)
       /\ Kept(rs, cx, "model", compacts) /\ Present(rs, run, clock)
       /\ new = Append(rs, row)
  BY <1>1, <1>2, <1>4, <1>5, <1>6, <1>8, <1>9, <1>10, <1>11
<1>13. Above(rs, row) /\ row.seq \in 1..(Len(rs) + 1)
  BY <1>1, <1>4, <1>8, <1>9, RowAbove
<1>14. Follows(rs, row) /\ Present(new, run, at)
  BY <1>1, <1>5, <1>8, <1>12, <1>13, RowFollows
<1>15. Unhidden(rs, row)
  BY <1>8, <1>12, <1>13, <1>14, Hides
<1>16. StoreInv(new) /\ Straight(new, run)
  BY <1>8, <1>12, <1>13, <1>14, StoreNext
<1>17. CtxWhole(new, cx) /\ (compacts = 0 => CtxOrder(new, cx))
  BY <1>8, <1>12, CtxKeeps
<1>18. Kept(new, cx, "idle", compacts)
  BY <1>8, <1>12, <1>15, KeptStays
<1>19. CASE EndRun
  <2>1. pc' = "idle" /\ call' \in [Calls -> Progress] /\ maxSeq' \in [Calls -> Nat]
    BY <1>19, BatchIsNew DEF EndRun
  <2>2. LoopTypes(run, "idle", compacts, call', maxSeq', at)
    BY <1>1, <2>1 DEF LoopTypes, States
  <2>3. SessionAt(new, cx, run, "idle", compacts, call', maxSeq', at)
    BY <1>14, <1>16, <1>17, <1>18, <2>2 DEF SessionAt
  <2> QED
    BY <1>3, <1>5, <1>10, <1>11, <2>1, <2>3 DEF SessionInv
<1>20. CASE /\ uses > 0 /\ pc' = "tools"
            /\ call' = [k \in Calls |-> IF k <= uses THEN "queued" ELSE "none"]
            /\ UNCHANGED maxSeq
  <2>1. PICK cl : cl = call'
    OBVIOUS
  <2>2. cl \in [Calls -> Progress] /\ \A k \in Calls : cl[k] \in {"queued", "none"} /\ (cl[k] # "none" => k <= uses)
    <3>1. cl = [k \in Calls |-> IF k <= uses THEN "queued" ELSE "none"]
      BY <1>20, <2>1
    <3> QED
      BY <3>1 DEF Progress
  <2>3. LoopTypes(run, "tools", compacts, cl, maxSeq, at)
    BY <1>1, <2>2 DEF LoopTypes, States
  <2>4. PICK a : a = Len(rs) + 1
    OBVIOUS
  <2>5. /\ rs \in Seq(Rows) /\ Len(rs) \in Nat /\ a \in Nat
        /\ DOMAIN new = 1..a /\ a \in DOMAIN new /\ new[a] = row /\ Len(new) = a /\ DOMAIN rs = 1..Len(rs)
    <3>1. rs \in Seq(Rows)
      BY <1>12 DEF StoreInv
    <3>2. /\ Len(new) = Len(rs) + 1 /\ Len(rs) \in Nat
          /\ DOMAIN rs = 1..Len(rs) /\ DOMAIN new = 1..(Len(rs) + 1) /\ new[Len(rs) + 1] = row
      BY <1>8, <1>12, <3>1, Stored
    <3> QED
      BY <2>4, <3>1, <3>2
  <2>6. \A l \in DOMAIN cx : cx[l] < a
    <3>1. \A l \in DOMAIN cx : cx[l] \in 1..Len(rs)
      BY <1>12, <2>5, CtxRows
    <3> QED
      BY <2>4, <2>5, <3>1
  <2>7. compacts <= 1 => HistoryOf(new) = Range(cx) \cup {i \in DOMAIN new : a <= i}
    <3>1. HistoryOf(new) = HistoryOf(rs) \cup {a}
      BY <1>8, <1>12, <1>15, <2>4, <2>5, HistoryGrows
    <3>2. {i \in DOMAIN new : a <= i} = {a}
      BY <2>5
    <3>3. compacts <= 1 => Range(cx) = HistoryOf(rs)
      BY <1>12 DEF Kept
    <3> QED
      BY <3>1, <3>2, <3>3
  <2>8. \A j \in DOMAIN new : ~(a < j)
    BY <2>5
  <2>9. \A k \in Calls : cl[k] # "none" => k \in 1..uses
    <3>1. \A k \in Calls : k \in Nat /\ 1 <= k
      BY DEF Calls, ContextAssumption
    <3>2. uses \in Nat
      BY DEF ContextAssumption
    <3> QED
      BY <2>2, <3>1, <3>2
  <2>10. RoundOf(new, cx, run, compacts, cl, maxSeq, a)
    <3>1. /\ new[a].type = "assistant" /\ new[a].run = run /\ new[a].uses > 0
          /\ \A k \in Calls : cl[k] # "none" => k \in 1..new[a].uses
      BY <1>8, <1>20, <2>5, <2>9
    <3>2. \A k \in Calls : cl[k] # "closing"
      BY <2>2
    <3>3. a = Len(new)
      BY <2>5
    <3>4. \E k \in Calls : cl[k] # "none"
      <4>1. 1 \in Calls /\ 1 <= uses
        BY <1>20 DEF Calls, ContextAssumption
      <4>2. cl[1] = "queued"
        BY <1>20, <2>1, <4>1
      <4> QED
        BY <4>1, <4>2
    <3> QED
      BY <1>16, <2>6, <2>7, <2>8, <3>1, <3>2, <3>3, <3>4 DEF RoundOf
  <2>11. Kept(new, cx, "tools", compacts)
    BY <1>18 DEF Kept
  <2>12. SessionAt(new, cx, run, "tools", compacts, cl, maxSeq, at)
    BY <1>14, <1>16, <1>17, <2>3, <2>5, <2>10, <2>11 DEF SessionAt
  <2> QED
    BY <1>3, <1>5, <1>10, <1>11, <1>20, <2>1, <2>12 DEF SessionInv
<1> QED
  BY <1>2, <1>19, <1>20

\* What came of a stream that was cut.
LEMMA ModelCutKeeps ==
  ASSUME ContextAssumption, SessionInv, ModelCut
  PROVE  SessionInv'
<1>1. /\ run \in Nat /\ run \in Runs /\ clock \in Nat /\ compacts \in Nat /\ StoreInv(stored) /\ Present(stored, run, clock)
      /\ CtxWhole(stored, ctx) /\ (compacts = 0 => CtxOrder(stored, ctx)) /\ Straight(stored, run)
      /\ Kept(stored, ctx, "model", compacts)
  BY DEF SessionInv, SessionAt, LoopTypes, ModelCut
<1>2. /\ stored' = Append(stored, Message(run, MaxSeqOf(run) + 1, "assistant_partial", clock + 1))
      /\ ctx' = Append(ctx, Len(stored) + 1) /\ EndRun /\ clock' = clock + 1 /\ UNCHANGED <<run, compacts>>
  BY DEF ModelCut, NewId
<1>3. PICK q : q = MaxSeqOf(run) + 1
  OBVIOUS
<1>4. PICK at \in Nat : at = clock + 1 /\ clock <= at
  BY <1>1
<1>5. PICK row : row = Message(run, q, "assistant_partial", at)
  OBVIOUS
<1>6. q \in Nat
  <2>1. stored \in Seq(Rows) /\ Numbered(stored)
    BY <1>1 DEF StoreInv
  <2>2. MaxSeqOf(run) \in 0..Len(stored) /\ Len(stored) \in Nat
    BY <2>1, MaxSeqIs, Fields
  <2> QED
    BY <1>3, <2>2
<1>7. row \in Rows /\ row.run = run /\ row.seq = q /\ row.type = "assistant_partial" /\ row.at = at
  <2>1. "assistant_partial" \in Types
    BY DEF Types
  <2> QED
    BY <1>1, <1>5, <1>6, <2>1, MessageIs
<1>8. PICK rs : rs = stored
  OBVIOUS
<1>9. PICK new : new = stored'
  OBVIOUS
<1>10. PICK cx : cx = ctx
  OBVIOUS
<1>11. PICK cy : cy = ctx'
  OBVIOUS
<1>12. /\ StoreInv(rs) /\ CtxWhole(rs, cx) /\ (compacts = 0 => CtxOrder(rs, cx)) /\ Straight(rs, row.run)
       /\ Kept(rs, cx, "model", compacts) /\ Present(rs, run, clock)
       /\ new = Append(rs, row) /\ cy = Append(cx, Len(rs) + 1)
  BY <1>1, <1>2, <1>3, <1>4, <1>5, <1>7, <1>8, <1>9, <1>10, <1>11
<1>13. Above(rs, row) /\ row.seq \in 1..(Len(rs) + 1)
  BY <1>1, <1>3, <1>7, <1>8, RowAbove
<1>14. Follows(rs, row) /\ Present(new, run, at)
  BY <1>1, <1>4, <1>7, <1>12, <1>13, RowFollows
<1>15. Unhidden(rs, row)
  BY <1>7, <1>12, <1>13, <1>14, Hides
<1>16. StoreInv(new)
  BY <1>7, <1>12, <1>13, <1>14, StoreNext
<1>17. CtxWhole(new, cy) /\ (compacts = 0 => CtxOrder(new, cy))
  BY <1>7, <1>12, <1>13, CtxGrows
<1>18. Kept(new, cy, "idle", compacts)
  <2>1. Kept(new, cx, "idle", compacts)
    BY <1>7, <1>12, <1>15, KeptStays
  <2>2. Range(cy) = Range(cx) \cup {Len(rs) + 1}
    <3>1. cx \in Seq(DOMAIN rs)
      BY <1>12 DEF CtxWhole
    <3> QED
      BY <1>12, <3>1, RangeAppend
  <2>3. new[Len(rs) + 1].type = "assistant_partial"
    <3>1. rs \in Seq(Rows)
      BY <1>12 DEF StoreInv
    <3>2. new[Len(rs) + 1] = row
      BY <1>7, <1>12, <3>1, Stored
    <3> QED
      BY <1>7, <3>2
  <2> QED
    BY <2>1, <2>2, <2>3 DEF Kept
<1>19. pc' = "idle" /\ call' \in [Calls -> Progress] /\ maxSeq' \in [Calls -> Nat]
  BY <1>2, BatchIsNew DEF EndRun
<1>20. LoopTypes(run, "idle", compacts, call', maxSeq', at)
  BY <1>1, <1>19 DEF LoopTypes, States
<1>21. SessionAt(new, cy, run, "idle", compacts, call', maxSeq', at)
  BY <1>14, <1>16, <1>17, <1>18, <1>20 DEF SessionAt
<1> QED
  BY <1>2, <1>4, <1>9, <1>11, <1>19, <1>21 DEF SessionInv

-----------------------------------------------------------------------------
(* The calls of a round.                                                   *)

LEMMA RoundFacts ==
  ASSUME ContextAssumption, SessionInv, pc = "tools"
  PROVE  /\ run \in Nat /\ run \in Runs /\ clock \in Nat /\ compacts \in Nat /\ StoreInv(stored)
         /\ Present(stored, run, clock) /\ CtxWhole(stored, ctx) /\ (compacts = 0 => CtxOrder(stored, ctx))
         /\ Kept(stored, ctx, "tools", compacts)
         /\ call \in [Calls -> Progress] /\ maxSeq \in [Calls -> Nat]
         /\ \E a \in DOMAIN stored : RoundOf(stored, ctx, run, compacts, call, maxSeq, a)
BY DEF SessionInv, SessionAt, LoopTypes

\* A call goes on: none that was cut or had not begun is another thing now.
LEMMA CallGoesOn ==
  ASSUME ContextAssumption, SessionInv, pc = "tools", pc' = "tools",
         NEW k \in Calls, call[k] \notin {"none", "cut"}, NEW to \in Progress, to \notin {"none", "cut"},
         call' = [call EXCEPT ![k] = to],
         \A a \in DOMAIN stored : RoundOf(stored, ctx, run, compacts, call, maxSeq, a) =>
           (to = "closing" => stored[a].seq <= maxSeq'[k] /\ maxSeq'[k] <= Len(stored)),
         \A j \in Calls : j # k => maxSeq'[j] = maxSeq[j], maxSeq' \in [Calls -> Nat],
         clock' \in {clock, clock + 1}, UNCHANGED <<stored, ctx, run, compacts>>
  PROVE  SessionInv'
<1>1. /\ run \in Nat /\ run \in Runs /\ clock \in Nat /\ compacts \in Nat /\ StoreInv(stored)
      /\ Present(stored, run, clock) /\ CtxWhole(stored, ctx) /\ (compacts = 0 => CtxOrder(stored, ctx))
      /\ Kept(stored, ctx, "tools", compacts)
      /\ call \in [Calls -> Progress] /\ maxSeq \in [Calls -> Nat]
      /\ \E a \in DOMAIN stored : RoundOf(stored, ctx, run, compacts, call, maxSeq, a)
  BY RoundFacts
<1>2. PICK cl : cl = call'
  OBVIOUS
<1>3. PICK old : old = call
  OBVIOUS
<1>4. /\ cl \in [Calls -> Progress] /\ cl[k] = to /\ \A j \in Calls : j # k => cl[j] = old[j]
      /\ old[k] \notin {"none", "cut"}
  BY <1>1, <1>2, <1>3
<1>5. PICK at \in Nat : at = clock' /\ clock <= at
  BY <1>1
<1>6. Present(stored, run, at)
  <2>1. \A i \in DOMAIN stored : stored[i].at \in Nat
    BY <1>1, Fields DEF StoreInv
  <2>2. ASSUME NEW i \in DOMAIN stored
        PROVE  stored[i].at <= at /\ stored[i].run <= run /\ (stored[i].run < run => stored[i].at < at)
    <3>1. stored[i].at <= clock /\ stored[i].run <= run /\ (stored[i].run < run => stored[i].at < clock)
      BY <1>1 DEF Present
    <3>2. stored[i].at \in Nat
      BY <2>1
    <3> QED
      BY <1>1, <1>5, <3>1, <3>2
  <2> QED
    BY <2>2 DEF Present
<1>7. PICK mx : mx = maxSeq'
  OBVIOUS
<1>8. PICK mo : mo = maxSeq
  OBVIOUS
<1>9. PICK a \in DOMAIN stored : RoundOf(stored, ctx, run, compacts, old, mo, a)
  BY <1>1, <1>3, <1>8
<1>10. /\ stored[a].type = "assistant" /\ stored[a].run = run /\ stored[a].uses > 0
       /\ \A l \in DOMAIN ctx : ctx[l] < a
       /\ \A j \in DOMAIN stored : a < j =>
            IsRes(stored, j) /\ stored[j].for = a /\ stored[j].run = run /\ \A i \in stored[j].answers : old[i] = "cut"
       /\ (\A i \in Calls : old[i] # "cut") => a = Len(stored) /\ Straight(stored, run)
       /\ \A i \in Calls : old[i] # "none" => i \in 1..stored[a].uses
       /\ \E i \in Calls : old[i] # "none"
       /\ \A i \in Calls : old[i] = "closing" => stored[a].seq <= mo[i] /\ mo[i] <= Len(stored)
       /\ compacts <= 1 => HistoryOf(stored) = Range(ctx) \cup {i \in DOMAIN stored : a <= i}
  BY <1>9 DEF RoundOf
<1>11. RoundOf(stored, ctx, run, compacts, cl, mx, a)
  <2>1. ASSUME NEW j \in DOMAIN stored, a < j, NEW i \in stored[j].answers PROVE cl[i] = "cut"
    <3>1. old[i] = "cut"
      BY <1>10, <2>1
    <3>2. i \in Calls
      BY <1>1, Fields DEF StoreInv
    <3> QED
      BY <1>4, <3>1, <3>2
  <2>2. (\A i \in Calls : cl[i] # "cut") => \A i \in Calls : old[i] # "cut"
    BY <1>4
  <2>3. \A i \in Calls : cl[i] # "none" => i \in 1..stored[a].uses
    BY <1>4, <1>10
  <2>4. ASSUME NEW i \in Calls, cl[i] = "closing" PROVE stored[a].seq <= mx[i] /\ mx[i] <= Len(stored)
    <3>1. CASE i = k
      <4>1. to = "closing"
        BY <1>4, <2>4, <3>1
      <4> QED
        BY <1>3, <1>7, <1>8, <1>9, <3>1, <4>1
    <3>2. CASE i # k
      <4>1. old[i] = "closing" /\ mx[i] = mo[i]
        BY <1>4, <1>7, <1>8, <2>4, <3>2
      <4> QED
        BY <1>10, <4>1
    <3> QED
      BY <3>1, <3>2
  <2>5. \E i \in Calls : cl[i] # "none"
    BY <1>4
  <2> QED
    BY <1>10, <2>1, <2>2, <2>3, <2>4, <2>5 DEF RoundOf
<1>12. LoopTypes(run, "tools", compacts, cl, mx, at)
  BY <1>1, <1>4, <1>7 DEF LoopTypes, States
<1>13. SessionAt(stored, ctx, run, "tools", compacts, cl, mx, at)
  BY <1>1, <1>6, <1>11, <1>12 DEF SessionAt
<1> QED
  BY <1>2, <1>5, <1>7, <1>13 DEF SessionInv

LEMMA CallStepsKeep ==
  ASSUME ContextAssumption, SessionInv, NEW k \in Calls,
         CallStart(k) \/ CallReturn(k) \/ CallFail(k)
  PROVE  SessionInv'
<1>1. /\ pc = "tools" /\ pc' = "tools" /\ call[k] \notin {"none", "cut"} /\ clock' = clock
      /\ UNCHANGED <<stored, ctx, run, compacts, maxSeq>>
  BY DEF CallStart, MayStart, CallReturn, CallFail
<1>2. PICK to \in {"running", "done", "failed"} : call' = [call EXCEPT ![k] = to]
  BY DEF CallStart, CallReturn, CallFail
<1>3. to \in Progress /\ to \notin {"none", "cut"} /\ to # "closing"
  BY <1>2 DEF Progress
<1>4. maxSeq' \in [Calls -> Nat] /\ \A j \in Calls : j # k => maxSeq'[j] = maxSeq[j]
  BY <1>1, RoundFacts
<1> QED
  BY <1>1, <1>2, <1>3, <1>4, CallGoesOn

LEMMA CallInterruptedKeeps ==
  ASSUME ContextAssumption, SessionInv, NEW k \in Calls, CallInterrupted(k)
  PROVE  SessionInv'
<1>1. /\ pc = "tools" /\ pc' = "tools" /\ call[k] = "running" /\ clock' \in {clock, clock + 1}
      /\ call' = [call EXCEPT ![k] = "closing"] /\ maxSeq' = [maxSeq EXCEPT ![k] = MaxSeqOf(run)]
      /\ UNCHANGED <<stored, ctx, run, compacts>>
  BY DEF CallInterrupted
<1>2. "closing" \in Progress
  BY DEF Progress
<1>3. StoreInv(stored) /\ maxSeq \in [Calls -> Nat]
  BY <1>1, RoundFacts
<1>4. stored \in Seq(Rows) /\ Numbered(stored) /\ Len(stored) \in Nat
  BY <1>3, Fields DEF StoreInv
<1>5. PICK m \in Nat : m = MaxSeqOf(run) /\ m <= Len(stored) /\ \A i \in DOMAIN stored : stored[i].run = run => stored[i].seq <= m
  <2>1. MaxSeqOf(run) \in 0..Len(stored) /\ \A i \in DOMAIN stored : stored[i].run = run => stored[i].seq <= MaxSeqOf(run)
    BY <1>4, MaxSeqIs
  <2>2. MaxSeqOf(run) \in Nat /\ MaxSeqOf(run) <= Len(stored)
    BY <1>4, <2>1
  <2> QED
    BY <2>1, <2>2
<1>6. maxSeq' \in [Calls -> Nat] /\ maxSeq'[k] = m /\ \A j \in Calls : j # k => maxSeq'[j] = maxSeq[j]
  BY <1>1, <1>3, <1>5
<1>7. \A a \in DOMAIN stored : RoundOf(stored, ctx, run, compacts, call, maxSeq, a) =>
        stored[a].seq <= maxSeq'[k] /\ maxSeq'[k] <= Len(stored)
  BY <1>5, <1>6 DEF RoundOf
<1> QED
  BY <1>1, <1>2, <1>6, <1>7, CallGoesOn

LEMMA AskingIs ==
  ASSUME ContextAssumption, StoreInv(stored), NEW a \in DOMAIN stored, stored[a].type = "assistant",
         \A j \in DOMAIN stored : a < j => IsRes(stored, j)
  PROVE  Asking = a
<1>1. stored \in Seq(Rows)
  BY DEF StoreInv
<1>2. Len(stored) \in Nat /\ DOMAIN stored = 1..Len(stored)
  BY <1>1, Fields
<1>3. PICK S : S = Of("assistant")
  OBVIOUS
<1>4. S \in SUBSET (0..Len(stored)) /\ S # {} /\ a \in S
  BY <1>2, <1>3 DEF Of, Ids
<1>5. Max(S) \in S /\ \A m \in S : m <= Max(S)
  BY <1>2, <1>4, Greatest
<1>6. \A m \in S : ~(a < m)
  BY <1>3 DEF Of, Ids, IsRes
<1>7. Max(S) \in Nat /\ a \in Nat /\ a <= Max(S) /\ ~(a < Max(S))
  BY <1>2, <1>4, <1>5, <1>6
<1> QED
  BY <1>3, <1>7 DEF Asking

\* What a row finds of the round that it answers.
LEMMA RoundRow ==
  ASSUME ContextAssumption, NEW rs, StoreInv(rs), NEW a \in DOMAIN rs, rs[a].type = "assistant",
         \A j \in DOMAIN rs : a < j => IsRes(rs, j)
  PROVE  /\ \A s \in DOMAIN rs : IsSum(rs, s) => rs[s].covers[rs[a].run] < rs[a].seq
         /\ \A x \in DOMAIN rs : rs[x].run = rs[a].run /\ ~IsRes(rs, x) => rs[x].seq <= rs[a].seq
         /\ a \in Nat /\ rs[a].seq \in Nat /\ rs[a].uses \in Nat /\ ~IsRes(rs, a)
<1>1. rs \in Seq(Rows)
  BY DEF StoreInv
<1>2. /\ Len(rs) \in Nat /\ DOMAIN rs = 1..Len(rs)
      /\ \A i \in DOMAIN rs : i \in Nat /\ rs[i].seq \in Nat /\ rs[i].uses \in Nat /\ rs[i].run \in Runs
                              /\ \A r \in Runs : rs[i].covers[r] \in Nat
  BY <1>1, Fields
<1>3. ~IsRes(rs, a) /\ ~IsSum(rs, a)
  BY DEF IsRes, IsSum
<1>4. ASSUME NEW x \in DOMAIN rs, ~IsRes(rs, x) PROVE x <= a
  BY <1>2, <1>4
<1>5. ASSUME NEW s \in DOMAIN rs, IsSum(rs, s) PROVE rs[s].covers[rs[a].run] < rs[a].seq
  <2>1. ~IsRes(rs, s)
    BY <1>5 DEF IsRes, IsSum
  <2>2. s <= a
    BY <1>4, <2>1
  <2> QED
    BY <1>5, <2>2 DEF StoreInv, CoversPast
<1>6. ASSUME NEW x \in DOMAIN rs, rs[x].run = rs[a].run, ~IsRes(rs, x) PROVE rs[x].seq <= rs[a].seq
  <2>1. x <= a /\ x \in Nat /\ a \in Nat /\ rs[x].seq \in Nat /\ rs[a].seq \in Nat
    BY <1>2, <1>4, <1>6
  <2>2. CASE x = a
    BY <2>1, <2>2
  <2>3. CASE x # a
    <3>1. x < a
      BY <2>1, <2>3
    <3>2. rs[x].seq < rs[a].seq
      BY <1>3, <1>6, <3>1, InTurnLater
    <3> QED
      BY <2>1, <3>2
  <2> QED
    BY <2>2, <2>3
<1> QED
  BY <1>2, <1>3, <1>5, <1>6

LEMMA CallCloseKeeps ==
  ASSUME ContextAssumption, SessionInv, NEW k \in Calls, CallClose(k)
  PROVE  SessionInv'
<1>1. /\ run \in Nat /\ run \in Runs /\ clock \in Nat /\ compacts \in Nat /\ StoreInv(stored)
      /\ Present(stored, run, clock) /\ CtxWhole(stored, ctx) /\ (compacts = 0 => CtxOrder(stored, ctx))
      /\ Kept(stored, ctx, "tools", compacts)
      /\ call \in [Calls -> Progress] /\ maxSeq \in [Calls -> Nat]
      /\ \E a \in DOMAIN stored : RoundOf(stored, ctx, run, compacts, call, maxSeq, a)
  BY RoundFacts DEF CallClose
<1>2. /\ pc = "tools" /\ pc' = "tools" /\ call[k] = "closing" /\ call' = [call EXCEPT ![k] = "cut"]
      /\ UNCHANGED <<ctx, run, compacts, maxSeq, clock>>
  BY DEF CallClose
<1>3. PICK cl : cl = call'
  OBVIOUS
<1>4. PICK old : old = call
  OBVIOUS
<1>5. /\ cl \in [Calls -> Progress] /\ cl[k] = "cut" /\ \A j \in Calls : j # k => cl[j] = old[j]
      /\ old[k] = "closing"
  BY <1>1, <1>2, <1>3, <1>4 DEF Progress
<1>6. PICK rs : rs = stored
  OBVIOUS
<1>7. PICK new : new = stored'
  OBVIOUS
<1>8. PICK cx : cx = ctx
  OBVIOUS
<1>9. PICK mx : mx = maxSeq
  OBVIOUS
<1>10. /\ StoreInv(rs) /\ Present(rs, run, clock) /\ CtxWhole(rs, cx) /\ (compacts = 0 => CtxOrder(rs, cx))
       /\ Kept(rs, cx, "tools", compacts) /\ mx \in [Calls -> Nat] /\ rs \in Seq(Rows)
  BY <1>1, <1>6, <1>8, <1>9 DEF StoreInv
<1>11. PICK a \in DOMAIN rs : RoundOf(rs, cx, run, compacts, old, mx, a)
  BY <1>1, <1>4, <1>6, <1>8, <1>9
<1>12. /\ rs[a].type = "assistant" /\ rs[a].run = run /\ rs[a].uses > 0
       /\ \A l \in DOMAIN cx : cx[l] < a
       /\ \A j \in DOMAIN rs : a < j =>
            IsRes(rs, j) /\ rs[j].for = a /\ rs[j].run = run /\ \A i \in rs[j].answers : old[i] = "cut"
       /\ \A i \in Calls : old[i] # "none" => i \in 1..rs[a].uses
       /\ \A i \in Calls : old[i] = "closing" => rs[a].seq <= mx[i] /\ mx[i] <= Len(rs)
       /\ compacts <= 1 => HistoryOf(rs) = Range(cx) \cup {i \in DOMAIN rs : a <= i}
  BY <1>11 DEF RoundOf
<1>13. LoopTypes(run, "tools", compacts, cl, mx, clock)
  BY <1>1, <1>5, <1>10 DEF LoopTypes, States
<1>14. /\ \A i \in Calls : cl[i] # "none" => i \in 1..rs[a].uses
       /\ \A i \in Calls : cl[i] = "closing" => rs[a].seq <= mx[i] /\ mx[i] <= Len(rs)
       /\ ~\A i \in Calls : cl[i] # "cut"
       /\ \E i \in Calls : cl[i] # "none"
       /\ \A j \in DOMAIN rs : a < j => \A i \in rs[j].answers : cl[i] = "cut"
  <2>1. \A j \in DOMAIN rs : rs[j].answers \subseteq Calls
    BY <1>10, Fields
  <2>2. \A i \in Calls : (cl[i] # "none" => old[i] # "none") /\ (cl[i] = "closing" => old[i] = "closing")
                         /\ (old[i] = "cut" => cl[i] = "cut")
    BY <1>5
  <2> QED
    BY <1>5, <1>12, <2>1, <2>2
<1>15. CASE UNCHANGED stored
  <2>1. RoundOf(rs, cx, run, compacts, cl, mx, a)
    BY <1>12, <1>14 DEF RoundOf
  <2>2. SessionAt(rs, cx, run, "tools", compacts, cl, mx, clock)
    BY <1>10, <1>13, <2>1 DEF SessionAt
  <2> QED
    BY <1>2, <1>3, <1>6, <1>8, <1>9, <1>15, <2>2 DEF SessionInv
<1>16. CASE stored' = Append(stored, [Message(run, maxSeq[k] + 1, "tool_result", clock)
                                        EXCEPT !.for = Asking, !.answers = {k}])
  <2>1. /\ \A s \in DOMAIN rs : IsSum(rs, s) => rs[s].covers[rs[a].run] < rs[a].seq
        /\ \A x \in DOMAIN rs : rs[x].run = rs[a].run /\ ~IsRes(rs, x) => rs[x].seq <= rs[a].seq
        /\ a \in Nat /\ rs[a].seq \in Nat /\ rs[a].uses \in Nat /\ ~IsRes(rs, a)
    BY <1>10, <1>12, RoundRow
  <2>2. Asking = a
    BY <1>1, <1>6, <1>12, AskingIs
  <2>3. Len(rs) \in Nat /\ DOMAIN rs = 1..Len(rs)
    BY <1>10, Fields
  <2>4. PICK q \in Nat : q = maxSeq[k] + 1 /\ rs[a].seq < q /\ q \in 1..(Len(rs) + 1)
    <3>1. mx[k] \in Nat /\ rs[a].seq <= mx[k] /\ mx[k] <= Len(rs)
      BY <1>5, <1>10, <1>12
    <3>2. mx[k] + 1 \in Nat /\ rs[a].seq < mx[k] + 1 /\ mx[k] + 1 \in 1..(Len(rs) + 1)
      BY SMTT(20), <2>1, <2>3, <3>1
    <3> QED
      BY <1>9, <3>2
  <2>5. PICK row : row = [Message(run, q, "tool_result", clock) EXCEPT !.for = a, !.answers = {k}]
    OBVIOUS
  <2>6. /\ row \in Rows /\ row.run = run /\ row.seq = q /\ row.type = "tool_result" /\ row.at = clock
        /\ row.for = a /\ row.answers = {k}
    BY <1>1, <2>1, <2>5 DEF Message, Rows, Types
  <2>7. new = Append(rs, row)
    BY <1>6, <1>7, <1>16, <2>2, <2>4, <2>5
  <2>8. Follows(rs, row) /\ Present(new, run, clock)
    <3>1. clock <= clock
      BY <1>1
    <3> QED
      BY <1>1, <1>10, <2>4, <2>6, <2>7, <3>1, RowFollows
  <2>9. Unhidden(rs, row)
    <3> SUFFICES ASSUME NEW s \in DOMAIN rs, IsSum(rs, s) PROVE rs[s].covers[row.run] < row.seq
      BY DEF Unhidden
    <3>1. rs[s].covers[run] \in Nat
      BY <1>1, <1>10, Fields
    <3>2. rs[s].covers[run] < rs[a].seq
      BY <1>12, <2>1
    <3>3. PICK c, b : c = rs[s].covers[run] /\ b = rs[a].seq
      OBVIOUS
    <3>4. c \in Nat /\ b \in Nat /\ q \in Nat /\ c < b /\ b < q
      BY <2>1, <2>4, <3>1, <3>2, <3>3
    <3>5. c < q
      BY ONLY <3>4
    <3> QED
      BY <2>6, <3>3, <3>5
  <2>10. Answering(rs, row)
    <3>1. row.answers \subseteq 1..rs[a].uses
      BY <1>5, <1>12, <2>6
    <3>2. \A l \in DOMAIN rs : a < l => IsRes(rs, l) /\ rs[l].for = a /\ rs[l].answers \cap row.answers = {}
      BY <1>5, <1>12, <2>6
    <3>3. \A s \in DOMAIN rs : IsSum(rs, s) => rs[s].covers[row.run] < rs[a].seq
      BY <1>12, <2>1, <2>6
    <3> QED
      BY <1>12, <2>4, <2>6, <3>1, <3>2, <3>3 DEF Answering
  <2>11. StoreInv(new)
    <3>1. new \in Seq(Rows) /\ Numbered(new) /\ Timed(new) /\ CoversPast(new)
      BY <1>10, <2>6, <2>7, <2>8, <2>9, StoreOrder
    <3>2. InTurn(new)
      <4>1. rs[a].seq < row.seq /\ \A x \in DOMAIN rs : rs[x].run = row.run /\ ~IsRes(rs, x) => rs[x].seq <= rs[a].seq
        BY <1>12, <2>1, <2>4, <2>6
      <4> QED
        BY <1>10, <2>6, <2>7, <4>1, StoreLate
    <3>3. ResultsOf(new) /\ CoversWhole(new)
      BY <1>10, <2>6, <2>7, <2>10, StoreResult
    <3> QED
      BY <3>1, <3>2, <3>3 DEF StoreInv
  <2>12. CtxWhole(new, cx) /\ (compacts = 0 => CtxOrder(new, cx))
    <3>1. \A l \in DOMAIN cx : cx[l] # row.for
      <4>1. \A l \in DOMAIN cx : cx[l] \in Nat
        BY <1>10, CtxRows
      <4> QED
        BY <1>12, <2>1, <2>6, <4>1
    <3> QED
      BY <1>10, <2>6, <2>7, <3>1, CtxKeeps
  <2>13. Kept(new, cx, "tools", compacts)
    <3>1. Kept(new, cx, "idle", compacts)
      BY <1>10, <2>6, <2>7, <2>9, KeptStays
    <3> QED
      BY <3>1 DEF Kept
  <2>14. PICK id \in Nat : id = Len(rs) + 1 /\ a < id
    BY <2>1, <2>3
  <2>15. /\ DOMAIN new = 1..id /\ new[id] = row /\ Len(new) = id /\ \A i \in DOMAIN rs : new[i] = rs[i]
         /\ \A j \in DOMAIN new : j = id \/ j \in DOMAIN rs
         /\ id \in DOMAIN new /\ \A j \in DOMAIN rs : j \in DOMAIN new
    <3>1. /\ Len(new) = Len(rs) + 1 /\ DOMAIN new = 1..(Len(rs) + 1) /\ new[Len(rs) + 1] = row
          /\ \A i \in DOMAIN rs : new[i] = rs[i]
      BY <1>10, <2>6, <2>7, Stored
    <3>2. DOMAIN new = 1..id /\ new[id] = row /\ Len(new) = id /\ \A i \in DOMAIN rs : new[i] = rs[i]
      BY <2>14, <3>1
    <3>3. \A j \in 1..id : j = id \/ j \in 1..Len(rs)
      BY <2>3, <2>14
    <3>4. id \in 1..id /\ \A j \in 1..Len(rs) : j \in 1..id
      BY <2>3, <2>14
    <3> QED
      BY <2>3, <3>2, <3>3, <3>4
  <2>16. RoundOf(new, cx, run, compacts, cl, mx, a)
    <3>1. new[a] = rs[a] /\ a \in DOMAIN new
      BY <2>15
    <3>2. ASSUME NEW j \in DOMAIN new, a < j
          PROVE  IsRes(new, j) /\ new[j].for = a /\ new[j].run = run /\ \A i \in new[j].answers : cl[i] = "cut"
      <4>1. CASE j = id
        BY <1>5, <2>6, <2>15, <4>1 DEF IsRes
      <4>2. CASE j \in DOMAIN rs
        <5>1. new[j] = rs[j] /\ IsRes(rs, j)
          BY <1>12, <2>15, <3>2, <4>2
        <5>2. IsRes(new, j)
          BY <5>1 DEF IsRes
        <5> QED
          BY <1>12, <1>14, <3>2, <4>2, <5>1, <5>2
      <4> QED
        BY <2>15, <4>1, <4>2
    <3>3. \A i \in Calls : cl[i] = "closing" => rs[a].seq <= mx[i] /\ mx[i] <= Len(new)
      <4> SUFFICES ASSUME NEW i \in Calls, cl[i] = "closing" PROVE rs[a].seq <= mx[i] /\ mx[i] <= Len(new)
        OBVIOUS
      <4>1. rs[a].seq <= mx[i] /\ mx[i] <= Len(rs) /\ mx[i] \in Nat
        BY <1>10, <1>14
      <4> QED
        BY <2>3, <2>14, <2>15, <4>1
    <3>4. compacts <= 1 => HistoryOf(new) = Range(cx) \cup {i \in DOMAIN new : a <= i}
      <4>1. HistoryOf(new) = HistoryOf(rs) \cup {id}
        BY <1>10, <2>6, <2>7, <2>9, <2>14, HistoryGrows
      <4>2. {i \in DOMAIN new : a <= i} = {i \in DOMAIN rs : a <= i} \cup {id}
        <5>1. a <= id
          BY <2>1, <2>14
        <5> QED
          BY <2>15, <5>1
      <4> QED
        BY <1>12, <4>1, <4>2
    <3> QED
      BY <1>12, <1>14, <3>1, <3>2, <3>3, <3>4 DEF RoundOf
  <2>17. SessionAt(new, cx, run, "tools", compacts, cl, mx, clock)
    <3>1. a \in DOMAIN new
      BY <2>15
    <3> QED
      BY <1>13, <2>8, <2>11, <2>12, <2>13, <2>16, <3>1 DEF SessionAt
  <2> QED
    BY <1>2, <1>3, <1>7, <1>8, <1>9, <2>17 DEF SessionInv
<1> QED
  BY <1>15, <1>16 DEF CallClose

LEMMA RangeTwo ==
  ASSUME NEW k \in Nat, NEW cx, NEW cy, DOMAIN cx = 1..k, DOMAIN cy = 1..(k + 2),
         \A l \in 1..k : cy[l] = cx[l]
  PROVE  Range(cy) = Range(cx) \cup {cy[k + 1], cy[k + 2]}
<1>1. \A l \in DOMAIN cy : l = k + 1 \/ l = k + 2 \/ l \in DOMAIN cx
  OBVIOUS
<1>2. k + 1 \in DOMAIN cy /\ k + 2 \in DOMAIN cy /\ \A l \in DOMAIN cx : l \in DOMAIN cy /\ cy[l] = cx[l]
  OBVIOUS
<1>3. \A i : (i \in Range(cy) <=> \E l \in DOMAIN cy : cy[l] = i) /\ (i \in Range(cx) <=> \E l \in DOMAIN cx : cx[l] = i)
  BY DEF Range
<1>4. ASSUME NEW i, i \in Range(cy) PROVE i \in Range(cx) \cup {cy[k + 1], cy[k + 2]}
  <2>1. PICK l \in DOMAIN cy : cy[l] = i
    BY <1>3, <1>4
  <2> QED
    BY <1>1, <1>2, <1>3, <2>1
<1>5. cy[k + 1] \in Range(cy) /\ cy[k + 2] \in Range(cy) /\ \A i \in Range(cx) : i \in Range(cy)
  BY <1>2, <1>3
<1> QED
  BY <1>4, <1>5

LEMMA BatchDoneKeeps ==
  ASSUME ContextAssumption, SessionInv, BatchDone
  PROVE  SessionInv'
<1>1. /\ run \in Nat /\ run \in Runs /\ clock \in Nat /\ compacts \in Nat /\ StoreInv(stored)
      /\ Present(stored, run, clock) /\ CtxWhole(stored, ctx) /\ (compacts = 0 => CtxOrder(stored, ctx))
      /\ Kept(stored, ctx, "tools", compacts)
      /\ call \in [Calls -> Progress] /\ maxSeq \in [Calls -> Nat]
      /\ \E a \in DOMAIN stored : RoundOf(stored, ctx, run, compacts, call, maxSeq, a)
  BY RoundFacts DEF BatchDone, BatchOver
<1>2. /\ \A k \in Uses : call[k] = "done"
      /\ stored' = Append(stored, [Message(run, MaxSeqOf(run) + 1, "tool_result", clock)
                                     EXCEPT !.for = Asking, !.answers = Uses])
      /\ ctx' = ctx \o <<Asking, Len(stored) + 1>>
      /\ (pc' = "compact" /\ NewBatch) \/ EndRun
      /\ UNCHANGED <<run, compacts, clock>>
  BY DEF BatchDone, NewId
<1>3. PICK K \in SUBSET Calls : K = Uses /\ \A k \in K : call[k] # "none"
  <2>1. Uses \in SUBSET Calls /\ \A k \in Uses : call[k] # "none"
    BY DEF Uses
  <2> QED
    BY <2>1
<1>4. \A k \in Calls : call[k] # "cut"
  BY <1>2 DEF Uses
<1>5. PICK rs : rs = stored
  OBVIOUS
<1>6. PICK new : new = stored'
  OBVIOUS
<1>7. PICK cx : cx = ctx
  OBVIOUS
<1>8. PICK cy : cy = ctx'
  OBVIOUS
<1>9. /\ StoreInv(rs) /\ Present(rs, run, clock) /\ CtxWhole(rs, cx) /\ (compacts = 0 => CtxOrder(rs, cx))
      /\ Kept(rs, cx, "tools", compacts) /\ rs \in Seq(Rows)
  BY <1>1, <1>5, <1>7 DEF StoreInv
<1>10. PICK a \in DOMAIN rs : RoundOf(rs, cx, run, compacts, call, maxSeq, a)
  BY <1>1, <1>5, <1>7
<1>11. /\ rs[a].type = "assistant" /\ rs[a].run = run /\ rs[a].uses > 0
       /\ \A l \in DOMAIN cx : cx[l] < a
       /\ \A j \in DOMAIN rs : a < j => IsRes(rs, j)
       /\ a = Len(rs) /\ Straight(rs, run)
       /\ \A k \in Calls : call[k] # "none" => k \in 1..rs[a].uses
       /\ \E k \in Calls : call[k] # "none"
       /\ compacts <= 1 => HistoryOf(rs) = Range(cx) \cup {i \in DOMAIN rs : a <= i}
  BY <1>4, <1>10 DEF RoundOf
<1>12. Asking = a
  BY <1>1, <1>5, <1>11, AskingIs
<1>13. /\ \A s \in DOMAIN rs : IsSum(rs, s) => rs[s].covers[rs[a].run] < rs[a].seq
       /\ a \in Nat /\ rs[a].seq \in Nat /\ ~IsRes(rs, a)
  BY <1>9, <1>11, RoundRow
<1>14. Len(rs) \in Nat /\ DOMAIN rs = 1..Len(rs) /\ \A j \in DOMAIN rs : ~(a < j)
  <2>1. Len(rs) \in Nat /\ DOMAIN rs = 1..Len(rs)
    BY <1>9, Fields
  <2>2. \A j \in DOMAIN rs : ~(a < j)
    BY <1>11, <2>1
  <2> QED
    BY <2>1, <2>2
<1>15. PICK q : q = MaxSeqOf(run) + 1
  OBVIOUS
<1>16. q \in Nat
  <2>1. MaxSeqOf(run) \in 0..Len(stored)
    BY <1>1, MaxSeqIs DEF StoreInv
  <2> QED
    BY <1>5, <1>14, <1>15, <2>1
<1>17. PICK row : row = [Message(run, q, "tool_result", clock) EXCEPT !.for = a, !.answers = K]
  OBVIOUS
<1>18. /\ row \in Rows /\ row.run = run /\ row.seq = q /\ row.type = "tool_result" /\ row.at = clock
       /\ row.for = a /\ row.answers = K
  <2>1. K # {}
    BY <1>3, <1>11 DEF Uses
  <2> QED
    BY <1>1, <1>13, <1>16, <1>17, <2>1 DEF Message, Rows, Types
<1>19. new = Append(rs, row) /\ cy = cx \o <<a, Len(rs) + 1>>
  BY <1>2, <1>3, <1>5, <1>6, <1>7, <1>8, <1>12, <1>15, <1>17
<1>20. Above(rs, row) /\ row.seq \in 1..(Len(rs) + 1)
  BY <1>1, <1>5, <1>15, <1>18, RowAbove
<1>21. Follows(rs, row) /\ Present(new, run, clock)
  <2>1. clock <= clock
    BY <1>1
  <2> QED
    BY <1>1, <1>9, <1>18, <1>19, <1>20, <2>1, RowFollows
<1>22. Unhidden(rs, row)
  BY <1>9, <1>18, <1>20, <1>21, Hides
<1>23. Answering(rs, row)
  <2>1. rs[a].seq < row.seq
    BY <1>11, <1>18, <1>20 DEF Above
  <2>2. row.answers \subseteq 1..rs[a].uses
    BY <1>3, <1>11, <1>18
  <2>3. \A s \in DOMAIN rs : IsSum(rs, s) => rs[s].covers[row.run] < rs[a].seq
    BY <1>11, <1>13, <1>18
  <2> QED
    BY <1>11, <1>14, <1>18, <2>1, <2>2, <2>3 DEF Answering
<1>24. StoreInv(new) /\ Straight(new, run)
  BY <1>9, <1>11, <1>18, <1>19, <1>20, <1>21, <1>23, StoreNext
<1>25. CtxWhole(new, cy) /\ (compacts = 0 => CtxOrder(new, cy))
  <2>1. /\ CtxWhole(new, cy)
        /\ CtxOrder(rs, cx) /\ Above(rs, row) /\ Straight(rs, row.run) /\ rs[a].run = row.run => CtxOrder(new, cy)
    BY ZenonT(40), <1>9, <1>11, <1>13, <1>18, <1>19, CtxAnswered
  <2> QED
    BY <1>9, <1>11, <1>18, <1>20, <2>1
<1>26. compacts <= 1 => Range(cy) = HistoryOf(new)
  <2>1. PICK id : id = Len(rs) + 1
    OBVIOUS
  <2>2. HistoryOf(new) = HistoryOf(rs) \cup {id}
    BY <1>9, <1>18, <1>19, <1>22, <2>1, HistoryGrows
  <2>3. Range(cy) = Range(cx) \cup {a, id}
    <3>1. cx \in Seq(DOMAIN rs)
      BY <1>9 DEF CtxWhole
    <3>2. \A l \in DOMAIN rs : l \in DOMAIN rs \cup {id}
      OBVIOUS
    <3>3. cx \in Seq(DOMAIN rs \cup {id})
      BY <3>1, <3>2, SeqMonotonic
    <3>4. cy = cx \o <<a, id>> /\ a \in DOMAIN rs \cup {id} /\ id \in DOMAIN rs \cup {id}
      BY <1>19, <2>1
    <3>5. /\ DOMAIN cy = 1..(Len(cx) + 2) /\ Len(cx) \in Nat /\ DOMAIN cx = 1..Len(cx)
          /\ cy[Len(cx) + 1] = a /\ cy[Len(cx) + 2] = id /\ \A l \in 1..Len(cx) : cy[l] = cx[l]
      BY <3>3, <3>4
    <3>6. Range(cy) = Range(cx) \cup {cy[Len(cx) + 1], cy[Len(cx) + 2]}
      BY <3>5, RangeTwo
    <3> QED
      BY <3>5, <3>6
  <2>4. {i \in DOMAIN rs : a <= i} = {a}
    BY <1>11, <1>14
  <2> QED
    BY <1>11, <2>2, <2>3, <2>4
<1>27. /\ pc' \in {"compact", "idle"}
       /\ call' \in [Calls -> Progress] /\ maxSeq' \in [Calls -> Nat]
  BY <1>2, BatchIsNew DEF EndRun
<1>28. Kept(new, cy, pc', compacts)
  <2>1. compacts <= 1 => \A i \in Range(cy) : i \in HistoryOf(new)
    BY <1>26
  <2> QED
    BY <1>26, <1>27, <2>1 DEF Kept
<1>29. LoopTypes(run, pc', compacts, call', maxSeq', clock)
  BY <1>1, <1>27 DEF LoopTypes, States
<1>30. SessionAt(new, cy, run, pc', compacts, call', maxSeq', clock)
  BY <1>21, <1>24, <1>25, <1>27, <1>28, <1>29 DEF SessionAt
<1> QED
  BY <1>2, <1>6, <1>8, <1>30 DEF SessionInv

LEMMA SessionKeeps ==
  ASSUME ContextAssumption, ~FastUser, SessionInv, [Next]_vars
  PROVE  SessionInv'
<1>1. CASE StartRun
  BY <1>1, StartRunKeeps
<1>2. CASE Stop
  BY <1>2, StopKeeps
<1>3. CASE Fail
  BY <1>3, FailKeeps
<1>4. CASE NoCompact
  BY <1>4, NoCompactKeeps
<1>5. CASE Compact
  BY <1>5, CompactKeeps
<1>6. CASE ModelRound
  BY <1>6, ModelRoundKeeps
<1>7. CASE ModelCut
  BY <1>7, ModelCutKeeps
<1>8. CASE BatchDone
  BY <1>8, BatchDoneKeeps
<1>9. CASE BatchFailed
  BY <1>9, FailKeeps
<1>10. ASSUME NEW k \in Calls, CallStep(k) PROVE SessionInv'
  <2>1. CASE CallStart(k) \/ CallReturn(k) \/ CallFail(k)
    BY <2>1, CallStepsKeep
  <2>2. CASE CallInterrupted(k)
    BY <2>2, CallInterruptedKeeps
  <2>3. CASE CallClose(k)
    BY <2>3, CallCloseKeeps
  <2> QED
    BY <1>10, <2>1, <2>2, <2>3 DEF CallStep
<1>11. CASE UNCHANGED vars
  BY <1>11 DEF vars, SessionInv
<1> QED
  BY <1>1, <1>2, <1>3, <1>4, <1>5, <1>6, <1>7, <1>8, <1>9, <1>10, <1>11 DEF Next

\* Of a session in which no run starts in the second in which the last one
\* ended, the invariant holds.
LEMMA SessionHolds ==
  ASSUME ~FastUser
  PROVE  Spec => []SessionInv
<1>1. Init => SessionInv
  BY ContextAssumption, SessionStarts
<1>2. SessionInv /\ [Next]_vars => SessionInv'
  BY ContextAssumption, SessionKeeps
<1> QED
  BY <1>1, <1>2, PTL DEF Spec

\* In a run that compacts its context once at most, what its model was told the
\* next run would be told (filterCoveredReactMessages): no message is hidden
\* that no summary of the history speaks for.
THEOREM CompactionForgetsNothing ==
  ASSUME ~FastUser
  PROVE  Spec => []OneCompactionForgetsNothing
<1>1. SessionInv => OneCompactionForgetsNothing
  <2> SUFFICES ASSUME SessionInv, compacts <= 1, NEW x \in Told(Range(ctx)), x \notin Of("assistant_partial")
               PROVE  x \in Told(History)
    BY DEF OneCompactionForgetsNothing, NothingForgotten
  <2>1. stored \in Seq(Rows) /\ Kept(stored, ctx, pc, compacts) /\ ctx \in Seq(DOMAIN stored)
    BY DEF SessionInv, SessionAt, StoreInv, CtxWhole
  <2>2. History = HistoryOf(stored)
    BY ContextAssumption, <2>1, HistoryIs
  <2>3. ASSUME NEW i \in Range(ctx), i \notin Of("assistant_partial") PROVE i \in History
    <3>1. i \in DOMAIN stored
      BY <2>1 DEF Range
    <3>2. stored[i].type # "assistant_partial"
      BY <2>3, <3>1 DEF Of, Ids
    <3> QED
      BY <2>1, <2>2, <3>2 DEF Kept
  <2>4. CASE x \in Direct(Range(ctx))
    <3>1. x \in Range(ctx) /\ x \notin Of("compact_summary")
      BY <2>4 DEF Direct
    <3>2. x \in History
      BY <2>3, <3>1
    <3> QED
      BY <3>1, <3>2 DEF Told, Direct
  <2>5. CASE x \notin Direct(Range(ctx))
    <3>1. PICK s \in Range(ctx) \cap Of("compact_summary") : x \in stored[s].gist
      BY <2>5 DEF Told
    <3>2. s \notin Of("assistant_partial")
      BY <3>1 DEF Of
    <3>3. s \in History
      BY <2>3, <3>1, <3>2
    <3> QED
      BY <3>1, <3>3 DEF Told
  <2> QED
    BY <2>4, <2>5
<1>2. Spec => []SessionInv
  BY SessionHolds
<1> QED
  BY <1>1, <1>2, PTL

\* In a run that compacts its context once at most, the context that the
\* history counts tokens of is the one that the model is sent: a summary drops
\* of what came before it in the timeline what it covers, and nothing else
\* (trackContextUsage, dropCoveredContextMessages).
THEOREM TokensAreOfTheContext ==
  ASSUME ~FastUser
  PROVE  Spec => []TrackedIsContext
<1>1. SessionInv => TrackedIsContext
  <2> SUFFICES ASSUME SessionInv, compacts <= 1, pc = "model" PROVE Tracked = Range(ctx)
    BY DEF TrackedIsContext
  <2>1. StoreInv(stored) /\ stored \in Seq(Rows) /\ Range(ctx) = HistoryOf(stored)
    BY DEF SessionInv, SessionAt, StoreInv, Kept
  <2>2. History = HistoryOf(stored)
    BY ContextAssumption, <2>1, HistoryIs
  <2>3. \A i \in DOMAIN stored, s \in DOMAIN stored :
          IsSum(stored, s) /\ stored[s].covers[stored[i].run] >= stored[i].seq => Earlier(i, s)
    <3> SUFFICES ASSUME NEW i \in DOMAIN stored, NEW s \in DOMAIN stored, IsSum(stored, s),
                        stored[s].covers[stored[i].run] >= stored[i].seq
                 PROVE  Earlier(i, s)
      OBVIOUS
    <3>1. /\ i \in Nat /\ s \in Nat /\ stored[i].run \in Nat /\ stored[s].run \in Nat
          /\ stored[i].seq \in Nat /\ stored[s].seq \in Nat /\ stored[i].at \in Nat /\ stored[s].at \in Nat
      BY ContextAssumption, <2>1, PairTypes DEF Pair
    <3>2. stored[s].covers[stored[i].run] \in Nat /\ stored[s].covers[stored[s].run] \in Nat
      BY ContextAssumption, <2>1, Fields
    <3>3. /\ s <= i => stored[s].covers[stored[i].run] < stored[i].seq
          /\ s <= s => stored[s].covers[stored[s].run] < stored[s].seq
      BY <2>1 DEF StoreInv, CoversPast
    <3>4. i < s
      BY <3>1, <3>2, <3>3
    <3>5. stored[i].at <= stored[s].at /\ stored[i].run <= stored[s].run
      BY <2>1, <3>4 DEF StoreInv, Timed
    <3>6. stored[i].run = stored[s].run => stored[i].seq < stored[s].seq
      <4>1. CASE stored[i].run = stored[s].run
        <5>1. stored[s].covers[stored[s].run] >= stored[i].seq
          BY <4>1
        <5>2. stored[s].covers[stored[s].run] < stored[s].seq
          BY <3>1, <3>3
        <5> QED
          BY <3>1, <3>2, <5>1, <5>2
      <4> QED
        BY <4>1
    <3> QED
      BY <3>1, <3>5, <3>6 DEF Earlier
  <2>4. Tracked = History
    BY <2>3 DEF Tracked, History, Covered, Of, Ids, IsSum
  <2> QED
    BY <2>1, <2>2, <2>4
<1>2. Spec => []SessionInv
  BY SessionHolds
<1> QED
  BY <1>1, <1>2, PTL
=============================================================================
