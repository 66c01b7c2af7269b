--------------------------- MODULE ResultsPageProofs ---------------------------
(***************************************************************************)
(* Proof of ReadyInOrder, for all scripts, all browsers and whatever the   *)
(* page does meanwhile: jQuery runs the functions that wait for the page   *)
(* in the order they came, once each, and none before the page is parsed.  *)
(***************************************************************************)
EXTENDS ResultsPageProperties, SequenceTheorems, WellFoundedInduction, TLAPS

-------------------------------------------------------------------------------
(* Numbers and sequences. *)

\* A set of numbers that holds 0, and the successor of each of its numbers, holds all.
LEMMA SetInduction ==
  ASSUME NEW S, 0 \in S, \A n \in Nat : n \in S => n + 1 \in S
  PROVE  Nat \subseteq S
<1> DEFINE Lt == OpToRel(<, Nat)
<1> DEFINE T == Nat \ S
<1>1. \A m, n \in Nat : <<m, n>> \in Lt <=> m < n
  BY DEF OpToRel
<1>2. SUFFICES ASSUME T # {} PROVE FALSE
  OBVIOUS
<1> HIDE DEF Lt
<1>3. IsWellFoundedOn(Lt, Nat)
  BY NatLessThanWellFounded DEF Lt
<1>4. PICK x \in T : \A y \in T : ~(<<y, x>> \in Lt)
  BY <1>2, <1>3, WFMin
<1>5. x # 0 /\ x - 1 \in Nat
  OBVIOUS
<1>6. x - 1 \in S
  <2>1. <<x - 1, x>> \in Lt
    BY <1>1, <1>5
  <2>2. x - 1 \notin T
    BY <1>4, <2>1
  <2>3. QED
    BY <1>5, <2>2
<1>7. QED
  BY <1>5, <1>6

\* G[i] is the concatenation of the first i of the sequences.
Parts(G, s, n) == G[0] = <<>> /\ \A i \in 1 .. n : G[i] = G[i - 1] \o s[i]

\* FlattenSeq is what such partial concatenations end in.
LEMMA FlattenIs ==
  ASSUME NEW C, NEW n \in Nat, NEW s \in [1 .. n -> Seq(C)], NEW G, Parts(G, s, n)
  PROVE  FlattenSeq(s) = G[n]
<1> USE DEF Parts
<1>1. s \in Seq(Seq(C)) /\ Len(s) = n
  BY IsASeq
<1>2. CASE n = 0
  <2>1. s = <<>>
    BY <1>1, <1>2, EmptySeq
  <2>2. QED
    BY <1>1, <1>2, <2>1 DEF FlattenSeq
<1>3. CASE n > 0
  <2> DEFINE Step(f, i) == IF i = 1 THEN s[i] ELSE f[i - 1] \o s[i]
             Solves(f) == f = [i \in 1 .. n |-> Step(f, i)]
  <2>1. G[1] = s[1]
    <3>1. 1 \in 1 .. n /\ s[1] \in Seq(C) /\ 1 - 1 = 0
      BY <1>3
    <3>2. G[1] = <<>> \o s[1]
      BY <3>1
    <3>3. QED
      BY <3>1, <3>2, ConcatEmptySeq
  <2>2. Solves([i \in 1 .. n |-> G[i]])
    <3> DEFINE g == [i \in 1 .. n |-> G[i]]
    <3>1. ASSUME NEW i \in 1 .. n PROVE G[i] = Step(g, i)
      <4>1. CASE i = 1
        BY <2>1, <4>1
      <4>2. CASE i # 1
        <5>1. i - 1 \in 1 .. n
          BY <4>2
        <5>2. QED
          BY <4>2, <5>1
      <4>3. QED
        BY <4>1, <4>2
    <3>2. g = [i \in 1 .. n |-> Step(g, i)]
      BY <3>1
    <3>3. QED
      BY <3>2
  <2>3. PICK f : f = (CHOOSE g : Solves(g)) /\ Solves(f)
    BY <2>2
  <2>4. \A i \in 1 .. n : f[i] = Step(f, i)
    BY <2>3
  <2>5. FlattenSeq(s) = f[n]
    BY <1>1, <1>3, <2>3 DEF FlattenSeq
  <2> DEFINE Same == {m \in Nat : m + 1 \in 1 .. n => f[m + 1] = G[m + 1]}
  <2>6. 0 \in Same
    BY <2>1, <2>4, <1>3
  <2>7. \A m \in Nat : m \in Same => m + 1 \in Same
    <3> SUFFICES ASSUME NEW m \in Nat, m \in Same, m + 2 \in 1 .. n
                 PROVE  f[m + 2] = G[m + 2]
      OBVIOUS
    <3>1. m + 2 # 1 /\ (m + 2) - 1 = m + 1 /\ m + 1 \in 1 .. n
      OBVIOUS
    <3>2. f[m + 2] = f[m + 1] \o s[m + 2]
      BY <2>4, <3>1
    <3>3. G[m + 2] = G[m + 1] \o s[m + 2]
      BY <3>1
    <3>4. QED
      BY <3>1, <3>2, <3>3
  <2>8. Nat \subseteq Same
    <3> HIDE DEF Same
    <3> QED
      BY <2>6, <2>7, SetInduction
  <2>9. n - 1 \in Same
    <3> HIDE DEF Same
    <3>1. n - 1 \in Nat
      BY <1>3
    <3>2. QED
      BY <2>8, <3>1
  <2>10. f[n] = G[n]
    BY <1>3, <2>9
  <2>11. QED
    BY <2>5, <2>10
<1>4. QED
  BY <1>2, <1>3

\* A concatenation is built up part by part.
LEMMA FlattenHasParts ==
  ASSUME NEW C, NEW n \in Nat, NEW s \in [1 .. n -> Seq(C)]
  PROVE  \E G \in [0 .. n -> Seq(C)] : Parts(G, s, n)
<1> DEFINE Has(G, m) == G \in [0 .. m -> Seq(C)] /\ Parts(G, s, m)
           Built == {m \in Nat : m <= n => \E G : Has(G, m)}
<1> USE DEF Parts
<1>1. 0 \in Built
  <2>1. Has([i \in 0 .. 0 |-> <<>>], 0)
    BY EmptySeq
  <2>2. QED
    BY <2>1
<1>2. \A m \in Nat : m \in Built => m + 1 \in Built
  <2> SUFFICES ASSUME NEW m \in Nat, m <= n => \E G : Has(G, m), m + 1 <= n
               PROVE  \E G : Has(G, m + 1)
    <3> HIDE DEF Has
    <3> QED
      OBVIOUS
  <2>1. PICK G : Has(G, m)
    <3> HIDE DEF Has
    <3> QED
      OBVIOUS
  <2> DEFINE H == [i \in 0 .. m + 1 |-> IF i = m + 1 THEN G[m] \o s[m + 1] ELSE G[i]]
  <2>2. G[m] \o s[m + 1] \in Seq(C)
    <3>1. G[m] \in Seq(C) /\ s[m + 1] \in Seq(C)
      BY <2>1
    <3>2. QED
      BY <3>1, ConcatProperties
  <2>3. H \in [0 .. m + 1 -> Seq(C)] /\ H[0] = <<>>
    BY <2>1, <2>2
  <2>4. ASSUME NEW i \in 1 .. m + 1 PROVE H[i] = H[i - 1] \o s[i]
    <3>1. CASE i = m + 1
      <4>1. i - 1 = m /\ m \in 0 .. m + 1 /\ i \in 0 .. m + 1 /\ m # m + 1
        BY <3>1
      <4>2. H[i] = G[m] \o s[m + 1] /\ H[i - 1] = G[m]
        BY <3>1, <4>1
      <4>3. QED
        BY <3>1, <4>2
    <3>2. CASE i # m + 1
      <4>1. /\ i \in 1 .. m /\ i - 1 \in 0 .. m /\ i - 1 # m + 1
            /\ i \in 0 .. m + 1 /\ i - 1 \in 0 .. m + 1
        BY <3>2
      <4>2. H[i] = G[i] /\ H[i - 1] = G[i - 1]
        BY <4>1
      <4>3. QED
        BY <2>1, <4>1, <4>2
    <3>3. QED
      BY <3>1, <3>2
  <2>5. QED
    BY <2>3, <2>4
<1>3. n \in Built
  <2> HIDE DEF Built
  <2> QED
    BY <1>1, <1>2, SetInduction
<1>4. PICK G : Has(G, n)
  <2> HIDE DEF Has
  <2> QED
    BY <1>3
<1>5. QED
  BY <1>4

-------------------------------------------------------------------------------
(* jQuery's list of functions. *)

\* Names of functions.
FnNames == STRING

\* The list of functions, by its fields.
Callbacks == [made : BOOLEAN, list : Seq(FnNames), memory : BOOLEAN, firing : BOOLEAN,
              firingIndex : Nat]

\* The list with some more functions behind those that it has.
With(c, s) == [c EXCEPT !.list = c.list \o s]

\* y is x with e behind it.
Longer(x, e, y) == y = Append(x, e)

\* Appending to a concatenation.
LEMMA AppendToConcat ==
  ASSUME NEW S, NEW l \in Seq(S), NEW x \in Seq(S), NEW e \in S
  PROVE  l \o x \in Seq(S) /\ l \o Append(x, e) = Append(l \o x, e)
OBVIOUS

\* The same of sequences that have names.
LEMMA LongerConcat ==
  ASSUME NEW S, NEW l \in Seq(S), NEW x \in Seq(S), NEW e \in S, NEW y, Longer(x, e, y),
         NEW z, z = l \o x, NEW v, v = l \o y
  PROVE  z \in Seq(S) /\ Longer(z, e, v)
BY AppendToConcat DEF Longer

\* A beginning of a sequence, and the next element.
LEMMA NextElement ==
  ASSUME NEW S, NEW s \in Seq(S), NEW k \in Nat, k + 1 <= Len(s)
  PROVE  /\ SubSeq(s, 1, k) \in Seq(S) /\ s[k + 1] \in S
         /\ Longer(SubSeq(s, 1, k), s[k + 1], SubSeq(s, 1, k + 1))
<1>1. Len(s) \in Nat /\ \A i \in 1 .. Len(s) : s[i] \in S
  BY LenProperties
<1>2. SubSeq(s, 1, k) \in Seq(S)
  <2>1. \A i \in 1 .. k : s[i] \in S
    BY <1>1
  <2>2. QED
    BY <2>1, SubSeqProperties
<1>3. s[k + 1] \in S
  BY <1>1
<1>4. SubSeq(s, 1, k + 1) = SubSeq(s, 1, k) \o <<s[k + 1]>>
  <2>1. 1 \in 1 .. Len(s) /\ k + 1 \in 1 .. Len(s) /\ (k + 1) - 1 = k
    BY <1>1
  <2>2. QED
    BY <2>1, SubSeqRecursiveSecond
<1>5. SubSeq(s, 1, k) \o <<s[k + 1]>> = Append(SubSeq(s, 1, k), s[k + 1])
  BY <1>2, <1>3, AppendIsConcat
<1>6. QED
  BY <1>2, <1>3, <1>4, <1>5 DEF Longer

\* Appending the next element of a sequence to a beginning of it.
LEMMA AppendNext ==
  ASSUME NEW S, NEW l \in Seq(S), NEW s \in Seq(S), NEW k \in Nat, k + 1 <= Len(s)
  PROVE  /\ l \o SubSeq(s, 1, k) \in Seq(S)
         /\ Append(l \o SubSeq(s, 1, k), s[k + 1]) = l \o SubSeq(s, 1, k + 1)
<1>1. /\ SubSeq(s, 1, k) \in Seq(S) /\ s[k + 1] \in S
      /\ Longer(SubSeq(s, 1, k), s[k + 1], SubSeq(s, 1, k + 1))
  BY NextElement
<1>2. PICK x \in Seq(S), e \in S : x = SubSeq(s, 1, k) /\ e = s[k + 1]
  BY <1>1
<1>3. PICK y, z, v : y = SubSeq(s, 1, k + 1) /\ z = l \o x /\ v = l \o y
  OBVIOUS
<1>4. z \in Seq(S) /\ Longer(z, e, v)
  <2>1. Longer(x, e, y)
    BY <1>1, <1>2, <1>3
  <2>2. z = l \o x /\ v = l \o y
    BY <1>3
  <2>3. QED
    BY <2>1, <2>2, LongerConcat
<1>5. QED
  BY <1>2, <1>3, <1>4 DEF Longer

\* One function more joins a list that has not been told to run.
LEMMA AddOne ==
  ASSUME NEW c \in Callbacks, ~ c.memory, NEW s \in Seq(FnNames), NEW k \in Nat, k + 1 <= Len(s)
  PROVE  Add(With(c, SubSeq(s, 1, k)), s[k + 1]) = With(c, SubSeq(s, 1, k + 1))
<1>1. c.list \in Seq(FnNames)
  BY DEF Callbacks
<1>2. PICK x, z : x = SubSeq(s, 1, k) /\ z = SubSeq(s, 1, k + 1)
  OBVIOUS
<1>3. c.list \o x \in Seq(FnNames) /\ Append(c.list \o x, s[k + 1]) = c.list \o z
  BY <1>1, <1>2, AppendNext
<1>4. ~ With(c, x).memory /\ With(c, x) \in Callbacks /\ With(c, x).list = c.list \o x
  BY <1>3 DEF With, Callbacks
<1>5. Add(With(c, x), s[k + 1]) = [With(c, x) EXCEPT !.list = Append(c.list \o x, s[k + 1])]
  BY <1>4 DEF Add, Push
<1>6. [With(c, x) EXCEPT !.list = Append(c.list \o x, s[k + 1])] = With(c, z)
  BY <1>3 DEF With, Callbacks
<1>7. QED
  BY <1>2, <1>5, <1>6

\* Nothing that comes before the firing runs: it joins the list.
LEMMA AddAll ==
  ASSUME NEW c \in Callbacks, ~ c.memory, NEW s \in Seq(FnNames)
  PROVE  FoldLeft(Add, c, s) = With(c, s)
<1>1. PICK n \in Nat : n = Len(s) /\ DOMAIN s = 1 .. n
  BY LenProperties
<1> DEFINE Step(f, S) == IF S = {} THEN c ELSE Add(f[S \ {Max(S)}], s[Max(S)])
           Solves(f, m) == f = [S \in SUBSET (1 .. m) |-> Step(f, S)]
           Solved == {m \in Nat : \E f : Solves(f, m)}
<1>2. ASSUME NEW m \in Nat, NEW S \in SUBSET (1 .. m + 1)
      PROVE  /\ m + 1 \in S => Max(S) = m + 1 /\ S \ {Max(S)} \in SUBSET (1 .. m)
             /\ m + 1 \notin S => S \in SUBSET (1 .. m)
  <2>1. CASE m + 1 \in S
    <3>1. \A y \in S : m + 1 >= y
      OBVIOUS
    <3>2. \A x \in S : (\A y \in S : x >= y) => x = m + 1
      BY <2>1
    <3>3. Max(S) = m + 1
      BY <2>1, <3>1, <3>2 DEF Max
    <3>4. QED
      BY <2>1, <3>3
  <2>2. QED
    BY <2>1
<1>3. 0 \in Solved
  <2> DEFINE f == [S \in SUBSET (1 .. 0) |-> c]
  <2>1. \A S \in SUBSET (1 .. 0) : S = {}
    OBVIOUS
  <2>2. Solves(f, 0)
    BY <2>1
  <2>3. QED
    BY <2>2
<1>4. \A m \in Nat : m \in Solved => m + 1 \in Solved
  <2> SUFFICES ASSUME NEW m \in Nat, NEW f, Solves(f, m)
               PROVE  \E g : Solves(g, m + 1)
    <3> HIDE DEF Solves
    <3> QED
      OBVIOUS
  <2> DEFINE g == [S \in SUBSET (1 .. m + 1) |->
                     IF m + 1 \in S THEN Add(f[S \ {m + 1}], s[m + 1]) ELSE f[S]]
  <2>1. ASSUME NEW S \in SUBSET (1 .. m + 1) PROVE g[S] = Step(g, S)
    <3>1. CASE m + 1 \in S
      <4>1. /\ Max(S) = m + 1 /\ S # {}
            /\ S \ {m + 1} \in SUBSET (1 .. m + 1) /\ m + 1 \notin S \ {m + 1}
        BY <1>2, <3>1
      <4>2. g[S \ {m + 1}] = f[S \ {m + 1}]
        BY <4>1
      <4>3. QED
        BY <3>1, <4>1, <4>2
    <3>2. CASE m + 1 \notin S
      <4>1. S \in SUBSET (1 .. m)
        BY <3>2
      <4>2. g[S] = f[S] /\ f[S] = Step(f, S)
        BY <3>2, <4>1
      <4>3. CASE S # {}
        <5>1. S \ {Max(S)} \in SUBSET (1 .. m + 1) /\ m + 1 \notin S \ {Max(S)}
          BY <3>2
        <5>2. g[S \ {Max(S)}] = f[S \ {Max(S)}]
          BY <5>1
        <5>3. QED
          BY <4>2, <5>2
      <4>4. CASE S = {}
        BY <4>2, <4>4
      <4>5. QED
        BY <4>3, <4>4
    <3>3. QED
      BY <3>1, <3>2
  <2>2. Solves(g, m + 1)
    <3>1. g = [S \in SUBSET (1 .. m + 1) |-> g[S]]
      OBVIOUS
    <3> HIDE DEF g, Step
    <3>2. QED
      BY <2>1, <3>1
  <2>3. QED
    <3> HIDE DEF g, Solves
    <3> QED
      BY <2>2
<1>5. \E f : Solves(f, n)
  <2>1. n \in Solved
    <3> HIDE DEF Solved
    <3> QED
      BY <1>3, <1>4, SetInduction
  <2>2. QED
    BY <2>1
<1>6. PICK f : f = (CHOOSE g : Solves(g, n)) /\ Solves(f, n)
  <2> HIDE DEF Solves
  <2> QED
    BY <1>5
<1>7. FoldLeft(Add, c, s) = f[1 .. n]
  BY <1>1, <1>6 DEF FoldLeft, MapThenFoldSet
<1>8. \A S \in SUBSET (1 .. n) : f[S] = Step(f, S)
  BY <1>6
<1> DEFINE Right == {k \in Nat : k <= n => f[1 .. k] = With(c, SubSeq(s, 1, k))}
<1>9. 0 \in Right
  <2>1. 1 .. 0 = {} /\ {} \in SUBSET (1 .. n)
    OBVIOUS
  <2>2. f[1 .. 0] = c
    BY <1>8, <2>1
  <2>3. SubSeq(s, 1, 0) = <<>> /\ c.list \o <<>> = c.list
    BY SubSeqEmpty, ConcatEmptySeq DEF Callbacks
  <2>4. With(c, <<>>) = c
    BY <2>3 DEF With, Callbacks
  <2>5. QED
    BY <2>2, <2>3, <2>4
<1>10. \A k \in Nat : k \in Right => k + 1 \in Right
  <2> HIDE DEF Step
  <2> SUFFICES ASSUME NEW k \in Nat, k + 1 <= n, f[1 .. k] = With(c, SubSeq(s, 1, k))
               PROVE  f[1 .. k + 1] = With(c, SubSeq(s, 1, k + 1))
    OBVIOUS
  <2>1. /\ 1 .. k + 1 \in SUBSET (1 .. n) /\ 1 .. k + 1 # {} /\ k + 1 \in 1 .. k + 1
        /\ (1 .. k + 1) \ {k + 1} = 1 .. k
    <3>1. k + 1 \in 1 .. k + 1
      OBVIOUS
    <3>2. \A i : i \in 1 .. k + 1 => i \in 1 .. n
      OBVIOUS
    <3>3. \A i : i \in (1 .. k + 1) \ {k + 1} <=> i \in 1 .. k
      OBVIOUS
    <3>4. QED
      BY <3>1, <3>2, <3>3
  <2>2. Max(1 .. k + 1) = k + 1
    BY <1>2, <2>1
  <2>3. f[1 .. k + 1] = Add(f[1 .. k], s[k + 1])
    <3>1. f[1 .. k + 1] = Step(f, 1 .. k + 1)
      BY <1>8, <2>1
    <3>2. QED
      BY <2>1, <2>2, <3>1 DEF Step
  <2>4. Add(With(c, SubSeq(s, 1, k)), s[k + 1]) = With(c, SubSeq(s, 1, k + 1))
    BY <1>1, AddOne
  <2>5. QED
    BY <2>3, <2>4
<1>11. n \in Right
  <2> HIDE DEF Right
  <2> QED
    BY <1>9, <1>10, SetInduction
<1>12. SubSeq(s, 1, n) = s
  BY <1>1, SubSeqFull
<1>13. f[1 .. n] = With(c, SubSeq(s, 1, n))
  BY <1>11
<1>14. QED
  BY <1>7, <1>12, <1>13

-------------------------------------------------------------------------------
(* The invariant. *)

\* The functions in the order in which the scripts hand them over, and those of the first
\* scripts.
AllFns == FlattenSeq(Scripts)
Handed == CHOOSE G \in [0 .. Len(Scripts) -> Seq(FnNames)] : Parts(G, Scripts, Len(Scripts))

\* The scripts are a sequence of sequences of functions.
LEMMA ScriptsType ==
  /\ Len(Scripts) \in Nat
  /\ Scripts \in [1 .. Len(Scripts) -> Seq(FnNames)]
  /\ DOMAIN Scripts = 1 .. Len(Scripts)
BY ScriptsAssumption, LenProperties DEF FnNames

\* Each script adds its functions behind those of the scripts before it.
LEMMA HandedIs ==
  /\ Handed \in [0 .. Len(Scripts) -> Seq(FnNames)]
  /\ Handed[0] = <<>>
  /\ \A i \in 1 .. Len(Scripts) : Handed[i] = Handed[i - 1] \o Scripts[i]
  /\ AllFns = Handed[Len(Scripts)]
  /\ AllFns \in Seq(FnNames)
<1>1. \E G \in [0 .. Len(Scripts) -> Seq(FnNames)] : Parts(G, Scripts, Len(Scripts))
  BY ScriptsType, FlattenHasParts
<1>2. Handed \in [0 .. Len(Scripts) -> Seq(FnNames)] /\ Parts(Handed, Scripts, Len(Scripts))
  BY <1>1 DEF Handed
<1>3. FlattenSeq(Scripts) = Handed[Len(Scripts)]
  BY <1>2, ScriptsType, FlattenIs
<1>4. Len(Scripts) \in 0 .. Len(Scripts)
  BY ScriptsType
<1>5. QED
  BY <1>2, <1>3, <1>4 DEF AllFns, Parts

\* What document.readyState may be, and the entries of the history.
States == {"loading", "interactive", "complete"}
Runs == [fn : FnNames, readyState : States]

\* Before jQuery.ready has been told, the list grows, and nothing of it has run.
Waiting ==
  /\ readyWait = 1
  /\ ~ readyList.memory
  /\ ~ readyList.firing
  /\ ran = <<>>
  /\ readyList.list = Handed[parsed]

\* From then on no script comes, and the functions run one after the other.
Told ==
  /\ readyList.memory
  /\ readyState # "loading"
  /\ readyList.firing =>
       /\ readyList.list = AllFns
       /\ readyList.firingIndex \in 1 .. Len(AllFns)
       /\ Len(ran) = readyList.firingIndex - 1
  /\ ~ readyList.firing => Len(ran) = Len(AllFns)

\* What has run so far.
RanInOrder ==
  /\ ran \in Seq(Runs)
  /\ Len(ran) <= Len(AllFns)
  /\ \A k \in 1 .. Len(ran) : ran[k].fn = AllFns[k] /\ ran[k].readyState # "loading"

\* The browser runs all scripts before it has parsed the page, and no event comes earlier.
Loading ==
  /\ readyState \in States
  /\ parsed \in 0 .. Len(Scripts)
  /\ readyState # "loading" => parsed = Len(Scripts)
  /\ readyState = "loading" => arriving = <<>>

\* The inductive invariant: the list waits until jQuery.ready is told, and then it runs.
ReadyInv ==
  /\ Loading
  /\ readyList \in Callbacks
  /\ isReady \in BOOLEAN
  /\ RanInOrder
  /\ ~ isReady => Waiting
  /\ isReady => Told

-------------------------------------------------------------------------------
(* Each step keeps it. *)

\* fire() of a list that has functions.
LEMMA BatchStarts ==
  ASSUME NEW c \in Callbacks, NEW d,
         d = [c EXCEPT !.memory = TRUE, !.firing = TRUE, !.firingIndex = 0 + 1]
  PROVE  d \in Callbacks /\ d.memory /\ d.firing /\ d.list = c.list /\ d.firingIndex = 1
<1>1. 0 + 1 = 1 /\ 1 \in Nat
  OBVIOUS
<1>2. d = [c EXCEPT !.memory = TRUE, !.firing = TRUE, !.firingIndex = 1]
  BY <1>1
<1>3. QED
  BY <1>1, <1>2 DEF Callbacks

\* fire() after the last function has returned.
LEMMA BatchEnds ==
  ASSUME NEW c \in Callbacks, NEW d,
         d = [c EXCEPT !.list = <<>>, !.firing = FALSE, !.firingIndex = 0]
  PROVE  d \in Callbacks /\ ~ d.firing /\ d.memory = c.memory
<1>1. PICK e \in Seq(FnNames) : e = <<>>
  BY EmptySeq
<1>2. d = [c EXCEPT !.list = e, !.firing = FALSE, !.firingIndex = 0] /\ 0 \in Nat
  BY <1>1
<1>3. QED
  BY <1>2 DEF Callbacks

\* Before the page is loaded nothing waits.
LEMMA ReadyInitInv == Init => ReadyInv
<1> SUFFICES ASSUME Init PROVE ReadyInv
  OBVIOUS
<1>1. /\ readyState = "loading" /\ parsed = 0 /\ arriving = <<>> /\ ~ isReady /\ isReady \in BOOLEAN
      /\ readyWait = 1 /\ readyList = NoList /\ ran = <<>>
  BY DEF Init, ReadyInit
<1>2. NoList \in Callbacks /\ NoList.list = <<>> /\ ~ NoList.memory /\ ~ NoList.firing
  BY EmptySeq DEF NoList, Callbacks
<1>3. RanInOrder
  <2>1. Len(AllFns) \in Nat
    BY HandedIs, LenProperties
  <2>2. QED
    BY <1>1, <2>1, EmptySeq DEF RanInOrder
<1>4. Loading
  BY <1>1, ScriptsType DEF Loading, States
<1>5. Waiting
  BY <1>1, <1>2, HandedIs DEF Waiting
<1>6. QED
  BY <1>1, <1>2, <1>3, <1>4, <1>5 DEF ReadyInv

\* jQuery.ready, whoever calls it, once the page is parsed.
LEMMA ReadyKeeps ==
  ASSUME ReadyInv, readyState # "loading", Ready, UNCHANGED <<browser, ran>>
  PROVE  ReadyInv'
<1>1. /\ readyState' = readyState /\ parsed' = parsed /\ ran' = ran
      /\ Loading /\ readyList \in Callbacks /\ RanInOrder /\ parsed = Len(Scripts)
  BY DEF ReadyInv, Loading, browser
<1>2. Loading' /\ RanInOrder'
  BY <1>1 DEF Loading, RanInOrder
<1>3. CASE isReady
  <2>1. isReady' = isReady /\ readyWait' = readyWait /\ readyList' = readyList
    BY <1>3 DEF Ready
  <2>2. QED
    BY <1>1, <1>2, <1>3, <2>1 DEF ReadyInv, Told
<1>4. CASE ~ isReady
  <2>1. Waiting
    BY <1>4 DEF ReadyInv
  <2>2. isReady' = TRUE /\ readyList' = Fire(readyList, 0)
    BY <1>4, <2>1 DEF Ready, Waiting, FireWith
  <2>3. readyList.list = AllFns /\ Len(AllFns) \in Nat /\ Len(ran) = 0
    BY <1>1, <2>1, HandedIs, LenProperties, EmptySeq DEF Waiting
  <2>4. CASE Len(AllFns) = 0
    <3>1. readyList' = [readyList EXCEPT !.memory = TRUE, !.list = <<>>]
      BY <2>2, <2>3, <2>4 DEF Fire
    <3>2. readyList' \in Callbacks /\ readyList'.memory /\ ~ readyList'.firing
      BY <1>1, <2>1, <3>1, EmptySeq DEF Callbacks, Waiting
    <3>3. QED
      BY <1>1, <1>2, <2>2, <2>3, <2>4, <3>2 DEF ReadyInv, Told
  <2>5. CASE Len(AllFns) # 0
    <3>1. readyList' = [readyList EXCEPT !.memory = TRUE, !.firing = TRUE, !.firingIndex = 0 + 1]
      BY <2>2, <2>3, <2>5 DEF Fire
    <3>2. /\ readyList' \in Callbacks /\ readyList'.memory /\ readyList'.firing
          /\ readyList'.list = AllFns /\ readyList'.firingIndex = 1
      BY <1>1, <2>3, <3>1, BatchStarts
    <3>3. 1 \in 1 .. Len(AllFns) /\ 1 - 1 = 0
      BY <2>3, <2>5
    <3>4. Told'
      BY <1>1, <2>3, <3>2, <3>3 DEF Told
    <3>5. QED
      BY <1>1, <1>2, <2>2, <3>2, <3>4 DEF ReadyInv
  <2>6. QED
    BY <2>4, <2>5
<1>5. QED
  BY <1>3, <1>4

\* A script hands over its functions while the page is parsed, before jQuery.ready is told.
LEMMA RunScriptKeeps ==
  ASSUME ReadyInv, RunScript
  PROVE  ReadyInv'
<1>1. /\ Loading /\ readyList \in Callbacks /\ RanInOrder /\ isReady \in BOOLEAN
      /\ parsed < Len(Scripts) /\ parsed' = parsed + 1
      /\ readyState' = readyState /\ arriving' = arriving /\ isReady' = isReady
      /\ readyWait' = readyWait /\ ran' = ran
      /\ readyList' = FoldLeft(Add, [readyList EXCEPT !.made = TRUE], Scripts[parsed + 1])
  BY DEF ReadyInv, RunScript
<1>2. parsed \in Nat /\ Len(Scripts) \in Nat /\ parsed + 1 \in 1 .. Len(Scripts)
      /\ (parsed + 1) - 1 = parsed /\ parsed \in 0 .. Len(Scripts)
  BY <1>1, ScriptsType DEF Loading
<1>3. readyState = "loading" /\ Waiting /\ ~ isReady
  BY <1>1, <1>2 DEF Loading, ReadyInv, Told
<1>4. PICK c \in Callbacks : c = [readyList EXCEPT !.made = TRUE]
  BY <1>1 DEF Callbacks
<1>5. ~ c.memory /\ ~ c.firing /\ c.list = Handed[parsed]
  BY <1>1, <1>3, <1>4 DEF Waiting, Callbacks
<1>6. PICK s \in Seq(FnNames) : s = Scripts[parsed + 1]
  BY <1>2, ScriptsType
<1>7. readyList' = With(c, s)
  BY <1>1, <1>4, <1>5, <1>6, AddAll
<1>8. c.list \o s = Handed[parsed + 1] /\ Handed[parsed + 1] \in Seq(FnNames)
  <2>1. PICK k \in 1 .. Len(Scripts) : k = parsed + 1
    BY <1>2
  <2>2. k \in 0 .. Len(Scripts)
    BY <1>2
  <2>3. Handed[k] = Handed[k - 1] \o Scripts[k] /\ Handed[k] \in Seq(FnNames)
    BY <2>2, HandedIs
  <2>4. QED
    BY <1>2, <1>5, <1>6, <2>1, <2>3
<1>9. /\ readyList' \in Callbacks /\ ~ readyList'.memory /\ ~ readyList'.firing
      /\ readyList'.list = Handed[parsed + 1]
  BY <1>5, <1>7, <1>8 DEF With, Callbacks
<1>10. Waiting'
  BY <1>1, <1>3, <1>9 DEF Waiting
<1>11. Loading' /\ RanInOrder'
  BY <1>1, <1>2, <1>3 DEF Loading, RanInOrder
<1>12. QED
  BY <1>1, <1>3, <1>9, <1>10, <1>11 DEF ReadyInv

\* Every step of the browser, in particular every event that may tell jQuery.ready.
LEMMA BrowserKeeps ==
  ASSUME ReadyInv, BrowserNext
  PROVE  ReadyInv'
<1>1. CASE RunScript
  BY <1>1, RunScriptKeeps
<1>2. ASSUME ParseEnds \/ LoadEnds
      PROVE  ReadyInv'
  <2>1. /\ parsed' = parsed /\ isReady' = isReady /\ readyWait' = readyWait
        /\ readyList' = readyList /\ ran' = ran
        /\ readyState' \in {"interactive", "complete"} /\ parsed = Len(Scripts)
    BY <1>2 DEF ParseEnds, LoadEnds, ReadyInv, Loading
  <2>2. Loading'
    BY <2>1 DEF ReadyInv, Loading, States
  <2>3. RanInOrder' /\ (~ isReady => Waiting') /\ (isReady => Told')
    BY <2>1 DEF ReadyInv, RanInOrder, Waiting, Told
  <2>4. QED
    BY <2>1, <2>2, <2>3 DEF ReadyInv
<1>3. ASSUME NEW b \in BOOLEAN, readyState # "loading",
             UNCHANGED <<isReady, readyWait, readyList>>, UNCHANGED <<browser, ran>>
      PROVE  ReadyInv'
  BY <1>3 DEF ReadyInv, RanInOrder, Waiting, Told, Loading, browser
<1>4. CASE EventArrives
  <2>1. readyState # "loading" /\ UNCHANGED <<browser, ran>>
    BY <1>4 DEF EventArrives, ReadyInv, Loading
  <2>2. Ready \/ UNCHANGED <<isReady, readyWait, readyList>>
    BY <1>4 DEF EventArrives
  <2>3. QED
    BY <1>3, <2>1, <2>2, ReadyKeeps
<1>5. CASE DoScrollCheck
  <2>1. UNCHANGED <<browser, ran, arriving>> /\ readyState \in States
    BY <1>5 DEF DoScrollCheck, ReadyInv, Loading
  <2>2. CASE scrollCheck'
    <3>1. UNCHANGED <<isReady, readyWait, readyList>>
      BY <1>5, <2>2 DEF DoScrollCheck
    <3>2. QED
      BY <2>1, <3>1 DEF ReadyInv, RanInOrder, Waiting, Told, Loading, browser
  <2>3. CASE ~ scrollCheck'
    <3>1. Ready /\ (isReady \/ readyState # "loading")
      BY <1>5, <2>3 DEF DoScrollCheck
    <3>2. readyState # "loading"
      BY <3>1 DEF ReadyInv, Told
    <3>3. QED
      BY <2>1, <3>1, <3>2, ReadyKeeps
  <2>4. QED
    BY <2>2, <2>3
<1>6. QED
  BY <1>1, <1>2, <1>4, <1>5 DEF BrowserNext

\* The function at firingIndex runs: it is the one behind those that ran.
LEMMA RunReadyFunctionKeeps ==
  ASSUME ReadyInv, NEW fn, RunReadyFunction(fn)
  PROVE  ReadyInv'
<1>1. /\ Loading /\ readyList \in Callbacks /\ RanInOrder /\ isReady \in BOOLEAN
      /\ readyList.firing /\ fn = readyList.list[readyList.firingIndex]
      /\ ran' = Append(ran, [fn |-> fn, readyState |-> readyState])
      /\ readyList' = Fired(readyList)
      /\ readyState' = readyState /\ parsed' = parsed /\ arriving' = arriving
      /\ isReady' = isReady /\ readyWait' = readyWait
  BY DEF ReadyInv, RunReadyFunction, browser
<1>2. isReady /\ Told
  BY <1>1 DEF ReadyInv, Waiting
<1>3. PICK n \in Nat : n = Len(AllFns)
  BY HandedIs, LenProperties
<1>4. PICK i \in 1 .. n : i = readyList.firingIndex /\ Len(ran) = i - 1
  BY <1>1, <1>2, <1>3 DEF Told
<1>5. readyList.list = AllFns /\ readyState # "loading" /\ readyList.memory
  BY <1>1, <1>2 DEF Told
<1>6. fn = AllFns[i] /\ fn \in FnNames
  <2>1. AllFns[i] \in FnNames
    BY <1>3, <1>4, HandedIs, ElementOfSeq
  <2>2. QED
    BY <1>1, <1>4, <1>5, <2>1
<1>7. PICK r \in Runs : r = [fn |-> fn, readyState |-> readyState]
  BY <1>1, <1>6 DEF Runs, Loading
<1>8. /\ ran' \in Seq(Runs) /\ Len(ran') = i
      /\ \A k \in 1 .. i - 1 : ran'[k] = ran[k]
      /\ ran'[i] = r
  <2>1. ran \in Seq(Runs) /\ ran' = Append(ran, r) /\ (i - 1) + 1 = i
    BY <1>1, <1>7 DEF RanInOrder
  <2>2. QED
    BY <1>4, <2>1, AppendProperties
<1>9. RanInOrder'
  <2>1. i <= n
    BY <1>4
  <2>2. ASSUME NEW k \in 1 .. i PROVE ran'[k].fn = AllFns[k] /\ ran'[k].readyState # "loading"
    <3>1. CASE k = i
      BY <1>5, <1>6, <1>7, <1>8, <3>1
    <3>2. CASE k # i
      <4>1. k \in 1 .. i - 1 /\ k \in 1 .. Len(ran)
        BY <1>4, <3>2
      <4>2. QED
        BY <1>1, <1>8, <4>1 DEF RanInOrder
    <3>3. QED
      BY <3>1, <3>2
  <2>3. AllFns' = AllFns
    BY DEF AllFns
  <2>4. QED
    BY <1>3, <1>8, <2>1, <2>2, <2>3 DEF RanInOrder
<1>10. CASE i < n
  <2>1. readyList' = [readyList EXCEPT !.firingIndex = @ + 1]
    BY <1>1, <1>3, <1>4, <1>5, <1>10 DEF Fired
  <2>2. /\ readyList' \in Callbacks /\ readyList'.memory /\ readyList'.firing
        /\ readyList'.list = AllFns /\ readyList'.firingIndex = i + 1
    BY <1>1, <1>4, <1>5, <2>1 DEF Callbacks
  <2>3. i + 1 \in 1 .. n /\ (i + 1) - 1 = i
    BY <1>4, <1>10
  <2>4. Told'
    BY <1>1, <1>3, <1>5, <1>8, <2>2, <2>3 DEF Told
  <2>5. QED
    BY <1>1, <1>2, <1>9, <2>2, <2>4 DEF ReadyInv, Loading
<1>11. CASE ~ (i < n)
  <2>1. readyList' = [readyList EXCEPT !.list = <<>>, !.firing = FALSE, !.firingIndex = 0]
    BY <1>1, <1>3, <1>4, <1>5, <1>11 DEF Fired
  <2>2. readyList' \in Callbacks /\ readyList'.memory /\ ~ readyList'.firing
    BY <1>1, <1>5, <2>1, BatchEnds
  <2>3. i = n
    BY <1>4, <1>11
  <2>4. Told'
    BY <1>1, <1>3, <1>5, <1>8, <2>2, <2>3 DEF Told
  <2>5. QED
    BY <1>1, <1>2, <1>9, <2>2, <2>4 DEF ReadyInv, Loading
<1>12. QED
  BY <1>10, <1>11

\* Nothing else on the page touches the list: not the clicks, not the timers.
LEMMA ReadyNextInv == ReadyInv /\ [Next]_vars => ReadyInv'
<1> SUFFICES ASSUME ReadyInv, [Next]_vars PROVE ReadyInv'
  OBVIOUS
<1>1. CASE UNCHANGED readyVars
  BY <1>1 DEF readyVars, browser, ReadyInv, Loading, RanInOrder, Waiting, Told
<1>2. CASE PageArrives
  BY <1>2, BrowserKeeps DEF PageArrives
<1>3. CASE ReadyFunction
  BY <1>3, RunReadyFunctionKeeps DEF ReadyFunction
<1>4. ASSUME ~ PageArrives, ~ ReadyFunction
      PROVE  UNCHANGED readyVars
  BY <1>4 DEF Next, Click, TickStarts, TickSteps, TickEnds, FxNowCleared, TimePasses, vars
<1>5. QED
  BY <1>1, <1>2, <1>3, <1>4

\* What ran is the beginning of what was handed over, and all of it when the list is done.
LEMMA ReadyInvHelps == ReadyInv => ReadyInOrder
<1> SUFFICES ASSUME ReadyInv PROVE ReadyInOrder
  OBVIOUS
<1> DEFINE t == [k \in DOMAIN ran |-> ran[k].fn]
<1>1. PICK m \in Nat : m = Len(ran) /\ DOMAIN ran = 1 .. m
  BY LenProperties DEF ReadyInv, RanInOrder
<1>2. PICK n \in Nat : n = Len(AllFns) /\ \A k \in 1 .. n : AllFns[k] \in FnNames
  BY HandedIs, LenProperties
<1>3. m <= n /\ \A k \in 1 .. m : t[k] = AllFns[k] /\ ran[k].readyState # "loading"
  BY <1>1, <1>2 DEF ReadyInv, RanInOrder
<1>4. \A k \in 1 .. m : t[k] \in FnNames
  BY <1>2, <1>3
<1>5. t \in Seq(FnNames) /\ Len(t) = m
  <2>1. t = [k \in 1 .. m |-> t[k]]
    BY <1>1
  <2> HIDE DEF t
  <2>2. t \in [1 .. m -> FnNames]
    BY <1>4, <2>1
  <2>3. QED
    BY <2>2
<1>6. IsPrefix(t, AllFns)
  <2> HIDE DEF t
  <2>1. SubSeq(t, 1, m) = t
    BY <1>5, SubSeqFull
  <2>2. PICK u : u = SubSeq(AllFns, 1, m)
    OBVIOUS
  <2>3. u \in Seq(FnNames) /\ Len(u) = m /\ \A k \in 1 .. m : u[k] = AllFns[k]
    <3>1. /\ \A k \in 1 .. m : AllFns[k] \in FnNames
          /\ (IF 1 <= m THEN m - 1 + 1 ELSE 0) = m /\ m - 1 + 1 = m
          /\ \A k \in 1 .. m : 1 + k - 1 = k
      BY <1>2, <1>3
    <3>2. QED
      BY <2>2, <3>1, SubSeqProperties
  <2>4. u = t
    BY <1>3, <1>5, <2>3, SeqEqual
  <2>5. QED
    BY <1>2, <1>3, <1>5, <2>1, <2>2, <2>4 DEF IsPrefix
<1>7. isReady /\ ~ readyList.firing => m = n
  BY <1>1, <1>2 DEF ReadyInv, Told
<1>8. QED
  BY <1>1, <1>2, <1>3, <1>6, <1>7 DEF ReadyInOrder, AllFns

\* Whichever events tell jQuery.ready, and however often, the functions that wait run in the
\* order they came, once each, when the page is parsed, and all of them.
THEOREM ReadyInOrderHolds == Spec => []ReadyInOrder
<1>1. QED
  BY ReadyInitInv, ReadyNextInv, ReadyInvHelps, PTL DEF Spec
===============================================================================
