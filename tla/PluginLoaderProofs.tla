--------------------------- MODULE PluginLoaderProofs ---------------------------
(***************************************************************************)
(* What becomes of the executors that the jars have to offer, for any      *)
(* number of jars, classes and lines.                                      *)
(***************************************************************************)
EXTENDS PluginLoader, SequenceTheorems, TLAPS

(* The inductive invariant. *)

Executor(c) == kind[c] = "executor"

\* A line of the jar being read still names c.
ToCome(j, c) == pc = "lines" /\ j = reading /\ \E i \in 1 .. Len(lines) : lines[i] = c

\* The search reads what the directory holds, and all of it.
Search ==
  /\ pc \in {"jars", "lines"} => directory
  /\ pc = "lines" => reading \in Jars
  /\ pc = "loaded" /\ directory => left = {}

\* The keys are those of the executors registered.  A class that was dealt with is
\* registered if it is an executor: done may be read for addons.
Keys ==
  /\ routingKeys \in Seq(Classes)
  /\ \A c \in Classes : Listed(c) <=> c \in addons /\ Executor(c)
  /\ \A c \in done : Executor(c) => c \in addons

\* What the jars offer that were opened is registered, or its turn is still to come.
Offered ==
  directory /\ pc \in {"jars", "lines", "loaded"} =>
    \A j \in Jars \ left, c \in Classes : Offers(j, c) => c \in addons \/ ToCome(j, c)

\* The last answer is still what getExecutor() would say.
Answered ==
  answer # NoAnswer => /\ pc = "loaded" /\ answer.class \in Classes
                       /\ answer.got = "executor" <=>
                            answer.class \in addons /\ Executor(answer.class)

IInv == TypeOK /\ Search /\ Keys /\ Offered /\ Answered
-------------------------------------------------------------------------------
(* Lines. *)

\* The lines of a config are a sequence.
LEMMA BoundedIsSeq ==
  ASSUME NEW s \in BoundedSeq(Classes, MaxLines)
  PROVE  s \in Seq(Classes) /\ Len(s) \in 0 .. MaxLines /\ DOMAIN s = 1 .. Len(s)
<1>1. PICK m \in 0 .. MaxLines : s \in [1 .. m -> Classes]
  BY DEF BoundedSeq, SeqOf
<1>2. m \in Nat
  BY LoaderAssumption
<1>3. s \in Seq(Classes)
  BY <1>1, <1>2, SeqDef
<1>4. Len(s) = m
  BY <1>1, <1>2
<1>5. QED
  BY <1>1, <1>3, <1>4

\* The lines of a part of a config are those of one.
LEMMA SeqIsBounded ==
  ASSUME NEW s \in Seq(Classes), Len(s) \in 0 .. MaxLines
  PROVE  s \in BoundedSeq(Classes, MaxLines)
BY LenProperties DEF BoundedSeq, SeqOf

\* Reading a line takes the first off, and only that.
LEMMA LineRead ==
  ASSUME NEW s \in BoundedSeq(Classes, MaxLines), s # <<>>
  PROVE  /\ Head(s) \in Classes /\ Tail(s) \in BoundedSeq(Classes, MaxLines)
         /\ \A i \in 1 .. Len(s) :
              s[i] = Head(s) \/ \E k \in 1 .. Len(Tail(s)) : Tail(s)[k] = s[i]
<1>1. s \in Seq(Classes) /\ Len(s) \in 0 .. MaxLines
  BY BoundedIsSeq
<1>2. /\ Head(s) \in Classes /\ Tail(s) \in Seq(Classes) /\ Len(Tail(s)) = Len(s) - 1
      /\ \A i \in 1 .. Len(Tail(s)) : Tail(s)[i] = s[i + 1]
  BY <1>1, HeadTailProperties
<1>3. Len(s) \in Nat \ {0} /\ Head(s) = s[1]
  BY <1>1, EmptySeq
<1>4. Tail(s) \in BoundedSeq(Classes, MaxLines)
  <2>1. Len(Tail(s)) \in 0 .. MaxLines
    BY <1>1, <1>2, <1>3, LoaderAssumption
  <2>2. QED
    BY <1>2, <2>1, SeqIsBounded
<1>5. ASSUME NEW i \in 1 .. Len(s), i # 1
      PROVE  \E k \in 1 .. Len(Tail(s)) : Tail(s)[k] = s[i]
  <2>1. i - 1 \in 1 .. Len(Tail(s)) /\ i = (i - 1) + 1
    BY <1>2, <1>3, <1>5
  <2>2. QED
    BY <1>2, <2>1
<1>6. QED
  BY <1>2, <1>3, <1>4, <1>5

-------------------------------------------------------------------------------
(* The steps. *)

LEMMA InitIInv == Init => IInv
<1> SUFFICES ASSUME Init
             PROVE  IInv
  OBVIOUS
<1>1. <<>> \in Seq(Classes) /\ Len(<<>>) \in 0 .. MaxLines
  BY LoaderAssumption
<1>2. <<>> \in BoundedSeq(Classes, MaxLines)
  BY <1>1, SeqIsBounded
<1>3. \A c \in Classes : ~Listed(c)
  BY DEF Init, Listed
<1>4. TypeOK
  BY <1>2 DEF Init, TypeOK, NoAnswer
<1>5. Search /\ Offered /\ Answered
  BY DEF Init, Search, Offered, Answered
<1>6. Keys
  BY <1>1, <1>3 DEF Init, Keys
<1>7. QED
  BY <1>4, <1>5, <1>6 DEF IInv

\* A step that registers nothing and does not change what was dealt with.
LEMMA SameKeys ==
  ASSUME Keys, UNCHANGED <<addons, routingKeys, kind>>, done' \subseteq done
  PROVE  Keys'
BY DEF Keys, Listed, Executor

\* The search goes from jar to jar: a jar whose lines are all read offers nothing more,
\* and one that does not open had nothing to offer.
LEMMA SearchKeeps ==
  ASSUME IInv, findJars \/ OpenJar \/ NoMoreJars \/ NoMoreLines \/ BreakDown
  PROVE  IInv'
<1> USE DEF IInv
<1>1. /\ UNCHANGED <<world, addons, routingKeys, answer>>
      /\ pc # "loaded" /\ answer = NoAnswer
  BY DEF findJars, OpenJar, NoMoreJars, NoMoreLines, BreakDown, Answered
<1>2. Keys'
  <2>1. done' \subseteq done
    BY DEF findJars, OpenJar, NoMoreJars, NoMoreLines, BreakDown
  <2>2. QED
    BY <1>1, <2>1, SameKeys DEF world
<1>3. Answered'
  BY <1>1 DEF Answered, NoAnswer
<1>4. \A j \in Jars, c \in Classes : Offers(j, c)' <=> Offers(j, c)
  BY <1>1 DEF Offers, world
<1>5. CASE findJars
  BY <1>1, <1>2, <1>3, <1>5 DEF findJars, TypeOK, Search, Offered, world
<1>6. CASE OpenJar
  <2>1. PICK j \in left :
          /\ pc = "jars" /\ left' = left \ {j}
          /\ IF jar[j].opens
             THEN reading' = j /\ lines' = jar[j].lines /\ done' = {} /\ pc' = "lines"
             ELSE UNCHANGED <<reading, lines, done, pc>>
    BY <1>6 DEF OpenJar
  <2>2. /\ j \in Jars /\ jar[j].opens \in BOOLEAN
        /\ jar[j].lines \in BoundedSeq(Classes, MaxLines)
        /\ ~jar[j].opens => jar[j].has = {}
    BY <2>1 DEF TypeOK, Jar
  <2>3. TypeOK' /\ Search'
    BY <1>1, <2>1, <2>2 DEF TypeOK, Search, world
  <2>4. \A c \in Classes : Offers(j, c) => ToCome(j, c)'
    BY <2>1, <2>2, BoundedIsSeq DEF Offers, ToCome
  <2>5. ASSUME NEW k \in Jars \ left', NEW c \in Classes, Offers(k, c), k # j
        PROVE  c \in addons
    BY <2>1, <2>5 DEF Search, Offered, ToCome
  <2>6. Offered'
    BY <1>1, <1>4, <2>1, <2>4, <2>5 DEF Offered
  <2>7. QED
    BY <1>2, <1>3, <2>3, <2>6
<1>7. CASE NoMoreJars \/ BreakDown
  BY <1>1, <1>2, <1>3, <1>4, <1>7
  DEF NoMoreJars, BreakDown, TypeOK, Search, Offered, ToCome, world
<1>8. CASE NoMoreLines
  <2>1. \A j, c : ~ToCome(j, c)
    <3>1. Len(lines) = 0
      BY <1>8 DEF NoMoreLines
    <3>2. QED
      BY <3>1 DEF ToCome
  <2>2. QED
    BY <1>1, <1>2, <1>3, <1>4, <1>8, <2>1 DEF NoMoreLines, TypeOK, Search, Offered, world
<1>9. QED
  BY <1>5, <1>6, <1>7, <1>8

\* A line whose class is registered is not missed, and neither are those after it.
LEMMA ReadLineKeeps ==
  ASSUME IInv, ReadLine
  PROVE  IInv'
<1> DEFINE c == Head(lines)
<1> USE DEF IInv
<1>1. /\ pc = "lines" /\ lines' = Tail(lines)
      /\ UNCHANGED <<world, pc, left, reading, answer>>
      /\ ~IsNew(c) => UNCHANGED <<done, addons, routingKeys>>
      /\ IsNew(c) => /\ kind[c] \in {"executor", "abstract", "other"}
                     /\ Register(c)
  BY LineRead DEF ReadLine, Register, AfterException, TypeOK
<1>2. /\ c \in Classes /\ Tail(lines) \in BoundedSeq(Classes, MaxLines)
      /\ \A i \in 1 .. Len(lines) :
           lines[i] = c \/ \E k \in 1 .. Len(Tail(lines)) : Tail(lines)[k] = lines[i]
  BY LineRead DEF ReadLine, TypeOK
<1>3. \A j \in Jars, d \in Classes : ToCome(j, d) => ToCome(j, d)' \/ (j = reading /\ d = c)
  BY <1>1, <1>2 DEF ToCome
<1>4. /\ addons' \in {addons, addons \cup {c}} /\ done' \in {done, done \cup {c}}
      /\ routingKeys' = IF IsNew(c) /\ Executor(c) THEN Append(routingKeys, c) ELSE routingKeys
      /\ IsNew(c) /\ Executor(c) => c \in addons'
      /\ ~(IsNew(c) /\ Executor(c)) =>
           \A d \in Classes : Executor(d) => /\ d \in addons' <=> d \in addons
                                             /\ d \in done' <=> d \in done
      /\ kind[c] = "other" => addons' = addons
  <2>1. CASE IsNew(c) /\ kind[c] = "executor"
    BY <1>1, <2>1 DEF Register, Executor
  <2>2. CASE IsNew(c) /\ kind[c] = "abstract"
    BY <1>1, <2>2 DEF Register, Executor
  <2>3. CASE IsNew(c) /\ kind[c] = "other"
    BY <1>1, <2>3 DEF Register, Executor
  <2>4. CASE ~IsNew(c)
    BY <1>1, <2>4
  <2>5. QED
    BY <1>1, <2>1, <2>2, <2>3, <2>4
<1>5. /\ routingKeys' \in Seq(Classes)
      /\ \A d \in Classes : Listed(d)' <=> Listed(d) \/ (IsNew(c) /\ Executor(c) /\ d = c)
  <2>1. CASE IsNew(c) /\ Executor(c)
    <3>1. /\ routingKeys' = Append(routingKeys, c) /\ routingKeys' \in Seq(Classes)
          /\ Len(routingKeys') = Len(routingKeys) + 1 /\ Len(routingKeys) \in Nat
          /\ \A i \in 1 .. Len(routingKeys) : routingKeys'[i] = routingKeys[i]
          /\ routingKeys'[Len(routingKeys) + 1] = c
      BY <1>2, <1>4, <2>1, AppendProperties, LenProperties DEF Keys
    <3>2. /\ DOMAIN routingKeys = 1 .. Len(routingKeys)
          /\ DOMAIN routingKeys' = 1 .. Len(routingKeys')
      BY <3>1, LenProperties DEF Keys
    <3>3. QED
      BY <2>1, <3>1, <3>2 DEF Listed
  <2>2. CASE ~(IsNew(c) /\ Executor(c))
    BY <1>4, <2>2 DEF Keys, Listed
  <2>3. QED
    BY <2>1, <2>2
<1>6. TypeOK'
  <2>1. \A i \in DOMAIN routingKeys' : routingKeys'[i] \in Classes
    BY <1>5, LenProperties
  <2>2. QED
    BY <1>1, <1>2, <1>4, <2>1 DEF TypeOK, world
<1>7. Search' /\ Answered'
  BY <1>1 DEF Search, Answered, world
<1>8. Keys'
  BY <1>1, <1>2, <1>4, <1>5 DEF Keys, Executor, world
<1>9. Offered'
  <2>1. Offers(reading, c) => c \in addons'
    BY <1>2, <1>4 DEF Offers, Keys, IsNew, Executor
  <2>2. \A j \in Jars, d \in Classes : Offers(j, d)' <=> Offers(j, d)
    BY <1>1 DEF Offers, world
  <2>3. QED
    BY <1>1, <1>3, <1>4, <2>1, <2>2 DEF Offered, world
<1>10. QED
  BY <1>6, <1>7, <1>8, <1>9

\* What the worker is told does not change what there is.
LEMMA AnswerKeeps ==
  ASSUME IInv, NEW c \in Classes, getExecutor(c)
  PROVE  IInv'
<1> USE DEF IInv, getExecutor
<1>1. TypeOK'
  BY DEF TypeOK, world
<1>2. Search' /\ Keys'
  BY SameKeys DEF Search, world
<1>3. Offered'
  BY DEF Offered, Offers, ToCome, world
<1>4. Answered'
  BY DEF Answered, Executor, world
<1>5. QED
  BY <1>1, <1>2, <1>3, <1>4

-------------------------------------------------------------------------------

\* The invariant above holds of every state.
THEOREM Invariance == Spec => []IInv
<1>1. IInv /\ UNCHANGED vars => IInv'
  BY DEF IInv, vars, world, TypeOK, Search, Keys, Offered, Answered, Listed, Executor, Offers,
         ToCome
<1>2. IInv /\ [Next]_vars => IInv'
  BY <1>1, SearchKeeps, ReadLineKeeps, AnswerKeeps DEF Next
<1>3. QED
  BY <1>2, InitIInv, PTL DEF Spec

\* Every variable of the loader keeps its type: of the classes only executors, those
\* that cannot be instantiated among them, are registered (TaskExecutorLoader.java:86-125).
THEOREM TypeCorrect == Spec => []TypeOK
BY Invariance, PTL DEF IInv

\* Every executor that a jar has to offer is registered and listed, whatever the other
\* jars and lines are and in whatever order they are read; and getExecutor() gives the
\* worker what it has listed and no more (TaskExecutorLoader.java:86-125).
THEOREM OffersAreTakenHolds == Spec => []OffersAreTaken
<1>1. IInv => OffersAreTaken
  <2> SUFFICES ASSUME IInv
               PROVE  OffersAreTaken
    OBVIOUS
  <2> USE DEF IInv
  <2>1. ASSUME pc = "loaded", directory, NEW j \in Jars, NEW c \in Classes, Offers(j, c)
        PROVE  c \in addons /\ Listed(c)
    BY <2>1 DEF Search, Offered, ToCome, Keys, Offers, Executor
  <2>2. answer # NoAnswer => (answer.got = "executor" <=> Listed(answer.class))
    BY DEF Answered, Keys
  <2>3. QED
    BY <2>1, <2>2 DEF OffersAreTaken
<1>2. QED
  BY <1>1, Invariance, PTL
===============================================================================
