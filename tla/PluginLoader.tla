------------------------------ MODULE PluginLoader ------------------------------
(***************************************************************************)
(* TaskExecutorLoader: the constructor, which reads the jars of the plugin *)
(* directory and registers the executors their META-INF/config names, and  *)
(* getExecutor(), which the worker calls for each task.                    *)
(*                                                                         *)
(* What is in the directory is chosen at the beginning; the order in which *)
(* it is listed is not known.                                              *)
(***************************************************************************)
EXTENDS Naturals, Sequences, SequencesExt

CONSTANTS Jars, Classes,
          MaxLines   \* bound: lines of a config

ASSUME LoaderAssumption == MaxLines \in Nat

VARIABLES
  directory,     \* the plugin directory exists
  jar,           \* jar[j]: whether it opens, the lines of its config, its classes
  kind,          \* kind[c]: an "executor"; one that is "abstract", whose instantiation
                 \* throws an exception; "other"; or "broken", which throws an error
  pc,            \* "findJars", "jars", "lines", "loaded", or "dead"
  left,          \* jars still to read
  reading,       \* the jar being read
  lines,         \* its lines still to read
  done,          \* its classes that were dealt with
  addons,        \* the classes registered
  routingKeys,   \* the keys listed, by their classes
  answer         \* the last of getExecutor()

world == <<directory, jar, kind>>
vars == <<world, pc, left, reading, lines, done, addons, routingKeys, answer>>

NoJar == "no jar"
NoAnswer == [class |-> "none", got |-> "none"]
Jar == { j \in [opens : BOOLEAN, lines : BoundedSeq(Classes, MaxLines), has : SUBSET Classes] :
           j.opens \/ (j.lines = <<>> /\ j.has = {}) }

TypeOK ==
  /\ directory \in BOOLEAN
  /\ jar \in [Jars -> Jar]
  /\ kind \in [Classes -> {"executor", "abstract", "other", "broken"}]
  /\ pc \in {"findJars", "jars", "lines", "loaded", "dead"}
  /\ left \subseteq Jars
  /\ reading \in Jars \cup {NoJar}
  /\ lines \in BoundedSeq(Classes, MaxLines)
  /\ done \subseteq Classes
  /\ addons \subseteq {c \in Classes : kind[c] # "other"}
  /\ \A i \in DOMAIN routingKeys : routingKeys[i] \in Classes
  /\ answer.got \in {"none", "executor", "null", "exception"}

Init ==
  /\ directory \in BOOLEAN
  /\ jar \in [Jars -> Jar]
  /\ kind \in [Classes -> {"executor", "abstract", "other", "broken"}]
  /\ pc = "findJars"
  /\ left = {}
  /\ reading = NoJar
  /\ lines = <<>>
  /\ done = {}
  /\ addons = {}
  /\ routingKeys = <<>>
  /\ answer = NoAnswer

\* Without a directory listFiles() returns null, and the exception ends the search.
findJars ==
  /\ pc = "findJars"
  /\ IF directory THEN left' = Jars /\ pc' = "jars"
     ELSE pc' = "loaded" /\ UNCHANGED left
  /\ UNCHANGED <<world, reading, lines, done, addons, routingKeys, answer>>

\* A jar that does not open is passed over.
OpenJar ==
  /\ pc = "jars"
  /\ \E j \in left :
       /\ left' = left \ {j}
       /\ IF jar[j].opens
          THEN reading' = j /\ lines' = jar[j].lines /\ done' = {} /\ pc' = "lines"
          ELSE UNCHANGED <<reading, lines, done, pc>>
  /\ UNCHANGED <<world, addons, routingKeys, answer>>

NoMoreJars ==
  /\ pc = "jars"
  /\ left = {}
  /\ pc' = "loaded"
  /\ UNCHANGED <<world, left, reading, lines, done, addons, routingKeys, answer>>

NoMoreLines ==
  /\ pc = "lines"
  /\ lines = <<>>
  /\ pc' = "jars"
  /\ UNCHANGED <<world, left, reading, lines, done, addons, routingKeys, answer>>

\* Variant: the exception ends the jar.
AfterExceptionNone == <<>>

\* The lines read after one whose class throws an exception.
AfterException == Tail(lines)

\* Variant: any class is registered.
RegisterAny(c) ==
  /\ addons' = addons \cup {c}
  /\ IF kind[c] = "executor"
     THEN routingKeys' = Append(routingKeys, c) /\ done' = done \cup {c}
     ELSE UNCHANGED <<routingKeys, done>>
  /\ lines' = Tail(lines)

\* Variant: the key is listed before the class is instantiated.
RegisterKeyFirst(c) ==
  /\ addons' = IF kind[c] = "other" THEN addons ELSE addons \cup {c}
  /\ routingKeys' = IF kind[c] = "other" THEN routingKeys ELSE Append(routingKeys, c)
  /\ done' = done \cup {c}
  /\ lines' = Tail(lines)

\* What is assignable to TaskExecutor is registered, then instantiated for its key; one
\* that cannot be stays registered, and is tried again if it is named again.
Register(c) ==
  CASE kind[c] = "executor" -> /\ addons' = addons \cup {c}
                               /\ routingKeys' = Append(routingKeys, c)
                               /\ done' = done \cup {c}
                               /\ lines' = Tail(lines)
    [] kind[c] = "abstract" -> /\ addons' = addons \cup {c}
                               /\ UNCHANGED <<routingKeys, done>>
                               /\ lines' = AfterException
    [] kind[c] = "other" -> /\ done' = done \cup {c}
                            /\ UNCHANGED <<addons, routingKeys>>
                            /\ lines' = Tail(lines)

\* A class of the jar that was not dealt with.
IsNew(c) == c \in jar[reading].has /\ c \notin done

ReadLine ==
  /\ pc = "lines"
  /\ lines # <<>>
  /\ IF IsNew(Head(lines))
     THEN kind[Head(lines)] # "broken" /\ Register(Head(lines))
     ELSE lines' = Tail(lines) /\ UNCHANGED <<done, addons, routingKeys>>
  /\ UNCHANGED <<world, pc, left, reading, answer>>

\* An error is no Exception: nothing catches it up to Worker.main().
BreakDown ==
  /\ pc = "lines"
  /\ lines # <<>>
  /\ IsNew(Head(lines))
  /\ kind[Head(lines)] = "broken"
  /\ pc' = "dead"
  /\ UNCHANGED <<world, left, reading, lines, done, addons, routingKeys, answer>>

\* The worker has one class in mind for all tasks, whatever is registered.
getExecutor(c) ==
  /\ pc = "loaded"
  /\ answer' = [class |-> c,
                got |-> CASE c \notin addons -> "null"
                          [] c \in addons /\ kind[c] = "executor" -> "executor"
                          [] OTHER -> "exception"]
  /\ UNCHANGED <<world, pc, left, reading, lines, done, addons, routingKeys>>

Next == \/ findJars \/ OpenJar \/ NoMoreJars \/ NoMoreLines \/ ReadLine \/ BreakDown
        \/ \E c \in Classes : getExecutor(c)

Spec == Init /\ [][Next]_vars

-------------------------------------------------------------------------------

\* Jar j has the executor c to offer.
Offers(j, c) == /\ kind[c] = "executor"
                /\ c \in jar[j].has
                /\ \E i \in DOMAIN jar[j].lines : jar[j].lines[i] = c

Listed(c) == \E i \in DOMAIN routingKeys : routingKeys[i] = c

\* No jar keeps the executors of another from being registered, nor one class those
\* after it, as long as it throws exceptions only (TaskExecutorLoader.java:86-125); and
\* the worker gets an executor for a class if and only if it has listed its key: what
\* it tells the broker is what it can do (Worker.java:99, 118).
OffersAreTaken ==
  /\ pc = "loaded" /\ directory =>
       \A j \in Jars, c \in Classes : Offers(j, c) => c \in addons /\ Listed(c)
  /\ answer # NoAnswer => (answer.got = "executor" <=> Listed(answer.class))
===============================================================================
