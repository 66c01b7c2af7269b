------------------------------ MODULE JQueryReady ------------------------------
(***************************************************************************)
(* How jQuery finds out that a page can be worked on, and runs the         *)
(* functions that wait for it.  Several events may tell it, depending on   *)
(* the browser: jQuery.ready() runs the functions at the first of them and *)
(* ignores the others.                                                     *)
(*                                                                         *)
(* The browser is external: it parses the page, runs the scripts of the    *)
(* head on the way, and then loads what the page refers to.  What a        *)
(* function does that waits for the page is up to the module that extends  *)
(* this one.                                                               *)
(***************************************************************************)
EXTENDS Naturals, Sequences, SequencesExt

CONSTANTS
  Scripts,      \* the scripts of the head: each the sequence of functions
                \* that it hands to jQuery to run once the page is ready
  EventModels   \* browsers: those with "addEventListener", with "attachEvent"

\* Functions go by their names.
ASSUME ScriptsAssumption == Scripts \in Seq(Seq(STRING))

VARIABLES
  eventModel,   \* what this browser has
  toplevel,     \* whether the page is not in a frame; only Internet Explorer is
                \* asked for it
  readyState,   \* document.readyState
  parsed,       \* how many of the scripts have run
  arriving,     \* events of the browser that are to be delivered, in order
  scrollCheck,  \* whether a timeout for doScrollCheck is set
  isReady,      \* jQuery.isReady
  readyWait,    \* jQuery.readyWait
  readyList,    \* jQuery's list of waiting functions
  ran           \* history: the functions run, each with the readyState then

browser   == <<eventModel, toplevel, readyState, parsed>>
readyVars == <<browser, arriving, scrollCheck, isReady, readyWait, readyList, ran>>

ReadyTypeOK ==
  /\ eventModel \in EventModels
  /\ toplevel \in BOOLEAN
  /\ readyState \in {"loading", "interactive", "complete"}
  /\ parsed \in 0 .. Len(Scripts)
  /\ Range(arriving) \subseteq {"DOMContentLoaded", "readystatechange", "load"}
  /\ scrollCheck \in BOOLEAN
  /\ isReady \in BOOLEAN
  /\ readyWait \in 0 .. 1
  /\ readyList.firing => readyList.firingIndex \in 1 .. Len(readyList.list)

(***************************************************************************)
(* jQuery.Callbacks("once memory").  Before bindReady the list is not      *)
(* there; afterwards it holds the functions of the current batch.          *)
(***************************************************************************)
NoList == [made |-> FALSE, list |-> << >>, memory |-> FALSE, firing |-> FALSE,
           firingIndex |-> 0]

Fire(callbacks, firingStart) ==
  IF Len(callbacks.list) = firingStart
  THEN [callbacks EXCEPT !.memory = TRUE, !.list = << >>]
  ELSE [callbacks EXCEPT !.memory = TRUE, !.firing = TRUE, !.firingIndex = firingStart + 1]

\* add() of the closure: the list is not one of the unique kind.
Push(callbacks, fn) == [callbacks EXCEPT !.list = Append(@, fn)]

\* A function that comes during the firing is of the batch; one that comes
\* after it runs at once.
Add(callbacks, fn) ==
  LET added == Push(callbacks, fn)
  IN  IF callbacks.memory /\ ~ callbacks.firing THEN Fire(added, Len(callbacks.list)) ELSE added

FireWith(callbacks) ==
  IF callbacks.firing \/ callbacks.memory THEN callbacks ELSE Fire(callbacks, 0)

\* The loop of fire, after the function at firingIndex has returned.
Fired(callbacks) ==
  IF callbacks.firingIndex < Len(callbacks.list)
  THEN [callbacks EXCEPT !.firingIndex = @ + 1]
  ELSE [callbacks EXCEPT !.list = << >>, !.firing = FALSE, !.firingIndex = 0]

ReadyInit ==
  /\ eventModel \in EventModels
  /\ toplevel \in IF eventModel = "attachEvent" THEN BOOLEAN ELSE {TRUE}
  /\ readyState = "loading"
  /\ parsed = 0
  /\ arriving = << >>
  /\ scrollCheck = FALSE
  /\ isReady = FALSE
  /\ readyWait = 1
  /\ readyList = NoList
  /\ ran = << >>

\* Variant: the wait is looked at before it is counted down.
ReadyTooEarly ==
  IF isReady THEN UNCHANGED <<isReady, readyWait, readyList>>
  ELSE /\ isReady' = TRUE
       /\ readyWait' = readyWait - 1
       /\ readyList' = IF readyWait > 0 THEN readyList ELSE FireWith(readyList)

\* jQuery.ready(), called without a hold to release.  The page's body is
\* there when any of the events tells it, and no handler is bound to the
\* event "ready" that is triggered afterwards.
Ready ==
  IF isReady THEN UNCHANGED <<isReady, readyWait, readyList>>
  ELSE /\ isReady' = TRUE
       /\ readyWait' = readyWait - 1
       /\ readyList' = IF readyWait > 1 THEN readyList ELSE FireWith(readyList)

(***************************************************************************)
(* jQuery.bindReady(), at the first function handed over: listens to the   *)
(* events of the browser and, for Internet Explorer outside a frame,       *)
(* starts doScrollCheck, whose first call finds the page not ready and     *)
(* sets a timeout.  A script in the head never meets a complete page.      *)
(***************************************************************************)
BindReady ==
  scrollCheck' = (scrollCheck \/ (~ readyList.made /\ eventModel = "attachEvent" /\ toplevel))

\* The parser meets the next script, which calls .ready(fn) for each of its
\* functions.
RunScript ==
  /\ ~ readyList.firing
  /\ parsed < Len(Scripts)
  /\ parsed' = parsed + 1
  /\ BindReady
  /\ readyList' = FoldLeft(Add, [readyList EXCEPT !.made = TRUE], Scripts[parsed + 1])
  /\ UNCHANGED <<eventModel, toplevel, readyState, arriving, isReady, readyWait, ran>>

\* The browser has parsed the page, or has loaded what it refers to.
ParseEnds ==
  /\ ~ readyList.firing
  /\ readyState = "loading" /\ parsed = Len(Scripts)
  /\ readyState' = "interactive"
  /\ arriving' = Append(arriving, IF eventModel = "attachEvent" THEN "readystatechange"
                                                                ELSE "DOMContentLoaded")
  /\ UNCHANGED <<eventModel, toplevel, parsed, scrollCheck, isReady, readyWait, readyList, ran>>

LoadEnds ==
  /\ ~ readyList.firing
  /\ readyState = "interactive"
  /\ readyState' = "complete"
  /\ arriving' = arriving \o (IF eventModel = "attachEvent" THEN <<"readystatechange">>
                                                            ELSE << >>) \o <<"load">>
  /\ UNCHANGED <<eventModel, toplevel, parsed, scrollCheck, isReady, readyWait, readyList, ran>>

\* The handlers of the events: DOMContentLoaded() of either kind of browser,
\* and jQuery.ready as the handler of load.
EventArrives ==
  /\ ~ readyList.firing
  /\ arriving # << >>
  /\ arriving' = Tail(arriving)
  /\ IF Head(arriving) = "readystatechange" /\ readyState # "complete"
     THEN UNCHANGED <<isReady, readyWait, readyList>>
     ELSE Ready
  /\ UNCHANGED <<browser, scrollCheck, ran>>

\* Variant: a doScroll that throws does not end the call.
DoScrollCheckOnce ==
  /\ ~ readyList.firing
  /\ scrollCheck
  /\ scrollCheck' = FALSE
  /\ Ready
  /\ UNCHANGED <<browser, arriving, ran>>

\* doScrollCheck(): Internet Explorer refuses doScroll until the page is
\* parsed; the check then sets its timeout again.
DoScrollCheck ==
  /\ ~ readyList.firing
  /\ scrollCheck
  /\ scrollCheck' = (~ isReady /\ readyState = "loading")
  /\ IF scrollCheck' THEN UNCHANGED <<isReady, readyWait, readyList>> ELSE Ready
  /\ UNCHANGED <<browser, arriving, ran>>

\* The function that is next in the list runs.
RunReadyFunction(fn) ==
  /\ readyList.firing
  /\ fn = readyList.list[readyList.firingIndex]
  /\ ran' = Append(ran, [fn |-> fn, readyState |-> readyState])
  /\ readyList' = Fired(readyList)
  /\ UNCHANGED <<browser, arriving, scrollCheck, isReady, readyWait>>

BrowserNext ==
  \/ RunScript
  \/ ParseEnds
  \/ LoadEnds
  \/ EventArrives
  \/ DoScrollCheck
===============================================================================
