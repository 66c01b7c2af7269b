----------------------------- MODULE ResultsPage -----------------------------
(***************************************************************************)
(* The page of results in a browser: the markup that the Results servlet   *)
(* prints, the script of resultviewer.jsp, and the parts of jQuery that    *)
(* the script runs on.                                                     *)
(*                                                                         *)
(* When the page is ready the script puts a link before every result that  *)
(* is text, hides those results, and lets a click on a link toggle the     *)
(* result after it with an animation.                                      *)
(*                                                                         *)
(* The browser calls JavaScript one event at a time.  The only things that *)
(* are split into several steps are the firing of the ready functions and  *)
(* the walk of fx.tick over the timers; no event is delivered in between,  *)
(* but time passes.                                                        *)
(***************************************************************************)
EXTENDS JQueryDom, JQueryEffects, JQueryReady

CONSTANTS
  ResultLists,   \* what there may be to show: sequences of "string", "file"
  Layouts,       \* Layouts[m]: what the support tests may find in a browser
                 \* with event model m
  MaxClicks,     \* bound: clicks
  MaxLag         \* bound: how long a timeout or an interval is late

VARIABLES
  results,    \* the results the servlet printed
  window,     \* what the scripts work on; see JQueryCore and JQueryEffects
  tick,       \* fx.tick's index into the timers, 0 when it does not run
  clicks,     \* clicks so far
  followed    \* history: the links whose target the browser has opened

vars == <<readyVars, results, window, tick, clicks, followed>>

(***************************************************************************)
(* The markup of Results.getResults, in the div of resultviewer.jsp.  Each *)
(* result has a title, what it shows (opaque), and an empty paragraph.     *)
(***************************************************************************)
TitleNode(i)  == 4 * i - 2
ResultNode(i) == 4 * i

MarkupOf(i, kind) ==
  <<NewNode("div", "Title", <<TitleNode(i) + 1>>, ""), TextNode("origin and time"),
    IF kind = "string" THEN NewNode("div", "toggle", << >>, "")
                       ELSE NewNode("a", "", << >>, ""),
    NewNode("p", "", << >>, "")>>

Markup(kinds) ==
  LET kids == FlattenSeq([i \in DOMAIN kinds |-> <<TitleNode(i), ResultNode(i), ResultNode(i) + 1>>])
  IN  <<NewNode("div", "", kids, "")>> \o FlattenSeq([i \in DOMAIN kinds |-> MarkupOf(i, kinds[i])])

(***************************************************************************)
(* jQuery.support: some tests run when jQuery is loaded, the others need   *)
(* the page's body and run as the first of the ready functions.            *)
(***************************************************************************)
SupportAtLoad(layout) ==
  [leadingWhitespace |-> layout.leadingWhitespace, shrinkWrapBlocks |-> FALSE,
   reliableHiddenOffsets |-> FALSE, layout |-> layout]

SupportWhenReady(w) ==
  [w EXCEPT !.support.shrinkWrapBlocks      = w.support.layout.shrinkWrapBlocks,
            !.support.reliableHiddenOffsets = w.support.layout.reliableHiddenOffsets]

(***************************************************************************)
(* The script of the page.                                                 *)
(***************************************************************************)
Toggles  == [tag |-> "", class |-> "toggle"]
Links    == [tag |-> "a", class |-> "toggleLink"]
showText == "Show"
hideText == "Hide"

\* ' (<a href="#" class="toggleLink">' + showText + '</a>)'
LinkMarkup ==
  <<[tag |-> "#text", class |-> "", lead |-> " ", text |-> "("],
    [tag |-> "a", class |-> "toggleLink", lead |-> "", text |-> showText],
    [tag |-> "#text", class |-> "", lead |-> "", text |-> ")"]>>

PageReady(w) ==
  LET linked == DomManip(w, Prev(w, JQuery(w, Toggles)), LinkMarkup)
      hidden == FoldLeft(HideNow, linked, JQuery(linked, Toggles))
  IN  On([hidden EXCEPT !.is_visible = FALSE], JQuery(hidden, Links), "click", "toggleLink")

\* Variant: the link is named before the switch.
LinkClickedNamedFirst(w, link) ==
  LET named    == Html(w, <<link>>, IF w.is_visible THEN hideText ELSE showText)
      switched == [named EXCEPT !.is_visible = ~ @]
  IN  [window |-> Toggle(switched, NextMatching(switched, Parents(switched, <<link>>), Toggles)),
       ret    |-> FALSE]

\* The handler of the links; is_visible is one variable of the script.
LinkClicked(w, link) ==
  LET switched == [w EXCEPT !.is_visible = ~ @]
      named    == Html(switched, <<link>>, IF switched.is_visible THEN hideText ELSE showText)
  IN  [window |-> Toggle(named, NextMatching(named, Parents(named, <<link>>), Toggles)),
       ret    |-> FALSE]

(***************************************************************************)
(* An event on the page.  Turn: the window and the event so far.           *)
(***************************************************************************)

\* A handler of a node is called, with the node as this; the only handler
\* there is is that of the links.
CallHandler(turn, n, handler) ==
  LET done == LinkClicked(turn.window, n)
  IN  [window |-> done.window, event |-> Answered(turn.event, done.ret)]

\* jQuery.event.dispatch, for the handlers that are bound when it starts.
Dispatch(turn, n) ==
  FoldLeft(LAMBDA t, h : CallHandler(t, n, h.handler),
           [turn EXCEPT !.event = Fix(turn.window, @)],
           Handlers(turn.window, n, turn.event.type))

\* The browser calls the listener of the target, then of each node above it,
\* until the event is stopped.
Deliver(w, event) ==
  LET Reach(turn, n) ==
        IF turn.event.stopped \/ <<n, event.type>> \notin turn.window.listening
        THEN turn
        ELSE Dispatch(turn, Data(turn.window, n, Handle))
  IN  FoldLeft(Reach, [window |-> w, event |-> event], Path(w, event.target))

\* The functions that wait for the page to be ready.  That of the css module
\* adds a hook for a style property, which the model does not tell apart.
CallReadyFunction(w, fn) ==
  CASE fn = "support"     -> SupportWhenReady(w)
    [] fn = "marginRight" -> w
    [] fn = "page"        -> PageReady(w)

Init ==
  /\ ReadyInit
  /\ results \in ResultLists
  /\ \E layout \in Layouts[eventModel] :
       window = [nodes |-> Markup(results), cache |-> << >>, listening |-> {},
                 support |-> SupportAtLoad(layout), timers |-> << >>, opt |-> << >>,
                 timerId |-> FALSE, fxNow |-> undefined, is_visible |-> FALSE]
  /\ tick = 0
  /\ clicks = 0
  /\ followed = {}

\* No JavaScript runs.
Idle == ~ readyList.firing /\ tick = 0

PageArrives ==
  /\ Idle
  /\ BrowserNext
  /\ UNCHANGED <<results, window, tick, clicks, followed>>

ReadyFunction ==
  /\ \E fn \in Range(readyList.list) :
       /\ RunReadyFunction(fn)
       /\ window' = CallReadyFunction(window, fn)
  /\ UNCHANGED <<results, tick, clicks, followed>>

\* The user clicks on a link of the page; some browsers report the text in
\* it as the target.  The link is followed unless a handler prevents it.
Click(a) ==
  /\ Idle
  /\ clicks < MaxClicks
  /\ Node(window, a).tag = "a" /\ a \in Range(Preorder(window, 1))
  /\ \E target \in {a} \cup Range(Node(window, a).kids) :
       LET turn == Deliver(window, NewEvent("click", target))
       IN  /\ window' = turn.window
           /\ followed' = IF turn.event.prevented THEN followed ELSE followed \cup {a}
  /\ clicks' = clicks + 1
  /\ UNCHANGED <<readyVars, results, tick>>

\* fx.tick(), called by the interval: its loop and its end.
TickStarts ==
  /\ Idle
  /\ window.timerId
  /\ tick' = 1
  /\ UNCHANGED <<readyVars, results, window, clicks, followed>>

\* Variant: the index moves on although its timer has left the list.
TickStepsSkipping ==
  /\ tick \in DOMAIN window.timers
  /\ window' = StepTimer(window, tick)
  /\ tick' = tick + 1
  /\ UNCHANGED <<readyVars, results, clicks, followed>>

TickSteps ==
  /\ tick \in DOMAIN window.timers
  /\ window' = StepTimer(window, tick)
  /\ tick' = IF Due(ReadNow(window), window.timers[tick]) THEN tick ELSE tick + 1
  /\ UNCHANGED <<readyVars, results, clicks, followed>>

TickEnds ==
  /\ tick > Len(window.timers)
  /\ window' = StopInterval(window)
  /\ tick' = 0
  /\ UNCHANGED <<readyVars, results, clicks, followed>>

\* The timeout of createFxNow.
FxNowCleared ==
  /\ Idle
  /\ window.fxNow # undefined
  /\ window' = ClearFxNow(window)
  /\ UNCHANGED <<readyVars, results, tick, clicks, followed>>

TimePasses ==
  /\ (window.timers = << >>) => (window.fxNow # undefined)
  /\ \A timer \in Range(window.timers) : timer.age < Duration + MaxLag
  /\ window.fxNow # undefined => window.fxNow < MaxLag
  /\ window' = Later(window)
  /\ UNCHANGED <<readyVars, results, tick, clicks, followed>>

Next ==
  \/ PageArrives
  \/ ReadyFunction
  \/ \E a \in DOMAIN window.nodes : Click(a)
  \/ TickStarts
  \/ TickSteps
  \/ TickEnds
  \/ FxNowCleared
  \/ TimePasses

Spec == Init /\ [][Next]_vars

\* The browser goes on with the page and with JavaScript that runs, calls
\* intervals and timeouts at some time, and time passes.  A timeout is not
\* put off for ever by an interval.  (That JavaScript goes on is weak fairness
\* of ReadyFunction and of TickSteps \/ TickEnds, which are enabled while the
\* list fires and while fx.tick runs; TLC takes too long to find that out.)
JavaScriptGoesOn ==
  /\ []<>(~ readyList.firing) \/ []<><<ReadyFunction>>_vars
  /\ []<>(tick = 0)           \/ []<><<TickSteps \/ TickEnds>>_vars

FairSpec ==
  /\ Spec
  /\ JavaScriptGoesOn
  /\ WF_vars(PageArrives)
  /\ WF_vars(TickStarts)
  /\ SF_vars(FxNowCleared)
  /\ WF_vars(TimePasses)
===============================================================================
