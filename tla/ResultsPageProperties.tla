------------------------- MODULE ResultsPageProperties -------------------------
(***************************************************************************)
(* What the page of results promises to its reader, and what jQuery's      *)
(* state must look like for that.                                          *)
(***************************************************************************)
EXTENDS ResultsPage, FiniteSets

CONSTANT MaxResults     \* the longest of ResultLists

Texts   == {i \in DOMAIN results : results[i] = "string"}
Shown   == {ResultNode(i) : i \in Texts}
PageRan == \E k \in DOMAIN ran : ran[k].fn = "page"

LinkNodes == Range(Find(window, Links))
Target(a) == NextMatching(window, Parents(window, <<a>>), Toggles)
LinkText(a) == Node(window, Node(window, a).kids[1]).text

\* No animation runs on the element or waits for it.
AtRest(e) == Idle /\ Queue(window, e) = << >>

Displayed(e) == CssDisplay(window, e) # "none"

(***************************************************************************)
(* Types: the tree has one parent per node, and jQuery's data, listeners   *)
(* and timers are those of nodes of the tree.                              *)
(***************************************************************************)
TypeOK ==
  /\ ReadyTypeOK
  /\ results \in ResultLists
  /\ \A p \in DOMAIN window.nodes : \A q \in 1 .. p - 1 :
       Range(Node(window, p).kids) \cap Range(Node(window, q).kids) = {}
  /\ DOMAIN window.cache \cup {l[1] : l \in window.listening}
       \cup {t.elem : t \in Range(window.timers)}
         \subseteq Range(Elements(window))
  /\ \A t \in Range(window.timers) :
       /\ t.prop \in Range(Props)
       /\ t.end \in {"natural", "zero"}
       /\ t.age \in 0 .. Duration + MaxLag
  /\ window.fxNow # undefined => window.fxNow \in 0 .. MaxLag
  /\ tick \in 0 .. Len(window.timers) + 1
  /\ clicks \in 0 .. MaxClicks

(***************************************************************************)
(* The functions that wait for the page run in the order they came, each   *)
(* at most once, none of them before the page is parsed, and all of them   *)
(* once jQuery says that the page is ready: however many of the events of  *)
(* the browser, the scroll check among them, tell jQuery.ready.            *)
(***************************************************************************)
ReadyInOrder ==
  LET fns == FlattenSeq(Scripts)
  IN  /\ IsPrefix([k \in DOMAIN ran |-> ran[k].fn], fns)
      /\ \A k \in DOMAIN ran : ran[k].readyState # "loading"
      /\ isReady /\ ~ readyList.firing => Len(ran) = Len(fns)

(***************************************************************************)
(* By whatever lookup, jQuery finds the same nodes, in document order; and *)
(* filtering the elements of the page by a selector leaves those.          *)
(***************************************************************************)
FindsInOrder ==
  LET all == Elements(window)
  IN  \A selector \in {Toggles, Links, [tag |-> "a", class |-> ""]} :
        LET found == QuerySelectorAll(window, selector)
        IN  JQuery(window, selector) = found /\ Filter(window, selector, all) = found

(***************************************************************************)
(* Once the script of the page has run, every result that is text has one  *)
(* link, in front of it, every link has the one handler, called with the   *)
(* link itself, and the handler finds that result from the link: although  *)
(* .append() makes the links of all results but the last by cloning.       *)
(***************************************************************************)
LinksMatchToggles ==
  PageRan =>
    LET links == LinkNodes IN
    /\ \A i \in Texts :
         Cardinality({a \in links : Target(a) = <<ResultNode(i)>>}) = 1
    /\ \A a \in links :
         /\ \E i \in Texts : Target(a) = <<ResultNode(i)>> /\ Parent(window, a) = TitleNode(i)
         /\ Len(Handlers(window, a, "click")) = 1
         /\ Data(window, a, Handle) = a
         /\ <<a, "click">> \in window.listening

(***************************************************************************)
(* Between two steps of the interval, the timers of a result are those of  *)
(* one animation, one for each property, all as old as each other and all  *)
(* in the direction of its options, if the queue of the result has the     *)
(* sentinel in front, and none if the queue is empty; and the interval is  *)
(* set while there is a timer, no longer: although fx.tick removes timers  *)
(* from the list it walks while the last step of one pushes new ones.      *)
(***************************************************************************)
TimersMatchQueues ==
  Idle =>
    /\ window.timerId = (window.timers # << >>)
    /\ \A e \in Shown :
         LET queue == Queue(window, e)
             own   == SelectSeq(window.timers, LAMBDA t : t.elem = e)
         IN  IF queue = << >> THEN own = << >>
             ELSE /\ Head(queue) = "inprogress" /\ "inprogress" \notin Range(Tail(queue))
                  /\ [k \in DOMAIN own |-> own[k].prop] = Props
                  /\ Cardinality({t.age : t \in Range(own)}) = 1
                  /\ window.opt[e].hide # window.opt[e].show
                  /\ \A t \in Range(own) :
                       t.end = IF window.opt[e].hide THEN "zero" ELSE "natural"

(***************************************************************************)
(* After its animations a result is as before them: the styles that they   *)
(* moved are back, and of the data of the animations only the display to   *)
(* go back to is left.  The overflow stays hidden in browsers that would   *)
(* otherwise shrink the block.                                             *)
(***************************************************************************)
AtRestRestored ==
  \A e \in Shown :
    AtRest(e) =>
      /\ \A p \in Range(Props) : Style(window, e, p) = ""
      /\ Style(window, e, "overflow") \in {"", "hidden"}
      /\ Style(window, e, "overflow") = "hidden" => window.support.shrinkWrapBlocks
      /\ DOMAIN Entry(window, e) = IF PageRan THEN {OldDisplay} ELSE {}
      /\ PageRan => Style(window, e, "display") \in {"none", "block"}

(***************************************************************************)
(* A click on a link of the script never opens its "#": its handler has    *)
(* prevented that, whether the browser says that the click was on the link *)
(* or on the text in it.  (The links of files have no handler.)            *)
(***************************************************************************)
OnlyFilesAreFollowed == \A a \in followed : ~ Satisfies(Node(window, a), Links)

(***************************************************************************)
(* On a page with one result, its link says Hide if the result is shown    *)
(* and Show if it is not, however often it was clicked while the result    *)
(* moved.                                                                  *)
(***************************************************************************)
TextAgreesAlone ==
  \A i \in Texts : \A a \in LinkNodes :
    Cardinality(Texts) = 1 /\ AtRest(ResultNode(i)) =>
      LinkText(a) = IF Displayed(ResultNode(i)) THEN hideText ELSE showText

(***************************************************************************)
(* The links say so on every page.  They do not: is_visible is one         *)
(* variable for all of them.                                               *)
(***************************************************************************)
LinkTextAgrees ==
  \A i \in Texts : \A a \in LinkNodes :
    Target(a) = <<ResultNode(i)>> /\ (\A e \in Shown : AtRest(e)) =>
      LinkText(a) = IF Displayed(ResultNode(i)) THEN hideText ELSE showText

(***************************************************************************)
(* The page implements ToggleContract: every click on a link asks for one  *)
(* change, changes are made one after the other, each turns the result     *)
(* over, and all of them are made.                                         *)
(***************************************************************************)
Turns(i) == Queue(window, ResultNode(i))
IsShown(i) ==
  IF Turns(i) = << >> THEN PageRan /\ Displayed(ResultNode(i))
                      ELSE window.opt[ResultNode(i)].hide

Contract == INSTANCE ToggleContract WITH
  Results <- 1 .. MaxResults,
  shown   <- [i \in 1 .. MaxResults |-> i \in Texts /\ IsShown(i)],
  pending <- [i \in 1 .. MaxResults |-> IF i \in Texts THEN Len(Turns(i)) ELSE 0]

ImplementsToggle == Contract!Spec

(***************************************************************************)
(* The script of the page runs, in every kind of browser.                  *)
(***************************************************************************)
PageComesUp == <>PageRan
===============================================================================
