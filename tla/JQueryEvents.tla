----------------------------- MODULE JQueryEvents -----------------------------
(***************************************************************************)
(* jQuery's event handlers: binding one to a node, and what an event is to *)
(* them.  jQuery registers one listener per node and type.  ResultsPage,   *)
(* which knows the handlers, delivers events.                              *)
(*                                                                         *)
(* An event is a record: its type, its target, whether a handler prevented *)
(* the default action and whether one stopped the propagation.             *)
(***************************************************************************)
EXTENDS JQueryCore

Events == Key("events", "")
Handle == Key("handle", "")

\* events[type] of a node: its handlers in the order they were bound.
Handlers(w, n, type) ==
  LET events == Data(w, n, Events)
  IN  IF events = undefined THEN << >>
      ELSE IF type \in DOMAIN events THEN events[type] ELSE << >>

\* jQuery.event.add: the handle is the listener, bound to its element.
AddHandler(w, n, type, handler) ==
  IF ~ IsElement(w, n) THEN w
  ELSE LET events   == IF Data(w, n, Events) = undefined THEN << >> ELSE Data(w, n, Events)
           handlers == Append(Handlers(w, n, type), [type |-> type, handler |-> handler])
           bound    == SetData(w, n, Events, (type :> handlers) @@ events)
           handled  == IF Data(w, n, Handle) = undefined
                       THEN SetData(bound, n, Handle, n) ELSE bound
       IN  [handled EXCEPT !.listening = @ \cup {<<n, type>>}]

\* .click(fn), which is .on("click", null, null, fn).
On(w, set, type, handler) ==
  FoldLeft(LAMBDA v, n : AddHandler(v, n, type, handler), w, set)

NewEvent(type, target) ==
  [type |-> type, target |-> target, prevented |-> FALSE, stopped |-> FALSE]

\* jQuery.event.fix: an event on a text node is one on its parent.
Fix(w, event) ==
  IF Node(w, event.target).tag = "#text"
  THEN [event EXCEPT !.target = Parent(w, @)] ELSE event

PreventDefault(event)  == [event EXCEPT !.prevented = TRUE]
StopPropagation(event) == [event EXCEPT !.stopped = TRUE]

\* Variant: the default action is not prevented.
AnsweredHalf(event, ret) == IF ret = FALSE THEN StopPropagation(event) ELSE event

\* What dispatch does with the answer of a handler.
Answered(event, ret) ==
  IF ret = FALSE THEN StopPropagation(PreventDefault(event)) ELSE event

\* A node and the nodes above it.
Path(w, n) ==
  LET up[m \in 0 .. Len(w.nodes)] == IF m = 0 THEN << >> ELSE <<m>> \o up[Parent(w, m)]
  IN  up[n]
===============================================================================
