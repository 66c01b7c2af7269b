----------------------------- MODULE JQuerySizzle -----------------------------
(***************************************************************************)
(* Sizzle, jQuery's engine for selectors: what it does with a selector of  *)
(* one part, such as ".toggle" or "a.toggleLink".  Browsers look nodes up  *)
(* by tag, some by class, and some by a whole selector; Sizzle takes the   *)
(* best lookup there is and filters its answer by what is left to check.   *)
(*                                                                         *)
(* A selector, and what is left of it, is a record of a tag and a class;   *)
(* "" stands for none.  What the browser can do is in the layout of the    *)
(* window's support: byClass, bySelector and, for one node, byMatches.       *)
(***************************************************************************)
EXTENDS JQueryCore

NothingLeft == [tag |-> "", class |-> ""]

(***************************************************************************)
(* The lookups of the browser, which answer in document order.             *)
(***************************************************************************)
Elements(w) == SelectSeq(Preorder(w, 1), LAMBDA n : IsElement(w, n))

GetElementsByTagName(w, tag) == SelectSeq(Elements(w), LAMBDA n : tag \in {"*", Node(w, n).tag})

GetElementsByClassName(w, class) == SelectSeq(Elements(w), LAMBDA n : Node(w, n).class = class)

Satisfies(node, selector) ==
  /\ selector.tag \in {"", node.tag}
  /\ selector.class \in {"", node.class}

QuerySelectorAll(w, selector) ==
  SelectSeq(Elements(w), LAMBDA n : Satisfies(Node(w, n), selector))

(***************************************************************************)
(* Sizzle.                                                                 *)
(***************************************************************************)

\* Whether Expr.find.CLASS is there, and CLASS comes before TAG in Expr.order.
FindsByClass(w) == w.support.layout.byClass

\* Sizzle.find: the first lookup that applies, and what is left to check.
SizzleFind(w, expr) ==
  CASE expr.class # "" /\ FindsByClass(w) ->
         [set |-> GetElementsByClassName(w, expr.class), expr |-> [expr EXCEPT !.class = ""]]
    [] expr.tag # "" /\ ~ (expr.class # "" /\ FindsByClass(w)) ->
         [set |-> GetElementsByTagName(w, expr.tag), expr |-> [expr EXCEPT !.tag = ""]]
    [] OTHER -> [set |-> GetElementsByTagName(w, "*"), expr |-> expr]

\* Sizzle.filter, with its filters of a tag and of a class, in this order.
TagFilter(w, tag, set)   == SelectSeq(set, LAMBDA n : Node(w, n).tag = tag)
ClassFilter(w, class, set) == SelectSeq(set, LAMBDA n : Node(w, n).class = class)

\* Variant: what is left is checked up to the first filter only.
SizzleFilterOnce(w, expr, set) ==
  IF expr.tag # "" THEN TagFilter(w, expr.tag, set) ELSE ClassFilter(w, expr.class, set)

SizzleFilter(w, expr, set) ==
  LET tagged == IF expr.tag = "" THEN set ELSE TagFilter(w, expr.tag, set)
  IN  IF expr.class = "" THEN tagged ELSE ClassFilter(w, expr.class, tagged)

\* Sizzle(selector) over the document, when the browser has no better lookup.
OldSizzle(w, selector) ==
  LET ret == SizzleFind(w, selector)
  IN  IF ret.expr = NothingLeft THEN ret.set ELSE SizzleFilter(w, ret.expr, ret.set)

Sizzle(w, selector) ==
  CASE ~ w.support.layout.bySelector -> OldSizzle(w, selector)
    [] w.support.layout.bySelector /\ selector.class = "" ->
         GetElementsByTagName(w, selector.tag)
    [] w.support.layout.bySelector /\ selector.tag = "" /\ FindsByClass(w) ->
         GetElementsByClassName(w, selector.class)
    [] OTHER -> QuerySelectorAll(w, selector)

\* Sizzle.matchesSelector, on nodes of the page: by the browser where it can,
\* and otherwise by Sizzle with the node as its only seed.
MatchesSelector(w, n, expr) ==
  IF w.support.layout.byMatches THEN Satisfies(Node(w, n), expr)
                                ELSE SizzleFilter(w, expr, <<n>>) # << >>

(***************************************************************************)
(* jQuery(selector) and jQuery.filter(expr, elems)                         *)
(***************************************************************************)
Find(w, selector) == Sizzle(w, selector)

JQuery(w, selector) == IF selector = NothingLeft THEN << >> ELSE Find(w, selector)

Filter(w, expr, elems) ==
  IF Len(elems) = 1
  THEN IF MatchesSelector(w, elems[1], expr) THEN elems ELSE << >>
  ELSE SizzleFilter(w, expr, elems)
===============================================================================
