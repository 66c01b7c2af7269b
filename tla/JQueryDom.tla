------------------------------- MODULE JQueryDom -------------------------------
(***************************************************************************)
(* The part of jQuery that walks the tree and changes it.                  *)
(*                                                                         *)
(* A node is a record of its tag, its class, its children, its text (of a  *)
(* text node) and its inline style.                                        *)
(***************************************************************************)
EXTENDS JQueryEvents, JQuerySizzle

CONSTANT StyleNames     \* the style properties that the page's scripts touch

NewNode(tag, class, kids, text) ==
  [tag |-> tag, class |-> class, kids |-> kids, text |-> text,
   style |-> [s \in StyleNames |-> ""]]

TextNode(text) == NewNode("#text", "", << >>, text)

\* jQuery.nth: from cur on, in the given direction, the result-th element.
Nth(w, cur, result, dir) ==
  LET kids  == Node(w, Parent(w, cur)).kids
      at    == SelectInSeq(kids, LAMBDA k : k = cur)
      walk  == IF dir = "nextSibling" THEN SubSeq(kids, at, Len(kids))
                                      ELSE Reverse(SubSeq(kids, 1, at))
      elems == SelectSeq(walk, LAMBDA k : IsElement(w, k))
  IN  IF result <= Len(elems) THEN elems[result] ELSE 0

\* .prev(), .next(selector) and .parent().  parent() is the one of them that
\* may meet a node twice; jQuery.unique leaves one, in document order.
Prev(w, set) == Map([i \in DOMAIN set |-> Nth(w, set[i], 2, "previousSibling")])

NextMatching(w, set, selector) ==
  Filter(w, selector, Map([i \in DOMAIN set |-> Nth(w, set[i], 2, "nextSibling")]))

Unique(w, set) == SelectSeq(Preorder(w, 1), LAMBDA n : n \in Range(set))

Parents(w, set) ==
  LET parents == Map([i \in DOMAIN set |-> Parent(w, set[i])])
  IN  IF Len(set) > 1 THEN Unique(w, parents) ELSE parents

(***************************************************************************)
(* Changing the tree.                                                      *)
(***************************************************************************)

\* The DOM's appendChild: the node, or the children of the fragment, leave
\* where they are and become the last children of parent.
AppendChild(w, parent, n) ==
  LET moved  == IF Node(w, n).tag = "#fragment" THEN Node(w, n).kids ELSE <<n>>
      others == [m \in DOMAIN w.nodes |->
                   [Node(w, m) EXCEPT !.kids = SelectSeq(@, LAMBDA k : k \notin Range(moved))]]
  IN  [w EXCEPT !.nodes = [others EXCEPT ![parent].kids = @ \o moved]]

\* jQuery.clean: the nodes of a piece of HTML.  An item is a text or an
\* element with a text in it; lead is the white space a text starts with,
\* which some browsers drop at the start of innerHTML, so that clean puts it
\* back as a node of its own.
Clean(w, html) ==
  LET texts(i) == IF i.lead # "" /\ ~ w.support.leadingWhitespace
                  THEN <<TextNode(i.lead), TextNode(i.text)>>
                  ELSE <<TextNode(i.lead \o i.text)>>
      Add(made, i) ==
        LET next == Len(made.nodes) + 1 IN
        IF i.tag = "#text"
        THEN [nodes |-> made.nodes \o texts(i),
              ret   |-> made.ret \o [k \in DOMAIN texts(i) |-> next + k - 1]]
        ELSE [nodes |-> made.nodes \o <<NewNode(i.tag, i.class, <<next + 1>>, ""), TextNode(i.text)>>,
              ret   |-> Append(made.ret, next)]
  IN  FoldLeft(Add, [nodes |-> w.nodes, ret |-> << >>], html)

\* jQuery.buildFragment, for HTML that does not start with a tag and so is
\* not kept in jQuery.fragments: the fragment is the last of the new nodes.
BuildFragment(w, html) ==
  LET made == Clean(w, html)
  IN  [w EXCEPT !.nodes = Append(made.nodes, NewNode("#fragment", "", made.ret, ""))]

\* cloneCopyEvent: the copy gets the data of the original, with handlers of
\* its own in place of the original's.
CloneCopyEvent(w, src, dest) ==
  IF ~ IsElement(w, dest) \/ ~ HasData(w, src) THEN w
  ELSE LET events == Data(w, src, Events)
           copied == FoldLeft(LAMBDA v, k : SetData(v, dest, k, Data(w, src, k)), w,
                              SetToSeq(DOMAIN Entry(w, src) \ {Events, Handle}))
           Bind(v, type) == FoldLeft(LAMBDA u, h : AddHandler(u, dest, type, h.handler),
                                     v, Handlers(w, src, type))
       IN  IF events = undefined THEN copied
           ELSE FoldLeft(Bind, copied, SetToSeq(DOMAIN events))

\* jQuery.clone(n, true, true): the copy of n is the first new node.
Clone(w, n) ==
  LET src     == Preorder(w, n)
      dest(m) == Len(w.nodes) + SelectInSeq(src, LAMBDA k : k = m)
      copies  == [i \in DOMAIN src |->
                    [Node(w, src[i]) EXCEPT !.kids = [k \in DOMAIN @ |-> dest(@[k])]]]
  IN  FoldLeft(LAMBDA v, m : CloneCopyEvent(v, m, dest(m)),
               [w EXCEPT !.nodes = @ \o copies], src)

\* Variant: every target gets the fragment itself.
DomManipUncloned(w, targets, html) ==
  LET built == BuildFragment(w, html)
      made  == Len(built.nodes)
  IN  IF targets = << >> THEN w
      ELSE FoldLeft(LAMBDA v, t : AppendChild(v, t, made), built, targets)

\* .append(html), by domManip: every target but the last gets a clone of the
\* fragment, the last one the fragment itself.
DomManip(w, targets, html) ==
  LET built    == BuildFragment(w, html)
      made     == Len(built.nodes)
      fragment == IF Len(Node(built, made).kids) = 1 THEN Node(built, made).kids[1] ELSE made
      Insert(v, i) == IF i < Len(targets)
                      THEN AppendChild(Clone(v, fragment), targets[i], Len(v.nodes) + 1)
                      ELSE AppendChild(v, targets[i], fragment)
  IN  IF targets = << >> THEN w
      ELSE FoldLeft(Insert, built, [i \in DOMAIN targets |-> i])

\* jQuery.cleanData: data and listeners of nodes that are about to go.
CleanData(w, elems) ==
  [w EXCEPT !.cache     = Restrict(@, DOMAIN @ \ elems),
            !.listening = {l \in @ : l[1] \notin elems}]

\* .html(value), for a value with no tag in it: the data of the elements
\* below goes, and innerHTML leaves a single text node.
Html(w, set, value) ==
  LET Set(v, n) ==
        LET below   == Range(Preorder(v, n)) \ {n}
            cleaned == CleanData(v, {m \in below : IsElement(v, m)})
            text    == Node(v, n).kids[1]     \* the new text takes its index
        IN  [cleaned EXCEPT !.nodes = [@ EXCEPT ![n].kids = <<text>>, ![text] = TextNode(value)]]
  IN  FoldLeft(Set, w, set)
===============================================================================
