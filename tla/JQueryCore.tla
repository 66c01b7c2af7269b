------------------------------ MODULE JQueryCore ------------------------------
(***************************************************************************)
(* What the parts of jQuery share: sets of matched nodes, and the private  *)
(* data jQuery keeps for a node.                                           *)
(*                                                                         *)
(* JavaScript runs one event at a time, to its end, so a function of       *)
(* jQuery is modelled as an operator from the window to the window, and an *)
(* event as an action that applies one.  The window w is a record:         *)
(*   nodes      the DOM: a node is an index, 0 is null                     *)
(*   cache      jQuery.cache: the data of the nodes that have some         *)
(*   listening  the <<node, type>> with a listener of the browser's own    *)
(*   support    jQuery.support: what the tests of the browser found, with  *)
(*              the browser itself in the field layout                     *)
(* and the fields of JQueryEffects.                                        *)
(***************************************************************************)
EXTENDS Naturals, Sequences, SequencesExt

CONSTANT undefined    \* JavaScript's undefined

(***************************************************************************)
(* Sets of nodes are sequences: the order of a jQuery object is the order  *)
(* its methods go through it.  jQuery.each is FoldLeft.                    *)
(***************************************************************************)
\* jQuery.map(elems, fn), elems being the answers of fn: null is left out.
Map(elems) == SelectSeq(elems, LAMBDA value : value # 0)

Extend(target, options) == options @@ target

Node(w, n) == w.nodes[n]

\* nodeType === 1
IsElement(w, n) == Node(w, n).tag \notin {"#text", "#fragment", "#document"}

\* parentNode
Parent(w, n) ==
  LET above == {p \in DOMAIN w.nodes : n \in Range(Node(w, p).kids)}
  IN  IF above = {} THEN 0 ELSE CHOOSE p \in above : TRUE

\* A node and what is below it, in document order.
Preorder(w, n) ==
  LET below[m \in DOMAIN w.nodes] ==
        <<m>> \o FlattenSeq([i \in DOMAIN Node(w, m).kids |-> below[Node(w, m).kids[i]]])
  IN  below[n]

(***************************************************************************)
(* Private data.  A key is a name with a suffix, as the code concatenates  *)
(* them: "fx" + "queue", "toggle" + p.  The entry of a node is made when   *)
(* the first key is written and removed with the last one.                 *)
(***************************************************************************)
Key(name, suffix) == <<name, suffix>>

Entry(w, e) == IF e \in DOMAIN w.cache THEN w.cache[e] ELSE << >>

Data(w, e, key) ==
  IF key \in DOMAIN Entry(w, e) THEN w.cache[e][key] ELSE undefined

SetData(w, e, key, value) ==
  [w EXCEPT !.cache = (e :> ((key :> value) @@ Entry(w, e))) @@ @]

HasData(w, e) == DOMAIN Entry(w, e) # {}

RemoveData(w, e, keys) ==
  LET left == Restrict(Entry(w, e), DOMAIN Entry(w, e) \ keys)
  IN  [w EXCEPT !.cache =
         IF DOMAIN left = {} THEN Restrict(@, DOMAIN @ \ {e})
                             ELSE (e :> left) @@ @]
===============================================================================
