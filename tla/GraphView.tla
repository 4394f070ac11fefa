----------------------------- MODULE GraphView -----------------------------
(***************************************************************************)
(* What a graph class promises the page that feeds it snapshots, with no   *)
(* word of how it is done: the display is a set of nodes, each with the    *)
(* attributes of the last snapshot and a position, and a set of links.     *)
(* Showing a snapshot makes the display that snapshot.  A node that was    *)
(* shown and still is keeps its position, whatever the snapshot says; a    *)
(* node that is new starts where the node it inherits from is, if that     *)
(* node stays, else at its hint, else somewhere in the central region.     *)
(* Between snapshots nodes move and nothing else changes.                  *)
(*                                                                         *)
(* Snapshots are the records the graph classes take: nodes are             *)
(* [id, attr, inherit, ix], links are [lid, source, target, value].        *)
(***************************************************************************)
EXTENDS Integers, Sequences, FiniteSets, JsValue

CONSTANTS
    Attrs, Coords, Central,   \* as in GraphData
    Snapshots,                \* the snapshots that may be shown
    NoId, Absent              \* "no name", "no number" in a snapshot

VARIABLES
    shown,    \* id of a shown node -> [attr, x]
    edges     \* name of a shown link -> value

view == <<shown, edges>>

NodesOf(g) == {g.nodes[i] : i \in DOMAIN g.nodes}
LinksOf(g) == {g.links[i] : i \in DOMAIN g.links}

\* A link is named by its id if it has one, else by its two ends.
EdgeName(lid, source, target) ==
    IF lid # NoId THEN <<lid>> ELSE <<source, target>>

EdgeNames(g) == {EdgeName(l.lid, l.source, l.target) : l \in LinksOf(g)}

\* A hint of 0 is no hint: the classes test a hint for truth.
Hinted(n) == n.ix \notin {Absent, 0}

\* Where the new node n of snapshot g may start.
Seeds(g, n) ==
    CASE n.inherit \in DOMAIN shown /\ \E m \in NodesOf(g) : m.id = n.inherit
                      -> {shown[n.inherit].x}
      [] Hinted(n)    -> {n.ix}
      [] OTHER        -> Central

\* How wide a link of value v is drawn: not at all when the value is zero,
\* as a number or as a string that reads as one; one unit wide when there
\* is no value, or none that reads as a number, or a negative one; else
\* the square root of the value.
Weight(v) ==
    LET n == ToNumber(v)
    IN  CASE v = Str("") \/ n = NaN -> Num(1)
          [] n.n = 0                -> Num(0)
          [] n.n < 0                -> Num(1)
          [] OTHER                  -> Sqrt(n)

Init ==
    /\ shown = << >>
    /\ edges = << >>

Show(g) ==
    /\ DOMAIN shown' = {n.id : n \in NodesOf(g)}
    /\ \A n \in NodesOf(g) :
        /\ shown'[n.id].attr = n.attr
        /\ shown'[n.id].x \in
              IF n.id \in DOMAIN shown THEN {shown[n.id].x} ELSE Seeds(g, n)
    /\ DOMAIN edges' = EdgeNames(g)
    /\ \A l \in LinksOf(g) :
            edges'[EdgeName(l.lid, l.source, l.target)] = l.value

Move ==
    /\ DOMAIN shown' = DOMAIN shown
    /\ \A id \in DOMAIN shown :
        /\ shown'[id].attr = shown[id].attr
        /\ shown'[id].x \in Coords
    /\ UNCHANGED edges

Next == Move \/ \E g \in Snapshots : Show(g)

Spec == Init /\ [][Next]_view

=============================================================================
