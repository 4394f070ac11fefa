------------------------- MODULE MCBubbleForceGraph -------------------------
(***************************************************************************)
(* BubbleForceGraph for the model checker: two node ids, and the snapshots *)
(* a server that keeps its own graph consistent sends (every id once,      *)
(* every link between two nodes of the snapshot, every link once).         *)
(***************************************************************************)
EXTENDS BubbleForceGraph

MCNodeIds == {"a", "b"}
MCLinkIds == {"L"}
MCAttrs   == {1, 2}
MCValues  == {1, 2}
MCCoords  == {0, 1, 2}
MCCentral == {1}

Node(id, attr, inherit, ix) ==
    [id |-> id, attr |-> attr, inherit |-> inherit, ix |-> ix]
Link(source, target, value) ==
    [lid |-> NoId, source |-> source, target |-> target, value |-> value]

\* The forms a node takes in a snapshot, one for each way a new node is
\* seeded: no hint at all; a node to inherit from and a hint; the hint 0; a
\* node to inherit from and no hint.
a1 == Node("a", 1, NoId, Absent)
a2 == Node("a", 2, "b", 2)
b1 == Node("b", 1, NoId, 0)
b2 == Node("b", 2, "a", Absent)

NodeLists ==
    {<< >>, <<a1>>, <<a2>>, <<b1>>, <<b2>>,
     <<a1, b1>>, <<b1, a1>>, <<a2, b1>>, <<a1, b2>>, <<b2, a2>>}

LinkLists ==
    {<< >>, <<Link("a", "b", 1)>>, <<Link("b", "a", 1), Link("a", "b", 2)>>}

WellFormed ==
    {g \in [nodes : NodeLists, links : LinkLists] :
        \A i \in DOMAIN g.links :
            {g.links[i].source, g.links[i].target} \subseteq Ids(g.nodes)}

\* A few consistent snapshots, for the runs about dragging: b comes after
\* a or together with it, and goes before it or together with it.
Few ==
    {[nodes |-> << >>, links |-> << >>],
     [nodes |-> <<a1>>, links |-> << >>],
     [nodes |-> <<b1, a1>>, links |-> <<Link("a", "b", 1)>>]}

\* Snapshots of a server that also names, in a link, a node it does not
\* list: the empty one, the full one of Few, and three that list a alone,
\* with a link whose target is missing, with a good link before that one,
\* and with a link whose source is missing.  The last has a link the full
\* one has not, so that after the full one its sync throws with b removed
\* from graphData and b's element still in the document.
WithDangling ==
    {[nodes |-> << >>, links |-> << >>],
     [nodes |-> <<b1, a1>>, links |-> <<Link("a", "b", 1)>>],
     [nodes |-> <<a1>>, links |-> <<Link("a", "b", 1)>>],
     [nodes |-> <<a1>>, links |-> <<Link("a", "a", 1), Link("a", "b", 1)>>],
     [nodes |-> <<a1>>, links |-> <<Link("b", "a", 1)>>]}

\* Consistent snapshots with a link that has an id of its own, first from
\* a to b, then, b gone, from a to a.
Retargeted ==
    {[nodes |-> << >>, links |-> << >>],
     [nodes |-> <<b1, a1>>,
      links |-> <<[lid |-> "L", source |-> "a", target |-> "b", value |-> 1]>>],
     [nodes |-> <<a1>>,
      links |-> <<[lid |-> "L", source |-> "a", target |-> "a", value |-> 1]>>]}

\* Snapshots of a server that lists a node twice, with two values of its
\* attributes, and then once.
Doubled ==
    {[nodes |-> << >>, links |-> << >>],
     [nodes |-> <<a1, Node("a", 2, NoId, Absent)>>, links |-> << >>],
     [nodes |-> <<a1>>, links |-> << >>]}


=============================================================================
