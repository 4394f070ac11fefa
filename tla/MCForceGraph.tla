---------------------------- MODULE MCForceGraph ----------------------------
(***************************************************************************)
(* ForceGraph for TLC: two node ids, and the snapshots of a monitor server *)
(* that sends group and status for its nodes and nothing about positions.  *)
(***************************************************************************)
EXTENDS ForceGraph

MCNodeIds == {"a", "b"}
MCLinkIds == {"L"}

Node(id, attr) == [id |-> id, attr |-> attr, inherit |-> NoId, ix |-> Absent]
Link(s, t, v)  == [lid |-> NoId, source |-> s, target |-> t, value |-> v]

\* What the server sends while the network grows, changes and shrinks, and
\* what it sends when it names in a link a node it has not listed (yet).
\* The groups are 1 and 11, which share a colour of the palette of ten, and
\* the higher one comes first.
Monitored ==
    {[nodes |-> << >>, links |-> << >>],
     [nodes |-> <<Node("a", 11), Node("b", 1)>>, links |-> <<Link("a", "b", 1)>>],
     [nodes |-> <<Node("b", 1)>>, links |-> <<Link("b", "a", 2)>>],
     [nodes |-> <<Node("a", 1)>>,
      links |-> <<Link("a", "a", 1), Link("a", "b", 2)>>]}

=============================================================================
