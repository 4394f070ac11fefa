----------------------------- MODULE ForceGraph -----------------------------
(***************************************************************************)
(* The class ForceGraph (monitoring/static/monitor.js), the graph of the   *)
(* monitor page.  It is the older of the two graph classes: addData        *)
(* appends new nodes and leaves their place to d3, copies group and status *)
(* only, and sync joins the node objects to the circles themselves, so     *)
(* that a circle's drag handlers are called with the object the last join  *)
(* bound to it.                                                            *)
(*                                                                         *)
(* Besides graphData, the simulation and the document, the state holds the *)
(* two selections sync leaves in this.dataNodes and this.dataLinks: they   *)
(* are what the tick handler draws; and the colour scale, which gives a    *)
(* group the next colour of its palette when it first meets it.            *)
(***************************************************************************)
EXTENDS D3, Bags, BagsExt

CONSTANTS
    Snapshots,    \* the snapshots the server may send: [nodes, links]
    MaxTouches,   \* bound: pointers that drag at the same time
    MaxDrags      \* bound: drag behaviours that have an element or a gesture

VARIABLES
    nodes,          \* this.graphData.nodes
    links,          \* this.graphData.links
    running,        \* the simulation's timer is going
    alpha,          \* the side of alphaMin the simulation's alpha is on
    alphaTarget,    \* the simulation's alpha target, in thousandths
    gestures,       \* the drags in progress, one for each touch (a bag)
    circles,        \* the circles in the document
    paths,          \* the names of the paths in the document
    dataNodes,      \* this.dataNodes: the ids of the circles the tick draws
    dataLinks,      \* this.dataLinks: the names of the paths the tick draws
    color,          \* this.color: the groups the scale has met, in order
    highestGroupSeenSoFar,
    fill            \* fill[c]: the place in the palette of circle c's colour

sim   == <<running, alpha, alphaTarget>>
dom   == <<circles, paths, dataNodes, dataLinks>>
store == <<nodes, links>>
paint == <<color, highestGroupSeenSoFar, fill>>
vars  == <<nodes, links, running, alpha, alphaTarget, gestures, circles, paths,
           dataNodes, dataLinks, color, highestGroupSeenSoFar, fill>>

Palette    == 10     \* the colours of d3.schemeCategory10
SyncTarget == 10     \* alphaTarget(0.01), at the end of sync
DragTarget == 300    \* alphaTarget(0.3), when a drag starts
RestTarget == 0      \* alphaTarget(0), when the last drag ends

\* A circle: the node object bound to it and the drag behaviour it was given.
Drags    == 1..MaxDrags
Subjects == [id : NodeIds, oid : Oids, drag : Drags]

TypeOK ==
    /\ nodes \in Seq(Nodes)
    /\ links \in Seq(Links)
    /\ running \in BOOLEAN
    /\ alpha \in Alphas
    /\ alphaTarget \in {RestTarget, SyncTarget, DragTarget}
    /\ IsABag(gestures) /\ BagToSet(gestures) \subseteq Subjects
    /\ circles \subseteq Subjects
    /\ paths \subseteq STRING
    /\ dataNodes \subseteq NodeIds
    /\ dataLinks \subseteq paths
    /\ color \in Seq(Nat)
    /\ highestGroupSeenSoFar \in Nat
    /\ fill \in [circles -> 0..(Palette - 1)]

-----------------------------------------------------------------------------
(***************************************************************************)
(* addData(g).                                                             *)
(***************************************************************************)
newNodes(g) == NodesByName(g.nodes)
newLinks(g) == LinksByName(AsLinks(g.links))

AddableNodes(g) ==
    LET oldNodeNames == Ids(nodes)
    IN  SelectSeq(g.nodes, LAMBDA n : n.id \notin oldNodeNames)

AddableLinks(g) ==
    LET oldLinkNames == Keys(links)
    IN  SelectSeq(AsLinks(g.links), LAMBDA l : getIdForLink(l) \notin oldLinkNames)

\* A variant that takes a node for removed when the snapshot has no link
\* that starts at it.
KillNodesUnlinked(g) ==
    Ids(nodes) \ {g.links[i].source : i \in DOMAIN g.links}

KillNodes(g) == Ids(nodes) \ Ids(g.nodes)
KillLinks(g) == Keys(links) \ Keys(AsLinks(g.links))

\* The two splice loops; they remove nothing when both sets are empty.
SpliceNodes(g) ==
    LET kill == KillNodes(g)
    IN  SelectSeq(nodes, LAMBDA n : n.id \notin kill)

SpliceLinks(g) ==
    LET kill == KillLinks(g)
    IN  SelectSeq(links, LAMBDA l : getIdForLink(l) \notin kill)

\* A variant that copies the attributes and unpins the node.
CopiedAndFreed(n, byName) ==
    IF n.id \in DOMAIN byName
    THEN [n EXCEPT !.attr = byName[n.id].attr, !.fx = Absent] ELSE n

\* group and status of a node come from the snapshot when it has the node.
Copied(n, byName) ==
    IF n.id \in DOMAIN byName THEN [n EXCEPT !.attr = byName[n.id].attr] ELSE n

\* The two forEach loops over updatedNodesByName and updatedLinksByName: of
\* several elements with one name only the last is reached.
Updated(ns, ls, g) ==
    LET byNode == newNodes(g)
        byLink == newLinks(g)
    IN  [nodes |-> [i \in DOMAIN ns |->
                       IF i = NodeAt(ns, ns[i].id)
                       THEN Copied(ns[i], byNode) ELSE ns[i]],
         links |-> [i \in DOMAIN ls |->
                       LET k == getIdForLink(ls[i]) IN
                       IF i = LinkAt(ls, k) /\ k \in DOMAIN byLink
                       THEN [ls[i] EXCEPT !.value = byLink[k].value]
                       ELSE ls[i]]]

\* Every node object something still refers to.
Referenced ==
    {Ref(nodes[i]) : i \in DOMAIN nodes}
        \cup UNION {{links[i].source, links[i].target} : i \in DOMAIN links}
        \cup BagToSet(gestures) \cup circles

\* graphData as addData leaves it and simulation.nodes(...) places it: the
\* snapshot's own objects are pushed behind the survivors, and d3 gives a
\* node without a position the place placed[i].
Reconcile(g, placed) ==
    LET addable == AddableNodes(g)
        oids    == FreshOids(Referenced, [i \in DOMAIN addable |-> addable[i].id])
        pushed  == [i \in DOMAIN addable |->
                      [oid |-> oids[i], id |-> addable[i].id,
                       attr |-> addable[i].attr, x |-> placed[i], fx |-> Absent]]
    IN  Updated(SpliceNodes(g) \o pushed, SpliceLinks(g) \o AddableLinks(g), g)

Places(g) == [1..Len(AddableNodes(g)) -> Central]

-----------------------------------------------------------------------------
(***************************************************************************)
(* sync().                                                                 *)
(***************************************************************************)
CircleKeys == {c.id : c \in circles}

\* The circles the join keeps: one of each id the nodes have.
Kept(ns) ==
    {S \in SUBSET {c \in circles : c.id \in Ids(ns)} :
        \A id \in Ids(ns) \cap CircleKeys :
            Cardinality({c \in S : c.id = id}) = 1}

\* A variant of the join that leaves a kept circle the object it had.
BoundAsBefore(c, ns) == c

\* The join binds a kept circle to the first node of its id.
Bound(c, ns) ==
    [c EXCEPT !.oid = ns[SelectInSeq(ns, LAMBDA n : n.id = c.id)].oid]

\* enter().append("circle"): a node enters when no circle has its id, or
\* when it is not the first node of its id; what enters in one sync shares
\* one new drag behaviour.
NewDrag == CHOOSE d \in Drags : d \notin {s.drag : s \in BagToSet(gestures) \cup circles}

Entered(ns) ==
    {[id |-> ns[i].id, oid |-> ns[i].oid, drag |-> NewDrag] :
        i \in {j \in DOMAIN ns : \/ ns[j].id \notin CircleKeys
                                 \/ \E h \in 1..(j - 1) : ns[h].id = ns[j].id}}

(***************************************************************************)
(* Colours.  d3.scaleOrdinal gives a key it has not met the next place of  *)
(* its domain, and a key its colour by its place.  colourForGroupAndStatus *)
(* first shows the scale every group from highestGroupSeenSoFar up to gr,  *)
(* so that places go by group number and not by the order of arrival.      *)
(* (The status only brightens the colour.)                                 *)
(***************************************************************************)
\* The scale's domain after it has been shown the keys ks, all different,
\* one after the other.
Met(domain, ks) == domain \o SelectSeq(ks, LAMBDA k : k \notin Range(domain))

Place(domain, gr) == (SelectInSeq(domain, LAMBDA k : k = gr) - 1) % Palette

\* A variant without the loop.
colourForGroupAndStatusAsMet(seen, gr) ==
    [color |-> Met(seen.color, <<gr>>),
     highestGroupSeenSoFar |-> seen.highestGroupSeenSoFar]

colourForGroupAndStatus(seen, gr) ==
    LET h     == seen.highestGroupSeenSoFar
        below == IF gr > h THEN [i \in 1..(gr - h) |-> h + i - 1] ELSE << >>
    IN  [color |-> Met(seen.color, below \o <<gr>>),
         highestGroupSeenSoFar |-> IF gr > h THEN gr ELSE h]

\* The fill attributes of one sync: of the circles it appends, then of the
\* circles that stay, each in the order of the nodes.
Enters(n, ns) ==
    n.id \notin CircleKeys \/ ns[SelectInSeq(ns, LAMBDA m : m.id = n.id)] # n

\* The node attr("fill", ...) paints a circle for: the one the circle was
\* appended for, and for a circle that stays the first of its id.
Datum(c, ns) ==
    LET own == SelectInSeq(ns, LAMBDA n : SameObject(n, c))
    IN  ns[IF own # 0 THEN own ELSE SelectInSeq(ns, LAMBDA n : n.id = c.id)]

Painted(ns) ==
    LET group(n) == n.attr
        calls    == SelectSeq(ns, LAMBDA n : Enters(n, ns))
                       \o SelectSeq(ns, LAMBDA n : ~Enters(n, ns))
        after[i \in 0..Len(calls)] ==
            IF i = 0
            THEN [color |-> color, highestGroupSeenSoFar |-> highestGroupSeenSoFar]
            ELSE colourForGroupAndStatus(after[i - 1], group(calls[i]))
    IN  after[Len(calls)]

\* A variant with a target ten times as high.
SyncRestartHot ==
    /\ alphaTarget' = 10 * SyncTarget
    /\ running' = TRUE

\* The last statement of sync: alphaTarget(0.01).restart().
SyncRestart ==
    /\ alphaTarget' = SyncTarget
    /\ running' = TRUE

(***************************************************************************)
(* A snapshot arrives and addData(g) runs to the end of sync.  The two     *)
(* selections sync keeps are the update selections of the joins: the       *)
(* circles and paths that were in the document before, not the ones this   *)
(* sync appends.                                                           *)
(***************************************************************************)
AddData(g) ==
    /\ \E placed \in Places(g) :
          LET r == Reconcile(g, placed) IN
          /\ nodes' = r.nodes
          /\ links' = InitializeLinks(r.links, nodes')
    /\ ~Throws(links', nodes')
    /\ \E kept \in Kept(nodes') :
          circles' = {Bound(c, nodes') : c \in kept} \cup Entered(nodes')
    /\ LET seen == Painted(nodes') IN
       /\ color' = seen.color
       /\ highestGroupSeenSoFar' = seen.highestGroupSeenSoFar
    /\ fill' = [c \in circles' |-> Place(color', Datum(c, nodes').attr)]
    /\ dataNodes' = Ids(nodes') \cap CircleKeys
    /\ paths' = Keys(links')
    /\ dataLinks' = paths' \cap paths
    /\ SyncRestart
    /\ UNCHANGED <<alpha, gestures>>

(***************************************************************************)
(* A snapshot arrives and sync throws in simulation.nodes(...): the link   *)
(* force meets an end that names no node.  graphData is reconciled and     *)
(* placed, the timer is stopped, and nothing else of sync has happened.    *)
(***************************************************************************)
AddDataAborted(g) ==
    /\ \E placed \in Places(g) :
          LET r == Reconcile(g, placed) IN
          /\ nodes' = r.nodes
          /\ links' = InitializeLinks(r.links, nodes')
    /\ Throws(links', nodes')
    /\ running' = FALSE
    /\ UNCHANGED <<alpha, alphaTarget, gestures, dom, paint>>

-----------------------------------------------------------------------------
(***************************************************************************)
(* The simulation's timer.  The "end" handler only writes to the console.  *)
(***************************************************************************)
Moved ==
    LET places == {xs \in [DOMAIN nodes -> Coords] :
                      \A i \in DOMAIN nodes :
                          nodes[i].fx # Absent => xs[i] = nodes[i].fx}
    IN  {[i \in DOMAIN nodes |-> [nodes[i] EXCEPT !.x = xs[i]]] : xs \in places}

\* A variant that has no default.
strokeWidthBare(d) == Sqrt(d.value)

\* The stroke-width the tick handler gives the path of link d.
strokeWidth(d) == Or(Sqrt(d.value), Num(1))

Tick ==
    /\ running
    /\ nodes' \in Moved
    /\ alpha' \in AlphaAfterTick(alpha, alphaTarget)
    /\ running' = (alpha' = "warm")
    /\ UNCHANGED <<links, alphaTarget, gestures, dom, paint>>

-----------------------------------------------------------------------------
(***************************************************************************)
(* Dragging.  A gesture calls the handlers with the object that was bound  *)
(* to the circle when the gesture began.                                   *)
(***************************************************************************)
Pin(d, fx) ==
    [i \in DOMAIN nodes |->
        IF SameObject(nodes[i], d) THEN [nodes[i] EXCEPT !.fx = fx[i]]
        ELSE nodes[i]]

\* d3.event.active: the gestures of the behaviour drag among the touches;
\* dragstarted counts before its touch is added, dragended after its touch
\* is removed.
Active(drag, touches) ==
    BagCardinality(Restrict(touches, {s \in BagToSet(touches) : s.drag = drag}))

dragstarted(d) ==
    /\ d \in circles
    /\ BagCardinality(gestures) < MaxTouches
    /\ gestures' = BagAdd(gestures, d)
    /\ alphaTarget' = IF Active(d.drag, gestures) = 0 THEN DragTarget ELSE alphaTarget
    /\ running' = (Active(d.drag, gestures) = 0 \/ running)
    /\ nodes' = Pin(d, [i \in DOMAIN nodes |-> nodes[i].x])
    /\ UNCHANGED <<links, alpha, dom, paint>>

dragged(d, p) ==
    /\ BagIn(d, gestures)
    /\ nodes' = Pin(d, [i \in DOMAIN nodes |-> p])
    /\ UNCHANGED <<links, sim, gestures, dom, paint>>

dragended(d) ==
    /\ BagIn(d, gestures)
    /\ gestures' = BagRemove(gestures, d)
    /\ alphaTarget' = IF Active(d.drag, gestures') = 0 THEN RestTarget ELSE alphaTarget
    /\ nodes' = Pin(d, [i \in DOMAIN nodes |-> Absent])
    /\ UNCHANGED <<links, running, alpha, dom, paint>>

-----------------------------------------------------------------------------
\* The object as the constructor leaves it: no data, one sync made over
\* nothing, the simulation new and running.
Init ==
    /\ nodes = << >>
    /\ links = << >>
    /\ running = TRUE
    /\ alpha = AlphaStart
    /\ alphaTarget = SyncTarget
    /\ gestures = EmptyBag
    /\ circles = {}
    /\ paths = {}
    /\ dataNodes = {}
    /\ dataLinks = {}
    /\ color = << >>
    /\ highestGroupSeenSoFar = 0
    /\ fill = << >>

Next ==
    \/ \E g \in Snapshots : AddData(g) \/ AddDataAborted(g)
    \/ Tick
    \/ \E d \in circles : dragstarted(d)
    \/ \E d \in BagToSet(gestures), p \in Coords : dragged(d, p)
    \/ \E d \in BagToSet(gestures) : dragended(d)

Spec == Init /\ [][Next]_vars

-----------------------------------------------------------------------------
(***************************************************************************)
(* Properties.                                                             *)
(***************************************************************************)

\* The document shows graphData: every stored node has one circle, bound to
\* this very object, every circle is some node's, and the paths are the
\* links.
ElementsMatchStore ==
    /\ {Ref(c) : c \in circles} = {Ref(nodes[i]) : i \in DOMAIN nodes}
    /\ \A c, e \in circles : c.id = e.id => c = e
    /\ paths = Keys(links)

\* The document shows graphData unless the last sync threw, that is, unless
\* graphData holds a link the link force cannot bind.  A sync that ends
\* well repairs what syncs that threw have left behind (circles whose nodes
\* have gone or have been replaced by new objects of the same id): its join
\* binds a circle that stays to the object graphData now holds and removes
\* the others.
SyncRepairsElements ==
    ~Throws(links, nodes) => ElementsMatchStore

\* A node is pinned only while a gesture holds it: no addData between
\* dragstarted and dragended, whether its sync ends well or throws, loses
\* the pin of a node that stays or leaves a pinned node behind.
PinnedIffDragged ==
    \A i \in DOMAIN nodes :
        nodes[i].fx # Absent <=> \E d \in BagToSet(gestures) : SameObject(d, nodes[i])

\* addData makes graphData the snapshot, leaves every surviving node where
\* it is and gives new nodes a place d3 chooses; ticks and drags move nodes
\* and change nothing else.  This is GraphView for snapshots that carry
\* neither `inherit` nor position hints, which ForceGraph does not read.
Shown ==
    [id \in Ids(nodes) |->
        [attr |-> nodes[NodeAt(nodes, id)].attr, x |-> nodes[NodeAt(nodes, id)].x]]

NameOf(l) == IF l.lid # NoId THEN <<l.lid>> ELSE <<l.source.id, l.target.id>>

Edges ==
    [k \in {NameOf(links[i]) : i \in DOMAIN links} |->
        links[SelectLastInSeq(links, LAMBDA l : NameOf(l) = k)].value]

View == INSTANCE GraphView WITH shown <- Shown, edges <- Edges

ImplementsGraphView == View!Spec

\* The tick handler draws every circle and every path of the document: it
\* sets cx, cy and d on the elements of this.dataNodes and this.dataLinks,
\* which sync makes from the joins.
AllDrawn ==
    /\ dataNodes = CircleKeys
    /\ dataLinks = paths

\* The tick handler draws every stored link as wide as GraphView says,
\* whatever value the server gives it but zero: the default of
\* Math.sqrt(d.value) || 1.0 is taken for what has no root, which is what
\* the rule asks.  (It is also taken for the root 0.)
DrawsByRule ==
    \A i \in DOMAIN links, v \in LinkValues :
        ToNumber(v) # Num(0)
            => strokeWidth([links[i] EXCEPT !.value = v]) = View!Weight(v)

\* Colours go by group: after a sync that ended well every circle has the
\* colour at the place of its node's group in the palette, whatever groups
\* the server has sent before and in whatever order, and also when the
\* node's group has changed since the circle was made.  It is the loop of
\* colourForGroupAndStatus that makes the scale meet the groups in the
\* order of their numbers, and the fill that sync sets on the circles that
\* stay.
ColourByGroup ==
    ~Throws(links, nodes) =>
        \A c \in circles, i \in DOMAIN nodes :
            SameObject(nodes[i], c) => fill[c] = nodes[i].attr % Palette

=============================================================================
