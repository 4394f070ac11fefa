-------------------------- MODULE BubbleForceGraph --------------------------
(***************************************************************************)
(* The class BubbleForceGraph (swarmeye/main/statics/BubbleForceGraph.js): *)
(* a graph kept in this.graphData, reconciled in place with every snapshot *)
(* the server sends (addData), handed to a d3 force simulation and joined  *)
(* to the SVG elements (sync), and dragged by the user (dragstarted,       *)
(* dragged, dragended).  Everything runs on the browser's event loop: one  *)
(* handler at a time, in any order.                                        *)
(*                                                                         *)
(* The state is the object's own (graphData, the simulation's run state    *)
(* and target, the two selections sync leaves in this.dataNodes and        *)
(* this.dataLinks for the tick handler) and what the library keeps for it  *)
(* (the elements in the document, the gestures in progress).               *)
(***************************************************************************)
EXTENDS D3, Bags, BagsExt

CONSTANTS
    Snapshots,    \* the snapshots the server may send: [nodes, links]
    MaxTouches,   \* bound: pointers that drag at the same time
    MaxDrags      \* bound: drag behaviours that have an element or a gesture

VARIABLES
    nodes,          \* this.graphData.nodes
    links,          \* this.graphData.links
    running,        \* the simulation's timer is going
    alpha,          \* the side of alphaMin the simulation's alpha is on
    alphaTarget,    \* the simulation's alpha target, in thousandths
    gestures,       \* the drags in progress, one for each touch (a bag)
    circles,        \* the node elements in the document
    paths,          \* the names of the link elements in the document
    dataNodes,      \* this.dataNodes: the ids of the elements the tick draws
    dataLinks       \* this.dataLinks: the names of the paths the tick draws

sim   == <<running, alpha, alphaTarget>>
dom   == <<circles, paths, dataNodes, dataLinks>>
vars  == <<nodes, links, running, alpha, alphaTarget, gestures, circles, paths,
           dataNodes, dataLinks>>

SyncTarget == 10     \* alphaTarget(0.01), at the end of sync
DragTarget == 300    \* alphaTarget(0.3), when a drag starts
RestTarget == 0      \* alphaTarget(0), when the last drag ends

\* A node element: the node object its circle was made for, which is what
\* the drag handlers are called with, and the behaviour (the value of one
\* d3.drag() call) that calls them.
Drags    == 1..MaxDrags
Subjects == [id : NodeIds, oid : Oids, drag : Drags]

TypeOK ==
    /\ nodes \in Seq(Nodes)
    /\ links \in Seq(Links)
    /\ running \in BOOLEAN
    /\ alpha \in Alphas
    /\ alphaTarget \in {RestTarget, SyncTarget, DragTarget}
    /\ IsABag(gestures) /\ BagToSet(gestures) \subseteq Subjects
    /\ circles \subseteq Subjects
    /\ paths \subseteq STRING
    /\ dataNodes \subseteq NodeIds
    /\ dataLinks \subseteq paths

-----------------------------------------------------------------------------
(***************************************************************************)
(* addData(g), step by step.                                               *)
(***************************************************************************)
newNodes(g) == NodesByName(g.nodes)
newLinks(g) == LinksByName(AsLinks(g.links))

\* A variant that adds every node of the snapshot.
AddableNodesAll(g, ns) == g.nodes

AddableNodes(g, ns) ==
    LET oldNodeNames == Ids(ns)
    IN  SelectSeq(g.nodes, LAMBDA n : n.id \notin oldNodeNames)

AddableLinks(g, ls) ==
    LET oldLinkNames == Keys(ls)
    IN  SelectSeq(AsLinks(g.links), LAMBDA l : getIdForLink(l) \notin oldLinkNames)

KillNodes(g, ns) == Ids(ns) \ Ids(g.nodes)

\* A variant that never finds a link to remove.
KillLinksNone(g, ls) == {}

KillLinks(g, ls) == Keys(ls) \ Keys(AsLinks(g.links))

\* A variant that walks the array forwards, and so steps over the element
\* that follows one it has removed.
SpliceNodesForwards(ns, kill) ==
    LET removed[i \in DOMAIN ns] ==
            ns[i].id \in kill /\ (i = 1 \/ ~removed[i - 1])
        left == SelectSeq([i \in DOMAIN ns |-> [node |-> ns[i], out |-> removed[i]]],
                          LAMBDA e : ~e.out)
    IN  [i \in DOMAIN left |-> left[i].node]

\* The two splice loops, from the last element to the first.  They run when
\* either set is non-empty, and change nothing when both are empty.
SpliceNodes(ns, kill) == SelectSeq(ns, LAMBDA n : n.id \notin kill)
SpliceLinks(ls, kill) == SelectSeq(ls, LAMBDA l : getIdForLink(l) \notin kill)

\* A variant that takes the hint whether or not there is one.
SeedHintOnly(node, preserved, random) == node.ix

\* A variant that looks for the node to inherit from nowhere.
SeedNoInherit(node, preserved, random) ==
    IF node.ix \notin {Absent, 0} THEN node.ix ELSE random

\* Where a new node starts: where the surviving node it names in `inherit`
\* is; else at its hint, unless that is missing or 0; else at random in the
\* central region.
Seed(node, preserved, random) ==
    CASE node.inherit \in DOMAIN preserved -> preserved[node.inherit].x
      [] node.ix \notin {Absent, 0}        -> node.ix
      [] OTHER                             -> random

NewNode(sn, oid, x) ==
    [oid |-> oid, id |-> sn.id, attr |-> sn.attr, x |-> x, fx |-> Absent]

\* A variant that replaces a node's record by what the snapshot says of it.
UpdateNodesWhole(ns, byName) ==
    [i \in DOMAIN ns |->
        IF ns[i].id \in DOMAIN byName
        THEN [ns[i] EXCEPT !.attr = byName[ns[i].id].attr, !.fx = Absent]
        ELSE ns[i]]

\* The copy of the listed attributes onto the objects of updatedNodesByName:
\* of several nodes with one id only the last is reached.
UpdateNodes(ns, byName) ==
    [i \in DOMAIN ns |->
        IF i = NodeAt(ns, ns[i].id) /\ ns[i].id \in DOMAIN byName
        THEN [ns[i] EXCEPT !.attr = byName[ns[i].id].attr]
        ELSE ns[i]]

UpdateLinks(ls, byName) ==
    [i \in DOMAIN ls |->
        IF i = LinkAt(ls, getIdForLink(ls[i])) /\ getIdForLink(ls[i]) \in DOMAIN byName
        THEN [ls[i] EXCEPT !.value = byName[getIdForLink(ls[i])].value]
        ELSE ls[i]]

\* Every node object something still refers to.
Referenced ==
    {Ref(nodes[i]) : i \in DOMAIN nodes}
        \cup UNION {{links[i].source, links[i].target} : i \in DOMAIN links}
        \cup BagToSet(gestures) \cup circles

\* graphData as addData leaves it before it calls sync.  random[i] is what
\* Math.random() gives for the i-th added node.
Reconcile(g, random) ==
    LET survivors == SpliceNodes(nodes, KillNodes(g, nodes))
        kept      == SpliceLinks(links, KillLinks(g, links))
        preserved == NodesByName(survivors)
        addable   == AddableNodes(g, nodes)
        oids      == FreshOids(Referenced, [i \in DOMAIN addable |-> addable[i].id])
        seeded    == [i \in DOMAIN addable |->
                        NewNode(addable[i], oids[i],
                                Seed(addable[i], preserved, random[i]))]
    IN  [nodes |-> UpdateNodes(seeded \o survivors, newNodes(g)),
         links |-> UpdateLinks(kept \o AddableLinks(g, links), newLinks(g))]

Randoms(g) == [1..Len(AddableNodes(g, nodes)) -> Central]

-----------------------------------------------------------------------------
(***************************************************************************)
(* sync().                                                                 *)
(***************************************************************************)
CircleKeys == {c.id : c \in circles}

\* dataNodes.enter().append("g") with its circle, text and drag handlers.
\* A node enters when no element has its id, or when it is not the first
\* node with its id.  Every element that enters in one sync is given one
\* new drag behaviour.
Entering(ns) ==
    {i \in DOMAIN ns :
        ns[i].id \notin CircleKeys \/ \E j \in 1..(i - 1) : ns[j].id = ns[i].id}

NewDrag == CHOOSE d \in Drags : d \notin {s.drag : s \in BagToSet(gestures) \cup circles}

Entered(ns) ==
    {[id |-> ns[i].id, oid |-> ns[i].oid, drag |-> NewDrag] : i \in Entering(ns)}

\* A variant without exit().remove().
KeptAll(ns) == {circles}

\* dataNodes.exit().remove(): of the elements in the document, one of each
\* id the nodes have is kept, the others are removed.  Which of several
\* elements with one id is the first in the document is left open.
Kept(ns) ==
    {S \in SUBSET {c \in circles : c.id \in Ids(ns)} :
        \A id \in Ids(ns) \cap CircleKeys :
            Cardinality({c \in S : c.id = id}) = 1}

\* A variant that sets the target and leaves the timer stopped.
SyncRestartNot ==
    /\ alphaTarget' = SyncTarget
    /\ running' = FALSE

\* The last statement of sync: alphaTarget(0.01).restart().
SyncRestart ==
    /\ alphaTarget' = SyncTarget
    /\ running' = TRUE

(***************************************************************************)
(* A snapshot arrives and addData(g) runs to its end: graphData is         *)
(* reconciled, the simulation is stopped and given the nodes, the link     *)
(* force binds every end, both joins are made, the simulation restarts.    *)
(***************************************************************************)
AddData(g) ==
    /\ \E random \in Randoms(g) :
          LET r == Reconcile(g, random) IN
          /\ nodes' = r.nodes
          /\ links' = InitializeLinks(r.links, nodes')
    /\ ~Throws(links', nodes')
    /\ \E kept \in Kept(nodes') : circles' = kept \cup Entered(nodes')
    /\ dataNodes' = Ids(nodes') \cap CircleKeys
    /\ paths' = Keys(links')
    /\ dataLinks' = paths' \cap paths
    /\ SyncRestart
    /\ UNCHANGED <<alpha, gestures>>

(***************************************************************************)
(* A snapshot arrives and sync throws in simulation.nodes(...), where the  *)
(* link force, still holding graphData.links, meets an end that names no   *)
(* node.  graphData is already reconciled; the links before the one at     *)
(* fault are bound; stop() has run and nothing after the throw does: no    *)
(* join, no restart.  The elements of removed nodes stay in the document   *)
(* with their drag handlers.                                               *)
(***************************************************************************)
AddDataAborted(g) ==
    /\ \E random \in Randoms(g) :
          LET r == Reconcile(g, random) IN
          /\ nodes' = r.nodes
          /\ links' = InitializeLinks(r.links, nodes')
    /\ Throws(links', nodes')
    /\ running' = FALSE
    /\ UNCHANGED <<alpha, alphaTarget, gestures, dom>>

-----------------------------------------------------------------------------
(***************************************************************************)
(* The simulation's timer.                                                 *)
(***************************************************************************)
\* Where one tick may leave the nodes: a pinned node at its pin, any other
\* anywhere.
Moved ==
    LET places == {xs \in [DOMAIN nodes -> Coords] :
                      \A i \in DOMAIN nodes :
                          nodes[i].fx # Absent => xs[i] = nodes[i].fx}
    IN  {[i \in DOMAIN nodes |-> [nodes[i] EXCEPT !.x = xs[i]]] : xs \in places}

\* A variant that compares with == where the handler has ===.
strokeWidthLoose(d) ==
    CASE ToNumber(d.value) = Num(0)                 -> Num(0)
      [] ~Truthy(d.value) \/ LessThan(d.value, 0)   -> Num(1)
      [] OTHER                                      -> Sqrt(d.value)

\* The stroke-width the tick handler gives the path of link d.
strokeWidth(d) ==
    CASE d.value \in {Num(0), Str("0")}             -> Num(0)
      [] ~Truthy(d.value) \/ LessThan(d.value, 0)   -> Num(1)
      [] OTHER                                      -> Sqrt(d.value)

\* A timer that goes on whatever alpha is.
TickForever ==
    /\ running
    /\ nodes' \in Moved
    /\ alpha' \in AlphaAfterTick(alpha, alphaTarget)
    /\ UNCHANGED <<links, running, alphaTarget, gestures, dom>>

\* One tick; the timer stops after the tick that takes alpha below alphaMin.
Tick ==
    /\ running
    /\ nodes' \in Moved
    /\ alpha' \in AlphaAfterTick(alpha, alphaTarget)
    /\ running' = (alpha' = "warm")
    /\ UNCHANGED <<links, alphaTarget, gestures, dom>>

-----------------------------------------------------------------------------
(***************************************************************************)
(* Dragging.  The handlers belong to the circle of a node element and are  *)
(* called with the node object the circle was made for.                    *)
(***************************************************************************)
\* d.fx = fx, on the object d, if graphData still holds it; fx gives the
\* value for every stored node.
Pin(d, fx) ==
    [i \in DOMAIN nodes |->
        IF SameObject(nodes[i], d) THEN [nodes[i] EXCEPT !.fx = fx[i]]
        ELSE nodes[i]]

\* d3.event.active: the gestures of the behaviour drag among the touches.
\* Each d3.drag() counts its own, and the handlers see the count without the
\* touch of the event: dragstarted before it is added, dragended after it
\* is removed.  Every touch has a gesture, also a second one on a circle.
Active(drag, touches) ==
    BagCardinality(Restrict(touches, {s \in BagToSet(touches) : s.drag = drag}))

\* A variant that sets the target without restarting the timer.
WakeNoRestart(d) ==
    /\ alphaTarget' = IF Active(d.drag, gestures) = 0 THEN DragTarget ELSE alphaTarget
    /\ UNCHANGED running

Wake(d) ==
    /\ alphaTarget' = IF Active(d.drag, gestures) = 0 THEN DragTarget ELSE alphaTarget
    /\ running' = (Active(d.drag, gestures) = 0 \/ running)

\* A variant that never lets the simulation cool.
SnoozeNever(d) == UNCHANGED alphaTarget

Snooze(d) == alphaTarget' = IF Active(d.drag, gestures') = 0 THEN RestTarget ELSE alphaTarget

dragstarted(d) ==
    /\ d \in circles
    /\ BagCardinality(gestures) < MaxTouches
    /\ gestures' = BagAdd(gestures, d)
    /\ Wake(d)
    /\ nodes' = Pin(d, [i \in DOMAIN nodes |-> nodes[i].x])
    /\ UNCHANGED <<links, alpha, dom>>

dragged(d, p) ==
    /\ BagIn(d, gestures)
    /\ nodes' = Pin(d, [i \in DOMAIN nodes |-> p])
    /\ UNCHANGED <<links, sim, gestures, dom>>

\* A variant that frees the node only with the behaviour's last gesture.
dragendedLastOnly(d) ==
    /\ BagIn(d, gestures)
    /\ gestures' = BagRemove(gestures, d)
    /\ Snooze(d)
    /\ nodes' = IF Active(d.drag, gestures') = 0
                THEN Pin(d, [i \in DOMAIN nodes |-> Absent]) ELSE nodes
    /\ UNCHANGED <<links, running, alpha, dom>>

dragended(d) ==
    /\ BagIn(d, gestures)
    /\ gestures' = BagRemove(gestures, d)
    /\ Snooze(d)
    /\ nodes' = Pin(d, [i \in DOMAIN nodes |-> Absent])
    /\ UNCHANGED <<links, running, alpha, dom>>

-----------------------------------------------------------------------------
\* The object as the constructor leaves it: no data, one sync made, the
\* simulation new and running.
Init ==
    /\ nodes = << >>
    /\ links = << >>
    /\ running = TRUE
    /\ alpha = AlphaStart
    /\ alphaTarget = SyncTarget
    /\ gestures = EmptyBag
    /\ circles = {}
    /\ paths = {}
    /\ dataNodes = {}
    /\ dataLinks = {}

Next ==
    \/ \E g \in Snapshots : AddData(g) \/ AddDataAborted(g)
    \/ Tick
    \/ \E d \in circles : dragstarted(d)
    \/ \E d \in BagToSet(gestures), p \in Coords : dragged(d, p)
    \/ \E d \in BagToSet(gestures) : dragended(d)

Spec == Init /\ [][Next]_vars

\* d3's timer calls the tick for as long as it runs, and an alpha whose
\* target is below alphaMin gets below alphaMin itself after some ticks: it
\* loses a fixed share of its distance to the target with every tick.
\* Nothing is assumed of snapshots and of the user.
Cools == Tick /\ alpha' = "cold"

FairSpec == Spec /\ WF_vars(Tick) /\ WF_vars(Cools)

-----------------------------------------------------------------------------
(***************************************************************************)
(* Properties.  They hold while the snapshots are consistent (every id     *)
(* once, every link between two nodes of its snapshot).                    *)
(***************************************************************************)

\* Every end of every link in graphData is the very node object that
\* graphData.nodes holds under that id: addData removes a link together
\* with the node it ends at, and sync binds the ends of a new link before
\* anything reads them (the tick handler reads d.source.x, getIdForLink
\* reads d.source.id).
LinksBound ==
    \A i \in DOMAIN links : \A e \in {links[i].source, links[i].target} :
        /\ e.form = "ref"
        /\ \E j \in DOMAIN nodes : SameObject(nodes[j], e)

\* A link of graphData is found under the name it has in a snapshot:
\* getIdForLink gives a bound link the name it gave the same link when its
\* ends were still strings, so that addData, which compares the names of
\* the stored links with those of the snapshot's, takes a link that is
\* still there as kept and neither removes nor adds it.
Unbound(l) == [l EXCEPT !.source = Raw(@.id), !.target = Raw(@.id)]

LinkKeyStable ==
    \A i \in DOMAIN links : hasLink(links, Unbound(links[i]))

\* The document shows graphData and nothing else: no id is twice in
\* graphData.nodes, every node has one element, made for this object, every
\* element is some node's, and the paths are the links.  This is what
\* addData's three-way split and the enter/exit of sync together maintain.
ElementsMatchStore ==
    /\ \A i, j \in DOMAIN nodes : nodes[i].id = nodes[j].id => i = j
    /\ {Ref(c) : c \in circles} = {Ref(nodes[i]) : i \in DOMAIN nodes}
    /\ \A c, e \in circles : SameObject(c, e) => c = e
    /\ paths = Keys(links)

\* A sync that ends well clears away what syncs that threw have left in
\* the document: the elements of nodes that went while no join was made are
\* removed by exit(), every stored node has an element and every link a
\* path, under the names graphData has now.
SyncRepairsNames ==
    ~Throws(links, nodes) => CircleKeys = Ids(nodes) /\ paths = Keys(links)

\* A sync that ends well leaves every circle with the node object graphData
\* holds under its id, also when syncs before it threw: the drag handlers
\* pin, and the tick handler sizes and colours, the datum the circle was
\* given when it was appended, and the join of a later sync gives a new
\* datum to the g element only.
SyncRepairsElements ==
    ~Throws(links, nodes) => ElementsMatchStore

\* A pin never outlives its gestures: whatever touches began and ended on
\* whichever circles, of one drag behaviour or of several, and whatever
\* addData removed, replaced or updated in between, a stored node with an
\* fx is held by a touch.  dragended clears fx on the object its gesture
\* began with, which must still be the one that carries the pin.
PinsAreHeld ==
    \A i \in DOMAIN nodes :
        nodes[i].fx # Absent => \E d \in BagToSet(gestures) : SameObject(d, nodes[i])

\* With one pointer a node is pinned exactly while it is dragged:
\* dragstarted and dragged set fx, dragended clears it, and no addData in
\* between loses the pin of a surviving node or leaves one on a node nobody
\* holds.  (With two touches on one circle the end of the first clears the
\* pin under the second: dragended sets d.fx = null whatever else holds d.)
PinnedIffDragged ==
    \A i \in DOMAIN nodes :
        nodes[i].fx # Absent <=> \E d \in BagToSet(gestures) : SameObject(d, nodes[i])

\* The simulation's timer stops for one reason only: alpha has cooled below
\* alphaMin after the last drag set the target to 0.  sync stops the timer
\* first and restarts it last; everything in between must get there.
RunsUnlessCooled ==
    running \/ (alphaTarget = RestTarget /\ alpha = "cold")

\* An addData(g) that ends well makes the display the snapshot g, keeps
\* every surviving node where it is and seeds every new node as GraphView
\* says; ticks and drags move nodes and change nothing else.  The display
\* is read off graphData the way sync and the tick handler read it: a node
\* by its id, a link by its id or its two ends.
Shown ==
    [id \in Ids(nodes) |->
        [attr |-> nodes[NodeAt(nodes, id)].attr, x |-> nodes[NodeAt(nodes, id)].x]]

NameOf(l) == IF l.lid # NoId THEN <<l.lid>> ELSE <<l.source.id, l.target.id>>

Edges ==
    [k \in {NameOf(links[i]) : i \in DOMAIN links} |->
        links[SelectLastInSeq(links, LAMBDA l : NameOf(l) = k)].value]

View == INSTANCE GraphView WITH shown <- Shown, edges <- Edges

ImplementsGraphView == View!Spec

\* A new node that names in `inherit` a node graphData held when the
\* snapshot came starts exactly where that node was.
InheritsFromPrior ==
    [][\A g \in Snapshots : AddData(g) =>
        \A i \in DOMAIN g.nodes :
            (g.nodes[i].id \notin Ids(nodes) /\ g.nodes[i].inherit \in Ids(nodes))
                => nodes'[NodeAt(nodes', g.nodes[i].id)].x
                       = nodes[NodeAt(nodes, g.nodes[i].inherit)].x]_vars

\* While a node is dragged the simulation runs and is kept warm, so that
\* the node follows the pointer and its neighbours follow the node:
\* dragstarted wakes the simulation and only the end of the last drag lets
\* it cool, whatever snapshots sync has taken in meanwhile.  The one
\* exception is a sync that threw: until a later sync ends well graphData
\* holds a link d3 cannot bind, and the timer is stopped.
DragKeepsWarm ==
    gestures # EmptyBag /\ ~Throws(links, nodes) => running /\ alphaTarget >= AlphaMin

\* The user and the server: every step that is not the timer's.
Input ==
    \/ \E g \in Snapshots : AddData(g) \/ AddDataAborted(g)
    \/ \E d \in circles : dragstarted(d)
    \/ \E d \in BagToSet(gestures) : dragended(d) \/ \E p \in Coords : dragged(d, p)

\* Left alone, the simulation settles: the timer ticks until alpha has
\* decayed below alphaMin and then stops, whatever sync or a drag did to
\* alpha and its target before.
Settles == []<><<Input>>_vars \/ <>[]~running

\* Once nobody drags, the display comes to rest or a snapshot has taken
\* over: the dragended of the last touch must have taken back the target
\* dragstarted set, through syncs that ended well or threw in between, or
\* the timer would go on for ever at the drag's target with no one dragging.
RestsWhenReleased ==
    (gestures = EmptyBag)
        ~> (~running \/ alphaTarget = SyncTarget \/ gestures # EmptyBag)


\* After addData(g) graphData holds the nodes of g, one object for each:
\* whatever earlier snapshots were, and however often one of them listed
\* an id, a snapshot that lists every id once is mirrored.
MirrorsSnapshot ==
    [][\A g \in Snapshots :
          AddData(g) /\ Len(g.nodes) = Cardinality(Ids(g.nodes))
              => Len(nodes') = Len(g.nodes)]_vars

\* The tick handler draws every stored link as wide as GraphView says,
\* whatever value the server gives it that is absent or reads as a number,
\* be it a number or a string: zero is tested before falsity, and the
\* negative before the root is taken.
\* (Of a word the handler takes the root, which is NaN.)
DrawsByRule ==
    \A i \in DOMAIN links, v \in LinkValues :
        (v = Undefined \/ ToNumber(v) # NaN)
            => strokeWidth([links[i] EXCEPT !.value = v]) = View!Weight(v)

=============================================================================
