# TLA+ models of the swarm monitor's graph views

The repository's JavaScript (under `src/apps/swarm/`) draws a live picture of a
network: Angular controllers poll a server, and two classes, `BubbleForceGraph`
and `ForceGraph`, merge every answer into the graph they already show, hand it
to a d3 force simulation and let the user drag nodes. This directory holds TLA+
models of that code, the TLC configurations that check them, and
`PROJECT.json`, which lists runs, the source lines behind every definition,
findings and hazards.

## 1. The system

| Part | Source | State | Operations |
|---|---|---|---|
| Graph store and reconciler | `BubbleForceGraph.js` 295-399, `monitor.js` 237-309 | `graphData.nodes`, `graphData.links` (arrays mutated in place; node objects are shared with d3 and the DOM) | `addData(g)`: index the snapshot by name, split into added / removed / kept, splice removals, seed and insert additions, copy the allow-listed attributes, `sync()` |
| Link names | `getIdForLink`, `hasNode`, `hasLink` (both files) | none | name of a link: its `id`, else its ends joined by `-`; the ends are strings before d3 binds them and node objects after |
| Position seeder | `BubbleForceGraph.js` 356-367 | `x`, `y` of a new node | inherit from a surviving node, else hint, else random in the middle 40 % of the canvas |
| sync | `BubbleForceGraph.js` 160-260, `monitor.js` 132-202 | d3 simulation (timer, alpha target), SVG elements, `this.dataNodes`, `this.dataLinks` | `stop()`, rebind nodes and links, data join with enter and exit, `alphaTarget(0.01).restart()` |
| Drag handlers | `BubbleForceGraph.js` 3-27, `monitor.js` 6-30 | `fx`, `fy` of the dragged node, alpha target | `dragstarted`, `dragged`, `dragended` |
| Tick handler | `BubbleForceGraph.js` 106-156, `monitor.js` 103-127 | SVG attributes only | draw links and nodes at their positions |
| Controllers | `bothApp.js`, `monitorApp.js`, `blobsApp.js`, `chainApp.js` of `monitoring` | the graph object (made at the first answer), requests in flight | `$interval(load, 133..2000 ms)`, `$http.get(...).then(addData)` |
| Chain view | `chainApp.js` of `swarmeye` | the last answer; the chart drawn in `chart_here` | polls from the callback of `google.charts`; every answer becomes a table and a new `OrgChart` |

Everything runs on the browser's event loop: an answer from the server, a tick
of the simulation's timer and a pointer event are each one handler that runs to
its end, and they come in any order. What makes the code hard is not
parallelism but the sharing of mutable objects between three owners: the
reconciler (which matches by *name*), d3's link force (which holds *objects*
and binds a link's end once) and the DOM (whose elements hold the object they
were made for, and whose drag behaviours count their own gestures).

Behaviours that need a model checker rather than a test:

* a snapshot arriving between `dragstarted` and `dragended`, removing or
  replacing the dragged node;
* two pointers dragging at once, on two circles or on one;
* `sync` throwing half way (a link names a node that is not there);
* a link whose name stays while its ends change;
* the order of removal and seeding inside `addData`;
* long sequences of snapshots that add, remove and re-add the same ids.

What must hold (from the specification in `spec.md` and the code's own intent):
the store mirrors the last snapshot; a surviving node keeps its object, place
and pin; a new node is seeded by the rule; every link ends at stored nodes;
there is one element per stored node; the simulation runs unless it has cooled.

## 2. Modules

| Module | Models | Notes |
|---|---|---|
| `GraphData` | the records of `graphData` and of a snapshot, `getIdForLink`, `hasNode`, `hasLink`, the `reduce` index by name | shared by both graph classes |
| `D3` | what the classes rely on from d3: `forceLink`'s binding of ends and its throw, alpha and the timer, and new object identities | the library is not in the repository; marked `spec_modelled` in the map |
| `BubbleForceGraph` | the class `BubbleForceGraph`: every step of `addData` as an operator, `sync`, the timer, the three drag handlers | the core |
| `GraphView` | what a graph class promises: the display *is* the last snapshot, survivors keep their place, new nodes are seeded by rule, nodes move in between | abstract; `BubbleForceGraph` implements it under the mapping `Shown`, `Edges` |
| `ForceGraph` | the class `ForceGraph` of `monitor.js`: `addData`, `sync` with the update selections `this.dataNodes` and `this.dataLinks`, the timer, the drag handlers | implements `GraphView` with no hints and no inheritance |
| `JsValue` | the JavaScript values a link's `value` may be and the conversions the tick handlers apply to them: `ToNumber`, truthiness, `<`, `Math.sqrt`, `\|\|` | numbers, numeric strings, the empty string, a word, `undefined`, `NaN` |
| `Poller` | the five controllers, one page open at a time: `init`, `ready`, `load`, the answer handlers, `dataToTable`, `createGraph`, requests in flight | the graph object is the one of `GraphView`: it shows the last snapshot given to `addData` |
| `MCBubbleForceGraph`, `MCForceGraph`, `MCPoller` | constants and families of snapshots for TLC | |

### How the model corresponds to the code

*Data.* A node object is a record `[id, oid, attr, x, fx]`. `(id, oid)` is the
object's JavaScript identity: two objects with one id exist when a node is
removed and added again while a link, an element or a gesture still holds the
old object. `attr` stands for the six attributes `addData` copies (`group`,
`status`, `value`, `charge`, `darken`, `opacity`), `x` for `x` and `y`, `fx` for
`fx` and `fy`. A link is `[lid, source, target, value]`; an end is `Raw(id)` (a
string) or `Ref(node)` (an object). Names of links are strings built with `\o`
exactly as the template literals build them, including `"[object Object]"` and
`"undefined"` for an end of the unexpected form.

*State.* `nodes`, `links` are `graphData`; `running`, `alpha`, `alphaTarget` the
simulation (alpha target in thousandths; alpha only as `"warm"` or `"cold"`,
the side of `alphaMin` it is on); `circles` the node elements in the document,
each with the object its circle was made for and the `d3.drag()` behaviour it
was given; `paths` the names of the link elements; `dataNodes` and
`dataLinks` the update selections the last join left for the tick handler
(the ids and names that were in the document before it); `gestures` the
drags in progress, a bag with one gesture for every touch, since d3-drag
starts one for each touch and two touches can begin on one circle.

*Actions.*

| Action | Code | What it does |
|---|---|---|
| `AddData(g)` | `addData` then `sync` to its end | `Reconcile`, bind all ends, join, keep the update selections, enter and exit elements, `alphaTarget(0.01).restart()` |
| `AddDataAborted(g)` | `addData` then `sync` until `simulation.nodes()` throws | `Reconcile`, ends bound up to the faulty link, timer stopped, document untouched |
| `Tick` | d3's timer | unpinned nodes move anywhere, pinned nodes go to their pin; the timer stops when alpha falls below `alphaMin` |
| `strokeWidth(d)` | the `stroke-width` function of the tick handler | the width of link `d`, by the handler's tests in their order |
| `dragstarted(d)`, `dragged(d, p)`, `dragended(d)` | the handlers | pin, move the pin, unpin; wake or cool the simulation when `d3.event.active` is 0 |

`Init` is the object as the constructor leaves it.

### ForceGraph

`ForceGraph` is the same state machine with the differences `monitor.js` has:
new nodes are pushed at the end and get their place from d3 (`Places`), only
`group` and `status` are copied (`Copied`), and the joined element is the
circle itself, so that a circle that stays is bound to the object the store
holds now (`Bound`), where `BubbleForceGraph` drags the object the circle was
made for. `dataNodes` and `dataLinks` are, as in `BubbleForceGraph`, the
selections `sync` keeps for the tick handler. `selection.data()` returns the
update selection, the elements that were in the document before the join;
what `enter()` appends is not in it.

`sync` also paints: it sets the `fill` of the circles that enter and then of
the circles that stay, each through `colourForGroupAndStatus`. The colour
comes from a `d3.scaleOrdinal` over the ten colours of `schemeCategory10`
(`Palette`), which gives a key it has not met the next colour and remembers
it. So the scale is state: `color` is the sequence of groups it has met,
`highestGroupSeenSoFar` the counter the class keeps to show the scale every
smaller group number first, and `fill[c]` the place in the palette of the
colour circle `c` was last given. `Painted` is the scale after the calls of
one sync, in their order; the status of a node only brightens the colour and
is left out.

### Poller

The five pages are records (`bothApp`, `monitorApp`, `blobsApp`,
`chainMonitor`, `chainApp`) that say what the controllers differ in: the
addresses polled, the class of the object the handler of an address makes, and
whether polling waits for a library. One page is open in a behaviour (`page`
is chosen in `Init` and never changes).

| Model | Code |
|---|---|
| `server[f]` | what the server of address `f` would answer with now (environment) |
| `inflight` | the `$http.get` promises not yet settled, a bag of `[feed, data]`; `data` is `Unread` until the server has answered |
| `fetchedData[f]`, `g[f]` | `$scope.fetchedData`, `$scope.g` (`fetchedDataBlobs`, `g_blobs`, ... in `bothApp`) |
| `chart` | the table the `OrgChart` in the element `chart_here` has drawn |
| `ready` | `init()` has made its first `load()` and set the interval |
| `Init` | the controller's initial state and `init()`: the first `load()`, or, in the chain view, the request for the charts library |
| `Ready` | `$scope.ready`, the callback of `google.charts`: the first `load()` and the interval |
| `load` | `load()` as `$interval` calls it: one request per address, no waiting |
| `dataArrived(r)` | the `then` handler: keep `response.data`; a graph page makes the graph if there is none and calls `addData`, the chain view calls `dataToTable` and `createGraph` |
| `Readable` | the answers that have `nodes`; on any other `addData` throws at `g.nodes.reduce` and `dataToTable` at `inp.nodes.forEach`, after the answer was kept and the graph made, and the display stays as it was |
| `Failed(r)` | a request that fails: `then` has no second handler, nothing happens |
| `Answered(r)`, `Changed(f, d)` | the server answers a request; what it reports changes |

## 3. Runs

The `bubble_` runs are of `MCBubbleForceGraph`, the `force_` runs of
`MCForceGraph`, both with node ids `a`, `b`; `poller_pages` is of `MCPoller`.

| Run | Snapshots | Pointers | Checks | Result |
|---|---|---|---|---|
| `bubble_store` | `WellFormed`: every consistent snapshot built from four node forms (one per seeding case) and three link lists | 0 | `LinksBound`, `LinkKeyStable`, `DrawsByRule`, `ImplementsGraphView` | holds |
| `bubble_drag` | `Few`: empty; `a`; `b, a` with a link | 2 | `TypeOK`, `PinsAreHeld`, `RunsUnlessCooled`, `ElementsMatchStore` | holds |
| `bubble_dangling` | `WithDangling`: empty, `b, a` with a link, and three snapshots of `a` alone with a link to a missing node (target missing; a good link first; source missing, under a name the store has not); fair timer | 1 | `PinnedIffDragged`, `DragKeepsWarm`, `SyncRepairsNames`, `ImplementsGraphView`, `RestsWhenReleased` | holds |
| `force_monitor` | `Monitored`: empty, `a, b` with a link and the groups 11 and 1, and two snapshots with a link to a missing node | 1 | `TypeOK`, `PinnedIffDragged`, `SyncRepairsElements`, `DrawsByRule`, `ColourByGroup`, `ImplementsGraphView` | holds |
| `poller_pages` | each of the five pages; a chain of one block, of two, and an answer without nodes; 4 requests in flight, 1 failure | - | `TypeOK`, `ShowsFetchedData`, `EventuallyShowsServer` | holds |
| `bubble_multitouch` | `Few` | 2 | `DragKeepsWarm` | violated |
| `bubble_freeze` | `WithDangling` | 1 | `RunsUnlessCooled` | violated |
| `bubble_inherit` | `WellFormed` | 0 | `InheritsFromPrior` | violated |
| `bubble_twice` | `Doubled`: empty; `a` listed twice; `a` once | 0 | `MirrorsSnapshot` | violated |
| `bubble_ghost` | `Retargeted`: a link with its own id, first `a`-`b`, then `a`-`a` with `b` gone | 0 | `LinksBound` | violated |
| `bubble_stale` | `WithDangling` | 1 | `SyncRepairsElements` | violated |
| `force_undrawn` | `Monitored` | 0 | `AllDrawn` | violated |

What the passing runs show:

* **`ImplementsGraphView`** (refinement). Every behaviour of the class is a
  behaviour of `GraphView`: after any `addData` the display is the snapshot,
  survivors have not moved, new nodes are where the seeding rule puts them,
  and ticks and drags change positions only. It also holds when `sync` throws
  (`bubble_dangling`): `graphData` is reconciled before anything can fail.
* **`LinksBound`**, **`LinkKeyStable`**. With consistent snapshots and links
  named by their ends every stored link ends at the stored node objects, and
  keeps the name it had as raw strings.
* **`PinnedIffDragged`** (one pointer). A pin never outlives its drag and
  never gets lost in a reconciliation, also when the dragged node is removed
  and added again under the pointer.
  **`PinsAreHeld`** (two pointers) is the half of it that holds with several
  touches: no stored node keeps a pin that no touch holds, in whatever order
  touches on one circle, on circles of one drag behaviour or of several
  begin and end.
* **`ElementsMatchStore`**. One element per stored node, made for that very
  object, through any sequence of snapshots and drags.
* **`RunsUnlessCooled`**, **`DragKeepsWarm`**. With consistent snapshots the
  timer only stops by cooling after a drag; with one pointer a drag has a
  running, warm simulation, whatever snapshots arrive meanwhile. The one
  exception is named in the property: a sync that threw has stopped the timer,
  and until a sync ends well a drag that was in progress goes on frozen.
* **`RestsWhenReleased`** (liveness). Once nobody drags, the timer stops
  unless a snapshot has set its own target or a new drag begins. It needs
  both the fairness of d3's timer and the `alphaTarget(0)` of `dragended`: a
  handler that forgot it would leave the timer running at the drag's target
  with no one dragging.
* **`SyncRepairsElements`**. In `ForceGraph`, whatever circles earlier syncs
  that threw have left in the document, a sync that ends well leaves one
  circle per stored node, bound to the stored object.
  **`SyncRepairsNames`** is what holds of `BubbleForceGraph`: after a sync
  that ends well the document has one element for every stored id and none
  for any other, and one path per stored link. That the circle in the element
  also has the stored object for its datum does not hold (`bubble_stale`).
* **`ColourByGroup`**. In `ForceGraph` a circle has the colour at the place of
  its node's group in the palette, whichever groups came first, also when a
  sync paints a new circle of a higher group before it repaints a circle that
  stays, and when a node changes its group. It holds because the loop of
  `colourForGroupAndStatus` shows the scale every smaller group first. The
  groups of the model are 1 and 11: they are ten apart and share a colour of
  the palette, and the snapshot that has both lists 11 first, so the scale
  meets eleven groups in one sync and wraps.
* **`DrawsByRule`**. The width a tick handler gives a stored link is the
  width of the specification's rule (`GraphView!Weight`: 0 for zero, 1 for an
  absent, non-numeric or negative value, the square root otherwise), for
  every value of `LinkValues` put in the link's place, with two exceptions
  that the properties name and that are differences between code and
  specification: `BubbleForceGraph` gives a word (`"abc"`) the width `NaN`,
  because a word is truthy and not less than 0; `ForceGraph` gives 0 and `"0"`
  the width 1, because `Math.sqrt(0) || 1.0` takes the default for a root of
  0.
* **`EventuallyShowsServer`** (liveness). With answers in any order, a
  request failing, and answers without nodes on which the handler throws,
  every page comes to show what its server has settled on, if that can be
  read, and stays with it; the chain view does so although it starts polling only
  when the charts library has called back. **`ShowsFetchedData`**: what a page
  shows for an address is what its controller last kept for it, unless that
  has no nodes (then it is what the last readable answer made it); each of the
  two handlers of `bothApp` makes and feeds the graph of its own address, of
  its own class, and the chain view makes no graph.

What the violations show is in `PROJECT.json` under `findings`: a link to a
missing node freezes the display (`bubble_freeze`); the end of one of two
simultaneous drags lets the simulation cool under the other (`bubble_multitouch`);
a node replaced in one snapshot does not hand its position to its successor
(`bubble_inherit`); a snapshot that lists an id twice leaves a second node of
that id in the store, which a later clean snapshot does not remove
(`bubble_twice`); a link with its own id can end at a removed node
(`bubble_ghost`); after a sync that threw while a node went and a sync that
ended well with the node back, the node's circle has the old object for its
datum, so that dragging it moves nothing (`bubble_stale`); what a sync appends
is not drawn by the tick handler until the next sync (`force_undrawn`).

Three findings have no run of their own. With two touches on one circle the
end of the first clears the pin under the second: `PinnedIffDragged` holds
with one pointer and is violated with two, under `bubble_twotouch.cfg`
(`tlc -config bubble_twotouch.cfg MCBubbleForceGraph`), which is why
`bubble_drag` checks `PinsAreHeld`. The simulation never settles by itself,
because `sync` leaves the alpha target above `alphaMin`: the property is
`Settles` of `BubbleForceGraph`, and `bubble_settle.cfg` is the configuration
under which TLC finds it violated (`tlc -config bubble_settle.cfg
MCBubbleForceGraph`). An answer without nodes leaves the display as it was,
where the specification would clear it: `poller_pages` has such answers, and
`ShowsFetchedData` says what the code does.

Every property of a passing run has a mutant in `PROJECT.json`: a plausible
wrong version of one mapped definition under which TLC finds the property
violated in the same configuration.

## 4. Bounds

| Bound | Value | Why it is enough |
|---|---|---|
| node ids | `a`, `b` | two ids give every relation the code distinguishes: a node alone, a link between two, one inheriting from the other, one removed while the other stays |
| `Attrs`, `Values` | `{1, 2}`; `Attrs = {1, 11}` for `ForceGraph` | an update is visible as a change from one value to the other; as groups of `ForceGraph`, 11 comes before 1, which is when the order the scale meets them in matters, and 11 is the least group past the ten colours of the palette |
| `Coords` | `{0, 1, 2}` with `Central = {1}` (`{1, 2}` in the runs about dragging) | 0 is the falsy hint and a position outside the seeding region, 1 the region random seeds come from, 2 a hint that is neither |
| `MaxTouches` | 0, 1 or 2 | 2 is the least number that makes `d3.event.active` non-zero and that puts two touches on one circle |
| `MaxObjects` | 2 or 3 | objects of one id referenced at once: the stored one and one per gesture that still holds a removed one |
| `MaxDrags` | 3 to 5 | drag behaviours referenced at once: one per element, one per gesture on a removed element, one new |
| `LinkValues` | `undefined`, -1, 0, 1, 4, 9, `"-1"`, `"0"`, `"4"`, `""`, `"abc"` | one value for every path through the handlers' tests: zero as a number and as a string, the falsy values, negative numbers and strings, squares (so that a root is an integer), a word |
| `Pages` | all five | every controller of the repository |
| `Data` | a chain of one block, of two, and an answer without `nodes` | a server's data changes, an old answer differs from a new one, `dataToTable` has rows to build, and a handler throws |
| `MaxInFlight` | 4 | two rounds of `load()` wait at once, so an answer of the first round can arrive after one of the second |
| `MaxFailures` | 1 | a request is lost and only a later poll makes up for it; failures are bounded because a network that fails for ever shows nothing. An answer without nodes is a second way to lose a poll, and is not bounded |

The position a tick gives a node is unconstrained, so the properties hold for
any forces. The sets of snapshots are small on purpose: one call of `addData`
is expensive for TLC to evaluate, and the runs are split by question (store,
drag, failure) rather than joined in one large model.

## 5. Fairness

Safety properties are checked with no fairness. The liveness properties use:

* `BubbleForceGraph!FairSpec`: `WF_vars(Tick)`, because d3's timer calls the
  tick for as long as the simulation runs, and `WF_vars(Cools)`, because
  with a target below `alphaMin` alpha loses a fixed share of its distance to
  the target at every tick and gets below `alphaMin` after finitely many.
  Snapshots and drags are not fair: the server and the user owe nothing.
* `Poller!FairSpec`: `WF_vars(Ready)`, because the charts library calls the
  callback it was given once it has loaded (a library that never loads leaves
  the chain view empty, which the model does not consider);
  `WF_vars(load)` for `$interval`, and for every request
  `WF_vars(Answered(r))` and `WF_vars(dataArrived(r))`: the server answers
  and Angular runs the handler of an answer. `Failed` and `Changed` are not
  fair, and failures are bounded by `MaxFailures`.

## 6. Not modelled

* The forces and the integrator (d3's): a tick moves nodes anywhere. What a
  tick computes from a link whose end was never bound (after a sync that
  threw, when a drag has restarted the timer) is therefore not told apart
  from any other move.
* Rendering other than the stroke width and the fill of `ForceGraph`: path
  geometry, radius, text, markers and the colour of a bubble (a linear scale
  of `group / 16`, with no memory) are functions of one datum, written at
  every tick and read by nobody. Both modules keep the selections a tick
  draws; that they leave out what the same sync appended is shown for
  `ForceGraph` (`force_undrawn`) and holds of `BubbleForceGraph` by the same
  two statements.
* A group of `ForceGraph` that is not a positive integer: an
  absent, negative or fractional group, or a word, skips the loop of
  `colourForGroupAndStatus` and takes the next free colour where it arrives.
  What the server sends as a group is outside this repository.
* `y`, `fy`, and the individual copied attributes: they are treated exactly as
  `x`, `fx` and `attr` by the same statements.
* Snapshots without `nodes` or `links` in the graph modules: `addData` throws
  at its first statement and changes nothing of the graph. `Poller` has the
  controller's side of it.
* `RemoveLastDirectoryPartOf` and the construction of the polled address: a
  string built once, when the page loads.
* How `OrgChart` lays out the table it is given (the library's).
* What a graph class does inside `addData` when called by a controller:
  `Poller` takes the graph as `GraphView` describes it. The graph modules
  accept any snapshot at any time, which covers every order in which a
  controller can call them. An answer with a link to a missing node is to
  `Poller` what an answer without nodes is, an answer on which the handler
  throws and the display stays; that the next answer that can be shown is
  shown is `SyncRepairsNames` and `SyncRepairsElements` of the graph modules.

## 7. Plan

Done: `BubbleForceGraph` with `GraphData`, `D3`, `GraphView`; `ForceGraph`;
the liveness of the simulation; the update selections of
both classes; `Poller` for all five pages, with answers the
handlers cannot read; the stroke width of both classes against the rule
(`JsValue`); snapshots that list an id twice; the colour scale of `ForceGraph`;
what a sync that ends well repairs after one that threw, in both classes.

Left:

1. `Poller` composed with a graph module in place of the abstract graph, so
   that an answer that makes `sync` throw is followed through the next polls
   in one model; the state space of a graph module times that of the poller
   is out of TLC's reach at the bounds used here.
2. The failure runs of `BubbleForceGraph` (`bubble_freeze`, `bubble_ghost`,
   `bubble_twice`) repeated for `ForceGraph`, and `AllDrawn` stated for
   `BubbleForceGraph`, whose selections are in the model.
3. The two differences in the stroke width, the hint of 0, the half-bound
   link named `a-undefined` and the pin cleared under a second touch as
   properties of their own with a run each, stated as the specification
   words them.
