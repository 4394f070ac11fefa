------------------------------- MODULE Poller -------------------------------
(***************************************************************************)
(* The controllers of the pages.  Each page is an Angular application of   *)
(* its own with one controller, and all five are the same machine:         *)
(* $interval calls load() at a fixed rate, load() sends one $http.get per  *)
(* address and does not wait, and whenever an answer comes the handler of  *)
(* its address keeps the data and shows it.  They differ in what the       *)
(* records below say: the addresses polled, what shows the data, and       *)
(* whether polling waits for a library to load.                            *)
(*                                                                         *)
(* The server and the network are the environment: the server's data       *)
(* changes at any time, a request is answered with what the server has     *)
(* when it gets to it, answers come back in any order, a request may       *)
(* fail, an answer may lack the list of nodes.  A graph object is the one  *)
(* of GraphView: what it shows is the last snapshot addData has taken.     *)
(***************************************************************************)
EXTENDS Integers, FiniteSets, Sequences, Bags

CONSTANTS
    Pages,         \* the pages that may be open, of the five below
    Data,          \* what a server may answer with: records, with `nodes`
                   \* or without
    MaxInFlight,   \* bound: requests that wait for their answer at a time
    MaxFailures    \* bound: requests that fail

VARIABLES
    page,          \* the page that is open
    ready,         \* init() has made its first load() and set the interval
    server,        \* server[f]: what the server has at address f now
    inflight,      \* the requests sent and not yet back, a bag
    fetchedData,   \* $scope.fetchedData (fetchedDataBlobs, fetchedDataNetwork)
    g,             \* $scope.g (g_blobs, g_network): null or a graph object
    chart,         \* what the OrgChart in the element chart_here has drawn
    failures       \* the number of requests that have failed

vars == <<page, ready, server, inflight, fetchedData, g, chart, failures>>

-----------------------------------------------------------------------------
(***************************************************************************)
(* The five pages.  `makes` is the class whose object the handler of an    *)
(* address makes at the first answer; the chain view of swarmeye makes     *)
(* none, draws an OrgChart, and starts polling from the callback google    *)
(* charts calls when the library has loaded.                               *)
(***************************************************************************)
OrgChart == "OrgChart"

bothApp ==
    [name |-> "both", deferred |-> FALSE,
     makes |-> [consensus |-> "BubbleForceGraph", network |-> "ForceGraph"]]

monitorApp ==
    [name |-> "monitor", deferred |-> FALSE, makes |-> [network |-> "ForceGraph"]]

blobsApp ==
    [name |-> "blobs", deferred |-> FALSE, makes |-> [consensus |-> "BubbleForceGraph"]]

chainMonitor ==
    [name |-> "chain", deferred |-> FALSE, makes |-> [chain |-> "ForceGraph"]]

chainApp ==
    [name |-> "blockchain", deferred |-> TRUE, makes |-> [chain |-> OrgChart]]

Feeds(p)  == DOMAIN p.makes
AllFeeds  == UNION {Feeds(p) : p \in Pages}
Classes   == {"BubbleForceGraph", "ForceGraph"}

Null   == [null |-> TRUE]    \* $scope.g before the first answer
Empty  == << >>              \* the empty array fetchedData starts as
Unread == [unread |-> TRUE]  \* the answer of a request the server has not
                             \* got to yet

\* An answer every handler can read: inp.nodes and g.nodes are arrays.
Readable == {d \in Data : "nodes" \in DOMAIN d}

\* $scope.dataToTable(inp): three columns, and a row for every node.
dataToTable(inp) ==
    [columns |-> <<"Name", "Manager", "ToolTip">>,
     rows    |-> [i \in DOMAIN inp.nodes |->
                    <<inp.nodes[i].name, inp.nodes[i].manager, inp.nodes[i].tooltip>>]]

Requests == [feed : AllFeeds, data : Data \cup {Unread}]
Graphs   == [class : Classes, shown : Readable \cup {Empty}]
Tables   == {dataToTable(d) : d \in Readable}

ASSUME /\ Pages \subseteq {bothApp, monitorApp, blobsApp, chainMonitor, chainApp}
       /\ \A d \in Data : d = [f \in DOMAIN d |-> d[f]]
       /\ MaxInFlight \in Nat /\ \A p \in Pages : MaxInFlight >= Cardinality(Feeds(p))
       /\ MaxFailures \in Nat

TypeOK ==
    /\ page \in Pages
    /\ ready \in BOOLEAN
    /\ server \in [Feeds(page) -> Data]
    /\ IsABag(inflight) /\ DOMAIN inflight \subseteq Requests
    /\ BagCardinality(inflight) <= MaxInFlight
    /\ fetchedData \in [Feeds(page) -> Data \cup {Empty}]
    /\ g \in [Feeds(page) -> Graphs \cup {Null}]
    /\ chart \in Tables \cup {Empty}
    /\ failures \in 0..MaxFailures

-----------------------------------------------------------------------------
\* The body of load(): one $http.get per address.
Gets == SetToBag({[feed |-> f, data |-> Unread] : f \in Feeds(page)})

\* The controller function up to its call of init().  A page that does not
\* wait for a library makes its first load() and sets the interval there.
Init ==
    /\ page \in Pages
    /\ ready = ~page.deferred
    /\ server \in [Feeds(page) -> Data]
    /\ inflight = IF ready THEN Gets ELSE EmptyBag
    /\ fetchedData = [f \in Feeds(page) |-> Empty]
    /\ g = [f \in Feeds(page) |-> Null]
    /\ chart = Empty
    /\ failures = 0

\* $scope.ready(), the callback init() gave to google.charts: the first
\* load(), and the interval.
Ready ==
    /\ ~ready
    /\ ready' = TRUE
    /\ inflight' = inflight (+) Gets
    /\ UNCHANGED <<page, server, fetchedData, g, chart, failures>>

\* A page whose init() loads once and sets no interval.
loadOnce ==
    /\ FALSE
    /\ UNCHANGED vars

\* $scope.load(), called by $interval whether or not earlier requests have
\* come back.
load ==
    /\ ready
    /\ BagCardinality(inflight) + Cardinality(Feeds(page)) <= MaxInFlight
    /\ inflight' = inflight (+) Gets
    /\ UNCHANGED <<page, ready, server, fetchedData, g, chart, failures>>

\* if (!$scope.g) $scope.g = new ...; $scope.g.addData(data).  addData
\* throws at g.nodes.reduce, before it has changed anything, when the data
\* has no nodes.
addData(graph, class, data) ==
    [IF graph = Null THEN [class |-> class, shown |-> Empty] ELSE graph
        EXCEPT !.shown = IF data \in Readable THEN data ELSE @]

\* $scope.createGraph(el, datatable): a new OrgChart in the element, drawn.
createGraph(datatable) == datatable

\* What the handler does with the data it has kept: a graph page hands it
\* to the graph of the address, the chain view draws it.  dataToTable
\* throws at inp.nodes.forEach when the data has no nodes, and nothing is
\* drawn.
Handled(f, data) ==
    \/ /\ page.makes[f] = OrgChart /\ data \in Readable
       /\ chart' = createGraph(dataToTable(data))
       /\ UNCHANGED g
    \/ /\ page.makes[f] = OrgChart /\ data \notin Readable
       /\ UNCHANGED <<g, chart>>
    \/ /\ page.makes[f] # OrgChart
       /\ g' = [g EXCEPT ![f] = addData(@, page.makes[f], data)]
       /\ UNCHANGED chart

\* A variant that hands the data to a graph it has just made, and to no
\* other.
dataArrivedFirst(r) ==
    /\ BagIn(r, inflight) /\ r.data # Unread
    /\ inflight' = inflight (-) SetToBag({r})
    /\ fetchedData' = [fetchedData EXCEPT ![r.feed] = r.data]
    /\ IF g[r.feed] = Null THEN Handled(r.feed, r.data) ELSE UNCHANGED <<g, chart>>
    /\ UNCHANGED <<page, ready, server, failures>>

\* A variant that takes whatever has been sent for an answer.
dataArrivedUnread(r) ==
    /\ BagIn(r, inflight)
    /\ inflight' = inflight (-) SetToBag({r})
    /\ fetchedData' = [fetchedData EXCEPT ![r.feed] = r.data]
    /\ g' = [g EXCEPT ![r.feed] = addData(@, "ForceGraph", r.data)]
    /\ UNCHANGED <<page, ready, server, chart, failures>>

\* $scope.dataArrived(response) (dataArrivedBlobs, dataArrivedNetwork): the
\* then-handler of a request that has come back.
dataArrived(r) ==
    /\ BagIn(r, inflight) /\ r.data # Unread
    /\ inflight' = inflight (-) SetToBag({r})
    /\ fetchedData' = [fetchedData EXCEPT ![r.feed] = r.data]
    /\ Handled(r.feed, r.data)
    /\ UNCHANGED <<page, ready, server, failures>>

\* A request fails; $http.get(...).then(...) is given no handler for that.
Failed(r) ==
    /\ BagIn(r, inflight)
    /\ failures < MaxFailures
    /\ failures' = failures + 1
    /\ inflight' = inflight (-) SetToBag({r})
    /\ UNCHANGED <<page, ready, server, fetchedData, g, chart>>

-----------------------------------------------------------------------------
\* The environment: the server answers a request with what it has now, and
\* what it reports changes.
Answered(r) ==
    /\ BagIn(r, inflight) /\ r.data = Unread
    /\ inflight' = (inflight (-) SetToBag({r}))
                      (+) SetToBag({[r EXCEPT !.data = server[r.feed]]})
    /\ UNCHANGED <<page, ready, server, fetchedData, g, chart, failures>>

Changed(f, d) ==
    /\ d # server[f]
    /\ server' = [server EXCEPT ![f] = d]
    /\ UNCHANGED <<page, ready, inflight, fetchedData, g, chart, failures>>

Next ==
    \/ Ready
    \/ load
    \/ \E r \in Requests : dataArrived(r) \/ Failed(r) \/ Answered(r)
    \/ \E f \in Feeds(page), d \in Data : Changed(f, d)

Spec == Init /\ [][Next]_vars

\* The library loads and calls back, the interval keeps firing, the server
\* answers every request it is sent, and every answer is delivered.
\* Nothing is assumed of failures but their bound.
Fairness ==
    /\ WF_vars(Ready)
    /\ WF_vars(load)
    /\ \A r \in Requests : WF_vars(Answered(r)) /\ WF_vars(dataArrived(r))

FairSpec == Spec /\ Fairness

-----------------------------------------------------------------------------
(***************************************************************************)
(* Properties.                                                             *)
(***************************************************************************)

\* What the page shows for address f: the snapshot its graph was last
\* given, or the table the chart has drawn.
Shows(f, d) ==
    IF page.makes[f] = OrgChart THEN chart = dataToTable(d)
    ELSE g[f] # Null /\ g[f].shown = d

\* When what the server has stops changing, and can be read, the page
\* comes to show it and stays with it: answers that were on their way with
\* older data may still arrive, in any order, and answers without nodes
\* may have made the handler throw any number of times, but each later
\* load() brings what the server has, and dataArrived shows every answer
\* it can read.
EventuallyShowsServer ==
    \A p \in Pages, d \in Readable : \A f \in Feeds(p) :
        <>[](page = p /\ server[f] = d) => <>[](page = p /\ Shows(f, d))

\* What a page shows for an address is what its controller last kept as
\* fetchedData of that address, unless that has no nodes, in a graph of
\* the class the page makes for it, and a controller that has kept nothing
\* shows nothing: each handler of bothApp makes and feeds the graph of its
\* own address, whichever answer comes first and whether or not addData
\* throws on it, and the chain view never makes a graph.
ShowsFetchedData ==
    \A f \in Feeds(page) :
        IF fetchedData[f] = Empty
        THEN g[f] = Null /\ chart = Empty
        ELSE /\ fetchedData[f] \in Readable => Shows(f, fetchedData[f])
             /\ g[f] # Null => g[f].class = page.makes[f]
             /\ g[f] = Null <=> page.makes[f] = OrgChart

=============================================================================
