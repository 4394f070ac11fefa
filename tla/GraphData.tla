----------------------------- MODULE GraphData -----------------------------
(***************************************************************************)
(* The data both graph classes (ForceGraph in monitoring/static/monitor.js *)
(* and BubbleForceGraph in swarmeye/.../BubbleForceGraph.js) keep in       *)
(* this.graphData, the snapshots the server sends, and the helpers the two *)
(* classes share word for word: getIdForLink, hasNode, hasLink and the     *)
(* reduce(...) idiom that indexes a sequence by name, last one winning.    *)
(*                                                                         *)
(* Data abstraction.  A node object is a record: its id, a number oid that *)
(* tells it from the other objects that have or had the same id (the pair  *)
(* is the JavaScript identity of the object), one field `attr` for all the *)
(* attributes addData copies from a snapshot, one coordinate x (the code   *)
(* treats y by the same statement on the next line), and the drag pin fx.  *)
(* A link end is either the raw string a snapshot carries or a reference   *)
(* to a node object, as d3's link force leaves it.  Identifiers are        *)
(* strings, because a link's name is put together from them.               *)
(***************************************************************************)
EXTENDS Integers, Sequences, FiniteSets, SequencesExt, JsValue

CONSTANTS
    NodeIds,      \* identifiers a snapshot may give a node or name in a link
    LinkIds,      \* explicit identifiers a snapshot may give a link (`id`)
    Attrs,        \* values of the copied node attributes (group, status, ...)
    Values,       \* values of the copied link attributes (value, distance)
    Coords,       \* coordinates
    Central,      \* the coordinates Math.random() seeds a new node with
    MaxObjects    \* bound: node objects of one id that are referenced at a time

Absent == -1      \* undefined or null in a numeric field (ix, fx)
NoId   == ""      \* undefined in a name field (id of a link, inherit); falsy

ASSUME /\ NoId \notin NodeIds \cup LinkIds
       /\ Central \subseteq Coords /\ Coords \subseteq Nat
       /\ MaxObjects \in Nat

Oids == 1..MaxObjects

(***************************************************************************)
(* Link ends.  typeof end == "string" is form = "raw".                     *)
(***************************************************************************)
Raw(id) == [form |-> "raw", id |-> id, oid |-> 0]
Ref(n)  == [form |-> "ref", id |-> n.id, oid |-> n.oid]

Ends == [form : {"raw"}, id : NodeIds, oid : {0}]
          \cup [form : {"ref"}, id : NodeIds, oid : Oids]

(***************************************************************************)
(* What a snapshot carries, and what graphData holds.                      *)
(***************************************************************************)
SnapNodes == [id : NodeIds, attr : Attrs, inherit : NodeIds \cup {NoId},
              ix : Coords \cup {Absent}]
SnapLinks == [lid : LinkIds \cup {NoId}, source : NodeIds, target : NodeIds,
              value : Values]

Nodes == [oid : Oids, id : NodeIds, attr : Attrs, x : Coords,
          fx : Coords \cup {Absent}]
Links == [lid : LinkIds \cup {NoId}, source : Ends, target : Ends,
          value : Values]

\* A link object as JSON.parse leaves it: both ends raw.
AsLink(sl) == [lid |-> sl.lid, source |-> Raw(sl.source),
               target |-> Raw(sl.target), value |-> sl.value]

AsLinks(sls) == [i \in DOMAIN sls |-> AsLink(sls[i])]

-----------------------------------------------------------------------------
(***************************************************************************)
(* getIdForLink(d): the explicit id if there is one; else the two ends     *)
(* joined by "-".  Only the source's type is tested: with a raw source the *)
(* target is interpolated as it is (an object prints as                    *)
(* "[object Object]"), with a resolved source the target's .id is read (a  *)
(* raw string has none and prints as "undefined").                         *)
(***************************************************************************)
EndText(e) == IF e.form = "raw" THEN e.id ELSE "[object Object]"
EndId(e)   == IF e.form = "ref" THEN e.id ELSE "undefined"

\* A variant that reads .id of both ends whatever their form.
getIdForLinkAlwaysId(d) ==
    IF d.lid # NoId THEN d.lid
    ELSE EndId(d.source) \o "-" \o EndId(d.target)

getIdForLink(d) ==
    CASE d.lid # NoId            -> d.lid
      [] d.source.form = "raw"   -> d.source.id \o "-" \o EndText(d.target)
      [] OTHER                   -> d.source.id \o "-" \o EndId(d.target)

Ids(ns)  == {ns[i].id : i \in DOMAIN ns}
Keys(ls) == {getIdForLink(ls[i]) : i \in DOMAIN ls}

(***************************************************************************)
(* seq.reduce((res, e) => { res[name(e)] = e; return res; }, {}): the      *)
(* index of a sequence by name.  A later element overwrites an earlier one *)
(* of the same name.  The model keeps the position of the winner.          *)
(***************************************************************************)
NodeAt(ns, id)  == SelectLastInSeq(ns, LAMBDA n : n.id = id)
LinkAt(ls, key) == SelectLastInSeq(ls, LAMBDA l : getIdForLink(l) = key)

NodesByName(ns) == [id \in Ids(ns) |-> ns[NodeAt(ns, id)]]
LinksByName(ls) == [k \in Keys(ls) |-> ls[LinkAt(ls, k)]]

(***************************************************************************)
(* hasNode(node), hasLink(link): Array.find by name; the model keeps the   *)
(* truth of the result.                                                    *)
(***************************************************************************)
SameObject(m, n) == m.id = n.id /\ m.oid = n.oid

hasNode(ns, node) == \E i \in DOMAIN ns : node.id = ns[i].id
hasLink(ls, link) ==
    \E i \in DOMAIN ls : getIdForLink(ls[i]) = getIdForLink(link)

=============================================================================
