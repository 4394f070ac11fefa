--------------------------------- MODULE D3 ---------------------------------
(***************************************************************************)
(* What the two graph classes rely on from the d3 library (d3-force,       *)
(* d3-selection, d3-drag, version 4).  The library is not part of the      *)
(* repository; these definitions state the documented behaviour of the     *)
(* calls the classes make, as far as it decides what the classes' own      *)
(* state becomes:                                                          *)
(*                                                                         *)
(*   - forceLink resolves the raw ends of every link against the current   *)
(*     nodes, in order, each time the simulation is given its nodes, and   *)
(*     throws ("missing: <id>") at the first end it cannot find;           *)
(*   - a simulation's timer ticks while alpha has not fallen below         *)
(*     alphaMin, alpha moving towards alphaTarget by a fixed share of the  *)
(*     distance on every tick.                                             *)
(***************************************************************************)
EXTENDS GraphData

(***************************************************************************)
(* forceLink.initialize.  nodeById is built with d3.map, so of two nodes   *)
(* with one id the later wins.  An end that is already an object is left   *)
(* alone, whether or not that object is still among the nodes.             *)
(***************************************************************************)
Resolvable(e, ns) == e.form = "ref" \/ e.id \in Ids(ns)

Find(e, ns) == IF e.form = "ref" THEN e ELSE Ref(ns[NodeAt(ns, e.id)])

Dangling(l, ns) == ~Resolvable(l.source, ns) \/ ~Resolvable(l.target, ns)

\* The position of the link initialize throws at; 0 when it does not throw.
FirstDangling(ls, ns) == SelectInSeq(ls, LAMBDA l : Dangling(l, ns))

Throws(ls, ns) == FirstDangling(ls, ns) # 0

\* The links as initialize leaves them: all bound, or bound up to the one it
\* throws at, whose source is bound when the target was the missing end.
InitializeLinks(ls, ns) ==
    LET stop    == FirstDangling(ls, ns)
        Bind(l) == [l EXCEPT !.source = Find(@, ns), !.target = Find(@, ns)]
        Half(l) == IF Resolvable(l.source, ns)
                   THEN [l EXCEPT !.source = Find(@, ns)] ELSE l
    IN  [i \in DOMAIN ls |->
            CASE stop = 0 \/ i < stop -> Bind(ls[i])
              [] i = stop             -> Half(ls[i])
              [] OTHER                -> ls[i]]

(***************************************************************************)
(* The simulation's alpha, in thousandths, kept as the side of alphaMin it *)
(* is on: "warm" (at least alphaMin, the timer goes on) or "cold" (below   *)
(* it, the timer stops after the tick).  One tick adds to alpha the share  *)
(* alphaDecay (about 0.023) of its distance to the target.  With target 0  *)
(* alpha may cross alphaMin on this tick or on a later one, and the timer  *)
(* stops just below alphaMin.  With one of the targets the classes set,    *)
(* all ten times alphaMin or more, the first tick brings even a stopped    *)
(* simulation's alpha back above alphaMin.                                 *)
(***************************************************************************)
AlphaMin   == 1
AlphaStart == "warm"        \* a new simulation has alpha = 1
Alphas     == {"warm", "cold"}

AlphaAfterTick(alpha, target) ==
    CASE target >= AlphaMin -> {"warm"}
      [] alpha = "cold"     -> {"cold"}
      [] OTHER              -> {"warm", "cold"}

-----------------------------------------------------------------------------
(***************************************************************************)
(* Object identity.  JSON.parse makes new objects for every snapshot; the  *)
(* model gives each the least number no referenced object with its id has. *)
(* `used` are the referenced objects, `ids` the ids of the new ones.       *)
(***************************************************************************)
FreshOids(used, ids) ==
    [i \in DOMAIN ids |->
        LET free    == Oids \ {u.oid : u \in {v \in used : v.id = ids[i]}}
            earlier == Cardinality({j \in 1..(i - 1) : ids[j] = ids[i]})
        IN  CHOOSE o \in free : Cardinality({p \in free : p < o}) = earlier]

=============================================================================
