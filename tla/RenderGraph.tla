---------------------------- MODULE RenderGraph ----------------------------
(***************************************************************************)
(* The backend-neutral render graph (src/gpu/render_graph.cpp): what its   *)
(* builder calls record and what compile() makes of it - dependencies,     *)
(* culling, the order of the passes, and the slots in which transient      *)
(* resources share memory. Passes and resources count from 1; a use is its *)
(* resource alone, since the barriers follow the order and decide nothing. *)
(* A pass has its uses as sets, and whether a list of them names one twice.*)
(***************************************************************************)
EXTENDS Integers, Sequences, FiniteSets, FiniteSetsExt

CONSTANTS ResourceTypes, ResourceSizes,   \* what resources are created as
          Named                           \* the resources passes may name

VARIABLE graph                            \* what the builder has been told

EmptyGraph == [resources |-> <<>>, passes |-> <<>>, edges |-> {}]

(* The calls that build a graph; release = 0 when nothing releases it.     *)
CreateResource(g, transient, type, size) ==
  [g EXCEPT !.resources = Append(@,
     [transient |-> transient, type |-> type, size |-> size,
      release |-> 0, exported |-> FALSE])]
AddPass(g, reads, writes, repeats, side) ==
  [g EXCEPT !.passes = Append(@,
     [reads |-> reads, writes |-> writes, repeats |-> repeats, side |-> side])]
AddDependency(g, before, after) == [g EXCEPT !.edges = @ \union {<<before, after>>}]
ExportResource(g, r)            == [g EXCEPT !.resources[r].exported = TRUE]
ReleaseResource(g, r, p)        == [g EXCEPT !.resources[r].release = p]

Passes(g)    == 1..Len(g.passes)
Uses(g, p)   == g.passes[p].reads \union g.passes[p].writes
Latest(S)    == IF S = {} THEN 0 ELSE Max(S)

(* The last pass declared before p that writes r, 0 if there is none, and  *)
(* those that read what it wrote.                                          *)
LastWriter(g, r, p)   == Latest({q \in 1..p - 1 : r \in g.passes[q].writes})
ReadersSince(g, r, p) ==
  {q \in 1..p - 1 : q > LastWriter(g, r, p) /\ r \in g.passes[q].reads}

(* Mutant: a write does not wait for the readers of what it overwrites. *)
InferredWithoutReaders(g, p) == {LastWriter(g, r, p) : r \in Uses(g, p)} \ {0}

(* What pass p depends on by its uses: reads after writes and writes after *)
(* both. *)
Inferred(g, p) ==
  ({LastWriter(g, r, p) : r \in Uses(g, p)} \ {0})
    \union UNION {ReadersSince(g, r, p) : r \in g.passes[p].writes}
Before(g, p) == Inferred(g, p) \union {q \in Passes(g) : <<q, p>> \in g.edges}

(* What the first loop of compile() refuses. *)
Malformed(g) ==
  \E p \in Passes(g) :
    \/ ~ Uses(g, p) \subseteq DOMAIN g.resources \/ g.passes[p].repeats
    \/ g.passes[p].reads \intersect g.passes[p].writes # {}
    \/ \E r \in g.passes[p].reads :
         g.resources[r].transient /\ LastWriter(g, r, p) = 0

(* The passes that can be observed and, transitively, what they depend on. *)
Roots(g) ==
  {p \in Passes(g) : g.passes[p].side}
    \union ({LastWriter(g, r, Len(g.passes) + 1) :
               r \in {s \in DOMAIN g.resources : g.resources[s].exported}} \ {0})
Live(g) ==
  LET Closed(S) == Roots(g) \subseteq S /\ \A p \in S : Before(g, p) \subseteq S
  IN {p \in Passes(g) : \A S \in SUBSET Passes(g) : Closed(S) => p \in S}

(* Kahn's sort, the lowest ready pass first; shorter than live in a cycle. *)
Ready(g, live, done) ==
  {p \in live : /\ \A i \in DOMAIN done : done[i] # p
                /\ \A q \in Before(g, p) \intersect live : \E i \in DOMAIN done : done[i] = q}
Order(g) ==
  LET live == Live(g)
      sorted[n \in 0..Cardinality(live)] ==
        IF n = 0 THEN <<>>
        ELSE IF Ready(g, live, sorted[n - 1]) = {} THEN sorted[n - 1]
        ELSE Append(sorted[n - 1], Min(Ready(g, live, sorted[n - 1])))
  IN sorted[Cardinality(live)]
Cyclic(g) == Len(Order(g)) # Cardinality(Live(g))

UsedAfterRelease(g) ==
  \E p \in Live(g) : \E r \in Uses(g, p) :
    g.resources[r].release # 0 /\ p > g.resources[r].release

(* The positions in the order at which r is used. *)
Lifetime(g, order, r) == {i \in DOMAIN order : r \in Uses(g, order[i])}

(* Mutant: the next resource may come alive in the pass that ends one. *)
OverlapInside(a, b) ==
  a # {} /\ b # {} /\ ~ (Max(a) <= Min(b) \/ Max(b) <= Min(a))
Overlap(a, b) == a # {} /\ b # {} /\ ~ (Max(a) < Min(b) \/ Max(b) < Min(a))

(* First fit: a transient takes the lowest slot whose tenants it matches   *)
(* and outlives nowhere; any other resource keeps its own number.          *)
Clash(g, order, a, b) ==
  \/ g.resources[a].type # g.resources[b].type
  \/ g.resources[a].size < g.resources[b].size
  \/ Overlap(Lifetime(g, order, a), Lifetime(g, order, b))
Fitting(g, order, slot, r) ==
  {s \in 0..r - 1 : \A a \in 1..r - 1 :
     g.resources[a].transient /\ slot[a] = s => ~ Clash(g, order, a, r)}
Slots(g, order) ==
  LET slot[r \in DOMAIN g.resources] ==
        IF ~ g.resources[r].transient \/ Lifetime(g, order, r) = {} THEN r - 1
        ELSE Min(Fitting(g, order, slot, r))
  IN slot

(* compile() throws on a graph that does not compile. *)
Compiles(g) == ~ Malformed(g) /\ ~ Cyclic(g) /\ ~ UsedAfterRelease(g)

-----------------------------------------------------------------------------
(* The builder. Uses are not looked at before compile(); a call that names *)
(* a pass or a resource that is not there throws.                          *)
GraphInit == graph = EmptyGraph
BuildResource(transient, type, size) == graph' = CreateResource(graph, transient, type, size)
BuildPass(reads, writes, repeats, side) ==
  /\ repeats => reads \union writes # {}
  /\ graph' = AddPass(graph, reads, writes, repeats, side)
BuildDependency == \E p, q \in Passes(graph) : p # q /\ graph' = AddDependency(graph, p, q)
BuildExport  == \E r \in DOMAIN graph.resources : graph' = ExportResource(graph, r)
BuildRelease == \E r \in DOMAIN graph.resources, p \in Passes(graph) :
                  graph' = ReleaseResource(graph, r, p)

GraphNext ==
  \/ \E transient \in BOOLEAN, type \in ResourceTypes, size \in ResourceSizes :
       BuildResource(transient, type, size)
  \/ \E reads, writes \in SUBSET Named, repeats, side \in BOOLEAN :
       BuildPass(reads, writes, repeats, side)
  \/ BuildDependency \/ BuildExport \/ BuildRelease
GraphSpec == GraphInit /\ [][GraphNext]_graph

-----------------------------------------------------------------------------
(* Where resource r lives, and who wrote there last once the pass at       *)
(* position i of the order has run.                                        *)
Place(g, slots, r) ==
  IF g.resources[r].transient THEN <<"slot", slots[r]>> ELSE <<"own", r>>
Stores(g, order, slots, r, i) ==
  {j \in 1..i : \E w \in g.passes[order[j]].writes : Place(g, slots, w) = Place(g, slots, r)}
FoundAt(g, order, slots, r, i) ==
  LET stores == Stores(g, order, slots, r, i)
  IN IF stores = {} THEN 0 ELSE order[Max(stores)]

(* Reordering, culling and sharing memory change nothing a pass can see:   *)
(* executed in the compiled order in shared slots, every live pass reads   *)
(* what the pass declared last before it wrote, and writes over none of it *)
(* (compile, the RAW, WAR and WAW edges with the first-fit slots).         *)
ReadsWhatWasDeclared ==
  Compiles(graph) =>
    LET order == Order(graph)
        slots == Slots(graph, order)
    IN \A i \in DOMAIN order : \A r \in graph.passes[order[i]].reads :
         FoundAt(graph, order, slots, r, i) = LastWriter(graph, r, order[i])

(* An imported resource that is exported holds, at the end, what the pass  *)
(* declared last wrote to it: culling and order lose no observable result. *)
ImportsEndAsDeclared ==
  Compiles(graph) =>
    LET order == Order(graph)
    IN \A r \in DOMAIN graph.resources :
         graph.resources[r].exported /\ ~ graph.resources[r].transient =>
           FoundAt(graph, order, Slots(graph, order), r, Len(order))
             = LastWriter(graph, r, Len(graph.passes) + 1)

(* What the builder declared is what executing the compiled graph gives.   *)
ResultsAreAsDeclared == ReadsWhatWasDeclared /\ ImportsEndAsDeclared

(* docs/render_graph.md, "Exported resources ... are observable roots": a  *)
(* transient that is exported still holds it too. The code lets a later    *)
(* transient take its slot.                                                *)
ExportsEndAsDeclared ==
  Compiles(graph) =>
    LET order == Order(graph)
    IN \A r \in DOMAIN graph.resources : graph.resources[r].exported =>
         FoundAt(graph, order, Slots(graph, order), r, Len(order))
           = LastWriter(graph, r, Len(graph.passes) + 1)
=============================================================================
