----------------------------- MODULE GraphEngine -----------------------------
(***************************************************************************)
(* The portable reasoner (pkg/reasoning/engine.go): one query (cypher.go)  *)
(* returns trails through the graph, walked in either direction, shortest  *)
(* first and only so many; the engine keeps those it is confident of and   *)
(* whose effective predicate entails the one asked for, the best first and *)
(* again only so many; and the wrapper that does the same for a backend    *)
(* that only knows whether there is a path (predicate_constrained.go).     *)
(*                                                                         *)
(* A world is [edges, limit], limit being Config.Limit; an edge is         *)
(* [s, p, o, cost, deduced], a hop an edge with the ends [s, o] between    *)
(* which it is walked, a trail a sequence of hops over edges that differ.  *)
(* Costs stand for confidences: they add up where those are multiplied,    *)
(* and every further hop costs one (the decay).  Rows of one length come   *)
(* in any order, so that the answer is one of a set of possible answers.   *)
(***************************************************************************)
EXTENDS PredicateRegistry

CONSTANTS
  MaxHops,
  MaxCost,           \* MinConf
  ExcludeDeduced,
  Molecular,         \* entities no path goes through
  DisjointClasses    \* the table OntologyDisjoint: pairs of entities, as sets

-----------------------------------------------------------------------------
(* compositionCypher *)

Visible(edges) ==
  {e \in edges : {e.s, e.o} \cap Molecular = {} /\ ~(ExcludeDeduced /\ e.deduced)}

Hop(e, x) == [edge |-> e, s |-> x, o |-> IF e.s = x THEN e.o ELSE e.s]

Trails(edges, from, hops) ==
  LET end(t) == IF t = <<>> THEN from ELSE t[Len(t)].o
      onward(t) == {e \in Visible(edges) : end(t) \in {e.s, e.o} /\ \A i \in DOMAIN t : t[i].edge # e}
      trails[n \in Nat] == IF n = 0 THEN {<<>>}
                           ELSE UNION {{Append(t, Hop(e, end(t))) : e \in onward(t)} : t \in trails[n - 1]}
  IN  trails[hops]

AllTrails(edges, from) == {t \in UNION {Trails(edges, from, h) : h \in 1..MaxHops} :
                             t[Len(t)].o # from}

\* With predicates and no target the walk is directed: the transitive closure.
Ascends(trail) == \A i \in DOMAIN trail :
  trail[i].edge.s = trail[i].s /\ trail[i].edge.p \in Transitive

-----------------------------------------------------------------------------
(* Engine *)

\* What may be left of S when it is put in the order of rank and cut off: all
\* that certainly comes early enough, and as many of those tied at the cut as fit.
Cut(S, size, rank) ==
  IF Cardinality(S) <= size THEN {S}
  ELSE LET early == {x \in S : Cardinality({y \in S : rank[y] <= rank[x]}) <= size}
           tied == {x \in S \ early : Cardinality({y \in S : rank[y] < rank[x]}) < size}
       IN  {early \cup more : more \in kSubset(size - Cardinality(early), tied)}

\* The query's ORDER BY and LIMIT, which know nothing of the target.
Rows(trails, limit) == Cut(trails, 4 * limit, [t \in trails |-> Len(t)])

Cost(trail) ==
  LET cost[i \in Nat] == IF i = 0 THEN 0 ELSE cost[i - 1] + trail[i].edge.cost
  IN  cost[Len(trail)] + Len(trail) - 1

\* What Derive may return, when it wants those proofs.
Derived(world, trails, wanted) ==
  UNION {LET proofs == {t \in rows \cap wanted : Cost(t) <= MaxCost}
         IN  Cut(proofs, world.limit, [t \in proofs |-> Cost(t)]) : rows \in Rows(trails, world.limit)}

To(trails, o) == {t \in trails : t[Len(t)].o = o}

Predicates(trail) == [i \in DOMAIN trail |-> Canon[trail[i].edge.p]]

Establishes(trail, target) ==
  LET effective == EffectivePredicate(Predicates(trail))
  IN  effective # None /\ ProofEntails(effective, target, TRUE)

\* Derive with a target, and with a predicate, inverses included.
Paths(world, s, o) ==
  LET trails == AllTrails(world.edges, s) IN Derived(world, trails, To(trails, o))
Derive(world, s, pred, o) ==
  LET trails == AllTrails(world.edges, s)
  IN  Derived(world, trails, {t \in To(trails, o) : Establishes(t, Canon[pred])})

\* The subject, or a class it is found to belong to, is disjoint with the object.
\* The classes come from a Derive with the same limits: others are not seen.
DisjointWith(classes, o) == \E class \in classes : {class, o} \in DisjointClasses
Contradicts(world, s, o) ==
  LET trails == {t \in AllTrails(world.edges, s) : Ascends(t)}
  IN  {DisjointWith({s} \cup {t[Len(t)].o : t \in members}, o) : members \in Derived(world, trails, trails)}

Entails(world, s, pred, o) ==
  {IF conflict THEN "contradicted" ELSE IF proofs # {} THEN "entailed" ELSE "unsupported" :
     conflict \in Contradicts(world, s, o), proofs \in Derive(world, s, pred, o)}

-----------------------------------------------------------------------------
(* predicateConstrainedReasoner over a backend whose proofs are all paths: the
   best proof is kept when it is valid, else the best valid one of the others. *)

\* mutant: the others are not looked at
ConstrainMutant(proofs, best, target) == {best} \cap {t \in proofs : Establishes(t, target)}
Constrain(proofs, best, target) ==
  LET valid == {t \in proofs : Establishes(t, target)}
  IN  IF best \in valid THEN {best} ELSE valid

\* What the wrapper makes of a path-existence answer, whichever path is best.
Constrained(world, s, pred, o) ==
  UNION {IF paths = {} THEN {"unsupported"}
         ELSE {IF Constrain(paths, best, Canon[pred]) # {} THEN "entailed" ELSE "unsupported" : best \in paths} :
           paths \in Paths(world, s, o)}

-----------------------------------------------------------------------------

Undirected(edges) == {<<e.s, Canon[e.p], e.o>> : e \in edges} \cup {<<e.o, Canon[e.p], e.s>> : e \in edges}

(***************************************************************************)
(* An entailed claim or its converse follows from the edges the query may  *)
(* use, read both ways, whatever the limits cut off: an inverse is         *)
(* accepted from subject to object, where a chain only establishes it the  *)
(* other way round (predicate_entailment.go:163-177).                      *)
(* What is found is promised below the limits only.  A stored edge one is  *)
(* confident of is entailed unless classes forbid it, when the subject has *)
(* at most as many edges as the query returns rows (shorter paths come     *)
(* first).  When there are no more paths than rows, and no more to the     *)
(* object than proofs, wrapping a backend of paths gives the engine's own  *)
(* verdict, whichever path that backend likes best.                        *)
(***************************************************************************)
EngineAgrees(world, s, pred, o) ==
  LET trails == AllTrails(world.edges, s)
      verdicts == Entails(world, s, pred, o)
      constrained == Constrained(world, s, pred, o)
  IN  /\ "entailed" \in verdicts \cup constrained =>
           {<<s, Canon[pred], o>>, <<o, Canon[pred], s>>}
             \cap Consequences(Undirected(Visible(world.edges))) # {}
      /\ /\ \E e \in Visible(world.edges) :
              e.s = s /\ e.o = o /\ e.p = pred /\ Cost(<<Hop(e, s)>>) <= MaxCost
         /\ s # o /\ Cardinality({t \in trails : Len(t) = 1}) <= 4 * world.limit
         => "unsupported" \notin verdicts
      /\ /\ Cardinality(trails) <= 4 * world.limit
         /\ Cardinality({t \in To(trails, o) : Cost(t) <= MaxCost}) <= world.limit
         => \A u \in verdicts \ {"contradicted"} : constrained \subseteq {u}
===============================================================================
