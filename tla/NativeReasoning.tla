--------------------------- MODULE NativeReasoning ---------------------------
(***************************************************************************)
(* The native reasoner (pkg/reasoning/native.go): a claim is first checked *)
(* against conflicting records, then its names are resolved to the graph's *)
(* (entity_resolve.go), and the database's table function REASON_ENTAILS   *)
(* (extension/reasoning/src/function/entails.cpp) looks for a path, whose  *)
(* steps are oriented by their ends' types before it is accepted.          *)
(*                                                                         *)
(* Names and types are memoized for the life of the reasoner, and a lookup *)
(* that fails is memoized like one that finds nothing.  Every query may    *)
(* fail.  An edge is [s, p, o, deduced]; its spelling p is already in the  *)
(* form normalizePredicate gives it.  Confidences are left out: all edges  *)
(* have the same, so the shortest path has the best.                       *)
(***************************************************************************)
EXTENDS PredicateRegistry, TLC

CONSTANTS
  Graphs,      \* the graphs considered: sets of edges
  TypesOf,     \* of every entity its labels
  Spelled,     \* of every name a claim may use, the entities with that name but for its case
  Resolved,    \* of every name what exactEntity or else fuzzyEntity finds, or the name
  Variants,    \* of every name the entities whose name has its base name
  Asked,       \* the claims asked: <<name, predicate, name>>
  MemoMax,     \* entityResolveCacheMax
  MaxHops,
  ExcludeDeduced

VARIABLES
  graph,
  memo,        \* entityCache
  types,       \* entityTypeCache
  lost,        \* history: the entities whose types are memoized from a failed query
  answer       \* the last answer; None at first

vars == <<graph, memo, types, lost, answer>>

NoMemo == [n \in {} |-> n]

Init ==
  /\ graph \in Graphs
  /\ memo = NoMemo /\ types = NoMemo /\ lost = {}
  /\ answer = None

Visible == IF ExcludeDeduced THEN {e \in graph : ~e.deduced} ELSE graph

-----------------------------------------------------------------------------
(* Names and types *)

\* storeEntity: a full memo is emptied.
Store(m, name, resolved) ==
  (IF Cardinality(DOMAIN m) >= MemoMax THEN NoMemo ELSE m) @@ (name :> resolved)

ResolveEntity(m, name, fails) ==
  IF name \in DOMAIN m THEN m[name] ELSE IF fails THEN name ELSE Resolved[name]
Remember(m, name, fails) ==
  IF name \in DOMAIN m THEN m ELSE Store(m, name, ResolveEntity(m, name, fails))

EntityTypes(e, fails) ==
  IF e \in DOMAIN types THEN types[e] ELSE IF fails THEN {} ELSE TypesOf[e]

-----------------------------------------------------------------------------
(* REASON_ENTAILS: findPaths returns a shortest path, if the engine's filters
   leave any; runEntails accepts it when all its hops have one accepted spelling. *)

Walks(from, to, hops) ==
  LET end(w) == IF w = <<>> THEN from ELSE w[Len(w)].o
      walk[n \in Nat] == IF n = 0 THEN {<<>>}
                         ELSE UNION {{Append(w, e) : e \in {e \in graph : e.s = end(w)}} : w \in walk[n - 1]}
  IN  {w \in walk[hops] : end(w) = to}

Nodes(path) == {path[i].s : i \in DOMAIN path} \cup {path[i].o : i \in DOMAIN path}
Acyclic(path) == Cardinality(Nodes(path)) = Len(path) + 1

FindPaths(from, to) ==
  LET lengths == {h \in 1..MaxHops : Walks(from, to, h) # {}}
      shortest == IF lengths = {} THEN {}
                  ELSE Walks(from, to, CHOOSE h \in lengths : \A l \in lengths : h <= l)
      kept == {w \in shortest : Acyclic(w) /\ Elements(w) \subseteq Visible}
  IN  {<<>>} \cup kept

RunEntails(path, accepted) ==
  /\ path # <<>>
  /\ path[1].p \in accepted
  /\ \A i \in DOMAIN path : path[i].p = path[1].p

-----------------------------------------------------------------------------
(* NativeReasoner *)

AcceptedPredicates(pred) == IF Canon[pred] \in Known THEN PredicatesEntailing(Canon[pred]) ELSE {}

\* mutant: the steps are accepted as they are stored
OrientedMutant(path, fails) == [i \in DOMAIN path |-> Canon[path[i].p]]
Oriented(path, fails) == [i \in DOMAIN path |->
  Canon[OrientedPredicate(path[i].p, EntityTypes(path[i].s, fails), EntityTypes(path[i].o, fails))]]

EntailsDirected(accepted, path, fails) ==
  RunEntails(path, accepted) /\ EffectivePredicate(Oriented(path, fails)) \in accepted

\* The ends whose types an accepted path makes the reasoner look up.
LooksUp(accepted, path) == IF RunEntails(path, accepted) THEN Nodes(path) ELSE {}

\* Contradicts: a record with a disjoint predicate, under the caller's spelling.
Contradicts(s, pred, o) == \E e \in Visible :
  /\ e.s \in Spelled[s] /\ e.o \in Spelled[o] \cup Variants[o]
  /\ e.p \in Conflicting(Canon[pred])

Reply(claim, names, verdict, steps, fails) ==
  answer' = [claim |-> claim, names |-> names, verdict |-> verdict, steps |-> steps, fails |-> fails]

Conflict(claim, fails) ==
  /\ "contradiction" \notin fails /\ Contradicts(claim[1], claim[2], claim[3])
  /\ Reply(claim, <<claim[1], claim[3]>>, "contradicted", {}, fails)
  /\ UNCHANGED <<graph, memo, types, lost>>

\* The path is searched, and again backwards for the declared inverse.
Support(claim, fails) ==
  LET noEntity == "entity" \in fails
      noTypes == "types" \in fails
      memo1 == Remember(memo, claim[1], noEntity)
      s == ResolveEntity(memo, claim[1], noEntity)
      o == ResolveEntity(memo1, claim[3], noEntity)
      p == Canon[claim[2]]
      accepted == AcceptedPredicates(p)
      inverses == IF p \in DOMAIN InverseOf THEN AcceptedPredicates(InverseOf[p]) ELSE {}
  IN  /\ "contradiction" \in fails \/ ~Contradicts(claim[1], claim[2], claim[3])
      /\ memo' = Remember(memo1, claim[3], noEntity)
      /\ \E path \in FindPaths(s, o), back \in FindPaths(o, s) :
           LET direct == EntailsDirected(accepted, path, noTypes)
               looked == LooksUp(accepted, path) \cup (IF direct THEN {} ELSE LooksUp(inverses, back))
           IN  /\ IF direct THEN Reply(claim, <<s, o>>, "entailed", Nodes(path), fails)
                  ELSE IF EntailsDirected(inverses, back, noTypes)
                  THEN Reply(claim, <<s, o>>, "entailed", Nodes(back), fails)
                  ELSE Reply(claim, <<s, o>>, "unsupported", {}, fails)
               /\ types' = [e \in DOMAIN types \cup looked |-> EntityTypes(e, noTypes)]
               /\ lost' = IF noTypes THEN lost \cup (looked \ DOMAIN types) ELSE lost
      /\ UNCHANGED graph

Next == \E claim \in Asked, fails \in {{}, {"contradiction"}, {"entity"}, {"types"}} :
          Conflict(claim, fails) \/ Support(claim, fails)

Spec == Init /\ [][Next]_vars

-----------------------------------------------------------------------------

\* What the edges in sight mean, and what follows from it.
Meant == {<<e.s, Canon[OrientedPredicate(e.p, TypesOf[e.s], TypesOf[e.o])], e.o>> : e \in Visible}

(***************************************************************************)
(* What is entailed follows from the graph, its edges read in the          *)
(* direction their ends' types show: through the hierarchy, inverses,      *)
(* transitivity and the registered compositions, and in no other way.      *)
(* Nothing is said of a proof with an end whose types were lost to a       *)
(* failed query: then and ever after it is read as it is stored            *)
(* (orientation.go:126).  A claim spelled as the graph spells it is        *)
(* never entailed against a conflicting record the check could read.       *)
(***************************************************************************)
ProofsAreSound ==
  answer # None /\ answer.verdict = "entailed" =>
    LET s == answer.names[1]  p == Canon[answer.claim[2]]  o == answer.names[2] IN
      /\ answer.steps \cap lost = {} => <<s, p, o>> \in Consequences(Meant)
      /\ (s = answer.claim[1] /\ o = answer.claim[3] /\ "contradiction" \notin answer.fails) =>
           ~\E e \in Visible : e.s = s /\ e.o = o /\ e.p \in Conflicting(p)

(***************************************************************************)
(* docs/SYMBOLIC_GRAPH_LOGIC.md:325: a conflict overrides to Contradicted. *)
(* The code asks for conflicting records before it resolves the names      *)
(* (native.go:84-95), so that it misses those the graph spells otherwise.  *)
(***************************************************************************)
ConflictOverrides ==
  answer # None /\ answer.verdict = "entailed" /\ answer.fails = {} =>
    ~\E e \in Visible : /\ e.s = answer.names[1] /\ e.o = answer.names[2]
                        /\ e.p \in Conflicting(Canon[answer.claim[2]])
===============================================================================
