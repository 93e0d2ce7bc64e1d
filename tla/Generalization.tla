---------------------------- MODULE Generalization ----------------------------
(***************************************************************************)
(* One build of a derived graph (pkg/generalization): the scope's          *)
(* hierarchy is read a level at a time (queries.go), every concept gets a  *)
(* level, relations that enough children share are lifted to their parents *)
(* (builder.go), and what the source says and the derived graph does not   *)
(* is backed up (backup.go).  The direction of a stored edge is evidence   *)
(* of nothing: it is derived from ontologies or names                      *)
(* (pkg/taxonomy/direction.go) or from the types of the ends               *)
(* (direction.go).                                                         *)
(*                                                                         *)
(* An entity has a uuid and a name of its own.  The scope is given by      *)
(* uuids (a group of the source), or, when job.byName, by a list of names, *)
(* whose references have the name for an id as well (queries.go:20).       *)
(* No predicates are configured, so that the hierarchy is what the source  *)
(* stores under a spelling of is_a or of its inverse; a stored edge is     *)
(* read from child to parent, under either (the default direction).        *)
(* Confidences, chunks of 1000 references and statistics are left out.     *)
(***************************************************************************)
EXTENDS PredicateRegistry, SequencesExt

CONSTANTS
  Jobs,        \* [scope, byName, derived, hierarchy, facts]: whether the direction
               \* of the hierarchy is derived; hierarchy is a set of stored
               \* <<child, parent, predicate>>, facts of stored <<s, predicate, o>>
  Labels,      \* of every entity its types
  TermOf,      \* of every entity the ontology's term with its name, or None
  IsA,         \* the ontology: pairs <<term, its parent>>
  Lexical,     \* whether names may tell the direction
  Tokens,      \* of every entity the words of its name
  MaxParentLevel, MinParentSupport, MinSupport,
  IncludeDirectRelations

VARIABLES
  job,
  phase,       \* "reading", "levelling", "lifting", "done" or "failed"
  round,       \* of the reading or of the lifting
  frontier, queried,
  edges,       \* taxonomyHierarchy: <<child key, parent key, predicate>>
  levels,      \* compLevels: of components reached from the scope
  queue,
  carried,     \* current: what is offered to the parents, [key, p, o, from]
  lifted,      \* [s, p, o, support, from]
  graph

vars == <<job, phase, round, frontier, queried, edges, levels, queue, carried, lifted, graph>>

-----------------------------------------------------------------------------
(* Keys *)

Uuid(e) == <<"uuid", e>>
\* The hierarchy knows an entity under the id its scope reference has.
Key(e) == IF job.byName /\ e \in job.scope THEN <<"name", e>> ELSE Uuid(e)
EntityOf(key) == key[2]
ScopeKeys == {Key(e) : e \in job.scope}

\* S and all that edges <<below, above, ...>> lead to from it.
Upwards(E, S) ==
  LET up[T \in SUBSET (S \cup {e[2] : e \in E})] ==
        LET above == {e[2] : e \in {e \in E : e[1] \in T}}
        IN  IF above \subseteq T THEN T ELSE up[T \cup above]
  IN  up[S]

-----------------------------------------------------------------------------
(* Direction: Orient returns the pair <<child, parent>>, or nothing. *)

IsAncestor(t, u) == t # u /\ t \in Upwards(IsA, {u})

DeriveOntology(a, b) ==
  IF None \in {TermOf[a], TermOf[b]} THEN {}
  ELSE IF IsAncestor(TermOf[b], TermOf[a]) THEN {<<a, b>>}
  ELSE IF IsAncestor(TermOf[a], TermOf[b]) THEN {<<b, a>>} ELSE {}

\* The name with more words is the child's.
DeriveLexical(a, b) ==
  {d \in {<<a, b>>, <<b, a>>} :
     Tokens[d[2]] # {} /\ Tokens[d[2]] \subseteq Tokens[d[1]] /\ Tokens[d[2]] # Tokens[d[1]]}

Orient(a, b) ==
  IF a = b THEN {}
  ELSE IF DeriveOntology(a, b) # {} THEN DeriveOntology(a, b)
  ELSE IF Lexical THEN DeriveLexical(a, b) ELSE {}

\* The ends of a row are swapped, its predicate stays.
ApplyDirection(rows) ==
  IF job.derived THEN UNION {{<<d[1], d[2], r[3]>> : d \in Orient(r[1], r[2])} : r \in rows} ELSE rows

\* mutant: the relation is given its inverse's name, and its ends are not swapped
NormalizedMutant(f) ==
  <<f[1], OrientedPredicate(f[2], Labels[f[1]], Labels[f[3]]), f[3]>>
\* A relation whose ends have the types of its inverse is turned round.
Normalized(f) ==
  LET oriented == OrientedPredicate(f[2], Labels[f[1]], Labels[f[3]])
      turned == /\ oriented # f[2] /\ oriented \in DOMAIN InverseOf
                /\ InverseOf[oriented] = Canon[f[2]]
  IN  IF turned THEN <<f[3], Canon[f[2]], f[1]>> ELSE <<f[1], Canon[f[2]], f[3]>>

-----------------------------------------------------------------------------
(* taxonomicQueryList: "a hierarchy edge may be stored as either member of an *)
(* inverse pair".                                                             *)

TaxonomicPredicates == {"is_a"} \cup {InverseOf[p] : p \in {"is_a"} \cap DOMAIN InverseOf}

-----------------------------------------------------------------------------
(* The relations to lift: those that compose with is_a to themselves. *)

InheritablePredicates == {c[2] : c \in {c \in Elements(Compositions) : c[1] = "is_a" /\ c[2] = c[3]}}

Stored == job.facts \cup {<<r[1], r[3], r[2]>> : r \in job.hierarchy}
InScope == {f \in Stored : f[1] \in job.scope}
DirectRows ==
  {f \in {Normalized(f) : f \in {f \in InScope : Canon[f[2]] \in InheritablePredicates}} :
     f[1] \in job.scope}

-----------------------------------------------------------------------------

Init ==
  /\ job \in Jobs /\ phase = "reading" /\ round = 0
  /\ frontier = ScopeKeys /\ queried = {} /\ edges = {}
  /\ levels = [c \in {} |-> 0] /\ queue = <<>>
  /\ carried = {} /\ lifted = {} /\ graph = None

lifting == <<carried, lifted>>
reading == <<frontier, queried, edges>>

(* taxonomy: a level of the hierarchy is one query for the parents of the *)
(* frontier; the parents met for the first time are the next.             *)
ReadLevel ==
  /\ phase = "reading" /\ round < MaxParentLevel /\ frontier # {}
  /\ LET rows == {r \in job.hierarchy :
                     Key(r[1]) \in frontier /\ r[1] # r[2] /\ Canon[r[3]] \in TaxonomicPredicates}
         found == {<<Key(r[1]), Key(r[2]), r[3]>> : r \in ApplyDirection(rows)}
     IN  /\ edges' = edges \cup found
         /\ queried' = queried \cup frontier
         /\ frontier' = {e[2] : e \in found \ edges} \ queried'
  /\ round' = round + 1
  /\ UNCHANGED <<job, phase, levels, queue, lifting, graph>>

\* The source fails or the pass is cancelled: nothing is built.
QueryFails ==
  /\ phase = "reading" /\ phase' = "failed"
  /\ UNCHANGED <<job, round, reading, levels, queue, lifting, graph>>

-----------------------------------------------------------------------------
(* levels: the longest way from the scope, through components *)

HierarchyNodes == ScopeKeys \cup {e[1] : e \in edges} \cup {e[2] : e \in edges}
Component(k) == {j \in Upwards(edges, {k}) : k \in Upwards(edges, {j})}
ParentsOf(c) == {Component(e[2]) : e \in {e \in edges : e[1] \in c}} \ {c}
LevelLimit == MaxParentLevel + 1

\* Sets are walked in any order.
StartLevels ==
  /\ phase = "reading" /\ (round = MaxParentLevel \/ frontier = {})
  /\ LET bottom == {Component(k) : k \in ScopeKeys} IN
       /\ levels' = [c \in bottom |-> 0]
       /\ queue' \in SetToSeqs(bottom)
  /\ phase' = "levelling"
  /\ UNCHANGED <<job, round, reading, lifting, graph>>

\* A level only rises, and one at the limit is not passed on.
Raise ==
  /\ phase = "levelling" /\ queue # <<>>
  /\ LET level == levels[Head(queue)]
         raised == {p \in ParentsOf(Head(queue)) :
                      level < LevelLimit /\ (p \in DOMAIN levels => levels[p] < level + 1)}
     IN  /\ levels' = [c \in DOMAIN levels \cup raised |-> IF c \in raised THEN level + 1 ELSE levels[c]]
         /\ IF level + 1 < LevelLimit
            THEN \E order \in SetToSeqs(raised) : queue' = Tail(queue) \o order
            ELSE queue' = Tail(queue)
  /\ UNCHANGED <<job, phase, round, reading, lifting, graph>>

-----------------------------------------------------------------------------
(* rows and selectParents *)

Level(k) == levels[Component(k)]

\* The edges that lead from a level to a higher one.
Rows == {e \in edges :
  /\ Component(e[1]) # Component(e[2])
  /\ Component(e[1]) \in DOMAIN levels /\ Component(e[2]) \in DOMAIN levels
  /\ Level(e[2]) \in 1..MaxParentLevel /\ Level(e[2]) > Level(e[1])}

Children(p) == {e[1] : e \in {e \in Rows : e[2] = p}}

\* Parents with enough children, and those below them.
Parents == {p \in {e[2] : e \in Rows} :
  \E q \in Upwards(Rows, {p}) : Cardinality(Children(q)) >= MinParentSupport}

\* Keyed by the id the source gives, whatever the hierarchy calls the entity.
StartLifting ==
  /\ phase = "levelling" /\ queue = <<>>
  /\ carried' = {[key |-> Uuid(f[1]), p |-> f[2], o |-> f[3], from |-> {f[1]}] : f \in DirectRows}
  /\ phase' = "lifting" /\ round' = 1
  /\ UNCHANGED <<job, reading, levels, queue, lifted, graph>>

(* liftRelations: a round offers every relation to the parents of those   *)
(* that carry it; what one round brings does not add to the support of    *)
(* what an earlier one brought.                                           *)
Lift ==
  /\ phase = "lifting" /\ round <= MaxParentLevel /\ carried # {}
  /\ LET offers == {<<ce[1], ce[2][2]>> : ce \in {ce \in carried \X Rows : ce[2][1] = ce[1].key /\ ce[2][2] \in Parents}}
         bucket(p, x) == {c[1] : c \in {c \in offers : c[2] = p /\ c[1].p = x.p /\ c[1].o = x.o}}
         from(p, x) == UNION {c.from : c \in bucket(p, x)}
         support(p, x) == Cardinality({c.key : c \in bucket(p, x)})
         known == {<<r.s, r.p, r.o>> : r \in lifted}
     IN  /\ lifted' = lifted \cup
              {[s |-> c[2], p |-> c[1].p, o |-> c[1].o, support |-> support(c[2], c[1]), from |-> from(c[2], c[1])] :
                 c \in {c \in offers : support(c[2], c[1]) >= MinSupport
                                       /\ <<c[2], c[1].p, c[1].o>> \notin known}}
         /\ carried' = {[key |-> c[2], p |-> c[1].p, o |-> c[1].o, from |-> from(c[2], c[1])] :
                          c \in {c \in offers : \E e \in Rows : e[1] = c[2] /\ e[2] \in Parents}}
  /\ round' = round + 1
  /\ UNCHANGED <<job, phase, reading, levels, queue, graph>>

-----------------------------------------------------------------------------
(* assembleGraph, Emit and the backup *)

\* From child to parent, under the predicate the edge is stored with.
TaxonomyRelations == {<<e[1], Canon[e[3]], e[2]>> :
  e \in {e \in Rows : e[2] \in Parents /\ e[1] \in ScopeKeys \cup Parents}}
DirectRelations ==
  IF IncludeDirectRelations THEN {<<Uuid(f[1]), f[2], Uuid(f[3])>> : f \in DirectRows} ELSE {}
LiftedRelations == {<<r.s, r.p, Uuid(r.o)>> : r \in lifted}

\* Of the kinds of a node the one of the best rank; Key makes it known.
Kind(k) == IF k \in ScopeKeys THEN "scope" ELSE IF k \in Parents THEN "concept" ELSE "endpoint"
Depth(k) == IF k \in Parents THEN Level(k) ELSE 0

\* A relation is written between nodes that exist; the query that finds none
\* writes nothing.
Emit(nodes, relations) == {r \in relations : r[1] \in nodes /\ r[3] \in nodes}

\* By the names of the ends, as the source has them.
DroppedRelations(relations) ==
  LET kept == {<<EntityOf(r[1]), r[2], EntityOf(r[3])>> : r \in relations}
  IN  {f \in InScope : <<f[1], Canon[f[2]], f[3]>> \notin kept}

Assemble ==
  /\ phase = "lifting" /\ (round > MaxParentLevel \/ carried = {})
  /\ LET relations == TaxonomyRelations \cup DirectRelations \cup LiftedRelations
         keys == ScopeKeys \cup Parents
                   \cup {r[3] : r \in LiftedRelations} \cup {r[3] : r \in DirectRelations}
     IN  graph' = [nodes |-> {[key |-> k, kind |-> Kind(k), depth |-> Depth(k)] : k \in keys},
                   relations |-> relations,
                   emitted |-> Emit(keys, relations),
                   dropped |-> DroppedRelations(relations)]
  /\ phase' = "done"
  /\ UNCHANGED <<job, round, reading, levels, queue, lifting>>

Next == ReadLevel \/ QueryFails \/ StartLevels \/ Raise \/ StartLifting \/ Lift \/ Assemble

Spec == Init /\ [][Next]_vars

-----------------------------------------------------------------------------

Done == phase = "done"
\* The hierarchy of the graph, whichever of the two predicates a relation has.
Taxonomy == {r \in graph.relations : r[2] \in TaxonomicPredicates}
HierarchyEdges == {<<r[1], r[3]>> : r \in Taxonomy}
NodeDepth(k) == (CHOOSE n \in graph.nodes : n.key = k).depth
ScopeBelow(k) == {e \in job.scope : k \in Upwards(HierarchyEdges, {Key(e)})}

\* Emit leaves nothing out: every end of a relation is a node.
EverythingIsEmitted == graph.emitted = graph.relations

\* Every step up the hierarchy rises, so that it has no cycle, and leads where
\* the ontology or the names say: its ends do, not its predicate.
HierarchyRises == \A e \in HierarchyEdges :
  /\ NodeDepth(e[2]) > NodeDepth(e[1])
  /\ job.derived => Orient(EntityOf(e[1]), EntityOf(e[2])) = {<<EntityOf(e[1]), EntityOf(e[2])>>}

\* The inheritable relations scope entities hold, read by the types of their ends.
Backwards(f) == /\ ~Fits(Canon[f[2]], Labels[f[1]], Labels[f[3]])
                /\ Fits(Canon[f[2]], Labels[f[3]], Labels[f[1]])
Held == {t \in {IF Backwards(f) THEN <<f[3], Canon[f[2]], f[1]>> ELSE <<f[1], Canon[f[2]], f[3]>> : f \in InScope} :
           t[1] \in job.scope /\ t[2] \in InheritablePredicates}

\* A lifted relation is held by scope entities below as many different children
\* of its subject as its support says.
LiftedIsSupported == \A r \in lifted :
  LET holders == {e \in job.scope : <<e, r.p, r.o>> \in Held}
      supporters == {e[1] : e \in {e \in HierarchyEdges : e[2] = r.s /\ ScopeBelow(e[1]) \cap holders # {}}}
  IN  /\ MinSupport <= r.support /\ r.support <= Cardinality(supporters)
      /\ r.from \subseteq holders \cap ScopeBelow(r.s)

\* What enough children in the scope hold is lifted to their parent.
SharedIsLifted == \A p \in Parents, q \in InheritablePredicates, o \in DOMAIN Labels :
  Cardinality({e \in job.scope : <<Key(e), p>> \in HierarchyEdges /\ <<e, q, o>> \in Held}) >= MinSupport
    => \E r \in lifted : r.s = p /\ r.p = q /\ r.o = o

\* Every relation of the scope is in the derived graph or in the backup.
NothingIsLost == \A f \in InScope :
  \/ f \in graph.dropped
  \/ \E r \in graph.relations : <<EntityOf(r[1]), r[2], EntityOf(r[3])>> = <<f[1], Canon[f[2]], f[3]>>

(***************************************************************************)
(* What a finished build promises of the graph it hands to the emitter: a  *)
(* hierarchy without cycles whose ends are in the derived direction,       *)
(* lifted relations that are supported, and in the graph or the backup     *)
(* everything the source says of the scope; for a scope given by uuids     *)
(* relations between its own nodes, and lifted relations that are complete *)
(* for what the scope itself shares, whatever order the maps are walked in. *)
(***************************************************************************)
DerivedGraphIsWellFormed ==
  Done => /\ HierarchyRises /\ LiftedIsSupported /\ NothingIsLost
          /\ ~job.byName => EverythingIsEmitted /\ SharedIsLifted

(***************************************************************************)
(* cmd/pensiero/main.go:59: the scope may be given by a "file with scope   *)
(* entity ids or names".  Given by names nothing is lifted: the relations  *)
(* are kept under the entities' uuids (builder.go:184), the hierarchy      *)
(* under their names.                                                      *)
(***************************************************************************)
NamedScopesAreLifted == Done => SharedIsLifted
===============================================================================
