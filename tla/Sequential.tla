------------------------------ MODULE Sequential ------------------------------
(***************************************************************************)
(* The components a single goroutine drives from a request or a thought to *)
(* its answer, side by side: which one a behaviour is about is chosen at   *)
(* the start, and the others rest.                                         *)
(*                                                                         *)
(* Of the components that only compute an answer a behaviour is a question *)
(* and the step that answers it.                                           *)
(***************************************************************************)
EXTENDS CognitionStores, FiniteSets

CONSTANTS
  Kinds,      \* the components considered
  Questions,  \* of each kind that only computes an answer its questions
  None

\* TopicSelector's
CONSTANTS Queries, KeyOf, Plausible, Answers, RingLimit, HotLimit, Sources, Weight
\* ThoughtSources'
CONSTANTS EntityNames, LowerKey, PlausibleNames, Predicate, ServedGraphs, HotLists, Registry,
          SampleLimit, RowLimit, HubLimit, PairLimit, MinShared
\* PredicateRegistry's, the one registry of all that reason
CONSTANTS Canon, Supers, Transitive, Reflexive, InverseOf, Compositions, Disjoint, Domain, Codomain
\* PredicatePacks'
CONSTANTS NormKey, Registered
\* NativeReasoning's
CONSTANTS Graphs, TypesOf, Spelled, Resolved, Variants, Asked, MemoMax, MaxHops, ExcludeDeduced
\* GraphEngine's, and the claims <<name, predicate, name>> asked of it
CONSTANTS MaxCost, Molecular, DisjointClasses, PathGoals
\* ConditionalReasoning's, and the claims asked of it
CONSTANTS RuleEntities, RulePredicates, RuleVariables, WeakCost, Threshold, RuleGoals
\* Generalization's
CONSTANTS Jobs, Labels, TermOf, Ontology, Lexical, Tokens, MaxParentLevel, MinParentSupport, MinSupport,
          IncludeDirectRelations

\* newQueryTelemetry gives the ring a capacity (telemetry.go:119-121), and
\* sources without a weight are dropped (topic_selector.go:93).
ASSUME RingIsPositive == RingLimit \in Nat \ {0}
ASSUME SourcesAreWeighted ==
  /\ Sources \in Seq(DOMAIN Weight)
  /\ \A s \in DOMAIN Weight : Weight[s] \in Nat \ {0}
\* Graphs are finite, limits are counts (topic_selector.go:522-550).
ASSUME ServedGraphsAreFinite == \A g \in ServedGraphs : IsFiniteSet(g)
ASSUME EntityNamesAreFinite == IsFiniteSet(EntityNames)
ASSUME RowLimitIsNatural == RowLimit \in Nat
ASSUME MinSharedIsNatural == MinShared \in Nat
\* Config.withDefaults puts a number for every limit that is not positive
\* (builder.go:79-88); a source holds finitely many relations.
ASSUME HierarchiesAreFinite == \A j \in Jobs : IsFiniteSet(j.hierarchy)
ASSUME BuildLimitsArePositive == MaxParentLevel \in Nat \ {0} /\ MinSupport \in Nat \ {0}
\* packMerge.validate refuses a pack that refers to what none declares
\* (predicate_packs.go:226-283).
ASSUME RegistryIsValidated ==
  LET known == DOMAIN Supers IN
    /\ IsFiniteSet(known) /\ None \notin known
    /\ \A p \in known : Supers[p] \in Seq(known)
    /\ DOMAIN InverseOf \subseteq known /\ \A p \in DOMAIN InverseOf : InverseOf[p] \in known
    /\ Compositions \in Seq(known \X known \X known)
\* What the registry declares of the predicates that compose with is_a: is_a and
\* its inverse are none of them, and one with types has an inverse with the types the other way
\* round (predicate_primitives.go:13-62).
ASSUME InheritablesAreDeclared ==
  \A c \in {Compositions[i] : i \in DOMAIN Compositions} : c[1] = "is_a" /\ c[2] = c[3] =>
    LET p == c[2]
        inverse == InverseOf[p]
    IN  /\ p # "is_a" /\ ("is_a" \in DOMAIN InverseOf => p # InverseOf["is_a"])
        /\ Domain[p] # {} /\ Codomain[p] # {} =>
             /\ p \in DOMAIN InverseOf /\ inverse \in DOMAIN InverseOf /\ InverseOf[inverse] = p
             /\ Domain[inverse] = Codomain[p] /\ Codomain[inverse] = Domain[p]
\* No spelling is the name of one predicate and an alias of another, so that
\* normalizing twice changes nothing: so it is in the packs of the repository
\* (general_primitives.go:42-56, predicate_primitives.go:68-97); the merge does
\* not refuse others (predicate_packs.go:183-203).
ASSUME SpellingsAreUnambiguous ==
  /\ \A p \in DOMAIN Supers : Canon[p] = p
  /\ \A c \in Asked : Canon[Canon[c[2]]] = Canon[c[2]]
\* The name of an entity is a spelling of it (native.go:344).
ASSUME NamesAreSpellings ==
  \A c \in Asked, g \in Graphs : \A e \in g :
    (c[1] = e.s => e.s \in Spelled[c[1]]) /\ (c[3] = e.o => e.o \in Spelled[c[3]])
ASSUME GraphsAreFinite == \A g \in Graphs : IsFiniteSet(g)
\* The graphs the engine is asked about are finite, a claim has a predicate,
\* and Config.withDefaults puts a number for hops and limits that are not
\* positive (types.go:91-102).
ASSUME EngineIsAsked ==
  /\ "paths" \in DOMAIN Questions => \A w \in Questions["paths"] : IsFiniteSet(w.edges) /\ w.limit \in Nat \ {0}
  /\ \A g \in PathGoals : Canon[g[2]] # None
  /\ MaxHops \in Nat \ {0}

\* Packs and registry files are records of spellings, which are as many as occur
\* in them; "general" is registered (predicate_packs.go:10-17, 85-88).
Spellings == DOMAIN NormKey
Declarations == [raw : Spellings, canonical : Spellings, inverse : Spellings,
                 supers : SUBSET Spellings, domain : SUBSET Spellings, range : SUBSET Spellings]
IsPack(pack) ==
  /\ pack.predicates \in Seq(Declarations)
  /\ DOMAIN pack.aliases \subseteq Spellings
  /\ \A raw \in DOMAIN pack.aliases : pack.aliases[raw] \in Spellings
  /\ pack.comps \in Seq(Spellings \X Spellings \X Spellings)
  /\ pack.disjoints \in Seq(SUBSET Spellings)
TypeLists == Seq([name : Spellings, supers : SUBSET Spellings])
ASSUME SpellingsHaveKeys == IsFiniteSet(Spellings) /\ \A s \in Spellings : NormKey[s] \in Nat
ASSUME PacksAreRecords ==
  /\ "general" \in DOMAIN Registered /\ \A n \in DOMAIN Registered : IsPack(Registered[n])
  /\ "packs" \in DOMAIN Questions => \A q \in Questions["packs"] :
       /\ q.packs \in Seq(STRING) /\ q.types \in TypeLists
       /\ q.file # None => IsPack(q.file) /\ q.file.extends \in Seq(STRING) /\ q.file.types \in TypeLists

VARIABLES
  kind,
  events, next, lastEvents, hotNext, unresolvedNext, sinceRandom, order, failed, result,
  served, call, hubs, fresh, nextRole, semanticNext, thought,
  graph, memo, types, lost, answer,
  job, phase, round, frontier, queried, edges, levels, queue, carried, lifted, derived

selectorVars == <<events, next, lastEvents, hotNext, unresolvedNext, sinceRandom, order, failed, result>>
thoughtVars == <<served, call, hubs, fresh, nextRole, semanticNext, thought>>
nativeVars == <<graph, memo, types, lost, answer>>
buildVars == <<job, phase, round, frontier, queried, edges, levels, queue, carried, lifted, derived>>
allVars == <<kind, vars, selectorVars, thoughtVars, nativeVars, buildVars>>

Selector == INSTANCE TopicSelector WITH Limit <- RingLimit, latest <- lastEvents
Thoughts == INSTANCE ThoughtSources WITH
  Names <- EntityNames, Plausible <- PlausibleNames, Graphs <- ServedGraphs, asked <- call
Packs == INSTANCE PredicatePacks
Native == INSTANCE NativeReasoning
Engine == INSTANCE GraphEngine
Rules == INSTANCE ConditionalReasoning WITH
  Entities <- RuleEntities, Predicates <- RulePredicates, Variables <- RuleVariables
Build == INSTANCE Generalization WITH IsA <- Ontology, graph <- derived

\* What is asked are claims about finitely many names, which a request's world
\* speaks of too; a threshold is a confidence in (0, 1] (conditional.go:53-59).
ASSUME RuleNamesAreFinite == IsFiniteSet(RuleEntities) /\ IsFiniteSet(RulePredicates)
ASSUME RuleQuestionsAreTyped ==
  /\ "rules" \in DOMAIN Questions => \A w \in Questions["rules"] : Rules!IsWorld(w)
  /\ RuleGoals \subseteq Rules!GroundClaims
ASSUME CostsAreNatural == WeakCost \in Nat /\ Threshold \in Nat

-----------------------------------------------------------------------------

RestThoughts ==
  /\ served = None /\ call = None /\ hubs = None /\ fresh = None
  /\ nextRole = None /\ semanticNext = None /\ thought = None
RestNative == graph = None /\ memo = None /\ types = None /\ lost = None /\ answer = None
RestBuild ==
  /\ round = None /\ frontier = None /\ queried = None /\ edges = None /\ levels = None
  /\ queue = None /\ carried = None /\ lifted = None /\ derived = None

SeqInit ==
  /\ kind \in Kinds
  /\ Init /\ Selector!Init
  /\ IF kind = "thoughts" THEN Thoughts!Init ELSE RestThoughts
  /\ IF kind = "native" THEN Native!Init ELSE RestNative
  /\ IF kind = "build" THEN Build!Init
     ELSE /\ RestBuild
          /\ phase = "asked"
          /\ IF kind \in DOMAIN Questions THEN job \in Questions[kind] ELSE job = None

Store == kind = "stores" /\ Next /\ UNCHANGED <<kind, selectorVars, thoughtVars, nativeVars, buildVars>>
Select == kind = "selector" /\ Selector!Next /\ UNCHANGED <<kind, vars, thoughtVars, nativeVars, buildVars>>
Think == kind = "thoughts" /\ Thoughts!Next /\ UNCHANGED <<kind, vars, selectorVars, nativeVars, buildVars>>
Reason == kind = "native" /\ Native!Next /\ UNCHANGED <<kind, vars, selectorVars, thoughtVars, buildVars>>
BuildGraph == kind = "build" /\ Build!Next /\ UNCHANGED <<kind, vars, selectorVars, thoughtVars, nativeVars>>
Answer ==
  /\ kind \in DOMAIN Questions /\ phase = "asked" /\ phase' = "answered"
  /\ UNCHANGED <<kind, vars, selectorVars, thoughtVars, nativeVars, job, round, frontier, queried, edges, levels,
                 queue, carried, lifted, derived>>

SeqNext == Store \/ Select \/ Think \/ Reason \/ BuildGraph \/ Answer

SeqSpec == SeqInit /\ [][SeqNext]_allVars

\* The selector's fairness; the others promise nothing.
FairSeqSpec ==
  /\ SeqSpec
  /\ WF_order(order # <<>> /\ order' \in {Tail(order), <<>>})
  /\ WF_selectorVars(kind = "selector" /\ \E i \in DOMAIN Sources : Selector!Pick(Sources[i]))

-----------------------------------------------------------------------------

(***************************************************************************)
(* However the random numbers fall, the graph's random region is thought   *)
(* about again and again where that source is kept, once calls are no      *)
(* longer cut short and it has something to say                            *)
(* (topic_selector.go:148-217).                                            *)
(***************************************************************************)
RandomIsTheFloor == kind = "selector" => Selector!RandomIsTheFloor

(***************************************************************************)
(* When the recent queries stop changing and calls are no longer cut       *)
(* short, every plausible hot claim is thought about again and again if    *)
(* its source keeps being picked (the round-robin of                       *)
(* topic_selector.go:253-284).                                             *)
(***************************************************************************)
HotKeysArePrewarmed == Selector!HotKeysArePrewarmed

(***************************************************************************)
(* What the sources propose holds in the graph their last helper saw,      *)
(* although seeds and hubs may stem from graphs served before: missing     *)
(* links are missing, bridges are shared, nothing is paired with itself    *)
(* (topic_selector.go:417-802).                                            *)
(***************************************************************************)
ThoughtsAreGrounded == kind = "thoughts" => Thoughts!ThoughtsAreGrounded

(***************************************************************************)
(* A registry that is built from packs refers only to what it declares, as *)
(* the last layer says it, whatever the order in which packs are named,    *)
(* and unless a spelling has two meanings normalizing is idempotent        *)
(* (predicate_packs.go:82-370, predicates.go:63-102).                      *)
(***************************************************************************)
RegistryIsCoherent == kind = "packs" /\ phase = "answered" =>
  Packs!RegistryIsCoherent(job.file, job.packs, job.types)

(***************************************************************************)
(* What the native reasoner entails follows from the graph as its types    *)
(* orient it, also after failed queries and with its memo of names emptied *)
(* (native.go:83-255, entity_resolve.go:40-81, orientation.go:93-146).     *)
(* What the portable engine entails, or its converse, follows from the     *)
(* edges; below the limits of cypher.go:46 and engine.go:73-75 it entails  *)
(* every stored edge, and a backend of bare paths agrees once its proofs   *)
(* are filtered (engine.go:44-147, predicate_constrained.go:40-83).        *)
(***************************************************************************)
ProofsAreSound ==
  /\ kind = "native" => Native!ProofsAreSound
  /\ kind = "paths" /\ phase = "answered" => \A g \in PathGoals : Engine!EngineAgrees(job, g[1], g[2], g[3])

(***************************************************************************)
(* What rules without negated conditions entail is true in their least     *)
(* model, whatever cap the search met; when it met none, it finds exactly  *)
(* what is true, negation and exceptions included (conditional.go:192-651);*)
(* a rule fires only with a true instance.  The code does not ask for      *)
(* strata; without them nothing says which model is meant.                 *)
(***************************************************************************)
SearchIsSound == kind = "rules" /\ phase = "answered" /\ Rules!IsStratified(job) =>
  Rules!SearchAgrees(job, RuleGoals) /\ Rules!FiringAgrees(job)

(***************************************************************************)
(* A finished build hands the emitter a hierarchy without cycles whose     *)
(* ends are in the derived direction and lifted relations that are         *)
(* supported; for a scope given by uuids it leaves no relation without its *)
(* nodes and lifts all that enough of the scope's children share, whatever *)
(* order maps are walked in (queries.go:47-595, builder.go:114-456).       *)
(***************************************************************************)
DerivedGraphIsWellFormed == kind = "build" => Build!DerivedGraphIsWellFormed

(***************************************************************************)
(* docs/SYMBOLIC_GRAPH_LOGIC.md:325: a conflict overrides to Contradicted. *)
(* native.go:84 asks for conflicts under the names the caller used, which  *)
(* native.go:94-95 resolves only afterwards.                               *)
(***************************************************************************)
ConflictOverrides == kind = "native" => Native!ConflictOverrides

(***************************************************************************)
(* cmd/pensiero/main.go:59: the scope is a "file with scope entity ids or  *)
(* names"; builder.go:184 files the relations of a scope given by names    *)
(* under uuids, where the lifting does not look for them.                  *)
(***************************************************************************)
NamedScopesAreLifted == kind = "build" => Build!NamedScopesAreLifted
===============================================================================
