--------------------------- MODULE ThoughtSources ---------------------------
(***************************************************************************)
(* The three sources of the topic selector that look for thoughts in the   *)
(* graph (cmd/pensiero/topic_selector.go): random ones propose missing     *)
(* links around a well-connected entity, bridges ask what two entities     *)
(* with many shared neighbours have in common, semantic ones pair a recent *)
(* query with a similar entity.                                            *)
(*                                                                         *)
(* The selector calls one source at a time.  A call borrows the current    *)
(* generation anew for every helper, so another graph may be served between *)
(* its steps; the queries of one helper see one graph.  An edge is         *)
(* <<subject, label, object>>; rows without an order, and ties, come in    *)
(* any order.                                                              *)
(***************************************************************************)
EXTENDS Naturals, Sequences, FiniteSets, FiniteSetsExt

CONSTANTS
  Names,        \* of the entities of every graph that is not empty
  LowerKey,     \* lowerKey of each name and text
  Plausible,    \* the names plausibleEntityName lets pass
  Predicate,    \* normalizePredicateLabel of each label, "" of a blank one
  Graphs,       \* the sets of edges a generation may serve
  HotLists,     \* what telemetry may answer: sequences of hot keys, each its
                \* text ("" for none) and predicate ("" for none), at most two
  Registry,     \* the predicates the registry knows
  SampleLimit,  \* seeds, or names, in a sample
  RowLimit,     \* rows of a query for neighbours: 4 * sampleLimit, at least 8
  HubLimit,     \* hubs remembered for a role
  PairLimit,    \* rows of a query for bridges: 2 * sampleLimit, at least 8
  MinShared,    \* minSharedForFactor
  None

Roles == {"head", "tail"}
MinHubs == 3

VARIABLES
  served,        \* the graph of the current generation
  asked,         \* the call in progress: its source and what it has still to try
  hubs, fresh,   \* the hubs of each role, and whether they are within their time
  nextRole,      \* the bridge source's counter, of which the parity counts
  semanticNext,  \* the semantic source's
  thought        \* what the last call returned, and history: the graph it saw

kept == <<hubs, fresh, nextRole, semanticNext>>
vars == <<served, asked, kept, thought>>

Init ==
  /\ served \in Graphs
  /\ asked = None /\ thought = None
  /\ hubs = [r \in Roles |-> {}] /\ fresh = [r \in Roles |-> FALSE]
  /\ nextRole = 0 /\ semanticNext = 0

Nothing == asked' = None /\ thought' = None
Offer(source, s, p, o) ==
  /\ asked' = None
  /\ thought' = [source |-> source, s |-> s, p |-> p, o |-> o, graph |-> served]
GoOn(rest) == asked' = rest /\ thought' = None

Fewest(S, limit) == IF Cardinality(S) < limit THEN Cardinality(S) ELSE limit

\* LIMIT: that many of the rows, by no order or by the greatest of a measure.
Limited(rows, limit) == kSubset(Fewest(rows, limit), rows)
Greatest(rows, measure, limit) ==
  {R \in Limited(rows, limit) : \A x \in R, y \in rows \ R : measure[x] >= measure[y]}

\* The names kept of a sample: one of each key.
Distinct(sample) ==
  {S \in SUBSET sample : \A n \in sample : Cardinality({m \in S : LowerKey[m] = LowerKey[n]}) = 1}

-----------------------------------------------------------------------------
(* Samples *)

Incident(role, name) == {e \in served : name = IF role = "head" THEN e[1] ELSE e[3]}
Degree(role) == [n \in {m \in Names : Incident(role, m) # {}} |-> Cardinality(Incident(role, n))]

\* A band of the ranking by degree behind a random offset; empty beyond its end.
Bands(degree) ==
  {B \in UNION {kSubset(k, DOMAIN degree) : k \in 0..Fewest(DOMAIN degree, SampleLimit)} :
     \A z \in DOMAIN degree \ B :
       /\ ~ \E x, y \in B : degree[x] > degree[z] /\ degree[z] > degree[y]
       /\ Cardinality(B) < SampleLimit => \A x \in B : degree[z] >= degree[x]}

\* Entities from a random offset on, or from the start when that is too far.
EntitySamples ==
  IF served = {} THEN {{}}
  ELSE UNION {Distinct(S) : S \in {T \in SUBSET Names : T # {} /\ Cardinality(T) <= SampleLimit}}

Seeds == UNION {IF B = {} THEN EntitySamples ELSE Distinct(B) : B \in Bands(Degree("head"))}

-----------------------------------------------------------------------------
(* The random source *)

RandomBegins ==
  /\ asked = None
  /\ \E seeds \in Seeds : GoOn([source |-> "random", seeds |-> seeds])
  /\ UNCHANGED <<served, kept>>

TwoHops(seed) ==
  {e[3] : e \in {x \in served : \E y \in served : y[1] = seed /\ y[3] = x[1]}} \ {seed}

\* mutant: only the seed itself is excluded
MissingMutant(seed, oneHop, twoHop) == {n \in twoHop : LowerKey[n] # LowerKey[seed]}

\* Neither the seed nor, as far as the limited rows show, its neighbours.
Missing(seed, oneHop, twoHop) ==
  {n \in twoHop : LowerKey[n] \notin {LowerKey[seed]} \cup {LowerKey[e[3]] : e \in oneHop}}

\* candidateForSeed, for the seeds in the order they were shuffled into.
RandomTries ==
  /\ asked # None /\ asked.source = "random"
  /\ \/ asked.seeds = {} /\ Nothing
     \/ \E seed \in asked.seeds :
          \E oneHop \in Limited(Incident("head", seed), RowLimit),
             twoHop \in Limited(TwoHops(seed), RowLimit) :
            LET predicates == {Predicate[e[2]] : e \in oneHop} \ {""}
                candidates == Missing(seed, oneHop, twoHop)
            IN  IF predicates = {} \/ candidates = {}
                THEN GoOn([asked EXCEPT !.seeds = @ \ {seed}])
                ELSE \E p \in predicates, o \in candidates : Offer("random", seed, p, o)
  /\ UNCHANGED <<served, kept>>

-----------------------------------------------------------------------------
(* The bridge source *)

Role == IF nextRole = 1 THEN "tail" ELSE "head"

\* The next hub to try; a call with too few of them finds nothing.
Seeded(known) ==
  IF Cardinality(known) < MinHubs THEN Nothing
  ELSE \E seed \in known : GoOn([source |-> "bridge", role |-> Role, seed |-> seed])

\* ensureHubs: what is known is kept while it is fresh, and when the graph
\* gives none.
BridgeBegins ==
  /\ asked = None
  /\ nextRole' = (nextRole + 1) % 2
  /\ IF fresh[Role] /\ hubs[Role] # {}
     THEN Seeded(hubs[Role]) /\ UNCHANGED <<hubs, fresh>>
     ELSE LET degree == Degree(Role) IN
          \E ranked \in Greatest(DOMAIN degree, degree, HubLimit) :
            \E found \in Distinct(ranked) :
              IF found = {}
              THEN Seeded(hubs[Role]) /\ UNCHANGED <<hubs, fresh>>
              ELSE /\ Seeded(found)
                   /\ hubs' = [hubs EXCEPT ![Role] = found]
                   /\ fresh' = [fresh EXCEPT ![Role] = TRUE]
  /\ UNCHANGED <<served, semanticNext>>

\* The query for hubs fails: what is known is not used either.
BridgeFails ==
  /\ asked = None /\ ~(fresh[Role] /\ hubs[Role] # {})
  /\ Nothing
  /\ nextRole' = (nextRole + 1) % 2
  /\ UNCHANGED <<served, hubs, fresh, semanticNext>>

\* The neighbours that seed and name share through a label in a role.
SharedBy(graph, role, seed, name, label) ==
  IF role = "head"
  THEN {m \in Names : <<seed, label, m>> \in graph /\ <<name, label, m>> \in graph}
  ELSE {m \in Names : <<m, label, seed>> \in graph /\ <<m, label, name>> \in graph}

Pairs(role, seed) ==
  {p \in (DOMAIN Predicate) \X (Names \ {seed}) : SharedBy(served, role, seed, p[2], p[1]) # {}}

Proposable(pair, seed) ==
  LowerKey[pair[2]] # LowerKey[seed] /\ pair[2] \in Plausible /\ Predicate[pair[1]] # ""

\* bridgeFromSeed: the first acceptable row, which shares most.
BridgeTries ==
  /\ asked # None /\ asked.source = "bridge"
  /\ LET shared == [p \in Pairs(asked.role, asked.seed) |->
                      Cardinality(SharedBy(served, asked.role, asked.seed, p[2], p[1]))]
     IN  \E rows \in Greatest(DOMAIN shared, shared, PairLimit) :
           LET good == {p \in rows : Proposable(p, asked.seed) /\ shared[p] >= MinShared}
           IN  IF asked.seed \notin Plausible \/ good = {} THEN Nothing
               ELSE \E p \in good :
                      /\ \A q \in good : shared[q] <= shared[p]
                      /\ Offer(asked.role, asked.seed, Predicate[p[1]], p[2])
  /\ UNCHANGED <<served, kept>>

-----------------------------------------------------------------------------
(* The semantic source *)

SemanticBegins ==
  /\ asked = None
  /\ \E keys \in HotLists \ {<<>>} :
       LET place(i) == ((semanticNext + i - 1) % Len(keys)) + 1
       IN  GoOn([source |-> "semantic", keys |-> [i \in DOMAIN keys |-> keys[place(i)]]])
  /\ semanticNext' = (semanticNext + 1) % 2
  /\ UNCHANGED <<served, hubs, fresh, nextRole>>

\* The embedder ranks a sample of names, or fails, as it does for a lone text.
SemanticTries ==
  /\ asked # None /\ asked.source = "semantic"
  /\ IF asked.keys = <<>> THEN Nothing
     ELSE LET key == Head(asked.keys) IN
          \/ GoOn([asked EXCEPT !.keys = Tail(@)])
          \/ key.text # "" /\ \E names \in EntitySamples :
               IF names = {} THEN Nothing
               ELSE \E o \in {n \in names : LowerKey[n] # LowerKey[key.text]},
                       p \in IF key.predicate = "" THEN Registry ELSE {key.predicate} :
                      Offer("semantic", key.text, p, o)
  /\ UNCHANGED <<served, kept>>

-----------------------------------------------------------------------------

\* A query fails, or no generation is served.
Fails ==
  /\ asked # None /\ Nothing
  /\ UNCHANGED <<served, kept>>

Swap ==
  /\ served' \in Graphs \ {served}
  /\ UNCHANGED <<asked, kept, thought>>

\* bridgeHubTTL passes.
Expire ==
  /\ \E r \in Roles : fresh[r]
  /\ fresh' = [r \in Roles |-> FALSE]
  /\ UNCHANGED <<served, asked, hubs, nextRole, semanticNext, thought>>

Next ==
  \/ RandomBegins \/ RandomTries
  \/ BridgeBegins \/ BridgeFails \/ BridgeTries
  \/ SemanticBegins \/ SemanticTries
  \/ Fails \/ Swap \/ Expire

Spec == Init /\ [][Next]_vars

-----------------------------------------------------------------------------

(***************************************************************************)
(* What the sources propose holds in the graph their last helper saw,      *)
(* although seeds and hubs may stem from earlier ones: a missing link      *)
(* leads two steps on, by a predicate of its subject, to an entity to      *)
(* which there is no edge unless there are more than the query returns; a  *)
(* bridge is between plausible entities that share enough, and none that   *)
(* could be proposed shares more, however few rows the query returns; a    *)
(* semantic thought is not about an entity and itself                      *)
(* (topic_selector.go:417-802).                                            *)
(***************************************************************************)
MissingLink(t) ==
  LET edges == {e \in t.graph : e[1] = t.s} IN
  /\ \E e \in edges : Predicate[e[2]] = t.p
  /\ \E e \in edges, f \in t.graph : f[1] = e[3] /\ f[3] = t.o
  /\ LowerKey[t.o] # LowerKey[t.s]
  /\ Cardinality(edges) <= RowLimit => \A e \in edges : LowerKey[e[3]] # LowerKey[t.o]

Bridge(t) ==
  LET strength(label, name) == Cardinality(SharedBy(t.graph, t.source, t.s, name, label)) IN
  /\ {t.s, t.o} \subseteq Plausible /\ LowerKey[t.o] # LowerKey[t.s]
  /\ \E label \in DOMAIN Predicate :
       /\ Predicate[label] = t.p /\ strength(label, t.o) >= MinShared
       /\ \A x \in (DOMAIN Predicate) \X (Names \ {t.s}) :
            strength(x[1], x[2]) > strength(label, t.o) => ~Proposable(x, t.s)

ThoughtsAreGrounded == thought # None =>
  CASE thought.source = "random" -> MissingLink(thought)
    [] thought.source = "semantic" -> LowerKey[thought.o] # LowerKey[thought.s]
    [] OTHER -> Bridge(thought)
=============================================================================
