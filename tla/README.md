# A TLA+ model of the Pensiero daemon

Pensiero is a Go daemon that answers reasoning queries (`Derive`, `Entails`,
`Contradicts`) over read-only graph snapshots, and, while nobody asks, builds
and publishes better snapshots ("generalized graphs") and thinks about them.
This directory holds TLA+ modules of its concurrent core and of its
algorithms, TLC configurations that model-check them on small instances, and
proofs that TLAPS checks for every instance. Paths below are relative to `src/`.

    tlc -workers 2 -config MCHandlePool.cfg MCHandlePool    # check a model
    tlapm QueryProofs.tla                                   # check a proof

`PROJECT.json` lists the components, the runs, the source lines behind every
definition, the mutants that show each property can fail, the hazards of the
code, and the theorems.

## 1. Inventory

| Component | Source | State | Operations | What is hard |
|---|---|---|---|---|
| Handle pool | `cmd/pensiero/pool.go` | `available` channel of idle handles, `closed` flag, `done` channel, wait group | `Query`, `returnHandle`, `Close` | a query that took a handle while `Close` runs; a handle closed in use; waiters at shutdown |
| Generation store | `cmd/pensiero/generation.go` | current generation, rollback list, reference counts | `Acquire`, release, `Swap`, `Rollback`, `Close` | the count drops under the lock, the pool closes outside it |
| Snapshot reloader | `cmd/pensiero/reloader.go` | last fingerprint, stop/done | tick, `Reload`, `Close` | a publish between looking and loading |
| Snapshot publisher | `pkg/generalization/igl.go` | the scope's link, versions, temporary files | `Publish`, `Loop.RunOnce` | crash or cancellation between two file-system steps |
| Topic manager | `cmd/pensiero/topic_manager.go` | open topics, LRU order, closing entries | `acquireTopic`, `Acquire`, `Close`, `TopicSnapshot` | eviction while borrowed, shutdown while opening, background rotation against queries |
| Proof cache | `cmd/pensiero/cache.go` | LRU entries, byte count, calls in flight | `Entails`/`Derive`/`Contradicts` through `loadOrCompute` | leader fails, is cancelled or panics while others wait |
| Load tracker | `cmd/pensiero/load.go` | in-flight count, idle-since stamp, the one active pass | `Begin`, end, `Idle`, `BeginIdlePass`, `Yield` | two atomics and a mutex that are not one critical section |
| IGL scheduler | `cmd/pensiero/scheduler.go` | busy streak, last publish | `Run`, `runPass` | a query arriving while a pass starts |
| Leader election | `cmd/pensiero/leader.go`, `leader_runner.go`, `leader_flock_unix.go` | flock per scope | `TryAcquire`, `Holds`, `Release`, `Close` | two daemons, crashes |
| gRPC runtime | `cmd/pensiero/serve_grpc.go`, `serve.go` | what must be closed, in which order | start, `Close` | background goroutines still running at shutdown |
| Cognition | `cmd/pensiero/cognition.go`, `cognition_store.go`, `thinking.go` | thoughts of a window, questions, unconfirmed facts, the status shown | idle windows, thoughts, `Emit`, `Record` | a query between two thoughts; an index under eviction; a status set from several places |
| Topic selector and its telemetry | `cmd/pensiero/topic_selector.go`, `telemetry.go` | ring of recent queries, round-robin counters, hubs remembered for ten minutes | `Record`, `HotKeys`, `UnresolvedClaims`, `Next` of five sources | the ring's wrap, starvation of a source, hubs of a graph no longer served |
| Inventory, health, command line | `cmd/pensiero/inventory.go`, `load_rules.go`, `main.go` | snapshot of predicate counts | refresh | a third kind of idle pass |
| Validator | `cmd/pensiero/validator.go` | golden cases | validate a candidate | pure queries |
| Generalization builder | `pkg/generalization/builder.go`, `direction.go`, `queries.go`, `emitter.go`, `backup.go` | one build | read the hierarchy, levels, lifting, assembly | cycles, the order a Go map is walked in, two ways of naming an entity |
| Conditional reasoner | `pkg/reasoning/conditional.go`, `conditional_graph.go`, `assumed_facts.go` | search state with four caps | `Entails`, `FireRules` | negation as failure under a cap |
| Predicate and type packs | `pkg/reasoning/predicate_packs.go`, `predicates.go`, `type_packs.go`, `domain_range.go`, `cmd/pensiero/registry.go` | the registry | layering, validation, normalization | the order in which layers are named |
| Reasoning library | rest of `pkg/reasoning` | memos of names and types | native and portable backends, filter | orientation, failed look-ups that are remembered |
| C++ extension | `extension/reasoning` | none | `REASON_ENTAILS` | the path search |
| Taxonomy | `pkg/taxonomy` | ontology | direction of an edge, parsing | a decision from three kinds of evidence |
| gRPC service, connectors, database | `pkg/grpcsvc`, `pkg/connector`, `pkg/db` | connections | conversion, I/O | I/O |

How they interact. A query enters through the gRPC service, which tells the
load tracker (`Begin`), and reaches the proof cache through the topic manager,
which borrows the current generation of the topic's generation store for the
length of the query. A generation owns a pool of graph handles. The reloader of
each open topic polls the snapshot's path and swaps a new generation in; the
old one is closed by whoever gives its last reference back. The scheduler asks
the leader elector which scopes this daemon may publish, waits for the load
tracker to grant an idle pass, and runs the publisher; cognition and the
inventory refresh want idle passes from the same tracker. Nothing is persisted
but lock files, snapshots and the links to them, so a crash matters to the
publisher and the elector only.

What makes each component correct, in a line:

- **Pool**: no query on a closed handle; no handle lost, duplicated or leaked;
  waiters and `Close` return.
- **Generation store**: exact counts; no use after close; everything retired is
  closed, once.
- **Reloader**: what it remembers as loaded is served; changes are loaded.
- **Publisher**: the path leads to a complete, validated snapshot at any moment.
- **Election**: at most one daemon works on a scope; some daemon does.
- **Topic manager**: table, list and limit agree; what is evicted is closed;
  `Close` leaves nothing behind.
- **Proof cache**: one computation per key; an answer is a finished result of
  the generation that was asked; nobody inherits another's error; the limits
  hold.
- **Load tracker**: queries come first; passes exclude each other; idle time is
  found and used.
- **Scheduler, cognition, shutdown**: a query stops the worker within one
  thought; `/thinking` tells the truth; quiet time reaches every passer; a
  daemon told to stop does.
- **Cognition's stores**: the place of every unconfirmed fact is known, and it
  is the latest; no question twice.
- **Topic selector**: the ring is the last queries; hot claims are thought about
  again and again, and so is the random region where its source is kept; what is proposed holds in the
  graph it is proposed for.
- **Packs**: a registry declares what it refers to, and what a spelling means
  does not depend on the order in which packs are named.
- **Reasoners**: nothing is entailed that does not follow from the edges and
  rules; where no cap was met, everything that follows is.
- **Builder**: a hierarchy without cycles, lifted relations that are supported
  and complete, and nothing of the source lost.

## 2. Modules

| Module | Models | State | Actions |
|---|---|---|---|
| `GenerationService` | what a store promises: lend, return, publish, revert, dispose | the serving and retained generations, who holds what | abstract |
| `GenerationStore` | `generation.go` | `current`, `rollback`, `closed`, `refs` are the code's fields; `pool` is whether a generation's handles are open; program counters of clients, swappers and the closer | each critical section of the store's mutex (`Acquire`, `Release`, `Swap`, `Rollback`, `CloseBegin`, ...) and, as steps of their own, the closing of a pool after the unlock (`ClientDispose`, `SwapperDispose`, `CloseDispose`) |
| `HandlePool` | `pool.go` | `available` is the channel (as a set), `wg` the wait group, `closePc # "idle"` the closed flag and the done channel, `handles` the list `Close` walks, `fresh` the handle just opened that is not in it yet | `OpenHandle`, `InitHandle`, `OpenFails`, `InitFails`; a query is `QueryStart`, `TakeHandle`, `RefuseWaiter` or `GiveUp`, `Enter`, `ReturnHandle`, `Leave`; `Close` is `CloseBegin`, `CloseDrained`, `CloseHandle`, `CloseReturn` |
| `ProofCache` | `cache.go` | entries, LRU list, byte counter, calls in flight; what each request knows | `Start`, then `Hit`, `Join`, `LookupCancelled` or `Lead`; the leader's `Compute`, `Insert`, `FinishCall`, `CloseDone`; a waiter's `TakeResult`, `Retry`, `WaitCancelled` |
| `SnapshotReload` | `reloader.go`, the opening of a generation in `topic_manager.go` and `serve_grpc.go`, and a publisher | the snapshot at the path, the snapshot of every handle, the remembered fingerprint | `Publish`; `OpenBegin`, `OpenHandle`, `OpenFails`, `Admit`, `RejectFirst`, `StartReloader`; `Tick`, `Reload`, `Reject`; `StopBegin`, `Stop` |
| `TopicManager` | `topic_manager.go` | open topics, LRU list, the entries (one per opening) and who closes them, the rotation of the cognition worker | `Query`, `Release`; `RotateBegin`, `ScanOpen`, `ScanSlot`, `RotateAcquire`, `RotateFails`, `Fallback`; `EvictedCloses`, `Drained`; `CloseBegin`, `CloseNext`, `CloseWait`, `CloseReturn` |
| `LoadTracker` | `load.go`, with `runPass` of `scheduler.go`, `runIdleWindow` of `cognition.go` and the inventory refresh as the passes | the two atomics, `passMu`, the slot, program counters, the poller | one per access to an atomic or to `passMu`: `BeginCount` to `BeginCancel`, `EndNow` to `EndRecord`, `PassBegin`, `IdleCount` to `PassStarts`, `YieldBegin`, `YieldEnd`, `PollSees` to `PollLeaves`, `PassReturns`, `PassStops` |
| `PublishingService` | what the daemons promise: one leader per scope, only it publishes, only newer snapshots | leader and published snapshot of each scope | abstract |
| `Publishing` | `leader.go`, `leader_runner.go`, `leader_flock_unix.go`, `igl.go`, the election in `scheduler.go` | the kernel's locks and the directory; of each daemon its table of locks and where it is | `Wake`, `Ask`, `AskFails`, `LeadDone`, `HoldDone`; `NextScope` to `PassEnds`; a file-system call each: `WriteBegin` to `PublishLink` or `PublishFile`; `AttemptFails` and the clean-ups; `CloseBegin`, `Unlock`, `Exit`, `Crash`, `Start` |
| `Background` | `scheduler.go`, `cognition.go`, `thinking.go`, `inventory.go`, the shutdown of `serve_grpc.go` and `serve.go` | the slot and the contexts of the passes, where each of the three goroutines is, the status flags, the runtime and who has borrowed a generation of its stores | `IglSleeps` to `IglEnds`; `CogSleeps`, `CogBegins`, `CogSelects`, `CogThinks`, `CogThought`, `CogStops`; `InventoryBegins`, `InventoryEnds`; `Borrow`, `GiveBack`; `Poll`; `Terminate`, `Drain`, `CloseStores`, `StoresClose`, `Return` |
| `CognitionStores` | `cognition_store.go`, the writes of `ThoughtEngine` | questions and those asked, unconfirmed facts and their table of places | `Hunt`, `Test`, `Bridge` through `Emit` and `Record` |
| `TopicSelector` | `telemetry.go`'s ring, `topic_selector.go`'s choice and its two telemetry sources | ring, counters, the call in progress | `Query`, `Pick`, `AskHot`, `AskUnresolved`, `AskGraph`, `CtxEnds` |
| `ThoughtSources` | the random, bridge and semantic sources of `topic_selector.go` | the graph served, the call in progress, the hubs | `RandomBegins`, `RandomTries`, `BridgeBegins`, `BridgeTries`, `BridgeFails`, `SemanticBegins`, `SemanticTries`, `Fails`; `Swap`, `Expire` |
| `PredicatePacks` | packs, type packs, registry files | none | functions of the packs |
| `PredicateRegistry` | entailment between predicates, composition, orientation | none | functions of the registry |
| `NativeReasoning` | `native.go`, `entity_resolve.go`, `orientation.go`, `extension/.../entails.cpp` | the two memos, the last answer | one query with any of its look-ups failing |
| `GraphEngine` | `engine.go`, `cypher.go`, `predicate_constrained.go` | none | `Derive`, `Entails`, `Contradicts`, the filter, as the sets of answers they may give |
| `ConditionalReasoning` | `conditional.go`, `conditional_graph.go`, `assumed_facts.go` | none | `Search`, `FireRules` over a search state, as functions of what deeper searches answer |
| `Generalization` | `pkg/generalization`, `pkg/taxonomy/direction.go` | one build | `ReadLevel`, `QueryFails`, `StartLevels`, `Raise`, `StartLifting`, `Lift`, `Assemble` |
| `Sequential` | the selector, its sources, the packs, the native reasoner, the portable engine and the builder side by side with `CognitionStores`: which one a behaviour is about is chosen at its start; they read one registry | all of theirs | theirs, and `Answer` for those that are functions |
| `MCSequential` | small instances of `Sequential`, with the questions put to the rules | none of its own | none of its own |

`GenerationStore` is shown to implement `GenerationService`, and `Publishing`
to implement `PublishingService`, by refinement mappings (`ImplementsService`
in both). `SnapshotReload` composes a reloader, the pool it fills and a
publisher; `Publishing` composes election, passes and publication;
`LoadTracker` composes queries, the passes of three components and their
poller, cut at every atomic access; `Background` composes the same three at
the grain of their loops, with the shutdown; `TopicManager` composes the
manager with the stores of its topics, of which only what it relies on is
kept: closing one waits for its borrowers.

The algorithms are written with recursive functions, so that proofs can be
about them. In `ConditionalReasoning` the searches for a positive and for a
negated goal call each other, and hand a state of counters on: each operator
there takes what deeper searches answer as an argument, a function of the rules
being tried, the claim and the state, and `Search` is the one function that
ties them together, level by level up to `maxDepth`. The code's loops are
`Loop`s: a function of the round and of what it hands on, applied in turn.
`GraphEngine`'s trails are sequences of hops, an edge and the way it was gone.
Its query returns the shortest trails up to `LIMIT` (four times
`Config.Limit`) *before* the engine looks at the target, the floor of
confidence and the predicate, and the engine cuts what is left once more, the
most confident first (`Cut`, used for both). Which of several equally long or
equally confident trails are kept is the database's choice, so each function
yields the set of its possible answers.

Abstractions that matter:

- In the concurrent modules snapshots and generations are numbers or values, graphs
  have no content. A fingerprint is the number of the snapshot it was taken of.
- A cache key is a generation and a claim: normalization and hashing are
  injective as far as the model is concerned. A result is its generation,
  whether it was finished, and its size.
- The rate and the latency percentile of the load tracker are one flag, `hot`,
  that moves freely once a query was recorded. The repair of a negative count
  is left out; `LoadInvariant` proves the count never is.
- `storeZeroSinceMax`'s compare-and-swap loop is one step: it has one effect,
  at the moment it succeeds.
- The building of a topic's generation under the manager's mutex is part of
  the critical section it runs in; `SnapshotReload` is where it is cut open.
- A pass visits its scopes in any order. What a failed attempt removes it does
  remove (the code ignores errors of these removals).
- Whether a snapshot is a directory is fixed per scope (`Directories`).
- In `Background` the length of a sleep is left out, and an interval between
  publications is a few ticks.
- A claim is known by its `claimDedupeKey`, a spelling by its `normKey`, an
  entity by a value: trimming and folding of case are tables (`KeyOf`,
  `NormKey`, `LowerKey`), given by the instance.
- Confidences are kept where a decision depends on them, as costs: in the
  conditional reasoner, and in the portable engine, where the costs of a
  trail's edges add up, every further hop costs one (the decay) and `MaxCost`
  is `MinConf`.
- The key hash by which the telemetry groups queries is of the generation, the
  claim and the method: after a reload the same claim starts another group.
- A hierarchy edge has the predicate it is stored with, `is_a` or its inverse;
  `ApplyDirection` swaps ends and nothing else, and the derived graph has that
  predicate.

## 3. Runs

Every run sets `CHECK_DEADLOCK FALSE`: each of these components may stop for
good, having been closed, having answered, or at a bound of its model. That
nothing waits for ever is a liveness property where it matters.

| Run | Instance | Shows |
|---|---|---|
| `store` | 4 generations, 2 clients, 2 swappers, 1 rollback slot (the code's); 53,684 states | `RefsCountReaders`: counts are exact. `ImplementsService`: refinement. `RetiredGenerationsClose`: what is retired is closed, and `Close` returns |
| `pool` | 3 callers, 2 handles; 1,980 states | `NoQueryOnClosedHandle`, `HandlesConserved`, `ClosedPoolLeaksNothing` (also when a handle fails to open or to initialize), `QueriesReturn`, `CloseTerminates` |
| `cache` | 2 requests, 2 claims, 2 generations, results of 1 and 4 bytes, 2 places, 3 bytes; 104,398 states | `SingleFlight`, `AnswersAreSound`, `CacheConsistent` (limits and counters), `OwnErrorsOnly`, `RequestsReturn` |
| `reload` | 2 handles, 4 snapshots, 1 rejected; 1,994 states | `ReloadsServeTheirFingerprint`: a reload serves at least what it remembers. `ChangesAreLoaded`: unrecorded changes are loaded |
| `topics` | 3 topics, 2 open at once, 1 query at a time beside the worker, 4 entries; 82,002 states | `TableConsistent`, `ClosedManagerIsEmpty` (`Close` returns only when every entry is closed), `EvictedTopicsClose`, `CloseTerminates` |
| `load` | 2 queries, a polled and an unpolled passer, 2 moments of time; 112,655 states | `OnePass`, `QueriesPreempt`, `PassesGiveWay`, `IdleTimeIsUsed` |
| `publish` | 2 daemons, 2 scopes (one of directories with a lock that may fail, one of files), 2 earlier snapshots and 1 new attempt, 1 crash; 111,704 states | `FinalIsComplete` at every moment, `FailuresCleanUp`, `ImplementsService` (one publisher per scope), `LeaderFound`, `LeadersPublish` |
| `background` | windows of 3 thoughts, an interval of 2 ticks; 26,347 states | `PreemptedSoon`, `StatusIsTrue`, `QuietTimeIsShared`, `ShutdownTerminates` |
| `sequential` | see below; 71,091 states | one property for each component of `Sequential`, two for the selector and one for the two reasoners, and `SearchIsSound` of rules |
| `reload_stale`, `conflict_missed`, `named_scopes` | as above | the disagreements of section 6 |

What `sequential` asks, and of which instances:

| Kind | Instance | Property |
|---|---|---|
| stores | 4 keys, one a tautology, stores of 2 | `FactsAreLatest` |
| selector | a ring of 3 events, 2 hot keys, 3 sources of weight 1, 3 claims, one implausible | `RandomIsTheFloor`, `HotKeysArePrewarmed` |
| thoughts | a graph of ten edges with a blank label, a sentence for a name and two spellings of one, and an empty graph, swapped at any moment | `ThoughtsAreGrounded` |
| packs | 5 packs in every order of up to two and some of three, a blank name and an alias in two spellings among them, 6 files, 3 lists of type packs with a circle | `RegistryIsCoherent` |
| native | 16 graphs over 3 entities with a cycle, a conflict, a deduced edge, a name to resolve; every look-up may fail | `ProofsAreSound` |
| paths | every subset of 6 edges, one of them below the floor of confidence; a chain whose inverse is asked for, with a gene and a deduced edge; every subset of 6 edges around a subject with more trails than `LIMIT` at `Limit` 1; nine classes at `Limit` 8; 11 goals | `ProofsAreSound` |
| rules | 3 rule sets with recursion, negation, exceptions; 4 caps; every subset of 4 facts, 4 contexts of weak, assumed and contradicted ones; 5 goals | `SearchIsSound` |
| build | every hierarchy over 6 possible edges, cycles included, half of them stored under the inverse of `is_a`, and one deeper than the limit with a pair stored under both; 2 scopes by names or ids | `DerivedGraphIsWellFormed` |

Why these bounds are enough to mean something. In `store` a generation can be
current, in the rollback slot, evicted and borrowed, and candidate all at once,
and two clients make a count of three; with four generations the slot overflows
twice. In `pool` there are more callers than handles, so some wait when `Close`
comes. In `cache` one claim has two keys across the generation change, a
request waits for the other's call while that is cancelled, fails, or
finishes, and a result of 4 bytes alone exceeds the limit. In `reload` a
snapshot can be published before, between and after every two steps of one
reload, and a rejected one can be overtaken. In `topics` an entry is one opening
of a topic, and there are four for two places: both places can be taken, a
topic that was evicted can be opened again while its first entry is still
borrowed or being closed, a second eviction follows, and `Close` can begin at
any of these moments. In `load`
both orders of two overlapping queries occur, and two moments are enough for a
stamp to be too young. In `publish` a scope's file or link of an earlier
daemon is replaced by a new one, by either daemon, and the crash can hit
between any two calls. In `background` a window has thoughts before, at and
after the moment a query begins, a published pass makes the next one wait, and
the selector, a thought or the inventory can hold a generation when the stores
begin to close.
In `sequential` the ring wraps and every store evicts, the random source's
forced turn comes due, a hub is remembered across a change of the graph, caps
are met and not met, and cycles have two and three edges. The bounds
`MaxAttempts`, `MaxCrashes`, `MaxClock`, `LastSnapshot`, `LastGeneration`,
`Entries`, `MinPublish` (which stops `lastPublish`) and `Period` (which keeps
the remainders of the round-robin counters) stop counters that the code leaves
unbounded.

The reference definitions of the algorithms are independent of them: the least
model of the rules, stratum by stratum (`Model` of `ConditionalReasoning`), all consequences of a
set of edges (`PredicateRegistry`, `Consequences`), the meaning of a layer as
its last word (`PredicatePacks`, `LastWord`, `Ambiguous`), and, for a build,
what may be lifted and what must be.

## 4. Fairness

Each module states its fairness next to `FairSpec`, action by action. In words:

- a goroutine that can take its next step takes it (weak fairness); a request
  that holds something gives it back, since its deferred release runs even when
  its backend panics;
- a channel receiver that waits for a handle is served in order of arrival by
  Go's runtime, so a handle that comes free again and again is not given to
  others for ever: strong fairness of `TakeHandle`;
- a goroutine that waits for `passMu` or the topic manager's mutex gets it: a
  Go mutex hands itself over to a waiter that has waited too long, hence strong
  fairness of `PassBegin`, `PassStops`, `PollStops`, `PollCancels` and
  `RotateBegin`;
- the reloader's ticker fires, and its `select` does not choose the tick for
  ever when the stop channel is closed: strong fairness of `Stop`;
- a daemon that runs keeps running and wakes up again;
- in `Background` calls, passes, thoughts and sleeps end, each having a deadline
  or a context of its own, and the clock goes on. The delays between two looks
  at the load are jittered (`defaultIGLJitter`), so they do not fall into step
  with the other passes for ever: strong fairness of waking while the slot is
  free, and of `IglBegins` and `CogBegins`. Without it two schedulers in
  lockstep could always find each other's pass. Strong fairness of `IglBegins`
  also says that the scheduler gets to begin whenever it again and again could:
  the daemon is one that leads some scope (whether it does is `Publishing`'s
  subject), and `QuietTimeIsShared` promises nothing of one that leads none;
- what is borrowed in `Background` is given back (`GiveBack`: a release is
  deferred, and queries of a pool end), and a selection, a thought and a
  refresh end although their calls come and go, since each makes finitely many
  of them: strong fairness of `CogCallsEnd` and `InventoryEnds`, which are
  possible only between two calls;
- in `TopicSelector` a call once begun goes on, and the worker keeps calling.
  Nothing is asked of the random numbers: `RandomIsTheFloor` holds however they
  fall, and `HotKeysArePrewarmed` has it as a premise that they keep picking
  the source of hot keys.

No fairness is assumed of what the environment decides: that a query arrives,
that a snapshot is published, that a build succeeds, that a daemon is started
or told to stop, or that a crash happens. Where a property needs such a thing
it says so as a premise (`FindsIdleTime`, no `OpenFails` from some moment on,
`<>[]quiet`, no call of the selector cut short from some moment on).

## 5. Proofs

TLAPS checks every step with SMT, Zenon and LS4. What is assumed are the named
`ASSUME`s of the components' constants, which TLC evaluates in every run: finite
sets of goroutines, null values outside the sets they extend, positive sizes,
finite graphs. Those of `Sequential` say more, each with the code that
establishes it: a registry refers to predicates it declares
(`RegistryIsValidated`, `packMerge.validate`), what composes with `is_a` is
declared with its types and inverse (`InheritablesAreDeclared`, the built-in
packs), a canonical spelling is no other predicate's alias
(`SpellingsAreUnambiguous`, true of the built-in packs, not enforced of others), an
entity's name is one of its spellings (`NamesAreSpellings`), packs and files are
records of spellings, of which there are finitely many, and the general pack is
registered (`SpellingsHaveKeys`, `PacksAreRecords`). Of the rules they say no
more than the types of the code: finitely many names, worlds and goals made of
them, costs that are numbers (`RuleNamesAreFinite`, `RuleQuestionsAreTyped`,
`CostsAreNatural`).

| Module | Invariant | What it adds to the properties, and why it is needed |
|---|---|---|
| `GenerationStoreProofs` | `StoreInvariant` | counts are exact, whatever is counted is open, a generation that someone is disposing of has count zero and one disposer, and a candidate is not yet in the store: that no count rises from zero follows, and with it safety of borrowers and the refinement of `GenerationService` |
| `QueryProofs` | `PoolInvariant` (of `HandlePool`) | `wg` is the number of entered queries and no handle is closed before that is zero: this links the flag a query reads under the lock to the handle it took before. Every open handle is in the list at or after the place `Close` has come to, or is the one being initialized, which exists only while the pool is built: that nothing is left open follows when the list is at its end |
| `ProofCacheProofs` | `FlightInvariant` | the table of calls and the program counters name each other; a waiter's leader has the waiter's key; what is cached or delivered is finished and of the key's generation |
| `ProofCacheProofs` | `CacheListed` | the list holds exactly the cached keys, each once, and the byte counter is the sum of their sizes: a fold over a set, shown to be independent of the order it is added up in and additive, so that an insertion, an overwriting and the evictions that follow change both by the same |
| `TopicManagerProofs` | `ManagerInvariant` | list and table agree and exactly the open entries are in the table; `closeWG` counts the entries in the background; an entry `Close` is at is no background closer's; once `Close` has begun no entry is open: when `closeWG` is zero and `Close` has been through what it took, every entry is closed |
| `QueryProofs` | `LoadInvariant` (of `LoadTracker`) | the count is the number of queries between their two atomic steps; whoever is between `BeginIdlePass`'s checks holds `passMu`, so the count cannot rise |
| `PublishingProofs` | `PublishInvariant` | a daemon's table is what the kernel granted; work is on led scopes only; an attempt in hand is nobody else's, newer than what is published, and validated when it is linked |
| `PublishingProofs` | `AttemptsTidy` on top of it | where each attempt's data and link can be for every place its daemon is at: what an orderly failure leaves behind follows, since the deferred clean-ups run in a fixed order |
| `BackgroundProofs` | `CognitionInvariant` | a thought that began too late knows that its context is done, so the window begins no other; nothing takes a cancellation back before the window ends. The stores close after the daemon's end, under no call and when nothing is borrowed, and lend nothing afterwards |
| `BackgroundProofs` | `ReloadInvariant` (of `SnapshotReload`) | what is being built is at least as new as the fingerprint it is built for, and exactly it when the path is a link |
| `SequentialProofs` | `StoresInvariant`, `RingTold` | the index is exact through every shift; the slot each retained event is in |
| `SequentialProofs` | `ThoughtsHold` | a call in progress is a source's, in one of its roles, over a graph that was served; what it proposed held in the graph its last helper read: seeds and hubs may be older |
| `SequentialProofs` | `BuildHolds` | the edges read are the hierarchy's, in a direction that stands; what a node carries up is held by entities of the scope under it; what is lifted has as much support as it says; after the first round everything that enough children share is lifted (if the scope is given by uuids). The ends of its edges are in the derived direction; of their predicates nothing is promised (section 6). That the emitted hierarchy has no cycle follows, since an edge is emitted only where the level rises |
| `SequentialProofs` | `NativeHolds` | the memo of types says what the graph says, or that a look-up was lost; the last answer "entailed" follows from the edges as the types orient them |
| `SequentialProofs` | `Says`, `Agree`, `Fits` (of a merge) | what is merged from layers: the predicates of the last layer that declares them, aliases that some layer gives, the references of all; built-in layers merge without a clash exactly where they agree two by two, which no order changes; every entry is under its own key |
| `RuleProofs` | `Sound`, `Oracle`, `Gives` (of a search) | a question put while some rules are being tried is answered as if these were no rules for their claims: at its level exactly what is reached without them, below it exactly the model; a condition finds bindings that it holds for, and all of them when no cap was met |

Each proof has a lemma that `Init` implies the invariant, one that a step of
`Next` preserves it, by cases on the actions, and the theorems that follow. The
theorems listed in `PROJECT.json` state, for every number of goroutines,
generations, topics, snapshots, daemons and scopes, for every limit, graph and
registry: the invariants, every safety property of the runs, the action
properties `OwnErrorsOnly` and `ReloadsServeTheirFingerprint` (and
`NoResurrection`, which no run needs any more), and both refinements.

The algorithms need facts about what recursive functions compute. They are had
without an induction rule that takes a predicate: `Induction` and
`SubsetInduction` speak of a *set* of numbers, or of subsets, that is closed
under the step; `IterationExists` and `Saturation` show that a function given by a
recursive equation exists, and that saturating a finite set under a monotone
function yields its least closed extension. They stand at the head of
`RuleProofs`, which `SequentialProofs` extends. On these rest `UpwardsIsClosed` (the
ancestors of an entity), `AboveIsLeast` and `ConsequencesAreClosed` (everything
a registry derives from a set of edges), `WalksAreChains` and `TrailsAreChains`
(what a path search returns), `ReduceFolds` (a path reduced by compositions is a
derivation). `EntailedIsSound` then says of both reasoners that what they accept
is among the consequences: a path is a chain of edges each of which holds as
oriented; a reduction composes what follows; what holds of a predicate holds of
those above it. Of the portable engine that much holds whatever its limits cut
off (`DerivedKeeps`: what is returned is some of the trails). What it finds is
promised only where the limits cannot matter: a stored edge it is confident of
is entailed, unless contradicted, when the subject has no more edges than the
query returns rows (`CutKeeps`: one edge is shorter than all but other single
edges), and the filter over a backend of paths agrees with the engine when
nothing is cut off at all. A claim about a subject with more edges may be
"unsupported" although the edge is stored.

`RegistriesAreCoherent` is about merging. A merge is a fold over layers, and two
orders of the same packs run through different states. `MergedSays` says what a
merge that succeeds contains, and `BuiltinsAgree` when one of built-in layers
succeeds, both by induction on the number of layers and in terms no order
changes; so `OrderIsImmaterial`, that packs in any order fail together or
`Mirrors` each other (an alias may keep another raw spelling, lists another
order), which the file's own layer, validation and the table of spellings
preserve (`MergesMirror`, `MirrorsAreValid`, `RegistriesAlike`). That the last
layer has the last word (`LastWordsHold`), that normalizing twice changes
nothing where no spelling has two meanings (`OnceIsEnough`) and that subtypes
pass (`SubtypesHold`) follow from `Says`, `Fits` and `Saturation`.

`SearchesAreSound` is about the conditional reasoner: for any rules, facts,
caps and claims, what a search without negated conditions entails is in the
model of its rules; what it entails when it met no cap is exactly that model,
with negation and exceptions; a rule fires only with a true instance. Three
things make it harder than a proof of backward chaining: work, rules and depth
are counted through the whole search, so that what one branch answers depends
on all before it; a rule that is being tried for a claim is not tried for it
again deeper, so that an answer is relative to the rules above it; and a cap
that was met anywhere spoils "not entailed", which a negated condition and an
exception rely on. The argument:

- `LoopIterates`, `LoopKeeps`: what each round of a loop keeps, the loop keeps.
- `Later`: a state only ever counts up, and a cap once met stays met. So "no
  cap was met" at the end says the same of every state before it, and what is
  said of an answer is said under that condition (`Okay`, `MetNoCap`).
- `EvalConditionsGives`: if deeper answers agree with a set of claims
  (`Oracle`), the conditions of a rule, in the order that `Ordered` puts them
  in, yield bindings under which all hold, and every such binding when no cap
  was met. `VetoVets` says the same of exceptions; `TryRuleTries`,
  `TryRulesTries` and `EntailsJudges` carry it up through a rule and a
  question.
- `Reach(w, l, A, M)` is the least set of claims that the rules of level `l`
  give above `M` when the pairs of a rule and a claim in `A` are left out.
  `ReachHasProver` is the heart of completeness: a claim that is reached at all
  is reached by an instance of a rule whose conditions are reached *without*
  that rule for that claim, so not trying it again loses nothing.
  `ReachedAll`: with nothing left out it is the model of the level.
- `SearchAnswersSoundly`, by induction on the depth that is left: every answer
  is sound in the sense of `Sound`. Negated conditions ask below the level,
  where what is left out makes no difference (`ReachedSame`).
- `SearchTells` and `FiringAgreesHolds` put the question at the top.

It has one premise, `IsStratified`: there are levels such that rules for one
predicate share one, a negated condition asks below, and what vetoes by holding
is not derived by any rule. The code asks for none of it, and without it there
is no one model to compare with: a rule whose negated condition depends on its
own consequent is answered by whichever search is deeper. An exception that is
itself derived is searched for, with the rules in hand left out, and its rule
is then judged by less than the model. TLC evaluates the premise on every
instance of `sequential`, whose rule sets satisfy it, those with negation and
exceptions included.

Only model-checked is all liveness, since it needs fairness and `ENABLED`,
which the prover does not treat: `RetiredGenerationsClose`, `QueriesReturn`,
both `CloseTerminates`, `RequestsReturn`, `ChangesAreLoaded`,
`EvictedTopicsClose`, `PassesGiveWay`, `IdleTimeIsUsed`, `LeaderFound`,
`LeadersPublish`, `QuietTimeIsShared`, `ShutdownTerminates`,
`RandomIsTheFloor`, `HotKeysArePrewarmed`. So are the disagreements of section 6,
each of which is one behaviour of a small instance.

## 6. Where code and documentation disagree

Three runs check one statement of the documentation or a comment each and find
a behaviour of the code that breaks it.

- `reload_stale`, `PublishedIsServed`: a snapshot published while the first
  generation is being opened is recorded as loaded and not loaded. The
  fingerprint should be taken before the generation is built, as a reload does.
- `conflict_missed`, `ConflictOverrides`: the native reasoner looks for a
  conflict under the names the caller used and resolves them to the graph's
  only afterwards (`pkg/reasoning/native.go:85`), so a claim whose names need
  resolving is entailed although the graph contradicts it.
- `named_scopes`, `NamedScopesAreLifted`: relations of a scope given by names
  are filed under uuids and its hierarchy under names
  (`pkg/generalization/builder.go:189`), so nothing is lifted.

Others were noticed while modelling, and have no run.

Topics and passes:

- Between the rotation's look for a free place and its acquisition a query may
  take that place, and the rotation evicts (`cmd/pensiero/topic_manager.go:325`
  against its comment at 312). Once as many topics are open as may be, the
  rotation stays among them and does not sweep across all.
- A poller frees the slot before its pass has returned
  (`cmd/pensiero/scheduler.go:147`), so two passes overlap for a while, against
  `docs/SELF_OPTIMIZING_DAEMON.md:352`, "Only one pass at a time." `OnePass`
  states what does hold.
- A scope whose lock cannot be opened makes `heldScopes` give up the pass for
  all scopes (`cmd/pensiero/leader_runner.go:67`), while the daemon keeps
  leading the others. `LeadersPublish` is about locks that work again.
- The handles of a generation of a plain file may be opened on two snapshots
  (`cmd/pensiero/pool.go:65`). The idle stamp is the end time of the query that
  brought the count to zero, and not of the one that ended last
  (`cmd/pensiero/load.go:209`).
- The inventory's goroutine and the cognition worker are not awaited at
  shutdown; with `--source`, the deferred `source.Close()`
  (`cmd/pensiero/serve.go:188`) may run during a refresh's query.

The selector:

- The comment at `cmd/pensiero/topic_selector.go:554` says an error keeps the
  last good set of hubs; `Next` discards it at 604.
- The random and semantic sources do not check `plausibleEntityName`, although
  the comment near 1059 says cognition skips such claims; the random source's
  look for links that are not there (361) sees only as many neighbours as its
  limit.
- By default there is no random source: its weight is 0 (`serve.go:340`) and a
  source without weight is dropped, while the flag's text says "minimum 1"
  (`serve.go:101`) and `docs/SELF_OPTIMIZING_DAEMON.md:437` that "random is the
  guaranteed floor so it never stalls". `RandomIsTheFloor` is about daemons
  that keep it. A call cut short after the pick has used its forced turn up
  (`topic_selector.go:206`), so a worker that is preempted every time may never
  ask the random source.
- `Contradicts` that finds none is recorded as "unsupported", so a claim that
  is entailed may count as unresolved.

Reasoning, packs and builds:

- The portable engine looks for the subject's classes with a `Derive` that keeps
  the best `Limit` of them, eight by default, of the first `4 * Limit` rows
  (`pkg/reasoning/engine.go:119`, 72-75), so a conflict with a ninth may be
  missed and the claim entailed, although "a disjointness conflict overrides any
  support" (84-85). In the instance of nine classes `Entails` of `GraphEngine`
  has both verdicts. For the same reason a stored edge of a subject with many
  edges may be "unsupported": the rows are cut off before the target is looked
  at (`pkg/reasoning/cypher.go:46`).
- A hierarchy edge stored under the inverse of `is_a` ("q subsumes b") has its
  ends put child first (`pkg/generalization/direction.go:51-54`) and keeps its
  predicate (`pkg/generalization/builder.go:169-171`), so the derived graph says
  "b subsumes q". The comment at `builder.go:617-618` says reading both
  predicates "is correct now that orientation is DERIVED". `HierarchyRises` is
  therefore about the ends of edges under either predicate, and not about what
  the predicate says of them.
- An alias or raw spelling equal to another predicate's canonical one overrides
  it in the table of spellings, so normalizing is not idempotent there
  (`pkg/reasoning/predicates.go:63`); `RegistryIsCoherent` leaves these out
  (`Shadows`). A pack that is named twice, or in a file's "extends" and on the
  command line, fails as a duplicate. The docs' JSON says "disjoints" and
  "chars", `registry.go` reads "disjoint" and "characteristics".
- `REASON_ENTAILS` returns one path per pair of ends, before the filter for
  cycles and predicates; another that would pass it is not seen.
- The engine's answer to a claim whose predicate is the inverse of what only a
  *chain* establishes (`a is_a b`, `b has_phenotype c`, asked for
  `a phenotype_of c`) is "entailed", although only the converse follows from the
  edges; the comment at `pkg/reasoning/predicate_entailment.go:157` says that
  matching inverses "adds no unsoundness" beyond what a backend that ignores
  directions has anyway. The proof of `EntailedIsSound` brought this up:
  `EngineAgrees` says that the claim or its converse follows.
- Nothing refuses a pack that makes another predicate's name an alias
  (`pkg/reasoning/predicate_packs.go:183`); the native reasoner's soundness
  rests on `SpellingsAreUnambiguous`.
- Bindings cut off at `MaxBindings`, and work that reaches `MaxWork` exactly,
  leave no trace in the search state, and nobody reads `capped` of the result;
  exceptions that are not ground never veto; rules with equal IDs block each
  other (`pkg/reasoning/conditional.go`).
- Support of one lifted relation that children of different distances give is
  never added up, though `pkg/generalization/README.md:6` says that relations
  shared by enough children are lifted.

## 7. Not modelled

- The gRPC service's conversions and the client pool's round-robin
  (`pkg/grpcsvc`), the generated code, connectors and database: input and
  output through other people's libraries.
- OBO parsing, the table scans and the registration of the C++ extension, the
  validator's choice of golden cases, HTTP views and flags: formats and wiring.
  What they decide is modelled where it has an effect (an inventory refresh is a
  pass, the validator rejects a set of snapshots, an ontology is a relation).
- The wording of questions, notes and proofs, confidences outside the
  conditional reasoner, metadata of nodes and edges.
- The lengths of backoffs and sleeps.
- A daemon without a source or without topics: `Background` is the one with both,
  where all three goroutines borrow generations. A short borrow of the health
  view, an HTTP handler, is not in it. A daemon that leads no scope is
  not considered by `QuietTimeIsShared`.
- In the instances of `SearchIsSound` the caps on depth, rules and work are met,
  the one on bindings is not (there are no more entities than it lets through).
  `SearchesAreSound` says of a world with more entities only that what is
  entailed without negated conditions is right.
- Snapshots that are never removed: the superseded version of a directory
  (`pkg/generalization/igl.go:374`) and what a crash leaves behind stay. The
  code promises no removal, so there is no property.

## 8. Plan

1. Done: the concurrent core (store, pool, cache, reloader, topics, load,
   publishing) with its abstract services, and its proofs.
2. Done: the daemon's background work and shutdown (`Background`), cognition's
   stores, the selector and its sources, packs, the reasoners, the builder.
3. Done: the proofs of their safety properties, with the theory of recursive
   functions these need (section 5).
4. Done: the proof that what rules entail agrees with their model, for which
   the search was written without mutual recursion.
5. Left: the composition of `Background` with `TopicManager`, where a thought
   rotates topics while the manager closes.
