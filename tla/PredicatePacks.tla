--------------------------- MODULE PredicatePacks ---------------------------
(***************************************************************************)
(* Where a predicate registry comes from: the general pack, the packs      *)
(* named in a registry file or on the command line, and the file's own     *)
(* predicates and aliases, merged layer by layer, validated, and turned    *)
(* into the table by which every spelling is normalized                    *)
(* (pkg/reasoning/predicate_packs.go, predicates.go, type_packs.go,        *)
(* domain_range.go, cmd/pensiero/registry.go).                             *)
(*                                                                         *)
(* Everything is a function of the packs.  A spelling is known by its      *)
(* NormKey: a number in alphabetical order, 0 for a blank.  A predicate    *)
(* has its raw and canonical spelling, its inverse, super-properties,      *)
(* domain and range; an alias maps a spelling to a canonical one;          *)
(* compositions and disjoint pairs are sequences of triples and of sets.   *)
(* A type names its supertypes, and a list of type packs is the list of    *)
(* their types.                                                            *)
(***************************************************************************)
EXTENDS Naturals, Sequences, FiniteSetsExt

CONSTANTS
  NormKey,     \* of each spelling
  Registered,  \* the predicate packs, by name, "general" among them
  None

KeysOf(spellings) == {NormKey[s] : s \in spellings}
Named(spellings) == {s \in spellings : NormKey[s] # 0}

\* The values of a list under their keys, where the last of a key counts; and
\* what one table says where it says something, elsewhere another.
LastUnder(list, keys) ==
  [k \in UNION {keys[i] : i \in DOMAIN list} |-> list[Max({i \in DOMAIN list : k \in keys[i]})]]
Over(upper, lower) ==
  [k \in DOMAIN upper \cup DOMAIN lower |-> IF k \in DOMAIN upper THEN upper[k] ELSE lower[k]]

-----------------------------------------------------------------------------
(* Types *)

\* Later types override earlier ones; one without a name is refused.
TypesClash(list) == \E i \in DOMAIN list : NormKey[list[i].name] = 0
BuildTypeRegistry(list) == LastUnder(list, [i \in DOMAIN list |-> {NormKey[list[i].name]}])

SupertypesOf(types, key) == IF key \in DOMAIN types THEN KeysOf(types[key].supers) ELSE {}

\* The search visits each type once, so that cycles end.
IsA(types, child, ancestor) ==
  LET visited[S \in SUBSET DOMAIN types] ==
        LET supers == (UNION {SupertypesOf(types, k) : k \in S}) \cap DOMAIN types
        IN  IF supers \subseteq S THEN S ELSE visited[S \cup supers]
  IN  NormKey[child] \in DOMAIN types /\ NormKey[ancestor] \in visited[{NormKey[child]}]

SupertypeWarnings(types) ==
  {w \in (DOMAIN types) \X DOMAIN NormKey : w[2] \in Named(types[w[1]].supers) /\ NormKey[w[2]] \notin DOMAIN types}

-----------------------------------------------------------------------------
(* Merging *)

Normalize(meta) ==
  LET canonical == IF NormKey[meta.canonical] = 0 THEN meta.raw ELSE meta.canonical
  IN  [meta EXCEPT !.canonical = canonical, !.raw = IF NormKey[@] = 0 THEN canonical ELSE @,
                   !.supers = Named(@), !.domain = Named(@), !.range = Named(@)]
Normalized(pack) == [i \in DOMAIN pack.predicates |-> Normalize(pack.predicates[i])]

\* The layers to merge: the general pack comes first, and adds nothing where it
\* is named.
NoPack == [predicates |-> <<>>, aliases |-> <<>>, comps |-> <<>>, disjoints |-> <<>>]
PackOf(name) == IF name \in {"", "general"} THEN NoPack ELSE Registered[name]
Layers(names, extra) ==
  <<[pack |-> Registered["general"], builtin |-> TRUE]>>
  \o [i \in DOMAIN names |-> [pack |-> PackOf(names[i]), builtin |-> TRUE]]
  \o [i \in DOMAIN extra |-> [pack |-> extra[i], builtin |-> FALSE]]

\* Built-in layers may not declare a predicate twice, within one or among them.
PredicatesClash(m, metas, builtin) ==
  \E i \in DOMAIN metas :
    \/ NormKey[metas[i].canonical] = 0
    \/ builtin /\ (\/ NormKey[metas[i].canonical] \in m.builtin
                   \/ \E j \in 1..(i - 1) : NormKey[metas[j].canonical] = NormKey[metas[i].canonical])

\* mutant: the last of two built-in aliases wins
AliasesClashMutant(m, aliases, builtin) ==
  \E raw \in DOMAIN aliases : NormKey[raw] = 0 \/ \E other \in DOMAIN aliases \ {raw} : NormKey[other] = NormKey[raw]

\* An alias may be declared once in a layer, and by built-in layers for one
\* predicate only.
AliasesClash(m, aliases, builtin) ==
  \E raw \in DOMAIN aliases :
    \/ NormKey[raw] = 0
    \/ \E other \in DOMAIN aliases \ {raw} : NormKey[other] = NormKey[raw]
    \/ /\ builtin /\ NormKey[raw] \in m.builtinAliases
       /\ NormKey[m.aliases[NormKey[raw]].canonical] # NormKey[aliases[raw]]

\* Compositions and pairs are those of the same keys only once.
Union(list, more) ==
  LET joined[i \in 0..Len(more)] ==
        IF i = 0 THEN list
        ELSE IF more[i] \in Range(joined[i - 1]) THEN joined[i - 1] ELSE Append(joined[i - 1], more[i])
  IN  joined[Len(more)]

CompositionKeys(pack) == [i \in DOMAIN pack.comps |-> [j \in 1..3 |-> NormKey[pack.comps[i][j]]]]
DisjointKeys(pack) == [i \in DOMAIN pack.disjoints |-> KeysOf(pack.disjoints[i])]
Declared(metas) == LastUnder(metas, [i \in DOMAIN metas |-> {NormKey[metas[i].canonical]}])
Given(aliases) ==
  [k \in KeysOf(DOMAIN aliases) |->
     LET raw == CHOOSE raw \in DOMAIN aliases : NormKey[raw] = k
     IN  [raw |-> raw, canonical |-> aliases[raw]]]

Merge(m, layer) ==
  LET preds == Declared(Normalized(layer.pack))
      aliases == Given(layer.pack.aliases)
  IN  IF \/ m.failed
         \/ PredicatesClash(m, Normalized(layer.pack), layer.builtin)
         \/ AliasesClash(m, layer.pack.aliases, layer.builtin)
      THEN [m EXCEPT !.failed = TRUE]
      ELSE [failed |-> FALSE,
            preds |-> Over(preds, m.preds),
            builtin |-> IF layer.builtin THEN m.builtin \cup DOMAIN preds ELSE m.builtin \ DOMAIN preds,
            aliases |-> Over(aliases, m.aliases),
            builtinAliases |-> IF layer.builtin THEN m.builtinAliases \cup DOMAIN aliases
                               ELSE m.builtinAliases \ DOMAIN aliases,
            comps |-> Union(m.comps, CompositionKeys(layer.pack)),
            disjoints |-> Union(m.disjoints, DisjointKeys(layer.pack))]

Unmerged == [failed |-> FALSE, preds |-> <<>>, builtin |-> {}, aliases |-> <<>>, builtinAliases |-> {},
             comps |-> <<>>, disjoints |-> <<>>]
Merged(layers) ==
  LET merged[n \in 0..Len(layers)] == IF n = 0 THEN Unmerged ELSE Merge(merged[n - 1], layers[n])
  IN  merged[Len(layers)]

Refers(m, key) == key = 0 \/ key \in DOMAIN m.preds

Valid(m) ==
  /\ \A k \in DOMAIN m.aliases : NormKey[m.aliases[k].canonical] \in DOMAIN m.preds
  /\ \A k \in DOMAIN m.preds :
       \A ref \in {m.preds[k].inverse} \cup m.preds[k].supers : Refers(m, NormKey[ref])
  /\ \A i \in DOMAIN m.comps : \A j \in 1..3 : Refers(m, m.comps[i][j])
  /\ \A i \in DOMAIN m.disjoints : \A key \in m.disjoints[i] : Refers(m, key)

DomainRangeWarnings(m, types) ==
  {w \in (DOMAIN m.preds) \X DOMAIN NormKey :
     w[2] \in m.preds[w[1]].domain \cup m.preds[w[1]].range /\ NormKey[w[2]] \notin DOMAIN types}

\* Each alias as its predicate under another raw spelling.
AliasMetas(m) ==
  [k \in DOMAIN m.aliases |-> [m.preds[NormKey[m.aliases[k].canonical]] EXCEPT !.raw = m.aliases[k].raw]]

\* The predicates in the order of their keys and after them the aliases are
\* entered under both spellings; the last entry counts.
ByRaw(metas) == LastUnder(metas, [k \in DOMAIN metas |-> KeysOf({metas[k].raw, metas[k].canonical})])
ByCanon(metas) == LastUnder(metas, [k \in DOMAIN metas |-> {NormKey[metas[k].canonical]}])
NewRegistry(m, types) ==
  [failed |-> FALSE,
   byRaw |-> Over(ByRaw(AliasMetas(m)), ByRaw(m.preds)),
   byCanon |-> Over(ByCanon(AliasMetas(m)), ByCanon(m.preds)),
   comps |-> m.comps, disjoints |-> m.disjoints, types |-> types,
   warnings |-> SupertypeWarnings(types) \cup DomainRangeWarnings(m, types)]

BuildRegistry(names, types, extra) ==
  LET m == Merged(Layers(names, extra)) IN
  IF TypesClash(types) \/ ~ Range(names) \subseteq DOMAIN Registered \cup {""} \/ m.failed \/ ~Valid(m)
  THEN [failed |-> TRUE]
  ELSE NewRegistry(m, BuildTypeRegistry(types))

\* loadRegistryWithTypePacks: a file may itself name packs to extend.
Names(file, packs) == IF file = None THEN packs ELSE file.extends \o packs
Extra(file) == IF file = None THEN <<>> ELSE <<file>>
LoadRegistry(file, packs, types) ==
  BuildRegistry(Names(file, packs), IF file = None THEN types ELSE types \o file.types, Extra(file))

-----------------------------------------------------------------------------
(* Using a registry *)

Canonical(registry, spelling) ==
  IF NormKey[spelling] \in DOMAIN registry.byRaw THEN registry.byRaw[NormKey[spelling]].canonical ELSE spelling

TypesSatisfy(types, actual, allowed) ==
  \/ allowed = {}
  \/ \E t \in actual, want \in allowed :
       NormKey[t] # 0 /\ NormKey[want] # 0 /\ (NormKey[t] = NormKey[want] \/ IsA(types, t, want))

DomainRangeCheck(registry, spelling, head, tail) ==
  NormKey[spelling] \in DOMAIN registry.byRaw =>
    /\ TypesSatisfy(registry.types, head, registry.byRaw[NormKey[spelling]].domain)
    /\ TypesSatisfy(registry.types, tail, registry.byRaw[NormKey[spelling]].range)

-----------------------------------------------------------------------------

\* What a table says of its keys, whatever the raw spelling an entry was made from.
Meaning(table) == [k \in DOMAIN table |-> [table[k] EXCEPT !.raw = ""]]

\* The spellings that normalize to a predicate although they are another's name.
Shadows(registry) ==
  {k \in DOMAIN registry.byCanon : NormKey[registry.byRaw[k].canonical] # k}

\* The predicates of a layer under a key, and the last word on it.
Declaring(layer, k) == {j \in DOMAIN layer.pack.predicates : NormKey[Normalized(layer.pack)[j].canonical] = k}
LastWord(layers, k) ==
  LET layer == layers[Max({i \in DOMAIN layers : Declaring(layers[i], k) # {}})]
  IN  Normalized(layer.pack)[Max(Declaring(layer, k))]

\* A spelling that names a predicate of its own is another's alias or raw form.
Ambiguous(layers) ==
  LET canonicals == UNION {{NormKey[Normalized(layers[i].pack)[j].canonical] :
                              j \in DOMAIN layers[i].pack.predicates} : i \in DOMAIN layers}
  IN  \E i \in DOMAIN layers :
        \/ \E raw \in DOMAIN layers[i].pack.aliases :
             NormKey[raw] \in canonicals /\ NormKey[raw] # NormKey[layers[i].pack.aliases[raw]]
        \/ \E j \in DOMAIN layers[i].pack.predicates :
             LET meta == Normalized(layers[i].pack)[j]
             IN  NormKey[meta.raw] \in canonicals /\ NormKey[meta.raw] # NormKey[meta.canonical]

\* The lists of the same elements in any order.
Orders(list) == {[i \in DOMAIN list |-> list[turn[i]]] : turn \in Bijection(DOMAIN list, DOMAIN list)}

\* Another order of packs makes the same registry, but for the order of its
\* compositions and pairs and for which of two raw spellings an alias keeps.
Alike(registry, other) ==
  /\ registry.failed = other.failed
  /\ ~registry.failed =>
       /\ Meaning(registry.byRaw) = Meaning(other.byRaw) /\ Meaning(registry.byCanon) = Meaning(other.byCanon)
       /\ Range(registry.comps) = Range(other.comps)
       /\ Range(registry.disjoints) = Range(other.disjoints)

\* It refers only to predicates it declares, as the last layer declares them.
DeclaresLastWords(registry, layers) ==
  \A k \in DOMAIN registry.byCanon :
    /\ Meaning(registry.byCanon)[k] = [LastWord(layers, k) EXCEPT !.raw = ""]
    /\ \A ref \in registry.byCanon[k].supers : NormKey[ref] \in DOMAIN registry.byCanon

\* Every name normalizes to itself, and normalizing twice changes nothing.
NormalizesOnce(registry) ==
  /\ Shadows(registry) = {}
  /\ \A s \in DOMAIN NormKey : NormKey[Canonical(registry, Canonical(registry, s))] = NormKey[Canonical(registry, s)]

SubtypesPass(registry) ==
  \A s, head, sub \in DOMAIN NormKey :
    IsA(registry.types, sub, head) /\ DomainRangeCheck(registry, s, {head}, DOMAIN NormKey)
      => DomainRangeCheck(registry, s, {sub}, DOMAIN NormKey)

(***************************************************************************)
(* A registry that is built at all refers only to predicates it declares,  *)
(* as the last layer that declares them says, and does not depend on the   *)
(* order in which packs are named; unless a spelling is given two          *)
(* meanings, every name normalizes to itself and normalizing twice changes *)
(* nothing.  An entity whose type passes a check still passes under any    *)
(* subtype (predicate_packs.go:82-370, predicates.go:63-102,               *)
(* type_packs.go:155-197, domain_range.go:11-55).                          *)
(***************************************************************************)
RegistryIsCoherent(file, packs, types) ==
  LET registry == LoadRegistry(file, packs, types)
      layers == Layers(Names(file, packs), Extra(file))
  IN  /\ \A others \in Orders(packs) : Alike(registry, LoadRegistry(file, others, types))
      /\ ~registry.failed =>
           /\ DeclaresLastWords(registry, layers) /\ SubtypesPass(registry)
           /\ ~Ambiguous(layers) => NormalizesOnce(registry)
=============================================================================
