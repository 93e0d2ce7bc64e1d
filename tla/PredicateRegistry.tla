-------------------------- MODULE PredicateRegistry --------------------------
(***************************************************************************)
(* What the registry of predicates (pkg/reasoning/predicates.go) says of   *)
(* paths: which predicates entail which (predicate_entailment.go), which   *)
(* predicate a path establishes, which direction a stored edge was meant   *)
(* in (orientation.go); and, as the reference for the backends, all that   *)
(* follows from a set of edges.                                            *)
(*                                                                         *)
(* A predicate is known by its spelling; Canon is the functor F.           *)
(***************************************************************************)
EXTENDS Naturals, Sequences, FiniteSetsExt

CONSTANTS
  Canon,         \* of every spelling its canonical predicate
  Supers,        \* of every known predicate its SubPropertyOf, in order
  Transitive, Reflexive,  \* the known predicates with these characteristics
  InverseOf,     \* of those that declare one, the inverse
  Compositions,  \* <<First, Second, Result>>, in order
  Disjoint,      \* pairs of predicates, as sets
  Domain, Codomain,  \* allowed types of the two ends; {} when not declared
  None

Known == DOMAIN Supers
Elements(seq) == {seq[i] : i \in DOMAIN seq}
SupersOf(p) == IF p \in Known THEN Supers[p] ELSE <<>>

-----------------------------------------------------------------------------
(* The hierarchy *)

\* p and all that is above it.
Above(p) ==
  LET above[S \in SUBSET (Known \cup {p})] ==
        LET supers == UNION {Elements(SupersOf(q)) : q \in S}
        IN  IF supers \subseteq S THEN S ELSE above[S \cup supers]
  IN  above[{p}]

PredicateEntails(p, q) == q \in Above(p)
PredicatesEntailing(q) == {p \in Known : PredicateEntails(p, q)} \cup {q}
IsReflexive(p) == p \in Known /\ Above(p) \cap Reflexive # {}

\* With the inverse, because the path may have been walked either way.
ProofEntails(effective, target, includeInverse) ==
  \/ PredicateEntails(effective, target)
  \/ /\ includeInverse /\ target \in DOMAIN InverseOf
     /\ PredicateEntails(effective, InverseOf[target])

Conflicting(p) == {q \in UNION Disjoint : q # p /\ {p, q} \in Disjoint}

-----------------------------------------------------------------------------
(* The predicate a path establishes *)

\* The first rule that is registered for the two.
ComposePredicates(p, q) ==
  LET found == {i \in DOMAIN Compositions : Compositions[i][1] = p /\ Compositions[i][2] = q}
  IN  IF found = {} THEN None ELSE Compositions[Min(found)][3]

Reduce(preds) ==
  LET acc[i \in Nat] == IF i <= 1 THEN preds[1]
                        ELSE IF acc[i - 1] = None THEN None ELSE ComposePredicates(acc[i - 1], preds[i])
  IN  acc[Len(preds)]

\* One turn of the search for what is above a predicate, which is breadth first
\* and cuts cycles; every known predicate is looked up at most once.
Visit(search) ==
  IF search.queue = <<>> THEN search
  ELSE LET p == Head(search.queue) IN
       IF p \in Elements(search.seen) THEN [search EXCEPT !.queue = Tail(@)]
       ELSE [queue |-> Tail(search.queue) \o SupersOf(p), seen |-> Append(search.seen, p)]
Turns == 1 + Cardinality(UNION {{p} \X DOMAIN Supers[p] : p \in Known})
InOrder(p) ==
  LET after[n \in Nat] == IF n = 0 THEN [queue |-> <<p>>, seen |-> <<>>] ELSE Visit(after[n - 1])
  IN  after[Turns].seen

\* The first that is transitive and above all.
CommonTransitiveSuper(preds) ==
  LET first == InOrder(preds[1])
      common == {i \in DOMAIN first :
                   first[i] \in Transitive /\ \A j \in DOMAIN preds : PredicateEntails(preds[j], first[i])}
  IN  IF common = {} THEN None ELSE first[Min(common)]

EffectivePredicate(preds) ==
  IF preds = <<>> THEN None
  ELSE IF Len(preds) = 1 THEN preds[1]
  ELSE IF Reduce(preds) # None THEN Reduce(preds) ELSE CommonTransitiveSuper(preds)

-----------------------------------------------------------------------------
(* Direction *)

Fits(p, headTypes, tailTypes) ==
  headTypes \cap Domain[p] # {} /\ tailTypes \cap Codomain[p] # {}
Shaped(p) == p \in Known /\ Domain[p] # {} /\ Codomain[p] # {}

\* An edge whose ends fit only the inverse's shape means the inverse.
OrientedPredicate(pred, headTypes, tailTypes) ==
  LET p == Canon[pred] IN
    IF /\ Shaped(p) /\ ~Fits(p, headTypes, tailTypes)
       /\ p \in DOMAIN InverseOf /\ Shaped(InverseOf[p])
       /\ Fits(InverseOf[p], headTypes, tailTypes)
    THEN InverseOf[p] ELSE pred

-----------------------------------------------------------------------------
(* Reference: all that follows from edges <<subject, predicate, object>> *)

\* What follows at once from S: through the hierarchy, inverses either way,
\* transitivity, and the compositions.
Follows(S) ==
  LET upwards == UNION {{<<t[1], q, t[3]>> : q \in Elements(SupersOf(t[2]))} : t \in S}
      inverses == {<<t[3], InverseOf[t[2]], t[1]>> : t \in {t \in S : t[2] \in DOMAIN InverseOf}}
        \cup UNION {{<<t[3], p, t[1]>> : p \in {p \in DOMAIN InverseOf : InverseOf[p] = t[2]}} : t \in S}
      joined == {tu \in S \X S : tu[1][3] = tu[2][1]}
      chained == {<<tu[1][1], tu[1][2], tu[2][3]>> :
                    tu \in {tu \in joined : tu[1][2] = tu[2][2] /\ tu[1][2] \in Transitive}}
      composed == UNION {{<<tu[1][1], c[3], tu[2][3]>> :
                    c \in {c \in Elements(Compositions) : c[1] = tu[1][2] /\ c[2] = tu[2][2]}} : tu \in joined}
  IN  upwards \cup inverses \cup chained \cup composed

\* Every triple of an end, a predicate and an end that may follow.
Sayable(S) ==
  LET ends == {t[1] : t \in S} \cup {t[3] : t \in S}
      predicates == {t[2] : t \in S} \cup (UNION {Elements(Supers[p]) : p \in Known}) \cup DOMAIN InverseOf
                      \cup {InverseOf[p] : p \in DOMAIN InverseOf} \cup {c[3] : c \in Elements(Compositions)}
  IN  ends \X predicates \X ends

Consequences(S) ==
  LET saturated[T \in SUBSET (S \cup Sayable(S))] ==
        IF Follows(T) \subseteq T THEN T ELSE saturated[T \cup Follows(T)]
  IN  saturated[S]
===============================================================================
