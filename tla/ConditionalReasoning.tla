------------------------- MODULE ConditionalReasoning -------------------------
(***************************************************************************)
(* The conditional reasoner (pkg/reasoning/conditional.go): what a base    *)
(* reasoner does not decide is searched for backwards through rules, with  *)
(* negated conditions, exceptions that veto, and caps on the depth, the    *)
(* rules and the work; FireRules goes forwards from the facts a request    *)
(* assumes (assumed_facts.go).                                             *)
(*                                                                         *)
(* A world w holds what one search sees:                                   *)
(*   strong, weak, contra - the claims the base entails, those with little *)
(*                    confidence, and those it contradicts;                *)
(*   assumed        - the request's assumed facts, a sequence of claims;   *)
(*   rules          - the compiled rules, in their order;                  *)
(*   maxDepth, maxRules, maxBindings, maxWork - the caps.                  *)
(* A claim is <<subject, predicate, object>>; names stand for what they    *)
(* normalize to, so entityMatches is equality.  A pattern has a name or a  *)
(* variable at each end: <<"ent", e>> or <<"var", x>>.  A rule's id, which *)
(* is unique, is its place.  The base errs in no search that answers.      *)
(*                                                                         *)
(* A confidence is its cost, the logarithm to base Decay: products become  *)
(* sums.  A proof is [cost, steps]; at most one proof is a set.            *)
(*                                                                         *)
(* What a search does not know until it runs, what deeper searches answer, *)
(* is handed on as a function; the domains are the types of what they are  *)
(* asked.                                                                  *)
(***************************************************************************)
EXTENDS Naturals, Sequences, FiniteSets

CONSTANTS
  Entities, Predicates,
  Variables,  \* of the rules
  WeakCost,   \* cost of a weak fact
  Threshold   \* ExceptionThreshold: the highest cost at which an exception vetoes

GroundClaims == Entities \X Predicates \X Entities
Terms == ({"ent"} \X Entities) \cup ({"var"} \X Variables)
Patterns == [s : Terms, p : Predicates, o : Terms, neg : BOOLEAN]
RuleType == [conditions : Seq(Patterns), head : Patterns, exceptions : Seq(Patterns),
             cost : Nat, level : Nat \ {0}]
IsWorld(w) ==
  /\ {w.strong, w.weak, w.contra} \subseteq SUBSET GroundClaims
  /\ w.assumed \in Seq(GroundClaims) /\ w.rules \in Seq(RuleType)
  /\ {w.maxDepth, w.maxRules, w.maxBindings, w.maxWork, w.strata} \subseteq Nat

Stored(w) == w.strong \cup w.weak
Assumed(w) == {w.assumed[i] : i \in DOMAIN w.assumed}
Min2(m, n) == IF m < n THEN m ELSE n

\* What n rounds of a loop make of x.
Loop(step, n, x) ==
  LET after[i \in 0..n] == IF i = 0 THEN x ELSE step[<<i, after[i - 1]>>]
  IN  after[n]

-----------------------------------------------------------------------------
(* Terms, patterns and bindings *)

Bindings == UNION {[V -> Entities] : V \in SUBSET Variables}
NoBindings == [x \in {} |-> x]
Bind(b, x, value) == [y \in DOMAIN b \cup {x} |-> IF y = x THEN value ELSE b[y]]

VarsOf(pattern) == {t[2] : t \in {t \in {pattern.s, pattern.o} : t[1] = "var"}}
IsBound(term, bound) == term[1] = "ent" \/ term[2] \in bound
Resolve(term, b) == IF term[1] = "ent" THEN term[2] ELSE b[term[2]]
IsGround(pattern, b) == IsBound(pattern.s, DOMAIN b) /\ IsBound(pattern.o, DOMAIN b)
Ground(pattern, b) == <<Resolve(pattern.s, b), pattern.p, Resolve(pattern.o, b)>>

\* The bindings that make a term the value: none or one.
UnifyTerm(term, value, b) ==
  IF ~IsBound(term, DOMAIN b) THEN {Bind(b, term[2], value)}
  ELSE IF Resolve(term, b) = value THEN {b} ELSE {}

UnifyConsequent(head, claim) ==
  IF head.p # claim[2] THEN {}
  ELSE UNION {UnifyTerm(head.o, claim[3], b) : b \in UnifyTerm(head.s, claim[1], NoBindings)}

\* The condition with the fewest free ends, negated ones with any last.  The
\* choice depends on which variables are bound, never on their values, so a
\* rule's conditions are taken in an order that is known when it is tried.
FreeEnds(pattern, bound) ==
  (IF IsBound(pattern.s, bound) THEN 0 ELSE 1) + (IF IsBound(pattern.o, bound) THEN 0 ELSE 1)
Score(pattern, bound) ==
  FreeEnds(pattern, bound) + (IF pattern.neg /\ FreeEnds(pattern, bound) > 0 THEN 10 ELSE 0)
ChooseCondition(conditions, bound, left) ==
  LET now == bound \cup UNION {VarsOf(conditions[i]) : i \in DOMAIN conditions \ left}
  IN  CHOOSE i \in left : \A j \in left :
        \/ Score(conditions[i], now) < Score(conditions[j], now)
        \/ Score(conditions[i], now) = Score(conditions[j], now) /\ i <= j
Ordered(conditions, bound) ==
  LET left[k \in 0..Len(conditions)] ==
        IF k = 0 THEN DOMAIN conditions
        ELSE left[k - 1] \ {ChooseCondition(conditions, bound, left[k - 1])}
  IN  [k \in DOMAIN conditions |-> conditions[ChooseCondition(conditions, bound, left[k - 1])]]

\* The other ends of the stored and assumed facts, the assumed first.
Ends(facts, pattern, b) ==
  IF IsBound(pattern.s, DOMAIN b)
  THEN {e \in Entities : <<Resolve(pattern.s, b), pattern.p, e>> \in facts}
  ELSE {e \in Entities : <<e, pattern.p, Resolve(pattern.o, b)>> \in facts}
Listed(S) == CHOOSE f \in [1..Cardinality(S) -> S] : \A e \in S : \E i \in DOMAIN f : f[i] = e
Values(w, pattern, b) ==
  LET assumed == Ends(Assumed(w), pattern, b)
      all == Listed(assumed) \o Listed(Ends(Stored(w), pattern, b) \ assumed)
  IN  SubSeq(all, 1, Min2(Len(all), w.maxBindings))

-----------------------------------------------------------------------------
(* conditionalState: one per request, shared by everything it asks.  Its   *)
(* depth and active rules, which every call restores, are parameters.      *)

States == [considered : Nat, work : Nat, capped : BOOLEAN]
NewState == [considered |-> 0, work |-> 0, capped |-> FALSE]
Capped(st) == [st EXCEPT !.capped = TRUE]

HasWork(w, st) == st.work < w.maxWork
Work(st) == [st EXCEPT !.work = @ + 1]
CanContinue(w, st) == ~st.capped /\ HasWork(w, st)

MayConsider(w, st) == st.considered < w.maxRules /\ HasWork(w, st)
Consider(w, st) ==
  CASE st.considered >= w.maxRules -> Capped(st)
    [] st.considered < w.maxRules /\ ~HasWork(w, st) -> Capped([st EXCEPT !.considered = @ + 1])
    [] OTHER -> Work([st EXCEPT !.considered = @ + 1])

-----------------------------------------------------------------------------
(* The search.  Every operator returns the state it leaves. *)

Proofs == [cost : Nat, steps : Nat]
Replies == [st : States, proof : SUBSET Proofs]
Branches == [b : Bindings, cost : Nat, steps : Nat]
Founds == [st : States, branches : Seq(Branches)]

Fact(cost) == {[cost |-> cost, steps |-> 1]}
BaseProof(w, claim) ==
  IF claim \in w.strong THEN Fact(0) ELSE IF claim \in w.weak THEN Fact(WeakCost) ELSE {}

\* AssumedFactsOracle.Holds before GraphConditionOracle.Holds, which asks the
\* base again: an assumed fact counts even where the base contradicts it.
OrAssumed(w, claim, found) ==
  IF found.proof = {} /\ claim \in Assumed(w) THEN [found EXCEPT !.proof = Fact(0)] ELSE found

\* A question to the search: the rules that are being tried for which claims,
\* the claim, the state.
Active == SUBSET (Nat \X GroundClaims)
Calls == Active \X GroundClaims \X States

\* What holds, one level deeper, while these rules are tried.
Holds(w, deeper, active) ==
  [x \in GroundClaims \X States |-> OrAssumed(w, x[1], deeper[<<active, x[1], x[2]>>])]

\* An exception with a free variable never vetoes, and one veto is enough.
Vetoes(exception, proof) ==
  IF exception.neg THEN proof = {} ELSE \E p \in proof : p.cost <= Threshold
Decide(exception, found) == [st |-> found.st, veto |-> Vetoes(exception, found.proof)]
Veto(holds, exceptions, b, st) ==
  Loop([x \in (1..Len(exceptions)) \X [st : States, veto : BOOLEAN] |->
          LET e == exceptions[x[1]] IN
          IF x[2].veto \/ ~IsGround(e, b) THEN x[2] ELSE Decide(e, holds[<<Ground(e, b), x[2].st>>])],
       Len(exceptions), [st |-> st, veto |-> FALSE])

\* The first of the most confident.
Better(old, new) ==
  IF old = {} \/ \E o \in old, n \in new : n.cost < o.cost THEN new ELSE old

Compose(rule, branch) ==
  {[cost |-> rule.cost + branch.cost + branch.steps + 1, steps |-> branch.steps + 1]}

WithBranch(rule, branch, best, v) ==
  [st |-> v.st, proof |-> IF v.veto THEN best ELSE Better(best, Compose(rule, branch))]
BestBranch(holds, rule, found) ==
  Loop([x \in (1..Len(found.branches)) \X Replies |->
          LET branch == found.branches[x[1]] IN
          WithBranch(rule, branch, x[2].proof, Veto(holds, rule.exceptions, branch.b, x[2].st))],
       Len(found.branches), [st |-> found.st, proof |-> {}])

\* mutant: the failure of a negated condition is taken for its success
NegatedMutant(found) == found # {}
Negated(found) == found = {}

BranchesOf(pattern, branch, found) ==
  [st |-> found.st,
   branches |->
     IF pattern.neg THEN IF Negated(found.proof) THEN <<branch>> ELSE <<>>
     ELSE IF found.proof = {} THEN <<>>
     ELSE LET p == CHOOSE p \in found.proof : TRUE
          IN  <<[branch EXCEPT !.cost = @ + p.cost, !.steps = @ + p.steps]>>]
EvalGrounded(holds, pattern, branch, st) ==
  BranchesOf(pattern, branch, holds[<<Ground(pattern, branch.b), st>>])

\* What a loop has gathered, and whether it goes on.
Gathered == [st : States, branches : Seq(Branches), over : BOOLEAN]
Gather(w, so, more) ==
  [st |-> more.st, branches |-> so.branches \o more.branches, over |-> ~CanContinue(w, more.st)]

EachValue(w, holds, pattern, values, branch, st) ==
  LET free == IF IsBound(pattern.s, DOMAIN branch.b) THEN pattern.o ELSE pattern.s
      having(value) == [branch EXCEPT !.b = Bind(@, free[2], value)]
  IN  Loop([x \in (1..Len(values)) \X Gathered |->
              IF x[2].over THEN x[2]
              ELSE IF ~HasWork(w, x[2].st) THEN [x[2] EXCEPT !.st = Capped(@), !.over = TRUE]
              ELSE Gather(w, x[2], EvalGrounded(holds, pattern, having(values[x[1]]), Work(x[2].st)))],
           Len(values), [st |-> st, branches |-> <<>>, over |-> FALSE])

EvalCondition(w, holds, pattern, branch, st) ==
  CASE FreeEnds(pattern, DOMAIN branch.b) = 0 -> EvalGrounded(holds, pattern, branch, st)
    [] FreeEnds(pattern, DOMAIN branch.b) = 1 /\ ~pattern.neg ->
         EachValue(w, holds, pattern, Values(w, pattern, branch.b), branch, st)
    [] OTHER -> [st |-> st, branches |-> <<>>]

Extend(w, rest, found) ==
  Loop([x \in (1..Len(found.branches)) \X Gathered |->
          IF x[2].over THEN x[2] ELSE Gather(w, x[2], rest[<<found.branches[x[1]], x[2].st>>])],
       Len(found.branches), [st |-> found.st, branches |-> <<>>, over |-> FALSE])

\* The last m conditions, of a branch that satisfies those before.
EvalConditions(w, holds, conditions, branch, st) ==
  LET eval[m \in 0..Len(conditions)] ==
        [x \in Branches \X States |->
           IF m = 0 THEN [st |-> x[2], branches |-> <<x[1]>>]
           ELSE IF ~HasWork(w, x[2]) THEN [st |-> Capped(x[2]), branches |-> <<>>]
           ELSE Extend(w, eval[m - 1],
                  EvalCondition(w, holds, conditions[Len(conditions) - m + 1], x[1], Work(x[2])))]
  IN  eval[Len(conditions)][<<branch, st>>]

\* A rule is not tried for a claim it is already being tried for.
TryRule(w, n, deeper, active, i, claim, st) ==
  LET rule == w.rules[i]
      unified == UnifyConsequent(rule.head, claim)
      holds == Holds(w, deeper, active \cup {<<i, claim>>})
      start == [b |-> CHOOSE b \in unified : TRUE, cost |-> 0, steps |-> 0]
  IN  IF rule.head.neg \/ n = 0
      THEN [st |-> [st EXCEPT !.capped = @ \/ n = 0], proof |-> {}]
      ELSE IF unified = {} \/ <<i, claim>> \in active THEN [st |-> st, proof |-> {}]
      ELSE BestBranch(holds, rule,
             EvalConditions(w, holds, Ordered(rule.conditions, VarsOf(rule.head)), start, st))

WithRule(so, tried) == [so EXCEPT !.st = tried.st, !.proof = Better(@, tried.proof)]
TryRules(w, n, deeper, active, claim, st) ==
  Loop([x \in (1..Len(w.rules)) \X [st : States, proof : SUBSET Proofs, over : BOOLEAN] |->
          IF w.rules[x[1]].head.p # claim[2] \/ x[2].over THEN x[2]
          ELSE IF ~MayConsider(w, x[2].st) THEN [x[2] EXCEPT !.st = Consider(w, @), !.over = TRUE]
          ELSE WithRule(x[2], TryRule(w, n, deeper, active, x[1], claim, Consider(w, x[2].st)))],
       Len(w.rules), [st |-> st, proof |-> {}, over |-> FALSE])

Entails(w, n, deeper, active, claim, st) ==
  IF BaseProof(w, claim) # {} \/ claim \in w.contra
  THEN [st |-> st, proof |-> BaseProof(w, claim)]
  ELSE LET tried == TryRules(w, n, deeper, active, claim, st)
       IN  [st |-> tried.st, proof |-> tried.proof]

\* The search with n levels of rules to go.  None is asked without any.
Unasked == [x \in Calls |-> [st |-> x[3], proof |-> {}]]
Search(w) ==
  LET search[n \in 0..w.maxDepth] ==
        [x \in Calls |-> Entails(w, n, IF n = 0 THEN Unasked ELSE search[n - 1], x[1], x[2], x[3])]
  IN  search[w.maxDepth]

-----------------------------------------------------------------------------
(* FireRules *)

Names(rule) == {c \in UNION {{x.s, x.o} : x \in {rule.conditions[i] : i \in DOMAIN rule.conditions}} :
                  c[1] = "ent"}

\* byConditionEntity: the rules that name an end of an assumed fact; all of
\* them when nothing is assumed.
ForwardCandidates(w) ==
  IF w.assumed = <<>> THEN DOMAIN w.rules
  ELSE {i \in DOMAIN w.rules : \E f \in Assumed(w) :
          {<<"ent", f[1]>>, <<"ent", f[3]>>} \cap Names(w.rules[i]) # {}}

\* The first branch that no exception vetoes and that binds the consequent.
WithFired(rule, branch, v) ==
  [st |-> v.st,
   fired |-> IF v.veto \/ ~IsGround(rule.head, branch.b) THEN {} ELSE {Ground(rule.head, branch.b)}]
FirstFired(holds, rule, found) ==
  Loop([x \in (1..Len(found.branches)) \X [st : States, fired : SUBSET GroundClaims] |->
          LET branch == found.branches[x[1]] IN
          IF x[2].fired # {} THEN x[2]
          ELSE WithFired(rule, branch, Veto(holds, rule.exceptions, branch.b, x[2].st))],
       Len(found.branches), [st |-> found.st, fired |-> {}]).fired

\* Every candidate starts a search of its own.
FireRules(w) ==
  LET holds == Holds(w, Search(w), {})
      start == [b |-> NoBindings, cost |-> 0, steps |-> 0]
  IN  [i \in {i \in ForwardCandidates(w) : ~w.rules[i].head.neg} |->
         FirstFired(holds, w.rules[i],
           EvalConditions(w, holds, Ordered(w.rules[i].conditions, {}), start, NewState))]

-----------------------------------------------------------------------------
(* What the rules mean: the least model, a stratum at a time; what is      *)
(* negated is looked up in the strata below.  A rule's level is the        *)
(* stratum of its predicate, of which the code knows nothing.              *)

VarsIn(conditions, bound, n) == bound \cup UNION {VarsOf(conditions[k]) : k \in 1..n}

IsTrue(w, M, claim) == claim \in M \cup Assumed(w)

\* A condition that is met with one end free binds it to an end of a stored or
\* assumed fact, which a negated one cannot; with two, it is not met at all.
Generated(w, conditions, bound, b) ==
  \A k \in DOMAIN conditions : LET now == VarsIn(conditions, bound, k - 1) IN
    FreeEnds(conditions[k], now) > 0 =>
      FreeEnds(conditions[k], now) = 1 /\ Ground(conditions[k], b) \in Stored(w) \cup Assumed(w)

Vetoed(w, Below, M, exception, b) ==
  /\ IsGround(exception, b)
  /\ IF exception.neg THEN ~IsTrue(w, M, Ground(exception, b))
     ELSE /\ IsTrue(w, Below, Ground(exception, b))
          /\ Ground(exception, b) \in w.weak \ w.strong => WeakCost <= Threshold

Fires(w, Below, M, rule, b) ==
  /\ \A i \in DOMAIN rule.conditions :
       IF rule.conditions[i].neg THEN ~IsTrue(w, Below, Ground(rule.conditions[i], b))
       ELSE IsTrue(w, M, Ground(rule.conditions[i], b))
  /\ \A i \in DOMAIN rule.exceptions : ~Vetoed(w, Below, M, rule.exceptions[i], b)

Instances(rule) == [VarsIn(rule.conditions, VarsOf(rule.head), Len(rule.conditions)) -> Entities]
Proves(w, Below, M, i, claim) ==
  LET rule == w.rules[i]
      conditions == Ordered(rule.conditions, VarsOf(rule.head))
  IN  \E b \in Instances(rule) :
        /\ Ground(rule.head, b) = claim
        /\ Generated(w, conditions, VarsOf(rule.head), b)
        /\ Fires(w, Below, M, rule, b)

Derives(w, i, claim) == ~w.rules[i].head.neg /\ w.rules[i].head.p = claim[2]
Consequences(w, l, Below, M) ==
  {c \in GroundClaims \ w.contra : \E i \in DOMAIN w.rules :
     w.rules[i].level = l /\ Derives(w, i, c) /\ Proves(w, Below, M, i, c)}
LeastModel(w, l, Below) ==
  LET saturated[M \in SUBSET GroundClaims] ==
        IF Consequences(w, l, Below, M) \subseteq M THEN M
        ELSE saturated[M \cup Consequences(w, l, Below, M)]
  IN  saturated[Below]

\* The model of the strata up to l.
Stratum(w, l) ==
  Loop([x \in (1..l) \X SUBSET GroundClaims |-> LeastModel(w, x[1], x[2])], l, Stored(w))
Model(w) == Stratum(w, w.strata)

\* Rules for the same predicate are of one stratum; what a rule needs is of its
\* own or one below, and below if it is negated; what vetoes if it holds is not
\* derived at all.
IsStratified(w) ==
  LET Heads(p) == {w.rules[i] : i \in {i \in DOMAIN w.rules : ~w.rules[i].head.neg /\ w.rules[i].head.p = p}}
  IN  \A i \in DOMAIN w.rules : LET rule == w.rules[i] IN
        /\ rule.level <= w.strata
        /\ \A r \in Heads(rule.head.p) : ~rule.head.neg => r.level = rule.level
        /\ \A k \in DOMAIN rule.conditions : \A r \in Heads(rule.conditions[k].p) :
             IF rule.conditions[k].neg THEN r.level < rule.level ELSE r.level <= rule.level
        /\ \A k \in DOMAIN rule.exceptions :
             IF rule.exceptions[k].neg THEN \A r \in Heads(rule.exceptions[k].p) : r.level <= rule.level
             ELSE Heads(rule.exceptions[k].p) = {}

HasNegation(w) ==
  \E i \in DOMAIN w.rules : \E k \in DOMAIN w.rules[i].conditions : w.rules[i].conditions[k].neg

\* Nothing in the answer says that the search was cut short, or that values
\* were left out.
MetNoCap(w, st) == CanContinue(w, st) /\ Cardinality(Entities) <= w.maxBindings

\* The search, against the model: without negated conditions what is entailed
\* is true whatever the caps; when no cap was met, what is entailed is exactly
\* what is true.
SearchAgrees(w, goals) ==
  LET model == Model(w) IN
  \A claim \in goals : LET e == Search(w)[<<{}, claim, NewState>>] IN
    /\ ~HasNegation(w) /\ e.proof # {} => claim \in model
    /\ MetNoCap(w, e.st) => (e.proof # {} <=> claim \in model)

\* A rule fires only with an instance that is true.
FiringAgrees(w) ==
  LET model == Model(w)
      fired == FireRules(w)
  IN  ~HasNegation(w) => \A i \in DOMAIN fired : \A c \in fired[i] : \E b \in Instances(w.rules[i]) :
        Ground(w.rules[i].head, b) = c /\ Fires(w, model, model, w.rules[i], b)
===============================================================================
