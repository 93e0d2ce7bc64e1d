----------------------------- MODULE MCSequential -----------------------------
(***************************************************************************)
(* Small instances of the components of Sequential, and the questions to   *)
(* those of them that are operators: what packs make of a registry, what   *)
(* the engine finds in a graph, what rules entail.                         *)
(***************************************************************************)
EXTENDS Sequential, TLC

CONSTANTS
  ByName,   \* how the scopes of the builds are given
  a, b, chat

-----------------------------------------------------------------------------
(* The selector: a and b are plausible, chat is a sentence; a is asked of    *)
(* two generations.                                                        *)

MCSources == <<"query-hot", "unresolved", "random">>
MCWeight == [s \in {"query-hot", "unresolved", "random"} |-> 1]
MCQueries == {<<a, "Entails", 1>>, <<a, "Entails", 2>>, <<b, "Contradicts", 1>>, <<chat, "Entails", 2>>}
MCPlausible == {a, b}
MCKeyOf == (a :> 1) @@ (b :> 2) @@ (chat :> 3)
MCAnswers == [c \in {a, b, chat} |-> IF c = a THEN {"entailed"} ELSE {"unsupported"}]

-----------------------------------------------------------------------------
(* Thoughts: a graph in which v, w and their spelling W have most edges, the *)
(* label of one is blank and one name is a sentence; and an empty one.       *)

MCEntityNames == {"u", "v", "w", "W", "said"}
MCLowerKey == [n \in MCEntityNames \cup {"V"} |-> CASE n = "W" -> "w" [] n = "V" -> "v" [] OTHER -> n]
MCPlausibleNames == MCEntityNames \ {"said"}
MCLabel == ("CAUSES" :> "causes") @@ ("causes" :> "causes") @@ (" " :> "")
Dense == {<<"u", "CAUSES", "w">>, <<"v", "CAUSES", "w">>, <<"said", "CAUSES", "w">>,
          <<"u", "CAUSES", "v">>, <<"v", "CAUSES", "v">>, <<"said", "CAUSES", "v">>,
          <<"v", " ", "u">>, <<"w", "causes", "v">>, <<"v", "CAUSES", "W">>, <<"w", "causes", "said">>}
MCThoughtGraphs == {Dense, {}}
MCHotLists == {<<>>, <<[text |-> "V", predicate |-> "causes"], [text |-> "", predicate |-> ""]>>,
               <<[text |-> "u", predicate |-> ""]>>}

-----------------------------------------------------------------------------
(* Packs: an order of the packs that clashes and one that does not, aliases *)
(* of names, an override, a pack that is not registered, types in a circle. *)

MCSpelling == ("" :> 0) @@ ("affects" :> 1) @@ ("AFFECTS" :> 1) @@ ("given_for" :> 2) @@ ("GIVEN_FOR" :> 2) @@ ("helps" :> 3)
      @@ ("treats" :> 4) @@ ("treated_by" :> 5) @@ ("worsens" :> 6)
      @@ ("DRUG" :> 7) @@ ("drug" :> 7) @@ ("STATIN" :> 8) @@ ("statin" :> 8) @@ ("DISEASE" :> 9) @@ ("TREATS!" :> 10)
Pred(raw, canonical, inverse, supers, domain) ==
  [raw |-> raw, canonical |-> canonical, inverse |-> inverse, supers |-> supers, domain |-> domain, range |-> {}]
Pack(predicates, aliases, comps, disjoints) ==
  [predicates |-> predicates, aliases |-> aliases, comps |-> comps, disjoints |-> disjoints]
NoAlias == [r \in {} |-> r]
MCRegistered ==
  ("general" :> Pack(<<Pred("AFFECTS", "affects", "", {}, {})>>, NoAlias, <<>>, <<>>))
  @@ ("med" :> Pack(<<Pred("treats", "", "treated_by", {"affects"}, {"DRUG"}), Pred("", "treated_by", "treats", {""}, {})>>,
                    "given_for" :> "treats", <<<<"treats", "affects", "affects">>>>, <<>>))
  @@ ("care" :> Pack(<<Pred("worsens", "worsens", "", {"AFFECTS"}, {})>>, ("helps" :> "affects"),
                     <<<<"worsens", "AFFECTS", "affects">>>>, <<{"worsens", "affects"}>>))
  @@ ("aid" :> Pack(<<>>, ("given_for" :> "affects"), <<<<"affects", "affects", "affects">>>>, <<>>))
  @@ ("aid2" :> Pack(<<>>, ("helps" :> "affects") @@ ("GIVEN_FOR" :> "AFFECTS"), <<>>, <<{"affects", "worsens"}>>))
File(extends, declared, pack) == pack @@ [extends |-> extends, types |-> declared]
EntityType(name, supers) == [name |-> name, supers |-> supers]
PackNames == {"", "general", "med", "care", "aid", "aid2", "gone"}
PackJobs ==
  {[file |-> f, packs |-> p, types |-> t] :
     f \in {None,
            File(<<>>, <<>>, Pack(<<Pred("TREATS!", "treats", "", {}, {"STATIN"})>>, NoAlias, <<>>, <<>>)),
            File(<<"med">>, <<EntityType("STATIN", {"DRUG", "DISEASE"})>>, Pack(<<Pred("", "treats", "", {}, {"DRUG"})>>, "given_for" :> "affects", <<>>, <<>>)),
            File(<<>>, <<EntityType("DRUG", {"STATIN"})>>, Pack(<<>>, ("affects" :> "worsens") @@ ("helps" :> "treats"), <<>>, <<>>)),
            File(<<"care">>, <<EntityType("", {})>>, Pack(<<>>, NoAlias, <<>>, <<>>)),
            File(<<"aid">>, <<>>, Pack(<<Pred("helps", "treats", "", {"affects"}, {})>>, ("AFFECTS" :> "affects") @@ ("affects" :> "affects"), <<>>, <<>>))},
     p \in {<<>>} \cup {<<n>> : n \in PackNames} \cup {<<m, n>> : m \in PackNames, n \in PackNames} \cup {<<"med", "care", n>> : n \in PackNames},
     t \in {<<>>, <<EntityType("DRUG", {}), EntityType("statin", {"drug"})>>,
            <<EntityType("DRUG", {"STATIN"}), EntityType("STATIN", {"drug"}), EntityType("DRUG", {"DISEASE"}), EntityType("DISEASE", {})>>}}

-----------------------------------------------------------------------------
(* A registry with synonyms, a hierarchy, inverses, a composition, a       *)
(* transitive predicate, a disjoint pair and two typed predicates.         *)

Predicates == {"treats", "treated_by", "contraindicated", "part_of", "within", "affects",
               "has_phenotype", "phenotype_of", "has_symptom", "is_a", "subsumes"}
MCCanon == [p \in Predicates \cup {"given_for", "is_parent_of", "isa"} |->
  CASE p = "given_for" -> "treats" [] p = "is_parent_of" -> "subsumes" [] p = "isa" -> "is_a" [] OTHER -> p]
MCSupers == [p \in Predicates |->
  CASE p = "has_phenotype" -> <<"has_symptom">> [] p = "part_of" -> <<"within">>
    [] p = "treats" -> <<"affects">> [] OTHER -> <<>>]
MCInverseOf == ("treats" :> "treated_by") @@ ("treated_by" :> "treats")
            @@ ("is_a" :> "subsumes") @@ ("subsumes" :> "is_a")
            @@ ("has_phenotype" :> "phenotype_of") @@ ("phenotype_of" :> "has_phenotype")
MCCompositions == << <<"treats", "part_of", "treats">>, <<"is_a", "has_phenotype", "has_phenotype">> >>
MCDomain == [p \in Predicates |->
  IF p = "has_phenotype" THEN {"DISEASE"} ELSE IF p = "phenotype_of" THEN {"SYMPTOM"} ELSE {}]
MCCodomain == [p \in Predicates |->
  IF p = "has_phenotype" THEN {"SYMPTOM"} ELSE IF p = "phenotype_of" THEN {"DISEASE"} ELSE {}]

-----------------------------------------------------------------------------
(* The native reasoner: cycles, a backward edge, a deduced one, a conflict, *)
(* names that are resolved and names that are not.                          *)

Edge(s, p, o) == [s |-> s, p |-> p, o |-> o, deduced |-> FALSE]
Stored == {Edge("a", "treats", "b"), Edge("b", "has_phenotype", "c"),
           Edge("c", "has_phenotype", "b")}
MCGraphs == {g \cup x : g \in SUBSET Stored,
  x \in {{Edge("a", "contraindicated", "b"), Edge("b", "part_of", "c")},
         {[Edge("b", "part_of", "c") EXCEPT !.deduced = TRUE], Edge("a", "given_for", "b")}}}
MCTypesOf == ("a" :> {}) @@ ("b" :> {"DISEASE"}) @@ ("c" :> {"SYMPTOM"})
MCNames == {"a", "b", "c", "a (x)"}
MCSpelled == [n \in MCNames |-> {n} \ {"a (x)"}]
MCResolved == [n \in MCNames |-> IF n = "a (x)" THEN "a" ELSE n]
MCAsked == {<<"a (x)", "treats", "b">>, <<"b", "treated_by", "a">>, <<"c", "has_symptom", "b">>}
MCDisjoint == {{"treats", "contraindicated"}}

-----------------------------------------------------------------------------
(* Paths: synonyms, chains, two ways round, an inverse, an inverse of what  *)
(* only a chain establishes, a gene, a deduced edge and one nobody is       *)
(* confident of; a subject with more edges than rows are returned or proofs *)
(* are kept; and one that belongs to nine classes, the default limit being  *)
(* eight.                                                                   *)

MCDisjointClasses == {{"b", "d"}, {"c9", "e"}}
Costing(cost, s, p, o) == Edge(s, p, o) @@ [cost |-> cost]
Sure(s, p, o) == Costing(0, s, p, o)
Deduced(s, p, o) == [Sure(s, p, o) EXCEPT !.deduced = TRUE]
Fan == {Sure("a", "part_of", "h"), Sure("h", "treats", "a"), Sure("a", "within", "k"), Sure("k", "part_of", "d"),
        Costing(1, "a", "within", "b"), Sure("b", "affects", "d")}
NineClasses == [limit |-> 8, edges |-> {Sure("a", "affects", "e")} \cup
  {Sure("a", "within", c) : c \in {"c1", "c2", "c3", "c4", "c5", "c6", "c7", "c8", "c9"}}]
PathJobs ==
  {NineClasses} \cup
  {[edges |-> x, limit |-> 9] : x \in
     {{Sure("a", "is_a", "b"), Sure("b", "has_phenotype", "c"), Sure("b", "affects", "gene"), Deduced("b", "part_of", "d")}}
     \cup SUBSET {Sure("a", "given_for", "b"), Sure("b", "part_of", "c"), Sure("c", "part_of", "d"),
                  Sure("a", "part_of", "d"), Sure("d", "treated_by", "a"), Costing(4, "b", "affects", "d")}}
  \cup {[edges |-> x \cup {Costing(1, "a", "part_of", "d"), Costing(1, "a", "treats", "b")}, limit |-> 1] : x \in SUBSET Fan}
MCPathGoals == {<<"a", "treats", "b">>, <<"a", "treats", "c">>, <<"d", "treats", "a">>, <<"b", "within", "d">>,
                <<"a", "affects", "d">>, <<"c", "part_of", "d">>, <<"b", "part_of", "d">>,
                <<"a", "phenotype_of", "c">>, <<"b", "affects", "gene">>, <<"a", "part_of", "d">>, <<"a", "affects", "e">>}

-----------------------------------------------------------------------------
(* Rules: recursion to the left and to the right, symmetry, negation over a *)
(* recursive predicate, exceptions; caps that are met and caps that are not. *)

MCRulePredicates == {"p", "q", "d", "e"}
Var(x) == <<"var", x>>
Pos(s, p, o) == [s |-> s, p |-> p, o |-> o, neg |-> FALSE]
Not(s, p, o) == [s |-> s, p |-> p, o |-> o, neg |-> TRUE]
Rule(level, conditions, head, exceptions) ==
  [level |-> level, conditions |-> conditions, head |-> head, exceptions |-> exceptions, cost |-> 0]

x_d_y == Pos(Var("x"), "d", Var("y"))
Step == Rule(1, <<Pos(Var("x"), "p", Var("y"))>>, x_d_y, <<>>)
Chain == Rule(1, <<Pos(Var("x"), "p", Var("z")), Pos(Var("z"), "d", Var("y"))>>, x_d_y, <<>>)
Far == Rule(1, <<Pos(Var("z"), "p", Var("u")), Pos(Var("x"), "p", Var("z")), Pos(Var("y"), "p", Var("u"))>>, x_d_y, <<>>)
Back == Rule(1, <<Pos(Var("y"), "d", Var("x"))>>, x_d_y, <<Pos(Var("x"), "q", Var("y"))>>)
Alone == Rule(2, <<Pos(Var("x"), "q", Var("y")), Not(Var("x"), "d", Var("y"))>>,
              Pos(Var("x"), "e", Var("y")), <<>>)
Advice == Rule(2, <<Pos(Var("x"), "p", <<"ent", "b">>)>>, Pos(Var("x"), "e", <<"ent", "c">>),
               <<Not(Var("x"), "d", <<"ent", "c">>), Pos(Var("x"), "q", <<"ent", "b">>)>>)

Cap(depth, rules, work) == [maxDepth |-> depth, maxRules |-> rules, maxBindings |-> 3, maxWork |-> work, strata |-> 2]
Assumption == <<<<"c", "q", "a">>, <<"a", "p", "b">>>>
RuleJobs ==
  {cap @@ [rules |-> rules, strong |-> strong \ given[1], weak |-> given[1], assumed |-> given[2], contra |-> given[3]] :
     rules \in {<<Step, Chain>>, <<Chain, Back, Step, Advice>>, <<Advice, Alone, Far, Back>>},
     cap \in {Cap(1, 30, 500), Cap(4, 40, 9), Cap(4, 3, 90), Cap(8, 300, 5000)},
     strong \in SUBSET {<<"a", "p", "b">>, <<"b", "p", "c">>, <<"c", "p", "a">>, <<"a", "q", "b">>},
     given \in {<<{}, <<>>, {}>>, <<{}, Assumption, {<<"a", "d", "c">>}>>, <<{<<"a", "q", "b">>}, Assumption, {}>>,
                <<{<<"a", "q", "b">>}, <<>>, {<<"a", "d", "c">>}>>}}
MCRuleGoals == {<<"a", "d", "c">>, <<"b", "d", "a">>, <<"c", "e", "a">>, <<"a", "e", "c">>, <<"a", "d", "a">>}

-----------------------------------------------------------------------------
(* Builds: a scope of two diseases under p and q, or with a symptom whose   *)
(* relation is stored backwards; every hierarchy over a pool with cycles,   *)
(* half of it stored under the inverse of is_a, and one that is deeper than *)
(* the limit, with a pair stored under both and one that is no hierarchy.   *)

MCEntities == {"a", "b", "p", "q", "t", "x", "y", "z"}
MCLabels == [e \in MCEntities |-> IF e = "t" THEN {"SYMPTOM"} ELSE {"DISEASE"}]
MCTermOf == [e \in MCEntities |-> IF e \in {"a", "b", "q"} THEN e ELSE None]
MCIsA == {<<"a", "q">>, <<"b", "q">>}
MCTokens == [e \in MCEntities |->
  CASE e = "a" -> {1, 2, 3} [] e = "b" -> {1, 4} [] e = "p" -> {1} [] OTHER -> {}]
Pool == {<<"a", "p", "is_a">>, <<"p", "a", "is_parent_of">>, <<"b", "p", "is_parent_of">>,
         <<"b", "q", "isa">>, <<"q", "p", "is_a">>, <<"p", "q", "is_parent_of">>}
Deep == {<<"a", "p", "is_a">>, <<"a", "p", "is_parent_of">>, <<"p", "q", "isa">>, <<"q", "y", "is_a">>,
         <<"a", "y", "is_a">>, <<"y", "x", "is_parent_of">>, <<"x", "z", "is_a">>, <<"b", "z", "is_a">>,
         <<"b", "x", "part_of">>}
Shared == {<<"a", "has_phenotype", "t">>, <<"b", "has_phenotype", "t">>}
Turned == {<<"a", "has_phenotype", "t">>, <<"t", "has_phenotype", "b">>, <<"p", "has_phenotype", "t">>}

MCJobs == {[scope |-> j[1], facts |-> j[2], byName |-> n, derived |-> d, hierarchy |-> h] :
  j \in {<<{"a", "b"}, Shared>>, <<{"a", "b", "t"}, Turned>>},
  n \in ByName, d \in BOOLEAN, h \in SUBSET Pool \cup {Deep}}

-----------------------------------------------------------------------------

MCQuestions == ("rules" :> RuleJobs) @@ ("paths" :> PathJobs) @@ ("packs" :> PackJobs)
===============================================================================
