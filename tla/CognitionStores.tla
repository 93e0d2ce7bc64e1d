--------------------------- MODULE CognitionStores ---------------------------
(***************************************************************************)
(* What comes of the daemon's thoughts (cmd/pensiero/cognition.go,         *)
(* ThoughtEngine) and where it is kept (cognition_store.go): questions for *)
(* people, each asked once as long as it is kept, and facts that await     *)
(* confirmation, found again through a table from claims to places.        *)
(*                                                                         *)
(* A claim is known by its key, claimDedupeKey; those without one are      *)
(* dropped at once.  Rationales, gains and times are left out.             *)
(***************************************************************************)
EXTENDS Naturals, Sequences

CONSTANTS
  Keys,
  Tautologies,   \* keys of self-loops on predicates that are not reflexive
  Confidences,
  Limit          \* of either store

ASSUME LimitIsPositive == Limit \in Nat \ {0}

VARIABLES
  questions, asked,  \* questionStore: records and seen
  facts, index,      \* unconfirmedStore: facts and seen
  latest             \* history: of every key the confidence recorded last

questionVars == <<questions, asked>>
factVars == <<facts, index, latest>>
vars == <<questions, asked, facts, index, latest>>

Init ==
  /\ questions = <<>> /\ asked = {}
  /\ facts = <<>> /\ index = [k \in {} |-> 0]
  /\ latest = [k \in {} |-> 0]

-----------------------------------------------------------------------------
(* questionStore.Emit *)

\* A full store forgets its oldest question, which may then be asked again.
Emit(key) ==
  /\ IF key \in asked \/ key \in Tautologies THEN UNCHANGED questionVars
     ELSE IF Len(questions) < Limit
     THEN questions' = Append(questions, key) /\ asked' = asked \cup {key}
     ELSE /\ questions' = Append(Tail(questions), key)
          /\ asked' = (asked \cup {key}) \ {Head(questions)}
  /\ UNCHANGED factVars

-----------------------------------------------------------------------------
(* unconfirmedStore.Record *)

\* mutant: the places of the facts that stay are not shifted
PlacesMutant(table, gone) == [k \in DOMAIN table \ {gone} |-> table[k]]
\* When the first fact goes, the others move up.
Places(table, gone) == [k \in DOMAIN table \ {gone} |-> table[k] - 1]

With(table, key, value) == [k \in DOMAIN table \cup {key} |-> IF k = key THEN value ELSE table[k]]

Fact(key, confidence) == [key |-> key, confidence |-> confidence]

Replace(key, confidence) ==
  /\ key \in DOMAIN index
  /\ facts' = [facts EXCEPT ![index[key]] = Fact(key, confidence)]
  /\ UNCHANGED index

Add(key, confidence) ==
  /\ key \notin DOMAIN index /\ Len(facts) < Limit
  /\ facts' = Append(facts, Fact(key, confidence))
  /\ index' = With(index, key, Len(facts) + 1)

AddEvicting(key, confidence) ==
  /\ key \notin DOMAIN index /\ Len(facts) >= Limit
  /\ facts' = Append(Tail(facts), Fact(key, confidence))
  /\ index' = Places(With(index, key, Len(facts) + 1), Head(facts).key)

Record(key, confidence) ==
  /\ Replace(key, confidence) \/ Add(key, confidence) \/ AddEvicting(key, confidence)
  /\ latest' = With(latest, key, confidence)
  /\ UNCHANGED questionVars

-----------------------------------------------------------------------------
(* ThoughtEngine.Execute; a precomputed proof only fills the cache. *)

Hunt(key, contradicted) == contradicted /\ Emit(key)

Test(key, verdict, confidence) ==
  IF verdict = "entailed" THEN Record(key, confidence) ELSE Emit(key)

Bridge(key) == Emit(key)

Next == \E key \in Keys :
  \/ \E contradicted \in BOOLEAN : Hunt(key, contradicted)
  \/ \E verdict \in {"entailed", "contradicted", "unsupported"}, confidence \in Confidences :
       Test(key, verdict, confidence)
  \/ Bridge(key)

Spec == Init /\ [][Next]_vars

-----------------------------------------------------------------------------

TypeOK ==
  /\ questions \in Seq(Keys) /\ asked \subseteq Keys
  /\ facts \in Seq([key : Keys, confidence : Confidences])
  /\ DOMAIN index \subseteq Keys /\ DOMAIN latest \subseteq Keys
  /\ \A k \in DOMAIN latest : latest[k] \in Confidences

\* The table leads from every kept fact's key to its place, and nowhere else.
IndexExact ==
  /\ DOMAIN index = {facts[i].key : i \in DOMAIN facts}
  /\ \A i \in DOMAIN facts : index[facts[i].key] = i

LatestKept ==
  \A i \in DOMAIN facts : facts[i].key \in DOMAIN latest
                       /\ facts[i].confidence = latest[facts[i].key]

WithinLimits == Len(facts) <= Limit /\ Len(questions) <= Limit

AskedExact ==
  /\ asked = {questions[i] : i \in DOMAIN questions}
  /\ \A i, j \in DOMAIN questions : questions[i] = questions[j] => i = j

(***************************************************************************)
(* Every fact that awaits confirmation shows the confidence recorded last  *)
(* for its claim, and no other fact was overwritten with it: the table of  *)
(* places stays exact through replacements and evictions                   *)
(* (cognition_store.go:205-219).  No question is kept twice, and one that  *)
(* is not kept may be asked.                                               *)
(***************************************************************************)
FactsAreLatest == IndexExact /\ LatestKept /\ WithinLimits /\ AskedExact
===============================================================================
