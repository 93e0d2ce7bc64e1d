---------------------------- MODULE TopicSelector ----------------------------
(***************************************************************************)
(* What the daemon thinks about while nobody asks: the ring of recent      *)
(* queries (cmd/pensiero/telemetry.go), which answers with the hot keys    *)
(* and the unresolved claims, and the selector of topics over it           *)
(* (cmd/pensiero/topic_selector.go), which gives its sources random turns  *)
(* by weight.                                                              *)
(*                                                                         *)
(* Queries record their events from goroutines of their own, the selector  *)
(* is called by the cognition worker alone.  A claim stands for a          *)
(* subject, predicate and object; KeyOf is claimDedupeKey, 0 its empty     *)
(* string.  What the random, bridge and semantic sources find in the graph *)
(* is a choice here.                                                       *)
(***************************************************************************)
EXTENDS Naturals, Sequences, FiniteSets
LOCAL INSTANCE SequencesExt

CONSTANTS
  Queries,     \* what is asked, and of whom: <<claim, method, generation>>
  KeyOf,       \* claimDedupeKey of each claim, in their order; 0: the empty one
  Plausible,   \* the claims plausibleClaim lets pass
  Answers,     \* to each claim, those of "entailed", "contradicted",
               \* "unsupported" and "error" the graph may come to give
  Limit,       \* capacity of the ring of events, positive
  HotLimit,    \* how many hot keys and unresolved claims a source looks at
  Sources,     \* the sources kept, in their order
  Weight,      \* of each source, positive
  None

VARIABLES
  events, next,    \* the ring: its slots, and the one to overwrite once full
  latest,          \* history: the last Limit events, oldest first
  hotNext, unresolvedNext,  \* round-robin counters of the two telemetry sources
  sinceRandom,     \* the selector's counter
  order,           \* the sources Next has still to ask; <<>> between calls
  failed,          \* whether one of them failed
  result           \* what the last call returned: its source and claim, or None

ring == <<events, next, latest>>
vars == <<ring, hotNext, unresolvedNext, sinceRandom, order, failed, result>>

\* Keeps a round-robin counter finite: only its remainders by 1..HotLimit count.
Period == IF HotLimit <= 2 THEN 2 ELSE 60

WeightUpTo[i \in 0..Len(Sources)] == IF i = 0 THEN 0 ELSE WeightUpTo[i - 1] + Weight[Sources[i]]
Total == WeightUpTo[Len(Sources)]

HasRandom == \E i \in DOMAIN Sources : Sources[i] = "random"

Init ==
  /\ events = <<>> /\ next = 1 /\ latest = <<>>
  /\ hotNext = 0 /\ unresolvedNext = 0
  /\ sinceRandom = 0
  /\ order = <<>> /\ failed = FALSE /\ result = None

-----------------------------------------------------------------------------
(* Telemetry *)

\* The verdict telemetryReasoner writes for what the inner reasoner answered:
\* Derive knows only whether there are proofs, Contradicts only whether there
\* is a contradiction, so an entailed claim counts as unsupported there.
Verdict(method, answer) ==
  CASE answer = "error" -> ""
    [] method = "Derive" -> IF answer = "entailed" THEN "derived" ELSE "unsupported"
    [] method = "Contradicts" -> IF answer = "contradicted" THEN answer ELSE "unsupported"
    [] OTHER -> answer

Wrap(n) == (n % Limit) + 1

Record(event) ==
  /\ IF Len(events) < Limit
     THEN events' = Append(events, event) /\ UNCHANGED next
     ELSE events' = [events EXCEPT ![next] = event] /\ next' = Wrap(next)
  /\ latest' = LET all == Append(latest, event)
               IN  IF Len(all) > Limit THEN Tail(all) ELSE all

\* A query that was borrowing an older generation may be the last to record.
Query(claim, method, generation, answer) ==
  /\ Record([claim |-> claim, method |-> method, generation |-> generation,
             verdict |-> Verdict(method, answer)])
  /\ UNCHANGED <<hotNext, unresolvedNext, sinceRandom, order, failed, result>>

\* mutant: what was recorded since the ring last wrapped is not read
RetainedMutant == SubSeq(events, next, Len(events))
\* Once full the oldest event is the next to be overwritten; before, next is 1.
Retained == SubSeq(events, next, Len(events)) \o SubSeq(events, 1, next - 1)

\* Cache keys are per generation and method; the hash orders them, here
\* generation, key and method do.
MethodRank(m) == CASE m = "Derive" -> 1 [] m = "Entails" -> 2 [] OTHER -> 3
HashOf(e) == <<e.generation, KeyOf[e.claim], MethodRank(e.method)>>
Before(h, k) == \E i \in DOMAIN h : h[i] < k[i] /\ \A j \in 1..(i - 1) : h[j] = k[j]

\* HotKeys and UnresolvedClaims: the retained events by their groups (<<>>:
\* left out), the most frequent first, then the smallest, HotLimit of them; each
\* is known by the claim of its first retained event.
MostFrequent(group) ==
  LET counts == {<<Cardinality({i \in DOMAIN group : group[i] = g}), g>> : g \in ToSet(group) \ {<<>>}}
      sorted == SetToSortSeq(counts, LAMBDA c, d : c[1] > d[1] \/ (c[1] = d[1] /\ Before(c[2], d[2])))
      first(g) == Retained[SelectInSeq(group, LAMBDA h : h = g)]
  IN  [k \in 1..(IF Len(sorted) > HotLimit THEN HotLimit ELSE Len(sorted)) |-> first(sorted[k][2]).claim]

HotKeys == MostFrequent([i \in DOMAIN Retained |-> HashOf(Retained[i])])

UnresolvedClaims == MostFrequent([i \in DOMAIN Retained |->
  IF Retained[i].verdict \in {"unsupported", "contradicted"} /\ KeyOf[Retained[i].claim] # 0
  THEN <<KeyOf[Retained[i].claim]>> ELSE <<>>])

-----------------------------------------------------------------------------
(* TopicSelector.Next *)

\* The source whose share of the weights the random number falls into.
Selected(target) == Sources[CHOOSE i \in DOMAIN Sources :
  WeightUpTo[i - 1] <= target /\ target < WeightUpTo[i]]

MustBeRandom == HasRandom /\ sinceRandom >= Total - 1

\* mutant: the selections that fall to the others are not counted
CountedMutant(source) == IF source = "random" THEN 0 ELSE sinceRandom
Counted(source) == IF source = "random" THEN 0 ELSE sinceRandom + 1

\* The counter starts again when the random source is picked, whether or not
\* it is then asked.
Pick(source) ==
  /\ order = <<>>
  /\ \E target \in 0..(Total - 1) :
       source = IF MustBeRandom THEN "random" ELSE Selected(target)
  /\ sinceRandom' = IF HasRandom THEN Counted(source) ELSE sinceRandom
  /\ order' = <<source>> \o SelectSeq(Sources, LAMBDA s : s # source)
  /\ failed' = FALSE
  /\ result' = None
  /\ UNCHANGED <<ring, hotNext, unresolvedNext>>

\* A source answers with a claim, with nothing, or with an error, which is
\* remembered while the others are asked.
Offer(claim) ==
  /\ order' = <<>>
  /\ result' = [source |-> Head(order), claim |-> claim]
  /\ UNCHANGED failed
Pass(error) ==
  /\ order' = Tail(order)
  /\ failed' = (failed \/ error)
  /\ UNCHANGED result

\* mutant: a source begins where it began before
AdvanceMutant(counter, claims) == counter
Advance(counter, claims) == IF claims = <<>> THEN counter ELSE (counter + 1) % Period

\* The first claim from the counter's place on that has a key and is plausible.
RoundRobin(counter, claims) ==
  LET place(i) == ((counter + i) % Len(claims)) + 1
      good == {i \in 0..(Len(claims) - 1) :
                 KeyOf[claims[place(i)]] # 0 /\ claims[place(i)] \in Plausible}
  IN  IF good = {} THEN Pass(FALSE)
      ELSE Offer(claims[place(CHOOSE i \in good : \A j \in good : i <= j)])

AskHot ==
  /\ order # <<>> /\ Head(order) = "query-hot"
  /\ LET keys == HotKeys IN
       /\ RoundRobin(hotNext, keys)
       /\ hotNext' = Advance(hotNext, keys)
  /\ UNCHANGED <<ring, unresolvedNext, sinceRandom>>

AskUnresolved ==
  /\ order # <<>> /\ Head(order) = "unresolved"
  /\ LET claims == UnresolvedClaims IN
       /\ RoundRobin(unresolvedNext, claims)
       /\ unresolvedNext' = Advance(unresolvedNext, claims)
  /\ UNCHANGED <<ring, hotNext, sinceRandom>>

\* The sources that read the graph; the semantic one also needs a hot key.
AskGraph ==
  /\ order # <<>> /\ Head(order) \in {"random", "bridge", "semantic"}
  /\ \/ /\ Head(order) = "semantic" => HotKeys # <<>>
        /\ Offer(None)
     \/ \E error \in BOOLEAN :
          /\ error /\ Head(order) = "semantic" => HotKeys # <<>>
          /\ Pass(error)
  /\ UNCHANGED <<ring, hotNext, unresolvedNext, sinceRandom>>

\* The context ends: it is looked at before every source, and by every source.
CtxEnds ==
  /\ order # <<>>
  /\ order' = <<>> /\ failed' = TRUE
  /\ UNCHANGED <<ring, hotNext, unresolvedNext, sinceRandom, result>>

Ask == AskHot \/ AskUnresolved \/ AskGraph

Next ==
  \/ \E q \in Queries : \E answer \in Answers[q[1]] : Query(q[1], q[2], q[3], answer)
  \/ \E source \in {Sources[i] : i \in DOMAIN Sources} : Pick(source)
  \/ Ask
  \/ CtxEnds

Spec == Init /\ [][Next]_vars

\* A call in progress goes on to its end, and the worker keeps calling; nothing
\* is asked of the random numbers.
FairSpec ==
  /\ Spec
  /\ WF_order(order # <<>> /\ order' \in {Tail(order), <<>>})
  /\ WF_vars(\E i \in DOMAIN Sources : Pick(Sources[i]))

-----------------------------------------------------------------------------

\* The random source is asked and has nothing to say.
RandomPasses == AskGraph /\ Head(order) = "random" /\ result' = None

(***************************************************************************)
(* Where the random source is kept, the graph's random region is thought   *)
(* about again and again, however the random numbers fall and whatever the *)
(* other sources offer, once calls are no longer cut short and the source  *)
(* has something to say: the floor of topic_selector.go:202-209.  A call   *)
(* that is cut short after the pick uses the forced turn up (206): while   *)
(* that goes on nothing is promised.                                       *)
(***************************************************************************)
RandomIsTheFloor ==
  HasRandom /\ <>[][~CtxEnds /\ ~RandomPasses]_vars
    => []<>(result = [source |-> "random", claim |-> None])

\* Whether a claim leads a group of the last Limit events that is among the
\* HotLimit most frequent ones.
GroupOf(e) == {i \in DOMAIN latest : HashOf(latest[i]) = HashOf(e)}
Precedes(d, e) ==
  \/ Cardinality(GroupOf(d)) > Cardinality(GroupOf(e))
  \/ Cardinality(GroupOf(d)) = Cardinality(GroupOf(e)) /\ Before(HashOf(d), HashOf(e))
IsHot(claim) == \E i \in DOMAIN latest :
  /\ latest[i].claim = claim
  /\ \A j \in GroupOf(latest[i]) : i <= j
  /\ Cardinality({HashOf(d) : d \in {e \in ToSet(latest) : Precedes(e, latest[i])}}) < HotLimit

(***************************************************************************)
(* When the recent queries stop changing and calls are no longer cut       *)
(* short, every plausible claim that is hot among the last Limit queries,  *)
(* whatever turn around the ring they fell into, is thought about again    *)
(* and again, if the random numbers keep picking the source of hot keys:   *)
(* the ring of telemetry.go:278-287 and 438-450 forgets exactly the        *)
(* oldest, and the round-robin of topic_selector.go:253-284 skips          *)
(* implausible claims without starving the others.                         *)
(***************************************************************************)
HotKeysArePrewarmed ==
  \A claim \in Plausible :
    /\ <>[][UNCHANGED ring /\ ~CtxEnds]_vars
    /\ []<><<Pick("query-hot")>>_vars
    /\ <>[]IsHot(claim)
    /\ KeyOf[claim] # 0
    => []<>(result = [source |-> "query-hot", claim |-> claim])
=============================================================================
