----------------------------- MODULE ProofCache -----------------------------
(***************************************************************************)
(* The proof cache (cmd/pensiero/cache.go): an LRU of reasoning results    *)
(* bounded in entries and in bytes, with single-flight computation, shared *)
(* by the goroutines that serve requests.                                  *)
(*                                                                         *)
(* A claim stands for everything of a request that enters the hash besides *)
(* the generation: the method, the normalized claim or derive request and  *)
(* the assumed facts.  A result is three facts about it: the generation it *)
(* was computed on, whether the backend finished it (a backend whose       *)
(* context is cancelled may return a premature verdict with a nil error),  *)
(* and its size.  Cloning is left out: values are immutable here.          *)
(***************************************************************************)
EXTENDS Naturals, Sequences, FiniteSetsExt, SequencesExt

CONSTANTS
  Requests,        \* goroutines that serve requests
  Claims,
  LastGeneration,  \* bound: the generations are 1..LastGeneration
  Sizes,           \* the sizes a result may have
  MaxEntries, MaxBytes,
  NoRequest

ASSUME SizesPositive == Sizes \subseteq Nat \ {0}
ASSUME LimitsNatural == MaxEntries \in Nat \ {0} /\ MaxBytes \in Nat \ {0}
ASSUME GenerationsExist == LastGeneration \in Nat \ {0}
ASSUME NoRequestIsNoRequest == NoRequest \notin Requests

Generations == 1..LastGeneration
Keys == [gen : Generations, claim : Claims]
Values == [gen : 0..LastGeneration, complete : BOOLEAN, bytes : Sizes \cup {0}]
NoValue == [gen |-> 0, complete |-> FALSE, bytes |-> 0]

VARIABLES
  current,    \* the generation the provider serves
  entries,    \* the cached value of each key, or NoValue
  lru,        \* the cached keys, most recently used first
  bytes,      \* the byte counter
  calls,      \* the request that computes each key, or NoRequest
  pc,         \* where each request is in loadOrCompute
  gen,        \* the generation it acquired
  borrowed,   \* whether it has not released that generation yet
  key,        \* the key it looks up
  cancelled,  \* whether its context is cancelled
  waitsFor,   \* the leader whose call it waits for
  status,     \* "none", or how its call or its request ended
  value       \* the value of its call or its answer

cacheVars == <<entries, lru, bytes>>
vars == <<current, cacheVars, calls, pc, gen, borrowed, key, cancelled,
          waitsFor, status, value>>

\* mutant: the generation is left out of the hashed key
KeyWithoutGeneration(g, c) == [gen |-> 1, claim |-> c]

KeyOf(g, c) == [gen |-> g, claim |-> c]

Cached(k) == entries[k] # NoValue

Init ==
  /\ current = 1
  /\ entries = [k \in Keys |-> NoValue]
  /\ lru = <<>>
  /\ bytes = 0
  /\ calls = [k \in Keys |-> NoRequest]
  /\ pc = [r \in Requests |-> "idle"]
  /\ gen = [r \in Requests |-> 1]
  /\ borrowed = [r \in Requests |-> FALSE]
  /\ key \in [Requests -> {k \in Keys : k.gen = 1}]
  /\ cancelled = [r \in Requests |-> FALSE]
  /\ waitsFor = [r \in Requests |-> NoRequest]
  /\ status = [r \in Requests |-> "none"]
  /\ value = [r \in Requests |-> NoValue]

-----------------------------------------------------------------------------
(* The surroundings *)

\* The generation store swaps in a new generation, whose id is fresh.
Publish ==
  /\ current < LastGeneration
  /\ current' = current + 1
  /\ UNCHANGED <<cacheVars, calls, pc, gen, borrowed, key, cancelled, waitsFor, status, value>>

Cancel(r) ==
  /\ pc[r] # "idle"
  /\ ~cancelled[r]
  /\ cancelled' = [cancelled EXCEPT ![r] = TRUE]
  /\ UNCHANGED <<current, cacheVars, calls, pc, gen, borrowed, key, waitsFor, status, value>>

-----------------------------------------------------------------------------
(* Requests *)

\* Derive, Entails or Contradicts: acquire a generation and hash the key.
Start(r, c) ==
  /\ pc[r] = "idle"
  /\ pc' = [pc EXCEPT ![r] = "lookup"]
  /\ gen' = [gen EXCEPT ![r] = current]
  /\ borrowed' = [borrowed EXCEPT ![r] = TRUE]
  /\ key' = [key EXCEPT ![r] = KeyOf(current, c)]
  /\ cancelled' = [cancelled EXCEPT ![r] = FALSE]
  /\ status' = [status EXCEPT ![r] = "none"]
  /\ value' = [value EXCEPT ![r] = NoValue]
  /\ UNCHANGED <<current, cacheVars, calls, waitsFor>>

\* loadOrCompute returns: the generation is released.
Return(r, how, v) ==
  /\ pc' = [pc EXCEPT ![r] = "idle"]
  /\ borrowed' = [borrowed EXCEPT ![r] = FALSE]
  /\ waitsFor' = [waitsFor EXCEPT ![r] = NoRequest]
  /\ status' = [status EXCEPT ![r] = how]
  /\ value' = [value EXCEPT ![r] = v]

MoveToFront(k) ==
  LET place == CHOOSE i \in DOMAIN lru : lru[i] = k
  IN  <<k>> \o RemoveAt(lru, place)

\* The three outcomes of one look at the tables under the lock: hit, join
\* the call in flight, or become its leader -- unless cancelled.
Hit(r) ==
  /\ pc[r] = "lookup"
  /\ Cached(key[r])
  /\ lru' = MoveToFront(key[r])
  /\ Return(r, "ok", entries[key[r]])
  /\ UNCHANGED <<current, entries, bytes, calls, gen, key, cancelled>>

Join(r) ==
  /\ pc[r] = "lookup"
  /\ ~Cached(key[r])
  /\ calls[key[r]] # NoRequest
  /\ pc' = [pc EXCEPT ![r] = "waiting"]
  /\ waitsFor' = [waitsFor EXCEPT ![r] = calls[key[r]]]
  /\ UNCHANGED <<current, cacheVars, calls, gen, borrowed, key, cancelled, status, value>>

LookupCancelled(r) ==
  /\ pc[r] = "lookup"
  /\ ~Cached(key[r])
  /\ calls[key[r]] = NoRequest
  /\ cancelled[r]
  /\ Return(r, "cancelled", NoValue)
  /\ UNCHANGED <<current, cacheVars, calls, gen, key, cancelled>>

\* mutant: a request does not look for a call in flight
LeadAlways(r) ==
  /\ pc[r] = "lookup"
  /\ ~Cached(key[r])
  /\ ~cancelled[r]
  /\ calls' = [calls EXCEPT ![key[r]] = r]
  /\ pc' = [pc EXCEPT ![r] = "computing"]
  /\ UNCHANGED <<current, cacheVars, gen, borrowed, key, cancelled, waitsFor, status, value>>

Lead(r) ==
  /\ pc[r] = "lookup"
  /\ ~Cached(key[r])
  /\ calls[key[r]] = NoRequest
  /\ ~cancelled[r]
  /\ calls' = [calls EXCEPT ![key[r]] = r]
  /\ pc' = [pc EXCEPT ![r] = "computing"]
  /\ UNCHANGED <<current, cacheVars, gen, borrowed, key, cancelled, waitsFor, status, value>>

-----------------------------------------------------------------------------
(* The leader *)

\* The backend returns a result, fails, or panics (a failure for the
\* waiters); a result obtained under a cancelled context becomes an error.
Compute(r) ==
  /\ pc[r] = "computing"
  /\ \E err \in {"ok", "failed"}, complete \in BOOLEAN, n \in Sizes :
       /\ ~complete /\ err = "ok" => cancelled[r]
       /\ LET end == IF err = "ok" /\ cancelled[r] THEN "cancelled" ELSE err IN
            /\ status' = [status EXCEPT ![r] = end]
            /\ value' = [value EXCEPT ![r] =
                 IF end = "ok" THEN [gen |-> gen[r], complete |-> complete, bytes |-> n] ELSE NoValue]
            /\ pc' = [pc EXCEPT ![r] = IF end = "ok" THEN "storing" ELSE "finishing"]
  /\ UNCHANGED <<current, cacheVars, calls, gen, borrowed, key, cancelled, waitsFor>>

\* The bytes of the values under some keys.
BytesOf(e, keys) == MapThenSumSet(LAMBDA k : e[k].bytes, keys)

\* The keys of s behind the first n.
Behind(s, n) == {s[i] : i \in n + 1..Len(s)}

\* mutant: only the number of entries is limited
KeptMutant(e, s, total) ==
  CHOOSE n \in 0..Len(s) :
    /\ n = 0 \/ n <= MaxEntries
    /\ \A m \in n + 1..Len(s) : m > MaxEntries

\* How many keys at the front survive: entries are evicted from the back
\* while there are too many of them, or too many bytes.
Kept(e, s, total) ==
  LET Fits(n) == n = 0 \/ (n <= MaxEntries /\ total - BytesOf(e, Behind(s, n)) <= MaxBytes)
  IN  CHOOSE n \in 0..Len(s) : Fits(n) /\ \A m \in n + 1..Len(s) : ~Fits(m)

BytesWith(k, v) == (bytes - entries[k].bytes) + v.bytes

\* insert, which replaces an entry that is already there.
Insert(r) ==
  /\ pc[r] = "storing"
  /\ LET k == key[r]
         added == [entries EXCEPT ![k] = value[r]]
         order == IF Cached(k) THEN MoveToFront(k) ELSE <<k>> \o lru
         total == BytesWith(k, value[r])
         n == Kept(added, order, total)
         survivors == SubSeq(order, 1, n)
     IN  /\ lru' = survivors
         /\ entries' = [x \in Keys |-> IF x \in ToSet(survivors) THEN added[x] ELSE NoValue]
         /\ bytes' = total - BytesOf(added, Behind(order, n))
  /\ pc' = [pc EXCEPT ![r] = "finishing"]
  /\ UNCHANGED <<current, calls, gen, borrowed, key, cancelled, waitsFor, status, value>>

\* mutant: a call that failed stays registered
FinishKeepsFailed(r) ==
  /\ pc[r] = "finishing"
  /\ calls' = [calls EXCEPT ![key[r]] = IF status[r] = "ok" THEN NoRequest ELSE @]
  /\ pc' = [pc EXCEPT ![r] = "closing"]
  /\ UNCHANGED <<current, cacheVars, gen, borrowed, key, cancelled, waitsFor, status, value>>

\* finishCall, under the lock: whoever looks now no longer finds the call.
FinishCall(r) ==
  /\ pc[r] = "finishing"
  /\ calls' = [calls EXCEPT ![key[r]] = NoRequest]
  /\ pc' = [pc EXCEPT ![r] = "closing"]
  /\ UNCHANGED <<current, cacheVars, gen, borrowed, key, cancelled, waitsFor, status, value>>

\* close(call.done), outside the lock, shows every waiter the call's end;
\* then the leader returns, or re-panics, and releases its generation.
CloseDone(r) ==
  /\ pc[r] = "closing"
  /\ LET woken == {w \in Requests : pc[w] = "waiting" /\ waitsFor[w] = r} IN
       /\ pc' = [w \in Requests |-> IF w = r THEN "idle"
                                    ELSE IF w \in woken THEN "woken" ELSE pc[w]]
       /\ status' = [w \in Requests |-> IF w \in woken THEN status[r] ELSE status[w]]
       /\ value' = [w \in Requests |-> IF w \in woken THEN value[r] ELSE value[w]]
       /\ waitsFor' = [w \in Requests |-> IF w \in woken THEN NoRequest ELSE waitsFor[w]]
  /\ borrowed' = [borrowed EXCEPT ![r] = FALSE]
  /\ UNCHANGED <<current, cacheVars, calls, gen, key, cancelled>>

-----------------------------------------------------------------------------
(* A waiter *)

\* Its context may end the wait, even when the call is done as well.
WaitCancelled(r) ==
  /\ pc[r] \in {"waiting", "woken"}
  /\ cancelled[r]
  /\ Return(r, "cancelled", NoValue)
  /\ UNCHANGED <<current, cacheVars, calls, gen, key, cancelled>>

TakeResult(r) ==
  /\ pc[r] = "woken"
  /\ status[r] = "ok"
  /\ Return(r, "ok", value[r])
  /\ UNCHANGED <<current, cacheVars, calls, gen, key, cancelled>>

\* mutant: the waiter returns the leader's error
RetryNot(r) ==
  /\ pc[r] = "woken"
  /\ status[r] # "ok"
  /\ Return(r, status[r], NoValue)
  /\ UNCHANGED <<current, cacheVars, calls, gen, key, cancelled>>

\* The leader's error is the leader's: a live waiter starts over.
Retry(r) ==
  /\ pc[r] = "woken"
  /\ status[r] # "ok"
  /\ ~cancelled[r]
  /\ pc' = [pc EXCEPT ![r] = "lookup"]
  /\ status' = [status EXCEPT ![r] = "none"]
  /\ UNCHANGED <<current, cacheVars, calls, gen, borrowed, key, cancelled, waitsFor, value>>

-----------------------------------------------------------------------------
Proceed(r) ==
  \/ Hit(r) \/ Join(r) \/ LookupCancelled(r) \/ Lead(r)
  \/ Compute(r) \/ Insert(r) \/ FinishCall(r) \/ CloseDone(r)
  \/ TakeResult(r) \/ Retry(r) \/ WaitCancelled(r)

Next ==
  \/ Publish
  \/ \E r \in Requests :
       \/ \E c \in Claims : Start(r, c)
       \/ Cancel(r)
       \/ Proceed(r)

Spec == Init /\ [][Next]_vars

\* Goroutines that can run do run, and the backend returns.  Nobody is
\* obliged to send requests, to cancel them, or to publish.
FairSpec == Spec /\ \A r \in Requests : WF_vars(Proceed(r))

-----------------------------------------------------------------------------
(* Properties *)

TypeOK ==
  /\ current \in Generations
  /\ entries \in [Keys -> Values]
  /\ lru \in Seq(Keys)
  /\ bytes \in Nat
  /\ calls \in [Keys -> Requests \cup {NoRequest}]
  /\ pc \in [Requests -> {"idle", "lookup", "waiting", "woken", "computing",
                          "storing", "finishing", "closing"}]
  /\ gen \in [Requests -> Generations]
  /\ borrowed \in [Requests -> BOOLEAN]
  /\ key \in [Requests -> Keys]
  /\ cancelled \in [Requests -> BOOLEAN]
  /\ waitsFor \in [Requests -> Requests \cup {NoRequest}]
  /\ status \in [Requests -> {"none", "ok", "cancelled", "failed"}]
  /\ value \in [Requests -> Values]

\* The list, the table and the byte counter describe the same cache, no key is
\* listed twice, and the cache keeps within both limits whenever the lock is free.
CacheConsistent ==
  /\ ToSet(lru) = {k \in Keys : Cached(k)}
  /\ IsInjective(lru)
  /\ bytes = BytesOf(entries, ToSet(lru))
  /\ Len(lru) <= MaxEntries
  /\ bytes <= MaxBytes

Leading == {"computing", "storing", "finishing"}

\* Single flight: of all requests for one key at most one computes, and
\* only while the key is not cached, so insert never replaces an entry.
SingleFlight ==
  \A r \in Requests : pc[r] \in {"computing", "storing"} =>
    /\ ~Cached(key[r])
    /\ \A s \in Requests \ {r} : pc[s] \in Leading => key[s] # key[r]

\* Whatever a request is answered, shared, cached or computed, it is a
\* finished result of the very generation the request acquired.
AnswersAreSound ==
  \A r \in Requests : pc[r] = "idle" /\ status[r] = "ok" =>
    value[r].complete /\ value[r].gen = gen[r]

\* Neither errors nor verdicts of cancelled computations are ever cached.
OnlyFinishedResultsCached == \A k \in Keys : Cached(k) => entries[k].complete

\* A request holds its generation until it returns, and no longer.
BorrowedWhileServed == \A r \in Requests : borrowed[r] <=> pc[r] # "idle"

\* The inductive invariant: the table of calls names exactly the leaders, a
\* waiter waits for a leader of its own key that has yet to wake it, and
\* nothing but finished results of the key's generation travels as "ok".
FlightInvariant ==
  /\ current \in Generations
  /\ entries \in [Keys -> Values]
  /\ calls \in [Keys -> Requests \cup {NoRequest}]
  /\ pc \in [Requests -> {"idle", "lookup", "waiting", "woken", "computing",
                          "storing", "finishing", "closing"}]
  /\ gen \in [Requests -> Generations]
  /\ borrowed \in [Requests -> BOOLEAN]
  /\ key \in [Requests -> Keys]
  /\ cancelled \in [Requests -> BOOLEAN]
  /\ waitsFor \in [Requests -> Requests \cup {NoRequest}]
  /\ status \in [Requests -> {"none", "ok", "cancelled", "failed"}]
  /\ value \in [Requests -> Values]
  /\ BorrowedWhileServed
  /\ \A r \in Requests : key[r].gen = gen[r]
  /\ \A r \in Requests : pc[r] \in Leading => calls[key[r]] = r
  /\ \A k \in Keys : calls[k] # NoRequest => key[calls[k]] = k /\ pc[calls[k]] \in Leading
  /\ \A r \in Requests : pc[r] \in {"computing", "storing"} => ~Cached(key[r])
  /\ \A k \in Keys : Cached(k) => entries[k].complete /\ entries[k].gen = k.gen
  /\ \A r \in Requests : status[r] = "ok" => value[r].complete /\ value[r].gen = gen[r]
  /\ \A r \in Requests : pc[r] = "storing" => status[r] = "ok"
  /\ \A r \in Requests : status[r] = "cancelled" /\ pc[r] # "woken" => cancelled[r]
  /\ \A r \in Requests : pc[r] = "waiting" =>
       /\ waitsFor[r] \in Requests
       /\ key[waitsFor[r]] = key[r]
       /\ pc[waitsFor[r]] \in Leading \cup {"closing"}

\* A request fails only with an error of its own: with a backend error only
\* if it called the backend itself, with a cancellation only if its own
\* context was cancelled, whatever became of the leaders it waited for.
OwnErrorsOnly ==
  [][\A r \in Requests : pc[r] # "idle" /\ pc'[r] = "idle" =>
       /\ status'[r] = "failed" => pc[r] = "closing"
       /\ status'[r] = "cancelled" => cancelled[r]]_vars

\* Once the calls in flight stop failing, every request returns: nobody
\* waits for a call that is gone, and retries come to an end.
SomeCallFails == \E r \in Requests : pc[r] = "computing" /\ pc'[r] = "finishing"
RequestsReturn ==
  <>[][~SomeCallFails]_vars => \A r \in Requests : (pc[r] # "idle") ~> (pc[r] = "idle")
=============================================================================
