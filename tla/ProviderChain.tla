--------------------------- MODULE ProviderChain ---------------------------
(***************************************************************************)
(* FallbackChain.call with the ProviderRouter and the CircuitBreaker behind*)
(* each of its entries (src/app/providers/router.py), and the way chains   *)
(* live: a request builds its own chain (src/app/providers/llm) and sends  *)
(* its calls through it one after the other.                               *)
(*                                                                         *)
(* A provider is external: each attempt answers, raises ProviderError, or  *)
(* raises something else.  Time passes freely, during attempts, backoff    *)
(* and between calls.                                                      *)
(***************************************************************************)
EXTENDS Integers, Sequences

CONSTANTS
    Providers,    \* names of the configured providers
    Chain,        \* them in priority order
    Attempts,     \* retry_attempts
    Threshold,    \* circuit_breaker_threshold
    Cooldown,     \* circuit_breaker_cooldown_seconds
    Never,        \* CircuitBreakerState.opened_at is None
    MaxTime,      \* bound: the clock stops there
    MaxRequests   \* bound: requests served in one behaviour

ASSUME ChainAssumption ==
    /\ Chain \in Seq(Providers)
    /\ Len(Chain) > 0
    /\ \A i, j \in 1..Len(Chain) : Chain[i] = Chain[j] => i = j
    /\ Attempts \in Nat \ {0}
    /\ Threshold \in Nat \ {0}
    /\ Cooldown \in Nat
    /\ Never \notin Nat
    /\ MaxTime \in Nat
    /\ MaxRequests \in Nat

VARIABLES
    now,        \* time.monotonic()
    failures,   \* CircuitBreakerState.failure_count of each provider
    openedAt,   \* CircuitBreakerState.opened_at of each provider
    pc,         \* "idle", "loop" (FallbackChain's for), "attempt" (_attempt)
    at,         \* position of the loop in Chain
    tries,      \* attempts tenacity has used up on this provider
    exclude,    \* providers the caller ruled out
    outcome,    \* how the last call ended
    requests,   \* requests served so far
    log,        \* per provider, its exhausted calls since its last answer
    dealt       \* what this call did with each provider it went past

vars == <<now, failures, openedAt, pc, at, tries, exclude, outcome, requests, log, dealt>>

-----------------------------------------------------------------------------

Init ==
    /\ now = 0
    /\ failures = [p \in Providers |-> 0]
    /\ openedAt = [p \in Providers |-> Never]
    /\ pc = "idle"
    /\ at = 1
    /\ tries = 0
    /\ exclude = {}
    /\ outcome = "none"
    /\ requests = 1
    /\ log = [p \in Providers |-> <<>>]
    /\ dealt = [p \in Providers |-> "untouched"]

Tick ==
    /\ now < MaxTime
    /\ now' = now + 1
    /\ UNCHANGED <<failures, openedAt, pc, at, tries, exclude, outcome, requests, log, dealt>>

\* _build_chain: the next request gets new routers with new breakers.
NewRequest ==
    /\ pc = "idle"
    /\ requests < MaxRequests
    /\ requests' = requests + 1
    /\ failures' = [p \in Providers |-> 0]
    /\ openedAt' = [p \in Providers |-> Never]
    /\ UNCHANGED <<now, pc, at, tries, exclude, outcome, log, dealt>>

\* A caller excludes nobody, or the provider whose answer is to be verified.
StartCall ==
    /\ pc = "idle"
    /\ \E x \in {{}} \cup {{p} : p \in Providers} : exclude' = x
    /\ pc' = "loop"
    /\ at' = 1
    /\ tries' = 0
    /\ dealt' = [p \in Providers |-> "untouched"]
    /\ outcome' = "none"
    /\ UNCHANGED <<now, failures, openedAt, requests, log>>

\* Mutant: a result does not leave the loop over the routers.
EndCallStays(o) == pc' = "loop" /\ outcome' = o

EndCall(o) == pc' = "idle" /\ outcome' = o

\* Mutant: nobody is passed over for being excluded.
PassedOverNobody(p) == FALSE

PassedOver(p) == p \in exclude

SkipExcluded ==
    /\ pc = "loop"
    /\ at <= Len(Chain)
    /\ PassedOver(Chain[at])
    /\ at' = at + 1
    /\ dealt' = [dealt EXCEPT ![Chain[at]] = "excluded"]
    /\ UNCHANGED <<now, failures, openedAt, pc, tries, exclude, outcome, requests, log>>

\* Mutant: the comparison is the wrong way round.
CoolingReversed(p) == openedAt[p] # Never /\ now - openedAt[p] >= Cooldown

\* before_call raises while the circuit is open.
Cooling(p) == openedAt[p] # Never /\ now - openedAt[p] < Cooldown

SkipOpen ==
    /\ pc = "loop"
    /\ at <= Len(Chain)
    /\ ~PassedOver(Chain[at])
    /\ Cooling(Chain[at])
    /\ at' = at + 1
    /\ dealt' = [dealt EXCEPT ![Chain[at]] = "open"]
    /\ UNCHANGED <<now, failures, openedAt, pc, tries, exclude, outcome, requests, log>>

\* before_call lets the call through; an elapsed cooldown resets the breaker.
EnterProvider ==
    /\ pc = "loop"
    /\ at <= Len(Chain)
    /\ LET p == Chain[at] IN
        /\ ~PassedOver(p)
        /\ ~Cooling(p)
        /\ failures' = [failures EXCEPT ![p] = IF openedAt[p] = Never THEN @ ELSE 0]
        /\ openedAt' = [openedAt EXCEPT ![p] = Never]
    /\ pc' = "attempt"
    /\ tries' = 0
    /\ UNCHANGED <<now, at, exclude, outcome, requests, log, dealt>>

\* The attempt answers: record_success, and the call returns.
Answer ==
    /\ pc = "attempt"
    /\ LET p == Chain[at] IN
        /\ failures' = [failures EXCEPT ![p] = 0]
        /\ openedAt' = [openedAt EXCEPT ![p] = Never]
        /\ log' = [log EXCEPT ![p] = <<>>]
        /\ dealt' = [dealt EXCEPT ![p] = "answered"]
    /\ EndCall("answered")
    /\ UNCHANGED <<now, at, tries, exclude, requests>>

\* ProviderError with attempts left: tenacity waits and tries again.
Retry ==
    /\ pc = "attempt"
    /\ tries + 1 < Attempts
    /\ tries' = tries + 1
    /\ UNCHANGED <<now, failures, openedAt, pc, at, exclude, outcome, requests, log, dealt>>

\* Mutant: off by one.
OpensLate(p) == failures[p] >= Threshold

\* record_failure opens the circuit at the threshold.
Opens(p) == failures[p] + 1 >= Threshold

\* The times of the last exhausted calls, as many as tell whether the
\* threshold was overrun.
Logged(p) ==
    LET l == Append(log[p], [time |-> now, request |-> requests])
    IN  IF Len(l) > Threshold + 1 THEN Tail(l) ELSE l

\* ProviderError on the last attempt: record_failure, on to the next entry.
Exhaust ==
    /\ pc = "attempt"
    /\ tries + 1 = Attempts
    /\ LET p == Chain[at] IN
        /\ failures' = [failures EXCEPT ![p] = @ + 1]
        /\ openedAt' = [openedAt EXCEPT ![p] = IF Opens(p) THEN now ELSE @]
        /\ log' = [log EXCEPT ![p] = Logged(p)]
        /\ dealt' = [dealt EXCEPT ![p] = "exhausted"]
    /\ pc' = "loop"
    /\ at' = at + 1
    /\ tries' = tries + 1
    /\ UNCHANGED <<now, exclude, outcome, requests>>

\* Any other exception leaves the call at once, past breaker and chain.
Escape ==
    /\ pc = "attempt"
    /\ EndCall("error")
    /\ UNCHANGED <<now, failures, openedAt, at, tries, exclude, requests, log, dealt>>

\* Mutant: the loop starts over instead of giving up.
UnavailableStartsOver ==
    /\ pc = "loop"
    /\ at > Len(Chain)
    /\ at' = 1
    /\ UNCHANGED <<now, failures, openedAt, pc, tries, exclude, outcome, requests, log, dealt>>

\* The loop is through: ProviderUnavailableError.
Unavailable ==
    /\ pc = "loop"
    /\ at > Len(Chain)
    /\ EndCall("unavailable")
    /\ UNCHANGED <<now, failures, openedAt, at, tries, exclude, requests, log, dealt>>

Step ==
    \/ SkipExcluded
    \/ SkipOpen
    \/ EnterProvider
    \/ Answer
    \/ Retry
    \/ Exhaust
    \/ Escape
    \/ Unavailable

Next == Tick \/ NewRequest \/ StartCall \/ Step

Spec == Init /\ [][Next]_vars

\* Every attempt comes back: the clients have timeouts.
FairSpec == Spec /\ WF_vars(Step)

-----------------------------------------------------------------------------
(* Properties *)

Positions == 1..Len(Chain)

\* The variables hold what their comments say, and a breaker is open exactly
\* when it has counted to the threshold.
TypeOK ==
    /\ now \in 0..MaxTime
    /\ failures \in [Providers -> 0..Threshold]
    /\ openedAt \in [Providers -> 0..MaxTime \cup {Never}]
    /\ \A p \in Providers : openedAt[p] # Never <=> failures[p] = Threshold
    /\ pc \in {"idle", "loop", "attempt"}
    /\ at \in 1..Len(Chain) + 1
    /\ tries \in 0..Attempts
    /\ exclude \subseteq Providers
    /\ outcome \in {"none", "answered", "unavailable", "error"}

\* Priority order is a promise: when a provider answers, or none is left,
\* every provider before it was excluded by the caller, cooling down, or had
\* all its attempts; and nobody the caller excluded was asked.
FallbackInOrder ==
    /\ outcome = "answered" =>
         /\ Chain[at] \notin exclude
         /\ \A i \in 1..(at - 1) : dealt[Chain[i]] \in {"excluded", "open", "exhausted"}
    /\ outcome = "unavailable" =>
         \A i \in Positions : dealt[Chain[i]] \in {"excluded", "open", "exhausted"}
    /\ \A p \in Providers : dealt[p] \in {"answered", "exhausted"} => p \notin exclude

\* Within one request a provider that only fails is not hammered: of its
\* exhausted calls since it last answered, any Threshold + 1 in a row span at
\* least the cooldown, although a trial after the cooldown starts the count
\* from zero again.
NotHammeredInRequest ==
    \A p \in Providers :
        LET l == log[p] IN
        Len(l) > Threshold /\ l[1].request = l[Len(l)].request =>
            l[Len(l)].time - l[1].time >= Cooldown

\* 04_PROVIDER_STRATEGY.md: after N consecutive failures a provider is down
\* for a cooldown window, "rather than retrying a dead provider on every
\* request".  The same bound, for the program instead of one request.
NotHammered ==
    \A p \in Providers :
        Len(log[p]) > Threshold =>
            log[p][Len(log[p])].time - log[p][1].time >= Cooldown

\* What the caller sees, and the promise made to it: one reply to each call,
\* an answer only from a member of the chain it did not exclude, and an
\* exception only if some member was there to raise it.
Contract == INSTANCE ChainCall WITH
    Members <- {Chain[i] : i \in Positions},
    asking  <- pc # "idle",
    barred  <- exclude,
    reply   <- [kind |-> outcome, by |-> IF outcome = "answered" THEN Chain[at] ELSE "nobody"]

KeepsContract == Contract!CallSpec

\* Every call ends: the chain is walked once, whatever the providers do.
CallsEnd == []<>(pc = "idle")

=============================================================================
