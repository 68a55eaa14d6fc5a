------------------------ MODULE ProviderChainProofs ------------------------
(***************************************************************************)
(* What holds of the fallback chain for every set of providers, every      *)
(* chain of them and every setting of retries, threshold and cooldown.     *)
(***************************************************************************)
EXTENDS ProviderChain, TLAPS

Entry == [time : Nat, request : Nat]

GoneBy == {"excluded", "open", "exhausted"}

\* The log holds at most Threshold + 1 calls, none of them still to come.
LogOK ==
    /\ requests \in Nat
    /\ log \in [Providers -> Seq(Entry)]
    /\ \A p \in Providers :
         /\ Len(log[p]) <= Threshold + 1
         /\ \A i \in 1..Len(log[p]) : log[p][i].request <= requests /\ log[p][i].time <= now

DealtOK == dealt \in [Providers -> GoneBy \cup {"untouched", "answered"}]

HistoryOK == LogOK /\ DealtOK

\* A call under way has dealt with everybody before the entry it is at, and
\* asks only a provider that is not excluded and whose breaker is closed.
WalkOK ==
    /\ pc # "idle" => /\ outcome = "none"
                      /\ \A i \in 1..(at - 1) : dealt[Chain[i]] \in GoneBy
    /\ pc = "attempt" => /\ at \in Positions
                         /\ Chain[at] \notin exclude
                         /\ openedAt[Chain[at]] = Never
                         /\ tries < Attempts

\* What a breaker remembers of the current request: while it is open, no
\* logged call came after it opened; while it is closed, all but the last
\* failure_count calls lie at least a cooldown back.
BreakerRemembers ==
    \A p \in Providers : \A i \in 1..Len(log[p]) :
        log[p][i].request = requests =>
            IF openedAt[p] = Never
            THEN i <= Len(log[p]) - failures[p] => now - log[p][i].time >= Cooldown
            ELSE log[p][i].time <= openedAt[p]

\* The inductive invariant.
IInv ==
    /\ TypeOK
    /\ HistoryOK
    /\ WalkOK
    /\ FallbackInOrder
    /\ BreakerRemembers
    /\ NotHammeredInRequest

-----------------------------------------------------------------------------

\* The invariant holds before the first call.
LEMMA InitInv == Init => IInv
  BY ChainAssumption
  DEF Init, IInv, TypeOK, HistoryOK, LogOK, DealtOK, WalkOK, FallbackInOrder, BreakerRemembers,
      NotHammeredInRequest, Positions, GoneBy, Entry

\* An entry of the chain is a provider.
LEMMA ChainEntry == \A i \in Positions : Chain[i] \in Providers
  BY ChainAssumption DEF Positions

\* A logged call has a time and a request, neither of them in the future.
LEMMA EntryFacts ==
  ASSUME HistoryOK, TypeOK, NEW p \in Providers, NEW i \in 1..Len(log[p])
  PROVE  /\ log[p][i].time \in Nat /\ now \in Nat /\ log[p][i].time <= now
         /\ log[p][i].request \in Nat /\ requests \in Nat /\ log[p][i].request <= requests
  <1>1. log[p] \in Seq(Entry)
    BY DEF HistoryOK, LogOK
  <1>2. log[p][i] \in Entry
    BY <1>1
  <1>3. log[p][i].time \in Nat /\ log[p][i].request \in Nat
    BY <1>2 DEF Entry
  <1>4. now \in Nat
    BY ChainAssumption DEF TypeOK
  <1> QED
    BY <1>3, <1>4 DEF HistoryOK, LogOK

\* Time passing keeps the invariant: distances to the present only grow.
LEMMA TickInv == IInv /\ Tick => IInv'
  <1> SUFFICES ASSUME IInv, Tick PROVE IInv'
    OBVIOUS
  <1> USE ChainAssumption DEF Tick
  <1>1. TypeOK'
    BY DEF IInv, TypeOK
  <1>2. HistoryOK'
    <2>1. ASSUME NEW p \in Providers, NEW i \in 1..Len(log[p])
          PROVE  log[p][i].request <= requests /\ log[p][i].time <= now + 1
      BY EntryFacts DEF IInv
    <2> QED
      BY <2>1 DEF IInv, HistoryOK, LogOK, DealtOK
  <1>3. WalkOK'
    BY DEF IInv, WalkOK
  <1>4. FallbackInOrder'
    BY DEF IInv, FallbackInOrder
  <1>5. BreakerRemembers'
    <2> SUFFICES ASSUME NEW p \in Providers, NEW i \in 1..Len(log'[p]),
                        log'[p][i].request = requests'
                 PROVE  IF openedAt'[p] = Never
                        THEN i <= Len(log'[p]) - failures'[p] => now' - log'[p][i].time >= Cooldown
                        ELSE log'[p][i].time <= openedAt'[p]
      BY DEF BreakerRemembers
    <2>1. i \in 1..Len(log[p]) /\ log[p][i].request = requests
      OBVIOUS
    <2>2. log[p][i].time \in Nat /\ now \in Nat
      BY <2>1, EntryFacts DEF IInv
    <2>3. IF openedAt[p] = Never
          THEN i <= Len(log[p]) - failures[p] => now - log[p][i].time >= Cooldown
          ELSE log[p][i].time <= openedAt[p]
      BY <2>1 DEF IInv, BreakerRemembers
    <2> QED
      BY <2>2, <2>3
  <1>6. NotHammeredInRequest'
    BY DEF IInv, NotHammeredInRequest
  <1> QED
    BY <1>1, <1>2, <1>3, <1>4, <1>5, <1>6 DEF IInv

\* A new request starts with fresh breakers and has logged nothing yet.
LEMMA NewRequestInv == IInv /\ NewRequest => IInv'
  <1> SUFFICES ASSUME IInv, NewRequest PROVE IInv'
    OBVIOUS
  <1> USE ChainAssumption DEF NewRequest
  <1>1. TypeOK'
    BY DEF IInv, TypeOK
  <1>2. HistoryOK'
    <2>1. ASSUME NEW p \in Providers, NEW i \in 1..Len(log[p])
          PROVE  log[p][i].request <= requests + 1 /\ log[p][i].time <= now
      <3>1. /\ log[p][i].request \in Nat /\ requests \in Nat /\ log[p][i].request <= requests
            /\ log[p][i].time <= now
        BY EntryFacts DEF IInv
      <3> QED
        BY <3>1
    <2>2. requests + 1 \in Nat /\ log' = log /\ dealt' = dealt /\ now' = now
      BY DEF IInv, HistoryOK, LogOK
    <2>3. LogOK'
      BY <2>1, <2>2 DEF IInv, HistoryOK, LogOK
    <2>4. DealtOK'
      BY <2>2 DEF IInv, HistoryOK, DealtOK
    <2> QED
      BY <2>3, <2>4 DEF HistoryOK
  <1>3. WalkOK'
    BY DEF IInv, WalkOK
  <1>4. FallbackInOrder'
    BY DEF IInv, FallbackInOrder
  <1>5. BreakerRemembers'
    <2>1. ASSUME NEW p \in Providers, NEW i \in 1..Len(log[p])
          PROVE  log[p][i].request # requests + 1
      <3>1. log[p][i].request \in Nat /\ log[p][i].request <= requests /\ requests \in Nat
        BY EntryFacts DEF IInv
      <3> QED
        BY <3>1
    <2> QED
      BY <2>1 DEF BreakerRemembers
  <1>6. NotHammeredInRequest'
    BY DEF IInv, NotHammeredInRequest
  <1> QED
    BY <1>1, <1>2, <1>3, <1>4, <1>5, <1>6 DEF IInv

\* Starting a call leaves breakers and log alone and has dealt with nobody.
LEMMA StartCallInv == IInv /\ StartCall => IInv'
  <1> SUFFICES ASSUME IInv, StartCall PROVE IInv'
    OBVIOUS
  <1> USE ChainAssumption DEF StartCall
  <1>1. TypeOK'
    BY DEF IInv, TypeOK
  <1>2. HistoryOK'
    BY DEF IInv, HistoryOK, LogOK, DealtOK
  <1>3. WalkOK'
    BY DEF IInv, WalkOK
  <1>4. FallbackInOrder'
    BY DEF FallbackInOrder
  <1>5. BreakerRemembers'
    BY DEF IInv, BreakerRemembers
  <1>6. NotHammeredInRequest'
    BY DEF IInv, NotHammeredInRequest
  <1> QED
    BY <1>1, <1>2, <1>3, <1>4, <1>5, <1>6 DEF IInv

\* Passing over a provider, excluded or cooling down, records why.
LEMMA SkipInv == IInv /\ (SkipExcluded \/ SkipOpen) => IInv'
  <1> SUFFICES ASSUME IInv, SkipExcluded \/ SkipOpen PROVE IInv'
    OBVIOUS
  <1> USE ChainAssumption DEF SkipExcluded, SkipOpen
  <1>0. at \in Positions /\ Chain[at] \in Providers
    BY ChainEntry DEF IInv, TypeOK, Positions
  <1>1. TypeOK'
    <2>1. at' \in 1..Len(Chain) + 1
      BY <1>0 DEF Positions
    <2> QED
      BY <2>1 DEF IInv, TypeOK
  <1>2. HistoryOK'
    <2>1. LogOK'
      BY DEF IInv, HistoryOK, LogOK
    <2>2. DealtOK'
      BY <1>0 DEF IInv, HistoryOK, DealtOK, GoneBy
    <2> QED
      BY <2>1, <2>2 DEF HistoryOK
  <1>3. WalkOK'
    <2>1. \A i \in 1..(at - 1) : i \in Positions /\ dealt[Chain[i]] \in GoneBy
      BY <1>0 DEF IInv, WalkOK, Positions
    <2>2. dealt'[Chain[at]] \in GoneBy
      BY <1>0 DEF IInv, HistoryOK, LogOK, DealtOK, GoneBy
    <2>3. \A i \in 1..(at' - 1) : i = at \/ i \in 1..(at - 1)
      BY <1>0 DEF Positions
    <2>4. \A i \in 1..(at' - 1) : dealt'[Chain[i]] \in GoneBy
      BY <2>1, <2>2, <2>3, ChainEntry, <1>0 DEF IInv, HistoryOK, LogOK, DealtOK
    <2> QED
      BY <2>4 DEF IInv, WalkOK
  <1>4. FallbackInOrder'
    <2>1. outcome' = "none"
      BY DEF IInv, WalkOK
    <2> QED
      BY <2>1, <1>0 DEF IInv, FallbackInOrder, HistoryOK, LogOK, DealtOK
  <1>5. BreakerRemembers'
    BY DEF IInv, BreakerRemembers
  <1>6. NotHammeredInRequest'
    BY DEF IInv, NotHammeredInRequest
  <1> QED
    BY <1>1, <1>2, <1>3, <1>4, <1>5, <1>6 DEF IInv

\* Entering a provider: a breaker reset after its cooldown finds every call of
\* this request logged before it opened, hence a cooldown back.
LEMMA EnterProviderInv == IInv /\ EnterProvider => IInv'
  <1> SUFFICES ASSUME IInv, EnterProvider PROVE IInv'
    OBVIOUS
  <1> USE ChainAssumption DEF EnterProvider
  <1> DEFINE p == Chain[at]
  <1>0. at \in Positions /\ p \in Providers
    BY ChainEntry DEF IInv, TypeOK, Positions
  <1>1. TypeOK'
    BY <1>0 DEF IInv, TypeOK
  <1>2. HistoryOK'
    BY DEF IInv, HistoryOK, LogOK, DealtOK
  <1>3. WalkOK'
    BY <1>0 DEF IInv, WalkOK, PassedOver, TypeOK
  <1>4. FallbackInOrder'
    BY DEF IInv, FallbackInOrder
  <1>5. BreakerRemembers'
    <2> SUFFICES ASSUME NEW q \in Providers, NEW i \in 1..Len(log[q]),
                        log[q][i].request = requests
                 PROVE  IF openedAt'[q] = Never
                        THEN i <= Len(log[q]) - failures'[q] => now - log[q][i].time >= Cooldown
                        ELSE log[q][i].time <= openedAt'[q]
      BY DEF BreakerRemembers
    <2>1. CASE q = p /\ openedAt[p] # Never
      <3> HIDE DEF EnterProvider
      <3>0. openedAt[p] \in 0..MaxTime
        BY <1>0, <2>1 DEF IInv, TypeOK
      <3>1. openedAt[p] \in Nat /\ now \in Nat /\ log[p][i].time \in Nat
        BY <2>1, <3>0, EntryFacts DEF IInv
      <3>2. now - openedAt[p] >= Cooldown
        <4>1. ~Cooling(p)
          BY DEF EnterProvider
        <4> QED
          BY <2>1, <3>1, <4>1, ChainAssumption DEF Cooling
      <3>3. log[p][i].time <= openedAt[p]
        BY <2>1 DEF IInv, BreakerRemembers
      <3>4. openedAt'[p] = Never
        BY <1>0 DEF IInv, TypeOK, EnterProvider
      <3>5. now - log[p][i].time >= Cooldown
        <4> HIDE DEF p
        <4> QED
          BY <3>1, <3>2, <3>3, ChainAssumption
      <3> QED
        BY <2>1, <3>4, <3>5
    <2>2. CASE q # p \/ openedAt[p] = Never
      <3>1. failures'[q] = failures[q] /\ openedAt'[q] = openedAt[q]
        BY <2>2, <1>0 DEF IInv, TypeOK
      <3> QED
        BY <3>1 DEF IInv, BreakerRemembers
    <2> QED
      BY <2>1, <2>2
  <1>6. NotHammeredInRequest'
    BY DEF IInv, NotHammeredInRequest
  <1> QED
    BY <1>1, <1>2, <1>3, <1>4, <1>5, <1>6 DEF IInv

\* An answer clears breaker and log of the provider and ends the call in order.
LEMMA AnswerInv == IInv /\ Answer => IInv'
  <1> SUFFICES ASSUME IInv, Answer PROVE IInv'
    OBVIOUS
  <1> USE ChainAssumption DEF Answer, EndCall
  <1> DEFINE p == Chain[at]
  <1>0. at \in Positions /\ p \in Providers /\ p \notin exclude
    BY ChainEntry DEF IInv, WalkOK
  <1>1. TypeOK'
    BY <1>0 DEF IInv, TypeOK
  <1>2. HistoryOK'
    BY <1>0 DEF IInv, HistoryOK, LogOK, DealtOK, GoneBy
  <1>3. WalkOK'
    BY DEF WalkOK
  <1>4. FallbackInOrder'
    <2>1. \A i \in 1..(at - 1) : dealt'[Chain[i]] \in GoneBy
      <3> SUFFICES ASSUME NEW i \in 1..(at - 1) PROVE dealt'[Chain[i]] \in GoneBy
        OBVIOUS
      <3>1. i \in Positions /\ Chain[i] # p
        BY <1>0 DEF Positions
      <3>2. dealt[Chain[i]] \in GoneBy
        BY DEF IInv, WalkOK
      <3> QED
        BY <3>1, <3>2, ChainEntry DEF IInv, HistoryOK, LogOK, DealtOK
    <2> QED
      BY <2>1, <1>0 DEF IInv, FallbackInOrder, HistoryOK, LogOK, DealtOK, GoneBy
  <1>5. BreakerRemembers'
    <2> SUFFICES ASSUME NEW q \in Providers, NEW i \in 1..Len(log'[q]),
                        log'[q][i].request = requests
                 PROVE  IF openedAt'[q] = Never
                        THEN i <= Len(log'[q]) - failures'[q] => now - log'[q][i].time >= Cooldown
                        ELSE log'[q][i].time <= openedAt'[q]
      BY DEF BreakerRemembers
    <2>1. q # p
      BY <1>0 DEF IInv, HistoryOK, LogOK, DealtOK
    <2>2. log'[q] = log[q] /\ failures'[q] = failures[q] /\ openedAt'[q] = openedAt[q]
      BY <2>1 DEF IInv, HistoryOK, LogOK, DealtOK, TypeOK
    <2> QED
      BY <2>2 DEF IInv, BreakerRemembers
  <1>6. NotHammeredInRequest'
    <2> SUFFICES ASSUME NEW q \in Providers, Len(log'[q]) > Threshold,
                        log'[q][1].request = log'[q][Len(log'[q])].request
                 PROVE  log'[q][Len(log'[q])].time - log'[q][1].time >= Cooldown
      BY DEF NotHammeredInRequest
    <2>1. q # p
      BY <1>0 DEF IInv, HistoryOK, LogOK, DealtOK
    <2>2. log'[q] = log[q]
      BY <2>1 DEF IInv, HistoryOK, LogOK, DealtOK
    <2> QED
      BY <2>2 DEF IInv, NotHammeredInRequest
  <1> QED
    BY <1>1, <1>2, <1>3, <1>4, <1>5, <1>6 DEF IInv

\* A retry only counts an attempt.
LEMMA RetryInv == IInv /\ Retry => IInv'
  <1> SUFFICES ASSUME IInv, Retry PROVE IInv'
    OBVIOUS
  <1> USE ChainAssumption DEF Retry
  <1>1. TypeOK'
    BY DEF IInv, TypeOK
  <1>2. HistoryOK'
    BY DEF IInv, HistoryOK, LogOK, DealtOK
  <1>3. WalkOK'
    BY DEF IInv, WalkOK, TypeOK
  <1>4. FallbackInOrder'
    BY DEF IInv, FallbackInOrder
  <1>5. BreakerRemembers'
    BY DEF IInv, BreakerRemembers
  <1>6. NotHammeredInRequest'
    BY DEF IInv, NotHammeredInRequest
  <1> QED
    BY <1>1, <1>2, <1>3, <1>4, <1>5, <1>6 DEF IInv

\* Giving up, with an error or because nobody is left, changes no breaker.
LEMMA EndInv == IInv /\ (Escape \/ Unavailable) => IInv'
  <1> SUFFICES ASSUME IInv, Escape \/ Unavailable PROVE IInv'
    OBVIOUS
  <1> USE ChainAssumption DEF Escape, Unavailable, EndCall
  <1>1. TypeOK'
    BY DEF IInv, TypeOK
  <1>2. HistoryOK'
    BY DEF IInv, HistoryOK, LogOK, DealtOK
  <1>3. WalkOK'
    BY DEF WalkOK
  <1>4. FallbackInOrder'
    <2>1. CASE Escape
      BY <2>1 DEF IInv, FallbackInOrder
    <2>2. CASE Unavailable
      <3>1. \A i \in Positions : i \in 1..(at - 1)
        BY <2>2 DEF IInv, TypeOK, Positions
      <3> QED
        BY <2>2, <3>1 DEF IInv, WalkOK, FallbackInOrder, GoneBy
    <2> QED
      BY <2>1, <2>2
  <1>5. BreakerRemembers'
    BY DEF IInv, BreakerRemembers
  <1>6. NotHammeredInRequest'
    BY DEF IInv, NotHammeredInRequest
  <1> QED
    BY <1>1, <1>2, <1>3, <1>4, <1>5, <1>6 DEF IInv

\* The log after an exhausted call: the old entries, moved down by one place
\* where the oldest was dropped, and the new one last.
LEMMA LoggedEntries ==
  ASSUME IInv, NEW p \in Providers
  PROVE  /\ Logged(p) \in Seq(Entry)
         /\ Len(Logged(p)) \in 1..(Threshold + 1)
         /\ Logged(p)[Len(Logged(p))] = [time |-> now, request |-> requests]
         /\ Len(Logged(p)) - 1 <= Len(log[p])
         /\ \A i \in 1..(Len(Logged(p)) - 1) :
              LET j == i + (Len(log[p]) + 1 - Len(Logged(p)))
              IN  j \in 1..Len(log[p]) /\ Logged(p)[i] = log[p][j]
  <1> DEFINE e == [time |-> now, request |-> requests]
             l == Append(log[p], e)
  <1>1. log[p] \in Seq(Entry) /\ e \in Entry /\ Len(log[p]) \in 0..(Threshold + 1)
    BY ChainAssumption DEF IInv, TypeOK, HistoryOK, LogOK, DealtOK, Entry
  <1>2. /\ l \in Seq(Entry) /\ Len(l) = Len(log[p]) + 1
        /\ l[Len(l)] = e
        /\ \A i \in 1..Len(log[p]) : l[i] = log[p][i]
    BY <1>1
  <1>3. CASE Len(l) > Threshold + 1
    <2>1. Logged(p) = Tail(l)
      BY <1>3 DEF Logged
    <2>2. Len(log[p]) = Threshold + 1
      BY <1>1, <1>2, <1>3, ChainAssumption
    <2>3. /\ Tail(l) \in Seq(Entry) /\ Len(Tail(l)) = Len(log[p])
          /\ \A i \in 1..Len(Tail(l)) : Tail(l)[i] = l[i + 1]
      BY <1>1, <1>2
    <2>4. Len(log[p]) \in 1..(Threshold + 1)
      BY <1>1, <2>2, ChainAssumption
    <2>5. Logged(p)[Len(Logged(p))] = e
      BY <2>1, <2>3, <2>4, <1>2
    <2>6. ASSUME NEW i \in 1..(Len(Logged(p)) - 1)
          PROVE  LET j == i + (Len(log[p]) + 1 - Len(Logged(p)))
                 IN  j \in 1..Len(log[p]) /\ Logged(p)[i] = log[p][j]
      <3>1. Len(log[p]) + 1 - Len(Logged(p)) = 1 /\ i + 1 \in 1..Len(log[p])
        BY <2>1, <2>3, <2>4
      <3>2. Logged(p)[i] = log[p][i + 1]
        BY <2>1, <2>3, <2>4, <1>2, <3>1
      <3> QED
        BY <3>1, <3>2
    <2>7. Logged(p) \in Seq(Entry) /\ Len(Logged(p)) \in 1..(Threshold + 1)
      BY <2>1, <2>3, <2>4
    <2>8. Len(Logged(p)) - 1 <= Len(log[p])
      BY <2>1, <2>3, <2>4
    <2> QED
      BY <2>5, <2>6, <2>7, <2>8
  <1>4. CASE ~(Len(l) > Threshold + 1)
    <2>1. Logged(p) = l
      BY <1>4 DEF Logged
    <2> QED
      BY <2>1, <1>1, <1>2, <1>4, ChainAssumption
  <1> QED
    BY <1>3, <1>4

\* The heart of it.  A failed call adds an entry and one to failure_count, so
\* the entries BreakerRemembers speaks of are the same as before; and when the
\* log holds Threshold + 1 calls, its first is one of them.
LEMMA ExhaustInv == IInv /\ Exhaust => IInv'
  <1> SUFFICES ASSUME IInv, Exhaust PROVE IInv'
    OBVIOUS
  <1> USE ChainAssumption DEF Exhaust
  <1> DEFINE p == Chain[at]
             n == Len(Logged(p))
             shift == Len(log[p]) + 1 - n
  <1>0. at \in Positions /\ p \in Providers /\ p \notin exclude /\ openedAt[p] = Never
    BY ChainEntry DEF IInv, WalkOK
  <1>1. failures[p] \in 0..(Threshold - 1)
    BY <1>0 DEF IInv, TypeOK
  <1>2. TypeOK'
    <2>0. Opens(p) <=> failures[p] + 1 = Threshold
      BY <1>1 DEF Opens
    <2>1. /\ failures'[p] = failures[p] + 1
          /\ openedAt'[p] = IF failures[p] + 1 = Threshold THEN now ELSE Never
      BY <1>0, <2>0 DEF IInv, TypeOK
    <2>2. failures' \in [Providers -> 0..Threshold] /\ openedAt' \in [Providers -> 0..MaxTime \cup {Never}]
      BY <1>0, <1>1 DEF IInv, TypeOK
    <2>3. \A q \in Providers : openedAt'[q] # Never <=> failures'[q] = Threshold
      <3> SUFFICES ASSUME NEW q \in Providers
                   PROVE  openedAt'[q] # Never <=> failures'[q] = Threshold
        OBVIOUS
      <3>1. CASE q = p
        <4>1. now \in 0..MaxTime
          BY DEF IInv, TypeOK
        <4>2. now # Never
          BY <4>1
        <4> QED
          BY <2>1, <3>1, <4>2
      <3>2. CASE q # p
        BY <3>2 DEF IInv, TypeOK
      <3> QED
        BY <3>1, <3>2
    <2> QED
      BY <2>2, <2>3, <1>0 DEF IInv, TypeOK, Positions
  <1>3. /\ log'[p] = Logged(p)
        /\ \A q \in Providers : q # p =>
             log'[q] = log[q] /\ failures'[q] = failures[q] /\ openedAt'[q] = openedAt[q]
    BY <1>0 DEF IInv, HistoryOK, LogOK, DealtOK, TypeOK
  <1>4. HistoryOK'
    <2>1. log' \in [Providers -> Seq(Entry)]
      BY <1>0, LoggedEntries DEF IInv, HistoryOK, LogOK, DealtOK
    <2>2. dealt' \in [Providers -> GoneBy \cup {"untouched", "answered"}]
      BY <1>0 DEF IInv, HistoryOK, LogOK, DealtOK, GoneBy
    <2>3. ASSUME NEW q \in Providers
          PROVE  /\ Len(log'[q]) <= Threshold + 1
                 /\ \A i \in 1..Len(log'[q]) :
                      log'[q][i].request <= requests /\ log'[q][i].time <= now
      <3>1. CASE q = p
        <4>1. n \in 1..(Threshold + 1) /\ requests \in Nat /\ now \in Nat
          <5>1. now \in Nat
            BY DEF IInv, TypeOK
          <5> QED
            BY <5>1, <1>0, LoggedEntries DEF IInv, HistoryOK, LogOK
        <4>2. ASSUME NEW i \in 1..n
              PROVE  Logged(p)[i].request <= requests /\ Logged(p)[i].time <= now
          <5>1. CASE i = n
            BY <5>1, <1>0, <4>1, LoggedEntries
          <5>2. CASE i # n
            <6>1. i \in 1..(n - 1)
              BY <4>1, <5>2
            <6>2. i + shift \in 1..Len(log[p]) /\ Logged(p)[i] = log[p][i + shift]
              BY <1>0, <6>1, LoggedEntries
            <6> QED
              BY <1>0, <6>2 DEF IInv, HistoryOK, LogOK, DealtOK
          <5> QED
            BY <5>1, <5>2
        <4> QED
          BY <1>3, <3>1, <4>1, <4>2
      <3>2. CASE q # p
        BY <1>3, <3>2 DEF IInv, HistoryOK, LogOK, DealtOK
      <3> QED
        BY <3>1, <3>2
    <2> QED
      BY <2>1, <2>2, <2>3 DEF IInv, HistoryOK, LogOK, DealtOK
  <1>5. WalkOK'
    <2>1. dealt'[p] \in GoneBy
      BY <1>0 DEF IInv, HistoryOK, LogOK, DealtOK, GoneBy
    <2>2. \A i \in 1..(at - 1) : i \in Positions /\ dealt[Chain[i]] \in GoneBy
      BY <1>0 DEF IInv, WalkOK, Positions
    <2>3. \A i \in 1..(at' - 1) : i = at \/ i \in 1..(at - 1)
      BY <1>0 DEF Positions
    <2>4. \A i \in 1..(at' - 1) : dealt'[Chain[i]] \in GoneBy
      BY <2>1, <2>2, <2>3, ChainEntry, <1>0 DEF IInv, HistoryOK, LogOK, DealtOK
    <2> QED
      BY <2>4 DEF IInv, WalkOK
  <1>6. FallbackInOrder'
    <2>1. outcome' = "none"
      BY DEF IInv, WalkOK
    <2> QED
      BY <2>1, <1>0 DEF IInv, FallbackInOrder, HistoryOK, LogOK, DealtOK
  <1>7. ASSUME NEW i \in 1..(n - 1), Logged(p)[i].request = requests, i <= n - (failures[p] + 1)
        PROVE  now - Logged(p)[i].time >= Cooldown
    <2> HIDE DEF Exhaust
    <2>1. i + shift \in 1..Len(log[p]) /\ Logged(p)[i] = log[p][i + shift]
      BY <1>0, <1>7, LoggedEntries
    <2>2. n \in Nat /\ Len(log[p]) \in Nat
      BY <1>0, LoggedEntries DEF IInv, HistoryOK, LogOK, DealtOK
    <2>3. i + shift <= Len(log[p]) - failures[p]
      <3>1. i \in Nat /\ failures[p] \in Nat
        BY <1>1, <2>2
      <3>2. shift = Len(log[p]) + 1 - n
        OBVIOUS
      <3> HIDE DEF n, shift
      <3> QED
        BY <1>7, <2>2, <3>1, <3>2
    <2> QED
      BY <1>0, <1>7, <2>1, <2>3 DEF IInv, BreakerRemembers
  <1>8. BreakerRemembers'
    <2> SUFFICES ASSUME NEW q \in Providers, NEW i \in 1..Len(log'[q]),
                        log'[q][i].request = requests
                 PROVE  IF openedAt'[q] = Never
                        THEN i <= Len(log'[q]) - failures'[q] => now - log'[q][i].time >= Cooldown
                        ELSE log'[q][i].time <= openedAt'[q]
      BY DEF BreakerRemembers
    <2>1. CASE q # p
      BY <2>1, <1>3 DEF IInv, BreakerRemembers
    <2>2. CASE q = p
      <3> USE <2>2
      <3>1. failures'[p] = failures[p] + 1
        BY <1>0 DEF IInv, TypeOK
      <3>2. i \in 1..n /\ n \in Nat /\ Logged(p)[i].request = requests
        BY <1>0, <1>3, LoggedEntries
      <3>3. CASE openedAt'[p] = Never
        <4>1. ASSUME i <= n - (failures[p] + 1)
              PROVE  now - Logged(p)[i].time >= Cooldown
          <5>1. i \in 1..(n - 1)
            BY <1>1, <3>2, <4>1
          <5> QED
            BY <5>1, <3>2, <4>1, <1>7
        <4> QED
          BY <3>1, <3>3, <4>1, <1>3
      <3>4. CASE openedAt'[p] # Never
        <4>1. openedAt'[p] = now
          BY <1>0, <3>4 DEF IInv, TypeOK
        <4>2. Logged(p)[i].time <= now
          BY <3>2, <1>3, <1>4 DEF HistoryOK, LogOK
        <4> QED
          BY <1>3, <3>4, <4>1, <4>2
      <3> QED
        BY <3>3, <3>4
    <2> QED
      BY <2>1, <2>2
  <1>9. NotHammeredInRequest'
    <2> SUFFICES ASSUME NEW q \in Providers, Len(log'[q]) > Threshold,
                        log'[q][1].request = log'[q][Len(log'[q])].request
                 PROVE  log'[q][Len(log'[q])].time - log'[q][1].time >= Cooldown
      BY DEF NotHammeredInRequest
    <2>1. CASE q # p
      BY <2>1, <1>3 DEF IInv, NotHammeredInRequest
    <2>2. CASE q = p
      <3>1. n = Threshold + 1
        BY <1>0, <1>3, <2>2, LoggedEntries
      <3>2. Logged(p)[n] = [time |-> now, request |-> requests]
        BY <1>0, LoggedEntries
      <3>3. Logged(p)[1].request = requests
        BY <1>3, <2>2, <3>2
      <3>4. 1 \in 1..(n - 1) /\ 1 <= n - (failures[p] + 1)
        BY <1>1, <3>1
      <3>5. now - Logged(p)[1].time >= Cooldown
        BY <3>3, <3>4, <1>7
      <3> QED
        BY <1>3, <2>2, <3>2, <3>5
    <2> QED
      BY <2>1, <2>2
  <1> QED
    BY <1>2, <1>4, <1>5, <1>6, <1>8, <1>9 DEF IInv

\* Nothing changes when no variable does.
LEMMA StutterInv == IInv /\ UNCHANGED vars => IInv'
  BY DEF IInv, TypeOK, HistoryOK, LogOK, DealtOK, WalkOK, FallbackInOrder, BreakerRemembers,
         NotHammeredInRequest, vars

\* The inductive invariant of the fallback chain.
THEOREM Invariance == Spec => []IInv
  <1>1. IInv /\ [Next]_vars => IInv'
    BY TickInv, NewRequestInv, StartCallInv, SkipInv, EnterProviderInv, AnswerInv,
       RetryInv, ExhaustInv, EndInv, StutterInv DEF Next, Step
  <1> QED
    BY InitInv, <1>1, PTL DEF Spec

\* Whatever the providers do, a breaker is open exactly when it has counted
\* failure_threshold failures (CircuitBreaker.record_failure), and never more.
THEOREM TypeCorrect == Spec => []TypeOK
  <1>1. IInv => TypeOK
    BY DEF IInv
  <1> QED
    BY Invariance, <1>1, PTL

\* FallbackChain.call goes to a later provider only when every earlier one was
\* excluded, cooling down or out of attempts, and never to an excluded one.
THEOREM FallbackIsInOrder == Spec => []FallbackInOrder
  <1>1. IInv => FallbackInOrder
    BY DEF IInv
  <1> QED
    BY Invariance, <1>1, PTL

\* For every threshold and cooldown: inside one request the breaker never lets
\* more than failure_threshold exhausted calls through in less than a cooldown,
\* although its trial call restarts the count (CircuitBreaker.before_call).
THEOREM RequestDoesNotHammer == Spec => []NotHammeredInRequest
  <1>1. IInv => NotHammeredInRequest
    BY DEF IInv
  <1> QED
    BY Invariance, <1>1, PTL

-----------------------------------------------------------------------------
(* What the caller sees *)

\* A fresh chain has returned nothing yet.
LEMMA ContractInit == Init => Contract!CallInit
  BY DEF Init, Contract!CallInit, Contract!NoReply, Contract!Reply, Contract!Nobody

\* StartCall is the caller asking.
LEMMA StartCallAsks == IInv /\ StartCall => Contract!Ask
  BY DEF StartCall, Contract!Ask, Contract!NoReply, Contract!Reply, Contract!Nobody

\* The steps inside a call, and those between calls, show the caller nothing.
LEMMA InnerSteps ==
  ASSUME IInv,
         \/ Tick \/ NewRequest \/ SkipExcluded \/ SkipOpen \/ EnterProvider
         \/ Retry \/ Exhaust \/ UNCHANGED vars
  PROVE  UNCHANGED Contract!callVars
  <1>1. CASE Tick \/ NewRequest \/ UNCHANGED vars
    BY <1>1 DEF Tick, NewRequest, vars, Contract!callVars
  <1>2. CASE SkipExcluded \/ SkipOpen \/ EnterProvider \/ Retry \/ Exhaust
    <2>1. outcome = "none"
      BY <1>2 DEF IInv, WalkOK, SkipExcluded, SkipOpen, EnterProvider, Retry, Exhaust
    <2> QED
      BY <1>2, <2>1 DEF SkipExcluded, SkipOpen, EnterProvider, Retry, Exhaust, Contract!callVars
  <1> QED
    BY <1>1, <1>2

\* The steps that end a call return one of the replies the contract allows.
LEMMA EndsReturn ==
  ASSUME IInv, Answer \/ Unavailable \/ Escape
  PROVE  Contract!Return
  <1> DEFINE members == {Chain[i] : i \in Positions}
  <1>1. CASE Answer
    <2>1. Chain[at] \in members \ exclude
      BY <1>1 DEF Answer, IInv, WalkOK
    <2> QED
      BY <1>1, <2>1 DEF Answer, EndCall, Contract!Return, Contract!Replies, Contract!Reply,
                        Contract!Nobody
  <1>2. CASE Unavailable
    BY <1>2 DEF Unavailable, EndCall, Contract!Return, Contract!Replies, Contract!Unanswered,
                Contract!Reply, Contract!Nobody
  <1>3. CASE Escape
    <2>1. Chain[at] \in members \ exclude
      BY <1>3 DEF Escape, IInv, WalkOK
    <2> QED
      BY <1>3, <2>1 DEF Escape, EndCall, Contract!Return, Contract!Replies, Contract!Escaped,
                        Contract!Reply, Contract!Nobody
  <1> QED
    BY <1>1, <1>2, <1>3

\* FallbackChain.call implements ChainCall for every chain: each step is the
\* caller asking, the chain returning an allowed reply, or invisible.
THEOREM ContractKept == Spec => KeepsContract
  <1>1. IInv /\ [Next]_vars => [Contract!CallNext]_Contract!callVars
    BY StartCallAsks, InnerSteps, EndsReturn DEF Next, Step, Contract!CallNext
  <1> QED
    BY ContractInit, Invariance, <1>1, PTL DEF Spec, KeepsContract, Contract!CallSpec

-----------------------------------------------------------------------------
(* The length of a call *)

\* The steps the call under way can still take: for each member of the chain
\* that is left, to enter it and its attempts.
StepsLeft ==
    CASE pc = "loop"    -> (Len(Chain) + 1 - at) * (Attempts + 2) + 1
      [] pc = "attempt" -> (Len(Chain) + 1 - at) * (Attempts + 2) - tries
      [] OTHER          -> 0

\* One member less.
LEMMA MemberLess ==
  ASSUME NEW k \in Nat \ {0}, NEW c \in Nat
  PROVE  /\ (k - 1) * c \in Nat
         /\ k * c = (k - 1) * c + c
  <1>1. k - 1 \in Nat
    OBVIOUS
  <1>2. (k - 1) * c \in Nat
    BY <1>1
  <1>3. ((k - 1) + 1) * c = (k - 1) * c + c
    BY <1>1
  <1> QED
    BY <1>2, <1>3

\* Attempts are made at members of the chain, as many as are allowed.
AttemptOK == pc = "attempt" => at <= Len(Chain) /\ tries < Attempts

LEMMA AttemptStep ==
  ASSUME TypeOK, AttemptOK, [Next]_vars
  PROVE  AttemptOK'
  <1>1. Attempts \in Nat \ {0}
    BY ChainAssumption
  <1> QED
    BY <1>1 DEF AttemptOK, Next, Step, vars, Tick, NewRequest, StartCall, SkipExcluded, SkipOpen,
                EnterProvider, Answer, Retry, Exhaust, Escape, Unavailable, EndCall, TypeOK

\* Every step of a call goes on to the next attempt, the next member or the end.
LEMMA StepsGoOn ==
  ASSUME TypeOK, AttemptOK, Step
  PROVE  StepsLeft' < StepsLeft
  <1> DEFINE k == Len(Chain) + 1 - at
             c == Attempts + 2
  <1>1. /\ Attempts \in Nat \ {0} /\ Len(Chain) \in Nat /\ at \in 1..(Len(Chain) + 1)
        /\ tries \in 0..Attempts
    BY ChainAssumption DEF TypeOK
  <1>2. k \in Nat /\ c \in Nat /\ c = Attempts + 2
    BY <1>1
  <1>3. at <= Len(Chain) => k \in Nat \ {0}
    BY <1>1
  <1>4. at <= Len(Chain) => /\ (k - 1) * c \in Nat
                            /\ k * c = (k - 1) * c + c
    <2> HIDE DEF k, c
    <2> QED
      BY <1>2, <1>3, MemberLess
  <1>5. at' = at + 1 => Len(Chain) + 1 - at' = k - 1
    BY <1>1
  <1>6. CASE SkipExcluded \/ SkipOpen
    <2>1. pc = "loop" /\ pc' = "loop" /\ at <= Len(Chain) /\ at' = at + 1
      BY <1>6 DEF SkipExcluded, SkipOpen
    <2>2. StepsLeft = k * c + 1 /\ StepsLeft' = (k - 1) * c + 1
      BY <1>5, <2>1 DEF StepsLeft
    <2> HIDE DEF k, c
    <2> QED
      BY <1>1, <1>2, <1>4, <2>1, <2>2
  <1>7. CASE EnterProvider
    <2>1. pc = "loop" /\ pc' = "attempt" /\ at <= Len(Chain) /\ at' = at /\ tries' = 0
      BY <1>7 DEF EnterProvider
    <2>2. StepsLeft = k * c + 1 /\ StepsLeft' = k * c - 0
      BY <2>1 DEF StepsLeft
    <2>3. k * c \in Nat
      <3> HIDE DEF k, c
      <3> QED
        BY <1>2
    <2> HIDE DEF k, c
    <2> QED
      BY <2>2, <2>3
  <1>8. CASE Retry
    <2>1. pc = "attempt" /\ pc' = "attempt" /\ at' = at /\ tries' = tries + 1
      BY <1>8 DEF Retry
    <2>2. StepsLeft = k * c - tries /\ StepsLeft' = k * c - (tries + 1)
      BY <2>1 DEF StepsLeft
    <2>3. k * c \in Nat
      <3> HIDE DEF k, c
      <3> QED
        BY <1>2
    <2> HIDE DEF k, c
    <2> QED
      BY <1>1, <2>2, <2>3
  <1>9. CASE Exhaust
    <2>1. pc = "attempt" /\ pc' = "loop" /\ at <= Len(Chain) /\ at' = at + 1 /\ tries + 1 = Attempts
      BY <1>9 DEF Exhaust, AttemptOK
    <2>2. StepsLeft = k * c - tries /\ StepsLeft' = (k - 1) * c + 1
      BY <1>5, <2>1 DEF StepsLeft
    <2> HIDE DEF k, c
    <2> QED
      BY <1>1, <1>2, <1>4, <2>1, <2>2
  <1>10. CASE Answer \/ Escape
    <2>1. pc = "attempt" /\ pc' = "idle" /\ at <= Len(Chain)
      BY <1>10 DEF Answer, Escape, EndCall, AttemptOK
    <2>2. StepsLeft = k * c - tries /\ StepsLeft' = 0
      BY <2>1 DEF StepsLeft
    <2> HIDE DEF k, c
    <2> QED
      BY <1>1, <1>2, <1>4, <2>1, <2>2
  <1>11. CASE Unavailable
    <2>1. pc = "loop" /\ pc' = "idle"
      BY <1>11 DEF Unavailable, EndCall
    <2>2. StepsLeft = k * c + 1 /\ StepsLeft' = 0
      BY <2>1 DEF StepsLeft
    <2>3. k * c \in Nat
      <3> HIDE DEF k, c
      <3> QED
        BY <1>2
    <2> HIDE DEF k, c
    <2> QED
      BY <2>2, <2>3
  <1> QED
    BY <1>6, <1>7, <1>8, <1>9, <1>10, <1>11 DEF Step

\* A call of the chain ends after at most its members times their attempts,
\* and the steps around them: while it goes on, nothing else but time passes,
\* and time gives it no attempt back, even if it closes a circuit.
THEOREM CallIsBounded ==
  Spec => [][/\ Step => StepsLeft' < StepsLeft
             /\ pc # "idle" /\ ~Step => StepsLeft' = StepsLeft
             /\ pc = "idle" /\ pc' # "idle"
                  => StepsLeft' = Len(Chain) * (Attempts + 2) + 1]_vars
  <1> DEFINE A == /\ Step => StepsLeft' < StepsLeft
                  /\ pc # "idle" /\ ~Step => StepsLeft' = StepsLeft
                  /\ pc = "idle" /\ pc' # "idle"
                       => StepsLeft' = Len(Chain) * (Attempts + 2) + 1
  <1>1. Init => AttemptOK
    BY DEF Init, AttemptOK
  <1>2. TypeOK /\ AttemptOK /\ [Next]_vars => AttemptOK'
    BY AttemptStep
  <1>3. TypeOK /\ AttemptOK /\ [Next]_vars => [A]_vars
    <2> SUFFICES ASSUME TypeOK, AttemptOK, Next
                 PROVE  A
      OBVIOUS
    <2>1. Step => StepsLeft' < StepsLeft
      BY StepsGoOn
    <2>2. ASSUME pc # "idle", ~Step
          PROVE  StepsLeft' = StepsLeft
      <3>1. Tick
        BY <2>2 DEF Next, NewRequest, StartCall
      <3> QED
        BY <3>1 DEF Tick, StepsLeft
    <2>3. ASSUME pc = "idle", pc' # "idle"
          PROVE  StepsLeft' = Len(Chain) * (Attempts + 2) + 1
      <3>1. StartCall
        BY <2>3 DEF Next, Tick, NewRequest, Step, SkipExcluded, SkipOpen, EnterProvider, Answer,
                    Retry, Exhaust, Escape, Unavailable
      <3>2. pc' = "loop" /\ at' = 1 /\ Len(Chain) + 1 - at' = Len(Chain)
        BY <3>1, ChainAssumption DEF StartCall
      <3> QED
        BY <3>2 DEF StepsLeft
    <2> QED
      BY <2>1, <2>2, <2>3
  <1> QED
    BY TypeCorrect, <1>1, <1>2, <1>3, PTL DEF Spec

=============================================================================
