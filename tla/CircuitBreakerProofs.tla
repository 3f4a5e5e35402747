------------------------ MODULE CircuitBreakerProofs ------------------------
(***************************************************************************)
(* The safety of the circuit breaker, for any number of concurrent         *)
(* callers, any configuration with 0 < MaxRequests < Modulus, and calls    *)
(* that may take for ever.                                                 *)
(***************************************************************************)
EXTENDS CircuitBreaker, FiniteSetTheorems, TLAPS

\* No call in flight is from a generation still to come, so that a change of
\* state leaves no call in the generation it starts.
CallsAreFromThePast == \A c \in Callers : call[c] <= cb.generation

\* What the history variables record.
ProbesAreCounted == cb.state = "half-open" => probes = cb.counts.consecSucc
OpenExpires == cb.state = "open" => cb.expiry = tripped + Timeout

IInv ==
    /\ TypeOK
    /\ cb.generation # NoCall
    /\ CallsAreFromThePast
    /\ HalfOpenPermits
    /\ ProbesAreCounted
    /\ OpenExpires

-----------------------------------------------------------------------------
(* What the methods under the mutex return                                 *)

\* Incrementing a uint32 stays in range, and is exact below the last value.
LEMMA IncType ==
    ASSUME NEW n \in Counter
    PROVE  /\ Inc(n) \in Counter
           /\ n + 1 < Modulus => Inc(n) = n + 1
BY BreakerAssumption DEF Inc, Counter

\* setState, when it changes the state, starts a fresh generation.
LEMMA SetStateResult ==
    ASSUME NEW b \in Breaker, NEW st \in States, b.state # st, now \in Nat
    PROVE  /\ SetState(b, st) \in Breaker
           /\ SetState(b, st).state = st
           /\ SetState(b, st).generation = b.generation + 1
           /\ SetState(b, st).counts = ZeroCounts
           /\ st = "open" => SetState(b, st).expiry = now + Timeout
<1>1. ZeroCounts \in Counts
  BY BreakerAssumption DEF ZeroCounts, Counts, Counter
<1>2. CASE st = "closed"
  BY <1>1, <1>2, BreakerAssumption DEF SetState, Breaker, States
<1>3. CASE st = "open"
  BY <1>1, <1>3, BreakerAssumption DEF SetState, Breaker, States
<1>4. CASE st = "half-open"
  BY <1>1, <1>4, BreakerAssumption DEF SetState, Breaker, States
<1> QED
  BY <1>2, <1>3, <1>4 DEF States

\* currentState clears a counter, or turns an open breaker that has expired
\* into a half-open one, or does nothing.
LEMMA CurrentStateResult ==
    ASSUME cb \in Breaker, now \in Nat
    PROVE  /\ CurrentState(cb) \in Breaker
           /\ \/ CurrentState(cb) = cb
              \/ /\ cb.state = "closed"
                 /\ CurrentState(cb).state = "closed"
                 /\ CurrentState(cb).generation = cb.generation
              \/ /\ cb.state = "open"
                 /\ cb.expiry < now
                 /\ CurrentState(cb).state = "half-open"
                 /\ CurrentState(cb).generation = cb.generation + 1
                 /\ CurrentState(cb).counts = ZeroCounts
<1>1. CASE cb.state = "closed" /\ cb.expiry < now
  <2>1. CurrentState(cb) = [cb EXCEPT !.counts = Clear(cb.counts), !.expiry = now + Interval]
    BY <1>1 DEF CurrentState
  <2>2. Clear(cb.counts) \in Counts
    <3>1. cb.counts \in Counts
      BY DEF Breaker
    <3>2. 0 \in Counter
      BY BreakerAssumption DEF Counter
    <3> QED
      BY <3>1, <3>2 DEF Clear, Counts
  <2>3. now + Interval \in Nat
    BY BreakerAssumption
  <2>4. [cb EXCEPT !.counts = Clear(cb.counts), !.expiry = now + Interval] \in Breaker
    BY <2>2, <2>3 DEF Breaker
  <2>5. /\ CurrentState(cb).state = cb.state
        /\ CurrentState(cb).generation = cb.generation
    BY <2>1 DEF Breaker
  <2> QED
    BY <1>1, <2>1, <2>4, <2>5
<1>2. CASE cb.state = "open" /\ cb.expiry < now
  <2>1. CurrentState(cb) = SetState(cb, "half-open")
    BY <1>2 DEF CurrentState
  <2> QED
    BY <1>2, <2>1, SetStateResult DEF States
<1>3. CASE ~(cb.state = "closed" /\ cb.expiry < now) /\ ~(cb.state = "open" /\ cb.expiry < now)
  BY <1>3 DEF CurrentState
<1> QED
  BY <1>1, <1>2, <1>3

\* A request counts itself.
LEMMA OnRequestResult ==
    ASSUME NEW b \in Breaker
    PROVE  /\ OnRequest(b) \in Breaker
           /\ OnRequest(b).state = b.state
           /\ OnRequest(b).generation = b.generation
           /\ OnRequest(b).expiry = b.expiry
           /\ OnRequest(b).counts.requests = Inc(b.counts.requests)
           /\ OnRequest(b).counts.consecSucc = b.counts.consecSucc
<1>1. /\ Inc(b.counts.requests) \in Counter
      /\ Inc(b.counts.totalRequests) \in Counter
  BY IncType DEF Breaker, Counts
<1> QED
  BY <1>1 DEF OnRequest, Breaker, Counts

\* A success is counted, and in half-open the last one that is needed closes
\* the breaker.
LEMMA OnSuccessResult ==
    ASSUME NEW b \in Breaker, now \in Nat
    PROVE  /\ OnSuccess(b) \in Breaker
           /\ \/ /\ OnSuccess(b).state = b.state
                 /\ OnSuccess(b).generation = b.generation
                 /\ OnSuccess(b).expiry = b.expiry
                 /\ OnSuccess(b).counts.requests = b.counts.requests
                 /\ OnSuccess(b).counts.consecSucc = Inc(b.counts.consecSucc)
              \/ /\ b.state = "half-open"
                 /\ Inc(b.counts.consecSucc) >= MaxRequests
                 /\ OnSuccess(b).state = "closed"
                 /\ OnSuccess(b).generation = b.generation + 1
<1> DEFINE d == [b EXCEPT !.counts.consecSucc = Inc(@)]
<1>1. Inc(b.counts.consecSucc) \in Counter
  BY IncType DEF Breaker, Counts
<1>2. /\ d \in Breaker
      /\ d.state = b.state /\ d.generation = b.generation /\ d.expiry = b.expiry
      /\ d.counts.requests = b.counts.requests
      /\ d.counts.consecSucc = Inc(b.counts.consecSucc)
  BY <1>1 DEF Breaker, Counts
<1>3. OnSuccess(b) = IF d.state = "half-open" /\ d.counts.consecSucc >= MaxRequests
                     THEN SetState(d, "closed") ELSE d
  BY DEF OnSuccess
<1> HIDE DEF d
<1>4. CASE d.state = "half-open" /\ d.counts.consecSucc >= MaxRequests
  BY <1>2, <1>3, <1>4, SetStateResult DEF States
<1>5. CASE ~(d.state = "half-open" /\ d.counts.consecSucc >= MaxRequests)
  BY <1>2, <1>3, <1>5
<1> QED
  BY <1>4, <1>5

\* A failure opens a half-open breaker, and may open a closed one.
LEMMA OnFailureResult ==
    ASSUME NEW b \in Breaker, now \in Nat
    PROVE  /\ OnFailure(b) \in Breaker
           /\ \/ /\ b.state # "half-open"
                 /\ OnFailure(b).state = b.state
                 /\ OnFailure(b).generation = b.generation
                 /\ OnFailure(b).expiry = b.expiry
              \/ /\ b.state # "open"
                 /\ OnFailure(b).state = "open"
                 /\ OnFailure(b).generation = b.generation + 1
                 /\ OnFailure(b).expiry = now + Timeout
<1> DEFINE d == [b EXCEPT !.counts.totalFailures = Inc(@), !.counts.consecSucc = 0]
           trips == \/ d.state = "closed" /\ ReadyToTrip(d.counts)
                    \/ d.state = "half-open"
<1>1. Inc(b.counts.totalFailures) \in Counter /\ 0 \in Counter
  BY IncType, BreakerAssumption DEF Breaker, Counts, Counter
<1>2. /\ d \in Breaker
      /\ d.state = b.state /\ d.generation = b.generation /\ d.expiry = b.expiry
  BY <1>1 DEF Breaker, Counts
<1>3. OnFailure(b) = IF trips THEN SetState(d, "open") ELSE d
  BY DEF OnFailure
<1>4. trips => d.state # "open"
  OBVIOUS
<1>5. ~trips => d.state # "half-open"
  OBVIOUS
<1> HIDE DEF d, trips
<1>6. CASE trips
  BY <1>2, <1>3, <1>4, <1>6, SetStateResult DEF States
<1>7. CASE ~trips
  BY <1>2, <1>3, <1>5, <1>7
<1> QED
  BY <1>6, <1>7

-----------------------------------------------------------------------------
(* The inductive invariant                                                 *)

\* The calls in flight of generation g.
Of(g) == {c \in Callers : call[c] = g}

\* What beforeRequest and afterRequest know of the fields b once currentState
\* has brought them up to date.
Settled(b) ==
    /\ b \in Breaker
    /\ b.generation # NoCall
    /\ \A c \in Callers : call[c] <= b.generation
    /\ b.state = "half-open" =>
          /\ Cardinality(Of(b.generation)) + b.counts.consecSucc = b.counts.requests
          /\ b.counts.requests <= MaxRequests
          /\ b.counts.consecSucc = IF b.generation = cb.generation THEN probes ELSE 0
    /\ b.state = "open" => b = cb

LEMMA OfIsFinite ==
    ASSUME NEW g
    PROVE  IsFiniteSet(Of(g)) /\ Cardinality(Of(g)) \in Nat
BY BreakerAssumption, FS_Subset, FS_CardinalityType DEF Of

\* currentState keeps the invariant: a half-open state it enters has no calls.
LEMMA CurrentStateSettles ==
    ASSUME IInv
    PROVE  Settled(CurrentState(cb))
<1> DEFINE b == CurrentState(cb)
<1>0. cb \in Breaker /\ now \in Nat /\ call \in [Callers -> Nat] /\ probes \in Nat
  BY DEF IInv, TypeOK
<1>1. CASE b = cb
  BY <1>0, <1>1 DEF IInv, Settled, CallsAreFromThePast, HalfOpenPermits, ProbesAreCounted,
                    Current, Of
<1>2. CASE cb.state = "closed" /\ b.state = "closed" /\ b.generation = cb.generation
  BY <1>0, <1>2, CurrentStateResult DEF IInv, Settled, CallsAreFromThePast
<1>3. CASE /\ b.state = "half-open"
           /\ b.generation = cb.generation + 1
           /\ b.counts = ZeroCounts
  <2>1. cb.generation \in Nat
    BY <1>0 DEF Breaker
  <2>2. \A c \in Callers : call[c] \in Nat /\ call[c] <= cb.generation
    BY <1>0 DEF IInv, CallsAreFromThePast
  <2>3. Of(b.generation) = {}
    BY <1>3, <2>1, <2>2 DEF Of
  <2>4. Cardinality(Of(b.generation)) = 0
    BY <2>3, FS_EmptySet
  <2>5. b.generation # cb.generation /\ b.generation # NoCall
    BY <1>3, <2>1 DEF NoCall
  <2>6. \A c \in Callers : call[c] <= b.generation
    BY <1>3, <2>1, <2>2
  <2>7. b.counts.consecSucc = 0 /\ b.counts.requests = 0
    BY <1>3 DEF ZeroCounts
  <2>8. b \in Breaker
    BY <1>0, CurrentStateResult
  <2> HIDE DEF b
  <2>9. Settled(b)
    BY <1>3, <2>4, <2>5, <2>6, <2>7, <2>8, BreakerAssumption DEF Settled
  <2> QED
    BY <2>9 DEF b
<1> QED
  BY <1>0, <1>1, <1>2, <1>3, CurrentStateResult

\* Observing the breaker, or being refused by it, keeps the invariant.
LEMMA ObserveStep ==
    ASSUME IInv, Record(CurrentState(cb), 0), now' = now, call' = call
    PROVE  IInv'
<1> DEFINE b == CurrentState(cb)
<1>1. Settled(b)
  BY CurrentStateSettles
<1>2. /\ cb' = b
      /\ probes' = IF b.state = "half-open" /\ b.generation = cb.generation
                   THEN probes + 0 ELSE 0
      /\ tripped' = IF b.state = "open" /\ cb.state # "open" THEN now ELSE tripped
  BY DEF Record
<1> HIDE DEF b
<1>3. now \in Nat /\ call \in [Callers -> Nat] /\ probes \in Nat /\ tripped \in Nat
  BY DEF IInv, TypeOK
<1>4. TypeOK'
  BY <1>1, <1>2, <1>3 DEF TypeOK, Settled
<1>5. HalfOpenPermits' /\ ProbesAreCounted'
  BY <1>1, <1>2, <1>3 DEF Settled, HalfOpenPermits, ProbesAreCounted, Current, Of
<1>6. OpenExpires'
  BY <1>1, <1>2 DEF Settled, IInv, OpenExpires
<1> QED
  BY <1>1, <1>2, <1>4, <1>5, <1>6 DEF IInv, Settled, CallsAreFromThePast

\* An admitted call takes a permit.
LEMMA BeforeRequestStep ==
    ASSUME IInv, NEW c \in Callers, BeforeRequest(c)
    PROVE  IInv'
<1> DEFINE b == CurrentState(cb)
           r == OnRequest(b)
<1>1. Settled(b)
  BY CurrentStateSettles
<1>2. /\ call[c] = NoCall
      /\ ~Refuses(b)
      /\ call' = [call EXCEPT ![c] = b.generation]
      /\ now' = now
      /\ cb' = r
      /\ probes' = IF r.state = "half-open" /\ r.generation = cb.generation
                   THEN probes + 0 ELSE 0
      /\ tripped' = IF r.state = "open" /\ cb.state # "open" THEN now ELSE tripped
  BY DEF BeforeRequest, Record, InFlight
<1>3. b \in Breaker
  BY <1>1 DEF Settled
<1>4. /\ r \in Breaker /\ r.state = b.state /\ r.generation = b.generation
      /\ r.counts.requests = Inc(b.counts.requests)
      /\ r.counts.consecSucc = b.counts.consecSucc
  BY <1>3, OnRequestResult
<1> HIDE DEF b, r
<1>5. now \in Nat /\ call \in [Callers -> Nat] /\ probes \in Nat /\ tripped \in Nat
  BY DEF IInv, TypeOK
<1>6. b.generation \in Nat /\ b.counts.requests \in Counter /\ b.counts.consecSucc \in Counter
  BY <1>3 DEF Breaker, Counts
<1>7. b.state # "open"
  BY <1>2 DEF Refuses
<1>8. TypeOK'
  BY <1>2, <1>4, <1>5, <1>6 DEF TypeOK
<1>9. HalfOpenPermits' /\ ProbesAreCounted'
  <2>1. Current' = Of(b.generation) \cup {c} /\ c \notin Of(b.generation)
    BY <1>1, <1>2, <1>4, <1>5 DEF Current, Of, Settled
  <2>2. IsFiniteSet(Of(b.generation))
    BY OfIsFinite
  <2>3. Cardinality(Current') = Cardinality(Of(b.generation)) + 1
    BY <2>1, <2>2, FS_AddElement
  <2>4. SUFFICES ASSUME b.state = "half-open"
                 PROVE  HalfOpenPermits' /\ ProbesAreCounted'
    BY <1>2, <1>4 DEF HalfOpenPermits, ProbesAreCounted
  <2>5. b.counts.requests < MaxRequests
    BY <1>2, <1>6, <2>4, BreakerAssumption DEF Refuses, Counter
  <2>6. Inc(b.counts.requests) = b.counts.requests + 1
    BY <1>6, <2>5, IncType, BreakerAssumption DEF Counter
  <2>7. Cardinality(Of(b.generation)) \in Nat
    BY OfIsFinite
  <2>8. Cardinality(Of(b.generation)) + b.counts.consecSucc = b.counts.requests
    BY <1>1, <2>4 DEF Settled
  <2>9. Cardinality(Current') + r.counts.consecSucc = r.counts.requests
    BY <1>4, <1>6, <2>3, <2>6, <2>7, <2>8 DEF Counter
  <2>10. r.counts.requests <= MaxRequests
    BY <1>4, <1>6, <2>5, <2>6, BreakerAssumption DEF Counter
  <2> QED
    BY <1>1, <1>2, <1>4, <1>5, <2>4, <2>9, <2>10
       DEF HalfOpenPermits, ProbesAreCounted, Settled
<1>10. CallsAreFromThePast'
  BY <1>1, <1>2, <1>4, <1>5, <1>6 DEF CallsAreFromThePast, Settled
<1> QED
  BY <1>1, <1>2, <1>4, <1>7, <1>8, <1>9, <1>10 DEF IInv, Settled, OpenExpires

\* A call that ends returns its permit as a success, or opens the breaker, or
\* is of an earlier generation and holds no permit of this one.
LEMMA AfterRequestStep ==
    ASSUME IInv, NEW c \in Callers, NEW success \in BOOLEAN, AfterRequest(c, success)
    PROVE  IInv'
<1> DEFINE b == CurrentState(cb)
<1>1. Settled(b)
  BY CurrentStateSettles
<1>2. /\ call[c] # NoCall
      /\ call' = [call EXCEPT ![c] = NoCall]
      /\ now' = now
  BY DEF AfterRequest, InFlight
<1>3. b \in Breaker /\ b.generation \in Nat
  BY <1>1 DEF Settled, Breaker
<1>4. now \in Nat /\ call \in [Callers -> Nat] /\ probes \in Nat /\ tripped \in Nat
  BY DEF IInv, TypeOK
<1>5. call' \in [Callers -> Nat] /\ \A k \in Callers : call'[k] <= b.generation
  BY <1>1, <1>2, <1>3, <1>4 DEF Settled, NoCall
\* A result counts only if currentState did not change the state.
<1>0. b.generation = call[c] =>
         b.generation = cb.generation /\ (cb.state = "open" => b.state = "open")
  <2>1. call[c] <= cb.generation
    BY DEF IInv, CallsAreFromThePast
  <2>2. cb \in Breaker /\ cb.generation \in Nat
    BY DEF IInv, TypeOK, Breaker
  <2> QED
    BY <1>4, <2>1, <2>2, CurrentStateResult
<1>6. CASE b.generation # call[c]
  <2>1. Record(b, 0)
    BY <1>6 DEF AfterRequest
  <2>2. /\ cb' = b
        /\ probes' = IF b.state = "half-open" /\ b.generation = cb.generation
                     THEN probes + 0 ELSE 0
        /\ tripped' = IF b.state = "open" /\ cb.state # "open" THEN now ELSE tripped
    BY <2>1 DEF Record
  <2> HIDE DEF b
  <2>3. Current' = Of(b.generation)
    BY <1>1, <1>2, <1>4, <1>6, <2>2 DEF Current, Of, Settled
  <2>4. TypeOK'
    BY <1>2, <1>3, <1>4, <1>5, <2>2 DEF TypeOK
  <2>5. HalfOpenPermits' /\ ProbesAreCounted'
    BY <1>1, <1>4, <2>2, <2>3 DEF HalfOpenPermits, ProbesAreCounted, Settled
  <2>6. OpenExpires'
    BY <1>1, <2>2 DEF Settled, IInv, OpenExpires
  <2> QED
    BY <1>1, <1>5, <2>2, <2>4, <2>5, <2>6 DEF IInv, Settled, CallsAreFromThePast
<1>7. CASE b.generation = call[c] /\ success
  <2> DEFINE r == OnSuccess(b)
  <2>1. Record(r, 1)
    BY <1>7 DEF AfterRequest
  <2>2. /\ cb' = r
        /\ probes' = IF r.state = "half-open" /\ r.generation = cb.generation
                     THEN probes + 1 ELSE 0
        /\ tripped' = IF r.state = "open" /\ cb.state # "open" THEN now ELSE tripped
    BY <2>1 DEF Record
  <2>3. r \in Breaker
    BY <1>3, <1>4, OnSuccessResult
  <2>4. TypeOK'
    BY <1>2, <1>4, <1>5, <2>2, <2>3 DEF TypeOK
  <2>5. CASE /\ r.state = b.state
             /\ r.generation = b.generation
             /\ r.expiry = b.expiry
             /\ r.counts.requests = b.counts.requests
             /\ r.counts.consecSucc = Inc(b.counts.consecSucc)
    <3> HIDE DEF b, r
    <3>1. HalfOpenPermits' /\ ProbesAreCounted'
      <4>1. SUFFICES ASSUME b.state = "half-open"
                     PROVE  HalfOpenPermits' /\ ProbesAreCounted'
        BY <2>2, <2>5 DEF HalfOpenPermits, ProbesAreCounted
      <4>2. Current' = Of(b.generation) \ {c} /\ c \in Of(b.generation)
        BY <1>1, <1>2, <1>4, <1>7, <2>2, <2>5 DEF Current, Of, Settled
      <4>3. IsFiniteSet(Of(b.generation)) /\ Cardinality(Of(b.generation)) \in Nat
        BY OfIsFinite
      <4>4. Cardinality(Current') = Cardinality(Of(b.generation)) - 1
        BY <4>2, <4>3, FS_RemoveElement
      <4>5. Cardinality(Of(b.generation)) # 0
        BY <4>2, <4>3, FS_EmptySet
      <4>6. /\ Cardinality(Of(b.generation)) + b.counts.consecSucc = b.counts.requests
            /\ b.counts.requests <= MaxRequests
            /\ b.counts.consecSucc = IF b.generation = cb.generation THEN probes ELSE 0
        BY <1>1, <4>1 DEF Settled
      <4>7. b.counts.requests \in Counter /\ b.counts.consecSucc \in Counter
        BY <1>3 DEF Breaker, Counts
      <4>8. Inc(b.counts.consecSucc) = b.counts.consecSucc + 1
        BY <4>3, <4>5, <4>6, <4>7, IncType, BreakerAssumption DEF Counter
      <4>9. Cardinality(Current') + r.counts.consecSucc = r.counts.requests
        BY <2>5, <4>3, <4>4, <4>6, <4>7, <4>8 DEF Counter
      <4>10. r.counts.requests <= MaxRequests
        BY <2>5, <4>6
      <4>11. b.generation = cb.generation
        BY <1>0, <1>7
      <4> QED
        BY <2>2, <2>5, <4>1, <4>6, <4>8, <4>9, <4>10, <4>11
           DEF HalfOpenPermits, ProbesAreCounted
    <3>2. OpenExpires'
      BY <1>1, <2>2, <2>5 DEF Settled, IInv, OpenExpires
    <3> QED
      BY <1>1, <1>5, <2>2, <2>4, <2>5, <3>1, <3>2 DEF IInv, Settled, CallsAreFromThePast
  <2>6. CASE r.state = "closed" /\ r.generation = b.generation + 1
    <3> HIDE DEF b, r
    <3>1. /\ HalfOpenPermits' /\ ProbesAreCounted' /\ OpenExpires'
          /\ r.generation # NoCall
      BY <1>3, <2>2, <2>6
         DEF HalfOpenPermits, ProbesAreCounted, OpenExpires, NoCall
    <3>2. CallsAreFromThePast'
      BY <1>3, <1>5, <2>2, <2>6 DEF CallsAreFromThePast
    <3> QED
      BY <2>2, <2>4, <3>1, <3>2 DEF IInv
  <2> QED
    BY <1>3, <1>4, <2>5, <2>6, OnSuccessResult
<1>8. CASE b.generation = call[c] /\ ~success
  <2> DEFINE r == OnFailure(b)
  <2>1. Record(r, 0)
    BY <1>8 DEF AfterRequest
  <2>2. /\ cb' = r
        /\ probes' = IF r.state = "half-open" /\ r.generation = cb.generation
                     THEN probes + 0 ELSE 0
        /\ tripped' = IF r.state = "open" /\ cb.state # "open" THEN now ELSE tripped
    BY <2>1 DEF Record
  <2>3. r \in Breaker
    BY <1>3, <1>4, OnFailureResult
  <2>4. TypeOK'
    BY <1>2, <1>4, <1>5, <2>2, <2>3 DEF TypeOK
  <2>5. CASE /\ b.state # "half-open"
             /\ r.state = b.state
             /\ r.generation = b.generation
             /\ r.expiry = b.expiry
    <3> HIDE DEF b, r
    <3>1. HalfOpenPermits' /\ ProbesAreCounted' /\ OpenExpires'
      BY <1>1, <2>2, <2>5
         DEF HalfOpenPermits, ProbesAreCounted, Settled, IInv, OpenExpires
    <3> QED
      BY <1>1, <1>5, <2>2, <2>4, <2>5, <3>1 DEF IInv, Settled, CallsAreFromThePast
  <2>6. CASE /\ b.state # "open"
             /\ r.state = "open"
             /\ r.generation = b.generation + 1
             /\ r.expiry = now + Timeout
    <3>1. b.generation = cb.generation /\ cb.state # "open"
      BY <1>0, <1>8, <2>6
    <3> HIDE DEF b, r
    <3>2. /\ HalfOpenPermits' /\ ProbesAreCounted' /\ OpenExpires'
          /\ r.generation # NoCall
      BY <1>2, <1>3, <2>2, <2>6, <3>1
         DEF HalfOpenPermits, ProbesAreCounted, OpenExpires, NoCall
    <3>3. CallsAreFromThePast'
      BY <1>3, <1>5, <2>2, <2>6 DEF CallsAreFromThePast
    <3> QED
      BY <2>2, <2>4, <3>2, <3>3 DEF IInv
  <2> QED
    BY <1>3, <1>4, <2>5, <2>6, OnFailureResult
<1> QED
  BY <1>6, <1>7, <1>8

LEMMA IInvInit == Init => IInv
<1> SUFFICES ASSUME Init PROVE IInv
  OBVIOUS
<1>1. ZeroCounts \in Counts /\ Interval \in Nat
  BY BreakerAssumption DEF ZeroCounts, Counts, Counter
<1> QED
  BY <1>1 DEF Init, IInv, TypeOK, Breaker, States, NoCall, CallsAreFromThePast,
              HalfOpenPermits, ProbesAreCounted, OpenExpires

LEMMA IInvStep == IInv /\ [Next]_vars => IInv'
<1> SUFFICES ASSUME IInv, [Next]_vars PROVE IInv'
  OBVIOUS
<1>1. CASE Tick
  BY <1>1 DEF Tick, IInv, TypeOK, CallsAreFromThePast, HalfOpenPermits, Current,
              ProbesAreCounted, OpenExpires
<1>2. CASE Observe
  BY <1>2, ObserveStep DEF Observe
<1>3. ASSUME NEW c \in Callers, BeforeRequest(c) PROVE IInv'
  BY <1>3, BeforeRequestStep
<1>4. ASSUME NEW c \in Callers, Refused(c) PROVE IInv'
  BY <1>4, ObserveStep DEF Refused
<1>5. ASSUME NEW c \in Callers, NEW success \in BOOLEAN, AfterRequest(c, success) PROVE IInv'
  BY <1>5, AfterRequestStep
<1>6. CASE UNCHANGED vars
  BY <1>6 DEF vars, IInv, TypeOK, CallsAreFromThePast, HalfOpenPermits, Current,
              ProbesAreCounted, OpenExpires
<1> QED
  BY <1>1, <1>2, <1>3, <1>4, <1>5, <1>6 DEF Next

LEMMA IInvHolds == Spec => []IInv
BY IInvInit, IInvStep, PTL DEF Spec

-----------------------------------------------------------------------------
(* The theorems                                                            *)

\* Every field keeps its type; the uint32 counters wrap and do not overflow.
THEOREM BreakerTypes == Spec => []TypeOK
<1>1. IInv => TypeOK
  BY DEF IInv
<1> QED
  BY <1>1, IInvHolds, PTL

\* Half-open admits at most MaxRequests trial calls and loses no permit, for
\* any number of callers and any interleaving of their two critical sections.
THEOREM BreakerPermits == Spec => []HalfOpenPermits
<1>1. IInv => HalfOpenPermits
  BY DEF IInv
<1> QED
  BY <1>1, IInvHolds, PTL

\* The breaker closes only on MaxRequests successes of calls that began in the
\* half-open state it leaves.
THEOREM BreakerClosesOnProbes == Spec => ClosesOnProbes
<1>1. ASSUME IInv, [Next]_vars, cb.state = "half-open", cb'.state = "closed"
      PROVE  probes + 1 >= MaxRequests
  <2>0. cb \in Breaker /\ now \in Nat /\ cb.counts.consecSucc \in Counter
    BY <1>1 DEF IInv, TypeOK, Breaker, Counts
  <2>1. CurrentState(cb) = cb
    BY <1>1 DEF CurrentState
  <2>2. PICK c \in Callers, success \in BOOLEAN : AfterRequest(c, success)
    <3>1. ~Tick /\ ~Observe /\ ~UNCHANGED vars
      BY <1>1, <2>1 DEF Tick, Observe, Record, vars
    <3>2. \A c \in Callers : ~BeforeRequest(c) /\ ~Refused(c)
      BY <1>1, <2>0, <2>1, OnRequestResult DEF BeforeRequest, Refused, Record
    <3> QED
      BY <1>1, <3>1, <3>2 DEF Next
  <2>3. cb' \in {cb, OnSuccess(cb), OnFailure(cb)}
    BY <2>1, <2>2 DEF AfterRequest, Record
  <2>4. cb' = OnSuccess(cb)
    BY <1>1, <2>0, <2>3, OnFailureResult
  <2>5. Inc(cb.counts.consecSucc) >= MaxRequests
    BY <1>1, <2>0, <2>4, OnSuccessResult
  <2>6. Inc(cb.counts.consecSucc) <= cb.counts.consecSucc + 1
    BY <2>0, BreakerAssumption DEF Inc, Counter
  <2>7. probes = cb.counts.consecSucc
    BY <1>1 DEF IInv, ProbesAreCounted
  <2> QED
    BY <2>0, <2>5, <2>6, <2>7, IncType, BreakerAssumption DEF Counter
<1>2. IInv /\ [Next]_vars =>
         [cb.state = "half-open" /\ cb'.state = "closed" => probes + 1 >= MaxRequests]_vars
  BY <1>1
<1> QED
  BY <1>2, IInvHolds, PTL DEF Spec, ClosesOnProbes

-----------------------------------------------------------------------------
(* An open breaker rests for Timeout                                       *)

\* A breaker with fields b that has left the open state has rested.
HasRested(b) ==
    b.state = "half-open" \/ (b.state = "closed" /\ b.generation > 1) => now > tripped + Timeout

Rested == HasRested(cb)

\* currentState ends the rest of an open breaker no sooner than that.
LEMMA CurrentStateRests ==
    ASSUME IInv, Rested
    PROVE  HasRested(CurrentState(cb))
<1>1. /\ cb \in Breaker /\ now \in Nat /\ tripped \in Nat /\ Timeout \in Nat
      /\ cb.state = "open" => cb.expiry = tripped + Timeout
  BY BreakerAssumption DEF IInv, TypeOK, OpenExpires
<1> QED
  BY <1>1, CurrentStateResult DEF Rested, HasRested

\* Whatever the step, the fields become what currentState left or what a
\* request, a success or a failure made of that.
LEMMA RestedStep == IInv /\ Rested /\ [Next]_vars => Rested'
<1> SUFFICES ASSUME IInv, Rested, [Next]_vars PROVE Rested'
  OBVIOUS
<1> DEFINE b == CurrentState(cb)
<1>1. /\ now \in Nat /\ tripped \in Nat /\ Timeout \in Nat
      /\ b \in Breaker /\ b.generation \in Nat
  BY CurrentStateResult, BreakerAssumption DEF IInv, TypeOK, Breaker
<1>2. HasRested(b)
  BY CurrentStateRests
<1>3. CASE Tick
  BY <1>1, <1>3 DEF Tick, Rested, HasRested
<1>4. CASE UNCHANGED vars
  BY <1>4 DEF vars, Rested, HasRested
<1>5. ASSUME NEW r \in {b, OnRequest(b), OnSuccess(b), OnFailure(b)}, NEW k, Record(r, k),
             now' = now
      PROVE  Rested'
  <2>1. cb' = r /\ (r.state # "open" => tripped' = tripped)
    BY <1>5 DEF Record
  <2>2. \/ r.state = "open"
        \/ r.state = b.state /\ r.generation = b.generation
        \/ b.state = "half-open"
    BY <1>1, OnRequestResult, OnSuccessResult, OnFailureResult
  <2> HIDE DEF b
  <2>3. CASE r.state = "open"
    BY <2>1, <2>3 DEF Rested, HasRested
  <2>4. CASE r.state # "open"
    BY <1>1, <1>2, <1>5, <2>1, <2>2, <2>4 DEF Rested, HasRested
  <2> QED
    BY <2>3, <2>4
<1>6. CASE Observe
  BY <1>5, <1>6 DEF Observe
<1>7. ASSUME NEW c \in Callers, BeforeRequest(c) \/ Refused(c) PROVE Rested'
  BY <1>5, <1>7 DEF BeforeRequest, Refused
<1>8. ASSUME NEW c \in Callers, NEW success \in BOOLEAN, AfterRequest(c, success) PROVE Rested'
  BY <1>5, <1>8 DEF AfterRequest
<1> QED
  BY <1>3, <1>4, <1>6, <1>7, <1>8 DEF Next

\* After it opened, the breaker lets no call through before Timeout has passed,
\* whether a call, the result of a slow one or State() moves it on.
THEOREM BreakerOpenLasts == Spec => OpenLasts
<1>1. ASSUME IInv, Rested, [Next]_vars, NEW c \in Callers, ~InFlight(c), InFlight(c)',
             cb'.generation > 1
      PROVE  now > tripped + Timeout
  <2>0. cb \in Breaker /\ now \in Nat /\ call \in [Callers -> Nat]
    BY <1>1 DEF IInv, TypeOK
  <2>1. call' # call
    BY <1>1 DEF InFlight
  <2>2. ~Tick /\ ~Observe /\ ~UNCHANGED vars /\ \A k \in Callers : ~Refused(k)
    BY <2>1 DEF Tick, Observe, Refused, vars
  <2>3. \A k \in Callers, success \in BOOLEAN : ~AfterRequest(k, success)
    BY <1>1, <2>0 DEF AfterRequest, InFlight
  <2>4. PICK k \in Callers : BeforeRequest(k)
    BY <1>1, <2>2, <2>3 DEF Next
  <2> DEFINE b == CurrentState(cb)
  <2>5. b \in Breaker /\ b.state \in States /\ b.state # "open"
    BY <2>0, <2>4, CurrentStateResult DEF BeforeRequest, Refuses, Breaker
  <2>6. cb'.generation = b.generation
    BY <2>4, <2>5, OnRequestResult DEF BeforeRequest, Record
  <2> HIDE DEF b
  <2>7. HasRested(b)
    BY <1>1, CurrentStateRests DEF b
  <2> QED
    BY <1>1, <2>5, <2>6, <2>7 DEF HasRested, States
<1>2. IInv /\ Rested /\ [Next]_vars =>
         [\A c \in Callers :
             ~InFlight(c) /\ InFlight(c)' /\ cb'.generation > 1 => now > tripped + Timeout]_vars
  BY <1>1
<1>3. Init => Rested
  BY DEF Init, Rested, HasRested
<1> QED
  BY <1>2, <1>3, RestedStep, IInvHolds, PTL DEF Spec, OpenLasts
=============================================================================
