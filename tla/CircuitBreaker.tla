--------------------------- MODULE CircuitBreaker ---------------------------
(***************************************************************************)
(* pkg/circuitbreaker/circuitbreaker.go: one breaker shared by callers     *)
(* that run concurrently.  Call(fn) is two critical sections,              *)
(* beforeRequest and afterRequest, with fn in between; the breaker may     *)
(* change state any number of times while a call is in flight, and each    *)
(* change starts a new generation.                                         *)
(*                                                                         *)
(* The counters TotalSuccesses and ConsecFail, which no decision of the    *)
(* code reads, and the OnStateChange callback are left out.                *)
(***************************************************************************)
EXTENDS Naturals, FiniteSets

CONSTANTS
    Callers,       \* the goroutines that share the breaker
    MaxRequests,   \* Config.MaxRequests
    Interval,      \* Config.Interval, in ticks
    Timeout,       \* Config.Timeout, in ticks
    MinSample,     \* the 50 requests DefaultConfig's ReadyToTrip waits for
    Modulus,       \* 2^32: the counters are uint32
    MaxTime        \* bound: the clock stops here

ASSUME BreakerAssumption ==
    /\ IsFiniteSet(Callers)
    /\ {Interval, Timeout, MinSample, MaxTime} \subseteq Nat
    /\ MaxRequests \in Nat \ {0}
    /\ Modulus \in Nat
    /\ MaxRequests < Modulus

VARIABLES
    now,        \* time.Now()
    cb,         \* the fields of the CircuitBreaker, guarded by its mutex
    call,       \* call[c]: the generation a call in flight began in, or NoCall
    probes,     \* history: calls of this half-open generation that succeeded
    tripped     \* history: when the breaker last opened

vars == <<now, cb, call, probes, tripped>>

-----------------------------------------------------------------------------
States == {"closed", "open", "half-open"}
Counter == 0..(Modulus - 1)
Counts == [requests : Counter, totalRequests : Counter, totalFailures : Counter,
           consecSucc : Counter]
Breaker == [state : States, generation : Nat, counts : Counts, expiry : Nat]

\* No call in flight; generations count up from 1 here, from 0 in the code.
NoCall == 0

ZeroCounts == [requests |-> 0, totalRequests |-> 0, totalFailures |-> 0, consecSucc |-> 0]

\* Mutant of Inc: a wider counter.
IncWide(n) == n + 1

Inc(n) == (n + 1) % Modulus

InFlight(c) == call[c] # NoCall

\* The calls in flight that began in the current generation.
Current == {c \in Callers : call[c] = cb.generation}

TypeOK ==
    /\ now \in Nat
    /\ cb \in Breaker
    /\ call \in [Callers -> Nat]
    /\ probes \in Nat
    /\ tripped \in Nat

Init ==
    /\ now = 0
    /\ cb = [state |-> "closed", generation |-> 1, counts |-> ZeroCounts,
             expiry |-> Interval]
    /\ call = [c \in Callers |-> NoCall]
    /\ probes = 0
    /\ tripped = 0

-----------------------------------------------------------------------------
(* The methods that run under the mutex, as functions of the fields        *)

\* Mutant of SetState: the counters of the previous state are kept.
SetStateKeepsCounts(b, state) ==
    IF b.state = state THEN b
    ELSE [state |-> state, generation |-> b.generation + 1, counts |-> b.counts,
          expiry |-> CASE state = "closed" -> now + Interval
                       [] state = "open" -> now + Timeout
                       [] state = "half-open" -> 0]

SetState(b, state) ==
    IF b.state = state THEN b
    ELSE [state |-> state, generation |-> b.generation + 1, counts |-> ZeroCounts,
          expiry |-> CASE state = "closed" -> now + Interval
                       [] state = "open" -> now + Timeout
                       [] state = "half-open" -> 0]

\* Counts.clear: of all the counters, Requests.
Clear(counts) == [counts EXCEPT !.requests = 0]

\* currentState: what the passing of time has done to the breaker.
CurrentState(b) ==
    CASE b.state = "closed" /\ b.expiry < now ->
            [b EXCEPT !.counts = Clear(@), !.expiry = now + Interval]
      [] b.state = "open" /\ b.expiry < now -> SetState(b, "half-open")
      [] OTHER -> b

OnRequest(b) == [b EXCEPT !.counts.requests = Inc(@), !.counts.totalRequests = Inc(@)]

\* DefaultConfig.ReadyToTrip: more than 20% of at least MinSample requests.
ReadyToTrip(counts) ==
    /\ counts.totalRequests >= MinSample
    /\ 5 * counts.totalFailures > counts.totalRequests

\* Mutant of OnSuccess: one success is enough to close.
OnSuccessEager(b) ==
    LET d == [b EXCEPT !.counts.consecSucc = Inc(@)] IN
    IF d.state = "half-open" THEN SetState(d, "closed") ELSE d

OnSuccess(b) ==
    LET d == [b EXCEPT !.counts.consecSucc = Inc(@)] IN
    IF d.state = "half-open" /\ d.counts.consecSucc >= MaxRequests
    THEN SetState(d, "closed") ELSE d

OnFailure(b) ==
    LET d == [b EXCEPT !.counts.totalFailures = Inc(@), !.counts.consecSucc = 0] IN
    IF \/ d.state = "closed" /\ ReadyToTrip(d.counts)
       \/ d.state = "half-open"
    THEN SetState(d, "open") ELSE d

-----------------------------------------------------------------------------
(* Steps                                                                   *)

\* The history that goes with a change of the fields to b.
Record(b, successes) ==
    /\ cb' = b
    /\ probes' = IF b.state = "half-open" /\ b.generation = cb.generation
                 THEN probes + successes ELSE 0
    /\ tripped' = IF b.state = "open" /\ cb.state # "open" THEN now ELSE tripped

Tick ==
    /\ now < MaxTime
    /\ now' = now + 1
    /\ UNCHANGED <<cb, call, probes, tripped>>

\* Mutant of Observe: looking at an open breaker ends its rest.
ObserveEager ==
    /\ Record(IF cb.state = "open" THEN SetState(cb, "half-open") ELSE CurrentState(cb), 0)
    /\ UNCHANGED <<now, call>>

\* State(): reading the state may change it.
Observe ==
    /\ Record(CurrentState(cb), 0)
    /\ UNCHANGED <<now, call>>

\* The refusals of beforeRequest: ErrCircuitOpen and ErrTooManyRequests.
Refuses(b) ==
    \/ b.state = "open"
    \/ b.state = "half-open" /\ b.counts.requests >= MaxRequests

\* beforeRequest; a refused call leaves the breaker as currentState made it.
BeforeRequest(c) ==
    LET b == CurrentState(cb) IN
    /\ ~InFlight(c)
    /\ ~Refuses(b)
    /\ Record(OnRequest(b), 0)
    /\ call' = [call EXCEPT ![c] = b.generation]
    /\ UNCHANGED now

Refused(c) ==
    LET b == CurrentState(cb) IN
    /\ ~InFlight(c)
    /\ Refuses(b)
    /\ Record(b, 0)
    /\ UNCHANGED <<now, call>>

\* Mutant of AfterRequest: a result is counted whatever generation it is from.
AfterRequestAnyGeneration(c, success) ==
    LET b == CurrentState(cb) IN
    /\ InFlight(c)
    /\ Record(IF success THEN OnSuccess(b) ELSE OnFailure(b),
              IF success /\ b.generation = call[c] THEN 1 ELSE 0)
    /\ call' = [call EXCEPT ![c] = NoCall]
    /\ UNCHANGED now

\* afterRequest: fn returned, or panicked, which counts as a failure.  The
\* result of a call that began in another generation is dropped.
AfterRequest(c, success) ==
    LET b == CurrentState(cb) IN
    /\ InFlight(c)
    /\ IF b.generation # call[c] THEN Record(b, 0)
       ELSE IF success THEN Record(OnSuccess(b), 1)
       ELSE Record(OnFailure(b), 0)
    /\ call' = [call EXCEPT ![c] = NoCall]
    /\ UNCHANGED now

Next ==
    \/ Tick
    \/ Observe
    \/ \E c \in Callers : BeforeRequest(c) \/ Refused(c)
    \/ \E c \in Callers, success \in BOOLEAN : AfterRequest(c, success)

\* Callers keep calling, and every fn returns.
Fairness ==
    \A c \in Callers :
        /\ WF_vars(BeforeRequest(c))
        /\ WF_vars(\E success \in BOOLEAN : AfterRequest(c, success))

Spec == Init /\ [][Next]_vars
FairSpec == Spec /\ Fairness

-----------------------------------------------------------------------------
(* Properties                                                              *)

\* In half-open at most MaxRequests trial calls are in flight, and the permits
\* add up: a permit is held by a call in flight or was turned into a success.
\* (A lost permit would leave the breaker half-open for ever.)
HalfOpenPermits ==
    cb.state = "half-open" =>
        /\ Cardinality(Current) + cb.counts.consecSucc = cb.counts.requests
        /\ cb.counts.requests <= MaxRequests

\* The breaker closes only on MaxRequests successes of calls that began in the
\* half-open state it leaves; results of slow calls from before do not count.
ClosesOnProbes ==
    [][cb.state = "half-open" /\ cb'.state = "closed" => probes + 1 >= MaxRequests]_vars

\* From the moment it last opened, the breaker lets no call through until more
\* than Timeout has passed, whatever has moved it on since: a call, the result of
\* a slow one, or a look at State().  (Generation 1 is the one before it opened.)
OpenLasts ==
    [][\A c \in Callers :
          ~InFlight(c) /\ InFlight(c)' /\ cb'.generation > 1 => now > tripped + Timeout]_vars

\* The half-open state does not last: as long as callers call and calls
\* return, it is decided one way or the other.
HalfOpenResolves == cb.state = "half-open" ~> cb.state # "half-open"
=============================================================================
