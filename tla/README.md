# p2p-gossip-lb in TLA+

A specification of the mesh load balancer kept beside its source: TLA+ modules
for its components, TLC runs that check them on small instances, and proofs
that TLAPS checks for every value of their parameters. `PROJECT.json` maps each
definition to the lines it models and lists runs, mutants, findings, hazards
and theorems. The modules are translated from `src/`; the documentation is
quoted only where it disagrees with the code.

## 1. The system

Edges (`meshproxy`), DNS servers (`meshdns`), backend agents (`meshagent`) and
seeds (`meshd`) form a libp2p mesh. Agents describe their backend and publish
its metrics; edges advertise themselves; edges route client requests to
backends, DNS servers answer with edges. Everything a process knows of the
others is in its registry, which is replicated by gossip and anti-entropy.

| component | state | operations | what is hard | what makes it correct |
|---|---|---|---|---|
| CRDT containers `pkg/crdt` | map of values with clocks; map of counters | Upsert, Merge, Delete, Cleanup, Bump | ties, tombstones, clocks that restart | the newest record wins, everywhere the same one |
| Registry store `pkg/registry` | two LWW maps, two version vectors, a metrics cache with a TTL | Apply*, Merge*Delta, snapshots, Prune | map and vector have separate locks; nothing is persisted | entries are published records; no going back; replicas agree |
| Gossip service `pkg/gossip` | host, topics, streams | Publish*, validators, consume, sync rounds, Shutdown | loss, reordering, relaying, torn snapshots, crashes | neighbours get messages, exchanges repair what is lost |
| Edge advertiser, agent `cmd/meshproxy`, `pkg/agent` | sequence number, metadata | publish every 30 s, metrics loop | restarts with fresh counters | an owner's latest record wins |
| Circuit breaker `pkg/circuitbreaker` | state, generation, counters, expiry | Call, State | calls that outlive a state, wrap-around | permits are neither lost nor invented; half-open is decided |
| Response cache `pkg/cache` | LRU, byte account | Store, Lookup, Delete, Purge | check-then-delete, a second eviction path | stored bytes within the budget, account exact |
| Proxy `pkg/proxy` | cache, rate limiter, candidates | ServeHTTP, retries, websocket relay | retry of a request that was done, upgrade then failover | at most two attempts, never the same backend twice |
| Rate limiters `pkg/proxy/rate_limiter.go`, `pkg/dnsplugin/plugin.go` | bucket per client, time of the last cleanup | Allow, cleanup | a dropped bucket comes back full | dropping buckets is invisible; the table is swept |
| Selector `pkg/selector` | none | Pick | stale heights, floating point | only healthy, capable, high enough backends |
| DNS plugin `pkg/dnsplugin` | zone serial, request limiter | ServeDNS, EdgeRecords, ZoneSerial | serial updated without a lock, a comparison that is no order, map iteration, cut before filter | serials grow; nearby edges, the same for the same query |
| Geo lookup `pkg/geo` | database, cache | Lookup, scores | unknown places | decides the order of edges |
| Health checker `pkg/health` | last result, stop channel | Start, Stop, loop | stopping twice | at most one loop |
| Collector, ECS, PKI, TLS, auth, metrics, tracing, config, CLI | little or none | parsing, I/O, library calls | | not modelled, see section 8 |

How they interact: `agent` and `edgeAdvertiser` call the gossip service, which
writes the local store first and then publishes; the consume goroutines, the
sync goroutine and the publisher of one process write its store concurrently;
the proxy and the DNS plugin read snapshots of the store; the proxy's request
goroutines share the cache and the rate limiter.

## 2. Modules

| module | what it is |
|---|---|
| `LWWMap` | `pkg/crdt` as operators on values, one per critical section |
| `Registry` | replication of one table: process life cycle, publishing, consuming, anti-entropy |
| `MCRegistry` | the small meshes for `Registry` |
| `SharedTable` | what the registry promises: an abstract table per process, implemented by `Registry` |
| `RegistryProofs` | theorems about `Registry`, that refinement among them |
| `Gossip` | what gossipsub and `verifyEnvelope` together do with an envelope |
| `MCGossip`, `GossipProofs` | its overlays and its theorems |
| `CircuitBreaker`, `CircuitBreakerProofs` | one breaker and its concurrent callers |
| `ResponseCache`, `ResponseCacheProofs` | the cache and the requests that use it |
| `MetricsFeed` | the metrics table of an edge: reports, TTL, prune |
| `Proxy` | the request path of an edge, over `MetricsFeed` |
| `MCProxy`, `ProxyProofs` | its small mesh and its theorems |
| `TokenBucket` | what a rate limiter promises: buckets that are never dropped |
| `RateLimiter`, `RateLimiterProofs` | the two limiters, and that they implement `TokenBucket` |
| `EdgeSelection` | which edges a DNS answer names, and in which order: a pure function |
| `DNSServer` | the queries, the registry under them and the zone serial, over `EdgeSelection` |
| `MCDNS`, `DNSServerProofs` | its small instance, and the theorems about it and `EdgeSelection` |
| `FoldLemmas` | induction over the naturals, and folds over sequences as iterations, for the proofs |

### Registry

The model follows one table, chosen by `Table`: `"nodes"` (adverts) or `"meta"`
(backend metadata). The two differ in who counts and who stamps: an advert
takes the next number of a counter that starts at 0 with the process and the
second it is published in; metadata keep clock 1 and the second the agent was
started in. The value of a record is abstracted to the run of the owner that
made it, since what the mesh reads of a record is that run's configuration.

| variable | code |
|---|---|
| `items[r]`, `vv[r]` | `Store.nodes`/`backends` and `nodeVV`/`backendVV` |
| `seq[r]` | `edgeAdvertiser.sequence`, the constant clock of an agent |
| `outbox[r]` | the record between the local Apply and `Service.Publish` |
| `inbox[r]` | validated envelopes of `r`'s subscription, `r`'s own included |
| `bumps[r][g]` | `VersionVector.Bump` calls that goroutine `g` still has to make |
| `sync[r]` | where `syncWithPeer` is, and the response it holds |
| `conn` | open connections |
| `up`, `epoch`, `started`, `stopped`, `now` | the process, and wall-clock seconds |
| `minted` | history: every record ever published |

A mutex section is a step. So `ApplyNodeAdvert` is an Upsert and, later, a Bump;
`NodeSnapshot` is a copy of the map and, later, of the vector; a merge is one
step and each Bump after it another. A crash loses everything: the code opens a
database and never uses it. Connections are made at start only.

`SharedTable` leaves all of this out: a growing set of published records, a
table per process into which one process at a time takes published records that
are not older than what it has, and a process that forgets. `Registry` implements
it (`ActsAsSharedTable`) with its own `items` and `minted`, everything else hidden.
So no torn snapshot, late Bump or exchange cut off in the middle has an effect
on the tables that these three operations could not have had.

### Gossip

`verifyEnvelope` demands that the key in an envelope belongs to the peer it was
*received from*. In gossipsub that is the forwarder. The module combines this
test with what the library does (mark as seen, validate, deliver, forward), and
the result is a one-hop broadcast, which the run `GossipPropagation` and the
theorem `GossipIsOneHop` show. `Registry` therefore sends to neighbours only.

### CircuitBreaker

Each method under the mutex is a function from the fields to the fields;
`BeforeRequest` and `AfterRequest` are the two critical sections of `Call`.
Generations start at 1 so that 0 can mean "no call". `Modulus` stands for 2^32.
The default `ReadyToTrip` is modelled with its sample size as `MinSample`; its
floating-point quotient is exact at the threshold, so it is written with
integers. `probes` and `tripped` are history. No package of the repository
imports `pkg/circuitbreaker`, so what calls it and with which functions is open.

### ResponseCache

Two clients run the proxy's sequence: look up, on a miss fetch, build the entry,
store it. `Lookup` gives up the lock before it deletes an expired entry. The
eviction loop of `Store` is the smallest number of oldest entries to drop;
the entry just stored is the newest, so the loop's early exit and an empty cache
coincide. `displaced` is history: what the LRU evicted on its own.

### MetricsFeed and Proxy

`MetricsFeed` is the unreplicated part of the store. Gossip writes it, the
ticker of `startMaintenance` prunes it and nothing else removes anything. Since
the table takes whatever arrives, delayed and reordered messages need no channel
of their own: they are reports. Ages replace absolute times, which makes the
state space finite without a horizon.

`Proxy` extends it with the requests. `call[c]` is the stack frame of the
handler that serves client `c`: where it is (`pc`), the request, what
`filterCandidates` left of the pool, attempts, tried backends, the current
target and whether the connection was hijacked. `contacted` and `answers` are
history. A handler's step is a function on this record (`Failed`, `Answered`,
`Finished`...), which is also how the proofs are organised.

| step | code |
|---|---|
| `ServeHTTP` | chain, permission and rate limit |
| `BuildCandidates` | `buildCandidates`; an empty pool is a 503 |
| `Lookup`, `ReadRequestBody` | `handleHTTP` before its loop |
| `Pick`, `GiveUp` | the loop of both handlers |
| `ForwardFails`, `WriteUpstreamResponse`, `StoreResponse` | one attempt, what the client sees, and then what the cache gets |
| `Accept`, `Dial`, `DialFails`, `RelayEnds` | `proxyWebsocket` |
| `Evict` | anything `ResponseCache` does to lose an entry |

A path is one of five, one for each way in which `capabilityForRequest` and
`shouldNegativeCache` tell paths apart. A contact is one `RoundTrip` of the
handler or one dial. Below it net/http may send a request that can be replayed
once more, to the same backend, when a connection it kept open breaks; that is
not modelled.

External: `websocket.Accept` answers a request that is no upgrade itself, and
fails on a connection that was hijacked, as net/http's `Hijack` does.

### RateLimiter

`kind` says which limiter it is. Both hold their mutex for all of `Allow`, so
`Allow` is a step. The proxy's cleans up after use, when it has more than 2048
clients; the DNS server's before use, when a cleanup period has passed. Both drop
the clients not seen for a window. Time is counted in what a bucket regains;
`idle` and `sinceCleanup` are ages, which stop where they no longer matter. The
buckets are golang.org/x/time/rate's, which is external. The refinement mapping
gives a client without an entry a full bucket. The DNS server's limiter reads the
time just before it takes the lock, so that queries that wait for the lock may
apply times slightly out of order; the model reads it under the lock.

### EdgeSelection and DNSServer

`EdgeRecords` depends on the table, the query and the order in which Go walks the
table, a map; `EdgeSelection` makes that order a parameter and `ServeService`
chooses it. Scores are numbers given as a constant, on a scale on which the
code's tolerance of 0.01 is `Tolerance`; hashes likewise. `Sort` is the insertion
sort that `sort.Slice` uses for up to 12 elements. With a comparison that is no
order the algorithm matters, so for more edges the model does not speak. The loops
of `EdgeRecords` and of the filters are folds (`CollectEdges`, `CollectNode`,
`FilterByType`), one step of the fold for one round of the loop.

| variable | code |
|---|---|
| `adverts`, `sum` | the store's adverts, and the sum `ZoneSerial` makes of its version vector |
| `serialCache` | the atomic `RegistryZoneView.serialCache` |
| `handler[h]` | an SOA query between `ServeDNS` and the message it writes |
| `written` | the message the last step wrote |
| `answered`, `raced` | history |

A query for addresses reads one snapshot and is a step. An SOA query reads the
vector, then perhaps the clock, loads the cached serial and stores the new one:
each is a step, because nothing is locked. The sum is taken modulo 2^32 - 1 as in
the code. Refusals come from the limiter that `RateLimiter` models; here any
query may be refused or fail.

## 3. Runs

| run | instance | result |
|---|---|---|
| `RegistryMeta` | agent and seed, each may crash once, restart at once, warm-up of 1, 3 seconds, one lost connection or failed exchange | passes: `TypeOK`, `StoreIsWitnessed`, `ClockIdentifiesValue`, `OwnerSeesItself`, `ActsAsSharedTable`, `ClocksNeverRegress`, `LastWriterWins` |
| `RegistryConverge` | star of three, one leaf may crash and restart | passes: `Convergence`, `VectorCatchesUp` |
| `RegistryNodesStale` | edge and seed, the edge may crash once, 2 adverts per run, 2 seconds | violates `LastWriterWins` |
| `Gossip` | four processes with a triangle, three publishers | passes: `TypeOK`, `NeighboursApply` |
| `GossipPropagation` | agent, edge and DNS server around a seed, the agent publishes 3 times | violates `Propagates` |
| `CircuitBreaker` | three callers, two trial calls, counters modulo 4, 6 ticks | passes: `TypeOK`, `HalfOpenPermits`, `ClosesOnProbes`, `OpenLasts`, `HalfOpenResolves` |
| `ResponseCache` | two clients, three keys, two places, sizes 1, 2 and 4, budget 3 | passes: `TypeOK`, `ByteBudget`, `ByteSizeExplained` |
| `Proxy` | one client, two backends of one chain and one of another, six kinds of request, TTL and prune interval of 1 | passes: `TypeOK`, `SilentBackendsLeave`, `EachBackendOnce`, `HttpFailsOver`, `AnswersAreOfTheChain`, `AnsweredOnce`, `RequestsEnd` |
| `ProxyWebsocket` | the same | violates `WebsocketFailsOver` |
| `ProxyHeader` | the same, the chain in a header | violates `HeaderNamesTheChain` |
| `RateLimiter` | both limiters, three clients, a table of two, two requests to a bucket, a window of 4 ticks, cleanups every 2 | passes: `TypeOK`, `ForgettingIsInvisible`, `TableIsSwept` |
| `DNSServer` | three edges with an address of each type and a shared one, two kinds of clients and one without a subnet, two concurrent SOA queries, serials up to 3, 2 seconds | passes: `TypeOK`, `NearlyClosest`, `AnswerIsDetermined`, `OnlyRacesRepeatSerials`, `OtherTypeOnlyIfCut` |

Why the bounds are enough to be interesting:

* Two runs of an owner are the least in which a record of the past can meet one
  of the present. `MaxSeq` = 2 lets the old run count further than the new one.
  Crashes of the other side make the store that remembers forget.
* Three processes are the least in which a record needs two exchanges.
* A triangle is the least overlay in which a relayed copy can overtake.
* Three callers with two permits: one call too many, and one left over from an
  earlier generation. Modulo 4 the counters of the closed state wrap after four
  calls. Six ticks are enough to open and half-open twice.
* Two backends of a chain are the least with a failover, and a third one would be
  the one that must not be contacted; the proof of `EachBackendOnce` covers it.
  One client makes requests of both chains one after the other, so that entries
  of one request meet another; handlers share only the tables, and the proofs
  are for any number of clients. One backend falls behind and goes down, one
  catches up, and all may go silent.
* Three keys and two places make the LRU evict; size 4 exceeds the whole budget;
  time passes the TTL of 1 while a client is between lookup and delete.
* A third client makes the proxy's limiter exceed its table of two. A request
  costs two units, so that requests also fall between whole tokens. The window
  of 4 just refills an empty bucket; with half of it `ForgettingIsInvisible` fails.
* To the western client the edges score 1, 3 and 5 with a tolerance of 2: the
  first is similar to the second and the second to the third, but the first not
  to the third, and the hashes go against the distances. Answers have two places,
  so that the third edge is cut. The bound of `NearlyClosest` is reached (5 in
  the first place, 1 left out) and can be exceeded: 5 in the second place with 1
  left out would, and so would 12, where the second edge may also be, in either.
  One address is no address, one edge is found by its country only, one client
  is nowhere.
* Sums and serials up to 3 let the sum wrap and the numbers end. Two handlers are
  the least that race. The run of `DNSServer` uses three reductions: a `VIEW`
  without `written`, which no step reads (the properties about it are action
  properties, checked on every step taken from every state that differs in what
  is read, and `TypeOK` sees `written` only as each such state is first reached);
  a `CONSTRAINT` that stops after a race, since the only property about
  serials says nothing from then on, and nothing else depends on them; and
  symmetry of the handlers, which only differ by name.

Deadlock is checked for the breaker, the cache, the proxy and the rate limiter.
In `Registry` and `Gossip` the bounded clock, sequence and message counts let a
behaviour end, so there it is not; in `DNSServer` it would say nothing, since a
query may always come.

### Fairness

* `Registry!FairSpec`: the ticker of `startAntiEntropy` keeps starting rounds, a
  round that has begun goes on (each of its calls has a deadline), and a Bump is
  the statement after an Upsert. Nothing is assumed of crashes, restarts, time,
  publishing or gossip: any message may be lost.
* `Gossip!FairSpec`: publishers publish, nothing is lost and everything is read.
  For `Propagates` this is the best case there is, and it fails.
* `CircuitBreaker!FairSpec`: every function given to `Call` returns, and callers
  keep calling. The breaker cannot do without: half-open has no expiry.
* `Proxy!FairSpec`: the steps of a handler that have a deadline or wait for nobody
  (`Prompt`): the server's `ReadTimeout` ends the reading of a body
  (`cmd/meshproxy/main.go:91`) and a dial has 10 seconds. Nothing is assumed of the
  answer to a forwarded request, for the transport sets no deadline
  (`pkg/proxy/helpers.go:22`) and a patient client waits as long as its backend;
  `RequestsEnd` therefore lets a request wait there for ever, and nowhere else.
  Websockets may stay open for ever, and reports, time and evictions are not
  needed.

The limiters and the DNS server have no liveness property: they only answer.

## 4. What the violations show

1. `RegistryNodesStale`: after a restart an edge's old advert beats its new one
   until the new run has counted further (`cmd/meshproxy/main.go:273`).
2. `GossipPropagation`: `verifyEnvelope` (`pkg/gossip/service.go:655`) rejects every
   copy that was relayed, so nothing an agent publishes is applied beyond its
   neighbours, against `pkg/agent/agent.go:218` ("to ensure propagation through
   mesh") and `pkg/gossip/service.go:321` ("broadcasts latest backend metrics").
   Tables still spread by anti-entropy; metrics, which have none, do not.
3. `ProxyWebsocket`: the client's connection is accepted before the backend is
   dialled, and cannot be accepted again for the second backend.
4. `ProxyHeader`: the cache key has the host but not the chain, so where the
   chain is in a header one chain's answer is served to another's client.

Also visible in the models, without a run:

* What the LRU evicts on its own stays in the byte account
  (`pkg/cache/cache.go:83`): `ByteSizeExplained`, checked and proved, says that the
  account is what is stored and, besides, all that was displaced since the last
  Purge. When that exceeds the budget every `Store` empties the cache, though
  `cache.go:71` says "when budget is exceeded".
* 404s are cached under a key that nobody looks up (`StoredUnder`, `Lookup`), against
  `README.md:460` of the repository ("Cache 404s for 5 seconds"); a request to
  the ws service that is no upgrade gets an error per attempt and one more
  (`Accept`, `GiveUp`; `AnsweredOnce` has the exact bound); `clear` of the breaker
  leaves the counters on which it trips (`Clear`).
* The comparison of `EdgeRecords` is no order (`Less`, `provider.go:187`), so an
  answer may have an edge that is farther away than one left out, by up to a
  tolerance for each place between them, and may depend on the walk over the map.
  `docs/DEPLOYMENT.md:369` says "returns geographically closest edges". That is
  why `NearlyClosest` and `AnswerIsDetermined` are not stated more strongly.
* A client that the geo database does not know is treated as one at latitude and
  longitude 0 (`Located`); an edge it does not know gets 0.5 without the weight
  the others' scores are multiplied with, and so, with the default weight of 0.5,
  comes after them.
* The answers are cut to `MaxAnswers` before they are filtered by type
  (`OtherTypeOnlyIfCut`), and the chain chooses hashes, not edges.
* Two SOA queries that race get one serial, or the second a smaller one
  (`raced`); with an empty registry the serial is the time.
* A window shorter than the time to refill a bucket gives clients back tokens
  they had spent; the configuration is not checked for it (`WindowRefills`).

## 5. Proofs

No theorem bounds the number of processes, crashes, messages, callers or steps.

`RegistryProofs`
* `RegistryTypes`: `TypeOK`, which is inductive.
* `StoreWitnessed`: `StoreIsWitnessed` alone is not inductive, because what a
  store takes over was somewhere else before. `Witnessed` extends it to every
  place a record or counter passes through: outboxes, inboxes, responses under
  way, Bumps still to be made.
* `ClocksMonotonic`: `ClocksNeverRegress`, from `TypeOK` and the two operators
  that write a table, `Upsert` and `Merge`.
* `ClocksIdentifyValues`, `MetaLastWriterWins`, `MetaOwnerSeesItself`: these
  assume `RestartsAreSpaced`: a restart takes at least a second, or, for agents,
  the warm-up before the first publish does. The strengthening `RunStamps` bounds
  the stamps of each run by the times the process started and stopped; it gives
  `RunsAreOrdered`: records of a later run have later stamps. For metadata, whose
  counter is constant, later stamps win. Without the assumption two runs within
  a second make two records with one clock, and since `dominates` lets a tie win,
  replicas swap them at every exchange; for adverts, whose counter is not
  constant, `RegistryNodesStale` is the counterexample.
* `TablesJoin`: under the same assumption the tables that processes hold at one
  moment have one result when they are merged, whatever the order and however often
  (`MergeIsJoin`: idempotent, commutative, associative). `dominates` lets a tie win,
  so `Merge` is not commutative on tables at large: two entries with one clock swap.
  `Witnessed` and `ClockIdentifiesValue` rule that out for the tables there are.
* `RegistryIsSharedTable`: the refinement. `Witnessed` says that what a table takes
  is published, `OneTableAdvances` that a step of `Registry` changes one table, and
  by `Upsert` and `Merge` only towards records that are not older.

`GossipProofs`
* `GossipTypes`, `GossipIsOneHop`: on every overlay. The invariant adds that a queued
  envelope came straight from its signer, who is the receiver or a neighbour
  (`Direct`), and that no relayed copy is relayed again (`NoSecondRelay`).

`CircuitBreakerProofs`
* `BreakerTypes`, `BreakerPermits`, `BreakerClosesOnProbes`, `BreakerOpenLasts`.
  The invariant `IInv` adds to `HalfOpenPermits` that no call is from a
  generation still to come (so that a new state starts without calls), that the
  history counts what `ConsecSucc` counts, and that an open breaker expires
  `Timeout` after it opened. `BreakerOpenLasts` needs `Rested` besides: a breaker
  that is half-open, or closed again, has rested for more than `Timeout` since it
  last opened, whichever of `State`, `Call` and a late result moved it on. Assumed of the configuration: 0 < MaxRequests <
  Modulus. With MaxRequests = 0 a half-open breaker refuses everything.

`ProxyProofs`
* `ProxyTypes`, `SilentLeave`, `ContactsAreDistinct`, `RequestsFailOver`,
  `ChainsAreKeptApart`, `NoSecondAnswer`, all from one invariant `IInv`.
  `AgesFollowTheTicker` bounds ages by the TTL plus the time since the last
  prune; `CacheInv` ties an entry to the host in its key; `CallInv` is what a
  handler knows at each point: whom it contacted are those it tried or the one
  that answered (`ContactInv`), without websockets each attempt is a contact
  (`AttemptInv`), until it is done or hijacked it has answered nothing
  or, for a plain request to the ws service, once per attempt (`AnswerInv`), its candidates and answers are of its chain (`ChainInv`). There
  is a lemma for each function on the record, and one (`BecomesInv`) that lifts
  them to steps.

`RateLimiterProofs`
* `LimiterTypes` and `LimiterSweeps` for any configuration, and
  `LimiterForgetsNothing` under `WindowRefills`, which nothing in the code checks.
  `IdleRefills` is the strengthening: a bucket that is not full has at least as
  much as its client has been idle, so that what a cleanup drops is full.

`FoldLemmas`
* The library's induction theorems take an operator and cannot be cited here, so
  induction is stated for sets (`NatInduct`: a set that has 0 and with n also
  n + 1 has every natural number), from the well-foundedness of <. `FoldLeft` is
  the value of a function defined by recursion over sets of positions;
  `FoldRecursion` shows that such a function exists. With it a lemma for each fold
  (`TotalTrace`, `CollectEdgesTrace`, `SortTrace`, `FilterTrace`...) gives it as
  an iteration f[0] ... f[n], and the next lemma says by induction over the
  iteration what the loop computes.

`ResponseCacheProofs`
* `CacheTypes`, `BytesExplained`, `BytesWithinBudget`, for any clients, keys, sizes
  and limits. `TypeOK` alone is not inductive: that the account never becomes
  negative when an entry is removed needs that it covers what is stored, which is
  `ByteSizeExplained`. `IInv` has all three, the cache part as `CacheOK` of values,
  so that there is one lemma for each operation on the store. `Total` is a fold;
  `TotalConcat` is what removing and evicting come down to.

`DNSServerProofs`
* `ServerTypes`: the messages written, their records through all folds.
* `ClosestEdges`: `NearlyClosest` of every table. `Collected` says what the walk
  over the map finds: the edges of the nodes walked, each address once.
  Insertion keeps neighbours in order (`InsertPosition`, `Ordered`), and
  neighbours in order are at most a tolerance out of place, so tolerances add up
  along the places between two edges (`ScoreDistance`). The comparison being no order, this holds of insertion sort, not
  of any sort: for more than 12 edges it says nothing of `sort.Slice`.
* `DeterminedAnswers`: `AnswerIsDetermined` of every table. Under its hypotheses two
  walks collect the same set of edges, the comparison is a strict order on it, and
  there is one increasing sequence of a set. Of the sort this uses only that it
  orders the same edges, so it carries over to any sort.
* `OtherTypes`: `OtherTypeOnlyIfCut`. There are as many edges as addresses
  served, so without a cut the filters see all of them.
* `SerialsGrow`: `OnlyRacesRepeatSerials` for any number of queries. `HandlerKnows`
  is what a query may rely on between its unlocked accesses, and `SInv` adds that
  the cache holds the largest number given out until something raced, and only
  times as long as the registry is empty.
* Assumed of the constants: finitely many nodes, scores and hashes that are natural
  numbers, adverts and clients whose addresses can be looked up.

Only model-checked: liveness (`Convergence`, `VectorCatchesUp`,
`NeighboursApply`, `HalfOpenResolves`, `RequestsEnd`), since TLAPS does not handle
fairness here. Every other property of a passing run is stated by a theorem.

## 6. Mutants

Every property of a passing run has a mutant of a modelled definition, a change
a plausible bug would make, with which TLC finds the property violated. They
stand before the definition they replace and begin with "Mutant of".

## 7. Plan

Done: `LWWMap`, `Registry` and the `SharedTable` it implements, `Gossip`,
`CircuitBreaker`, `ResponseCache`, `MetricsFeed`, `Proxy`, `RateLimiter` and the
`TokenBucket` it implements, `EdgeSelection`, `DNSServer`, and the proofs above.
Next, in this order:

1. `ResponseCache` as an implementation of the cache `Proxy` assumes.
2. Tombstones in `LWWMap` (`Delete`, `Cleanup`), once something calls them, and
   `VersionVector.Compare` against its definition.

What `RegistryProofs` shows of every mesh is checked by one run only.

## 8. Not modelled

Wire formats (CBOR, protobuf framing) carry data and are assumed to deliver what
was sent. Signatures are assumed to verify exactly when made by their signer.
Scores, softmax, SipHash and geographic distance are floating point or bit
arithmetic without state; what is decided with them is modelled for given scores
and hashes. `pkg/health` is used by nothing. `LWWMap.Delete`, `Cleanup`,
`VersionVector.Compare`, `Digest` and `FilterBy` have no caller. DNS names are
label sequences: that names are lowered before they are compared with the
configured zone and chains, which are not, is left out, and so is the section of
the message that gets a record. The Prometheus scraper, MaxMind reader, ECS parser,
PKI, TLS, authentication, tracing, metrics export, configuration and the command
line are I/O and library calls. The breaker's `OnStateChange` callback, which
runs under the mutex, is not modelled: nothing installs one.
