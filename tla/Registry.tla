------------------------------ MODULE Registry ------------------------------
(***************************************************************************)
(* Replication of one table of the mesh registry: the Store of             *)
(* pkg/registry/store.go kept by every process (edge, DNS server, agent),  *)
(* fed by the gossip service of pkg/gossip/service.go over two paths:      *)
(*                                                                         *)
(*   - gossip: an owner writes its own record into its own store and sends *)
(*     it to its direct neighbours (module Gossip shows why no further);   *)
(*   - anti-entropy: every process visits its connected peers in turn and  *)
(*     merges a full snapshot of their table.                              *)
(*                                                                         *)
(* Table = "nodes" is the table of edge adverts (cmd/meshproxy publishes   *)
(* them with a per-process sequence number), Table = "meta" the table of   *)
(* backend metadata (cmd/meshagent publishes one record per process run).  *)
(*                                                                         *)
(* Each critical section of the store is a step of its own, so that other  *)
(* goroutines run between an Upsert and the Bump that follows it, between  *)
(* the two halves of a snapshot, and between a Merge and its Bumps.  The   *)
(* registry is in memory only: a crash loses it.                           *)
(***************************************************************************)
EXTENDS LWWMap, FiniteSets

CONSTANTS
    Replicas,      \* the processes that run a gossip service
    Publishers,    \* those that own a record of this table
    Table,         \* "nodes" or "meta"
    Bootstrap,     \* Bootstrap[r]: the peers r dials when it starts
    WarmUp,        \* seconds between a start and the first publish
    MinDowntime,   \* seconds the supervisor waits before a restart
    MaxTime,       \* bound: the wall clock stops here
    MaxSeq,        \* bound: adverts published by one run of a process
    MaxCrashes,    \* MaxCrashes[r], bound: crashes of r
    MaxFails       \* bound: exchanges that fail though the link is up

ASSUME RegistryAssumption ==
    /\ Publishers \subseteq Replicas
    /\ Table \in {"nodes", "meta"}
    /\ Bootstrap \in [Replicas -> SUBSET Replicas]
    /\ {WarmUp, MinDowntime, MaxTime, MaxSeq, MaxFails} \subseteq Nat
    /\ MaxCrashes \in [Replicas -> Nat]

VARIABLES
    now,       \* the wall clock, in seconds
    up,        \* up[r]: the process runs
    epoch,     \* epoch[r]: how often r was started
    started,   \* started[r]: when r was last started
    stopped,   \* stopped[r]: when r last crashed
    seq,       \* seq[r]: edgeAdvertiser.sequence, Agent.metaClock
    conn,      \* the open libp2p connections, as unordered pairs
    items,     \* items[r]: the LWW map of r's store
    vv,        \* vv[r]: the version vector of r's store
    outbox,    \* outbox[r]: the record applied locally and not yet sent
    inbox,     \* inbox[r]: envelopes delivered to r's subscription
    bumps,     \* bumps[r][g]: Bump calls goroutine g of r still has to make
    sync,      \* sync[r]: r's anti-entropy round
    fails,     \* failures used up, see MaxFails
    minted     \* history: every record ever published

process == <<up, epoch, started, stopped, seq>>
store == <<items, vv>>
vars == <<now, process, conn, store, outbox, inbox, bumps, sync, fails, minted>>

-----------------------------------------------------------------------------
\* A record and its owner.  The value is the run of its owner that made it: every field of a
\* record that the mesh acts on is configuration, constant within one run.
Record == [id : Publishers, entry : Entry]
Tables == [Publishers -> Entry]
Vectors == [Publishers -> Nat]
Goroutines == {"publish", "consume", "sync"}
BumpCall == [id : Publishers, counter : Nat]
Phases == {"idle", "round", "asked", "items", "response"}
SyncState == [phase : Phases, todo : SUBSET Replicas, peer : Replicas,
              entries : Tables, vv : Vectors]

EmptyMap == [k \in Publishers |-> NoEntry]
ZeroVector == [k \in Publishers |-> 0]
NoBumps == [g \in Goroutines |-> {}]
IdleSync(r) == [phase |-> "idle", todo |-> {}, peer |-> r,
                entries |-> EmptyMap, vv |-> ZeroVector]

\* The keys of a version vector that have a counter.
Present(v) == {k \in Publishers : v[k] > 0}

Linked(r, p) == {r, p} \in conn
Peers(r) == {p \in Replicas \ {r} : Linked(r, p)}

TypeOK ==
    /\ now \in Nat
    /\ up \in [Replicas -> BOOLEAN]
    /\ epoch \in [Replicas -> Nat]
    /\ started \in [Replicas -> Nat]
    /\ stopped \in [Replicas -> Nat]
    /\ seq \in [Replicas -> Nat]
    /\ conn \subseteq SUBSET Replicas
    /\ items \in [Replicas -> Tables]
    /\ vv \in [Replicas -> Vectors]
    /\ outbox \in [Replicas -> SUBSET Record]
    /\ inbox \in [Replicas -> SUBSET Record]
    /\ bumps \in [Replicas -> [Goroutines -> SUBSET BumpCall]]
    /\ sync \in [Replicas -> SyncState]
    /\ fails \in Nat
    /\ minted \subseteq Record

Init ==
    /\ now = 0
    /\ up = [r \in Replicas |-> FALSE]
    /\ epoch = [r \in Replicas |-> 0]
    /\ started = [r \in Replicas |-> 0]
    /\ stopped = [r \in Replicas |-> 0]
    /\ seq = [r \in Replicas |-> 0]
    /\ conn = {}
    /\ items = [r \in Replicas |-> EmptyMap]
    /\ vv = [r \in Replicas |-> ZeroVector]
    /\ outbox = [r \in Replicas |-> {}]
    /\ inbox = [r \in Replicas |-> {}]
    /\ bumps = [r \in Replicas |-> NoBumps]
    /\ sync = [r \in Replicas |-> IdleSync(r)]
    /\ fails = 0
    /\ minted = {}

-----------------------------------------------------------------------------
(* Time, process life cycle and connections                                *)

Tick ==
    /\ now < MaxTime
    /\ now' = now + 1
    /\ UNCHANGED <<process, conn, store, outbox, inbox, bumps, sync, fails, minted>>

\* connectBootstraps dials each bootstrap peer once; a peer that is down or
\* unreachable is logged, and never dialled again.
Dialled(r) == {p \in Bootstrap[r] \ {r} : up[p]}

\* NewStore and NewService: an empty store, and connections to some of the peers.
Start(r) ==
    /\ ~up[r]
    /\ epoch[r] > 0 => now >= stopped[r] + MinDowntime
    /\ up' = [up EXCEPT ![r] = TRUE]
    /\ epoch' = [epoch EXCEPT ![r] = @ + 1]
    /\ started' = [started EXCEPT ![r] = now]
    /\ \E reached \in SUBSET Dialled(r) :
          conn' = conn \cup {{r, p} : p \in reached}
    /\ UNCHANGED <<now, stopped, seq, store, outbox, inbox, bumps, sync, fails, minted>>

\* What is left of a round of r when the exchange with one peer is over: the
\* peers still to visit.
NextPeer(r, todo) == [IdleSync(r) EXCEPT !.phase = IF todo = {} THEN "idle" ELSE "round",
                                         !.todo = todo]

\* A stream that breaks before its response was received ends that exchange.
BreakStream(r, broken) ==
    IF sync[r].phase \in {"asked", "items"} /\ {r, sync[r].peer} \in broken
    THEN NextPeer(r, sync[r].todo) ELSE sync[r]

\* The process dies, or Shutdown runs: all of its state was in memory.
Crash(r) ==
    LET broken == {c \in conn : r \in c} IN
    /\ up[r]
    /\ epoch[r] <= MaxCrashes[r]
    /\ up' = [up EXCEPT ![r] = FALSE]
    /\ stopped' = [stopped EXCEPT ![r] = now]
    /\ seq' = [seq EXCEPT ![r] = 0]
    /\ conn' = conn \ broken
    /\ items' = [items EXCEPT ![r] = EmptyMap]
    /\ vv' = [vv EXCEPT ![r] = ZeroVector]
    /\ outbox' = [outbox EXCEPT ![r] = {}]
    /\ inbox' = [inbox EXCEPT ![r] = {}]
    /\ bumps' = [bumps EXCEPT ![r] = NoBumps]
    /\ sync' = [s \in Replicas |-> IF s = r THEN IdleSync(r)
                                   ELSE BreakStream(s, broken)]
    /\ UNCHANGED <<now, epoch, started, fails, minted>>

\* A connection is lost while both processes run; nothing dials again.
Disconnect(c) ==
    /\ fails < MaxFails
    /\ fails' = fails + 1
    /\ c \in conn
    /\ conn' = conn \ {c}
    /\ sync' = [s \in Replicas |-> BreakStream(s, {c})]
    /\ UNCHANGED <<now, process, store, outbox, inbox, bumps, minted>>

-----------------------------------------------------------------------------
(* The owner's path: edgeAdvertiser.publish, Agent.publishMeta             *)

\* Mutant of NextClock: the counter runs backwards.
NextClockBackwards(p) == seq[p] - 1

\* The counter of the next record: an advert takes the next sequence number
\* of this run, the metadata of an agent keeps clock 1.
NextClock(p) == IF Table = "nodes" THEN seq[p] + 1 ELSE 1

\* Mutant of Stamp: the wall clock is left at its zero value.
StampOmitted(p) == 0

\* An advert is stamped when it is published, metadata when the agent starts.
Stamp(p) == IF Table = "nodes" THEN now ELSE started[p]

NewRecord(p) ==
    [id |-> p, entry |-> [value |-> epoch[p],
                          clock |-> [lamport |-> NextClock(p), unix |-> Stamp(p)]]]

\* ApplyNodeAdvert / ApplyBackendMeta up to the Upsert, by goroutine g of r.
Apply(r, g, m) ==
    /\ items' = [items EXCEPT ![r] = Upsert(@, m.id, m.entry)]
    /\ bumps' = IF Accepts(items[r], m.id, m.entry.clock)
                THEN [bumps EXCEPT ![r][g] =
                         {[id |-> m.id, counter |-> m.entry.clock.lamport]}]
                ELSE bumps

\* PublishNodeAdvert / PublishBackendMeta: make the record, apply it locally.
Publish(p) ==
    LET m == NewRecord(p) IN
    /\ up[p]
    /\ outbox[p] = {}
    /\ now >= started[p] + WarmUp
    /\ Table = "nodes" => seq[p] < MaxSeq
    /\ seq' = [seq EXCEPT ![p] = NextClock(p)]
    /\ Apply(p, "publish", m)
    /\ outbox' = [outbox EXCEPT ![p] = {m}]
    /\ minted' = minted \cup {m}
    /\ UNCHANGED <<now, up, epoch, started, stopped, conn, vv, inbox, sync, fails>>

\* Service.Publish, after the Bump: the envelope goes to the subscriptions of
\* the neighbours, and to the publisher's own.
Send(p) ==
    /\ outbox[p] # {}
    /\ bumps[p]["publish"] = {}
    /\ inbox' = [r \in Replicas |->
                    IF r = p \/ Linked(r, p) THEN inbox[r] \cup outbox[p] ELSE inbox[r]]
    /\ outbox' = [outbox EXCEPT ![p] = {}]
    /\ UNCHANGED <<now, process, conn, store, bumps, sync, fails, minted>>

-----------------------------------------------------------------------------
(* The receiver's path: consume and handlePayload                          *)

\* Envelopes are validated concurrently, so they arrive in any order.  One that
\* the network or a full subscription buffer loses is never consumed.
Consume(r) ==
    /\ bumps[r]["consume"] = {}
    /\ \E m \in inbox[r] :
          /\ inbox' = [inbox EXCEPT ![r] = @ \ {m}]
          /\ Apply(r, "consume", m)
    /\ UNCHANGED <<now, process, conn, vv, outbox, sync, fails, minted>>

\* One VersionVector.Bump: after an Upsert, or one turn of the loop over the
\* peer's vector in MergeNodeDelta / MergeBackendDelta.
Bump(r, g) ==
    /\ \E b \in bumps[r][g] :
          /\ vv' = [vv EXCEPT ![r] = Raise(@, b.id, b.counter)]
          /\ bumps' = [bumps EXCEPT ![r][g] = @ \ {b}]
    /\ UNCHANGED <<now, process, conn, items, outbox, inbox, sync, fails, minted>>

-----------------------------------------------------------------------------
(* Anti-entropy: runSyncRound, syncWithPeer, handleSyncStream              *)

RoundStart(r) ==
    /\ up[r]
    /\ sync[r].phase = "idle"
    /\ bumps[r]["sync"] = {}
    /\ Peers(r) # {}
    /\ sync' = [sync EXCEPT ![r].phase = "round", ![r].todo = Peers(r)]
    /\ UNCHANGED <<now, process, conn, store, outbox, inbox, bumps, fails, minted>>

\* Open a stream to the next peer and send the request, whose vectors the
\* responder decodes and does not look at.  No stream, no exchange.
SyncAsk(r) ==
    /\ sync[r].phase = "round"
    /\ bumps[r]["sync"] = {}
    /\ \E p \in sync[r].todo :
          IF Linked(r, p)
          THEN sync' = [sync EXCEPT ![r].phase = "asked", ![r].peer = p,
                                    ![r].todo = @ \ {p}]
          ELSE sync' = [sync EXCEPT ![r] = NextPeer(r, sync[r].todo \ {p})]
    /\ UNCHANGED <<now, process, conn, store, outbox, inbox, bumps, fails, minted>>

\* Mutant of RespondItems: only what the peer published itself.
RespondOwn(r) ==
    /\ sync[r].phase = "asked"
    /\ sync' = [sync EXCEPT ![r].phase = "items", ![r].entries =
                  [k \in Publishers |->
                     IF k = sync[r].peer THEN items[k][k] ELSE NoEntry]]
    /\ UNCHANGED <<now, process, conn, store, outbox, inbox, bumps, fails, minted>>

\* NodeSnapshot / BackendSnapshot, first half: the map, all of it.
RespondItems(r) ==
    /\ sync[r].phase = "asked"
    /\ sync' = [sync EXCEPT ![r].phase = "items", ![r].entries = items[sync[r].peer]]
    /\ UNCHANGED <<now, process, conn, store, outbox, inbox, bumps, fails, minted>>

\* Second half, under another lock: the version vector.
RespondVector(r) ==
    /\ sync[r].phase = "items"
    /\ sync' = [sync EXCEPT ![r].phase = "response", ![r].vv = vv[sync[r].peer]]
    /\ UNCHANGED <<now, process, conn, store, outbox, inbox, bumps, fails, minted>>

\* MergeNodeDelta / MergeBackendDelta: the peer's counters are bumped, one by
\* one and after the merge, if Merge assigned anything.
MergeDelta(r, entries, v) ==
    /\ items' = [items EXCEPT ![r] = Merge(@, entries)]
    /\ bumps' = IF MergeReturns(items[r], entries)
                THEN [bumps EXCEPT ![r]["sync"] =
                        {[id |-> k, counter |-> v[k]] : k \in Present(v)}]
                ELSE bumps

\* mergeSyncResponse; merging an empty table, which the code skips, changes
\* nothing.
SyncMerge(r) ==
    /\ sync[r].phase = "response"
    /\ MergeDelta(r, sync[r].entries, sync[r].vv)
    /\ sync' = [sync EXCEPT ![r] = NextPeer(r, sync[r].todo)]
    /\ UNCHANGED <<now, process, conn, vv, outbox, inbox, fails, minted>>

\* A timeout, a reset or a failed decode: the next peer is visited.
SyncFail(r) ==
    /\ sync[r].phase \in {"asked", "items", "response"}
    /\ fails < MaxFails
    /\ fails' = fails + 1
    /\ sync' = [sync EXCEPT ![r] = NextPeer(r, sync[r].todo)]
    /\ UNCHANGED <<now, process, conn, store, outbox, inbox, bumps, minted>>

-----------------------------------------------------------------------------
SyncStep(r) == SyncAsk(r) \/ RespondItems(r) \/ RespondVector(r) \/ SyncMerge(r)

Next ==
    \/ Tick
    \/ \E r \in Replicas : Start(r) \/ Crash(r)
    \/ \E c \in conn : Disconnect(c)
    \/ \E p \in Publishers : Publish(p) \/ Send(p)
    \/ \E r \in Replicas : Consume(r)
    \/ \E r \in Replicas, g \in Goroutines : Bump(r, g)
    \/ \E r \in Replicas : RoundStart(r) \/ SyncStep(r) \/ SyncFail(r)

Spec == Init /\ [][Next]_vars

\* The goroutines keep running: the ticker starts rounds, a round ends, and a
\* Bump is the statement after the Upsert.
Fairness ==
    \A r \in Replicas :
        /\ WF_vars(RoundStart(r))
        /\ WF_vars(SyncStep(r))
        /\ \A g \in Goroutines : WF_vars(Bump(r, g))

FairSpec == Spec /\ Fairness

-----------------------------------------------------------------------------
(* Properties                                                              *)

\* Every entry of every store, whatever crashes, torn snapshots and late
\* messages it came through, is a record its owner published, with that value
\* under that clock; and every counter of a version vector is the clock of a
\* published record (Upsert, Merge, Bump and the wire never mix two records).
StoreIsWitnessed ==
    \A r \in Replicas :
        /\ \A k \in Keys(items[r]) : [id |-> k, entry |-> items[r][k]] \in minted
        /\ \A k \in Present(vv[r]) :
              \E m \in minted : m.id = k /\ m.entry.clock.lamport = vv[r][k]

Shared == INSTANCE SharedTable

\* Behind gossip, torn snapshots, merges, lost messages and crashes there is
\* one set of published records: a step changes the table of one process only,
\* and each entry of it only to a record of its owner that is not older.
ActsAsSharedTable == Shared!Spec

\* Two records of one owner with the same clock come from the same run of the
\* owner.  dominates lets a tie win, so without this two replicas would swap
\* two different records back and forth for ever.
ClockIdentifiesValue ==
    \A m, n \in minted :
        m.id = n.id /\ m.entry.clock = n.entry.clock => m.entry.value = n.entry.value

\* While a process runs, no entry of its store disappears or is replaced by
\* one with a smaller clock, neither by a late gossip message nor by the stale
\* snapshot of a peer.
ClocksNeverRegress ==
    [][\A r \in Replicas : up'[r] =>
          \A k \in Keys(items[r]) :
              /\ k \in Keys(items'[r])
              /\ Dominates(items'[r][k].clock, items[r][k].clock)]_vars

\* Last writer wins: once a store has the record of some run of an owner, it
\* never goes back to the record of an earlier run.
LastWriterWins ==
    [][\A r \in Replicas : up'[r] =>
          \A k \in Publishers : items'[r][k].value >= items[r][k].value]_vars

\* An owner that published in its current run sees that record in its own
\* store: what its peers remember of an earlier run does not come back to
\* replace it.
OwnerSeesItself ==
    \A p \in Publishers :
        seq[p] > 0 => items[p][p].value = epoch[p]

\* Two processes that stay connected end up with the same table, though every
\* gossip message may be lost and snapshots are taken while writers are active.
Convergence ==
    \A r, p \in Replicas :
        <>[](r # p /\ Linked(r, p)) => <>[](items[r] = items[p])

\* A version vector may lag behind its table (the peer's snapshot was taken
\* between an Upsert and its Bump), but not for ever in a mesh that stays
\* connected and where nothing crashes: the next exchange repairs it, because
\* Merge reports an entry with an equal clock as a change.
VectorCatchesUp ==
    [](\A r \in Replicas : epoch[r] <= 1)
        /\ <>[](\A r \in Replicas, p \in Replicas : p \in Bootstrap[r] => Linked(r, p))
    => \A r \in Replicas :
          <>[](\A k \in Publishers : vv[r][k] >= items[r][k].clock.lamport)
=============================================================================
