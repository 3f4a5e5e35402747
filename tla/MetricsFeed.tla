----------------------------- MODULE MetricsFeed -----------------------------
(***************************************************************************)
(* What an edge knows of its backends: the metrics table of                *)
(* pkg/registry/store.go, which gossip writes, the maintenance goroutine   *)
(* of pkg/gossip prunes and pkg/proxy reads.                               *)
(*                                                                         *)
(* A report is what pkg/agent's collector makes of its probes.  The table  *)
(* does not compare the time of a report with the one it replaces, so that *)
(* late, repeated and reordered messages are all just reports; a lost one  *)
(* is a step that is not taken.  Time is counted from the events it is     *)
(* compared with: the age of a report is time.Since(receivedAt).           *)
(***************************************************************************)
EXTENDS Naturals, FiniteSets, FiniteSetsExt

CONSTANTS
    Backends,
    Probes,         \* Probes[b]: what the probes of b's agent can find
    MetricsTTL,     \* Store.metricsTTL
    PruneInterval   \* Service.pruneInterval

ASSUME FeedAssumption ==
    /\ Probes \in [Backends -> SUBSET [statusOK : BOOLEAN, height : Nat,
                                       catchingUp : BOOLEAN, extrasOK : BOOLEAN]]
    /\ MetricsTTL \in Nat \ {0}        \* NewStore and startMaintenance replace
    /\ PruneInterval \in Nat \ {0}     \* others by their defaults

VARIABLES
    metrics,        \* Store.metrics.items
    sincePrune      \* time since the ticker of startMaintenance last fired

feedVars == <<metrics, sincePrune>>

-----------------------------------------------------------------------------
Reports == [height : Nat, catchingUp : BOOLEAN, health : {"ok", "degraded", "down"}]
Metrics == [report : Reports, age : Nat]

EmptyMap == [x \in {} |-> x]

\* Collector.Collect: a failed status probe (no answer, no height, not JSON)
\* leaves height and catchingUp zero; a failed LCD or Prometheus probe and
\* catching up degrade.
Collect(p) ==
    IF ~p.statusOK
    THEN [height |-> 0, catchingUp |-> FALSE, health |-> "down"]
    ELSE [height |-> p.height, catchingUp |-> p.catchingUp,
          health |-> IF p.extrasOK /\ ~p.catchingUp THEN "ok" ELSE "degraded"]

FeedTypeOK ==
    /\ DOMAIN metrics \subseteq Backends
    /\ metrics \in [DOMAIN metrics -> Metrics]
    /\ sincePrune \in 0..PruneInterval

FeedInit ==
    /\ metrics = EmptyMap
    /\ sincePrune = 0

-----------------------------------------------------------------------------
\* A report of b arrives: whatever it says replaces what is there.
ApplyBackendMetrics(b, report) ==
    /\ metrics' = [x \in DOMAIN metrics \cup {b} |->
                      IF x = b THEN [report |-> report, age |-> 0] ELSE metrics[x]]
    /\ UNCHANGED sincePrune

\* collectAndPublish at the agent of b, and the message gets here.
Report(b) == \E p \in Probes[b] : ApplyBackendMetrics(b, Collect(p))

\* Mutant of Expired: an entry outlives the TTL by a tick.
ExpiredLate(m) == m.age > MetricsTTL + 1

Expired(m) == m.age > MetricsTTL

\* The ticker fires: Prune.
Prune ==
    /\ sincePrune = PruneInterval
    /\ sincePrune' = 0
    /\ metrics' = [b \in {x \in DOMAIN metrics : ~Expired(metrics[x])} |-> metrics[b]]

\* Time passes; the ticker does not skip a beat.
Tick ==
    /\ sincePrune < PruneInterval
    /\ sincePrune' = sincePrune + 1
    /\ metrics' = [b \in DOMAIN metrics |-> [metrics[b] EXCEPT !.age = @ + 1]]

FeedNext == Tick \/ Prune \/ \E b \in Backends : Report(b)

-----------------------------------------------------------------------------
\* A backend whose reports stop is out of the table, and so out of the
\* candidates, when a TTL and the interval between two prunes have passed:
\* LatestMetrics itself never looks at the age of what it returns.
SilentBackendsLeave ==
    \A b \in DOMAIN metrics : metrics[b].age <= MetricsTTL + PruneInterval
=============================================================================
