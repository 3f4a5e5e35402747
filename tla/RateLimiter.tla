---------------------------- MODULE RateLimiter ----------------------------
(***************************************************************************)
(* The two rate limiters: clientRateLimiter of pkg/proxy and               *)
(* requestLimiter of pkg/dnsplugin.  Both keep a bucket per client address *)
(* and drop the buckets of clients not seen for a window; they differ in   *)
(* when they do so.  Each Allow holds the mutex from start to end.         *)
(*                                                                         *)
(* Time is counted in the time it takes to refill one unit of a bucket; a  *)
(* request costs Cost units, so that requests also come between the times  *)
(* at which a whole token is added.  The buckets are those of              *)
(* golang.org/x/time/rate, which refills on use what has dripped since.    *)
(***************************************************************************)
EXTENDS Naturals, FiniteSets

CONSTANTS
    Clients,        \* addresses
    None,           \* no address
    Full,           \* burst, in units
    Cost,           \* units per request
    Window,         \* window, ttl: buckets not used for longer may be dropped
    CleanupPeriod,  \* requestLimiter.cleanupPeriod
    MaxClients      \* 2048: clientRateLimiter drops buckets when it has more

ASSUME LimiterAssumption ==
    /\ None \notin Clients
    /\ Cost \in Nat \ {0}
    /\ Full \in Nat /\ Full >= Cost      \* New and NewHandler replace a burst of 0
    /\ Window \in Nat
    /\ CleanupPeriod \in Nat \ {0}
    /\ MaxClients \in Nat

VARIABLES
    kind,           \* which of the two limiters this is
    entries,        \* clients, entries: the bucket and the time since lastSeen
    sinceCleanup,   \* time since lastCleanup
    verdict         \* who asked last and what the answer was

vars == <<kind, entries, sinceCleanup, verdict>>

-----------------------------------------------------------------------------
\* Times after which nothing changes any more.
MaxIdle == Window + CleanupPeriod + 1

Entry == [tokens : 0..Full, idle : 0..MaxIdle]

TypeOK ==
    /\ kind \in {"proxy", "dns"}
    /\ DOMAIN entries \subseteq Clients
    /\ entries \in [DOMAIN entries -> Entry]
    /\ sinceCleanup \in 0..CleanupPeriod
    /\ verdict \in [client : Clients \cup {None}, allowed : BOOLEAN]

\* newClientRateLimiter, newRequestLimiter.  The zero time of lastCleanup is
\* long ago.
Init ==
    /\ kind \in {"proxy", "dns"}
    /\ entries = [c \in {} |-> c]
    /\ sinceCleanup = CleanupPeriod
    /\ verdict = [client |-> None, allowed |-> TRUE]

-----------------------------------------------------------------------------
\* rate.NewLimiter
NewLimiter == [tokens |-> Full, idle |-> 0]

\* lastSeen.Before(threshold)
Expired(e) == e.idle > Window

\* cleanup, and the loop in requestLimiter.Allow.
Cleanup(table) == [c \in {x \in DOMAIN table : ~Expired(table[x])} |-> table[c]]

\* The entry of c, made if there is none.
EntryOf(table, c) == IF c \in DOMAIN table THEN table[c] ELSE NewLimiter

\* Mutant of Use: lastSeen is set when the entry is made and never again.
UseUnseen(table, c) ==
    LET e == EntryOf(table, c) IN
    [x \in DOMAIN table \cup {c} |->
        IF x = c THEN [e EXCEPT !.tokens = IF @ >= Cost THEN @ - Cost ELSE @] ELSE table[x]]

\* Mutant of Use: the bucket is charged for refused requests too.
UseInDebt(table, c) ==
    LET e == EntryOf(table, c) IN
    [x \in DOMAIN table \cup {c} |->
        IF x = c THEN [tokens |-> e.tokens - Cost, idle |-> 0] ELSE table[x]]

\* lastSeen is set and limiter.Allow takes what it needs, if that is there.
Use(table, c) ==
    LET e == EntryOf(table, c) IN
    [x \in DOMAIN table \cup {c} |->
        IF x = c THEN [tokens |-> IF e.tokens >= Cost THEN e.tokens - Cost ELSE e.tokens, idle |-> 0]
                 ELSE table[x]]

Answer(table, c) == [client |-> c, allowed |-> EntryOf(table, c).tokens >= Cost]

\* clientRateLimiter.Allow: the table is cleaned up after use, if it is large.
AllowProxy(c) ==
    LET used == Use(entries, c) IN
    /\ kind = "proxy"
    /\ verdict' = Answer(entries, c)
    /\ entries' = IF Cardinality(DOMAIN used) > MaxClients THEN Cleanup(used) ELSE used
    /\ UNCHANGED <<kind, sinceCleanup>>

\* Mutant of CleanupDue: a cleanup is never due again.
CleanupDueOnce == entries = [c \in {} |-> c]

CleanupDue == sinceCleanup >= CleanupPeriod

\* requestLimiter.Allow: the table is cleaned up before use, now and then.  The
\* code reads the time just before it takes the lock, so that a query may use a
\* time slightly older than the one before it did; here time is read under it.
AllowDNS(c) ==
    LET kept == IF CleanupDue THEN Cleanup(entries) ELSE entries IN
    /\ kind = "dns"
    /\ sinceCleanup' = IF CleanupDue THEN 0 ELSE sinceCleanup
    /\ verdict' = Answer(kept, c)
    /\ entries' = Use(kept, c)
    /\ UNCHANGED kind

\* requestLimiter.Allow without an address.
AllowUnknown ==
    /\ kind = "dns"
    /\ verdict' = [client |-> None, allowed |-> TRUE]
    /\ UNCHANGED <<kind, entries, sinceCleanup>>

Tick ==
    /\ entries' = [c \in DOMAIN entries |->
                      [tokens |-> IF entries[c].tokens < Full THEN entries[c].tokens + 1 ELSE Full,
                       idle |-> IF entries[c].idle < MaxIdle THEN entries[c].idle + 1 ELSE MaxIdle]]
    /\ sinceCleanup' = IF sinceCleanup < CleanupPeriod THEN sinceCleanup + 1 ELSE CleanupPeriod
    /\ UNCHANGED <<kind, verdict>>

Allow(c) == AllowProxy(c) \/ AllowDNS(c)

Next == Tick \/ AllowUnknown \/ \E c \in Clients : Allow(c)

Spec == Init /\ [][Next]_vars

-----------------------------------------------------------------------------
\* The window is long enough to fill a bucket.  Nothing in the code checks it;
\* the defaults of config.Load and New satisfy it.
WindowRefills == Window >= Full

\* A client without an entry has a full bucket.
Level == [c \in Clients |-> EntryOf(entries, c).tokens]

Bucket == INSTANCE TokenBucket WITH level <- Level

\* Dropping buckets is invisible: where the window is long enough to fill a
\* bucket, both limiters answer every client as buckets that are never
\* dropped would, whatever cleanups come in between (rate_limiter.go:50,
\* plugin.go:377).
ForgettingIsInvisible == Bucket!Spec

\* What keeps the tables from growing for ever.  After an Allow, a proxy's table
\* that is larger than MaxClients has only clients seen within the window, and
\* a DNS server's only clients seen within the window and a cleanup period.
TableIsSwept ==
    [][\A c \in Clients : Allow(c) =>
          LET idle == {entries'[x].idle : x \in DOMAIN entries'} IN
          IF kind = "dns" THEN \A i \in idle : i <= Window + CleanupPeriod
          ELSE Cardinality(DOMAIN entries') > MaxClients => \A i \in idle : i <= Window]_vars
=============================================================================
