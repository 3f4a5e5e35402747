----------------------------- MODULE DNSServer -----------------------------
(***************************************************************************)
(* meshdns: Handler.ServeDNS of pkg/dnsplugin, on the registry's zone view *)
(* (RegistryZoneView).  The server runs every query in a goroutine of its  *)
(* own, while the gossip service changes the store (module Registry).      *)
(*                                                                         *)
(* A query for edges reads one snapshot of the store, so it is one step.   *)
(* A query for the SOA record computes the zone's serial number from the   *)
(* version vector and an atomic variable that it loads and stores without  *)
(* a lock, so each of these accesses is a step.                            *)
(*                                                                         *)
(* Of the version vector ZoneSerial looks at the sum of its counters.  No  *)
(* query reads both the vector and the table, so that Learn does the       *)
(* store's Upsert and its Bump at once.                                    *)
(***************************************************************************)
EXTENDS EdgeSelection

CONSTANTS
    Handlers,       \* goroutines that serve an SOA query
    Names,          \* names asked for, as label sequences
    Subnets,        \* client subnets, NoAddress among them
    Adverts,        \* Adverts[n]: what node n may advertise
    MaxSerial,      \* 2^32 - 1
    MaxTime,        \* bound: the wall clock stops here
    MaxSum          \* bound: the sum of the version vector

ASSUME ServerAssumption ==
    /\ MaxSerial \in Nat \ {0}
    /\ MaxTime \in 0..MaxSerial      \* Unix time fits in 32 bits until 2106
    /\ MaxSum \in Nat
    /\ Subnets \subseteq Addresses \cup {NoAddress}
    /\ \A n \in Nodes : \A a \in Adverts[n] :
          a.ips \in Seq(Addresses) /\ a.nsServing \in BOOLEAN

VARIABLES
    now,            \* the wall clock
    adverts,        \* the store's table of node adverts
    sum,            \* the sum of the store's version vector
    serialCache,    \* RegistryZoneView.serialCache
    handler,        \* handler[h]: where an SOA query is
    written,        \* the message the last step wrote, if any
    answered,       \* history: the largest serial number given out
    raced           \* history: a serial number was stored over one not looked at

zone == <<now, adverts, sum>>
serials == <<serialCache, handler, answered, raced>>
vars == <<zone, serials, written>>

-----------------------------------------------------------------------------
Serials == 0..MaxSerial
Rcodes == {"NOERROR", "NXDOMAIN", "REFUSED", "NOTIMP", "none"}
AddressTypes == {"A", "AAAA", "HTTPS"}
Message == [rcode : Rcodes, type : AddressTypes \cup {"other"},
            records : Seq(V4 \cup V6), serial : Serials]
Queries == [name : Names, type : AddressTypes, ecs : Subnets]

\* A handler's program counter, the serial number it is about to store, the
\* cached one that it knows of, and whether the vector was empty.
HandlerState == [pc : {"idle", "now", "load", "store"},
                 serial : Nat, base : Serials, empty : BOOLEAN]

Idle == [pc |-> "idle", serial |-> 0, base |-> 0, empty |-> FALSE]

Reply(rcode) == [rcode |-> rcode, type |-> "other", records |-> <<>>, serial |-> 0]
Silence == Reply("none")

TypeOK ==
    /\ now \in 0..MaxTime
    /\ adverts \in [Nodes -> (UNION {Adverts[n] : n \in Nodes}) \cup {NoAdvert}]
    /\ sum \in Nat
    /\ serialCache \in Serials
    /\ handler \in [Handlers -> HandlerState]
    /\ written \in Message
    /\ answered \in Serials
    /\ raced \in BOOLEAN

Init ==
    /\ now = 0
    /\ adverts = [n \in Nodes |-> NoAdvert]
    /\ sum = 0
    /\ serialCache = 0
    /\ handler = [h \in Handlers |-> Idle]
    /\ written = Silence
    /\ answered = 0
    /\ raced = FALSE

-----------------------------------------------------------------------------
(* The environment: time, and the gossip service                           *)

Tick ==
    /\ now < MaxTime
    /\ now' = now + 1
    /\ written' = Silence
    /\ UNCHANGED <<adverts, sum, serials>>

\* ApplyNodeAdvert or MergeNodeDelta accepts an advert of n.  The sum grows,
\* unless the advert is newer by its time stamp only.
Learn(n) ==
    /\ adverts' \in {[adverts EXCEPT ![n] = a] : a \in Adverts[n]}
    /\ sum' \in sum..MaxSum /\ sum' > 0
    /\ written' = Silence
    /\ UNCHANGED <<now, serials>>

-----------------------------------------------------------------------------
(* ServeDNS, but for SOA                                                   *)

\* The request limiter refuses the query, see module RateLimiter.
Refuse ==
    /\ written' = Reply("REFUSED")
    /\ UNCHANGED <<zone, serials>>

\* An error is returned: the question is empty, or the context expires before
\* the records were collected.  Nothing is written, the client times out.
Fail ==
    /\ written' = Silence
    /\ UNCHANGED <<zone, serials>>

\* NS: the configured labels, whatever the name.
ServeNS ==
    /\ written' = Reply("NOERROR")
    /\ UNCHANGED <<zone, serials>>

\* A, AAAA and HTTPS.
ServeService(q) ==
    /\ \E order \in Orders(adverts) :
          LET records == AnswerService(adverts, order, q) IN
          written' = IF records = <<>> THEN Reply("NXDOMAIN")
                     ELSE [Reply("NOERROR") EXCEPT !.type = q.type, !.records = records]
    /\ UNCHANGED <<zone, serials>>

ServeOther ==
    /\ written' = Reply("NOTIMP")
    /\ UNCHANGED <<zone, serials>>

-----------------------------------------------------------------------------
(* SOA: soaRecord and ZoneSerial                                           *)

\* A query comes in; NodeVersionVector and the sum over it.
SumVector(h) ==
    /\ handler[h].pc = "idle"
    /\ handler' = [handler EXCEPT ![h] =
          [pc |-> IF sum = 0 THEN "now" ELSE "load", serial |-> sum % MaxSerial,
           base |-> serialCache, empty |-> sum = 0]]
    /\ written' = Silence
    /\ UNCHANGED <<zone, serialCache, answered, raced>>

\* An empty vector: the serial number is the time.
TakeTime(h) ==
    /\ handler[h].pc = "now"
    /\ handler' = [handler EXCEPT ![h].pc = "store", ![h].serial = now]
    /\ written' = Silence
    /\ UNCHANGED <<zone, serialCache, answered, raced>>

\* Mutant of NextSerial: <= is <.
NextSerialOrSame(serial, prev) ==
    IF serial < prev THEN IF prev = MaxSerial THEN prev ELSE prev + 1 ELSE serial

\* Mutant of NextSerial: nothing stops at the largest number.
NextSerialUnbounded(serial, prev) == IF serial <= prev THEN prev + 1 ELSE serial

NextSerial(serial, prev) ==
    IF serial <= prev THEN IF prev = MaxSerial THEN prev ELSE prev + 1 ELSE serial

LoadSerial(h) ==
    /\ handler[h].pc = "load"
    /\ handler' = [handler EXCEPT ![h].pc = "store", ![h].base = serialCache,
                                  ![h].serial = NextSerial(@, serialCache)]
    /\ written' = Silence
    /\ UNCHANGED <<zone, serialCache, answered, raced>>

\* The serial number is stored, and the answer written.
StoreSerial(h) ==
    LET s == handler[h].serial IN
    /\ handler[h].pc = "store"
    /\ serialCache' = s
    /\ written' = [Reply("NOERROR") EXCEPT !.serial = s]
    /\ answered' = IF s > answered THEN s ELSE answered
    /\ raced' = (raced \/ serialCache # handler[h].base)
    /\ handler' = [handler EXCEPT ![h] = Idle]
    /\ UNCHANGED zone

-----------------------------------------------------------------------------
Next ==
    \/ Tick
    \/ \E n \in Nodes : Learn(n)
    \/ Refuse \/ Fail \/ ServeNS \/ ServeOther
    \/ \E q \in Queries : ServeService(q)
    \/ \E h \in Handlers :
          SumVector(h) \/ TakeTime(h) \/ LoadSerial(h) \/ StoreSerial(h)

Spec == Init /\ [][Next]_vars

-----------------------------------------------------------------------------
(* Properties                                                              *)

\* Zone serial numbers go up: every SOA answer has a larger one than all
\* before, though queries are served concurrently and the vector changes under
\* them.  What may undo it is exactly this: a query that stores over a number
\* it did not look at (provider.go:338 to 346 holds no lock), once in the run;
\* the last number there is; and an empty registry, where the time is the
\* number and two queries of a second share it.
OnlyRacesRepeatSerials ==
    [][\A h \in Handlers : StoreSerial(h) =>
          LET s == handler[h].serial IN
          \/ raced'
          \/ s > answered
          \/ s = MaxSerial
          \/ handler[h].empty /\ s >= answered]_vars

\* The edges a located client gets are nearly the closest, and nearly in order:
\* the k-th is farther away than the l-th, or than one left out, by a tolerance at
\* most for each place between them, though the comparison is no order and shared
\* addresses count for the node that the walk over the map meets first.
NearlyClosest ==
    \A ecs \in Subnets, chain \in Chains : \A order \in Orders(adverts) :
        LET edges == CollectEdges(adverts, order, chain, ecs)
            records == EdgeRecords(adverts, order, chain, ecs) IN
        \A e, f \in ToSet(edges) : \A k \in DOMAIN records :
            records[k] = e.ip =>
                /\ \A l \in DOMAIN records :
                      k < l /\ records[l] = f.ip => e.score <= f.score + (l - k) * Tolerance
                /\ f.ip \notin ToSet(records) =>
                      e.score <= f.score + (Len(edges) - k) * Tolerance

\* The same query gets the same edges in the same order, however the map is
\* walked: if no two nodes share an address, no two hashes collide, and edges
\* similar to a third are similar to each other.
AnswerIsDetermined ==
    \A ecs \in Subnets, chain \in Chains :
        LET owners(ip) == {n \in Nodes : IsServing(adverts, n) /\ ip \in ToSet(adverts[n].ips)}
            edgesBy(order) == CollectEdges(adverts, order, chain, ecs)
            edges == ToSet(edgesBy(CHOOSE order \in Orders(adverts) : TRUE)) IN
        /\ \A ip \in V4 \cup V6 : Cardinality(owners(ip)) <= 1
        /\ \A e, f \in edges : e.hash = f.hash => e = f
        /\ \A e, f, g \in edges : Similar(e, f) /\ Similar(f, g) => Similar(e, g)
        => \A r1, r2 \in {EdgeRecords(adverts, order, chain, ecs) : order \in Orders(adverts)} :
              r1 = r2

\* Who asks for addresses of one type gets some of the other type only if no
\* edge has one of that type, or if there were more edges than an answer has
\* places: the cut comes before the filter (provider.go:194, plugin.go:204).
OtherTypeOnlyIfCut ==
    [][written'.type \in {"A", "AAAA"} =>
          LET serving == {n \in Nodes : IsServing(adverts, n)}
              ips == (UNION {ToSet(adverts[n].ips) : n \in serving}) \cap (V4 \cup V6) IN
          (\E ip \in ToSet(written'.records) : TypeOf(ip) # written'.type)
          => \/ \A ip \in ips : TypeOf(ip) # written'.type
             \/ Cardinality(ips) > MaxAnswers]_vars
=============================================================================
