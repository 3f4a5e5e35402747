--------------------------- MODULE EdgeSelection ---------------------------
(***************************************************************************)
(* How the DNS server chooses the edges it names in an answer: EdgeRecords *)
(* of pkg/dnsplugin/provider.go, and what answerService of plugin.go makes *)
(* of them.  All of it is a function of the table of adverts, the query    *)
(* and the order in which Go happens to walk the table, a map.             *)
(*                                                                         *)
(* Distances are kept as scores on a scale on which 0.01, the difference   *)
(* the code calls significant, is Tolerance.                               *)
(***************************************************************************)
EXTENDS Naturals, Sequences, FiniteSets, SequencesExt

CONSTANTS
    Nodes,              \* the edges' node ids
    V4, V6,             \* addresses; what is in neither is no address
    NoAddress,          \* no EDNS client subnet
    NoAdvert,           \* no entry, or a tombstone
    Services,           \* rpc, lcd, ws
    Chains,             \* Config.Chains
    MaxAnswers,         \* Config.MaxAnswers
    EnableECS,          \* Config.EnableECS
    GeoEnabled,         \* whether there is a geo provider
    Nowhere,            \* the location ZZ
    LocationOf,         \* LocationOf[ip]: what the geo provider knows
    Centroid,           \* Centroid[country], for the countries the code lists
    Score(_, _),        \* TotalGeoScore * geoWeight of a client and a node
    UnknownScore,       \* 0.5, the score of a node that is nowhere
    Tolerance,          \* 0.01
    Hash(_, _, _, _)    \* hashEdge

\* What the geo provider is asked for, and the places it or a country names.
Addresses == DOMAIN LocationOf
Locations == {LocationOf[ip] : ip \in Addresses} \cup {Centroid[c] : c \in DOMAIN Centroid}

ASSUME SelectionAssumption ==
    /\ MaxAnswers \in Nat \ {0}                \* NewHandler replaces 0 by 4
    /\ {UnknownScore, Tolerance} \subseteq Nat
    /\ {EnableECS, GeoEnabled} \subseteq BOOLEAN
    /\ V4 \cap V6 = {}
    /\ IsFiniteSet(Nodes)

\* Distances are not negative, and a hash is an unsigned number.
ASSUME ScoreAssumption ==
    \A ip \in Addresses : \A loc \in Locations \ {Nowhere} : Score(LocationOf[ip], loc) \in Nat

ASSUME HashAssumption ==
    \A chain \in Chains, id \in Nodes, ip \in Addresses, ecs \in Addresses \cup {NoAddress} :
        Hash(chain, id, ip, ecs) \in Nat

-----------------------------------------------------------------------------
(* calculateNodeGeoScore                                                   *)

\* countryToApproxLocation
CountryToApproxLocation(country) ==
    IF country \in DOMAIN Centroid THEN Centroid[country] ELSE Nowhere

\* The first of the node's addresses that is somewhere, else its country.
NodeLocation(advert) ==
    LET known == {i \in DOMAIN advert.ips : LocationOf[advert.ips[i]] # Nowhere} IN
    IF known # {} THEN LocationOf[advert.ips[Min(known)]]
    ELSE CountryToApproxLocation(advert.country)

\* A client is located by its subnet.  One that is nowhere is not told apart
\* from one at the position of ZZ, latitude and longitude 0.
Located(ecs) == GeoEnabled /\ ecs # NoAddress

GeoScore(advert, ecs) ==
    IF ~Located(ecs) THEN 0
    ELSE LET loc == NodeLocation(advert) IN
         IF loc = Nowhere THEN UnknownScore ELSE Score(LocationOf[ecs], loc)

-----------------------------------------------------------------------------
(* EdgeRecords                                                             *)

\* toRR: the type of the record, and nothing for what is no address.
IsAddress(ip) == ip \in V4 \cup V6
TypeOf(ip) == IF ip \in V4 THEN "A" ELSE "AAAA"

EdgeOf(id, advert, ip, chain, ecs) ==
    [ip |-> ip, score |-> GeoScore(advert, ecs), hash |-> Hash(chain, id, ip, ecs)]

Seen(edges, ip) == \E i \in DOMAIN edges : edges[i].ip = ip

\* The loop over the addresses of one node.  Of two nodes with the same
\* address, the one met first counts.
CollectNode(edges, id, advert, chain, ecs) ==
    FoldLeft(LAMBDA kept, ip : IF IsAddress(ip) /\ ~Seen(kept, ip)
                               THEN Append(kept, EdgeOf(id, advert, ip, chain, ecs))
                               ELSE kept,
             edges, advert.ips)

IsServing(table, id) == table[id] # NoAdvert /\ table[id].nsServing

\* The loop over the table, in the given order of its keys.
CollectEdges(table, order, chain, ecs) ==
    FoldLeft(LAMBDA edges, id : IF IsServing(table, id)
                                THEN CollectNode(edges, id, table[id], chain, ecs)
                                ELSE edges,
             <<>>, order)

Similar(e, f) == e.score <= f.score + Tolerance /\ f.score <= e.score + Tolerance

\* Mutant of Less: edges at similar distances are left as they come.
LessByScoreOnly(e, f) == ~Similar(e, f) /\ e.score < f.score

\* The comparison EdgeRecords sorts with.  It is no order: similarity is not
\* transitive.
Less(e, f) == IF Similar(e, f) THEN e.hash < f.hash ELSE e.score < f.score

\* sort.Slice on up to 12 elements, an insertion sort: each goes left until it
\* meets one that it is not less than.
Insert(sorted, e) ==
    LET stop == {j \in DOMAIN sorted : ~Less(e, sorted[j])} IN
    InsertAt(sorted, (IF stop = {} THEN 0 ELSE Max(stop)) + 1, e)

Sort(edges) == FoldLeft(Insert, <<>>, edges)

Truncate(s) == SubSeq(s, 1, IF Len(s) > MaxAnswers THEN MaxAnswers ELSE Len(s))

\* Mutant of EdgeRecords: the edges are cut to MaxAnswers before they are sorted.
EdgeRecordsCutFirst(table, order, chain, ecs) ==
    LET edges == Sort(Truncate(CollectEdges(table, order, chain, ecs))) IN
    [i \in DOMAIN edges |-> edges[i].ip]

\* EdgeRecords: the addresses, best first.
EdgeRecords(table, order, chain, ecs) ==
    LET edges == Truncate(Sort(CollectEdges(table, order, chain, ecs))) IN
    [i \in DOMAIN edges |-> edges[i].ip]

\* The orders in which the map may be walked.
Orders(table) == SetToSeqs({id \in Nodes : table[id] # NoAdvert})

-----------------------------------------------------------------------------
(* matchServiceName, allowedService and answerService                      *)

\* A name is given by its labels before the zone, of which one outside of the
\* zone has none.
MatchServiceName(name) == Len(name) >= 2 /\ name[Len(name)] \in Chains
AllowedService(name) == name[1] \in Services

\* Mutant of FilterByType: the other type.
FilterByOtherType(ips, type) ==
    FoldLeft(LAMBDA kept, ip : IF TypeOf(ip) # type THEN Append(kept, ip) ELSE kept, <<>>, ips)

FilterByType(ips, type) ==
    FoldLeft(LAMBDA kept, ip : IF TypeOf(ip) = type THEN Append(kept, ip) ELSE kept, <<>>, ips)

\* buildHTTPSRecord: the hints of the one record, v4 first.
BuildHTTPSRecord(ips) == FilterByType(ips, "A") \o FilterByType(ips, "AAAA")

\* What an answer tells of the edges chosen: the hints, or the addresses of the
\* type asked for, or all if there are none of it.
Decorate(ips, type) ==
    LET filtered == FilterByType(ips, type) IN
    IF type = "HTTPS" THEN BuildHTTPSRecord(ips)
    ELSE IF filtered = <<>> THEN ips ELSE filtered

\* extractECS
ClientAddress(q) == IF EnableECS THEN q.ecs ELSE NoAddress

\* answerService.  Nothing, if no service or no edge matches.
AnswerService(table, order, q) ==
    IF MatchServiceName(q.name) /\ AllowedService(q.name)
    THEN Decorate(EdgeRecords(table, order, q.name[Len(q.name)], ClientAddress(q)), q.type)
    ELSE <<>>
=============================================================================
