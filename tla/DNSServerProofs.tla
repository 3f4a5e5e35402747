-------------------------- MODULE DNSServerProofs --------------------------
(***************************************************************************)
(* The edges of an answer and the zone's serial numbers, for any table of  *)
(* adverts, any number of concurrent queries and any history of the        *)
(* registry.                                                               *)
(*                                                                         *)
(* The loops of EdgeRecords are folds.  Each has a lemma that gives it as  *)
(* an iteration, f[0] to f[n] (see module FoldLemmas), and one about what  *)
(* it computes, by induction over that iteration.  The properties of the   *)
(* edges chosen are proved of every table; OnlyRacesRepeatSerials follows  *)
(* from what every handler knows of the cache and of the clock when it     *)
(* comes to store.                                                         *)
(***************************************************************************)
EXTENDS DNSServer, FoldLemmas, FiniteSetTheorems

-----------------------------------------------------------------------------
(* Edges                                                                   *)

\* What a query may come from: an address that can be looked up, or nothing
\* known.
Clients == Addresses \cup {NoAddress}
\* An edge as EdgeRecords collects it.
Edge == [ip : V4 \cup V6, score : Nat, hash : Nat]

\* A score is a natural number, whichever of the node's and the client's places
\* are known.
LEMMA GeoScoreType ==
    ASSUME NEW advert, advert.ips \in Seq(Addresses), NEW ecs \in Clients
    PROVE  GeoScore(advert, ecs) \in Nat
<1>1. CASE ~Located(ecs)
  BY <1>1 DEF GeoScore
<1>2. CASE Located(ecs)
  <2> DEFINE loc == NodeLocation(advert)
             known == {i \in DOMAIN advert.ips : LocationOf[advert.ips[i]] # Nowhere}
  <2>1. known # {} => Min(known) \in known
    <3>1. known \in SUBSET Nat
      OBVIOUS
    <3> HIDE DEF known
    <3> QED BY <3>1, MinOfNats
  <2>2. loc \in Locations \cup {Nowhere}
    <3>1. CASE known # {}
      <4>1. loc = LocationOf[advert.ips[Min(known)]]
        BY <3>1 DEF NodeLocation
      <4>2. \A i \in known : advert.ips[i] \in Addresses
        OBVIOUS
      <4> HIDE DEF loc, known
      <4>3. advert.ips[Min(known)] \in Addresses
        BY <2>1, <3>1, <4>2
      <4> QED BY <4>1, <4>3 DEF Locations
    <3>2. CASE known = {}
      <4>1. loc = CountryToApproxLocation(advert.country)
        BY <3>2 DEF NodeLocation
      <4>2. QED
        BY <4>1 DEF CountryToApproxLocation, Locations
    <3>3. QED
      BY <3>1, <3>2
  <2>3. ecs \in Addresses
    BY <1>2 DEF Located, Clients
  <2>4. GeoScore(advert, ecs) = IF loc = Nowhere THEN UnknownScore ELSE Score(LocationOf[ecs], loc)
    BY <1>2 DEF GeoScore
  <2> HIDE DEF loc
  <2>5. QED
    BY <2>2, <2>3, <2>4, ScoreAssumption, SelectionAssumption
<1>3. QED
  BY <1>1, <1>2

\* What EdgeRecords makes of an address that can be served is an edge with that
\* address.
LEMMA EdgeType ==
    ASSUME NEW id \in Nodes, NEW advert, advert.ips \in Seq(Addresses), NEW chain \in Chains,
           NEW ecs \in Clients, NEW ip \in Addresses, IsAddress(ip)
    PROVE  EdgeOf(id, advert, ip, chain, ecs) \in Edge /\ EdgeOf(id, advert, ip, chain, ecs).ip = ip
<1>1. GeoScore(advert, ecs) \in Nat
  BY GeoScoreType
<1>2. Hash(chain, id, ip, ecs) \in Nat
  BY HashAssumption DEF Clients
<1>3. QED
  BY <1>1, <1>2 DEF EdgeOf, Edge, IsAddress

\* The loop over the addresses of a node, as an iteration.
LEMMA CollectNodeTrace ==
    ASSUME NEW id \in Nodes, NEW advert, advert.ips \in Seq(Addresses), NEW chain \in Chains,
           NEW ecs \in Clients, NEW edges \in Seq(Edge)
    PROVE  \E f : /\ f[0] = edges
                  /\ \A i \in 1..Len(advert.ips) :
                        f[i] = IF IsAddress(advert.ips[i]) /\ ~Seen(f[i - 1], advert.ips[i])
                               THEN Append(f[i - 1], EdgeOf(id, advert, advert.ips[i], chain, ecs))
                               ELSE f[i - 1]
                  /\ f[Len(advert.ips)] = CollectNode(edges, id, advert, chain, ecs)
<1> DEFINE s == advert.ips
           n == Len(s)
           Op(kept, ip) == IF IsAddress(ip) /\ ~Seen(kept, ip)
                           THEN Append(kept, EdgeOf(id, advert, ip, chain, ecs)) ELSE kept
           step == [i \in 1..n |-> [kept \in Seq(Edge) |-> Op(kept, s[i])]]
           Body(it) == [x \in SUBSET DOMAIN s |->
                         IF x = {} THEN edges ELSE Op(it[x \ {Max(x)}], s[Max(x)])]
           g == CHOOSE it : it = Body(it)
           f == [i \in 0..n |-> g[1..i]]
<1>1. n \in Nat /\ DOMAIN s = 1..n /\ \A i \in 1..n : s[i] \in Addresses
  OBVIOUS
<1>2. \A kept \in Seq(Edge), ip \in Addresses : Op(kept, ip) \in Seq(Edge)
  BY EdgeType
<1>3. CollectNode(edges, id, advert, chain, ecs) = g[1..n]
  BY <1>1 DEF CollectNode, FoldLeft, MapThenFoldSet
<1> HIDE DEF s, Op
<1>4. step \in [1..n -> [Seq(Edge) -> Seq(Edge)]]
  BY <1>1, <1>2
<1>5. PICK it \in [SUBSET (1..n) -> Seq(Edge)] : Solves(it, n, edges, step)
  <2> HIDE DEF step, n
  <2> QED BY <1>1, <1>4, FoldRecursion
<1>6. it = Body(it)
  <2>1. ASSUME NEW x \in SUBSET (1..n), x # {}
        PROVE  it[x] = Op(it[x \ {Max(x)}], s[Max(x)])
    <3>1. Max(x) \in 1..n
      BY <1>1, <2>1, MaxPosition
    <3>2. it[x \ {Max(x)}] \in Seq(Edge)
      OBVIOUS
    <3>3. it[x] = step[Max(x)][it[x \ {Max(x)}]]
      BY <1>5, <2>1 DEF Solves
    <3>4. QED
      BY <3>1, <3>2, <3>3
  <2>2. it[{}] = edges
    BY <1>5 DEF Solves
  <2>3. QED
    BY <1>1, <2>1, <2>2
<1>7. g = Body(g)
  BY <1>6
<1> HIDE DEF g
<1>8. f[0] = edges
  BY <1>1, <1>7, 1..0 = {}
<1>9. ASSUME NEW i \in 1..n PROVE f[i] = Op(f[i - 1], s[i])
  <2>1. 1..i \in SUBSET (1..n) /\ 1..i # {} /\ (1..i) \ {i} = 1..(i - 1) /\ Max(1..i) = i
    BY <1>1, FirstPositions
  <2>2. g[1..i] = Op(g[1..(i - 1)], s[i])
    BY <1>1, <1>7, <2>1
  <2>3. QED
    BY <1>1, <2>2
<1>10. f[n] = CollectNode(edges, id, advert, chain, ecs)
  BY <1>1, <1>3, n \in 0..n
<1> HIDE DEF f
<1>11. QED
  BY <1>8, <1>9, <1>10 DEF Op, s

\* The addresses of a sequence of edges, and that it has none twice.
IpsOf(edges) == {edges[i].ip : i \in DOMAIN edges}
Distinct(edges) == \A i, j \in DOMAIN edges : edges[i].ip = edges[j].ip => i = j

\* Appending an edge whose address has not been seen adds that edge and keeps
\* addresses distinct.
LEMMA AppendEdge ==
    ASSUME NEW edges \in Seq(Edge), Distinct(edges), NEW e \in Edge, ~Seen(edges, e.ip)
    PROVE  /\ Append(edges, e) \in Seq(Edge)
           /\ Distinct(Append(edges, e))
           /\ IpsOf(Append(edges, e)) = IpsOf(edges) \cup {e.ip}
           /\ ToSet(Append(edges, e)) = ToSet(edges) \cup {e}
<1> DEFINE n == Len(edges)
           r == Append(edges, e)
<1>1. n \in Nat /\ DOMAIN edges = 1..n
  OBVIOUS
<1>2. r \in Seq(Edge) /\ DOMAIN r = 1..(n + 1) /\ r[n + 1] = e /\ \A i \in 1..n : r[i] = edges[i]
  OBVIOUS
<1> HIDE DEF r, n
<1>3. \A i \in 1..n : edges[i].ip # e.ip
  BY <1>1 DEF Seen
<1>4. 1..(n + 1) = (1..n) \cup {n + 1}
  BY <1>1
<1>5. Distinct(r)
  <2> SUFFICES ASSUME NEW i \in 1..(n + 1), NEW j \in 1..(n + 1), r[i].ip = r[j].ip PROVE i = j
    BY <1>2 DEF Distinct
  <2>1. CASE i \in 1..n /\ j \in 1..n
    BY <1>1, <1>2, <2>1 DEF Distinct
  <2>2. CASE i = n + 1 \/ j = n + 1
    BY <1>2, <1>3, <1>4, <2>2
  <2>3. QED
    BY <1>4, <2>1, <2>2
<1>6. IpsOf(r) = IpsOf(edges) \cup {e.ip}
  BY <1>1, <1>2, <1>4 DEF IpsOf
<1>7. ToSet(r) = ToSet(edges) \cup {e}
  BY <1>1, <1>2, <1>4 DEF ToSet
<1>8. QED
  BY <1>2, <1>5, <1>6, <1>7 DEF r

\* What the addresses of one node add.
LEMMA CollectNodeProperties ==
    ASSUME NEW id \in Nodes, NEW advert, advert.ips \in Seq(Addresses), NEW chain \in Chains,
           NEW ecs \in Clients, NEW edges \in Seq(Edge), Distinct(edges)
    PROVE  LET r == CollectNode(edges, id, advert, chain, ecs)
               ips == {ip \in ToSet(advert.ips) : IsAddress(ip)} IN
           /\ r \in Seq(Edge)
           /\ Distinct(r)
           /\ IpsOf(r) = IpsOf(edges) \cup ips
           /\ \A e \in ToSet(r) :
                e \in ToSet(edges) \/ \E ip \in ips : e = EdgeOf(id, advert, ip, chain, ecs)
<1> DEFINE s == advert.ips
           n == Len(s)
           E(ip) == EdgeOf(id, advert, ip, chain, ecs)
           Ips(i) == {ip \in {s[k] : k \in 1..i} : IsAddress(ip)}
           Inv(r, i) == /\ r \in Seq(Edge)
                        /\ Distinct(r)
                        /\ IpsOf(r) = IpsOf(edges) \cup Ips(i)
                        /\ \A e \in ToSet(r) : e \in ToSet(edges) \/ \E ip \in Ips(i) : e = E(ip)
<1>1. n \in Nat /\ DOMAIN s = 1..n /\ \A i \in 1..n : s[i] \in Addresses
  OBVIOUS
<1>2. PICK f : /\ f[0] = edges
               /\ \A i \in 1..n : f[i] = IF IsAddress(s[i]) /\ ~Seen(f[i - 1], s[i])
                                         THEN Append(f[i - 1], E(s[i])) ELSE f[i - 1]
               /\ f[n] = CollectNode(edges, id, advert, chain, ecs)
  BY CollectNodeTrace
<1>3. \A ip \in Addresses : IsAddress(ip) => E(ip) \in Edge /\ E(ip).ip = ip
  BY EdgeType
<1>4. Ips(n) = {ip \in ToSet(advert.ips) : IsAddress(ip)}
  BY <1>1 DEF ToSet
<1> HIDE DEF s, E
<1>5. Inv(f[0], 0)
  BY <1>2, 1..0 = {}
<1>6. ASSUME NEW i \in 0..n, i < n, Inv(f[i], i) PROVE Inv(f[i + 1], i + 1)
  <2> DEFINE ip == s[i + 1]
  <2>1. i + 1 \in 1..n /\ (i + 1) - 1 = i /\ 1..(i + 1) = (1..i) \cup {i + 1}
    BY <1>1, <1>6
  <2>2. ip \in Addresses
    BY <1>1, <2>1
  <2>3. f[i + 1] = IF IsAddress(ip) /\ ~Seen(f[i], ip) THEN Append(f[i], E(ip)) ELSE f[i]
    BY <1>2, <2>1
  <2>4. Ips(i + 1) = IF IsAddress(ip) THEN Ips(i) \cup {ip} ELSE Ips(i)
    BY <2>1
  <2> HIDE DEF Ips, ip
  <2>5. CASE IsAddress(ip) /\ ~Seen(f[i], ip)
    <3>1. E(ip) \in Edge /\ E(ip).ip = ip
      BY <1>3, <2>2, <2>5
    <3>2. f[i + 1] = Append(f[i], E(ip))
      BY <2>3, <2>5
    <3>3. /\ f[i + 1] \in Seq(Edge) /\ Distinct(f[i + 1])
          /\ IpsOf(f[i + 1]) = IpsOf(f[i]) \cup {ip} /\ ToSet(f[i + 1]) = ToSet(f[i]) \cup {E(ip)}
      BY <1>6, <2>5, <3>1, <3>2, AppendEdge
    <3>4. QED
      BY <1>6, <2>4, <2>5, <3>3
  <2>6. CASE IsAddress(ip) /\ Seen(f[i], ip)
    <3>1. ip \in IpsOf(f[i])
      BY <2>6 DEF Seen, IpsOf
    <3>2. f[i + 1] = f[i] /\ Ips(i + 1) = Ips(i) \cup {ip}
      BY <2>3, <2>4, <2>6
    <3>3. QED
      BY <1>6, <3>1, <3>2
  <2>7. CASE ~IsAddress(ip)
    <3>1. f[i + 1] = f[i] /\ Ips(i + 1) = Ips(i)
      BY <2>3, <2>4, <2>7
    <3>2. QED
      BY <1>6, <3>1
  <2>8. QED
    BY <2>5, <2>6, <2>7
<1> HIDE DEF Inv
<1>7. Inv(f[n], n)
  <2> DEFINE S == {i \in 0..n : Inv(f[i], i)}
  <2>1. 0 \in S
    BY <1>1, <1>5
  <2>2. \A i \in 0..n : i < n /\ i \in S => i + 1 \in S
    BY <1>1, <1>6
  <2>3. 0..n \subseteq S
    <3> HIDE DEF S
    <3> QED BY <1>1, <2>1, <2>2, UpTo
  <2>4. QED
    BY <1>1, <2>3, n \in 0..n
<1>8. QED
  BY <1>2, <1>4, <1>7 DEF Inv, E

\* The adverts of a table have addresses that can be looked up.
TableOK(table) == \A id \in Nodes : table[id] # NoAdvert => table[id].ips \in Seq(Addresses)

\* The addresses of the nodes in ids that serve.
ServedIps(table, ids) ==
    (UNION {ToSet(table[n].ips) : n \in {n \in ids : IsServing(table, n)}}) \cap (V4 \cup V6)

\* The edge e is one of theirs.
IsEdgeOf(e, table, ids, chain, ecs) ==
    \E id \in ids : /\ IsServing(table, id)
                    /\ \E ip \in ToSet(table[id].ips) :
                          IsAddress(ip) /\ e = EdgeOf(id, table[id], ip, chain, ecs)

\* The edges of a walk over the nodes ids.
Collected(edges, table, ids, chain, ecs) ==
    /\ edges \in Seq(Edge)
    /\ Distinct(edges)
    /\ IpsOf(edges) = ServedIps(table, ids)
    /\ \A e \in ToSet(edges) : IsEdgeOf(e, table, ids, chain, ecs)

\* One round of the loop over the map: the edges collected stay those of the
\* nodes walked.
LEMMA CollectMore ==
    ASSUME NEW table, TableOK(table), NEW ids \in SUBSET Nodes, NEW id \in Nodes,
           NEW chain \in Chains, NEW ecs \in Clients,
           NEW edges, Collected(edges, table, ids, chain, ecs)
    PROVE  LET r == IF IsServing(table, id) THEN CollectNode(edges, id, table[id], chain, ecs)
                    ELSE edges
           IN  Collected(r, table, ids \cup {id}, chain, ecs)
<1>1. CASE ~IsServing(table, id)
  <2>1. ServedIps(table, ids \cup {id}) = ServedIps(table, ids)
    BY <1>1 DEF ServedIps
  <2>2. \A e : IsEdgeOf(e, table, ids, chain, ecs) => IsEdgeOf(e, table, ids \cup {id}, chain, ecs)
    BY DEF IsEdgeOf
  <2>3. QED
    BY <1>1, <2>1, <2>2 DEF Collected
<1>2. CASE IsServing(table, id)
  <2> DEFINE r == CollectNode(edges, id, table[id], chain, ecs)
             ips == {ip \in ToSet(table[id].ips) : IsAddress(ip)}
  <2>1. table[id].ips \in Seq(Addresses)
    BY <1>2 DEF TableOK, IsServing
  <2>2. /\ r \in Seq(Edge)
        /\ Distinct(r)
        /\ IpsOf(r) = IpsOf(edges) \cup ips
        /\ \A e \in ToSet(r) :
              e \in ToSet(edges) \/ \E ip \in ips : e = EdgeOf(id, table[id], ip, chain, ecs)
    BY <2>1, CollectNodeProperties DEF Collected
  <2>3. ServedIps(table, ids \cup {id}) = ServedIps(table, ids) \cup ips
    BY <1>2 DEF ServedIps, IsAddress
  <2> HIDE DEF r
  <2>4. ASSUME NEW e \in ToSet(r) PROVE IsEdgeOf(e, table, ids \cup {id}, chain, ecs)
    <3>1. CASE e \in ToSet(edges)
      BY <3>1 DEF Collected, IsEdgeOf
    <3>2. CASE \E ip \in ips : e = EdgeOf(id, table[id], ip, chain, ecs)
      BY <1>2, <3>2 DEF IsEdgeOf
    <3>3. QED
      BY <2>2, <3>1, <3>2
  <2>5. Collected(r, table, ids \cup {id}, chain, ecs)
    BY <2>2, <2>3, <2>4 DEF Collected
  <2>6. QED
    BY <1>2, <2>5 DEF r
<1>3. QED
  BY <1>1, <1>2

\* The walk over the map as an iteration.
LEMMA CollectEdgesTrace ==
    ASSUME NEW table, TableOK(table), NEW order \in Seq(Nodes), NEW chain \in Chains,
           NEW ecs \in Clients
    PROVE  \E f : /\ f[0] = <<>>
                  /\ \A i \in 1..Len(order) :
                        f[i] = IF IsServing(table, order[i])
                               THEN CollectNode(f[i - 1], order[i], table[order[i]], chain, ecs)
                               ELSE f[i - 1]
                  /\ f[Len(order)] = CollectEdges(table, order, chain, ecs)
<1> DEFINE A == {s \in Seq(Edge) : Distinct(s)}
           n == Len(order)
           Op(edges, id) == IF IsServing(table, id)
                            THEN CollectNode(edges, id, table[id], chain, ecs) ELSE edges
           step == [i \in 1..n |-> [edges \in A |-> Op(edges, order[i])]]
           Body(it) == [x \in SUBSET DOMAIN order |->
                         IF x = {} THEN <<>> ELSE Op(it[x \ {Max(x)}], order[Max(x)])]
           g == CHOOSE it : it = Body(it)
           f == [i \in 0..n |-> g[1..i]]
<1>1. n \in Nat /\ DOMAIN order = 1..n /\ \A i \in 1..n : order[i] \in Nodes
  OBVIOUS
<1>2. \A edges \in A, id \in Nodes : Op(edges, id) \in A
  BY CollectNodeProperties DEF TableOK, IsServing
<1>3. CollectEdges(table, order, chain, ecs) = g[1..n]
  BY <1>1 DEF CollectEdges, FoldLeft, MapThenFoldSet
<1>4. <<>> \in A
  BY DEF Distinct
<1> HIDE DEF Op, A
<1>5. step \in [1..n -> [A -> A]]
  BY <1>1, <1>2
<1>6. PICK it \in [SUBSET (1..n) -> A] : Solves(it, n, <<>>, step)
  <2> HIDE DEF step, n
  <2> QED BY <1>1, <1>4, <1>5, FoldRecursion
<1>7. it = Body(it)
  <2>1. ASSUME NEW x \in SUBSET (1..n), x # {}
        PROVE  it[x] = Op(it[x \ {Max(x)}], order[Max(x)])
    <3>1. Max(x) \in 1..n
      BY <1>1, <2>1, MaxPosition
    <3>2. it[x \ {Max(x)}] \in A
      OBVIOUS
    <3>3. it[x] = step[Max(x)][it[x \ {Max(x)}]]
      BY <1>6, <2>1 DEF Solves
    <3>4. QED
      BY <3>1, <3>2, <3>3
  <2>2. it[{}] = <<>>
    BY <1>6 DEF Solves
  <2>3. QED
    BY <1>1, <2>1, <2>2
<1>8. g = Body(g)
  BY <1>7
<1> HIDE DEF g
<1>9. f[0] = <<>>
  BY <1>1, <1>8, 1..0 = {}
<1>10. ASSUME NEW i \in 1..n PROVE f[i] = Op(f[i - 1], order[i])
  <2>1. 1..i \in SUBSET (1..n) /\ 1..i # {} /\ (1..i) \ {i} = 1..(i - 1) /\ Max(1..i) = i
    BY <1>1, FirstPositions
  <2>2. g[1..i] = Op(g[1..(i - 1)], order[i])
    BY <1>1, <1>8, <2>1
  <2>3. QED
    BY <1>1, <2>2
<1>11. f[n] = CollectEdges(table, order, chain, ecs)
  BY <1>1, <1>3, n \in 0..n
<1> HIDE DEF f
<1>12. QED
  BY <1>9, <1>10, <1>11 DEF Op

\* After the walk the edges collected are those of the nodes in it, each
\* address once.
LEMMA CollectEdgesProperties ==
    ASSUME NEW table, TableOK(table), NEW order \in Seq(Nodes), NEW chain \in Chains,
           NEW ecs \in Clients
    PROVE  Collected(CollectEdges(table, order, chain, ecs), table, ToSet(order), chain, ecs)
<1> DEFINE n == Len(order)
           Ids(i) == {order[k] : k \in 1..i}
           Inv(r, i) == Collected(r, table, Ids(i), chain, ecs)
<1>1. n \in Nat /\ DOMAIN order = 1..n /\ \A i \in 1..n : order[i] \in Nodes
  OBVIOUS
<1>2. PICK f : /\ f[0] = <<>>
               /\ \A i \in 1..n : f[i] = IF IsServing(table, order[i])
                                         THEN CollectNode(f[i - 1], order[i], table[order[i]], chain, ecs)
                                         ELSE f[i - 1]
               /\ f[n] = CollectEdges(table, order, chain, ecs)
  BY CollectEdgesTrace
<1>3. Ids(n) = ToSet(order)
  BY <1>1 DEF ToSet
<1>4. Inv(f[0], 0)
  <2>1. Ids(0) = {}
    OBVIOUS
  <2> HIDE DEF Ids
  <2>2. IpsOf(<<>>) = {} /\ ToSet(<<>>) = {} /\ Distinct(<<>>) /\ <<>> \in Seq(Edge)
    BY DEF IpsOf, ToSet, Distinct
  <2>3. ServedIps(table, {}) = {}
    BY DEF ServedIps
  <2>4. QED
    BY <1>2, <2>1, <2>2, <2>3 DEF Collected
<1>5. ASSUME NEW i \in 0..n, i < n, Inv(f[i], i) PROVE Inv(f[i + 1], i + 1)
  <2>1. i + 1 \in 1..n /\ (i + 1) - 1 = i /\ 1..(i + 1) = (1..i) \cup {i + 1} /\ 1..i \subseteq 1..n
    BY <1>1, <1>5
  <2>2. Ids(i + 1) = Ids(i) \cup {order[i + 1]} /\ Ids(i) \in SUBSET Nodes /\ order[i + 1] \in Nodes
    BY <1>1, <2>1
  <2>3. f[i + 1] = IF IsServing(table, order[i + 1])
                   THEN CollectNode(f[i], order[i + 1], table[order[i + 1]], chain, ecs)
                   ELSE f[i]
    BY <1>2, <2>1
  <2> DEFINE ids == Ids(i)
             id == order[i + 1]
             e == f[i]
  <2> HIDE DEF Ids
  <2>4. Collected(e, table, ids, chain, ecs)
    BY <1>5
  <2>5. ids \in SUBSET Nodes /\ id \in Nodes
    BY <2>2
  <2> HIDE DEF ids, id, e
  <2>6. LET r == IF IsServing(table, id) THEN CollectNode(e, id, table[id], chain, ecs) ELSE e
        IN  Collected(r, table, ids \cup {id}, chain, ecs)
    BY <2>4, <2>5, CollectMore
  <2>7. QED
    BY <2>2, <2>3, <2>6 DEF ids, id, e
<1> HIDE DEF Inv
<1>6. Inv(f[n], n)
  <2> DEFINE S == {i \in 0..n : Inv(f[i], i)}
  <2>1. 0 \in S
    BY <1>1, <1>4
  <2>2. \A i \in 0..n : i < n /\ i \in S => i + 1 \in S
    BY <1>1, <1>5
  <2>3. 0..n \subseteq S
    <3> HIDE DEF S
    <3> QED BY <1>1, <2>1, <2>2, UpTo
  <2>4. QED
    BY <1>1, <2>3, n \in 0..n
<1>7. QED
  BY <1>2, <1>3, <1>6 DEF Inv

\* No edge is less than the one before it.
Ordered(s) == \A i \in 1..(Len(s) - 1) : ~Less(s[i + 1], s[i])

\* The comparison never holds both ways, though it is no order.
LEMMA LessAsymmetric ==
    ASSUME NEW e \in Edge, NEW f \in Edge, Less(e, f)
    PROVE  ~Less(f, e)
<1>1. e.score \in Nat /\ f.score \in Nat /\ e.hash \in Nat /\ f.hash \in Nat /\ Tolerance \in Nat
  BY SelectionAssumption DEF Edge
<1>2. QED
  BY <1>1 DEF Less, Similar

\* Where an edge is put.
LEMMA InsertPosition ==
    ASSUME NEW s \in Seq(Edge), NEW e \in Edge
    PROVE  \E p \in 1..(Len(s) + 1) :
              /\ Insert(s, e) \in Seq(Edge)
              /\ Len(Insert(s, e)) = Len(s) + 1
              /\ \A i \in 1..(p - 1) : Insert(s, e)[i] = s[i]
              /\ Insert(s, e)[p] = e
              /\ \A i \in p..Len(s) : Insert(s, e)[i + 1] = s[i] /\ Less(e, s[i])
              /\ p > 1 => ~Less(e, s[p - 1])
<1> DEFINE n == Len(s)
           stop == {j \in DOMAIN s : ~Less(e, s[j])}
           p == (IF stop = {} THEN 0 ELSE Max(stop)) + 1
           r == InsertAt(s, p, e)
<1>1. n \in Nat /\ DOMAIN s = 1..n /\ \A i \in 1..n : s[i] \in Edge
  OBVIOUS
<1>2. Insert(s, e) = r
  BY DEF Insert
<1>3. /\ p \in 1..(n + 1)
      /\ p > 1 => p - 1 \in stop
      /\ \A j \in stop : j < p
  <2>1. stop \in SUBSET (1..n)
    BY <1>1
  <2> HIDE DEF stop
  <2>2. CASE stop = {}
    BY <1>1, <2>2
  <2>3. CASE stop # {}
    <3>1. Max(stop) \in stop /\ \A j \in stop : j <= Max(stop)
      BY <1>1, <2>1, <2>3, MaxPosition
    <3>2. p = Max(stop) + 1 /\ Max(stop) \in 1..n
      BY <2>1, <2>3, <3>1
    <3> HIDE DEF p
    <3>3. QED
      BY <1>1, <2>1, <3>1, <3>2
  <2>4. QED
    BY <2>2, <2>3
<1>4. \A j \in p..n : Less(e, s[j])
  <2> SUFFICES ASSUME NEW j \in p..n PROVE j \in DOMAIN s /\ j \notin stop
    OBVIOUS
  <2> HIDE DEF p, stop
  <2>1. j \in 1..n /\ ~(j < p)
    BY <1>1, <1>3
  <2>2. QED
    BY <1>1, <1>3, <2>1
<1>5. p > 1 => ~Less(e, s[p - 1])
  <2>1. \A j \in stop : ~Less(e, s[j])
    OBVIOUS
  <2> HIDE DEF p, stop
  <2>2. QED
    BY <1>3, <2>1
<1> HIDE DEF p
<1> DEFINE a == SubSeq(s, 1, p - 1)
           b == SubSeq(s, p, n)
<1>6. a \in Seq(Edge) /\ Len(a) = p - 1 /\ \A i \in 1..(p - 1) : a[i] = s[i]
  BY <1>1, <1>3
<1>7. b \in Seq(Edge) /\ Len(b) = n - p + 1 /\ \A i \in 1..(n - p + 1) : b[i] = s[p + i - 1]
  BY <1>1, <1>3
<1> DEFINE c == a \o <<e>>
<1>8. r = c \o b
  BY DEF InsertAt
<1> HIDE DEF a, b, r, n
<1>9. c \in Seq(Edge) /\ Len(c) = p /\ c[p] = e /\ \A i \in 1..(p - 1) : c[i] = s[i]
  <2>1. <<e>> \in Seq(Edge) /\ Len(<<e>>) = 1 /\ <<e>>[1] = e
    OBVIOUS
  <2>2. QED
    BY <1>3, <1>6, <2>1, ConcatProperties
<1> HIDE DEF c
<1>10. r \in Seq(Edge) /\ Len(r) = n + 1 /\ \A i \in 1..(n + 1) : r[i] = IF i <= p THEN c[i] ELSE b[i - p]
  <2>1. Len(c) + Len(b) = n + 1
    BY <1>1, <1>3, <1>7, <1>9
  <2>2. QED
    BY <1>7, <1>8, <1>9, <2>1, ConcatProperties
<1>11. \A i \in 1..(p - 1) : r[i] = s[i]
  BY <1>1, <1>3, <1>9, <1>10
<1>12. r[p] = e
  BY <1>1, <1>3, <1>9, <1>10
<1>13. ASSUME NEW i \in p..n PROVE r[i + 1] = s[i]
  <2> DEFINE k == i + 1 - p
  <2>1. /\ k \in 1..(n - p + 1) /\ p + k - 1 = i
        /\ ~(i + 1 <= p) /\ i + 1 \in 1..(n + 1) /\ (i + 1) - p = k
    BY <1>1, <1>3
  <2> HIDE DEF k
  <2>2. r[i + 1] = b[(i + 1) - p]
    BY <1>10, <2>1
  <2>3. b[k] = s[p + k - 1]
    BY <1>7, <2>1
  <2>4. QED
    BY <2>1, <2>2, <2>3
<1>14. QED
  BY <1>2, <1>3, <1>4, <1>5, <1>10, <1>11, <1>12, <1>13 DEF n

\* One round of the insertion sort keeps neighbours in order and adds the edge
\* inserted.
LEMMA InsertProperties ==
    ASSUME NEW s \in Seq(Edge), NEW e \in Edge, Ordered(s), Distinct(s), ~Seen(s, e.ip)
    PROVE  /\ Insert(s, e) \in Seq(Edge)
           /\ Len(Insert(s, e)) = Len(s) + 1
           /\ ToSet(Insert(s, e)) = ToSet(s) \cup {e}
           /\ Ordered(Insert(s, e))
           /\ Distinct(Insert(s, e))
<1> DEFINE n == Len(s)
           r == Insert(s, e)
<1>1. n \in Nat /\ DOMAIN s = 1..n /\ \A i \in 1..n : s[i] \in Edge
  OBVIOUS
<1>2. PICK p \in 1..(n + 1) :
              /\ r \in Seq(Edge)
              /\ Len(r) = n + 1
              /\ \A i \in 1..(p - 1) : r[i] = s[i]
              /\ r[p] = e
              /\ \A i \in p..n : r[i + 1] = s[i] /\ Less(e, s[i])
              /\ p > 1 => ~Less(e, s[p - 1])
  BY InsertPosition
<1> HIDE DEF r, n
<1>3. DOMAIN r = 1..(n + 1) /\ \A i \in 1..(n + 1) : r[i] \in Edge
  BY <1>1, <1>2
\* Where the elements of r were before.
<1> DEFINE from == [i \in (1..(n + 1)) \ {p} |-> IF i < p THEN i ELSE i - 1]
<1>4. ASSUME NEW i \in (1..(n + 1)) \ {p}
      PROVE  from[i] \in 1..n /\ r[i] = s[from[i]]
  <2>1. CASE i < p
    BY <1>1, <1>2, <2>1
  <2>2. CASE i > p
    <3>1. i - 1 \in p..n /\ (i - 1) + 1 = i
      BY <1>1, <2>2
    <3>2. r[i] = s[i - 1]
      BY <1>2, <3>1
    <3>3. QED
      BY <1>1, <2>2, <3>2
  <2>3. QED
    BY <1>1, <2>1, <2>2
<1>5. \A i, j \in (1..(n + 1)) \ {p} : from[i] = from[j] => i = j
  BY <1>1
<1>6. \A k \in 1..n : \E i \in 1..(n + 1) : r[i] = s[k]
  <2> TAKE k \in 1..n
  <2>1. CASE k < p
    BY <1>1, <1>2, <2>1
  <2>2. CASE k >= p
    BY <1>1, <1>2, <2>2
  <2>3. QED
    BY <1>1, <2>1, <2>2
<1> HIDE DEF from
<1>7. ToSet(r) = ToSet(s) \cup {e}
  <2>1. ToSet(r) = {r[i] : i \in 1..(n + 1)} /\ ToSet(s) = {s[i] : i \in 1..n}
    BY <1>1, <1>3 DEF ToSet
  <2>2. \A i \in 1..(n + 1) : r[i] = e \/ r[i] \in {s[k] : k \in 1..n}
    BY <1>2, <1>4
  <2>3. \E i \in 1..(n + 1) : r[i] = e
    BY <1>2
  <2>4. QED
    BY <1>6, <2>1, <2>2, <2>3
<1>8. Distinct(r)
  <2>1. \A i \in 1..n : s[i].ip # e.ip
    BY <1>1 DEF Seen
  <2>2. \A i, j \in 1..n : s[i].ip = s[j].ip => i = j
    BY <1>1 DEF Distinct
  <2> SUFFICES ASSUME NEW i \in 1..(n + 1), NEW j \in 1..(n + 1), r[i].ip = r[j].ip PROVE i = j
    BY <1>3 DEF Distinct
  <2>3. CASE i # p /\ j # p
    BY <1>4, <1>5, <2>2, <2>3
  <2>4. CASE i = p \/ j = p
    BY <1>2, <1>4, <2>1, <2>4
  <2>5. QED
    BY <2>3, <2>4
<1>9. Ordered(r)
  <2> SUFFICES ASSUME NEW i \in 1..n PROVE ~Less(r[i + 1], r[i])
    BY <1>1, <1>2 DEF Ordered
  <2>1. \A k \in 1..(n - 1) : ~Less(s[k + 1], s[k])
    BY DEF Ordered, n
  <2>2. CASE i + 1 < p
    <3>1. r[i] = s[i] /\ r[i + 1] = s[i + 1] /\ i \in 1..(n - 1)
      BY <1>1, <1>2, <2>2
    <3>2. QED
      BY <2>1, <3>1
  <2>3. CASE i + 1 = p
    <3>1. p > 1 /\ p - 1 = i /\ i \in 1..(p - 1)
      BY <1>1, <2>3
    <3>2. r[i] = s[i] /\ r[i + 1] = e /\ ~Less(e, s[i])
      BY <1>2, <2>3, <3>1
    <3>3. QED
      BY <3>2
  <2>4. CASE i = p
    <3>1. r[i + 1] = s[i] /\ Less(e, s[i]) /\ r[i] = e /\ s[i] \in Edge
      BY <1>1, <1>2, <2>4
    <3>2. QED
      BY <3>1, LessAsymmetric
  <2>5. CASE i > p
    <3>1. i \in p..n /\ i - 1 \in p..n /\ (i - 1) + 1 = i /\ i - 1 \in 1..(n - 1)
      BY <1>1, <2>5
    <3>2. r[i + 1] = s[i] /\ r[i] = s[i - 1]
      BY <1>2, <3>1
    <3>3. ~Less(s[i], s[i - 1])
      BY <2>1, <3>1
    <3>4. QED
      BY <3>2, <3>3
  <2>6. QED
    BY <1>1, <2>2, <2>3, <2>4, <2>5
<1>10. QED
  BY <1>2, <1>7, <1>8, <1>9 DEF r, n

\* The insertion sort as an iteration.
LEMMA SortTrace ==
    ASSUME NEW edges \in Seq(Edge)
    PROVE  \E f : /\ f[0] = <<>>
                  /\ \A i \in 1..Len(edges) : f[i] = Insert(f[i - 1], edges[i])
                  /\ f[Len(edges)] = Sort(edges)
<1> DEFINE n == Len(edges)
           step == [i \in 1..n |-> [s \in Seq(Edge) |-> Insert(s, edges[i])]]
           Body(it) == [x \in SUBSET DOMAIN edges |->
                         IF x = {} THEN <<>> ELSE Insert(it[x \ {Max(x)}], edges[Max(x)])]
           g == CHOOSE it : it = Body(it)
           f == [i \in 0..n |-> g[1..i]]
<1>1. n \in Nat /\ DOMAIN edges = 1..n /\ \A i \in 1..n : edges[i] \in Edge
  OBVIOUS
<1>2. \A s \in Seq(Edge), e \in Edge : Insert(s, e) \in Seq(Edge)
  BY InsertPosition
<1>3. Sort(edges) = g[1..n]
  BY <1>1 DEF Sort, FoldLeft, MapThenFoldSet
<1>4. step \in [1..n -> [Seq(Edge) -> Seq(Edge)]]
  BY <1>1, <1>2
<1>5. PICK it \in [SUBSET (1..n) -> Seq(Edge)] : Solves(it, n, <<>>, step)
  <2>1. <<>> \in Seq(Edge)
    OBVIOUS
  <2> HIDE DEF step, n
  <2> QED BY <1>1, <1>4, <2>1, FoldRecursion
<1>6. it = Body(it)
  <2>1. ASSUME NEW x \in SUBSET (1..n), x # {}
        PROVE  it[x] = Insert(it[x \ {Max(x)}], edges[Max(x)])
    <3>1. Max(x) \in 1..n
      BY <1>1, <2>1, MaxPosition
    <3>2. it[x \ {Max(x)}] \in Seq(Edge)
      OBVIOUS
    <3>3. it[x] = step[Max(x)][it[x \ {Max(x)}]]
      BY <1>5, <2>1 DEF Solves
    <3>4. QED
      BY <3>1, <3>2, <3>3
  <2>2. it[{}] = <<>>
    BY <1>5 DEF Solves
  <2>3. QED
    BY <1>1, <2>1, <2>2
<1>7. g = Body(g)
  BY <1>6
<1> HIDE DEF g
<1>8. f[0] = <<>>
  BY <1>1, <1>7, 1..0 = {}
<1>9. ASSUME NEW i \in 1..n PROVE f[i] = Insert(f[i - 1], edges[i])
  <2>1. 1..i \in SUBSET (1..n) /\ 1..i # {} /\ (1..i) \ {i} = 1..(i - 1) /\ Max(1..i) = i
    BY <1>1, FirstPositions
  <2>2. g[1..i] = Insert(g[1..(i - 1)], edges[i])
    BY <1>1, <1>7, <2>1
  <2>3. QED
    BY <1>1, <2>2
<1>10. f[n] = Sort(edges)
  BY <1>1, <1>3, n \in 0..n
<1> HIDE DEF f
<1>11. QED
  BY <1>8, <1>9, <1>10

\* What the sort does.
LEMMA SortProperties ==
    ASSUME NEW edges \in Seq(Edge), Distinct(edges)
    PROVE  /\ Sort(edges) \in Seq(Edge)
           /\ Len(Sort(edges)) = Len(edges)
           /\ ToSet(Sort(edges)) = ToSet(edges)
           /\ Ordered(Sort(edges))
           /\ Distinct(Sort(edges))
<1> DEFINE n == Len(edges)
           Inv(r, i) == /\ r \in Seq(Edge)
                        /\ Len(r) = i
                        /\ ToSet(r) = {edges[k] : k \in 1..i}
                        /\ Ordered(r)
                        /\ Distinct(r)
<1>1. n \in Nat /\ DOMAIN edges = 1..n /\ \A i \in 1..n : edges[i] \in Edge
  OBVIOUS
<1>2. PICK f : /\ f[0] = <<>>
               /\ \A i \in 1..n : f[i] = Insert(f[i - 1], edges[i])
               /\ f[n] = Sort(edges)
  BY SortTrace
<1>3. Inv(f[0], 0)
  <2>1. <<>> \in Seq(Edge) /\ Len(<<>>) = 0 /\ ToSet(<<>>) = {} /\ Ordered(<<>>) /\ Distinct(<<>>)
    BY DEF ToSet, Ordered, Distinct
  <2>2. {edges[k] : k \in 1..0} = {}
    OBVIOUS
  <2>3. QED
    BY <1>2, <2>1, <2>2
<1>4. ASSUME NEW i \in 0..n, i < n, Inv(f[i], i) PROVE Inv(f[i + 1], i + 1)
  <2> DEFINE e == edges[i + 1]
  <2>1. /\ i + 1 \in 1..n /\ (i + 1) - 1 = i /\ 1..(i + 1) = (1..i) \cup {i + 1}
        /\ \A k \in 1..i : k \in 1..n /\ k # i + 1
    BY <1>1, <1>4
  <2>2. e \in Edge /\ f[i + 1] = Insert(f[i], e)
    BY <1>1, <1>2, <2>1
  <2>3. \A k \in 1..i : edges[k].ip # e.ip
    BY <1>1, <2>1 DEF Distinct
  <2>4. {edges[k] : k \in 1..(i + 1)} = {edges[k] : k \in 1..i} \cup {e}
    BY <2>1
  <2>5. ~Seen(f[i], e.ip)
    BY <1>4, <2>3 DEF Seen, ToSet
  <2> HIDE DEF e
  <2>6. QED
    BY <1>4, <2>2, <2>4, <2>5, InsertProperties
<1>5. {edges[k] : k \in 1..n} = ToSet(edges)
  BY <1>1 DEF ToSet
<1> HIDE DEF Inv
<1>6. Inv(f[n], n)
  <2> DEFINE S == {i \in 0..n : Inv(f[i], i)}
  <2>1. 0 \in S
    BY <1>1, <1>3
  <2>2. \A i \in 0..n : i < n /\ i \in S => i + 1 \in S
    BY <1>1, <1>4
  <2>3. 0..n \subseteq S
    <3> HIDE DEF S
    <3> QED BY <1>1, <2>1, <2>2, UpTo
  <2>4. QED
    BY <1>1, <2>3, n \in 0..n
<1>7. QED
  BY <1>2, <1>5, <1>6 DEF Inv

\* An edge is at most a tolerance farther away than the next one.
LEMMA NextScore ==
    ASSUME NEW e \in Edge, NEW f \in Edge, ~Less(f, e)
    PROVE  e.score <= f.score + Tolerance
<1>1. e.score \in Nat /\ f.score \in Nat /\ e.hash \in Nat /\ f.hash \in Nat /\ Tolerance \in Nat
  BY SelectionAssumption DEF Edge
<1>2. QED
  BY <1>1 DEF Less, Similar

\* Tolerances add up along a sequence whose neighbours are in order.
LEMMA OneMore ==
    ASSUME NEW a \in Nat, NEW b \in Nat, NEW c \in Nat, NEW d \in Nat,
           a <= b + d * Tolerance, b <= c + Tolerance
    PROVE  a <= c + (d + 1) * Tolerance
<1>1. Tolerance \in Nat
  BY SelectionAssumption
<1>2. (d + 1) * Tolerance = d * Tolerance + Tolerance /\ d * Tolerance \in Nat
  BY <1>1
<1> DEFINE x == d * Tolerance
           y == (d + 1) * Tolerance
<1>3. y = x + Tolerance /\ x \in Nat /\ a <= b + x
  BY <1>2
<1> HIDE DEF x, y
<1>4. a <= c + y
  BY <1>1, <1>3
<1>5. QED
  BY <1>4 DEF y

\* The tolerances add up.
LEMMA ScoreDistance ==
    ASSUME NEW t \in Seq(Edge), Ordered(t), NEW i \in 1..Len(t), NEW j \in 1..Len(t), i <= j
    PROVE  t[i].score <= t[j].score + (j - i) * Tolerance
<1> DEFINE n == Len(t)
           m == n - i
           S == {d \in 0..m : t[i].score <= t[i + d].score + d * Tolerance}
<1>0. \A e \in Edge : e.score \in Nat
  BY DEF Edge
<1>1. n \in Nat /\ m \in Nat /\ Tolerance \in Nat /\ \A k \in 1..n : t[k] \in Edge /\ t[k].score \in Nat
  BY <1>0, SelectionAssumption
<1>2. 0 \in S
  BY <1>1
<1>3. ASSUME NEW d \in 0..m, d < m, d \in S PROVE d + 1 \in S
  <2>1. i + d \in 1..(n - 1) /\ i + d \in 1..n /\ i + (d + 1) = (i + d) + 1 /\ i + (d + 1) \in 1..n
    BY <1>1, <1>3
  <2>2. ~Less(t[(i + d) + 1], t[i + d])
    BY <2>1 DEF Ordered
  <2>3. t[i + d].score <= t[i + (d + 1)].score + Tolerance
    BY <1>1, <2>1, <2>2, NextScore
  <2>4. t[i].score <= t[i + d].score + d * Tolerance
    BY <1>3
  <2>5. /\ t[i].score \in Nat /\ t[i + d].score \in Nat /\ t[i + (d + 1)].score \in Nat
        /\ d + 1 \in 0..m /\ d \in Nat
    BY <1>1, <1>3, <2>1
  <2>6. t[i].score <= t[i + (d + 1)].score + (d + 1) * Tolerance
    BY <2>3, <2>4, <2>5, OneMore
  <2>7. QED
    BY <2>5, <2>6
<1>4. 0..m \subseteq S
  <2> HIDE DEF S, m
  <2> QED BY <1>1, <1>2, <1>3, UpTo
<1>5. j - i \in 0..m /\ i + (j - i) = j
  BY <1>1
<1>6. QED
  BY <1>4, <1>5

\* The answer is the beginning of the sorted edges.
LEMMA EdgeRecordsProperties ==
    ASSUME NEW table, TableOK(table), NEW order \in Seq(Nodes), NEW chain \in Chains,
           NEW ecs \in Clients
    PROVE  LET edges == CollectEdges(table, order, chain, ecs)
               t == Sort(edges)
               m == IF Len(t) > MaxAnswers THEN MaxAnswers ELSE Len(t)
               records == EdgeRecords(table, order, chain, ecs) IN
           /\ m \in 0..Len(t)
           /\ records \in Seq(V4 \cup V6)
           /\ Len(records) = m
           /\ \A i \in 1..m : records[i] = t[i].ip
<1> DEFINE edges == CollectEdges(table, order, chain, ecs)
           t == Sort(edges)
           m == IF Len(t) > MaxAnswers THEN MaxAnswers ELSE Len(t)
           c == SubSeq(t, 1, m)
<1>1. edges \in Seq(Edge) /\ Distinct(edges)
  BY CollectEdgesProperties DEF Collected
<1>2. t \in Seq(Edge)
  <2> HIDE DEF edges
  <2> QED BY <1>1, SortProperties
<1>3. EdgeRecords(table, order, chain, ecs) = [i \in DOMAIN c |-> c[i].ip]
  BY DEF EdgeRecords, Truncate
<1> HIDE DEF t
<1>4. m \in 0..Len(t)
  BY <1>2, SelectionAssumption
<1> HIDE DEF m
<1>5. c \in Seq(Edge) /\ Len(c) = m /\ DOMAIN c = 1..m /\ \A i \in 1..m : c[i] = t[i]
  BY <1>2, <1>4
<1> HIDE DEF c
<1>6. \A i \in 1..m : c[i].ip \in V4 \cup V6
  <2>1. \A i \in 1..m : c[i] \in Edge
    BY <1>5
  <2>2. QED
    BY <2>1 DEF Edge
<1>7. m \in Nat
  BY <1>4
<1>8. /\ [i \in DOMAIN c |-> c[i].ip] \in Seq(V4 \cup V6)
      /\ Len([i \in DOMAIN c |-> c[i].ip]) = m
      /\ \A i \in 1..m : [k \in DOMAIN c |-> c[k].ip][i] = t[i].ip
  BY <1>5, <1>6, <1>7
<1>9. QED
  BY <1>3, <1>4, <1>8 DEF m, t, edges

\* A walk over the table meets every advert.
LEMMA OrdersProperties ==
    ASSUME NEW table, NEW order \in Orders(table)
    PROVE  order \in Seq(Nodes) /\ ToSet(order) = {id \in Nodes : table[id] # NoAdvert}
<1> DEFINE S == {id \in Nodes : table[id] # NoAdvert}
           n == Cardinality(S)
<1>1. IsFiniteSet(S)
  BY SelectionAssumption, FS_Subset
<1>2. order \in [1..n -> S] /\ IsInjective(order)
  BY DEF Orders, SetToSeqs, IsInjective
<1>3. n \in Nat
  <2> HIDE DEF S
  <2> QED BY <1>1, FS_CardinalityType
<1>4. S \subseteq Nodes
  OBVIOUS
<1> HIDE DEF S, n
<1>5. order \in Injection(1..n, S)
  BY <1>2 DEF Injection, IsInjective
<1>6. Cardinality(1..n) = n
  BY <1>3, FS_Interval
<1>7. order \in Surjection(1..n, S)
  BY <1>1, <1>5, <1>6, FS_Injection DEF n
<1>8. order \in Seq(Nodes) /\ DOMAIN order = 1..n
  BY <1>2, <1>3, <1>4
<1>9. ToSet(order) = S
  BY <1>2, <1>7, <1>8 DEF ToSet, Surjection
<1>10. QED
  BY <1>8, <1>9 DEF S

\* What holds up to some tolerances holds up to more of them.
LEMMA TimesMonotonic ==
    ASSUME NEW k \in Nat, NEW m \in Nat, k <= m, NEW a \in Nat, NEW b \in Nat,
           a <= b + k * Tolerance
    PROVE  a <= b + m * Tolerance
<1>1. Tolerance \in Nat /\ m - k \in Nat /\ m = k + (m - k)
  BY SelectionAssumption
<1>2. m * Tolerance = k * Tolerance + (m - k) * Tolerance
  BY <1>1
<1>3. k * Tolerance \in Nat /\ (m - k) * Tolerance \in Nat
  BY <1>1
<1> DEFINE x == k * Tolerance
           y == (m - k) * Tolerance
           z == m * Tolerance
<1>4. z = x + y /\ x \in Nat /\ y \in Nat /\ a <= b + x
  BY <1>2, <1>3
<1> HIDE DEF x, y, z
<1>5. a <= b + z
  BY <1>4
<1>6. QED
  BY <1>5 DEF z

\* NearlyClosest holds of every table of adverts.
LEMMA NearlyClosestHolds ==
    ASSUME TableOK(adverts)
    PROVE  NearlyClosest
<1> SUFFICES ASSUME NEW ecs \in Subnets, NEW chain \in Chains, NEW order \in Orders(adverts)
             PROVE  LET edges == CollectEdges(adverts, order, chain, ecs)
                        records == EdgeRecords(adverts, order, chain, ecs) IN
                    \A e, f \in ToSet(edges) : \A k \in DOMAIN records :
                       records[k] = e.ip =>
                          /\ \A l \in DOMAIN records :
                                k < l /\ records[l] = f.ip
                                => e.score <= f.score + (l - k) * Tolerance
                          /\ f.ip \notin ToSet(records) =>
                                e.score <= f.score + (Len(edges) - k) * Tolerance
  BY DEF NearlyClosest
<1> DEFINE edges == CollectEdges(adverts, order, chain, ecs)
           n == Len(edges)
           t == Sort(edges)
           m == IF Len(t) > MaxAnswers THEN MaxAnswers ELSE Len(t)
           records == EdgeRecords(adverts, order, chain, ecs)
<1>1. ecs \in Clients /\ order \in Seq(Nodes)
  BY ServerAssumption, OrdersProperties DEF Clients
<1>2. edges \in Seq(Edge) /\ Distinct(edges)
  BY <1>1, CollectEdgesProperties DEF Collected
<1>3. /\ m \in 0..Len(t) /\ records \in Seq(V4 \cup V6) /\ Len(records) = m
      /\ \A i \in 1..m : records[i] = t[i].ip
  BY <1>1, EdgeRecordsProperties
<1> HIDE DEF edges, records, m
<1>4. /\ t \in Seq(Edge) /\ Len(t) = n /\ ToSet(t) = ToSet(edges)
      /\ Ordered(t) /\ Distinct(t)
  BY <1>2, SortProperties
<1> HIDE DEF t
<1>5. /\ n \in Nat /\ DOMAIN edges = 1..n /\ DOMAIN t = 1..n /\ m \in 0..n /\ DOMAIN records = 1..m
  BY <1>2, <1>3, <1>4
<1> SUFFICES ASSUME NEW e \in ToSet(t), NEW f \in ToSet(t), NEW k \in 1..m, records[k] = e.ip
             PROVE  /\ \A l \in 1..m : k < l /\ records[l] = f.ip
                                       => e.score <= f.score + (l - k) * Tolerance
                    /\ f.ip \notin ToSet(records) => e.score <= f.score + (n - k) * Tolerance
  BY <1>4, <1>5 DEF edges, records, n
<1>6. e \in Edge /\ f \in Edge /\ e.score \in Nat /\ f.score \in Nat
  <2>1. e \in Edge /\ f \in Edge
    BY <1>4 DEF ToSet
  <2>2. QED
    BY <2>1 DEF Edge
\* An address of the answer is that of one edge, the one at its place.
<1>7. ASSUME NEW g \in ToSet(t), NEW p \in 1..m, records[p] = g.ip PROVE t[p] = g
  <2>1. PICK q \in 1..n : t[q] = g
    BY <1>5 DEF ToSet
  <2>2. p \in 1..n /\ t[p].ip = t[q].ip
    BY <1>3, <1>5, <1>7, <2>1
  <2>3. p = q
    BY <1>4, <1>5, <2>2 DEF Distinct
  <2>4. QED
    BY <2>1, <2>3
<1>8. t[k] = e /\ k \in 1..n
  BY <1>5, <1>7
<1>9. ASSUME NEW l \in 1..m, k < l, records[l] = f.ip
      PROVE  e.score <= f.score + (l - k) * Tolerance
  <2>1. t[l] = f /\ l \in 1..n
    BY <1>5, <1>7, <1>9
  <2>2. QED
    BY <1>4, <1>8, <1>9, <2>1, ScoreDistance
<1>10. ASSUME f.ip \notin ToSet(records)
       PROVE  e.score <= f.score + (n - k) * Tolerance
  <2>1. PICK q \in 1..n : t[q] = f
    BY <1>5 DEF ToSet
  <2>2. ~(q <= m)
    <3> SUFFICES ASSUME q <= m PROVE FALSE
      OBVIOUS
    <3>1. q \in 1..m
      BY <1>5
    <3>2. records[q] = f.ip
      BY <1>3, <2>1, <3>1
    <3>3. QED
      BY <1>5, <1>10, <3>1, <3>2 DEF ToSet
  <2>3. k <= q /\ q - k \in Nat /\ n - k \in Nat /\ q - k <= n - k
    BY <1>5, <1>8, <2>2
  <2>4. e.score <= f.score + (q - k) * Tolerance
    BY <1>4, <1>8, <2>1, <2>3, ScoreDistance
  <2>5. QED
    BY <1>6, <2>3, <2>4, TimesMonotonic
<1>11. QED
  BY <1>9, <1>10

-----------------------------------------------------------------------------
(* The records of an answer                                                *)

\* The loop that filters addresses by type as an iteration.
LEMMA FilterTrace ==
    ASSUME NEW ips \in Seq(V4 \cup V6), NEW type
    PROVE  \E f : /\ f[0] = <<>>
                  /\ \A i \in 1..Len(ips) :
                        f[i] = IF TypeOf(ips[i]) = type THEN Append(f[i - 1], ips[i]) ELSE f[i - 1]
                  /\ f[Len(ips)] = FilterByType(ips, type)
<1> DEFINE A == Seq(V4 \cup V6)
           n == Len(ips)
           Op(kept, ip) == IF TypeOf(ip) = type THEN Append(kept, ip) ELSE kept
           step == [i \in 1..n |-> [kept \in A |-> Op(kept, ips[i])]]
           Body(it) == [x \in SUBSET DOMAIN ips |->
                         IF x = {} THEN <<>> ELSE Op(it[x \ {Max(x)}], ips[Max(x)])]
           g == CHOOSE it : it = Body(it)
           f == [i \in 0..n |-> g[1..i]]
<1>1. n \in Nat /\ DOMAIN ips = 1..n /\ \A i \in 1..n : ips[i] \in V4 \cup V6
  OBVIOUS
<1>2. <<>> \in A /\ \A kept \in A, ip \in V4 \cup V6 : Op(kept, ip) \in A
  OBVIOUS
<1>3. FilterByType(ips, type) = g[1..n]
  BY <1>1 DEF FilterByType, FoldLeft, MapThenFoldSet
<1> HIDE DEF Op, A
<1>4. step \in [1..n -> [A -> A]]
  BY <1>1, <1>2
<1>5. PICK it \in [SUBSET (1..n) -> A] : Solves(it, n, <<>>, step)
  <2> HIDE DEF step, n
  <2> QED BY <1>1, <1>2, <1>4, FoldRecursion
<1>6. it = Body(it)
  <2>1. ASSUME NEW x \in SUBSET (1..n), x # {}
        PROVE  it[x] = Op(it[x \ {Max(x)}], ips[Max(x)])
    <3>1. Max(x) \in 1..n
      BY <1>1, <2>1, MaxPosition
    <3>2. it[x \ {Max(x)}] \in A
      OBVIOUS
    <3>3. it[x] = step[Max(x)][it[x \ {Max(x)}]]
      BY <1>5, <2>1 DEF Solves
    <3>4. QED
      BY <3>1, <3>2, <3>3
  <2>2. it[{}] = <<>>
    BY <1>5 DEF Solves
  <2>3. QED
    BY <1>1, <2>1, <2>2
<1>7. g = Body(g)
  BY <1>6
<1> HIDE DEF g
<1>8. f[0] = <<>>
  BY <1>1, <1>7, 1..0 = {}
<1>9. ASSUME NEW i \in 1..n PROVE f[i] = Op(f[i - 1], ips[i])
  <2>1. 1..i \in SUBSET (1..n) /\ 1..i # {} /\ (1..i) \ {i} = 1..(i - 1) /\ Max(1..i) = i
    BY <1>1, FirstPositions
  <2>2. g[1..i] = Op(g[1..(i - 1)], ips[i])
    BY <1>1, <1>7, <2>1
  <2>3. QED
    BY <1>1, <2>2
<1>10. f[n] = FilterByType(ips, type)
  BY <1>1, <1>3, n \in 0..n
<1> HIDE DEF f
<1>11. QED
  BY <1>8, <1>9, <1>10 DEF Op

\* Filtering leaves exactly the addresses of the type.
LEMMA FilterProperties ==
    ASSUME NEW ips \in Seq(V4 \cup V6), NEW type
    PROVE  /\ FilterByType(ips, type) \in Seq(V4 \cup V6)
           /\ ToSet(FilterByType(ips, type)) = {ip \in ToSet(ips) : TypeOf(ip) = type}
<1> DEFINE n == Len(ips)
           Kept(i) == {ip \in {ips[k] : k \in 1..i} : TypeOf(ip) = type}
           Inv(r, i) == r \in Seq(V4 \cup V6) /\ ToSet(r) = Kept(i)
<1>1. n \in Nat /\ DOMAIN ips = 1..n /\ \A i \in 1..n : ips[i] \in V4 \cup V6
  OBVIOUS
<1>2. PICK f : /\ f[0] = <<>>
               /\ \A i \in 1..n :
                     f[i] = IF TypeOf(ips[i]) = type THEN Append(f[i - 1], ips[i]) ELSE f[i - 1]
               /\ f[n] = FilterByType(ips, type)
  BY FilterTrace
<1>3. Inv(f[0], 0)
  <2>1. Kept(0) = {} /\ ToSet(<<>>) = {}
    BY DEF ToSet
  <2>2. QED
    BY <1>2, <2>1
<1>4. ASSUME NEW i \in 0..n, i < n, Inv(f[i], i) PROVE Inv(f[i + 1], i + 1)
  <2> DEFINE ip == ips[i + 1]
  <2>1. i + 1 \in 1..n /\ (i + 1) - 1 = i /\ 1..(i + 1) = (1..i) \cup {i + 1}
    BY <1>1, <1>4
  <2>2. ip \in V4 \cup V6 /\ f[i + 1] = IF TypeOf(ip) = type THEN Append(f[i], ip) ELSE f[i]
    BY <1>1, <1>2, <2>1
  <2>3. Kept(i + 1) = IF TypeOf(ip) = type THEN Kept(i) \cup {ip} ELSE Kept(i)
    BY <2>1
  <2> HIDE DEF Kept, ip
  <2>4. Append(f[i], ip) \in Seq(V4 \cup V6) /\ ToSet(Append(f[i], ip)) = ToSet(f[i]) \cup {ip}
    <3> DEFINE s == f[i]
               a == Append(s, ip)
               k == Len(s)
    <3>1. s \in Seq(V4 \cup V6)
      BY <1>4
    <3> HIDE DEF s
    <3>2. k \in Nat /\ DOMAIN s = 1..k /\ DOMAIN a = 1..(k + 1) /\ a[k + 1] = ip
          /\ a \in Seq(V4 \cup V6) /\ \A l \in 1..k : a[l] = s[l]
      BY <2>2, <3>1
    <3> HIDE DEF a, k
    <3>3. 1..(k + 1) = (1..k) \cup {k + 1}
      BY <3>2
    <3>4. ToSet(a) = ToSet(s) \cup {ip}
      BY <3>2, <3>3 DEF ToSet
    <3>5. QED
      BY <3>2, <3>4 DEF a, s
  <2>5. QED
    BY <1>4, <2>2, <2>3, <2>4
<1>5. Kept(n) = {ip \in ToSet(ips) : TypeOf(ip) = type}
  BY <1>1 DEF ToSet
<1> HIDE DEF Inv, Kept
<1>6. Inv(f[n], n)
  <2> DEFINE S == {i \in 0..n : Inv(f[i], i)}
  <2>1. 0 \in S
    BY <1>1, <1>3
  <2>2. \A i \in 0..n : i < n /\ i \in S => i + 1 \in S
    BY <1>1, <1>4
  <2>3. 0..n \subseteq S
    <3> HIDE DEF S
    <3> QED BY <1>1, <2>1, <2>2, UpTo
  <2>4. QED
    BY <1>1, <2>3, n \in 0..n
<1>7. QED
  BY <1>2, <1>5, <1>6 DEF Inv

\* The records that answer a query, and the edges they come from.
LEMMA AnswerRecords ==
    ASSUME NEW table, TableOK(table), NEW order \in Orders(table), NEW q \in Queries,
           MatchServiceName(q.name)
    PROVE  LET chain == q.name[Len(q.name)]
               ecs == ClientAddress(q) IN
           /\ chain \in Chains /\ ecs \in Clients /\ order \in Seq(Nodes)
           /\ EdgeRecords(table, order, chain, ecs) \in Seq(V4 \cup V6)
<1> DEFINE chain == q.name[Len(q.name)]
           ecs == ClientAddress(q)
<1>1. chain \in Chains
  BY DEF MatchServiceName
<1>2. ecs \in Clients
  BY ServerAssumption DEF ClientAddress, Queries, Clients
<1>3. order \in Seq(Nodes)
  BY OrdersProperties
<1> HIDE DEF chain, ecs
<1>4. EdgeRecords(table, order, chain, ecs) \in Seq(V4 \cup V6)
  BY <1>1, <1>2, <1>3, EdgeRecordsProperties
<1>5. QED
  BY <1>1, <1>2, <1>3, <1>4 DEF chain, ecs

\* The records of an answer are addresses.
LEMMA AnswerType ==
    ASSUME NEW table, TableOK(table), NEW order \in Orders(table), NEW q \in Queries
    PROVE  AnswerService(table, order, q) \in Seq(V4 \cup V6)
<1>1. CASE ~(MatchServiceName(q.name) /\ AllowedService(q.name))
  BY <1>1 DEF AnswerService
<1>2. CASE MatchServiceName(q.name) /\ AllowedService(q.name)
  <2> DEFINE R == EdgeRecords(table, order, q.name[Len(q.name)], ClientAddress(q))
  <2>1. R \in Seq(V4 \cup V6)
    BY <1>2, AnswerRecords
  <2>2. AnswerService(table, order, q) = Decorate(R, q.type)
    BY <1>2 DEF AnswerService
  <2> HIDE DEF R
  <2>3. \A type : FilterByType(R, type) \in Seq(V4 \cup V6)
    BY <2>1, FilterProperties
  <2>4. BuildHTTPSRecord(R) \in Seq(V4 \cup V6)
    BY <2>3, ConcatProperties DEF BuildHTTPSRecord
  <2>5. QED
    BY <2>1, <2>2, <2>3, <2>4 DEF Decorate
<1>3. QED
  BY <1>1, <1>2

\* Edges have as many addresses as there are edges.
LEMMA AsManyIps ==
    ASSUME NEW edges \in Seq(Edge), Distinct(edges)
    PROVE  Cardinality(IpsOf(edges)) = Len(edges)
<1> DEFINE n == Len(edges)
           f == [i \in 1..n |-> edges[i].ip]
<1>1. n \in Nat /\ DOMAIN edges = 1..n
  OBVIOUS
<1>2. f \in Bijection(1..n, IpsOf(edges))
  BY <1>1 DEF Bijection, Injection, Surjection, IsInjective, IpsOf, Distinct
<1>3. IsFiniteSet(1..n) /\ Cardinality(1..n) = n
  BY <1>1, FS_Interval
<1> HIDE DEF f
<1>4. QED
  BY <1>2, <1>3, FS_Bijection DEF ExistsBijection

\* A walk over the map serves what the whole table serves.
LEMMA ServedByOrder ==
    ASSUME NEW table, NEW order \in Orders(table)
    PROVE  ServedIps(table, ToSet(order)) = ServedIps(table, Nodes)
<1>1. ToSet(order) = {id \in Nodes : table[id] # NoAdvert}
  BY OrdersProperties
<1>2. {n \in ToSet(order) : IsServing(table, n)} = {n \in Nodes : IsServing(table, n)}
  BY <1>1 DEF IsServing
<1>3. QED
  BY <1>2 DEF ServedIps

\* If nothing is cut, a record of another type means that no address has the
\* type asked for.
LEMMA OtherType ==
    ASSUME NEW table, TableOK(table), NEW order \in Orders(table), NEW q \in Queries,
           q.type # "HTTPS", NEW ip \in ToSet(AnswerService(table, order, q)),
           TypeOf(ip) # q.type, Cardinality(ServedIps(table, Nodes)) <= MaxAnswers
    PROVE  \A x \in ServedIps(table, Nodes) : TypeOf(x) # q.type
<1> DEFINE chain == q.name[Len(q.name)]
           ecs == ClientAddress(q)
           edges == CollectEdges(table, order, chain, ecs)
           t == Sort(edges)
           m == IF Len(t) > MaxAnswers THEN MaxAnswers ELSE Len(t)
           R == EdgeRecords(table, order, chain, ecs)
           F == FilterByType(R, q.type)
<1>1. MatchServiceName(q.name) /\ AllowedService(q.name)
  BY DEF AnswerService, ToSet
<1>2. AnswerService(table, order, q) = IF F = <<>> THEN R ELSE F
  BY <1>1 DEF AnswerService, Decorate
<1>3. chain \in Chains /\ ecs \in Clients /\ order \in Seq(Nodes) /\ R \in Seq(V4 \cup V6)
  BY <1>1, AnswerRecords
<1> HIDE DEF chain, ecs
<1>4. ToSet(F) = {x \in ToSet(R) : TypeOf(x) = q.type}
  <2> HIDE DEF R
  <2> QED BY <1>3, FilterProperties
<1>5. Collected(edges, table, ToSet(order), chain, ecs)
  BY <1>3, CollectEdgesProperties
<1>6. m \in 0..Len(t) /\ Len(R) = m /\ \A i \in 1..m : R[i] = t[i].ip
  BY <1>3, EdgeRecordsProperties
<1> HIDE DEF edges, R
<1>7. edges \in Seq(Edge) /\ Distinct(edges) /\ IpsOf(edges) = ServedIps(table, Nodes)
  BY <1>5, ServedByOrder DEF Collected
<1>8. t \in Seq(Edge) /\ Len(t) = Len(edges) /\ ToSet(t) = ToSet(edges)
  BY <1>7, SortProperties
<1> HIDE DEF t
<1>9. Cardinality(IpsOf(edges)) = Len(edges)
  BY <1>7, AsManyIps
<1>10. m = Len(t) /\ DOMAIN t = 1..m /\ DOMAIN R = 1..m
  BY <1>3, <1>6, <1>7, <1>8, <1>9, SelectionAssumption
<1> HIDE DEF m
<1>11. ToSet(R) = IpsOf(t)
  BY <1>6, <1>10 DEF ToSet, IpsOf
<1>12. IpsOf(t) = IpsOf(edges)
  <2>1. \A s : IpsOf(s) = {e.ip : e \in ToSet(s)}
    BY DEF IpsOf, ToSet
  <2>2. QED
    BY <1>8, <2>1
<1>13. F = <<>>
  BY <1>2, <1>4
<1>14. ToSet(F) = {}
  BY <1>13 DEF ToSet
<1>15. QED
  BY <1>4, <1>7, <1>11, <1>12, <1>14

-----------------------------------------------------------------------------
(* The order of the edges                                                  *)

\* Two increasing sequences of the same elements are the same: here, if the
\* first is not longer.
LEMMA IncreasingPrefix ==
    ASSUME NEW B, NEW R, NEW s \in Seq(B), NEW t \in Seq(B),
           \A x, y \in B : <<x, y>> \in R => <<y, x>> \notin R,
           \A i, j \in 1..Len(s) : i < j => <<s[i], s[j]>> \in R,
           \A i, j \in 1..Len(t) : i < j => <<t[i], t[j]>> \in R,
           ToSet(s) = ToSet(t), Len(s) <= Len(t)
    PROVE  s = t
<1> DEFINE n == Len(s)
           m == Len(t)
           S == {i \in 0..n : \A k \in 1..i : s[k] = t[k]}
<1>1. /\ n \in Nat /\ m \in Nat /\ n <= m /\ DOMAIN s = 1..n /\ DOMAIN t = 1..m
      /\ (\A i \in 1..n : s[i] \in B) /\ (\A i \in 1..m : t[i] \in B)
  OBVIOUS
<1>2. (\A i \in 1..n : \E j \in 1..m : s[i] = t[j]) /\ (\A j \in 1..m : \E i \in 1..n : t[j] = s[i])
  <2>1. ToSet(s) = {s[i] : i \in 1..n} /\ ToSet(t) = {t[i] : i \in 1..m}
    BY <1>1 DEF ToSet
  <2>2. \A i \in 1..n : s[i] \in {t[j] : j \in 1..m}
    BY <2>1
  <2>3. \A j \in 1..m : t[j] \in {s[i] : i \in 1..n}
    BY <2>1
  <2> HIDE DEF n, m
  <2>4. QED
    BY <2>2, <2>3
<1>3. /\ \A i, j \in 1..n : i < j => <<s[i], s[j]>> \in R
      /\ \A i, j \in 1..m : i < j => <<t[i], t[j]>> \in R
  OBVIOUS
<1>4. \A x \in B : <<x, x>> \notin R
  OBVIOUS
<1>5. 0 \in S
  BY <1>1
<1>6. ASSUME NEW i \in 0..n, i < n, i \in S PROVE i + 1 \in S
  <2>1. i + 1 \in 1..n /\ i + 1 \in 1..m /\ i + 1 \in 0..n /\ 1..(i + 1) = (1..i) \cup {i + 1}
    BY <1>1, <1>6
  <2>2. \A k \in 1..i : s[k] = t[k] /\ k \in 1..n /\ k \in 1..m /\ k < i + 1
    BY <1>1, <1>6
  <2>3. PICK j \in 1..m : s[i + 1] = t[j]
    BY <1>2, <2>1
  <2>4. PICK k \in 1..n : t[i + 1] = s[k]
    BY <1>2, <2>1
  <2>5. j \notin 1..i
    <3> SUFFICES ASSUME j \in 1..i PROVE FALSE
      OBVIOUS
    <3>1. s[j] = s[i + 1] /\ <<s[j], s[i + 1]>> \in R
      BY <1>3, <2>1, <2>2, <2>3
    <3>2. QED
      BY <1>1, <1>4, <2>1, <3>1
  <2>6. k \notin 1..i
    <3> SUFFICES ASSUME k \in 1..i PROVE FALSE
      OBVIOUS
    <3>1. t[k] = t[i + 1] /\ <<t[k], t[i + 1]>> \in R
      BY <1>3, <2>1, <2>2, <2>4
    <3>2. QED
      BY <1>1, <1>4, <2>1, <3>1
  <2>7. s[i + 1] = t[i + 1]
    <3>1. CASE j = i + 1 \/ k = i + 1
      BY <2>3, <2>4, <3>1
    <3>2. CASE j # i + 1 /\ k # i + 1
      <4>1. i + 1 < j /\ i + 1 < k
        BY <1>1, <2>5, <2>6, <3>2
      <4>2. <<t[i + 1], s[i + 1]>> \in R /\ <<s[i + 1], t[i + 1]>> \in R
        BY <1>3, <2>1, <2>3, <2>4, <4>1
      <4>3. QED
        BY <1>1, <2>1, <4>2
    <3>3. QED
      BY <3>1, <3>2
  <2>8. \A l \in 1..(i + 1) : s[l] = t[l]
    BY <2>1, <2>2, <2>7
  <2>9. QED
    BY <2>1, <2>8
<1>7. \A i \in 1..n : s[i] = t[i]
  <2>1. 0..n \subseteq S
    <3> HIDE DEF S, n
    <3> QED BY <1>1, <1>5, <1>6, UpTo
  <2>2. n \in S
    BY <1>1, <2>1, n \in 0..n
  <2>3. QED
    BY <2>2
<1>8. n = m
  <2> HIDE DEF n, m
  <2> SUFFICES ASSUME n < m PROVE FALSE
    BY <1>1
  <2>1. n + 1 \in 1..m
    BY <1>1
  <2>2. PICK k \in 1..n : t[n + 1] = s[k]
    BY <1>2, <2>1
  <2>3. k \in 1..m /\ k < n + 1 /\ t[k] = t[n + 1]
    BY <1>1, <1>7, <2>2
  <2>4. <<t[k], t[n + 1]>> \in R
    BY <1>3, <2>1, <2>3
  <2>5. QED
    BY <1>1, <1>4, <2>1, <2>3, <2>4
<1>9. QED
  <2> HIDE DEF n, m
  <2>1. s = [i \in 1..n |-> s[i]] /\ t = [i \in 1..m |-> t[i]]
    BY <1>1
  <2>2. QED
    BY <1>7, <1>8, <2>1

\* The hypotheses of AnswerIsDetermined on the edges: no two hashes collide,
\* and similarity is transitive.
Comparable(E) ==
    /\ \A e, f \in E : e.hash = f.hash => e = f
    /\ \A e, f, g \in E : Similar(e, f) /\ Similar(f, g) => Similar(e, g)

\* Where similarity is transitive and hashes differ, the comparison is
\* transitive...
LEMMA LessTransitive ==
    ASSUME NEW E \in SUBSET Edge, Comparable(E), NEW e \in E, NEW f \in E, NEW g \in E,
           Less(e, f), Less(f, g)
    PROVE  Less(e, g)
<1>1. /\ e.score \in Nat /\ f.score \in Nat /\ g.score \in Nat
      /\ e.hash \in Nat /\ f.hash \in Nat /\ g.hash \in Nat /\ Tolerance \in Nat
  BY SelectionAssumption DEF Edge
<1>2. \A x, y \in E : Similar(x, y) => Similar(y, x)
  BY DEF Similar
<1>3. CASE Similar(e, f) /\ Similar(f, g)
  BY <1>1, <1>3 DEF Comparable, Less
<1>4. CASE Similar(e, f) /\ ~Similar(f, g)
  <2>1. ~Similar(e, g)
    BY <1>2, <1>4 DEF Comparable
  <2>2. QED
    BY <1>1, <1>4, <2>1 DEF Less, Similar
<1>5. CASE ~Similar(e, f) /\ Similar(f, g)
  <2>1. ~Similar(e, g)
    BY <1>2, <1>5 DEF Comparable
  <2>2. QED
    BY <1>1, <1>5, <2>1 DEF Less, Similar
<1>6. CASE ~Similar(e, f) /\ ~Similar(f, g)
  BY <1>1, <1>6 DEF Less, Similar
<1>7. QED
  BY <1>3, <1>4, <1>5, <1>6

\* ... and total, so that there it is a strict order.
LEMMA LessTotal ==
    ASSUME NEW E \in SUBSET Edge, Comparable(E), NEW e \in E, NEW f \in E, e # f, ~Less(f, e)
    PROVE  Less(e, f)
<1>1. /\ e.score \in Nat /\ f.score \in Nat /\ e.hash \in Nat /\ f.hash \in Nat /\ Tolerance \in Nat
  BY SelectionAssumption DEF Edge
<1>2. e.hash # f.hash
  BY DEF Comparable
<1>3. Similar(e, f) <=> Similar(f, e)
  BY DEF Similar
<1>4. CASE Similar(e, f)
  BY <1>1, <1>2, <1>3, <1>4 DEF Less
<1>5. CASE ~Similar(e, f)
  <2>1. ~(f.score < e.score)
    BY <1>3, <1>5 DEF Less
  <2>2. e.score # f.score
    BY <1>1, <1>5 DEF Similar
  <2>3. QED
    BY <1>1, <1>5, <2>1, <2>2 DEF Less
<1>6. QED
  BY <1>4, <1>5

\* Then what the sort leaves is increasing.
LEMMA SortIncreasing ==
    ASSUME NEW t \in Seq(Edge), Ordered(t), Distinct(t), Comparable(ToSet(t)),
           NEW i \in 1..Len(t), NEW j \in 1..Len(t), i < j
    PROVE  Less(t[i], t[j])
<1> DEFINE n == Len(t)
           E == ToSet(t)
           m == n - i - 1
           S == {d \in 0..m : Less(t[i], t[i + 1 + d])}
<1>1. n \in Nat /\ m \in Nat /\ DOMAIN t = 1..n /\ \A k \in 1..n : t[k] \in Edge
  OBVIOUS
<1>2. E \in SUBSET Edge /\ \A k \in 1..n : t[k] \in E
  BY <1>1 DEF ToSet
<1> HIDE DEF E
<1>3. ASSUME NEW k \in 1..(n - 1) PROVE Less(t[k], t[k + 1])
  <2>1. k \in 1..n /\ k + 1 \in 1..n /\ k # k + 1
    BY <1>1
  <2>2. t[k] # t[k + 1]
    BY <1>1, <2>1 DEF Distinct
  <2>3. ~Less(t[k + 1], t[k])
    BY DEF Ordered
  <2>4. QED
    BY <1>2, <2>1, <2>2, <2>3, LessTotal DEF E
<1>4. 0 \in S
  <2>1. i \in 1..(n - 1) /\ i + 1 + 0 = i + 1
    BY <1>1
  <2>2. QED
    BY <1>1, <1>3, <2>1
<1>5. ASSUME NEW d \in 0..m, d < m, d \in S PROVE d + 1 \in S
  <2>1. i + 1 + d \in 1..(n - 1) /\ (i + 1 + d) + 1 = i + 1 + (d + 1) /\ d + 1 \in 0..m
    BY <1>1, <1>5
  <2>2. Less(t[i + 1 + d], t[i + 1 + (d + 1)])
    BY <1>3, <2>1
  <2>3. i + 1 + d \in 1..n /\ i + 1 + (d + 1) \in 1..n
    BY <1>1, <2>1
  <2>4. Less(t[i], t[i + 1 + d])
    BY <1>5
  <2>5. Less(t[i], t[i + 1 + (d + 1)])
    BY <1>2, <2>2, <2>3, <2>4, LessTransitive DEF E
  <2>6. QED
    BY <2>1, <2>5
<1>6. 0..m \subseteq S
  <2> HIDE DEF S, m
  <2> QED BY <1>1, <1>4, <1>5, UpTo
<1>7. j - i - 1 \in 0..m /\ i + 1 + (j - i - 1) = j
  BY <1>1
<1>8. QED
  BY <1>6, <1>7

\* A set of at most one element.
LEMMA AtMostOne ==
    ASSUME NEW S, IsFiniteSet(S), Cardinality(S) <= 1, NEW x \in S, NEW y \in S
    PROVE  x = y
<1>1. Cardinality(S) \in Nat
  BY FS_CardinalityType
<1>2. Cardinality(S) # 0
  BY FS_EmptySet
<1>3. Cardinality(S) = 1
  BY <1>1, <1>2
<1>4. \E z : S = {z}
  BY <1>3, FS_Singleton
<1>5. QED
  BY <1>4

\* The edges of a walk do not depend on the walk, if no address has two owners.
LEMMA WalkIndependent ==
    ASSUME NEW table, TableOK(table), NEW order \in Orders(table), NEW chain \in Chains,
           NEW ecs \in Clients,
           \A ip \in V4 \cup V6 :
              Cardinality({n \in Nodes : IsServing(table, n) /\ ip \in ToSet(table[n].ips)}) <= 1
    PROVE  \A e : e \in ToSet(CollectEdges(table, order, chain, ecs))
                  <=> IsEdgeOf(e, table, Nodes, chain, ecs)
<1> DEFINE edges == CollectEdges(table, order, chain, ecs)
<1>1. order \in Seq(Nodes) /\ ToSet(order) \subseteq Nodes
  BY OrdersProperties
<1>2. Collected(edges, table, ToSet(order), chain, ecs)
  BY <1>1, CollectEdgesProperties
<1> HIDE DEF edges
<1>3. IpsOf(edges) = ServedIps(table, Nodes)
  BY <1>2, ServedByOrder DEF Collected
<1>4. \A e \in ToSet(edges) : IsEdgeOf(e, table, Nodes, chain, ecs)
  BY <1>1, <1>2 DEF Collected, IsEdgeOf
<1>5. ASSUME NEW e, IsEdgeOf(e, table, Nodes, chain, ecs) PROVE e \in ToSet(edges)
  <2>0. PICK id \in Nodes : IsEdgeOf(e, table, {id}, chain, ecs)
    BY <1>5 DEF IsEdgeOf
  <2>1. PICK ip \in ToSet(table[id].ips) :
           IsServing(table, id) /\ IsAddress(ip) /\ e = EdgeOf(id, table[id], ip, chain, ecs)
    BY <2>0 DEF IsEdgeOf
  <2>2. ip \in ServedIps(table, Nodes)
    BY <2>1 DEF ServedIps, IsAddress
  <2>3. PICK k \in DOMAIN edges : edges[k].ip = ip
    BY <1>3, <2>2 DEF IpsOf
  <2>4. edges[k] \in ToSet(edges)
    BY DEF ToSet
  <2>5. PICK id2 \in Nodes : \E ip2 \in ToSet(table[id2].ips) :
           IsServing(table, id2) /\ edges[k] = EdgeOf(id2, table[id2], ip2, chain, ecs)
    BY <1>4, <2>4 DEF IsEdgeOf
  <2>6. /\ IsServing(table, id2) /\ ip \in ToSet(table[id2].ips)
        /\ edges[k] = EdgeOf(id2, table[id2], ip, chain, ecs)
    BY <2>3, <2>5 DEF EdgeOf
  <2> DEFINE S == {n \in Nodes : IsServing(table, n) /\ ip \in ToSet(table[n].ips)}
  <2>7. id \in S /\ id2 \in S
    BY <2>1, <2>6
  <2>8. IsFiniteSet(S)
    BY SelectionAssumption, FS_Subset
  <2>9. Cardinality(S) <= 1
    BY <2>1 DEF IsAddress
  <2> HIDE DEF S
  <2>10. id = id2
    BY <2>7, <2>8, <2>9, AtMostOne
  <2>11. QED
    BY <2>1, <2>4, <2>6, <2>10
<1>6. QED
  BY <1>4, <1>5 DEF edges

\* Comparable edges are sorted in one way only.
LEMMA SortUnique ==
    ASSUME NEW a \in Seq(Edge), NEW b \in Seq(Edge), Distinct(a), Distinct(b),
           ToSet(a) = ToSet(b), Comparable(ToSet(a))
    PROVE  Sort(a) = Sort(b)
<1> DEFINE s == Sort(a)
           t == Sort(b)
           R == {p \in Edge \X Edge : Less(p[1], p[2])}
<1>1. s \in Seq(Edge) /\ ToSet(s) = ToSet(a) /\ Ordered(s) /\ Distinct(s)
  BY SortProperties
<1>2. t \in Seq(Edge) /\ ToSet(t) = ToSet(a) /\ Ordered(t) /\ Distinct(t)
  BY SortProperties
<1> HIDE DEF s, t
<1>3. \A x, y \in Edge : <<x, y>> \in R <=> Less(x, y)
  OBVIOUS
<1> HIDE DEF R
<1>4. \A x, y \in Edge : <<x, y>> \in R => <<y, x>> \notin R
  BY <1>3, LessAsymmetric
<1>5. \A i, j \in 1..Len(s) : i < j => <<s[i], s[j]>> \in R
  <2> SUFFICES ASSUME NEW i \in 1..Len(s), NEW j \in 1..Len(s), i < j PROVE <<s[i], s[j]>> \in R
    OBVIOUS
  <2>1. s[i] \in Edge /\ s[j] \in Edge
    BY <1>1
  <2>2. Less(s[i], s[j])
    BY <1>1, SortIncreasing
  <2>3. QED
    BY <1>3, <2>1, <2>2
<1>6. \A i, j \in 1..Len(t) : i < j => <<t[i], t[j]>> \in R
  <2> SUFFICES ASSUME NEW i \in 1..Len(t), NEW j \in 1..Len(t), i < j PROVE <<t[i], t[j]>> \in R
    OBVIOUS
  <2>1. t[i] \in Edge /\ t[j] \in Edge
    BY <1>2
  <2>2. Less(t[i], t[j])
    BY <1>2, SortIncreasing
  <2>3. QED
    BY <1>3, <2>1, <2>2
<1>7. CASE Len(s) <= Len(t)
  <2>1. s = t
    BY <1>1, <1>2, <1>4, <1>5, <1>6, <1>7, IncreasingPrefix
  <2>2. QED
    BY <2>1 DEF s, t
<1>8. CASE Len(t) <= Len(s)
  <2>1. t = s
    BY <1>1, <1>2, <1>4, <1>5, <1>6, <1>8, IncreasingPrefix
  <2>2. QED
    BY <2>1 DEF s, t
<1>9. Len(s) \in Nat /\ Len(t) \in Nat
  BY <1>1, <1>2
<1>10. QED
  BY <1>7, <1>8, <1>9

\* AnswerIsDetermined holds of every table of adverts.
LEMMA AnswerIsDeterminedHolds ==
    ASSUME TableOK(adverts)
    PROVE  AnswerIsDetermined
<1> SUFFICES ASSUME NEW ecs \in Subnets, NEW chain \in Chains,
                    \A ip \in V4 \cup V6 :
                       Cardinality({n \in Nodes : IsServing(adverts, n)
                                                  /\ ip \in ToSet(adverts[n].ips)}) <= 1,
                    Comparable(ToSet(CollectEdges(adverts, CHOOSE order \in Orders(adverts) : TRUE,
                                                  chain, ecs))),
                    NEW o1 \in Orders(adverts), NEW o2 \in Orders(adverts)
             PROVE  EdgeRecords(adverts, o1, chain, ecs) = EdgeRecords(adverts, o2, chain, ecs)
  BY DEF AnswerIsDetermined, Comparable
<1> DEFINE o0 == CHOOSE order \in Orders(adverts) : TRUE
           edges(o) == CollectEdges(adverts, o, chain, ecs)
<1>1. ecs \in Clients
  BY ServerAssumption DEF Clients
<1>2. o0 \in Orders(adverts)
  OBVIOUS
<1> HIDE DEF o0
<1>3. ASSUME NEW o \in Orders(adverts)
      PROVE  /\ edges(o) \in Seq(Edge) /\ Distinct(edges(o))
             /\ \A e : e \in ToSet(edges(o)) <=> IsEdgeOf(e, adverts, Nodes, chain, ecs)
  <2>1. o \in Seq(Nodes)
    BY OrdersProperties
  <2>2. Collected(edges(o), adverts, ToSet(o), chain, ecs)
    BY <1>1, <2>1, CollectEdgesProperties
  <2>3. \A e : e \in ToSet(edges(o)) <=> IsEdgeOf(e, adverts, Nodes, chain, ecs)
    BY <1>1, WalkIndependent
  <2>4. QED
    BY <2>2, <2>3 DEF Collected
<1>4. Comparable(ToSet(edges(o0)))
  BY DEF o0
<1> HIDE DEF edges
<1>5. ToSet(edges(o1)) = ToSet(edges(o0)) /\ ToSet(edges(o2)) = ToSet(edges(o0))
  BY <1>2, <1>3
<1>6. Sort(edges(o1)) = Sort(edges(o2))
  BY <1>3, <1>4, <1>5, SortUnique
<1>7. QED
  BY <1>6 DEF EdgeRecords, edges

-----------------------------------------------------------------------------
(* Serial numbers                                                          *)

\* The types of what the serial numbers depend on.
SerialTypes ==
    /\ now \in 0..MaxTime
    /\ sum \in Nat
    /\ serialCache \in Serials
    /\ handler \in [Handlers -> HandlerState]
    /\ answered \in Serials
    /\ raced \in BOOLEAN

\* What a handler may rely on when it comes to store: its number is larger than
\* the one it looked at, or it is a time that was not before it.
HandlerKnows(s) ==
    /\ s.pc = "now" => s.empty /\ s.base <= now
    /\ s.pc = "load" => ~s.empty /\ s.serial < MaxSerial /\ sum > 0
    /\ s.pc = "store" => s.serial <= MaxSerial
    /\ s.pc = "store" /\ s.empty => s.base <= s.serial /\ s.serial <= now
    /\ s.pc = "store" /\ ~s.empty => sum > 0 /\ (s.base < s.serial \/ s.serial = MaxSerial)

\* The inductive invariant.  As long as the registry is empty only times were
\* stored; as long as nothing raced the cache has the last number given out.
SInv ==
    /\ SerialTypes
    /\ \A h \in Handlers : HandlerKnows(handler[h])
    /\ sum = 0 => serialCache <= now
    /\ ~raced => answered <= serialCache

-----------------------------------------------------------------------------
\* An idle handler knows nothing, and needs nothing.
LEMMA IdleKnows == Idle \in HandlerState /\ HandlerKnows(Idle)
  BY ServerAssumption DEF Idle, HandlerState, HandlerKnows, Serials

\* The server starts with an empty registry, no serial and no query.
LEMMA SInvInit == Init => SInv
<1> SUFFICES ASSUME Init PROVE SInv
  OBVIOUS
<1>1. \A h \in Handlers : handler[h] = Idle
  BY DEF Init
<1>2. SerialTypes
  <2>1. MaxTime \in Nat /\ MaxSerial \in Nat
    BY ServerAssumption
  <2>2. handler \in [Handlers -> HandlerState]
    BY IdleKnows DEF Init
  <2>3. raced \in BOOLEAN
    BY Zenon DEF Init
  <2>4. now \in 0..MaxTime /\ sum \in Nat /\ serialCache \in Serials /\ answered \in Serials
    BY <2>1 DEF Init, Serials
  <2>5. QED
    BY <2>2, <2>3, <2>4 DEF SerialTypes
<1>3. sum = 0 /\ serialCache <= now /\ answered <= serialCache
  BY DEF Init
<1>4. QED
  BY <1>1, <1>2, <1>3, IdleKnows DEF SInv

\* The sum, modulo the largest serial number, is smaller than that.
LEMMA ModInRange ==
    ASSUME NEW n \in Nat
    PROVE  n % MaxSerial \in 0..(MaxSerial - 1)
  BY ServerAssumption

\* A step that neither moves a handler nor writes a serial number keeps the
\* invariant, for the clock and the sum only grow.
LEMMA ZoneStep ==
    ASSUME SInv, UNCHANGED serials, now' \in now..MaxTime, sum' \in Nat, sum' >= sum
    PROVE  SInv'
<1>1. SerialTypes'
  BY ServerAssumption DEF SInv, SerialTypes, serials
<1>2. ASSUME NEW h \in Handlers
      PROVE  HandlerKnows(handler[h])'
  <2>1. handler[h] \in HandlerState /\ HandlerKnows(handler[h]) /\ handler' = handler
    BY DEF SInv, SerialTypes, serials
  <2>2. now \in Nat /\ now' \in Nat
    BY ServerAssumption DEF SInv, SerialTypes
  <2>3. QED
    BY <2>1, <2>2, ServerAssumption DEF SInv, SerialTypes, HandlerKnows, HandlerState, Serials
<1>3. (sum = 0 => serialCache <= now)'
  BY ServerAssumption DEF SInv, SerialTypes, Serials, serials
<1>4. (~raced => answered <= serialCache)'
  BY DEF SInv, serials
<1>5. QED
  BY <1>1, <1>2, <1>3, <1>4 DEF SInv

\* A step by which only handler h learns something keeps the invariant.
LEMMA HandlerStep ==
    ASSUME SInv, NEW h \in Handlers, NEW s \in HandlerState, HandlerKnows(s),
           handler' = [handler EXCEPT ![h] = s],
           UNCHANGED <<zone, serialCache, answered, raced>>
    PROVE  SInv'
<1>1. SerialTypes'
  BY DEF SInv, SerialTypes, zone
<1>2. ASSUME NEW g \in Handlers
      PROVE  HandlerKnows(handler[g])'
  <2>1. handler'[g] = s \/ handler'[g] = handler[g]
    BY DEF SInv, SerialTypes
  <2>2. HandlerKnows(handler'[g])
    BY <2>1 DEF SInv
  <2>3. QED
    BY <2>2 DEF HandlerKnows, zone
<1>3. QED
  BY <1>1, <1>2 DEF SInv, zone

-----------------------------------------------------------------------------
\* Reading the version vector, the first of four unlocked steps, preserves
\* SInv.
LEMMA SumVectorStep ==
    ASSUME SInv, NEW h \in Handlers, SumVector(h)
    PROVE  SInv'
<1> DEFINE s == [pc |-> IF sum = 0 THEN "now" ELSE "load", serial |-> sum % MaxSerial,
                 base |-> serialCache, empty |-> sum = 0]
<1>1. sum % MaxSerial \in 0..(MaxSerial - 1)
  BY ModInRange DEF SInv, SerialTypes
<1>2. s \in HandlerState
  BY <1>1, ServerAssumption DEF SInv, SerialTypes, HandlerState
<1>3. HandlerKnows(s)
  <2>1. CASE sum = 0
    <3>1. s.pc = "now" /\ s.empty /\ s.base = serialCache
      BY <2>1
    <3>2. serialCache <= now
      BY <2>1 DEF SInv
    <3> HIDE DEF s
    <3>3. QED
      BY <3>1, <3>2 DEF HandlerKnows
  <2>2. CASE sum # 0
    <3>1. s.pc = "load" /\ ~s.empty /\ s.serial = sum % MaxSerial
      BY <2>2
    <3>2. sum > 0 /\ sum % MaxSerial < MaxSerial
      BY <1>1, <2>2, ServerAssumption DEF SInv, SerialTypes
    <3> HIDE DEF s
    <3>3. QED
      BY <3>1, <3>2 DEF HandlerKnows
  <2>3. QED
    BY <2>1, <2>2
<1>4. handler' = [handler EXCEPT ![h] = s] /\ UNCHANGED <<zone, serialCache, answered, raced>>
  BY DEF SumVector
<1> HIDE DEF s
<1>5. QED
  BY <1>2, <1>3, <1>4, HandlerStep

\* Falling back on the clock, for an empty registry, preserves SInv.
LEMMA TakeTimeStep ==
    ASSUME SInv, NEW h \in Handlers, TakeTime(h)
    PROVE  SInv'
<1> DEFINE s == [handler[h] EXCEPT !.pc = "store", !.serial = now]
<1>1. handler[h] \in HandlerState /\ HandlerKnows(handler[h]) /\ handler[h].pc = "now" /\ now \in Nat
  BY ServerAssumption DEF SInv, SerialTypes, TakeTime
<1>2. s \in HandlerState
  BY <1>1 DEF HandlerState
<1>3. s.pc = "store" /\ s.serial = now /\ s.base = handler[h].base /\ s.empty = handler[h].empty
  BY <1>1 DEF HandlerState
<1>4. HandlerKnows(s)
  BY <1>1, <1>3, ServerAssumption DEF HandlerKnows, HandlerState, Serials, SInv, SerialTypes
<1>5. handler' = [handler EXCEPT ![h] = s] /\ UNCHANGED <<zone, serialCache, answered, raced>>
  BY DEF TakeTime, SInv, SerialTypes
<1> HIDE DEF s
<1>6. QED
  BY <1>2, <1>4, <1>5, HandlerStep

\* The next serial number is larger than the cached one, or the last there is.
LEMMA NextSerialGrows ==
    ASSUME NEW serial \in 0..(MaxSerial - 1), NEW prev \in Serials
    PROVE  /\ NextSerial(serial, prev) \in Serials
           /\ prev < NextSerial(serial, prev) \/ NextSerial(serial, prev) = MaxSerial
  BY ServerAssumption DEF NextSerial, Serials

\* Loading the cached serial preserves SInv.
LEMMA LoadSerialStep ==
    ASSUME SInv, NEW h \in Handlers, LoadSerial(h)
    PROVE  SInv'
<1> DEFINE n == NextSerial(handler[h].serial, serialCache)
           s == [handler[h] EXCEPT !.pc = "store", !.base = serialCache, !.serial = n]
<1>1. /\ handler[h] \in HandlerState /\ HandlerKnows(handler[h]) /\ handler[h].pc = "load"
      /\ serialCache \in Serials
  BY DEF SInv, SerialTypes, LoadSerial
<1>2. handler[h].serial \in 0..(MaxSerial - 1)
  BY <1>1, ServerAssumption DEF HandlerKnows, HandlerState
<1>3. n \in Serials /\ (serialCache < n \/ n = MaxSerial)
  BY <1>1, <1>2, NextSerialGrows
<1> HIDE DEF n
<1>4. s \in HandlerState
  <2>1. n \in Nat
    BY <1>3, ServerAssumption DEF Serials
  <2>2. QED
    BY <1>1, <2>1 DEF HandlerState
<1>5. s.pc = "store" /\ s.serial = n /\ s.base = serialCache /\ s.empty = handler[h].empty
  BY <1>1 DEF HandlerState
<1>6. HandlerKnows(s)
  BY <1>1, <1>3, <1>5, ServerAssumption DEF HandlerKnows, HandlerState, Serials
<1>7. handler' = [handler EXCEPT ![h] = s] /\ UNCHANGED <<zone, serialCache, answered, raced>>
  BY DEF LoadSerial, SInv, SerialTypes, n
<1> HIDE DEF s
<1>8. QED
  BY <1>4, <1>6, <1>7, HandlerStep

\* If nothing raced, what is stored is as OnlyRacesRepeatSerials says.
LEMMA StoreGrows ==
    ASSUME SInv, NEW h \in Handlers, StoreSerial(h), ~raced'
    PROVE  LET s == handler[h].serial IN
           \/ s > answered
           \/ s = MaxSerial
           \/ handler[h].empty /\ s >= answered
<1>1. handler[h] \in HandlerState /\ HandlerKnows(handler[h]) /\ handler[h].pc = "store"
  BY DEF SInv, SerialTypes, StoreSerial
<1>2. ~raced /\ serialCache = handler[h].base
  BY DEF StoreSerial
<1>3. answered <= serialCache
  BY <1>2 DEF SInv
<1>4. QED
  BY <1>1, <1>2, <1>3, ServerAssumption DEF HandlerKnows, HandlerState, SInv, SerialTypes, Serials

\* Storing and writing the next serial preserves SInv.
LEMMA StoreSerialStep ==
    ASSUME SInv, NEW h \in Handlers, StoreSerial(h)
    PROVE  SInv'
<1> DEFINE s == handler[h].serial
<1>1. handler[h] \in HandlerState /\ HandlerKnows(handler[h]) /\ handler[h].pc = "store"
  BY DEF SInv, SerialTypes, StoreSerial
<1>2. s \in Serials
  BY <1>1, ServerAssumption DEF HandlerKnows, HandlerState, Serials
<1>3. Idle \in HandlerState
  BY IdleKnows
<1>4. UNCHANGED zone /\ serialCache' = s /\ handler' = [handler EXCEPT ![h] = Idle]
  BY DEF StoreSerial
<1>5. answered' = IF s > answered THEN s ELSE answered
  BY DEF StoreSerial
<1>6. raced' \in BOOLEAN
  BY DEF StoreSerial
<1>7. SerialTypes'
  BY <1>2, <1>3, <1>4, <1>5, <1>6 DEF SInv, SerialTypes, zone
<1>8. ASSUME NEW g \in Handlers
      PROVE  HandlerKnows(handler[g])'
  <2>1. handler'[g] = Idle \/ handler'[g] = handler[g]
    BY <1>4 DEF SInv, SerialTypes
  <2>2. HandlerKnows(Idle)
    BY IdleKnows
  <2>3. HandlerKnows(handler'[g])
    BY <2>1, <2>2 DEF SInv
  <2>4. QED
    BY <1>4, <2>3 DEF HandlerKnows, zone
<1>9. (sum = 0 => serialCache <= now)'
  <2>1. sum' = sum /\ now' = now
    BY <1>4 DEF zone
  <2>2. sum = 0 => handler[h].empty
    BY <1>1 DEF HandlerKnows, HandlerState
  <2>3. QED
    BY <1>1, <1>4, <2>1, <2>2 DEF HandlerKnows
<1>10. (~raced => answered <= serialCache)'
  <2> SUFFICES ASSUME ~raced' PROVE answered' <= serialCache'
    OBVIOUS
  <2>1. s > answered \/ s = MaxSerial \/ s >= answered
    BY StoreGrows
  <2>2. QED
    BY <1>2, <1>4, <1>5, <2>1, ServerAssumption DEF SInv, SerialTypes, Serials
<1>11. QED
  BY <1>7, <1>8, <1>9, <1>10 DEF SInv

\* Every step keeps the invariant.
LEMMA SInvNext == SInv /\ [Next]_vars => SInv'
<1> SUFFICES ASSUME SInv, [Next]_vars PROVE SInv'
  OBVIOUS
<1>0. now \in 0..MaxTime /\ MaxTime \in Nat /\ sum \in Nat /\ MaxSum \in Nat
  BY ServerAssumption DEF SInv, SerialTypes
<1>1. CASE Tick
  BY <1>0, <1>1, ZoneStep DEF Tick
<1>2. ASSUME NEW n \in Nodes, Learn(n)
      PROVE  SInv'
  <2>1. sum' \in sum..MaxSum /\ now' = now /\ UNCHANGED serials
    BY <1>2 DEF Learn
  <2>2. QED
    BY <1>0, <2>1, ZoneStep
<1>3. CASE UNCHANGED <<zone, serials>>
  <2>1. now' = now /\ sum' = sum /\ UNCHANGED serials
    BY <1>3 DEF zone
  <2>2. QED
    BY <1>0, <2>1, ZoneStep
<1>4. CASE Refuse \/ Fail \/ ServeNS \/ ServeOther \/ \E q \in Queries : ServeService(q)
  <2>1. UNCHANGED <<zone, serials>>
    BY <1>4 DEF Refuse, Fail, ServeNS, ServeOther, ServeService
  <2>2. QED
    BY <1>3, <2>1
<1>5. ASSUME NEW h \in Handlers, SumVector(h) \/ TakeTime(h) \/ LoadSerial(h) \/ StoreSerial(h)
      PROVE  SInv'
  BY <1>5, SumVectorStep, TakeTimeStep, LoadSerialStep, StoreSerialStep
<1>6. CASE UNCHANGED vars
  BY <1>3, <1>6 DEF vars
<1>7. QED
  BY <1>1, <1>2, <1>4, <1>5, <1>6 DEF Next

\* Serial numbers repeat or go back only after a race, at the end of their
\* range, or within a second of an empty registry.
THEOREM SerialsGrow == Spec => OnlyRacesRepeatSerials
<1>1. Spec => []SInv
  BY SInvInit, SInvNext, PTL DEF Spec
<1>2. SInv /\ [Next]_vars =>
        [\A h \in Handlers : StoreSerial(h) =>
          LET s == handler[h].serial IN
          \/ raced'
          \/ s > answered
          \/ s = MaxSerial
          \/ handler[h].empty /\ s >= answered]_vars
  BY StoreGrows
<1>3. QED
  BY <1>1, <1>2, PTL DEF Spec, OnlyRacesRepeatSerials

-----------------------------------------------------------------------------
(* Types                                                                   *)

\* The registry holds adverts that its nodes may publish.
AdvertTypes == adverts \in [Nodes -> (UNION {Adverts[n] : n \in Nodes}) \cup {NoAdvert}]

\* Together with SInv this is TypeOK, and inductive.
AnswerTypes == AdvertTypes /\ written \in Message

\* A reply without records is a message.
LEMMA ReplyType ==
    ASSUME NEW rcode \in Rcodes
    PROVE  Reply(rcode) \in Message
  BY ServerAssumption DEF Reply, Message, Serials

\* Whatever the table has was advertised, so its addresses can be looked up.
LEMMA AdvertsOK == AdvertTypes => TableOK(adverts)
  BY ServerAssumption DEF AdvertTypes, TableOK

\* An answer with addresses is a message.
LEMMA ServeServiceType ==
    ASSUME AnswerTypes, NEW q \in Queries, ServeService(q)
    PROVE  written' \in Message
<1>1. PICK order \in Orders(adverts) :
         LET records == AnswerService(adverts, order, q) IN
         written' = IF records = <<>> THEN Reply("NXDOMAIN")
                    ELSE [Reply("NOERROR") EXCEPT !.type = q.type, !.records = records]
  BY DEF ServeService
<1> DEFINE records == AnswerService(adverts, order, q)
<1>2. records \in Seq(V4 \cup V6)
  BY AdvertsOK, AnswerType DEF AnswerTypes
<1> HIDE DEF records
<1>3. Reply("NXDOMAIN") \in Message /\ Reply("NOERROR") \in Message
  BY ReplyType DEF Rcodes
<1>4. q.type \in AddressTypes
  BY DEF Queries
<1>5. [Reply("NOERROR") EXCEPT !.type = q.type, !.records = records] \in Message
  BY <1>2, <1>3, <1>4 DEF Message
<1>6. QED
  BY <1>1, <1>3, <1>5 DEF records

\* Every step writes a message, and only adverts come and go.
LEMMA AnswerTypesNext == SInv /\ AnswerTypes /\ [Next]_vars => AnswerTypes'
<1> SUFFICES ASSUME SInv, AnswerTypes, [Next]_vars PROVE AnswerTypes'
  OBVIOUS
<1>1. \A rcode \in Rcodes : Reply(rcode) \in Message
  BY ReplyType
<1>2. Silence \in Message
  BY <1>1 DEF Silence, Rcodes
<1>3. CASE Tick
  BY <1>2, <1>3 DEF Tick, AnswerTypes, AdvertTypes
<1>4. ASSUME NEW n \in Nodes, Learn(n) PROVE AnswerTypes'
  <2>1. PICK a \in Adverts[n] : adverts' = [adverts EXCEPT ![n] = a]
    BY <1>4 DEF Learn
  <2>2. a \in UNION {Adverts[k] : k \in Nodes}
    BY <2>1
  <2>3. AdvertTypes'
    BY <2>1, <2>2 DEF AnswerTypes, AdvertTypes
  <2>4. QED
    BY <1>2, <1>4, <2>3 DEF Learn, AnswerTypes
<1>5. CASE Refuse \/ Fail \/ ServeNS \/ ServeOther
  BY <1>1, <1>2, <1>5 DEF Refuse, Fail, ServeNS, ServeOther, Rcodes, AnswerTypes, AdvertTypes, zone
<1>6. ASSUME NEW q \in Queries, ServeService(q) PROVE AnswerTypes'
  <2>1. adverts' = adverts
    BY <1>6 DEF ServeService, zone
  <2>2. QED
    BY <1>6, <2>1, ServeServiceType DEF AnswerTypes, AdvertTypes
<1>7. ASSUME NEW h \in Handlers, SumVector(h) \/ TakeTime(h) \/ LoadSerial(h) PROVE AnswerTypes'
  BY <1>2, <1>7 DEF SumVector, TakeTime, LoadSerial, AnswerTypes, AdvertTypes, zone
<1>8. ASSUME NEW h \in Handlers, StoreSerial(h) PROVE AnswerTypes'
  <2>1. handler[h].serial \in Serials
    BY <1>8, ServerAssumption DEF SInv, SerialTypes, HandlerKnows, HandlerState, Serials, StoreSerial
  <2>2. [Reply("NOERROR") EXCEPT !.serial = handler[h].serial] \in Message
    BY <1>1, <2>1 DEF Message, Rcodes
  <2>3. QED
    BY <1>8, <2>2 DEF StoreSerial, AnswerTypes, AdvertTypes, zone
<1>9. CASE UNCHANGED vars
  BY <1>9 DEF vars, zone, AnswerTypes, AdvertTypes
<1>10. QED
  BY <1>3, <1>4, <1>5, <1>6, <1>7, <1>8, <1>9 DEF Next

\* The inductive invariant of the server.
LEMMA AnswerInvariant == Spec => [](SInv /\ AnswerTypes)
<1>1. Init => AnswerTypes
  <2>1. Silence \in Message
    BY ReplyType DEF Silence, Rcodes
  <2>2. QED
    BY <2>1 DEF Init, AnswerTypes, AdvertTypes
<1>2. QED
  BY <1>1, SInvInit, SInvNext, AnswerTypesNext, PTL DEF Spec

\* The types of the server's state.  Of the message written it takes that every
\* record of an answer is an address, through the folds, the sort and the cut,
\* and that every serial number given out has 32 bits.
THEOREM ServerTypes == Spec => []TypeOK
<1>1. SInv /\ AnswerTypes => TypeOK
  BY DEF SInv, SerialTypes, AnswerTypes, AdvertTypes, TypeOK
<1>2. QED
  BY <1>1, AnswerInvariant, PTL

-----------------------------------------------------------------------------
(* The edges of an answer                                                  *)

\* For any table of adverts and any order of the walk over it, the k-th edge that
\* EdgeRecords returns is farther away than the l-th, or than one it leaves out,
\* by a tolerance at most for each place between them, though the comparison is no
\* order.  This is a fact about insertion sort, which keeps neighbours in order:
\* the code's sort.Slice is that for up to 12 edges.
THEOREM ClosestEdges == Spec => []NearlyClosest
<1>1. AnswerTypes => NearlyClosest
  BY AdvertsOK, NearlyClosestHolds DEF AnswerTypes
<1>2. QED
  BY <1>1, AnswerInvariant, PTL

\* For any table of adverts EdgeRecords returns the same edges in the same
\* order, however the map is walked, if no two nodes share an address, hashes do
\* not collide and similarity is transitive on the edges there are.  The proof
\* uses of Sort only that it puts the same edges in order.
THEOREM DeterminedAnswers == Spec => []AnswerIsDetermined
<1>1. AnswerTypes => AnswerIsDetermined
  BY AdvertsOK, AnswerIsDeterminedHolds DEF AnswerTypes
<1>2. QED
  BY <1>1, AnswerInvariant, PTL

\* The condition of OtherTypeOnlyIfCut on a step.
LEMMA OtherTypeStep ==
    ASSUME AnswerTypes, Next, written'.type \in {"A", "AAAA"},
           NEW ip \in ToSet(written'.records), TypeOf(ip) # written'.type
    PROVE  LET ips == ServedIps(adverts, Nodes) IN
           (\A x \in ips : TypeOf(x) # written'.type) \/ Cardinality(ips) > MaxAnswers
<1>1. \A rcode : Reply(rcode).type = "other"
  BY DEF Reply
<1>2. PICK q \in Queries : ServeService(q)
  <2>1. ASSUME NEW n \in Nodes, Learn(n) PROVE FALSE
    BY <1>1, <2>1 DEF Learn, Silence
  <2>2. ASSUME NEW h \in Handlers, SumVector(h) \/ TakeTime(h) \/ LoadSerial(h) PROVE FALSE
    BY <1>1, <2>2 DEF SumVector, TakeTime, LoadSerial, Silence
  <2>3. ASSUME NEW h \in Handlers, StoreSerial(h) PROVE FALSE
    <3>1. written'.type = Reply("NOERROR").type
      BY <2>3 DEF StoreSerial, Reply
    <3>2. QED
      BY <1>1, <3>1
  <2>4. CASE Tick \/ Refuse \/ Fail \/ ServeNS \/ ServeOther
    BY <1>1, <2>4 DEF Tick, Refuse, Fail, ServeNS, ServeOther, Silence
  <2>5. QED
    BY <2>1, <2>2, <2>3, <2>4 DEF Next
<1>3. PICK order \in Orders(adverts) :
         LET records == AnswerService(adverts, order, q) IN
         written' = IF records = <<>> THEN Reply("NXDOMAIN")
                    ELSE [Reply("NOERROR") EXCEPT !.type = q.type, !.records = records]
  BY <1>2 DEF ServeService
<1> DEFINE records == AnswerService(adverts, order, q)
           ips == ServedIps(adverts, Nodes)
<1>4. written'.type = q.type /\ written'.records = records
  BY <1>1, <1>3 DEF Reply
<1>5. TableOK(adverts)
  BY AdvertsOK DEF AnswerTypes
<1>6. CASE Cardinality(ips) <= MaxAnswers
  BY <1>4, <1>5, <1>6, OtherType
<1>7. Cardinality(ips) \in Nat /\ MaxAnswers \in Nat
  <2>1. q.type # "HTTPS" /\ ip \in ToSet(records)
    BY <1>4
  <2>2. MatchServiceName(q.name)
    BY <2>1 DEF AnswerService, ToSet
  <2> DEFINE edges == CollectEdges(adverts, order, q.name[Len(q.name)], ClientAddress(q))
  <2>3. Collected(edges, adverts, ToSet(order), q.name[Len(q.name)], ClientAddress(q))
    BY <1>5, <2>2, AnswerRecords, CollectEdgesProperties
  <2>4. edges \in Seq(Edge) /\ Distinct(edges) /\ IpsOf(edges) = ips
    BY <2>3, ServedByOrder DEF Collected
  <2> HIDE DEF edges
  <2>5. Cardinality(ips) = Len(edges)
    BY <2>4, AsManyIps
  <2>6. QED
    BY <2>4, <2>5, SelectionAssumption
<1>8. QED
  BY <1>4, <1>6, <1>7

\* Who asks for one type gets another only if no edge has that type or there
\* are more addresses than places in an answer, for any table of adverts.
THEOREM OtherTypes == Spec => OtherTypeOnlyIfCut
<1> DEFINE A == written'.type \in {"A", "AAAA"} =>
                  LET serving == {n \in Nodes : IsServing(adverts, n)}
                      ips == (UNION {ToSet(adverts[n].ips) : n \in serving}) \cap (V4 \cup V6) IN
                  (\E ip \in ToSet(written'.records) : TypeOf(ip) # written'.type)
                  => \/ \A ip \in ips : TypeOf(ip) # written'.type
                     \/ Cardinality(ips) > MaxAnswers
<1>1. AnswerTypes /\ [Next]_vars => [A]_vars
  <2> SUFFICES ASSUME AnswerTypes, Next PROVE A
    OBVIOUS
  <2>1. QED
    BY OtherTypeStep DEF ServedIps
<1>2. QED
  BY <1>1, AnswerInvariant, PTL DEF Spec, OtherTypeOnlyIfCut
=============================================================================
