------------------------------- MODULE MCDNS -------------------------------
(***************************************************************************)
(* A DNS server, three edges and clients in two places.  To the western    *)
(* client the edges are at 1, 3 and 5, and the tolerance is 2: the first   *)
(* is similar to the second, the second to the third, and the first is not *)
(* similar to the third.  The second may also be at 12, similar to none.   *)
(***************************************************************************)
EXTENDS DNSServer

CONSTANTS n1, n2, n3

\* No step looks at what the last one wrote.
Unwritten == <<zone, serials>>

\* After a race nothing is said about serial numbers.
UntilRace == ~raced

HandlersAlike == Permutations(Handlers)

TwoAddresses == {"a1", "a2"}
OneV6 == {"b1"}

Advert(ips, country, serving) == [ips |-> ips, country |-> country, nsServing |-> serving]

\* The first edge may stop serving; the second has an address that is none, and
\* may be configured with another country; the third may have the address of
\* the first, as behind one gateway.
Advertised ==
    (n1 :> {Advert(<<"a1">>, "none", TRUE), Advert(<<"a1">>, "none", FALSE)})
    @@ (n2 :> {Advert(<<"bad", "b1">>, "DE", TRUE), Advert(<<"b1">>, "AU", TRUE)})
    @@ (n3 :> {Advert(<<"a2">>, "none", TRUE), Advert(<<"a1", "a2">>, "none", TRUE)})

\* The geo provider does not know the second edge's address nor one client's.
Places ==
    ("a1" :> "west") @@ ("a2" :> "east") @@ ("b1" :> "ZZ") @@ ("bad" :> "ZZ")
    @@ ("c1" :> "west") @@ ("c2" :> "ZZ")

Countries == ("DE" :> "middle") @@ ("AU" :> "far")

\* The scores of the western client, and of one that is nowhere, to whom the
\* edges are all far apart.
West == ("west" :> 1) @@ ("middle" :> 3) @@ ("east" :> 5) @@ ("far" :> 12)
Null == ("west" :> 0) @@ ("middle" :> 3) @@ ("east" :> 9) @@ ("far" :> 12)
Far(client, node) == IF client = "west" THEN West[node] ELSE Null[node]

\* Of similar edges the farther one has the smaller hash.
Hashes(chain, id, ip, ecs) == CASE ip = "a2" -> 1 [] ip = "b1" -> 2 [] OTHER -> IF id = n1 THEN 3 ELSE 4

Asked == {<<"rpc", "c">>, <<"www", "c">>, <<"rpc", "d">>}
=============================================================================
