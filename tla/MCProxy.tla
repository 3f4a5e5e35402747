------------------------------ MODULE MCProxy ------------------------------
(***************************************************************************)
(* Proxy with two backends of one chain and one backend of another, all of *)
(* which speak RPC and websocket, and one LCD.                             *)
(***************************************************************************)
EXTENDS Proxy

CONSTANTS luna, terra, b1, b2, b3

ChainTable == [b \in Backends |-> IF b = b3 THEN terra ELSE luna]

CapsTable == [b \in Backends |-> {"rpc", "ws"} \cup (IF b = b2 THEN {"lcd"} ELSE {})]

Probe(statusOK, height, catchingUp) ==
    [statusOK |-> statusOK, height |-> height, catchingUp |-> catchingUp, extrasOK |-> TRUE]

\* One backend goes down and falls behind, one catches up, one is always well.
ProbeTable ==
    [b \in Backends |->
        {Probe(TRUE, 2, FALSE)}
        \cup (IF b = b1 THEN {Probe(TRUE, 1, FALSE), Probe(FALSE, 0, FALSE)} ELSE {})
        \cup (IF b = b2 THEN {Probe(TRUE, 2, TRUE)} ELSE {})]

Get(host, header, path, height) ==
    [host |-> host, header |-> header, path |-> path, method |-> "GET", height |-> height,
     ws |-> FALSE, upgrade |-> FALSE]

\* Two heighted queries, one per chain, a lookup of a transaction, a broadcast,
\* a websocket, and a plain request to the ws service.
SampleRequests ==
    { Get(luna, None, "/block", 2), Get(terra, None, "/block", 2), Get(luna, None, "/cosmos/tx/", 0),
      [Get(luna, None, "/block", 0) EXCEPT !.method = "POST"],
      [Get(luna, None, "/block", 0) EXCEPT !.ws = TRUE, !.upgrade = TRUE],
      [Get(luna, None, "/block", 0) EXCEPT !.ws = TRUE] }

\* The same query, with the chain in a header.
HeaderRequests == { Get(None, luna, "/block", 2), Get(None, terra, "/block", 2) }
============================================================================
