----------------------------- MODULE MCRegistry -----------------------------
(***************************************************************************)
(* Registry on a small mesh: an edge (or agent) owns a record, the seed is *)
(* the bootstrap peer of the others, and the DNS server only reads.        *)
(***************************************************************************)
EXTENDS Registry

CONSTANTS edge, seed, dns

\* The star of docs/DEPLOYMENT.md: every process bootstraps from the seed.
Star == [r \in Replicas |-> IF r = seed THEN {} ELSE {seed}]

\* Only the owner crashes, once.
OwnerCrashes == [r \in Replicas |-> IF r = edge THEN 1 ELSE 0]

\* The one that only reads crashes, once.
ReaderCrashes == [r \in Replicas |-> IF r = dns THEN 1 ELSE 0]

\* The owner and the seed may crash once each.
OwnerAndSeedCrash == [r \in Replicas |-> IF r \in {edge, seed} THEN 1 ELSE 0]
=============================================================================
