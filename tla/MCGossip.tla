------------------------------ MODULE MCGossip ------------------------------
(***************************************************************************)
(* Gossip on the overlays that docs/DEPLOYMENT.md leads to.                *)
(***************************************************************************)
EXTENDS Gossip

CONSTANTS agent, seed, edge, dns

\* Agent, edge and DNS server bootstrap from the seed.
Star == {{agent, seed}, {edge, seed}, {dns, seed}}

\* As Star, and the edge also bootstraps from the agent.
Triangle == Star \cup {{agent, edge}}
=============================================================================
