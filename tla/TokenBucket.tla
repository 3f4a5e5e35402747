---------------------------- MODULE TokenBucket ----------------------------
(***************************************************************************)
(* What a rate limiter promises: every client has a bucket of its own,     *)
(* full at first, from which each request that is allowed takes Cost units *)
(* and into which one unit drips per tick.  Nothing is ever forgotten.     *)
(***************************************************************************)
EXTENDS Naturals

CONSTANTS
    Clients,    \* addresses
    None,       \* no address
    Full,       \* burst
    Cost        \* what a request takes

VARIABLES
    level,      \* level[c]: what is in the bucket of c
    verdict     \* who asked last and what the answer was

vars == <<level, verdict>>

Init ==
    /\ level = [c \in Clients |-> Full]
    /\ verdict = [client |-> None, allowed |-> TRUE]

Drip ==
    /\ level' = [c \in Clients |-> IF level[c] < Full THEN level[c] + 1 ELSE Full]
    /\ UNCHANGED verdict

Ask(c) ==
    /\ verdict' = [client |-> c, allowed |-> level[c] >= Cost]
    /\ level' = IF level[c] >= Cost THEN [level EXCEPT ![c] = @ - Cost] ELSE level

\* Who has no address is not limited.
AskUnknown ==
    /\ verdict' = [client |-> None, allowed |-> TRUE]
    /\ UNCHANGED level

Next == Drip \/ AskUnknown \/ \E c \in Clients : Ask(c)

Spec == Init /\ [][Next]_vars
=============================================================================
