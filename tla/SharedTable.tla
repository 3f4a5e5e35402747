---------------------------- MODULE SharedTable ----------------------------
(***************************************************************************)
(* What the mesh registry promises, without messages, snapshots or version *)
(* vectors: there is one growing set of published records, and every       *)
(* process has a table into which it takes records of that set, each       *)
(* instead of one that is not newer.  A process that dies forgets all.     *)
(***************************************************************************)
EXTENDS LWWMap

CONSTANTS
    Replicas,      \* the processes
    Publishers     \* those that own a record

VARIABLES
    items,         \* items[r]: the table of process r
    minted         \* the records published

vars == <<items, minted>>

NothingKnown == [k \in Publishers |-> NoEntry]

Init ==
    /\ items = [r \in Replicas |-> NothingKnown]
    /\ minted = {}

\* Only the table of r changes, and each of its entries only to a published
\* record of its owner that is not older.
Advances(r) ==
    /\ items' = [items EXCEPT ![r] = items'[r]]
    /\ \A k \in Publishers :
          items'[r][k] # items[r][k] =>
              \E m \in minted' : /\ m.id = k
                                 /\ m.entry = items'[r][k]
                                 /\ Accepts(items[r], k, m.entry.clock)

\* An owner publishes a record of its own, and may take it into its table.
Publish(p) ==
    /\ \E m \in minted' : m.id = p /\ minted' = minted \cup {m}
    /\ Advances(p)

Learn(r) == minted' = minted /\ Advances(r)

Forget(r) == minted' = minted /\ items' = [items EXCEPT ![r] = NothingKnown]

Next ==
    \/ \E p \in Publishers : Publish(p)
    \/ \E r \in Replicas : Learn(r) \/ Forget(r)

Spec == Init /\ [][Next]_vars
=============================================================================
