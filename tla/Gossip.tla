------------------------------- MODULE Gossip -------------------------------
(***************************************************************************)
(* The publish/subscribe path of pkg/gossip/service.go over a libp2p       *)
(* gossipsub overlay.  An envelope is signed by its publisher; a process   *)
(* that receives one runs the topic validator registerValidators installs, *)
(* and only then hands it to its own subscription and passes it on to its  *)
(* neighbours.  consume verifies it once more before the store sees it.    *)
(*                                                                         *)
(* verifyEnvelope compares the signer with the peer the message was        *)
(* RECEIVED FROM, so this module is about what becomes of the relayed      *)
(* copies.  All envelopes here are well formed and on the right topic.     *)
(***************************************************************************)
EXTENDS Naturals

CONSTANTS
    Nodes,         \* the processes of the mesh
    Links,         \* the open connections, as unordered pairs
    Publishers,    \* the processes that publish
    MaxMessages    \* bound: envelopes one process publishes

ASSUME GossipAssumption ==
    /\ Links \subseteq SUBSET Nodes
    /\ Publishers \subseteq Nodes
    /\ MaxMessages \in Nat

VARIABLES
    published,     \* published[n]: how many envelopes n published
    wire,          \* copies under way between neighbours
    seen,          \* seen[n]: the messages n's pubsub will not look at again
    queue,         \* queue[n]: envelopes handed to n's subscription
    applied        \* applied[n]: envelopes whose payload reached n's store

vars == <<published, wire, seen, queue, applied>>

-----------------------------------------------------------------------------
\* An envelope: who signed it, and which of the signer's messages it is.
Envelope == [signer : Nodes, number : Nat]

\* An envelope and the peer it was received from (pubsub's ReceivedFrom).
Received == [env : Envelope, from : Nodes]

\* A copy of an envelope on the connection between two neighbours.
Copy == [env : Envelope, from : Nodes, to : Nodes]

Neighbours(n) == {p \in Nodes \ {n} : {n, p} \in Links}

TypeOK ==
    /\ published \in [Nodes -> Nat]
    /\ wire \subseteq Copy
    /\ seen \in [Nodes -> SUBSET Envelope]
    /\ queue \in [Nodes -> SUBSET Received]
    /\ applied \in [Nodes -> SUBSET Envelope]

Init ==
    /\ published = [n \in Nodes |-> 0]
    /\ wire = {}
    /\ seen = [n \in Nodes |-> {}]
    /\ queue = [n \in Nodes |-> {}]
    /\ applied = [n \in Nodes |-> {}]

-----------------------------------------------------------------------------
\* Mutant of VerifyEnvelope: the comparison is the wrong way round.
VerifyInverted(from, env) == env.signer # from

\* verifyEnvelope: the key in the envelope belongs to the peer it came from.
VerifyEnvelope(from, env) == env.signer = from

\* Gossipsub passes a valid message on, but not back to where it came from
\* and not to its author.
Forward(n, m) ==
    {[env |-> m.env, from |-> n, to |-> p] :
        p \in Neighbours(n) \ {m.from, m.env.signer}}

\* Mutant of Accept: the peer the envelope came from is lost on the way.
AcceptBareEnvelope(n, m) ==
    /\ seen' = [seen EXCEPT ![n] = @ \cup {m.env}]
    /\ queue' = IF VerifyEnvelope(m.from, m.env)
                THEN [queue EXCEPT ![n] = @ \cup {m.env}] ELSE queue

\* A message that pubsub has not seen: it is marked, then validated.
Accept(n, m) ==
    /\ seen' = [seen EXCEPT ![n] = @ \cup {m.env}]
    /\ queue' = IF VerifyEnvelope(m.from, m.env)
                THEN [queue EXCEPT ![n] = @ \cup {m}] ELSE queue

\* Service.Publish: encodeEnvelope and topic.Publish, which validates the
\* message as if the publisher had received it from itself.
Publish(n) ==
    LET m == [env |-> [signer |-> n, number |-> published[n] + 1], from |-> n] IN
    /\ published[n] < MaxMessages
    /\ published' = [published EXCEPT ![n] = @ + 1]
    /\ Accept(n, m)
    /\ wire' = wire \cup Forward(n, m)
    /\ UNCHANGED applied

\* A copy arrives that pubsub has seen already.
Duplicate(c) ==
    /\ c.env \in seen[c.to]
    /\ wire' = wire \ {c}
    /\ UNCHANGED <<published, seen, queue, applied>>

\* A copy arrives that is new: validate it, and pass it on if it is valid.
Receive(c) ==
    LET m == [env |-> c.env, from |-> c.from] IN
    /\ c.env \notin seen[c.to]
    /\ Accept(c.to, m)
    /\ wire' = (wire \ {c}) \cup
               (IF VerifyEnvelope(m.from, m.env) THEN Forward(c.to, m) ELSE {})
    /\ UNCHANGED <<published, applied>>

\* The consume loop and handlePayload.
Consume(n) ==
    /\ \E m \in queue[n] :
          /\ queue' = [queue EXCEPT ![n] = @ \ {m}]
          /\ applied' = IF VerifyEnvelope(m.from, m.env)
                        THEN [applied EXCEPT ![n] = @ \cup {m.env}] ELSE applied
    /\ UNCHANGED <<published, wire, seen>>

Next ==
    \/ \E n \in Publishers : Publish(n)
    \/ \E c \in wire : Duplicate(c) \/ Receive(c)
    \/ \E n \in Nodes : Consume(n)

\* No message is lost, every publisher keeps publishing, everything that is
\* under way arrives and every subscription is read.
Fairness ==
    /\ \A n \in Publishers : WF_vars(Publish(n))
    /\ WF_vars(\E c \in wire : Duplicate(c) \/ Receive(c))
    /\ \A n \in Nodes : WF_vars(Consume(n))

Spec == Init /\ [][Next]_vars
FairSpec == Spec /\ Fairness

-----------------------------------------------------------------------------
(* Properties                                                              *)

\* A neighbour that shares no other neighbour with a publisher applies each of
\* its envelopes, when nothing is lost.  (Where the overlay has a triangle, a
\* relayed copy may come first, be rejected, and make pubsub drop the
\* publisher's own copy as seen.)
NeighboursApply ==
    \A p \in Publishers : \A n \in Neighbours(p) : \A i \in 1..MaxMessages :
        Neighbours(p) \cap Neighbours(n) = {} =>
            <>([signer |-> p, number |-> i] \in applied[n])

\* n is p, or can be reached from p over open connections: it is in every set
\* of processes that holds p and the neighbours of its members.
Connected(p, n) ==
    \A S \in SUBSET Nodes :
        p \in S /\ (\A q \in S : Neighbours(q) \subseteq S) => n \in S

\* What a publisher keeps publishing reaches the whole mesh, as agent.go:218 and
\* service.go:321 say: a process connected to it, however many hops away, applies
\* one of its envelopes in the end, when nothing is lost.
Propagates ==
    \A p \in Publishers : \A n \in Nodes :
        Connected(p, n) =>
            <>(\E i \in 1..MaxMessages : [signer |-> p, number |-> i] \in applied[n])
=============================================================================
