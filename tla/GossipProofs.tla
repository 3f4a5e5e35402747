---------------------------- MODULE GossipProofs ----------------------------
(***************************************************************************)
(* Proofs about Gossip, for every overlay.                                 *)
(***************************************************************************)
EXTENDS Gossip, TLAPS

\* Copies travel between neighbours; a queued envelope came straight from its
\* signer, which is the process itself or a neighbour.
Direct ==
    /\ \A c \in wire : c.to \in Neighbours(c.from)
    /\ \A n \in Nodes : \A m \in queue[n] :
          m.from = m.env.signer /\ (n = m.from \/ n \in Neighbours(m.from))

\* A relayed copy is never relayed again.
NoSecondRelay ==
    \A c \in wire : c.from = c.env.signer \/ c.from \in Neighbours(c.env.signer)

\* An envelope reaches the store of its publisher and of the publisher's
\* direct neighbours only: a relayed copy fails verifyEnvelope in the validator.
OneHop ==
    \A n \in Nodes : \A e \in applied[n] : n = e.signer \/ n \in Neighbours(e.signer)

GossipInv == TypeOK /\ Direct /\ NoSecondRelay /\ OneHop

LEMMA NeighbourTypes ==
    ASSUME NEW n \in Nodes, NEW p \in Neighbours(n)
    PROVE  p \in Nodes /\ n \in Neighbours(p)
BY DEF Neighbours

LEMMA ForwardType ==
    ASSUME NEW n \in Nodes, NEW m \in Received
    PROVE  \A c \in Forward(n, m) : /\ c \in Copy /\ c.env = m.env /\ c.from = n
                                    /\ c.to \in Neighbours(n)
<1> SUFFICES ASSUME NEW c \in Forward(n, m)
             PROVE  c \in Copy /\ c.env = m.env /\ c.from = n /\ c.to \in Neighbours(n)
  OBVIOUS
<1>1. PICK p \in Neighbours(n) : c = [env |-> m.env, from |-> n, to |-> p] BY DEF Forward
<1>2. p \in Nodes /\ m.env \in Envelope BY DEF Neighbours, Received
<1> QED BY <1>1, <1>2 DEF Copy

\* What Accept does to the queues.
LEMMA AcceptStep ==
    ASSUME TypeOK, Direct, NEW n \in Nodes, NEW m \in Received, Accept(n, m),
           n = m.from \/ n \in Neighbours(m.from)
    PROVE  /\ seen' \in [Nodes -> SUBSET Envelope]
           /\ queue' \in [Nodes -> SUBSET Received]
           /\ \A q \in Nodes : \A x \in queue'[q] :
                 x.from = x.env.signer /\ (q = x.from \/ q \in Neighbours(x.from))
<1>1. m.env \in Envelope BY DEF Received
<1>2. seen' \in [Nodes -> SUBSET Envelope] BY <1>1 DEF Accept, TypeOK
<1>3. queue' \in [Nodes -> SUBSET Received] BY DEF Accept, TypeOK
<1>4. ASSUME NEW q \in Nodes, NEW x \in queue'[q]
      PROVE  x.from = x.env.signer /\ (q = x.from \/ q \in Neighbours(x.from))
  <2>1. x \in queue[q] \/ (q = n /\ x = m /\ VerifyEnvelope(m.from, m.env))
    BY <1>4 DEF Accept, TypeOK
  <2> QED BY <2>1 DEF Direct, VerifyEnvelope
<1> QED BY <1>2, <1>3, <1>4

LEMMA GossipStep == GossipInv /\ [Next]_vars => GossipInv'
<1> SUFFICES ASSUME GossipInv, [Next]_vars PROVE GossipInv' OBVIOUS
<1> USE GossipAssumption DEF GossipInv
<1>1. ASSUME NEW n \in Publishers, Publish(n) PROVE GossipInv'
  <2> DEFINE m == [env |-> [signer |-> n, number |-> published[n] + 1], from |-> n]
  <2>1. n \in Nodes /\ m \in Received BY DEF TypeOK, Received, Envelope
  <2>2. /\ published' = [published EXCEPT ![n] = @ + 1] /\ Accept(n, m)
        /\ wire' = wire \cup Forward(n, m) /\ applied' = applied
    BY <1>1 DEF Publish
  <2>3. /\ seen' \in [Nodes -> SUBSET Envelope]
        /\ queue' \in [Nodes -> SUBSET Received]
        /\ \A q \in Nodes : \A x \in queue'[q] :
              x.from = x.env.signer /\ (q = x.from \/ q \in Neighbours(x.from))
    BY <2>1, <2>2, AcceptStep
  <2>4. \A c \in Forward(n, m) : /\ c \in Copy /\ c.env.signer = n /\ c.from = n
                                 /\ c.to \in Neighbours(n)
    BY <2>1, ForwardType
  <2>5. TypeOK'
    <3>1. published' \in [Nodes -> Nat] BY <2>1, <2>2 DEF TypeOK
    <3>2. wire' \subseteq Copy /\ applied' \in [Nodes -> SUBSET Envelope]
      BY <2>2, <2>4 DEF TypeOK
    <3> QED BY <2>3, <3>1, <3>2 DEF TypeOK
  <2>6. Direct' BY <2>2, <2>3, <2>4 DEF Direct
  <2>7. NoSecondRelay' BY <2>2, <2>4 DEF NoSecondRelay
  <2>8. OneHop' BY <2>2 DEF OneHop
  <2> QED BY <2>5, <2>6, <2>7, <2>8
<1>2. ASSUME NEW c \in wire, Duplicate(c) PROVE GossipInv'
  <2>1. wire' \subseteq wire /\ UNCHANGED <<published, seen, queue, applied>>
    BY <1>2 DEF Duplicate
  <2> QED BY <2>1 DEF TypeOK, Direct, NoSecondRelay, OneHop
<1>3. ASSUME NEW c \in wire, Receive(c) PROVE GossipInv'
  <2> DEFINE m == [env |-> c.env, from |-> c.from]
  <2>1. /\ c.env \in Envelope /\ c.from \in Nodes /\ c.to \in Nodes /\ c.env.signer \in Nodes
        /\ c.to \in Neighbours(c.from)
    BY DEF TypeOK, Copy, Envelope, Direct
  <2>2. m \in Received BY <2>1 DEF Received
  <2>3. /\ Accept(c.to, m) /\ published' = published /\ applied' = applied
        /\ wire' = (wire \ {c}) \cup
                   (IF VerifyEnvelope(m.from, m.env) THEN Forward(c.to, m) ELSE {})
    BY <1>3 DEF Receive
  <2>4. /\ seen' \in [Nodes -> SUBSET Envelope]
        /\ queue' \in [Nodes -> SUBSET Received]
        /\ \A q \in Nodes : \A x \in queue'[q] :
              x.from = x.env.signer /\ (q = x.from \/ q \in Neighbours(x.from))
    BY <2>1, <2>2, <2>3, AcceptStep
  <2>5. \A f \in Forward(c.to, m) : /\ f \in Copy /\ f.env = c.env /\ f.from = c.to
                                    /\ f.to \in Neighbours(c.to)
    BY <2>1, <2>2, ForwardType
  <2>6. VerifyEnvelope(m.from, m.env) => c.to \in Neighbours(c.env.signer)
    BY <2>1 DEF VerifyEnvelope
  <2>7. TypeOK' BY <2>3, <2>4, <2>5 DEF TypeOK
  <2>8. Direct' BY <2>3, <2>4, <2>5 DEF Direct
  <2>9. NoSecondRelay' BY <2>3, <2>5, <2>6 DEF NoSecondRelay
  <2>10. OneHop' BY <2>3 DEF OneHop
  <2> QED BY <2>7, <2>8, <2>9, <2>10
<1>4. ASSUME NEW n \in Nodes, Consume(n) PROVE GossipInv'
  <2>1. PICK m \in queue[n] :
          /\ queue' = [queue EXCEPT ![n] = @ \ {m}]
          /\ applied' = IF VerifyEnvelope(m.from, m.env)
                        THEN [applied EXCEPT ![n] = @ \cup {m.env}] ELSE applied
    BY <1>4 DEF Consume
  <2>2. UNCHANGED <<published, wire, seen>> BY <1>4 DEF Consume
  <2>3. m \in Received /\ m.env \in Envelope BY <2>1 DEF TypeOK, Received
  <2>4. \A q \in Nodes : queue'[q] \subseteq queue[q] BY <2>1 DEF TypeOK
  <2>5. TypeOK' BY <2>1, <2>2, <2>3 DEF TypeOK
  <2>6. Direct' BY <2>2, <2>4 DEF Direct
  <2>7. NoSecondRelay' BY <2>2 DEF NoSecondRelay
  <2>8. OneHop'
    <3>1. ASSUME NEW q \in Nodes, NEW e \in applied'[q]
          PROVE  e \in applied[q] \/ (q = n /\ e = m.env)
      BY <2>1, <3>1 DEF TypeOK
    <3>2. n = m.env.signer \/ n \in Neighbours(m.env.signer) BY DEF Direct
    <3> QED BY <3>1, <3>2 DEF OneHop
  <2> QED BY <2>5, <2>6, <2>7, <2>8
<1>5. CASE UNCHANGED vars BY <1>5 DEF vars, TypeOK, Direct, NoSecondRelay, OneHop
<1> QED BY <1>1, <1>2, <1>3, <1>4, <1>5 DEF Next

LEMMA GossipInit == Init => GossipInv
  BY GossipAssumption DEF Init, GossipInv, TypeOK, Direct, NoSecondRelay, OneHop

\* On every overlay envelopes, copies under way and queues keep their types, as
\* gossipsub's seen set and the subscriptions' queues do.
THEOREM GossipTypes == Spec => []TypeOK
  BY GossipInit, GossipStep, PTL DEF Spec, GossipInv

\* Why Propagates fails: on every overlay verifyEnvelope rejects each copy that
\* reaches it by way of somebody else, so an envelope is applied by its publisher
\* and the publisher's neighbours at most, whatever is published and delivered.
THEOREM GossipIsOneHop == Spec => []OneHop
  BY GossipInit, GossipStep, PTL DEF Spec, GossipInv
=============================================================================
