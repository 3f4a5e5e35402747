--------------------------- MODULE RegistryProofs ---------------------------
(***************************************************************************)
(* Proofs about Registry, for every mesh, every number of crashes and      *)
(* records, and both tables.                                               *)
(***************************************************************************)
EXTENDS Registry, TLAPS

-----------------------------------------------------------------------------
(* Types of the operators                                                  *)

\* A key without an entry.
LEMMA NoEntryType == NoEntry \in Entry
BY DEF NoEntry, Entry, Clock

\* Upsert makes a table of a table.
LEMMA UpsertType ==
    ASSUME NEW t \in Tables, NEW k \in Publishers, NEW e \in Entry
    PROVE  Upsert(t, k, e) \in Tables
BY DEF Upsert, Tables

\* Merge makes a table of two tables.
LEMMA MergeType ==
    ASSUME NEW t \in Tables, NEW u \in Tables
    PROVE  Merge(t, u) \in Tables
BY DEF Merge, Taken, Keys, Tables

\* A Bump makes a version vector of a version vector.
LEMMA RaiseType ==
    ASSUME NEW v \in Vectors, NEW k \in Publishers, NEW c \in Nat
    PROVE  Raise(v, k, c) \in Vectors
BY DEF Raise, Vectors

\* What a process has when it starts, and a round of anti-entropy when none is
\* under way.
LEMMA IdleTypes ==
    /\ EmptyMap \in Tables
    /\ ZeroVector \in Vectors
    /\ NoBumps \in [Goroutines -> SUBSET BumpCall]
    /\ \A r \in Replicas : IdleSync(r) \in SyncState
BY NoEntryType DEF EmptyMap, Tables, ZeroVector, Vectors, NoBumps, IdleSync, SyncState, Phases

\* The peer a round of anti-entropy turns to.
LEMMA NextPeerType ==
    ASSUME NEW r \in Replicas, NEW todo \in SUBSET Replicas
    PROVE  NextPeer(r, todo) \in SyncState
BY IdleTypes DEF NextPeer, IdleSync, SyncState, Phases

\* Updates of a sync exchange: towards a request, and with half of a response.
LEMMA SyncRequestType ==
    ASSUME TypeOK, NEW r \in Replicas, NEW phase \in Phases, NEW todo \in SUBSET Replicas,
           NEW peer \in Replicas
    PROVE  /\ [sync EXCEPT ![r].phase = phase, ![r].todo = todo] \in [Replicas -> SyncState]
           /\ [sync EXCEPT ![r].phase = phase, ![r].peer = peer, ![r].todo = todo]
                 \in [Replicas -> SyncState]
<1>1. sync \in [Replicas -> SyncState] BY DEF TypeOK
<1>2. sync[r] \in SyncState BY <1>1
<1>3. [sync[r] EXCEPT !.phase = phase, !.todo = todo] \in SyncState BY <1>2 DEF SyncState
<1>4. [sync[r] EXCEPT !.phase = phase, !.peer = peer, !.todo = todo] \in SyncState
  BY <1>2 DEF SyncState
<1> QED BY <1>1, <1>3, <1>4

\* A round of anti-entropy that takes the copy of a table into its response.
LEMMA SyncItemsType ==
    ASSUME TypeOK, NEW r \in Replicas, NEW phase \in Phases, NEW entries \in Tables
    PROVE  [sync EXCEPT ![r].phase = phase, ![r].entries = entries] \in [Replicas -> SyncState]
<1>1. sync \in [Replicas -> SyncState] /\ sync[r] \in SyncState BY DEF TypeOK
<1>2. [sync[r] EXCEPT !.phase = phase, !.entries = entries] \in SyncState BY <1>1 DEF SyncState
<1> QED BY <1>1, <1>2

\* A round of anti-entropy that takes the copy of a vector into its response.
LEMMA SyncVectorType ==
    ASSUME TypeOK, NEW r \in Replicas, NEW phase \in Phases, NEW v \in Vectors
    PROVE  [sync EXCEPT ![r].phase = phase, ![r].vv = v] \in [Replicas -> SyncState]
<1>1. sync \in [Replicas -> SyncState] /\ sync[r] \in SyncState BY DEF TypeOK
<1>2. [sync[r] EXCEPT !.phase = phase, !.vv = v] \in SyncState BY <1>1 DEF SyncState
<1> QED BY <1>1, <1>2

\* What an owner publishes is a record.
LEMMA NewRecordType ==
    ASSUME TypeOK, NEW p \in Publishers
    PROVE  NewRecord(p) \in Record
BY RegistryAssumption DEF TypeOK, NewRecord, Record, Entry, Clock, NextClock, Stamp

\* A stream that breaks leaves a round of anti-entropy in a proper state.
LEMMA BreakStreamType ==
    ASSUME TypeOK, NEW r \in Replicas, NEW broken
    PROVE  BreakStream(r, broken) \in SyncState
<1> sync[r] \in SyncState BY DEF TypeOK
<1> sync[r].todo \in SUBSET Replicas BY DEF SyncState
<1> QED BY NextPeerType DEF BreakStream

-----------------------------------------------------------------------------
(* The type invariant                                                      *)

\* Apply* keeps types.
LEMMA ApplyType ==
    ASSUME TypeOK, NEW r \in Replicas, NEW g \in Goroutines, NEW m \in Record,
           Apply(r, g, m)
    PROVE  /\ items' \in [Replicas -> Tables]
           /\ bumps' \in [Replicas -> [Goroutines -> SUBSET BumpCall]]
<1>1. /\ m.id \in Publishers /\ m.entry \in Entry /\ m.entry.clock.lamport \in Nat
      /\ items[r] \in Tables
  BY DEF TypeOK, Record, Entry, Clock
<1>2. Upsert(items[r], m.id, m.entry) \in Tables BY <1>1, UpsertType
<1>3. items' \in [Replicas -> Tables] BY <1>2 DEF Apply, TypeOK
<1>4. [id |-> m.id, counter |-> m.entry.clock.lamport] \in BumpCall BY <1>1 DEF BumpCall
<1>5. bumps' \in [Replicas -> [Goroutines -> SUBSET BumpCall]] BY <1>4 DEF Apply, TypeOK
<1> QED BY <1>3, <1>5

\* TypeOK is inductive.
LEMMA TypeStep == TypeOK /\ [Next]_vars => TypeOK'
<1> SUFFICES ASSUME TypeOK, [Next]_vars PROVE TypeOK' OBVIOUS
<1> USE RegistryAssumption, IdleTypes DEF process, store
<1>1. CASE Tick BY <1>1 DEF TypeOK, Tick
<1>2. ASSUME NEW r \in Replicas, Start(r) PROVE TypeOK'
  BY <1>2 DEF TypeOK, Start, Dialled
<1>3. ASSUME NEW r \in Replicas, Crash(r) PROVE TypeOK'
  <2>1. sync' \in [Replicas -> SyncState] BY <1>3, BreakStreamType DEF Crash
  <2> QED BY <1>3, <2>1 DEF TypeOK, Crash
<1>4. ASSUME NEW c \in conn, Disconnect(c) PROVE TypeOK'
  <2>1. sync' \in [Replicas -> SyncState] BY <1>4, BreakStreamType DEF Disconnect
  <2>2. conn' \subseteq SUBSET Replicas /\ fails' \in Nat BY <1>4 DEF TypeOK, Disconnect
  <2> QED BY <1>4, <2>1, <2>2 DEF TypeOK, Disconnect
<1>5. ASSUME NEW p \in Publishers, Publish(p) PROVE TypeOK'
  <2>1. NewRecord(p) \in Record BY NewRecordType
  <2>2. /\ items' \in [Replicas -> Tables]
        /\ bumps' \in [Replicas -> [Goroutines -> SUBSET BumpCall]]
    BY <1>5, <2>1, ApplyType DEF Publish, Goroutines
  <2>3. seq' \in [Replicas -> Nat] BY <1>5 DEF TypeOK, Publish, NextClock
  <2> QED BY <1>5, <2>1, <2>2, <2>3 DEF TypeOK, Publish
<1>6. ASSUME NEW p \in Publishers, Send(p) PROVE TypeOK'
  BY <1>6 DEF TypeOK, Send
<1>7. ASSUME NEW r \in Replicas, Consume(r) PROVE TypeOK'
  <2>1. PICK m \in inbox[r] : /\ inbox' = [inbox EXCEPT ![r] = @ \ {m}]
                              /\ Apply(r, "consume", m)
    BY <1>7 DEF Consume
  <2>2. m \in Record BY <2>1 DEF TypeOK
  <2>3. /\ items' \in [Replicas -> Tables]
        /\ bumps' \in [Replicas -> [Goroutines -> SUBSET BumpCall]]
    BY <2>1, <2>2, ApplyType DEF Goroutines
  <2> QED BY <1>7, <2>1, <2>3 DEF TypeOK, Consume
<1>8. ASSUME NEW r \in Replicas, NEW g \in Goroutines, Bump(r, g) PROVE TypeOK'
  <2>1. PICK b \in bumps[r][g] :
             /\ vv' = [vv EXCEPT ![r] = Raise(@, b.id, b.counter)]
             /\ bumps' = [bumps EXCEPT ![r][g] = @ \ {b}]
    BY <1>8 DEF Bump
  <2>2. b.id \in Publishers /\ b.counter \in Nat BY <2>1 DEF TypeOK, BumpCall
  <2>3. Raise(vv[r], b.id, b.counter) \in Vectors BY <2>2, RaiseType DEF TypeOK
  <2> QED BY <1>8, <2>1, <2>3 DEF TypeOK, Bump
<1>9. ASSUME NEW r \in Replicas, RoundStart(r) PROVE TypeOK'
  <2>1. Peers(r) \in SUBSET Replicas BY DEF Peers
  <2>2. sync' \in [Replicas -> SyncState]
    BY <1>9, <2>1, SyncRequestType DEF RoundStart, Phases
  <2> QED BY <1>9, <2>2 DEF TypeOK, RoundStart
<1>10. ASSUME NEW r \in Replicas, SyncAsk(r) PROVE TypeOK'
  <2>1. PICK p \in sync[r].todo :
          IF Linked(r, p)
          THEN sync' = [sync EXCEPT ![r].phase = "asked", ![r].peer = p,
                                    ![r].todo = @ \ {p}]
          ELSE sync' = [sync EXCEPT ![r] = NextPeer(r, sync[r].todo \ {p})]
    BY <1>10 DEF SyncAsk
  <2>2. sync[r].todo \ {p} \in SUBSET Replicas /\ p \in Replicas
    BY <2>1 DEF TypeOK, SyncState
  <2>3. NextPeer(r, sync[r].todo \ {p}) \in SyncState BY <2>2, NextPeerType
  <2>4. sync' \in [Replicas -> SyncState]
    <3>1. CASE Linked(r, p)
      <4>1. sync' = [sync EXCEPT ![r].phase = "asked", ![r].peer = p,
                                 ![r].todo = sync[r].todo \ {p}]
        BY <2>1, <3>1
      <4> QED BY <4>1, <2>2, SyncRequestType DEF Phases
    <3>2. CASE ~Linked(r, p) BY <2>1, <2>3, <3>2 DEF TypeOK
    <3> QED BY <3>1, <3>2
  <2> QED BY <1>10, <2>4 DEF TypeOK, SyncAsk
<1>11. ASSUME NEW r \in Replicas, RespondItems(r) PROVE TypeOK'
  <2>1. sync[r].peer \in Replicas BY DEF TypeOK, SyncState
  <2>2. items[sync[r].peer] \in Tables BY <2>1 DEF TypeOK
  <2>3. sync' \in [Replicas -> SyncState]
    BY <1>11, <2>2, SyncItemsType DEF RespondItems, Phases
  <2> QED BY <1>11, <2>3 DEF TypeOK, RespondItems
<1>12. ASSUME NEW r \in Replicas, RespondVector(r) PROVE TypeOK'
  <2>1. sync[r].peer \in Replicas BY DEF TypeOK, SyncState
  <2>2. vv[sync[r].peer] \in Vectors BY <2>1 DEF TypeOK
  <2>3. sync' \in [Replicas -> SyncState]
    BY <1>12, <2>2, SyncVectorType DEF RespondVector, Phases
  <2> QED BY <1>12, <2>3 DEF TypeOK, RespondVector
<1>13. ASSUME NEW r \in Replicas, SyncMerge(r) PROVE TypeOK'
  <2>1. /\ sync[r].entries \in Tables /\ sync[r].vv \in Vectors
        /\ sync[r].todo \in SUBSET Replicas /\ items[r] \in Tables
    BY DEF TypeOK, SyncState
  <2>2. Merge(items[r], sync[r].entries) \in Tables BY <2>1, MergeType
  <2>3. NextPeer(r, sync[r].todo) \in SyncState BY <2>1, NextPeerType
  <2>4. {[id |-> k, counter |-> sync[r].vv[k]] : k \in Present(sync[r].vv)}
          \in SUBSET BumpCall
    BY <2>1 DEF Present, BumpCall, Vectors
  <2>5. bumps' \in [Replicas -> [Goroutines -> SUBSET BumpCall]]
    BY <1>13, <2>4 DEF TypeOK, SyncMerge, MergeDelta
  <2> QED BY <1>13, <2>2, <2>3, <2>5 DEF TypeOK, SyncMerge, MergeDelta
<1>14. ASSUME NEW r \in Replicas, SyncFail(r) PROVE TypeOK'
  <2>1. sync[r].todo \in SUBSET Replicas BY DEF TypeOK, SyncState
  <2>2. NextPeer(r, sync[r].todo) \in SyncState BY <2>1, NextPeerType
  <2> QED BY <1>14, <2>2 DEF TypeOK, SyncFail
<1>15. CASE UNCHANGED vars BY <1>15 DEF TypeOK, vars
<1> QED
  BY <1>1, <1>2, <1>3, <1>4, <1>5, <1>6, <1>7, <1>8, <1>9, <1>10, <1>11, <1>12,
     <1>13, <1>14, <1>15 DEF Next, SyncStep

\* Type correctness of the registry: stores, boxes, pending bumps and sync
\* exchanges keep their types through every step.
THEOREM RegistryTypes == Spec => []TypeOK
<1>1. Init => TypeOK BY RegistryAssumption, IdleTypes DEF Init, TypeOK
<1> QED BY <1>1, TypeStep, PTL DEF Spec
-----------------------------------------------------------------------------
(* Strengthenings of the properties to inductive invariants                *)

\* A restart takes long enough for the wall clock, in seconds, to tell two
\* runs of a process apart.
RestartsAreSpaced ==
    /\ Table = "nodes" => MinDowntime > 0
    /\ Table = "meta" => WarmUp + MinDowntime > 0

\* The entries of a table, the counters of a vector and the counters still to
\* be bumped are those of records in M.
TableWitnessed(t, M) ==
    \A k \in Publishers : t[k] # NoEntry => [id |-> k, entry |-> t[k]] \in M
CounterWitnessed(k, c, M) ==
    c > 0 => \E m \in M : m.id = k /\ m.entry.clock.lamport = c
VectorWitnessed(v, M) == \A k \in Publishers : CounterWitnessed(k, v[k], M)
BumpsWitnessed(b, M) ==
    \A g \in Goroutines : \A x \in b[g] : CounterWitnessed(x.id, x.counter, M)

\* Everything that is stored, on the wire or waiting to be applied stems from
\* a published record.
Witnessed ==
    \A r \in Replicas :
        /\ outbox[r] \subseteq minted
        /\ inbox[r] \subseteq minted
        /\ TableWitnessed(items[r], minted)
        /\ TableWitnessed(sync[r].entries, minted)
        /\ VectorWitnessed(vv[r], minted)
        /\ VectorWitnessed(sync[r].vv, minted)
        /\ BumpsWitnessed(bumps[r], minted)

\* How the stamps of an owner's records relate to its runs and to the clock.
RunStamps ==
    /\ \A p \in Publishers :
          /\ started[p] <= now
          /\ up[p] => epoch[p] > 0
          /\ ~up[p] => seq[p] = 0
    /\ \A m \in minted :
          LET p == m.id
              unix == m.entry.clock.unix IN
          /\ m.entry.clock.lamport > 0
          /\ Table = "meta" => m.entry.clock.lamport = 1
          /\ 0 < m.entry.value /\ m.entry.value <= epoch[p]
          /\ m.entry.value < epoch[p] => unix < started[p]
          /\ m.entry.value = epoch[p] =>
                /\ started[p] <= unix /\ unix <= now
                /\ Table = "meta" => unix = started[p] /\ unix + WarmUp <= now
                /\ ~up[p] => unix < stopped[p] + MinDowntime

\* The stamps of an owner's records increase from run to run.
RunsAreOrdered ==
    \A m, n \in minted :
        m.id = n.id /\ m.entry.value < n.entry.value
            => m.entry.clock.unix < n.entry.clock.unix

-----------------------------------------------------------------------------
(* Witnesses                                                               *)

\* Witnesses stay: minted only grows.
LEMMA MintedGrows == [Next]_vars => minted \subseteq minted'
BY DEF Next, vars, Tick, Start, Crash, Disconnect, Publish, Send, Consume, Bump,
       RoundStart, SyncStep, SyncAsk, RespondItems, RespondVector, SyncMerge, MergeDelta, SyncFail

\* A record once published stays published, so what is witnessed stays
\* witnessed.
LEMMA WitnessesStay ==
    ASSUME NEW M, NEW N, M \subseteq N
    PROVE  /\ \A t : TableWitnessed(t, M) => TableWitnessed(t, N)
           /\ \A v : VectorWitnessed(v, M) => VectorWitnessed(v, N)
           /\ \A b : BumpsWitnessed(b, M) => BumpsWitnessed(b, N)
<1>1. ASSUME NEW k, NEW c, CounterWitnessed(k, c, M) PROVE CounterWitnessed(k, c, N)
  BY <1>1 DEF CounterWitnessed
<1> QED BY <1>1 DEF TableWitnessed, VectorWitnessed, BumpsWitnessed

\* A process that has just started holds nothing that needs a witness.
LEMMA EmptyWitnessed ==
    ASSUME NEW M
    PROVE  TableWitnessed(EmptyMap, M) /\ VectorWitnessed(ZeroVector, M) /\ BumpsWitnessed(NoBumps, M)
BY DEF TableWitnessed, VectorWitnessed, BumpsWitnessed, CounterWitnessed, EmptyMap, ZeroVector, NoBumps

\* Applying a published record keeps everything witnessed.
LEMMA ApplyWitness ==
    ASSUME TypeOK, NEW M, NEW r \in Replicas, NEW g \in Goroutines, NEW m \in Record, m \in M,
           Apply(r, g, m), NEW q \in Replicas,
           TableWitnessed(items[q], M), BumpsWitnessed(bumps[q], M)
    PROVE  TableWitnessed(items'[q], M) /\ BumpsWitnessed(bumps'[q], M)
<1>1. m = [id |-> m.id, entry |-> m.entry] BY DEF Record
<1>2. ASSUME NEW k \in Publishers
      PROVE  items'[q][k] = items[q][k] \/ (k = m.id /\ items'[q][k] = m.entry)
  BY DEF Apply, Upsert, TypeOK, Tables
<1>3. ASSUME NEW h \in Goroutines, NEW x \in bumps'[q][h]
      PROVE  x \in bumps[q][h] \/ x = [id |-> m.id, counter |-> m.entry.clock.lamport]
  BY <1>3 DEF Apply, TypeOK
<1>4. CounterWitnessed(m.id, m.entry.clock.lamport, M) BY DEF CounterWitnessed
<1>5. TableWitnessed(items'[q], M) BY <1>1, <1>2 DEF TableWitnessed
<1>6. BumpsWitnessed(bumps'[q], M) BY <1>3, <1>4 DEF BumpsWitnessed
<1> QED BY <1>5, <1>6

\* Witnessed is inductive, given TypeOK.
LEMMA WitnessStep == TypeOK /\ Witnessed /\ [Next]_vars => Witnessed'
<1> SUFFICES ASSUME TypeOK, Witnessed, [Next]_vars, NEW q \in Replicas
             PROVE  /\ outbox'[q] \subseteq minted'
                    /\ inbox'[q] \subseteq minted'
                    /\ TableWitnessed(items'[q], minted')
                    /\ TableWitnessed(sync'[q].entries, minted')
                    /\ VectorWitnessed(vv'[q], minted')
                    /\ VectorWitnessed(sync'[q].vv, minted')
                    /\ BumpsWitnessed(bumps'[q], minted')
  BY DEF Witnessed
<1> DEFINE Goal(x) == /\ outbox'[x] \subseteq minted'
                      /\ inbox'[x] \subseteq minted'
                      /\ TableWitnessed(items'[x], minted')
                      /\ TableWitnessed(sync'[x].entries, minted')
                      /\ VectorWitnessed(vv'[x], minted')
                      /\ VectorWitnessed(sync'[x].vv, minted')
                      /\ BumpsWitnessed(bumps'[x], minted')
<1> USE RegistryAssumption DEF process, store
<1>a. minted \subseteq minted' BY MintedGrows
\* What was witnessed still is.
<1>b. ASSUME NEW x \in Replicas
      PROVE  /\ outbox[x] \subseteq minted'
             /\ inbox[x] \subseteq minted'
             /\ TableWitnessed(items[x], minted')
             /\ TableWitnessed(sync[x].entries, minted')
             /\ VectorWitnessed(vv[x], minted')
             /\ VectorWitnessed(sync[x].vv, minted')
             /\ BumpsWitnessed(bumps[x], minted')
  BY <1>a, WitnessesStay DEF Witnessed
<1>c. /\ TableWitnessed(EmptyMap, minted')
      /\ VectorWitnessed(ZeroVector, minted')
      /\ BumpsWitnessed(NoBumps, minted')
  BY EmptyWitnessed
<1>d. /\ IdleSync(q).entries = EmptyMap /\ IdleSync(q).vv = ZeroVector
      /\ \A todo : NextPeer(q, todo).entries = EmptyMap /\ NextPeer(q, todo).vv = ZeroVector
  BY DEF IdleSync, NextPeer
<1>e. \A broken : \/ BreakStream(q, broken) = sync[q]
                  \/ /\ BreakStream(q, broken).entries = EmptyMap
                     /\ BreakStream(q, broken).vv = ZeroVector
  BY <1>d DEF BreakStream
<1>1. CASE Tick BY <1>1, <1>b DEF Tick
<1>2. ASSUME NEW r \in Replicas, Start(r) PROVE Goal(q)
  BY <1>2, <1>b DEF Start
<1>3. ASSUME NEW r \in Replicas, Crash(r) PROVE Goal(q)
  <2>1. CASE q = r BY <1>3, <1>c, <1>d, <2>1 DEF Crash, TypeOK
  <2>2. CASE q # r
    <3>1. \E broken : sync'[q] = BreakStream(q, broken) BY <1>3, <2>2 DEF Crash
    <3> QED BY <1>3, <1>b, <1>c, <1>e, <2>2, <3>1 DEF Crash, TypeOK
  <2> QED BY <2>1, <2>2
<1>4. ASSUME NEW c \in conn, Disconnect(c) PROVE Goal(q)
  <2>1. sync'[q] = BreakStream(q, {c}) BY <1>4 DEF Disconnect
  <2> QED BY <1>4, <1>b, <1>c, <1>e, <2>1 DEF Disconnect
<1>5. ASSUME NEW p \in Publishers, Publish(p) PROVE Goal(q)
  <2>1. NewRecord(p) \in Record BY NewRecordType
  <2>2. NewRecord(p) \in minted' BY <1>5 DEF Publish
  <2>3. TableWitnessed(items'[q], minted') /\ BumpsWitnessed(bumps'[q], minted')
    BY <1>5, <1>b, <2>1, <2>2, ApplyWitness DEF Publish, Goroutines
  <2>4. outbox'[q] \subseteq minted' BY <1>5, <1>b, <2>2 DEF Publish, TypeOK
  <2> QED BY <1>5, <1>b, <2>3, <2>4 DEF Publish
<1>6. ASSUME NEW p \in Publishers, Send(p) PROVE Goal(q)
  <2>1. outbox'[q] \subseteq minted' BY <1>6, <1>b DEF Send, TypeOK
  <2>2. inbox'[q] \subseteq minted' BY <1>6, <1>b DEF Send
  <2> QED BY <1>6, <1>b, <2>1, <2>2 DEF Send
<1>7. ASSUME NEW r \in Replicas, Consume(r) PROVE Goal(q)
  <2>1. PICK m \in inbox[r] : /\ inbox' = [inbox EXCEPT ![r] = @ \ {m}]
                              /\ Apply(r, "consume", m)
    BY <1>7 DEF Consume
  <2>2. m \in Record /\ m \in minted' BY <2>1, <1>b DEF TypeOK
  <2>3. TableWitnessed(items'[q], minted') /\ BumpsWitnessed(bumps'[q], minted')
    BY <1>b, <2>1, <2>2, ApplyWitness DEF Goroutines
  <2>4. inbox'[q] \subseteq minted' BY <2>1, <1>b DEF TypeOK
  <2> QED BY <1>7, <1>b, <2>3, <2>4 DEF Consume
<1>8. ASSUME NEW r \in Replicas, NEW g \in Goroutines, Bump(r, g) PROVE Goal(q)
  <2>1. PICK b \in bumps[r][g] :
             /\ vv' = [vv EXCEPT ![r] = Raise(@, b.id, b.counter)]
             /\ bumps' = [bumps EXCEPT ![r][g] = @ \ {b}]
    BY <1>8 DEF Bump
  <2>2. CounterWitnessed(b.id, b.counter, minted') BY <1>b DEF BumpsWitnessed
  <2>3. \A k \in Publishers :
           vv'[q][k] = vv[q][k] \/ (k = b.id /\ vv'[q][k] = b.counter)
    BY <2>1 DEF Raise, TypeOK, Vectors
  <2>4. VectorWitnessed(vv'[q], minted') BY <1>b, <2>2, <2>3 DEF VectorWitnessed
  <2>5. \A h \in Goroutines : bumps'[q][h] \subseteq bumps[q][h] BY <2>1 DEF TypeOK
  <2>6. BumpsWitnessed(bumps'[q], minted') BY <1>b, <2>5 DEF BumpsWitnessed
  <2> QED BY <1>8, <1>b, <2>4, <2>6 DEF Bump
<1>9. ASSUME NEW r \in Replicas, RoundStart(r) PROVE Goal(q)
  <2>1. sync'[q].entries = sync[q].entries /\ sync'[q].vv = sync[q].vv
    BY <1>9 DEF RoundStart, TypeOK, SyncState
  <2> QED BY <1>9, <1>b, <2>1 DEF RoundStart
<1>10. ASSUME NEW r \in Replicas, SyncAsk(r) PROVE Goal(q)
  <2>1. PICK p \in sync[r].todo :
          IF Linked(r, p)
          THEN sync' = [sync EXCEPT ![r].phase = "asked", ![r].peer = p,
                                    ![r].todo = @ \ {p}]
          ELSE sync' = [sync EXCEPT ![r] = NextPeer(r, sync[r].todo \ {p})]
    BY <1>10 DEF SyncAsk
  <2>2. TableWitnessed(sync'[q].entries, minted') /\ VectorWitnessed(sync'[q].vv, minted')
    <3>1. CASE Linked(r, p)
      <4>1. sync[r] \in SyncState BY DEF TypeOK
      <4>2. sync' = [sync EXCEPT ![r] = [sync[r] EXCEPT !.phase = "asked", !.peer = p,
                                                        !.todo = @ \ {p}]]
        BY <2>1, <3>1
      <4>3. sync'[q].entries = sync[q].entries /\ sync'[q].vv = sync[q].vv
        BY <4>1, <4>2 DEF TypeOK, SyncState
      <4> QED BY <1>b, <4>3
    <3>2. CASE ~Linked(r, p) /\ q = r BY <2>1, <3>2, <1>c, <1>d DEF TypeOK
    <3>3. CASE ~Linked(r, p) /\ q # r BY <2>1, <3>3, <1>b DEF TypeOK
    <3> QED BY <3>1, <3>2, <3>3
  <2> QED BY <1>10, <1>b, <2>2 DEF SyncAsk
<1>11. ASSUME NEW r \in Replicas, RespondItems(r) PROVE Goal(q)
  <2>1. sync[r].peer \in Replicas BY DEF TypeOK, SyncState
  <2>2. /\ sync'[q].vv = sync[q].vv
        /\ \/ sync'[q].entries = sync[q].entries
           \/ sync'[q].entries = items[sync[r].peer]
    BY <1>11 DEF RespondItems, TypeOK, SyncState
  <2> QED BY <1>11, <1>b, <2>1, <2>2 DEF RespondItems
<1>12. ASSUME NEW r \in Replicas, RespondVector(r) PROVE Goal(q)
  <2>1. sync[r].peer \in Replicas BY DEF TypeOK, SyncState
  <2>2. /\ sync'[q].entries = sync[q].entries
        /\ \/ sync'[q].vv = sync[q].vv
           \/ sync'[q].vv = vv[sync[r].peer]
    BY <1>12 DEF RespondVector, TypeOK, SyncState
  <2> QED BY <1>12, <1>b, <2>1, <2>2 DEF RespondVector
<1>13. ASSUME NEW r \in Replicas, SyncMerge(r) PROVE Goal(q)
  <2>1. \A k \in Publishers :
           items'[q][k] = items[q][k] \/ (q = r /\ items'[q][k] = sync[r].entries[k])
    BY <1>13 DEF SyncMerge, MergeDelta, Merge, TypeOK, Tables
  <2>2. TableWitnessed(items'[q], minted') BY <1>b, <2>1 DEF TableWitnessed
  <2>3. \A h \in Goroutines : \A x \in bumps'[q][h] :
           \/ x \in bumps[q][h]
           \/ \E k \in Publishers : x = [id |-> k, counter |-> sync[r].vv[k]]
    BY <1>13 DEF SyncMerge, MergeDelta, TypeOK, Present
  <2>4. BumpsWitnessed(bumps'[q], minted')
    <3>1. \A k \in Publishers : CounterWitnessed(k, sync[r].vv[k], minted')
      BY <1>b DEF VectorWitnessed
    <3> QED BY <1>b, <2>3, <3>1 DEF BumpsWitnessed
  <2>5. TableWitnessed(sync'[q].entries, minted') /\ VectorWitnessed(sync'[q].vv, minted')
    <3>1. CASE q = r BY <1>13, <1>c, <1>d, <3>1 DEF SyncMerge, MergeDelta, TypeOK
    <3>2. CASE q # r BY <1>13, <1>b, <3>2 DEF SyncMerge, MergeDelta, TypeOK
    <3> QED BY <3>1, <3>2
  <2> QED BY <1>13, <1>b, <2>2, <2>4, <2>5 DEF SyncMerge, MergeDelta
<1>14. ASSUME NEW r \in Replicas, SyncFail(r) PROVE Goal(q)
  <2>1. TableWitnessed(sync'[q].entries, minted') /\ VectorWitnessed(sync'[q].vv, minted')
    <3>1. CASE q = r BY <1>14, <1>c, <1>d, <3>1 DEF SyncFail, TypeOK
    <3>2. CASE q # r BY <1>14, <1>b, <3>2 DEF SyncFail, TypeOK
    <3> QED BY <3>1, <3>2
  <2> QED BY <1>14, <1>b, <2>1 DEF SyncFail
<1>15. CASE UNCHANGED vars BY <1>15, <1>b DEF vars
<1> QED
  BY <1>1, <1>2, <1>3, <1>4, <1>5, <1>6, <1>7, <1>8, <1>9, <1>10, <1>11, <1>12,
     <1>13, <1>14, <1>15 DEF Next, SyncStep

\* The inductive invariant of the replicas.
LEMMA WitnessInvariant == Spec => [](TypeOK /\ Witnessed)
<1>1. Init => Witnessed
  <2> SUFFICES ASSUME Init PROVE Witnessed OBVIOUS
  <2>1. \A r \in Replicas : IdleSync(r).entries = EmptyMap /\ IdleSync(r).vv = ZeroVector
    BY DEF IdleSync
  <2> QED BY <2>1, EmptyWitnessed DEF Init, Witnessed
<1>2. Init => TypeOK BY RegistryAssumption, IdleTypes DEF Init, TypeOK
<1> QED BY <1>1, <1>2, TypeStep, WitnessStep, PTL DEF Spec

\* Every entry and every counter of every store stems from one published
\* record, in every behaviour of every mesh.
THEOREM StoreWitnessed == Spec => []StoreIsWitnessed
<1>1. TypeOK /\ Witnessed => StoreIsWitnessed
  <2> SUFFICES ASSUME TypeOK, Witnessed, NEW r \in Replicas
               PROVE  /\ \A k \in Keys(items[r]) : [id |-> k, entry |-> items[r][k]] \in minted
                      /\ \A k \in Present(vv[r]) :
                            \E m \in minted : m.id = k /\ m.entry.clock.lamport = vv[r][k]
    BY DEF StoreIsWitnessed
  <2>1. \A k \in Keys(items[r]) : k \in Publishers /\ items[r][k] # NoEntry
    BY DEF Keys, TypeOK, Tables
  <2> QED BY <2>1 DEF Witnessed, TableWitnessed, VectorWitnessed, CounterWitnessed, Present
<1> QED BY <1>1, WitnessInvariant, PTL

-----------------------------------------------------------------------------
(* Runs and stamps                                                         *)

\* The steps that touch the clock, the processes or the history.
LEMMA QuietSteps ==
    [Next]_vars => \/ Tick
                   \/ \E r \in Replicas : Start(r) \/ Crash(r)
                   \/ \E p \in Publishers : Publish(p)
                   \/ UNCHANGED <<now, up, epoch, started, stopped, seq, minted>>
BY DEF Next, vars, Disconnect, Send, Consume, Bump, RoundStart, SyncStep, SyncAsk,
       RespondItems, RespondVector, SyncMerge, MergeDelta, SyncFail, process, store

\* RunStamps in two parts: about the processes, and about one record.
ProcessStamps(p) ==
    /\ started[p] <= now
    /\ up[p] => epoch[p] > 0
    /\ ~up[p] => seq[p] = 0

RecordStamps(m) ==
    /\ m.entry.clock.lamport > 0
    /\ Table = "meta" => m.entry.clock.lamport = 1
    /\ 0 < m.entry.value /\ m.entry.value <= epoch[m.id]
    /\ m.entry.value < epoch[m.id] => m.entry.clock.unix < started[m.id]
    /\ m.entry.value = epoch[m.id] =>
          /\ started[m.id] <= m.entry.clock.unix /\ m.entry.clock.unix <= now
          /\ Table = "meta" => /\ m.entry.clock.unix = started[m.id]
                               /\ m.entry.clock.unix + WarmUp <= now
          /\ ~up[m.id] => m.entry.clock.unix < stopped[m.id] + MinDowntime

\* RunStamps, part by part.
LEMMA RunStampsParts ==
    RunStamps <=> (\A p \in Publishers : ProcessStamps(p)) /\ (\A m \in minted : RecordStamps(m))
BY DEF RunStamps, ProcessStamps, RecordStamps

\* What a record consists of.
LEMMA RecordFields ==
    ASSUME NEW m \in Record
    PROVE  /\ m.id \in Publishers /\ m.entry.value \in Nat
           /\ m.entry.clock.lamport \in Nat /\ m.entry.clock.unix \in Nat
BY DEF Record, Entry, Clock

\* RunStamps is inductive if restarts are spaced.
LEMMA StampStep ==
    RestartsAreSpaced => (TypeOK /\ RunStamps /\ [Next]_vars => RunStamps')
<1> SUFFICES ASSUME RestartsAreSpaced, TypeOK, RunStamps, [Next]_vars PROVE RunStamps'
  OBVIOUS
<1>0. /\ WarmUp \in Nat /\ MinDowntime \in Nat /\ Table \in {"nodes", "meta"}
      /\ Publishers \subseteq Replicas
  BY RegistryAssumption
<1>a. /\ \A p \in Publishers : ProcessStamps(p)
      /\ \A m \in minted : RecordStamps(m)
  BY RunStampsParts
<1>b. ASSUME NEW p \in Publishers
      PROVE  /\ p \in Replicas /\ now \in Nat /\ started[p] \in Nat /\ stopped[p] \in Nat
             /\ epoch[p] \in Nat /\ seq[p] \in Nat /\ up[p] \in BOOLEAN
  BY <1>0 DEF TypeOK
<1>c. \A m \in minted : /\ m.id \in Publishers /\ m.entry.value \in Nat
                        /\ m.entry.clock.lamport \in Nat /\ m.entry.clock.unix \in Nat
  BY RecordFields DEF TypeOK
<1> SUFFICES /\ \A p \in Publishers : ProcessStamps(p)'
             /\ \A m \in minted' : RecordStamps(m)'
  BY DEF RunStamps, ProcessStamps, RecordStamps
<1>1. CASE Tick
  <2>1. now' = now + 1 /\ UNCHANGED <<up, epoch, started, stopped, seq, minted>>
    BY <1>1 DEF Tick, process
  <2>2. \A p \in Publishers : ProcessStamps(p)' BY <1>a, <1>b, <2>1 DEF ProcessStamps
  <2>3. ASSUME NEW m \in minted' PROVE RecordStamps(m)'
    <3>1. m \in minted /\ m.id \in Publishers BY <1>c, <2>1
    <3> QED BY <1>0, <1>a, <1>b, <1>c, <2>1, <3>1 DEF RecordStamps
  <2> QED BY <2>2, <2>3
<1>2. ASSUME NEW r \in Replicas, Start(r) PROVE RunStamps'
  <2>1. /\ ~up[r] /\ (epoch[r] > 0 => now >= stopped[r] + MinDowntime)
        /\ up' = [up EXCEPT ![r] = TRUE]
        /\ epoch' = [epoch EXCEPT ![r] = @ + 1]
        /\ started' = [started EXCEPT ![r] = now]
        /\ UNCHANGED <<now, stopped, seq, minted>>
    BY <1>2 DEF Start
  <2>2. ASSUME NEW p \in Publishers PROVE ProcessStamps(p)'
    BY <1>0, <1>a, <1>b, <2>1 DEF ProcessStamps, TypeOK
  <2>3. ASSUME NEW m \in minted' PROVE RecordStamps(m)'
    <3>1. m \in minted /\ m.id \in Publishers /\ RecordStamps(m) BY <1>a, <1>c, <2>1
    <3>2. CASE m.id # r
      <4>1. /\ epoch'[m.id] = epoch[m.id] /\ started'[m.id] = started[m.id]
            /\ up'[m.id] = up[m.id] /\ stopped' = stopped /\ now' = now
        BY <1>b, <2>1, <3>1, <3>2 DEF TypeOK
      <4> QED BY <3>1, <4>1 DEF RecordStamps
    <3>3. CASE m.id = r
      <4>1. /\ epoch'[m.id] = epoch[m.id] + 1 /\ started'[m.id] = now /\ up'[m.id] = TRUE
        BY <1>b, <2>1, <3>1, <3>3 DEF TypeOK
      <4>2. m.entry.value <= epoch[m.id] /\ epoch[m.id] > 0
        BY <1>b, <1>c, <3>1 DEF RecordStamps
      <4>3. m.entry.clock.unix < now
        BY <1>0, <1>a, <1>b, <1>c, <2>1, <3>1, <3>3, <4>2 DEF RecordStamps, ProcessStamps
      <4> QED BY <1>b, <1>c, <3>1, <4>1, <4>2, <4>3 DEF RecordStamps
    <3> QED BY <3>2, <3>3
  <2> QED BY <2>2, <2>3 DEF RunStamps, ProcessStamps, RecordStamps
<1>3. ASSUME NEW r \in Replicas, Crash(r) PROVE RunStamps'
  <2>1. /\ up[r]
        /\ up' = [up EXCEPT ![r] = FALSE]
        /\ stopped' = [stopped EXCEPT ![r] = now]
        /\ seq' = [seq EXCEPT ![r] = 0]
        /\ UNCHANGED <<now, epoch, started, minted>>
    BY <1>3 DEF Crash
  <2>2. ASSUME NEW p \in Publishers PROVE ProcessStamps(p)'
    BY <1>0, <1>a, <1>b, <2>1 DEF ProcessStamps, TypeOK
  <2>3. ASSUME NEW m \in minted' PROVE RecordStamps(m)'
    <3>1. m \in minted /\ m.id \in Publishers /\ RecordStamps(m) BY <1>a, <1>c, <2>1
    <3>2. CASE m.id # r
      <4>1. up'[m.id] = up[m.id] /\ stopped'[m.id] = stopped[m.id]
        BY <1>b, <2>1, <3>1, <3>2 DEF TypeOK
      <4> QED BY <2>1, <3>1, <4>1 DEF RecordStamps
    <3>3. CASE m.id = r
      <4>1. up'[m.id] = FALSE /\ stopped'[m.id] = now
        BY <1>b, <2>1, <3>1, <3>3 DEF TypeOK
      <4>2. m.entry.value = epoch[m.id] => m.entry.clock.unix < now + MinDowntime
        BY <1>0, <1>b, <1>c, <3>1 DEF RecordStamps, RestartsAreSpaced
      <4> QED BY <2>1, <3>1, <4>1, <4>2 DEF RecordStamps
    <3> QED BY <3>2, <3>3
  <2> QED BY <2>2, <2>3 DEF RunStamps, ProcessStamps, RecordStamps
<1>4. ASSUME NEW p \in Publishers, Publish(p) PROVE RunStamps'
  <2>1. /\ up[p] /\ now >= started[p] + WarmUp
        /\ seq' = [seq EXCEPT ![p] = NextClock(p)]
        /\ minted' = minted \cup {NewRecord(p)}
        /\ UNCHANGED <<now, up, epoch, started, stopped>>
    BY <1>4 DEF Publish
  <2>2. ASSUME NEW q \in Publishers PROVE ProcessStamps(q)'
    BY <1>0, <1>a, <1>b, <2>1 DEF ProcessStamps, TypeOK
  <2>3. ASSUME NEW m \in minted' PROVE RecordStamps(m)'
    <3>1. CASE m \in minted
      BY <1>a, <2>1, <3>1 DEF RecordStamps
    <3>2. CASE m = NewRecord(p)
      <4>1. /\ m.id = p /\ m.entry.value = epoch[p]
            /\ m.entry.clock.lamport = NextClock(p) /\ m.entry.clock.unix = Stamp(p)
        BY <3>2 DEF NewRecord
      <4>2. /\ NextClock(p) > 0 /\ (Table = "meta" => NextClock(p) = 1)
        BY <1>0, <1>b DEF NextClock
      <4>3. /\ started[p] <= Stamp(p) /\ Stamp(p) <= now
            /\ Table = "meta" => Stamp(p) = started[p]
        BY <1>0, <1>a, <1>b DEF Stamp, ProcessStamps
      <4>4. up[p] /\ epoch[p] > 0 BY <1>a, <2>1 DEF ProcessStamps
      <4> QED BY <1>0, <1>b, <2>1, <4>1, <4>2, <4>3, <4>4 DEF RecordStamps
    <3> QED BY <2>1, <3>1, <3>2
  <2> QED BY <2>2, <2>3 DEF RunStamps, ProcessStamps, RecordStamps
<1>5. CASE UNCHANGED <<now, up, epoch, started, stopped, seq, minted>>
  BY <1>a, <1>5 DEF ProcessStamps, RecordStamps
<1> QED
  BY <1>1, <1>2, <1>3, <1>4, <1>5, QuietSteps DEF RunStamps, ProcessStamps, RecordStamps

\* A record published now is of the latest run, and has a later stamp than
\* those of earlier ones.
LEMMA OrderStep == TypeOK /\ RunStamps /\ RunsAreOrdered /\ [Next]_vars => RunsAreOrdered'
<1> SUFFICES ASSUME TypeOK, RunStamps, RunsAreOrdered, [Next]_vars PROVE RunsAreOrdered'
  OBVIOUS
<1>1. ASSUME NEW p \in Publishers, Publish(p) PROVE RunsAreOrdered'
  <2>0. p \in Replicas /\ epoch[p] \in Nat /\ started[p] \in Nat /\ now \in Nat
    BY RegistryAssumption DEF TypeOK
  <2>1. minted' = minted \cup {NewRecord(p)} BY <1>1 DEF Publish
  <2>2. /\ NewRecord(p).id = p /\ NewRecord(p).entry.value = epoch[p]
        /\ NewRecord(p).entry.clock.unix = Stamp(p)
    BY DEF NewRecord
  <2>3. started[p] <= Stamp(p) /\ Stamp(p) \in Nat BY <2>0 DEF Stamp, RunStamps
  <2>4. \A m \in minted : /\ m.entry.value \in Nat /\ m.entry.clock.unix \in Nat
                          /\ m.entry.value <= epoch[m.id]
                          /\ m.entry.value < epoch[m.id] => m.entry.clock.unix < started[m.id]
    BY RecordFields DEF RunStamps, TypeOK
  <2> SUFFICES ASSUME NEW m \in minted', NEW n \in minted', m.id = n.id,
                      m.entry.value < n.entry.value
               PROVE  m.entry.clock.unix < n.entry.clock.unix
    BY DEF RunsAreOrdered
  <2>5. CASE m \in minted /\ n \in minted BY <2>5 DEF RunsAreOrdered
  <2>6. CASE m \in minted /\ n = NewRecord(p) BY <2>0, <2>2, <2>3, <2>4, <2>6
  <2>7. CASE m = NewRecord(p) /\ n \in minted BY <2>0, <2>2, <2>4, <2>7
  <2>8. CASE m = NewRecord(p) /\ n = NewRecord(p) BY <2>0, <2>2, <2>8
  <2> QED BY <2>1, <2>5, <2>6, <2>7, <2>8
<1>2. CASE minted' = minted BY <1>2 DEF RunsAreOrdered
<1> QED BY <1>1, <1>2, QuietSteps DEF Tick, Start, Crash

\* The inductive invariant of the runs of an owner.
LEMMA RunInvariant ==
    ASSUME RestartsAreSpaced
    PROVE  Spec => [](TypeOK /\ Witnessed /\ RunStamps /\ RunsAreOrdered)
<1>1. Init => TypeOK BY RegistryAssumption, IdleTypes DEF Init, TypeOK
<1>2. Init => RunStamps /\ RunsAreOrdered
  BY RegistryAssumption DEF Init, RunStamps, RunsAreOrdered
<1>3. TypeOK /\ RunStamps /\ [Next]_vars => RunStamps' BY StampStep
<1> QED BY <1>1, <1>2, <1>3, TypeStep, WitnessInvariant, OrderStep, PTL DEF Spec

\* When restarts are spaced by at least a second, two records of one owner
\* with equal clocks come from the same run, so a tie in dominates is harmless.
THEOREM ClocksIdentifyValues ==
    ASSUME RestartsAreSpaced
    PROVE  Spec => []ClockIdentifiesValue
<1>1. TypeOK /\ RunsAreOrdered => ClockIdentifiesValue
  <2> SUFFICES ASSUME TypeOK, RunsAreOrdered, NEW m \in minted, NEW n \in minted,
                      m.id = n.id, m.entry.clock = n.entry.clock
               PROVE  m.entry.value = n.entry.value
    BY DEF ClockIdentifiesValue
  <2>1. /\ m.entry.value \in Nat /\ n.entry.value \in Nat
        /\ m.entry.clock.unix \in Nat /\ n.entry.clock.unix \in Nat
    BY RecordFields DEF TypeOK
  <2>2. ~(m.entry.value < n.entry.value) /\ ~(n.entry.value < m.entry.value)
    BY <2>1 DEF RunsAreOrdered
  <2> QED BY <2>1, <2>2
<1> QED BY <1>1, RunInvariant, PTL

-----------------------------------------------------------------------------
(* Merge                                                                   *)

\* What Merge makes of the two entries of a key.
Join(e, f) == IF f # NoEntry /\ (e = NoEntry \/ Dominates(f.clock, e.clock)) THEN f ELSE e

\* Of two entries that are present the clock tells which is which.
ToldApart(e, f) == e # NoEntry /\ f # NoEntry /\ e.clock = f.clock => e = f

\* Merge is Join, key by key.
LEMMA MergeJoins ==
    ASSUME NEW t \in Tables, NEW u \in Tables
    PROVE  Merge(t, u) \in Tables /\ \A k \in Publishers : Merge(t, u)[k] = Join(t[k], u[k])
BY MergeType DEF Merge, Taken, Keys, Accepts, Join, Tables

\* dominates is a total preorder; only the same clocks dominate each other.
LEMMA DominatesOrders ==
    ASSUME NEW a \in Clock, NEW b \in Clock, NEW c \in Clock
    PROVE  /\ Dominates(a, b) \/ Dominates(b, a)
           /\ Dominates(a, b) /\ Dominates(b, a) => a = b
           /\ Dominates(a, b) /\ Dominates(b, c) => Dominates(a, c)
<1>1. \A x \in {a, b, c} : x.lamport \in Nat /\ x.unix \in Nat BY DEF Clock
<1>2. a.lamport = b.lamport /\ a.unix = b.unix => a = b BY DEF Clock
<1> QED BY <1>1, <1>2 DEF Dominates

\* Join is idempotent, commutative and associative where clocks tell entries
\* apart.
LEMMA JoinLaws ==
    ASSUME NEW e \in Entry, NEW f \in Entry, NEW g \in Entry,
           ToldApart(e, f), ToldApart(f, g), ToldApart(e, g)
    PROVE  /\ Join(e, e) = e
           /\ Join(e, f) = Join(f, e)
           /\ Join(Join(e, f), g) = Join(e, Join(f, g))
<1> DEFINE a == e.clock
           b == f.clock
           c == g.clock
<1>1. a \in Clock /\ b \in Clock /\ c \in Clock BY DEF Entry
<1>2. /\ Dominates(a, b) \/ Dominates(b, a)
      /\ Dominates(b, c) \/ Dominates(c, b)
      /\ Dominates(a, c) \/ Dominates(c, a)
  BY <1>1, DominatesOrders
<1>3. /\ Dominates(a, b) /\ Dominates(b, c) => Dominates(a, c)
      /\ Dominates(b, a) /\ Dominates(a, c) => Dominates(b, c)
      /\ Dominates(a, c) /\ Dominates(c, b) => Dominates(a, b)
      /\ Dominates(c, a) /\ Dominates(a, b) => Dominates(c, b)
      /\ Dominates(b, c) /\ Dominates(c, a) => Dominates(b, a)
      /\ Dominates(c, b) /\ Dominates(b, a) => Dominates(c, a)
  BY <1>1, DominatesOrders
<1>4. /\ Dominates(a, b) /\ Dominates(b, a) => a = b
      /\ Dominates(b, c) /\ Dominates(c, b) => b = c
      /\ Dominates(a, c) /\ Dominates(c, a) => a = c
  BY <1>1, DominatesOrders
<1>5. Join(e, e) = e BY DEF Join
<1>6. Join(e, f) = Join(f, e) BY <1>2, <1>4 DEF Join, ToldApart
<1>7. Join(Join(e, f), g) = Join(e, Join(f, g))
  <2>1. CASE e = NoEntry \/ f = NoEntry \/ g = NoEntry BY <2>1 DEF Join
  <2>2. CASE e # NoEntry /\ f # NoEntry /\ g # NoEntry
    BY <1>2, <1>3, <1>4, <2>2 DEF Join, ToldApart
  <2> QED BY <2>1, <2>2
<1> QED BY <1>5, <1>6, <1>7

\* On the tables of the running and the crashed, Merge is idempotent,
\* commutative and associative.
MergeIsJoin ==
    \A p, q, r \in Replicas :
        /\ Merge(items[p], items[p]) = items[p]
        /\ Merge(items[p], items[q]) = Merge(items[q], items[p])
        /\ Merge(Merge(items[p], items[q]), items[r]) = Merge(items[p], Merge(items[q], items[r]))

\* Whatever the mesh went through, the tables processes hold at one moment have
\* one result when they are merged: merging again, the other way round or by way
\* of a third process makes no difference.  dominates lets a tie win, so this
\* needs ClockIdentifiesValue, and with it spaced restarts.
THEOREM TablesJoin ==
    ASSUME RestartsAreSpaced
    PROVE  Spec => []MergeIsJoin
<1>1. TypeOK /\ Witnessed /\ ClockIdentifiesValue => MergeIsJoin
  <2> SUFFICES ASSUME TypeOK, Witnessed, ClockIdentifiesValue,
                      NEW p \in Replicas, NEW q \in Replicas, NEW r \in Replicas
               PROVE  /\ Merge(items[p], items[p]) = items[p]
                      /\ Merge(items[p], items[q]) = Merge(items[q], items[p])
                      /\ Merge(Merge(items[p], items[q]), items[r])
                           = Merge(items[p], Merge(items[q], items[r]))
    BY DEF MergeIsJoin
  <2>1. \A x \in Replicas : items[x] \in Tables BY DEF TypeOK
  <2>2. ASSUME NEW x \in Replicas, NEW y \in Replicas, NEW k \in Publishers
        PROVE  items[x][k] \in Entry /\ ToldApart(items[x][k], items[y][k])
    <3> DEFINE e == items[x][k]
               f == items[y][k]
    <3>1. e \in Entry /\ f \in Entry BY <2>1 DEF Tables
    <3> SUFFICES ASSUME e # NoEntry, f # NoEntry, e.clock = f.clock PROVE e = f
      BY <3>1 DEF ToldApart
    <3>2. [id |-> k, entry |-> e] \in minted /\ [id |-> k, entry |-> f] \in minted
      BY DEF Witnessed, TableWitnessed
    <3> HIDE DEF e, f
    <3>3. e.value = f.value BY <3>2 DEF ClockIdentifiesValue
    <3> QED BY <3>1, <3>3 DEF Entry
  <2> DEFINE a == items[p]
             b == items[q]
             c == items[r]
  <2>3. a \in Tables /\ b \in Tables /\ c \in Tables BY <2>1
  <2>4. \A k \in Publishers : /\ Join(a[k], a[k]) = a[k]
                              /\ Join(a[k], b[k]) = Join(b[k], a[k])
                              /\ Join(Join(a[k], b[k]), c[k]) = Join(a[k], Join(b[k], c[k]))
    BY <2>2, JoinLaws
  <2> HIDE DEF a, b, c
  <2>5. \A t, u \in Tables : (\A k \in Publishers : t[k] = u[k]) => t = u BY DEF Tables
  <2>6. Merge(a, a) = a BY <2>3, <2>4, <2>5, MergeJoins
  <2>7. Merge(a, b) = Merge(b, a) BY <2>3, <2>4, <2>5, MergeJoins
  <2>8. Merge(Merge(a, b), c) = Merge(a, Merge(b, c))
    <3>1. Merge(a, b) \in Tables /\ Merge(b, c) \in Tables BY <2>3, MergeJoins
    <3>2. \A k \in Publishers : /\ Merge(Merge(a, b), c)[k] = Join(Join(a[k], b[k]), c[k])
                                /\ Merge(a, Merge(b, c))[k] = Join(a[k], Join(b[k], c[k]))
      BY <2>3, <3>1, MergeJoins
    <3>3. Merge(Merge(a, b), c) \in Tables /\ Merge(a, Merge(b, c)) \in Tables
      BY <2>3, <3>1, MergeJoins
    <3> QED BY <2>4, <2>5, <3>2, <3>3
  <2> QED BY <2>6, <2>7, <2>8 DEF a, b, c
<1> QED BY <1>1, WitnessInvariant, ClocksIdentifyValues, PTL

-----------------------------------------------------------------------------
(* How an entry of a store may change                                      *)

\* Replaced(r, k): the entry of k in r's store was taken over from a published
\* record whose clock the store accepts.
Replaced(r, k) ==
    \E m \in minted' : /\ m.id = k
                       /\ items'[r][k] = m.entry
                       /\ Accepts(items[r], k, m.entry.clock)

\* Applying a published record leaves each entry or replaces it by that record.
LEMMA ApplyStep ==
    ASSUME TypeOK, NEW r \in Replicas, NEW g \in Goroutines, NEW m \in Record, m \in minted',
           Apply(r, g, m), NEW q \in Replicas, NEW k \in Publishers
    PROVE  items'[q][k] = items[q][k] \/ Replaced(q, k)
<1>1. m.id \in Publishers BY DEF Record
<1>2. CASE q = r /\ k = m.id /\ Accepts(items[r], m.id, m.entry.clock)
  <2>1. items'[q][k] = m.entry BY <1>2 DEF Apply, Upsert, TypeOK, Tables
  <2> QED BY <1>2, <2>1 DEF Replaced
<1>3. CASE ~(q = r /\ k = m.id /\ Accepts(items[r], m.id, m.entry.clock))
  BY <1>1, <1>3 DEF Apply, Upsert, TypeOK, Tables
<1> QED BY <1>2, <1>3

\* A step leaves an entry, replaces it by a published record, or is the crash
\* of its process.
LEMMA StoreStep ==
    ASSUME TypeOK, Witnessed, [Next]_vars, NEW q \in Replicas, NEW k \in Publishers
    PROVE  \/ items'[q][k] = items[q][k]
           \/ Replaced(q, k)
           \/ q \in Replicas /\ Crash(q)
<1> USE RegistryAssumption DEF store
<1>1. ASSUME NEW r \in Replicas, Crash(r) PROVE items'[q][k] = items[q][k] \/ Crash(q)
  BY <1>1 DEF Crash, TypeOK
<1>2. ASSUME NEW p \in Publishers, Publish(p)
      PROVE  items'[q][k] = items[q][k] \/ Replaced(q, k)
  <2>1. NewRecord(p) \in Record /\ NewRecord(p) \in minted' BY <1>2, NewRecordType DEF Publish
  <2> QED BY <1>2, <2>1, ApplyStep DEF Publish, Goroutines
<1>3. ASSUME NEW r \in Replicas, Consume(r)
      PROVE  items'[q][k] = items[q][k] \/ Replaced(q, k)
  <2>1. PICK m \in inbox[r] : Apply(r, "consume", m) BY <1>3 DEF Consume
  <2>2. m \in Record /\ m \in minted' BY MintedGrows DEF TypeOK, Witnessed
  <2> QED BY <2>1, <2>2, ApplyStep DEF Goroutines
<1>4. ASSUME NEW r \in Replicas, SyncMerge(r)
      PROVE  items'[q][k] = items[q][k] \/ Replaced(q, k)
  <2> DEFINE e == sync[r].entries
  <2>1. sync[r] \in SyncState /\ e \in Tables /\ items[r] \in Tables BY DEF TypeOK, SyncState
  <2>2. CASE q = r /\ k \in Taken(items[r], e)
    <3>1. items'[q][k] = e[k] BY <1>4, <2>1, <2>2 DEF SyncMerge, MergeDelta, Merge, TypeOK, Tables
    <3>2. e[k] # NoEntry /\ Accepts(items[q], k, e[k].clock) BY <2>2 DEF Taken, Keys
    <3>3. [id |-> k, entry |-> e[k]] \in minted
      BY <3>2 DEF Witnessed, TableWitnessed
    <3>4. [id |-> k, entry |-> e[k]] \in minted' BY <3>3, MintedGrows
    <3> QED BY <3>1, <3>2, <3>4 DEF Replaced
  <2>3. CASE ~(q = r /\ k \in Taken(items[r], e))
    BY <1>4, <2>1, <2>3 DEF SyncMerge, MergeDelta, Merge, TypeOK, Tables
  <2> QED BY <2>2, <2>3
<1>5. CASE items' = items BY <1>5
<1> QED
  BY <1>1, <1>2, <1>3, <1>4, <1>5
  DEF Next, vars, SyncStep, Tick, Start, Disconnect, Send, Bump, RoundStart, SyncAsk,
      RespondItems, RespondVector, SyncFail

\* No step of a running process loses an entry or takes its clock backwards.
THEOREM ClocksMonotonic == Spec => ClocksNeverRegress
<1> DEFINE Positive == \A m \in minted : m.entry.clock.lamport > 0
           Forward == \A r \in Replicas : up'[r] =>
                        \A k \in Keys(items[r]) :
                            /\ k \in Keys(items'[r])
                            /\ Dominates(items'[r][k].clock, items[r][k].clock)
<1>1. Init => Positive BY DEF Init
<1>2. TypeOK /\ Positive /\ [Next]_vars => Positive'
  <2> SUFFICES ASSUME TypeOK, Positive, [Next]_vars PROVE Positive' OBVIOUS
  <2>1. ASSUME NEW p \in Publishers, Publish(p) PROVE Positive'
    <3>1. minted' = minted \cup {NewRecord(p)} BY <2>1 DEF Publish
    <3>2. NewRecord(p).entry.clock.lamport > 0
      BY RegistryAssumption DEF NewRecord, NextClock, TypeOK
    <3> QED BY <3>1, <3>2
  <2>2. CASE minted' = minted BY <2>2
  <2> QED BY <2>1, <2>2, QuietSteps DEF Tick, Start, Crash
<1>3. TypeOK /\ TypeOK' /\ Witnessed /\ Positive' /\ [Next]_vars => [Forward]_vars
  <2> SUFFICES ASSUME TypeOK, TypeOK', Witnessed, Positive', [Next]_vars,
                      NEW r \in Replicas, up'[r], NEW k \in Keys(items[r])
               PROVE  /\ k \in Keys(items'[r])
                      /\ Dominates(items'[r][k].clock, items[r][k].clock)
    OBVIOUS
  <2>1. k \in Publishers /\ items[r][k] # NoEntry BY DEF Keys, TypeOK, Tables
  <2>2. /\ items[r][k] \in Entry
        /\ DOMAIN items'[r] = Publishers
    BY <2>1 DEF TypeOK, Tables
  <2>3. CASE items'[r][k] = items[r][k]
    BY <2>1, <2>2, <2>3 DEF Keys, Dominates, Entry, Clock
  <2>4. CASE Replaced(r, k)
    <3>1. PICK m \in minted' : /\ m.id = k /\ items'[r][k] = m.entry
                               /\ Accepts(items[r], k, m.entry.clock)
      BY <2>4 DEF Replaced
    <3>2. m.entry.clock.lamport > 0 BY <3>1
    <3>3. m.entry # NoEntry BY <3>2 DEF NoEntry
    <3> QED BY <2>1, <2>2, <3>1, <3>3 DEF Keys, Accepts
  <2>5. CASE Crash(r) BY <2>5 DEF Crash, TypeOK
  <2> QED BY <2>1, <2>3, <2>4, <2>5, StoreStep
<1>4. Spec => [][Forward]_vars
  BY <1>1, <1>2, <1>3, WitnessInvariant, PTL DEF Spec
<1> QED BY <1>4 DEF ClocksNeverRegress

-----------------------------------------------------------------------------
(* The registry implements SharedTable                                     *)

\* A step that changes at most r's table, by what StoreStep allows.
LEMMA OneTableAdvances ==
    ASSUME TypeOK, Witnessed, [Next]_vars, NEW r \in Replicas, ~Crash(r), TypeOK',
           \A q \in Replicas : q # r => items'[q] = items[q]
    PROVE  Shared!Advances(r)
<1>1. items' = [items EXCEPT ![r] = items'[r]] BY DEF TypeOK
<1>2. ASSUME NEW k \in Publishers, items'[r][k] # items[r][k]
      PROVE  \E m \in minted' : /\ m.id = k /\ m.entry = items'[r][k]
                                /\ Accepts(items[r], k, m.entry.clock)
  <2>1. Replaced(r, k) BY <1>2, StoreStep
  <2> QED BY <2>1 DEF Replaced
<1> QED BY <1>1, <1>2 DEF Shared!Advances, Shared!Accepts, Accepts, Shared!Dominates, Dominates,
                          Shared!NoEntry, NoEntry

\* Every step of the registry is a step of the shared table, or a stutter.
LEMMA SharedStep ==
    ASSUME TypeOK, TypeOK', Witnessed, [Next]_vars
    PROVE  [Shared!Next]_Shared!vars
<1> USE RegistryAssumption DEF store
<1>1. ASSUME NEW r \in Replicas, Crash(r) PROVE Shared!Forget(r)
  BY <1>1 DEF Crash, Shared!Forget, Shared!NothingKnown, EmptyMap, Shared!NoEntry, NoEntry
<1>2. ASSUME NEW p \in Publishers, Publish(p) PROVE Shared!Publish(p)
  <2>1. NewRecord(p).id = p /\ minted' = minted \cup {NewRecord(p)} BY <1>2 DEF Publish, NewRecord
  <2>2. \A q \in Replicas : q # p => items'[q] = items[q] BY <1>2 DEF Publish, Apply, TypeOK
  <2>3. ~Crash(p) BY <1>2 DEF Crash, Publish, TypeOK
  <2>4. Shared!Advances(p) BY <2>2, <2>3, OneTableAdvances
  <2> QED BY <2>1, <2>4 DEF Shared!Publish
<1>3. ASSUME NEW r \in Replicas, Consume(r) \/ SyncMerge(r) PROVE Shared!Learn(r)
  <2>1. minted' = minted /\ up' = up BY <1>3 DEF Consume, SyncMerge, process
  <2>2. \A q \in Replicas : q # r => items'[q] = items[q]
    BY <1>3 DEF Consume, SyncMerge, Apply, MergeDelta, TypeOK
  <2>3. ~Crash(r) BY <2>1 DEF Crash, TypeOK
  <2>4. Shared!Advances(r) BY <2>2, <2>3, OneTableAdvances
  <2> QED BY <2>1, <2>4 DEF Shared!Learn
<1>4. CASE items' = items /\ minted' = minted BY <1>4 DEF Shared!vars
<1> QED
  BY <1>1, <1>2, <1>3, <1>4
  DEF Next, vars, SyncStep, Tick, Start, Disconnect, Send, Bump, RoundStart, SyncAsk,
      RespondItems, RespondVector, SyncFail, Shared!Next

\* For every mesh and every pattern of crashes and losses the replicated
\* registry implements the table of published records.
THEOREM RegistryIsSharedTable == Spec => ActsAsSharedTable
<1>1. Init => Shared!Init
  BY DEF Init, Shared!Init, EmptyMap, Shared!NothingKnown, Shared!NoEntry, NoEntry
<1>2. TypeOK /\ TypeOK' /\ Witnessed /\ [Next]_vars => [Shared!Next]_Shared!vars
  BY SharedStep
<1> QED BY <1>1, <1>2, WitnessInvariant, PTL DEF Spec, ActsAsSharedTable, Shared!Spec

-----------------------------------------------------------------------------
(* Backend metadata: the last run of the owner wins                        *)

\* In the meta table a step that replaces an entry replaces it by one of the
\* same or a later run.
LEMMA MetaForward ==
    ASSUME Table = "meta", TypeOK, Witnessed, RunStamps, RunsAreOrdered,
           TypeOK', RunStamps', RunsAreOrdered', [Next]_vars,
           NEW r \in Replicas, NEW k \in Publishers, up'[r]
    PROVE  items'[r][k].value >= items[r][k].value
<1>1. items[r][k] \in Entry /\ items'[r][k] \in Entry BY DEF TypeOK, Tables
<1>2. items[r][k].value \in Nat /\ items'[r][k].value \in Nat BY <1>1 DEF Entry
<1>3. CASE items'[r][k] = items[r][k] BY <1>2, <1>3
<1>4. CASE Replaced(r, k)
  <2>1. PICK m \in minted' : /\ m.id = k /\ items'[r][k] = m.entry
                             /\ Accepts(items[r], k, m.entry.clock)
    BY <1>4 DEF Replaced
  <2>2. CASE items[r][k] = NoEntry BY <1>2, <2>2 DEF NoEntry
  <2>3. CASE items[r][k] # NoEntry
    <3> DEFINE o == [id |-> k, entry |-> items[r][k]]
    <3>1. o \in minted' BY <2>3, MintedGrows DEF Witnessed, TableWitnessed
    <3>2. /\ m.entry.clock.lamport = 1 /\ items[r][k].clock.lamport = 1
      BY <2>1, <3>1 DEF RunStamps
    <3>3. Dominates(m.entry.clock, items[r][k].clock) BY <2>1, <2>3 DEF Accepts
    <3>4. m.entry.clock.unix >= items[r][k].clock.unix BY <3>2, <3>3 DEF Dominates
    <3>5. /\ m.entry.clock.unix \in Nat /\ items[r][k].clock.unix \in Nat
          /\ m.entry.value \in Nat
      BY <1>1, <2>1 DEF Entry, Clock
    <3>6. ~(m.entry.value < items[r][k].value)
      <4>1. o.id = k /\ o.entry = items[r][k] OBVIOUS
      <4>2. m.entry.value < o.entry.value => m.entry.clock.unix < o.entry.clock.unix
        BY <2>1, <3>1, <4>1 DEF RunsAreOrdered
      <4> QED BY <3>4, <3>5, <4>1, <4>2
    <3> QED BY <1>2, <2>1, <3>5, <3>6
  <2> QED BY <2>2, <2>3
<1>5. CASE Crash(r) BY <1>5 DEF Crash, TypeOK
<1> QED BY <1>3, <1>4, <1>5, StoreStep

\* Last writer wins in the meta table: no store of a running process goes back
\* to the metadata of an earlier run of an agent.
THEOREM MetaLastWriterWins ==
    ASSUME Table = "meta", RestartsAreSpaced
    PROVE  Spec => LastWriterWins
<1> DEFINE Inv == TypeOK /\ Witnessed /\ RunStamps /\ RunsAreOrdered
           Forward == \A r \in Replicas : up'[r] =>
                        \A k \in Publishers : items'[r][k].value >= items[r][k].value
<1>1. Inv /\ Inv' /\ [Next]_vars => [Forward]_vars BY MetaForward
<1>2. Spec => []Inv BY RunInvariant
<1>3. Spec => [][Forward]_vars BY <1>1, <1>2, PTL DEF Spec
<1> QED BY <1>3 DEF LastWriterWins

\* An agent that published its metadata in this run reads its own metadata back
\* from its store, whatever its peers still remember of its earlier runs.
THEOREM MetaOwnerSeesItself ==
    ASSUME Table = "meta", RestartsAreSpaced
    PROVE  Spec => []OwnerSeesItself
<1> DEFINE Inv == TypeOK /\ Witnessed /\ RunStamps /\ RunsAreOrdered
<1>1. Init => OwnerSeesItself BY RegistryAssumption DEF Init, OwnerSeesItself
<1>2. Inv /\ Inv' /\ OwnerSeesItself /\ [Next]_vars => OwnerSeesItself'
  <2> SUFFICES ASSUME Inv, Inv', OwnerSeesItself, [Next]_vars, NEW p \in Publishers,
                      seq'[p] > 0
               PROVE  items'[p][p].value = epoch'[p]
    BY DEF OwnerSeesItself
  <2>0. /\ p \in Replicas /\ epoch[p] \in Nat /\ epoch'[p] \in Nat /\ started[p] \in Nat
        /\ items[p][p] \in Entry /\ items'[p][p] \in Entry /\ up'[p] \in BOOLEAN
        /\ seq[p] \in Nat
    BY RegistryAssumption DEF TypeOK, Tables
  <2>1. items'[p][p].value \in Nat /\ items[p][p].value \in Nat BY <2>0 DEF Entry
  <2>2. up'[p] BY <2>0 DEF RunStamps
  <2>3. items'[p][p].value <= epoch'[p]
    <3>1. CASE items'[p][p] = NoEntry BY <2>0, <3>1 DEF NoEntry
    <3>2. CASE items'[p][p] # NoEntry
      <4>1. Witnessed' OBVIOUS
      <4>2. [id |-> p, entry |-> items'[p][p]] \in minted'
        BY <2>0, <3>2, <4>1 DEF Witnessed, TableWitnessed
      <4> QED BY <4>2 DEF RunStamps
    <3> QED BY <3>1, <3>2
  <2>4. ASSUME Publish(p) PROVE items'[p][p].value = epoch'[p]
    <3> DEFINE m == NewRecord(p)
    <3>1. /\ m.id = p /\ m.entry.value = epoch[p]
          /\ m.entry.clock = [lamport |-> 1, unix |-> started[p]]
      BY DEF NewRecord, NextClock, Stamp
    <3>2. Accepts(items[p], p, m.entry.clock)
      <4>1. CASE items[p][p] = NoEntry BY <4>1 DEF Accepts
      <4>2. CASE items[p][p] # NoEntry
        <5>1. [id |-> p, entry |-> items[p][p]] \in minted
          BY <2>0, <4>2 DEF Witnessed, TableWitnessed
        <5>2. /\ items[p][p].clock.lamport = 1
              /\ items[p][p].value <= epoch[p]
              /\ items[p][p].value < epoch[p] => items[p][p].clock.unix < started[p]
              /\ items[p][p].value = epoch[p] => items[p][p].clock.unix = started[p]
          BY <5>1 DEF RunStamps
        <5>3. items[p][p].clock.unix \in Nat BY <2>0 DEF Entry, Clock
        <5>4. items[p][p].clock.unix <= started[p] BY <2>0, <2>1, <5>2, <5>3
        <5> QED BY <2>0, <3>1, <5>2, <5>3, <5>4 DEF Accepts, Dominates
      <4> QED BY <4>1, <4>2
    <3>3. items'[p][p] = m.entry
      BY <2>0, <2>4, <3>1, <3>2 DEF Publish, Apply, Upsert, TypeOK, Tables
    <3>4. epoch' = epoch BY <2>4 DEF Publish
    <3> QED BY <3>1, <3>3, <3>4
  <2>5. CASE ~Publish(p)
    <3>1. seq'[p] = seq[p] /\ epoch'[p] = epoch[p]
      <4>1. ASSUME NEW r \in Replicas, Start(r) PROVE seq'[p] = seq[p] /\ epoch'[p] = epoch[p]
        <5>1. ~up[r] /\ seq' = seq /\ epoch' = [epoch EXCEPT ![r] = @ + 1] BY <4>1 DEF Start
        <5>2. p # r BY <2>0, <5>1 DEF RunStamps
        <5> QED BY <2>0, <5>1, <5>2 DEF TypeOK
      <4>2. ASSUME NEW r \in Replicas, Crash(r) PROVE seq'[p] = seq[p] /\ epoch'[p] = epoch[p]
        <5>1. epoch' = epoch /\ seq' = [seq EXCEPT ![r] = 0] BY <4>2 DEF Crash
        <5>2. p # r BY <2>0, <5>1 DEF TypeOK
        <5> QED BY <2>0, <5>1, <5>2 DEF TypeOK
      <4>3. ASSUME NEW q \in Publishers, Publish(q) PROVE seq'[p] = seq[p] /\ epoch'[p] = epoch[p]
        <5>1. p # q BY <2>5, <4>3
        <5> QED BY <2>0, <4>3, <5>1 DEF Publish, TypeOK
      <4>4. CASE Tick BY <4>4 DEF Tick, process
      <4> QED BY <4>1, <4>2, <4>3, <4>4, QuietSteps
    <3>2. items[p][p].value = epoch[p] BY <3>1 DEF OwnerSeesItself
    <3>3. items'[p][p].value >= items[p][p].value BY <2>0, <2>2, MetaForward
    <3> QED BY <2>0, <2>1, <2>3, <3>1, <3>2, <3>3
  <2> QED BY <2>4, <2>5
<1>3. Spec => []Inv BY RunInvariant
<1> QED BY <1>1, <1>2, <1>3, PTL DEF Spec
=============================================================================
