---------------------------- MODULE ResponseCache ----------------------------
(***************************************************************************)
(* pkg/cache/cache.go: the response cache of the proxy, shared by its      *)
(* request goroutines.  A client does what proxy.handleHTTP does with a    *)
(* cacheable request: it looks the key up, and on a miss fetches the       *)
(* response, builds an entry from it and stores it.  Every method locks    *)
(* the cache, but a Lookup that meets an expired entry unlocks it before   *)
(* it deletes the key.                                                     *)
(*                                                                         *)
(* An entry is its key, its size and its expiry; status, header and body   *)
(* are payload.  The store is hashicorp's lru.Cache, modelled from its     *)
(* use as the sequence of its entries, least recently used first.          *)
(***************************************************************************)
EXTENDS Naturals, Sequences, FiniteSets, SequencesExt, FiniteSetsExt

CONSTANTS
    Clients,    \* request goroutines
    Keys,       \* the cache keys of their requests
    Sizes,      \* the sizes of response bodies
    Capacity,   \* the number of entries of the LRU
    MaxBytes,   \* the byte budget; 0 is no budget
    TTL,        \* cacheTTL in ticks; 0 is for ever (cacheInfinite)
    MaxTime     \* bound: the clock stops here

ASSUME CacheAssumption ==
    /\ Capacity \in Nat \ {0}     \* NewResponseCache refuses other capacities
    /\ Sizes \subseteq Nat
    /\ {MaxBytes, TTL, MaxTime} \subseteq Nat

VARIABLES
    now,            \* time.Now()
    store,          \* ResponseCache.store
    currentBytes,   \* ResponseCache.currentBytes
    todo,           \* todo[c]: what client c does next
    displaced       \* history: the bytes the LRU evicted on its own

vars == <<now, store, currentBytes, todo, displaced>>

-----------------------------------------------------------------------------
\* ExpiresAt of an entry that never expires: the zero time.
Never == 0

Entries == [key : Keys, size : Sizes, expires : 0..(MaxTime + TTL)]

Idle == [op |-> "idle"]
Todo == {Idle} \cup [op : {"delete", "fetch"}, key : Keys] \cup [op : {"store"}, entry : Entries]

Total(s) == FoldLeft(LAMBDA sum, e : sum + e.size, 0, s)

Holds(s, k) == \E i \in DOMAIN s : s[i].key = k
Position(s, k) == CHOOSE i \in DOMAIN s : s[i].key = k
Peek(s, k) == s[Position(s, k)]

\* lru.Cache.Remove, and RemoveOldest called n times.
RemoveKey(s, k) == IF Holds(s, k) THEN RemoveAt(s, Position(s, k)) ELSE s
RemoveOldest(s, n) == SubSeq(s, n + 1, Len(s))

\* Mutant of Add: an LRU without a capacity.
AddUnbounded(s, e) == Append(RemoveKey(s, e.key), e)

\* lru.Cache.Add: the entry becomes the most recently used one, and the least
\* recently used one makes room for it.
Add(s, e) ==
    LET t == Append(RemoveKey(s, e.key), e)
    IN  IF Len(t) > Capacity THEN Tail(t) ELSE t

TypeOK ==
    /\ now \in 0..MaxTime
    /\ store \in Seq(Entries)
    /\ Len(store) <= Capacity
    /\ \A i, j \in DOMAIN store : store[i].key = store[j].key => i = j
    /\ currentBytes \in Nat
    /\ todo \in [Clients -> Todo]
    /\ displaced \in Nat

Init ==
    /\ now = 0
    /\ store = <<>>
    /\ currentBytes = 0
    /\ todo = [c \in Clients |-> Idle]
    /\ displaced = 0

-----------------------------------------------------------------------------
(* Steps                                                                   *)

Tick ==
    /\ now < MaxTime
    /\ now' = now + 1
    /\ UNCHANGED <<store, currentBytes, todo, displaced>>

Expired(e) == e.expires # Never /\ e.expires < now

\* Lookup up to RUnlock: Get makes the entry the most recently used one, even
\* if it has expired.
Lookup(c, k) ==
    /\ todo[c] = Idle
    /\ IF Holds(store, k)
       THEN LET e == Peek(store, k) IN
            /\ store' = Append(RemoveKey(store, k), e)
            /\ todo' = [todo EXCEPT ![c] =
                           IF Expired(e) THEN [op |-> "delete", key |-> k] ELSE Idle]
       ELSE /\ todo' = [todo EXCEPT ![c] = [op |-> "fetch", key |-> k]]
            /\ UNCHANGED store
    /\ UNCHANGED <<now, currentBytes, displaced>>

\* The bytes a key accounts for.
Accounted(s, k) == IF Holds(s, k) THEN Peek(s, k).size ELSE 0

\* Mutant of Delete: the entry that is removed stays accounted for.
DeleteForgets(c) ==
    /\ todo[c].op = "delete"
    /\ store' = RemoveKey(store, todo[c].key)
    /\ todo' = [todo EXCEPT ![c] = [op |-> "fetch", key |-> todo[c].key]]
    /\ UNCHANGED <<now, currentBytes, displaced>>

\* The Delete at the end of a Lookup that found the entry expired: it takes
\* whatever the key holds by then.
Delete(c) ==
    /\ todo[c].op = "delete"
    /\ currentBytes' = currentBytes - Accounted(store, todo[c].key)
    /\ store' = RemoveKey(store, todo[c].key)
    /\ todo' = [todo EXCEPT ![c] = [op |-> "fetch", key |-> todo[c].key]]
    /\ UNCHANGED <<now, displaced>>

\* The response arrives and BuildEntry stamps it.
BuildEntry(c, size) ==
    /\ todo[c].op = "fetch"
    /\ todo' = [todo EXCEPT ![c] =
                   [op |-> "store",
                    entry |-> [key |-> todo[c].key, size |-> size,
                               expires |-> IF TTL > 0 THEN now + TTL ELSE Never]]]
    /\ UNCHANGED <<now, store, currentBytes, displaced>>

\* The request fails, or its response is not cached.
GiveUp(c) ==
    /\ todo[c].op = "fetch"
    /\ todo' = [todo EXCEPT ![c] = Idle]
    /\ UNCHANGED <<now, store, currentBytes, displaced>>

\* Mutant of Evictions: the loop stops one entry short.
EvictionsShort(s, bytes) ==
    IF MaxBytes = 0 THEN 0
    ELSE Min({n \in 0..Len(s) : n + 1 >= Len(s) \/ bytes - Total(SubSeq(s, 1, n)) <= MaxBytes})

\* The loop of Store: how many of the oldest entries of s go until the account
\* is within the budget.  The entry just stored is the newest one: it goes last.
Evictions(s, bytes) ==
    IF MaxBytes = 0 THEN 0
    ELSE Min({n \in 0..Len(s) : n = Len(s) \/ bytes - Total(SubSeq(s, 1, n)) <= MaxBytes})

\* Store.  What Add itself evicts, because the LRU is full, stays accounted for.
Store(c) ==
    LET e == todo[c].entry
        added == Add(store, e)
        bytes == (currentBytes - Accounted(store, e.key)) + e.size
        n == Evictions(added, bytes)
    IN
    /\ todo[c].op = "store"
    /\ store' = RemoveOldest(added, n)
    /\ currentBytes' = bytes - Total(SubSeq(added, 1, n))
    /\ todo' = [todo EXCEPT ![c] = Idle]
    /\ displaced' = displaced + Total(RemoveKey(store, e.key)) + e.size - Total(added)
    /\ UNCHANGED now

Purge ==
    /\ store' = <<>>
    /\ currentBytes' = 0
    /\ displaced' = 0
    /\ UNCHANGED <<now, todo>>

Next ==
    \/ Tick
    \/ Purge
    \/ \E c \in Clients : Delete(c) \/ GiveUp(c) \/ Store(c)
    \/ \E c \in Clients, k \in Keys : Lookup(c, k)
    \/ \E c \in Clients, size \in Sizes : BuildEntry(c, size)

Spec == Init /\ [][Next]_vars

-----------------------------------------------------------------------------
(* Properties                                                              *)

\* The account never understates what is stored, so that the loop of Store,
\* which only sees the account, keeps the stored bytes within the budget.
ByteBudget ==
    /\ Total(store) <= currentBytes
    /\ MaxBytes > 0 => Total(store) <= MaxBytes

\* ByteSize is what is stored plus what the LRU evicted on its own since the
\* last Purge, and nothing else: no order of the Stores and Deletes of clients
\* that saw different entries under a key loses or counts an entry twice.
ByteSizeExplained == currentBytes = Total(store) + displaced
=============================================================================
