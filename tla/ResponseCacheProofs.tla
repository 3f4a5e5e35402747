------------------------ MODULE ResponseCacheProofs ------------------------
(***************************************************************************)
(* The byte account of the response cache, for any number of clients, keys *)
(* and entries.  Total is a fold over the store: its value under Append,   *)
(* \o and SubSeq is proved first, by induction over sequences.             *)
(***************************************************************************)
EXTENDS ResponseCache, FoldLemmas

-----------------------------------------------------------------------------
(* Total                                                                   *)

\* Sizes are natural numbers.
LEMMA SizeType == \A e \in Entries : e.size \in Nat
  BY CacheAssumption DEF Entries

\* Total as an iteration: the sums of the first i sizes.
LEMMA TotalTrace ==
    ASSUME NEW s \in Seq(Entries)
    PROVE  \E f : /\ f[0] = 0
                  /\ \A i \in 1..Len(s) : f[i] = f[i - 1] + s[i].size
                  /\ f[Len(s)] = Total(s)
<1> DEFINE n == Len(s)
           step == [i \in 1..n |-> [b \in Nat |-> b + s[i].size]]
           Body(it) == [x \in SUBSET DOMAIN s |->
                         IF x = {} THEN 0 ELSE it[x \ {Max(x)}] + s[Max(x)].size]
           g == CHOOSE it : it = Body(it)
<1>1. n \in Nat /\ DOMAIN s = 1..n
  OBVIOUS
<1>2. \A i \in 1..n : s[i].size \in Nat
  BY <1>1, SizeType, ElementOfSeq
<1>3. step \in [1..n -> [Nat -> Nat]]
  BY <1>2
<1>4. PICK it \in [SUBSET (1..n) -> Nat] : Solves(it, n, 0, step)
  <2> HIDE DEF step, n
  <2> QED BY <1>1, <1>3, FoldRecursion
<1>5. \E i : i = Body(i)
  <2>1. ASSUME NEW x \in SUBSET (1..n), x # {}
        PROVE  it[x] = it[x \ {Max(x)}] + s[Max(x)].size
    <3>1. Max(x) \in 1..n
      BY <1>1, <2>1, MaxPosition
    <3>2. it[x \ {Max(x)}] \in Nat
      OBVIOUS
    <3>3. it[x] = step[Max(x)][it[x \ {Max(x)}]]
      BY <1>4, <2>1 DEF Solves
    <3>4. QED
      BY <3>1, <3>2, <3>3
  <2>2. it[{}] = 0
    BY <1>4 DEF Solves
  <2>3. it = Body(it)
    BY <1>1, <2>1, <2>2
  <2>4. QED
    BY <2>3
<1>6. g = Body(g)
  BY <1>5
<1>7. Total(s) = g[1..n]
  BY <1>1 DEF Total, FoldLeft, MapThenFoldSet
<1> DEFINE f == [i \in 0..n |-> g[1..i]]
<1>8. f[0] = 0
  <2>1. g[{}] = 0
    <3> HIDE DEF g
    <3> QED BY <1>6
  <2>2. QED
    BY <1>1, <2>1, 1..0 = {}
<1>9. ASSUME NEW i \in 1..n PROVE f[i] = f[i - 1] + s[i].size
  <2>1. g[1..i] = g[1..(i - 1)] + s[i].size
    <3> HIDE DEF g
    <3>1. 1..i \in SUBSET (1..n) /\ 1..i # {} /\ (1..i) \ {i} = 1..(i - 1) /\ Max(1..i) = i
      BY <1>1, FirstPositions
    <3>2. g[1..i] = IF 1..i = {} THEN 0 ELSE g[(1..i) \ {Max(1..i)}] + s[Max(1..i)].size
      BY <1>1, <1>6, <3>1
    <3>3. QED
      BY <3>1, <3>2
  <2>2. i \in 0..n /\ i - 1 \in 0..n
    BY <1>1
  <2>3. QED
    BY <2>1, <2>2
<1>10. f[n] = Total(s)
  BY <1>1, <1>7, n \in 0..n
<1> HIDE DEF f
<1>11. QED
  BY <1>8, <1>9, <1>10

\* Total of no entries is 0.
LEMMA TotalEmpty == Total(<<>>) = 0
<1>1. <<>> \in Seq(Entries) /\ Len(<<>>) = 0
  OBVIOUS
<1>2. QED
  BY <1>1, TotalTrace

\* Total of a sequence with one more entry.
LEMMA TotalAppend ==
    ASSUME NEW s \in Seq(Entries), NEW e \in Entries
    PROVE  Total(Append(s, e)) = Total(s) + e.size
<1> DEFINE n == Len(s)
<1>1. Append(s, e) \in Seq(Entries) /\ Len(Append(s, e)) = n + 1 /\ n \in Nat
  OBVIOUS
<1>2. PICK f : /\ f[0] = 0
               /\ \A i \in 1..n : f[i] = f[i - 1] + s[i].size
               /\ f[n] = Total(s)
  BY TotalTrace
<1>3. PICK g : /\ g[0] = 0
               /\ \A i \in 1..(n + 1) : g[i] = g[i - 1] + Append(s, e)[i].size
               /\ g[n + 1] = Total(Append(s, e))
  BY <1>1, TotalTrace
<1>4. \A i \in 1..n : f[i - 1] = g[i - 1] => f[i] = g[i]
  BY <1>2, <1>3
<1>5. f[n] = g[n]
  BY <1>1, <1>2, <1>3, <1>4, IterationsAgree
<1>6. g[n + 1] = g[n] + e.size
  BY <1>1, <1>3
<1>7. QED
  BY <1>2, <1>3, <1>5, <1>6

\* Total is a natural number.
LEMMA TotalType ==
    ASSUME NEW s \in Seq(Entries)
    PROVE  Total(s) \in Nat
<1> DEFINE S == {t \in Seq(Entries) : Total(t) \in Nat}
<1>1. <<>> \in S
  BY TotalEmpty
<1>2. ASSUME NEW t \in Seq(Entries), NEW e \in Entries, t \in S PROVE Append(t, e) \in S
  <2>1. e.size \in Nat
    BY SizeType
  <2>2. QED
    BY <1>2, <2>1, TotalAppend
<1>3. Seq(Entries) \subseteq S
  <2> HIDE DEF S
  <2> QED BY <1>1, <1>2, SeqInduct
<1>4. QED
  BY <1>3

\* Total of two sequences is the sum of their totals.
LEMMA TotalConcat ==
    ASSUME NEW s \in Seq(Entries), NEW t \in Seq(Entries)
    PROVE  Total(s \o t) = Total(s) + Total(t)
<1> DEFINE S == {u \in Seq(Entries) : Total(s \o u) = Total(s) + Total(u)}
<1>1. <<>> \in S
  <2>1. s \o <<>> = s
    OBVIOUS
  <2>2. QED
    BY <2>1, TotalEmpty, TotalType
<1>2. ASSUME NEW u \in Seq(Entries), NEW e \in Entries, u \in S PROVE Append(u, e) \in S
  <2>1. s \o Append(u, e) = Append(s \o u, e) /\ s \o u \in Seq(Entries)
    OBVIOUS
  <2>2. Total(s \o Append(u, e)) = (Total(s) + Total(u)) + e.size
    BY <1>2, <2>1, TotalAppend
  <2>3. Total(s) \in Nat /\ Total(u) \in Nat /\ e.size \in Nat
    BY TotalType, SizeType
  <2>4. QED
    BY <2>2, <2>3, TotalAppend
<1>3. Seq(Entries) \subseteq S
  <2> HIDE DEF S
  <2> QED BY <1>1, <1>2, SeqInduct
<1>4. QED
  BY <1>3

\* What is dropped from the front and what stays make up the whole.
LEMMA TotalSplit ==
    ASSUME NEW s \in Seq(Entries), NEW n \in 0..Len(s)
    PROVE  /\ SubSeq(s, 1, n) \in Seq(Entries)
           /\ RemoveOldest(s, n) \in Seq(Entries)
           /\ Total(s) = Total(SubSeq(s, 1, n)) + Total(RemoveOldest(s, n))
<1>1. SubSeq(s, 1, n) \in Seq(Entries) /\ SubSeq(s, n + 1, Len(s)) \in Seq(Entries)
  OBVIOUS
<1>2. SubSeq(s, 1, n) \o SubSeq(s, n + 1, Len(s)) = s
  <2>1. 1 \in 1..(Len(s) + 1) /\ n \in (1 - 1)..Len(s) /\ Len(s) \in n..Len(s)
    OBVIOUS
  <2>2. SubSeq(s, 1, n) \o SubSeq(s, n + 1, Len(s)) = SubSeq(s, 1, Len(s))
    BY <2>1, ConcatAdjacentSubSeq
  <2>3. QED
    BY <2>2, SubSeqFull
<1>3. QED
  BY <1>1, <1>2, TotalConcat DEF RemoveOldest

-----------------------------------------------------------------------------
(* The LRU                                                                 *)

\* No two entries have one key.
Distinct(s) == \A i, j \in DOMAIN s : s[i].key = s[j].key => i = j

\* Remove takes away the bytes that the key accounts for, and the key.
LEMMA RemoveKeyProperties ==
    ASSUME NEW s \in Seq(Entries), NEW k
    PROVE  /\ RemoveKey(s, k) \in Seq(Entries)
           /\ Len(RemoveKey(s, k)) = IF Holds(s, k) THEN Len(s) - 1 ELSE Len(s)
           /\ Accounted(s, k) \in Nat
           /\ Total(s) = Total(RemoveKey(s, k)) + Accounted(s, k)
           /\ Distinct(s) => Distinct(RemoveKey(s, k)) /\ ~Holds(RemoveKey(s, k), k)
<1>1. CASE ~Holds(s, k)
  BY <1>1, TotalType DEF RemoveKey, Accounted
<1>2. CASE Holds(s, k)
  <2> DEFINE p == Position(s, k)
             front == SubSeq(s, 1, p - 1)
             back == SubSeq(s, p + 1, Len(s))
  <2>1. p \in 1..Len(s) /\ s[p].key = k
    BY <1>2 DEF Holds, Position
  <2> HIDE DEF p
  <2>2. RemoveKey(s, k) = front \o back /\ Accounted(s, k) = s[p].size
    BY <1>2 DEF RemoveKey, RemoveAt, Accounted, Peek, p
  <2>3. front \in Seq(Entries) /\ Len(front) = p - 1 /\ \A i \in 1..(p - 1) : front[i] = s[i]
    BY <2>1
  <2>4. back \in Seq(Entries) /\ Len(back) = Len(s) - p /\ \A i \in 1..(Len(s) - p) : back[i] = s[p + i]
    BY <2>1
  <2>5. s[p] \in Entries /\ s[p].size \in Nat
    BY <2>1, SizeType, ElementOfSeq
  <2>6. Total(s) = Total(front \o back) + s[p].size
    <3>1. p \in 0..Len(s) /\ RemoveOldest(s, p) = back
      BY <2>1 DEF RemoveOldest
    <3>2. SubSeq(s, 1, p) = Append(front, s[p])
      BY <2>1
    <3>3. Total(s) = (Total(front) + s[p].size) + Total(back)
      BY <2>3, <2>5, <3>1, <3>2, TotalSplit, TotalAppend
    <3>4. Total(front) \in Nat /\ Total(back) \in Nat
      BY <2>3, <2>4, TotalType
    <3>5. Total(front \o back) = Total(front) + Total(back)
      <4> HIDE DEF front, back
      <4> QED BY <2>3, <2>4, TotalConcat
    <3> HIDE DEF front, back
    <3>6. QED
      BY <2>5, <3>3, <3>4, <3>5
  <2> HIDE DEF front, back
  <2>7. front \o back \in Seq(Entries) /\ Len(front \o back) = Len(s) - 1
    <3>1. front \o back \in Seq(Entries) /\ Len(front \o back) = Len(front) + Len(back)
      BY <2>3, <2>4, ConcatProperties
    <3>2. QED
      BY <2>1, <2>3, <2>4, <3>1
  <2>8. ASSUME Distinct(s) PROVE Distinct(front \o back) /\ ~Holds(front \o back, k)
    <3> DEFINE old(i) == IF i < p THEN i ELSE i + 1
    <3>1. ASSUME NEW i \in 1..(Len(s) - 1)
          PROVE  old(i) \in 1..Len(s) /\ old(i) # p /\ (front \o back)[i] = s[old(i)]
      BY <2>1, <2>3, <2>4
    <3>2. DOMAIN (front \o back) = 1..(Len(s) - 1) /\ DOMAIN s = 1..Len(s)
      BY <2>7
    <3>3. ~Holds(front \o back, k)
      BY <2>1, <2>8, <3>1, <3>2 DEF Holds, Distinct
    <3>4. \A i, j \in 1..(Len(s) - 1) : old(i) = old(j) => i = j
      BY <2>1
    <3>5. Distinct(front \o back)
      <4> SUFFICES ASSUME NEW i \in 1..(Len(s) - 1), NEW j \in 1..(Len(s) - 1),
                          (front \o back)[i].key = (front \o back)[j].key
                   PROVE  i = j
        BY <3>2, Zenon DEF Distinct
      <4>1. s[old(i)].key = s[old(j)].key /\ old(i) \in 1..Len(s) /\ old(j) \in 1..Len(s)
        <5> HIDE DEF old
        <5> QED BY <3>1
      <4>2. old(i) = old(j)
        <5> HIDE DEF old
        <5> QED BY <2>8, <3>2, <4>1 DEF Distinct
      <4>3. QED
        BY <3>4, <4>2
    <3>6. QED
      BY <3>3, <3>5
  <2>9. QED
    BY <1>2, <2>2, <2>5, <2>6, <2>7, <2>8
<1>3. QED
  BY <1>1, <1>2

\* An entry that is appended after its key was removed.
LEMMA ReinsertProperties ==
    ASSUME NEW s \in Seq(Entries), Distinct(s), NEW e \in Entries
    PROVE  LET t == Append(RemoveKey(s, e.key), e) IN
           /\ t \in Seq(Entries)
           /\ Len(t) = IF Holds(s, e.key) THEN Len(s) ELSE Len(s) + 1
           /\ Distinct(t)
           /\ Total(t) = Total(RemoveKey(s, e.key)) + e.size
<1> DEFINE r == RemoveKey(s, e.key)
<1>1. /\ r \in Seq(Entries) /\ Distinct(r) /\ ~Holds(r, e.key)
      /\ Len(r) = IF Holds(s, e.key) THEN Len(s) - 1 ELSE Len(s)
  BY RemoveKeyProperties
<1> HIDE DEF r
<1>2. Total(Append(r, e)) = Total(r) + e.size
  BY <1>1, TotalAppend
<1>3. Distinct(Append(r, e))
  <2>1. \A i \in 1..Len(r) : r[i].key # e.key
    BY <1>1 DEF Holds
  <2>2. QED
    BY <1>1, <2>1 DEF Distinct
<1>4. QED
  BY <1>1, <1>2, <1>3 DEF r

\* Dropping the n oldest entries leaves the others, without repetitions if
\* there were none.
LEMMA RemoveOldestProperties ==
    ASSUME NEW s \in Seq(Entries), NEW n \in 0..Len(s)
    PROVE  /\ RemoveOldest(s, n) \in Seq(Entries)
           /\ Len(RemoveOldest(s, n)) = Len(s) - n
           /\ Distinct(s) => Distinct(RemoveOldest(s, n))
<1> DEFINE r == SubSeq(s, n + 1, Len(s))
<1>1. r \in Seq(Entries) /\ Len(r) = Len(s) - n /\ \A i \in 1..(Len(s) - n) : r[i] = s[n + i]
  OBVIOUS
<1> HIDE DEF r
<1>2. ASSUME Distinct(s) PROVE Distinct(r)
  <2> SUFFICES ASSUME NEW i \in 1..(Len(s) - n), NEW j \in 1..(Len(s) - n), r[i].key = r[j].key
               PROVE  i = j
    BY <1>1 DEF Distinct
  <2>1. n + i \in DOMAIN s /\ n + j \in DOMAIN s /\ s[n + i].key = s[n + j].key
    BY <1>1
  <2>2. n + i = n + j
    BY <1>2, <2>1 DEF Distinct
  <2>3. QED
    BY <2>2
<1>3. QED
  BY <1>1, <1>2 DEF RemoveOldest, r

\* Add keeps to the capacity; what it evicts is missing from the total.
LEMMA AddProperties ==
    ASSUME NEW s \in Seq(Entries), Distinct(s), Len(s) <= Capacity, NEW e \in Entries
    PROVE  /\ Add(s, e) \in Seq(Entries)
           /\ Len(Add(s, e)) <= Capacity
           /\ Distinct(Add(s, e))
           /\ (Total(RemoveKey(s, e.key)) + e.size) - Total(Add(s, e)) \in Nat
<1> DEFINE t == Append(RemoveKey(s, e.key), e)
<1>1. /\ t \in Seq(Entries) /\ Len(t) <= Len(s) + 1 /\ Len(t) > 0 /\ Distinct(t)
      /\ Total(t) = Total(RemoveKey(s, e.key)) + e.size
  <2>1. RemoveKey(s, e.key) \in Seq(Entries)
    BY RemoveKeyProperties
  <2>2. Len(t) > 0
    BY <2>1
  <2>3. /\ t \in Seq(Entries) /\ Distinct(t)
        /\ Len(t) = IF Holds(s, e.key) THEN Len(s) ELSE Len(s) + 1
        /\ Total(t) = Total(RemoveKey(s, e.key)) + e.size
    BY ReinsertProperties
  <2> HIDE DEF t
  <2>4. QED
    BY <2>2, <2>3
<1>2. Add(s, e) = IF Len(t) > Capacity THEN Tail(t) ELSE t
  BY DEF Add
<1> HIDE DEF t
<1>3. CASE Len(t) > Capacity
  <2>1. Add(s, e) = RemoveOldest(t, 1) /\ 1 \in 0..Len(t)
    BY <1>1, <1>2, <1>3, TailIsSubSeq DEF RemoveOldest
  <2>2. Total(t) = Total(SubSeq(t, 1, 1)) + Total(Add(s, e))
    BY <1>1, <2>1, TotalSplit
  <2>3. Total(SubSeq(t, 1, 1)) \in Nat /\ Total(Add(s, e)) \in Nat
    BY <1>1, <2>1, TotalSplit, TotalType
  <2>4. Len(Add(s, e)) <= Capacity
    BY <1>1, <2>1, RemoveOldestProperties, CacheAssumption
  <2>5. QED
    BY <1>1, <2>1, <2>2, <2>3, <2>4, RemoveOldestProperties
<1>4. CASE ~(Len(t) > Capacity)
  <2>1. Total(t) \in Nat /\ Add(s, e) = t
    BY <1>1, <1>2, <1>4, TotalType
  <2>2. QED
    BY <1>1, <1>4, <2>1, CacheAssumption
<1>5. QED
  BY <1>3, <1>4

\* The loop of Store leaves an account within the budget, or nothing.
LEMMA EvictionsProperties ==
    ASSUME NEW s \in Seq(Entries), NEW bytes \in Nat
    PROVE  /\ Evictions(s, bytes) \in 0..Len(s)
           /\ MaxBytes > 0 => \/ Evictions(s, bytes) = Len(s)
                              \/ bytes - Total(SubSeq(s, 1, Evictions(s, bytes))) <= MaxBytes
<1>1. MaxBytes \in Nat
  BY CacheAssumption
<1>2. CASE MaxBytes = 0
  BY <1>2 DEF Evictions
<1>3. CASE MaxBytes # 0
  <2> DEFINE T == {n \in 0..Len(s) : n = Len(s) \/ bytes - Total(SubSeq(s, 1, n)) <= MaxBytes}
  <2>1. T \in SUBSET Nat /\ Len(s) \in T
    OBVIOUS
  <2>2. Evictions(s, bytes) = Min(T)
    BY <1>3 DEF Evictions
  <2>3. Min(T) \in T
    <3> HIDE DEF T
    <3> QED BY <2>1, MinOfNats
  <2>4. QED
    BY <2>2, <2>3
<1>4. QED
  BY <1>2, <1>3

-----------------------------------------------------------------------------
(* The invariant                                                           *)

\* The cache proper.  TypeOK alone is not inductive: that the account does not
\* become negative needs its explanation.
CacheOK(s, bytes, lost) ==
    /\ s \in Seq(Entries)
    /\ Len(s) <= Capacity
    /\ Distinct(s)
    /\ lost \in Nat
    /\ bytes = Total(s) + lost
    /\ MaxBytes > 0 => Total(s) <= MaxBytes

\* The inductive invariant: TypeOK, ByteSizeExplained and ByteBudget at once.
IInv ==
    /\ CacheOK(store, currentBytes, displaced)
    /\ now \in 0..MaxTime
    /\ todo \in [Clients -> Todo]

\* The invariant implies what the runs check.
LEMMA IInvImplies == IInv => TypeOK /\ ByteSizeExplained /\ ByteBudget
  BY TotalType DEF IInv, CacheOK, Distinct, TypeOK, ByteSizeExplained, ByteBudget

\* The cache starts empty.
LEMMA IInvInit == Init => IInv
  BY TotalEmpty, CacheAssumption DEF Init, IInv, CacheOK, Distinct, Todo

\* Lookup reorders the store.
LEMMA LookupCache ==
    ASSUME CacheOK(store, currentBytes, displaced), NEW k \in Keys, Holds(store, k)
    PROVE  CacheOK(Append(RemoveKey(store, k), Peek(store, k)), currentBytes, displaced)
<1> DEFINE e == Peek(store, k)
<1>1. e \in Entries /\ e.key = k
  BY DEF CacheOK, Holds, Peek, Position
<1>2. Accounted(store, k) = e.size
  BY DEF Accounted
<1> HIDE DEF e
<1>3. Total(store) = Total(RemoveKey(store, k)) + e.size
  BY <1>2, RemoveKeyProperties DEF CacheOK
<1>4. QED
  BY <1>1, <1>3, ReinsertProperties DEF CacheOK, e

\* Delete takes off what the key accounts for.
LEMMA DeleteCache ==
    ASSUME CacheOK(store, currentBytes, displaced), NEW k \in Keys
    PROVE  CacheOK(RemoveKey(store, k), currentBytes - Accounted(store, k), displaced)
<1> DEFINE r == RemoveKey(store, k)
           b == Accounted(store, k)
<1>1. /\ r \in Seq(Entries) /\ Len(r) <= Len(store) /\ Distinct(r)
      /\ b \in Nat /\ Total(store) = Total(r) + b
  BY RemoveKeyProperties DEF CacheOK
<1>2. Total(r) \in Nat
  BY <1>1, TotalType
<1> HIDE DEF r, b
<1>3. QED
  BY <1>1, <1>2, CacheAssumption DEF CacheOK, r, b

\* Store accounts for what Add evicts as lost, and for what the loop evicts.
LEMMA StoreCache ==
    ASSUME CacheOK(store, currentBytes, displaced), NEW e \in Entries
    PROVE  LET added == Add(store, e)
               bytes == (currentBytes - Accounted(store, e.key)) + e.size
               n == Evictions(added, bytes)
           IN  CacheOK(RemoveOldest(added, n), bytes - Total(SubSeq(added, 1, n)),
                       displaced + Total(RemoveKey(store, e.key)) + e.size - Total(added))
<1> DEFINE r == RemoveKey(store, e.key)
           added == Add(store, e)
           bytes == (currentBytes - Accounted(store, e.key)) + e.size
           n == Evictions(added, bytes)
           lost == displaced + Total(r) + e.size - Total(added)
<1>1. /\ r \in Seq(Entries) /\ Accounted(store, e.key) \in Nat
      /\ Total(store) = Total(r) + Accounted(store, e.key)
  BY RemoveKeyProperties DEF CacheOK
<1>2. /\ added \in Seq(Entries) /\ Len(added) <= Capacity /\ Distinct(added)
      /\ (Total(r) + e.size) - Total(added) \in Nat
  BY AddProperties DEF CacheOK
<1>3. e.size \in Nat /\ Total(r) \in Nat /\ Total(added) \in Nat /\ displaced \in Nat
  BY <1>1, <1>2, SizeType, TotalType DEF CacheOK
<1> HIDE DEF r, added
<1>4. bytes = Total(added) + lost /\ lost \in Nat /\ bytes \in Nat
  <2> DEFINE size == e.size
             a == Accounted(store, e.key)
  <2>1. currentBytes = (Total(r) + a) + displaced /\ a \in Nat
    BY <1>1 DEF CacheOK
  <2>2. size \in Nat /\ (Total(r) + size) - Total(added) \in Nat
    BY <1>2, <1>3
  <2> HIDE DEF size, a
  <2>3. (currentBytes - a) + size = Total(added) + (displaced + Total(r) + size - Total(added))
    BY <1>3, <2>1, <2>2
  <2>4. displaced + Total(r) + size - Total(added) \in Nat
    BY <1>3, <2>2
  <2>5. QED
    BY <1>3, <2>3, <2>4 DEF size, a
<1> HIDE DEF bytes, lost
<1>5. /\ n \in 0..Len(added)
      /\ MaxBytes > 0 => n = Len(added) \/ bytes - Total(SubSeq(added, 1, n)) <= MaxBytes
  BY <1>2, <1>4, EvictionsProperties
<1> HIDE DEF n
<1> DEFINE out == Total(SubSeq(added, 1, n))
           rest == RemoveOldest(added, n)
<1>6. /\ rest \in Seq(Entries) /\ Len(rest) = Len(added) - n /\ Distinct(rest)
      /\ Total(added) = out + Total(rest) /\ out \in Nat /\ Total(rest) \in Nat
  BY <1>2, <1>5, TotalSplit, TotalType, RemoveOldestProperties
<1> HIDE DEF out, rest
<1>7. bytes - out = Total(rest) + lost
  BY <1>3, <1>4, <1>6
<1>8. ASSUME MaxBytes > 0 PROVE Total(rest) <= MaxBytes
  <2>1. CASE n = Len(added)
    <3>1. rest = <<>>
      BY <1>6, <2>1
    <3>2. QED
      BY <3>1, TotalEmpty, CacheAssumption
  <2>2. CASE bytes - out <= MaxBytes
    BY <1>4, <1>6, <1>7, <2>2, CacheAssumption
  <2>3. QED
    BY <1>5, <1>8, <2>1, <2>2 DEF out
<1>9. Len(rest) <= Capacity
  BY <1>2, <1>5, <1>6, CacheAssumption
<1>10. CacheOK(rest, bytes - out, lost)
  BY <1>4, <1>6, <1>7, <1>8, <1>9 DEF CacheOK
<1>11. QED
  BY <1>10 DEF rest, out, lost, n, bytes, added, r

\* What a client has to do tells what it holds.
LEMMA TodoTypes ==
    ASSUME NEW t \in Todo
    PROVE  /\ t.op \in {"delete", "fetch"} => t.key \in Keys
           /\ t.op = "store" => t.entry \in Entries
  BY DEF Todo, Idle

\* Every step of every client preserves the invariant.
LEMMA IInvStep == IInv /\ [Next]_vars => IInv'
<1> SUFFICES ASSUME IInv, [Next]_vars PROVE IInv'
  OBVIOUS
<1> DEFINE C == CacheOK(store, currentBytes, displaced)
<1>1. C /\ now \in 0..MaxTime /\ todo \in [Clients -> Todo]
  BY DEF IInv
<1>2. SUFFICES C' /\ now' \in 0..MaxTime /\ todo' \in [Clients -> Todo]
  BY DEF IInv
<1>3. CASE Tick
  BY <1>1, <1>3, CacheAssumption DEF Tick
<1>4. CASE Purge
  BY <1>1, <1>4, TotalEmpty, CacheAssumption DEF Purge, CacheOK, Distinct
<1>5. ASSUME NEW c \in Clients, NEW k \in Keys, Lookup(c, k)
      PROVE  C' /\ now' \in 0..MaxTime /\ todo' \in [Clients -> Todo]
  <2>1. C'
    <3>1. CASE Holds(store, k)
      BY <1>1, <1>5, <3>1, LookupCache DEF Lookup
    <3>2. CASE ~Holds(store, k)
      BY <1>1, <1>5, <3>2 DEF Lookup
    <3>3. QED
      BY <3>1, <3>2
  <2>2. todo' \in [Clients -> Todo] /\ now' = now
    BY <1>1, <1>5 DEF Lookup, Todo
  <2>3. QED
    BY <1>1, <2>1, <2>2
<1>6. ASSUME NEW c \in Clients, Delete(c)
      PROVE  C' /\ now' \in 0..MaxTime /\ todo' \in [Clients -> Todo]
  <2>1. todo[c].key \in Keys
    BY <1>1, <1>6, TodoTypes DEF Delete
  <2>2. C'
    BY <1>1, <1>6, <2>1, DeleteCache DEF Delete
  <2>3. todo' \in [Clients -> Todo] /\ now' = now
    BY <1>1, <1>6, <2>1 DEF Delete, Todo
  <2>4. QED
    BY <1>1, <2>2, <2>3
<1>7. ASSUME NEW c \in Clients, NEW size \in Sizes, BuildEntry(c, size)
      PROVE  C' /\ now' \in 0..MaxTime /\ todo' \in [Clients -> Todo]
  <2> DEFINE e == [key |-> todo[c].key, size |-> size,
                   expires |-> IF TTL > 0 THEN now + TTL ELSE Never]
  <2>1. todo[c].key \in Keys
    BY <1>1, <1>7, TodoTypes DEF BuildEntry
  <2>2. (IF TTL > 0 THEN now + TTL ELSE Never) \in 0..(MaxTime + TTL)
    BY <1>1, CacheAssumption DEF Never
  <2>3. e \in Entries
    BY <2>1, <2>2 DEF Entries
  <2>4. todo' = [todo EXCEPT ![c] = [op |-> "store", entry |-> e]]
    BY <1>7 DEF BuildEntry
  <2> HIDE DEF e
  <2>5. todo' \in [Clients -> Todo]
    BY <1>1, <2>3, <2>4 DEF Todo
  <2>6. QED
    BY <1>1, <1>7, <2>5 DEF BuildEntry
<1>8. ASSUME NEW c \in Clients, GiveUp(c)
      PROVE  C' /\ now' \in 0..MaxTime /\ todo' \in [Clients -> Todo]
  BY <1>1, <1>8 DEF GiveUp, Todo
<1>9. ASSUME NEW c \in Clients, Store(c)
      PROVE  C' /\ now' \in 0..MaxTime /\ todo' \in [Clients -> Todo]
  <2>1. todo[c].entry \in Entries
    BY <1>1, <1>9, TodoTypes DEF Store
  <2>2. C'
    BY <1>1, <1>9, <2>1, StoreCache DEF Store
  <2>3. todo' \in [Clients -> Todo] /\ now' = now
    BY <1>1, <1>9 DEF Store, Todo
  <2>4. QED
    BY <1>1, <2>2, <2>3
<1>10. CASE UNCHANGED vars
  BY <1>1, <1>10 DEF vars
<1>11. QED
  BY <1>3, <1>4, <1>5, <1>6, <1>7, <1>8, <1>9, <1>10 DEF Next

-----------------------------------------------------------------------------
\* The invariant holds throughout.
LEMMA CacheInvariant == Spec => []IInv
  BY IInvInit, IInvStep, PTL DEF Spec

\* Whatever clients interleave, the LRU has at most Capacity entries and none
\* twice under a key, and the account never becomes negative, though Delete and
\* Store subtract from it for entries that others put there.
THEOREM CacheTypes == Spec => []TypeOK
  BY CacheInvariant, IInvImplies, PTL

\* ByteSize is what is stored and what the LRU evicted on its own, exactly: the
\* account of Store, Delete and Purge loses nothing and counts nothing twice.
THEOREM BytesExplained == Spec => []ByteSizeExplained
  BY CacheInvariant, IInvImplies, PTL

\* The loop of Store keeps what is stored within the budget, because the account
\* it looks at never understates it.
THEOREM BytesWithinBudget == Spec => []ByteBudget
  BY CacheInvariant, IInvImplies, PTL
=============================================================================
