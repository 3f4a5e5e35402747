------------------------- MODULE RateLimiterProofs -------------------------
(***************************************************************************)
(* RateLimiter implements TokenBucket, for any number of clients and any   *)
(* rate, burst, window and cleanup period with WindowRefills.              *)
(***************************************************************************)
EXTENDS RateLimiter, TLAPS

\* A bucket fills while its client is idle.
Refilled(e) == e.tokens < Full => e.idle <= e.tokens

IdleRefills == \A c \in DOMAIN entries : Refilled(entries[c])

IInv == TypeOK /\ IdleRefills

\* A table of entries, as TypeOK and IdleRefills describe it.
Good(table) ==
    /\ DOMAIN table \subseteq Clients
    /\ table \in [DOMAIN table -> Entry]
    /\ \A c \in DOMAIN table : Refilled(table[c])

-----------------------------------------------------------------------------
\* The entry of a client is well-formed, whether there was one or not.
LEMMA EntryOfGood ==
    ASSUME NEW table, Good(table), NEW c \in Clients
    PROVE  EntryOf(table, c) \in Entry /\ Refilled(EntryOf(table, c))
  BY LimiterAssumption DEF Good, EntryOf, NewLimiter, Entry, Refilled, MaxIdle

\* Use keeps tables well-formed.
LEMMA UseGood ==
    ASSUME NEW table, Good(table), NEW c \in Clients
    PROVE  Good(Use(table, c))
<1> DEFINE e == EntryOf(table, c)
           new == [tokens |-> IF e.tokens >= Cost THEN e.tokens - Cost ELSE e.tokens, idle |-> 0]
<1>1. e \in Entry /\ Refilled(e)
  BY EntryOfGood
<1>2. new \in Entry /\ Refilled(new)
  <2>1. e.tokens \in 0..Full
    BY <1>1 DEF Entry
  <2> HIDE DEF e
  <2>2. QED
    BY <2>1, LimiterAssumption DEF Entry, Refilled, MaxIdle
<1>3. Use(table, c) = [x \in DOMAIN table \cup {c} |-> IF x = c THEN new ELSE table[x]]
  BY DEF Use
<1> HIDE DEF new
<1>4. QED
  BY <1>2, <1>3 DEF Good

\* Cleanup keeps tables well-formed.
LEMMA CleanupGood ==
    ASSUME NEW table, Good(table)
    PROVE  Good(Cleanup(table))
  BY DEF Cleanup, Good

\* What Cleanup drops was full, so that no client notices.
LEMMA CleanupInvisible ==
    ASSUME WindowRefills, NEW table, Good(table), NEW c \in Clients
    PROVE  EntryOf(Cleanup(table), c).tokens = EntryOf(table, c).tokens
<1>1. CASE c \in DOMAIN table /\ Expired(table[c])
  <2>1. table[c] \in Entry /\ Refilled(table[c])
    BY <1>1 DEF Good
  <2>2. table[c].tokens = Full
    BY <1>1, <2>1, LimiterAssumption DEF Expired, Refilled, Entry, WindowRefills, MaxIdle
  <2>3. QED
    BY <1>1, <2>2 DEF Cleanup, EntryOf, NewLimiter
<1>2. CASE ~(c \in DOMAIN table /\ Expired(table[c]))
  BY <1>2 DEF Cleanup, EntryOf
<1>3. QED
  BY <1>1, <1>2

-----------------------------------------------------------------------------
\* Every step keeps the invariant.
LEMMA IInvInit == Init => IInv
  BY LimiterAssumption DEF Init, IInv, TypeOK, IdleRefills

LEMMA IInvGood == IInv <=> /\ Good(entries)
                           /\ kind \in {"proxy", "dns"}
                           /\ sinceCleanup \in 0..CleanupPeriod
                           /\ verdict \in [client : Clients \cup {None}, allowed : BOOLEAN]
  BY DEF IInv, TypeOK, IdleRefills, Good

LEMMA IInvNext == IInv /\ [Next]_vars => IInv'
<1> SUFFICES ASSUME IInv, [Next]_vars
             PROVE  /\ Good(entries')
                    /\ kind' \in {"proxy", "dns"}
                    /\ sinceCleanup' \in 0..CleanupPeriod
                    /\ verdict' \in [client : Clients \cup {None}, allowed : BOOLEAN]
  BY DEF IInv, TypeOK, IdleRefills, Good
<1>0. /\ Good(entries)
      /\ kind \in {"proxy", "dns"}
      /\ sinceCleanup \in 0..CleanupPeriod
      /\ verdict \in [client : Clients \cup {None}, allowed : BOOLEAN]
  BY IInvGood
<1>1. CASE Tick
  <2>1. ASSUME NEW c \in DOMAIN entries
        PROVE  entries'[c] \in Entry /\ Refilled(entries'[c])
    <3>1. entries[c] \in Entry /\ Refilled(entries[c])
      BY <1>0 DEF Good
    <3>2. entries'[c] = [tokens |-> IF entries[c].tokens < Full THEN entries[c].tokens + 1 ELSE Full,
                         idle |-> IF entries[c].idle < MaxIdle THEN entries[c].idle + 1 ELSE MaxIdle]
      BY <1>1 DEF Tick
    <3>3. MaxIdle \in Nat
      BY LimiterAssumption DEF MaxIdle
    <3>4. QED
      BY <3>1, <3>2, <3>3, LimiterAssumption DEF Entry, Refilled
  <2>2. DOMAIN entries' = DOMAIN entries
    BY <1>1 DEF Tick
  <2>3. entries' = [c \in DOMAIN entries |-> entries'[c]]
    BY <1>1 DEF Tick
  <2>4. Good(entries')
    BY <1>0, <2>1, <2>2, <2>3 DEF Good
  <2>5. QED
    BY <1>0, <1>1, <2>4, LimiterAssumption DEF Tick
<1>2. CASE AllowUnknown
  BY <1>0, <1>2 DEF AllowUnknown
<1>3. ASSUME NEW c \in Clients, AllowProxy(c)
      PROVE  /\ Good(entries')
             /\ verdict' \in [client : Clients \cup {None}, allowed : BOOLEAN]
             /\ UNCHANGED <<kind, sinceCleanup>>
  <2>1. Good(Use(entries, c)) /\ Good(Cleanup(Use(entries, c)))
    BY <1>0, UseGood, CleanupGood
  <2>2. entries' = Use(entries, c) \/ entries' = Cleanup(Use(entries, c))
    BY <1>3 DEF AllowProxy
  <2>3. EntryOf(entries, c).tokens \in Nat
    BY <1>0, EntryOfGood, LimiterAssumption DEF Entry
  <2>4. QED
    BY <1>3, <2>1, <2>2, <2>3, LimiterAssumption DEF AllowProxy, Answer
<1>4. ASSUME NEW c \in Clients, AllowDNS(c)
      PROVE  /\ Good(entries')
             /\ verdict' \in [client : Clients \cup {None}, allowed : BOOLEAN]
             /\ sinceCleanup' \in 0..CleanupPeriod
             /\ UNCHANGED kind
  <2> DEFINE kept == IF CleanupDue THEN Cleanup(entries) ELSE entries
  <2>1. Good(kept)
    BY <1>0, CleanupGood
  <2>2. Good(Use(kept, c))
    BY <2>1, UseGood
  <2>3. EntryOf(kept, c).tokens \in Nat
    BY <2>1, EntryOfGood, LimiterAssumption DEF Entry
  <2>4. entries' = Use(kept, c) /\ verdict' = Answer(kept, c)
    BY <1>4 DEF AllowDNS
  <2>5. verdict' \in [client : Clients \cup {None}, allowed : BOOLEAN]
    BY <2>3, <2>4, LimiterAssumption DEF Answer
  <2>6. QED
    BY <1>0, <1>4, <2>2, <2>4, <2>5, LimiterAssumption DEF AllowDNS
<1>5. CASE UNCHANGED vars
  BY <1>0, <1>5 DEF vars, Good
<1>6. QED
  BY <1>0, <1>1, <1>2, <1>3, <1>4, <1>5 DEF Next, Allow

-----------------------------------------------------------------------------
\* Buckets are never in debt and never above the burst, whatever the window.
THEOREM LimiterTypes == Spec => []TypeOK
<1>1. Spec => []IInv
  BY IInvInit, IInvNext, PTL DEF Spec
<1>2. IInv => TypeOK
  BY DEF IInv
<1>3. QED
  BY <1>1, <1>2, PTL

\* Clients without an entry have a full bucket, those with one what is in it.
LEMMA UseIsAsk ==
    ASSUME NEW table, Good(table), NEW c \in Clients,
           NEW level, level = [x \in Clients |-> EntryOf(table, x).tokens]
    PROVE  [x \in Clients |-> EntryOf(Use(table, c), x).tokens] =
               IF level[c] >= Cost THEN [level EXCEPT ![c] = @ - Cost] ELSE level
  BY DEF Use, EntryOf

\* Where the window refills a bucket, every step of a limiter is one of buckets
\* that are never forgotten.
LEMMA StepIsBucketStep ==
    ASSUME WindowRefills, IInv, [Next]_vars
    PROVE  [Bucket!Next]_Bucket!vars
<1>0. Good(entries)
  BY IInvGood
<1>1. CASE Tick
  <2>1. ASSUME NEW c \in Clients
        PROVE  EntryOf(entries', c).tokens = IF Level[c] < Full THEN Level[c] + 1 ELSE Full
    BY <1>1, LimiterAssumption DEF Tick, EntryOf, Level, NewLimiter
  <2>2. QED
    BY <1>1, <2>1 DEF Tick, Level, Bucket!Next, Bucket!Drip
<1>2. CASE AllowUnknown
  BY <1>2 DEF AllowUnknown, Bucket!Next, Bucket!AskUnknown, Level
<1>3. ASSUME NEW c \in Clients, AllowProxy(c)
      PROVE  Bucket!Ask(c)
  <2> DEFINE used == Use(entries, c)
  <2>1. Good(used)
    BY <1>0, UseGood
  <2>2. [x \in Clients |-> EntryOf(Cleanup(used), x).tokens] = [x \in Clients |-> EntryOf(used, x).tokens]
    BY <2>1, CleanupInvisible
  <2>3. entries' = used \/ entries' = Cleanup(used)
    BY <1>3 DEF AllowProxy
  <2>4. Level' = [x \in Clients |-> EntryOf(used, x).tokens]
    BY <2>2, <2>3 DEF Level
  <2>5. Level' = IF Level[c] >= Cost THEN [Level EXCEPT ![c] = @ - Cost] ELSE Level
    BY <1>0, <2>4, UseIsAsk DEF Level
  <2>6. QED
    BY <1>3, <2>5 DEF AllowProxy, Answer, Level, Bucket!Ask
<1>4. ASSUME NEW c \in Clients, AllowDNS(c)
      PROVE  Bucket!Ask(c)
  <2> DEFINE kept == IF CleanupDue THEN Cleanup(entries) ELSE entries
  <2>1. Good(kept)
    BY <1>0, CleanupGood
  <2>2. Level = [x \in Clients |-> EntryOf(kept, x).tokens]
    BY <1>0, CleanupInvisible DEF Level
  <2>3. entries' = Use(kept, c) /\ verdict' = Answer(kept, c)
    BY <1>4 DEF AllowDNS
  <2> HIDE DEF kept
  <2>4. Level' = IF Level[c] >= Cost THEN [Level EXCEPT ![c] = @ - Cost] ELSE Level
    BY <2>1, <2>2, <2>3, UseIsAsk DEF Level
  <2>5. QED
    BY <2>2, <2>3, <2>4 DEF Answer, Bucket!Ask
<1>5. CASE UNCHANGED vars
  BY <1>5 DEF vars, Level, Bucket!vars
<1>6. QED
  BY <1>1, <1>2, <1>3, <1>4, <1>5 DEF Next, Allow, Bucket!Next

\* Both limiters implement buckets that are never forgotten, for every burst,
\* cost, cleanup period and table size, where the window refills a bucket.
THEOREM LimiterForgetsNothing ==
    ASSUME WindowRefills
    PROVE  Spec => ForgettingIsInvisible
<1>1. Spec => []IInv
  BY IInvInit, IInvNext, PTL DEF Spec
<1>2. Init => Bucket!Init
  BY DEF Init, Bucket!Init, Level, EntryOf, NewLimiter
<1>3. IInv /\ [Next]_vars => [Bucket!Next]_Bucket!vars
  BY StepIsBucketStep
<1>4. QED
  BY <1>1, <1>2, <1>3, PTL DEF Spec, ForgettingIsInvisible, Bucket!Spec

-----------------------------------------------------------------------------
\* Between two cleanups no entry of a DNS server's table grows older than the
\* window and the time since the last one.
Swept ==
    kind = "dns" /\ ~CleanupDue => \A c \in DOMAIN entries : entries[c].idle <= Window + sinceCleanup

\* What a cleanup leaves was seen within the window, and using an entry makes
\* none older.
LEMMA UseIsYoung ==
    ASSUME NEW table, NEW c \in Clients, NEW bound \in Nat,
           \A x \in DOMAIN table : table[x].idle <= bound
    PROVE  \A x \in DOMAIN Use(table, c) : Use(table, c)[x].idle <= bound
<1> DEFINE e == EntryOf(table, c)
           new == [tokens |-> IF e.tokens >= Cost THEN e.tokens - Cost ELSE e.tokens, idle |-> 0]
<1>1. Use(table, c) = [x \in DOMAIN table \cup {c} |-> IF x = c THEN new ELSE table[x]]
  BY DEF Use
<1>2. new.idle = 0
  OBVIOUS
<1> HIDE DEF new
<1>3. QED
  BY <1>1, <1>2

LEMMA CleanupIsYoung ==
    ASSUME NEW table, Good(table)
    PROVE  \A x \in DOMAIN Cleanup(table) : Cleanup(table)[x].idle <= Window
<1> SUFFICES ASSUME NEW x \in DOMAIN Cleanup(table)
             PROVE  Cleanup(table)[x].idle <= Window
  OBVIOUS
<1>1. x \in DOMAIN table /\ ~Expired(table[x]) /\ Cleanup(table)[x] = table[x]
  BY DEF Cleanup
<1>2. table[x] \in Entry /\ MaxIdle \in Nat
  BY <1>1, LimiterAssumption DEF Good, MaxIdle
<1>3. QED
  BY <1>1, <1>2, LimiterAssumption DEF Expired, Entry

\* The table an AllowDNS leaves is as young as Swept says.
LEMMA AllowDNSSweeps ==
    ASSUME IInv, Swept, NEW c \in Clients, AllowDNS(c)
    PROVE  \A x \in DOMAIN entries' : entries'[x].idle <= Window + sinceCleanup'
<1> DEFINE kept == IF CleanupDue THEN Cleanup(entries) ELSE entries
<1>1. Good(entries) /\ sinceCleanup \in 0..CleanupPeriod /\ kind = "dns"
  BY IInvGood DEF AllowDNS
<1>2. sinceCleanup' \in Nat /\ Window + sinceCleanup' \in Nat
  BY <1>1, LimiterAssumption DEF AllowDNS
<1>3. \A x \in DOMAIN kept : kept[x].idle <= Window + sinceCleanup'
  <2>1. CASE CleanupDue
    <3>1. sinceCleanup' = 0
      BY <2>1 DEF AllowDNS
    <3>2. QED
      BY <1>1, <2>1, <3>1, CleanupIsYoung, LimiterAssumption
  <2>2. CASE ~CleanupDue
    BY <1>1, <2>2 DEF AllowDNS, Swept
  <2>3. QED
    BY <2>1, <2>2
<1>4. entries' = Use(kept, c)
  BY DEF AllowDNS
<1> HIDE DEF kept
<1>5. QED
  BY <1>2, <1>3, <1>4, UseIsYoung

LEMMA SweptNext == IInv /\ Swept /\ [Next]_vars => Swept'
<1> SUFFICES ASSUME IInv, Swept, [Next]_vars, kind' = "dns", ~CleanupDue'
             PROVE  \A c \in DOMAIN entries' : entries'[c].idle <= Window + sinceCleanup'
  BY DEF Swept
<1>0. Good(entries) /\ sinceCleanup \in 0..CleanupPeriod
  BY IInvGood
<1>1. CASE Tick
  <2>1. kind = "dns" /\ ~CleanupDue /\ sinceCleanup' = sinceCleanup + 1
    BY <1>0, <1>1, LimiterAssumption DEF Tick, CleanupDue
  <2>2. ASSUME NEW c \in DOMAIN entries'
        PROVE  entries'[c].idle <= Window + sinceCleanup'
    <3>1. c \in DOMAIN entries /\ entries'[c].idle = IF entries[c].idle < MaxIdle THEN entries[c].idle + 1 ELSE MaxIdle
      BY <1>1 DEF Tick
    <3>2. entries[c].idle \in 0..MaxIdle /\ entries[c].idle <= Window + sinceCleanup
      BY <1>0, <2>1, <3>1 DEF Good, Entry, Swept
    <3>3. MaxIdle \in Nat
      BY LimiterAssumption DEF MaxIdle
    <3>4. QED
      BY <1>0, <2>1, <3>1, <3>2, <3>3, LimiterAssumption
  <2>3. QED
    BY <2>2
<1>2. CASE AllowUnknown
  BY <1>2 DEF AllowUnknown, Swept, CleanupDue
<1>3. ASSUME NEW c \in Clients, AllowProxy(c)
      PROVE  FALSE
  BY <1>3 DEF AllowProxy
<1>4. ASSUME NEW c \in Clients, AllowDNS(c)
      PROVE  \A x \in DOMAIN entries' : entries'[x].idle <= Window + sinceCleanup'
  BY <1>4, AllowDNSSweeps
<1>5. CASE UNCHANGED vars
  BY <1>5 DEF vars, Swept, CleanupDue
<1>6. QED
  BY <1>1, <1>2, <1>3, <1>4, <1>5 DEF Next, Allow

\* After every Allow no client is in the table for longer than the limiter's
\* cleanups promise, for every period, window and table size.
THEOREM LimiterSweeps == Spec => TableIsSwept
<1>1. Spec => []IInv
  BY IInvInit, IInvNext, PTL DEF Spec
<1>2. Init => Swept
  BY LimiterAssumption DEF Init, Swept
<1>3. IInv /\ Swept /\ [Next]_vars => Swept'
  BY SweptNext
<1>4. IInv /\ IInv' /\ Swept /\ [Next]_vars
      => [\A c \in Clients : Allow(c) =>
             LET idle == {entries'[x].idle : x \in DOMAIN entries'} IN
             IF kind = "dns" THEN \A i \in idle : i <= Window + CleanupPeriod
             ELSE Cardinality(DOMAIN entries') > MaxClients => \A i \in idle : i <= Window]_vars
  <2> SUFFICES ASSUME IInv, IInv', Swept, NEW c \in Clients, Allow(c)
               PROVE  IF kind = "dns" THEN \A x \in DOMAIN entries' : entries'[x].idle <= Window + CleanupPeriod
                      ELSE Cardinality(DOMAIN entries') > MaxClients
                             => \A x \in DOMAIN entries' : entries'[x].idle <= Window
    OBVIOUS
  <2>1. CASE AllowDNS(c)
    <3>1. \A x \in DOMAIN entries' : entries'[x].idle <= Window + sinceCleanup'
      BY <2>1, AllowDNSSweeps
    <3>2. sinceCleanup' \in 0..CleanupPeriod /\ \A x \in DOMAIN entries' : entries'[x].idle \in 0..MaxIdle
      BY DEF IInv, TypeOK, Entry
    <3>3. kind = "dns" /\ MaxIdle \in Nat
      BY <2>1, LimiterAssumption DEF AllowDNS, MaxIdle
    <3>4. QED
      BY <3>1, <3>2, <3>3, LimiterAssumption
  <2>2. CASE AllowProxy(c)
    <3>1. Good(Use(entries, c))
      BY IInvGood, UseGood
    <3>2. \A x \in DOMAIN Cleanup(Use(entries, c)) : Cleanup(Use(entries, c))[x].idle <= Window
      BY <3>1, CleanupIsYoung
    <3>3. Cardinality(DOMAIN entries') > MaxClients => entries' = Cleanup(Use(entries, c))
      BY <2>2 DEF AllowProxy
    <3>4. kind = "proxy"
      BY <2>2 DEF AllowProxy
    <3>5. QED
      BY <3>2, <3>3, <3>4
  <2>3. QED
    BY <2>1, <2>2 DEF Allow
<1>5. QED
  BY <1>1, <1>2, <1>3, <1>4, PTL DEF Spec, TableIsSwept
=============================================================================
