------------------------------- MODULE LWWMap -------------------------------
(***************************************************************************)
(* The replicated containers of pkg/crdt/lwwmap.go as operators on values: *)
(* LWWMap, a last-writer-wins map, and VersionVector, a map of counters.   *)
(* Each operator is one critical section of the code (everything a method  *)
(* does between taking and releasing its mutex); the modules that use them *)
(* decide which other steps come in between.                               *)
(*                                                                         *)
(* A Go map is a total function over the keys: a key that is not present   *)
(* has the zero value the code's lookup returns for it, NoEntry, and the   *)
(* counter 0 in a version vector.  Neither is ever stored, because every   *)
(* clock that is published is at least 1.                                  *)
(***************************************************************************)
EXTENDS Naturals

\* Type Clock: the lamport counter, then the wall clock.
Clock == [lamport : Nat, unix : Nat]

\* Type Entry; the values of the maps used here are numbers.
Entry == [value : Nat, clock : Clock]

NoEntry == [value |-> 0, clock |-> [lamport |-> 0, unix |-> 0]]

\* The keys that are present in a map.
Keys(items) == {k \in DOMAIN items : items[k] # NoEntry}

\* Mutant of Dominates: a tie is a loss.
DominatesStrictly(lhs, rhs) ==
    \/ lhs.lamport > rhs.lamport
    \/ lhs.lamport = rhs.lamport /\ lhs.unix > rhs.unix

\* dominates: a tie on both counters is a win for lhs.
Dominates(lhs, rhs) ==
    \/ lhs.lamport > rhs.lamport
    \/ lhs.lamport = rhs.lamport /\ lhs.unix >= rhs.unix

\* Mutant of Accepts: the clocks are not compared.
AcceptsAnything(items, key, clock) == TRUE

\* The test with which Upsert and Merge accept an incoming clock.
Accepts(items, key, clock) ==
    items[key] = NoEntry \/ Dominates(clock, items[key].clock)

Upsert(items, key, entry) ==
    IF Accepts(items, key, entry.clock) THEN [items EXCEPT ![key] = entry] ELSE items

\* The keys for which Merge takes over the incoming entry.
Taken(items, entries) ==
    {k \in Keys(entries) : Accepts(items, k, entries[k].clock)}

\* Mutant of Merge: the value is taken over, the clock of the old entry stays.
MergeValuesOnly(items, entries) ==
    [k \in DOMAIN items |->
        IF k \notin Taken(items, entries) THEN items[k]
        ELSE IF items[k] = NoEntry THEN entries[k]
        ELSE [entries[k] EXCEPT !.clock = items[k].clock]]

Merge(items, entries) ==
    [k \in DOMAIN items |-> IF k \in Taken(items, entries) THEN entries[k] ELSE items[k]]

\* What Merge returns: whether it assigned at all, not whether a value differs.
MergeReturns(items, entries) == Taken(items, entries) # {}

\* VersionVector.Bump: the counter of key is raised to at least counter.
Raise(vv, key, counter) ==
    [vv EXCEPT ![key] = IF counter > @ THEN counter ELSE @]
=============================================================================
