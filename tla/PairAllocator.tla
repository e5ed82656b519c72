--------------------------- MODULE PairAllocator ---------------------------
(***************************************************************************)
(* What the free-pair allocator of a query chunk promises: a set of free   *)
(* pairs, handed out lowest first, returned in any order.                  *)
(***************************************************************************)
EXTENDS Integers

CONSTANT Pair           \* the pair numbers of one chunk

VARIABLES free,         \* the pairs that may be handed out
          got           \* the pair of the last call to acquire, NoPair on None

NoPair == -1

TypeOK == /\ free \subseteq Pair
          /\ got \in Pair \cup {NoPair}

Init == free = Pair /\ got = NoPair

\* The pair the allocator must pick.
Lowest(S) == CHOOSE p \in S : \A q \in S : p <= q

Acquire == /\ free # {}
           /\ got' = Lowest(free)
           /\ free' = free \ {got'}

Exhausted == free = {} /\ got' = NoPair /\ UNCHANGED free

Release(p) == free' = free \cup {p} /\ UNCHANGED got

Next == Acquire \/ Exhausted \/ \E p \in Pair \ free : Release(p)

Spec == Init /\ [][Next]_<<free, got>>
=============================================================================
