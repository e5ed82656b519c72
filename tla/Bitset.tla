------------------------------- MODULE Bitset -------------------------------
(***************************************************************************)
(* Bitset of timestamp_pool.rs: the free pairs of one query chunk, as an   *)
(* array of machine words and a search hint.  A word is the set of its     *)
(* bits that are set.  A caller holds a pair from acquire_pair until its   *)
(* one release_pair, as find_or_alloc and the reaper do.                   *)
(*                                                                         *)
(* The names that TimestampPool has too carry the module's name here: the  *)
(* two are of one source file, and TimestampPoolProofs extends both.       *)
(***************************************************************************)
EXTENDS Integers, FiniteSets

CONSTANTS ChunkSize,    \* queries of a chunk (512 in the code)
          WordBits      \* bits of a word (64 in the code)

\* ChunkSize is even (asserted at compile time), and positive.
ASSUME SizeAssumption == /\ ChunkSize \in Nat \ {0}
                         /\ ChunkSize % 2 = 0
                         /\ WordBits \in Nat \ {0}

Words == (ChunkSize + WordBits - 1) \div WordBits   \* BITSET_WORDS
total_pairs == ChunkSize \div 2
ChunkPair == 0 .. total_pairs - 1
Word == 0 .. Words - 1
Bit  == 0 .. WordBits - 1

VARIABLES words, hint,  \* the fields of the struct
          got           \* half the query index acquire_pair returned last, or NoPair

bitsetVars == <<words, hint, got>>

NoPair == -1

PairAt(i, b) == i * WordBits + b

\* The pairs whose bit is set: Bit i set <=> pair i is free.
FreePairs == {p \in 0 .. Words * WordBits - 1 : p % WordBits \in words[p \div WordBits]}

BitsetTypeOK ==
  /\ words \in [Word -> SUBSET Bit]
  /\ hint \in Nat
  /\ got \in ChunkPair \cup {NoPair}

\* Bitset::full.
Full == [i \in Word |-> {b \in Bit : PairAt(i, b) \in ChunkPair}]

BitsetInit == words = Full /\ hint = 0 /\ got = NoPair

\* The word each step of the circular search looks at, from the clamped hint.
Start == IF hint <= Words - 1 THEN hint ELSE Words - 1
Probe(offset) == (Start + offset) % Words

\* The lowest set bit of a word.
trailing_zeros(w) == CHOOSE b \in w : \A c \in w : b <= c

acquire_pair ==
  \E offset \in Word :
    LET idx == Probe(offset)
        bit == trailing_zeros(words[idx])
    IN /\ words[idx] # {}
       /\ \A earlier \in 0 .. offset - 1 : words[Probe(earlier)] = {}
       /\ words' = [words EXCEPT ![idx] = @ \ {bit}]
       /\ hint' = idx
       /\ got' = PairAt(idx, bit)

any_free == \E i \in Word : words[i] # {}

acquire_none == ~any_free /\ got' = NoPair /\ UNCHANGED <<words, hint>>

\* Slips release_pair could make: leave the hint alone, index by the query.
release_keeping_hint(p) ==
  /\ words' = [words EXCEPT ![p \div WordBits] = @ \cup {p % WordBits}]
  /\ UNCHANGED <<hint, got>>

release_by_query(p) ==
  LET idx == (2 * p) \div WordBits
  IN /\ words' = [words EXCEPT ![idx] = @ \cup {(2 * p) % WordBits}]
     /\ hint' = IF hint <= idx THEN hint ELSE idx
     /\ UNCHANGED got

release_pair(p) ==
  LET idx == p \div WordBits
  IN /\ words' = [words EXCEPT ![idx] = @ \cup {p % WordBits}]
     /\ hint' = IF hint <= idx THEN hint ELSE idx
     /\ UNCHANGED got

BitsetNext == acquire_pair \/ acquire_none \/ \E p \in ChunkPair \ FreePairs : release_pair(p)

BitsetSpec == BitsetInit /\ [][BitsetNext]_bitsetVars

-----------------------------------------------------------------------------
\* The hint names a word, and no word below it has a free pair: neither the
\* clamp nor the wrap-around of acquire_pair's search is ever needed, and the
\* hint only ever skips words that are exhausted.
HintSkipsOnlyEmpty == /\ hint \in Word
                      /\ \A i \in Word : i < hint => words[i] = {}

\* Only pairs of the chunk are ever free: BITSET_WORDS leaves the upper half
\* of the words unused, and no release may put a pair there.
OnlyChunkPairs == FreePairs \subseteq ChunkPair

Allocator == INSTANCE PairAllocator WITH Pair <- ChunkPair, free <- FreePairs

\* The words and the hint implement the plain set of free pairs, handed out
\* lowest first; acquire_pair says None exactly when nothing is free.
ImplementsAllocator == Allocator!Spec
=============================================================================
