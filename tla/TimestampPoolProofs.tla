------------------------- MODULE TimestampPoolProofs -------------------------
(***************************************************************************)
(* Proofs about timestamp_pool.rs: TimestampPool for any number of pairs   *)
(* per chunk, chunks and dropping threads, its invariant and that it       *)
(* implements QueryPairs; and Bitset for every chunk size and word width,  *)
(* its invariant and that it implements PairAllocator.                     *)
(***************************************************************************)
EXTENDS TimestampPool, Bitset, SequenceTheorems, WellFoundedInduction, TLAPS

-----------------------------------------------------------------------------
(* What each part of the state adds to the inductive invariant.             *)

\* A pair that has left its chunk's free set belongs to a chunk that exists.
UsedExist ==
  owner # "destroyed" =>
    \A id \in Recording \cup live \cup Expiring \cup Reaping \cup leaked :
      id[1] <= Len(chunks)

\* Where the submitting call stands, and what it holds.
CallState ==
  /\ call = "idle" => rec = None /\ hand = {}
  /\ call = "accepted" => rec = None
  /\ owner # "alive" => call = "idle"
  /\ hand \cap submitted = {}

\* The reaper holds an item exactly while it processes one, and is gone once
\* it was joined.
ReaperState ==
  /\ item # NoItem <=> reaper \in {"await", "release"}
  /\ owner \in {"joined", "destroyed", "leaked"} => reaper = "exited"

\* Whose commands can be on the GPU: those of a handle that is marked or
\* about to be, and, once it is dropped, of an item marked as submitted that
\* the reaper has not waited for.
PendingKnown ==
  /\ \A id \in pending :
       \/ id \in submitted
       \/ call = "accepted" /\ id \in hand
       \/ \E i \in DOMAIN expiring : expiring[i].id = id /\ expiring[i].was_submitted
       \/ reaper = "await" /\ item.id = id
  /\ pending \cap avail = {}
  /\ lost => pending = {}

IInv == /\ TypeOK /\ OwnedOnce /\ UsedExist /\ CallState /\ ReaperState
        /\ PendingKnown /\ ResultIsOwn

-----------------------------------------------------------------------------
\* A non-empty set of naturals has a least element.
LEMMA LeastNatural ==
  ASSUME NEW S \in SUBSET Nat, S # {}
  PROVE  \E m \in S : \A n \in S : m <= n
<1>1. \E m \in S : \A n \in S : ~ (<<n, m>> \in OpToRel(<, Nat))
  BY NatLessThanWellFounded, WFMin
<1>2. PICK m \in S : \A n \in S : ~ (<<n, m>> \in OpToRel(<, Nat))  BY <1>1
<1>3. \A n \in S : <<n, m>> \in OpToRel(<, Nat) <=> n < m
  BY DEF OpToRel
<1>4. \A n \in S : ~ (n < m)  BY <1>2, <1>3, Zenon
<1>. QED  BY <1>4

-----------------------------------------------------------------------------
(* The free sets and the queue after each kind of change.                   *)

LEMMA NoneIsNoId == None \notin Id
BY DEF None, Id

LEMMA LowestIn ==
  ASSUME NEW S \in SUBSET Pair, S # {}
  PROVE  Lowest(S) \in S
<1>1. S \in SUBSET Nat  BY PoolAssumption DEF Pair
<1>2. \E m \in S : \A n \in S : m <= n  BY <1>1, LeastNatural
<1>. QED  BY <1>2 DEF Lowest

LEMMA FreeInId == TypeOK => Free \subseteq Id
BY DEF Free

LEMMA UsedInId ==
  ASSUME TypeOK
  PROVE  /\ Expiring \subseteq Id
         /\ Reaping \subseteq Id
         /\ Recording \subseteq Id
         /\ Len(chunks) \in Nat
         /\ \A id \in Id : id[1] \in Nat
<1>1. ASSUME NEW i \in DOMAIN expiring  PROVE expiring[i].id \in Id
  <2>1. expiring[i] \in Item  BY <1>1 DEF TypeOK
  <2>. QED  BY <2>1 DEF Item
<1>2. item.id \in Id \cup {None}  BY DEF TypeOK, Item, NoItem
<1>3. Len(chunks) \in Nat  BY DEF TypeOK
<1>4. \A id \in Id : id[1] \in Nat  BY DEF Id
<1>. QED  BY <1>1, <1>2, <1>3, <1>4 DEF Expiring, Reaping, Recording, TypeOK

\* A pair is taken out of the free set of chunk c.
LEMMA FreeTake ==
  ASSUME TypeOK, NEW c \in DOMAIN chunks, NEW p \in chunks[c],
         chunks' = [chunks EXCEPT ![c] = @ \ {p}]
  PROVE  /\ chunks' \in Seq(SUBSET Pair) /\ Len(chunks') = Len(chunks)
         /\ <<c, p>> \in Free
         /\ Free' = Free \ {<<c, p>>}
<1>1. chunks \in Seq(SUBSET Pair) /\ Len(chunks) <= MaxChunks  BY DEF TypeOK
<1>2. /\ DOMAIN chunks = 1 .. Len(chunks) /\ Len(chunks) \in Nat
      /\ MaxChunks \in Nat
  BY <1>1, PoolAssumption
<1>3. c \in 1 .. Len(chunks) /\ chunks[c] \in SUBSET Pair /\ p \in Pair  BY <1>1, <1>2
<1>4. chunks' \in Seq(SUBSET Pair) /\ Len(chunks') = Len(chunks)
  BY <1>1, <1>3
<1>5. <<c, p>> \in Free  BY <1>1, <1>2, <1>3 DEF Free, Id
<1>6. ASSUME NEW id \in Id
      PROVE  (id[1] <= Len(chunks') /\ id[2] \in chunks'[id[1]])
             <=> (id[1] <= Len(chunks) /\ id[2] \in chunks[id[1]]) /\ id # <<c, p>>
  <2>1. PICK d \in 1 .. MaxChunks, q \in Pair : id = <<d, q>>  BY DEF Id
  <2>2. CASE d > Len(chunks)  BY <1>2, <1>4, <2>1, <2>2
  <2>3. CASE d <= Len(chunks) /\ d # c
    <3>1. chunks'[d] = chunks[d]  BY <1>1, <1>2, <2>1, <2>3
    <3>. QED  BY <1>4, <2>1, <2>3, <3>1
  <2>4. CASE d = c
    <3>1. chunks'[d] = chunks[d] \ {p}  BY <1>1, <1>2, <1>3, <2>4
    <3>. QED  BY <1>3, <1>4, <2>1, <2>4, <3>1
  <2>. QED  BY <1>2, <2>1, <2>2, <2>3, <2>4
<1>7. Free' = Free \ {<<c, p>>}  BY <1>6 DEF Free
<1>. QED  BY <1>4, <1>5, <1>7

\* A pair goes back to the free set of its chunk.
LEMMA FreeRelease ==
  ASSUME TypeOK, NEW id \in Id, id[1] \in DOMAIN chunks,
         chunks' = [chunks EXCEPT ![id[1]] = @ \cup {id[2]}]
  PROVE  /\ chunks' \in Seq(SUBSET Pair) /\ Len(chunks') = Len(chunks)
         /\ Free' = Free \cup {id}
<1>1. chunks \in Seq(SUBSET Pair) /\ Len(chunks) <= MaxChunks  BY DEF TypeOK
<1>2. /\ DOMAIN chunks = 1 .. Len(chunks) /\ Len(chunks) \in Nat
      /\ MaxChunks \in Nat
  BY <1>1, PoolAssumption
<1>3. PICK c \in 1 .. MaxChunks, p \in Pair : id = <<c, p>>  BY DEF Id
<1>4. c \in 1 .. Len(chunks) /\ chunks[c] \in SUBSET Pair  BY <1>1, <1>2, <1>3
<1>5. chunks' = [chunks EXCEPT ![c] = @ \cup {p}]  BY <1>3
<1>6. chunks' \in Seq(SUBSET Pair) /\ Len(chunks') = Len(chunks)  BY <1>1, <1>4, <1>5
<1>7. ASSUME NEW jd \in Id
      PROVE  (jd[1] <= Len(chunks') /\ jd[2] \in chunks'[jd[1]])
             <=> (jd[1] <= Len(chunks) /\ jd[2] \in chunks[jd[1]]) \/ jd = id
  <2>1. PICK d \in 1 .. MaxChunks, q \in Pair : jd = <<d, q>>  BY DEF Id
  <2>2. CASE d > Len(chunks)  BY <1>2, <1>3, <1>4, <1>6, <2>1, <2>2
  <2>3. CASE d <= Len(chunks) /\ d # c
    <3>1. chunks'[d] = chunks[d]  BY <1>1, <1>2, <1>5, <2>1, <2>3
    <3>. QED  BY <1>3, <1>6, <2>1, <2>3, <3>1
  <2>4. CASE d = c
    <3>1. chunks'[d] = chunks[d] \cup {p}  BY <1>1, <1>2, <1>4, <1>5, <2>4
    <3>. QED  BY <1>2, <1>3, <1>4, <1>6, <2>1, <2>4, <3>1
  <2>. QED  BY <1>2, <2>1, <2>2, <2>3, <2>4
<1>8. Free' = Free \cup {id}  BY <1>7 DEF Free
<1>. QED  BY <1>6, <1>8

\* A new chunk brings its pairs, but for the first, which is taken.
LEMMA FreeAlloc ==
  ASSUME TypeOK, Len(chunks) < MaxChunks, chunks' = Append(chunks, Pair \ {0})
  PROVE  /\ chunks' \in Seq(SUBSET Pair) /\ Len(chunks') = Len(chunks) + 1
         /\ <<Len(chunks) + 1, 0>> \in Id
         /\ Free' = Free \cup {id \in Id : id[1] = Len(chunks) + 1 /\ id[2] # 0}
<1>1. chunks \in Seq(SUBSET Pair) /\ Len(chunks) \in Nat  BY DEF TypeOK
<1>2. /\ chunks' \in Seq(SUBSET Pair) /\ Len(chunks') = Len(chunks) + 1
      /\ \A c \in 1 .. Len(chunks) : chunks'[c] = chunks[c]
      /\ chunks'[Len(chunks) + 1] = Pair \ {0}
  BY <1>1, AppendProperties
<1>3. <<Len(chunks) + 1, 0>> \in Id  BY <1>1, PoolAssumption DEF Id, Pair
<1>4. ASSUME NEW id \in Id
      PROVE  (id[1] <= Len(chunks') /\ id[2] \in chunks'[id[1]])
             <=> \/ id[1] <= Len(chunks) /\ id[2] \in chunks[id[1]]
                 \/ id[1] = Len(chunks) + 1 /\ id[2] # 0
  <2>1. PICK d \in 1 .. MaxChunks, q \in Pair : id = <<d, q>>  BY DEF Id
  <2>2. CASE d <= Len(chunks)  BY <1>1, <1>2, <2>1, <2>2
  <2>3. CASE d = Len(chunks) + 1  BY <1>1, <1>2, <2>1, <2>3
  <2>4. CASE d > Len(chunks) + 1  BY <1>1, <1>2, <2>1, <2>4
  <2>. QED  BY <1>1, <2>1, <2>2, <2>3, <2>4
<1>5. Free' = Free \cup {id \in Id : id[1] = Len(chunks) + 1 /\ id[2] # 0}
  BY <1>4 DEF Free
<1>. QED  BY <1>2, <1>3, <1>5

\* Pushing a handle, popping one.
LEMMA ExpiringPush ==
  ASSUME expiring \in Seq(Item), NEW x \in Item, expiring' = Append(expiring, x)
  PROVE  /\ expiring' \in Seq(Item)
         /\ DOMAIN expiring' = DOMAIN expiring \cup {Len(expiring) + 1}
         /\ \A i \in DOMAIN expiring : i # Len(expiring) + 1 /\ expiring'[i] = expiring[i]
         /\ expiring'[Len(expiring) + 1] = x
         /\ Expiring' = Expiring \cup {x.id}
<1>1. /\ expiring' \in Seq(Item) /\ Len(expiring') = Len(expiring) + 1
      /\ \A i \in 1 .. Len(expiring) : expiring'[i] = expiring[i]
      /\ expiring'[Len(expiring) + 1] = x
  BY AppendProperties
<1>2. /\ DOMAIN expiring = 1 .. Len(expiring) /\ DOMAIN expiring' = 1 .. Len(expiring) + 1
      /\ Len(expiring) \in Nat
  BY <1>1
<1>3. DOMAIN expiring' = DOMAIN expiring \cup {Len(expiring) + 1}  BY <1>2
<1>4. \A i \in DOMAIN expiring : i # Len(expiring) + 1 /\ expiring'[i] = expiring[i]
  BY <1>1, <1>2
<1>. QED  BY <1>1, <1>3, <1>4 DEF Expiring

LEMMA ExpiringPop ==
  ASSUME expiring \in Seq(Item), expiring # <<>>, expiring' = Tail(expiring)
  PROVE  /\ expiring' \in Seq(Item)
         /\ 1 \in DOMAIN expiring /\ Head(expiring) = expiring[1] /\ expiring[1] \in Item
         /\ \A i \in DOMAIN expiring' : i + 1 \in DOMAIN expiring
                                     /\ expiring'[i] = expiring[i + 1]
         /\ \A i \in DOMAIN expiring : i # 1 => /\ i - 1 \in DOMAIN expiring'
                                               /\ expiring'[i - 1] = expiring[i]
         /\ DOMAIN expiring \subseteq Nat /\ DOMAIN expiring' \subseteq Nat
<1>1. /\ expiring' \in Seq(Item) /\ Len(expiring') = Len(expiring) - 1
      /\ \A i \in 1 .. Len(expiring') : expiring'[i] = expiring[i + 1]
  BY HeadTailProperties
<1>2. /\ DOMAIN expiring = 1 .. Len(expiring) /\ DOMAIN expiring' = 1 .. Len(expiring')
      /\ Len(expiring) \in Nat /\ Len(expiring) # 0
  BY <1>1
<1>3. Head(expiring) = expiring[1]  OBVIOUS
<1>. QED  BY <1>1, <1>2, <1>3

-----------------------------------------------------------------------------
(* The invariant, action by action.                                         *)

LEMMA InitInvariant == Init => IInv
<1> SUFFICES ASSUME Init PROVE IInv  OBVIOUS
<1> USE DEF Init
<1>1. TypeOK
  <2>1. <<>> \in Seq(SUBSET Pair) /\ <<>> \in Seq(Item) /\ Len(<<>>) = 0  BY EmptySeq
  <2>2. chunks \in Seq(SUBSET Pair) /\ expiring \in Seq(Item)  BY <2>1
  <2>3. Len(chunks) <= MaxChunks  BY <2>1, PoolAssumption
  <2>4. notifying \in Nat  OBVIOUS
  <2>5. rec \in Id \cup {None} /\ item \in Item \cup {NoItem}  OBVIOUS
  <2>. QED  BY <2>2, <2>3, <2>4, <2>5, Zenon DEF TypeOK
<1>2. Recording = {} /\ Expiring = {} /\ Reaping = {}
  BY DEF Recording, Expiring, Reaping, NoItem
<1>3. OwnedOnce /\ UsedExist  BY <1>2 DEF OwnedOnce, UsedExist, Free
<1>4. CallState /\ ReaperState /\ PendingKnown /\ ResultIsOwn
  BY DEF CallState, ReaperState, PendingKnown, ResultIsOwn
<1>. QED  BY <1>1, <1>3, <1>4 DEF IInv

\* A pair leaves its free set and becomes the one being recorded.
LEMMA TakeStep ==
  ASSUME IInv, owner = "alive", call # "accepted", rec = None,
         call' = "acquiring", rec' \in Id,
         chunks' \in Seq(SUBSET Pair), Len(chunks') <= MaxChunks,
         Len(chunks) <= Len(chunks'), rec'[1] <= Len(chunks'),
         rec' \notin live \cup Expiring \cup Reaping \cup leaked \cup Free',
         Free' \cap (live \cup Expiring \cup Reaping \cup leaked) = {},
         \A id \in Id : id[1] \in DOMAIN chunks' =>
            id \in Free' \cup {rec'} \cup live \cup Expiring \cup Reaping \cup leaked,
         UNCHANGED <<hand, live, submitted, leaked, expiring, notifying, reapVars, stop,
                     owner, gpuVars>>
  PROVE  IInv'
<1> USE DEF IInv, reapVars, gpuVars
<1>1. /\ Recording' = {rec'} /\ Expiring' = Expiring /\ Reaping' = Reaping
      /\ Recording = {}
  BY NoneIsNoId DEF Recording, Expiring, Reaping
<1>2. TypeOK'  BY DEF TypeOK
<1>3. OwnedOnce'  BY <1>1 DEF OwnedOnce
<1>4. UsedExist'
  <2>1. Len(chunks) \in Nat /\ Len(chunks') \in Nat  OBVIOUS
  <2>2. live \cup Expiring \cup Reaping \cup leaked \subseteq Id
    BY UsedInId DEF TypeOK
  <2>3. \A id \in live \cup Expiring \cup Reaping \cup leaked : id[1] <= Len(chunks)
    BY DEF UsedExist
  <2>4. \A id \in Id : id[1] \in Nat  BY UsedInId
  <2>5. \A id \in live \cup Expiring \cup Reaping \cup leaked : id[1] <= Len(chunks')
    BY <2>1, <2>2, <2>3, <2>4
  <2>. QED  BY <1>1, <2>5 DEF UsedExist
<1>5. CallState' /\ ReaperState'  BY DEF CallState, ReaperState
<1>6. PendingKnown' /\ ResultIsOwn'
  BY DEF PendingKnown, ResultIsOwn, CallState
<1>. QED  BY <1>2, <1>3, <1>4, <1>5, <1>6

LEMMA FindFreeStep == IInv /\ FindFree => IInv'
<1> SUFFICES ASSUME IInv, FindFree PROVE IInv'  OBVIOUS
<1>1. PICK c \in DOMAIN chunks : FirstFree(c) /\ Take(c)  BY DEF FindFree
<1> DEFINE p == Lowest(chunks[c])
<1>2. c \in 1 .. Len(chunks) /\ chunks[c] \in SUBSET Pair /\ Len(chunks) \in Nat
  BY DEF IInv, TypeOK
<1>3. p \in chunks[c]  BY <1>1, <1>2, LowestIn DEF FirstFree
<1>4. chunks' = [chunks EXCEPT ![c] = @ \ {p}] /\ rec' = <<c, p>>  BY <1>1 DEF Take
<1>5. /\ chunks' \in Seq(SUBSET Pair) /\ Len(chunks') = Len(chunks)
      /\ <<c, p>> \in Free
      /\ Free' = Free \ {<<c, p>>}
  BY <1>3, <1>4, FreeTake DEF IInv
<1>6. DOMAIN chunks' = DOMAIN chunks  BY <1>4
<1>7. /\ rec' \in Id /\ rec'[1] <= Len(chunks') /\ Len(chunks') <= MaxChunks
      /\ rec = None
  BY <1>2, <1>4, <1>5, FreeInId DEF IInv, TypeOK, FindFree
<1>8. Recording = {}  BY <1>7 DEF Recording
<1>9. /\ rec' \notin live \cup Expiring \cup Reaping \cup leaked \cup Free'
      /\ Free' \cap (live \cup Expiring \cup Reaping \cup leaked) = {}
      /\ \A id \in Id : id[1] \in DOMAIN chunks' =>
            id \in Free' \cup {rec'} \cup live \cup Expiring \cup Reaping \cup leaked
  BY <1>4, <1>5, <1>6, <1>8 DEF IInv, OwnedOnce
<1>10. Len(chunks) <= Len(chunks')  BY <1>2, <1>5
<1>. QED  BY <1>5, <1>7, <1>9, <1>10, TakeStep DEF FindFree

LEMMA AllocChunkStep == IInv /\ AllocChunk => IInv'
<1> SUFFICES ASSUME IInv, AllocChunk PROVE IInv'  OBVIOUS
<1> DEFINE n == Len(chunks) + 1
           new == {id \in Id : id[1] = n /\ id[2] # 0}
<1>1. /\ chunks' = Append(chunks, Pair \ {0}) /\ rec' = <<n, 0>> /\ rec = None
      /\ Len(chunks) < MaxChunks
  BY DEF AllocChunk
<1>2. /\ chunks' \in Seq(SUBSET Pair) /\ Len(chunks') = n /\ rec' \in Id
      /\ Free' = Free \cup new
  BY <1>1, FreeAlloc DEF IInv
<1>3. Len(chunks) \in Nat /\ MaxChunks \in Nat  BY PoolAssumption DEF IInv, TypeOK
<1>4. \A id \in live \cup Expiring \cup Reaping \cup leaked : id[1] <= Len(chunks)
  BY DEF IInv, UsedExist, AllocChunk
<1>5. \A id \in Free : id[1] <= Len(chunks)  BY DEF Free
<1>6. rec'[1] = n /\ rec'[2] = 0  BY <1>1
<1>7. /\ rec' \notin live \cup Expiring \cup Reaping \cup leaked \cup Free'
      /\ new \cap (live \cup Expiring \cup Reaping \cup leaked) = {}
  BY <1>2, <1>3, <1>4, <1>5, <1>6
<1>8. Free' \cap (live \cup Expiring \cup Reaping \cup leaked) = {}
  BY <1>2, <1>7 DEF IInv, OwnedOnce
<1>9. ASSUME NEW id \in Id, id[1] \in DOMAIN chunks'
      PROVE  id \in Free' \cup {rec'} \cup live \cup Expiring \cup Reaping \cup leaked
  <2>1. PICK d \in 1 .. MaxChunks, q \in Pair : id = <<d, q>>  BY DEF Id
  <2>2. DOMAIN chunks' = 1 .. n /\ DOMAIN chunks = 1 .. Len(chunks)
    BY <1>2, <1>3 DEF IInv, TypeOK
  <2>3. CASE d = n /\ q = 0  BY <1>1, <2>1, <2>3
  <2>4. CASE d = n /\ q # 0  BY <1>2, <2>1, <2>4
  <2>5. CASE d # n
    <3>1. id[1] \in DOMAIN chunks  BY <1>3, <1>9, <2>1, <2>2, <2>5
    <3>2. Recording = {}  BY <1>1 DEF Recording
    <3>. QED  BY <1>2, <3>1, <3>2 DEF IInv, OwnedOnce
  <2>. QED  BY <2>3, <2>4, <2>5
<1>10. Len(chunks') <= MaxChunks /\ Len(chunks) <= Len(chunks') /\ rec'[1] <= Len(chunks')
  BY <1>1, <1>2, <1>3, <1>6
<1>. QED  BY <1>1, <1>2, <1>7, <1>8, <1>9, <1>10, TakeStep DEF AllocChunk

LEMMA RecordDoneStep == IInv /\ RecordDone => IInv'
<1> SUFFICES ASSUME IInv, RecordDone PROVE IInv'  OBVIOUS
<1> USE DEF IInv, RecordDone, ResetQueries, reapVars
<1>1. /\ Free' = Free /\ Expiring' = Expiring /\ Reaping' = Reaping
      /\ Recording = {rec} /\ Recording' = {} /\ rec \in Id
  BY DEF Free, Expiring, Reaping, Recording, TypeOK
<1>2. rec \notin live /\ rec \notin pending
  BY <1>1 DEF OwnedOnce, PendingKnown, CallState, TypeOK, Expiring, Reaping
<1>3. TypeOK'  BY <1>1 DEF TypeOK
<1>4. OwnedOnce'  BY <1>1 DEF OwnedOnce
<1>5. UsedExist'  BY <1>1 DEF UsedExist
<1>6. CallState' /\ ReaperState'  BY <1>1, <1>2 DEF CallState, ReaperState, TypeOK
<1>7. PendingKnown'  BY DEF PendingKnown
<1>8. ResultIsOwn'  BY <1>2 DEF ResultIsOwn, CallState
<1>. QED  BY <1>3, <1>4, <1>5, <1>6, <1>7, <1>8

LEMMA RecordFailsStep == IInv /\ RecordFails => IInv'
<1> SUFFICES ASSUME IInv, RecordFails PROVE IInv'  OBVIOUS
<1> USE DEF IInv, RecordFails, reapVars
<1>1. /\ Free' = Free /\ Expiring' = Expiring /\ Reaping' = Reaping
      /\ Recording = {rec} /\ Recording' = {} /\ rec \in Id
  BY DEF Free, Expiring, Reaping, Recording, TypeOK
<1>2. TypeOK'  BY <1>1 DEF TypeOK
<1>3. OwnedOnce'  BY <1>1 DEF OwnedOnce
<1>4. UsedExist'  BY <1>1 DEF UsedExist
<1>5. CallState' /\ ReaperState'  BY DEF CallState, ReaperState
<1>6. call # "accepted"  BY DEF CallState
<1>7. PendingKnown' /\ ResultIsOwn'  BY <1>6 DEF PendingKnown, ResultIsOwn
<1>. QED  BY <1>2, <1>3, <1>4, <1>5, <1>7

\* Steps that only move the submitting call, the GPU, the dropper count, the
\* owner or a reaper without an item: no pair changes place.
LEMMA PlacesKept ==
  ASSUME IInv, UNCHANGED <<chunks, rec, live, leaked, expiring, item>>
  PROVE  /\ OwnedOnce'
         /\ Free' = Free /\ Expiring' = Expiring /\ Reaping' = Reaping
         /\ Recording' = Recording
<1>1. /\ Free' = Free /\ Expiring' = Expiring /\ Reaping' = Reaping
      /\ Recording' = Recording
  BY DEF Free, Expiring, Reaping, Recording
<1>. QED  BY <1>1 DEF IInv, OwnedOnce

LEMMA CallStep == IInv /\ (CallFails \/ Accept) => IInv'
<1> SUFFICES ASSUME IInv, CallFails \/ Accept PROVE IInv'  OBVIOUS
<1> USE DEF IInv, reapVars, gpuVars
<1>1. UNCHANGED <<chunks, rec, live, submitted, leaked, expiring, notifying, reaper, item,
                  final, stop, owner, avail, lost>>
  BY DEF CallFails, Accept
<1>2. OwnedOnce' /\ UsedExist'  BY <1>1, PlacesKept DEF UsedExist
<1>3. CASE CallFails
  <2>1. TypeOK'  BY <1>3 DEF CallFails, TypeOK
  <2>2. CallState' /\ ReaperState'  BY <1>3 DEF CallFails, CallState, ReaperState
  <2>3. PendingKnown' /\ ResultIsOwn'  BY <1>3 DEF CallFails, PendingKnown, ResultIsOwn
  <2>. QED  BY <1>2, <2>1, <2>2, <2>3
<1>4. CASE Accept
  <2>1. TypeOK'  BY <1>4 DEF Accept, TypeOK
  <2>2. CallState' /\ ReaperState'  BY <1>4 DEF Accept, CallState, ReaperState
  <2>3. hand \cap avail = {}  BY <1>4 DEF Accept, ResultIsOwn, CallState, TypeOK
  <2>4. PendingKnown'  BY <1>4, <2>3 DEF Accept, PendingKnown
  <2>5. ResultIsOwn'  BY <1>4, <2>3 DEF Accept, ResultIsOwn
  <2>. QED  BY <1>2, <2>1, <2>2, <2>4, <2>5
<1>. QED  BY <1>3, <1>4

LEMMA MarkSubmittedStep == ASSUME NEW h \in hand PROVE IInv /\ MarkSubmitted(h) => IInv'
<1> SUFFICES ASSUME IInv, MarkSubmitted(h) PROVE IInv'  OBVIOUS
<1> USE DEF IInv, MarkSubmitted, Mark, reapVars, gpuVars
<1>1. OwnedOnce' /\ UsedExist'  BY PlacesKept DEF UsedExist
<1>2. TypeOK'  BY DEF TypeOK
<1>3. CallState' /\ ReaperState'
  <2>1. hand' = {} <=> hand = {h}  OBVIOUS
  <2>. QED  BY <2>1 DEF CallState, ReaperState
<1>4. PendingKnown'
  <2>1. \A id \in hand : id \in submitted' \/ (id \in hand' /\ call' = "accepted")
    OBVIOUS
  <2>. QED  BY <2>1 DEF PendingKnown
<1>5. ResultIsOwn'  BY DEF ResultIsOwn
<1>. QED  BY <1>1, <1>2, <1>3, <1>4, <1>5

LEMMA DropHandleStep == ASSUME NEW h \in live PROVE IInv /\ DropHandle(h) => IInv'
<1> SUFFICES ASSUME IInv, DropHandle(h) PROVE IInv'  OBVIOUS
<1> USE DEF IInv, DropHandle, reapVars, gpuVars, subVars
<1> DEFINE x == [id |-> h, was_submitted |-> h \in submitted]
<1>1. x \in Item /\ h \in Id  BY DEF Item, TypeOK
<1>2. expiring \in Seq(Item) /\ expiring' = Append(expiring, x)  BY DEF TypeOK
<1> HIDE DEF x
<1>3. /\ expiring' \in Seq(Item)
      /\ DOMAIN expiring' = DOMAIN expiring \cup {Len(expiring) + 1}
      /\ \A i \in DOMAIN expiring : i # Len(expiring) + 1 /\ expiring'[i] = expiring[i]
      /\ expiring'[Len(expiring) + 1] = x
      /\ Expiring' = Expiring \cup {x.id}
  BY <1>1, <1>2, ExpiringPush
<1>4. x.id = h /\ (x.was_submitted <=> h \in submitted)  BY DEF x
<1>5. Free' = Free /\ Reaping' = Reaping /\ Recording' = Recording
  BY DEF Free, Reaping, Recording
<1>6. TypeOK'  BY <1>3 DEF TypeOK
<1>7. \A i \in DOMAIN expiring : expiring[i].id # h
  BY DEF OwnedOnce, Expiring
<1>8. OwnedOnce'
  <2>1. \A i, j \in DOMAIN expiring' : expiring'[i].id = expiring'[j].id => i = j
    BY <1>3, <1>4, <1>7 DEF OwnedOnce
  <2>. QED  BY <1>3, <1>4, <1>5, <2>1 DEF OwnedOnce
<1>9. UsedExist'  BY <1>3, <1>4, <1>5 DEF UsedExist
<1>10. CallState' /\ ReaperState'  BY DEF CallState, ReaperState
<1>11. PendingKnown'
  <2>1. ASSUME NEW id \in pending
        PROVE  \/ id \in submitted'
               \/ call = "accepted" /\ id \in hand
               \/ \E i \in DOMAIN expiring' : expiring'[i].id = id /\ expiring'[i].was_submitted
               \/ reaper = "await" /\ item.id = id
    <3>1. CASE id \in submitted /\ id # h  BY <3>1
    <3>2. CASE id \in submitted /\ id = h  BY <1>3, <1>4, <3>2
    <3>3. CASE \E i \in DOMAIN expiring : expiring[i].id = id /\ expiring[i].was_submitted
      BY <1>3, <3>3
    <3>. QED  BY <3>1, <3>2, <3>3 DEF PendingKnown
  <2>. QED  BY <2>1 DEF PendingKnown
<1>12. ResultIsOwn'  BY DEF ResultIsOwn
<1>. QED  BY <1>6, <1>8, <1>9, <1>10, <1>11, <1>12

\* The reaper takes the first item: its pair moves from the queue to the
\* reaper, the others stay in the queue, each still once.
LEMMA PopMovesPair ==
  ASSUME IInv, ReapPop
  PROVE  /\ expiring' \in Seq(Item) /\ 1 \in DOMAIN expiring /\ item' = expiring[1]
         /\ item' \in Item /\ item' # NoItem /\ item'.id \in Id
         /\ Free' = Free /\ Recording' = Recording
         /\ Reaping = {} /\ Reaping' = {item'.id}
         /\ item'.id \in Expiring /\ Expiring' = Expiring \ {item'.id}
         /\ \A i, j \in DOMAIN expiring' : expiring'[i].id = expiring'[j].id => i = j
         /\ \A i \in DOMAIN expiring : i # 1 => /\ i - 1 \in DOMAIN expiring'
                                               /\ expiring'[i - 1] = expiring[i]
<1> USE DEF IInv, ReapPop, gpuVars, subVars
<1>1. /\ expiring' \in Seq(Item)
      /\ 1 \in DOMAIN expiring /\ Head(expiring) = expiring[1] /\ expiring[1] \in Item
      /\ \A i \in DOMAIN expiring' : i + 1 \in DOMAIN expiring /\ expiring'[i] = expiring[i + 1]
      /\ \A i \in DOMAIN expiring : i # 1 => /\ i - 1 \in DOMAIN expiring'
                                            /\ expiring'[i - 1] = expiring[i]
      /\ DOMAIN expiring \subseteq Nat /\ DOMAIN expiring' \subseteq Nat
  BY ExpiringPop DEF TypeOK
<1>2. item' = expiring[1] /\ item'.id \in Id /\ item'.id # None /\ item' # NoItem
  BY <1>1, NoneIsNoId DEF Item, NoItem
<1>3. /\ Free' = Free /\ Recording' = Recording
      /\ Reaping' = {item'.id}
  BY <1>2 DEF Free, Recording, Reaping
<1>4. item = NoItem /\ Reaping = {}  BY DEF ReaperState, Reaping, NoItem
<1>5. ASSUME NEW i \in DOMAIN expiring', NEW j \in DOMAIN expiring',
             expiring'[i].id = expiring'[j].id
      PROVE  i = j
  <2>1. i + 1 = j + 1  BY <1>1, <1>5 DEF OwnedOnce
  <2>. QED  BY <1>1, <2>1
<1>6. item'.id \notin Expiring'
  <2>1. ASSUME NEW i \in DOMAIN expiring', expiring'[i].id = expiring[1].id PROVE FALSE
    <3>1. i + 1 = 1  BY <1>1, <2>1 DEF OwnedOnce
    <3>. QED  BY <1>1, <3>1
  <2>. QED  BY <1>2, <2>1 DEF Expiring
<1>7. Expiring' = Expiring \ {item'.id} /\ item'.id \in Expiring
  <2>1. \A i \in DOMAIN expiring' : expiring'[i].id \in Expiring  BY <1>1 DEF Expiring
  <2>2. \A i \in DOMAIN expiring : i # 1 => expiring[i].id \in Expiring'
    BY <1>1 DEF Expiring
  <2>3. item'.id \in Expiring  BY <1>1, <1>2 DEF Expiring
  <2>4. \A id \in Expiring' : id \in Expiring  BY <2>1 DEF Expiring
  <2>5. \A id \in Expiring : id # item'.id => id \in Expiring'
    BY <1>2, <2>2 DEF Expiring
  <2>. QED  BY <1>6, <2>3, <2>4, <2>5
<1>. QED  BY <1>1, <1>2, <1>3, <1>4, <1>5, <1>7

LEMMA ReapPopStep == IInv /\ ReapPop => IInv'
<1> SUFFICES ASSUME IInv, ReapPop PROVE IInv'  OBVIOUS
<1> USE DEF IInv, ReapPop, gpuVars, subVars
<1>1. TypeOK'  BY PopMovesPair DEF TypeOK
<1>2. OwnedOnce'  BY PopMovesPair DEF OwnedOnce
<1>3. UsedExist'  BY PopMovesPair DEF UsedExist
<1>4. CallState' /\ ReaperState'  BY PopMovesPair DEF CallState, ReaperState
<1>5. PendingKnown'
  <2>1. ASSUME NEW i \in DOMAIN expiring, expiring[i].was_submitted
        PROVE  \/ \E k \in DOMAIN expiring' : expiring'[k].id = expiring[i].id
                                          /\ expiring'[k].was_submitted
               \/ reaper' = "await" /\ item'.id = expiring[i].id
    <3>1. CASE i = 1
      <4>1. Head(expiring) = expiring[1]  BY DEF TypeOK
      <4>. QED  BY <2>1, <3>1, <4>1, PopMovesPair
    <3>2. CASE i # 1  BY <2>1, <3>2, PopMovesPair
    <3>. QED  BY <3>1, <3>2
  <2>. QED  BY <2>1 DEF PendingKnown
<1>6. ResultIsOwn'  BY DEF ResultIsOwn
<1>. QED  BY <1>1, <1>2, <1>3, <1>4, <1>5, <1>6

\* The reaper frees the pair of its item, whose chunk exists.
LEMMA ReleaseMovesPair ==
  ASSUME IInv, ReapRelease
  PROVE  /\ item.id \in Id /\ item.id[1] \in DOMAIN chunks
         /\ Reaping = {item.id} /\ Reaping' = {}
         /\ Expiring' = Expiring /\ Recording' = Recording
         /\ chunks' \in Seq(SUBSET Pair) /\ Len(chunks') = Len(chunks)
         /\ DOMAIN chunks' = DOMAIN chunks
         /\ Free' = Free \cup {item.id}
<1> USE DEF IInv, ReapRelease, gpuVars, subVars
<1>1. item # NoItem /\ item \in Item /\ item.id \in Id /\ item.id # None
  BY NoneIsNoId DEF ReaperState, TypeOK, Item
<1>2. Reaping = {item.id} /\ Reaping' = {}  BY <1>1 DEF Reaping, NoItem
<1>3. Expiring' = Expiring /\ Recording' = Recording  BY DEF Expiring, Recording
<1>4. owner # "destroyed"  BY DEF ReaperState
<1>5. item.id[1] \in DOMAIN chunks
  <2>1. item.id[1] <= Len(chunks)  BY <1>2, <1>4 DEF UsedExist
  <2>2. item.id[1] \in Nat \ {0}  BY <1>1 DEF Id
  <2>. QED  BY <2>1, <2>2 DEF TypeOK
<1>6. chunks' = [chunks EXCEPT ![item.id[1]] = @ \cup {item.id[2]}]  BY <1>5
<1>7. /\ chunks' \in Seq(SUBSET Pair) /\ Len(chunks') = Len(chunks)
      /\ Free' = Free \cup {item.id}
  BY <1>1, <1>5, <1>6, FreeRelease
<1>8. DOMAIN chunks' = DOMAIN chunks  BY <1>6
<1>. QED  BY <1>1, <1>2, <1>3, <1>5, <1>7, <1>8

LEMMA ReapReleaseStep == IInv /\ ReapRelease => IInv'
<1> SUFFICES ASSUME IInv, ReapRelease PROVE IInv'  OBVIOUS
<1> USE DEF IInv, ReapRelease, gpuVars, subVars
<1>1. TypeOK'  BY ReleaseMovesPair DEF TypeOK
<1>2. OwnedOnce'  BY ReleaseMovesPair DEF OwnedOnce
<1>3. UsedExist'  BY ReleaseMovesPair DEF UsedExist
<1>4. CallState' /\ ReaperState'  BY DEF CallState, ReaperState
<1>5. PendingKnown' /\ ResultIsOwn'  BY DEF PendingKnown, ResultIsOwn
<1>. QED  BY <1>1, <1>2, <1>3, <1>4, <1>5

\* The other steps of the reaper, and notify_one, move no pair.
LEMMA ReapMoveStep ==
  IInv /\ (ReapAwait \/ ReapDrained \/ ReapRecheck \/ ReapPark \/ Notify) => IInv'
<1> SUFFICES ASSUME IInv, ReapAwait \/ ReapDrained \/ ReapRecheck \/ ReapPark \/ Notify
    PROVE IInv'
  OBVIOUS
<1> USE DEF IInv, gpuVars, subVars
<1>1. UNCHANGED <<chunks, subVars, live, submitted, leaked, expiring, item, stop, owner, gpuVars>>
  BY DEF ReapAwait, ReapDrained, ReapRecheck, ReapPark, Notify
<1>2. OwnedOnce' /\ UsedExist'  BY <1>1, PlacesKept DEF UsedExist
<1>3. TypeOK'
  BY DEF ReapAwait, ReapDrained, ReapRecheck, ReapPark, Notify, TypeOK
<1>4. CallState' /\ ResultIsOwn'  BY <1>1 DEF CallState, ResultIsOwn
<1>5. ReaperState'
  BY DEF ReapAwait, ReapDrained, ReapRecheck, ReapPark, Notify, ReaperState
<1>6. PendingKnown'
  <2>1. CASE ReapAwait
    <3>1. item.id \notin pending  BY <2>1 DEF ReapAwait, EndWritten, PendingKnown
    <3>. QED  BY <1>1, <2>1, <3>1 DEF ReapAwait, PendingKnown
  <2>2. CASE ReapDrained \/ ReapRecheck \/ ReapPark \/ Notify
    <3>1. reaper = "await" => reaper' = "await"
      BY <2>2 DEF ReapDrained, ReapRecheck, ReapPark, Notify
    <3>. QED  BY <1>1, <3>1 DEF PendingKnown
  <2>. QED  BY <2>1, <2>2
<1>. QED  BY <1>2, <1>3, <1>4, <1>5, <1>6

LEMMA PoolDropStep == IInv /\ PoolDrop => IInv'
<1> SUFFICES ASSUME IInv, PoolDrop PROVE IInv'  OBVIOUS
<1> USE DEF IInv, gpuVars, subVars, reapVars
<1>1. CASE StoreStop \/ NotifyAll \/ Join \/ LeakChunks
  <2>1. UNCHANGED <<chunks, subVars, live, submitted, leaked, expiring, notifying, item, final, gpuVars>>
    BY <1>1 DEF StoreStop, NotifyAll, Join, LeakChunks
  <2>2. OwnedOnce'  BY <2>1, PlacesKept
  <2>3. UsedExist'
    <3>1. owner # "destroyed"  BY <1>1 DEF StoreStop, NotifyAll, Join, LeakChunks
    <3>. QED  BY <2>1, <3>1, PlacesKept DEF UsedExist
  <2>4. TypeOK'  BY <1>1 DEF StoreStop, NotifyAll, Join, LeakChunks, TypeOK
  <2>5. CallState' /\ ReaperState'
    BY <1>1 DEF StoreStop, NotifyAll, Join, LeakChunks, ReaperDone, CallState, ReaperState
  <2>6. PendingKnown' /\ ResultIsOwn'
    BY <1>1 DEF StoreStop, NotifyAll, Join, LeakChunks, PendingKnown, ResultIsOwn
  <2>. QED  BY <2>2, <2>3, <2>4, <2>5, <2>6
<1>2. CASE DestroyChunks
  <2>1. /\ chunks' = <<>> /\ owner' = "destroyed"
        /\ Expiring' = Expiring /\ Reaping' = Reaping /\ Recording' = Recording
    BY <1>2 DEF DestroyChunks, Expiring, Reaping, Recording
  <2>2. DOMAIN chunks' = {} /\ Len(chunks') = 0 /\ chunks' \in Seq(SUBSET Pair)
    BY <2>1, EmptySeq
  <2>3. Free' = {}
    <3>1. \A id \in Id : ~ (id[1] <= 0)  BY DEF Id
    <3>. QED  BY <2>2, <3>1 DEF Free
  <2>4. TypeOK'  BY <1>2, <2>2, PoolAssumption DEF DestroyChunks, TypeOK
  <2>5. OwnedOnce'  BY <1>2, <2>1, <2>2, <2>3 DEF DestroyChunks, OwnedOnce
  <2>6. UsedExist'  BY <2>1 DEF UsedExist
  <2>7. CallState' /\ ReaperState'  BY <1>2 DEF DestroyChunks, CallState, ReaperState
  <2>8. PendingKnown' /\ ResultIsOwn'  BY <1>2 DEF DestroyChunks, PendingKnown, ResultIsOwn
  <2>. QED  BY <2>4, <2>5, <2>6, <2>7, <2>8
<1>. QED  BY <1>1, <1>2 DEF PoolDrop

LEMMA GpuStep == IInv /\ (LoseDevice \/ \E id \in pending : Complete(id)) => IInv'
<1> SUFFICES ASSUME IInv, LoseDevice \/ \E id \in pending : Complete(id) PROVE IInv'
  OBVIOUS
<1> USE DEF IInv, subVars, reapVars
<1>1. UNCHANGED <<chunks, subVars, live, submitted, leaked, expiring, notifying, reapVars, stop, owner>>
  BY DEF LoseDevice, Complete
<1>2. OwnedOnce' /\ UsedExist'  BY <1>1, PlacesKept DEF UsedExist
<1>3. CallState' /\ ReaperState'  BY <1>1 DEF CallState, ReaperState
<1>4. CASE LoseDevice
  BY <1>2, <1>3, <1>4 DEF LoseDevice, TypeOK, PendingKnown, ResultIsOwn
<1>5. ASSUME NEW id \in pending, Complete(id)  PROVE IInv'
  <2>1. TypeOK'  BY <1>5 DEF Complete, TypeOK
  <2>2. PendingKnown'  BY <1>5 DEF Complete, PendingKnown
  <2>3. id \in live => id \in submitted \/ (call = "accepted" /\ id \in hand)
    <3>1. CASE \E i \in DOMAIN expiring : expiring[i].id = id
      BY <3>1 DEF OwnedOnce, Expiring
    <3>2. CASE reaper = "await" /\ item.id = id
      <4>1. id # None  BY NoneIsNoId DEF TypeOK
      <4>. QED  BY <3>2, <4>1 DEF OwnedOnce, Reaping
    <3>. QED  BY <3>1, <3>2 DEF PendingKnown
  <2>4. ResultIsOwn'  BY <1>5, <2>3 DEF Complete, ResultIsOwn
  <2>. QED  BY <1>2, <1>3, <2>1, <2>2, <2>4
<1>. QED  BY <1>4, <1>5

LEMMA NextInvariant == IInv /\ [Next]_vars => IInv'
<1> SUFFICES ASSUME IInv, [Next]_vars PROVE IInv'  OBVIOUS
<1>1. CASE UNCHANGED vars
  <2>1. UNCHANGED <<chunks, rec, live, leaked, expiring, item>>  BY <1>1 DEF vars, subVars, reapVars
  <2>2. OwnedOnce' /\ UsedExist'  BY <1>1, <2>1, PlacesKept DEF IInv, UsedExist, vars
  <2>3. TypeOK' /\ CallState' /\ ReaperState' /\ PendingKnown' /\ ResultIsOwn'
    BY <1>1 DEF IInv, vars, subVars, reapVars, gpuVars, TypeOK, CallState, ReaperState,
                PendingKnown, ResultIsOwn
  <2>. QED  BY <2>2, <2>3 DEF IInv
<1>2. CASE Submitter
  BY <1>2, FindFreeStep, AllocChunkStep, RecordDoneStep, RecordFailsStep, CallStep,
     MarkSubmittedStep
  DEF Submitter
<1>3. CASE \E h \in live : DropHandle(h)  BY <1>3, DropHandleStep
<1>4. CASE Notify \/ Reap  BY <1>4, ReapPopStep, ReapReleaseStep, ReapMoveStep DEF Reap
<1>5. CASE PoolDrop  BY <1>5, PoolDropStep
<1>6. CASE (\E id \in pending : Complete(id)) \/ LoseDevice  BY <1>6, GpuStep
<1>. QED  BY <1>1, <1>2, <1>3, <1>4, <1>5, <1>6 DEF Next

LEMMA Invariant == Spec => []IInv
BY InitInvariant, NextInvariant, PTL DEF Spec

LEMMA NotReused == IInv => NotReusedWhilePending
<1> SUFFICES ASSUME IInv, NEW id \in Free \cup Recording, id \in pending PROVE FALSE
  BY DEF NotReusedWhilePending
<1> USE DEF IInv
<1>1. CASE id \in submitted \/ (call = "accepted" /\ id \in hand)
  BY <1>1 DEF TypeOK, OwnedOnce
<1>2. CASE \E i \in DOMAIN expiring : expiring[i].id = id
  <2>1. id \in Expiring  BY <1>2 DEF Expiring
  <2>. QED  BY <2>1 DEF OwnedOnce
<1>3. CASE reaper = "await" /\ item.id = id
  <2>1. id \in Reaping  BY <1>3, FreeInId, UsedInId, NoneIsNoId DEF Reaping
  <2>. QED  BY <2>1 DEF OwnedOnce
<1>. QED  BY <1>1, <1>2, <1>3 DEF PendingKnown

LEMMA NotReusedNext == IInv' => NotReusedWhilePending'
BY NotReused, PTL

-----------------------------------------------------------------------------
(* The theorems.                                                            *)

\* Every variable of the pool stays well typed, for any chunk size and any
\* number of chunks and droppers.
THEOREM TypeCorrect == Spec => []TypeOK
<1>1. IInv => TypeOK  BY DEF IInv
<1>. QED  BY Invariant, <1>1, PTL

\* Every pair of a chunk has exactly one owner, whatever the interleaving of
\* the submitter, the dropping threads, the reaper and the pool's drop.
THEOREM OneOwner == Spec => []OwnedOnce
<1>1. IInv => OwnedOnce  BY DEF IInv
<1>. QED  BY Invariant, <1>1, PTL

\* find_or_alloc and record never touch a pair the GPU still works on.
THEOREM NoReuseWhilePending == Spec => []NotReusedWhilePending
BY Invariant, NotReused, PTL

\* has_end and await_*_ns report only the handle's own submission.
THEOREM OwnResults == Spec => []ResultIsOwn
<1>1. IInv => ResultIsOwn  BY DEF IInv
<1>. QED  BY Invariant, <1>1, PTL

\* process_expiring never indexes a chunk that was destroyed.
THEOREM ChunksOutliveReaper == Spec => []ReaperChunkExists
<1>1. IInv => ReaperChunkExists
  <2> SUFFICES ASSUME IInv, reaper \in {"await", "release"}
      PROVE item.id[1] \in DOMAIN chunks
    BY DEF ReaperChunkExists
  <2> USE DEF IInv
  <2>1. item # NoItem /\ item.id \in Id /\ owner # "destroyed"
    BY DEF ReaperState, TypeOK, Item
  <2>2. item.id \in Reaping  BY <2>1, NoneIsNoId DEF Reaping
  <2>3. item.id[1] <= Len(chunks)  BY <2>1, <2>2 DEF UsedExist
  <2>4. item.id[1] \in Nat \ {0}  BY <2>1 DEF Id
  <2>. QED  BY <2>3, <2>4 DEF TypeOK
<1>. QED  BY Invariant, <1>1, PTL

\* The pool implements QueryPairs: every step hands out, submits, gives up,
\* loses or reclaims pairs as QueryPairs allows, or changes nothing there.
THEOREM Implements == Spec => KeepsPromise
<1> DEFINE held == Recording \cup live
           retired == Expiring \cup Reaping
           absVars == <<held, retired, leaked, pending>>
<1>1. Init => Promise!Init
  BY DEF Init, Promise!Init, Recording, Expiring, Reaping, NoItem
<1>2. ASSUME IInv, NotReusedWhilePending, [Next]_vars
      PROVE  [Promise!Next]_absVars
  <2> USE <1>2 DEF IInv, subVars, gpuVars, reapVars
  <2>1. CASE FindFree \/ AllocChunk
    <3>1. IInv'  BY <2>1, FindFreeStep, AllocChunkStep
    <3>2. /\ Recording = {} /\ Recording' = {rec'} /\ rec' \in Id
          /\ UNCHANGED <<live, expiring, item, leaked, pending>>
      <4>1. rec = None /\ rec' # None
        BY <2>1, PoolAssumption DEF FindFree, AllocChunk, Take, None, TypeOK
      <4>. QED  BY <2>1, <3>1, <4>1 DEF FindFree, AllocChunk, Recording, TypeOK
    <3>3. rec' \notin live \cup Expiring \cup Reaping \cup leaked
      BY <3>1, <3>2 DEF OwnedOnce, Expiring, Reaping
    <3>4. rec' \notin pending
      BY <3>1, <3>2, NotReusedNext DEF NotReusedWhilePending
    <3>5. Expiring' = Expiring /\ Reaping' = Reaping  BY <3>2 DEF Expiring, Reaping
    <3>6. Promise!HandOut(rec')  BY <3>2, <3>3, <3>4, <3>5 DEF Promise!HandOut
    <3>. QED  BY <3>2, <3>6 DEF Promise!Next
  <2>2. CASE RecordDone
    <3>1. held' = held /\ retired' = retired /\ UNCHANGED <<leaked, pending>>
      BY <2>2 DEF RecordDone, Recording, Expiring, Reaping
    <3>. QED  BY <3>1
  <2>3. CASE RecordFails
    <3>1. rec \in Id /\ Recording = {rec} /\ Recording' = {}
      BY <2>3 DEF RecordFails, Recording, TypeOK
    <3>2. Expiring' = Expiring /\ Reaping' = Reaping /\ UNCHANGED <<live, pending>>
      BY <2>3 DEF RecordFails, Expiring, Reaping
    <3>3. held' = held \ {rec}  BY <3>1, <3>2 DEF OwnedOnce
    <3>4. Promise!Lose(rec)
      BY <2>3, <3>1, <3>2, <3>3 DEF RecordFails, NotReusedWhilePending, Promise!Lose
    <3>. QED  BY <3>1, <3>4 DEF Promise!Next
  <2>4. CASE CallFails \/ \E h \in hand : MarkSubmitted(h)
    <3>1. UNCHANGED <<rec, live, expiring, item, leaked, pending>>
      BY <2>4 DEF CallFails, MarkSubmitted
    <3>. QED  BY <3>1 DEF Recording, Expiring, Reaping
  <2>5. CASE Accept
    <3>1. UNCHANGED <<rec, live, expiring, item, leaked>> /\ pending' = pending \cup hand
      BY <2>5 DEF Accept
    <3>2. held' = held /\ retired' = retired  BY <3>1 DEF Recording, Expiring, Reaping
    <3>3. hand \subseteq held \ pending
      <4>1. SUFFICES ASSUME NEW h \in hand, h \in pending PROVE FALSE  BY DEF TypeOK
      <4>2. h \in live /\ h \notin submitted /\ call # "accepted" /\ h # None
        BY <2>5, NoneIsNoId DEF Accept, CallState, TypeOK
      <4>3. h \in Expiring \/ h \in Reaping
        <5>1. CASE \E i \in DOMAIN expiring : expiring[i].id = h  BY <5>1 DEF Expiring
        <5>2. CASE item.id = h  BY <4>2, <5>2 DEF Reaping
        <5>. QED  BY <4>1, <4>2, <5>1, <5>2 DEF PendingKnown
      <4>. QED  BY <4>2, <4>3 DEF OwnedOnce
    <3>4. Promise!Submit(hand)  BY <3>1, <3>2, <3>3 DEF Promise!Submit
    <3>5. hand \in SUBSET Id  BY DEF TypeOK
    <3>. QED  BY <3>4, <3>5 DEF Promise!Next
  <2>6. ASSUME NEW h \in live, DropHandle(h)  PROVE Promise!Next
    <3>1. h \in Id  BY DEF TypeOK
    <3>2. Expiring' = Expiring \cup {h}
      <4>1. [id |-> h, was_submitted |-> h \in submitted] \in Item  BY <3>1 DEF Item
      <4>. QED  BY <2>6, <4>1, ExpiringPush DEF DropHandle, TypeOK
    <3>3. Recording' = Recording /\ Reaping' = Reaping /\ live' = live \ {h}
          /\ UNCHANGED <<leaked, pending>>
      BY <2>6 DEF DropHandle, Recording, Reaping
    <3>4. h \notin Recording  BY DEF OwnedOnce
    <3>5. Promise!GiveUp(h)  BY <3>2, <3>3, <3>4 DEF Promise!GiveUp
    <3>. QED  BY <3>1, <3>5 DEF Promise!Next
  <2>7. CASE ReapPop
    <3>1. retired' = retired  BY <2>7, PopMovesPair
    <3>2. held' = held /\ UNCHANGED <<leaked, pending>>  BY <2>7 DEF ReapPop, Recording
    <3>. QED  BY <3>1, <3>2
  <2>8. CASE ReapRelease
    <3>1. item.id \in Id /\ Reaping = {item.id} /\ Reaping' = {}
      BY <2>8, ReleaseMovesPair
    <3>2. Expiring' = Expiring /\ held' = held /\ UNCHANGED <<leaked, pending>>
      BY <2>8 DEF ReapRelease, Expiring, Recording
    <3>3. retired' = retired \ {item.id}  BY <3>1, <3>2 DEF OwnedOnce
    <3>4. item.id \notin pending
      <4>1. NotReusedWhilePending'  BY <2>8, ReapReleaseStep, NotReusedNext
      <4>2. item.id \in Free'  BY <2>8, ReleaseMovesPair
      <4>. QED  BY <3>2, <4>1, <4>2 DEF NotReusedWhilePending
    <3>5. Promise!Reclaim(item.id)  BY <3>1, <3>2, <3>3, <3>4 DEF Promise!Reclaim
    <3>. QED  BY <3>1, <3>5 DEF Promise!Next
  <2>9. CASE ReapAwait \/ ReapDrained \/ ReapRecheck \/ ReapPark \/ Notify \/ PoolDrop
    <3>1. UNCHANGED <<rec, live, expiring, item, leaked, pending>>
      BY <2>9 DEF ReapAwait, ReapDrained, ReapRecheck, ReapPark, Notify, PoolDrop, StoreStop,
                  NotifyAll, Join, DestroyChunks, LeakChunks
    <3>. QED  BY <3>1 DEF Recording, Expiring, Reaping
  <2>10. CASE LoseDevice \/ \E id \in pending : Complete(id)
    <3>1. \E S \in SUBSET Id : pending' = pending \ S
      BY <2>10 DEF LoseDevice, Complete, TypeOK
    <3>2. held' = held /\ retired' = retired /\ leaked' = leaked
      BY <2>10 DEF LoseDevice, Complete, Recording, Expiring, Reaping
    <3>. QED  BY <3>1, <3>2 DEF Promise!Next, Promise!Finish
  <2>11. CASE UNCHANGED vars  BY <2>11 DEF vars, Recording, Expiring, Reaping
  <2>. QED
    BY <2>1, <2>2, <2>3, <2>4, <2>5, <2>6, <2>7, <2>8, <2>9, <2>10, <2>11
    DEF Next, Submitter, Reap
<1>. QED  BY <1>1, <1>2, Invariant, NoReuseWhilePending, PTL
          DEF Spec, KeepsPromise, Promise!Spec, Promise!vars

-----------------------------------------------------------------------------
(* The bitset of a chunk.                                                   *)

\* The bitset: what is inductive.
BitsetInv == BitsetTypeOK /\ HintSkipsOnlyEmpty /\ OnlyChunkPairs

\* A pair number determines its word and bit, and the other way round.
LEMMA PairOfWordBit ==
  ASSUME NEW w \in Nat \ {0}, NEW i \in Nat, NEW b \in 0 .. w - 1
  PROVE  /\ i * w + b \in Nat
         /\ (i * w + b) \div w = i
         /\ (i * w + b) % w = b
BY Z3

LEMMA WordBitOfPair ==
  ASSUME NEW w \in Nat \ {0}, NEW p \in Nat
  PROVE  /\ p \div w \in Nat
         /\ p % w \in 0 .. w - 1
         /\ (p \div w) * w + (p % w) = p
BY Z3

\* Pairs of a lower word have lower numbers.
LEMMA WordOrder ==
  ASSUME NEW w \in Nat \ {0}, NEW i \in Nat, NEW j \in Nat, i < j,
         NEW b \in 0 .. w - 1, NEW c \in 0 .. w - 1
  PROVE  i * w + b < j * w + c
<1>1. (i + 1) * w <= j * w  BY Z3
<1>2. (i + 1) * w = i * w + w  BY Z3
<1>. QED  BY <1>1, <1>2, SMT

\* The words have room for every pair of the chunk.
LEMMA Sizes ==
  /\ WordBits \in Nat \ {0}
  /\ Words \in Nat \ {0}
  /\ total_pairs \in Nat
  /\ total_pairs <= Words * WordBits
<1>1. WordBits \in Nat \ {0} /\ ChunkSize \in Nat \ {0}  BY SizeAssumption
<1>2. total_pairs \in Nat /\ total_pairs <= ChunkSize  BY <1>1 DEF total_pairs
<1> DEFINE n == ChunkSize + WordBits - 1
<1>3. n \in Nat /\ n >= WordBits  BY <1>1
<1>4. /\ n \div WordBits \in Nat
      /\ n % WordBits \in 0 .. WordBits - 1
      /\ (n \div WordBits) * WordBits + (n % WordBits) = n
  BY <1>1, <1>3, WordBitOfPair
<1>5. (n \div WordBits) * WordBits >= ChunkSize  BY <1>1, <1>4
<1>6. n \div WordBits # 0  BY <1>1, <1>4, <1>5
<1>. QED  BY <1>1, <1>2, <1>4, <1>5, <1>6 DEF Words

LEMMA SlotWord ==
  ASSUME NEW p \in 0 .. Words * WordBits - 1
  PROVE  /\ p \div WordBits \in Word
         /\ p % WordBits \in Bit
         /\ p = PairAt(p \div WordBits, p % WordBits)
<1>1. p \in Nat  BY Sizes
<1>2. /\ p \div WordBits \in Nat
      /\ p % WordBits \in 0 .. WordBits - 1
      /\ (p \div WordBits) * WordBits + (p % WordBits) = p
  BY <1>1, Sizes, WordBitOfPair
<1>3. p \div WordBits < Words
  <2>1. SUFFICES ASSUME p \div WordBits >= Words PROVE FALSE  BY <1>2, Sizes
  <2>2. (p \div WordBits) * WordBits >= Words * WordBits  BY <1>2, <2>1, Sizes, Z3
  <2>. QED  BY <1>2, <2>2, Sizes
<1>. QED  BY <1>2, <1>3, Sizes DEF Word, Bit, PairAt

LEMMA WordSlot ==
  ASSUME NEW i \in Word, NEW b \in Bit
  PROVE  /\ PairAt(i, b) \in 0 .. Words * WordBits - 1
         /\ PairAt(i, b) \div WordBits = i
         /\ PairAt(i, b) % WordBits = b
<1>1. i \in Nat /\ b \in 0 .. WordBits - 1 /\ i <= Words - 1
  BY Sizes DEF Word, Bit
<1>2. (i + 1) * WordBits <= Words * WordBits  BY <1>1, Sizes, Z3
<1>3. (i + 1) * WordBits = i * WordBits + WordBits  BY <1>1, Sizes, Z3
<1>4. i * WordBits \in Nat  BY <1>1, Sizes, Z3
<1>. QED  BY <1>1, <1>2, <1>3, <1>4, Sizes, PairOfWordBit DEF PairAt

\* A pair is free iff the bit of its word is set.
LEMMA FreeBit ==
  ASSUME NEW i \in Word, NEW b \in Bit
  PROVE  PairAt(i, b) \in FreePairs <=> b \in words[i]
BY WordSlot DEF FreePairs

-----------------------------------------------------------------------------
\* The lowest set bit of a word that has one.
LEMMA LowestBit ==
  ASSUME NEW w \in SUBSET Bit, w # {}
  PROVE  /\ trailing_zeros(w) \in w
         /\ \A c \in w : trailing_zeros(w) <= c
<1>1. w \in SUBSET Nat  BY Sizes DEF Bit
<1>2. \E b \in w : \A c \in w : b <= c  BY <1>1, LeastNatural
<1>. QED  BY <1>2 DEF trailing_zeros

\* The circular search from the hint finds the first word that is not empty:
\* it would only wrap to words below the hint, and those are empty.
LEMMA SearchFindsFirst ==
  ASSUME BitsetTypeOK, HintSkipsOnlyEmpty, NEW offset \in Word,
         words[Probe(offset)] # {},
         \A earlier \in 0 .. offset - 1 : words[Probe(earlier)] = {}
  PROVE  /\ Probe(offset) \in Word
         /\ \A i \in Word : i < Probe(offset) => words[i] = {}
<1>1. /\ hint \in Word /\ Words \in Nat \ {0}
      /\ \A i \in Word : i < hint => words[i] = {}
  BY Sizes DEF HintSkipsOnlyEmpty
<1>2. Start = hint  BY <1>1 DEF Start, Word
<1>3. \A o \in Word : Probe(o) = IF hint + o < Words THEN hint + o ELSE hint + o - Words
  BY <1>1, <1>2 DEF Probe, Word
<1>4. hint + offset < Words
  <2>1. SUFFICES ASSUME hint + offset >= Words PROVE FALSE  BY <1>1 DEF Word
  <2>2. Probe(offset) \in Word /\ Probe(offset) < hint  BY <1>1, <1>3, <2>1 DEF Word
  <2>. QED  BY <1>1, <2>2
<1>5. ASSUME NEW i \in Word, i < Probe(offset), i >= hint  PROVE words[i] = {}
  <2>1. i - hint \in 0 .. offset - 1 /\ i - hint \in Word  BY <1>1, <1>3, <1>4, <1>5 DEF Word
  <2>2. Probe(i - hint) = i  BY <1>1, <1>3, <2>1 DEF Word
  <2>. QED  BY <2>1, <2>2
<1>. QED  BY <1>1, <1>3, <1>4, <1>5 DEF Word

\* acquire_pair takes the lowest pair that is free.
LEMMA AcquireTakesLowest ==
  ASSUME BitsetTypeOK, HintSkipsOnlyEmpty, OnlyChunkPairs, acquire_pair
  PROVE  /\ got' \in FreePairs
         /\ \A p \in FreePairs : got' <= p
         /\ FreePairs' = FreePairs \ {got'}
         /\ words' \in [Word -> SUBSET Bit]
         /\ hint' \in Word
         /\ \A i \in Word : i < hint' => words'[i] = {}
<1>1. PICK offset \in Word :
        /\ words[Probe(offset)] # {}
        /\ \A earlier \in 0 .. offset - 1 : words[Probe(earlier)] = {}
        /\ words' = [words EXCEPT ![Probe(offset)] = @ \ {trailing_zeros(words[Probe(offset)])}]
        /\ hint' = Probe(offset)
        /\ got' = PairAt(Probe(offset), trailing_zeros(words[Probe(offset)]))
  BY DEF acquire_pair
<1> DEFINE idx == Probe(offset)
           bit == trailing_zeros(words[idx])
<1>2. idx \in Word /\ \A i \in Word : i < idx => words[i] = {}
  BY <1>1, SearchFindsFirst
<1>3. words[idx] \in SUBSET Bit /\ words \in [Word -> SUBSET Bit]  BY <1>2 DEF BitsetTypeOK
<1>4. bit \in words[idx] /\ bit \in Bit /\ \A c \in words[idx] : bit <= c
  BY <1>1, <1>3, LowestBit
<1>5. got' \in FreePairs  BY <1>1, <1>2, <1>4, FreeBit
<1>6. ASSUME NEW p \in FreePairs  PROVE got' <= p
  <2>1. /\ p \in 0 .. Words * WordBits - 1
        /\ p % WordBits \in words[p \div WordBits]
    BY DEF FreePairs
  <2>2. /\ p \div WordBits \in Word /\ p % WordBits \in Bit
        /\ p = PairAt(p \div WordBits, p % WordBits)
    BY <2>1, SlotWord
  <2>3. p \div WordBits >= idx  BY <1>2, <2>1, <2>2 DEF Word
  <2>4. CASE p \div WordBits = idx
    <3>1. bit <= p % WordBits  BY <1>4, <2>1, <2>4
    <3>2. idx * WordBits \in Nat  BY <1>2, Sizes, Z3 DEF Word
    <3>. QED  BY <1>1, <1>4, <2>2, <2>4, <3>1, <3>2, Sizes DEF PairAt, Bit
  <2>5. CASE p \div WordBits > idx
    <3>1. idx * WordBits + bit < (p \div WordBits) * WordBits + (p % WordBits)
      BY <1>2, <1>4, <2>2, <2>5, WordOrder, Sizes DEF Word, Bit
    <3>2. got' \in Nat /\ p \in Nat
      BY <1>1, <1>2, <1>4, <2>1, WordSlot, Sizes
    <3>. QED  BY <1>1, <2>2, <3>1, <3>2 DEF PairAt
  <2>. QED  BY <2>3, <2>4, <2>5, <1>2, <2>2 DEF Word
<1>7. words' \in [Word -> SUBSET Bit]  BY <1>1, <1>3
<1>8. FreePairs' = FreePairs \ {got'}
  <2>1. ASSUME NEW p \in 0 .. Words * WordBits - 1
        PROVE  p % WordBits \in words'[p \div WordBits]
               <=> p % WordBits \in words[p \div WordBits] /\ p # got'
    <3>1. /\ p \div WordBits \in Word /\ p % WordBits \in Bit
          /\ p = PairAt(p \div WordBits, p % WordBits)
      BY SlotWord
    <3>2. p = got' <=> p \div WordBits = idx /\ p % WordBits = bit
      BY <1>1, <1>2, <1>4, <3>1, WordSlot
    <3>. QED  BY <1>1, <1>3, <3>1, <3>2
  <2>. QED  BY <2>1 DEF FreePairs
<1>9. \A i \in Word : i < hint' => words'[i] = {}
  BY <1>1, <1>2, <1>3 DEF Word
<1>. QED  BY <1>1, <1>2, <1>5, <1>6, <1>7, <1>8, <1>9

\* release_pair adds the pair, and lowers the hint to its word if need be.
LEMMA ReleaseAdds ==
  ASSUME BitsetTypeOK, HintSkipsOnlyEmpty, NEW p \in ChunkPair, release_pair(p)
  PROVE  /\ FreePairs' = FreePairs \cup {p}
         /\ words' \in [Word -> SUBSET Bit]
         /\ hint' \in Word
         /\ \A i \in Word : i < hint' => words'[i] = {}
<1> DEFINE idx == p \div WordBits
<1>1. p \in 0 .. Words * WordBits - 1  BY Sizes DEF ChunkPair
<1>2. idx \in Word /\ p % WordBits \in Bit /\ p = PairAt(idx, p % WordBits)
  BY <1>1, SlotWord
<1>3. words' = [words EXCEPT ![idx] = @ \cup {p % WordBits}]  BY DEF release_pair
<1>4. words' \in [Word -> SUBSET Bit]  BY <1>2, <1>3 DEF BitsetTypeOK
<1>5. hint' \in Word /\ hint' <= hint /\ hint' <= idx
  BY <1>2, Sizes DEF release_pair, HintSkipsOnlyEmpty, Word
<1>6. ASSUME NEW i \in Word, i < hint'  PROVE words'[i] = {}
  <2>1. i # idx /\ i < hint  BY <1>2, <1>5, <1>6 DEF Word, HintSkipsOnlyEmpty
  <2>. QED  BY <1>3, <2>1 DEF BitsetTypeOK, HintSkipsOnlyEmpty
<1>7. FreePairs' = FreePairs \cup {p}
  <2>1. ASSUME NEW q \in 0 .. Words * WordBits - 1
        PROVE  q % WordBits \in words'[q \div WordBits]
               <=> q % WordBits \in words[q \div WordBits] \/ q = p
    <3>1. /\ q \div WordBits \in Word /\ q % WordBits \in Bit
          /\ q = PairAt(q \div WordBits, q % WordBits)
      BY SlotWord
    <3>2. q = p <=> q \div WordBits = idx /\ q % WordBits = p % WordBits
      BY <1>2, <3>1
    <3>. QED  BY <1>3, <3>1, <3>2 DEF BitsetTypeOK
  <2>. QED  BY <1>1, <2>1 DEF FreePairs
<1>. QED  BY <1>4, <1>5, <1>6, <1>7

-----------------------------------------------------------------------------
\* A full chunk: exactly its pairs are free.
LEMMA FullIsFull ==
  ASSUME words = Full
  PROVE  FreePairs = ChunkPair
<1>1. ASSUME NEW p \in 0 .. Words * WordBits - 1
      PROVE  p % WordBits \in words[p \div WordBits] <=> p \in ChunkPair
  BY SlotWord DEF Full
<1>2. ChunkPair \subseteq 0 .. Words * WordBits - 1  BY Sizes DEF ChunkPair
<1>. QED  BY <1>1, <1>2 DEF FreePairs

LEMMA BitsetInitInvariant == BitsetInit => BitsetInv
<1> SUFFICES ASSUME BitsetInit PROVE BitsetInv  OBVIOUS
<1>1. words \in [Word -> SUBSET Bit]  BY DEF BitsetInit, Full
<1>2. hint \in Word /\ hint = 0  BY Sizes DEF BitsetInit, Word
<1>. QED  BY <1>1, <1>2, FullIsFull DEF BitsetInit, BitsetInv, BitsetTypeOK, HintSkipsOnlyEmpty, OnlyChunkPairs, Word

LEMMA BitsetNextInvariant == BitsetInv /\ [BitsetNext]_bitsetVars => BitsetInv'
<1> SUFFICES ASSUME BitsetInv, [BitsetNext]_bitsetVars PROVE BitsetInv'  OBVIOUS
<1> USE DEF BitsetInv
<1>0. Word \subseteq Nat  BY Sizes DEF Word
<1>1. CASE acquire_pair
  BY <1>0, <1>1, AcquireTakesLowest DEF BitsetTypeOK, HintSkipsOnlyEmpty, OnlyChunkPairs
<1>2. CASE acquire_none
  BY <1>2 DEF acquire_none, BitsetTypeOK, HintSkipsOnlyEmpty, OnlyChunkPairs, FreePairs
<1>3. ASSUME NEW p \in ChunkPair \ FreePairs, release_pair(p) PROVE BitsetInv'
  <2>1. got' = got  BY <1>3 DEF release_pair
  <2>. QED
    BY <1>0, <1>3, <2>1, ReleaseAdds DEF BitsetTypeOK, HintSkipsOnlyEmpty, OnlyChunkPairs
<1>4. CASE UNCHANGED bitsetVars
  BY <1>4 DEF bitsetVars, BitsetTypeOK, HintSkipsOnlyEmpty, OnlyChunkPairs, FreePairs
<1>. QED  BY <1>1, <1>2, <1>3, <1>4 DEF BitsetNext

\* The words, the hint and the result of the last call are well typed in
\* every reachable state, whatever the chunk size and the word width.
THEOREM BitsetTypeCorrect == BitsetSpec => []BitsetTypeOK
<1>1. BitsetInv => BitsetTypeOK  BY DEF BitsetInv
<1>. QED  BY BitsetInitInvariant, BitsetNextInvariant, <1>1, PTL DEF BitsetSpec

\* The hint always names a word and only ever skips exhausted words
\* (Bitset::acquire_pair, release_pair).
THEOREM HintSafe == BitsetSpec => []HintSkipsOnlyEmpty
<1>1. BitsetInv => HintSkipsOnlyEmpty  BY DEF BitsetInv
<1>. QED  BY BitsetInitInvariant, BitsetNextInvariant, <1>1, PTL DEF BitsetSpec

\* No pair outside the chunk is ever free, so no query index past the end of
\* the query pool is ever handed out.
THEOREM PairsOfChunkOnly == BitsetSpec => []OnlyChunkPairs
<1>1. BitsetInv => OnlyChunkPairs  BY DEF BitsetInv
<1>. QED  BY BitsetInitInvariant, BitsetNextInvariant, <1>1, PTL DEF BitsetSpec

\* The bitset with its hint behaves as the plain set of free pairs, handed
\* out lowest first.
THEOREM ImplementsPairs == BitsetSpec => ImplementsAllocator
<1>1. BitsetInit => Allocator!Init
  BY FullIsFull DEF BitsetInit, Allocator!Init, NoPair, Allocator!NoPair
<1>2. ASSUME BitsetInv, [BitsetNext]_bitsetVars  PROVE [Allocator!Next]_<<FreePairs, got>>
  <2> USE <1>2 DEF BitsetInv
  <2>1. CASE acquire_pair
    <3>1. /\ got' \in FreePairs /\ \A p \in FreePairs : got' <= p
          /\ FreePairs' = FreePairs \ {got'}
      BY <2>1, AcquireTakesLowest
    <3>2. FreePairs \subseteq Nat  BY Sizes DEF FreePairs
    <3>3. \A p \in FreePairs : (\A q \in FreePairs : p <= q) => p = got'
      BY <3>1, <3>2
    <3>4. got' = Allocator!Lowest(FreePairs)  BY <3>1, <3>3 DEF Allocator!Lowest
    <3>. QED  BY <3>1, <3>4 DEF Allocator!Next, Allocator!Acquire
  <2>2. CASE acquire_none
    <3>1. FreePairs = {}  BY <2>2, SlotWord DEF acquire_none, any_free, FreePairs
    <3>2. FreePairs' = FreePairs  BY <2>2 DEF acquire_none, FreePairs
    <3>. QED
      BY <2>2, <3>1, <3>2
      DEF acquire_none, Allocator!Next, Allocator!Exhausted, NoPair, Allocator!NoPair
  <2>3. ASSUME NEW p \in ChunkPair \ FreePairs, release_pair(p)
        PROVE  Allocator!Next
    <3>1. FreePairs' = FreePairs \cup {p}  BY <2>3, ReleaseAdds
    <3>2. got' = got  BY <2>3 DEF release_pair
    <3>. QED  BY <3>1, <3>2 DEF Allocator!Next, Allocator!Release
  <2>4. CASE UNCHANGED bitsetVars  BY <2>4 DEF bitsetVars, FreePairs
  <2>. QED  BY <1>2, <2>1, <2>2, <2>3, <2>4 DEF BitsetNext
<1>. QED  BY <1>1, <1>2, BitsetInitInvariant, BitsetNextInvariant, PTL
          DEF BitsetSpec, ImplementsAllocator, Allocator!Spec
=============================================================================
