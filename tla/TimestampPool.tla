---------------------------- MODULE TimestampPool ----------------------------
(***************************************************************************)
(* timestamp_pool.rs: the pool of GPU timestamp query pairs of one queue.  *)
(*                                                                         *)
(* The submitting thread acquires a handle per injected submission, hands  *)
(* the command buffers to the driver and marks the handle submitted; from  *)
(* then on any thread may drop the last reference.  Dropping pushes the    *)
(* pair on a lock-free queue and wakes the reaper thread, which waits for  *)
(* the GPU and frees the pair.  Dropping the pool stops and joins the      *)
(* reaper and destroys the chunks.                                         *)
(*                                                                         *)
(* A chunk is its set of free pairs, handed out lowest first: module       *)
(* Bitset proves that is what the bitset of the code does.                 *)
(***************************************************************************)
EXTENDS Integers, Sequences, FiniteSets

CONSTANTS Pairs,        \* pairs of a chunk (CHUNK_SIZE / 2)
          MaxChunks,    \* bound: no chunk is created beyond this many
          MaxOut,       \* bound: pairs that are not free at one time
          MaxDroppers   \* bound: threads dropping a handle at one time

ASSUME PoolAssumption ==
  /\ Pairs \in Nat \ {0} /\ MaxChunks \in Nat \ {0}
  /\ MaxOut \in Nat /\ MaxDroppers \in Nat \ {0}

Pair == 0 .. Pairs - 1
Id   == (1 .. MaxChunks) \X Pair        \* chunk_idx (from 1) and pair
None == <<0, 0>>                        \* no pair: chunk 0 does not exist

VARIABLES
  chunks,       \* the free pairs of each chunk; empty once destroyed
  rec,          \* the pair acquire() is recording, or None
  hand,         \* handles the current vkQueueSubmit call still holds
  call,         \* where that call is: "idle", "acquiring" or "accepted"
  live,         \* pairs with a Handle that is not dropped yet
  submitted,    \* those of them with was_submitted set
  leaked,       \* (history) pairs lost because recording failed
  expiring,     \* the queue of dropped handles
  notifying,    \* droppers between their push and notify_one
  reaper, item, \* the reaper's position and the handle it processes
  final,        \* the reaper is in its last drain
  stop,         \* the stop flag
  owner,        \* TimestampPool::drop: "alive" .. "destroyed" or "leaked"
  pending,      \* pairs whose command buffers are on the GPU
  avail,        \* pairs whose end timestamp is available
  lost          \* VK_ERROR_DEVICE_LOST

subVars  == <<rec, hand, call>>
gpuVars  == <<pending, avail, lost>>
reapVars == <<reaper, item, final>>
vars == <<chunks, subVars, live, submitted, leaked, expiring, notifying, reapVars,
          stop, owner, gpuVars>>

Item == [id : Id, was_submitted : BOOLEAN]
NoItem == [id |-> None, was_submitted |-> FALSE]

\* Where a pair can be.
Free      == {id \in Id : id[1] <= Len(chunks) /\ id[2] \in chunks[id[1]]}
Recording == {rec} \ {None}
Expiring  == {expiring[i].id : i \in DOMAIN expiring}
Reaping   == {item.id} \ {None}
Out       == live \cup Expiring \cup Reaping \cup leaked

TypeOK ==
  /\ chunks \in Seq(SUBSET Pair) /\ Len(chunks) <= MaxChunks
  /\ rec \in Id \cup {None}
  /\ hand \subseteq live
  /\ call \in {"idle", "acquiring", "accepted"}
  /\ live \subseteq Id /\ submitted \subseteq live /\ leaked \subseteq Id
  /\ expiring \in Seq(Item)
  /\ notifying \in Nat
  /\ reaper \in {"drain", "await", "release", "lock", "committed", "parked", "exited"}
  /\ item \in Item \cup {NoItem}
  /\ final \in BOOLEAN /\ stop \in BOOLEAN
  /\ owner \in {"alive", "stopped", "joining", "joined", "destroyed", "leaked"}
  /\ pending \subseteq Id /\ avail \subseteq Id /\ lost \in BOOLEAN

Init ==
  /\ chunks = <<>>
  /\ rec = None /\ hand = {} /\ call = "idle"
  /\ live = {} /\ submitted = {} /\ leaked = {}
  /\ expiring = <<>> /\ notifying = 0
  /\ reaper = "drain" /\ item = NoItem /\ final = FALSE
  /\ stop = FALSE /\ owner = "alive"
  /\ pending = {} /\ avail = {} /\ lost = FALSE

-----------------------------------------------------------------------------
(* The submitting thread: a queue is externally synchronised, so one call   *)
(* of vkQueueSubmit at a time.                                              *)

Lowest(S) == CHOOSE p \in S : \A q \in S : p <= q

\* find_or_alloc, in an existing chunk: the lowest free pair of the first
\* chunk that has one.
FirstFree(c) == /\ chunks[c] # {}
                /\ \A d \in 1 .. c - 1 : chunks[d] = {}

Slip_KeepFree(c) == /\ rec' = <<c, Lowest(chunks[c])>>
                    /\ UNCHANGED chunks
Slip_ByQuery(c)  == /\ rec' = <<c, 2 * Lowest(chunks[c])>>
                    /\ chunks' = [chunks EXCEPT ![c] = @ \ {Lowest(chunks[c])}]

Take(c) == /\ rec' = <<c, Lowest(chunks[c])>>
           /\ chunks' = [chunks EXCEPT ![c] = @ \ {Lowest(chunks[c])}]

FindFree ==
  /\ owner = "alive" /\ call # "accepted" /\ rec = None
  /\ Cardinality(Out) < MaxOut
  /\ \E c \in DOMAIN chunks : FirstFree(c) /\ Take(c)
  /\ call' = "acquiring"
  /\ UNCHANGED <<hand, live, submitted, leaked, expiring, notifying, reapVars, stop, owner,
                 gpuVars>>

\* find_or_alloc, when every chunk is used up: a new one.
AllocChunk ==
  /\ owner = "alive" /\ call # "accepted" /\ rec = None
  /\ Cardinality(Out) < MaxOut
  /\ \A c \in DOMAIN chunks : chunks[c] = {}
  /\ Len(chunks) < MaxChunks
  /\ rec' = <<Len(chunks) + 1, 0>>
  /\ chunks' = Append(chunks, Pair \ {0})
  /\ call' = "acquiring"
  /\ UNCHANGED <<hand, live, submitted, leaked, expiring, notifying, reapVars, stop, owner,
                 gpuVars>>

\* record() resets both queries and records the command buffers.
Slip_NoReset == UNCHANGED avail
ResetQueries == avail' = avail \ {rec}

RecordDone ==
  /\ rec # None
  /\ ResetQueries
  /\ live' = live \cup {rec}
  /\ hand' = hand \cup {rec}
  /\ rec' = None
  /\ UNCHANGED <<chunks, call, submitted, leaked, expiring, notifying, reapVars, stop, owner,
                 pending, lost>>

\* record() fails after the resets or before: `.ok()?` drops the pair, which
\* no one frees; acquire() returns None and the call falls back to the
\* application's own submits, dropping the handles it has.
RecordFails ==
  /\ rec # None
  /\ avail' \in {avail, avail \ {rec}}
  /\ leaked' = leaked \cup {rec}
  /\ rec' = None /\ hand' = {} /\ call' = "idle"
  /\ UNCHANGED <<chunks, live, submitted, expiring, notifying, reapVars, stop, owner,
                 pending, lost>>

\* No chunk can be created, or the driver rejects the submission: the call
\* returns and the handles it holds lose their last reference.
CallFails ==
  /\ call = "acquiring" /\ rec = None
  /\ hand' = {} /\ call' = "idle"
  /\ UNCHANGED <<chunks, rec, live, submitted, leaked, expiring, notifying, reapVars, stop,
                 owner, gpuVars>>

\* The driver accepts the batch; was_submitted is still false.
Accept ==
  /\ call = "acquiring" /\ rec = None /\ hand # {} /\ ~lost
  /\ pending' = pending \cup hand
  /\ call' = "accepted"
  /\ UNCHANGED <<chunks, rec, hand, live, submitted, leaked, expiring, notifying, reapVars,
                 stop, owner, avail, lost>>

\* The handle is marked and passed to the strategy.
Slip_Unmarked(h) == UNCHANGED submitted
Mark(h) == submitted' = submitted \cup {h}

MarkSubmitted(h) ==
  /\ call = "accepted" /\ h \in hand
  /\ Mark(h)
  /\ hand' = hand \ {h}
  /\ call' = IF hand = {h} THEN "idle" ELSE call
  /\ UNCHANGED <<chunks, rec, live, leaked, expiring, notifying, reapVars, stop, owner,
                 gpuVars>>

-----------------------------------------------------------------------------
(* Any thread drops the last reference: push, then lock, notify, unlock.    *)

DropHandle(h) ==
  /\ h \in live \ hand
  /\ notifying < MaxDroppers
  /\ live' = live \ {h}
  /\ submitted' = submitted \ {h}
  /\ expiring' = Append(expiring, [id |-> h, was_submitted |-> h \in submitted])
  /\ notifying' = notifying + 1
  /\ UNCHANGED <<chunks, subVars, leaked, reapVars, stop, owner, gpuVars>>

\* notify_one; the lock is not to be had while the reaper is about to park.
Notify ==
  /\ notifying > 0
  /\ reaper # "committed"
  /\ notifying' = notifying - 1
  /\ reaper' = IF reaper = "parked" THEN "drain" ELSE reaper
  /\ UNCHANGED <<chunks, subVars, live, submitted, leaked, expiring, item, final, stop, owner,
                 gpuVars>>

-----------------------------------------------------------------------------
(* The reaper thread.                                                       *)

\* pop an item; process_expiring waits only for a handle that was submitted.
ReapPop ==
  /\ reaper = "drain" /\ expiring # <<>>
  /\ item' = Head(expiring)
  /\ expiring' = Tail(expiring)
  /\ reaper' = IF Head(expiring).was_submitted THEN "await" ELSE "release"
  /\ UNCHANGED <<chunks, subVars, live, submitted, leaked, notifying, final, stop, owner,
                 gpuVars>>

\* vkGetQueryPoolResults(WAIT) on the end query; its result is ignored.
Slip_NoWait == TRUE
EndWritten == item.id \in avail \/ lost

ReapAwait ==
  /\ reaper = "await" /\ EndWritten
  /\ reaper' = "release"
  /\ UNCHANGED <<chunks, subVars, live, submitted, leaked, expiring, notifying, item, final,
                 stop, owner, gpuVars>>

ReapRelease ==
  /\ reaper = "release"
  /\ chunks' = IF item.id[1] \in DOMAIN chunks
               THEN [chunks EXCEPT ![item.id[1]] = @ \cup {item.id[2]}]
               ELSE chunks
  /\ item' = NoItem
  /\ reaper' = "drain"
  /\ UNCHANGED <<subVars, live, submitted, leaked, expiring, notifying, final, stop, owner,
                 gpuVars>>

\* The queue is drained: look at stop, drain once more and return, or go on
\* to park.
ReapDrained ==
  /\ reaper = "drain" /\ expiring = <<>>
  /\ final' = (final \/ stop)
  /\ reaper' = IF final THEN "exited" ELSE IF stop THEN "drain" ELSE "lock"
  /\ UNCHANGED <<chunks, subVars, live, submitted, leaked, expiring, notifying, item, stop,
                 owner, gpuVars>>

\* Lock wake, and look at the queue and at stop again.
Slip_NoRecheck == TRUE
NothingToDo == expiring = <<>> /\ ~stop

ReapRecheck ==
  /\ reaper = "lock"
  /\ reaper' = IF NothingToDo THEN "committed" ELSE "drain"
  /\ UNCHANGED <<chunks, subVars, live, submitted, leaked, expiring, notifying, item, final,
                 stop, owner, gpuVars>>

\* Condvar::wait: release the lock and sleep.
ReapPark ==
  /\ reaper = "committed"
  /\ reaper' = "parked"
  /\ UNCHANGED <<chunks, subVars, live, submitted, leaked, expiring, notifying, item, final,
                 stop, owner, gpuVars>>

Reap == ReapPop \/ ReapAwait \/ ReapRelease \/ ReapDrained \/ ReapRecheck \/ ReapPark

-----------------------------------------------------------------------------
(* TimestampPool::drop, when no submission holds the pool any more.         *)

StoreStop ==
  /\ owner = "alive" /\ call = "idle" /\ rec = None
  /\ stop' = TRUE /\ owner' = "stopped"
  /\ UNCHANGED <<chunks, subVars, live, submitted, leaked, expiring, notifying, reapVars,
                 gpuVars>>

\* notify_all, without the lock.
NotifyAll ==
  /\ owner = "stopped"
  /\ owner' = "joining"
  /\ reaper' = IF reaper = "parked" THEN "drain" ELSE reaper
  /\ UNCHANGED <<chunks, subVars, live, submitted, leaked, expiring, notifying, item, final,
                 stop, gpuVars>>

ReaperDone == reaper = "exited"

Join ==
  /\ owner = "joining" /\ ReaperDone
  /\ owner' = "joined"
  /\ UNCHANGED <<chunks, subVars, live, submitted, leaked, expiring, notifying, reapVars, stop,
                 gpuVars>>

DestroyChunks ==
  /\ owner = "joined"
  /\ owner' = "destroyed"
  /\ chunks' = <<>>
  /\ UNCHANGED <<subVars, live, submitted, leaked, expiring, notifying, reapVars, stop,
                 gpuVars>>

\* try_lock_for fails: a holder of a handle sits in query_pool_for.
LeakChunks ==
  /\ owner = "joined" /\ live # {}
  /\ owner' = "leaked"
  /\ UNCHANGED <<chunks, subVars, live, submitted, leaked, expiring, notifying, reapVars, stop,
                 gpuVars>>

-----------------------------------------------------------------------------
(* The GPU, as the code sees it through the driver.                         *)

Complete(id) ==
  /\ id \in pending
  /\ pending' = pending \ {id}
  /\ avail' = avail \cup {id}
  /\ UNCHANGED <<chunks, subVars, live, submitted, leaked, expiring, notifying, reapVars, stop,
                 owner, lost>>

LoseDevice ==
  /\ ~lost
  /\ lost' = TRUE
  /\ pending' = {}
  /\ UNCHANGED <<chunks, subVars, live, submitted, leaked, expiring, notifying, reapVars, stop,
                 owner, avail>>

Submitter == FindFree \/ AllocChunk \/ RecordDone \/ RecordFails \/ CallFails \/ Accept
             \/ \E h \in hand : MarkSubmitted(h)

PoolDrop == StoreStop \/ NotifyAll \/ Join \/ DestroyChunks \/ LeakChunks

Next == Submitter \/ (\E h \in live : DropHandle(h)) \/ Notify \/ Reap \/ PoolDrop
        \/ (\E id \in pending : Complete(id)) \/ LoseDevice

Spec == Init /\ [][Next]_vars

\* Threads are scheduled and an uncontended lock is obtained.
ThreadFairness == /\ WF_vars(Notify) /\ WF_vars(Reap)
                  /\ WF_vars(NotifyAll) /\ WF_vars(Join) /\ WF_vars(DestroyChunks)

\* Work the GPU has accepted finishes, or the device is lost.
GpuFairness == \A id \in Id : WF_vars(Complete(id))

FairSpec == Spec /\ ThreadFairness /\ GpuFairness

-----------------------------------------------------------------------------
\* Each pair of an existing chunk is in exactly one place: free, being
\* recorded, behind a live handle, in the expiring queue (once), with the
\* reaper, or leaked by a failed recording.
OwnedOnce ==
  /\ \A id \in Id : id[1] \in DOMAIN chunks =>
       id \in Free \cup Recording \cup live \cup Expiring \cup Reaping \cup leaked
  /\ Recording \cap (Free \cup live \cup Expiring \cup Reaping \cup leaked) = {}
  /\ live \cap (Free \cup Expiring \cup Reaping \cup leaked) = {}
  /\ Expiring \cap (Free \cup Reaping \cup leaked) = {}
  /\ Reaping \cap (Free \cup leaked) = {}
  /\ leaked \cap Free = {}
  /\ \A i, j \in DOMAIN expiring : expiring[i].id = expiring[j].id => i = j

\* A pair that is free, or being reset and re-recorded, has no command
\* buffer on the GPU.
NotReusedWhilePending == (Free \cup Recording) \cap pending = {}

\* has_end and await_end_ns of a live handle never report the timestamp of
\* an earlier use of the pair: a result is there only after this handle's
\* own submission was accepted.
ResultIsOwn ==
  \A h \in live \cap avail : h \in submitted \/ (call = "accepted" /\ h \in hand)

\* The reaper never looks up a chunk that is gone: it is joined before the
\* chunks are destroyed (`chunks[item.chunk_idx]` cannot panic).
ReaperChunkExists ==
  reaper \in {"await", "release"} => item.id[1] \in DOMAIN chunks

Promise == INSTANCE QueryPairs
  WITH held <- Recording \cup live, retired <- Expiring \cup Reaping,
       gone <- leaked, busy <- pending

\* The pool implements its promise: no pair is handed out again before it
\* was given up and its GPU work is over.
KeepsPromise == Promise!Spec

\* Under a fair scheduler and a GPU that makes progress, no wake-up is lost:
\* every pair that was given up becomes free again while the reaper lives.
PairsReturn ==
  \A id \in Id : id \in Expiring \cup Reaping ~> (id \in Free \/ reaper = "exited")

\* TimestampPool::drop returns.
DropReturns == stop ~> owner \in {"destroyed", "leaked"}
=============================================================================
