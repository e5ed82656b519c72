---------------------------- MODULE HistoryProofs ----------------------------
(***************************************************************************)
(* Proofs about the history of a frame's times: the marker history, and    *)
(* the workers that tell it when a present reached the display.  The two   *)
(* have no variable in common; what the second calls recorded is what the  *)
(* first is given.                                                         *)
(*                                                                         *)
(* For every set of present ids, every capacity and every clock: the index *)
(* of the marker history always leads to the right frame, so a late time   *)
(* is never stored in another frame's entry; its report is newest first;   *)
(* its two readers of latencies agree; and it is a history of the most     *)
(* recent frames.  The clock's set and the bound MaxFrames play no part.   *)
(*                                                                         *)
(* For every set of swapchains, every PendingCap and PollCap and any       *)
(* number of presents: the display times are recorded in the order of the  *)
(* presents and from a clock that is understood, and a record of           *)
(* VK_GOOGLE_display_timing goes to the present that it is about.          *)
(***************************************************************************)
EXTENDS MarkerHistory, PresentTiming, SequenceTheorems, WellFoundedInduction, TLAPS

-----------------------------------------------------------------------------
(* The least natural of a set, for both parts.                              *)

\* A non-empty set of naturals has a least element.
LEMMA LeastNatural ==
  ASSUME NEW S \in SUBSET Nat, S # {}
  PROVE  \E m \in S : \A n \in S : m <= n
<1>1. \E m \in S : \A n \in S : ~ (<<n, m>> \in OpToRel(<, Nat))
  BY NatLessThanWellFounded, WFMin
<1>2. PICK m \in S : \A n \in S : ~ (<<n, m>> \in OpToRel(<, Nat))  BY <1>1
<1>3. \A n \in S : <<n, m>> \in OpToRel(<, Nat) <=> n < m
  BY DEF OpToRel
<1>4. \A n \in S : ~ (n < m)  BY <1>2, <1>3, Zenon
<1>. QED  BY <1>4

-----------------------------------------------------------------------------
(* The present-wait and display-timing workers                              *)

\* The elements of a sequence of presents, and their order.
In(s) == {s[i] : i \in DOMAIN s}
Rising(s) == \A i, j \in DOMAIN s : i < j => s[i] < s[j]

\* The presents of which the worker was told, or will never be.
Past(n) == n \in 1 .. Len(presents) /\ (caller # 0 /\ ~notifying => n < caller)

\* A handle is one swapchain's at a time, and a present is of one that was made.
Called ==
  /\ \A g, h \in Swapchains : life[g] # 0 /\ life[g] = life[h] => g = h
  /\ Len(presents) <= MaxPresents
  /\ \A n \in 1 .. Len(presents) :
       /\ presents[n].id \in {0, n} /\ presents[n].life <= lives
       /\ life[presents[n].handle] # presents[n].life =>
            \A h \in Swapchains : life[h] # presents[n].life
  /\ caller # 0 => /\ caller = Len(presents)
                   /\ life[presents[caller].handle] = presents[caller].life
  /\ notifying => source = "khr" /\ caller # 0 /\ presents[caller].id # 0

\* What each worker has in its hands.
InHand ==
  /\ source = "google" => worker \in {"poll", "pair"}
  /\ source = "khr" => worker \notin {"poll", "pair"} /\ Watched = {}
  /\ scratch # <<>> <=> worker = "pair"
  /\ worker = "pair" => sw \in Swapchains
  /\ item # 0 <=> worker = "wait"

\* The clock domain is what the driver's clock is.
ClockRead ==
  /\ domain = "Monotonic" => monotonic
  /\ domain = "Unknown" => ~monotonic
  /\ \A i \in DOMAIN scratch : scratch[i].time \in Samples
  /\ \A i \in DOMAIN recorded : recorded[i].time # "far"

\* KHR: what was recorded, is waited for and is queued is one rising sequence.
QueueRising ==
  source = "khr" =>
    /\ Rising(queue) /\ \A n \in In(queue) : Past(n)
    /\ item # 0 => Past(item) /\ \A n \in In(queue) : item < n
    /\ \A i \in DOMAIN recorded :
         /\ item # 0 => recorded[i].for < item
         /\ \A n \in In(queue) : recorded[i].for < n

\* GOOGLE: the ids of a handle are those of the swapchain that has it, in the
\* order of its presents and after all that was recorded for it.
IdsRising ==
  \A h \in Watched :
    /\ life[h] # 0 /\ Rising(pending[h])
    /\ \A n \in In(pending[h]) : Past(n) /\ presents[n].life = life[h] /\ presents[n].id # 0
    /\ \A i \in DOMAIN recorded, n \in In(pending[h]) :
         presents[recorded[i].for].life = life[h] => recorded[i].for < n

\* The records come in the order of the display, swapchain by swapchain.
Fetched == [i \in DOMAIN scratch |-> scratch[i].of]
RecordsRising ==
  /\ \A n \in shown : /\ presents[n].ok
                      /\ \A m \in 1 .. n - 1 :
                           presents[m].life = presents[n].life /\ presents[m].ok => m \in shown
  /\ \A l \in Life : Rising(reports[l]) /\ \A n \in In(reports[l]) : n \in shown /\ presents[n].life = l
  /\ Rising(Fetched)
  /\ \A n \in In(Fetched) :
       /\ n \in shown /\ presents[n].life = presents[Fetched[1]].life
       /\ \A m \in In(reports[presents[n].life]) : n < m

\* The ids that handle h has not been rid of, and the records of swapchain l
\* that were not paired.
Given(h) == In(Fifo(h)) \cup
            {n \in {caller} : n # 0 /\ presents[n].life = life[h] /\ presents[n].id # 0}
Unread(l) == In(reports[l]) \cup {n \in In(Fetched) : presents[n].life = l}

\* Until a swapchain slips, its records that were not paired are those of its
\* ids that have been shown.
InStep ==
  source = "google" =>
    \A h \in Swapchains : life[h] # 0 /\ life[h] \notin slipped =>
      /\ \A n \in 1 .. Len(presents) :
           presents[n].life = life[h] => (presents[n].id # 0 <=> presents[n].ok)
      /\ Unread(life[h]) = Given(h) \cap shown
      /\ \A n \in 1 .. Len(presents) :
           presents[n].life = life[h] /\ presents[n].id # 0 /\ n \notin shown => n \in Given(h)

RecordedPast == \A i \in DOMAIN recorded : Past(recorded[i].for)

OwnRecords ==
  \A i \in DOMAIN recorded :
    source = "google" /\ presents[recorded[i].for].life \notin slipped
      => recorded[i].of = recorded[i].for

\* The invariant that a step preserves.
TimingInv ==
  /\ TimingTypeOK /\ Called /\ InHand /\ ClockRead /\ QueueRising /\ IdsRising /\ RecordsRising
  /\ InStep /\ RecordedPast /\ RecordedInOrder /\ OwnRecords

-----------------------------------------------------------------------------
(* Rising sequences that grow, shrink and are paired                        *)

LEMMA InEmpty == In(<<>>) = {} /\ Rising(<<>>)
BY DEF In, Rising

LEMMA InMembers ==
  ASSUME NEW E, NEW s \in Seq(E)
  PROVE  /\ In(s) \subseteq E /\ DOMAIN s = 1 .. Len(s) /\ Len(s) \in Nat
         /\ \A i \in DOMAIN s : s[i] \in E /\ s[i] \in In(s)
BY ElementOfSeq, LenProperties DEF In

LEMMA InAppend ==
  ASSUME NEW s \in Seq(Present), NEW e \in Present
  PROVE  /\ Append(s, e) \in Seq(Present) /\ In(Append(s, e)) = In(s) \cup {e}
         /\ Rising(s) /\ (\A n \in In(s) : n < e) => Rising(Append(s, e))
<1> DEFINE u == Append(s, e)
<1>1. PICK m \in Nat : m = Len(s)  BY LenProperties
<1>2. /\ u \in Seq(Present) /\ DOMAIN s = 1 .. m /\ DOMAIN u = 1 .. m + 1
      /\ u[m + 1] = e /\ \A i \in 1 .. m : u[i] = s[i]
  BY <1>1, AppendProperties, LenProperties
<1> HIDE DEF u
<1>3. \A i \in DOMAIN u : (i \in DOMAIN s /\ i < m + 1) \/ i = m + 1  BY <1>2
<1>4. DOMAIN s \subseteq DOMAIN u /\ m + 1 \in DOMAIN u  BY <1>2
<1>5. In(u) = In(s) \cup {e}
  <2>1. ASSUME NEW x \in In(u)  PROVE x \in In(s) \cup {e}  BY <1>2, <1>3 DEF In
  <2>2. ASSUME NEW x \in In(s) \cup {e}  PROVE x \in In(u)  BY <1>2, <1>4 DEF In
  <2>. QED  BY <2>1, <2>2
<1>6. ASSUME Rising(s), \A n \in In(s) : n < e  PROVE Rising(u)
  <2>1. \A i \in DOMAIN s : s[i] < e  BY <1>6 DEF In
  <2>2. ASSUME NEW i \in DOMAIN u, NEW j \in DOMAIN u, i < j  PROVE u[i] < u[j]
    <3>1. i \in DOMAIN s /\ u[i] = s[i]  BY <1>2, <2>2
    <3>2. CASE j \in DOMAIN s  BY <1>2, <1>6, <2>2, <3>1, <3>2 DEF Rising
    <3>3. CASE j = m + 1  BY <1>2, <2>1, <3>1, <3>3
    <3>. QED  BY <1>3, <3>2, <3>3
  <2>. QED  BY <2>2 DEF Rising
<1>. QED  BY <1>2, <1>5, <1>6 DEF u

\* The first k of a sequence, and the rest of it.
Split(s, k, f, u) ==
  k \in 0 .. Len(s) /\ f = [i \in 1 .. k |-> s[i]] /\ u = SubSeq(s, k + 1, Len(s))

LEMMA InSplit ==
  ASSUME NEW s \in Seq(Present), NEW k, NEW f, NEW u, Split(s, k, f, u)
  PROVE  /\ u \in Seq(Present) /\ f \in Seq(Present) /\ In(s) = In(f) \cup In(u)
         /\ Rising(s) => Rising(f) /\ Rising(u) /\ \A x \in In(f), y \in In(u) : x < y
<1>0. k \in 0 .. Len(s) /\ f = [i \in 1 .. k |-> s[i]] /\ u = SubSeq(s, k + 1, Len(s))
  BY DEF Split
<1>1. PICK m \in Nat : m = Len(s)  BY LenProperties
<1>2. k \in 0 .. m /\ DOMAIN s = 1 .. m  BY <1>0, <1>1, LenProperties
<1>3. /\ u \in Seq(Present) /\ DOMAIN u = 1 .. m - k
      /\ \A i \in 1 .. m - k : u[i] = s[k + i]
  <2>1. u \in Seq(Present)
    <3>1. \A i \in k + 1 .. m : s[i] \in Present  BY <1>1, <1>2, ElementOfSeq
    <3>. QED  BY <1>1, <3>1, <1>0, SubSeqProperties
  <2>2. Len(u) = IF k + 1 <= m THEN m - (k + 1) + 1 ELSE 0
    BY <1>1, <1>2, <1>0, SubSeqProperties
  <2>3. Len(u) = m - k  BY <1>2, <2>2
  <2>4. \A i \in 1 .. m - (k + 1) + 1 : u[i] = s[(k + 1) + i - 1]
    BY <1>1, <1>2, <1>0, SubSeqProperties
  <2>5. \A i \in 1 .. m - k : i \in 1 .. m - (k + 1) + 1 /\ (k + 1) + i - 1 = k + i
    BY <1>2
  <2>6. DOMAIN u = 1 .. Len(u)  BY <2>1, LenProperties
  <2>. QED  BY <2>1, <2>3, <2>4, <2>5, <2>6
<1>4. f \in Seq(Present) /\ DOMAIN f = 1 .. k
  <2>1. \A i \in 1 .. k : s[i] \in Present  BY <1>1, <1>2, ElementOfSeq
  <2>. QED  BY <1>0, <1>2, <2>1, SeqDef
<1>5. \A i \in DOMAIN f : i \in DOMAIN s /\ f[i] = s[i] /\ i <= k  BY <1>0, <1>2
<1>6. \A i \in DOMAIN u : k + i \in DOMAIN s /\ u[i] = s[k + i] /\ k < k + i  BY <1>2, <1>3
<1>7. ASSUME NEW i \in DOMAIN s
      PROVE  (i \in DOMAIN f /\ f[i] = s[i]) \/ \E j \in DOMAIN u : i = k + j /\ u[j] = s[i]
  <2>1. CASE i <= k  BY <1>0, <1>2, <2>1
  <2>2. CASE ~(i <= k)
    <3>1. i - k \in 1 .. m - k /\ k + (i - k) = i  BY <1>2, <2>2
    <3>. QED  BY <1>3, <3>1
  <2>. QED  BY <2>1, <2>2
<1>8. In(s) = In(f) \cup In(u)
  <2>1. ASSUME NEW x \in In(s)  PROVE x \in In(f) \cup In(u)  BY <1>7 DEF In
  <2>2. ASSUME NEW x \in In(f) \cup In(u)  PROVE x \in In(s)
    <3>1. CASE x \in In(f)  BY <1>5, <3>1 DEF In
    <3>2. CASE x \in In(u)  BY <1>6, <3>2 DEF In
    <3>. QED  BY <2>2, <3>1, <3>2
  <2>. QED  BY <2>1, <2>2
<1>9. ASSUME Rising(s)  PROVE Rising(f) /\ Rising(u) /\ \A x \in In(f), y \in In(u) : x < y
  <2>1. Rising(f)  BY <1>5, <1>9 DEF Rising
  <2>2. ASSUME NEW i \in DOMAIN u, NEW j \in DOMAIN u, i < j  PROVE u[i] < u[j]
    <3>1. k + i < k + j  BY <1>2, <1>3, <2>2
    <3>. QED  BY <1>6, <1>9, <3>1 DEF Rising
  <2>3. ASSUME NEW i \in DOMAIN f, NEW j \in DOMAIN u  PROVE f[i] < u[j]
    <3>1. i < k + j  BY <1>2, <1>3, <1>4
    <3>. QED  BY <1>5, <1>6, <1>9, <3>1 DEF Rising
  <2>. QED  BY <2>1, <2>2, <2>3 DEF Rising, In
<1>. QED  BY <1>3, <1>4, <1>8, <1>9

\* A rising sequence whose elements come first in another one is its beginning.
LEMMA SamePairs ==
  ASSUME NEW s \in Seq(Present), NEW t \in Seq(Present), Rising(s), Rising(t),
         \A x \in In(s) : x \in In(t), \A x \in In(s), y \in In(t) : y < x => y \in In(s)
  PROVE  \A i \in DOMAIN s : i \in DOMAIN t /\ s[i] = t[i]
<1> DEFINE B == {i \in DOMAIN s : ~(i \in DOMAIN t /\ s[i] = t[i])}
<1>1. SUFFICES ASSUME B # {} PROVE FALSE
  OBVIOUS
<1>2. PICK m \in Nat, n \in Nat : DOMAIN s = 1 .. m /\ DOMAIN t = 1 .. n  BY InMembers
<1>3. PICK i \in B : \A j \in B : i <= j
  <2>1. B \in SUBSET Nat  BY <1>2
  <2>. HIDE DEF B
  <2>. QED  BY <1>1, <2>1, LeastNatural
<1>4. i \in DOMAIN s /\ \A j \in DOMAIN s : j < i => j \in DOMAIN t /\ s[j] = t[j]
  <2>1. \A j \in DOMAIN s : j < i => j \notin B  BY <1>2, <1>3
  <2>. QED  BY <1>3, <2>1
<1>5. /\ \A j \in DOMAIN s : s[j] \in Present /\ s[j] \in In(s)
      /\ \A j \in DOMAIN t : t[j] \in Present /\ t[j] \in In(t)
  BY InMembers
<1>6. PICK j \in DOMAIN t : t[j] = s[i]  BY <1>4, <1>5 DEF In
<1>7. Present \subseteq Nat  BY DEF Present
<1>8. CASE j < i
  <2>1. j \in DOMAIN s /\ s[j] = t[j]  BY <1>2, <1>4, <1>8
  <2>2. s[j] < s[i]  BY <1>4, <1>8, <2>1 DEF Rising
  <2>3. s[j] = s[i] /\ s[i] \in Nat  BY <1>4, <1>5, <1>6, <1>7, <2>1
  <2>. QED  BY <2>2, <2>3
<1>9. CASE j = i
  BY <1>3, <1>6, <1>9
<1>10. CASE i < j
  <2>1. i \in DOMAIN t /\ t[i] < t[j]  BY <1>2, <1>4, <1>10 DEF Rising
  <2>2. t[i] \in In(s)  BY <1>4, <1>5, <1>6, <2>1
  <2>3. PICK l \in DOMAIN s : s[l] = t[i]  BY <2>2 DEF In
  <2>4. l < i
    <3>1. s[l] < s[i] /\ s[l] \in Nat /\ s[i] \in Nat  BY <1>4, <1>5, <1>6, <1>7, <2>1, <2>3
    <3>2. l # i  BY <3>1
    <3>3. ~(i < l)
      <4>1. ASSUME i < l  PROVE s[i] < s[l]  BY <1>4, <4>1 DEF Rising
      <4>. QED  BY <3>1, <4>1
    <3>. QED  BY <1>2, <1>4, <3>2, <3>3
  <2>5. l \in DOMAIN t /\ t[l] = t[i]  BY <1>4, <2>3, <2>4
  <2>6. t[l] < t[i]  BY <2>1, <2>4, <2>5 DEF Rising
  <2>7. t[l] = t[i] /\ t[i] \in Nat  BY <1>5, <1>7, <2>1, <2>5
  <2>. QED  BY <2>6, <2>7
<1>. QED  BY <1>2, <1>4, <1>6, <1>8, <1>9, <1>10

-----------------------------------------------------------------------------
(* What every step keeps                                                    *)

Carried == [handle : Swapchains, life : Life, id : 0 .. MaxPresents, ok : BOOLEAN]
Timed == [of : Present, time : Sample]
Noted == [for : Present, of : Present, time : Sample \cup {"now"}]

LEMMA TypesAre ==
  ASSUME TimingInv
  PROVE  /\ presents \in Seq(Carried) /\ DOMAIN presents = 1 .. Len(presents)
         /\ Len(presents) \in 0 .. MaxPresents /\ 1 .. Len(presents) \subseteq Present
         /\ MaxPresents \in Nat /\ MaxSwapchains \in Nat /\ PendingCap \in Nat \ {0}
         /\ lives \in 0 .. MaxSwapchains /\ life \in [Swapchains -> 0 .. lives]
         /\ \A n \in 1 .. Len(presents) :
              /\ presents[n].handle \in Swapchains /\ presents[n].life \in Life
              /\ presents[n].life <= lives /\ presents[n].id \in {0, n} /\ presents[n].ok \in BOOLEAN
         /\ caller \in 0 .. Len(presents) /\ shown \subseteq 1 .. Len(presents)
         /\ reports \in [Life -> Seq(Present)] /\ queue \in Seq(Present)
         /\ pending \in [Watched -> Seq(Present)] /\ Watched \subseteq Swapchains
         /\ scratch \in Seq(Timed) /\ DOMAIN scratch = 1 .. Len(scratch) /\ Len(scratch) \in Nat
         /\ recorded \in Seq(Noted) /\ DOMAIN recorded = 1 .. Len(recorded) /\ Len(recorded) \in Nat
         /\ \A i \in DOMAIN scratch : scratch[i].of \in Present /\ scratch[i].time \in Sample
         /\ \A i \in DOMAIN recorded : recorded[i].for \in Present
         /\ \A h \in Swapchains : life[h] # 0 => life[h] \in Life
<1>1. /\ presents \in Seq(Carried) /\ lives \in 0 .. MaxSwapchains /\ life \in [Swapchains -> 0 .. lives]
      /\ caller \in 0 .. Len(presents) /\ shown \subseteq 1 .. Len(presents)
      /\ reports \in [Life -> Seq(Present)] /\ queue \in Seq(Present)
      /\ pending \in [Watched -> Seq(Present)] /\ Watched \subseteq Swapchains
      /\ scratch \in Seq(Timed) /\ recorded \in Seq(Noted)
  BY DEF TimingInv, TimingTypeOK, Carried, Timed, Noted
<1>2. DOMAIN presents = 1 .. Len(presents) /\ Len(presents) \in Nat /\ Len(presents) <= MaxPresents
  BY <1>1, LenProperties DEF TimingInv, Called
<1>3. MaxPresents \in Nat /\ MaxSwapchains \in Nat /\ PendingCap \in Nat \ {0}  BY TimingAssumption
<1>4. Len(presents) \in 0 .. MaxPresents /\ 1 .. Len(presents) \subseteq Present
  BY <1>2, <1>3 DEF Present
<1>5. ASSUME NEW n \in 1 .. Len(presents)
      PROVE  /\ presents[n].handle \in Swapchains /\ presents[n].life \in Life
             /\ presents[n].life <= lives /\ presents[n].id \in {0, n} /\ presents[n].ok \in BOOLEAN
  <2>1. presents[n] \in Carried  BY <1>1, ElementOfSeq
  <2>2. presents[n].life <= lives /\ presents[n].id \in {0, n}  BY DEF TimingInv, Called
  <2>. QED  BY <2>1, <2>2 DEF Carried
<1>6. DOMAIN scratch = 1 .. Len(scratch) /\ Len(scratch) \in Nat
      /\ DOMAIN recorded = 1 .. Len(recorded) /\ Len(recorded) \in Nat
  BY <1>1, LenProperties
<1>7. ASSUME NEW i \in DOMAIN scratch  PROVE scratch[i].of \in Present /\ scratch[i].time \in Sample
  <2>1. scratch[i] \in Timed  BY <1>1, <1>6, ElementOfSeq
  <2>. QED  BY <2>1 DEF Timed
<1>8. ASSUME NEW i \in DOMAIN recorded  PROVE recorded[i].for \in Present
  <2>1. recorded[i] \in Noted  BY <1>1, <1>6, ElementOfSeq
  <2>. QED  BY <2>1 DEF Noted
<1>9. \A h \in Swapchains : life[h] # 0 => life[h] \in Life  BY <1>1, <1>3 DEF Life
<1>. QED  BY <1>1, <1>2, <1>3, <1>4, <1>5, <1>6, <1>7, <1>8, <1>9

LEMMA PresentsStay ==
  ASSUME TimingInv, [TimingNext]_timingVars
  PROVE  /\ source' = source /\ monotonic' = monotonic /\ slipped \subseteq slipped'
         /\ 1 .. Len(presents) \subseteq 1 .. Len(presents')
         /\ \A n \in 1 .. Len(presents) : presents'[n] = presents[n]
         /\ \/ \E h \in Swapchains, id \in {0, Len(presents) + 1}, ok \in BOOLEAN :
                 queue_present(h, id, ok)
            \/ presents' = presents
<1>1. source' = source /\ monotonic' = monotonic /\ slipped \subseteq slipped'
  BY DEF TimingNext, timingVars, appVars, drvVars, khrVars, googVars, create_swapchain,
         destroy_swapchain, queue_present, NothingToEnqueue, enqueue_khr, notify_khr, enqueue_google,
         Show, Khr, KhrPop, KhrShown, KhrGivesUp, KhrDrained, KhrRecheck, KhrPark, Google, Snapshot,
         PollNothing, Poll, Pair, PairNothing
<1>2. \/ \E h \in Swapchains, id \in {0, Len(presents) + 1}, ok \in BOOLEAN : queue_present(h, id, ok)
      \/ presents' = presents
  BY DEF TimingNext, timingVars, appVars, create_swapchain,
         destroy_swapchain, NothingToEnqueue, enqueue_khr, notify_khr, enqueue_google,
         Show, Khr, KhrPop, KhrShown, KhrGivesUp, KhrDrained, KhrRecheck, KhrPark, Google, Snapshot,
         PollNothing, Poll, Pair, PairNothing
<1>3. ASSUME NEW h \in Swapchains, NEW id, NEW ok, queue_present(h, id, ok)
      PROVE  /\ 1 .. Len(presents) \subseteq 1 .. Len(presents')
             /\ \A n \in 1 .. Len(presents) : presents'[n] = presents[n]
  <2>1. PICK e : presents' = Append(presents, e)  BY <1>3 DEF queue_present
  <2>2. PICK D : presents \in Seq(D) /\ e \in D
    <3>1. presents \in Seq(Carried \cup {e})  BY TypesAre, SeqDef
    <3>. QED  BY <3>1
  <2>3. Len(presents') = Len(presents) + 1 /\ Len(presents) \in Nat
        /\ \A n \in 1 .. Len(presents) : presents'[n] = presents[n]
    BY <2>1, <2>2, AppendProperties, LenProperties
  <2>. QED  BY <2>3
<1>. QED  BY <1>1, <1>2, <1>3

LEMMA PastStays ==
  ASSUME TimingInv, [TimingNext]_timingVars, NEW n, Past(n)
  PROVE  Past(n)'
<1>1. n \in 1 .. Len(presents) /\ n \in 1 .. Len(presents') /\ caller \in 0 .. Len(presents)
      /\ Len(presents) \in Nat
  <2>1. n \in 1 .. Len(presents)  BY DEF Past
  <2>2. n \in 1 .. Len(presents')  BY <2>1, PresentsStay
  <2>3. caller \in 0 .. Len(presents) /\ Len(presents) \in 0 .. MaxPresents /\ MaxPresents \in Nat
    BY TypesAre
  <2>. QED  BY <2>1, <2>2, <2>3
<1>2. CASE caller' = caller /\ (notifying' = notifying \/ notifying')
  BY <1>1, <1>2 DEF Past
<1>3. CASE caller' = 0
  BY <1>1, <1>3 DEF Past
<1>4. CASE caller' = Len(presents) + 1
  BY <1>1, <1>4 DEF Past
<1>5. \/ caller' = caller /\ (notifying' = notifying \/ notifying')
      \/ caller' = 0
      \/ caller' = Len(presents) + 1
  BY DEF TimingNext, timingVars, appVars, drvVars, khrVars, googVars, create_swapchain,
         destroy_swapchain, queue_present, NothingToEnqueue, enqueue_khr, notify_khr, enqueue_google,
         Show, Khr, KhrPop, KhrShown, KhrGivesUp, KhrDrained, KhrRecheck, KhrPark, Google, Snapshot,
         PollNothing, Poll, Pair, PairNothing
<1>. QED  BY <1>2, <1>3, <1>4, <1>5

-----------------------------------------------------------------------------
(* Type correctness                                                         *)

AppOK ==
  /\ lives \in 0 .. MaxSwapchains /\ life \in [Swapchains -> 0 .. lives]
  /\ presents \in Seq(Carried) /\ caller \in 0 .. Len(presents) /\ slipped \subseteq Life
DisplayOK == shown \subseteq 1 .. Len(presents) /\ reports \in [Life -> Seq(Present)]
KhrOK == queue \in Seq(Present) /\ notifying \in BOOLEAN /\ item \in 0 .. Len(presents)
GoogOK ==
  /\ pending \in [Watched -> Seq(Present)] /\ Watched \subseteq Swapchains
  /\ domain \in {"Unvalidated", "Monotonic", "Unknown"}
  /\ todo \subseteq Swapchains /\ sw \in Swapchains \cup {NoSwapchain} /\ scratch \in Seq(Timed)
WorkerOK == worker \in {"drain", "wait", "lock", "committed", "parked", "poll", "pair"}
NotesOK == recorded \in Seq(Noted)

LEMMA TypesJoin ==
  ASSUME source \in {"khr", "google"}, monotonic \in BOOLEAN, source' = source, monotonic' = monotonic,
         AppOK', DisplayOK', KhrOK', GoogOK', WorkerOK', NotesOK'
  PROVE  TimingTypeOK'
BY DEF TimingTypeOK, AppOK, DisplayOK, KhrOK, GoogOK, WorkerOK, NotesOK, Carried, Timed, Noted

LEMMA TypesPart ==
  ASSUME TimingTypeOK
  PROVE  /\ source \in {"khr", "google"} /\ monotonic \in BOOLEAN
         /\ AppOK /\ DisplayOK /\ KhrOK /\ GoogOK /\ WorkerOK /\ NotesOK
BY DEF TimingTypeOK, AppOK, DisplayOK, KhrOK, GoogOK, WorkerOK, NotesOK, Carried, Timed, Noted

LEMMA WithTypes ==
  ASSUME NEW S, NEW f, f \in [DOMAIN f -> S], NEW k, NEW v \in S
  PROVE  /\ With(f, k, v) \in [DOMAIN With(f, k, v) -> S] /\ DOMAIN With(f, k, v) = DOMAIN f \cup {k}
         /\ With(f, k, v)[k] = v /\ \A x \in DOMAIN f : x # k => With(f, k, v)[x] = f[x]
         /\ Without(f, k) \in [DOMAIN Without(f, k) -> S] /\ DOMAIN Without(f, k) = DOMAIN f \ {k}
         /\ \A x \in DOMAIN f : x # k => Without(f, k)[x] = f[x]
BY DEF With, Without

LEMMA PushedTypes ==
  ASSUME TimingInv, NEW fifo \in Seq(Present), NEW id \in Present
  PROVE  /\ Pushed(fifo, id) \in Seq(Present) /\ In(Pushed(fifo, id)) \subseteq In(fifo) \cup {id}
         /\ Rising(fifo) /\ (\A n \in In(fifo) : n < id) => Rising(Pushed(fifo, id))
         /\ ~Overfull(fifo) => In(Pushed(fifo, id)) = In(fifo) \cup {id}
<1>1. CASE Overfull(fifo)
  <2>0. PICK m \in Nat : m = Len(fifo) /\ m # 0
    <3>1. Len(fifo) \in Nat  BY LenProperties
    <3>2. Len(fifo) >= PendingCap /\ PendingCap \in Nat \ {0}  BY <1>1, TimingAssumption DEF Overfull
    <3>. QED  BY <3>1, <3>2
  <2>1. fifo # <<>> /\ 1 \in 0 .. Len(fifo)  BY <2>0, EmptySeq
  <2>2. PICK t : t = SubSeq(fifo, 1 + 1, Len(fifo))  OBVIOUS
  <2>3. PICK f : f = [i \in 1 .. 1 |-> fifo[i]]  OBVIOUS
  <2>4. /\ t \in Seq(Present) /\ In(fifo) = In(f) \cup In(t)
        /\ Rising(fifo) => Rising(t)
    <3>1. Split(fifo, 1, f, t)  BY <2>1, <2>2, <2>3 DEF Split
    <3>. QED  BY <3>1, InSplit
  <2>5. Tail(fifo) = t
    <3>1. /\ Tail(fifo) \in Seq(Present) /\ Len(Tail(fifo)) = m - 1
          /\ \A i \in 1 .. m - 1 : Tail(fifo)[i] = fifo[i + 1]
      BY <2>0, <2>1, HeadTailProperties
    <3>2. Len(t) = IF 2 <= m THEN m - 2 + 1 ELSE 0
      BY <2>0, <2>2, <2>4, SubSeqProperties
    <3>3. Len(t) = m - 1  BY <2>0, <3>2
    <3>4. \A i \in 1 .. m - 2 + 1 : t[i] = fifo[2 + i - 1]
      BY <2>0, <2>2, SubSeqProperties
    <3>5. \A i \in 1 .. m - 1 : i \in 1 .. m - 2 + 1 /\ 2 + i - 1 = i + 1  BY <2>0
    <3>6. PICK w \in Seq(Present) : w = Tail(fifo) /\ Len(w) = m - 1  BY <3>1
    <3>7. \A i \in 1 .. Len(t) : t[i] = w[i]  BY <3>1, <3>3, <3>4, <3>5, <3>6
    <3>8. t = w  BY <2>4, <3>3, <3>6, <3>7, SeqEqual
    <3>. QED  BY <3>6, <3>8
  <2>6. Pushed(fifo, id) = Append(t, id)  BY <1>1, <2>5 DEF Pushed
  <2>7. /\ Append(t, id) \in Seq(Present) /\ In(Append(t, id)) = In(t) \cup {id}
        /\ Rising(t) /\ (\A n \in In(t) : n < id) => Rising(Append(t, id))
    BY <2>4, InAppend
  <2>. QED  BY <1>1, <2>4, <2>6, <2>7
<1>2. CASE ~Overfull(fifo)
  <2>1. Pushed(fifo, id) = Append(fifo, id)  BY <1>2 DEF Pushed
  <2>. QED  BY <2>1, InAppend
<1>. QED  BY <1>1, <1>2

\* What the worker fetches and what it leaves.
Takes(r, l, k) ==
  /\ \E time \in [1 .. k -> Samples] :
       scratch' = [i \in 1 .. k |-> [of |-> r[i], time |-> time[i]]]
  /\ reports' = [reports EXCEPT ![l] = Unfetched(r, k)]

LEMMA PollFacts ==
  ASSUME TimingInv, NEW h \in Swapchains, Poll(h)
  PROVE  \E f \in Seq(Present), u \in Seq(Present) : \E time :
           /\ life[h] \in Life /\ f # <<>> /\ In(reports[life[h]]) = In(f) \cup In(u)
           /\ Rising(reports[life[h]]) => Rising(f) /\ Rising(u) /\ \A x \in In(f), y \in In(u) : x < y
           /\ scratch' = [i \in 1 .. Len(f) |-> [of |-> f[i], time |-> time[i]]]
           /\ \A i \in 1 .. Len(f) : time[i] \in Samples
           /\ scratch' \in Seq(Timed) /\ scratch' # <<>> /\ Fetched' = f
           /\ reports' = [reports EXCEPT ![life[h]] = u]
<1>1. life[h] \in Life /\ reports[life[h]] \in Seq(Present)  BY TypesAre DEF Poll
<1>2. PICK r \in Seq(Present) : r = reports[life[h]]  BY <1>1
<1>3. PICK m \in Nat : m = Len(r)  BY LenProperties
<1>a. PICK k \in 1 .. Fewer(PollCap, m) : Takes(r, life[h], k)
  <2>1. \E k \in 1 .. Fewer(PollCap, Len(reports[life[h]])) : Takes(reports[life[h]], life[h], k)
    BY Zenon DEF Poll, Takes
  <2>. QED  BY <1>2, <1>3, <2>1
<1>4. PICK time \in [1 .. k -> Samples] :
        /\ scratch' = [i \in 1 .. k |-> [of |-> r[i], time |-> time[i]]]
        /\ reports' = [reports EXCEPT ![life[h]] = Unfetched(r, k)]
  BY <1>a DEF Takes
<1>5. k \in 1 .. m  BY <1>3, TimingAssumption DEF Fewer
<1>6. PICK f : f = [i \in 1 .. k |-> r[i]]  OBVIOUS
<1>7. PICK u : u = SubSeq(r, k + 1, Len(r))  OBVIOUS
<1>8. /\ u \in Seq(Present) /\ f \in Seq(Present) /\ In(r) = In(f) \cup In(u)
      /\ Rising(r) => Rising(f) /\ Rising(u) /\ \A x \in In(f), y \in In(u) : x < y
  <2>1. k \in 0 .. Len(r)  BY <1>3, <1>5
  <2>2. Split(r, k, f, u)  BY <1>6, <1>7, <2>1 DEF Split
  <2>. QED  BY <2>2, InSplit
<1>9. Len(f) = k /\ f # <<>>
  <2>1. DOMAIN f = 1 .. k /\ DOMAIN f = 1 .. Len(f) /\ Len(f) \in Nat  BY <1>6, <1>8, LenProperties
  <2>2. Len(f) = k  BY <1>5, <2>1
  <2>. QED  BY <1>5, <2>2, EmptySeq
<1>10. Samples \subseteq Sample  BY DEF Samples, Sample
<1>11. scratch' = [i \in 1 .. Len(f) |-> [of |-> f[i], time |-> time[i]]]
  BY <1>4, <1>6, <1>9
<1>12. \A i \in 1 .. Len(f) : time[i] \in Samples  BY <1>4, <1>9
<1>13. scratch' \in Seq(Timed)
  <2>1. \A i \in 1 .. Len(f) : [of |-> f[i], time |-> time[i]] \in Timed
    BY <1>8, <1>10, <1>12, ElementOfSeq DEF Timed
  <2>2. Len(f) \in Nat  BY <1>8, LenProperties
  <2>. QED  BY <1>11, <2>1, <2>2, SeqDef
<1>14. scratch' # <<>>
  <2>1. DOMAIN scratch' = 1 .. k  BY <1>4
  <2>2. DOMAIN <<>> = {}  OBVIOUS
  <2>. QED  BY <1>5, <2>1, <2>2
<1>15. Fetched' = f
  <2>1. DOMAIN scratch' = 1 .. k /\ \A i \in 1 .. k : scratch'[i].of = r[i]  BY <1>4
  <2>2. Fetched' = [i \in 1 .. k |-> r[i]]  BY <2>1 DEF Fetched
  <2>. QED  BY <1>6, <2>2
<1>16. reports' = [reports EXCEPT ![life[h]] = u]  BY <1>4, <1>7 DEF Unfetched
<1>. QED  BY <1>1, <1>2, <1>8, <1>9, <1>11, <1>12, <1>13, <1>14, <1>15, <1>16

LEMMA TypeStep ==
  ASSUME TimingInv, [TimingNext]_timingVars
  PROVE  TimingTypeOK'
<1>0. source' = source /\ monotonic' = monotonic  BY PresentsStay
<1>i. /\ source \in {"khr", "google"} /\ monotonic \in BOOLEAN
      /\ AppOK /\ DisplayOK /\ KhrOK /\ GoogOK /\ WorkerOK /\ NotesOK
  BY TypesPart DEF TimingInv
<1>j. AppOK' /\ DisplayOK' /\ KhrOK' /\ GoogOK' /\ WorkerOK' /\ NotesOK' => TimingTypeOK'
  BY <1>0, <1>i, TypesJoin
<1>m. /\ MaxSwapchains \in Nat /\ MaxPresents \in Nat
      /\ Len(presents) \in 0 .. MaxPresents /\ 1 .. Len(presents) \subseteq Present
  BY TypesAre
<1>a. UNCHANGED appVars => AppOK'  BY <1>i DEF AppOK, appVars
<1>d. presents' = presents /\ UNCHANGED <<shown, reports>> => DisplayOK'  BY <1>i DEF DisplayOK
<1>k. presents' = presents /\ UNCHANGED khrVars => KhrOK'  BY <1>i DEF KhrOK, khrVars
<1>g. UNCHANGED googVars => GoogOK'  BY <1>i DEF GoogOK, googVars, Watched
<1>w. worker' = worker => WorkerOK'  BY <1>i DEF WorkerOK
<1>n. recorded' = recorded => NotesOK'  BY <1>i DEF NotesOK
<1>1. ASSUME NEW h \in Swapchains, create_swapchain(h)  PROVE TimingTypeOK'
  <2>1. /\ lives < MaxSwapchains /\ lives' = lives + 1 /\ life' = [life EXCEPT ![h] = lives + 1]
        /\ UNCHANGED <<presents, caller, slipped, drvVars, reports, khrVars, googVars, worker, recorded>>
    BY <1>1 DEF create_swapchain
  <2>2. lives' \in 0 .. MaxSwapchains /\ life' \in [Swapchains -> 0 .. lives']
    BY <1>i, <1>m, <2>1 DEF AppOK
  <2>3. AppOK'  BY <1>i, <2>1, <2>2 DEF AppOK
  <2>. QED  BY <1>j, <1>d, <1>k, <1>g, <1>w, <1>n, <2>1, <2>3 DEF drvVars
<1>2. ASSUME NEW h \in Swapchains, destroy_swapchain(h)  PROVE TimingTypeOK'
  <2>1. /\ life' = [life EXCEPT ![h] = 0] /\ pending' = Without(pending, h)
        /\ UNCHANGED <<lives, presents, caller, slipped, drvVars, reports, khrVars, domain, todo, sw,
                       scratch, worker, recorded>>
    BY <1>2 DEF destroy_swapchain, Forgotten
  <2>2. life' \in [Swapchains -> 0 .. lives]  BY <1>i, <1>m, <2>1 DEF AppOK
  <2>3. AppOK'  BY <1>i, <2>1, <2>2 DEF AppOK
  <2>4. pending' \in [Watched' -> Seq(Present)] /\ Watched' \subseteq Swapchains
    BY <1>i, <2>1, EmptySeq DEF GoogOK, Watched, Without
  <2>5. GoogOK'  BY <1>i, <2>1, <2>4 DEF GoogOK
  <2>. QED  BY <1>j, <1>d, <1>k, <1>w, <1>n, <2>1, <2>3, <2>5 DEF drvVars
<1>3. ASSUME NEW h \in Swapchains, NEW id \in {0, Len(presents) + 1}, NEW ok \in BOOLEAN,
             queue_present(h, id, ok)
      PROVE  TimingTypeOK'
  <2>1. PICK n \in Nat : n = Len(presents) + 1 /\ n - 1 = Len(presents)  BY <1>m
  <2>2. PICK e : e = [handle |-> h, life |-> life[h], id |-> id, ok |-> ok]  OBVIOUS
  <2>3. /\ life[h] # 0 /\ n <= MaxPresents /\ presents' = Append(presents, e) /\ caller' = n
        /\ slipped' \in {slipped, slipped \cup {life[h]}}
        /\ UNCHANGED <<life, lives, drvVars, reports, khrVars, googVars, worker, recorded>>
    BY <1>3, <2>1, <2>2 DEF queue_present
  <2>4. life[h] \in Life  BY <2>3, TypesAre
  <2>5. id \in 0 .. MaxPresents  BY <1>m, <2>1, <2>3
  <2>6. e \in Carried  BY <2>2, <2>4, <2>5 DEF Carried
  <2>7. presents' \in Seq(Carried) /\ Len(presents') = n
    BY <1>i, <2>1, <2>3, <2>6, AppendProperties DEF AppOK
  <2>8. AppOK'  BY <1>i, <2>1, <2>3, <2>4, <2>7 DEF AppOK
  <2>9. DisplayOK'  BY <1>i, <2>1, <2>3, <2>7 DEF DisplayOK, drvVars
  <2>10. KhrOK'  BY <1>i, <2>1, <2>3, <2>7 DEF KhrOK, khrVars
  <2>. QED  BY <1>j, <1>g, <1>w, <1>n, <2>3, <2>8, <2>9, <2>10
<1>4. ASSUME NothingToEnqueue  PROVE TimingTypeOK'
  <2>1. caller' = 0 /\ UNCHANGED <<life, lives, presents, slipped, drvVars, reports, khrVars, googVars,
                                   worker, recorded>>
    BY <1>4 DEF NothingToEnqueue
  <2>2. AppOK'  BY <1>i, <1>m, <2>1 DEF AppOK
  <2>. QED  BY <1>j, <1>d, <1>k, <1>g, <1>w, <1>n, <2>1, <2>2 DEF drvVars
<1>5. ASSUME enqueue_khr  PROVE TimingTypeOK'
  <2>1. /\ caller # 0 /\ queue' = Append(queue, caller) /\ notifying' = TRUE
        /\ UNCHANGED <<appVars, drvVars, reports, item, googVars, worker, recorded>>
    BY <1>5 DEF enqueue_khr
  <2>2. caller \in Present  BY <1>i, <1>m, <2>1 DEF AppOK
  <2>3. KhrOK'  BY <1>i, <2>1, <2>2, AppendProperties DEF KhrOK, appVars
  <2>. QED  BY <1>j, <1>a, <1>d, <1>g, <1>w, <1>n, <2>1, <2>3 DEF drvVars, appVars
<1>6. ASSUME notify_khr  PROVE TimingTypeOK'
  <2>1. /\ caller' = 0 /\ notifying' = FALSE /\ worker' \in {worker, "drain"}
        /\ UNCHANGED <<life, lives, presents, slipped, drvVars, reports, queue, item, googVars, recorded>>
    BY <1>6 DEF notify_khr
  <2>2. AppOK' /\ WorkerOK'  BY <1>i, <1>m, <2>1 DEF AppOK, WorkerOK
  <2>3. KhrOK'
    <3>1. notifying' \in BOOLEAN  BY <2>1, Zenon
    <3>2. queue' \in Seq(Present) /\ item' \in 0 .. Len(presents')  BY <1>i, <2>1 DEF KhrOK
    <3>. QED  BY <3>1, <3>2, Zenon DEF KhrOK
  <2>. QED  BY <1>j, <1>d, <1>g, <1>n, <2>1, <2>2, <2>3 DEF drvVars
<1>7. ASSUME enqueue_google  PROVE TimingTypeOK'
  <2>1. PICK h \in Swapchains, id \in Present :
          /\ h = presents[caller].handle /\ id = presents[caller].id
          /\ pending' = With(pending, h, Pushed(Fifo(h), id))
          /\ slipped' \in {slipped, slipped \cup {life[h]}} /\ life[h] \in Life /\ caller' = 0
          /\ UNCHANGED <<life, lives, presents, drvVars, reports, khrVars, domain, todo, sw, scratch,
                         worker, recorded>>
    <3>1. caller # 0 /\ presents[caller].id # 0  BY <1>7 DEF enqueue_google, HasId
    <3>2. caller \in 1 .. Len(presents)  BY <1>i, <1>m, <3>1 DEF AppOK
    <3>3. presents[caller].handle \in Swapchains /\ presents[caller].id \in Present
      BY <1>m, <3>1, <3>2, TypesAre
    <3>4. life[presents[caller].handle] \in Life
      <4>1. life[presents[caller].handle] = presents[caller].life  BY <3>1 DEF TimingInv, Called
      <4>. QED  BY <3>2, <4>1, TypesAre
    <3>. QED  BY <1>7, <3>3, <3>4 DEF enqueue_google
  <2>2. Fifo(h) \in Seq(Present)  BY <1>i, EmptySeq DEF Fifo, GoogOK
  <2>3. Pushed(Fifo(h), id) \in Seq(Present)  BY <2>2, PushedTypes
  <2>4. pending' \in [Watched' -> Seq(Present)] /\ Watched' \subseteq Swapchains
    BY <1>i, <2>1, <2>3 DEF GoogOK, Watched, With
  <2>5. GoogOK'  BY <1>i, <2>1, <2>4 DEF GoogOK
  <2>6. AppOK'  BY <1>i, <1>m, <2>1 DEF AppOK
  <2>. QED  BY <1>j, <1>d, <1>k, <1>w, <1>n, <2>1, <2>5, <2>6 DEF drvVars
<1>8. ASSUME NEW n \in 1 .. Len(presents), Show(n)  PROVE TimingTypeOK'
  <2>1. /\ shown' = shown \cup {n}
        /\ UNCHANGED <<appVars, source, monotonic, khrVars, googVars, worker, recorded>>
    BY <1>8 DEF Show
  <2>2. reports' \in [Life -> Seq(Present)]
    <3>1. CASE source = "google"
      <4>1. PICK l \in Life : l = presents[n].life  BY TypesAre
      <4>2. reports' = [reports EXCEPT ![l] = Append(@, n)]  BY <1>8, <3>1, <4>1 DEF Show
      <4>3. PICK r \in Seq(Present) : r = reports[l]  BY <1>i DEF DisplayOK
      <4>4. Append(r, n) \in Seq(Present)  BY <1>m, AppendProperties
      <4>. QED  BY <1>i, <4>2, <4>3, <4>4 DEF DisplayOK
    <3>2. CASE source # "google"
      BY <1>8, <1>i, <3>2 DEF Show, DisplayOK
    <3>. QED  BY <3>1, <3>2
  <2>3. DisplayOK'  BY <1>i, <2>1, <2>2 DEF DisplayOK, appVars
  <2>. QED  BY <1>j, <1>a, <1>k, <1>g, <1>w, <1>n, <2>1, <2>3 DEF appVars
<1>9. ASSUME KhrPop  PROVE TimingTypeOK'
  <2>1. /\ queue # <<>> /\ item' = Head(queue) /\ queue' = Tail(queue) /\ worker' = "wait" /\ source = "khr"
        /\ UNCHANGED <<appVars, drvVars, reports, notifying, googVars, recorded>>
    BY <1>9 DEF KhrPop
  <2>2. Head(queue) \in In(queue) /\ queue' \in Seq(Present)
    <3>1. Head(queue) = queue[1] /\ Tail(queue) \in Seq(Present) /\ Len(queue) # 0 /\ Len(queue) \in Nat
      BY <1>i, <2>1, HeadTailProperties, EmptySeq, LenProperties DEF KhrOK
    <3>2. 1 \in DOMAIN queue  BY <1>i, <3>1, LenProperties DEF KhrOK
    <3>. QED  BY <2>1, <3>1, <3>2 DEF In
  <2>3. Head(queue) \in 0 .. Len(presents)
    BY <2>1, <2>2 DEF TimingInv, QueueRising, Past
  <2>4. KhrOK' /\ WorkerOK'  BY <1>i, <2>1, <2>2, <2>3 DEF KhrOK, WorkerOK, appVars
  <2>. QED  BY <1>j, <1>a, <1>d, <1>g, <1>n, <2>1, <2>4 DEF drvVars, appVars
<1>10. ASSUME KhrShown  PROVE TimingTypeOK'
  <2>1. PICK m \in Present : recorded' = Append(recorded, Record(item, m, "now"))
    BY <1>10 DEF KhrShown
  <2>2. /\ worker = "wait" /\ worker' = "drain" /\ item' = 0
        /\ UNCHANGED <<appVars, drvVars, reports, queue, notifying, googVars>>
    BY <1>10 DEF KhrShown
  <2>3. item \in Present  BY <1>i, <1>m, <2>2 DEF TimingInv, InHand, KhrOK
  <2>4. Record(item, m, "now") \in Noted  BY <2>3 DEF Record, Noted
  <2>5. NotesOK'  BY <1>i, <2>1, <2>4, AppendProperties DEF NotesOK
  <2>6. KhrOK' /\ WorkerOK'  BY <1>i, <1>m, <2>2 DEF KhrOK, WorkerOK, appVars
  <2>. QED  BY <1>j, <1>a, <1>d, <1>g, <2>2, <2>5, <2>6 DEF drvVars, appVars
<1>11. ASSUME KhrGivesUp \/ KhrDrained \/ KhrRecheck \/ KhrPark  PROVE TimingTypeOK'
  <2>1. /\ UNCHANGED <<appVars, drvVars, reports, queue, notifying, googVars, recorded>>
        /\ item' \in {item, 0} /\ worker' \in {"drain", "lock", "committed", "parked"}
    BY <1>11 DEF KhrGivesUp, KhrDrained, KhrRecheck, KhrPark, khrVars
  <2>2. KhrOK' /\ WorkerOK'  BY <1>i, <1>m, <2>1 DEF KhrOK, WorkerOK, appVars
  <2>. QED  BY <1>j, <1>a, <1>d, <1>g, <1>n, <2>1, <2>2 DEF drvVars, appVars
<1>12. ASSUME Snapshot \/ \E h \in Swapchains : PollNothing(h)  PROVE TimingTypeOK'
  <2>1. /\ UNCHANGED <<appVars, drvVars, reports, khrVars, pending, domain, sw, scratch, worker, recorded>>
        /\ todo' \subseteq Swapchains
    BY <1>12, <1>i DEF Snapshot, PollNothing, GoogOK
  <2>2. GoogOK'  BY <1>i, <2>1 DEF GoogOK, Watched
  <2>. QED  BY <1>j, <1>a, <1>d, <1>k, <1>w, <1>n, <2>1, <2>2 DEF drvVars, appVars
<1>13. ASSUME NEW h \in Swapchains, Poll(h)  PROVE TimingTypeOK'
  <2>1. /\ UNCHANGED <<appVars, drvVars, khrVars, pending, domain, recorded>>
        /\ todo' = todo \ {h} /\ sw' = h /\ worker' = "pair"
    BY <1>13 DEF Poll
  <2>2. PICK u \in Seq(Present) : scratch' \in Seq(Timed) /\ reports' = [reports EXCEPT ![life[h]] = u]
    BY <1>13, PollFacts
  <2>3. DisplayOK'  BY <1>i, <2>1, <2>2 DEF DisplayOK, drvVars, appVars
  <2>4. GoogOK' /\ WorkerOK'  BY <1>i, <2>1, <2>2 DEF GoogOK, WorkerOK, Watched
  <2>. QED  BY <1>j, <1>a, <1>k, <1>n, <2>1, <2>3, <2>4 DEF appVars
<1>. DEFINE Rest == /\ UNCHANGED <<life, lives, presents, caller, drvVars, reports, khrVars, todo>>
                    /\ scratch' = <<>> /\ sw' = NoSwapchain /\ worker' = "poll"
<1>14. ASSUME PairNothing  PROVE TimingTypeOK'
  <2>1. Rest /\ UNCHANGED <<pending, domain, recorded>>
        /\ slipped' = slipped \cup {presents[scratch[1].of].life}
    BY <1>14 DEF PairNothing
  <2>2. presents[scratch[1].of].life \in Life
    <3>1. scratch # <<>>  BY <1>14 DEF PairNothing, TimingInv, InHand
    <3>2. 1 \in DOMAIN scratch  BY <1>i, <3>1, EmptySeq, LenProperties DEF GoogOK
    <3>3. scratch[1].of \in In(Fetched)  BY <3>2 DEF In, Fetched
    <3>4. scratch[1].of \in 1 .. Len(presents)
      BY <1>i, <3>3 DEF TimingInv, RecordsRising, DisplayOK
    <3>. QED  BY <3>4, TypesAre
  <2>3. GoogOK' /\ WorkerOK'  BY <1>i, <2>1, EmptySeq DEF GoogOK, WorkerOK, Watched
  <2>4. AppOK'  BY <1>i, <2>1, <2>2 DEF AppOK
  <2>. QED  BY <1>j, <1>d, <1>k, <1>n, <2>1, <2>3, <2>4 DEF drvVars
<1>15. ASSUME Pair  PROVE TimingTypeOK'
  <2>a. PICK fifo \in Seq(Present) : fifo = pending[sw] /\ sw \in Watched
    BY <1>15, <1>i DEF Pair, GoogOK
  <2>b. PICK k \in Nat : k = Fewer(Len(fifo), Len(scratch)) /\ k <= Len(fifo) /\ k <= Len(scratch)
    BY <1>i, LenProperties DEF Fewer, GoogOK
  <2>c. PICK notes : notes = [i \in 1 .. k |-> Record(fifo[i], scratch[i].of, HostTime(scratch[i].time))]
    OBVIOUS
  <2>1. Rest /\ domain' = Validated /\ recorded' = recorded \o notes
        /\ pending' = [pending EXCEPT ![sw] = Unpaired(fifo, k)]
        /\ slipped' \in {slipped, slipped \cup {presents[scratch[1].of].life, life[sw]}}
    BY <1>15, <2>a, <2>b, <2>c DEF Pair
  <2>2. Unpaired(fifo, k) \in Seq(Present)
    <3>1. k \in 0 .. Len(fifo)  BY <2>b, LenProperties
    <3>2. PICK f : f = [i \in 1 .. k |-> fifo[i]]  OBVIOUS
    <3>3. PICK u : u = SubSeq(fifo, k + 1, Len(fifo)) /\ u = Unpaired(fifo, k)  BY DEF Unpaired
    <3>4. Split(fifo, k, f, u)  BY <3>1, <3>2, <3>3 DEF Split
    <3>. QED  BY <3>3, <3>4, InSplit
  <2>3. notes \in Seq(Noted)
    <3>1. ASSUME NEW i \in 1 .. k
          PROVE  Record(fifo[i], scratch[i].of, HostTime(scratch[i].time)) \in Noted
      <4>1. i \in 1 .. Len(fifo) /\ i \in 1 .. Len(scratch)  BY <2>b, LenProperties, <1>i DEF GoogOK
      <4>2. fifo[i] \in Present /\ scratch[i] \in Timed  BY <1>i, <4>1, ElementOfSeq DEF GoogOK
      <4>3. scratch[i].of \in Present /\ HostTime(scratch[i].time) \in Sample \cup {"now"}
        BY <4>2 DEF Timed, HostTime
      <4>. QED  BY <4>2, <4>3 DEF Record, Noted
    <3>. QED  BY <2>c, <3>1, SeqDef
  <2>4. NotesOK'  BY <1>i, <2>1, <2>3, ConcatProperties DEF NotesOK
  <2>5. Validated \in {"Unvalidated", "Monotonic", "Unknown"}
    <3>1. FirstTime \in Sample
      <4>1. DEFINE S == {i \in DOMAIN scratch : scratch[i].time # "zero"}
      <4>2. CASE S = {}  BY <4>2 DEF FirstTime, Sample
      <4>3. CASE S # {}
        <5>1. S \in SUBSET Nat  BY TypesAre
        <5>2. \E i \in S : \A j \in S : i <= j
          <6>. HIDE DEF S
          <6>. QED  BY <4>3, <5>1, LeastNatural
        <5>3. PICK c : c = CHOOSE i \in S : \A j \in S : i <= j  OBVIOUS
        <5>4. c \in S  BY <5>2, <5>3
        <5>5. FirstTime = scratch[c].time  BY <4>3, <5>3 DEF FirstTime
        <5>. QED  BY <5>4, <5>5, TypesAre
      <4>. QED  BY <4>2, <4>3
    <3>. QED  BY <1>i, <3>1 DEF Validated, Sample, GoogOK
  <2>6. pending' \in [Watched' -> Seq(Present)] /\ Watched' \subseteq Swapchains
    BY <1>i, <2>1, <2>2 DEF GoogOK, Watched
  <2>7. GoogOK' /\ WorkerOK'  BY <1>i, <2>1, <2>5, <2>6, EmptySeq DEF GoogOK, WorkerOK
  <2>8. {presents[scratch[1].of].life, life[sw]} \subseteq Life
    <3>1. scratch # <<>>  BY <1>15 DEF Pair, TimingInv, InHand
    <3>2. 1 \in DOMAIN scratch  BY <1>i, <3>1, EmptySeq, LenProperties DEF GoogOK
    <3>3. scratch[1].of \in In(Fetched)  BY <3>2 DEF In, Fetched
    <3>4. scratch[1].of \in 1 .. Len(presents)
      BY <1>i, <3>3 DEF TimingInv, RecordsRising, DisplayOK
    <3>5. life[sw] # 0 /\ sw \in Swapchains  BY <1>i, <2>a DEF TimingInv, IdsRising, GoogOK
    <3>. QED  BY <3>4, <3>5, TypesAre
  <2>9. AppOK'  BY <1>i, <2>1, <2>8 DEF AppOK
  <2>. QED  BY <1>j, <1>d, <1>k, <2>1, <2>4, <2>7, <2>9 DEF drvVars
<1>16. ASSUME UNCHANGED timingVars  PROVE TimingTypeOK'
  BY <1>16, <1>j, <1>a, <1>d, <1>k, <1>g, <1>w, <1>n DEF timingVars, appVars, drvVars
<1>. QED
  BY <1>1, <1>2, <1>3, <1>4, <1>5, <1>6, <1>7, <1>8, <1>9, <1>10, <1>11, <1>12, <1>13, <1>14, <1>15, <1>16
     DEF TimingNext, Khr, Google

-----------------------------------------------------------------------------
(* The swapchains, the workers' hands and the clock                         *)

LEMMA CalledStep ==
  ASSUME TimingInv, [TimingNext]_timingVars
  PROVE  Called'
<1>0. Called  BY DEF TimingInv
<1>t. /\ life \in [Swapchains -> 0 .. lives] /\ lives \in Nat /\ source' = source
      /\ Len(presents) \in Nat
      /\ \A n \in 1 .. Len(presents) :
           presents[n].handle \in Swapchains /\ presents[n].life \in Life /\ presents[n].life # 0
  <2>1. \A l \in Life : l # 0  BY DEF Life
  <2>. QED  BY <2>1, TypesAre, PresentsStay
<1>1. ASSUME NEW h \in Swapchains, create_swapchain(h)  PROVE Called'
  <2>1. /\ caller = 0 /\ life[h] = 0 /\ lives' = lives + 1 /\ life' = [life EXCEPT ![h] = lives + 1]
        /\ presents' = presents /\ caller' = caller /\ notifying' = notifying
    BY <1>1 DEF create_swapchain, khrVars
  <2>2. life'[h] = lives + 1 /\ \A g \in Swapchains : g # h => life'[g] = life[g]  BY <1>t, <2>1
  <2>3. \A g \in Swapchains : life[g] \in Nat /\ life[g] <= lives  BY <1>t
  <2>4. \A g, i \in Swapchains : life'[g] # 0 /\ life'[g] = life'[i] => g = i
    BY <1>0, <1>t, <2>2, <2>3 DEF Called
  <2>5. ASSUME NEW n \in 1 .. Len(presents)
        PROVE  /\ presents[n].id \in {0, n} /\ presents[n].life <= lives + 1
               /\ life'[presents[n].handle] # presents[n].life =>
                    \A i \in Swapchains : life'[i] # presents[n].life
    <3>1. presents[n].id \in {0, n} /\ presents[n].life <= lives
      BY <1>0 DEF Called
    <3>2. presents[n].life \in Nat  BY <1>t DEF Life
    <3>3. life'[h] # presents[n].life  BY <1>t, <2>2, <3>1, <3>2
    <3>4. ASSUME life'[presents[n].handle] # presents[n].life, NEW i \in Swapchains, i # h
          PROVE  life'[i] # presents[n].life
      <4>1. life[presents[n].handle] # presents[n].life  BY <1>t, <2>1, <2>2, <3>4
      <4>. QED  BY <1>0, <2>2, <3>4, <4>1 DEF Called
    <3>. QED  BY <1>t, <3>1, <3>2, <3>3, <3>4
  <2>. QED  BY <1>0, <1>t, <2>1, <2>4, <2>5 DEF Called
<1>2. ASSUME NEW h \in Swapchains, destroy_swapchain(h)  PROVE Called'
  <2>1. /\ caller = 0 /\ lives' = lives /\ life' = [life EXCEPT ![h] = 0]
        /\ presents' = presents /\ caller' = caller /\ notifying' = notifying
    BY <1>2 DEF destroy_swapchain, khrVars
  <2>2. life'[h] = 0 /\ \A g \in Swapchains : g # h => life'[g] = life[g]  BY <1>t, <2>1
  <2>3. \A g, i \in Swapchains : life'[g] # 0 /\ life'[g] = life'[i] => g = i
    BY <1>0, <2>2 DEF Called
  <2>4. ASSUME NEW n \in 1 .. Len(presents), life'[presents[n].handle] # presents[n].life,
               NEW i \in Swapchains
        PROVE  life'[i] # presents[n].life
    <3>1. CASE i = h  BY <1>t, <2>2, <3>1
    <3>2. CASE i # h
      <4>1. CASE presents[n].handle = h /\ life[h] = presents[n].life
        BY <1>0, <1>t, <2>2, <3>2, <4>1 DEF Called
      <4>2. CASE life[presents[n].handle] # presents[n].life
        BY <1>0, <2>2, <3>2, <4>2 DEF Called
      <4>. QED  BY <1>t, <2>2, <2>4, <4>1, <4>2
    <3>. QED  BY <3>1, <3>2
  <2>. QED  BY <1>0, <2>1, <2>3, <2>4 DEF Called
<1>3. ASSUME NEW h \in Swapchains, NEW id \in {0, Len(presents) + 1}, NEW ok \in BOOLEAN,
             queue_present(h, id, ok)
      PROVE  Called'
  <2>1. PICK n \in Nat : n = Len(presents) + 1  BY <1>t
  <2>2. PICK e : e = [handle |-> h, life |-> life[h], id |-> id, ok |-> ok]  OBVIOUS
  <2>3. /\ caller = 0 /\ life[h] # 0 /\ n <= MaxPresents /\ presents' = Append(presents, e)
        /\ caller' = n /\ life' = life /\ lives' = lives /\ notifying' = notifying
    BY <1>3, <2>1, <2>2 DEF queue_present, khrVars
  <2>4. /\ Len(presents') = n /\ presents'[n] = e
        /\ \A m \in 1 .. Len(presents) : presents'[m] = presents[m]
    <3>1. PICK D : presents \in Seq(D) /\ e \in D
      <4>1. presents \in Seq(Carried \cup {e})  BY TypesAre, SeqDef
      <4>. QED  BY <4>1
    <3>. QED  BY <2>1, <2>3, <3>1, AppendProperties
  <2>5. ASSUME NEW m \in 1 .. n
        PROVE  /\ presents'[m].id \in {0, m} /\ presents'[m].life <= lives
               /\ life[presents'[m].handle] # presents'[m].life =>
                    \A i \in Swapchains : life[i] # presents'[m].life
    <3>1. CASE m = n  BY <1>t, <2>1, <2>2, <2>4, <3>1
    <3>2. CASE m \in 1 .. Len(presents)  BY <1>0, <2>4, <3>2 DEF Called
    <3>. QED  BY <2>1, <3>1, <3>2
  <2>6. life[presents'[n].handle] = presents'[n].life  BY <2>2, <2>4
  <2>7. ~notifying'  BY <1>0, <2>3, Zenon DEF Called
  <2>. QED  BY <1>0, <2>3, <2>4, <2>5, <2>6, <2>7 DEF Called
<1>4. ASSUME UNCHANGED <<life, lives, presents>>, caller' = 0, ~notifying'  PROVE Called'
  BY <1>0, <1>4 DEF Called
<1>5. ASSUME UNCHANGED <<life, lives, presents, caller>>,
             notifying' => source = "khr" /\ caller # 0 /\ presents[caller].id # 0
      PROVE  Called'
  BY <1>0, <1>t, <1>5 DEF Called
<1>6. CASE NothingToEnqueue \/ notify_khr \/ enqueue_google
  <2>1. UNCHANGED <<life, lives, presents>> /\ caller' = 0
    BY <1>6 DEF NothingToEnqueue, notify_khr, enqueue_google
  <2>2. ~notifying'
    BY <1>6, <1>0, Zenon DEF NothingToEnqueue, HasId, notify_khr, enqueue_google, khrVars, Called
  <2>. QED  BY <1>4, <2>1, <2>2
<1>7. CASE enqueue_khr
  <2>1. UNCHANGED <<life, lives, presents, caller>> /\ source = "khr" /\ caller # 0 /\ presents[caller].id # 0
    BY <1>7 DEF enqueue_khr, appVars, HasId
  <2>. QED  BY <1>5, <2>1
<1>8. CASE (\E n \in 1 .. Len(presents) : Show(n)) \/ Khr \/ Google \/ UNCHANGED timingVars
  <2>1. UNCHANGED <<life, lives, presents, caller>> /\ notifying' = notifying
    BY <1>8 DEF timingVars, appVars, drvVars, khrVars, googVars, Show, Khr, KhrPop, KhrShown,
         KhrGivesUp, KhrDrained, KhrRecheck, KhrPark, Google, Snapshot, PollNothing, Poll, Pair, PairNothing
  <2>2. notifying' => source = "khr" /\ caller # 0 /\ presents[caller].id # 0
    BY <1>0, <2>1, Zenon DEF Called
  <2>. QED  BY <1>5, <2>1, <2>2
<1>. QED  BY <1>1, <1>2, <1>3, <1>6, <1>7, <1>8 DEF TimingNext

LEMMA InHandStep ==
  ASSUME TimingInv, [TimingNext]_timingVars
  PROVE  InHand'
<1>0. InHand /\ source' = source /\ source \in {"khr", "google"}  BY PresentsStay DEF TimingInv, TimingTypeOK
<1>1. ASSUME UNCHANGED <<worker, scratch, sw, item>>, source = "khr" => Watched' = {}
      PROVE  InHand'
  BY <1>0, <1>1 DEF InHand
<1>2. CASE \E h \in Swapchains : destroy_swapchain(h)
  <2>1. Watched' \subseteq Watched /\ UNCHANGED <<worker, scratch, sw, item>>
    BY <1>2 DEF destroy_swapchain, Forgotten, Without, Watched, khrVars
  <2>. QED  BY <1>0, <1>1, <2>1 DEF InHand
<1>3. CASE enqueue_google
  <2>1. source = "google" /\ UNCHANGED <<worker, scratch, sw, item>>
    BY <1>3 DEF enqueue_google, khrVars
  <2>. QED  BY <1>1, <2>1
<1>4. ASSUME source = "khr", UNCHANGED googVars, worker' \notin {"poll", "pair"},
             item' # 0 <=> worker' = "wait"
      PROVE  InHand'
  BY <1>0, <1>4 DEF InHand, googVars, Watched
<1>5. CASE notify_khr
  <2>1. source = "khr"  BY <1>5 DEF notify_khr, TimingInv, Called
  <2>2. /\ UNCHANGED googVars /\ item' = item
        /\ worker' = IF worker = "parked" THEN "drain" ELSE worker
    BY <1>5 DEF notify_khr
  <2>3. worker \notin {"poll", "pair"} /\ (item # 0 <=> worker = "wait")  BY <1>0, <2>1 DEF InHand
  <2>4. worker' \notin {"poll", "pair"}  BY <2>2, <2>3
  <2>5. item' # 0 <=> worker' = "wait"  BY <2>2, <2>3
  <2>. QED  BY <1>4, <2>1, <2>2, <2>4, <2>5
<1>6. CASE Khr
  <2>1. source = "khr"
    BY <1>0, <1>6 DEF Khr, KhrPop, KhrShown, KhrGivesUp, KhrDrained, KhrRecheck, KhrPark, InHand
  <2>2. UNCHANGED googVars /\ worker' \notin {"poll", "pair"}
    BY <1>6 DEF Khr, KhrPop, KhrShown, KhrGivesUp, KhrDrained, KhrRecheck, KhrPark
  <2>3. item' # 0 <=> worker' = "wait"
    <3>1. CASE KhrPop
      <4>1. queue \in Seq(Present) /\ queue # <<>> /\ item' = Head(queue) /\ worker' = "wait"
        BY <3>1, TypesAre DEF KhrPop
      <4>2. Head(queue) \in Present  BY <4>1, HeadTailProperties
      <4>. QED  BY <4>1, <4>2 DEF Present
    <3>2. CASE ~KhrPop
      BY <1>0, <1>6, <3>2 DEF Khr, KhrShown, KhrGivesUp, KhrDrained, KhrRecheck, KhrPark, khrVars, InHand
    <3>. QED  BY <3>1, <3>2
  <2>. QED  BY <1>4, <2>1, <2>2, <2>3
<1>7. CASE Snapshot \/ \E h \in Swapchains : PollNothing(h)
  <2>1. UNCHANGED <<worker, scratch, sw, item, pending>>
    BY <1>7 DEF Snapshot, PollNothing, khrVars
  <2>. QED  BY <1>0, <1>1, <2>1 DEF InHand, Watched
<1>8. ASSUME NEW h \in Swapchains, Poll(h)  PROVE InHand'
  <2>1. worker = "poll" /\ worker' = "pair" /\ sw' = h /\ item' = item
    BY <1>8 DEF Poll, khrVars
  <2>2. scratch' # <<>>  BY <1>8, PollFacts
  <2>3. source = "google" /\ item = 0  BY <1>0, <2>1 DEF InHand
  <2>. QED  BY <1>0, <2>1, <2>2, <2>3 DEF InHand
<1>9. CASE Pair \/ PairNothing
  <2>1. worker = "pair" /\ worker' = "poll" /\ scratch' = <<>> /\ item' = item
    BY <1>9 DEF Pair, PairNothing, khrVars
  <2>2. source = "google" /\ item = 0  BY <1>0, <2>1 DEF InHand
  <2>. QED  BY <1>0, <2>1, <2>2 DEF InHand
<1>10. CASE \/ \E h \in Swapchains :
                 \/ create_swapchain(h)
                 \/ \E id \in {0, Len(presents) + 1}, ok \in BOOLEAN : queue_present(h, id, ok)
            \/ NothingToEnqueue \/ enqueue_khr \/ (\E n \in 1 .. Len(presents) : Show(n))
            \/ UNCHANGED timingVars
  <2>1. UNCHANGED <<worker, scratch, sw, item, pending>>
    BY <1>10 DEF create_swapchain, queue_present, NothingToEnqueue, enqueue_khr, Show, timingVars,
                 khrVars, googVars
  <2>. QED  BY <1>0, <1>1, <2>1 DEF InHand, Watched
<1>. QED
  BY <1>2, <1>3, <1>5, <1>6, <1>7, <1>8, <1>9, <1>10 DEF TimingNext, Google

\* What the worker pairs: the first k ids, f, with the first k records.
Pairs(fifo, k, f, u, notes) ==
  /\ sw \in Watched /\ sw \in Swapchains /\ fifo = pending[sw]
  /\ k = Fewer(Len(fifo), Len(scratch)) /\ k <= Len(fifo) /\ k <= Len(scratch)
  /\ f = [i \in 1 .. k |-> fifo[i]] /\ In(fifo) = In(f) \cup In(u)
  /\ Rising(fifo) => Rising(f) /\ Rising(u) /\ \A x \in In(f), y \in In(u) : x < y
  /\ pending' = [pending EXCEPT ![sw] = u]
  /\ DOMAIN recorded \subseteq DOMAIN recorded'
  /\ \A i \in DOMAIN recorded : recorded'[i] = recorded[i]
  /\ \A j \in DOMAIN recorded' :
       \/ j \in DOMAIN recorded
       \/ \E i \in 1 .. k : j = Len(recorded) + i /\ recorded'[j] = notes[i]
  /\ \A i \in 1 .. k :
       /\ i \in DOMAIN fifo /\ i \in DOMAIN scratch
       /\ notes[i] = Record(fifo[i], scratch[i].of, HostTime(scratch[i].time))
       /\ fifo[i] \in In(f)

LEMMA PairFacts ==
  ASSUME TimingInv, Pair
  PROVE  \E fifo \in Seq(Present), k \in Nat, f \in Seq(Present), u \in Seq(Present) :
           \E notes : Pairs(fifo, k, f, u, notes)
<1>t. /\ pending \in [Watched -> Seq(Present)] /\ Watched \subseteq Swapchains
      /\ scratch \in Seq(Timed) /\ DOMAIN scratch = 1 .. Len(scratch) /\ Len(scratch) \in Nat
      /\ recorded \in Seq(Noted) /\ DOMAIN recorded = 1 .. Len(recorded) /\ Len(recorded) \in Nat
  BY TypesAre
<1>1. PICK fifo \in Seq(Present) : fifo = pending[sw] /\ sw \in Watched
  BY <1>t DEF Pair
<1>2. PICK m \in Nat : m = Len(fifo) /\ DOMAIN fifo = 1 .. m  BY LenProperties
<1>3. PICK k \in Nat : k = Fewer(Len(fifo), Len(scratch)) /\ k <= m /\ k <= Len(scratch)
  <2>1. PICK n \in Nat : n = Len(scratch)  BY <1>t
  <2>2. PICK k \in Nat : k = Fewer(m, n) /\ k <= m /\ k <= n  BY DEF Fewer
  <2>. QED  BY <1>2, <2>1, <2>2
<1>4. PICK notes : notes = [i \in 1 .. k |-> Record(fifo[i], scratch[i].of, HostTime(scratch[i].time))]
  OBVIOUS
<1>5. PICK f : f = [i \in 1 .. k |-> fifo[i]]  OBVIOUS
<1>6. PICK u : u = SubSeq(fifo, k + 1, Len(fifo))  OBVIOUS
<1>7. recorded' = recorded \o notes /\ pending' = [pending EXCEPT ![sw] = u]
  BY <1>1, <1>3, <1>4, <1>6 DEF Pair, Unpaired
<1>8. /\ u \in Seq(Present) /\ f \in Seq(Present) /\ In(fifo) = In(f) \cup In(u)
      /\ Rising(fifo) => Rising(f) /\ Rising(u) /\ \A x \in In(f), y \in In(u) : x < y
  <2>1. k \in 0 .. Len(fifo)  BY <1>2, <1>3
  <2>2. Split(fifo, k, f, u)  BY <1>5, <1>6, <2>1 DEF Split
  <2>. QED  BY <2>2, InSplit
<1>9. \A i \in 1 .. k : fifo[i] \in In(f)  BY <1>5 DEF In
<1>10. \A i \in 1 .. k : i \in DOMAIN fifo /\ i \in DOMAIN scratch  BY <1>t, <1>2, <1>3
<1>11. PICK R : notes \in Seq(R) /\ recorded \in Seq(R)
  <2>1. notes \in Seq(Noted \cup {notes[i] : i \in 1 .. k})  BY <1>3, <1>4, SeqDef
  <2>2. recorded \in Seq(Noted \cup {notes[i] : i \in 1 .. k})  BY <1>t, SeqDef
  <2>. QED  BY <2>1, <2>2
<1>12. Len(notes) = k
  <2>1. DOMAIN notes = 1 .. k /\ DOMAIN notes = 1 .. Len(notes) /\ Len(notes) \in Nat
    BY <1>4, <1>11, LenProperties
  <2>. QED  BY <1>3, <2>1
<1>13. PICK r \in Nat : r = Len(recorded) /\ DOMAIN recorded = 1 .. r  BY <1>t
<1>14. /\ DOMAIN recorded' = 1 .. r + k
       /\ \A i \in 1 .. r + k : recorded'[i] = IF i <= r THEN recorded[i] ELSE notes[i - r]
  BY <1>7, <1>11, <1>12, <1>13, ConcatProperties, LenProperties
<1>15. \A i \in DOMAIN recorded : i \in DOMAIN recorded' /\ recorded'[i] = recorded[i]
  BY <1>13, <1>14, <1>3
<1>16. ASSUME NEW j \in DOMAIN recorded', j \notin DOMAIN recorded
       PROVE  \E i \in 1 .. k : j = r + i /\ recorded'[j] = notes[i]
  <2>1. j - r \in 1 .. k /\ j = r + (j - r) /\ ~(j <= r)  BY <1>3, <1>13, <1>14, <1>16
  <2>. QED  BY <1>14, <2>1
<1>17. Pairs(fifo, k, f, u, notes)
  <2>1. sw \in Swapchains /\ k <= Len(fifo)  BY <1>t, <1>1, <1>2, <1>3
  <2>2. \A j \in DOMAIN recorded' :
          \/ j \in DOMAIN recorded
          \/ \E i \in 1 .. k : j = Len(recorded) + i /\ recorded'[j] = notes[i]
    BY <1>13, <1>16
  <2>3. \A i \in 1 .. k : notes[i] = Record(fifo[i], scratch[i].of, HostTime(scratch[i].time))
    BY <1>4
  <2>4. DOMAIN recorded \subseteq DOMAIN recorded'  BY <1>15
  <2>. QED  BY <1>1, <1>3, <1>5, <1>7, <1>8, <1>9, <1>10, <1>15, <2>1, <2>2, <2>3, <2>4, Zenon DEF Pairs
<1>. QED  BY <1>3, <1>8, <1>17, Zenon

LEMMA KhrNoted ==
  ASSUME TimingInv, KhrShown
  PROVE  \E m \in Present :
           /\ DOMAIN recorded \subseteq DOMAIN recorded' /\ item \in Present
           /\ \A i \in DOMAIN recorded : recorded'[i] = recorded[i]
           /\ \A j \in DOMAIN recorded' :
                \/ j \in DOMAIN recorded
                \/ j = Len(recorded) + 1 /\ recorded'[j] = Record(item, m, "now")
<1>1. PICK m \in Present : recorded' = Append(recorded, Record(item, m, "now"))
  BY DEF KhrShown
<1>2. /\ recorded \in Seq(Noted) /\ DOMAIN recorded = 1 .. Len(recorded) /\ Len(recorded) \in Nat
  BY TypesAre
<1>3. item \in Present
  <2>1. item # 0 /\ item \in 0 .. Len(presents)  BY DEF KhrShown, TimingInv, InHand, TimingTypeOK
  <2>. QED  BY <2>1, TypesAre, SMTT(40)
<1>4. Record(item, m, "now") \in Noted  BY <1>3 DEF Record, Noted
<1>5. PICK e : e = Record(item, m, "now")  OBVIOUS
<1>6. PICK r \in Nat : r = Len(recorded)  BY <1>2
<1>7. /\ DOMAIN recorded' = 1 .. r + 1 /\ recorded'[r + 1] = e
      /\ \A i \in 1 .. r : recorded'[i] = recorded[i]
  <2>1. recorded' = Append(recorded, e) /\ e \in Noted  BY <1>1, <1>4, <1>5
  <2>. QED  BY <1>2, <1>6, <2>1, AppendProperties, LenProperties
<1>8. \A j \in 1 .. r + 1 : j \in 1 .. r \/ j = r + 1  OBVIOUS
<1>. QED  BY <1>2, <1>3, <1>5, <1>6, <1>7, <1>8

LEMMA ClockStep ==
  ASSUME TimingInv, [TimingNext]_timingVars
  PROVE  ClockRead'
<1>0. /\ ClockRead /\ monotonic' = monotonic /\ Samples' = Samples
      /\ domain \in {"Unvalidated", "Monotonic", "Unknown"}
  BY PresentsStay, SMTT(40) DEF TimingInv, Samples, TimingTypeOK
<1>1. ASSUME UNCHANGED domain, UNCHANGED scratch \/ \A i \in DOMAIN scratch' : scratch'[i].time \in Samples,
             UNCHANGED recorded \/ \A i \in DOMAIN recorded' : recorded'[i].time # "far"
      PROVE  ClockRead'
  BY <1>0, <1>1 DEF ClockRead
<1>2. CASE KhrShown
  <2>1. PICK m \in Present : /\ \A i \in DOMAIN recorded : recorded'[i] = recorded[i]
           /\ \A j \in DOMAIN recorded' :
                \/ j \in DOMAIN recorded
                \/ j = Len(recorded) + 1 /\ recorded'[j] = Record(item, m, "now")
    BY <1>2, KhrNoted
  <2>2. \A j \in DOMAIN recorded' : recorded'[j].time # "far"
    BY <1>0, <2>1 DEF ClockRead, Record
  <2>3. UNCHANGED <<domain, scratch>>  BY <1>2 DEF KhrShown, googVars
  <2>. QED  BY <1>1, <2>2, <2>3
<1>3. ASSUME NEW h \in Swapchains, Poll(h)  PROVE ClockRead'
  <2>1. \A i \in DOMAIN scratch' : scratch'[i].time \in Samples
    <3>0. PICK f \in Seq(Present) : \E time :
           /\ scratch' = [i \in 1 .. Len(f) |-> [of |-> f[i], time |-> time[i]]]
           /\ \A i \in 1 .. Len(f) : time[i] \in Samples
      BY <1>3, PollFacts
    <3>1. PICK time :
           /\ scratch' = [i \in 1 .. Len(f) |-> [of |-> f[i], time |-> time[i]]]
           /\ \A i \in 1 .. Len(f) : time[i] \in Samples
      BY <3>0
    <3>. QED  BY <3>1
  <2>2. UNCHANGED <<domain, recorded>>  BY <1>3 DEF Poll
  <2>. QED  BY <1>1, <2>1, <2>2
<1>4. CASE PairNothing
  <2>1. UNCHANGED <<domain, recorded>> /\ scratch' = <<>>  BY <1>4 DEF PairNothing
  <2>2. DOMAIN scratch' = {}  BY <2>1
  <2>. QED  BY <1>1, <2>1, <2>2
<1>5. CASE Pair
  <2>1. FirstTime = "zero" \/ FirstTime \in Samples
    <3> DEFINE S == {i \in DOMAIN scratch : scratch[i].time # "zero"}
    <3>1. CASE S = {}  BY <3>1 DEF FirstTime
    <3>2. CASE S # {}
      <4>1. S \in SUBSET Nat  BY TypesAre
      <4>2. \E i \in S : \A j \in S : i <= j
        <5>. HIDE DEF S
        <5>. QED  BY <3>2, <4>1, LeastNatural
      <4>3. PICK c : c = CHOOSE i \in S : \A j \in S : i <= j  OBVIOUS
      <4>4. c \in S  BY <4>2, <4>3
      <4>5. FirstTime = scratch[c].time  BY <3>2, <4>3 DEF FirstTime
      <4>. QED  BY <1>0, <4>4, <4>5 DEF ClockRead
    <3>. QED  BY <3>1, <3>2
  <2>2. Validated = "Monotonic" => monotonic
    BY <1>0, <2>1 DEF Validated, ClockRead, Samples
  <2>3. Validated = "Unknown" => ~monotonic
    BY <1>0, <2>1 DEF Validated, ClockRead, Samples
  <2>4. domain' = Validated /\ scratch' = <<>>  BY <1>5 DEF Pair
  <2>e. PICK fifo \in Seq(Present), k \in Nat, f \in Seq(Present), u \in Seq(Present) :
          \E notes : Pairs(fifo, k, f, u, notes)
    BY <1>5, PairFacts
  <2>p. PICK notes : Pairs(fifo, k, f, u, notes)  BY <2>e
  <2>5. /\ \A i \in DOMAIN recorded : recorded'[i] = recorded[i]
        /\ \A j \in DOMAIN recorded' :
             \/ j \in DOMAIN recorded
             \/ \E i \in 1 .. k : j = Len(recorded) + i /\ recorded'[j] = notes[i]
        /\ \A i \in 1 .. k :
             /\ i \in DOMAIN scratch
             /\ notes[i] = Record(fifo[i], scratch[i].of, HostTime(scratch[i].time))
    BY <2>p, Zenon DEF Pairs
  <2>6. ASSUME NEW i \in 1 .. k  PROVE notes[i].time # "far"
    <3>1. scratch[i].time \in Samples  BY <1>0, <2>5 DEF ClockRead
    <3>2. HostTime(scratch[i].time) # "far"  BY <2>2, <3>1 DEF HostTime, Samples
    <3>3. notes[i] = Record(fifo[i], scratch[i].of, HostTime(scratch[i].time))  BY <2>5
    <3>. QED  BY <3>2, <3>3 DEF Record
  <2>7. \A j \in DOMAIN recorded' : recorded'[j].time # "far"  BY <1>0, <2>5, <2>6 DEF ClockRead
  <2>8. DOMAIN scratch' = {}  BY <2>4
  <2>. QED  BY <1>0, <2>2, <2>3, <2>4, <2>7, <2>8 DEF ClockRead
<1>6. CASE \/ \E h \in Swapchains :
                \/ create_swapchain(h) \/ destroy_swapchain(h)
                \/ \E id \in {0, Len(presents) + 1}, ok \in BOOLEAN : queue_present(h, id, ok)
           \/ NothingToEnqueue \/ enqueue_khr \/ notify_khr \/ enqueue_google
           \/ (\E n \in 1 .. Len(presents) : Show(n))
           \/ KhrPop \/ KhrGivesUp \/ KhrDrained \/ KhrRecheck \/ KhrPark
           \/ Snapshot \/ (\E h \in Swapchains : PollNothing(h)) \/ UNCHANGED timingVars
  <2>1. UNCHANGED <<domain, scratch, recorded>>
    BY <1>6 DEF create_swapchain, destroy_swapchain, queue_present, NothingToEnqueue, enqueue_khr,
         notify_khr, enqueue_google, Show, KhrPop, KhrGivesUp, KhrDrained, KhrRecheck, KhrPark,
         Snapshot, PollNothing, timingVars, googVars
  <2>. QED  BY <1>1, <2>1
<1>. QED  BY <1>2, <1>3, <1>4, <1>5, <1>6 DEF TimingNext, Khr, Google

-----------------------------------------------------------------------------
(* The queues                                                               *)

\* Of a rising sequence that is not empty, the head comes before the tail.
LEMMA HeadFirst ==
  ASSUME NEW s \in Seq(Present), s # <<>>
  PROVE  /\ Head(s) \in Present /\ Tail(s) \in Seq(Present)
         /\ In(s) = In(Tail(s)) \cup {Head(s)}
         /\ Rising(s) => Rising(Tail(s)) /\ \A n \in In(Tail(s)) : Head(s) < n
<1>1. PICK m \in Nat : m = Len(s) /\ m # 0 /\ DOMAIN s = 1 .. m
  <2>1. Len(s) \in Nat \ {0}  BY EmptySeq
  <2>. QED  BY <2>1, LenProperties
<1>2. PICK t \in Seq(Present) : t = Tail(s)  BY HeadTailProperties
<1>3. DOMAIN t = 1 .. m - 1 /\ \A i \in 1 .. m - 1 : t[i] = s[i + 1]
  <2>1. Len(t) = m - 1 /\ \A i \in 1 .. Len(t) : t[i] = s[i + 1]  BY <1>1, <1>2, HeadTailProperties
  <2>. QED  BY <2>1, LenProperties
<1>4. PICK e \in Present : e = Head(s) /\ e = s[1]
  <2>1. 1 \in 1 .. Len(s)  BY <1>1
  <2>2. s[1] \in Present  BY <2>1, ElementOfSeq
  <2>. QED  BY <2>2
<1>5. \A i \in 1 .. m : i = 1 \/ (i - 1 \in 1 .. m - 1 /\ (i - 1) + 1 = i)  OBVIOUS
<1>6. \A i \in 1 .. m - 1 : i + 1 \in 1 .. m /\ 1 < i + 1  BY <1>1
<1>7. In(s) = In(t) \cup {e}
  <2>1. ASSUME NEW x \in In(s)  PROVE x \in In(t) \cup {e}
    <3>1. PICK i \in 1 .. m : x = s[i]  BY <1>1 DEF In
    <3>2. CASE i = 1  BY <1>4, <3>1, <3>2
    <3>3. CASE i - 1 \in 1 .. m - 1 /\ (i - 1) + 1 = i
      <4>1. t[i - 1] = x  BY <1>3, <3>1, <3>3
      <4>. QED  BY <1>3, <3>3, <4>1 DEF In
    <3>. QED  BY <1>5, <3>2, <3>3
  <2>2. In(t) \subseteq In(s)  BY <1>1, <1>3, <1>6 DEF In
  <2>3. e \in In(s)  BY <1>1, <1>4 DEF In
  <2>. QED  BY <2>1, <2>2, <2>3
<1>8. ASSUME Rising(s)  PROVE Rising(t) /\ \A n \in In(t) : e < n
  <2>1. ASSUME NEW i \in 1 .. m - 1, NEW j \in 1 .. m - 1, i < j  PROVE t[i] < t[j]
    <3>1. i + 1 < j + 1  BY <1>1, <2>1
    <3>. QED  BY <1>1, <1>3, <1>6, <1>8, <3>1 DEF Rising
  <2>2. ASSUME NEW i \in 1 .. m - 1  PROVE e < t[i]
    <3>1. 1 \in 1 .. m  BY <1>1
    <3>. QED  BY <1>1, <1>3, <1>4, <1>6, <1>8, <3>1 DEF Rising
  <2>. QED  BY <1>3, <2>1, <2>2 DEF Rising, In
<1>. QED  BY <1>2, <1>4, <1>7, <1>8

LEMMA QueueStep ==
  ASSUME TimingInv, [TimingNext]_timingVars
  PROVE  QueueRising'
<1>0. source' = source /\ queue \in Seq(Present)  BY PresentsStay, TypesAre
<1>. SUFFICES ASSUME source = "khr" PROVE QueueRising'
  BY <1>0 DEF QueueRising
<1>i. /\ Rising(queue) /\ \A n \in In(queue) : Past(n)
      /\ item # 0 => Past(item) /\ \A n \in In(queue) : item < n
      /\ \A i \in DOMAIN recorded :
           /\ item # 0 => recorded[i].for < item
           /\ \A n \in In(queue) : recorded[i].for < n
      /\ \A i \in DOMAIN recorded : Past(recorded[i].for)
  BY DEF TimingInv, QueueRising, RecordedPast
<1>p. \A n : Past(n) => Past(n)'  BY PastStays
<1>w. worker \notin {"poll", "pair"}  BY DEF TimingInv, InHand
<1>1. ASSUME queue' = queue, UNCHANGED recorded, item' = 0 \/ item' = item
      PROVE  QueueRising'
  <2>1. Rising(queue') /\ \A n \in In(queue') : Past(n)'  BY <1>i, <1>p, <1>1
  <2>2. item' # 0 => Past(item)' /\ \A n \in In(queue') : item' < n  BY <1>i, <1>p, <1>1
  <2>3. \A i \in DOMAIN recorded' :
           /\ item' # 0 => recorded'[i].for < item'
           /\ \A n \in In(queue') : recorded'[i].for < n
    BY <1>i, <1>1
  <2>. QED  BY <2>1, <2>2, <2>3 DEF QueueRising
<1>2. CASE enqueue_khr
  <2>1. /\ caller # 0 /\ ~notifying /\ queue' = Append(queue, caller) /\ notifying' /\ caller' = caller
        /\ presents' = presents /\ item' = item /\ recorded' = recorded
    BY <1>2, Zenon DEF enqueue_khr, appVars
  <2>2. caller \in Present /\ caller \in 1 .. Len(presents)
    <3>1. caller \in 0 .. Len(presents) /\ Len(presents) \in 0 .. MaxPresents /\ 1 .. Len(presents) \subseteq Present
          /\ MaxPresents \in Nat
      BY TypesAre
    <3>. QED  BY <2>1, <3>1
  <2>3. \A n : Past(n) => n < caller  BY <2>1 DEF Past
  <2>4. /\ In(queue') = In(queue) \cup {caller} /\ Rising(queue')
    <3>1. \A n \in In(queue) : n < caller  BY <1>i, <2>3
    <3>. QED  BY <1>0, <1>i, <2>1, <2>2, <3>1, InAppend
  <2>5. PICK e : e = caller  OBVIOUS
  <2>6. \A n \in In(queue') : Past(n)'
    <3>1. Past(e)'  BY <2>1, <2>2, <2>5 DEF Past
    <3>2. ASSUME NEW n \in In(queue')  PROVE n \in In(queue) \/ n = e  BY <2>4, <2>5
    <3>. QED  BY <1>i, <1>p, <3>1, <3>2
  <2>7. item' # 0 => Past(item)' /\ \A n \in In(queue') : item' < n
    <3>1. ASSUME item # 0 PROVE Past(item) /\ \A n \in In(queue) : item < n  BY <1>i, <3>1
    <3>2. ASSUME item # 0 PROVE Past(item)' /\ \A n \in In(queue') : item < n
      BY <1>p, <2>1, <2>3, <2>4, <3>1, <3>2
    <3>. QED  BY <2>1, <3>2
  <2>8. \A i \in DOMAIN recorded' :
           /\ item' # 0 => recorded'[i].for < item'
           /\ \A n \in In(queue') : recorded'[i].for < n
    BY <1>i, <2>1, <2>3, <2>4
  <2>. QED  BY <2>4, <2>6, <2>7, <2>8 DEF QueueRising
<1>3. CASE KhrPop
  <2>1. /\ worker = "drain" /\ queue # <<>> /\ item' = Head(queue) /\ queue' = Tail(queue) /\ recorded' = recorded
    BY <1>3 DEF KhrPop
  <2>2. /\ item' \in Present /\ In(queue) = In(queue') \cup {item'} /\ Rising(queue')
        /\ \A n \in In(queue') : item' < n
    BY <1>0, <1>i, <2>1, HeadFirst
  <2>3. /\ \A n \in In(queue') : Past(n)'
        /\ Past(item)'
        /\ \A i \in DOMAIN recorded' :
           /\ recorded'[i].for < item'
           /\ \A n \in In(queue') : recorded'[i].for < n
    <3>1. PICK q : q = queue' /\ In(queue) = In(q) \cup {item'}  BY <2>2
    <3>2. item' \in In(queue) /\ In(q) \subseteq In(queue)  BY <3>1
    <3>3. \A n \in In(q) : Past(n)'  BY <1>i, <1>p, <3>2
    <3>4. Past(item)'
      <4>1. PICK e : e = item' /\ e \in In(queue)  BY <3>2
      <4>2. Past(e)'  BY <1>i, <1>p, <4>1
      <4>. QED  BY <4>1, <4>2 DEF Past
    <3>. QED  BY <1>i, <2>1, <3>1, <3>2, <3>3, <3>4
  <2>. QED  BY <2>2, <2>3 DEF QueueRising
<1>4. CASE KhrShown
  <2>1. PICK m \in Present : /\ \A i \in DOMAIN recorded : recorded'[i] = recorded[i]
           /\ \A j \in DOMAIN recorded' :
                \/ j \in DOMAIN recorded
                \/ j = Len(recorded) + 1 /\ recorded'[j] = Record(item, m, "now")
    BY <1>4, KhrNoted
  <2>2. item # 0 /\ item' = 0 /\ queue' = queue  BY <1>4 DEF KhrShown, TimingInv, InHand
  <2>3. \A j \in DOMAIN recorded', n \in In(queue') : recorded'[j].for < n
    BY <1>i, <2>1, <2>2 DEF Record
  <2>4. Rising(queue') /\ \A n \in In(queue') : Past(n)'  BY <1>i, <1>p, <2>2
  <2>. QED  BY <2>2, <2>3, <2>4 DEF QueueRising
<1>5. CASE \/ \E h \in Swapchains :
                \/ create_swapchain(h) \/ destroy_swapchain(h)
                \/ \E id \in {0, Len(presents) + 1}, ok \in BOOLEAN : queue_present(h, id, ok)
           \/ NothingToEnqueue \/ notify_khr \/ (\E n \in 1 .. Len(presents) : Show(n))
           \/ KhrGivesUp \/ KhrDrained \/ KhrRecheck \/ KhrPark \/ UNCHANGED timingVars
  <2>1. queue' = queue /\ UNCHANGED recorded /\ (item' = 0 \/ item' = item)
    BY <1>5 DEF create_swapchain, destroy_swapchain, queue_present, NothingToEnqueue,
         notify_khr, Show, KhrGivesUp, KhrDrained, KhrRecheck, KhrPark, timingVars, khrVars
  <2>. QED  BY <1>1, <2>1
<1>6. ~(enqueue_google \/ Pair \/ PairNothing \/ \E h \in Swapchains : Poll(h))
  BY <1>w DEF enqueue_google, Pair, PairNothing, Poll
<1>7. ASSUME Snapshot \/ \E h \in Swapchains : PollNothing(h)  PROVE QueueRising'
  BY <1>w, <1>7 DEF Snapshot, PollNothing
<1>. QED  BY <1>2, <1>3, <1>4, <1>5, <1>6, <1>7 DEF TimingNext, Khr, Google

LEMMA IdsStep ==
  ASSUME TimingInv, [TimingNext]_timingVars
  PROVE  IdsRising'
<1>t. /\ life \in [Swapchains -> 0 .. lives] /\ lives \in Nat /\ Watched \subseteq Swapchains
      /\ pending \in [Watched -> Seq(Present)]
      /\ \A n : Past(n) => n \in 1 .. Len(presents) /\ presents'[n] = presents[n]
      /\ \A n : Past(n) => Past(n)'
      /\ source = "google" \/ source = "khr"
  <2>1. \A n : Past(n) => n \in 1 .. Len(presents) /\ presents'[n] = presents[n]
    BY PresentsStay DEF Past
  <2>2. \A n : Past(n) => Past(n)'  BY PastStays
  <2>3. source = "google" \/ source = "khr"  BY DEF TimingInv, TimingTypeOK
  <2>4. /\ life \in [Swapchains -> 0 .. lives] /\ lives \in Nat /\ Watched \subseteq Swapchains
        /\ pending \in [Watched -> Seq(Present)]
    BY TypesAre
  <2>. QED  BY <2>1, <2>2, <2>3, <2>4
<1>i. /\ \A h \in Watched :
           /\ life[h] # 0 /\ Rising(pending[h])
           /\ \A n \in In(pending[h]) : Past(n) /\ presents[n].life = life[h] /\ presents[n].id # 0
           /\ \A i \in DOMAIN recorded, n \in In(pending[h]) :
                presents[recorded[i].for].life = life[h] => recorded[i].for < n
      /\ \A i \in DOMAIN recorded : Past(recorded[i].for)
      /\ \A g, h \in Swapchains : life[g] # 0 /\ life[g] = life[h] => g = h
  BY DEF TimingInv, IdsRising, RecordedPast, Called
<1> DEFINE
      IdsOf(h) ==
        /\ life'[h] # 0 /\ Rising(pending'[h])
        /\ \A n \in In(pending'[h]) : Past(n)' /\ presents'[n].life = life'[h] /\ presents'[n].id # 0
      After(h, p) ==
        \A i \in DOMAIN recorded', n \in In(p) :
          presents'[recorded'[i].for].life = life'[h] => recorded'[i].for < n
<1>g. ASSUME \A h \in Watched' : IdsOf(h) /\ After(h, pending'[h])  PROVE IdsRising'
  BY <1>g DEF IdsRising
<1>s. ASSUME NEW h \in Watched, pending'[h] = pending[h], life'[h] = life[h]  PROVE IdsOf(h)
  BY <1>i, <1>t, <1>s
<1>r. ASSUME NEW h \in Watched, life'[h] = life[h], UNCHANGED recorded  PROVE After(h, pending[h])
  BY <1>i, <1>t, <1>r
<1>k. ASSUME source = "khr"  PROVE IdsRising'
  <2>1. Watched' = {}  BY <1>k, InHandStep, PresentsStay DEF InHand
  <2>. QED  BY <2>1 DEF IdsRising
<1>u. ASSUME \A h \in Watched' : h \in Watched /\ pending'[h] = pending[h] /\ life'[h] = life[h],
             UNCHANGED recorded
      PROVE  IdsRising'
  <2>1. ASSUME NEW h \in Watched'  PROVE IdsOf(h) /\ After(h, pending'[h])
    <3>1. h \in Watched /\ pending'[h] = pending[h] /\ life'[h] = life[h]  BY <1>u, <2>1
    <3>2. IdsOf(h)  BY <1>s, <3>1
    <3>3. After(h, pending[h])  BY <1>r, <1>u, <3>1
    <3>. QED  BY <3>1, <3>2, <3>3
  <2>. QED  BY <1>g, <2>1
<1>1. ASSUME NEW h \in Swapchains, create_swapchain(h)  PROVE IdsRising'
  <2>1. life[h] = 0 /\ life' = [life EXCEPT ![h] = lives + 1] /\ pending' = pending /\ recorded' = recorded
    BY <1>1 DEF create_swapchain, googVars
  <2>2. \A g \in Watched : g # h /\ life'[g] = life[g]  BY <1>i, <1>t, <2>1
  <2>. QED  BY <1>u, <2>1, <2>2 DEF Watched
<1>2. ASSUME NEW h \in Swapchains, destroy_swapchain(h)  PROVE IdsRising'
  <2>1. life' = [life EXCEPT ![h] = 0] /\ pending' = Without(pending, h) /\ recorded' = recorded
    BY <1>2 DEF destroy_swapchain, Forgotten
  <2>2. \A g \in Watched' : g \in Watched /\ g # h /\ pending'[g] = pending[g]  BY <2>1 DEF Without, Watched
  <2>3. \A g \in Watched' : life'[g] = life[g]  BY <1>t, <2>1, <2>2
  <2>. QED  BY <1>u, <2>1, <2>2, <2>3
<1>3. ASSUME enqueue_google  PROVE IdsRising'
  <2>0. caller # 0 /\ presents[caller].id # 0 /\ source = "google"  BY <1>3 DEF enqueue_google, HasId
  <2>1. PICK c \in Present, h \in Swapchains :
          /\ c = caller /\ h = presents[c].handle /\ presents[c].id = c /\ presents[c].life = life[h]
          /\ c \in 1 .. Len(presents)
    <3>1. caller \in 1 .. Len(presents) /\ caller \in Present
      <4>1. caller \in 0 .. Len(presents) /\ Len(presents) \in 0 .. MaxPresents
            /\ 1 .. Len(presents) \subseteq Present /\ MaxPresents \in Nat
        BY TypesAre
      <4>. QED  BY <2>0, <4>1
    <3>2. presents[caller].handle \in Swapchains /\ presents[caller].id = caller  BY <2>0, <3>1, TypesAre
    <3>3. presents[caller].life = life[presents[caller].handle]  BY <2>0 DEF TimingInv, Called
    <3>. QED  BY <3>1, <3>2, <3>3
  <2>2. PICK fifo \in Seq(Present) : fifo = Fifo(h) /\ In(fifo) = (IF h \in Watched THEN In(pending[h]) ELSE {})
                                     /\ (h \in Watched => fifo = pending[h])
    BY <1>t, EmptySeq, InEmpty DEF Fifo
  <2>3. PICK q : q = Pushed(fifo, c)  OBVIOUS
  <2>4. pending' = With(pending, h, q) /\ life' = life /\ recorded' = recorded /\ caller' = 0
        /\ presents' = presents
    BY <1>3, <2>1, <2>2, <2>3 DEF enqueue_google
  <2>5. ~notifying  BY <2>0 DEF TimingInv, Called
  <2>6. \A n : Past(n) => n < c  BY <2>0, <2>1, <2>5 DEF Past
  <2>7. Rising(fifo)  BY <1>i, <2>2, InEmpty DEF Fifo
  <2>8. \A n \in In(fifo) : n < c  BY <1>i, <2>2, <2>6
  <2>9. In(q) \subseteq In(fifo) \cup {c} /\ Rising(q)  BY <2>3, <2>7, <2>8, PushedTypes
  <2>10. Watched' = Watched \cup {h} /\ pending'[h] = q
         /\ \A g \in Watched : g # h => pending'[g] = pending[g]
    BY <2>4 DEF Watched, With
  <2>11. Past(c)'  BY <2>1, <2>4 DEF Past
  <2>12. life[h] # 0
    <3>1. presents[c].life \in Life  BY <2>1, TypesAre
    <3>. QED  BY <2>1, <3>1 DEF Life
  <2>13. IdsOf(h)
    <3>1. ASSUME NEW n \in In(q)
          PROVE Past(n)' /\ presents'[n].life = life'[h] /\ presents'[n].id # 0
      <4>1. CASE n = c  BY <2>0, <2>1, <2>4, <2>11, <4>1
      <4>2. CASE n \in In(fifo)  BY <1>i, <1>t, <2>2, <2>4, <4>2
      <4>. QED  BY <2>9, <3>1, <4>1, <4>2
    <3>. QED  BY <2>4, <2>9, <2>10, <2>12, <3>1
  <2>14. After(h, q)
    <3>1. ASSUME NEW i \in DOMAIN recorded, NEW n \in In(q), presents[recorded[i].for].life = life[h]
          PROVE  recorded[i].for < n
      <4>1. CASE n = c  BY <1>i, <2>6, <4>1
      <4>2. CASE n \in In(fifo)  BY <1>i, <2>2, <3>1, <4>2
      <4>. QED  BY <2>9, <3>1, <4>1, <4>2
    <3>. QED  BY <2>4, <3>1
  <2>15. ASSUME NEW g \in Watched'  PROVE IdsOf(g) /\ After(g, pending'[g])
    <3>1. CASE g = h  BY <2>10, <2>13, <2>14, <3>1
    <3>2. CASE g # h
      <4>1. g \in Watched /\ pending'[g] = pending[g] /\ life'[g] = life[g]  BY <2>4, <2>10, <2>15, <3>2
      <4>2. IdsOf(g)  BY <1>s, <4>1
      <4>3. After(g, pending[g])  BY <1>r, <2>4, <4>1
      <4>. QED  BY <4>1, <4>2, <4>3
    <3>. QED  BY <3>1, <3>2
  <2>. QED  BY <1>g, <2>15
<1>4. ASSUME Pair  PROVE IdsRising'
  <2>e. PICK fifo \in Seq(Present), k \in Nat, f \in Seq(Present), u \in Seq(Present) :
          \E notes : Pairs(fifo, k, f, u, notes)
    BY <1>4, PairFacts
  <2>1. PICK notes : Pairs(fifo, k, f, u, notes)  BY <2>e
  <2>2. PICK s \in Swapchains : s = sw /\ s \in Watched /\ fifo = pending[s] /\ pending' = [pending EXCEPT ![s] = u]
    BY <2>1 DEF Pairs
  <2>3. life' = life /\ presents' = presents  BY <1>4 DEF Pair
  <2>4. /\ Rising(u) /\ (\A x \in In(f), y \in In(u) : x < y) /\ In(fifo) = In(f) \cup In(u)
    BY <1>i, <2>1, <2>2 DEF Pairs
  <2>5. ASSUME NEW j \in DOMAIN recorded'
        PROVE  \/ j \in DOMAIN recorded /\ recorded'[j] = recorded[j]
               \/ recorded'[j].for \in In(f)
    <3>1. CASE j \in DOMAIN recorded  BY <2>1, <3>1 DEF Pairs
    <3>2. ASSUME NEW i \in 1 .. k, recorded'[j] = notes[i]  PROVE recorded'[j].for \in In(f)
      <4>1. notes[i] = Record(fifo[i], scratch[i].of, HostTime(scratch[i].time)) /\ fifo[i] \in In(f)
        BY <2>1 DEF Pairs
      <4>2. notes[i].for = fifo[i]  BY <4>1 DEF Record
      <4>. QED  BY <3>2, <4>1, <4>2
    <3>3. j \in DOMAIN recorded \/ \E i \in 1 .. k : recorded'[j] = notes[i]  BY <2>1 DEF Pairs
    <3>. QED  BY <3>1, <3>2, <3>3
  <2>6. Watched' = Watched /\ pending'[s] = u /\ \A g \in Watched : g # s => pending'[g] = pending[g]
    BY <1>t, <2>2 DEF Watched
  <2>7. ASSUME NEW g \in Watched  PROVE IdsOf(g) /\ After(g, pending'[g])
    <3>1. In(pending'[g]) \subseteq In(pending[g]) /\ Rising(pending'[g])
      BY <1>i, <2>2, <2>4, <2>6
    <3>2. IdsOf(g)  BY <1>i, <1>t, <2>3, <3>1
    <3>3. ASSUME NEW j \in DOMAIN recorded', NEW n \in In(pending'[g]),
                 presents'[recorded'[j].for].life = life'[g]
          PROVE  recorded'[j].for < n
      <4>1. CASE j \in DOMAIN recorded /\ recorded'[j] = recorded[j]
        BY <1>i, <2>3, <3>1, <3>3, <4>1
      <4>2. CASE recorded'[j].for \in In(f)
        <5>1. recorded'[j].for \in In(pending[s])  BY <2>2, <2>4, <4>2
        <5>2. presents[recorded'[j].for].life = life[s]  BY <1>i, <2>2, <5>1
        <5>3. g = s  BY <1>i, <1>t, <2>2, <2>3, <3>3, <5>2
        <5>. QED  BY <2>4, <2>6, <3>3, <4>2, <5>3
      <4>. QED  BY <2>5, <4>1, <4>2
    <3>. QED  BY <3>2, <3>3
  <2>. QED  BY <1>g, <2>6, <2>7
<1>5. CASE \/ \E h \in Swapchains, id \in {0, Len(presents) + 1}, ok \in BOOLEAN : queue_present(h, id, ok)
           \/ NothingToEnqueue \/ (\E n \in 1 .. Len(presents) : Show(n))
           \/ Snapshot \/ (\E h \in Swapchains : PollNothing(h) \/ Poll(h)) \/ PairNothing
           \/ UNCHANGED timingVars
  <2>1. life' = life /\ pending' = pending /\ recorded' = recorded
    BY <1>5 DEF queue_present, NothingToEnqueue, Show, Snapshot, PollNothing, Poll, PairNothing,
                timingVars, appVars, googVars
  <2>. QED  BY <1>u, <2>1 DEF Watched
<1>6. CASE enqueue_khr \/ notify_khr \/ Khr
  <2>1. source = "khr"
    BY <1>6 DEF enqueue_khr, notify_khr, Khr, KhrPop, KhrShown, KhrGivesUp, KhrDrained, KhrRecheck,
                KhrPark, TimingInv, InHand, Called, TimingTypeOK
  <2>. QED  BY <1>k, <2>1
<1>. QED  BY <1>1, <1>2, <1>3, <1>4, <1>5, <1>6 DEF TimingNext, Google

-----------------------------------------------------------------------------
(* The display                                                              *)

LEMMA RecordsStep ==
  ASSUME TimingInv, [TimingNext]_timingVars
  PROVE  RecordsRising'
<1>t. /\ shown \subseteq 1 .. Len(presents) /\ reports \in [Life -> Seq(Present)] /\ Len(presents) \in Nat
      /\ 1 .. Len(presents) \subseteq 1 .. Len(presents')
      /\ \A n \in 1 .. Len(presents) : presents'[n] = presents[n] /\ presents[n].life \in Life
  BY TypesAre, PresentsStay
<1>i. /\ \A n \in shown : /\ presents[n].ok
                          /\ \A m \in 1 .. n - 1 :
                               presents[m].life = presents[n].life /\ presents[m].ok => m \in shown
      /\ \A l \in Life : Rising(reports[l])
                         /\ \A n \in In(reports[l]) : n \in shown /\ presents[n].life = l
      /\ Rising(Fetched)
      /\ \A n \in In(Fetched) :
           /\ n \in shown /\ presents[n].life = presents[Fetched[1]].life
           /\ \A m \in In(reports[presents[n].life]) : n < m
  BY DEF TimingInv, RecordsRising
<1> DEFINE
      Order(R, f) ==
        /\ \A l \in Life : Rising(R[l]) /\ \A n \in In(R[l]) : n \in shown' /\ presents'[n].life = l
        /\ Rising(f)
        /\ \A n \in In(f) :
             /\ n \in shown' /\ presents'[n].life = presents'[f[1]].life
             /\ \A m \in In(R[presents'[n].life]) : n < m
      Display == \A n \in shown' :
                   /\ presents'[n].ok
                   /\ \A m \in 1 .. n - 1 :
                        presents'[m].life = presents'[n].life /\ presents'[m].ok => m \in shown'
<1>g. ASSUME Display, Order(reports', Fetched')  PROVE RecordsRising'
  BY <1>g DEF RecordsRising
<1>d. ASSUME shown' = shown  PROVE Display
  <2>1. \A n \in shown : n \in 1 .. Len(presents) /\ \A m \in 1 .. n - 1 : m \in 1 .. Len(presents)
    BY <1>t
  <2>. QED  BY <1>t, <1>i, <1>d, <2>1
<1>h. ASSUME In(Fetched) # {}  PROVE Fetched[1] \in In(Fetched)
  <2>1. DOMAIN Fetched = DOMAIN scratch /\ DOMAIN scratch = 1 .. Len(scratch) /\ Len(scratch) \in Nat
    BY TypesAre DEF Fetched
  <2>2. DOMAIN Fetched # {}  BY <1>h DEF In
  <2>3. 1 \in DOMAIN Fetched  BY <2>1, <2>2
  <2>. QED  BY <2>3 DEF In
<1>o. ASSUME shown \subseteq shown'  PROVE Order(reports, Fetched)
  <2>1. ASSUME NEW l \in Life
        PROVE  Rising(reports[l]) /\ \A n \in In(reports[l]) : n \in shown' /\ presents'[n].life = l
    <3>1. Rising(reports[l]) /\ \A n \in In(reports[l]) : n \in shown /\ presents[n].life = l  BY <1>i
    <3>. QED  BY <1>t, <1>o, <3>1
  <2>2. ASSUME NEW n \in In(Fetched)
        PROVE  /\ n \in shown' /\ presents'[n].life = presents'[Fetched[1]].life
               /\ \A m \in In(reports[presents'[n].life]) : n < m
    <3>1. Fetched[1] \in In(Fetched)  BY <1>h
    <3>2. Fetched[1] \in shown /\ n \in shown  BY <1>i, <3>1
    <3>3. presents'[n] = presents[n] /\ presents'[Fetched[1]] = presents[Fetched[1]]  BY <1>t, <3>2
    <3>. QED  BY <1>i, <1>o, <3>2, <3>3
  <2>. QED  BY <1>i, <2>1, <2>2
<1>1. ASSUME UNCHANGED <<shown, reports, scratch>>  PROVE RecordsRising'
  <2>1. Fetched' = Fetched  BY <1>1 DEF Fetched
  <2>. QED  BY <1>g, <1>d, <1>o, <1>1, <2>1
<1>2. ASSUME NEW n \in 1 .. Len(presents), Show(n)  PROVE RecordsRising'
  <2>1. PICK l \in Life : l = presents[n].life  BY <1>t
  <2>2. /\ presents[n].ok /\ n \notin shown /\ shown' = shown \cup {n} /\ presents' = presents
        /\ \A m \in 1 .. n - 1 : (presents[m].life = l /\ presents[m].ok) => m \in shown
        /\ scratch' = scratch
    BY <1>2, <2>1 DEF Show, appVars, googVars
  <2>3. Fetched' = Fetched  BY <2>2 DEF Fetched
  <2>4. Display
    <3>1. ASSUME NEW x \in shown', NEW m \in 1 .. x - 1,
                 presents[m].life = presents[x].life, presents[m].ok
          PROVE  m \in shown'
      <4>1. CASE x \in shown  BY <1>i, <2>2, <3>1, <4>1
      <4>2. CASE x = n  BY <2>1, <2>2, <3>1, <4>2
      <4>. QED  BY <2>2, <4>1, <4>2
    <3>2. \A x \in shown' : presents[x].ok  BY <1>i, <2>2
    <3>. QED  BY <2>2, <3>1, <3>2
  \* What is shown of a swapchain came before.
  <2>5. \A x \in shown : presents[x].life = l => x < n
    <3>1. ASSUME NEW x \in shown, presents[x].life = l, n < x  PROVE FALSE
      <4>1. n \in 1 .. x - 1  BY <1>t, <3>1
      <4>. QED  BY <1>i, <2>1, <2>2, <3>1, <4>1
    <3>. QED  BY <1>t, <2>2, <3>1
  <2>6. CASE reports' = reports  BY <1>g, <1>o, <2>2, <2>3, <2>4, <2>6
  <2>7. CASE reports' = [reports EXCEPT ![l] = Append(@, n)]
    <3>1. PICK r \in Seq(Present) : r = reports[l]  BY <1>t
    <3>2. PICK q : q = Append(r, n)  OBVIOUS
    <3>3. \A x \in In(r) : x \in shown /\ presents[x].life = l /\ x < n  BY <1>i, <2>5, <3>1
    <3>4. Rising(q) /\ In(q) = In(r) \cup {n}
      <4>1. n \in Present  BY TypesAre
      <4>2. Rising(r)  BY <1>i, <3>1
      <4>. QED  BY <3>2, <3>3, <4>1, <4>2, InAppend
    <3>5. reports'[l] = q /\ \A i \in Life : i # l => reports'[i] = reports[i]
      BY <1>t, <2>7, <3>1, <3>2
    <3>6. ASSUME NEW i \in Life
          PROVE  Rising(reports'[i]) /\ \A x \in In(reports'[i]) : x \in shown' /\ presents[x].life = i
      <4>1. CASE i = l  BY <2>1, <2>2, <3>3, <3>4, <3>5, <4>1
      <4>2. CASE i # l  BY <1>i, <2>2, <3>5, <4>2
      <4>. QED  BY <4>1, <4>2
    <3>7. ASSUME NEW x \in In(Fetched), NEW m \in In(reports'[presents[x].life])  PROVE x < m
      <4>1. x \in shown /\ presents[x].life \in Life  BY <1>i, <1>t
      <4>2. CASE presents[x].life # l  BY <1>i, <3>5, <3>7, <4>1, <4>2
      <4>3. CASE presents[x].life = l /\ m = n  BY <2>5, <4>1, <4>3
      <4>4. CASE presents[x].life = l /\ m \in In(r)  BY <1>i, <3>1, <4>4
      <4>. QED  BY <3>4, <3>5, <3>7, <4>2, <4>3, <4>4
    <3>8. Order(reports', Fetched)
      <4>1. \A x \in In(Fetched) : x \in shown' /\ presents[x].life = presents[Fetched[1]].life
        BY <1>i, <2>2
      <4>. QED  BY <1>i, <2>2, <3>6, <3>7, <4>1
    <3>. QED  BY <1>g, <2>3, <2>4, <3>8
  <2>. QED  BY <1>2, <2>1, <2>6, <2>7 DEF Show
<1>3. ASSUME NEW h \in Swapchains, Poll(h)  PROVE RecordsRising'
  <2>1. PICK f \in Seq(Present), u \in Seq(Present) :
          /\ life[h] \in Life /\ f # <<>> /\ In(reports[life[h]]) = In(f) \cup In(u)
          /\ Rising(reports[life[h]]) => Rising(f) /\ Rising(u) /\ \A x \in In(f), y \in In(u) : x < y
          /\ Fetched' = f /\ reports' = [reports EXCEPT ![life[h]] = u]
    BY <1>3, PollFacts
  <2>2. PICK l \in Life : l = life[h]  BY <2>1
  <2>3. /\ Rising(f) /\ Rising(u) /\ \A x \in In(f), y \in In(u) : x < y
        /\ \A x \in In(f) \cup In(u) : x \in shown /\ presents[x].life = l
    BY <1>i, <2>1, <2>2
  <2>4. shown' = shown /\ presents' = presents  BY <1>3 DEF Poll, drvVars, appVars
  <2>5. reports'[l] = u /\ \A i \in Life : i # l => reports'[i] = reports[i]
    BY <1>t, <2>1, <2>2
  <2>6. ASSUME NEW i \in Life
        PROVE  Rising(reports'[i]) /\ \A x \in In(reports'[i]) : x \in shown /\ presents[x].life = i
    <3>1. CASE i = l  BY <2>3, <2>5, <3>1
    <3>2. CASE i # l  BY <1>i, <2>5, <3>2
    <3>. QED  BY <3>1, <3>2
  <2>7. f[1] \in In(f)
    <3>1. Len(f) \in Nat \ {0}  BY <2>1, EmptySeq
    <3>2. 1 \in DOMAIN f  BY <3>1, LenProperties
    <3>. QED  BY <3>2 DEF In
  <2>8. ASSUME NEW x \in In(f)
        PROVE  /\ x \in shown /\ presents[x].life = presents[f[1]].life
               /\ \A m \in In(reports'[presents[x].life]) : x < m
    <3>1. presents[x].life = l /\ presents[f[1]].life = l  BY <2>3, <2>7
    <3>. QED  BY <2>3, <2>5, <3>1
  <2>9. Order(reports', f)  BY <2>3, <2>4, <2>6, <2>8
  <2>. QED  BY <1>g, <1>d, <2>1, <2>4, <2>9
<1>4. CASE Pair \/ PairNothing
  <2>1. UNCHANGED <<shown, reports, presents>> /\ scratch' = <<>>
    BY <1>4 DEF Pair, PairNothing, drvVars
  <2>2. DOMAIN Fetched' = {}  BY <2>1 DEF Fetched
  <2>3. In(Fetched') = {} /\ Rising(Fetched')  BY <2>2 DEF In, Rising
  <2>4. Order(reports', Fetched')
    <3>1. Order(reports, Fetched)  BY <1>o, <2>1
    <3>. QED  BY <2>1, <2>3, <3>1
  <2>. QED  BY <1>g, <1>d, <2>1, <2>4
<1>5. CASE \/ \E h \in Swapchains :
                \/ create_swapchain(h) \/ destroy_swapchain(h) \/ PollNothing(h)
                \/ \E id \in {0, Len(presents) + 1}, ok \in BOOLEAN : queue_present(h, id, ok)
           \/ NothingToEnqueue \/ enqueue_khr \/ notify_khr \/ enqueue_google
           \/ Khr \/ Snapshot \/ UNCHANGED timingVars
  <2>1. UNCHANGED <<shown, reports, scratch>>
    BY <1>5 DEF create_swapchain, destroy_swapchain, queue_present, NothingToEnqueue, enqueue_khr,
         notify_khr, enqueue_google, Khr, KhrPop, KhrShown, KhrGivesUp, KhrDrained, KhrRecheck, KhrPark,
         Snapshot, PollNothing, timingVars, drvVars, googVars
  <2>. QED  BY <1>1, <2>1
<1>. QED  BY <1>2, <1>3, <1>4, <1>5 DEF TimingNext, Google

-----------------------------------------------------------------------------
(* Ids and records                                                          *)

\* The ids of handle h as one rising sequence, the caller's last.
LEMMA GivenRises ==
  ASSUME TimingInv, source = "google", NEW h \in Watched
  PROVE  \E t \in Seq(Present) :
           /\ Rising(t) /\ In(t) = Given(h)
           /\ \A i \in DOMAIN pending[h] : t[i] = pending[h][i]
<1>0. PICK fifo \in Seq(Present) : fifo = pending[h] /\ fifo = Fifo(h)  BY TypesAre DEF Fifo
<1>1. Rising(fifo) /\ \A n \in In(fifo) : Past(n)  BY <1>0 DEF TimingInv, IdsRising
<1>2. CASE caller # 0 /\ presents[caller].life = life[h] /\ presents[caller].id # 0
  <2>1. PICK c \in Present : c = caller
    <3>1. caller \in 0 .. Len(presents) /\ Len(presents) \in 0 .. MaxPresents
          /\ 1 .. Len(presents) \subseteq Present /\ MaxPresents \in Nat
      BY TypesAre
    <3>. QED  BY <1>2, <3>1
  <2>2. ~notifying  BY DEF TimingInv, Called
  <2>3. \A n \in In(fifo) : n < c  BY <1>1, <1>2, <2>1, <2>2 DEF Past
  <2>4. PICK t : t = Append(fifo, c)  OBVIOUS
  <2>5. t \in Seq(Present) /\ In(t) = In(fifo) \cup {c} /\ Rising(t)  BY <1>1, <2>3, <2>4, InAppend
  <2>6. \A i \in DOMAIN fifo : t[i] = fifo[i]  BY <2>4, AppendProperties, LenProperties
  <2>7. In(t) = Given(h)  BY <1>0, <1>2, <2>1, <2>5 DEF Given
  <2>. QED  BY <1>0, <2>5, <2>6, <2>7
<1>3. CASE ~(caller # 0 /\ presents[caller].life = life[h] /\ presents[caller].id # 0)
  BY <1>0, <1>1, <1>3 DEF Given
<1>. QED  BY <1>2, <1>3

\* A swapchain that stays in step has its own records paired.
LEMMA OwnPairs ==
  ASSUME TimingInv, Pair, NEW fifo \in Seq(Present), NEW k \in Nat, NEW f \in Seq(Present), NEW u, NEW notes,
         Pairs(fifo, k, f, u, notes), life[sw] \notin slipped'
  PROVE  /\ source = "google" /\ life[sw] # 0
         /\ \A n \in In(Fetched) : presents[n].life = life[sw]
         /\ \A i \in 1 .. k : scratch[i].of = fifo[i]
         /\ In(Fetched) = In(f)
<1>t. /\ scratch \in Seq(Timed) /\ DOMAIN scratch = 1 .. Len(scratch) /\ Len(scratch) \in Nat
      /\ \A i \in DOMAIN scratch : scratch[i].of \in Present
      /\ slipped \subseteq slipped'
  BY TypesAre, PresentsStay DEF TimingNext, Google
<1>1. source = "google" /\ scratch # <<>>  BY DEF Pair, TimingInv, InHand, TimingTypeOK
<1>2. PICK s \in Swapchains : s = sw /\ s \in Watched /\ fifo = pending[s]  BY Zenon DEF Pairs
<1>3. k = Len(scratch) /\ presents[scratch[1].of].life = life[s]
  <2>1. slipped' = slipped \cup
          (IF k < Len(scratch) \/ presents[scratch[1].of].life # life[sw]
             THEN {presents[scratch[1].of].life, life[sw]} ELSE {})
    BY Zenon DEF Pair, Pairs
  <2>2. ~(k < Len(scratch) \/ presents[scratch[1].of].life # life[sw])  BY <2>1
  <2>3. k <= Len(scratch)  BY Zenon DEF Pairs
  <2>4. k = Len(scratch)
    <3>1. PICK n \in Nat : n = Len(scratch)  BY <1>t
    <3>2. ~(k < n)  BY <2>2, <3>1, Zenon
    <3>3. k <= n  BY <2>3, <3>1
    <3>. QED  BY <3>1, <3>2, <3>3
  <2>5. presents[scratch[1].of].life = life[sw]  BY <2>2
  <2>. QED  BY <1>2, <2>4, <2>5
<1>4. life[s] # 0 /\ life[s] \notin slipped  BY <1>t, <1>2 DEF TimingInv, IdsRising
<1>5. /\ \A n \in 1 .. Len(presents) : presents[n].life = life[s] => (presents[n].id # 0 <=> presents[n].ok)
      /\ Unread(life[s]) = Given(s) \cap shown
  BY <1>1, <1>4 DEF TimingInv, InStep
<1>6. PICK r : r = Fetched  OBVIOUS
<1>7. r \in Seq(Present) /\ DOMAIN r = 1 .. k /\ \A i \in 1 .. k : r[i] = scratch[i].of
  <2>1. DOMAIN r = 1 .. k /\ \A i \in 1 .. k : r[i] = scratch[i].of  BY <1>t, <1>3, <1>6 DEF Fetched
  <2>2. \A i \in 1 .. k : r[i] \in Present  BY <1>t, <1>3, <2>1
  <2>3. r = [i \in 1 .. k |-> r[i]]  BY <1>6, <2>1 DEF Fetched
  <2>. QED  BY <2>1, <2>2, <2>3, SeqDef, SMTT(40)
<1>8. k # 0 /\ r[1] = scratch[1].of
  <2>1. Len(scratch) \in Nat \ {0}  BY <1>t, <1>1, EmptySeq
  <2>. QED  BY <1>3, <1>7, <2>1
<1>9. /\ Rising(r)
      /\ \A n \in In(r) : /\ n \in shown /\ presents[n].life = life[s]
                          /\ \A m \in In(reports[life[s]]) : n < m
  <2>1. presents[r[1]].life = life[s]  BY <1>3, <1>8
  <2>. QED  BY <1>6, <2>1 DEF TimingInv, RecordsRising
<1>10. PICK t \in Seq(Present) : Rising(t) /\ In(t) = Given(s) /\ \A i \in DOMAIN fifo : t[i] = fifo[i]
  BY <1>1, <1>2, GivenRises
<1>11. \A x \in In(r) : x \in Unread(life[s])  BY <1>6, <1>9 DEF Unread
<1>12. \A x \in In(r) : x \in In(t)  BY <1>5, <1>10, <1>11
\* An older id is of a present that was shown, whose record came before.
<1>13. ASSUME NEW x \in In(r), NEW y \in In(t), y < x  PROVE y \in In(r)
  <2>1. y \in 1 .. Len(presents) /\ presents[y].life = life[s] /\ presents[y].id # 0
    <3>1. CASE y \in In(Fifo(s))
      BY <1>2, <3>1 DEF Fifo, TimingInv, IdsRising, Past
    <3>2. CASE y = caller /\ y # 0 /\ presents[y].life = life[s] /\ presents[y].id # 0
      <4>1. caller \in 0 .. Len(presents) /\ Len(presents) \in 0 .. MaxPresents /\ MaxPresents \in Nat
        BY TypesAre
      <4>. QED  BY <3>2, <4>1
    <3>. QED  BY <1>10, <3>1, <3>2 DEF Given
  <2>2. presents[y].ok  BY <1>5, <2>1
  <2>3. x \in shown /\ presents[x].life = life[s] /\ x \in 1 .. Len(presents) /\ Len(presents) \in Nat
    <3>1. shown \subseteq 1 .. Len(presents)  BY TypesAre
    <3>2. Len(presents) \in 0 .. MaxPresents /\ MaxPresents \in Nat  BY TypesAre
    <3>3. Len(presents) \in Nat  BY <3>2
    <3>4. x \in shown /\ presents[x].life = life[s]  BY <1>9
    <3>. QED  BY <3>1, <3>3, <3>4
  <2>4. y \in 1 .. x - 1  BY <1>13, <2>1, <2>3
  <2>5. y \in shown  BY <2>1, <2>2, <2>3, <2>4 DEF TimingInv, RecordsRising
  <2>6. y \in Unread(life[s])  BY <1>5, <1>10, <2>5
  <2>7. y \notin In(reports[life[s]])
    <3>1. ASSUME y \in In(reports[life[s]])  PROVE FALSE
      <4>1. x < y  BY <1>9, <3>1
      <4>. QED  BY <1>13, <2>1, <2>3, <4>1
    <3>. QED  BY <3>1
  <2>. QED  BY <1>6, <2>6, <2>7 DEF Unread
<1>14. \A i \in DOMAIN r : i \in DOMAIN t /\ r[i] = t[i]
  BY <1>7, <1>9, <1>10, <1>12, <1>13, SamePairs
<1>15. /\ \A i \in 1 .. k : i \in DOMAIN fifo
       /\ f = [i \in 1 .. k |-> fifo[i]]
  BY Zenon DEF Pairs
<1>16. \A i \in 1 .. k : r[i] = fifo[i]  BY <1>7, <1>10, <1>14, <1>15
<1>17. In(r) = In(f)  BY <1>7, <1>15, <1>16 DEF In
<1>. QED  BY <1>1, <1>2, <1>4, <1>6, <1>7, <1>9, <1>16, <1>17

LEMMA RecordedStep ==
  ASSUME TimingInv, [TimingNext]_timingVars
  PROVE  RecordedPast' /\ RecordedInOrder' /\ OwnRecords'
<1>t. /\ source' = source /\ slipped \subseteq slipped'
      /\ \A n : Past(n) => Past(n)'
      /\ \A i \in DOMAIN recorded : presents'[recorded[i].for] = presents[recorded[i].for]
      /\ DOMAIN recorded \subseteq Nat
  <2>1. \A n : Past(n) => n \in 1 .. Len(presents) /\ presents'[n] = presents[n]
    BY PresentsStay DEF Past
  <2>2. \A n : Past(n) => Past(n)'  BY PastStays
  <2>3. \A i \in DOMAIN recorded : Past(recorded[i].for)  BY DEF TimingInv, RecordedPast
  <2>4. DOMAIN recorded \subseteq Nat  BY TypesAre
  <2>. QED  BY <2>1, <2>2, <2>3, <2>4, PresentsStay
<1>i. /\ \A i \in DOMAIN recorded : Past(recorded[i].for)
      /\ \A i, j \in DOMAIN recorded :
           (i < j /\ presents[recorded[i].for].life = presents[recorded[j].for].life)
             => recorded[i].for < recorded[j].for
      /\ \A i \in DOMAIN recorded :
           source = "google" /\ presents[recorded[i].for].life \notin slipped
             => recorded[i].of = recorded[i].for
  BY DEF TimingInv, RecordedPast, RecordedInOrder, OwnRecords
<1>1. ASSUME UNCHANGED recorded  PROVE RecordedPast' /\ RecordedInOrder' /\ OwnRecords'
  BY <1>t, <1>i, <1>1 DEF RecordedPast, RecordedInOrder, OwnRecords
<1>2. ASSUME KhrShown  PROVE RecordedPast' /\ RecordedInOrder' /\ OwnRecords'
  <2>1. PICK m \in Present :
           /\ DOMAIN recorded \subseteq DOMAIN recorded' /\ item \in Present
           /\ \A i \in DOMAIN recorded : recorded'[i] = recorded[i]
           /\ \A j \in DOMAIN recorded' :
                \/ j \in DOMAIN recorded
                \/ j = Len(recorded) + 1 /\ recorded'[j] = Record(item, m, "now")
    BY <1>2, KhrNoted
  <2>2. PICK e \in Present, l \in Nat : e = item /\ l = Len(recorded) /\ DOMAIN recorded = 1 .. l
    BY <2>1, TypesAre
  <2>3. source = "khr" /\ e # 0
    BY <1>2, <2>2 DEF KhrShown, TimingInv, InHand, TimingTypeOK
  <2>4. Past(e) /\ \A i \in DOMAIN recorded : recorded[i].for < e
    BY <2>2, <2>3 DEF TimingInv, QueueRising
  <2>5. \A j \in DOMAIN recorded' :
          \/ j \in DOMAIN recorded /\ recorded'[j] = recorded[j]
          \/ j = l + 1 /\ recorded'[j].for = e
    BY <2>1, <2>2 DEF Record
  <2>6. RecordedPast'
    <3>1. ASSUME NEW j \in DOMAIN recorded'  PROVE Past(recorded[j].for)'
      <4>1. PICK n : n = recorded'[j].for /\ Past(n)  BY <1>i, <2>4, <2>5
      <4>2. Past(n)'  BY <1>t, <4>1
      <4>. QED  BY <4>1, <4>2 DEF Past
    <3>. QED  BY <3>1 DEF RecordedPast
  <2>7. RecordedInOrder'
    <3>1. presents' = presents  BY <1>2 DEF KhrShown, appVars
    <3>2. ASSUME NEW i \in DOMAIN recorded', NEW j \in DOMAIN recorded', i < j,
                 presents[recorded'[i].for].life = presents[recorded'[j].for].life
          PROVE  recorded'[i].for < recorded'[j].for
      <4>1. i \in DOMAIN recorded /\ recorded'[i] = recorded[i]
        <5>1. CASE i = l + 1
          <6>1. j \in 1 .. l \/ j = l + 1  BY <2>2, <2>5
          <6>. QED  BY <2>2, <3>2, <5>1, <6>1
        <5>. QED  BY <2>5, <5>1
      <4>2. CASE j \in DOMAIN recorded /\ recorded'[j] = recorded[j]  BY <1>i, <3>2, <4>1, <4>2
      <4>3. CASE recorded'[j].for = e  BY <2>4, <4>1, <4>3
      <4>. QED  BY <2>5, <4>2, <4>3
    <3>. QED  BY <3>1, <3>2 DEF RecordedInOrder
  <2>8. OwnRecords'  BY <1>t, <2>3 DEF OwnRecords
  <2>. QED  BY <2>6, <2>7, <2>8
<1>3. ASSUME Pair  PROVE RecordedPast' /\ RecordedInOrder' /\ OwnRecords'
  <2>e. PICK fifo \in Seq(Present), k \in Nat, f \in Seq(Present), u \in Seq(Present) :
          \E notes : Pairs(fifo, k, f, u, notes)
    BY <1>3, PairFacts
  <2>1. PICK notes : Pairs(fifo, k, f, u, notes)  BY <2>e
  <2>2. PICK s \in Swapchains : s = sw /\ s \in Watched /\ fifo = pending[s]  BY <2>1, Zenon DEF Pairs
  <2>3. /\ \A n \in In(fifo) : Past(n) /\ presents[n].life = life[s]
        /\ \A i \in DOMAIN recorded, n \in In(fifo) :
             presents[recorded[i].for].life = life[s] => recorded[i].for < n
        /\ Rising(fifo)
    BY <2>2 DEF TimingInv, IdsRising
  <2>4. PICK l \in Nat : l = Len(recorded) /\ DOMAIN recorded = 1 .. l  BY TypesAre
  <2>5. ASSUME NEW i \in 1 .. k
        PROVE  /\ i \in DOMAIN fifo /\ fifo[i] \in In(fifo)
               /\ notes[i].for = fifo[i] /\ notes[i].of = scratch[i].of
    <3>1. /\ i \in DOMAIN fifo
          /\ notes[i] = Record(fifo[i], scratch[i].of, HostTime(scratch[i].time))
      BY <2>1, Zenon DEF Pairs
    <3>. QED  BY <3>1 DEF Record, In
  <2>6. \A j \in DOMAIN recorded' :
          \/ j \in DOMAIN recorded /\ recorded'[j] = recorded[j]
          \/ \E i \in 1 .. k : j = l + i /\ recorded'[j] = notes[i]
    <3>1. /\ \A i \in DOMAIN recorded : recorded'[i] = recorded[i]
          /\ \A j \in DOMAIN recorded' :
              \/ j \in DOMAIN recorded
              \/ \E i \in 1 .. k : j = Len(recorded) + i /\ recorded'[j] = notes[i]
      BY <2>1, Zenon DEF Pairs
    <3>. QED  BY <2>4, <3>1
  <2>7. presents' = presents  BY <1>3 DEF Pair
  <2>8. RecordedPast'
    <3>1. ASSUME NEW j \in DOMAIN recorded'  PROVE Past(recorded[j].for)'
      <4>1. PICK n : n = recorded'[j].for /\ Past(n)  BY <1>i, <2>3, <2>5, <2>6
      <4>2. Past(n)'  BY <1>t, <4>1
      <4>. QED  BY <4>1, <4>2 DEF Past
    <3>. QED  BY <3>1 DEF RecordedPast
  <2>9. RecordedInOrder'
    <3>1. ASSUME NEW i \in DOMAIN recorded', NEW j \in DOMAIN recorded', i < j,
                 presents[recorded'[i].for].life = presents[recorded'[j].for].life
          PROVE  recorded'[i].for < recorded'[j].for
      <4>1. CASE /\ i \in DOMAIN recorded /\ recorded'[i] = recorded[i]
                 /\ j \in DOMAIN recorded /\ recorded'[j] = recorded[j]
        BY <1>i, <3>1, <4>1
      <4>2. ASSUME i \in DOMAIN recorded, recorded'[i] = recorded[i],
                   NEW b \in 1 .. k, recorded'[j] = notes[b]
            PROVE  recorded'[i].for < recorded'[j].for
        <5>1. recorded'[j].for \in In(fifo)  BY <2>5, <4>2
        <5>. QED  BY <2>3, <3>1, <4>2, <5>1
      <4>3. ASSUME NEW a \in 1 .. k, i = l + a, recorded'[i] = notes[a],
                   NEW b \in 1 .. k, j = l + b, recorded'[j] = notes[b]
            PROVE  recorded'[i].for < recorded'[j].for
        <5>1. a < b  BY <2>4, <3>1, <4>3
        <5>2. fifo[a] < fifo[b]  BY <2>3, <2>5, <5>1 DEF Rising
        <5>. QED  BY <2>5, <4>3, <5>2
      <4>4. ASSUME NEW a \in 1 .. k, i = l + a, j \in DOMAIN recorded  PROVE FALSE
        BY <2>4, <3>1, <4>4
      <4>. QED  BY <2>6, <4>1, <4>2, <4>3, <4>4
    <3>. QED  BY <2>7, <3>1 DEF RecordedInOrder
  <2>10. OwnRecords'
    <3>1. ASSUME NEW j \in DOMAIN recorded', source = "google",
                 presents[recorded'[j].for].life \notin slipped'
          PROVE  recorded'[j].of = recorded'[j].for
      <4>1. CASE j \in DOMAIN recorded /\ recorded'[j] = recorded[j]  BY <1>t, <1>i, <3>1, <4>1
      <4>2. ASSUME NEW b \in 1 .. k, recorded'[j] = notes[b]  PROVE recorded'[j].of = recorded'[j].for
        <5>1. presents[recorded'[j].for].life = life[s]  BY <2>3, <2>5, <4>2
        <5>2. life[sw] \notin slipped'  BY <2>2, <3>1, <5>1
        <5>3. scratch[b].of = fifo[b]  BY <1>3, <2>1, <5>2, OwnPairs
        <5>. QED  BY <2>5, <4>2, <5>3
      <4>. QED  BY <2>6, <4>1, <4>2
    <3>. QED  BY <1>t, <2>7, <3>1 DEF OwnRecords
  <2>. QED  BY <2>8, <2>9, <2>10
<1>4. CASE \/ \E h \in Swapchains :
                \/ create_swapchain(h) \/ destroy_swapchain(h) \/ PollNothing(h) \/ Poll(h)
                \/ \E id \in {0, Len(presents) + 1}, ok \in BOOLEAN : queue_present(h, id, ok)
           \/ NothingToEnqueue \/ enqueue_khr \/ notify_khr \/ enqueue_google
           \/ (\E n \in 1 .. Len(presents) : Show(n))
           \/ KhrPop \/ KhrGivesUp \/ KhrDrained \/ KhrRecheck \/ KhrPark
           \/ Snapshot \/ PairNothing \/ UNCHANGED timingVars
  <2>1. UNCHANGED recorded
    BY <1>4 DEF create_swapchain, destroy_swapchain, queue_present, NothingToEnqueue, enqueue_khr,
         notify_khr, enqueue_google, Show, KhrPop, KhrGivesUp, KhrDrained, KhrRecheck, KhrPark,
         Snapshot, PollNothing, Poll, PairNothing, timingVars
  <2>. QED  BY <1>1, <2>1
<1>. QED  BY <1>2, <1>3, <1>4 DEF TimingNext, Khr, Google

LEMMA InStepStep ==
  ASSUME TimingInv, [TimingNext]_timingVars
  PROVE  InStep'
<1> DEFINE
      OneInStep(h) ==
        /\ \A n \in 1 .. Len(presents) :
             presents[n].life = life[h] => (presents[n].id # 0 <=> presents[n].ok)
        /\ Unread(life[h]) = Given(h) \cap shown
        /\ \A n \in 1 .. Len(presents) :
             presents[n].life = life[h] /\ presents[n].id # 0 /\ n \notin shown => n \in Given(h)
      Mine(h) == {n \in {caller} : n # 0 /\ presents[n].life = life[h] /\ presents[n].id # 0}
<1>t. /\ life \in [Swapchains -> 0 .. lives] /\ lives \in Nat
      /\ Len(presents) \in Nat /\ shown \subseteq 1 .. Len(presents) /\ caller \in 0 .. Len(presents)
      /\ reports \in [Life -> Seq(Present)] /\ pending \in [Watched -> Seq(Present)]
      /\ Watched \subseteq Swapchains
      /\ 1 .. Len(presents) \subseteq 1 .. Len(presents')
      /\ slipped \subseteq slipped' /\ source' = source
      /\ \A n \in 1 .. Len(presents) :
           /\ presents'[n] = presents[n] /\ presents[n].handle \in Swapchains
           /\ presents[n].life \in Life /\ presents[n].life <= lives /\ presents[n].life # 0
           /\ presents[n].id \in {0, n}
      /\ \A h \in Swapchains : life[h] # 0 => life[h] \in Life
  <2>1. Len(presents) \in 0 .. MaxPresents /\ MaxPresents \in Nat /\ MaxSwapchains \in Nat
        /\ lives \in 0 .. MaxSwapchains
    BY TypesAre
  <2>2. Len(presents) \in Nat /\ lives \in Nat  BY <2>1
  <2>3. \A l \in Life : l # 0  BY DEF Life
  <2>. QED  BY <2>2, <2>3, TypesAre, PresentsStay
<1>u. \A g, h \in Swapchains : life[g] # 0 /\ life[g] = life[h] => g = h
  BY DEF TimingInv, Called
<1>m. /\ \A l \in Life : \A n \in In(reports[l]) : n \in shown /\ presents[n].life = l
      /\ \A n \in In(Fetched) : n \in shown
      /\ \A h \in Watched : life[h] # 0 /\ \A n \in In(pending[h]) : Past(n) /\ presents[n].life = life[h]
                                                                    /\ presents[n].id # 0
  BY DEF TimingInv, RecordsRising, IdsRising
<1>f. \A h \in Swapchains : \A n \in In(Fifo(h)) : Past(n) /\ presents[n].life = life[h] /\ presents[n].id # 0
  BY <1>m, InEmpty DEF Fifo
<1>v. \A h \in Swapchains : Given(h) = In(Fifo(h)) \cup Mine(h)  BY DEF Given
<1>w. \A h \in Swapchains : \A n \in Given(h) :
        n \in 1 .. Len(presents) /\ presents[n].life = life[h] /\ presents[n].id # 0
  <2>1. \A n \in {caller} : n # 0 => n \in 1 .. Len(presents)  BY <1>t
  <2>. QED  BY <1>f, <1>v, <2>1 DEF Past
<1>x. \A l \in Life : \A n \in Unread(l) : n \in shown /\ presents[n].life = l  BY <1>m DEF Unread
<1>. SUFFICES ASSUME source = "google", NEW h \in Swapchains, life'[h] # 0, life'[h] \notin slipped'
              PROVE  OneInStep(h)'
  BY <1>t DEF InStep
<1>k. ASSUME life'[h] = life[h]  PROVE OneInStep(h) /\ life[h] # 0 /\ life[h] \in Life /\ life[h] \notin slipped
  <2>1. life[h] # 0 /\ life[h] \notin slipped  BY <1>t, <1>k
  <2>. QED  BY <1>t, <2>1 DEF TimingInv, InStep
\* The same presents, ids and records: nothing changes.
<1>g. ASSUME Given(h)' = Given(h), Unread(life[h])' = Unread(life[h]), UNCHANGED <<presents, shown>>,
             life'[h] = life[h]
      PROVE  OneInStep(h)'
  <2>1. OneInStep(h)  BY <1>k, <1>g
  <2>. QED  BY <1>g, <2>1
<1>a. ASSUME life'[h] = life[h], UNCHANGED <<presents, caller>>, Fifo(h)' = Fifo(h)  PROVE Given(h)' = Given(h)
  BY <1>a DEF Given
<1>r. ASSUME life'[h] = life[h], UNCHANGED <<presents, reports, scratch>>
      PROVE  Unread(life[h])' = Unread(life[h])
  BY <1>r DEF Unread, Fetched
<1>q. ASSUME life'[h] = life[h], UNCHANGED <<presents, shown, caller, reports, scratch>>, Fifo(h)' = Fifo(h)
      PROVE  OneInStep(h)'
  BY <1>a, <1>g, <1>q, <1>r
<1>1. ASSUME NEW g \in Swapchains, create_swapchain(g)  PROVE OneInStep(h)'
  <2>1. /\ caller = 0 /\ life[g] = 0 /\ life' = [life EXCEPT ![g] = lives + 1] /\ lives' = lives + 1
        /\ UNCHANGED <<presents, caller, shown, reports, scratch, pending>>
    BY <1>1 DEF create_swapchain, drvVars, googVars
  <2>2. CASE g # h
    <3>1. life'[h] = life[h] /\ Fifo(h)' = Fifo(h)  BY <1>t, <2>1, <2>2 DEF Fifo, Watched
    <3>. QED  BY <1>q, <2>1, <3>1
  <2>3. CASE g = h
    <3>1. life'[h] = lives + 1  BY <1>t, <2>1, <2>3
    <3>2. \A n \in 1 .. Len(presents) : presents[n].life # life'[h]  BY <1>t, <3>1 DEF Life
    <3>3. Fifo(h)' = <<>>  BY <1>m, <2>1, <2>3 DEF Fifo, Watched
    <3>4. Given(h)' = {}  BY <2>1, <3>3, InEmpty DEF Given
    <3>5. PICK l : l = life'[h]  OBVIOUS
    <3>6. l \in Life
      <4>1. lives' \in 0 .. MaxSwapchains  BY TypeStep DEF TimingTypeOK
      <4>. QED  BY <1>t, <2>1, <3>1, <3>5, <4>1, TypesAre DEF Life
    <3>7. Unread(l) = {}  BY <1>t, <1>x, <3>2, <3>5, <3>6
    <3>8. Unread(life[h])' = {}
      <4>1. Unread(life[h])' = In(reports'[l]) \cup {n \in In(Fetched') : presents'[n].life = l}
        BY <3>5 DEF Unread
      <4>2. Fetched' = Fetched  BY <2>1 DEF Fetched
      <4>. QED  BY <2>1, <3>7, <4>1, <4>2 DEF Unread
    <3>. QED  BY <2>1, <3>2, <3>4, <3>8
  <2>. QED  BY <2>2, <2>3
<1>2. ASSUME NEW g \in Swapchains, destroy_swapchain(g)  PROVE OneInStep(h)'
  <2>1. /\ life' = [life EXCEPT ![g] = 0] /\ pending' = Without(pending, g)
        /\ UNCHANGED <<presents, caller, shown, reports, scratch>>
    BY <1>2 DEF destroy_swapchain, Forgotten, drvVars
  <2>2. g # h /\ life'[h] = life[h]  BY <1>t, <2>1
  <2>3. Fifo(h)' = Fifo(h)  BY <2>1, <2>2 DEF Fifo, Watched, Without
  <2>. QED  BY <1>q, <2>1, <2>2, <2>3
<1>3. ASSUME NEW g \in Swapchains, NEW id \in {0, Len(presents) + 1}, NEW ok \in BOOLEAN,
             queue_present(g, id, ok)
      PROVE  OneInStep(h)'
  <2>1. PICK n \in Nat : n = Len(presents) + 1  BY <1>t
  <2>2. PICK e : e = [handle |-> g, life |-> life[g], id |-> id, ok |-> ok]  OBVIOUS
  <2>3. /\ caller = 0 /\ life[g] # 0 /\ presents' = Append(presents, e) /\ caller' = n /\ life' = life
        /\ slipped' = (IF (id # 0) = ok THEN slipped ELSE slipped \cup {life[g]})
        /\ UNCHANGED <<shown, reports, scratch, pending>>
    BY <1>3, <2>1, <2>2 DEF queue_present, drvVars, googVars
  <2>4. /\ Len(presents') = n /\ presents'[n] = e
        /\ \A m \in 1 .. Len(presents) : presents'[m] = presents[m]
    <3>1. PICK D : presents \in Seq(D) /\ e \in D
      <4>1. presents \in Seq(Carried \cup {e})  BY TypesAre, SeqDef
      <4>. QED  BY <4>1
    <3>. QED  BY <2>1, <2>3, <3>1, AppendProperties
  <2>5. n \notin shown /\ n # 0  BY <1>t, <2>1
  <2>6. \A m \in 1 .. n : m = n \/ m \in 1 .. Len(presents)  BY <2>1
  <2>7. OneInStep(h) /\ life[h] \in Life  BY <1>k, <2>3
  <2>8. Given(h)' = Given(h) \cup (IF g = h /\ id # 0 THEN {n} ELSE {})
    <3>1. Fifo(h)' = Fifo(h)  BY <2>3 DEF Fifo, Watched
    <3>2. Given(h) = In(Fifo(h))  BY <2>3 DEF Given
    <3>3. Given(h)' = In(Fifo(h)) \cup {m \in {n} : m # 0 /\ e.life = life[h] /\ e.id # 0}
      BY <2>3, <2>4, <3>1 DEF Given
    <3>4. e.life = life[h] <=> g = h  BY <1>u, <2>2, <2>3
    <3>. QED  BY <2>2, <2>5, <3>2, <3>3, <3>4
  <2>9. Unread(life[h])' = Unread(life[h])
    <3>1. Fetched' = Fetched  BY <2>3 DEF Fetched
    <3>2. \A m \in In(Fetched) : presents'[m] = presents[m]  BY <1>m, <1>t
    <3>. QED  BY <2>3, <3>1, <3>2 DEF Unread
  <2>10. ASSUME NEW m \in 1 .. n, presents'[m].life = life[h]
         PROVE  /\ presents'[m].id # 0 <=> presents'[m].ok
                /\ presents'[m].id # 0 /\ m \notin shown => m \in Given(h)'
    <3>1. CASE m \in 1 .. Len(presents)
      <4>1. presents'[m] = presents[m]  BY <2>4, <3>1
      <4>2. presents[m].id # 0 <=> presents[m].ok  BY <2>7, <2>10, <3>1, <4>1
      <4>3. presents[m].id # 0 /\ m \notin shown => m \in Given(h)  BY <2>7, <2>10, <3>1, <4>1
      <4>. QED  BY <2>8, <4>1, <4>2, <4>3
    <3>2. CASE m = n
      <4>1. g = h  BY <1>u, <2>2, <2>3, <2>4, <2>10, <3>2
      <4>2. (id # 0) = ok
        <5>1. life[h] \notin slipped'  BY <2>3
        <5>. QED  BY <2>3, <4>1, <5>1
      <4>3. presents'[m].id = id /\ presents'[m].ok = ok  BY <2>2, <2>4, <3>2
      <4>4. id # 0 => m \in Given(h)'  BY <2>8, <3>2, <4>1
      <4>. QED  BY <4>2, <4>3, <4>4
    <3>. QED  BY <2>6, <3>1, <3>2
  <2>11. Unread(life[h])' = Given(h)' \cap shown'
    BY <2>3, <2>5, <2>7, <2>8, <2>9
  <2>. QED  BY <2>3, <2>4, <2>10, <2>11
<1>4. ASSUME NothingToEnqueue  PROVE OneInStep(h)'
  <2>1. /\ presents[caller].id = 0 /\ caller' = 0
        /\ UNCHANGED <<life, presents, shown, reports, scratch, pending>>
    BY <1>4 DEF NothingToEnqueue, HasId, drvVars, googVars
  <2>2. Given(h)' = Given(h)  BY <2>1 DEF Given, Fifo, Watched
  <2>. QED  BY <1>g, <1>r, <2>1, <2>2
<1>5. ASSUME enqueue_google  PROVE OneInStep(h)'
  <2>1. /\ caller # 0 /\ presents[caller].id # 0 /\ caller' = 0
        /\ UNCHANGED <<life, presents, shown, reports, scratch>>
    BY <1>5 DEF enqueue_google, HasId, drvVars
  <2>2. PICK c \in Present, g \in Swapchains :
          c = caller /\ c \in 1 .. Len(presents) /\ g = presents[c].handle /\ presents[c].id = c
          /\ presents[c].life = life[g]
    <3>1. caller \in 1 .. Len(presents)  BY <1>t, <2>1
    <3>2. caller \in Present  BY <3>1, TypesAre
    <3>3. presents[caller].life = life[presents[caller].handle]  BY <2>1 DEF TimingInv, Called
    <3>. QED  BY <1>t, <2>1, <3>1, <3>2, <3>3
  <2>3. PICK fifo \in Seq(Present) : fifo = Fifo(g)  BY <1>t, EmptySeq DEF Fifo
  <2>4. PICK q : q = Pushed(fifo, c)  OBVIOUS
  <2>5. /\ pending' = With(pending, g, q)
        /\ slipped' = IF Overfull(fifo) THEN slipped \cup {life[g]} ELSE slipped
    BY <1>5, <2>2, <2>3, <2>4 DEF enqueue_google
  <2>6. Fifo(g)' = q /\ \A i \in Swapchains : i # g => Fifo(i)' = Fifo(i)
    BY <2>5 DEF Fifo, Watched, With
  <2>7. Given(h)' = In(Fifo(h)')  BY <2>1 DEF Given
  <2>8. life[g] # 0  BY <1>t, <2>2
  <2>9. Given(h)' = Given(h)
    <3>1. CASE h = g
      <4>1. ~Overfull(fifo)  BY <2>1, <2>5, <3>1
      <4>2. In(q) = In(fifo) \cup {c}  BY <2>3, <2>4, <4>1, PushedTypes
      <4>3. Mine(h) = {c}  BY <2>1, <2>2, <3>1
      <4>. QED  BY <1>v, <2>3, <2>6, <2>7, <3>1, <4>2, <4>3
    <3>2. CASE h # g
      <4>1. Mine(h) = {}  BY <1>u, <2>1, <2>2, <2>8, <3>2
      <4>. QED  BY <1>v, <2>6, <2>7, <3>2, <4>1
    <3>. QED  BY <3>1, <3>2
  <2>. QED  BY <1>g, <1>r, <2>1, <2>9
<1>6. ASSUME NEW n \in 1 .. Len(presents), Show(n)  PROVE OneInStep(h)'
  <2>1. PICK l \in Life : l = presents[n].life  BY <1>t
  <2>2. /\ presents[n].ok /\ n \notin shown /\ shown' = shown \cup {n}
        /\ reports' = [reports EXCEPT ![l] = Append(@, n)]
        /\ UNCHANGED <<life, presents, caller, pending, scratch>>
    BY <1>6, <2>1 DEF Show, appVars, googVars
  <2>3. OneInStep(h) /\ life[h] \in Life  BY <1>k, <2>2
  <2>4. Given(h)' = Given(h)  BY <1>a, <2>2 DEF Fifo, Watched
  <2>5. n \in Given(h) <=> l = life[h]  BY <1>w, <2>1, <2>2, <2>3
  <2>6. In(reports'[life[h]]) = In(reports[life[h]]) \cup (IF l = life[h] THEN {n} ELSE {})
    <3>1. PICK r \in Seq(Present) : r = reports[l]  BY <1>t
    <3>2. PICK q : q = Append(r, n)  OBVIOUS
    <3>3. n \in Present  BY TypesAre
    <3>4. In(q) = In(r) \cup {n}  BY <3>2, <3>3, InAppend
    <3>5. reports' = [reports EXCEPT ![l] = q]  BY <2>2, <3>1, <3>2
    <3>6. CASE l = life[h]  BY <1>t, <3>1, <3>4, <3>5, <3>6
    <3>7. CASE l # life[h]  BY <1>t, <2>3, <3>5, <3>7
    <3>. QED  BY <3>6, <3>7
  <2>7. Unread(life[h])' = Unread(life[h]) \cup (IF l = life[h] THEN {n} ELSE {})
    <3>1. Fetched' = Fetched  BY <2>2 DEF Fetched
    <3>2. Unread(life[h])' = In(reports'[life[h]]) \cup {m \in In(Fetched) : presents[m].life = life[h]}
      BY <2>2, <3>1 DEF Unread
    <3>. QED  BY <2>6, <3>2 DEF Unread
  <2>8. Unread(life[h])' = Given(h)' \cap shown'  BY <2>2, <2>3, <2>4, <2>5, <2>7
  <2>. QED  BY <2>2, <2>3, <2>4, <2>8
<1>7. ASSUME NEW g \in Swapchains, Poll(g)  PROVE OneInStep(h)'
  <2>1. PICK f \in Seq(Present), u \in Seq(Present) :
          /\ life[g] \in Life /\ In(reports[life[g]]) = In(f) \cup In(u)
          /\ Fetched' = f /\ reports' = [reports EXCEPT ![life[g]] = u]
    BY <1>7, PollFacts
  <2>2. /\ UNCHANGED <<life, presents, caller, shown, pending>> /\ worker = "poll"
    BY <1>7 DEF Poll, appVars, drvVars
  <2>3. Given(h)' = Given(h)  BY <1>a, <2>2 DEF Fifo, Watched
  <2>4. In(Fetched) = {}
    <3>1. scratch = <<>>  BY <2>2 DEF TimingInv, InHand
    <3>2. DOMAIN Fetched = {}  BY <3>1 DEF Fetched
    <3>. QED  BY <3>2 DEF In
  <2>5. life[h] \in Life  BY <1>k, <2>2
  <2>6. \A n \in In(f) : presents[n].life = life[g]  BY <1>m, <2>1
  <2>7. Unread(life[h])' = In(reports'[life[h]]) \cup {n \in In(f) : presents[n].life = life[h]}
    BY <2>1, <2>2 DEF Unread
  <2>8. Unread(life[h]) = In(reports[life[h]])  BY <2>4 DEF Unread
  <2>9. Unread(life[h])' = Unread(life[h])
    <3>1. CASE life[h] = life[g]
      <4>1. reports'[life[h]] = u  BY <1>t, <2>1, <2>5, <3>1
      <4>. QED  BY <2>1, <2>6, <2>7, <2>8, <3>1, <4>1
    <3>2. CASE life[h] # life[g]
      <4>1. reports'[life[h]] = reports[life[h]]  BY <1>t, <2>1, <2>5, <3>2
      <4>. QED  BY <2>6, <2>7, <2>8, <3>2, <4>1
    <3>. QED  BY <3>1, <3>2
  <2>. QED  BY <1>g, <2>2, <2>3, <2>9
<1>8. ASSUME scratch' = <<>>, UNCHANGED <<life, presents, reports>>,
             \A n \in In(Fetched) : presents[n].life # life[h]
      PROVE  Unread(life[h])' = Unread(life[h])
  <2>1. DOMAIN Fetched' = {}  BY <1>8 DEF Fetched
  <2>2. In(Fetched') = {}  BY <2>1 DEF In
  <2>3. Unread(life[h])' = In(reports[life[h]])  BY <1>8, <2>2 DEF Unread
  <2>. QED  BY <1>8, <2>3 DEF Unread
<1>9. ASSUME PairNothing  PROVE OneInStep(h)'
  <2>1. /\ scratch' = <<>> /\ UNCHANGED <<life, presents, caller, shown, reports, pending>>
        /\ slipped' = slipped \cup {presents[scratch[1].of].life}
    BY <1>9 DEF PairNothing, drvVars
  <2>2. \A n \in In(Fetched) : presents[n].life = presents[scratch[1].of].life
    <3>1. ASSUME NEW n \in In(Fetched)  PROVE presents[n].life = presents[scratch[1].of].life
      <4>1. DOMAIN Fetched = DOMAIN scratch /\ DOMAIN scratch = 1 .. Len(scratch) /\ Len(scratch) \in Nat
        BY TypesAre DEF Fetched
      <4>2. DOMAIN Fetched # {}  BY <3>1 DEF In
      <4>3. Fetched[1] = scratch[1].of  BY <4>1, <4>2 DEF Fetched
      <4>. QED  BY <3>1, <4>3 DEF TimingInv, RecordsRising
    <3>. QED  BY <3>1
  <2>3. \A n \in In(Fetched) : presents[n].life # life[h]  BY <2>1, <2>2
  <2>4. Given(h)' = Given(h)  BY <1>a, <2>1 DEF Fifo, Watched
  <2>. QED  BY <1>8, <1>g, <2>1, <2>3, <2>4
<1>10. ASSUME Pair  PROVE OneInStep(h)'
  <2>e. PICK fifo \in Seq(Present), k \in Nat, f \in Seq(Present), u \in Seq(Present) :
          \E notes : Pairs(fifo, k, f, u, notes)
    BY <1>10, PairFacts
  <2>1. PICK notes : Pairs(fifo, k, f, u, notes)  BY <2>e
  <2>2. PICK s \in Swapchains : s = sw /\ s \in Watched /\ fifo = pending[s] /\ pending' = [pending EXCEPT ![s] = u]
    BY <2>1, Zenon DEF Pairs
  <2>3. scratch' = <<>> /\ UNCHANGED <<life, presents, caller, shown, reports>>
    BY <1>10 DEF Pair, drvVars
  <2>4. OneInStep(h) /\ life[h] # 0 /\ life[h] \in Life  BY <1>k, <2>3
  <2>5. CASE h # s
    <3>1. Fifo(h)' = Fifo(h)  BY <1>t, <2>2, <2>5 DEF Fifo, Watched
    <3>2. ASSUME NEW n \in In(Fetched)  PROVE presents[n].life # life[h]
      <4>1. DOMAIN Fetched = DOMAIN scratch /\ DOMAIN scratch = 1 .. Len(scratch) /\ Len(scratch) \in Nat
        BY TypesAre DEF Fetched
      <4>2. DOMAIN Fetched # {}  BY <3>2 DEF In
      <4>3. Fetched[1] = scratch[1].of  BY <4>1, <4>2 DEF Fetched
      <4>4. presents[n].life = presents[scratch[1].of].life  BY <3>2, <4>3 DEF TimingInv, RecordsRising
      <4>5. life[h] # life[s]  BY <1>u, <2>4, <2>5
      <4>6. presents[scratch[1].of].life # life[sw] => presents[scratch[1].of].life \in slipped'
        BY <1>10 DEF Pair
      <4>. QED  BY <2>2, <2>3, <4>4, <4>5, <4>6
    <3>. QED  BY <1>8, <1>a, <1>g, <2>3, <3>1, <3>2
  <2>6. CASE h = s
    <3>1. life[sw] \notin slipped'  BY <2>2, <2>3, <2>6
    <3>2. /\ \A n \in In(Fetched) : presents[n].life = life[sw]
          /\ In(Fetched) = In(f)
      BY <1>10, <2>1, <3>1, OwnPairs
    <3>3. /\ In(fifo) = In(f) \cup In(u)
          /\ Rising(fifo) => \A x \in In(f), y \in In(u) : x < y
      BY <2>1, Zenon DEF Pairs
    <3>4. Rising(fifo) /\ \A n \in In(fifo) : Past(n)  BY <2>2 DEF TimingInv, IdsRising
    <3>5. PICK R : R = In(reports[life[h]])  OBVIOUS
    <3>6. Unread(life[h]) = R \cup In(f)  BY <2>2, <2>6, <3>2, <3>5 DEF Unread
    <3>7. Given(h) = In(f) \cup In(u) \cup Mine(h)  BY <1>v, <2>2, <2>6, <3>3 DEF Fifo
    <3>8. Given(h)' = In(u) \cup Mine(h)
      <4>1. Fifo(h)' = u  BY <1>t, <2>2, <2>6 DEF Fifo, Watched
      <4>. QED  BY <2>3, <4>1 DEF Given
    <3>9. Unread(life[h])' = R
      <4>1. DOMAIN Fetched' = {}  BY <2>3 DEF Fetched
      <4>2. In(Fetched') = {}  BY <4>1 DEF In
      <4>. QED  BY <2>3, <3>5, <4>2 DEF Unread
    \* What was paired is not in hand any more, and what is left was not paired.
    <3>10. \A x \in In(f) : x \notin R /\ x \notin In(u) /\ x \notin Mine(h)
      <4>1. ASSUME NEW x \in In(f)  PROVE x \in Nat /\ Past(x)
        <5>1. Past(x)  BY <3>3, <3>4, <4>1
        <5>. QED  BY <1>t, <5>1 DEF Past
      <4>2. ASSUME NEW x \in In(f), x \in R  PROVE FALSE
        <5>1. x < x  BY <2>2, <2>6, <3>2, <3>5, <4>2 DEF TimingInv, RecordsRising
        <5>. QED  BY <4>1, <4>2, <5>1
      <4>3. ASSUME NEW x \in In(f), x \in In(u)  PROVE FALSE
        <5>1. x < x  BY <3>3, <3>4, <4>3
        <5>. QED  BY <4>1, <4>3, <5>1
      <4>4. ASSUME NEW x \in In(f), x \in Mine(h)  PROVE FALSE
        <5>1. ~notifying  BY DEF TimingInv, Called
        <5>2. x < x  BY <4>1, <4>4, <5>1 DEF Past
        <5>. QED  BY <4>1, <4>4, <5>2
      <4>. QED  BY <4>2, <4>3, <4>4
    <3>11. Unread(life[h])' = Given(h)' \cap shown'
      BY <2>3, <2>4, <3>6, <3>7, <3>8, <3>9, <3>10
    <3>12. In(f) \subseteq shown  BY <1>m, <3>2
    <3>13. ASSUME NEW n \in 1 .. Len(presents), presents[n].life = life[h], presents[n].id # 0, n \notin shown
           PROVE  n \in Given(h)'
      <4>1. n \in Given(h)  BY <2>4, <3>13
      <4>. QED  BY <3>7, <3>8, <3>12, <3>13, <4>1
    <3>. QED  BY <2>3, <2>4, <3>11, <3>13
  <2>. QED  BY <2>5, <2>6
<1>11. CASE \/ \E g \in Swapchains : PollNothing(g)
            \/ Snapshot \/ UNCHANGED timingVars
  <2>1. UNCHANGED <<life, presents, shown, caller, reports, scratch, pending>>
    BY <1>11 DEF Snapshot, PollNothing, timingVars, appVars, drvVars, googVars
  <2>. QED  BY <1>q, <2>1 DEF Fifo, Watched
<1>12. ~(enqueue_khr \/ notify_khr \/ Khr)
  BY DEF enqueue_khr, notify_khr, Khr, KhrPop, KhrShown, KhrGivesUp, KhrDrained, KhrRecheck, KhrPark,
         TimingInv, InHand, Called
<1>. QED
  BY <1>1, <1>2, <1>3, <1>4, <1>5, <1>6, <1>7, <1>9, <1>10, <1>11, <1>12 DEF TimingNext, Google

-----------------------------------------------------------------------------
(* The theorems                                                             *)

\* What present_wait.rs keeps true whatever the application, the display and
\* the driver do.
THEOREM TimingInvariance == TimingSpec => []TimingInv
<1>1. TimingInit => TimingInv
  <2> SUFFICES ASSUME TimingInit PROVE TimingInv
    OBVIOUS
  <2>0. MaxPresents \in Nat /\ MaxSwapchains \in Nat  BY TimingAssumption
  <2>1. /\ presents = <<>> /\ Len(presents) = 0 /\ queue = <<>> /\ scratch = <<>> /\ recorded = <<>>
        /\ reports = [l \in Life |-> <<>>] /\ shown = {} /\ caller = 0 /\ item = 0
        /\ life = [h \in Swapchains |-> 0] /\ lives = 0 /\ slipped = {} /\ Watched = {}
        /\ source \in {"khr", "google"} /\ worker = (IF source = "khr" THEN "drain" ELSE "poll")
        /\ domain = "Unvalidated"
    BY EmptySeq DEF TimingInit, Watched
  <2>n. ~notifying  BY DEF TimingInit
  <2>2. TimingTypeOK
    <3>1. /\ presents \in Seq([handle : Swapchains, life : Life, id : 0 .. MaxPresents, ok : BOOLEAN])
          /\ queue \in Seq(Present) /\ scratch \in Seq([of : Present, time : Sample])
          /\ recorded \in Seq([for : Present, of : Present, time : Sample \cup {"now"}])
          /\ \A l \in Life : reports[l] \in Seq(Present)
      BY <2>1, EmptySeq
    <3>2. reports \in [Life -> Seq(Present)]  BY <2>1, <3>1
    <3>3. life \in [Swapchains -> 0 .. lives] /\ lives \in 0 .. MaxSwapchains  BY <2>0, <2>1
    <3>4. pending \in [Watched -> Seq(Present)]  BY DEF TimingInit, Watched
    <3>5. notifying \in BOOLEAN /\ monotonic \in BOOLEAN  BY DEF TimingInit
    <3>6. /\ caller \in 0 .. Len(presents) /\ shown \subseteq 1 .. Len(presents)
          /\ item \in 0 .. Len(presents)
      BY <2>1
    <3>7. todo = {} /\ sw = NoSwapchain  BY DEF TimingInit
    <3>8. /\ worker \in {"drain", "wait", "lock", "committed", "parked", "poll", "pair"}
          /\ domain \in {"Unvalidated", "Monotonic", "Unknown"} /\ slipped \subseteq Life
          /\ Watched \subseteq Swapchains /\ source \in {"khr", "google"}
          /\ todo \subseteq Swapchains /\ sw \in Swapchains \cup {NoSwapchain}
      BY <2>1, <3>7
    <3>. QED  BY <3>1, <3>2, <3>3, <3>4, <3>5, <3>6, <3>8 DEF TimingTypeOK
  <2>3. Called  BY <2>0, <2>1, <2>n DEF Called
  <2>4. InHand  BY <2>1 DEF InHand
  <2>5. DOMAIN scratch = {} /\ DOMAIN recorded = {} /\ DOMAIN Fetched = {}  BY <2>1 DEF Fetched
  <2>6. ClockRead  BY <2>1, <2>5 DEF ClockRead
  <2>7. QueueRising  BY <2>1, <2>5, InEmpty DEF QueueRising
  <2>8. IdsRising  BY <2>1 DEF IdsRising
  <2>9. In(Fetched) = {} /\ Rising(Fetched)  BY <2>5 DEF In, Rising
  <2>10. RecordsRising
    <3>1. \A l \in Life : reports[l] = <<>>  BY <2>1
    <3>. QED  BY <2>1, <2>9, <3>1, InEmpty DEF RecordsRising
  <2>11. InStep  BY <2>1 DEF InStep
  <2>12. RecordedPast /\ RecordedInOrder /\ OwnRecords
    BY <2>5 DEF RecordedPast, RecordedInOrder, OwnRecords
  <2>. QED  BY <2>2, <2>3, <2>4, <2>6, <2>7, <2>8, <2>10, <2>11, <2>12 DEF TimingInv
<1>2. TimingInv /\ [TimingNext]_timingVars => TimingInv'
  BY TypeStep, CalledStep, InHandStep, ClockStep, QueueStep, IdsStep, RecordsStep, InStepStep,
     RecordedStep DEF TimingInv
<1>. QED  BY <1>1, <1>2, PTL DEF TimingSpec

\* Type correctness of the two workers and of what they share.
THEOREM TimingTypeCorrect == TimingSpec => []TimingTypeOK
<1>1. TimingInv => TimingTypeOK  BY DEF TimingInv
<1>. QED  BY <1>1, TimingInvariance, PTL

\* What the history is told of a present's display is right: the order, the
\* clock, and, as long as ids and records are in step, the present itself.
THEOREM TimesAreOwn == TimingSpec => []OwnTiming
<1>1. TimingInv => OwnTiming
  BY DEF TimingInv, OwnTiming, ClockUnderstood, ClockRead, OwnRecords
<1>. QED  BY <1>1, TimingInvariance, PTL

-----------------------------------------------------------------------------
(* The marker history                                                       *)

USE HistoryAssumption

\* The invariant that a step preserves: each part needs the index's coherence.
IInv == TypeOK /\ IndexCoherent /\ OwnTimes

\* A stamped frame is a frame, and keeps its id and its measurements.
LEMMA StampKeeps ==
  ASSUME NEW f \in Frame, NEW m \in Marker, NEW t \in Time
  PROVE  /\ Stamped(f, m, t) \in Frame
         /\ Stamped(f, m, t).present_id = f.present_id
         /\ Stamped(f, m, t).gpu_render = f.gpu_render
         /\ Stamped(f, m, t).displayed = f.displayed
BY DEF Stamped, Frame, Stamp

\* A known id's slot is inside the ring, and holds that id's frame.
LEMMA SlotIsFrame ==
  ASSUME TypeOK, IndexCoherent, NEW id \in Known
  PROVE  Slot(id) \in 1 .. Len(frames) /\ frames[Slot(id)].present_id = id
<1>1. PICK i \in 1 .. Len(frames) : frames[i].present_id = id
  BY DEF IndexCoherent
<1>2. by_present_id[id] = head_index + i - 1
  BY <1>1 DEF IndexCoherent
<1> QED BY <1>1, <1>2 DEF Slot, TypeOK

\* What an eviction leaves is the ring without its oldest frame, if it was full.
LEMMA EvictionKeeps ==
  ASSUME TypeOK, IndexCoherent
  PROVE  /\ Kept \in Seq(Frame) /\ Len(Kept) < HistoryCap
         /\ KeptHead \in Nat /\ KeptHead + Len(Kept) = head_index + Len(frames)
         /\ KeptIds = {Kept[i].present_id : i \in 1 .. Len(Kept)}
         /\ \A i \in 1 .. Len(Kept) :
              /\ Kept[i] = frames[i + KeptHead - head_index]
              /\ i + KeptHead - head_index \in 1 .. Len(frames)
<1>1. CASE ~Full
  <2>1. Kept = frames /\ KeptHead = head_index /\ KeptIds = Known
    BY <1>1 DEF Kept, KeptHead, KeptIds
  <2>2. Len(frames) < HistoryCap
    BY <1>1 DEF Full, IndexCoherent, TypeOK
  <2> QED BY <2>1, <2>2 DEF TypeOK, IndexCoherent
<1>2. CASE Full
  <2>1. Kept = Tail(frames) /\ KeptHead = head_index + 1
        /\ KeptIds = Known \ {Head(frames).present_id}
    BY <1>2 DEF Kept, KeptHead, KeptIds
  <2>2. frames \in Seq(Frame) /\ Len(frames) = HistoryCap /\ frames # <<>>
    BY <1>2 DEF Full, TypeOK
  <2>3. Kept \in Seq(Frame) /\ Len(Kept) = Len(frames) - 1 /\ Head(frames) = frames[1]
    BY <2>1, <2>2, HeadTailProperties
  <2>4. \A i \in 1 .. Len(Kept) : Kept[i] = frames[i + 1] /\ i + 1 \in 1 .. Len(frames)
    BY <2>1, <2>2, <2>3, HeadTailProperties
  <2>5. \A i \in 1 .. Len(frames) : i # 1 => frames[i].present_id # frames[1].present_id
    BY <2>2 DEF IndexCoherent, TypeOK
  <2>6. KeptIds = {Kept[i].present_id : i \in 1 .. Len(Kept)}
    <3>1. ASSUME NEW id \in KeptIds PROVE \E i \in 1 .. Len(Kept) : id = Kept[i].present_id
      <4>1. PICK k \in 1 .. Len(frames) : frames[k].present_id = id
        BY <2>1, <3>1 DEF IndexCoherent
      <4>2. k # 1
        BY <2>1, <2>3, <3>1, <4>1
      <4>3. k - 1 \in 1 .. Len(Kept) /\ Kept[k - 1] = frames[k]
        BY <2>2, <2>3, <2>4, <4>2
      <4> QED BY <4>1, <4>3
    <3>2. ASSUME NEW i \in 1 .. Len(Kept) PROVE Kept[i].present_id \in KeptIds
      <4>1. Kept[i] = frames[i + 1] /\ i + 1 \in 1 .. Len(frames) /\ i + 1 # 1
        BY <2>4
      <4> QED BY <2>1, <2>3, <2>5, <4>1 DEF IndexCoherent
    <3> QED BY <3>1, <3>2
  <2>7. Len(frames) \in Nat /\ Len(Kept) \in Nat /\ head_index \in Nat /\ HistoryCap \in Nat
    BY <2>2, <2>3 DEF TypeOK
  <2>8. /\ Len(Kept) < HistoryCap /\ KeptHead \in Nat
        /\ KeptHead + Len(Kept) = head_index + Len(frames)
    BY <2>1, <2>2, <2>3, <2>7
  <2>9. ASSUME NEW i \in 1 .. Len(Kept)
        PROVE  /\ Kept[i] = frames[i + KeptHead - head_index]
               /\ i + KeptHead - head_index \in 1 .. Len(frames)
    <3>1. i + KeptHead - head_index = i + 1
      BY <2>1, <2>7
    <3> QED BY <2>4, <3>1
  <2> QED BY <2>3, <2>6, <2>8, <2>9
<1> QED BY <1>1, <1>2

-----------------------------------------------------------------------------
(* The two kinds of step. *)

\* A frame's entry is replaced by one with its id and its own measurements.
Rewrites(id, f) == /\ frames' = [frames EXCEPT ![Slot(id)] = f]
                   /\ UNCHANGED <<by_present_id, head_index>>

LEMMA RewriteKeeps ==
  ASSUME IInv, NEW id \in Known, NEW f \in Frame, f.present_id = id,
         f.gpu_render \in {NoFrame, id}, f.displayed \in {NoFrame, id},
         Rewrites(id, f)
  PROVE  /\ IInv'
         /\ Len(frames') = Len(frames)
         /\ \A i \in 1 .. Len(frames) : frames'[i].present_id = frames[i].present_id
<1>1. Slot(id) \in 1 .. Len(frames) /\ frames[Slot(id)].present_id = id
  BY SlotIsFrame DEF IInv
<1>2. frames' \in Seq(Frame) /\ Len(frames') = Len(frames)
  BY <1>1 DEF Rewrites, IInv, TypeOK
<1>3. \A i \in 1 .. Len(frames) : frames'[i] = IF i = Slot(id) THEN f ELSE frames[i]
  BY <1>1 DEF Rewrites, IInv, TypeOK
<1>4. \A i \in 1 .. Len(frames) : frames'[i].present_id = frames[i].present_id
  BY <1>1, <1>3
<1>5. by_present_id' = by_present_id /\ head_index' = head_index /\ Known' = Known
  BY DEF Rewrites, Known
<1>6. TypeOK'
  BY <1>2, <1>5 DEF IInv, TypeOK
<1>7. IndexCoherent'
  <2>1. Known' = {frames'[i].present_id : i \in 1 .. Len(frames')}
    BY <1>2, <1>4, <1>5 DEF IInv, IndexCoherent
  <2> QED BY <1>2, <1>4, <1>5, <2>1 DEF IInv, IndexCoherent
<1>8. OwnTimes'
  BY <1>2, <1>3, <1>1 DEF IInv, OwnTimes
<1> QED BY <1>2, <1>4, <1>6, <1>7, <1>8 DEF IInv

\* A new frame is added, and the oldest makes room for it.
Adds(id, f) == /\ frames' = Append(Kept, f)
               /\ head_index' = KeptHead
               /\ by_present_id' = [k \in KeptIds \cup {id} |->
                    IF k = id THEN KeptHead + Len(Kept) ELSE by_present_id[k]]

LEMMA AddKeeps ==
  ASSUME IInv, NEW id \in PresentIds \ Known, NEW f \in Frame, f.present_id = id,
         f.gpu_render \in {NoFrame, id}, f.displayed \in {NoFrame, id},
         Adds(id, f)
  PROVE  IInv'
<1>1. /\ Kept \in Seq(Frame) /\ Len(Kept) < HistoryCap
      /\ KeptHead \in Nat /\ KeptHead + Len(Kept) = head_index + Len(frames)
      /\ KeptIds = {Kept[i].present_id : i \in 1 .. Len(Kept)}
      /\ \A i \in 1 .. Len(Kept) :
           /\ Kept[i] = frames[i + KeptHead - head_index]
           /\ i + KeptHead - head_index \in 1 .. Len(frames)
  BY EvictionKeeps DEF IInv
<1>2. frames' \in Seq(Frame) /\ Len(frames') = Len(Kept) + 1
  BY <1>1, AppendProperties DEF Adds
<1>3. \A i \in 1 .. Len(frames') : frames'[i] = IF i = Len(Kept) + 1 THEN f ELSE Kept[i]
  BY <1>1, AppendProperties DEF Adds
<1>4. KeptIds \subseteq Known
  BY <1>1 DEF IInv, IndexCoherent
<1>5. Known' = KeptIds \cup {id} /\ id \notin KeptIds
  BY <1>4 DEF Adds, Known
<1>6. TypeOK'
  <2>1. Len(Kept) \in Nat
    BY <1>1
  <2>2. Known' \subseteq PresentIds
    BY <1>4, <1>5 DEF IInv, TypeOK
  <2>3. \A k \in Known' : by_present_id'[k] \in Nat
    BY <1>1, <1>4, <1>5, <2>1 DEF Adds, IInv, TypeOK
  <2>4. by_present_id' = [k \in Known' |-> by_present_id'[k]]
    BY <1>5 DEF Adds
  <2>5. by_present_id' \in [Known' -> Nat]
    BY <2>3, <2>4
  <2> QED BY <1>1, <1>2, <2>2, <2>5 DEF Adds, TypeOK
<1>7. IndexCoherent'
  <2>1. Len(frames') <= HistoryCap
    BY <1>1, <1>2
  <2>2. Known' = {frames'[i].present_id : i \in 1 .. Len(frames')}
    <3>1. ASSUME NEW k \in Known' PROVE \E i \in 1 .. Len(frames') : k = frames'[i].present_id
      <4>1. CASE k = id
        <5>1. Len(Kept) + 1 \in 1 .. Len(frames') /\ frames'[Len(Kept) + 1] = f
          BY <1>1, <1>2, <1>3
        <5> QED BY <4>1, <5>1
      <4>2. CASE k # id
        <5>1. PICK i \in 1 .. Len(Kept) : k = Kept[i].present_id
          BY <1>1, <1>5, <3>1, <4>2
        <5>2. i \in 1 .. Len(frames') /\ frames'[i] = Kept[i]
          BY <1>1, <1>2, <1>3
        <5> QED BY <5>1, <5>2
      <4> QED BY <4>1, <4>2
    <3>2. ASSUME NEW i \in 1 .. Len(frames') PROVE frames'[i].present_id \in Known'
      BY <1>1, <1>2, <1>3, <1>5
    <3> QED BY <3>1, <3>2
  <2>3. ASSUME NEW i \in 1 .. Len(frames')
        PROVE  by_present_id'[frames'[i].present_id] = head_index' + i - 1
    <3>1. CASE i = Len(Kept) + 1
      BY <1>1, <1>3, <1>5, <3>1 DEF Adds
    <3>2. CASE i # Len(Kept) + 1
      <4>1. i \in 1 .. Len(Kept) /\ frames'[i] = Kept[i]
        BY <1>1, <1>2, <1>3, <3>2
      <4>2. Kept[i].present_id \in KeptIds /\ Kept[i].present_id # id
        BY <1>1, <1>5, <4>1
      <4>3. by_present_id'[Kept[i].present_id] = by_present_id[Kept[i].present_id]
        BY <4>2 DEF Adds
      <4>4. by_present_id[Kept[i].present_id]
              = head_index + (i + KeptHead - head_index) - 1
        BY <1>1, <4>1 DEF IInv, IndexCoherent
      <4> QED BY <1>1, <4>1, <4>3, <4>4 DEF Adds, IInv, TypeOK
    <3> QED BY <3>1, <3>2
  <2> QED BY <2>1, <2>2, <2>3 DEF IndexCoherent
<1>8. OwnTimes'
  <2>1. ASSUME NEW i \in 1 .. Len(frames')
        PROVE  /\ frames'[i].gpu_render \in {NoFrame, frames'[i].present_id}
               /\ frames'[i].displayed \in {NoFrame, frames'[i].present_id}
    <3>1. CASE i = Len(Kept) + 1
      BY <1>3, <3>1
    <3>2. CASE i # Len(Kept) + 1
      <4>1. i \in 1 .. Len(Kept) /\ frames'[i] = Kept[i]
        BY <1>1, <1>2, <1>3, <3>2
      <4> QED BY <1>1, <4>1 DEF IInv, OwnTimes
    <3> QED BY <3>1, <3>2
  <2> QED BY <2>1 DEF OwnTimes
<1> QED BY <1>6, <1>7, <1>8 DEF IInv

\* Every step is of one kind or the other, or changes nothing.
LEMMA StepKinds ==
  ASSUME IInv, [Next]_vars
  PROVE  \/ UNCHANGED vars
         \/ \E id \in PresentIds, f \in Frame :
              /\ f.present_id = id
              /\ f.gpu_render \in {NoFrame, id} /\ f.displayed \in {NoFrame, id}
              /\ (id \in Known /\ Rewrites(id, f)) \/ (id \notin Known /\ Adds(id, f))
<1> DEFINE Own(id, f) == /\ f \in Frame /\ f.present_id = id
                         /\ f.gpu_render \in {NoFrame, id} /\ f.displayed \in {NoFrame, id}
<1>1. ASSUME NEW id \in Known PROVE id \in PresentIds /\ Own(id, frames[Slot(id)])
  <2>1. Slot(id) \in 1 .. Len(frames) /\ frames[Slot(id)].present_id = id
    BY SlotIsFrame DEF IInv
  <2> QED BY <2>1 DEF IInv, OwnTimes, TypeOK
<1>2. ASSUME NEW id \in PresentIds, NEW m \in Marker, NEW t \in Time, record(id, m, t)
      PROVE  \E f \in Frame : /\ Own(id, f)
                              /\ \/ id \in Known /\ Rewrites(id, f)
                                 \/ id \notin Known /\ Adds(id, f)
  <2>1. CASE id \in Known
    <3> DEFINE f == Stamped(frames[Slot(id)], m, t)
    <3>1. Own(id, f)
      BY <1>1, <2>1, StampKeeps
    <3>2. frames' = [frames EXCEPT ![Slot(id)] = f] /\ UNCHANGED <<by_present_id, head_index>>
      BY <1>2, <2>1 DEF record
    <3> QED BY <2>1, <3>1, <3>2 DEF Rewrites
  <2>2. CASE id \notin Known
    <3> DEFINE f == Stamped(Fresh(id), m, t)
    <3>1. Own(id, Fresh(id))
      BY DEF Fresh, Frame, Stamp, NoFrame
    <3>2. Own(id, f)
      BY <3>1, StampKeeps
    <3>3. Adds(id, f)
      BY <1>2, <2>2 DEF record, Adds
    <3> QED BY <2>2, <3>2, <3>3
  <2> QED BY <2>1, <2>2
<1>3. ASSUME NEW id \in PresentIds, record_gpu_timing(id)
      PROVE  \E f \in Frame : Own(id, f) /\ id \in Known /\ Rewrites(id, f)
  <2> DEFINE f == [frames[Slot(id)] EXCEPT !.gpu_render = id]
  <2>1. id \in Known /\ Own(id, frames[Slot(id)])
    BY <1>1, <1>3 DEF record_gpu_timing
  <2>2. Own(id, f)
    BY <2>1 DEF Frame
  <2>3. Rewrites(id, f)
    BY <1>3 DEF record_gpu_timing, Rewrites
  <2> QED BY <2>1, <2>2, <2>3
<1>4. ASSUME NEW id \in PresentIds, NEW t \in Time, record_present_actual(id, t)
      PROVE  \E f \in Frame : Own(id, f) /\ id \in Known /\ Rewrites(id, f)
  <2> DEFINE f == [frames[Slot(id)] EXCEPT !.display_actual = t, !.displayed = id]
  <2>1. id \in Known /\ Own(id, frames[Slot(id)])
    BY <1>1, <1>4 DEF record_present_actual
  <2>2. Own(id, f)
    BY <2>1 DEF Frame, Stamp
  <2>3. Rewrites(id, f)
    BY <1>4 DEF record_present_actual, Rewrites
  <2> QED BY <2>1, <2>2, <2>3
<1> HIDE DEF Own
<1>5. CASE UNCHANGED vars
  BY <1>5
<1>6. CASE \E id \in PresentIds, m \in Marker, t \in Time : record(id, m, t)
  BY <1>2, <1>6 DEF Own
<1>7. CASE \E id \in PresentIds : record_gpu_timing(id)
  BY <1>3, <1>7 DEF Own
<1>8. CASE \E id \in PresentIds, t \in Time : record_present_actual(id, t)
  BY <1>4, <1>8 DEF Own
<1> QED BY <1>5, <1>6, <1>7, <1>8 DEF Next

-----------------------------------------------------------------------------
LEMMA InitHolds == Init => IInv
<1> SUFFICES ASSUME Init PROVE IInv
  OBVIOUS
<1>1. frames = <<>> /\ Len(frames) = 0 /\ head_index = 0 /\ Known = {}
  BY DEF Init, Known
<1>2. TypeOK
  BY <1>1 DEF TypeOK, Init
<1>3. IndexCoherent /\ OwnTimes
  BY <1>1 DEF IndexCoherent, OwnTimes
<1> QED BY <1>2, <1>3 DEF IInv

LEMMA StepKeeps == IInv /\ [Next]_vars => IInv'
<1> SUFFICES ASSUME IInv, [Next]_vars PROVE IInv'
  OBVIOUS
<1>1. CASE UNCHANGED vars
  BY <1>1 DEF IInv, TypeOK, IndexCoherent, OwnTimes, Known, vars
<1>2. CASE \E id \in PresentIds, f \in Frame :
             /\ f.present_id = id
             /\ f.gpu_render \in {NoFrame, id} /\ f.displayed \in {NoFrame, id}
             /\ (id \in Known /\ Rewrites(id, f)) \/ (id \notin Known /\ Adds(id, f))
  <2>1. PICK id \in PresentIds, f \in Frame :
          /\ f.present_id = id
          /\ f.gpu_render \in {NoFrame, id} /\ f.displayed \in {NoFrame, id}
          /\ (id \in Known /\ Rewrites(id, f)) \/ (id \notin Known /\ Adds(id, f))
    BY <1>2
  <2>2. CASE id \in Known /\ Rewrites(id, f)
    BY <2>1, <2>2, RewriteKeeps
  <2>3. CASE id \notin Known /\ Adds(id, f)
    BY <2>1, <2>3, AddKeeps
  <2> QED BY <2>1, <2>2, <2>3
<1> QED BY <1>1, <1>2, StepKinds

LEMMA Invariance == Spec => []IInv
BY InitHolds, StepKeeps, PTL DEF Spec

\* The history keeps its shape: frames, ids and numbers of the right kind.
THEOREM TypeCorrect == Spec => []TypeOK
<1>1. IInv => TypeOK
  BY DEF IInv
<1> QED BY <1>1, Invariance, PTL

\* The index always leads to the right frame, through evictions, late times
\* and ids that come back (record, record_gpu_timing, record_present_actual).
THEOREM IndexSafe == Spec => []IndexCoherent
<1>1. IInv => IndexCoherent
  BY DEF IInv
<1> QED BY <1>1, Invariance, PTL

\* A measured time is only ever in the entry of the frame it was measured for.
THEOREM TimesStayPut == Spec => []OwnTimes
<1>1. IInv => OwnTimes
  BY DEF IInv
<1> QED BY <1>1, Invariance, PTL

\* fill never writes past the application's buffer, and reports newest first.
THEOREM ReportInOrder == Spec => []ReportNewestFirst
<1>1. IInv => ReportNewestFirst
  <2> SUFFICES ASSUME IInv, NEW room \in 0 .. HistoryCap + 1
               PROVE  /\ Len(fill(room)) = Least(room, fill_null)
                      /\ \A i \in 1 .. Len(fill(room)) :
                           by_present_id[fill(room)[i].present_id]
                             = head_index + Len(frames) - i
    BY DEF ReportNewestFirst
  <2> DEFINE n == Least(room, Len(frames))
  <2>1. Len(frames) \in Nat /\ n \in Nat /\ n <= room /\ n <= Len(frames)
    BY DEF IInv, TypeOK, Least
  <2>2. Len(fill(room)) = n
    BY <2>1 DEF fill
  <2>3. ASSUME NEW i \in 1 .. n
        PROVE  by_present_id[fill(room)[i].present_id] = head_index + Len(frames) - i
    <3>1. Len(frames) + 1 - i \in 1 .. Len(frames)
      BY <2>1
    <3>2. fill(room)[i].present_id = frames[Len(frames) + 1 - i].present_id
      BY DEF fill, Report
    <3>3. by_present_id[frames[Len(frames) + 1 - i].present_id]
            = head_index + (Len(frames) + 1 - i) - 1
      BY <3>1 DEF IInv, IndexCoherent
    <3> QED BY <2>1, <3>2, <3>3 DEF IInv, TypeOK
  <2> QED BY <2>1, <2>2, <2>3 DEF fill_null
<1> QED BY <1>1, Invariance, PTL

-----------------------------------------------------------------------------
(* The history implements RecentFrames. *)

recent == [i \in 1 .. Len(frames) |-> frames[i].present_id]

\* The ids of a sequence of frames, in order.
LEMMA IdsInOrder ==
  ASSUME NEW s \in Seq(Frame), NEW r, r = [i \in 1 .. Len(s) |-> s[i].present_id]
  PROVE  r \in Seq(PresentIds) /\ Len(r) = Len(s)
         /\ \A i \in 1 .. Len(s) : r[i] = s[i].present_id
<1>1. \A f \in Frame : f.present_id \in PresentIds
  BY DEF Frame
<1>2. Len(s) \in Nat /\ \A i \in 1 .. Len(s) : s[i] \in Frame
  BY LenProperties
<1>3. r \in [1 .. Len(s) -> PresentIds]
  BY <1>1, <1>2
<1>4. r \in Seq(PresentIds)
  BY <1>2, <1>3, SeqDef
<1> QED BY <1>2, <1>3, <1>4, LenProperties

LEMMA RewriteStutters ==
  ASSUME IInv, NEW id \in Known, NEW f \in Frame, f.present_id = id,
         f.gpu_render \in {NoFrame, id}, f.displayed \in {NoFrame, id},
         Rewrites(id, f)
  PROVE  recent' = recent
<1>1. /\ Len(frames') = Len(frames)
      /\ \A i \in 1 .. Len(frames) : frames'[i].present_id = frames[i].present_id
  BY RewriteKeeps
<1> QED BY <1>1 DEF recent

LEMMA AddIsNew ==
  ASSUME IInv, NEW id \in PresentIds \ Known, NEW f \in Frame, f.present_id = id,
         Adds(id, f)
  PROVE  Recent!New(id)
<1>1. recent \in Seq(PresentIds) /\ Len(recent) = Len(frames)
      /\ \A i \in 1 .. Len(recent) : recent[i] = frames[i].present_id
  BY IdsInOrder DEF recent, IInv, TypeOK
<1>2. ~ \E i \in 1 .. Len(recent) : recent[i] = id
  BY <1>1 DEF IInv, IndexCoherent
<1>3. Kept \in Seq(Frame)
  BY EvictionKeeps DEF IInv
<1>4. /\ frames' \in Seq(Frame) /\ Len(frames') = Len(Kept) + 1
      /\ \A i \in 1 .. Len(frames') : frames'[i] = IF i = Len(Kept) + 1 THEN f ELSE Kept[i]
  BY <1>3, AppendProperties DEF Adds
<1> DEFINE s == IF Len(recent) < HistoryCap THEN recent ELSE Tail(recent)
<1>5. s \in Seq(PresentIds) /\ Len(s) = Len(Kept)
      /\ \A i \in 1 .. Len(s) : s[i] = Kept[i].present_id
  <2>1. CASE ~Full
    <3>1. Len(frames) < HistoryCap /\ Kept = frames
      BY <2>1 DEF Full, Kept, IInv, TypeOK, IndexCoherent
    <3> QED BY <1>1, <3>1
  <2>2. CASE Full
    <3>1. Len(frames) = HistoryCap /\ Kept = Tail(frames) /\ frames # <<>> /\ recent # <<>>
      BY <1>1, <2>2 DEF Full, Kept, IInv, TypeOK
    <3>2. frames \in Seq(Frame)
      BY DEF IInv, TypeOK
    <3>3. Len(Kept) = Len(frames) - 1 /\ \A i \in 1 .. Len(Kept) : Kept[i] = frames[i + 1]
      BY <3>1, <3>2, HeadTailProperties
    <3>4. s = Tail(recent)
      BY <1>1, <3>1
    <3>5. s \in Seq(PresentIds) /\ Len(s) = Len(recent) - 1
          /\ \A i \in 1 .. Len(s) : s[i] = recent[i + 1]
      BY <1>1, <3>1, <3>4, HeadTailProperties
    <3> QED BY <1>1, <3>3, <3>5
  <2> QED BY <2>1, <2>2
<1>6. recent' = Append(s, id)
  <2> HIDE DEF s
  <2>1. recent' = [i \in 1 .. Len(frames') |-> frames'[i].present_id]
    BY DEF recent
  <2>2. recent' \in Seq(PresentIds) /\ Len(recent') = Len(Kept) + 1
    BY <1>4, <2>1, IdsInOrder
  <2>3. Append(s, id) \in Seq(PresentIds) /\ Len(Append(s, id)) = Len(Kept) + 1
        /\ \A i \in 1 .. Len(Kept) + 1 :
             Append(s, id)[i] = IF i = Len(Kept) + 1 THEN id ELSE s[i]
    BY <1>5, AppendProperties
  <2>4. \A i \in 1 .. Len(Kept) + 1 : recent'[i] = Append(s, id)[i]
    BY <1>3, <1>4, <1>5, <2>1, <2>3
  <2> QED BY <2>2, <2>3, <2>4, SeqEqual
<1>7. recent' = IF Len(recent) < HistoryCap THEN Append(recent, id)
                                            ELSE Append(Tail(recent), id)
  BY <1>6
<1> QED BY <1>2, <1>7 DEF Recent!New, Recent!Shown, recent

\* The frames shown are the last HistoryCap that were new, each once and in
\* order, and only a marker of an unknown frame changes which they are.
THEOREM Implements == Spec => ShowsRecent
<1>1. Init => Recent!Init
  BY DEF Init, Recent!Init
<1>2. IInv /\ [Next]_vars => [Recent!Next]_recent
  <2> SUFFICES ASSUME IInv, [Next]_vars PROVE [Recent!Next]_recent
    OBVIOUS
  <2>1. CASE UNCHANGED vars
    BY <2>1 DEF vars, recent
  <2>2. CASE \E id \in PresentIds, f \in Frame :
               /\ f.present_id = id
               /\ f.gpu_render \in {NoFrame, id} /\ f.displayed \in {NoFrame, id}
               /\ (id \in Known /\ Rewrites(id, f)) \/ (id \notin Known /\ Adds(id, f))
    <3>1. PICK id \in PresentIds, f \in Frame :
            /\ f.present_id = id
            /\ f.gpu_render \in {NoFrame, id} /\ f.displayed \in {NoFrame, id}
            /\ (id \in Known /\ Rewrites(id, f)) \/ (id \notin Known /\ Adds(id, f))
      BY <2>2
    <3>2. CASE id \in Known /\ Rewrites(id, f)
      BY <3>1, <3>2, RewriteStutters
    <3>3. CASE id \notin Known /\ Adds(id, f)
      BY <3>1, <3>3, AddIsNew DEF Recent!Next
    <3> QED BY <3>1, <3>2, <3>3
  <2> QED BY <2>1, <2>2, StepKinds
<1> QED BY <1>1, <1>2, Invariance, PTL DEF Spec, ShowsRecent, Recent!Spec, recent

-----------------------------------------------------------------------------
(* Induction over the frames of the ring, by the least counterexample.      *)

\* A set of naturals with 0 and the successor of each of its members holds all.
LEMMA NatSetInduction ==
  ASSUME NEW S, NEW N \in Nat, 0 \in S, \A i \in 0 .. N - 1 : i \in S => i + 1 \in S
  PROVE  \A i \in 0 .. N : i \in S
<1> DEFINE B == {i \in 0 .. N : i \notin S}
<1>1. SUFFICES ASSUME B # {} PROVE FALSE
  OBVIOUS
<1>2. PICK m \in B : \A i \in B : m <= i
  <2>1. B \in SUBSET Nat  OBVIOUS
  <2>. HIDE DEF B
  <2>. QED  BY <1>1, <2>1, LeastNatural
<1>3. m \in 1 .. N /\ m - 1 \in 0 .. N - 1 /\ m \notin S  BY <1>2
<1>4. m - 1 \in S  BY <1>2, <1>3
<1>5. (m - 1) + 1 \in S  BY <1>3, <1>4
<1>. QED  BY <1>3, <1>5

\* A state that is folded over N steps: the recursion has a solution.
Folds(f, n, S, b, F) == f \in [0 .. n -> S] /\ f[0] = b /\ \A i \in 1 .. n : f[i] = F[i][f[i - 1]]

LEMMA RecursionExists ==
  ASSUME NEW N \in Nat, NEW S, NEW b \in S, NEW F \in [1 .. N -> [S -> S]]
  PROVE  \E f : Folds(f, N, S, b, F)
<1> DEFINE Upto(n, f) == f \in [0 .. n -> S] /\ f[0] = b /\ \A i \in 1 .. n : f[i] = F[i][f[i - 1]]
           G == {n \in 0 .. N : \E f : Upto(n, f)}
<1>1. 0 \in G
  <2>1. Upto(0, [i \in 0 .. 0 |-> b])  OBVIOUS
  <2>. HIDE DEF Upto
  <2>. QED  BY <2>1
<1>2. ASSUME NEW n \in 0 .. N - 1, n \in G  PROVE n + 1 \in G
  <2>1. PICK f : Upto(n, f)  BY <1>2
  <2>2. n + 1 \in 1 .. N /\ n \in 0 .. n /\ n + 1 \notin 0 .. n  BY <1>2
  <2>3. F[n + 1] \in [S -> S] /\ f[n] \in S  BY <2>1, <2>2
  <2>4. PICK e \in S : e = F[n + 1][f[n]]  BY <2>3
  <2> DEFINE g == [i \in 0 .. n + 1 |-> IF i = n + 1 THEN e ELSE f[i]]
  <2>5. g \in [0 .. n + 1 -> S] /\ g[0] = b  BY <2>1, <2>2
  <2>6. ASSUME NEW i \in 1 .. n + 1  PROVE g[i] = F[i][g[i - 1]]
    <3>1. CASE i = n + 1
      <4>1. g[i] = e /\ g[i - 1] = f[n]  BY <2>2, <3>1
      <4>. QED  BY <2>4, <3>1, <4>1
    <3>2. CASE i \in 1 .. n
      <4>1. g[i] = f[i] /\ g[i - 1] = f[i - 1]  BY <2>2, <3>2
      <4>. QED  BY <2>1, <3>2, <4>1
    <3>. QED  BY <3>1, <3>2
  <2>7. Upto(n + 1, g)  BY <2>5, <2>6
  <2>. HIDE DEF Upto, g
  <2>. QED  BY <2>2, <2>7
<1>3. N \in G
  <2>. HIDE DEF G
  <2>1. \A i \in 0 .. N - 1 : i \in G => i + 1 \in G  BY <1>2
  <2>2. \A i \in 0 .. N : i \in G  BY <1>1, <2>1, NatSetInduction
  <2>. QED  BY <2>2
<1>4. PICK f : Upto(N, f)  BY <1>3
<1>. QED  BY <1>4 DEF Folds

-----------------------------------------------------------------------------
(* The two readers of the latencies *)

\* The window frame by frame: one more latency for each frame that has one.
LEMMA WindowIs ==
  ASSUME TypeOK
  PROVE  LET Measures == Seq({Latency(frames[i]) : i \in 1 .. Len(frames)}) IN
         /\ \A i \in 0 .. Len(frames) : Window[i] \in Measures
         /\ Window[0] = <<>>
         /\ \A i \in 1 .. Len(frames) :
              Window[i] = IF Measurable(frames[i]) THEN Append(Window[i - 1], Latency(frames[i]))
                                                   ELSE Window[i - 1]
<1> DEFINE N == Len(frames)
           L == {Latency(frames[i]) : i \in 1 .. N}
           S == Seq(L)
           Add(i, w) == IF Measurable(frames[i]) THEN Append(w, Latency(frames[i])) ELSE w
           F == [i \in 1 .. N |-> [w \in S |-> Add(i, w)]]
           Step(f) == [i \in 0 .. N |-> IF i = 0 THEN <<>> ELSE Add(i, f[i - 1])]
<1>0. N \in Nat  BY LenProperties DEF TypeOK
<1>1. <<>> \in S  BY EmptySeq
<1>2. ASSUME NEW w \in S, NEW i \in 1 .. N  PROVE Add(i, w) \in S
  <2>1. Latency(frames[i]) \in L  OBVIOUS
  <2>. HIDE DEF L
  <2>. QED  BY <2>1, AppendProperties
<1>3. F \in [1 .. N -> [S -> S]]
  <2>. HIDE DEF S, Add
  <2>. QED  BY <1>2
<1>4. \E f : f = Step(f)
  <2>. HIDE DEF S
  <2>1. PICK f \in [0 .. N -> S] : f[0] = <<>> /\ \A i \in 1 .. N : f[i] = F[i][f[i - 1]]
    <3>. HIDE DEF F, N
    <3>1. PICK e \in S : e = <<>>  BY <1>1
    <3>2. PICK f : Folds(f, N, S, e, F)  BY <1>0, <1>3, RecursionExists
    <3>. QED  BY <3>1, <3>2 DEF Folds
  <2>2. ASSUME NEW i \in 1 .. N  PROVE F[i][f[i - 1]] = Add(i, f[i - 1])
    <3>1. f[i - 1] \in S  BY <1>0
    <3>. HIDE DEF Add
    <3>. QED  BY <3>1
  <2>3. \A i \in 0 .. N : f[i] = IF i = 0 THEN <<>> ELSE Add(i, f[i - 1])
    <3>. HIDE DEF F, Add
    <3>. QED  BY <1>0, <2>1, <2>2
  <2>. HIDE DEF Add
  <2>. QED  BY <2>3
<1>5. Window = CHOOSE f : f = Step(f)
  BY DEF Window
<1>6. Window = Step(Window)
  <2>. HIDE DEF Step
  <2>. QED  BY <1>4, <1>5
<1>7. Window[0] = <<>> /\ \A i \in 1 .. N : Window[i] = Add(i, Window[i - 1])
  <2>. HIDE DEF Add
  <2>. QED  BY <1>0, <1>6
<1>8. \A i \in 0 .. N : Window[i] \in S
  <2> DEFINE T == {i \in 0 .. N : Window[i] \in S}
  <2>. HIDE DEF S, Add, N
  <2>1. 0 \in T  BY <1>0, <1>1, <1>7
  <2>2. ASSUME NEW i \in 0 .. N - 1, i \in T  PROVE i + 1 \in T
    <3>1. i + 1 \in 1 .. N /\ (i + 1) - 1 = i  BY <1>0
    <3>2. Window[i + 1] = Add(i + 1, Window[i])  BY <1>7, <3>1
    <3>. QED  BY <1>0, <1>2, <2>2, <3>1, <3>2
  <2>3. \A i \in 0 .. N : i \in T
    <3>. HIDE DEF T
    <3>1. \A i \in 0 .. N - 1 : i \in T => i + 1 \in T  BY <2>2
    <3>. QED  BY <1>0, <2>1, <3>1, NatSetInduction
  <2>. QED  BY <2>3
<1>. QED  BY <1>7, <1>8

\* The newest of the first i frames that has a latency ends their window.
EndsWith(i) ==
  LET M == {j \in 1 .. i : Measurable(frames[j])}
  IN \/ M = {} /\ Window[i] = <<>>
     \/ \E n \in M : /\ \A j \in M : j <= n
                     /\ Window[i] # <<>> /\ Window[i][Len(Window[i])] = Latency(frames[n])

LEMMA WindowEnds ==
  ASSUME TypeOK
  PROVE  EndsWith(Len(frames))
<1>0. PICK N \in Nat : N = Len(frames)  BY LenProperties DEF TypeOK
<1> DEFINE T == {i \in 0 .. N : EndsWith(i)}
<1>1. 0 \in T
  BY WindowIs DEF EndsWith
<1>2. ASSUME NEW i \in 0 .. N - 1, i \in T  PROVE i + 1 \in T
  <2>1. i + 1 \in 1 .. N /\ (i + 1) - 1 = i /\ i \in 0 .. N /\ i + 1 \in 0 .. N  BY <1>0
  <2>2. EndsWith(i)  BY <1>2
  <2>3. CASE Measurable(frames[i + 1])
    <3>1. Window[i + 1] = Append(Window[i], Latency(frames[i + 1]))
      BY <1>0, <2>1, <2>3, WindowIs
    <3>2. PICK L : Window[i] \in Seq(L) /\ Latency(frames[i + 1]) \in L
      BY <1>0, <2>1, WindowIs
    <3>3. Window[i + 1] # <<>> /\ Window[i + 1][Len(Window[i + 1])] = Latency(frames[i + 1])
      <4>1. Len(Window[i + 1]) = Len(Window[i]) + 1 /\ Window[i + 1] \in Seq(L)
            /\ Window[i + 1][Len(Window[i]) + 1] = Latency(frames[i + 1])
        BY <3>1, <3>2, AppendProperties
      <4>2. Len(Window[i]) \in Nat  BY <3>2, LenProperties
      <4>3. Window[i + 1] # <<>>  BY <4>1, <4>2, EmptySeq
      <4>. QED  BY <4>1, <4>3
    <3>4. i + 1 \in {j \in 1 .. i + 1 : Measurable(frames[j])}  BY <2>1, <2>3
    <3>5. \A j \in {l \in 1 .. i + 1 : Measurable(frames[l])} : j <= i + 1  BY <2>1
    <3>6. EndsWith(i + 1)  BY <3>3, <3>4, <3>5 DEF EndsWith
    <3>. QED  BY <2>1, <3>6
  <2>4. CASE ~Measurable(frames[i + 1])
    <3>1. Window[i + 1] = Window[i]
      BY <1>0, <2>1, <2>4, WindowIs
    <3>2. {j \in 1 .. i + 1 : Measurable(frames[j])} = {j \in 1 .. i : Measurable(frames[j])}
      <4>1. \A j : j \in 1 .. i + 1 <=> j \in 1 .. i \/ j = i + 1  BY <1>0
      <4>. QED  BY <2>4, <4>1
    <3>3. EndsWith(i + 1)  BY <2>2, <3>1, <3>2 DEF EndsWith
    <3>. QED  BY <2>1, <3>3
  <2>. QED  BY <2>3, <2>4
<1>3. \A i \in 0 .. N : i \in T
  <2>1. \A i \in 0 .. N - 1 : i \in T => i + 1 \in T  BY <1>2
  <2>. HIDE DEF T
  <2>. QED  BY <1>1, <2>1, NatSetInduction
<1>. QED  BY <1>0, <1>3

\* LatestEndsWindow, for any ring: the search from the newest frame and the walk
\* from the oldest agree on the newest latency (latest_latency_us, latencies_us).
THEOREM OneMeasure == Spec => []LatestEndsWindow
<1>1. TypeOK => LatestEndsWindow
  <2> SUFFICES ASSUME TypeOK PROVE LatestEndsWindow
    OBVIOUS
  <2> DEFINE M == {i \in 1 .. Len(frames) : Measurable(frames[i])}
  <2>1. \/ M = {} /\ Window[Len(frames)] = <<>>
        \/ \E n \in M : /\ \A j \in M : j <= n
                        /\ Window[Len(frames)] # <<>>
                        /\ Window[Len(frames)][Len(Window[Len(frames)])] = Latency(frames[n])
    BY WindowEnds DEF EndsWith
  <2>2. latest_latency_us = IF M = {} THEN 0
                            ELSE Latency(frames[CHOOSE i \in M : \A j \in M : j <= i])
    BY DEF latest_latency_us
  <2>3. ASSUME NEW n \in M, \A j \in M : j <= n
        PROVE  (CHOOSE i \in M : \A j \in M : j <= i) = n
    <3>1. M \subseteq Int  OBVIOUS
    <3>2. \A i \in M : (\A j \in M : j <= i) => i = n
      <4>. HIDE DEF M
      <4>. QED  BY <2>3, <3>1
    <3>. HIDE DEF M
    <3>. QED  BY <2>3, <3>2
  <2>. HIDE DEF M
  <2>4. CASE M = {}
    BY <2>1, <2>2, <2>4 DEF LatestEndsWindow, latencies_us
  <2>5. CASE M # {}
    <3>1. PICK n \in M : /\ \A j \in M : j <= n
                         /\ latencies_us # <<>>
                         /\ latencies_us[Len(latencies_us)] = Latency(frames[n])
      BY <2>1, <2>5 DEF latencies_us
    <3>. QED  BY <2>2, <2>3, <2>5, <3>1 DEF LatestEndsWindow
  <2>. QED  BY <2>4, <2>5
<1>. QED  BY TypeCorrect, <1>1, PTL
=============================================================================
