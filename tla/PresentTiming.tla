---------------------------- MODULE PresentTiming ----------------------------
(***************************************************************************)
(* present_wait.rs: the worker that learns when presents reach the         *)
(* display, and the end of queue_present_khr that feeds it.  A device has  *)
(* one of two workers.  "khr" waits for each present in turn with          *)
(* vkWaitForPresentKHR; "google" polls VK_GOOGLE_display_timing, whose     *)
(* records do not name the present, and pairs them with a queue of ids.    *)
(*                                                                         *)
(* A present is its number in the order of the vkQueuePresentKHR calls; it *)
(* carries its number as its present id, or none (0).  The display times   *)
(* go to the marker history, which is the sequence recorded here.          *)
(***************************************************************************)
EXTENDS Integers, Sequences

CONSTANTS Swapchains,   \* swapchain handles; a destroyed one is used again
          PendingCap,   \* GOOGLE_PENDING_CAP
          PollCap,      \* records fetched by one poll (64)
          MaxPresents,  \* bound: presents
          MaxSwapchains \* bound: swapchains created

ASSUME TimingAssumption ==
  /\ PendingCap \in Nat \ {0} /\ PollCap \in Nat \ {0}
  /\ MaxPresents \in Nat /\ MaxSwapchains \in Nat

VARIABLES
  source,     \* which worker the device has
  monotonic,  \* is CLOCK_MONOTONIC the domain of the driver's times?
  life,       \* handle -> number of the swapchain that has it, 0 for none
  lives,      \* number of swapchains created
  presents,   \* the presents the driver was given
  caller,     \* the present that is in vkQueuePresentKHR, 0 for none
  shown,      \* the presents that have reached the display
  reports,    \* swapchain number -> presents whose record was not fetched yet
  queue,      \* PresentWaitWorker: the queue
  notifying,  \* the caller is between push and notify_one
  pending,    \* GoogleTimingWorker: handle -> ids
  domain,     \* GoogleTimingWorker: the clock domain
  worker,     \* the position of the worker
  item,       \* KHR: the present it waits for
  todo, sw,   \* GOOGLE: the handles left of the snapshot; the one just polled
  scratch,    \* GOOGLE: the records fetched
  recorded,   \* what was recorded: for which present, from whose time, and its kind
  slipped     \* (history) swapchain numbers whose ids and records went out of step

appVars  == <<life, lives, presents, caller, slipped>>
drvVars  == <<source, monotonic, shown>>
khrVars  == <<queue, notifying, item>>
googVars == <<pending, domain, todo, sw, scratch>>
timingVars == <<appVars, drvVars, reports, khrVars, googVars, worker, recorded>>

Present == 1 .. MaxPresents
Life    == 1 .. MaxSwapchains
Sample  == {"zero", "near", "far"}  \* actual_present_time against the host clock
Watched == DOMAIN pending
NoSwapchain == "none"

TimingTypeOK ==
  /\ source \in {"khr", "google"} /\ monotonic \in BOOLEAN
  /\ lives \in 0 .. MaxSwapchains /\ life \in [Swapchains -> 0 .. lives]
  /\ presents \in Seq([handle : Swapchains, life : Life, id : 0 .. MaxPresents, ok : BOOLEAN])
  /\ caller \in 0 .. Len(presents)
  /\ shown \subseteq 1 .. Len(presents)
  /\ reports \in [Life -> Seq(Present)]
  /\ queue \in Seq(Present) /\ notifying \in BOOLEAN /\ item \in 0 .. Len(presents)
  /\ pending \in [Watched -> Seq(Present)] /\ Watched \subseteq Swapchains
  /\ domain \in {"Unvalidated", "Monotonic", "Unknown"}
  /\ worker \in {"drain", "wait", "lock", "committed", "parked", "poll", "pair"}
  /\ todo \subseteq Swapchains /\ sw \in Swapchains \cup {NoSwapchain}
  /\ scratch \in Seq([of : Present, time : Sample])
  /\ recorded \in Seq([for : Present, of : Present, time : Sample \cup {"now"}])
  /\ slipped \subseteq Life

TimingInit ==
  /\ source \in {"khr", "google"} /\ monotonic \in BOOLEAN /\ (source = "khr" => monotonic)
  /\ life = [h \in Swapchains |-> 0] /\ lives = 0
  /\ presents = <<>> /\ caller = 0 /\ shown = {}
  /\ reports = [l \in Life |-> <<>>]
  /\ queue = <<>> /\ notifying = FALSE /\ item = 0
  /\ pending = [h \in {} |-> <<>>] /\ domain = "Unvalidated"
  /\ worker = IF source = "khr" THEN "drain" ELSE "poll"
  /\ todo = {} /\ sw = NoSwapchain /\ scratch = <<>>
  /\ recorded = <<>> /\ slipped = {}

Fewer(m, n) == IF m <= n THEN m ELSE n
Without(f, k) == [x \in DOMAIN f \ {k} |-> f[x]]
With(f, k, v) == [x \in DOMAIN f \cup {k} |-> IF x = k THEN v ELSE f[x]]

-----------------------------------------------------------------------------
(* The application: one thread presents, creates and destroys swapchains.  *)

create_swapchain(h) ==
  /\ caller = 0 /\ life[h] = 0 /\ lives < MaxSwapchains
  /\ lives' = lives + 1
  /\ life' = [life EXCEPT ![h] = lives + 1]
  /\ UNCHANGED <<presents, caller, slipped, drvVars, reports, khrVars, googVars, worker,
                 recorded>>

\* destroy_swapchain_khr: forget_swapchain, then the driver's destruction.
Forgotten(h) == Without(pending, h)

destroy_swapchain(h) ==
  /\ caller = 0 /\ life[h] # 0
  /\ life' = [life EXCEPT ![h] = 0]
  /\ pending' = Forgotten(h)
  /\ UNCHANGED <<lives, presents, caller, slipped, drvVars, reports, khrVars, domain, todo, sw,
                 scratch, worker, recorded>>

\* The driver's vkQueuePresentKHR.  A present without an id has a record and
\* no place in the queue of ids, one that fails the reverse.
queue_present(h, id, ok) ==
  LET n == Len(presents) + 1
  IN /\ caller = 0 /\ life[h] # 0 /\ n <= MaxPresents
     /\ presents' = Append(presents, [handle |-> h, life |-> life[h], id |-> id, ok |-> ok])
     /\ caller' = n
     /\ slipped' = IF (id # 0) = ok THEN slipped ELSE slipped \cup {life[h]}
     /\ UNCHANGED <<life, lives, drvVars, reports, khrVars, googVars, worker, recorded>>

\* Back from the driver: whatever it answered, the id goes to the worker, and
\* a present without one to none.
Slip_AnyId(n) == TRUE
HasId(n) == presents[n].id # 0

NothingToEnqueue ==
  /\ caller # 0 /\ ~HasId(caller)
  /\ caller' = 0
  /\ UNCHANGED <<life, lives, presents, slipped, drvVars, reports, khrVars, googVars, worker,
                 recorded>>

enqueue_khr ==
  /\ caller # 0 /\ HasId(caller) /\ source = "khr" /\ ~notifying
  /\ queue' = Append(queue, caller)
  /\ notifying' = TRUE
  /\ UNCHANGED <<appVars, drvVars, reports, item, googVars, worker, recorded>>

notify_khr ==
  /\ notifying /\ worker # "committed"
  /\ notifying' = FALSE /\ caller' = 0
  /\ worker' = IF worker = "parked" THEN "drain" ELSE worker
  /\ UNCHANGED <<life, lives, presents, slipped, drvVars, reports, queue, item, googVars,
                 recorded>>

Fifo(h) == IF h \in Watched THEN pending[h] ELSE <<>>

Overfull(fifo) == Len(fifo) >= PendingCap

Slip_PushFront(fifo, id) == <<id>> \o fifo
Pushed(fifo, id) == Append(IF Overfull(fifo) THEN Tail(fifo) ELSE fifo, id)

enqueue_google ==
  LET h == presents[caller].handle
  IN /\ caller # 0 /\ HasId(caller) /\ source = "google"
     /\ pending' = With(pending, h, Pushed(Fifo(h), presents[caller].id))
     /\ slipped' = IF Overfull(Fifo(h)) THEN slipped \cup {life[h]} ELSE slipped
     /\ caller' = 0
     /\ UNCHANGED <<life, lives, presents, drvVars, reports, khrVars, domain, todo, sw, scratch,
                    worker, recorded>>

-----------------------------------------------------------------------------
(* The display, in the order of the presents of a swapchain.               *)

Show(n) ==
  LET l == presents[n].life
  IN /\ presents[n].ok /\ life[presents[n].handle] = l /\ n \notin shown
     /\ \A m \in 1 .. n - 1 : (presents[m].life = l /\ presents[m].ok) => m \in shown
     /\ shown' = shown \cup {n}
     /\ reports' = IF source = "google" THEN [reports EXCEPT ![l] = Append(@, n)] ELSE reports
     /\ UNCHANGED <<appVars, source, monotonic, khrVars, googVars, worker, recorded>>

-----------------------------------------------------------------------------
(* run: the vkWaitForPresentKHR worker.                                    *)

Record(for, of, time) == [for |-> for, of |-> of, time |-> time]

KhrPop ==
  /\ source = "khr" /\ worker = "drain" /\ queue # <<>>
  /\ item' = Head(queue) /\ queue' = Tail(queue)
  /\ worker' = "wait"
  /\ UNCHANGED <<appVars, drvVars, reports, notifying, googVars, recorded>>

\* SUCCESS: the swapchain that has the handle now has shown the id, or a
\* later one.
Reached(m) == /\ m \in shown /\ m >= item /\ presents[m].id # 0
              /\ presents[m].handle = presents[item].handle
              /\ presents[m].life = life[presents[m].handle]

KhrShown ==
  /\ worker = "wait"
  /\ \E m \in Present : /\ Reached(m)
                        /\ \A k \in Present : Reached(k) => m <= k
                        /\ recorded' = Append(recorded, Record(item, m, "now"))
  /\ worker' = "drain" /\ item' = 0
  /\ UNCHANGED <<appVars, drvVars, reports, queue, notifying, googVars>>

\* TIMEOUT, or an error: the present is dropped.
KhrGivesUp ==
  /\ worker = "wait"
  /\ worker' = "drain" /\ item' = 0
  /\ UNCHANGED <<appVars, drvVars, reports, queue, notifying, googVars, recorded>>

KhrDrained ==
  /\ source = "khr" /\ worker = "drain" /\ queue = <<>>
  /\ worker' = "lock"
  /\ UNCHANGED <<appVars, drvVars, reports, khrVars, googVars, recorded>>

Slip_NoRecheck == TRUE
NothingQueued == queue = <<>>

KhrRecheck ==
  /\ worker = "lock"
  /\ worker' = IF NothingQueued THEN "committed" ELSE "drain"
  /\ UNCHANGED <<appVars, drvVars, reports, khrVars, googVars, recorded>>

KhrPark ==
  /\ worker = "committed"
  /\ worker' = "parked"
  /\ UNCHANGED <<appVars, drvVars, reports, khrVars, googVars, recorded>>

Khr == KhrPop \/ KhrShown \/ KhrGivesUp \/ KhrDrained \/ KhrRecheck \/ KhrPark

-----------------------------------------------------------------------------
(* run_google: the polling worker.  Its wait between rounds has a timeout. *)

Snapshot ==
  /\ worker = "poll" /\ todo = {} /\ Watched # {}
  /\ todo' = Watched
  /\ UNCHANGED <<appVars, drvVars, reports, khrVars, pending, domain, sw, scratch, worker,
                 recorded>>

\* No record, or an error of the driver.
PollNothing(h) ==
  /\ worker = "poll" /\ h \in todo
  /\ todo' = todo \ {h}
  /\ UNCHANGED <<appVars, drvVars, reports, khrVars, pending, domain, sw, scratch, worker,
                 recorded>>

\* The driver's records are in its own clock; it may leave a time out.
Samples == {"zero", IF monotonic THEN "near" ELSE "far"}

Unfetched(r, k) == SubSeq(r, k + 1, Len(r))

Poll(h) ==
  LET r == reports[life[h]]
  IN /\ worker = "poll" /\ h \in todo /\ life[h] # 0 /\ r # <<>>
     /\ \E k \in 1 .. Fewer(PollCap, Len(r)) :
          /\ \E time \in [1 .. k -> Samples] :
               scratch' = [i \in 1 .. k |-> [of |-> r[i], time |-> time[i]]]
          /\ reports' = [reports EXCEPT ![life[h]] = Unfetched(r, k)]
     /\ todo' = todo \ {h} /\ sw' = h /\ worker' = "pair"
     /\ UNCHANGED <<appVars, drvVars, khrVars, pending, domain, recorded>>

\* The domain is settled by the first time that is not zero.
FirstTime ==
  LET S == {i \in DOMAIN scratch : scratch[i].time # "zero"}
  IN IF S = {} THEN "zero" ELSE scratch[CHOOSE i \in S : \A j \in S : i <= j].time

Validated ==
  IF domain # "Unvalidated" THEN domain
  ELSE CASE FirstTime = "near" -> "Monotonic"
         [] FirstTime = "far"  -> "Unknown"
         [] FirstTime = "zero" -> "Unvalidated"

HostTime(time) == IF Validated = "Monotonic" /\ time # "zero" THEN time ELSE "now"

\* Pair the records with the oldest ids; records without an id are dropped.
Unpaired(fifo, k) == SubSeq(fifo, k + 1, Len(fifo))

Pair ==
  LET fifo == pending[sw]
      k == Fewer(Len(fifo), Len(scratch))
      lifeOf(i) == presents[scratch[i].of].life
  IN /\ worker = "pair" /\ sw \in Watched
     /\ domain' = Validated
     /\ recorded' = recorded \o [i \in 1 .. k |-> Record(fifo[i], scratch[i].of,
                                                         HostTime(scratch[i].time))]
     /\ pending' = [pending EXCEPT ![sw] = Unpaired(fifo, k)]
     /\ slipped' = slipped \cup
          (IF k < Len(scratch) \/ lifeOf(1) # life[sw] THEN {lifeOf(1), life[sw]} ELSE {})
     /\ scratch' = <<>> /\ sw' = NoSwapchain /\ worker' = "poll"
     /\ UNCHANGED <<life, lives, presents, caller, drvVars, reports, khrVars, todo>>

\* The swapchain was forgotten, or has no id yet: the records are dropped.
PairNothing ==
  /\ worker = "pair" /\ sw \notin Watched
  /\ slipped' = slipped \cup {presents[scratch[1].of].life}
  /\ scratch' = <<>> /\ sw' = NoSwapchain /\ worker' = "poll"
  /\ UNCHANGED <<life, lives, presents, caller, drvVars, reports, khrVars, pending, domain, todo,
                 recorded>>

Google == Snapshot \/ (\E h \in Swapchains : PollNothing(h) \/ Poll(h)) \/ Pair \/ PairNothing

-----------------------------------------------------------------------------
TimingNext ==
  \/ \E h \in Swapchains :
       \/ create_swapchain(h) \/ destroy_swapchain(h)
       \/ \E id \in {0, Len(presents) + 1}, ok \in BOOLEAN : queue_present(h, id, ok)
  \/ NothingToEnqueue \/ enqueue_khr \/ notify_khr \/ enqueue_google
  \/ \E n \in 1 .. Len(presents) : Show(n)
  \/ Khr \/ Google

TimingSpec == TimingInit /\ [][TimingNext]_timingVars

\* Threads run, and vkWaitForPresentKHR returns: it has a timeout.
FairSpec == TimingSpec /\ WF_timingVars(notify_khr) /\ WF_timingVars(Khr)

-----------------------------------------------------------------------------
(* Properties. *)

\* The display times of a swapchain's presents are recorded in the order of
\* the presents, and each present's once at most.
RecordedInOrder ==
  \A i, j \in DOMAIN recorded :
    (i < j /\ presents[recorded[i].for].life = presents[recorded[j].for].life)
      => recorded[i].for < recorded[j].for

\* "We never hand a wildly-skewed timestamp to the marker history": and times
\* of a driver that does use CLOCK_MONOTONIC are not thrown away for it.
ClockUnderstood ==
  /\ \A i \in DOMAIN recorded : recorded[i].time # "far"
  /\ monotonic => domain # "Unknown"

\* What the history is told of a present's display is right: its clock, the
\* order, and the present.  GOOGLE records are paired with ids by order alone:
\* a record goes to the present it is about, unless the swapchain has had a
\* present without an id, a present that failed, more ids than fit, a record
\* fetched before its id was queued, or records fetched from the handle's
\* earlier swapchain.
OwnTiming ==
  /\ RecordedInOrder
  /\ ClockUnderstood
  /\ \A i \in DOMAIN recorded :
       (source = "google" /\ presents[recorded[i].for].life \notin slipped)
         => recorded[i].of = recorded[i].for

\* No wake-up is lost: every present that is queued is waited for.
AllWaitedFor ==
  \A n \in Present : (\E i \in DOMAIN queue : queue[i] = n) ~> item = n
=============================================================================
