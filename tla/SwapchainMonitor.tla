--------------------------- MODULE SwapchainMonitor ---------------------------
(***************************************************************************)
(* swapchain_monitor.rs and semaphore_signal.rs: the worker thread that    *)
(* pairs the semaphores of vkLatencySleepNV with the GPU work that must    *)
(* complete before they are signalled, and the application threads that    *)
(* call it: one that sleeps, and others that present, switch the mode or   *)
(* destroy the swapchain at any time.                                      *)
(*                                                                         *)
(* A group of spans is its number in the order of attach_work.  Time is    *)
(* abstract: the wait budget of a frame runs out when it will.             *)
(***************************************************************************)
EXTENDS Integers, Sequences

CONSTANTS MaxValue,     \* bound: semaphore values asked for, 1 .. MaxValue
          MaxCalls,     \* bound: calls of vkLatencySleepNV
          MaxGroups     \* bound: groups attached

ASSUME MonitorAssumption ==
  MaxValue \in Nat \ {0} /\ MaxCalls \in Nat \ {0} /\ MaxGroups \in Nat

Value == 1 .. MaxValue
Group == 1 .. MaxGroups

VARIABLES
  requested, pending_groups, pending_signals,   \* State, under its mutex
  worker, cur,          \* the worker's position and the PendingSignal it has
  late,                 \* the shared deadline of cur has passed
  stop,                 \* the stop flag
  owner,                \* the monitor: "alive", then its drop, then "gone"
  caller, want,         \* the sleeping thread, and the value of its call
  calls,                \* number of calls of vkLatencySleepNV made
  sem,                  \* the counter of the timeline semaphore
  asked,                \* (history) values asked for
  attached,             \* (history) number of attach_work calls
  settled,              \* (history) groups the worker is done with, in order
  done                  \* groups whose GPU work has completed

appVars  == <<caller, want, calls, asked>>
workVars == <<worker, cur, late, settled>>
stVars   == <<requested, pending_groups, pending_signals>>
vars == <<stVars, workVars, stop, owner, appVars, sem, attached, done>>

NoSignal == [value |-> 0, groups |-> <<>>]
Signal == [value : Value, groups : Seq(Group)]

TypeOK ==
  /\ requested \in BOOLEAN
  /\ pending_groups \in Seq(Group)
  /\ pending_signals \in Seq(Signal)
  /\ worker \in {"check", "committed", "parked", "popped", "await", "delay", "read", "signal",
                 "exited"}
  /\ cur \in Signal \cup {NoSignal}
  /\ late \in BOOLEAN /\ stop \in BOOLEAN
  /\ owner \in {"alive", "stopped", "joining", "gone"}
  /\ caller \in {"idle", "read", "signal"}
  /\ want \in Value \cup {0} /\ calls \in 0 .. MaxCalls
  /\ sem \in Value \cup {0}
  /\ asked \subseteq Value
  /\ attached \in 0 .. MaxGroups
  /\ settled \in Seq(Group)
  /\ done \subseteq Group

Init ==
  /\ requested \in BOOLEAN        \* VkSwapchainLatencyCreateInfoNV, or TRUE
  /\ pending_groups = <<>> /\ pending_signals = <<>>
  /\ worker = "check" /\ cur = NoSignal /\ late = FALSE
  /\ stop = FALSE /\ owner = "alive"
  /\ caller = "idle" /\ want = 0 /\ calls = 0
  /\ sem = 0
  /\ asked = {} /\ attached = 0 /\ settled = <<>> /\ done = {}

\* The state mutex is held by the worker between its check and its wait, and
\* while it delays.
StateFree == worker \notin {"committed", "delay"}

-----------------------------------------------------------------------------
(* SemaphoreSignal::signal, of the worker or of the sleeping thread: read   *)
(* the counter, then signal unless the value is reached already.            *)

Reached(v) == sem >= v

SignalSemaphore(v) ==
  sem' = IF v > sem THEN v ELSE sem

-----------------------------------------------------------------------------
(* The sleeping thread.  Values do not decrease; they may repeat.           *)

NewCall(v) == /\ calls < MaxCalls
              /\ v >= want
              /\ want' = v /\ calls' = calls + 1 /\ asked' = asked \cup {v}

Wake == IF worker = "parked" THEN "check" ELSE worker

\* notify_semaphore with low latency mode on: queue the signal with the
\* groups attached since the last one.  The groups it moves:
TakeGroups == pending_groups' = <<>>
Slip_NoValue(v) ==
  pending_signals' = Append(pending_signals, [value |-> 0, groups |-> pending_groups])
QueueSignal(v) ==
  pending_signals' = Append(pending_signals, [value |-> v, groups |-> pending_groups])
Slip_NoWake == worker
WakeWorker == Wake

SleepQueued(v) ==
  /\ caller = "idle" /\ owner = "alive" /\ StateFree /\ requested
  /\ NewCall(v)
  /\ QueueSignal(v)
  /\ TakeGroups
  /\ worker' = WakeWorker
  /\ UNCHANGED <<requested, cur, late, settled, stop, owner, caller, sem, attached, done>>

\* notify_semaphore with the mode off, or no monitor: signal directly.
DirectSignal == "read"

SleepDirect(v) ==
  /\ caller = "idle"
  /\ \/ owner = "alive" /\ StateFree /\ ~requested
     \/ owner = "gone"
  /\ NewCall(v)
  /\ caller' = DirectSignal
  /\ UNCHANGED <<stVars, workVars, stop, owner, sem, attached, done>>

DirectRead ==
  /\ caller = "read"
  /\ caller' = IF Reached(want) THEN "idle" ELSE "signal"
  /\ UNCHANGED <<stVars, workVars, stop, owner, want, calls, asked, sem, attached, done>>

DirectSend ==
  /\ caller = "signal"
  /\ SignalSemaphore(want)
  /\ caller' = "idle"
  /\ UNCHANGED <<stVars, workVars, stop, owner, want, calls, asked, attached, done>>

-----------------------------------------------------------------------------
(* The other application threads.                                           *)

update_params(b) ==
  /\ owner = "alive" /\ StateFree
  /\ requested' = b
  /\ UNCHANGED <<pending_groups, pending_signals, workVars, stop, owner, appVars, sem,
                 attached, done>>

\* attach_work drops the group when the mode is off.
attach_work ==
  /\ owner = "alive" /\ StateFree /\ requested
  /\ attached < MaxGroups
  /\ attached' = attached + 1
  /\ pending_groups' = Append(pending_groups, attached')
  /\ UNCHANGED <<requested, pending_signals, workVars, stop, owner, appVars, sem, done>>

\* notify_destroy_swapchain: with the monitors locked for writing, so no
\* other call is inside, the monitor is dropped: stop, notify_all, join.
StoreStop ==
  /\ owner = "alive" /\ caller = "idle"
  /\ stop' = TRUE /\ owner' = "stopped"
  /\ UNCHANGED <<stVars, workVars, appVars, sem, attached, done>>

NotifyAll ==
  /\ owner = "stopped"
  /\ owner' = "joining" /\ worker' = Wake
  /\ UNCHANGED <<stVars, cur, late, settled, stop, appVars, sem, attached, done>>

Join ==
  /\ owner = "joining" /\ worker = "exited"
  /\ owner' = "gone"
  /\ UNCHANGED <<stVars, workVars, stop, appVars, sem, attached, done>>

-----------------------------------------------------------------------------
(* The worker: run.                                                         *)

\* Pop a signal; return only when there is none and stop is set; else wait.
MayExit == pending_signals = <<>> /\ stop

Pop ==
  /\ worker = "check" /\ pending_signals # <<>> /\ ~(MayExit)
  /\ cur' = Head(pending_signals)
  /\ pending_signals' = Tail(pending_signals)
  /\ worker' = "popped" /\ late' = FALSE
  /\ UNCHANGED <<requested, pending_groups, settled, stop, owner, appVars, sem, attached,
                 done>>

Exit ==
  /\ worker = "check" /\ MayExit
  /\ worker' = "exited"
  /\ UNCHANGED <<stVars, cur, late, settled, stop, owner, appVars, sem, attached, done>>

CheckEmpty ==
  /\ worker = "check" /\ pending_signals = <<>> /\ ~stop
  /\ worker' = "committed"
  /\ UNCHANGED <<stVars, cur, late, settled, stop, owner, appVars, sem, attached, done>>

Park ==
  /\ worker = "committed"
  /\ worker' = "parked"
  /\ UNCHANGED <<stVars, cur, late, settled, stop, owner, appVars, sem, attached, done>>

\* Drain mode skips the wait and the delay, and drops the groups.
Popped ==
  /\ worker = "popped"
  /\ IF stop THEN /\ worker' = "read"
                  /\ settled' = settled \o cur.groups
                  /\ cur' = [cur EXCEPT !.groups = <<>>]
             ELSE worker' = "await" /\ UNCHANGED <<cur, settled>>
  /\ UNCHANGED <<stVars, late, stop, owner, appVars, sem, attached, done>>

\* The next group has completed, or the deadline it shares with the others
\* of this signal has passed.
Slip_NoWait(g) == TRUE
GroupOver(g) == g \in done \/ late

AwaitGroup ==
  /\ worker = "await" /\ cur.groups # <<>>
  /\ GroupOver(Head(cur.groups))
  /\ settled' = Append(settled, Head(cur.groups))
  /\ cur' = [cur EXCEPT !.groups = Tail(@)]
  /\ UNCHANGED <<stVars, worker, late, stop, owner, appVars, sem, attached, done>>

Deadline ==
  /\ worker = "await" /\ ~late
  /\ late' = TRUE
  /\ UNCHANGED <<stVars, worker, cur, settled, stop, owner, appVars, sem, attached, done>>

\* delay_controller.delay, for a bounded time, with the state locked.
StartDelay ==
  /\ worker = "await" /\ cur.groups = <<>>
  /\ worker' = "delay"
  /\ UNCHANGED <<stVars, cur, late, settled, stop, owner, appVars, sem, attached, done>>

EndDelay ==
  /\ worker = "delay"
  /\ worker' = "read"
  /\ UNCHANGED <<stVars, cur, late, settled, stop, owner, appVars, sem, attached, done>>

WorkerRead ==
  /\ worker = "read"
  /\ worker' = IF Reached(cur.value) THEN "check" ELSE "signal"
  /\ cur' = IF Reached(cur.value) THEN NoSignal ELSE cur
  /\ UNCHANGED <<stVars, late, settled, stop, owner, appVars, sem, attached, done>>

WorkerSend ==
  /\ worker = "signal"
  /\ SignalSemaphore(cur.value)
  /\ worker' = "check" /\ cur' = NoSignal
  /\ UNCHANGED <<stVars, late, settled, stop, owner, appVars, attached, done>>

Work == Pop \/ Exit \/ CheckEmpty \/ Park \/ Popped \/ AwaitGroup \/ Deadline \/ StartDelay
        \/ EndDelay \/ WorkerRead \/ WorkerSend

\* The GPU.
GpuDone(g) ==
  /\ g <= attached /\ g \notin done
  /\ done' = done \cup {g}
  /\ UNCHANGED <<stVars, workVars, stop, owner, appVars, sem, attached>>

Next ==
  \/ \E v \in Value : SleepQueued(v) \/ SleepDirect(v)
  \/ DirectRead \/ DirectSend
  \/ (\E b \in BOOLEAN : update_params(b)) \/ attach_work
  \/ StoreStop \/ NotifyAll \/ Join
  \/ Work
  \/ \E g \in Group : GpuDone(g)

Spec == Init /\ [][Next]_vars

\* The threads of the layer run and time passes; the GPU may stay silent and
\* the application may stop calling.
FairSpec == /\ Spec
            /\ WF_vars(Work)
            /\ WF_vars(DirectRead) /\ WF_vars(DirectSend)
            /\ WF_vars(NotifyAll) /\ WF_vars(Join)

-----------------------------------------------------------------------------
\* Every group attached while the mode is on is in one place: taken by the
\* worker, which is done with it or has it in its hands, with a queued signal,
\* or waiting for the next sleep call; and the places are in the order of the
\* presents.
Ascending(s) == \A i, j \in DOMAIN s : i < j => s[i] < s[j]
Below(s, t)  == \A i \in DOMAIN s, j \in DOMAIN t : s[i] < t[j]
Holds(s, g)  == \E i \in DOMAIN s : s[i] = g

Taken     == settled \o cur.groups
Queued(k) == pending_signals[k].groups
Signals   == DOMAIN pending_signals

GroupsInOrder ==
  /\ Ascending(Taken) /\ Ascending(pending_groups) /\ Below(Taken, pending_groups)
  /\ \A k \in Signals :
       /\ Ascending(Queued(k)) /\ Below(Taken, Queued(k)) /\ Below(Queued(k), pending_groups)
       /\ \A l \in Signals : k < l => Below(Queued(k), Queued(l))
  /\ \A g \in Group :
       g <= attached <=> \/ Holds(Taken, g) \/ Holds(pending_groups, g)
                         \/ \E k \in Signals : Holds(Queued(k), g)

\* The values the worker still has to signal are in the order of the calls.
SignalsInOrder ==
  \A i, j \in Signals :
    i <= j => cur.value <= pending_signals[i].value
              /\ pending_signals[i].value <= pending_signals[j].value

\* The worker handles the frames in the order the application presented them
\* and asked to sleep, none twice and none forgotten, and outside drain mode it
\* passes over a group only when its work is complete, or the budget of the
\* frame ran out (attach_work, notify_semaphore, run).
WorkInOrder ==
  /\ []GroupsInOrder
  /\ []SignalsInOrder
  /\ [][\A g \in Group :
          (~Holds(settled, g) /\ Holds(settled', g)) => g \in done \/ late \/ stop]_vars

Sleep == INSTANCE LatencySleep

\* Whatever the mode switches, the swapchain's destruction and the GPU do, no
\* sleep is lost: the semaphore reaches each value asked for, and no other.
KeepsPromise == Sleep!Spec
=============================================================================
