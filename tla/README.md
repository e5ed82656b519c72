# vkpace in TLA+

vkpace is a Vulkan layer in Rust. It sits between an application and the driver, answers
`VK_NV_low_latency2` (Reflex) or `VK_AMD_anti_lag` where the driver does not, and paces the
application: it wraps submissions in GPU timestamps, waits for the work of a frame, delays, and
signals. Paths below are relative to `src/` of the repository, `markers.rs:75` is line 75 of the
file with that name under `src/src/`.

This directory holds TLA+ models of the layer, the TLC runs that check them and TLAPS proofs.

    tlc -config TimestampPool.cfg TimestampPool.tla      # one run; PROJECT.json lists them all
    tlapm TimestampPoolProofs.tla                        # the proofs about one module

## The system

Everything is driven by the application's calls, on any of its threads; four kinds of layer
thread run beside them: one reaper per queue, one monitor per swapchain, one present worker and
one clock per device (and one or two for telemetry, per process). They meet in mutexes,
lock-free queues, atomics and the global maps of the registry.

| Part (file) | State | Operations | Talks to |
|---|---|---|---|
| Registry, device and queue life cycle (`registry.rs`, `lib.rs`, `device.rs`, `queue.rs`) | `INSTANCES`, `PHYSICAL_DEVICES`, `DEVICES`, `QUEUES`; per device its own map of queues | create and destroy instance/device, get queue | every entry point looks its state up here |
| Submission and present hooks (`entrypoints/queue.rs`) | none (a thread-local arena) | `queue_submit`, `queue_submit2`, `queue_present_khr` | pool, queue strategy, device strategy, present workers, telemetry |
| Free-pair bitset (`timestamp_pool.rs:31`) | words, hint | acquire, release | part of a chunk |
| Timestamp pool (`timestamp_pool.rs`) | chunks, the queue of dropped handles, stop flag | acquire, drop of a handle, reaper, drop of the pool | GPU (queries, command buffers) |
| Submission span (`submission_span.rs`) | first and last handle of a frame | extend, bounded and unbounded wait | pool |
| LL2 strategy (`strategy/low_latency2/mod.rs`) | per queue: id -> span, tracked ids; per device: monitors | notify_submit, forward_present, sleep, sleep mode, swapchains | monitors, marker history |
| Swapchain monitor (`swapchain_monitor.rs`, `semaphore_signal.rs`) | pending signals, pending groups, mode | sleep call, attach_work, worker, drop | spans, delay controller, timeline semaphore |
| Marker history (`markers.rs`) | ring of frames, id -> index | record, late GPU and display times, report, latency | LL2 entry points, present workers, telemetry |
| Anti-Lag strategy (`strategy/anti_lag.rs`) | enabled, current frame, per queue one span | update, notify_submit | spans, delay controller |
| Delay controller (`delay_controller.rs`) | last release, drain, gradient | delay | monitor's worker or `vkAntiLagUpdateAMD` |
| Present workers (`present_wait.rs`) | queue of presents (KHR), id queue per swapchain (GOOGLE) | enqueue, forget, worker | driver, marker history |
| Device clock (`clock.rs`) | anchor | calibration loop, tick conversion | driver |
| Instances and physical devices (`lib.rs`, `instance.rs`, `physical_device.rs`) | `INSTANCES`, `PHYSICAL_DEVICES`; per instance its configuration and its physical devices | create, enumerate, destroy | loader, configuration |
| Telemetry (`telemetry.rs`) | counters, latency sources, the ring of records, the connection | push a record, socket worker, statistics worker | marker histories, socket, HUD |
| Configuration (`config.rs`) | read once | environment, file line by line, the application's section over it | everything |
| Extension and feature negotiation (`lib.rs:321-433`, `533-1043`) | none | what is added to enumerations, to the feature chain and to the request for a device | loader, driver |
| Dispatch, pNext, panic guard, layer ABI | none | | |
| HUD (`tools/vkpace-hud`) | its own ring of records | read a line, recompute the plots | telemetry socket |

What is hard about it: handles are dropped by whichever thread is last, while the reaper waits
for the GPU and the submitter allocates; a semaphore is signalled from two threads; a present
walks queues that are being submitted to; late results (GPU times, display times) arrive for
frames that may have been evicted; shutdown flags race condition variables; maps keyed by driver
handles outlive the handles; a record passes two bounded queues and a socket whose reader may
stop, or not read. PROJECT.json lists these places, line by line, with the property
that would catch each going wrong.

## Modules

| Module | Models | Kind |
|---|---|---|
| `PairAllocator` | a set of free pairs, the lowest handed out first | abstract |
| `Bitset` | `Bitset` of `timestamp_pool.rs` | detailed, implements `PairAllocator` |
| `QueryPairs` | a pair is free, held or retired, and busy on the GPU or not | abstract |
| `TimestampPool` | `timestamp_pool.rs` without the bitset, with the part of `queue_submit` that owns handles | detailed, implements `QueryPairs` |
| `TimestampPoolProofs` | proofs about `TimestampPool` and `Bitset` | proofs |
| `LatencySleep` | every value the application asks for is reached by the semaphore | abstract |
| `SwapchainMonitor` | `swapchain_monitor.rs`, `semaphore_signal.rs`, the bounded wait of `submission_span.rs` | detailed, implements `LatencySleep` |
| `SwapchainMonitorProofs` | | proofs |
| `RecentFrames` | the list of the most recent frame ids | abstract |
| `MarkerHistory` | `markers.rs` | detailed, implements `RecentFrames` |
| `LowLatency2`, `MCLowLatency2` | `low_latency2/mod.rs` with the spans | detailed |
| `LowLatency2Proofs` | | proofs |
| `Registry` | `DEVICES`, `QUEUES`, device and queue contexts | detailed |
| `RegistryProofs` | | proofs |
| `PresentTiming` | `present_wait.rs` and the end of `queue_present_khr` that feeds it | detailed |
| `HistoryProofs` | proofs about `MarkerHistory` and `PresentTiming` | proofs |
| `AntiLag` | `anti_lag.rs`, `delay_controller.rs`, the pacing limits of `device.rs` | detailed |
| `AntiLagProofs` | | proofs |
| `LayerConfig` | `config.rs` | operators, with a reference definition |
| `Negotiation` | the queries and the request of `vkCreateDevice` in `lib.rs`, `physical_device.rs` | operators |
| `Instances`, `MCInstances` | `INSTANCES`, `PHYSICAL_DEVICES` and their contexts, with the two above | detailed |
| `InstancesProofs` | | proofs |
| `Telemetry`, `MCTelemetry` | the records of `queue_present_khr`, the socket half of `telemetry.rs`, and the HUD's reader, ring and plots | detailed, layer and HUD composed |
| `TelemetryProofs` | | proofs |

`TimestampPool` takes a chunk as the set that `Bitset` is proved to be; `SwapchainMonitor` takes
a group of spans, and the GPU finishing it, as one thing that `LowLatency2` puts together;
`LowLatency2` takes a handle as the number of its submission, which `TimestampPool` is proved to
give one owner.

An operator named `Slip_...` (and `release_by_query`, `release_keeping_hint` in `Bitset`) is a plausible mistake in the operator defined after it. The
specifications do not use them: put in that operator's place, one at a time, they show that each
property can fail (`mutants` in PROJECT.json).

### Bitset

`words` is a function from word number to the set of its set bits, `hint` the field, `got` the
pair returned last. `ChunkSize` (512 in the code) and `WordBits` (64) are constants; the run has
four words of two bits, so that the hint, the wrap of the scan and a word running empty all
happen. `acquire_pair` probes from the hint as the loop does, `release_pair` is given a pair that
is out, as its only caller does.

### TimestampPool

One action per step between which another thread can run: `FindFree`/`AllocChunk` (under the
chunks lock), `RecordDone`/`RecordFails`, `Accept` (the driver has the batch), `MarkSubmitted`
per handle; `DropHandle` (push) and `Notify` (lock, notify); the reaper's pop, wait, release,
check, re-check under the lock and wait; `StoreStop`, `NotifyAll`, `Join`, `DestroyChunks` or
`LeakChunks`; and the GPU's `Complete` and `LoseDevice`. The position `"committed"` is the reaper
between the re-check and the wait, with the lock held: `Notify` needs the lock and so cannot run,
`NotifyAll` does not take it and can. `call`, `hand` and `rec` follow the thread inside
`vkQueueSubmit` (a queue is externally synchronised, so there is one).

*Checked* (`timestamp_pool`; 2 chunks of 2 pairs, 3 of the 4 out at once, 2 droppers): a pair has
one owner; no pair is free or being recorded while the GPU has its command buffers; a handle
never shows the result of its pair's earlier use; the pool implements
`QueryPairs`; and, with fair threads and a GPU that completes what it has, every pair given up
comes back. *Fairness*: weak fairness of the notifier, of the reaper and of the drop: each
is a thread at a statement that can be executed, and locks are held for a few statements.
The submitter has none: an application may stop.

*Disagrees* (`timestamp_pool_stop`): `drop` stores `stop` and notifies without the lock. Between
the reaper's re-check and its wait both are lost, and the join never returns. The comment at line
418 claims the opposite, and for handles it is right. The same three lines are in
`swapchain_monitor.rs:116-121` and `present_wait.rs:102-107`.

Not a run, because two adjacent statements show it: the comment at lines 385-386 prefers leaking
over hanging when the GPU is wedged, but the join at 382-384 comes first and hangs.

### SwapchainMonitor

The application's sleeping thread (`caller`), presents (`attach_work`), mode changes
(`update_params`), the worker, the monitor's drop, the GPU and the deadline. `worker` is the
position in `run`; at `"committed"` and `"delay"` it holds the state lock (`StateFree`), so
the other threads' actions wait. The read of the semaphore's counter and the signal are two
steps, on both threads that make them. Values of the calls do not decrease, as Reflex requires.

*Checked* (`swapchain_monitor`; values up to 2, 3 calls, 3 groups): groups are waited for in the
order of their presents and none twice or left out while one after it is waited for, queued
signals are in the order of their calls, and a group is left only when it is complete or the
deadline of its signal has passed (`WorkInOrder`, of three parts); and every value asked for is reached (`LatencySleep`), with the mode
on, off, changing, and through the drop. *Fairness*: the worker, the sleeping thread inside a
call, and the drop. No fairness is asked of the GPU: the deadline takes its place. That the drop itself can hang (above) does not contradict it: the worker has
emptied its queue by then, and a call that waits for the lock of `monitors` is not yet accepted.

Visible in the model, without a run: `semaphore_signal.rs:4-6` says the read of the counter
avoids the rejected call. When the mode is switched off with a signal queued, the application's
thread and the worker signal the same semaphore, and one can pass between the other's read and
call. `LatencySleep` holds all the same: the value was reached.

### MarkerHistory

The ring, the index and `head_index` as in the code; times come from a small set (only their
order, and zero, matter) and the five stage markers that nothing computes with are one flag. `gpu_render` and
`displayed` hold the id the time was measured for, so that a time on a wrong frame is visible.

*Checked* (`marker_history`; 4 ids with 0 among them, capacity 2, 4 frames): the index leads from
each id to its frame; late times land on their own frame or nowhere; a report is what the count
of the first call promised, newest first; the latency sent with a present is the newest sample
of the telemetry window; the ring implements `RecentFrames`. The capacity is below the number of
ids, so evicted ids come back.

Two doc comments do not match, visible without a run: no code merges the frame of id 0 into that
of a real id (lines 72-74), and with no buffer `fill` writes the number of frames, not
`HISTORY_CAP` (lines 171-174).

### LowLatency2

`notify_submit` is one action (one lock); a present is several: `BeginPresent`, a `VisitQueue`
per queue, in any order (the map's), `AttachWork`. Histories (`submits`, `attached`, `evicted`)
remember where each submission went.

*Checked* (`low_latency2`; 2 queues, 2 swapchains, 2 presenting threads, ids 0..2, 3 submissions, 2 presents, limit 1;
symmetry over queues, swapchains and threads): each submission is in one place: a span, a
present's work, a monitor, or evicted; a present takes every span
of its id that was there when it began, unless another present took it or its queue is out of
band.

Visible in the model, without a run (with `MaxTracked` submissions of one id before its present):
the limit of 50 counts submissions, not presents, and eviction removes by id. A frame with more
submissions than the limit drops its own span; `entrypoints/queue.rs:22-24` says all are kept
until the present.

### Registry

A context is a number; who holds an `Arc` of it is computed (`HoldersOf`), so "dropped" means no
holder is left. Each map operation is an action. `reused` and `shared` are chosen at the start
and say what the driver and the application do; properties name the case they need.

*Checked* (`registry`; 2 devices, 2 handles each of device and queue, 2 threads, 3 contexts): a device's handle never
leads to an earlier device's context, even when the driver reuses it; a queue the application
has got is served (`QueueServed`, with two parts more): where one thread gets each queue and handles are not reused, submissions and
presents meet in the same context; where handles are not reused, no device is destroyed with the
layer's work in flight.

*Disagrees* (`registry_destroy`): `drain_for_destroy` clears the map whose keys the loop after it
removes from `QUEUES`, so nothing is removed. The contexts outlive the device, with
reapers and pools; comment at `lib.rs:457-459`. Consequences, without runs of their own: a queue
handle used again finds the old context (`registry.rs:3-6` calls identity by handle sufficient);
`register_queue` checks and inserts in three steps, so two threads can leave the two maps with
different contexts; and both device strategies hold the context that holds them, so a context,
and its clock thread, never goes.

### PresentTiming

Both workers, chosen by `source` at the start. A present is its number, and carries that number as
its id or none; a present of several swapchains is several presents. `vkWaitForPresentKHR` returns
for the swapchain that has the handle *now*; `VK_GOOGLE_display_timing` gives records that do not
name their present. `caller` is between the driver's present and the worker's `enqueue`, so that
the worker can fetch a record before its id is queued. `slipped` (history) collects the swapchains
whose ids and records went out of step.

*Checked* (`present_timing`; 2 handles, 2 swapchains, 3 presents, id queue and poll of 2): the times
of a swapchain are recorded in order and once; with GOOGLE timing, for the present it belongs to, unless the swapchain had one of five kinds of slip, which
`OwnTiming` lists (the comment at lines 111-118 of `present_wait.rs` counts on none of them:
presents without an id, failed presents, an overflow of the queue, a record fetched before its id
is queued, a handle used again); the clock domain is not decided by a sample that the driver left zero; and every queued present is waited for.
*Fairness*: the KHR worker, whose wait has a timeout, and the caller inside `enqueue`. The GOOGLE
worker polls and needs none for safety.

### AntiLag

The simulation thread's INPUT call in its steps (take the spans one queue at a time, await them,
pace), the render thread's submissions and PRESENT, calls that change the mode only, the GPU, the
clock. `delay()` holds the state lock (`StateFree`), so submissions and PRESENT calls of the render
thread wait through the pause. The EWMA is a float that the code keeps in -1..1; `Delta` is what it
can make of the jitter.

*Checked* (`anti_lag`; 2 queues, 4 frames, 2 submissions, limits of 0 to 3 ticks, jitter of half a
frame; time and submissions share a bound, since the properties of pacing need frames and those of
collection need submissions): with calls in turn, no frame begins before the GPU finished the frame before;
in any order, an INPUT call is not paced before the work collected when it was made is finished;
frames keep the stricter of the two limits; a pause is at most the longest frame and its jitter.
No liveness: `await_completed` has no deadline (its own doc says to use it only at teardown), and
time ends at the bound.

Visible in the model, without a run: PRESENT sets `frame_index` to `None` whatever frame it is for.
When the simulation is ahead, the PRESENT of a frame closes the window of the next one, whose
submissions are then not collected; lines 3-6 of `anti_lag.rs` say they are, from `INPUT` until
`PRESENT`. `NoBacklog` therefore asks for calls in turn (`orderly`).

### LayerConfig, Negotiation and Instances

`LayerConfig` and `Negotiation` are operators: the first reads a file as the code does, a line at a
time with the section opened last (`Reads` applies `ReadLine` line after line), and next to it stands
`Written`, what a file says of an application, with no reader in it. A text is a sequence of words
and of the marks the reader looks for, so that a `#` inside quotes, an unmatched quote or a repeated
`]` is a text of the model. The second has a `pNext` chain as a sequence of structures with the one
flag the layer looks at. `Instances` has the two maps, with one action between each two points where
another thread can run: creation and its insert; per device of an enumeration the `or_insert_with`
and the insert into the instance's own map; removal, sweep, the driver's destruction. The loader
reuses handles, of an instance and with it of its physical devices, once the driver has
destroyed the instance. Only what the application may do limits the calls: it does not use an instance it is
destroying, and the driver's failure to list extensions counts as an empty list, as in the code.

*Checked* (`instances`; 2 handles, 2 threads, 2 instances, 4 files with an environment each, 3
applications, 2 GPUs, 24 requests; symmetry over handles and threads): a physical device is answered
for by a context of the instance it was got from, the same one for as long as the instance lives
(`OwnContext`); the configuration is the one `Written`; the request for a device has each extension
once, only ones the driver lists or the application gave, each feature on in exactly one structure
and none that the version struct of the chain excludes; the counting and the filling call of a query
agree, and the antiLag feature is shown exactly where the layer does not refuse the device. The four files are the ones
where a reader can go wrong: a repeated key with a bad value, two sections for one name, marks and
quotes, keys under a header that is no section.

Two comments do not match, visible without a run: `config.rs:85` documents a `[defaults]` section,
which the reader does not know (its keys go to the section before it, or are refused before the
first one); `config.rs:258` says anything else is ignored with a warning: a line without `=` is
ignored silently, and a value that cannot be read clears the setting. Left to the driver: an
enumeration with too little room returns `INCOMPLETE`, after which the layer does not look at the
devices it did return; `vkCreateDevice` on one of them fails.

### Telemetry

A present counts the frame, reads the time, reads the count, pushes and notifies, as five steps, so
that two presenting threads interleave. The worker's look at the ring and its wait are one step
(both under the lock, unlike the `stop` flags above). Connections wait in the listener's queue, also
after their client has gone. A pipe has a capacity; `write_all` waits while it is full and fails
once the client has closed it (the model takes this for an error the call returns, not a signal). A HUD reads whole lines: a line that arrives
in two reads with more than the 500 ms timeout between them would lose its first part
(`reader.rs:72`). The HUD's computations are operators on its ring; a bin is the set of its
records, since its count, percentiles and maximum do not depend on their order.

*Checked* (`telemetry`; one or two presenting threads with 4 or 3 presents, a layer ring of 2, a HUD
ring of 3, a pipe of 1, 2 HUDs, 2 connections, bins of 2 ticks in a window of 4): what a HUD has,
what is on its way and what the ring holds is in order and nothing twice; where one thread presents, the drops
that the HUD counts are the records it has not; a sealed bin stays as it was drawn; and a present
returns, and the worker takes what is there. *Fairness*: a thread inside the layer and the worker
when it can run; none for a client, which may never read. The bounds let both rings overflow, a
client leave with a batch half written, and a stale connection eat the records of the next.

Two comments hold only with a condition, which the properties name. "Sealed bins never change"
(`stats.rs:76`): a bin at the window's edge or at the end of the ring is trimmed record by
record, and with two presenting threads a late record enters a sealed bin. "One record per present"
with its own index: two threads may both read the count of the second (`entrypoints/queue.rs:392`),
and the HUD then counts a drop that was none, or none for one that was.

## Proofs

TLAPS proves, for all values of the constants that satisfy the named assumptions:

- `TimestampPoolProofs`: types, `OwnedOnce`, `NotReusedWhilePending`, `ResultIsOwn`,
  `ReaperChunkExists`, and the refinement of `QueryPairs`. `NotReusedWhilePending` is not
  inductive: that a pair released by the reaper is not pending needs that unmarked handles in
  the queue were never accepted, and that a marked one is available, or the device lost, when its wait ends; `IInv` adds
  where a pending pair can be, what `was_submitted` says of the GPU, and
  what the positions of the reaper and the owner exclude. The bounds are guards and play no part.
  Of `Bitset`, in the same module: types, the hint, no pair beyond the chunk, and the refinement of
  `PairAllocator`. The inductive invariant is the conjunction of the three: the hint has only empty
  words below it (else `acquire_pair` would not return the lowest pair, and the refinement fails),
  which needs the hint to be a word.
- `SwapchainMonitorProofs`: types, `WorkInOrder`, and the safety part of the refinement of
  `LatencySleep`: each step is one that it allows, so the semaphore takes only values that were asked
  for and never goes back. `WorkerState` says at which positions the worker holds a signal and when
  it still has groups; `ValuesAsked` follows a value from the call to the semaphore; the order of the
  groups (waited for, in hand, in each queued signal, pending) is one ascending sequence cut in
  pieces, and a lemma about `\o` says how the order passes from the pieces to the whole and back.
- `HistoryProofs`, on `MarkerHistory`: types, `IndexCoherent`, `OwnTimes`, `ReportNewestFirst`,
  `LatestEndsWindow`, and the refinement of `RecentFrames`. A step is either an eviction with an
  append or a change in place; a lemma for each. The wrap of `abs - head_index` is excluded by
  `IndexCoherent`. On `PresentTiming`: types and `OwnTiming`. With KHR waits what is recorded, the item
  waited for and the queue are one rising sequence of presents the worker was told of
  (`QueueRising`). With GOOGLE timing the ids and the records of a swapchain rise each for itself
  (`IdsRising`, `RecordsRising`); that they meet is `InStep`: until a swapchain slips, its unpaired
  records are those of its unpaired ids that were displayed. Presents are displayed in order, so the
  first record belongs to the first id, and pairing the two leaves `InStep` as it was. `ClockRead`:
  the domain once read is the driver's. `Called`: which present the caller holds, and that a handle is
  one swapchain's.
- `LowLatency2Proofs`: types, `OncePlaced`, `NoneLeftBehind`. The invariant adds that a span ends
  with the last submission of its id on its queue, so that extending it adds the new submission
  only (`SpansClosed`); that what presents and monitors hold are submissions already made, so that
  a new one is in none of them (`AllPast`); and that nothing of a present's id that was there when
  it began is left on a queue it has been to (`Visited`).
- `RegistryProofs`: types, `DeviceEntryCurrent`, `QueueServed`. The invariant says which calls can
  be under way together at a device (`Calls`, `TogetherOnlyToGet`: creation and destruction are
  alone), that no two live things have one handle (`Distinct`), and that the device's map and
  `QUEUES` agree except between the two inserts of `register_queue` (`Agree`). `Drained`: once the
  drain has left the device idle, its contexts stay so until the driver destroys it.
- `AntiLagProofs`: types, `CollectedIsDone`, `NoBacklog`, `Paced`. `Followed` says of each submission an INPUT
  call has to wait for that it is done, in the span of its queue, or in the work being awaited;
  for that a span has to cover what was submitted since it was begun (`Spanning`, `InOrder`).
  `Pacing` bounds the drain and the frame time by the longest frame, and keeps the limit that
  holds while a call paces; the lemmas `PartOf` and `PartGrows` are about the integer division. `Turns`, a second invariant
  on top of the first, says that while the calls come in turn every submission of a begun frame is
  collected, and none is under way during an INPUT call, so that what was collected when it was
  made is all of the frame before.
- `InstancesProofs`: types, `OwnContext`, `ConfigAsWritten`, `QueriesAgree`, `DriverAskedRight`, for
  any number of instances, handles and threads. Each live instance is found under its handle, an
  enumeration has the handles of its own instance only, and a destruction is alone, so that what it
  sweeps is what the instance had (`NoneForgotten`); this rests on the driver giving no two live
  instances one handle, nor two GPUs of one instance. The configuration is proved for a file of any
  number of lines: what the reader has after each line is what the lines so far say (`ReadSoFar`,
  `AsWritten`). The queries and the request are proved for any driver, whose GPUs list each extension
  once, and any request that has each extension and each structure of its chain once, as
  `InstancesAssumption` says; `Negotiated` is what a context keeps of what its GPU lists.
- `TelemetryProofs`: types, `StreamInOrder`, `GapIsLoss`, `SealedBins`. A record passes the ring, the
  worker's batch, a pipe and a HUD's ring; `Queued` and `Arrived` say that the numbers ascend in each and
  from each to the one before it, `OwnRecords` that no two HUDs share a connection or a record.
  `Counted` is the number of presents counted but not pushed; where one thread presents there is
  one, so the count it reads is its record's number (`Numbered`), the gaps of a ring are differences of
  numbers, and their sum telescopes. `Timed`, a second invariant on top of the first, says that the times
  rise with the numbers; a record that arrives is then not before the last one of the HUD, so never
  in a bin that is past.

Induction is done on the least counterexample of a set of numbers (`NatSetInduction`, which needs no
operator parameter), and a recursive function is shown to exist in the same way (`RecursionExists`).

Only model-checked: all liveness (`PairsReturn`, the second half of `LatencySleep`, `AllWaitedFor`,
`Flow`), since the prover has no support for fairness and ENABLED. The two runs that expect a
violation are counterexamples and need no proof.

## Plan

What could come next, in this order:

1. `SubmitPath`: which submits are wrapped (`should_inject_for_submit`), `queue_submit2`, the arena,
   the order of the steps of `queue_present_khr`.
2. The device clock: the conversion of ticks, with a recalibration between the two ends of a span.
3. The statistics worker of the telemetry and the sources it evicts.
4. Proofs of what those add. What the runs check today is proved, but for the liveness.

## Not modelled

- Dispatch tables, the proc-address functions, structure layouts and the panic guard hold no state
  that a step changes. The spoofed properties are constants written into a structure.
- `queue_submit2` and the wrapping of batches: `TimestampPool` has the order of one batch's steps.
  The entry points for swapchains and latency markers are lookups in front of the strategies.
- The device clock, and with it the times of spans (`completion_times_ns`, `record_widest`; its
  comment describes an envelope, the code overwrites).
- The statistics worker, its percentiles and the Prometheus file; the HUD's parsing of a line, its
  smoothing and drawing. Socket framing below a line is I/O.
- `Drop` of telemetry: it lives in a static. `Drop` of the present workers: their context is never
  dropped (see Registry).
- The build script, the fuzz targets and the loader test are not part of the running layer.

Seen while modelling, outside any run: `queue_submit` does not count a call
whose pool has no pair left or that the driver refuses (`telemetry.rs:45-46` says one call, whether
or not a submit was wrapped); instance and
physical-device contexts hold each other; the latency sources of destroyed devices are evicted by
the statistics worker only, which does not run with an interval of 0.

Errors of the driver are those the code tells apart.
