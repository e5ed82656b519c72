------------------------------- MODULE Registry -------------------------------
(***************************************************************************)
(* registry.rs, the device entry points of lib.rs, and the ownership of    *)
(* DeviceContext (device.rs) and QueueContext (queue.rs): the maps from    *)
(* Vulkan handles to the layer's state, filled and emptied by application  *)
(* threads, one map operation at a time.                                   *)
(*                                                                         *)
(* A DeviceContext is the number of its device in the order of creation, a *)
(* QueueContext its own number.  A device has one queue.  A handle is free *)
(* again once the driver has destroyed its device.  A context is dropped   *)
(* when the last Arc of it is.                                             *)
(***************************************************************************)
EXTENDS Integers, Sequences, FiniteSets

CONSTANTS DeviceHandles, QueueHandles, Threads,
          MaxDevices,     \* bound: devices created
          MaxContexts     \* bound: queue contexts created

ASSUME RegistryAssumption == MaxDevices \in Nat /\ MaxContexts \in Nat

VARIABLES
  reused,       \* does the driver give a freed handle to a new device?
  shared,       \* may two threads get the same queue at once?
  devices,      \* [handle, queue, layer_enabled] of each device created
  live,         \* the devices the driver has not destroyed
  contexts,     \* the device of each QueueContext created
  DEVICES,      \* device handle -> DeviceContext, 0 for none
  QUEUES,       \* queue handle -> QueueContext, 0 for none
  queues,       \* DeviceContext.queues: device -> its QueueContext, 0 for none
  call,         \* per thread: the call it is in
  given,        \* the devices whose queue the application has got
  refused,      \* those for which no QueueContext could be made
  busy          \* queue contexts with work of theirs in flight on the GPU

mapVars    == <<DEVICES, QUEUES, queues>>
driverVars == <<devices, live, busy>>
appVars    == <<given, refused>>
envVars    == <<reused, shared>>
vars == <<envVars, driverVars, contexts, mapVars, call, appVars>>

Device  == 1 .. MaxDevices
Context == 1 .. MaxContexts
Idle == [step |-> "idle", dev |-> 0, ctx |-> 0]

Known(c)  == c \in 1 .. Len(devices)
HandleOf(c) == devices[c].handle
QueueOf(c)  == devices[c].queue

TypeOK ==
  /\ reused \in BOOLEAN /\ shared \in BOOLEAN
  /\ devices \in Seq([handle : DeviceHandles, queue : QueueHandles, layer_enabled : BOOLEAN])
  /\ Len(devices) <= MaxDevices
  /\ live \subseteq 1 .. Len(devices)
  /\ contexts \in Seq(1 .. Len(devices)) /\ Len(contexts) <= MaxContexts
  /\ DEVICES \in [DeviceHandles -> 0 .. Len(devices)]
  /\ QUEUES \in [QueueHandles -> 0 .. Len(contexts)]
  /\ queues \in [Device -> 0 .. Len(contexts)]
  /\ call \in [Threads -> [step : {"idle", "created", "got", "made", "inserted",
                                   "removed", "cleared", "swept"},
                           dev : 0 .. Len(devices), ctx : 0 .. Len(contexts)]]
  /\ given \subseteq live /\ refused \subseteq given
  /\ busy \subseteq 1 .. Len(contexts)

Init ==
  /\ reused \in BOOLEAN /\ shared \in BOOLEAN
  /\ devices = <<>> /\ live = {} /\ contexts = <<>>
  /\ DEVICES = [d \in DeviceHandles |-> 0] /\ QUEUES = [q \in QueueHandles |-> 0]
  /\ queues = [c \in Device |-> 0]
  /\ call = [t \in Threads |-> Idle]
  /\ given = {} /\ refused = {} /\ busy = {}

InCall(t, step) == call[t].step = step
Enter(t, step, c, x) == call' = [call EXCEPT ![t] = [step |-> step, dev |-> c, ctx |-> x]]
Return(t) == call' = [call EXCEPT ![t] = Idle]
Unused(c) == \A t \in Threads : call[t].dev # c

\* What holds an Arc of a QueueContext, and of a DeviceContext.  Both device
\* strategies have an Arc of the context that owns them.
HoldersOf(x) ==
  {<<"QUEUES", q>> : q \in {q \in QueueHandles : QUEUES[q] = x}} \cup
  {<<"queues", c>> : c \in {c \in Device : queues[c] = x}} \cup
  {<<"call", t>> : t \in {t \in Threads : call[t].ctx = x}}
Dropped(x) == HoldersOf(x) = {}

DeviceHolders(c) ==
  {<<"DEVICES", d>> : d \in {d \in DeviceHandles : DEVICES[d] = c}} \cup
  {<<"queue", x>> : x \in {x \in 1 .. Len(contexts) : contexts[x] = c /\ ~Dropped(x)}} \cup
  {<<"call", t>> : t \in {t \in Threads : call[t].dev = c}} \cup
  (IF devices[c].layer_enabled THEN {<<"strategy", c>>} ELSE {})

-----------------------------------------------------------------------------
(* create_device *)

\* A handle that no device has, or has ever had.
FreeFor(had(_), handle) ==
  \A c \in 1 .. Len(devices) : had(c) = handle => reused /\ c \notin live

CreateDevice(t, d, q, enabled) ==
  /\ InCall(t, "idle")
  /\ Len(devices) < MaxDevices
  /\ FreeFor(HandleOf, d) /\ FreeFor(QueueOf, q)
  /\ devices' = Append(devices, [handle |-> d, queue |-> q, layer_enabled |-> enabled])
  /\ live' = live \cup {Len(devices) + 1}
  /\ Enter(t, "created", Len(devices) + 1, 0)
  /\ UNCHANGED <<envVars, busy, contexts, mapVars, appVars>>

InsertDevice(t) ==
  /\ InCall(t, "created")
  /\ DEVICES' = [DEVICES EXCEPT ![HandleOf(call[t].dev)] = call[t].dev]
  /\ Return(t)
  /\ UNCHANGED <<envVars, driverVars, contexts, QUEUES, queues, appVars>>

-----------------------------------------------------------------------------
(* get_device_queue, get_device_queue2 and register_queue *)

Destroying(c) == \E t \in Threads : call[t].dev = c /\ call[t].step \in {"removed", "cleared", "swept"}

\* The application calls with a device it has and is not destroying.
GetQueue(t, c) ==
  /\ InCall(t, "idle")
  /\ c \in live /\ DEVICES[HandleOf(c)] # 0 /\ ~Destroying(c)
  /\ shared \/ Unused(c)
  /\ Enter(t, "got", DEVICES[HandleOf(c)], 0)
  /\ UNCHANGED <<envVars, driverVars, contexts, mapVars, appVars>>

\* contains_key: the queue has its context already.
AlreadyRegistered(t) ==
  LET c == call[t].dev
  IN /\ InCall(t, "got")
     /\ QUEUES[QueueOf(c)] # 0
     /\ given' = given \cup {c}
     /\ Return(t)
     /\ UNCHANGED <<envVars, driverVars, contexts, mapVars, refused>>

NewQueueContext(t) ==
  LET c == call[t].dev
  IN /\ InCall(t, "got")
     /\ QUEUES[QueueOf(c)] = 0
     /\ Len(contexts) < MaxContexts
     /\ contexts' = Append(contexts, c)
     /\ Enter(t, "made", c, Len(contexts) + 1)
     /\ UNCHANGED <<envVars, driverVars, mapVars, appVars>>

QueueContextFails(t) ==
  LET c == call[t].dev
  IN /\ InCall(t, "got")
     /\ QUEUES[QueueOf(c)] = 0
     /\ given' = given \cup {c} /\ refused' = refused \cup {c}
     /\ Return(t)
     /\ UNCHANGED <<envVars, driverVars, contexts, mapVars>>

Slip_KeyedByDevice(c, x) ==
  [q \in QueueHandles \cup {HandleOf(c)} |-> IF q = HandleOf(c) THEN x ELSE QUEUES[q]]

WithContext(c, x) == [QUEUES EXCEPT ![QueueOf(c)] = x]

InsertQueue(t) ==
  /\ InCall(t, "made")
  /\ QUEUES' = WithContext(call[t].dev, call[t].ctx)
  /\ Enter(t, "inserted", call[t].dev, call[t].ctx)
  /\ UNCHANGED <<envVars, driverVars, contexts, DEVICES, queues, appVars>>

Slip_DeviceForgotten(t) == queues

WithQueue(t) == [queues EXCEPT ![call[t].dev] = call[t].ctx]

InsertDeviceQueue(t) ==
  /\ InCall(t, "inserted")
  /\ queues' = WithQueue(t)
  /\ given' = given \cup {call[t].dev}
  /\ Return(t)
  /\ UNCHANGED <<envVars, driverVars, contexts, DEVICES, QUEUES, refused>>

-----------------------------------------------------------------------------
(* Submissions, and destroy_device *)

\* A submission uses the context that QUEUES has for its queue.
Submit(c) ==
  /\ c \in given /\ ~Destroying(c)
  /\ QUEUES[QueueOf(c)] # 0
  /\ busy' = busy \cup {QUEUES[QueueOf(c)]}
  /\ UNCHANGED <<envVars, devices, live, contexts, mapVars, call, appVars>>

Complete(x) ==
  /\ x \in busy
  /\ busy' = busy \ {x}
  /\ UNCHANGED <<envVars, devices, live, contexts, mapVars, call, appVars>>

Slip_KeepDevice(c) == DEVICES

WithoutDevice(c) == [DEVICES EXCEPT ![HandleOf(c)] = 0]

\* The application destroys a device that no thread of it is using.
RemoveDevice(t, c) ==
  /\ InCall(t, "idle")
  /\ c \in live /\ DEVICES[HandleOf(c)] = c /\ Unused(c)
  /\ DEVICES' = WithoutDevice(c)
  /\ Enter(t, "removed", c, 0)
  /\ UNCHANGED <<envVars, driverVars, contexts, QUEUES, queues, appVars>>

DeviceIdle(c) == \A x \in busy : contexts[x] # c

\* drain_for_destroy: vkDeviceWaitIdle, then the device forgets its queues.
DrainForDestroy(t) ==
  /\ InCall(t, "removed")
  /\ DeviceIdle(call[t].dev)
  /\ queues' = [queues EXCEPT ![call[t].dev] = 0]
  /\ Enter(t, "cleared", call[t].dev, 0)
  /\ UNCHANGED <<envVars, driverVars, contexts, DEVICES, QUEUES, appVars>>

\* The keys that the device's map has, removed from QUEUES.
Swept(c) == [q \in QueueHandles |-> IF queues[c] # 0 /\ q = QueueOf(c) THEN 0 ELSE QUEUES[q]]

SweepQueues(t) ==
  /\ InCall(t, "cleared")
  /\ QUEUES' = Swept(call[t].dev)
  /\ Enter(t, "swept", call[t].dev, 0)
  /\ UNCHANGED <<envVars, driverVars, contexts, DEVICES, queues, appVars>>

DestroyDevice(t) ==
  LET c == call[t].dev
  IN /\ InCall(t, "swept")
     /\ live' = live \ {c} /\ given' = given \ {c} /\ refused' = refused \ {c}
     /\ Return(t)
     /\ UNCHANGED <<envVars, devices, busy, contexts, mapVars>>

Next ==
  \/ \E t \in Threads, d \in DeviceHandles, q \in QueueHandles, e \in BOOLEAN :
       CreateDevice(t, d, q, e)
  \/ \E t \in Threads, c \in Device :
       Known(c) /\ (GetQueue(t, c) \/ RemoveDevice(t, c))
  \/ \E t \in Threads :
       \/ InsertDevice(t) \/ AlreadyRegistered(t) \/ NewQueueContext(t) \/ QueueContextFails(t)
       \/ InsertQueue(t) \/ InsertDeviceQueue(t)
       \/ DrainForDestroy(t) \/ SweepQueues(t) \/ DestroyDevice(t)
  \/ \E c \in Device : Submit(c)
  \/ \E x \in Context : Complete(x)

Spec == Init /\ [][Next]_vars

-----------------------------------------------------------------------------
(* Properties. *)

\* A device handle never leads to the state of an earlier device that had the
\* same handle, whatever the other threads create and destroy.
DeviceEntryCurrent ==
  \A d \in DeviceHandles : DEVICES[d] # 0 => DEVICES[d] \in live /\ HandleOf(DEVICES[d]) = d

\* A queue that the application has got is known: no submission to it is
\* turned away, unless its context could not be made.
QueueKnown == \A c \in given \ refused : QUEUES[QueueOf(c)] # 0

\* Between calls, a submission (through QUEUES) and a present (through the
\* device's queues) use the same context of a queue: the spans that the one
\* leaves are the spans that the other collects.  This takes an application
\* whose threads do not get one queue at the same time, and a driver that
\* does not use a queue's handle again.
SameContext ==
  (~reused /\ ~shared) =>
    \A c \in given : (Unused(c) /\ c \notin refused) => QUEUES[QueueOf(c)] = queues[c]

\* A device is destroyed when none of the work submitted through its contexts
\* is in flight, with the layer's command buffers wrapped around it.
DestroyedIdle == ~reused => \A x \in busy : contexts[x] \in live

\* A queue works from the time the application has it to the end of its device.
QueueServed == QueueKnown /\ SameContext /\ DestroyedIdle

\* lib.rs:457-459: "Drain in-flight GPU work + drop queues (and their
\* timestamp/command pools) *before* we call vkDestroyDevice".
QueuesDropFirst == \A x \in 1 .. Len(contexts) : contexts[x] \notin live => Dropped(x)
=============================================================================
