------------------------------- MODULE Instances -------------------------------
(***************************************************************************)
(* The instance entry points of lib.rs, with InstanceContext (instance.rs) *)
(* and PhysicalDeviceContext (physical_device.rs): which configuration an  *)
(* instance runs with, which context answers for a physical device, and    *)
(* what that context makes of the application's queries and of its         *)
(* vkCreateDevice.                                                         *)
(*                                                                         *)
(* An InstanceContext is the number of its instance in the order of        *)
(* creation.  The physical devices of an instance are <<its handle, GPU>>: *)
(* the loader gives each instance handles of its own, and both are free    *)
(* again once the driver has destroyed the instance.                       *)
(***************************************************************************)
EXTENDS LayerConfig, Negotiation

CONSTANTS Handles, Threads,
          Gpus,           \* the GPUs in the driver's order, each the device extensions it lists
          Setups,         \* the environments and files: [env, file]
          Applications,   \* what an application says of itself: [name, api_version]
          Exe,            \* the name of the executable
          Asks,           \* what applications give vkCreateDevice: [extensions, chain]
          MaxInstances    \* bound: instances created

\* What the driver, the files and the applications give: a file is lines of words,
\* a name is none or one text, a driver lists an extension once, and a valid
\* request has each extension once and each structure of its chain once.  One
\* request asks for the Anti-Lag extension and has the loader's link.
ASSUME InstancesAssumption ==
  /\ MaxInstances \in Nat /\ Setups # {} /\ Applications # {}
  /\ \A s \in Setups : s.file \in Seq(Seq(STRING))
  /\ \A app \in Applications : app.name \in Seq(Seq(STRING)) /\ Len(app.name) <= 1
  /\ Gpus \in Seq(Seq(STRING)) \ {<<>>}
  /\ \A g \in DOMAIN Gpus : IsInjective(Gpus[g])
  /\ \A ask \in Asks : /\ ask.extensions \in Seq(STRING) /\ IsInjective(ask.extensions)
                       /\ ask.chain \in Seq([type : STRING, on : BOOLEAN])
                       /\ IsInjective([i \in DOMAIN ask.chain |-> ask.chain[i].type])
  /\ \E ask \in Asks : Contains(ask.extensions, AMD_ANTI_LAG) /\ Has(ask.chain, "link")

VARIABLES
  setup,              \* the environment and the file of this process
  instances,          \* [handle, name, api_version, config, decoupled] of each one created
  live,               \* the instances the driver has not destroyed
  INSTANCES,          \* instance handle -> InstanceContext, 0 for none
  PHYSICAL_DEVICES,   \* physical device -> its context, or None
  physical_devices,   \* InstanceContext.physical_devices: the keys of each instance
  call,               \* per thread: the call it is in
  got                 \* the physical devices a successful call gave the application

vars == <<setup, instances, live, INSTANCES, PHYSICAL_DEVICES, physical_devices, call, got>>

Instance == 1 .. MaxInstances
PhysicalDevice == Handles \X DOMAIN Gpus
None == [instance |-> 0]
Idle == [step |-> "idle", ctx |-> 0, todo |-> <<>>]

HandleOf(c) == instances[c].handle
ConfigOf(c) == instances[c].config
Registered(pd) == PHYSICAL_DEVICES[pd] # None

TypeOK ==
  /\ setup \in Setups
  /\ Len(instances) <= MaxInstances
  /\ \A c \in DOMAIN instances :
       /\ HandleOf(c) \in Handles
       /\ ConfigOf(c).fps_cap \in Nat /\ ConfigOf(c).vrr_offset_hz \in Nat
       /\ \A f \in Flags : ConfigOf(c)[f] \in BOOLEAN
       /\ ConfigOf(c).spoof_profile \in NVIDIA_PRESETS
  /\ live \subseteq DOMAIN instances
  /\ INSTANCES \in [Handles -> 0 .. Len(instances)]
  /\ \A pd \in PhysicalDevice : PHYSICAL_DEVICES[pd].instance \in 0 .. Len(instances)
  /\ physical_devices \in [Instance -> SUBSET PhysicalDevice]
  /\ \A t \in Threads :
       /\ call[t].step \in {"idle", "created", "register", "own", "removed", "swept"}
       /\ call[t].ctx \in 0 .. Len(instances) /\ ToSet(call[t].todo) \subseteq PhysicalDevice
  /\ got \subseteq PhysicalDevice

Init ==
  /\ setup \in Setups
  /\ instances = <<>> /\ live = {}
  /\ INSTANCES = [h \in Handles |-> 0]
  /\ PHYSICAL_DEVICES = [pd \in PhysicalDevice |-> None]
  /\ physical_devices = [c \in Instance |-> {}]
  /\ call = [t \in Threads |-> Idle]
  /\ got = {}

InCall(t, step) == call[t].step = step
Enter(t, step, c, todo) == call' = [call EXCEPT ![t] = [step |-> step, ctx |-> c, todo |-> todo]]
Return(t) == call' = [call EXCEPT ![t] = Idle]

\* The application uses an instance it has, and destroys it alone.
Usable(c) == /\ c \in live /\ INSTANCES[HandleOf(c)] = c
             /\ \A t \in Threads : call[t].ctx = c => call[t].step \in {"register", "own"}
Unused(c) == \A t \in Threads : call[t].ctx # c

-----------------------------------------------------------------------------
(* create_instance *)

CONFIG == from_env(setup.env, setup.file)

\* An application without a name goes by that of its executable.
AppName(app) == IF app.name = <<>> THEN <<Exe>> ELSE app.name

InstanceContext(h, app) ==
  LET config == finalize_for_app(CONFIG, AppName(app))
  IN [handle |-> h, name |-> AppName(app), api_version |-> app.api_version,
      config |-> config, decoupled |-> is_known_decoupled(config, AppName(app))]

CreateInstance(t, h, app) ==
  /\ InCall(t, "idle") /\ Len(instances) < MaxInstances
  /\ \A c \in live : HandleOf(c) # h
  /\ instances' = Append(instances, InstanceContext(h, app))
  /\ live' = live \cup {Len(instances) + 1}
  /\ Enter(t, "created", Len(instances) + 1, <<>>)
  /\ UNCHANGED <<setup, INSTANCES, PHYSICAL_DEVICES, physical_devices, got>>

InsertInstance(t) ==
  /\ InCall(t, "created")
  /\ INSTANCES' = [INSTANCES EXCEPT ![HandleOf(call[t].ctx)] = call[t].ctx]
  /\ Return(t)
  /\ UNCHANGED <<setup, instances, live, PHYSICAL_DEVICES, physical_devices, got>>

-----------------------------------------------------------------------------
(* enumerate_physical_devices *)

\* The driver gives the application handles, all of them or (INCOMPLETE) some;
\* only after SUCCESS does the layer look at them.  A call that only asks for
\* the number, or fails, changes nothing.
Enumerate(t, c) ==
  /\ InCall(t, "idle") /\ Usable(c)
  /\ Enter(t, "register", c, [g \in DOMAIN Gpus |-> <<HandleOf(c), g>>])
  /\ UNCHANGED <<setup, instances, live, INSTANCES, PHYSICAL_DEVICES, physical_devices, got>>

Slip_Replace(pd, context) == [PHYSICAL_DEVICES EXCEPT ![pd] = context]
OrInsert(pd, context) ==
  IF Registered(pd) THEN PHYSICAL_DEVICES ELSE [PHYSICAL_DEVICES EXCEPT ![pd] = context]

\* entry().or_insert_with: the driver is asked for its extensions, and its
\* failure counts as none.
Register(t) ==
  /\ InCall(t, "register")
  /\ \E fails \in BOOLEAN :
       LET pd == Head(call[t].todo)
       IN PHYSICAL_DEVICES' =
            OrInsert(pd, PhysicalDeviceContext(call[t].ctx, IF fails THEN <<>> ELSE Gpus[pd[2]]))
  /\ Enter(t, "own", call[t].ctx, call[t].todo)
  /\ UNCHANGED <<setup, instances, live, INSTANCES, physical_devices, got>>

Owned(c, pd) == [physical_devices EXCEPT ![c] = @ \cup {pd}]

Own(t) ==
  LET pd == Head(call[t].todo)  rest == Tail(call[t].todo) IN
  /\ InCall(t, "own")
  /\ physical_devices' = IF Registered(pd) THEN Owned(call[t].ctx, pd) ELSE physical_devices
  /\ IF rest = <<>>
       THEN /\ Return(t)
            /\ got' = got \cup ({HandleOf(call[t].ctx)} \X DOMAIN Gpus)
       ELSE Enter(t, "register", call[t].ctx, rest) /\ UNCHANGED got
  /\ UNCHANGED <<setup, instances, live, INSTANCES, PHYSICAL_DEVICES>>

-----------------------------------------------------------------------------
(* destroy_instance *)

RemoveInstance(t, c) ==
  /\ InCall(t, "idle") /\ Usable(c) /\ Unused(c)
  /\ INSTANCES' = [INSTANCES EXCEPT ![HandleOf(c)] = 0]
  /\ Enter(t, "removed", c, <<>>)
  /\ got' = {pd \in got : pd[1] # HandleOf(c)}
  /\ UNCHANGED <<setup, instances, live, PHYSICAL_DEVICES, physical_devices>>

SweepPhysicalDevices(t) ==
  /\ InCall(t, "removed")
  /\ PHYSICAL_DEVICES' = [pd \in PhysicalDevice |->
       IF pd \in physical_devices[call[t].ctx] THEN None ELSE PHYSICAL_DEVICES[pd]]
  /\ Enter(t, "swept", call[t].ctx, <<>>)
  /\ UNCHANGED <<setup, instances, live, INSTANCES, physical_devices, got>>

DestroyInstance(t) ==
  /\ InCall(t, "swept")
  /\ live' = live \ {call[t].ctx}
  /\ Return(t)
  /\ UNCHANGED <<setup, instances, INSTANCES, PHYSICAL_DEVICES, physical_devices, got>>

-----------------------------------------------------------------------------
Next ==
  \E t \in Threads :
    \/ \E h \in Handles, app \in Applications : CreateInstance(t, h, app)
    \/ InsertInstance(t)
    \/ \E c \in live : Enumerate(t, c)
    \/ Register(t)
    \/ Own(t)
    \/ \E c \in live : RemoveInstance(t, c)
    \/ SweepPhysicalDevices(t)
    \/ DestroyInstance(t)

Spec == Init /\ [][Next]_vars

-----------------------------------------------------------------------------
(* Properties *)

\* Every entry of PHYSICAL_DEVICES is of a live instance with the entry's handle,
\* and every device the application got has one.
EntriesCurrent ==
  /\ got \subseteq {pd \in PhysicalDevice : Registered(pd)}
  /\ \A pd \in PhysicalDevice : Registered(pd) =>
       LET c == PHYSICAL_DEVICES[pd].instance IN c \in live /\ HandleOf(c) = pd[1]

\* A physical device that the application got from a live instance is answered for
\* by a context of that instance, never by that of an earlier instance whose
\* handles it has; and by the same one as long as the application may ask: a
\* second enumeration, by any thread, does not put a new context in place
\* (the or_insert_with of enumerate_physical_devices, destroy_instance).
OwnContext ==
  /\ []EntriesCurrent
  /\ [][\A pd \in got \cap got' : PHYSICAL_DEVICES'[pd] = PHYSICAL_DEVICES[pd]]_vars

\* Each instance runs with what the file says of its application, the last line
\* for a field in the first section with its name, and with the environment for
\* the rest; the known decoupled application is known under a section too
\* (load_toml, finalize_for_app, InstanceContext::new).
ConfigAsWritten ==
  \A c \in DOMAIN instances :
    LET name == instances[c].name IN
    /\ \A f \in Fields : ConfigOf(c)[f] = Written(CONFIG.base, setup.file, name, f)
    /\ instances[c].decoupled <=> \/ Written(CONFIG.base, setup.file, name, "force_decoupled")
                                  \/ name[1] \in DECOUPLED_SIMULATION_APPS

\* An application asks for extensions it was told of, and gives a version's struct
\* when it has asked for that version, and then not the structs it stands for.
Valid(ask, api, told) ==
  /\ ToSet(ask.extensions) \subseteq told
  /\ Has(ask.chain, "Vulkan13") => api >= 13 /\ ~Has(ask.chain, "Sync2")
  /\ Has(ask.chain, "Vulkan12") => api >= 12 /\ ~Has(ask.chain, "HostQueryReset")

On(chain, types) == {i \in DOMAIN chain : chain[i].type \in types /\ chain[i].on}

\* The request for a device that uses the layer: the application's extensions
\* first and in order, each extension once, all of them ones the driver has (or
\* the application asked for), the required ones among them; each feature the
\* layer needs on in exactly one structure, no structure that the chain's
\* version struct excludes; and the application's structures in their order
\* behind the layer's (create_device, patch_features, relink_into).
DriverAskedRight ==
  \A pd \in got : LET context == PHYSICAL_DEVICES[pd]  c == context.instance IN
    \A ask \in Asks :
      /\ Valid(ask, instances[c].api_version, ToSet(Gpus[pd[2]]) \cup {WatchedExt(ConfigOf(c))})
      /\ LayerEnabled(ConfigOf(c), ask)
      /\ Accepted(context, ConfigOf(c), ask)
      =>
        LET sent == Request(context, ConfigOf(c), instances[c].api_version, ask)
            added == Len(sent.chain) - Len(ask.chain)
        IN /\ IsPrefix(ask.extensions, sent.extensions)
           /\ IsInjective(sent.extensions)
           /\ ToSet(sent.extensions) \subseteq ToSet(ask.extensions) \cup ToSet(Gpus[pd[2]])
           /\ ToSet(REQUIRED_EXTENSIONS) \subseteq ToSet(sent.extensions)
           /\ Cardinality(On(sent.chain, {"Vulkan13", "Sync2"})) = 1
           /\ Cardinality(On(sent.chain, {"Vulkan12", "HostQueryReset"})) = 1
           /\ Contains(sent.extensions, "present_id") =>
                Cardinality(On(sent.chain, {"PresentId"})) = 1
           /\ Contains(sent.extensions, "present_wait") =>
                Cardinality(On(sent.chain, {"PresentWait"})) = 1
           /\ ~(Has(sent.chain, "Vulkan13") /\ Has(sent.chain, "Sync2"))
           /\ ~(Has(sent.chain, "Vulkan12") /\ Has(sent.chain, "HostQueryReset"))
           /\ \A i \in DOMAIN ask.chain : sent.chain[added + i].type = ask.chain[i].type

\* The two calls of an enumeration: asked for the number and then given that
\* much room, a query gives all it counted, once each; with less room it gives
\* a prefix and says so.
TwoCalls(Query(_)) ==
  LET n == Query(-1).count IN
  /\ Query(n).result = "SUCCESS" /\ Query(n).count = n /\ Query(n + 1) = Query(n)
  /\ IsInjective(Query(n).written)
  /\ \A cap \in 0 .. n : IsPrefix(Query(cap).written, Query(n).written)

\* What the queries tell of a physical device agrees: the merged list of its
\* extensions holds the driver's and the layer's once each, less room is
\* INCOMPLETE, and the antiLag feature is TRUE exactly when the layer does not
\* refuse a device that asks for its extension
\* (enumerate_device_extension_properties, get_physical_device_features2).
QueriesAgree ==
  \A pd \in got :
    LET context == PHYSICAL_DEVICES[pd]
        config  == ConfigOf(context.instance)
        List(filter, cap) ==
          enumerate_device_extension_properties(config, Gpus[pd[2]], filter, cap)
        All == List("none", List("none", -1).count)
    IN /\ TwoCalls(LAMBDA cap : List("none", cap))
       /\ TwoCalls(LAMBDA cap : List("this layer", cap))
       /\ TwoCalls(LAMBDA cap : LatencyModes(config, Reply("SUCCESS", 0, <<>>), cap))
       /\ ToSet(All.written) = ToSet(Gpus[pd[2]]) \cup {WatchedExt(config)}
       /\ \A cap \in 0 .. All.count - 1 : List("none", cap).result = "INCOMPLETE"
       /\ ~config.expose_reflex => \A driver \in BOOLEAN :
            AntiLagFeature(context, config, driver)
              <=> \A ask \in Asks : LayerEnabled(config, ask) /\ Has(ask.chain, "link")
                                      => Accepted(context, config, ask)
=============================================================================
