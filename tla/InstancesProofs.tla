--------------------------- MODULE InstancesProofs ---------------------------
(***************************************************************************)
(* For every set of threads and handles, every driver and every            *)
(* application: a physical device the application got is answered for by a *)
(* context of its own live instance, the same one as long as it may ask;   *)
(* an instance runs with the configuration that the file, of any number of *)
(* lines, and the environment say its application gets; both calls of a    *)
(* query agree; and the driver is asked for a device it can make, with     *)
(* what the layer needs in it once.                                        *)
(***************************************************************************)
EXTENDS Instances, FiniteSetTheorems, SequenceTheorems, WellFoundedInduction, TLAPS

Contexts == {InstanceContext(h, app) : h \in Handles, app \in Applications}
Steps == {"idle", "created", "register", "own", "removed", "swept"}
Calls == [step : Steps, ctx : Nat, todo : Seq(PhysicalDevice)]

Typed ==
  /\ instances \in Seq(Contexts) /\ Len(instances) <= MaxInstances
  /\ live \subseteq 1 .. Len(instances)
  /\ PHYSICAL_DEVICES = [pd \in PhysicalDevice |-> PHYSICAL_DEVICES[pd]]
  /\ physical_devices \in [Instance -> SUBSET PhysicalDevice]
  /\ call \in [Threads -> Calls]
  /\ got \subseteq PhysicalDevice

\* The driver gives no two live instances one handle.
OneHandleEach == \A c, d \in live : HandleOf(c) = HandleOf(d) => c = d

\* A call is on a live instance.
OnLive(t) == IF call[t].step = "idle" THEN call[t].ctx = 0 ELSE call[t].ctx \in live

\* An enumeration has devices of its own instance left, those it is done with are
\* registered, and so is the one it is about to make a key of the instance.
Enumerating(t) ==
  LET k == call[t] IN
  k.step \in {"register", "own"} =>
    /\ k.todo # <<>>
    /\ \A i \in 1 .. Len(k.todo) : k.todo[i][1] = HandleOf(k.ctx)
    /\ \A g \in DOMAIN Gpus :
         \/ Registered(<<HandleOf(k.ctx), g>>)
         \/ \E i \in 1 .. Len(k.todo) : k.todo[i] = <<HandleOf(k.ctx), g>>
    /\ k.step = "own" => Registered(Head(k.todo))

\* A destruction is alone with its instance, and after its sweep no entry is left.
Destroying(t) ==
  LET k == call[t] IN
  k.step \in {"removed", "swept"} =>
    /\ \A u \in Threads : u # t => call[u].ctx # k.ctx
    /\ \A pd \in got : pd[1] # HandleOf(k.ctx)
    /\ k.step = "swept" =>
         \A pd \in PhysicalDevice : Registered(pd) => PHYSICAL_DEVICES[pd].instance # k.ctx

CallSound(t) == OnLive(t) /\ Enumerating(t) /\ Destroying(t)

\* The keys that an instance will sweep are devices of its own,
OwnKeys ==
  \A c \in Instance : \A pd \in physical_devices[c] :
    c \in 1 .. Len(instances) /\ pd[1] = HandleOf(c)

\* and every entry is among its instance's keys, or about to be.
NoneForgotten ==
  \A pd \in PhysicalDevice : Registered(pd) =>
    LET c == PHYSICAL_DEVICES[pd].instance IN
    \/ pd \in physical_devices[c]
    \/ \E t \in Threads : call[t].step = "own" /\ call[t].ctx = c /\ Head(call[t].todo) = pd

IInv == /\ Typed /\ OneHandleEach
        /\ \A t \in Threads : CallSound(t)
        /\ OwnKeys /\ NoneForgotten /\ EntriesCurrent
-----------------------------------------------------------------------------
(* What a reader of the state may take from the invariant. *)

LEMMA CallFacts ==
  ASSUME IInv, NEW t \in Threads
  PROVE  /\ call[t] \in Calls /\ call[t].todo \in Seq(PhysicalDevice)
         /\ call[t].step # "idle" => call[t].ctx \in live
         /\ call[t].ctx \in live => call[t].ctx \in 1 .. Len(instances) /\ call[t].ctx \in Instance
BY InstancesAssumption DEF IInv, Typed, Calls, CallSound, OnLive, Instance

LEMMA SetupFixesContexts == ASSUME UNCHANGED setup PROVE Contexts' = Contexts
BY DEF Contexts, InstanceContext, AppName, CONFIG

LEMMA HandleOfInstance ==
  ASSUME Typed, NEW c \in 1 .. Len(instances)
  PROVE  HandleOf(c) \in Handles /\ instances[c] \in Contexts
<1>1. instances[c] \in Contexts
  BY ElementOfSeq DEF Typed
<1> QED BY <1>1 DEF Contexts, InstanceContext, HandleOf

\* An enumeration stands at a device of its own instance.
LEMMA AtDevice ==
  ASSUME IInv, NEW t \in Threads, call[t].step \in {"register", "own"}
  PROVE  /\ call[t].todo \in Seq(PhysicalDevice) /\ call[t].todo # <<>>
         /\ Head(call[t].todo) \in PhysicalDevice
         /\ Head(call[t].todo)[1] = HandleOf(call[t].ctx)
         /\ Head(call[t].todo) = call[t].todo[1]
         /\ call[t].ctx \in live /\ call[t].ctx \in 1 .. Len(instances)
         /\ call[t].ctx \in Instance /\ call[t].ctx # 0
<1>1. call[t].todo \in Seq(PhysicalDevice) /\ call[t].ctx \in live
      /\ call[t].ctx \in 1 .. Len(instances) /\ call[t].ctx \in Instance
  BY CallFacts
<1>2. call[t].todo # <<>>
      /\ \A i \in 1 .. Len(call[t].todo) : call[t].todo[i][1] = HandleOf(call[t].ctx)
  BY DEF IInv, CallSound, Enumerating
<1>3. Head(call[t].todo) \in PhysicalDevice /\ 1 \in 1 .. Len(call[t].todo)
      /\ Head(call[t].todo) = call[t].todo[1]
  BY <1>1, <1>2, HeadTailProperties, EmptySeq
<1> QED BY <1>1, <1>2, <1>3 DEF Instance

\* A registered device with the handle of a live instance is that instance's.
LEMMA EntryOf ==
  ASSUME IInv, NEW pd \in PhysicalDevice, Registered(pd), NEW c \in live, pd[1] = HandleOf(c)
  PROVE  PHYSICAL_DEVICES[pd].instance = c
BY DEF IInv, EntriesCurrent, OneHandleEach

-----------------------------------------------------------------------------
LEMMA InitSound == Init => IInv
<1> SUFFICES ASSUME Init PROVE IInv
  OBVIOUS
<1>1. Typed
  <2>1. instances \in Seq(Contexts) /\ Len(instances) = 0
    BY EmptySeq DEF Init
  <2>2. Idle \in Calls
    BY EmptySeq DEF Idle, Calls, Steps
  <2> QED BY <2>1, <2>2, InstancesAssumption DEF Init, Typed
<1>2. \A t \in Threads : CallSound(t)
  BY DEF Init, CallSound, OnLive, Enumerating, Destroying, Idle
<1>3. \A pd \in PhysicalDevice : ~Registered(pd)
  BY DEF Init, Registered
<1> QED BY <1>1, <1>2, <1>3 DEF Init, IInv, OneHandleEach, OwnKeys, NoneForgotten, EntriesCurrent

LEMMA CreateKeeps ==
  ASSUME IInv, NEW t \in Threads, NEW h \in Handles, NEW app \in Applications,
         CreateInstance(t, h, app)
  PROVE  IInv'
<1>0. /\ instances \in Seq(Contexts) /\ Len(instances) \in Nat /\ Len(instances) < MaxInstances
      /\ live \subseteq 1 .. Len(instances)
  BY LenProperties DEF CreateInstance, IInv, Typed
<1> PICK n \in Instance : n = Len(instances) + 1
  BY <1>0, InstancesAssumption DEF Instance
<1>1. /\ instances' \in Seq(Contexts)' /\ Len(instances') = n
      /\ \A c \in 1 .. Len(instances) : instances'[c].handle = instances[c].handle
      /\ instances'[n].handle = h
  <2>1. Contexts' = Contexts
    BY SetupFixesContexts DEF CreateInstance
  <2>2. InstanceContext(h, app) \in Contexts /\ InstanceContext(h, app).handle = h
    BY DEF Contexts, InstanceContext
  <2>3. instances' = Append(instances, InstanceContext(h, app))
    BY DEF CreateInstance
  <2> QED BY <1>0, <2>1, <2>2, <2>3, AppendProperties
<1>2. n \notin live /\ n \notin 1 .. Len(instances) /\ n \in 1 .. n /\ n \in Nat /\ n <= MaxInstances
      /\ 1 .. Len(instances) \subseteq 1 .. n
  BY <1>0, InstancesAssumption DEF Instance
<1>3. /\ call' = [call EXCEPT ![t] = [step |-> "created", ctx |-> n, todo |-> <<>>]]
      /\ live' = live \cup {n} /\ call[t].step = "idle"
      /\ UNCHANGED <<setup, INSTANCES, PHYSICAL_DEVICES, physical_devices, got>>
      /\ \A c \in live : instances[c].handle # h
  BY DEF CreateInstance, Enter, InCall, HandleOf
<1>4. Typed'
  <2>1. [step |-> "created", ctx |-> n, todo |-> <<>>] \in Calls
    BY <1>2, EmptySeq DEF Calls, Steps
  <2>2. call' \in [Threads -> Calls]
    BY <1>3, <2>1 DEF IInv, Typed
  <2> QED BY <1>0, <1>1, <1>2, <1>3, <2>2 DEF IInv, Typed
<1>5. OneHandleEach'
  BY <1>0, <1>1, <1>2, <1>3 DEF IInv, OneHandleEach, HandleOf
<1>6. ASSUME NEW u \in Threads PROVE CallSound(u)'
  <2>1. CASE u = t
    <3>1. call'[u] = [step |-> "created", ctx |-> n, todo |-> <<>>]
      BY <1>3, <2>1 DEF IInv, Typed
    <3> QED BY <1>3, <3>1 DEF CallSound, OnLive, Enumerating, Destroying
  <2>2. CASE u # t
    <3>1. call'[u] = call[u] /\ CallSound(u)
      BY <1>3, <2>2 DEF IInv, Typed
    <3>2. call[u].step # "idle" =>
            /\ call[u].ctx \in live' /\ call[u].ctx # n
            /\ instances'[call[u].ctx].handle = instances[call[u].ctx].handle
      BY <1>0, <1>1, <1>2, <1>3, <3>1 DEF CallSound, OnLive
    <3>3. \A w \in Threads : call'[w] = call[w] \/ call'[w].ctx = n
      BY <1>3 DEF IInv, Typed
    <3>4. Enumerating(u)'
      BY <1>3, <3>1, <3>2 DEF CallSound, Enumerating, Registered, HandleOf
    <3>5. Destroying(u)'
      BY <1>3, <3>1, <3>2, <3>3 DEF CallSound, Destroying, Registered, HandleOf
    <3> QED BY <3>1, <3>2, <3>4, <3>5 DEF CallSound, OnLive
  <2> QED BY <2>1, <2>2
<1>7. OwnKeys'
  BY <1>0, <1>1, <1>2, <1>3 DEF IInv, OwnKeys, HandleOf
<1>8. NoneForgotten'
  <2>1. \A w \in Threads : call[w].step = "own" => call'[w] = call[w]
    BY <1>3 DEF IInv, Typed
  <2> QED BY <1>3, <2>1 DEF IInv, NoneForgotten, Registered
<1>9. EntriesCurrent'
  BY <1>0, <1>1, <1>2, <1>3 DEF IInv, EntriesCurrent, Registered, HandleOf
<1> QED BY <1>4, <1>5, <1>6, <1>7, <1>8, <1>9 DEF IInv
LEMMA InsertKeeps ==
  ASSUME IInv, NEW t \in Threads, InsertInstance(t)
  PROVE  IInv'
<1>1. /\ call' = [call EXCEPT ![t] = Idle] /\ call[t].step = "created"
      /\ UNCHANGED <<setup, instances, live, PHYSICAL_DEVICES, physical_devices, got>>
  BY DEF InsertInstance, Return, InCall
<1>2. \A u \in Threads : call'[u] = IF u = t THEN Idle ELSE call[u]
  BY <1>1 DEF IInv, Typed
<1>3. Contexts' = Contexts
  BY <1>1, SetupFixesContexts
<1>4. Typed'
  <2>1. Idle \in Calls
    BY EmptySeq DEF Idle, Calls, Steps
  <2> QED BY <1>1, <1>3, <2>1 DEF IInv, Typed
<1>5. ASSUME NEW u \in Threads PROVE CallSound(u)'
  <2>1. CASE u = t
    BY <1>2, <2>1 DEF CallSound, OnLive, Enumerating, Destroying, Idle
  <2>2. CASE u # t
    <3>1. call'[u] = call[u] /\ CallSound(u) /\ (call[u].ctx \in live => call[u].ctx # 0)
      BY <1>2, <2>2 DEF IInv, Typed
    <3>2. Enumerating(u)'
      BY <1>1, <3>1 DEF CallSound, Enumerating, Registered, HandleOf
    <3>3. Destroying(u)'
      BY <1>1, <1>2, <3>1 DEF CallSound, OnLive, Destroying, Registered, HandleOf, Idle
    <3> QED BY <1>1, <3>1, <3>2, <3>3 DEF CallSound, OnLive
  <2> QED BY <2>1, <2>2
<1>6. NoneForgotten'
  BY <1>1, <1>2 DEF IInv, NoneForgotten, Registered
<1> QED BY <1>1, <1>4, <1>5, <1>6
        DEF IInv, OneHandleEach, OwnKeys, EntriesCurrent, Registered, HandleOf

LEMMA EnumerateKeeps ==
  ASSUME IInv, NEW t \in Threads, NEW c \in live, Enumerate(t, c)
  PROVE  IInv'
<1> DEFINE todo == [g \in DOMAIN Gpus |-> <<HandleOf(c), g>>]
           k == [step |-> "register", ctx |-> c, todo |-> todo]
<1>1. /\ call' = [call EXCEPT ![t] = k] /\ call[t].step = "idle"
      /\ UNCHANGED <<setup, instances, live, PHYSICAL_DEVICES, physical_devices, got>>
      /\ \A u \in Threads : call[u].ctx = c => call[u].step \in {"register", "own"}
  BY DEF Enumerate, Enter, InCall, Usable
<1>2. \A u \in Threads : call'[u] = IF u = t THEN k ELSE call[u]
  BY <1>1 DEF IInv, Typed
<1>3. c \in Nat /\ c # 0 /\ HandleOf(c) \in Handles
  BY HandleOfInstance DEF IInv, Typed
<1>4. /\ todo \in Seq(PhysicalDevice) /\ todo # <<>> /\ Len(todo) = Len(Gpus)
      /\ DOMAIN Gpus = 1 .. Len(Gpus)
      /\ \A i \in 1 .. Len(todo) : todo[i] = <<HandleOf(c), i>>
  <2>1. DOMAIN Gpus = 1 .. Len(Gpus) /\ Len(Gpus) \in Nat \ {0}
    BY InstancesAssumption, LenProperties, EmptySeq
  <2>2. \A g \in DOMAIN Gpus : <<HandleOf(c), g>> \in PhysicalDevice
    BY <1>3 DEF PhysicalDevice
  <2>3. todo \in [1 .. Len(Gpus) -> PhysicalDevice]
    BY <2>1, <2>2
  <2> QED BY <2>1, <2>3
<1> HIDE DEF todo
<1>5. Contexts' = Contexts
  BY <1>1, SetupFixesContexts
<1>6. Typed'
  <2>1. k \in Calls
    BY <1>3, <1>4 DEF Calls, Steps
  <2> QED BY <1>1, <1>5, <2>1 DEF IInv, Typed
<1>7. ASSUME NEW u \in Threads PROVE CallSound(u)'
  <2>1. CASE u = t
    <3>1. call'[u].step = "register" /\ call'[u].ctx = c /\ call'[u].todo = todo
      BY <1>2, <2>1
    <3>2. \A i \in 1 .. Len(todo) : todo[i][1] = instances[c].handle
      BY <1>4 DEF HandleOf
    <3>3. \A g \in DOMAIN Gpus : \E i \in 1 .. Len(todo) : todo[i] = <<instances[c].handle, g>>
      BY <1>4 DEF HandleOf
    <3> QED BY <1>1, <1>4, <3>1, <3>2, <3>3, SMTT(40) DEF CallSound, OnLive, Enumerating, Destroying, HandleOf
  <2>2. CASE u # t
    <3>1. call'[u] = call[u] /\ CallSound(u)
      BY <1>2, <2>2 DEF IInv
    <3>2. Enumerating(u)'
      BY <1>1, <3>1 DEF CallSound, Enumerating, Registered, HandleOf
    <3>3. Destroying(u)'
      BY <1>1, <1>2, <3>1 DEF CallSound, Destroying, Registered, HandleOf
    <3> QED BY <1>1, <3>1, <3>2, <3>3 DEF CallSound, OnLive
  <2> QED BY <2>1, <2>2
<1>8. NoneForgotten'
  BY <1>1, <1>2 DEF IInv, NoneForgotten, Registered
<1> QED BY <1>1, <1>6, <1>7, <1>8
        DEF IInv, OneHandleEach, OwnKeys, EntriesCurrent, Registered, HandleOf

LEMMA RemoveKeeps ==
  ASSUME IInv, NEW t \in Threads, NEW c \in live, RemoveInstance(t, c)
  PROVE  IInv'
<1> DEFINE k == [step |-> "removed", ctx |-> c, todo |-> <<>>]
<1>1. /\ call' = [call EXCEPT ![t] = k] /\ call[t].step = "idle"
      /\ got' = {pd \in got : pd[1] # HandleOf(c)}
      /\ UNCHANGED <<setup, instances, live, PHYSICAL_DEVICES, physical_devices>>
      /\ \A u \in Threads : call[u].ctx # c
  BY DEF RemoveInstance, Enter, InCall, Unused
<1>2. \A u \in Threads : call'[u] = IF u = t THEN k ELSE call[u]
  BY <1>1 DEF IInv, Typed
<1>3. Contexts' = Contexts
  BY <1>1, SetupFixesContexts
<1>4. Typed'
  <2>1. k \in Calls
    BY EmptySeq DEF Calls, Steps, IInv, Typed
  <2> QED BY <1>1, <1>3, <2>1 DEF IInv, Typed
<1>5. ASSUME NEW u \in Threads PROVE CallSound(u)'
  <2>1. CASE u = t
    BY <1>1, <1>2, <2>1 DEF CallSound, OnLive, Enumerating, Destroying, HandleOf
  <2>2. CASE u # t
    <3>1. call'[u] = call[u] /\ CallSound(u)
      BY <1>2, <2>2 DEF IInv
    <3>2. Enumerating(u)'
      BY <1>1, <3>1 DEF CallSound, Enumerating, Registered, HandleOf
    <3>3. Destroying(u)'
      BY <1>1, <1>2, <3>1 DEF CallSound, Destroying, Registered, HandleOf
    <3> QED BY <1>1, <3>1, <3>2, <3>3 DEF CallSound, OnLive
  <2> QED BY <2>1, <2>2
<1>6. NoneForgotten'
  BY <1>1, <1>2 DEF IInv, NoneForgotten, Registered
<1> QED BY <1>1, <1>4, <1>5, <1>6
        DEF IInv, OneHandleEach, OwnKeys, EntriesCurrent, Registered, HandleOf
\* An entry is never replaced, and the new one is the caller's.
LEMMA RegisterStep ==
  ASSUME IInv, NEW t \in Threads, Register(t), NEW pd, pd = Head(call[t].todo)
  PROVE  /\ PHYSICAL_DEVICES' = [q \in PhysicalDevice |-> PHYSICAL_DEVICES'[q]]
         /\ Registered(pd)'
         /\ PHYSICAL_DEVICES'[pd].instance = call[t].ctx
         /\ \A q \in PhysicalDevice : Registered(q) => PHYSICAL_DEVICES'[q] = PHYSICAL_DEVICES[q]
         /\ \A q \in PhysicalDevice : q # pd => PHYSICAL_DEVICES'[q] = PHYSICAL_DEVICES[q]
<1>1. PICK context : /\ PHYSICAL_DEVICES' = OrInsert(pd, context)
                     /\ context.instance = call[t].ctx
  <2>1. PICK available : PHYSICAL_DEVICES' = OrInsert(pd, PhysicalDeviceContext(call[t].ctx, available))
    BY DEF Register
  <2>2. PhysicalDeviceContext(call[t].ctx, available).instance = call[t].ctx
    BY DEF PhysicalDeviceContext
  <2> QED BY <2>1, <2>2
<1>2. /\ pd \in PhysicalDevice /\ pd[1] = HandleOf(call[t].ctx)
      /\ call[t].ctx \in live /\ call[t].ctx # 0
  BY AtDevice DEF Register, InCall
<1>3. context # None
  BY <1>1, <1>2 DEF None
<1>4. PHYSICAL_DEVICES = [q \in PhysicalDevice |-> PHYSICAL_DEVICES[q]]
  BY DEF IInv, Typed
<1>5. CASE Registered(pd)
  <2>1. PHYSICAL_DEVICES[pd].instance = call[t].ctx
    BY <1>2, <1>5, EntryOf
  <2>2. PHYSICAL_DEVICES' = PHYSICAL_DEVICES
    BY <1>1, <1>5 DEF OrInsert
  <2> QED BY <1>4, <1>5, <2>1, <2>2 DEF Registered
<1>6. CASE ~Registered(pd)
  <2>1. PHYSICAL_DEVICES' = [PHYSICAL_DEVICES EXCEPT ![pd] = context]
    BY <1>1, <1>6 DEF OrInsert
  <2>2. \A q \in PhysicalDevice :
          PHYSICAL_DEVICES'[q] = IF q = pd THEN context ELSE PHYSICAL_DEVICES[q]
    BY <1>4, <2>1
  <2>3. PHYSICAL_DEVICES' = [q \in PhysicalDevice |-> PHYSICAL_DEVICES'[q]]
    BY <1>4, <2>1
  <2> QED BY <1>1, <1>2, <1>3, <1>6, <2>2, <2>3 DEF Registered
<1> QED BY <1>5, <1>6

LEMMA RegisterKeeps ==
  ASSUME IInv, NEW t \in Threads, Register(t)
  PROVE  IInv'
<1> PICK c, pd : c = call[t].ctx /\ pd = Head(call[t].todo)
  OBVIOUS
<1> DEFINE k == [step |-> "own", ctx |-> call[t].ctx, todo |-> call[t].todo]
<1>1. /\ call' = [call EXCEPT ![t] = k] /\ call[t].step = "register"
      /\ UNCHANGED <<setup, instances, live, physical_devices, got>>
  BY DEF Register, Enter, InCall
<1>2. \A u \in Threads : call'[u] = IF u = t THEN k ELSE call[u]
  BY <1>1 DEF IInv, Typed
<1>3. /\ PHYSICAL_DEVICES' = [q \in PhysicalDevice |-> PHYSICAL_DEVICES'[q]]
      /\ Registered(pd)' /\ PHYSICAL_DEVICES'[pd].instance = c
      /\ \A q \in PhysicalDevice : Registered(q) => PHYSICAL_DEVICES'[q] = PHYSICAL_DEVICES[q]
      /\ \A q \in PhysicalDevice : q # pd => PHYSICAL_DEVICES'[q] = PHYSICAL_DEVICES[q]
  BY RegisterStep
<1>4. pd \in PhysicalDevice /\ pd[1] = HandleOf(c) /\ c \in live
  BY <1>1, AtDevice
<1>5. \A q \in PhysicalDevice : Registered(q) => Registered(q)'
  BY <1>3 DEF Registered
<1>6. Contexts' = Contexts
  BY <1>1, SetupFixesContexts
<1>7. Typed'
  <2>1. k \in Calls
    BY CallFacts DEF Calls, Steps
  <2> QED BY <1>1, <1>3, <1>6, <2>1 DEF IInv, Typed
<1>8. ASSUME NEW u \in Threads PROVE CallSound(u)'
  <2>1. CallSound(u) /\ call'[u].ctx = call[u].ctx /\ call'[u].todo = call[u].todo
    BY <1>2 DEF IInv
  <2>2. \A g \in DOMAIN Gpus : call[u].ctx \in live => <<HandleOf(call[u].ctx), g>> \in PhysicalDevice
    BY HandleOfInstance DEF IInv, Typed, PhysicalDevice
  <2>3. CASE u = t
    <3>1. call'[u].step = "own"
      BY <1>2, <2>3
    <3>2. Registered(pd)' /\ pd = Head(call'[u].todo)
      BY <1>3, <2>1, <2>3
    <3>3. call[u].step = "register" /\ call[u].ctx \in live
      BY <1>1, <1>4, <2>3
    <3>4. Enumerating(u)'
      BY <1>1, <1>5, <2>1, <2>2, <3>1, <3>2, <3>3
         DEF CallSound, Enumerating, HandleOf, Registered
    <3> QED BY <1>1, <2>1, <3>1, <3>3, <3>4 DEF CallSound, OnLive, Destroying
  <2>4. CASE u # t
    <3>1. call'[u] = call[u]
      BY <1>2, <2>4
    <3>2. call[u].step = "own" => Head(call[u].todo) \in PhysicalDevice
      BY AtDevice
    <3>3. call[u].step \in {"register", "own"} => call[u].ctx \in live
      BY CallFacts
    <3>4. Enumerating(u)'
      BY <1>1, <1>5, <2>1, <2>2, <3>1, <3>2, <3>3 DEF CallSound, Enumerating, HandleOf
    <3>5. \A w \in Threads : call'[w].ctx = call[w].ctx
      BY <1>2
    <3>6. call[u].step = "swept" => call[u].ctx # c
      BY <2>1, <2>4 DEF CallSound, Destroying
    <3>7. Destroying(u)'
      BY <1>1, <1>3, <2>1, <3>1, <3>5, <3>6 DEF CallSound, Destroying, HandleOf, Registered
    <3> QED BY <1>1, <2>1, <3>1, <3>4, <3>7 DEF CallSound, OnLive
  <2> QED BY <2>3, <2>4
<1>9. NoneForgotten'
  <2> SUFFICES ASSUME NEW q \in PhysicalDevice, Registered(q)'
               PROVE  \/ q \in physical_devices'[PHYSICAL_DEVICES'[q].instance]
                      \/ \E w \in Threads : /\ call'[w].step = "own"
                                            /\ call'[w].ctx = PHYSICAL_DEVICES'[q].instance
                                            /\ Head(call'[w].todo) = q
    BY DEF NoneForgotten
  <2>1. CASE q = pd
    BY <1>2, <1>3, <2>1
  <2>2. CASE q # pd
    <3>1. PHYSICAL_DEVICES'[q] = PHYSICAL_DEVICES[q] /\ Registered(q)
      BY <1>3, <2>2 DEF Registered
    <3> QED BY <1>1, <1>2, <3>1 DEF IInv, NoneForgotten
  <2> QED BY <2>1, <2>2
<1>10. EntriesCurrent'
  <2>1. \A q \in PhysicalDevice : Registered(q)' =>
          PHYSICAL_DEVICES'[q].instance \in live /\ HandleOf(PHYSICAL_DEVICES'[q].instance) = q[1]
    BY <1>3, <1>4 DEF IInv, EntriesCurrent, Registered
  <2> QED BY <1>1, <1>5, <2>1 DEF IInv, EntriesCurrent, HandleOf
<1> QED BY <1>1, <1>7, <1>8, <1>9, <1>10 DEF IInv, OneHandleEach, OwnKeys, HandleOf
LEMMA OwnKeeps ==
  ASSUME IInv, NEW t \in Threads, Own(t)
  PROVE  IInv'
<1> PICK c, pd, todo : c = call[t].ctx /\ todo = call[t].todo /\ pd = Head(todo)
  OBVIOUS
<1> DEFINE new == {HandleOf(c)} \X DOMAIN Gpus
           next == IF Tail(todo) = <<>>
                     THEN Idle ELSE [step |-> "register", ctx |-> c, todo |-> Tail(todo)]
<1>1. /\ call[t].step = "own" /\ call' = [call EXCEPT ![t] = next]
      /\ physical_devices' = IF Registered(pd) THEN Owned(c, pd) ELSE physical_devices
      /\ got' = IF Tail(todo) = <<>> THEN got \cup new ELSE got
      /\ UNCHANGED <<setup, instances, live, PHYSICAL_DEVICES>>
  BY DEF Own, Enter, Return, InCall
<1>2. /\ todo \in Seq(PhysicalDevice) /\ todo # <<>> /\ pd = todo[1]
      /\ pd \in PhysicalDevice /\ pd[1] = HandleOf(c)
      /\ c \in live /\ c \in 1 .. Len(instances) /\ c \in Instance /\ c # 0 /\ c \in Nat
  BY <1>1, AtDevice DEF Instance
<1>3. /\ Registered(pd)
      /\ \A i \in 1 .. Len(todo) : todo[i][1] = HandleOf(c)
      /\ \A g \in DOMAIN Gpus : \/ Registered(<<HandleOf(c), g>>)
                               \/ \E i \in 1 .. Len(todo) : todo[i] = <<HandleOf(c), g>>
  BY <1>1 DEF IInv, CallSound, Enumerating
<1>4. /\ Tail(todo) \in Seq(PhysicalDevice) /\ Len(Tail(todo)) = Len(todo) - 1
      /\ \A i \in 1 .. Len(Tail(todo)) : Tail(todo)[i] = todo[i + 1] /\ i + 1 \in 1 .. Len(todo)
      /\ \A i \in 1 .. Len(todo) : i # 1 => i - 1 \in 1 .. Len(Tail(todo)) /\ todo[i] = Tail(todo)[i - 1]
  BY <1>2, HeadTailProperties, LenProperties
<1>5. /\ \A i \in 1 .. Len(Tail(todo)) : Tail(todo)[i][1] = HandleOf(c)
      /\ \A g \in DOMAIN Gpus :
           \/ Registered(<<HandleOf(c), g>>)
           \/ \E i \in 1 .. Len(Tail(todo)) : Tail(todo)[i] = <<HandleOf(c), g>>
  <2>1. ASSUME NEW g \in DOMAIN Gpus, ~Registered(<<HandleOf(c), g>>)
        PROVE  \E i \in 1 .. Len(Tail(todo)) : Tail(todo)[i] = <<HandleOf(c), g>>
    <3>1. PICK i \in 1 .. Len(todo) : todo[i] = <<HandleOf(c), g>>
      BY <1>3, <2>1
    <3>2. i # 1
      BY <1>2, <1>3, <2>1, <3>1
    <3>3. i - 1 \in 1 .. Len(Tail(todo)) /\ todo[i] = Tail(todo)[i - 1]
      BY <1>4, <3>1, <3>2
    <3> QED BY <3>1, <3>3
  <2>2. \A i \in 1 .. Len(Tail(todo)) : Tail(todo)[i][1] = HandleOf(c)
    BY <1>3, <1>4
  <2> QED BY <2>1, <2>2
<1>6. \A u \in Threads : call'[u] = IF u = t THEN next ELSE call[u]
  BY <1>1 DEF IInv, Typed
<1>7. /\ next \in Calls /\ next.ctx \in {0, c} /\ next.step \in {"idle", "register"}
      /\ next.step = "idle" <=> Tail(todo) = <<>>
      /\ next.step = "idle" => next.ctx = 0
      /\ next.step = "register" => next.ctx = c /\ next.todo = Tail(todo)
  BY <1>2, <1>4, EmptySeq DEF Calls, Steps, Idle
<1>8. new \subseteq PhysicalDevice /\ \A q \in new : q[1] = HandleOf(c)
  BY <1>2, HandleOfInstance DEF PhysicalDevice, IInv
<1>9. got' \subseteq got \cup new
  BY <1>1
<1>10. Tail(todo) = <<>> => \A q \in new : Registered(q)
  <2> SUFFICES ASSUME Tail(todo) = <<>>, NEW g \in DOMAIN Gpus PROVE Registered(<<HandleOf(c), g>>)
    OBVIOUS
  <2>1. Len(Tail(todo)) = 0
    OBVIOUS
  <2> QED BY <1>5, <2>1
<1> HIDE DEF next, new
<1>11. /\ physical_devices' \in [Instance -> SUBSET PhysicalDevice]
       /\ \A d \in Instance : physical_devices'[d] =
            IF d = c THEN physical_devices[c] \cup {pd} ELSE physical_devices[d]
  BY <1>1, <1>2, <1>3 DEF IInv, Typed, Owned
<1>12. Contexts' = Contexts
  BY <1>1, SetupFixesContexts
<1>13. Typed'
  BY <1>1, <1>7, <1>8, <1>9, <1>11, <1>12 DEF IInv, Typed
<1>14. ASSUME NEW u \in Threads PROVE CallSound(u)'
  <2>1. CASE u = t
    <3>1. call'[u] = next
      BY <1>6, <2>1
    <3>2. OnLive(u)'
      BY <1>1, <1>2, <1>7, <3>1 DEF OnLive
    <3>3. Enumerating(u)'
      <4> SUFFICES ASSUME next.step = "register" PROVE Enumerating(u)'
        BY <1>7, <3>1 DEF Enumerating
      <4>1. /\ call'[u].step = "register" /\ call'[u].ctx = c
            /\ call'[u].todo = Tail(todo) /\ Tail(todo) # <<>>
        BY <1>7, <3>1
      <4>2. /\ instances' = instances /\ PHYSICAL_DEVICES' = PHYSICAL_DEVICES
            /\ HandleOf(c) = instances[c].handle
        BY <1>1 DEF HandleOf
      <4> QED BY <1>5, <4>1, <4>2 DEF Enumerating, Registered, HandleOf
    <3> QED BY <1>7, <3>1, <3>2, <3>3 DEF CallSound, Destroying
  <2>2. CASE u # t
    <3>1. call'[u] = call[u] /\ CallSound(u)
      BY <1>6, <2>2 DEF IInv
    <3>2. Enumerating(u)'
      BY <1>1, <3>1 DEF CallSound, Enumerating, Registered, HandleOf
    <3>3. ASSUME call[u].step \in {"removed", "swept"}
          PROVE  /\ \A w \in Threads : w # u => call'[w].ctx # call[u].ctx
                 /\ \A q \in got' : q[1] # HandleOf(call[u].ctx)
      <4>1. call[u].ctx \in live /\ call[u].ctx # 0 /\ call[u].ctx # c
        BY <2>2, <3>1, <3>3, CallFacts DEF CallSound, Destroying, Instance
      <4>2. HandleOf(call[u].ctx) # HandleOf(c)
        BY <1>2, <4>1 DEF IInv, OneHandleEach
      <4> QED BY <1>6, <1>7, <1>8, <1>9, <3>1, <3>3, <4>1, <4>2 DEF CallSound, Destroying
    <3>4. Destroying(u)'
      BY <1>1, <3>1, <3>3 DEF CallSound, Destroying, Registered, HandleOf
    <3> QED BY <1>1, <3>1, <3>2, <3>4 DEF CallSound, OnLive
  <2> QED BY <2>1, <2>2
<1>15. OwnKeys'
  BY <1>1, <1>2, <1>11 DEF IInv, OwnKeys, HandleOf
<1>16. NoneForgotten'
  <2> SUFFICES ASSUME NEW q \in PhysicalDevice, Registered(q)
               PROVE  \/ q \in physical_devices'[PHYSICAL_DEVICES[q].instance]
                      \/ \E w \in Threads : /\ call'[w].step = "own"
                                            /\ call'[w].ctx = PHYSICAL_DEVICES[q].instance
                                            /\ Head(call'[w].todo) = q
    BY <1>1 DEF NoneForgotten, Registered
  <2>1. PHYSICAL_DEVICES[q].instance \in Instance
    BY InstancesAssumption DEF IInv, EntriesCurrent, Typed, Instance
  <2>2. CASE q \in physical_devices[PHYSICAL_DEVICES[q].instance]
    BY <1>11, <2>1, <2>2
  <2>3. ASSUME NEW w \in Threads, call[w].step = "own",
               call[w].ctx = PHYSICAL_DEVICES[q].instance, Head(call[w].todo) = q
        PROVE  \/ q \in physical_devices'[PHYSICAL_DEVICES[q].instance]
               \/ call'[w] = call[w]
    BY <1>6, <1>11, <2>1, <2>3
  <2> QED BY <2>2, <2>3 DEF IInv, NoneForgotten
<1>17. EntriesCurrent'
  BY <1>1, <1>8, <1>10 DEF IInv, EntriesCurrent, Registered, HandleOf
<1> QED BY <1>1, <1>13, <1>14, <1>15, <1>16, <1>17 DEF IInv, OneHandleEach, HandleOf
LEMMA SweepKeeps ==
  ASSUME IInv, NEW t \in Threads, SweepPhysicalDevices(t)
  PROVE  /\ IInv'
         /\ \A pd \in got : PHYSICAL_DEVICES'[pd] = PHYSICAL_DEVICES[pd]
<1> PICK c : c = call[t].ctx
  OBVIOUS
<1> DEFINE k == [step |-> "swept", ctx |-> c, todo |-> <<>>]
<1>1. /\ call[t].step = "removed" /\ call' = [call EXCEPT ![t] = k]
      /\ PHYSICAL_DEVICES' = [pd \in PhysicalDevice |->
           IF pd \in physical_devices[c] THEN None ELSE PHYSICAL_DEVICES[pd]]
      /\ UNCHANGED <<setup, instances, live, physical_devices, got>>
  BY DEF SweepPhysicalDevices, Enter, InCall
<1>2. /\ c \in live /\ c \in Instance /\ c \in Nat
      /\ \A u \in Threads : u # t => call[u].ctx # c
      /\ \A pd \in got : pd[1] # HandleOf(c)
  BY <1>1, CallFacts DEF IInv, CallSound, Destroying, Instance
<1>3. \A u \in Threads : call'[u] = IF u = t THEN k ELSE call[u]
  BY <1>1 DEF IInv, Typed
<1>4. \A pd \in physical_devices[c] : pd \in PhysicalDevice /\ pd[1] = HandleOf(c)
  BY <1>2 DEF IInv, OwnKeys, Typed
<1>5. \A pd \in PhysicalDevice :
        /\ Registered(pd)' => Registered(pd) /\ pd \notin physical_devices[c]
        /\ pd \notin physical_devices[c] => PHYSICAL_DEVICES'[pd] = PHYSICAL_DEVICES[pd]
  BY <1>1 DEF Registered
<1>6. \A pd \in PhysicalDevice : pd[1] # HandleOf(c) => PHYSICAL_DEVICES'[pd] = PHYSICAL_DEVICES[pd]
  BY <1>4, <1>5
<1>7. \A pd \in got : PHYSICAL_DEVICES'[pd] = PHYSICAL_DEVICES[pd]
  BY <1>2, <1>6 DEF IInv, Typed
<1>8. Contexts' = Contexts
  BY <1>1, SetupFixesContexts
<1>9. Typed'
  <2>1. k \in Calls
    BY <1>2, EmptySeq DEF Calls, Steps
  <2>2. PHYSICAL_DEVICES' = [pd \in PhysicalDevice |-> PHYSICAL_DEVICES'[pd]]
    BY <1>1
  <2> QED BY <1>1, <1>8, <2>1, <2>2 DEF IInv, Typed
<1>10. \A pd \in PhysicalDevice : Registered(pd)' => PHYSICAL_DEVICES'[pd].instance # c
  <2> SUFFICES ASSUME NEW pd \in PhysicalDevice, Registered(pd)', PHYSICAL_DEVICES[pd].instance = c
               PROVE  FALSE
    BY <1>5
  <2>1. Registered(pd) /\ pd \notin physical_devices[c]
    BY <1>5
  <2>2. PICK w \in Threads : call[w].step = "own" /\ call[w].ctx = c
    BY <2>1 DEF IInv, NoneForgotten
  <2> QED BY <1>1, <1>2, <2>2
<1>11. ASSUME NEW u \in Threads PROVE CallSound(u)'
  <2>1. CASE u = t
    <3>1. call'[u] = k
      BY <1>3, <2>1
    <3>2. \A w \in Threads : w # u => call'[w].ctx # c
      BY <1>2, <1>3, <2>1
    <3>3. Destroying(u)'
      BY <1>1, <1>2, <1>10, <3>1, <3>2 DEF Destroying, HandleOf, Registered
    <3> QED BY <1>1, <1>2, <3>1, <3>3 DEF CallSound, OnLive, Enumerating
  <2>2. CASE u # t
    <3>1. call'[u] = call[u] /\ CallSound(u)
      BY <1>3, <2>2 DEF IInv
    <3>2. ASSUME call[u].step \in {"register", "own"} PROVE Enumerating(u)'
      <4>1. /\ call[u].ctx \in live /\ call[u].ctx \in 1 .. Len(instances)
            /\ Head(call[u].todo) \in PhysicalDevice
            /\ Head(call[u].todo)[1] = HandleOf(call[u].ctx)
        BY <3>2, AtDevice
      <4>2. HandleOf(call[u].ctx) # HandleOf(c) /\ HandleOf(call[u].ctx) \in Handles
        BY <1>2, <2>2, <4>1, HandleOfInstance DEF IInv, OneHandleEach
      <4>3. \A g \in DOMAIN Gpus :
              PHYSICAL_DEVICES'[<<HandleOf(call[u].ctx), g>>] = PHYSICAL_DEVICES[<<HandleOf(call[u].ctx), g>>]
        BY <1>6, <4>2 DEF PhysicalDevice
      <4>4. PHYSICAL_DEVICES'[Head(call[u].todo)] = PHYSICAL_DEVICES[Head(call[u].todo)]
        BY <1>6, <4>1, <4>2
      <4> QED BY <1>1, <3>1, <4>3, <4>4 DEF CallSound, Enumerating, Registered, HandleOf
    <3>3. Destroying(u)'
      BY <1>1, <1>2, <1>3, <1>5, <2>2, <3>1 DEF CallSound, Destroying, Registered, HandleOf
    <3> QED BY <1>1, <3>1, <3>2, <3>3, SMTT(40) DEF CallSound, OnLive, Enumerating
  <2> QED BY <2>1, <2>2
<1>12. NoneForgotten'
  BY <1>1, <1>3, <1>5 DEF IInv, NoneForgotten, Registered
<1>13. EntriesCurrent'
  BY <1>1, <1>5, <1>7 DEF IInv, EntriesCurrent, Registered, HandleOf
<1> QED BY <1>1, <1>7, <1>9, <1>11, <1>12, <1>13 DEF IInv, OneHandleEach, OwnKeys, HandleOf

LEMMA DestroyKeeps ==
  ASSUME IInv, NEW t \in Threads, DestroyInstance(t)
  PROVE  IInv'
<1> PICK c : c = call[t].ctx
  OBVIOUS
<1>1. /\ call[t].step = "swept" /\ call' = [call EXCEPT ![t] = Idle] /\ live' = live \ {c}
      /\ UNCHANGED <<setup, instances, PHYSICAL_DEVICES, physical_devices, got>>
  BY DEF DestroyInstance, Return, InCall
<1>2. /\ \A u \in Threads : u # t => call[u].ctx # c
      /\ \A pd \in PhysicalDevice : Registered(pd) => PHYSICAL_DEVICES[pd].instance # c
  BY <1>1 DEF IInv, CallSound, Destroying
<1>3. \A u \in Threads : call'[u] = IF u = t THEN Idle ELSE call[u]
  BY <1>1 DEF IInv, Typed
<1>4. Contexts' = Contexts
  BY <1>1, SetupFixesContexts
<1>5. Typed'
  <2>1. Idle \in Calls
    BY EmptySeq DEF Idle, Calls, Steps
  <2> QED BY <1>1, <1>4, <2>1 DEF IInv, Typed
<1>6. ASSUME NEW u \in Threads PROVE CallSound(u)'
  <2>1. CASE u = t
    BY <1>3, <2>1 DEF CallSound, OnLive, Enumerating, Destroying, Idle
  <2>2. CASE u # t
    <3>1. call'[u] = call[u] /\ CallSound(u) /\ call[u].ctx # c
          /\ (call[u].step # "idle" => call[u].ctx # 0)
      BY <1>2, <1>3, <2>2, CallFacts DEF IInv, Instance
    <3>2. Enumerating(u)'
      BY <1>1, <3>1 DEF CallSound, Enumerating, Registered, HandleOf
    <3>3. Destroying(u)'
      BY <1>1, <1>3, <3>1 DEF CallSound, Destroying, Registered, HandleOf, Idle
    <3> QED BY <1>1, <3>1, <3>2, <3>3 DEF CallSound, OnLive
  <2> QED BY <2>1, <2>2
<1>7. NoneForgotten'
  BY <1>1, <1>3 DEF IInv, NoneForgotten, Registered
<1>8. EntriesCurrent'
  BY <1>1, <1>2 DEF IInv, EntriesCurrent, Registered, HandleOf
<1> QED BY <1>1, <1>5, <1>6, <1>7, <1>8 DEF IInv, OneHandleEach, OwnKeys, HandleOf

-----------------------------------------------------------------------------
\* Every entry that answers is its device's own: the invariant is kept, and with it
\* the entries of devices the application goes on holding.
THEOREM Invariance == Spec => []IInv
<1>1. IInv /\ [Next]_vars => IInv'
  <2> SUFFICES ASSUME IInv, [Next]_vars PROVE IInv'
    OBVIOUS
  <2>1. ASSUME NEW t \in Threads, NEW h \in Handles, NEW app \in Applications,
               CreateInstance(t, h, app)
        PROVE  IInv'
    BY <2>1, CreateKeeps
  <2>2. ASSUME NEW t \in Threads, InsertInstance(t) PROVE IInv'
    BY <2>2, InsertKeeps
  <2>3. ASSUME NEW t \in Threads, NEW c \in live, Enumerate(t, c) PROVE IInv'
    BY <2>3, EnumerateKeeps
  <2>4. ASSUME NEW t \in Threads, Register(t) PROVE IInv'
    BY <2>4, RegisterKeeps
  <2>5. ASSUME NEW t \in Threads, Own(t) PROVE IInv'
    BY <2>5, OwnKeeps
  <2>6. ASSUME NEW t \in Threads, NEW c \in live, RemoveInstance(t, c) PROVE IInv'
    BY <2>6, RemoveKeeps
  <2>7. ASSUME NEW t \in Threads, SweepPhysicalDevices(t) PROVE IInv'
    BY <2>7, SweepKeeps
  <2>8. ASSUME NEW t \in Threads, DestroyInstance(t) PROVE IInv'
    BY <2>8, DestroyKeeps
  <2>9. CASE UNCHANGED vars
    <3>1. /\ UNCHANGED <<setup, instances, live, PHYSICAL_DEVICES, physical_devices, call, got>>
          /\ Contexts' = Contexts
      BY <2>9, SetupFixesContexts DEF vars
    <3>2. Typed' /\ OneHandleEach' /\ OwnKeys'
      BY <3>1 DEF IInv, Typed, OneHandleEach, OwnKeys, HandleOf
    <3>3. ASSUME NEW t \in Threads PROVE CallSound(t)'
      BY <3>1 DEF IInv, CallSound, OnLive, Enumerating, Destroying, Registered, HandleOf
    <3>4. NoneForgotten' /\ EntriesCurrent'
      BY <3>1 DEF IInv, NoneForgotten, EntriesCurrent, Registered, HandleOf
    <3> QED BY <3>2, <3>3, <3>4 DEF IInv
  <2> QED BY <2>1, <2>2, <2>3, <2>4, <2>5, <2>6, <2>7, <2>8, <2>9 DEF Next
<1> QED BY InitSound, <1>1, PTL DEF Spec

\* OwnContext, for any number of handles, threads, instances and GPUs: what the
\* application got is answered for by its own instance's context, and by the same
\* one as long as it may ask (enumerate_physical_devices, destroy_instance).
THEOREM AnsweredByItsOwn == Spec => OwnContext
<1>1. IInv => EntriesCurrent
  BY DEF IInv
<1>2. IInv /\ [Next]_vars =>
        [\A pd \in got \cap got' : PHYSICAL_DEVICES'[pd] = PHYSICAL_DEVICES[pd]]_vars
  <2> SUFFICES ASSUME IInv, Next, NEW pd \in got
               PROVE  PHYSICAL_DEVICES'[pd] = PHYSICAL_DEVICES[pd]
    OBVIOUS
  <2>1. pd \in PhysicalDevice /\ Registered(pd)
    BY DEF IInv, EntriesCurrent
  <2>2. ASSUME NEW t \in Threads, Register(t) PROVE PHYSICAL_DEVICES'[pd] = PHYSICAL_DEVICES[pd]
    BY <2>1, <2>2, RegisterStep
  <2>3. ASSUME NEW t \in Threads, SweepPhysicalDevices(t)
        PROVE  PHYSICAL_DEVICES'[pd] = PHYSICAL_DEVICES[pd]
    BY <2>3, SweepKeeps
  <2> QED BY <2>2, <2>3 DEF Next, CreateInstance, InsertInstance, Enumerate, Own, RemoveInstance,
                            DestroyInstance
<1> QED BY Invariance, <1>1, <1>2, PTL DEF Spec, OwnContext

-----------------------------------------------------------------------------
(* Induction over the lines of a file, by the least counterexample.         *)

\* A non-empty set of naturals has a least element.
LEMMA LeastNatural ==
  ASSUME NEW S \in SUBSET Nat, S # {}
  PROVE  \E m \in S : \A n \in S : m <= n
<1>1. \E m \in S : \A n \in S : ~ (<<n, m>> \in OpToRel(<, Nat))
  BY NatLessThanWellFounded, WFMin
<1>2. PICK m \in S : \A n \in S : ~ (<<n, m>> \in OpToRel(<, Nat))  BY <1>1
<1>3. \A n \in S : <<n, m>> \in OpToRel(<, Nat) <=> n < m
  BY DEF OpToRel
<1>4. \A n \in S : ~ (n < m)  BY <1>2, <1>3, Zenon
<1>. QED  BY <1>4

\* A set of naturals with 0 and the successor of each of its members holds all.
LEMMA NatSetInduction ==
  ASSUME NEW S, NEW N \in Nat, 0 \in S, \A i \in 0 .. N - 1 : i \in S => i + 1 \in S
  PROVE  \A i \in 0 .. N : i \in S
<1> DEFINE B == {i \in 0 .. N : i \notin S}
<1>1. SUFFICES ASSUME B # {} PROVE FALSE
  OBVIOUS
<1>2. PICK m \in B : \A i \in B : m <= i
  <2>1. B \in SUBSET Nat  OBVIOUS
  <2>. HIDE DEF B
  <2>. QED  BY <1>1, <2>1, LeastNatural
<1>3. m \in 1 .. N /\ m - 1 \in 0 .. N - 1 /\ m \notin S  BY <1>2
<1>4. m - 1 \in S  BY <1>2, <1>3
<1>5. (m - 1) + 1 \in S  BY <1>3, <1>4
<1>. QED  BY <1>3, <1>5

\* A state that is folded over N steps: the recursion has a solution.
Folds(f, n, S, b, F) == f \in [0 .. n -> S] /\ f[0] = b /\ \A i \in 1 .. n : f[i] = F[i][f[i - 1]]

LEMMA RecursionExists ==
  ASSUME NEW N \in Nat, NEW S, NEW b \in S, NEW F \in [1 .. N -> [S -> S]]
  PROVE  \E f : Folds(f, N, S, b, F)
<1> DEFINE Upto(n, f) == f \in [0 .. n -> S] /\ f[0] = b /\ \A i \in 1 .. n : f[i] = F[i][f[i - 1]]
           G == {n \in 0 .. N : \E f : Upto(n, f)}
<1>1. 0 \in G
  <2>1. Upto(0, [i \in 0 .. 0 |-> b])  OBVIOUS
  <2>. HIDE DEF Upto
  <2>. QED  BY <2>1
<1>2. ASSUME NEW n \in 0 .. N - 1, n \in G  PROVE n + 1 \in G
  <2>1. PICK f : Upto(n, f)  BY <1>2
  <2>2. n + 1 \in 1 .. N /\ n \in 0 .. n /\ n + 1 \notin 0 .. n  BY <1>2
  <2>3. F[n + 1] \in [S -> S] /\ f[n] \in S  BY <2>1, <2>2
  <2>4. PICK e \in S : e = F[n + 1][f[n]]  BY <2>3
  <2> DEFINE g == [i \in 0 .. n + 1 |-> IF i = n + 1 THEN e ELSE f[i]]
  <2>5. g \in [0 .. n + 1 -> S] /\ g[0] = b  BY <2>1, <2>2
  <2>6. ASSUME NEW i \in 1 .. n + 1  PROVE g[i] = F[i][g[i - 1]]
    <3>1. CASE i = n + 1
      <4>1. g[i] = e /\ g[i - 1] = f[n]  BY <2>2, <3>1
      <4>. QED  BY <2>4, <3>1, <4>1
    <3>2. CASE i \in 1 .. n
      <4>1. g[i] = f[i] /\ g[i - 1] = f[i - 1]  BY <2>2, <3>2
      <4>. QED  BY <2>1, <3>2, <4>1
    <3>. QED  BY <3>1, <3>2
  <2>7. Upto(n + 1, g)  BY <2>5, <2>6
  <2>. HIDE DEF Upto, g
  <2>. QED  BY <2>2, <2>7
<1>3. N \in G
  <2>. HIDE DEF G
  <2>1. \A i \in 0 .. N - 1 : i \in G => i + 1 \in G  BY <1>2
  <2>2. \A i \in 0 .. N : i \in G  BY <1>1, <2>1, NatSetInduction
  <2>. QED  BY <2>2
<1>4. PICK f : Upto(N, f)  BY <1>3
<1>. QED  BY <1>4 DEF Folds

-----------------------------------------------------------------------------
(* load_toml *)

Overrides(lines) ==
  [app_name : {SectionName(lines[i]) : i \in 1 .. Len(lines)},
   set : [Fields -> {Parse(f, Value(lines[i])) : f \in Fields, i \in 1 .. Len(lines)} \cup {<<>>}]]

LEMMA ReadsIs ==
  ASSUME NEW lines, Len(lines) \in Nat
  PROVE  /\ \A i \in 0 .. Len(lines) : Reads(lines)[i] \in Seq(Overrides(lines))
         /\ Reads(lines)[0] = <<>>
         /\ \A i \in 1 .. Len(lines) : Reads(lines)[i] = ReadLine(Reads(lines)[i - 1], lines[i])
<1> DEFINE N == Len(lines)
           Names == {SectionName(lines[i]) : i \in 1 .. N}
           Parsed == {Parse(f, Value(lines[i])) : f \in Fields, i \in 1 .. N} \cup {<<>>}
           Over == [app_name : Names, set : [Fields -> Parsed]]
           S == Seq(Over)
           F == [i \in 1 .. N |-> [r \in S |-> ReadLine(r, lines[i])]]
           Step(f) == [i \in 0 .. N |-> IF i = 0 THEN <<>> ELSE ReadLine(f[i - 1], lines[i])]
<1>1. <<>> \in S  BY EmptySeq
<1>2. ASSUME NEW r \in S, NEW i \in 1 .. N  PROVE ReadLine(r, lines[i]) \in S
  <2>1. CASE IsSection(lines[i])
    <3>1. AppOverride(SectionName(lines[i])) \in Over  BY DEF AppOverride
    <3>2. ReadLine(r, lines[i]) = Append(r, AppOverride(SectionName(lines[i])))
      BY <2>1 DEF ReadLine
    <3>. HIDE DEF Over
    <3>. QED  BY <1>2, <3>1, <3>2, AppendProperties
  <2>2. CASE ~IsSection(lines[i]) /\ IsSetting(lines[i]) /\ r # <<>>
    <3>1. Len(r) \in Nat \ {0} /\ r[Len(r)] \in Over
      <4>. HIDE DEF Over
      <4>. QED  BY <1>2, <2>2, EmptySeq, ElementOfSeq, LenProperties
    <3>2. SetLine(Last(r), lines[i]) \in Over
      <4>1. \A f \in Fields : Parse(f, Value(lines[i])) \in Parsed  OBVIOUS
      <4>2. r[Len(r)].set \in [Fields -> Parsed]  BY <3>1
      <4>3. [f \in Fields |-> IF f \in Key(lines[i]) THEN Parse(f, Value(lines[i]))
                              ELSE r[Len(r)].set[f]] \in [Fields -> Parsed]
        <5>. HIDE DEF Parsed
        <5>. QED  BY <4>1, <4>2
      <4>. HIDE DEF Parsed, Names
      <4>. QED  BY <3>1, <4>3 DEF SetLine, Last
    <3>3. Front(r) \in S
      <4>. HIDE DEF Over
      <4>1. \A j \in 1 .. Len(r) - 1 : r[j] \in Over  BY <1>2, <3>1, ElementOfSeq
      <4>. QED  BY <3>1, <4>1, SubSeqProperties DEF Front
    <3>4. ReadLine(r, lines[i]) = Append(Front(r), SetLine(Last(r), lines[i]))
      BY <2>2 DEF ReadLine
    <3>. HIDE DEF Over
    <3>. QED  BY <3>2, <3>3, <3>4, AppendProperties
  <2>3. CASE ~IsSection(lines[i]) /\ ~(IsSetting(lines[i]) /\ r # <<>>)
    <3>1. ReadLine(r, lines[i]) = r  BY <2>3 DEF ReadLine
    <3>. QED  BY <1>2, <3>1
  <2>. QED  BY <2>1, <2>2, <2>3
<1>3. F \in [1 .. N -> [S -> S]]
  <2>. HIDE DEF S
  <2>. QED  BY <1>2
<1>4. \E f : f \in [0 .. N -> S] /\ f = Step(f)
  <2>. HIDE DEF S
  <2>1. PICK f \in [0 .. N -> S] : f[0] = <<>> /\ \A i \in 1 .. N : f[i] = F[i][f[i - 1]]
    <3>1. N \in Nat  OBVIOUS
    <3>. HIDE DEF F, N
    <3>2. PICK e \in S : e = <<>>  BY <1>1
    <3>3. PICK f : Folds(f, N, S, e, F)  BY <1>3, <3>1, RecursionExists
    <3>. QED  BY <3>2, <3>3 DEF Folds
  <2>2. ASSUME NEW i \in 1 .. N  PROVE F[i][f[i - 1]] = ReadLine(f[i - 1], lines[i])
    <3>1. f[i - 1] \in S  OBVIOUS
    <3>. QED  BY <3>1
  <2>3. \A i \in 0 .. N : f[i] = IF i = 0 THEN <<>> ELSE ReadLine(f[i - 1], lines[i])
    <3>. HIDE DEF F
    <3>. QED  BY <2>1, <2>2
  <2>. QED  BY <2>3
<1>5. Reads(lines) = CHOOSE f : f = Step(f)
  BY DEF Reads
<1>6. Reads(lines) = Step(Reads(lines))
  <2>. HIDE DEF Step, S
  <2>1. \E f : f = Step(f)  BY <1>4
  <2>. QED  BY <1>5, <2>1
<1>7. Reads(lines)[0] = <<>>
  BY <1>6
<1>8. ASSUME NEW i \in 1 .. N  PROVE Reads(lines)[i] = ReadLine(Reads(lines)[i - 1], lines[i])
  BY <1>6
<1>9. \A i \in 0 .. N : Reads(lines)[i] \in S
  <2> DEFINE T == {i \in 0 .. N : Reads(lines)[i] \in S}
  <2>. HIDE DEF S
  <2>1. 0 \in T  BY <1>1, <1>7
  <2>2. ASSUME NEW i \in 0 .. N - 1, i \in T  PROVE i + 1 \in T
    <3>1. i + 1 \in 1 .. N /\ (i + 1) - 1 = i  BY <2>2
    <3>2. Reads(lines)[i + 1] = ReadLine(Reads(lines)[i], lines[i + 1])  BY <1>8, <3>1
    <3>3. Reads(lines)[i] \in S  BY <2>2
    <3>4. Reads(lines)[i + 1] \in S  BY <1>2, <3>1, <3>2, <3>3
    <3>. QED  BY <2>2, <3>4
  <2>3. \A i \in 0 .. N : i \in T
    <3>. HIDE DEF T
    <3>1. \A i \in 0 .. N - 1 : i \in T => i + 1 \in T  BY <2>2
    <3>. QED  BY <2>1, <3>1, NatSetInduction
  <2>. QED  BY <2>3
<1>. QED  BY <1>7, <1>8, <1>9, SMTT(40) DEF Overrides

\* What the lines h + 1 .. i set field f to, in a section that begins at line h.
ValueAt(lines, h, i, f) ==
  LET K == {j \in Settings(lines, h, f) : j <= i}
  IN IF K = {} THEN <<>> ELSE Parse(f, Value(lines[CHOOSE j \in K : \A l \in K : l <= j]))

LEMMA ValueAtStart ==
  ASSUME NEW lines, NEW h \in Nat, NEW f
  PROVE  ValueAt(lines, h, h, f) = <<>>
<1>1. {j \in Settings(lines, h, f) : j <= h} = {}
  BY DEF Settings, InSection
<1>. QED  BY <1>1 DEF ValueAt

LEMMA ValueAtKept ==
  ASSUME NEW lines, NEW h, NEW i \in Nat, NEW f, i + 1 \notin Settings(lines, h, f)
  PROVE  ValueAt(lines, h, i + 1, f) = ValueAt(lines, h, i, f)
<1>1. \A j \in Settings(lines, h, f) : j \in Int /\ j # i + 1  BY DEF Settings
<1>2. {j \in Settings(lines, h, f) : j <= i + 1} = {j \in Settings(lines, h, f) : j <= i}
  <2>1. ASSUME NEW j \in Settings(lines, h, f)  PROVE j <= i + 1 <=> j <= i  BY <1>1
  <2>. QED  BY <2>1, Zenon
<1>3. \A K, L : K = L =>
        (IF K = {} THEN <<>> ELSE Parse(f, Value(lines[CHOOSE j \in K : \A l \in K : l <= j])))
        = IF L = {} THEN <<>> ELSE Parse(f, Value(lines[CHOOSE j \in L : \A l \in L : l <= j]))
  OBVIOUS
<1>. QED  BY <1>2, <1>3, Zenon DEF ValueAt

LEMMA ValueAtSet ==
  ASSUME NEW lines, NEW h, NEW i \in Nat, NEW f, i + 1 \in Settings(lines, h, f)
  PROVE  ValueAt(lines, h, i + 1, f) = Parse(f, Value(lines[i + 1]))
<1> DEFINE K == {j \in Settings(lines, h, f) : j <= i + 1}
<1>1. i + 1 \in K /\ K \subseteq Int  BY DEF Settings
<1>2. \A l \in K : l <= i + 1  OBVIOUS
<1>3. \A j \in K : (\A l \in K : l <= j) => j = i + 1  BY <1>1
<1>4. (CHOOSE j \in K : \A l \in K : l <= j) = i + 1
  <2>. HIDE DEF K
  <2>. QED  BY <1>1, <1>2, <1>3
<1>. QED  BY <1>1, <1>4 DEF ValueAt

\* What has been read after i lines: the sections of these lines in their order,
\* each with its name and what its lines have set so far.
ReadSoFar(lines, i, h) ==
  LET r == Reads(lines)[i] IN
  /\ h \in [1 .. Len(r) -> 1 .. i]
  /\ \A k, l \in 1 .. Len(r) : k < l => h[k] < h[l]
  /\ \A j \in 1 .. i : IsSection(lines[j]) <=> \E k \in 1 .. Len(r) : h[k] = j
  /\ \A k \in 1 .. Len(r) :
       /\ r[k].app_name = SectionName(lines[h[k]])
       /\ \A f \in Fields : r[k].set[f] = ValueAt(lines, h[k], i, f)

\* The line after the first i opens a section, the last one;
LEMMA ReadSection ==
  ASSUME NEW lines, Len(lines) \in Nat, NEW i \in 0 .. Len(lines) - 1, NEW h,
         ReadSoFar(lines, i, h), IsSection(lines[i + 1])
  PROVE  \E g : ReadSoFar(lines, i + 1, g)
<1>0. PICK r, s, m : r = Reads(lines)[i] /\ s = Reads(lines)[i + 1] /\ m = Len(r)
  OBVIOUS
<1>1. i \in Nat /\ i + 1 \in 1 .. Len(lines) /\ (i + 1) - 1 = i /\ i \in 0 .. Len(lines)
  OBVIOUS
<1>2. /\ h \in [1 .. m -> 1 .. i]
      /\ \A k, l \in 1 .. m : k < l => h[k] < h[l]
      /\ \A j \in 1 .. i : IsSection(lines[j]) <=> \E k \in 1 .. m : h[k] = j
      /\ \A k \in 1 .. m :
           /\ r[k].app_name = SectionName(lines[h[k]])
           /\ \A f \in Fields : r[k].set[f] = ValueAt(lines, h[k], i, f)
  BY <1>0 DEF ReadSoFar
<1>3. r \in Seq(Overrides(lines)) /\ m \in Nat
  BY <1>0, <1>1, ReadsIs, LenProperties
<1>4. PICK o : o = AppOverride(SectionName(lines[i + 1]))  OBVIOUS
<1>5. s = Append(r, o)
  BY <1>0, <1>1, <1>4, ReadsIs DEF ReadLine
<1>6. o \in Overrides(lines)  BY <1>1, <1>4 DEF AppOverride, Overrides
<1>7. /\ Len(s) = m + 1 /\ s[m + 1] = o
      /\ \A k \in 1 .. m : s[k] = r[k]
  BY <1>0, <1>3, <1>5, <1>6, AppendProperties
<1> DEFINE g == [k \in 1 .. m + 1 |-> IF k = m + 1 THEN i + 1 ELSE h[k]]
<1>8. /\ g \in [1 .. m + 1 -> 1 .. i + 1] /\ g[m + 1] = i + 1
      /\ \A k \in 1 .. m : g[k] = h[k] /\ h[k] \in 1 .. i
      /\ \A k \in 1 .. m + 1 : k \in 1 .. m \/ k = m + 1
      /\ \A k \in 1 .. m : k \in 1 .. m + 1 /\ ~(m + 1 < k)
      /\ m + 1 \in 1 .. m + 1
  BY <1>1, <1>2, <1>3
<1> HIDE DEF g
<1>9. ASSUME NEW k \in 1 .. m + 1, NEW l \in 1 .. m + 1, k < l  PROVE g[k] < g[l]
  <2>1. k \in 1 .. m  BY <1>3, <1>9
  <2>2. CASE l = m + 1
    <3>1. g[k] \in 1 .. i /\ g[l] = i + 1  BY <1>8, <2>1, <2>2
    <3>. QED  BY <1>1, <3>1
  <2>3. CASE l \in 1 .. m  BY <1>2, <1>8, <1>9, <2>1, <2>3
  <2>. QED  BY <1>8, <2>2, <2>3
<1>10. ASSUME NEW j \in 1 .. i + 1
       PROVE  IsSection(lines[j]) <=> \E k \in 1 .. m + 1 : g[k] = j
  <2>1. CASE j = i + 1  BY <1>8, <2>1
  <2>2. CASE j \in 1 .. i
    <3>1. (\E k \in 1 .. m + 1 : g[k] = j) <=> \E k \in 1 .. m : h[k] = j
      BY <1>1, <1>8, <2>2
    <3>. QED  BY <1>2, <2>2, <3>1
  <2>. QED  BY <1>1, <2>1, <2>2
<1>11. ASSUME NEW k \in 1 .. m + 1
       PROVE  /\ s[k].app_name = SectionName(lines[g[k]])
              /\ \A f \in Fields : s[k].set[f] = ValueAt(lines, g[k], i + 1, f)
  <2>1. CASE k = m + 1
    <3>1. o.app_name = SectionName(lines[i + 1]) /\ \A f \in Fields : o.set[f] = <<>>
      BY <1>4 DEF AppOverride
    <3>2. \A f \in Fields : ValueAt(lines, i + 1, i + 1, f) = <<>>  BY <1>1, ValueAtStart
    <3>. QED  BY <1>7, <1>8, <2>1, <3>1, <3>2
  <2>2. CASE k \in 1 .. m
    <3>1. ASSUME NEW f \in Fields
          PROVE  ValueAt(lines, h[k], i + 1, f) = ValueAt(lines, h[k], i, f)
      <4>1. i + 1 \in h[k] + 1 .. i + 1  BY <1>1, <1>8, <2>2
      <4>2. i + 1 \notin Settings(lines, h[k], f)  BY <4>1 DEF Settings, InSection
      <4>. QED  BY <1>1, <4>2, ValueAtKept
    <3>. QED  BY <1>2, <1>7, <1>8, <2>2, <3>1
  <2>. QED  BY <1>8, <2>1, <2>2
<1>12. ReadSoFar(lines, i + 1, g)
  BY <1>0, <1>7, <1>8, <1>9, <1>10, <1>11 DEF ReadSoFar
<1>. QED  BY <1>12

\* or sets a field of the last section;
LEMMA ReadSetting ==
  ASSUME NEW lines, Len(lines) \in Nat, NEW i \in 0 .. Len(lines) - 1, NEW h,
         ReadSoFar(lines, i, h), ~IsSection(lines[i + 1]), IsSetting(lines[i + 1]),
         Reads(lines)[i] # <<>>
  PROVE  ReadSoFar(lines, i + 1, h)
<1>0. PICK r, s, m, o : /\ r = Reads(lines)[i] /\ s = Reads(lines)[i + 1] /\ m = Len(r)
                        /\ o = SetLine(Last(r), lines[i + 1])
  OBVIOUS
<1>1. i \in Nat /\ i + 1 \in 1 .. Len(lines) /\ (i + 1) - 1 = i /\ i \in 0 .. Len(lines)
  OBVIOUS
<1>2. /\ h \in [1 .. m -> 1 .. i]
      /\ \A k, l \in 1 .. m : k < l => h[k] < h[l]
      /\ \A j \in 1 .. i : IsSection(lines[j]) <=> \E k \in 1 .. m : h[k] = j
      /\ \A k \in 1 .. m :
           /\ r[k].app_name = SectionName(lines[h[k]])
           /\ \A f \in Fields : r[k].set[f] = ValueAt(lines, h[k], i, f)
  BY <1>0 DEF ReadSoFar
<1>3. /\ r \in Seq(Overrides(lines)) /\ m \in Nat \ {0} /\ m \in 1 .. m
      /\ \A k \in 1 .. m : r[k] \in Overrides(lines)
  <2>1. r \in Seq(Overrides(lines)) /\ r # <<>>  BY <1>0, <1>1, ReadsIs
  <2>2. m \in Nat \ {0}  BY <1>0, <2>1, EmptySeq, LenProperties
  <2>. QED  BY <1>0, <2>1, <2>2, ElementOfSeq
<1>4. s = Append(Front(r), o) /\ s \in Seq(Overrides(lines))
  <2>1. ReadLine(r, lines[i + 1]) = Append(Front(r), o)  BY <1>0 DEF ReadLine
  <2>2. s = ReadLine(r, lines[i + 1]) /\ s \in Seq(Overrides(lines))
    BY <1>0, <1>1, ReadsIs
  <2>. QED  BY <2>1, <2>2
<1>5. /\ Front(r) \in Seq(Overrides(lines)) /\ Len(Front(r)) = m - 1
      /\ \A k \in 1 .. m - 1 : Front(r)[k] = r[k]
  BY <1>0, <1>3, SubSeqProperties DEF Front
<1>6. o = [r[m] EXCEPT !.set = [f \in Fields |-> IF f \in Key(lines[i + 1])
                                   THEN Parse(f, Value(lines[i + 1])) ELSE r[m].set[f]]]
  BY <1>0 DEF SetLine, Last
<1>7. /\ o.app_name = r[m].app_name
      /\ \A f \in Fields : o.set[f] = IF f \in Key(lines[i + 1])
                                        THEN Parse(f, Value(lines[i + 1])) ELSE r[m].set[f]
  <2>1. r[m] \in Overrides(lines)  BY <1>3
  <2>. QED  BY <1>6, <2>1 DEF Overrides
<1>8. /\ Len(s) = m /\ s[m] = o
      /\ \A k \in 1 .. m - 1 : s[k] = r[k]
  BY <1>3, <1>4, <1>5, AppendProperties
<1>9. h \in [1 .. m -> 1 .. i + 1] /\ \A k \in 1 .. m : h[k] \in 1 .. i
  BY <1>1, <1>2
<1>10. ASSUME NEW j \in 1 .. i + 1
       PROVE  IsSection(lines[j]) <=> \E k \in 1 .. m : h[k] = j
  <2>1. CASE j = i + 1
    <3>1. \A k \in 1 .. m : h[k] # i + 1  BY <1>1, <1>9
    <3>. QED  BY <2>1, <3>1
  <2>2. CASE j \in 1 .. i  BY <1>2, <2>2
  <2>. QED  BY <1>1, <2>1, <2>2
<1>11. ASSUME NEW k \in 1 .. m
       PROVE  /\ s[k].app_name = SectionName(lines[h[k]])
              /\ \A f \in Fields : s[k].set[f] = ValueAt(lines, h[k], i + 1, f)
  <2>1. CASE k = m
    <3>1. InSection(lines, h[m], i + 1)
      <4>1. ASSUME NEW j \in h[m] + 1 .. i + 1  PROVE ~IsSection(lines[j])
        <5>1. CASE j = i + 1  BY <5>1
        <5>2. CASE j # i + 1
          <6>1. j \in 1 .. i /\ h[m] < j  BY <1>1, <1>3, <1>9, <4>1, <5>2
          <6>2. ASSUME NEW l \in 1 .. m  PROVE h[l] # j
            <7>1. l = m \/ h[l] < h[m]  BY <1>2, <1>3
            <7>. QED  BY <1>3, <1>9, <6>1, <7>1
          <6>. QED  BY <1>2, <6>1, <6>2
        <5>. QED  BY <5>1, <5>2
      <4>2. h[m] < i + 1  BY <1>1, <1>3, <1>9
      <4>. QED  BY <4>1, <4>2 DEF InSection
    <3>2. ASSUME NEW f \in Fields
          PROVE  o.set[f] = ValueAt(lines, h[m], i + 1, f)
      <4>1. CASE f \in Key(lines[i + 1])
        <5>1. i + 1 \in Settings(lines, h[m], f)  BY <1>1, <3>1, <4>1 DEF Settings
        <5>2. ValueAt(lines, h[m], i + 1, f) = Parse(f, Value(lines[i + 1]))
          BY <1>1, <5>1, ValueAtSet
        <5>. QED  BY <1>7, <4>1, <5>2
      <4>2. CASE f \notin Key(lines[i + 1])
        <5>1. i + 1 \notin Settings(lines, h[m], f)  BY <4>2 DEF Settings
        <5>2. ValueAt(lines, h[m], i + 1, f) = ValueAt(lines, h[m], i, f)
          BY <1>1, <5>1, ValueAtKept
        <5>. QED  BY <1>2, <1>3, <1>7, <4>2, <5>2
      <4>. QED  BY <4>1, <4>2
    <3>. QED  BY <1>2, <1>3, <1>7, <1>8, <2>1, <3>2
  <2>2. CASE k \in 1 .. m - 1
    <3>1. ASSUME NEW f \in Fields
          PROVE  ValueAt(lines, h[k], i + 1, f) = ValueAt(lines, h[k], i, f)
      <4>1. h[k] < h[m] /\ h[m] \in 1 .. i /\ h[k] \in 1 .. i  BY <1>2, <1>3, <1>9, <2>2
      <4>2. h[m] \in h[k] + 1 .. i + 1  BY <1>1, <4>1
      <4>3. IsSection(lines[h[m]])  BY <1>2, <1>3, <4>1
      <4>4. i + 1 \notin Settings(lines, h[k], f)  BY <4>2, <4>3 DEF Settings, InSection
      <4>. QED  BY <1>1, <4>4, ValueAtKept
    <3>. QED  BY <1>2, <1>8, <2>2, <3>1
  <2>. QED  BY <1>3, <2>1, <2>2
<1>12. \A k, l \in 1 .. m : k < l => h[k] < h[l]  BY <1>2
<1>. QED  BY <1>0, <1>8, <1>9, <1>10, <1>11, <1>12 DEF ReadSoFar

\* or changes nothing.
LEMMA ReadOther ==
  ASSUME NEW lines, Len(lines) \in Nat, NEW i \in 0 .. Len(lines) - 1, NEW h,
         ReadSoFar(lines, i, h), ~IsSection(lines[i + 1]),
         ~IsSetting(lines[i + 1]) \/ Reads(lines)[i] = <<>>
  PROVE  ReadSoFar(lines, i + 1, h)
<1>0. PICK r, m : r = Reads(lines)[i] /\ m = Len(r)
  OBVIOUS
<1>1. i \in Nat /\ i + 1 \in 1 .. Len(lines) /\ (i + 1) - 1 = i /\ i \in 0 .. Len(lines)
  OBVIOUS
<1>2. /\ h \in [1 .. m -> 1 .. i]
      /\ \A k, l \in 1 .. m : k < l => h[k] < h[l]
      /\ \A j \in 1 .. i : IsSection(lines[j]) <=> \E k \in 1 .. m : h[k] = j
      /\ \A k \in 1 .. m :
           /\ r[k].app_name = SectionName(lines[h[k]])
           /\ \A f \in Fields : r[k].set[f] = ValueAt(lines, h[k], i, f)
  BY <1>0 DEF ReadSoFar
<1>3. Reads(lines)[i + 1] = r
  <2>1. ReadLine(r, lines[i + 1]) = r
    <3>1. ~IsSection(lines[i + 1]) /\ ~(IsSetting(lines[i + 1]) /\ r # <<>>)  BY <1>0
    <3>. QED  BY <3>1 DEF ReadLine
  <2>2. Reads(lines)[i + 1] = ReadLine(r, lines[i + 1])  BY <1>0, <1>1, ReadsIs
  <2>. QED  BY <2>1, <2>2
<1>4. h \in [1 .. m -> 1 .. i + 1] /\ \A k \in 1 .. m : h[k] \in 1 .. i
  <2>1. h \in [1 .. m -> 1 .. i]  BY <1>2
  <2>2. \A n \in 1 .. i : n \in 1 .. i + 1  BY <1>1
  <2>. QED  BY <2>1, <2>2
<1>5. ASSUME NEW j \in 1 .. i + 1
      PROVE  IsSection(lines[j]) <=> \E k \in 1 .. m : h[k] = j
  <2>1. CASE j = i + 1
    <3>1. \A k \in 1 .. m : h[k] # i + 1  BY <1>1, <1>4
    <3>. QED  BY <2>1, <3>1
  <2>2. CASE j \in 1 .. i  BY <1>2, <2>2
  <2>. QED  BY <1>1, <2>1, <2>2
<1>6. ASSUME NEW k \in 1 .. m, NEW f \in Fields
      PROVE  ValueAt(lines, h[k], i + 1, f) = ValueAt(lines, h[k], i, f)
  <2>1. ~IsSetting(lines[i + 1])
    <3>1. r = <<>> => m = 0  BY <1>0, EmptySeq
    <3>. QED  BY <1>0, <1>6, <3>1
  <2>2. i + 1 \notin Settings(lines, h[k], f)  BY <2>1 DEF Settings
  <2>. QED  BY <1>1, <2>2, ValueAtKept
<1>7. \A k \in 1 .. m :
        /\ r[k].app_name = SectionName(lines[h[k]])
        /\ \A f \in Fields : r[k].set[f] = ValueAt(lines, h[k], i + 1, f)
  BY <1>2, <1>6
<1>8. \A k, l \in 1 .. m : k < l => h[k] < h[l]  BY <1>2
<1>. QED  BY <1>0, <1>3, <1>4, <1>5, <1>7, <1>8 DEF ReadSoFar

\* The whole file.
LEMMA FileRead ==
  ASSUME NEW lines, Len(lines) \in Nat
  PROVE  \E h : ReadSoFar(lines, Len(lines), h)
<1> DEFINE T == {i \in 0 .. Len(lines) : \E h : ReadSoFar(lines, i, h)}
<1>1. 0 \in T
  <2>1. Reads(lines)[0] = <<>> /\ Len(<<>>) = 0  BY ReadsIs, EmptySeq
  <2>2. [k \in 1 .. 0 |-> 0] \in [1 .. 0 -> 1 .. 0]  OBVIOUS
  <2>3. ReadSoFar(lines, 0, [k \in 1 .. 0 |-> 0])
    BY <2>1, <2>2 DEF ReadSoFar
  <2>. QED  BY <2>3
<1>2. ASSUME NEW i \in 0 .. Len(lines) - 1, i \in T  PROVE i + 1 \in T
  <2>1. PICK h : ReadSoFar(lines, i, h)  BY <1>2
  <2>2. i + 1 \in 0 .. Len(lines)  OBVIOUS
  <2>3. \E g : ReadSoFar(lines, i + 1, g)
    BY <2>1, ReadSection, ReadSetting, ReadOther
  <2>. QED  BY <2>2, <2>3
<1>3. \A i \in 0 .. Len(lines) : i \in T
  <2>1. \A i \in 0 .. Len(lines) - 1 : i \in T => i + 1 \in T  BY <1>2
  <2>. HIDE DEF T
  <2>. QED  BY <1>1, <2>1, NatSetInduction
<1>. QED  BY <1>3

LEMMA LeastChosen ==
  ASSUME NEW S \in SUBSET Nat, S # {}
  PROVE  /\ Min(S) \in S /\ \A n \in S : Min(S) <= n
         /\ First(S) = Min(S)
         /\ \A m \in S : (\A n \in S : m <= n) => m = Min(S)
<1>1. \E m \in S : \A n \in S : m <= n  BY LeastNatural
<1>2. Min(S) \in S /\ \A n \in S : Min(S) <= n  BY <1>1 DEF Min
<1>3. First(S) \in S /\ \A n \in S : First(S) <= n  BY <1>1 DEF First
<1>4. \A m \in S : (\A n \in S : m <= n) => m = Min(S)
  <2>1. ASSUME NEW m \in S, \A n \in S : m <= n  PROVE m = Min(S)
    <3>1. m <= Min(S) /\ Min(S) <= m /\ m \in Nat /\ Min(S) \in Nat  BY <1>2, <2>1
    <3>. QED  BY <3>1
  <2>. QED  BY <2>1
<1>. QED  BY <1>2, <1>3, <1>4

\* The settings an application gets are what the file and the environment say of it.
LEMMA AsWritten ==
  ASSUME NEW env, NEW lines, Len(lines) \in Nat,
         NEW name, name = <<>> \/ \E x : name = <<x>>, NEW f \in Fields
  PROVE  finalize_for_app(from_env(env, lines), name)[f]
           = Written(from_env(env, lines).base, lines, name, f)
<1>0. PICK N, r, m, config : /\ N = Len(lines) /\ r = load_toml(lines) /\ m = Len(r)
                             /\ config = from_env(env, lines)
  OBVIOUS
<1>1. config.per_app = r  BY <1>0 DEF from_env
<1>2. N \in Nat /\ r = Reads(lines)[N]  BY <1>0 DEF load_toml
<1>3. PICK h : ReadSoFar(lines, N, h)  BY <1>0, FileRead
<1>4. r \in Seq(Overrides(lines)) /\ m \in Nat  BY <1>0, <1>2, ReadsIs, LenProperties
<1>5. /\ h \in [1 .. m -> 1 .. N]
      /\ \A k, l \in 1 .. m : k < l => h[k] < h[l]
      /\ \A j \in 1 .. N : IsSection(lines[j]) <=> \E k \in 1 .. m : h[k] = j
      /\ \A k \in 1 .. m :
           /\ r[k].app_name = SectionName(lines[h[k]])
           /\ r[k].set[f] = ValueAt(lines, h[k], N, f)
  BY <1>0, <1>2, <1>3 DEF ReadSoFar
<1> DEFINE I == {k \in 1 .. m : name = <<r[k].app_name>>}
           i == SelectInSeq(r, LAMBDA o : name = <<o.app_name>>)
<1>6. i = IF I # {} THEN Min(I) ELSE 0
  BY <1>0 DEF SelectInSeq
<1>7. finalize_for_app(config, name)[f]
        = IF i = 0 THEN config.base[f]
          ELSE IF r[i].set[f] = <<>> THEN config.base[f] ELSE r[i].set[f][1]
  <2>1. finalize_for_app(config, name)
          = IF i = 0 THEN config.base
            ELSE [g \in Fields |-> IF r[i].set[g] = <<>> THEN config.base[g] ELSE r[i].set[g][1]]
    BY <1>1 DEF finalize_for_app
  <2>. HIDE DEF i
  <2>. QED  BY <2>1
<1> HIDE DEF i, I
<1>8. CASE I = {}
  <2>1. i = 0  BY <1>6, <1>8
  <2>2. ASSUME NEW x, name = <<x>>  PROVE Sections(lines, x) = {}
    <3>1. ASSUME NEW j \in Sections(lines, x)  PROVE FALSE
      <4>1. j \in 1 .. N /\ IsSection(lines[j]) /\ SectionName(lines[j]) = x
        BY <1>0 DEF Sections
      <4>2. PICK k \in 1 .. m : h[k] = j  BY <1>5, <4>1
      <4>3. r[k].app_name = x  BY <1>5, <4>1, <4>2
      <4>4. k \in I  BY <2>2, <4>3 DEF I
      <4>. QED  BY <1>8, <4>4
    <3>. QED  BY <3>1
  <2>3. Written(config.base, lines, name, f) = config.base[f]
    <3>1. CASE name = <<>>  BY <3>1 DEF Written
    <3>2. ASSUME NEW x, name = <<x>>  PROVE Written(config.base, lines, name, f) = config.base[f]
      <4>1. name[1] = x /\ name # <<>>  BY <3>2
      <4>2. Sections(lines, name[1]) = {}  BY <2>2, <3>2, <4>1
      <4>. QED  BY <4>1, <4>2 DEF Written
    <3>. QED  BY <3>1, <3>2
  <2>. QED  BY <1>0, <1>7, <2>1, <2>3
<1>9. CASE I # {}
  <2>1. i \in I /\ (\A k \in I : i <= k) /\ i \in 1 .. m
    <3>1. I \in SUBSET Nat  BY DEF I
    <3>2. i \in I /\ \A k \in I : i <= k  BY <1>6, <1>9, <3>1, LeastChosen
    <3>. QED  BY <3>2 DEF I
  <2>2. i # 0  BY <2>1
  <2>3. PICK x : name = <<x>> /\ x = r[i].app_name  BY <2>1 DEF I
  <2>4. name # <<>> /\ name[1] = x  BY <2>3
  <2> DEFINE S == Sections(lines, x)
  <2>5. S \in SUBSET Nat /\ \A j \in S : j \in 1 .. N /\ IsSection(lines[j]) /\ SectionName(lines[j]) = x
    BY <1>0, <1>2 DEF Sections
  <2>6. h[i] \in S
    <3>1. h[i] \in 1 .. N /\ IsSection(lines[h[i]]) /\ SectionName(lines[h[i]]) = x
      BY <1>5, <2>1, <2>3
    <3>. QED  BY <1>0, <3>1 DEF Sections
  <2>7. ASSUME NEW j \in S  PROVE h[i] <= j
    <3>1. PICK k \in 1 .. m : h[k] = j  BY <1>5, <2>5
    <3>2. k \in I
      <4>1. r[k].app_name = x  BY <1>5, <2>5, <3>1
      <4>. QED  BY <2>3, <4>1 DEF I
    <3>3. i <= k  BY <2>1, <3>2
    <3>4. i = k \/ h[i] < h[k]  BY <1>4, <1>5, <2>1, <3>3
    <3>. QED  BY <1>5, <2>1, <3>1, <3>4
  <2>8. First(S) = h[i] /\ S # {}
    <3>. HIDE DEF S
    <3>. QED  BY <2>5, <2>6, <2>7, LeastChosen
  <2>9. {j \in Settings(lines, h[i], f) : j <= N} = Settings(lines, h[i], f)
    BY <1>0, <1>2 DEF Settings
  <2> DEFINE V(X) == IF X = {} THEN <<>>
                     ELSE Parse(f, Value(lines[CHOOSE j \in X : \A l \in X : l <= j]))
             v == V(Settings(lines, h[i], f))
             T == IF name = <<>> THEN {} ELSE Sections(lines, name[1])
             K == IF T = {} THEN {} ELSE Settings(lines, First(T), f)
             w == V(K)
  <2>10. r[i].set[f] = v
    <3>1. ValueAt(lines, h[i], N, f) = V({j \in Settings(lines, h[i], f) : j <= N})
      BY DEF ValueAt
    <3>. HIDE DEF V
    <3>. QED  BY <1>5, <2>1, <2>9, <3>1
  <2>11. Written(config.base, lines, name, f) = IF w = <<>> THEN config.base[f] ELSE w[1]
    BY DEF Written
  <2>12. w = v
    <3>1. T = S  BY <2>4
    <3>2. K = Settings(lines, h[i], f)
      <4>. HIDE DEF S, T
      <4>. QED  BY <2>8, <3>1
    <3>. HIDE DEF K, V
    <3>. QED  BY <3>2
  <2>. HIDE DEF v, w
  <2>. QED  BY <1>0, <1>7, <2>2, <2>10, <2>11, <2>12
<1>. QED  BY <1>8, <1>9

-----------------------------------------------------------------------------
(* The configuration of every instance *)

\* The environment and the file are the process's, an instance that the layer
\* finds by its handle is one it made.
Known == setup \in Setups /\ INSTANCES \in [Handles -> 0 .. Len(instances)]

LEMMA KnownKept == Spec => []Known
<1>1. Init => Known
  <2>1. Init => Len(instances) = 0  BY EmptySeq DEF Init
  <2>. QED  BY <2>1 DEF Init, Known
<1>2. IInv /\ Known /\ [Next]_vars => Known'
  <2> SUFFICES ASSUME IInv, Known, [Next]_vars PROVE Known'
    OBVIOUS
  <2>1. instances \in Seq(Contexts) /\ Len(instances) \in Nat
    BY LenProperties DEF IInv, Typed
  <2>2. ASSUME UNCHANGED <<setup, instances, INSTANCES>>  PROVE Known'
    BY <2>2 DEF Known
  <2>3. ASSUME NEW t \in Threads, NEW h \in Handles, NEW app \in Applications, CreateInstance(t, h, app)
        PROVE  Known'
    <3>1. Len(instances') = Len(instances) + 1
      <4>1. InstanceContext(h, app) \in Contexts  BY DEF Contexts
      <4>. QED  BY <2>1, <2>3, <4>1, AppendProperties DEF CreateInstance
    <3>. QED  BY <2>1, <2>3, <3>1 DEF CreateInstance, Known
  <2>4. ASSUME NEW t \in Threads, InsertInstance(t)  PROVE Known'
    <3>1. call[t].ctx \in 1 .. Len(instances)  BY <2>4, CallFacts DEF InsertInstance, InCall
    <3>2. INSTANCES' = [INSTANCES EXCEPT ![HandleOf(call[t].ctx)] = call[t].ctx]
          /\ UNCHANGED <<setup, instances>>
      BY <2>4 DEF InsertInstance
    <3>3. call[t].ctx \in 0 .. Len(instances)  BY <2>1, <3>1
    <3>. QED  BY <3>2, <3>3 DEF Known
  <2>5. ASSUME NEW t \in Threads, NEW c \in live, RemoveInstance(t, c)  PROVE Known'
    <3>1. INSTANCES' = [INSTANCES EXCEPT ![HandleOf(c)] = 0] /\ UNCHANGED <<setup, instances>>
      BY <2>5 DEF RemoveInstance
    <3>2. 0 \in 0 .. Len(instances)  BY <2>1
    <3>. QED  BY <3>1, <3>2 DEF Known
  <2>. QED  BY <2>2, <2>3, <2>4, <2>5
       DEF Next, vars, Enumerate, Register, Own, SweepPhysicalDevices, DestroyInstance
<1>. QED  BY Invariance, <1>1, <1>2, PTL DEF Spec

\* An instance has a name of one text, and the configuration made for it.
LEMMA MadeFor ==
  ASSUME IInv, NEW c \in DOMAIN instances
  PROVE  /\ \E x : instances[c].name = <<x>>
         /\ ConfigOf(c) = finalize_for_app(CONFIG, instances[c].name)
         /\ instances[c].decoupled = is_known_decoupled(ConfigOf(c), instances[c].name)
<1>1. instances[c] \in Contexts
  <2>1. instances \in Seq(Contexts)  BY DEF IInv, Typed
  <2>2. c \in 1 .. Len(instances)  BY <2>1, LenProperties
  <2>. QED  BY <2>1, <2>2, ElementOfSeq
<1>2. PICK h \in Handles, app \in Applications : instances[c] = InstanceContext(h, app)
  BY <1>1 DEF Contexts
<1>3. \E x : AppName(app) = <<x>>
  <2>1. CASE app.name = <<>>  BY <2>1 DEF AppName
  <2>2. CASE app.name # <<>>
    <3>1. app.name \in Seq(Seq(STRING)) /\ Len(app.name) <= 1  BY InstancesAssumption
    <3>2. Len(app.name) \in Nat /\ Len(app.name) # 0  BY <2>2, <3>1, EmptySeq, LenProperties
    <3>3. \A k \in Nat : k <= 1 /\ k # 0 => k = 1  OBVIOUS
    <3>4. Len(app.name) = 1  BY <3>1, <3>2, <3>3, Zenon
    <3>5. app.name = <<app.name[1]>>  BY <3>1, <3>4
    <3>. QED  BY <2>2, <3>5 DEF AppName
  <2>. QED  BY <2>1, <2>2
<1>. QED  BY <1>2, <1>3 DEF InstanceContext, ConfigOf

LEMMA ConfigWritten ==
  ASSUME IInv, Known, NEW c \in DOMAIN instances, NEW f \in Fields
  PROVE  ConfigOf(c)[f] = Written(CONFIG.base, setup.file, instances[c].name, f)
<1>1. Len(setup.file) \in Nat
  BY InstancesAssumption, LenProperties DEF Known
<1>2. \E x : instances[c].name = <<x>>  BY MadeFor
<1>3. ConfigOf(c) = finalize_for_app(from_env(setup.env, setup.file), instances[c].name)
  BY MadeFor DEF CONFIG
<1>4. finalize_for_app(from_env(setup.env, setup.file), instances[c].name)[f]
        = Written(from_env(setup.env, setup.file).base, setup.file, instances[c].name, f)
  BY <1>1, <1>2, AsWritten
<1>. QED  BY <1>3, <1>4 DEF CONFIG

\* ConfigAsWritten, for every environment, every file of any number of lines and
\* every application: the line-by-line reader and the search for the application's
\* section give what the file says (load_toml, finalize_for_app, InstanceContext::new).
THEOREM ConfigAsFileSays == Spec => []ConfigAsWritten
<1>1. IInv /\ Known => ConfigAsWritten
  <2> SUFFICES ASSUME IInv, Known, NEW c \in DOMAIN instances
               PROVE  LET name == instances[c].name IN
                      /\ \A f \in Fields : ConfigOf(c)[f] = Written(CONFIG.base, setup.file, name, f)
                      /\ instances[c].decoupled <=>
                           \/ Written(CONFIG.base, setup.file, name, "force_decoupled")
                           \/ name[1] \in DECOUPLED_SIMULATION_APPS
    BY DEF ConfigAsWritten
  <2>1. \A f \in Fields : ConfigOf(c)[f] = Written(CONFIG.base, setup.file, instances[c].name, f)
    BY ConfigWritten
  <2>2. PICK x : instances[c].name = <<x>>  BY MadeFor
  <2>3. ConfigOf(c).force_decoupled = Written(CONFIG.base, setup.file, instances[c].name, "force_decoupled")
    BY <2>1 DEF Fields, Flags
  <2>4. instances[c].decoupled <=> \/ ConfigOf(c).force_decoupled
                                   \/ instances[c].name[1] \in DECOUPLED_SIMULATION_APPS
    <3>1. instances[c].decoupled = is_known_decoupled(ConfigOf(c), instances[c].name)  BY MadeFor
    <3>2. instances[c].name # <<>>  BY <2>2
    <3>. QED  BY <3>1, <3>2 DEF is_known_decoupled
  <2>. QED  BY <2>1, <2>3, <2>4
<1>. QED  BY Invariance, KnownKept, <1>1, PTL

-----------------------------------------------------------------------------
(* The types of the configuration *)

LEMMA NumberRead ==
  ASSUME NEW text, parse_u32(text) # <<>>
  PROVE  parse_u32(text)[1] \in Nat
<1>1. \A n \in DOMAIN NumberOf : NumberOf[n] \in Nat
  BY DEF NumberOf
<1>. QED  BY <1>1 DEF parse_u32

LEMMA ParsedTyped ==
  ASSUME NEW f \in Fields, NEW text, Parse(f, text) # <<>>
  PROVE  /\ f \in Flags => Parse(f, text)[1] \in BOOLEAN
         /\ f \in Numbers => Parse(f, text)[1] \in Nat
         /\ f = "spoof_profile" => Parse(f, text)[1] \in NVIDIA_PRESETS
<1>1. CASE f \in Flags
  <2>1. f \notin Numbers /\ f # "spoof_profile"  BY <1>1 DEF Flags, Numbers
  <2>2. Parse(f, text) = parse_bool(text)  BY <1>1, <2>1 DEF Parse
  <2>3. parse_bool(text) \in {<<TRUE>>, <<FALSE>>, <<>>}  BY DEF parse_bool
  <2>4. parse_bool(text) # <<>>  BY <2>2
  <2>5. parse_bool(text)[1] \in BOOLEAN
    <3>1. CASE parse_bool(text) = <<TRUE>>   BY <3>1
    <3>2. CASE parse_bool(text) = <<FALSE>>  BY <3>2
    <3>. QED  BY <2>3, <2>4, <3>1, <3>2
  <2>. QED  BY <2>1, <2>2, <2>5
<1>2. CASE f \in Numbers
  <2>1. f \notin Flags /\ f # "spoof_profile"  BY <1>2 DEF Flags, Numbers
  <2>2. Parse(f, text) = parse_u32(text)  BY <1>2, <2>1 DEF Parse
  <2>. QED  BY <2>1, <2>2, NumberRead
<1>3. CASE f = "spoof_profile"
  <2>1. f \notin Flags /\ f \notin Numbers  BY <1>3 DEF Flags, Numbers
  <2>2. Parse(f, text) = <<resolve_spoof_profile(text)>>  BY <2>1 DEF Parse
  <2>3. resolve_spoof_profile(text) \in NVIDIA_PRESETS
    BY DEF resolve_spoof_profile, NVIDIA_PRESETS, DEFAULT_PRESET
  <2>. QED  BY <2>1, <2>2, <2>3
<1>. QED  BY <1>1, <1>2, <1>3 DEF Fields

LEMMA BaseTyped ==
  ASSUME NEW env, NEW lines, NEW f \in Fields
  PROVE  LET v == from_env(env, lines).base[f] IN
         /\ f \in Flags => v \in BOOLEAN
         /\ f \in Numbers => v \in Nat
         /\ f = "spoof_profile" => v \in NVIDIA_PRESETS
<1> PICK base : base = from_env(env, lines).base  OBVIOUS
<1>1. CASE f \in Flags
  <2>1. f \notin Numbers /\ f # "spoof_profile"  BY <1>1 DEF Flags, Numbers
  <2>2. from_env(env, lines).base[f] = env_flag(env[f])  BY <1>1, <2>1 DEF from_env, Numbers
  <2>3. env_flag(env[f]) \in BOOLEAN  BY DEF env_flag
  <2>. QED  BY <2>1, <2>2, <2>3
<1>2. CASE f \in Numbers
  <2>1. f \notin Flags /\ f # "spoof_profile"  BY <1>2 DEF Flags, Numbers
  <2>2. f \in {"fps_cap", "vrr_offset_hz"}  BY <1>2 DEF Numbers
  <2>3. \/ from_env(env, lines).base[f] \in {0, DEFAULT_VRR_OFFSET_HZ}
        \/ /\ parse_u32(env[f]) # <<>>
           /\ from_env(env, lines).base[f] = parse_u32(env[f])[1]
    BY <2>1, <2>2 DEF from_env
  <2>4. DEFAULT_VRR_OFFSET_HZ \in Nat  BY DEF DEFAULT_VRR_OFFSET_HZ
  <2>. QED  BY <2>1, <2>3, <2>4, NumberRead
<1>3. CASE f = "spoof_profile"
  <2>1. f \notin Flags /\ f \notin Numbers  BY <1>3 DEF Flags, Numbers
  <2>2. from_env(env, lines).base[f] = resolve_spoof_profile(env[f])
    BY <1>3, <2>1 DEF from_env, Numbers
  <2>3. resolve_spoof_profile(env[f]) \in NVIDIA_PRESETS
    BY DEF resolve_spoof_profile, NVIDIA_PRESETS, DEFAULT_PRESET
  <2>. QED  BY <2>1, <2>2, <2>3
<1>. QED  BY <1>1, <1>2, <1>3 DEF Fields

LEMMA WrittenTyped ==
  ASSUME NEW env, NEW lines, NEW name, NEW f \in Fields
  PROVE  LET v == Written(from_env(env, lines).base, lines, name, f) IN
         /\ f \in Flags => v \in BOOLEAN
         /\ f \in Numbers => v \in Nat
         /\ f = "spoof_profile" => v \in NVIDIA_PRESETS
<1>1. \/ Written(from_env(env, lines).base, lines, name, f) = from_env(env, lines).base[f]
      \/ \E text : /\ Parse(f, text) # <<>>
                   /\ Written(from_env(env, lines).base, lines, name, f) = Parse(f, text)[1]
  <2> DEFINE T == IF name = <<>> THEN {} ELSE Sections(lines, name[1])
             K == IF T = {} THEN {} ELSE Settings(lines, First(T), f)
             text == Value(lines[CHOOSE j \in K : \A l \in K : l <= j])
             v == IF K = {} THEN <<>> ELSE Parse(f, text)
  <2>1. Written(from_env(env, lines).base, lines, name, f)
          = IF v = <<>> THEN from_env(env, lines).base[f] ELSE v[1]
    BY DEF Written
  <2>2. v = <<>> \/ v = Parse(f, text)
    <3>. HIDE DEF K, text
    <3>. QED  OBVIOUS
  <2>. HIDE DEF v, text
  <2>. QED  BY <2>1, <2>2
<1>. QED  BY <1>1, BaseTyped, ParsedTyped

\* TypeOK: an instance's numbers are numbers and its profile is one of the table,
\* whatever the environment and the file hold; every context that a handle, an
\* entry or a call names was made.
THEOREM TypeCorrect == Spec => []TypeOK
<1>1. IInv /\ Known => TypeOK
  <2> SUFFICES ASSUME IInv, Known PROVE TypeOK
    OBVIOUS
  <2>1. /\ instances \in Seq(Contexts) /\ Len(instances) \in Nat
        /\ DOMAIN instances = 1 .. Len(instances) /\ live \subseteq 1 .. Len(instances)
    BY LenProperties DEF IInv, Typed
  <2>2. ASSUME NEW c \in DOMAIN instances
        PROVE  /\ HandleOf(c) \in Handles
               /\ ConfigOf(c).fps_cap \in Nat /\ ConfigOf(c).vrr_offset_hz \in Nat
               /\ \A f \in Flags : ConfigOf(c)[f] \in BOOLEAN
               /\ ConfigOf(c).spoof_profile \in NVIDIA_PRESETS
    <3>1. HandleOf(c) \in Handles  BY <2>1, HandleOfInstance DEF IInv
    <3>2. /\ "fps_cap" \in Fields /\ "fps_cap" \in Numbers
          /\ "vrr_offset_hz" \in Fields /\ "vrr_offset_hz" \in Numbers
          /\ "spoof_profile" \in Fields /\ Flags \subseteq Fields
      BY DEF Fields, Numbers
    <3>3. ASSUME NEW f \in Fields
          PROVE  /\ f \in Flags => ConfigOf(c)[f] \in BOOLEAN
                 /\ f \in Numbers => ConfigOf(c)[f] \in Nat
                 /\ f = "spoof_profile" => ConfigOf(c)[f] \in NVIDIA_PRESETS
      <4>1. ConfigOf(c)[f]
              = Written(from_env(setup.env, setup.file).base, setup.file, instances[c].name, f)
        BY ConfigWritten DEF CONFIG
      <4>. QED  BY <4>1, WrittenTyped
    <3>. QED  BY <3>1, <3>2, <3>3
  <2>3. ASSUME NEW pd \in PhysicalDevice
        PROVE  PHYSICAL_DEVICES[pd].instance \in 0 .. Len(instances)
    <3>1. CASE Registered(pd)
      <4>1. PHYSICAL_DEVICES[pd].instance \in 1 .. Len(instances)
        BY <2>1, <3>1 DEF IInv, EntriesCurrent
      <4>2. 1 .. Len(instances) \subseteq 0 .. Len(instances)  BY <2>1
      <4>. QED  BY <4>1, <4>2
    <3>2. CASE ~Registered(pd)
      <4>1. PHYSICAL_DEVICES[pd].instance = 0  BY <3>2 DEF Registered, None
      <4>2. 0 \in 0 .. Len(instances)  BY <2>1
      <4>. QED  BY <4>1, <4>2
    <3>. QED  BY <3>1, <3>2
  <2>4. ASSUME NEW t \in Threads
        PROVE  /\ call[t].step \in {"idle", "created", "register", "own", "removed", "swept"}
               /\ call[t].ctx \in 0 .. Len(instances) /\ ToSet(call[t].todo) \subseteq PhysicalDevice
    <3>1. call[t] \in Calls /\ call[t].todo \in Seq(PhysicalDevice)  BY CallFacts
    <3>2. call[t].ctx = 0 \/ call[t].ctx \in live  BY DEF IInv, CallSound, OnLive
    <3>3. call[t].ctx \in 0 .. Len(instances)  BY <2>1, <3>2
    <3>4. ToSet(call[t].todo) \subseteq PhysicalDevice
      BY <3>1, LenProperties, ElementOfSeq DEF ToSet
    <3>. QED  BY <3>1, <3>3, <3>4 DEF Calls, Steps
  <2>. QED  BY <2>1, <2>2, <2>3, <2>4 DEF TypeOK, Known, IInv, Typed
<1>. QED  BY Invariance, KnownKept, <1>1, PTL

-----------------------------------------------------------------------------
(* The queries *)

LEMMA PrefixOf ==
  ASSUME NEW E, NEW s \in Seq(E), NEW cap \in 0 .. Len(s)
  PROVE  IsPrefix(SubSeq(s, 1, cap), s)
<1>1. cap \in Nat /\ Len(s) \in Nat  BY LenProperties
<1>2. /\ Len(SubSeq(s, 1, cap)) = cap
      /\ \A i \in 1 .. cap : SubSeq(s, 1, cap)[i] = s[i]
  <2>1. \A i \in 1 .. cap : s[i] \in E  BY <1>1, ElementOfSeq
  <2>2. 1 \in Int /\ cap \in Int /\ cap - 1 + 1 = cap  BY <1>1
  <2>. QED  BY <1>1, <2>1, <2>2, SubSeqProperties
<1>3. SubSeq(SubSeq(s, 1, cap), 1, cap) = SubSeq(s, 1, cap)
  BY <1>1, <1>2
<1>. QED  BY <1>1, <1>2, <1>3 DEF IsPrefix

LEMMA AllIsEach ==
  ASSUME NEW E, NEW config, NEW available \in Seq(E), IsInjective(available), WatchedExt(config) \in E
  PROVE  LET all == AllExtensions(config, available) IN
         /\ all \in Seq(E) /\ IsInjective(all)
         /\ ToSet(all) = ToSet(available) \cup {WatchedExt(config)}
<1>1. PICK w \in E : w = WatchedExt(config)  OBVIOUS
<1>2. Len(available) \in Nat /\ DOMAIN available = 1 .. Len(available)  BY LenProperties
<1>3. CASE Contains(available, w)
  <2>1. AllExtensions(config, available) = available  BY <1>1, <1>3 DEF AllExtensions
  <2>2. w \in ToSet(available)  BY <1>2, <1>3 DEF Contains, ToSet
  <2>. QED  BY <1>1, <2>1, <2>2
<1>4. CASE ~Contains(available, w)
  <2>1. PICK all : all = Append(available, w)  OBVIOUS
  <2>2. AllExtensions(config, available) = all  BY <1>1, <1>4, <2>1 DEF AllExtensions
  <2>3. /\ all \in Seq(E) /\ Len(all) = Len(available) + 1 /\ all[Len(available) + 1] = w
        /\ \A i \in 1 .. Len(available) : all[i] = available[i]
        /\ DOMAIN all = 1 .. Len(available) + 1
    <3>1. /\ all \in Seq(E) /\ Len(all) = Len(available) + 1 /\ all[Len(available) + 1] = w
          /\ \A i \in 1 .. Len(available) : all[i] = available[i]
      BY <2>1, AppendProperties
    <3>. QED  BY <3>1, LenProperties
  <2>4. \A i \in 1 .. Len(available) : available[i] # w  BY <1>4 DEF Contains
  <2>5. \A i : i \in 1 .. Len(available) + 1 <=> i \in 1 .. Len(available) \/ i = Len(available) + 1
    BY <1>2
  <2>6. IsInjective(all)
    BY <1>2, <2>3, <2>4, <2>5 DEF IsInjective
  <2>7. ToSet(all) = ToSet(available) \cup {w}
    BY <1>2, <2>3, <2>5 DEF ToSet
  <2>. QED  BY <1>1, <2>2, <2>3, <2>6, <2>7
<1>. QED  BY <1>3, <1>4

\* What the merged list answers for each room.
LEMMA ListAnswers ==
  ASSUME NEW E, NEW config, NEW available, NEW all \in Seq(E), all = AllExtensions(config, available)
  PROVE  /\ enumerate_device_extension_properties(config, available, "none", -1)
              = Reply("SUCCESS", Len(all), <<>>)
         /\ \A cap \in 0 .. Len(all) + 1 :
              enumerate_device_extension_properties(config, available, "none", cap)
                = IF cap < Len(all) THEN Reply("INCOMPLETE", cap, SubSeq(all, 1, cap))
                                    ELSE Reply("SUCCESS", Len(all), all)
<1>1. Len(all) \in Nat /\ SubSeq(all, 1, Len(all)) = all  BY LenProperties
<1>2. ASSUME NEW cap \in 0 .. Len(all) + 1
      PROVE  enumerate_device_extension_properties(config, available, "none", cap)
                = IF cap < Len(all) THEN Reply("INCOMPLETE", cap, SubSeq(all, 1, cap))
                                    ELSE Reply("SUCCESS", Len(all), all)
  <2> DEFINE written == SubSeq(all, 1, IF cap < Len(all) THEN cap ELSE Len(all))
  <2>1. cap # -1 /\ cap \in Nat  BY <1>1
  <2>2. enumerate_device_extension_properties(config, available, "none", cap)
          = Reply(IF Len(written) < Len(all) THEN "INCOMPLETE" ELSE "SUCCESS", Len(written), written)
    BY <2>1 DEF enumerate_device_extension_properties
  <2>3. CASE cap < Len(all)
    <3>1. written = SubSeq(all, 1, cap) /\ Len(SubSeq(all, 1, cap)) = cap
      <4>1. \A i \in 1 .. cap : all[i] \in E  BY <1>1, <2>1, <2>3, ElementOfSeq
      <4>2. Len(SubSeq(all, 1, cap)) = cap  BY <2>1, <4>1, SubSeqProperties
      <4>. QED  BY <2>3, <4>2
    <3>. HIDE DEF written
    <3>. QED  BY <2>2, <2>3, <3>1
  <2>4. CASE ~(cap < Len(all))
    <3>1. written = all  BY <1>1, <2>4
    <3>. HIDE DEF written
    <3>. QED  BY <1>1, <2>2, <2>4, <3>1
  <2>. QED  BY <2>3, <2>4
<1>3. enumerate_device_extension_properties(config, available, "none", -1)
        = Reply("SUCCESS", Len(all), <<>>)
  BY DEF enumerate_device_extension_properties
<1>. QED  BY <1>2, <1>3

LEMMA ListInTwoCalls ==
  ASSUME NEW E, NEW config, NEW available \in Seq(E), IsInjective(available), WatchedExt(config) \in E
  PROVE  TwoCalls(LAMBDA cap : enumerate_device_extension_properties(config, available, "none", cap))
<1>1. PICK all \in Seq(E) : all = AllExtensions(config, available) /\ IsInjective(all)
  BY AllIsEach
<1> DEFINE Query(cap) == enumerate_device_extension_properties(config, available, "none", cap)
<1>2. Len(all) \in Nat  BY LenProperties
<1>3. /\ Query(-1) = Reply("SUCCESS", Len(all), <<>>)
      /\ \A cap \in 0 .. Len(all) + 1 :
           Query(cap) = IF cap < Len(all) THEN Reply("INCOMPLETE", cap, SubSeq(all, 1, cap))
                                          ELSE Reply("SUCCESS", Len(all), all)
  BY <1>1, ListAnswers
<1>4. Query(-1).count = Len(all)  BY <1>3 DEF Reply
<1>5. /\ Query(Len(all)) = Reply("SUCCESS", Len(all), all)
      /\ Query(Len(all) + 1) = Query(Len(all))
  BY <1>2, <1>3
<1>6. ASSUME NEW cap \in 0 .. Len(all)  PROVE IsPrefix(Query(cap).written, all)
  <2>1. Query(cap).written = SubSeq(all, 1, cap)
    <3>1. CASE cap < Len(all)  BY <1>2, <1>3, <3>1 DEF Reply
    <3>2. CASE cap = Len(all)
      <4>1. SubSeq(all, 1, cap) = all  BY <3>2, LenProperties
      <4>. QED  BY <1>5, <3>2, <4>1 DEF Reply
    <3>. QED  BY <1>2, <3>1, <3>2
  <2>. QED  BY <2>1, PrefixOf
<1>7. /\ Query(Len(all)).result = "SUCCESS" /\ Query(Len(all)).count = Len(all)
      /\ Query(Len(all)).written = all
  BY <1>5 DEF Reply
<1>8. LET n == Query(-1).count IN
      /\ Query(n).result = "SUCCESS" /\ Query(n).count = n /\ Query(n + 1) = Query(n)
      /\ IsInjective(Query(n).written)
      /\ \A cap \in 0 .. n : IsPrefix(Query(cap).written, Query(n).written)
  <2>. HIDE DEF Query
  <2>. QED  BY <1>1, <1>4, <1>5, <1>6, <1>7
<1>. QED  BY <1>8 DEF TwoCalls

LEMMA OwnInTwoCalls ==
  ASSUME NEW config, NEW available
  PROVE  TwoCalls(LAMBDA cap : enumerate_device_extension_properties(config, available, "this layer", cap))
<1> DEFINE Query(cap) == enumerate_device_extension_properties(config, available, "this layer", cap)
           w == <<WatchedExt(config)>>
<1>1. \A cap : Query(cap) = OwnExtension(config, cap)
  BY DEF enumerate_device_extension_properties
<1>2. /\ Query(-1) = Reply("SUCCESS", 1, <<>>) /\ Query(0) = Reply("INCOMPLETE", 0, <<>>)
      /\ Query(1) = Reply("SUCCESS", 1, w) /\ Query(2) = Reply("SUCCESS", 1, w)
  <2>. HIDE DEF Query
  <2>. QED  BY <1>1 DEF OwnExtension
<1>3. IsInjective(w)  BY DEF IsInjective
<1>4. IsPrefix(<<>>, w) /\ IsPrefix(w, w)
  <2>1. w \in Seq({WatchedExt(config)}) /\ Len(w) = 1  OBVIOUS
  <2>2. SubSeq(w, 1, 0) = <<>> /\ SubSeq(w, 1, 1) = w
    <3>. HIDE DEF w
    <3>. QED  BY <2>1, SubSeqEmpty, LenProperties
  <2>3. IsPrefix(SubSeq(w, 1, 0), w) /\ IsPrefix(SubSeq(w, 1, 1), w)
    <3>. HIDE DEF w
    <3>. QED  BY <2>1, PrefixOf
  <2>. HIDE DEF w
  <2>. QED  BY <2>2, <2>3
<1>5. LET n == Query(-1).count IN
      /\ Query(n).result = "SUCCESS" /\ Query(n).count = n /\ Query(n + 1) = Query(n)
      /\ IsInjective(Query(n).written)
      /\ \A cap \in 0 .. n : IsPrefix(Query(cap).written, Query(n).written)
  <2>1. Query(-1).count = 1 /\ Query(1).result = "SUCCESS" /\ Query(1).count = 1
        /\ Query(1).written = w /\ Query(0).written = <<>> /\ Query(1 + 1) = Query(1)
    <3>. HIDE DEF Query, w
    <3>. QED  BY <1>2 DEF Reply
  <2>2. \A cap \in 0 .. 1 : cap = 0 \/ cap = 1  OBVIOUS
  <2>. HIDE DEF Query, w
  <2>. QED  BY <1>3, <1>4, <2>1, <2>2
<1>. QED  BY <1>5 DEF TwoCalls

LEMMA ModesInTwoCalls ==
  ASSUME NEW config
  PROVE  TwoCalls(LAMBDA cap : LatencyModes(config, Reply("SUCCESS", 0, <<>>), cap))
<1> DEFINE Query(cap) == LatencyModes(config, Reply("SUCCESS", 0, <<>>), cap)
<1>1. CASE ~config.expose_reflex
  <2>1. \A cap : Query(cap) = Reply("SUCCESS", 0, <<>>)  BY <1>1 DEF LatencyModes
  <2>2. \A cap : /\ Query(cap).result = "SUCCESS" /\ Query(cap).count = 0
                 /\ Query(cap).written = <<>>
    <3>. HIDE DEF Query
    <3>. QED  BY <2>1 DEF Reply
  <2>3. IsInjective(<<>>) /\ IsPrefix(<<>>, <<>>)
    <3>1. SubSeq(<<>>, 1, 0) = <<>> /\ Len(<<>>) = 0  BY SubSeqEmpty, EmptySeq
    <3>. QED  BY <3>1 DEF IsInjective, IsPrefix
  <2>4. LET n == Query(-1).count IN
        /\ Query(n).result = "SUCCESS" /\ Query(n).count = n /\ Query(n + 1) = Query(n)
        /\ IsInjective(Query(n).written)
        /\ \A cap \in 0 .. n : IsPrefix(Query(cap).written, Query(n).written)
    <3>. HIDE DEF Query
    <3>. QED  BY <2>1, <2>2, <2>3
  <2>. QED  BY <2>4 DEF TwoCalls
<1>2. CASE config.expose_reflex
  <2>0. PICK E : E = {"IMMEDIATE", "MAILBOX", "FIFO"}  OBVIOUS
  <2>1. PICK all \in Seq(E) : all = PresentModes /\ Len(all) = 3 /\ IsInjective(all)
    <3>1. PresentModes \in Seq(E)  BY <2>0 DEF PresentModes
    <3>2. Len(PresentModes) = 3 /\ IsInjective(PresentModes)  BY DEF PresentModes, IsInjective
    <3>. QED  BY <3>1, <3>2
  <2>2. Query(-1) = Reply("SUCCESS", 3, <<>>)  BY <1>2, <2>1 DEF LatencyModes
  <2>3. ASSUME NEW cap \in 0 .. 4
        PROVE  Query(cap) = LET n == IF cap < 3 THEN cap ELSE 3 IN Reply("SUCCESS", n, SubSeq(all, 1, n))
    BY <1>2, <2>1 DEF LatencyModes
  <2>4. SubSeq(all, 1, 3) = all  BY <2>1, LenProperties
  <2>5. /\ Query(-1).count = 3 /\ Query(3).result = "SUCCESS" /\ Query(3).count = 3
        /\ Query(3).written = all /\ Query(3 + 1) = Query(3)
        /\ \A cap \in 0 .. 3 : Query(cap).written = SubSeq(all, 1, cap)
    <3>. HIDE DEF Query
    <3>1. Query(3) = Reply("SUCCESS", 3, SubSeq(all, 1, 3)) /\ Query(4) = Reply("SUCCESS", 3, SubSeq(all, 1, 3))
      BY <2>3
    <3>2. ASSUME NEW cap \in 0 .. 3  PROVE Query(cap).written = SubSeq(all, 1, cap)
      <4>1. Query(cap) = Reply("SUCCESS", cap, SubSeq(all, 1, cap))  BY <2>3
      <4>. QED  BY <4>1 DEF Reply
    <3>3. 3 + 1 = 4  OBVIOUS
    <3>4. Query(-1).count = 3  BY <2>2 DEF Reply
    <3>5. Query(3).result = "SUCCESS" /\ Query(3).count = 3 /\ Query(3).written = all
      BY <2>4, <3>1, SMTT(40) DEF Reply
    <3>. QED  BY <3>1, <3>2, <3>3, <3>4, <3>5
  <2>6. \A cap \in 0 .. 3 : IsPrefix(SubSeq(all, 1, cap), all)  BY <2>1, PrefixOf
  <2>7. LET n == Query(-1).count IN
        /\ Query(n).result = "SUCCESS" /\ Query(n).count = n /\ Query(n + 1) = Query(n)
        /\ IsInjective(Query(n).written)
        /\ \A cap \in 0 .. n : IsPrefix(Query(cap).written, Query(n).written)
    <3>. HIDE DEF Query
    <3>. QED  BY <2>1, <2>5, <2>6
  <2>. QED  BY <2>7 DEF TwoCalls
<1>. QED  BY <1>1, <1>2

\* QueriesAgree, for every driver's list and every application: the two calls of an
\* enumeration agree, the merged list is complete and without repetition, and the
\* antiLag feature says what vkCreateDevice does
\* (enumerate_device_extension_properties, get_physical_device_features2).
THEOREM AnswersAgree == Spec => []QueriesAgree
<1>1. IInv => QueriesAgree
  <2> SUFFICES ASSUME IInv, NEW pd \in got, NEW context, context = PHYSICAL_DEVICES[pd],
                      NEW config, config = ConfigOf(context.instance),
                      NEW available, available = Gpus[pd[2]]
               PROVE  LET List(filter, cap) ==
                            enumerate_device_extension_properties(config, available, filter, cap)
                          All == List("none", List("none", -1).count)
                      IN /\ TwoCalls(LAMBDA cap : List("none", cap))
                         /\ TwoCalls(LAMBDA cap : List("this layer", cap))
                         /\ TwoCalls(LAMBDA cap : LatencyModes(config, Reply("SUCCESS", 0, <<>>), cap))
                         /\ ToSet(All.written) = ToSet(available) \cup {WatchedExt(config)}
                         /\ \A cap \in 0 .. All.count - 1 : List("none", cap).result = "INCOMPLETE"
                         /\ ~config.expose_reflex => \A driver \in BOOLEAN :
                              AntiLagFeature(context, config, driver)
                                <=> \A ask \in Asks : LayerEnabled(config, ask) /\ Has(ask.chain, "link")
                                                        => Accepted(context, config, ask)
    BY DEF QueriesAgree
  <2> DEFINE E == STRING \cup {NV_LOW_LATENCY2, AMD_ANTI_LAG}
  <2>1. available \in Seq(E) /\ IsInjective(available) /\ WatchedExt(config) \in E
    <3>1. pd[2] \in DOMAIN Gpus /\ Gpus \in Seq(Seq(STRING)) \ {<<>>}
      BY InstancesAssumption DEF IInv, Typed, PhysicalDevice
    <3>2. pd[2] \in 1 .. Len(Gpus)  BY <3>1, LenProperties
    <3>3. Gpus[pd[2]] \in Seq(STRING)  BY <3>1, <3>2, ElementOfSeq
    <3>4. available \in Seq(E)
      <4>1. available \in [1 .. Len(available) -> STRING] /\ Len(available) \in Nat
        BY <3>3, LenProperties
      <4>2. available \in [1 .. Len(available) -> E]  BY <4>1
      <4>. HIDE DEF E
      <4>. QED  BY <4>1, <4>2, SeqDef
    <3>5. WatchedExt(config) \in E  BY DEF WatchedExt
    <3>. QED  BY <3>1, <3>4, <3>5, InstancesAssumption
  <2>2. PICK all \in Seq(E) :
          /\ all = AllExtensions(config, available)
          /\ ToSet(all) = ToSet(available) \cup {WatchedExt(config)}
    BY <2>1, AllIsEach
  <2>3. Len(all) \in Nat  BY LenProperties
  <2> DEFINE List(filter, cap) == enumerate_device_extension_properties(config, available, filter, cap)
  <2>4. /\ List("none", -1).count = Len(all)
        /\ List("none", Len(all)).count = Len(all) /\ List("none", Len(all)).written = all
        /\ \A cap \in 0 .. Len(all) - 1 : List("none", cap).result = "INCOMPLETE"
    <3>1. /\ List("none", -1) = Reply("SUCCESS", Len(all), <<>>)
          /\ \A cap \in 0 .. Len(all) + 1 :
               List("none", cap) = IF cap < Len(all) THEN Reply("INCOMPLETE", cap, SubSeq(all, 1, cap))
                                                     ELSE Reply("SUCCESS", Len(all), all)
      BY <2>2, ListAnswers
    <3>. HIDE DEF List
    <3>. QED  BY <2>3, <3>1 DEF Reply
  <2>5. ASSUME ~config.expose_reflex, NEW driver \in BOOLEAN
        PROVE  AntiLagFeature(context, config, driver)
                 <=> \A ask \in Asks : LayerEnabled(config, ask) /\ Has(ask.chain, "link")
                                         => Accepted(context, config, ask)
    <3>1. PICK ask \in Asks : Contains(ask.extensions, AMD_ANTI_LAG) /\ Has(ask.chain, "link")
      BY InstancesAssumption
    <3>2. LayerEnabled(config, ask)  BY <2>5, <3>1 DEF LayerEnabled, WatchedExt
    <3>. QED  BY <2>5, <3>1, <3>2 DEF AntiLagFeature, Accepted
  <2>6. /\ TwoCalls(LAMBDA cap : List("none", cap))
        /\ TwoCalls(LAMBDA cap : List("this layer", cap))
        /\ TwoCalls(LAMBDA cap : LatencyModes(config, Reply("SUCCESS", 0, <<>>), cap))
    <3>1. TwoCalls(LAMBDA cap : List("none", cap))
      <4>. HIDE DEF E
      <4>. QED  BY <2>1, ListInTwoCalls DEF TwoCalls
    <3>2. TwoCalls(LAMBDA cap : List("this layer", cap))
      BY OwnInTwoCalls DEF TwoCalls
    <3>3. TwoCalls(LAMBDA cap : LatencyModes(config, Reply("SUCCESS", 0, <<>>), cap))
      BY ModesInTwoCalls DEF TwoCalls
    <3>. QED  BY <3>1, <3>2, <3>3 DEF TwoCalls
  <2>. QED  BY <2>2, <2>4, <2>5, <2>6
<1>. QED  BY Invariance, <1>1, PTL

-----------------------------------------------------------------------------
(* The request for a device: its extensions *)

\* The members of s that are in S, each as often as it is in s.
LEMMA AmongIs ==
  ASSUME NEW E, NEW s \in Seq(E), NEW S
  PROVE  /\ Among(s, S) \in Seq(E)
         /\ ToSet(Among(s, S)) = ToSet(s) \cap S
         /\ IsInjective(s) => IsInjective(Among(s, S))
<1> DEFINE N == Len(s)
           Q == Seq(E)
           Add(i, q) == IF s[i] \in S THEN Append(q, s[i]) ELSE q
           F == [i \in 1 .. N |-> [q \in Q |-> Add(i, q)]]
           Step(f) == [i \in 0 .. N |-> IF i = 0 THEN <<>> ELSE Add(i, f[i - 1])]
<1>0. N \in Nat /\ DOMAIN s = 1 .. N /\ \A i \in 1 .. N : s[i] \in E  BY LenProperties, ElementOfSeq
<1>1. <<>> \in Q  BY EmptySeq
<1>2. ASSUME NEW q \in Q, NEW i \in 1 .. N  PROVE Add(i, q) \in Q
  BY <1>0, AppendProperties
<1>3. F \in [1 .. N -> [Q -> Q]]
  <2>. HIDE DEF Q, Add
  <2>. QED  BY <1>2
<1>4. PICK f \in [0 .. N -> Q] : f[0] = <<>> /\ \A i \in 1 .. N : f[i] = F[i][f[i - 1]]
  <2>. HIDE DEF F, N, Q
  <2>1. PICK e \in Q : e = <<>>  BY <1>1
  <2>2. PICK f : Folds(f, N, Q, e, F)  BY <1>0, <1>3, RecursionExists
  <2>. QED  BY <2>1, <2>2 DEF Folds
<1>5. f = Step(f)
  <2>. HIDE DEF Q
  <2>1. ASSUME NEW i \in 1 .. N  PROVE F[i][f[i - 1]] = Add(i, f[i - 1])
    <3>1. f[i - 1] \in Q  BY <1>0
    <3>. HIDE DEF Add
    <3>. QED  BY <3>1
  <2>2. \A i \in 0 .. N : f[i] = IF i = 0 THEN <<>> ELSE Add(i, f[i - 1])
    <3>. HIDE DEF F, Add
    <3>. QED  BY <1>0, <1>4, <2>1
  <2>. HIDE DEF Add
  <2>. QED  BY <1>4, <2>2
<1> DEFINE among == CHOOSE g : g = Step(g)
<1>6. among = Step(among)
  <2>. HIDE DEF Step
  <2>. QED  BY <1>5
<1>7. Among(s, S) = among[N]
  BY DEF Among
<1>8. among[0] = <<>> /\ \A i \in 1 .. N : among[i] = Add(i, among[i - 1])
  <2>. HIDE DEF Add, among
  <2>. QED  BY <1>0, <1>6
<1> HIDE DEF among
<1> DEFINE Good(i, q) == /\ q \in Seq(E)
                         /\ \A x : (\E k \in 1 .. Len(q) : q[k] = x)
                                   <=> x \in S /\ \E j \in 1 .. i : s[j] = x
                         /\ IsInjective(s) => \A k, l \in 1 .. Len(q) : q[k] = q[l] => k = l
           T == {i \in 0 .. N : Good(i, among[i])}
<1>9. 0 \in T
  <2>1. Good(0, <<>>)  BY EmptySeq
  <2>. HIDE DEF Good
  <2>. QED  BY <1>0, <1>8, <2>1
<1>10. ASSUME NEW i \in 0 .. N - 1, i \in T  PROVE i + 1 \in T
  <2>0. PICK q, x : q = among[i] /\ x = s[i + 1]  OBVIOUS
  <2>1. i + 1 \in 1 .. N /\ i \in Nat /\ (i + 1) - 1 = i /\ i + 1 \in 0 .. N  BY <1>0
  <2>2. Good(i, q)
    <3>. HIDE DEF Good
    <3>. QED  BY <1>10, <2>0
  <2>3. x \in E /\ Len(q) \in Nat  BY <1>0, <2>0, <2>1, <2>2, LenProperties
  <2>4. \A j : j \in 1 .. i + 1 <=> j \in 1 .. i \/ j = i + 1  BY <2>1
  <2>5. Good(i + 1, among[i + 1])
    <3>1. CASE x \in S
      <4>1. among[i + 1] = Append(q, x)  BY <1>8, <2>0, <2>1, <3>1
      <4>2. PICK r : r = Append(q, x)  OBVIOUS
      <4>3. /\ r \in Seq(E) /\ Len(r) = Len(q) + 1 /\ r[Len(q) + 1] = x
            /\ \A k \in 1 .. Len(q) : r[k] = q[k]
        BY <2>2, <2>3, <4>2, AppendProperties
      <4>4. \A k : k \in 1 .. Len(q) + 1 <=> k \in 1 .. Len(q) \/ k = Len(q) + 1  BY <2>3
      <4>5. \A y : (\E k \in 1 .. Len(r) : r[k] = y) <=> y = x \/ \E k \in 1 .. Len(q) : q[k] = y
        BY <4>3, <4>4
      <4>6. \A y : (\E j \in 1 .. i + 1 : s[j] = y) <=> y = x \/ \E j \in 1 .. i : s[j] = y
        BY <2>0, <2>4
      <4>7. ASSUME IsInjective(s), NEW k \in 1 .. Len(r), NEW l \in 1 .. Len(r), r[k] = r[l]
            PROVE  k = l
        <5>1. \A j \in 1 .. i : s[j] # x  BY <1>0, <2>0, <2>1, <2>4, <4>7, SMTT(40) DEF IsInjective
        <5>2. \A n \in 1 .. Len(q) : q[n] # x  BY <2>2, <5>1
        <5>. QED  BY <2>2, <4>3, <4>4, <4>7, <5>2
      <4>8. \A y : (\E k \in 1 .. Len(r) : r[k] = y) <=> y \in S /\ \E j \in 1 .. i + 1 : s[j] = y
        BY <2>2, <3>1, <4>5, <4>6
      <4>9. IsInjective(s) => \A k, l \in 1 .. Len(r) : r[k] = r[l] => k = l
        BY <4>7
      <4>10. Good(i + 1, r)  BY <4>3, <4>8, <4>9
      <4>11. among[i + 1] = r  BY <4>1, <4>2
      <4>. HIDE DEF Good
      <4>. QED  BY <4>10, <4>11
    <3>2. CASE x \notin S
      <4>1. among[i + 1] = q  BY <1>8, <2>0, <2>1, <3>2
      <4>2. \A y \in S : (\E j \in 1 .. i + 1 : s[j] = y) <=> \E j \in 1 .. i : s[j] = y
        BY <2>0, <2>4, <3>2
      <4>3. Good(i + 1, q)  BY <2>2, <4>2
      <4>. QED  BY <4>1, <4>3
    <3>. QED  BY <3>1, <3>2
  <2>. HIDE DEF Good
  <2>. QED  BY <2>1, <2>5
<1>11. N \in T
  <2>1. \A i \in 0 .. N - 1 : i \in T => i + 1 \in T
    <3>. HIDE DEF T
    <3>. QED  BY <1>10
  <2>2. \A i \in 0 .. N : i \in T
    <3>. HIDE DEF T
    <3>. QED  BY <1>0, <1>9, <2>1, NatSetInduction
  <2>3. N \in 0 .. N  BY <1>0
  <2>. HIDE DEF T
  <2>. QED  BY <2>2, <2>3
<1>12. Good(N, among[N])
  <2>. HIDE DEF Good
  <2>. QED  BY <1>11
<1>13. PICK q : q = Among(s, S)  OBVIOUS
<1>14. Good(N, q)  BY <1>7, <1>12, <1>13
<1>15. Len(q) \in Nat /\ DOMAIN q = 1 .. Len(q)  BY <1>14, LenProperties
<1>16. \A x : x \in ToSet(q) <=> \E k \in 1 .. Len(q) : q[k] = x  BY <1>15 DEF ToSet
<1>17. \A x : x \in ToSet(s) <=> \E k \in 1 .. N : s[k] = x  BY <1>0 DEF ToSet
<1>18. ToSet(q) = ToSet(s) \cap S
  <2>1. \A x : x \in ToSet(q) <=> x \in S /\ x \in ToSet(s)  BY <1>14, <1>16, <1>17
  <2>. QED  BY <2>1
<1>19. IsInjective(s) => IsInjective(q)
  <2>1. IsInjective(s) => \A k, l \in 1 .. Len(q) : q[k] = q[l] => k = l  BY <1>14
  <2>. QED  BY <1>15, <2>1 DEF IsInjective
<1>. QED  BY <1>13, <1>14, <1>18, <1>19

-----------------------------------------------------------------------------
(* The request for a device: its feature structures *)

Structures(E) == Seq([type : E, on : BOOLEAN])
TypesOf(chain) == {chain[i].type : i \in 1 .. Len(chain)}
TypesOnce(chain) == \A i, j \in 1 .. Len(chain) : chain[i].type = chain[j].type => i = j
Switched(chain, type) == \E i \in 1 .. Len(chain) : chain[i].type = type /\ chain[i].on

LEMMA IndexIs ==
  ASSUME NEW chain, Len(chain) \in Nat, NEW type
  PROVE  /\ Has(chain, type) <=> type \in TypesOf(chain)
         /\ Has(chain, type) => Index(chain, type) \in 1 .. Len(chain)
                                /\ chain[Index(chain, type)].type = type
<1> DEFINE I == {i \in 1 .. Len(chain) : chain[i].type = type}
<1>1. Index(chain, type) = IF I # {} THEN Min(I) ELSE 0
  BY DEF Index, SelectInSeq
<1>2. I # {} => Min(I) \in I
  <2>1. I \in SUBSET Nat  OBVIOUS
  <2>. HIDE DEF I
  <2>. QED  BY <2>1, LeastChosen
<1>3. I # {} <=> type \in TypesOf(chain)
  BY DEF TypesOf
<1>4. \A i \in I : i \in 1 .. Len(chain) /\ chain[i].type = type /\ i # 0
  OBVIOUS
<1>. HIDE DEF I
<1>. QED  BY <1>1, <1>2, <1>3, <1>4 DEF Has

\* Switched on for every type of S, and otherwise the application's chain behind
\* what the layer linked in.
Patched(E, chain, r, S) ==
  /\ r \in Structures(E) /\ TypesOnce(r) /\ Len(r) >= Len(chain)
  /\ \A i \in 1 .. Len(chain) : r[Len(r) - Len(chain) + i].type = chain[i].type
  /\ TypesOf(r) = TypesOf(chain) \cup S
  /\ \A type \in S : Switched(r, type)

LEMMA EnablePatches ==
  ASSUME NEW E, NEW chain \in Structures(E), NEW r, NEW S, Patched(E, chain, r, S), NEW type \in E
  PROVE  Patched(E, chain, Enable(r, type), S \cup {type})
<1>0. /\ r \in Structures(E) /\ TypesOnce(r) /\ Len(r) >= Len(chain)
      /\ \A i \in 1 .. Len(chain) : r[Len(r) - Len(chain) + i].type = chain[i].type
      /\ TypesOf(r) = TypesOf(chain) \cup S
      /\ \A x \in S : Switched(r, x)
  BY DEF Patched
<1>1. /\ Len(r) \in Nat /\ Len(chain) \in Nat /\ DOMAIN r = 1 .. Len(r)
      /\ r \in [1 .. Len(r) -> [type : E, on : BOOLEAN]]
      /\ \A i \in 1 .. Len(r) : r[i] \in [type : E, on : BOOLEAN]
  <2>1. r \in Seq([type : E, on : BOOLEAN]) /\ chain \in Seq([type : E, on : BOOLEAN])
    BY <1>0 DEF Structures
  <2>. QED  BY <2>1, LenProperties, ElementOfSeq
<1>2. CASE Has(r, type)
  <2>1. PICK k \in 1 .. Len(r) : k = Index(r, type) /\ r[k].type = type
    BY <1>1, <1>2, IndexIs
  <2>2. PICK p : p = [r EXCEPT ![k].on = TRUE]  OBVIOUS
  <2>3. Enable(r, type) = p  BY <1>2, <2>1, <2>2 DEF Enable
  <2>4. /\ p \in [1 .. Len(r) -> [type : E, on : BOOLEAN]]
        /\ \A i \in 1 .. Len(r) : p[i].type = r[i].type /\ (r[i].on => p[i].on)
        /\ p[k].on
    BY <1>1, <2>1, <2>2
  <2>5. p \in Structures(E) /\ Len(p) = Len(r)
    <3>1. p \in Seq([type : E, on : BOOLEAN])
      <4>1. PICK R : R = [type : E, on : BOOLEAN]  OBVIOUS
      <4>2. p \in [1 .. Len(r) -> R]  BY <2>4, <4>1
      <4>3. p \in Seq(R)  BY <1>1, <4>2, SeqDef
      <4>. QED  BY <4>1, <4>3
    <3>2. Len(p) = Len(r)  BY <1>1, <2>4, <3>1, LenProperties
    <3>. QED  BY <3>1, <3>2 DEF Structures
  <2>6. TypesOnce(p) /\ TypesOf(p) = TypesOf(r)
    <3>1. TypesOnce(p)  BY <1>0, <2>4, <2>5 DEF TypesOnce
    <3>2. \A x : x \in TypesOf(p) <=> x \in TypesOf(r)  BY <2>4, <2>5 DEF TypesOf
    <3>. QED  BY <3>1, <3>2
  <2>7. TypesOf(p) = TypesOf(chain) \cup (S \cup {type})
    <3>1. type \in TypesOf(r)  BY <2>1 DEF TypesOf
    <3>. QED  BY <1>0, <2>6, <3>1
  <2>8. ASSUME NEW x \in S \cup {type}  PROVE Switched(p, x)
    <3>1. CASE x \in S  BY <1>0, <2>4, <2>5, <3>1 DEF Switched
    <3>2. CASE x = type  BY <2>1, <2>4, <2>5, <3>2 DEF Switched
    <3>. QED  BY <3>1, <3>2
  <2>9. \A i \in 1 .. Len(chain) : p[Len(p) - Len(chain) + i].type = chain[i].type
    <3>1. \A i \in 1 .. Len(chain) : Len(r) - Len(chain) + i \in 1 .. Len(r)  BY <1>0, <1>1
    <3>. QED  BY <1>0, <2>4, <2>5, <3>1
  <2>. QED  BY <1>0, <2>3, <2>5, <2>6, <2>7, <2>8, <2>9 DEF Patched
<1>3. CASE ~Has(r, type)
  <2>1. PICK s : s = [type |-> type, on |-> TRUE]  OBVIOUS
  <2>2. s \in [type : E, on : BOOLEAN] /\ s.type = type /\ s.on  BY <2>1
  <2>3. PICK p : p = <<s>> \o r  OBVIOUS
  <2>4. Enable(r, type) = p  BY <1>3, <2>1, <2>3 DEF Enable
  <2>5. /\ p \in Structures(E) /\ Len(p) = Len(r) + 1 /\ p[1] = s
        /\ \A i \in 1 .. Len(r) : p[i + 1] = r[i]
    <3>1. <<s>> \in Seq([type : E, on : BOOLEAN]) /\ r \in Seq([type : E, on : BOOLEAN])
          /\ Len(<<s>>) = 1 /\ <<s>>[1] = s
      BY <1>0, <2>2 DEF Structures
    <3>2. /\ p \in Seq([type : E, on : BOOLEAN]) /\ Len(p) = 1 + Len(r)
          /\ \A i \in 1 .. 1 + Len(r) : p[i] = IF i <= 1 THEN <<s>>[i] ELSE r[i - 1]
      BY <2>3, <3>1, ConcatProperties
    <3>3. \A i \in 1 .. Len(r) : i + 1 \in 1 .. 1 + Len(r) /\ ~(i + 1 <= 1) /\ (i + 1) - 1 = i  BY <1>1
    <3>4. 1 \in 1 .. 1 + Len(r) /\ 1 <= 1  BY <1>1
    <3>5. p[1] = s  BY <3>1, <3>2, <3>4
    <3>6. \A i \in 1 .. Len(r) : p[i + 1] = r[i]  BY <3>2, <3>3
    <3>. QED  BY <1>1, <3>2, <3>5, <3>6 DEF Structures
  <2>6. /\ \A i \in 1 .. Len(p) : i = 1 \/ (i - 1 \in 1 .. Len(r) /\ p[i] = r[i - 1])
        /\ 1 \in 1 .. Len(p) /\ \A i \in 1 .. Len(r) : i + 1 \in 1 .. Len(p)
    <3>1. \A i \in 1 .. Len(r) + 1 : i = 1 \/ (i - 1 \in 1 .. Len(r) /\ (i - 1) + 1 = i)  BY <1>1
    <3>. QED  BY <1>1, <2>5, <3>1
  <2>7. type \notin TypesOf(r)  BY <1>1, <1>3, IndexIs
  <2>8. TypesOf(p) = TypesOf(r) \cup {type}
    <3>1. ASSUME NEW x \in TypesOf(p)  PROVE x \in TypesOf(r) \cup {type}
      BY <2>2, <2>5, <2>6, <3>1 DEF TypesOf
    <3>2. ASSUME NEW x \in TypesOf(r) \cup {type}  PROVE x \in TypesOf(p)
      BY <2>2, <2>5, <2>6, <3>2 DEF TypesOf
    <3>. QED  BY <3>1, <3>2
  <2>9. TypesOnce(p)
    <3>1. \A i \in 1 .. Len(r) : r[i].type # type  BY <2>7 DEF TypesOf
    <3>2. ASSUME NEW i \in 1 .. Len(p), NEW j \in 1 .. Len(p), p[i].type = p[j].type
          PROVE  i = j
      <4>1. CASE i = 1 /\ j = 1  BY <4>1
      <4>2. CASE i = 1 /\ j # 1  BY <2>2, <2>5, <2>6, <3>1, <3>2, <4>2
      <4>3. CASE i # 1 /\ j = 1  BY <2>2, <2>5, <2>6, <3>1, <3>2, <4>3
      <4>4. CASE i # 1 /\ j # 1
        <5>1. PICK k \in 1 .. Len(r), l \in 1 .. Len(r) :
                 k = i - 1 /\ l = j - 1 /\ p[i] = r[k] /\ p[j] = r[l]
          BY <2>6, <4>4
        <5>2. k = l  BY <1>0, <3>2, <5>1 DEF TypesOnce
        <5>. QED  BY <1>1, <2>5, <5>1, <5>2
      <4>. QED  BY <4>1, <4>2, <4>3, <4>4
    <3>. QED  BY <3>2 DEF TypesOnce
  <2>10. ASSUME NEW x \in S \cup {type}  PROVE Switched(p, x)
    <3>1. CASE x = type  BY <2>2, <2>5, <2>6, <3>1 DEF Switched
    <3>2. CASE x \in S
      <4>1. PICK i \in 1 .. Len(r) : r[i].type = x /\ r[i].on  BY <1>0, <3>2 DEF Switched
      <4>. QED  BY <2>5, <2>6, <4>1 DEF Switched
    <3>. QED  BY <3>1, <3>2
  <2>11. \A i \in 1 .. Len(chain) : p[Len(p) - Len(chain) + i].type = chain[i].type
    <3>1. \A i \in 1 .. Len(chain) : /\ Len(r) - Len(chain) + i \in 1 .. Len(r)
                                     /\ Len(p) - Len(chain) + i = (Len(r) - Len(chain) + i) + 1
      BY <1>0, <1>1, <2>5
    <3>. QED  BY <1>0, <2>5, <3>1
  <2>12. Len(p) >= Len(chain)  BY <1>0, <1>1, <2>5
  <2>13. TypesOf(p) = TypesOf(chain) \cup (S \cup {type})  BY <1>0, <2>8
  <2>. QED  BY <2>4, <2>5, <2>9, <2>10, <2>11, <2>12, <2>13 DEF Patched
<1>. QED  BY <1>2, <1>3

\* A structure of T is on, and its type is the only one of T in the chain.
LEMMA OnInOne ==
  ASSUME NEW E, NEW r \in Structures(E), TypesOnce(r), NEW T, NEW x \in T,
         T \cap TypesOf(r) \subseteq {x}, Switched(r, x)
  PROVE  Cardinality(On(r, T)) = 1
<1>1. DOMAIN r = 1 .. Len(r)
  <2>1. r \in Seq([type : E, on : BOOLEAN])  BY DEF Structures
  <2>. QED  BY <2>1, LenProperties
<1>2. PICK k \in 1 .. Len(r) : r[k].type = x /\ r[k].on  BY DEF Switched
<1>3. ASSUME NEW i \in 1 .. Len(r), r[i].type \in T  PROVE i = k
  <2>1. r[i].type = x  BY <1>3 DEF TypesOf
  <2>. QED  BY <1>2, <2>1 DEF TypesOnce
<1>4. \A i : i \in On(r, T) <=> i = k  BY <1>1, <1>2, <1>3 DEF On
<1>5. On(r, T) = {k}  BY <1>4
<1>. QED  BY <1>5, FS_Singleton

\* The features that the layer needs, by the structures they can be in.
Features == {"Vulkan13", "Sync2", "Vulkan12", "HostQueryReset", "PresentId", "PresentWait"}

\* What Valid says of the structures, and what DriverAskedRight does.
ValidChain(chain, api) ==
  /\ Has(chain, "Vulkan13") => api >= 13 /\ ~Has(chain, "Sync2")
  /\ Has(chain, "Vulkan12") => api >= 12 /\ ~Has(chain, "HostQueryReset")
RightChain(chain, sent) ==
  /\ Cardinality(On(sent, {"Vulkan13", "Sync2"})) = 1
  /\ Cardinality(On(sent, {"Vulkan12", "HostQueryReset"})) = 1
  /\ ~(Has(sent, "Vulkan13") /\ Has(sent, "Sync2"))
  /\ ~(Has(sent, "Vulkan12") /\ Has(sent, "HostQueryReset"))
  /\ \A i \in DOMAIN chain : sent[Len(sent) - Len(chain) + i].type = chain[i].type
RightOptionals(optionals, sent) ==
  /\ Contains(optionals, "present_id") => Cardinality(On(sent, {"PresentId"})) = 1
  /\ Contains(optionals, "present_wait") => Cardinality(On(sent, {"PresentWait"})) = 1

LEMMA ChainSent ==
  ASSUME NEW E, Features \subseteq E, NEW chain \in Structures(E), TypesOnce(chain),
         NEW api, ValidChain(chain, api),
         NEW optionals, NEW sent, sent = patch_features(chain, api, optionals)
  PROVE  RightChain(chain, sent) /\ RightOptionals(optionals, sent)
<1>0. Len(chain) \in Nat /\ DOMAIN chain = 1 .. Len(chain)
  <2>1. chain \in Seq([type : E, on : BOOLEAN])  BY DEF Structures
  <2>. QED  BY <2>1, LenProperties
<1>1. Patched(E, chain, chain, {})
  <2>1. \A i \in 1 .. Len(chain) : Len(chain) - Len(chain) + i = i  BY <1>0
  <2>. QED  BY <1>0, <2>1 DEF Patched
<1>2. PICK x, y : x = Sync2Carrier(chain, api) /\ y = HqrCarrier(chain, api)  OBVIOUS
<1>3. x \in E /\ y \in E /\ "PresentId" \in E /\ "PresentWait" \in E
  BY <1>2 DEF Sync2Carrier, HqrCarrier, Features
<1>4. PICK sync2 : sync2 = Enable(chain, x)  OBVIOUS
<1>5. PICK hqr : hqr = Enable(sync2, y)  OBVIOUS
<1>6. PICK id : id = IF Contains(optionals, "present_id") THEN Enable(hqr, "PresentId") ELSE hqr
  OBVIOUS
<1>7. sent = IF Contains(optionals, "present_wait") THEN Enable(id, "PresentWait") ELSE id
  BY <1>2, <1>4, <1>5, <1>6 DEF patch_features
<1>8. Patched(E, chain, sync2, {} \cup {x})  BY <1>1, <1>3, <1>4, EnablePatches
<1>9. Patched(E, chain, hqr, ({} \cup {x}) \cup {y})  BY <1>3, <1>5, <1>8, EnablePatches
<1>10. PICK S : /\ Patched(E, chain, id, S)
                /\ {x, y} \subseteq S /\ S \subseteq {x, y, "PresentId"}
                /\ Contains(optionals, "present_id") => "PresentId" \in S
  <2>1. CASE Contains(optionals, "present_id")
    <3>1. Patched(E, chain, id, (({} \cup {x}) \cup {y}) \cup {"PresentId"})
      BY <1>3, <1>6, <1>9, <2>1, EnablePatches
    <3>. QED  BY <3>1
  <2>2. CASE ~Contains(optionals, "present_id")
    BY <1>6, <1>9, <2>2
  <2>. QED  BY <2>1, <2>2
<1>11. PICK R : /\ Patched(E, chain, sent, R)
                /\ {x, y} \subseteq R /\ R \subseteq {x, y, "PresentId", "PresentWait"}
                /\ Contains(optionals, "present_id") => "PresentId" \in R
                /\ Contains(optionals, "present_wait") => "PresentWait" \in R
  <2>1. CASE Contains(optionals, "present_wait")
    <3>1. Patched(E, chain, sent, S \cup {"PresentWait"})
      BY <1>3, <1>7, <1>10, <2>1, EnablePatches
    <3>. QED  BY <1>10, <3>1
  <2>2. CASE ~Contains(optionals, "present_wait")
    BY <1>7, <1>10, <2>2
  <2>. QED  BY <2>1, <2>2
<1>12. /\ sent \in Structures(E) /\ TypesOnce(sent) /\ TypesOf(sent) = TypesOf(chain) \cup R
       /\ \A type \in R : Switched(sent, type)
       /\ \A i \in 1 .. Len(chain) : sent[Len(sent) - Len(chain) + i].type = chain[i].type
  BY <1>11 DEF Patched
<1>13. Len(sent) \in Nat
  <2>1. sent \in Seq([type : E, on : BOOLEAN])  BY <1>12 DEF Structures
  <2>. QED  BY <2>1, LenProperties
<1>14. /\ x \in {"Vulkan13", "Sync2"} /\ {"Vulkan13", "Sync2"} \cap TypesOf(sent) \subseteq {x}
       /\ y \in {"Vulkan12", "HostQueryReset"}
       /\ {"Vulkan12", "HostQueryReset"} \cap TypesOf(sent) \subseteq {y}
  <2>1. /\ x = IF api >= 13 /\ "Vulkan13" \in TypesOf(chain) THEN "Vulkan13" ELSE "Sync2"
        /\ y = IF api >= 12 /\ "Vulkan12" \in TypesOf(chain) THEN "Vulkan12" ELSE "HostQueryReset"
        /\ "Vulkan13" \in TypesOf(chain) => api >= 13 /\ "Sync2" \notin TypesOf(chain)
        /\ "Vulkan12" \in TypesOf(chain) => api >= 12 /\ "HostQueryReset" \notin TypesOf(chain)
    BY <1>0, <1>2, IndexIs DEF Sync2Carrier, HqrCarrier, ValidChain
  <2>. QED  BY <1>11, <1>12, <2>1
<1>15. /\ Cardinality(On(sent, {"Vulkan13", "Sync2"})) = 1
       /\ Cardinality(On(sent, {"Vulkan12", "HostQueryReset"})) = 1
  <2>1. Switched(sent, x) /\ Switched(sent, y)  BY <1>11, <1>12
  <2>. QED  BY <1>12, <1>14, <2>1, OnInOne
<1>16. /\ Contains(optionals, "present_id") => Cardinality(On(sent, {"PresentId"})) = 1
       /\ Contains(optionals, "present_wait") => Cardinality(On(sent, {"PresentWait"})) = 1
  BY <1>11, <1>12, OnInOne
<1>17. /\ ~(Has(sent, "Vulkan13") /\ Has(sent, "Sync2"))
       /\ ~(Has(sent, "Vulkan12") /\ Has(sent, "HostQueryReset"))
  BY <1>13, <1>14, IndexIs
<1>. QED  BY <1>0, <1>12, <1>15, <1>16, <1>17 DEF RightChain, RightOptionals

-----------------------------------------------------------------------------
(* The request for a device: all of it *)

Apart(a, b) == \A x \in ToSet(a) : x \notin ToSet(b)

\* c is a followed by b, as far as the request goes.
Joined(a, b, c) ==
  /\ IsPrefix(a, c) /\ ToSet(c) = ToSet(a) \cup ToSet(b)
  /\ IsInjective(a) /\ IsInjective(b) /\ Apart(a, b) => IsInjective(c)

LEMMA JoinIs ==
  ASSUME NEW E, NEW a \in Seq(E), NEW b \in Seq(E), NEW c, c = a \o b
  PROVE  c \in Seq(E) /\ Joined(a, b, c)
<1>1. /\ Len(a) \in Nat /\ Len(b) \in Nat /\ DOMAIN a = 1 .. Len(a) /\ DOMAIN b = 1 .. Len(b)
  BY LenProperties
<1>2. /\ c \in Seq(E) /\ Len(c) = Len(a) + Len(b)
      /\ \A i \in 1 .. Len(a) + Len(b) : c[i] = IF i <= Len(a) THEN a[i] ELSE b[i - Len(a)]
  BY ConcatProperties
<1>3. DOMAIN c = 1 .. Len(c)  BY <1>2, LenProperties
<1>4. \A i \in 1 .. Len(a) : i \in 1 .. Len(c) /\ c[i] = a[i]  BY <1>1, <1>2
<1>5. \A i \in 1 .. Len(b) : Len(a) + i \in 1 .. Len(c) /\ c[Len(a) + i] = b[i]
  <2>1. \A i \in 1 .. Len(b) : /\ Len(a) + i \in 1 .. Len(a) + Len(b) /\ ~(Len(a) + i <= Len(a))
                               /\ (Len(a) + i) - Len(a) = i
    BY <1>1
  <2>. QED  BY <1>2, <2>1
<1>6. \A i \in 1 .. Len(c) : \/ i \in 1 .. Len(a) /\ c[i] = a[i]
                             \/ i - Len(a) \in 1 .. Len(b) /\ c[i] = b[i - Len(a)]
  BY <1>1, <1>2
<1>7. IsPrefix(a, c)
  <2>1. \A i \in 1 .. Len(a) : c[i] \in E  BY <1>2, <1>4, ElementOfSeq
  <2>2. 1 \in Int /\ Len(a) \in Int /\ Len(a) - 1 + 1 = Len(a)  BY <1>1
  <2>3. /\ SubSeq(c, 1, Len(a)) \in Seq(E) /\ Len(SubSeq(c, 1, Len(a))) = Len(a)
        /\ \A i \in 1 .. Len(a) : SubSeq(c, 1, Len(a))[i] = c[i]
    BY <1>1, <1>2, <2>1, <2>2, SubSeqProperties
  <2>4. SubSeq(c, 1, Len(a)) = a
    <3>1. \A i \in 1 .. Len(a) : SubSeq(c, 1, Len(a))[i] = a[i]  BY <1>4, <2>3
    <3>. QED  BY <2>3, <3>1, SeqEqual
  <2>5. SubSeq(a, 1, Len(a)) = a  BY LenProperties
  <2>. QED  BY <1>1, <1>2, <2>4, <2>5 DEF IsPrefix
<1>8. ToSet(c) = ToSet(a) \cup ToSet(b)
  <2>1. ASSUME NEW x \in ToSet(c)  PROVE x \in ToSet(a) \cup ToSet(b)
    BY <1>1, <1>3, <1>6, <2>1 DEF ToSet
  <2>2. ASSUME NEW x \in ToSet(a) \cup ToSet(b)  PROVE x \in ToSet(c)
    BY <1>1, <1>3, <1>4, <1>5, <2>2 DEF ToSet
  <2>. QED  BY <2>1, <2>2
<1>9. ASSUME IsInjective(a), IsInjective(b), Apart(a, b),
             NEW i \in 1 .. Len(c), NEW j \in 1 .. Len(c), c[i] = c[j]
      PROVE  i = j
  <2>1. \A k \in 1 .. Len(a), l \in 1 .. Len(b) : a[k] # b[l]  BY <1>1, <1>9 DEF ToSet, Apart
  <2>2. CASE i \in 1 .. Len(a) /\ c[i] = a[i]
    BY <1>1, <1>6, <1>9, <2>1, <2>2 DEF IsInjective
  <2>3. CASE i - Len(a) \in 1 .. Len(b) /\ c[i] = b[i - Len(a)]
    <3>1. j - Len(a) \in 1 .. Len(b) /\ c[j] = b[j - Len(a)]  BY <1>6, <1>9, <2>1, <2>3
    <3>2. PICK k \in 1 .. Len(b), l \in 1 .. Len(b) :
             k = i - Len(a) /\ l = j - Len(a) /\ b[k] = b[l]
      BY <1>9, <2>3, <3>1
    <3>3. k = l  BY <1>1, <1>9, <3>2 DEF IsInjective
    <3>. QED  BY <1>1, <1>2, <3>2, <3>3
  <2>. QED  BY <1>6, <2>2, <2>3
<1>10. IsInjective(a) /\ IsInjective(b) /\ Apart(a, b) => IsInjective(c)
  BY <1>3, <1>9 DEF IsInjective
<1>. QED  BY <1>2, <1>7, <1>8, <1>10 DEF Joined

\* The names of extensions: those that drivers and applications have, and those
\* that the layer has.
Names == STRING \cup {"synchronization2", "calibrated_timestamps", "host_query_reset"}
                \cup {"present_id", "present_wait", "display_timing"}
                \cup {NV_LOW_LATENCY2, AMD_ANTI_LAG}

LEMMA LayerNames ==
  /\ REQUIRED_EXTENSIONS \in Seq(Names) /\ IsInjective(REQUIRED_EXTENSIONS)
  /\ ToSet(REQUIRED_EXTENSIONS) = {"synchronization2", "calibrated_timestamps", "host_query_reset"}
  /\ OPTIONAL_EXTENSIONS \in Seq(Names) /\ IsInjective(OPTIONAL_EXTENSIONS)
  /\ ToSet(OPTIONAL_EXTENSIONS) = {"present_id", "present_wait", "display_timing"}
<1>1. /\ REQUIRED_EXTENSIONS \in Seq(Names)
      /\ OPTIONAL_EXTENSIONS \in Seq(Names)
  BY DEF REQUIRED_EXTENSIONS, OPTIONAL_EXTENSIONS, Names
<1>2. DOMAIN REQUIRED_EXTENSIONS = {1, 2, 3} /\ DOMAIN OPTIONAL_EXTENSIONS = {1, 2, 3}
  BY DEF REQUIRED_EXTENSIONS, OPTIONAL_EXTENSIONS
<1>3. /\ REQUIRED_EXTENSIONS[1] = "synchronization2" /\ REQUIRED_EXTENSIONS[2] = "calibrated_timestamps"
      /\ REQUIRED_EXTENSIONS[3] = "host_query_reset"
      /\ OPTIONAL_EXTENSIONS[1] = "present_id" /\ OPTIONAL_EXTENSIONS[2] = "present_wait"
      /\ OPTIONAL_EXTENSIONS[3] = "display_timing"
  BY DEF REQUIRED_EXTENSIONS, OPTIONAL_EXTENSIONS
<1>4. IsInjective(REQUIRED_EXTENSIONS) /\ IsInjective(OPTIONAL_EXTENSIONS)
  BY <1>2, <1>3 DEF IsInjective
<1>5. ToSet(REQUIRED_EXTENSIONS) = {"synchronization2", "calibrated_timestamps", "host_query_reset"}
  BY <1>2, <1>3 DEF ToSet
<1>6. ToSet(OPTIONAL_EXTENSIONS) = {"present_id", "present_wait", "display_timing"}
  BY <1>2, <1>3 DEF ToSet
<1>. QED  BY <1>1, <1>4, <1>5, <1>6

\* The extensions of an application, on a driver that lists the available ones.
ValidNames(enabled, available) ==
  /\ enabled \in Seq(Names) /\ IsInjective(enabled)
  /\ ToSet(REQUIRED_EXTENSIONS) \subseteq ToSet(available)
  /\ \E w \in {NV_LOW_LATENCY2, AMD_ANTI_LAG} : ToSet(enabled) \subseteq ToSet(available) \cup {w}

\* What DriverAskedRight says of them, and of the optional ones.
RightNames(enabled, available, sent) ==
  /\ IsPrefix(enabled, sent) /\ IsInjective(sent)
  /\ ToSet(sent) \subseteq ToSet(enabled) \cup ToSet(available)
  /\ ToSet(REQUIRED_EXTENSIONS) \subseteq ToSet(sent)
KnownOptionals(sent, optionals) ==
  \A x \in {"present_id", "present_wait"} : Contains(sent, x) => Contains(optionals, x)

LEMMA ExtensionsSent ==
  ASSUME NEW enabled, NEW available, ValidNames(enabled, available),
         NEW optionals, optionals = Among(OPTIONAL_EXTENSIONS, ToSet(available)),
         NEW sent, sent = enabled \o Missing(enabled, REQUIRED_EXTENSIONS) \o Missing(enabled, optionals)
  PROVE  RightNames(enabled, available, sent) /\ KnownOptionals(sent, optionals)
<1>0. /\ enabled \in Seq(Names) /\ IsInjective(enabled)
      /\ ToSet(REQUIRED_EXTENSIONS) \subseteq ToSet(available)
  BY DEF ValidNames
<1> PICK w \in {NV_LOW_LATENCY2, AMD_ANTI_LAG} : ToSet(enabled) \subseteq ToSet(available) \cup {w}
  BY DEF ValidNames
<1>1. /\ optionals \in Seq(Names) /\ IsInjective(optionals)
      /\ ToSet(optionals) = ToSet(OPTIONAL_EXTENSIONS) \cap ToSet(available)
  BY LayerNames, AmongIs
<1>2. PICK a : a = Missing(enabled, REQUIRED_EXTENSIONS)  OBVIOUS
<1>3. PICK b : b = Missing(enabled, optionals)  OBVIOUS
<1>4. /\ a \in Seq(Names) /\ IsInjective(a)
      /\ ToSet(a) = ToSet(REQUIRED_EXTENSIONS) \ ToSet(enabled)
  <2>1. /\ a \in Seq(Names) /\ IsInjective(a)
        /\ ToSet(a) = ToSet(REQUIRED_EXTENSIONS) \cap (ToSet(REQUIRED_EXTENSIONS) \ ToSet(enabled))
    BY <1>2, LayerNames, AmongIs DEF Missing
  <2>. QED  BY <2>1
<1>5. /\ b \in Seq(Names) /\ IsInjective(b) /\ ToSet(b) = ToSet(optionals) \ ToSet(enabled)
  <2>1. /\ b \in Seq(Names) /\ IsInjective(b)
        /\ ToSet(b) = ToSet(optionals) \cap (ToSet(optionals) \ ToSet(enabled))
    BY <1>1, <1>3, AmongIs DEF Missing
  <2>. QED  BY <2>1
<1>6. PICK c : c = enabled \o a  OBVIOUS
<1>7. /\ c \in Seq(Names) /\ IsPrefix(enabled, c) /\ IsInjective(c)
      /\ ToSet(c) = ToSet(enabled) \cup ToSet(REQUIRED_EXTENSIONS)
  <2>1. Apart(enabled, a)  BY <1>4 DEF Apart
  <2>2. c \in Seq(Names) /\ Joined(enabled, a, c)  BY <1>0, <1>4, <1>6, JoinIs
  <2>3. IsPrefix(enabled, c) /\ IsInjective(c) /\ ToSet(c) = ToSet(enabled) \cup ToSet(a)
    BY <1>0, <1>4, <2>1, <2>2 DEF Joined
  <2>. QED  BY <1>4, <2>2, <2>3
<1>8. sent = c \o b  BY <1>2, <1>3, <1>6
<1>9. /\ sent \in Seq(Names) /\ IsPrefix(c, sent) /\ IsInjective(sent)
      /\ ToSet(sent) = ToSet(enabled) \cup ToSet(REQUIRED_EXTENSIONS) \cup ToSet(optionals)
  <2>1. Apart(c, b)  BY <1>1, <1>5, <1>7, LayerNames DEF Apart
  <2>2. sent \in Seq(Names) /\ Joined(c, b, sent)  BY <1>5, <1>7, <1>8, JoinIs
  <2>3. IsPrefix(c, sent) /\ IsInjective(sent) /\ ToSet(sent) = ToSet(c) \cup ToSet(b)
    BY <1>5, <1>7, <2>1, <2>2 DEF Joined
  <2>4. ToSet(b) \cup ToSet(enabled) = ToSet(optionals) \cup ToSet(enabled)  BY <1>5
  <2>. QED  BY <1>7, <2>2, <2>3, <2>4
<1>10. IsPrefix(enabled, sent)
  <2>1. PICK d : d = a \o b  OBVIOUS
  <2>2. d \in Seq(Names)  BY <1>4, <1>5, <2>1, ConcatProperties
  <2>3. sent = enabled \o d  BY <1>0, <1>4, <1>5, <1>6, <1>8, <2>1, ConcatAssociative
  <2>4. Joined(enabled, d, sent)  BY <1>0, <2>2, <2>3, JoinIs
  <2>. QED  BY <2>4 DEF Joined
<1>11. ASSUME NEW x \in {"present_id", "present_wait"}, Contains(sent, x)
       PROVE  Contains(optionals, x)
  <2>1. x \in ToSet(sent)
    <3>1. DOMAIN sent = 1 .. Len(sent)  BY <1>9, LenProperties
    <3>. QED  BY <1>11, <3>1 DEF Contains, ToSet
  <2>2. x \in ToSet(OPTIONAL_EXTENSIONS) /\ x \notin ToSet(REQUIRED_EXTENSIONS) /\ x # w
    BY <1>11, LayerNames DEF NV_LOW_LATENCY2, AMD_ANTI_LAG
  <2>3. x \in ToSet(optionals)  BY <1>1, <1>9, <2>1, <2>2
  <2>4. DOMAIN optionals = 1 .. Len(optionals)  BY <1>1, LenProperties
  <2>. QED  BY <2>3, <2>4 DEF Contains, ToSet
<1>12. ToSet(sent) \subseteq ToSet(enabled) \cup ToSet(available)  BY <1>0, <1>1, <1>9
<1>. QED  BY <1>9, <1>10, <1>11, <1>12 DEF RightNames, KnownOptionals

\* A context knows the driver's extensions, or none when the driver failed.
Negotiated ==
  \A pd \in PhysicalDevice : Registered(pd) =>
    \E available \in {<<>>, Gpus[pd[2]]} :
      PHYSICAL_DEVICES[pd] = PhysicalDeviceContext(PHYSICAL_DEVICES[pd].instance, available)

LEMMA NegotiatedKept == Spec => []Negotiated
<1>1. Init => Negotiated  BY DEF Init, Negotiated, Registered
<1>2. IInv /\ Negotiated /\ [Next]_vars => Negotiated'
  <2> SUFFICES ASSUME IInv, Negotiated, [Next]_vars PROVE Negotiated'
    OBVIOUS
  <2>1. ASSUME UNCHANGED PHYSICAL_DEVICES  PROVE Negotiated'
    BY <2>1 DEF Negotiated, Registered
  <2>2. ASSUME NEW t \in Threads, Register(t)  PROVE Negotiated'
    <3>1. PICK pd, available :
            /\ pd = Head(call[t].todo) /\ available \in {<<>>, Gpus[pd[2]]}
            /\ PHYSICAL_DEVICES' = OrInsert(pd, PhysicalDeviceContext(call[t].ctx, available))
      BY <2>2 DEF Register
    <3>2. pd \in PhysicalDevice  BY <2>2, <3>1, AtDevice DEF Register, InCall
    <3>3. PhysicalDeviceContext(call[t].ctx, available).instance = call[t].ctx
      BY DEF PhysicalDeviceContext
    <3>4. PICK context : /\ context = PhysicalDeviceContext(context.instance, available)
                         /\ PHYSICAL_DEVICES' = OrInsert(pd, context)
      BY <3>1, <3>3
    <3>5. PHYSICAL_DEVICES = [q \in PhysicalDevice |-> PHYSICAL_DEVICES[q]]  BY DEF IInv, Typed
    <3>6. ASSUME NEW q \in PhysicalDevice
          PROVE  PHYSICAL_DEVICES'[q] = PHYSICAL_DEVICES[q] \/ (q = pd /\ PHYSICAL_DEVICES'[q] = context)
      BY <3>2, <3>4, <3>5 DEF OrInsert
    <3>. QED  BY <3>1, <3>4, <3>6 DEF Negotiated, Registered
  <2>3. ASSUME NEW t \in Threads, SweepPhysicalDevices(t)  PROVE Negotiated'
    <3>1. \A q \in PhysicalDevice : PHYSICAL_DEVICES'[q] \in {None, PHYSICAL_DEVICES[q]}
      BY <2>3 DEF SweepPhysicalDevices
    <3>. QED  BY <3>1 DEF Negotiated, Registered
  <2>. QED  BY <2>1, <2>2, <2>3
       DEF Next, vars, CreateInstance, InsertInstance, Enumerate, Own, RemoveInstance, DestroyInstance
<1>. QED  BY Invariance, <1>1, <1>2, PTL DEF Spec

\* What DriverAskedRight says of a request.
RightRequest(ask, available, sent) ==
  /\ IsPrefix(ask.extensions, sent.extensions)
  /\ IsInjective(sent.extensions)
  /\ ToSet(sent.extensions) \subseteq ToSet(ask.extensions) \cup ToSet(available)
  /\ ToSet(REQUIRED_EXTENSIONS) \subseteq ToSet(sent.extensions)
  /\ Cardinality(On(sent.chain, {"Vulkan13", "Sync2"})) = 1
  /\ Cardinality(On(sent.chain, {"Vulkan12", "HostQueryReset"})) = 1
  /\ Contains(sent.extensions, "present_id") => Cardinality(On(sent.chain, {"PresentId"})) = 1
  /\ Contains(sent.extensions, "present_wait") => Cardinality(On(sent.chain, {"PresentWait"})) = 1
  /\ ~(Has(sent.chain, "Vulkan13") /\ Has(sent.chain, "Sync2"))
  /\ ~(Has(sent.chain, "Vulkan12") /\ Has(sent.chain, "HostQueryReset"))
  /\ \A i \in DOMAIN ask.chain :
       sent.chain[Len(sent.chain) - Len(ask.chain) + i].type = ask.chain[i].type

\* DriverAskedRight, for every driver and every valid request of an application:
\* the driver gets the application's extensions and structures unchanged and in
\* front, with what the layer needs added once and only if the driver has it, and
\* each feature switched on in exactly one structure (create_device,
\* patch_features, relink_into).
THEOREM RequestRight == Spec => []DriverAskedRight
<1>1. IInv /\ Negotiated => DriverAskedRight
  <2> SUFFICES ASSUME IInv, Negotiated, NEW pd \in got, NEW ask \in Asks,
                      Valid(ask, instances[PHYSICAL_DEVICES[pd].instance].api_version,
                            ToSet(Gpus[pd[2]]) \cup {WatchedExt(ConfigOf(PHYSICAL_DEVICES[pd].instance))}),
                      LayerEnabled(ConfigOf(PHYSICAL_DEVICES[pd].instance), ask),
                      Accepted(PHYSICAL_DEVICES[pd], ConfigOf(PHYSICAL_DEVICES[pd].instance), ask)
               PROVE  RightRequest(ask, Gpus[pd[2]],
                        Request(PHYSICAL_DEVICES[pd], ConfigOf(PHYSICAL_DEVICES[pd].instance),
                                instances[PHYSICAL_DEVICES[pd].instance].api_version, ask))
    BY Zenon DEF DriverAskedRight, RightRequest
  <2>0. PICK context, c, config, api :
          /\ context = PHYSICAL_DEVICES[pd] /\ c = context.instance
          /\ config = ConfigOf(c) /\ api = instances[c].api_version
    OBVIOUS
  <2>1. PICK available \in {<<>>, Gpus[pd[2]]} : context = PhysicalDeviceContext(c, available)
    BY <2>0 DEF IInv, EntriesCurrent, Negotiated
  <2>2. /\ context.supports_required_extensions = SupportsRequired(available)
        /\ context.supported_optionals = Among(OPTIONAL_EXTENSIONS, ToSet(available))
    BY <2>1 DEF PhysicalDeviceContext
  <2>3. ToSet(REQUIRED_EXTENSIONS) \subseteq ToSet(available)
    BY <2>0, <2>2 DEF Accepted, SupportsRequired
  <2>4. available = Gpus[pd[2]]
    <3>1. ToSet(<<>>) = {}  BY DEF ToSet
    <3>2. available # <<>>  BY <2>3, <3>1, LayerNames
    <3>. QED  BY <2>1, <3>2
  <2>5. PICK optionals : optionals = Among(OPTIONAL_EXTENSIONS, ToSet(available))  OBVIOUS
  <2>6. PICK extensions, chain, sent :
          /\ extensions = ask.extensions \o Missing(ask.extensions, REQUIRED_EXTENSIONS)
                                         \o Missing(ask.extensions, optionals)
          /\ chain = patch_features(ask.chain, api, optionals)
          /\ sent = [extensions |-> extensions, chain |-> chain]
    OBVIOUS
  <2>7. sent = Request(context, config, api, ask)
    BY <2>0, <2>2, <2>5, <2>6 DEF Request
  <2>8. /\ ToSet(ask.extensions) \subseteq ToSet(available) \cup {WatchedExt(config)}
        /\ ValidChain(ask.chain, api)
    BY <2>0, <2>4 DEF Valid, ValidChain
  <2>9. /\ ask.extensions \in Seq(Names) /\ IsInjective(ask.extensions)
        /\ WatchedExt(config) \in {NV_LOW_LATENCY2, AMD_ANTI_LAG}
    <3>1. ask.extensions \in Seq(STRING) /\ IsInjective(ask.extensions)  BY InstancesAssumption
    <3>2. /\ ask.extensions \in [1 .. Len(ask.extensions) -> STRING]
          /\ Len(ask.extensions) \in Nat
      BY <3>1, LenProperties
    <3>3. STRING \subseteq Names  BY DEF Names
    <3>4. ask.extensions \in [1 .. Len(ask.extensions) -> Names]  BY <3>2, <3>3
    <3>5. ask.extensions \in Seq(Names)  BY <3>2, <3>4, SeqDef
    <3>. QED  BY <3>1, <3>5 DEF WatchedExt
  <2>10. RightNames(ask.extensions, available, extensions) /\ KnownOptionals(extensions, optionals)
    <3>1. PICK enabled : enabled = ask.extensions  OBVIOUS
    <3>2. ValidNames(enabled, available)  BY <2>3, <2>8, <2>9, <3>1 DEF ValidNames
    <3>3. extensions = enabled \o Missing(enabled, REQUIRED_EXTENSIONS) \o Missing(enabled, optionals)
      BY <2>6, <3>1
    <3>4. RightNames(enabled, available, extensions) /\ KnownOptionals(extensions, optionals)
      BY <2>5, <3>2, <3>3, ExtensionsSent
    <3>. QED  BY <3>1, <3>4
  <2>11. /\ ask.chain \in Structures(STRING \cup Features) /\ TypesOnce(ask.chain)
         /\ Len(ask.chain) \in Nat
    <3>1. /\ ask.chain \in Seq([type : STRING, on : BOOLEAN])
          /\ IsInjective([i \in DOMAIN ask.chain |-> ask.chain[i].type])
      BY InstancesAssumption
    <3>2. /\ ask.chain \in [1 .. Len(ask.chain) -> [type : STRING, on : BOOLEAN]]
          /\ Len(ask.chain) \in Nat /\ DOMAIN ask.chain = 1 .. Len(ask.chain)
      BY <3>1, LenProperties
    <3>3. [type : STRING, on : BOOLEAN] \subseteq [type : STRING \cup Features, on : BOOLEAN]
      OBVIOUS
    <3>4. ask.chain \in [1 .. Len(ask.chain) -> [type : STRING \cup Features, on : BOOLEAN]]
      BY <3>2, <3>3
    <3>5. ask.chain \in Seq([type : STRING \cup Features, on : BOOLEAN])
      <4>1. PICK R : R = [type : STRING \cup Features, on : BOOLEAN]  OBVIOUS
      <4>2. ask.chain \in [1 .. Len(ask.chain) -> R]  BY <3>4, <4>1
      <4>3. ask.chain \in Seq(R)  BY <3>2, <4>2, SeqDef
      <4>. QED  BY <4>1, <4>3
    <3>6. TypesOnce(ask.chain)  BY <3>1, <3>2 DEF IsInjective, TypesOnce
    <3>. QED  BY <3>2, <3>5, <3>6 DEF Structures
  <2>12. RightChain(ask.chain, chain) /\ RightOptionals(optionals, chain)
    <3>1. PICK E, given : E = STRING \cup Features /\ given = ask.chain  OBVIOUS
    <3>2. Features \subseteq E /\ given \in Structures(E) /\ TypesOnce(given)  BY <2>11, <3>1
    <3>3. ValidChain(given, api) /\ chain = patch_features(given, api, optionals)
      BY <2>6, <2>8, <3>1
    <3>4. RightChain(given, chain) /\ RightOptionals(optionals, chain)
      BY <3>2, <3>3, ChainSent
    <3>. QED  BY <3>1, <3>4
  <2>13. sent.extensions = extensions /\ sent.chain = chain  BY <2>6
  <2>14. /\ Contains(extensions, "present_id") => Cardinality(On(chain, {"PresentId"})) = 1
         /\ Contains(extensions, "present_wait") => Cardinality(On(chain, {"PresentWait"})) = 1
    BY <2>10, <2>12 DEF KnownOptionals, RightOptionals
  <2>15. RightNames(ask.extensions, Gpus[pd[2]], sent.extensions) /\ RightChain(ask.chain, sent.chain)
    BY <2>4, <2>10, <2>12, <2>13
  <2>16. RightRequest(ask, Gpus[pd[2]], sent)
    BY <2>13, <2>14, <2>15 DEF RightRequest, RightNames, RightChain
  <2>. QED  BY <2>0, <2>7, <2>16
<1>. QED  BY Invariance, NegotiatedKept, <1>1, PTL
=============================================================================
