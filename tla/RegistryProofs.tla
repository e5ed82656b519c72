---------------------------- MODULE RegistryProofs ----------------------------
(***************************************************************************)
(* For any number of handles, threads, devices and contexts: a device      *)
(* handle leads to the device that has it, and a queue works from the time *)
(* the application has got it to the end of its device.  The bounds are    *)
(* guards and play no part.                                                *)
(***************************************************************************)
EXTENDS Registry, SequenceTheorems, TLAPS

USE RegistryAssumption

Created == 1 .. Len(devices)
Made == 1 .. Len(contexts)
Getting == {"got", "made", "inserted"}
Alone == {"created", "removed", "cleared", "swept"}

\* Two devices of one time, or of one run if no handle is used again, have
\* different handles and different queues.
Distinct ==
  \A c, e \in Created :
    (c # e /\ (~reused \/ (c \in live /\ e \in live))) =>
      HandleOf(c) # HandleOf(e) /\ QueueOf(c) # QueueOf(e)

\* A thread in a call is at a device of the driver's, with the contexts and
\* entries that its step says.
Calls ==
  \A t \in Threads :
    /\ call[t].dev = 0 <=> call[t].step = "idle"
    /\ call[t].dev # 0 => call[t].dev \in live
    /\ call[t].step \in {"made", "inserted"} =>
         call[t].ctx \in Made /\ contexts[call[t].ctx] = call[t].dev
    /\ call[t].step \in Getting => DEVICES[HandleOf(call[t].dev)] = call[t].dev
    /\ call[t].step \in Alone => DEVICES[HandleOf(call[t].dev)] = 0
    /\ call[t].step \in {"cleared", "swept"} => queues[call[t].dev] = 0
    /\ call[t].step = "inserted" => QUEUES[QueueOf(call[t].dev)] # 0

\* Threads at one device all get its queue, and then only if they may.
TogetherOnlyToGet ==
  \A t, u \in Threads :
    (t # u /\ call[t].dev = call[u].dev /\ call[t].dev # 0) => shared /\ call[t].step \in Getting

\* A queue's entry is a context of a device that has, or had, the queue.
QueueEntries == \A q \in QueueHandles : QUEUES[q] # 0 => QueueOf(contexts[QUEUES[q]]) = q

NotYet == \A c \in Device : c > Len(devices) => queues[c] = 0

\* A registration, or a destruction, is between its two map operations.
Between(c) == \E t \in Threads : call[t].dev = c /\ call[t].step \in {"inserted", "cleared", "swept"}

Agree ==
  (~reused /\ ~shared) =>
    /\ \A c \in live : ~Between(c) => QUEUES[QueueOf(c)] = queues[c]
    /\ \A t \in Threads : call[t].step = "inserted" => QUEUES[QueueOf(call[t].dev)] = call[t].ctx

\* Once the device is idle, its contexts stay so.
Drained ==
  ~reused => \A t \in Threads : call[t].step \in {"cleared", "swept"} => DeviceIdle(call[t].dev)

IInv == /\ TypeOK /\ Distinct /\ Calls /\ TogetherOnlyToGet /\ QueueEntries /\ NotYet
        /\ Agree /\ Drained /\ DeviceEntryCurrent /\ QueueKnown /\ DestroyedIdle

-----------------------------------------------------------------------------
LEMMA InitSound == Init => IInv
<1> SUFFICES ASSUME Init PROVE IInv
  OBVIOUS
<1>1. devices = <<>> /\ contexts = <<>> /\ Len(devices) = 0 /\ Len(contexts) = 0
  BY EmptySeq DEF Init
<1>2. TypeOK
  BY <1>1, EmptySeq DEF Init, TypeOK, Idle, Device
<1> QED BY <1>1, <1>2 DEF Init, IInv, Distinct, Calls, TogetherOnlyToGet, QueueEntries, NotYet,
      Agree, Drained, Created, Idle, Getting, Alone, DeviceEntryCurrent, QueueKnown, DestroyedIdle, Between, Device

LEMMA Typing ==
  ASSUME TypeOK
  PROVE  /\ Len(devices) \in Nat /\ Len(contexts) \in Nat
         /\ live \subseteq Created /\ given \subseteq live /\ 0 \notin Created /\ 0 \notin Made
         /\ \A c \in Created : HandleOf(c) \in DeviceHandles /\ QueueOf(c) \in QueueHandles /\ c \in Device
         /\ \A x \in Made : contexts[x] \in Created
         /\ \A t \in Threads : /\ call[t].dev \in 0 .. Len(devices) /\ call[t].ctx \in 0 .. Len(contexts)
                               /\ call[t].dev # 0 => call[t].dev \in Created
                               /\ call[t].step \in {"idle"} \cup Getting \cup Alone
<1>1. Len(devices) \in Nat /\ Len(contexts) \in Nat
  BY LenProperties DEF TypeOK
<1>2. ASSUME NEW c \in Created
      PROVE  HandleOf(c) \in DeviceHandles /\ QueueOf(c) \in QueueHandles /\ c \in Device
  <2>1. devices[c] \in [handle : DeviceHandles, queue : QueueHandles, layer_enabled : BOOLEAN]
    BY ElementOfSeq DEF TypeOK, Created
  <2> QED BY <1>1, <2>1 DEF TypeOK, Created, Device, HandleOf, QueueOf
<1>3. \A x \in Made : contexts[x] \in Created
  BY ElementOfSeq DEF TypeOK, Created, Made
<1>4. ASSUME NEW t \in Threads
      PROVE  /\ call[t].dev \in 0 .. Len(devices) /\ call[t].ctx \in 0 .. Len(contexts)
             /\ call[t].dev # 0 => call[t].dev \in Created
             /\ call[t].step \in {"idle"} \cup Getting \cup Alone
  BY <1>1 DEF TypeOK, Created, Getting, Alone
<1>5. live \subseteq Created /\ given \subseteq live
  BY DEF TypeOK, Created
<1>6. 0 \notin Created /\ 0 \notin Made
  BY DEF Created, Made
<1> QED BY <1>1, <1>2, <1>3, <1>4, <1>5, <1>6

\* What a call's step leaves: the thread's own record changes.
LEMMA Entered ==
  ASSUME TypeOK, NEW t \in Threads, NEW s, NEW c, NEW x, Enter(t, s, c, x)
  PROVE  \A u \in Threads : /\ call'[u].step = IF u = t THEN s ELSE call[u].step
                            /\ call'[u].dev = IF u = t THEN c ELSE call[u].dev
                            /\ call'[u].ctx = IF u = t THEN x ELSE call[u].ctx
BY DEF TypeOK, Enter

LEMMA Returned ==
  ASSUME TypeOK, NEW t \in Threads, Return(t)
  PROVE  \A u \in Threads : /\ call'[u].step = IF u = t THEN "idle" ELSE call[u].step
                            /\ call'[u].dev = IF u = t THEN 0 ELSE call[u].dev
                            /\ call'[u].ctx = IF u = t THEN 0 ELSE call[u].ctx
BY DEF TypeOK, Return, Idle

LEMMA CallsTyped ==
  ASSUME TypeOK, NEW t \in Threads, NEW n \in Nat, NEW m \in Nat, n >= Len(devices), m >= Len(contexts),
         NEW s \in {"idle"} \cup Getting \cup Alone, NEW c \in 0 .. n, NEW x \in 0 .. m,
         call' = [call EXCEPT ![t] = [step |-> s, dev |-> c, ctx |-> x]]
  PROVE  call' \in [Threads -> [step : {"idle", "created", "got", "made", "inserted",
                                        "removed", "cleared", "swept"},
                                dev : 0 .. n, ctx : 0 .. m]]
<1>1. call \in [Threads -> [step : {"idle", "created", "got", "made", "inserted",
                                    "removed", "cleared", "swept"},
                            dev : 0 .. Len(devices), ctx : 0 .. Len(contexts)]]
  BY DEF TypeOK
<1>2. Len(devices) \in Nat /\ Len(contexts) \in Nat
  BY Typing
<1>3. ASSUME NEW u \in Threads
      PROVE call'[u] \in [step : {"idle", "created", "got", "made", "inserted",
                                  "removed", "cleared", "swept"}, dev : 0 .. n, ctx : 0 .. m]
  <2>1. CASE u = t
    BY <1>1, <2>1 DEF Getting, Alone
  <2>2. CASE u # t
    <3>1. call'[u] = call[u]
      BY <1>1, <2>2
    <3>2. 0 .. Len(devices) \subseteq 0 .. n /\ 0 .. Len(contexts) \subseteq 0 .. m
      BY <1>2
    <3> QED BY <1>1, <3>1, <3>2
  <2> QED BY <2>1, <2>2
<1> QED BY <1>1, <1>3

LEMMA ReturnTyped ==
  ASSUME TypeOK, NEW t \in Threads, Return(t)
  PROVE  call' \in [Threads -> [step : {"idle", "created", "got", "made", "inserted",
                                        "removed", "cleared", "swept"},
                                dev : 0 .. Len(devices), ctx : 0 .. Len(contexts)]]
<1>1. call' = [call EXCEPT ![t] = [step |-> "idle", dev |-> 0, ctx |-> 0]]
  BY DEF Return, Idle
<1>2. /\ Len(devices) \in Nat /\ Len(contexts) \in Nat
      /\ Len(devices) >= Len(devices) /\ Len(contexts) >= Len(contexts)
      /\ 0 \in 0 .. Len(devices) /\ 0 \in 0 .. Len(contexts)
  BY Typing
<1> QED BY <1>1, <1>2, CallsTyped

LEMMA EnterTyped ==
  ASSUME TypeOK, NEW t \in Threads, NEW s \in Getting \cup Alone, NEW c \in Created, NEW x \in 0 .. Len(contexts),
         Enter(t, s, c, x)
  PROVE  call' \in [Threads -> [step : {"idle", "created", "got", "made", "inserted",
                                        "removed", "cleared", "swept"},
                                dev : 0 .. Len(devices), ctx : 0 .. Len(contexts)]]
<1>1. call' = [call EXCEPT ![t] = [step |-> s, dev |-> c, ctx |-> x]]
  BY DEF Enter
<1>2. /\ Len(devices) \in Nat /\ Len(contexts) \in Nat
      /\ Len(devices) >= Len(devices) /\ Len(contexts) >= Len(contexts)
      /\ c \in 0 .. Len(devices)
  BY Typing DEF Created
<1> QED BY <1>1, <1>2, CallsTyped

-----------------------------------------------------------------------------
(* One lemma per action. *)

LEMMA CreateKeeps ==
  ASSUME IInv, NEW t \in Threads, NEW d \in DeviceHandles, NEW q \in QueueHandles, NEW e \in BOOLEAN,
         CreateDevice(t, d, q, e)
  PROVE  IInv'
<1> PICK n, r : n = Len(devices) + 1 /\ r = [handle |-> d, queue |-> q, layer_enabled |-> e]
  OBVIOUS
<1>1. /\ call[t].step = "idle" /\ n <= MaxDevices /\ FreeFor(HandleOf, d) /\ FreeFor(QueueOf, q)
      /\ devices' = Append(devices, r) /\ live' = live \cup {n}
      /\ Enter(t, "created", n, 0)
      /\ UNCHANGED <<reused, shared, busy, contexts, DEVICES, QUEUES, queues, given, refused>>
  BY Typing DEF CreateDevice, InCall, envVars, mapVars, appVars, IInv
<1>2. /\ n \in Nat \ {0} /\ Len(devices) = n - 1 /\ Created = 1 .. n - 1 /\ n \in Device
  BY <1>1, Typing DEF IInv, Created, Device
<1>3. /\ devices' \in Seq([handle : DeviceHandles, queue : QueueHandles, layer_enabled : BOOLEAN])
      /\ Len(devices') = n /\ Created' = 1 .. n /\ Created' = Created \cup {n} /\ n \notin Created
      /\ devices'[n] = r /\ \A c \in Created : devices'[c] = devices[c]
  <2>1. r \in [handle : DeviceHandles, queue : QueueHandles, layer_enabled : BOOLEAN]
    OBVIOUS
  <2>2. devices \in Seq([handle : DeviceHandles, queue : QueueHandles, layer_enabled : BOOLEAN])
    BY DEF IInv, TypeOK
  <2>3. /\ Append(devices, r) \in Seq([handle : DeviceHandles, queue : QueueHandles, layer_enabled : BOOLEAN])
        /\ Len(Append(devices, r)) = n /\ Append(devices, r)[n] = r
        /\ \A c \in 1 .. Len(devices) : Append(devices, r)[c] = devices[c]
    BY <2>1, <2>2, AppendProperties
  <2> QED BY <1>1, <1>2, <2>3 DEF Created
<1>4. /\ \A c \in Created : HandleOf(c)' = HandleOf(c) /\ QueueOf(c)' = QueueOf(c)
      /\ HandleOf(n)' = d /\ QueueOf(n)' = q
  BY <1>3 DEF HandleOf, QueueOf
<1>5. \A u \in Threads : /\ call'[u].step = IF u = t THEN "created" ELSE call[u].step
                         /\ call'[u].dev = IF u = t THEN n ELSE call[u].dev
                         /\ call'[u].ctx = IF u = t THEN 0 ELSE call[u].ctx
  BY <1>1, Entered DEF IInv
<1>6. live \subseteq Created /\ n \notin live /\ given \subseteq live
  BY <1>2 DEF IInv, TypeOK, Created
<1>7. \A u \in Threads : call[u].dev # n
  BY <1>2, Typing DEF IInv
<1>8. TypeOK'
  <2>1. call' \in [Threads -> [step : {"idle", "created", "got", "made", "inserted",
                                       "removed", "cleared", "swept"},
                               dev : 0 .. n, ctx : 0 .. Len(contexts)]]
    <3>1. /\ n \in Nat /\ n >= Len(devices) /\ n \in 0 .. n /\ 0 \in 0 .. Len(contexts)
          /\ Len(contexts) \in Nat /\ Len(contexts) >= Len(contexts)
          /\ "created" \in {"idle"} \cup Getting \cup Alone
      BY <1>2, Typing DEF IInv, Alone
    <3>2. call' = [call EXCEPT ![t] = [step |-> "created", dev |-> n, ctx |-> 0]]
      BY <1>1 DEF Enter
    <3> QED BY <3>1, <3>2, CallsTyped DEF IInv
  <2>2. contexts \in Seq(1 .. n)
    <3>1. contexts \in Seq(Created) /\ Created \subseteq 1 .. n
      BY <1>2, <1>3 DEF IInv, TypeOK, Created
    <3>2. Len(contexts) \in Nat /\ contexts \in [1 .. Len(contexts) -> Created]
      BY <3>1, LenProperties
    <3>3. contexts \in [1 .. Len(contexts) -> 1 .. n]
      BY <3>1, <3>2
    <3> QED BY <3>2, <3>3, SeqDef
  <2>3. DEVICES \in [DeviceHandles -> 0 .. n]
    BY <1>2 DEF IInv, TypeOK
  <2> QED BY <1>1, <1>3, <2>1, <2>2, <2>3 DEF IInv, TypeOK, Created
<1>9. Distinct'
  <2>1. ASSUME NEW c \in Created, ~reused \/ c \in live
        PROVE  HandleOf(c) # d /\ QueueOf(c) # q
    BY <1>1, <2>1 DEF FreeFor, Created
  <2> SUFFICES ASSUME NEW c \in Created', NEW b \in Created', c # b,
                      ~reused \/ (c \in live' /\ b \in live')
               PROVE  HandleOf(c)' # HandleOf(b)' /\ QueueOf(c)' # QueueOf(b)'
    BY <1>1 DEF Distinct
  <2> QED BY <1>1, <1>3, <1>4, <2>1 DEF IInv, Distinct
<1>10. DEVICES[d] = 0
  <2>1. DEVICES[d] # 0 => DEVICES[d] \in live /\ HandleOf(DEVICES[d]) = d
    BY DEF IInv, DeviceEntryCurrent
  <2> QED BY <1>1, <1>6, <2>1 DEF FreeFor, Created
<1>11. QUEUES[q] # 0 => reused
  <2>1. QUEUES[q] # 0 => contexts[QUEUES[q]] \in Created /\ QueueOf(contexts[QUEUES[q]]) = q
    <3>1. QUEUES[q] # 0 => QUEUES[q] \in Made
      BY Typing DEF IInv, TypeOK, Made
    <3> QED BY <3>1, Typing DEF IInv, QueueEntries
  <2> QED BY <1>1, <2>1 DEF FreeFor, Created
<1>12. queues[n] = 0
  BY <1>2 DEF IInv, NotYet
<1>13. Calls'
  <2> SUFFICES ASSUME NEW u \in Threads
               PROVE  /\ call'[u].dev = 0 <=> call'[u].step = "idle"
                      /\ call'[u].dev # 0 => call'[u].dev \in live'
                      /\ call'[u].step \in {"made", "inserted"} =>
                           call'[u].ctx \in Made' /\ contexts'[call'[u].ctx] = call'[u].dev
                      /\ call'[u].step \in Getting => DEVICES'[HandleOf(call[u].dev)'] = call'[u].dev
                      /\ call'[u].step \in Alone => DEVICES'[HandleOf(call[u].dev)'] = 0
                      /\ call'[u].step \in {"cleared", "swept"} => queues'[call'[u].dev] = 0
                      /\ call'[u].step = "inserted" => QUEUES'[QueueOf(call[u].dev)'] # 0
    BY DEF Calls
  <2>1. CASE u = t
    <3>1. HandleOf(call[u].dev)' = d
      BY <1>4, <1>5, <2>1 DEF HandleOf
    <3> QED BY <1>1, <1>2, <1>5, <1>10, <2>1, <3>1 DEF Getting
  <2>2. CASE u # t
    <3>1. call[u].dev # 0 => /\ HandleOf(call[u].dev)' = HandleOf(call[u].dev)
                             /\ QueueOf(call[u].dev)' = QueueOf(call[u].dev)
      BY <1>4, <1>5, <2>2, Typing DEF IInv, HandleOf, QueueOf
    <3>2. Made' = Made
      BY <1>1 DEF Made
    <3> QED BY <1>1, <1>5, <2>2, <3>1, <3>2 DEF IInv, Calls, Getting, Alone
  <2> QED BY <2>1, <2>2
<1>14. TogetherOnlyToGet'
  BY <1>1, <1>5, <1>7 DEF IInv, TogetherOnlyToGet
<1>15. QueueEntries'
  <2> SUFFICES ASSUME NEW p \in QueueHandles, QUEUES[p] # 0 PROVE QueueOf(contexts[QUEUES[p]])' = p
    BY <1>1 DEF QueueEntries
  <2>1. contexts[QUEUES[p]] \in Created /\ QueueOf(contexts[QUEUES[p]]) = p
    <3>1. QUEUES[p] \in Made
      BY Typing DEF IInv, TypeOK, Made
    <3> QED BY <3>1, Typing DEF IInv, QueueEntries
  <2> QED BY <1>1, <1>4, <2>1 DEF QueueOf
<1>16. NotYet'
  BY <1>1, <1>2, <1>3 DEF IInv, NotYet, Device
<1>17. Agree'
  <2> SUFFICES ASSUME ~reused, ~shared PROVE Agree'
    BY <1>1 DEF Agree
  <2>1. ASSUME NEW c \in live', ~Between(c)' PROVE QUEUES[QueueOf(c)'] = queues[c]
    <3>1. CASE c = n
      BY <1>2, <1>4, <1>11, <1>12, <3>1
    <3>2. CASE c # n
      <4>1. c \in live /\ c \in Created
        BY <1>1, <1>6, <2>1, <3>2
      <4>2. ~Between(c)
        BY <1>1, <1>5, <2>1 DEF Between
      <4> QED BY <1>4, <4>1, <4>2 DEF IInv, Agree
    <3> QED BY <3>1, <3>2
  <2>2. ASSUME NEW u \in Threads, call'[u].step = "inserted"
        PROVE  QUEUES[QueueOf(call[u].dev)'] = call'[u].ctx
    <3>1. u # t /\ call[u].step = "inserted" /\ call[u].dev \in Created /\ call'[u].dev = call[u].dev
      BY <1>5, <2>2, Typing DEF IInv, Calls
    <3>2. QueueOf(call[u].dev)' = QueueOf(call[u].dev)
      BY <1>4, <3>1 DEF QueueOf
    <3> QED BY <1>5, <3>1, <3>2 DEF IInv, Agree
  <2> QED BY <1>1, <2>1, <2>2 DEF Agree
<1>18. Drained'
  BY <1>1, <1>5 DEF IInv, Drained, DeviceIdle
<1>19. DeviceEntryCurrent'
  <2> SUFFICES ASSUME NEW h \in DeviceHandles, DEVICES[h] # 0
               PROVE  DEVICES[h] \in live' /\ HandleOf(DEVICES[h])' = h
    BY <1>1 DEF DeviceEntryCurrent
  <2>1. DEVICES[h] \in live /\ HandleOf(DEVICES[h]) = h
    BY DEF IInv, DeviceEntryCurrent
  <2> QED BY <1>1, <1>4, <1>6, <2>1 DEF HandleOf
<1>20. QueueKnown'
  BY <1>1, <1>4, <1>6 DEF IInv, QueueKnown
<1>21. DestroyedIdle'
  BY <1>1 DEF IInv, DestroyedIdle
<1> QED BY <1>8, <1>9, <1>13, <1>14, <1>15, <1>16, <1>17, <1>18, <1>19, <1>20, <1>21 DEF IInv

\* A step that creates no device leaves the handles of each as they were.
LEMMA SameHandles ==
  ASSUME UNCHANGED devices
  PROVE  /\ \A c : HandleOf(c)' = HandleOf(c) /\ QueueOf(c)' = QueueOf(c)
         /\ Created' = Created
BY DEF HandleOf, QueueOf, Created

LEMMA InsertDeviceKeeps ==
  ASSUME IInv, NEW t \in Threads, InsertDevice(t)
  PROVE  IInv'
<1> PICK c : c = call[t].dev
  OBVIOUS
<1> PICK d : d = HandleOf(c)
  OBVIOUS
<1>1. /\ call[t].step = "created" /\ DEVICES' = [DEVICES EXCEPT ![d] = c] /\ Return(t)
      /\ UNCHANGED <<reused, shared, devices, live, busy, contexts, QUEUES, queues, given, refused>>
  BY DEF InsertDevice, InCall, envVars, driverVars, appVars
<1>2. c \in live /\ c \in Created /\ d \in DeviceHandles /\ live \subseteq Created
  BY <1>1, Typing DEF IInv, Calls, TypeOK, Created
<1>3. \A u \in Threads : /\ call'[u].step = IF u = t THEN "idle" ELSE call[u].step
                         /\ call'[u].dev = IF u = t THEN 0 ELSE call[u].dev
                         /\ call'[u].ctx = IF u = t THEN 0 ELSE call[u].ctx
  BY <1>1, Returned DEF IInv
<1>4. \A e \in DeviceHandles : DEVICES'[e] = IF e = d THEN c ELSE DEVICES[e]
  BY <1>1 DEF IInv, TypeOK
<1>5. TypeOK'
  <2>1. DEVICES' \in [DeviceHandles -> 0 .. Len(devices)]
    BY <1>1, <1>2 DEF IInv, TypeOK, Created
  <2>2. call' \in [Threads -> [step : {"idle", "created", "got", "made", "inserted",
                                       "removed", "cleared", "swept"},
                               dev : 0 .. Len(devices), ctx : 0 .. Len(contexts)]]
    BY <1>1, ReturnTyped DEF IInv
  <2> QED BY <1>1, <2>1, <2>2 DEF IInv, TypeOK
<1>6. /\ \A e : HandleOf(e)' = HandleOf(e) /\ QueueOf(e)' = QueueOf(e)
      /\ Created' = Created
  BY <1>1, SameHandles
<1>7. Distinct'
  BY <1>1, <1>6 DEF IInv, Distinct
<1>8. \A u \in Threads : u # t => call[u].dev # c
  BY <1>1, <1>2, Typing DEF IInv, TogetherOnlyToGet, Calls, Getting
<1>9. Calls'
  <2> SUFFICES ASSUME NEW u \in Threads, u # t
               PROVE  /\ call[u].dev = 0 <=> call[u].step = "idle"
                      /\ call[u].dev # 0 => call[u].dev \in live
                      /\ call[u].step \in {"made", "inserted"} =>
                           call[u].ctx \in Made /\ contexts[call[u].ctx] = call[u].dev
                      /\ call[u].step \in Getting => DEVICES'[HandleOf(call[u].dev)] = call[u].dev
                      /\ call[u].step \in Alone => DEVICES'[HandleOf(call[u].dev)] = 0
                      /\ call[u].step \in {"cleared", "swept"} => queues[call[u].dev] = 0
                      /\ call[u].step = "inserted" => QUEUES[QueueOf(call[u].dev)] # 0
    BY <1>1, <1>3 DEF Calls, Made, HandleOf, QueueOf, Getting, Alone
  <2>1. call[u].dev # 0 => HandleOf(call[u].dev) # d /\ HandleOf(call[u].dev) \in DeviceHandles
    BY <1>2, <1>8, Typing DEF IInv, Calls, Distinct
  <2>2. call[u].step \in Getting \cup Alone => call[u].dev # 0
    BY DEF IInv, Calls, Getting, Alone
  <2> QED BY <1>4, <2>1, <2>2 DEF IInv, Calls, Getting, Alone
<1>10. TogetherOnlyToGet'
  BY <1>1, <1>3 DEF IInv, TogetherOnlyToGet
<1>11. QueueEntries' /\ NotYet' /\ QueueKnown' /\ DestroyedIdle'
  BY <1>1, <1>6 DEF IInv, QueueEntries, NotYet, QueueKnown, DestroyedIdle, QueueOf
<1>12. Agree'
  <2> SUFFICES ASSUME ~reused, ~shared PROVE Agree'
    BY <1>1 DEF Agree
  <2>1. \A e : Between(e)' <=> Between(e)
    BY <1>1, <1>3 DEF Between
  <2> QED BY <1>1, <1>3, <2>1 DEF IInv, Agree, QueueOf
<1>13. Drained'
  BY <1>1, <1>3 DEF IInv, Drained, DeviceIdle
<1>14. DeviceEntryCurrent'
  BY <1>1, <1>2, <1>4, <1>6 DEF IInv, DeviceEntryCurrent, HandleOf
<1> QED BY <1>5, <1>7, <1>9, <1>10, <1>11, <1>12, <1>13, <1>14 DEF IInv

\* The application asks for the queue of a device.
LEMMA GetQueueKeeps ==
  ASSUME IInv, NEW t \in Threads, NEW c \in Created, GetQueue(t, c)
  PROVE  IInv'
<1>1. /\ call[t].step = "idle" /\ c \in live /\ DEVICES[HandleOf(c)] # 0 /\ ~Destroying(c)
      /\ shared \/ Unused(c)
      /\ Enter(t, "got", DEVICES[HandleOf(c)], 0)
      /\ UNCHANGED <<reused, shared, devices, live, busy, contexts, DEVICES, QUEUES, queues, given, refused>>
  BY DEF GetQueue, InCall, envVars, driverVars, mapVars, appVars
<1>2. DEVICES[HandleOf(c)] = c
  <2> PICK e : e = DEVICES[HandleOf(c)]
    OBVIOUS
  <2>1. e \in live /\ HandleOf(e) = HandleOf(c) /\ live \subseteq Created
    BY <1>1, Typing DEF IInv, DeviceEntryCurrent, TypeOK, Created
  <2> QED BY <1>1, <2>1 DEF IInv, Distinct
<1>3. \A u \in Threads : /\ call'[u].step = IF u = t THEN "got" ELSE call[u].step
                         /\ call'[u].dev = IF u = t THEN c ELSE call[u].dev
                         /\ call'[u].ctx = IF u = t THEN 0 ELSE call[u].ctx
  BY <1>1, <1>2, Entered DEF IInv
<1>4. TypeOK'
  <2>1. "got" \in Getting \cup Alone /\ 0 \in 0 .. Len(contexts)
    BY Typing DEF Getting, IInv
  <2>2. call' \in [Threads -> [step : {"idle", "created", "got", "made", "inserted",
                                       "removed", "cleared", "swept"},
                               dev : 0 .. Len(devices), ctx : 0 .. Len(contexts)]]
    BY <1>1, <1>2, <2>1, EnterTyped DEF IInv
  <2> QED BY <1>1, <2>2 DEF IInv, TypeOK
<1>5. /\ \A e : HandleOf(e)' = HandleOf(e) /\ QueueOf(e)' = QueueOf(e)
      /\ Created' = Created /\ c # 0
  BY <1>1, SameHandles DEF Created
<1>6. Distinct' /\ QueueEntries' /\ NotYet' /\ DeviceEntryCurrent' /\ QueueKnown' /\ DestroyedIdle'
  BY <1>1, <1>5 DEF IInv, Distinct, QueueEntries, NotYet, DeviceEntryCurrent, QueueKnown, DestroyedIdle,
    QueueOf, HandleOf
<1>7. Calls'
  BY <1>1, <1>2, <1>3, <1>5 DEF IInv, Calls, Made, HandleOf, QueueOf, Getting, Alone
<1>8. TogetherOnlyToGet'
  <2>1. ASSUME NEW u \in Threads, u # t, call[u].dev = c PROVE shared /\ call[u].step \in Getting
    <3>1. shared
      BY <1>1, <2>1 DEF Unused
    <3>2. call[u].step # "idle" /\ call[u].step \notin Alone
      BY <1>1, <1>2, <1>5, <2>1 DEF IInv, Calls
    <3> QED BY <3>1, <3>2, Typing DEF IInv
  <2> QED BY <1>1, <1>3, <2>1 DEF IInv, TogetherOnlyToGet, Getting
<1>9. Agree'
  <2>1. \A e : Between(e)' <=> Between(e)
    BY <1>1, <1>3 DEF Between
  <2> QED BY <1>1, <1>3, <2>1 DEF IInv, Agree, QueueOf
<1>10. Drained'
  BY <1>1, <1>3 DEF IInv, Drained, DeviceIdle
<1> QED BY <1>4, <1>6, <1>7, <1>8, <1>9, <1>10 DEF IInv

\* A call returns the queue, which is known or has no context.
LEMMA QueueGivenKeeps ==
  ASSUME IInv, NEW t \in Threads, AlreadyRegistered(t) \/ QueueContextFails(t)
  PROVE  IInv'
<1> PICK c : c = call[t].dev
  OBVIOUS
<1>1. /\ call[t].step = "got" /\ Return(t) /\ given' = given \cup {c}
      /\ UNCHANGED <<reused, shared, devices, live, busy, contexts, DEVICES, QUEUES, queues>>
      /\ \/ QUEUES[QueueOf(c)] # 0 /\ refused' = refused
         \/ refused' = refused \cup {c}
  BY DEF AlreadyRegistered, QueueContextFails, InCall, envVars, driverVars, mapVars
<1>2. c \in live
  BY <1>1 DEF IInv, Calls
<1>3. \A u \in Threads : /\ call'[u].step = IF u = t THEN "idle" ELSE call[u].step
                         /\ call'[u].dev = IF u = t THEN 0 ELSE call[u].dev
                         /\ call'[u].ctx = IF u = t THEN 0 ELSE call[u].ctx
  BY <1>1, Returned DEF IInv
<1>4. TypeOK'
  <2>1. call' \in [Threads -> [step : {"idle", "created", "got", "made", "inserted",
                                       "removed", "cleared", "swept"},
                               dev : 0 .. Len(devices), ctx : 0 .. Len(contexts)]]
    BY <1>1, ReturnTyped DEF IInv
  <2> QED BY <1>1, <1>2, <2>1 DEF IInv, TypeOK
<1>5. /\ \A e : HandleOf(e)' = HandleOf(e) /\ QueueOf(e)' = QueueOf(e)
      /\ Created' = Created
  BY <1>1, SameHandles
<1>6. Distinct' /\ QueueEntries' /\ NotYet' /\ DeviceEntryCurrent' /\ DestroyedIdle'
  BY <1>1, <1>5 DEF IInv, Distinct, QueueEntries, NotYet, DeviceEntryCurrent, DestroyedIdle,
    QueueOf, HandleOf
<1>7. QueueKnown'
  BY <1>1, <1>5 DEF IInv, QueueKnown, QueueOf
<1>8. Calls'
  BY <1>1, <1>3 DEF IInv, Calls, Made, HandleOf, QueueOf, Getting, Alone
<1>9. TogetherOnlyToGet'
  BY <1>1, <1>3 DEF IInv, TogetherOnlyToGet
<1>10. Agree'
  <2>1. \A e : Between(e)' <=> Between(e)
    BY <1>1, <1>3 DEF Between
  <2> QED BY <1>1, <1>3, <2>1 DEF IInv, Agree, QueueOf
<1>11. Drained'
  BY <1>1, <1>3 DEF IInv, Drained, DeviceIdle
<1> QED BY <1>4, <1>6, <1>7, <1>8, <1>9, <1>10, <1>11 DEF IInv

LEMMA NewQueueContextKeeps ==
  ASSUME IInv, NEW t \in Threads, NewQueueContext(t)
  PROVE  IInv'
<1> PICK c, x : c = call[t].dev /\ x = Len(contexts) + 1
  OBVIOUS
<1>1. /\ call[t].step = "got" /\ Len(contexts) < MaxContexts
      /\ contexts' = Append(contexts, c) /\ Enter(t, "made", c, x)
      /\ UNCHANGED <<reused, shared, devices, live, busy, DEVICES, QUEUES, queues, given, refused>>
  BY DEF NewQueueContext, InCall, envVars, driverVars, mapVars, appVars
<1>2. c \in live /\ c \in Created /\ c # 0
  BY <1>1, Typing DEF IInv, Calls
<1>3. /\ contexts' \in Seq(1 .. Len(devices)) /\ Len(contexts') = x /\ x \in Nat \ {0} /\ x <= MaxContexts
      /\ Made = 1 .. x - 1 /\ Made' = 1 .. x
      /\ contexts'[x] = c /\ \A y \in Made : contexts'[y] = contexts[y]
  <2>1. contexts \in Seq(1 .. Len(devices)) /\ c \in 1 .. Len(devices) /\ Len(contexts) \in Nat
    BY <1>2, Typing DEF IInv, TypeOK, Created
  <2>2. /\ Append(contexts, c) \in Seq(1 .. Len(devices)) /\ Len(Append(contexts, c)) = x
        /\ Append(contexts, c)[x] = c
        /\ \A y \in 1 .. Len(contexts) : Append(contexts, c)[y] = contexts[y]
    BY <2>1, AppendProperties
  <2> QED BY <1>1, <2>1, <2>2 DEF Made
<1>4. \A u \in Threads : /\ call'[u].step = IF u = t THEN "made" ELSE call[u].step
                         /\ call'[u].dev = IF u = t THEN c ELSE call[u].dev
                         /\ call'[u].ctx = IF u = t THEN x ELSE call[u].ctx
  BY <1>1, Entered DEF IInv
<1>5. TypeOK'
  <2>1. call' \in [Threads -> [step : {"idle", "created", "got", "made", "inserted",
                                       "removed", "cleared", "swept"},
                               dev : 0 .. Len(devices), ctx : 0 .. x]]
    <3>1. /\ Len(devices) \in Nat /\ Len(devices) >= Len(devices) /\ c \in 0 .. Len(devices)
          /\ x >= Len(contexts) /\ x \in 0 .. x /\ "made" \in {"idle"} \cup Getting \cup Alone
      BY <1>2, <1>3, Typing DEF IInv, Created, Getting
    <3>2. call' = [call EXCEPT ![t] = [step |-> "made", dev |-> c, ctx |-> x]]
      BY <1>1 DEF Enter
    <3> QED BY <1>3, <3>1, <3>2, CallsTyped DEF IInv
  <2>2. QUEUES \in [QueueHandles -> 0 .. x] /\ queues \in [Device -> 0 .. x] /\ busy \subseteq 1 .. x
    <3>1. 0 .. Len(contexts) \subseteq 0 .. x /\ 1 .. Len(contexts) \subseteq 1 .. x
      BY <1>3, Typing DEF IInv
    <3>2. /\ QUEUES \in [QueueHandles -> 0 .. Len(contexts)] /\ queues \in [Device -> 0 .. Len(contexts)]
          /\ busy \subseteq 1 .. Len(contexts)
      BY DEF IInv, TypeOK
    <3> QED BY <3>1, <3>2
  <2> QED BY <1>1, <1>3, <2>1, <2>2 DEF IInv, TypeOK
<1>6. /\ \A e : HandleOf(e)' = HandleOf(e) /\ QueueOf(e)' = QueueOf(e)
      /\ Created' = Created
  BY <1>1, SameHandles
<1>7. Distinct' /\ NotYet' /\ DeviceEntryCurrent' /\ QueueKnown'
  BY <1>1, <1>6 DEF IInv, Distinct, NotYet, DeviceEntryCurrent, QueueKnown, QueueOf, HandleOf
<1>8. QueueEntries'
  <2> SUFFICES ASSUME NEW q \in QueueHandles, QUEUES[q] # 0 PROVE QueueOf(contexts'[QUEUES[q]]) = q
    BY <1>1 DEF QueueEntries, QueueOf
  <2>1. QUEUES[q] \in Made
    BY Typing DEF IInv, TypeOK, Made
  <2> QED BY <1>3, <2>1 DEF IInv, QueueEntries
<1>9. Calls'
  <2> SUFFICES ASSUME NEW u \in Threads
               PROVE  call'[u].step \in {"made", "inserted"} =>
                        call'[u].ctx \in 1 .. x /\ contexts'[call'[u].ctx] = call'[u].dev
    BY <1>1, <1>2, <1>3, <1>4 DEF IInv, Calls, HandleOf, QueueOf, Getting, Alone
  <2> QED BY <1>3, <1>4 DEF IInv, Calls
<1>10. TogetherOnlyToGet'
  BY <1>1, <1>4 DEF IInv, TogetherOnlyToGet, Getting
<1>11. Agree'
  <2>1. \A e : Between(e)' <=> Between(e)
    BY <1>1, <1>4 DEF Between
  <2> QED BY <1>1, <1>4, <2>1 DEF IInv, Agree, QueueOf
<1>12. Drained' /\ DestroyedIdle'
  <2>1. busy \subseteq Made
    BY DEF IInv, TypeOK, Made
  <2> QED BY <1>1, <1>3, <1>4, <2>1 DEF IInv, Drained, DeviceIdle, DestroyedIdle
<1> QED BY <1>5, <1>7, <1>8, <1>9, <1>10, <1>11, <1>12 DEF IInv

LEMMA InsertQueueKeeps ==
  ASSUME IInv, NEW t \in Threads, InsertQueue(t)
  PROVE  IInv'
<1> PICK c, x : c = call[t].dev /\ x = call[t].ctx
  OBVIOUS
<1> PICK q : q = QueueOf(c)
  OBVIOUS
<1>1. /\ call[t].step = "made" /\ QUEUES' = [QUEUES EXCEPT ![q] = x] /\ Enter(t, "inserted", c, x)
      /\ UNCHANGED <<reused, shared, devices, live, busy, contexts, DEVICES, queues, given, refused>>
  BY DEF InsertQueue, WithContext, InCall, envVars, driverVars, appVars
<1>2. /\ c \in live /\ c \in Created /\ c # 0 /\ q \in QueueHandles /\ live \subseteq Created
      /\ x \in Made /\ x # 0 /\ contexts[x] = c
  <2>1. c \in live /\ c # 0 /\ c \in Created /\ x \in Made /\ contexts[x] = c
    BY <1>1, Typing DEF IInv, Calls
  <2>2. x # 0 /\ live \subseteq Created
    BY <2>1, Typing DEF IInv
  <2> QED BY <2>1, <2>2, Typing DEF IInv
<1>3. \A u \in Threads : /\ call'[u].step = IF u = t THEN "inserted" ELSE call[u].step
                         /\ call'[u].dev = IF u = t THEN c ELSE call[u].dev
                         /\ call'[u].ctx = IF u = t THEN x ELSE call[u].ctx
  BY <1>1, Entered DEF IInv
<1>4. \A p \in QueueHandles : QUEUES'[p] = IF p = q THEN x ELSE QUEUES[p]
  BY <1>1 DEF IInv, TypeOK
<1>5. TypeOK'
  <2>1. "inserted" \in Getting \cup Alone /\ x \in 0 .. Len(contexts)
    BY <1>2, Typing DEF Getting, IInv, Made
  <2>2. call' \in [Threads -> [step : {"idle", "created", "got", "made", "inserted",
                                       "removed", "cleared", "swept"},
                               dev : 0 .. Len(devices), ctx : 0 .. Len(contexts)]]
    BY <1>1, <1>2, <2>1, EnterTyped DEF IInv
  <2>3. QUEUES' \in [QueueHandles -> 0 .. Len(contexts)]
    BY <1>1, <2>1 DEF IInv, TypeOK
  <2> QED BY <1>1, <2>2, <2>3 DEF IInv, TypeOK
<1>6. /\ \A e : HandleOf(e)' = HandleOf(e) /\ QueueOf(e)' = QueueOf(e)
      /\ Created' = Created
  BY <1>1, SameHandles
<1>7. Distinct' /\ NotYet' /\ DeviceEntryCurrent' /\ DestroyedIdle'
  BY <1>1, <1>6 DEF IInv, Distinct, NotYet, DeviceEntryCurrent, DestroyedIdle, QueueOf, HandleOf
<1>8. QueueEntries' /\ QueueKnown'
  <2>1. QueueEntries'
    BY <1>1, <1>2, <1>4 DEF IInv, QueueEntries, QueueOf
  <2>2. given \subseteq Created
    BY DEF IInv, TypeOK, Created
  <2> QED BY <1>1, <1>2, <1>4, <2>1, <2>2, Typing DEF IInv, QueueKnown, QueueOf
<1>9. Calls'
  <2> SUFFICES ASSUME NEW u \in Threads, call'[u].step = "inserted" PROVE QUEUES'[QueueOf(call'[u].dev)] # 0
    BY <1>1, <1>2, <1>3 DEF IInv, Calls, Made, HandleOf, QueueOf, Getting, Alone
  <2>1. QueueOf(call'[u].dev) \in QueueHandles
    BY <1>2, <1>3, Typing DEF IInv, Calls
  <2> QED BY <1>2, <1>3, <1>4, <2>1 DEF IInv, Calls
<1>10. TogetherOnlyToGet'
  BY <1>1, <1>3 DEF IInv, TogetherOnlyToGet, Getting
<1>11. Agree'
  <2> SUFFICES ASSUME ~reused, ~shared PROVE Agree'
    BY <1>1 DEF Agree
  <2>1. \A e \in live : e # c => QueueOf(e) # q /\ QueueOf(e) \in QueueHandles
    BY <1>2, Typing DEF IInv, Distinct
  <2>2. \A e : e # c => (Between(e)' <=> Between(e))
    BY <1>1, <1>3 DEF Between
  <2>3. Between(c)'
    BY <1>3 DEF Between
  <2>4. \A u \in Threads : u # t => call[u].dev # c
    BY <1>2 DEF IInv, TogetherOnlyToGet
  <2>5. \A e \in live : ~Between(e)' => QUEUES'[QueueOf(e)] = queues[e]
    BY <1>4, <2>1, <2>2, <2>3 DEF IInv, Agree
  <2>6. ASSUME NEW u \in Threads, call'[u].step = "inserted"
        PROVE  QUEUES'[QueueOf(call'[u].dev)] = call'[u].ctx
    <3>1. CASE u = t
      BY <1>2, <1>3, <1>4, <3>1
    <3>2. CASE u # t
      <4>1. call[u].dev \in live
        BY <1>3, <2>6, <3>2 DEF IInv, Calls
      <4> QED BY <1>3, <1>4, <2>1, <2>4, <2>6, <3>2, <4>1 DEF IInv, Agree
    <3> QED BY <3>1, <3>2
  <2> QED BY <1>1, <2>5, <2>6 DEF Agree, QueueOf
<1>12. Drained'
  BY <1>1, <1>3 DEF IInv, Drained, DeviceIdle
<1> QED BY <1>5, <1>7, <1>8, <1>9, <1>10, <1>11, <1>12 DEF IInv

LEMMA InsertDeviceQueueKeeps ==
  ASSUME IInv, NEW t \in Threads, InsertDeviceQueue(t)
  PROVE  IInv'
<1> PICK c, x : c = call[t].dev /\ x = call[t].ctx
  OBVIOUS
<1>1. /\ call[t].step = "inserted" /\ queues' = [queues EXCEPT ![c] = x] /\ Return(t)
      /\ given' = given \cup {c}
      /\ UNCHANGED <<reused, shared, devices, live, busy, contexts, DEVICES, QUEUES, refused>>
  BY DEF InsertDeviceQueue, WithQueue, InCall, envVars, driverVars
<1>2. c \in live /\ c \in Created /\ c # 0 /\ c \in Device /\ x \in Made
  BY <1>1, Typing DEF IInv, Calls
<1>3. \A u \in Threads : /\ call'[u].step = IF u = t THEN "idle" ELSE call[u].step
                         /\ call'[u].dev = IF u = t THEN 0 ELSE call[u].dev
                         /\ call'[u].ctx = IF u = t THEN 0 ELSE call[u].ctx
  BY <1>1, Returned DEF IInv
<1>4. \A e \in Device : queues'[e] = IF e = c THEN x ELSE queues[e]
  BY <1>1 DEF IInv, TypeOK
<1>5. TypeOK'
  <2>1. call' \in [Threads -> [step : {"idle", "created", "got", "made", "inserted",
                                       "removed", "cleared", "swept"},
                               dev : 0 .. Len(devices), ctx : 0 .. Len(contexts)]]
    BY <1>1, ReturnTyped DEF IInv
  <2>2. queues' \in [Device -> 0 .. Len(contexts)]
    BY <1>1, <1>2 DEF IInv, TypeOK, Made
  <2>3. given' \subseteq live /\ refused \subseteq given'
    BY <1>1, <1>2 DEF IInv, TypeOK
  <2> QED BY <1>1, <2>1, <2>2, <2>3 DEF IInv, TypeOK
<1>6. /\ \A e : HandleOf(e)' = HandleOf(e) /\ QueueOf(e)' = QueueOf(e)
      /\ Created' = Created
  BY <1>1, SameHandles
<1>7. Distinct' /\ QueueEntries' /\ DeviceEntryCurrent' /\ DestroyedIdle'
  BY <1>1, <1>6 DEF IInv, Distinct, QueueEntries, DeviceEntryCurrent, DestroyedIdle, QueueOf, HandleOf
<1>8. NotYet'
  <2>1. c <= Len(devices)
    BY <1>2, Typing DEF IInv, Created
  <2> QED BY <1>1, <1>2, <1>4, <2>1, Typing DEF IInv, NotYet, Device
<1>9. QueueKnown'
  BY <1>1, <1>6 DEF IInv, QueueKnown, Calls, QueueOf
<1>10. \A u \in Threads : call[u].step \in {"cleared", "swept"} => call[u].dev # c /\ call[u].dev \in Device
  <2> SUFFICES ASSUME NEW u \in Threads, call[u].step \in {"cleared", "swept"}
               PROVE  call[u].dev # c /\ call[u].dev \in Device
    OBVIOUS
  <2>1. call[u].dev # 0 /\ call[u].dev \in Device
    BY Typing DEF IInv, Calls
  <2>2. u # t
    BY <1>1
  <2> QED BY <2>1, <2>2 DEF IInv, TogetherOnlyToGet, Getting
<1>11. Calls'
  BY <1>1, <1>3, <1>4, <1>10 DEF IInv, Calls, Made, HandleOf, QueueOf, Getting, Alone
<1>12. TogetherOnlyToGet'
  BY <1>1, <1>3 DEF IInv, TogetherOnlyToGet
<1>13. Agree'
  <2> SUFFICES ASSUME ~reused, ~shared PROVE Agree'
    BY <1>1 DEF Agree
  <2>1. \A e : e # c => (Between(e)' <=> Between(e))
    BY <1>1, <1>3 DEF Between
  <2>2. QUEUES[QueueOf(c)] = x
    BY <1>1 DEF IInv, Agree
  <2>3. \A e \in live : ~Between(e)' => QUEUES[QueueOf(e)] = queues'[e]
    <3>1. live \subseteq Device
      BY Typing DEF IInv, TypeOK, Created
    <3> QED BY <1>4, <2>1, <2>2, <3>1 DEF IInv, Agree
  <2> QED BY <1>1, <1>3, <2>3 DEF IInv, Agree, QueueOf
<1>14. Drained'
  BY <1>1, <1>3 DEF IInv, Drained, DeviceIdle
<1> QED BY <1>5, <1>7, <1>8, <1>9, <1>11, <1>12, <1>13, <1>14 DEF IInv

\* Only the work in flight changes, and new work is a live device's.
LEMMA WorkKeeps ==
  ASSUME IInv, busy' \subseteq Made,
         UNCHANGED <<reused, shared, devices, live, contexts, mapVars, call, given, refused>>,
         ~reused => \A x \in busy' \ busy : contexts[x] \in live /\ ~Destroying(contexts[x])
  PROVE  IInv'
<1> USE DEF mapVars
<1>1. TypeOK'
  BY DEF IInv, TypeOK, Made
<1>2. /\ \A e : HandleOf(e)' = HandleOf(e) /\ QueueOf(e)' = QueueOf(e)
      /\ Created' = Created
  BY SameHandles
<1>3. Distinct' /\ Calls' /\ TogetherOnlyToGet' /\ QueueEntries' /\ NotYet'
  BY <1>2 DEF IInv, Distinct, Calls, TogetherOnlyToGet, QueueEntries, NotYet, Made, HandleOf, QueueOf
<1>4. Agree' /\ DeviceEntryCurrent' /\ QueueKnown'
  BY <1>2 DEF IInv, Agree, Between, DeviceEntryCurrent, QueueKnown, HandleOf, QueueOf
<1>5. Drained' /\ DestroyedIdle'
  <2> SUFFICES ASSUME ~reused PROVE Drained' /\ DestroyedIdle'
    BY DEF Drained, DestroyedIdle
  <2>1. ASSUME NEW x \in busy' PROVE contexts[x] \in live
    BY DEF IInv, DestroyedIdle
  <2>2. ASSUME NEW u \in Threads, call[u].step \in {"cleared", "swept"}, NEW x \in busy'
        PROVE  contexts[x] # call[u].dev
    BY <2>2 DEF IInv, Drained, DeviceIdle, Destroying
  <2> QED BY <2>1, <2>2 DEF Drained, DestroyedIdle, DeviceIdle
<1> QED BY <1>1, <1>3, <1>4, <1>5 DEF IInv

LEMMA SubmitKeeps ==
  ASSUME IInv, NEW c \in Created, Submit(c)
  PROVE  IInv'
<1> PICK x : x = QUEUES[QueueOf(c)]
  OBVIOUS
<1>1. /\ c \in given /\ ~Destroying(c) /\ x # 0 /\ busy' = busy \cup {x}
      /\ UNCHANGED <<reused, shared, devices, live, contexts, mapVars, call, given, refused>>
  BY DEF Submit, envVars, appVars
<1>2. c \in live /\ QueueOf(c) \in QueueHandles
  BY <1>1, Typing DEF IInv, TypeOK
<1>3. x \in Made /\ contexts[x] \in Created /\ QueueOf(contexts[x]) = QueueOf(c)
  <2>1. x \in Made
    BY <1>1, <1>2, Typing DEF IInv, TypeOK, Made
  <2> QED BY <1>1, <1>2, <2>1, Typing DEF IInv, QueueEntries
<1>4. ~reused => contexts[x] = c
  BY <1>3 DEF IInv, Distinct
<1>5. busy' \subseteq Made
  BY <1>1, <1>3 DEF IInv, TypeOK, Made
<1> QED BY <1>1, <1>2, <1>4, <1>5, WorkKeeps

LEMMA CompleteKeeps ==
  ASSUME IInv, NEW x, Complete(x)
  PROVE  IInv'
<1>1. busy' \subseteq Made /\ busy' \ busy = {}
  BY DEF Complete, IInv, TypeOK, Made
<1> QED BY <1>1, WorkKeeps DEF Complete, envVars, appVars

LEMMA RemoveDeviceKeeps ==
  ASSUME IInv, NEW t \in Threads, NEW c \in Created, RemoveDevice(t, c)
  PROVE  IInv'
<1> PICK d : d = HandleOf(c)
  OBVIOUS
<1>1. /\ call[t].step = "idle" /\ c \in live /\ DEVICES[d] = c /\ Unused(c)
      /\ DEVICES' = [DEVICES EXCEPT ![d] = 0] /\ Enter(t, "removed", c, 0)
      /\ UNCHANGED <<reused, shared, devices, live, busy, contexts, QUEUES, queues, given, refused>>
  BY DEF RemoveDevice, WithoutDevice, InCall, envVars, driverVars, appVars
<1>2. c # 0 /\ d \in DeviceHandles /\ live \subseteq Created
  BY Typing DEF IInv
<1>3. \A u \in Threads : /\ call'[u].step = IF u = t THEN "removed" ELSE call[u].step
                         /\ call'[u].dev = IF u = t THEN c ELSE call[u].dev
                         /\ call'[u].ctx = IF u = t THEN 0 ELSE call[u].ctx
  BY <1>1, Entered DEF IInv
<1>4. \A e \in DeviceHandles : DEVICES'[e] = IF e = d THEN 0 ELSE DEVICES[e]
  BY <1>1 DEF IInv, TypeOK
<1>5. TypeOK'
  <2>1. "removed" \in Getting \cup Alone /\ 0 \in 0 .. Len(contexts) /\ 0 \in 0 .. Len(devices)
    BY Typing DEF Alone, IInv
  <2>2. call' \in [Threads -> [step : {"idle", "created", "got", "made", "inserted",
                                       "removed", "cleared", "swept"},
                               dev : 0 .. Len(devices), ctx : 0 .. Len(contexts)]]
    BY <1>1, <2>1, EnterTyped DEF IInv
  <2>3. DEVICES' \in [DeviceHandles -> 0 .. Len(devices)]
    BY <1>1, <2>1 DEF IInv, TypeOK
  <2> QED BY <1>1, <2>2, <2>3 DEF IInv, TypeOK
<1>6. /\ \A e : HandleOf(e)' = HandleOf(e) /\ QueueOf(e)' = QueueOf(e)
      /\ Created' = Created
  BY <1>1, SameHandles
<1>7. Distinct' /\ QueueEntries' /\ NotYet' /\ QueueKnown' /\ DestroyedIdle'
  BY <1>1, <1>6 DEF IInv, Distinct, QueueEntries, NotYet, QueueKnown, DestroyedIdle, QueueOf, HandleOf
<1>8. DeviceEntryCurrent'
  BY <1>1, <1>4 DEF IInv, DeviceEntryCurrent, HandleOf
<1>9. Calls'
  <2> SUFFICES ASSUME NEW u \in Threads
               PROVE  /\ call'[u].step \in Getting => DEVICES'[HandleOf(call'[u].dev)] = call'[u].dev
                      /\ call'[u].step \in Alone => DEVICES'[HandleOf(call'[u].dev)] = 0
    BY <1>1, <1>2, <1>3 DEF IInv, Calls, Made, HandleOf, QueueOf, Alone
  <2>1. CASE u = t
    BY <1>2, <1>3, <1>4, <2>1 DEF Getting
  <2>2. CASE u # t
    <3>1. call[u].dev # 0 => HandleOf(call[u].dev) # d /\ HandleOf(call[u].dev) \in DeviceHandles
      BY <1>1, <1>2, Typing DEF IInv, Calls, Distinct, Unused
    <3>2. call[u].step \in Getting \cup Alone => call[u].dev # 0
      BY DEF IInv, Calls, Getting, Alone
    <3> QED BY <1>3, <1>4, <2>2, <3>1, <3>2 DEF IInv, Calls
  <2> QED BY <2>1, <2>2
<1>10. TogetherOnlyToGet'
  BY <1>1, <1>3 DEF IInv, TogetherOnlyToGet, Unused
<1>11. Agree'
  <2>1. \A e : Between(e)' <=> Between(e)
    BY <1>1, <1>3 DEF Between
  <2> QED BY <1>1, <1>3, <2>1 DEF IInv, Agree, QueueOf
<1>12. Drained'
  BY <1>1, <1>3 DEF IInv, Drained, DeviceIdle
<1> QED BY <1>5, <1>7, <1>8, <1>9, <1>10, <1>11, <1>12 DEF IInv

LEMMA DrainKeeps ==
  ASSUME IInv, NEW t \in Threads, DrainForDestroy(t)
  PROVE  IInv'
<1> PICK c : c = call[t].dev
  OBVIOUS
<1>1. /\ call[t].step = "removed" /\ DeviceIdle(c)
      /\ queues' = [queues EXCEPT ![c] = 0] /\ Enter(t, "cleared", c, 0)
      /\ UNCHANGED <<reused, shared, devices, live, busy, contexts, DEVICES, QUEUES, given, refused>>
  BY DEF DrainForDestroy, InCall, envVars, driverVars, appVars
<1>2. c \in live /\ c \in Created /\ c # 0 /\ c \in Device
  BY <1>1, Typing DEF IInv, Calls
<1>3. \A u \in Threads : /\ call'[u].step = IF u = t THEN "cleared" ELSE call[u].step
                         /\ call'[u].dev = IF u = t THEN c ELSE call[u].dev
                         /\ call'[u].ctx = IF u = t THEN 0 ELSE call[u].ctx
  BY <1>1, Entered DEF IInv
<1>4. \A e \in Device : queues'[e] = IF e = c THEN 0 ELSE queues[e]
  BY <1>1 DEF IInv, TypeOK
<1>5. TypeOK'
  <2>1. "cleared" \in Getting \cup Alone /\ 0 \in 0 .. Len(contexts)
    BY Typing DEF Alone, IInv
  <2>2. call' \in [Threads -> [step : {"idle", "created", "got", "made", "inserted",
                                       "removed", "cleared", "swept"},
                               dev : 0 .. Len(devices), ctx : 0 .. Len(contexts)]]
    BY <1>1, <1>2, <2>1, EnterTyped DEF IInv
  <2>3. queues' \in [Device -> 0 .. Len(contexts)]
    BY <1>1, <2>1 DEF IInv, TypeOK
  <2> QED BY <1>1, <2>2, <2>3 DEF IInv, TypeOK
<1>6. /\ \A e : HandleOf(e)' = HandleOf(e) /\ QueueOf(e)' = QueueOf(e)
      /\ Created' = Created
  BY <1>1, SameHandles
<1>7. Distinct' /\ QueueEntries' /\ QueueKnown' /\ DestroyedIdle' /\ DeviceEntryCurrent'
  BY <1>1, <1>6 DEF IInv, Distinct, QueueEntries, QueueKnown, DestroyedIdle, DeviceEntryCurrent,
    QueueOf, HandleOf
<1>8. NotYet'
  BY <1>1, <1>4 DEF IInv, NotYet
<1>9. Calls'
  <2> SUFFICES ASSUME NEW u \in Threads, call'[u].step \in {"cleared", "swept"}
               PROVE  queues'[call'[u].dev] = 0
    BY <1>1, <1>2, <1>3 DEF IInv, Calls, Made, HandleOf, QueueOf, Getting, Alone
  <2>1. CASE u = t
    BY <1>2, <1>3, <1>4, <2>1
  <2>2. CASE u # t
    <3>1. call[u].dev \in Device
      BY <1>3, <2>2, Typing DEF IInv, Calls
    <3> QED BY <1>3, <1>4, <2>2, <3>1 DEF IInv, Calls
  <2> QED BY <2>1, <2>2
<1>10. TogetherOnlyToGet'
  BY <1>1, <1>3 DEF IInv, TogetherOnlyToGet, Getting
<1>11. Agree'
  <2> SUFFICES ASSUME ~reused, ~shared PROVE Agree'
    BY <1>1 DEF Agree
  <2>1. Between(c)' /\ \A e : e # c => (Between(e)' <=> Between(e))
    BY <1>1, <1>3 DEF Between
  <2>2. live \subseteq Device
    BY Typing DEF IInv
  <2>3. \A e \in live : ~Between(e)' => QUEUES[QueueOf(e)] = queues'[e]
    BY <1>4, <2>1, <2>2 DEF IInv, Agree
  <2> QED BY <1>1, <1>3, <2>3 DEF IInv, Agree, QueueOf
<1>12. Drained'
  BY <1>1, <1>3 DEF IInv, Drained, DeviceIdle
<1> QED BY <1>5, <1>7, <1>8, <1>9, <1>10, <1>11, <1>12 DEF IInv

\* The device has forgotten its queues: the sweep finds no key to remove.
LEMMA SweepKeeps ==
  ASSUME IInv, NEW t \in Threads, SweepQueues(t)
  PROVE  IInv'
<1> PICK c : c = call[t].dev
  OBVIOUS
<1>1. /\ call[t].step = "cleared" /\ QUEUES' = Swept(c) /\ Enter(t, "swept", c, 0)
      /\ UNCHANGED <<reused, shared, devices, live, busy, contexts, DEVICES, queues, given, refused>>
  BY DEF SweepQueues, InCall, envVars, driverVars, appVars
<1>2. c \in live /\ c \in Created /\ c # 0 /\ queues[c] = 0
  BY <1>1, Typing DEF IInv, Calls
<1>3. QUEUES' = QUEUES
  <2>1. QUEUES = [q \in QueueHandles |-> QUEUES[q]]
    BY DEF IInv, TypeOK
  <2> QED BY <1>1, <1>2, <2>1 DEF Swept
<1>4. \A u \in Threads : /\ call'[u].step = IF u = t THEN "swept" ELSE call[u].step
                         /\ call'[u].dev = IF u = t THEN c ELSE call[u].dev
                         /\ call'[u].ctx = IF u = t THEN 0 ELSE call[u].ctx
  BY <1>1, Entered DEF IInv
<1>5. TypeOK'
  <2>1. "swept" \in Getting \cup Alone /\ 0 \in 0 .. Len(contexts)
    BY Typing DEF Alone, IInv
  <2>2. call' \in [Threads -> [step : {"idle", "created", "got", "made", "inserted",
                                       "removed", "cleared", "swept"},
                               dev : 0 .. Len(devices), ctx : 0 .. Len(contexts)]]
    BY <1>1, <1>2, <2>1, EnterTyped DEF IInv
  <2> QED BY <1>1, <1>3, <2>2 DEF IInv, TypeOK
<1>6. /\ \A e : HandleOf(e)' = HandleOf(e) /\ QueueOf(e)' = QueueOf(e)
      /\ Created' = Created
  BY <1>1, SameHandles
<1>7. Distinct' /\ QueueEntries' /\ NotYet' /\ QueueKnown' /\ DestroyedIdle' /\ DeviceEntryCurrent'
  BY <1>1, <1>3, <1>6 DEF IInv, Distinct, QueueEntries, NotYet, QueueKnown, DestroyedIdle,
    DeviceEntryCurrent, QueueOf, HandleOf
<1>8. Calls'
  BY <1>1, <1>2, <1>3, <1>4 DEF IInv, Calls, Made, HandleOf, QueueOf, Getting, Alone
<1>9. TogetherOnlyToGet'
  BY <1>1, <1>4 DEF IInv, TogetherOnlyToGet, Getting
<1>10. Agree'
  <2>1. \A e : Between(e)' <=> Between(e)
    BY <1>1, <1>4 DEF Between
  <2> QED BY <1>1, <1>3, <1>4, <2>1 DEF IInv, Agree, QueueOf
<1>11. Drained'
  BY <1>1, <1>4 DEF IInv, Drained, DeviceIdle
<1> QED BY <1>5, <1>7, <1>8, <1>9, <1>10, <1>11 DEF IInv

LEMMA DestroyKeeps ==
  ASSUME IInv, NEW t \in Threads, DestroyDevice(t)
  PROVE  IInv'
<1> PICK c : c = call[t].dev
  OBVIOUS
<1>1. /\ call[t].step = "swept" /\ Return(t)
      /\ live' = live \ {c} /\ given' = given \ {c} /\ refused' = refused \ {c}
      /\ UNCHANGED <<reused, shared, devices, busy, contexts, DEVICES, QUEUES, queues>>
  BY DEF DestroyDevice, InCall, envVars, mapVars
<1>2. c \in live /\ c \in Created /\ c # 0 /\ DEVICES[HandleOf(c)] = 0
  BY <1>1, Typing DEF IInv, Calls, Alone
<1>3. \A u \in Threads : /\ call'[u].step = IF u = t THEN "idle" ELSE call[u].step
                         /\ call'[u].dev = IF u = t THEN 0 ELSE call[u].dev
                         /\ call'[u].ctx = IF u = t THEN 0 ELSE call[u].ctx
  BY <1>1, Returned DEF IInv
<1>4. \A u \in Threads : u # t => call[u].dev # c
  BY <1>1, <1>2 DEF IInv, TogetherOnlyToGet, Getting
<1>5. TypeOK'
  <2>1. call' \in [Threads -> [step : {"idle", "created", "got", "made", "inserted",
                                       "removed", "cleared", "swept"},
                               dev : 0 .. Len(devices), ctx : 0 .. Len(contexts)]]
    BY <1>1, ReturnTyped DEF IInv
  <2>2. live' \subseteq 1 .. Len(devices) /\ given' \subseteq live' /\ refused' \subseteq given'
    BY <1>1 DEF IInv, TypeOK
  <2> QED BY <1>1, <2>1, <2>2 DEF IInv, TypeOK
<1>6. /\ \A e : HandleOf(e)' = HandleOf(e) /\ QueueOf(e)' = QueueOf(e)
      /\ Created' = Created
  BY <1>1, SameHandles
<1>7. Distinct' /\ QueueEntries' /\ NotYet' /\ QueueKnown'
  BY <1>1, <1>6 DEF IInv, Distinct, QueueEntries, NotYet, QueueKnown, QueueOf, HandleOf
<1>8. DeviceEntryCurrent'
  BY <1>1, <1>2, <1>6 DEF IInv, DeviceEntryCurrent, HandleOf
<1>9. Calls'
  BY <1>1, <1>3, <1>4 DEF IInv, Calls, Made, HandleOf, QueueOf, Getting, Alone
<1>10. TogetherOnlyToGet'
  BY <1>1, <1>3 DEF IInv, TogetherOnlyToGet
<1>11. Agree'
  <2>1. \A e : e # c => (Between(e)' <=> Between(e))
    BY <1>1, <1>3 DEF Between
  <2> QED BY <1>1, <1>3, <2>1 DEF IInv, Agree, QueueOf
<1>12. Drained' /\ DestroyedIdle'
  <2>1. ~reused => DeviceIdle(c)
    BY <1>1 DEF IInv, Drained
  <2> QED BY <1>1, <1>3, <2>1 DEF IInv, Drained, DeviceIdle, DestroyedIdle
<1> QED BY <1>5, <1>7, <1>8, <1>9, <1>10, <1>11, <1>12 DEF IInv

-----------------------------------------------------------------------------
\* The strengthened invariant holds in every state that the layer reaches.
THEOREM Invariance == Spec => []IInv
<1>1. IInv /\ [Next]_vars => IInv'
  <2> SUFFICES ASSUME IInv, [Next]_vars PROVE IInv'
    OBVIOUS
  <2>1. ASSUME NEW t \in Threads, NEW d \in DeviceHandles, NEW q \in QueueHandles, NEW e \in BOOLEAN,
               CreateDevice(t, d, q, e)
        PROVE  IInv'
    BY <2>1, CreateKeeps
  <2>2. ASSUME NEW t \in Threads, NEW c \in Device, Known(c), GetQueue(t, c) \/ RemoveDevice(t, c)
        PROVE  IInv'
    BY <2>2, GetQueueKeeps, RemoveDeviceKeeps DEF Known, Created
  <2>3. ASSUME NEW t \in Threads, InsertDevice(t) PROVE IInv'
    BY <2>3, InsertDeviceKeeps
  <2>4. ASSUME NEW t \in Threads, AlreadyRegistered(t) \/ QueueContextFails(t) PROVE IInv'
    BY <2>4, QueueGivenKeeps
  <2>5. ASSUME NEW t \in Threads, NewQueueContext(t) \/ InsertQueue(t) \/ InsertDeviceQueue(t) PROVE IInv'
    BY <2>5, NewQueueContextKeeps, InsertQueueKeeps, InsertDeviceQueueKeeps
  <2>6. ASSUME NEW t \in Threads, DrainForDestroy(t) \/ SweepQueues(t) \/ DestroyDevice(t) PROVE IInv'
    BY <2>6, DrainKeeps, SweepKeeps, DestroyKeeps
  <2>7. ASSUME NEW c \in Device, Submit(c) PROVE IInv'
    <3>1. c \in Created
      BY <2>7, Typing DEF IInv, Submit
    <3> QED BY <2>7, <3>1, SubmitKeeps
  <2>8. ASSUME NEW x \in Context, Complete(x) PROVE IInv'
    BY <2>8, CompleteKeeps
  <2>9. CASE UNCHANGED vars
    BY <2>9, WorkKeeps DEF vars, envVars, driverVars, mapVars, appVars, IInv, TypeOK, Made
  <2> QED BY <2>1, <2>2, <2>3, <2>4, <2>5, <2>6, <2>7, <2>8, <2>9 DEF Next
<1> QED BY <1>1, InitSound, PTL DEF Spec

\* The maps and the calls always hold what their types say.
THEOREM TypeCorrect == Spec => []TypeOK
<1>1. IInv => TypeOK
  BY DEF IInv
<1> QED BY <1>1, Invariance, PTL

\* A device handle never leads to the state of an earlier device.
THEOREM HandlesLeadHome == Spec => []DeviceEntryCurrent
<1>1. IInv => DeviceEntryCurrent
  BY DEF IInv
<1> QED BY <1>1, Invariance, PTL

\* A queue works from the time the application has it to the end of its device.
THEOREM QueuesServed == Spec => []QueueServed
<1>1. IInv => SameContext
  <2> SUFFICES ASSUME IInv, ~reused, ~shared, NEW c \in given, Unused(c)
               PROVE  QUEUES[QueueOf(c)] = queues[c]
    BY DEF SameContext
  <2>1. c \in live /\ ~Between(c)
    BY Typing DEF IInv, Unused, Between
  <2> QED BY <2>1 DEF IInv, Agree
<1>2. IInv => QueueServed
  BY <1>1 DEF IInv, QueueServed
<1> QED BY <1>2, Invariance, PTL
=============================================================================
