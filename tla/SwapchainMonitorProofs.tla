------------------------ MODULE SwapchainMonitorProofs ------------------------
(***************************************************************************)
(* Proofs about SwapchainMonitor for any number of semaphore values, sleep *)
(* calls and groups: its invariant, that the worker handles the frames in  *)
(* order (WorkInOrder), and that each step is one that LatencySleep allows.*)
(***************************************************************************)
EXTENDS SwapchainMonitor, SequenceTheorems, TLAPS

-----------------------------------------------------------------------------
(* What each part of the state adds to the inductive invariant.             *)

\* The worker has a signal from the pop on, and its groups until it has
\* waited for them; it has none when it looks for one, waits for one or ends.
Holding == {"popped", "await", "delay", "read", "signal"}

WorkerState ==
  /\ worker \in Holding <=> cur # NoSignal
  /\ worker \in {"delay", "read", "signal"} => cur.groups = <<>>

\* A value that is still to be signalled was asked for, and the next call asks
\* for no lower one.
ValuesAsked ==
  /\ cur # NoSignal => cur.value \in asked
  /\ \A k \in Signals : pending_signals[k].value \in asked
  /\ caller # "idle" => want \in asked
  /\ \A v \in asked : v <= want

IInv == TypeOK /\ WorkerState /\ ValuesAsked /\ GroupsInOrder /\ SignalsInOrder

-----------------------------------------------------------------------------
(* Ascending, Below and Holds of sequences that are joined.                 *)

LEMMA OfEmpty ==
  ASSUME NEW s, NEW g
  PROVE  Ascending(<<>>) /\ Below(<<>>, s) /\ Below(s, <<>>) /\ ~Holds(<<>>, g)
BY DEF Ascending, Below, Holds

LEMMA OfConcat ==
  ASSUME NEW s \in Seq(Group), NEW t \in Seq(Group)
  PROVE  /\ s \o t \in Seq(Group)
         /\ \A g : Holds(s \o t, g) <=> Holds(s, g) \/ Holds(t, g)
         /\ \A u \in Seq(Group) : /\ Below(s \o t, u) <=> Below(s, u) /\ Below(t, u)
                                  /\ Below(u, s \o t) <=> Below(u, s) /\ Below(u, t)
         /\ Ascending(s \o t) <=> Ascending(s) /\ Ascending(t) /\ Below(s, t)
<1> DEFINE u == s \o t  m == Len(s)  n == Len(t)
<1>1. /\ m \in Nat /\ n \in Nat /\ DOMAIN s = 1 .. m /\ DOMAIN t = 1 .. n
      /\ u \in Seq(Group) /\ DOMAIN u = 1 .. m + n
  BY LenProperties, ConcatProperties
<1>2. /\ \A i \in DOMAIN s : i \in DOMAIN u /\ u[i] = s[i]
      /\ \A i \in DOMAIN t : m + i \in DOMAIN u /\ u[m + i] = t[i]
  BY <1>1, ConcatProperties
<1>3. ASSUME NEW i \in DOMAIN u
      PROVE  \/ i \in DOMAIN s
             \/ i - m \in DOMAIN t /\ i = m + (i - m) /\ ~(i <= m)
  BY <1>1
<1> HIDE DEF u, m, n
<1>4. \A i \in DOMAIN u : \/ i \in DOMAIN s /\ u[i] = s[i]
                          \/ \E k \in DOMAIN t : i = m + k /\ u[i] = t[k]
  BY <1>1, <1>2, <1>3
<1>5. \A g : Holds(u, g) <=> Holds(s, g) \/ Holds(t, g)
  BY <1>2, <1>4, Zenon DEF Holds
<1>6. ASSUME NEW v \in Seq(Group)
      PROVE  /\ Below(u, v) <=> Below(s, v) /\ Below(t, v)
             /\ Below(v, u) <=> Below(v, s) /\ Below(v, t)
  <2>1. Below(u, v) => Below(s, v) /\ Below(t, v)  BY <1>2 DEF Below
  <2>2. Below(s, v) /\ Below(t, v) => Below(u, v)  BY <1>4 DEF Below
  <2>3. Below(v, u) => Below(v, s) /\ Below(v, t)  BY <1>2 DEF Below
  <2>4. Below(v, s) /\ Below(v, t) => Below(v, u)  BY <1>4 DEF Below
  <2>. QED  BY <2>1, <2>2, <2>3, <2>4
<1>7. Ascending(u) => Ascending(s) /\ Ascending(t) /\ Below(s, t)
  <2> SUFFICES ASSUME Ascending(u) PROVE Ascending(s) /\ Ascending(t) /\ Below(s, t)
    OBVIOUS
  <2>1. Ascending(s)  BY <1>1, <1>2 DEF Ascending
  <2>2. ASSUME NEW i \in DOMAIN t, NEW j \in DOMAIN t, i < j  PROVE t[i] < t[j]
    <3>1. m + i < m + j  BY <1>1, <2>2
    <3>. QED  BY <3>1, <1>2 DEF Ascending
  <2>3. ASSUME NEW i \in DOMAIN s, NEW j \in DOMAIN t  PROVE s[i] < t[j]
    <3>1. i < m + j  BY <1>1
    <3>. QED  BY <3>1, <1>2 DEF Ascending
  <2>. QED  BY <2>1, <2>2, <2>3 DEF Ascending, Below
<1>8. Ascending(s) /\ Ascending(t) /\ Below(s, t) => Ascending(u)
  <2> SUFFICES ASSUME Ascending(s), Ascending(t), Below(s, t),
                      NEW i \in DOMAIN u, NEW j \in DOMAIN u, i < j
               PROVE  u[i] < u[j]
    BY DEF Ascending
  <2>1. CASE i \in DOMAIN s /\ u[i] = s[i] /\ j \in DOMAIN s /\ u[j] = s[j]
    BY <2>1 DEF Ascending
  <2>2. CASE i \in DOMAIN s /\ u[i] = s[i] /\ \E k \in DOMAIN t : j = m + k /\ u[j] = t[k]
    BY <2>2 DEF Below
  <2>3. CASE /\ \E k \in DOMAIN t : i = m + k /\ u[i] = t[k]
             /\ \E k \in DOMAIN t : j = m + k /\ u[j] = t[k]
    <3>1. PICK k \in DOMAIN t : i = m + k /\ u[i] = t[k]  BY <2>3
    <3>2. PICK l \in DOMAIN t : j = m + l /\ u[j] = t[l]  BY <2>3
    <3>3. k < l  BY <3>1, <3>2, <1>1
    <3>. QED  BY <3>1, <3>2, <3>3 DEF Ascending
  <2>4. CASE (\E k \in DOMAIN t : i = m + k /\ u[i] = t[k]) /\ j \in DOMAIN s
    BY <2>4, <1>1
  <2>. QED  BY <1>4, <2>1, <2>2, <2>3, <2>4
<1>. QED  BY <1>1, <1>5, <1>6, <1>7, <1>8 DEF u

LEMMA OfOne ==
  ASSUME NEW e \in Group
  PROVE  /\ <<e>> \in Seq(Group) /\ Ascending(<<e>>) /\ \A g : Holds(<<e>>, g) <=> g = e
         /\ \A s : Below(s, <<e>>) <=> \A i \in DOMAIN s : s[i] < e
<1>1. DOMAIN <<e>> = {1} /\ <<e>>[1] = e  OBVIOUS
<1>. QED  BY <1>1 DEF Ascending, Below, Holds

LEMMA AppendAsConcat ==
  ASSUME NEW S, NEW s \in Seq(S), NEW e \in S
  PROVE  Append(s, e) = s \o <<e>>
OBVIOUS

\* What the worker takes out of its hands and adds to what it is done with.
LEMMA HandOver ==
  ASSUME NEW S, NEW s \in Seq(S), NEW t \in Seq(S), t # <<>>
  PROVE  Append(s, Head(t)) \o Tail(t) = s \o t
BY AppendProperties, HeadTailProperties, ConcatProperties, SeqEqual

LEMMA GroupFacts ==
  /\ Group \subseteq Nat /\ Value \subseteq Nat \ {0}
  /\ \A v \in Value, w \in Value \cup {0} : w \in Nat /\ v # 0
  /\ NoSignal \notin Signal /\ NoSignal.groups = <<>> /\ NoSignal.value = 0
BY MonitorAssumption DEF Group, Value, NoSignal, Signal

LEMMA PopFacts ==
  ASSUME TypeOK, pending_signals # <<>>
  PROVE  /\ Head(pending_signals) \in Signal /\ Head(pending_signals) = pending_signals[1]
         /\ Tail(pending_signals) \in Seq(Signal)
         /\ DOMAIN Tail(pending_signals) = 1 .. Len(pending_signals) - 1
         /\ Len(pending_signals) \in Nat \ {0} /\ 1 \in Signals
         /\ \A i \in DOMAIN Tail(pending_signals) :
              i + 1 \in Signals /\ Tail(pending_signals)[i] = pending_signals[i + 1]
<1>1. pending_signals \in Seq(Signal)  BY DEF TypeOK
<1>. QED  BY <1>1, HeadTailProperties, LenProperties, EmptySeq DEF Signals

LEMMA QueueFacts ==
  ASSUME TypeOK, NEW v \in Value, QueueSignal(v)
  PROVE  /\ pending_signals' \in Seq(Signal)
         /\ Len(pending_signals) \in Nat
         /\ Signals = 1 .. Len(pending_signals)
         /\ Signals' = Signals \cup {Len(pending_signals) + 1}
         /\ \A i \in Signals : pending_signals'[i] = pending_signals[i]
         /\ pending_signals'[Len(pending_signals) + 1] = [value |-> v, groups |-> pending_groups]
<1> DEFINE e == [value |-> v, groups |-> pending_groups]
<1>1. e \in Signal  BY DEF Signal, TypeOK
<1>2. pending_signals \in Seq(Signal) /\ pending_signals' = Append(pending_signals, e)
  BY DEF TypeOK, QueueSignal
<1>. QED  BY <1>1, <1>2, AppendProperties, LenProperties DEF Signals

-----------------------------------------------------------------------------
(* The types, and where the worker stands.                                  *)

LEMMA TypeKept == IInv /\ [Next]_vars => TypeOK' /\ WorkerState'
<1> SUFFICES ASSUME IInv, [Next]_vars PROVE TypeOK' /\ WorkerState'
  OBVIOUS
<1> USE DEF IInv, Holding
<1>1. ASSUME NEW v \in Value, SleepQueued(v)  PROVE TypeOK' /\ WorkerState'
  <2>1. pending_signals' \in Seq(Signal)  BY <1>1, QueueFacts DEF SleepQueued
  <2>. QED  BY <1>1, <2>1, MonitorAssumption
            DEF SleepQueued, NewCall, TakeGroups, WakeWorker, Wake, TypeOK, WorkerState
<1>2. ASSUME NEW v \in Value, SleepDirect(v)  PROVE TypeOK' /\ WorkerState'
  BY <1>2, MonitorAssumption
     DEF SleepDirect, NewCall, DirectSignal, TypeOK, WorkerState, stVars, workVars
<1>3. CASE DirectRead
  BY <1>3 DEF DirectRead, TypeOK, WorkerState, stVars, workVars
<1>4. CASE DirectSend
  BY <1>4 DEF DirectSend, SignalSemaphore, TypeOK, WorkerState, stVars, workVars
<1>5. ASSUME NEW b \in BOOLEAN, update_params(b)  PROVE TypeOK' /\ WorkerState'
  BY <1>5 DEF update_params, TypeOK, WorkerState, workVars, appVars
<1>6. CASE attach_work
  <2>1. attached' \in Group /\ attached' \in 0 .. MaxGroups
    BY <1>6, MonitorAssumption DEF attach_work, TypeOK, Group
  <2>2. pending_groups' \in Seq(Group)
    BY <1>6, <2>1, AppendProperties DEF attach_work, TypeOK
  <2>. QED  BY <1>6, <2>1, <2>2 DEF attach_work, TypeOK, WorkerState, workVars, appVars
<1>7. CASE StoreStop
  BY <1>7 DEF StoreStop, TypeOK, WorkerState, stVars, workVars, appVars
<1>8. CASE NotifyAll
  BY <1>8 DEF NotifyAll, Wake, TypeOK, WorkerState, stVars, appVars
<1>9. CASE Join
  BY <1>9 DEF Join, TypeOK, WorkerState, stVars, workVars, appVars
<1>10. CASE Pop
  <2>1. cur' \in Signal /\ pending_signals' \in Seq(Signal)  BY <1>10, PopFacts DEF Pop
  <2>. QED  BY <1>10, <2>1, GroupFacts DEF Pop, TypeOK, WorkerState, appVars
<1>11. CASE Exit
  BY <1>11 DEF Exit, TypeOK, WorkerState, stVars, appVars
<1>12. CASE CheckEmpty
  BY <1>12 DEF CheckEmpty, TypeOK, WorkerState, stVars, appVars
<1>13. CASE Park
  BY <1>13 DEF Park, TypeOK, WorkerState, stVars, appVars
<1>14. CASE Popped
  <2>1. cur \in Signal  BY <1>14 DEF Popped, TypeOK, WorkerState
  <2>2. cur' \in Signal /\ settled' \in Seq(Group)
    <3>1. cur.groups \in Seq(Group) /\ settled \in Seq(Group)  BY <2>1 DEF Signal, TypeOK
    <3>2. settled \o cur.groups \in Seq(Group)  BY <3>1, ConcatProperties
    <3>3. [cur EXCEPT !.groups = <<>>] \in Signal
      BY <2>1, EmptySeq DEF Signal
    <3>. QED  BY <1>14, <2>1, <3>1, <3>2, <3>3 DEF Popped
  <2>3. worker' = "read" => cur'.groups = <<>>
    BY <1>14, <2>1 DEF Popped, Signal
  <2>. QED  BY <1>14, <2>2, <2>3, GroupFacts DEF Popped, TypeOK, WorkerState, stVars, appVars
<1>15. CASE AwaitGroup
  <2>1. cur \in Signal  BY <1>15 DEF AwaitGroup, TypeOK, WorkerState
  <2>2. cur.groups \in Seq(Group) /\ cur.groups # <<>>  BY <1>15, <2>1 DEF AwaitGroup, Signal
  <2>3. cur' \in Signal /\ settled' \in Seq(Group)
    BY <1>15, <2>1, <2>2, HeadTailProperties, AppendProperties DEF AwaitGroup, Signal, TypeOK
  <2>. QED  BY <1>15, <2>3, GroupFacts DEF AwaitGroup, TypeOK, WorkerState, stVars, appVars
<1>16. CASE Deadline
  BY <1>16 DEF Deadline, TypeOK, WorkerState, stVars, appVars
<1>17. CASE StartDelay
  BY <1>17 DEF StartDelay, TypeOK, WorkerState, stVars, appVars
<1>18. CASE EndDelay
  BY <1>18 DEF EndDelay, TypeOK, WorkerState, stVars, appVars
<1>19. CASE WorkerRead
  BY <1>19 DEF WorkerRead, TypeOK, WorkerState, stVars, appVars
<1>20. CASE WorkerSend
  <2>1. sem' \in Value \cup {0}
    <3>1. cur \in Signal  BY <1>20 DEF WorkerSend, TypeOK, WorkerState
    <3>. QED  BY <1>20, <3>1 DEF WorkerSend, SignalSemaphore, Signal, TypeOK
  <2>. QED  BY <1>20, <2>1 DEF WorkerSend, TypeOK, WorkerState, stVars, appVars
<1>21. ASSUME NEW g \in Group, GpuDone(g)  PROVE TypeOK' /\ WorkerState'
  BY <1>21 DEF GpuDone, TypeOK, WorkerState, stVars, workVars, appVars
<1>22. CASE UNCHANGED vars
  BY <1>22 DEF vars, TypeOK, WorkerState, stVars, workVars, appVars
<1>. QED  BY <1>1, <1>2, <1>3, <1>4, <1>5, <1>6, <1>7, <1>8, <1>9, <1>10, <1>11, <1>12, <1>13,
             <1>14, <1>15, <1>16, <1>17, <1>18, <1>19, <1>20, <1>21, <1>22 DEF Next, Work

-----------------------------------------------------------------------------
(* The values that are still to be signalled.                               *)

\* Only a sleep call asks for a value; only it and the worker's pop touch the
\* queue of signals, and only the pop puts another value in the worker's hands.
LEMMA ValuesStay ==
  ASSUME IInv, [Next]_vars
  PROVE  \/ \E v \in Value : SleepQueued(v)
         \/ \E v \in Value : SleepDirect(v)
         \/ Pop
         \/ /\ UNCHANGED <<pending_signals, asked, want>>
            /\ cur'.value = cur.value \/ cur' = NoSignal
            /\ cur' # NoSignal => cur # NoSignal
            /\ caller' # "idle" => caller # "idle"
<1> DEFINE Rest == /\ UNCHANGED <<pending_signals, asked, want>>
                   /\ cur'.value = cur.value \/ cur' = NoSignal
                   /\ cur' # NoSignal => cur # NoSignal
                   /\ caller' # "idle" => caller # "idle"
<1>1. CASE DirectRead \/ DirectSend
  BY <1>1 DEF DirectRead, DirectSend, stVars, workVars
<1>2. CASE (\E b \in BOOLEAN : update_params(b)) \/ attach_work \/ StoreStop \/ NotifyAll \/ Join
  BY <1>2 DEF update_params, attach_work, StoreStop, NotifyAll, Join, stVars, workVars, appVars
<1>3. CASE Exit \/ CheckEmpty \/ Park \/ Deadline \/ StartDelay \/ EndDelay
  BY <1>3 DEF Exit, CheckEmpty, Park, Deadline, StartDelay, EndDelay, stVars, appVars
<1>4. CASE Popped \/ AwaitGroup
  <2>1. cur \in Signal  BY <1>4 DEF Popped, AwaitGroup, IInv, TypeOK, WorkerState, Holding
  <2>2. \A gs : [cur EXCEPT !.groups = gs].value = cur.value  BY <2>1 DEF Signal
  <2>. QED  BY <1>4, <2>1, <2>2, GroupFacts DEF Popped, AwaitGroup, stVars, appVars
<1>5. CASE WorkerRead \/ WorkerSend
  BY <1>5 DEF WorkerRead, WorkerSend, stVars, appVars
<1>6. CASE (\E g \in Group : GpuDone(g)) \/ UNCHANGED vars
  BY <1>6 DEF GpuDone, vars, stVars, workVars, appVars
<1>. QED  BY <1>1, <1>2, <1>3, <1>4, <1>5, <1>6 DEF Next, Work

LEMMA ValuesKept == IInv /\ [Next]_vars => ValuesAsked' /\ SignalsInOrder'
<1> SUFFICES ASSUME IInv, [Next]_vars PROVE ValuesAsked' /\ SignalsInOrder'
  OBVIOUS
<1>0. /\ TypeOK /\ ValuesAsked /\ SignalsInOrder /\ asked \subseteq Nat /\ want \in Nat
      /\ cur.value \in Nat /\ (cur # NoSignal => cur.value \in Value)
      /\ \A k \in Signals : pending_signals[k].value \in Nat /\ pending_signals[k] \in Signal
  <2>1. TypeOK  BY DEF IInv
  <2>2. \A k \in Signals : pending_signals[k] \in Signal
    BY <2>1, ElementOfSeq, LenProperties DEF TypeOK, Signals
  <2>3. asked \subseteq Nat /\ want \in Nat  BY <2>1, GroupFacts DEF TypeOK
  <2>4. \A s \in Signal : s.value \in Value /\ s.value \in Nat  BY GroupFacts DEF Signal
  <2>5. cur \in Signal \/ cur = NoSignal  BY <2>1 DEF TypeOK
  <2>6. cur.value \in Nat /\ (cur # NoSignal => cur.value \in Value)
    BY <2>4, <2>5, GroupFacts
  <2>. QED  BY <2>1, <2>2, <2>3, <2>4, <2>6 DEF IInv
<1>1. ASSUME NEW v \in Value, SleepQueued(v)  PROVE ValuesAsked' /\ SignalsInOrder'
  <2> DEFINE n == Len(pending_signals) + 1
  <2>1. v >= want /\ want' = v /\ asked' = asked \cup {v} /\ cur' = cur /\ caller' = caller
    BY <1>1 DEF SleepQueued, NewCall
  <2>2. /\ Signals' = Signals \cup {n} /\ Signals = 1 .. n - 1 /\ n \in Nat
        /\ pending_signals'[n].value = v
        /\ \A i \in Signals : pending_signals'[i] = pending_signals[i]
    <3>1. QueueSignal(v)  BY <1>1 DEF SleepQueued
    <3>2. /\ Len(pending_signals) \in Nat /\ Signals = 1 .. Len(pending_signals)
          /\ Signals' = Signals \cup {n}
          /\ \A i \in Signals : pending_signals'[i] = pending_signals[i]
          /\ pending_signals'[n] = [value |-> v, groups |-> pending_groups]
      BY <1>0, <3>1, QueueFacts
    <3>3. n \in Nat /\ Len(pending_signals) = n - 1  BY <3>2
    <3>. QED  BY <3>2, <3>3
  <2> HIDE DEF n
  <2>3. v \in Nat /\ \A w \in asked : w <= v  BY <1>0, <2>1, GroupFacts DEF ValuesAsked
  <2>4. cur.value <= v /\ \A k \in Signals : pending_signals[k].value <= v
    <3>1. cur.value = 0 \/ cur.value \in asked  BY GroupFacts, <1>0 DEF ValuesAsked
    <3>. QED  BY <1>0, <2>3, <3>1 DEF ValuesAsked
  <2>5. ValuesAsked'
    <3>1. \A k \in Signals' : pending_signals'[k].value \in asked'
      BY <1>0, <2>1, <2>2 DEF ValuesAsked
    <3>2. (cur' # NoSignal => cur'.value \in asked') /\ (caller' # "idle" => want' \in asked')
      BY <1>0, <2>1 DEF ValuesAsked
    <3>. QED  BY <3>1, <3>2, <2>1, <2>3 DEF ValuesAsked
  <2>6. ASSUME NEW i \in Signals', NEW j \in Signals', i <= j
        PROVE  /\ cur'.value <= pending_signals'[i].value
               /\ pending_signals'[i].value <= pending_signals'[j].value
    <3>1. CASE i \in Signals /\ j \in Signals
      BY <3>1, <1>0, <2>1, <2>2, <2>6 DEF SignalsInOrder
    <3>2. CASE i \in Signals /\ j = n
      <4>1. cur.value <= pending_signals[i].value  BY <1>0, <2>2, <3>2 DEF SignalsInOrder
      <4>. QED  BY <3>2, <4>1, <2>1, <2>2, <2>4
    <3>3. CASE i = n /\ j = n
      BY <3>3, <2>1, <2>2, <2>3, <2>4
    <3>. QED  BY <2>2, <2>6, <3>1, <3>2, <3>3
  <2>. QED  BY <2>5, <2>6 DEF SignalsInOrder
<1>2. ASSUME NEW v \in Value, SleepDirect(v)  PROVE ValuesAsked' /\ SignalsInOrder'
  <2>1. /\ v >= want /\ want' = v /\ asked' = asked \cup {v} /\ cur' = cur
        /\ pending_signals' = pending_signals
    BY <1>2 DEF SleepDirect, NewCall, stVars, workVars
  <2>2. Signals' = Signals /\ SignalsInOrder'  BY <1>0, <2>1 DEF Signals, SignalsInOrder
  <2>3. v \in Nat /\ \A w \in asked : w <= v  BY <1>0, <2>1, GroupFacts DEF ValuesAsked
  <2>. QED  BY <1>0, <2>1, <2>2, <2>3 DEF ValuesAsked
<1>3. CASE Pop
  <2>1. /\ cur' = pending_signals[1] /\ asked' = asked /\ want' = want /\ caller' = caller
        /\ Signals' = 1 .. Len(pending_signals) - 1 /\ Len(pending_signals) \in Nat
        /\ \A i \in Signals' : i + 1 \in Signals /\ pending_signals'[i] = pending_signals[i + 1]
        /\ 1 \in Signals
    BY <1>0, <1>3, PopFacts DEF Pop, Signals, appVars
  <2>2. ValuesAsked'  BY <1>0, <2>1 DEF ValuesAsked
  <2>3. ASSUME NEW i \in Signals', NEW j \in Signals', i <= j
        PROVE  /\ cur'.value <= pending_signals'[i].value
               /\ pending_signals'[i].value <= pending_signals'[j].value
    <3>1. i \in Nat /\ j \in Nat /\ 1 <= i + 1 /\ i + 1 <= j + 1  BY <2>1, <2>3
    <3>. QED  BY <1>0, <2>1, <2>3, <3>1 DEF SignalsInOrder
  <2>. QED  BY <2>2, <2>3 DEF SignalsInOrder
<1>4. CASE /\ UNCHANGED <<pending_signals, asked, want>>
           /\ cur'.value = cur.value \/ cur' = NoSignal
           /\ cur' # NoSignal => cur # NoSignal
           /\ caller' # "idle" => caller # "idle"
  <2>1. Signals' = Signals  BY <1>4 DEF Signals
  <2>2. ValuesAsked'  BY <1>0, <1>4, <2>1, GroupFacts DEF ValuesAsked
  <2>3. ASSUME NEW i \in Signals, NEW j \in Signals, i <= j
        PROVE  /\ cur'.value <= pending_signals[i].value
               /\ pending_signals[i].value <= pending_signals[j].value
    BY <1>0, <1>4, <2>3, GroupFacts DEF SignalsInOrder
  <2>. QED  BY <1>4, <2>1, <2>2, <2>3 DEF SignalsInOrder
<1>. QED  BY <1>1, <1>2, <1>3, <1>4, ValuesStay

-----------------------------------------------------------------------------
(* The groups.                                                              *)

LEMMA GroupTypes ==
  ASSUME IInv
  PROVE  /\ settled \in Seq(Group) /\ cur.groups \in Seq(Group)
         /\ Taken \in Seq(Group) /\ pending_groups \in Seq(Group)
         /\ \A k \in Signals : Queued(k) \in Seq(Group)
<1>1. cur.groups \in Seq(Group)
  BY EmptySeq, GroupFacts DEF IInv, TypeOK, Signal
<1>2. \A k \in Signals : pending_signals[k] \in Signal
  BY ElementOfSeq, LenProperties DEF IInv, TypeOK, Signals
<1>3. \A k \in Signals : Queued(k) \in Seq(Group)
  BY <1>2 DEF Signal, Queued
<1>. QED  BY <1>1, <1>3, ConcatProperties DEF IInv, TypeOK, Taken

\* The worker hands on what it has taken; only a sleep call, attach_work and the
\* pop move a group from one place to another.
LEMMA GroupsStay ==
  ASSUME IInv, [Next]_vars
  PROVE  \/ \E v \in Value : SleepQueued(v)
         \/ attach_work
         \/ Pop
         \/ UNCHANGED <<Taken, pending_signals, pending_groups, attached>>
<1>0. settled \in Seq(Group) /\ cur.groups \in Seq(Group)  BY GroupTypes
<1>1. CASE DirectRead \/ DirectSend \/ (\E v \in Value : SleepDirect(v))
  BY <1>1 DEF DirectRead, DirectSend, SleepDirect, stVars, workVars, Taken
<1>2. CASE (\E b \in BOOLEAN : update_params(b)) \/ StoreStop \/ NotifyAll \/ Join
  BY <1>2 DEF update_params, StoreStop, NotifyAll, Join, stVars, workVars, Taken
<1>3. CASE Exit \/ CheckEmpty \/ Park \/ Deadline \/ StartDelay \/ EndDelay
  BY <1>3 DEF Exit, CheckEmpty, Park, Deadline, StartDelay, EndDelay, stVars, Taken
<1>4. CASE Popped
  <2>1. cur \in Signal  BY <1>4 DEF Popped, IInv, TypeOK, WorkerState, Holding
  <2>2. \A gs : [cur EXCEPT !.groups = gs].groups = gs  BY <2>1 DEF Signal
  <2>3. Taken' = Taken
    <3>1. settled \o cur.groups \in Seq(Group)  BY <1>0, ConcatProperties
    <3>2. (settled \o cur.groups) \o <<>> = settled \o cur.groups  BY <3>1, ConcatEmptySeq
    <3>3. CASE stop
      <4>1. settled' = settled \o cur.groups /\ cur'.groups = <<>>
        BY <1>4, <2>2, <3>3 DEF Popped
      <4>. QED  BY <3>2, <4>1 DEF Taken
    <3>4. CASE ~stop
      BY <1>4, <3>4 DEF Popped, Taken
    <3>. QED  BY <3>3, <3>4
  <2>. QED  BY <1>4, <2>3 DEF Popped, stVars
<1>5. CASE AwaitGroup
  <2>1. cur \in Signal  BY <1>5 DEF AwaitGroup, IInv, TypeOK, WorkerState, Holding
  <2>2. \A gs : [cur EXCEPT !.groups = gs].groups = gs  BY <2>1 DEF Signal
  <2>3. /\ cur.groups # <<>> /\ settled' = Append(settled, Head(cur.groups))
        /\ cur'.groups = Tail(cur.groups)
    BY <1>5, <2>2 DEF AwaitGroup
  <2>4. Taken' = Taken  BY <1>0, <2>3, HandOver DEF Taken
  <2>. QED  BY <1>5, <2>4 DEF AwaitGroup, stVars
<1>6. CASE WorkerRead \/ WorkerSend
  <2>1. cur.groups = <<>>  BY <1>6 DEF WorkerRead, WorkerSend, IInv, WorkerState
  <2>2. cur'.groups = <<>> /\ settled' = settled
    BY <1>6, <2>1, GroupFacts DEF WorkerRead, WorkerSend
  <2>. QED  BY <1>6, <2>1, <2>2 DEF WorkerRead, WorkerSend, stVars, Taken
<1>7. CASE (\E g \in Group : GpuDone(g)) \/ UNCHANGED vars
  BY <1>7 DEF GpuDone, vars, stVars, workVars, Taken
<1>. QED  BY <1>1, <1>2, <1>3, <1>4, <1>5, <1>6, <1>7 DEF Next, Work

\* notify_semaphore: the groups that wait for the call go to the end of the queue.
LEMMA QueueKeepsOrder ==
  ASSUME IInv, NEW v \in Value, SleepQueued(v)
  PROVE  GroupsInOrder'
<1>0. PICK n : n = Len(pending_signals) + 1  OBVIOUS
<1>1. /\ n \in Nat /\ Signals = 1 .. n - 1 /\ Signals' = Signals \cup {n}
      /\ \A k \in Signals : Queued(k)' = Queued(k)
      /\ Queued(n)' = pending_groups
  <2>1. QueueSignal(v) /\ TypeOK  BY DEF SleepQueued, IInv
  <2>2. /\ Len(pending_signals) \in Nat /\ Signals = 1 .. Len(pending_signals)
        /\ Signals' = Signals \cup {n}
        /\ \A i \in Signals : pending_signals'[i] = pending_signals[i]
        /\ pending_signals'[n] = [value |-> v, groups |-> pending_groups]
    BY <1>0, <2>1, QueueFacts
  <2>3. n \in Nat /\ Len(pending_signals) = n - 1  BY <1>0, <2>2
  <2>. QED  BY <2>2, <2>3 DEF Queued
<1>2. Taken' = Taken /\ pending_groups' = <<>> /\ attached' = attached
  BY DEF SleepQueued, TakeGroups, Taken
<1>3. Ascending(Taken) /\ Ascending(pending_groups) /\ Below(Taken, pending_groups)
  BY DEF IInv, GroupsInOrder
<1>4. ASSUME NEW k \in Signals'
      PROVE  /\ Ascending(Queued(k)') /\ Below(Taken', Queued(k)')
             /\ Below(Queued(k)', pending_groups')
             /\ \A l \in Signals' : k < l => Below(Queued(k)', Queued(l)')
  <2>1. Below(Queued(k)', pending_groups')  BY <1>2, OfEmpty
  <2>2. CASE k = n
    <3>1. \A l \in Signals' : ~(k < l)  BY <1>1, <2>2
    <3>. QED  BY <1>1, <1>2, <1>3, <2>1, <2>2, <3>1
  <2>3. CASE k \in Signals
    <3>1. Ascending(Queued(k)) /\ Below(Taken, Queued(k)) /\ Below(Queued(k), pending_groups)
      BY <2>3 DEF IInv, GroupsInOrder
    <3>2. \A l \in Signals : k < l => Below(Queued(k), Queued(l))
      BY <2>3 DEF IInv, GroupsInOrder
    <3>. QED  BY <1>1, <1>2, <2>1, <2>3, <3>1, <3>2
  <2>. QED  BY <1>1, <2>2, <2>3
<1>5. ASSUME NEW g \in Group
      PROVE  g <= attached <=> \/ Holds(Taken', g) \/ Holds(pending_groups', g)
                               \/ \E k \in Signals' : Holds(Queued(k)', g)
  <2>1. ~Holds(pending_groups', g)  BY <1>2, OfEmpty
  <2>2. (\E k \in Signals' : Holds(Queued(k)', g))
          <=> Holds(pending_groups, g) \/ \E k \in Signals : Holds(Queued(k), g)
    BY <1>1
  <2>3. g <= attached <=> \/ Holds(Taken, g) \/ Holds(pending_groups, g)
                          \/ \E k \in Signals : Holds(Queued(k), g)
    BY DEF IInv, GroupsInOrder
  <2>4. Holds(Taken', g) <=> Holds(Taken, g)  BY <1>2
  <2>. QED  BY <2>1, <2>2, <2>3, <2>4, Zenon
<1>6. Ascending(pending_groups') /\ Below(Taken', pending_groups')  BY <1>2, OfEmpty
<1>7. Ascending(Taken')  BY <1>2, <1>3
<1>. QED  BY <1>2, <1>4, <1>5, <1>6, <1>7 DEF GroupsInOrder

\* attach_work: the new group is above all the others.
LEMMA AttachKeepsOrder ==
  ASSUME IInv, attach_work
  PROVE  GroupsInOrder'
<1> DEFINE e == attached + 1
<1>1. e \in Group /\ attached \in Nat /\ attached' = e
  BY MonitorAssumption DEF attach_work, IInv, TypeOK, Group
<1>2. /\ pending_groups \in Seq(Group) /\ Taken \in Seq(Group)
      /\ \A k \in Signals : Queued(k) \in Seq(Group)
  BY GroupTypes
<1>3. pending_groups' = pending_groups \o <<e>>
  BY <1>1, <1>2, AppendAsConcat DEF attach_work
<1>4. Taken' = Taken /\ Signals' = Signals /\ \A k \in Signals : Queued(k)' = Queued(k)
  BY DEF attach_work, workVars, Taken, Signals, Queued
<1> HIDE DEF e
<1>5. ASSUME NEW s \in Seq(Group),
             \A g \in Group : Holds(s, g) => g <= attached
      PROVE  Below(s, <<e>>)
  <2>1. \A i \in DOMAIN s : s[i] \in Group /\ Holds(s, s[i])
    BY ElementOfSeq, LenProperties DEF Holds
  <2>2. \A i \in DOMAIN s : s[i] \in Nat /\ s[i] <= attached  BY <1>5, <2>1, GroupFacts
  <2>3. \A i \in DOMAIN s : s[i] < e  BY <1>1, <2>2 DEF e
  <2>. QED  BY <1>1, <2>3, OfOne
<1>6. \A g \in Group :
        g <= attached <=> \/ Holds(Taken, g) \/ Holds(pending_groups, g)
                          \/ \E k \in Signals : Holds(Queued(k), g)
  BY DEF IInv, GroupsInOrder
<1>7. /\ Below(Taken, <<e>>) /\ Below(pending_groups, <<e>>)
      /\ \A k \in Signals : Below(Queued(k), <<e>>)
  <2>1. ASSUME NEW k \in Signals PROVE Below(Queued(k), <<e>>)
    <3>1. \A g \in Group : Holds(Queued(k), g) => g <= attached  BY <1>6
    <3>. QED  BY <1>2, <1>5, <3>1
  <2>2. Below(Taken, <<e>>) /\ Below(pending_groups, <<e>>)
    <3>1. \A g \in Group : Holds(Taken, g) => g <= attached  BY <1>6
    <3>2. \A g \in Group : Holds(pending_groups, g) => g <= attached  BY <1>6
    <3>. QED  BY <1>2, <1>5, <3>1, <3>2
  <2>. QED  BY <2>1, <2>2
<1>8. Ascending(pending_groups') /\ Below(Taken, pending_groups')
  <2>1. Ascending(pending_groups) /\ Below(Taken, pending_groups)
    BY DEF IInv, GroupsInOrder
  <2>. QED  BY <1>1, <1>2, <1>3, <1>7, <2>1, OfOne, OfConcat
<1>9. \A k \in Signals : Below(Queued(k), pending_groups')
  <2>1. \A k \in Signals : Below(Queued(k), pending_groups)  BY DEF IInv, GroupsInOrder
  <2>. QED  BY <1>1, <1>2, <1>3, <1>7, <2>1, OfOne, OfConcat
<1>10. ASSUME NEW g \in Group
       PROVE  g <= e <=> \/ Holds(Taken, g) \/ Holds(pending_groups', g)
                         \/ \E k \in Signals : Holds(Queued(k), g)
  <2>1. Holds(pending_groups', g) <=> Holds(pending_groups, g) \/ g = e
    BY <1>1, <1>2, <1>3, OfOne, OfConcat
  <2>2. g <= e <=> g <= attached \/ g = e  BY <1>1, GroupFacts DEF e
  <2>3. g <= attached <=> \/ Holds(Taken, g) \/ Holds(pending_groups, g)
                          \/ \E k \in Signals : Holds(Queued(k), g)
    BY <1>6
  <2>. QED  BY <2>1, <2>2, <2>3, Zenon
<1>11. Ascending(Taken)
       /\ \A k \in Signals : /\ Ascending(Queued(k)) /\ Below(Taken, Queued(k))
                             /\ \A l \in Signals : k < l => Below(Queued(k), Queued(l))
  BY DEF IInv, GroupsInOrder
<1>. QED  BY <1>1, <1>4, <1>8, <1>9, <1>10, <1>11 DEF GroupsInOrder

\* The pop: the groups of the oldest signal come next in the worker's hands.
LEMMA PopKeepsOrder ==
  ASSUME IInv, Pop
  PROVE  GroupsInOrder'
<1>1. /\ 1 \in Signals /\ Signals = 1 .. Len(pending_signals) /\ Len(pending_signals) \in Nat
      /\ Signals' = 1 .. Len(pending_signals) - 1
      /\ \A k \in Signals' : k + 1 \in Signals /\ Queued(k)' = Queued(k + 1)
      /\ cur'.groups = Queued(1)
  <2>1. TypeOK /\ pending_signals # <<>>  BY DEF Pop, IInv
  <2>2. /\ pending_signals' = Tail(pending_signals) /\ cur' = pending_signals[1]
    BY <2>1, PopFacts DEF Pop
  <2>3. Signals = 1 .. Len(pending_signals)  BY <2>1, LenProperties DEF TypeOK, Signals
  <2>. QED  BY <2>1, <2>2, <2>3, PopFacts DEF Signals, Queued
<1>2. pending_groups' = pending_groups /\ attached' = attached /\ settled' = settled
  BY DEF Pop
<1>3. /\ Taken \in Seq(Group) /\ pending_groups \in Seq(Group) /\ settled \in Seq(Group)
      /\ \A k \in Signals : Queued(k) \in Seq(Group)
  BY GroupTypes
<1>4. Taken' = Taken \o Queued(1)
  <2>1. cur.groups = <<>>  BY GroupFacts DEF Pop, IInv, WorkerState, Holding
  <2>2. Taken = settled  BY <1>3, <2>1, ConcatEmptySeq DEF Taken
  <2>. QED  BY <1>1, <1>2, <2>2 DEF Taken
<1>5. /\ Ascending(Taken) /\ Ascending(pending_groups) /\ Below(Taken, pending_groups)
      /\ \A k \in Signals :
           /\ Ascending(Queued(k)) /\ Below(Taken, Queued(k)) /\ Below(Queued(k), pending_groups)
           /\ \A l \in Signals : k < l => Below(Queued(k), Queued(l))
  BY DEF IInv, GroupsInOrder
<1>6. Ascending(Taken') /\ Below(Taken', pending_groups)
  BY <1>1, <1>3, <1>4, <1>5, OfConcat
<1>7. ASSUME NEW k \in Signals'
      PROVE  /\ Ascending(Queued(k)') /\ Below(Taken', Queued(k)')
             /\ Below(Queued(k)', pending_groups)
             /\ \A l \in Signals' : k < l => Below(Queued(k)', Queued(l)')
  <2>1. k \in Nat /\ k + 1 \in Signals /\ 1 < k + 1 /\ Queued(k)' = Queued(k + 1)  BY <1>1
  <2>2. Below(Queued(1), Queued(k + 1)) /\ Below(Taken, Queued(k + 1))  BY <1>1, <1>5, <2>1
  <2>3. Below(Taken', Queued(k)')  BY <1>1, <1>3, <1>4, <2>1, <2>2, OfConcat
  <2>4. ASSUME NEW l \in Signals', k < l  PROVE Below(Queued(k)', Queued(l)')
    <3>1. l + 1 \in Signals /\ k + 1 < l + 1 /\ Queued(l)' = Queued(l + 1)  BY <1>1, <2>1, <2>4
    <3>. QED  BY <1>5, <2>1, <3>1
  <2>. QED  BY <1>5, <2>1, <2>3, <2>4
<1>8. ASSUME NEW g \in Group
      PROVE  g <= attached <=> \/ Holds(Taken', g) \/ Holds(pending_groups, g)
                               \/ \E k \in Signals' : Holds(Queued(k)', g)
  <2>1. Holds(Taken', g) <=> Holds(Taken, g) \/ Holds(Queued(1), g)
    BY <1>1, <1>3, <1>4, OfConcat
  <2>2. (\E k \in Signals : Holds(Queued(k), g))
          <=> Holds(Queued(1), g) \/ \E k \in Signals' : Holds(Queued(k)', g)
    <3>1. ASSUME NEW k \in Signals, k # 1
          PROVE  k - 1 \in Signals' /\ Queued(k - 1)' = Queued(k)
      <4>1. k - 1 \in Signals' /\ (k - 1) + 1 = k  BY <1>1, <3>1
      <4>. QED  BY <1>1, <4>1
    <3>. QED  BY <1>1, <3>1
  <2>3. g <= attached <=> \/ Holds(Taken, g) \/ Holds(pending_groups, g)
                          \/ \E k \in Signals : Holds(Queued(k), g)
    BY DEF IInv, GroupsInOrder
  <2>. QED  BY <2>1, <2>2, <2>3, Zenon
<1>. QED  BY <1>2, <1>5, <1>6, <1>7, <1>8 DEF GroupsInOrder

LEMMA GroupsKept == IInv /\ [Next]_vars => GroupsInOrder'
<1> SUFFICES ASSUME IInv, [Next]_vars PROVE GroupsInOrder'
  OBVIOUS
<1>1. CASE UNCHANGED <<Taken, pending_signals, pending_groups, attached>>
  <2>1. Signals' = Signals /\ \A k : Queued(k)' = Queued(k)  BY <1>1 DEF Signals, Queued
  <2>. QED  BY <1>1, <2>1 DEF IInv, GroupsInOrder
<1>. QED  BY <1>1, GroupsStay, QueueKeepsOrder, AttachKeepsOrder, PopKeepsOrder

-----------------------------------------------------------------------------
(* Theorems                                                                 *)

LEMMA InitSound == Init => IInv
<1> SUFFICES ASSUME Init PROVE IInv
  OBVIOUS
<1>1. TypeOK
  <2>1. <<>> \in Seq(Group) /\ <<>> \in Seq(Signal)  BY EmptySeq
  <2>2. 0 \in 0 .. MaxCalls /\ 0 \in 0 .. MaxGroups  BY MonitorAssumption
  <2>. QED  BY <2>1, <2>2 DEF Init, TypeOK
<1>2. Signals = {}
  <2>1. DOMAIN <<>> = {}  OBVIOUS
  <2>. QED  BY <2>1 DEF Init, Signals
<1>3. WorkerState /\ ValuesAsked /\ SignalsInOrder
  BY <1>2 DEF Init, WorkerState, Holding, ValuesAsked, SignalsInOrder
<1>4. Taken = <<>> /\ pending_groups = <<>> /\ attached = 0
  BY EmptySeq, ConcatEmptySeq, GroupFacts DEF Init, Taken
<1>5. \A g \in Group : ~(g <= attached)  BY <1>4, MonitorAssumption DEF Group
<1>6. GroupsInOrder  BY <1>2, <1>4, <1>5, OfEmpty DEF GroupsInOrder
<1>. QED  BY <1>1, <1>3, <1>6 DEF IInv

THEOREM Invariance == Spec => []IInv
<1>1. IInv /\ [Next]_vars => IInv'
  BY TypeKept, ValuesKept, GroupsKept DEF IInv
<1>. QED  BY InitSound, <1>1, PTL DEF Spec

\* Each variable has its type, however the application's threads, the worker and
\* the GPU take turns.
THEOREM TypeCorrect == Spec => []TypeOK
<1>1. IInv => TypeOK  BY DEF IInv
<1>. QED  BY <1>1, Invariance, PTL

\* A group that the worker becomes done with is complete, or its frame's budget
\* has run out, or the monitor is being dropped (run).
LEMMA SettledIsOver ==
  ASSUME IInv, [Next]_vars, NEW g \in Group, ~Holds(settled, g), Holds(settled', g)
  PROVE  g \in done \/ late \/ stop
<1>1. CASE Popped
  BY <1>1 DEF Popped
<1>2. CASE AwaitGroup
  <2>1. Head(cur.groups) \in Group /\ settled' = settled \o <<Head(cur.groups)>>
    BY <1>2, GroupTypes, HeadTailProperties, AppendAsConcat DEF AwaitGroup
  <2>2. g = Head(cur.groups)  BY <2>1, GroupTypes, OfOne, OfConcat
  <2>. QED  BY <1>2, <2>2 DEF AwaitGroup, GroupOver
<1>3. CASE settled' = settled
  BY <1>3
<1>. QED
  BY <1>1, <1>2, <1>3
     DEF Next, vars, SleepQueued, SleepDirect, DirectRead, DirectSend, update_params, attach_work,
         StoreStop, NotifyAll, Join, Work, Pop, Exit, CheckEmpty, Park, Deadline, StartDelay,
         EndDelay, WorkerRead, WorkerSend, GpuDone, workVars

\* The worker handles the frames in the order the application presented them
\* and asked to sleep, none twice and none forgotten, whatever the number of
\* threads' calls between its steps (attach_work, notify_semaphore, run).
THEOREM FramesInOrder == Spec => WorkInOrder
<1>1. IInv => GroupsInOrder /\ SignalsInOrder  BY DEF IInv
<1>2. IInv /\ [Next]_vars =>
        [\A g \in Group :
           (~Holds(settled, g) /\ Holds(settled', g)) => g \in done \/ late \/ stop]_vars
  BY SettledIsOver
<1>. QED  BY <1>1, <1>2, Invariance, PTL DEF Spec, WorkInOrder

\* Every step is one that LatencySleep allows: the semaphore only moves up, only
\* to values that were asked for, whichever of the two threads signals it
\* (SemaphoreSignal::signal).
THEOREM SignalsOnlyAsked == Spec => Sleep!Init /\ [][Sleep!Next]_(Sleep!vars)
<1>1. Init => Sleep!Init  BY DEF Init, Sleep!Init
<1>2. IInv /\ [Next]_vars => [Sleep!Next]_(Sleep!vars)
  <2> SUFFICES ASSUME IInv, [Next]_vars PROVE [Sleep!Next]_(Sleep!vars)
    OBVIOUS
  <2>1. ASSUME NEW v \in Value, SleepQueued(v) \/ SleepDirect(v)  PROVE Sleep!Next
    <3>1. asked' = asked \cup {v} /\ sem' = sem
      BY <2>1 DEF SleepQueued, SleepDirect, NewCall
    <3>. QED  BY <3>1 DEF Sleep!Next, Sleep!Ask
  <2>2. ASSUME NEW v \in asked, SignalSemaphore(v), asked' = asked
        PROVE  [Sleep!Next]_(Sleep!vars)
    <3>1. v \in Value  BY <2>2 DEF IInv, TypeOK
    <3>. QED  BY <2>2, <3>1 DEF SignalSemaphore, Sleep!Next, Sleep!Reach, Sleep!vars
  <2>3. CASE DirectSend
    <3>1. want \in asked  BY <2>3 DEF DirectSend, IInv, ValuesAsked
    <3>. QED  BY <2>2, <2>3, <3>1 DEF DirectSend
  <2>4. CASE WorkerSend
    <3>1. cur.value \in asked  BY <2>4 DEF WorkerSend, IInv, WorkerState, Holding, ValuesAsked
    <3>. QED  BY <2>2, <2>4, <3>1 DEF WorkerSend, appVars
  <2>5. CASE UNCHANGED <<asked, sem>>
    BY <2>5 DEF Sleep!vars
  <2>. QED
    BY <2>1, <2>3, <2>4, <2>5
       DEF Next, vars, DirectRead, update_params, attach_work, StoreStop, NotifyAll, Join, Work,
           Pop, Exit, CheckEmpty, Park, Popped, AwaitGroup, Deadline, StartDelay, EndDelay,
           WorkerRead, GpuDone, appVars
<1>. QED  BY <1>1, <1>2, Invariance, PTL DEF Spec
=============================================================================
