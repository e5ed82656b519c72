---------------------------- MODULE LatencySleep ----------------------------
(***************************************************************************)
(* What vkLatencySleepNV promises the application: the timeline semaphore  *)
(* only ever moves up, only to values that were asked for, and reaches     *)
(* every value that was asked for.                                         *)
(***************************************************************************)
EXTENDS Integers

CONSTANT Value                  \* semaphore values an application asks for

VARIABLES asked,                \* the values asked for so far
          sem                   \* the semaphore's counter

vars == <<asked, sem>>

Init == asked = {} /\ sem = 0

Ask(v) == asked' = asked \cup {v} /\ UNCHANGED sem

Reach(v) == v \in asked /\ v > sem /\ sem' = v /\ UNCHANGED asked

Next == \E v \in Value : Ask(v) \/ Reach(v)

NeverStuck == \A v \in Value : v \in asked ~> sem >= v

Spec == Init /\ [][Next]_vars /\ NeverStuck
=============================================================================
