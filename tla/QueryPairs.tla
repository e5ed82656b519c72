---------------------------- MODULE QueryPairs ----------------------------
(***************************************************************************)
(* What a timestamp pool promises about its query pairs, whoever its       *)
(* threads are: a pair is handed out only when nobody holds it and the GPU *)
(* is done with the commands that were last recorded for it.               *)
(***************************************************************************)
CONSTANT Id             \* query pairs

VARIABLES held,         \* handed out, the holder may still use it
          retired,      \* given up by its holder, not yet usable again
          gone,         \* lost for good
          busy          \* its commands are on the GPU

vars == <<held, retired, gone, busy>>

Init == held = {} /\ retired = {} /\ gone = {} /\ busy = {}

HandOut(p) == /\ p \notin held \cup retired \cup gone \cup busy
              /\ held' = held \cup {p}
              /\ UNCHANGED <<retired, gone, busy>>

Submit(S) == /\ S \subseteq held \ busy
             /\ busy' = busy \cup S
             /\ UNCHANGED <<held, retired, gone>>

Finish(S) == busy' = busy \ S /\ UNCHANGED <<held, retired, gone>>

GiveUp(p) == /\ p \in held
             /\ held' = held \ {p}
             /\ retired' = retired \cup {p}
             /\ UNCHANGED <<gone, busy>>

Lose(p) == /\ p \in held \ busy
           /\ held' = held \ {p}
           /\ gone' = gone \cup {p}
           /\ UNCHANGED <<retired, busy>>

Reclaim(p) == /\ p \in retired \ busy
              /\ retired' = retired \ {p}
              /\ UNCHANGED <<held, gone, busy>>

Next == \/ \E p \in Id : HandOut(p) \/ GiveUp(p) \/ Lose(p) \/ Reclaim(p)
        \/ \E S \in SUBSET Id : Submit(S) \/ Finish(S)

Spec == Init /\ [][Next]_vars
=============================================================================
