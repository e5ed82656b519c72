----------------------------- MODULE RecentFrames -----------------------------
(***************************************************************************)
(* What a marker history promises its readers: the frames it shows are the *)
(* last Cap that were new, each once, in the order in which they were new, *)
(* and nothing but a marker of an unknown frame ever changes which frames  *)
(* are shown.                                                              *)
(***************************************************************************)
EXTENDS Integers, Sequences

CONSTANTS Ids, Cap

VARIABLE recent                 \* the ids shown, oldest first

Init == recent = <<>>

Shown(id) == \E i \in 1 .. Len(recent) : recent[i] = id

\* A marker of an unknown frame makes room, if there is none, and shows it.
New(id) == /\ ~Shown(id)
           /\ recent' = IF Len(recent) < Cap
                          THEN Append(recent, id)
                          ELSE Append(Tail(recent), id)

Next == \E id \in Ids : New(id)

Spec == Init /\ [][Next]_recent
=============================================================================
