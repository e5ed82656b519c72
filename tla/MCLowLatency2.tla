---------------------------- MODULE MCLowLatency2 ----------------------------
(* LowLatency2 for TLC: queues, swapchains and presenters are interchangeable. *)
EXTENDS LowLatency2, TLC

Symmetry == Permutations(Queues) \cup Permutations(Swapchains) \cup Permutations(Presenters)
=============================================================================
