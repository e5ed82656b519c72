---------------------------- MODULE MarkerHistory ----------------------------
(***************************************************************************)
(* markers.rs: the ring of the frames an application set latency markers   *)
(* for, with its index from present id to frame.  Threads of the           *)
(* application record markers; the swapchain monitor's worker adds the GPU *)
(* times of a frame and the present-wait worker its display time, both of  *)
(* them possibly long after the frame has left the ring.  Each of these    *)
(* runs under the history's one mutex, so each is one step.                *)
(*                                                                         *)
(* Times are whole microseconds and 0 means "not recorded".  record reads  *)
(* the clock before it takes the mutex, so the times of two threads may be *)
(* stored in either order: a time is any member of Time.  The markers that *)
(* are stored in a field of their own and then only copied to the report   *)
(* (SIMULATION_*, RENDERSUBMIT_*, PRESENT_START) are one marker here.      *)
(***************************************************************************)
EXTENDS Integers, Sequences

CONSTANTS PresentIds,   \* the present ids used; 0 stands for "not known yet"
          HistoryCap,   \* HISTORY_CAP (128 in the code)
          Time,         \* the times the clock can show
          MaxFrames     \* bound: frames pushed

ASSUME HistoryAssumption ==
  /\ PresentIds \subseteq Nat
  /\ HistoryCap \in Nat \ {0}
  /\ Time \subseteq Nat \ {0}
  /\ MaxFrames \in Nat

Marker == {"INPUT_SAMPLE", "STAGE", "PRESENT_END", "OUT_OF_BAND"}
Stamp  == Time \cup {0}

NoFrame == -1

\* FrameMarkers.  gpu_render and the display time are worth the id of the
\* frame they were measured for: what matters is which frame they end up in.
Frame == [present_id     : PresentIds,
          input_sample   : Stamp,
          stage          : BOOLEAN,
          present_end    : Stamp,
          display_actual : Stamp,
          displayed      : PresentIds \cup {NoFrame},
          gpu_render     : PresentIds \cup {NoFrame}]

VARIABLES frames,         \* the ring, oldest frame first
          by_present_id,  \* present id -> absolute number of its frame
          head_index      \* absolute number of the oldest frame

vars == <<frames, by_present_id, head_index>>

Known == DOMAIN by_present_id

TypeOK == /\ frames \in Seq(Frame)
          /\ head_index \in Nat
          /\ Known \subseteq PresentIds
          /\ by_present_id \in [Known -> Nat]

Init == frames = <<>> /\ by_present_id = [id \in {} |-> 0] /\ head_index = 0

\* The index into the ring (1 is the oldest) of a frame that is known.
Slot(id) == by_present_id[id] - head_index + 1

Fresh(id) == [present_id |-> id, input_sample |-> 0, stage |-> FALSE, present_end |-> 0,
              display_actual |-> 0, displayed |-> NoFrame, gpu_render |-> NoFrame]

Stamped(frame, marker, now_us) ==
  [frame EXCEPT !.input_sample = IF marker = "INPUT_SAMPLE" THEN now_us ELSE @,
                !.stage        = @ \/ marker = "STAGE",
                !.present_end  = IF marker = "PRESENT_END" THEN now_us ELSE @]

\* What is left once an eviction has made room: the frames, the number of the
\* oldest one, and the known ids.
Full == Len(frames) = HistoryCap

Slip_DropNewest == IF Full THEN SubSeq(frames, 1, HistoryCap - 1) ELSE frames

Kept == IF Full THEN Tail(frames) ELSE frames

Slip_HeadStays == head_index
Slip_HeadBack  == IF Full THEN head_index - 1 ELSE head_index

KeptHead == IF Full THEN head_index + 1 ELSE head_index

Slip_EvictedStaysKnown == Known

KeptIds == IF Full THEN Known \ {Head(frames).present_id} ELSE Known

record(id, marker, now_us) ==
  \/ /\ id \in Known
     /\ frames' = [frames EXCEPT ![Slot(id)] = Stamped(@, marker, now_us)]
     /\ UNCHANGED <<by_present_id, head_index>>
  \/ /\ id \notin Known
     /\ head_index + Len(frames) < MaxFrames
     /\ frames' = Append(Kept, Stamped(Fresh(id), marker, now_us))
     /\ head_index' = KeptHead
     /\ by_present_id' = [k \in KeptIds \cup {id} |->
                            IF k = id THEN KeptHead + Len(Kept) ELSE by_present_id[k]]

\* The two below do nothing for a frame that has left the ring.
record_gpu_timing(id) ==
  /\ id \in Known
  /\ frames' = [frames EXCEPT ![Slot(id)].gpu_render = id]
  /\ UNCHANGED <<by_present_id, head_index>>

record_present_actual(id, actual) ==
  /\ id \in Known
  /\ frames' = [frames EXCEPT ![Slot(id)] =
                  [@ EXCEPT !.display_actual = actual, !.displayed = id]]
  /\ UNCHANGED <<by_present_id, head_index>>

Next == \E id \in PresentIds :
          \/ \E marker \in Marker, now_us \in Time : record(id, marker, now_us)
          \/ record_gpu_timing(id)
          \/ \E actual \in Time : record_present_actual(id, actual)

Spec == Init /\ [][Next]_vars

-----------------------------------------------------------------------------
(* What is read out of the ring. *)

\* fill: the report of at most timing_count frames, newest first, and the
\* count it writes when there is no buffer.
Report(f) == [present_id |-> f.present_id, input_sample |-> f.input_sample,
              present_end |-> IF f.present_end # 0 THEN f.present_end ELSE f.display_actual,
              gpu_render |-> f.gpu_render]

Least(m, n) == IF m <= n THEN m ELSE n

Slip_OldestFirst(timing_count) ==
  [i \in 1 .. Least(timing_count, Len(frames)) |-> Report(frames[i])]

fill(timing_count) ==
  [i \in 1 .. Least(timing_count, Len(frames)) |-> Report(frames[Len(frames) + 1 - i])]

fill_null == Len(frames)

\* Click-to-photon of a frame; it is measurable when the end is the later.
End(f) == IF f.display_actual # 0 THEN f.display_actual ELSE f.present_end
Latency(f) == End(f) - f.input_sample
Measurable(f) == f.input_sample # 0 /\ End(f) > f.input_sample

Slip_NewestOnly == IF frames # <<>> /\ Measurable(frames[Len(frames)])
                     THEN Latency(frames[Len(frames)]) ELSE 0

latest_latency_us ==
  LET M == {i \in 1 .. Len(frames) : Measurable(frames[i])}
  IN IF M = {} THEN 0
     ELSE Latency(frames[CHOOSE i \in M : \A j \in M : j <= i])

\* The window: the latencies of the first i frames, for each i.
Window == LET window[i \in 0 .. Len(frames)] ==
                IF i = 0 THEN <<>>
                ELSE IF Measurable(frames[i]) THEN Append(window[i - 1], Latency(frames[i]))
                                              ELSE window[i - 1]
          IN window
latencies_us == Window[Len(frames)]

-----------------------------------------------------------------------------
(* Properties. *)

\* The index and the ring agree: the known ids are those of the frames, and
\* the number of each leads back to its frame.  This is what keeps the slot
\* computed by record, record_gpu_timing and record_present_actual (a checked
\* subtraction and a checked index) inside the ring and on the right frame.
IndexCoherent ==
  /\ Len(frames) <= HistoryCap
  /\ Known = {frames[i].present_id : i \in 1 .. Len(frames)}
  /\ \A i \in 1 .. Len(frames) : by_present_id[frames[i].present_id] = head_index + i - 1

\* A measurement that arrives late is never stored in another frame's entry,
\* whatever was evicted and re-created in between.
OwnTimes ==
  \A i \in 1 .. Len(frames) :
    /\ frames[i].gpu_render \in {NoFrame, frames[i].present_id}
    /\ frames[i].displayed \in {NoFrame, frames[i].present_id}

\* The two-call protocol: given the room that the first call asked for, the
\* second one reports everything, and with less or more room no more than
\* fits.  The report goes back frame by frame from the newest, none left out
\* and none twice.
ReportNewestFirst ==
  \A room \in 0 .. HistoryCap + 1 :
    /\ Len(fill(room)) = Least(room, fill_null)
    /\ \A i \in 1 .. Len(fill(room)) :
         by_present_id[fill(room)[i].present_id] = head_index + Len(frames) - i

\* The latency in a present's telemetry record is the newest of the window
\* that the statistics are computed from: two pieces of code, one measure.
LatestEndsWindow ==
  latest_latency_us = IF latencies_us = <<>> THEN 0 ELSE latencies_us[Len(latencies_us)]

\* The ring is a history of the most recent frames (RecentFrames).
Recent == INSTANCE RecentFrames
            WITH Ids <- PresentIds, Cap <- HistoryCap,
                 recent <- [i \in 1 .. Len(frames) |-> frames[i].present_id]
ShowsRecent == Recent!Spec
=============================================================================
