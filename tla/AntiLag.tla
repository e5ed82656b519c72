------------------------------- MODULE AntiLag -------------------------------
(***************************************************************************)
(* strategy/anti_lag.rs, delay_controller.rs and the pacing targets of     *)
(* device.rs.  The application calls vkAntiLagUpdateAMD at the input of a  *)
(* frame, which returns when the work collected so far is done and the     *)
(* frame is paced, and at its present.  A simulation thread makes the      *)
(* first kind of call and a render thread submits and presents; the        *)
(* simulation may run ahead of the renderer.                               *)
(*                                                                         *)
(* Time is the host clock.  A submission is its number; those of a queue   *)
(* complete in order.  The markers that the calls also record are record   *)
(* and record_present_actual of MarkerHistory, and are left out here.      *)
(***************************************************************************)
EXTENDS Integers, Sequences

CONSTANTS Queues,
          AppDelays,    \* minimum delays by max_fps, 0 for no limit
          FpsCap,       \* minimum delay by the fps_cap of the configuration
          VrrTargets,   \* minimum delays by the refresh rate of a display
          JitterParts,  \* the jitter is this part of the frame time (50)
          NoSpan,
          MaxAhead,     \* frames the simulation runs ahead of the renderer
          MaxFrames,    \* bound: INPUT calls
          MaxSubmits,   \* bound: submissions
          MaxTime       \* bound: time, of which a submission takes Share

ASSUME AntiLagAssumption ==
  /\ AppDelays \subseteq Nat /\ FpsCap \in Nat /\ VrrTargets \subseteq Nat \ {0}
  /\ JitterParts \in Nat \ {0} /\ MaxAhead \in Nat
  /\ MaxFrames \in Nat /\ MaxSubmits \in Nat /\ MaxTime \in Nat

VARIABLES
  now,
  clock,        \* the device has a clock to read timestamps with
  decoupled,    \* is_simulation_decoupled
  vrr,          \* vrr_target_delay_ns, 0 until it is known
  enabled, frame_index,   \* State, 0 for None
  previous, drain,        \* DelayController: the frame before; drain_ns
  span,         \* queue -> the first and the last submission not waited for
  submits,      \* every submission: its queue and frame, and was it collected
  submitting,   \* the render thread is in vkQueueSubmit: the queue, NoSpan if not
  done,         \* submissions that the GPU completed
  input, presented,  \* frames whose INPUT, PRESENT was called
  update,       \* the position of the INPUT call
  min_delay, visit, work, deadline,  \* its locals
  frametime,    \* DelayController::delay: the time since the last release
  asked,        \* (history) submissions notified when it was called
  pausing,      \* (history) when its last pause began
  longest,      \* (history) the longest frame time measured
  inTurn,       \* (history) was every frame before it presented when it was called
  orderly       \* (history) no call since the INPUT of this frame left the order

ctlVars  == <<enabled, frame_index, previous, drain>>
cfgVars  == <<clock, decoupled, vrr>>
appVars  == <<input, presented, orderly, submitting>>
paceVars == <<deadline, frametime, pausing, longest>>
callVars == <<update, min_delay, visit, work, asked, inTurn, paceVars>>
vars == <<now, cfgVars, ctlVars, span, submits, done, appVars, callVars>>

Frame == 1 .. MaxFrames
Time  == 0 .. MaxTime
Spans == [first : Nat, last : Nat]
ASSUME NoSpanAssumption == NoSpan \notin Queues /\ NoSpan \notin Spans
NoDelay == [app |-> 0, layer |-> 0]
NoFrame == [frametime |-> 0, jitter |-> 0, release |-> -1]

TypeOK ==
  /\ now \in Time /\ clock \in BOOLEAN /\ decoupled \in BOOLEAN
  /\ vrr \in VrrTargets \cup {0}
  /\ enabled \in BOOLEAN /\ frame_index \in Frame \cup {0}
  /\ previous \in [frametime : Time, jitter : Time, release : Time] \cup {NoFrame}
  /\ drain \in Time
  /\ span \in [Queues -> Spans \cup {NoSpan}]
  /\ submits \in Seq([queue : Queues, frame : Frame, collected : BOOLEAN])
  /\ submitting \in Queues \cup {NoSpan}
  /\ done \subseteq DOMAIN submits
  /\ input \in 0 .. MaxFrames /\ presented \in 0 .. input
  /\ update \in {"idle", "take", "await", "lock", "pace", "pause"}
  /\ min_delay \in [app : AppDelays \cup {0}, layer : Nat] /\ visit \subseteq Queues
  /\ work \subseteq Spans /\ deadline \in Nat /\ pausing \in Time
  /\ frametime \in Time /\ longest \in Time /\ asked \in Nat
  /\ orderly \in BOOLEAN /\ inTurn \in BOOLEAN

Init ==
  /\ now = 0 /\ clock \in BOOLEAN /\ decoupled \in BOOLEAN
  /\ vrr = 0
  /\ enabled = FALSE /\ frame_index = 0 /\ previous = NoFrame /\ drain = 0
  /\ span = [q \in Queues |-> NoSpan]
  /\ submits = <<>> /\ submitting = NoSpan /\ done = {}
  /\ input = 0 /\ presented = 0 /\ orderly = FALSE /\ inTurn = FALSE
  /\ update = "idle"
  /\ min_delay = NoDelay /\ visit = {} /\ work = {}
  /\ deadline = 0 /\ asked = 0 /\ pausing = 0
  /\ frametime = 0 /\ longest = 0

Longer(a, b) == IF a >= b THEN a ELSE b
Shorter(a, b) == IF a <= b THEN a ELSE b

\* delay() runs with the state locked, from "lock" to the return of the call.
StateFree == update \notin {"pace", "pause"}

Share == 2
InBounds(t, n) == n <= MaxSubmits /\ t + Share * n <= MaxTime

Tick == /\ InBounds(now + 1, Len(submits))
        /\ now' = now + 1
        /\ UNCHANGED <<cfgVars, ctlVars, span, submits, done, appVars, callVars>>

-----------------------------------------------------------------------------
(* The render thread. *)

\* should_inject_for_submit, then the driver has the submission.
should_track_submissions == enabled /\ frame_index # 0

queue_submit(q) ==
  /\ submitting = NoSpan /\ StateFree /\ InBounds(now, Len(submits) + 1)
  /\ presented < input - (IF update = "idle" THEN 0 ELSE 1)
  /\ submits' = Append(submits, [queue |-> q, frame |-> presented + 1,
                                 collected |-> should_track_submissions])
  /\ submitting' = IF should_track_submissions THEN q ELSE NoSpan
  /\ UNCHANGED <<now, cfgVars, ctlVars, span, done, input, presented, orderly, callVars>>

Slip_KeepLast(s, n) == IF s = NoSpan THEN [first |-> n, last |-> n] ELSE s
Extended(s, n) == IF s = NoSpan THEN [first |-> n, last |-> n] ELSE [first |-> s.first, last |-> n]

notify_submit ==
  /\ submitting # NoSpan
  /\ span' = [span EXCEPT ![submitting] = Extended(@, Len(submits))]
  /\ submitting' = NoSpan
  /\ UNCHANGED <<now, cfgVars, ctlVars, submits, done, input, presented, orderly, callVars>>

Complete(n) ==
  /\ n \notin done
  /\ \A m \in 1 .. n - 1 : submits[m].queue = submits[n].queue => m \in done
  /\ done' = done \cup {n}
  /\ UNCHANGED <<now, cfgVars, ctlVars, span, submits, appVars, callVars>>

\* Stage PRESENT.  With the mode off the frame stays open.
UpdatePresent(on) ==
  /\ StateFree /\ submitting = NoSpan
  /\ presented < input - (IF update = "idle" THEN 0 ELSE 1)
  /\ presented' = presented + 1
  /\ enabled' = on
  /\ frame_index' = IF on THEN 0 ELSE frame_index
  /\ orderly' = (orderly /\ on /\ input = presented + 1 /\ update = "idle")
  /\ UNCHANGED <<now, cfgVars, previous, drain, span, submits, submitting, done, input, callVars>>

\* The first present with a refresh duration sets the target of the device.
ensure_vrr_target(target) ==
  /\ vrr = 0
  /\ vrr' = target
  /\ UNCHANGED <<now, clock, decoupled, ctlVars, span, submits, done, appVars, callVars>>

-----------------------------------------------------------------------------
(* The simulation thread. *)

\* A call without presentation info changes the mode only.
UpdateMode(on) ==
  /\ update = "idle"
  /\ enabled # on /\ enabled' = on
  /\ orderly' = FALSE
  /\ UNCHANGED <<now, cfgVars, frame_index, previous, drain, span, submits, submitting, done,
                 input, presented, callVars>>

Notified == IF submitting = NoSpan THEN Len(submits) ELSE Len(submits) - 1
effective_min_delay == Longer(FpsCap, vrr)

\* Stage INPUT, and every stage that is not known.  With the mode off the call
\* returns at once.
UpdateInput(on, app) ==
  /\ update = "idle"
  /\ input < MaxFrames /\ input - presented <= MaxAhead
  /\ input' = input + 1
  /\ enabled' = on
  /\ frame_index' = IF on THEN input + 1 ELSE frame_index
  /\ update' = IF on THEN "take" ELSE "idle"
  /\ IF on THEN /\ min_delay' = [app |-> app, layer |-> effective_min_delay]
                /\ visit' = Queues
                /\ asked' = Notified
                /\ inTurn' = (presented = input)
                /\ orderly' = (orderly /\ inTurn')
           ELSE /\ orderly' = FALSE
                /\ UNCHANGED <<min_delay, visit, asked, inTurn>>
  /\ UNCHANGED <<now, cfgVars, previous, drain, span, submits, submitting, done, presented, work,
                 paceVars>>

\* Take every queue's span, in the order of the device's map.
Taken(q) == [span EXCEPT ![q] = NoSpan]

take_submission_span(q) ==
  /\ update = "take" /\ q \in visit
  /\ visit' = visit \ {q}
  /\ work' = work \cup ({span[q]} \ {NoSpan})
  /\ span' = Taken(q)
  /\ update' = IF visit = {q} THEN "await" ELSE "take"
  /\ UNCHANGED <<now, cfgVars, ctlVars, submits, done, appVars, min_delay, asked, inTurn, paceVars>>

\* Without a limit of time; a device without a clock cannot wait.
Slip_AwaitFirst(s) == s.first \in done
has_completed(s) == s.last \in done

Await(s) ==
  /\ update = "await" /\ s \in work /\ (clock => has_completed(s))
  /\ work' = work \ {s}
  /\ UNCHANGED <<now, cfgVars, ctlVars, span, submits, done, appVars, update, min_delay, visit,
                 asked, inTurn, paceVars>>

Awaited ==
  /\ update = "await" /\ work = {}
  /\ update' = "lock"
  /\ UNCHANGED <<now, cfgVars, ctlVars, span, submits, done, appVars, min_delay, visit, work,
                 asked, inTurn, paceVars>>

\* The call returns, and the frame begins.
Release(ft, jitter) ==
  /\ previous' = [frametime |-> ft, jitter |-> jitter, release |-> now]
  /\ update' = "idle"
  /\ min_delay' = NoDelay /\ deadline' = 0 /\ frametime' = 0 /\ pausing' = 0
  /\ orderly' = inTurn /\ inTurn' = FALSE /\ asked' = 0

-----------------------------------------------------------------------------
(* DelayController::delay. *)

FirstFrame ==
  /\ update = "lock" /\ previous = NoFrame
  /\ Release(0, 0)
  /\ UNCHANGED <<now, cfgVars, enabled, frame_index, drain, span, submits, submitting, done, input,
                 presented, visit, work, longest>>

Slip_Looser(a, b) == Shorter(a, b)
Stricter(a, b) == Longer(a, b)

\* The frame time is measured, then the minimum delay waited for.
StartDelay ==
  /\ update = "lock" /\ previous # NoFrame
  /\ frametime' = now - previous.release
  /\ longest' = Longer(longest, frametime')
  /\ deadline' = previous.release + Stricter(min_delay.app, min_delay.layer)
  /\ update' = "pace"
  /\ UNCHANGED <<now, cfgVars, ctlVars, span, submits, done, appVars, min_delay, visit, work,
                 asked, inTurn, pausing>>

EndDelay ==
  /\ update = "pace" /\ now >= deadline /\ ~decoupled
  /\ Release(frametime, 0)
  /\ UNCHANGED <<now, cfgVars, enabled, frame_index, drain, span, submits, submitting, done, input,
                 presented, visit, work, longest>>

\* Every second frame gets a jitter, to see what it does to the next one.
Jitter == IF previous.jitter = 0 THEN frametime \div JitterParts ELSE 0

StartPause ==
  /\ update = "pace" /\ now >= deadline /\ decoupled
  /\ pausing' = now
  /\ deadline' = now + Jitter + drain
  /\ update' = "pause"
  /\ UNCHANGED <<now, cfgVars, ctlVars, span, submits, done, appVars, min_delay, visit, work,
                 frametime, asked, inTurn, longest>>

EndPause ==
  /\ update = "pause" /\ now >= deadline /\ previous.jitter = 0
  /\ Release(frametime, Jitter)
  /\ UNCHANGED <<now, cfgVars, enabled, frame_index, drain, span, submits, submitting, done, input,
                 presented, visit, work, longest>>

\* DELTA_GAIN * (0.5 - gradient) * jitter, for a gradient from -1 to 1: the
\* average of clamped gradients does not leave that range.
Delta(jitter) == -((5 * jitter) \div 2) .. (15 * jitter) \div 2

Slip_NoFloor(n) == Shorter(n, frametime)
Clamped(n) == Shorter(Longer(0, n), frametime)

EndPauseAdapt ==
  /\ update = "pause" /\ now >= deadline /\ previous.jitter # 0
  /\ \E delta \in Delta(previous.jitter) : drain' = Clamped(drain + delta)
  /\ Release(frametime, Jitter)
  /\ UNCHANGED <<now, cfgVars, enabled, frame_index, span, submits, submitting, done, input,
                 presented, visit, work, longest>>

-----------------------------------------------------------------------------
Render ==
  \/ \E q \in Queues : queue_submit(q)
  \/ notify_submit
  \/ \E on \in BOOLEAN : UpdatePresent(on)
  \/ \E target \in VrrTargets : ensure_vrr_target(target)

Simulation ==
  \/ \E on \in BOOLEAN : UpdateMode(on)
  \/ \E on \in BOOLEAN, app \in AppDelays : UpdateInput(on, app)
  \/ \E q \in Queues : take_submission_span(q)
  \/ \E s \in work : Await(s)
  \/ Awaited \/ FirstFrame \/ StartDelay \/ EndDelay \/ StartPause \/ EndPause \/ EndPauseAdapt

Next == Tick \/ Render \/ Simulation \/ \E n \in DOMAIN submits : Complete(n)

Spec == Init /\ [][Next]_vars

-----------------------------------------------------------------------------
(* Properties. *)

Waited == clock /\ update \in {"lock", "pace", "pause"}

\* What the extension is for: while its calls come in turn with the mode on,
\* no frame begins before the GPU has finished the frame before.
NoBacklog ==
  (Waited /\ orderly) => \A n \in DOMAIN submits : submits[n].frame = input - 1 => n \in done

\* In whatever order the calls come, an INPUT call is not paced before all the
\* work that was collected when it was made is finished.
CollectedIsDone ==
  Waited => \A n \in 1 .. asked : submits[n].collected => n \in done

\* At most the longest frame and its jitter.
PauseBounded == update = "pause" => deadline - pausing <= longest + longest \div JitterParts

\* The pauses hold a frame back long enough and not for longer: two frames begin
\* no closer together than the limits of the application and of the layer say,
\* and the pause of a decoupled application does not run away (begin_frame,
\* adapt_delay).
Paced ==
  /\ []PauseBounded
  /\ [][(previous # NoFrame /\ update # "idle" /\ update' = "idle") =>
         previous'.release - previous.release >= Longer(min_delay.app, min_delay.layer)]_vars
=============================================================================
