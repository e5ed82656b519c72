---------------------------- MODULE AntiLagProofs ----------------------------
(***************************************************************************)
(* For any queues, limits and number of submissions: an INPUT call is      *)
(* paced after all the work that had been collected is done, and it is     *)
(* paced long enough and no longer than the longest frame and its jitter.  *)
(***************************************************************************)
EXTENDS AntiLag, SequenceTheorems, TLAPS

USE AntiLagAssumption, NoSpanAssumption

\* A call is not paced before the limit that it found, its pause is of the
\* jitter and the drain, and these are parts of frames that have been.
LayerLimit == previous.release + Longer(min_delay.app, min_delay.layer)
Pacing ==
  /\ previous # NoFrame => previous.release <= now
  /\ update \in {"pace", "pause"} => previous # NoFrame
  /\ update = "pace" => deadline = LayerLimit
  /\ update = "pause" => LayerLimit <= now /\ deadline = pausing + Jitter + drain
  /\ frametime <= longest /\ drain <= longest

\* A collected submission is done, or the last submission of a span of its
\* queue, or a later one of that queue, is to be waited for.
Done(n)   == ~clock \/ n \in done
InSpan(n) == span[submits[n].queue] # NoSpan /\ span[submits[n].queue].last >= n
InWork(n) == \E s \in work : s.last >= n /\ submits[s.last].queue = submits[n].queue
Followed ==
  /\ \A n \in 1 .. Notified : submits[n].collected => Done(n) \/ InSpan(n) \/ InWork(n)
  /\ \A n \in 1 .. asked :
       submits[n].collected => Done(n) \/ (InSpan(n) /\ submits[n].queue \in visit) \/ InWork(n)

Spanning ==
  /\ \A q \in Queues :
       span[q] # NoSpan => span[q].last \in DOMAIN submits /\ submits[span[q].last].queue = q
  /\ \A s \in work : s.last \in DOMAIN submits
  /\ submitting # NoSpan => Len(submits) > 0 /\ submits[Len(submits)].queue = submitting
  /\ asked <= Notified

InOrder == \A n \in done : \A m \in 1 .. n - 1 : submits[m].queue = submits[n].queue => m \in done

Phases == /\ update # "take" => visit = {}
          /\ update \notin {"take", "await"} => work = {}

IInv == TypeOK /\ Pacing /\ Followed /\ Spanning /\ InOrder /\ Phases

-----------------------------------------------------------------------------
(* A part of a natural number is one, and grows with it. *)

LEMMA PartOf ==
  ASSUME NEW k \in Nat \ {0}, NEW a \in Nat
  PROVE  a \div k \in Nat /\ a \div k <= a
<1> PICK x, y : x = a \div k /\ y = a % k
  OBVIOUS
<1>1. x \in Int /\ y \in 0 .. k - 1 /\ a = k * x + y
  OBVIOUS
<1>2. x >= 0
  <2> SUFFICES ASSUME x <= -1 PROVE FALSE
    BY <1>1
  <2>1. k * x <= k * (-1)
    BY <1>1
  <2> QED BY <1>1, <2>1
<1>3. k * x >= x
  <2>1. (k - 1) * x >= 0
    BY <1>1, <1>2
  <2> QED BY <1>1, <2>1
<1> QED BY <1>1, <1>2, <1>3

LEMMA PartGrows ==
  ASSUME NEW k \in Nat \ {0}, NEW a \in Nat, NEW b \in Nat, a <= b
  PROVE  a \div k <= b \div k
<1> PICK x, y : x = a \div k /\ y = a % k
  OBVIOUS
<1> PICK u, v : u = b \div k /\ v = b % k
  OBVIOUS
<1>1. x \in Int /\ y \in 0 .. k - 1 /\ a = k * x + y
  OBVIOUS
<1>2. u \in Int /\ v \in 0 .. k - 1 /\ b = k * u + v
  OBVIOUS
<1> SUFFICES ASSUME x >= u + 1 PROVE FALSE
  BY <1>1, <1>2
<1>3. k * x >= k * (u + 1)
  BY <1>1, <1>2
<1>4. k * (u + 1) = k * u + k
  BY <1>2
<1> QED BY <1>1, <1>2, <1>3, <1>4

-----------------------------------------------------------------------------
LEMMA FrameRecords ==
  ASSUME TypeOK
  PROVE  /\ previous # NoFrame => previous.frametime \in Nat /\ previous.jitter \in Nat /\ previous.release \in Nat
         /\ previous = NoFrame => previous.jitter = 0
         /\ \A f, j, r : r \in Nat => [frametime |-> f, jitter |-> j, release |-> r] # NoFrame
<1>1. \A f, j, r : r \in Nat => [frametime |-> f, jitter |-> j, release |-> r].release # NoFrame.release
  BY DEF NoFrame
<1>2. previous # NoFrame => previous \in [frametime : Time, jitter : Time, release : Time]
  BY DEF TypeOK
<1>3. previous # NoFrame => previous.frametime \in Nat /\ previous.jitter \in Nat /\ previous.release \in Nat
  BY <1>2 DEF Time
<1> QED BY <1>1, <1>3 DEF NoFrame

LEMMA Submissions ==
  ASSUME TypeOK
  PROVE  /\ Len(submits) \in Nat /\ DOMAIN submits = 1 .. Len(submits)
         /\ \A n \in 1 .. Len(submits) : submits[n].queue \in Queues /\ submits[n].collected \in BOOLEAN
         /\ submitting = NoSpan => Notified = Len(submits)
         /\ submitting # NoSpan => Notified = Len(submits) - 1
<1>1. submits \in Seq([queue : Queues, frame : Frame, collected : BOOLEAN])
  BY DEF TypeOK
<1>2. Len(submits) \in Nat /\ DOMAIN submits = 1 .. Len(submits)
  BY <1>1, LenProperties
<1>3. \A n \in 1 .. Len(submits) : submits[n] \in [queue : Queues, frame : Frame, collected : BOOLEAN]
  BY <1>1, ElementOfSeq
<1> QED BY <1>2, <1>3 DEF Notified

LEMMA Limits ==
  ASSUME TypeOK
  PROVE  min_delay.app \in Nat /\ min_delay.layer \in Nat
<1>1. min_delay \in [app : AppDelays \cup {0}, layer : Nat]
  BY DEF TypeOK
<1>2. min_delay.app \in AppDelays \cup {0} /\ min_delay.layer \in Nat
  BY <1>1
<1>3. AppDelays \cup {0} \subseteq Nat
  OBVIOUS
<1> QED BY <1>2, <1>3

LEMMA PartsOfFrames ==
  ASSUME IInv
  PROVE  /\ frametime \in Nat /\ longest \in Nat /\ drain \in Nat /\ now \in Nat /\ now \in Time
         /\ Jitter \in Nat /\ Jitter <= frametime
         /\ Jitter <= longest \div JitterParts
         /\ longest \div JitterParts \in Nat
<1>1. frametime \in Nat /\ longest \in Nat /\ drain \in Nat /\ now \in Nat /\ now \in Time /\ frametime <= longest
  BY DEF IInv, TypeOK, Time, Pacing
<1>2. /\ frametime \div JitterParts \in Nat /\ frametime \div JitterParts <= frametime
      /\ longest \div JitterParts \in Nat
  BY <1>1, PartOf
<1>3. frametime \div JitterParts <= longest \div JitterParts
  BY <1>1, PartGrows
<1> QED BY <1>1, <1>2, <1>3 DEF Jitter

LEMMA InitSound == Init => IInv
<1> SUFFICES ASSUME Init PROVE IInv
  OBVIOUS
<1>1. submits = <<>> /\ Len(submits) = 0 /\ submitting = NoSpan /\ DOMAIN submits = {}
  BY EmptySeq DEF Init
<1>2. TypeOK
  <2>1. submits \in Seq([queue : Queues, frame : Frame, collected : BOOLEAN])
    BY <1>1, EmptySeq
  <2>2. 0 \in Time /\ min_delay \in [app : AppDelays \cup {0}, layer : Nat]
    BY DEF Init, Time, NoDelay
  <2>3. span \in [Queues -> Spans \cup {NoSpan}] /\ done \subseteq DOMAIN submits
    BY DEF Init
  <2>4. /\ input \in 0 .. MaxFrames /\ presented \in 0 .. input
        /\ now \in Time /\ drain \in Time /\ pausing \in Time /\ frametime \in Time /\ longest \in Time
    BY <2>2 DEF Init
  <2> QED BY <2>1, <2>2, <2>3, <2>4 DEF Init, TypeOK
<1>3. Notified = 0
  BY <1>1 DEF Notified
<1> QED BY <1>1, <1>2, <1>3 DEF Init, IInv, Pacing, Followed, Spanning, InOrder, Phases

-----------------------------------------------------------------------------
(* What steps leave alone. *)

\* The clock may advance: no limit that is waited for changes.
LEMMA PacingStays ==
  ASSUME IInv, UNCHANGED <<previous, min_delay, deadline, pausing, drain, frametime, longest>>,
         now' \in Nat, now <= now', update' = update \/ update' \notin {"pace", "pause"}
  PROVE  Pacing'
<1>1. now \in Nat /\ (previous # NoFrame => previous.release \in Nat)
  BY FrameRecords DEF IInv, TypeOK, Time
<1>2. LayerLimit' = LayerLimit /\ Jitter' = Jitter
  BY DEF LayerLimit, Jitter
<1>3. previous # NoFrame => LayerLimit \in Nat
  BY <1>1, Limits DEF IInv, LayerLimit, Longer
<1> QED BY <1>1, <1>2, <1>3 DEF IInv, Pacing

\* Nothing is submitted, taken or completed.
LEMMA WorkStays ==
  ASSUME IInv, UNCHANGED <<clock, span, submits, submitting, done, visit, work>>,
         asked' = asked \/ asked' = 0, asked \in Nat,
         update' # "take" => visit = {}, update' \notin {"take", "await"} => work = {}
  PROVE  Followed' /\ Spanning' /\ InOrder' /\ Phases'
<1>1. Notified' = Notified /\ Notified \in Nat
  <2>1. Notified \in Nat
    BY Submissions DEF IInv, Spanning
  <2> QED BY <2>1 DEF Notified
<1>2. \A n : (Done(n)' <=> Done(n)) /\ (InSpan(n)' <=> InSpan(n)) /\ (InWork(n)' <=> InWork(n))
  BY DEF Done, InSpan, InWork
<1> QED BY <1>1, <1>2 DEF IInv, Followed, Spanning, InOrder, Phases

-----------------------------------------------------------------------------
(* One lemma per action, or per few that are alike. *)

LEMMA TickKeeps == IInv /\ Tick => IInv'
<1> SUFFICES ASSUME IInv, Tick PROVE IInv'
  OBVIOUS
<1> USE DEF cfgVars, ctlVars, appVars, callVars, paceVars
<1>1. now \in Nat /\ now' \in Nat /\ now <= now' /\ now' \in Time
  <2>1. now \in Nat /\ Len(submits) \in Nat
    BY Submissions, PartsOfFrames DEF IInv
  <2> QED BY <2>1 DEF Tick, InBounds, Share, Time
<1>2. TypeOK'
  BY <1>1 DEF Tick, IInv, TypeOK
<1>3. Pacing'
  BY <1>1, PacingStays DEF Tick
<1>4. Followed' /\ Spanning' /\ InOrder' /\ Phases'
  BY WorkStays DEF Tick, IInv, TypeOK, Phases
<1> QED BY <1>2, <1>3, <1>4 DEF IInv

\* The mode, the presents and the display target are not what is waited for.
LEMMA ModeKeeps ==
  ASSUME IInv,
         UNCHANGED <<now, clock, decoupled, previous, drain, span, submits, submitting, done, input, callVars>>,
         enabled' \in BOOLEAN, frame_index' \in Frame \cup {0}, presented' \in 0 .. input,
         orderly' \in BOOLEAN, vrr' \in VrrTargets \cup {0}
  PROVE  IInv'
<1> USE DEF callVars, paceVars
<1>1. TypeOK'
  BY DEF IInv, TypeOK
<1>2. Pacing'
  BY PacingStays, PartsOfFrames
<1>3. Followed' /\ Spanning' /\ InOrder' /\ Phases'
  BY WorkStays DEF IInv, TypeOK, Phases
<1> QED BY <1>1, <1>2, <1>3 DEF IInv

LEMMA UpdatePresentKeeps ==
  ASSUME IInv, NEW on \in BOOLEAN, UpdatePresent(on)
  PROVE  IInv'
<1>1. presented' \in 0 .. input
  <2>1. input \in Nat /\ presented \in Nat
    BY DEF IInv, TypeOK
  <2> QED BY <2>1 DEF UpdatePresent
<1>2. /\ enabled' \in BOOLEAN /\ frame_index' \in Frame \cup {0} /\ orderly' \in BOOLEAN
      /\ vrr' \in VrrTargets \cup {0}
  BY DEF UpdatePresent, cfgVars, IInv, TypeOK
<1> QED BY <1>1, <1>2, ModeKeeps DEF UpdatePresent, cfgVars

LEMMA TargetKeeps ==
  ASSUME IInv, NEW target \in VrrTargets, ensure_vrr_target(target)
  PROVE  IInv'
BY ModeKeeps DEF ensure_vrr_target, ctlVars, appVars, IInv, TypeOK

LEMMA UpdateModeKeeps ==
  ASSUME IInv, NEW on \in BOOLEAN, UpdateMode(on)
  PROVE  IInv'
BY ModeKeeps DEF UpdateMode, cfgVars, IInv, TypeOK

LEMMA StutterKeeps == IInv /\ UNCHANGED vars => IInv'
BY ModeKeeps DEF vars, cfgVars, ctlVars, appVars, IInv, TypeOK

LEMMA queue_submitKeeps ==
  ASSUME IInv, NEW q \in Queues, queue_submit(q)
  PROVE  IInv'
<1> USE DEF cfgVars, ctlVars, callVars, paceVars
<1> PICK r, h : /\ r = [queue |-> q, frame |-> presented + 1, collected |-> should_track_submissions]
                /\ h = Len(submits) + 1
  OBVIOUS
<1>1. /\ submitting = NoSpan /\ submits' = Append(submits, r)
      /\ submitting' = IF should_track_submissions THEN q ELSE NoSpan
      /\ UNCHANGED <<now, clock, decoupled, vrr, enabled, frame_index, previous, drain, span, done, input,
                     presented, orderly, callVars>>
  BY DEF queue_submit
<1>2. r \in [queue : Queues, frame : Frame, collected : BOOLEAN]
  <2>1. presented + 1 \in Frame
    <3>1. input \in Nat /\ presented \in Nat /\ input <= MaxFrames
      BY DEF IInv, TypeOK
    <3> QED BY <3>1 DEF queue_submit, Frame
  <2>2. should_track_submissions \in BOOLEAN
    BY DEF should_track_submissions
  <2> QED BY <2>1, <2>2
<1>3. /\ submits' \in Seq([queue : Queues, frame : Frame, collected : BOOLEAN])
      /\ Len(submits') = h /\ h \in Nat \ {0} /\ Len(submits) = h - 1
      /\ DOMAIN submits' = 1 .. h /\ DOMAIN submits = 1 .. h - 1
      /\ submits'[h] = r /\ \A n \in 1 .. h - 1 : submits'[n] = submits[n]
  <2>1. submits \in Seq([queue : Queues, frame : Frame, collected : BOOLEAN]) /\ Len(submits) \in Nat
    BY Submissions DEF IInv, TypeOK
  <2>2. /\ Append(submits, r) \in Seq([queue : Queues, frame : Frame, collected : BOOLEAN])
        /\ Len(Append(submits, r)) = h /\ Append(submits, r)[h] = r
        /\ \A n \in 1 .. Len(submits) : Append(submits, r)[n] = submits[n]
    BY <1>2, <2>1, AppendProperties
  <2>3. DOMAIN Append(submits, r) = 1 .. h
    BY <2>2, LenProperties
  <2> QED BY <1>1, <2>1, <2>2, <2>3, Submissions DEF IInv
<1>4. TypeOK'
  <2>1. submitting' \in Queues \cup {NoSpan} /\ done \subseteq DOMAIN submits'
    BY <1>1, <1>3 DEF IInv, TypeOK
  <2> QED BY <1>1, <1>3, <2>1 DEF IInv, TypeOK
<1>5. Pacing'
  BY <1>1, PacingStays, PartsOfFrames
<1>6. /\ Notified = h - 1
      /\ r.collected => Notified' = h - 1 /\ submitting' = q
      /\ ~r.collected => Notified' = h /\ submitting' = NoSpan
  <2>1. r.collected <=> should_track_submissions
    BY <1>2
  <2>2. q # NoSpan
    OBVIOUS
  <2> QED BY <1>1, <1>3, <2>1, <2>2 DEF Notified
<1>7. /\ \A n \in done : n \in 1 .. h - 1
      /\ \A p \in Queues : span[p] # NoSpan => span[p].last \in 1 .. h - 1
      /\ \A s \in work : s.last \in 1 .. h - 1
  BY <1>3 DEF IInv, TypeOK, Spanning
<1>8. \A n \in 1 .. h - 1 : /\ Done(n)' <=> Done(n)
                            /\ InSpan(n)' <=> InSpan(n)
                            /\ InWork(n)' <=> InWork(n)
  <2> SUFFICES ASSUME NEW n \in 1 .. h - 1
               PROVE  /\ Done(n)' <=> Done(n)
                      /\ InSpan(n)' <=> InSpan(n)
                      /\ InWork(n)' <=> InWork(n)
    OBVIOUS
  <2>1. submits'[n] = submits[n] /\ \A s \in work : submits'[s.last] = submits[s.last]
    BY <1>3, <1>7
  <2> QED BY <1>1, <2>1 DEF Done, InSpan, InWork
<1>9. Followed'
  <2>1. asked <= h - 1 /\ asked \in Nat
    BY <1>6 DEF IInv, Spanning, TypeOK
  <2>2. \A n \in 1 .. asked : submits'[n].collected =>
          Done(n)' \/ (InSpan(n)' /\ submits'[n].queue \in visit) \/ InWork(n)'
    <3>1. \A n \in 1 .. asked : n \in 1 .. h - 1
      BY <1>3, <2>1
    <3> QED BY <1>3, <1>8, <3>1 DEF IInv, Followed
  <2>3. \A n \in 1 .. Notified' : submits'[n].collected => Done(n)' \/ InSpan(n)' \/ InWork(n)'
    <3>1. \A n \in 1 .. h - 1 : submits'[n].collected => Done(n)' \/ InSpan(n)' \/ InWork(n)'
      BY <1>3, <1>6, <1>8 DEF IInv, Followed
    <3> QED BY <1>3, <1>6, <3>1
  <2> QED BY <1>1, <2>2, <2>3 DEF Followed
<1>10. Spanning'
  <2>1. asked <= Notified'
    BY <1>3, <1>6 DEF IInv, Spanning, TypeOK
  <2>2. submitting' # NoSpan => Len(submits') > 0 /\ submits'[Len(submits')].queue = submitting'
    BY <1>1, <1>3
  <2>3. \A p \in Queues : span[p] # NoSpan =>
          span[p].last \in DOMAIN submits' /\ submits'[span[p].last].queue = p
    <3>1. \A p \in Queues : span[p] # NoSpan => submits[span[p].last].queue = p
      BY DEF IInv, Spanning
    <3> QED BY <1>3, <1>7, <3>1
  <2>4. \A s \in work : s.last \in DOMAIN submits'
    BY <1>3, <1>7
  <2> QED BY <1>1, <2>1, <2>2, <2>3, <2>4 DEF Spanning
<1>11. InOrder'
  <2> SUFFICES ASSUME NEW n \in done, NEW m \in 1 .. n - 1, submits'[m].queue = submits'[n].queue
               PROVE  m \in done
    BY <1>1 DEF InOrder
  <2>1. n \in 1 .. h - 1 /\ m \in 1 .. h - 1
    BY <1>3, <1>7
  <2> QED BY <1>3, <2>1 DEF IInv, InOrder
<1>12. Phases'
  BY <1>1 DEF IInv, Phases
<1> QED BY <1>4, <1>5, <1>9, <1>10, <1>11, <1>12 DEF IInv

LEMMA notify_submitKeeps ==
  ASSUME IInv, notify_submit
  PROVE  IInv'
<1> USE DEF cfgVars, ctlVars, callVars, paceVars
<1> PICK q, h, s : q = submitting /\ h = Len(submits) /\ s = Extended(span[q], h)
  OBVIOUS
<1>1. /\ q # NoSpan /\ span' = [span EXCEPT ![q] = s] /\ submitting' = NoSpan
      /\ UNCHANGED <<now, clock, decoupled, vrr, enabled, frame_index, previous, drain, submits, done, input,
                     presented, orderly, callVars>>
  BY DEF notify_submit
<1>2. /\ q \in Queues /\ h \in Nat \ {0} /\ DOMAIN submits = 1 .. h
      /\ submits[h].queue = q /\ Notified = h - 1 /\ Notified' = h
  <2>1. q \in Queues /\ h \in Nat /\ DOMAIN submits = 1 .. h /\ Notified = h - 1
    BY <1>1, Submissions DEF IInv, TypeOK
  <2>2. h > 0 /\ submits[h].queue = q
    BY <1>1 DEF IInv, Spanning
  <2> QED BY <1>1, <2>1, <2>2 DEF Notified
<1>3. s \in Spans /\ s # NoSpan /\ s.last = h
  <2>1. span[q] # NoSpan => span[q] \in Spans
    BY <1>2 DEF IInv, TypeOK
  <2>2. CASE span[q] = NoSpan
    BY <1>2, <2>2 DEF Extended, Spans
  <2>3. CASE span[q] # NoSpan
    <3>1. span[q].first \in Nat /\ s = [first |-> span[q].first, last |-> h]
      BY <2>1, <2>3 DEF Extended, Spans
    <3>2. s \in Spans /\ s.last = h
      BY <1>2, <3>1 DEF Spans
    <3> QED BY <3>2
  <2> QED BY <2>2, <2>3
<1>4. \A p \in Queues : span'[p] = IF p = q THEN s ELSE span[p]
  BY <1>1 DEF IInv, TypeOK
<1>5. TypeOK'
  <2>1. span' \in [Queues -> Spans \cup {NoSpan}]
    BY <1>1, <1>3 DEF IInv, TypeOK
  <2> QED BY <1>1, <2>1 DEF IInv, TypeOK
<1>6. Pacing'
  BY <1>1, PacingStays, PartsOfFrames
<1>7. Spanning'
  <2>1. asked <= h
    BY <1>2 DEF IInv, Spanning, TypeOK
  <2> QED BY <1>1, <1>2, <1>3, <1>4, <2>1 DEF IInv, Spanning
<1>8. \A n \in 1 .. h : /\ Done(n)' <=> Done(n)
                        /\ InSpan(n) => InSpan(n)'
                        /\ InWork(n)' <=> InWork(n)
                        /\ submits[n].queue = q => InSpan(n)'
  <2> SUFFICES ASSUME NEW n \in 1 .. h
               PROVE  /\ Done(n)' <=> Done(n)
                      /\ InSpan(n) => InSpan(n)'
                      /\ InWork(n)' <=> InWork(n)
                      /\ submits[n].queue = q => InSpan(n)'
    OBVIOUS
  <2>1. submits[n].queue \in Queues
    BY Submissions DEF IInv
  <2>2. (Done(n)' <=> Done(n)) /\ (InWork(n)' <=> InWork(n))
    BY <1>1 DEF Done, InWork
  <2>3. submits[n].queue = q => InSpan(n)'
    BY <1>1, <1>2, <1>3, <1>4 DEF InSpan
  <2>4. submits[n].queue # q => (InSpan(n)' <=> InSpan(n))
    BY <1>1, <1>4, <2>1 DEF InSpan
  <2> QED BY <2>2, <2>3, <2>4
<1>9. Followed'
  <2>1. \A n \in 1 .. h : submits[n].collected => Done(n)' \/ InSpan(n)' \/ InWork(n)'
    BY <1>2, <1>8 DEF IInv, Followed
  <2>2. \A n \in 1 .. asked : n \in 1 .. h
    BY <1>2 DEF IInv, Spanning, TypeOK
  <2>3. \A n \in 1 .. asked : submits[n].collected =>
          Done(n)' \/ (InSpan(n)' /\ submits[n].queue \in visit) \/ InWork(n)'
    BY <1>8, <2>2 DEF IInv, Followed
  <2> QED BY <1>1, <1>2, <2>1, <2>3 DEF Followed
<1>10. InOrder' /\ Phases'
  BY <1>1 DEF IInv, InOrder, Phases
<1> QED BY <1>5, <1>6, <1>7, <1>9, <1>10 DEF IInv

\* The submissions of a queue complete in order.
LEMMA CompleteKeeps ==
  ASSUME IInv, NEW n \in DOMAIN submits, Complete(n)
  PROVE  IInv'
<1> USE DEF cfgVars, ctlVars, appVars, callVars, paceVars
<1>1. /\ \A m \in 1 .. n - 1 : submits[m].queue = submits[n].queue => m \in done
      /\ done' = done \cup {n}
      /\ UNCHANGED <<now, clock, decoupled, vrr, ctlVars, span, submits, appVars, callVars>>
  BY DEF Complete
<1>2. TypeOK'
  <2>1. done' \subseteq DOMAIN submits
    BY <1>1 DEF IInv, TypeOK
  <2> QED BY <1>1, <2>1 DEF IInv, TypeOK
<1>3. Pacing'
  BY <1>1, PacingStays, PartsOfFrames
<1>4. \A m : /\ Done(m) => Done(m)'
             /\ InSpan(m)' <=> InSpan(m)
             /\ InWork(m)' <=> InWork(m)
  BY <1>1 DEF Done, InSpan, InWork
<1>5. Notified' = Notified
  BY <1>1 DEF Notified
<1>6. Followed'
  BY <1>1, <1>4, <1>5 DEF IInv, Followed
<1>7. Spanning' /\ InOrder' /\ Phases'
  BY <1>1, <1>5 DEF IInv, Spanning, InOrder, Phases
<1> QED BY <1>2, <1>3, <1>6, <1>7 DEF IInv

LEMMA UpdateInputKeeps ==
  ASSUME IInv, NEW on \in BOOLEAN, NEW app \in AppDelays, UpdateInput(on, app)
  PROVE  IInv'
<1> USE DEF cfgVars, paceVars
<1>1. /\ update = "idle" /\ input < MaxFrames /\ input' = input + 1 /\ enabled' = on
      /\ frame_index' = (IF on THEN input + 1 ELSE frame_index)
      /\ update' = (IF on THEN "take" ELSE "idle")
      /\ on => /\ min_delay' = [app |-> app, layer |-> effective_min_delay]
               /\ visit' = Queues /\ asked' = Notified
               /\ inTurn' = (presented = input) /\ orderly' = (orderly /\ inTurn')
      /\ ~on => orderly' = FALSE /\ UNCHANGED <<min_delay, visit, asked, inTurn>>
      /\ UNCHANGED <<now, clock, decoupled, vrr, previous, drain, span, submits, submitting, done, presented,
                     work, deadline, frametime, pausing, longest>>
  BY DEF UpdateInput
<1>2. Notified' = Notified /\ Notified \in Nat
  <2>1. Notified \in Nat
    BY Submissions DEF IInv, Spanning
  <2> QED BY <1>1, <2>1 DEF Notified
<1>3. TypeOK'
  <2>1. effective_min_delay \in Nat
    BY DEF effective_min_delay, Longer, IInv, TypeOK
  <2>2. min_delay' \in [app : AppDelays \cup {0}, layer : Nat]
    BY <1>1, <2>1 DEF IInv, TypeOK
  <2>3. input' \in 0 .. MaxFrames /\ presented \in 0 .. input' /\ frame_index' \in Frame \cup {0}
    <3>1. input \in Nat /\ presented \in Nat /\ presented <= input /\ frame_index \in Frame \cup {0}
      BY DEF IInv, TypeOK
    <3> QED BY <1>1, <3>1 DEF Frame
  <2>4. update' \in {"idle", "take", "await", "lock", "pace", "pause"} /\ visit' \subseteq Queues
    BY <1>1 DEF IInv, TypeOK
  <2>5. asked' \in Nat /\ orderly' \in BOOLEAN /\ inTurn' \in BOOLEAN
    BY <1>1, <1>2 DEF IInv, TypeOK
  <2> QED BY <1>1, <2>2, <2>3, <2>4, <2>5 DEF IInv, TypeOK
<1>4. Pacing'
  BY <1>1 DEF IInv, Pacing
<1>5. \A n : (Done(n)' <=> Done(n)) /\ (InSpan(n)' <=> InSpan(n)) /\ (InWork(n)' <=> InWork(n))
  BY <1>1 DEF Done, InSpan, InWork
<1>6. Followed'
  <2>1. CASE on
    <3>1. \A n \in 1 .. Notified : submits[n].queue \in Queues
      <4>1. \A n \in 1 .. Notified : n \in 1 .. Len(submits)
        BY <1>2, Submissions DEF IInv
      <4> QED BY <4>1, Submissions DEF IInv
    <3> QED BY <1>1, <1>2, <1>5, <2>1, <3>1 DEF IInv, Followed
  <2>2. CASE ~on
    BY <1>1, <1>2, <1>5, <2>2 DEF IInv, Followed
  <2> QED BY <2>1, <2>2
<1>7. Spanning' /\ InOrder' /\ Phases'
  BY <1>1, <1>2 DEF IInv, Spanning, InOrder, Phases
<1> QED BY <1>3, <1>4, <1>6, <1>7 DEF IInv

LEMMA TakeKeeps ==
  ASSUME IInv, NEW q \in Queues, take_submission_span(q)
  PROVE  IInv'
<1> USE DEF cfgVars, ctlVars, appVars, paceVars
<1> PICK s : s = span[q]
  OBVIOUS
<1>1. /\ update = "take" /\ q \in visit /\ visit' = visit \ {q}
      /\ work' = work \cup ({s} \ {NoSpan}) /\ span' = [span EXCEPT ![q] = NoSpan]
      /\ update' = IF visit = {q} THEN "await" ELSE "take"
      /\ UNCHANGED <<now, clock, decoupled, vrr, ctlVars, submits, done, appVars, min_delay, asked, inTurn,
                     deadline, frametime, pausing, longest>>
  BY DEF take_submission_span, Taken
<1>2. s = NoSpan \/ s \in Spans
  BY DEF IInv, TypeOK
<1>3. \A p \in Queues : span'[p] = IF p = q THEN NoSpan ELSE span[p]
  BY <1>1 DEF IInv, TypeOK
<1>4. TypeOK'
  <2>1. span' \in [Queues -> Spans \cup {NoSpan}]
    BY <1>1 DEF IInv, TypeOK
  <2>2. work' \subseteq Spans /\ visit' \subseteq Queues
    BY <1>1, <1>2 DEF IInv, TypeOK
  <2>3. update' \in {"idle", "take", "await", "lock", "pace", "pause"}
    BY <1>1
  <2> QED BY <1>1, <2>1, <2>2, <2>3 DEF IInv, TypeOK
<1>5. Pacing'
  BY <1>1, PacingStays, PartsOfFrames
<1>6. Notified' = Notified /\ Notified \in Nat
  <2>1. Notified \in Nat
    BY Submissions DEF IInv, Spanning
  <2> QED BY <1>1, <2>1 DEF Notified
<1>7. ASSUME NEW n \in 1 .. Notified
      PROVE  /\ Done(n)' <=> Done(n)
             /\ InSpan(n) => InSpan(n)' \/ InWork(n)'
             /\ InSpan(n) /\ submits[n].queue \in visit =>
                  (InSpan(n)' /\ submits[n].queue \in visit') \/ InWork(n)'
             /\ InWork(n) => InWork(n)'
  <2>1. n \in 1 .. Len(submits) /\ submits[n].queue \in Queues
    <3>1. n \in 1 .. Len(submits)
      BY <1>6, Submissions DEF IInv
    <3> QED BY <3>1, Submissions DEF IInv
  <2>2. (Done(n)' <=> Done(n)) /\ (InWork(n) => InWork(n)')
    BY <1>1 DEF Done, InWork
  <2>3. CASE submits[n].queue # q
    BY <1>1, <1>3, <2>1, <2>2, <2>3 DEF InSpan
  <2>4. CASE submits[n].queue = q
    <3>1. InSpan(n) => s \in work' /\ s.last >= n /\ submits[s.last].queue = q
      BY <1>1, <2>4 DEF InSpan, IInv, Spanning
    <3>2. InSpan(n) => InWork(n)'
      BY <1>1, <2>4, <3>1 DEF InWork
    <3> QED BY <2>2, <3>2
  <2> QED BY <2>3, <2>4
<1>8. Followed'
  <2>1. \A n \in 1 .. asked : n \in 1 .. Notified
    BY <1>6 DEF IInv, Spanning, TypeOK
  <2>2. \A n \in 1 .. Notified : submits[n].collected => Done(n)' \/ InSpan(n)' \/ InWork(n)'
    BY <1>7 DEF IInv, Followed
  <2>3. \A n \in 1 .. asked : submits[n].collected =>
          Done(n)' \/ (InSpan(n)' /\ submits[n].queue \in visit') \/ InWork(n)'
    BY <1>7, <2>1 DEF IInv, Followed
  <2> QED BY <1>1, <1>6, <2>2, <2>3 DEF Followed
<1>9. Spanning'
  BY <1>1, <1>3, <1>6 DEF IInv, Spanning
<1>10. InOrder' /\ Phases'
  BY <1>1 DEF IInv, InOrder, Phases
<1> QED BY <1>4, <1>5, <1>8, <1>9, <1>10 DEF IInv

\* What a span that is done was to be waited for is done.
LEMMA AwaitKeeps ==
  ASSUME IInv, NEW s \in work, Await(s)
  PROVE  IInv'
<1> USE DEF cfgVars, ctlVars, appVars, paceVars
<1>1. /\ update = "await" /\ (clock => s.last \in done) /\ work' = work \ {s}
      /\ UNCHANGED <<now, clock, decoupled, vrr, ctlVars, span, submits, done, appVars, update, min_delay, visit,
                     asked, inTurn, deadline, frametime, pausing, longest>>
  BY DEF Await, has_completed
<1>2. TypeOK'
  BY <1>1 DEF IInv, TypeOK
<1>3. Pacing'
  BY <1>1, PacingStays, PartsOfFrames
<1>4. Notified' = Notified /\ Notified \in Nat
  <2>1. Notified \in Nat
    BY Submissions DEF IInv, Spanning
  <2> QED BY <1>1, <2>1 DEF Notified
<1>5. ASSUME NEW n \in 1 .. Notified
      PROVE  /\ Done(n)' <=> Done(n)
             /\ InSpan(n)' <=> InSpan(n)
             /\ InWork(n) => InWork(n)' \/ Done(n)
  <2>1. (Done(n)' <=> Done(n)) /\ (InSpan(n)' <=> InSpan(n))
    BY <1>1 DEF Done, InSpan
  <2>2. ASSUME NEW r \in work, r.last >= n, submits[r.last].queue = submits[n].queue
        PROVE  InWork(n)' \/ Done(n)
    <3>1. CASE r # s
      BY <1>1, <2>2, <3>1 DEF InWork
    <3>2. CASE r = s /\ clock
      <4> PICK l : l = s.last
        OBVIOUS
      <4>1. l \in done /\ l \in 1 .. Len(submits) /\ Len(submits) \in Nat
        BY <1>1, <3>2, Submissions DEF IInv, Spanning
      <4>2. n = l \/ n \in 1 .. l - 1
        BY <1>4, <2>2, <3>2, <4>1
      <4>3. n \in done
        BY <2>2, <3>2, <4>1, <4>2 DEF IInv, InOrder
      <4> QED BY <4>3 DEF Done
    <3>3. CASE ~clock
      BY <3>3 DEF Done
    <3> QED BY <3>1, <3>2, <3>3
  <2> QED BY <2>1, <2>2 DEF InWork
<1>6. Followed'
  <2>1. \A n \in 1 .. asked : n \in 1 .. Notified
    BY <1>4 DEF IInv, Spanning, TypeOK
  <2>2. \A n \in 1 .. Notified : submits[n].collected => Done(n)' \/ InSpan(n)' \/ InWork(n)'
    BY <1>5 DEF IInv, Followed
  <2>3. \A n \in 1 .. asked : submits[n].collected =>
          Done(n)' \/ (InSpan(n)' /\ submits[n].queue \in visit) \/ InWork(n)'
    BY <1>5, <2>1 DEF IInv, Followed
  <2> QED BY <1>1, <1>4, <2>2, <2>3 DEF Followed
<1>7. Spanning' /\ InOrder' /\ Phases'
  BY <1>1, <1>4 DEF IInv, Spanning, InOrder, Phases
<1> QED BY <1>2, <1>3, <1>6, <1>7 DEF IInv

LEMMA AwaitedKeeps == IInv /\ Awaited => IInv'
<1> SUFFICES ASSUME IInv, Awaited PROVE IInv'
  OBVIOUS
<1> USE DEF cfgVars, ctlVars, appVars, paceVars
<1>1. TypeOK'
  BY DEF Awaited, IInv, TypeOK
<1>2. Pacing'
  BY PacingStays, PartsOfFrames DEF Awaited
<1>3. Followed' /\ Spanning' /\ InOrder' /\ Phases'
  BY WorkStays DEF Awaited, IInv, TypeOK, Phases
<1> QED BY <1>1, <1>2, <1>3 DEF IInv

-----------------------------------------------------------------------------
(* DelayController::delay. *)

LEMMA ReleaseKeeps ==
  ASSUME IInv, NEW ft \in Time, NEW jitter \in Time, update \in {"lock", "pace", "pause"}, Release(ft, jitter),
         drain' \in Time, drain' <= longest,
         UNCHANGED <<now, cfgVars, enabled, frame_index, span, submits, submitting, done, input, presented,
                     visit, work, longest>>
  PROVE  IInv'
<1> USE DEF cfgVars
<1>1. now \in Nat /\ now \in Time /\ longest \in Nat /\ 0 \in Time
  BY PartsOfFrames DEF Time
<1>2. /\ previous' = [frametime |-> ft, jitter |-> jitter, release |-> now] /\ update' = "idle"
      /\ min_delay' = [app |-> 0, layer |-> 0] /\ deadline' = 0 /\ frametime' = 0 /\ pausing' = 0
      /\ orderly' = inTurn /\ inTurn' = FALSE /\ asked' = 0
  BY DEF Release, NoDelay
<1>3. TypeOK'
  <2>1. previous' \in [frametime : Time, jitter : Time, release : Time]
    BY <1>1, <1>2
  <2>2. min_delay' \in [app : AppDelays \cup {0}, layer : Nat]
    BY <1>2
  <2> QED BY <1>1, <1>2, <2>1, <2>2 DEF IInv, TypeOK
<1>4. Pacing'
  BY <1>1, <1>2 DEF Pacing
<1>5. Followed' /\ Spanning' /\ InOrder' /\ Phases'
  BY <1>2, WorkStays DEF IInv, TypeOK, Phases
<1> QED BY <1>3, <1>4, <1>5 DEF IInv

LEMMA FirstFrameKeeps == IInv /\ FirstFrame => IInv'
<1> SUFFICES ASSUME IInv, FirstFrame PROVE IInv'
  OBVIOUS
<1>1. 0 \in Time /\ drain \in Time /\ drain <= longest
  BY DEF IInv, TypeOK, Pacing, Time
<1> QED BY <1>1, ReleaseKeeps DEF FirstFrame

LEMMA StartDelayKeeps == IInv /\ StartDelay => IInv'
<1> SUFFICES ASSUME IInv, StartDelay PROVE IInv'
  OBVIOUS
<1> USE DEF cfgVars, ctlVars, appVars
<1>1. /\ update = "lock" /\ previous # NoFrame
      /\ frametime' = now - previous.release /\ longest' = Longer(longest, frametime')
      /\ deadline' = LayerLimit /\ update' = "pace"
      /\ UNCHANGED <<now, clock, decoupled, vrr, ctlVars, span, submits, done, appVars, min_delay, visit, work,
                     asked, inTurn, pausing>>
  BY DEF StartDelay, Stricter, LayerLimit
<1>2. /\ previous.release \in Nat /\ now \in Time /\ now \in Nat /\ longest \in Nat /\ drain \in Nat
      /\ previous.release <= now /\ drain <= longest /\ longest \in Time
  BY <1>1, FrameRecords, PartsOfFrames DEF IInv, Pacing, TypeOK
<1>3. frametime' \in Time /\ longest' \in Time /\ frametime' <= longest' /\ drain <= longest'
  BY <1>1, <1>2 DEF Time, Longer
<1>4. deadline' \in Nat
  BY <1>1, <1>2, Limits DEF IInv, LayerLimit, Longer
<1>5. TypeOK'
  BY <1>1, <1>3, <1>4 DEF IInv, TypeOK
<1>6. Pacing'
  <2>1. LayerLimit' = LayerLimit
    BY <1>1 DEF LayerLimit
  <2> QED BY <1>1, <1>2, <1>3, <2>1 DEF Pacing
<1>7. Followed' /\ Spanning' /\ InOrder' /\ Phases'
  BY <1>1, WorkStays DEF IInv, TypeOK, Phases
<1> QED BY <1>5, <1>6, <1>7 DEF IInv

LEMMA EndDelayKeeps == IInv /\ EndDelay => IInv'
<1> SUFFICES ASSUME IInv, EndDelay PROVE IInv'
  OBVIOUS
<1>1. 0 \in Time /\ frametime \in Time /\ drain \in Time /\ drain <= longest
  BY DEF IInv, TypeOK, Pacing, Time
<1> QED BY <1>1, ReleaseKeeps DEF EndDelay

LEMMA StartPauseKeeps == IInv /\ StartPause => IInv'
<1> SUFFICES ASSUME IInv, StartPause PROVE IInv'
  OBVIOUS
<1> USE DEF cfgVars, ctlVars, appVars
<1>1. /\ update = "pace" /\ now >= deadline
      /\ pausing' = now /\ deadline' = now + Jitter + drain /\ update' = "pause"
      /\ UNCHANGED <<now, clock, decoupled, vrr, ctlVars, span, submits, done, appVars, min_delay, visit, work,
                     frametime, asked, inTurn, longest>>
  BY DEF StartPause
<1>2. now \in Time /\ now \in Nat /\ Jitter \in Nat /\ drain \in Nat
  BY PartsOfFrames
<1>3. TypeOK'
  BY <1>1, <1>2 DEF IInv, TypeOK
<1>4. Pacing'
  <2>1. LayerLimit' = LayerLimit /\ Jitter' = Jitter
    BY <1>1 DEF LayerLimit, Jitter
  <2>2. LayerLimit <= now
    BY <1>1 DEF IInv, Pacing
  <2> QED BY <1>1, <2>1, <2>2 DEF IInv, Pacing
<1>5. Followed' /\ Spanning' /\ InOrder' /\ Phases'
  BY <1>1, WorkStays DEF IInv, TypeOK, Phases
<1> QED BY <1>3, <1>4, <1>5 DEF IInv

LEMMA EndPauseKeeps == IInv /\ EndPause => IInv'
<1> SUFFICES ASSUME IInv, EndPause PROVE IInv'
  OBVIOUS
<1>1. Jitter \in Time /\ frametime \in Time /\ drain \in Time /\ drain <= longest
  <2>1. frametime \in Time /\ drain \in Time /\ drain <= longest
    BY DEF IInv, TypeOK, Pacing
  <2> QED BY <2>1, PartsOfFrames DEF Time
<1> QED BY <1>1, ReleaseKeeps DEF EndPause

LEMMA EndPauseAdaptKeeps == IInv /\ EndPauseAdapt => IInv'
<1> SUFFICES ASSUME IInv, EndPauseAdapt PROVE IInv'
  OBVIOUS
<1>1. Jitter \in Time /\ frametime \in Time /\ frametime \in Nat /\ frametime <= longest /\ longest \in Nat
  <2>1. frametime \in Time /\ frametime <= longest
    BY DEF IInv, TypeOK, Pacing
  <2> QED BY <2>1, PartsOfFrames DEF Time
<1>2. drain' \in Nat /\ drain' <= frametime
  <2>1. PICK delta \in Delta(previous.jitter) : drain' = Clamped(drain + delta)
    BY DEF EndPauseAdapt
  <2>2. drain + delta \in Int
    <3>1. delta \in Int
      BY DEF Delta
    <3> QED BY <3>1, PartsOfFrames
  <2> QED BY <1>1, <2>1, <2>2 DEF Clamped, Shorter, Longer
<1>3. drain' \in Time /\ drain' <= longest
  BY <1>1, <1>2 DEF Time
<1> QED BY <1>1, <1>3, ReleaseKeeps DEF EndPauseAdapt

-----------------------------------------------------------------------------
LEMMA NextKeeps == IInv /\ [Next]_vars => IInv'
<1> SUFFICES ASSUME IInv, [Next]_vars PROVE IInv'
  OBVIOUS
<1>1. CASE Tick
  BY <1>1, TickKeeps
<1>2. ASSUME NEW q \in Queues, queue_submit(q) PROVE IInv'
  BY <1>2, queue_submitKeeps
<1>3. CASE notify_submit
  BY <1>3, notify_submitKeeps
<1>4. ASSUME NEW on \in BOOLEAN, UpdatePresent(on) PROVE IInv'
  BY <1>4, UpdatePresentKeeps
<1>5. ASSUME NEW target \in VrrTargets, ensure_vrr_target(target) PROVE IInv'
  BY <1>5, TargetKeeps
<1>6. ASSUME NEW on \in BOOLEAN, UpdateMode(on) PROVE IInv'
  BY <1>6, UpdateModeKeeps
<1>7. ASSUME NEW on \in BOOLEAN, NEW app \in AppDelays, UpdateInput(on, app) PROVE IInv'
  BY <1>7, UpdateInputKeeps
<1>8. ASSUME NEW q \in Queues, take_submission_span(q) PROVE IInv'
  BY <1>8, TakeKeeps
<1>9. ASSUME NEW s \in work, Await(s) PROVE IInv'
  BY <1>9, AwaitKeeps
<1>10. CASE Awaited \/ FirstFrame \/ StartDelay \/ EndDelay \/ StartPause \/ EndPause \/ EndPauseAdapt
  BY <1>10, AwaitedKeeps, FirstFrameKeeps, StartDelayKeeps, EndDelayKeeps, StartPauseKeeps, EndPauseKeeps,
     EndPauseAdaptKeeps
<1>11. ASSUME NEW n \in DOMAIN submits, Complete(n) PROVE IInv'
  BY <1>11, CompleteKeeps
<1>12. CASE UNCHANGED vars
  BY <1>12, StutterKeeps
<1> QED BY <1>1, <1>2, <1>3, <1>4, <1>5, <1>6, <1>7, <1>8, <1>9, <1>10, <1>11, <1>12 DEF Next, Render, Simulation

\* The strengthened invariant holds in every state that the program reaches.
THEOREM Invariance == Spec => []IInv
BY InitSound, NextKeeps, PTL DEF Spec

\* The controller, its locals and the spans always hold what their types say.
THEOREM TypeCorrect == Spec => []TypeOK
<1>1. IInv => TypeOK
  BY DEF IInv
<1> QED BY <1>1, Invariance, PTL

\* An INPUT call is not paced before what was collected when it was made is done.
THEOREM CollectedWorkIsDone == Spec => []CollectedIsDone
<1>1. IInv => CollectedIsDone
  <2> SUFFICES ASSUME IInv, Waited, NEW n \in 1 .. asked, submits[n].collected PROVE n \in done
    BY DEF CollectedIsDone
  <2>1. visit = {} /\ work = {} /\ clock
    BY DEF IInv, Phases, Waited
  <2> QED BY <2>1 DEF IInv, Followed, Done, InWork
<1> QED BY <1>1, Invariance, PTL

\* Frames begin no closer together than the limits say, and no pause is longer
\* than the longest frame and its jitter.
THEOREM FramesPaced == Spec => Paced
<1>1. IInv => PauseBounded
  <2> SUFFICES ASSUME IInv, update = "pause"
               PROVE  deadline - pausing <= longest + longest \div JitterParts
    BY DEF PauseBounded
  <2>1. deadline = pausing + Jitter + drain /\ drain <= longest /\ pausing \in Nat
    BY DEF IInv, Pacing, TypeOK, Time
  <2> QED BY <2>1, PartsOfFrames
<1>2. IInv /\ [Next]_vars =>
        [(previous # NoFrame /\ update # "idle" /\ update' = "idle") =>
           previous'.release - previous.release >= Longer(min_delay.app, min_delay.layer)]_vars
  <2> SUFFICES ASSUME IInv, Next, previous # NoFrame, update # "idle", update' = "idle"
               PROVE  previous'.release - previous.release >= Longer(min_delay.app, min_delay.layer)
    OBVIOUS
  <2>1. /\ now \in Nat /\ previous.release \in Nat /\ Longer(min_delay.app, min_delay.layer) \in Nat
    BY FrameRecords, Limits, PartsOfFrames DEF IInv, Longer
  <2>2. CASE EndDelay
    BY <2>1, <2>2 DEF EndDelay, Release, IInv, Pacing, LayerLimit
  <2>3. CASE EndPause \/ EndPauseAdapt
    BY <2>1, <2>3 DEF EndPause, EndPauseAdapt, Release, IInv, Pacing, LayerLimit
  <2>4. EndDelay \/ EndPause \/ EndPauseAdapt
    BY DEF Next, Tick, Render, Simulation, queue_submit, notify_submit, UpdatePresent, ensure_vrr_target,
      UpdateMode, UpdateInput, take_submission_span, Await, Awaited, FirstFrame, StartDelay, StartPause,
      Complete, callVars
  <2> QED BY <2>2, <2>3, <2>4
<1> QED BY <1>1, <1>2, Invariance, PTL DEF Spec, Paced

-----------------------------------------------------------------------------
(* The promise of the extension rests on the turns of the calls as well. *)

\* The frame whose submissions may be made: in a call it is the one before.
Begun == IF update = "idle" THEN input ELSE input - 1

\* A frame called for in its turn is open, with the mode on; while the order is
\* kept, what is submitted for a begun frame is collected, and no submission is
\* under way from the frame's present to the return of the next call.
Turns ==
  /\ \A n \in DOMAIN submits : submits[n].frame <= Begun
  /\ (update # "idle" /\ inTurn) => presented = input - 1 /\ enabled /\ frame_index # 0
  /\ orderly =>
       /\ \A n \in DOMAIN submits : submits[n].frame = Begun => submits[n].collected
       /\ update = "idle" => \/ presented = input /\ submitting = NoSpan
                             \/ presented = input - 1 /\ enabled /\ frame_index # 0
       /\ update # "idle" => presented = input - 1 /\ submitting = NoSpan /\ asked = Len(submits)

LEMMA FrameNumbers ==
  ASSUME TypeOK
  PROVE  /\ input \in Nat /\ presented \in Nat /\ presented <= input /\ Begun \in Int
         /\ \A n \in DOMAIN submits : submits[n].frame \in Nat \ {0}
<1>1. \A n \in 1 .. Len(submits) : submits[n] \in [queue : Queues, frame : Frame, collected : BOOLEAN]
  BY ElementOfSeq DEF TypeOK
<1>2. \A n \in DOMAIN submits : submits[n].frame \in Frame
  BY <1>1, Submissions
<1>3. input \in Nat /\ presented \in Nat /\ presented <= input
  BY DEF TypeOK
<1> QED BY <1>2, <1>3 DEF Frame, Begun

LEMMA TurnsInit == Init => Turns
<1> SUFFICES ASSUME Init PROVE Turns
  OBVIOUS
<1>1. DOMAIN submits = {}
  BY EmptySeq DEF Init
<1> QED BY <1>1 DEF Init, Turns

\* Steps that neither begin nor end a call, and submit and present nothing.
LEMMA TurnsStay ==
  ASSUME Turns, UNCHANGED <<input, presented, submits, enabled, frame_index, orderly, inTurn, asked>>,
         submitting' \in {submitting, NoSpan}, update' = "idle" <=> update = "idle"
  PROVE  Turns'
BY DEF Turns, Begun

LEMMA SubmitKeepsTurns ==
  ASSUME IInv, Turns, NEW q \in Queues, queue_submit(q)
  PROVE  Turns'
<1> PICK r, h : /\ r = [queue |-> q, frame |-> presented + 1, collected |-> should_track_submissions]
                /\ h = Len(submits) + 1
  OBVIOUS
<1>1. /\ submitting = NoSpan /\ submits' = Append(submits, r)
      /\ presented < input - (IF update = "idle" THEN 0 ELSE 1)
      /\ UNCHANGED <<input, presented, enabled, frame_index, orderly, inTurn, asked, update>>
  BY DEF queue_submit, ctlVars, callVars
<1>2. r.frame = presented + 1 /\ r.collected = (enabled /\ frame_index # 0)
  BY DEF should_track_submissions
<1>3. /\ DOMAIN submits' = 1 .. h /\ DOMAIN submits = 1 .. h - 1 /\ h \in Nat \ {0}
      /\ submits'[h] = r /\ \A n \in 1 .. h - 1 : submits'[n] = submits[n]
  <2>1. submits' \in Seq([queue : Queues, frame : Frame, collected : BOOLEAN]) /\ TypeOK
    BY queue_submitKeeps DEF IInv, TypeOK
  <2>2. Len(submits) \in Nat /\ DOMAIN submits = 1 .. Len(submits)
    BY <2>1, Submissions
  <2>3. r \in [queue : Queues, frame : Frame, collected : BOOLEAN]
    <3>1. presented + 1 \in Frame
      BY <1>1, FrameNumbers DEF IInv, TypeOK, Frame
    <3>2. should_track_submissions \in BOOLEAN
      BY DEF should_track_submissions
    <3> QED BY <3>1, <3>2
  <2>4. /\ Len(Append(submits, r)) = h /\ Append(submits, r)[h] = r
        /\ \A n \in 1 .. Len(submits) : Append(submits, r)[n] = submits[n]
    BY <2>1, <2>2, <2>3, AppendProperties DEF TypeOK
  <2> QED BY <1>1, <2>1, <2>2, <2>4, LenProperties
<1>4. input \in Nat /\ presented \in Nat /\ Begun' = Begun /\ r.frame <= Begun
  BY <1>1, <1>2, FrameNumbers DEF IInv, Begun
<1>5. orderly => update = "idle" /\ presented = input - 1 /\ enabled /\ frame_index # 0
  <2> SUFFICES ASSUME orderly PROVE update = "idle" /\ presented = input - 1 /\ enabled /\ frame_index # 0
    OBVIOUS
  <2>1. presented # input /\ (update # "idle" => presented # input - 1)
    BY <1>1, <1>4
  <2>2. update = "idle"
    BY <2>1 DEF Turns
  <2>3. presented = input \/ (presented = input - 1 /\ enabled /\ frame_index # 0)
    BY <2>2 DEF Turns
  <2> QED BY <2>1, <2>2, <2>3
<1>6. /\ \A n \in DOMAIN submits' : submits'[n].frame <= Begun
      /\ orderly => \A n \in DOMAIN submits' : submits'[n].frame = Begun => submits'[n].collected
  <2> SUFFICES ASSUME NEW n \in 1 .. h
               PROVE  submits'[n].frame <= Begun /\ (orderly /\ submits'[n].frame = Begun => submits'[n].collected)
    BY <1>3
  <2>1. CASE n = h
    BY <2>1, <1>2, <1>3, <1>4, <1>5
  <2>2. CASE n \in 1 .. h - 1
    BY <2>2, <1>3 DEF Turns
  <2> QED BY <2>1, <2>2, <1>3
<1> QED BY <1>1, <1>4, <1>5, <1>6 DEF Turns

LEMMA PresentKeepsTurns ==
  ASSUME IInv, Turns, NEW on \in BOOLEAN, UpdatePresent(on)
  PROVE  Turns'
<1>1. /\ submitting = NoSpan /\ presented < input - (IF update = "idle" THEN 0 ELSE 1)
      /\ presented' = presented + 1
      /\ orderly' = (orderly /\ on /\ input = presented + 1 /\ update = "idle")
      /\ UNCHANGED <<input, submits, submitting, inTurn, asked, update>>
  BY DEF UpdatePresent, callVars
<1>2. input \in Nat /\ presented \in Nat /\ Begun' = Begun
  BY <1>1, FrameNumbers DEF IInv, Begun
<1>3. ~(update # "idle" /\ inTurn)
  <2>1. update # "idle" => presented # input - 1
    BY <1>1, <1>2
  <2> QED BY <2>1 DEF Turns
<1>4. \A n \in DOMAIN submits' : submits'[n].frame <= Begun'
  BY <1>1, <1>2 DEF Turns
<1>5. ASSUME orderly'
      PROVE  /\ update' = "idle" /\ presented' = input' /\ submitting' = NoSpan
             /\ \A n \in DOMAIN submits' : submits'[n].frame = Begun' => submits'[n].collected
  <2>1. orderly /\ update = "idle" /\ input = presented + 1
    BY <1>1, <1>5
  <2> QED BY <1>1, <1>2, <2>1 DEF Turns
<1> QED BY <1>1, <1>3, <1>4, <1>5 DEF Turns

LEMMA ModeKeepsTurns ==
  ASSUME Turns, NEW on \in BOOLEAN, UpdateMode(on)
  PROVE  Turns'
<1>1. /\ update = "idle" /\ update' = "idle" /\ orderly' = FALSE
      /\ UNCHANGED <<input, presented, submits>>
  BY DEF UpdateMode, callVars
<1> QED BY <1>1 DEF Turns, Begun

LEMMA InputKeepsTurns ==
  ASSUME IInv, Turns, NEW on \in BOOLEAN, NEW app \in AppDelays, UpdateInput(on, app)
  PROVE  Turns'
<1>1. /\ update = "idle" /\ input' = input + 1
      /\ UNCHANGED <<submits, submitting, presented>>
  BY DEF UpdateInput
<1>2. input \in Nat /\ presented \in Nat /\ \A n \in DOMAIN submits : submits[n].frame \in Nat
  BY FrameNumbers DEF IInv
<1>3. CASE on
  <2>1. /\ update' = "take" /\ enabled' = TRUE /\ frame_index' = input + 1 /\ asked' = Notified
        /\ inTurn' = (presented = input) /\ orderly' = (orderly /\ inTurn')
    BY <1>3 DEF UpdateInput
  <2>2. Begun = input /\ Begun' = input
    BY <1>1, <1>2, <2>1 DEF Begun
  <2>3. submitting = NoSpan => asked' = Len(submits)
    BY <2>1 DEF Notified
  <2>4. orderly' => presented = input /\ submitting = NoSpan
    <3> SUFFICES ASSUME orderly' PROVE presented = input /\ submitting = NoSpan
      OBVIOUS
    <3>1. orderly /\ presented = input
      BY <2>1
    <3>2. (presented = input /\ submitting = NoSpan) \/ presented = input - 1
      BY <1>1, <3>1 DEF Turns
    <3> QED BY <1>2, <3>1, <3>2
  <2>5. \A n \in DOMAIN submits' : submits'[n].frame <= Begun'
    BY <1>1, <2>2 DEF Turns
  <2>6. ASSUME inTurn' PROVE presented' = input' - 1 /\ enabled' /\ frame_index' # 0
    <3>1. presented = input
      BY <2>1, <2>6
    <3>2. frame_index' # 0 /\ presented' = input' - 1
      BY <1>1, <1>2, <2>1, <3>1
    <3> QED BY <2>1, <3>2
  <2>7. ASSUME orderly'
        PROVE  /\ presented' = input' - 1 /\ submitting' = NoSpan /\ asked' = Len(submits')
               /\ \A n \in DOMAIN submits' : submits'[n].frame = Begun' => submits'[n].collected
    <3>1. orderly /\ presented = input /\ submitting = NoSpan
      BY <2>1, <2>4, <2>7
    <3>2. presented' = input' - 1 /\ submitting' = NoSpan /\ asked' = Len(submits')
      BY <1>1, <1>2, <2>3, <3>1
    <3> QED BY <1>1, <2>2, <3>1, <3>2 DEF Turns
  <2> QED BY <2>1, <2>5, <2>6, <2>7 DEF Turns
<1>4. CASE ~on
  <2>1. update' = "idle" /\ orderly' = FALSE
    BY <1>4 DEF UpdateInput
  <2>2. Begun = input /\ Begun' = input + 1
    BY <1>1, <2>1 DEF Begun
  <2> QED BY <1>1, <1>2, <2>1, <2>2 DEF Turns
<1> QED BY <1>3, <1>4

\* Nothing is submitted yet for the frame that begins.
LEMMA ReleaseKeepsTurns ==
  ASSUME IInv, Turns, update # "idle", update' = "idle", orderly' = inTurn,
         UNCHANGED <<input, presented, submits, enabled, frame_index>>
  PROVE  Turns'
<1>1. input \in Nat /\ \A n \in DOMAIN submits : submits[n].frame \in Nat
  BY FrameNumbers DEF IInv
<1>2. \A n \in DOMAIN submits : submits[n].frame <= input - 1
  BY DEF Turns, Begun
<1>3. Begun' = input
  BY DEF Begun
<1> QED BY <1>1, <1>2, <1>3 DEF Turns

LEMMA TurnsKept == IInv /\ Turns /\ [Next]_vars => Turns'
<1> SUFFICES ASSUME IInv, Turns, [Next]_vars PROVE Turns'
  OBVIOUS
<1>1. CASE Tick \/ notify_submit \/ UNCHANGED vars
  BY <1>1, TurnsStay DEF Tick, notify_submit, vars, ctlVars, appVars, callVars
<1>2. ASSUME NEW q \in Queues, queue_submit(q) PROVE Turns'
  BY <1>2, SubmitKeepsTurns
<1>3. ASSUME NEW on \in BOOLEAN, UpdatePresent(on) PROVE Turns'
  BY <1>3, PresentKeepsTurns
<1>4. ASSUME NEW target \in VrrTargets, ensure_vrr_target(target) PROVE Turns'
  BY <1>4, TurnsStay DEF ensure_vrr_target, ctlVars, appVars, callVars
<1>5. ASSUME NEW on \in BOOLEAN, UpdateMode(on) PROVE Turns'
  BY <1>5, ModeKeepsTurns
<1>6. ASSUME NEW on \in BOOLEAN, NEW app \in AppDelays, UpdateInput(on, app) PROVE Turns'
  BY <1>6, InputKeepsTurns
<1>7. ASSUME NEW q \in Queues, take_submission_span(q) PROVE Turns'
  <2>1. update = "take" /\ update' \in {"take", "await"}
    BY <1>7 DEF take_submission_span
  <2> QED BY <1>7, <2>1, TurnsStay DEF take_submission_span, ctlVars, appVars
<1>8. ASSUME NEW s \in work, Await(s) PROVE Turns'
  BY <1>8, TurnsStay DEF Await, ctlVars, appVars
<1>9. CASE Awaited \/ StartDelay \/ StartPause
  BY <1>9, TurnsStay DEF Awaited, StartDelay, StartPause, ctlVars, appVars
<1>10. CASE FirstFrame \/ EndDelay \/ EndPause \/ EndPauseAdapt
  BY <1>10, ReleaseKeepsTurns DEF FirstFrame, EndDelay, EndPause, EndPauseAdapt, Release
<1>11. ASSUME NEW n \in DOMAIN submits, Complete(n) PROVE Turns'
  BY <1>11, TurnsStay DEF Complete, ctlVars, appVars, callVars
<1> QED BY <1>1, <1>2, <1>3, <1>4, <1>5, <1>6, <1>7, <1>8, <1>9, <1>10, <1>11 DEF Next, Render, Simulation

\* What VK_AMD_anti_lag is for: while its calls come in turn with the mode on, no
\* frame begins before the GPU has finished the frame before (notify_update).
THEOREM FrameBeforeIsDone == Spec => []NoBacklog
<1>1. IInv /\ Turns => NoBacklog
  <2> SUFFICES ASSUME IInv, Turns, Waited, orderly, NEW n \in DOMAIN submits, submits[n].frame = input - 1
               PROVE  n \in done
    BY DEF NoBacklog
  <2>1. update # "idle" /\ Begun = input - 1
    BY DEF Waited, Begun
  <2>2. submits[n].collected /\ n \in 1 .. asked
    BY <2>1, Submissions DEF Turns, IInv
  <2>3. visit = {} /\ work = {} /\ clock
    BY DEF IInv, Phases, Waited
  <2> QED BY <2>2, <2>3 DEF IInv, Followed, Done, InWork
<1>2. Spec => []Turns
  BY TurnsInit, TurnsKept, Invariance, PTL DEF Spec
<1> QED BY <1>1, <1>2, Invariance, PTL
=============================================================================
