------------------------------- MODULE Telemetry -------------------------------
(***************************************************************************)
(* The per-frame records: made by queue_present_khr (entrypoints/queue.rs),*)
(* kept in a ring and streamed by the socket worker of telemetry.rs to one *)
(* client at a time, and read, kept and drawn by the HUD                   *)
(* (tools/vkpace-hud: reader.rs, state.rs, stats.rs).                      *)
(*                                                                         *)
(* A record has its number in the order of the pushes (n), the frame count *)
(* and the time that were read for it.  A client is a HUD process; when it *)
(* ends, another may start.  A pipe is what the kernel holds of what was   *)
(* written to a connection and not yet read.                               *)
(***************************************************************************)
EXTENDS Integers, SequencesExt

CONSTANTS Threads, Huds,
          Presenters,           \* the sets of threads that may present
          RingCapacity,         \* of the layer's ring
          HudCapacity,          \* of a HUD's ring
          PipeCapacity,         \* records a pipe takes
          Bin, Window,          \* of the HUD's plots
          MaxFrames, MaxAlone,  \* bound: presents, and where one thread presents
          MaxConnections        \* bound: connections made

ASSUME TelemetryAssumption ==
  /\ {RingCapacity, HudCapacity, PipeCapacity, Bin} \subseteq Nat \ {0}
  /\ {Window, MaxFrames, MaxAlone, MaxConnections} \subseteq Nat
  /\ Presenters \subseteq SUBSET Threads /\ Presenters # {}

VARIABLES
  presenters,     \* the threads that present
  clock,          \* CLOCK_MONOTONIC
  frames,         \* Counters.frames
  pushed,         \* records pushed
  call,           \* per thread: the step of its present, and the record it makes
  ring,           \* SocketShared.ring
  worker,         \* the socket worker: its step, connection and drained records
  conns,          \* the connections made: does the client hold it, and its pipe
  hud             \* per HUD: its connection, 0 for none, and its ring

threadVars == <<presenters, clock, frames, pushed, call>>
vars == <<threadVars, ring, worker, conns, hud>>

Alone == \E t \in Threads : presenters = {t}
FrameLimit == IF Alone THEN MaxAlone ELSE MaxFrames

Frame  == 0 .. FrameLimit
Time   == 0 .. 2 * FrameLimit
Record == [n : Frame, frame : Frame, ts : Time]
Blank  == [n |-> 0, frame |-> 0, ts |-> 0]
Idle   == [step |-> "idle", rec |-> Blank]

TypeOK ==
  /\ presenters \in Presenters
  /\ clock \in Time /\ frames \in Frame /\ pushed \in 0 .. frames
  /\ call \in [Threads -> [step : {"idle", "counted", "stamped", "indexed", "pushed"}, rec : Record]]
  /\ ring \in Seq(Record) /\ Len(ring) <= RingCapacity
  /\ worker.step \in {"accept", "check", "wait", "write"}
  /\ worker.conn \in 0 .. Len(conns) /\ (worker.step = "accept" <=> worker.conn = 0)
  /\ worker.batch \in Seq(Record) /\ (worker.batch # <<>> => worker.step = "write")
  /\ conns \in Seq([open : BOOLEAN, pipe : Seq(Record)]) /\ Len(conns) <= MaxConnections
  /\ \A c \in DOMAIN conns : Len(conns[c].pipe) <= PipeCapacity
  /\ \A h \in Huds : /\ hud[h].conn \in 0 .. Len(conns)
                     /\ hud[h].ring \in Seq(Record) /\ Len(hud[h].ring) <= HudCapacity

Init ==
  /\ presenters \in Presenters
  /\ clock = 0 /\ frames = 0 /\ pushed = 0
  /\ call = [t \in Threads |-> Idle]
  /\ ring = <<>>
  /\ worker = [step |-> "accept", conn |-> 0, served |-> 0, batch |-> <<>>]
  /\ conns = <<>>
  /\ hud = [h \in Huds |-> [conn |-> 0, ring |-> <<>>]]

-----------------------------------------------------------------------------
(* queue_present_khr, after the driver's present, and push_record *)

InCall(t, step) == call[t].step = step
Enter(t, step, rec) == call' = [call EXCEPT ![t] = [step |-> step, rec |-> rec]]

Present(t) ==
  /\ t \in presenters /\ InCall(t, "idle") /\ frames < FrameLimit
  /\ frames' = frames + 1
  /\ Enter(t, "counted", Blank)
  /\ UNCHANGED <<presenters, clock, pushed, ring, worker, conns, hud>>

\* The time, then the count: another thread may present in between.
Stamp(t) ==
  /\ InCall(t, "counted")
  /\ clock' \in (clock .. clock + 2) \cap Time
  /\ Enter(t, "stamped", [call[t].rec EXCEPT !.ts = clock'])
  /\ UNCHANGED <<presenters, frames, pushed, ring, worker, conns, hud>>

ReadFrames(t) ==
  /\ InCall(t, "stamped")
  /\ Enter(t, "indexed", [call[t].rec EXCEPT !.frame = frames])
  /\ UNCHANGED <<presenters, clock, frames, pushed, ring, worker, conns, hud>>

Slip_Unbounded(r, capacity, rec) == Append(r, rec)
\* Both rings drop their oldest record when they are full.
PushBack(r, capacity, rec) ==
  IF Len(r) = capacity THEN Append(Tail(r), rec) ELSE Append(r, rec)

Slip_LockedWhileWriting == worker.step # "write"
\* The worker holds the lock of the ring while it takes the records out, and
\* for no longer.
RingFree == TRUE

Push(t) ==
  /\ InCall(t, "indexed") /\ RingFree
  /\ pushed' = pushed + 1
  /\ ring' = PushBack(ring, RingCapacity, [call[t].rec EXCEPT !.n = pushed + 1])
  /\ Enter(t, "pushed", Blank)
  /\ UNCHANGED <<presenters, clock, frames, worker, conns, hud>>

NotifyOne(t) ==
  /\ InCall(t, "pushed")
  /\ worker' = IF worker.step = "wait" THEN [worker EXCEPT !.step = "check"] ELSE worker
  /\ call' = [call EXCEPT ![t] = Idle]
  /\ UNCHANGED <<presenters, clock, frames, pushed, ring, conns, hud>>

Presenting(t) == Stamp(t) \/ ReadFrames(t) \/ Push(t) \/ NotifyOne(t)

-----------------------------------------------------------------------------
(* run_socket and serve_client *)

\* Connections wait in the listener's queue, those of ended clients too.
Accept ==
  /\ worker.step = "accept" /\ worker.served < Len(conns)
  /\ worker' = [worker EXCEPT !.step = "check", !.conn = worker.served + 1, !.served = @ + 1]
  /\ UNCHANGED <<threadVars, ring, conns, hud>>

\* The look at the ring and the wait are one step: both under the lock.
Wait ==
  /\ worker.step = "check" /\ ring = <<>>
  /\ worker' = [worker EXCEPT !.step = "wait"]
  /\ UNCHANGED <<threadVars, ring, conns, hud>>

Slip_CopyOut(r) == r
LeftByDrain(r) == <<>>

Drain ==
  /\ worker.step = "check" /\ ring # <<>>
  /\ worker' = [worker EXCEPT !.step = "write", !.batch = ring]
  /\ ring' = LeftByDrain(ring)
  /\ UNCHANGED <<threadVars, conns, hud>>

\* write_all blocks while the pipe is full and the client is there.
WriteRecord ==
  LET c == worker.conn IN
  /\ worker.step = "write" /\ worker.batch # <<>>
  /\ conns[c].open /\ Len(conns[c].pipe) < PipeCapacity
  /\ conns' = [conns EXCEPT ![c].pipe = Append(@, Head(worker.batch))]
  /\ worker' = [worker EXCEPT !.batch = Tail(@)]
  /\ UNCHANGED <<threadVars, ring, hud>>

\* Once the client has gone the rest of what was drained is lost with it.
WriteFails ==
  /\ worker.step = "write" /\ worker.batch # <<>> /\ ~conns[worker.conn].open
  /\ worker' = [worker EXCEPT !.step = "accept", !.conn = 0, !.batch = <<>>]
  /\ UNCHANGED <<threadVars, ring, conns, hud>>

BatchWritten ==
  /\ worker.step = "write" /\ worker.batch = <<>>
  /\ worker' = [worker EXCEPT !.step = "check"]
  /\ UNCHANGED <<threadVars, ring, conns, hud>>

Serve == Accept \/ Wait \/ Drain \/ WriteRecord \/ WriteFails \/ BatchWritten

-----------------------------------------------------------------------------
(* The HUD's reader thread *)

Connect(h) ==
  /\ hud[h].conn = 0 /\ Len(conns) < MaxConnections
  /\ conns' = Append(conns, [open |-> TRUE, pipe |-> <<>>])
  /\ hud' = [hud EXCEPT ![h].conn = Len(conns) + 1]
  /\ UNCHANGED <<threadVars, ring, worker>>

ReadLine(h) ==
  LET c == hud[h].conn IN
  /\ c # 0 /\ conns[c].pipe # <<>>
  /\ hud' = [hud EXCEPT ![h].ring = PushBack(@, HudCapacity, Head(conns[c].pipe))]
  /\ conns' = [conns EXCEPT ![c].pipe = Tail(@)]
  /\ UNCHANGED <<threadVars, ring, worker>>

\* The HUD ends: what it has not read is lost, and its ring is gone.
End(h) ==
  /\ hud[h].conn # 0
  /\ conns' = [conns EXCEPT ![hud[h].conn] = [open |-> FALSE, pipe |-> <<>>]]
  /\ hud' = [hud EXCEPT ![h] = [conn |-> 0, ring |-> <<>>]]
  /\ UNCHANGED <<threadVars, ring, worker>>

Next ==
  \/ \E t \in Threads : Present(t) \/ Presenting(t)
  \/ Serve
  \/ \E h \in Huds : Connect(h) \/ ReadLine(h) \/ End(h)

\* A thread inside the layer and the worker go on; no client has to do anything.
Spec == Init /\ [][Next]_vars /\ (\A t \in Threads : WF_vars(Presenting(t))) /\ WF_vars(Serve)

-----------------------------------------------------------------------------
(* What the HUD makes of its ring: frame_gaps, recompute_cache, bin_records *)

Slip_Difference(a, b) == IF b.frame > a.frame + 1 THEN b.frame - a.frame ELSE 0
Gap(a, b) == IF b.frame > a.frame + 1 THEN b.frame - a.frame - 1 ELSE 0
Drops(records) ==
  LET upto[i \in 0 .. Len(records)] ==
        IF i < 2 THEN 0 ELSE upto[i - 1] + Gap(records[i - 1], records[i])
  IN upto[Len(records)]

Latest(records) == IF records = <<>> THEN 0 ELSE Last(records).ts
Cutoff(now) == IF now < Window THEN 0 ELSE now - Window

\* A bin is drawn from a count, percentiles and a maximum of its records: which
\* ones they are matters, and their order does not.  The snapshot is taken after
\* now was read, from a ring that may have grown.
InWindow(records, now) == {r \in ToSet(records) : Cutoff(now) <= r.ts /\ r.ts <= now}

Slip_FromCutoff(ts, now) == (ts - Cutoff(now)) \div Bin
Key(ts, now) == ts \div Bin
BinOf(records, now, k) == {r \in InWindow(records, now) : Key(r.ts, now) = k}

-----------------------------------------------------------------------------
(* Properties *)

Numbers(records) == [i \in DOMAIN records |-> records[i].n]
Increasing(s) == \A i, j \in DOMAIN s : i < j => s[i] < s[j]
HeldBy(h) == hud[h].ring \o (IF hud[h].conn = 0 THEN <<>> ELSE conns[hud[h].conn].pipe)

\* What a HUD has, what is on its way to it, and what the ring still holds are
\* records in the order of their pushes, none of them twice: not when it
\* connects after another one, and not two HUDs the same record
\* (serve_client, run of reader.rs).
StreamInOrder ==
  /\ \A h \in Huds :
       Increasing(Numbers(HeldBy(h)
         \o (IF hud[h].conn # 0 /\ hud[h].conn = worker.conn THEN worker.batch ELSE <<>>) \o ring))
  /\ \A g, h \in Huds : g # h => ToSet(Numbers(HeldBy(g))) \cap ToSet(Numbers(HeldBy(h))) = {}

\* The drops the HUD counts are the records it should have and has not, however
\* they were lost: to a full ring, with a client that went, or to another HUD;
\* where one thread presents (frame_gaps; two threads may read one count).
GapIsLoss ==
  Alone => \A h \in Huds : LET r == hud[h].ring IN
    r # <<>> => Drops(r) = Last(r).n - Head(r).n + 1 - Len(r)

\* "Sealed bins never change": a bin that is past stays as it was drawn while
\* all of it is in the window and the ring has lost none of it, where one
\* thread presents (bin_records; the plots of recompute_cache).
SealedBins ==
  [][Alone => \A h \in Huds :
       LET r == hud[h].ring  s == hud'[h].ring  now == Latest(r) IN
       \A later \in {now, Latest(s)}, k \in 0 .. (now \div Bin) - 1 :
         /\ k * Bin >= Cutoff(later)
         /\ BinOf(r, now, k) \subseteq ToSet(s)
         => BinOf(s, later, k) = BinOf(r, now, k)]_vars

\* "The hot path never blocks on the socket": a present returns whatever the
\* clients do; and a worker that looks at the ring or waits takes what is
\* there, no wakeup being lost (push_record, serve_client).
Flow ==
  /\ \A t \in Threads : ~InCall(t, "idle") ~> InCall(t, "idle")
  /\ (ring # <<>> /\ worker.step \in {"check", "wait"}) ~> worker.step \notin {"check", "wait"}
=============================================================================
