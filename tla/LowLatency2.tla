----------------------------- MODULE LowLatency2 -----------------------------
(***************************************************************************)
(* low_latency2/mod.rs and submission_span.rs: how the submissions of a    *)
(* frame, made on any queue by any thread, reach the swapchain monitor.    *)
(* A queue's strategy collapses the submissions of each present id into a  *)
(* span; a present walks over the device's queues, one lock after another, *)
(* takes the spans of its id, and attaches them as a group.                *)
(*                                                                         *)
(* A submission (its timestamp Handle) is its number in the order of       *)
(* notify_submit.  What a monitor does with a group is SwapchainMonitor.   *)
(***************************************************************************)
EXTENDS Integers, Sequences, FiniteSets

CONSTANTS Queues, Swapchains,
          Presenters,           \* threads that present
          PresentIds,           \* present ids; 0 is a submission without one
          MaxTracked,           \* MAX_TRACKED_PRESENTS (50 in the code)
          MaxSubmits,           \* bound: calls of notify_submit
          MaxPresents           \* bound: presents

ASSUME LowLatencyAssumption ==
  /\ PresentIds \subseteq Nat
  /\ MaxTracked \in Nat /\ MaxSubmits \in Nat /\ MaxPresents \in Nat

VARIABLES
  submissions,          \* per queue: present id -> span
  stale_present_ids,    \* per queue: the ids of the submissions it tracks
  is_out_of_band,       \* per queue
  monitors,             \* the swapchains that have a monitor
  presenting,           \* per presenter: the present it is in, or NoPresent
  attached,             \* (history) the groups given to monitors
  submits,              \* (history) the queue and id of each submission
  evicted,              \* (history) submissions dropped at the queue's limit
  presents              \* (history) number of presents begun

queueVars == <<submissions, stale_present_ids>>
logVars == <<submits, evicted, presents>>
vars == <<queueVars, is_out_of_band, monitors, presenting, attached, logVars>>

Handle == 1 .. MaxSubmits
\* SubmissionSpan: the first and the last submission (its tail, or its head).
Span == [queue : Queues, head : Handle, tail : Handle]
NoPresent == [swapchain |-> "none"]
\* before is the number of submissions made when the present began.
Present == [swapchain : Swapchains, id : PresentIds, todo : SUBSET Queues,
            work : SUBSET Span, before : 0 .. MaxSubmits]

TypeOK ==
  /\ \A q \in Queues : /\ DOMAIN submissions[q] \subseteq PresentIds
                       /\ \A id \in DOMAIN submissions[q] : submissions[q][id] \in Span
                       /\ stale_present_ids[q] \in Seq(PresentIds \ {0})
  /\ is_out_of_band \in [Queues -> BOOLEAN]
  /\ monitors \subseteq Swapchains
  /\ presenting \in [Presenters -> Present \cup {NoPresent}]
  /\ attached \subseteq Present
  /\ submits \in Seq([queue : Queues, id : PresentIds])
  /\ evicted \subseteq Handle
  /\ presents \in 0 .. MaxPresents

Init ==
  /\ submissions = [q \in Queues |-> [id \in {} |-> 0]]
  /\ stale_present_ids = [q \in Queues |-> <<>>]
  /\ is_out_of_band = [q \in Queues |-> FALSE]
  /\ monitors = {}
  /\ presenting = [t \in Presenters |-> NoPresent]
  /\ attached = {} /\ submits = <<>>
  /\ evicted = {} /\ presents = 0

\* The submissions a span stands for, of those made under the id.
Covered(span, id) ==
  {h \in span.head .. span.tail : submits[h] = [queue |-> span.queue, id |-> id]}

Without(f, id) == [k \in DOMAIN f \ {id} |-> f[k]]

-----------------------------------------------------------------------------
(* The queue's strategy. *)

\* A submission starts the span of its id, or becomes its last one.
Slip_Restart(spans, q, id, h) ==
  [k \in DOMAIN spans \cup {id} |->
     IF k = id THEN [queue |-> q, head |-> h, tail |-> h] ELSE spans[k]]

Extended(spans, q, id, h) ==
  [k \in DOMAIN spans \cup {id} |->
     IF k # id THEN spans[k]
     ELSE [queue |-> q, head |-> IF id \in DOMAIN spans THEN spans[id].head ELSE h, tail |-> h]]

\* The ids remembered, one per submission that has an id.
Slip_RememberZero(ids, id) == Append(ids, id)

Remembered(ids, id) == IF id = 0 THEN ids ELSE Append(ids, id)

Evicts(ids) == Len(ids) > MaxTracked

notify_submit(q, id) ==
  LET h     == Len(submits) + 1
      spans == Extended(submissions[q], q, id, h)
      stale == Remembered(stale_present_ids[q], id)
      log   == Append(submits, [queue |-> q, id |-> id])
  IN /\ h <= MaxSubmits
     /\ submits' = log
     /\ IF id # 0 /\ Evicts(stale)
          THEN /\ stale_present_ids' = [stale_present_ids EXCEPT ![q] = Tail(stale)]
               /\ submissions' = [submissions EXCEPT ![q] = Without(spans, Head(stale))]
               /\ evicted' = evicted \cup
                    {k \in 1 .. h : /\ Head(stale) \in DOMAIN spans
                                    /\ k \in spans[Head(stale)].head .. spans[Head(stale)].tail
                                    /\ log[k] = [queue |-> q, id |-> Head(stale)]}
          ELSE /\ stale_present_ids' = [stale_present_ids EXCEPT ![q] = stale]
               /\ submissions' = [submissions EXCEPT ![q] = spans]
               /\ UNCHANGED evicted
     /\ UNCHANGED <<is_out_of_band, monitors, presenting, attached, presents>>

mark_out_of_band(q) ==
  /\ is_out_of_band' = [is_out_of_band EXCEPT ![q] = TRUE]
  /\ UNCHANGED <<queueVars, monitors, presenting, attached, logVars>>

-----------------------------------------------------------------------------
(* The device's strategy. *)

notify_create_swapchain(s) ==
  /\ s \notin monitors
  /\ monitors' = monitors \cup {s}
  /\ UNCHANGED <<queueVars, is_out_of_band, presenting, attached, logVars>>

\* The application does not destroy a swapchain that it is presenting to.
notify_destroy_swapchain(s) ==
  /\ \A t \in Presenters : presenting[t].swapchain # s
  /\ s \in monitors
  /\ monitors' = monitors \ {s}
  /\ UNCHANGED <<queueVars, is_out_of_band, presenting, attached, logVars>>

\* submit_swapchain_present_id of one (swapchain, id) pair of forward_present.
\* An application presents to a swapchain that exists, from one thread at a time.
BeginPresent(t, s, id) ==
  /\ presenting[t] = NoPresent
  /\ s \in monitors
  /\ \A u \in Presenters : presenting[u].swapchain # s
  /\ presents < MaxPresents
  /\ presents' = presents + 1
  /\ presenting' = [presenting EXCEPT ![t] =
       [swapchain |-> s, id |-> id, todo |-> Queues, work |-> {}, before |-> Len(submits)]]
  /\ UNCHANGED <<queueVars, is_out_of_band, monitors, attached, submits, evicted>>

\* The spans a present takes from a queue: of its id, unless out of band.
Slip_TakeOnlyFirst(p, q) ==
  IF is_out_of_band[q] \/ p.work # {} \/ p.id \notin DOMAIN submissions[q]
    THEN {} ELSE {submissions[q][p.id]}

Taken(p, q) ==
  IF is_out_of_band[q] \/ p.id \notin DOMAIN submissions[q]
    THEN {} ELSE {submissions[q][p.id]}

LeftAfter(p, q) ==
  IF Taken(p, q) = {} THEN submissions[q] ELSE Without(submissions[q], p.id)

PastQueue(p, q) ==
  [swapchain |-> p.swapchain, id |-> p.id, before |-> p.before,
   todo |-> p.todo \ {q}, work |-> p.work \cup Taken(p, q)]

VisitQueue(t, q) ==
  /\ presenting[t] # NoPresent
  /\ q \in presenting[t].todo
  /\ presenting' = [presenting EXCEPT ![t] = PastQueue(presenting[t], q)]
  /\ submissions' = [submissions EXCEPT ![q] = LeftAfter(presenting[t], q)]
  /\ UNCHANGED <<stale_present_ids, is_out_of_band, monitors, attached, logVars>>

\* attach_work: a group may be empty.  The monitor is found, by BeginPresent's
\* and notify_destroy_swapchain's conditions.
AttachWork(t) ==
  LET p == presenting[t]
  IN /\ p # NoPresent
     /\ p.todo = {}
     /\ p.swapchain \in monitors
     /\ presenting' = [presenting EXCEPT ![t] = NoPresent]
     /\ attached' = attached \cup {p}
     /\ UNCHANGED <<queueVars, is_out_of_band, monitors, logVars>>

Next ==
  \/ \E q \in Queues, id \in PresentIds : notify_submit(q, id)
  \/ \E q \in Queues : mark_out_of_band(q)
  \/ \E s \in Swapchains : notify_create_swapchain(s) \/ notify_destroy_swapchain(s)
  \/ \E t \in Presenters, s \in Swapchains, id \in PresentIds : BeginPresent(t, s, id)
  \/ \E t \in Presenters, q \in Queues : VisitQueue(t, q)
  \/ \E t \in Presenters : AttachWork(t)

Spec == Init /\ [][Next]_vars

-----------------------------------------------------------------------------
(* Properties. *)

\* Every submission is in exactly one place: still with its queue, in the hands
\* of one present, in one group, or given up.  No interleaving of submissions
\* and presents loses one or puts it in two groups.
Live(q, h) == \E id \in DOMAIN submissions[q] : h \in Covered(submissions[q][id], id)

InWork(p, h) == \E span \in p.work : h \in Covered(span, p.id)

Places(h) ==
  {<<"queue", q>> : q \in {q \in Queues : Live(q, h)}} \cup
  {<<"present", t>> : t \in {t \in Presenters :
                               presenting[t] # NoPresent /\ InWork(presenting[t], h)}} \cup
  {<<"group", p>> : p \in {p \in attached : InWork(p, h)}} \cup
  (IF h \in evicted THEN {<<"evicted", h>>} ELSE {})

OncePlaced == \A h \in 1 .. Len(submits) : Cardinality(Places(h)) = 1

\* A group holds all of its frame that was submitted, on any in-band queue,
\* before its present began: nothing of it is left for a later present.
NoneLeftBehind ==
  \A p \in attached : \A h \in 1 .. p.before :
    \/ submits[h].id # p.id
    \/ is_out_of_band[submits[h].queue]
    \/ ~Live(submits[h].queue, h)

=============================================================================
