-------------------------- MODULE LowLatency2Proofs --------------------------
(***************************************************************************)
(* For any number of queues, swapchains, presenting threads and            *)
(* submissions, and any limit of tracked presents: each submission is in   *)
(* one place, and a present leaves nothing of its frame behind.  The       *)
(* bounds are guards and play no part.                                     *)
(***************************************************************************)
EXTENDS LowLatency2, SequenceTheorems, FiniteSetTheorems, TLAPS

USE LowLatencyAssumption

SpanMaps == UNION {[D -> Span] : D \in SUBSET PresentIds}
Known == 1 .. Len(submits)

Typed ==
  /\ TypeOK
  /\ submissions \in [Queues -> SpanMaps]
  /\ stale_present_ids \in [Queues -> Seq(PresentIds \ {0})]
  /\ Len(submits) <= MaxSubmits
  /\ evicted \subseteq Known

\* A queue's spans are of its own submissions, and each ends with the last one
\* of its id: to extend it adds the new submission and no other.
SpansClosed ==
  \A q \in Queues : \A id \in DOMAIN submissions[q] :
    /\ submissions[q][id].queue = q
    /\ submissions[q][id].head \in Known /\ submissions[q][id].tail \in Known
    /\ \A h \in submissions[q][id].tail + 1 .. Len(submits) : submits[h] # [queue |-> q, id |-> id]

\* What a present has taken, and what it has seen, is past.
Past(p) == 1 .. p.before \subseteq Known /\ \A span \in p.work : span.tail \in Known
AllPast == /\ \A t \in Presenters : presenting[t] # NoPresent => Past(presenting[t])
           /\ \A p \in attached : Past(p)

OnePlace == \A h \in Known : \E x \in Places(h) : Places(h) = {x}

\* On a queue that a present has been to, nothing it should have is left.
NothingLeft(p) ==
  \A h \in 1 .. p.before :
    \/ submits[h].id # p.id
    \/ submits[h].queue \in p.todo
    \/ is_out_of_band[submits[h].queue]
    \/ ~Live(submits[h].queue, h)
Visited == \A t \in Presenters : presenting[t] # NoPresent => NothingLeft(presenting[t])

IInv == Typed /\ SpansClosed /\ AllPast /\ OnePlace /\ Visited /\ NoneLeftBehind
-----------------------------------------------------------------------------
(* The places of a submission, one kind at a time. *)

Carries(t, h) == presenting[t] # NoPresent /\ InWork(presenting[t], h)
Grouped(p, h) == p \in attached /\ InWork(p, h)

LEMMA InPlaces ==
  ASSUME NEW h, NEW x
  PROVE  x \in Places(h) <=> \/ \E q \in Queues : Live(q, h) /\ x = <<"queue", q>>
                             \/ \E t \in Presenters : Carries(t, h) /\ x = <<"present", t>>
                             \/ \E p : Grouped(p, h) /\ x = <<"group", p>>
                             \/ h \in evicted /\ x = <<"evicted", h>>
BY DEF Places, Carries, Grouped

\* Where a submission is, it is nowhere else.

LEMMA NowhereElse ==
  ASSUME OnePlace, NEW h \in Known
  PROVE  /\ \A q \in Queues : Live(q, h) =>
              /\ \A r \in Queues : Live(r, h) => r = q
              /\ \A t \in Presenters : ~Carries(t, h)
              /\ \A p : ~Grouped(p, h)
              /\ h \notin evicted
         /\ \A t \in Presenters : Carries(t, h) =>
              /\ \A q \in Queues : ~Live(q, h)
              /\ \A u \in Presenters : Carries(u, h) => u = t
              /\ \A p : ~Grouped(p, h)
              /\ h \notin evicted
<1> PICK x : Places(h) = {x}
  BY DEF OnePlace
<1>1. \A y : y \in Places(h) <=> y = x
  OBVIOUS
<1>2. ASSUME NEW q \in Queues, Live(q, h)
      PROVE  /\ \A r \in Queues : Live(r, h) => r = q
             /\ \A t \in Presenters : ~Carries(t, h)
             /\ \A p : ~Grouped(p, h)
             /\ h \notin evicted
  <2>1. x = <<"queue", q>>
    BY <1>1, <1>2, InPlaces
  <2>2. \A r \in Queues : Live(r, h) => <<"queue", r>> = x
    BY <1>1, InPlaces
  <2>3. \A t \in Presenters : Carries(t, h) => <<"present", t>> = x
    BY <1>1, InPlaces
  <2>4. \A p : Grouped(p, h) => <<"group", p>> = x
    BY <1>1, InPlaces
  <2>5. h \in evicted => <<"evicted", h>> = x
    BY <1>1, InPlaces
  <2> QED BY <2>1, <2>2, <2>3, <2>4, <2>5
<1>3. ASSUME NEW t \in Presenters, Carries(t, h)
      PROVE  /\ \A q \in Queues : ~Live(q, h)
             /\ \A u \in Presenters : Carries(u, h) => u = t
             /\ \A p : ~Grouped(p, h)
             /\ h \notin evicted
  <2>1. x = <<"present", t>>
    BY <1>1, <1>3, InPlaces
  <2>2. \A r \in Queues : Live(r, h) => <<"queue", r>> = x
    BY <1>1, InPlaces
  <2>3. \A u \in Presenters : Carries(u, h) => <<"present", u>> = x
    BY <1>1, InPlaces
  <2>4. \A p : Grouped(p, h) => <<"group", p>> = x
    BY <1>1, InPlaces
  <2>5. h \in evicted => <<"evicted", h>> = x
    BY <1>1, InPlaces
  <2> QED BY <2>1, <2>2, <2>3, <2>4, <2>5
<1> QED BY <1>2, <1>3

\* A step that moves nothing leaves it where it is.

LEMMA StaysPut ==
  ASSUME NEW h, \E x \in Places(h) : Places(h) = {x},
         \A q \in Queues : Live(q, h)' <=> Live(q, h),
         \A t \in Presenters : Carries(t, h)' <=> Carries(t, h),
         \A p : Grouped(p, h)' <=> Grouped(p, h),
         h \in evicted' <=> h \in evicted
  PROVE  (\E x \in Places(h) : Places(h) = {x})'
<1>1. ASSUME NEW x
      PROVE  x \in Places(h)' <=>
               \/ \E q \in Queues : Live(q, h)' /\ x = <<"queue", q>>
               \/ \E t \in Presenters : Carries(t, h)' /\ x = <<"present", t>>
               \/ \E p : Grouped(p, h)' /\ x = <<"group", p>>
               \/ h \in evicted' /\ x = <<"evicted", h>>
  BY DEF Places, Carries, Grouped
<1>2. \A x : x \in Places(h)' <=> x \in Places(h)
  BY <1>1, InPlaces
<1> QED BY <1>2

\* The one place that a step leaves.

LEMMA InQueueOnly ==
  ASSUME NEW h, NEW q \in Queues, Live(q, h)', \A r \in Queues : Live(r, h)' => r = q,
         \A t \in Presenters : ~Carries(t, h)', \A p : ~Grouped(p, h)', h \notin evicted'
  PROVE  (\E x \in Places(h) : Places(h) = {x})'
<1>1. Places(h)' = {<<"queue", q>>}
  BY DEF Places, Carries, Grouped
<1> QED BY <1>1

LEMMA CarriedOnly ==
  ASSUME NEW h, NEW t \in Presenters, Carries(t, h)', \A q \in Queues : ~Live(q, h)',
         \A u \in Presenters : Carries(u, h)' => u = t, \A p : ~Grouped(p, h)', h \notin evicted'
  PROVE  (\E x \in Places(h) : Places(h) = {x})'
<1>1. Places(h)' = {<<"present", t>>}
  BY DEF Places, Carries, Grouped
<1> QED BY <1>1

LEMMA GroupedOnly ==
  ASSUME NEW h, NEW p, Grouped(p, h)', \A q \in Queues : ~Live(q, h)',
         \A t \in Presenters : ~Carries(t, h)', \A r : Grouped(r, h)' => r = p, h \notin evicted'
  PROVE  (\E x \in Places(h) : Places(h) = {x})'
<1>1. Places(h)' = {<<"group", p>>}
  BY DEF Places, Carries, Grouped
<1> QED BY <1>1

LEMMA EvictedOnly ==
  ASSUME NEW h, h \in evicted', \A q \in Queues : ~Live(q, h)',
         \A t \in Presenters : ~Carries(t, h)', \A p : ~Grouped(p, h)'
  PROVE  (\E x \in Places(h) : Places(h) = {x})'
<1>1. Places(h)' = {<<"evicted", h>>}
  BY DEF Places, Carries, Grouped
<1> QED BY <1>1

LEMMA PresentIsOne == \A p \in Present : p # NoPresent
<1> SUFFICES ASSUME NEW p \in Present, p = NoPresent PROVE FALSE
  OBVIOUS
<1>1. DOMAIN p = {"swapchain", "id", "todo", "work", "before"}
  BY DEF Present
<1>2. DOMAIN NoPresent = {"swapchain"}
  BY DEF NoPresent
<1> QED BY <1>1, <1>2

LEMMA KnownSubmission ==
  ASSUME Typed, NEW h \in Known
  PROVE  submits[h].queue \in Queues /\ submits[h].id \in PresentIds
<1>1. submits[h] \in [queue : Queues, id : PresentIds]
  BY ElementOfSeq DEF Typed, TypeOK, Known
<1> QED BY <1>1

\* The span of a queue's own, and what it holds.

LEMMA LiveSpan ==
  ASSUME Typed, SpansClosed, NEW q \in Queues, NEW h
  PROVE  /\ \A id \in DOMAIN submissions[q] : id \in PresentIds /\ submissions[q][id] \in Span
         /\ Live(q, h) <=> \E id \in DOMAIN submissions[q] :
              /\ h \in submissions[q][id].head .. submissions[q][id].tail
              /\ submits[h] = [queue |-> q, id |-> id]
BY DEF Typed, TypeOK, SpansClosed, Live, Covered

LEMMA LiveNext ==
  ASSUME NEW q, NEW h
  PROVE  Live(q, h)' <=> \E id \in DOMAIN submissions'[q] :
           /\ h \in submissions'[q][id].head .. submissions'[q][id].tail
           /\ submits'[h] = [queue |-> submissions'[q][id].queue, id |-> id]
BY DEF Live, Covered

-----------------------------------------------------------------------------
LEMMA InitSound == Init => IInv
<1> SUFFICES ASSUME Init PROVE IInv
  OBVIOUS
<1>1. Typed
  <2>1. [id \in {} |-> 0] \in SpanMaps
    <3>1. [id \in {} |-> 0] \in [{} -> Span]
      OBVIOUS
    <3> QED BY <3>1 DEF SpanMaps
  <2>2. submits \in Seq([queue : Queues, id : PresentIds]) /\ Len(submits) = 0
    BY EmptySeq DEF Init
  <2>3. stale_present_ids \in [Queues -> Seq(PresentIds \ {0})]
    BY EmptySeq DEF Init
  <2> QED BY <2>1, <2>2, <2>3 DEF Init, Typed, TypeOK, Known
<1>2. Known = {}
  BY DEF Init, Known
<1> QED BY <1>1, <1>2 DEF Init, IInv, SpansClosed, AllPast, OnePlace, Visited, NoneLeftBehind

\* A step that leaves the spans, the presents and the groups alone.

LEMMA QuietKeeps ==
  ASSUME IInv, UNCHANGED <<queueVars, presenting, attached, logVars>>,
         is_out_of_band' \in [Queues -> BOOLEAN], monitors' \subseteq Swapchains,
         \A q \in Queues : is_out_of_band[q] => is_out_of_band'[q]
  PROVE  IInv'
<1> USE DEF queueVars, logVars
<1>1. Typed'
  BY DEF IInv, Typed, TypeOK, Known
<1>2. SpansClosed' /\ AllPast'
  BY DEF IInv, SpansClosed, AllPast, Past, Known
<1>3. \A q, h : Live(q, h)' <=> Live(q, h)
  BY DEF Live, Covered
<1>4. OnePlace'
  <2> SUFFICES ASSUME NEW h \in Known PROVE (\E x \in Places(h) : Places(h) = {x})'
    BY DEF OnePlace, Known
  <2>1. \A t \in Presenters : Carries(t, h)' <=> Carries(t, h)
    BY DEF Carries, InWork, Covered
  <2>2. \A p : Grouped(p, h)' <=> Grouped(p, h)
    BY DEF Grouped, InWork, Covered
  <2>3. \E x \in Places(h) : Places(h) = {x}
    BY DEF IInv, OnePlace
  <2> QED BY <1>3, <2>1, <2>2, <2>3, StaysPut
<1>5. ASSUME NEW p, Past(p), NothingLeft(p) PROVE NothingLeft(p)'
  <2> SUFFICES ASSUME NEW h \in 1 .. p.before
               PROVE  \/ submits[h].id # p.id
                      \/ submits[h].queue \in p.todo
                      \/ is_out_of_band'[submits[h].queue]
                      \/ ~Live(submits[h].queue, h)
    BY <1>3 DEF NothingLeft
  <2>1. submits[h].queue \in Queues
    BY <1>5, KnownSubmission DEF Past, IInv
  <2> QED BY <1>5, <2>1 DEF NothingLeft
<1>6. Visited'
  BY <1>5 DEF IInv, AllPast, Visited
<1>7. NoneLeftBehind'
  <2> SUFFICES ASSUME NEW p \in attached, NEW h \in 1 .. p.before
               PROVE  \/ submits[h].id # p.id
                      \/ is_out_of_band'[submits[h].queue]
                      \/ ~Live(submits[h].queue, h)
    BY <1>3 DEF NoneLeftBehind
  <2>1. submits[h].queue \in Queues
    BY KnownSubmission DEF IInv, AllPast, Past
  <2> QED BY <2>1 DEF IInv, NoneLeftBehind
<1> QED BY <1>1, <1>2, <1>4, <1>6, <1>7 DEF IInv

LEMMA BeginKeeps ==
  ASSUME IInv, NEW t \in Presenters, NEW s \in Swapchains, NEW id \in PresentIds,
         BeginPresent(t, s, id)
  PROVE  IInv'
<1> PICK new : new = [swapchain |-> s, id |-> id, todo |-> Queues, work |-> {}, before |-> Len(submits)]
  OBVIOUS
<1>1. /\ presenting[t] = NoPresent /\ presenting' = [presenting EXCEPT ![t] = new]
      /\ presents' = presents + 1 /\ presents < MaxPresents
      /\ UNCHANGED <<submissions, stale_present_ids, is_out_of_band, monitors, attached, submits,
                     evicted>>
  BY DEF BeginPresent, queueVars
<1>2. new \in Present /\ 1 .. new.before = Known
  BY DEF Present, IInv, Typed, TypeOK, Known
<1>3. \A u \in Presenters : presenting'[u] = IF u = t THEN new ELSE presenting[u]
  BY <1>1 DEF IInv, Typed, TypeOK
<1>4. Typed'
  <2>1. presents' \in 0 .. MaxPresents
    BY <1>1 DEF IInv, Typed, TypeOK
  <2> QED BY <1>1, <1>2, <2>1 DEF IInv, Typed, TypeOK, Known
<1>5. SpansClosed' /\ AllPast'
  BY <1>1, <1>2, <1>3 DEF IInv, SpansClosed, AllPast, Past, Known
<1>6. \A q, h : Live(q, h)' <=> Live(q, h)
  BY <1>1 DEF Live, Covered
<1>7. OnePlace'
  <2> SUFFICES ASSUME NEW h \in Known PROVE (\E x \in Places(h) : Places(h) = {x})'
    BY <1>1 DEF OnePlace, Known
  <2>1. \A u \in Presenters : Carries(u, h)' <=> Carries(u, h)
    <3>1. ~Carries(t, h) /\ ~Carries(t, h)'
      BY <1>1, <1>3 DEF Carries, InWork
    <3>2. \A u \in Presenters : u # t => (Carries(u, h)' <=> Carries(u, h))
      BY <1>1, <1>3 DEF Carries, InWork, Covered
    <3> QED BY <3>1, <3>2
  <2>2. \A p : Grouped(p, h)' <=> Grouped(p, h)
    BY <1>1 DEF Grouped, InWork, Covered
  <2>3. \E x \in Places(h) : Places(h) = {x}
    BY DEF IInv, OnePlace
  <2> QED BY <1>1, <1>6, <2>1, <2>2, <2>3, StaysPut
<1>8. Visited'
  <2> SUFFICES ASSUME NEW u \in Presenters, presenting'[u] # NoPresent,
                      NEW h \in 1 .. presenting'[u].before
               PROVE  \/ submits[h].id # presenting'[u].id
                      \/ submits[h].queue \in presenting'[u].todo
                      \/ is_out_of_band[submits[h].queue]
                      \/ ~Live(submits[h].queue, h)
    BY <1>1, <1>6 DEF Visited, NothingLeft
  <2>1. CASE u = t
    <3>1. submits[h].queue \in Queues
      BY <1>2, <1>3, <2>1, KnownSubmission DEF IInv
    <3> QED BY <1>3, <2>1, <3>1
  <2>2. CASE u # t
    BY <1>3, <2>2 DEF IInv, Visited, NothingLeft
  <2> QED BY <2>1, <2>2
<1>9. NoneLeftBehind'
  BY <1>1, <1>6 DEF IInv, NoneLeftBehind
<1> QED BY <1>4, <1>5, <1>7, <1>8, <1>9 DEF IInv

LEMMA AttachKeeps ==
  ASSUME IInv, NEW t \in Presenters, AttachWork(t)
  PROVE  IInv'
<1> PICK p : p = presenting[t]
  OBVIOUS
<1>1. /\ p # NoPresent /\ p.todo = {}
      /\ presenting' = [presenting EXCEPT ![t] = NoPresent] /\ attached' = attached \cup {p}
      /\ UNCHANGED <<submissions, stale_present_ids, is_out_of_band, monitors, logVars>>
  BY DEF AttachWork, queueVars
<1>2. p \in Present /\ Past(p) /\ NothingLeft(p)
  BY <1>1 DEF IInv, Typed, TypeOK, AllPast, Visited
<1>3. \A u \in Presenters : presenting'[u] = IF u = t THEN NoPresent ELSE presenting[u]
  BY <1>1 DEF IInv, Typed, TypeOK
<1>4. Typed'
  BY <1>1, <1>2 DEF IInv, Typed, TypeOK, Known, logVars
<1>5. SpansClosed' /\ AllPast'
  BY <1>1, <1>2, <1>3 DEF IInv, SpansClosed, AllPast, Past, Known, logVars
<1>6. \A q, h : Live(q, h)' <=> Live(q, h)
  BY <1>1 DEF Live, Covered, logVars
<1>7. \A r, h : InWork(r, h)' <=> InWork(r, h)
  BY <1>1 DEF InWork, Covered, logVars
<1>8. OnePlace'
  <2> SUFFICES ASSUME NEW h \in Known PROVE (\E x \in Places(h) : Places(h) = {x})'
    BY <1>1 DEF OnePlace, Known, logVars
  <2>1. \A u \in Presenters : Carries(u, h)' <=> (Carries(u, h) /\ u # t)
    BY <1>1, <1>3 DEF Carries, InWork, Covered, logVars
  <2>2. \A r : Grouped(r, h)' <=> Grouped(r, h) \/ (r = p /\ InWork(p, h))
    BY <1>1, <1>7 DEF Grouped
  <2>3. CASE InWork(p, h)
    <3>1. Carries(t, h)
      BY <1>1, <2>3 DEF Carries
    <3>2. /\ \A q \in Queues : ~Live(q, h)
          /\ \A u \in Presenters : Carries(u, h) => u = t
          /\ \A r : ~Grouped(r, h)
          /\ h \notin evicted
      BY <3>1, NowhereElse DEF IInv
    <3> QED BY <1>1, <1>6, <2>1, <2>2, <2>3, <3>2, GroupedOnly DEF logVars
  <2>4. CASE ~InWork(p, h)
    <3>1. ~Carries(t, h)
      BY <2>4 DEF Carries
    <3>2. \E x \in Places(h) : Places(h) = {x}
      BY DEF IInv, OnePlace
    <3> QED BY <1>1, <1>6, <2>1, <2>2, <2>4, <3>1, <3>2, StaysPut DEF logVars
  <2> QED BY <2>3, <2>4
<1>9. Visited'
  <2> SUFFICES ASSUME NEW u \in Presenters, u # t, presenting[u] # NoPresent,
                      NEW h \in 1 .. presenting[u].before
               PROVE  \/ submits[h].id # presenting[u].id
                      \/ submits[h].queue \in presenting[u].todo
                      \/ is_out_of_band[submits[h].queue]
                      \/ ~Live(submits[h].queue, h)
    BY <1>1, <1>3, <1>6 DEF Visited, NothingLeft, logVars
  <2> QED BY DEF IInv, Visited, NothingLeft
<1>10. NoneLeftBehind'
  BY <1>1, <1>2, <1>6 DEF IInv, NoneLeftBehind, NothingLeft, logVars
<1> QED BY <1>4, <1>5, <1>8, <1>9, <1>10 DEF IInv

LEMMA VisitKeeps ==
  ASSUME IInv, NEW t \in Presenters, NEW q \in Queues, VisitQueue(t, q)
  PROVE  IInv'
<1> PICK p : p = presenting[t]
  OBVIOUS
<1> PICK now : now = PastQueue(p, q)
  OBVIOUS
<1>1. /\ p # NoPresent /\ q \in p.todo
      /\ presenting' = [presenting EXCEPT ![t] = now]
      /\ submissions' = [submissions EXCEPT ![q] = LeftAfter(p, q)]
      /\ UNCHANGED <<stale_present_ids, is_out_of_band, monitors, attached, submits, evicted, presents>>
  BY DEF VisitQueue, logVars
<1>2. p \in Present /\ Past(p) /\ NothingLeft(p)
  BY <1>1 DEF IInv, Typed, TypeOK, AllPast, Visited
<1>3. /\ \A id \in DOMAIN submissions[q] : id \in PresentIds /\ submissions[q][id] \in Span
      /\ \A id \in DOMAIN submissions[q] : submissions[q][id].queue = q /\ submissions[q][id].tail \in Known
  BY LiveSpan DEF IInv, SpansClosed
<1>4. Taken(p, q) \subseteq Span /\ \A span \in Taken(p, q) : span.tail \in Known
  BY <1>3 DEF Taken
<1>5. /\ now \in Present /\ now # NoPresent /\ now.id = p.id /\ now.before = p.before
      /\ now.todo = p.todo \ {q} /\ now.work = p.work \cup Taken(p, q)
  BY <1>2, <1>4, PresentIsOne DEF Present, PastQueue
<1>6. \A u \in Presenters : presenting'[u] = IF u = t THEN now ELSE presenting[u]
  BY <1>1 DEF IInv, Typed, TypeOK
<1>7. /\ LeftAfter(p, q) \in SpanMaps
      /\ DOMAIN LeftAfter(p, q) \subseteq DOMAIN submissions[q]
      /\ \A id \in DOMAIN LeftAfter(p, q) : LeftAfter(p, q)[id] = submissions[q][id]
      /\ is_out_of_band[q] \/ p.id \notin DOMAIN LeftAfter(p, q)
      /\ \A id \in DOMAIN submissions[q] : id # p.id => id \in DOMAIN LeftAfter(p, q)
      /\ Taken(p, q) = {} => LeftAfter(p, q) = submissions[q]
  <2>1. submissions[q] \in SpanMaps
    BY DEF IInv, Typed
  <2>2. PICK D \in SUBSET PresentIds : submissions[q] \in [D -> Span]
    BY <2>1 DEF SpanMaps
  <2>3. Without(submissions[q], p.id) \in [D \ {p.id} -> Span]
    BY <2>2 DEF Without
  <2>4. Without(submissions[q], p.id) \in SpanMaps
    BY <2>3 DEF SpanMaps
  <2> QED BY <2>1, <2>2, <2>4 DEF LeftAfter, Taken, Without
<1>8. \A r \in Queues : submissions'[r] = IF r = q THEN LeftAfter(p, q) ELSE submissions[r]
  BY <1>1 DEF IInv, Typed
<1>9. ASSUME NEW h
       PROVE  Live(q, h)' <=> \E id \in DOMAIN LeftAfter(p, q) :
                /\ h \in submissions[q][id].head .. submissions[q][id].tail
                /\ submits[h] = [queue |-> q, id |-> id]
  <2>1. Live(q, h)' <=> \E id \in DOMAIN submissions'[q] :
          /\ h \in submissions'[q][id].head .. submissions'[q][id].tail
          /\ submits'[h] = [queue |-> submissions'[q][id].queue, id |-> id]
    BY LiveNext
  <2>2. submissions'[q] = LeftAfter(p, q) /\ submits' = submits
    BY <1>1, <1>8
  <2>3. \A id \in DOMAIN LeftAfter(p, q) :
          LeftAfter(p, q)[id] = submissions[q][id] /\ submissions[q][id].queue = q
    BY <1>3, <1>7
  <2> QED BY <2>1, <2>2, <2>3
<1> DEFINE taken(h) == \E span \in Taken(p, q) : h \in Covered(span, p.id)
<1>10. ASSUME NEW h, taken(h) PROVE Live(q, h) /\ submits[h] = [queue |-> q, id |-> p.id]
  BY <1>3, <1>10 DEF Taken, Covered, Live
<1>11. ASSUME NEW h, NEW r \in Queues PROVE Live(r, h)' <=> Live(r, h) /\ ~(r = q /\ taken(h))
  <2>1. CASE r # q
    BY <1>1, <1>8, <2>1 DEF Live, Covered
  <2>2. CASE r = q /\ Taken(p, q) = {}
    BY <1>1, <1>7, <1>8, <2>2 DEF Live, Covered
  <2>3. CASE r = q /\ Taken(p, q) # {}
    <3>1. p.id \in DOMAIN submissions[q] /\ Taken(p, q) = {submissions[q][p.id]}
          /\ p.id \notin DOMAIN LeftAfter(p, q)
      BY <1>7, <2>3 DEF Taken
    <3>2. DOMAIN LeftAfter(p, q) = DOMAIN submissions[q] \ {p.id}
      BY <1>7, <3>1
    <3>3. Live(q, h)' <=> \E id \in DOMAIN submissions[q] :
            /\ id # p.id
            /\ h \in submissions[q][id].head .. submissions[q][id].tail
            /\ submits[h] = [queue |-> q, id |-> id]
      BY <1>9, <3>2
    <3>4. taken(h) <=> /\ h \in submissions[q][p.id].head .. submissions[q][p.id].tail
                       /\ submits[h] = [queue |-> q, id |-> p.id]
      BY <1>3, <3>1 DEF Covered
    <3>5. Live(q, h) <=> \E id \in DOMAIN submissions[q] :
            /\ h \in submissions[q][id].head .. submissions[q][id].tail
            /\ submits[h] = [queue |-> q, id |-> id]
      BY LiveSpan DEF IInv
    <3> HIDE DEF taken
    <3>6. \A id : submits[h] = [queue |-> q, id |-> id] => submits[h].id = id
      OBVIOUS
    <3> QED BY <2>3, <3>1, <3>3, <3>4, <3>5, <3>6
  <2> QED BY <2>1, <2>2, <2>3
<1>12. \A h : InWork(now, h)' <=> InWork(p, h) \/ taken(h)
  BY <1>1, <1>5 DEF InWork, Covered
<1> HIDE DEF taken
<1>13. Typed'
  BY <1>1, <1>3, <1>5, <1>7, <1>8 DEF IInv, Typed, TypeOK, Known
<1>14. SpansClosed' /\ AllPast'
  <2>1. SpansClosed'
    BY <1>1, <1>7, <1>8 DEF IInv, SpansClosed, Known
  <2>2. Past(now)'
    BY <1>1, <1>2, <1>4, <1>5 DEF Past, Known
  <2> QED BY <1>1, <1>6, <2>1, <2>2 DEF IInv, AllPast, Past, Known
<1>15. OnePlace'
  <2> SUFFICES ASSUME NEW h \in Known PROVE (\E x \in Places(h) : Places(h) = {x})'
    BY <1>1 DEF OnePlace, Known
  <2>1. \A u \in Presenters : Carries(u, h)' <=> Carries(u, h) \/ (u = t /\ taken(h))
    <3>1. Carries(t, h) <=> InWork(p, h)
      BY <1>1 DEF Carries
    <3>2. Carries(t, h)' <=> InWork(now, h)'
      BY <1>5, <1>6 DEF Carries, InWork, Covered
    <3>3. \A u \in Presenters : u # t => (Carries(u, h)' <=> Carries(u, h))
      BY <1>1, <1>6 DEF Carries, InWork, Covered
    <3> QED BY <1>12, <3>1, <3>2, <3>3
  <2>2. \A r : Grouped(r, h)' <=> Grouped(r, h)
    BY <1>1 DEF Grouped, InWork, Covered
  <2>3. CASE taken(h)
    <3>1. /\ \A r \in Queues : Live(r, h) => r = q
          /\ \A u \in Presenters : ~Carries(u, h)
          /\ \A r : ~Grouped(r, h)
          /\ h \notin evicted
      BY <1>10, <2>3, NowhereElse DEF IInv
    <3> QED BY <1>1, <1>11, <2>1, <2>2, <2>3, <3>1, CarriedOnly
  <2>4. CASE ~taken(h)
    <3>1. \E x \in Places(h) : Places(h) = {x}
      BY DEF IInv, OnePlace
    <3> QED BY <1>1, <1>11, <2>1, <2>2, <2>4, <3>1, StaysPut
  <2> QED BY <2>3, <2>4
<1>16. \A h \in Known : Live(submits[h].queue, h)' => Live(submits[h].queue, h)
  <2> SUFFICES ASSUME NEW h \in Known, NEW r, r = submits[h].queue, Live(r, h)' PROVE Live(r, h)
    BY <1>1 DEF Live
  <2> QED BY <1>11, KnownSubmission DEF IInv
<1>17. Visited'
  <2> SUFFICES ASSUME NEW u \in Presenters, presenting'[u] # NoPresent,
                      NEW h \in 1 .. presenting'[u].before
               PROVE  \/ submits[h].id # presenting'[u].id
                      \/ submits[h].queue \in presenting'[u].todo
                      \/ is_out_of_band[submits[h].queue]
                      \/ ~Live(submits[h].queue, h)'
    BY <1>1 DEF Visited, NothingLeft
  <2>1. CASE u # t
    <3>1. h \in Known
      BY <1>6, <2>1 DEF IInv, AllPast, Past
    <3> QED BY <1>6, <1>16, <2>1, <3>1 DEF IInv, Visited, NothingLeft
  <2>2. CASE u = t
    <3>1. h \in Known /\ presenting'[u] = now
      BY <1>2, <1>5, <1>6, <2>2 DEF Past
    <3>2. CASE submits[h].queue # q
      BY <1>2, <1>5, <1>16, <3>1, <3>2 DEF NothingLeft
    <3>3. CASE submits[h].queue = q /\ submits[h].id = p.id /\ ~is_out_of_band[q]
      <4>1. \A id \in DOMAIN LeftAfter(p, q) : submits[h] # [queue |-> q, id |-> id]
        BY <1>7, <3>3
      <4>2. ~Live(q, h)'
        BY <1>9, <4>1
      <4> QED BY <1>1, <3>3, <4>2 DEF Live
    <3> QED BY <1>5, <3>1, <3>2, <3>3
  <2> QED BY <2>1, <2>2
<1>18. NoneLeftBehind'
  <2>1. \A r \in attached : \A h \in 1 .. r.before : h \in Known
    BY DEF IInv, AllPast, Past
  <2> QED BY <1>1, <1>16, <2>1 DEF IInv, NoneLeftBehind
<1> QED BY <1>13, <1>14, <1>15, <1>17, <1>18 DEF IInv

LEMMA SubmitKeeps ==
  ASSUME IInv, NEW q \in Queues, NEW id \in PresentIds, notify_submit(q, id)
  PROVE  IInv'
<1> PICK h, spans, stale, log :
      /\ h = Len(submits) + 1
      /\ spans = Extended(submissions[q], q, id, h)
      /\ stale = Remembered(stale_present_ids[q], id)
      /\ log = Append(submits, [queue |-> q, id |-> id])
  OBVIOUS
<1> DEFINE evicts == id # 0 /\ Evicts(stale)
           In(k, j) == /\ k \in spans[j].head .. spans[j].tail
                       /\ log[k] = [queue |-> q, id |-> j]
<1> PICK kept, gone :
      /\ kept = IF evicts THEN Without(spans, Head(stale)) ELSE spans
      /\ gone = {k \in 1 .. h : evicts /\ Head(stale) \in DOMAIN spans /\ In(k, Head(stale))}
  OBVIOUS
<1>1. /\ h <= MaxSubmits /\ submits' = log /\ evicted' = evicted \cup gone
      /\ submissions' = [submissions EXCEPT ![q] = kept]
      /\ stale_present_ids' =
           [stale_present_ids EXCEPT ![q] = IF evicts THEN Tail(stale) ELSE stale]
      /\ UNCHANGED <<is_out_of_band, monitors, presenting, attached, presents>>
  <2>1. /\ h <= MaxSubmits /\ submits' = log
        /\ UNCHANGED <<is_out_of_band, monitors, presenting, attached, presents>>
    BY DEF notify_submit
  <2>2. CASE evicts
    <3>1. /\ stale_present_ids' = [stale_present_ids EXCEPT ![q] = Tail(stale)]
          /\ submissions' = [submissions EXCEPT ![q] = Without(spans, Head(stale))]
          /\ evicted' = evicted \cup
               {k \in 1 .. h : /\ Head(stale) \in DOMAIN spans
                               /\ k \in spans[Head(stale)].head .. spans[Head(stale)].tail
                               /\ log[k] = [queue |-> q, id |-> Head(stale)]}
      BY <2>2 DEF notify_submit
    <3> QED BY <2>1, <2>2, <3>1
  <2>3. CASE ~evicts
    <3>1. /\ stale_present_ids' = [stale_present_ids EXCEPT ![q] = stale]
          /\ submissions' = [submissions EXCEPT ![q] = spans]
          /\ UNCHANGED evicted
      BY <2>3 DEF notify_submit
    <3>2. gone = {}
      BY <2>3
    <3> QED BY <2>1, <2>3, <3>1, <3>2
  <2> QED BY <2>2, <2>3
<1>2. /\ log \in Seq([queue : Queues, id : PresentIds]) /\ Len(log) = h /\ h \in Handle
      /\ Known = 1 .. h - 1 /\ Known' = 1 .. h /\ h \notin Known /\ 1 .. h = Known \cup {h} /\ h \in Nat
      /\ \A k \in Known : log[k] = submits[k]
      /\ log[h] = [queue |-> q, id |-> id]
  <2>1. submits \in Seq([queue : Queues, id : PresentIds]) /\ Len(submits) \in Nat
    BY LenProperties DEF IInv, Typed, TypeOK
  <2>2. [queue |-> q, id |-> id] \in [queue : Queues, id : PresentIds]
    OBVIOUS
  <2>3. log \in Seq([queue : Queues, id : PresentIds]) /\ Len(log) = h
        /\ log[h] = [queue |-> q, id |-> id] /\ \A k \in 1 .. Len(submits) : log[k] = submits[k]
    BY <2>1, <2>2, AppendProperties
  <2> QED BY <1>1, <2>1, <2>3 DEF Known, Handle
<1>3. /\ \A j \in DOMAIN submissions[q] :
           /\ j \in PresentIds /\ submissions[q][j] \in Span /\ submissions[q][j].queue = q
           /\ submissions[q][j].head \in Known /\ submissions[q][j].tail \in Known
           /\ \A k \in submissions[q][j].tail + 1 .. h - 1 : submits[k] # [queue |-> q, id |-> j]
  BY <1>2, LiveSpan DEF IInv, SpansClosed
<1>4. /\ DOMAIN spans = DOMAIN submissions[q] \cup {id}
      /\ \A j \in DOMAIN submissions[q] : j # id => spans[j] = submissions[q][j]
      /\ spans[id] \in Span /\ spans[id].queue = q /\ spans[id].tail = h
      /\ spans[id].head = IF id \in DOMAIN submissions[q] THEN submissions[q][id].head ELSE h
      /\ spans \in [DOMAIN submissions[q] \cup {id} -> Span]
  <2>1. (IF id \in DOMAIN submissions[q] THEN submissions[q][id].head ELSE h) \in Handle
    BY <1>2, <1>3 DEF Span
  <2> HIDE DEF evicts
  <2> QED BY <1>2, <1>3, <2>1 DEF Extended, Span
<1>5. ASSUME NEW k \in Known, NEW j \in DOMAIN spans
      PROVE  In(k, j) <=> /\ j \in DOMAIN submissions[q]
                          /\ k \in submissions[q][j].head .. submissions[q][j].tail
                          /\ submits[k] = [queue |-> q, id |-> j]
  <2>1. CASE j # id
    BY <1>2, <1>4, <2>1
  <2>2. CASE j = id /\ id \notin DOMAIN submissions[q]
    <3>1. k \notin spans[j].head .. spans[j].tail
      BY <1>2, <1>4, <2>2
    <3> QED BY <2>2, <3>1
  <2>3. CASE j = id /\ id \in DOMAIN submissions[q]
    <3>1. /\ k \in spans[j].head .. spans[j].tail =>
               \/ k \in submissions[q][j].head .. submissions[q][j].tail
               \/ k \in submissions[q][j].tail + 1 .. h - 1
          /\ k \in submissions[q][j].head .. submissions[q][j].tail =>
               k \in spans[j].head .. spans[j].tail
      <4> PICK m, n : m = submissions[q][j].head /\ n = submissions[q][j].tail
        OBVIOUS
      <4>1. spans[j].head = m /\ spans[j].tail = h
        BY <1>4, <2>3
      <4>2. m \in 1 .. h - 1 /\ n \in 1 .. h - 1 /\ k \in 1 .. h - 1 /\ h \in Nat
        BY <1>2, <1>3, <2>3
      <4>3. /\ k \in m .. h => k \in m .. n \/ k \in n + 1 .. h - 1
            /\ k \in m .. n => k \in m .. h
        BY <4>2
      <4> QED BY <4>1, <4>3
    <3>2. k \in submissions[q][j].tail + 1 .. h - 1 => submits[k] # [queue |-> q, id |-> j]
      BY <1>3, <2>3
    <3> QED BY <1>2, <2>3, <3>1, <3>2
  <2> QED BY <2>1, <2>2, <2>3
<1>6. \A j \in DOMAIN spans : In(h, j) <=> j = id
  <2>1. \A j : log[h] = [queue |-> q, id |-> j] <=> j = id
    <3>1. \A j : [queue |-> q, id |-> id] = [queue |-> q, id |-> j] => id = j
      <4> SUFFICES ASSUME NEW j, [queue |-> q, id |-> id] = [queue |-> q, id |-> j] PROVE id = j
        OBVIOUS
      <4> QED OBVIOUS
    <3> QED BY <1>2, <3>1
  <2>2. h \in spans[id].head .. spans[id].tail
    BY <1>2, <1>3, <1>4
  <2> QED BY <2>1, <2>2
<1>7. /\ kept \in SpanMaps /\ DOMAIN kept \subseteq DOMAIN spans
      /\ \A j \in DOMAIN kept : kept[j] = spans[j]
      /\ \A j \in DOMAIN spans : j \in DOMAIN kept <=> ~(evicts /\ j = Head(stale))
  <2> HIDE DEF evicts
  <2>1. DOMAIN spans \subseteq PresentIds /\ spans \in [DOMAIN spans -> Span]
    BY <1>3, <1>4
  <2>2. Without(spans, Head(stale)) \in [DOMAIN spans \ {Head(stale)} -> Span]
    BY <2>1 DEF Without
  <2> QED BY <2>1, <2>2 DEF SpanMaps, Without
<1>8. \A r \in Queues : submissions'[r] = IF r = q THEN kept ELSE submissions[r]
  BY <1>1 DEF IInv, Typed
<1>9. ASSUME NEW k PROVE Live(q, k)' <=> \E j \in DOMAIN kept : In(k, j)
  <2>1. Live(q, k)' <=> \E j \in DOMAIN submissions'[q] :
          /\ k \in submissions'[q][j].head .. submissions'[q][j].tail
          /\ submits'[k] = [queue |-> submissions'[q][j].queue, id |-> j]
    BY LiveNext
  <2>2. submissions'[q] = kept /\ submits' = log
    BY <1>1, <1>8
  <2>3. \A j \in DOMAIN kept : kept[j] = spans[j] /\ spans[j].queue = q
    <3>1. \A j \in DOMAIN spans : spans[j].queue = q
      BY <1>3, <1>4
    <3> QED BY <1>7, <3>1
  <2>4. Live(q, k)' <=> \E j \in DOMAIN kept :
          /\ k \in kept[j].head .. kept[j].tail
          /\ log[k] = [queue |-> kept[j].queue, id |-> j]
    BY <2>1, <2>2
  <2>5. ASSUME NEW j \in DOMAIN kept
        PROVE  In(k, j) <=> /\ k \in kept[j].head .. kept[j].tail
                            /\ log[k] = [queue |-> kept[j].queue, id |-> j]
    <3> PICK s : s = kept[j]
      OBVIOUS
    <3>1. spans[j] = s /\ s.queue = q
      BY <2>3
    <3> QED BY <3>1
  <2> HIDE DEF In, evicts
  <2> QED BY <2>4, <2>5
<1>10. ASSUME NEW k \in 1 .. h
       PROVE  Live(q, k)' <=> (\E j \in DOMAIN spans : In(k, j)) /\ k \notin gone
  <2>1. \A i, j : In(k, i) /\ In(k, j) => i = j
    <3> SUFFICES ASSUME NEW i, NEW j, In(k, i), In(k, j) PROVE i = j
      OBVIOUS
    <3>1. log[k].id = i /\ log[k].id = j
      OBVIOUS
    <3> QED BY <3>1
  <2>2. k \in gone <=> evicts /\ Head(stale) \in DOMAIN spans /\ In(k, Head(stale))
    OBVIOUS
  <2> HIDE DEF In, evicts
  <2> QED BY <1>7, <1>9, <2>1, <2>2
<1>11. ASSUME NEW k \in Known
       PROVE  /\ Live(q, k)' <=> Live(q, k) /\ k \notin gone
              /\ k \in gone => Live(q, k)
  <2>1. Live(q, k) <=> \E j \in DOMAIN submissions[q] :
          /\ k \in submissions[q][j].head .. submissions[q][j].tail
          /\ submits[k] = [queue |-> q, id |-> j]
    BY LiveSpan DEF IInv
  <2>2. \A j \in DOMAIN spans : In(k, j) <=>
          /\ j \in DOMAIN submissions[q]
          /\ k \in submissions[q][j].head .. submissions[q][j].tail
          /\ submits[k] = [queue |-> q, id |-> j]
    BY <1>5
  <2>3. k \in gone => \E j \in DOMAIN spans : In(k, j)
    OBVIOUS
  <2>4. k \in 1 .. h
    BY <1>2
  <2> HIDE DEF In, evicts
  <2>5. (\E j \in DOMAIN spans : In(k, j)) <=> Live(q, k)
    BY <1>4, <2>1, <2>2
  <2> QED BY <1>10, <2>3, <2>4, <2>5
<1>12. Live(q, h)' <=> h \notin gone
  <2> HIDE DEF In, evicts
  <2> QED BY <1>2, <1>4, <1>6, <1>10
<1>13. ASSUME NEW r \in Queues, r # q
       PROVE  /\ \A k \in Known : Live(r, k)' <=> Live(r, k)
              /\ ~Live(r, h)'
  <2>1. submissions'[r] = submissions[r] /\ submits' = log
    BY <1>1, <1>8, <1>13
  <2>2. \A k : Live(r, k)' <=> \E j \in DOMAIN submissions[r] :
          /\ k \in submissions[r][j].head .. submissions[r][j].tail
          /\ log[k] = [queue |-> submissions[r][j].queue, id |-> j]
    BY <2>1, LiveNext
  <2>3. ASSUME NEW k \in Known PROVE Live(r, k)' <=> Live(r, k)
    <3>1. Live(r, k) <=> \E j \in DOMAIN submissions[r] :
            /\ k \in submissions[r][j].head .. submissions[r][j].tail
            /\ submits[k] = [queue |-> submissions[r][j].queue, id |-> j]
      BY DEF Live, Covered
    <3>2. log[k] = submits[k]
      BY <1>2
    <3> QED BY <2>2, <3>1, <3>2
  <2>4. \A j \in DOMAIN submissions[r] : submissions[r][j].head \in Known /\ submissions[r][j].tail \in Known
    BY DEF IInv, SpansClosed
  <2>5. ASSUME NEW j \in DOMAIN submissions[r] PROVE h \notin submissions[r][j].head .. submissions[r][j].tail
    <3> PICK m, n : m = submissions[r][j].head /\ n = submissions[r][j].tail
      OBVIOUS
    <3>1. m \in 1 .. h - 1 /\ n \in 1 .. h - 1
      BY <1>2, <2>4
    <3>2. h \notin m .. n
      BY <1>2, <3>1
    <3> QED BY <3>2
  <2> QED BY <2>2, <2>3, <2>5
<1> HIDE DEF In, evicts
<1>14. ASSUME NEW p, Past(p), p.work \subseteq Span
       PROVE  /\ \A k \in Known : InWork(p, k)' <=> InWork(p, k)
              /\ ~InWork(p, h)'
  <2>1. \A k : InWork(p, k)' <=> \E span \in p.work :
          k \in span.head .. span.tail /\ log[k] = [queue |-> span.queue, id |-> p.id]
    BY <1>1 DEF InWork, Covered
  <2>2. \A k : InWork(p, k) <=> \E span \in p.work :
          k \in span.head .. span.tail /\ submits[k] = [queue |-> span.queue, id |-> p.id]
    BY DEF InWork, Covered
  <2>3. \A span \in p.work : h \notin span.head .. span.tail
    BY <1>2, <1>14 DEF Past, Span, Handle
  <2>4. ASSUME NEW k \in Known PROVE InWork(p, k)' <=> InWork(p, k)
    <3>1. log[k] = submits[k]
      BY <1>2
    <3> QED BY <2>1, <2>2, <3>1
  <2>5. ~InWork(p, h)'
    BY <2>1, <2>3
  <2> QED BY <2>4, <2>5
<1>15. (IF evicts THEN Tail(stale) ELSE stale) \in Seq(PresentIds \ {0})
  <2>1. stale \in Seq(PresentIds \ {0})
    BY AppendProperties DEF IInv, Typed, TypeOK, Remembered
  <2>2. evicts => Tail(stale) \in Seq(PresentIds \ {0})
    <3>1. evicts => stale # <<>>
      BY EmptySeq DEF evicts, Evicts
    <3> QED BY <2>1, <3>1, HeadTailProperties
  <2> QED BY <2>1, <2>2
<1>16. gone \subseteq 1 .. h
  OBVIOUS
<1>17. Typed'
  <2>1. /\ submissions' \in [Queues -> SpanMaps]
        /\ stale_present_ids' \in [Queues -> Seq(PresentIds \ {0})]
    BY <1>1, <1>7, <1>15 DEF IInv, Typed
  <2>2. \A r \in Queues : /\ DOMAIN submissions'[r] \subseteq PresentIds
                          /\ \A j \in DOMAIN submissions'[r] : submissions'[r][j] \in Span
    <3> SUFFICES ASSUME NEW r \in Queues, NEW f, f = submissions'[r]
                 PROVE DOMAIN f \subseteq PresentIds /\ \A j \in DOMAIN f : f[j] \in Span
      OBVIOUS
    <3>1. f \in SpanMaps
      BY <2>1
    <3> QED BY <3>1 DEF SpanMaps
  <2>3. evicted' \subseteq Handle /\ evicted' \subseteq Known'
    <3>1. evicted \subseteq 1 .. h - 1
      BY <1>2 DEF IInv, Typed
    <3>2. evicted' \subseteq 1 .. h
      BY <1>1, <1>2, <1>16, <3>1
    <3> QED BY <1>2, <3>2 DEF Handle
  <2>4. Len(submits') <= MaxSubmits /\ submits' \in Seq([queue : Queues, id : PresentIds])
    BY <1>1, <1>2
  <2>5. TypeOK'
    BY <1>1, <2>1, <2>2, <2>3, <2>4 DEF IInv, Typed, TypeOK
  <2> QED BY <2>1, <2>3, <2>4, <2>5 DEF Typed
<1>18. SpansClosed'
  <2> SUFFICES ASSUME NEW r \in Queues, NEW j \in DOMAIN submissions'[r]
               PROVE  /\ submissions'[r][j].queue = r
                      /\ submissions'[r][j].head \in 1 .. h /\ submissions'[r][j].tail \in 1 .. h
                      /\ \A k \in submissions'[r][j].tail + 1 .. h : log[k] # [queue |-> r, id |-> j]
    <3>1. Len(submits') = h /\ submits' = log /\ Known' = 1 .. h
      BY <1>1, <1>2
    <3> QED BY <3>1 DEF SpansClosed
  <2> PICK s : s = submissions'[r][j]
    OBVIOUS
  <2>1. CASE r # q
    <3>1. /\ j \in DOMAIN submissions[r] /\ s = submissions[r][j]
      BY <1>8, <2>1
    <3>2. /\ s.queue = r /\ s.head \in Known /\ s.tail \in Known
          /\ \A k \in s.tail + 1 .. h - 1 : submits[k] # [queue |-> r, id |-> j]
      BY <1>2, <3>1 DEF IInv, SpansClosed
    <3>3. log[h] # [queue |-> r, id |-> j]
      BY <1>2, <2>1
    <3> QED BY <1>2, <3>2, <3>3
  <2>2. CASE r = q
    <3>1. j \in DOMAIN spans /\ s = spans[j]
      BY <1>7, <1>8, <2>2
    <3>2. CASE j = id
      BY <1>2, <1>3, <1>4, <2>2, <3>1, <3>2
    <3>3. CASE j # id
      <4>1. /\ s.queue = r /\ s.head \in Known /\ s.tail \in Known
            /\ \A k \in s.tail + 1 .. h - 1 : submits[k] # [queue |-> r, id |-> j]
        BY <1>3, <1>4, <2>2, <3>1, <3>3
      <4>2. log[h] # [queue |-> r, id |-> j]
        BY <1>2, <3>3
      <4> QED BY <1>2, <4>1, <4>2
    <3> QED BY <3>2, <3>3
  <2> QED BY <2>1, <2>2
<1>19. /\ \A t \in Presenters : presenting[t] # NoPresent =>
            Past(presenting[t]) /\ presenting[t].work \subseteq Span
       /\ \A p \in attached : Past(p) /\ p.work \subseteq Span
  <2>1. \A p \in Present : p.work \subseteq Span
    BY DEF Present
  <2> QED BY <2>1 DEF IInv, AllPast, Typed, TypeOK
<1>20. AllPast'
  BY <1>1, <1>2, <1>19 DEF AllPast, Past
<1>21. /\ \A k \in Known, t \in Presenters : Carries(t, k)' <=> Carries(t, k)
       /\ \A k \in Known : \A p : Grouped(p, k)' <=> Grouped(p, k)
       /\ \A t \in Presenters : ~Carries(t, h)'
       /\ \A p : ~Grouped(p, h)'
  <2>1. ASSUME NEW t \in Presenters, NEW p, p = presenting[t]
        PROVE  (\A k \in Known : Carries(t, k)' <=> Carries(t, k)) /\ ~Carries(t, h)'
    <3>1. \A k : Carries(t, k)' <=> p # NoPresent /\ InWork(p, k)'
      BY <1>1, <2>1 DEF Carries, InWork, Covered
    <3> QED BY <1>14, <1>19, <2>1, <3>1 DEF Carries
  <2>2. ASSUME NEW p
        PROVE  (\A k \in Known : Grouped(p, k)' <=> Grouped(p, k)) /\ ~Grouped(p, h)'
    BY <1>1, <1>14, <1>19 DEF Grouped
  <2> QED BY <2>1, <2>2
<1>22. OnePlace'
  <2> SUFFICES ASSUME NEW k \in 1 .. h PROVE (\E x \in Places(k) : Places(k) = {x})'
    BY <1>2 DEF OnePlace
  <2>1. CASE k \in Known /\ k \notin gone
    <3>1. \E x \in Places(k) : Places(k) = {x}
      BY <2>1 DEF IInv, OnePlace
    <3>2. \A r \in Queues : Live(r, k)' <=> Live(r, k)
      BY <1>11, <1>13, <2>1
    <3> QED BY <1>1, <1>21, <2>1, <3>1, <3>2, StaysPut
  <2>2. CASE k \in Known /\ k \in gone
    <3>1. Live(q, k) /\ ~Live(q, k)'
      BY <1>11, <2>2
    <3>2. /\ \A r \in Queues : Live(r, k) => r = q
          /\ \A t \in Presenters : ~Carries(t, k)
          /\ \A p : ~Grouped(p, k)
      BY <2>2, <3>1, NowhereElse DEF IInv
    <3>3. \A r \in Queues : ~Live(r, k)'
      BY <1>13, <2>2, <3>1, <3>2
    <3> QED BY <1>1, <1>21, <2>2, <3>2, <3>3, EvictedOnly
  <2>3. CASE k = h /\ h \in gone
    <3>1. \A r \in Queues : ~Live(r, h)'
      BY <1>12, <1>13, <2>3
    <3> QED BY <1>1, <1>21, <2>3, <3>1, EvictedOnly
  <2>4. CASE k = h /\ h \notin gone
    <3>1. Live(q, h)' /\ \A r \in Queues : Live(r, h)' => r = q
      BY <1>12, <1>13, <2>4
    <3>2. h \notin evicted'
      BY <1>1, <1>2, <2>4 DEF IInv, Typed
    <3> QED BY <1>21, <2>4, <3>1, <3>2, InQueueOnly
  <2> QED BY <1>2, <2>1, <2>2, <2>3, <2>4
<1>23. ASSUME NEW k \in Known
       PROVE  submits'[k] = submits[k] /\ (Live(submits[k].queue, k)' => Live(submits[k].queue, k))
  <2>1. submits'[k] = submits[k] /\ submits[k].queue \in Queues
    BY <1>1, <1>2, KnownSubmission DEF IInv
  <2> SUFFICES ASSUME NEW r, r = submits[k].queue, Live(r, k)' PROVE Live(r, k)
    BY <2>1 DEF Live
  <2> QED BY <1>11, <1>13, <2>1
<1>24. Visited'
  <2> SUFFICES ASSUME NEW t \in Presenters, presenting[t] # NoPresent, NEW k \in 1 .. presenting[t].before
               PROVE  \/ submits'[k].id # presenting[t].id
                      \/ submits'[k].queue \in presenting[t].todo
                      \/ is_out_of_band[submits'[k].queue]
                      \/ ~Live(submits[k].queue, k)'
    BY <1>1 DEF Visited, NothingLeft
  <2>1. k \in Known
    BY <1>19 DEF Past
  <2> QED BY <1>23, <2>1 DEF IInv, Visited, NothingLeft
<1>25. NoneLeftBehind'
  <2> SUFFICES ASSUME NEW p \in attached, NEW k \in 1 .. p.before
               PROVE  \/ submits'[k].id # p.id
                      \/ is_out_of_band[submits'[k].queue]
                      \/ ~Live(submits[k].queue, k)'
    BY <1>1 DEF NoneLeftBehind
  <2>1. k \in Known
    BY <1>19 DEF Past
  <2> QED BY <1>23, <2>1 DEF IInv, NoneLeftBehind
<1> QED BY <1>17, <1>18, <1>20, <1>22, <1>24, <1>25 DEF IInv

-----------------------------------------------------------------------------
\* The strengthened invariant holds in every state that the program reaches.
THEOREM Invariance == Spec => []IInv
<1>1. IInv /\ [Next]_vars => IInv'
  <2> SUFFICES ASSUME IInv, [Next]_vars PROVE IInv'
    OBVIOUS
  <2>1. ASSUME NEW q \in Queues, NEW id \in PresentIds, notify_submit(q, id) PROVE IInv'
    BY <2>1, SubmitKeeps
  <2>2. ASSUME NEW q \in Queues, mark_out_of_band(q) PROVE IInv'
    BY <2>2, QuietKeeps DEF mark_out_of_band, IInv, Typed, TypeOK
  <2>3. ASSUME NEW s \in Swapchains, notify_create_swapchain(s) PROVE IInv'
    BY <2>3, QuietKeeps DEF notify_create_swapchain, IInv, Typed, TypeOK
  <2>4. ASSUME NEW s \in Swapchains, notify_destroy_swapchain(s) PROVE IInv'
    BY <2>4, QuietKeeps DEF notify_destroy_swapchain, IInv, Typed, TypeOK
  <2>5. ASSUME NEW t \in Presenters, NEW s \in Swapchains, NEW id \in PresentIds, BeginPresent(t, s, id)
        PROVE  IInv'
    BY <2>5, BeginKeeps
  <2>6. ASSUME NEW t \in Presenters, NEW q \in Queues, VisitQueue(t, q) PROVE IInv'
    BY <2>6, VisitKeeps
  <2>7. ASSUME NEW t \in Presenters, AttachWork(t) PROVE IInv'
    BY <2>7, AttachKeeps
  <2>8. CASE UNCHANGED vars
    BY <2>8, QuietKeeps DEF vars, IInv, Typed, TypeOK
  <2> QED BY <2>1, <2>2, <2>3, <2>4, <2>5, <2>6, <2>7, <2>8 DEF Next
<1> QED BY <1>1, InitSound, PTL DEF Spec

\* The queues, presents and groups always hold what their types say.
THEOREM TypeCorrect == Spec => []TypeOK
<1>1. IInv => TypeOK
  BY DEF IInv, Typed
<1> QED BY <1>1, Invariance, PTL

\* No interleaving of submissions and presents loses a submission or puts it in
\* two places.
THEOREM SubmissionsPlacedOnce == Spec => []OncePlaced
<1>1. IInv => OncePlaced
  <2> SUFFICES ASSUME IInv, NEW h \in Known PROVE Cardinality(Places(h)) = 1
    BY DEF OncePlaced, Known
  <2>1. PICK x : Places(h) = {x}
    BY DEF IInv, OnePlace
  <2> QED BY <2>1, FS_Singleton
<1> QED BY <1>1, Invariance, PTL

\* The group of a present leaves nothing of its frame, submitted before the
\* present began, for a later one.
THEOREM GroupsAreWhole == Spec => []NoneLeftBehind
<1>1. IInv => NoneLeftBehind
  BY DEF IInv
<1> QED BY <1>1, Invariance, PTL
=============================================================================
