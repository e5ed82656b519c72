---------------------------- MODULE TelemetryProofs ----------------------------
(***************************************************************************)
(* Proofs about Telemetry for any number of threads, HUDs and connections, *)
(* and for rings and pipes of any size: its type invariant, that what a    *)
(* HUD has and will get is in the order of the pushes and no other's       *)
(* (StreamInOrder), that the drops it counts are its losses (GapIsLoss),   *)
(* and that what it draws of the past stays as it was drawn (SealedBins).  *)
(***************************************************************************)
EXTENDS Telemetry, SequenceTheorems, FiniteSetTheorems, WellFoundedInduction, TLAPS

-----------------------------------------------------------------------------
(* The numbers of a sequence of records, and their order                    *)

NumbersIn(s) == {s[i].n : i \in DOMAIN s}
Ascending(s) == \A i, j \in DOMAIN s : i < j => s[i].n < s[j].n
Before(A, B) == \A a \in A, b \in B : a < b
\* The frame count that was read is the number of the push.
Exact(s) == \A i \in DOMAIN s : s[i].frame = s[i].n

LEMMA OfEmpty ==
  NumbersIn(<<>>) = {} /\ Ascending(<<>>) /\ Exact(<<>>)
BY DEF NumbersIn, Ascending, Exact

LEMMA OfAppend ==
  ASSUME NEW E, NEW s \in Seq(E), NEW e \in E
  PROVE  /\ Append(s, e) \in Seq(E) /\ Len(Append(s, e)) = Len(s) + 1
         /\ NumbersIn(Append(s, e)) = NumbersIn(s) \cup {e.n}
         /\ Ascending(s) /\ Before(NumbersIn(s), {e.n}) => Ascending(Append(s, e))
         /\ Exact(s) /\ e.frame = e.n => Exact(Append(s, e))
<1> DEFINE u == Append(s, e)
<1>1. PICK m \in Nat : m = Len(s)  BY LenProperties
<1>2. /\ u \in Seq(E) /\ Len(u) = m + 1 /\ DOMAIN s = 1 .. m /\ DOMAIN u = 1 .. m + 1
      /\ u[m + 1] = e /\ \A i \in 1 .. m : u[i] = s[i]
  BY <1>1, AppendProperties, LenProperties
<1> HIDE DEF u
<1>3. \A i \in DOMAIN u : (i \in DOMAIN s /\ i < m + 1) \/ i = m + 1  BY <1>2
<1>4. DOMAIN s \subseteq DOMAIN u /\ m + 1 \in DOMAIN u  BY <1>2
<1>5. NumbersIn(u) = NumbersIn(s) \cup {e.n}
  <2>1. ASSUME NEW x \in NumbersIn(u)  PROVE x \in NumbersIn(s) \cup {e.n}
    BY <1>2, <1>3 DEF NumbersIn
  <2>2. ASSUME NEW x \in NumbersIn(s) \cup {e.n}  PROVE x \in NumbersIn(u)
    BY <1>2, <1>4 DEF NumbersIn
  <2>. QED  BY <2>1, <2>2
<1>6. ASSUME Ascending(s), Before(NumbersIn(s), {e.n})  PROVE Ascending(u)
  <2>1. \A i \in DOMAIN s : s[i].n < e.n  BY <1>6 DEF Before, NumbersIn
  <2>2. ASSUME NEW i \in DOMAIN u, NEW j \in DOMAIN u, i < j  PROVE u[i].n < u[j].n
    <3>1. i \in DOMAIN s /\ u[i] = s[i]  BY <1>2, <2>2
    <3>2. CASE j \in DOMAIN s
      BY <1>2, <1>6, <2>2, <3>1, <3>2 DEF Ascending
    <3>3. CASE j = m + 1
      BY <1>2, <2>1, <3>1, <3>3
    <3>. QED  BY <1>3, <3>2, <3>3
  <2>. QED  BY <2>2 DEF Ascending
<1>7. Exact(s) /\ e.frame = e.n => Exact(u)
  BY <1>2, <1>3 DEF Exact
<1>. QED  BY <1>1, <1>2, <1>5, <1>6, <1>7 DEF u

LEMMA OfTail ==
  ASSUME NEW E, NEW s \in Seq(E), s # <<>>
  PROVE  /\ Head(s) \in E /\ Tail(s) \in Seq(E) /\ Len(Tail(s)) = Len(s) - 1 /\ Len(s) \in Nat \ {0}
         /\ NumbersIn(s) = {Head(s).n} \cup NumbersIn(Tail(s))
         /\ Ascending(s) => Ascending(Tail(s)) /\ Before({Head(s).n}, NumbersIn(Tail(s)))
         /\ Exact(s) => Exact(Tail(s)) /\ Head(s).frame = Head(s).n
<1> DEFINE u == Tail(s)
<1>1. PICK m \in Nat : m = Len(s)  BY LenProperties
<1>2. m # 0  BY <1>1, EmptySeq
<1>3. /\ Head(s) \in E /\ Head(s) = s[1] /\ u \in Seq(E) /\ Len(u) = m - 1
      /\ \A i \in 1 .. m - 1 : u[i] = s[i + 1]
  BY <1>1, HeadTailProperties
<1>4. DOMAIN s = 1 .. m /\ DOMAIN u = 1 .. m - 1  BY <1>1, <1>3, LenProperties
<1> HIDE DEF u
<1>5. 1 \in DOMAIN s /\ \A i \in DOMAIN u : i + 1 \in DOMAIN s /\ u[i] = s[i + 1] /\ 1 < i + 1
  BY <1>2, <1>3, <1>4
<1>6. ASSUME NEW i \in DOMAIN s  PROVE i = 1 \/ (i - 1 \in DOMAIN u /\ s[i] = u[i - 1])
  <2>1. i = 1 \/ (i - 1 \in 1 .. m - 1 /\ (i - 1) + 1 = i)  BY <1>1, <1>4
  <2>. QED  BY <1>3, <1>4, <2>1
<1>7. NumbersIn(s) = {s[1].n} \cup NumbersIn(u)
  <2>1. ASSUME NEW x \in NumbersIn(s)  PROVE x \in {s[1].n} \cup NumbersIn(u)
    BY <1>6 DEF NumbersIn
  <2>2. ASSUME NEW x \in {s[1].n} \cup NumbersIn(u)  PROVE x \in NumbersIn(s)
    BY <1>5 DEF NumbersIn
  <2>. QED  BY <2>1, <2>2
<1>8. ASSUME Ascending(s)  PROVE Ascending(u) /\ Before({s[1].n}, NumbersIn(u))
  <2>1. ASSUME NEW i \in DOMAIN u, NEW j \in DOMAIN u, i < j  PROVE u[i].n < u[j].n
    <3>1. i + 1 < j + 1  BY <2>1, <1>4
    <3>. QED  BY <1>5, <1>8, <3>1 DEF Ascending
  <2>2. \A i \in DOMAIN u : s[1].n < u[i].n  BY <1>5, <1>8 DEF Ascending
  <2>. QED  BY <2>1, <2>2 DEF Ascending, Before, NumbersIn
<1>9. Exact(s) => Exact(u) /\ s[1].frame = s[1].n  BY <1>5 DEF Exact
<1>. QED  BY <1>1, <1>2, <1>3, <1>7, <1>8, <1>9 DEF u

\* A ring that takes one more record has no other records than it had.
LEMMA OfPushBack ==
  ASSUME NEW E, NEW r \in Seq(E), NEW e \in E, NEW cap \in Nat \ {0}, Len(r) <= cap
  PROVE  LET u == PushBack(r, cap, e) IN
         /\ u \in Seq(E) /\ Len(u) <= cap
         /\ NumbersIn(u) \subseteq NumbersIn(r) \cup {e.n}
         /\ Ascending(r) /\ Before(NumbersIn(r), {e.n}) => Ascending(u)
         /\ Exact(r) /\ e.frame = e.n => Exact(u)
<1>0. Len(r) \in Nat  BY LenProperties
<1>1. CASE Len(r) = cap
  <2>1. r # <<>>  BY <1>1, EmptySeq
  <2>2. PICK t \in Seq(E) : t = Tail(r)  BY <2>1, OfTail
  <2>3. /\ Len(t) = cap - 1 /\ NumbersIn(t) \subseteq NumbersIn(r)
        /\ Ascending(r) => Ascending(t)
        /\ Exact(r) => Exact(t)
    BY <1>1, <2>1, <2>2, OfTail
  <2>4. Before(NumbersIn(r), {e.n}) => Before(NumbersIn(t), {e.n})  BY <2>3 DEF Before
  <2>5. PushBack(r, cap, e) = Append(t, e)  BY <1>1, <2>2 DEF PushBack
  <2>6. /\ Append(t, e) \in Seq(E) /\ Len(Append(t, e)) = Len(t) + 1
        /\ NumbersIn(Append(t, e)) = NumbersIn(t) \cup {e.n}
        /\ Ascending(t) /\ Before(NumbersIn(t), {e.n}) => Ascending(Append(t, e))
        /\ Exact(t) /\ e.frame = e.n => Exact(Append(t, e))
    BY OfAppend
  <2>. QED  BY <2>3, <2>4, <2>5, <2>6
<1>2. CASE Len(r) # cap
  <2>1. PushBack(r, cap, e) = Append(r, e)  BY <1>2 DEF PushBack
  <2>2. Len(r) + 1 <= cap  BY <1>0, <1>2
  <2>3. /\ Append(r, e) \in Seq(E) /\ Len(Append(r, e)) = Len(r) + 1
        /\ NumbersIn(Append(r, e)) = NumbersIn(r) \cup {e.n}
        /\ Ascending(r) /\ Before(NumbersIn(r), {e.n}) => Ascending(Append(r, e))
        /\ Exact(r) /\ e.frame = e.n => Exact(Append(r, e))
    BY OfAppend
  <2>. QED  BY <2>1, <2>2, <2>3
<1>. QED  BY <1>1, <1>2

LEMMA OfConcat ==
  ASSUME NEW E, NEW s \in Seq(E), NEW t \in Seq(E)
  PROVE  /\ s \o t \in Seq(E)
         /\ NumbersIn(s \o t) = NumbersIn(s) \cup NumbersIn(t)
         /\ Ascending(s) /\ Ascending(t) /\ Before(NumbersIn(s), NumbersIn(t))
              => Ascending(s \o t)
<1> DEFINE u == s \o t
<1>1. PICK m \in Nat : m = Len(s)  BY LenProperties
<1>2. PICK n \in Nat : n = Len(t)  BY LenProperties
<1>3. DOMAIN s = 1 .. m /\ DOMAIN t = 1 .. n /\ u \in Seq(E) /\ DOMAIN u = 1 .. m + n
  BY <1>1, <1>2, LenProperties, ConcatProperties
<1>4. /\ \A i \in DOMAIN s : i \in DOMAIN u /\ u[i] = s[i]
      /\ \A i \in DOMAIN t : m + i \in DOMAIN u /\ u[m + i] = t[i]
  BY <1>1, <1>2, <1>3, ConcatProperties
<1>5. ASSUME NEW i \in DOMAIN u
      PROVE  i \in DOMAIN s \/ (i - m \in DOMAIN t /\ i = m + (i - m) /\ ~(i <= m))
  <2>1. i \in 1 .. m + n  BY <1>3
  <2>2. i \in 1 .. m \/ (i - m \in 1 .. n /\ i = m + (i - m) /\ ~(i <= m))
    BY <1>1, <1>2, <2>1
  <2>. QED  BY <1>3, <2>2
<1> HIDE DEF u
<1>6. \A i \in DOMAIN u : \/ i \in DOMAIN s /\ u[i] = s[i]
                          \/ \E k \in DOMAIN t : i = m + k /\ u[i] = t[k]
  BY <1>3, <1>4, <1>5
<1>7. NumbersIn(u) = NumbersIn(s) \cup NumbersIn(t)
  <2>1. ASSUME NEW x \in NumbersIn(u)  PROVE x \in NumbersIn(s) \cup NumbersIn(t)
    BY <1>6 DEF NumbersIn
  <2>2. ASSUME NEW x \in NumbersIn(s) \cup NumbersIn(t)  PROVE x \in NumbersIn(u)
    <3>1. CASE x \in NumbersIn(s)  BY <1>4, <3>1 DEF NumbersIn
    <3>2. CASE x \in NumbersIn(t)  BY <1>4, <3>2 DEF NumbersIn
    <3>. QED  BY <2>2, <3>1, <3>2
  <2>. QED  BY <2>1, <2>2
<1>8. ASSUME Ascending(s), Ascending(t), Before(NumbersIn(s), NumbersIn(t))
      PROVE  Ascending(u)
  <2>0. \A i \in DOMAIN s, k \in DOMAIN t : s[i].n < t[k].n
    BY <1>8 DEF Before, NumbersIn
  <2>. SUFFICES ASSUME NEW i \in DOMAIN u, NEW j \in DOMAIN u, i < j
                PROVE  u[i].n < u[j].n
    BY DEF Ascending
  <2>1. CASE i \in DOMAIN s /\ u[i] = s[i] /\ j \in DOMAIN s /\ u[j] = s[j]
    BY <1>8, <2>1 DEF Ascending
  <2>2. CASE i \in DOMAIN s /\ u[i] = s[i] /\ \E k \in DOMAIN t : j = m + k /\ u[j] = t[k]
    BY <2>0, <2>2
  <2>3. CASE /\ \E k \in DOMAIN t : i = m + k /\ u[i] = t[k]
             /\ \E k \in DOMAIN t : j = m + k /\ u[j] = t[k]
    <3>1. PICK k \in DOMAIN t : i = m + k /\ u[i] = t[k]  BY <2>3
    <3>2. PICK l \in DOMAIN t : j = m + l /\ u[j] = t[l]  BY <2>3
    <3>3. k < l  BY <3>1, <3>2, <1>3
    <3>. QED  BY <1>8, <3>1, <3>2, <3>3 DEF Ascending
  <2>4. CASE (\E k \in DOMAIN t : i = m + k /\ u[i] = t[k]) /\ j \in DOMAIN s
    BY <2>4, <1>3
  <2>. QED  BY <1>6, <2>1, <2>2, <2>3, <2>4
<1>. QED  BY <1>3, <1>7, <1>8 DEF u

-----------------------------------------------------------------------------
(* The inductive invariant                                                  *)

\* The records on their way to HUD h, and those it has or will have.
Pipe(h) == IF hud[h].conn = 0 THEN <<>> ELSE conns[hud[h].conn].pipe
Held(h) == NumbersIn(hud[h].ring) \cup NumbersIn(Pipe(h))

\* The presents that were counted and have not yet made their record.
Active == {t \in Threads : call[t].step \in {"counted", "stamped", "indexed"}}

Shape ==
  /\ worker \in [step : {"accept", "check", "wait", "write"}, conn : Nat, served : Nat,
                 batch : Seq(Record)]
  /\ worker.served <= Len(conns)
  /\ hud \in [Huds -> [conn : Nat, ring : Seq(Record)]]

Counted ==
  /\ IsFiniteSet(Active) /\ pushed + Cardinality(Active) = frames
  /\ Active \subseteq presenters

\* What is pushed later comes later at every place it passes.
Queued ==
  /\ Ascending(worker.batch) /\ Ascending(ring)
  /\ Before(NumbersIn(worker.batch), NumbersIn(ring))
  /\ NumbersIn(worker.batch) \cup NumbersIn(ring) \subseteq 0 .. pushed

Arrived ==
  \A h \in Huds :
    /\ Ascending(hud[h].ring) /\ Ascending(Pipe(h))
    /\ Before(NumbersIn(hud[h].ring), NumbersIn(Pipe(h)))
    /\ Held(h) \subseteq 0 .. pushed
    /\ Before(Held(h), NumbersIn(worker.batch)) /\ Before(Held(h), NumbersIn(ring))

OwnRecords ==
  \A g, h \in Huds : g # h =>
    /\ hud[g].conn # 0 => hud[g].conn # hud[h].conn
    /\ Held(g) \cap Held(h) = {}

\* Where one thread presents, the count it reads is the number of its record.
Numbered ==
  Alone => /\ Exact(ring) /\ Exact(worker.batch)
           /\ \A c \in DOMAIN conns : Exact(conns[c].pipe)
           /\ \A h \in Huds : Exact(hud[h].ring)
           /\ \A t \in Threads : InCall(t, "indexed") => call[t].rec.frame = pushed + 1

IInv == TypeOK /\ Shape /\ Counted /\ Queued /\ Arrived /\ OwnRecords /\ Numbered

-----------------------------------------------------------------------------
(* What a step does not change                                              *)

LEMMA Limits ==
  /\ FrameLimit \in Nat /\ Blank \in Record /\ Frame \subseteq Nat
  /\ \A r \in Record, k \in Time : [r EXCEPT !.ts = k] \in Record /\ [r EXCEPT !.ts = k].frame = r.frame
  /\ \A r \in Record, k \in Frame : /\ [r EXCEPT !.frame = k] \in Record
                                   /\ [r EXCEPT !.frame = k].frame = k
                                   /\ [r EXCEPT !.n = k] \in Record
                                   /\ [r EXCEPT !.n = k].n = k
                                   /\ [r EXCEPT !.n = k].frame = r.frame
  /\ \A r \in Record : r.n \in Frame /\ r.frame \in Frame
<1>1. FrameLimit \in Nat  BY TelemetryAssumption DEF FrameLimit
<1>2. Frame \subseteq Nat  BY <1>1 DEF Frame
<1>3. Blank \in Record  BY <1>1 DEF Blank, Record, Frame, Time
<1>4. \A r \in Record, k \in Time :
        [r EXCEPT !.ts = k] \in Record /\ [r EXCEPT !.ts = k].frame = r.frame
  BY DEF Record
<1>5. \A r \in Record, k \in Frame : /\ [r EXCEPT !.frame = k] \in Record
                                   /\ [r EXCEPT !.frame = k].frame = k
                                   /\ [r EXCEPT !.n = k] \in Record
                                   /\ [r EXCEPT !.n = k].n = k
                                   /\ [r EXCEPT !.n = k].frame = r.frame
  BY DEF Record
<1>6. \A r \in Record : r.n \in Frame /\ r.frame \in Frame  BY DEF Record
<1>. QED  BY <1>1, <1>2, <1>3, <1>4, <1>5, <1>6

LEMMA PresentersStay ==
  ASSUME [Next]_vars
  PROVE  presenters' = presenters
BY DEF Next, vars, threadVars, Present, Presenting, Stamp, ReadFrames, Push, NotifyOne, Serve,
       Accept, Wait, Drain, WriteRecord, WriteFails, BatchWritten, Connect, ReadLine, End

LEMMA SameRecords ==
  ASSUME presenters' = presenters
  PROVE  /\ Alone' = Alone /\ FrameLimit' = FrameLimit /\ Frame' = Frame
         /\ Time' = Time /\ Record' = Record
<1>1. (Alone <=> Alone')  BY DEF Alone
<1>2. FrameLimit' = FrameLimit  BY DEF FrameLimit, Alone
<1>3. Frame' = Frame /\ Time' = Time  BY <1>2 DEF Frame, Time
<1>4. Record' = Record  BY <1>3 DEF Record
<1>5. Alone' = Alone  BY DEF Alone
<1>. QED  BY <1>2, <1>3, <1>4, <1>5

\* The records in the hands of the worker and of the HUDs stay as they are.
StreamStays == ring' = ring /\ worker'.batch = worker.batch /\ conns' = conns /\ hud' = hud

LEMMA StreamKept ==
  ASSUME IInv, StreamStays, pushed' = pushed
  PROVE  Queued' /\ Arrived' /\ OwnRecords'
<1>1. Queued'  BY DEF IInv, Queued, StreamStays
<1>2. \A h : Pipe(h)' = Pipe(h)  BY DEF Pipe, StreamStays
<1>3. \A h : Held(h)' = Held(h)  BY <1>2 DEF Held, StreamStays
<1>4. Arrived'  BY <1>2, <1>3 DEF IInv, Arrived, StreamStays
<1>5. OwnRecords'  BY <1>3 DEF IInv, OwnRecords, StreamStays
<1>. QED  BY <1>1, <1>4, <1>5

LEMMA ThreadsKept ==
  ASSUME IInv, UNCHANGED threadVars
  PROVE  Counted'
<1>1. Active' = Active  BY DEF Active, threadVars
<1>. QED  BY <1>1 DEF IInv, Counted, threadVars

-----------------------------------------------------------------------------
(* Type correctness                                                         *)

Channel == [open : BOOLEAN, pipe : Seq(Record)]

LEMMA OneConnection ==
  ASSUME TypeOK, NEW c \in 1 .. Len(conns), NEW e \in Channel, Len(e.pipe) <= PipeCapacity,
         conns' = [conns EXCEPT ![c] = e]
  PROVE  /\ conns' \in Seq(Channel) /\ Len(conns') = Len(conns) /\ DOMAIN conns' = DOMAIN conns
         /\ conns'[c] = e /\ \A d \in DOMAIN conns : d # c => conns'[d] = conns[d]
         /\ \A d \in DOMAIN conns' : Len(conns'[d].pipe) <= PipeCapacity
<1>1. conns \in Seq(Channel) /\ \A d \in DOMAIN conns : Len(conns[d].pipe) <= PipeCapacity
  BY DEF TypeOK, Channel
<1>2. DOMAIN conns = 1 .. Len(conns)  BY <1>1, LenProperties
<1>3. /\ conns' \in Seq(Channel) /\ Len(conns') = Len(conns)
      /\ \A d \in 1 .. Len(conns) : conns'[d] = IF d = c THEN e ELSE conns[d]
  BY <1>1, ExceptSeq
<1>4. DOMAIN conns' = 1 .. Len(conns)  BY <1>3, LenProperties
<1>. QED  BY <1>1, <1>2, <1>3, <1>4

\* A pipe that takes a record or gives its first one.
LEMMA OnePipe ==
  ASSUME TypeOK, NEW c \in 1 .. Len(conns), NEW p \in Seq(Record), Len(p) <= PipeCapacity,
         conns' = [conns EXCEPT ![c].pipe = p]
  PROVE  /\ conns' \in Seq(Channel) /\ Len(conns') = Len(conns) /\ DOMAIN conns' = DOMAIN conns
         /\ conns'[c].pipe = p /\ \A d \in DOMAIN conns : d # c => conns'[d] = conns[d]
         /\ \A d \in DOMAIN conns' : Len(conns'[d].pipe) <= PipeCapacity
<1>1. conns \in Seq(Channel)  BY DEF TypeOK, Channel
<1>2. conns[c] \in Channel  BY <1>1, ElementOfSeq
<1>3. PICK e : e = [conns[c] EXCEPT !.pipe = p]  OBVIOUS
<1>4. e \in Channel /\ e.pipe = p  BY <1>2, <1>3 DEF Channel
<1>5. conns' = [conns EXCEPT ![c] = e]  BY <1>3
<1>. QED  BY <1>4, <1>5, OneConnection

LEMMA ConnectionOf ==
  ASSUME IInv
  PROVE  /\ \A c \in 1 .. Len(conns) : /\ conns[c] \in Channel /\ Len(conns[c].pipe) <= PipeCapacity
                                       /\ conns[c].pipe \in Seq(Record)
         /\ Len(conns) \in Nat /\ DOMAIN conns = 1 .. Len(conns)
         /\ \A h \in Huds : hud[h].conn # 0 => hud[h].conn \in 1 .. Len(conns)
         /\ worker.step # "accept" => worker.conn \in 1 .. Len(conns)
<1>1. conns \in Seq(Channel) /\ \A d \in DOMAIN conns : Len(conns[d].pipe) <= PipeCapacity
  BY DEF IInv, TypeOK, Channel
<1>2. DOMAIN conns = 1 .. Len(conns) /\ Len(conns) \in Nat  BY <1>1, LenProperties
<1>3. \A c \in 1 .. Len(conns) : conns[c] \in Channel  BY <1>1, ElementOfSeq
<1>4. \A h \in Huds : hud[h].conn # 0 => hud[h].conn \in 1 .. Len(conns)
  BY <1>2 DEF IInv, TypeOK
<1>5. worker.step # "accept" => worker.conn \in 1 .. Len(conns)
  BY <1>2 DEF IInv, TypeOK
<1>. QED  BY <1>1, <1>2, <1>3, <1>4, <1>5 DEF Channel

\* A present that is about to push its record has been counted.
LEMMA RoomToPush ==
  ASSUME IInv, NEW t \in Threads, InCall(t, "indexed")
  PROVE  pushed + 1 \in 0 .. frames /\ pushed + 1 \in Frame
<1>1. t \in Active /\ IsFiniteSet(Active) /\ pushed + Cardinality(Active) = frames
  BY DEF IInv, Counted, Active, InCall
<1>2. Cardinality(Active) \in Nat /\ Cardinality(Active \ {t}) \in Nat
      /\ Cardinality(Active \ {t}) = Cardinality(Active) - 1
  BY <1>1, FS_CardinalityType, FS_RemoveElement
<1>3. pushed \in Nat /\ frames \in 0 .. FrameLimit /\ FrameLimit \in Nat
  BY Limits DEF IInv, TypeOK, Frame
<1>. QED  BY <1>1, <1>2, <1>3 DEF Frame

ThreadsOK ==
  /\ presenters \in Presenters
  /\ clock \in Time /\ frames \in Frame /\ pushed \in 0 .. frames
  /\ call \in [Threads -> [step : {"idle", "counted", "stamped", "indexed", "pushed"}, rec : Record]]
RingOK == ring \in Seq(Record) /\ Len(ring) <= RingCapacity
WorkerOK ==
  /\ worker \in [step : {"accept", "check", "wait", "write"}, conn : Nat, served : Nat,
                 batch : Seq(Record)]
  /\ worker.served <= Len(conns) /\ worker.conn <= Len(conns)
  /\ worker.step = "accept" <=> worker.conn = 0
  /\ worker.batch # <<>> => worker.step = "write"
ConnsOK ==
  /\ conns \in Seq(Channel) /\ Len(conns) <= MaxConnections
  /\ \A c \in DOMAIN conns : Len(conns[c].pipe) <= PipeCapacity
HudsOK ==
  /\ hud \in [Huds -> [conn : Nat, ring : Seq(Record)]]
  /\ \A h \in Huds : hud[h].conn <= Len(conns) /\ Len(hud[h].ring) <= HudCapacity

LEMMA TypesAre ==
  /\ TypeOK /\ Shape => ThreadsOK /\ RingOK /\ WorkerOK /\ ConnsOK /\ HudsOK
  /\ ThreadsOK' /\ RingOK' /\ WorkerOK' /\ ConnsOK' /\ HudsOK' => TypeOK' /\ Shape'
<1>1. ASSUME TypeOK, Shape  PROVE ThreadsOK /\ RingOK /\ WorkerOK /\ ConnsOK /\ HudsOK
  <2>1. ThreadsOK /\ RingOK /\ ConnsOK
    BY <1>1 DEF TypeOK, ThreadsOK, RingOK, ConnsOK, Channel
  <2>2. Len(conns) \in Nat  BY <2>1, LenProperties DEF ConnsOK
  <2>3. WorkerOK
    <3>1. worker.conn \in 0 .. Len(conns) /\ (worker.step = "accept" <=> worker.conn = 0)
          /\ (worker.batch # <<>> => worker.step = "write")
      BY <1>1 DEF TypeOK
    <3>. QED  BY <1>1, <2>2, <3>1 DEF Shape, WorkerOK
  <2>4. HudsOK
    <3>1. \A h \in Huds : hud[h].conn \in 0 .. Len(conns) /\ Len(hud[h].ring) <= HudCapacity
      BY <1>1 DEF TypeOK
    <3>. QED  BY <1>1, <2>2, <3>1 DEF Shape, HudsOK
  <2>. QED  BY <2>1, <2>3, <2>4
<1>2. ASSUME ThreadsOK', RingOK', WorkerOK', ConnsOK', HudsOK'  PROVE TypeOK' /\ Shape'
  <2>1. Len(conns') \in Nat  BY <1>2, LenProperties DEF ConnsOK
  <2>2. Shape'  BY <1>2 DEF Shape, WorkerOK, HudsOK
  <2>3. worker'.conn \in 0 .. Len(conns') /\ (worker'.step = "accept" <=> worker'.conn = 0)
        /\ (worker'.batch # <<>> => worker'.step = "write")
        /\ worker'.step \in {"accept", "check", "wait", "write"} /\ worker'.batch \in Seq(Record')
    BY <1>2, <2>1 DEF WorkerOK
  <2>4. \A h \in Huds : /\ hud'[h].conn \in 0 .. Len(conns') /\ Len(hud'[h].ring) <= HudCapacity
                        /\ hud'[h].ring \in Seq(Record')
    BY <1>2, <2>1 DEF HudsOK
  <2>5. TypeOK'  BY <1>2, <2>3, <2>4 DEF TypeOK, ThreadsOK, RingOK, ConnsOK, Channel
  <2>. QED  BY <2>2, <2>5
<1>. QED  BY <1>1, <1>2

LEMMA TypeStep ==
  ASSUME IInv, [Next]_vars
  PROVE  TypeOK' /\ Shape'
<1>0. /\ presenters' = presenters /\ FrameLimit' = FrameLimit /\ Frame' = Frame
      /\ Time' = Time /\ Record' = Record
  BY PresentersStay, SameRecords
<1>c. Channel' = Channel  BY <1>0 DEF Channel
<1>i. ThreadsOK /\ RingOK /\ WorkerOK /\ ConnsOK /\ HudsOK  BY TypesAre DEF IInv
<1>n. Len(conns) \in Nat  BY ConnectionOf
<1>k. {RingCapacity, HudCapacity, PipeCapacity} \subseteq Nat \ {0}  BY TelemetryAssumption
<1>t. UNCHANGED threadVars => ThreadsOK'  BY <1>0, <1>i DEF ThreadsOK, threadVars
<1>r. UNCHANGED ring => RingOK'  BY <1>0, <1>i DEF RingOK
<1>w. worker' = worker /\ conns' = conns => WorkerOK'  BY <1>0, <1>i DEF WorkerOK
<1>o. UNCHANGED conns => ConnsOK'  BY <1>0, <1>c, <1>i DEF ConnsOK
<1>h. hud' = hud /\ conns' = conns => HudsOK'  BY <1>0, <1>i DEF HudsOK
<1>p. UNCHANGED <<ring, worker, conns, hud>> /\ ThreadsOK' => TypeOK' /\ Shape'
  BY <1>r, <1>w, <1>o, <1>h, TypesAre
<1>1. ASSUME NEW t \in Threads, Present(t)  PROVE TypeOK' /\ Shape'
  <2>1. frames' = frames + 1 /\ frames < FrameLimit /\ clock' = clock /\ pushed' = pushed
        /\ call' = [call EXCEPT ![t] = [step |-> "counted", rec |-> Blank]]
        /\ UNCHANGED <<ring, worker, conns, hud>>
    BY <1>1 DEF Present, Enter
  <2>2. frames \in 0 .. FrameLimit /\ pushed \in 0 .. frames /\ FrameLimit \in Nat
    BY <1>i, Limits DEF ThreadsOK, Frame
  <2>3. frames' \in Frame /\ pushed' \in 0 .. frames'  BY <2>1, <2>2 DEF Frame
  <2>4. call' \in [Threads -> [step : {"idle", "counted", "stamped", "indexed", "pushed"}, rec : Record]]
    BY <1>i, <2>1, Limits DEF ThreadsOK
  <2>. QED  BY <1>0, <1>i, <1>p, <2>1, <2>3, <2>4 DEF ThreadsOK
<1>2. ASSUME NEW t \in Threads, Stamp(t)  PROVE TypeOK' /\ Shape'
  <2>1. frames' = frames /\ pushed' = pushed /\ clock' \in Time
        /\ call' = [call EXCEPT ![t] = [step |-> "stamped", rec |-> [call[t].rec EXCEPT !.ts = clock']]]
        /\ UNCHANGED <<ring, worker, conns, hud>>
    BY <1>2 DEF Stamp, Enter
  <2>2. call[t].rec \in Record  BY <1>i DEF ThreadsOK
  <2>3. [call[t].rec EXCEPT !.ts = clock'] \in Record  BY <2>1, <2>2, Limits
  <2>4. call' \in [Threads -> [step : {"idle", "counted", "stamped", "indexed", "pushed"}, rec : Record]]
    BY <1>i, <2>1, <2>3 DEF ThreadsOK
  <2>. QED  BY <1>0, <1>i, <1>p, <2>1, <2>4 DEF ThreadsOK
<1>3. ASSUME NEW t \in Threads, ReadFrames(t)  PROVE TypeOK' /\ Shape'
  <2>1. frames' = frames /\ pushed' = pushed /\ clock' = clock
        /\ call' = [call EXCEPT ![t] = [step |-> "indexed", rec |-> [call[t].rec EXCEPT !.frame = frames]]]
        /\ UNCHANGED <<ring, worker, conns, hud>>
    BY <1>3 DEF ReadFrames, Enter
  <2>2. call[t].rec \in Record /\ frames \in Frame  BY <1>i DEF ThreadsOK
  <2>3. [call[t].rec EXCEPT !.frame = frames] \in Record  BY <2>2, Limits
  <2>4. call' \in [Threads -> [step : {"idle", "counted", "stamped", "indexed", "pushed"}, rec : Record]]
    BY <1>i, <2>1, <2>3 DEF ThreadsOK
  <2>. QED  BY <1>0, <1>i, <1>p, <2>1, <2>4 DEF ThreadsOK
<1>4. ASSUME NEW t \in Threads, Push(t)  PROVE TypeOK' /\ Shape'
  <2>1. PICK r \in Record : r = [call[t].rec EXCEPT !.n = pushed + 1]
    <3>1. call[t].rec \in Record /\ pushed + 1 \in Frame
      BY <1>i, <1>4, RoomToPush DEF ThreadsOK, Push
    <3>. QED  BY <3>1, Limits
  <2>2. frames' = frames /\ pushed' = pushed + 1 /\ clock' = clock
        /\ ring' = PushBack(ring, RingCapacity, r)
        /\ call' = [call EXCEPT ![t] = [step |-> "pushed", rec |-> Blank]]
        /\ UNCHANGED <<worker, conns, hud>>
    BY <1>4, <2>1 DEF Push, Enter
  <2>3. pushed' \in 0 .. frames  BY <1>4, <2>2, RoomToPush DEF Push
  <2>4. call' \in [Threads -> [step : {"idle", "counted", "stamped", "indexed", "pushed"}, rec : Record]]
    BY <1>i, <2>2, Limits DEF ThreadsOK
  <2>5. ThreadsOK'  BY <1>0, <1>i, <2>2, <2>3, <2>4 DEF ThreadsOK
  <2>6. RingOK'  BY <1>0, <1>i, <1>k, <2>2, OfPushBack DEF RingOK
  <2>. QED  BY <1>w, <1>o, <1>h, <2>2, <2>5, <2>6, TypesAre
<1>5. ASSUME NEW t \in Threads, NotifyOne(t)  PROVE TypeOK' /\ Shape'
  <2>1. UNCHANGED <<presenters, clock, frames, pushed, ring, conns, hud>>
        /\ call' = [call EXCEPT ![t] = [step |-> "idle", rec |-> Blank]]
    BY <1>5 DEF NotifyOne, Idle
  <2>2. call' \in [Threads -> [step : {"idle", "counted", "stamped", "indexed", "pushed"}, rec : Record]]
    BY <1>i, <2>1, Limits DEF ThreadsOK
  <2>3. ThreadsOK'  BY <1>0, <1>i, <2>1, <2>2 DEF ThreadsOK
  <2>4. WorkerOK'
    <3>1. CASE worker.step = "wait"
      <4>1. worker' = [worker EXCEPT !.step = "check"]  BY <1>5, <3>1 DEF NotifyOne
      <4>. QED  BY <1>0, <1>i, <2>1, <3>1, <4>1 DEF WorkerOK
    <3>2. CASE worker.step # "wait"
      BY <1>5, <1>w, <2>1, <3>2 DEF NotifyOne
    <3>. QED  BY <3>1, <3>2
  <2>. QED  BY <1>r, <1>o, <1>h, <2>1, <2>3, <2>4, TypesAre
<1>6. ASSUME Serve  PROVE TypeOK' /\ Shape'
  <2>t. UNCHANGED <<threadVars, hud>>
    BY <1>6 DEF Serve, Accept, Wait, Drain, WriteRecord, WriteFails, BatchWritten
  <2>1. CASE Accept
    <3>1. worker' = [worker EXCEPT !.step = "check", !.conn = worker.served + 1, !.served = @ + 1]
          /\ worker.step = "accept" /\ worker.served < Len(conns) /\ ring' = ring /\ conns' = conns
      BY <2>1 DEF Accept
    <3>2. PICK k \in Nat : k = worker.served  BY <1>i DEF WorkerOK
    <3>3. worker' = [worker EXCEPT !.step = "check", !.conn = k + 1, !.served = k + 1]
      BY <3>1, <3>2
    <3>4. k + 1 \in Nat /\ k + 1 <= Len(conns) /\ k + 1 # 0  BY <1>n, <3>1, <3>2
    <3>5. WorkerOK'  BY <1>0, <1>i, <3>1, <3>3, <3>4 DEF WorkerOK
    <3>. QED  BY <1>t, <1>r, <1>o, <1>h, <2>t, <3>1, <3>5, TypesAre
  <2>2. CASE Wait \/ BatchWritten
    <3>1. ring' = ring /\ conns' = conns /\ worker.step # "accept"
      BY <2>2 DEF Wait, BatchWritten
    <3>2. PICK s \in {"wait", "check"} : worker' = [worker EXCEPT !.step = s] /\ worker.batch = <<>>
      BY <1>i, <2>2 DEF Wait, BatchWritten, WorkerOK
    <3>3. WorkerOK'  BY <1>0, <1>i, <3>1, <3>2 DEF WorkerOK
    <3>. QED  BY <1>t, <1>r, <1>o, <1>h, <2>t, <3>1, <3>3, TypesAre
  <2>3. CASE Drain
    <3>1. ring' = <<>> /\ conns' = conns /\ worker.step # "accept"
          /\ worker' = [worker EXCEPT !.step = "write", !.batch = ring]
      BY <2>3 DEF Drain, LeftByDrain
    <3>2. RingOK'  BY <1>0, <1>k, <3>1, EmptySeq DEF RingOK
    <3>3. WorkerOK'  BY <1>0, <1>i, <3>1 DEF WorkerOK, RingOK
    <3>. QED  BY <1>t, <1>o, <1>h, <2>t, <3>1, <3>2, <3>3, TypesAre
  <2>4. CASE WriteRecord
    <3>1. PICK c \in 1 .. Len(conns) : c = worker.conn
      BY <2>4, ConnectionOf DEF WriteRecord
    <3>2. PICK p \in Seq(Record) : p = Append(conns[c].pipe, Head(worker.batch)) /\ Len(p) <= PipeCapacity
      <4>1. conns[c].pipe \in Seq(Record) /\ Len(conns[c].pipe) < PipeCapacity
        BY <2>4, <3>1, ConnectionOf DEF WriteRecord
      <4>2. Head(worker.batch) \in Record
        BY <1>i, <2>4, OfTail DEF WriteRecord, WorkerOK
      <4>3. Len(conns[c].pipe) \in Nat  BY <4>1, LenProperties
      <4>4. Len(conns[c].pipe) + 1 <= PipeCapacity  BY <1>k, <4>1, <4>3
      <4>. QED  BY <4>1, <4>2, <4>4, OfAppend
    <3>3. conns' = [conns EXCEPT ![c].pipe = p] /\ ring' = ring
          /\ worker' = [worker EXCEPT !.batch = Tail(@)] /\ worker.batch # <<>> /\ worker.step = "write"
      BY <2>4, <3>1, <3>2 DEF WriteRecord
    <3>4. /\ conns' \in Seq(Channel) /\ Len(conns') = Len(conns) /\ DOMAIN conns' = DOMAIN conns
          /\ \A d \in DOMAIN conns' : Len(conns'[d].pipe) <= PipeCapacity
      BY <3>2, <3>3, OnePipe DEF IInv
    <3>5. ConnsOK'  BY <1>c, <1>i, <3>4 DEF ConnsOK
    <3>6. Tail(worker.batch) \in Seq(Record)  BY <1>i, <3>3, OfTail DEF WorkerOK
    <3>7. WorkerOK'  BY <1>0, <1>i, <3>3, <3>4, <3>6 DEF WorkerOK
    <3>8. HudsOK'  BY <1>0, <1>i, <2>t, <3>4 DEF HudsOK
    <3>. QED  BY <1>t, <1>r, <2>t, <3>3, <3>5, <3>7, <3>8, TypesAre
  <2>5. CASE WriteFails
    <3>1. worker' = [worker EXCEPT !.step = "accept", !.conn = 0, !.batch = <<>>]
          /\ ring' = ring /\ conns' = conns
      BY <2>5 DEF WriteFails
    <3>2. <<>> \in Seq(Record) /\ 0 <= Len(conns)  BY <1>n, EmptySeq
    <3>3. /\ worker' \in [step : {"accept", "check", "wait", "write"}, conn : Nat, served : Nat,
                          batch : Seq(Record)]
          /\ worker'.served = worker.served /\ worker'.conn = 0
          /\ worker'.step = "accept" /\ worker'.batch = <<>>
      BY <1>i, <3>1, <3>2 DEF WorkerOK
    <3>4. WorkerOK'  BY <1>0, <1>i, <3>1, <3>2, <3>3 DEF WorkerOK
    <3>. QED  BY <1>t, <1>r, <1>o, <1>h, <2>t, <3>1, <3>4, TypesAre
  <2>. QED  BY <1>6, <2>1, <2>2, <2>3, <2>4, <2>5 DEF Serve
<1>7. ASSUME NEW h \in Huds, Connect(h)  PROVE TypeOK' /\ Shape'
  <2>1. PICK e \in Channel : e = [open |-> TRUE, pipe |-> <<>>]  BY EmptySeq DEF Channel
  <2>2. conns' = Append(conns, e) /\ Len(conns) < MaxConnections
        /\ hud' = [hud EXCEPT ![h].conn = Len(conns) + 1] /\ UNCHANGED <<threadVars, ring, worker>>
    BY <1>7, <2>1 DEF Connect
  <2>3. PICK k \in Nat : k = Len(conns)  BY <1>n
  <2>4. /\ conns' \in Seq(Channel) /\ Len(conns') = k + 1 /\ DOMAIN conns' = 1 .. k + 1
        /\ conns'[k + 1] = e /\ \A d \in 1 .. k : conns'[d] = conns[d]
    BY <1>i, <2>2, <2>3, AppendProperties, LenProperties DEF ConnsOK
  <2>5. ConnsOK'
    <3>1. k + 1 <= MaxConnections  BY <2>2, <2>3, TelemetryAssumption
    <3>2. DOMAIN conns = 1 .. k  BY <2>3, ConnectionOf DEF IInv
    <3>3. Len(e.pipe) = 0 /\ PipeCapacity \in Nat  BY <1>k, <2>1, EmptySeq
    <3>4. \A d \in 1 .. k + 1 : d \in 1 .. k \/ d = k + 1  BY <2>3
    <3>5. \A d \in DOMAIN conns' : Len(conns'[d].pipe) <= PipeCapacity
      BY <1>i, <2>4, <3>2, <3>3, <3>4 DEF ConnsOK
    <3>. QED  BY <1>c, <2>4, <3>1, <3>5 DEF ConnsOK
  <2>6. WorkerOK'  BY <1>0, <1>i, <2>2, <2>3, <2>4 DEF WorkerOK
  <2>7. HudsOK'
    <3>1. hud' = [hud EXCEPT ![h].conn = k + 1] /\ Len(conns') = k + 1  BY <2>2, <2>3, <2>4
    <3>2. hud' \in [Huds -> [conn : Nat, ring : Seq(Record)]]  BY <1>i, <3>1 DEF HudsOK
    <3>3. ASSUME NEW g \in Huds
          PROVE  hud'[g].conn <= k + 1 /\ Len(hud'[g].ring) <= HudCapacity
      <4>1. hud[g].conn \in Nat /\ hud[g].conn <= k /\ Len(hud[g].ring) <= HudCapacity
        BY <1>i, <2>3 DEF HudsOK
      <4>2. hud'[g].conn \in {hud[g].conn, k + 1} /\ hud'[g].ring = hud[g].ring
        BY <1>i, <3>1 DEF HudsOK
      <4>. QED  BY <4>1, <4>2
    <3>. QED  BY <1>0, <3>1, <3>2, <3>3 DEF HudsOK
  <2>. QED  BY <1>t, <1>r, <2>2, <2>5, <2>6, <2>7, TypesAre
<1>8. ASSUME NEW h \in Huds, ReadLine(h)  PROVE TypeOK' /\ Shape'
  <2>1. PICK c \in 1 .. Len(conns) : c = hud[h].conn  BY <1>8, ConnectionOf DEF ReadLine
  <2>2. PICK p \in Seq(Record) : p = conns[c].pipe /\ p # <<>> /\ Len(p) <= PipeCapacity
    BY <1>8, <2>1, ConnectionOf DEF ReadLine
  <2>3. PICK q \in Seq(Record), e \in Record : q = Tail(p) /\ e = Head(p) /\ Len(q) = Len(p) - 1
    BY <2>2, OfTail
  <2>4. Len(q) <= PipeCapacity  BY <1>k, <2>2, <2>3, LenProperties
  <2>5. conns' = [conns EXCEPT ![c].pipe = q]
        /\ hud' = [hud EXCEPT ![h].ring = PushBack(@, HudCapacity, e)]
        /\ UNCHANGED <<threadVars, ring, worker>>
    BY <1>8, <2>1, <2>2, <2>3 DEF ReadLine
  <2>6. /\ conns' \in Seq(Channel) /\ Len(conns') = Len(conns) /\ DOMAIN conns' = DOMAIN conns
        /\ \A d \in DOMAIN conns' : Len(conns'[d].pipe) <= PipeCapacity
    BY <2>4, <2>5, OnePipe DEF IInv
  <2>7. ConnsOK'  BY <1>c, <1>i, <2>6 DEF ConnsOK
  <2>8. WorkerOK'  BY <1>0, <1>i, <2>5, <2>6 DEF WorkerOK
  <2>9. HudsOK'
    <3>1. PICK r \in Seq(Record) : r = hud[h].ring /\ Len(r) <= HudCapacity  BY <1>i DEF HudsOK
    <3>2. PICK u \in Seq(Record) : u = PushBack(r, HudCapacity, e) /\ Len(u) <= HudCapacity
      BY <1>k, <3>1, OfPushBack
    <3>3. hud' = [hud EXCEPT ![h].ring = u]  BY <2>5, <3>1, <3>2
    <3>. QED  BY <1>0, <1>i, <2>6, <3>2, <3>3 DEF HudsOK
  <2>. QED  BY <1>t, <1>r, <2>5, <2>7, <2>8, <2>9, TypesAre
<1>9. ASSUME NEW h \in Huds, End(h)  PROVE TypeOK' /\ Shape'
  <2>1. PICK c \in 1 .. Len(conns) : c = hud[h].conn  BY <1>9, ConnectionOf DEF End
  <2>2. PICK e \in Channel : e = [open |-> FALSE, pipe |-> <<>>]  BY EmptySeq DEF Channel
  <2>3. conns' = [conns EXCEPT ![c] = e] /\ hud' = [hud EXCEPT ![h] = [conn |-> 0, ring |-> <<>>]]
        /\ UNCHANGED <<threadVars, ring, worker>>
    BY <1>9, <2>1, <2>2 DEF End
  <2>4. Len(e.pipe) <= PipeCapacity  BY <1>k, <2>2, EmptySeq
  <2>5. /\ conns' \in Seq(Channel) /\ Len(conns') = Len(conns) /\ DOMAIN conns' = DOMAIN conns
        /\ \A d \in DOMAIN conns' : Len(conns'[d].pipe) <= PipeCapacity
    BY <2>3, <2>4, OneConnection DEF IInv
  <2>6. ConnsOK'  BY <1>c, <1>i, <2>5 DEF ConnsOK
  <2>7. WorkerOK'  BY <1>0, <1>i, <2>3, <2>5 DEF WorkerOK
  <2>8. HudsOK'
    <3>1. [conn |-> 0, ring |-> <<>>] \in [conn : Nat, ring : Seq(Record)]  BY EmptySeq
    <3>2. Len(<<>>) <= HudCapacity /\ 0 <= Len(conns)  BY <1>k, <1>n, EmptySeq
    <3>. QED  BY <1>0, <1>i, <2>3, <2>5, <3>1, <3>2 DEF HudsOK
  <2>. QED  BY <1>t, <1>r, <2>3, <2>6, <2>7, <2>8, TypesAre
<1>10. ASSUME UNCHANGED vars  PROVE TypeOK' /\ Shape'
  BY <1>10, <1>t, <1>r, <1>w, <1>o, <1>h, TypesAre DEF vars
<1>. QED  BY <1>1, <1>2, <1>3, <1>4, <1>5, <1>6, <1>7, <1>8, <1>9, <1>10 DEF Next, Presenting

-----------------------------------------------------------------------------
(* The count of the presents that have no record yet                        *)

LEMMA CountStep ==
  ASSUME IInv, [Next]_vars
  PROVE  Counted'
<1>0. /\ presenters' = presenters
      /\ call \in [Threads -> [step : {"idle", "counted", "stamped", "indexed", "pushed"}, rec : Record]]
  BY PresentersStay DEF IInv, TypeOK
<1>1. /\ IsFiniteSet(Active) /\ pushed + Cardinality(Active) = frames /\ Active \subseteq presenters
      /\ pushed \in Nat /\ frames \in Nat /\ Cardinality(Active) \in Nat
  BY Limits, FS_CardinalityType DEF IInv, TypeOK, Counted
<1>2. ASSUME NEW t \in Threads, Present(t)  PROVE Counted'
  <2>1. /\ t \in presenters /\ call[t].step = "idle" /\ frames' = frames + 1 /\ pushed' = pushed
        /\ call' = [call EXCEPT ![t] = [step |-> "counted", rec |-> Blank]]
    BY <1>2 DEF Present, InCall, Enter
  <2>2. Active' = Active \cup {t} /\ t \notin Active  BY <1>0, <2>1 DEF Active
  <2>3. IsFiniteSet(Active') /\ Cardinality(Active') = Cardinality(Active) + 1
    BY <1>1, <2>2, FS_AddElement
  <2>. QED  BY <1>0, <1>1, <2>1, <2>2, <2>3 DEF Counted
<1>3. ASSUME NEW t \in Threads, Stamp(t) \/ ReadFrames(t) \/ NotifyOne(t)  PROVE Counted'
  <2>1. pushed' = pushed /\ frames' = frames /\ Active' = Active
    <3>1. CASE Stamp(t)  BY <1>0, <3>1 DEF Stamp, Enter, InCall, Active
    <3>2. CASE ReadFrames(t)  BY <1>0, <3>2 DEF ReadFrames, Enter, InCall, Active
    <3>3. CASE NotifyOne(t)  BY <1>0, <3>3 DEF NotifyOne, Idle, InCall, Active
    <3>. QED  BY <1>3, <3>1, <3>2, <3>3
  <2>. QED  BY <1>0, <1>1, <2>1 DEF Counted
<1>4. ASSUME NEW t \in Threads, Push(t)  PROVE Counted'
  <2>1. /\ call[t].step = "indexed" /\ frames' = frames /\ pushed' = pushed + 1
        /\ call' = [call EXCEPT ![t] = [step |-> "pushed", rec |-> Blank]]
    BY <1>4 DEF Push, InCall, Enter
  <2>2. Active' = Active \ {t} /\ t \in Active  BY <1>0, <2>1 DEF Active
  <2>3. IsFiniteSet(Active') /\ Cardinality(Active') = Cardinality(Active) - 1
    BY <1>1, <2>2, FS_RemoveElement
  <2>. QED  BY <1>0, <1>1, <2>1, <2>2, <2>3 DEF Counted
<1>5. ASSUME UNCHANGED threadVars  PROVE Counted'
  BY <1>5, ThreadsKept
<1>6. \/ \E t \in Threads : Present(t) \/ Push(t) \/ Stamp(t) \/ ReadFrames(t) \/ NotifyOne(t)
      \/ UNCHANGED threadVars
  BY DEF Next, Presenting, vars, Serve, Accept, Wait, Drain, WriteRecord, WriteFails, BatchWritten,
         Connect, ReadLine, End
<1>. QED  BY <1>2, <1>3, <1>4, <1>5, <1>6

-----------------------------------------------------------------------------
(* The order of the stream                                                  *)

\* A step that only takes from what a HUD has or will have.
LEMMA TakesFrom ==
  ASSUME IInv, NEW h \in Huds, pushed' = pushed, ring' = ring, worker'.batch = worker.batch,
         \A g \in Huds : g # h => hud'[g] = hud[g] /\ Pipe(g)' = Pipe(g),
         Held(h)' \subseteq Held(h), Ascending(hud'[h].ring), Ascending(Pipe(h)'),
         Before(NumbersIn(hud'[h].ring), NumbersIn(Pipe(h)')),
         \A g \in Huds : g # h => /\ hud'[g].conn # 0 => hud'[g].conn # hud'[h].conn
                                  /\ hud'[h].conn # 0 => hud'[h].conn # hud'[g].conn
  PROVE  Queued' /\ Arrived' /\ OwnRecords'
<1>1. Queued'  BY DEF IInv, Queued
<1>2. \A g \in Huds : g # h => Held(g)' = Held(g)  BY DEF Held
<1>3. \A g \in Huds : Held(g)' \subseteq Held(g)  BY <1>2
<1>4. ASSUME NEW g \in Huds
      PROVE  /\ Ascending(hud'[g].ring) /\ Ascending(Pipe(g)')
             /\ Before(NumbersIn(hud'[g].ring), NumbersIn(Pipe(g)'))
             /\ Held(g)' \subseteq 0 .. pushed'
             /\ Before(Held(g)', NumbersIn(worker'.batch)) /\ Before(Held(g)', NumbersIn(ring'))
  <2>1. /\ Ascending(hud'[g].ring) /\ Ascending(Pipe(g)')
        /\ Before(NumbersIn(hud'[g].ring), NumbersIn(Pipe(g)'))
    BY DEF IInv, Arrived
  <2>2. /\ Held(g) \subseteq 0 .. pushed
        /\ Before(Held(g), NumbersIn(worker.batch)) /\ Before(Held(g), NumbersIn(ring))
    BY DEF IInv, Arrived
  <2>3. Before(Held(g)', NumbersIn(worker'.batch)) /\ Before(Held(g)', NumbersIn(ring'))
    BY <1>3, <2>2 DEF Before
  <2>. QED  BY <1>3, <2>1, <2>2, <2>3
<1>5. Arrived'  BY <1>4 DEF Arrived
<1>6. ASSUME NEW f \in Huds, NEW g \in Huds, f # g
      PROVE  (hud'[f].conn # 0 => hud'[f].conn # hud'[g].conn) /\ Held(f)' \cap Held(g)' = {}
  <2>1. Held(f) \cap Held(g) = {} /\ (hud[f].conn # 0 => hud[f].conn # hud[g].conn)
    BY <1>6 DEF IInv, OwnRecords
  <2>2. Held(f)' \cap Held(g)' = {}  BY <1>3, <2>1
  <2>3. hud'[f].conn # 0 => hud'[f].conn # hud'[g].conn
    <3>1. CASE f # h /\ g # h  BY <2>1, <3>1
    <3>2. CASE f = h \/ g = h  BY <1>6, <3>2
    <3>. QED  BY <3>1, <3>2
  <2>. QED  BY <2>2, <2>3
<1>7. OwnRecords'  BY <1>6 DEF OwnRecords
<1>. QED  BY <1>1, <1>5, <1>7

\* The HUDs after one of the connections is gone, made or has another pipe.
LEMMA OtherPipes ==
  ASSUME IInv, NEW h \in Huds, NEW c \in Nat, \A g \in Huds : g # h => hud[g].conn # c \/ c = 0,
         \A g \in Huds : g # h => hud'[g] = hud[g],
         \A d \in DOMAIN conns : d # c => conns'[d] = conns[d]
  PROVE  \A g \in Huds : g # h => hud'[g] = hud[g] /\ Pipe(g)' = Pipe(g)
<1> SUFFICES ASSUME NEW g \in Huds, g # h  PROVE hud'[g] = hud[g] /\ Pipe(g)' = Pipe(g)
  OBVIOUS
<1>1. hud'[g] = hud[g]  OBVIOUS
<1>2. CASE hud[g].conn = 0  BY <1>1, <1>2 DEF Pipe
<1>3. CASE hud[g].conn # 0
  <2>1. hud[g].conn \in DOMAIN conns  BY <1>3, ConnectionOf
  <2>2. hud[g].conn # c  BY <1>3
  <2>. QED  BY <1>1, <1>3, <2>1, <2>2 DEF Pipe
<1>. QED  BY <1>1, <1>2, <1>3

LEMMA StreamStep ==
  ASSUME IInv, [Next]_vars
  PROVE  Queued' /\ Arrived' /\ OwnRecords'
<1>i. /\ worker \in [step : {"accept", "check", "wait", "write"}, conn : Nat, served : Nat,
                     batch : Seq(Record)]
      /\ hud \in [Huds -> [conn : Nat, ring : Seq(Record)]]
      /\ \A g \in Huds : Len(hud[g].ring) <= HudCapacity
      /\ ring \in Seq(Record) /\ Len(ring) <= RingCapacity
      /\ {RingCapacity, HudCapacity} \subseteq Nat \ {0}
      /\ pushed \in Nat
  BY Limits, TelemetryAssumption, SMTT(40) DEF IInv, Shape, TypeOK, Frame
<1>q. /\ Ascending(worker.batch) /\ Ascending(ring)
      /\ Before(NumbersIn(worker.batch), NumbersIn(ring))
      /\ NumbersIn(worker.batch) \subseteq 0 .. pushed /\ NumbersIn(ring) \subseteq 0 .. pushed
  BY DEF IInv, Queued
<1>a. ASSUME NEW h \in Huds
      PROVE  /\ Ascending(hud[h].ring) /\ Ascending(Pipe(h))
             /\ Before(NumbersIn(hud[h].ring), NumbersIn(Pipe(h)))
             /\ Held(h) \subseteq 0 .. pushed
             /\ Before(Held(h), NumbersIn(worker.batch)) /\ Before(Held(h), NumbersIn(ring))
  BY DEF IInv, Arrived
<1>o. ASSUME NEW g \in Huds, NEW h \in Huds, g # h
      PROVE  /\ hud[g].conn # 0 => hud[g].conn # hud[h].conn
             /\ hud[h].conn # 0 => hud[h].conn # hud[g].conn
             /\ Held(g) \cap Held(h) = {}
  BY <1>o DEF IInv, OwnRecords
<1>e. /\ NumbersIn(<<>>) = {} /\ Ascending(<<>>)
      /\ \A A : Before(A, {}) /\ Before({}, A)
  BY OfEmpty DEF Before
<1>1. ASSUME NEW t \in Threads, Present(t) \/ Stamp(t) \/ ReadFrames(t) \/ NotifyOne(t)
      PROVE  Queued' /\ Arrived' /\ OwnRecords'
  <2>1. StreamStays /\ pushed' = pushed
    BY <1>1, <1>i DEF Present, Stamp, ReadFrames, NotifyOne, StreamStays
  <2>. QED  BY <2>1, StreamKept
<1>2. ASSUME NEW t \in Threads, Push(t)  PROVE Queued' /\ Arrived' /\ OwnRecords'
  <2>1. PICK r \in Record : r = [call[t].rec EXCEPT !.n = pushed + 1] /\ r.n = pushed + 1
    <3>1. call[t].rec \in Record /\ pushed + 1 \in Frame
      BY <1>2, RoomToPush DEF IInv, TypeOK, Push
    <3>2. PICK e \in Record, n \in Frame : e = call[t].rec /\ n = pushed + 1  BY <3>1
    <3>3. [e EXCEPT !.n = n] \in Record /\ [e EXCEPT !.n = n].n = n  BY DEF Record
    <3>. QED  BY <3>2, <3>3
  <2>2. /\ ring' = PushBack(ring, RingCapacity, r) /\ pushed' = pushed + 1
        /\ UNCHANGED <<worker, conns, hud>>
    BY <1>2, <2>1 DEF Push
  <2>3. \A A : A \subseteq 0 .. pushed => Before(A, {r.n}) /\ A \subseteq 0 .. pushed'
    BY <1>i, <2>1, <2>2 DEF Before
  <2>4. /\ NumbersIn(ring') \subseteq NumbersIn(ring) \cup {r.n}
        /\ Ascending(ring) /\ Before(NumbersIn(ring), {r.n}) => Ascending(ring')
    BY <1>i, <2>2, OfPushBack
  <2>5. \A A : A \subseteq 0 .. pushed /\ Before(A, NumbersIn(ring)) => Before(A, NumbersIn(ring'))
    BY <2>3, <2>4 DEF Before
  <2>6. NumbersIn(ring') \subseteq 0 .. pushed'
    <3>1. r.n \in 0 .. pushed'  BY <1>i, <2>1, <2>2
    <3>. QED  BY <1>q, <2>3, <2>4, <3>1
  <2>7. Queued'  BY <1>q, <2>2, <2>3, <2>4, <2>5, <2>6 DEF Queued
  <2>8. \A h : Pipe(h)' = Pipe(h) /\ Held(h)' = Held(h)  BY <2>2 DEF Pipe, Held
  <2>9. Arrived'  BY <1>a, <2>2, <2>3, <2>5, <2>8 DEF Arrived
  <2>10. OwnRecords'  BY <1>o, <2>2, <2>8 DEF OwnRecords
  <2>. QED  BY <2>7, <2>9, <2>10
<1>3. CASE Accept \/ Wait \/ BatchWritten
  <2>1. StreamStays /\ pushed' = pushed
    BY <1>3, <1>i DEF Accept, Wait, BatchWritten, StreamStays, threadVars
  <2>. QED  BY <2>1, StreamKept
<1>4. CASE Drain
  <2>1. /\ worker'.batch = ring /\ ring' = <<>> /\ pushed' = pushed /\ UNCHANGED <<conns, hud>>
    BY <1>4, <1>i DEF Drain, LeftByDrain, threadVars
  <2>2. Queued'  BY <1>q, <1>e, <2>1 DEF Queued
  <2>3. \A h : Pipe(h)' = Pipe(h) /\ Held(h)' = Held(h)  BY <2>1 DEF Pipe, Held
  <2>4. Arrived'  BY <1>a, <1>e, <2>1, <2>3 DEF Arrived
  <2>5. OwnRecords'  BY <1>o, <2>1, <2>3 DEF OwnRecords
  <2>. QED  BY <2>2, <2>4, <2>5
<1>5. CASE WriteRecord
  <2>1. PICK c \in 1 .. Len(conns) : c = worker.conn
    BY <1>5, ConnectionOf DEF WriteRecord
  <2>2. PICK b \in Seq(Record) : b = worker.batch /\ b # <<>>  BY <1>5, <1>i DEF WriteRecord
  <2>3. PICK e \in Record, q \in Seq(Record) :
          /\ e = Head(b) /\ q = Tail(b) /\ NumbersIn(b) = {e.n} \cup NumbersIn(q)
          /\ Ascending(q) /\ Before({e.n}, NumbersIn(q))
    BY <1>q, <2>2, OfTail
  <2>4. PICK p \in Seq(Record) : p = conns[c].pipe  BY ConnectionOf
  <2>5. /\ conns' = [conns EXCEPT ![c].pipe = Append(p, e)] /\ worker' = [worker EXCEPT !.batch = q]
        /\ Len(p) < PipeCapacity /\ ring' = ring /\ hud' = hud /\ pushed' = pushed
    BY <1>5, <2>1, <2>2, <2>3, <2>4 DEF WriteRecord, threadVars
  <2>6. /\ Append(p, e) \in Seq(Record) /\ NumbersIn(Append(p, e)) = NumbersIn(p) \cup {e.n}
        /\ Ascending(p) /\ Before(NumbersIn(p), {e.n}) => Ascending(Append(p, e))
        /\ Len(Append(p, e)) <= PipeCapacity
    <3>1. Len(p) \in Nat /\ PipeCapacity \in Nat  BY LenProperties, TelemetryAssumption
    <3>2. Len(Append(p, e)) = Len(p) + 1  BY OfAppend
    <3>3. Len(p) + 1 <= PipeCapacity  BY <2>5, <3>1
    <3>. QED  BY <3>2, <3>3, OfAppend
  <2>7. /\ conns'[c].pipe = Append(p, e) /\ DOMAIN conns' = DOMAIN conns
        /\ \A d \in DOMAIN conns : d # c => conns'[d] = conns[d]
    BY <2>5, <2>6, OnePipe DEF IInv
  <2>8. worker'.batch = q  BY <1>i, <2>5
  <2>9. e.n \in NumbersIn(b) /\ NumbersIn(q) \subseteq NumbersIn(b) /\ e.n \in 0 .. pushed
    BY <1>q, <2>2, <2>3
  <2>10. Queued'
    <3>1. Before(NumbersIn(q), NumbersIn(ring)) /\ NumbersIn(q) \subseteq 0 .. pushed
      BY <1>q, <2>2, <2>9 DEF Before
    <3>. QED  BY <1>q, <2>3, <2>5, <2>8, <3>1 DEF Queued
  <2>11. ASSUME NEW g \in Huds, hud[g].conn # c \/ c = 0
         PROVE  Pipe(g)' = Pipe(g) /\ Held(g)' = Held(g)
    <3>1. Pipe(g)' = Pipe(g)
      <4>1. CASE hud[g].conn = 0  BY <2>5, <4>1 DEF Pipe
      <4>2. CASE hud[g].conn # 0
        <5>1. hud[g].conn \in DOMAIN conns  BY <4>2, ConnectionOf
        <5>. QED  BY <2>5, <2>7, <2>11, <4>2, <5>1 DEF Pipe
      <4>. QED  BY <4>1, <4>2
    <3>. QED  BY <2>5, <3>1 DEF Held
  <2>12. ASSUME NEW g \in Huds, hud[g].conn = c
         PROVE  /\ Pipe(g) = p /\ Pipe(g)' = Append(p, e) /\ Held(g)' = Held(g) \cup {e.n}
                /\ Before(Held(g), {e.n})
    <3>1. Pipe(g) = p /\ Pipe(g)' = Append(p, e)  BY <2>4, <2>5, <2>7, <2>12 DEF Pipe
    <3>2. Held(g)' = Held(g) \cup {e.n}  BY <2>5, <2>6, <3>1 DEF Held
    <3>3. Before(Held(g), {e.n})  BY <1>a, <2>2, <2>9 DEF Before
    <3>. QED  BY <3>1, <3>2, <3>3
  <2>13. Before(NumbersIn(q), {}) /\ Before({e.n}, NumbersIn(q)) /\ Before({e.n}, NumbersIn(ring))
    BY <1>q, <1>e, <2>2, <2>3, <2>9 DEF Before
  <2>14. ASSUME NEW g \in Huds
         PROVE  /\ Ascending(hud'[g].ring) /\ Ascending(Pipe(g)')
                /\ Before(NumbersIn(hud'[g].ring), NumbersIn(Pipe(g)'))
                /\ Held(g)' \subseteq 0 .. pushed'
                /\ Before(Held(g)', NumbersIn(worker'.batch)) /\ Before(Held(g)', NumbersIn(ring'))
    <3>1. Before(Held(g), NumbersIn(q))  BY <1>a, <2>2, <2>9 DEF Before
    <3>2. CASE hud[g].conn # c
      BY <1>a, <2>5, <2>8, <2>11, <3>1, <3>2
    <3>3. CASE hud[g].conn = c
      <4>1. Before(NumbersIn(hud[g].ring), {e.n}) /\ Before(NumbersIn(p), {e.n})
        BY <2>12, <3>3 DEF Held, Before
      <4>2. Ascending(Pipe(g)')  BY <1>a, <2>6, <2>12, <3>3, <4>1
      <4>3. Before(NumbersIn(hud[g].ring), NumbersIn(Append(p, e)))
        BY <1>a, <2>6, <2>12, <3>3, <4>1 DEF Before
      <4>4. Before(Held(g)', NumbersIn(q)) /\ Before(Held(g)', NumbersIn(ring))
        BY <1>a, <2>12, <2>13, <3>1, <3>3 DEF Before
      <4>5. Held(g)' \subseteq 0 .. pushed  BY <1>a, <2>9, <2>12, <3>3
      <4>. QED  BY <1>a, <2>5, <2>8, <2>12, <3>3, <4>2, <4>3, <4>4, <4>5
    <3>. QED  BY <3>2, <3>3
  <2>15. Arrived'  BY <2>14 DEF Arrived
  <2>16. ASSUME NEW f \in Huds, NEW g \in Huds, f # g
         PROVE  (hud'[f].conn # 0 => hud'[f].conn # hud'[g].conn) /\ Held(f)' \cap Held(g)' = {}
    <3>1. c # 0 /\ ~(hud[f].conn = c /\ hud[g].conn = c)  BY <1>o, <2>16, ConnectionOf
    <3>2. ASSUME NEW k \in Huds  PROVE e.n \notin Held(k)
      BY <1>a, <2>2, <2>9 DEF Before
    <3>3. Held(f)' \cap Held(g)' = {}
      <4>1. CASE hud[f].conn # c /\ hud[g].conn # c  BY <1>o, <2>11, <2>16, <4>1
      <4>2. CASE hud[f].conn = c /\ hud[g].conn # c  BY <1>o, <2>11, <2>12, <2>16, <3>2, <4>2
      <4>3. CASE hud[f].conn # c /\ hud[g].conn = c  BY <1>o, <2>11, <2>12, <2>16, <3>2, <4>3
      <4>. QED  BY <3>1, <4>1, <4>2, <4>3
    <3>. QED  BY <1>o, <2>5, <2>16, <3>3
  <2>17. OwnRecords'  BY <2>16 DEF OwnRecords
  <2>. QED  BY <2>10, <2>15, <2>17
<1>6. CASE WriteFails
  <2>1. /\ worker'.batch = <<>> /\ ring' = ring /\ pushed' = pushed /\ UNCHANGED <<conns, hud>>
    BY <1>6, <1>i DEF WriteFails, threadVars
  <2>2. Queued'  BY <1>q, <1>e, <2>1 DEF Queued
  <2>3. \A h : Pipe(h)' = Pipe(h) /\ Held(h)' = Held(h)  BY <2>1 DEF Pipe, Held
  <2>4. Arrived'  BY <1>a, <1>e, <2>1, <2>3 DEF Arrived
  <2>5. OwnRecords'  BY <1>o, <2>1, <2>3 DEF OwnRecords
  <2>. QED  BY <2>2, <2>4, <2>5
<1>7. ASSUME NEW h \in Huds, Connect(h)  PROVE Queued' /\ Arrived' /\ OwnRecords'
  <2>1. PICK k \in Nat : k = Len(conns)  BY ConnectionOf
  <2>2. /\ conns' = Append(conns, [open |-> TRUE, pipe |-> <<>>]) /\ hud[h].conn = 0
        /\ hud' = [hud EXCEPT ![h].conn = k + 1] /\ ring' = ring /\ worker' = worker /\ pushed' = pushed
    BY <1>7, <2>1 DEF Connect, threadVars
  <2>3. conns'[k + 1].pipe = <<>> /\ \A d \in DOMAIN conns : conns'[d] = conns[d]
    <3>1. PICK e \in Channel : e = [open |-> TRUE, pipe |-> <<>>]  BY EmptySeq DEF Channel
    <3>2. conns \in Seq(Channel)  BY DEF IInv, TypeOK, Channel
    <3>3. conns'[k + 1] = e /\ \A d \in 1 .. k : conns'[d] = conns[d]
      BY <2>1, <2>2, <3>1, <3>2, AppendProperties
    <3>. QED  BY <2>1, <3>1, <3>3, ConnectionOf
  <2>4. \A g \in Huds : g # h => hud'[g] = hud[g] /\ Pipe(g)' = Pipe(g)
    <3>1. \A g \in Huds : g # h => hud'[g] = hud[g]  BY <1>i, <2>2
    <3>. QED  BY <2>3, <3>1, OtherPipes
  <2>5. hud'[h].conn = k + 1 /\ hud'[h].ring = hud[h].ring  BY <1>i, <2>2
  <2>6. Pipe(h) = <<>> /\ Pipe(h)' = <<>>  BY <2>1, <2>2, <2>3, <2>5 DEF Pipe
  <2>7. Held(h)' = Held(h)  BY <2>5, <2>6 DEF Held
  <2>8. ASSUME NEW g \in Huds, g # h
        PROVE  /\ hud'[g].conn # 0 => hud'[g].conn # hud'[h].conn
               /\ hud'[h].conn # 0 => hud'[h].conn # hud'[g].conn
    <3>1. hud[g].conn # k + 1  BY <2>1, ConnectionOf
    <3>. QED  BY <2>4, <2>5, <2>8, <3>1
  <2>9. /\ Held(h)' \subseteq Held(h) /\ Ascending(hud'[h].ring) /\ Ascending(Pipe(h)')
        /\ Before(NumbersIn(hud'[h].ring), NumbersIn(Pipe(h)'))
    BY <1>a, <1>e, <2>5, <2>6, <2>7
  <2>. QED  BY <2>2, <2>4, <2>8, <2>9, TakesFrom
<1>8. ASSUME NEW h \in Huds, ReadLine(h)  PROVE Queued' /\ Arrived' /\ OwnRecords'
  <2>1. PICK c \in 1 .. Len(conns) : c = hud[h].conn  BY <1>8, ConnectionOf DEF ReadLine
  <2>2. PICK p \in Seq(Record) : p = conns[c].pipe /\ p # <<>> /\ Len(p) <= PipeCapacity /\ p = Pipe(h)
    BY <1>8, <2>1, ConnectionOf DEF ReadLine, Pipe
  <2>3. PICK e \in Record, q \in Seq(Record) :
          /\ e = Head(p) /\ q = Tail(p) /\ NumbersIn(p) = {e.n} \cup NumbersIn(q)
          /\ Ascending(q) /\ Before({e.n}, NumbersIn(q)) /\ Len(q) = Len(p) - 1
    BY <1>a, <2>2, OfTail
  <2>4. PICK r \in Seq(Record) : r = hud[h].ring  BY <1>i
  <2>5. PICK u \in Seq(Record) :
          /\ u = PushBack(r, HudCapacity, e) /\ NumbersIn(u) \subseteq NumbersIn(r) \cup {e.n}
          /\ Ascending(r) /\ Before(NumbersIn(r), {e.n}) => Ascending(u)
    <3>1. Len(r) <= HudCapacity /\ HudCapacity \in Nat \ {0}  BY <1>i, <2>4
    <3>2. PICK u : u = PushBack(r, HudCapacity, e)  OBVIOUS
    <3>3. /\ u \in Seq(Record) /\ NumbersIn(u) \subseteq NumbersIn(r) \cup {e.n}
          /\ Ascending(r) /\ Before(NumbersIn(r), {e.n}) => Ascending(u)
      BY <3>1, <3>2, OfPushBack
    <3>. QED  BY <3>2, <3>3
  <2>6. /\ conns' = [conns EXCEPT ![c].pipe = q] /\ hud' = [hud EXCEPT ![h].ring = u]
        /\ ring' = ring /\ worker' = worker /\ pushed' = pushed
    BY <1>8, <2>1, <2>2, <2>3, <2>4, <2>5 DEF ReadLine, threadVars
  <2>7. Len(q) <= PipeCapacity  BY <2>2, <2>3, LenProperties, TelemetryAssumption
  <2>8. conns'[c].pipe = q /\ \A d \in DOMAIN conns : d # c => conns'[d] = conns[d]
    BY <2>6, <2>7, OnePipe DEF IInv
  <2>9. hud'[h].conn = c /\ hud'[h].ring = u /\ \A g \in Huds : g # h => hud'[g] = hud[g]
    BY <1>i, <2>1, <2>6
  <2>10. \A g \in Huds : g # h => hud[g].conn # c
    BY <1>o, <2>1, ConnectionOf
  <2>11. \A g \in Huds : g # h => hud'[g] = hud[g] /\ Pipe(g)' = Pipe(g)
    BY <2>8, <2>9, <2>10, OtherPipes
  <2>12. Pipe(h)' = q  BY <2>8, <2>9 DEF Pipe
  <2>13. Ascending(r) /\ Before(NumbersIn(r), NumbersIn(p))  BY <1>a, <2>2, <2>4
  <2>14. Before(NumbersIn(r), {e.n}) /\ Before(NumbersIn(r), NumbersIn(q))
    BY <2>3, <2>13 DEF Before
  <2>15. Ascending(u) /\ Before(NumbersIn(u), NumbersIn(q))
    BY <2>3, <2>5, <2>13, <2>14 DEF Before
  <2>16. Held(h)' \subseteq Held(h)  BY <2>2, <2>3, <2>4, <2>5, <2>9, <2>12 DEF Held
  <2>17. \A g \in Huds : g # h => /\ hud'[g].conn # 0 => hud'[g].conn # hud'[h].conn
                                  /\ hud'[h].conn # 0 => hud'[h].conn # hud'[g].conn
    BY <1>o, <2>1, <2>9
  <2>. QED  BY <2>3, <2>6, <2>9, <2>11, <2>12, <2>15, <2>16, <2>17, TakesFrom
<1>9. ASSUME NEW h \in Huds, End(h)  PROVE Queued' /\ Arrived' /\ OwnRecords'
  <2>1. PICK c \in 1 .. Len(conns) : c = hud[h].conn  BY <1>9, ConnectionOf DEF End
  <2>2. /\ conns' = [conns EXCEPT ![c] = [open |-> FALSE, pipe |-> <<>>]]
        /\ hud' = [hud EXCEPT ![h] = [conn |-> 0, ring |-> <<>>]]
        /\ ring' = ring /\ worker' = worker /\ pushed' = pushed
    BY <1>9, <2>1 DEF End, threadVars
  <2>3. \A d \in DOMAIN conns : d # c => conns'[d] = conns[d]
    <3>1. conns \in Seq(Channel)  BY DEF IInv, TypeOK, Channel
    <3>2. PICK e \in Channel : e = [open |-> FALSE, pipe |-> <<>>]  BY EmptySeq DEF Channel
    <3>3. conns' = [conns EXCEPT ![c] = e]  BY <2>2, <3>2
    <3>4. \A d \in 1 .. Len(conns) : conns'[d] = IF d = c THEN e ELSE conns[d]
      BY <3>1, <3>3, ExceptSeq
    <3>. QED  BY <3>4, ConnectionOf
  <2>4. hud'[h].conn = 0 /\ hud'[h].ring = <<>> /\ \A g \in Huds : g # h => hud'[g] = hud[g]
    BY <1>i, <2>2
  <2>5. \A g \in Huds : g # h => hud[g].conn # c  BY <1>o, <2>1, ConnectionOf
  <2>6. \A g \in Huds : g # h => hud'[g] = hud[g] /\ Pipe(g)' = Pipe(g)
    BY <2>3, <2>4, <2>5, OtherPipes
  <2>7. Pipe(h)' = <<>>  BY <2>4 DEF Pipe
  <2>8. Held(h)' \subseteq Held(h)  BY <1>e, <2>4, <2>7 DEF Held
  <2>9. \A g \in Huds : g # h => /\ hud'[g].conn # 0 => hud'[g].conn # hud'[h].conn
                                 /\ hud'[h].conn # 0 => hud'[h].conn # hud'[g].conn
    BY <2>4
  <2>10. /\ Ascending(hud'[h].ring) /\ Ascending(Pipe(h)')
         /\ Before(NumbersIn(hud'[h].ring), NumbersIn(Pipe(h)'))
    BY <1>e, <2>4, <2>7
  <2>. QED  BY <2>2, <2>6, <2>8, <2>9, <2>10, TakesFrom
<1>10. CASE UNCHANGED vars
  <2>1. StreamStays /\ pushed' = pushed  BY <1>10 DEF vars, threadVars, StreamStays
  <2>. QED  BY <2>1, StreamKept
<1>. QED
  BY <1>1, <1>2, <1>3, <1>4, <1>5, <1>6, <1>7, <1>8, <1>9, <1>10 DEF Next, Presenting, Serve

-----------------------------------------------------------------------------
(* One thread presents: the count it reads is the number of its record      *)

LEMMA NumberStep ==
  ASSUME IInv, [Next]_vars
  PROVE  Numbered'
<1>0. presenters' = presenters /\ (Alone' => Alone)
  <2>1. presenters' = presenters  BY PresentersStay
  <2>. QED  BY <2>1 DEF Alone
<1>. SUFFICES ASSUME Alone'
     PROVE  /\ Exact(ring') /\ Exact(worker'.batch)
            /\ \A c \in DOMAIN conns' : Exact(conns'[c].pipe)
            /\ \A h \in Huds : Exact(hud'[h].ring)
            /\ \A t \in Threads : InCall(t, "indexed")' => call'[t].rec.frame = pushed' + 1
  BY DEF Numbered
<1>n. /\ Exact(ring) /\ Exact(worker.batch)
      /\ \A c \in DOMAIN conns : Exact(conns[c].pipe)
      /\ \A h \in Huds : Exact(hud[h].ring)
      /\ \A t \in Threads : InCall(t, "indexed") => call[t].rec.frame = pushed + 1
  BY <1>0 DEF IInv, Numbered
<1>i. /\ worker \in [step : {"accept", "check", "wait", "write"}, conn : Nat, served : Nat,
                     batch : Seq(Record)]
      /\ hud \in [Huds -> [conn : Nat, ring : Seq(Record)]]
      /\ \A g \in Huds : Len(hud[g].ring) <= HudCapacity
      /\ ring \in Seq(Record) /\ Len(ring) <= RingCapacity
      /\ {RingCapacity, HudCapacity} \subseteq Nat \ {0}
      /\ pushed \in Nat
      /\ call \in [Threads -> [step : {"idle", "counted", "stamped", "indexed", "pushed"}, rec : Record]]
  BY Limits, TelemetryAssumption DEF IInv, Shape, TypeOK, Frame
<1>e. Exact(<<>>)  BY OfEmpty
<1>p. PICK t0 \in Threads : presenters = {t0}  BY <1>0 DEF Alone
<1>a. Active \subseteq {t0}  BY <1>p DEF IInv, Counted
<1>1. ASSUME NEW t \in Threads, Present(t) \/ Stamp(t) \/ ReadFrames(t) \/ NotifyOne(t)
      PROVE  /\ UNCHANGED <<ring, conns, hud>> /\ worker'.batch = worker.batch
             /\ \A u \in Threads : InCall(u, "indexed")' => call'[u].rec.frame = pushed' + 1
  <2>1. UNCHANGED <<ring, conns, hud, pushed>> /\ worker'.batch = worker.batch
    BY <1>1, <1>i DEF Present, Stamp, ReadFrames, NotifyOne
  <2>2. ASSUME NEW u \in Threads, InCall(u, "indexed")'  PROVE call'[u].rec.frame = pushed' + 1
    <3>1. CASE Present(t) \/ Stamp(t) \/ NotifyOne(t)
      <4>1. call'[u] = call[u]
        BY <1>i, <2>2, <3>1 DEF Present, Stamp, NotifyOne, Enter, InCall, Idle
      <4>. QED  BY <1>n, <2>1, <2>2, <4>1 DEF InCall
    <3>2. CASE ReadFrames(t)
      <4>1. call' = [call EXCEPT ![t] = [step |-> "indexed", rec |-> [call[t].rec EXCEPT !.frame = frames]]]
            /\ call[t].step = "stamped"
        BY <3>2 DEF ReadFrames, Enter, InCall
      <4>2. CASE u # t
        BY <1>i, <1>n, <2>1, <2>2, <4>1, <4>2 DEF InCall
      <4>3. CASE u = t
        <5>1. Active = {t} /\ pushed + Cardinality(Active) = frames
          <6>1. t \in Active  BY <4>1 DEF Active
          <6>. QED  BY <1>a, <6>1 DEF IInv, Counted
        <5>2. Cardinality(Active) = 1  BY <5>1, FS_Singleton
        <5>3. frames = pushed + 1  BY <5>1, <5>2
        <5>4. call[t].rec \in Record /\ frames \in Frame  BY <1>i DEF IInv, TypeOK
        <5>5. [call[t].rec EXCEPT !.frame = frames].frame = frames  BY <5>4, Limits
        <5>. QED  BY <1>i, <2>1, <4>1, <4>3, <5>3, <5>5
      <4>. QED  BY <4>2, <4>3
    <3>. QED  BY <1>1, <3>1, <3>2
  <2>. QED  BY <2>1, <2>2
<1>2. ASSUME NEW t \in Threads, Push(t)
      PROVE  /\ UNCHANGED <<worker, conns, hud>> /\ Exact(ring')
             /\ \A u \in Threads : InCall(u, "indexed")' => call'[u].rec.frame = pushed' + 1
  <2>1. PICK r \in Record : r = [call[t].rec EXCEPT !.n = pushed + 1] /\ r.frame = r.n
    <3>1. call[t].rec \in Record /\ pushed + 1 \in Frame
      BY <1>2, RoomToPush DEF IInv, TypeOK, Push
    <3>2. call[t].rec.frame = pushed + 1  BY <1>2, <1>n DEF Push
    <3>3. PICK r \in Record : r = [call[t].rec EXCEPT !.n = pushed + 1]
      BY <3>1, Limits
    <3>4. r.n = pushed + 1 /\ r.frame = call[t].rec.frame  BY <3>1, <3>3, Limits
    <3>. QED  BY <3>2, <3>3, <3>4
  <2>2. /\ ring' = PushBack(ring, RingCapacity, r) /\ UNCHANGED <<worker, conns, hud>>
        /\ call' = [call EXCEPT ![t] = [step |-> "pushed", rec |-> Blank]] /\ call[t].step = "indexed"
    BY <1>2, <2>1 DEF Push, Enter, InCall
  <2>3. Exact(ring')  BY <1>i, <1>n, <2>1, <2>2, OfPushBack
  <2>4. \A u \in Threads : ~InCall(u, "indexed")'
    <3>1. ASSUME NEW u \in Threads, u # t  PROVE call[u].step # "indexed"
      <4>1. t \in Active  BY <2>2 DEF Active
      <4>2. u \notin Active  BY <1>a, <3>1, <4>1
      <4>. QED  BY <4>2 DEF Active
    <3>. QED  BY <1>i, <2>2, <3>1 DEF InCall
  <2>. QED  BY <2>2, <2>3, <2>4
<1>3. ASSUME Accept \/ Wait \/ BatchWritten \/ Drain \/ WriteFails
      PROVE  /\ UNCHANGED <<threadVars, conns, hud>> /\ Exact(ring') /\ Exact(worker'.batch)
  <2>1. CASE Accept \/ Wait \/ BatchWritten
    BY <1>i, <1>n, <2>1 DEF Accept, Wait, BatchWritten
  <2>2. CASE Drain
    BY <1>e, <1>i, <1>n, <2>2 DEF Drain, LeftByDrain
  <2>3. CASE WriteFails
    BY <1>e, <1>i, <1>n, <2>3 DEF WriteFails
  <2>. QED  BY <1>3, <2>1, <2>2, <2>3
<1>4. ASSUME WriteRecord
      PROVE  /\ UNCHANGED <<threadVars, ring, hud>> /\ Exact(worker'.batch)
             /\ \A c \in DOMAIN conns' : Exact(conns'[c].pipe)
  <2>1. PICK c \in 1 .. Len(conns) : c = worker.conn
    BY <1>4, ConnectionOf DEF WriteRecord
  <2>2. PICK b \in Seq(Record) : b = worker.batch /\ b # <<>>  BY <1>4, <1>i DEF WriteRecord
  <2>3. PICK e \in Record, q \in Seq(Record) :
          e = Head(b) /\ q = Tail(b) /\ Exact(q) /\ e.frame = e.n
    BY <1>n, <2>2, OfTail
  <2>4. PICK p \in Seq(Record) : p = conns[c].pipe /\ Exact(p)  BY <1>n, ConnectionOf
  <2>5. /\ conns' = [conns EXCEPT ![c].pipe = Append(p, e)] /\ worker' = [worker EXCEPT !.batch = q]
        /\ Len(p) < PipeCapacity /\ UNCHANGED <<threadVars, ring, hud>>
    BY <1>4, <2>1, <2>2, <2>3, <2>4 DEF WriteRecord
  <2>6. Append(p, e) \in Seq(Record) /\ Exact(Append(p, e)) /\ Len(Append(p, e)) <= PipeCapacity
    <3>1. Len(p) \in Nat /\ PipeCapacity \in Nat  BY LenProperties, TelemetryAssumption
    <3>2. Len(Append(p, e)) = Len(p) + 1  BY OfAppend
    <3>3. Len(p) + 1 <= PipeCapacity  BY <2>5, <3>1
    <3>. QED  BY <2>3, <2>4, <3>2, <3>3, OfAppend
  <2>7. /\ conns'[c].pipe = Append(p, e) /\ DOMAIN conns' = DOMAIN conns
        /\ \A d \in DOMAIN conns : d # c => conns'[d] = conns[d]
    BY <2>5, <2>6, OnePipe DEF IInv
  <2>. QED  BY <1>i, <1>n, <2>3, <2>5, <2>6, <2>7
<1>5. ASSUME NEW h \in Huds, Connect(h)
      PROVE  /\ UNCHANGED <<threadVars, ring, worker>>
             /\ \A c \in DOMAIN conns' : Exact(conns'[c].pipe)
             /\ \A g \in Huds : Exact(hud'[g].ring)
  <2>1. PICK k \in Nat : k = Len(conns)  BY ConnectionOf
  <2>2. PICK e \in Channel : e = [open |-> TRUE, pipe |-> <<>>]  BY EmptySeq DEF Channel
  <2>3. /\ conns' = Append(conns, e) /\ hud' = [hud EXCEPT ![h].conn = k + 1]
        /\ UNCHANGED <<threadVars, ring, worker>>
    BY <1>5, <2>1, <2>2 DEF Connect
  <2>4. /\ conns' \in Seq(Channel) /\ DOMAIN conns' = 1 .. k + 1 /\ DOMAIN conns = 1 .. k
        /\ conns'[k + 1] = e /\ \A d \in 1 .. k : conns'[d] = conns[d]
    <3>1. conns \in Seq(Channel)  BY DEF IInv, TypeOK, Channel
    <3>. QED  BY <2>1, <2>3, <3>1, AppendProperties, LenProperties
  <2>5. \A d \in 1 .. k + 1 : d \in 1 .. k \/ d = k + 1  BY <2>1
  <2>6. \A c \in DOMAIN conns' : Exact(conns'[c].pipe)
    BY <1>e, <1>n, <2>2, <2>4, <2>5
  <2>7. \A g \in Huds : hud'[g].ring = hud[g].ring  BY <1>i, <2>3
  <2>. QED  BY <1>n, <2>3, <2>6, <2>7
<1>6. ASSUME NEW h \in Huds, ReadLine(h)
      PROVE  /\ UNCHANGED <<threadVars, ring, worker>>
             /\ \A c \in DOMAIN conns' : Exact(conns'[c].pipe)
             /\ \A g \in Huds : Exact(hud'[g].ring)
  <2>1. PICK c \in 1 .. Len(conns) : c = hud[h].conn  BY <1>6, ConnectionOf DEF ReadLine
  <2>2. PICK p \in Seq(Record) : p = conns[c].pipe /\ p # <<>> /\ Len(p) <= PipeCapacity /\ Exact(p)
    BY <1>6, <1>n, <2>1, ConnectionOf DEF ReadLine
  <2>3. PICK e \in Record, q \in Seq(Record) :
          e = Head(p) /\ q = Tail(p) /\ Exact(q) /\ e.frame = e.n /\ Len(q) = Len(p) - 1
    BY <2>2, OfTail
  <2>4. PICK r \in Seq(Record) : r = hud[h].ring /\ Exact(r)  BY <1>i, <1>n
  <2>5. PICK u : u = PushBack(r, HudCapacity, e) /\ Exact(u)
    <3>1. Len(r) <= HudCapacity /\ HudCapacity \in Nat \ {0}  BY <1>i, <2>4
    <3>2. PICK u : u = PushBack(r, HudCapacity, e)  OBVIOUS
    <3>3. Exact(u)  BY <2>3, <2>4, <3>1, <3>2, OfPushBack
    <3>. QED  BY <3>2, <3>3
  <2>6. /\ conns' = [conns EXCEPT ![c].pipe = q] /\ hud' = [hud EXCEPT ![h].ring = u]
        /\ UNCHANGED <<threadVars, ring, worker>>
    BY <1>6, <2>1, <2>2, <2>3, <2>4, <2>5 DEF ReadLine
  <2>7. Len(q) <= PipeCapacity  BY <2>2, <2>3, LenProperties, TelemetryAssumption
  <2>8. /\ conns'[c].pipe = q /\ DOMAIN conns' = DOMAIN conns
        /\ \A d \in DOMAIN conns : d # c => conns'[d] = conns[d]
    BY <2>6, <2>7, OnePipe DEF IInv
  <2>9. hud'[h].ring = u /\ \A g \in Huds : g # h => hud'[g] = hud[g]  BY <1>i, <2>6
  <2>. QED  BY <1>n, <2>3, <2>5, <2>6, <2>8, <2>9
<1>7. ASSUME NEW h \in Huds, End(h)
      PROVE  /\ UNCHANGED <<threadVars, ring, worker>>
             /\ \A c \in DOMAIN conns' : Exact(conns'[c].pipe)
             /\ \A g \in Huds : Exact(hud'[g].ring)
  <2>1. PICK c \in 1 .. Len(conns) : c = hud[h].conn  BY <1>7, ConnectionOf DEF End
  <2>2. PICK e \in Channel : e = [open |-> FALSE, pipe |-> <<>>] /\ Len(e.pipe) = 0
    <3>1. <<>> \in Seq(Record) /\ Len(<<>>) = 0  BY EmptySeq
    <3>2. PICK e : e = [open |-> FALSE, pipe |-> <<>>]  OBVIOUS
    <3>3. e \in Channel /\ e.pipe = <<>>  BY <3>1, <3>2 DEF Channel
    <3>. QED  BY <3>1, <3>2, <3>3
  <2>3. /\ conns' = [conns EXCEPT ![c] = e] /\ hud' = [hud EXCEPT ![h] = [conn |-> 0, ring |-> <<>>]]
        /\ UNCHANGED <<threadVars, ring, worker>>
    BY <1>7, <2>1, <2>2 DEF End
  <2>4. /\ conns'[c] = e /\ DOMAIN conns' = DOMAIN conns
        /\ \A d \in DOMAIN conns : d # c => conns'[d] = conns[d]
    <3>1. Len(e.pipe) <= PipeCapacity  BY <2>2, TelemetryAssumption
    <3>. QED  BY <2>3, <3>1, OneConnection DEF IInv
  <2>5. hud'[h].ring = <<>> /\ \A g \in Huds : g # h => hud'[g] = hud[g]  BY <1>i, <2>3
  <2>. QED  BY <1>e, <1>n, <2>2, <2>3, <2>4, <2>5
<1>8. ASSUME UNCHANGED threadVars
      PROVE  \A u \in Threads : InCall(u, "indexed")' => call'[u].rec.frame = pushed' + 1
  BY <1>8, <1>n DEF threadVars, InCall
<1>9. CASE \E t \in Threads : Present(t) \/ Presenting(t)
  BY <1>1, <1>2, <1>9, <1>n DEF Presenting
<1>10. CASE Serve
  BY <1>3, <1>4, <1>8, <1>10, <1>n DEF Serve
<1>11. CASE \E h \in Huds : Connect(h) \/ ReadLine(h) \/ End(h)
  BY <1>5, <1>6, <1>7, <1>8, <1>11, <1>n
<1>12. CASE UNCHANGED vars
  BY <1>8, <1>12, <1>n DEF vars
<1>. QED  BY <1>9, <1>10, <1>11, <1>12 DEF Next

-----------------------------------------------------------------------------
(* The invariant and what follows from it                                   *)

LEMMA StartsRight ==
  ASSUME Init
  PROVE  IInv
<1>1. FrameLimit \in Nat /\ Blank \in Record  BY Limits
<1>2. TypeOK
  <2>1. /\ presenters \in Presenters /\ clock \in Time /\ frames \in Frame /\ pushed \in 0 .. frames
        /\ ring \in Seq(Record) /\ Len(ring) <= RingCapacity
    BY <1>1, TelemetryAssumption, EmptySeq DEF Init, Time, Frame
  <2>2. call \in [Threads -> [step : {"idle", "counted", "stamped", "indexed", "pushed"}, rec : Record]]
    BY <1>1 DEF Init, Idle
  <2>3. Len(conns) = 0 /\ conns \in Seq([open : BOOLEAN, pipe : Seq(Record)]) /\ DOMAIN conns = {}
    BY EmptySeq DEF Init
  <2>4. Len(conns) <= MaxConnections  BY <2>3, TelemetryAssumption
  <2>5. /\ worker.step = "accept" /\ worker.conn = 0 /\ worker.batch = <<>> /\ <<>> \in Seq(Record)
    BY EmptySeq DEF Init
  <2>6. ASSUME NEW h \in Huds
        PROVE  hud[h].conn = 0 /\ hud[h].ring \in Seq(Record) /\ Len(hud[h].ring) <= HudCapacity
    <3>1. hud[h].conn = 0 /\ hud[h].ring = <<>>  BY DEF Init
    <3>2. <<>> \in Seq(Record) /\ Len(<<>>) = 0  BY EmptySeq
    <3>3. 0 <= HudCapacity  BY TelemetryAssumption
    <3>. QED  BY <3>1, <3>2, <3>3
  <2>. QED  BY <2>1, <2>2, <2>3, <2>4, <2>5, <2>6 DEF TypeOK
<1>3. Shape
  <2>1. <<>> \in Seq(Record) /\ Len(<<>>) = 0  BY EmptySeq
  <2>. QED  BY <2>1 DEF Init, Shape
<1>4. Counted
  <2>1. Active = {}  BY DEF Init, Idle, Active
  <2>. QED  BY <2>1, FS_EmptySet DEF Init, Counted
<1>5. NumbersIn(<<>>) = {} /\ Ascending(<<>>) /\ Exact(<<>>) /\ \A A : Before({}, A)
  BY OfEmpty DEF Before
<1>6. \A h \in Huds : hud[h].conn = 0 /\ hud[h].ring = <<>> /\ Pipe(h) = <<>>
  BY DEF Init, Pipe
<1>7. Queued  BY <1>5 DEF Init, Queued
<1>8. Arrived  BY <1>5, <1>6 DEF Arrived, Held
<1>9. OwnRecords  BY <1>5, <1>6 DEF OwnRecords, Held
<1>10. Numbered
  <2>1. DOMAIN conns = {}  BY DEF Init
  <2>. QED  BY <1>5, <1>6, <2>1 DEF Init, Numbered, Idle, InCall
<1>. QED  BY <1>2, <1>3, <1>4, <1>7, <1>8, <1>9, <1>10 DEF IInv

THEOREM Invariance == Spec => []IInv
<1>1. Init => IInv  BY StartsRight
<1>2. IInv /\ [Next]_vars => IInv'
  BY TypeStep, CountStep, StreamStep, NumberStep DEF IInv
<1>. QED  BY <1>1, <1>2, PTL DEF Spec

\* The variables have their types; no ring and no pipe is fuller than it may be.
THEOREM TypeCorrect == Spec => []TypeOK
<1>1. IInv => TypeOK  BY DEF IInv
<1>. QED  BY <1>1, Invariance, PTL

LEMMA IncreasingIs ==
  ASSUME NEW s
  PROVE  Increasing(Numbers(s)) <=> Ascending(s)
BY DEF Increasing, Numbers, Ascending

LEMMA NumbersAre ==
  ASSUME NEW s \in Seq(Record)
  PROVE  ToSet(Numbers(s)) = NumbersIn(s)
BY DEF ToSet, Numbers, NumbersIn

\* serve_client gives each record once, to one client, in the order in which
\* push_record took them, and run of reader.rs keeps that order: what a HUD
\* has, what is on its way to it and what is still to come is one ascending
\* sequence, and no two HUDs have a record in common.
THEOREM InOrder == Spec => []StreamInOrder
<1>1. ASSUME IInv  PROVE StreamInOrder
  <2>1. ASSUME NEW h \in Huds
        PROVE  /\ HeldBy(h) \in Seq(Record) /\ NumbersIn(HeldBy(h)) = Held(h) /\ Ascending(HeldBy(h))
               /\ Before(Held(h), NumbersIn(worker.batch)) /\ Before(Held(h), NumbersIn(ring))
    <3>1. /\ Ascending(hud[h].ring) /\ Ascending(Pipe(h))
          /\ Before(NumbersIn(hud[h].ring), NumbersIn(Pipe(h)))
          /\ Before(Held(h), NumbersIn(worker.batch)) /\ Before(Held(h), NumbersIn(ring))
      BY <1>1 DEF IInv, Arrived
    <3>2. hud[h].ring \in Seq(Record) /\ Pipe(h) \in Seq(Record)
      BY <1>1, ConnectionOf, EmptySeq DEF IInv, TypeOK, Pipe
    <3>3. HeldBy(h) = hud[h].ring \o Pipe(h)  BY DEF HeldBy, Pipe
    <3>. QED  BY <3>1, <3>2, <3>3, OfConcat DEF Held
  <2>2. ASSUME NEW h \in Huds
        PROVE  Increasing(Numbers(HeldBy(h)
                 \o (IF hud[h].conn # 0 /\ hud[h].conn = worker.conn THEN worker.batch ELSE <<>>) \o ring))
    <3>1. PICK b \in Seq(Record) :
            /\ b = IF hud[h].conn # 0 /\ hud[h].conn = worker.conn THEN worker.batch ELSE <<>>
            /\ Ascending(b) /\ Before(Held(h), NumbersIn(b)) /\ Before(NumbersIn(b), NumbersIn(ring))
      <4>1. Before(Held(h), {}) /\ Before({}, NumbersIn(ring)) /\ NumbersIn(<<>>) = {}
            /\ Ascending(<<>>) /\ <<>> \in Seq(Record)
        BY OfEmpty, EmptySeq DEF Before
      <4>2. worker.batch \in Seq(Record) /\ Ascending(worker.batch)
            /\ Before(NumbersIn(worker.batch), NumbersIn(ring))
        BY <1>1 DEF IInv, TypeOK, Queued
      <4>. QED  BY <2>1, <4>1, <4>2
    <3>2. PICK s \in Seq(Record) : /\ s = HeldBy(h) \o b /\ Ascending(s)
                                   /\ NumbersIn(s) = Held(h) \cup NumbersIn(b)
      <4>1. PICK a \in Seq(Record) : a = HeldBy(h)  BY <2>1
      <4>2. NumbersIn(a) = Held(h) /\ Ascending(a)  BY <2>1, <4>1
      <4>3. /\ a \o b \in Seq(Record) /\ Ascending(a \o b)
            /\ NumbersIn(a \o b) = Held(h) \cup NumbersIn(b)
        <5>1. Before(NumbersIn(a), NumbersIn(b)) /\ Ascending(b)  BY <3>1, <4>2
        <5>. QED  BY <4>2, <5>1, OfConcat
      <4>. QED  BY <4>1, <4>3
    <3>3. Before(NumbersIn(s), NumbersIn(ring))  BY <2>1, <3>1, <3>2 DEF Before
    <3>4. ring \in Seq(Record) /\ Ascending(ring)  BY <1>1 DEF IInv, TypeOK, Queued
    <3>5. Ascending(s \o ring)  BY <3>2, <3>3, <3>4, OfConcat
    <3>. QED  BY <3>1, <3>2, <3>5, IncreasingIs
  <2>3. ASSUME NEW g \in Huds, NEW h \in Huds, g # h
        PROVE  ToSet(Numbers(HeldBy(g))) \cap ToSet(Numbers(HeldBy(h))) = {}
    <3>1. Held(g) \cap Held(h) = {}  BY <1>1, <2>3 DEF IInv, OwnRecords
    <3>. QED  BY <2>1, <3>1, NumbersAre
  <2>. QED  BY <2>2, <2>3 DEF StreamInOrder
<1>. QED  BY <1>1, Invariance, PTL

-----------------------------------------------------------------------------
(* The drops that the HUD counts: induction over its ring, by the least      *)
(* counterexample.                                                          *)

\* A non-empty set of naturals has a least element.
LEMMA LeastNatural ==
  ASSUME NEW S \in SUBSET Nat, S # {}
  PROVE  \E m \in S : \A n \in S : m <= n
<1>1. \E m \in S : \A n \in S : ~ (<<n, m>> \in OpToRel(<, Nat))
  BY NatLessThanWellFounded, WFMin
<1>2. PICK m \in S : \A n \in S : ~ (<<n, m>> \in OpToRel(<, Nat))  BY <1>1
<1>3. \A n \in S : <<n, m>> \in OpToRel(<, Nat) <=> n < m
  BY DEF OpToRel
<1>4. \A n \in S : ~ (n < m)  BY <1>2, <1>3, Zenon
<1>. QED  BY <1>4

\* A set of naturals with 0 and the successor of each of its members holds all.
LEMMA NatSetInduction ==
  ASSUME NEW S, NEW N \in Nat, 0 \in S, \A i \in 0 .. N - 1 : i \in S => i + 1 \in S
  PROVE  \A i \in 0 .. N : i \in S
<1> DEFINE B == {i \in 0 .. N : i \notin S}
<1>1. SUFFICES ASSUME B # {} PROVE FALSE
  OBVIOUS
<1>2. PICK m \in B : \A i \in B : m <= i
  <2>1. B \in SUBSET Nat  OBVIOUS
  <2>. HIDE DEF B
  <2>. QED  BY <1>1, <2>1, LeastNatural
<1>3. m \in 1 .. N /\ m - 1 \in 0 .. N - 1 /\ m \notin S  BY <1>2
<1>4. m - 1 \in S  BY <1>2, <1>3
<1>5. (m - 1) + 1 \in S  BY <1>3, <1>4
<1>. QED  BY <1>3, <1>5

\* A state that is folded over N steps: the recursion has a solution.
Folds(f, n, S, b, F) == f \in [0 .. n -> S] /\ f[0] = b /\ \A i \in 1 .. n : f[i] = F[i][f[i - 1]]

LEMMA RecursionExists ==
  ASSUME NEW N \in Nat, NEW S, NEW b \in S, NEW F \in [1 .. N -> [S -> S]]
  PROVE  \E f : Folds(f, N, S, b, F)
<1> DEFINE Upto(n, f) == f \in [0 .. n -> S] /\ f[0] = b /\ \A i \in 1 .. n : f[i] = F[i][f[i - 1]]
           G == {n \in 0 .. N : \E f : Upto(n, f)}
<1>1. 0 \in G
  <2>1. Upto(0, [i \in 0 .. 0 |-> b])  OBVIOUS
  <2>. HIDE DEF Upto
  <2>. QED  BY <2>1
<1>2. ASSUME NEW n \in 0 .. N - 1, n \in G  PROVE n + 1 \in G
  <2>1. PICK f : Upto(n, f)  BY <1>2
  <2>2. n + 1 \in 1 .. N /\ n \in 0 .. n /\ n + 1 \notin 0 .. n  BY <1>2
  <2>3. F[n + 1] \in [S -> S] /\ f[n] \in S  BY <2>1, <2>2
  <2>4. PICK e \in S : e = F[n + 1][f[n]]  BY <2>3
  <2> DEFINE g == [i \in 0 .. n + 1 |-> IF i = n + 1 THEN e ELSE f[i]]
  <2>5. g \in [0 .. n + 1 -> S] /\ g[0] = b  BY <2>1, <2>2
  <2>6. ASSUME NEW i \in 1 .. n + 1  PROVE g[i] = F[i][g[i - 1]]
    <3>1. CASE i = n + 1
      <4>1. g[i] = e /\ g[i - 1] = f[n]  BY <2>2, <3>1
      <4>. QED  BY <2>4, <3>1, <4>1
    <3>2. CASE i \in 1 .. n
      <4>1. g[i] = f[i] /\ g[i - 1] = f[i - 1]  BY <2>2, <3>2
      <4>. QED  BY <2>1, <3>2, <4>1
    <3>. QED  BY <3>1, <3>2
  <2>7. Upto(n + 1, g)  BY <2>5, <2>6
  <2>. HIDE DEF Upto, g
  <2>. QED  BY <2>2, <2>7
<1>3. N \in G
  <2>. HIDE DEF G
  <2>1. \A i \in 0 .. N - 1 : i \in G => i + 1 \in G  BY <1>2
  <2>2. \A i \in 0 .. N : i \in G  BY <1>1, <2>1, NatSetInduction
  <2>. QED  BY <2>2
<1>4. PICK f : Upto(N, f)  BY <1>3
<1>. QED  BY <1>4 DEF Folds

\* The counter of recompute_cache: one more gap for each record but the first.
LEMMA DropsAre ==
  ASSUME NEW r \in Seq(Record), NEW N \in Nat, N = Len(r)
  PROVE  \E upto \in [0 .. N -> Nat] :
           /\ Drops(r) = upto[N] /\ upto[0] = 0
           /\ \A i \in 1 .. N : upto[i] = IF i < 2 THEN 0 ELSE upto[i - 1] + Gap(r[i - 1], r[i])
<1> DEFINE Add(i, w) == IF i < 2 THEN 0 ELSE w + Gap(r[i - 1], r[i])
           F == [i \in 1 .. N |-> [w \in Nat |-> Add(i, w)]]
           Step(f) == [i \in 0 .. N |-> IF i < 2 THEN 0 ELSE f[i - 1] + Gap(r[i - 1], r[i])]
<1>1. ASSUME NEW i \in 1 .. N, NEW w \in Nat  PROVE Add(i, w) \in Nat
  <2>1. CASE i < 2  BY <2>1
  <2>2. CASE ~(i < 2)
    <3>1. i - 1 \in 1 .. N  BY <2>2
    <3>2. r[i - 1] \in Record /\ r[i] \in Record  BY <3>1, ElementOfSeq
    <3>3. PICK a \in Nat, b \in Nat : a = r[i - 1].frame /\ b = r[i].frame  BY <3>2, Limits
    <3>4. Gap(r[i - 1], r[i]) \in Nat  BY <3>3 DEF Gap
    <3>. QED  BY <3>4
  <2>. QED  BY <2>1, <2>2
<1>2. F \in [1 .. N -> [Nat -> Nat]]
  <2>. HIDE DEF Add
  <2>. QED  BY <1>1
<1>3. PICK f \in [0 .. N -> Nat] : f[0] = 0 /\ \A i \in 1 .. N : f[i] = F[i][f[i - 1]]
  <2>. HIDE DEF F
  <2>1. PICK S : S = Nat  OBVIOUS
  <2>2. PICK e \in S : e = 0  BY <2>1
  <2>3. F \in [1 .. N -> [S -> S]]  BY <1>2, <2>1
  <2>4. PICK f : Folds(f, N, S, e, F)  BY <2>3, RecursionExists
  <2>. QED  BY <2>1, <2>2, <2>4 DEF Folds
<1>4. ASSUME NEW i \in 1 .. N  PROVE f[i] = Add(i, f[i - 1])
  <2>1. f[i - 1] \in Nat  OBVIOUS
  <2>. HIDE DEF Add
  <2>. QED  BY <1>3, <2>1
<1>5. f = Step(f)
  <2>1. ASSUME NEW i \in 0 .. N  PROVE f[i] = IF i < 2 THEN 0 ELSE f[i - 1] + Gap(r[i - 1], r[i])
    <3>1. CASE i = 0  BY <1>3, <3>1
    <3>2. CASE i \in 1 .. N  BY <1>4, <3>2
    <3>. QED  BY <3>1, <3>2
  <2>. QED  BY <2>1
<1>6. PICK u : u = CHOOSE g : g = Step(g)  OBVIOUS
<1>7. Drops(r) = u[N]  BY <1>6 DEF Drops
<1>8. u = Step(u)
  <2>. HIDE DEF Step
  <2>. QED  BY <1>5, <1>6
<1>9. u[0] = 0 /\ \A i \in 1 .. N : u[i] = Add(i, u[i - 1])
  <2>1. \A i \in 0 .. N : u[i] = IF i < 2 THEN 0 ELSE u[i - 1] + Gap(r[i - 1], r[i])
    BY <1>8
  <2>. QED  BY <2>1
<1>10. \A i \in 0 .. N : u[i] \in Nat
  <2> DEFINE T == {i \in 0 .. N : u[i] \in Nat}
  <2>1. 0 \in T  BY <1>9
  <2>2. ASSUME NEW i \in 0 .. N - 1, i \in T  PROVE i + 1 \in T
    <3>1. i + 1 \in 1 .. N /\ (i + 1) - 1 = i /\ u[i] \in Nat  BY <2>2
    <3>. HIDE DEF Add
    <3>2. u[i + 1] = Add(i + 1, u[i])  BY <1>9, <3>1
    <3>3. PICK k \in 1 .. N, w \in Nat : k = i + 1 /\ w = u[i]  BY <3>1
    <3>4. Add(k, w) \in Nat  BY <1>1
    <3>. QED  BY <3>1, <3>2, <3>3, <3>4
  <2>3. \A i \in 0 .. N : i \in T
    <3>. HIDE DEF T
    <3>1. \A i \in 0 .. N - 1 : i \in T => i + 1 \in T  BY <2>2
    <3>. QED  BY <2>1, <3>1, NatSetInduction
  <2>. QED  BY <2>3
<1>11. u \in [0 .. N -> Nat]
  <2>1. PICK v : v = u /\ v = Step(v)  BY <1>8
  <2>. QED  BY <1>10, <2>1
<1>. QED  BY <1>7, <1>9, <1>11

LEMMA GapsTelescope ==
  ASSUME NEW r \in Seq(Record), r # <<>>, Ascending(r), Exact(r)
  PROVE  Drops(r) = r[Len(r)].n - r[1].n + 1 - Len(r)
<1>1. PICK N \in Nat : N = Len(r) /\ N # 0  BY LenProperties, EmptySeq
<1>2. PICK upto \in [0 .. N -> Nat] :
        /\ Drops(r) = upto[N]
        /\ \A i \in 1 .. N : upto[i] = IF i < 2 THEN 0 ELSE upto[i - 1] + Gap(r[i - 1], r[i])
  BY <1>1, DropsAre
<1>3. \A i \in 1 .. N : r[i].n \in Nat /\ r[i].frame = r[i].n
  <2>1. \A i \in 1 .. N : r[i] \in Record  BY <1>1, ElementOfSeq
  <2>2. DOMAIN r = 1 .. N  BY <1>1, LenProperties
  <2>. QED  BY <2>1, <2>2, Limits DEF Exact
<1> DEFINE T == {k \in 0 .. N - 1 : upto[k + 1] = r[k + 1].n - r[1].n - k}
<1>4. 0 \in T  BY <1>1, <1>2, <1>3
<1>5. ASSUME NEW k \in 0 .. (N - 1) - 1, k \in T  PROVE k + 1 \in T
  <2>1. PICK i \in 1 .. N : i = k + 1 /\ i + 1 \in 1 .. N /\ ~(i + 1 < 2)  BY <1>1
  <2>2. upto[i + 1] = upto[i] + Gap(r[i], r[i + 1])
    <3>1. (i + 1) - 1 = i  OBVIOUS
    <3>. QED  BY <1>2, <2>1, <3>1
  <2>3. PICK a \in Nat, b \in Nat : a = r[i].n /\ b = r[i + 1].n  BY <1>3, <2>1
  <2>4. r[i].frame = a /\ r[i + 1].frame = b  BY <1>3, <2>1, <2>3
  <2>5. a < b
    <3>1. DOMAIN r = 1 .. N /\ i < i + 1  BY <1>1, LenProperties
    <3>. QED  BY <2>1, <2>3, <3>1 DEF Ascending
  <2>6. Gap(r[i], r[i + 1]) = b - a - 1
    <3>1. Gap(r[i], r[i + 1]) = IF b > a + 1 THEN b - a - 1 ELSE 0  BY <2>4 DEF Gap
    <3>2. a \in Nat /\ b \in Nat /\ a < b  BY <2>3, <2>5
    <3>. QED  BY <3>1, <3>2
  <2>7. upto[i] = a - r[1].n - k  BY <1>5, <2>1, <2>3
  <2>8. upto[i + 1] = b - r[1].n - (k + 1)
    <3>1. PICK c \in Nat : c = r[1].n  BY <1>1, <1>3
    <3>2. PICK g : g = Gap(r[i], r[i + 1]) /\ g = b - a - 1  BY <2>6
    <3>3. upto[i] = a - c - k  BY <2>7, <3>1
    <3>4. upto[i + 1] = (a - c - k) + (b - a - 1)  BY <2>2, <3>2, <3>3
    <3>5. a \in Nat /\ b \in Nat /\ c \in Nat /\ k \in Nat  BY <1>1, <2>3, <3>1
    <3>7. (a - c - k) + (b - a - 1) = b - c - (k + 1)  BY <3>5
    <3>8. upto[i + 1] = b - c - (k + 1)  BY <3>4, <3>7, Zenon
    <3>. QED  BY <3>1, <3>8
  <2>. QED  BY <1>1, <2>1, <2>3, <2>8
<1>6. \A k \in 0 .. N - 1 : k \in T
  <2>. HIDE DEF T
  <2>1. \A k \in 0 .. (N - 1) - 1 : k \in T => k + 1 \in T  BY <1>5
  <2>2. PICK M \in Nat : M = N - 1  BY <1>1
  <2>. QED  BY <1>4, <2>1, <2>2, NatSetInduction
<1>7. upto[N] = r[N].n - r[1].n - (N - 1)
  <2>1. N - 1 \in T /\ (N - 1) + 1 = N  BY <1>1, <1>6
  <2>. QED  BY <2>1
<1>8. r[N].n \in Nat /\ r[1].n \in Nat  BY <1>1, <1>3
<1>. QED  BY <1>1, <1>2, <1>7, <1>8

\* frame_gaps and recompute_cache: where one thread presents the drops that the
\* HUD counts are the records between its first and its last that it has not,
\* however large the rings are and however the records were lost.
THEOREM DropsAreLosses == Spec => []GapIsLoss
<1>1. ASSUME IInv  PROVE GapIsLoss
  <2>. SUFFICES ASSUME Alone, NEW h \in Huds, hud[h].ring # <<>>
       PROVE  LET r == hud[h].ring IN Drops(r) = Last(r).n - Head(r).n + 1 - Len(r)
    BY DEF GapIsLoss
  <2>1. PICK r \in Seq(Record) : r = hud[h].ring  BY <1>1 DEF IInv, TypeOK
  <2>2. Ascending(r) /\ Exact(r)  BY <1>1, <2>1 DEF IInv, Arrived, Numbered
  <2>3. Drops(r) = r[Len(r)].n - r[1].n + 1 - Len(r)  BY <2>1, <2>2, GapsTelescope
  <2>4. Head(r) = r[1] /\ Last(r) = r[Len(r)]  BY <2>1, HeadTailProperties DEF Last
  <2>. QED  BY <2>1, <2>3, <2>4
<1>. QED  BY <1>1, Invariance, PTL
-----------------------------------------------------------------------------
(* The sealed bins: the records are timed in the order of their pushes       *)

\* The records that the layer, the pipes and the HUDs hold.
Piped == UNION {ToSet(conns[c].pipe) : c \in DOMAIN conns}
Kept == UNION {ToSet(hud[h].ring) : h \in Huds}
Everywhere == ToSet(ring) \cup ToSet(worker.batch) \cup Piped \cup Kept

\* Where one thread presents, no record is timed before one that was pushed
\* before it, and the one it makes is timed after all of them.
Timed ==
  Alone => /\ \A a \in Everywhere : a.n <= pushed /\ a.ts <= clock
           /\ \A a, b \in Everywhere : a.n < b.n => a.ts <= b.ts
           /\ \A t \in Threads : call[t].step \in {"stamped", "indexed"} =>
                /\ call[t].rec.ts <= clock
                /\ \A a \in Everywhere : a.ts <= call[t].rec.ts

LEMMA InAppend ==
  ASSUME NEW E, NEW s \in Seq(E), NEW e \in E
  PROVE  ToSet(Append(s, e)) = ToSet(s) \cup {e}
<1> DEFINE u == Append(s, e)
<1>1. PICK m \in Nat : m = Len(s)  BY LenProperties
<1>2. /\ DOMAIN s = 1 .. m /\ DOMAIN u = 1 .. m + 1
      /\ u[m + 1] = e /\ \A i \in 1 .. m : u[i] = s[i]
  BY <1>1, AppendProperties, LenProperties
<1> HIDE DEF u
<1>3. \A i \in DOMAIN u : i \in DOMAIN s \/ i = m + 1  BY <1>2
<1>4. DOMAIN s \subseteq DOMAIN u /\ m + 1 \in DOMAIN u  BY <1>2
<1>5. ASSUME NEW x \in ToSet(u)  PROVE x \in ToSet(s) \cup {e}  BY <1>2, <1>3 DEF ToSet
<1>6. ASSUME NEW x \in ToSet(s) \cup {e}  PROVE x \in ToSet(u)  BY <1>2, <1>4 DEF ToSet
<1>7. ToSet(u) = ToSet(s) \cup {e}  BY <1>5, <1>6
<1>. QED  BY <1>7 DEF u

LEMMA InTail ==
  ASSUME NEW E, NEW s \in Seq(E), s # <<>>
  PROVE  ToSet(s) = {Head(s)} \cup ToSet(Tail(s))
<1> DEFINE u == Tail(s)
<1>1. PICK m \in Nat : m = Len(s)  BY LenProperties
<1>2. m # 0  BY <1>1, EmptySeq
<1>3. /\ Head(s) = s[1] /\ DOMAIN s = 1 .. m /\ DOMAIN u = 1 .. m - 1
      /\ \A i \in 1 .. m - 1 : u[i] = s[i + 1]
  <2>1. /\ Head(s) = s[1] /\ u \in Seq(E) /\ Len(u) = m - 1 /\ \A i \in 1 .. m - 1 : u[i] = s[i + 1]
    BY <1>1, HeadTailProperties
  <2>. QED  BY <1>1, <2>1, LenProperties
<1> HIDE DEF u
<1>4. 1 \in DOMAIN s /\ \A i \in DOMAIN u : i + 1 \in DOMAIN s /\ u[i] = s[i + 1]
  BY <1>2, <1>3
<1>5. ASSUME NEW i \in DOMAIN s  PROVE i = 1 \/ (i - 1 \in DOMAIN u /\ s[i] = u[i - 1])
  <2>1. i = 1 \/ (i - 1 \in 1 .. m - 1 /\ (i - 1) + 1 = i)  BY <1>1, <1>3
  <2>. QED  BY <1>3, <2>1
<1>6. ASSUME NEW x \in ToSet(s)  PROVE x \in {s[1]} \cup ToSet(u)  BY <1>5 DEF ToSet
<1>7. ASSUME NEW x \in {s[1]} \cup ToSet(u)  PROVE x \in ToSet(s)  BY <1>4 DEF ToSet
<1>8. ToSet(s) = {s[1]} \cup ToSet(u)  BY <1>6, <1>7
<1>. QED  BY <1>3, <1>8 DEF u

LEMMA InPushBack ==
  ASSUME NEW E, NEW r \in Seq(E), NEW e \in E, NEW cap \in Nat \ {0}, Len(r) <= cap
  PROVE  LET u == PushBack(r, cap, e) IN
         u # <<>> /\ u \in Seq(E) /\ Last(u) = e /\ ToSet(u) \subseteq ToSet(r) \cup {e}
<1>1. PICK t \in Seq(E) : PushBack(r, cap, e) = Append(t, e) /\ ToSet(t) \subseteq ToSet(r)
  <2>1. CASE Len(r) = cap
    <3>1. r # <<>>  BY <2>1, EmptySeq
    <3>2. PICK t \in Seq(E) : t = Tail(r)  BY <3>1, HeadTailProperties
    <3>3. ToSet(t) \subseteq ToSet(r)  BY <3>1, <3>2, InTail
    <3>. QED  BY <2>1, <3>2, <3>3 DEF PushBack
  <2>2. CASE Len(r) # cap  BY <2>2 DEF PushBack
  <2>. QED  BY <2>1, <2>2
<1>2. /\ Append(t, e) \in Seq(E) /\ Len(Append(t, e)) = Len(t) + 1
      /\ Append(t, e)[Len(t) + 1] = e /\ Len(t) \in Nat
  BY AppendProperties, LenProperties
<1>3. Append(t, e) # <<>>  BY <1>2, EmptySeq
<1>4. ToSet(Append(t, e)) = ToSet(t) \cup {e}  BY InAppend
<1>. QED  BY <1>1, <1>2, <1>3, <1>4 DEF Last

-----------------------------------------------------------------------------
(* A step adds no record but the one that is pushed                         *)

LEMMA Places ==
  /\ ToSet(ring) \subseteq Everywhere /\ ToSet(worker.batch) \subseteq Everywhere
  /\ \A c \in DOMAIN conns : ToSet(conns[c].pipe) \subseteq Everywhere
  /\ \A h \in Huds : ToSet(hud[h].ring) \subseteq Everywhere
<1>1. ToSet(ring) \subseteq Everywhere /\ ToSet(worker.batch) \subseteq Everywhere
  BY DEF Everywhere
<1>2. ASSUME NEW c \in DOMAIN conns, NEW x \in ToSet(conns[c].pipe)  PROVE x \in Everywhere
  <2>1. x \in Piped  BY <1>2, Zenon DEF Piped
  <2>. QED  BY <2>1 DEF Everywhere
<1>3. ASSUME NEW h \in Huds, NEW x \in ToSet(hud[h].ring)  PROVE x \in Everywhere
  <2>1. x \in Kept  BY <1>3, Zenon DEF Kept
  <2>. QED  BY <2>1 DEF Everywhere
<1>. QED  BY <1>1, <1>2, <1>3

LEMMA PlacesNow ==
  ASSUME NEW S, ToSet(ring') \subseteq S, ToSet(worker'.batch) \subseteq S,
         \A c \in DOMAIN conns' : ToSet(conns'[c].pipe) \subseteq S,
         \A h \in Huds : ToSet(hud'[h].ring) \subseteq S
  PROVE  Everywhere' \subseteq S
<1> SUFFICES ASSUME NEW x \in Everywhere'  PROVE x \in S
  OBVIOUS
<1>1. \/ x \in ToSet(ring') \cup ToSet(worker'.batch)
      \/ \E c \in DOMAIN conns' : x \in ToSet(conns'[c].pipe)
      \/ \E h \in Huds : x \in ToSet(hud'[h].ring)
  <2>1. x \in ToSet(ring') \cup ToSet(worker'.batch) \/ x \in Piped' \/ x \in Kept'
    BY DEF Everywhere
  <2>2. x \in Piped' => \E c \in DOMAIN conns' : x \in ToSet(conns'[c].pipe)
    BY Zenon DEF Piped
  <2>3. x \in Kept' => \E h \in Huds : x \in ToSet(hud'[h].ring)
    BY Zenon DEF Kept
  <2>. QED  BY <2>1, <2>2, <2>3
<1>. QED  BY <1>1

LEMMA InSeq ==
  ASSUME NEW E, NEW s \in Seq(E)
  PROVE  ToSet(s) \subseteq E
BY LenProperties, ElementOfSeq DEF ToSet

LEMMA InOnePlace ==
  ASSUME NEW x \in Everywhere
  PROVE  \/ x \in ToSet(ring) \cup ToSet(worker.batch)
         \/ \E c \in DOMAIN conns : x \in ToSet(conns[c].pipe)
         \/ \E h \in Huds : x \in ToSet(hud[h].ring)
<1>1. x \in ToSet(ring) \cup ToSet(worker.batch) \/ x \in Piped \/ x \in Kept
  BY DEF Everywhere
<1>2. x \in Piped => \E c \in DOMAIN conns : x \in ToSet(conns[c].pipe)
  BY Zenon DEF Piped
<1>3. x \in Kept => \E h \in Huds : x \in ToSet(hud[h].ring)
  BY Zenon DEF Kept
<1>. QED  BY <1>1, <1>2, <1>3

LEMMA RecordsOnly ==
  ASSUME IInv
  PROVE  Everywhere \subseteq Record
<1> SUFFICES ASSUME NEW x \in Everywhere  PROVE x \in Record
  OBVIOUS
<1>1. \/ x \in ToSet(ring) \cup ToSet(worker.batch)
      \/ \E c \in DOMAIN conns : x \in ToSet(conns[c].pipe)
      \/ \E h \in Huds : x \in ToSet(hud[h].ring)
  BY InOnePlace
<1>2. ring \in Seq(Record) /\ worker.batch \in Seq(Record) /\ \A h \in Huds : hud[h].ring \in Seq(Record)
  BY DEF IInv, TypeOK
<1>3. \A c \in DOMAIN conns : conns[c].pipe \in Seq(Record)  BY ConnectionOf
<1>. QED  BY <1>1, <1>2, <1>3, InSeq

LEMMA Pushed ==
  ASSUME IInv, NEW t \in Threads, Push(t)
  PROVE  \E e \in Record : /\ e.n = pushed + 1 /\ e.ts = call[t].rec.ts
                           /\ Everywhere' \subseteq Everywhere \cup {e}
<1>1. PICK r \in Record : r = call[t].rec  BY DEF IInv, TypeOK
<1>2. PICK e \in Record : e = [r EXCEPT !.n = pushed + 1] /\ e.n = pushed + 1
  BY RoomToPush, Limits DEF Push
<1>3. e.ts = r.ts  BY <1>2 DEF Record
<1>4. ring' = PushBack(ring, RingCapacity, e) /\ UNCHANGED <<worker, conns, hud>>
  BY <1>1, <1>2 DEF Push
<1>5. ToSet(ring') \subseteq ToSet(ring) \cup {e}
  BY <1>4, InPushBack, TelemetryAssumption DEF IInv, TypeOK
<1>6. /\ ToSet(ring') \subseteq Everywhere \cup {e} /\ ToSet(worker'.batch) \subseteq Everywhere \cup {e}
      /\ \A c \in DOMAIN conns' : ToSet(conns'[c].pipe) \subseteq Everywhere \cup {e}
      /\ \A h \in Huds : ToSet(hud'[h].ring) \subseteq Everywhere \cup {e}
  BY <1>4, <1>5, Places
<1>7. Everywhere' \subseteq Everywhere \cup {e}  BY <1>6, PlacesNow
<1>. QED  BY <1>1, <1>2, <1>3, <1>7

LEMMA NothingNew ==
  ASSUME IInv, [Next]_vars, \A t \in Threads : ~Push(t)
  PROVE  Everywhere' \subseteq Everywhere
<1>i. /\ worker \in [step : {"accept", "check", "wait", "write"}, conn : Nat, served : Nat,
                     batch : Seq(Record)]
      /\ hud \in [Huds -> [conn : Nat, ring : Seq(Record)]]
      /\ \A g \in Huds : Len(hud[g].ring) <= HudCapacity
      /\ HudCapacity \in Nat \ {0}
  BY TelemetryAssumption DEF IInv, Shape, TypeOK
<1>e. ToSet(<<>>) = {}  BY DEF ToSet
<1>1. CASE UNCHANGED <<ring, conns, hud>> /\ worker'.batch = worker.batch
  BY <1>1 DEF Everywhere, Piped, Kept
<1>2. ASSUME NEW t \in Threads, Present(t) \/ Stamp(t) \/ ReadFrames(t) \/ NotifyOne(t)
      PROVE  UNCHANGED <<ring, conns, hud>> /\ worker'.batch = worker.batch
  BY <1>2, <1>i DEF Present, Stamp, ReadFrames, NotifyOne
<1>3. CASE Accept \/ Wait \/ BatchWritten
  <2>1. UNCHANGED <<ring, conns, hud>> /\ worker'.batch = worker.batch
    BY <1>3, <1>i DEF Accept, Wait, BatchWritten
  <2>. QED  BY <1>1, <2>1
<1>4. CASE Drain \/ WriteFails
  <2>1. UNCHANGED <<conns, hud>>  BY <1>4 DEF Drain, WriteFails
  <2>2. ToSet(ring') \subseteq ToSet(ring) /\ ToSet(worker'.batch) \subseteq ToSet(ring)
    BY <1>4, <1>e, <1>i DEF Drain, WriteFails, LeftByDrain
  <2>. QED  BY <2>1, <2>2, Places, PlacesNow
<1>5. CASE WriteRecord
  <2>1. PICK c \in 1 .. Len(conns) : c = worker.conn
    BY <1>5, ConnectionOf DEF WriteRecord
  <2>2. PICK b \in Seq(Record) : b = worker.batch /\ b # <<>>  BY <1>5, <1>i DEF WriteRecord
  <2>3. PICK e \in Record, q \in Seq(Record) :
          e = Head(b) /\ q = Tail(b) /\ ToSet(b) = {e} \cup ToSet(q)
    <3>1. ToSet(b) = {Head(b)} \cup ToSet(Tail(b))  BY <2>2, InTail
    <3>2. Head(b) \in Record /\ Tail(b) \in Seq(Record)  BY <2>2, OfTail
    <3>. QED  BY <3>1, <3>2
  <2>4. PICK p \in Seq(Record) : p = conns[c].pipe  BY ConnectionOf
  <2>5. /\ conns' = [conns EXCEPT ![c].pipe = Append(p, e)] /\ worker' = [worker EXCEPT !.batch = q]
        /\ Len(p) < PipeCapacity /\ UNCHANGED <<ring, hud>>
    BY <1>5, <2>1, <2>2, <2>3, <2>4 DEF WriteRecord
  <2>6. Append(p, e) \in Seq(Record) /\ Len(Append(p, e)) <= PipeCapacity
    <3>1. Len(p) \in Nat /\ PipeCapacity \in Nat  BY LenProperties, TelemetryAssumption
    <3>2. Len(Append(p, e)) = Len(p) + 1 /\ Append(p, e) \in Seq(Record)  BY OfAppend
    <3>3. Len(p) + 1 <= PipeCapacity  BY <2>5, <3>1
    <3>. QED  BY <3>2, <3>3
  <2>7. /\ conns'[c].pipe = Append(p, e) /\ DOMAIN conns' = DOMAIN conns
        /\ \A d \in DOMAIN conns : d # c => conns'[d] = conns[d]
    BY <2>5, <2>6, OnePipe DEF IInv
  <2>8. ToSet(conns'[c].pipe) = ToSet(conns[c].pipe) \cup {e}  BY <2>4, <2>7, InAppend
  <2>9. worker'.batch = q /\ ToSet(q) \subseteq Everywhere /\ e \in Everywhere
    BY <1>i, <2>2, <2>3, <2>5, Places
  <2>10. c \in DOMAIN conns  BY ConnectionOf
  <2>11. \A d \in DOMAIN conns' : ToSet(conns'[d].pipe) \subseteq Everywhere
    BY <2>7, <2>8, <2>9, <2>10, Places
  <2>. QED  BY <2>5, <2>9, <2>11, Places, PlacesNow
<1>6. ASSUME NEW h \in Huds, Connect(h)  PROVE Everywhere' \subseteq Everywhere
  <2>1. PICK k \in Nat : k = Len(conns)  BY ConnectionOf
  <2>2. PICK e \in Channel : e = [open |-> TRUE, pipe |-> <<>>]  BY EmptySeq DEF Channel
  <2>3. /\ conns' = Append(conns, e) /\ hud' = [hud EXCEPT ![h].conn = k + 1]
        /\ UNCHANGED <<ring, worker>>
    BY <1>6, <2>1, <2>2 DEF Connect
  <2>4. /\ DOMAIN conns' = 1 .. k + 1 /\ DOMAIN conns = 1 .. k
        /\ conns'[k + 1] = e /\ \A d \in 1 .. k : conns'[d] = conns[d]
    <3>1. conns \in Seq(Channel)  BY DEF IInv, TypeOK, Channel
    <3>. QED  BY <2>1, <2>3, <3>1, AppendProperties, LenProperties
  <2>5. \A d \in 1 .. k + 1 : d \in 1 .. k \/ d = k + 1  BY <2>1
  <2>6. \A d \in DOMAIN conns' : ToSet(conns'[d].pipe) \subseteq Everywhere
    BY <1>e, <2>2, <2>4, <2>5, Places
  <2>7. \A g \in Huds : hud'[g].ring = hud[g].ring  BY <1>i, <2>3
  <2>. QED  BY <2>3, <2>6, <2>7, Places, PlacesNow
<1>7. ASSUME NEW h \in Huds, ReadLine(h)  PROVE Everywhere' \subseteq Everywhere
  <2>1. PICK c \in 1 .. Len(conns) : c = hud[h].conn  BY <1>7, ConnectionOf DEF ReadLine
  <2>2. PICK p \in Seq(Record) : p = conns[c].pipe /\ p # <<>> /\ Len(p) <= PipeCapacity
    BY <1>7, <2>1, ConnectionOf DEF ReadLine
  <2>3. PICK e \in Record, q \in Seq(Record) :
          e = Head(p) /\ q = Tail(p) /\ ToSet(p) = {e} \cup ToSet(q) /\ Len(q) = Len(p) - 1
    BY <2>2, OfTail, InTail
  <2>4. PICK r \in Seq(Record) : r = hud[h].ring /\ Len(r) <= HudCapacity  BY <1>i
  <2>5. PICK u : u = PushBack(r, HudCapacity, e) /\ ToSet(u) \subseteq ToSet(r) \cup {e}
    BY <1>i, <2>4, InPushBack
  <2>6. /\ conns' = [conns EXCEPT ![c].pipe = q] /\ hud' = [hud EXCEPT ![h].ring = u]
        /\ UNCHANGED <<ring, worker>>
    BY <1>7, <2>1, <2>2, <2>3, <2>4, <2>5 DEF ReadLine
  <2>7. Len(q) <= PipeCapacity  BY <2>2, <2>3, LenProperties, TelemetryAssumption
  <2>8. /\ conns'[c].pipe = q /\ DOMAIN conns' = DOMAIN conns
        /\ \A d \in DOMAIN conns : d # c => conns'[d] = conns[d]
    BY <2>6, <2>7, OnePipe DEF IInv
  <2>9. hud'[h].ring = u /\ \A g \in Huds : g # h => hud'[g] = hud[g]  BY <1>i, <2>6
  <2>10. c \in DOMAIN conns  BY ConnectionOf
  <2>11. e \in Everywhere /\ ToSet(q) \subseteq Everywhere  BY <2>2, <2>3, <2>10, Places
  <2>12. \A d \in DOMAIN conns' : ToSet(conns'[d].pipe) \subseteq Everywhere
    BY <2>8, <2>11, Places
  <2>13. \A g \in Huds : ToSet(hud'[g].ring) \subseteq Everywhere
    BY <2>4, <2>5, <2>9, <2>11, Places
  <2>. QED  BY <2>6, <2>12, <2>13, Places, PlacesNow
<1>8. ASSUME NEW h \in Huds, End(h)  PROVE Everywhere' \subseteq Everywhere
  <2>1. PICK c \in 1 .. Len(conns) : c = hud[h].conn  BY <1>8, ConnectionOf DEF End
  <2>2. PICK e \in Channel : e = [open |-> FALSE, pipe |-> <<>>] /\ e.pipe = <<>> /\ Len(e.pipe) = 0
    <3>1. <<>> \in Seq(Record) /\ Len(<<>>) = 0  BY EmptySeq
    <3>2. PICK e : e = [open |-> FALSE, pipe |-> <<>>]  OBVIOUS
    <3>3. e \in Channel /\ e.pipe = <<>>  BY <3>1, <3>2 DEF Channel
    <3>. QED  BY <3>1, <3>2, <3>3
  <2>3. /\ conns' = [conns EXCEPT ![c] = e] /\ hud' = [hud EXCEPT ![h] = [conn |-> 0, ring |-> <<>>]]
        /\ UNCHANGED <<ring, worker>>
    BY <1>8, <2>1, <2>2 DEF End
  <2>4. /\ conns'[c] = e /\ DOMAIN conns' = DOMAIN conns
        /\ \A d \in DOMAIN conns : d # c => conns'[d] = conns[d]
    <3>1. Len(e.pipe) <= PipeCapacity  BY <2>2, TelemetryAssumption
    <3>. QED  BY <2>3, <3>1, OneConnection DEF IInv
  <2>5. hud'[h].ring = <<>> /\ \A g \in Huds : g # h => hud'[g] = hud[g]  BY <1>i, <2>3
  <2>6. \A d \in DOMAIN conns' : ToSet(conns'[d].pipe) \subseteq Everywhere
    BY <1>e, <2>2, <2>4, Places
  <2>7. \A g \in Huds : ToSet(hud'[g].ring) \subseteq Everywhere  BY <1>e, <2>5, Places
  <2>. QED  BY <2>3, <2>6, <2>7, Places, PlacesNow
<1>9. CASE UNCHANGED vars  BY <1>1, <1>9 DEF vars
<1>. QED
  BY <1>1, <1>2, <1>3, <1>4, <1>5, <1>6, <1>7, <1>8, <1>9 DEF Next, Presenting, Serve

-----------------------------------------------------------------------------
(* The times of the records                                                 *)

LEMMA TimedStep ==
  ASSUME IInv, Timed, [Next]_vars
  PROVE  Timed'
<1>. SUFFICES ASSUME Alone'
     PROVE  /\ \A a \in Everywhere' : a.n <= pushed' /\ a.ts <= clock'
            /\ \A a, b \in Everywhere' : a.n < b.n => a.ts <= b.ts
            /\ \A u \in Threads : call'[u].step \in {"stamped", "indexed"} =>
                 /\ call'[u].rec.ts <= clock'
                 /\ \A a \in Everywhere' : a.ts <= call'[u].rec.ts
  BY DEF Timed
<1>0. Alone
  <2>1. presenters' = presenters  BY PresentersStay
  <2>. QED  BY <2>1 DEF Alone
<1>t. /\ \A a \in Everywhere : a.n <= pushed /\ a.ts <= clock
      /\ \A a, b \in Everywhere : a.n < b.n => a.ts <= b.ts
      /\ \A u \in Threads : call[u].step \in {"stamped", "indexed"} =>
           /\ call[u].rec.ts <= clock
           /\ \A a \in Everywhere : a.ts <= call[u].rec.ts
  BY <1>0 DEF Timed
<1>i. /\ pushed \in Nat /\ clock \in Nat
      /\ call \in [Threads -> [step : {"idle", "counted", "stamped", "indexed", "pushed"}, rec : Record]]
      /\ \A u \in Threads : call[u].rec \in Record /\ call[u].rec.ts \in Nat
      /\ Time \subseteq Nat
  <2>1. FrameLimit \in Nat /\ Time \subseteq Nat  BY Limits DEF Time
  <2>. QED  BY <2>1, Limits DEF IInv, TypeOK, Record
<1>a. \A a \in Everywhere : a.n \in Nat /\ a.ts \in Nat
  <2>1. Everywhere \subseteq Record  BY RecordsOnly
  <2>. QED  BY <1>i, <2>1, Limits DEF Record
<1>1. ASSUME Everywhere' \subseteq Everywhere, pushed' = pushed, clock' \in Nat, clock <= clock',
             NEW t \in Threads, \A u \in Threads : u # t => call'[u] = call[u],
             call'[t].step \in {"stamped", "indexed"} =>
               /\ call'[t].rec.ts \in Nat /\ call'[t].rec.ts <= clock'
               /\ \A a \in Everywhere : a.ts <= call'[t].rec.ts
      PROVE  /\ \A a \in Everywhere' : a.n <= pushed' /\ a.ts <= clock'
             /\ \A a, b \in Everywhere' : a.n < b.n => a.ts <= b.ts
             /\ \A u \in Threads : call'[u].step \in {"stamped", "indexed"} =>
                  /\ call'[u].rec.ts <= clock'
                  /\ \A a \in Everywhere' : a.ts <= call'[u].rec.ts
  <2>1. \A a \in Everywhere' : a.n <= pushed' /\ a.ts <= clock'
    BY <1>1, <1>a, <1>i, <1>t
  <2>2. \A a, b \in Everywhere' : a.n < b.n => a.ts <= b.ts
    BY <1>1, <1>t
  <2>3. ASSUME NEW u \in Threads, call'[u].step \in {"stamped", "indexed"}
        PROVE  call'[u].rec.ts <= clock' /\ \A a \in Everywhere' : a.ts <= call'[u].rec.ts
    <3>1. CASE u = t  BY <1>1, <2>3, <3>1
    <3>2. CASE u # t  BY <1>1, <1>i, <1>t, <2>3, <3>2
    <3>. QED  BY <3>1, <3>2
  <2>. QED  BY <2>1, <2>2, <2>3
<1>2. CASE \E t \in Threads : Present(t) \/ NotifyOne(t)
  <2>1. PICK t \in Threads : Present(t) \/ NotifyOne(t)  BY <1>2
  <2>2. Everywhere' \subseteq Everywhere
    <3>1. UNCHANGED <<ring, conns, hud>> /\ worker'.batch = worker.batch
      BY <2>1 DEF IInv, Shape, Present, NotifyOne
    <3>. QED  BY <3>1 DEF Everywhere, Piped, Kept
  <2>3. /\ pushed' = pushed /\ clock' = clock /\ \A u \in Threads : u # t => call'[u] = call[u]
        /\ call'[t].step \notin {"stamped", "indexed"}
    BY <1>i, <2>1 DEF Present, NotifyOne, Enter, Idle
  <2>. QED  BY <1>1, <1>i, <2>2, <2>3
<1>3. CASE \E t \in Threads : Stamp(t)
  <2>1. PICK t \in Threads : Stamp(t)  BY <1>3
  <2>2. Everywhere' \subseteq Everywhere  BY <2>1 DEF Stamp, Everywhere, Piped, Kept
  <2>3. pushed' = pushed /\ clock' \in Time /\ clock <= clock'  BY <1>i, <2>1 DEF Stamp
  <2>4. PICK r \in Record : r = [call[t].rec EXCEPT !.ts = clock'] /\ r.ts = clock'
    <3>1. PICK q \in Record : q = call[t].rec  BY <1>i
    <3>2. PICK r \in Record : r = [q EXCEPT !.ts = clock']  BY <2>3, Limits
    <3>. QED  BY <3>1, <3>2 DEF Record
  <2>5. call' = [call EXCEPT ![t] = [step |-> "stamped", rec |-> r]]
    BY <2>1, <2>4 DEF Stamp, Enter
  <2>6. call'[t].rec = r /\ \A u \in Threads : u # t => call'[u] = call[u]  BY <1>i, <2>5
  <2>7. \A a \in Everywhere : a.ts <= clock'  BY <1>a, <1>i, <1>t, <2>3
  <2>8. clock' \in Nat /\ call'[t].rec.ts = clock'  BY <1>i, <2>3, <2>4, <2>6
  <2>9. call'[t].rec.ts \in Nat /\ call'[t].rec.ts <= clock'
        /\ \A a \in Everywhere : a.ts <= call'[t].rec.ts
    BY <2>7, <2>8
  <2>. QED  BY <1>1, <2>2, <2>3, <2>6, <2>8, <2>9
<1>4. CASE \E t \in Threads : ReadFrames(t)
  <2>1. PICK t \in Threads : ReadFrames(t)  BY <1>4
  <2>2. Everywhere' \subseteq Everywhere  BY <2>1 DEF ReadFrames, Everywhere, Piped, Kept
  <2>3. pushed' = pushed /\ clock' = clock  BY <2>1 DEF ReadFrames
  <2>4. PICK r : r = [call[t].rec EXCEPT !.frame = frames] /\ r.ts = call[t].rec.ts
    <3>1. PICK q \in Record : q = call[t].rec  BY <1>i
    <3>2. PICK r : r = [q EXCEPT !.frame = frames]  OBVIOUS
    <3>. QED  BY <3>1, <3>2 DEF Record
  <2>5. call' = [call EXCEPT ![t] = [step |-> "indexed", rec |-> r]] /\ call[t].step = "stamped"
    BY <2>1, <2>4 DEF ReadFrames, Enter, InCall
  <2>6. call'[t].rec = r /\ \A u \in Threads : u # t => call'[u] = call[u]  BY <1>i, <2>5
  <2>7. r.ts \in Nat /\ r.ts <= clock /\ \A a \in Everywhere : a.ts <= r.ts
    BY <1>i, <1>t, <2>4, <2>5
  <2>. QED  BY <1>1, <1>i, <2>2, <2>3, <2>6, <2>7
<1>5. CASE \E t \in Threads : Push(t)
  <2>1. PICK t \in Threads : Push(t)  BY <1>5
  <2>2. PICK e \in Record : /\ e.n = pushed + 1 /\ e.ts = call[t].rec.ts
                            /\ Everywhere' \subseteq Everywhere \cup {e}
    BY <2>1, Pushed
  <2>3. /\ pushed' = pushed + 1 /\ clock' = clock /\ call[t].step = "indexed"
        /\ call' = [call EXCEPT ![t] = [step |-> "pushed", rec |-> Blank]]
    BY <2>1 DEF Push, Enter, InCall
  <2>4. e.ts \in Nat /\ e.ts <= clock /\ \A a \in Everywhere : a.n < e.n /\ a.ts <= e.ts
    BY <1>a, <1>i, <1>t, <2>2, <2>3
  <2>5. \A u \in Threads : call'[u].step \notin {"stamped", "indexed"}
    <3>1. PICK t0 \in Threads : presenters = {t0}  BY <1>0 DEF Alone
    <3>2. Active \subseteq {t0}  BY <3>1 DEF IInv, Counted
    <3>3. ASSUME NEW u \in Threads, u # t  PROVE call[u].step \notin {"stamped", "indexed"}
      <4>1. t \in Active  BY <2>3 DEF Active
      <4>2. u \notin Active  BY <3>2, <3>3, <4>1
      <4>. QED  BY <4>2 DEF Active
    <3>. QED  BY <1>i, <2>3, <3>3
  <2>6. \A a \in Everywhere' : a.n <= pushed' /\ a.ts <= clock'
    BY <1>a, <1>i, <1>t, <2>2, <2>3, <2>4
  <2>7. ASSUME NEW a \in Everywhere', NEW b \in Everywhere', a.n < b.n  PROVE a.ts <= b.ts
    <3>1. CASE a \in Everywhere /\ b \in Everywhere  BY <1>t, <2>7, <3>1
    <3>2. CASE a \in Everywhere /\ b = e  BY <2>4, <3>2
    <3>3. CASE a = e  BY <1>a, <1>i, <1>t, <2>2, <2>4, <2>7, <3>3
    <3>. QED  BY <2>2, <3>1, <3>2, <3>3
  <2>. QED  BY <2>5, <2>6, <2>7
<1>6. CASE UNCHANGED <<pushed, clock, call>> /\ \A t \in Threads : ~Push(t)
  <2>1. Everywhere' \subseteq Everywhere  BY <1>6, NothingNew
  <2>. QED  BY <1>6, <1>a, <1>i, <1>t, <2>1
<1>7. CASE UNCHANGED threadVars
  <2>1. \A t \in Threads : ~Push(t)
    BY <1>7, <1>i DEF threadVars, Push
  <2>. QED  BY <1>6, <1>7, <2>1 DEF threadVars
<1>8. CASE Serve \/ (\E h \in Huds : Connect(h) \/ ReadLine(h) \/ End(h)) \/ UNCHANGED vars
  <2>1. UNCHANGED threadVars
    BY <1>8 DEF Serve, Accept, Wait, Drain, WriteRecord, WriteFails, BatchWritten, Connect,
                ReadLine, End, vars
  <2>. QED  BY <1>7, <2>1
<1>. QED  BY <1>2, <1>3, <1>4, <1>5, <1>8 DEF Next, Presenting

LEMMA InTime == Spec => []Timed
<1>1. Init => Timed
  <2>. SUFFICES ASSUME Init  PROVE Timed
    OBVIOUS
  <2>1. ToSet(<<>>) = {} /\ DOMAIN conns = {}  BY DEF ToSet, Init
  <2>2. ring = <<>> /\ worker.batch = <<>> /\ \A h \in Huds : hud[h].ring = <<>>  BY DEF Init
  <2>3. Everywhere = {}
    <3>1. ASSUME NEW x \in Everywhere  PROVE FALSE
      <4>1. \/ x \in ToSet(ring) \cup ToSet(worker.batch)
            \/ \E c \in DOMAIN conns : x \in ToSet(conns[c].pipe)
            \/ \E h \in Huds : x \in ToSet(hud[h].ring)
        BY <3>1, InOnePlace
      <4>. QED  BY <2>1, <2>2, <4>1
    <3>. QED  BY <3>1
  <2>4. \A t \in Threads : call[t].step \notin {"stamped", "indexed"}  BY DEF Init, Idle
  <2>. QED  BY <2>3, <2>4 DEF Timed
<1>2. IInv /\ Timed /\ [Next]_vars => Timed'  BY TimedStep
<1>. QED  BY <1>1, <1>2, Invariance, PTL DEF Spec

-----------------------------------------------------------------------------
(* A bin and a ring that takes one more record                              *)

LEMMA PartGrows ==
  ASSUME NEW k \in Nat \ {0}, NEW a \in Nat, NEW b \in Nat, a <= b
  PROVE  /\ a \div k \in Int /\ a \div k <= b \div k
         /\ (a \div k) * k <= a
<1> PICK x, y : x = a \div k /\ y = a % k
  OBVIOUS
<1> PICK u, v : u = b \div k /\ v = b % k
  OBVIOUS
<1>1. x \in Int /\ y \in 0 .. k - 1 /\ a = k * x + y
  OBVIOUS
<1>2. u \in Int /\ v \in 0 .. k - 1 /\ b = k * u + v
  OBVIOUS
<1>3. x <= u
  <2> SUFFICES ASSUME x >= u + 1 PROVE FALSE
    BY <1>1, <1>2
  <2>1. k * x >= k * (u + 1)  BY <1>1, <1>2
  <2>2. k * (u + 1) = k * u + k  BY <1>2
  <2>. QED  BY <1>1, <1>2, <2>1, <2>2
<1>4. x * k = k * x /\ x * k <= a  BY <1>1
<1>. QED  BY <1>1, <1>3, <1>4

\* The later now, the later the window begins.
LEMMA CutoffGrows ==
  ASSUME NEW now \in Nat, NEW later \in Nat, now <= later
  PROVE  Cutoff(now) \in Nat /\ Cutoff(now) <= Cutoff(later)
BY TelemetryAssumption DEF Cutoff

LEMMA BinStays ==
  ASSUME NEW r \in Seq(Record), NEW s \in Seq(Record), NEW e \in Record,
         ToSet(s) \subseteq ToSet(r) \cup {e}, Latest(r) <= e.ts,
         NEW later \in {Latest(r), e.ts}, NEW k \in 0 .. (Latest(r) \div Bin) - 1,
         k * Bin >= Cutoff(later), BinOf(r, Latest(r), k) \subseteq ToSet(s)
  PROVE  BinOf(s, later, k) = BinOf(r, Latest(r), k)
<1>1. FrameLimit \in Nat /\ Time \subseteq Nat  BY Limits DEF Time
<1>2. /\ ToSet(r) \subseteq Record /\ ToSet(s) \subseteq Record /\ e.ts \in Nat
      /\ \A x \in Record : x.ts \in Nat
  <2>1. \A x \in Record : x.ts \in Nat  BY <1>1 DEF Record
  <2>2. ToSet(r) \subseteq Record /\ ToSet(s) \subseteq Record  BY InSeq
  <2>. QED  BY <2>1, <2>2
<1>3. PICK now \in Nat : now = Latest(r)
  <2>1. CASE r = <<>>  BY <2>1 DEF Latest
  <2>2. CASE r # <<>>
    <3>1. r[Len(r)] \in Record  BY <2>2, EmptySeq, ElementOfSeq, LenProperties
    <3>. QED  BY <1>2, <2>2, <3>1 DEF Latest, Last
  <2>. QED  BY <2>1, <2>2
<1>4. Bin \in Nat \ {0} /\ later \in Nat /\ now <= later  BY <1>2, <1>3, TelemetryAssumption
<1>5. Cutoff(now) \in Nat /\ Cutoff(now) <= Cutoff(later) /\ Cutoff(later) \in Nat
  BY <1>3, <1>4, CutoffGrows
<1>6. PICK b \in Int : b = now \div Bin  BY <1>3, <1>4, PartGrows
<1>7. k \in Nat /\ k < b  BY <1>3, <1>6
<1>8. ASSUME NEW x \in Record, x.ts \div Bin = k
      PROVE  k * Bin <= x.ts /\ x.ts < now
  <2>1. x.ts \in Nat  BY <1>2
  <2>2. k * Bin <= x.ts
    <3>1. PICK t \in Nat : t = x.ts  BY <2>1
    <3>2. (t \div Bin) * Bin <= t  BY <1>4, PartGrows
    <3>3. k = t \div Bin  BY <1>8, <3>1
    <3>. QED  BY <3>1, <3>2, <3>3
  <2>3. now <= x.ts => b <= k  BY <1>3, <1>4, <1>6, <1>8, <2>1, PartGrows
  <2>. QED  BY <1>3, <1>6, <1>7, <2>1, <2>2, <2>3
<1>9. PICK m \in Nat : m = k * Bin  BY <1>4, <1>7
<1>10. ASSUME NEW x \in Record, x.ts \div Bin = k
       PROVE  /\ Cutoff(now) <= x.ts /\ Cutoff(later) <= x.ts
              /\ x.ts <= now /\ x.ts <= later /\ x # e
  <2>1. m <= x.ts /\ x.ts < now /\ x.ts \in Nat  BY <1>2, <1>8, <1>9, <1>10
  <2>2. Cutoff(later) <= m  BY <1>9
  <2>3. now <= e.ts  BY <1>3
  <2>4. Cutoff(later) <= x.ts /\ Cutoff(now) <= x.ts  BY <1>5, <2>1, <2>2
  <2>5. x.ts <= now /\ x.ts <= later  BY <1>4, <2>1
  <2>6. x # e
    <3>1. x.ts # e.ts  BY <1>2, <2>1, <2>3
    <3>. QED  BY <3>1
  <2>. QED  BY <2>4, <2>5, <2>6
<1>11. ASSUME NEW x \in BinOf(s, later, k)  PROVE x \in BinOf(r, now, k)
  <2>1. x \in ToSet(s) /\ x \in Record /\ x.ts \div Bin = k
    BY <1>2, <1>11 DEF BinOf, InWindow, Key
  <2>2. x \in ToSet(r)  BY <1>10, <2>1
  <2>. QED  BY <1>10, <2>1, <2>2 DEF BinOf, InWindow, Key
<1>12. ASSUME NEW x \in BinOf(r, now, k)  PROVE x \in BinOf(s, later, k)
  <2>1. x \in ToSet(s) /\ x \in Record /\ x.ts \div Bin = k
    BY <1>2, <1>3, <1>12 DEF BinOf, InWindow, Key
  <2>. QED  BY <1>10, <2>1 DEF BinOf, InWindow, Key
<1>. QED  BY <1>3, <1>11, <1>12

\* bin_records, with recompute_cache's plots: where one thread presents, a bin
\* that is past stays as it was drawn for as long as all of it is in the window
\* and in the ring, whatever is lost, whenever a client comes or goes, and
\* however large the rings, the bins and the window are.
THEOREM SealedStay == Spec => SealedBins
<1>1. ASSUME IInv, Timed, [Next]_vars, Alone, NEW h \in Huds,
             NEW r, r = hud[h].ring, NEW s, s = hud'[h].ring,
             NEW later \in {Latest(r), Latest(s)}, NEW k \in 0 .. (Latest(r) \div Bin) - 1,
             k * Bin >= Cutoff(later), BinOf(r, Latest(r), k) \subseteq ToSet(s)
      PROVE  BinOf(s, later, k) = BinOf(r, Latest(r), k)
  <2>1. CASE s = r  BY <2>1
  <2>2. CASE s = <<>>
    <3>1. ToSet(s) = {}  BY <2>2 DEF ToSet
    <3>2. BinOf(s, later, k) = {}  BY <3>1 DEF BinOf, InWindow
    <3>. QED  BY <1>1, <3>1, <3>2
  <2>3. CASE ReadLine(h)
    <3>1. PICK c \in 1 .. Len(conns) : c = hud[h].conn /\ c # 0
      BY <2>3, ConnectionOf, <1>1 DEF ReadLine
    <3>2. PICK p \in Seq(Record) : p = conns[c].pipe /\ p # <<>> /\ p = Pipe(h)
      BY <1>1, <2>3, <3>1, ConnectionOf DEF ReadLine, Pipe
    <3>3. PICK e \in Record : e = Head(p) /\ e.n \in NumbersIn(p) /\ e \in ToSet(p)
      BY <3>2, OfTail, InTail
    <3>4. r \in Seq(Record) /\ Len(r) <= HudCapacity /\ HudCapacity \in Nat \ {0}
      BY <1>1, TelemetryAssumption DEF IInv, TypeOK
    <3>5. s = PushBack(r, HudCapacity, e)
      BY <1>1, <2>3, <3>1, <3>2, <3>3 DEF ReadLine, IInv, Shape
    <3>6. s # <<>> /\ s \in Seq(Record) /\ Last(s) = e /\ ToSet(s) \subseteq ToSet(r) \cup {e}
      BY <3>4, <3>5, InPushBack
    <3>7. Latest(s) = e.ts  BY <3>6 DEF Latest
    <3>8. Latest(r) <= e.ts
      <4>1. CASE r = <<>>
        <5>1. e.ts \in Nat  BY Limits DEF Record, Time
        <5>. QED  BY <4>1, <5>1 DEF Latest
      <4>2. CASE r # <<>>
        <5>1. Len(r) \in DOMAIN r  BY <3>4, <4>2, EmptySeq, LenProperties
        <5>2. PICK a : a = r[Len(r)]  OBVIOUS
        <5>3. a \in ToSet(r) /\ a.n \in NumbersIn(r)  BY <5>1, <5>2 DEF ToSet, NumbersIn
        <5>4. a.n < e.n
          <6>1. Before(NumbersIn(r), NumbersIn(p))  BY <1>1, <3>2 DEF IInv, Arrived
          <6>. QED  BY <3>3, <5>3, <6>1 DEF Before
        <5>5. a \in Everywhere /\ e \in Everywhere
          <6>1. c \in DOMAIN conns  BY <1>1, ConnectionOf
          <6>. QED  BY <1>1, <3>2, <3>3, <5>3, <6>1, Places
        <5>6. a.ts <= e.ts  BY <1>1, <5>4, <5>5 DEF Timed
        <5>. QED  BY <4>2, <5>2, <5>6 DEF Latest, Last
      <4>. QED  BY <4>1, <4>2
    <3>. QED  BY <1>1, <3>4, <3>6, <3>7, <3>8, BinStays
  <2>4. s = r \/ s = <<>> \/ ReadLine(h)
    <3>1. hud \in [Huds -> [conn : Nat, ring : Seq(Record)]]  BY <1>1 DEF IInv, Shape
    <3>2. CASE UNCHANGED hud  BY <1>1, <3>2
    <3>3. CASE \E g \in Huds : Connect(g)  BY <1>1, <3>1, <3>3 DEF Connect
    <3>4. CASE \E g \in Huds : ReadLine(g)
      <4>1. PICK g \in Huds : ReadLine(g)  BY <3>4
      <4>2. CASE g = h  BY <4>1, <4>2
      <4>3. CASE g # h  BY <1>1, <3>1, <4>1, <4>3 DEF ReadLine
      <4>. QED  BY <4>2, <4>3
    <3>5. CASE \E g \in Huds : End(g)  BY <1>1, <3>1, <3>5 DEF End
    <3>. QED
      BY <1>1, <3>2, <3>3, <3>4, <3>5
         DEF Next, Presenting, Present, Stamp, ReadFrames, Push, NotifyOne, Serve, Accept, Wait,
             Drain, WriteRecord, WriteFails, BatchWritten, vars
  <2>. QED  BY <2>1, <2>2, <2>3, <2>4
<1>2. IInv /\ Timed /\ [Next]_vars =>
        [Alone => \A h \in Huds :
           LET r == hud[h].ring  s == hud'[h].ring  now == Latest(r) IN
           \A later \in {now, Latest(s)}, k \in 0 .. (now \div Bin) - 1 :
             /\ k * Bin >= Cutoff(later)
             /\ BinOf(r, now, k) \subseteq ToSet(s)
             => BinOf(s, later, k) = BinOf(r, now, k)]_vars
  BY <1>1
<1>. QED  BY <1>2, Invariance, InTime, PTL DEF Spec, SealedBins
=============================================================================
