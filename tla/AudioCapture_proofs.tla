------------------------- MODULE AudioCapture_proofs -------------------------
(***************************************************************************)
(* For every ring, pool and chunk size and every number of callbacks,      *)
(* batches and stops: what the worklet has recorded of a quantum, and that *)
(* the trace finish() returns is complete, whatever was late, starved,     *)
(* timed out or aborted.                                                   *)
(*                                                                         *)
(* The trace is complete because the collector, once it has handled what   *)
(* is under way to it, has what there is: the queues of the page and of    *)
(* the worklet lead there, each message finding what it declares.  That    *)
(* invariant (Delivered) needs where start, the report and finish stand in *)
(* the queue, and the report's own truth from ChunkTransport_proofs; the   *)
(* buffers are in one place each (Relayed, with Away), so that none comes  *)
(* back unknown.  With them and a bound on the mail the page has under way *)
(* (Bounded) every step is one of the transport with its page.             *)
(***************************************************************************)
EXTENDS AudioCapture, ChunkTransport_proofs

\* A step of a quantum, and the one that comes before it in its span.
Previous == [queue |-> "begin", load |-> "queue", end |-> "load"]
Follows(step) == step \in {"queue", "load", "end"}

Recorded(quantum, step) == \E j \in 1..Len(accepted) : accepted[j].data = <<quantum, step>>
Full == ~(Len(ring) + 1 <= Capacity)

\* Between the begin and the end of a quantum nothing is drained, so that the
\* ring, once full, refuses the rest of the quantum.
Quantum ==
    /\ frame \in 0..MaxQuanta /\ callback \in Steps \union {"drain", "none"}
    /\ callback # "none" => pc = "idle" /\ frame # 0
    /\ callback = "queue" => Recorded(frame, "begin")
    /\ callback = "load" => Recorded(frame, "queue") \/ Full
    /\ callback = "end" => Recorded(frame, "load") \/ Full

\* QuantumIsPrefix, record by record.
InOrder(i) ==
    Follows(accepted[i].data[2]) =>
        \E j \in 1..i - 1 :
            accepted[j].data = <<accepted[i].data[1], Previous[accepted[i].data[2]]>>
AllInOrder == \A i \in 1..Len(accepted) : InOrder(i)

-----------------------------------------------------------------------------
LEMMA GroupOne ==
    ASSUME Quantum, callback \in Steps
    PROVE  /\ Group(callback) \in Groups /\ Group(callback) \in Seq(Records)
           /\ Len(Group(callback)) = 1 /\ Group(callback)[1].data = <<frame, callback>>
<1>1. frame \in 1..MaxQuanta
  BY CaptureAssumption DEF Quantum, Steps
<1>2. [end |-> TRUE, data |-> <<frame, callback>>] \in Records
  BY <1>1, CaptureAssumption
<1>3. Group(callback) \in Groups
  BY <1>2, CaptureAssumption DEF Group
<1>4. QED
  BY <1>3, TransportAssumption DEF Group

\* The record of a step that fits comes after all the others.
LEMMA OneMore ==
    ASSUME Inv, Quantum, callback \in Steps, EmitRecorded(Group(callback))
    PROVE  /\ Len(accepted) \in Nat
           /\ Len(accepted') = Len(accepted) + 1
           /\ accepted'[Len(accepted) + 1].data = <<frame, callback>>
           /\ \A i \in 1..Len(accepted) : accepted'[i] = accepted[i]
           /\ \A i \in 1..Len(accepted) + 1 : i \in 1..Len(accepted) \/ i = Len(accepted) + 1
           /\ ~Full
<1> DEFINE g == Group(callback)
           n == Len(accepted)
<1>1. g \in Seq(Records) /\ Len(g) = 1 /\ g[1].data = <<frame, callback>>
  BY GroupOne
<1>2. accepted' = accepted \o g /\ Len(ring) + Len(g) <= Capacity
  BY DEF EmitRecorded, Fits
<1>3. accepted \in Seq(Records) /\ n \in Nat
  BY LenProperties DEF Inv, TypeOK
<1> HIDE DEF g
<1>4. /\ Len(accepted \o g) = n + 1
      /\ \A i \in 1..n + 1 : (accepted \o g)[i] = IF i <= n THEN accepted[i] ELSE g[i - n]
  <2>1. /\ Len(accepted \o g) = n + Len(g)
        /\ \A i \in 1..n + Len(g) : (accepted \o g)[i] = IF i <= n THEN accepted[i] ELSE g[i - n]
    BY <1>1, <1>3, ConcatProperties
  <2>2. QED
    BY <1>1, <2>1
<1>5. (accepted \o g)[n + 1] = g[1] /\ \A i \in 1..n : (accepted \o g)[i] = accepted[i]
  BY <1>3, <1>4
<1>6. ~Full
  BY <1>1, <1>2 DEF Full
<1>7. QED
  BY <1>1, <1>2, <1>3, <1>4, <1>5, <1>6

\* What was recorded stays recorded, and what was in order stays so.
LEMMA RecordStepOrder ==
    ASSUME Inv, Quantum, AllInOrder, RecordStep
    PROVE  Quantum' /\ AllInOrder'
<1> DEFINE n == Len(accepted)
<1>1. /\ n \in Nat
      /\ Len(accepted') = n + 1
      /\ accepted'[n + 1].data = <<frame, callback>>
      /\ \A i \in 1..n : accepted'[i] = accepted[i]
      /\ \A i \in 1..n + 1 : i \in 1..n \/ i = n + 1
      /\ ~Full
  BY OneMore DEF RecordStep
<1>2. callback \in Steps /\ callback' = NextStep[callback] /\ frame' = frame /\ pc' = "idle"
      /\ frame \in 0..MaxQuanta /\ frame # 0
  <2>1. callback \in Steps /\ callback' = NextStep[callback] /\ frame' = frame /\ pc' = pc
        /\ pc = "idle"
    BY DEF RecordStep, EmitRecorded
  <2>2. callback # "none"
    BY <2>1 DEF Steps
  <2>3. QED
    BY <2>1, <2>2 DEF Quantum
<1>3. ASSUME NEW s, s = callback PROVE Recorded(frame, s)'
  <2>1. n + 1 \in 1..Len(accepted')
    BY <1>1
  <2>2. QED
    BY <1>1, <1>2, <1>3, <2>1 DEF Recorded
<1>4. Quantum'
  <2>1. /\ callback = "begin" => Recorded(frame, "begin")'
        /\ callback = "queue" => Recorded(frame, "queue")'
        /\ callback = "load" => Recorded(frame, "load")'
    BY <1>3
  <2>2. /\ callback' \in Steps \union {"drain", "none"}
        /\ callback' = "queue" => callback = "begin"
        /\ callback' = "load" => callback = "queue"
        /\ callback' = "end" => callback = "load"
    BY <1>2 DEF NextStep, Steps
  <2>3. QED
    BY <1>1, <1>2, <2>1, <2>2 DEF Quantum
<1>5. ASSUME NEW i \in 1..n PROVE InOrder(i)'
  <2>1. InOrder(i) /\ accepted'[i] = accepted[i]
    BY <1>1 DEF AllInOrder
  <2>2. \A j \in 1..i - 1 : accepted'[j] = accepted[j]
    BY <1>1
  <2>3. QED
    BY <2>1, <2>2 DEF InOrder
<1>6. ASSUME NEW i, i = n + 1 PROVE InOrder(i)'
  <2>1. accepted'[i].data[1] = frame /\ accepted'[i].data[2] = callback
    BY <1>1, <1>6
  <2>2. ASSUME Follows(callback) PROVE Recorded(frame, Previous[callback])
    BY <1>1, <2>2 DEF Quantum, Follows, Previous
  <2>3. ASSUME Follows(callback)
        PROVE  \E j \in 1..i - 1 : accepted'[j].data = <<frame, Previous[callback]>>
    <3>1. PICK j \in 1..n : accepted[j].data = <<frame, Previous[callback]>>
      BY <2>2, <2>3 DEF Recorded
    <3>2. j \in 1..i - 1 /\ accepted'[j] = accepted[j]
      BY <1>1, <1>6
    <3>3. QED
      BY <3>1, <3>2
  <2>4. QED
    BY <2>1, <2>3 DEF InOrder
<1>7. AllInOrder'
  BY <1>1, <1>5, <1>6 DEF AllInOrder
<1>8. QED
  BY <1>4, <1>7

LEMMA SameRecords ==
    ASSUME AllInOrder, accepted' = accepted
    PROVE  AllInOrder' /\ \A q, s : Recorded(q, s)' <=> Recorded(q, s)
  BY DEF AllInOrder, InOrder, Recorded

\* A step that does not fit ends the quantum, or finds the ring full.
LEMMA DropStepOrder ==
    ASSUME Quantum, AllInOrder, DropStep
    PROVE  Quantum' /\ AllInOrder'
<1>1. /\ callback \in Steps /\ frame' = frame /\ accepted' = accepted /\ ring' = ring /\ pc' = pc
      /\ callback' = IF callback = "begin" THEN "drain" ELSE NextStep[callback]
      /\ pc = "idle"
  BY DEF DropStep, EmitDropped
<1>2. Full
  BY GroupOne DEF DropStep, EmitDropped, Fits, Full
<1>3. Full'
  BY <1>1, <1>2 DEF Full
<1>4. Quantum'
  BY <1>1, <1>3 DEF Quantum, NextStep, Steps
<1>5. QED
  BY <1>1, <1>4, SameRecords

LEMMA Unprocessed ==
    ASSUME Quantum, AllInOrder, UNCHANGED <<transport, processor>>
    PROVE  Quantum' /\ AllInOrder'
<1>1. UNCHANGED <<accepted, frame, callback, pc, ring>>
  BY DEF transport, processor
<1>2. QED
  BY <1>1, SameRecords DEF Quantum, Full

LEMMA BetweenCallbacks ==
    ASSUME Quantum, AllInOrder, callback' = "none", UNCHANGED <<accepted, frame>>
    PROVE  Quantum' /\ AllInOrder'
  BY SameRecords DEF Quantum

LEMMA StepQuantum == Inv /\ Quantum /\ AllInOrder /\ [CaptureNext]_captureVars => Quantum' /\ AllInOrder'
<1> SUFFICES ASSUME Inv, Quantum, AllInOrder, [CaptureNext]_captureVars PROVE Quantum' /\ AllInOrder'
  OBVIOUS
<1>1. CASE StartCallback
  <2>1. /\ UNCHANGED <<accepted, pc, ring>> /\ pc = "idle" /\ frame' = frame + 1 /\ frame < MaxQuanta
        /\ callback' \in {"begin", "flow"}
    BY <1>1 DEF StartCallback, transport
  <2>2. Quantum'
    BY <2>1, CaptureAssumption DEF Quantum, Steps
  <2>3. QED
    BY <2>1, <2>2, SameRecords
<1>2. CASE DrainStep
  <2>1. callback' = "none" /\ UNCHANGED <<accepted, frame>>
    BY <1>2 DEF DrainStep, StartDrain, producer, transport
  <2>2. QED
    BY <2>1, BetweenCallbacks
<1>3. CASE SilentCallback
  <2>1. callback' = "none" /\ UNCHANGED <<accepted, frame>>
    BY <1>3 DEF SilentCallback, StartDrain, producer, processor
  <2>2. QED
    BY <2>1, BetweenCallbacks
<1>4. CASE Turn
  <2>1. pc # "idle" /\ UNCHANGED <<accepted, frame, callback>>
    BY <1>4 DEF Turn, Loop, DrainStarved, DrainTurn, DrainDone, FinishPartial,
                FinishReport, producer, processor
  <2>2. QED
    BY <2>1, BetweenCallbacks DEF Quantum
<1>5. CASE Handle
  <2>1. callback = "none" /\ UNCHANGED <<accepted, frame, callback>>
    BY <1>5 DEF Handle, Handler, RecycleRefused, RecycleAccepted, Stop, StopIgnored,
                Abort, AbortIgnored, producer, processor
  <2>2. QED
    BY <2>1, BetweenCallbacks
<1>6. CASE PageMessage
  <2>1. UNCHANGED <<transport, processor>>
    BY <1>6 DEF PageMessage, RelayChunk, AudioStopped, AudioAborted, RelayRecycle, Result
  <2>2. QED
    BY <2>1, Unprocessed
<1>7. CASE Application
  <2>1. UNCHANGED <<transport, processor>>
    BY <1>7 DEF Application, Start, Attach, StopAudio, StopTimeout, StopRejected, StopFails, Submit, AbortCapture, Finish
  <2>2. QED
    BY <2>1, Unprocessed
<1>8. CASE Collector
  <2>1. UNCHANGED <<transport, processor>>
    BY <1>8 DEF Collector, CollectStart, CollectRecords, CollectChunk, CollectStopped,
                CollectFinish, Imported, AtCollector
  <2>2. QED
    BY <2>1, Unprocessed
<1>9. CASE UNCHANGED captureVars
  BY <1>9, Unprocessed DEF captureVars
<1>10. QED
  BY <1>1, <1>2, <1>3, <1>4, <1>5, <1>6, <1>7, <1>8, <1>9, RecordStepOrder, DropStepOrder
     DEF CaptureNext, Worklet, Process

LEMMA InitQuantum == CaptureInit => Quantum /\ AllInOrder
<1> SUFFICES ASSUME CaptureInit PROVE Quantum /\ AllInOrder
  OBVIOUS
<1>1. accepted = <<>> /\ callback = "none" /\ frame = 0
  BY DEF CaptureInit, WorkletInit
<1>2. QED
  BY <1>1, CaptureAssumption DEF Quantum, AllInOrder


-----------------------------------------------------------------------------
\* The threads, whose steps are the worklet's or leave it as it is.
LEMMA WorkletThread ==
    ASSUME Quantum, Worklet
    PROVE  Elsewhere /\ (WorkletStep \/ UNCHANGED <<transport, toMain, toWorklet>>)
<1>1. CASE RecordStep
  BY <1>1, GroupOne DEF RecordStep, WorkletStep, Callback, Worklet
<1>2. CASE DropStep
  BY <1>2, GroupOne DEF DropStep, WorkletStep, Callback, Worklet
<1>3. CASE StartCallback \/ DrainStep \/ SilentCallback
  BY <1>3 DEF StartCallback, DrainStep, SilentCallback, WorkletStep, Callback, Worklet
<1>4. CASE Turn \/ Handle
  BY <1>4 DEF Turn, Handle, WorkletStep, Worklet
<1>5. QED
  BY <1>1, <1>2, <1>3, <1>4 DEF Worklet, Process

LEMMA OtherThreads ==
    ASSUME PageMessage \/ Application \/ Collector \/ UNCHANGED captureVars
    PROVE  UNCHANGED transport
<1>1. CASE PageMessage
  BY <1>1 DEF PageMessage, RelayChunk, AudioStopped, AudioAborted, RelayRecycle, Result
<1>2. CASE Application
  BY <1>2 DEF Application, Start, Attach, StopAudio, StopTimeout, StopRejected, StopFails, Submit, AbortCapture, Finish
<1>3. CASE Collector
  BY <1>3 DEF Collector, CollectStart, CollectRecords, CollectChunk, CollectStopped,
              CollectFinish, Imported, AtCollector
<1>4. CASE UNCHANGED captureVars
  BY <1>4 DEF captureVars
<1>5. QED
  BY <1>1, <1>2, <1>3, <1>4

\* transport is what only the worklet writes.
LEMMA TransportOwn ==
    ASSUME UNCHANGED transport
    PROVE  /\ UNCHANGED Own
           /\ UNCHANGED <<inFlight, accepted, shipped, sequence, rejected>>
           /\ Over' <=> Over
  BY DEF transport, Own, producer, pool, starvation, life, Over

-----------------------------------------------------------------------------
(***************************************************************************)
(* What the collector has, and will have once a queue was handled.         *)
(***************************************************************************)
\* Its ordinary batches, the number of the next chunk and the records.
Progress == [ordinary : Nat, number : Nat, audio : Seq(Records)]
Point(o, n, a) == [ordinary |-> o, number |-> n, audio |-> a]

Handled(c, m) ==
    CASE m.type = "records"     -> [c EXCEPT !.ordinary = @ + 1]
      [] m.type = "trace-chunk" -> [c EXCEPT !.number = @ + 1, !.audio = @ \o m.data]
      [] OTHER                  -> c

\* A message whose handler, called at c, finds what the message declares: the
\* chunk it expects; with trace-stopped, or with finish, everything there is (f).
Good(c, m, f) ==
    /\ m.type = "start" => c.number = 0 /\ c.audio = <<>>
    /\ m.type = "trace-chunk" => m.sequence = c.number /\ Len(m.data) > 0
    /\ m.type = "trace-stopped" =>
         m.chunkCount = c.number /\ c.number = f.number /\ c.audio = f.audio
    /\ m.type = "audio-stopped" =>
         m.status.chunkCount = c.number /\ c.number = f.number /\ c.audio = f.audio
    /\ m.type = "finish" =>
         /\ c.ordinary = f.ordinary
         /\ m.attached => c.number = f.number /\ c.audio = f.audio

\* A run of handlers over the queue s, each message good, from a to b.
Along(s, a, b, f, run) ==
    /\ run \in [0..Len(s) -> Progress] /\ run[0] = a /\ run[Len(s)] = b
    /\ \A i \in 1..Len(s) : Good(run[i - 1], s[i], f) /\ run[i] = Handled(run[i - 1], s[i])

Leads(s, a, b, f) == \E run : Along(s, a, b, f, run)

LEMMA LeadsNowhere ==
    ASSUME NEW a, NEW b, NEW f, NEW s, s = <<>>, Leads(s, a, b, f)
    PROVE  a = b
  BY DEF Leads, Along

LEMMA LeadsStart ==
    ASSUME NEW a \in Progress, NEW f
    PROVE  Leads(<<>>, a, a, f)
<1>1. Along(<<>>, a, a, f, [i \in {0} |-> a])
  <2>1. 0..Len(<<>>) = {0} /\ 1..Len(<<>>) = {}
    OBVIOUS
  <2>2. QED
    BY <2>1 DEF Along
<1>2. QED
  BY <1>1 DEF Leads

LEMMA LeadsEnds ==
    ASSUME NEW S, NEW s \in Seq(S), NEW a, NEW b, NEW f, Leads(s, a, b, f)
    PROVE  a \in Progress /\ b \in Progress
<1>1. Len(s) \in Nat
  BY LenProperties
<1>2. QED
  BY <1>1 DEF Leads, Along

\* One more message at the end of the queue.
LEMMA LeadsAppend ==
    ASSUME NEW S, NEW s \in Seq(S), NEW m \in S, NEW a, NEW b, NEW f, NEW c,
           Leads(s, a, b, f), Good(b, m, f), c = Handled(b, m), c \in Progress
    PROVE  Leads(Append(s, m), a, c, f)
<1> DEFINE n == Len(s)
           t == Append(s, m)
<1>1. /\ Len(t) = n + 1 /\ n \in Nat /\ t[n + 1] = m
      /\ \A i \in 1..n : t[i] = s[i]
      /\ \A i \in 1..n + 1 : i \in 1..n \/ i = n + 1
  BY Appended
<1>2. PICK run : Along(s, a, b, f, run)
  BY DEF Leads
<1> DEFINE more == [i \in 0..n + 1 |-> IF i \in 0..n THEN run[i] ELSE c]
<1>3. /\ run \in [0..n -> Progress] /\ run[0] = a /\ run[n] = b
      /\ \A i \in 1..n : Good(run[i - 1], s[i], f) /\ run[i] = Handled(run[i - 1], s[i])
  BY <1>2 DEF Along
<1> HIDE DEF t, n
<1>4. /\ more \in [0..n + 1 -> Progress] /\ more[n + 1] = c
      /\ \A i \in 0..n : more[i] = run[i]
      /\ 0 \in 0..n /\ n \in 0..n /\ (n + 1) - 1 = n
      /\ \A i \in 1..n : i \in 0..n /\ i - 1 \in 0..n
  BY <1>1, <1>3
<1> HIDE DEF more
<1>5. ASSUME NEW i \in 1..n + 1
      PROVE  Good(more[i - 1], t[i], f) /\ more[i] = Handled(more[i - 1], t[i])
  <2>1. CASE i \in 1..n
    <3>1. more[i] = run[i] /\ more[i - 1] = run[i - 1] /\ t[i] = s[i]
      BY <1>1, <1>4, <2>1
    <3>2. QED
      BY <1>3, <2>1, <3>1
  <2>2. CASE i = n + 1
    <3>1. more[i] = c /\ more[i - 1] = b /\ t[i] = m
      BY <1>1, <1>3, <1>4, <2>2
    <3>2. QED
      BY <3>1
  <2>3. QED
    BY <1>1, <2>1, <2>2
<1>6. Along(t, a, c, f, more)
  BY <1>1, <1>3, <1>4, <1>5 DEF Along
<1>7. QED
  BY <1>6 DEF Leads, t

\* The first message of the queue is handled.
LEMMA LeadsTail ==
    ASSUME NEW S, NEW s \in Seq(S), s # <<>>, NEW a, NEW b, NEW f, Leads(s, a, b, f)
    PROVE  /\ Good(a, Head(s), f) /\ Handled(a, Head(s)) \in Progress
           /\ Leads(Tail(s), Handled(a, Head(s)), b, f)
<1> DEFINE n == Len(s)
           t == Tail(s)
<1>1. /\ n \in Nat \ {0} /\ Len(t) = n - 1 /\ Head(s) = s[1]
      /\ \A i \in 1..Len(t) : i + 1 \in 1..n /\ i + 1 # 1 /\ t[i] = s[i + 1]
  BY TailOf
<1>2. PICK run : Along(s, a, b, f, run)
  BY DEF Leads
<1>3. /\ run \in [0..n -> Progress] /\ run[0] = a /\ run[n] = b
      /\ \A i \in 1..n : Good(run[i - 1], s[i], f) /\ run[i] = Handled(run[i - 1], s[i])
  BY <1>2 DEF Along
<1> DEFINE less == [i \in 0..n - 1 |-> run[i + 1]]
<1> HIDE DEF t, n
<1>4. /\ 1 \in 1..n /\ 1 - 1 = 0 /\ 1 \in 0..n /\ 0 \in 0..n - 1 /\ 0 + 1 = 1
      /\ n - 1 \in 0..n - 1 /\ (n - 1) + 1 = n
      /\ \A i \in 0..n - 1 : i + 1 \in 0..n
      /\ \A i \in 1..n - 1 : i + 1 \in 1..n /\ i \in 0..n - 1 /\ i - 1 \in 0..n - 1
                             /\ (i + 1) - 1 = i /\ (i - 1) + 1 = i
  BY <1>1
<1>5. less \in [0..n - 1 -> Progress] /\ \A i \in 0..n - 1 : less[i] = run[i + 1]
  BY <1>3, <1>4
<1> HIDE DEF less
<1>6. Good(a, Head(s), f) /\ run[1] = Handled(a, Head(s)) /\ run[1] \in Progress
  BY <1>1, <1>3, <1>4
<1>7. less[0] = run[1] /\ less[n - 1] = b
  BY <1>3, <1>4, <1>5
<1>8. ASSUME NEW i \in 1..n - 1
      PROVE  Good(less[i - 1], t[i], f) /\ less[i] = Handled(less[i - 1], t[i])
  <2>1. less[i - 1] = run[i] /\ less[i] = run[i + 1] /\ t[i] = s[i + 1]
    BY <1>1, <1>4, <1>5
  <2>2. Good(run[i], s[i + 1], f) /\ run[i + 1] = Handled(run[i], s[i + 1])
    BY <1>3, <1>4
  <2>3. QED
    BY <2>1, <2>2
<1>9. Along(t, Handled(a, Head(s)), b, f, less)
  BY <1>1, <1>5, <1>6, <1>7, <1>8 DEF Along
<1>10. QED
  BY <1>6, <1>9 DEF Leads, t

\* What everything is may change while no message speaks of it.
LEMMA LeadsOther ==
    ASSUME NEW s, NEW a, NEW b, NEW f, NEW g, Leads(s, a, b, f),
           \A i \in 1..Len(s) : \A c : Good(c, s[i], f) => Good(c, s[i], g)
    PROVE  Leads(s, a, b, g)
  BY DEF Leads, Along

-----------------------------------------------------------------------------
(***************************************************************************)
(* The messages between the page and the collector.                        *)
(***************************************************************************)
StartMessage == [type |-> "start"]
BatchMessage == [type |-> "records"]
StoppedMessages == [type : {"audio-stopped"}, status : StopMessages]
FinishMessages == [type : {"finish"}, attached : BOOLEAN]
CollectorMessages ==
    ChunkMessages \union {StartMessage, BatchMessage} \union StoppedMessages
      \union FinishMessages
AnswerMessages == {[type |-> "trace"], [type |-> "error"]}
PageMessages == Returns \union AnswerMessages

\* Where the messages of a type are in toCollector.
Waiting(type) == {i \in 1..Len(toCollector) : toCollector[i].type = type}

\* The types of the page's and the collector's state, and of what the page
\* posts to the worklet: a returned buffer is one of this capture's.
Types ==
    /\ toCollector \in Seq(CollectorMessages) /\ fromCollector \in Seq(PageMessages)
    /\ toWorklet \in Seq(Returns \union Commands)
    /\ submitted \in Nat /\ ordinary \in Nat /\ audioSequence \in Nat
    /\ audioChunks \in Seq(Records)
    /\ audioStatus \in StopMessages \union {None} /\ status \in StopMessages \union {None}
    /\ attached \in BOOLEAN /\ closed \in BOOLEAN /\ started \in BOOLEAN
    /\ trace \in Traces \union {None}

\* What the collector has, and what there is.
Now == Point(ordinary, audioSequence, audioChunks)
Final == Point(submitted, sequence, shipped)
Audio(c) == [c EXCEPT !.ordinary = 0]

\* The collector handles what the page has sent it, and then what the worklet
\* has posted, to the end of what was submitted and shipped.
DeliveredTo(mid) ==
    /\ mid \in Progress /\ mid.ordinary = submitted
    /\ Leads(toCollector, Now, mid, Final)
    /\ Leads(toMain, Audio(mid), Audio(Final), Final)
    /\ audioStatus # None => mid = Final
Delivered == \E mid : DeliveredTo(mid)

\* The collector has nothing before start, which is its first message.
Begun ==
    /\ ~started => /\ toCollector = <<>> /\ ~attached
                   /\ audioSequence = 0 /\ audioChunks = <<>>
    /\ (~started \/ Waiting("start") # {}) => status = None
    /\ \A i \in Waiting("start") : i = 1

\* Once the page has the report, the worklet has posted everything, and the
\* collector has the same report or will have it.
Reported ==
    /\ audioStatus # None =>
         /\ started /\ Over /\ \A i \in 1..Len(toMain) : toMain[i] = AbortedMessage
         /\ shipped = accepted /\ audioStatus.emitted = Len(shipped)
         /\ status = audioStatus \/ Waiting("audio-stopped") # {}
    /\ status # None => status = audioStatus
    /\ \A i \in Waiting("audio-stopped") :
         audioStatus # None /\ toCollector[i].status = audioStatus

\* Everything the trace needs comes before finish.
Finishing ==
    \A i \in Waiting("finish") :
      /\ started /\ closed /\ trace = None
      /\ \A j \in Waiting("records") \union Waiting("finish") : j <= i
      /\ toCollector[i].attached =>
           /\ audioStatus # None
           /\ \A j \in Waiting("trace-chunk") \union Waiting("audio-stopped") : j <= i

\* The collector has everything when it imports.
Importing ==
    /\ phase = "importing" => trace # None
    /\ trace # None =>
         /\ started /\ closed
         /\ Waiting("finish") = {} /\ Waiting("records") = {} /\ Waiting("start") = {}
         /\ ordinary = submitted
         /\ trace.attached =>
              /\ audioStatus # None /\ status = audioStatus
              /\ Waiting("trace-chunk") = {} /\ audioChunks = accepted

\* And the trace it answers with holds everything.
Traced ==
    (result = "trace" \/ \E i \in 1..Len(fromCollector) : fromCollector[i].type = "trace") =>
      /\ trace # None /\ phase # "importing"
      /\ trace.ordinary = submitted
      /\ trace.attached => trace.audio = accepted /\ trace.status = audioStatus

\* The buffers between the page and the collector, each in one place.
InC == TokensIn(toCollector, ChunkMessages)
InF == TokensIn(fromCollector, Returns)
Relayed ==
    /\ OneEach(toCollector, ChunkMessages) /\ OneEach(fromCollector, Returns)
    /\ InC \intersect InF = {}

Worker == Inv /\ Mail /\ Reporting
Answered == faults = 0 /\ rejected = 0
Capture ==
    /\ Worker /\ Types /\ Away(Held) /\ Relayed
    /\ Delivered /\ Begun /\ Reported /\ Finishing /\ Importing /\ Traced

-----------------------------------------------------------------------------
(***************************************************************************)
(* The queue of the collector.                                             *)
(***************************************************************************)
LEMMA CollectorTypes ==
    /\ \A m \in CollectorMessages :
         /\ m.type = "trace-chunk" <=> m \in ChunkMessages
         /\ m.type = "audio-stopped" <=> m \in StoppedMessages
         /\ m.type = "finish" <=> m \in FinishMessages
         /\ m.type = "start" <=> m = StartMessage
         /\ m.type = "records" <=> m = BatchMessage
    /\ \A m \in MainMessages :
         /\ m.type = "trace-chunk" <=> m \in ChunkMessages
         /\ m.type = "trace-stopped" <=> m \in StopMessages
         /\ m.type = "trace-aborted" <=> m = AbortedMessage
         /\ m \in ChunkMessages \/ m \in StopMessages \/ m = AbortedMessage
    /\ \A m \in PageMessages : m.type = "recycle" <=> m \in Returns
  BY DEF CollectorMessages, ChunkMessages, StoppedMessages, FinishMessages, StartMessage,
         BatchMessage, MainMessages, StopMessages, AbortedMessage, PageMessages, Returns,
         RecycleMessages, AnswerMessages

\* A message is added.
LEMMA WaitingAppended ==
    ASSUME Types, NEW m \in CollectorMessages, toCollector' = Append(toCollector, m)
    PROVE  /\ toCollector' \in Seq(CollectorMessages)
           /\ Len(toCollector) \in Nat
           /\ \A i \in Waiting(m.type)' : i \in Waiting(m.type) \/ i = Len(toCollector) + 1
           /\ Len(toCollector) + 1 \in Waiting(m.type)'
           /\ \A t : t # m.type => Waiting(t)' = Waiting(t)
           /\ \A t : Waiting(t) \subseteq Waiting(t)'
           /\ \A t : \A i \in Waiting(t) :
                i \in Nat /\ i < Len(toCollector) + 1 /\ toCollector'[i] = toCollector[i]
           /\ toCollector'[Len(toCollector) + 1] = m
<1> DEFINE n == Len(toCollector)
<1>1. /\ toCollector' \in Seq(CollectorMessages) /\ Len(toCollector') = n + 1 /\ n \in Nat
      /\ toCollector'[n + 1] = m
      /\ \A i \in 1..n : toCollector'[i] = toCollector[i]
      /\ \A i \in 1..n + 1 : i \in 1..n \/ i = n + 1
      /\ \A i \in 1..n : i \in 1..n + 1 /\ i \in Nat /\ i < n + 1
      /\ n + 1 \in 1..n + 1
  BY Appended DEF Types
<1> HIDE DEF n
<1>2. \A t : \A i \in Waiting(t) : i \in 1..n /\ i \in Waiting(t)' /\ toCollector'[i] = toCollector[i]
  BY <1>1 DEF Waiting, n
<1>3. \A t : \A i \in Waiting(t)' : i \in Waiting(t) \/ (i = n + 1 /\ t = m.type)
  BY <1>1 DEF Waiting, n
<1>4. n + 1 \in Waiting(m.type)'
  BY <1>1 DEF Waiting
<1>5. ASSUME NEW t, t # m.type PROVE Waiting(t)' = Waiting(t)
  <2>1. \A i \in Waiting(t)' : i \in Waiting(t)
    BY <1>3, <1>5
  <2>2. \A i \in Waiting(t) : i \in Waiting(t)'
    BY <1>2
  <2>3. QED
    BY <2>1, <2>2
<1>6. QED
  BY <1>1, <1>2, <1>3, <1>4, <1>5 DEF n

\* The first message is taken.
LEMMA WaitingTaken ==
    ASSUME Types, toCollector # <<>>, toCollector' = Tail(toCollector)
    PROVE  /\ toCollector' \in Seq(CollectorMessages)
           /\ Head(toCollector) \in CollectorMessages /\ Head(toCollector) = toCollector[1]
           /\ 1 \in Waiting(Head(toCollector).type)
           /\ \A t : \A i \in Waiting(t)' :
                i \in Nat /\ i # 0 /\ i + 1 \in Waiting(t) /\ toCollector'[i] = toCollector[i + 1]
           /\ \A t : t # Head(toCollector).type => 1 \notin Waiting(t)
           /\ \A t : \A i \in Waiting(t) : i # 1 => i - 1 \in Waiting(t)'
<1> DEFINE n == Len(toCollector)
<1>1. /\ toCollector' \in Seq(CollectorMessages) /\ Len(toCollector') = n - 1 /\ n \in Nat \ {0}
      /\ Head(toCollector) = toCollector[1] /\ Head(toCollector) \in CollectorMessages
      /\ \A i \in 1..n - 1 : i \in Nat /\ i # 0 /\ i + 1 \in 1..n /\ toCollector'[i] = toCollector[i + 1]
  BY TailOf DEF Types
<1>2. 1 \in 1..n /\ \A i \in 1..n : i # 1 => i - 1 \in 1..n - 1 /\ (i - 1) + 1 = i
  BY <1>1
<1> HIDE DEF n
<1>3. \A t : \A i \in Waiting(t)' :
        i \in Nat /\ i # 0 /\ i + 1 \in Waiting(t) /\ toCollector'[i] = toCollector[i + 1]
  BY <1>1 DEF Waiting, n
<1>4. \A t : 1 \in Waiting(t) <=> t = Head(toCollector).type
  BY <1>1, <1>2 DEF Waiting, n
<1>5. \A t : \A i \in Waiting(t) : i # 1 => i - 1 \in Waiting(t)'
  BY <1>1, <1>2 DEF Waiting, n
<1>6. QED
  BY <1>1, <1>3, <1>4, <1>5

\* The buffers between the page and the collector.
LEMMA HeldIs == Types => Held = InC \union InF
<1> SUFFICES ASSUME Types PROVE Held = InC \union InF
  OBVIOUS
<1>1. \A i \in 1..Len(toCollector) : toCollector[i].type = "trace-chunk" <=> toCollector[i] \in ChunkMessages
  <2>1. \A i \in 1..Len(toCollector) : toCollector[i] \in CollectorMessages
    BY ElementOfSeq DEF Types
  <2>2. QED
    BY <2>1, CollectorTypes
<1>2. \A i \in 1..Len(fromCollector) : fromCollector[i].type = "recycle" <=> fromCollector[i] \in Returns
  <2>1. \A i \in 1..Len(fromCollector) : fromCollector[i] \in PageMessages
    BY ElementOfSeq DEF Types
  <2>2. QED
    BY <2>1, CollectorTypes
<1>3. QED
  BY <1>1, <1>2 DEF Held, InC, InF, TokensIn

\* The worklet's steps take at most one of the page's messages.
LEMMA WorkletTakes ==
    ASSUME WorkletStep
    PROVE  toWorklet' = toWorklet \/ (toWorklet # <<>> /\ toWorklet' = Tail(toWorklet))
<1>1. CASE Callback
  BY <1>1 DEF Callback, EmitRecorded, EmitDropped, StartDrain
<1>2. CASE Loop
  BY <1>2 DEF Loop, DrainStarved, DrainTurn, DrainDone, FinishPartial, FinishReport
<1>3. CASE Handler
  BY <1>3 DEF Handler, RecycleRefused, RecycleAccepted, Stop, StopIgnored, Abort,
              AbortIgnored, Received
<1>4. QED
  BY <1>1, <1>2, <1>3 DEF WorkletStep

\* A message of the port is of the type its handler is for.
LEMMA PortHead ==
    ASSUME Mail, NEW type, FromPort(type)
    PROVE  /\ toMain # <<>> /\ toMain' = Tail(toMain) /\ attached
           /\ Head(toMain) \in MainMessages /\ Head(toMain) = toMain[1] /\ 1 \in 1..Len(toMain)
           /\ type = "trace-chunk" => Head(toMain) \in ChunkMessages
           /\ type # "trace-chunk" => Head(toMain) \notin ChunkMessages
           /\ type = "trace-stopped" => Head(toMain) \in StopMessages
           /\ type = "trace-aborted" => Head(toMain) = AbortedMessage
<1>1. toMain # <<>> /\ Head(toMain).type = type /\ toMain' = Tail(toMain) /\ attached
  BY DEF FromPort
<1>2. Head(toMain) \in MainMessages /\ Head(toMain) = toMain[1] /\ Len(toMain) \in Nat \ {0}
  BY <1>1, TailOf DEF Mail
<1>3. QED
  BY <1>1, <1>2, CollectorTypes

\* So is one of the collector's queue.
LEMMA CollectorHead ==
    ASSUME Types, NEW type, AtCollector(type)
    PROVE  /\ toCollector # <<>> /\ toCollector' = Tail(toCollector)
           /\ Head(toCollector) \in CollectorMessages /\ Head(toCollector).type = type
           /\ Head(toCollector) = toCollector[1] /\ 1 \in Waiting(type)
           /\ toCollector' \in Seq(CollectorMessages)
           /\ type = "trace-chunk" => Head(toCollector) \in ChunkMessages
           /\ type # "trace-chunk" => Head(toCollector) \notin ChunkMessages
           /\ type = "audio-stopped" => Head(toCollector) \in StoppedMessages
           /\ type = "finish" => Head(toCollector) \in FinishMessages
           /\ UNCHANGED <<transport, processor, page, toMain, toWorklet>>
<1>1. /\ toCollector # <<>> /\ Head(toCollector).type = type /\ toCollector' = Tail(toCollector)
      /\ UNCHANGED <<transport, processor, page, toMain, toWorklet>>
  BY DEF AtCollector
<1>2. QED
  BY <1>1, WaitingTaken, CollectorTypes

\* And one of the page's.
LEMMA PageHead ==
    ASSUME Types, fromCollector # <<>>
    PROVE  /\ Head(fromCollector) \in PageMessages /\ Tail(fromCollector) \in Seq(PageMessages)
           /\ Head(fromCollector).type = "recycle" <=> Head(fromCollector) \in Returns
<1>1. Head(fromCollector) \in PageMessages /\ Tail(fromCollector) \in Seq(PageMessages)
  BY TailOf DEF Types
<1>2. QED
  BY <1>1, CollectorTypes

-----------------------------------------------------------------------------
(***************************************************************************)
(* The types of the page's and the collector's state.                      *)
(***************************************************************************)
LEMMA PageTypes ==
    ASSUME Mail, Types, PageMessage
    PROVE  Types'
<1> USE DEF page, collector
<1>1. CASE RelayChunk
  <2>1. Head(toMain) \in CollectorMessages
    BY <1>1, PortHead DEF RelayChunk, CollectorMessages
  <2>2. toCollector' \in Seq(CollectorMessages)
    BY <1>1, <2>1, Appended DEF RelayChunk, Types
  <2>3. QED
    BY <1>1, <2>2 DEF RelayChunk, Types
<1>2. CASE AudioStopped
  <2>1. Head(toMain) \in StopMessages
    BY <1>2, PortHead DEF AudioStopped
  <2>2. [type |-> "audio-stopped", status |-> Head(toMain)] \in CollectorMessages
    BY <2>1 DEF CollectorMessages, StoppedMessages
  <2>3. toCollector' \in Seq(CollectorMessages)
    BY <1>2, <2>2, Appended DEF AudioStopped, Types
  <2>4. QED
    BY <1>2, <2>1, <2>3 DEF AudioStopped, Types
<1>3. CASE AudioAborted
  BY <1>3 DEF AudioAborted, Types
<1>4. CASE RelayRecycle
  <2>1. Head(fromCollector) \in Returns /\ Tail(fromCollector) \in Seq(PageMessages)
    BY <1>4, PageHead DEF RelayRecycle
  <2>2. toWorklet' \in Seq(Returns \union Commands)
    BY <1>4, <2>1, Appended DEF RelayRecycle, Types
  <2>3. QED
    BY <1>4, <2>1, <2>2 DEF RelayRecycle, Types
<1>5. CASE Result
  <2>1. Tail(fromCollector) \in Seq(PageMessages)
    BY <1>5, PageHead DEF Result
  <2>2. QED
    BY <1>5, <2>1 DEF Result, Types
<1>6. QED
  BY <1>1, <1>2, <1>3, <1>4, <1>5 DEF PageMessage

LEMMA ApplicationTypes ==
    ASSUME Mail, Types, Application
    PROVE  Types'
<1> USE DEF collector, channels
<1>1. ASSUME NEW m \in CollectorMessages, ToCollector(m) PROVE toCollector' \in Seq(CollectorMessages)
  BY <1>1, Appended DEF ToCollector, Types
<1>2. ASSUME NEW m \in Commands, toWorklet' = Append(toWorklet, m)
      PROVE  toWorklet' \in Seq(Returns \union Commands)
  BY <1>2, Appended DEF Types
<1>3. CASE Start
  <2>1. toCollector' \in Seq(CollectorMessages)
    BY <1>1, <1>3 DEF Start, CollectorMessages, StartMessage
  <2>2. QED
    BY <1>3, <2>1 DEF Start, Types
<1>4. CASE Attach
  BY <1>4 DEF Attach, Types
<1>5. CASE StopAudio \/ StopTimeout \/ StopRejected
  <2>1. toWorklet' \in Seq(Returns \union Commands)
    BY <1>2, <1>5 DEF StopAudio, StopTimeout, StopRejected, StopFails, Commands
  <2>2. QED
    BY <1>5, <2>1 DEF StopAudio, StopTimeout, StopRejected, StopFails, Types
<1>6. CASE Submit
  <2>1. toCollector' \in Seq(CollectorMessages)
    BY <1>1, <1>6 DEF Submit, CollectorMessages, BatchMessage
  <2>2. QED
    BY <1>6, <2>1 DEF Submit, Types
<1>7. CASE AbortCapture
  <2>1. toWorklet' \in Seq(Returns \union Commands)
    BY <1>2, <1>7 DEF AbortCapture, Commands, Types
  <2>2. QED
    BY <1>7, <2>1 DEF AbortCapture, Types
<1>8. CASE Finish
  <2>1. [type |-> "finish", attached |-> attached] \in CollectorMessages
    BY DEF Types, CollectorMessages, FinishMessages
  <2>2. toCollector' \in Seq(CollectorMessages)
    BY <1>1, <1>8, <2>1 DEF Finish
  <2>3. QED
    BY <1>8, <2>2 DEF Finish, Types
<1>9. QED
  BY <1>3, <1>4, <1>5, <1>6, <1>7, <1>8 DEF Application

LEMMA CollectorStepTypes ==
    ASSUME Types, Importing, Collector
    PROVE  Types'
<1>1. CASE Imported
  <2>1. UNCHANGED <<page, toCollector, toWorklet, ordinary, audioChunks, audioSequence, status>>
    BY <1>1 DEF Imported
  <2>2. fromCollector' \in Seq(PageMessages)
    <3>1. PICK m \in PageMessages : fromCollector' = Append(fromCollector, m)
      BY <1>1 DEF Imported, PageMessages, AnswerMessages
    <3>2. QED
      BY <3>1, Appended DEF Types
  <2>3. trace' \in Traces \union {None}
    <3>1. trace # None
      BY <1>1 DEF Imported, Importing
    <3>2. trace.attached \in BOOLEAN
      BY <3>1 DEF Types, Traces
    <3>3. [attached |-> trace.attached, ordinary |-> ordinary,
           audio |-> audioChunks, status |-> status] \in Traces
      BY <3>2 DEF Types, Traces
    <3>4. QED
      BY <1>1, <3>3 DEF Imported, Types
  <2>4. QED
    BY <2>1, <2>2, <2>3 DEF Types, page
<1>2. ASSUME UNCHANGED <<page, toWorklet>>, toCollector' \in Seq(CollectorMessages),
             fromCollector' \in Seq(PageMessages), ordinary' \in Nat, audioSequence' \in Nat,
             audioChunks' \in Seq(Records), status' \in StopMessages \union {None},
             trace' \in Traces \union {None}
      PROVE  Types'
  BY <1>2 DEF Types, page
<1>3. CASE CollectStart
  BY <1>2, <1>3, CollectorHead, EmptySeq DEF CollectStart, Types
<1>4. CASE CollectRecords
  BY <1>2, <1>4, CollectorHead DEF CollectRecords, Types
<1>5. CASE CollectChunk
  <2>1. Head(toCollector) \in ChunkMessages
    BY <1>5, CollectorHead DEF CollectChunk
  <2>2. Recycled(Head(toCollector).poolToken, TRUE, TRUE) \in PageMessages
    BY <2>1 DEF ChunkMessages, Recycled, PageMessages, Returns, RecycleMessages
  <2>3. fromCollector' \in Seq(PageMessages)
    BY <1>5, <2>2, Appended, ZenonT(40) DEF CollectChunk, Types
  <2>4. audioChunks \o Head(toCollector).data \in Seq(Records)
    BY <2>1, ConcatProperties DEF Types, ChunkMessages
  <2>5. audioChunks' \in Seq(Records) /\ audioSequence' \in Nat
    <3>1. \/ /\ audioChunks' = audioChunks \o Head(toCollector).data
             /\ audioSequence' = audioSequence + 1
          \/ audioChunks' = audioChunks /\ audioSequence' = audioSequence
      BY <1>5 DEF CollectChunk
    <3>2. audioSequence' \in Nat
      BY <3>1 DEF Types
    <3>3. audioChunks \in Seq(Records)
      BY DEF Types
    <3>4. QED
      BY <2>4, <3>1, <3>2, <3>3
  <2>6. QED
    BY <1>2, <1>5, <2>3, <2>5, CollectorHead DEF CollectChunk, Types
<1>6. CASE CollectStopped
  <2>1. Head(toCollector).status \in StopMessages
    BY <1>6, CollectorHead DEF CollectStopped, StoppedMessages
  <2>2. QED
    BY <1>2, <1>6, <2>1, CollectorHead DEF CollectStopped, Types
<1>7. CASE CollectFinish
  <2>1. [attached |-> Head(toCollector).attached] \in Traces
    BY <1>7, CollectorHead DEF CollectFinish, FinishMessages, Traces
  <2>2. QED
    BY <1>2, <1>7, <2>1, CollectorHead DEF CollectFinish, Types
<1>8. QED
  BY <1>1, <1>3, <1>4, <1>5, <1>6, <1>7 DEF Collector

LEMMA StepTypes ==
    ASSUME Mail, Types, Importing, Quantum, [CaptureNext]_captureVars
    PROVE  Types'
<1>1. CASE Worklet
  <2>1. UNCHANGED <<page, collector, toCollector, fromCollector>>
    BY <1>1, WorkletThread DEF Elsewhere
  <2>2. toWorklet' = toWorklet \/ (toWorklet # <<>> /\ toWorklet' = Tail(toWorklet))
    BY <1>1, WorkletThread, WorkletTakes
  <2>3. toWorklet \in Seq(Returns \union Commands)
    BY DEF Types
  <2>4. toWorklet' \in Seq(Returns \union Commands)
    BY <2>2, <2>3, TailOf
  <2>5. QED
    BY <2>1, <2>4 DEF Types, page, collector
<1>2. CASE UNCHANGED captureVars
  BY <1>2 DEF captureVars, Types, page, collector, channels
<1>3. QED
  BY <1>1, <1>2, PageTypes, ApplicationTypes, CollectorStepTypes DEF CaptureNext

LEMMA InitTypes == CaptureInit => Types
<1> SUFFICES ASSUME CaptureInit PROVE Types
  OBVIOUS
<1>1. QED
  BY EmptySeq DEF CaptureInit, WorkletInit, Types

\* The collector's handlers find what their messages declare.
LEMMA HandledGood ==
    ASSUME Types, Delivered, NEW type, AtCollector(type)
    PROVE  Good(Now, Head(toCollector), Final)
<1>1. PICK mid : DeliveredTo(mid)
  BY DEF Delivered
<1>2. toCollector # <<>> /\ toCollector \in Seq(CollectorMessages)
  BY CollectorHead DEF Types
<1>3. QED
  BY <1>1, <1>2, LeadsTail DEF DeliveredTo

LEMMA ChunkIsGood == ASSUME Types, Delivered, CollectChunk PROVE GoodChunk(Head(toCollector))
<1>1. Good(Now, Head(toCollector), Final) /\ Head(toCollector).type = "trace-chunk"
  BY HandledGood, CollectorHead DEF CollectChunk
<1>2. QED
  BY <1>1 DEF Good, Now, Point, GoodChunk

LEMMA ReportIsGood ==
    ASSUME Types, Delivered, CollectStopped
    PROVE  Head(toCollector).status.chunkCount = audioSequence
<1>1. Good(Now, Head(toCollector), Final) /\ Head(toCollector).type = "audio-stopped"
  BY HandledGood, CollectorHead DEF CollectStopped
<1>2. QED
  BY <1>1 DEF Good, Now, Point

-----------------------------------------------------------------------------
(***************************************************************************)
(* The buffers on their way: from the worklet to the page, from there to   *)
(* the collector, back to the page and back to the worklet.                *)
(***************************************************************************)
\* The buffers of the messages that a queue still has.
LEMMA SameBuffers ==
    /\ toCollector' = toCollector =>
         /\ InC' = InC
         /\ OneEach(toCollector, ChunkMessages)' <=> OneEach(toCollector, ChunkMessages)
    /\ fromCollector' = fromCollector =>
         /\ InF' = InF
         /\ OneEach(fromCollector, Returns)' <=> OneEach(fromCollector, Returns)
  BY DEF InC, InF, TokensIn, OneEach

LEMMA PlainAppended ==
    ASSUME Types, Relayed
    PROVE  /\ \A m \in CollectorMessages :
                m \notin ChunkMessages /\ toCollector' = Append(toCollector, m) =>
                  InC' = InC /\ OneEach(toCollector, ChunkMessages)'
           /\ \A m \in PageMessages :
                m \notin Returns /\ fromCollector' = Append(fromCollector, m) =>
                  InF' = InF /\ OneEach(fromCollector, Returns)'
<1>1. ASSUME NEW m \in CollectorMessages, m \notin ChunkMessages,
             toCollector' = Append(toCollector, m)
      PROVE  InC' = InC /\ OneEach(toCollector, ChunkMessages)'
  BY <1>1, TokensAppended DEF Types, Relayed, InC
<1>2. ASSUME NEW m \in PageMessages, m \notin Returns, fromCollector' = Append(fromCollector, m)
      PROVE  InF' = InF /\ OneEach(fromCollector, Returns)'
  BY <1>2, TokensAppended DEF Types, Relayed, InF
<1>3. QED
  BY <1>1, <1>2

LEMMA PlainTaken ==
    ASSUME Types, Relayed
    PROVE  /\ toCollector # <<>> /\ Head(toCollector) \notin ChunkMessages
                /\ toCollector' = Tail(toCollector) =>
                  InC' = InC /\ OneEach(toCollector, ChunkMessages)'
           /\ fromCollector # <<>> /\ Head(fromCollector) \notin Returns
                /\ fromCollector' = Tail(fromCollector) =>
                  InF' = InF /\ OneEach(fromCollector, Returns)'
<1>1. ASSUME toCollector # <<>>, Head(toCollector) \notin ChunkMessages,
             toCollector' = Tail(toCollector)
      PROVE  InC' = InC /\ OneEach(toCollector, ChunkMessages)'
  BY <1>1, TokensTaken DEF Types, Relayed, InC
<1>2. ASSUME fromCollector # <<>>, Head(fromCollector) \notin Returns,
             fromCollector' = Tail(fromCollector)
      PROVE  InF' = InF /\ OneEach(fromCollector, Returns)'
  BY <1>2, TokensTaken DEF Types, Relayed, InF
<1>3. QED
  BY <1>1, <1>2

\* The page relays a chunk.
LEMMA RelayChunkHeld ==
    ASSUME Mail, Types, Away(Held), Relayed, RelayChunk
    PROVE  /\ Relayed' /\ InC' \union InF' = Held \union {Head(toMain).poolToken}
           /\ Head(toMain) \in ChunkMessages
<1> DEFINE t == Head(toMain).poolToken
<1>1. /\ toMain # <<>> /\ Head(toMain) \in ChunkMessages /\ Head(toMain) \in CollectorMessages
      /\ toCollector' = Append(toCollector, Head(toMain)) /\ fromCollector' = fromCollector
  BY PortHead DEF RelayChunk, CollectorMessages
<1>2. Held = InC \union InF
  BY HeldIs
<1>3. t \in Out
  BY <1>1, TokensTaken DEF Away, Out, Mail
<1>4. t \notin InC /\ t \notin InF
  BY <1>2, <1>3 DEF Away
<1>5. InC' = InC \union {t} /\ OneEach(toCollector, ChunkMessages)'
  BY <1>1, <1>4, TokensAppended DEF Types, Relayed, InC
<1>6. InF' = InF /\ OneEach(fromCollector, Returns)'
  BY <1>1, SameBuffers DEF Relayed
<1>7. QED
  BY <1>1, <1>2, <1>4, <1>5, <1>6 DEF Relayed

\* The collector handles it and gives its buffer back.
LEMMA CollectChunkHeld ==
    ASSUME Types, Relayed, Delivered, CollectChunk
    PROVE  Relayed' /\ InC' \union InF' = Held
<1> DEFINE t == Head(toCollector).poolToken
           m == Recycled(Head(toCollector).poolToken, TRUE, TRUE)
<1>1. /\ toCollector # <<>> /\ Head(toCollector) \in ChunkMessages
      /\ toCollector' = Tail(toCollector)
  BY CollectorHead DEF CollectChunk
<1>2. fromCollector' = Append(fromCollector, m)
  BY ChunkIsGood DEF CollectChunk
<1>3. m \in Returns /\ m.poolToken = t
  BY <1>1 DEF ChunkMessages, Recycled, Returns, RecycleMessages
<1>4. InC' = InC \ {t} /\ t \in InC /\ OneEach(toCollector, ChunkMessages)'
  BY <1>1, TokensTaken DEF Types, Relayed, InC
<1> HIDE DEF m
<1>5. m \in PageMessages /\ t \notin InF
  BY <1>3, <1>4 DEF PageMessages, Relayed
<1>6. InF' = InF \union {t} /\ OneEach(fromCollector, Returns)'
  BY <1>2, <1>3, <1>5, TokensAppended DEF Types, Relayed, InF
<1>7. QED
  BY <1>4, <1>6, HeldIs DEF Relayed

\* The page relays it.
LEMMA RelayRecycleHeld ==
    ASSUME Types, Relayed, RelayRecycle
    PROVE  /\ Relayed' /\ InC' \union InF' = Held \ {Head(fromCollector).poolToken}
           /\ Head(fromCollector) \in Returns /\ Head(fromCollector).poolToken \in Held
<1> DEFINE t == Head(fromCollector).poolToken
<1>1. /\ fromCollector # <<>> /\ Head(fromCollector) \in Returns
      /\ fromCollector' = Tail(fromCollector) /\ toCollector' = toCollector
  BY PageHead DEF RelayRecycle
<1>2. InF' = InF \ {t} /\ t \in InF /\ OneEach(fromCollector, Returns)'
  BY <1>1, TokensTaken DEF Types, Relayed, InF
<1>3. InC' = InC /\ OneEach(toCollector, ChunkMessages)'
  BY <1>1, SameBuffers DEF Relayed
<1>4. QED
  BY <1>1, <1>2, <1>3, HeldIs DEF Relayed

\* The other steps.
LEMMA OtherHeld ==
    ASSUME Mail, Types, Relayed, Quantum, [CaptureNext]_captureVars, ~RelayChunk, ~CollectChunk, ~RelayRecycle
    PROVE  Relayed' /\ InC' \union InF' = Held
<1> SUFFICES /\ InC' = InC /\ OneEach(toCollector, ChunkMessages)'
             /\ InF' = InF /\ OneEach(fromCollector, Returns)'
  BY HeldIs DEF Relayed
<1>1. CASE UNCHANGED <<toCollector, fromCollector>>
  BY <1>1, SameBuffers DEF Relayed
<1>2. CASE AudioStopped
  <2>1. Head(toMain) \in StopMessages
    BY <1>2, PortHead DEF AudioStopped
  <2>2. /\ [type |-> "audio-stopped", status |-> Head(toMain)] \in CollectorMessages
        /\ [type |-> "audio-stopped", status |-> Head(toMain)] \notin ChunkMessages
    BY <2>1 DEF CollectorMessages, StoppedMessages, ChunkMessages
  <2>3. QED
    BY <1>2, <2>2, PlainAppended, SameBuffers DEF AudioStopped, Relayed
<1>3. CASE Start \/ Submit \/ Finish
  <2>1. PICK m \in CollectorMessages : m \notin ChunkMessages /\ toCollector' = Append(toCollector, m)
    <3>1. StartMessage \in CollectorMessages /\ StartMessage \notin ChunkMessages
      BY DEF CollectorMessages, StartMessage, ChunkMessages
    <3>2. BatchMessage \in CollectorMessages /\ BatchMessage \notin ChunkMessages
      BY DEF CollectorMessages, BatchMessage, ChunkMessages
    <3>3. /\ [type |-> "finish", attached |-> attached] \in CollectorMessages
          /\ [type |-> "finish", attached |-> attached] \notin ChunkMessages
      BY DEF CollectorMessages, FinishMessages, ChunkMessages, Types
    <3>4. QED
      BY <1>3, <3>1, <3>2, <3>3 DEF Start, Submit, Finish, ToCollector, StartMessage, BatchMessage
  <2>2. fromCollector' = fromCollector
    BY <1>3 DEF Start, Submit, Finish
  <2>3. QED
    BY <2>1, <2>2, PlainAppended, SameBuffers DEF Relayed
<1>4. CASE Result
  <2>1. fromCollector # <<>> /\ Head(fromCollector) \notin Returns
    <3>1. fromCollector # <<>> /\ Head(fromCollector).type # "recycle"
      BY <1>4 DEF Result, Answers
    <3>2. QED
      BY <3>1, PageHead
  <2>2. QED
    BY <1>4, <2>1, PlainTaken, SameBuffers DEF Result, Relayed
<1>5. CASE CollectStart \/ CollectRecords \/ CollectStopped \/ CollectFinish
  <2>1. /\ toCollector # <<>> /\ toCollector' = Tail(toCollector)
        /\ Head(toCollector) \notin ChunkMessages /\ fromCollector' = fromCollector
    BY <1>5, CollectorHead DEF CollectStart, CollectRecords, CollectStopped, CollectFinish
  <2>2. QED
    BY <2>1, PlainTaken, SameBuffers DEF Relayed
<1>6. CASE Imported
  <2>1. PICK m \in PageMessages : m \notin Returns /\ fromCollector' = Append(fromCollector, m)
    BY <1>6 DEF Imported, PageMessages, AnswerMessages, Returns, RecycleMessages
  <2>2. toCollector' = toCollector
    BY <1>6 DEF Imported
  <2>3. QED
    BY <2>1, <2>2, PlainAppended, SameBuffers DEF Relayed
<1>7. CASE Worklet \/ UNCHANGED captureVars
  BY <1>1, <1>7, WorkletThread DEF Elsewhere, captureVars, channels
<1>8. CASE AudioAborted \/ Attach \/ StopAudio \/ StopTimeout \/ StopRejected \/ AbortCapture
  BY <1>1, <1>8 DEF AudioAborted, Attach, StopAudio, StopTimeout, StopRejected, StopFails, AbortCapture, channels
<1>9. QED
  BY <1>2, <1>3, <1>4, <1>5, <1>6, <1>7, <1>8 DEF CaptureNext, PageMessage, Application, Collector

LEMMA StepRelayed ==
    ASSUME Mail, Types, Away(Held), Relayed, Delivered, Quantum, [CaptureNext]_captureVars
    PROVE  Relayed'
  BY RelayChunkHeld, CollectChunkHeld, RelayRecycleHeld, OtherHeld

LEMMA CaptureAway ==
    ASSUME Inv, Mail, Types, Types', Away(Held), Relayed, Delivered, Quantum, [CaptureNext]_captureVars
    PROVE  Mail' /\ Away(Held)'
<1>1. PICK H, G : H = Held /\ G = Held'
  OBVIOUS
<1>2. Away(H)
  BY <1>1
<1>3. ASSUME Away(G)' PROVE Away(Held)'
  BY <1>1, <1>3 DEF Away
<1>4. G = InC' \union InF'
  <2>1. (Types => Held = InC \union InF)'
    BY HeldIs, PTL
  <2>2. QED
    BY <1>1, <2>1
<1>5. CASE RelayChunk
  <2>1. G = H \union {Head(toMain).poolToken} /\ Head(toMain) \in ChunkMessages
    BY <1>1, <1>4, <1>5, RelayChunkHeld
  <2>2. /\ toMain # <<>> /\ toMain' = Tail(toMain) /\ toWorklet' = toWorklet /\ inFlight' = inFlight
    BY <1>5, PortHead, TransportOwn DEF RelayChunk
  <2>3. QED
    BY <1>2, <1>3, <2>1, <2>2, TakenByPage
<1>6. CASE RelayRecycle
  <2>1. /\ G = H \ {Head(fromCollector).poolToken} /\ Head(fromCollector).poolToken \in H
        /\ Head(fromCollector) \in Returns
    BY <1>1, <1>4, <1>6, RelayRecycleHeld
  <2>2. /\ toWorklet' = Append(toWorklet, Head(fromCollector))
        /\ UNCHANGED <<toMain, inFlight>>
    BY <1>6, TransportOwn DEF RelayRecycle
  <2>3. Head(fromCollector) \in WorkletMessages
    BY <2>1 DEF Returns, WorkletMessages
  <2>4. QED
    BY <1>2, <1>3, <2>1, <2>2, <2>3, Posted
<1>7. CASE CollectChunk
  <2>1. G = H
    BY <1>1, <1>4, <1>7, CollectChunkHeld
  <2>2. UNCHANGED <<toMain, toWorklet, inFlight>>
    BY <1>7, CollectorHead, TransportOwn DEF CollectChunk
  <2>3. QED
    BY <1>2, <1>3, <2>1, <2>2, StillAway
<1>8. CASE ~RelayChunk /\ ~RelayRecycle /\ ~CollectChunk
  <2>1. G = H
    BY <1>1, <1>4, <1>8, OtherHeld
  <2>2. ASSUME Away(H)' PROVE Away(Held)'
    BY <1>3, <2>1, <2>2
  <2>3. CASE WorkletStep
    BY <1>2, <2>2, <2>3, WorkletAway, HandlerAway DEF WorkletStep
  <2>4. CASE UNCHANGED <<transport, toMain, toWorklet>>
    <3>1. UNCHANGED <<toMain, toWorklet, inFlight>>
      BY <2>4, TransportOwn
    <3>2. QED
      BY <1>2, <2>2, <3>1, StillAway
  <2>5. CASE AudioStopped \/ AudioAborted
    <3>1. /\ toMain # <<>> /\ toMain' = Tail(toMain) /\ Head(toMain) \notin ChunkMessages
          /\ inFlight' = inFlight
      BY <2>5, PortHead, TransportOwn DEF AudioStopped, AudioAborted
    <3>2. toWorklet' = toWorklet
      BY <2>5 DEF AudioStopped, AudioAborted
    <3>3. H = IF Head(toMain) \in ChunkMessages THEN H \union {Head(toMain).poolToken} ELSE H
      BY <3>1
    <3>5. QED
      BY <1>2, <2>2, <3>1, <3>2, <3>3, TakenByPage
  <2>6. CASE StopAudio \/ StopTimeout \/ StopRejected \/ AbortCapture
    <3>1. UNCHANGED <<toMain, inFlight>>
      BY <2>6, TransportOwn DEF StopAudio, StopTimeout, StopRejected, StopFails, AbortCapture
    <3>2. \/ toWorklet' = toWorklet
          \/ \E m \in Commands : toWorklet' = Append(toWorklet, m)
      BY <2>6 DEF StopAudio, StopTimeout, StopRejected, StopFails, AbortCapture, Commands
    <3>3. ASSUME NEW m \in Commands PROVE m \in WorkletMessages /\ m \notin Returns
      BY DEF Commands, WorkletMessages, Returns, RecycleMessages
    <3>4. CASE toWorklet' = toWorklet
      BY <1>2, <2>2, <3>1, <3>4, StillAway
    <3>5. ASSUME NEW m \in Commands, toWorklet' = Append(toWorklet, m)
          PROVE  Mail' /\ Away(H)'
      BY <1>2, <3>1, <3>3, <3>5, Posted
    <3>6. QED
      BY <2>2, <3>2, <3>4, <3>5
  <2>7. CASE Result \/ Start \/ Attach \/ Submit \/ Finish
    BY <2>4, <2>7 DEF Result, Start, Attach, Submit, Finish, channels
  <2>8. CASE CollectStart \/ CollectRecords \/ CollectStopped \/ CollectFinish \/ Imported
    BY <2>4, <2>8, CollectorHead DEF CollectStart, CollectRecords, CollectStopped, CollectFinish, Imported
  <2>9. CASE UNCHANGED captureVars
    BY <2>4, <2>9 DEF captureVars, channels
  <2>10. QED
    BY <1>8, <2>3, <2>4, <2>5, <2>6, <2>7, <2>8, <2>9, WorkletThread
       DEF CaptureNext, PageMessage, Application, Collector
<1>9. QED
  BY <1>5, <1>6, <1>7, <1>8

\* Nothing that a thread posts is refused: the buffers that return are in
\* flight, and the collector gets the messages its handlers expect.
LEMMA StepAnswered ==
    ASSUME Inv, Mail, Types, Away(Held), Delivered, Answered, Quantum, [CaptureNext]_captureVars
    PROVE  Answered'
<1>1. rejected' = rejected
  <2>1. CASE RecycleRefused
    <3>1. /\ toWorklet # <<>> /\ Head(toWorklet).type = "recycle"
      BY <2>1 DEF RecycleRefused, Received
    <3>2. Head(toWorklet) \in Returns
      <4>1. Head(toWorklet) \in Returns \union Commands
        BY <3>1, TailOf DEF Types
      <4>2. QED
        BY <3>1, <4>1 DEF Commands
    <3>3. Head(toWorklet).poolToken \in Back
      BY <3>1, <3>2, TokensTaken DEF Away, Back, Types
    <3>4. Known(Head(toWorklet))
      BY <3>3 DEF Away, Known
    <3>5. QED
      BY <2>1, <3>4 DEF RecycleRefused
  <2>2. CASE WorkletStep /\ ~RecycleRefused
    <3>1. CASE Callback
      BY <3>1 DEF Callback, EmitRecorded, EmitDropped, StartDrain
    <3>2. CASE Loop
      BY <3>2 DEF Loop, DrainStarved, DrainTurn, DrainDone, FinishPartial, FinishReport
    <3>3. CASE Handler
      BY <2>2, <3>3 DEF Handler, RecycleAccepted, Stop, StopIgnored, Abort, AbortIgnored
    <3>4. QED
      BY <2>2, <3>1, <3>2, <3>3 DEF WorkletStep
  <2>3. CASE UNCHANGED transport
    BY <2>3, TransportOwn
  <2>4. CASE Worklet
    BY <2>1, <2>2, <2>3, <2>4, WorkletThread
  <2>5. QED
    BY <2>3, <2>4, OtherThreads DEF CaptureNext
<1>2. faults' = faults
  <2>1. CASE CollectChunk
    BY <2>1, ChunkIsGood DEF CollectChunk
  <2>2. CASE CollectStopped
    BY <2>2, ReportIsGood DEF CollectStopped
  <2>3. CASE CollectStart \/ CollectRecords \/ CollectFinish \/ Imported
    BY <2>3 DEF CollectStart, CollectRecords, CollectFinish, Imported
  <2>4. CASE Worklet \/ UNCHANGED captureVars
    BY <2>4, WorkletThread DEF Elsewhere, captureVars, collector
  <2>5. CASE PageMessage
    BY <2>5 DEF PageMessage, RelayChunk, AudioStopped, AudioAborted, RelayRecycle, Result, collector
  <2>6. CASE Application
    BY <2>6 DEF Application, Start, Attach, StopAudio, StopTimeout, StopRejected, StopFails, Submit, AbortCapture, Finish, collector
  <2>7. QED
    BY <2>1, <2>2, <2>3, <2>4, <2>5, <2>6 DEF CaptureNext, Collector
<1>3. QED
  BY <1>1, <1>2 DEF Answered

-----------------------------------------------------------------------------
(***************************************************************************)
(* What the collector will have.                                           *)
(***************************************************************************)
LEMMA HandledIs ==
    ASSUME NEW o, NEW n, NEW a, NEW m
    PROVE  /\ m.type = "trace-chunk" => Handled(Point(o, n, a), m) = Point(o, n + 1, a \o m.data)
           /\ m.type = "records" => Handled(Point(o, n, a), m) = Point(o + 1, n, a)
           /\ m.type # "trace-chunk" /\ m.type # "records" => Handled(Point(o, n, a), m) = Point(o, n, a)
<1>1. CASE m.type = "trace-chunk"
  BY <1>1 DEF Handled, Point
<1>2. CASE m.type = "records"
  BY <1>2 DEF Handled, Point
<1>3. CASE m.type # "trace-chunk" /\ m.type # "records"
  BY <1>3 DEF Handled
<1>4. QED
  BY <1>1, <1>2, <1>3

LEMMA PointIs ==
    ASSUME NEW o, NEW n, NEW a
    PROVE  /\ Point(o, n, a).ordinary = o /\ Point(o, n, a).number = n /\ Point(o, n, a).audio = a
           /\ Audio(Point(o, n, a)) = Point(0, n, a)
           /\ o \in Nat /\ n \in Nat /\ a \in Seq(Records) => Point(o, n, a) \in Progress
  BY DEF Point, Audio, Progress

\* A message of the collector's queue is not one of the port's, but for chunks.
LEMMA QueueTypes ==
    /\ \A m \in CollectorMessages : m.type \notin {"trace-stopped", "trace-aborted"}
    /\ \A m \in MainMessages : m.type \notin {"start", "records", "audio-stopped", "finish"}
  BY DEF CollectorMessages, ChunkMessages, StoppedMessages, FinishMessages, StartMessage,
         BatchMessage, MainMessages, StopMessages

LEMMA SameDelivered ==
    ASSUME Delivered,
           UNCHANGED <<toCollector, toMain, ordinary, audioSequence, audioChunks, submitted,
                       sequence, shipped, audioStatus>>
    PROVE  Delivered'
  BY DEF Delivered, DeliveredTo, Now, Final

\* While the page has no report, nothing that is on its way to the collector
\* speaks of what the worklet has shipped.
LEMMA Unreported ==
    ASSUME Types, Reported, Finishing, audioStatus = None, NEW i \in 1..Len(toCollector)
    PROVE  /\ toCollector[i].type # "audio-stopped"
           /\ toCollector[i].type = "finish" => ~toCollector[i].attached
<1>1. toCollector[i].type = "audio-stopped" => i \in Waiting("audio-stopped")
  BY DEF Waiting
<1>2. toCollector[i].type = "finish" => i \in Waiting("finish")
  BY DEF Waiting
<1>3. QED
  BY <1>1, <1>2 DEF Reported, Finishing

\* And there is nothing left to relay when it has.
LEMMA NothingToRelay ==
    ASSUME Mail, Reported, FromPort("trace-chunk") \/ FromPort("trace-stopped")
    PROVE  audioStatus = None
<1>1. toMain[1] # AbortedMessage /\ 1 \in 1..Len(toMain)
  BY PortHead DEF AbortedMessage, ChunkMessages, StopMessages
<1>2. QED
  BY <1>1 DEF Reported

LEMMA FinalIs == ASSUME Inv, Types PROVE Final \in Progress /\ Audio(Final) \in Progress /\ Now \in Progress
<1>1. /\ submitted \in Nat /\ sequence \in Nat /\ shipped \in Seq(Records) /\ 0 \in Nat
      /\ ordinary \in Nat /\ audioSequence \in Nat /\ audioChunks \in Seq(Records)
  BY DEF Inv, TypeOK, Types
<1>2. Final \in Progress /\ Audio(Final) = Point(0, sequence, shipped)
  BY <1>1, PointIs DEF Final
<1>3. Now \in Progress
  BY <1>1, PointIs DEF Now
<1>4. QED
  BY <1>1, <1>2, <1>3, PointIs

\* The worklet posts a chunk before the report: what there is grows with it.
LEMMA ShipsDelivered ==
    ASSUME Inv, Inv', Mail, Types, Types', Reporting, Reported, Finishing, Delivered, audioStatus = None,
           NEW m, Ships(m),
           UNCHANGED <<toCollector, ordinary, audioSequence, audioChunks, submitted, audioStatus>>
    PROVE  Delivered'
<1>1. PICK mid : DeliveredTo(mid)
  BY DEF Delivered
<1>2. PICK f, g : f = Final /\ g = Final'
  OBVIOUS
<1>3. /\ m \in ChunkMessages /\ m.sequence = sequence /\ m.data # <<>> /\ m.data \in Seq(Records)
      /\ m \in MainMessages /\ m.type = "trace-chunk"
      /\ toMain' = Append(toMain, m) /\ sequence' = sequence + 1 /\ shipped' = shipped \o m.data
      /\ pc # "idle"
  BY DEF Ships, MainMessages, ChunkMessages
<1>4. Len(m.data) > 0
  BY <1>3, EmptySeq, LenProperties
<1>5. /\ mid \in Progress /\ mid.ordinary = submitted
      /\ Leads(toCollector, Now, mid, f) /\ Leads(toMain, Audio(mid), Audio(f), f)
  BY <1>1, <1>2 DEF DeliveredTo
<1>6. f.ordinary = g.ordinary
  BY <1>2, PointIs DEF Final
<1>7. Leads(toCollector, Now, mid, g)
  <2>1. ASSUME NEW i \in 1..Len(toCollector), NEW c, Good(c, toCollector[i], f)
        PROVE  Good(c, toCollector[i], g)
    <3>1. toCollector[i] \in CollectorMessages
      BY ElementOfSeq DEF Types
    <3>2. /\ toCollector[i].type \notin {"trace-stopped", "audio-stopped"}
          /\ toCollector[i].type = "finish" => ~toCollector[i].attached
      BY <3>1, Unreported, QueueTypes
    <3>3. QED
      BY <1>6, <2>1, <3>2 DEF Good
  <2>2. QED
    BY <1>5, <2>1, LeadsOther
<1>8. Leads(toMain, Audio(mid), Audio(f), g)
  <2>1. Reports = {}
    BY <1>3 DEF Reporting, Over
  <2>2. ASSUME NEW i \in 1..Len(toMain)
        PROVE  toMain[i].type \notin {"trace-stopped", "audio-stopped", "finish"}
    <3>1. toMain[i] \in MainMessages
      BY ElementOfSeq DEF Mail
    <3>2. toMain[i].type # "trace-stopped"
      BY <2>1 DEF Reports
    <3>3. QED
      BY <3>1, <3>2, QueueTypes
  <2>3. ASSUME NEW i \in 1..Len(toMain), NEW c, Good(c, toMain[i], f)
        PROVE  Good(c, toMain[i], g)
    BY <2>2, <2>3 DEF Good
  <2>4. QED
    BY <1>5, <2>3, LeadsOther
<1>9. Audio(g) = Handled(Audio(f), m) /\ Audio(g) \in Progress /\ Good(Audio(f), m, g)
  <2>1. Audio(g) \in Progress
    <3>1. sequence' \in Nat /\ shipped' \in Seq(Records) /\ 0 \in Nat
      BY DEF Inv, TypeOK
    <3>2. Audio(g) = Point(0, sequence', shipped')
      BY <1>2, PointIs DEF Final
    <3>3. QED
      BY <3>1, <3>2, PointIs
  <2>2. /\ Audio(f) = Point(0, sequence, shipped)
        /\ Audio(g) = Point(0, sequence + 1, shipped \o m.data)
    BY <1>2, <1>3, PointIs DEF Final
  <2>3. Audio(g) = Handled(Audio(f), m)
    BY <1>3, <2>2, HandledIs
  <2>4. Good(Audio(f), m, g)
    BY <1>3, <1>4, <2>2, PointIs DEF Good
  <2>5. QED
    BY <2>1, <2>3, <2>4
<1>10. Leads(toMain', Audio(mid), Audio(g), g)
  BY <1>3, <1>8, <1>9, LeadsAppend DEF Mail
<1>11. DeliveredTo(mid)'
  <2>1. Now' = Now /\ toCollector' = toCollector
    BY DEF Now
  <2>2. QED
    BY <1>2, <1>5, <1>7, <1>10, <2>1 DEF DeliveredTo, Audio
<1>12. QED
  BY <1>11 DEF Delivered

\* The report and trace-aborted add nothing.
LEMMA ToldDelivered ==
    ASSUME Inv, Mail, Types, Delivered,
           NEW m \in {StopMessage, AbortedMessage}, toMain' = Append(toMain, m),
           UNCHANGED <<toCollector, ordinary, audioSequence, audioChunks, submitted, audioStatus,
                       sequence, shipped>>
    PROVE  Delivered'
<1>1. PICK mid : DeliveredTo(mid)
  BY DEF Delivered
<1>2. /\ m \in MainMessages /\ m.type \in {"trace-stopped", "trace-aborted"}
      /\ m.type = "trace-stopped" => m.chunkCount = sequence
  BY StopMessageType DEF Inv, StopMessage, AbortedMessage, MainMessages
<1>3. /\ Good(Audio(Final), m, Final) /\ Handled(Audio(Final), m) = Audio(Final)
      /\ Audio(Final) \in Progress
  BY <1>2, FinalIs, HandledIs, PointIs DEF Good, Final
<1>4. Leads(toMain', Audio(mid), Audio(Final), Final)
  BY <1>1, <1>2, <1>3, LeadsAppend DEF Mail, DeliveredTo
<1>5. Now' = Now /\ Final' = Final /\ toCollector' = toCollector
  BY DEF Now, Final
<1>6. DeliveredTo(mid)'
  BY <1>1, <1>4, <1>5 DEF DeliveredTo
<1>7. QED
  BY <1>6 DEF Delivered

LEMMA WorkletDelivered ==
    ASSUME Inv, Inv', Mail, Types, Types', Reporting, Reported, Finishing, Delivered, WorkletStep,
           Elsewhere
    PROVE  Delivered'
<1>1. UNCHANGED <<toCollector, ordinary, audioSequence, audioChunks, submitted, audioStatus>>
  BY DEF Elsewhere, page, collector
<1>2. CASE audioStatus # None
  BY <1>1, <1>2, OverStays, SameDelivered DEF Reported
<1>3. CASE audioStatus = None
  <2>1. CASE UNCHANGED port
    BY <1>1, <2>1, SameDelivered DEF port
  <2>2. CASE \E m : Ships(m)
    BY <1>1, <1>3, <2>2, ShipsDelivered
  <2>3. CASE FinishReport
    <3>1. toMain' = Append(toMain, StopMessage) /\ UNCHANGED <<sequence, shipped>>
      BY <2>3 DEF FinishReport, StopMessage
    <3>2. QED
      BY <1>1, <3>1, ToldDelivered
  <2>4. CASE toMain' = Append(toMain, AbortedMessage) /\ UNCHANGED <<sequence, shipped>>
    BY <1>1, <2>4, ToldDelivered
  <2>5. QED
    BY <2>1, <2>2, <2>3, <2>4, PortStep
<1>4. QED
  BY <1>2, <1>3

LEMMA ProgressIs ==
    ASSUME NEW c \in Progress
    PROVE  /\ c.ordinary \in Nat /\ c.number \in Nat /\ c.audio \in Seq(Records)
           /\ c = Point(c.ordinary, c.number, c.audio)
  BY DEF Progress, Point

\* A chunk changes queues: what the worklet's queue leads to, the collector's
\* leads to.
LEMMA RelayChunkDelivered ==
    ASSUME Mail, Types, Reported, Delivered, RelayChunk
    PROVE  Delivered'
<1>1. PICK mid : DeliveredTo(mid)
  BY DEF Delivered
<1>2. PICK f, m, o, n, a :
        /\ f = Final /\ m = Head(toMain) /\ mid = Point(o, n, a)
        /\ o \in Nat /\ n \in Nat /\ a \in Seq(Records) /\ o = submitted
  BY <1>1, ProgressIs DEF DeliveredTo
<1>3. /\ toMain # <<>> /\ toMain' = Tail(toMain) /\ toMain \in Seq(MainMessages)
      /\ m \in ChunkMessages /\ m \in CollectorMessages /\ m.type = "trace-chunk"
      /\ m.data \in Seq(Records) /\ toCollector' = Append(toCollector, m)
      /\ toCollector \in Seq(CollectorMessages)
  BY <1>2, PortHead DEF RelayChunk, CollectorMessages, ChunkMessages, Mail, Types
<1>4. audioStatus = None
  BY NothingToRelay DEF RelayChunk
<1>5. UNCHANGED <<ordinary, audioSequence, audioChunks, submitted, sequence, shipped, audioStatus>>
  BY TransportOwn DEF RelayChunk, page, collector
<1>6. Final' = f /\ Now' = Now
  BY <1>2, <1>5 DEF Final, Now
<1>7. Leads(toCollector, Now, mid, f) /\ Leads(toMain, Audio(mid), Audio(f), f)
  BY <1>1, <1>2 DEF DeliveredTo
<1>8. /\ Good(Audio(mid), m, f)
      /\ Leads(toMain', Handled(Audio(mid), m), Audio(f), f)
  BY <1>2, <1>3, <1>7, LeadsTail
<1>9. PICK next : next = Point(o, n + 1, a \o m.data)
  OBVIOUS
<1>10. next = Handled(mid, m) /\ Handled(Audio(mid), m) = Audio(next)
  BY <1>2, <1>3, <1>9, HandledIs, PointIs
<1>11. next \in Progress /\ next.ordinary = submitted'
  <2>1. n + 1 \in Nat /\ a \o m.data \in Seq(Records)
    BY <1>2, <1>3, ConcatProperties
  <2>2. next \in Progress
    BY <1>2, <1>9, <2>1, PointIs
  <2>3. next.ordinary = o
    BY <1>9, PointIs
  <2>4. QED
    BY <1>2, <1>5, <2>2, <2>3
<1>12. Good(mid, m, f)
  BY <1>2, <1>3, <1>8, PointIs DEF Good
<1>13. Leads(toCollector', Now, next, f)
  BY <1>3, <1>7, <1>10, <1>11, <1>12, LeadsAppend
<1>14. DeliveredTo(next)'
  <2>1. Leads(toMain', Audio(next), Audio(f), f)
    BY <1>8, <1>10
  <2>2. QED
    BY <1>4, <1>5, <1>6, <1>11, <1>13, <2>1 DEF DeliveredTo
<1>15. QED
  BY <1>14 DEF Delivered

\* Once the page has the report there is nothing more to come.
LEMMA AudioStoppedDelivered ==
    ASSUME Inv, Mail, Types, Reported, Delivered, AudioStopped
    PROVE  Delivered'
<1>1. PICK mid : DeliveredTo(mid)
  BY DEF Delivered
<1>2. PICK f, m, o, n, a :
        /\ f = Final /\ m = Head(toMain) /\ mid = Point(o, n, a)
        /\ o \in Nat /\ n \in Nat /\ a \in Seq(Records) /\ o = submitted
  BY <1>1, ProgressIs DEF DeliveredTo
<1>3. PICK s : s = [type |-> "audio-stopped", status |-> m]
  OBVIOUS
<1>4. /\ toMain # <<>> /\ toMain' = Tail(toMain) /\ toMain \in Seq(MainMessages)
      /\ m \in StopMessages /\ m.type = "trace-stopped"
      /\ toCollector' = Append(toCollector, s) /\ toCollector \in Seq(CollectorMessages)
  BY <1>2, <1>3, PortHead DEF AudioStopped, StopMessages, Mail, Types
<1>5. UNCHANGED <<ordinary, audioSequence, audioChunks, submitted, sequence, shipped>>
  BY TransportOwn DEF AudioStopped, collector
<1>6. Final' = f /\ Now' = Now
  BY <1>2, <1>5 DEF Final, Now
<1>7. Leads(toCollector, Now, mid, f) /\ Leads(toMain, Audio(mid), Audio(f), f)
  BY <1>1, <1>2 DEF DeliveredTo
<1>8. /\ Good(Audio(mid), m, f)
      /\ Leads(toMain', Handled(Audio(mid), m), Audio(f), f)
  BY <1>2, <1>4, <1>7, LeadsTail
<1>9. Handled(Audio(mid), m) = Audio(mid)
  BY <1>2, <1>4, HandledIs, PointIs, SMTT(30)
<1>10. m.chunkCount = n /\ n = f.number /\ a = f.audio
  BY <1>2, <1>4, <1>8, PointIs DEF Good
<1>11. mid = f
  BY <1>2, <1>10, PointIs DEF Final
<1>12. /\ s \in CollectorMessages /\ s.type = "audio-stopped" /\ s.status = m
       /\ s.type # "trace-chunk" /\ s.type # "records"
  BY <1>3, <1>4 DEF CollectorMessages, StoppedMessages
<1>13. Good(mid, s, f) /\ Handled(mid, s) = mid
  <2>1. mid.number = n /\ mid.audio = a
    BY <1>2, PointIs
  <2>2. Good(mid, s, f)
    BY <1>10, <1>12, <2>1 DEF Good
  <2>3. QED
    BY <1>2, <1>12, <2>2, HandledIs
<1>14. Leads(toCollector', Now, mid, f)
  BY <1>1, <1>4, <1>7, <1>12, <1>13, LeadsAppend DEF DeliveredTo
<1>15. DeliveredTo(mid)'
  BY <1>1, <1>5, <1>6, <1>8, <1>9, <1>11, <1>14 DEF DeliveredTo
<1>16. QED
  BY <1>15 DEF Delivered

LEMMA AudioAbortedDelivered ==
    ASSUME Mail, Types, Delivered, AudioAborted
    PROVE  Delivered'
<1>1. PICK mid : DeliveredTo(mid)
  BY DEF Delivered
<1>2. /\ toMain # <<>> /\ toMain' = Tail(toMain) /\ toMain \in Seq(MainMessages)
      /\ Head(toMain) = AbortedMessage
  BY PortHead DEF AudioAborted, Mail
<1>3. UNCHANGED <<ordinary, audioSequence, audioChunks, submitted, sequence, shipped, audioStatus,
                  toCollector>>
  BY TransportOwn DEF AudioAborted, collector
<1>4. Leads(toMain', Handled(Audio(mid), Head(toMain)), Audio(Final), Final)
  BY <1>1, <1>2, LeadsTail DEF DeliveredTo
<1>5. Handled(Audio(mid), Head(toMain)) = Audio(mid)
  BY <1>2 DEF Handled, AbortedMessage
<1>6. DeliveredTo(mid)'
  BY <1>1, <1>3, <1>4, <1>5 DEF DeliveredTo, Final, Now
<1>7. QED
  BY <1>6 DEF Delivered

-----------------------------------------------------------------------------
\* start finds a collector that has nothing.
LEMMA StartDelivered ==
    ASSUME Types, Begun, Delivered, Start
    PROVE  Delivered'
<1>1. PICK mid : DeliveredTo(mid)
  BY DEF Delivered
<1>2. /\ toCollector = <<>> /\ audioSequence = 0 /\ audioChunks = <<>>
      /\ toCollector' = Append(toCollector, StartMessage)
  BY DEF Begun, Start, ToCollector, StartMessage
<1>3. UNCHANGED <<ordinary, audioSequence, audioChunks, submitted, sequence, shipped, audioStatus, toMain>>
  BY TransportOwn DEF Start, collector
<1>4. Now = mid
  BY <1>1, <1>2, LeadsNowhere DEF DeliveredTo
<1>5. Good(mid, StartMessage, Final) /\ Handled(mid, StartMessage) = mid
  <2>1. mid.number = 0 /\ mid.audio = <<>>
    BY <1>2, <1>4, PointIs DEF Now
  <2>2. Good(mid, StartMessage, Final)
    BY <2>1 DEF Good, StartMessage
  <2>3. QED
    BY <2>2 DEF Handled, StartMessage
<1>6. Leads(toCollector', Now, mid, Final)
  BY <1>1, <1>2, <1>5, LeadsAppend DEF DeliveredTo, Types, CollectorMessages
<1>7. DeliveredTo(mid)'
  BY <1>1, <1>3, <1>6 DEF DeliveredTo, Final, Now
<1>8. QED
  BY <1>7 DEF Delivered

\* A batch is submitted before finish: there is one more.
LEMMA SubmitDelivered ==
    ASSUME Mail, Types, Finishing, Delivered, Submit
    PROVE  Delivered'
<1>1. PICK mid : DeliveredTo(mid)
  BY DEF Delivered
<1>2. PICK f, g, o, n, a :
        /\ f = Final /\ g = Final' /\ mid = Point(o, n, a)
        /\ o \in Nat /\ n \in Nat /\ a \in Seq(Records) /\ o = submitted
  BY <1>1, ProgressIs DEF DeliveredTo
<1>3. /\ toCollector' = Append(toCollector, BatchMessage) /\ submitted' = submitted + 1
      /\ UNCHANGED <<ordinary, audioSequence, audioChunks, sequence, shipped, audioStatus, toMain>>
  BY TransportOwn DEF Submit, ToCollector, BatchMessage, collector
<1>4. f.number = g.number /\ f.audio = g.audio /\ Audio(g) = Audio(f) /\ g = Point(o + 1, f.number, f.audio)
  BY <1>2, <1>3, PointIs DEF Final
<1>5. Leads(toCollector, Now, mid, f) /\ Leads(toMain, Audio(mid), Audio(f), f)
      /\ (audioStatus # None => mid = f)
  BY <1>1, <1>2 DEF DeliveredTo
<1>6. Leads(toCollector, Now, mid, g)
  <2>1. ASSUME NEW i \in 1..Len(toCollector) PROVE toCollector[i].type # "finish"
    <3>1. Waiting("finish") = {}
      BY DEF Finishing, Submit
    <3>2. QED
      BY <3>1 DEF Waiting
  <2>2. ASSUME NEW i \in 1..Len(toCollector), NEW c, Good(c, toCollector[i], f)
        PROVE  Good(c, toCollector[i], g)
    BY <1>4, <2>1, <2>2 DEF Good
  <2>3. QED
    BY <1>5, <2>2, LeadsOther
<1>7. Leads(toMain, Audio(mid), Audio(f), g)
  <2>1. ASSUME NEW i \in 1..Len(toMain) PROVE toMain[i].type # "finish"
    BY ElementOfSeq, QueueTypes DEF Mail
  <2>2. ASSUME NEW i \in 1..Len(toMain), NEW c, Good(c, toMain[i], f)
        PROVE  Good(c, toMain[i], g)
    BY <1>4, <2>1, <2>2 DEF Good
  <2>3. QED
    BY <1>5, <2>2, LeadsOther
<1>8. PICK next : next = Point(o + 1, n, a)
  OBVIOUS
<1>9. /\ BatchMessage \in CollectorMessages /\ BatchMessage.type = "records"
  BY DEF CollectorMessages, BatchMessage
<1>10. /\ next = Handled(mid, BatchMessage) /\ Audio(next) = Audio(mid)
       /\ next \in Progress /\ next.ordinary = submitted'
  BY <1>2, <1>3, <1>8, <1>9, HandledIs, PointIs
<1>11. Good(mid, BatchMessage, g)
  BY <1>9 DEF Good
<1>12. Leads(toCollector', Now, next, g)
  BY <1>3, <1>6, <1>9, <1>10, <1>11, LeadsAppend DEF Types
<1>13. audioStatus # None => next = g
  BY <1>2, <1>4, <1>5, <1>8, PointIs
<1>14. DeliveredTo(next)'
  <2>1. Now' = Now
    BY <1>3 DEF Now
  <2>2. QED
    BY <1>2, <1>3, <1>4, <1>7, <1>10, <1>12, <1>13, <2>1 DEF DeliveredTo
<1>15. QED
  BY <1>14 DEF Delivered

\* finish comes after all there is.
LEMMA FinishDelivered ==
    ASSUME Types, Delivered, Finish
    PROVE  Delivered'
<1>1. PICK mid : DeliveredTo(mid)
  BY DEF Delivered
<1>2. PICK m : m = [type |-> "finish", attached |-> attached]
  OBVIOUS
<1>3. /\ m \in CollectorMessages /\ m.type = "finish" /\ m.attached = attached
      /\ toCollector' = Append(toCollector, m) /\ (attached => audioStatus # None)
  BY <1>2 DEF CollectorMessages, FinishMessages, Types, Finish, ToCollector, MayFinish
<1>4. UNCHANGED <<ordinary, audioSequence, audioChunks, submitted, sequence, shipped, audioStatus, toMain>>
  BY TransportOwn DEF Finish, collector
<1>5. Good(mid, m, Final) /\ Handled(mid, m) = mid
  <2>1. mid.ordinary = Final.ordinary
    BY <1>1, PointIs DEF DeliveredTo, Final
  <2>2. attached => mid = Final
    BY <1>1, <1>3 DEF DeliveredTo
  <2>3. Good(mid, m, Final)
    BY <1>3, <2>1, <2>2 DEF Good
  <2>4. QED
    BY <1>3, <2>3 DEF Handled
<1>6. Leads(toCollector', Now, mid, Final)
  BY <1>1, <1>3, <1>5, LeadsAppend DEF DeliveredTo, Types
<1>7. DeliveredTo(mid)'
  BY <1>1, <1>4, <1>6 DEF DeliveredTo, Final, Now
<1>8. QED
  BY <1>7 DEF Delivered

-----------------------------------------------------------------------------
\* The collector goes along its queue.
LEMMA TakenDelivered ==
    ASSUME Types, Delivered, toCollector # <<>>, toCollector' = Tail(toCollector),
           Now' = Handled(Now, Head(toCollector)),
           UNCHANGED <<submitted, sequence, shipped, audioStatus, toMain>>
    PROVE  Delivered'
<1>1. PICK mid : DeliveredTo(mid)
  BY DEF Delivered
<1>2. Leads(toCollector', Now', mid, Final)
  BY <1>1, LeadsTail DEF DeliveredTo, Types
<1>3. Final' = Final
  BY DEF Final
<1>4. DeliveredTo(mid)'
  BY <1>1, <1>2, <1>3 DEF DeliveredTo
<1>5. QED
  BY <1>4 DEF Delivered

LEMMA CollectorDelivered ==
    ASSUME Types, Delivered, Collector
    PROVE  Delivered'
<1>1. UNCHANGED <<submitted, sequence, shipped, audioStatus, toMain>>
  <2>1. UNCHANGED <<page, toMain>>
    BY DEF Collector, CollectStart, CollectRecords, CollectChunk, CollectStopped,
           CollectFinish, Imported, AtCollector
  <2>2. QED
    BY <2>1, OtherThreads, TransportOwn DEF page
<1>2. CASE CollectStart
  <2>1. /\ toCollector # <<>> /\ toCollector' = Tail(toCollector) /\ Head(toCollector).type = "start"
    BY <1>2, CollectorHead DEF CollectStart
  <2>2. Good(Now, Head(toCollector), Final)
    BY <1>2, HandledGood DEF CollectStart
  <2>3. audioSequence = 0 /\ audioChunks = <<>>
    BY <2>1, <2>2, PointIs DEF Good, Now
  <2>4. Now' = Now
    BY <1>2, <2>3 DEF CollectStart, Now
  <2>5. Handled(Now, Head(toCollector)) = Now
    BY <2>1 DEF Handled
  <2>6. QED
    BY <1>1, <2>1, <2>4, <2>5, TakenDelivered
<1>3. CASE CollectRecords
  <2>1. /\ toCollector # <<>> /\ toCollector' = Tail(toCollector) /\ Head(toCollector).type = "records"
    BY <1>3, CollectorHead DEF CollectRecords
  <2>2. Now' = Point(ordinary + 1, audioSequence, audioChunks)
    BY <1>3 DEF CollectRecords, Now
  <2>3. QED
    BY <1>1, <2>1, <2>2, HandledIs, TakenDelivered DEF Now
<1>4. CASE CollectChunk
  <2>1. /\ toCollector # <<>> /\ toCollector' = Tail(toCollector) /\ Head(toCollector).type = "trace-chunk"
    BY <1>4, CollectorHead DEF CollectChunk
  <2>2. Now' = Point(ordinary, audioSequence + 1, audioChunks \o Head(toCollector).data)
    BY <1>4, ChunkIsGood DEF CollectChunk, Now
  <2>3. QED
    BY <1>1, <2>1, <2>2, HandledIs, TakenDelivered DEF Now
<1>5. CASE CollectStopped \/ CollectFinish
  <2>1. /\ toCollector # <<>> /\ toCollector' = Tail(toCollector)
        /\ Head(toCollector).type \in {"audio-stopped", "finish"}
    BY <1>5, CollectorHead DEF CollectStopped, CollectFinish
  <2>2. Now' = Now
    BY <1>5 DEF CollectStopped, CollectFinish, Now
  <2>3. Handled(Now, Head(toCollector)) = Now
    BY <2>1 DEF Handled
  <2>4. QED
    BY <1>1, <2>1, <2>2, <2>3, TakenDelivered
<1>6. CASE Imported
  BY <1>1, <1>6, SameDelivered DEF Imported
<1>7. QED
  BY <1>2, <1>3, <1>4, <1>5, <1>6 DEF Collector

LEMMA StepDelivered ==
    ASSUME Inv, Inv', Mail, Types, Types', Reporting, Begun, Reported, Finishing, Delivered,
           Quantum, [CaptureNext]_captureVars
    PROVE  Delivered'
<1>1. CASE UNCHANGED <<transport, toMain, toWorklet>> /\ Elsewhere
  <2>1. UNCHANGED <<toMain, toCollector, ordinary, audioSequence, audioChunks, submitted, audioStatus>>
    BY <1>1 DEF Elsewhere, page, collector
  <2>2. QED
    BY <1>1, <2>1, TransportOwn, SameDelivered
<1>2. CASE Worklet
  BY <1>1, <1>2, WorkletThread, WorkletDelivered
<1>3. CASE UNCHANGED captureVars
  BY <1>1, <1>3 DEF captureVars, channels, Elsewhere
<1>4. CASE RelayRecycle \/ Result
  <2>1. UNCHANGED <<toMain, toCollector, ordinary, audioSequence, audioChunks, submitted, audioStatus,
                    transport>>
    BY <1>4 DEF RelayRecycle, Result, page, collector
  <2>2. QED
    BY <2>1, TransportOwn, SameDelivered
<1>5. CASE Attach \/ StopAudio \/ StopTimeout \/ StopRejected \/ AbortCapture
  <2>1. UNCHANGED <<toMain, toCollector, ordinary, audioSequence, audioChunks, submitted, audioStatus,
                    transport>>
    BY <1>5 DEF Attach, StopAudio, StopTimeout, StopRejected, StopFails, AbortCapture, channels, collector
  <2>2. QED
    BY <2>1, TransportOwn, SameDelivered
<1>6. QED
  BY <1>2, <1>3, <1>4, <1>5, RelayChunkDelivered, AudioStoppedDelivered, AudioAbortedDelivered,
     StartDelivered, SubmitDelivered, FinishDelivered, CollectorDelivered
     DEF CaptureNext, PageMessage, Application

-----------------------------------------------------------------------------
(***************************************************************************)
(* Start, the report and finish.                                           *)
(***************************************************************************)
\* A step of the collector's handlers.
LEMMA CollectorTakes ==
    ASSUME Types, Collector, ~Imported
    PROVE  /\ toCollector # <<>> /\ toCollector' = Tail(toCollector)
           /\ UNCHANGED <<transport, toMain, toWorklet, page>>
           /\ Head(toCollector).type # "finish" => UNCHANGED trace
  BY CollectorHead DEF Collector, CollectStart, CollectRecords, CollectChunk, CollectStopped,
                       CollectFinish

\* The messages that the page adds: chunks and the report of a port it has
\* attached, and those of the application's calls.
Adds(m) == m \in CollectorMessages /\ toCollector' = Append(toCollector, m)

LEMMA PageAdds ==
    ASSUME Mail, Types
    PROVE  /\ RelayChunk => Adds(Head(toMain)) /\ Head(toMain).type = "trace-chunk" /\ attached
           /\ AudioStopped =>
                /\ Adds([type |-> "audio-stopped", status |-> Head(toMain)]) /\ attached
                /\ Head(toMain) \in StopMessages
           /\ Start => Adds(StartMessage)
           /\ Submit => Adds(BatchMessage)
           /\ Finish => Adds([type |-> "finish", attached |-> attached])
<1>1. RelayChunk => Adds(Head(toMain)) /\ Head(toMain).type = "trace-chunk" /\ attached
  BY PortHead DEF RelayChunk, Adds, CollectorMessages, ChunkMessages
<1>2. AudioStopped => /\ Adds([type |-> "audio-stopped", status |-> Head(toMain)]) /\ attached
                      /\ Head(toMain) \in StopMessages
  BY PortHead DEF AudioStopped, Adds, CollectorMessages, StoppedMessages
<1>3. Start => Adds(StartMessage)
  BY DEF Start, ToCollector, Adds, CollectorMessages, StartMessage
<1>4. Submit => Adds(BatchMessage)
  BY DEF Submit, ToCollector, Adds, CollectorMessages, BatchMessage
<1>5. Finish => Adds([type |-> "finish", attached |-> attached])
  BY DEF Finish, ToCollector, Adds, CollectorMessages, FinishMessages, Types
<1>6. QED
  BY <1>1, <1>2, <1>3, <1>4, <1>5

LEMMA SameBegun ==
    ASSUME Begun, UNCHANGED <<started, toCollector, attached, audioSequence, audioChunks, status>>
    PROVE  Begun'
  BY DEF Begun, Waiting

LEMMA StepBegun ==
    ASSUME Mail, Types, Begun, Quantum, [CaptureNext]_captureVars
    PROVE  Begun'
<1>1. CASE Worklet \/ UNCHANGED captureVars
  <2>1. UNCHANGED <<page, collector, toCollector>>
    BY <1>1, WorkletThread DEF Elsewhere, captureVars, channels
  <2>2. QED
    BY <2>1, SameBegun DEF page, collector
<1>2. CASE AudioAborted \/ RelayRecycle \/ Result
  BY <1>2, SameBegun DEF AudioAborted, RelayRecycle, Result, page, collector
<1>3. CASE StopAudio \/ StopTimeout \/ StopRejected \/ AbortCapture
  BY <1>3, SameBegun DEF StopAudio, StopTimeout, StopRejected, StopFails, AbortCapture, collector
<1>4. CASE Imported
  BY <1>4, SameBegun DEF Imported, page
<1>5. CASE Attach
  <2>1. started /\ UNCHANGED <<started, status, toCollector>>
    BY <1>5 DEF Attach, collector, channels
  <2>2. QED
    BY <2>1 DEF Begun, Waiting
<1>6. ASSUME started, UNCHANGED <<started, status>>, NEW m, Adds(m), m.type # "start"
      PROVE  Begun'
  <2>1. Waiting("start")' = Waiting("start")
    BY <1>6, WaitingAppended DEF Adds
  <2>2. QED
    BY <1>6, <2>1 DEF Begun
<1>7. CASE RelayChunk \/ AudioStopped
  BY <1>6, <1>7, PageAdds DEF RelayChunk, AudioStopped, Begun, page, collector
<1>8. CASE Submit \/ Finish
  BY <1>6, <1>8, PageAdds DEF Submit, Finish, MayFinish, collector, BatchMessage
<1>9. CASE Start
  <2>1. toCollector = <<>> /\ status = None /\ status' = status /\ started'
    BY <1>9 DEF Start, Begun, collector
  <2>2. \A i \in Waiting("start")' : i \in Waiting("start") \/ i = Len(toCollector) + 1
    BY <1>9, PageAdds, WaitingAppended DEF Adds, StartMessage
  <2>3. \A i \in Waiting("start")' : i = 1
    BY <2>1, <2>2 DEF Waiting
  <2>4. QED
    BY <2>1, <2>3 DEF Begun
<1>10. CASE Collector /\ ~Imported
  <2>1. started' /\ \A i \in Waiting("start")' : i \in Nat /\ i # 0 /\ i + 1 \in Waiting("start")
    BY <1>10, CollectorTakes, WaitingTaken DEF Begun, page
  <2>2. Waiting("start")' = {}
    BY <2>1 DEF Begun
  <2>3. QED
    BY <2>1, <2>2 DEF Begun
<1>11. QED
  BY <1>1, <1>2, <1>3, <1>4, <1>5, <1>7, <1>8, <1>9, <1>10 DEF CaptureNext, PageMessage, Application

-----------------------------------------------------------------------------
\* The worklet is done, and its messages, once the page has the report.
LEMMA SameReported ==
    ASSUME Reported, Over' <=> Over, started => started',
           UNCHANGED <<audioStatus, toMain, shipped, accepted, status, toCollector>>
    PROVE  Reported'
  BY DEF Reported, Waiting

LEMMA WorkletReported ==
    ASSUME Reported, WorkletStep, Elsewhere
    PROVE  Reported'
<1>1. UNCHANGED <<audioStatus, started, status, toCollector>>
  BY DEF Elsewhere, page, collector
<1>2. CASE audioStatus = None
  BY <1>1, <1>2 DEF Reported, Waiting
<1>3. CASE audioStatus # None
  BY <1>1, <1>3, OverStays, SameReported DEF Reported
<1>4. QED
  BY <1>2, <1>3

LEMMA AudioStoppedReported ==
    ASSUME Mail, Types, Reporting, Begun, Reported, AudioStopped
    PROVE  Reported'
<1>1. PICK m, s : m = Head(toMain) /\ s = [type |-> "audio-stopped", status |-> m]
  OBVIOUS
<1>2. /\ toMain # <<>> /\ toMain' = Tail(toMain) /\ m \in StopMessages /\ m = toMain[1]
      /\ 1 \in 1..Len(toMain) /\ m.type = "trace-stopped" /\ attached
  BY <1>1, PortHead DEF AudioStopped, StopMessages
<1>3. /\ Adds(s) /\ s.type = "audio-stopped" /\ s.status = m
      /\ audioStatus' = m /\ UNCHANGED <<started, status, shipped, accepted>>
  BY <1>1, PageAdds, TransportOwn DEF AudioStopped, collector
<1>4. started /\ audioStatus = None /\ m # None
  BY <1>2, NothingToRelay, NoneAssumption DEF AudioStopped, Begun
<1>5. status = None /\ Waiting("audio-stopped") = {}
  BY <1>4 DEF Reported
<1>6. 1 \in Reports /\ Over /\ ReportTrue(1) /\ \A i \in Reports : i = 1
  BY <1>2 DEF Reports, Reporting
<1>7. Over' /\ m.emitted = Len(shipped) /\ shipped = accepted
  BY <1>2, <1>6, TransportOwn DEF ReportTrue, AudioStopped
<1>8. ASSUME NEW i \in 1..Len(toMain') PROVE toMain'[i] = AbortedMessage
  <2>1. i + 1 \in 1..Len(toMain) /\ i + 1 # 1 /\ toMain'[i] = toMain[i + 1] /\ toMain[i + 1] \in MainMessages
    BY <1>2, TailOf, ElementOfSeq DEF Mail
  <2>2. i + 1 \notin Reports
    BY <1>6, <2>1
  <2>3. i + 1 \notin Chunks
    BY <1>6, <2>1 DEF ReportTrue
  <2>4. toMain[i + 1].type # "trace-stopped" /\ toMain[i + 1].type # "trace-chunk"
    BY <2>1, <2>2, <2>3 DEF Reports, Chunks
  <2>5. QED
    BY <2>1, <2>4, CollectorTypes
<1>9. \A i \in Waiting("audio-stopped")' : toCollector'[i].status = m
  BY <1>3, <1>5, WaitingAppended DEF Adds
<1>10. Waiting("audio-stopped")' # {}
  BY <1>3, WaitingAppended DEF Adds
<1>11. QED
  BY <1>3, <1>4, <1>5, <1>7, <1>8, <1>9, <1>10 DEF Reported

LEMMA CollectorReported ==
    ASSUME Types, Begun, Reported, Delivered, Collector, ~Imported
    PROVE  Reported'
<1>1. /\ toCollector # <<>> /\ toCollector' = Tail(toCollector)
      /\ UNCHANGED <<audioStatus, started, toMain, shipped, accepted>> /\ (Over' <=> Over)
  BY CollectorTakes, TransportOwn DEF page
<1>2. \A i \in Waiting("audio-stopped")' :
        i + 1 \in Waiting("audio-stopped") /\ toCollector'[i] = toCollector[i + 1]
  BY <1>1, WaitingTaken
<1>3. Head(toCollector).type # "audio-stopped" /\ Waiting("audio-stopped") # {}
        => Waiting("audio-stopped")' # {}
  <2>1. SUFFICES ASSUME Head(toCollector).type # "audio-stopped", NEW i \in Waiting("audio-stopped")
                 PROVE  Waiting("audio-stopped")' # {}
    OBVIOUS
  <2>2. i - 1 \in Waiting("audio-stopped")'
    BY <1>1, <2>1, WaitingTaken
  <2>3. QED
    BY <2>2
<1>4. \A i \in Waiting("audio-stopped")' : audioStatus # None /\ toCollector'[i].status = audioStatus
  BY <1>2 DEF Reported
<1>5. /\ audioStatus # None => status' = audioStatus \/ Waiting("audio-stopped")' # {}
      /\ status' # None => status' = audioStatus
  <2>1. CASE CollectStart
    <3>1. /\ status' = None /\ status = None /\ Head(toCollector).type = "start"
      BY <2>1, CollectorHead DEF CollectStart, Begun
    <3>2. QED
      BY <1>3, <3>1 DEF Reported
  <2>2. CASE CollectStopped
    <3>1. 1 \in Waiting("audio-stopped") /\ Head(toCollector) = toCollector[1]
      BY <2>2, CollectorHead DEF CollectStopped
    <3>2. Head(toCollector).status = audioStatus
      BY <3>1 DEF Reported
    <3>3. QED
      BY <2>2, <3>2, ReportIsGood DEF CollectStopped
  <2>3. CASE CollectRecords \/ CollectChunk \/ CollectFinish
    <3>1. status' = status
      BY <2>3 DEF CollectRecords, CollectChunk, CollectFinish
    <3>2. Head(toCollector).type # "audio-stopped"
      BY <2>3 DEF CollectRecords, CollectChunk, CollectFinish, AtCollector
    <3>3. QED
      BY <1>3, <3>1, <3>2 DEF Reported
  <2>4. QED
    BY <2>1, <2>2, <2>3 DEF Collector
<1>6. QED
  BY <1>1, <1>4, <1>5 DEF Reported

LEMMA StepReported ==
    ASSUME Mail, Types, Reporting, Begun, Reported, Delivered, Quantum, [CaptureNext]_captureVars
    PROVE  Reported'
<1>1. CASE UNCHANGED <<transport, toMain, toCollector, status, audioStatus>> /\ (started => started')
  BY <1>1, TransportOwn, SameReported
<1>2. CASE Worklet
  <2>1. CASE WorkletStep
    BY <1>2, <2>1, WorkletThread, WorkletReported
  <2>2. CASE UNCHANGED <<transport, toMain, toWorklet>>
    BY <1>1, <1>2, <2>2, WorkletThread DEF Elsewhere, page, collector
  <2>3. QED
    BY <1>2, <2>1, <2>2, WorkletThread
<1>3. CASE RelayRecycle \/ Result
  BY <1>1, <1>3 DEF RelayRecycle, Result, page, collector
<1>4. CASE Attach \/ StopAudio \/ StopTimeout \/ StopRejected \/ AbortCapture
  BY <1>1, <1>4 DEF Attach, StopAudio, StopTimeout, StopRejected, StopFails, AbortCapture, collector, channels
<1>5. CASE Imported \/ UNCHANGED captureVars
  BY <1>1, <1>5 DEF Imported, captureVars, channels, page, collector
<1>6. CASE AudioAborted
  <2>1. /\ toMain # <<>> /\ toMain' = Tail(toMain)
        /\ UNCHANGED <<toCollector, started, status, audioStatus, shipped, accepted>> /\ (Over' <=> Over)
    BY <1>6, PortHead, TransportOwn DEF AudioAborted, collector
  <2>2. \A i \in 1..Len(toMain') : i + 1 \in 1..Len(toMain) /\ toMain'[i] = toMain[i + 1]
    BY <2>1, TailOf DEF Mail
  <2>3. audioStatus # None => \A i \in 1..Len(toMain') : toMain'[i] = AbortedMessage
    BY <2>2 DEF Reported
  <2>4. Waiting("audio-stopped")' = Waiting("audio-stopped")
    BY <2>1 DEF Waiting
  <2>5. QED
    BY <2>1, <2>3, <2>4 DEF Reported
<1>7. ASSUME NEW m, Adds(m), m.type # "audio-stopped", started => started',
             UNCHANGED <<audioStatus, status, shipped, accepted>>, Over' <=> Over,
             toMain' = toMain \/ audioStatus = None
      PROVE  Reported'
  <2>1. /\ Waiting("audio-stopped")' = Waiting("audio-stopped")
        /\ \A i \in Waiting("audio-stopped") : toCollector'[i] = toCollector[i]
    BY <1>7, WaitingAppended DEF Adds
  <2>2. QED
    BY <1>7, <2>1 DEF Reported
<1>8. CASE RelayChunk
  <2>1. audioStatus = None
    BY <1>8, NothingToRelay DEF RelayChunk
  <2>2. /\ Adds(Head(toMain)) /\ Head(toMain).type # "audio-stopped"
        /\ UNCHANGED <<started, audioStatus, status, shipped, accepted>> /\ (Over' <=> Over)
    BY <1>8, PageAdds, TransportOwn DEF RelayChunk, page, collector
  <2>3. QED
    BY <1>7, <2>1, <2>2
<1>9. CASE Start \/ Submit \/ Finish
  <2>1. PICK m : Adds(m) /\ m.type # "audio-stopped"
    BY <1>9, PageAdds DEF StartMessage, BatchMessage
  <2>2. /\ UNCHANGED <<audioStatus, status, shipped, accepted, toMain>>
        /\ (Over' <=> Over) /\ (started => started')
    BY <1>9, TransportOwn DEF Start, Submit, Finish, collector
  <2>3. QED
    BY <1>7, <2>1, <2>2
<1>10. QED
  BY <1>2, <1>3, <1>4, <1>5, <1>6, <1>8, <1>9, AudioStoppedReported, CollectorReported
     DEF CaptureNext, PageMessage, Application

\* A waiting finish, with what must come before it.
FinishAt(i) ==
    /\ started /\ closed /\ trace = None
    /\ \A j \in Waiting("records") \union Waiting("finish") : j <= i
    /\ toCollector[i].attached =>
         /\ audioStatus # None
         /\ \A j \in Waiting("trace-chunk") \union Waiting("audio-stopped") : j <= i

LEMMA SameFinishing ==
    ASSUME Finishing, UNCHANGED <<toCollector, started, trace, audioStatus>>, closed => closed'
    PROVE  Finishing'
  BY DEF Finishing, Waiting

\* A message that is not finish, and comes too late for none.
LEMMA AddedBefore ==
    ASSUME Types, Finishing, NEW m, Adds(m), m.type # "finish",
           started => started', closed => closed', trace' = trace,
           m.type = "records" => ~closed,
           audioStatus = None \/ (m.type \in {"start", "records"} /\ UNCHANGED audioStatus)
    PROVE  Finishing'
<1> DEFINE n == Len(toCollector)
<1>1. /\ Waiting("finish")' = Waiting("finish")
      /\ \A t : t # m.type => Waiting(t)' = Waiting(t)
      /\ \A i \in Waiting("finish") : toCollector'[i] = toCollector[i]
  BY WaitingAppended DEF Adds
<1>2. ASSUME NEW i \in Waiting("finish") PROVE FinishAt(i)'
  <2>1. FinishAt(i)
    BY DEF Finishing, FinishAt
  <2>2. Waiting("records")' = Waiting("records")
    BY <1>1, <2>1 DEF FinishAt
  <2>3. \A j \in Waiting("records")' \union Waiting("finish")' : j <= i
    BY <1>1, <2>1, <2>2 DEF FinishAt
  <2>4. toCollector[i].attached =>
          /\ audioStatus' # None
          /\ \A j \in Waiting("trace-chunk")' \union Waiting("audio-stopped")' : j <= i
    BY <1>1, <2>1 DEF FinishAt
  <2>5. QED
    BY <1>1, <2>1, <2>3, <2>4 DEF FinishAt
<1>3. QED
  BY <1>1, <1>2 DEF Finishing, FinishAt

LEMMA FinishFinishing ==
    ASSUME Types, Finishing, Importing, Finish
    PROVE  Finishing'
<1>1. PICK m, n : m = [type |-> "finish", attached |-> attached] /\ n = Len(toCollector)
  OBVIOUS
<1>2. /\ Adds(m) /\ m.type = "finish" /\ m.attached = attached
      /\ started /\ ~closed /\ closed' /\ (attached => audioStatus # None)
      /\ UNCHANGED <<started, trace, audioStatus>>
  BY <1>1 DEF Finish, MayFinish, ToCollector, Adds, CollectorMessages, FinishMessages, Types, collector
<1>3. Waiting("finish") = {} /\ trace = None
  BY <1>2 DEF Finishing, Importing
<1>4. /\ n \in Nat /\ toCollector'[n + 1] = m
      /\ \A i \in Waiting("finish")' : i = n + 1
      /\ \A t : t # m.type => Waiting(t)' = Waiting(t)
      /\ \A t : \A i \in Waiting(t) : i \in Nat /\ i < n + 1
  BY <1>1, <1>2, <1>3, WaitingAppended DEF Adds
<1>5. ASSUME NEW i \in Waiting("finish")' PROVE FinishAt(i)'
  <2>1. i = n + 1 /\ toCollector'[i].attached = attached
    BY <1>2, <1>4
  <2>2. \A j \in Waiting("records")' \union Waiting("finish")' : j <= i
    BY <1>2, <1>4, <2>1
  <2>3. \A j \in Waiting("trace-chunk")' \union Waiting("audio-stopped")' : j <= i
    BY <1>2, <1>4, <2>1
  <2>4. QED
    BY <1>2, <1>3, <2>1, <2>2, <2>3 DEF FinishAt
<1>6. QED
  BY <1>5 DEF Finishing, FinishAt

\* The collector has taken what came before.
LEMMA TakenBefore ==
    ASSUME Types, Finishing, toCollector # <<>>, toCollector' = Tail(toCollector),
           UNCHANGED <<started, closed, audioStatus>>,
           Head(toCollector).type # "finish" => UNCHANGED trace
    PROVE  Finishing'
<1>1. /\ 1 \in Waiting(Head(toCollector).type)
      /\ \A t : \A i \in Waiting(t)' :
           i \in Nat /\ i # 0 /\ i + 1 \in Waiting(t) /\ toCollector'[i] = toCollector[i + 1]
  BY WaitingTaken
<1>2. ASSUME NEW i \in Waiting("finish")' PROVE FinishAt(i)'
  <2>1. i \in Nat /\ i # 0 /\ i + 1 \in Waiting("finish") /\ toCollector'[i] = toCollector[i + 1]
    BY <1>1
  <2>2. FinishAt(i + 1)
    BY <2>1 DEF Finishing, FinishAt
  <2>3. Head(toCollector).type # "finish"
    <3>1. SUFFICES ASSUME 1 \in Waiting("finish") PROVE FALSE
      BY <1>1
    <3>2. i + 1 <= 1
      BY <2>1, <3>1 DEF Finishing
    <3>3. QED
      BY <2>1, <3>2
  <2>4. \A t : \A j \in Waiting(t)' : j \in Nat /\ j + 1 \in Waiting(t)
    BY <1>1
  <2>5. \A j \in Waiting("records")' \union Waiting("finish")' : j <= i
    BY <2>1, <2>2, <2>4 DEF FinishAt
  <2>6. toCollector'[i].attached =>
          \A j \in Waiting("trace-chunk")' \union Waiting("audio-stopped")' : j <= i
    BY <2>1, <2>2, <2>4 DEF FinishAt
  <2>7. QED
    BY <2>1, <2>2, <2>3, <2>5, <2>6 DEF FinishAt
<1>3. QED
  BY <1>2 DEF Finishing, FinishAt

LEMMA StepFinishing ==
    ASSUME Mail, Types, Begun, Reported, Finishing, Importing, Quantum, [CaptureNext]_captureVars
    PROVE  Finishing'
<1>1. CASE Worklet \/ UNCHANGED captureVars
  <2>1. UNCHANGED <<page, collector, toCollector>>
    BY <1>1, WorkletThread DEF Elsewhere, captureVars, channels
  <2>2. QED
    BY <2>1, SameFinishing DEF page, collector
<1>2. CASE AudioAborted \/ RelayRecycle \/ Result
  BY <1>2, SameFinishing DEF AudioAborted, RelayRecycle, Result, page, collector
<1>3. CASE StopAudio \/ StopTimeout \/ StopRejected \/ AbortCapture \/ Attach
  BY <1>3, SameFinishing DEF StopAudio, StopTimeout, StopRejected, StopFails, AbortCapture, Attach, collector, channels
<1>4. CASE RelayChunk \/ AudioStopped
  <2>1. PICK m : Adds(m) /\ m.type \in {"trace-chunk", "audio-stopped"}
    BY <1>4, PageAdds
  <2>2. audioStatus = None
    BY <1>4, NothingToRelay DEF RelayChunk, AudioStopped
  <2>3. UNCHANGED <<started, closed, trace>>
    BY <1>4 DEF RelayChunk, AudioStopped, page, collector
  <2>4. QED
    BY <2>1, <2>2, <2>3, AddedBefore
<1>5. CASE Start \/ Submit
  <2>1. PICK m : Adds(m) /\ m.type \in {"start", "records"} /\ (m.type = "records" => ~closed)
    <3>1. CASE Start
      BY <3>1, PageAdds DEF StartMessage
    <3>2. CASE Submit
      BY <3>2, PageAdds DEF BatchMessage, Submit
    <3>3. QED
      BY <1>5, <3>1, <3>2
  <2>2. UNCHANGED <<closed, trace, audioStatus>> /\ (started => started')
    BY <1>5 DEF Start, Submit, collector
  <2>3. QED
    BY <2>1, <2>2, AddedBefore
<1>6. CASE Imported
  <2>1. trace # None /\ UNCHANGED <<toCollector, page>>
    BY <1>6 DEF Imported, Importing
  <2>2. Waiting("finish") = {}
    BY <2>1 DEF Importing
  <2>3. Waiting("finish")' = {}
    BY <2>1, <2>2 DEF Waiting
  <2>4. QED
    BY <2>3 DEF Finishing
<1>7. CASE Collector /\ ~Imported
  <2>1. /\ toCollector # <<>> /\ toCollector' = Tail(toCollector)
        /\ UNCHANGED <<started, closed, audioStatus>>
        /\ Head(toCollector).type # "finish" => UNCHANGED trace
    BY <1>7, CollectorTakes DEF page
  <2>2. QED
    BY <2>1, TakenBefore
<1>8. QED
  BY <1>1, <1>2, <1>3, <1>4, <1>5, <1>6, <1>7, FinishFinishing
     DEF CaptureNext, PageMessage, Application

-----------------------------------------------------------------------------
(***************************************************************************)
(* The trace.                                                              *)
(***************************************************************************)
LEMMA SameImporting ==
    ASSUME Importing, UNCHANGED <<trace, started, toCollector, ordinary, submitted, audioStatus,
                                  status, audioChunks, accepted>>,
           closed => closed', phase' = "importing" => phase = "importing"
    PROVE  Importing'
  BY DEF Importing, Waiting

\* What finish finds.
LEMMA FinishFinds ==
    ASSUME Types, Begun, Reported, Finishing, Delivered, CollectFinish
    PROVE  /\ started /\ closed /\ ordinary = submitted
           /\ Waiting("finish")' = {} /\ Waiting("records")' = {} /\ Waiting("start")' = {}
           /\ Head(toCollector).attached \in BOOLEAN
           /\ Head(toCollector).attached =>
                /\ audioStatus # None /\ status = audioStatus
                /\ Waiting("trace-chunk")' = {} /\ audioChunks = accepted
<1>1. /\ 1 \in Waiting("finish") /\ Head(toCollector) = toCollector[1]
      /\ toCollector # <<>> /\ toCollector' = Tail(toCollector)
      /\ Head(toCollector).type = "finish" /\ Head(toCollector) \in FinishMessages
  BY CollectorHead DEF CollectFinish
<1>2. FinishAt(1)
  BY <1>1 DEF Finishing, FinishAt
<1>3. \A t : \A i \in Waiting(t)' : i \in Nat /\ i # 0 /\ i + 1 \in Waiting(t)
  BY <1>1, WaitingTaken
<1>4. ASSUME NEW t, \A j \in Waiting(t) : j <= 1 PROVE Waiting(t)' = {}
  BY <1>3, <1>4
<1>5. Waiting("finish")' = {} /\ Waiting("records")' = {} /\ Waiting("start")' = {}
  BY <1>2, <1>4 DEF FinishAt, Begun
<1>6. Good(Now, Head(toCollector), Final)
  BY HandledGood DEF CollectFinish
<1>7. /\ ordinary = submitted
      /\ Head(toCollector).attached => audioChunks = shipped
  BY <1>1, <1>6, PointIs DEF Good, Now, Final
<1>8. ASSUME Head(toCollector).attached
      PROVE  audioStatus # None /\ status = audioStatus /\ Waiting("trace-chunk")' = {}
             /\ audioChunks = accepted
  <2>1. /\ audioStatus # None
        /\ \A j \in Waiting("trace-chunk") \union Waiting("audio-stopped") : j <= 1
    BY <1>1, <1>2, <1>8 DEF FinishAt
  <2>2. Waiting("trace-chunk")' = {}
    BY <1>4, <2>1
  <2>3. Waiting("audio-stopped") = {}
    <3>1. 1 \notin Waiting("audio-stopped")
      BY <1>1, WaitingTaken
    <3>2. \A j \in Waiting("audio-stopped") : j = 1
      BY <2>1 DEF Waiting
    <3>3. QED
      BY <3>1, <3>2
  <2>4. QED
    BY <1>7, <1>8, <2>1, <2>2, <2>3 DEF Reported
<1>9. QED
  BY <1>1, <1>2, <1>5, <1>7, <1>8 DEF FinishAt, FinishMessages

LEMMA CollectorImporting ==
    ASSUME Types, Begun, Reported, Finishing, Importing, Delivered, Collector
    PROVE  Importing'
<1>1. UNCHANGED <<started, closed, submitted, audioStatus, accepted>>
  <2>1. UNCHANGED page
    BY DEF Collector, CollectStart, CollectRecords, CollectChunk, CollectStopped,
           CollectFinish, Imported, AtCollector
  <2>2. QED
    BY <2>1, OtherThreads, TransportOwn DEF page
<1>2. CASE Imported
  <2>1. /\ phase' = "done" /\ trace # None
        /\ UNCHANGED <<toCollector, ordinary, audioChunks, status>>
    BY <1>2 DEF Imported, Importing
  <2>2. trace.attached \in BOOLEAN
    BY <2>1 DEF Types, Traces
  <2>3. trace' # None /\ trace'.attached = trace.attached
    <3>1. CASE trace' = trace
      BY <2>1, <3>1
    <3>2. CASE trace' = [attached |-> trace.attached, ordinary |-> ordinary,
                         audio |-> audioChunks, status |-> status]
      <4>1. trace' \in Traces
        BY <2>2, <3>2 DEF Types, Traces
      <4>2. QED
        BY <3>2, <4>1, CaptureAssumption
    <3>3. QED
      BY <1>2, <3>1, <3>2 DEF Imported
  <2>4. \A t : Waiting(t)' = Waiting(t)
    BY <2>1 DEF Waiting
  <2>5. QED
    BY <1>1, <2>1, <2>3, <2>4 DEF Importing
<1>3. CASE CollectFinish
  <2>1. /\ trace' = [attached |-> Head(toCollector).attached]
        /\ UNCHANGED <<ordinary, audioChunks, status>>
    BY <1>3 DEF CollectFinish
  <2>2. trace' # None /\ trace'.attached = Head(toCollector).attached
    <3>1. trace' \in Traces
      BY <1>3, <2>1, FinishFinds DEF Traces
    <3>2. QED
      BY <2>1, <3>1, CaptureAssumption
  <2>3. QED
    BY <1>1, <1>3, <2>1, <2>2, FinishFinds DEF Importing
<1>4. CASE ~Imported /\ ~CollectFinish /\ trace = None
  <2>1. trace' = None /\ phase' = phase
    BY <1>4 DEF Collector, CollectStart, CollectRecords, CollectChunk, CollectStopped
  <2>2. QED
    BY <1>4, <2>1 DEF Importing
<1>5. CASE ~Imported /\ ~CollectFinish /\ trace # None
  <2>1. /\ Waiting("finish") = {} /\ Waiting("records") = {} /\ Waiting("start") = {}
        /\ trace.attached => Waiting("trace-chunk") = {}
    BY <1>5 DEF Importing
  <2>2. CASE CollectStart \/ CollectRecords
    <3>1. 1 \in Waiting("start") \/ 1 \in Waiting("records")
      BY <2>2, CollectorHead DEF CollectStart, CollectRecords
    <3>2. QED
      BY <2>1, <3>1
  <2>3. CASE CollectChunk \/ CollectStopped
    <3>1. /\ toCollector # <<>> /\ toCollector' = Tail(toCollector)
          /\ UNCHANGED <<phase, ordinary, trace>>
      BY <2>3, CollectorHead DEF CollectChunk, CollectStopped
    <3>2. \A t : Waiting(t) = {} => Waiting(t)' = {}
      BY <3>1, WaitingTaken
    <3>3. ASSUME trace.attached PROVE audioChunks' = audioChunks /\ status' = status
      <4>1. CASE CollectChunk
        <5>1. 1 \in Waiting("trace-chunk")
          BY <4>1, CollectorHead DEF CollectChunk
        <5>2. QED
          BY <2>1, <3>3, <5>1
      <4>2. CASE CollectStopped
        <5>1. 1 \in Waiting("audio-stopped") /\ Head(toCollector) = toCollector[1]
          BY <4>2, CollectorHead DEF CollectStopped
        <5>2. Head(toCollector).status = audioStatus
          BY <5>1 DEF Reported
        <5>3. audioStatus = status
          BY <1>5, <3>3 DEF Importing
        <5>4. QED
          BY <4>2, <5>2, <5>3 DEF CollectStopped
      <4>3. QED
        BY <2>3, <4>1, <4>2
    <3>4. QED
      BY <1>1, <1>5, <2>1, <3>1, <3>2, <3>3 DEF Importing
  <2>4. QED
    BY <1>5, <2>2, <2>3 DEF Collector
<1>6. QED
  BY <1>2, <1>3, <1>4, <1>5

LEMMA StepImporting ==
    ASSUME Inv, Mail, Types, Begun, Reported, Finishing, Importing, Delivered, Quantum, [CaptureNext]_captureVars
    PROVE  Importing'
<1>1. CASE Worklet
  <2>1. UNCHANGED <<trace, started, closed, toCollector, ordinary, submitted, audioStatus,
                    status, audioChunks, phase>>
    BY <1>1, WorkletThread DEF Elsewhere, page, collector
  <2>2. CASE audioStatus # None
    <3>1. accepted' = accepted
      BY <1>1, <2>2, OverStays, WorkletThread, TransportOwn DEF Reported
    <3>2. QED
      BY <2>1, <3>1, SameImporting
  <2>3. CASE audioStatus = None
    <3>1. \A t : Waiting(t)' = Waiting(t)
      BY <2>1 DEF Waiting
    <3>2. QED
      BY <2>1, <2>3, <3>1 DEF Importing
  <2>4. QED
    BY <2>2, <2>3
<1>2. ASSUME UNCHANGED <<transport, toCollector, started, closed, submitted, audioStatus, collector>>
      PROVE  Importing'
  BY <1>2, TransportOwn, SameImporting DEF collector
<1>3. CASE AudioAborted \/ RelayRecycle \/ UNCHANGED captureVars
  BY <1>2, <1>3 DEF AudioAborted, RelayRecycle, captureVars, page, channels
<1>4. CASE StopAudio \/ StopTimeout \/ StopRejected \/ Attach
  BY <1>2, <1>4 DEF StopAudio, StopTimeout, StopRejected, StopFails, Attach, channels
<1>5. CASE Result \/ AbortCapture
  <2>1. /\ UNCHANGED <<transport, toCollector, started, submitted, audioStatus, trace, ordinary,
                       status, audioChunks>>
        /\ phase' = "terminated" /\ (closed => closed')
    BY <1>5 DEF Result, AbortCapture
  <2>2. QED
    BY <2>1, TransportOwn, SameImporting
<1>6. CASE RelayChunk \/ AudioStopped
  <2>1. PICK m : Adds(m) /\ m.type \in {"trace-chunk", "audio-stopped"}
    BY <1>6, PageAdds
  <2>2. audioStatus = None
    BY <1>6, NothingToRelay DEF RelayChunk, AudioStopped
  <2>3. UNCHANGED <<started, closed, submitted, collector>>
    BY <1>6 DEF RelayChunk, AudioStopped, page
  <2>4. \A t : t \in {"finish", "records", "start"} => Waiting(t)' = Waiting(t)
    BY <2>1, WaitingAppended DEF Adds
  <2>5. QED
    BY <2>2, <2>3, <2>4 DEF Importing, collector
<1>7. CASE Start \/ Submit \/ Finish
  <2>1. trace = None
    BY <1>7 DEF Start, Submit, Finish, MayFinish, Importing
  <2>2. trace' = None /\ phase' = phase
    BY <1>7, <2>1 DEF Start, Submit, Finish, collector
  <2>3. QED
    BY <2>1, <2>2 DEF Importing
<1>8. QED
  BY <1>1, <1>3, <1>4, <1>5, <1>6, <1>7, CollectorImporting DEF CaptureNext, PageMessage, Application

\* The answers the collector has posted.
Posts(type) == \E i \in 1..Len(fromCollector) : fromCollector[i].type = type
FullTrace ==
    /\ trace # None /\ phase # "importing"
    /\ trace.ordinary = submitted
    /\ trace.attached => trace.audio = accepted /\ trace.status = audioStatus

LEMMA TracedIs == Traced <=> (result = "trace" \/ Posts("trace") => FullTrace)
  BY DEF Traced, Posts, FullTrace

\* Nothing that it was made of changes.
LEMMA SameFull ==
    ASSUME FullTrace, Importing, UNCHANGED <<trace, submitted>>, phase' # "importing",
           UNCHANGED <<accepted, audioStatus>> \/ audioStatus = None
    PROVE  FullTrace'
  BY DEF FullTrace, Importing

LEMMA PostsTaken ==
    ASSUME Types, fromCollector # <<>>, fromCollector' = Tail(fromCollector), Posts("trace")'
    PROVE  Posts("trace")
<1>1. PICK i \in 1..Len(fromCollector') : fromCollector'[i].type = "trace"
  BY DEF Posts
<1>2. i + 1 \in 1..Len(fromCollector) /\ fromCollector'[i] = fromCollector[i + 1]
  BY TailOf DEF Types
<1>3. QED
  BY <1>1, <1>2 DEF Posts

LEMMA PostsAppended ==
    ASSUME Types, NEW m \in PageMessages, m.type # "trace", fromCollector' = Append(fromCollector, m),
           Posts("trace")'
    PROVE  Posts("trace")
<1>1. PICK i \in 1..Len(fromCollector') : fromCollector'[i].type = "trace"
  BY DEF Posts
<1>2. i \in 1..Len(fromCollector) /\ fromCollector'[i] = fromCollector[i]
  BY <1>1, Appended DEF Types
<1>3. QED
  BY <1>1, <1>2 DEF Posts

LEMMA StepTraced ==
    ASSUME Inv, Mail, Types, Begun, Reported, Finishing, Importing, Traced, Delivered, Quantum, [CaptureNext]_captureVars
    PROVE  Traced'
<1>1. SUFFICES ASSUME (result = "trace" \/ Posts("trace"))' PROVE FullTrace'
  <2>1. Traced' <=> ((result = "trace" \/ Posts("trace"))' => FullTrace')
    BY DEF Traced, Posts, FullTrace
  <2>2. QED
    BY <2>1
<1>2. result = "trace" \/ Posts("trace") => FullTrace
  BY TracedIs
<1>3. CASE Imported
  <2>1. phase = "importing" /\ phase' = "done"
        /\ UNCHANGED <<result, submitted, audioStatus, ordinary, audioChunks, status, accepted>>
    BY <1>3, OtherThreads, TransportOwn DEF Imported, Collector, page
  <2>2. result # "trace" /\ ~Posts("trace")
    BY <1>2, <2>1 DEF FullTrace
  <2>3. ~(fromCollector' = Append(fromCollector, [type |-> "error"]))
    <3>1. [type |-> "error"] \in PageMessages
      BY DEF PageMessages, AnswerMessages
    <3>2. QED
      BY <1>1, <2>1, <2>2, <3>1, PostsAppended
  <2>4. trace' = [attached |-> trace.attached, ordinary |-> ordinary,
                  audio |-> audioChunks, status |-> status]
    BY <1>3, <2>3 DEF Imported
  <2>5. trace # None /\ trace.attached \in BOOLEAN
    BY <2>1 DEF Importing, Types, Traces
  <2>6. trace' # None
    <3>1. trace' \in Traces
      BY <2>4, <2>5 DEF Types, Traces
    <3>2. QED
      BY <3>1, CaptureAssumption
  <2>7. /\ ordinary = submitted
        /\ trace.attached => status = audioStatus /\ audioChunks = accepted
    BY <2>5 DEF Importing
  <2>8. QED
    BY <2>1, <2>4, <2>6, <2>7 DEF FullTrace
<1>4. CASE Result
  <2>1. /\ fromCollector # <<>> /\ fromCollector' = Tail(fromCollector)
        /\ result' = Head(fromCollector).type /\ phase' = "terminated"
        /\ UNCHANGED <<trace, submitted, accepted, audioStatus>>
    BY <1>4, OtherThreads, TransportOwn DEF Result, PageMessage
  <2>2. Posts("trace")
    <3>1. CASE result' = "trace"
      <4>1. 1 \in 1..Len(fromCollector) /\ Head(fromCollector) = fromCollector[1]
        BY <2>1, TailOf DEF Types
      <4>2. QED
        BY <2>1, <3>1, <4>1 DEF Posts
    <3>2. QED
      BY <1>1, <2>1, <3>1, PostsTaken
  <2>3. QED
    BY <1>2, <2>1, <2>2, SameFull
<1>5. ASSUME (result = "trace")' => result = "trace", Posts("trace")' => Posts("trace"),
             UNCHANGED <<trace, submitted>>, phase' = phase \/ phase' = "terminated",
             UNCHANGED <<accepted, audioStatus>> \/ audioStatus = None
      PROVE  FullTrace'
  <2>1. FullTrace
    BY <1>1, <1>2, <1>5
  <2>2. phase' # "importing"
    BY <1>5, <2>1 DEF FullTrace
  <2>3. QED
    BY <1>5, <2>1, <2>2, SameFull
<1>6. CASE Worklet
  <2>1. UNCHANGED <<result, fromCollector, trace, submitted, phase, audioStatus>>
    BY <1>6, WorkletThread DEF Elsewhere, page, collector
  <2>2. audioStatus # None => accepted' = accepted
    BY <1>6, OverStays, WorkletThread, TransportOwn DEF Reported
  <2>3. QED
    BY <1>5, <2>1, <2>2 DEF Posts
<1>7. ASSUME UNCHANGED <<result, fromCollector, trace, submitted, audioStatus, transport>>,
             phase' = phase \/ phase' = "terminated"
      PROVE  FullTrace'
  BY <1>5, <1>7, TransportOwn DEF Posts
<1>8. CASE UNCHANGED captureVars \/ AudioAborted
  BY <1>7, <1>8 DEF captureVars, channels, page, collector, AudioAborted
<1>9. CASE RelayChunk \/ AudioStopped
  <2>1. audioStatus = None
    BY <1>9, NothingToRelay DEF RelayChunk, AudioStopped
  <2>2. UNCHANGED <<result, fromCollector, trace, submitted, phase>>
    BY <1>9 DEF RelayChunk, AudioStopped, page, collector
  <2>3. QED
    BY <1>5, <2>1, <2>2 DEF Posts
<1>10. CASE RelayRecycle
  <2>1. /\ fromCollector # <<>> /\ fromCollector' = Tail(fromCollector)
        /\ UNCHANGED <<result, trace, submitted, phase, audioStatus, transport>>
    BY <1>10 DEF RelayRecycle, page, collector
  <2>2. QED
    BY <1>5, <2>1, PostsTaken, TransportOwn
<1>11. CASE Attach \/ StopAudio \/ StopTimeout \/ StopRejected \/ AbortCapture
  BY <1>7, <1>11 DEF Attach, StopAudio, StopTimeout, StopRejected, StopFails, AbortCapture, channels, collector
<1>12. CASE Start \/ Submit \/ Finish
  <2>1. trace = None
    BY <1>12 DEF Start, Submit, Finish, MayFinish, Importing
  <2>2. /\ fromCollector' = fromCollector
        /\ result' = result \/ result' = "pending"
    BY <1>12 DEF Start, Submit, Finish
  <2>3. result = "trace" \/ Posts("trace")
    BY <1>1, <2>2 DEF Posts
  <2>4. QED
    BY <1>2, <2>1, <2>3 DEF FullTrace
<1>13. CASE Collector /\ ~Imported /\ ~CollectFinish
  <2>1. UNCHANGED <<result, submitted, audioStatus, transport>>
    BY <1>13, CollectorTakes DEF page
  <2>2. UNCHANGED <<trace, phase>>
    BY <1>13 DEF Collector, CollectStart, CollectRecords, CollectChunk, CollectStopped
  <2>3. Posts("trace")' => Posts("trace")
    <3>1. CASE CollectChunk
      <4>1. Head(toCollector) \in ChunkMessages
        BY <3>1, CollectorHead DEF CollectChunk
      <4>2. PICK m : m = Recycled(Head(toCollector).poolToken, TRUE, TRUE)
        OBVIOUS
      <4>3. m \in PageMessages /\ m.type # "trace"
        BY <4>1, <4>2 DEF ChunkMessages, Recycled, PageMessages, Returns, RecycleMessages
      <4>4. fromCollector' = Append(fromCollector, m)
        BY <3>1, <4>2, ChunkIsGood DEF CollectChunk
      <4>5. QED
        BY <4>3, <4>4, PostsAppended
    <3>2. CASE CollectStart \/ CollectRecords \/ CollectStopped
      BY <3>2 DEF CollectStart, CollectRecords, CollectStopped, Posts
    <3>3. QED
      BY <1>13, <3>1, <3>2 DEF Collector
  <2>4. QED
    BY <1>5, <2>1, <2>2, <2>3, TransportOwn
<1>14. CASE CollectFinish
  <2>1. UNCHANGED <<result, fromCollector>>
    BY <1>14, CollectorHead DEF CollectFinish, page
  <2>2. trace # None
    BY <1>1, <1>2, <2>1 DEF Posts, FullTrace
  <2>3. 1 \in Waiting("finish")
    BY <1>14, CollectorHead DEF CollectFinish
  <2>4. QED
    BY <2>2, <2>3 DEF Importing
<1>15. QED
  BY <1>3, <1>4, <1>6, <1>8, <1>9, <1>10, <1>11, <1>12, <1>13, <1>14
     DEF CaptureNext, PageMessage, Application, Collector

-----------------------------------------------------------------------------
(***************************************************************************)
(* The theorems.                                                           *)
(***************************************************************************)
LEMMA StepWorklet ==
    ASSUME Inv, Mail, Reporting, Quantum, [CaptureNext]_captureVars
    PROVE  Inv' /\ Reporting'
<1>1. CASE Worklet
  <2>1. CASE WorkletStep
    BY <2>1, WorkletInv, WorkletReporting
  <2>2. CASE UNCHANGED <<transport, toMain, toWorklet>>
    BY <2>2, TransportOwn, ElsewhereInv, ElsewhereReporting
  <2>3. QED
    BY <1>1, <2>1, <2>2, WorkletThread
<1>2. CASE PageMessage \/ Application \/ Collector \/ UNCHANGED captureVars
  <2>1. UNCHANGED Own
    BY <1>2, OtherThreads, TransportOwn
  <2>2. toMain' = toMain \/ (toMain # <<>> /\ toMain' = Tail(toMain))
    <3>1. CASE PageMessage
      BY <3>1 DEF PageMessage, RelayChunk, AudioStopped, AudioAborted, RelayRecycle, Result, FromPort
    <3>2. CASE Application
      BY <3>2 DEF Application, Start, Attach, StopAudio, StopTimeout, StopRejected, StopFails, Submit, AbortCapture, Finish,
                  channels
    <3>3. CASE Collector
      BY <3>3 DEF Collector, CollectStart, CollectRecords, CollectChunk, CollectStopped,
                  CollectFinish, Imported, AtCollector
    <3>4. CASE UNCHANGED captureVars
      BY <3>4 DEF captureVars, channels
    <3>5. QED
      BY <1>2, <3>1, <3>2, <3>3, <3>4
  <2>3. QED
    BY <2>1, <2>2, ElsewhereInv, ElsewhereReporting
<1>3. QED
  BY <1>1, <1>2 DEF CaptureNext

LEMMA InitCapture == CaptureInit => Capture /\ Quantum /\ AllInOrder
<1> SUFFICES ASSUME CaptureInit PROVE Capture /\ Quantum /\ AllInOrder
  OBVIOUS
<1>1. WorkletInit
  BY DEF CaptureInit
<1>2. /\ toCollector = <<>> /\ fromCollector = <<>> /\ toMain = <<>>
      /\ started = FALSE /\ attached = FALSE /\ audioStatus = None /\ status = None
      /\ submitted = 0 /\ ordinary = 0 /\ audioSequence = 0 /\ audioChunks = <<>>
      /\ sequence = 0 /\ shipped = <<>> /\ trace = None /\ phase = "running" /\ result = "none"
  BY DEF CaptureInit, WorkletInit
<1>3. InC = {} /\ InF = {} /\ Relayed
  BY <1>2 DEF InC, InF, TokensIn, OneEach, Relayed
<1>4. Types
  BY InitTypes
<1>5. Held = {}
  BY <1>3, <1>4, HeldIs
<1>6. Inv /\ Mail /\ Reporting /\ Away(Held)
  BY <1>1, <1>5, InitInv, InitAway, InitReporting
<1>7. \A t : Waiting(t) = {}
  BY <1>2 DEF Waiting
<1>8. Delivered
  <2>1. Now = Final /\ Audio(Final) \in Progress /\ Final \in Progress
    BY <1>2, <1>4, <1>6, FinalIs DEF Now, Final
  <2>2. Final.ordinary = submitted
    BY PointIs DEF Final
  <2>3. DeliveredTo(Final)
    BY <1>2, <2>1, <2>2, LeadsStart DEF DeliveredTo
  <2>4. QED
    BY <2>3 DEF Delivered
<1>9. Begun /\ Reported /\ Finishing /\ Importing
  BY <1>2, <1>7 DEF Begun, Reported, Finishing, Importing
<1>10. Traced
  BY <1>2 DEF Traced
<1>11. QED
  BY <1>3, <1>4, <1>6, <1>8, <1>9, <1>10, InitQuantum DEF Capture, Worker

LEMMA StepCapture ==
    Capture /\ Quantum /\ AllInOrder /\ [CaptureNext]_captureVars => Capture' /\ Quantum' /\ AllInOrder'
<1> SUFFICES ASSUME Capture, Quantum, AllInOrder, [CaptureNext]_captureVars
             PROVE  Capture' /\ Quantum' /\ AllInOrder'
  OBVIOUS
<1>1. /\ Inv /\ Mail /\ Reporting /\ Types /\ Away(Held) /\ Relayed /\ Delivered /\ Begun
      /\ Reported /\ Finishing /\ Importing /\ Traced
  BY DEF Capture, Worker
<1>2. Inv' /\ Reporting'
  BY <1>1, StepWorklet
<1>3. Types'
  BY <1>1, StepTypes
<1>4. Mail' /\ Away(Held)' /\ Relayed'
  BY <1>1, <1>3, CaptureAway, StepRelayed
<1>5. Delivered'
  BY <1>1, <1>2, <1>3, StepDelivered
<1>6. Begun' /\ Reported' /\ Finishing'
  BY <1>1, StepBegun, StepReported, StepFinishing
<1>7. Importing' /\ Traced'
  BY <1>1, StepImporting, StepTraced
<1>8. Quantum' /\ AllInOrder'
  BY <1>1, StepQuantum
<1>9. QED
  BY <1>2, <1>3, <1>4, <1>5, <1>6, <1>7, <1>8 DEF Capture, Worker

LEMMA CaptureAlways == CaptureSpec => [](Capture /\ Quantum /\ AllInOrder)
  BY InitCapture, StepCapture, PTL DEF CaptureSpec

\* No counter and no end of a quantum is in the trace without what precedes it
\* in its span, for every capacity of the ring, every pool and whatever the page,
\* the collector and the application do between the callbacks.
THEOREM QuantaArePrefixes == CaptureSpec => []QuantumIsPrefix
<1>1. AllInOrder => QuantumIsPrefix
  BY DEF AllInOrder, InOrder, Follows, Previous, QuantumIsPrefix
<1>2. QED
  BY <1>1, CaptureAlways, PTL

\* A trace that finish() returns holds every record the worklet accepted, in
\* order, its report and every batch, for every pool, ring and number of
\* callbacks, batches and stops, wherever timeouts and aborts fall.
THEOREM TraceIsComplete == CaptureSpec => []TraceComplete
<1>1. Capture => TraceComplete
  <2> SUFFICES ASSUME Capture, Complete
               PROVE  /\ trace.ordinary = submitted
                      /\ trace.attached =>
                           /\ trace.audio = accepted
                           /\ trace.status # None /\ trace.status = audioStatus
                           /\ trace.status.emitted = Len(accepted)
    BY DEF TraceComplete
  <2>1. /\ trace.ordinary = submitted
        /\ trace.attached => trace.audio = accepted /\ trace.status = audioStatus
        /\ trace # None
    BY DEF Capture, Traced, Complete
  <2>2. trace.attached => audioStatus # None
    BY <2>1 DEF Capture, Importing
  <2>3. trace.attached => audioStatus.emitted = Len(accepted)
    BY <2>2 DEF Capture, Reported
  <2>4. QED
    BY <2>1, <2>2, <2>3
<1>2. QED
  BY <1>1, CaptureAlways, PTL

\* No chunk, report or returned buffer is ever refused, after a timeout, a
\* repeated stop and an abort too: the handlers of the collector never throw.
THEOREM NothingIsRejected == CaptureSpec => []NothingRejected
<1>1. CaptureInit => Answered
  BY DEF CaptureInit, WorkletInit, Answered
<1>2. Capture /\ Quantum /\ AllInOrder /\ Answered /\ [CaptureNext]_captureVars => Answered'
  BY StepAnswered DEF Capture, Worker
<1>3. Answered => NothingRejected
  BY DEF Answered, NothingRejected
<1>4. QED
  BY <1>1, <1>2, <1>3, CaptureAlways, PTL DEF CaptureSpec

-----------------------------------------------------------------------------
(***************************************************************************)
(* The page keeps to the transport's contract.                             *)
(***************************************************************************)
\* The commands there can have been, at most two of a stop that fails.
Commanded == 2 * stops - waiting - rejecting + (IF aborted THEN 1 ELSE 0)
Bounded ==
    /\ stops \in Nat /\ stops <= MaxStops
    /\ waiting \in Nat /\ rejecting \in Nat
    /\ Len(toWorklet) <= Cardinality(Back) + Commanded

\* The buffers that travel back are buffers of the pool.
LEMMA BackFits ==
    ASSUME Inv, Mail, NEW H, Away(H)
    PROVE  /\ IsFiniteSet(Back) /\ Cardinality(Back) \in Nat /\ Cardinality(Back) <= PoolSize
           /\ H # {} => Cardinality(Back) < PoolSize
<1>1. Back \subseteq Tokens /\ H \subseteq Tokens /\ Back \intersect H = {}
  BY DEF Inv, TypeOK, Away
<1>2. IsFiniteSet(Tokens) /\ Cardinality(Tokens) = PoolSize
  BY TransportAssumption, FS_Interval DEF Tokens
<1>3. IsFiniteSet(Back) /\ Cardinality(Back) <= PoolSize /\ Cardinality(Back) \in Nat
  BY <1>1, <1>2, FS_Subset, FS_CardinalityType
<1>4. ASSUME H # {} PROVE Cardinality(Back) < PoolSize
  <2>1. Back # Tokens
    BY <1>1, <1>4
  <2>2. QED
    <3>1. Cardinality(Back) # Cardinality(Tokens)
      BY <1>1, <1>2, <2>1, FS_Subset
    <3>2. QED
      BY <1>2, <1>3, <3>1, TransportAssumption
<1>5. QED
  BY <1>3, <1>4

\* A message that is taken leaves no more than there were.
LEMMA BoundTaken ==
    ASSUME Inv, Mail, NEW H, Away(H), Bounded, toWorklet # <<>>, toWorklet' = Tail(toWorklet)
    PROVE  Len(toWorklet)' <= Cardinality(Back)' + Commanded
<1>1. Back' = IF Head(toWorklet) \in Returns THEN Back \ {Head(toWorklet).poolToken} ELSE Back
  BY TokensTaken DEF Mail, Away, Back
<1>2. Len(toWorklet)' = Len(toWorklet) - 1 /\ Len(toWorklet) \in Nat
  BY TailOf, LenProperties DEF Mail
<1>3. IsFiniteSet(Back) /\ Cardinality(Back) \in Nat
  BY BackFits
<1>4. Cardinality(Back') >= Cardinality(Back) - 1 /\ Cardinality(Back') \in Int
  <2>1. CASE Back' = Back
    BY <1>3, <2>1
  <2>2. ASSUME NEW t, Back' = Back \ {t} PROVE Cardinality(Back') >= Cardinality(Back) - 1 /\ Cardinality(Back') \in Int
    <3>1. Cardinality(Back \ {t}) = IF t \in Back THEN Cardinality(Back) - 1 ELSE Cardinality(Back)
      BY <1>3, FS_RemoveElement
    <3>2. CASE t \in Back
      BY <1>3, <2>2, <3>1, <3>2
    <3>3. CASE t \notin Back
      BY <1>3, <2>2, <3>1, <3>3
    <3>4. QED
      BY <3>2, <3>3
  <2>3. QED
    BY <1>1, <2>1, <2>2
<1>5. Commanded \in Int
  BY DEF Commanded, Bounded
<1>6. QED
  BY <1>2, <1>3, <1>4, <1>5 DEF Bounded

\* A buffer that is returned is one more that travels.
LEMMA BoundReturned ==
    ASSUME Inv, Mail, NEW H, Away(H), Bounded, NEW m \in Returns, m.poolToken \in H,
           toWorklet' = Append(toWorklet, m)
    PROVE  Len(toWorklet)' <= Cardinality(Back)' + Commanded
<1>0. m \in WorkletMessages
  BY DEF Returns, WorkletMessages
<1>1. Back' = Back \union {m.poolToken} /\ m.poolToken \notin Back
  BY <1>0, TokensAppended DEF Mail, Away, Back
<1>2. Len(toWorklet)' = Len(toWorklet) + 1 /\ Len(toWorklet) \in Nat
  BY <1>0, Appended DEF Mail
<1>3. IsFiniteSet(Back) /\ Cardinality(Back) \in Nat
  BY BackFits
<1>4. Cardinality(Back') = Cardinality(Back) + 1
  BY <1>1, <1>3, FS_AddElement
<1>5. Commanded \in Int
  BY DEF Commanded, Bounded
<1>6. QED
  BY <1>2, <1>3, <1>4, <1>5 DEF Bounded

\* A command is none.
LEMMA BoundCommanded ==
    ASSUME Mail, NEW H, Away(H), NEW m \in Commands, toWorklet' = Append(toWorklet, m)
    PROVE  /\ Len(toWorklet)' = Len(toWorklet) + 1 /\ Len(toWorklet) \in Nat
           /\ Cardinality(Back)' = Cardinality(Back)
<1>1. m \in WorkletMessages /\ m \notin Returns
  BY DEF Commands, WorkletMessages, Returns, RecycleMessages
<1>2. Back' = Back
  BY <1>1, TokensAppended DEF Mail, Away, Back
<1>3. QED
  BY <1>1, <1>2, Appended DEF Mail

\* The worklet takes one message at most.
LEMMA WorkletReceives ==
    ASSUME WorkletStep
    PROVE  toWorklet' = toWorklet \/ (toWorklet # <<>> /\ toWorklet' = Tail(toWorklet))
<1>1. CASE Callback
  BY <1>1 DEF Callback, EmitRecorded, EmitDropped, StartDrain
<1>2. CASE Loop
  BY <1>2 DEF Loop, DrainStarved, DrainTurn, DrainDone, FinishPartial, FinishReport
<1>3. CASE Handler
  BY <1>3 DEF Handler, RecycleRefused, RecycleAccepted, Stop, StopIgnored, Abort, AbortIgnored, Received
<1>4. QED
  BY <1>1, <1>2, <1>3 DEF WorkletStep

LEMMA StepBounded ==
    ASSUME Inv, Mail, Types, Away(Held), Relayed, Quantum, Bounded, [CaptureNext]_captureVars
    PROVE  Bounded'
<1> DEFINE counts == <<stops, waiting, rejecting, aborted>>
           Counted == /\ stops' \in Nat /\ stops' <= MaxStops
                      /\ waiting' \in Nat /\ rejecting' \in Nat
<1>1. CASE UNCHANGED <<toWorklet, counts>>
  <2>1. Back' = Back /\ Commanded' = Commanded
    BY <1>1 DEF Back, Commanded
  <2>2. QED
    BY <1>1, <2>1 DEF Bounded
<1>2. ASSUME UNCHANGED counts, Len(toWorklet)' <= Cardinality(Back)' + Commanded
      PROVE  Bounded'
  BY <1>2 DEF Bounded, Commanded
<1>3. ASSUME Counted, Commanded' >= Commanded, Commanded \in Int, Commanded' \in Int,
             UNCHANGED toWorklet
      PROVE  Bounded'
  <2>1. Back' = Back /\ Len(toWorklet) \in Nat
    BY <1>3, LenProperties DEF Back, Mail
  <2>2. Cardinality(Back) \in Nat
    BY BackFits
  <2>3. QED
    BY <1>3, <2>1, <2>2 DEF Bounded
<1>4. ASSUME Counted, Commanded' = Commanded + 1, Commanded \in Int,
             NEW m \in Commands, toWorklet' = Append(toWorklet, m)
      PROVE  Bounded'
  <2>1. /\ Len(toWorklet)' = Len(toWorklet) + 1 /\ Len(toWorklet) \in Nat
        /\ Cardinality(Back)' = Cardinality(Back)
    BY <1>4, BoundCommanded
  <2>2. Cardinality(Back) \in Nat
    BY BackFits
  <2>3. QED
    BY <1>4, <2>1, <2>2 DEF Bounded
<1>5. [type |-> "stop"] \in Commands /\ [type |-> "abort"] \in Commands
  BY DEF Commands
<1>6. /\ stops \in Nat /\ stops <= MaxStops /\ MaxStops \in Nat
      /\ waiting \in Nat /\ rejecting \in Nat /\ Commanded \in Int
  BY CaptureAssumption DEF Bounded, Commanded
<1>7. CASE Worklet
  <2>1. UNCHANGED counts
    BY <1>7, WorkletThread DEF Elsewhere, page
  <2>2. toWorklet' = toWorklet \/ (toWorklet # <<>> /\ toWorklet' = Tail(toWorklet))
    BY <1>7, WorkletThread, WorkletReceives
  <2>3. QED
    BY <1>1, <1>2, <2>1, <2>2, BoundTaken
<1>8. CASE RelayRecycle
  <2>1. Head(fromCollector) \in Returns /\ Head(fromCollector).poolToken \in Held
    BY <1>8, RelayRecycleHeld
  <2>2. toWorklet' = Append(toWorklet, Head(fromCollector)) /\ UNCHANGED counts
    BY <1>8 DEF RelayRecycle, page
  <2>3. QED
    BY <1>2, <2>1, <2>2, BoundReturned
\* A call that is answered leaves room, one that is rejected keeps its own.
<1>9. CASE AudioStopped
  BY <1>3, <1>6, <1>9 DEF AudioStopped, Commanded
<1>10. CASE AudioAborted /\ rejecting = 0
  BY <1>3, <1>6, <1>10 DEF AudioAborted, Commanded
<1>11. CASE StopTimeout \/ StopRejected
  <2>1. /\ UNCHANGED stops /\ UNCHANGED aborted
        /\ toWorklet' = Append(toWorklet, [type |-> "abort"])
        /\ \/ waiting' = waiting - 1 /\ rejecting' = rejecting /\ waiting > 0
           \/ rejecting' = rejecting - 1 /\ waiting' = waiting /\ rejecting > 0
    BY <1>11 DEF StopTimeout, StopRejected, StopFails
  <2>2. Commanded' = Commanded + 1
    BY <1>6, <2>1 DEF Commanded
  <2>3. Counted
    BY <1>6, <2>1
  <2>4. QED
    BY <1>4, <1>5, <1>6, <2>1, <2>2, <2>3
<1>12. CASE StopAudio
  <2>1. /\ waiting' = waiting + 1 /\ UNCHANGED <<rejecting, aborted>>
        /\ stops < MaxStops /\ stops' = stops + 1
        /\ toWorklet' = Append(toWorklet, [type |-> "stop"])
    BY <1>12 DEF StopAudio
  <2>2. Commanded' = Commanded + 1 /\ stops' \in Nat /\ stops' <= MaxStops
    BY <1>6, <2>1 DEF Commanded
  <2>3. QED
    BY <1>4, <1>5, <1>6, <2>1, <2>2
<1>13. CASE AbortCapture
  <2>1. /\ ~aborted /\ aborted' = TRUE /\ UNCHANGED <<stops, waiting, rejecting>>
        /\ toWorklet' = IF attached THEN Append(toWorklet, [type |-> "abort"]) ELSE toWorklet
    BY <1>13 DEF AbortCapture
  <2>2. Commanded' = Commanded + 1
    BY <1>6, <2>1 DEF Commanded
  <2>3. QED
    BY <1>3, <1>4, <1>5, <1>6, <2>1, <2>2
<1>14. CASE RelayChunk \/ Result \/ Start \/ Attach \/ Submit \/ Finish
  BY <1>1, <1>14 DEF RelayChunk, Result, Start, Attach, Submit, Finish, page, channels
<1>15. CASE Collector \/ UNCHANGED captureVars
  BY <1>1, <1>15 DEF Collector, CollectStart, CollectRecords, CollectChunk, CollectStopped,
                     CollectFinish, Imported, AtCollector, page, captureVars, channels
<1>16. QED
  BY <1>7, <1>8, <1>9, <1>10, <1>11, <1>12, <1>13, <1>14, <1>15 DEF CaptureNext, PageMessage, Application

\* Whatever the page posts, it has room for.
LEMMA RoomToPost ==
    ASSUME Inv, Mail, NEW H, Away(H), Bounded, rejected = 0,
           H # {} \/ Commanded < 2 * MaxStops + 1
    PROVE  T!MailBound
<1>1. Cardinality(Back) \in Nat /\ Cardinality(Back) <= PoolSize /\ (H # {} => Cardinality(Back) < PoolSize)
  BY BackFits
<1>2. Commanded \in Int /\ Commanded <= 2 * MaxStops + 1
  BY CaptureAssumption DEF Bounded, Commanded
<1>3. Len(toWorklet) \in Nat
  BY LenProperties DEF Mail
<1>4. Len(toWorklet) < MaxMail
  BY <1>1, <1>2, <1>3, CaptureAssumption, TransportAssumption DEF Bounded
<1>5. QED
  BY <1>3, <1>4 DEF T!MailBound

\* The worklet's actions are the transport's.
LEMMA CallbackMaps == Callback => T!Callback
  BY DEF Callback, T!Callback, EmitRecorded, T!EmitRecorded, EmitDropped, T!EmitDropped,
         StartDrain, T!StartDrain, DrainNeeded, T!DrainNeeded, PoolEmpty, T!PoolEmpty, Fits, T!Fits,
         producer, T!producer, pool, T!pool, starvation, T!starvation, life, T!life, port, T!port

LEMMA LoopMaps == Loop => T!Loop
<1>1. DrainStarved => T!DrainStarved
  BY DEF DrainStarved, T!DrainStarved, PoolEmpty, T!PoolEmpty,
         producer, T!producer, pool, T!pool, life, T!life, port, T!port
<1>2. DrainTurn => T!DrainTurn
  BY DEF DrainTurn, T!DrainTurn, PoolEmpty, T!PoolEmpty, Empty, T!Empty, LastOf, T!LastOf,
         FrontOf, T!FrontOf, Fit, T!Fit, Cuts, T!Cuts, Filled, T!Filled, Taken, T!Taken,
         Rest, T!Rest, Rotates, T!Rotates, Ship, T!Ship, port, T!port, starvation, T!starvation,
         life, T!life
<1>3. DrainDone => T!DrainDone
  BY DEF DrainDone, T!DrainDone, producer, T!producer, pool, T!pool, starvation, T!starvation,
         life, T!life, port, T!port
<1>4. FinishPartial => T!FinishPartial
  BY DEF FinishPartial, T!FinishPartial, ActiveData, T!ActiveData, Ship, T!Ship, Empty, T!Empty,
         LastOf, T!LastOf, FrontOf, T!FrontOf, producer, T!producer, starvation, T!starvation,
         life, T!life
<1>5. FinishReport => T!FinishReport
  BY DEF FinishReport, T!FinishReport, ActiveData, T!ActiveData, producer, T!producer,
         pool, T!pool, starvation, T!starvation
<1>6. QED
  BY <1>1, <1>2, <1>3, <1>4, <1>5 DEF Loop, T!Loop

LEMMA HandlerMaps == Handler => T!Handler
<1> USE DEF Received, T!Received, producer, T!producer, pool, T!pool, starvation, T!starvation,
            life, T!life, port, T!port
<1>1. RecycleRefused => T!RecycleRefused
  BY DEF RecycleRefused, T!RecycleRefused, Ignored, T!Ignored, Known, T!Known
<1>2. RecycleAccepted => T!RecycleAccepted
  BY DEF RecycleAccepted, T!RecycleAccepted, Ignored, T!Ignored, Known, T!Known, Empty, T!Empty,
         EndStarvation, T!EndStarvation, Resumed, T!Resumed
<1>3. Stop \/ StopIgnored => T!Stop \/ T!StopIgnored
  BY DEF Stop, T!Stop, StopIgnored, T!StopIgnored
<1>4. Abort \/ AbortIgnored => T!Abort \/ T!AbortIgnored
  BY DEF Abort, T!Abort, AbortIgnored, T!AbortIgnored
<1>5. QED
  BY <1>1, <1>2, <1>3, <1>4 DEF Handler, T!Handler

LEMMA InitMaps == CaptureInit => T!Init
<1> SUFFICES ASSUME CaptureInit PROVE T!Init
  OBVIOUS
<1>1. T!WorkletInit
  BY DEF CaptureInit, WorkletInit, T!WorkletInit, Empty, T!Empty
<1>2. Held = {}
  BY DEF CaptureInit, Held
<1>3. QED
  BY <1>1, <1>2 DEF T!Init

\* What a step outside the worklet may do to the port.
LEMMA PostMaps ==
    ASSUME UNCHANGED transport, toMain' = toMain, T!MailBound,
           NEW m, toWorklet' = Append(toWorklet, m)
    PROVE  T!Post(m)
  BY DEF T!Post, transport, T!producer, T!pool, T!starvation, T!life, T!port

LEMMA TakeMaps ==
    ASSUME UNCHANGED transport, toMain # <<>>, toMain' = Tail(toMain),
           Held' = IF Head(toMain).type = "trace-chunk"
                   THEN Held \union {Head(toMain).poolToken} ELSE Held,
           toWorklet' = toWorklet
    PROVE  T!Take
<1>1. UNCHANGED <<T!producer, T!pool, T!starvation, T!life, sequence, shipped, rejected, pc>>
  BY DEF transport, T!producer, T!pool, T!starvation, T!life
<1>2. QED
  BY <1>1 DEF T!Take

\* Every step of the capture is one of the transport with its page, or none.
LEMMA StepMaps ==
    ASSUME Inv, Mail, Types, Types', Away(Held), Relayed, Delivered, Quantum, Answered, Bounded, [CaptureNext]_captureVars
    PROVE  [T!Next]_T!vars
<1>1. PICK H, G : H = Held /\ G = Held'
  OBVIOUS
<1>2. G = InC' \union InF'
  <2>1. (Types => Held = InC \union InF)'
    BY HeldIs, PTL
  <2>2. QED
    BY <1>1, <2>1
<1>3. ~RelayChunk /\ ~CollectChunk /\ ~RelayRecycle => G = H
  BY <1>1, <1>2, OtherHeld
<1>4. Away(H) /\ rejected = 0
  BY <1>1 DEF Answered
<1>5. [type |-> "stop"] \in Commands /\ [type |-> "abort"] \in Commands /\ T!Commands = Commands
  BY DEF Commands, T!Commands
<1>6. /\ MaxStops \in Nat /\ stops \in Nat /\ stops <= MaxStops
      /\ waiting \in Nat /\ rejecting \in Nat
  BY CaptureAssumption DEF Bounded
<1>7. ASSUME G = H, UNCHANGED <<transport, toMain, toWorklet>> PROVE UNCHANGED T!vars
  BY <1>1, <1>7 DEF T!vars, T!worklet, T!producer, T!pool, T!starvation, T!life, T!port, transport
<1>8. ASSUME G = H, UNCHANGED transport, toMain' = toMain, T!MailBound,
             NEW m \in Commands, toWorklet' = Append(toWorklet, m)
      PROVE  T!Next
  <2>1. T!Post(m)
    BY <1>8, PostMaps
  <2>2. T!Command
    BY <1>1, <1>5, <1>8, <2>1 DEF T!Command
  <2>3. QED
    BY <2>2 DEF T!Next, T!Page
<1>9. CASE Worklet /\ G = H
  <2>2. CASE WorkletStep
    BY <1>1, <1>9, <2>2, CallbackMaps, LoopMaps, HandlerMaps DEF WorkletStep, T!Next
  <2>3. QED
    BY <1>7, <1>9, <2>2, WorkletThread
<1>10. CASE RelayChunk
  <2>1. G = H \union {Head(toMain).poolToken} /\ Head(toMain) \in ChunkMessages
    BY <1>1, <1>2, <1>10, RelayChunkHeld
  <2>2. toMain # <<>> /\ toMain' = Tail(toMain) /\ Head(toMain).type = "trace-chunk"
    BY <1>10, PortHead DEF RelayChunk, FromPort
  <2>3. UNCHANGED transport /\ toWorklet' = toWorklet
    BY <1>10 DEF RelayChunk
  <2>4. T!Take
    BY <1>1, <2>1, <2>2, <2>3, TakeMaps
  <2>5. QED
    BY <2>4 DEF T!Next, T!Page
<1>11. CASE AudioStopped /\ G = H
  <2>1. toMain # <<>> /\ toMain' = Tail(toMain) /\ Head(toMain).type = "trace-stopped"
    BY <1>11, PortHead DEF AudioStopped, FromPort
  <2>2. UNCHANGED transport /\ toWorklet' = toWorklet
    BY <1>11 DEF AudioStopped
  <2>4. T!Take
    BY <1>1, <1>11, <2>1, <2>2, TakeMaps
  <2>5. QED
    BY <2>4 DEF T!Next, T!Page
<1>12. CASE AudioAborted /\ G = H
  <2>1. toMain # <<>> /\ toMain' = Tail(toMain) /\ Head(toMain).type = "trace-aborted"
    BY <1>12, PortHead DEF AudioAborted, FromPort
  <2>2. /\ UNCHANGED transport
        /\ toWorklet' = toWorklet
    BY <1>12 DEF AudioAborted
  <2>3. T!Take
    BY <1>1, <1>12, <2>1, <2>2, TakeMaps
  <2>4. QED
    BY <2>3 DEF T!Next, T!Page
<1>13. CASE RelayRecycle
  <2> DEFINE m == Head(fromCollector)
  <2>1. m \in Returns /\ m.poolToken \in H /\ G = H \ {m.poolToken}
    BY <1>1, <1>2, <1>13, RelayRecycleHeld
  <2>2. UNCHANGED transport /\ toMain' = toMain /\ toWorklet' = Append(toWorklet, m)
    BY <1>13 DEF RelayRecycle
  <2>3. T!MailBound
    BY <1>4, <2>1, RoomToPost
  <2>4. m = T!Recycled(m.poolToken, TRUE, m.buffer) /\ m.buffer \in BOOLEAN
    BY <2>1 DEF Returns, RecycleMessages, T!Recycled
  <2> HIDE DEF m
  <2>5. T!Post(T!Recycled(m.poolToken, TRUE, m.buffer))
    BY <2>2, <2>3, <2>4, PostMaps
  <2>6. T!GiveBack(m.poolToken, m.buffer)
    BY <1>1, <2>1, <2>5 DEF T!GiveBack
  <2>7. QED
    BY <1>1, <2>1, <2>4, <2>6 DEF T!Next, T!Page
<1>14. CASE (StopAudio \/ StopTimeout \/ StopRejected \/ AbortCapture) /\ G = H
  <2>1. UNCHANGED transport /\ toMain' = toMain
    BY <1>14 DEF StopAudio, StopTimeout, StopRejected, StopFails, AbortCapture
  <2>3. Commanded < 2 * MaxStops + 1
    BY <1>6, <1>14 DEF StopAudio, StopTimeout, StopRejected, StopFails, AbortCapture, Commanded
  <2>4. T!MailBound
    BY <1>4, <2>3, RoomToPost
  <2>5. toWorklet' = toWorklet \/ \E m \in Commands : toWorklet' = Append(toWorklet, m)
    BY <1>5, <1>14 DEF StopAudio, StopTimeout, StopRejected, StopFails, AbortCapture
  <2>6. QED
    BY <1>7, <1>8, <1>14, <2>1, <2>4, <2>5
<1>15. CASE (Start \/ Attach \/ Submit \/ Finish \/ Result \/ Collector \/ UNCHANGED captureVars) /\ G = H
  <2>1. UNCHANGED <<transport, toMain, toWorklet>>
    BY <1>15 DEF Start, Attach, Submit, Finish, Result, channels, captureVars, Collector, CollectStart,
                 CollectRecords, CollectChunk, CollectStopped, CollectFinish, Imported, AtCollector
  <2>2. QED
    BY <1>7, <1>15, <2>1
<1>16. CASE CollectChunk
  <2>1. G = H
    BY <1>1, <1>2, <1>16, CollectChunkHeld
  <2>2. QED
    BY <1>15, <1>16, <2>1 DEF Collector
<1>17. QED
  BY <1>3, <1>9, <1>10, <1>11, <1>12, <1>13, <1>14, <1>15, <1>16 DEF CaptureNext, PageMessage, Application

\* The worklet, the page and the collector together do only what the transport
\* and its page may do, so what holds of ChunkTransport holds of the capture, for
\* every pool, ring and number of calls.
THEOREM CaptureImplementsTransport == CaptureSpec => ImplementsTransport
<1>1. CaptureSpec => [](Capture /\ Quantum /\ AllInOrder) /\ []Answered
  <2>1. CaptureInit => Answered
    BY DEF CaptureInit, WorkletInit, Answered
  <2>2. Capture /\ Quantum /\ AllInOrder /\ Answered /\ [CaptureNext]_captureVars => Answered'
    BY StepAnswered DEF Capture, Worker
  <2>3. QED
    BY <2>1, <2>2, CaptureAlways, PTL DEF CaptureSpec
<1>2. CaptureInit => Bounded
  <2> SUFFICES ASSUME CaptureInit PROVE Bounded
    OBVIOUS
  <2>1. toWorklet = <<>> /\ stops = 0 /\ waiting = 0 /\ rejecting = 0 /\ ~aborted
    BY DEF CaptureInit, WorkletInit
  <2>2. Back = {} /\ Commanded = 0
    BY <2>1 DEF Back, TokensIn, Commanded
  <2>3. Cardinality(Back) = 0 /\ Len(toWorklet) = 0
    BY <2>1, <2>2, FS_EmptySet
  <2>4. QED
    BY <2>1, <2>2, <2>3, CaptureAssumption DEF Bounded
<1>3. Capture /\ Quantum /\ Bounded /\ [CaptureNext]_captureVars => Bounded'
  BY StepBounded DEF Capture, Worker
<1>4. Capture /\ Capture' /\ Quantum /\ Answered /\ Bounded /\ [CaptureNext]_captureVars => [T!Next]_T!vars
  BY StepMaps DEF Capture, Worker
<1>5. QED
  BY <1>1, <1>2, <1>3, <1>4, InitMaps, PTL DEF CaptureSpec, T!Spec, ImplementsTransport
=============================================================================
