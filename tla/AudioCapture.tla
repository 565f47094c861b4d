---------------------------- MODULE AudioCapture ----------------------------
(***************************************************************************)
(* One browser capture with an audio producer, end to end: the audio       *)
(* worklet (processor, AudioChunkProducer and the chunk transport), the    *)
(* page's BrowserCaptureController, and the collector worker.  The three   *)
(* are threads connected by four ordered, reliable channels; the page      *)
(* relays chunks to the collector and empty buffers back.                  *)
(*                                                                         *)
(* The worklet's transport is module TransportWorklet; what ChunkTransport *)
(* allows its page to do is what the page and the collector do here.       *)
(***************************************************************************)
EXTENDS TransportWorklet

CONSTANTS
    MaxQuanta,   \* bound: callbacks that record
    MaxBatches,  \* bound: ordinary batches submitted
    MaxStops,    \* bound: calls of stopAudio
    MayAbort     \* whether the application calls abort()

Steps == {"flow", "begin", "queue", "load", "end"}

\* What the collector keeps of a finish, and the trace it builds.
Traces ==
    [attached : BOOLEAN] \union
    [attached : BOOLEAN, ordinary : Nat, audio : Seq(Records),
     status : StopMessages \union {None}]

\* A record per step of a quantum, each a group of its own.  MaxRecords and
\* MaxMail are large enough to bound nothing here: the other bounds do.
ASSUME CaptureAssumption ==
    /\ MaxMail \in Nat /\ MaxQuanta \in Nat /\ MaxBatches \in Nat /\ MaxStops \in Nat
    /\ PoolSize + 2 * MaxStops < MaxMail
    /\ MayAbort \in BOOLEAN
    /\ None \notin Traces
    /\ Records = [end : {TRUE}, data : (1..MaxQuanta) \X Steps]
    /\ Groups = {<<r>> : r \in Records}
    /\ MaxRecords = 4 * MaxQuanta + 1

VARIABLES
    callback,       \* what process() does next, or "none" between callbacks
    frame,          \* the last callback that recorded
    flowInstalled,
    started, closed, attached, \* started, finished and audioPort of the page
    audioStatus,    \* the page's, None until trace-stopped
    waiting,        \* calls of stopAudio that are not answered
    rejecting,      \* those that trace-aborted has rejected, whose catch is due
    stops,          \* calls of stopAudio, for the bound
    aborted,        \* abort() has been called
    submitted,      \* ordinary batches submitted
    result,         \* of finish(): "none", "pending", "trace" or "error"
    toCollector, fromCollector,
    phase,          \* collector: "running", "importing", "done", "terminated"
    ordinary,       \* batches the collector has
    audioChunks,    \* the records of its audio chunks, concatenated
    audioSequence,
    status,         \* the collector's audioStatus
    faults,         \* messages whose handler threw
    trace           \* what the trace was built from, None before

transport == <<ring, enabled, emitted, dropped, available, active, inFlight,
    returned, sequence, starvationDropStart, poolStarvation, rejected, stopping,
    finished, pc, accepted, shipped>>
processor == <<callback, frame, flowInstalled>>
page == <<started, closed, attached, audioStatus, waiting, rejecting, stops,
          aborted, submitted, result>>
collector == <<phase, ordinary, audioChunks, audioSequence, status, faults, trace>>
channels == <<toMain, toWorklet, toCollector, fromCollector>>
captureVars == <<transport, processor, page, collector, channels>>

\* The tokens of the buffers between the page and the collector.
Held == {toCollector[i].poolToken :
            i \in {j \in 1..Len(toCollector) : toCollector[j].type = "trace-chunk"}}
        \union
        {fromCollector[i].poolToken :
            i \in {j \in 1..Len(fromCollector) : fromCollector[j].type = "recycle"}}

T == INSTANCE ChunkTransport WITH held <- Held

CaptureInit ==
    /\ WorkletInit
    /\ callback = "none" /\ frame = 0 /\ flowInstalled = FALSE
    /\ started = FALSE /\ closed = FALSE /\ attached = FALSE
    /\ audioStatus = None /\ waiting = 0 /\ rejecting = 0 /\ stops = 0
    /\ aborted = FALSE
    /\ submitted = 0 /\ result = "none"
    /\ toCollector = <<>> /\ fromCollector = <<>>
    /\ phase = "running" /\ ordinary = 0 /\ audioChunks = <<>>
    /\ audioSequence = 0 /\ status = None /\ faults = 0 /\ trace = None

(***************************************************************************)
(* The worklet.  process() installs the flow once, records a quantum span  *)
(* with two counters inside, and drains; a span that was not recorded has  *)
(* neither counters nor end.                                               *)
(***************************************************************************)
Elsewhere == UNCHANGED <<page, collector, toCollector, fromCollector>>

StartCallback ==
    /\ callback = "none" /\ pc = "idle" /\ enabled /\ frame < MaxQuanta
    /\ frame' = frame + 1
    /\ callback' = IF flowInstalled THEN "begin" ELSE "flow"
    /\ flowInstalled' = TRUE
    /\ UNCHANGED <<transport, toMain, toWorklet>>

\* Mutant of NextStep: a counter is read before the span begins.
NextStepQueueFirst == [flow |-> "queue", queue |-> "begin", begin |-> "load",
                       load |-> "end", end |-> "drain"]
NextStep == [flow |-> "begin", begin |-> "queue", queue |-> "load",
             load |-> "end", end |-> "drain"]
Group(step) == <<[end |-> TRUE, data |-> <<frame, step>>]>>

RecordStep ==
    /\ callback \in Steps
    /\ EmitRecorded(Group(callback))
    /\ callback' = NextStep[callback]
    /\ UNCHANGED <<frame, flowInstalled>>

DropStep ==
    /\ callback \in Steps
    /\ EmitDropped(Group(callback))
    /\ callback' = IF callback = "begin" THEN "drain" ELSE NextStep[callback]
    /\ UNCHANGED <<frame, flowInstalled>>

DrainStep ==
    /\ callback = "drain" /\ callback' = "none"
    /\ StartDrain \/ (~DrainNeeded /\ UNCHANGED <<transport, toMain, toWorklet>>)
    /\ UNCHANGED <<frame, flowInstalled>>

\* callback_only, and process_quantum once the producer is disabled.
SilentCallback ==
    /\ callback = "none" /\ (~enabled \/ frame = MaxQuanta)
    /\ StartDrain
    /\ UNCHANGED processor

Process == StartCallback \/ RecordStep \/ DropStep \/ DrainStep \/ SilentCallback
Turn == Loop /\ UNCHANGED processor
Handle == callback = "none" /\ Handler /\ UNCHANGED processor

(***************************************************************************)
(* The page's messages.  The port is started in the same task that         *)
(* attaches it, so its messages wait for attachAudioPort.                  *)
(***************************************************************************)
FromPort(type) ==
    /\ attached /\ toMain # <<>> /\ Head(toMain).type = type
    /\ toMain' = Tail(toMain)

RelayChunk ==
    /\ FromPort("trace-chunk")
    /\ toCollector' = Append(toCollector, Head(toMain))
    /\ UNCHANGED <<transport, processor, page, collector, toWorklet, fromCollector>>

AudioStopped ==
    /\ FromPort("trace-stopped")
    /\ audioStatus' = Head(toMain)
    /\ toCollector' = Append(toCollector,
                             [type |-> "audio-stopped", status |-> Head(toMain)])
    /\ waiting' = 0
    /\ UNCHANGED <<transport, processor, collector, toWorklet,
                   fromCollector, started, closed, attached, rejecting,
                   stops, aborted, submitted, result>>

\* Every waiting stopAudio listens to it, and no one else.
AudioAborted ==
    /\ FromPort("trace-aborted")
    /\ rejecting' = waiting /\ waiting' = 0
    /\ UNCHANGED <<transport, processor, collector, toWorklet, toCollector,
                   fromCollector, started, closed, attached, audioStatus, stops,
                   aborted, submitted, result>>

\* Mutant of RelayRecycle: two listeners relay the buffer.
RelayRecycleTwice ==
    /\ fromCollector # <<>> /\ Head(fromCollector).type = "recycle" /\ attached
    /\ toWorklet' = toWorklet \o <<Head(fromCollector), Head(fromCollector)>>
    /\ fromCollector' = Tail(fromCollector)
    /\ UNCHANGED <<transport, processor, page, collector, toMain, toCollector>>

RelayRecycle ==
    /\ fromCollector # <<>> /\ Head(fromCollector).type = "recycle" /\ attached
    /\ toWorklet' = Append(toWorklet, Head(fromCollector))
    /\ fromCollector' = Tail(fromCollector)
    /\ UNCHANGED <<transport, processor, page, collector, toMain, toCollector>>

\* finish() returns the trace or throws, and terminates the worker.  The
\* mutant waits for the trace only.
TraceOnly == {"trace"}
Answers == {"trace", "error"}

Result ==
    /\ fromCollector # <<>> /\ Head(fromCollector).type \in Answers
    /\ fromCollector' = Tail(fromCollector)
    /\ result' = Head(fromCollector).type
    /\ phase' = "terminated"
    /\ UNCHANGED <<transport, processor, toMain, toWorklet, toCollector,
                   started, closed, attached, audioStatus, waiting,
                   rejecting, stops, aborted, submitted, ordinary,
                   audioChunks, audioSequence, status, faults, trace>>

(***************************************************************************)
(* What the application calls, and the timer of stopAudio.                 *)
(***************************************************************************)
ToCollector(m) == toCollector' = Append(toCollector, m)

Start ==
    /\ ~started /\ started' = TRUE
    /\ ToCollector([type |-> "start"])
    /\ UNCHANGED <<transport, processor, collector, toMain, toWorklet,
                   fromCollector, closed, attached, audioStatus, waiting,
                   rejecting, stops, aborted, submitted, result>>

Attach ==
    /\ started /\ ~attached /\ attached' = TRUE
    /\ UNCHANGED <<transport, processor, collector, channels, started,
                   closed, audioStatus, waiting, rejecting, stops, aborted,
                   submitted, result>>

\* Calls may overlap: each posts its stop and has a listener and a timer.
StopAudio ==
    /\ attached /\ audioStatus = None
    /\ stops < MaxStops /\ stops' = stops + 1
    /\ waiting' = waiting + 1
    /\ toWorklet' = Append(toWorklet, [type |-> "stop"])
    /\ UNCHANGED <<transport, processor, collector, toMain, toCollector,
                   fromCollector, started, closed, attached, audioStatus,
                   rejecting, aborted, submitted, result>>

\* The catch block of a call that fails: its timer has expired, or it has been
\* rejected.
StopFails ==
    /\ toWorklet' = Append(toWorklet, [type |-> "abort"])
    /\ UNCHANGED <<transport, processor, collector, toMain, toCollector,
                   fromCollector, started, closed, attached, audioStatus, stops,
                   aborted, submitted, result>>

StopTimeout ==
    /\ waiting > 0 /\ waiting' = waiting - 1 /\ UNCHANGED rejecting
    /\ StopFails

StopRejected ==
    /\ rejecting > 0 /\ rejecting' = rejecting - 1 /\ UNCHANGED waiting
    /\ StopFails

Submit ==
    /\ started /\ ~closed
    /\ submitted < MaxBatches /\ submitted' = submitted + 1
    /\ ToCollector([type |-> "records"])
    /\ UNCHANGED <<transport, processor, collector, toMain, toWorklet,
                   fromCollector, started, closed, attached, audioStatus,
                   waiting, rejecting, stops, aborted, result>>

AbortCapture ==
    /\ MayAbort /\ ~aborted /\ aborted' = TRUE
    /\ toWorklet' = IF attached THEN Append(toWorklet, [type |-> "abort"])
                    ELSE toWorklet
    /\ closed' = TRUE
    /\ phase' = "terminated"
    /\ UNCHANGED <<transport, processor, toMain, toCollector, fromCollector,
                   started, attached, audioStatus, waiting, rejecting,
                   stops, submitted, result, ordinary, audioChunks,
                   audioSequence, status, faults, trace>>

\* The calls finish() rejects.  The mutant does not ask for stopAudio first.
FinishBeforeStop == started /\ ~closed
MayFinish == started /\ ~closed /\ (attached => audioStatus # None)

Finish ==
    /\ MayFinish
    /\ closed' = TRUE /\ result' = "pending"
    /\ ToCollector([type |-> "finish", attached |-> attached])
    /\ UNCHANGED <<transport, processor, collector, toMain, toWorklet,
                   fromCollector, started, attached, audioStatus, waiting,
                   rejecting, stops, aborted, submitted>>

(***************************************************************************)
(* The collector worker.  A handler that throws drops its message; finish  *)
(* awaits an import, and other messages are handled meanwhile.             *)
(***************************************************************************)
AtCollector(type) ==
    /\ phase # "terminated"
    /\ toCollector # <<>> /\ Head(toCollector).type = type
    /\ toCollector' = Tail(toCollector)
    /\ UNCHANGED <<transport, processor, page, toMain, toWorklet>>

CollectStart ==
    /\ AtCollector("start")
    /\ audioChunks' = <<>> /\ audioSequence' = 0 /\ status' = None
    /\ UNCHANGED <<phase, ordinary, faults, trace, fromCollector>>

CollectRecords ==
    /\ AtCollector("records")
    /\ ordinary' = ordinary + 1
    /\ UNCHANGED <<phase, audioChunks, audioSequence, status, faults, trace,
                   fromCollector>>

GoodChunk(m) == m.sequence = audioSequence /\ Len(m.data) > 0

CollectChunk ==
    /\ AtCollector("trace-chunk")
    /\ IF GoodChunk(Head(toCollector))
       THEN /\ audioChunks' = audioChunks \o Head(toCollector).data
            /\ audioSequence' = audioSequence + 1
            /\ fromCollector' = Append(fromCollector,
                    Recycled(Head(toCollector).poolToken, TRUE, TRUE))
            /\ UNCHANGED faults
       ELSE /\ faults' = faults + 1
            /\ UNCHANGED <<audioChunks, audioSequence, fromCollector>>
    /\ UNCHANGED <<phase, ordinary, status, trace>>

CollectStopped ==
    /\ AtCollector("audio-stopped")
    /\ IF Head(toCollector).status.chunkCount = audioSequence
       THEN status' = Head(toCollector).status /\ UNCHANGED faults
       ELSE faults' = faults + 1 /\ UNCHANGED status
    /\ UNCHANGED <<phase, ordinary, audioChunks, audioSequence, trace,
                   fromCollector>>

CollectFinish ==
    /\ AtCollector("finish")
    /\ phase' = "importing"
    /\ trace' = [attached |-> Head(toCollector).attached]
    /\ UNCHANGED <<ordinary, audioChunks, audioSequence, status, faults,
                   fromCollector>>

\* The rest of the handler after the await: it succeeds or posts an error.
Imported ==
    /\ phase = "importing" /\ phase' = "done"
    /\ \/ /\ trace' = [attached |-> trace.attached, ordinary |-> ordinary,
                       audio |-> audioChunks, status |-> status]
          /\ fromCollector' = Append(fromCollector, [type |-> "trace"])
       \/ /\ fromCollector' = Append(fromCollector, [type |-> "error"])
          /\ UNCHANGED trace
    /\ UNCHANGED <<transport, processor, page, toMain, toWorklet, toCollector,
                   ordinary, audioChunks, audioSequence, status, faults>>

Worklet == Elsewhere /\ (Process \/ Turn \/ Handle)
\* What a rejected stopAudio does next is a microtask: before any other task.
PageMessage ==
    /\ rejecting = 0
    /\ RelayChunk \/ AudioStopped \/ AudioAborted \/ RelayRecycle \/ Result
Application ==
    \/ StopRejected
    \/ /\ rejecting = 0
       /\ \/ Start \/ Attach \/ StopAudio \/ StopTimeout \/ Submit
          \/ AbortCapture \/ Finish
Collector == \/ CollectStart \/ CollectRecords \/ CollectChunk \/ CollectStopped
             \/ CollectFinish \/ Imported

CaptureNext == Worklet \/ PageMessage \/ Application \/ Collector
CaptureSpec == CaptureInit /\ [][CaptureNext]_captureVars

\* Every thread runs and delivers its messages; the application and the timer
\* owe nothing, and no callback is owed either: a suspended AudioContext still
\* handles messages, but a callback that has begun runs to its end.
Fairness ==
    /\ WF_captureVars(Elsewhere /\ (RecordStep \/ DropStep \/ DrainStep))
    /\ WF_captureVars(Elsewhere /\ Turn)
    /\ WF_captureVars(Elsewhere /\ Handle)
    /\ WF_captureVars(PageMessage) /\ WF_captureVars(StopRejected)
    /\ WF_captureVars(Collector)
FairCapture == CaptureSpec /\ Fairness

-----------------------------------------------------------------------------
\* The worklet, its page and the collector keep to the transport's contract.
ImplementsTransport == T!Spec

\* The trace finish() returns holds every record the worklet accepted, in the
\* order it recorded them, the counts trace-stopped declared, and every batch
\* submitted, whatever was late, starved or timed out on the way.
Complete == trace # None /\ result = "trace"
TraceComplete ==
    Complete =>
        /\ trace.ordinary = submitted
        /\ trace.attached =>
             /\ trace.audio = accepted
             /\ trace.status # None /\ trace.status = audioStatus
             /\ trace.status.emitted = Len(accepted)

\* No handler of the collector ever throws: chunks arrive gapless and numbered
\* as expected, and the declared chunk count is the received one, also after a
\* timeout or an abort.
NothingRejected == faults = 0 /\ rejected = 0

\* What is recorded of a quantum is the beginning of its span, counters and end:
\* a record that found the ring full is not followed by one of the same quantum,
\* however drains and commands fall between the callbacks.  So an end or a
\* counter never lacks its begin; what a quantum can lack is its end.
QuantumIsPrefix ==
    LET previous == [queue |-> "begin", load |-> "queue", end |-> "load"]
    IN \A i \in 1..Len(accepted) :
        accepted[i].data[2] \in DOMAIN previous =>
            \E j \in 1..i - 1 :
                accepted[j].data = <<accepted[i].data[1], previous[accepted[i].data[2]]>>

\* stopAudio is answered without the help of its timer, even when every buffer
\* was in flight when it was called, as long as the collector lives to return
\* them.  (A call after a timed-out one finds the transport aborted, and one
\* for a port attached after finish() finds no collector: only the timer ends
\* those.)
StopAnswered ==
    waiting > 0 /\ stops = 1 ~> waiting = 0 \/ phase = "terminated"

\* finish() returns or throws, unless the application aborts under it.
FinishAnswered == result = "pending" ~> result # "pending" \/ aborted
=============================================================================
