-------------------------- MODULE TransportWorklet --------------------------
(***************************************************************************)
(* TraceChunkProducerTransport, the audio worklet's side of the chunk      *)
(* protocol: a pool of transferable buffers, identified by pool tokens,    *)
(* filled from the worklet's raw ring and posted through its port, and     *)
(* the drain, stop and abort protocols around them.                        *)
(*                                                                         *)
(* The worklet is one thread: a callback or a message handler runs to its  *)
(* end before the next one starts.  pc says which loop it is inside, and   *)
(* every turn of that loop is a step, so that the other threads may see    *)
(* the messages it has posted so far.  The raw ring is the bounded queue   *)
(* of GroupQueue.  Figures that are only reported (callbacks, frame        *)
(* discontinuities, high-water marks) are left out.                        *)
(*                                                                         *)
(* The page at the other end of the port is any page in ChunkTransport and *)
(* the capture's controller in AudioCapture.                               *)
(***************************************************************************)
EXTENDS Integers, Sequences, FiniteSets, RecordGroups

CONSTANTS
    Capacity,      \* capacityRecords of the ring
    ChunkRecords,  \* chunkBytes / TRACE_RECORD_SIZE
    PoolSize,      \* poolSize
    Groups,        \* the groups instrumentation emits
    Records,       \* the records they are made of
    MaxRecords,    \* bound: records emitted in a behaviour, dropped ones too
    MaxMail,       \* bound: messages the page has under way
    None

Tokens == 0..PoolSize - 1

\* The constructor's checks; a group larger than the ring is only dropped.
ASSUME TransportAssumption ==
    /\ Capacity \in Nat \ {0}
    /\ ChunkRecords \in Nat /\ ChunkRecords >= Capacity
    /\ PoolSize \in Nat /\ PoolSize >= 2
    /\ MaxRecords \in Nat
    /\ \A r \in Records : r.end \in BOOLEAN
    /\ Groups \subseteq Seq(Records)
    /\ \A g \in Groups : IsGroup(g)

\* What trace-stopped carries.
StopMessages ==
    [type : {"trace-stopped"}, chunkCount : Nat, emitted : Nat, dropped : Nat,
     rawDropped : Int, poolStarvation : Nat, returned : Nat, rejected : Nat]

ASSUME NoneAssumption ==
    /\ None \notin Nat
    /\ None \notin [token : Tokens, data : Seq(Records)]
    /\ None \notin StopMessages

VARIABLES
    ring,       \* the producer's unread records
    enabled,    \* the producer takes records
    emitted, dropped,  \* health: records taken and refused
    available,  \* stack of free tokens
    active,     \* the chunk being filled, [token, data], or None
    inFlight,   \* tokens whose buffer is away; inFlightCount is its size
    returned,   \* returnedBuffers
    sequence,   \* the next chunk's number
    starvationDropStart, \* dropped when the pool was found empty, or None
    poolStarvation,      \* poolStarvationRecords
    rejected,   \* rejectedChunks
    stopping, finished,
    pc,         \* "idle", "drain" or "finish" (drain within tryFinish)
    toMain,     \* messages posted on the port, in order
    toWorklet,  \* messages the page posted, in order
    accepted,   \* history: every record the ring took
    shipped     \* history: every record posted in a chunk

producer == <<ring, enabled, emitted, dropped, accepted>>
pool == <<available, active, inFlight, returned>>
starvation == <<starvationDropStart, poolStarvation>>
life == <<stopping, finished>>
port == <<sequence, toMain, shipped>>
worklet == <<producer, pool, starvation, life, port, rejected, pc, toWorklet>>

Empty(token) == [token |-> token, data |-> <<>>]
\* available.pop() returns the last element and leaves the front.
LastOf(s) == s[Len(s)]
\* Mutant of FrontOf: the token stays on the stack.
Unpopped(s) == s
FrontOf(s) == SubSeq(s, 1, Len(s) - 1)

WorkletInit ==
    /\ ring = <<>> /\ enabled = TRUE /\ emitted = 0 /\ dropped = 0
    /\ available = [i \in 1..PoolSize - 1 |-> i - 1]
    /\ active = Empty(PoolSize - 1)
    /\ inFlight = {} /\ returned = 0 /\ sequence = 0
    /\ starvationDropStart = None /\ poolStarvation = 0 /\ rejected = 0
    /\ stopping = FALSE /\ finished = FALSE
    /\ pc = "idle" /\ toMain = <<>> /\ toWorklet = <<>>
    /\ accepted = <<>> /\ shipped = <<>>

(***************************************************************************)
(* Instrumentation in a callback: the ring takes a group or refuses it.    *)
(***************************************************************************)
Fits(g) == Len(ring) + Len(g) <= Capacity

EmitRecorded(g) ==
    /\ pc = "idle" /\ enabled /\ Fits(g)
    /\ emitted + dropped + Len(g) <= MaxRecords
    /\ ring' = ring \o g
    /\ accepted' = accepted \o g
    /\ emitted' = emitted + Len(g)
    /\ UNCHANGED <<enabled, dropped, pool, starvation, life, port, rejected,
                   pc, toWorklet>>

EmitDropped(g) ==
    /\ pc = "idle" /\ enabled /\ ~Fits(g)
    /\ emitted + dropped + Len(g) <= MaxRecords
    /\ dropped' = dropped + Len(g)
    /\ UNCHANGED <<ring, enabled, emitted, accepted, pool, starvation, life,
                   port, rejected, pc, toWorklet>>

(***************************************************************************)
(* drain().  A call that would change nothing, with the ring empty or the  *)
(* pool still known to be empty, is a stutter and is not a step.           *)
(***************************************************************************)
PoolEmpty == active = None /\ available = <<>>

DrainNeeded == ring # <<>> /\ ~(PoolEmpty /\ starvationDropStart # None)

StartDrain ==
    /\ pc = "idle" /\ DrainNeeded
    /\ pc' = "drain"
    /\ UNCHANGED <<producer, pool, starvation, life, port, rejected, toWorklet>>

\* transferActive() of a chunk that holds data, with the tokens still free.
Ship(chunk, free) ==
    /\ inFlight' = inFlight \union {chunk.token}
    /\ toMain' = Append(toMain,
         [type |-> "trace-chunk", sequence |-> sequence,
          poolToken |-> chunk.token, data |-> chunk.data])
    /\ sequence' = sequence + 1
    /\ shipped' = shipped \o chunk.data
    /\ IF free = <<>>
       THEN active' = None /\ available' = <<>>
       ELSE active' = Empty(LastOf(free)) /\ available' = FrontOf(free)

\* The loop returns false at an exhausted pool, and remembers since when.
DrainStarved ==
    /\ pc \in {"drain", "finish"} /\ ring # <<>> /\ PoolEmpty
    /\ starvationDropStart' = IF starvationDropStart = None
                              THEN dropped ELSE starvationDropStart
    /\ pc' = "idle"
    /\ UNCHANGED <<producer, pool, poolStarvation, life, port, rejected, toWorklet>>

\* bytes.set(drained, used).  The mutant writes at the start of the buffer.
FilledFromStart(chunk, drained) == [chunk EXCEPT !.data = drained]
Filled(chunk, drained) == [chunk EXCEPT !.data = @ \o drained]

\* The chunk rotates when it is full, and when its tail took none of the unread
\* records (taken = 0 leaves the ring as it was, not empty); transferActive
\* keeps a chunk without data.  The mutant rotates full chunks only.
RotatesWhenFull(chunk, taken) == Len(chunk.data) = ChunkRecords
Rotates(chunk, taken) ==
    (Len(chunk.data) = ChunkRecords \/ taken = 0) /\ chunk.data # <<>>

\* One turn of the loop: fill the active chunk with the groups that fit its
\* tail; transfer it when it is full or when the next group did not fit.
DrainTurn ==
    /\ pc \in {"drain", "finish"} /\ ring # <<>> /\ ~PoolEmpty
    /\ LET chunk == IF active = None THEN Empty(LastOf(available)) ELSE active
           free  == IF active = None THEN FrontOf(available) ELSE available
       IN \E n \in Fit(ring, ChunkRecords - Len(chunk.data)) :
            LET filled == Filled(chunk, Taken(ring, n))
            IN /\ ring' = Rest(ring, n)
               /\ IF Rotates(filled, n)
                  THEN Ship(filled, free)
                  ELSE /\ active' = filled /\ available' = free
                       /\ UNCHANGED <<inFlight, port>>
    /\ UNCHANGED <<enabled, emitted, dropped, accepted, returned, starvation,
                   life, rejected, pc, toWorklet>>

DrainDone ==
    /\ pc = "drain" /\ ring = <<>>
    /\ pc' = "idle"
    /\ UNCHANGED <<producer, pool, starvation, life, port, rejected, toWorklet>>

(***************************************************************************)
(* The rest of tryFinish() once drain() has returned true: transferActive  *)
(* for a partial chunk, then trace-stopped.                                *)
(***************************************************************************)
ActiveData == IF active = None THEN <<>> ELSE active.data

FinishPartial ==
    /\ pc = "finish" /\ ring = <<>> /\ ActiveData # <<>>
    /\ Ship(active, available)
    /\ UNCHANGED <<producer, returned, starvation, life, rejected, pc, toWorklet>>

FinishReport ==
    /\ pc = "finish" /\ ring = <<>> /\ ActiveData = <<>>
    /\ finished' = TRUE
    /\ toMain' = Append(toMain,
         [type |-> "trace-stopped", chunkCount |-> sequence,
          emitted |-> emitted, dropped |-> dropped,
          rawDropped |-> dropped - poolStarvation,
          poolStarvation |-> poolStarvation, returned |-> returned,
          rejected |-> rejected])
    /\ pc' = "idle"
    /\ UNCHANGED <<producer, pool, starvation, stopping, sequence, shipped,
                   rejected, toWorklet>>

(***************************************************************************)
(* The messages of the page: a returned buffer, whole or replaced by one   *)
(* of another length, of this capture (current) or another; a command.     *)
(***************************************************************************)
Recycled(token, current, buffer) ==
    [type |-> "recycle", poolToken |-> token, current |-> current,
     buffer |-> buffer]
Commands == {[type |-> "stop"], [type |-> "abort"]}

(***************************************************************************)
(* port.onmessage.                                                         *)
(***************************************************************************)
Received(type) ==
    /\ pc = "idle" /\ toWorklet # <<>> /\ Head(toWorklet).type = type
    /\ toWorklet' = Tail(toWorklet)

\* A message of another capture, and every message once finished, is ignored.
\* The mutant takes messages of any capture.
IgnoredOnceFinished(m) == finished
Ignored(m) == ~m.current \/ finished

\* inFlight.has(poolToken).
Known(m) == m.poolToken \in inFlight

\* What a returned buffer ends: the window of starvation, whose drops it books.
\* The mutant books them and leaves the window open.
BookStarvation ==
    /\ poolStarvation' = IF starvationDropStart = None THEN poolStarvation
                         ELSE poolStarvation + (dropped - starvationDropStart)
    /\ UNCHANGED starvationDropStart
EndStarvation ==
    /\ poolStarvation' = IF starvationDropStart = None THEN poolStarvation
                         ELSE poolStarvation + (dropped - starvationDropStart)
    /\ starvationDropStart' = None

\* A stop that found no buffer goes on when one returns; the mutant forgets it.
Unresumed == "idle"
Resumed == IF stopping THEN "finish" ELSE "idle"

\* A stale capture, a finished transport and a buffer of another length leave
\* everything as it was; an unknown token is counted before the throw.
RecycleRefused ==
    /\ Received("recycle")
    /\ LET m == Head(toWorklet) IN
          /\ Ignored(m) \/ ~Known(m) \/ ~m.buffer
          /\ rejected' = IF ~Ignored(m) /\ ~Known(m)
                         THEN rejected + 1 ELSE rejected
    /\ UNCHANGED <<producer, pool, starvation, life, port, pc>>

RecycleAccepted ==
    /\ Received("recycle")
    /\ LET m == Head(toWorklet) IN
       /\ ~Ignored(m) /\ Known(m) /\ m.buffer
       /\ inFlight' = inFlight \ {m.poolToken}
       /\ IF active = None
          THEN active' = Empty(m.poolToken) /\ UNCHANGED available
          ELSE available' = Append(available, m.poolToken) /\ UNCHANGED active
    /\ returned' = returned + 1
    /\ EndStarvation
    /\ pc' = Resumed
    /\ UNCHANGED <<producer, life, port, rejected>>

\* Mutant of Stop: the producer goes on recording.
StopStillEnabled ==
    /\ Received("stop") /\ ~stopping /\ ~finished
    /\ stopping' = TRUE
    /\ pc' = "finish"
    /\ UNCHANGED <<producer, pool, starvation, finished, port, rejected>>

Stop ==
    /\ Received("stop") /\ ~stopping /\ ~finished
    /\ enabled' = FALSE
    /\ stopping' = TRUE
    /\ pc' = "finish"
    /\ UNCHANGED <<ring, emitted, dropped, accepted, pool, starvation, finished,
                   port, rejected>>

StopIgnored ==
    /\ Received("stop") /\ (stopping \/ finished)
    /\ UNCHANGED <<producer, pool, starvation, life, port, rejected, pc>>

Abort ==
    /\ Received("abort") /\ ~finished
    /\ enabled' = FALSE
    /\ finished' = TRUE
    /\ toMain' = Append(toMain, [type |-> "trace-aborted"])
    /\ UNCHANGED <<ring, emitted, dropped, accepted, pool, starvation, stopping,
                   sequence, shipped, rejected, pc>>

AbortIgnored ==
    /\ Received("abort") /\ finished
    /\ UNCHANGED <<producer, pool, starvation, life, port, rejected, pc>>

Callback == \/ \E g \in Groups : EmitRecorded(g) \/ EmitDropped(g)
            \/ StartDrain
Loop == DrainStarved \/ DrainTurn \/ DrainDone \/ FinishPartial \/ FinishReport
Handler == \/ RecycleRefused \/ RecycleAccepted \/ Stop \/ StopIgnored
           \/ Abort \/ AbortIgnored

-----------------------------------------------------------------------------
Chunks == {i \in 1..Len(toMain) : toMain[i].type = "trace-chunk"}
Reports == {i \in 1..Len(toMain) : toMain[i].type = "trace-stopped"}
ActiveToken == IF active = None THEN {} ELSE {active.token}
Stacked == {available[i] : i \in DOMAIN available}

\* Types of the transport's own state.
TypeOK ==
    /\ ring \in Seq(Records) /\ Len(ring) <= Capacity
    /\ accepted \in Seq(Records) /\ shipped \in Seq(Records)
    /\ enabled \in BOOLEAN /\ stopping \in BOOLEAN /\ finished \in BOOLEAN
    /\ emitted \in Nat /\ dropped \in Nat /\ returned \in Nat
    /\ sequence \in Nat /\ poolStarvation \in Nat /\ rejected \in Nat
    /\ available \in Seq(Tokens) /\ inFlight \subseteq Tokens
    /\ active = None \/ active \in [token : Tokens, data : Seq(Records)]
    /\ starvationDropStart \in Nat \union {None}
    /\ pc \in {"idle", "drain", "finish"}

\* Every buffer of the pool is free, being filled or in flight, and in only one
\* of these, whatever the page sends back, stale and invalid tokens included
\* (the ownership transfers of transferActive and recycle).
PoolConserved ==
    /\ \A i, j \in DOMAIN available : available[i] = available[j] => i = j
    /\ Stacked \union ActiveToken \union inFlight = Tokens
    /\ Stacked \intersect ActiveToken = {}
    /\ Stacked \intersect inFlight = {}
    /\ ActiveToken \intersect inFlight = {}

\* Chunks and returned buffers balance: each chunk posted so far either came
\* back or is still counted in flight.
FlightsBalance == sequence = returned + Cardinality(inFlight)

\* A starvation window is open only while the worklet has no buffer at all and
\* unread records, and what it will add to poolStarvationRecords never takes
\* more than the drops there were: rawDroppedRecords cannot go negative.
StarvationWindow ==
    /\ starvationDropStart = None => poolStarvation <= dropped
    /\ starvationDropStart # None =>
         /\ PoolEmpty /\ ring # <<>>
         /\ poolStarvation <= starvationDropStart
         /\ starvationDropStart <= dropped

\* What the ring took is what was posted, what is in the active chunk and what
\* is still unread, in that order: draining, rotation and a late final partial
\* chunk neither lose, duplicate nor reorder a record.
LosslessInOrder == accepted = shipped \o ActiveData \o ring

\* A chunk is never empty, never larger than its buffer and never cuts a group
\* ("Rotation occurs between complete groups"); chunks are numbered gaplessly.
ChunksWellFormed ==
    /\ \A i \in Chunks :
         /\ Len(toMain[i].data) \in 1..ChunkRecords
         /\ WholeGroups(toMain[i].data)
         /\ toMain[i].sequence + Cardinality({j \in Chunks : j >= i}) = sequence
    /\ WholeGroups(ActiveData) /\ Len(ActiveData) < ChunkRecords

\* trace-stopped declares exactly the chunks and records that were posted, every
\* accepted record among them, and nothing is posted after it.
StopReportExact ==
    \A i \in Reports :
        /\ toMain[i].chunkCount = sequence
        /\ toMain[i].emitted = Len(shipped) /\ shipped = accepted
        /\ toMain[i].rawDropped + toMain[i].poolStarvation = dropped
        /\ \A j \in Chunks : j < i
=============================================================================
