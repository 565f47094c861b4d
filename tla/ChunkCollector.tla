--------------------------- MODULE ChunkCollector ---------------------------
(***************************************************************************)
(* ChunkCollectorState, the Rust collector's side of the chunk protocol,   *)
(* behind a host that may lose, repeat, reorder and damage what a producer *)
(* sends and that still holds messages of an earlier capture.  The         *)
(* producer keeps the contract of ChunkTransport: numbered chunks of whole *)
(* groups in buffers it owns.  MemoryChunkSink stores what was ingested,   *)
(* and the collector's ingest_batch gets its bytes.                        *)
(***************************************************************************)
EXTENDS WireRecords

CONSTANTS
    PoolSize,        \* config.pool_size
    ChunkBytes,      \* config.chunk_bytes
    MaxGroupRecords, \* config.max_group_records
    Payloads,        \* what the producer sends: the groups of every chunk
    MaxDamages,      \* bound: damaged messages
    None

RECORD_SIZE == 48

\* ChunkPoolConfig::validate; a capture id of zero is not modelled.
ValidConfig ==
    /\ PoolSize >= 2 /\ MaxGroupRecords # 0
    /\ ChunkBytes >= MaxGroupRecords * RECORD_SIZE /\ ChunkBytes % RECORD_SIZE = 0

ASSUME CollectorAssumption ==
    /\ {PoolSize, ChunkBytes, MaxGroupRecords, MaxDamages} \subseteq Nat /\ ValidConfig
    /\ Payloads \in Seq(Seq(Seq(Wire)))
    /\ \A k \in 1..Len(Payloads) :
         /\ 0 < Len(Flatten(Payloads[k])) /\ Len(Flatten(Payloads[k])) * RECORD_SIZE <= ChunkBytes
         /\ \A i \in 1..Len(Payloads[k]) : Group(Payloads[k][i])

ASSUME NoneAssumption == None \notin Nat

Tokens == 0..PoolSize - 1

VARIABLES
    owners,       \* token -> who may write its buffer
    nextSequence, \* next_sequence
    stopped,      \* the declared chunk count, or None
    completed, returned, maxInFlight, \* health
    sink,         \* MemoryChunkSink: sequence -> the chunk ingested for it
    free,         \* tokens the producer holds
    sent,         \* chunks the producer sent
    ended,        \* the producer has sent trace-stopped
    network,      \* messages: each is delivered once, again, late or never
    damages       \* messages damaged so far

collector == <<owners, nextSequence, stopped, completed, returned, maxInFlight, sink>>
producer == <<free, sent, ended>>
vars == <<collector, producer, network, damages>>

Owned == {t \in Tokens : owners[t] = "Collector"}

\* A descriptor and its bytes: used_bytes, and how many bytes there are.
Chunk(capture, sequence, token, records) ==
    [type |-> "chunk", capture |-> capture, sequence |-> sequence, token |-> token,
     records |-> records, used |-> Len(records) * RECORD_SIZE, bytes |-> Len(records) * RECORD_SIZE]
Stopped(capture, count) ==
    [type |-> "stopped", capture |-> capture, count |-> count]

Sent(k) == Flatten(Payloads[k + 1])
Stale == {Chunk("stale", k, 0, Sent(k)) : k \in 0..Len(Payloads) - 1} \union {Stopped("stale", 0)}
\* Tokens the pool does not have.
Foreign == {Chunk("this", k, PoolSize, Sent(k)) : k \in 0..Len(Payloads) - 1}

Init ==
    /\ owners = [t \in Tokens |-> "Producer"]
    /\ nextSequence = 0 /\ stopped = None
    /\ completed = 0 /\ returned = 0 /\ maxInFlight = 0
    /\ sink = [k \in {} |-> None]
    /\ free = Tokens /\ sent = 0 /\ ended = FALSE
    /\ network = Stale \union Foreign /\ damages = 0

(***************************************************************************)
(* The producer and the host's channel.                                    *)
(***************************************************************************)
Send(t) ==
    /\ t \in free /\ ~ended /\ sent < Len(Payloads)
    /\ free' = free \ {t}
    /\ sent' = sent + 1
    /\ network' = network \union {Chunk("this", sent, t, Sent(sent))}
    /\ UNCHANGED <<collector, ended, damages>>

\* Mutant of SendStopped: the last chunk is not counted.
SendStoppedEarly ==
    /\ ~ended /\ ended' = TRUE
    /\ network' = network \union {Stopped("this", IF sent > 0 THEN sent - 1 ELSE 0)}
    /\ UNCHANGED <<collector, free, sent, damages>>

SendStopped ==
    /\ ~ended /\ ended' = TRUE
    /\ network' = network \union {Stopped("this", sent)}
    /\ UNCHANGED <<collector, free, sent, damages>>

\* One record is overwritten: a version, kind or flag nobody knows, a flag set
\* or lost, a reserved or a different realm or clock, a kind of the other sort.
DamagedRecord(r) ==
    {[r EXCEPT !.version = 0], [r EXCEPT !.kind = "unknown"],
     [r EXCEPT !.kind = IF @ = "field" THEN "header" ELSE "field"],
     [r EXCEPT !.realm = 0], [r EXCEPT !.realm = @ + 1], [r EXCEPT !.clock = 0],
     [r EXCEPT !.time = @ + 1],
     [r EXCEPT !.flags = @ \union {"other"}], [r EXCEPT !.flags = @ \union {"step", "terminate"}],
     [r EXCEPT !.flags = IF "start" \in @ THEN @ \ {"start"} ELSE @ \union {"start"}],
     [r EXCEPT !.flags = IF "end" \in @ THEN @ \ {"end"} ELSE @ \union {"end"}]}

\* The declared length is wrong, the bytes are cut inside a record or after
\* one, or there are more than the buffer holds.
Resized(m) ==
    LET size == Len(m.records)
        cut(n) == [m EXCEPT !.records = SubSeq(@, 1, n), !.used = n * RECORD_SIZE, !.bytes = n * RECORD_SIZE]
    IN {[m EXCEPT !.used = @ + 1], [m EXCEPT !.used = 0],
        [m EXCEPT !.used = @ - 1, !.bytes = @ - 1],
        [m EXCEPT !.used = ChunkBytes + RECORD_SIZE, !.bytes = ChunkBytes + RECORD_SIZE],
        cut(size - 1), cut(0)}

Damaged(m) ==
    Resized(m) \union
    UNION {{[m EXCEPT !.records[i] = r] : r \in DamagedRecord(m.records[i])} : i \in 1..Len(m.records)}

\* A damaged copy is under way, with or without the original.
Damage(m) ==
    /\ m.type = "chunk" /\ m.capture = "this" /\ damages < MaxDamages
    /\ \E damaged \in Damaged(m) : network' = network \union {damaged}
    /\ damages' = damages + 1
    /\ UNCHANGED <<collector, producer>>

(***************************************************************************)
(* ingest, recycle and stop.  A call that returns an error changes nothing *)
(* in the collector, and the buffer of a refused chunk is not given back.  *)
(***************************************************************************)
WellSized(m) ==
    m.used # 0 /\ m.used <= ChunkBytes /\ m.used = m.bytes /\ m.used % RECORD_SIZE = 0

Readable(rs) == (\A i \in 1..Len(rs) : Decodable(rs[i])) /\ Valid(rs)

Expected(m) ==
    m.capture = "this" /\ m.sequence = nextSequence /\ m.token \in Tokens /\ m.token \notin Owned

\* Mutant of Acceptable: a chunk of any capture.
AcceptableAnyCapture(m) ==
    /\ stopped = None /\ m.sequence = nextSequence /\ m.token \in Tokens
    /\ m.token \notin Owned /\ WellSized(m) /\ Readable(m.records)

Acceptable(m) == stopped = None /\ Expected(m) /\ WellSized(m) /\ Readable(m.records)

IngestAccepted(m) ==
    /\ m.type = "chunk" /\ Acceptable(m)
    /\ owners' = [owners EXCEPT ![m.token] = "Collector"]
    /\ nextSequence' = nextSequence + 1
    /\ completed' = completed + 1
    /\ LET inFlight == Cardinality(Owned) + 1
       IN maxInFlight' = IF inFlight > maxInFlight THEN inFlight ELSE maxInFlight
    /\ sink' = [k \in DOMAIN sink \union {m.sequence} |-> IF k = m.sequence THEN m ELSE sink[k]]
    /\ UNCHANGED <<stopped, returned, producer, network, damages>>

IngestRefused(m) ==
    /\ m.type = "chunk" /\ ~Acceptable(m)
    /\ UNCHANGED vars

\* Mutant of Recycle: a buffer may be given back twice.
RecycleUnchecked(t) ==
    /\ returned < Len(Payloads)
    /\ owners' = [owners EXCEPT ![t] = "Producer"]
    /\ returned' = returned + 1
    /\ free' = free \union {t}
    /\ UNCHANGED <<nextSequence, stopped, completed, maxInFlight, sink, sent, ended, network, damages>>

\* recycle, after which the host sends the buffer back to the producer.
Recycle(t) ==
    /\ owners[t] = "Collector"
    /\ owners' = [owners EXCEPT ![t] = "Producer"]
    /\ returned' = returned + 1
    /\ free' = free \union {t}
    /\ UNCHANGED <<nextSequence, stopped, completed, maxInFlight, sink, sent, ended, network, damages>>

Stoppable(m) == m.capture = "this" /\ stopped = None /\ m.count = nextSequence

StopAccepted(m) ==
    /\ m.type = "stopped" /\ Stoppable(m)
    /\ stopped' = m.count
    /\ UNCHANGED <<owners, nextSequence, completed, returned, maxInFlight, sink, producer, network, damages>>

StopRefused(m) ==
    /\ m.type = "stopped" /\ ~Stoppable(m)
    /\ UNCHANGED vars

Next ==
    \/ \E t \in Tokens : Send(t) \/ Recycle(t)
    \/ SendStopped
    \/ \E m \in network :
         \/ Damage(m)
         \/ IngestAccepted(m) \/ IngestRefused(m)
         \/ StopAccepted(m) \/ StopRefused(m)

Spec == Init /\ [][Next]_vars

-----------------------------------------------------------------------------
IsComplete == stopped = nextSequence

\* MemoryChunkSink::into_bytes: the chunks in the order of their sequences, as
\* their groups in the last definition.
IntoRecords == Flatten([k \in 1..nextSequence |-> sink[k - 1].records])

\* Whatever is repeated, reordered, lost or stale, the sink holds one chunk of
\* this capture for each sequence up to the next one, none of which the producer
\* has not sent; without damage it holds exactly what the producer sent.
IngestedPrefix ==
    /\ DOMAIN sink = 0..nextSequence - 1 /\ nextSequence <= sent
    /\ \A k \in DOMAIN sink : sink[k].sequence = k /\ sink[k].capture = "this"
    /\ damages = 0 => \A k \in DOMAIN sink : sink[k].records = Sent(k)

\* A buffer the collector reads is not one the producer may write: the two
\* sides' views of who owns a token never contradict each other, and health
\* counts every token that was ever out at the same time.
ExclusiveOwnership ==
    /\ Owned \intersect free = {}
    /\ completed = returned + Cardinality(Owned)
    /\ Cardinality(Owned) <= maxInFlight /\ maxInFlight <= PoolSize

\* A capture counts as complete only once the producer ended it and every
\* chunk it sent was ingested.
CompleteMeansAll == IsComplete => ended /\ Cardinality(DOMAIN sink) = sent

\* However a chunk was damaged, what decode and the one-pass validator let
\* through is exactly what the documented grammar allows: whole groups, every
\* field in the context of its header.
ValidatorExact ==
    \A m \in network :
        m.type = "chunk" =>
            (Readable(m.records) <=>
                Sentence(m.records) /\ \A i \in 1..Len(m.records) : Decodable(m.records[i]))

\* What the sink hands to ingest_batch is a sequence of whole groups whatever
\* was damaged on the way, the loop that splits it (which checks nothing and
\* indexes past the end of an open group) stops exactly at their boundaries,
\* and no group mixes records of two chunks.
SinkSplits ==
    /\ Sentence(IntoRecords)
    /\ \A k \in 1..Len(Split(IntoRecords)) : Group(Split(IntoRecords)[k])
    /\ damages = 0 =>
         Split(IntoRecords) = Flatten(SubSeq(Payloads, 1, nextSequence))
=============================================================================
