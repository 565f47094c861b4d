# A TLA+ model of perfetto-everywhere

perfetto-everywhere instruments Rust programs with one API and carries what they
record into a Perfetto trace from three places: a native process (through the
Perfetto SDK), ordinary browser realms (a Window or a Dedicated Worker), and an
AudioWorklet, whose callback may neither allocate nor block. These modules model
the parts of it that keep state across calls, check them with TLC on small
instances, and prove some of what the checks show for every size with TLAPS.

Run a check with `tlc -config X.cfg M`, a proof with `tlapm M_proofs.tla`.
`PROJECT.json` lists the runs with their modules, the source lines behind every
definition, the mutation that each property must catch, the hazards and the
findings.

## 1. The system

```
 AudioWorklet                         page                     collector worker
 process()  -> RawRingBackend         BrowserCaptureController  multirealm-collector-worker.js
     drain() -> TraceChunkProducer    startAudio/stopAudio      Collector (Rust/wasm)
                Transport  --chunks-->   relay  ------------->  ingest_batch
                           <--recycle--  relay  <-------------  recycle
 Window, Dedicated Worker                                        finish -> trace
     OrdinaryBackend --batches, metadata-->  submit  -------->
 native process
     tracing spans -> PerfettoLayer -> Tracer -> NativeBackend -> SDK   (CaptureSession)
```

| Component | State | Operations | What makes it hard | Correct when | Module |
|---|---|---|---|---|---|
| Records and groups (`core/src/protocol.rs`) | the validator's open group | decode, validate, cut, split | several records that must never be separated, read in one pass without a checksum | what passes is a sequence of whole groups, and is split at their boundaries | `RecordGroups`, `WireRecords` |
| Raw ring (`raw/src/lib.rs`) | slots, read and write sequence, health | emit, drain, enable | u64 sequences cast to a 32-bit `usize` that wrap | groups are taken whole or dropped whole and counted, and come out in order | `RawRing`, `GroupQueue` |
| Chunk transport (`web/perfetto-chunk-transport.js`) | pool of buffers, active chunk, tokens in flight, starvation window, stop state | drain, transfer, recycle, stop, abort, tryFinish | messages that are late, stale, repeated or damaged between callbacks; a pool that runs dry; a stop that has to wait for a buffer | buffers conserved, records lossless and in order, the stop report exact | `TransportWorklet`, `ChunkTransport` |
| Audio producer and processor (`web/src/audio.rs`, `web/perfetto-audio-worklet.js`) | frame, flow, enable | process_quantum, install_flow, port messages | the ring overflows inside a callback | what is recorded of a quantum is its beginning | `AudioCapture` |
| Capture controller (`web/perfetto-browser-runtime.js`) | started, closed, pending promises, the audio port | start, attach, submit, stopAudio with a timer, relays, finish, abort | a timer against a late answer, abort under a pending promise | finish returns a complete trace or an error, and always returns | `AudioCapture` |
| Collector worker (`web/multirealm-collector-worker.js`) | batches, chunks, expected sequence, status | its message handler | suspends in an `import()` while messages arrive | never rejects what a correct worklet sends | `AudioCapture` |
| Chunk collector (`web/src/chunks.rs`) | next sequence, owned tokens, sink, stop descriptor | ingest, recycle, stop | loss, repetition, reordering, damage | ingests a gapless prefix, owns a buffer once, complete means all | `ChunkCollector` |
| Ordinary producer (`web/src/lib.rs`) | two batches, spare vector, metadata map, health, switch | span guard, event, log, counter, flush, take batch, take metadata | the page drains late and takes the two things separately; conflicting ids | nothing reported Recorded is lost, every record's definition arrives | `OrdinaryProducer` |
| Collector (`collector/src/lib.rs`) | realms, metadata, calibrations, groups, health | register, calibrate, set health, ingest, finish | ends without begins, equal timestamps, producers in any order, missing definitions | a finished trace nests, keeps each producer's order and reports its repairs | `SpanRepair`, `TraceCollector` |
| Clock fit and packets (`collector/src/lib.rs`) | none | fit, snapshots, descriptors, events, health | noisy samples, rounding, five passes over different maps | one offset per realm, the best one; a reader knows every track and clock before its first event | `TracePackets` |
| Native session (`native/src/lib.rs`) | CAPTURE_ACTIVE, category filter, the SDK's session | start, finish, drop, emit | threads that start, fail and end sessions while others emit | one session at a time, its allow-list in force | `NativeCapture` |
| Native tracks (`native/src/lib.rs`) | registry of explicit tracks, the slices of every lane | span_begin, span_end, explicit_track | a begin answered Recorded before the SDK runs, registrations that fail, guards that outlive a session | what ends is what began there | `NativeTracks` |
| tracing layer and span guards (`tracing/src/lib.rs`, `core/src/api.rs`) | active_enters of every span, the shared backend's mutex | on_enter, on_exit, span_on, drop | spans shared by threads, captures that start inside a span, a poisoned mutex | open slices are the open scopes | `TracingLayer` |

Not modelled, or only in part:

- the byte layout of a record, the hashing of labels, and of the packets their
  labels, annotations, values and protobuf encoding: conversions without state,
  which the repository's unit and golden tests cover;
- flow ids, the fields of events, `on_record` and `on_event`: they only travel;
- the native registry of counter tracks, `flush`, and what the Perfetto SDK does
  with an event it was given;
- `registerRealm`, `registerMetadata` and `addCalibration` of the page
  (`perfetto-browser-runtime.js:134-149`), which append to lists that `finish()`
  posts: the same checks are modelled where they decide, in the collector;
- `audio-collector-worker.js`, an older, smaller variant of the multi-realm
  worker (it also takes no notice of a chunk's captureId), used by one test page;
- the facade crate, examples, pages and scripts.

## 2. Modules and the code

Each module names the functions it stands for where it defines them; the names
of actions and variables are those of the code wherever TLA+ allows it.

- **RecordGroups** reduces a record to FLAG_GROUP_END and a payload, and defines
  cutting a sequence of records after a complete group.
- **GroupQueue** is the abstract promise of a bounded producer: accept a whole
  group or refuse and count it, drain whole groups.
- **RawRing** is `RawRingBackend`: an array of slots and the two sequences modulo
  `SeqRange` (2^64), cast to `UsizeRange` (2^32 on wasm32) wherever the code casts. The
  ranges are constants so that wrap-around is reached. It implements `GroupQueue` under the
  mapping that reads the unread slots in order (`ImplementsGroupQueue`).
- **TransportWorklet** is `TraceChunkProducerTransport`, the worklet's side of it
  and what it promises. A callback or a handler of the port is one atomic task of
  the worklet thread; `drain()` is split into the turns of its loop, so that the
  page may see the messages posted so far. The ring is the bounded queue of
  `GroupQueue`: a drain of the ring is `Fit`.
- **ChunkTransport** is the worklet with any page at the other end of the port. The
  page is only what the transport may rely on: it returns buffers it holds, late,
  damaged or never, sends tokens of other captures and unknown ones, and repeats
  stop and abort at any time.
- **AudioCapture** extends the worklet with its real page and collector worker. The
  worklet's actions are those of `TransportWorklet`;
  the quantum is recorded step by step from `process_quantum`; every message
  crosses the real queues in order (port, page to collector, collector to page).
  Calls of `stopAudio` may overlap: `waiting` counts those that listen for an answer,
  and one `trace-aborted` rejects them all, each of which then posts its own abort, as
  a microtask, before the page does anything else (`StopRejected`).
  `ImplementsTransport` checks that this real environment only does what
  `ChunkTransport`'s page may do, so what is proved of the transport holds of
  the composition.
- **WireRecords** is a record as its fields, `Record::decode`, the automaton of
  `validate_record_groups`, the loop by which `ingest_batch` splits records, and,
  written independently of both, the grammar of a sequence of groups.
- **ChunkCollector** is `ChunkCollectorState` behind a channel that may do
  anything to the messages a correct worklet sends: the network is a set from
  which a message is delivered once, again, out of order or never, and `Damage`
  adds a copy with a wrong length or an overwritten record. `MemoryChunkSink` is
  a function from sequences to chunks, as it is a map in the code.
- **OrdinaryProducer** is `OrdinaryBackend` with `BatchPool`, and `SpanGuard` in
  front of it. A realm is one thread and no call yields, so each call is a step;
  the interleaving is with what the page takes, and with the clock, which may
  fail at any call.
- **SpanRepair** holds the pure part of `Collector::finish`: two stable sorts and
  `repair_span_boundaries`. **TraceCollector** is the state around it, with every
  early return of `finish` and the map lookup that panics. `health` is what the
  application has set, repairs included (`RepairsSet`; the collector worker itself
  passes zero), and `reported` what the trace says after the repair has added its own.
- **TracePackets** is what `finish` writes, as a function of what it holds: the fit
  of every realm's clock and the packets in order, each with its realm, its time
  and its track. A uuid is modelled by what `mix` is given (mix is a bijection);
  the exclusive-or in it is a constant operator, to which the run gives the code's
  and of which no property needs more.
- **NativeCapture** has one step per access to shared state of start, finish and
  drop, and of an emission. `captured` holds every event of a category that a session
  records; `checked` and `crossed` are history: the calls that have passed the filter
  since a session wrote it, and the sessions claimed before another's reset of it.
- **NativeTracks** is the registry of explicit tracks and the slices of the SDK's
  trace: a lane is a thread or a track. Registering may fail at any event, and a
  session has its phases but one owner. **TracingLayer** extends it with the
  layer's `active_enters` and with `SpanGuard`: threads enter and leave lexical
  scopes of both sorts. A callback holds the span's extensions lock for its whole
  length and is one step. `causes` is history: it names why an end is not on its
  begin's lane.
- **MC modules** give constants their values (`MCAudioCapture` the records of a
  bounded number of callbacks); `MCTraceCollector` and
  `MCTracePackets` also have the initial state of a page that has registered
  something before its producers begin.

## 3. Runs

| Run | Bounds | Shows |
|---|---|---|
| raw_ring | 4 slots, sequences below 16, usize below 8, counters saturating at 2 | the sequences wrap at either width; the ring implements the bounded group queue |
| chunk_transport | ring 2, chunk 3, pool 2, 7 records, 2 page messages pending or rejected | every safety property of the transport, and that `drain` returns |
| audio_capture | ring 2, chunk 2, pool 2, 3 callbacks, 2 stops, 1 ordinary batch, aborts | overflow in a quantum, a dry pool and a partial last chunk; the trace is complete across timeouts and aborts; refinement of the transport; stop and finish answered |
| native_capture | 2 owners, 1 emitter, 2 categories, 2 sessions | mutual exclusion of sessions, every claim returned, and the two ways past an allow-list |
| native_filter_race | as above | *violated*: finding 1 |
| chunk_collector | 3 chunks of 1 and 2 groups, pool of 2 tokens, 1 damaged message, stale and foreign ones | prefix, ownership and completion behind a bad channel; the validator is exact, the sink is split at its groups |
| trace_events | 2 realms, 2 tracks, 2 times, 4 records, health set with a repair in it | nesting, order, synthetic ends, and repairs that are all counted, on top of those set |
| trace_packets | 2 realms, 2 ids, 3 noisy samples, rates that round and that coincide, 1 group, health of an unknown realm | a trace is readable from first to last, its clocks are fitted best and by one offset; finish() loses a trace exactly where the page left something out |
| ordinary_producer | batches of 2 records, 4 calls of 6 kinds, 1 track | nothing recorded is lost, definitions cover records, spans accounted for |
| ordinary_conflict | as above | *violated*: finding 2 |
| tracing_layer | 2 threads, a selected and a filtered span, an explicit track, depth 2, 3 entries, 2 sessions | no stale count ever; ends match their own begins and open slices the open scopes, except for named causes |
| tracing_threads | 2 threads, 2 spans, 1 capture | *violated*: finding 3 |

Why the bounds are enough. In the transport two buffers suffice to have one in
flight and one active, none free, and one returned out of turn; a chunk of three
records with groups of one and two has both an exact fit and a rest; seven
records fill both chunks and overflow the ring. Sequences below 16 and a usize
below 8 wrap within a run. A quantum emits the begin of a span, two counters and its end,
and at times a flow, so a ring of two overflows inside it. The collector's four
records on two tracks contain each way of nesting two spans and each kind of
orphan, and with two timestamps every pair may be equal, or be the last the clock
can express. A batch of two records has every combination of the active and the
ready one being empty, partial and full. Two tokens let one chunk be ingested
while another is under way; the payloads have a chunk boundary before, after and
between groups, and `Damage` overwrites every field the decoder or the validator
reads, one record at a time. Three samples are what makes a median differ from
the first, the last and the mean; a rate of 3 ticks in 10 nanoseconds rounds and
one of 20 lets two ticks share a time. Two threads with two scopes each re-enter,
share and cross every pair of a span and a guard, and two sessions let a scope
outlive one and end in the next. Each bound is a CONSTANT, named in a
guard and described in its module.

The runs say CHECK_DEADLOCK FALSE where they stop because a bound is reached or
the program has nothing left to do: a finished collector, an application that
makes no more calls, a channel that has lost everything.

## 4. Fairness

- `DrainReturns` (ChunkTransport) assumes weak fairness of the turns of a loop
  only: JavaScript that has entered a function runs on.
- AudioCapture assumes that each thread handles the messages delivered to it and
  that a callback which has begun ends. It assumes nothing of the application,
  of the timer, or that callbacks come at all: a suspended AudioContext has none.
- NativeCapture assumes that a thread inside start, finish or drop goes on; a
  thread is never obliged to begin or to end a session.

`StopAnswered` speaks of the first stop of a capture whose collector lives, and
says in its comment which calls only the timer ends.

## 5. Proofs

`RawRing_proofs` proves that the ring implements the queue (`RingImplementsQueue`,
`ImplementsGroupQueue` of the run) for every capacity that divides the range of usize
(`Divides`), every range of the sequences that `RingAssumption` allows (a multiple of
usize's, which is larger than the capacity) and all calls. The hypothesis is needed:
section 6 has the counterexample without it. The invariant says that the write sequence
is at most Capacity ahead of the read sequence, modulo SeqRange; then the occupancy is
that distance, a number's slot is its remainder by the capacity through both casts
(`SlotIs`), and the slots of numbers less than a capacity apart differ (`Apart`), so that
push writes each slot once and none that is unread (`WritersAre`). `DrainedFrom`, the
recursion over groups, comes as far as the last group end that fits (`DrainedIs`: that
solves its equation, and two solutions differ nowhere), which is `Fit` of the unread
records. `DrainsAreWhole` follows from the refinement: the unread records and those of a
drain are whole groups.

`ChunkTransport_proofs` proves, for every capacity, chunk size, pool size and set
of groups that satisfy `TransportAssumption` (the constructor's own checks) and
`NoneAssumption`, every invariant its run checks and two that support them:
`TransportTypes`, `PoolIsConserved`, `FlightsAreBalanced`, `StarvationIsBooked`,
`NothingLostNorReordered`, `BuffersInOnePlace`, `StopReportIsExact`,
`ChunksAreWellFormed`. The worklet is the same in ChunkTransport and in
AudioCapture, so the lemmas about its steps, one per action, come first and state of each
that it keeps the worklet's part of the invariant; the page's steps and the theorems
follow. That
no chunk is lost on transfer needs that the token in hand is in no other place
(PoolConserved); that counters stay natural needs FlightsBalance and, for the
reported `rawDroppedRecords`, StarvationWindow; StarvationWindow needs that a
starved pool stays empty until a buffer returns, which is again PoolConserved: the
invariant is their conjunction, and none is inductive alone. `BufferInOnePlace`
follows from `Away`: the tokens of the chunks posted, of the buffers somebody holds
and of the buffers on their way back are disjoint and in flight, and each travels
with one message. `StopReportExact` needs `Over`: once trace-stopped is posted the
producer is off, the ring empty and no loop running, so that nothing is emitted or
drained any more. `ChunksWellFormed` needs that the ring, too, holds whole groups
only; its numbering is proved by counting the chunks from a message on.

`AudioCapture_proofs` proves all of the composed capture's safety, for every ring,
pool, bound and number of callbacks and under `CaptureAssumption`, `NoneAssumption`
and `TransportAssumption`; it takes the lemmas about the worklet from
`ChunkTransport_proofs`, which it extends (hence the prefixed names of its initial
states and steps, `CaptureInit` and `CaptureNext`). `QuantumIsPrefix` adds to the
worklet's invariant where the callback is: between the begin and the end of a quantum the worklet drains
nothing and handles no message, and a ring that has refused one record is still
full at the next. `TraceComplete` and `NothingRejected` rest on `Capture`, an
invariant over four message queues: reading a queue to its end, message by message,
leads from what the collector has to what was submitted and shipped (`Delivered`,
whose `Leads` is a run of the handlers along the queue), so that every chunk is the
next one when its turn comes; it says where start, the worklet's report and finish
stand in the queues (`Begun`, `Reported`, `Finishing`), what is known while the
collector imports (`Importing`, `Traced`), and that a buffer is with one message or
one holder (`Relayed`, `Away`). `CaptureImplementsTransport` proves the refinement:
the page of AudioCapture is one that ChunkTransport allows. A step of the worklet is
the same step there; for a step of the page it remains to show that the transport's
bound MaxMail never stops it (`Bounded`: the messages under way to the worklet are at
most the buffers that travel back, two commands for each stop that failed, one for
each that waits or is about to post its abort, and the abort of `abort()`).

`NativeCapture_proofs` proves, for any number of threads and sessions, the types,
`OneHolder`, `SdkFollowsOwner` and `HonouredUnlessCrossed`. CAPTURE_ACTIVE is set
exactly while one thread holds the claim, and the SDK's session is that thread's
(`Exclusive`). To that `Honoured` adds, of a session that was not claimed across a
reset: `OwnersList` (its allow-list is its owner's), `Settled` (no reset is pending
under it, and the filter is its selection from the moment it has written it), `Passed`
(a call that has passed the filter since then is one it admits) and `Spent` (a thread
that has had an event recorded whose call had passed the filter earlier has no other
such call on its way, since a new one would have to pass the filter as it is now).
`HonouredUnlessCrossed` is then that every event of such a session is on its list, but
for at most one of each thread. `NativeAssumption` says that None is no set of
categories.

`OrdinaryProducer_proofs` proves `TypeOK`, `SpareInvariant`, `RecordedIsKept`,
`MetadataCovers` and `SpansAccounted` for every batch capacity and all calls
(`ProducerAssumption`, `NoneAssumption`): batches stay within their capacity,
`rotate_active`'s expectation never fails, and what was reported Recorded is what
the page has and will get, in order. The first three hold only together: a rotation
loses nothing because the ready batch is empty then, and it finds a vector because
exactly one of ready and spare has it. To them the invariant adds the types of the
batches, and that a track has no more guards than there were calls, which bounds
the guards. `MetadataCovers` follows because the definitions the page knows or can
still take never become fewer (`Covered`), and `SpansAccounted` because a recorded
call adds exactly one header, which a rotation only moves (`Accounts`).

`ChunkCollector_proofs` proves all five properties of its run for every pool, every
payload of whole groups (`CollectorAssumption`) and whatever the channel loses,
repeats, reorders or damages. The inductive invariant for `IngestedPrefix`,
`ExclusiveOwnership` and `CompleteMeansAll`: the genuine chunks under way are
numbered below `sent` (`NetworkTrue`), a chunk that may still be ingested has its
buffer to itself (`PendingAlone`), and a collector that was stopped has everything
(`StoppedAtEnd`). The second is what makes the ownership test of `ingest`
sufficient: a late copy of a chunk can name a buffer in use, but never the next
number. `ValidatorExact` is a fact about every sequence of records
(`ValidIsSentence`): the one-pass validator and the grammar both say of a record and
its predecessor what `Shaped` says, the first by the context it carries along, the
second by where the groups are cut. `SinkSplits` follows from it, from what
concatenation keeps (`ValidFlatten`) and from where ingest_batch's loop stops
(`SplitGroups`, `SplitFlatten`); the invariant adds that every chunk the sink holds is
readable (`Sound`). The inductions are over sets: of the numbers up to a bound
(`UpTo`) and of sequences (`Lists`) that satisfy the claim, both from the
well-foundedness of the naturals; a recursive function is unfolded by the library's
theorem on inductive definitions or by exhibiting one that satisfies the equation.

`TracingLayer_proofs` proves `NoStaleEntry`, `EndsOwnSlice` and `OpenSlicesMatch` for
any number of threads, spans, tracks and captures (`TracksAssumption`,
`LayerAssumption`). Scopes are stacks of bounded depth, so that the scopes of a span
are a finite set. The inductive invariant: no scope began in a session to come
(`Booked`), a span that is not shared has one scope, and what is counted of it is
that scope's entry (`Alone`), every entry of the session that is still open is
counted (`OpenCounted`), so that its exit ends it, and the open slices of a lane are,
in a stack on a thread's own lane and by number on an explicit track, the scopes
begun there (`Matched`).

`TraceCollector_proofs` proves, for all realms, tracks, shapes, times and limits
(`CollectorAssumption`: realms and tracks are finitely many naturals, and only a
synthetic end is without a name, since producers name theirs "span end"), whatever
was lost on the way and however the realms' batches interleave, `SlicesBalanced`,
`ProducerOrderKept`, `SyntheticEndsLast`, `RepairsReported`, `LostForCause` and
`PanicNeedsHealth`. The inductive invariant is small (`Collected`): the groups are
ones that producers emit, those of one realm came in the order of their times
(`InTime`, without which a stable sort would not keep a producer's order), and
once finish() has been called its outcome, its events and what it reports are those of
the groups and of the health that was set (`Left`). `LostForCause` follows
(`CollectedForCause`): that nothing fails late needs that the validation asks for the
labels that are looked up (`AskedIsLookedUp`), that they are there for the events the
repair leaves and adds (`CollectedSuffices`), and that the health a repair creates is
of a realm with groups (`HealthRealms`). The rest is about the pure part. A list
sorted by a strict total order is the one whose k-th place has k - 1 members before it (`OrderIs`), so a sort is a
permutation that keeps what is in order already (`Sorts`, `SortKeeps`). `Depth` is
the recursion it is written as (`DepthIs`); what is retained balances to the depths
that are left open, and `Closings` lists one synthetic end for each open span behind
them, each not earlier than the last event of its realm. The way of every place of
the trace through the second sort, the closings, the retained groups and the first
sort is then one chain of injective maps (`Traced`): along it the trace balances on
each track, real places map to kept groups and to all of them, in order, and the rest
are as many as the repairs counted. That an end is discarded where the depth is zero
is the same as that no begin matches it (`MatchedIs`), which is how the properties
speak of it without the code's counter.

The same module proves what TracePackets checks of the finished trace,
`DescribedFirst`, `OneTimeline` and `FitOptimal`, for all rates, calibrations, ids and
any exclusive-or (`PacketsAssumption`: rates, names and clock readings are natural, and
a reference time is one a u64 holds). The invariant adds `Checked`: every registered
realm has a positive rate, the calibrations of a realm are samples of one clock, and
after a finish() that returned a trace what it had checked still holds (`Passed`), for
nothing that the passes read changes any more. That the trace is readable is a fact
about the layout (`LaidOut`): each pass lists a finite set in order, the passes follow
one another, and an event is a group of a registered realm or a synthetic end, which
has its realm, clock and track from one. `OneTimeline` needs that the clamp at zero and
the wrap at MaxNanos are not reached within the times it speaks of; then a snapshot and
an event of a realm differ from its ticks by the same fitted offset (`ByOffset`).
`FitOptimal` needs that a median is best: it has at most half of the offsets below and
at most half above it (`MedianIs`), so moving away from it by d adds d for at least as
many samples as it can take d from (`Outweighs`, a sum over the samples read along the
recursion of `Total`), and the clamp only brings a prediction nearer to a sample, which
is never negative. `NoOffsetIsBetter` says the same of every integer offset, of which a
run can only try a few.

Every invariant and every refinement that a passing run checks is stated by a theorem.
Only model-checked, because liveness under fairness is out of the prover's reach:
DrainReturns, StopAnswered, FinishAnswered and ClaimReturned.

## 6. Findings

Each has a run that TLC must find violated; PROJECT.json quotes the lines.

1. *native_filter_race*: a session that starts between another one's release of
   CAPTURE_ACTIVE and its reset of the filter loses its allow-list.
   `HonouredUnlessCrossed` checks that nothing else can make a session lose it; what
   can pass it by is one event of each thread, the observation on the category
   check below.
2. *ordinary_conflict*: a conflicting label is accepted, and its records are
   emitted, once the page has taken the metadata.
3. *tracing_threads*: `active_enters` is counted per span, so a span entered by
   two threads can end a slice on a track that has none. `EndsOwnSlice` checks
   that an entry is never taken from a span that is entered once at a time.

Observations without a run of their own:

- With a ring capacity that does not divide 2^32 the slots jump where the sequence
  passes 2^32 on a 32-bit target (`raw/src/lib.rs:40`), and accepted records are
  overwritten: MCRawRing with 3 slots and a usize below 4 violates
  ImplementsGroupQueue. Powers of two, the default 8192 among them, are safe.
- After `trace-aborted` the callbacks still drain the ring and may post chunks
  (`web/perfetto-chunk-transport.js:37`): ChunkTransport has these steps.
- `abort()` leaves a `finish()` that awaits the collector's answer unsettled
  (`web/perfetto-browser-runtime.js:159`): FinishAnswered therefore excepts it.
- Health for a realm that was never registered makes `finish()` panic in
  `emit_descriptors` (`collector/src/lib.rs:429`): `PanicNeedsHealth` shows that
  there is no other way to the panic.
- Synthetic ends are stamped one tick and more after the realm's last timestamp
  (`collector/src/lib.rs:293`), where `docs/collector-and-clocks.md` says at it.
- A begin between the claim of CAPTURE_ACTIVE and the start of the SDK session, or
  between its stop and the release, is answered Recorded and is in no trace
  (`native/src/lib.rs:460`): the cause "window" of TracingLayer. Likewise a guard
  that outlives its session ends into the next one (`:474`), and a track that
  could be registered at only one end of a span separates the two (`:66`).
- A category check and the emission that follows are two steps
  (`native/src/lib.rs:460-463`): a call that has passed the filter in an earlier
  session, or after this session's claim (`:202`) and before it writes its own filter
  (`:221`), when the filter is absent or that of a failed start, may be recorded by
  this session, which does not select it. HonouredUnlessCrossed says that each thread
  has at most one such event in a session, and that a call which looks the category
  up after the write has none.
- `log()` answers Disabled where the other calls answer Unsupported when its target
  conflicts (`web/src/lib.rs:431`), and the target stays registered when the message
  conflicts, as do the first definitions of any call whose later one does. They name
  no record.
- A buffer that comes back with another length is refused and stays in flight for
  ever (`web/perfetto-chunk-transport.js:79`): the pool is smaller by one. PoolConserved
  counts it as in flight. StarvationWindow bounds the drops a window may book by those
  there were; it does not say that every drop of a window is booked.
- Once the mutex of SharedBackend is poisoned (`tracing/src/lib.rs:41`) the ends of
  open spans are swallowed: the cause "poisoned".
- A failed start leaves its category filter behind (`native/src/lib.rs:250`); with
  CAPTURE_ACTIVE clear it has no effect until the next start overwrites it.
- Records carry no checksum: damage that leaves a group well formed, as another
  time in a group of one record does, is ingested. IngestedPrefix therefore says
  what the records are only without damage.
- The uuids of counter tracks take the name in by exclusive-or with realm and
  track (`collector/src/lib.rs:805`), so that two counters may share one.
- A calibration whose fitted time would be negative is moved to zero
  (`collector/src/lib.rs:770`), and one within a second of the end of a u64 may
  overflow where a snapshot adds one second to it (`collector/src/lib.rs:381`);
  OneTimeline excepts both.
- The metadata map of a producer has no limit and is emptied only by the page
  (`web/src/lib.rs:275`). A `finish()` that returns an error has consumed the
  collector (`collector/src/lib.rs:228`).

## 7. Plan

Written: the worklet's path (RawRing, ChunkTransport, AudioCapture, WireRecords,
ChunkCollector), the ordinary realm (OrdinaryProducer), the collector
(SpanRepair, TraceCollector, TracePackets), the native path (NativeCapture,
NativeTracks, TracingLayer), with proofs about the raw ring, the transport and its
messages, the audio callback, the chunk collector, the ordinary producer, the native
session, the tracing layer, the collector and its packets.

What is left, in this order:

1. `OrdinaryCapture`: OrdinaryProducer composed with TraceCollector, so that
   dropped ends, late metadata and repair meet; an abstract `TraceCapture` ("the
   trace is what was recorded, nested") that it implements.
2. The native registry of counter tracks; flow ids across realms.
