# Models and proofs for the audio receive and echo cancellation code

TLA+ models of the stateful core of this repository (extracted WebRTC audio
code: NetEq, the AEC3 echo canceller and the classes they share), the TLC
configurations that check them on small instances, and TLAPS proofs of the
properties that matter most. Source paths are relative to `src/`.

## The system

| Component | State | Operations | Meets the others through |
|---|---|---|---|
| `SwapQueue` (`common_base/rtc_base/swap_queue.h`) | a ring of elements, read and write index, count, lock | `Insert`, `Remove`, `Clear` | render thread inserts frames, capture thread of AEC3 removes them; elements are swapped, so storage travels both ways |
| serial numbers (`neteq/modules/include/module_common_types_public.h`) | none | `IsNewer`, `Unwrapper` | every comparison of sequence numbers and timestamps |
| `NackTracker` (`neteq/nack_tracker.cc`) | last received and decoded packet, the list of late and missing packets, its limit, the sample rate | `UpdateLastReceivedPacket`, `UpdateLastDecodedPacket`, `UpdateSampleRate`, `SetMaxNackListSize`, `Reset` | called by `InsertPacketInternal` and `ExtractPackets` |
| `PacketBuffer` (`neteq/packet_buffer.cc`, `packet.h`) | a list of packets by timestamp | `InsertPacket`, `InsertPacketList`, `GetNextPacket`, the discards, `Flush` | filled by the network side, drained by the audio side of NetEq |
| `NetEqImpl`, `DecisionLogic`, `DecoderDatabase` | packet buffer, payload types, active decoder, `new_codec_`, `first_packet_`, timestamps, `last_mode_`, CNG state | `InsertPacket`, `GetAudio`, `FlushBuffers`, registering and removing types | three callers (network thread, audio thread, application) on one lock |
| delay estimation of NetEq (`delay_manager.cc`, `delay_peak_detector.cc`, `histogram.cc`) | histogram of arrival delays in fixed point, window of delays, peaks, three limits, target level | `Update`, `RegisterEmptyPacket`, `SetMinimumDelay`, `SetMaximumDelay`, `SetBaseMinimumDelay`, `SetPacketAudioLength`, `Reset` | told of every packet by `InsertPacketInternal`, asked by `DecisionLogic` |
| RED, timestamps, tones (`red_payload_splitter.cc`, `timestamp_scaler.cc`, `dtmf_buffer.cc`) | the scaler's two references and its rate; the sorted list of tone events | `SplitRed`, `CheckRedPayloads`, `ToInternal`; `InsertEvent`, `GetEvent`, `Flush` | first steps of `InsertPacketInternal`; tones are asked for in every `GetAudio` |
| audio buffers (`audio_vector.cc`, `sync_buffer.cc`) | a ring that grows; the play position and the mark of the tones in a ring of fixed size | push, pop, insert, overwrite, cross fade; `PushBack`, `InsertZerosAtIndex`, `ReplaceAtIndex`, `GetNextAudioInterleaved` | what every operation of `GetAudio` writes to and plays from |
| statistics (`statistics_calculator.cc`, `expand_uma_logger.cc`) | concealed samples and what they are owed, periodic counters | `Expanded...`, their corrections, `IncreaseCounter` | fed by `GetAudio`, polled by the application |
| AEC3 threads and framing (`aec3/echo_canceller3.cc`, `frame_blocker.cc`, `block_framer.cc`, `block_delay_buffer.cc`) | transfer queue, half-filled blocks, saturation flag | `AnalyzeRender`, `AnalyzeCapture`, `ProcessCapture`, `SetAudioBufferDelay` | render thread to capture thread, through `SwapQueue` |
| AEC3 alignment (`block_processor.cc`, `render_delay_buffer.cc`, `render_delay_controller.cc`, ring buffers) | ring indices, delay, render event, call counters | `BufferRender`, `ProcessCapture`, `Reset`, `AlignFromDelay` | called by the framing, feeds the adaptive filters |
| AEC3 delay estimation (`echo_path_delay_estimator.cc`, `matched_filter_lag_aggregator.cc`, `clockdrift_detector.cc`, `render_delay_controller.cc`) | histogram of the last lags, thresholds passed, drift history, the delay in use | `Aggregate`, `Update`, `GetDelay`, `Reset` | called once per captured block by the block processor |
| lock and event (`critical_section.cc`, `event.cc`) | a counter, two plain fields, a semaphore; a flag, a mutex, a condition variable | `Enter`, `TryEnter`, `Leave`; `Set`, `Reset`, `Wait` | everything above |
| trace log (`event_tracer.cc`) | the active flag, the queue, the logging thread | `AddTraceEvent`, `StartInternalCapture`, `StopInternalCapture` | any thread traces; the logging thread waits on an event |
| metrics (`metrics.cc`, `metrics.h`) | the map of histograms, one remembered pointer for each macro | the macros, `Enable`, `GetAndReset` | any thread adds, another collects |
| H.264 packetiser (`rtp_receiver/h264_rtp_packer.c`) | one packet used again and again, its number and marker | `h264_rtp_packer_pack` | called by a test program for each unit |
| AEC3 filters, NetEq signal processing, `common_audio` | filter coefficients, sample buffers | floating and fixed point arithmetic | called with blocks of samples |
| test programs (`rtp_receiver`, `nack_module`, `neteq_test`) | - | drivers around libraries partly not in the repository | - |

### What is hard in it, and what makes each part correct

* **SwapQueue.** Two threads; three counters that two operations keep
  consistent; an exchange where a copy would do for a test. Correct when the
  counters agree, no two holders own one storage, and the whole is a bounded
  FIFO.
* **NackTracker.** A `std::map` whose order is the wrapping comparison of
  sequence numbers, which is no order on the whole circle; packets reordered,
  repeated and lost; the list follows two positions, of reception and of
  playout. Correct when the map stays ordered, flags what is late, names
  nothing received, and does with wrapping numbers what one would do without.
* **PacketBuffer.** The same comparison of timestamps; copies of one packet
  from retransmission, RED and FEC in any order; flushes on overflow and on a
  new codec. Correct when it holds the preferred copy of every time offered,
  in order, and discards what is old and nothing else.
* **NetEq.** Three callers whose calls interleave; state read at one call and
  used at a later one (`new_codec_`, `last_mode_`, `current_rtp_payload_type_`,
  `fs_hz_`); steps that fail halfway. Correct when codecs are never mixed,
  nothing is decoded twice or backwards, and no codec is decoded into the
  signal of another rate.
* **Delay estimation of NetEq.** Wrapping numbers, lost and reordered packets,
  a stopwatch restarted by packets that are not counted, limits set in any
  order, rounding at every update. Correct when the histogram adds up to one,
  the relative delay is that to the earliest packet of the window, and the
  limits stay in order.
* **RED, timestamps, tones.** Copies of one block alone and in RED packets,
  late and across the wrap; events told piece by piece. Correct when copies get
  one timestamp and tones sound in their time.
* **Audio buffers.** A ring that is made larger while it wraps; indices that
  must follow what is shifted. Correct when the ring is the list of its samples
  and no sample is moved from its place.
* **Statistics, metrics.** Counts corrected downwards behind a counter that
  must not go back; threads that meet at the first use of a histogram. Correct
  when nothing is lost or counted twice.
* **AEC3.** Render and capture calls that drift, stall and burst; a full
  queue that drops frames; ring indices that must keep their distance; delays
  taken from a sliding histogram with resets at different times.
* **Lock, event, trace log.** A hand-over between a counter and a semaphore; a
  timeout that races a signal; events traced after the stop. Correct when two
  threads are never inside, everybody who waits gets on, and the file of a
  session holds what was queued since it began.

`PROJECT.json` lists these hazards with their lines, and the properties that
would catch them.

## The modules

    BoundedFifo    <-- refined by --  SwapQueue
    SerialNumbers  <-- NackTracker, PacketList
    GapTracker     <-- refined by --  NackTracker <-- NackTrackerProofs, MCNackTracker
    PacketList     <-- PacketBuffer;  PacketList  <-- PacketListProofs
    PacketBuffer, RtpIntake, DtmfBuffer, H264Packer  <-- MCPackets
    PacketList     <-- NetEq          <-- MCNetEq
    BoundedFifo    <-- instance in -- EchoCanceller3  <-- EchoCanceller3Proofs
    DelayLine, BlockStream  <-- refined by --  EchoCanceller3
    RenderDelayBuffer  <-- BlockProcessor  <-- BlockProcessorProofs
    Latch          <-- refined by --  Event
    Event          <-- instance in -- EventLogger
    CriticalSection, Event, EventLogger  <-- MCThreads  <-- ThreadsProofs
    SampleList, AudioVector  <-- SyncBuffer;  PlayWindow <-- SyncBuffer
    AudioVector, SyncBuffer  <-- MCAudio;  Statistics, Metrics  <-- MCCounters
    Histogram      <-- DelayManager
    DelayManager, DelayEstimator  <-- MCDelays
    SwapQueue, MCAudio  <-- RingProofs
    NetEq, MCDelays  <-- NetEqProofs
    MCPackets, MCCounters, MCDelays  <-- PartsProofs
    MCPackets, MCAudio, MCCounters, MCDelays  <-- MCParts

**SwapQueue** has the code's members as variables, plus the producer's and the
consumer's own elements (`*input`, `*output`). An element is the storage it
owns and what is written in it; with storage named, a copy in place of the
swap is visible. Every operation holds `crit_queue_` for the whole of its
body, so it is one action. The producer fills its element outside the lock;
nobody else can see that element, so filling it and `Insert` are one action.

**BoundedFifo** is what a bounded queue promises of each call: `Insert` appends
and returns true, `Refuse` returns false when the queue is full and only then,
with the producer's item still its own, `Remove` takes the oldest,
`RemoveNothing` returns false when there is none, and `Clear` alone loses
anything. `SwapQueue` maps its slots from the read index on to the queue's
content, `input` to what the producer is left with, `output` to what the consumer
has. `given` (what `Insert` was called with) and `last` (the call and its
result) are history. Every call turns a bit of `last`, so a call that changes
nothing else is still a step of the abstract queue and cannot pass for a stutter.

**SerialNumbers** has `IsNewer` with its tie broken at half the circle, and
modular sum and difference, for any width.

**NackTracker** has one action per branch of `UpdateLastReceivedPacket` (first,
same, older and newer number) and of `UpdateLastDecodedPacket` (newer, same).
`nack_list_` is a function; positions in the map are computed from the
comparison, and where the elements older than a bound are no prefix of the
map, a binary search may stop anywhere. The history variables `received`,
`ext_received` and `ext_decoded` are what the caller has received lately and the two positions
counted without wrapping. `UpdateLastDecodedPacket` is called with packets of the
packet buffer, so its argument is one of `received`; the assertion of l.166
(the number is not older than the last one decoded) is taken as the caller's
duty. **GapTracker** tells the same with numbers that never wrap.

**PacketList** has the operations of `packet_buffer.cc` as operators on
sequences: `Before` is `Packet::operator<`, `Place` the search from the back
with the replacement of equal timestamps, `Admit` one turn of the loop of
`InsertPacketList`. A packet carries its time, which does not wrap, for the
properties; the code's timestamp is `Ts(at)`, and no operator reads anything
else. **PacketBuffer** makes an object of it that any caller may use.

**NetEq** has one action for each public method that changes state, since each
holds `crit_sect_`. `InsertPacketInternal` accepts or rejects an arrival;
an arrival is the list of packets that RED splitting and parsing make of it,
which is empty when all of it were tones or the decoder parses nothing out of it.
`GetAudio` is made of `Fresh` (what `GetDecision` discards first),
`Operations` (what `DecisionLogic` may answer, by its control flow) and one
disjunct for each way the answer is carried out. Buffer levels and the delay
manager only choose among operations, so every choice the control flow allows
is allowed. What a decoder returns (speech, its own comfort noise, nothing, an
error) is open too. `decoded` is a history variable, explained at `Heard`.

**EchoCanceller3** has the render thread (`AnalyzeRender`) and the capture
thread, whose call of `ProcessCapture` is several steps: it delays the frame,
takes render frames one by one, and when it finds the queue empty cuts,
processes and joins the captured frame. The queue is an instance of
`BoundedFifo` (its `Put` and `Take`; nothing here looks at a result or goes on
with the frame that came back), which `SwapQueue` is shown to implement, and the render thread
may insert between any two of these steps, as the lock is held for one `Insert`
or `Remove` only. Samples are counted in units of 16, the common divisor of a
block and a sub-frame; a unit is a frame's label and a position, so any loss,
repetition or swap shows. One band stands for all. **DelayLine** is what the
capture side promises: the frame out is the frame in, delayed by the fixed delay
and one block. Its line is what framer, blocker and ring hold together; the
mapping undoes the exchange with the ring while a call is under way.
**BlockStream** is what the render side promises: the accepted frames, in order,
cut into blocks. Its stream is the half block of the blocker and the queue.

**RenderDelayBuffer** has the operations of `render_delay_buffer.cc` as
operators on a record of indices; `blocks_` runs forwards, `spectra_` (and
`ffts_`, which moves with it) and `low_rate_` backwards, `low_rate_` counted
in sub-blocks. `unread` and `behind` are history: the distances counted without
going around. `clamped` remembers that a delay did not fit. The two call
counters are only ever subtracted, so `lead` is their difference, and it is kept only
where it is read, with an external delay. **BlockProcessor** makes the state
machine: `BufferRender`, `ProcessCapture` (with the delay controller's delay,
which a reset clears and the estimator sets to what it likes) and
`SetAudioBufferDelay`, in any order. `EchoCanceller3` calls it with bursts of
any length, so it is checked on its own with its environment left free.

**CriticalSection** is the lock without a native mutex: one step is one atomic
operation on `lock_queue_`, a wait or signal of the semaphore, or a write that
only the owner reads. `USE_NATIVE_MUTEX_ON_MAC` is 1 by default
(`critical_section.h:37`), so this branch is compiled only where that is turned
off; everywhere else the class is a call of the system. It justifies, for that
build, that the other modules take a section under a lock as one step.

**Event** is the POSIX event. Taking the mutex up to giving it up or blocking is
one step; `pthread_cond_broadcast` moves the blocked threads to where they
compete for the mutex. A wait for ever begins as a wait of three seconds, which
logs a warning, and goes on as one without a limit. **Latch** is what it
promises: one waiter per signal, or all until reset, and giving up only where
asked for. **EventLogger** is the trace log: it holds an instance of `Event` for
the shutdown event. The order of `active`, queue and thread in `Start` and
`Stop` is kept step by step; a tracer reads the flag in one step and locks the
queue in another. The comment at `event_tracer.cc:199-202` says that the next
start clears the queue so that no event of an earlier session is logged; one
event of each thread, put into the queue after that, still comes.
`SessionLogged` allows it and so departs from the comment: a thread reads the
flag in one session (l.356), is held up over `Stop` and `Start`, and locks the
queue (l.119) behind the clear.

**Histogram** and **DelayManager** are the delay estimation, in ticks of 10 ms
and fixed point, `One` being the code's 2^30. `InsertPacketInternal`'s branches around
the manager (l.715-747) are part of the actions, since they decide when the
stopwatch is restarted and which packets count. `Configs` has
one configuration for each of the two histogram modes. `lateness` is history: how late the
packets in order came, by the sender's clock, as far back as the numbers connect
them.

**AudioVector** has the ring with its array and indices as a record, and every
operation as an operator on it; **SampleList** is the list it stands for.
**SyncBuffer** is made of it, with the play index and the mark of the tones;
**PlayWindow** says what becomes of the samples played, those to be played
and the mark. The fade is computed as in the code (`Faded`); adding tones changes sample
values only and is left out.

**Statistics** has the two counters of concealed samples with what is owed to
them, the periodic counter of outages and the rate logger; **RtpIntake** the way
of an RTP packet through `SplitRed`, `CheckRedPayloads` and `ToInternal`, with
the reset of the scaler for a new stream; **DtmfBuffer** the list of tones with
`InsertEvent`, `GetEvent` and `Flush`, played by a clock that need not go on by
one frame (`SetSampleRate` of the buffer is never called, so the frame length it
assumes may not be that of NetEq); **DelayEstimator** the way from a lag found to
the delay in use and the drift reported. Its histogram starts with a window of
zeros that it does not count, so element 0 goes below zero; as all lags found
are 3 or more, nothing looks at it. **Metrics** has the macros of `metrics.h` in
three steps (look for the histogram, remember it, add) and `GetAndReset` with
one step for each histogram. **H264Packer** makes the packets of a unit; bytes
are positions in the unit, and `M` is the marker in the header that is used again.

`MCThreads` and `MCParts` check several of these modules in one run each: a
behaviour is one of the component chosen at its beginning (`component`, `part`),
as they share no state. What they do share in the program is said where it is
modelled: the trace log's own event, the lock as one step.

Mutants, that is plausible slips in the code, are definitions of the modules,
marked as such; each property is violated under one of them.

## The runs

| Run | States | Shows |
|---|---|---|
| `swap_queue` | 248 641 | any order of `Insert`, `Remove`, `Clear` keeps the indices in the ring, shares no storage, implements `BoundedFifo` with its results |
| `nack_tracker` | 62 621 | order of the map, flags, nothing received is listed, refinement of `GapTracker` |
| `neteq` | 161 919 | one codec in the buffer, nothing decoded twice or backwards, speech decoded at its rate |
| `echo_canceller3` | 108 598 | capture delayed and whole, render frames in order, every accepted frame reaches the processor |
| `block_processor` | 128 343 | distances read off the rings are true, rings mirrored, a delay once set stays applied |
| `threads` | 11 173 | the lock excludes and lets everybody in, the event is a latch, a session's file holds what was queued since it began, `Stop` returns |
| `parts` | 485 487 | packet buffer: the preferred copies in order, discards take what is old; delays: mass one, relative delay true, limits in order; audio vector and sync buffer keep their samples; nothing counts twice in statistics and metrics; RED copies agree; tones in time; delay and drift founded on lags; units whole |
| `nack_tracker_paused` | violation | the assertion of `AddToList` fails if playout pauses for half a circle |
| `neteq_flush_error` | violation | an empty packet after a flush in one list hides the new codec |
| `neteq_removed_type` | violation | a removed payload type is still the current one |
| `neteq_undefined` | violation | `kUndefined` without `new_codec_` |
| `block_processor_external` | violation | an external delay moves a read index by more than the ring |

The violations are described, with the lines they contradict, under `findings`
in `PROJECT.json`. Most of them matter in builds with assertions;
`neteq_flush_error` leaves a packet of a new codec in the signal of the old, and
`block_processor_external` leaves a negative index in a build without assertions.
The arrival that leads to `neteq_flush_error` (a block of a new codec, then an
empty one) is left out of the passing run `neteq`, so that `DecodedAtItsRate` is
checked for all the others: `MCArrivals` against `MCArrivalsThenEmpty`.

### Bounds

* `swap_queue`: three slots and two contents. Two slots would let the read
  and write index coincide in a swapped order unnoticed; with two contents every
  order of different frames occurs, and storage has names of its own. The
  theorems are for every size and every set of contents.
* `nack_tracker`: a circle of 16 numbers (`HalfSeq`), a list limit of 3, a
  threshold of 1; `MaxExt` 19 stops the stream after more than one turn, so
  the list lies across the wrap and on both sides of half the circle.
  `WindowAssumption` is what the real constants satisfy by far (500, 2 and
  32768). `MaxLag` is how far behind the newest packet a packet is still in the
  packet buffer, `PacketSpan` how many samples a packet has, decoded in pieces
  of 10 ms. `MCNackTrackerPaused.cfg` has the same instance.
* packet buffer in `parts`: three packets, timestamps on a circle of 12, times 9 to 14
  across the wrap; plain, FEC and RED copies and comfort noise. `Near` keeps
  what is offered within half the circle: beyond it the comparison has no
  meaning and the code does not claim one.
* `neteq`: a buffer of two, two codecs of different rates and one comfort noise
  type, times 10 to 12 across the wrap of timestamps at 12. `Timely` with
  `Lead` and `Lag` is the sender: its clock runs on, and an arrival is ahead or
  behind by a bounded amount. `Drift` bounds how long comfort noise of a codec
  goes on, `MaxNoise` the stopwatch of RFC 3389 noise, `MaxRequired` how
  many packets one call takes, `Horizon` stands for five seconds. With two
  packets overflow, codec change, RED copies and reordering all happen.

* `echo_canceller3`: a queue of two, so that it is full with one frame behind
  another; two labels tell a frame from its successor and from the one dropped.
  `SubFrameCounts` has both lengths of frames (5 and 10 units), and the `Delay`
  of 7 units is longer than the one and shorter than the other, so that the
  ring is passed in part or more than once. The half blocks of blocker and framer
  repeat after four sub-frames, so all their fillings occur.
* `block_processor`: `low_rate_` with 4 sub-blocks and a headroom of 2, so rings
  of 4 and 7 turn over in a few calls, at different times. The estimates 0, 1
  and 3 reach from no delay to one that does not fit behind some latency, the
  reports 0 and 4 both branches of the headroom; an excess check every third
  block with one excess block allowed fires between overrun and underrun.
  `MaxLead` 3 keeps external delays within the ring; the violation run has 8,
  where they leave it.

* `threads`: three threads on the lock, so that one may enter while another is
  about to signal a third; one try before waiting and sections nested twice. Two
  waiters on the event, which both a signal and a timeout may reach. One tracing
  thread beside the one that starts and stops, three events, two sessions, so
  that an event can outlive its session.
* delays in `parts`: nine packets with numbers on a circle of 8 across the wrap,
  among them a gap, an empty packet and one of comfort noise; a packet may be one
  behind or ahead, a window of two. One configuration counts relative delays, with
  RTX; one inter-arrival times, without it and with two packet lengths. `Few` sets the
  limits in the second alone, and not after its fifth arrival, of six. Nine binary
  places in place of 30, so that rounding shows at once.
* audio in `parts`: vectors of three samples and pieces of two, which grow, wrap
  and are full; two sample values. The sync buffer has three samples.
* counters in `parts`: corrections up and down within two samples, periods of two
  ticks. Tones: three, two of the same number, one following another at once, the last at
  the wrap; frames of two samples and steps of one to three. RTP: five blocks of
  two rates and comfort noise, the wrap among them, up to two redundant blocks, two streams. Lags
  3 to 6 in a window of two, so that they replace each other at every step.
  Metrics: two threads, three places (two remember) of one histogram with room
  for two values. H.264: units of 1 and of 3 to 9 bytes, packets of 4: from one
  packet to four fragments, with every remainder.

`One`, `Window`, `Modulus` and the like are the code's constants made
small; `MaxCalls`, `MaxArrivals`, `MaxUnits`, `MaxTime`, `MaxEvents`,
`MaxSessions`, `MaxStreams`, `MaxOutages`, `MaxSamples` only end a behaviour.

### Fairness and deadlock

`EchoCanceller3.cfg` assumes weak fairness of the capture thread: a call that
has begun goes on (`BufferRenderFrame \/ EndProcessCapture`; nothing in it waits),
and the audio device keeps calling. Nothing is asked of the render thread, which
may stop, or keep the queue full for ever. With that, `AcceptedIsHeard` holds;
that a single call of `ProcessCapture` returns does not, as its loop takes
frames until it finds none.

`MCThreads.cfg` assumes of the lock that every thread inside `Enter` or `Leave`
runs (`WF Run`), that a critical section ends, however many others are nested in
it before (`WF Leave`, and `SF` for the outermost one), and that a semaphore
does not pass over the same waiter for ever (`SF Wait`). Without the last a
thread may wait while two others hand the lock over; the source says nothing of
the order, so this is what Mach semaphores are taken to give. Of the event:
every thread that can go on does (`WF Go`), and time passes (`SF Expire`, as a
wake in vain restarts the wait but not its deadline). Of the trace log: both
threads run and the 100 ms pass (`WF` of `Running`, `Logs`, `Waits`); nobody is
made to trace, start or stop.

Everywhere else no fairness is assumed: all public methods are called when the
environment likes, or never, and the properties are safety and
refinement of safety specifications. Deadlock is checked in every run but
`parts`, whose behaviours end at the bounds named above; elsewhere no model can
stop, except in the violation runs, which end at the violation.

## The proofs

TLC shows the properties on the instances above; the eight proof modules show
those named here for every value of the constants, from the assumptions named. `PROJECT.json`
lists the theorems. In each module the invariant comes first, then one lemma for each
operation, then the theorems.

`RingProofs` proves what the code's two rings keep. Of the swap queue, for every size and every set of contents,
`TypeCorrect`, `IndicesAgree`, `NoSharing` and `ImplementsFifo`. The
invariant is `TypeOK /\ IndexRelation`, inductive as it
stands, and beside it `StorageNotShared`. The refinement needs that `Slot`
maps `0 .. num_elements` without collision, a lemma about addition around the
ring, and then one step per action and outcome: `Insert` appends at the slot the write
index names or is refused, `Remove` takes the content of slot 0 and shifts the
rest or finds nothing, each with its answer. That the exchanged element goes
back to the producer only when the queue was not full is part of it.
Assumptions: `SizeAssumption`, `BlankAssumption`.

Of the audio buffers: `VectorIsItsSamples` (`VectorIsList`) and `WindowStays` (`WindowKept`), for samples,
pieces and buffers of any number and size. `Ring` says that the indices are in the array; a lemma
for each operation then says what it does to the contents (`PushedBack`, `PushedFront`,
`PutAt`, `Overwritten`, `CrossFaded`...), from what `memcpy` does to a cell (`Overlaid`) and from `%`
turning at most once (`TwoTurns`). Both of `InsertAt`'s ways come to the same list.
The sync buffer is proved from those lemmas: its invariant `WindowInv` is that the
ring holds `past \o future` and meets at the index. Neither needs `TypeOK`, as a mix of
samples need not be one of those given. Assumption: `AudioAssumption`.

`NackTrackerProofs` proves, for every circle, limit, threshold, rate and
stream, `WindowKept`, `TypeCorrect`, `ListStaysOrdered`,
`MissingExactlyWhenLate`, `NothingReceivedIsListed` and `ImplementsGapTracker`,
that is `Spec => GapSpec`. None of the three invariants before it is inductive
alone. The invariant is the conjunction of

* `TypeOK`,
* `ListWindow`: every number listed is between 1 and the list's limit behind the
  newest one,
* `ReceivedWindow`: what is in `received` is at most `MaxLag` behind it,
* `EmptyBeforeFirst`: nothing is listed before the first packet,
* `ReceivedNotListed` and `MissingIffLate`.

The window is the point: as all numbers compared lie within half the circle of
each other, the comparison is the order of age, the map is sorted, and
`lower_bound` finds the late elements. The lemmas about `Minus` and `IsNewer`
are stated once, in terms of ages. The refinement maps a number listed to the
extended number of its age (`Listed`); within the window that is one to one,
and each action becomes one of the gap tracker's: the numbers between the newest
and a newer packet open as gaps, an older packet fills one, decoding and the limit
close those they pass. Assumptions: those named in `NackTracker`
(`WindowAssumption` above all).

`PacketListProofs` has no theorem about a behaviour. It proves, of lists of any length,
what the operators of `PacketList` do: where `Place` puts a packet, that `InsertPacket`
keeps the list sorted and within its size, which packets a discard
leaves. The loop over the packets of an arrival and the filters are functions that recur over
numbers; induction is stated there of sets of numbers (`Smallest`, `Induction`,
`Recursion`), which the provers can instantiate, and not of formulas.

`PartsProofs` has the theorems about what `MCParts` runs of `MCPackets`, `MCCounters`
and the half of `MCDelays` that is about AEC3.

* The packet buffer, for every capacity, circle, set of copies and horizon:
  `PacketBufferTypes`, `PacketBufferHoldsTheBest` and `PacketBufferDiscards`. The invariant `BufferInv` says
  that the list is sorted by time, holds the preferred copy (`Best`) of each time
  offered and nothing else. The argument is that `Preferred` is
  a strict order of the copies of one time (`PreferredTransitive`), which the
  whole of `operator<` is not, so that comparing with the one copy held decides against all offered. Assumptions:
  `CopyAssumption` (the sequence numbers of the copies of one time lie within a
  quarter of the circle, and no two copies of one time are equal to the comparison),
  and those of the constants.
* The counters: `NothingCountsTwice` and `CountersNeverGoBack`. The invariant adds
  `Owing`: what was counted is what was concealed and what is still owed.
  Assumption: `CounterAssumption`.
* The metrics: `NoSampleIsLost`, and that no two names ever share a
  histogram; the invariant is that a thread about to add holds the one the map has
  for its name, though another may have made it between its look and its
  creation. Assumption: `MetricsAssumption`.
* The delay estimation of AEC3: `DelayIsFounded` (`DelayFounded`), for any lags, window and thresholds. The
  window is a ring of which `DataInv` says in what element each of the last lags
  is; `HistogramInv`, that the histogram counts them, though its element
  0 goes below zero while the window fills; `DelayInv`, that the last estimate was found more often
  than its threshold and that the delay is below it by no more than the hysteresis. `DriftInv` says
  of what estimates the level of the drift is made. The history of
  estimates begins with zeros, and no zero passes for a step of a drift because a
  lag is 3 at least (`matched_filter.cc:397`): that is `LagAssumption`. The proof
  needs the alternatives of a clock drift exclusive, which the code's
  order of tests makes them; the model now says so.
* The intake of RTP packets: `CopiesStayOne` (`CopiesAgree`), for any stream shorter than the
  circle, any circle and any number of redundant blocks. The invariant `Along` says that there is one base
  for all that a stream's scaler has made: every block scaled lies at the base plus `Factor` times its
  place in the stream, modulo the circle, and the scaler's two references belong to one
  place. The step holds because the difference of two external timestamps, wrapped or not, is a multiple of
  the circle away from the distance of their blocks (`WholeTurns`) and the
  ratio makes of that whole turns again (`ScaleKeeps`); that is why the ratio must be a whole number:
  of any other, each division would cut off a part, and the copies of a block would depend on what
  was received before. A flush clears `received`, and with it the base.
  Assumption: `IntakeAssumption`, with one such ratio in a stream.
* The tones of NetEq: `TonesSoundInTime` (`ToneInTime`), for any tones sent one after another less
  than half the circle apart, any loss, repetition and order of their packets and any step of the
  clock. `TonesInv` says what the list holds: one event of each tone, in the order of
  the tones, and that across the wrap too, for `CompareEvents` counts around the circle (`EventsCompared`).
  `GetEvent` does not: it compares timestamps as they are, and takes the next event's as
  the end of an open one. So the rest of the invariant is about streams that have not met the wrap
  (`straddled`): an event tells all that was received of its tone (`AllTold`) until the last frame of
  that tone has come, and none stays that was due long ago (`Awaited`). For the second the events that are gone
  through before the first that is found matter: each of them is over, and leaves.
  Assumption: `ToneAssumption`.
* The packer of H.264: `UnitsArriveWhole` (`UnitsWhole`), for units and payloads of any length above
  two bytes. A unit in fragments ends after the last full one (`FragmentsAre`), and the
  fragments join to the unit by induction along them (`UnitArrives`). `PackerInv` says that between two units
  the receiver has begun no other. Assumption: `PackerAssumption`.

`NetEqProofs` proves, for every set of arrivals, codecs and buffer size, `NetEqTypeCorrect`,
`NetEqOneCodec`, `NetEqDecodedOnce` and `NetEqDecodesAtItsRate`. `OneCodec` is inductive with the types;
`Admit` keeps it because a packet that changes the codec flushes what was there
before it goes in. `DecodedOnce` needs `Paced`: the packets held are sorted and
within `Lead` of each other; the end of the signal is after the
last time decoded, by half a circle at most; and no packet held is further than
`2 * Lag` behind the last one decoded or `Horizon` behind the end. With these, what `Fresh`
discards is what lies before the end, whatever the wrap, and what is decoded
goes on from there. One hypothesis is needed, `EmptyFirst`: of the packets that an arrival is split into only
the first may be empty. Without it an arrival of a block and an empty one can flush the
buffer unseen, the case of `neteq_flush_error`, and a packet then waits in the buffer while NetEq still
expects its first. `MCNetEq.cfg` satisfies it.

`DecodedAtItsRate` is about a step; the invariant `Rated` tells why no state allows
a wrong one. When the buffer is flushed the signal takes the rate of the packet that is
next, and the decoder that was active may have another. Then nothing has been decoded
into the new signal, no packet held is for that decoder, and the current types differ
from it (`Guarded`), so that a packet for it would be taken for a new codec and flush
again; the first packet of speech that is decoded makes its own decoder active and sets the rate.
What is left, comfort noise and packets of no known type, leaves the end of the signal where it was.
Two hypotheses are needed. `OneClock`: the blocks of one arrival have one sample
rate. RFC 2198 asks for it and the code does not verify it; a RED packet that mixes
rates can leave, after its flush, a block for the old decoder in a signal of another rate.
`EmptyAgrees`: an empty packet comes first in its arrival and there is one type of
comfort noise, so that no empty packet flushes and then is refused, which
leaves the signal at the rate of what was flushed. TLC finds both counterexamples where the
arrivals allow them; `MCNetEq.cfg` satisfies both. Assumptions of the module: those of
`PacketList` and `NetEq`; `BoundAssumption` relates `Lead`, `Lag`, `Drift` and
the circle, and real streams satisfy it by orders of magnitude.

`NetEqProofs` has the delays of NetEq as well (`MCDelays`): `ProbabilitiesMakeOne` (`MassIsOne`), `RelativeDelayIsTrue`
(`RelativeDelayTrue`) and `LimitsStayOrdered` (`LimitsOrdered`), for any stream, window, buckets
and configuration. Sums over a histogram are functions that recur over its length; the lemmas
compare two of them element by element. Of the mass: forgetting takes less than one from
each bucket, the correction can take or give a sixteenth of each, and as there are a thirty-second of `One` buckets
at most, that is enough to give back the whole difference, whatever its sign (`CorrectMakesOne`); a change of the
packet length moves mass from bucket to bucket and drops none (`ScaledKeeps`). The
invariant is `Mass`.
Of the relative delay: `Linked` says that each element of the delay history is what one
lateness is more than the one before, and `Followed`, that the last lateness is
that of the packet whose number and time the manager remembers. Without `Followed` nothing
ties the next delay, which is made from numbers, timestamps and a stopwatch,
to the lateness of its packet; and it is lost at each event that the code lets break it
(a new length, an empty packet, a reset), where `lateness` begins anew. The sum that begins
anew below zero is then the distance to the least lateness so far
(`ScanFindsEarliest`). Of the limits: each setter looks at the others as they are, and the
bound that the packet length makes is never above a maximum that is set (`Limited`).
Assumption: `DelayAssumption` of `MCDelays`; it asks that the due times of a stream lie within half
the circle of timestamps, for the properties count them without wrapping, and that half of the
circle of numbers, in packets, is shorter still.

`EchoCanceller3Proofs` proves, for every fixed delay and queue size, `BuffersTyped`,
`CaptureIsDelayed` (`Spec => CaptureSpec`) and `RenderIsCut` (`Spec => RenderSpec`).
The invariant: blocker and framer of the capture side hold four units between them
after every frame, the blockers at most three, and none or two where frames
have two sub-frames. The step that begins a call rests on a fact about the
ring, passed in part or several times: the unit met at a position is the one
put there one turn ago, or what the ring held before the frame. The
step that ends it is concatenation: cutting a sub-frame and joining a block keep
what blocker and framer hold together. On the render side, the content of the
queue is one sequence of units, addressed by position (`UnitsIn`): an accepted
frame is put at its end (`UnitsPut`), one that is taken leaves at its front
(`UnitsTaken`), and `BufferRenderFrame` hands on a number of whole blocks from
the half block and the frame in this order (`RenderWhole`). `Cat`, `First` and `Rest` are names for
`\o` and `SubSeq`, which the provers are not to unfold. Assumptions:
`DelayAssumption`, `SubFrameAssumption`, `QueueAssumption`.

`BlockProcessorProofs` proves, for every size of the rings and every behaviour of
the delay controller, `IndicesInRange`, `RingsNeverLap` (`DistancesTrue`),
`RingsStayMirrored` and `DelayStaysApplied`. The argument is about what the rings cannot tell: the distance of two indices modulo the size
is the distance counted without going around (`unread`, `behind`), as long as
that stays below the size. Between the two the invariant keeps a link for each
ring: the read index is behind the write index by what history counted, or by
that less one turn. `WithinRings` is the assumption: the largest delay, with the headroom and
the lead of the capture side, fits the ring. `BlockProcessor.cfg` satisfies it;
`BlockProcessorExternal.cfg` does not, and there it fails.

`ThreadsProofs` has the theorems about what `MCThreads` runs, for every set of threads,
and, over the three together, `ThreadsTypeCorrect`.

* The lock, with every number of tries:
  `CriticalSectionTypes`, that it excludes (`CriticalSectionExcludes`) and
  that no waiter is forgotten (`NoLostSignal`). The invariant relates what no
  variable of the code tells: at most one thread
  holds the lock from its claim up to the last signal of its `Leave`; the counter
  is that claim, as often as it is nested, and the waiters; and the semaphore is
  signalled exactly when somebody waits and nobody holds.
* The event: `EventIsLatch`, the safety part of `EventSpec`. The invariant beside
  `TypeOK` is `ForeverAsked`: only a thread that asked for it waits without a
  limit, or is woken a second time.
* The trace log: `TraceLogKeeps` (`SessionLogged`). The invariant `LogInv` follows
  an event from the queue through the logging thread's own list into the file,
  and says of a tracer that has read the flag in an earlier session that it
  has one event to put at most. Assumptions: `LogAssumption`, and of the threads
  `ThreadAssumption`, `SpinAssumption`.

Only model-checked: of the parts, `TypesOK`, which conjoins the types of ten
components (those that the theorems need are proved with them); and the violations.
The liveness properties (`EnterReturns`, `StopReturns`, `AcceptedIsHeard`) are out of the
prover's reach.

## What is not modelled

* **Most of the lines of this repository.** It holds the extracted headers of
  WebRTC and abseil, the fixed point routines of `common_audio`, the codecs and
  vendored code: about nine tenths of it have no state of their own or are
  arithmetic on sample values. What is modelled is the control that is left.
* Signal processing: in NetEq (expand, merge, accelerate, preemptive expand,
  background noise, comfort noise synthesis), in AEC3 (adaptive filters,
  suppression, echo removal, matched filters up to the lag they report), in
  `common_audio` (FFT, resamplers, filter banks). Floating or fixed point
  arithmetic, whose properties are tolerances.
* Within NetEq: the muted state; `DecisionLogic`'s buffer levels
  (`buffer_level_filter.cc`), which only choose among operations all of which
  are allowed; `EnableNack`'s calls into `NackTracker`, which is checked on its
  own with a caller as `InsertPacketInternal` and `ExtractPackets` are, but not
  composed; the streaming mode of the delay peak detector and
  `DtmfBuffer::SetSampleRate`, which nothing turns on or calls;
  `TimestampScaler::ToExternal`, used for reports alone; `AudioMultiVector`,
  which does the same to each of its vectors.
* Within AEC3: the saturation flag and the level change, which pass through; the
  call jitter metrics, only logged; the contents of blocks and render activity.
* The queue item verifier of `SwapQueue`, which only asserts; the functions of
  `metrics.cc` for tests.
* Windows and macOS branches of the lock and the event, which call the system.
* Test programs (`rtp_receiver`, `nack_module`, `neteq_test`), except for the packetiser, and
  libraries that are not in the repository.

Three comments read while modelling are inexact, without a run that shows it:
that of the trace log on events of an earlier session (`EventLogger`, above); the
packetiser's header says the timestamp is the frame's, but the test program adds
3600 for every unit; and `number_of_primary_packets` counts RED copies as well,
which the comment at `neteq_impl.cc:655` does not say.

## Plan

Done: all modules above, with the runs of the table and the eight proof modules.

Left, in this order:

1. `NetEq` composed with `NackTracker`: the order of decoded packets under RED,
   which `NackTracker` takes as its caller's duty, and the two clocks of the
   timestamps given to it.
2. `DecisionLogic` with its buffer level filter, to tell which operations follow
   each other for ever and which cannot.
