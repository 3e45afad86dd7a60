--------------------------- MODULE BlockProcessor ---------------------------
(***************************************************************************)
(* aec3/block_processor.cc with its RenderDelayBuffer and the delay its    *)
(* RenderDelayController has settled on: blocks of the render signal come  *)
(* in through BufferRender, blocks of the captured one through             *)
(* ProcessCapture, in any order and in bursts of any length, as            *)
(* EchoCanceller3 hands them on.  What the delay estimator finds in the    *)
(* signals is open.                                                        *)
(***************************************************************************)
EXTENDS RenderDelayBuffer

CONSTANTS
  Estimates,      \* the delays the estimator can find, in blocks
  Reports,        \* the delays SetAudioBufferDelay can report, in blocks
  Estimators,     \* the values of use_external_delay_estimator
  MaxLead         \* bound on the difference of the call counters

ASSUME EstimateAssumption == Estimates \subseteq 0 .. LowSize - 1
ASSUME ReportAssumption == Reports \subseteq Nat
ASSUME EstimatorAssumption == Estimators \subseteq BOOLEAN /\ MaxLead \in Nat

VARIABLES
  use_external_delay_estimator,   \* of config_, never changes
  render_buffer,
  controller_delay,               \* delay_controller_->delay_
  render_event,
  render_properly_started, capture_properly_started

started == <<render_properly_started, capture_properly_started>>
vars == <<use_external_delay_estimator, render_buffer, controller_delay,
          render_event, started>>

Init ==
  /\ use_external_delay_estimator \in Estimators
  /\ render_buffer = NewBuffer
  /\ controller_delay = NoDelay
  /\ render_event = "kNone"
  /\ render_properly_started = FALSE
  /\ capture_properly_started = FALSE

\* The call counters are read with an external delay only; else they stay.
Counted(rb) ==
  IF use_external_delay_estimator THEN rb
                                  ELSE [rb EXCEPT !.lead = 0]

\* An overrun is kept for the next capture block, if no other render block
\* comes before it.
BufferRender ==
  LET done == Insert(render_buffer)
  IN  /\ render_buffer.lead < MaxLead
      /\ render_buffer' = Counted(done.buffer)
      /\ render_event' = done.event
      /\ render_properly_started' = TRUE
      /\ UNCHANGED <<use_external_delay_estimator, controller_delay,
                     capture_properly_started>>

\* GetDelay: the controller's delay stays, or is a new one.
GetDelay(known) ==
  IF use_external_delay_estimator THEN {known} ELSE {known} \cup Estimates

Aligned(rb, delay) ==
  CASE use_external_delay_estimator -> AlignFromExternalDelay(rb)
    [] ~use_external_delay_estimator /\ delay # NoDelay ->
         AlignFromDelay(rb, delay)
    [] OTHER -> rb

\* The first capture block after a render block starts afresh; a pending
\* overrun and an underrun reset the delay controller.
ProcessCapture ==
  LET first  == ~capture_properly_started
      buffer == IF first THEN Reset(render_buffer) ELSE render_buffer
      ready  == PrepareCaptureProcessing(buffer)
      known  == IF \/ first \/ render_event = "kRenderOverrun"
                   \/ ready.event = "kRenderUnderrun"
                  THEN NoDelay ELSE controller_delay
  IN  /\ render_properly_started
      /\ render_buffer.lead > -MaxLead
      /\ capture_properly_started' = TRUE
      /\ render_event' = "kNone"
      /\ controller_delay' \in GetDelay(known)
      /\ render_buffer' = Counted(Aligned(ready.buffer, controller_delay'))
      /\ UNCHANGED <<use_external_delay_estimator, render_properly_started>>

\* Without a render block the captured one is not processed.
ProcessCaptureTooEarly == ~render_properly_started /\ UNCHANGED vars

SetAudioBufferDelay(delay) ==
  /\ render_buffer' = [render_buffer EXCEPT !.external = delay]
  /\ UNCHANGED <<use_external_delay_estimator, controller_delay, render_event,
                 started>>

Next ==
  \/ BufferRender
  \/ ProcessCapture
  \/ ProcessCaptureTooEarly
  \/ \E delay \in Reports : SetAudioBufferDelay(delay)

Spec == Init /\ [][Next]_vars

-----------------------------------------------------------------------------
(* Properties *)

TypeOK ==
  /\ use_external_delay_estimator \in Estimators
  /\ {render_buffer.low_read, render_buffer.low_write} \subseteq 0 .. LowSize - 1
  /\ {render_buffer.read, render_buffer.write, render_buffer.spectra_read,
      render_buffer.spectra_write} \subseteq 0 .. Size - 1
  /\ {render_buffer.delay, controller_delay} \subseteq {NoDelay} \cup Nat
  /\ render_buffer.external \in {NoDelay} \cup Reports
  /\ render_buffer.min_latency \in 0 .. LowSize - 1
  /\ render_buffer.excess_counter \in 0 .. Interval - 1
  /\ render_buffer.lead \in -MaxLead .. MaxLead
  /\ render_event \in {"kNone", "kRenderOverrun"}
  /\ {render_properly_started, capture_properly_started} \subseteq BOOLEAN

\* No ring ever turns over unnoticed: the latency and the internal delay,
\* which the code reads off indices that go around, are the true numbers of
\* blocks, through bursts, drift, underruns and resets.
DistancesTrue ==
  /\ BufferLatency(render_buffer) = render_buffer.unread
  /\ ~use_external_delay_estimator
       => InternalDelay(render_buffer) = render_buffer.behind

\* blocks_ runs forwards and spectra_ backwards, and the filter is given both:
\* their read indices are equally far behind their write indices.
RingsMirrored ==
  (render_buffer.write - render_buffer.read) % Size
    = (render_buffer.spectra_read - render_buffer.spectra_write) % Size

\* A delay once found stays applied: while calls of either side come early or
\* late, the filter reads the block that is the delay away from the one the
\* estimator reads, unless the delay had not fitted into the buffer.
DelayApplied ==
  ~use_external_delay_estimator /\ render_buffer.delay # NoDelay
      /\ ~render_buffer.clamped
    => ComputeDelay(render_buffer) = render_buffer.delay

\* The assertions of OffsetIndex: with an external delay the total delay is
\* within the size of the rings.
OffsetIndexAssertion ==
  [][render_buffer'.lead < render_buffer.lead
         /\ render_buffer'.external # NoDelay
       => render_buffer'.lead + render_buffer'.external \in -Size .. Size]_vars
=============================================================================
