------------------------- MODULE RenderDelayBuffer -------------------------
(***************************************************************************)
(* aec3/render_delay_buffer.cc: the rings that hold the render signal, and *)
(* the operations on them.  blocks_ runs forwards; spectra_ (ffts_ does    *)
(* the same) and low_rate_ run backwards.  An index of low_rate_ is        *)
(* counted in sub-blocks, one for each block.                              *)
(*                                                                         *)
(* A buffer is a record of its indices, delays and counters.  unread and   *)
(* behind are history fields: how many blocks were inserted and not passed *)
(* by the low rate read index, and how many blocks the block read index    *)
(* lies behind the write index, counted without going around.  lead is the *)
(* difference of the two call counters; only their difference is used, and *)
(* only with an external delay.  Left out: what the blocks hold, the       *)
(* render activity, and the counters that are only logged.                 *)
(***************************************************************************)
EXTENDS Integers

CONSTANTS
  LowSize,        \* low_rate_.buffer.size(), in sub-blocks
  Headroom,       \* buffer_headroom_, the length of the adaptive filter
  DefaultDelay,   \* default_delay
  Interval,       \* excess_render_detection_interval_blocks
  MaxExcess       \* max_allowed_excess_render_blocks

ASSUME LowSizeAssumption == LowSize \in Nat /\ LowSize > 1
ASSUME HeadroomAssumption == Headroom \in Nat \ {0}
ASSUME DefaultAssumption == DefaultDelay \in 0 .. LowSize
ASSUME IntervalAssumption == Interval \in Nat \ {0} /\ MaxExcess \in Nat

Size == LowSize + Headroom + 1        \* GetRenderDelayBufferSize
MaxDelay == Size - 1 - Headroom
NoDelay == -1                         \* an absent optional delay

\* The remainder of the code's %, which has the sign of x.
Remainder(x, n) == IF x >= 0 THEN x % n ELSE -((-x) % n)
OffsetIndex(size, index, offset) == Remainder(size + index + offset, size)

\* Mutant: the wrap comes one index late.
IncIndexLate(size, index) == IF index < size THEN index + 1 ELSE 0

IncIndex(size, index) == IF index < size - 1 THEN index + 1 ELSE 0
DecIndex(size, index) == IF index > 0 THEN index - 1 ELSE size - 1

Smaller(a, b) == IF a <= b THEN a ELSE b
Larger(a, b) == IF a <= b THEN b ELSE a

-----------------------------------------------------------------------------
BufferLatency(rb) == (LowSize + rb.low_read - rb.low_write) % LowSize

\* How far the filter's read index is from the write index.
InternalDelay(rb) ==
  IF rb.spectra_read >= rb.spectra_write
    THEN rb.spectra_read - rb.spectra_write
    ELSE Size + rb.spectra_read - rb.spectra_write

ComputeDelay(rb) == InternalDelay(rb) - BufferLatency(rb)

\* Mutant: all rings are taken to run forwards.
ApplyForwards(rb, delay) ==
  [rb EXCEPT !.read = OffsetIndex(Size, rb.write, -delay),
             !.spectra_read = OffsetIndex(Size, rb.spectra_write, -delay),
             !.behind = delay]

ApplyTotalDelay(rb, delay) ==
  [rb EXCEPT !.read = OffsetIndex(Size, rb.write, -delay),
             !.spectra_read = OffsetIndex(Size, rb.spectra_write, delay),
             !.behind = delay]

\* The delay Reset takes from an external one, for two blocks of headroom.
ExternalTotal(external) ==
  Smaller(IF external <= 2 THEN 1 ELSE external - 2, MaxDelay)

Reset(rb) ==
  LET cleared == [rb EXCEPT !.min_latency = 0, !.excess_counter = 0,
                            !.low_read = OffsetIndex(LowSize, rb.low_write, 1),
                            !.unread = 1, !.clamped = FALSE]
      external == ApplyTotalDelay(cleared, ExternalTotal(rb.external))
  IN  IF rb.external # NoDelay
        THEN [external EXCEPT !.delay = ComputeDelay(external)]
        ELSE [ApplyTotalDelay(cleared, DefaultDelay) EXCEPT !.delay = NoDelay]

NewBuffer ==
  Reset([low_read |-> 0, low_write |-> 0, read |-> 0, write |-> 0,
         spectra_read |-> 0, spectra_write |-> 0, delay |-> DefaultDelay,
         external |-> NoDelay, min_latency |-> 0, excess_counter |-> 0,
         lead |-> 0, unread |-> 0, behind |-> 0, clamped |-> FALSE])

-----------------------------------------------------------------------------
(* Insert *)

IncrementWriteIndices(rb) ==
  [rb EXCEPT !.low_write = OffsetIndex(LowSize, @, -1),
             !.write = IncIndex(Size, @),
             !.spectra_write = DecIndex(Size, @),
             !.unread = @ + 1, !.behind = @ + 1]

\* Mutant: only the ring of blocks is looked at.
OverrunOfBlocks(rb) == rb.read = rb.write

RenderOverrun(rb) == rb.low_read = rb.low_write \/ rb.read = rb.write

\* A block is inserted even when the indices meet; then the buffer is reset.
Insert(rb) ==
  LET written == [IncrementWriteIndices(rb) EXCEPT !.lead = @ + 1]
  IN  IF RenderOverrun(written)
        THEN [buffer |-> Reset(written), event |-> "kRenderOverrun"]
        ELSE [buffer |-> written, event |-> "kNone"]

-----------------------------------------------------------------------------
(* PrepareCaptureProcessing *)

IncrementLowRateReadIndices(rb) ==
  [rb EXCEPT !.low_read = OffsetIndex(LowSize, @, -1), !.unread = @ - 1]

IncrementReadIndices(rb) ==
  IF rb.read # rb.write
    THEN [rb EXCEPT !.read = IncIndex(Size, @),
                    !.spectra_read = DecIndex(Size, @),
                    !.behind = @ - 1]
    ELSE rb

\* The least latency seen since the last check, and whether, at the end of an
\* interval, it is more than is allowed.
DetectExcessRenderBlocks(rb) ==
  LET least == Smaller(rb.min_latency, BufferLatency(rb))
      due   == rb.excess_counter + 1 >= Interval
  IN  [found  |-> due /\ least > MaxExcess,
       buffer |-> [rb EXCEPT
                     !.min_latency = IF due THEN BufferLatency(rb) ELSE least,
                     !.excess_counter = IF due THEN 0 ELSE @ + 1]]

RenderUnderrun(rb) == rb.low_read = rb.low_write

\* Mutant: the delay is not told of the underrun.
UnderrunDelayKept(rb) == IncrementReadIndices(rb)

\* The filter's read index goes on alone, so the delay is one less.
Underrun(rb) ==
  [IncrementReadIndices(rb) EXCEPT
     !.delay = IF @ # NoDelay /\ @ > 0 THEN @ - 1 ELSE @]

PrepareCaptureProcessing(rb) ==
  LET excess == DetectExcessRenderBlocks([rb EXCEPT !.lead = @ - 1])
  IN  CASE excess.found ->
             [buffer |-> Reset(excess.buffer), event |-> "kRenderOverrun"]
        [] ~excess.found /\ RenderUnderrun(rb) ->
             [buffer |-> Underrun(excess.buffer), event |-> "kRenderUnderrun"]
        [] OTHER ->
             [buffer |-> IncrementReadIndices(
                           IncrementLowRateReadIndices(excess.buffer)),
              event |-> "kNone"]

-----------------------------------------------------------------------------
(* Alignment *)

\* The total delay is kept within the buffer; delay_ is not.
AlignFromDelay(rb, delay) ==
  LET total == BufferLatency(rb) + delay
      bounded == Smaller(MaxDelay, Larger(total, 0))
  IN  IF rb.delay = delay THEN rb
      ELSE ApplyTotalDelay([rb EXCEPT !.delay = delay,
                                      !.clamped = bounded # total], bounded)

AlignFromExternalDelay(rb) ==
  IF rb.external = NoDelay THEN rb ELSE ApplyTotalDelay(rb, rb.lead + rb.external)
=============================================================================
