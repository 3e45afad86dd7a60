------------------------ MODULE BlockProcessorProofs ------------------------
(***************************************************************************)
(* The rings of render_delay_buffer.cc for every size, every headroom and  *)
(* every order of render and capture blocks.  The invariant tells each     *)
(* distance without going around: the read index of a ring is behind its   *)
(* write index by what the history counted, or by that less one turn.      *)
(***************************************************************************)
EXTENDS BlockProcessor, TLAPS

\* The external delays, where they are in use, fit into the rings with
\* whatever the call counters add to them.
WithinRings ==
  TRUE \in Estimators => MaxLead <= Size /\ \A r \in Reports : r + MaxLead <= Size

Buffer ==
  [low_read : 0 .. LowSize - 1, low_write : 0 .. LowSize - 1,
   read : 0 .. Size - 1, write : 0 .. Size - 1,
   spectra_read : 0 .. Size - 1, spectra_write : 0 .. Size - 1,
   delay : {NoDelay} \cup Nat, external : {NoDelay} \cup Reports,
   min_latency : 0 .. LowSize - 1, excess_counter : 0 .. Interval - 1,
   lead : Int, unread : Int, behind : Int, clamped : BOOLEAN]

Latent(rb) ==
  /\ rb.unread \in 0 .. LowSize - 1
  /\ rb.low_read - rb.low_write \in {rb.unread, rb.unread - LowSize}

Mirrored(rb) ==
  (rb.read - rb.write) + (rb.spectra_read - rb.spectra_write) \in {-Size, 0, Size}

Distant(rb) ==
  /\ rb.behind \in 0 .. Size - 1
  /\ rb.write - rb.read \in {rb.behind, rb.behind - Size}
  /\ rb.spectra_read - rb.spectra_write \in {rb.behind, rb.behind - Size}

Applied(rb) ==
  rb.delay # NoDelay /\ ~rb.clamped => rb.behind = rb.unread + rb.delay

\* What holds of the buffer between two operations, and between the steps of
\* one; with the own estimator the true distances are known as well.
Sound(rb) == rb \in Buffer /\ Latent(rb) /\ Mirrored(rb)
Exact(rb) == Sound(rb) /\ Distant(rb) /\ Applied(rb)

Inv ==
  /\ TypeOK
  /\ Sound(render_buffer)
  /\ ~use_external_delay_estimator
       => Exact(render_buffer) /\ render_buffer.lead = 0
  /\ controller_delay \in {NoDelay} \cup 0 .. LowSize - 1

-----------------------------------------------------------------------------
(* Arithmetic on a ring. *)

LEMMA Sizes ==
  /\ LowSize \in Nat /\ LowSize > 1
  /\ Size \in Nat /\ Size > LowSize + 1
  /\ MaxDelay = LowSize
  BY LowSizeAssumption, HeadroomAssumption DEF Size, MaxDelay

\* What % gives within three turns of a ring.
LEMMA Turns ==
  ASSUME NEW n \in Nat \ {0}, NEW x \in 0 .. 3 * n - 1
  PROVE  /\ x % n \in 0 .. n - 1
         /\ x % n \in {x, x - n, x - 2 * n}
<1>1. x % n \in 0 .. n - 1 /\ x = n * (x \div n) + (x % n)
  OBVIOUS
<1> DEFINE q == x \div n
<1>2. q \in Int
  OBVIOUS
<1>3. q \in 0 .. 2
  <2>1. CASE q < 0
    <3>1. n * q <= n * (-1)
      BY <2>1, <1>2
    <3> QED
      BY <3>1, <1>1
  <2>2. CASE q > 2
    <3>1. n * q >= n * 3
      BY <2>2, <1>2
    <3> QED
      BY <3>1, <1>1
  <2> QED
    BY <2>1, <2>2, <1>2
<1> QED
  BY <1>1, <1>3

\* An offset of at most one turn leaves an index in the ring.
LEMMA OffsetOnRing ==
  ASSUME NEW n \in Nat \ {0}, NEW i \in 0 .. n - 1, NEW d \in -n .. n
  PROVE  /\ OffsetIndex(n, i, d) \in 0 .. n - 1
         /\ OffsetIndex(n, i, d) - i \in {d, d - n, d + n}
<1>1. n + i + d \in 0 .. 3 * n - 1
  OBVIOUS
<1>2. OffsetIndex(n, i, d) = (n + i + d) % n
  BY <1>1 DEF OffsetIndex, Remainder
<1>3. /\ (n + i + d) % n \in 0 .. n - 1
      /\ (n + i + d) % n \in {n + i + d, i + d, i + d - n}
  <2> DEFINE x == n + i + d
  <2>1. x \in 0 .. 3 * n - 1
    BY <1>1
  <2> HIDE DEF x
  <2>2. x % n \in 0 .. n - 1 /\ x % n \in {x, x - n, x - 2 * n}
    BY <2>1, Turns
  <2> QED
    BY <2>2 DEF x
<1> QED
  BY <1>2, <1>3

\* Two distances that are equal up to one turn are equal modulo the size.
LEMMA SameModulo ==
  ASSUME NEW n \in Nat \ {0}, NEW x \in -n .. n, NEW y \in -n .. n,
         x - y \in {-n, 0, n}
  PROVE  x % n = y % n
<1>1. \A z \in -n .. n : z % n \in 0 .. n - 1 /\ z % n \in {z, z - n, z + n}
  <2> SUFFICES ASSUME NEW z \in -n .. n
               PROVE  z % n \in 0 .. n - 1 /\ z % n \in {z, z - n, z + n}
    OBVIOUS
  <2> DEFINE q == z \div n
  <2>1. z % n \in 0 .. n - 1 /\ z = n * q + (z % n) /\ q \in Int
    OBVIOUS
  <2> HIDE DEF q
  <2>2. CASE q >= 2
    <3>1. n * q >= n * 2
      BY <2>1, <2>2
    <3> QED
      BY <2>1, <3>1
  <2>3. CASE q <= -2
    <3>1. n * q <= n * (-2)
      BY <2>1, <2>3
    <3> QED
      BY <2>1, <3>1
  <2>4. CASE q \in {-1, 0, 1}
    BY <2>1, <2>4
  <2> QED
    BY <2>1, <2>2, <2>3, <2>4
<1>2. \A z \in -n .. n : z % n \in Int
  BY <1>1
<1> QED
  BY <1>1, <1>2

\* One ring moves forwards and the other backwards, at the write indices or
\* at the read indices.
LEMMA MirroredStep ==
  ASSUME NEW n \in Nat \ {0}, NEW a \in 0 .. n - 1, NEW b \in 0 .. n - 1,
         NEW c \in 0 .. n - 1, NEW d \in 0 .. n - 1, (a - b) + (c - d) \in {-n, 0, n}
  PROVE  /\ (a - IncIndex(n, b)) + (c - DecIndex(n, d)) \in {-n, 0, n}
         /\ (IncIndex(n, a) - b) + (DecIndex(n, c) - d) \in {-n, 0, n}
  BY DEF IncIndex, DecIndex

\* An index b that is k ahead of a, less a turn perhaps, and a step of either.
LEMMA AheadStep ==
  ASSUME NEW n \in Nat \ {0}, NEW a \in 0 .. n - 1, NEW b \in 0 .. n - 1,
         NEW k \in 0 .. n - 1, b - a \in {k, k - n}
  PROVE  /\ a = b <=> k = 0
         /\ k > 0 => /\ b - IncIndex(n, a) \in {k - 1, k - 1 - n}
                     /\ DecIndex(n, b) - a \in {k - 1, k - 1 - n}
  BY DEF IncIndex, DecIndex

-----------------------------------------------------------------------------
(* What the operations that apply a delay make of a buffer. *)

\* A delay within one turn, of either sign, leaves the rings mirrored.
LEMMA ApplyKeepsSound ==
  ASSUME NEW rb, Sound(rb), NEW d \in -Size .. Size
  PROVE  /\ Sound(ApplyTotalDelay(rb, d))
         /\ ApplyTotalDelay(rb, d).lead = rb.lead
         /\ ApplyTotalDelay(rb, d).external = rb.external
<1> DEFINE new == ApplyTotalDelay(rb, d)
<1>1. /\ new.read = OffsetIndex(Size, rb.write, -d)
      /\ new.spectra_read = OffsetIndex(Size, rb.spectra_write, d)
      /\ new.behind = d
      /\ new.write = rb.write /\ new.spectra_write = rb.spectra_write
      /\ new.low_read = rb.low_read /\ new.low_write = rb.low_write
      /\ new.unread = rb.unread
  BY DEF ApplyTotalDelay, Sound, Buffer
<1>2. /\ rb.write \in 0 .. Size - 1 /\ rb.spectra_write \in 0 .. Size - 1
      /\ Size \in Nat \ {0} /\ -d \in -Size .. Size
  BY Sizes DEF Sound, Buffer
<1>3. /\ new.read \in 0 .. Size - 1
      /\ new.read - rb.write \in {-d, -d - Size, -d + Size}
  BY <1>1, <1>2, OffsetOnRing
<1>4. /\ new.spectra_read \in 0 .. Size - 1
      /\ new.spectra_read - rb.spectra_write \in {d, d - Size, d + Size}
  BY <1>1, <1>2, OffsetOnRing
<1>5. new \in Buffer
  <2>1. rb \in Buffer /\ d \in Int
    BY Sizes DEF Sound
  <2>2. new = [rb EXCEPT !.read = new.read, !.spectra_read = new.spectra_read,
                         !.behind = d]
    BY <1>1 DEF ApplyTotalDelay
  <2> QED
    BY <1>3, <1>4, <2>1, <2>2 DEF Buffer
<1>6. Mirrored(new)
  BY <1>1, <1>2, <1>3, <1>4 DEF Mirrored
<1>7. Latent(new)
  BY <1>1 DEF Sound, Latent
<1> QED
  BY <1>5, <1>6, <1>7 DEF Sound, ApplyTotalDelay, Buffer

\* A delay within the buffer leaves the distances known.
LEMMA ApplyKeepsDistance ==
  ASSUME NEW rb, Sound(rb), NEW d \in 0 .. Size - 1
  PROVE  Distant(ApplyTotalDelay(rb, d))
<1> DEFINE new == ApplyTotalDelay(rb, d)
<1>1. /\ new.read = OffsetIndex(Size, rb.write, -d)
      /\ new.spectra_read = OffsetIndex(Size, rb.spectra_write, d)
      /\ new.behind = d
      /\ new.write = rb.write /\ new.spectra_write = rb.spectra_write
  BY DEF ApplyTotalDelay, Sound, Buffer
<1>2. /\ rb.write \in 0 .. Size - 1 /\ rb.spectra_write \in 0 .. Size - 1
      /\ Size \in Nat \ {0} /\ d \in -Size .. Size /\ -d \in -Size .. Size
  BY Sizes DEF Sound, Buffer
<1>3. /\ new.read \in 0 .. Size - 1
      /\ new.read - rb.write \in {-d, -d - Size, -d + Size}
  BY <1>1, <1>2, OffsetOnRing
<1>4. /\ new.spectra_read \in 0 .. Size - 1
      /\ new.spectra_read - rb.spectra_write \in {d, d - Size, d + Size}
  BY <1>1, <1>2, OffsetOnRing
<1> QED
  BY <1>1, <1>2, <1>3, <1>4 DEF Distant

\* Where the distance is known, InternalDelay reads it off the indices; the
\* latency is read off those of low_rate_.
LEMMA InternalDelayTrue ==
  ASSUME NEW rb, Sound(rb), Distant(rb)
  PROVE  InternalDelay(rb) = rb.behind
  BY Sizes DEF Sound, Buffer, Distant, InternalDelay

LEMMA LatencyTrue ==
  ASSUME NEW rb, Sound(rb)
  PROVE  BufferLatency(rb) = rb.unread
<1> DEFINE x == LowSize + rb.low_read - rb.low_write
<1>1. /\ rb.unread \in 0 .. LowSize - 1 /\ LowSize \in Nat \ {0}
      /\ x \in {rb.unread, rb.unread + LowSize}
  BY Sizes DEF Sound, Buffer, Latent
<1> HIDE DEF x
<1>2. x % LowSize \in 0 .. LowSize - 1 /\ x % LowSize \in {x, x - LowSize, x - 2 * LowSize}
  <2>1. x \in 0 .. 3 * LowSize - 1
    BY <1>1
  <2> QED
    BY <1>1, <2>1, Turns
<1>3. x % LowSize = rb.unread
  BY <1>1, <1>2
<1> QED
  BY <1>3 DEF BufferLatency, x

-----------------------------------------------------------------------------
(* The operations of the buffer. *)



\* A reset forgets everything before it: whatever was known of the distances,
\* they are known afterwards.  Of low_rate_ only the write index is read.
LEMMA ResetIsExact ==
  ASSUME NEW rb \in Buffer, Mirrored(rb)
  PROVE  /\ Exact(Reset(rb))
         /\ Reset(rb).lead = rb.lead
         /\ Reset(rb).external = rb.external
<1> DEFINE low == OffsetIndex(LowSize, rb.low_write, 1)
           cleared == [rb EXCEPT !.min_latency = 0, !.excess_counter = 0,
                                 !.low_read = low, !.unread = 1, !.clamped = FALSE]
<1>1. low \in 0 .. LowSize - 1 /\ low - rb.low_write \in {1, 1 - LowSize}
  <2>1. low \in 0 .. LowSize - 1 /\ low - rb.low_write \in {1, 1 - LowSize, 1 + LowSize}
    <3>1. LowSize \in Nat \ {0} /\ rb.low_write \in 0 .. LowSize - 1 /\ 1 \in -LowSize .. LowSize
      BY Sizes DEF Buffer
    <3> HIDE DEF low
    <3> QED
      BY <3>1, OffsetOnRing DEF low
  <2>2. rb.low_write \in 0 .. LowSize - 1
    BY DEF Buffer
  <2> HIDE DEF low
  <2> QED
    BY <2>1, <2>2, Sizes
<1> HIDE DEF low
<1>2. Sound(cleared) /\ ~cleared.clamped /\ cleared.unread = 1
  <2>1. cleared \in Buffer
    <3>1. 0 \in 0 .. LowSize - 1 /\ 0 \in 0 .. Interval - 1 /\ 1 \in Int
      BY Sizes, IntervalAssumption
    <3> QED
      BY <1>1, <3>1, Zenon DEF Buffer
  <2>2. /\ cleared.low_read = low /\ cleared.low_write = rb.low_write
        /\ cleared.unread = 1 /\ ~cleared.clamped
        /\ cleared.read = rb.read /\ cleared.write = rb.write
        /\ cleared.spectra_read = rb.spectra_read
        /\ cleared.spectra_write = rb.spectra_write
    BY DEF Buffer
  <2> QED
    BY <1>1, <2>1, <2>2, Sizes DEF Sound, Latent, Mirrored
<1>3. cleared.lead = rb.lead /\ cleared.external = rb.external
  BY DEF Buffer
<1> HIDE DEF cleared
<1>4. ASSUME NEW d \in 0 .. MaxDelay
      PROVE  LET new == ApplyTotalDelay(cleared, d)
             IN  /\ Sound(new) /\ Distant(new) /\ new.behind = d /\ new.unread = 1
                 /\ new.lead = rb.lead /\ new.external = rb.external
  <2>1. d \in 0 .. Size - 1 /\ d \in -Size .. Size
    BY Sizes
  <2>2. ApplyTotalDelay(cleared, d).behind = d /\ ApplyTotalDelay(cleared, d).unread = 1
    BY <1>2 DEF ApplyTotalDelay, Sound, Buffer
  <2> QED
    BY <1>2, <1>3, <2>1, <2>2, ApplyKeepsSound, ApplyKeepsDistance
<1>5. CASE rb.external # NoDelay
  <2> DEFINE new == ApplyTotalDelay(cleared, ExternalTotal(rb.external))
             total == ExternalTotal(rb.external)
  <2>1. total \in 1 .. MaxDelay
    <3>1. rb.external \in Nat
      BY <1>5, ReportAssumption DEF Buffer
    <3> QED
      BY <3>1, Sizes DEF ExternalTotal, Smaller
  <2>2. /\ Sound(new) /\ Distant(new) /\ new.behind = total /\ new.unread = 1
        /\ new.lead = rb.lead /\ new.external = rb.external
    BY <1>4, <2>1
  <2>3. ComputeDelay(new) = total - 1
    BY <2>2, InternalDelayTrue, LatencyTrue DEF ComputeDelay
  <2>4. Reset(rb) = [new EXCEPT !.delay = total - 1]
    BY <1>5, <2>3 DEF Reset, cleared, low
  <2> HIDE DEF new, total
  <2>5. total - 1 \in {NoDelay} \cup Nat
    BY <2>1, Sizes
  <2> QED
    BY <2>1, <2>2, <2>4, <2>5, Sizes
       DEF Exact, Sound, Buffer, Latent, Mirrored, Distant, Applied
<1>6. CASE rb.external = NoDelay
  <2> DEFINE new == ApplyTotalDelay(cleared, DefaultDelay)
  <2>1. /\ Sound(new) /\ Distant(new) /\ new.behind = DefaultDelay /\ new.unread = 1
        /\ new.lead = rb.lead /\ new.external = rb.external
    BY <1>4, Sizes, DefaultAssumption
  <2>2. Reset(rb) = [new EXCEPT !.delay = NoDelay]
    BY <1>6 DEF Reset, cleared, low
  <2> HIDE DEF new
  <2> QED
    BY <2>1, <2>2
       DEF Exact, Sound, Buffer, Latent, Mirrored, Distant, Applied
<1> QED
  BY <1>5, <1>6

\* The write indices move on, and what they meet is overrun; else the true
\* distances are one more.
LEMMA InsertKeeps ==
  ASSUME NEW rb, Sound(rb)
  PROVE  /\ Sound(Insert(rb).buffer)
         /\ Exact(rb) => Exact(Insert(rb).buffer)
         /\ Insert(rb).buffer.lead = rb.lead + 1
         /\ Insert(rb).event \in {"kNone", "kRenderOverrun"}
<1> DEFINE low == OffsetIndex(LowSize, rb.low_write, -1)
           write == IncIndex(Size, rb.write)
           spectra == DecIndex(Size, rb.spectra_write)
           new == [rb EXCEPT !.low_write = low, !.write = write, !.spectra_write = spectra,
                             !.unread = rb.unread + 1, !.behind = rb.behind + 1,
                             !.lead = rb.lead + 1]
<1>1. low \in 0 .. LowSize - 1 /\ low - rb.low_write \in {-1, LowSize - 1}
  <2>1. /\ LowSize \in Nat \ {0} /\ rb.low_write \in 0 .. LowSize - 1
        /\ -1 \in -LowSize .. LowSize
    BY Sizes DEF Sound, Buffer
  <2> HIDE DEF low
  <2>2. low \in 0 .. LowSize - 1 /\ low - rb.low_write \in {-1, -1 - LowSize, -1 + LowSize}
    BY <2>1, OffsetOnRing DEF low
  <2> QED
    BY <2>1, <2>2
<1>2. write \in 0 .. Size - 1 /\ write - rb.write \in {1, 1 - Size}
  BY Sizes DEF Sound, Buffer, IncIndex
<1>3. spectra \in 0 .. Size - 1 /\ spectra - rb.spectra_write \in {-1, Size - 1}
  BY Sizes DEF Sound, Buffer, DecIndex
<1>4. Insert(rb) = IF RenderOverrun(new)
                     THEN [buffer |-> Reset(new), event |-> "kRenderOverrun"]
                     ELSE [buffer |-> new, event |-> "kNone"]
  <2>1. [IncrementWriteIndices(rb) EXCEPT !.lead = @ + 1] = new
    BY DEF IncrementWriteIndices, Sound, Buffer
  <2> HIDE DEF new
  <2> QED
    BY <2>1 DEF Insert
<1> HIDE DEF low, write, spectra
<1>5. new \in Buffer
  <2>1. /\ rb \in Buffer
        /\ rb.unread + 1 \in Int /\ rb.behind + 1 \in Int /\ rb.lead + 1 \in Int
    BY DEF Sound, Buffer
  <2> QED
    BY <1>1, <1>2, <1>3, <2>1, Zenon DEF Buffer
<1>6. /\ new.low_read = rb.low_read /\ new.low_write = low
      /\ new.read = rb.read /\ new.write = write
      /\ new.spectra_read = rb.spectra_read /\ new.spectra_write = spectra
      /\ new.unread = rb.unread + 1 /\ new.behind = rb.behind + 1
      /\ new.lead = rb.lead + 1 /\ new.delay = rb.delay /\ new.clamped = rb.clamped
  BY DEF Sound, Buffer
<1> HIDE DEF new
<1>7. Mirrored(new)
  <2>1. /\ rb.read \in 0 .. Size - 1 /\ rb.write \in 0 .. Size - 1
        /\ rb.spectra_read \in 0 .. Size - 1 /\ rb.spectra_write \in 0 .. Size - 1
        /\ (rb.read - rb.write) + (rb.spectra_read - rb.spectra_write) \in {-Size, 0, Size}
    BY DEF Sound, Buffer, Mirrored
  <2>2. (rb.read - write) + (rb.spectra_read - spectra) \in {-Size, 0, Size}
    <3>1. Size \in Nat \ {0}
      BY Sizes
    <3>2. /\ (rb.read - IncIndex(Size, rb.write))
                + (rb.spectra_read - DecIndex(Size, rb.spectra_write)) \in {-Size, 0, Size}
      BY <2>1, <3>1, MirroredStep
    <3> QED
      BY <3>2 DEF write, spectra
  <2> QED
    BY <1>6, <2>2 DEF Mirrored
<1>8. CASE RenderOverrun(new)
  BY <1>4, <1>5, <1>6, <1>7, <1>8, ResetIsExact DEF Exact
<1>9. CASE ~RenderOverrun(new)
  <2>1. Latent(new)
    BY <1>1, <1>5, <1>6, <1>9, Sizes DEF RenderOverrun, Sound, Buffer, Latent
  <2>2. ASSUME Exact(rb) PROVE Distant(new)
    BY <1>2, <1>3, <1>5, <1>6, <1>9, <2>2, Sizes
       DEF RenderOverrun, Exact, Sound, Buffer, Distant
  <2>3. ASSUME Exact(rb) PROVE Applied(new)
    BY <1>5, <1>6, <2>3 DEF Exact, Sound, Applied, Buffer
  <2> QED
    BY <1>4, <1>5, <1>6, <1>7, <1>9, <2>1, <2>2, <2>3 DEF Sound, Exact
<1> QED
  BY <1>8, <1>9

LEMMA ReadKeeps ==
  ASSUME NEW rb, Sound(rb)
  PROVE  LET new == IncrementReadIndices(rb)
         IN  /\ Sound(new)
             /\ new.lead = rb.lead /\ new.low_read = rb.low_read
             /\ new.low_write = rb.low_write /\ new.unread = rb.unread
             /\ new.delay = rb.delay /\ new.clamped = rb.clamped
             /\ Distant(rb) => /\ Distant(new)
                               /\ new.behind = IF rb.behind > 0 THEN rb.behind - 1 ELSE 0
<1> DEFINE read == IncIndex(Size, rb.read)
           spectra == DecIndex(Size, rb.spectra_read)
           new == [rb EXCEPT !.read = read, !.spectra_read = spectra,
                             !.behind = rb.behind - 1]
<1>1. CASE rb.read # rb.write
  <2>1. IncrementReadIndices(rb) = new
    BY <1>1 DEF IncrementReadIndices
  <2>2. read \in 0 .. Size - 1 /\ read - rb.read \in {1, 1 - Size}
    BY Sizes DEF Sound, Buffer, IncIndex
  <2>3. spectra \in 0 .. Size - 1 /\ spectra - rb.spectra_read \in {-1, Size - 1}
    BY Sizes DEF Sound, Buffer, DecIndex
  <2>4. /\ rb.read \in 0 .. Size - 1 /\ rb.write \in 0 .. Size - 1
        /\ rb.spectra_read \in 0 .. Size - 1 /\ rb.spectra_write \in 0 .. Size - 1
        /\ (rb.read - rb.write) + (rb.spectra_read - rb.spectra_write) \in {-Size, 0, Size}
        /\ rb.behind - 1 \in Int
    BY DEF Sound, Buffer, Mirrored
  <2>5. (read - rb.write) + (spectra - rb.spectra_write) \in {-Size, 0, Size}
    BY <2>4, MirroredStep, Sizes
  <2> HIDE DEF read, spectra
  <2>6. new \in Buffer
    BY <2>2, <2>3, <2>4, Zenon DEF Sound, Buffer
  <2>7. /\ new.low_read = rb.low_read /\ new.low_write = rb.low_write
        /\ new.read = read /\ new.write = rb.write
        /\ new.spectra_read = spectra /\ new.spectra_write = rb.spectra_write
        /\ new.unread = rb.unread /\ new.behind = rb.behind - 1
        /\ new.lead = rb.lead /\ new.delay = rb.delay /\ new.clamped = rb.clamped
    BY DEF Sound, Buffer
  <2> HIDE DEF new
  <2>8. Sound(new)
    BY <2>5, <2>6, <2>7 DEF Sound, Latent, Mirrored
  <2>9. ASSUME Distant(rb) PROVE Distant(new) /\ rb.behind > 0
    <3>1. /\ rb.behind \in 0 .. Size - 1
          /\ rb.write - rb.read \in {rb.behind, rb.behind - Size}
          /\ rb.spectra_read - rb.spectra_write \in {rb.behind, rb.behind - Size}
      BY <2>9 DEF Distant
    <3>2. Size \in Nat \ {0}
      BY Sizes
    <3>3. rb.behind > 0 /\ rb.write - read \in {rb.behind - 1, rb.behind - 1 - Size}
      BY <1>1, <2>4, <3>1, <3>2, AheadStep DEF read
    <3>4. spectra - rb.spectra_write \in {rb.behind - 1, rb.behind - 1 - Size}
      BY <2>4, <3>1, <3>2, <3>3, AheadStep DEF spectra
    <3> QED
      BY <2>7, <3>1, <3>2, <3>3, <3>4 DEF Distant
  <2> QED
    BY <2>1, <2>7, <2>8, <2>9
<1>2. CASE rb.read = rb.write
  <2>1. IncrementReadIndices(rb) = rb
    BY <1>2 DEF IncrementReadIndices
  <2>2. ASSUME Distant(rb) PROVE rb.behind = 0
    <3>1. /\ rb.behind \in 0 .. Size - 1 /\ rb.write - rb.read \in {rb.behind, rb.behind - Size}
          /\ rb.write - rb.read = 0
      BY <1>2, <2>2 DEF Distant, Sound, Buffer
    <3> QED
      BY <3>1, Sizes
  <2> QED
    BY <2>1, <2>2
<1> QED
  BY <1>1, <1>2

\* The check for excess render blocks touches no index.
LEMMA DetectKeeps ==
  ASSUME NEW rb, Sound(rb)
  PROVE  LET new == DetectExcessRenderBlocks([rb EXCEPT !.lead = @ - 1]).buffer
         IN  /\ Sound(new)
             /\ Exact(rb) => Exact(new)
             /\ new.lead = rb.lead - 1
             /\ new.low_read = rb.low_read /\ new.low_write = rb.low_write
<1> DEFINE counted == [rb EXCEPT !.lead = @ - 1]
           new == DetectExcessRenderBlocks(counted).buffer
<1>1. Sound(counted)
  BY DEF Sound, Buffer, Latent, Mirrored
<1>2. BufferLatency(counted) \in 0 .. LowSize - 1
  BY <1>1, LatencyTrue DEF Sound, Latent
<1>3. PICK least \in 0 .. LowSize - 1, count \in 0 .. Interval - 1 :
        new = [counted EXCEPT !.min_latency = least, !.excess_counter = count]
  <2> DEFINE latency == BufferLatency(counted)
             least == Smaller(counted.min_latency, latency)
             due == counted.excess_counter + 1 >= Interval
  <2>1. new = [counted EXCEPT
                 !.min_latency = IF due THEN latency ELSE least,
                 !.excess_counter = IF due THEN 0 ELSE counted.excess_counter + 1]
    BY DEF DetectExcessRenderBlocks
  <2>2. least \in 0 .. LowSize - 1
    BY <1>1, <1>2 DEF Smaller, Sound, Buffer
  <2>3. (IF due THEN 0 ELSE counted.excess_counter + 1) \in 0 .. Interval - 1
    BY <1>1, IntervalAssumption DEF Sound, Buffer
  <2> HIDE DEF counted, new, latency, least, due
  <2> QED
    BY <1>2, <2>1, <2>2, <2>3 DEF latency
<1> HIDE DEF new
<1>4. new \in Buffer
  BY <1>1, <1>3, Zenon DEF Sound, Buffer
<1>5. /\ new.low_read = rb.low_read /\ new.low_write = rb.low_write
      /\ new.read = rb.read /\ new.write = rb.write
      /\ new.spectra_read = rb.spectra_read /\ new.spectra_write = rb.spectra_write
      /\ new.unread = rb.unread /\ new.behind = rb.behind
      /\ new.lead = rb.lead - 1 /\ new.delay = rb.delay /\ new.clamped = rb.clamped
  BY <1>3 DEF Sound, Buffer
<1> QED
  BY <1>4, <1>5 DEF Exact, Sound, Latent, Mirrored, Distant, Applied, new, counted

\* An underrun takes one from the delay, with the block it takes from the
\* filter's rings alone.
LEMMA UnderrunKeeps ==
  ASSUME NEW rb, Sound(rb), RenderUnderrun(rb)
  PROVE  /\ Sound(Underrun(rb))
         /\ Exact(rb) => Exact(Underrun(rb))
         /\ Underrun(rb).lead = rb.lead
<1> DEFINE read == IncrementReadIndices(rb)
           delay == IF read.delay # NoDelay /\ read.delay > 0
                      THEN read.delay - 1 ELSE read.delay
           new == [read EXCEPT !.delay = delay]
<1>1. Underrun(rb) = new
  BY DEF Underrun
<1>2. /\ Sound(read) /\ read.lead = rb.lead /\ read.unread = rb.unread
      /\ read.delay = rb.delay /\ read.clamped = rb.clamped
      /\ Distant(rb) => /\ Distant(read)
                        /\ read.behind = IF rb.behind > 0 THEN rb.behind - 1 ELSE 0
  BY ReadKeeps
<1>3. rb.unread = 0
  <2>1. /\ rb.unread \in 0 .. LowSize - 1 /\ rb.low_read - rb.low_write = 0
        /\ rb.low_read - rb.low_write \in {rb.unread, rb.unread - LowSize}
    BY DEF RenderUnderrun, Sound, Buffer, Latent
  <2> QED
    BY <2>1, Sizes
<1> HIDE DEF read
<1>4. read.delay \in {NoDelay} \cup Nat /\ NoDelay = -1
  BY <1>2 DEF Sound, Buffer, NoDelay
<1>5. delay \in {NoDelay} \cup Nat
  BY <1>4
<1> HIDE DEF delay
<1>6. new \in Buffer
  BY <1>2, <1>5, Zenon DEF Sound, Buffer
<1>7. /\ new.low_read = read.low_read /\ new.low_write = read.low_write
      /\ new.read = read.read /\ new.write = read.write
      /\ new.spectra_read = read.spectra_read /\ new.spectra_write = read.spectra_write
      /\ new.unread = read.unread /\ new.behind = read.behind
      /\ new.lead = read.lead /\ new.delay = delay /\ new.clamped = read.clamped
  BY <1>2 DEF Sound, Buffer
<1> HIDE DEF new
<1>8. Sound(new)
  BY <1>2, <1>6, <1>7 DEF Sound, Latent, Mirrored
<1>9. ASSUME Exact(rb) PROVE Exact(new)
  <2>1. Distant(new)
    BY <1>2, <1>7, <1>9 DEF Exact, Distant
  <2>2. ASSUME delay # NoDelay, ~rb.clamped PROVE read.behind = delay
    <3>1. rb.delay # NoDelay /\ rb.delay \in Nat
      BY <1>2, <1>4, <2>2 DEF delay
    <3>2. rb.behind = rb.delay
      BY <1>3, <1>9, <2>2, <3>1 DEF Exact, Applied
    <3>3. read.behind = IF rb.delay > 0 THEN rb.delay - 1 ELSE 0
      BY <1>2, <1>9, <3>2 DEF Exact
    <3> QED
      BY <1>2, <1>4, <3>1, <3>3 DEF delay
  <2>3. delay # NoDelay => delay \in Nat
    BY <1>5
  <2> QED
    BY <1>2, <1>3, <1>7, <1>8, <2>1, <2>2, <2>3 DEF Exact, Applied
<1> QED
  BY <1>1, <1>2, <1>7, <1>8, <1>9

\* With a block to read, the rings go on together and the delay stays.
LEMMA AdvanceKeeps ==
  ASSUME NEW rb, Sound(rb), ~RenderUnderrun(rb)
  PROVE  LET new == IncrementReadIndices(IncrementLowRateReadIndices(rb))
         IN  Sound(new) /\ (Exact(rb) => Exact(new)) /\ new.lead = rb.lead
<1> DEFINE low == OffsetIndex(LowSize, rb.low_read, -1)
           on == IncrementLowRateReadIndices(rb)
           new == IncrementReadIndices(on)
<1>1. on = [rb EXCEPT !.low_read = low, !.unread = rb.unread - 1]
  BY DEF IncrementLowRateReadIndices
<1>2. low \in 0 .. LowSize - 1 /\ low - rb.low_read \in {-1, LowSize - 1}
  <2>1. /\ LowSize \in Nat \ {0} /\ rb.low_read \in 0 .. LowSize - 1
        /\ -1 \in -LowSize .. LowSize
    BY Sizes DEF Sound, Buffer
  <2> HIDE DEF low
  <2>2. low \in 0 .. LowSize - 1 /\ low - rb.low_read \in {-1, -1 - LowSize, -1 + LowSize}
    BY <2>1, OffsetOnRing DEF low
  <2> QED
    BY <2>1, <2>2
<1> HIDE DEF low, on
<1>3. /\ rb.low_read \in 0 .. LowSize - 1 /\ rb.low_write \in 0 .. LowSize - 1
      /\ rb.low_read # rb.low_write /\ rb.unread \in 0 .. LowSize - 1
      /\ rb.low_read - rb.low_write \in {rb.unread, rb.unread - LowSize}
  BY DEF RenderUnderrun, Sound, Buffer, Latent
<1>4. rb.unread \in 1 .. LowSize - 1
  BY <1>3, Sizes
<1>5. on \in Buffer
  <2>1. rb.unread - 1 \in Int
    BY <1>3
  <2> QED
    BY <1>1, <1>2, <2>1, Zenon DEF Sound, Buffer
<1>6. /\ on.low_read = low /\ on.low_write = rb.low_write
      /\ on.read = rb.read /\ on.write = rb.write
      /\ on.spectra_read = rb.spectra_read /\ on.spectra_write = rb.spectra_write
      /\ on.unread = rb.unread - 1 /\ on.behind = rb.behind
      /\ on.lead = rb.lead /\ on.delay = rb.delay /\ on.clamped = rb.clamped
  BY <1>1 DEF Sound, Buffer
<1>7. Sound(on)
  <2>1. low - rb.low_write \in {rb.unread - 1, rb.unread - 1 - LowSize}
    BY <1>2, <1>3, <1>4, Sizes
  <2>2. rb.unread - 1 \in 0 .. LowSize - 1
    BY <1>4, Sizes
  <2> QED
    BY <1>5, <1>6, <2>1, <2>2 DEF Sound, Latent, Mirrored
<1>8. /\ Sound(new) /\ new.lead = on.lead /\ new.unread = on.unread
      /\ new.delay = on.delay /\ new.clamped = on.clamped
      /\ Distant(on) => /\ Distant(new)
                        /\ new.behind = IF on.behind > 0 THEN on.behind - 1 ELSE 0
  BY <1>7, ReadKeeps
<1>9. ASSUME Exact(rb) PROVE Exact(new)
  <2> HIDE DEF new
  <2>1. Distant(new) /\ new.behind = IF rb.behind > 0 THEN rb.behind - 1 ELSE 0
    BY <1>6, <1>8, <1>9 DEF Exact, Distant
  <2>2. ASSUME rb.delay # NoDelay, ~rb.clamped
        PROVE  new.behind = rb.unread - 1 + rb.delay
    <3>1. rb.delay \in Nat /\ rb.behind = rb.unread + rb.delay
      BY <1>9, <2>2 DEF Exact, Applied, Sound, Buffer
    <3> QED
      BY <1>4, <2>1, <3>1
  <2> QED
    BY <1>6, <1>8, <2>1, <2>2 DEF Exact, Applied
<1> QED
  BY <1>6, <1>8, <1>9 DEF on

LEMMA PrepareKeeps ==
  ASSUME NEW rb, Sound(rb)
  PROVE  LET done == PrepareCaptureProcessing(rb)
         IN  /\ Sound(done.buffer)
             /\ Exact(rb) => Exact(done.buffer)
             /\ done.buffer.lead = rb.lead - 1
<1> DEFINE excess == DetectExcessRenderBlocks([rb EXCEPT !.lead = @ - 1])
           eb == excess.buffer
           done == PrepareCaptureProcessing(rb)
<1>1. /\ Sound(eb) /\ (Exact(rb) => Exact(eb))
      /\ eb.lead = rb.lead - 1
      /\ eb.low_read = rb.low_read /\ eb.low_write = rb.low_write
  BY DetectKeeps
<1>2. RenderUnderrun(eb) <=> RenderUnderrun(rb)
  BY <1>1 DEF RenderUnderrun
<1>3. CASE excess.found
  <2>1. done.buffer = Reset(eb)
    BY <1>3 DEF PrepareCaptureProcessing
  <2> QED
    BY <1>1, <2>1, ResetIsExact DEF Exact, Sound
<1>4. CASE ~excess.found /\ RenderUnderrun(rb)
  <2>1. done.buffer = Underrun(eb)
    BY <1>4 DEF PrepareCaptureProcessing
  <2> QED
    BY <1>1, <1>2, <1>4, <2>1, UnderrunKeeps
<1>5. CASE ~excess.found /\ ~RenderUnderrun(rb)
  <2>1. done.buffer = IncrementReadIndices(IncrementLowRateReadIndices(eb))
    BY <1>5 DEF PrepareCaptureProcessing
  <2> QED
    BY <1>1, <1>2, <1>5, <2>1, AdvanceKeeps
<1> QED
  BY <1>3, <1>4, <1>5

\* A delay that fits is applied, and one that does not is remembered.
LEMMA AlignKeeps ==
  ASSUME NEW rb, Exact(rb), NEW delay \in Nat
  PROVE  Exact(AlignFromDelay(rb, delay)) /\ AlignFromDelay(rb, delay).lead = rb.lead
<1> DEFINE total == BufferLatency(rb) + delay
           bounded == Smaller(MaxDelay, Larger(total, 0))
           set == [rb EXCEPT !.delay = delay, !.clamped = bounded # total]
           new == ApplyTotalDelay(set, bounded)
<1>1. CASE rb.delay = delay
  BY <1>1 DEF AlignFromDelay
<1>2. CASE rb.delay # delay
  <2>1. AlignFromDelay(rb, delay) = new
    BY <1>2 DEF AlignFromDelay
  <2>2. total = rb.unread + delay /\ rb.unread \in 0 .. LowSize - 1
    BY LatencyTrue DEF Exact, Sound, Latent
  <2>3. bounded \in 0 .. MaxDelay
    BY <2>2, Sizes DEF Smaller, Larger
  <2> HIDE DEF total, bounded
  <2>4. set \in Buffer
    <3>1. delay \in {NoDelay} \cup Nat /\ (bounded # total) \in BOOLEAN
      OBVIOUS
    <3> QED
      BY <3>1, Zenon DEF Exact, Sound, Buffer
  <2>5. /\ set.low_read = rb.low_read /\ set.low_write = rb.low_write
        /\ set.read = rb.read /\ set.write = rb.write
        /\ set.spectra_read = rb.spectra_read /\ set.spectra_write = rb.spectra_write
        /\ set.unread = rb.unread /\ set.lead = rb.lead
        /\ set.delay = delay /\ set.clamped = (bounded # total)
    BY DEF Exact, Sound, Buffer
  <2> HIDE DEF set
  <2>6. Sound(set)
    BY <2>4, <2>5 DEF Exact, Sound, Latent, Mirrored
  <2>7. bounded \in 0 .. Size - 1 /\ bounded \in -Size .. Size
    BY <2>3, Sizes
  <2>8. Sound(new) /\ new.lead = rb.lead /\ Distant(new)
    BY <2>5, <2>6, <2>7, ApplyKeepsSound, ApplyKeepsDistance
  <2>9. /\ new.behind = bounded /\ new.unread = rb.unread
        /\ new.delay = delay /\ new.clamped = (bounded # total)
    BY <2>5, <2>6 DEF ApplyTotalDelay, Sound, Buffer
  <2> HIDE DEF new
  <2>10. Applied(new)
    BY <2>2, <2>9 DEF Applied
  <2> QED
    BY <2>1, <2>8, <2>10 DEF Exact
<1> QED
  BY <1>1, <1>2

-----------------------------------------------------------------------------
(* The block processor. *)

LEMMA CountedKeeps ==
  ASSUME NEW rb, Sound(rb)
  PROVE  /\ Sound(Counted(rb))
         /\ use_external_delay_estimator => Counted(rb) = rb
         /\ ~use_external_delay_estimator
              => Counted(rb).lead = 0 /\ (Exact(rb) => Exact(Counted(rb)))
<1> DEFINE new == [rb EXCEPT !.lead = 0]
<1>1. new \in Buffer
  <2>1. 0 \in Int
    OBVIOUS
  <2> QED
    BY <2>1, Zenon DEF Sound, Buffer
<1>2. /\ new.low_read = rb.low_read /\ new.low_write = rb.low_write
      /\ new.read = rb.read /\ new.write = rb.write
      /\ new.spectra_read = rb.spectra_read /\ new.spectra_write = rb.spectra_write
      /\ new.unread = rb.unread /\ new.behind = rb.behind /\ new.lead = 0
      /\ new.delay = rb.delay /\ new.clamped = rb.clamped
  BY DEF Sound, Buffer
<1>3. Sound(new) /\ (Exact(rb) => Exact(new))
  BY <1>1, <1>2 DEF Exact, Sound, Latent, Mirrored, Distant, Applied
<1> QED
  BY <1>2, <1>3 DEF Counted

\* The ranges of the fields, as TypeOK lists them, are those of Buffer.
LEMMA Ranges ==
  ASSUME NEW rb, Sound(rb)
  PROVE  /\ {rb.low_read, rb.low_write} \subseteq 0 .. LowSize - 1
         /\ {rb.read, rb.write, rb.spectra_read, rb.spectra_write} \subseteq 0 .. Size - 1
         /\ rb.delay \in {NoDelay} \cup Nat /\ rb.external \in {NoDelay} \cup Reports
         /\ rb.min_latency \in 0 .. LowSize - 1
         /\ rb.excess_counter \in 0 .. Interval - 1
         /\ rb.lead \in Int
  BY DEF Sound, Buffer

LEMMA BufferRenderKeeps ==
  ASSUME Inv, BufferRender
  PROVE  Inv'
<1> DEFINE done == Insert(render_buffer)
           new == Counted(done.buffer)
<1>1. /\ Sound(done.buffer)
      /\ Exact(render_buffer) => Exact(done.buffer)
      /\ done.buffer.lead = render_buffer.lead + 1
      /\ done.event \in {"kNone", "kRenderOverrun"}
  BY InsertKeeps DEF Inv
<1>2. render_buffer' = new /\ UNCHANGED use_external_delay_estimator
  BY DEF BufferRender
<1>3. /\ Sound(new)
      /\ use_external_delay_estimator => new.lead = render_buffer.lead + 1
      /\ ~use_external_delay_estimator => Exact(new) /\ new.lead = 0
  BY <1>1, CountedKeeps DEF Inv
<1>4. new.lead \in -MaxLead .. MaxLead
  BY <1>3, EstimatorAssumption DEF Inv, TypeOK, BufferRender
<1>5. TypeOK'
  <2> HIDE DEF new
  <2> QED
    BY <1>1, <1>2, <1>3, <1>4, Ranges DEF Inv, TypeOK, BufferRender, new
<1> QED
  BY <1>2, <1>3, <1>5 DEF Inv, BufferRender

LEMMA ProcessCaptureKeeps ==
  ASSUME WithinRings, Inv, ProcessCapture
  PROVE  Inv'
<1> DEFINE buffer == IF ~capture_properly_started THEN Reset(render_buffer) ELSE render_buffer
           ready == PrepareCaptureProcessing(buffer)
           aligned == Aligned(ready.buffer, controller_delay')
<1>1. /\ Sound(buffer) /\ buffer.lead = render_buffer.lead
      /\ ~use_external_delay_estimator => Exact(buffer)
  BY ResetIsExact DEF Inv, Exact, Sound
<1>2. /\ Sound(ready.buffer) /\ ready.buffer.lead = render_buffer.lead - 1
      /\ ~use_external_delay_estimator => Exact(ready.buffer)
  <2> HIDE DEF buffer
  <2> QED
    BY <1>1, PrepareKeeps
<1>3. render_buffer' = Counted(aligned) /\ UNCHANGED use_external_delay_estimator
  BY DEF ProcessCapture
<1>4. controller_delay' \in {NoDelay} \cup 0 .. LowSize - 1
  <2>1. \E known \in {NoDelay, controller_delay} : controller_delay' \in GetDelay(known)
    BY DEF ProcessCapture
  <2> QED
    BY <2>1, EstimateAssumption DEF GetDelay, Inv
<1>5. render_buffer.lead - 1 \in -MaxLead .. MaxLead
  <2>1. render_buffer.lead \in -MaxLead .. MaxLead /\ render_buffer.lead > -MaxLead
    BY DEF Inv, TypeOK, ProcessCapture
  <2> QED
    BY <2>1, EstimatorAssumption
<1> DEFINE rb == ready.buffer
<1> HIDE DEF ready, buffer
<1>6. /\ Sound(aligned) /\ aligned.lead = rb.lead
      /\ ~use_external_delay_estimator => Exact(aligned)
  <2>1. CASE use_external_delay_estimator /\ rb.external # NoDelay
    <3>1. rb.external \in Reports /\ rb.lead \in -MaxLead .. MaxLead
      BY <1>2, <1>5, <2>1 DEF Sound, Buffer
    <3>2. rb.lead + rb.external \in -Size .. Size
      <4>1. /\ rb.external \in Nat /\ rb.external + MaxLead <= Size
            /\ MaxLead \in Nat /\ MaxLead <= Size /\ Size \in Nat
        BY <2>1, <3>1, Sizes, ReportAssumption, EstimatorAssumption
           DEF WithinRings, Inv, TypeOK
      <4> QED
        BY <3>1, <4>1
    <3>3. aligned = ApplyTotalDelay(rb, rb.lead + rb.external)
      BY <2>1 DEF Aligned, AlignFromExternalDelay
    <3> QED
      BY <1>2, <2>1, <3>2, <3>3, ApplyKeepsSound
  <2>2. CASE use_external_delay_estimator /\ rb.external = NoDelay
    BY <1>2, <2>2 DEF Aligned, AlignFromExternalDelay
  <2>3. CASE ~use_external_delay_estimator /\ controller_delay' # NoDelay
    <3>1. controller_delay' \in Nat
      BY <1>4, <2>3
    <3>2. aligned = AlignFromDelay(rb, controller_delay')
      BY <2>3 DEF Aligned
    <3> QED
      BY <1>2, <2>3, <3>1, <3>2, AlignKeeps DEF Exact
  <2>4. CASE ~use_external_delay_estimator /\ controller_delay' = NoDelay
    BY <1>2, <2>4 DEF Aligned
  <2> QED
    BY <2>1, <2>2, <2>3, <2>4
<1> DEFINE new == Counted(aligned)
<1> HIDE DEF aligned
<1>7. /\ Sound(new)
      /\ use_external_delay_estimator => new.lead = render_buffer.lead - 1
      /\ ~use_external_delay_estimator => Exact(new) /\ new.lead = 0
  BY <1>2, <1>6, CountedKeeps
<1> HIDE DEF new
<1>8. new.lead \in -MaxLead .. MaxLead
  BY <1>5, <1>7, EstimatorAssumption DEF Inv
<1>9. TypeOK'
  BY <1>3, <1>4, <1>7, <1>8, Ranges DEF Inv, TypeOK, ProcessCapture, new
<1> QED
  BY <1>3, <1>4, <1>7, <1>9 DEF Inv, new

LEMMA SetDelayKeeps ==
  ASSUME Inv, NEW delay \in Reports, SetAudioBufferDelay(delay)
  PROVE  Inv'
<1> DEFINE new == [render_buffer EXCEPT !.external = delay]
<1>1. render_buffer' = new /\ UNCHANGED use_external_delay_estimator
  BY DEF SetAudioBufferDelay
<1>2. new \in Buffer
  <2>1. render_buffer \in Buffer /\ delay \in {NoDelay} \cup Reports
    BY DEF Inv, Sound
  <2> QED
    BY <2>1, Zenon DEF Buffer
<1>3. /\ new.low_read = render_buffer.low_read /\ new.low_write = render_buffer.low_write
      /\ new.read = render_buffer.read /\ new.write = render_buffer.write
      /\ new.spectra_read = render_buffer.spectra_read
      /\ new.spectra_write = render_buffer.spectra_write
      /\ new.unread = render_buffer.unread /\ new.behind = render_buffer.behind
      /\ new.lead = render_buffer.lead /\ new.delay = render_buffer.delay
      /\ new.clamped = render_buffer.clamped
  BY DEF Inv, Sound, Buffer
<1> HIDE DEF new
<1>4. Sound(new) /\ (Exact(render_buffer) => Exact(new))
  BY <1>2, <1>3 DEF Inv, Exact, Sound, Latent, Mirrored, Distant, Applied
<1>5. TypeOK'
  BY <1>1, <1>3, <1>4, Ranges DEF Inv, TypeOK, SetAudioBufferDelay, started
<1> QED
  BY <1>1, <1>3, <1>4, <1>5 DEF Inv, SetAudioBufferDelay

LEMMA InitSound == Init => Inv
<1> SUFFICES ASSUME Init PROVE Inv
  OBVIOUS
<1> DEFINE zero == [low_read |-> 0, low_write |-> 0, read |-> 0, write |-> 0,
                    spectra_read |-> 0, spectra_write |-> 0, delay |-> DefaultDelay,
                    external |-> NoDelay, min_latency |-> 0, excess_counter |-> 0,
                    lead |-> 0, unread |-> 0, behind |-> 0, clamped |-> FALSE]
<1>1. /\ 0 \in 0 .. LowSize - 1 /\ 0 \in 0 .. Size - 1 /\ 0 \in 0 .. Interval - 1
      /\ DefaultDelay \in {NoDelay} \cup Nat
  BY Sizes, IntervalAssumption, DefaultAssumption
<1>2. zero \in Buffer /\ Mirrored(zero) /\ zero.lead = 0
  BY <1>1 DEF Buffer, Mirrored
<1>3. render_buffer = Reset(zero)
  BY DEF Init, NewBuffer
<1> HIDE DEF zero
<1>4. Exact(render_buffer) /\ render_buffer.lead = 0
  BY <1>2, <1>3, ResetIsExact
<1>5. TypeOK
  <2>1. 0 \in -MaxLead .. MaxLead
    BY EstimatorAssumption
  <2>2. Sound(render_buffer)
    BY <1>4 DEF Exact
  <2> QED
    BY <1>4, <2>1, <2>2, Ranges DEF Init, TypeOK
<1> QED
  BY <1>4, <1>5 DEF Inv, Exact, Init

LEMMA Inductive == ASSUME WithinRings PROVE Inv /\ [Next]_vars => Inv'
<1> SUFFICES ASSUME Inv, [Next]_vars PROVE Inv'
  OBVIOUS
<1>1. CASE BufferRender
  BY <1>1, BufferRenderKeeps
<1>2. CASE ProcessCapture
  BY <1>2, ProcessCaptureKeeps
<1>3. CASE UNCHANGED vars
  BY <1>3 DEF vars, started, Inv, TypeOK
<1>4. CASE ProcessCaptureTooEarly
  BY <1>3, <1>4 DEF ProcessCaptureTooEarly
<1>5. ASSUME NEW delay \in Reports, SetAudioBufferDelay(delay) PROVE Inv'
  BY <1>5, SetDelayKeeps
<1> QED
  BY <1>1, <1>2, <1>3, <1>4, <1>5 DEF Next

LEMMA Invariance == ASSUME WithinRings PROVE Spec => []Inv
<1>1. Inv /\ [Next]_vars => Inv'
  BY Inductive
<1> QED
  BY <1>1, InitSound, PTL DEF Spec

-----------------------------------------------------------------------------
(* The theorems. *)

\* Every index stays in its ring, with any number of blocks in any order; with
\* external delays as long as these fit into the rings.
THEOREM IndicesInRange == ASSUME WithinRings PROVE Spec => []TypeOK
<1>1. Inv => TypeOK
  BY DEF Inv
<1> QED
  BY <1>1, Invariance, PTL

\* The latency and the internal delay that the code reads off indices that go
\* around are the true numbers of blocks, for every size of the rings.
THEOREM RingsNeverLap == ASSUME WithinRings PROVE Spec => []DistancesTrue
<1>1. Inv => DistancesTrue
  BY LatencyTrue, InternalDelayTrue DEF Inv, Exact, DistancesTrue
<1> QED
  BY <1>1, Invariance, PTL

\* The rings of blocks and of spectra, which run in opposite directions, are
\* read equally far behind what was written, whatever delays are applied.
THEOREM RingsStayMirrored == ASSUME WithinRings PROVE Spec => []RingsMirrored
<1>1. Inv => RingsMirrored
  <2> SUFFICES ASSUME Inv PROVE RingsMirrored
    OBVIOUS
  <2> DEFINE x == render_buffer.write - render_buffer.read
             y == render_buffer.spectra_read - render_buffer.spectra_write
  <2>1. x \in -Size .. Size /\ y \in -Size .. Size /\ x - y \in {-Size, 0, Size}
    BY Sizes DEF Inv, Sound, Buffer, Mirrored
  <2> HIDE DEF x, y
  <2>2. x % Size = y % Size
    BY <2>1, Sizes, SameModulo
  <2> QED
    BY <2>2 DEF RingsMirrored, x, y
<1> QED
  BY <1>1, Invariance, PTL

\* The filter reads the block that the delay is away from the one the
\* estimator reads, from its alignment on, through underruns and bursts.
THEOREM DelayStaysApplied == ASSUME WithinRings PROVE Spec => []DelayApplied
<1>1. Inv => DelayApplied
  <2> SUFFICES ASSUME Inv, ~use_external_delay_estimator,
                      render_buffer.delay # NoDelay, ~render_buffer.clamped
               PROVE  ComputeDelay(render_buffer) = render_buffer.delay
    BY DEF DelayApplied
  <2>1. Exact(render_buffer)
    BY DEF Inv
  <2>2. /\ InternalDelay(render_buffer) = render_buffer.behind
        /\ BufferLatency(render_buffer) = render_buffer.unread
    BY <2>1, LatencyTrue, InternalDelayTrue DEF Exact
  <2>3. render_buffer.behind = render_buffer.unread + render_buffer.delay
    BY <2>1 DEF Exact, Applied
  <2>4. render_buffer.unread \in Int /\ render_buffer.delay \in Int
    BY <2>1 DEF Exact, Sound, Buffer, NoDelay
  <2> QED
    BY <2>2, <2>3, <2>4 DEF ComputeDelay
<1> QED
  BY <1>1, Invariance, PTL
=============================================================================
