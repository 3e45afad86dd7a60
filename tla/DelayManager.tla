---------------------------- MODULE DelayManager ----------------------------
(***************************************************************************)
(* delay_manager.cc with its histogram and delay_peak_detector.cc, driven  *)
(* as NetEqImpl drives it: from how late the packets of a stream come, how *)
(* much audio to hold.  Time and lengths are in ticks of 10 ms.            *)
(***************************************************************************)
EXTENDS Histogram, SequencesExt

CONSTANTS
  HalfSeq, HalfTs,
  Stream,          \* the packets in the order they were sent: seq, due, the
                   \* time that went by in the stream before it, and kind
  Lengths,         \* the lengths the decoder finds a packet to have
  Configs,         \* enable_rtx_handling, histogram_mode and the experiment
  Delays,          \* the limits the application asks for
  MaxPackets,      \* max_packets_in_buffer
  BucketSize, NumBuckets, BaseFactor, Probability,
  MaxHistory, MaxReordered, MaxBase,
  PeakHeight, MaxPeakPeriod, MinPeaks, MaxPeaks,
  MaxLead, MaxLag, \* bound: how far ahead of the newest packet one may be, or
                   \* behind it,
  MaxWait,         \* how long it is waited for a packet,
  MaxArrivals      \* and how many come

VARIABLES
  config,
  first_packet_received, last_seq_no, last_timestamp, packet_iat_stopwatch,
  num_reordered_packets, last_pack_cng_or_dtmf, packet_len,
  delay_history, buckets, forget_factor, target_level,
  minimum_delay, maximum_delay, base_minimum_delay, effective_minimum_delay,
  peaks,           \* peak_period_stopwatch_, peak_history_, peak_found_
                   \* and peak_detection_threshold_
  new_codec,       \* NetEqImpl::new_codec_
  now, newest, arrivals,
  lateness         \* history: how late the packets in order came, as far back
                   \* as each was measured from the one before it

Sn == INSTANCE SerialNumbers

intake == <<first_packet_received, last_seq_no, last_timestamp,
            packet_iat_stopwatch, num_reordered_packets, last_pack_cng_or_dtmf>>
estimate == <<delay_history, buckets, forget_factor, target_level, peaks>>
limits == <<minimum_delay, maximum_delay, base_minimum_delay, effective_minimum_delay>>
stream == <<new_codec, now, newest, arrivals>>
vars == <<config, intake, packet_len, estimate, limits, stream, lateness>>

NoPeaks == [since |-> -1, history |-> <<>>, found |-> FALSE]
DefaultLevel == 4 * 256

Init ==
  /\ config \in Configs
  /\ first_packet_received = FALSE
  /\ last_seq_no = 0 /\ last_timestamp = 0
  /\ packet_iat_stopwatch = 0 /\ num_reordered_packets = 0
  /\ last_pack_cng_or_dtmf = 1
  /\ packet_len = 0
  /\ delay_history = <<>>
  /\ buckets = Start(NumBuckets) /\ forget_factor = 0
  /\ target_level = DefaultLevel
  /\ minimum_delay = 0 /\ maximum_delay = 0
  /\ base_minimum_delay = 0 /\ effective_minimum_delay = 0
  /\ peaks = NoPeaks @@ [threshold |-> 0]
  /\ new_codec = TRUE
  /\ now = 0 /\ newest = 0 /\ arrivals = 0
  /\ lateness = <<>>

-----------------------------------------------------------------------------
\* DelayPeakDetector.
SetPeakLength(p, length) ==
  [p EXCEPT !.threshold = IF config.experiment THEN Greater(2, PeakHeight \div length)
                          ELSE PeakHeight \div length,
            !.history = IF config.experiment THEN <<>> ELSE @]

MaxPeakHeight(p) == FoldLeft(LAMBDA most, peak : Greater(most, peak.height), -1, p.history)
LongestPeakPeriod(p) == FoldLeft(LAMBDA most, peak : Greater(most, peak.period), 0, p.history)

Latest(s, n) == IF Len(s) > n THEN SubSeq(s, Len(s) - n + 1, Len(s)) ELSE s

\* A peak counts when it comes not too long after the one before it.
Observe(p, iat, level) ==
  LET elapsed == now - p.since
      peak == iat > level + p.threshold \/ iat > 2 * level
      another == peak /\ p.since >= 0 /\ elapsed > 0
  IN  CASE peak /\ p.since < 0 -> [p EXCEPT !.since = now]
        [] another /\ elapsed <= MaxPeakPeriod ->
             [p EXCEPT !.since = now,
                       !.history = Latest(Append(@, [period |-> elapsed, height |-> iat]),
                                          MaxPeaks)]
        [] another /\ elapsed \in MaxPeakPeriod + 1 .. 2 * MaxPeakPeriod ->
             [p EXCEPT !.since = now]
        [] another /\ elapsed > 2 * MaxPeakPeriod -> NoPeaks @@ p
        [] OTHER -> p

CheckPeakConditions(p) ==
  [p EXCEPT !.found = /\ Len(p.history) >= MinPeaks
                      /\ now - p.since <= 2 * LongestPeakPeriod(p)]

UpdatePeaks(p, iat, reordered, level) ==
  CheckPeakConditions(IF config.rtx /\ reordered THEN p ELSE Observe(p, iat, level))

-----------------------------------------------------------------------------
MaxBufferTimeQ75(length) == (3 * MaxPackets * length) \div 4

\* Mutant: the maximum does not bound the minimum.
UpperBoundOfBuffer(length, maximum) ==
  IF MaxBufferTimeQ75(length) > 0 THEN Lesser(MaxBase, MaxBufferTimeQ75(length)) ELSE MaxBase

MinimumDelayUpperBound(length, maximum) ==
  Lesser(IF maximum > 0 THEN maximum ELSE MaxBase,
         IF MaxBufferTimeQ75(length) > 0 THEN MaxBufferTimeQ75(length) ELSE MaxBase)

\* UpdateEffectiveMinimumDelay, after a limit was set.
UpdateEffective ==
  effective_minimum_delay' =
    Greater(minimum_delay',
            Lesser(base_minimum_delay',
                   MinimumDelayUpperBound(packet_len, maximum_delay')))

\* LimitTargetLevel, in packets of this length with eight binary places.
LimitTargetLevel(level, length) ==
  LET Q8(delay) == (delay * 256) \div length
      low == IF effective_minimum_delay > 0
             THEN Greater(level, Q8(effective_minimum_delay)) ELSE level
      high == IF maximum_delay > 0 THEN Lesser(low, Q8(maximum_delay)) ELSE low
  IN  Greater(Lesser(high, (3 * MaxPackets * 256) \div 4), 256)

\* The sum of the history, begun anew where it falls below zero.
CalculateRelativePacketArrivalDelay(history) ==
  LET relative[i \in 0 .. Len(history)] ==
        IF i = 0 THEN 0 ELSE Greater(relative[i - 1] + history[i], 0)
  IN  relative[Len(history)]

CalculateTargetLevel(histogram, p, length) ==
  LET index == Quantile(histogram, Probability)
  IN  256 * Greater(1, IF config.relative THEN 1 + (index * BucketSize) \div length
                       ELSE IF p.found THEN Greater(index, MaxPeakHeight(p))
                       ELSE index)

\* How late a packet of the stream is that comes now.
Lateness(p) == now - p.due

NextSeq == Sn!Plus(last_seq_no, 1, HalfSeq)
Gap(seq) == Sn!IsNewer(seq, NextSeq, HalfSeq)
Reordered(seq) == ~Gap(seq) /\ ~Sn!IsNewer(seq, last_seq_no, HalfSeq)

\* Mutant: the packets that are missing are not taken off.
OffsetOfLate(seq) == IF Reordered(seq) THEN Sn!Minus(NextSeq, seq, HalfSeq) ELSE 0

\* How many packets' time a packet is late because of its number.
Offset(seq) ==
  CASE Gap(seq) -> -Sn!Minus(seq, NextSeq, HalfSeq)
    [] Reordered(seq) -> Sn!Minus(NextSeq, seq, HalfSeq)
    [] OTHER -> 0

\* Update, for a packet p that is as long as its decoder says, the stopwatch
\* having run for elapsed; the histogram and the peaks are those that a change
\* of the length left, and late what is known of the packets before.
Update(p, length, elapsed, histogram, observed, late) ==
  LET ts == p.due % (2 * HalfTs)
      newer == Sn!IsNewer(p.seq, last_seq_no, HalfSeq)
      reordered == Reordered(p.seq)
      numbers == Sn!Minus(p.seq, last_seq_no, HalfSeq)
      time == Sn!Minus(ts, last_timestamp, HalfTs)
      measured == IF newer /\ Sn!IsNewer(ts, last_timestamp, HalfTs)
                  THEN time \div numbers ELSE length
      iat == elapsed \div measured + Offset(p.seq)
      delay == elapsed + Offset(p.seq) * measured - measured
      history == IF reordered THEN delay_history
                 ELSE Latest(Append(delay_history, delay), MaxHistory)
      relative == IF reordered THEN Greater(delay, 0)
                  ELSE CalculateRelativePacketArrivalDelay(history)
      bucket == IF config.relative THEN relative \div BucketSize
                ELSE Greater(Lesser(iat, NumBuckets - 1), 0)
      counts == measured > 0 /\ bucket < NumBuckets
      counted == IF counts THEN Add(histogram, forget_factor, bucket) ELSE histogram
      peaked == IF measured <= 0 \/ config.relative THEN observed
                ELSE UpdatePeaks(observed, bucket, reordered, Quantile(counted, Probability))
      kept == /\ measured > 0 /\ config.rtx /\ reordered
              /\ num_reordered_packets < MaxReordered
  IN  /\ delay_history' = IF measured > 0 THEN history ELSE delay_history
      /\ buckets' = counted
      /\ forget_factor' = IF counts THEN NextFactor(forget_factor, BaseFactor)
                          ELSE forget_factor
      /\ peaks' = peaked
      /\ target_level' = IF measured > 0
                         THEN LimitTargetLevel(CalculateTargetLevel(counted, peaked, length),
                                               length)
                         ELSE target_level
      /\ IF kept
         THEN /\ num_reordered_packets' = num_reordered_packets + 1
              /\ lateness' = late
              /\ UNCHANGED <<last_seq_no, last_timestamp>>
         ELSE /\ num_reordered_packets' = 0
              /\ last_seq_no' = p.seq /\ last_timestamp' = ts
              /\ lateness' = IF reordered \/ measured * numbers # time
                             THEN <<Lateness(p)>>
                             ELSE Latest(Append(late, Lateness(p)), MaxHistory + 1)
      /\ packet_iat_stopwatch' = IF kept THEN now - elapsed ELSE now

-----------------------------------------------------------------------------
Arrive(i, kind) ==
  /\ arrivals < MaxArrivals
  /\ Stream[i].kind = kind
  /\ IF first_packet_received THEN i \in newest - MaxLag .. newest + MaxLead
     ELSE i = newest + 1
  /\ arrivals' = arrivals + 1
  /\ newest' = Greater(newest, i)
  /\ UNCHANGED <<config, new_codec, now, limits>>

\* Comfort noise or a tone event: the next packets are not counted.
InsertOther(i) ==
  /\ Arrive(i, "other")
  /\ last_pack_cng_or_dtmf' = 1
  /\ UNCHANGED <<first_packet_received, last_seq_no, last_timestamp, packet_len,
                 packet_iat_stopwatch, num_reordered_packets, estimate, lateness>>

\* The first packet of speech after those.
InsertFirst(i) ==
  /\ last_pack_cng_or_dtmf # 0
  /\ Arrive(i, "speech")
  /\ last_pack_cng_or_dtmf' = 0
  /\ packet_iat_stopwatch' = now
  /\ lateness' = <<>>
  /\ UNCHANGED <<first_packet_received, last_seq_no, last_timestamp, packet_len,
                 num_reordered_packets, estimate>>

\* A packet of speech that the decoder finds to be of this length; it is not
\* counted when it is older than what is played (without RTX) or a new codec
\* is about to be used.
InsertSpeech(i, length, old) ==
  LET counted == (config.rtx \/ ~old) /\ ~new_codec
      changed == length # packet_len
      histogram == IF /\ changed /\ packet_len > 0
                      /\ ~config.relative /\ config.experiment
                   THEN Scaled(buckets, packet_len, length) ELSE buckets
      observed == IF changed THEN SetPeakLength(peaks, length) ELSE peaks
      elapsed == IF changed THEN 0 ELSE now - packet_iat_stopwatch
      late == IF changed THEN <<>> ELSE lateness
      ts == Stream[i].due % (2 * HalfTs)
  IN  /\ last_pack_cng_or_dtmf = 0
      /\ Arrive(i, "speech")
      /\ packet_len' = length
      /\ last_pack_cng_or_dtmf' = IF changed THEN 1 ELSE 0
      /\ first_packet_received' = (first_packet_received \/ counted)
      /\ IF counted /\ first_packet_received
         THEN Update(Stream[i], length, elapsed, histogram, observed, late)
         ELSE /\ buckets' = histogram /\ peaks' = observed
              /\ packet_iat_stopwatch' = IF counted THEN now ELSE now - elapsed
              /\ last_seq_no' = IF counted THEN Stream[i].seq ELSE last_seq_no
              /\ last_timestamp' = IF counted THEN ts ELSE last_timestamp
              /\ lateness' = IF counted THEN <<Lateness(Stream[i])>> ELSE late
              /\ UNCHANGED <<delay_history, forget_factor, target_level, num_reordered_packets>>

\* RegisterEmptyPacket does not look at the number of the packet.
RegisterEmptyPacket(i) ==
  /\ Arrive(i, "empty")
  /\ last_seq_no' = Sn!Plus(last_seq_no, 1, HalfSeq)
  /\ lateness' = <<>>
  /\ UNCHANGED <<first_packet_received, last_timestamp, packet_iat_stopwatch, packet_len,
                 num_reordered_packets, last_pack_cng_or_dtmf, estimate>>

\* A packet flushes the buffer.
Flush ==
  /\ ~new_codec /\ arrivals < MaxArrivals
  /\ new_codec' = TRUE
  /\ arrivals' = arrivals + 1
  /\ UNCHANGED <<config, intake, packet_len, estimate, limits, now, newest, lateness>>

\* The new codec is used: what was learnt is forgotten, the last packet is not.
Reset ==
  /\ new_codec /\ newest > 0
  /\ new_codec' = FALSE
  /\ packet_len' = 0 /\ last_pack_cng_or_dtmf' = 1
  /\ buckets' = Start(NumBuckets) /\ forget_factor' = 0
  /\ target_level' = DefaultLevel
  /\ peaks' = NoPeaks @@ peaks
  /\ packet_iat_stopwatch' = now
  /\ lateness' = <<>>
  /\ UNCHANGED <<config, first_packet_received, last_seq_no, last_timestamp,
                 num_reordered_packets, delay_history, limits, now, newest, arrivals>>

Tick ==
  /\ first_packet_received /\ now < packet_iat_stopwatch + MaxWait
  /\ now' = now + 1
  /\ UNCHANGED <<config, new_codec, intake, packet_len, estimate, limits, newest, arrivals, lateness>>

\* The limits; a call with a delay out of bounds changes nothing.
SetLimits == UpdateEffective /\ UNCHANGED <<config, intake, packet_len, estimate, stream, lateness>>

SetMinimumDelay(delay) ==
  /\ delay <= MinimumDelayUpperBound(packet_len, maximum_delay)
  /\ minimum_delay' = delay
  /\ UNCHANGED <<maximum_delay, base_minimum_delay>>
  /\ SetLimits

SetMaximumDelay(delay) ==
  /\ delay = 0 \/ delay >= Greater(minimum_delay, packet_len)
  /\ maximum_delay' = delay
  /\ UNCHANGED <<minimum_delay, base_minimum_delay>>
  /\ SetLimits

SetBaseMinimumDelay(delay) ==
  /\ delay <= MaxBase
  /\ base_minimum_delay' = delay
  /\ UNCHANGED <<minimum_delay, maximum_delay>>
  /\ SetLimits

Next ==
  \/ \E i \in DOMAIN Stream :
       \/ InsertOther(i) \/ InsertFirst(i) \/ RegisterEmptyPacket(i)
       \/ \E length \in Lengths, old \in BOOLEAN : InsertSpeech(i, length, old)
  \/ Flush \/ Reset \/ Tick
  \/ \E delay \in Delays :
       SetMinimumDelay(delay) \/ SetMaximumDelay(delay) \/ SetBaseMinimumDelay(delay)

Spec == Init /\ [][Next]_vars

-----------------------------------------------------------------------------
\* No order of calls leaves a minimum above the maximum, not even that which
\* the base minimum makes.
LimitsOrdered ==
  maximum_delay > 0 => /\ minimum_delay <= maximum_delay
                       /\ effective_minimum_delay <= maximum_delay

TypeOK ==
  /\ last_seq_no \in Sn!Serial(HalfSeq) /\ last_timestamp \in Sn!Serial(HalfTs)
  /\ buckets \in [1 .. NumBuckets -> 0 .. One]
  /\ forget_factor \in 0 .. BaseFactor
  /\ target_level \in 256 .. Greater(DefaultLevel, (3 * MaxPackets * 256) \div 4)
  /\ Len(delay_history) <= MaxHistory /\ Len(peaks.history) <= MaxPeaks
  /\ num_reordered_packets \in 0 .. MaxReordered
  /\ last_pack_cng_or_dtmf \in {-1, 0, 1}
  /\ LimitsOrdered

\* The probabilities add up to one (the checks of histogram.cc:78 and 172):
\* the rounding of no sequence of updates, resets and changes of the packet
\* length adds up.
MassIsOne == Total(buckets) = One

\* The relative arrival delay is what it says: how much later the last packet
\* in order came than the one that came earliest of those in the window,
\* whatever was lost, repeated, reordered or wrapped since.
RelativeDelayTrue ==
  Len(lateness) = Len(delay_history) + 1 =>
    \E earliest \in DOMAIN lateness :
      /\ \A i \in DOMAIN lateness : lateness[earliest] <= lateness[i]
      /\ CalculateRelativePacketArrivalDelay(delay_history)
           = lateness[Len(lateness)] - lateness[earliest]
=============================================================================
