----------------------------- MODULE MCDelays -----------------------------
(* The two delay estimations: that of NetEq, by a short stream of packets   *)
(* in few buckets, and that of AEC3, by few lags and a window of the last   *)
(* of them.                                                                 *)
EXTENDS Integers

CONSTANTS
  One, FactorOne, StartOne, HalfCount, HalfClock, Arriving, Configs, PacketLengths,
  AskedDelays, BufferPackets, BucketSize, NumBuckets, BaseFactor, Probability,
  MaxHistory, MaxReordered, MaxBase, PeakHeight, MaxPeakPeriod, MinPeaks, MaxPeaks,
  MaxLead, MaxLag, MaxWait, MaxArrivals,
  Lags, LagWindow, Initial, Converged, StableBlocks, BlockLag, Headroom, Hysteresis

\* Lags are 3 at least, so that an estimate differs from the zeros that the
\* history of estimates begins with by more than those of a drift do.
ASSUME LagAssumption ==
  /\ Lags \subseteq Nat /\ \A l \in Lags : l >= 3
  /\ \E most \in Lags : \A l \in Lags : l <= most
  /\ LagWindow \in Nat \ {0} /\ BlockLag \in Nat \ {0}
  /\ {Initial, Converged, Headroom, Hysteresis} \subseteq Nat

VARIABLES
  config, first_packet_received, last_seq_no, last_timestamp, packet_iat_stopwatch,
  num_reordered_packets, last_pack_cng_or_dtmf, packet_len, delay_history, buckets,
  forget_factor, target_level, minimum_delay, maximum_delay, base_minimum_delay,
  effective_minimum_delay, peaks, renewed, now, newest, arrivals, lateness,
  lag_histogram, histogram_data, histogram_data_index, significant_candidate_found,
  estimates, level, stability_counter, delay_samples, delay, last_quality, recent,
  support, drift

EchoDelay ==
  INSTANCE DelayEstimator WITH
    Window <- LagWindow, histogram <- lag_histogram, delay_history <- estimates

Delays ==
  INSTANCE DelayManager WITH
    HalfSeq <- HalfCount, HalfTs <- HalfClock, Stream <- Arriving,
    Lengths <- PacketLengths, Delays <- AskedDelays, MaxPackets <- BufferPackets,
    new_codec <- renewed

\* A sixteenth of the buckets has to make up for what rounding loses in each. The
\* halves of the start distribution add up. The stream is shorter than half of the
\* circle of timestamps, and half of that of numbers is, in packets, shorter still.
ASSUME DelayAssumption ==
  /\ {One, FactorOne, NumBuckets, BucketSize} \subseteq Nat \ {0}
  /\ One % FactorOne = 0 /\ 32 * NumBuckets <= One
  /\ \A i \in 1 .. NumBuckets : Delays!Start(NumBuckets)[i] \in Nat
  /\ Delays!Total(Delays!Start(NumBuckets)) = One
  /\ BaseFactor \in 0 .. FactorOne
  /\ MaxHistory \in Nat \ {0} /\ MaxBase \in Nat /\ BufferPackets \in Nat
  /\ AskedDelays \subseteq Nat
  /\ HalfCount \in Nat /\ HalfCount > 1 /\ HalfClock \in Nat \ {0}
  /\ \A length \in PacketLengths :
       length \in Nat \ {0} /\ length * (HalfCount + 1) <= HalfClock
  /\ \A i \in DOMAIN Arriving :
       /\ Arriving[i].seq \in 0 .. 2 * HalfCount - 1 /\ Arriving[i].due \in Int
       /\ \A j \in DOMAIN Arriving : Arriving[i].due - Arriving[j].due < HalfClock

\* The histogram of delays adds up to one (Histogram, DelayManager).
MassIsOne == Delays!MassIsOne

\* The relative delay is that to the earliest packet in the window (DelayManager).
RelativeDelayTrue == Delays!RelativeDelayTrue

\* No order of calls leaves a minimum above the maximum (DelayManager).
LimitsOrdered == Delays!LimitsOrdered

\* The delay in use was found often enough (DelayEstimator).
DelayFounded == EchoDelay!DelayFounded
=============================================================================
