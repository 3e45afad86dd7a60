----------------------------- MODULE MCCounters -----------------------------
(* What is counted: the statistics of NetEq, and histograms of metrics to    *)
(* which two threads add from three places under one name.                   *)
EXTENDS Integers

CONSTANTS
  Corrections, Frame, ReportInterval, LoggingPeriod, MaxSamples, MaxOutages,  \* Statistics
  Thread, Site, Name, Fast, Samples, Lowest, Highest, kMaxSampleMapSize,      \* Metrics
  MaxCalls

\* The periods of the counters are not empty.
ASSUME CounterAssumption ==
  /\ ReportInterval \in Nat \ {0} /\ LoggingPeriod \in Nat \ {0}
  /\ Corrections \subseteq Int /\ Frame \in Nat

\* The places name something, and the bounds leave room for a sample.
ASSUME MetricsAssumption ==
  /\ Name = [p \in Site |-> Name[p]] /\ Fast \subseteq Site
  /\ Lowest \in Int /\ Highest \in Int /\ Lowest - 1 <= Highest
  /\ Samples \subseteq Int

VARIABLES
  concealed_samples, concealed_samples_correction, voice_concealed_samples,
  voice_concealed_samples_correction, counter, timer, last_logged_value, sample_rate,
  ticks, rate, total, most, voice_total, voice_most, outages, reported,
  enabled, called, map, histograms, atomic_histogram_pointer, pc, calls, collecting,
  added, collected, dropped

MCCorrections == {-2, 1}
Counters == INSTANCE Statistics

\* All places name one histogram.
MCName == [p \in {"fast", "other", "slow"} |-> "jitter"]
Counts == INSTANCE Metrics WITH samples <- histograms, reported <- collected

\* No sample or outage counts twice, and no counter goes back (Statistics).
CountsTrue == Counters!CountsTrue

\* No sample added to a histogram is lost or counted twice (Metrics).
SamplesConserved == Counts!SamplesConserved
=============================================================================
