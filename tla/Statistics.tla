----------------------------- MODULE Statistics -----------------------------
(***************************************************************************)
(* statistics_calculator.cc and expand_uma_logger.cc: what NetEq counts.   *)
(* Concealed samples are corrected afterwards, up or down, yet the counter *)
(* its readers poll must not go back; events are reported once a minute.   *)
(* Sums and rates that nothing else depends on are left out.               *)
(***************************************************************************)
EXTENDS Integers

CONSTANTS
  Corrections,      \* what the length of an expansion is corrected by
  Frame,            \* the longest expansion
  ReportInterval,   \* calls of GetAudio in a minute, which an outage is
                    \* counted in,
  LoggingPeriod,    \* and in the ten seconds of the concealment rate
  MaxSamples,       \* bound: the samples concealed,
  MaxOutages        \* and the outages

VARIABLES
  concealed_samples, concealed_samples_correction,
  voice_concealed_samples, voice_concealed_samples_correction,
  counter, timer,          \* PeriodicUmaCount of the outages
  last_logged_value,       \* ExpandUmaLogger, -1 for none,
  sample_rate,             \* the rate it was told,
  ticks,                   \* and the time gone by of its countdown
  rate,                    \* fs_hz_
  total, most,             \* history: the samples concealed, the corrections
  voice_total, voice_most, \* counted, and the most they ever were;
  outages, reported        \* outages registered and reported

concealed == <<concealed_samples, concealed_samples_correction, total, most>>
voice_concealed == <<voice_concealed_samples, voice_concealed_samples_correction,
                     voice_total, voice_most>>
outage == <<counter, timer, outages, reported>>
logger == <<last_logged_value, sample_rate, ticks>>
vars == <<concealed, voice_concealed, outage, logger, rate>>

Rates == {1, 2}
Lesser(x, y) == IF x < y THEN x ELSE y
Greater(x, y) == IF x < y THEN y ELSE x

Init ==
  /\ concealed_samples = 0 /\ concealed_samples_correction = 0
  /\ voice_concealed_samples = 0 /\ voice_concealed_samples_correction = 0
  /\ counter = 0 /\ timer = 0
  /\ last_logged_value = -1 /\ ticks = 0
  /\ rate \in Rates /\ sample_rate = rate
  /\ total = 0 /\ most = 0 /\ voice_total = 0 /\ voice_most = 0
  /\ outages = 0 /\ reported = 0

-----------------------------------------------------------------------------
\* Mutant: a correction down is forgotten instead of made up for.
OwedNothing(correction, n) == correction

\* What a correction leaves to be made up for, and of samples what counts.
Owed(correction, n) == IF n < 0 THEN correction - n ELSE correction - Lesser(n, correction)
Counted(correction, n) == IF n < 0 THEN 0 ELSE n - Lesser(n, correction)

\* Expanded{Voice,Noise}Samples and their corrections: n samples more, or less.
ConcealedSamplesCorrection(n, is_voice) ==
  /\ {total + n, voice_total + n} \subseteq -MaxSamples .. MaxSamples
  /\ concealed_samples' = concealed_samples + Counted(concealed_samples_correction, n)
  /\ concealed_samples_correction' = Owed(concealed_samples_correction, n)
  /\ total' = total + n /\ most' = Greater(most, total')
  /\ IF is_voice
     THEN /\ voice_concealed_samples' =
               voice_concealed_samples + Counted(voice_concealed_samples_correction, n)
          /\ voice_concealed_samples_correction' = Owed(voice_concealed_samples_correction, n)
          /\ voice_total' = voice_total + n /\ voice_most' = Greater(voice_most, voice_total')
     ELSE UNCHANGED voice_concealed
  /\ UNCHANGED <<outage, logger, rate>>

Expanded(n, is_voice) == ConcealedSamplesCorrection(n, is_voice)
ExpandedCorrection(n, is_voice) == ConcealedSamplesCorrection(n, is_voice)

LogDelayedPacketOutageEvent ==
  /\ outages < MaxOutages
  /\ counter' = counter + 1
  /\ outages' = outages + 1
  /\ UNCHANGED <<concealed, voice_concealed, timer, reported, logger, rate>>

AdvanceClock ==
  LET due == timer + 1 >= ReportInterval
  IN  /\ timer' = IF due THEN timer + 1 - ReportInterval ELSE timer + 1
      /\ reported' = IF due THEN reported + counter ELSE reported
      /\ counter' = IF due THEN 0 ELSE counter
      /\ UNCHANGED outages

\* The rate is taken of the samples since the last report, or since the
\* sample rate changed.
UpdateSampleCounter ==
  LET finished == ticks + 1 >= LoggingPeriod
      since == IF \/ last_logged_value < 0 \/ sample_rate # rate
                  \/ last_logged_value > concealed_samples
               THEN concealed_samples ELSE last_logged_value
  IN  /\ sample_rate' = rate
      /\ last_logged_value' = IF finished THEN concealed_samples ELSE since
      /\ ticks' = IF finished THEN 0 ELSE ticks + 1

\* GetAudio begins: a tick goes by, and the counters are looked at.
GetAudio ==
  /\ AdvanceClock
  /\ UpdateSampleCounter
  /\ UNCHANGED <<concealed, voice_concealed, rate>>

SetSampleRate(fs) == rate' = fs /\ UNCHANGED <<concealed, voice_concealed, outage, logger>>

Next ==
  \/ \E is_voice \in BOOLEAN :
       \/ \E n \in 1 .. Frame : Expanded(n, is_voice)
       \/ \E n \in Corrections : ExpandedCorrection(n, is_voice)
  \/ LogDelayedPacketOutageEvent
  \/ GetAudio
  \/ \E fs \in Rates : SetSampleRate(fs)

Spec == Init /\ [][Next]_vars

-----------------------------------------------------------------------------
TypeOK ==
  /\ {concealed_samples, concealed_samples_correction, voice_concealed_samples,
      voice_concealed_samples_correction, counter} \subseteq Nat
  /\ timer \in 0 .. ReportInterval - 1 /\ ticks \in 0 .. LoggingPeriod - 1
  /\ last_logged_value \in -1 .. concealed_samples
  /\ {rate, sample_rate} \subseteq Rates

\* Whatever the order of expansions and corrections, of voice and of noise,
\* the counter of concealed samples is the most samples that ever were
\* concealed, so that it never goes back and no sample counts twice; the same
\* holds for voice; and every outage is in one report, or in the next.
CountsTrue ==
  /\ concealed_samples = most
  /\ voice_concealed_samples = voice_most
  /\ reported + counter = outages
=============================================================================
