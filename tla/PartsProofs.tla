---------------------------- MODULE PartsProofs ----------------------------
(***************************************************************************)
(* Theorems about the parts that MCParts runs, for every value of their    *)
(* constants: the counters of the statistics, the histograms of the        *)
(* metrics, the packet buffer under any caller, the delay estimation of    *)
(* AEC3, the intake of RTP packets, the packer of H.264 and the tones of   *)
(* NetEq.  The delays of NetEq are in NetEqProofs.                         *)
(***************************************************************************)
EXTENDS MCPackets, MCCounters, MCDelays, PacketListProofs, FiniteSetTheorems

-----------------------------------------------------------------------------
(* The counters of statistics_calculator.cc.  What makes CountsTrue          *)
(* inductive is what is owed: the samples concealed are those counted, less  *)
(* the correction that has still to be made up for.                          *)

Owing ==
  /\ {total, voice_total, outages, reported} \subseteq Int
  /\ total = concealed_samples - concealed_samples_correction
  /\ voice_total = voice_concealed_samples - voice_concealed_samples_correction

CountersInv == Counters!TypeOK /\ Owing /\ Counters!CountsTrue

\* One counter: the samples n more, or less, that come to a sum, whose
\* greatest value is what was counted.
LEMMA OneCounter ==
  ASSUME NEW count \in Nat, NEW owed \in Nat, NEW sum \in Int, NEW n \in Int,
         sum = count - owed
  PROVE  /\ Counters!Counted(owed, n) \in Nat
         /\ Counters!Owed(owed, n) \in Nat
         /\ sum + n = count + Counters!Counted(owed, n) - Counters!Owed(owed, n)
         /\ count + Counters!Counted(owed, n) = Counters!Greater(count, sum + n)
  BY DEF Counters!Counted, Counters!Owed, Counters!Lesser, Counters!Greater

LEMMA CorrectionKeeps ==
  ASSUME CountersInv, NEW n \in Int, NEW is_voice \in BOOLEAN,
         Counters!ConcealedSamplesCorrection(n, is_voice)
  PROVE  CountersInv'
<1>1. /\ {concealed_samples', concealed_samples_correction'} \subseteq Nat
      /\ total' \in Int
      /\ total' = concealed_samples' - concealed_samples_correction'
      /\ concealed_samples' = most'
      /\ concealed_samples' >= concealed_samples
  <2> DEFINE more == Counters!Counted(concealed_samples_correction, n)
             owed == Counters!Owed(concealed_samples_correction, n)
  <2>1. /\ concealed_samples \in Nat /\ total \in Int /\ most = concealed_samples
        /\ more \in Nat /\ owed \in Nat
        /\ total + n = concealed_samples + more - owed
        /\ concealed_samples + more = Counters!Greater(concealed_samples, total + n)
    <3>1. /\ concealed_samples \in Nat /\ concealed_samples_correction \in Nat
          /\ total \in Int /\ total = concealed_samples - concealed_samples_correction
          /\ most = concealed_samples
      BY DEF CountersInv, Counters!TypeOK, Owing, Counters!CountsTrue
    <3> QED
      BY <3>1, OneCounter
  <2>2. /\ concealed_samples' = concealed_samples + more
        /\ concealed_samples_correction' = owed
        /\ total' = total + n /\ most' = Counters!Greater(most, total + n)
    BY DEF Counters!ConcealedSamplesCorrection
  <2> HIDE DEF more, owed
  <2> QED
    BY <2>1, <2>2
<1>2. /\ {voice_concealed_samples', voice_concealed_samples_correction'} \subseteq Nat
      /\ voice_total' \in Int
      /\ voice_total' = voice_concealed_samples' - voice_concealed_samples_correction'
      /\ voice_concealed_samples' = voice_most'
  <2>1. CASE is_voice
    <3> DEFINE more == Counters!Counted(voice_concealed_samples_correction, n)
               owed == Counters!Owed(voice_concealed_samples_correction, n)
    <3>1. /\ voice_concealed_samples \in Nat /\ voice_total \in Int
          /\ voice_most = voice_concealed_samples
          /\ more \in Nat /\ owed \in Nat
          /\ voice_total + n = voice_concealed_samples + more - owed
          /\ voice_concealed_samples + more = Counters!Greater(voice_concealed_samples,
               voice_total + n)
      <4>1. /\ voice_concealed_samples \in Nat /\ voice_concealed_samples_correction \in Nat
            /\ voice_total \in Int
            /\ voice_total = voice_concealed_samples - voice_concealed_samples_correction
            /\ voice_most = voice_concealed_samples
        BY DEF CountersInv, Counters!TypeOK, Owing, Counters!CountsTrue
      <4> QED
        BY <4>1, OneCounter
    <3>2. /\ voice_concealed_samples' = voice_concealed_samples + more
          /\ voice_concealed_samples_correction' = owed
          /\ voice_total' = voice_total + n /\ voice_most' = Counters!Greater(voice_most,
               voice_total + n)
      BY <2>1 DEF Counters!ConcealedSamplesCorrection
    <3> HIDE DEF more, owed
    <3> QED
      BY <3>1, <3>2
  <2>2. CASE ~is_voice
    BY <2>2 DEF CountersInv, Counters!TypeOK, Owing, Counters!CountsTrue,
         Counters!ConcealedSamplesCorrection, Counters!voice_concealed
  <2> QED
    BY <2>1, <2>2
<1>3. UNCHANGED <<counter, timer, outages, reported, last_logged_value, sample_rate,
                  ticks, rate>>
  BY DEF Counters!ConcealedSamplesCorrection, Counters!outage, Counters!logger
<1>4. last_logged_value' \in -1 .. concealed_samples'
  BY <1>1, <1>3 DEF CountersInv, Counters!TypeOK
<1> QED
  BY <1>1, <1>2, <1>3, <1>4 DEF CountersInv, Counters!TypeOK, Owing, Counters!CountsTrue

LEMMA OutageKeeps ==
  ASSUME CountersInv, Counters!LogDelayedPacketOutageEvent
  PROVE  CountersInv'
  BY DEF CountersInv, Counters!TypeOK, Owing, Counters!CountsTrue,
       Counters!LogDelayedPacketOutageEvent, Counters!concealed,
         Counters!voice_concealed, Counters!logger

\* The clock and the sample counter go on; the concealed samples do not.
LEMMA GetAudioKeeps ==
  ASSUME CountersInv, Counters!GetAudio
  PROVE  CountersInv'
<1>1. /\ timer' \in 0 .. ReportInterval - 1 /\ counter' \in Nat /\ reported' \in Int
      /\ reported' + counter' = outages' /\ outages' = outages
  BY CounterAssumption DEF CountersInv, Counters!TypeOK, Owing, Counters!CountsTrue,
       Counters!GetAudio, Counters!AdvanceClock
<1>2. /\ ticks' \in 0 .. LoggingPeriod - 1
      /\ last_logged_value' \in -1 .. concealed_samples
      /\ sample_rate' \in Counters!Rates
  BY CounterAssumption DEF CountersInv, Counters!TypeOK, Counters!GetAudio,
       Counters!UpdateSampleCounter
<1>3. UNCHANGED <<Counters!concealed, Counters!voice_concealed, rate>>
  BY DEF Counters!GetAudio
<1> QED
  BY <1>1, <1>2, <1>3 DEF CountersInv, Counters!TypeOK, Owing, Counters!CountsTrue,
       Counters!concealed, Counters!voice_concealed

LEMMA CountersInductive == CountersInv /\ [Counters!Next]_(Counters!vars) => CountersInv'
<1> SUFFICES ASSUME CountersInv, [Counters!Next]_(Counters!vars) PROVE CountersInv'
  OBVIOUS
<1>1. ASSUME NEW is_voice \in BOOLEAN, NEW n \in 1 .. Frame, Counters!Expanded(n, is_voice)
      PROVE  CountersInv'
  BY CounterAssumption, <1>1, CorrectionKeeps DEF Counters!Expanded
<1>2. ASSUME NEW is_voice \in BOOLEAN, NEW n \in Corrections,
             Counters!ExpandedCorrection(n, is_voice)
      PROVE  CountersInv'
  BY CounterAssumption, <1>2, CorrectionKeeps DEF Counters!ExpandedCorrection
<1>3. CASE Counters!LogDelayedPacketOutageEvent
  BY <1>3, OutageKeeps
<1>4. CASE Counters!GetAudio
  BY <1>4, GetAudioKeeps
<1>5. ASSUME NEW fs \in Counters!Rates, Counters!SetSampleRate(fs) PROVE CountersInv'
  BY <1>5 DEF Counters!SetSampleRate, CountersInv, Counters!TypeOK, Owing, Counters!CountsTrue,
       Counters!concealed, Counters!voice_concealed,
              Counters!outage, Counters!logger
<1>6. CASE UNCHANGED Counters!vars
  BY <1>6 DEF Counters!vars, CountersInv, Counters!TypeOK, Owing, Counters!CountsTrue,
       Counters!concealed, Counters!voice_concealed, Counters!outage,
              Counters!logger
<1> QED
  BY <1>1, <1>2, <1>3, <1>4, <1>5, <1>6 DEF Counters!Next

LEMMA CountersInvariance == Counters!Spec => []CountersInv
<1>1. Counters!Init => CountersInv
  BY CounterAssumption DEF Counters!Init, CountersInv, Counters!TypeOK, Owing,
       Counters!CountsTrue
<1>2. CountersInv /\ [Counters!Next]_(Counters!vars) => CountersInv'
  BY CountersInductive
<1> QED
  BY <1>1, <1>2, PTL DEF Counters!Spec

\* The counters of concealed samples are the most samples that ever were
\* concealed, whatever corrections follow, and no outage is reported twice.
THEOREM NothingCountsTwice == Counters!Spec => []CountsTrue
<1>1. CountersInv => CountsTrue
  BY DEF CountersInv, CountsTrue
<1> QED
  BY <1>1, CountersInvariance, PTL

\* No reader who polls a counter of concealed samples ever sees it go back.
THEOREM CountersNeverGoBack ==
  Counters!Spec => [][/\ concealed_samples' >= concealed_samples
                    /\ voice_concealed_samples' >= voice_concealed_samples]_(Counters!vars)
<1> DEFINE Back == /\ concealed_samples' >= concealed_samples
                   /\ voice_concealed_samples' >= voice_concealed_samples
<1>1. ASSUME CountersInv, Counters!Next PROVE Back
  <2>1. ASSUME NEW is_voice \in BOOLEAN, NEW n \in Int,
               Counters!ConcealedSamplesCorrection(n, is_voice)
        PROVE  Back
    <3>1. /\ Counters!Counted(concealed_samples_correction, n) \in Nat
          /\ Counters!Counted(voice_concealed_samples_correction, n) \in Nat
      BY <1>1, OneCounter DEF CountersInv, Counters!TypeOK, Owing
    <3> QED
      BY <1>1, <2>1, <3>1 DEF CountersInv, Counters!TypeOK,
           Counters!ConcealedSamplesCorrection, Counters!voice_concealed
  <2>2. CASE UNCHANGED <<Counters!concealed, Counters!voice_concealed>>
    BY <1>1, <2>2 DEF Counters!concealed, Counters!voice_concealed, CountersInv, Counters!TypeOK
  <2> QED
    BY CounterAssumption, <1>1, <2>1, <2>2
       DEF Counters!Next, Counters!Expanded, Counters!ExpandedCorrection,
            Counters!LogDelayedPacketOutageEvent,
           Counters!GetAudio, Counters!SetSampleRate
<1>2. CountersInv /\ [Counters!Next]_(Counters!vars) => [Back]_(Counters!vars)
  BY <1>1
<1> QED
  BY <1>2, CountersInvariance, PTL DEF Counters!Spec

-----------------------------------------------------------------------------
(* The histograms of metrics.cc.  Two facts carry the proof: no two names    *)
(* share a histogram, so that what is added to one or taken from it changes  *)
(* no other sum; and a thread that is about to add holds the histogram that  *)
(* the map has.                                                              *)

Tallies == [Counts!Values -> Nat]
Busy == [at : {"get", "swap", "add"}, place : Site, sample : Samples, histogram : Nat]

CountsTyped ==
  /\ histograms \in Seq(Tallies)
  /\ map \in [Counts!Names -> 0 .. Len(histograms)]
  /\ atomic_histogram_pointer \in [Fast -> Nat]
  /\ pc \in [Thread -> {Counts!Out} \cup Busy]
  /\ added \in [Counts!Names -> Tallies]
  /\ collected \in [Counts!Names -> Tallies]
  /\ dropped \in [Counts!Names -> Tallies]

NoneShared == \A m, n \in Counts!Names : map[m] # 0 /\ map[m] = map[n] => m = n

Visited == \A n \in collecting : n \in Counts!Names /\ map[n] # 0

Held(t) == pc[t].histogram = map[Name[pc[t].place]] /\ pc[t].histogram # 0

HeldByThreads == \A t \in Thread : pc[t].at \in {"swap", "add"} => Held(t)

Remembered == \A p \in Fast : atomic_histogram_pointer[p] \in {0, map[Name[p]]}

InHistogram(n, v) == IF map[n] = 0 THEN 0 ELSE histograms[map[n]][v]

Balanced ==
  \A n \in Counts!Names, v \in Counts!Values :
    added[n][v] = collected[n][v] + dropped[n][v] + InHistogram(n, v)

CountsInv == CountsTyped /\ NoneShared /\ Visited /\ HeldByThreads /\ Remembered /\ Balanced

LEMMA Named == ASSUME NEW p \in Site PROVE Name[p] \in Counts!Names
  BY DEF Counts!Names

\* Of a thread in a macro the place, the sample and the histogram are known.
LEMMA BusyThread ==
  ASSUME CountsTyped, NEW t \in Thread, pc[t].at \in {"get", "swap", "add"}
  PROVE  /\ pc[t] \in Busy /\ pc[t].place \in Site /\ pc[t].histogram \in Nat
         /\ Name[pc[t].place] \in Counts!Names
  BY Named DEF CountsTyped, Counts!Out, Busy

LEMMA EnableKeeps == ASSUME CountsInv, Counts!Enable PROVE CountsInv'
  BY DEF CountsInv, CountsTyped, NoneShared, Visited, HeldByThreads, Held, Remembered, Balanced,
         InHistogram, Counts!Enable, Counts!history

LEMMA CallKeeps ==
  ASSUME CountsInv, NEW t \in Thread, NEW p \in Site, NEW sample \in Samples,
         Counts!Call(t, p, sample)
  PROVE  CountsInv'
<1> DEFINE pointer == IF p \in Fast THEN atomic_histogram_pointer[p] ELSE 0
           busy == [at |-> IF pointer = 0 THEN "get" ELSE "add",
                    place |-> p, sample |-> sample, histogram |-> pointer]
<1>1. pc' = [pc EXCEPT ![t] = busy]
  BY DEF Counts!Call
<1>2. pointer \in Nat /\ (pointer = 0 \/ pointer = map[Name[p]])
  BY DEF CountsInv, CountsTyped, Remembered
<1> HIDE DEF pointer
<1>3. busy \in Busy /\ busy.place = p /\ busy.histogram = pointer
        /\ (busy.at = "get" \/ (busy.at = "add" /\ pointer # 0))
  <2>1. (IF pointer = 0 THEN "get" ELSE "add") \in {"get", "add"}
    OBVIOUS
  <2>2. busy \in Busy
    BY <1>2, <2>1 DEF Busy
  <2>3. busy.place = p /\ busy.histogram = pointer
    OBVIOUS
  <2>4. busy.at = "get" \/ (busy.at = "add" /\ pointer # 0)
    OBVIOUS
  <2> QED
    BY <2>2, <2>3, <2>4
<1> HIDE DEF busy
<1>4. CountsTyped'
  BY <1>1, <1>3 DEF CountsInv, CountsTyped, Counts!Call, Counts!history
<1>5. HeldByThreads'
  BY <1>1, <1>2, <1>3 DEF CountsInv, CountsTyped, HeldByThreads, Held, Counts!Call
<1> QED
  BY <1>4, <1>5 DEF CountsInv, NoneShared, Visited, Remembered, Balanced, InHistogram,
       Counts!Call, Counts!history

\* A histogram that is new has no histograms, and no other name has it.
LEMMA GetKeeps ==
  ASSUME CountsInv, NEW t \in Thread, Counts!Get(t)
  PROVE  CountsInv'
<1> DEFINE p == pc[t].place
           n == Name[p]
           h == Counts!Find(n)
<1>1. pc[t] \in Busy /\ p \in Site /\ n \in Counts!Names
  BY BusyThread DEF CountsInv, Counts!Get
<1>2. CASE ~enabled
  <2>1. pc' = [pc EXCEPT ![t] = Counts!Out] /\ UNCHANGED <<map, histograms>>
    BY <1>2 DEF Counts!Get
  <2>2. CountsTyped' /\ HeldByThreads'
    BY <2>1 DEF CountsInv, CountsTyped, HeldByThreads, Held, Counts!Out, Counts!Get,
         Counts!history
  <2> QED
    BY <2>1, <2>2 DEF CountsInv, NoneShared, Visited, Remembered, Balanced, InHistogram,
         Counts!Get, Counts!history
<1>3. CASE enabled
  <2> DEFINE to == IF p \in Fast THEN "swap" ELSE "add"
  <2>1. /\ collecting = {} /\ collecting' = {}
        /\ map' = [map EXCEPT ![n] = h]
        /\ histograms' = IF h \in DOMAIN histograms THEN histograms ELSE Append(histograms,
             Counts!NoSamples)
        /\ pc' = [pc EXCEPT ![t] = [pc[t] EXCEPT !.at = to, !.histogram = h]]
        /\ UNCHANGED <<atomic_histogram_pointer, added, collected, dropped>>
    BY <1>3 DEF Counts!Get, CountsInv, CountsTyped, Counts!history
  <2>2. Counts!NoSamples \in Tallies /\ \A v \in Counts!Values : Counts!NoSamples[v] = 0
    BY DEF Counts!NoSamples, Tallies
  <2>3. \/ /\ map[n] # 0 /\ h = map[n] /\ h \in 1 .. Len(histograms)
           /\ histograms' = histograms
        \/ /\ map[n] = 0 /\ h = Len(histograms) + 1
           /\ histograms' = Append(histograms, Counts!NoSamples)
    <3>1. DOMAIN histograms = 1 .. Len(histograms) /\ Len(histograms) \in Nat
      BY DEF CountsInv, CountsTyped
    <3>2. CASE map[n] # 0
      <4>1. h = map[n] /\ map[n] \in 1 .. Len(histograms)
        BY <1>1, <3>1, <3>2 DEF CountsInv, CountsTyped, Counts!Find
      <4> QED
        BY <2>1, <3>1, <3>2, <4>1
    <3>3. CASE map[n] = 0
      <4>1. h = Len(histograms) + 1 /\ h \notin DOMAIN histograms
        BY <3>1, <3>3 DEF Counts!Find
      <4> QED
        BY <2>1, <3>3, <4>1
    <3> QED
      BY <3>2, <3>3
  <2>4. /\ histograms' \in Seq(Tallies) /\ Len(histograms') >= Len(histograms)
        /\ h \in 1 .. Len(histograms')
        /\ \A i \in 1 .. Len(histograms) : histograms'[i] = histograms[i]
    <3> HIDE DEF h
    <3>1. histograms \in Seq(Tallies) /\ Len(histograms) \in Nat /\ Counts!NoSamples \in Tallies
      BY <2>2 DEF CountsInv, CountsTyped
    <3>2. CASE histograms' = histograms
      BY <2>3, <3>1, <3>2
    <3>3. CASE h = Len(histograms) + 1 /\ histograms' = Append(histograms, Counts!NoSamples)
      BY <3>1, <3>3
    <3> QED
      BY <2>3, <3>2, <3>3
  <2> HIDE DEF h
  <2>5. /\ map'[n] = h /\ \A m \in Counts!Names \ {n} : map'[m] = map[m]
        /\ map' \in [Counts!Names -> 0 .. Len(histograms')]
    <3>1. map \in [Counts!Names -> 0 .. Len(histograms)] /\ Len(histograms) \in Nat /\
         Len(histograms') \in Nat
      BY <2>4 DEF CountsInv, CountsTyped
    <3>2. \A m \in Counts!Names : map[m] \in 0 .. Len(histograms')
      BY <2>4, <3>1
    <3>3. h \in 0 .. Len(histograms')
      BY <2>4, <3>1
    <3>4. map' \in [Counts!Names -> 0 .. Len(histograms')]
      BY <1>1, <2>1, <3>1, <3>2, <3>3
    <3>5. map'[n] = h /\ \A m \in Counts!Names \ {n} : map'[m] = map[m]
      BY <1>1, <2>1, <3>1
    <3> QED
      BY <3>4, <3>5
  <2>6. [pc[t] EXCEPT !.at = to, !.histogram = h] \in Busy
    <3>1. to \in {"get", "swap", "add"} /\ h \in Nat
      BY <2>4
    <3> HIDE DEF to
    <3> QED
      BY <1>1, <3>1, Zenon DEF Busy
  <2>7. CountsTyped'
    BY <2>1, <2>4, <2>5, <2>6 DEF CountsInv, CountsTyped
  <2>8. NoneShared'
    BY <2>3, <2>5 DEF CountsInv, CountsTyped, NoneShared
  <2>9. HeldByThreads'
    <3> SUFFICES ASSUME NEW u \in Thread, pc'[u].at \in {"swap", "add"} PROVE Held(u)'
      BY DEF HeldByThreads
    <3>1. CASE u = t
      BY <1>1, <2>1, <2>4, <2>5, <3>1 DEF Held, Busy, CountsInv, CountsTyped
    <3>2. CASE u # t
      <4>1. pc'[u] = pc[u] /\ Held(u) /\ Name[pc[u].place] \in Counts!Names
        BY <2>1, <3>2, BusyThread DEF CountsInv, CountsTyped, HeldByThreads
      <4>2. map'[Name[pc[u].place]] = map[Name[pc[u].place]]
        BY <2>3, <2>5, <4>1 DEF Held
      <4> QED
        BY <4>1, <4>2 DEF Held
    <3> QED
      BY <3>1, <3>2
  <2>10. Remembered'
    <3> SUFFICES ASSUME NEW q \in Fast
                 PROVE  atomic_histogram_pointer[q] \in {0, map'[Name[q]]}
      BY <2>1 DEF Remembered
    <3>1. atomic_histogram_pointer[q] \in {0, map[Name[q]]}
      BY DEF CountsInv, Remembered
    <3>2. Name[q] \in Counts!Names
      BY MetricsAssumption, Named
    <3>3. map'[Name[q]] = map[Name[q]] \/ map[Name[q]] = 0
      BY <2>3, <2>5, <3>2
    <3> QED
      BY <3>1, <3>3
  <2>11. Balanced'
    <3> SUFFICES ASSUME NEW m \in Counts!Names, NEW v \in Counts!Values
                 PROVE  InHistogram(m, v)' = InHistogram(m, v)
      BY <2>1 DEF CountsInv, Balanced
    <3>1. CASE m = n
      BY <1>1, <2>1, <2>2, <2>3, <2>4, <2>5, <3>1 DEF InHistogram, CountsInv, CountsTyped
    <3>2. CASE m # n
      BY <2>4, <2>5, <3>2 DEF InHistogram, CountsInv, CountsTyped
    <3> QED
      BY <3>1, <3>2
  <2> QED
    BY <2>1, <2>7, <2>8, <2>9, <2>10, <2>11 DEF CountsInv, Visited
<1> QED
  BY <1>2, <1>3

LEMMA SwapKeeps ==
  ASSUME CountsInv, NEW t \in Thread, Counts!Swap(t)
  PROVE  CountsInv'
<1> DEFINE p == pc[t].place
           h == pc[t].histogram
           new == [pc[t] EXCEPT !.at = "add"]
<1>1. pc[t] \in Busy /\ p \in Site /\ h \in Nat /\ Held(t)
  BY BusyThread DEF CountsInv, Counts!Swap, HeldByThreads
<1>2. /\ atomic_histogram_pointer' =
           [atomic_histogram_pointer EXCEPT ![p] = IF @ = 0 THEN h ELSE @]
      /\ pc' = [pc EXCEPT ![t] = new]
      /\ UNCHANGED <<map, histograms, collecting, added, collected, dropped>>
  BY DEF Counts!Swap, CountsInv, CountsTyped, Counts!history
<1>3. new \in Busy /\ new.place = p /\ new.histogram = h
  BY <1>1 DEF Busy
<1> HIDE DEF new
<1>4. CountsTyped'
  BY <1>1, <1>2, <1>3 DEF CountsInv, CountsTyped
<1>5. HeldByThreads'
  BY <1>1, <1>2, <1>3 DEF CountsInv, CountsTyped, HeldByThreads, Held
<1>6. Remembered'
  BY <1>1, <1>2 DEF CountsInv, CountsTyped, Remembered, Held
<1> QED
  BY <1>2, <1>4, <1>5, <1>6 DEF CountsInv, NoneShared, Visited, Balanced, InHistogram

LEMMA ClampedIsValue ==
  ASSUME NEW s \in Samples
  PROVE  Counts!Clamped(s) \in Counts!Values
  BY MetricsAssumption DEF Counts!Clamped, Counts!Values

LEMMA CountsAreNumbers ==
  ASSUME CountsTyped, NEW n \in Counts!Names, NEW v \in Counts!Values
  PROVE  /\ added[n][v] \in Nat /\ collected[n][v] \in Nat /\ dropped[n][v] \in Nat
         /\ InHistogram(n, v) \in Nat
  BY DEF CountsTyped, Tallies, InHistogram

\* A sample is added to the histogram of its name alone, or to those dropped.
LEMMA AddKeeps ==
  ASSUME CountsInv, NEW t \in Thread, Counts!Add(t)
  PROVE  CountsInv'
<1> DEFINE p == pc[t].place
           n == Name[p]
           h == pc[t].histogram
           v == Counts!Clamped(pc[t].sample)
<1>1. /\ pc[t] \in Busy /\ n \in Counts!Names /\ v \in Counts!Values
      /\ h = map[n] /\ h # 0 /\ h \in 1 .. Len(histograms)
  <2>1. pc[t] \in Busy /\ n \in Counts!Names /\ Held(t)
    BY BusyThread DEF CountsInv, Counts!Add, HeldByThreads
  <2>2. v \in Counts!Values
    BY <2>1, ClampedIsValue DEF Busy
  <2> QED
    BY <2>1, <2>2 DEF Held, CountsInv, CountsTyped
<1>2. /\ pc' = [pc EXCEPT ![t] = Counts!Out]
      /\ added' = [added EXCEPT ![n][v] = @ + 1]
      /\ UNCHANGED <<map, atomic_histogram_pointer, collecting, collected>>
      /\ \/ dropped' = [dropped EXCEPT ![n][v] = @ + 1] /\ UNCHANGED histograms
         \/ histograms' = [histograms EXCEPT ![h][v] = @ + 1] /\ UNCHANGED dropped
  BY DEF Counts!Add
<1> HIDE DEF n, h, v
<1>3. pc' \in [Thread -> {Counts!Out} \cup Busy]
  BY <1>2 DEF CountsInv, CountsTyped
<1>4. ASSUME dropped' \in [Counts!Names -> Tallies], histograms' \in Seq(Tallies),
              Len(histograms') = Len(histograms), added' \in [Counts!Names -> Tallies]
       PROVE  CountsTyped'
  <2>1. /\ map' \in [Counts!Names -> 0 .. Len(histograms')]
        /\ atomic_histogram_pointer' \in [Fast -> Nat]
        /\ collected' \in [Counts!Names -> Tallies]
    BY <1>2, <1>4 DEF CountsInv, CountsTyped
  <2> QED
    BY <1>3, <1>4, <2>1 DEF CountsTyped
<1>5. /\ added' \in [Counts!Names -> Tallies]
      /\ added'[n][v] = added[n][v] + 1
      /\ \A m \in Counts!Names, w \in Counts!Values : m # n \/ w # v => added'[m][w] =
           added[m][w]
  <2>1. added \in [Counts!Names -> Tallies]
    BY DEF CountsInv, CountsTyped
  <2> DEFINE row == [added[n] EXCEPT ![v] = added[n][v] + 1]
  <2>2. /\ row \in Tallies /\ row[v] = added[n][v] + 1
        /\ \A w \in Counts!Values \ {v} : row[w] = added[n][w]
    BY <1>1, <2>1 DEF Tallies
  <2>3. added' = [added EXCEPT ![n] = row]
    BY <1>2
  <2> HIDE DEF row
  <2>4. /\ added' \in [Counts!Names -> Tallies] /\ added'[n] = row
        /\ \A m \in Counts!Names \ {n} : added'[m] = added[m]
    BY <1>1, <2>1, <2>2, <2>3
  <2> QED
    BY <2>2, <2>4
<1>6. ASSUME dropped' = [dropped EXCEPT ![n][v] = @ + 1], UNCHANGED histograms
      PROVE  CountsTyped' /\ Balanced'
  <2>1. dropped \in [Counts!Names -> Tallies] /\ histograms \in Seq(Tallies)
    BY DEF CountsInv, CountsTyped
  <2>2. /\ dropped' \in [Counts!Names -> Tallies]
        /\ dropped'[n][v] = dropped[n][v] + 1
        /\ \A m \in Counts!Names, w \in Counts!Values : m # n \/ w # v => dropped'[m][w] =
             dropped[m][w]
    <3> DEFINE row == [dropped[n] EXCEPT ![v] = dropped[n][v] + 1]
    <3>1. /\ row \in Tallies /\ row[v] = dropped[n][v] + 1
          /\ \A w \in Counts!Values \ {v} : row[w] = dropped[n][w]
      BY <1>1, <2>1 DEF Tallies
    <3>2. dropped' = [dropped EXCEPT ![n] = row]
      BY <1>6
    <3> HIDE DEF row
    <3>3. /\ dropped' \in [Counts!Names -> Tallies] /\ dropped'[n] = row
          /\ \A m \in Counts!Names \ {n} : dropped'[m] = dropped[m]
      BY <1>1, <2>1, <3>1, <3>2
    <3> QED
      BY <3>1, <3>3
  <2>3. \A m \in Counts!Names, w \in Counts!Values : InHistogram(m, w)' = InHistogram(m, w)
    BY <1>2, <1>6 DEF InHistogram
  <2>4. Balanced'
    <3> SUFFICES ASSUME NEW m \in Counts!Names, NEW w \in Counts!Values
                 PROVE  added'[m][w] = collected[m][w] + dropped'[m][w] + InHistogram(m, w)
      BY <1>2, <2>3 DEF Balanced
    <3>1. /\ added[m][w] = collected[m][w] + dropped[m][w] + InHistogram(m, w)
          /\ collected[m][w] \in Nat /\ dropped[m][w] \in Nat /\ InHistogram(m, w) \in Nat
      BY CountsAreNumbers DEF CountsInv, Balanced
    <3>2. CASE m = n /\ w = v
      <4>1. added'[m][w] = added[m][w] + 1 /\ dropped'[m][w] = dropped[m][w] + 1
        BY <1>5, <2>2, <3>2
      <4> QED
        BY <3>1, <4>1
    <3>3. CASE m # n \/ w # v
      BY <1>5, <2>2, <3>1, <3>3
    <3> QED
      BY <3>2, <3>3
  <2>5. histograms' = histograms
    BY <1>6
  <2>6. CountsTyped'
    BY <1>5, <1>4, <2>1, <2>2, <2>5
  <2> QED
    BY <2>4, <2>6
<1>7. ASSUME histograms' = [histograms EXCEPT ![h][v] = @ + 1], UNCHANGED dropped
      PROVE  CountsTyped' /\ Balanced'
  <2>1. histograms \in Seq(Tallies) /\ histograms[h] \in Tallies /\ dropped \in [Counts!Names
       -> Tallies]
    BY <1>1 DEF CountsInv, CountsTyped
  <2>2. /\ histograms' \in Seq(Tallies) /\ Len(histograms') = Len(histograms)
        /\ histograms'[h][v] = histograms[h][v] + 1
        /\ \A w \in Counts!Values \ {v} : histograms'[h][w] = histograms[h][w]
        /\ \A i \in 1 .. Len(histograms) : i # h => histograms'[i] = histograms[i]
    <3> DEFINE more == [histograms[h] EXCEPT ![v] = histograms[h][v] + 1]
    <3>1. /\ more \in Tallies /\ more[v] = histograms[h][v] + 1
          /\ \A w \in Counts!Values \ {v} : more[w] = histograms[h][w]
      BY <1>1, <2>1 DEF Tallies
    <3>2. histograms' = [histograms EXCEPT ![h] = more]
      BY <1>7
    <3> HIDE DEF more
    <3>3. /\ histograms' \in Seq(Tallies) /\ Len(histograms') = Len(histograms)
          /\ histograms'[h] = more
          /\ \A i \in 1 .. Len(histograms) : i # h => histograms'[i] = histograms[i]
      BY <1>1, <2>1, <3>1, <3>2
    <3> QED
      BY <3>1, <3>3
  <2>3. Balanced'
    <3> SUFFICES ASSUME NEW m \in Counts!Names, NEW w \in Counts!Values
                 PROVE  added'[m][w] = collected[m][w] + dropped[m][w] + InHistogram(m, w)'
      BY <1>2, <1>7 DEF Balanced
    <3>1. /\ added[m][w] = collected[m][w] + dropped[m][w] + InHistogram(m, w)
          /\ collected[m][w] \in Nat /\ dropped[m][w] \in Nat /\ InHistogram(m, w) \in Nat
      BY CountsAreNumbers DEF CountsInv, Balanced
    <3>2. CASE m = n /\ w = v
      <4>1. InHistogram(m, w) = histograms[h][v] /\ InHistogram(m, w)' = histograms'[h][v]
        BY <1>1, <1>2, <3>2 DEF InHistogram
      <4>2. InHistogram(m, w)' = InHistogram(m, w) + 1
        BY <2>2, <4>1
      <4> QED
        BY <1>5, <3>1, <3>2, <4>2
    <3>3. CASE m # n \/ w # v
      <4>1. map[m] # 0 => map[m] \in 1 .. Len(histograms)
        BY DEF CountsInv, CountsTyped
      <4>2. map[m] # 0 /\ m # n => map[m] # h
        BY <1>1 DEF CountsInv, NoneShared
      <4>3. InHistogram(m, w)' = InHistogram(m, w)
        BY <1>1, <1>2, <2>2, <3>3, <4>1, <4>2 DEF InHistogram
      <4> QED
        BY <1>5, <3>1, <3>3, <4>3
    <3> QED
      BY <3>2, <3>3
  <2> QED
    BY <1>5, <1>7, <1>4, <2>1, <2>2, <2>3
<1>8. CountsTyped' /\ Balanced'
  BY <1>2, <1>6, <1>7
<1>9. HeldByThreads'
  BY <1>2 DEF CountsInv, CountsTyped, HeldByThreads, Held, Counts!Out
<1> QED
  BY <1>2, <1>8, <1>9 DEF CountsInv, NoneShared, Visited, Remembered

\* The collection begins with every histogram there is, and takes from one at
\* a time what it reports.
LEMMA GetAndResetKeeps == ASSUME CountsInv, Counts!GetAndReset PROVE CountsInv'
  BY DEF CountsInv, CountsTyped, NoneShared, Visited, HeldByThreads, Held, Remembered, Balanced,
         InHistogram, Counts!GetAndReset, Counts!history

LEMMA GetAndResetOneKeeps ==
  ASSUME CountsInv, NEW n \in Counts!Names, Counts!GetAndResetOne(n)
  PROVE  CountsInv'
<1> DEFINE h == map[n]
           count == [v \in Counts!Values |-> collected[n][v] + histograms[h][v]]
<1>1. h \in 1 .. Len(histograms) /\ histograms \in Seq(Tallies) /\ histograms[h] \in Tallies
  BY DEF CountsInv, CountsTyped, Visited, Counts!GetAndResetOne
<1>2. /\ collected' = [collected EXCEPT ![n] = count]
      /\ histograms' = [histograms EXCEPT ![h] = Counts!NoSamples]
      /\ collecting' \subseteq collecting
      /\ UNCHANGED <<map, atomic_histogram_pointer, pc, added, dropped>>
  BY DEF Counts!GetAndResetOne
<1>3. Counts!NoSamples \in Tallies /\ \A v \in Counts!Values : Counts!NoSamples[v] = 0
  BY DEF Counts!NoSamples, Tallies
<1>4. count \in Tallies /\ \A v \in Counts!Values : count[v] = collected[n][v] +
     histograms[h][v]
  BY <1>1 DEF Tallies, CountsInv, CountsTyped
<1> HIDE DEF h, count
<1>5. /\ histograms' \in Seq(Tallies) /\ Len(histograms') = Len(histograms)
      /\ histograms'[h] = Counts!NoSamples
      /\ \A i \in 1 .. Len(histograms) : i # h => histograms'[i] = histograms[i]
  BY <1>1, <1>2, <1>3
<1>6. /\ collected' \in [Counts!Names -> Tallies] /\ collected'[n] = count
      /\ \A m \in Counts!Names : m # n => collected'[m] = collected[m]
  BY <1>2, <1>4 DEF CountsInv, CountsTyped
<1>7. CountsTyped'
  BY <1>2, <1>5, <1>6 DEF CountsInv, CountsTyped
<1>8. Balanced'
  <2> SUFFICES ASSUME NEW m \in Counts!Names, NEW v \in Counts!Values
               PROVE  added[m][v] = collected'[m][v] + dropped[m][v] + InHistogram(m, v)'
    BY <1>2 DEF Balanced
  <2>1. /\ added[m][v] = collected[m][v] + dropped[m][v] + InHistogram(m, v)
        /\ collected[m][v] \in Nat /\ dropped[m][v] \in Nat /\ InHistogram(m, v) \in Nat
    BY CountsAreNumbers DEF CountsInv, Balanced
  <2>2. CASE m = n
    <3>1. InHistogram(m, v)' = 0 /\ InHistogram(m, v) = histograms[h][v]
      BY <1>1, <1>2, <1>3, <1>5, <2>2 DEF InHistogram, h
    <3> QED
      BY <1>4, <1>6, <2>1, <2>2, <3>1
  <2>3. CASE m # n
    <3>1. map[m] # 0 => map[m] \in 1 .. Len(histograms) /\ map[m] # h
      BY <1>1, <2>3 DEF CountsInv, CountsTyped, NoneShared, h
    <3>2. InHistogram(m, v)' = InHistogram(m, v)
      BY <1>2, <1>5, <3>1 DEF InHistogram
    <3> QED
      BY <1>6, <2>1, <2>3, <3>2
  <2> QED
    BY <2>2, <2>3
<1> QED
  BY <1>2, <1>7, <1>8 DEF CountsInv, NoneShared, Visited, HeldByThreads, Held, Remembered

LEMMA CountsInductive == CountsInv /\ [Counts!Next]_(Counts!vars) => CountsInv'
<1> SUFFICES ASSUME CountsInv, [Counts!Next]_(Counts!vars) PROVE CountsInv'
  OBVIOUS
<1>1. CASE Counts!Enable
  BY <1>1, EnableKeeps
<1>2. ASSUME NEW t \in Thread, NEW p \in Site, NEW sample \in Samples, Counts!Call(t, p, sample)
      PROVE  CountsInv'
  BY <1>2, CallKeeps
<1>3. ASSUME NEW t \in Thread, Counts!Get(t) PROVE CountsInv'
  BY <1>3, GetKeeps
<1>4. ASSUME NEW t \in Thread, Counts!Swap(t) PROVE CountsInv'
  BY <1>4, SwapKeeps
<1>5. ASSUME NEW t \in Thread, Counts!Add(t) PROVE CountsInv'
  BY <1>5, AddKeeps
<1>6. CASE Counts!GetAndReset
  BY <1>6, GetAndResetKeeps
<1>7. ASSUME NEW n \in Counts!Names, Counts!GetAndResetOne(n) PROVE CountsInv'
  BY <1>7, GetAndResetOneKeeps
<1>8. CASE UNCHANGED Counts!vars
  BY <1>8 DEF Counts!vars, Counts!history, CountsInv, CountsTyped, NoneShared, Visited,
       HeldByThreads, Held,
              Remembered, Balanced, InHistogram
<1> QED
  BY <1>1, <1>2, <1>3, <1>4, <1>5, <1>6, <1>7, <1>8 DEF Counts!Next

\* No sample is lost or counted twice, with any number of threads that meet
\* at a macro or at a collection, and every place remembers the histogram of
\* its name.
THEOREM NoSampleIsLost == Counts!Spec => []SamplesConserved
<1>1. Counts!Init => CountsInv
  <2> SUFFICES ASSUME Counts!Init PROVE CountsInv
    OBVIOUS
  <2>1. Counts!NoSamples \in Tallies /\ \A v \in Counts!Values : Counts!NoSamples[v] = 0
    BY DEF Counts!NoSamples, Tallies
  <2>2. CountsTyped
    BY <2>1 DEF Counts!Init, CountsTyped
  <2>3. Balanced
    BY <2>1 DEF Counts!Init, Balanced, InHistogram
  <2> QED
    BY <2>2, <2>3 DEF Counts!Init, CountsInv, NoneShared, Visited, HeldByThreads, Counts!Out,
         Remembered
<1>2. CountsInv /\ [Counts!Next]_(Counts!vars) => CountsInv'
  BY CountsInductive
<1>3. CountsInv => SamplesConserved
  BY DEF CountsInv, Remembered, Balanced, InHistogram, SamplesConserved, Counts!SamplesConserved
<1> QED
  BY <1>1, <1>2, <1>3, PTL DEF Counts!Spec

-----------------------------------------------------------------------------
(* The packet buffer.  Of the copies of one time the preferred one is the    *)
(* one that the buffer places before the others, and being preferred orders  *)
(* them; what is inductive is that every time offered is held.               *)

Best(S) == {p \in S : \A q \in S : q.at = p.at => ~Preferred(q, p)}

\* A list that holds the best of what was offered.
Stands(list, S) ==
  /\ list \in Seq(Copy) /\ S \subseteq {p \in Copy : ~p.empty}
  /\ \A p, q \in S : p # q => Close(p.at, q.at)
  /\ Ordered(list)
  /\ ToSet(list) = Best(S)
  /\ \A q \in S : \E p \in ToSet(list) : p.at = q.at

BufferInv == Len(buffer) <= MaxPackets /\ Stands(buffer, offered)

\* The fields of a copy.
LEMMA Fields ==
  ASSUME NEW p \in Copy
  PROVE  /\ p \in Packet /\ p.at \in Nat /\ p.seq \in 0 .. 2 * HalfSeq - 1
         /\ p.level \in Nat /\ p.red \in Nat /\ p.empty \in BOOLEAN
<1>1. p \in Packet
  BY CopyAssumption
<1> QED
  BY <1>1 DEF Packet, Serial

\* Before orders the copies of one time as Preferred does.
LEMMA BeforePreferred ==
  ASSUME NEW p \in Copy, NEW q \in Copy, p.at = q.at
  PROVE  Before(p, q) <=> Preferred(p, q)
<1> DEFINE d == Minus(q.seq, p.seq, HalfSeq)
<1>1. HalfSeq \in Nat \ {0}
  BY CircleAssumption
<1>2. CASE p.seq # q.seq
  <2>1. d \in 1 .. 2 * HalfSeq - 1
    BY <1>1, <1>2, Fields DEF Minus
  <2>2. Before(p, q) <=> d < HalfSeq - 1
    BY <1>2 DEF Before
  <2>3. Preferred(p, q) <=> d \in 1 .. HalfSeq - 2
    BY <1>2 DEF Preferred
  <2> HIDE DEF d
  <2> QED
    BY <1>1, <2>1, <2>2, <2>3
<1>3. CASE p.seq = q.seq
  <2>1. d = 0
    BY <1>1, <1>3, Fields DEF Minus
  <2>2. Before(p, q) <=> p.level < q.level \/ (p.level = q.level /\ p.red < q.red)
    BY <1>3 DEF Before
  <2>3. ~(d \in 1 .. HalfSeq - 2)
    BY <2>1
  <2> QED
    BY <1>3, <2>2, <2>3 DEF Preferred
<1> QED
  BY <1>2, <1>3

\* How far apart the numbers of two copies of one time are.
LEMMA CopiesNear ==
  ASSUME NEW p \in Copy, NEW q \in Copy, p.at = q.at
  PROVE  \/ 2 * Minus(p.seq, q.seq, HalfSeq) <= HalfSeq - 2
         \/ 2 * Minus(q.seq, p.seq, HalfSeq) <= HalfSeq - 2
BY CopyAssumption

\* Of two copies of one time one is preferred.
LEMMA PreferredTotal ==
  ASSUME NEW p \in Copy, NEW q \in Copy, p.at = q.at, ~p.empty, ~q.empty
  PROVE  p = q \/ Preferred(p, q) \/ Preferred(q, p)
<1>1. HalfSeq \in Nat \ {0}
  BY CircleAssumption
<1>2. CASE p.seq # q.seq
  <2> DEFINE d == Minus(q.seq, p.seq, HalfSeq)  e == Minus(p.seq, q.seq, HalfSeq)
  <2>1. /\ d \in 1 .. 2 * HalfSeq - 1 /\ e \in 1 .. 2 * HalfSeq - 1
    BY <1>1, <1>2, Fields DEF Minus
  <2>2. 2 * e <= HalfSeq - 2 \/ 2 * d <= HalfSeq - 2
    BY CopiesNear
  <2>3. /\ d \in 1 .. HalfSeq - 2 => Preferred(p, q)
        /\ e \in 1 .. HalfSeq - 2 => Preferred(q, p)
    BY DEF Preferred
  <2> HIDE DEF d, e
  <2> QED
    BY <1>1, <2>1, <2>2, <2>3
<1>3. CASE p.seq = q.seq
  <2>1. p.level = q.level /\ p.red = q.red => p = q
    BY <1>3, CopyAssumption
  <2> QED
    BY <1>3, <2>1, Fields DEF Preferred
<1> QED
  BY <1>2, <1>3

\* Being preferred passes on, so that it never goes round the circle.
LEMMA PreferredTransitive ==
  ASSUME NEW p \in Copy, NEW q \in Copy, NEW r \in Copy, p.at = q.at, q.at = r.at,
         Preferred(p, q), Preferred(q, r)
  PROVE  Preferred(p, r) /\ ~Preferred(q, p)
<1> DEFINE a == p.seq  b == q.seq  c == r.seq  n == 2 * HalfSeq
<1>1. HalfSeq \in Nat \ {0} /\ a \in 0 .. n - 1 /\ b \in 0 .. n - 1 /\ c \in 0 .. n - 1
  BY CircleAssumption, Fields
<1>2. /\ 2 * Minus(a, b, HalfSeq) <= HalfSeq - 2 \/ 2 * Minus(b, a, HalfSeq) <= HalfSeq - 2
      /\ 2 * Minus(b, c, HalfSeq) <= HalfSeq - 2 \/ 2 * Minus(c, b, HalfSeq) <= HalfSeq - 2
  BY CopiesNear
<1>3. /\ Minus(b, a, HalfSeq) \in 1 .. HalfSeq - 2 \/ a = b
      /\ Minus(c, b, HalfSeq) \in 1 .. HalfSeq - 2 \/ b = c
  BY DEF Preferred
<1>4. /\ a = b => ~(Minus(b, a, HalfSeq) \in 1 .. HalfSeq - 2)
                  /\ ~(Minus(a, b, HalfSeq) \in 1 .. HalfSeq - 2)
      /\ b = c => ~(Minus(c, b, HalfSeq) \in 1 .. HalfSeq - 2)
  BY <1>1 DEF Minus
<1>5. /\ a = b => p.level < q.level \/ (p.level = q.level /\ p.red < q.red)
      /\ b = c => q.level < r.level \/ (q.level = r.level /\ q.red < r.red)
  BY <1>4 DEF Preferred
<1>6. Preferred(p, r)
  <2>1. CASE a = b /\ b = c
    BY <1>5, <2>1, Fields DEF Preferred
  <2>2. CASE a # b /\ b = c
    BY <1>3, <2>2 DEF Preferred
  <2>3. CASE a = b /\ b # c
    BY <1>3, <2>3 DEF Preferred
  <2>4. CASE a # b /\ b # c
    <3>1. Minus(b, a, HalfSeq) \in 1 .. HalfSeq - 2 /\ Minus(c, b, HalfSeq) \in 1 .. HalfSeq - 2
      BY <1>3, <2>4
    <3> HIDE DEF a, b, c
    <3>2. Minus(c, a, HalfSeq) \in 1 .. HalfSeq - 2
      BY <1>1, <1>2, <3>1 DEF Minus
    <3> QED
      BY <3>2 DEF Preferred, a, c
  <2> QED
    BY <2>1, <2>2, <2>3, <2>4
<1>7. ~Preferred(q, p)
  <2>1. CASE a = b
    BY <1>4, <1>5, <2>1, Fields DEF Preferred
  <2>2. CASE a # b
    <3>1. Minus(b, a, HalfSeq) \in 1 .. HalfSeq - 2
      BY <1>3, <2>2
    <3> HIDE DEF a, b, c
    <3>2. ~(Minus(a, b, HalfSeq) \in 1 .. HalfSeq - 2)
      BY <1>1, <3>1 DEF Minus
    <3> QED
      BY <2>2, <3>2 DEF Preferred, a, b
  <2> QED
    BY <2>1, <2>2
<1> QED
  BY <1>6, <1>7

\* A list from the buffer's, and what was offered of its times.
LEMMA RemainingStands ==
  ASSUME Stands(buffer, offered), NEW sub \in Seq(Copy), Ordered(sub),
         ToSet(sub) \subseteq ToSet(buffer)
  PROVE  Stands(sub, Remaining(sub))
<1> DEFINE rest == Remaining(sub)
<1>1. rest = {p \in offered : \E q \in ToSet(sub) : q.at = p.at}
  BY DEF Remaining
<1> HIDE DEF rest
<1>2. /\ offered \subseteq {p \in Copy : ~p.empty} /\ ToSet(buffer) = Best(offered)
      /\ \A p, q \in offered : p # q => Close(p.at, q.at)
  BY DEF Stands
<1>3. ASSUME NEW p \in ToSet(sub) PROVE p \in Best(rest)
  <2>1. p \in offered /\ \A q \in offered : q.at = p.at => ~Preferred(q, p)
    BY <1>2, <1>3 DEF Best
  <2>2. p \in rest
    BY <1>1, <1>3, <2>1
  <2> QED
    BY <1>1, <2>1, <2>2 DEF Best
<1>4. ASSUME NEW p \in Best(rest) PROVE p \in ToSet(sub)
  <2>1. p \in offered /\ \A q \in rest : q.at = p.at => ~Preferred(q, p)
    BY <1>1, <1>4 DEF Best
  <2>2. PICK q \in ToSet(sub) : q.at = p.at
    BY <1>1, <1>4 DEF Best
  <2>3. q \in offered /\ q \in rest /\ ~Preferred(p, q)
    BY <1>1, <1>2, <2>1, <2>2 DEF Best
  <2>4. p = q
    BY <1>2, <2>1, <2>2, <2>3, PreferredTotal
  <2> QED
    BY <2>4
<1>5. ToSet(sub) = Best(rest)
  BY <1>3, <1>4
<1>6. rest \subseteq offered /\ \A q \in rest : \E p \in ToSet(sub) : p.at = q.at
  BY <1>1
<1>7. /\ rest \subseteq {p \in Copy : ~p.empty}
      /\ \A p, q \in rest : p # q => Close(p.at, q.at)
  BY <1>2, <1>6
<1> QED
  BY <1>5, <1>6, <1>7 DEF Stands, rest

\* Placing a copy among the others of its time.
LEMMA PlaceKeepsBest ==
  ASSUME NEW list, NEW S, Stands(list, S),
         NEW p \in Copy, ~p.empty, \A q \in S : Close(p.at, q.at)
  PROVE  /\ Len(Place(list, p)) \in 1 .. Len(list) + 1
         /\ Stands(Place(list, p), S \cup {p})
<1> DEFINE new == Place(list, p)
<1>1. /\ list \in Seq(Copy) /\ S \subseteq {r \in Copy : ~r.empty}
      /\ Ordered(list) /\ ToSet(list) = Best(S)
      /\ \A q \in S : \E r \in ToSet(list) : r.at = q.at
  BY DEF Stands
<1>2. new \in Seq(Copy) /\ Len(new) \in 1 .. Len(list) + 1
  BY <1>1, PlaceMembers
<1>3. Ordered(new)
      /\ \/ /\ new = list
            /\ \E q \in ToSet(list) : q.at = p.at /\ ~Before(p, q)
         \/ /\ ToSet(new) = {q \in ToSet(list) : q.at # p.at} \cup {p}
            /\ \A q \in ToSet(list) : q.at = p.at => Before(p, q)
  <2>1. list \in Seq(Packet) /\ p \in Packet
    <3>1. Copy \subseteq Packet
      BY CopyAssumption
    <3>2. list \in Seq(Packet)
      BY <1>1, <3>1, SeqMonotonic
    <3> QED
      BY <3>1, <3>2
  <2>2. AllClose(list, p.at)
    BY <1>1 DEF AllClose, Best
  <2>3. PlacedInOrder(list, p, new)
    BY <1>1, <2>1, <2>2, PlaceOrdered
  <2> HIDE DEF new
  <2> QED
    BY <2>3, Zenon DEF PlacedInOrder
<1> HIDE DEF new
<1>4. /\ \A q \in ToSet(list) : q \in S
      /\ \A q \in S : q \in Copy /\ ~q.empty
  BY <1>1 DEF Best
<1>5. \A q \in S, r \in ToSet(list) : q.at = r.at => q = r \/ Preferred(r, q)
  <2> SUFFICES ASSUME NEW q \in S, NEW r \in ToSet(list), q.at = r.at
               PROVE  q = r \/ Preferred(r, q)
    OBVIOUS
  <2>1. ~Preferred(q, r)
    BY <1>1 DEF Best
  <2>2. q \in Copy /\ ~q.empty /\ r \in Copy /\ ~r.empty
    BY <1>4
  <2> QED
    BY <2>1, <2>2, PreferredTotal
<1>6. /\ \A q, r \in S \cup {p} : q # r => Close(q.at, r.at)
      /\ S \cup {p} \subseteq {r \in Copy : ~r.empty}
  <2>1. \A q \in S : Close(q.at, p.at)
    BY <1>1, CircleAssumption, Fields DEF Close
  <2> QED
    BY <1>1, <2>1 DEF Stands
<1>7. CASE new = list /\ \E q \in ToSet(list) : q.at = p.at /\ ~Before(p, q)
  <2>1. PICK q \in ToSet(list) : q.at = p.at /\ ~Before(p, q)
    BY <1>7
  <2>2. q = p \/ Preferred(q, p)
    BY <1>4, <2>1, BeforePreferred, PreferredTotal
  <2>3. Best(S \cup {p}) = Best(S)
    <3>1. ASSUME NEW r \in Best(S) PROVE r \in Best(S \cup {p})
      <4>1. r \in S /\ r \in Copy /\ \A s \in S : s.at = r.at => ~Preferred(s, r)
        BY <1>4, <3>1 DEF Best
      <4>2. ASSUME p.at = r.at, Preferred(p, r) PROVE FALSE
        <5>1. CASE q = p
          BY <1>4, <2>1, <4>1, <4>2, <5>1
        <5>2. CASE Preferred(q, p)
          <6>1. Preferred(q, r)
            BY <1>4, <2>1, <4>1, <4>2, <5>2, PreferredTransitive
          <6> QED
            BY <1>4, <2>1, <4>1, <4>2, <6>1
        <5> QED
          BY <2>2, <5>1, <5>2
      <4> QED
        BY <4>1, <4>2 DEF Best
    <3>2. ASSUME NEW r \in Best(S \cup {p}) PROVE r \in Best(S)
      <4>1. r \in S \cup {p} /\ \A s \in S : s.at = r.at => ~Preferred(s, r)
        BY <3>2 DEF Best
      <4>2. CASE r \in S
        BY <4>1, <4>2 DEF Best
      <4>3. CASE r = p
        <5>1. q = p
          BY <1>4, <2>1, <2>2, <4>1, <4>3
        <5> QED
          BY <1>4, <4>1, <4>3, <5>1 DEF Best
      <4> QED
        BY <4>1, <4>2, <4>3
    <3> QED
      BY <3>1, <3>2
  <2>4. \A r \in S \cup {p} : \E s \in ToSet(list) : s.at = r.at
    BY <1>1, <2>1
  <2> QED
    BY <1>1, <1>2, <1>3, <1>7, <2>3, <2>4, <1>6 DEF new, Stands
<1>8. CASE /\ ToSet(new) = {q \in ToSet(list) : q.at # p.at} \cup {p}
           /\ \A q \in ToSet(list) : q.at = p.at => Before(p, q)
  <2>1. \A q \in S : q.at = p.at => Preferred(p, q) /\ ~Preferred(q, p)
    <3> SUFFICES ASSUME NEW q \in S, q.at = p.at PROVE Preferred(p, q) /\ ~Preferred(q, p)
      OBVIOUS
    <3>1. PICK r \in ToSet(list) : r.at = q.at
      BY <1>1
    <3>2. Preferred(p, r) /\ ~Preferred(r, p)
      <4>1. Preferred(p, r)
        BY <1>4, <1>8, <3>1, BeforePreferred
      <4>2. Preferred(r, p) => Preferred(r, r)
        BY <1>4, <3>1, <4>1, PreferredTransitive
      <4>3. ~Preferred(r, r)
        BY <1>1, <1>4, <3>1 DEF Best
      <4> QED
        BY <4>1, <4>2, <4>3
    <3>3. q = r \/ Preferred(r, q)
      BY <1>5, <3>1
    <3>4. CASE Preferred(r, q)
      <4>1. q \in Copy /\ r \in Copy
        BY <1>4
      <4>2. Preferred(p, q) /\ ~Preferred(q, r)
        BY <3>1, <3>2, <3>4, <4>1, PreferredTransitive
      <4>3. Preferred(q, p) => Preferred(q, r)
        BY <3>1, <3>2, <4>1, PreferredTransitive
      <4> QED
        BY <4>2, <4>3
    <3> QED
      BY <3>2, <3>3, <3>4
  <2>2. ~Preferred(p, p)
    <3>1. Preferred(p, p) => Preferred(p, p) /\ ~Preferred(p, p)
      BY PreferredTransitive
    <3> QED
      BY <3>1
  <2>3. ToSet(new) = Best(S \cup {p})
    <3>1. p \in Best(S \cup {p})
      BY <2>1, <2>2 DEF Best
    <3>2. ASSUME NEW r, r.at # p.at PROVE r \in Best(S) <=> r \in Best(S \cup {p})
      BY <3>2 DEF Best
    <3>3. ASSUME NEW r \in Best(S \cup {p}), r.at = p.at PROVE r = p
      BY <2>1, <3>3 DEF Best
    <3>4. ASSUME NEW r PROVE r \in ToSet(new) <=> r \in Best(S \cup {p})
      <4>1. CASE r.at # p.at
        <5>1. r \in ToSet(new) <=> r \in Best(S)
          BY <1>1, <1>8, <4>1
        <5> QED
          BY <3>2, <4>1, <5>1
      <4>2. CASE r.at = p.at
        <5>1. r \in ToSet(new) <=> r = p
          BY <1>8, <4>2
        <5> QED
          BY <3>1, <3>3, <4>2, <5>1
      <4> QED
        BY <4>1, <4>2
    <3> HIDE DEF new
    <3> QED
      BY <3>4
  <2>4. \A q \in S \cup {p} : \E r \in ToSet(new) : r.at = q.at
    <3>1. p \in ToSet(new)
      BY <1>8
    <3>2. ASSUME NEW q \in S PROVE \E r \in ToSet(new) : r.at = q.at
      <4>1. PICK r \in ToSet(list) : r.at = q.at
        BY <1>1
      <4>2. CASE r.at # p.at
        BY <1>8, <4>1, <4>2
      <4>3. CASE r.at = p.at
        BY <3>1, <4>1, <4>3
      <4> QED
        BY <4>2, <4>3
    <3> QED
      BY <3>1, <3>2
  <2> QED
    BY <1>2, <1>3, <2>3, <2>4, <1>6 DEF new, Stands
<1> QED
  BY <1>3, <1>7, <1>8


LEMMA BufferInvOf ==
  ASSUME NEW list, Len(list) <= MaxPackets, NEW S, Stands(list, S), buffer' = list, offered' = S
  PROVE  BufferInv'
<1>1. BufferInv' <=> Len(list) <= MaxPackets /\ Stands(list, S)
  BY DEF BufferInv, Stands, Ordered, Best, Close, ToSet
<1> QED
  BY <1>1

LEMMA NoneStands == Len(<<>>) = 0 /\ Stands(<<>>, {})
BY DEF Stands, Ordered, Best, ToSet

LEMMA InsertKeepsBest ==
  ASSUME BufferInv, NEW p \in Copy, Insert(p)
  PROVE  BufferInv'
<1>1. /\ MaxPackets \in Nat \ {0} /\ Len(buffer) \in Nat /\ Len(buffer) <= MaxPackets
      /\ Stands(buffer, offered)
  BY CapacityAssumption DEF BufferInv, Stands
<1>2. CASE p.empty
  <2>1. buffer' = buffer /\ offered' = offered
    BY <1>2 DEF Insert, InsertPacket
  <2> QED
    BY <1>1, <2>1, BufferInvOf
<1>3. CASE ~p.empty /\ Len(buffer) >= MaxPackets
  <2> DEFINE none == <<>>
  <2>1. buffer' = Place(none, p) /\ offered' = {} \cup {p}
    BY <1>3, Zenon DEF Insert, InsertPacket
  <2>2. Len(none) = 0 /\ Stands(none, {})
    BY NoneStands
  <2> HIDE DEF none
  <2>3. Len(Place(none, p)) \in 1 .. Len(none) + 1 /\ Stands(Place(none, p), {} \cup {p})
    BY <1>3, <2>2, PlaceKeepsBest
  <2>4. Len(Place(none, p)) <= MaxPackets
    <3> DEFINE n == Len(Place(none, p))
    <3>1. n \in 1 .. 0 + 1
      BY <2>2, <2>3, Zenon
    <3> HIDE DEF n
    <3>2. n <= MaxPackets
      BY <1>1, <3>1
    <3> QED
      BY <3>2 DEF n
  <2> QED
    BY <2>1, <2>3, <2>4, BufferInvOf
<1>4. CASE ~p.empty /\ ~(Len(buffer) >= MaxPackets)
  <2>1. buffer' = Place(buffer, p) /\ offered' = offered \cup {p}
    BY <1>4, Zenon DEF Insert, InsertPacket
  <2>2. \A q \in offered : Close(p.at, q.at)
    BY DEF Insert, Near, Close
  <2>3. /\ Len(Place(buffer, p)) \in 1 .. Len(buffer) + 1
        /\ Stands(Place(buffer, p), offered \cup {p})
    BY <1>1, <1>4, <2>2, PlaceKeepsBest
  <2>4. Len(Place(buffer, p)) <= MaxPackets
    BY <1>1, <1>4, <2>3
  <2> QED
    BY <2>1, <2>3, <2>4, BufferInvOf
<1> QED
  BY <1>2, <1>3, <1>4

LEMMA BufferInductive == BufferInv /\ [Next]_vars => BufferInv'
<1> SUFFICES ASSUME BufferInv, [Next]_vars PROVE BufferInv'
  OBVIOUS
<1>0. /\ MaxPackets \in Nat /\ Len(buffer) \in Nat /\ Len(buffer) <= MaxPackets
      /\ buffer \in Seq(Copy) /\ Ordered(buffer) /\ Stands(buffer, offered)
  BY CapacityAssumption DEF BufferInv, Stands
<1>1. ASSUME NEW p \in Copy, Insert(p) PROVE BufferInv'
  BY <1>1, InsertKeepsBest
<1>2. CASE GetNextPacket
  <2> DEFINE sub == SubSeq(buffer, 2, Len(buffer))
  <2>1. buffer # <<>> /\ Len(buffer) # 0
    BY <1>0, <1>2 DEF GetNextPacket
  <2>2. Tail(buffer) = sub
    BY <1>0, <2>1, TailIsSubSeq
  <2>3. buffer' = sub /\ offered' = Remaining(sub)
    BY <1>2, <2>2 DEF GetNextPacket
  <2>4. sub \in Seq(Copy) /\ Len(sub) <= MaxPackets /\ ToSet(sub) \subseteq ToSet(buffer)
        /\ Ordered(sub)
    <3>1. 2 \in 1 .. Len(buffer) + 1 /\ Len(buffer) \in 2 - 1 .. Len(buffer)
      BY <1>0, <2>1
    <3>2. /\ sub \in Seq(Copy) /\ Len(sub) = Len(buffer) - 2 + 1
          /\ ToSet(sub) \subseteq ToSet(buffer) /\ (Ordered(buffer) => Ordered(sub))
      BY <1>0, <3>1, Stretch, Zenon
    <3> HIDE DEF sub
    <3> QED
      BY <1>0, <3>2
  <2> HIDE DEF sub
  <2>5. Stands(sub, Remaining(sub))
    BY <1>0, <2>4, RemainingStands
  <2> QED
    BY <2>3, <2>4, <2>5, BufferInvOf
<1>3. ASSUME NEW S, buffer' = Those(S, buffer), offered' = Remaining(buffer') PROVE BufferInv'
  <2>1. /\ Those(S, buffer) \in Seq(Copy) /\ Len(Those(S, buffer)) <= Len(buffer)
        /\ ToSet(Those(S, buffer)) = ToSet(buffer) \cap S
        /\ Ordered(Those(S, buffer))
    BY <1>0, ThoseFound, ThoseMembers, ThoseOrdered
  <2>2. offered' = Remaining(Those(S, buffer))
    BY <1>3
  <2>3. Stands(Those(S, buffer), Remaining(Those(S, buffer)))
    BY <1>0, <2>1, RemainingStands
  <2>4. Len(Those(S, buffer)) <= MaxPackets
    BY <1>0, <2>1
  <2> QED
    BY <1>3, <2>2, <2>3, <2>4, BufferInvOf
<1>4. ASSUME NEW limit \in Limits, NEW horizon \in Horizons, DiscardOld(limit, horizon)
      PROVE  BufferInv'
  BY <1>3, <1>4 DEF DiscardOld, DiscardOldPackets
<1>5. ASSUME NEW pt \in DOMAIN Rate, DiscardPacketsWithPayloadType(pt)
      PROVE  BufferInv'
  BY <1>3, <1>5 DEF DiscardPacketsWithPayloadType, DiscardTypes
<1>6. CASE Flush
  <2>1. buffer' = <<>> /\ offered' = {}
    BY <1>6 DEF Flush
  <2>2. Len(<<>>) <= MaxPackets
    BY NoneStands, CapacityAssumption
  <2> QED
    BY <2>1, <2>2, NoneStands, BufferInvOf
<1>7. CASE UNCHANGED vars
  <2>1. buffer' = buffer /\ offered' = offered
    BY <1>7 DEF vars
  <2> QED
    BY <1>0, <2>1, BufferInvOf
<1> QED
  BY <1>1, <1>2, <1>4, <1>5, <1>6, <1>7 DEF Next

LEMMA BufferInvariance == Spec => []BufferInv
<1>1. Init => BufferInv
  <2> SUFFICES ASSUME Init PROVE BufferInv
    OBVIOUS
  <2>1. buffer = <<>> /\ offered = {}
    BY DEF Init
  <2>2. Len(<<>>) <= MaxPackets
    BY NoneStands, CapacityAssumption
  <2> QED
    BY <2>1, <2>2, NoneStands DEF BufferInv
<1> QED
  BY <1>1, BufferInductive, PTL DEF Spec

\* The buffer holds copies, and never more packets than it has room for.
THEOREM PacketBufferTypes == Spec => []TypeOK
<1>1. BufferInv => TypeOK
  BY DEF BufferInv, Stands, TypeOK
<1> QED
  BY <1>1, BufferInvariance, PTL

\* Whatever copies of packets come in whatever order, and whatever is taken and
\* discarded in between, the buffer holds of every time offered the preferred
\* copy, in the order of time.
THEOREM PacketBufferHoldsTheBest == Spec => []HoldsTheBest
<1>1. BufferInv => HoldsTheBest
  <2> SUFFICES ASSUME BufferInv PROVE HoldsTheBest
    OBVIOUS
  <2>1. DOMAIN buffer = 1 .. Len(buffer)
    BY DEF BufferInv, Stands
  <2>2. ToSet(buffer) = {p \in offered : \A q \in offered : q.at = p.at => ~Preferred(q, p)}
    BY DEF BufferInv, Stands, Best
  <2>3. \A i, j \in DOMAIN buffer : i < j => buffer[i].at < buffer[j].at
    BY <2>1 DEF BufferInv, Stands, Ordered
  <2> QED
    BY <2>2, <2>3 DEF HoldsTheBest
<1> QED
  BY <1>1, BufferInvariance, PTL


\* What is obsolete, told with times.
LEMMA ObsoleteTimes ==
  ASSUME NEW at \in Int, NEW limit \in Int, limit - at \in 1 - HalfTs .. HalfTs - 1,
         NEW h \in 0 .. HalfTs - 1
  PROVE  ~IsObsolete(Ts(at), Ts(limit), h) <=> at >= limit \/ (h # 0 /\ at <= limit - h)
<1> DEFINE back == limit - h
<1>1. HalfTs \in Nat \ {0} /\ h \in 0 .. 2 * HalfTs - 1 /\ back \in Int
  BY CircleAssumption
<1>2. Minus(Ts(limit), h, HalfTs) = Ts(back)
  BY <1>1, TsMinus
<1>3. IsNewer(Ts(limit), Ts(at), HalfTs) <=> at < limit
  BY NewerTimes
<1>4. at < limit => at - back \in 1 - HalfTs .. HalfTs - 1
  BY <1>1
<1>5. at < limit => (IsNewer(Ts(at), Ts(back), HalfTs) <=> back < at)
  BY <1>1, <1>4, NewerTimes
<1>6. IsObsolete(Ts(at), Ts(limit), h) <=> at < limit /\ (h = 0 \/ back < at)
  BY <1>2, <1>3, <1>5, Zenon DEF IsObsolete
<1>7. at < limit <=> ~(at >= limit)
  OBVIOUS
<1>8. back < at <=> ~(at <= back)
  BY <1>1
<1> QED
  BY <1>6, <1>7, <1>8

\* Wherever the timestamps wrap, a discard takes of the packets held those
\* before the limit and within the horizon, and no others.
THEOREM PacketBufferDiscards == Spec => []DiscardsWhatIsOld
<1>1. ASSUME BufferInv PROVE DiscardsWhatIsOld
  <2> DEFINE held == ToSet(buffer)
             near(l) == \A p \in held : l - p.at \in 1 - HalfTs .. HalfTs - 1
             limits == {p.at + back : p \in held, back \in 1 - HalfTs .. HalfTs - 1}
  <2> SUFFICES ASSUME NEW limit \in {l \in limits : near(l)}, NEW horizon \in Horizons
               PROVE  ToSet(DiscardOldPackets(buffer, Ts(limit), horizon))
                        = {p \in held : \/ p.at >= limit
                                        \/ horizon # 0 /\ p.at <= limit - horizon}
    BY DEF DiscardsWhatIsOld
  <2>1. buffer \in Seq(Copy) /\ held \subseteq Copy
    BY <1>1, Members DEF BufferInv, Stands
  <2>2. limit \in Int /\ horizon \in 0 .. HalfTs - 1
    <3>1. PICK p \in held, back \in 1 - HalfTs .. HalfTs - 1 : limit = p.at + back
      OBVIOUS
    <3> QED
      BY <2>1, <3>1, Fields, CircleAssumption, HorizonAssumption
  <2> DEFINE kept == {p \in held : ~IsObsolete(Ts(p.at), Ts(limit), horizon)}
  <2>3. ToSet(DiscardOldPackets(buffer, Ts(limit), horizon)) = held \cap kept
    BY <2>1, ThoseMembers DEF DiscardOldPackets
  <2>4. ASSUME NEW p \in held
        PROVE  p \in kept <=> p.at >= limit \/ (horizon # 0 /\ p.at <= limit - horizon)
    <3>1. p.at \in Int /\ limit - p.at \in 1 - HalfTs .. HalfTs - 1
      BY <2>1, Fields
    <3> QED
      BY <2>2, <3>1, ObsoleteTimes
  <2> HIDE DEF kept, held
  <2> QED
    BY <2>3, <2>4
<1> QED
  BY <1>1, BufferInvariance, PTL

-----------------------------------------------------------------------------
(* The delay estimation of AEC3.  The histogram is updated by what leaves     *)
(* the window and what enters it: the invariant says which of the last lags   *)
(* every element of the window holds, and that the histogram counts them.     *)

\* What % gives within two turns.
Turned(x, w) == IF x < w THEN x ELSE x - w

LEMMA NextTurned ==
  ASSUME NEW w \in Nat \ {0}, NEW x \in 0 .. w - 1
  PROVE  (x + 1) % w = Turned(x + 1, w)
<1>1. CASE x + 1 = w
  BY <1>1 DEF Turned
<1>2. CASE x + 1 < w
  BY <1>2 DEF Turned
<1> QED
  BY <1>1, <1>2

\* How often a lag was found.
Found(s, l) == Cardinality({i \in DOMAIN s : s[i] = l})

\* The element of the window that holds the j-th of the last lags.
Element(j) ==
  IF Len(recent) < LagWindow THEN j - 1 ELSE Turned(histogram_data_index + j - 1, LagWindow)

DataInv ==
  /\ recent \in Seq(Lags) /\ Len(recent) <= LagWindow
  /\ histogram_data_index \in 0 .. LagWindow - 1
  /\ histogram_data \in [0 .. LagWindow - 1 -> Lags \cup {0}]
  /\ Len(recent) < LagWindow =>
       /\ histogram_data_index = Len(recent)
       /\ \A i \in Len(recent) .. LagWindow - 1 : histogram_data[i] = 0
  /\ \A j \in 1 .. Len(recent) : histogram_data[Element(j)] = recent[j]

HistogramInv ==
  /\ lag_histogram \in [0 .. EchoDelay!MostLag -> Int]
  /\ lag_histogram[0] + Len(recent) = 0
  /\ \A l \in 1 .. EchoDelay!MostLag : lag_histogram[l] = Found(recent, l)

Estimate == [lag : Lags, refined : BOOLEAN]

\* What an estimate must have more than, of the last lags.
Threshold(estimate) == IF estimate.refined THEN Converged ELSE Initial

DelayInv ==
  /\ delay \in Int /\ support \in Int
  /\ delay_samples \in Estimate \cup {EchoDelay!NoEstimate}
  /\ delay # EchoDelay!None => delay_samples # EchoDelay!NoEstimate
  /\ delay_samples # EchoDelay!NoEstimate =>
       /\ support > Threshold(delay_samples)
       /\ delay <= EchoDelay!Blocks(delay_samples.lag)
       /\ EchoDelay!Blocks(delay_samples.lag) <= delay + Hysteresis

\* The first n estimates of the drift are apart by less than n, all different,
\* and on one side of the last.
Drifted(n) ==
  LET moved == {drift[i] : i \in 1 .. n}
  IN  /\ moved \subseteq Lags /\ Cardinality(moved) = n
      /\ \/ \A l \in moved : drift[1] - l \in 0 .. n - 1
         \/ \A l \in moved : l - drift[1] \in 0 .. n - 1

DriftInv ==
  /\ \E a, b, c \in Lags \cup {0} : estimates = <<a, b, c>>
  /\ level \in {"none", "probable", "verified"}
  /\ level = "verified" => Drifted(4)
  /\ level = "probable" => Drifted(3)

EstimatorInv == DataInv /\ HistogramInv /\ DelayInv /\ DriftInv

\* The estimator counts as the theorems about finite sets do.
LEMMA SameCardinality == \A S : EchoDelay!Cardinality(S) = Cardinality(S)
BY DEF EchoDelay!Cardinality, Cardinality

LEMMA LagNumbers ==
  /\ LagWindow \in Nat \ {0} /\ BlockLag \in Nat \ {0}
  /\ Initial \in Nat /\ Converged \in Nat /\ Headroom \in Nat /\ Hysteresis \in Nat
  /\ EchoDelay!MostLag \in Lags /\ EchoDelay!MostLag \in Nat
  /\ \A l \in Lags : l \in 1 .. EchoDelay!MostLag /\ l >= 3
<1>1. EchoDelay!MostLag \in Lags /\ \A l \in Lags : l <= EchoDelay!MostLag
  BY LagAssumption DEF EchoDelay!MostLag
<1> QED
  BY <1>1, LagAssumption

LEMMA FoundMany ==
  ASSUME NEW s \in Seq(Lags), NEW l
  PROVE  /\ IsFiniteSet({i \in DOMAIN s : s[i] = l})
         /\ Found(s, l) \in Nat
         /\ Found(s, l) > 0 => l \in Lags
<1> DEFINE places == {i \in DOMAIN s : s[i] = l}
<1>1. DOMAIN s = 1 .. Len(s) /\ Len(s) \in Nat
  BY LenProperties
<1>2. IsFiniteSet(1 .. Len(s))
  BY <1>1, FS_Interval
<1>3. places \in SUBSET (1 .. Len(s))
  BY <1>1
<1>4. IsFiniteSet(places)
  BY <1>2, <1>3, FS_Subset
<1>5. Cardinality(places) \in Nat /\ (Cardinality(places) = 0 <=> places = {})
  BY <1>4, FS_CardinalityType, FS_EmptySet
<1>6. \A i \in places : s[i] = l /\ s[i] \in Lags
  BY <1>1, ElementOfSeq
<1> QED
  BY <1>4, <1>5, <1>6 DEF Found

\* A lag that enters at the end.
LEMMA FoundAgain ==
  ASSUME NEW s \in Seq(Lags), NEW lag \in Lags, NEW l
  PROVE  /\ Append(s, lag) \in Seq(Lags) /\ Len(Append(s, lag)) = Len(s) + 1
         /\ Found(Append(s, lag), l) = Found(s, l) + IF lag = l THEN 1 ELSE 0
<1> DEFINE t == Append(s, lag)
           before == {i \in DOMAIN s : s[i] = l}
           after == {i \in DOMAIN t : t[i] = l}
           last == Len(s) + 1
<1>1. /\ t \in Seq(Lags) /\ Len(t) = Len(s) + 1 /\ Len(s) \in Nat
      /\ DOMAIN s = 1 .. Len(s) /\ DOMAIN t = 1 .. Len(s) + 1
      /\ \A i \in 1 .. Len(s) : t[i] = s[i]
      /\ t[Len(s) + 1] = lag
  BY AppendProperties, LenProperties
<1>2. IsFiniteSet(before)
  BY FoundMany
<1>3. last \notin before
  BY <1>1
<1>6. Found(s, l) = Cardinality(before) /\ Found(t, l) = Cardinality(after)
  BY DEF Found
<1> HIDE DEF t
<1>4. CASE lag = l
  <2>1. after = before \cup {last}
    BY <1>1, <1>4
  <2> HIDE DEF before, after
  <2>2. Cardinality(after) = Cardinality(before) + 1
    BY <1>2, <1>3, <2>1, FS_AddElement
  <2> QED
    BY <1>1, <1>4, <1>6, <2>2 DEF t
<1>5. CASE lag # l
  <2>1. after = before
    BY <1>1, <1>5
  <2>2. Found(s, l) \in Nat
    BY FoundMany
  <2> HIDE DEF before, after
  <2> QED
    BY <1>1, <1>5, <1>6, <2>1, <2>2 DEF t
<1> QED
  BY <1>4, <1>5

\* A lag that leaves at the beginning.
LEMMA FoundNoMore ==
  ASSUME NEW s \in Seq(Lags), s # <<>>, NEW l
  PROVE  /\ Tail(s) \in Seq(Lags) /\ Len(Tail(s)) = Len(s) - 1
         /\ Found(Tail(s), l) = Found(s, l) - IF s[1] = l THEN 1 ELSE 0
<1> DEFINE t == Tail(s)
           before == {i \in DOMAIN s : s[i] = l}
           after == {i \in DOMAIN t : t[i] = l}
           Next1 == [i \in after |-> i + 1]
<1>1. /\ t \in Seq(Lags) /\ Len(t) = Len(s) - 1 /\ Len(s) \in Nat /\ Len(s) >= 1
      /\ DOMAIN s = 1 .. Len(s) /\ DOMAIN t = 1 .. Len(s) - 1
      /\ \A i \in 1 .. Len(s) - 1 : t[i] = s[i + 1]
  BY HeadTailProperties, LenProperties, EmptySeq
<1> HIDE DEF t
<1>2. IsFiniteSet(before) /\ IsFiniteSet(after)
  <2>1. IsFiniteSet({i \in DOMAIN s : s[i] = l})
    BY FoundMany
  <2>2. IsFiniteSet({i \in DOMAIN t : t[i] = l})
    BY <1>1, FoundMany
  <2> QED
    BY <2>1, <2>2
<1>3. Next1 \in Bijection(after, before \ {1})
  <2>1. Next1 \in [after -> before \ {1}]
    BY <1>1
  <2>2. \A i, j \in after : Next1[i] = Next1[j] => i = j
    BY <1>1
  <2>3. \A k \in before \ {1} : \E i \in after : Next1[i] = k
    <3> SUFFICES ASSUME NEW k \in before \ {1} PROVE \E i \in after : Next1[i] = k
      OBVIOUS
    <3>1. k \in 2 .. Len(s) /\ s[k] = l
      BY <1>1
    <3>2. k - 1 \in 1 .. Len(s) - 1 /\ (k - 1) + 1 = k
      BY <1>1, <3>1
    <3>3. k - 1 \in after
      BY <1>1, <3>1, <3>2
    <3> QED
      BY <3>2, <3>3
  <2> HIDE DEF Next1
  <2> QED
    BY <2>1, <2>2, <2>3 DEF Bijection, Injection, Surjection, IsInjective
<1>4. Cardinality(after) = Cardinality(before \ {1})
  BY <1>2, <1>3, FS_Bijection DEF ExistsBijection
<1>5. Cardinality(before \ {1}) = IF 1 \in before THEN Cardinality(before) - 1
                                  ELSE Cardinality(before)
  BY <1>2, FS_RemoveElement
<1>6. 1 \in before <=> s[1] = l
  BY <1>1
<1>7. Cardinality(before) \in Nat
  BY <1>2, FS_CardinalityType
<1> HIDE DEF before, after
<1> QED
  <2>1. Cardinality(after) = Cardinality(before) - IF s[1] = l THEN 1 ELSE 0
    BY <1>4, <1>5, <1>6, <1>7
  <2> QED
    BY <1>1, <2>1 DEF Found, before, after, t

\* A histogram has a lag that is the first of the most frequent.
LEMMA MostFrequent ==
  ASSUME NEW h \in [0 .. EchoDelay!MostLag -> Int]
  PROVE  /\ EchoDelay!Candidate(h) \in 0 .. EchoDelay!MostLag
         /\ \A k \in 0 .. EchoDelay!MostLag : h[k] <= h[EchoDelay!Candidate(h)]
<1> DEFINE n == EchoDelay!MostLag
           First(l, m) == \A k \in 0 .. m : h[k] < h[l] \/ (h[k] = h[l] /\ l <= k)
           T == {m \in 0 .. n : \E l \in 0 .. m : First(l, m)}
<1>1. n \in Nat
  BY LagNumbers
<1>2. DOMAIN h = 0 .. n /\ \A k \in 0 .. n : h[k] \in Int
  OBVIOUS
<1> HIDE DEF n
<1>3. 0 \in T
  BY <1>1, <1>2
<1>4. ASSUME NEW m \in 0 .. n - 1, m \in T PROVE m + 1 \in T
  <2>1. PICK l \in 0 .. m : First(l, m)
    BY <1>4
  <2>2. m + 1 \in 0 .. n /\ l \in 0 .. m + 1 /\ m + 1 \in 0 .. m + 1
        /\ \A k \in 0 .. m + 1 : k \in 0 .. m \/ k = m + 1
    BY <1>1, <2>1
  <2>3. CASE h[m + 1] <= h[l]
    <3>1. First(l, m + 1)
      BY <1>1, <1>2, <2>1, <2>2, <2>3
    <3> QED
      BY <2>2, <3>1
  <2>4. CASE h[m + 1] > h[l]
    <3>1. First(m + 1, m + 1)
      BY <1>1, <1>2, <2>1, <2>2, <2>4
    <3> QED
      BY <2>2, <3>1
  <2>5. h[m + 1] <= h[l] \/ h[m + 1] > h[l]
    BY <1>1, <1>2, <2>2
  <2> QED
    BY <2>3, <2>4, <2>5
<1>5. 0 .. n \subseteq T
  <2> HIDE DEF T
  <2> QED
    BY <1>1, <1>3, <1>4, Induction
<1>6. n \in T
  <2> HIDE DEF T
  <2> QED
    BY <1>1, <1>5
<1>7. \E l \in DOMAIN h : \A k \in DOMAIN h : h[k] < h[l] \/ (h[k] = h[l] /\ l <= k)
  BY <1>2, <1>6
<1>8. /\ EchoDelay!Candidate(h) \in DOMAIN h
      /\ \A k \in DOMAIN h : \/ h[k] < h[EchoDelay!Candidate(h)]
                             \/ h[k] = h[EchoDelay!Candidate(h)]
  BY <1>7 DEF EchoDelay!Candidate
<1> QED
  BY <1>2, <1>8 DEF n

\* The lag that leaves the histogram is the oldest, once the window is full.
LEMMA Oldest ==
  ASSUME DataInv
  PROVE  histogram_data[histogram_data_index] =
           IF Len(recent) < LagWindow THEN 0 ELSE recent[1]
<1>1. /\ LagWindow \in Nat \ {0} /\ Len(recent) \in Nat /\ Len(recent) <= LagWindow
      /\ histogram_data_index \in 0 .. LagWindow - 1
  BY LagNumbers, LenProperties DEF DataInv
<1>2. CASE Len(recent) < LagWindow
  BY <1>1, <1>2 DEF DataInv
<1>3. CASE ~(Len(recent) < LagWindow)
  <2>1. 1 \in 1 .. Len(recent) /\ Element(1) = histogram_data_index
    BY <1>1, <1>3 DEF Element, Turned
  <2> QED
    BY <1>3, <2>1 DEF DataInv
<1> QED
  BY <1>2, <1>3

\* A lag enters the window of data.
DataStep(lag) ==
  /\ histogram_data' = [histogram_data EXCEPT ![histogram_data_index] = lag]
  /\ histogram_data_index' = (histogram_data_index + 1) % LagWindow
  /\ recent' = IF Len(recent) < LagWindow THEN Append(recent, lag)
               ELSE Append(Tail(recent), lag)

\* The lags found last, with one more.
LEMMA RecentStep ==
  ASSUME DataInv, NEW lag \in Lags, DataStep(lag)
  PROVE  /\ recent' \in Seq(Lags)
         /\ Len(recent') = IF Len(recent) < LagWindow THEN Len(recent) + 1 ELSE LagWindow
         /\ \A l : Found(recent', l) = Found(recent, l)
                     - (IF LagWindow <= Len(recent) /\ recent[1] = l THEN 1 ELSE 0)
                     + (IF lag = l THEN 1 ELSE 0)
         /\ Len(recent) < LagWindow =>
              /\ \A j \in 1 .. Len(recent) : recent'[j] = recent[j]
              /\ recent'[Len(recent) + 1] = lag
         /\ LagWindow <= Len(recent) =>
              /\ \A j \in 1 .. LagWindow - 1 : recent'[j] = recent[j + 1]
              /\ recent'[LagWindow] = lag
<1>1. /\ LagWindow \in Nat \ {0} /\ Len(recent) \in Nat /\ Len(recent) <= LagWindow
      /\ recent \in Seq(Lags)
  BY LagNumbers, LenProperties DEF DataInv
<1>2. \A l : Found(recent, l) \in Nat
  BY <1>1, FoundMany
<1>3. CASE Len(recent) < LagWindow
  <2>1. recent' = Append(recent, lag)
    BY <1>3 DEF DataStep
  <2>2. /\ recent' \in Seq(Lags) /\ Len(recent') = Len(recent) + 1
        /\ \A l : Found(recent', l) = Found(recent, l) + IF lag = l THEN 1 ELSE 0
    BY <1>1, <2>1, FoundAgain
  <2>3. /\ \A j \in 1 .. Len(recent) : recent'[j] = recent[j]
        /\ recent'[Len(recent) + 1] = lag
    BY <1>1, <2>1, AppendProperties
  <2>4. ~(LagWindow <= Len(recent))
    BY <1>1, <1>3
  <2> QED
    BY <1>1, <1>2, <1>3, <2>2, <2>3, <2>4
<1>4. CASE LagWindow <= Len(recent)
  <2> DEFINE tail == Tail(recent)
  <2>1. recent' = Append(tail, lag) /\ recent # <<>> /\ Len(recent) = LagWindow
    BY <1>1, <1>4, EmptySeq DEF DataStep
  <2>2. /\ tail \in Seq(Lags) /\ Len(tail) = LagWindow - 1
        /\ \A l : Found(tail, l) = Found(recent, l) - IF recent[1] = l THEN 1 ELSE 0
    BY <1>1, <2>1, FoundNoMore
  <2>3. \A j \in 1 .. LagWindow - 1 : tail[j] = recent[j + 1]
    BY <1>1, <2>1, HeadTailProperties
  <2> HIDE DEF tail
  <2>4. /\ recent' \in Seq(Lags) /\ Len(recent') = LagWindow
        /\ \A l : Found(recent', l) = Found(tail, l) + IF lag = l THEN 1 ELSE 0
    BY <1>1, <2>1, <2>2, FoundAgain
  <2>5. /\ \A j \in 1 .. LagWindow - 1 : recent'[j] = recent[j + 1]
        /\ recent'[LagWindow] = lag
    BY <1>1, <2>1, <2>2, <2>3, AppendProperties
  <2>6. \A l : Found(recent', l) = Found(recent, l)
                 - (IF recent[1] = l THEN 1 ELSE 0) + (IF lag = l THEN 1 ELSE 0)
    BY <1>2, <2>2, <2>4
  <2> QED
    BY <1>1, <1>4, <2>4, <2>5, <2>6
<1> QED
  BY <1>1, <1>3, <1>4

LEMMA DataKept ==
  ASSUME DataInv, NEW lag \in Lags, DataStep(lag)
  PROVE  DataInv'
<1> DEFINE n == Len(recent)
           w == LagWindow
           x == histogram_data_index
<1>1. /\ w \in Nat \ {0} /\ n \in Nat /\ n <= w
      /\ recent \in Seq(Lags) /\ x \in 0 .. w - 1
      /\ histogram_data \in [0 .. w - 1 -> Lags \cup {0}]
      /\ n < w => x = n /\ \A i \in n .. w - 1 : histogram_data[i] = 0
  BY LagNumbers, LenProperties DEF DataInv
<1>2. /\ recent' \in Seq(Lags)
      /\ Len(recent') = IF n < w THEN n + 1 ELSE w
      /\ n < w => /\ \A j \in 1 .. n : recent'[j] = recent[j]
                  /\ recent'[n + 1] = lag
      /\ w <= n => /\ \A j \in 1 .. w - 1 : recent'[j] = recent[j + 1]
                   /\ recent'[w] = lag
  BY RecentStep
<1>3. x' = Turned(x + 1, w) /\ x' \in 0 .. w - 1
  <2>1. x' = (x + 1) % w /\ x \in 0 .. w - 1
    BY <1>1 DEF DataStep
  <2>2. (x + 1) % w = Turned(x + 1, w)
    BY <1>1, <2>1, NextTurned
  <2> QED
    BY <1>1, <2>1, <2>2 DEF Turned
<1>4. /\ histogram_data' \in [0 .. w - 1 -> Lags \cup {0}]
      /\ \A i \in 0 .. w - 1 : histogram_data'[i] = IF i = x THEN lag ELSE histogram_data[i]
  BY <1>1 DEF DataStep
<1>5. \A j \in 1 .. n : histogram_data[Element(j)] = recent[j]
  BY DEF DataInv
<1>6. Len(recent') < w =>
        /\ x' = Len(recent')
        /\ \A i \in Len(recent') .. w - 1 : histogram_data'[i] = 0
  BY <1>1, <1>2, <1>3, <1>4 DEF Turned
<1>7. ASSUME NEW j \in 1 .. Len(recent') PROVE histogram_data'[Element(j)'] = recent'[j]
  <2>1. CASE n < w
    <3>1. Element(j)' = j - 1
      BY <1>1, <1>2, <1>3, <2>1 DEF Element, Turned
    <3>2. j \in 1 .. n => Element(j) = j - 1
      BY <2>1 DEF Element
    <3>3. j \in 1 .. n \/ j = n + 1
      BY <1>1, <1>2, <2>1
    <3> HIDE DEF n, x, w
    <3>4. CASE j \in 1 .. n
      <4>1. j - 1 \in 0 .. w - 1 /\ j - 1 # x
        BY <1>1, <2>1, <3>4
      <4>2. histogram_data'[j - 1] = histogram_data[j - 1] /\ recent'[j] = recent[j]
        BY <1>2, <1>4, <2>1, <3>4, <4>1
      <4> QED
        BY <1>5, <3>1, <3>2, <3>4, <4>2
    <3>5. CASE j = n + 1
      <4>1. j - 1 = x /\ x \in 0 .. w - 1
        BY <1>1, <2>1, <3>5
      <4> QED
        BY <1>2, <1>4, <2>1, <3>1, <3>5, <4>1
    <3> QED
      BY <3>3, <3>4, <3>5
  <2>2. CASE ~(n < w)
    <3>1. n = w /\ Len(recent') = w /\ j \in 1 .. w
      BY <1>1, <1>2, <2>2
    <3>2. Element(j)' = Turned(x' + j - 1, w)
      BY <3>1, LagNumbers DEF Element
    <3>3. CASE j < w
      <4>1. j + 1 \in 1 .. n /\ Element(j + 1) = Turned(x + (j + 1) - 1, w)
        BY <1>1, <3>1, <3>3 DEF Element
      <4>2. /\ Element(j)' = Element(j + 1)
            /\ Element(j + 1) \in 0 .. w - 1 /\ Element(j + 1) # x
        BY <1>1, <1>3, <3>1, <3>2, <3>3, <4>1 DEF Turned
      <4>3. recent'[j] = recent[j + 1]
        BY <1>2, <3>1, <3>3
      <4>4. histogram_data'[Element(j + 1)] = histogram_data[Element(j + 1)]
        BY <1>4, <4>2
      <4> QED
        BY <1>5, <4>1, <4>2, <4>3, <4>4
    <3>4. CASE j = w
      <4>1. Element(j)' = x
        BY <1>1, <1>3, <3>1, <3>2, <3>4 DEF Turned
      <4> QED
        BY <1>1, <1>2, <1>4, <3>1, <3>4, <4>1
    <3> QED
      BY <3>1, <3>3, <3>4
  <2> QED
    BY <2>1, <2>2
<1>8. Len(recent') <= w
  BY <1>1, <1>2
<1> QED
  BY <1>2, <1>3, <1>4, <1>6, <1>7, <1>8 DEF DataInv

\* The histogram counts the lags found last.
LEMMA HistogramKept ==
  ASSUME DataInv, HistogramInv, NEW lag \in Lags, DataStep(lag),
         lag_histogram' = EchoDelay!Exchanged(lag)
  PROVE  HistogramInv'
<1> DEFINE h == lag_histogram
           m == EchoDelay!MostLag
           old == histogram_data[histogram_data_index]
           first == [h EXCEPT ![old] = @ - 1]
<1>1. /\ m \in Nat /\ h \in [0 .. m -> Int] /\ lag \in 1 .. m /\ LagWindow \in Nat \ {0}
      /\ \A l \in Lags : l \in 1 .. m
  BY LagNumbers DEF HistogramInv
<1>2. /\ old = IF Len(recent) < LagWindow THEN 0 ELSE recent[1]
      /\ recent \in Seq(Lags) /\ Len(recent) \in Nat /\ Len(recent) <= LagWindow
  BY Oldest, LenProperties DEF DataInv
<1>3. ~(Len(recent) < LagWindow) => recent[1] \in Lags
  BY <1>1, <1>2, ElementOfSeq
<1> HIDE DEF m, old
<1>4. old \in 0 .. m /\ (old = 0 <=> Len(recent) < LagWindow)
  <2>1. ~(Len(recent) < LagWindow) => recent[1] \in 1 .. m
    BY <1>1, <1>3
  <2> QED
    BY <1>1, <1>2, <2>1
<1>5. h' = [first EXCEPT ![lag] = @ + 1]
  BY DEF EchoDelay!Exchanged, old
<1>6. /\ first \in [0 .. m -> Int]
      /\ \A l \in 0 .. m : first[l] = h[l] - IF l = old THEN 1 ELSE 0
  BY <1>1, <1>4
<1> HIDE DEF first
<1>7. /\ h' \in [0 .. m -> Int]
      /\ \A l \in 0 .. m : h'[l] = first[l] + IF l = lag THEN 1 ELSE 0
  BY <1>1, <1>5, <1>6
<1>8. \A l \in 0 .. m : h'[l] = h[l] - (IF l = old THEN 1 ELSE 0) + (IF l = lag THEN 1 ELSE 0)
  BY <1>1, <1>6, <1>7
<1>9. /\ Len(recent') = IF Len(recent) < LagWindow THEN Len(recent) + 1 ELSE LagWindow
      /\ \A l : Found(recent', l) = Found(recent, l)
                  - (IF LagWindow <= Len(recent) /\ recent[1] = l THEN 1 ELSE 0)
                  + (IF lag = l THEN 1 ELSE 0)
  BY RecentStep
<1>10. \A l : Found(recent, l) \in Nat
  BY <1>2, FoundMany
<1>11. h'[0] + Len(recent') = 0
  <2>1. h[0] + Len(recent) = 0
    BY DEF HistogramInv
  <2>2. 0 \in 0 .. m /\ 0 # lag /\ h[0] \in Int
    BY <1>1
  <2> QED
    BY <1>2, <1>4, <1>8, <1>9, <2>1, <2>2
<1>12. ASSUME NEW l \in 1 .. m PROVE h'[l] = Found(recent', l)
  <2>1. h[l] = Found(recent, l) /\ l \in 0 .. m /\ l # 0
    BY <1>1 DEF HistogramInv, m
  <2>2. l = old <=> LagWindow <= Len(recent) /\ recent[1] = l
    BY <1>1, <1>2, <1>4, <2>1
  <2> QED
    BY <1>8, <1>9, <1>10, <2>1, <2>2
<1>13. EchoDelay!MostLag' = m
  BY DEF EchoDelay!MostLag, m
<1> QED
  BY <1>7, <1>11, <1>12, <1>13 DEF HistogramInv

\* An estimate is a lag that was found more often than it must be.
LEMMA EstimateFounded ==
  ASSUME EstimatorInv, NEW lag \in Lags, DataStep(lag),
         lag_histogram' = EchoDelay!Exchanged(lag)
  PROVE  LET e == EchoDelay!Aggregate(lag).estimate
         IN  \/ e = EchoDelay!NoEstimate
             \/ e \in Estimate /\ Found(recent', e.lag) > Threshold(e)
<1> DEFINE h == EchoDelay!Exchanged(lag)
           c == EchoDelay!Candidate(h)
           significant == significant_candidate_found \/ h[c] > Converged
           m == EchoDelay!MostLag
<1>1. HistogramInv' /\ EchoDelay!MostLag' = m
  BY HistogramKept DEF EstimatorInv, EchoDelay!MostLag
<1>2. DataInv'
  BY DataKept DEF EstimatorInv
<1>3. /\ h \in [0 .. m -> Int] /\ h[0] + Len(recent') = 0
      /\ \A l \in 1 .. m : h[l] = Found(recent', l)
  BY <1>1 DEF HistogramInv
<1>4. c \in 0 .. m /\ h[lag] <= h[c]
  <2>1. lag \in 0 .. m
    BY LagNumbers
  <2> QED
    BY <1>3, <2>1, MostFrequent
<1>5. recent' \in Seq(Lags) /\ Len(recent') \in Nat
  BY <1>2, LenProperties DEF DataInv
<1>6. m \in Nat /\ lag \in 1 .. m /\ Initial \in Nat /\ Converged \in Nat
  BY LagNumbers
<1>7. Found(recent', lag) \in Nat /\ Found(recent', lag) > 0
  <2>1. /\ Found(recent', lag) =
             Found(recent, lag) - (IF LagWindow <= Len(recent) /\ recent[1] = lag THEN 1 ELSE 0)
                                + (IF lag = lag THEN 1 ELSE 0)
    BY RecentStep DEF EstimatorInv
  <2>2. Found(recent', lag) \in Nat
    BY <1>5, FoundMany
  <2>3. \E j \in 1 .. Len(recent') : recent'[j] = lag
    <3>1. /\ Len(recent') = IF Len(recent) < LagWindow THEN Len(recent) + 1 ELSE LagWindow
          /\ Len(recent) < LagWindow => recent'[Len(recent) + 1] = lag
          /\ LagWindow <= Len(recent) => recent'[LagWindow] = lag
      BY RecentStep DEF EstimatorInv
    <3>2. LagWindow \in Nat \ {0} /\ Len(recent) \in Nat
      BY LagNumbers, LenProperties DEF EstimatorInv, DataInv
    <3> QED
      BY <3>1, <3>2
  <2>4. {j \in DOMAIN recent' : recent'[j] = lag} # {}
    BY <1>5, <2>3, LenProperties
  <2>5. Found(recent', lag) # 0
    BY <1>5, <2>4, FoundMany, FS_EmptySet DEF Found
  <2> QED
    BY <2>2, <2>5
<1> HIDE DEF h, c, m
<1>8. c \in 1 .. m /\ h[c] = Found(recent', c)
  <2>1. h[lag] >= 1
    BY <1>3, <1>6, <1>7
  <2>2. h[c] \in Int /\ h[0] <= 0
    <3>1. h[c] \in Int /\ h[0] \in Int
      BY <1>3, <1>4, <1>6
    <3> QED
      BY <1>3, <1>5, <3>1
  <2>3. c # 0
    BY <1>3, <1>4, <1>6, <2>1, <2>2
  <2> QED
    BY <1>3, <1>4, <1>6, <2>3
<1>9. c \in Lags
  <2>1. Found(recent', c) > 0
    BY <1>3, <1>4, <1>6, <1>7, <1>8
  <2> QED
    BY <1>5, <2>1, FoundMany
<1>10. EchoDelay!Aggregate(lag).estimate =
         IF h[c] > Converged \/ (h[c] > Initial /\ ~significant)
         THEN [lag |-> c, refined |-> significant] ELSE EchoDelay!NoEstimate
  BY DEF EchoDelay!Aggregate, h, c
<1> DEFINE e == [lag |-> c, refined |-> significant]
<1>11. CASE h[c] > Converged \/ (h[c] > Initial /\ ~significant)
  <2>1. significant \in BOOLEAN
    OBVIOUS
  <2>2. e \in Estimate /\ e.lag = c /\ e.refined = significant
    BY <1>9, <2>1 DEF Estimate
  <2>3. CASE significant
    <3>1. h[c] > Converged /\ Threshold(e) = Converged
      BY <1>11, <2>2, <2>3 DEF Threshold
    <3> QED
      BY <1>8, <1>10, <1>11, <2>2, <3>1
  <2>4. CASE ~significant
    <3>1. h[c] > Initial /\ Threshold(e) = Initial
      BY <1>11, <2>2, <2>4 DEF Threshold
    <3> QED
      BY <1>8, <1>10, <1>11, <2>2, <3>1
  <2> QED
    BY <2>3, <2>4
<1> QED
  BY <1>10, <1>11

LEMMA BlocksNumber == ASSUME NEW lag \in Nat PROVE EchoDelay!Blocks(lag) \in Nat
<1>1. BlockLag \in Nat \ {0} /\ Headroom \in Nat
  BY LagNumbers
<1> DEFINE x == IF lag > Headroom THEN lag - Headroom ELSE 0
<1>2. x \in Nat
  BY <1>1
<1> HIDE DEF x
<1>3. x \div BlockLag \in Nat
  BY <1>1, <1>2
<1> QED
  BY <1>3 DEF EchoDelay!Blocks, x

\* The delay stays within the hysteresis below the estimate it is taken from.
LEMMA DelayKept ==
  ASSUME DelayInv,
         NEW found \in Estimate \cup {EchoDelay!NoEstimate}, EchoDelay!UpdateDelay(found),
         NEW count \in Int, support' = IF found = EchoDelay!NoEstimate THEN support ELSE count,
         found # EchoDelay!NoEstimate => count > Threshold(found)
  PROVE  DelayInv'
<1> DEFINE used == IF found # EchoDelay!NoEstimate THEN found ELSE delay_samples
           refined == last_quality = "refined" /\ used.refined
           limit == IF refined THEN Hysteresis ELSE 0
           b == EchoDelay!Blocks(used.lag)
<1>1. /\ delay \in Int /\ support \in Int
      /\ delay_samples \in Estimate \cup {EchoDelay!NoEstimate}
      /\ support' \in Int
  BY DEF DelayInv
<1>2. CASE used = EchoDelay!NoEstimate
  <2>1. UNCHANGED <<delay_samples, delay>> /\ found = EchoDelay!NoEstimate
    BY <1>2 DEF EchoDelay!UpdateDelay
  <2>2. support' = support
    BY <2>1
  <2> QED
    BY <2>1, <2>2 DEF DelayInv, Threshold, EchoDelay!NoEstimate, EchoDelay!None, EchoDelay!Blocks
<1>3. CASE used # EchoDelay!NoEstimate
  <2>1. used \in Estimate
    BY <1>1, <1>3
  <2>2. /\ delay_samples' = used
        /\ delay' = EchoDelay!ComputeBufferDelay(limit, used.lag)
    BY <1>3 DEF EchoDelay!UpdateDelay
  <2>3. support' > Threshold(used)
    <3>1. CASE found # EchoDelay!NoEstimate
      BY <3>1
    <3>2. CASE found = EchoDelay!NoEstimate
      BY <1>3, <3>2 DEF DelayInv
    <3> QED
      BY <3>1, <3>2
  <2> HIDE DEF used
  <2>4. used.lag \in Nat
    BY <2>1, LagAssumption DEF Estimate
  <2>5. b \in Nat /\ Hysteresis \in Nat
    BY <2>4, BlocksNumber, LagNumbers
  <2> HIDE DEF b
  <2>6. delay' = IF delay # EchoDelay!None /\ b > delay /\ b <= delay + limit THEN delay ELSE b
    BY <2>2 DEF EchoDelay!ComputeBufferDelay, b
  <2>7. limit \in {0, Hysteresis}
    OBVIOUS
  <2> HIDE DEF limit
  <2>8. delay' \in Int /\ delay' <= b /\ b <= delay' + Hysteresis
    BY <1>1, <2>5, <2>6, <2>7
  <2>9. EchoDelay!Blocks(delay_samples'.lag) = b
    BY <2>2 DEF b
  <2>10. delay_samples' # EchoDelay!NoEstimate
    BY <1>3, <2>2
  <2>11. Threshold(delay_samples') = Threshold(used)
    BY <2>2
  <2> QED
    BY <1>1, <2>1, <2>2, <2>3, <2>8, <2>9, <2>10, <2>11
    DEF DelayInv, Threshold, EchoDelay!Blocks, EchoDelay!NoEstimate, EchoDelay!None
<1> QED
  BY <1>2, <1>3

LEMMA ThreeApart ==
  ASSUME NEW a, NEW b, NEW c, a # b, a # c, b # c
  PROVE  IsFiniteSet({a, b, c}) /\ Cardinality({a, b, c}) = 3
<1>1. IsFiniteSet({a}) /\ Cardinality({a}) = 1
  BY FS_Singleton
<1>2. IsFiniteSet({a, b}) /\ Cardinality({a, b}) = 2
  <2>1. {a, b} = {a} \cup {b} /\ b \notin {a}
    OBVIOUS
  <2> QED
    BY <1>1, <2>1, FS_AddElement
<1>3. {a, b, c} = {a, b} \cup {c} /\ c \notin {a, b}
  OBVIOUS
<1> QED
  BY <1>2, <1>3, FS_AddElement

LEMMA FourApart ==
  ASSUME NEW a, NEW b, NEW c, NEW d, a # b, a # c, b # c, d \notin {a, b, c}
  PROVE  Cardinality({a, b, c, d}) = 4
<1>1. {a, b, c, d} = {a, b, c} \cup {d}
  OBVIOUS
<1>2. IsFiniteSet({a, b, c}) /\ Cardinality({a, b, c}) = 3
  BY ThreeApart
<1> QED
  BY <1>1, <1>2, FS_AddElement

LEMMA FirstOf ==
  ASSUME NEW s
  PROVE  /\ {s[i] : i \in 1 .. 3} = {s[1], s[2], s[3]}
         /\ {s[i] : i \in 1 .. 4} = {s[1], s[2], s[3], s[4]}
<1>1. 1 .. 3 = {1, 2, 3} /\ 1 .. 4 = {1, 2, 3, 4}
  OBVIOUS
<1> QED
  BY <1>1, Zenon

\* What the detector takes for a drift is one: none of the estimates it looks
\* at is a zero that its history began with.
LEMMA DriftSeen ==
  ASSUME DriftInv, NEW e \in Lags, EchoDelay!SeesDrift(e) # level,
         drift' = <<e>> \o estimates, level' = EchoDelay!SeesDrift(e)
  PROVE  \/ level' = "verified" /\ Drifted(4)'
         \/ level' = "probable" /\ Drifted(3)'
<1>1. PICK a, b, c \in Lags \cup {0} : estimates = <<a, b, c>>
  BY DEF DriftInv
<1> DEFINE d == EchoDelay!Moves(e)
           up == {d[1], d[2]} = {-1, -2}
           down == {d[1], d[2]} = {1, 2}
           Below == (a = e - 1 /\ b = e - 2) \/ (a = e - 2 /\ b = e - 1)
           Above == (a = e + 1 /\ b = e + 2) \/ (a = e + 2 /\ b = e + 1)
<1>2. /\ e \in Nat /\ a \in Nat /\ b \in Nat /\ c \in Nat /\ e >= 3
      /\ (a = 0 \/ (a \in Lags /\ a >= 3)) /\ (b = 0 \/ (b \in Lags /\ b >= 3))
      /\ (c = 0 \/ (c \in Lags /\ c >= 3))
  BY LagAssumption
<1>3. d[1] = a - e /\ d[2] = b - e /\ d[3] = c - e
  BY <1>1 DEF EchoDelay!Moves
<1>4. drift'[1] = e /\ drift'[2] = a /\ drift'[3] = b /\ drift'[4] = c
  <2>1. /\ <<e>> \in Seq(Nat) /\ <<a, b, c>> \in Seq(Nat)
        /\ Len(<<e>>) = 1 /\ Len(<<a, b, c>>) = 3
    BY <1>2
  <2>2. \A i \in 1 .. 4 : drift'[i] = IF i <= 1 THEN <<e>>[i] ELSE <<a, b, c>>[i - 1]
    BY <1>1, <2>1, ConcatProperties
  <2>3. drift'[1] = <<e>>[1]
    BY <2>2
  <2>4. drift'[2] = <<a, b, c>>[1] /\ drift'[3] = <<a, b, c>>[2] /\ drift'[4] = <<a, b, c>>[3]
    <3> DEFINE t == <<a, b, c>>
               u == drift'
    <3>1. \A i \in 2 .. 4 : u[i] = t[i - 1]
      <4>1. \A i \in 2 .. 4 : i \in 1 .. 4 /\ ~(i <= 1)
        OBVIOUS
      <4> QED
        BY <2>2, <4>1
    <3> HIDE DEF t, u
    <3>2. u[2] = t[1] /\ u[3] = t[2] /\ u[4] = t[3]
      BY <3>1
    <3> QED
      BY <3>2 DEF t, u
  <2> QED
    BY <2>3, <2>4
<1> DEFINE further == (up /\ d[3] = -3) \/ (down /\ d[3] = 3)
           probable == (up \/ down) /\ ~further /\ level = "none"
<1>5. EchoDelay!SeesDrift(e) = CASE further -> "verified" [] probable -> "probable"
                                 [] OTHER -> level
  BY DEF EchoDelay!SeesDrift
<1> HIDE DEF d
<1>6. \/ further /\ level' = "verified"
      \/ (up \/ down) /\ level' = "probable"
  <2>1. ~(further /\ probable) /\ (probable => up \/ down)
    OBVIOUS
  <2> HIDE DEF further, probable
  <2>2. (further /\ level' = "verified") \/ (probable /\ level' = "probable")
    BY <1>5, <2>1
  <2> QED
    BY <2>1, <2>2
<1>7. up => Below
  <2> SUFFICES ASSUME up PROVE Below
    OBVIOUS
  <2>1. (d[1] = -1 /\ d[2] = -2) \/ (d[1] = -2 /\ d[2] = -1)
    OBVIOUS
  <2> QED
    BY <1>2, <1>3, <2>1
<1>8. down => Above
  <2> SUFFICES ASSUME down PROVE Above
    OBVIOUS
  <2>1. (d[1] = 1 /\ d[2] = 2) \/ (d[1] = 2 /\ d[2] = 1)
    OBVIOUS
  <2> QED
    BY <1>2, <1>3, <2>1
<1>9. {drift'[i] : i \in 1 .. 3} = {e, a, b} /\ {drift'[i] : i \in 1 .. 4} = {e, a, b, c}
  <2> DEFINE t == drift'
  <2>1. t[1] = e /\ t[2] = a /\ t[3] = b /\ t[4] = c
    BY <1>4
  <2> HIDE DEF t
  <2>2. {t[i] : i \in 1 .. 3} = {e, a, b} /\ {t[i] : i \in 1 .. 4} = {e, a, b, c}
    BY <2>1, FirstOf
  <2> QED
    BY <2>2 DEF t
<1> HIDE DEF up, down
<1>10. Below \/ Above => a # b /\ e # a /\ e # b /\ a \in Lags /\ b \in Lags
  BY <1>2
<1>11. CASE up /\ d[3] = -3 /\ level' = "verified"
  <2>1. c = e - 3 /\ Below
    BY <1>2, <1>3, <1>7, <1>11
  <2>2. c \in Lags /\ c # e /\ c # a /\ c # b
    BY <1>2, <2>1
  <2>3. Cardinality({e, a, b, c}) = 4
    <3>1. c \notin {e, a, b} /\ e # a /\ e # b /\ a # b
      BY <1>10, <2>1, <2>2
    <3> QED
      BY <3>1, FourApart
  <2>4. {e, a, b, c} \subseteq Lags /\ \A l \in {e, a, b, c} : e - l \in 0 .. 4 - 1
    BY <1>2, <1>10, <2>1, <2>2
  <2> QED
    BY <1>4, <1>9, <1>11, <2>3, <2>4 DEF Drifted
<1>12. CASE down /\ d[3] = 3 /\ level' = "verified"
  <2>1. c = e + 3 /\ Above
    BY <1>2, <1>3, <1>8, <1>12
  <2>2. c \in Lags /\ c # e /\ c # a /\ c # b
    BY <1>2, <2>1
  <2>3. Cardinality({e, a, b, c}) = 4
    <3>1. c \notin {e, a, b} /\ e # a /\ e # b /\ a # b
      BY <1>10, <2>1, <2>2
    <3> QED
      BY <3>1, FourApart
  <2>4. {e, a, b, c} \subseteq Lags /\ \A l \in {e, a, b, c} : l - e \in 0 .. 4 - 1
    BY <1>2, <1>10, <2>1, <2>2
  <2> QED
    BY <1>4, <1>9, <1>12, <2>3, <2>4 DEF Drifted
<1>13. CASE (up \/ down) /\ level' = "probable"
  <2>1. Below \/ Above
    BY <1>7, <1>8, <1>13
  <2>2. Cardinality({e, a, b}) = 3 /\ {e, a, b} \subseteq Lags
    BY <1>10, <2>1, ThreeApart
  <2>3. \/ \A l \in {e, a, b} : e - l \in 0 .. 3 - 1
        \/ \A l \in {e, a, b} : l - e \in 0 .. 3 - 1
    BY <1>2, <2>1
  <2> QED
    BY <1>4, <1>9, <1>13, <2>2, <2>3 DEF Drifted
<1> QED
  BY <1>6, <1>11, <1>12, <1>13

LEMMA DriftKept ==
  ASSUME DriftInv, NEW e \in Lags, EchoDelay!UpdateClockdrift(e)
  PROVE  DriftInv'
<1>1. PICK a, b, c \in Lags \cup {0} : estimates = <<a, b, c>>
  BY DEF DriftInv
<1>2. CASE e = estimates[1]
  <2>1. /\ UNCHANGED estimates /\ level' \in {"none", level}
        /\ drift' = IF level' = "none" THEN <<>> ELSE drift
    BY <1>2 DEF EchoDelay!UpdateClockdrift
  <2>2. level' # "none" => level' = level /\ drift' = drift
    BY <2>1
  <2> QED
    BY <2>1, <2>2 DEF DriftInv, Drifted
<1>3. CASE e # estimates[1]
  <2>1. /\ level' = EchoDelay!SeesDrift(e)
        /\ drift' = IF level' = level THEN drift ELSE <<e>> \o estimates
        /\ estimates' = <<e, estimates[1], estimates[2]>>
    BY <1>3 DEF EchoDelay!UpdateClockdrift
  <2>2. \E x, y, z \in Lags \cup {0} : estimates' = <<x, y, z>>
    BY <1>1, <2>1
  <2>3. CASE level' = level
    <3>1. drift' = drift
      BY <2>1, <2>3
    <3> QED
      BY <2>2, <2>3, <3>1 DEF DriftInv, Drifted
  <2>4. CASE level' # level
    <3>1. \/ level' = "verified" /\ Drifted(4)'
          \/ level' = "probable" /\ Drifted(3)'
      BY <2>1, <2>4, DriftSeen
    <3> QED
      BY <2>2, <3>1 DEF DriftInv
  <2> QED
    BY <2>3, <2>4
<1> QED
  BY <1>2, <1>3

\* Nothing in the window, and nothing in the histogram.
Emptied ==
  /\ recent = <<>> /\ histogram_data_index = 0
  /\ histogram_data = [i \in 0 .. LagWindow - 1 |-> 0]
  /\ lag_histogram = [l \in 0 .. EchoDelay!MostLag |-> 0]

LEMMA EmptiedWindow == Emptied => DataInv /\ HistogramInv
<1> SUFFICES ASSUME Emptied PROVE DataInv /\ HistogramInv
  OBVIOUS
<1>1. /\ LagWindow \in Nat \ {0} /\ EchoDelay!MostLag \in Nat
      /\ <<>> \in Seq(Lags) /\ Len(<<>>) = 0
  BY LagNumbers, EmptySeq
<1>2. ASSUME NEW l PROVE Found(recent, l) = 0
  <2>1. {i \in DOMAIN <<>> : <<>>[i] = l} = {}
    OBVIOUS
  <2> QED
    BY <2>1, FS_EmptySet DEF Found, Emptied
<1>3. DataInv
  BY <1>1 DEF DataInv, Emptied
<1>4. HistogramInv
  <2>1. /\ lag_histogram \in [0 .. EchoDelay!MostLag -> Int]
        /\ \A l \in 0 .. EchoDelay!MostLag : lag_histogram[l] = 0
    BY DEF Emptied
  <2>2. Len(recent) = 0 /\ 0 \in 0 .. EchoDelay!MostLag
    BY <1>1 DEF Emptied
  <2>3. \A l \in 1 .. EchoDelay!MostLag : l \in 0 .. EchoDelay!MostLag
    BY <1>1
  <2> QED
    BY <1>2, <2>1, <2>2, <2>3 DEF HistogramInv
<1> QED
  BY <1>3, <1>4

LEMMA EstimatorIsFounded == EchoDelay!Init => EstimatorInv
<1> SUFFICES ASSUME EchoDelay!Init PROVE EstimatorInv
  OBVIOUS
<1>1. /\ recent = <<>> /\ histogram_data_index = 0 /\ support = 0
      /\ histogram_data = [i \in 0 .. LagWindow - 1 |-> 0]
      /\ lag_histogram = [l \in 0 .. EchoDelay!MostLag |-> 0]
      /\ estimates = <<0, 0, 0>> /\ level = "none"
      /\ delay_samples = EchoDelay!NoEstimate /\ delay = EchoDelay!None
  BY DEF EchoDelay!Init, EchoDelay!NoData, EchoDelay!Empty
<1>2. DataInv /\ HistogramInv
  BY <1>1, EmptiedWindow DEF Emptied
<1>3. DelayInv
  BY <1>1 DEF DelayInv, EchoDelay!None
<1>4. DriftInv
  BY <1>1 DEF DriftInv
<1> QED
  BY <1>2, <1>3, <1>4 DEF EstimatorInv

LEMMA GetDelayKeeps ==
  ASSUME EstimatorInv, NEW lag \in Lags \cup {EchoDelay!None}, EchoDelay!GetDelay(lag)
  PROVE  EstimatorInv'
<1> DEFINE found == IF lag = EchoDelay!None THEN EchoDelay!NoEstimate
                    ELSE EchoDelay!Aggregate(lag).estimate
<1>1. /\ IF lag = EchoDelay!None THEN UNCHANGED <<EchoDelay!aggregator, recent>>
         ELSE lag_histogram' = EchoDelay!Exchanged(lag) /\ DataStep(lag)
      /\ IF found.refined THEN EchoDelay!UpdateClockdrift(found.lag)
         ELSE UNCHANGED <<estimates, level, stability_counter, drift>>
      /\ EchoDelay!UpdateDelay(found)
      /\ support' = IF found = EchoDelay!NoEstimate THEN support
                    ELSE Found(recent', found.lag)
  <2>1. CASE lag = EchoDelay!None
    BY <2>1 DEF EchoDelay!GetDelay, Found
  <2>2. CASE lag # EchoDelay!None
    <3>1. lag_histogram' = EchoDelay!Exchanged(lag)
      BY <2>2 DEF EchoDelay!GetDelay, EchoDelay!Aggregate
    <3>2. DataStep(lag)
      BY <2>2 DEF EchoDelay!GetDelay, DataStep
    <3>3. IF found.refined THEN EchoDelay!UpdateClockdrift(found.lag)
          ELSE UNCHANGED <<estimates, level, stability_counter, drift>>
      BY DEF EchoDelay!GetDelay
    <3>4. /\ EchoDelay!UpdateDelay(found)
          /\ support' = IF found = EchoDelay!NoEstimate THEN support
                        ELSE Found(recent', found.lag)
      <4>1. EchoDelay!UpdateDelay(found)
        BY DEF EchoDelay!GetDelay
      <4>2. support' = IF found = EchoDelay!NoEstimate THEN support
                       ELSE EchoDelay!Cardinality({i \in DOMAIN recent' : recent'[i] = found.lag})
        BY DEF EchoDelay!GetDelay
      <4> HIDE DEF found
      <4>3. Found(recent', found.lag) =
              EchoDelay!Cardinality({i \in DOMAIN recent' : recent'[i] = found.lag})
        BY SameCardinality DEF Found
      <4> QED
        BY <4>1, <4>2, <4>3
    <3> QED
      BY <2>2, <3>1, <3>2, <3>3, <3>4
  <2> QED
    BY <2>1, <2>2
<1>2. EchoDelay!None \notin Lags
  BY LagAssumption DEF EchoDelay!None
<1>3. DataInv' /\ HistogramInv'
  <2>1. CASE lag = EchoDelay!None
    <3>1. UNCHANGED <<lag_histogram, histogram_data, histogram_data_index, recent>>
      BY <1>1, <2>1 DEF EchoDelay!aggregator
    <3>2. EchoDelay!MostLag' = EchoDelay!MostLag
      BY DEF EchoDelay!MostLag
    <3> QED
      BY <3>1, <3>2 DEF EstimatorInv, DataInv, HistogramInv, Element
  <2>2. CASE lag # EchoDelay!None
    BY <1>1, <2>2, DataKept, HistogramKept DEF EstimatorInv
  <2> QED
    BY <2>1, <2>2
<1>4. \/ found = EchoDelay!NoEstimate
      \/ found \in Estimate /\ Found(recent', found.lag) > Threshold(found)
  BY <1>1, EstimateFounded
<1>5. found # EchoDelay!NoEstimate => Found(recent', found.lag) \in Nat
  <2>1. recent' \in Seq(Lags)
    BY <1>3 DEF DataInv
  <2> QED
    BY <2>1, FoundMany
<1> HIDE DEF found
<1>6. DriftInv'
  <2>1. CASE found.refined
    <3>1. found # EchoDelay!NoEstimate
      BY <2>1 DEF EchoDelay!NoEstimate
    <3>2. found.lag \in Lags
      BY <1>4, <3>1 DEF Estimate
    <3> QED
      BY <1>1, <2>1, <3>2, DriftKept DEF EstimatorInv
  <2>2. CASE ~found.refined
    <3>1. UNCHANGED <<estimates, level, drift>>
      BY <1>1, <2>2
    <3> QED
      BY <3>1 DEF EstimatorInv, DriftInv, Drifted
  <2> QED
    BY <2>1, <2>2
<1>7. DelayInv'
  <2>1. found \in Estimate \cup {EchoDelay!NoEstimate}
    BY <1>4
  <2>2. CASE found = EchoDelay!NoEstimate
    <3>1. support' = IF found = EchoDelay!NoEstimate THEN support ELSE 0
      BY <1>1, <2>2
    <3> QED
      BY <1>1, <2>1, <2>2, <3>1, DelayKept DEF EstimatorInv
  <2>3. CASE found # EchoDelay!NoEstimate
    <3> DEFINE count == Found(recent', found.lag)
    <3>1. count \in Int /\ count > Threshold(found)
      BY <1>4, <1>5, <2>3
    <3>2. support' = IF found = EchoDelay!NoEstimate THEN support ELSE count
      BY <1>1
    <3> HIDE DEF count
    <3> QED
      BY <1>1, <2>1, <3>1, <3>2, DelayKept DEF EstimatorInv
  <2> QED
    BY <2>2, <2>3
<1> QED
  BY <1>3, <1>6, <1>7 DEF EstimatorInv

LEMMA ResetKeeps ==
  ASSUME EstimatorInv, NEW reset_delay_confidence \in BOOLEAN,
         EchoDelay!Reset(reset_delay_confidence)
  PROVE  EstimatorInv'
<1>1. /\ recent' = <<>> /\ histogram_data_index' = 0 /\ support' = 0
      /\ histogram_data' = [i \in 0 .. LagWindow - 1 |-> 0]
      /\ lag_histogram' = [l \in 0 .. EchoDelay!MostLag |-> 0]
      /\ UNCHANGED <<estimates, level, drift>>
      /\ delay_samples' = EchoDelay!NoEstimate /\ delay' = EchoDelay!None
  BY DEF EchoDelay!Reset, EchoDelay!NoData, EchoDelay!Empty
<1>2. Emptied'
  <2>1. EchoDelay!MostLag' = EchoDelay!MostLag
    BY DEF EchoDelay!MostLag
  <2> QED
    BY <1>1, <2>1 DEF Emptied
<1>5. (DataInv /\ HistogramInv)'
  BY <1>2, EmptiedWindow, PTL
<1>3. DelayInv'
  BY <1>1 DEF DelayInv, EchoDelay!None, EchoDelay!NoEstimate
<1>4. DriftInv'
  BY <1>1 DEF EstimatorInv, DriftInv, Drifted
<1> QED
  BY <1>3, <1>4, <1>5 DEF EstimatorInv

LEMMA EstimatorInductive == EstimatorInv /\ [EchoDelay!Next]_(EchoDelay!vars) => EstimatorInv'
<1> SUFFICES ASSUME EstimatorInv, [EchoDelay!Next]_(EchoDelay!vars) PROVE EstimatorInv'
  OBVIOUS
<1>1. CASE \E lag \in Lags \cup {EchoDelay!None} : EchoDelay!GetDelay(lag)
  BY <1>1, GetDelayKeeps
<1>2. CASE \E reset_delay_confidence \in BOOLEAN : EchoDelay!Reset(reset_delay_confidence)
  BY <1>2, ResetKeeps
<1>3. CASE UNCHANGED EchoDelay!vars
  <2>1. UNCHANGED <<lag_histogram, histogram_data, histogram_data_index, recent, support,
                    estimates, level, drift, delay_samples, delay>>
    BY <1>3 DEF EchoDelay!vars, EchoDelay!aggregator, EchoDelay!detector, EchoDelay!controller
  <2>2. EchoDelay!MostLag' = EchoDelay!MostLag /\ EchoDelay!NoEstimate' = EchoDelay!NoEstimate
        /\ \A b : EchoDelay!Blocks(b)' = EchoDelay!Blocks(b)
    BY DEF EchoDelay!MostLag, EchoDelay!NoEstimate, EchoDelay!None, EchoDelay!Blocks
  <2>3. DataInv' /\ HistogramInv'
    BY <2>1, <2>2 DEF EstimatorInv, DataInv, HistogramInv, Element
  <2>4. DelayInv' /\ DriftInv'
    BY <2>1, <2>2 DEF EstimatorInv, DelayInv, DriftInv, Drifted, Threshold
  <2> QED
    BY <2>3, <2>4 DEF EstimatorInv
<1> QED
  BY <1>1, <1>2, <1>3 DEF EchoDelay!Next

\* The delay that the echo canceller applies is one that the matched filters
\* found often enough since the last reset, and none that is further below the
\* last estimate than the hysteresis; and a clock drift that is reported is
\* one that the estimates made: for any lags, any window and any thresholds,
\* and any sequence of lags found, and resets.
THEOREM DelayIsFounded == EchoDelay!Spec => []DelayFounded
<1>1. EchoDelay!Spec => []EstimatorInv
  BY EstimatorIsFounded, EstimatorInductive, PTL DEF EchoDelay!Spec
<1>2. EstimatorInv => DelayFounded
  <2> SUFFICES ASSUME EstimatorInv PROVE DelayFounded
    OBVIOUS
  <2>1. delay # EchoDelay!None =>
          /\ support > IF delay_samples.refined THEN Converged ELSE Initial
          /\ delay <= EchoDelay!Blocks(delay_samples.lag)
          /\ EchoDelay!Blocks(delay_samples.lag) <= delay + Hysteresis
    BY DEF EstimatorInv, DelayInv, Threshold
  <2>2. /\ level = "verified" => Drifted(4)
        /\ level # "none" /\ level # "verified" => Drifted(3)
    BY DEF EstimatorInv, DriftInv
  <2> DEFINE n == IF level = "verified" THEN 4 ELSE 3
             moved == {drift[i] : i \in 1 .. n}
  <2>3. level # "none" =>
          /\ moved \subseteq Lags /\ Cardinality(moved) = n
          /\ \/ \A l \in moved : drift[1] - l \in 0 .. n - 1
             \/ \A l \in moved : l - drift[1] \in 0 .. n - 1
    <3>1. CASE level = "verified"
      <4>1. n = 4
        BY <3>1
      <4> HIDE DEF n
      <4> QED
        BY <2>2, <3>1, <4>1 DEF Drifted
    <3>2. CASE level # "verified"
      <4>1. n = 3
        BY <3>2
      <4> HIDE DEF n
      <4> QED
        BY <2>2, <3>2, <4>1 DEF Drifted
    <3> QED
      BY <3>1, <3>2
  <2> QED
    BY <2>1, <2>3, SameCardinality DEF DelayFounded, EchoDelay!DelayFounded
<1> QED
  BY <1>1, <1>2, PTL

-----------------------------------------------------------------------------
(* The intake of RTP packets.  There is one number, base, such that every    *)
(* block of a codec whose timestamps are scaled has that of its place on     *)
(* one line, base + Factor * at, and the two references of the scaler are    *)
(* of one place.                                                             *)

Ratio(k) ==
  /\ k * Len(Media) <= TsModulus
  /\ \A t \in DOMAIN Scales :
       /\ Scales[t] = <<Scales[t][1], Scales[t][2]>> /\ Scales[t][2] \in Nat \ {0}
       /\ Scales[t][1] \in {Scales[t][2], k * Scales[t][2]}

Factor == CHOOSE k \in 1 .. TsModulus : Ratio(k)

Stamp(at) == (FirstTs + at) % TsModulus
OnLine(base, at) == (base + Factor * at) % TsModulus

Scalers ==
  [numerator : Nat, denominator : Nat \ {0}, received : BOOLEAN, external : Int, internal : Int]

Along(base, s, P) ==
  /\ s.received => \E e \in Int : s.external = Stamp(e) /\ s.internal = OnLine(base, e)
  /\ \A p \in P :
       IF p.rate[1] = p.rate[2] THEN p.timestamp = Stamp(p.at)
       ELSE s.received /\ p.timestamp = OnLine(base, p.at)

Sound(s, P) ==
  /\ s \in Scalers
  /\ s.numerator \in {s.denominator, Factor * s.denominator}
  /\ \A p \in P : p.at \in 1 .. Len(Media)
  /\ \E base \in Int : Along(base, s, P)

IntakeInv ==
  /\ Sound(Intake!Scaler, packets)
  /\ first_packet \in BOOLEAN
  /\ first_packet => packets = {}

LEMMA IntakeNumbers ==
  /\ TsModulus \in Nat \ {0} /\ FirstTs \in Nat /\ MaxRed \in Nat
  /\ Len(Media) \in Nat /\ DOMAIN Media = 1 .. Len(Media)
  /\ Factor \in Nat \ {0} /\ Ratio(Factor)
<1>1. \E k \in 1 .. TsModulus : Ratio(k)
  BY IntakeAssumption DEF Ratio
<1>2. Factor \in 1 .. TsModulus /\ Ratio(Factor)
  BY <1>1 DEF Factor
<1> QED
  BY <1>2, IntakeAssumption

\* Whole turns do not change a remainder.
LEMMA WholeTurns ==
  ASSUME NEW d \in Nat \ {0}, NEW x \in Int, NEW z \in Int
  PROVE  x % d \in 0 .. d - 1 /\ (x + d * z) % d = x % d
<1> DEFINE y == x + d * z
           q == x \div d
           p == y \div d
<1>1. /\ x = (d * q) + (x % d) /\ x % d \in 0 .. d - 1 /\ q \in Int
  OBVIOUS
<1>2. y \in Int /\ y = x + d * z
  OBVIOUS
<1> HIDE DEF y
<1>3. y = (d * p) + (y % d) /\ y % d \in 0 .. d - 1 /\ p \in Int
  BY <1>2
<1> HIDE DEF p, q
<1>4. d * p + (y % d) = d * q + (x % d) + d * z
  BY <1>1, <1>2, <1>3
<1> DEFINE w == p - q - z
<1>5. w \in Int /\ d * w + (y % d) = x % d
  <2>1. d * w = d * p - d * q - d * z
    BY <1>1, <1>3
  <2> QED
    BY <1>1, <1>3, <1>4, <2>1
<1> HIDE DEF w
<1>6. w = 0
  <2>1. CASE w >= 1
    <3>1. d * 1 <= d * w
      BY <1>5, <2>1, Times
    <3> QED
      BY <1>1, <1>3, <1>5, <3>1
  <2>2. CASE w <= -1
    <3>1. d * w <= d * (-1)
      BY <1>5, <2>2, Times
    <3> QED
      BY <1>1, <1>3, <1>5, <3>1
  <2> QED
    BY <1>5, <2>1, <2>2
<1>7. d * w = 0
  BY <1>6
<1> QED
  BY <1>1, <1>3, <1>5, <1>7 DEF y

\* What the scaler divides is a multiple of what it divides by.
LEMMA QuotientExact ==
  ASSUME NEW x \in Int, NEW k \in Nat, NEW d \in Nat \ {0}
  PROVE  Intake!Quotient(x * (k * d), d) = x * k
<1>1. ASSUME NEW n \in Int PROVE (d * n) \div d = n
  <2> DEFINE q == (d * n) \div d
             r == (d * n) % d
  <2>1. d * n = d * q + r /\ r \in 0 .. d - 1 /\ q \in Int
    OBVIOUS
  <2> HIDE DEF q, r
  <2>2. ~(q < n)
    <3>1. ASSUME q < n PROVE d * (q + 1) <= d * n
      BY <2>1, <3>1, Times
    <3>2. d * (q + 1) = d * q + d
      BY <2>1
    <3> QED
      BY <2>1, <3>1, <3>2
  <2>3. ~(n < q)
    <3>1. ASSUME n < q PROVE d * (n + 1) <= d * q
      BY <2>1, <3>1, Times
    <3>2. d * (n + 1) = d * n + d
      OBVIOUS
    <3> QED
      BY <2>1, <3>1, <3>2
  <2> QED
    BY <2>1, <2>2, <2>3 DEF q
<1> DEFINE y == x * (k * d)
<1>2. y = d * (x * k) /\ y \in Int /\ x * k \in Int
  OBVIOUS
<1>3. -y = d * (-(x * k)) /\ -(x * k) \in Int
  OBVIOUS
<1> HIDE DEF y
<1>4. y \div d = x * k
  BY <1>1, <1>2
<1>5. (-y) \div d = -(x * k)
  BY <1>1, <1>3
<1>6. -(-(x * k)) = x * k
  OBVIOUS
<1>7. -((-y) \div d) = x * k
  BY <1>5, <1>6
<1> QED
  BY <1>4, <1>7 DEF y, Intake!Quotient

\* From the references of one place the scaler comes to the timestamp of
\* another, whichever of the timestamps have wrapped.
LEMMA NextOnLine ==
  ASSUME NEW base \in Int, NEW e \in Int, NEW at \in Int
  PROVE  (OnLine(base, e) + (Stamp(at) - Stamp(e)) * Factor) % TsModulus = OnLine(base, at)
<1> DEFINE m == TsModulus
           k == Factor
           x == FirstTs + e
           y == FirstTs + at
           z == base + k * e
           a == x \div m
           b == y \div m
           c == z \div m
           v == (a - b) * k - c
<1>1. m \in Nat \ {0} /\ k \in Nat /\ x \in Int /\ y \in Int /\ z \in Int
  BY IntakeNumbers
<1>2. /\ x = m * a + (x % m) /\ a \in Int /\ x % m \in Int
      /\ y = m * b + (y % m) /\ b \in Int /\ y % m \in Int
      /\ z = m * c + (z % m) /\ c \in Int /\ z % m \in Int
  <2> HIDE DEF m, x, y, z
  <2> QED
    BY <1>1
<1>3. Stamp(e) = x % m /\ Stamp(at) = y % m /\ OnLine(base, e) = z % m
  BY DEF Stamp, OnLine
<1>4. y - x = at - e
  BY IntakeNumbers
<1>5. z = base + k * e
  OBVIOUS
<1> HIDE DEF m, k, x, y, z, a, b, c
<1>6. (Stamp(at) - Stamp(e)) * k = (at - e) * k + m * ((a - b) * k)
  <2>1. Stamp(at) - Stamp(e) = (at - e) + m * (a - b)
    <3>1. m * (a - b) = m * a - m * b
      BY <1>1, <1>2
    <3> QED
      BY <1>1, <1>2, <1>3, <1>4, <3>1
  <2>2. ((at - e) + m * (a - b)) * k = (at - e) * k + m * ((a - b) * k)
    BY <1>1, <1>2
  <2> QED
    BY <2>1, <2>2
<1>7. v \in Int /\ m * v = m * ((a - b) * k) - m * c
  BY <1>1, <1>2
<1>8. OnLine(base, e) + (Stamp(at) - Stamp(e)) * k = (base + k * at) + m * v
  <2>1. (at - e) * k = k * at - k * e /\ k * at \in Int /\ k * e \in Int
    BY <1>1
  <2>2. m * ((a - b) * k) \in Int /\ m * c \in Int
    BY <1>1, <1>2
  <2>3. OnLine(base, e) = base + k * e - m * c
    BY <1>2, <1>3, <1>5, <2>1, <2>2
  <2>4. (Stamp(at) - Stamp(e)) * k = k * at - k * e + m * ((a - b) * k)
    BY <1>6, <2>1
  <2> DEFINE f == m * ((a - b) * k)
             g == m * c
             h == k * at
             j == k * e
  <2> HIDE DEF f, g, h, j
  <2>5. /\ {f, g, h, j} \subseteq Int
        /\ OnLine(base, e) = base + j - g
        /\ (Stamp(at) - Stamp(e)) * k = h - j + f /\ m * v = f - g
    BY <1>7, <2>1, <2>2, <2>3, <2>4 DEF f, g, h, j
  <2>6. OnLine(base, e) + (Stamp(at) - Stamp(e)) * k = base + h + m * v
    BY <2>5
  <2> QED
    BY <2>6 DEF h
<1>9. base + k * at \in Int
  BY <1>1
<1> HIDE DEF v
<1>10. ((base + k * at) + m * v) % m = (base + k * at) % m
  BY <1>1, <1>7, <1>9, WholeTurns
<1> QED
  BY <1>8, <1>10 DEF m, k, OnLine

\* What SplitRed makes of a block.
Block(p) == p.at \in 1 .. Len(Media) /\ p.timestamp = Stamp(p.at)

LEMMA ScaleKeeps ==
  ASSUME NEW s, NEW P, Sound(s, P), NEW p, Block(p)
  PROVE  LET t == Intake!Scale(s, p)
         IN  Sound(t, P \cup {Intake!Scaled(t, p)})
<1> DEFINE ratio == IF p.type \in DOMAIN Scales THEN Scales[p.type]
                   ELSE <<s.numerator, s.denominator>>
           t == Intake!Scale(s, p)
           o == Intake!Scaled(t, p)
           r == [s EXCEPT !.numerator = ratio[1], !.denominator = ratio[2]]
           ref == IF s.received THEN <<s.external, s.internal>>
                  ELSE <<p.timestamp, p.timestamp>>
<1>1. /\ s \in Scalers /\ s.numerator \in {s.denominator, Factor * s.denominator}
      /\ \A q \in P : q.at \in 1 .. Len(Media)
  BY DEF Sound
<1>2. /\ ratio[2] \in Nat \ {0} /\ ratio[1] \in {ratio[2], Factor * ratio[2]}
      /\ Factor \in Nat \ {0}
  <2>1. CASE p.type \in DOMAIN Scales
    BY <2>1, IntakeNumbers DEF Ratio
  <2>2. CASE p.type \notin DOMAIN Scales
    BY <1>1, <2>2, IntakeNumbers DEF Scalers
  <2> QED
    BY <2>1, <2>2
<1>3. ratio[1] \in Nat /\ p.timestamp \in Int /\ p.at \in Int /\ p.at \in 1 .. Len(Media)
  <2>1. p.at \in Int /\ p.at \in 1 .. Len(Media) /\ p.timestamp = Stamp(p.at)
    BY IntakeNumbers DEF Block
  <2>2. FirstTs + p.at \in Int
    BY <2>1, IntakeNumbers
  <2>3. Stamp(p.at) \in Int
    BY <2>2, IntakeNumbers DEF Stamp
  <2>4. ratio[1] \in Nat
    BY <1>2
  <2> QED
    BY <2>1, <2>3, <2>4
<1>4. t = IF ratio[1] = ratio[2] THEN r
          ELSE [r EXCEPT !.received = TRUE, !.external = p.timestamp,
                         !.internal = (ref[2] + Intake!Quotient((p.timestamp - ref[1]) * ratio[1],
                                                                ratio[2])) % TsModulus]
  BY DEF Intake!Scale
<1>5. o.at = p.at /\ o.rate = <<t.numerator, t.denominator>>
      /\ o.timestamp = IF t.numerator = t.denominator THEN p.timestamp ELSE t.internal
  BY DEF Intake!Scaled
<1> SUFFICES Sound(t, P \cup {o})
  OBVIOUS
<1> HIDE DEF ratio, t, o
<1>6. \A q \in P \cup {o} : q.at \in 1 .. Len(Media)
  BY <1>1, <1>3, <1>5
<1>7. CASE ratio[1] = ratio[2]
  <2>1. PICK base \in Int : Along(base, s, P)
    BY DEF Sound
  <2>2. t = r
    BY <1>4, <1>7
  <2>3. /\ t \in Scalers /\ t.numerator = ratio[1] /\ t.denominator = ratio[2]
        /\ t.received = s.received /\ t.external = s.external /\ t.internal = s.internal
    BY <1>1, <1>2, <1>3, <2>2 DEF Scalers
  <2>4. o.rate[1] = o.rate[2] /\ o.timestamp = Stamp(o.at)
    BY <1>5, <1>7, <2>3 DEF Block
  <2>5. Along(base, t, P \cup {o})
    BY <2>1, <2>3, <2>4 DEF Along
  <2> QED
    BY <1>2, <1>6, <2>3, <2>5 DEF Sound
<1>8. CASE ratio[1] # ratio[2]
  <2> DEFINE diff == p.timestamp - ref[1]
             next == ref[2] + Intake!Quotient(diff * ratio[1], ratio[2])
  <2>1. ref[1] \in Int /\ ref[2] \in Int
    BY <1>1, <1>3 DEF Scalers
  <2>2. next = ref[2] + diff * Factor
    <3>1. diff \in Int
      BY <1>3, <2>1
    <3>2. ratio[1] = Factor * ratio[2]
      BY <1>2, <1>8
    <3> HIDE DEF diff, ref
    <3>3. Intake!Quotient(diff * ratio[1], ratio[2]) = diff * Factor
      BY <1>2, <3>1, <3>2, QuotientExact
    <3> QED
      BY <3>3
  <2>3. next \in Int
    BY <1>2, <1>3, <2>1, <2>2
  <2>4. t = [r EXCEPT !.received = TRUE, !.external = p.timestamp,
                      !.internal = next % TsModulus]
    BY <1>4, <1>8
  <2> HIDE DEF next, ref
  <2>5. /\ t \in Scalers /\ t.numerator = ratio[1] /\ t.denominator = ratio[2]
        /\ t.received = TRUE /\ t.external = p.timestamp /\ t.internal = next % TsModulus
    <3>1. next % TsModulus \in Int
      BY <2>3, IntakeNumbers
    <3> QED
      BY <1>1, <1>2, <1>3, <2>4, <3>1 DEF Scalers
  <2>6. o.rate[1] # o.rate[2] /\ o.timestamp = next % TsModulus
    BY <1>5, <1>8, <2>5
  <2>7. ASSUME NEW base \in Int, next % TsModulus = OnLine(base, p.at),
               \A q \in P : IF q.rate[1] = q.rate[2] THEN q.timestamp = Stamp(q.at)
                            ELSE q.timestamp = OnLine(base, q.at)
        PROVE  Sound(t, P \cup {o})
    <3>1. Along(base, t, P \cup {o})
      BY <1>3, <1>5, <2>5, <2>6, <2>7 DEF Along, Block
    <3> QED
      BY <1>2, <1>6, <2>5, <3>1 DEF Sound
  <2>8. CASE s.received
    <3>1. PICK base \in Int : Along(base, s, P)
      BY DEF Sound
    <3>2. PICK e \in Int : s.external = Stamp(e) /\ s.internal = OnLine(base, e)
      BY <2>8, <3>1 DEF Along
    <3>3. next = OnLine(base, e) + (Stamp(p.at) - Stamp(e)) * Factor
      BY <2>2, <2>8, <3>2 DEF ref, Block
    <3>4. next % TsModulus = OnLine(base, p.at)
      BY <1>3, <3>3, NextOnLine
    <3> QED
      BY <2>7, <3>1, <3>4 DEF Along
  <2>9. CASE ~s.received
    <3> DEFINE base == p.timestamp - Factor * p.at
    <3>1. base \in Int /\ base + Factor * p.at = p.timestamp
      BY <1>2, <1>3
    <3>2. next = p.timestamp
      <4>1. diff = 0 /\ ref[2] = p.timestamp
        BY <1>3, <2>9 DEF ref
      <4> HIDE DEF diff
      <4> QED
        BY <1>2, <1>3, <2>2, <4>1
    <3> HIDE DEF base
    <3>3. next % TsModulus = OnLine(base, p.at)
      BY <3>1, <3>2 DEF OnLine
    <3>4. \A q \in P : q.rate[1] = q.rate[2] /\ q.timestamp = Stamp(q.at)
      BY <2>9 DEF Sound, Along
    <3> QED
      BY <2>7, <3>1, <3>3, <3>4
  <2> QED
    BY <2>8, <2>9
<1> QED
  BY <1>7, <1>8

\* Of times in the stream a line tells which is which.
LEMMA LineTells ==
  ASSUME NEW base \in Int, NEW k \in Nat \ {0}, k * Len(Media) <= TsModulus,
         NEW x \in 1 .. Len(Media), NEW y \in 1 .. Len(Media),
         (base + k * x) % TsModulus = (base + k * y) % TsModulus
  PROVE  x = y
<1> DEFINE m == TsModulus
           len == Len(Media)
<1>1. m \in Nat \ {0} /\ len \in Nat /\ k * len <= m
  BY IntakeNumbers
<1>2. ASSUME NEW u \in 1 .. len, NEW v \in 1 .. len, u > v,
             (base + k * u) % m = (base + k * v) % m
      PROVE  FALSE
  <2>1. k * (u - v) <= k * (len - 1) /\ k * (len - 1) = k * len - k
    BY <1>1, <1>2, Times
  <2>2. k * 1 <= k * (u - v)
    BY <1>2, Times
  <2>3. k * (u - v) = k * u - k * v /\ k * u \in Int /\ k * v \in Int
    OBVIOUS
  <2> DEFINE a == base + k * u
             b == base + k * v
  <2>4. a \in Int /\ b \in Int /\ a - b \in 1 .. m - 1
    BY <1>1, <2>1, <2>2, <2>3
  <2>5. a % m = b % m
    BY <1>2
  <2> HIDE DEF a, b, m
  <2>6. a - b \in 0 .. m - 1
    BY <1>1, <2>4
  <2>7. /\ a % m \in 0 .. m - 1 /\ b % m \in 0 .. m - 1
        /\ \/ a % m >= b % m /\ (a % m) - (b % m) = a - b
           \/ a % m < b % m /\ (a % m) - (b % m) + m = a - b
    BY <1>1, <2>4, <2>6, Remainders
  <2> QED
    BY <2>4, <2>5, <2>7
<1> QED
  BY <1>1, <1>2

LEMMA CopiesSound ==
  ASSUME NEW s, Sound(s, packets)
  PROVE  CopiesAgree
<1>1. PICK base \in Int : Along(base, s, packets)
  BY DEF Sound
<1>2. ASSUME NEW p \in packets, NEW q \in packets, p.rate = q.rate
      PROVE  p.at = q.at <=> p.timestamp = q.timestamp
  <2>1. p.at \in 1 .. Len(Media) /\ q.at \in 1 .. Len(Media)
    BY DEF Sound
  <2>2. CASE p.rate[1] = p.rate[2]
    <3>1. p.timestamp = Stamp(p.at) /\ q.timestamp = Stamp(q.at)
      BY <1>1, <1>2, <2>2 DEF Along
    <3>2. 1 * p.at = p.at /\ 1 * q.at = q.at
      BY <2>1
    <3>3. 1 * Len(Media) <= TsModulus
      <4>1. Factor * Len(Media) <= TsModulus
        BY IntakeNumbers DEF Ratio
      <4>2. Len(Media) * 1 <= Len(Media) * Factor
        BY IntakeNumbers, Times
      <4> QED
        BY <4>1, <4>2, IntakeNumbers
    <3>4. Stamp(p.at) = Stamp(q.at) => p.at = q.at
      <4>1. FirstTs \in Int /\ 1 \in Nat \ {0}
        BY IntakeNumbers
      <4>2. \A x, y \in 1 .. Len(Media) :
              (FirstTs + 1 * x) % TsModulus = (FirstTs + 1 * y) % TsModulus => x = y
        BY <3>3, <4>1, LineTells
      <4> QED
        BY <2>1, <3>2, <4>2 DEF Stamp
    <3> QED
      BY <3>1, <3>4
  <2>3. CASE p.rate[1] # p.rate[2]
    <3>1. p.timestamp = OnLine(base, p.at) /\ q.timestamp = OnLine(base, q.at)
      BY <1>1, <1>2, <2>3 DEF Along
    <3>2. OnLine(base, p.at) = OnLine(base, q.at) => p.at = q.at
      BY <2>1, LineTells, IntakeNumbers DEF OnLine, Ratio
    <3> QED
      BY <3>1, <3>2
  <2> QED
    BY <2>2, <2>3
<1> QED
  BY <1>2 DEF CopiesAgree, Intake!CopiesAgree

LEMMA ScaleTyped ==
  ASSUME NEW s \in Scalers, NEW p, Block(p)
  PROVE  Intake!Scale(s, p) \in Scalers
<1> DEFINE ratio == IF p.type \in DOMAIN Scales THEN Scales[p.type]
                   ELSE <<s.numerator, s.denominator>>
           r == [s EXCEPT !.numerator = ratio[1], !.denominator = ratio[2]]
           ref == IF s.received THEN <<s.external, s.internal>>
                  ELSE <<p.timestamp, p.timestamp>>
           product == (p.timestamp - ref[1]) * ratio[1]
           next == ref[2] + Intake!Quotient(product, ratio[2])
<1>1. ratio[1] \in Nat /\ ratio[2] \in Nat \ {0}
  <2>1. CASE p.type \in DOMAIN Scales
    <3>1. /\ Scales[p.type][2] \in Nat \ {0} /\ Factor \in Nat
          /\ Scales[p.type][1] \in {Scales[p.type][2], Factor * Scales[p.type][2]}
      BY <2>1, IntakeNumbers DEF Ratio
    <3> QED
      BY <2>1, <3>1
  <2>2. CASE p.type \notin DOMAIN Scales
    BY <2>2 DEF Scalers
  <2> QED
    BY <2>1, <2>2
<1>2. p.timestamp \in Int
  <2>1. p.at \in Int /\ p.timestamp = Stamp(p.at)
    BY IntakeNumbers DEF Block
  <2>2. FirstTs + p.at \in Int
    BY <2>1, IntakeNumbers
  <2> QED
    BY <2>1, <2>2, IntakeNumbers DEF Stamp
<1>3. Intake!Scale(s, p) =
        IF ratio[1] = ratio[2] THEN r
        ELSE [r EXCEPT !.received = TRUE, !.external = p.timestamp,
                       !.internal = next % TsModulus]
  BY DEF Intake!Scale
<1>4. ref[1] \in Int /\ ref[2] \in Int
  BY <1>2 DEF Scalers
<1> HIDE DEF ratio, ref
<1>5. product \in Int
  BY <1>1, <1>2, <1>4
<1> HIDE DEF product
<1>6. next \in Int
  <2>1. product \div ratio[2] \in Int /\ (-product) \div ratio[2] \in Int
    BY <1>1, <1>5
  <2> QED
    BY <1>4, <2>1 DEF Intake!Quotient
<1> HIDE DEF next
<1>7. next % TsModulus \in Int
  BY <1>6, IntakeNumbers
<1>8. r \in Scalers
  BY <1>1 DEF Scalers
<1> QED
  BY <1>2, <1>3, <1>7, <1>8 DEF Scalers

\* What scaling a list makes of the packets and the scaler.
LEMMA ListKeeps ==
  ASSUME NEW s, Sound(s, packets), NEW list, Len(list) \in Nat,
         \A i \in 1 .. Len(list) : Block(list[i]),
         NEW left \in SUBSET (1 .. Len(list))
  PROVE  LET end == Intake!ToInternal(s, list, left)
         IN  Sound(end.scaler, packets \cup end.out)
<1> DEFINE n == Len(list)
           Steps(f) == f = [i \in 0 .. n |->
                              IF i = 0 THEN s
                              ELSE IF i \in left THEN Intake!Scale(f[i - 1], list[i])
                                                 ELSE f[i - 1]]
           step == [i \in 1 .. n |-> [x \in Scalers |->
                      IF i \in left THEN Intake!Scale(x, list[i]) ELSE x]]
           base == s
<1>1. n \in Nat /\ base \in Scalers
  BY DEF Sound
<1>2. step \in [1 .. n -> [Scalers -> Scalers]]
  <2>1. ASSUME NEW i \in 1 .. n, NEW x \in Scalers
        PROVE  (IF i \in left THEN Intake!Scale(x, list[i]) ELSE x) \in Scalers
    BY ScaleTyped
  <2> QED
    BY <2>1
<1>3. PICK f \in [0 .. n -> Scalers] :
        f[0] = base /\ \A i \in 1 .. n : f[i] = step[i][f[i - 1]]
  <2> HIDE DEF n, step, base
  <2>1. Definable(n, Scalers, base, step)
    BY <1>1, <1>2, Recursion
  <2> QED
    BY <2>1 DEF Definable
<1>4. Steps(f)
  <2> HIDE DEF n
  <2>1. \A i \in 0 .. n : f[i] = IF i = 0 THEN s
                                 ELSE IF i \in left THEN Intake!Scale(f[i - 1], list[i])
                                 ELSE f[i - 1]
    <3>1. ASSUME NEW i \in 0 .. n, i # 0
          PROVE  f[i] = IF i \in left THEN Intake!Scale(f[i - 1], list[i]) ELSE f[i - 1]
      <4>1. i \in 1 .. n /\ f[i - 1] \in Scalers
        BY <1>1, <3>1
      <4> QED
        BY <1>3, <4>1
    <3> QED
      BY <1>3, <3>1
  <2>2. f = [i \in 0 .. n |-> f[i]]
    OBVIOUS
  <2> QED
    BY <2>1, <2>2, Zenon
<1> HIDE DEF Steps
<1> DEFINE scalers == CHOOSE g : Steps(g)
           Out(i) == {Intake!Scaled(scalers[j], list[j]) : j \in {k \in left : k <= i}}
           end == Intake!ToInternal(s, list, left)
<1>5. Steps(scalers)
  BY <1>4
<1>6. end = [scaler |-> scalers[n], out |-> {Intake!Scaled(scalers[j], list[j]) : j \in left}]
  BY DEF Intake!ToInternal, Steps
<1> HIDE DEF scalers, end
<1>7. /\ scalers[0] = s
      /\ \A i \in 1 .. n : scalers[i] = IF i \in left THEN Intake!Scale(scalers[i - 1], list[i])
                                        ELSE scalers[i - 1]
  <2>1. scalers = [i \in 0 .. n |-> IF i = 0 THEN s
                                    ELSE IF i \in left THEN Intake!Scale(scalers[i - 1], list[i])
                                    ELSE scalers[i - 1]]
    BY <1>5, Zenon DEF Steps
  <2> HIDE DEF n
  <2>2. \A i \in 0 .. n : scalers[i] = IF i = 0 THEN s
                                    ELSE IF i \in left THEN Intake!Scale(scalers[i - 1], list[i])
                                    ELSE scalers[i - 1]
    BY <2>1, Zenon
  <2>3. 0 \in 0 .. n /\ \A i \in 1 .. n : i \in 0 .. n /\ i # 0
    BY <1>1
  <2> QED
    BY <2>2, <2>3
<1> DEFINE T == {i \in 0 .. n : Sound(scalers[i], packets \cup Out(i))}
<1>8. 0 \in T
  <2>1. Out(0) = {}
    <3>1. \A k \in left : k \in 1 .. n /\ ~(k <= 0)
      OBVIOUS
    <3>2. {k \in left : k <= 0} = {}
      BY <3>1
    <3> QED
      BY <3>2
  <2>2. packets \cup Out(0) = packets
    BY <2>1
  <2> HIDE DEF Out
  <2>3. Sound(scalers[0], packets \cup Out(0))
    BY <1>7, <2>2
  <2>4. 0 \in 0 .. n
    BY <1>1
  <2> QED
    BY <2>3, <2>4
<1>9. ASSUME NEW i \in 0 .. n - 1, i \in T PROVE i + 1 \in T
  <2>1. i + 1 \in 1 .. n /\ (i + 1) - 1 = i /\ i + 1 \in 0 .. n
    BY <1>1
  <2>2. Sound(scalers[i], packets \cup Out(i))
    BY <1>9
  <2>3. CASE i + 1 \in left
    <3> DEFINE o == Intake!Scaled(scalers[i + 1], list[i + 1])
    <3>1. scalers[i + 1] = Intake!Scale(scalers[i], list[i + 1]) /\ Block(list[i + 1])
      BY <1>7, <2>1, <2>3
    <3>2. Out(i + 1) = Out(i) \cup {o}
      <4>1. {k \in left : k <= i + 1} = {k \in left : k <= i} \cup {i + 1}
        BY <2>3
      <4> QED
        BY <4>1
    <3>3. packets \cup Out(i + 1) = (packets \cup Out(i)) \cup {o}
      BY <3>2
    <3> HIDE DEF Out
    <3>4. Sound(scalers[i + 1], (packets \cup Out(i)) \cup {o})
      BY <2>2, <3>1, ScaleKeeps
    <3> QED
      BY <2>1, <3>3, <3>4
  <2>4. CASE i + 1 \notin left
    <3>1. {k \in left : k <= i + 1} = {k \in left : k <= i}
      BY <2>4
    <3>2. Out(i + 1) = Out(i)
      BY <3>1
    <3>3. scalers[i + 1] = scalers[i]
      BY <1>7, <2>1, <2>4
    <3> HIDE DEF Out
    <3> QED
      BY <2>1, <2>2, <3>2, <3>3
  <2> QED
    BY <2>3, <2>4
<1>10. 0 .. n \subseteq T
  <2> HIDE DEF T, n
  <2> QED
    BY <1>1, <1>8, <1>9, Induction
<1>11. n \in 0 .. n
  BY <1>1
<1>12. Sound(scalers[n], packets \cup Out(n))
  BY <1>10, <1>11
<1>13. {k \in left : k <= n} = left
  OBVIOUS
<1>14. end.scaler = scalers[n] /\ end.out = Out(n)
  BY <1>6, <1>13
<1> QED
  BY <1>12, <1>14 DEF end

\* SplitRed makes of a packet its blocks.
LEMMA SplitBlocks ==
  ASSUME NEW rtp \in Intake!Sent
  PROVE  LET list == Intake!SplitRed(rtp)
         IN  /\ Len(list) \in Nat /\ DOMAIN list = 1 .. Len(list)
             /\ \A i \in 1 .. Len(list) : Block(list[i])
<1> DEFINE n == Len(rtp.offsets)
           list == Intake!SplitRed(rtp)
           back == Intake!Reverse(rtp.offsets)
<1>1. rtp.at \in 1 .. Len(Media) /\ rtp.offsets[1] < rtp.at
  BY IntakeNumbers DEF Intake!Sent, Intake!Rtp
<1>2. /\ n \in Nat /\ n > 0 /\ rtp.offsets[1] \in Nat
      /\ \A i \in 1 .. n : rtp.offsets[i] \in 0 .. rtp.offsets[1]
  <2>1. CASE rtp.offsets = <<0>>
    BY <2>1
  <2>2. CASE \E m \in 1 .. MaxRed : rtp.offsets = [i \in 1 .. m + 1 |-> m + 1 - i]
    <3>1. PICK m \in 1 .. MaxRed : rtp.offsets = [i \in 1 .. m + 1 |-> m + 1 - i]
      BY <2>2
    <3>2. m \in Nat /\ m + 1 \in Nat
      BY IntakeNumbers
    <3>3. n = m + 1
      BY <3>1, <3>2
    <3> QED
      BY <3>1, <3>2, <3>3
  <2>3. rtp.offsets \in {<<0>>} \cup {[i \in 1 .. m + 1 |-> m + 1 - i] : m \in 1 .. MaxRed}
    BY DEF Intake!Sent, Intake!Rtp
  <2> HIDE DEF n
  <2> QED
    BY <2>1, <2>2, <2>3
<1>3. back = [i \in 1 .. n |-> rtp.offsets[(n - i) + 1]]
  BY DEF Intake!Reverse
<1>4. \A i \in 1 .. n : back[i] \in 0 .. rtp.offsets[1]
  <2> HIDE DEF n
  <2>1. \A i \in 1 .. n : (n - i) + 1 \in 1 .. n
    BY <1>2
  <2> QED
    BY <1>2, <1>3, <2>1
<1>5. list = [i \in 1 .. n |->
                [type |-> Media[rtp.at - back[i]], at |-> rtp.at - back[i],
                 timestamp |-> (FirstTs + rtp.at - back[i]) % TsModulus]]
  BY DEF Intake!SplitRed
<1> HIDE DEF n, list, back
<1>6. Len(list) = n /\ DOMAIN list = 1 .. n
  BY <1>2, <1>5
<1>7. ASSUME NEW i \in 1 .. n PROVE Block(list[i])
  <2>1. list[i].at = rtp.at - back[i]
        /\ list[i].timestamp = (FirstTs + rtp.at - back[i]) % TsModulus
    BY <1>5
  <2>2. rtp.at - back[i] \in 1 .. Len(Media)
        /\ FirstTs + rtp.at - back[i] = FirstTs + (rtp.at - back[i])
    BY <1>1, <1>2, <1>4, IntakeNumbers
  <2> QED
    BY <2>1, <2>2 DEF Block, Stamp
<1> QED
  BY <1>2, <1>6, <1>7 DEF list

LEMMA InsertPacketKeeps ==
  ASSUME IntakeInv, NEW rtp \in Intake!Sent, Intake!InsertPacket(rtp)
  PROVE  IntakeInv'
<1> DEFINE reset == [numerator |-> numerator, denominator |-> denominator,
                     received |-> scaler_received /\ ~first_packet,
                     external |-> external_ref, internal |-> internal_ref]
           list == Intake!SplitRed(rtp)
           left == Intake!CheckRedPayloads(list)
           end == Intake!ToInternal(reset, list, left)
<1>1. Sound(reset, packets)
  <2>1. CASE first_packet
    <3>1. packets = {} /\ reset.received = FALSE
      BY <2>1 DEF IntakeInv
    <3>2. reset \in Scalers /\ reset.numerator \in {reset.denominator, Factor * reset.denominator}
      BY DEF IntakeInv, Sound, Scalers, Intake!Scaler
    <3>3. Along(0, reset, packets)
      BY <3>1 DEF Along
    <3> QED
      BY <3>1, <3>2, <3>3 DEF Sound
  <2>2. CASE ~first_packet
    <3>1. scaler_received \in BOOLEAN
      BY DEF IntakeInv, Sound, Scalers, Intake!Scaler
    <3>2. (scaler_received /\ ~first_packet) = scaler_received
      BY <2>2, <3>1, Zenon
    <3>3. reset = Intake!Scaler
      BY <3>2 DEF Intake!Scaler
    <3> QED
      BY <3>3 DEF IntakeInv
  <2> QED
    BY <2>1, <2>2
<1>2. /\ Len(list) \in Nat /\ DOMAIN list = 1 .. Len(list)
      /\ \A i \in 1 .. Len(list) : Block(list[i])
  BY SplitBlocks
<1>3. left \in SUBSET (1 .. Len(list))
  <2> HIDE DEF list
  <2> QED
    BY <1>2 DEF Intake!CheckRedPayloads
<1>4. /\ numerator' = end.scaler.numerator /\ denominator' = end.scaler.denominator
      /\ scaler_received' = end.scaler.received
      /\ external_ref' = end.scaler.external /\ internal_ref' = end.scaler.internal
      /\ first_packet' = FALSE
      /\ packets' = packets \cup end.out
  BY DEF Intake!InsertPacket
<1> HIDE DEF list, left, reset
<1>5. Sound(end.scaler, packets \cup end.out)
  BY <1>1, <1>2, <1>3, ListKeeps
<1> HIDE DEF end
<1>6. Intake!Scaler' = end.scaler
  <2>1. end.scaler \in Scalers
    BY <1>5 DEF Sound
  <2> QED
    BY <1>4, <2>1 DEF Intake!Scaler, Scalers
<1>7. Sound(Intake!Scaler', packets')
  BY <1>4, <1>5, <1>6
<1> QED
  BY <1>4, <1>7 DEF IntakeInv

LEMMA IntakeInductive == Intake!Spec => []IntakeInv
<1>1. Intake!Init => IntakeInv
  <2> SUFFICES ASSUME Intake!Init PROVE IntakeInv
    OBVIOUS
  <2>1. /\ Intake!Scaler = [numerator |-> 1, denominator |-> 1, received |-> FALSE,
                            external |-> 0, internal |-> 0]
        /\ first_packet = TRUE /\ packets = {}
    BY DEF Intake!Init, Intake!Scaler
  <2>2. Intake!Scaler \in Scalers /\ Intake!Scaler.numerator = Intake!Scaler.denominator
    BY <2>1 DEF Scalers
  <2>3. Along(0, Intake!Scaler, packets)
    BY <2>1 DEF Along
  <2> QED
    BY <2>1, <2>2, <2>3 DEF IntakeInv, Sound
<1>2. IntakeInv /\ [Intake!Next]_(Intake!vars) => IntakeInv'
  <2> SUFFICES ASSUME IntakeInv, [Intake!Next]_(Intake!vars) PROVE IntakeInv'
    OBVIOUS
  <2>1. CASE \E rtp \in Intake!Sent : Intake!InsertPacket(rtp)
    BY <2>1, InsertPacketKeeps
  <2>2. CASE Intake!FlushBuffers
    <3>1. /\ Intake!Scaler' = Intake!Scaler /\ packets' = {} /\ first_packet' = TRUE
      BY <2>2 DEF Intake!FlushBuffers, Intake!Scaler
    <3>2. PICK base \in Int : Along(base, Intake!Scaler, packets)
      BY DEF IntakeInv, Sound
    <3>3. Along(base, Intake!Scaler, {})
      BY <3>2 DEF Along
    <3>4. Sound(Intake!Scaler, {})
      BY <3>3 DEF IntakeInv, Sound
    <3>5. Sound(Intake!Scaler', packets')
      BY <3>1, <3>4
    <3> QED
      BY <3>1, <3>5 DEF IntakeInv
  <2>3. CASE UNCHANGED Intake!vars
    <3>1. Intake!Scaler' = Intake!Scaler /\ UNCHANGED <<packets, first_packet>>
      BY <2>3 DEF Intake!vars, Intake!scaler, Intake!Scaler
    <3>2. Sound(Intake!Scaler', packets')
      BY <3>1 DEF IntakeInv
    <3> QED
      BY <3>1, <3>2 DEF IntakeInv
  <2> QED
    BY <2>1, <2>2, <2>3 DEF Intake!Next
<1> QED
  BY <1>1, <1>2, PTL DEF Intake!Spec

\* The copies of a block agree: however packets are lost, repeated, reordered
\* and packed, and wherever the timestamps wrap, two copies scaled by one ratio
\* have the same timestamp exactly when they are of one block; for any stream
\* shorter than the circle, any circle, any ratio and any number of redundant
\* blocks.
THEOREM CopiesStayOne == Intake!Spec => []CopiesAgree
<1>1. IntakeInv => CopiesAgree
  BY CopiesSound DEF IntakeInv
<1> QED
  BY <1>1, IntakeInductive, PTL
-----------------------------------------------------------------------------
(* The units of H.264.  The invariant is that after whole units the receiver *)
(* has begun no other, and holds those that were packed.                     *)

Kinds == {"single", "start", "middle", "end"}
Piece == [kind : Kinds, bytes : Seq(Nat), sn : Int, M : BOOLEAN]
Part == [kind : Kinds, bytes : Seq(Nat)]
Unit == [len : Nat \ {0}, is_last : BOOLEAN]
UnitBytes == [bytes : Seq(Nat), M : BOOLEAN]
UnitsReceived == [begun : Seq(Nat), whole : Seq(UnitBytes)]
Nothing == [begun |-> <<>>, whole |-> <<>>]

UnitsSent == [i \in DOMAIN units |->
                [bytes |-> Packer!Bytes(0, units[i].len), M |-> units[i].is_last]]

FitsIn(p, i) ==
  /\ Packer!Size(p) <= PayloadLen
  /\ p.bytes # <<>>
  /\ p.sn = (InitSn + i - 1) % SnModulus
  /\ p.kind \in {"start", "middle"} => ~p.M

PackerInv ==
  /\ units \in Seq(Unit)
  /\ sink \in Seq(Piece)
  /\ sn = (InitSn + Len(sink)) % SnModulus
  /\ \A i \in 1 .. Len(sink) : FitsIn(sink[i], i)
  /\ Packer!Received(sink) = [begun |-> <<>>, whole |-> UnitsSent]

LEMMA PackerNumbers ==
  /\ SnModulus \in Nat \ {0} /\ InitSn \in Nat /\ InitSn < SnModulus
  /\ PayloadLen \in Nat /\ PayloadLen > 2 /\ PayloadLen - 2 \in Nat \ {0}
  /\ UnitLengths \subseteq Nat \ {0}
BY PackerAssumption

LEMMA BytesAre ==
  ASSUME NEW from \in Nat, NEW n \in Nat
  PROVE  LET b == Packer!Bytes(from, n)
         IN  /\ b \in Seq(Nat) /\ Len(b) = n
             /\ \A i \in 1 .. n : b[i] = from + i - 1
<1> DEFINE b == Packer!Bytes(from, n)
<1>1. b = [i \in 1 .. n |-> from + i - 1]
  BY DEF Packer!Bytes
<1>2. \A i \in 1 .. n : from + i - 1 \in Nat
  OBVIOUS
<1> QED
  BY <1>1, <1>2

LEMMA BytesJoin ==
  ASSUME NEW n \in Nat, NEW more \in Nat, NEW all, all = n + more
  PROVE  Packer!Bytes(0, n) \o Packer!Bytes(n, more) = Packer!Bytes(0, all)
<1> DEFINE a == Packer!Bytes(0, n)
           b == Packer!Bytes(n, more)
           c == Packer!Bytes(0, all)
           d == a \o b
<1>1. /\ a \in Seq(Nat) /\ Len(a) = n /\ \A i \in 1 .. n : a[i] = i - 1
      /\ b \in Seq(Nat) /\ Len(b) = more /\ \A i \in 1 .. more : b[i] = n + i - 1
      /\ c \in Seq(Nat) /\ Len(c) = all /\ \A i \in 1 .. all : c[i] = i - 1
  <2>1. ASSUME NEW m \in Nat
        PROVE  LET f == Packer!Bytes(0, m)
               IN  f \in Seq(Nat) /\ Len(f) = m /\ \A i \in 1 .. m : f[i] = i - 1
    <3>1. \A i \in 1 .. m : 0 + i - 1 = i - 1 /\ i - 1 \in Nat
      OBVIOUS
    <3>2. Packer!Bytes(0, m) = [i \in 1 .. m |-> i - 1]
      BY <3>1 DEF Packer!Bytes
    <3> QED
      BY <3>1, <3>2
  <2>2. b \in Seq(Nat) /\ Len(b) = more /\ \A i \in 1 .. more : b[i] = n + i - 1
    BY BytesAre
  <2> QED
    BY <2>1, <2>2
<1> HIDE DEF a, b, c
<1>2. /\ d \in Seq(Nat) /\ Len(d) = all
      /\ \A i \in 1 .. all : d[i] = IF i <= n THEN a[i] ELSE b[i - n]
  <2>1. a \o b = d
    OBVIOUS
  <2> HIDE DEF d
  <2>2. /\ d \in Seq(Nat) /\ Len(d) = Len(a) + Len(b)
        /\ \A i \in 1 .. Len(a) + Len(b) : d[i] = IF i <= Len(a) THEN a[i] ELSE b[i - Len(a)]
    BY <1>1, <2>1, ConcatProperties
  <2>3. Len(a) = n /\ Len(a) + Len(b) = all
    BY <1>1
  <2> QED
    BY <2>2, <2>3
<1> HIDE DEF d
<1>3. ASSUME NEW i \in 1 .. all PROVE d[i] = c[i]
  <2>1. CASE i <= n
    BY <1>1, <1>2, <2>1
  <2>2. CASE i > n
    <3>1. i - n \in 1 .. more /\ n + (i - n) - 1 = i - 1
      BY <2>2
    <3> QED
      BY <1>1, <1>2, <2>2, <3>1
  <2> QED
    BY <2>1, <2>2
<1>4. d = c
  BY <1>1, <1>2, <1>3
<1> QED
  BY <1>4 DEF a, b, c, d

LEMMA TakeTyped ==
  ASSUME NEW a \in UnitsReceived, NEW p \in Piece
  PROVE  Packer!Take(a, p) \in UnitsReceived
<1>1. /\ a.begun \in Seq(Nat) /\ a.whole \in Seq(UnitBytes) /\ p.bytes \in Seq(Nat)
      /\ p.M \in BOOLEAN /\ p.kind \in Kinds
  BY DEF UnitsReceived, Piece
<1>2. ASSUME NEW bytes \in Seq(Nat)
      PROVE  [begun |-> <<>>, whole |-> Append(a.whole, [bytes |-> bytes, M |-> p.M])]
               \in UnitsReceived
  <2>1. [bytes |-> bytes, M |-> p.M] \in UnitBytes
    BY <1>1 DEF UnitBytes
  <2>2. Append(a.whole, [bytes |-> bytes, M |-> p.M]) \in Seq(UnitBytes)
    BY <1>1, <2>1
  <2> QED
    BY <2>2 DEF UnitsReceived
<1>3. /\ a.begun \o p.bytes \in Seq(Nat) /\ <<0>> \o p.bytes \in Seq(Nat)
  <2>1. <<0>> \in Seq(Nat)
    OBVIOUS
  <2> QED
    BY <1>1, <2>1
<1>4. CASE p.kind = "single"
  BY <1>1, <1>2, <1>4 DEF Packer!Take
<1>5. CASE p.kind = "start"
  BY <1>3, <1>5 DEF Packer!Take, UnitsReceived
<1>6. CASE p.kind = "middle"
  BY <1>3, <1>6 DEF Packer!Take, UnitsReceived
<1>7. CASE p.kind = "end"
  BY <1>2, <1>3, <1>7 DEF Packer!Take
<1> QED
  BY <1>1, <1>4, <1>5, <1>6, <1>7 DEF Kinds

\* The receiver before the packets of a list, between and after them.
ReceivedAs(after, list) ==
  /\ after \in [0 .. Len(list) -> UnitsReceived]
  /\ after[0] = Nothing
  /\ \A i \in 1 .. Len(list) : after[i] = Packer!Take(after[i - 1], list[i])
  /\ Packer!Received(list) = after[Len(list)]

LEMMA ReceiveUnfolds ==
  ASSUME NEW list \in Seq(Piece)
  PROVE  \E after : ReceivedAs(after, list)
<1> DEFINE n == Len(list)
           Steps(f) == f = [i \in 0 .. n |->
                              IF i = 0 THEN [begun |-> <<>>, whole |-> <<>>]
                              ELSE Packer!Take(f[i - 1], list[i])]
           step == [i \in 1 .. n |-> [x \in UnitsReceived |-> Packer!Take(x, list[i])]]
           base == Nothing
<1>1. n \in Nat /\ base \in UnitsReceived
  BY DEF Nothing, UnitsReceived
<1>2. step \in [1 .. n -> [UnitsReceived -> UnitsReceived]]
  <2>1. ASSUME NEW i \in 1 .. n, NEW x \in UnitsReceived
        PROVE  Packer!Take(x, list[i]) \in UnitsReceived
    <3>1. list[i] \in Piece
      OBVIOUS
    <3> QED
      BY <3>1, TakeTyped
  <2> QED
    BY <2>1
<1>3. PICK f \in [0 .. n -> UnitsReceived] :
        f[0] = base /\ \A i \in 1 .. n : f[i] = step[i][f[i - 1]]
  <2> HIDE DEF n, step, base
  <2>1. Definable(n, UnitsReceived, base, step)
    BY <1>1, <1>2, Recursion
  <2> QED
    BY <2>1 DEF Definable
<1>4. Steps(f)
  <2> HIDE DEF n
  <2>1. \A i \in 0 .. n : f[i] = IF i = 0 THEN Nothing ELSE Packer!Take(f[i - 1], list[i])
    <3>1. ASSUME NEW i \in 0 .. n, i # 0
          PROVE  f[i] = Packer!Take(f[i - 1], list[i])
      <4>1. i \in 1 .. n /\ f[i - 1] \in UnitsReceived
        BY <1>1, <3>1
      <4> QED
        BY <1>3, <4>1
    <3> QED
      BY <1>3, <3>1
  <2>2. f = [i \in 0 .. n |-> f[i]]
    OBVIOUS
  <2> QED
    BY <2>1, <2>2, Zenon DEF Nothing
<1> HIDE DEF Steps
<1> DEFINE after == CHOOSE g : Steps(g)
<1>5. Steps(after)
  BY <1>4
<1>6. Packer!Received(list) = after[n]
  BY DEF Packer!Received, Steps
<1> HIDE DEF after
<1>7. /\ after = [i \in 0 .. n |-> after[i]] /\ after[0] = Nothing
      /\ \A i \in 1 .. n : after[i] = Packer!Take(after[i - 1], list[i])
  <2>1. after = [i \in 0 .. n |-> IF i = 0 THEN Nothing ELSE Packer!Take(after[i - 1], list[i])]
    BY <1>5, Zenon DEF Steps, Nothing
  <2> HIDE DEF n
  <2>2. \A i \in 0 .. n : after[i] = IF i = 0 THEN Nothing ELSE Packer!Take(after[i - 1], list[i])
    BY <2>1, Zenon
  <2>3. 0 \in 0 .. n /\ \A i \in 1 .. n : i \in 0 .. n /\ i # 0
    BY <1>1
  <2>4. after = [i \in 0 .. n |-> after[i]]
    BY <2>1, Zenon
  <2> QED
    BY <2>2, <2>3, <2>4
<1> DEFINE T == {i \in 0 .. n : after[i] \in UnitsReceived}
<1>8. 0 \in T
  BY <1>1, <1>7
<1>9. ASSUME NEW i \in 0 .. n - 1, i \in T PROVE i + 1 \in T
  <2>1. i + 1 \in 1 .. n /\ (i + 1) - 1 = i /\ i + 1 \in 0 .. n /\ list[i + 1] \in Piece
    BY <1>1
  <2>2. after[i + 1] = Packer!Take(after[i], list[i + 1])
    BY <1>7, <2>1
  <2> QED
    BY <1>9, <2>1, <2>2, TakeTyped
<1>10. 0 .. n \subseteq T
  <2> HIDE DEF T, n
  <2> QED
    BY <1>1, <1>8, <1>9, Induction
<1>11. after \in [0 .. n -> UnitsReceived]
  BY <1>7, <1>10
<1>12. ReceivedAs(after, list)
  BY <1>6, <1>7, <1>11 DEF ReceivedAs
<1> QED
  BY <1>12

\* After the first packets of a longer list the receiver is what these make of it.
LEMMA ReceivedFirst ==
  ASSUME NEW list \in Seq(Piece), NEW more \in Seq(Piece),
         NEW after, ReceivedAs(after, list \o more)
  PROVE  after[Len(list)] = Packer!Received(list)
<1> DEFINE n == Len(list)
           both == list \o more
<1>1. n \in Nat /\ Len(both) \in Nat /\ n <= Len(both) /\ \A i \in 1 .. n : both[i] = list[i]
  BY ConcatProperties
<1>2. PICK old : ReceivedAs(old, list)
  BY ReceiveUnfolds
<1> HIDE DEF n, both
<1> DEFINE T == {i \in 0 .. n : after[i] = old[i]}
<1>3. /\ after[0] = Nothing
      /\ \A i \in 1 .. Len(both) : after[i] = Packer!Take(after[i - 1], both[i])
  BY DEF ReceivedAs, both
<1>4. /\ old[0] = Nothing /\ old[n] = Packer!Received(list)
      /\ \A i \in 1 .. n : old[i] = Packer!Take(old[i - 1], list[i])
  BY <1>2 DEF ReceivedAs, n
<1>5. 0 \in T
  BY <1>1, <1>3, <1>4
<1>6. ASSUME NEW i \in 0 .. n - 1, i \in T PROVE i + 1 \in T
  <2>1. /\ i + 1 \in 1 .. n /\ i + 1 \in 1 .. Len(both) /\ (i + 1) - 1 = i /\ i + 1 \in 0 .. n
        /\ both[i + 1] = list[i + 1]
    BY <1>1
  <2>2. /\ after[i + 1] = Packer!Take(after[i], list[i + 1])
        /\ old[i + 1] = Packer!Take(old[i], list[i + 1])
    BY <1>3, <1>4, <2>1
  <2> QED
    BY <1>6, <2>1, <2>2
<1>7. 0 .. n \subseteq T
  <2> HIDE DEF T
  <2> QED
    BY <1>1, <1>5, <1>6, Induction
<1>8. n \in T
  BY <1>1, <1>7
<1> QED
  BY <1>4, <1>8 DEF n

\* Where the fragment behind the first n + 1 ones begins.
Room == PayloadLen - 2
From(n) == PayloadLen - 1 + n * Room

Fragmented(list, len, full) ==
  /\ full \in Nat /\ From(full) < len /\ len - From(full) <= Room
  /\ list \in Seq(Part) /\ Len(list) = full + 2
  /\ list[1] = Packer!Fragment("start", 1, Room)
  /\ \A j \in 1 .. full : list[j + 1] = Packer!Fragment("middle", From(j - 1), Room)
  /\ list[full + 2] = Packer!Fragment("end", From(full), len - From(full))

LEMMA Starts ==
  /\ Room \in Nat \ {0} /\ From(0) = PayloadLen - 1
  /\ \A n \in Nat : From(n) \in Nat \ {0} /\ From(n + 1) = From(n) + Room
<1>1. Room \in Nat \ {0} /\ PayloadLen - 1 \in Nat \ {0}
  BY PackerNumbers DEF Room
<1>2. ASSUME NEW n \in Nat PROVE n * Room \in Nat /\ (n + 1) * Room = n * Room + Room
  BY <1>1
<1> HIDE DEF Room
<1>3. 0 * Room = 0
  BY <1>1
<1>4. From(0) = PayloadLen - 1
  BY <1>1, <1>3 DEF From
<1>5. ASSUME NEW n \in Nat PROVE From(n) \in Nat \ {0} /\ From(n + 1) = From(n) + Room
  <2> DEFINE x == n * Room
             y == (n + 1) * Room
             p == PayloadLen - 1
  <2>1. x \in Nat /\ y = x + Room /\ p \in Nat \ {0}
    BY <1>1, <1>2
  <2>2. From(n) = p + x /\ From(n + 1) = p + y
    BY DEF From
  <2> HIDE DEF x, y, p
  <2>3. p + x \in Nat \ {0} /\ p + y = (p + x) + Room
    BY <1>1, <2>1
  <2> QED
    BY <2>2, <2>3
<1> QED
  BY <1>1, <1>4, <1>5

LEMMA FragmentIs ==
  ASSUME NEW kind \in Kinds, NEW from \in Nat, NEW n \in Nat
  PROVE  LET f == Packer!Fragment(kind, from, n)
         IN  /\ f \in Part
             /\ f.kind = kind /\ f.bytes = Packer!Bytes(from, n)
BY BytesAre DEF Packer!Fragment, Part

LEMMA FragmentsAre ==
  ASSUME NEW len \in Nat, len > PayloadLen
  PROVE  \E full : Fragmented(Packer!Payloads(len), len, full)
<1> DEFINE Left(n) == len - From(n) <= Room
           Full(n) == Left(n) /\ \A m \in 0 .. n - 1 : len - From(m) > Room
           full == CHOOSE n \in 0 .. len : Full(n)
           T == {n \in Nat : Left(n)}
<1>1. \E n \in 0 .. len : Full(n)
  <2>1. len \in T
    <3>1. len * 1 <= len * Room
      BY Starts, Times
    <3>2. From(len) = (PayloadLen - 1) + len * Room /\ len * Room \in Nat
      BY Starts DEF From
    <3> QED
      BY <3>1, <3>2, PackerNumbers, Starts
  <2>2. PICK n \in T : \A m \in T : n <= m
    <3>1. T \in SUBSET Nat /\ T # {}
      BY <2>1
    <3> HIDE DEF T
    <3> QED
      BY <3>1, Smallest
  <2>3. n \in 0 .. len /\ Left(n)
    BY <2>1, <2>2
  <2>4. ASSUME NEW m \in 0 .. n - 1 PROVE len - From(m) > Room
    <3>1. m \in Nat /\ ~Left(m)
      BY <2>2, <2>3
    <3>2. From(m) \in Int /\ Room \in Int
      BY <3>1, Starts
    <3> QED
      BY <3>1, <3>2
  <2> QED
    BY <2>3, <2>4
<1>2. full \in 0 .. len /\ Full(full)
  BY <1>1
<1>3. Packer!Following(len) =
        [i \in 1 .. full |-> Packer!Fragment("middle", From(i - 1), Room)]
          \o <<Packer!Fragment("end", From(full), len - From(full))>>
  BY DEF Packer!Following, From, Room
<1> HIDE DEF full
<1>4. full \in Nat /\ From(full) \in Nat \ {0} /\ From(full) < len /\ len - From(full) <= Room
      /\ len - From(full) \in Nat
  <2>1. full \in Nat /\ From(full) \in Nat \ {0}
    BY <1>2, Starts
  <2>2. CASE full = 0
    BY <1>2, <2>1, <2>2, Starts, PackerNumbers
  <2>3. CASE full # 0
    <3>1. full - 1 \in Nat /\ full - 1 \in 0 .. full - 1 /\ (full - 1) + 1 = full
      BY <2>1, <2>3
    <3>2. len - From(full - 1) > Room /\ From(full) = From(full - 1) + Room
          /\ From(full - 1) \in Nat
      BY <1>2, <3>1, Starts
    <3> QED
      BY <1>2, <2>1, <3>2, Starts
  <2> QED
    BY <2>2, <2>3
<1> DEFINE first == Packer!Fragment("start", 1, Room)
           middles == [i \in 1 .. full |-> Packer!Fragment("middle", From(i - 1), Room)]
           last == Packer!Fragment("end", From(full), len - From(full))
           list == <<first>> \o (middles \o <<last>>)
<1>5. Packer!Payloads(len) = list
  <2>1. ~(len <= PayloadLen)
    BY PackerNumbers
  <2> QED
    BY <1>3, <2>1 DEF Packer!Payloads, Packer!FirstFragment, Room
<1>6. first \in Part /\ last \in Part
  BY <1>4, FragmentIs, Starts DEF Kinds
<1>7. middles \in Seq(Part) /\ Len(middles) = full
  <2>1. ASSUME NEW i \in 1 .. full PROVE middles[i] \in Part
    <3>1. i - 1 \in Nat /\ From(i - 1) \in Nat /\ Room \in Nat /\ "middle" \in Kinds
      BY <1>4, Starts DEF Kinds
    <3> QED
      BY <3>1, FragmentIs
  <2>2. middles = [i \in 1 .. full |-> middles[i]]
    OBVIOUS
  <2> HIDE DEF middles
  <2> QED
    BY <1>4, <2>1, <2>2
<1>8. \A j \in 1 .. full : middles[j] = Packer!Fragment("middle", From(j - 1), Room)
  OBVIOUS
<1> HIDE DEF first, middles, last
<1>9. /\ list \in Seq(Part) /\ Len(list) = full + 2
      /\ list[1] = first /\ list[full + 2] = last
      /\ \A j \in 1 .. full : list[j + 1] = middles[j]
  <2> DEFINE s == middles \o <<last>>
             a == <<first>>
  <2>1. a \in Seq(Part) /\ Len(a) = 1 /\ a[1] = first /\ <<last>> \in Seq(Part)
        /\ Len(<<last>>) = 1 /\ <<last>>[1] = last
    BY <1>6
  <2>2. /\ s \in Seq(Part) /\ Len(s) = full + 1
        /\ s[full + 1] = last /\ \A j \in 1 .. full : s[j] = middles[j]
    BY <1>4, <1>7, <2>1, ConcatProperties
  <2> HIDE DEF s, a
  <2>3. /\ a \o s \in Seq(Part) /\ Len(a \o s) = full + 2
        /\ \A i \in 1 .. full + 2 : (a \o s)[i] = IF i <= 1 THEN a[i] ELSE s[i - 1]
    <3> DEFINE d == a \o s
    <3>1. d = a \o s
      OBVIOUS
    <3> HIDE DEF d
    <3>2. /\ d \in Seq(Part) /\ Len(d) = Len(a) + Len(s)
          /\ \A i \in 1 .. Len(a) + Len(s) : d[i] = IF i <= Len(a) THEN a[i] ELSE s[i - Len(a)]
      <4>1. a \in Seq(Part) /\ s \in Seq(Part)
        BY <2>1, <2>2
      <4> QED
        BY <3>1, <4>1, ConcatProperties
    <3>3. Len(a) = 1 /\ Len(a) + Len(s) = full + 2
      BY <1>4, <2>1, <2>2
    <3> QED
      BY <3>1, <3>2, <3>3
  <2>4. ASSUME NEW j \in 1 .. full PROVE (a \o s)[j + 1] = middles[j]
    <3>1. j + 1 \in 1 .. full + 2 /\ ~(j + 1 <= 1) /\ (j + 1) - 1 = j
      BY <1>4
    <3> QED
      BY <2>2, <2>3, <3>1
  <2>5. (a \o s)[full + 2] = last
    <3>1. full + 2 \in 1 .. full + 2 /\ ~(full + 2 <= 1) /\ (full + 2) - 1 = full + 1
      BY <1>4
    <3> QED
      BY <2>2, <2>3, <3>1
  <2>6. (a \o s)[1] = first
    <3>1. 1 \in 1 .. full + 2 /\ 1 <= 1
      BY <1>4
    <3> QED
      BY <2>1, <2>3, <3>1
  <2>7. list = a \o s
    BY DEF a, s
  <2> QED
    BY <2>3, <2>4, <2>5, <2>6, <2>7
<1>10. Fragmented(list, len, full)
  <2> HIDE DEF list
  <2> QED
    BY <1>4, <1>8, <1>9 DEF Fragmented, first, last
<1> QED
  BY <1>5, <1>10

\* What the packets of a unit hold, as Pack builds them.
Made(new, payloads, is_last) ==
  /\ Len(new) = Len(payloads)
  /\ \A i \in 1 .. Len(new) :
       /\ new[i].kind = payloads[i].kind /\ new[i].bytes = payloads[i].bytes
       /\ new[i].M = (payloads[i].kind \in {"single", "end"} /\ is_last)

\* The packets of a unit become the unit.
LEMMA UnitArrives ==
  ASSUME NEW list \in Seq(Piece), NEW W,
         Packer!Received(list) = [begun |-> <<>>, whole |-> W],
         NEW len \in Nat \ {0}, NEW is_last \in BOOLEAN, NEW new \in Seq(Piece),
         Made(new, Packer!Payloads(len), is_last)
  PROVE  Packer!Received(list \o new) =
           [begun |-> <<>>,
            whole |-> Append(W, [bytes |-> Packer!Bytes(0, len), M |-> is_last])]
<1> DEFINE k == Len(list)
           both == list \o new
           n == Len(new)
           payloads == Packer!Payloads(len)
           unit == [bytes |-> Packer!Bytes(0, len), M |-> is_last]
<1>1. /\ both \in Seq(Piece) /\ k \in Nat /\ n \in Nat /\ Len(both) = k + n
      /\ \A i \in 1 .. n : both[k + i] = new[i]
  BY ConcatProperties
<1>2. PICK after : ReceivedAs(after, both)
  BY <1>1, ReceiveUnfolds
<1>3. after[k] = [begun |-> <<>>, whole |-> W]
  BY <1>2, ReceivedFirst
<1> HIDE DEF k, both, n, payloads
<1>4. /\ \A i \in 1 .. n : after[k + i] = Packer!Take(after[k + (i - 1)], new[i])
      /\ Packer!Received(both) = after[k + n]
  <2>1. ASSUME NEW i \in 1 .. n PROVE after[k + i] = Packer!Take(after[k + (i - 1)], new[i])
    <3>1. k + i \in 1 .. Len(both) /\ (k + i) - 1 = k + (i - 1)
      BY <1>1
    <3> QED
      BY <1>1, <1>2, <3>1 DEF ReceivedAs
  <2> QED
    BY <1>1, <1>2, <2>1 DEF ReceivedAs
<1>5. \A i \in 1 .. n :
        /\ new[i].kind = payloads[i].kind /\ new[i].bytes = payloads[i].bytes
        /\ new[i].M = (payloads[i].kind \in {"single", "end"} /\ is_last)
  BY DEF Made, n, payloads
<1>6. CASE len <= PayloadLen
  <2>1. payloads = <<Packer!Fragment("single", 0, len)>>
    BY <1>6 DEF payloads, Packer!Payloads
  <2>2. n = 1
    BY <2>1 DEF Made, n, payloads
  <2>3. payloads[1].kind = "single" /\ payloads[1].bytes = Packer!Bytes(0, len)
    BY <2>1 DEF Packer!Fragment
  <2>4. new[1].kind = "single" /\ new[1].bytes = Packer!Bytes(0, len) /\ new[1].M = is_last
    BY <1>5, <2>2, <2>3
  <2>5. after[k + 1] = Packer!Take([begun |-> <<>>, whole |-> W], new[1])
    <3>1. after[k + 1] = Packer!Take(after[k + (1 - 1)], new[1]) /\ k + (1 - 1) = k
      BY <1>1, <1>4, <2>2
    <3> QED
      BY <1>3, <3>1
  <2>6. after[k + 1] = [begun |-> <<>>, whole |-> Append(W, unit)]
    BY <2>4, <2>5 DEF Packer!Take
  <2> QED
    BY <1>4, <2>2, <2>6 DEF both
<1>7. CASE len > PayloadLen
  <2>1. PICK full : Fragmented(payloads, len, full)
    BY <1>7, FragmentsAre DEF payloads
  <2>2. full \in Nat /\ n = full + 2 /\ From(full) < len /\ From(full) \in Nat \ {0}
        /\ len - From(full) \in Nat
    <3>1. full \in Nat /\ From(full) < len /\ Len(payloads) = full + 2
      BY <2>1 DEF Fragmented
    <3>2. n = Len(payloads)
      BY DEF Made, n, payloads
    <3>3. From(full) \in Nat \ {0}
      BY <3>1, Starts
    <3> QED
      BY <3>1, <3>2, <3>3
  <2>3. new[1].kind = "start" /\ new[1].bytes = Packer!Bytes(1, Room)
    <3>1. payloads[1].kind = "start" /\ payloads[1].bytes = Packer!Bytes(1, Room)
      BY <2>1 DEF Fragmented, Packer!Fragment
    <3> QED
      BY <1>5, <2>2, <3>1
  <2>4. ASSUME NEW j \in 1 .. full
        PROVE  new[j + 1].kind = "middle" /\ new[j + 1].bytes = Packer!Bytes(From(j - 1), Room)
    <3>1. /\ payloads[j + 1].kind = "middle"
          /\ payloads[j + 1].bytes = Packer!Bytes(From(j - 1), Room)
      <4>1. payloads[j + 1] = Packer!Fragment("middle", From(j - 1), Room)
        BY <2>1 DEF Fragmented
      <4> QED
        BY <4>1 DEF Packer!Fragment
    <3>2. j + 1 \in 1 .. n
      BY <2>2
    <3> QED
      BY <1>5, <3>1, <3>2
  <2>5. /\ new[n].kind = "end" /\ new[n].bytes = Packer!Bytes(From(full), len - From(full))
        /\ new[n].M = is_last
    <3>1. /\ payloads[n].kind = "end"
          /\ payloads[n].bytes = Packer!Bytes(From(full), len - From(full))
      BY <2>1, <2>2 DEF Fragmented, Packer!Fragment
    <3>2. n \in 1 .. n
      BY <2>2
    <3> QED
      BY <1>5, <3>1, <3>2
  <2> DEFINE Begun(j) == [begun |-> Packer!Bytes(0, From(j)), whole |-> W]
             T == {j \in 0 .. full : after[k + (j + 1)] = Begun(j)}
  <2>6. 0 \in T
    <3>1. after[k + 1] = Packer!Take([begun |-> <<>>, whole |-> W], new[1])
      <4>1. after[k + 1] = Packer!Take(after[k + (1 - 1)], new[1]) /\ k + (1 - 1) = k
        BY <1>1, <1>4, <2>2
      <4> QED
        BY <1>3, <4>1
    <3>2. after[k + 1] = [begun |-> <<0>> \o Packer!Bytes(1, Room), whole |-> W]
      BY <2>3, <3>1 DEF Packer!Take
    <3>3. <<0>> = Packer!Bytes(0, 1)
      BY DEF Packer!Bytes
    <3>4. <<0>> \o Packer!Bytes(1, Room) = Packer!Bytes(0, 1 + Room)
      BY <3>3, BytesJoin, Starts
    <3>5. 1 + Room = From(0)
      BY Starts, PackerNumbers DEF Room
    <3>6. 0 \in 0 .. full /\ 0 + 1 = 1
      BY <2>2
    <3>7. after[k + 1] = Begun(0)
      BY <3>2, <3>4, <3>5
    <3> QED
      BY <3>6, <3>7
  <2>7. ASSUME NEW j \in 0 .. full - 1, j \in T PROVE j + 1 \in T
    <3>1. /\ j \in Nat /\ j + 1 \in 1 .. full /\ (j + 1) - 1 = j /\ j + 1 \in 0 .. full
          /\ (j + 1) + 1 \in 1 .. n /\ ((j + 1) + 1) - 1 = j + 1
      BY <2>2
    <3>2. after[k + ((j + 1) + 1)] = Packer!Take(Begun(j), new[(j + 1) + 1])
      BY <1>4, <2>7, <3>1
    <3>3. new[(j + 1) + 1].kind = "middle"
          /\ new[(j + 1) + 1].bytes = Packer!Bytes(From(j), Room)
      BY <2>4, <3>1
    <3>4. after[k + ((j + 1) + 1)]
            = [begun |-> Packer!Bytes(0, From(j)) \o Packer!Bytes(From(j), Room), whole |-> W]
      BY <3>2, <3>3 DEF Packer!Take
    <3>5. Packer!Bytes(0, From(j)) \o Packer!Bytes(From(j), Room) = Packer!Bytes(0, From(j + 1))
      <4>1. From(j) \in Nat /\ Room \in Nat /\ 0 + From(j) = From(j)
            /\ From(j + 1) = From(j) + Room
        BY <3>1, Starts
      <4> QED
        BY <4>1, BytesJoin
    <3> QED
      BY <3>1, <3>4, <3>5
  <2>8. after[k + (full + 1)] = Begun(full)
    <3>1. 0 .. full \subseteq T
      <4> HIDE DEF T
      <4> QED
        BY <2>2, <2>6, <2>7, Induction
    <3> QED
      BY <2>2, <3>1
  <2>9. after[k + n] = Packer!Take(Begun(full), new[n])
    <3>1. n \in 1 .. n /\ n - 1 = full + 1
      BY <2>2
    <3> QED
      BY <1>4, <2>8, <3>1
  <2>10. Packer!Bytes(0, From(full)) \o Packer!Bytes(From(full), len - From(full))
           = Packer!Bytes(0, len)
    <3> DEFINE at == From(full)
               rest == len - at
    <3>1. at \in Nat /\ rest \in Nat /\ len = at + rest
      BY <2>2
    <3> HIDE DEF at, rest
    <3>2. Packer!Bytes(0, at) \o Packer!Bytes(at, rest) = Packer!Bytes(0, len)
      BY <3>1, BytesJoin
    <3> QED
      BY <3>2 DEF at, rest
  <2>11. after[k + n] = [begun |-> <<>>, whole |-> Append(W, unit)]
    BY <2>5, <2>9, <2>10 DEF Packer!Take
  <2> QED
    BY <1>4, <2>11 DEF both
<1> QED
  BY <1>6, <1>7, PackerNumbers

\* Every packet of a unit holds some of it and has room.
LEMMA PayloadsFit ==
  ASSUME NEW len \in Nat \ {0}
  PROVE  LET payloads == Packer!Payloads(len)
         IN  /\ payloads \in Seq(Part)
             /\ \A i \in 1 .. Len(payloads) :
                  /\ Packer!Size(payloads[i]) <= PayloadLen
                  /\ payloads[i].bytes # <<>>
<1> DEFINE payloads == Packer!Payloads(len)
           Fits(p) == Packer!Size(p) <= PayloadLen /\ p.bytes # <<>>
<1>1. ASSUME NEW kind \in Kinds, NEW from \in Nat, NEW n \in Nat \ {0},
             IF kind = "single" THEN n <= PayloadLen ELSE n <= Room
      PROVE  Packer!Fragment(kind, from, n) \in Part /\ Fits(Packer!Fragment(kind, from, n))
  <2> DEFINE f == Packer!Fragment(kind, from, n)
  <2>1. f \in Part /\ f.kind = kind /\ f.bytes = Packer!Bytes(from, n)
    BY FragmentIs
  <2>2. Len(f.bytes) = n /\ f.bytes \in Seq(Nat)
    BY <2>1, BytesAre
  <2> HIDE DEF f
  <2>3. f.bytes # <<>>
    BY <2>2
  <2>4. Packer!Size(f) = n + IF kind = "single" THEN 0 ELSE 2
    BY <2>1, <2>2 DEF Packer!Size
  <2>5. PayloadLen \in Nat /\ Room = PayloadLen - 2
    BY PackerNumbers DEF Room
  <2>6. Packer!Size(f) <= PayloadLen
    BY <1>1, <2>4, <2>5
  <2> QED
    BY <2>1, <2>3, <2>6 DEF f
<1>2. CASE len <= PayloadLen
  <2> DEFINE f == Packer!Fragment("single", 0, len)
  <2>1. payloads = <<f>>
    BY <1>2 DEF Packer!Payloads
  <2>2. f \in Part /\ Fits(f)
    <3>1. "single" \in Kinds
      BY DEF Kinds
    <3> QED
      BY <1>1, <1>2, <3>1
  <2> HIDE DEF f, payloads, Fits
  <2>3. payloads \in Seq(Part) /\ Len(payloads) = 1 /\ payloads[1] = f
    BY <2>1, <2>2
  <2>4. \A i \in 1 .. Len(payloads) : Fits(payloads[i])
    BY <2>2, <2>3
  <2> QED
    BY <2>3, <2>4 DEF payloads, Fits
<1>3. CASE len > PayloadLen
  <2>1. PICK full : Fragmented(payloads, len, full)
    BY <1>3, FragmentsAre
  <2> HIDE DEF payloads
  <2>2. /\ full \in Nat /\ From(full) < len /\ len - From(full) <= Room
        /\ payloads \in Seq(Part) /\ Len(payloads) = full + 2
        /\ payloads[1] = Packer!Fragment("start", 1, Room)
        /\ \A j \in 1 .. full : payloads[j + 1] = Packer!Fragment("middle", From(j - 1), Room)
        /\ payloads[full + 2] = Packer!Fragment("end", From(full), len - From(full))
    BY <2>1 DEF Fragmented
  <2> HIDE DEF Fits
  <2>3. {"start", "middle", "end"} \subseteq Kinds /\ Room \in Nat \ {0}
    BY Starts DEF Kinds
  <2>4. Fits(payloads[1])
    <3>1. "start" \in Kinds /\ "start" # "single" /\ 1 \in Nat /\ Room <= Room
      BY <2>3
    <3> QED
      BY <1>1, <2>2, <2>3, <3>1
  <2>5. ASSUME NEW j \in 1 .. full PROVE Fits(payloads[j + 1])
    <3>1. j - 1 \in Nat /\ "middle" # "single" /\ Room <= Room
      BY <2>2, <2>3
    <3>2. From(j - 1) \in Nat
      BY <3>1, Starts
    <3> QED
      BY <1>1, <2>2, <2>3, <3>1, <3>2
  <2>6. Fits(payloads[full + 2])
    <3>1. From(full) \in Nat
      BY <2>2, Starts
    <3>2. len - From(full) \in Nat \ {0} /\ "end" # "single"
      BY <2>2, <3>1
    <3> QED
      BY <1>1, <2>2, <2>3, <3>1, <3>2
  <2>7. ASSUME NEW i \in 1 .. Len(payloads) PROVE Fits(payloads[i])
    <3>1. i = 1 \/ i = full + 2 \/ (i - 1 \in 1 .. full /\ (i - 1) + 1 = i)
      BY <2>2
    <3> QED
      BY <2>4, <2>5, <2>6, <3>1
  <2> QED
    BY <2>2, <2>7 DEF Fits, payloads
<1> QED
  BY <1>2, <1>3, PackerNumbers

LEMMA RemainderPlus ==
  ASSUME NEW d \in Nat \ {0}, NEW x \in Int, NEW y \in Int
  PROVE  ((x % d) + y) % d = (x + y) % d
<1> DEFINE q == x \div d
           r == x % d
<1>1. x = (d * q) + r /\ q \in Int /\ r \in Int
  OBVIOUS
<1> HIDE DEF q, r
<1>2. r + y \in Int /\ x + y = (r + y) + d * q
  BY <1>1
<1>3. ((r + y) + d * q) % d = (r + y) % d
  BY <1>1, <1>2, WholeTurns
<1> QED
  BY <1>2, <1>3 DEF r

LEMMA PackKeeps ==
  ASSUME PackerInv, NEW len \in UnitLengths, NEW is_last \in BOOLEAN, Packer!Pack(len, is_last)
  PROVE  PackerInv'
<1> DEFINE payloads == Packer!Payloads(len)
           k == Len(sink)
           n == Len(payloads)
           Marked(i) == CASE payloads[i].kind = "single" -> is_last
                          [] payloads[i].kind \in {"start", "middle"} -> Packer!FragmentMarker(M)
                          [] payloads[i].kind = "end" -> is_last \/ Packer!FragmentMarker(M)
           new == [i \in DOMAIN payloads |->
                     [kind |-> payloads[i].kind, bytes |-> payloads[i].bytes,
                      sn |-> (sn + i - 1) % SnModulus, M |-> Marked(i)]]
           both == sink \o new
<1>1. len \in Nat \ {0}
  BY PackerNumbers
<1>2. /\ sink' = both /\ sn' = (sn + n) % SnModulus
      /\ units' = Append(units, [len |-> len, is_last |-> is_last])
  BY DEF Packer!Pack
<1>3. /\ payloads \in Seq(Part)
      /\ \A i \in 1 .. Len(payloads) :
           Packer!Size(payloads[i]) <= PayloadLen /\ payloads[i].bytes # <<>>
  BY <1>1, PayloadsFit
<1>4. /\ units \in Seq(Unit)
      /\ sink \in Seq(Piece) /\ k \in Nat /\ n \in Nat /\ DOMAIN payloads = 1 .. n
      /\ sn = (InitSn + k) % SnModulus /\ sn \in Int /\ InitSn \in Int /\ InitSn + k \in Int
  <2>1. units \in Seq(Unit) /\ sink \in Seq(Piece)
        /\ sn = (InitSn + k) % SnModulus
    BY DEF PackerInv
  <2>2. k \in Nat /\ n \in Nat /\ DOMAIN payloads = 1 .. n
    <3> HIDE DEF payloads
    <3> QED
      BY <1>3, <2>1
  <2>3. InitSn \in Int /\ InitSn + k \in Int
    BY <2>2, PackerNumbers
  <2> HIDE DEF k
  <2>4. (InitSn + k) % SnModulus \in Int
    BY <2>3, PackerNumbers
  <2> QED
    BY <2>1, <2>2, <2>3, <2>4
<1> HIDE DEF payloads
<1>5. ASSUME NEW i \in 1 .. n
      PROVE  (sn + i - 1) % SnModulus = (InitSn + (k + i) - 1) % SnModulus
             /\ (sn + i - 1) % SnModulus \in Int
  <2>1. sn + i - 1 = sn + (i - 1) /\ InitSn + (k + i) - 1 = (InitSn + k) + (i - 1)
        /\ i - 1 \in Int /\ sn + (i - 1) \in Int
    BY <1>4
  <2>2. (((InitSn + k) % SnModulus) + (i - 1)) % SnModulus = ((InitSn + k) + (i - 1)) % SnModulus
    BY <1>4, <2>1, RemainderPlus, PackerNumbers
  <2>3. (sn + (i - 1)) % SnModulus \in Int
    BY <2>1, PackerNumbers
  <2> QED
    BY <1>4, <2>1, <2>2, <2>3
<1>6. /\ new \in Seq(Piece) /\ Len(new) = n
      /\ \A i \in 1 .. n : /\ new[i].kind = payloads[i].kind /\ new[i].bytes = payloads[i].bytes
                           /\ new[i].sn = (sn + i - 1) % SnModulus
                           /\ new[i].M = (payloads[i].kind \in {"single", "end"} /\ is_last)
  <2>7. ASSUME NEW i \in 1 .. n
        PROVE  payloads[i].kind \in Kinds /\ payloads[i].bytes \in Seq(Nat)
    <3>1. payloads[i] \in Part
      BY <1>3
    <3> QED
      BY <3>1 DEF Part
  <2>8. ASSUME NEW i \in 1 .. n
        PROVE  Marked(i) = (payloads[i].kind \in {"single", "end"} /\ is_last)
    <3>1. payloads[i].kind \in Kinds
      BY <2>7
    <3> QED
      BY <3>1 DEF Kinds, Packer!FragmentMarker
  <2> HIDE DEF Marked
  <2>1. ASSUME NEW i \in 1 .. n PROVE new[i] \in Piece
    <3>1. payloads[i].kind \in Kinds /\ payloads[i].bytes \in Seq(Nat)
      BY <2>7
    <3>2. Marked(i) \in BOOLEAN
      <4>1. (payloads[i].kind \in {"single", "end"} /\ is_last) \in BOOLEAN
        BY Zenon
      <4> QED
        BY <2>8, <4>1
    <3> QED
      BY <1>4, <1>5, <3>1, <3>2 DEF Piece
  <2>2. new = [i \in 1 .. n |-> new[i]]
    BY <1>4
  <2>3. \A i \in 1 .. n : /\ new[i].kind = payloads[i].kind /\ new[i].bytes = payloads[i].bytes
                          /\ new[i].sn = (sn + i - 1) % SnModulus
                          /\ new[i].M = (payloads[i].kind \in {"single", "end"} /\ is_last)
    BY <1>4, <2>8
  <2> HIDE DEF new, n
  <2>4. new \in [1 .. n -> Piece]
    BY <2>1, <2>2
  <2>5. n \in Nat
    BY <1>4 DEF n
  <2>6. new \in Seq(Piece) /\ Len(new) = n
    BY <2>4, <2>5
  <2> QED
    BY <2>3, <2>6
<1> HIDE DEF new, Marked
<1>7. Made(new, payloads, is_last)
  BY <1>6 DEF Made
<1>8. /\ both \in Seq(Piece) /\ Len(both) = k + n
      /\ \A i \in 1 .. k : both[i] = sink[i]
      /\ \A i \in 1 .. n : both[k + i] = new[i]
  <2> HIDE DEF n
  <2>1. both = sink \o new
    OBVIOUS
  <2> HIDE DEF both, k
  <2>2. k = Len(sink) /\ sink \in Seq(Piece) /\ new \in Seq(Piece) /\ Len(new) = n
    BY <1>4, <1>6 DEF k
  <2>3. /\ both \in Seq(Piece) /\ Len(both) = Len(sink) + Len(new)
        /\ \A i \in 1 .. Len(sink) + Len(new) :
             both[i] = IF i <= Len(sink) THEN sink[i] ELSE new[i - Len(sink)]
    BY <2>1, <2>2, ConcatProperties
  <2>4. \A i \in 1 .. k + n : both[i] = IF i <= k THEN sink[i] ELSE new[i - k]
    BY <2>2, <2>3
  <2>5. \A i \in 1 .. n : k + i \in 1 .. k + n /\ ~(k + i <= k) /\ (k + i) - k = i
    BY <1>4
  <2>6. \A i \in 1 .. k : i \in 1 .. k + n /\ i <= k
    BY <1>4
  <2> QED
    BY <2>2, <2>3, <2>4, <2>5, <2>6
<1> HIDE DEF k, n, both
<1>9. ASSUME NEW i \in 1 .. k PROVE FitsIn(both[i], i)
  <2>1. FitsIn(sink[i], i)
    BY DEF PackerInv, k
  <2> QED
    BY <1>8, <2>1
<1>10. ASSUME NEW i \in 1 .. n PROVE FitsIn(both[k + i], k + i)
  <2>1. Packer!Size(payloads[i]) <= PayloadLen /\ payloads[i].bytes # <<>>
    BY <1>3 DEF n
  <2>2. Packer!Size(new[i]) = Packer!Size(payloads[i])
    BY <1>6 DEF Packer!Size
  <2>3. new[i].sn = (InitSn + (k + i) - 1) % SnModulus
    BY <1>5, <1>6
  <2>4. new[i].kind \in {"start", "middle"} => ~new[i].M
    BY <1>6
  <2>5. both[k + i] = new[i]
    BY <1>8
  <2>6. new[i].bytes # <<>> /\ Packer!Size(new[i]) <= PayloadLen
    BY <1>6, <2>1, <2>2
  <2> QED
    BY <2>3, <2>4, <2>5, <2>6 DEF FitsIn
<1>11. \A i \in 1 .. k + n : FitsIn(both[i], i)
  <2>1. ASSUME NEW i \in 1 .. k + n PROVE FitsIn(both[i], i)
    <3>1. CASE i <= k
      BY <1>4, <1>9, <3>1
    <3>2. CASE i > k
      <4>1. i - k \in 1 .. n /\ k + (i - k) = i
        BY <1>4, <3>2
      <4> QED
        BY <1>10, <4>1
    <3> QED
      BY <1>4, <3>1, <3>2
  <2> QED
    BY <2>1
<1>12. sn' = (InitSn + (k + n)) % SnModulus
  <2>1. (((InitSn + k) % SnModulus) + n) % SnModulus = ((InitSn + k) + n) % SnModulus
    <3>1. InitSn + k \in Int /\ n \in Int /\ SnModulus \in Nat \ {0}
      BY <1>4, PackerNumbers
    <3> QED
      BY <3>1, RemainderPlus
  <2>2. (InitSn + k) + n = InitSn + (k + n)
    BY <1>4
  <2> QED
    BY <1>2, <1>4, <2>1, <2>2
<1> DEFINE unit == [bytes |-> Packer!Bytes(0, len), M |-> is_last]
<1>13. Packer!Received(both) = [begun |-> <<>>, whole |-> Append(UnitsSent, unit)]
  <2>1. Packer!Received(sink) = [begun |-> <<>>, whole |-> UnitsSent]
    BY DEF PackerInv
  <2> QED
    BY <1>1, <1>4, <1>6, <1>7, <2>1, UnitArrives DEF payloads, both
<1> DEFINE pair == [len |-> len, is_last |-> is_last]
           sent == Append(units, pair)
<1>14. /\ sent \in Seq(Unit) /\ units' = sent
       /\ Len(sent) = Len(units) + 1 /\ DOMAIN sent = 1 .. Len(units) + 1
       /\ \A i \in 1 .. Len(units) : sent[i] = units[i]
       /\ sent[Len(units) + 1] = pair /\ Len(units) \in Nat /\ DOMAIN units = 1 .. Len(units)
  <2>1. pair \in Unit
    BY <1>1 DEF Unit
  <2> HIDE DEF pair
  <2> QED
    BY <1>2, <1>4, <2>1 DEF pair
<1>15. UnitsSent' = Append(UnitsSent, unit)
  <2> DEFINE m == Len(units)
             all == [i \in 1 .. m + 1 |->
                       [bytes |-> Packer!Bytes(0, sent[i].len), M |-> sent[i].is_last]]
  <2>1. UnitsSent' = all
    BY <1>14 DEF UnitsSent, Packer!Bytes
  <2>2. UnitsSent = [i \in 1 .. m |-> [bytes |-> Packer!Bytes(0, units[i].len),
                                       M |-> units[i].is_last]]
    BY <1>14 DEF UnitsSent
  <2>3. \A i \in 1 .. m : all[i] = UnitsSent[i]
    BY <1>14, <2>2
  <2>4. all[m + 1] = unit
    BY <1>14
  <2>5. all = [i \in 1 .. m + 1 |-> all[i]]
    OBVIOUS
  <2> DEFINE more == Append(UnitsSent, unit)
  <2>6. /\ more = [i \in 1 .. m + 1 |-> more[i]] /\ more[m + 1] = unit
        /\ \A i \in 1 .. m : more[i] = UnitsSent[i]
    <3>1. ASSUME NEW i \in 1 .. m PROVE UnitsSent[i] \in UnitBytes
      <4>1. units[i].len \in Nat /\ units[i].is_last \in BOOLEAN
        <5>1. units[i] \in Unit
          BY <1>4, <1>14
        <5> QED
          BY <5>1 DEF Unit
      <4> QED
        BY <2>2, <4>1, BytesAre DEF UnitBytes
    <3>2. UnitsSent \in Seq(UnitBytes) /\ Len(UnitsSent) = m
      <4>1. UnitsSent = [i \in 1 .. m |-> UnitsSent[i]]
        BY <2>2
      <4> QED
        BY <1>14, <3>1, <4>1
    <3>3. unit \in UnitBytes
      BY <1>1, BytesAre DEF UnitBytes
    <3>4. m \in Nat
      BY <1>14
    <3> HIDE DEF unit, m
    <3>5. /\ more \in Seq(UnitBytes) /\ Len(more) = m + 1 /\ more[m + 1] = unit
          /\ \A i \in 1 .. m : more[i] = UnitsSent[i]
      BY <3>2, <3>3, <3>4, AppendProperties
    <3> HIDE DEF more
    <3>6. more = [i \in 1 .. m + 1 |-> more[i]]
      BY <3>4, <3>5
    <3> QED
      BY <3>5, <3>6
  <2> HIDE DEF all, more, unit
  <2>7. ASSUME NEW i \in 1 .. m + 1 PROVE all[i] = more[i]
    <3>1. i \in 1 .. m \/ i = m + 1
      BY <1>14
    <3> QED
      BY <2>3, <2>4, <2>6, <3>1
  <2>8. all = more
    BY <2>5, <2>6, <2>7
  <2> QED
    BY <2>1, <2>8 DEF more
<1> QED
  BY <1>2, <1>8, <1>11, <1>12, <1>13, <1>14, <1>15 DEF PackerInv

THEOREM PackerInductive == Packer!Spec => []PackerInv
<1>1. Packer!Init => PackerInv
  <2> SUFFICES ASSUME Packer!Init PROVE PackerInv
    OBVIOUS
  <2>1. sn = InitSn /\ sink = <<>> /\ units = <<>> /\ Len(sink) = 0
    BY DEF Packer!Init
  <2>2. InitSn + Len(sink) = InitSn /\ InitSn % SnModulus = InitSn
    BY <2>1, PackerNumbers
  <2>3. Packer!Received(sink) = [begun |-> <<>>, whole |-> UnitsSent]
    <3>1. sink \in Seq(Piece)
      BY <2>1
    <3>2. PICK after : ReceivedAs(after, sink)
      BY <3>1, ReceiveUnfolds
    <3>3. Packer!Received(sink) = Nothing
      BY <2>1, <3>2 DEF ReceivedAs
    <3>4. UnitsSent = <<>>
      BY <2>1 DEF UnitsSent
    <3> QED
      BY <3>3, <3>4 DEF Nothing
  <2> QED
    BY <2>1, <2>2, <2>3 DEF PackerInv
<1>2. PackerInv /\ [Packer!Next]_(Packer!vars) => PackerInv'
  <2> SUFFICES ASSUME PackerInv, [Packer!Next]_(Packer!vars) PROVE PackerInv'
    OBVIOUS
  <2>1. ASSUME NEW len \in UnitLengths, NEW is_last \in BOOLEAN, Packer!Pack(len, is_last)
        PROVE  PackerInv'
    BY <2>1, PackKeeps
  <2>2. CASE UNCHANGED Packer!vars
    <3>1. sn' = sn /\ sink' = sink /\ units' = units
      BY <2>2 DEF Packer!vars
    <3>2. UnitsSent' = UnitsSent
      BY <3>1 DEF UnitsSent
    <3> QED
      BY <3>1, <3>2 DEF PackerInv
  <2> QED
    BY <2>1, <2>2 DEF Packer!Next
<1> QED
  BY <1>1, <1>2, PTL DEF Packer!Spec

\* Whatever their lengths are to that of a packet, the units packed arrive whole
\* and in order, in packets of consecutive numbers that are neither empty nor too
\* large, and only the last packet of a unit may bear the marker
\* (h264_rtp_packer_pack and what it calls).
THEOREM UnitsArriveWhole == Packer!Spec => []UnitsWhole
<1>1. PackerInv => UnitsWhole
  <2> SUFFICES ASSUME PackerInv PROVE UnitsWhole
    OBVIOUS
  <2>1. Packer!Received(sink).whole = UnitsSent
    BY DEF PackerInv
  <2>2. sink \in Seq(Piece) /\ DOMAIN sink = 1 .. Len(sink)
    BY DEF PackerInv
  <2>3. \A i \in DOMAIN sink : FitsIn(sink[i], i)
    BY <2>2 DEF PackerInv
  <2> QED
    BY <2>1, <2>3 DEF UnitsWhole, Packer!UnitsWhole, UnitsSent, FitsIn
<1> QED
  BY <1>1, PackerInductive, PTL

-----------------------------------------------------------------------------
(* The tones of dtmf_buffer.cc.  In one turn of the timestamps they tell the *)
(* time, and the tones, that are sent one after another, have the order of   *)
(* their events.  What makes ToneInTime inductive is what the list holds:    *)
(* one event of each tone, in order; of the stream that has not met the wrap *)
(* the event that tells all that was received, until the last frame of its   *)
(* tone, and none that was due long ago and that no packet came of since.    *)

ToneEvent ==
  [tone : Dtmf!Tone, no : Nat, timestamp : 0 .. ToneModulus - 1, duration : Nat \ {0},
   end : BOOLEAN]

TonesTyped ==
  /\ tones \in Seq(ToneEvent)
  /\ tone_time \in Nat /\ heard \subseteq Dtmf!Tone
  /\ reach \in [Dtmf!Tone -> Nat] /\ \A i \in Dtmf!Tone : reach[i] <= Tones[i].length
  /\ straddled \in BOOLEAN

\* The number and the time of an event are those of its tone.
OfItsTone(e) == e.no = Tones[e.tone].no /\ e.timestamp = Dtmf!Timestamp(Tones[e.tone].at)

\* It tells what was received, to the end or while the tone is open.
Written(e) ==
  /\ OfItsTone(e)
  /\ e.duration <= reach[e.tone]
  /\ IF e.end THEN e.duration = Tones[e.tone].length ELSE e.tone \in open

\* It is in the turn of the frame, with all that it can be extrapolated by.
InTurn(e) ==
  /\ Dtmf!Turn(Tones[e.tone].at) = Dtmf!Turn(tone_time)
  /\ Dtmf!Turn(Tones[e.tone].at + Tones[e.tone].length + Extrapolation) = Dtmf!Turn(tone_time)

\* When it is over, if no other follows it.
Due(e) == Tones[e.tone].at + e.duration + (IF e.end THEN 0 ELSE Extrapolation)

\* It is not over, or a packet came late, or another tone is heard.
Awaited(e) == e.tone \in fresh \/ tone_time <= Due(e) \/ heard \ {e.tone} # {}

\* What was received of a tone is in the list, until its last frame.
AllTold(i) ==
  \/ reach[i] = 0
  \/ tone_time + ToneFrame >= Tones[i].at + reach[i]
  \/ \E e \in ToSet(tones) : e.tone = i /\ e.duration = reach[i]

InOrder(list) == \A k, l \in 1 .. Len(list) : k < l => list[k].tone < list[l].tone

TonesInv ==
  /\ TonesTyped
  /\ InOrder(tones)
  /\ \A e \in ToSet(tones) : Written(e)
  /\ ~straddled => /\ \A e \in ToSet(tones) : InTurn(e) /\ Awaited(e)
                   /\ \A i \in Dtmf!Tone : AllTold(i)

LEMMA ToneFacts ==
  ASSUME NEW i \in Dtmf!Tone
  PROVE  /\ i \in Nat /\ Tones[i].no \in Nat /\ Tones[i].at \in Nat
         /\ Tones[i].length \in Nat \ {0}
<1> DEFINE Sent == [no : Nat, at : Nat, length : Nat \ {0}]
<1>1. Tones \in Seq(Sent) /\ i \in DOMAIN Tones
  BY ToneAssumption, Zenon DEF Dtmf!Tone
<1> HIDE DEF Sent
<1>2. i \in Nat /\ Tones[i] \in Sent
  BY <1>1
<1> QED
  BY <1>2 DEF Sent

LEMMA TonesFollow ==
  ASSUME NEW i \in Dtmf!Tone, NEW j \in Dtmf!Tone, i < j
  PROVE  /\ Tones[i].at + Tones[i].length <= Tones[j].at
         /\ Tones[j].at - Tones[i].at < (ToneModulus - 1) \div 2
<1>1. \A k, l \in DOMAIN Tones :
        k < l => /\ Tones[k].at + Tones[k].length <= Tones[l].at
                 /\ Tones[l].at - Tones[k].at < (ToneModulus - 1) \div 2
  BY ToneAssumption, Zenon
<1>2. i \in DOMAIN Tones /\ j \in DOMAIN Tones
  BY DEF Dtmf!Tone
<1> QED
  BY <1>1, <1>2, Zenon

\* A time is so many turns and its timestamp.
LEMMA TurnAndTimestamp ==
  ASSUME NEW t \in Nat
  PROVE  /\ Dtmf!Turn(t) \in Int /\ Dtmf!Timestamp(t) \in 0 .. ToneModulus - 1
         /\ FirstTime + t = (ToneModulus * Dtmf!Turn(t)) + Dtmf!Timestamp(t)
<1> DEFINE x == FirstTime + t
<1>1. x \in Int /\ ToneModulus \in Nat \ {0}
  BY ToneAssumption
<1> HIDE DEF x
<1>2. /\ x \div ToneModulus \in Int /\ x % ToneModulus \in 0 .. ToneModulus - 1
      /\ x = (ToneModulus * (x \div ToneModulus)) + (x % ToneModulus)
  BY <1>1
<1> QED
  BY <1>2 DEF x, Dtmf!Turn, Dtmf!Timestamp

\* The time of the first timestamp of a turn.
TurnBegins(t) == (ToneModulus * Dtmf!Turn(t)) - FirstTime

\* In one turn timestamps tell the time.
LEMMA InOneTurn ==
  ASSUME NEW s \in Nat, NEW t \in Nat, Dtmf!Turn(s) = Dtmf!Turn(t)
  PROVE  Dtmf!Timestamp(s) = s - TurnBegins(t) /\ TurnBegins(t) \in Int
<1> DEFINE n == ToneModulus * Dtmf!Turn(t)
<1>1. n \in Int /\ FirstTime \in Nat
  BY ToneAssumption, TurnAndTimestamp
<1>2. FirstTime + s = n + Dtmf!Timestamp(s) /\ Dtmf!Timestamp(s) \in Int
  BY TurnAndTimestamp
<1> HIDE DEF n
<1>3. Dtmf!Timestamp(s) = s - (n - FirstTime)
  BY <1>1, <1>2
<1> QED
  BY <1>1, <1>3 DEF n, TurnBegins

\* What lies between two times of one turn is in it.
LEMMA BetweenInTurn ==
  ASSUME NEW s \in Nat, NEW t \in Nat, NEW u \in Nat, s <= t, t <= u,
         Dtmf!Turn(s) = Dtmf!Turn(u)
  PROVE  Dtmf!Turn(t) = Dtmf!Turn(s)
<1> DEFINE d == ToneModulus
           p == Dtmf!Turn(s)
           q == Dtmf!Turn(t)
<1>1. d \in Nat \ {0} /\ FirstTime \in Nat /\ p \in Int /\ q \in Int
  BY ToneAssumption, TurnAndTimestamp
<1>2. /\ FirstTime + s = (d * p) + Dtmf!Timestamp(s) /\ Dtmf!Timestamp(s) \in 0 .. d - 1
      /\ FirstTime + t = (d * q) + Dtmf!Timestamp(t) /\ Dtmf!Timestamp(t) \in 0 .. d - 1
      /\ FirstTime + u = (d * p) + Dtmf!Timestamp(u) /\ Dtmf!Timestamp(u) \in 0 .. d - 1
  BY TurnAndTimestamp
<1> HIDE DEF d, p, q
<1> DEFINE dp == d * p
           dq == d * q
<1>6. dp \in Int /\ dq \in Int
  BY <1>1
<1>3. ASSUME q < p PROVE FALSE
  <2>1. d * q <= d * (p - 1) /\ d * (p - 1) = dp - d
    BY <1>1, <1>3, Times
  <2> HIDE DEF dp
  <2> QED
    BY <1>1, <1>2, <1>6, <2>1 DEF dp, dq
<1>4. ASSUME q > p PROVE FALSE
  <2>1. d * (p + 1) <= dq /\ d * (p + 1) = dp + d
    BY <1>1, <1>4, Times
  <2> HIDE DEF dp, dq
  <2> QED
    BY <1>1, <1>2, <1>6, <2>1 DEF dp, dq
<1>5. q = p
  BY <1>1, <1>3, <1>4
<1> QED
  BY <1>5 DEF p, q

\* A sum of a timestamp that stays in the turn does not wrap.
LEMMA SumInTurn ==
  ASSUME NEW s \in Nat, NEW n \in Nat, Dtmf!Turn(s + n) = Dtmf!Turn(s)
  PROVE  (Dtmf!Timestamp(s) + n) % ToneModulus = Dtmf!Timestamp(s + n)
<1> DEFINE x == Dtmf!Timestamp(s)
           y == Dtmf!Timestamp(s + n)
<1>1. s + n \in Nat /\ ToneModulus \in Nat \ {0}
  BY ToneAssumption
<1>2. x = s - TurnBegins(s) /\ y = (s + n) - TurnBegins(s) /\ TurnBegins(s) \in Int
  BY <1>1, InOneTurn
<1>3. x \in Int /\ y \in 0 .. ToneModulus - 1
  BY <1>1, TurnAndTimestamp
<1> HIDE DEF x, y
<1>4. x + n = y
  BY <1>2, <1>3
<1>5. y % ToneModulus = y
  BY <1>1, <1>3
<1> QED
  BY <1>4, <1>5 DEF x, y

\* What % gives within two turns.
LEMMA TwoTurns ==
  ASSUME NEW c \in Nat \ {0}, NEW x \in 0 .. 2 * c - 1
  PROVE  x % c = Turned(x, c)
<1> DEFINE q == x \div c
           r == x % c
<1>1. r \in 0 .. c - 1 /\ x = (c * q) + r /\ q \in Int
  OBVIOUS
<1> HIDE DEF q, r
<1>2. q \in {0, 1}
  <2>1. CASE q < 0
    <3>1. c * q <= c * (-1)
      BY <1>1, <2>1, Times
    <3> QED
      BY <1>1, <3>1
  <2>2. CASE q > 1
    <3>1. c * 2 <= c * q
      BY <1>1, <2>2, Times
    <3> QED
      BY <1>1, <3>1
  <2> QED
    BY <1>1, <2>1, <2>2
<1>3. CASE q = 0
  <2>1. c * q = 0
    BY <1>3
  <2> QED
    BY <1>1, <2>1 DEF Turned, r
<1>4. CASE q = 1
  <2>1. c * q = c
    BY <1>4
  <2> QED
    BY <1>1, <2>1 DEF Turned, r
<1> QED
  BY <1>2, <1>3, <1>4

\* Of two tones the first goes first.
LEMMA TonesCompared ==
  ASSUME NEW i \in Dtmf!Tone, NEW j \in Dtmf!Tone, i < j
  PROVE  LET s == Dtmf!Timestamp(Tones[i].at)
             r == Dtmf!Timestamp(Tones[j].at)
             half == (ToneModulus - 1) \div 2
         IN  /\ r # s
             /\ (r + ToneModulus - s) % ToneModulus < half
             /\ ~((s + ToneModulus - r) % ToneModulus < half)
<1> DEFINE s == Dtmf!Timestamp(Tones[i].at)
           r == Dtmf!Timestamp(Tones[j].at)
           half == (ToneModulus - 1) \div 2
           m == ToneModulus
           x == FirstTime + Tones[j].at
           y == FirstTime + Tones[i].at
<1>1. m \in Nat \ {0} /\ x \in Int /\ y \in Int
  BY ToneAssumption, ToneFacts
<1>2. half \in Int /\ 2 * half <= m - 1
  BY <1>1
<1>3. x - y > 0 /\ x - y < half
  <2>1. /\ Tones[i].at \in Nat /\ Tones[i].length \in Nat \ {0} /\ Tones[j].at \in Nat
        /\ FirstTime \in Nat
    BY ToneAssumption, ToneFacts
  <2>2. Tones[i].at + Tones[i].length <= Tones[j].at /\ Tones[j].at - Tones[i].at < half
    BY TonesFollow, Zenon
  <2> DEFINE u == Tones[i].at
             v == Tones[j].at
  <2>3. u \in Nat /\ v \in Nat /\ u < v /\ v - u < half
    BY <2>1, <2>2
  <2>4. x = FirstTime + v /\ y = FirstTime + u
    OBVIOUS
  <2> HIDE DEF half, u, v, x, y
  <2> QED
    BY <1>2, <2>1, <2>3, <2>4
<1>4. s = y % m /\ r = x % m
  BY DEF Dtmf!Timestamp
<1> HIDE DEF half, m, x, y, s, r
<1>5. x - y \in 0 .. m - 1
  BY <1>1, <1>2, <1>3
<1>6. /\ r \in 0 .. m - 1 /\ s \in 0 .. m - 1
      /\ \/ r >= s /\ r - s = x - y
         \/ r < s /\ (r - s) + m = x - y
  <2> DEFINE v == x % m
             w == y % m
  <2>1. /\ v \in 0 .. m - 1 /\ w \in 0 .. m - 1
        /\ \/ v >= w /\ v - w = x - y
           \/ v < w /\ v - w + m = x - y
    BY <1>1, <1>5, Remainders
  <2> HIDE DEF v, w
  <2>2. /\ v \in 0 .. m - 1 /\ w \in 0 .. m - 1
        /\ \/ v >= w /\ v - w = x - y
           \/ v < w /\ (v - w) + m = x - y
    BY <1>1, <2>1
  <2> QED
    BY <1>4, <2>2 DEF v, w
<1> DEFINE a == (r + m) - s
           b == (s + m) - r
<1>7. \A z \in 0 .. 2 * m - 1 : z % m = Turned(z, m)
  BY <1>1, TwoTurns
<1>8. r # s
  BY <1>1, <1>3, <1>6
<1>9. a \in 0 .. 2 * m - 1 /\ Turned(a, m) = x - y
  BY <1>1, <1>3, <1>5, <1>6 DEF Turned
<1>10. b \in 0 .. 2 * m - 1 /\ Turned(b, m) = m - (x - y)
  BY <1>1, <1>3, <1>5, <1>6 DEF Turned
<1> HIDE DEF a, b
<1>11. a % m < half
  BY <1>3, <1>7, <1>9
<1>12. b % m = m - (x - y)
  BY <1>7, <1>10
<1>13. ~(b % m < half)
  BY <1>1, <1>2, <1>3, <1>12
<1>14. r + m - s = a /\ s + m - r = b
  BY <1>1, <1>6 DEF a, b
<1> QED
  BY <1>8, <1>11, <1>13, <1>14 DEF half, m, s, r

\* Events of tones are compared as their tones.
LEMMA EventsCompared ==
  ASSUME NEW e \in ToneEvent, NEW f \in ToneEvent, OfItsTone(e), OfItsTone(f)
  PROVE  /\ Dtmf!SameEvent(e, f) <=> e.tone = f.tone
         /\ e.tone # f.tone => (Dtmf!CompareEvents(e, f) <=> e.tone < f.tone)
<1> DEFINE s == Dtmf!Timestamp(Tones[e.tone].at)
           r == Dtmf!Timestamp(Tones[f.tone].at)
           half == (ToneModulus - 1) \div 2
<1>1. e.tone \in Dtmf!Tone /\ f.tone \in Dtmf!Tone
  BY DEF ToneEvent
<1>2. /\ e.timestamp = s /\ e.no = Tones[e.tone].no
      /\ f.timestamp = r /\ f.no = Tones[f.tone].no
  BY DEF OfItsTone
<1>3. e.tone \in Nat /\ f.tone \in Nat
  BY <1>1, ToneFacts
<1>4. CASE e.tone = f.tone
  BY <1>2, <1>4 DEF Dtmf!SameEvent
<1>5. CASE e.tone < f.tone
  <2>1. r # s /\ (r + ToneModulus - s) % ToneModulus < half
    BY <1>1, <1>5, TonesCompared
  <2> HIDE DEF r, s, half
  <2>2. ~Dtmf!SameEvent(e, f)
    BY <1>2, <2>1 DEF Dtmf!SameEvent
  <2>3. Dtmf!CompareEvents(e, f)
    BY <1>2, <2>1, Zenon DEF Dtmf!CompareEvents, half
  <2> QED
    BY <1>3, <1>5, <2>2, <2>3
<1>6. CASE f.tone < e.tone
  <2>1. r # s /\ ~((r + ToneModulus - s) % ToneModulus < half)
    BY <1>1, <1>6, TonesCompared
  <2> HIDE DEF r, s, half
  <2>2. ~Dtmf!SameEvent(e, f)
    BY <1>2, <2>1 DEF Dtmf!SameEvent
  <2>3. ~Dtmf!CompareEvents(e, f)
    BY <1>2, <2>1, Zenon DEF Dtmf!CompareEvents, half
  <2> QED
    BY <1>3, <1>6, <2>2, <2>3
<1> QED
  BY <1>3, <1>4, <1>5, <1>6

\* In a list in order there is one event of a tone.
LEMMA OneEventEach ==
  ASSUME NEW list \in Seq(ToneEvent), InOrder(list),
         NEW j \in 1 .. Len(list), NEW k \in 1 .. Len(list), list[j].tone = list[k].tone
  PROVE  j = k
<1>1. \A i \in 1 .. Len(list) : list[i].tone \in Nat
  <2> SUFFICES ASSUME NEW i \in 1 .. Len(list) PROVE list[i].tone \in Nat
    OBVIOUS
  <2>1. list[i] \in ToneEvent
    OBVIOUS
  <2> QED
    BY <2>1, ToneFacts DEF ToneEvent
<1>2. ~(j < k) /\ ~(k < j)
  BY <1>1 DEF InOrder
<1> QED
  BY <1>2

\* The list with an event told of: another of its tone is merged with it.
Merges(new, event) ==
  \E old \in ToSet(tones) :
    /\ old.tone = event.tone /\ \A e \in ToSet(tones) \ {old} : e.tone # event.tone
    /\ ToSet(new) = (ToSet(tones) \ {old}) \cup {Dtmf!Merged(old, event)}

Adds(new, event) ==
  /\ \A old \in ToSet(tones) : old.tone # event.tone
  /\ ToSet(new) = ToSet(tones) \cup {event}

LEMMA MergedTyped ==
  ASSUME NEW a \in ToneEvent, NEW b \in ToneEvent
  PROVE  LET m == Dtmf!Merged(a, b)
         IN  /\ m \in ToneEvent
             /\ m.tone = a.tone /\ m.no = a.no /\ m.timestamp = a.timestamp
             /\ m.end = (a.end \/ b.end)
             /\ m.duration = IF ~a.end /\ b.duration > a.duration THEN b.duration
                                                                 ELSE a.duration
BY DEF Dtmf!Merged, ToneEvent

LEMMA InsertMerges ==
  ASSUME TonesTyped, InOrder(tones), \A e \in ToSet(tones) : OfItsTone(e),
         NEW event \in ToneEvent, OfItsTone(event),
         NEW k \in 1 .. Len(tones), tones[k].tone = event.tone
  PROVE  LET new == Dtmf!Inserted(event)
         IN  new \in Seq(ToneEvent) /\ InOrder(new) /\ Merges(new, event)
<1> DEFINE n == Len(tones)
           old == tones[k]
           new == Dtmf!Inserted(event)
           m == Dtmf!Merged(old, event)
<1>1. n \in Nat /\ tones \in Seq(ToneEvent) /\ DOMAIN tones = 1 .. n
  BY DEF TonesTyped
<1>2. \A i \in 1 .. n : tones[i] \in ToneEvent /\ OfItsTone(tones[i])
  BY <1>1, Members
<1>3. \A i \in 1 .. n : Dtmf!SameEvent(tones[i], event) <=> i = k
  <2> SUFFICES ASSUME NEW i \in 1 .. n PROVE Dtmf!SameEvent(tones[i], event) <=> i = k
    OBVIOUS
  <2>1. Dtmf!SameEvent(tones[i], event) <=> tones[i].tone = event.tone
    BY <1>2, EventsCompared
  <2>2. tones[i].tone = tones[k].tone => i = k
    BY <1>1, OneEventEach
  <2> QED
    BY <2>1, <2>2
<1>4. new = [i \in 1 .. n |-> IF i = k THEN m ELSE tones[i]]
  <2>1. \E i \in DOMAIN tones : Dtmf!SameEvent(tones[i], event)
    BY <1>1, <1>3
  <2>2. new = [i \in DOMAIN tones |->
                 IF Dtmf!SameEvent(tones[i], event) THEN Dtmf!Merged(tones[i], event)
                                                   ELSE tones[i]]
    BY <2>1, Zenon DEF Dtmf!Inserted
  <2> HIDE DEF new
  <2>3. \A i \in 1 .. n : (IF Dtmf!SameEvent(tones[i], event) THEN Dtmf!Merged(tones[i], event)
                                                           ELSE tones[i])
                          = IF i = k THEN m ELSE tones[i]
    BY <1>3
  <2> HIDE DEF m
  <2> QED
    BY <1>1, <2>2, <2>3
<1>5. m \in ToneEvent /\ m.tone = old.tone
  BY <1>2, MergedTyped
<1> HIDE DEF new, m
<1>6. new \in Seq(ToneEvent) /\ Len(new) = n
  <2>1. \A i \in 1 .. n : (IF i = k THEN m ELSE tones[i]) \in ToneEvent
    BY <1>2, <1>5
  <2>2. new \in [1 .. n -> ToneEvent]
    BY <1>4, <2>1
  <2> QED
    BY <1>1, <2>2
<1>7. \A i \in 1 .. n : new[i].tone = tones[i].tone
  BY <1>4, <1>5
<1>8. InOrder(new)
  BY <1>6, <1>7 DEF InOrder
<1>9. ToSet(new) = (ToSet(tones) \ {old}) \cup {m}
  <2>1. \A x : x \in ToSet(new) <=> \E i \in 1 .. n : x = new[i]
    BY <1>6, Members
  <2>2. \A x : x \in ToSet(tones) <=> \E i \in 1 .. n : x = tones[i]
    BY <1>1, Members
  <2>3. ASSUME NEW x \in ToSet(new) PROVE x \in (ToSet(tones) \ {old}) \cup {m}
    <3>1. PICK i \in 1 .. n : x = new[i]
      BY <2>1
    <3>2. CASE i = k
      BY <1>4, <3>1, <3>2
    <3>3. CASE i # k
      <4>1. x = tones[i]
        BY <1>4, <3>1, <3>3
      <4>2. tones[i].tone # old.tone
        BY <1>1, <3>3, OneEventEach
      <4> QED
        BY <2>2, <4>1, <4>2
    <3> QED
      BY <3>2, <3>3
  <2>4. m \in ToSet(new)
    BY <1>4, <2>1
  <2>5. ASSUME NEW x \in ToSet(tones), x # old PROVE x \in ToSet(new)
    <3>1. PICK i \in 1 .. n : x = tones[i]
      BY <2>2
    <3>2. new[i] = x
      BY <1>4, <2>5, <3>1
    <3> QED
      BY <2>1, <3>2
  <2> QED
    BY <2>3, <2>4, <2>5
<1>10. old \in ToSet(tones)
  BY <1>1, Members
<1>11. \A e \in ToSet(tones) \ {old} : e.tone # event.tone
  <2> SUFFICES ASSUME NEW e \in ToSet(tones), e # old PROVE e.tone # event.tone
    OBVIOUS
  <2>1. PICK i \in 1 .. n : e = tones[i]
    BY <1>1, Members
  <2>2. i # k
    BY <2>1
  <2> QED
    BY <1>1, <2>1, <2>2, OneEventEach
<1>12. Merges(new, event)
  BY <1>9, <1>10, <1>11 DEF Merges, m
<1> QED
  BY <1>6, <1>8, <1>12 DEF new

LEMMA InsertAdds ==
  ASSUME TonesTyped, InOrder(tones), \A e \in ToSet(tones) : OfItsTone(e),
         NEW event \in ToneEvent, OfItsTone(event),
         \A k \in 1 .. Len(tones) : tones[k].tone # event.tone
  PROVE  LET new == Dtmf!Inserted(event)
         IN  new \in Seq(ToneEvent) /\ InOrder(new) /\ Adds(new, event)
<1> DEFINE n == Len(tones)
           new == Dtmf!Inserted(event)
           behind == {i \in DOMAIN tones : Dtmf!CompareEvents(event, tones[i])}
           places == behind \cup {n + 1}
           p == Dtmf!Min(places)
<1>1. n \in Nat /\ tones \in Seq(ToneEvent) /\ DOMAIN tones = 1 .. n
  BY DEF TonesTyped
<1>2. \A i \in 1 .. n : tones[i] \in ToneEvent /\ OfItsTone(tones[i])
  BY <1>1, Members
<1>3. /\ event.tone \in Nat
      /\ \A i \in 1 .. n : tones[i].tone \in Nat
  BY <1>2, ToneFacts DEF ToneEvent
<1>4. \A i \in 1 .. n : /\ ~Dtmf!SameEvent(tones[i], event)
                        /\ Dtmf!CompareEvents(event, tones[i]) <=> event.tone < tones[i].tone
  BY <1>2, EventsCompared
<1>5. new = Dtmf!InsertAt(tones, p, event)
  <2>1. ~ \E i \in DOMAIN tones : Dtmf!SameEvent(tones[i], event)
    BY <1>1, <1>4
  <2> QED
    BY <2>1, Zenon DEF Dtmf!Inserted
<1> HIDE DEF new
<1>6. p \in places /\ \A i \in places : p <= i
  <2>1. places \in SUBSET Nat /\ places # {}
    BY <1>1
  <2>2. PICK q \in places : \A i \in places : q <= i
    <3> HIDE DEF places
    <3> QED
      BY <2>1, Smallest
  <2> HIDE DEF places
  <2> QED
    BY <2>2 DEF Dtmf!Min
<1>7. \A i \in 1 .. n : i \in behind <=> event.tone < tones[i].tone
  BY <1>1, <1>4
<1> HIDE DEF behind
<1>8. p \in 1 .. n + 1
  BY <1>1, <1>6 DEF behind
<1>9. (p \in behind \/ p = n + 1) /\ \A i \in behind : p <= i
  BY <1>6
<1> HIDE DEF p, places
<1>10. \A i \in 1 .. n : i < p => tones[i].tone < event.tone
  <2> SUFFICES ASSUME NEW i \in 1 .. n, i < p PROVE tones[i].tone < event.tone
    OBVIOUS
  <2>1. i \notin behind
    BY <1>8, <1>9
  <2>2. tones[i].tone # event.tone
    OBVIOUS
  <2> QED
    BY <1>3, <1>7, <2>1, <2>2
<1>11. \A i \in 1 .. n : p <= i => event.tone < tones[i].tone
  <2> SUFFICES ASSUME NEW i \in 1 .. n, p <= i PROVE event.tone < tones[i].tone
    OBVIOUS
  <2>1. p \in 1 .. n /\ p \in behind
    BY <1>1, <1>8, <1>9
  <2>2. event.tone < tones[p].tone
    BY <1>7, <2>1
  <2>3. p = i \/ tones[p].tone < tones[i].tone
    BY <2>1 DEF InOrder
  <2> QED
    BY <1>3, <2>1, <2>2, <2>3
<1>12. InsertedAt(ToneEvent, tones, p, event, new)
  <2>1. Dtmf!InsertAt(tones, p, event) = InsertAt(tones, p, event)
    BY DEF Dtmf!InsertAt, InsertAt
  <2> QED
    BY <1>1, <1>5, <1>8, <2>1, Inserted
<1>13. /\ new \in Seq(ToneEvent) /\ Len(new) = n + 1
       /\ \A j \in 1 .. n + 1 :
            new[j] = IF j < p THEN tones[j] ELSE IF j = p THEN event ELSE tones[j - 1]
  BY <1>12 DEF InsertedAt
<1>14. InOrder(new)
  <2> SUFFICES ASSUME NEW j \in 1 .. n + 1, NEW k \in 1 .. n + 1, j < k
               PROVE  new[j].tone < new[k].tone
    BY <1>13 DEF InOrder
  <2>1. CASE k < p
    <3>1. j \in 1 .. n /\ k \in 1 .. n /\ new[j] = tones[j] /\ new[k] = tones[k]
      BY <1>1, <1>8, <1>13, <2>1
    <3> QED
      BY <3>1 DEF InOrder
  <2>2. CASE k = p
    <3>1. j \in 1 .. n /\ j < p /\ new[j] = tones[j] /\ new[k] = event
      BY <1>1, <1>8, <1>13, <2>2
    <3> QED
      BY <1>10, <3>1
  <2>3. CASE k > p /\ j < p
    <3>1. /\ j \in 1 .. n /\ k - 1 \in 1 .. n /\ p <= k - 1
          /\ new[j] = tones[j] /\ new[k] = tones[k - 1]
      BY <1>1, <1>8, <1>13, <2>3
    <3>2. tones[j].tone < event.tone /\ event.tone < tones[k - 1].tone
      BY <1>10, <1>11, <2>3, <3>1
    <3> QED
      BY <1>3, <3>1, <3>2
  <2>4. CASE k > p /\ j = p
    <3>1. k - 1 \in 1 .. n /\ p <= k - 1 /\ new[j] = event /\ new[k] = tones[k - 1]
      BY <1>1, <1>8, <1>13, <2>4
    <3> QED
      BY <1>11, <3>1
  <2>5. CASE k > p /\ j > p
    <3>1. /\ j - 1 \in 1 .. n /\ k - 1 \in 1 .. n /\ j - 1 < k - 1
          /\ new[j] = tones[j - 1] /\ new[k] = tones[k - 1]
      BY <1>1, <1>8, <1>13, <2>5
    <3> QED
      BY <3>1 DEF InOrder
  <2> QED
    BY <1>8, <2>1, <2>2, <2>3, <2>4, <2>5
<1>15. ToSet(new) = ToSet(tones) \cup {event}
  BY <1>1, <1>8, <1>12, InsertedMembers
<1>16. \A old \in ToSet(tones) : old.tone # event.tone
  BY <1>1, Members
<1>17. Adds(new, event)
  BY <1>15, <1>16 DEF Adds
<1> QED
  BY <1>13, <1>14, <1>17 DEF new

\* A packet keeps the list of tones true.
LEMMA InsertKeepsTones ==
  ASSUME TonesInv, NEW i \in Dtmf!Tone, NEW duration \in 1 .. Tones[i].length,
         Dtmf!InsertEvent(i, duration)
  PROVE  TonesInv'
<1> DEFINE event == [tone |-> i, no |-> Tones[i].no,
                     timestamp |-> Dtmf!Timestamp(Tones[i].at),
                     duration |-> duration, end |-> (duration = Tones[i].length)]
           length == Tones[i].length
           longest == IF duration > reach[i] THEN duration ELSE reach[i]
<1>1. /\ TonesTyped /\ InOrder(tones)
      /\ \A e \in ToSet(tones) : Written(e) /\ OfItsTone(e)
  BY DEF TonesInv, Written
<1>2. /\ i \in Nat /\ Tones[i].no \in Nat /\ Tones[i].at \in Nat /\ length \in Nat \ {0}
      /\ duration \in Nat \ {0} /\ duration <= length
  BY ToneFacts
<1>3. /\ event \in ToneEvent /\ OfItsTone(event) /\ event.tone = i
      /\ event.duration = duration /\ event.end = (duration = length)
  <2>1. Dtmf!Timestamp(Tones[i].at) \in 0 .. ToneModulus - 1
    BY <1>2, TurnAndTimestamp
  <2> QED
    BY <1>2, <2>1 DEF ToneEvent, OfItsTone
<1>4. /\ tones' = Dtmf!Inserted(event)
      /\ reach' = [reach EXCEPT ![i] = IF duration > @ THEN duration ELSE @]
      /\ open' = IF duration = length THEN open \ {i} ELSE open \cup {i}
      /\ fresh' = fresh \cup {i}
      /\ straddled' = (straddled \/ Dtmf!Turn(Tones[i].at) # Dtmf!Turn(tone_time)
                       \/ Dtmf!Turn(Tones[i].at + length + Extrapolation)
                            # Dtmf!Turn(tone_time))
      /\ tone_time' = tone_time /\ heard' = heard
  BY Zenon DEF Dtmf!InsertEvent
<1> HIDE DEF event
<1>5. /\ tones' \in Seq(ToneEvent) /\ InOrder(tones')
      /\ Merges(tones', event) \/ Adds(tones', event)
  <2>1. CASE \E k \in 1 .. Len(tones) : tones[k].tone = event.tone
    BY <1>1, <1>3, <1>4, <2>1, InsertMerges
  <2>2. CASE ~ \E k \in 1 .. Len(tones) : tones[k].tone = event.tone
    BY <1>1, <1>3, <1>4, <2>2, InsertAdds
  <2> QED
    BY <2>1, <2>2
<1>6. /\ reach \in [Dtmf!Tone -> Nat] /\ reach[i] <= length
      /\ straddled \in BOOLEAN /\ tone_time \in Nat /\ heard \subseteq Dtmf!Tone
      /\ \A j \in Dtmf!Tone : reach[j] <= Tones[j].length
  BY <1>1 DEF TonesTyped
<1>7. /\ reach' \in [Dtmf!Tone -> Nat] /\ reach'[i] = longest
      /\ \A j \in Dtmf!Tone \ {i} : reach'[j] = reach[j]
      /\ longest <= length /\ reach[i] <= longest /\ duration <= longest
      /\ longest \in Nat
  BY <1>2, <1>4, <1>6
<1> HIDE DEF longest
<1>8. TonesTyped'
  <2>1. \A j \in Dtmf!Tone : reach'[j] <= Tones[j].length
    BY <1>6, <1>7
  <2>2. straddled' \in BOOLEAN
    BY <1>4
  <2> QED
    BY <1>4, <1>5, <1>6, <1>7, <2>1, <2>2 DEF TonesTyped
<1>9. \A e \in ToSet(tones) : e \in ToneEvent
  BY <1>1, Members DEF TonesTyped
<1>10. ASSUME NEW e \in ToSet(tones), e.tone # i PROVE Written(e)'
  <2>1. Written(e) /\ e.tone \in Dtmf!Tone /\ reach'[e.tone] = reach[e.tone]
    BY <1>1, <1>7, <1>9, <1>10 DEF ToneEvent
  <2>2. e.tone \in open => e.tone \in open'
    BY <1>4, <1>10
  <2> QED
    BY <2>1, <2>2 DEF Written, OfItsTone
<1>11. ASSUME NEW old \in ToSet(tones), old.tone = i
       PROVE  LET m == Dtmf!Merged(old, event)
              IN  /\ m \in ToneEvent /\ m.tone = i /\ Written(m)'
                  /\ old.duration = reach[i] \/ duration > reach[i] => m.duration = longest
  <2> DEFINE m == Dtmf!Merged(old, event)
  <2>1. /\ m \in ToneEvent /\ m.tone = old.tone /\ m.no = old.no
        /\ m.timestamp = old.timestamp /\ m.end = (old.end \/ event.end)
        /\ m.duration = IF ~old.end /\ event.duration > old.duration THEN event.duration
                                                                  ELSE old.duration
    BY <1>3, <1>9, <1>11, MergedTyped
  <2> HIDE DEF m
  <2>2. /\ old.duration \in Nat /\ old.duration <= reach[i]
        /\ old.end => old.duration = length
        /\ old.end \in BOOLEAN
    BY <1>1, <1>9, <1>11 DEF Written, ToneEvent
  <2>3. m.duration = IF ~old.end /\ duration > old.duration THEN duration ELSE old.duration
    BY <1>3, <2>1
  <2>4. m.duration <= longest
    BY <1>2, <1>6, <1>7, <2>2, <2>3
  <2>5. OfItsTone(m)
    BY <1>1, <2>1, <1>11 DEF OfItsTone
  <2>6. m.end => m.duration = length
    BY <1>2, <1>3, <1>6, <2>1, <2>2, <2>3
  <2>7. ~m.end => m.tone \in open'
    BY <1>3, <1>4, <1>11, <2>1
  <2>8. old.duration = reach[i] \/ duration > reach[i] => m.duration = longest
    BY <1>2, <1>6, <2>2, <2>3 DEF longest
  <2>9. Written(m)'
    BY <1>7, <1>11, <2>1, <2>4, <2>5, <2>6, <2>7 DEF Written, OfItsTone
  <2> QED
    BY <1>11, <2>1, <2>8, <2>9 DEF m
<1>12. Written(event)'
  <2>1. event.end => event.duration = length
    BY <1>3
  <2>2. ~event.end => i \in open'
    BY <1>3, <1>4
  <2> QED
    BY <1>3, <1>7, <2>1, <2>2 DEF Written, OfItsTone
<1>13. \A e \in ToSet(tones') : Written(e)' /\ (e.tone = i \/ e \in ToSet(tones))
  <2>1. CASE Merges(tones', event)
    BY <1>3, <1>10, <1>11, <2>1 DEF Merges
  <2>2. CASE Adds(tones', event)
    BY <1>3, <1>10, <1>12, <2>2 DEF Adds
  <2> QED
    BY <1>5, <2>1, <2>2
<1>14. ASSUME ~straddled', NEW e \in ToSet(tones') PROVE InTurn(e)' /\ Awaited(e)'
  <2>1. CASE e.tone = i
    BY <1>4, <1>14, <2>1 DEF InTurn, Awaited
  <2>2. CASE e.tone # i
    <3>1. InTurn(e) /\ Awaited(e)
      BY <1>4, <1>13, <1>14, <2>2 DEF TonesInv
    <3> QED
      BY <1>4, <3>1 DEF InTurn, Awaited, Due
  <2> QED
    BY <2>1, <2>2
<1>15. ASSUME ~straddled', NEW j \in Dtmf!Tone PROVE AllTold(j)'
  <2>1. AllTold(j)
    BY <1>4, <1>15 DEF TonesInv
  <2>2. CASE j # i
    <3>1. reach'[j] = reach[j]
      BY <1>7, <2>2
    <3>2. \A e \in ToSet(tones) : e.tone = j => e \in ToSet(tones')
      BY <1>3, <1>5, <2>2 DEF Merges, Adds
    <3> QED
      BY <1>4, <2>1, <3>1, <3>2 DEF AllTold
  <2>3. CASE j = i
    <3>1. CASE Adds(tones', event)
      <4>1. CASE duration >= reach[i]
        <5>1. event \in ToSet(tones') /\ event.tone = i /\ event.duration = longest
          BY <1>2, <1>3, <1>6, <3>1, <4>1 DEF Adds, longest
        <5> QED
          BY <1>7, <2>3, <5>1 DEF AllTold
      <4>2. CASE ~(duration >= reach[i])
        <5>1. reach'[i] = reach[i] /\ reach[i] # 0
          BY <1>2, <1>6, <1>7, <4>2 DEF longest
        <5>2. ~ \E e \in ToSet(tones) : e.tone = i
          BY <1>3, <3>1 DEF Adds
        <5> QED
          BY <1>4, <2>1, <2>3, <5>1, <5>2 DEF AllTold
      <4> QED
        BY <4>1, <4>2
    <3>2. CASE Merges(tones', event)
      <4>1. PICK old \in ToSet(tones) :
              /\ old.tone = i /\ \A e \in ToSet(tones) \ {old} : e.tone # i
              /\ ToSet(tones') = (ToSet(tones) \ {old}) \cup {Dtmf!Merged(old, event)}
        BY <1>3, <3>2 DEF Merges
      <4>2. /\ Dtmf!Merged(old, event).tone = i
            /\ old.duration = reach[i] \/ duration > reach[i]
                 => Dtmf!Merged(old, event).duration = longest
        BY <1>11, <4>1
      <4>3. CASE old.duration = reach[i] \/ duration > reach[i]
        BY <1>7, <2>3, <4>1, <4>2, <4>3 DEF AllTold
      <4>4. CASE ~(old.duration = reach[i] \/ duration > reach[i])
        <5>1. reach'[i] = reach[i]
          BY <1>2, <1>6, <1>7, <4>4 DEF longest
        <5>2. reach[i] # 0
          <6>1. old.duration \in Nat \ {0} /\ old.duration <= reach[i]
            BY <1>1, <1>9, <4>1 DEF Written, ToneEvent
          <6> QED
            BY <1>6, <6>1
        <5>3. ~ \E e \in ToSet(tones) : e.tone = i /\ e.duration = reach[i]
          BY <4>1, <4>4
        <5> QED
          BY <1>4, <2>1, <2>3, <5>1, <5>2, <5>3 DEF AllTold
      <4> QED
        BY <4>3, <4>4
    <3> QED
      BY <1>5, <3>1, <3>2
  <2> QED
    BY <2>2, <2>3
<1> QED
  BY <1>5, <1>8, <1>13, <1>14, <1>15 DEF TonesInv

\* Until when the k-th event sounds.
Until(k) ==
  LET next == Tones[tones[k + 1].tone].at
  IN  IF ~tones[k].end /\ k < Len(tones) /\ next < Due(tones[k]) THEN next ELSE Due(tones[k])

\* The events of a turn are compared with the frame by their times.
LEMMA EventsInTurn ==
  ASSUME TonesInv, ~straddled, NEW k \in 1 .. Len(tones)
  PROVE  LET e == tones[k]
             at == Tones[e.tone].at
             begin == TurnBegins(tone_time)
         IN  /\ e.timestamp = at - begin /\ Dtmf!EventEnd(k) = Until(k) - begin
             /\ Dtmf!EventEnd(k) \in 0 .. ToneModulus - 1
             /\ at \in Nat /\ begin \in Int /\ Until(k) \in Nat
             /\ at + e.duration <= Until(k) /\ Until(k) <= Due(e)
             /\ e.duration \in Nat \ {0} /\ (e.end => Until(k) = at + e.duration)
<1> DEFINE e == tones[k]
           at == Tones[e.tone].at
           length == Tones[e.tone].length
           begin == TurnBegins(tone_time)
           known == at + e.duration
           longer == known + Extrapolation
           next == Tones[tones[k + 1].tone].at
<1>1. tone_time \in Nat /\ tones \in Seq(ToneEvent) /\ Extrapolation \in Nat
  BY ToneAssumption DEF TonesInv, TonesTyped
<1>2. \A j \in 1 .. Len(tones) : /\ tones[j] \in ToneEvent /\ tones[j].tone \in Dtmf!Tone
                                 /\ tones[j] \in ToSet(tones)
  <2>1. \A j \in 1 .. Len(tones) : tones[j] \in ToSet(tones)
    BY <1>1, Members
  <2>2. \A j \in 1 .. Len(tones) : tones[j] \in ToneEvent
    BY <1>1
  <2> QED
    BY <2>1, <2>2 DEF ToneEvent
<1>3. \A j \in 1 .. Len(tones) :
        /\ tones[j].timestamp = Tones[tones[j].tone].at - begin
        /\ Tones[tones[j].tone].at \in Nat /\ begin \in Int
        /\ Dtmf!Turn(Tones[tones[j].tone].at) = Dtmf!Turn(tone_time)
  <2> SUFFICES ASSUME NEW j \in 1 .. Len(tones)
               PROVE  /\ tones[j].timestamp = Tones[tones[j].tone].at - begin
                      /\ Tones[tones[j].tone].at \in Nat /\ begin \in Int
                      /\ Dtmf!Turn(Tones[tones[j].tone].at) = Dtmf!Turn(tone_time)
    OBVIOUS
  <2>1. /\ tones[j].timestamp = Dtmf!Timestamp(Tones[tones[j].tone].at)
        /\ Dtmf!Turn(Tones[tones[j].tone].at) = Dtmf!Turn(tone_time)
    BY <1>2 DEF TonesInv, Written, OfItsTone, InTurn
  <2>2. Tones[tones[j].tone].at \in Nat
    BY <1>2, ToneFacts
  <2> QED
    BY <1>1, <2>1, <2>2, InOneTurn
<1>4. /\ at \in Nat /\ length \in Nat /\ e.duration \in Nat \ {0} /\ e.end \in BOOLEAN
      /\ e.duration <= length
  <2>1. /\ e \in ToneEvent /\ Written(e) /\ reach[e.tone] <= length
        /\ reach[e.tone] \in Nat
    BY <1>2 DEF TonesInv, TonesTyped
  <2> QED
    BY <1>2, <2>1, ToneFacts DEF Written, ToneEvent
<1>5. Dtmf!Turn(at) = Dtmf!Turn(tone_time) /\ Dtmf!Turn(at + length + Extrapolation) = Dtmf!Turn(at)
  BY <1>2 DEF TonesInv, InTurn
<1>6. Dtmf!Turn(known) = Dtmf!Turn(at) /\ Dtmf!Turn(longer) = Dtmf!Turn(at)
  <2> DEFINE last == at + length + Extrapolation
  <2>1. /\ known \in Nat /\ longer \in Nat /\ last \in Nat
        /\ at <= known /\ known <= last /\ at <= longer /\ longer <= last
    BY <1>1, <1>4
  <2>2. Dtmf!Turn(at) = Dtmf!Turn(last)
    BY <1>5
  <2> HIDE DEF last, known, longer
  <2> QED
    BY <1>4, <2>1, <2>2, BetweenInTurn
<1>7. known \in Nat /\ longer \in Nat
  BY <1>1, <1>4
<1>8. /\ (e.timestamp + e.duration) % ToneModulus = known - begin
      /\ known - begin \in 0 .. ToneModulus - 1
  <2>1. e.timestamp = Dtmf!Timestamp(at)
    BY <1>2 DEF TonesInv, Written, OfItsTone
  <2>2. (Dtmf!Timestamp(at) + e.duration) % ToneModulus = Dtmf!Timestamp(known)
    BY <1>4, <1>6, SumInTurn
  <2>3. Dtmf!Timestamp(known) = known - begin
    <3> HIDE DEF known
    <3> QED
      BY <1>1, <1>5, <1>6, <1>7, InOneTurn
  <2>4. Dtmf!Timestamp(known) \in 0 .. ToneModulus - 1
    BY <1>7, TurnAndTimestamp
  <2> QED
    BY <2>1, <2>2, <2>3, <2>4
<1>9. /\ ((known - begin) + Extrapolation) % ToneModulus = longer - begin
      /\ longer - begin \in 0 .. ToneModulus - 1
  <2> HIDE DEF known
  <2>1. (Dtmf!Timestamp(known) + Extrapolation) % ToneModulus = Dtmf!Timestamp(longer)
    BY <1>1, <1>6, <1>7, SumInTurn
  <2>2. Dtmf!Timestamp(known) = known - begin
    BY <1>1, <1>5, <1>6, <1>7, InOneTurn
  <2>3. Dtmf!Timestamp(longer) = longer - begin /\ Dtmf!Timestamp(longer) \in 0 .. ToneModulus - 1
    <3> HIDE DEF longer
    <3> QED
      BY <1>1, <1>5, <1>6, <1>7, InOneTurn, TurnAndTimestamp
  <2> QED
    BY <2>1, <2>2, <2>3
<1>10. ASSUME k < Len(tones)
       PROVE  /\ tones[k + 1].timestamp = next - begin /\ next \in Nat /\ at + length <= next
              /\ tones[k + 1].timestamp \in 0 .. ToneModulus - 1
  <2>1. k + 1 \in 1 .. Len(tones) /\ k < k + 1
    BY <1>1, <1>10
  <2>2. e.tone < tones[k + 1].tone
    BY <2>1 DEF TonesInv, InOrder
  <2>3. at + length <= next
    BY <1>2, <2>1, <2>2, TonesFollow
  <2>4. tones[k + 1].timestamp \in 0 .. ToneModulus - 1
    BY <1>2, <2>1 DEF ToneEvent
  <2> QED
    BY <1>3, <2>1, <2>3, <2>4
<1>11. Due(e) = IF e.end THEN known ELSE longer
  BY <1>1, <1>4 DEF Due
<1>12. begin \in Int /\ e.timestamp = at - begin
  BY <1>3
<1>13. Dtmf!EventEnd(k) =
         CASE e.end -> known - begin
           [] ~e.end /\ k < Len(tones) /\ tones[k + 1].timestamp < longer - begin ->
                tones[k + 1].timestamp
           [] OTHER -> longer - begin
  BY <1>8, <1>9, Zenon DEF Dtmf!EventEnd
<1>14. Until(k) = IF ~e.end /\ k < Len(tones) /\ next < longer THEN next
                  ELSE IF e.end THEN known ELSE longer
  BY <1>4, <1>11 DEF Until
<1>15. known <= longer /\ known = at + e.duration
  BY <1>1, <1>4, <1>7
<1> HIDE DEF known, longer, begin, next, at, e, length
<1>16. CASE e.end
  <2>1. Dtmf!EventEnd(k) = known - begin /\ Until(k) = known /\ Due(e) = known
    BY <1>11, <1>13, <1>14, <1>16
  <2> QED
    BY <1>4, <1>7, <1>8, <1>12, <1>15, <2>1 DEF e, at, begin
<1>17. CASE ~e.end /\ k < Len(tones) /\ next < longer
  <2>1. tones[k + 1].timestamp = next - begin /\ tones[k + 1].timestamp < longer - begin
    BY <1>7, <1>10, <1>12, <1>17
  <2>2. Dtmf!EventEnd(k) = next - begin /\ Until(k) = next /\ Due(e) = longer
    BY <1>11, <1>13, <1>14, <1>17, <2>1
  <2>3. /\ tones[k + 1].timestamp \in 0 .. ToneModulus - 1 /\ next \in Nat
        /\ at + length <= next
    BY <1>10, <1>17
  <2>4. Dtmf!EventEnd(k) \in 0 .. ToneModulus - 1
    BY <2>1, <2>2, <2>3
  <2>5. at + e.duration <= Until(k) /\ Until(k) <= Due(e) /\ Until(k) \in Nat
    BY <1>4, <1>7, <1>17, <2>2, <2>3
  <2>6. Dtmf!EventEnd(k) = Until(k) - begin
    BY <2>2
  <2> QED
    BY <1>4, <1>12, <1>17, <2>4, <2>5, <2>6 DEF e, at, begin
<1>18. CASE ~e.end /\ ~(k < Len(tones) /\ next < longer)
  <2>1. ~(k < Len(tones) /\ tones[k + 1].timestamp < longer - begin)
    BY <1>7, <1>10, <1>12, <1>18
  <2>2. Dtmf!EventEnd(k) = longer - begin /\ Until(k) = longer /\ Due(e) = longer
    BY <1>11, <1>13, <1>14, <1>18, <2>1
  <2> QED
    BY <1>4, <1>7, <1>9, <1>12, <1>15, <1>18, <2>2 DEF e, at, begin
<1> QED
  BY <1>4, <1>16, <1>17, <1>18

\* The events that GetEvent goes through, at timestamp n.
FirstFound(n) ==
  {k \in DOMAIN tones : Dtmf!Found(k, n) /\ \A j \in 1 .. k - 1 : ~Dtmf!Found(j, n)}
Gone(n) ==
  {k \in {i \in DOMAIN tones : \A j \in FirstFound(n) : i <= j} : Dtmf!Leaves(k, n)}

\* What GetEvent finds and what it keeps.
LEMMA WhatGetEventKeeps ==
  ASSUME TonesInv, NEW step \in ToneSteps, Dtmf!GetEvent(step)
  PROVE  LET n == Dtmf!Timestamp(tone_time + step)
         IN  /\ tone_time' = tone_time + step /\ tone_time' \in Nat
             /\ heard' = {tones[k].tone : k \in FirstFound(n)}
             /\ fresh' = fresh \ heard'
             /\ straddled' = (straddled \/ (tones # <<>>
                                 /\ Dtmf!Turn(tone_time') # Dtmf!Turn(tone_time)))
             /\ reach' = reach /\ open' = open
             /\ tones' \in Seq(ToneEvent) /\ InOrder(tones') /\ ToSet(tones') \subseteq ToSet(tones)
             /\ \A k \in 1 .. Len(tones) : tones[k] \in ToSet(tones') <=> k \notin Gone(n)
<1> DEFINE n == Dtmf!Timestamp(tone_time + step)
           S == {tones[k] : k \in DOMAIN tones \ Gone(n)}
<1>1. tones \in Seq(ToneEvent) /\ DOMAIN tones = 1 .. Len(tones) /\ InOrder(tones)
  BY DEF TonesInv, TonesTyped
<1>2. tone_time \in Nat /\ step \in Nat
  BY ToneAssumption DEF TonesInv, TonesTyped
<1>3. /\ tone_time' = tone_time + step
      /\ heard' = {tones[k].tone : k \in FirstFound(n)}
      /\ fresh' = fresh \ heard'
      /\ straddled' = (straddled \/ (tones # <<>>
                          /\ Dtmf!Turn(tone_time') # Dtmf!Turn(tone_time)))
      /\ reach' = reach /\ open' = open
      /\ tones' = Dtmf!Those(S, tones)
  BY Zenon DEF Dtmf!GetEvent, FirstFound, Gone
<1> HIDE DEF S, n
<1>4. Dtmf!Those(S, tones) = Those(S, tones)
  BY Zenon DEF Dtmf!Those, Those
<1>5. /\ tones' \in Seq(ToneEvent) /\ ToSet(tones') = ToSet(tones) \cap S
  BY <1>1, <1>3, <1>4, ThoseFound, ThoseMembers
<1>6. InOrder(tones')
  <2>1. PICK f : Finds(f, tones', S, tones, Len(tones))
    BY <1>1, <1>3, <1>4, ThoseFound
  <2> SUFFICES ASSUME NEW i \in 1 .. Len(tones'), NEW j \in 1 .. Len(tones'), i < j
               PROVE  tones'[i].tone < tones'[j].tone
    BY DEF InOrder
  <2>2. /\ f[i] \in 1 .. Len(tones) /\ f[j] \in 1 .. Len(tones) /\ f[i] < f[j]
        /\ tones'[i] = tones[f[i]] /\ tones'[j] = tones[f[j]]
    BY <2>1 DEF Finds
  <2> QED
    BY <1>1, <2>2 DEF InOrder
<1>7. ASSUME NEW k \in 1 .. Len(tones) PROVE tones[k] \in ToSet(tones') <=> k \notin Gone(n)
  <2>1. tones[k] \in ToSet(tones)
    BY <1>1, Members
  <2>2. k \notin Gone(n) => tones[k] \in S
    BY <1>1 DEF S
  <2>3. ASSUME tones[k] \in S PROVE k \notin Gone(n)
    <3>1. PICK j \in DOMAIN tones \ Gone(n) : tones[k] = tones[j]
      BY <2>3 DEF S
    <3>2. j = k
      BY <1>1, <3>1, OneEventEach
    <3> QED
      BY <3>1, <3>2
  <2> QED
    BY <1>5, <2>1, <2>2, <2>3
<1> QED
  BY <1>2, <1>3, <1>5, <1>6, <1>7 DEF n

\* Of the events found there is a first.
LEMMA FirstIsFound ==
  ASSUME TonesInv, NEW n, NEW k \in 1 .. Len(tones), Dtmf!Found(k, n)
  PROVE  FirstFound(n) # {}
<1> DEFINE F == {i \in 1 .. Len(tones) : Dtmf!Found(i, n)}
<1>1. Len(tones) \in Nat /\ DOMAIN tones = 1 .. Len(tones)
  BY DEF TonesInv, TonesTyped
<1>2. PICK i \in F : \A j \in F : i <= j
  <2>1. F \in SUBSET Nat /\ F # {}
    BY <1>1
  <2> HIDE DEF F
  <2> QED
    BY <2>1, Smallest
<1>3. \A j \in 1 .. i - 1 : ~Dtmf!Found(j, n)
  BY <1>1, <1>2
<1>4. i \in FirstFound(n)
  BY <1>1, <1>2, <1>3 DEF FirstFound
<1> QED
  BY <1>4

\* GetEvent compares the times of the events, when nothing meets the wrap.
LEMMA FrameInTurn ==
  ASSUME TonesInv, NEW step \in ToneSteps, Dtmf!GetEvent(step), ~straddled',
         NEW k \in 1 .. Len(tones)
  PROVE  LET n == Dtmf!Timestamp(tone_time + step)
             at == Tones[tones[k].tone].at
         IN  /\ Dtmf!Sounds(k, n) <=> at <= tone_time' /\ tone_time' <= Until(k)
             /\ Dtmf!Over(k, n) <=> Until(k) < tone_time'
             /\ Dtmf!Leaves(k, n) => \/ Until(k) < tone_time'
                                     \/ tones[k].end /\ Until(k) <= tone_time' + ToneFrame
<1> DEFINE n == Dtmf!Timestamp(tone_time + step)
           at == Tones[tones[k].tone].at
           begin == TurnBegins(tone_time)
           end == Dtmf!EventEnd(k)
           time == tone_time'
<1>1. /\ time = tone_time + step /\ time \in Nat /\ ~straddled
      /\ tones = <<>> \/ Dtmf!Turn(time) = Dtmf!Turn(tone_time)
  BY WhatGetEventKeeps
<1>2. tones # <<>> /\ tone_time \in Nat /\ ToneFrame \in Nat /\ ToneModulus \in Nat \ {0}
  BY ToneAssumption DEF TonesInv, TonesTyped
<1>3. n = time - begin /\ begin \in Int /\ n \in 0 .. ToneModulus - 1
  <2>1. Dtmf!Turn(time) = Dtmf!Turn(tone_time)
    BY <1>1, <1>2
  <2> HIDE DEF time
  <2>2. Dtmf!Timestamp(time) = time - begin /\ begin \in Int
    BY <1>1, <1>2, <2>1, InOneTurn
  <2>3. Dtmf!Timestamp(time) \in 0 .. ToneModulus - 1
    BY <1>1, TurnAndTimestamp
  <2>4. n = Dtmf!Timestamp(time)
    BY <1>1
  <2> QED
    BY <2>2, <2>3, <2>4
<1>4. /\ tones[k].timestamp = at - begin /\ end = Until(k) - begin
      /\ end \in 0 .. ToneModulus - 1 /\ at \in Nat /\ Until(k) \in Nat
  BY <1>1, EventsInTurn
<1> HIDE DEF n, begin, end, at, time
<1>5. Dtmf!Sounds(k, n) <=> tones[k].timestamp <= n /\ n <= end
  BY Zenon DEF Dtmf!Sounds, end
<1>6. Dtmf!Over(k, n) <=> n > end
  BY Zenon DEF Dtmf!Over, end
<1>7. Dtmf!Sounds(k, n) <=> at <= time /\ time <= Until(k)
  BY <1>1, <1>3, <1>4, <1>5
<1>8. Dtmf!Over(k, n) <=> Until(k) < time
  BY <1>1, <1>3, <1>4, <1>6
<1>9. ASSUME Dtmf!Leaves(k, n), ~Dtmf!Over(k, n)
      PROVE  tones[k].end /\ Until(k) <= time + ToneFrame
  <2>1. tones[k].end /\ (n + ToneFrame) % ToneModulus >= end
    BY <1>9, Zenon DEF Dtmf!Leaves, end
  <2>2. CASE n + ToneFrame < ToneModulus
    <3> DEFINE x == n + ToneFrame
    <3>1. x \in 0 .. ToneModulus - 1
      BY <1>2, <1>3, <2>2
    <3> HIDE DEF x
    <3>2. x % ToneModulus = x
      BY <1>2, <3>1
    <3>3. end <= n + ToneFrame
      BY <2>1, <3>1, <3>2, <1>4 DEF x
    <3> QED
      BY <1>1, <1>2, <1>3, <1>4, <2>1, <3>3
  <2>3. CASE ~(n + ToneFrame < ToneModulus)
    <3>1. end <= n + ToneFrame
      BY <1>2, <1>3, <1>4, <2>3
    <3>2. Until(k) = end + begin /\ time = n + begin /\ end \in Int /\ n \in Int
      BY <1>1, <1>3, <1>4
    <3>3. Until(k) <= time + ToneFrame
      BY <1>2, <1>3, <3>1, <3>2
    <3> QED
      BY <2>1, <3>3
  <2> QED
    BY <2>2, <2>3
<1> QED
  BY <1>7, <1>8, <1>9 DEF n, at, time

\* An event that is kept sounds, or another is heard.
LEMMA KeptIsAwaited ==
  ASSUME TonesInv, NEW step \in ToneSteps, Dtmf!GetEvent(step), ~straddled',
         NEW k \in 1 .. Len(tones), tones[k] \in ToSet(tones'), heard' \ {tones[k].tone} = {}
  PROVE  tone_time' <= Due(tones[k])
<1> DEFINE n == Dtmf!Timestamp(tone_time + step)
<1>1. /\ heard' = {tones[i].tone : i \in FirstFound(n)} /\ k \notin Gone(n)
      /\ ~straddled /\ tone_time' \in Nat
  BY WhatGetEventKeeps
<1>2. tones \in Seq(ToneEvent) /\ DOMAIN tones = 1 .. Len(tones) /\ InOrder(tones)
  BY DEF TonesInv, TonesTyped
<1> HIDE DEF n
<1>3. \A j \in FirstFound(n) : j = k
  <2> SUFFICES ASSUME NEW j \in FirstFound(n) PROVE j = k
    OBVIOUS
  <2>1. tones[j].tone = tones[k].tone /\ j \in 1 .. Len(tones)
    BY <1>1, <1>2 DEF FirstFound
  <2> QED
    BY <1>2, <2>1, OneEventEach
<1>4. ~Dtmf!Leaves(k, n)
  BY <1>1, <1>2, <1>3 DEF Gone
<1>5. ~Dtmf!Over(k, n)
  BY <1>4 DEF Dtmf!Leaves
<1>6. Dtmf!Over(k, n) <=> Until(k) < tone_time'
  BY FrameInTurn DEF n
<1>7. Until(k) \in Nat /\ Until(k) <= Due(tones[k])
  BY <1>1, EventsInTurn
<1>8. Due(tones[k]) \in Int
  <2>1. tones[k] \in ToneEvent
    BY <1>2
  <2>2. /\ tones[k].tone \in Dtmf!Tone /\ tones[k].duration \in Nat
        /\ tones[k].end \in BOOLEAN
    BY <2>1 DEF ToneEvent
  <2>3. Tones[tones[k].tone].at \in Nat /\ Extrapolation \in Nat
    BY <2>2, ToneFacts, ToneAssumption
  <2> QED
    BY <2>2, <2>3 DEF Due
<1> QED
  BY <1>1, <1>5, <1>6, <1>7, <1>8

\* An event that tells all that was received of its tone is kept, and sounds,
\* until the last frame of the tone.
LEMMA ToldIsKept ==
  ASSUME TonesInv, NEW step \in ToneSteps, Dtmf!GetEvent(step), ~straddled',
         NEW i \in Dtmf!Tone, reach[i] # 0, tone_time' + ToneFrame < Tones[i].at + reach[i]
  PROVE  \E k \in 1 .. Len(tones) :
           /\ tones[k].tone = i /\ tones[k].duration = reach[i]
           /\ tones[k] \in ToSet(tones')
           /\ Tones[i].at <= tone_time' => heard' # {}
<1> DEFINE n == Dtmf!Timestamp(tone_time + step)
<1>1. /\ tone_time' = tone_time + step /\ tone_time' \in Nat /\ ~straddled
      /\ heard' = {tones[k].tone : k \in FirstFound(n)}
      /\ \A k \in 1 .. Len(tones) : tones[k] \in ToSet(tones') <=> k \notin Gone(n)
  BY WhatGetEventKeeps
<1>2. /\ tones \in Seq(ToneEvent) /\ tone_time \in Nat /\ step \in Nat /\ ToneFrame \in Nat
      /\ reach[i] \in Nat /\ Tones[i].at \in Nat
  BY ToneAssumption, ToneFacts DEF TonesInv, TonesTyped
<1>3. PICK e \in ToSet(tones) : e.tone = i /\ e.duration = reach[i]
  <2>1. AllTold(i)
    BY <1>1 DEF TonesInv
  <2>2. ~(tone_time + ToneFrame >= Tones[i].at + reach[i])
    BY <1>1, <1>2
  <2> QED
    BY <2>1, <2>2 DEF AllTold
<1>4. PICK k \in 1 .. Len(tones) : e = tones[k]
  BY <1>2, Members
<1>5. /\ Tones[i].at + reach[i] <= Until(k) /\ Until(k) \in Nat
      /\ tones[k].end => Until(k) = Tones[i].at + reach[i]
  BY <1>1, <1>3, <1>4, EventsInTurn
<1>6. /\ Dtmf!Sounds(k, n) <=> Tones[i].at <= tone_time' /\ tone_time' <= Until(k)
      /\ Dtmf!Leaves(k, n) => \/ Until(k) < tone_time'
                              \/ tones[k].end /\ Until(k) <= tone_time' + ToneFrame
  BY <1>3, <1>4, FrameInTurn
<1> HIDE DEF n
<1>7. ~(Until(k) < tone_time') /\ ~(tones[k].end /\ Until(k) <= tone_time' + ToneFrame)
  BY <1>1, <1>2, <1>5
<1>8. k \notin Gone(n)
  BY <1>6, <1>7 DEF Gone
<1>9. ASSUME Tones[i].at <= tone_time' PROVE heard' # {}
  <2>1. Dtmf!Sounds(k, n)
    BY <1>1, <1>5, <1>6, <1>7, <1>9
  <2>2. FirstFound(n) # {}
    BY <2>1, FirstIsFound DEF Dtmf!Found
  <2> QED
    BY <1>1, <2>2
<1> QED
  BY <1>1, <1>3, <1>4, <1>8, <1>9

\* A frame keeps the list of tones true.
LEMMA GetKeepsTones ==
  ASSUME TonesInv, NEW step \in ToneSteps, Dtmf!GetEvent(step)
  PROVE  TonesInv'
<1> DEFINE n == Dtmf!Timestamp(tone_time + step)
<1>1. /\ tone_time' = tone_time + step /\ tone_time' \in Nat
      /\ heard' = {tones[k].tone : k \in FirstFound(n)}
      /\ fresh' = fresh \ heard'
      /\ straddled' = (straddled \/ (tones # <<>>
                          /\ Dtmf!Turn(tone_time') # Dtmf!Turn(tone_time)))
      /\ reach' = reach /\ open' = open
      /\ tones' \in Seq(ToneEvent) /\ InOrder(tones') /\ ToSet(tones') \subseteq ToSet(tones)
  BY WhatGetEventKeeps
<1> HIDE DEF n
<1>2. /\ TonesTyped /\ tones \in Seq(ToneEvent) /\ DOMAIN tones = 1 .. Len(tones)
      /\ \A e \in ToSet(tones) : Written(e)
  BY DEF TonesInv, TonesTyped
<1>3. TonesTyped'
  <2>1. heard' \subseteq Dtmf!Tone
    <3> SUFFICES ASSUME NEW k \in FirstFound(n) PROVE tones[k].tone \in Dtmf!Tone
      BY <1>1
    <3>1. tones[k] \in ToneEvent
      BY <1>2 DEF FirstFound
    <3> QED
      BY <3>1 DEF ToneEvent
  <2>2. straddled' \in BOOLEAN
    BY <1>1
  <2> QED
    BY <1>1, <1>2, <2>1, <2>2 DEF TonesTyped
<1>4. \A e \in ToSet(tones') : Written(e)'
  BY <1>1, <1>2 DEF Written, OfItsTone
<1>5. ASSUME ~straddled', NEW e \in ToSet(tones') PROVE InTurn(e)' /\ Awaited(e)'
  <2>1. PICK k \in 1 .. Len(tones) : e = tones[k]
    BY <1>1, <1>2, Members
  <2>2. ~straddled /\ InTurn(e)
    BY <1>1, <1>5 DEF TonesInv
  <2>3. Dtmf!Turn(tone_time') = Dtmf!Turn(tone_time)
    <3>1. tones # <<>>
      BY <2>1
    <3> QED
      BY <1>1, <1>5, <3>1
  <2>4. InTurn(e)'
    BY <2>2, <2>3 DEF InTurn, Dtmf!Turn
  <2>5. CASE heard' \ {e.tone} # {}
    BY <2>4, <2>5 DEF Awaited
  <2>6. CASE heard' \ {e.tone} = {}
    <3>1. tone_time' <= Due(e)
      BY <1>5, <2>1, <2>6, KeptIsAwaited
    <3> QED
      BY <2>4, <3>1 DEF Awaited, Due
  <2> QED
    BY <2>5, <2>6
<1>6. ASSUME ~straddled', NEW i \in Dtmf!Tone PROVE AllTold(i)'
  <2>1. CASE reach[i] = 0 \/ ~(tone_time' + ToneFrame < Tones[i].at + reach[i])
    <3>1. /\ reach[i] \in Nat /\ Tones[i].at \in Nat /\ ToneFrame \in Nat
      BY <1>2, ToneFacts, ToneAssumption DEF TonesTyped
    <3> QED
      BY <1>1, <2>1, <3>1 DEF AllTold
  <2>2. CASE ~(reach[i] = 0 \/ ~(tone_time' + ToneFrame < Tones[i].at + reach[i]))
    <3>1. \E e \in ToSet(tones') : e.tone = i /\ e.duration = reach[i]
      BY <1>6, <2>2, ToldIsKept
    <3> QED
      BY <1>1, <3>1 DEF AllTold
  <2> QED
    BY <2>1, <2>2
<1> QED
  BY <1>1, <1>3, <1>4, <1>5, <1>6 DEF TonesInv

\* A list without events, of a stream of which nothing was received.
LEMMA NoTones ==
  ASSUME tones = <<>>, tone_time \in Nat, heard = {}, reach = [i \in Dtmf!Tone |-> 0],
         straddled = FALSE
  PROVE  TonesInv
<1>1. tones \in Seq(ToneEvent) /\ Len(tones) = 0
  OBVIOUS
<1>2. ToSet(tones) = {}
  <2>1. DOMAIN tones = {}
    OBVIOUS
  <2> QED
    BY <2>1, Zenon DEF ToSet
<1>3. reach \in [Dtmf!Tone -> Nat] /\ \A i \in Dtmf!Tone : reach[i] <= Tones[i].length
  <2>1. \A i \in Dtmf!Tone : Tones[i].length \in Nat
    BY ToneFacts
  <2> QED
    BY <2>1
<1>4. TonesTyped
  BY <1>1, <1>3 DEF TonesTyped
<1>5. InOrder(tones)
  BY <1>1 DEF InOrder
<1>6. \A i \in Dtmf!Tone : AllTold(i)
  BY DEF AllTold
<1> QED
  BY <1>2, <1>4, <1>5, <1>6 DEF TonesInv

LEMMA TonesInvariant == Dtmf!Spec => []TonesInv
<1>1. ASSUME Dtmf!Init PROVE TonesInv
  <2>1. /\ tones = <<>> /\ tone_time \in Nat /\ heard = {}
        /\ reach = [i \in Dtmf!Tone |-> 0] /\ straddled = FALSE
    BY <1>1 DEF Dtmf!Init
  <2> QED
    BY <2>1, NoTones
<1>2. ASSUME TonesInv, [Dtmf!Next]_Dtmf!vars PROVE TonesInv'
  <2>1. ASSUME NEW i \in Dtmf!Tone, NEW duration \in 1 .. Tones[i].length,
               Dtmf!InsertEvent(i, duration)
        PROVE  TonesInv'
    BY <1>2, <2>1, InsertKeepsTones
  <2>2. ASSUME NEW step \in ToneSteps, Dtmf!GetEvent(step) PROVE TonesInv'
    BY <1>2, <2>2, GetKeepsTones
  <2>3. CASE Dtmf!Flush
    <3>1. /\ tones' = <<>> /\ tone_time' \in Nat /\ heard' = {}
          /\ reach' = [i \in Dtmf!Tone |-> 0] /\ straddled' = FALSE
      BY <1>2, <2>3 DEF Dtmf!Flush, TonesInv, TonesTyped
    <3>2. (tones = <<>> /\ tone_time \in Nat /\ heard = {} /\ reach = [i \in Dtmf!Tone |-> 0]
             /\ straddled = FALSE => TonesInv)'
      BY NoTones, PTL
    <3> QED
      BY <3>1, <3>2
  <2>4. CASE UNCHANGED Dtmf!vars
    BY <1>2, <2>4 DEF Dtmf!vars, TonesInv, TonesTyped, InOrder, Written, OfItsTone, InTurn,
                      Awaited, Due, AllTold, ToSet
  <2> QED
    BY <1>2, <2>1, <2>2, <2>3, <2>4 DEF Dtmf!Next
<1> QED
  BY <1>1, <1>2, PTL DEF Dtmf!Spec

\* For all tones that are sent one by one, for every length of a frame and of
\* the extrapolation, and however the packets are lost, repeated and reordered:
\* GetEvent of dtmf_buffer.cc lets tones sound in their time and without a gap,
\* but for those that meet the wrap of the timestamps.
THEOREM TonesSoundInTime == Dtmf!Spec => ToneInTime
<1>1. ASSUME TonesInv, [Dtmf!Next]_Dtmf!vars, tone_time' # tone_time, ~straddled'
      PROVE  /\ \A i \in heard' :
                  /\ Tones[i].at <= tone_time'
                  /\ \/ tone_time <= Tones[i].at + reach[i]
                                       + IF i \in open THEN Extrapolation ELSE 0
                     \/ i \in fresh \/ heard \ {i} # {}
             /\ \A i \in Dtmf!Tone :
                  Tones[i].at <= tone_time' /\ tone_time' + ToneFrame < Tones[i].at + reach[i]
                    => heard' # {}
  <2>1. PICK step \in ToneSteps : Dtmf!GetEvent(step)
    BY <1>1 DEF Dtmf!Next, Dtmf!vars, Dtmf!InsertEvent, Dtmf!Flush
  <2> DEFINE n == Dtmf!Timestamp(tone_time + step)
  <2>2. /\ heard' = {tones[k].tone : k \in FirstFound(n)}
        /\ tone_time' \in Nat /\ ~straddled
    BY <1>1, <2>1, WhatGetEventKeeps
  <2>3. ASSUME NEW i \in heard'
        PROVE  /\ Tones[i].at <= tone_time'
               /\ \/ tone_time <= Tones[i].at + reach[i]
                                    + IF i \in open THEN Extrapolation ELSE 0
                  \/ i \in fresh \/ heard \ {i} # {}
    <3>1. PICK k \in 1 .. Len(tones) : tones[k].tone = i /\ Dtmf!Found(k, n)
      <4>1. DOMAIN tones = 1 .. Len(tones)
        BY <1>1 DEF TonesInv, TonesTyped
      <4> HIDE DEF n
      <4> QED
        BY <2>2, <4>1 DEF FirstFound
    <3>2. /\ Dtmf!Sounds(k, n) => Tones[i].at <= tone_time'
          /\ Dtmf!Over(k, n) => Until(k) < tone_time'
      BY <1>1, <2>1, <3>1, FrameInTurn
    <3>3. /\ Tones[i].at \in Nat /\ Until(k) \in Nat /\ tones[k].duration \in Nat
          /\ Tones[i].at + tones[k].duration <= Until(k)
      BY <1>1, <2>2, <3>1, EventsInTurn
    <3> HIDE DEF n
    <3>4. Tones[i].at <= tone_time'
      BY <2>2, <3>1, <3>2, <3>3 DEF Dtmf!Found
    <3>5. tones[k] \in ToSet(tones) /\ tones[k] \in ToneEvent
      BY <1>1, Members DEF TonesInv, TonesTyped
    <3>6. Awaited(tones[k]) /\ Written(tones[k])
      BY <1>1, <2>2, <3>5 DEF TonesInv
    <3>7. /\ reach[i] \in Nat /\ tone_time \in Nat /\ Extrapolation \in Nat
          /\ tones[k].end \in BOOLEAN
      BY <1>1, <3>1, <3>5, ToneAssumption DEF TonesInv, TonesTyped, ToneEvent
    <3>8. /\ tones[k].duration <= reach[i]
          /\ ~tones[k].end => i \in open
      BY <3>1, <3>6 DEF Written
    <3>9. Due(tones[k]) <= Tones[i].at + reach[i] + IF i \in open THEN Extrapolation ELSE 0
      BY <3>1, <3>3, <3>7, <3>8 DEF Due
    <3>10. Due(tones[k]) \in Int
      BY <3>1, <3>3, <3>7 DEF Due
    <3>11. ASSUME tone_time <= Due(tones[k])
           PROVE  tone_time <= Tones[i].at + reach[i]
                                 + IF i \in open THEN Extrapolation ELSE 0
      BY <3>3, <3>7, <3>9, <3>10, <3>11
    <3> QED
      BY <3>1, <3>4, <3>6, <3>11 DEF Awaited
  <2>4. ASSUME NEW i \in Dtmf!Tone, Tones[i].at <= tone_time',
               tone_time' + ToneFrame < Tones[i].at + reach[i]
        PROVE  heard' # {}
    <3>1. reach[i] # 0
      <4>1. reach[i] \in Nat /\ Tones[i].at \in Nat /\ ToneFrame \in Nat
        BY <1>1, ToneFacts, ToneAssumption DEF TonesInv, TonesTyped
      <4> QED
        BY <2>2, <2>4, <4>1
    <3> QED
      BY <1>1, <2>1, <2>4, <3>1, ToldIsKept
  <2> QED
    BY <2>3, <2>4
<1>2. ASSUME TonesInv, [Dtmf!Next]_Dtmf!vars
      PROVE  [tone_time' # tone_time /\ ~straddled' =>
                /\ \A i \in heard' :
                     /\ Tones[i].at <= tone_time'
                     /\ \/ tone_time <= Tones[i].at + reach[i]
                                          + IF i \in open THEN Extrapolation ELSE 0
                        \/ i \in fresh \/ heard \ {i} # {}
                /\ \A i \in Dtmf!Tone :
                     Tones[i].at <= tone_time'
                       /\ tone_time' + ToneFrame < Tones[i].at + reach[i]
                       => heard' # {}]_Dtmf!vars
  BY <1>1, <1>2
<1> QED
  BY <1>2, TonesInvariant, PTL DEF Dtmf!Spec, ToneInTime, Dtmf!ToneInTime
=============================================================================
