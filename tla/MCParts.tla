------------------------------ MODULE MCParts ------------------------------
(* The parts of NetEq beside its core, the delay estimation of AEC3, the    *)
(* metrics and the H.264 packer, each on its own: a behaviour is one of the *)
(* part chosen at its beginning.  They share no state, so that behaviours   *)
(* of several at once would show no more.  The delay manager counts by      *)
(* relative delay with RTX, or by inter-arrival times without.              *)
EXTENDS MCPackets, MCAudio, MCCounters, MCDelays

VARIABLE part

P(s, d, k) == [seq |-> s, due |-> d, kind |-> k]
MCArriving == <<P(5, 18, "speech"), P(6, 19, "speech"), P(7, 20, "speech"), P(0, 21, "speech"),
                P(1, 22, "speech"), P(3, 24, "speech"), P(4, 25, "empty"), P(5, 25, "other"),
                P(6, 26, "speech")>>
MCConfigs == {[rtx |-> TRUE, relative |-> TRUE, experiment |-> FALSE],
              [rtx |-> FALSE, relative |-> FALSE, experiment |-> TRUE]}

manager == <<config, first_packet_received, last_seq_no, last_timestamp,
             packet_iat_stopwatch, num_reordered_packets, last_pack_cng_or_dtmf,
             packet_len, delay_history, buckets, forget_factor, target_level,
             minimum_delay, maximum_delay, base_minimum_delay, effective_minimum_delay,
             peaks, renewed, now, newest, arrivals, lateness>>
audio == <<vector, samples>>
sync == <<channel, next_index, dtmf_index, past, future, mark>>
counters == <<concealed_samples, concealed_samples_correction, voice_concealed_samples,
              voice_concealed_samples_correction, counter, timer, last_logged_value,
              sample_rate, ticks, rate, total, most, voice_total, voice_most, outages,
              reported>>
intake == <<numerator, denominator, scaler_received, external_ref, internal_ref,
            first_packet, streams, packets>>
dtmf == <<tones, tone_time, heard, reach, open, fresh, straddled>>
estimator == <<lag_histogram, histogram_data, histogram_data_index,
               significant_candidate_found, estimates, level, stability_counter,
               delay_samples, delay, last_quality, recent, support, drift>>
packer == <<sn, M, sink, units>>
metrics == <<enabled, called, map, histograms, atomic_histogram_pointer, pc, calls,
             collecting, added, collected, dropped>>

Parts == {"packets", "delays", "audio", "sync", "counters", "intake",
          "dtmf", "estimator", "packer", "metrics"}

MCInit ==
  /\ part \in Parts
  /\ Init
  /\ Delays!Init
  /\ Audio!Init /\ Sync!Init /\ Intake!Init /\ Dtmf!Init
  /\ Counters!Init /\ (part = "counters" \/ rate = 1)
  /\ EchoDelay!Init /\ Packer!Init /\ Counts!Init

\* Bounds: by relative delay the limits stay and packets have one length; by
\* inter-arrival times fewer arrive, and the limits stay after some.
Few ==
  LET LimitsStay == UNCHANGED <<minimum_delay, maximum_delay, base_minimum_delay>>
  IN  IF config.relative THEN LimitsStay ELSE arrivals < 6 /\ (arrivals < 5 \/ LimitsStay)

MCNext ==
  /\ UNCHANGED part
  /\ \/ part = "packets" /\ Next
     \/ part # "packets" /\ UNCHANGED vars
  /\ \/ part = "delays" /\ Few /\ Delays!Next /\ (config.relative => packet_len' < 2)
     \/ part # "delays" /\ UNCHANGED manager
  /\ \/ part = "audio" /\ Audio!Next
     \/ part # "audio" /\ UNCHANGED audio
  /\ \/ part = "sync" /\ Sync!Next
     \/ part # "sync" /\ UNCHANGED sync
  /\ \/ part = "counters" /\ Counters!Next
     \/ part # "counters" /\ UNCHANGED counters
  /\ \/ part = "intake" /\ Intake!Next
     \/ part # "intake" /\ UNCHANGED intake
  /\ \/ part = "dtmf" /\ Dtmf!Next
     \/ part # "dtmf" /\ UNCHANGED dtmf
  /\ \/ part = "estimator" /\ EchoDelay!Next
     \/ part # "estimator" /\ UNCHANGED estimator
  /\ \/ part = "packer" /\ Packer!Next
     \/ part # "packer" /\ UNCHANGED packer
  /\ \/ part = "metrics" /\ Counts!Next
     \/ part # "metrics" /\ UNCHANGED metrics

MCSpec ==
  MCInit /\ [][MCNext]_<<part, vars, manager, audio, sync, counters, intake, dtmf,
                         estimator, packer, metrics>>

\* The variables of every part keep their types, the buffer of packets and
\* the list of tones their sizes, and no order of calls leaves the delay
\* manager with a minimum above the maximum.
TypesOK ==
  /\ TypeOK
  /\ Delays!TypeOK /\ Audio!TypeOK /\ Sync!TypeOK /\ Counters!TypeOK /\ Intake!TypeOK
  /\ Dtmf!TypeOK /\ EchoDelay!TypeOK /\ Packer!TypeOK /\ Counts!TypeOK
=============================================================================
