---------------------------- MODULE NackTracker ----------------------------
(***************************************************************************)
(* neteq/nack_tracker.cc: the list of packets worth requesting again.      *)
(*                                                                         *)
(* Sequence numbers and timestamps wrap; HalfSeq and HalfTs are half their *)
(* moduli (2^15 and 2^31 in the code).  nack_list_ is a std::map ordered   *)
(* by IsNewerSequenceNumber; it is a function here, and "the beginning of  *)
(* the list" is computed from that order as the code's iterators do.       *)
(*                                                                         *)
(* The caller is NetEqImpl: it reports every packet received, and packets  *)
(* taken from its packet buffer for decoding.  received and the two ext_   *)
(* variables are history variables: what the caller has received recently, *)
(* and the numbers of the newest and of the last decoded packet counted    *)
(* without wrapping.  No guard but the caller's reads them.                *)
(***************************************************************************)
EXTENDS SerialNumbers, FiniteSets

CONSTANTS
  HalfSeq, HalfTs,  \* half the modulus of sequence numbers and timestamps
  Threshold,        \* nack_threshold_packets_
  SizeLimit,        \* kNackListSizeLimit
  DefaultRate,      \* kDefaultSampleRateKhz
  Rates,            \* the sample rates (kHz) of the codecs in use
  Stream,           \* the packets the sender can send, [seq, ts]
  MaxLag,           \* how many numbers behind the newest packet the packet
                    \* buffer still holds a packet to decode
  PacketSpan,       \* the samples of a packet, decoded in pieces of 10 ms
  MaxExt            \* bound on the unwrapped numbers

ASSUME ModuliAssumption == HalfSeq \in Nat \ {0} /\ HalfTs \in Nat \ {0}
ASSUME ThresholdAssumption == Threshold \in Nat
ASSUME SizeLimitAssumption == SizeLimit \in Nat \ {0}
ASSUME RateAssumption ==
  \A rate \in Rates \cup {DefaultRate} : rate \in Nat \ {0} /\ rate * 10 < HalfTs
ASSUME StreamAssumption ==
  Stream \subseteq [seq : Serial(HalfSeq), ts : Serial(HalfTs)]
ASSUME LagAssumption == MaxLag \in Nat /\ PacketSpan \in Nat
\* The list, the threshold and the lag are small beside the half circle
\* (500, 2 and a packet buffer's length beside 32768).
ASSUME WindowAssumption ==
  2 * SizeLimit + Threshold < HalfSeq /\ SizeLimit + MaxLag < HalfSeq

VARIABLES
  sequence_num_last_received_rtp, timestamp_last_received_rtp,
  any_rtp_received,
  sequence_num_last_decoded_rtp, timestamp_last_decoded_rtp,
  any_rtp_decoded,
  sample_rate_khz, samples_per_packet,
  nack_list, max_nack_list_size,
  received,                    \* history: packets received, MaxLag back
  ext_received, ext_decoded    \* history: unwrapped numbers

receivedVars == <<sequence_num_last_received_rtp, timestamp_last_received_rtp,
                  any_rtp_received>>
decodedVars == <<sequence_num_last_decoded_rtp, timestamp_last_decoded_rtp,
                 any_rtp_decoded>>
vars == <<receivedVars, decodedVars, sample_rate_khz, samples_per_packet,
          nack_list, max_nack_list_size, received, ext_received, ext_decoded>>

Seqs == Serial(HalfSeq)
NewerSeq(v, p) == IsNewer(v, p, HalfSeq)
SeqMinus(v, p) == Minus(v, p, HalfSeq)
NackElement == [time_to_play_ms : Int, estimated_timestamp : Serial(HalfTs),
                is_missing : BOOLEAN]

kDefaultPacketSizeMs == 20

EmptyList == [k \in {} |-> 0]
Keep(list, keys) == [k \in keys |-> list[k]]

TimeToPlay(timestamp, decoded, rate) ==
  Minus(timestamp, decoded, HalfTs) \div rate

Init ==
  /\ sequence_num_last_received_rtp = 0
  /\ timestamp_last_received_rtp = 0
  /\ any_rtp_received = FALSE
  /\ sequence_num_last_decoded_rtp = 0
  /\ timestamp_last_decoded_rtp = 0
  /\ any_rtp_decoded = FALSE
  /\ sample_rate_khz = DefaultRate
  /\ samples_per_packet = DefaultRate * kDefaultPacketSizeMs
  /\ nack_list = EmptyList
  /\ max_nack_list_size = SizeLimit
  /\ received = {}
  /\ ext_received = 0
  /\ ext_decoded = 0

-----------------------------------------------------------------------------
(* UpdateLastReceivedPacket and the steps it is made of. *)

\* Mutants of the steps below.
LimitedNever(keys, newest, max) == keys

BeforeLowerBoundLate(keys, bound) == {{k \in keys : NewerSeq(SeqMinus(bound, 1), k)}}

\* LimitNackListSize: upper_bound of the number max + 1 behind the newest one;
\* what is up to it leaves the list.
Limited(keys, newest, max) ==
  LET limit == SeqMinus(SeqMinus(newest, max), 1)
  IN  {k \in keys : NewerSeq(k, limit)}

\* ChangeFromLateToMissing: the elements before lower_bound(bound).  The map
\* is searched by its own order; if the elements older than bound are not a
\* beginning of the list the search may stop anywhere.
BeforeLowerBound(keys, bound) ==
  LET older == {k \in keys : NewerSeq(bound, k)}
      IsBeginning(S) == \A j \in S, k \in keys : NewerSeq(j, k) => k \in S
  IN  IF IsBeginning(older) THEN {older}
                            ELSE {S \in SUBSET keys : IsBeginning(S)}

\* EstimateTimestamp, with the numbers and rate of the last received packet.
EstimateTimestamp(n, spp) ==
  (SeqMinus(n, sequence_num_last_received_rtp) * spp
     + timestamp_last_received_rtp) % (2 * HalfTs)

\* The numbers AddToList runs over, from the one after the last received up
\* to the one before the current packet.
Skipped(current) ==
  {n \in Seqs : /\ NewerSeq(current, n)
                /\ NewerSeq(n, sequence_num_last_received_rtp)}

NewElement(n, current, spp) ==
  LET ts == EstimateTimestamp(n, spp)
  IN  [time_to_play_ms |->
         TimeToPlay(ts, timestamp_last_decoded_rtp, sample_rate_khz),
       estimated_timestamp |-> ts,
       is_missing |-> NewerSeq(SeqMinus(current, Threshold), n)]

\* The list after packet p, the newest so far: late elements become missing,
\* the skipped numbers enter, and the list is cut to its limit.
ListAfter(p, known, missing) ==
  LET spp == Minus(p.ts, timestamp_last_received_rtp, HalfTs)
               \div SeqMinus(p.seq, sequence_num_last_received_rtp)
      kept == Limited(known \cup Skipped(p.seq), p.seq, max_nack_list_size)
  IN  [k \in kept |-> IF k \in known
                        THEN [nack_list[k] EXCEPT !.is_missing =
                                @ \/ k \in missing]
                        ELSE NewElement(k, p.seq, spp)]

UpdateFirst(p) ==
  /\ ~any_rtp_received
  /\ sequence_num_last_received_rtp' = p.seq
  /\ timestamp_last_received_rtp' = p.ts
  /\ any_rtp_received' = TRUE
  /\ IF any_rtp_decoded
       THEN UNCHANGED decodedVars
       ELSE /\ sequence_num_last_decoded_rtp' = p.seq
            /\ timestamp_last_decoded_rtp' = p.ts
            /\ UNCHANGED any_rtp_decoded
  /\ received' = {p}
  /\ ext_received' = p.seq
  /\ ext_decoded' = p.seq
  /\ UNCHANGED <<samples_per_packet, nack_list>>

UpdateSame(p) ==
  /\ any_rtp_received
  /\ p.seq = sequence_num_last_received_rtp
  /\ UNCHANGED <<receivedVars, decodedVars, samples_per_packet, nack_list,
                 received, ext_received, ext_decoded>>

\* Mutant: an old packet returns before its number is erased.
UpdateOlderNoErase(p) ==
  /\ any_rtp_received
  /\ NewerSeq(sequence_num_last_received_rtp, p.seq)
  /\ received' = IF SeqMinus(sequence_num_last_received_rtp, p.seq) <= MaxLag
                   THEN received \cup {p} ELSE received
  /\ UNCHANGED <<receivedVars, decodedVars, samples_per_packet, nack_list,
                 ext_received, ext_decoded>>

UpdateOlder(p) ==
  /\ any_rtp_received
  /\ NewerSeq(sequence_num_last_received_rtp, p.seq)
  /\ nack_list' = Keep(nack_list, DOMAIN nack_list \ {p.seq})
  /\ received' = IF SeqMinus(sequence_num_last_received_rtp, p.seq) <= MaxLag
                   THEN received \cup {p} ELSE received
  /\ UNCHANGED <<receivedVars, decodedVars, samples_per_packet,
                 ext_received, ext_decoded>>

UpdateNewer(p) ==
  /\ any_rtp_received
  /\ NewerSeq(p.seq, sequence_num_last_received_rtp)
  /\ LET known == DOMAIN nack_list \ {p.seq}
     IN  \E missing \in
             BeforeLowerBound(known, SeqMinus(p.seq, Threshold)) :
           nack_list' = ListAfter(p, known, missing)
  /\ samples_per_packet' = Minus(p.ts, timestamp_last_received_rtp, HalfTs)
                       \div SeqMinus(p.seq, sequence_num_last_received_rtp)
  /\ sequence_num_last_received_rtp' = p.seq
  /\ timestamp_last_received_rtp' = p.ts
  /\ received' = {r \in received : SeqMinus(p.seq, r.seq) <= MaxLag} \cup {p}
  /\ ext_received' = ext_received
                       + SeqMinus(p.seq, sequence_num_last_received_rtp)
  /\ ext_received' <= MaxExt
  /\ UNCHANGED <<any_rtp_received, decodedVars, ext_decoded>>

UpdateLastReceivedPacket(p) ==
  /\ UpdateFirst(p) \/ UpdateSame(p) \/ UpdateOlder(p) \/ UpdateNewer(p)
  /\ UNCHANGED <<sample_rate_khz, max_nack_list_size>>

-----------------------------------------------------------------------------
(* UpdateLastDecodedPacket: p is a packet of the packet buffer. *)

\* Mutant: lower_bound in place of upper_bound, and times left alone.
DecodeNextKeepsOld(p) ==
  /\ \/ NewerSeq(p.seq, sequence_num_last_decoded_rtp)
     \/ ~any_rtp_decoded
  /\ sequence_num_last_decoded_rtp' = p.seq
  /\ timestamp_last_decoded_rtp' = p.ts
  /\ ext_decoded' = ext_received
                      - SeqMinus(sequence_num_last_received_rtp, p.seq)
  /\ UNCHANGED nack_list

\* A packet newer than the last decoded one: everything up to it is useless.
DecodeNext(p) ==
  /\ \/ NewerSeq(p.seq, sequence_num_last_decoded_rtp)
     \/ ~any_rtp_decoded
  /\ sequence_num_last_decoded_rtp' = p.seq
  /\ timestamp_last_decoded_rtp' = p.ts
  /\ nack_list' =
       [k \in {k \in DOMAIN nack_list : NewerSeq(k, p.seq)} |->
          [nack_list[k] EXCEPT !.time_to_play_ms =
             TimeToPlay(nack_list[k].estimated_timestamp, p.ts,
                        sample_rate_khz)]]
  /\ ext_decoded' = ext_received
                      - SeqMinus(sequence_num_last_received_rtp, p.seq)

\* UpdateEstimatedPlayoutTimeBy10ms: elements at the beginning of the list
\* that play within 10 ms are dropped, up to the first one that does not; the
\* others come 10 ms closer.
OutOfTime ==
  {k \in DOMAIN nack_list :
     \A j \in DOMAIN nack_list :
        j = k \/ NewerSeq(k, j) => nack_list[j].time_to_play_ms <= 10}

\* Another piece of the packet decoded last, which was split on insertion.
DecodeSame(p) ==
  /\ any_rtp_decoded
  /\ p.seq = sequence_num_last_decoded_rtp
  /\ Minus(timestamp_last_decoded_rtp, p.ts, HalfTs) < PacketSpan
  /\ nack_list' = [k \in DOMAIN nack_list \ OutOfTime |->
                     [nack_list[k] EXCEPT !.time_to_play_ms = @ - 10]]
  /\ timestamp_last_decoded_rtp' =
       Plus(timestamp_last_decoded_rtp, sample_rate_khz * 10, HalfTs)
  /\ UNCHANGED <<sequence_num_last_decoded_rtp, ext_decoded>>

UpdateLastDecodedPacket(p) ==
  /\ p \in received
  /\ DecodeNext(p) \/ DecodeSame(p)
  /\ any_rtp_decoded' = TRUE
  /\ UNCHANGED <<receivedVars, sample_rate_khz, samples_per_packet,
                 max_nack_list_size, received, ext_received>>

-----------------------------------------------------------------------------
UpdateSampleRate(rate) ==
  /\ sample_rate_khz' = rate
  /\ UNCHANGED <<receivedVars, decodedVars, samples_per_packet, nack_list,
                 max_nack_list_size, received, ext_received, ext_decoded>>

SetMaxNackListSize(size) ==
  /\ max_nack_list_size' = size
  /\ nack_list' = Keep(nack_list, Limited(DOMAIN nack_list,
                         sequence_num_last_received_rtp, size))
  /\ UNCHANGED <<receivedVars, decodedVars, sample_rate_khz,
                 samples_per_packet, received, ext_received, ext_decoded>>

Reset ==
  /\ nack_list' = EmptyList
  /\ sequence_num_last_received_rtp' = 0
  /\ timestamp_last_received_rtp' = 0
  /\ any_rtp_received' = FALSE
  /\ sequence_num_last_decoded_rtp' = 0
  /\ timestamp_last_decoded_rtp' = 0
  /\ any_rtp_decoded' = FALSE
  /\ sample_rate_khz' = DefaultRate
  /\ samples_per_packet' = DefaultRate * kDefaultPacketSizeMs
  /\ received' = {}
  /\ ext_received' = 0
  /\ ext_decoded' = 0
  /\ UNCHANGED max_nack_list_size

Next ==
  \/ \E p \in Stream : UpdateLastReceivedPacket(p)
  \/ \E p \in Stream : UpdateLastDecodedPacket(p)
  \/ \E rate \in Rates : UpdateSampleRate(rate)
  \/ \E size \in 1 .. SizeLimit : SetMaxNackListSize(size)
  \/ Reset

Spec == Init /\ [][Next]_vars

-----------------------------------------------------------------------------
(***************************************************************************)
(* Properties                                                              *)
(***************************************************************************)
TypeOK ==
  /\ sequence_num_last_received_rtp \in Seqs
  /\ timestamp_last_received_rtp \in Serial(HalfTs)
  /\ any_rtp_received \in BOOLEAN
  /\ sequence_num_last_decoded_rtp \in Seqs
  /\ timestamp_last_decoded_rtp \in Serial(HalfTs)
  /\ any_rtp_decoded \in BOOLEAN
  /\ sample_rate_khz \in Rates \cup {DefaultRate}
  /\ samples_per_packet \in Nat
  /\ DOMAIN nack_list \subseteq Seqs
  /\ nack_list \in [DOMAIN nack_list -> NackElement]
  /\ max_nack_list_size \in 1 .. SizeLimit
  /\ received \subseteq Stream
  /\ ext_received \in Int
  /\ ext_decoded \in Int

\* How many numbers n lies behind the newest packet.
Age(n) == SeqMinus(sequence_num_last_received_rtp, n)

\* nack_list_ is a std::map whose Compare is IsNewerSequenceNumber, of which
\* its header says "Mustn't be used as std::map Compare function".  On the
\* numbers the list holds between two calls it is a strict total order all the
\* same, the order of age, wherever the list lies on the circle: lookups,
\* erase and the bounds find what they should.
KeysOrdered ==
  \A j, k \in DOMAIN nack_list : NewerSeq(k, j) <=> Age(j) > Age(k)

\* An element is missing, and so requested, exactly when a packet more than
\* the threshold ahead of it has been received; however the stream jumped, no
\* late element is requested and no missing one forgotten.
MissingIffLate ==
  \A k \in DOMAIN nack_list :
     nack_list[k].is_missing <=> Age(k) > Threshold

\* No packet that has been received is in the list, whatever the order,
\* repetition and loss: GetNackList never asks for what NetEq has.
ReceivedNotListed == \A p \in received : p.seq \notin DOMAIN nack_list

\* With wrapping numbers the tracker does what GapTracker does with numbers
\* that never wrap.
Gaps == INSTANCE GapTracker WITH
          started <- any_rtp_received,
          highest <- ext_received,
          played  <- ext_decoded,
          limit   <- max_nack_list_size,
          gaps    <- {ext_received - Age(k) : k \in DOMAIN nack_list}
GapSpec == Gaps!Spec

\* The assertion of AddToList: once a packet has been decoded, a packet that
\* leaves a gap is newer than the last decoded one.
AddToListAssertion ==
  [][any_rtp_received /\ ext_received' > ext_received + 1 /\ any_rtp_decoded
       => NewerSeq(sequence_num_last_received_rtp',
                   sequence_num_last_decoded_rtp)]_vars
=============================================================================
