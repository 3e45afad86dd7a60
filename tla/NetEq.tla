------------------------------- MODULE NetEq --------------------------------
(***************************************************************************)
(* neteq/neteq_impl.cc: packets enter through InsertPacket and leave       *)
(* through GetAudio, 10 ms of audio at a time; the application registers   *)
(* and removes payload types in between.  Every public method holds        *)
(* crit_sect_, so each is one step, and the calls of the receiving thread, *)
(* the audio thread and the application interleave freely.                 *)
(*                                                                         *)
(* Kept: the packet buffer, the registered types and the active decoder,   *)
(* the payload types the buffer is filled with, the flags and timestamps   *)
(* by which GetAudio steers, and the mode it was last in.  Left open: the  *)
(* buffer levels and delays DecisionLogic weighs (any choice its control   *)
(* flow allows may be made), whether enough decoded samples are left, and  *)
(* what a decoder returns.  Time is counted in packets; one packet holds   *)
(* the samples of one call of GetAudio.  DTMF is not modelled.             *)
(***************************************************************************)
EXTENDS PacketList

CONSTANTS
  Arrivals,       \* what InsertPacket can be called with: [at, pt, packets],
                  \* the time and type of the main packet, and the packets
                  \* RED splitting and parsing make of it, or none
  Horizon,        \* five seconds, in packets
  Lead, Lag,      \* how far an arrival is ahead of, or behind, the others
  Drift,          \* how far comfort noise of a codec may move the end of the
                  \* decoded signal away from the last packet decoded
  MaxRequired,    \* the samples GetAudio may want, in packets
  MaxNoise,       \* how long the stopwatch of the comfort noise may run
  StartRate,      \* the sample rate NetEq is created with
  Changeable      \* the payload types the application removes and registers

\* A redundant packet is from no longer ago than Lag, and what is late by that
\* is less than Horizon old.
ASSUME HorizonAssumption ==
  Horizon \in 2 .. HalfTs - 1 /\ 2 * Lag < Horizon
ASSUME ArrivalAssumption ==
  /\ Arrivals \subseteq [at : Nat, pt : DOMAIN Rate, packets : Seq(Packet)]
  /\ \A a \in Arrivals : \A p \in ToSet(a.packets) : a.at - p.at \in 0 .. Lag
ASSUME BoundAssumption ==
  /\ Lead \in Nat /\ Lag \in Nat /\ Lead + Lag < HalfTs - 1
  /\ 2 * Lag <= Lead /\ 2 * Lead < HalfTs
  /\ Drift \in Nat /\ Drift + Lag < HalfTs
  /\ MaxRequired \in Nat \ {0} /\ MaxNoise \in Nat
  /\ StartRate \in Nat \ {0}
  /\ Changeable \subseteq DOMAIN Rate
  /\ MaxPackets <= HalfTs

VARIABLES
  packet_buffer,
  registered,                 \* the payload types in decoder_database_
  active_decoder,             \* active_decoder_type_
  current_rtp_payload_type, current_cng_rtp_payload_type,
  first_packet, new_codec, timestamp, end_timestamp, fs,
  last_mode,                  \* Normal stands for all modes not named below
  cng_state,
  decoded                     \* history, see Heard

vars == <<packet_buffer, registered, active_decoder,
          current_rtp_payload_type, current_cng_rtp_payload_type,
          first_packet, new_codec, timestamp, end_timestamp, fs,
          last_mode, cng_state, decoded>>
types == <<current_rtp_payload_type, current_cng_rtp_payload_type>>

Mode == {"Normal", "Expand", "CodecPlc", "Rfc3389Cng", "InternalCng", "Error"}

IsComfortNoise(pt) == pt \in Comfort \cap registered
Newer(t, u) == IsNewer(t, u, HalfTs)

Init ==
  /\ packet_buffer = <<>>
  /\ registered = DOMAIN Rate
  /\ active_decoder = NoType
  /\ current_rtp_payload_type = NoType
  /\ current_cng_rtp_payload_type = NoType
  /\ first_packet = TRUE
  /\ new_codec = FALSE
  /\ timestamp = 0
  /\ end_timestamp = 0
  /\ fs = StartRate
  /\ last_mode = "Normal"
  /\ cng_state = "Off"
  /\ decoded = <<>>

-----------------------------------------------------------------------------
(* InsertPacketInternal *)

\* A sender whose clock runs on: an arrival is near what is held, and near
\* what was decoded last unless the stream starts over.
Timely(a) ==
  /\ \A p \in ToSet(packet_buffer) : a.at - p.at \in -Lag .. Lead
  /\ decoded # <<>> => a.at - Last(decoded) \in -Lag .. Lead
  /\ first_packet \/ new_codec
       \/ Minus(Plus(Ts(a.at), Lag, HalfTs), end_timestamp, HalfTs) <= Lag + Lead

\* The first packet of a stream empties the buffer and moves the end of the
\* decoded signal by the jump from the last timestamp.
Held == IF first_packet THEN <<>> ELSE packet_buffer
EndAtInsert(a) ==
  IF first_packet
    THEN Plus(end_timestamp, Minus(Ts(a.at), timestamp, HalfTs), HalfTs)
    ELSE end_timestamp
TimestampAtInsert(a) == IF first_packet THEN Ts(a.at) ELSE timestamp

\* A packet that cannot be split, parsed or told: nothing but the first
\* steps has happened.
RejectPacket(a) ==
  /\ packet_buffer' = Held
  /\ end_timestamp' = EndAtInsert(a)
  /\ timestamp' = TimestampAtInsert(a)
  /\ UNCHANGED <<registered, active_decoder, types, first_packet, new_codec,
                 fs, last_mode, cng_state, decoded>>

\* Mutant: a flushed buffer is not taken for a new codec.
AcceptQuietly(a, done) ==
  LET flushed == first_packet
      rate == IF flushed /\ done.buffer # <<>>
                THEN Rate[Head(done.buffer).pt] ELSE fs
  IN  /\ first_packet' = FALSE
      /\ new_codec' = (new_codec \/ flushed)
      /\ timestamp' = TimestampAtInsert(a)
      /\ end_timestamp' = IF rate = fs THEN EndAtInsert(a) ELSE 0
      /\ last_mode' = IF rate = fs THEN last_mode ELSE "Normal"
      /\ fs' = rate
      /\ decoded' = IF flushed THEN <<>> ELSE decoded

\* The packets are in the buffer.  After a flush NetEq takes the rate of the
\* packet that is next, with a new and empty sync buffer if that is another.
Accept(a, done) ==
  LET flushed == first_packet \/ done.flushed
      rate == IF flushed /\ done.buffer # <<>>
                THEN Rate[Head(done.buffer).pt] ELSE fs
  IN  /\ first_packet' = FALSE
      /\ new_codec' = (new_codec \/ flushed)
      /\ timestamp' = TimestampAtInsert(a)
      /\ end_timestamp' = IF rate = fs THEN EndAtInsert(a) ELSE 0
      /\ last_mode' = IF rate = fs THEN last_mode ELSE "Normal"
      /\ fs' = rate
      /\ decoded' = IF flushed THEN <<>> ELSE decoded

AcceptPacket(a) ==
  LET done == InsertPacketList(Held, a.packets, current_rtp_payload_type,
                               current_cng_rtp_payload_type, registered)
  IN  /\ {a.pt} \cup {p.pt : p \in ToSet(a.packets)} \subseteq registered
      /\ packet_buffer' = done.buffer
      /\ current_rtp_payload_type' = done.rtp
      /\ current_cng_rtp_payload_type' = done.cng
      /\ \/ done.result # "kInvalidPacket" /\ Accept(a, done)
         \/ /\ done.result = "kInvalidPacket"
            /\ timestamp' = TimestampAtInsert(a)
            /\ end_timestamp' = EndAtInsert(a)
            /\ UNCHANGED <<first_packet, new_codec, fs, last_mode, decoded>>
      /\ UNCHANGED <<registered, active_decoder, cng_state>>

InsertPacketInternal(a) ==
  /\ Timely(a)
  /\ AcceptPacket(a) \/ RejectPacket(a)

-----------------------------------------------------------------------------
(* GetDecision *)

\* A comfort noise packet that GetDecision drops unseen.  The timestamps are
\* compared as plain numbers.
CngPassed(p, noise) ==
  /\ IsComfortNoise(p.pt)
  /\ end_timestamp >= Ts(p.at) \/ end_timestamp + noise > Ts(p.at)

\* Mutant: only comfort noise is checked for its age.
FreshKeepsOld(noise) ==
  LET kept == SelectInSeq(packet_buffer, LAMBDA p : ~CngPassed(p, noise))
  IN  IF cng_state = "Rfc3389" \/ last_mode = "Rfc3389Cng"
        THEN IF kept = 0 THEN <<>>
             ELSE SubSeq(packet_buffer, kept, Len(packet_buffer))
        ELSE packet_buffer

\* The buffer when GetDecision looks at its first packet.
Fresh(noise) ==
  LET young == IF new_codec THEN packet_buffer
               ELSE DiscardOldPackets(packet_buffer, end_timestamp, Horizon)
      playing_cng == cng_state = "Rfc3389" \/ last_mode = "Rfc3389Cng"
      kept == SelectInSeq(young, LAMBDA p : ~CngPassed(p, noise))
  IN  CASE ~playing_cng -> young
        [] playing_cng /\ kept = 0 -> <<>>
        [] OTHER -> SubSeq(young, kept, Len(young))

\* DecisionLogic remembers that comfort noise is on.
CngState ==
  CASE last_mode = "Rfc3389Cng" -> "Rfc3389"
    [] last_mode = "InternalCng" -> "Internal"
    [] OTHER -> cng_state

NoPacketOperation ==
  CASE CngState = "Rfc3389" -> "Rfc3389CngNoPacket"
    [] CngState = "Internal" -> "CodecInternalCng"
    [] OTHER -> "Expand"

\* FuturePacketAvailable, for a speech packet p that is not the next one.  The
\* comparison with its timestamp is again one of plain numbers.
FutureOperations(p, noise) ==
  LET due == Plus(end_timestamp, noise, HalfTs) >= Ts(p.at)
  IN  CASE last_mode = "Expand"      -> {"Expand", "Merge"}
        [] last_mode = "CodecPlc"    -> {"Expand", "Normal"}
        [] last_mode = "Rfc3389Cng"  ->
             {"Normal"} \cup (IF due THEN {} ELSE {"Rfc3389CngNoPacket"})
        [] last_mode = "InternalCng" ->
             {"Normal"} \cup (IF due THEN {} ELSE {"CodecInternalCng"})
        [] OTHER -> {"Expand"}

\* The operations DecisionLogic::GetDecision can return when p is next.
PacketOperations(p, noise) ==
  CASE last_mode = "Error" -> {"Undefined"}
    [] last_mode # "Error" /\ IsComfortNoise(p.pt) ->
         {"Rfc3389Cng"} \cup
         IF /\ last_mode = "Rfc3389Cng"
            /\ Minus(Plus(end_timestamp, noise, HalfTs), Ts(p.at), HalfTs)
                 >= HalfTs
           THEN {"Rfc3389CngNoPacket"} ELSE {}
    [] OTHER ->
         UNION {IF last_mode \in {"Expand", "CodecPlc"}
                  THEN {"Expand", "Normal"}   \* waiting, or waited too long
                  ELSE {},
                CASE Ts(p.at) = end_timestamp ->
                       IF last_mode = "Expand" THEN {"Normal"}
                                               ELSE {"Normal", "Stretch"}
                  [] IsObsolete(Ts(p.at), end_timestamp, Horizon) ->
                       {"Undefined"}
                  [] OTHER -> FutureOperations(p, noise)}

Operations(buffer, noise) ==
  CASE buffer # <<>> -> PacketOperations(Head(buffer), noise)
    [] buffer = <<>> /\ last_mode = "Error" -> {"Expand"}
    [] OTHER -> {NoPacketOperation}

\* A new codec, or an undefined operation, starts over with packet p.
Restarts(op) == new_codec \/ op = "Undefined"
Restarted(op, p) ==
  CASE op = "Rfc3389Cng" -> op
    [] op = "Rfc3389CngNoPacket" /\ IsComfortNoise(p.pt) -> "Rfc3389Cng"
    [] OTHER -> "Normal"

-----------------------------------------------------------------------------
(* GetAudio, by what GetDecision comes to. *)

\* Enough decoded samples are left: nothing is taken from the buffer.
GetAudioLeft(buffer, op) ==
  /\ op \notin {"Merge", "Stretch"}
  /\ packet_buffer' = buffer
  /\ cng_state' = CngState
  /\ UNCHANGED <<new_codec, timestamp, end_timestamp, last_mode, fs,
                 active_decoder, decoded>>

\* "Packet missing where it shouldn't": a new codec and no packet of it.
GetAudioMissing(buffer, op) ==
  /\ Restarts(op)
  /\ buffer = <<>>
  /\ packet_buffer' = buffer
  /\ cng_state' = CngState
  /\ last_mode' = "Error"
  /\ UNCHANGED <<new_codec, timestamp, end_timestamp, fs, active_decoder,
                 decoded>>

\* The mode after an expansion: the decoder conceals, if one is active and can.
ConcealedModes(decoder) ==
  IF current_rtp_payload_type # NoType /\ decoder # NoType
    THEN {"Expand", "CodecPlc"} ELSE {"Expand"}

\* A decoder that is asked for its own comfort noise gives noise, gives
\* speech, or fails, as it does when there is none.
InternalCng ==
  LET further == Plus(end_timestamp, 1, HalfTs)
      near == decoded # <<>>
                => Minus(further, Ts(Last(decoded)), HalfTs) <= Drift
  IN  \/ /\ active_decoder # NoType
         /\ last_mode' = "InternalCng"
         /\ end_timestamp' \in {end_timestamp, further}
         /\ end_timestamp' = end_timestamp \/ near
      \/ /\ near
         /\ last_mode' \in ConcealedModes(active_decoder)
         /\ end_timestamp' = further

\* Audio without a packet: expansion, comfort noise, or stretching what is
\* left where there is enough of it.
GetAudioWithoutPacket(buffer, op) ==
  /\ ~Restarts(op)
  /\ packet_buffer' = buffer
  /\ cng_state' = CngState
  /\ \/ /\ op = "Expand"
        /\ timestamp' = end_timestamp
        /\ last_mode' \in ConcealedModes(active_decoder)
        /\ UNCHANGED end_timestamp
     \/ /\ op = "Rfc3389CngNoPacket"
        /\ last_mode' = "Rfc3389Cng"
        /\ UNCHANGED <<timestamp, end_timestamp>>
     \/ /\ op = "CodecInternalCng"
        /\ InternalCng
        /\ UNCHANGED timestamp
     \/ /\ op = "Stretch"
        /\ last_mode' \in {"Normal", last_mode}
        /\ UNCHANGED <<timestamp, end_timestamp>>
  /\ UNCHANGED <<new_codec, fs, active_decoder, decoded>>

\* ExtractPackets takes the first packet and, until it has the samples
\* required, those that continue it without a gap.
Continues(p, q) ==
  /\ ~IsComfortNoise(p.pt) /\ p.pt = q.pt
  /\ Minus(q.seq, p.seq, HalfSeq) \in {0, 1}
  /\ Minus(Ts(q.at), Ts(p.at), HalfTs) <= 1
Extracted(buffer, required) ==
  LET enough(i) ==
        \/ i = Len(buffer) \/ ~Continues(buffer[i], buffer[i + 1])
        \/ Minus(Ts(buffer[i].at), Ts(Head(buffer).at), HalfTs) + 1 >= required
  IN  SubSeq(buffer, 1, CHOOSE i \in DOMAIN buffer :
                          enough(i) /\ \A j \in 1 .. i - 1 : ~enough(j))

\* The history: the times of the packets decoded by the last call, as far as
\* they lie before the end of the decoded signal, after the last time of the
\* calls before it.  It starts over with a new codec, after an error, with a
\* decoder that was not the active one, and with a packet that is so late that
\* the code takes it for a new one.
Heard(ats, end, goes_on) ==
  (IF goes_on /\ decoded # <<>> THEN <<Last(decoded)>> ELSE <<>>)
    \o Those({at \in ToSet(ats) : Newer(end, Ts(at))}, ats)

\* What decoding the packets taken comes to: [end, mode, ats].  base is the
\* end of the signal before them, mode0 the last mode, does the operation.
Decodings(taken, base, mode0, does) ==
  LET ats    == [i \in DOMAIN taken |-> taken[i].at]
      quiet  == IF does = "Normal" THEN mode0 ELSE "Normal"
      speech == [end |-> Plus(base, Len(taken), HalfTs), mode |-> "Normal",
                 ats |-> ats]
      noise  == [end |-> base, mode |-> "InternalCng", ats |-> ats]
      none   == [end |-> base, mode |-> quiet, ats |-> ats]
      error(mode) == [end |-> Plus(base, 1, HalfTs), mode |-> mode,
                      ats |-> SubSeq(ats, 1, 1)]
      pt == Head(taken).pt
  IN  CASE IsComfortNoise(pt) ->
             {[end |-> base, ats |-> <<>>,
               mode |-> IF does = "Rfc3389Cng" THEN does ELSE mode0]}
        [] ~IsComfortNoise(pt) /\ pt \in registered ->
             {speech, noise, none} \cup
             {error(mode) : mode \in ConcealedModes(pt) \cup
                              IF does = "Normal" THEN {} ELSE {mode0}}
        [] OTHER -> {none}       \* "Unknown payload type"

\* Audio from the packets that are next.  A decoder that was not the active one
\* puts the end of the signal back to where it was before these packets.
GetAudioDecode(buffer, op, required) ==
  LET p       == Head(buffer)
      does    == IF Restarts(op) THEN Restarted(op, p) ELSE op
      start   == IF Restarts(op) THEN Ts(p.at) ELSE end_timestamp
      taken   == Extracted(buffer, required)
      changed == /\ p.pt \in registered \ Comfort
                 /\ active_decoder # p.pt
      rate    == IF changed THEN Rate[p.pt] ELSE fs
      late    == /\ Newer(end_timestamp, Ts(p.at))
                 /\ ~IsObsolete(Ts(p.at), end_timestamp, Horizon)
  IN  /\ buffer # <<>>
      /\ does \in {"Normal", "Merge", "Stretch", "Rfc3389Cng"}
      /\ packet_buffer' = DiscardOldPackets(SubSeq(buffer, Len(taken) + 1, Len(buffer)),
                                            Ts(Last(taken).at), 0)
      /\ timestamp' = start
      /\ new_codec' = FALSE
      /\ cng_state' = IF does = "Rfc3389Cng" THEN CngState ELSE "Off"
      /\ fs' = rate
      /\ active_decoder' = IF changed THEN p.pt ELSE active_decoder
      /\ \E done \in Decodings(taken, IF changed THEN start ELSE Ts(p.at),
                               IF rate = fs THEN last_mode ELSE "Normal", does) :
           /\ end_timestamp' = done.end
           /\ last_mode' = done.mode
           /\ decoded' = Heard(done.ats, done.end,
                               ~(\/ new_codec \/ last_mode = "Error"
                                 \/ changed \/ late))

\* One call of GetAudio.  The stopwatch of the noise, 0 when there is none,
\* counts this call when the operation is chosen but not before.
GetAudio ==
  \E noise \in 0 .. MaxNoise :
    LET buffer == Fresh(IF noise = 0 THEN 0 ELSE noise - 1)
    IN  /\ \E op \in Operations(buffer, noise) :
             \/ GetAudioLeft(buffer, op)
             \/ GetAudioMissing(buffer, op)
             \/ GetAudioWithoutPacket(buffer, op)
             \/ \E required \in 1 .. MaxRequired :
                  GetAudioDecode(buffer, op, required)
        /\ UNCHANGED <<registered, types, first_packet>>

-----------------------------------------------------------------------------
(* The application *)

FlushBuffers ==
  /\ packet_buffer' = <<>>
  /\ end_timestamp' = 0
  /\ first_packet' = TRUE
  /\ decoded' = <<>>
  /\ UNCHANGED <<registered, active_decoder, types, new_codec, timestamp, fs,
                 last_mode, cng_state>>

\* The payload types dropped lose their packets and stop being active.
DropTypes(dropped) ==
  /\ packet_buffer' = DiscardTypes(packet_buffer, dropped)
  /\ active_decoder' = IF active_decoder \in dropped THEN NoType
                                                     ELSE active_decoder
  /\ UNCHANGED <<types, first_packet, new_codec, timestamp, end_timestamp, fs,
                 last_mode, cng_state, decoded>>

RegisterPayloadType(pt) ==
  /\ pt \notin registered
  /\ registered' = registered \cup {pt}
  /\ DropTypes({})

RemovePayloadType(pt) ==
  /\ registered' = registered \ {pt}
  /\ DropTypes({pt})

\* The codecs become those of S; changed are the types that stay, with another
\* codec.
SetCodecs(S, changed) ==
  /\ registered' = S
  /\ DropTypes((registered \ S) \cup changed)

RemoveAllPayloadTypes ==
  /\ registered' = {}
  /\ active_decoder' = NoType
  /\ UNCHANGED <<packet_buffer, types, first_packet, new_codec, timestamp,
                 end_timestamp, fs, last_mode, cng_state, decoded>>

Next ==
  \/ \E a \in Arrivals : InsertPacketInternal(a)
  \/ GetAudio
  \/ FlushBuffers
  \/ \E pt \in Changeable : RegisterPayloadType(pt) \/ RemovePayloadType(pt)
  \/ \E S \in SUBSET Changeable : \E changed \in SUBSET (S \cap registered) :
       SetCodecs(S \cup (registered \ Changeable), changed)
  \/ RemoveAllPayloadTypes

Spec == Init /\ [][Next]_vars

-----------------------------------------------------------------------------
(* Properties *)

\* Every variable holds a value of its type, and the packet buffer never holds
\* more than its maximum.
TypeOK ==
  /\ Len(packet_buffer) <= MaxPackets
  /\ registered \subseteq DOMAIN Rate
  /\ {active_decoder, current_rtp_payload_type, current_cng_rtp_payload_type}
       \subseteq {NoType} \cup DOMAIN Rate
  /\ {first_packet, new_codec} \subseteq BOOLEAN
  /\ {timestamp, end_timestamp} \subseteq 0 .. 2 * HalfTs - 1
  /\ fs \in {StartRate} \cup {Rate[pt] : pt \in DOMAIN Rate}
  /\ last_mode \in Mode
  /\ cng_state \in {"Off", "Rfc3389", "Internal"}
  /\ \A at \in ToSet(decoded) : at \in Nat

\* The buffer never mixes codecs: all speech in it has the payload type NetEq
\* believes the sender uses, all comfort noise the comfort noise type.  Packets
\* of a codec that was given up are flushed, whatever the application does.
OneCodec ==
  \A p \in ToSet(packet_buffer) :
    p.pt = IF p.pt \in Comfort THEN current_cng_rtp_payload_type
                               ELSE current_rtp_payload_type

\* The signal goes forward: what lies before its end was decoded in the order
\* of the sender's time, and no packet, however late, duplicated or redundant
\* its copies, was decoded into it twice.
DecodedOnce == \A i \in 2 .. Len(decoded) : decoded[i - 1] < decoded[i]

\* Speech is decoded into a signal of its own sample rate.
DecodedAtItsRate ==
  [][decoded' \notin {decoded, <<>>} /\ active_decoder' # NoType
       => fs' = Rate[active_decoder']]_vars

\* RTC_DCHECK of InsertPacketInternal: when packets are accepted, the current
\* speech payload type is known.
CurrentTypeKnown ==
  [][Len(packet_buffer') > Len(packet_buffer)
       => current_rtp_payload_type' \in {NoType} \cup registered']_vars

\* "The only valid reason to get kUndefined is that new_codec_ is set."
UndefinedOnlyForNewCodec ==
  "Undefined" \in Operations(Fresh(0), 0) => new_codec
=============================================================================
