----------------------------- MODULE RtpIntake -----------------------------
(***************************************************************************)
(* The way of an RTP packet into NetEq (neteq_impl.cc:471-640): split into *)
(* its RED blocks (red_payload_splitter.cc), checked, and given timestamps *)
(* in samples of the decoder (timestamp_scaler.cc), in modules of 2^32.    *)
(***************************************************************************)
EXTENDS Integers, Sequences, SequencesExt

CONSTANTS
  Modulus,     \* of a timestamp
  Media,       \* the type of the block sent at each time
  Start,       \* the timestamp of the first
  Rates,       \* numerator and denominator of each type of speech
  MaxRed,      \* bound: the redundant blocks of a packet
  MaxStreams   \* bound: the streams received

VARIABLES
  numerator, denominator, first_packet_received, external_ref, internal_ref,
  first_packet,       \* NetEqImpl::first_packet_
  streams,
  packets             \* what the packets of this stream came to

scaler == <<numerator, denominator, first_packet_received, external_ref, internal_ref>>
vars == <<scaler, first_packet, streams, packets>>

Init ==
  /\ numerator = 1 /\ denominator = 1
  /\ first_packet_received = FALSE
  /\ external_ref = 0 /\ internal_ref = 0
  /\ first_packet = TRUE
  /\ streams = 1
  /\ packets = {}

-----------------------------------------------------------------------------
Scaler == [numerator |-> numerator, denominator |-> denominator,
           received |-> first_packet_received, external |-> external_ref,
           internal |-> internal_ref]

\* Division in C++ cuts off the fraction.
Quotient(x, y) == IF x < 0 THEN -((-x) \div y) ELSE x \div y

\* Mutant: the reference of the decoder's timestamps stays where it was.
ScaleFromStart(s, p) ==
  LET rate == IF p.type \in DOMAIN Rates THEN Rates[p.type]
              ELSE <<s.numerator, s.denominator>>
      ref == IF s.received THEN <<s.external, s.internal>>
             ELSE <<p.timestamp, p.timestamp>>
      r == [s EXCEPT !.numerator = rate[1], !.denominator = rate[2]]
  IN  IF rate[1] = rate[2] THEN r
      ELSE [r EXCEPT !.received = TRUE,
                     !.external = IF s.received THEN @ ELSE p.timestamp,
                     !.internal = (ref[2] + Quotient((p.timestamp - ref[1]) * rate[1], rate[2]))
                                    % Modulus]

\* ToInternal: what the scaler is after a packet; comfort noise and tones are
\* scaled like the speech before them.  The difference to the last packet is
\* that of the plain numbers.
Scale(s, p) ==
  LET rate == IF p.type \in DOMAIN Rates THEN Rates[p.type]
              ELSE <<s.numerator, s.denominator>>
      ref == IF s.received THEN <<s.external, s.internal>>
             ELSE <<p.timestamp, p.timestamp>>
      r == [s EXCEPT !.numerator = rate[1], !.denominator = rate[2]]
  IN  IF rate[1] = rate[2] THEN r
      ELSE [r EXCEPT !.received = TRUE,
                     !.external = p.timestamp,
                     !.internal = (ref[2] + Quotient((p.timestamp - ref[1]) * rate[1], rate[2]))
                                    % Modulus]

\* What a packet becomes, after which the scaler is t.
Scaled(t, p) ==
  [at |-> p.at, rate |-> <<t.numerator, t.denominator>>,
   timestamp |-> IF t.numerator = t.denominator THEN p.timestamp ELSE t.internal]

\* The packets of a list that are left are scaled one after another.
ToInternal(s, list, left) ==
  LET scalers[i \in 0 .. Len(list)] ==
        IF i = 0 THEN s
        ELSE IF i \in left THEN Scale(scalers[i - 1], list[i]) ELSE scalers[i - 1]
  IN  [scaler |-> scalers[Len(list)], out |-> {Scaled(scalers[i], list[i]) : i \in left}]

\* SplitRed: the last block, the primary one, becomes the first packet.
SplitRed(rtp) ==
  [i \in 1 .. Len(rtp.offsets) |->
     LET offset == Reverse(rtp.offsets)[i]
     IN  [type |-> Media[rtp.at - offset], at |-> rtp.at - offset,
          timestamp |-> (Start + rtp.at - offset) % Modulus]]

\* CheckRedPayloads: redundant speech is of the type of the first speech.  What
\* is left of the list are those of its positions.
CheckRedPayloads(list) ==
  LET Speech(i) == list[i].type \in DOMAIN Rates
      First(i) == Speech(i) /\ \A j \in 1 .. i - 1 : ~Speech(j)
  IN  {i \in DOMAIN list :
         Speech(i) => \E main \in 1 .. i : First(main) /\ list[main].type = list[i].type}

\* A packet without RED is one block, and its type is not compared.
InsertPacket(rtp) ==
  LET reset == [numerator |-> numerator, denominator |-> denominator,
                received |-> first_packet_received /\ ~first_packet,
                external |-> external_ref, internal |-> internal_ref]
      list == SplitRed(rtp)
      end == ToInternal(reset, list, CheckRedPayloads(list))
  IN  /\ numerator' = end.scaler.numerator /\ denominator' = end.scaler.denominator
      /\ first_packet_received' = end.scaler.received
      /\ external_ref' = end.scaler.external /\ internal_ref' = end.scaler.internal
      /\ first_packet' = FALSE
      /\ packets' = packets \cup end.out
      /\ UNCHANGED streams

\* FlushBuffers: the next packet begins a stream.
FlushBuffers ==
  /\ streams < MaxStreams
  /\ streams' = streams + 1
  /\ first_packet' = TRUE
  /\ packets' = {}
  /\ UNCHANGED <<numerator, denominator, first_packet_received, external_ref, internal_ref>>

\* Each block in a packet of its own, or behind redundant ones.
Rtp == [at : DOMAIN Media, offsets : {<<0>>} \cup {[i \in 1 .. n + 1 |-> n + 1 - i] : n \in 1 .. MaxRed}]
Sent == {rtp \in Rtp : rtp.offsets[1] < rtp.at}

Next == (\E rtp \in Sent : InsertPacket(rtp)) \/ FlushBuffers

Spec == Init /\ [][Next]_vars

-----------------------------------------------------------------------------
TypeOK ==
  /\ {external_ref, internal_ref} \subseteq 0 .. Modulus - 1
  /\ <<numerator, denominator>> \in {<<1, 1>>} \cup {Rates[t] : t \in DOMAIN Rates}
  /\ {p.timestamp : p \in packets} \subseteq 0 .. Modulus - 1
  /\ streams \in 1 .. MaxStreams

\* The copies of a block agree: however packets are lost, repeated, reordered
\* and packed, and wherever the timestamps wrap, the copies that are scaled by
\* one rate get one timestamp, by which the buffer tells them from others.
CopiesAgree ==
  \A p, q \in packets :
    p.rate = q.rate => (p.at = q.at <=> p.timestamp = q.timestamp)
=============================================================================
