----------------------------- MODULE MCPackets -----------------------------
(* A speech codec with copies by retransmission, by forward error           *)
(* correction and by RED, and comfort noise of two types; the timestamps    *)
(* wrap at 12.  The RTP packets that bring them, with RED, from a stream    *)
(* whose timestamps count half the samples of its codec; the tones that     *)
(* packets of their own tell of.  And the packets that the receiver's test  *)
(* sends itself, units of H.264.                                            *)
EXTENDS PacketBuffer

CONSTANTS
  TsModulus, Media, FirstTs, Scales, MaxRed, MaxStreams

CONSTANTS
  SnModulus, InitSn, PayloadLen, UnitLengths, MaxUnits

CONSTANTS
  ToneModulus, FirstTime, Tones, ToneFrame, Extrapolation, ToneSteps, Lead, Lag, LastTime

\* The codecs whose timestamps are scaled, that of G.722, have one ratio of their
\* samples to the clock of RTP, and the stream is shorter than the circle of the
\* timestamps in samples.
ASSUME IntakeAssumption ==
  /\ TsModulus \in Nat \ {0} /\ FirstTs \in Nat /\ MaxRed \in Nat
  /\ Len(Media) \in Nat /\ DOMAIN Media = 1 .. Len(Media)
  /\ \E k \in 1 .. TsModulus :
       /\ k * Len(Media) <= TsModulus
       /\ \A t \in DOMAIN Scales :
            /\ Scales[t] = <<Scales[t][1], Scales[t][2]>> /\ Scales[t][2] \in Nat \ {0}
            /\ Scales[t][1] \in {Scales[t][2], k * Scales[t][2]}

\* A fragment has room for a byte behind its first two; the test packs into 1000.
ASSUME PackerAssumption ==
  /\ SnModulus \in Nat \ {0} /\ InitSn \in 0 .. SnModulus - 1
  /\ PayloadLen \in Nat /\ PayloadLen > 2
  /\ UnitLengths \subseteq Nat \ {0}

\* The tones are sent one after another, the first and the last less than half
\* of the timestamps apart.
ASSUME ToneAssumption ==
  /\ ToneModulus \in Nat \ {0} /\ FirstTime \in Nat
  /\ Tones \in Seq([no : Nat, at : Nat, length : Nat \ {0}])
  /\ \A i, j \in DOMAIN Tones :
       i < j => /\ Tones[i].at + Tones[i].length <= Tones[j].at
                /\ Tones[j].at - Tones[i].at < (ToneModulus - 1) \div 2
  /\ ToneSteps \cup {ToneFrame, Extrapolation} \subseteq Nat

VARIABLES
  numerator, denominator, scaler_received, external_ref, internal_ref, first_packet,
  streams, packets,
  sn, M, sink, units,
  tones, tone_time, heard, reach, open, fresh, straddled

Intake ==
  INSTANCE RtpIntake WITH
    Modulus <- TsModulus, Start <- FirstTs, Rates <- Scales,
    first_packet_received <- scaler_received

\* Copies of a block get one timestamp (RtpIntake).
CopiesAgree == Intake!CopiesAgree

Packer ==
  INSTANCE H264Packer WITH
    init_sn <- InitSn, max_payload_len <- PayloadLen, Lengths <- UnitLengths

\* Units of H.264 arrive whole (H264Packer).
UnitsWhole == Packer!UnitsWhole

Dtmf ==
  INSTANCE DtmfBuffer WITH
    Modulus <- ToneModulus, Start <- FirstTime, FrameLen <- ToneFrame, MaxTime <- LastTime,
    Steps <- ToneSteps, buffer <- tones, time <- tone_time

\* Tones sound in their time, and without a gap (DtmfBuffer).
ToneInTime == Dtmf!ToneInTime

Voice == "voice"
Noise == "noise"
MCRate == Voice :> 16 @@ Noise :> 16
MCComfort == {Noise}

\* Packet n of the stream, and what packet n carries of the one before.
Primary(n, pt) == [at |-> n, pt |-> pt, seq |-> n % 8, level |-> 0, red |-> 0,
                   empty |-> FALSE]
Fec(n) == [Primary(n - 1, Voice) EXCEPT !.seq = n % 8, !.level = 1]
Red(n) == [Primary(n - 1, Voice) EXCEPT !.seq = n % 8, !.red = 1]
Empty(n) == [Primary(n, Noise) EXCEPT !.empty = TRUE]

MCCopy == {Primary(n, Voice) : n \in {9, 11, 12, 14}}
            \cup {Primary(n, Noise) : n \in {10, 13}} \cup {Empty(12)}
            \cup {Fec(n) : n \in 10 .. 14} \cup {Red(n) : n \in 10 .. 14}
MCLimits == 0 .. 11

MCMedia == <<"wide", "noise", "wide", "narrow", "wide">>
MCLengths == {1} \cup 3 .. 9
MCTones == <<[no |-> 1, at |-> 1, length |-> 9], [no |-> 2, at |-> 11, length |-> 2],
             [no |-> 1, at |-> 15, length |-> 2]>>
MCScales == [wide |-> <<2, 1>>, narrow |-> <<1, 1>>]
=============================================================================
