----------------------------- MODULE H264Packer -----------------------------
(***************************************************************************)
(* rtp_receiver/h264_rtp_packer.c: a unit of H.264 becomes one RTP packet, *)
(* or fragments of which each begins with two bytes in place of the unit's *)
(* first.  The packet is one buffer that is used again and again.          *)
(***************************************************************************)
EXTENDS Integers, Sequences

CONSTANTS
  SnModulus,          \* of a sequence number
  init_sn,
  max_payload_len,
  Lengths,            \* of the units
  MaxUnits            \* bound: how many are packed

VARIABLES
  sn, M,              \* the next number, and the marker in the buffer's header
  sink,               \* the packets given to the sink: their bytes are the
                      \* positions in their unit, behind the first byte of it
  units               \* history: length and is_last of the units

vars == <<sn, M, sink, units>>

Init == sn = init_sn /\ M = FALSE /\ sink = <<>> /\ units = <<>>

-----------------------------------------------------------------------------
Bytes(from, n) == [i \in 1 .. n |-> from + i - 1]
Fragment(kind, from, n) == [kind |-> kind, bytes |-> Bytes(from, n)]

\* The first byte is in the two that begin the fragment.
FirstFragment == Fragment("start", 1, max_payload_len - 2)

\* Mutant: the first fragment is taken to hold as much as the others.
FollowingTooFar(len) ==
  LET size == max_payload_len - 2
      From(n) == max_payload_len + n * size
      full == CHOOSE n \in 0 .. len :
                len - From(n) <= size /\ \A m \in 0 .. n - 1 : len - From(m) > size
  IN  [i \in 1 .. full |-> Fragment("middle", From(i - 1), size)]
        \o <<Fragment("end", From(full), len - From(full))>>

\* Behind the first fragment: full ones while there is more left than one fragment
\* holds, and the last one.
Following(len) ==
  LET size == max_payload_len - 2
      From(n) == max_payload_len - 1 + n * size
      full == CHOOSE n \in 0 .. len :
                len - From(n) <= size /\ \A m \in 0 .. n - 1 : len - From(m) > size
  IN  [i \in 1 .. full |-> Fragment("middle", From(i - 1), size)]
        \o <<Fragment("end", From(full), len - From(full))>>

Payloads(len) ==
  IF len <= max_payload_len THEN <<Fragment("single", 0, len)>>
  ELSE <<FirstFragment>> \o Following(len)

\* Mutant: the marker that the last packet left is not cleared.
FragmentMarkerKept(marker) == marker

\* The marker in the header when the fragments of a unit begin.
FragmentMarker(marker) == FALSE

\* The header is used again: a packet on its own writes the marker, the first
\* fragment clears it, the next leave it as it is, and the last one sets it or
\* leaves it too.
Pack(len, is_last) ==
  LET payloads == Payloads(len)
      Marked(i) == CASE payloads[i].kind = "single" -> is_last
                     [] payloads[i].kind \in {"start", "middle"} -> FragmentMarker(M)
                     [] payloads[i].kind = "end" -> is_last \/ FragmentMarker(M)
      Number(i) == (sn + i - 1) % SnModulus
  IN  /\ Len(units) < MaxUnits
      /\ sink' = sink \o [i \in DOMAIN payloads |->
                            [kind |-> payloads[i].kind, bytes |-> payloads[i].bytes,
                             sn |-> Number(i), M |-> Marked(i)]]
      /\ sn' = (sn + Len(payloads)) % SnModulus
      /\ M' = Marked(Len(payloads))
      /\ units' = Append(units, [len |-> len, is_last |-> is_last])

Next == \E len \in Lengths, is_last \in BOOLEAN : Pack(len, is_last)

Spec == Init /\ [][Next]_vars

-----------------------------------------------------------------------------
TypeOK == sn \in 0 .. SnModulus - 1 /\ M \in BOOLEAN /\ Len(units) <= MaxUnits

Size(packet) == Len(packet.bytes) + IF packet.kind = "single" THEN 0 ELSE 2

\* What a receiver makes of the packets, in order: the unit begun, and the units
\* that are whole.
Take(units_received, p) ==
  LET begun == units_received.begun
      Whole(bytes) == [begun |-> <<>>,
                       whole |-> Append(units_received.whole, [bytes |-> bytes, M |-> p.M])]
  IN  CASE p.kind = "single" -> Whole(p.bytes)
        [] p.kind = "start" -> [units_received EXCEPT !.begun = <<0>> \o p.bytes]
        [] p.kind = "middle" -> [units_received EXCEPT !.begun = begun \o p.bytes]
        [] p.kind = "end" -> Whole(begun \o p.bytes)

Received(packets) ==
  LET after[i \in 0 .. Len(packets)] ==
        IF i = 0 THEN [begun |-> <<>>, whole |-> <<>>] ELSE Take(after[i - 1], packets[i])
  IN  after[Len(packets)]

\* Units arrive whole, whatever their length is to that of a packet: no byte
\* is left out or sent twice, no packet is larger than it may be, no fragment
\* is empty, numbers follow each other, and the marker is on the last packet
\* of a last unit and on no other, although the header is used again.
UnitsWhole ==
  /\ Received(sink).whole =
       [i \in DOMAIN units |-> [bytes |-> Bytes(0, units[i].len), M |-> units[i].is_last]]
  /\ \A i \in DOMAIN sink :
       /\ Size(sink[i]) <= max_payload_len
       /\ sink[i].bytes # <<>>
       /\ sink[i].sn = (init_sn + i - 1) % SnModulus
       /\ sink[i].kind \in {"start", "middle"} => ~sink[i].M
=============================================================================
