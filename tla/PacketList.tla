----------------------------- MODULE PacketList -----------------------------
(***************************************************************************)
(* The list of neteq/packet_buffer.cc, packets waiting to be decoded in    *)
(* the order of their timestamps, and the operations on it.                *)
(*                                                                         *)
(* A packet carries its time at, which does not wrap; the code reads its   *)
(* timestamp Ts(at) only.  level and red are its Priority: level > 0 for   *)
(* forward error correction, red > 0 for a redundant RED block.            *)
(***************************************************************************)
EXTENDS SerialNumbers, SequencesExt

CONSTANTS
  HalfSeq, HalfTs,   \* half the modulus of sequence numbers and timestamps
  MaxPackets,        \* max_number_of_packets_
  Comfort,           \* the payload types of comfort noise
  Rate               \* the sample rate of each payload type

NoType == "none"     \* an absent optional payload type
Ts(at) == at % (2 * HalfTs)

ASSUME CircleAssumption == HalfSeq \in Nat \ {0} /\ HalfTs \in Nat \ {0}
ASSUME CapacityAssumption == MaxPackets \in Nat \ {0}
ASSUME RateAssumption ==
  /\ NoType \notin DOMAIN Rate
  /\ \A pt \in DOMAIN Rate : Rate[pt] \in Nat \ {0}
ASSUME ComfortAssumption == Comfort \subseteq DOMAIN Rate

Packet == [at : Nat, seq : Serial(HalfSeq), pt : DOMAIN Rate, level : Nat, red : Nat,
           empty : BOOLEAN]

\* The members of S in a list, in its order.
Those(S, list) ==
  LET those[i \in 0 .. Len(list)] ==
        IF i = 0 THEN <<>>
        ELSE IF list[i] \in S THEN Append(those[i - 1], list[i]) ELSE those[i - 1]
  IN  those[Len(list)]

\* Mutant: timestamps compared as plain numbers.
BeforePlain(a, b) ==
  IF a.at = b.at THEN a.seq < b.seq ELSE Ts(a.at) < Ts(b.at)

\* Packet::operator<: by timestamp, by sequence number, by priority.
Before(a, b) ==
  CASE Ts(a.at) # Ts(b.at) -> Minus(Ts(b.at), Ts(a.at), HalfTs) < HalfTs - 1
    [] Ts(a.at) = Ts(b.at) /\ a.seq # b.seq ->
         Minus(b.seq, a.seq, HalfSeq) < HalfSeq - 1
    [] OTHER -> \/ a.level < b.level
                \/ a.level = b.level /\ a.red < b.red

\* IsObsoleteTimestamp; horizon 0 stands for half the circle.
IsObsolete(ts, limit, horizon) ==
  /\ IsNewer(limit, ts, HalfTs)
  /\ horizon = 0 \/ IsNewer(ts, Minus(limit, horizon, HalfTs), HalfTs)

\* Mutant: what lies at the limit goes too.
DiscardUpTo(buffer, limit, horizon) ==
  Those({p \in ToSet(buffer) : ~ \/ Ts(p.at) = limit
                                \/ IsObsolete(Ts(p.at), limit, horizon)}, buffer)

DiscardOldPackets(buffer, limit, horizon) ==
  Those({p \in ToSet(buffer) : ~IsObsolete(Ts(p.at), limit, horizon)}, buffer)

DiscardTypes(buffer, types) ==
  Those({p \in ToSet(buffer) : p.pt \notin types}, buffer)

\* Mutant: whichever copy comes last takes the place.
PlaceLatest(buffer, p) ==
  LET others == SelectSeq(buffer, LAMBDA q : Ts(q.at) # Ts(p.at))
  IN  InsertAt(others, SelectLastInSeq(others, LAMBDA q : ~Before(p, q)) + 1, p)

\* The place of packet p, searched from the back; a copy of the same
\* timestamp on its left is better and stays, one on its right goes.
Place(buffer, p) ==
  LET left == SelectLastInSeq(buffer, LAMBDA q : ~Before(p, q))
      same(i) == i \in DOMAIN buffer /\ Ts(buffer[i].at) = Ts(p.at)
  IN  CASE same(left) -> buffer
        [] ~same(left) /\ same(left + 1) -> ReplaceAt(buffer, left + 1, p)
        [] OTHER -> InsertAt(buffer, left + 1, p)

\* Mutant: a full buffer takes one more.
InsertUnbounded(buffer, p) ==
  IF p.empty THEN [buffer |-> buffer, result |-> "kInvalidPacket"]
             ELSE [buffer |-> Place(buffer, p), result |-> "kOK"]

\* A full buffer is flushed first, whether or not p would get in.
InsertPacket(buffer, p) ==
  CASE p.empty -> [buffer |-> buffer, result |-> "kInvalidPacket"]
    [] ~p.empty /\ Len(buffer) >= MaxPackets ->
         [buffer |-> Place(<<>>, p), result |-> "kFlushed"]
    [] OTHER -> [buffer |-> Place(buffer, p), result |-> "kOK"]

\* Does packet p announce another codec than the buffer's?  A comfort noise
\* type that is not registered any more agrees with nothing.
ChangesCodec(p, rtp, cng, registered) ==
  IF p.pt \in Comfort
    THEN cng \notin {NoType, p.pt}
    ELSE \/ rtp \notin {NoType, p.pt}
         \/ cng # NoType /\ (cng \notin registered \/ Rate[cng] # Rate[p.pt])

\* The payload types the buffer is filled with, after packet p.
TypesAfter(p, rtp, cng, change) ==
  IF p.pt \in Comfort
    THEN [rtp |-> IF change THEN NoType ELSE rtp, cng |-> p.pt]
    ELSE [rtp |-> p.pt, cng |-> IF change THEN NoType ELSE cng]

\* Mutant: a new codec does not flush the buffer.
AdmitNoFlush(state, p, registered) ==
  LET change == ChangesCodec(p, state.rtp, state.cng, registered)
      done   == InsertPacket(state.buffer, p)
      types  == TypesAfter(p, state.rtp, state.cng, change)
  IN  IF state.result = "kInvalidPacket" THEN state
      ELSE [buffer |-> done.buffer, result |-> done.result,
            flushed |-> state.flushed \/ change \/ done.result = "kFlushed",
            rtp |-> types.rtp, cng |-> types.cng]

\* One turn of the loop of InsertPacketList; after an invalid packet the rest
\* of the list is dropped.
Admit(state, p, registered) ==
  LET change == ChangesCodec(p, state.rtp, state.cng, registered)
      done   == InsertPacket(IF change THEN <<>> ELSE state.buffer, p)
      types  == TypesAfter(p, state.rtp, state.cng, change)
  IN  IF state.result = "kInvalidPacket" THEN state
      ELSE [buffer |-> done.buffer, result |-> done.result,
            flushed |-> state.flushed \/ change \/ done.result = "kFlushed",
            rtp |-> types.rtp, cng |-> types.cng]

InsertPacketList(buffer, packets, rtp, cng, registered) ==
  LET after[i \in 0 .. Len(packets)] ==
        IF i = 0 THEN [buffer |-> buffer, result |-> "kOK", flushed |-> FALSE,
                       rtp |-> rtp, cng |-> cng]
        ELSE Admit(after[i - 1], packets[i], registered)
  IN  after[Len(packets)]
=============================================================================
