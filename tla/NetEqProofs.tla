---------------------------- MODULE NetEqProofs ----------------------------
(***************************************************************************)
(* Proofs about NetEqImpl, for every set of arrivals, any registered types *)
(* and any size of the packet buffer: that its variables keep their types, *)
(* that its packet buffer never mixes codecs, that nothing is decoded      *)
(* twice or backwards, and that speech is decoded at the rate of its       *)
(* codec.  Order rests on three distances that stay within half a circle:  *)
(* the packets held from each other (Apart), from the end of the signal    *)
(* (NearEnd) and from the last one decoded (NearLast); the rate rests on   *)
(* what a decoder of another rate can no longer be given (Rated).          *)
(*                                                                         *)
(* And, at the end, about its delays as MCDelays has them.                 *)
(***************************************************************************)
EXTENDS NetEq, MCDelays, PacketListProofs, FiniteSetTheorems

\* A payload type, or none.
Types == {NoType} \cup DOMAIN Rate

LEMMA Bounds ==
  /\ HalfTs \in Nat \ {0} /\ MaxPackets \in Nat \ {0} /\ MaxPackets <= HalfTs
  /\ Lead \in Nat /\ Lag \in Nat /\ Lead + Lag < HalfTs - 1
  /\ 2 * Lag <= Lead /\ 2 * Lead < HalfTs
  /\ Drift \in Nat /\ Drift + Lag < HalfTs
  /\ Horizon \in 2 .. HalfTs - 1 /\ 2 * Lag < Horizon
BY BoundAssumption, CapacityAssumption, CircleAssumption, HorizonAssumption

LEMMA TsType ==
  ASSUME NEW at \in Nat
  PROVE  Ts(at) \in Serial(HalfTs)
<1>1. at \in Int /\ at - at \in 0 .. 2 * HalfTs - 1
  BY Bounds
<1> QED
  BY <1>1, Distance

LEMMA SerialArithmetic ==
  ASSUME NEW v \in Serial(HalfTs), NEW p \in Serial(HalfTs), NEW k \in 0 .. 2 * HalfTs
  PROVE  Minus(v, p, HalfTs) \in Serial(HalfTs) /\ Plus(v, k, HalfTs) \in Serial(HalfTs)
BY Bounds DEF Minus, Plus, Serial

-----------------------------------------------------------------------------
(* The invariant *)

\* All speech of a list has payload type rtp, all comfort noise type cng.
OfOneCodec(list, rtp, cng) ==
  \A p \in ToSet(list) : p.pt = IF p.pt \in Comfort THEN cng ELSE rtp

\* What the loop of InsertPacketList keeps.
States ==
  {s \in [buffer : Seq(Packet), result : Result, flushed : BOOLEAN, rtp : Types,
          cng : Types] :
     Len(s.buffer) <= MaxPackets /\ OfOneCodec(s.buffer, s.rtp, s.cng)}

Inv ==
  /\ TypeOK
  /\ packet_buffer \in Seq(Packet)
  /\ decoded \in Seq(Nat)
  /\ OneCodec

LEMMA AdmitKeeps ==
  ASSUME NEW s \in States, NEW p \in Packet, NEW set
  PROVE  Admit(s, p, set) \in States
<1> DEFINE change == ChangesCodec(p, s.rtp, s.cng, set)
           before == IF change THEN <<>> ELSE s.buffer
           done   == InsertPacket(before, p)
           after  == TypesAfter(p, s.rtp, s.cng, change)
<1>1. /\ s.buffer \in Seq(Packet) /\ Len(s.buffer) <= MaxPackets
      /\ s.flushed \in BOOLEAN /\ s.rtp \in Types /\ s.cng \in Types
      /\ OfOneCodec(s.buffer, s.rtp, s.cng)
  BY DEF States
<1>2. p.pt \in DOMAIN Rate /\ NoType \notin DOMAIN Rate /\ change \in BOOLEAN
  BY RateAssumption DEF Packet, ChangesCodec
<1>3. before \in Seq(Packet) /\ Len(before) <= MaxPackets
  BY <1>1, Bounds
<1>4. /\ after.rtp \in Types /\ after.cng \in Types
      /\ \/ p.pt \in Comfort /\ after.cng = p.pt /\ ~change /\ after.rtp = s.rtp
         \/ p.pt \in Comfort /\ after.cng = p.pt /\ change
         \/ p.pt \notin Comfort /\ after.rtp = p.pt /\ ~change /\ after.cng = s.cng
         \/ p.pt \notin Comfort /\ after.rtp = p.pt /\ change
  <2> HIDE DEF change
  <2> QED
    BY <1>1, <1>2 DEF TypesAfter, Types
<1>5. OfOneCodec(before, after.rtp, after.cng)
  <2>1. CASE change
    <3>1. ToSet(before) = {}
      BY <2>1 DEF ToSet
    <3> HIDE DEF before, after
    <3> QED
      BY <3>1 DEF OfOneCodec
  <2>2. CASE ~change
    <3>1. /\ p.pt \in Comfort => s.cng \in {NoType, p.pt}
          /\ p.pt \notin Comfort => s.rtp \in {NoType, p.pt}
      BY <2>2 DEF ChangesCodec
    <3>2. before = s.buffer
      BY <2>2
    <3> HIDE DEF before, after, change
    <3>3. ASSUME NEW q \in ToSet(s.buffer)
          PROVE  q.pt = IF q.pt \in Comfort THEN after.cng ELSE after.rtp
      <4>1. q.pt \in DOMAIN Rate
        <5>1. q \in Packet
          BY <1>1, Members
        <5> QED
          BY <5>1 DEF Packet
      <4>2. q.pt = IF q.pt \in Comfort THEN s.cng ELSE s.rtp
        BY <1>1 DEF OfOneCodec
      <4>3. q.pt # NoType
        BY <1>2, <4>1
      <4> QED
        BY <1>4, <2>2, <3>1, <4>2, <4>3
    <3> QED
      BY <3>2, <3>3 DEF OfOneCodec
  <2> QED
    BY <2>1, <2>2
<1>6. p.pt = IF p.pt \in Comfort THEN after.cng ELSE after.rtp
  BY <1>4
<1> HIDE DEF before, after, change
<1>7. /\ done.buffer \in Seq(Packet) /\ Len(done.buffer) <= MaxPackets
      /\ ToSet(done.buffer) \subseteq ToSet(before) \cup {p}
      /\ done.result \in Result
  <2>1. Keeps(before, p, done.buffer) /\ done.result \in Result
    BY <1>3, InsertKeeps
  <2> QED
    BY <2>1 DEF Keeps
<1> HIDE DEF done
<1>8. OfOneCodec(done.buffer, after.rtp, after.cng)
  BY <1>5, <1>6, <1>7 DEF OfOneCodec
<1> DEFINE flushed == s.flushed \/ change \/ done.result = "kFlushed"
           new == [buffer |-> done.buffer, result |-> done.result, flushed |-> flushed,
                   rtp |-> after.rtp, cng |-> after.cng]
<1>9. flushed \in BOOLEAN
  BY <1>1, <1>2
<1> HIDE DEF flushed
<1>10. new \in States
  BY <1>4, <1>7, <1>8, <1>9 DEF States
<1>11. Admit(s, p, set) = IF s.result = "kInvalidPacket" THEN s ELSE new
  BY Zenon DEF Admit, done, after, change, before, flushed
<1> QED
  BY <1>10, <1>11

\* Before the loop of InsertPacketList.
Untouched ==
  [buffer |-> Held, result |-> "kOK", flushed |-> FALSE,
   rtp |-> current_rtp_payload_type, cng |-> current_cng_rtp_payload_type]

LEMMA UntouchedState ==
  ASSUME Inv
  PROVE  Untouched \in States
<1> DEFINE rtp == current_rtp_payload_type
           cng == current_cng_rtp_payload_type
<1>1. rtp \in Types /\ cng \in Types
  BY DEF Inv, TypeOK, Types
<1> HIDE DEF rtp, cng
<1>2. Held \in Seq(Packet) /\ Len(Held) <= MaxPackets /\ ToSet(Held) \subseteq ToSet(packet_buffer)
  <2>1. CASE first_packet
    <3>1. Held = <<>>
      BY <2>1 DEF Held
    <3>2. <<>> \in Seq(Packet) /\ Len(<<>>) = 0 /\ ToSet(<<>>) = {}
      BY DEF ToSet
    <3> QED
      BY <3>1, <3>2, Bounds
  <2>2. CASE ~first_packet
    BY <2>2 DEF Held, Inv, TypeOK
  <2> QED
    BY <2>1, <2>2
<1>3. OfOneCodec(Held, rtp, cng)
  BY <1>2 DEF OfOneCodec, Inv, OneCodec, rtp, cng
<1> QED
  BY <1>1, <1>2, <1>3 DEF Untouched, States, Result, rtp, cng

\* What every turn of the loop keeps holds after it.
LEMMA InsertedList ==
  ASSUME NEW a \in Arrivals, NEW S, Untouched \in S,
         \A s \in S : \A i \in 1 .. Len(a.packets) : Admit(s, a.packets[i], registered) \in S
  PROVE  /\ InsertPacketList(Held, a.packets, current_rtp_payload_type,
                             current_cng_rtp_payload_type, registered) \in S
         /\ \E after : Turns(after, S, Held, a.packets, current_rtp_payload_type,
                             current_cng_rtp_payload_type, registered)
<1> DEFINE packets == a.packets
           rtp == current_rtp_payload_type
           cng == current_cng_rtp_payload_type
<1>1. packets \in Seq(Packet)
  BY ArrivalAssumption
<1>2. [buffer |-> Held, result |-> "kOK", flushed |-> FALSE, rtp |-> rtp, cng |-> cng] \in S
  BY DEF Untouched
<1>3. \A s \in S : \A i \in 1 .. Len(packets) : Admit(s, packets[i], registered) \in S
  OBVIOUS
<1> HIDE DEF packets, rtp, cng
<1>4. /\ InsertPacketList(Held, packets, rtp, cng, registered) \in S
      /\ \E after : Turns(after, S, Held, packets, rtp, cng, registered)
  BY <1>1, <1>2, <1>3, InsertLoop
<1> QED
  BY <1>4 DEF packets, rtp, cng

LEMMA InsertedListKeeps ==
  ASSUME Inv, NEW a \in Arrivals
  PROVE  InsertPacketList(Held, a.packets, current_rtp_payload_type,
                          current_cng_rtp_payload_type, registered) \in States
<1>1. \A i \in 1 .. Len(a.packets) : a.packets[i] \in Packet
  BY ArrivalAssumption
<1>2. \A s \in States : \A i \in 1 .. Len(a.packets) :
        Admit(s, a.packets[i], registered) \in States
  BY <1>1, AdmitKeeps
<1> QED
  BY <1>2, UntouchedState, InsertedList

-----------------------------------------------------------------------------
(* What GetAudio takes from the buffer *)

\* A list without packets of another, and in its order.
Part(part, list) ==
  /\ part \in Seq(Packet) /\ Len(part) <= Len(list)
  /\ ToSet(part) \subseteq ToSet(list)
  /\ Ordered(list) => Ordered(part)

LEMMA NoPart ==
  ASSUME NEW list \in Seq(Packet)
  PROVE  Part(<<>>, list)
<1>1. <<>> \in Seq(Packet) /\ Len(<<>>) = 0 /\ ToSet(<<>>) = {} /\ Ordered(<<>>)
  BY DEF ToSet, Ordered
<1>2. Len(list) \in Nat
  OBVIOUS
<1> QED
  BY <1>1, <1>2 DEF Part

LEMMA PartOfPart ==
  ASSUME NEW list \in Seq(Packet), NEW part, NEW subpart, Part(part, list), Part(subpart, part)
  PROVE  Part(subpart, list)
<1>1. Len(list) \in Nat /\ Len(part) \in Nat /\ Len(subpart) \in Nat
  BY DEF Part
<1> QED
  BY <1>1 DEF Part

LEMMA ThosePart ==
  ASSUME NEW list \in Seq(Packet), NEW S
  PROVE  Part(Those(S, list), list)
<1>1. Those(S, list) \in Seq(Packet) /\ Len(Those(S, list)) <= Len(list)
  BY ThoseFound
<1>2. ToSet(Those(S, list)) \subseteq ToSet(list)
  BY ThoseMembers
<1>3. Ordered(list) => Ordered(Those(S, list))
  BY ThoseOrdered
<1> QED
  BY <1>1, <1>2, <1>3 DEF Part

LEMMA StretchPart ==
  ASSUME NEW list \in Seq(Packet), NEW m \in 1 .. Len(list) + 1, NEW n \in m - 1 .. Len(list)
  PROVE  Part(SubSeq(list, m, n), list)
<1>1. /\ SubSeq(list, m, n) \in Seq(Packet) /\ Len(SubSeq(list, m, n)) = n - m + 1
      /\ ToSet(SubSeq(list, m, n)) \subseteq ToSet(list)
      /\ Ordered(list) => Ordered(SubSeq(list, m, n))
  BY Stretch
<1>2. n - m + 1 <= Len(list)
  OBVIOUS
<1> QED
  BY <1>1, <1>2 DEF Part

\* The place of the first member of a list that passes a test, or 0.
Selected(list, S, k) ==
  /\ k \in 0 .. Len(list)
  /\ k = 0 => \A i \in 1 .. Len(list) : i \notin S
  /\ k > 0 => k \in S /\ \A i \in 1 .. k - 1 : i \notin S

LEMMA Least ==
  ASSUME NEW n \in Nat, NEW S \in SUBSET (1 .. n), S # {}
  PROVE  Min(S) \in S /\ \A i \in S : Min(S) <= i
<1>1. S \in SUBSET Nat
  OBVIOUS
<1>2. \E k \in S : \A i \in S : k <= i
  BY <1>1, Smallest
<1> QED
  BY <1>2 DEF Min

\* The buffer without what is old.
Young == IF new_codec THEN packet_buffer
         ELSE DiscardOldPackets(packet_buffer, end_timestamp, Horizon)

LEMMA FreshPart ==
  ASSUME packet_buffer \in Seq(Packet), NEW noise
  PROVE  /\ Part(Fresh(noise), packet_buffer)
         /\ ~new_codec => \A p \in ToSet(Fresh(noise)) :
                            ~IsObsolete(Ts(p.at), end_timestamp, Horizon)
<1> DEFINE young == Young
           I == {i \in 1 .. Len(young) : ~CngPassed(young[i], noise)}
           kept == IF I # {} THEN Min(I) ELSE 0
           playing == cng_state = "Rfc3389" \/ last_mode = "Rfc3389Cng"
<1> DEFINE Aged(list) == \A p \in ToSet(list) : ~IsObsolete(Ts(p.at), end_timestamp, Horizon)
<1>1. Part(young, packet_buffer) /\ (~new_codec => Aged(young))
  <2>1. CASE new_codec
    BY <2>1 DEF Part, Young
  <2>2. CASE ~new_codec
    <3> DEFINE S == {p \in ToSet(packet_buffer) :
                       ~IsObsolete(Ts(p.at), end_timestamp, Horizon)}
    <3>1. young = Those(S, packet_buffer)
      BY <2>2 DEF DiscardOldPackets, Young
    <3> HIDE DEF S, young
    <3>2. Part(young, packet_buffer) /\ ToSet(young) = ToSet(packet_buffer) \cap S
      BY <3>1, ThosePart, ThoseMembers
    <3> QED
      BY <3>2 DEF S
  <2> QED
    BY <2>1, <2>2
<1>2. Fresh(noise) = CASE ~playing -> young
                       [] playing /\ kept = 0 -> <<>>
                       [] OTHER -> SubSeq(young, kept, Len(young))
  BY Zenon DEF Fresh, SelectInSeq, Young
<1> HIDE DEF young, playing
<1>3. young \in Seq(Packet) /\ Len(young) \in Nat
  BY <1>1 DEF Part
<1>4. kept \in 0 .. Len(young)
  <2>1. CASE I = {}
    <3>1. kept = 0
      BY <2>1
    <3> HIDE DEF kept
    <3> QED
      BY <1>3, <3>1
  <2>2. CASE I # {}
    <3>1. I \in SUBSET (1 .. Len(young))
      OBVIOUS
    <3>2. kept = Min(I)
      BY <2>2
    <3> HIDE DEF I
    <3>3. Min(I) \in I
      BY <1>3, <2>2, <3>1, Least
    <3>4. Min(I) \in 1 .. Len(young)
      BY <3>1, <3>3
    <3>5. kept \in 1 .. Len(young)
      BY <3>2, <3>4, Zenon
    <3> HIDE DEF kept
    <3> QED
      BY <1>3, <3>5
  <2> QED
    BY <2>1, <2>2
<1> HIDE DEF kept
<1> SUFFICES Part(Fresh(noise), young)
  <2>1. ASSUME Part(Fresh(noise), young) PROVE Part(Fresh(noise), packet_buffer)
    BY <1>1, <2>1, PartOfPart
  <2>2. ASSUME Part(Fresh(noise), young), ~new_codec PROVE Aged(Fresh(noise))
    BY <1>1, <2>2 DEF Part
  <2> QED
    BY <2>1, <2>2
<1>5. CASE ~playing
  <2>1. Fresh(noise) = young
    BY <1>2, <1>5
  <2> QED
    BY <1>1, <2>1 DEF Part
<1>6. CASE playing /\ kept = 0
  <2>1. Fresh(noise) = <<>>
    BY <1>2, <1>6
  <2> QED
    BY <1>3, <2>1, NoPart
<1>7. CASE playing /\ kept # 0
  <2>1. Fresh(noise) = SubSeq(young, kept, Len(young))
    BY <1>2, <1>7
  <2>2. kept \in 1 .. Len(young) + 1 /\ Len(young) \in kept - 1 .. Len(young)
    BY <1>3, <1>4, <1>7
  <2> QED
    BY <1>3, <2>1, <2>2, StretchPart
<1> QED
  BY <1>5, <1>6, <1>7

\* ExtractPackets takes packets from the front, at least one, as long as they
\* continue one another.
LEMMA ExtractedFront ==
  ASSUME NEW buffer \in Seq(Packet), buffer # <<>>, NEW required
  PROVE  \E n \in 1 .. Len(buffer) :
           /\ Extracted(buffer, required) = SubSeq(buffer, 1, n)
           /\ \A i \in 1 .. n - 1 : Continues(buffer[i], buffer[i + 1])
<1> DEFINE enough(i) ==
             \/ i = Len(buffer) \/ ~Continues(buffer[i], buffer[i + 1])
             \/ Minus(Ts(buffer[i].at), Ts(Head(buffer).at), HalfTs) + 1 >= required
           n == CHOOSE i \in DOMAIN buffer : enough(i) /\ \A j \in 1 .. i - 1 : ~enough(j)
           E == {i \in 1 .. Len(buffer) : enough(i)}
<1>1. Len(buffer) \in Nat \ {0} /\ DOMAIN buffer = 1 .. Len(buffer)
  OBVIOUS
<1>2. E \in SUBSET Nat /\ Len(buffer) \in E
  BY <1>1
<1> HIDE DEF E
<1>3. PICK k \in E : \A i \in E : k <= i
  BY <1>2, Smallest
<1>4. k \in DOMAIN buffer /\ enough(k) /\ \A j \in 1 .. k - 1 : ~enough(j)
  <2>1. ASSUME NEW j \in 1 .. k - 1 PROVE ~enough(j)
    <3>1. k \in 1 .. Len(buffer)
      BY <1>3 DEF E
    <3>2. j \notin E /\ j \in 1 .. Len(buffer)
      BY <1>1, <1>2, <1>3, <3>1
    <3> QED
      BY <3>2 DEF E
  <2> QED
    BY <1>1, <1>3, <2>1 DEF E
<1>5. n \in DOMAIN buffer /\ \A j \in 1 .. n - 1 : ~enough(j)
  <2> HIDE DEF enough
  <2> QED
    BY <1>4
<1>6. Extracted(buffer, required) = SubSeq(buffer, 1, n)
  BY Zenon DEF Extracted
<1> HIDE DEF n
<1>7. \A i \in 1 .. n - 1 : Continues(buffer[i], buffer[i + 1])
  BY <1>5
<1> QED
  BY <1>1, <1>5, <1>6, <1>7

\* Of the packets taken the first k are decoded; the signal grows by as many
\* packets, or by none.
DecodedFrom(done, taken, base) ==
  /\ done.mode \in Mode
  /\ \E k \in 0 .. Len(taken) :
       /\ done.ats = [i \in 1 .. k |-> taken[i].at]
       /\ (done.end = base \/ (k > 0 /\ done.end = Plus(base, k, HalfTs)))

LEMMA DecodingsFrom ==
  ASSUME NEW taken \in Seq(Packet), taken # <<>>, NEW base, NEW mode0 \in Mode,
         NEW does \in {"Normal", "Merge", "Stretch", "Rfc3389Cng"},
         NEW done \in Decodings(taken, base, mode0, does)
  PROVE  DecodedFrom(done, taken, base)
<1> DEFINE n     == Len(taken)
           ats   == [i \in DOMAIN taken |-> taken[i].at]
           quiet == IF does = "Normal" THEN mode0 ELSE "Normal"
           pt    == Head(taken).pt
           upto(k) == [i \in 1 .. k |-> taken[i].at]
<1>1. n \in Nat \ {0} /\ DOMAIN taken = 1 .. n
  OBVIOUS
<1>2. ats = upto(n) /\ ats \in Seq({taken[i].at : i \in 1 .. n}) /\ Len(ats) = n
  BY <1>1
<1>3. SubSeq(ats, 1, 1) = upto(1) /\ <<>> = upto(0)
  <2>1. SubSeq(ats, 1, 1) = [i \in 1 .. 1 |-> ats[i]]
    BY <1>1, <1>2
  <2>2. [i \in 1 .. 1 |-> ats[i]] = upto(1)
    BY <1>1
  <2> QED
    BY <2>1, <2>2
<1>4. quiet \in Mode /\ \A decoder : ConcealedModes(decoder) \subseteq Mode
  BY DEF Mode, ConcealedModes
<1>5. \/ \E mode \in Mode : done = [end |-> base, ats |-> <<>>, mode |-> mode]
      \/ \E mode \in Mode, end \in {base, Plus(base, n, HalfTs)} :
           done = [end |-> end, mode |-> mode, ats |-> ats]
      \/ \E mode \in Mode : done = [end |-> Plus(base, 1, HalfTs), mode |-> mode,
                                    ats |-> SubSeq(ats, 1, 1)]
  <2> DEFINE speech == [end |-> Plus(base, Len(taken), HalfTs), mode |-> "Normal",
                        ats |-> ats]
             noise  == [end |-> base, mode |-> "InternalCng", ats |-> ats]
             none   == [end |-> base, mode |-> quiet, ats |-> ats]
             error(mode) == [end |-> Plus(base, 1, HalfTs), mode |-> mode,
                             ats |-> SubSeq(ats, 1, 1)]
             modes  == ConcealedModes(pt) \cup IF does = "Normal" THEN {} ELSE {mode0}
  <2>1. Decodings(taken, base, mode0, does) =
          CASE IsComfortNoise(pt) ->
                 {[end |-> base, ats |-> <<>>,
                   mode |-> IF does = "Rfc3389Cng" THEN does ELSE mode0]}
            [] ~IsComfortNoise(pt) /\ pt \in registered ->
                 {speech, noise, none} \cup {error(mode) : mode \in modes}
            [] OTHER -> {none}
    BY DEF Decodings
  <2>2. modes \subseteq Mode /\ {"Normal", "InternalCng", "Rfc3389Cng"} \subseteq Mode
    BY <1>4 DEF Mode
  <2> HIDE DEF speech, noise, none, modes, ats, quiet, n
  <2>3. CASE IsComfortNoise(pt)
    <3>1. done = [end |-> base, ats |-> <<>>,
                  mode |-> IF does = "Rfc3389Cng" THEN does ELSE mode0]
      BY <2>1, <2>3
    <3>2. (IF does = "Rfc3389Cng" THEN does ELSE mode0) \in Mode
      BY <2>2
    <3> QED
      BY <3>1, <3>2, Zenon
  <2>4. CASE done \in {error(mode) : mode \in modes}
    <3>1. PICK mode \in modes : done = error(mode)
      BY <2>4
    <3> QED
      BY <2>2, <3>1, Zenon
  <2>5. CASE done \in {speech, noise, none}
    <3>1. CASE done = speech
      BY <2>2, <3>1 DEF speech, n
    <3>2. CASE done = noise
      BY <2>2, <3>2 DEF noise
    <3>3. CASE done = none
      BY <1>4, <3>3 DEF none
    <3> QED
      BY <2>5, <3>1, <3>2, <3>3
  <2>6. ~IsComfortNoise(pt) => done \in {speech, noise, none} \cup {error(mode) : mode \in modes}
    BY <2>1
  <2> QED
    BY <2>3, <2>4, <2>5, <2>6
<1> HIDE DEF ats, n, quiet, upto
<1>6. 0 \in 0 .. n /\ 1 \in 0 .. n /\ n \in 0 .. n /\ n > 0
  BY <1>1
<1> DEFINE Fits(k) == /\ done.ats = upto(k) /\ done.mode \in Mode
                      /\ (done.end = base \/ (k > 0 /\ done.end = Plus(base, k, HalfTs)))
<1>7. \E k \in 0 .. n : Fits(k)
  <2>1. CASE \E mode \in Mode : done = [end |-> base, ats |-> <<>>, mode |-> mode]
    <3>1. done.ats = <<>> /\ done.mode \in Mode /\ done.end = base
      BY <2>1
    <3>2. done.ats = upto(0)
      BY <1>3, <3>1, Zenon
    <3>3. Fits(0)
      BY <3>1, <3>2, Zenon
    <3> HIDE DEF Fits
    <3> QED
      BY <1>6, <3>3
  <2>2. CASE \E mode \in Mode, end \in {base, Plus(base, n, HalfTs)} :
               done = [end |-> end, mode |-> mode, ats |-> ats]
    <3>1. done.ats = ats /\ done.mode \in Mode /\ done.end \in {base, Plus(base, n, HalfTs)}
      BY <2>2
    <3>2. done.ats = upto(n)
      BY <1>2, <3>1, Zenon
    <3>3. Fits(n)
      BY <1>6, <3>1, <3>2
    <3> HIDE DEF Fits
    <3> QED
      BY <1>6, <3>3
  <2>3. CASE \E mode \in Mode : done = [end |-> Plus(base, 1, HalfTs), mode |-> mode,
                                        ats |-> SubSeq(ats, 1, 1)]
    <3>1. /\ done.ats = SubSeq(ats, 1, 1) /\ done.mode \in Mode
          /\ done.end = Plus(base, 1, HalfTs)
      BY <2>3
    <3>2. done.ats = upto(1) /\ 1 > 0
      BY <1>3, <3>1
    <3>3. Fits(1)
      BY <3>1, <3>2, Zenon
    <3> HIDE DEF Fits
    <3> QED
      BY <1>6, <3>3
  <2> QED
    BY <1>5, <2>1, <2>2, <2>3
<1> QED
  BY <1>7, Zenon DEF DecodedFrom, n, upto

LEMMA HeardType ==
  ASSUME NEW ats \in Seq(Nat), NEW end, NEW goes_on, decoded \in Seq(Nat)
  PROVE  Heard(ats, end, goes_on) \in Seq(Nat)
<1> DEFINE before == IF goes_on /\ decoded # <<>> THEN <<Last(decoded)>> ELSE <<>>
           S == {at \in ToSet(ats) : Newer(end, Ts(at))}
<1>1. before \in Seq(Nat)
  <2>1. decoded # <<>> => Last(decoded) \in Nat
    BY DEF Last
  <2>2. decoded # <<>> => <<Last(decoded)>> \in Seq(Nat)
    BY <2>1
  <2>3. <<>> \in Seq(Nat)
    OBVIOUS
  <2> QED
    BY <2>2, <2>3
<1>2. Those(S, ats) \in Seq(Nat)
  <2> HIDE DEF S
  <2> QED
    BY ThoseFound
<1>3. Heard(ats, end, goes_on) = before \o Those(S, ats)
  BY DEF Heard
<1> HIDE DEF before, S
<1> QED
  BY <1>1, <1>2, <1>3

-----------------------------------------------------------------------------
(* Every step keeps the invariant *)

\* The rates fs can have.
Rates == {StartRate} \cup {Rate[pt] : pt \in DOMAIN Rate}

\* What a step that changes neither the registered types nor those of the
\* buffer leaves to be shown.
LEMMA SameTypes ==
  ASSUME Inv, UNCHANGED <<registered, types>>,
         Part(packet_buffer', packet_buffer),
         active_decoder' \in Types, {first_packet', new_codec'} \subseteq BOOLEAN,
         {timestamp', end_timestamp'} \subseteq Serial(HalfTs), fs' \in Rates,
         last_mode' \in Mode, cng_state' \in {"Off", "Rfc3389", "Internal"},
         decoded' \in Seq(Nat)
  PROVE  Inv'
<1>1. /\ packet_buffer' \in Seq(Packet) /\ Len(packet_buffer') <= MaxPackets
      /\ ToSet(packet_buffer') \subseteq ToSet(packet_buffer)
  <2>1. Len(packet_buffer) \in Nat /\ Len(packet_buffer) <= MaxPackets
    BY DEF Inv, TypeOK
  <2> QED
    BY <2>1, Bounds DEF Part
<1>2. /\ current_rtp_payload_type' = current_rtp_payload_type
      /\ current_cng_rtp_payload_type' = current_cng_rtp_payload_type
      /\ registered' = registered
  BY DEF types
<1>3. OneCodec'
  BY <1>1, <1>2 DEF Inv, OneCodec
<1>4. \A at \in ToSet(decoded') : at \in Nat
  BY Members
<1>5. TypeOK'
  BY <1>1, <1>2, <1>4 DEF Inv, TypeOK, Types, Serial, Rates
<1> QED
  BY <1>1, <1>3, <1>5 DEF Inv

LEMMA InvTypes ==
  ASSUME Inv
  PROVE  /\ active_decoder \in Types /\ {first_packet, new_codec} \subseteq BOOLEAN
         /\ timestamp \in Serial(HalfTs) /\ end_timestamp \in Serial(HalfTs)
         /\ fs \in Rates /\ last_mode \in Mode
         /\ cng_state \in {"Off", "Rfc3389", "Internal"}
         /\ decoded \in Seq(Nat) /\ packet_buffer \in Seq(Packet)
         /\ Len(packet_buffer) <= MaxPackets
BY DEF Inv, TypeOK, Types, Serial, Rates

LEMMA EndType ==
  ASSUME Inv, NEW a \in Arrivals
  PROVE  EndAtInsert(a) \in Serial(HalfTs) /\ TimestampAtInsert(a) \in Serial(HalfTs)
<1>1. a.at \in Nat
  BY ArrivalAssumption
<1>2. Ts(a.at) \in Serial(HalfTs)
  BY <1>1, TsType
<1>3. timestamp \in Serial(HalfTs) /\ end_timestamp \in Serial(HalfTs)
  BY InvTypes
<1>4. Minus(Ts(a.at), timestamp, HalfTs) \in Serial(HalfTs)
  BY <1>2, <1>3, Bounds, SerialArithmetic
<1>5. Minus(Ts(a.at), timestamp, HalfTs) \in 0 .. 2 * HalfTs
  BY <1>4, Bounds DEF Serial
<1>6. Plus(end_timestamp, Minus(Ts(a.at), timestamp, HalfTs), HalfTs) \in Serial(HalfTs)
  BY <1>3, <1>5, SerialArithmetic
<1> QED
  BY <1>2, <1>3, <1>6 DEF EndAtInsert, TimestampAtInsert

LEMMA HeldPart ==
  ASSUME packet_buffer \in Seq(Packet)
  PROVE  Part(Held, packet_buffer)
<1>1. CASE first_packet
  <2>1. Held = <<>>
    BY <1>1 DEF Held
  <2> QED
    BY <2>1, NoPart
<1>2. CASE ~first_packet
  BY <1>2 DEF Held, Part
<1> QED
  BY <1>1, <1>2

LEMMA RejectKeeps ==
  ASSUME Inv, NEW a \in Arrivals, RejectPacket(a)
  PROVE  Inv'
<1>1. Part(packet_buffer', packet_buffer)
  <2>1. Part(Held, packet_buffer)
    BY InvTypes, HeldPart
  <2> QED
    BY <2>1 DEF RejectPacket
<1>2. {timestamp', end_timestamp'} \subseteq Serial(HalfTs)
  BY EndType DEF RejectPacket
<1> QED
  BY <1>1, <1>2, InvTypes, SameTypes DEF RejectPacket

LEMMA AcceptKeeps ==
  ASSUME Inv, NEW a \in Arrivals, AcceptPacket(a)
  PROVE  Inv'
<1> DEFINE done == InsertPacketList(Held, a.packets, current_rtp_payload_type,
                                    current_cng_rtp_payload_type, registered)
<1>1. done \in States
  BY InsertedListKeeps
<1>2. /\ packet_buffer' = done.buffer
      /\ current_rtp_payload_type' = done.rtp /\ current_cng_rtp_payload_type' = done.cng
      /\ registered' = registered /\ active_decoder' = active_decoder
      /\ cng_state' = cng_state
      /\ \/ Accept(a, done)
         \/ /\ timestamp' = TimestampAtInsert(a) /\ end_timestamp' = EndAtInsert(a)
            /\ UNCHANGED <<first_packet, new_codec, fs, last_mode, decoded>>
  BY DEF AcceptPacket
<1> HIDE DEF done
<1>3. /\ done.buffer \in Seq(Packet) /\ Len(done.buffer) <= MaxPackets
      /\ done.flushed \in BOOLEAN /\ done.rtp \in Types /\ done.cng \in Types
      /\ OfOneCodec(done.buffer, done.rtp, done.cng)
  BY <1>1 DEF States
<1>4. /\ {first_packet', new_codec'} \subseteq BOOLEAN /\ fs' \in Rates
      /\ {timestamp', end_timestamp'} \subseteq Serial(HalfTs)
      /\ last_mode' \in Mode /\ decoded' \in Seq(Nat)
  <2>1. CASE Accept(a, done)
    <3> DEFINE flushed == first_packet \/ done.flushed
               rate == IF flushed /\ done.buffer # <<>>
                         THEN Rate[Head(done.buffer).pt] ELSE fs
    <3>1. flushed \in BOOLEAN
      BY <1>3, InvTypes
    <3>2. rate \in Rates
      <4>1. CASE done.buffer # <<>>
        <5>1. Head(done.buffer) \in Packet
          BY <1>3, <4>1
        <5>2. Head(done.buffer).pt \in DOMAIN Rate
          BY <5>1 DEF Packet
        <5> QED
          BY <5>2, InvTypes DEF Rates
      <4>2. CASE done.buffer = <<>>
        BY <4>2, InvTypes
      <4> QED
        BY <4>1, <4>2
    <3>3. /\ first_packet' = FALSE /\ new_codec' = (new_codec \/ flushed)
          /\ timestamp' = TimestampAtInsert(a)
          /\ end_timestamp' = IF rate = fs THEN EndAtInsert(a) ELSE 0
          /\ last_mode' = IF rate = fs THEN last_mode ELSE "Normal"
          /\ fs' = rate
          /\ decoded' = IF flushed THEN <<>> ELSE decoded
      BY <2>1, Zenon DEF Accept
    <3> HIDE DEF rate, flushed
    <3>4. 0 \in Serial(HalfTs) /\ "Normal" \in Mode /\ <<>> \in Seq(Nat)
      BY Bounds DEF Serial, Mode
    <3> QED
      BY <3>1, <3>2, <3>3, <3>4, InvTypes, EndType
  <2>2. CASE /\ timestamp' = TimestampAtInsert(a) /\ end_timestamp' = EndAtInsert(a)
             /\ UNCHANGED <<first_packet, new_codec, fs, last_mode, decoded>>
    BY <2>2, InvTypes, EndType
  <2> QED
    BY <1>2, <2>1, <2>2
<1>5. OneCodec'
  BY <1>2, <1>3 DEF OneCodec, OfOneCodec
<1>6. \A at \in ToSet(decoded') : at \in Nat
  BY <1>4, Members
<1>7. TypeOK'
  BY <1>2, <1>3, <1>4, <1>6 DEF Inv, TypeOK, Types, Serial, Rates
<1> QED
  BY <1>2, <1>3, <1>4, <1>5, <1>7 DEF Inv

\* What a call of GetAudio comes to, once the buffer is looked at.
GetAudioBy(buffer, op) ==
  \/ GetAudioLeft(buffer, op)
  \/ GetAudioMissing(buffer, op)
  \/ GetAudioWithoutPacket(buffer, op)
  \/ \E required \in 1 .. MaxRequired : GetAudioDecode(buffer, op, required)

LEMMA CngStateType ==
  ASSUME Inv
  PROVE  CngState \in {"Off", "Rfc3389", "Internal"}
BY InvTypes DEF CngState

LEMMA WithoutPacketKeeps ==
  ASSUME Inv, NEW buffer, NEW op, Part(buffer, packet_buffer),
         UNCHANGED <<registered, types, first_packet>>,
         \/ GetAudioLeft(buffer, op)
         \/ GetAudioMissing(buffer, op)
         \/ GetAudioWithoutPacket(buffer, op)
  PROVE  Inv'
<1>1. /\ packet_buffer' = buffer /\ cng_state' = CngState
      /\ UNCHANGED <<new_codec, fs, active_decoder, decoded, first_packet>>
  BY DEF GetAudioLeft, GetAudioMissing, GetAudioWithoutPacket
<1>2. last_mode' \in Mode /\ {timestamp', end_timestamp'} \subseteq Serial(HalfTs)
  <2>1. CASE GetAudioLeft(buffer, op)
    BY <2>1, InvTypes DEF GetAudioLeft
  <2>2. CASE GetAudioMissing(buffer, op)
    BY <2>2, InvTypes DEF GetAudioMissing, Mode
  <2>3. CASE GetAudioWithoutPacket(buffer, op)
    <3>1. ConcealedModes(active_decoder) \subseteq Mode
      BY DEF ConcealedModes, Mode
    <3>2. Plus(end_timestamp, 1, HalfTs) \in Serial(HalfTs)
      <4>1. 1 \in 0 .. 2 * HalfTs /\ end_timestamp \in Serial(HalfTs)
        BY InvTypes, Bounds
      <4> QED
        BY <4>1, Bounds, SerialArithmetic DEF Plus, Serial
    <3>3. InternalCng => /\ last_mode' \in Mode
                         /\ end_timestamp' \in {end_timestamp, Plus(end_timestamp, 1, HalfTs)}
      BY <3>1 DEF InternalCng, Mode
    <3>4. \/ timestamp' = end_timestamp /\ end_timestamp' = end_timestamp
             /\ last_mode' \in ConcealedModes(active_decoder)
          \/ UNCHANGED <<timestamp, end_timestamp>> /\ last_mode' = "Rfc3389Cng"
          \/ timestamp' = timestamp /\ InternalCng
          \/ UNCHANGED <<timestamp, end_timestamp>> /\ last_mode' \in {"Normal", last_mode}
      BY <2>3, Zenon DEF GetAudioWithoutPacket
    <3>5. {"Rfc3389Cng", "Normal"} \subseteq Mode
      BY DEF Mode
    <3> QED
      BY <3>1, <3>2, <3>3, <3>4, <3>5, InvTypes
  <2> QED
    BY <2>1, <2>2, <2>3
<1> QED
  BY <1>1, <1>2, InvTypes, CngStateType, SameTypes

\* A call that decodes takes the first n packets of the buffer and drops of the
\* rest what is old; the signal goes on from base.
Takes(buffer, op, n, base, done) ==
  LET p     == Head(buffer)
      start == IF Restarts(op) THEN Ts(p.at) ELSE end_timestamp
      changed == p.pt \in registered \ Comfort /\ active_decoder # p.pt
  IN  /\ buffer # <<>> /\ n \in 1 .. Len(buffer)
      /\ \A i \in 1 .. n - 1 : Continues(buffer[i], buffer[i + 1])
      /\ packet_buffer' = DiscardOldPackets(SubSeq(buffer, n + 1, Len(buffer)),
                                            Ts(buffer[n].at), 0)
      /\ timestamp' = start
      /\ base = IF changed THEN start ELSE Ts(p.at)
      /\ new_codec' = FALSE
      /\ fs' = IF changed THEN Rate[p.pt] ELSE fs
      /\ active_decoder' = IF changed THEN p.pt ELSE active_decoder
      /\ cng_state' \in {CngState, "Off"}
      /\ last_mode' \in Mode
      /\ DecodedFrom(done, SubSeq(buffer, 1, n), base)
      /\ p.pt \notin registered \ Comfort => done.end = base
      /\ end_timestamp' = done.end
      /\ decoded' = Heard(done.ats, done.end,
                          ~(\/ new_codec \/ last_mode = "Error" \/ changed
                            \/ /\ Newer(end_timestamp, Ts(p.at))
                               /\ ~IsObsolete(Ts(p.at), end_timestamp, Horizon)))

\* What is no speech of a registered type adds nothing to the signal.
LEMMA DecodingsSilent ==
  ASSUME NEW taken, NEW base, NEW mode0, NEW does,
         NEW done \in Decodings(taken, base, mode0, does),
         Head(taken).pt \notin registered \ Comfort
  PROVE  done.end = base
<1> DEFINE ats   == [i \in DOMAIN taken |-> taken[i].at]
           quiet == IF does = "Normal" THEN mode0 ELSE "Normal"
           none  == [end |-> base, mode |-> quiet, ats |-> ats]
           pt    == Head(taken).pt
<1>1. CASE IsComfortNoise(pt)
  <2>1. done = [end |-> base, ats |-> <<>>,
                mode |-> IF does = "Rfc3389Cng" THEN does ELSE mode0]
    BY <1>1 DEF Decodings
  <2> QED
    BY <2>1
<1>2. CASE ~IsComfortNoise(pt)
  <2>1. pt \notin registered
    BY <1>2 DEF IsComfortNoise
  <2>2. done = none
    BY <1>2, <2>1 DEF Decodings
  <2> QED
    BY <2>2
<1> QED
  BY <1>1, <1>2

LEMMA DecodeTakes ==
  ASSUME Inv, NEW buffer, Part(buffer, packet_buffer), NEW op, NEW required,
         GetAudioDecode(buffer, op, required)
  PROVE  \E n, base, done : Takes(buffer, op, n, base, done)
<1> DEFINE p       == Head(buffer)
           does    == IF Restarts(op) THEN Restarted(op, p) ELSE op
           start   == IF Restarts(op) THEN Ts(p.at) ELSE end_timestamp
           taken   == Extracted(buffer, required)
           changed == p.pt \in registered \ Comfort /\ active_decoder # p.pt
           rate    == IF changed THEN Rate[p.pt] ELSE fs
           mode0   == IF rate = fs THEN last_mode ELSE "Normal"
           base    == IF changed THEN start ELSE Ts(p.at)
           goes_on == ~(\/ new_codec \/ last_mode = "Error" \/ changed
                        \/ /\ Newer(end_timestamp, Ts(p.at))
                           /\ ~IsObsolete(Ts(p.at), end_timestamp, Horizon))
<1>1. /\ buffer # <<>>
      /\ does \in {"Normal", "Merge", "Stretch", "Rfc3389Cng"}
      /\ packet_buffer' = DiscardOldPackets(SubSeq(buffer, Len(taken) + 1, Len(buffer)),
                                            Ts(Last(taken).at), 0)
      /\ timestamp' = start
      /\ new_codec' = FALSE
      /\ cng_state' = IF does = "Rfc3389Cng" THEN CngState ELSE "Off"
      /\ fs' = rate
      /\ active_decoder' = IF changed THEN p.pt ELSE active_decoder
      /\ \E done \in Decodings(taken, base, mode0, does) :
           /\ end_timestamp' = done.end
           /\ last_mode' = done.mode
           /\ decoded' = Heard(done.ats, done.end, goes_on)
  BY Zenon DEF GetAudioDecode
<1>2. buffer \in Seq(Packet)
  BY DEF Part
<1>3. PICK n \in 1 .. Len(buffer) :
        /\ taken = SubSeq(buffer, 1, n)
        /\ \A i \in 1 .. n - 1 : Continues(buffer[i], buffer[i + 1])
  BY <1>1, <1>2, ExtractedFront
<1>4. PICK done \in Decodings(taken, base, mode0, does) :
        /\ end_timestamp' = done.end
        /\ last_mode' = done.mode
        /\ decoded' = Heard(done.ats, done.end, goes_on)
  BY <1>1
<1>5. mode0 \in Mode
  BY InvTypes DEF Mode
<1>6. Len(buffer) \in Nat /\ n \in 1 - 1 .. Len(buffer) /\ 1 \in 1 .. Len(buffer) + 1
  BY <1>2
<1> HIDE DEF does, taken, base, mode0, goes_on, rate
<1>7. /\ taken \in Seq(Packet) /\ Len(taken) = n /\ taken[n] = buffer[n]
  <2>1. /\ SubSeq(buffer, 1, n) \in Seq(Packet) /\ Len(SubSeq(buffer, 1, n)) = n - 1 + 1
        /\ \A i \in 1 .. n - 1 + 1 : SubSeq(buffer, 1, n)[i] = buffer[1 + i - 1]
    BY <1>2, <1>6, Stretch
  <2>2. n - 1 + 1 = n /\ n \in 1 .. n - 1 + 1 /\ 1 + n - 1 = n
    OBVIOUS
  <2> QED
    BY <1>3, <2>1, <2>2
<1>8. taken # <<>> /\ Last(taken) = buffer[n]
  <2>1. Len(<<>>) = 0 /\ n # 0
    OBVIOUS
  <2> QED
    BY <1>7, <2>1, Zenon DEF Last
<1>9. DecodedFrom(done, taken, base)
  BY <1>1, <1>4, <1>5, <1>7, <1>8, DecodingsFrom
<1>10. DecodedFrom(done, SubSeq(buffer, 1, n), base)
  BY <1>3, <1>9
<1>11. last_mode' \in Mode
  BY <1>4, <1>9 DEF DecodedFrom
<1>12. /\ cng_state' \in {CngState, "Off"}
       /\ packet_buffer' = DiscardOldPackets(SubSeq(buffer, n + 1, Len(buffer)),
                                             Ts(buffer[n].at), 0)
  <2>1. cng_state' \in {CngState, "Off"}
    BY <1>1
  <2> QED
    BY <1>1, <1>7, <1>8, <2>1, Zenon
<1>13. p.pt \notin registered \ Comfort => done.end = base
  <2>1. Head(taken) = p
    <3>1. 1 \in 1 .. n - 1 + 1 /\ 1 + 1 - 1 = 1
      BY <1>6
    <3>2. SubSeq(buffer, 1, n)[1] = buffer[1]
      BY <1>2, <1>6, <3>1, Stretch
    <3> QED
      BY <1>3, <3>2
  <2> HIDE DEF p
  <2> QED
    BY <1>4, <2>1, DecodingsSilent
<1>14. Takes(buffer, op, n, base, done)
  BY <1>1, <1>3, <1>4, <1>10, <1>11, <1>12, <1>13, Zenon DEF Takes, base, rate, goes_on
<1> QED
  BY <1>14

\* What is left in the buffer comes after the packets taken.
LEMMA TakenRest ==
  ASSUME packet_buffer \in Seq(Packet), NEW buffer, Part(buffer, packet_buffer),
         NEW op, NEW n, NEW base, NEW done, Takes(buffer, op, n, base, done)
  PROVE  /\ Part(packet_buffer', packet_buffer)
         /\ \A q \in ToSet(packet_buffer') : \E j \in n + 1 .. Len(buffer) : q = buffer[j]
<1> DEFINE rest == SubSeq(buffer, n + 1, Len(buffer))
           S == {q \in ToSet(rest) : ~IsObsolete(Ts(q.at), Ts(buffer[n].at), 0)}
<1>1. packet_buffer' = Those(S, rest) /\ n \in 1 .. Len(buffer)
  BY DEF Takes, DiscardOldPackets
<1>2. buffer \in Seq(Packet) /\ Len(buffer) \in Nat
  <2>1. buffer \in Seq(Packet)
    BY DEF Part
  <2> QED
    BY <2>1
<1>3. n + 1 \in 1 .. Len(buffer) + 1 /\ Len(buffer) \in n + 1 - 1 .. Len(buffer)
  BY <1>1, <1>2
<1>4. /\ rest \in Seq(Packet) /\ Len(rest) = Len(buffer) - (n + 1) + 1
      /\ \A i \in 1 .. Len(buffer) - (n + 1) + 1 : rest[i] = buffer[n + 1 + i - 1]
  BY <1>2, <1>3, Stretch
<1>5. Part(rest, buffer)
  BY <1>2, <1>3, StretchPart
<1> HIDE DEF S, rest
<1>6. Part(packet_buffer', rest)
  BY <1>1, <1>4, ThosePart
<1>7. Part(packet_buffer', packet_buffer)
  BY <1>2, <1>5, <1>6, PartOfPart
<1>8. ASSUME NEW q \in ToSet(packet_buffer')
      PROVE  \E j \in n + 1 .. Len(buffer) : q = buffer[j]
  <2>1. q \in ToSet(rest)
    BY <1>6, <1>8 DEF Part
  <2>2. PICK i \in 1 .. Len(rest) : q = rest[i]
    BY <1>4, <2>1, Members
  <2>3. n + 1 + i - 1 \in n + 1 .. Len(buffer) /\ q = buffer[n + 1 + i - 1]
    BY <1>1, <1>2, <1>4, <2>2
  <2> QED
    BY <2>3
<1> QED
  BY <1>7, <1>8

LEMMA DecodeKeeps ==
  ASSUME Inv, NEW buffer, NEW op, Part(buffer, packet_buffer), NEW required,
         UNCHANGED <<registered, types, first_packet>>,
         GetAudioDecode(buffer, op, required)
  PROVE  Inv'
<1>1. PICK n, base, done : Takes(buffer, op, n, base, done)
  BY DecodeTakes
<1> DEFINE p       == Head(buffer)
           changed == p.pt \in registered \ Comfort /\ active_decoder # p.pt
           taken   == SubSeq(buffer, 1, n)
<1>2. buffer \in Seq(Packet) /\ Len(buffer) \in Nat /\ Len(buffer) <= MaxPackets
  <2>1. /\ buffer \in Seq(Packet) /\ Len(buffer) <= Len(packet_buffer)
        /\ Len(packet_buffer) \in Nat /\ Len(packet_buffer) <= MaxPackets
    BY InvTypes DEF Part
  <2>2. Len(buffer) \in Nat
    BY <2>1
  <2> QED
    BY <2>1, <2>2, Bounds
<1>3. buffer # <<>> /\ n \in 1 .. Len(buffer)
  BY <1>1 DEF Takes
<1>4. p \in Packet
  BY <1>2, <1>3
<1>5. p.at \in Nat /\ p.pt \in DOMAIN Rate
  BY <1>4 DEF Packet
<1>6. Part(packet_buffer', packet_buffer)
  BY <1>1, InvTypes, TakenRest
<1>7. timestamp' \in Serial(HalfTs) /\ base \in Serial(HalfTs)
  <2>1. Ts(p.at) \in Serial(HalfTs) /\ end_timestamp \in Serial(HalfTs)
    BY <1>5, TsType, InvTypes
  <2> HIDE DEF p
  <2> QED
    BY <1>1, <2>1 DEF Takes, p
<1>8. fs' \in Rates /\ active_decoder' \in Types
  <2>1. /\ fs' = IF changed THEN Rate[p.pt] ELSE fs
        /\ active_decoder' = IF changed THEN p.pt ELSE active_decoder
    BY <1>1, Zenon DEF Takes
  <2> HIDE DEF changed, p
  <2> QED
    BY <1>5, <2>1, InvTypes DEF Rates, Types
<1>9. /\ new_codec' = FALSE /\ cng_state' \in {CngState, "Off"} /\ last_mode' \in Mode
      /\ end_timestamp' = done.end
  BY <1>1 DEF Takes
<1>10. PICK k \in 0 .. Len(taken) :
         /\ done.ats = [i \in 1 .. k |-> taken[i].at]
         /\ (done.end = base \/ (k > 0 /\ done.end = Plus(base, k, HalfTs)))
  BY <1>1 DEF Takes, DecodedFrom
<1>11. taken \in Seq(Packet) /\ Len(taken) = n
  <2>1. 1 \in 1 .. Len(buffer) + 1 /\ n \in 1 - 1 .. Len(buffer) /\ n - 1 + 1 = n
    BY <1>2, <1>3
  <2> QED
    BY <1>2, <2>1, Stretch
<1> HIDE DEF taken
<1>12. end_timestamp' \in Serial(HalfTs)
  <2>1. k \in 0 .. 2 * HalfTs
    BY <1>2, <1>3, <1>10, <1>11, Bounds
  <2>2. Plus(base, k, HalfTs) \in Serial(HalfTs)
    BY <1>7, <2>1, SerialArithmetic
  <2> QED
    BY <1>7, <1>9, <1>10, <2>2
<1>13. decoded' \in Seq(Nat)
  <2>1. \A i \in 1 .. k : taken[i].at \in Nat
    <3>1. \A i \in 1 .. k : taken[i] \in Packet
      BY <1>10, <1>11
    <3> QED
      BY <3>1 DEF Packet
  <2>2. k \in Nat
    BY <1>10, <1>11
  <2>3. done.ats \in Seq(Nat)
    BY <1>10, <2>1, <2>2
  <2>4. \E goes_on : decoded' = Heard(done.ats, done.end, goes_on)
    BY <1>1, Zenon DEF Takes
  <2> QED
    BY <2>3, <2>4, InvTypes, HeardType
<1>14. {first_packet', new_codec'} \subseteq BOOLEAN
  BY <1>9, InvTypes
<1>15. cng_state' \in {"Off", "Rfc3389", "Internal"}
  BY <1>9, CngStateType
<1> QED
  BY <1>6, <1>7, <1>8, <1>9, <1>12, <1>13, <1>14, <1>15, SameTypes

LEMMA GetAudioKeeps ==
  ASSUME Inv, GetAudio
  PROVE  Inv'
<1>1. PICK noise \in 0 .. MaxNoise :
        LET buffer == Fresh(IF noise = 0 THEN 0 ELSE noise - 1)
        IN  \E op \in Operations(buffer, noise) : GetAudioBy(buffer, op)
  BY DEF GetAudio, GetAudioBy
<1> DEFINE buffer == Fresh(IF noise = 0 THEN 0 ELSE noise - 1)
<1>2. PICK op \in Operations(buffer, noise) : GetAudioBy(buffer, op)
  BY <1>1
<1>3. UNCHANGED <<registered, types, first_packet>>
  BY DEF GetAudio
<1>4. Part(buffer, packet_buffer)
  BY InvTypes, FreshPart
<1> HIDE DEF buffer
<1>5. CASE GetAudioLeft(buffer, op) \/ GetAudioMissing(buffer, op)
             \/ GetAudioWithoutPacket(buffer, op)
  BY <1>3, <1>4, <1>5, WithoutPacketKeeps
<1>6. CASE \E required \in 1 .. MaxRequired : GetAudioDecode(buffer, op, required)
  BY <1>3, <1>4, <1>6, DecodeKeeps
<1> QED
  BY <1>2, <1>5, <1>6 DEF GetAudioBy

LEMMA ApplicationKeeps ==
  ASSUME Inv,
         \/ FlushBuffers
         \/ \E dropped : registered' \subseteq DOMAIN Rate /\ DropTypes(dropped)
         \/ RemoveAllPayloadTypes
  PROVE  Inv'
<1>1. CASE FlushBuffers
  <2>1. Part(packet_buffer', packet_buffer) /\ decoded' \in Seq(Nat)
    <3>1. Part(<<>>, packet_buffer) /\ <<>> \in Seq(Nat)
      BY InvTypes, NoPart
    <3> QED
      BY <1>1, <3>1 DEF FlushBuffers
  <2>2. 0 \in Serial(HalfTs)
    BY Bounds DEF Serial
  <2> QED
    BY <1>1, <2>1, <2>2, InvTypes, SameTypes DEF FlushBuffers
<1>2. ASSUME NEW dropped, registered' \subseteq DOMAIN Rate, DropTypes(dropped)
      PROVE  Inv'
  <2>1. Part(packet_buffer', packet_buffer)
    <3> DEFINE S == {p \in ToSet(packet_buffer) : p.pt \notin dropped}
    <3>1. packet_buffer' = Those(S, packet_buffer)
      BY <1>2 DEF DropTypes, DiscardTypes
    <3> HIDE DEF S
    <3> QED
      BY <3>1, InvTypes, ThosePart
  <2>2. /\ packet_buffer' \in Seq(Packet) /\ Len(packet_buffer') <= MaxPackets
        /\ ToSet(packet_buffer') \subseteq ToSet(packet_buffer)
    <3>1. Len(packet_buffer) \in Nat /\ Len(packet_buffer) <= MaxPackets
      BY InvTypes
    <3> QED
      BY <2>1, <3>1, Bounds DEF Part
  <2>3. active_decoder' \in Types
    BY <1>2, InvTypes DEF DropTypes, Types
  <2>4. UNCHANGED <<types, first_packet, new_codec, timestamp, end_timestamp, fs,
                    last_mode, cng_state, decoded>>
    BY <1>2 DEF DropTypes
  <2>5. OneCodec'
    BY <2>2, <2>4 DEF Inv, OneCodec, types
  <2>6. TypeOK'
    BY <1>2, <2>2, <2>3, <2>4 DEF Inv, TypeOK, types, Types
  <2> QED
    BY <2>2, <2>4, <2>5, <2>6 DEF Inv
<1>3. CASE RemoveAllPayloadTypes
  BY <1>3 DEF RemoveAllPayloadTypes, types, Inv, TypeOK, OneCodec
<1> QED
  BY <1>1, <1>2, <1>3

\* The inductive invariant: it holds at first and is kept by every step.
LEMMA InitKeeps == Init => Inv
<1> SUFFICES ASSUME Init PROVE Inv
  OBVIOUS
<1>1. ToSet(<<>>) = {} /\ Len(<<>>) = 0 /\ <<>> \in Seq(Packet) /\ <<>> \in Seq(Nat)
  BY DEF ToSet
<1>2. OneCodec
  BY <1>1 DEF Init, OneCodec
<1>3. TypeOK
  <2>1. 0 \in 0 .. 2 * HalfTs - 1 /\ 0 <= MaxPackets
    BY Bounds
  <2>2. Len(packet_buffer) <= MaxPackets /\ \A at \in ToSet(decoded) : at \in Nat
    BY <1>1, <2>1 DEF Init
  <2> QED
    BY <2>1, <2>2 DEF Init, TypeOK, Mode
<1> QED
  BY <1>1, <1>2, <1>3 DEF Init, Inv

LEMMA NextKeeps == Inv /\ [Next]_vars => Inv'
<1> SUFFICES ASSUME Inv, [Next]_vars PROVE Inv'
  OBVIOUS
<1>1. ASSUME NEW a \in Arrivals, InsertPacketInternal(a) PROVE Inv'
  BY <1>1, AcceptKeeps, RejectKeeps DEF InsertPacketInternal
<1>2. CASE GetAudio
  BY <1>2, GetAudioKeeps
<1>3. CASE FlushBuffers
  BY <1>3, ApplicationKeeps
<1>4. registered \subseteq DOMAIN Rate /\ Changeable \subseteq DOMAIN Rate
  BY BoundAssumption DEF Inv, TypeOK
<1>5. ASSUME NEW pt \in Changeable, RegisterPayloadType(pt) PROVE Inv'
  <2>1. registered' \subseteq DOMAIN Rate /\ DropTypes({})
    BY <1>4, <1>5 DEF RegisterPayloadType
  <2> QED
    BY <2>1, ApplicationKeeps
<1>6. ASSUME NEW pt \in Changeable, RemovePayloadType(pt) PROVE Inv'
  <2>1. registered' \subseteq DOMAIN Rate /\ DropTypes({pt})
    BY <1>4, <1>6 DEF RemovePayloadType
  <2> QED
    BY <2>1, ApplicationKeeps
<1>7. ASSUME NEW S \in SUBSET Changeable, NEW changed \in SUBSET (S \cap registered),
             SetCodecs(S \cup (registered \ Changeable), changed)
      PROVE  Inv'
  <2> DEFINE new == S \cup (registered \ Changeable)
  <2>1. new \subseteq DOMAIN Rate
    BY <1>4
  <2> HIDE DEF new
  <2>2. registered' \subseteq DOMAIN Rate /\ DropTypes((registered \ new) \cup changed)
    BY <1>7, <2>1 DEF SetCodecs, new
  <2> QED
    BY <2>2, ApplicationKeeps
<1>8. CASE RemoveAllPayloadTypes
  BY <1>8, ApplicationKeeps
<1>9. CASE UNCHANGED vars
  BY <1>9 DEF vars, types, Inv, TypeOK, OneCodec
<1> QED
  BY <1>1, <1>2, <1>3, <1>5, <1>6, <1>7, <1>8, <1>9 DEF Next

\* Whatever arrives, in whatever order it is taken, and whatever payload types
\* the application removes and registers meanwhile: the variables of NetEqImpl
\* keep their types, and the packet buffer never holds more than its maximum.
THEOREM NetEqTypeCorrect == Spec => []TypeOK
<1>1. Inv => TypeOK
  BY DEF Inv
<1> QED
  BY InitKeeps, NextKeeps, <1>1, PTL DEF Spec

\* The buffer never mixes codecs, whatever is received and removed.
THEOREM NetEqOneCodec == Spec => []OneCodec
<1>1. Inv => OneCodec
  BY DEF Inv
<1> QED
  BY InitKeeps, NextKeeps, <1>1, PTL DEF Spec

-----------------------------------------------------------------------------
(* Times of the sender and timestamps *)

LEMMA TsPlus ==
  ASSUME NEW x \in Int, NEW k \in 0 .. 2 * HalfTs - 1
  PROVE  Plus(Ts(x), k, HalfTs) = Ts(x + k)
<1> DEFINE y == x + k
           a == Ts(x)
           b == Ts(y)
<1>1. y \in Int /\ y - x \in 0 .. 2 * HalfTs - 1 /\ y - x = k /\ HalfTs \in Nat /\ k \in Int
  BY Bounds
<1> HIDE DEF y
<1>2. /\ a \in Serial(HalfTs) /\ b \in Serial(HalfTs) /\ Minus(b, a, HalfTs) = k
  BY <1>1, Distance
<1> HIDE DEF a, b
<1>3. Plus(a, k, HalfTs) = b
  BY <1>1, <1>2 DEF Plus, Minus, Serial
<1> QED
  BY <1>3 DEF a, b, y

\* The timestamp that one lies ahead of by g is that of a time g ago.
LEMMA TsBack ==
  ASSUME NEW x \in Int, NEW end \in Serial(HalfTs)
  PROVE  /\ Minus(Ts(x), end, HalfTs) \in Int
         /\ end = Ts(x - Minus(Ts(x), end, HalfTs))
<1> DEFINE a == Ts(x)
           g == Minus(a, end, HalfTs)
           b == Ts(x - g)
<1>1. HalfTs \in Nat \ {0} /\ x - x \in 0 .. 2 * HalfTs - 1
  BY Bounds
<1>2. a \in Serial(HalfTs)
  BY <1>1, Distance
<1> HIDE DEF a
<1>3. g \in 0 .. 2 * HalfTs - 1
  BY <1>1, <1>2 DEF Minus, Serial
<1>4. Minus(a, g, HalfTs) = b
  <2> HIDE DEF g
  <2> QED
    BY <1>3, TsMinus DEF a
<1>5. Minus(a, g, HalfTs) = end
  BY <1>1, <1>2 DEF Minus, Serial
<1>6. g \in Int
  BY <1>1, <1>3
<1> QED
  BY <1>4, <1>5, <1>6 DEF a

LEMMA TsSame ==
  ASSUME NEW x \in Int, NEW y \in Int, x - y \in -(2 * HalfTs - 1) .. 2 * HalfTs - 1,
         Ts(x) = Ts(y)
  PROVE  x = y
<1>1. HalfTs \in Nat
  BY Bounds
<1>2. CASE x - y \in 0 .. 2 * HalfTs - 1
  BY <1>2, Distance
<1>3. CASE y - x \in 0 .. 2 * HalfTs - 1
  BY <1>3, Distance
<1> QED
  BY <1>1, <1>2, <1>3

LEMMA TsNewer ==
  ASSUME NEW x \in Int, NEW y \in Int, y - x \in -(HalfTs - 1) .. HalfTs - 1
  PROVE  Newer(Ts(y), Ts(x)) <=> x < y
<1>1. y - x \in 1 - HalfTs .. HalfTs - 1
  BY CircleAssumption
<1> QED
  BY <1>1, NewerTimes, Zenon DEF Newer

\* What lies behind the limit, but by less than the horizon, is obsolete.
LEMMA TsObsolete ==
  ASSUME NEW x \in Int, NEW d \in 1 .. Horizon - 1
  PROVE  IsObsolete(Ts(x), Ts(x + d), Horizon)
<1>1. HalfTs \in Nat \ {0} /\ Horizon \in 2 .. HalfTs - 1 /\ d \in Int
  BY Bounds, HorizonAssumption
<1> DEFINE y == x + d
           z == y - Horizon
<1>2. /\ y \in Int /\ y - x \in -(HalfTs - 1) .. HalfTs - 1 /\ x < y
      /\ z \in Int /\ x - z \in -(HalfTs - 1) .. HalfTs - 1 /\ z < x
      /\ Horizon \in 0 .. 2 * HalfTs - 1
  BY <1>1
<1> HIDE DEF y
<1>3. Minus(Ts(y), Horizon, HalfTs) = Ts(z)
  BY <1>2, TsMinus
<1> HIDE DEF z
<1>4. Newer(Ts(y), Ts(x)) /\ Newer(Ts(x), Ts(z))
  BY <1>2, TsNewer
<1> QED
  BY <1>3, <1>4 DEF IsObsolete, Newer, y

-----------------------------------------------------------------------------
(* Packets are decoded once: the invariant *)

\* A list of times that increase.
Rising(ats) == \A i \in 2 .. Len(ats) : ats[i - 1] < ats[i]

Apart(list) == \A p, q \in ToSet(list) : p.at - q.at \in -Lead .. Lead

\* The end of the signal is behind the last time decoded.
EndsBehind(ats, end) == ats # <<>> => \E e \in 1 .. HalfTs : end = Ts(Last(ats) + e)

\* The packets of the list are not far from the last time decoded, nor from the
\* end of the signal.
NearLast(list, ats) == ats # <<>> => \A p \in ToSet(list) : p.at - Last(ats) \in -(2 * Lag) .. Lead
NearEnd(list, end) ==
  \A p \in ToSet(list) : \E d \in -Lead .. Horizon - 1 : end = Ts(p.at + d)

Paced ==
  /\ Ordered(packet_buffer) /\ Apart(packet_buffer)
  /\ first_packet => packet_buffer = <<>> /\ decoded = <<>>
  /\ Rising(decoded)
  /\ EndsBehind(decoded, end_timestamp)
  /\ NearLast(packet_buffer, decoded)
  /\ ~new_codec => NearEnd(packet_buffer, end_timestamp)

\* Of k times from x on, those before x + s are heard, the last of them right
\* before.
UpTo(heard, x, s) ==
  /\ heard \in Seq(Nat)
  /\ \A i, j \in 1 .. Len(heard) : i < j => heard[i] < heard[j]
  /\ \A i \in 1 .. Len(heard) : heard[i] >= x /\ heard[i] < x + s
  /\ s >= 1 => heard # <<>> /\ heard[Len(heard)] = x + s - 1

LEMMA HeardUpTo ==
  ASSUME NEW x \in Nat, NEW k \in 0 .. Lead + 1, NEW s \in -Lead .. k, NEW ats,
         ats = [i \in 1 .. k |-> x + i - 1]
  PROVE  UpTo(Those({at \in ToSet(ats) : Newer(Ts(x + s), Ts(at))}, ats), x, s)
<1> DEFINE S == {at \in ToSet(ats) : Newer(Ts(x + s), Ts(at))}
           heard == Those(S, ats)
<1>1. /\ Lead \in Nat /\ HalfTs \in Nat \ {0} /\ 2 * Lead < HalfTs /\ Lead < HalfTs - 1
      /\ k \in Nat /\ s \in Int /\ x + s \in Int
  BY Bounds
<1>2. ats \in Seq(Nat) /\ Len(ats) = k /\ \A i \in 1 .. k : ats[i] = x + i - 1
  <2>1. \A i \in 1 .. k : x + i - 1 \in Nat
    BY <1>1
  <2> QED
    BY <1>1, <2>1
<1>3. \A at : at \in ToSet(ats) <=> \E i \in 1 .. k : at = ats[i]
  <2>1. ats \in Seq(Nat)
    BY <1>2
  <2>2. \A at : at \in ToSet(ats) <=> \E i \in 1 .. Len(ats) : at = ats[i]
    BY ONLY <2>1, Members
  <2> QED
    BY <1>2, <2>2
<1>4. ASSUME NEW i \in 1 .. k PROVE Newer(Ts(x + s), Ts(x + i - 1)) <=> x + i - 1 < x + s
  <2> DEFINE y == x + s
             z == x + i - 1
  <2>1. y \in Int /\ z \in Int /\ y - z \in -(HalfTs - 1) .. HalfTs - 1
    BY <1>1
  <2> HIDE DEF y, z
  <2>2. Newer(Ts(y), Ts(z)) <=> z < y
    BY <2>1, TsNewer
  <2> QED
    BY <2>2 DEF y, z
<1> HIDE DEF S
<1>5. PICK f : Finds(f, heard, S, ats, Len(ats))
  BY <1>2, ThoseFound
<1>6. heard \in Seq(Nat) /\ ToSet(heard) = ToSet(ats) \cap S
  BY <1>2, ThoseFound, ThoseMembers
<1> HIDE DEF heard
<1>7. ASSUME NEW i \in 1 .. Len(heard)
      PROVE  f[i] \in 1 .. k /\ heard[i] = x + f[i] - 1 /\ heard[i] < x + s
  <2>1. f[i] \in 1 .. k /\ heard[i] = ats[f[i]] /\ heard[i] \in S
    BY <1>2, <1>5 DEF Finds
  <2>2. heard[i] = x + f[i] - 1
    BY <1>2, <2>1
  <2>3. Newer(Ts(x + s), Ts(heard[i]))
    BY <2>1 DEF S
  <2> QED
    BY <1>4, <2>1, <2>2, <2>3
<1>8. \A i, j \in 1 .. Len(heard) : i < j => heard[i] < heard[j]
  <2>1. ASSUME NEW i \in 1 .. Len(heard), NEW j \in 1 .. Len(heard), i < j
        PROVE  heard[i] < heard[j]
    <3>1. f[i] < f[j]
      BY <1>5, <2>1 DEF Finds
    <3> QED
      BY <1>1, <1>7, <3>1
  <2> QED
    BY <2>1
<1>9. \A i \in 1 .. Len(heard) : heard[i] >= x /\ heard[i] < x + s
  <2>1. ASSUME NEW i \in 1 .. Len(heard) PROVE heard[i] >= x /\ heard[i] < x + s
    <3>1. f[i] \in 1 .. k /\ heard[i] = x + f[i] - 1 /\ heard[i] < x + s
      BY <1>7
    <3> QED
      BY <1>1, <3>1
  <2> QED
    BY <2>1
<1>10. ASSUME s >= 1 PROVE heard # <<>> /\ heard[Len(heard)] = x + s - 1
  <2>1. s \in 1 .. k
    BY <1>1, <1>10
  <2>2. ats[s] = x + s - 1 /\ ats[s] \in ToSet(ats) /\ ats[s] < x + s
    BY <1>1, <1>2, <1>3, <2>1
  <2>3. ats[s] \in S
    BY <1>4, <2>1, <2>2 DEF S
  <2>4. ats[s] \in ToSet(heard)
    BY <1>6, <2>2, <2>3
  <2>5. PICK j \in 1 .. Len(heard) : ats[s] = heard[j]
    BY <1>6, <2>4, Members
  <2> DEFINE n == Len(heard)
  <2>6. n \in Nat
    BY <1>6
  <2>7. n \in 1 .. n /\ j \in 1 .. n /\ n > 0
    BY <2>5, <2>6
  <2>8. heard[n] < x + s /\ heard[n] \in Nat
    BY <1>6, <1>9, <2>7
  <2>9. heard[j] <= heard[n]
    <3>1. CASE j = n
      BY <2>8, <3>1
    <3>2. CASE j < n
      <4>1. heard[j] < heard[n]
        BY <1>8, <2>7, <3>2
      <4>2. heard[j] \in Nat
        BY <1>6
      <4> QED
        BY <2>8, <4>1, <4>2
    <3> QED
      BY <2>6, <2>7, <3>1, <3>2
  <2>10. heard[n] = x + s - 1
    <3> DEFINE h == heard[n]
    <3>1. h < x + s /\ h \in Nat /\ x + s - 1 <= h
      BY <2>2, <2>5, <2>8, <2>9
    <3> HIDE DEF h
    <3>2. h = x + s - 1
      BY <1>1, <3>1
    <3> QED
      BY <3>2 DEF h
  <2>11. heard # <<>>
    <3>1. Len(<<>>) = 0
      OBVIOUS
    <3> QED
      BY <2>7, <3>1
  <2> QED
    BY <2>10, <2>11
<1> QED
  BY <1>6, <1>8, <1>9, <1>10 DEF S, heard, UpTo

\* The history after such a call: it rises, and ends right before the end of the
\* signal, or stays where it was, or is empty.
HeardBy(new, x, s, goes_on) ==
  /\ new \in Seq(Nat) /\ Rising(new)
  /\ \/ s >= 1 /\ new # <<>> /\ Last(new) = x + s - 1
     \/ s < 1 /\ new = <<>>
     \/ s < 1 /\ goes_on /\ decoded # <<>> /\ new # <<>> /\ Last(new) = Last(decoded)

LEMMA HeardGoesOn ==
  ASSUME NEW x \in Nat, NEW k \in 0 .. Lead + 1, NEW s \in -Lead .. k, NEW ats,
         ats = [i \in 1 .. k |-> x + i - 1], NEW goes_on \in BOOLEAN,
         decoded \in Seq(Nat), goes_on /\ decoded # <<>> => Last(decoded) < x
  PROVE  HeardBy(Heard(ats, Ts(x + s), goes_on), x, s, goes_on)
<1> DEFINE heard == Those({at \in ToSet(ats) : Newer(Ts(x + s), Ts(at))}, ats)
           before == IF goes_on /\ decoded # <<>> THEN <<Last(decoded)>> ELSE <<>>
           new == before \o heard
<1>1. UpTo(heard, x, s)
  BY HeardUpTo, Zenon
<1>2. Heard(ats, Ts(x + s), goes_on) = new
  BY Zenon DEF Heard
<1> HIDE DEF heard
<1>3. /\ heard \in Seq(Nat)
      /\ \A i, j \in 1 .. Len(heard) : i < j => heard[i] < heard[j]
      /\ \A i \in 1 .. Len(heard) : heard[i] >= x /\ heard[i] < x + s
      /\ s >= 1 => heard # <<>> /\ heard[Len(heard)] = x + s - 1
  BY <1>1, Zenon DEF UpTo
<1>4. heard \in Seq(Nat)
  BY <1>3
<1>5. \A i \in 1 .. Len(heard) : heard[i] >= x /\ heard[i] < x + s
  BY <1>3
<1>6. s \in Int /\ Len(heard) \in Nat
  BY <1>4, Bounds
<1>7. s < 1 => heard = <<>>
  <2>1. ASSUME s < 1, heard # <<>> PROVE FALSE
    <3>1. 1 \in 1 .. Len(heard) /\ heard[1] \in Nat
      BY <1>3, <2>1
    <3>2. heard[1] >= x /\ heard[1] < x + s
      BY <1>3, <3>1
    <3> QED
      BY <1>6, <2>1, <3>1, <3>2
  <2> QED
    BY <2>1
<1>8. s >= 1 \/ s < 1
  BY <1>6
<1>9. CASE ~(goes_on /\ decoded # <<>>)
  <2>1. before = <<>>
    BY <1>9
  <2>2. new = heard
    BY <1>3, <2>1
  <2> HIDE DEF before, new
  <2>3. Rising(heard)
    <3>1. \A i \in 2 .. Len(heard) : i \in 1 .. Len(heard) /\ i - 1 \in 1 .. Len(heard) /\ i - 1 < i
      BY <1>6
    <3> QED
      BY <1>3, <3>1 DEF Rising
  <2>4. s >= 1 => Last(heard) = x + s - 1
    BY <1>3 DEF Last
  <2> QED
    BY <1>3, <1>2, <1>7, <1>8, <2>2, <2>3, <2>4 DEF HeardBy
<1>10. CASE goes_on /\ decoded # <<>>
  <2> DEFINE last == Last(decoded)
  <2>1. last \in Nat /\ last < x
    BY <1>10 DEF Last
  <2>2. before = <<last>>
    BY <1>10
  <2> HIDE DEF last, before
  <2>3. /\ before \in Seq(Nat) /\ Len(before) = 1 /\ before[1] = last
    BY <2>1, <2>2
  <2>4. /\ new \in Seq(Nat) /\ Len(new) = 1 + Len(heard)
        /\ \A i \in 1 .. 1 + Len(heard) : new[i] = IF i <= 1 THEN before[i] ELSE heard[i - 1]
    <3>1. /\ new \in Seq(Nat) /\ Len(new) = Len(before) + Len(heard)
          /\ \A i \in 1 .. Len(before) + Len(heard) :
               new[i] = IF i <= Len(before) THEN before[i] ELSE heard[i - Len(before)]
      BY <1>3, <2>3, ConcatProperties
    <3> HIDE DEF new
    <3> QED
      BY <2>3, <3>1
  <2> HIDE DEF new
  <2>5. Rising(new)
    <3>1. ASSUME NEW i \in 2 .. Len(new) PROVE new[i - 1] < new[i]
      <4>1. /\ i \in 1 .. 1 + Len(heard) /\ i - 1 \in 1 .. 1 + Len(heard)
            /\ i - 1 \in 1 .. Len(heard) /\ ~(i <= 1)
        BY <1>6, <2>4
      <4>2. new[i] = heard[i - 1] /\ heard[i - 1] \in Nat /\ heard[i - 1] >= x
        <5> DEFINE j == i - 1
        <5>1. new[i] = heard[j] /\ j \in 1 .. Len(heard)
          BY <2>4, <4>1
        <5> HIDE DEF j
        <5>2. heard[j] \in Nat
          BY <1>4, <5>1
        <5>3. heard[j] >= x
          BY <1>5, <5>1
        <5> QED
          BY <5>1, <5>2, <5>3 DEF j
      <4>3. CASE i = 2
        <5>1. new[i - 1] = last
          BY <2>3, <2>4, <4>1, <4>3
        <5> QED
          BY <2>1, <4>2, <5>1
      <4>4. CASE i > 2
        <5>1. i - 1 - 1 \in 1 .. Len(heard) /\ ~(i - 1 <= 1) /\ i - 1 - 1 < i - 1
          BY <1>6, <2>4, <4>4
        <5>2. new[i - 1] = heard[i - 1 - 1]
          BY <2>4, <4>1, <5>1
        <5> QED
          BY <1>3, <4>1, <4>2, <5>1, <5>2
      <4> QED
        BY <4>1, <4>3, <4>4
    <3> QED
      BY <3>1 DEF Rising
  <2>6. new # <<>>
    <3>1. Len(<<>>) = 0 /\ 1 + Len(heard) # 0
      BY <1>6
    <3> QED
      BY <2>4, <3>1, Zenon
  <2>7. CASE s >= 1
    <3>1. Len(heard) > 0 /\ heard[Len(heard)] = x + s - 1
      BY <1>3, <2>7
    <3>2. /\ Len(new) \in 1 .. 1 + Len(heard) /\ ~(Len(new) <= 1) /\ Len(new) - 1 = Len(heard)
      BY <1>6, <2>4, <3>1
    <3>3. Last(new) = x + s - 1
      BY <2>4, <3>1, <3>2 DEF Last
    <3> QED
      BY <1>2, <2>4, <2>5, <2>6, <2>7, <3>3 DEF HeardBy
  <2>8. CASE s < 1
    <3>1. Len(heard) = 0
      BY <1>7, <2>8
    <3>2. Len(new) = 1 /\ new[1] = last
      BY <2>3, <2>4, <3>1
    <3>3. Last(new) = Last(decoded)
      BY <3>2 DEF Last, last
    <3> QED
      BY <1>2, <1>10, <2>4, <2>5, <2>6, <2>8, <3>3 DEF HeardBy
  <2> QED
    BY <1>8, <2>7, <2>8
<1> QED
  BY <1>9, <1>10

\* Of what is kept for a codec that goes on, nothing lies behind the end.
LEMMA FreshAhead ==
  ASSUME Inv, Paced, ~new_codec, NEW noise, NEW p \in ToSet(Fresh(noise))
  PROVE  \E d \in -Lead .. 0 : end_timestamp = Ts(p.at + d)
<1>1. p \in ToSet(packet_buffer) /\ ~IsObsolete(Ts(p.at), end_timestamp, Horizon)
  BY InvTypes, FreshPart DEF Part
<1>2. p.at \in Nat
  <2>1. p \in Packet
    BY <1>1, InvTypes, Members
  <2> QED
    BY <2>1 DEF Packet
<1>3. PICK d \in -Lead .. Horizon - 1 : end_timestamp = Ts(p.at + d)
  BY <1>1 DEF Paced, NearEnd
<1>4. ASSUME d \in 1 .. Horizon - 1 PROVE FALSE
  <2>1. p.at \in Int
    BY <1>2
  <2>2. IsObsolete(Ts(p.at), Ts(p.at + d), Horizon)
    BY <1>4, <2>1, TsObsolete
  <2> QED
    BY <1>1, <1>3, <2>2, Zenon
<1>5. d \in -Lead .. 0
  BY <1>3, <1>4, Bounds
<1> QED
  BY <1>3, <1>5

\* Packets that continue one another follow in time without a gap.
LEMMA Gapless ==
  ASSUME NEW buffer \in Seq(Packet), Ordered(buffer), Apart(buffer),
         NEW n \in 1 .. Len(buffer),
         \A i \in 1 .. n - 1 : Continues(buffer[i], buffer[i + 1])
  PROVE  /\ \A i \in 1 .. n : buffer[i].at = buffer[1].at + i - 1
         /\ n <= Lead + 1
<1>1. /\ \A i \in 1 .. Len(buffer) : buffer[i] \in ToSet(buffer) /\ buffer[i].at \in Nat
      /\ n \in Nat /\ Len(buffer) \in Nat
  <2>1. \A i \in 1 .. Len(buffer) : buffer[i] \in Packet
    OBVIOUS
  <2> QED
    BY <2>1, Members DEF Packet
<1> DEFINE T == {i \in 0 .. n - 1 : buffer[i + 1].at = buffer[1].at + i}
<1>2. 0 \in T
  BY <1>1
<1>3. ASSUME NEW i \in 0 .. (n - 1) - 1, i \in T PROVE i + 1 \in T
  <2> DEFINE p == buffer[i + 1]
             q == buffer[i + 1 + 1]
  <2>1. i + 1 \in 1 .. n - 1 /\ i + 1 \in 1 .. Len(buffer) /\ i + 1 + 1 \in 1 .. Len(buffer)
    BY <1>1
  <2>2. p.at \in Nat /\ q.at \in Nat /\ p.at < q.at /\ q.at - p.at \in -Lead .. Lead
    <3>1. p \in ToSet(buffer) /\ q \in ToSet(buffer) /\ p.at \in Nat /\ q.at \in Nat
      BY <1>1, <2>1
    <3>2. q.at - p.at \in -Lead .. Lead
      BY <3>1 DEF Apart
    <3>3. i + 1 < i + 1 + 1
      BY <2>1
    <3>4. p.at < q.at
      BY <2>1, <3>3 DEF Ordered
    <3> QED
      BY <3>1, <3>2, <3>4
  <2>3. Minus(Ts(q.at), Ts(p.at), HalfTs) <= 1
    BY <2>1 DEF Continues
  <2> HIDE DEF p, q
  <2>4. q.at - p.at \in 0 .. 2 * HalfTs - 1
    BY <2>2, Bounds
  <2>5. Minus(Ts(q.at), Ts(p.at), HalfTs) = q.at - p.at
    BY <2>2, <2>4, Distance
  <2>6. q.at = p.at + 1
    BY <2>2, <2>3, <2>5
  <2>7. p.at = buffer[1].at + i
    BY <1>3 DEF p
  <2>8. buffer[1].at \in Nat
    BY <1>1, <2>1
  <2>9. q.at = buffer[1].at + (i + 1)
    BY <2>6, <2>7, <2>8
  <2> QED
    BY <2>1, <2>9 DEF q
<1> HIDE DEF T
<1>4. 0 .. n - 1 \subseteq T
  <2>1. n - 1 \in Nat
    OBVIOUS
  <2> QED
    BY <1>2, <1>3, <2>1, Induction
<1>5. ASSUME NEW i \in 1 .. n PROVE buffer[i].at = buffer[1].at + i - 1
  <2>1. i - 1 \in T
    BY <1>4
  <2>2. buffer[(i - 1) + 1].at = buffer[1].at + (i - 1) /\ (i - 1) + 1 = i
    BY <2>1 DEF T
  <2>3. buffer[1].at \in Nat
    BY <1>1
  <2> QED
    BY <2>2, <2>3
<1>6. n <= Lead + 1
  <2>1. n \in 1 .. n /\ 1 \in 1 .. Len(buffer)
    BY <1>1
  <2>2. buffer[n].at - buffer[1].at \in -Lead .. Lead
    BY <1>1, <2>1 DEF Apart
  <2>3. buffer[n].at = buffer[1].at + n - 1 /\ buffer[1].at \in Nat
    BY <1>1, <1>5, <2>1
  <2> QED
    BY <1>1, <2>2, <2>3, Bounds
<1> QED
  BY <1>5, <1>6

\* What the packets taken are decoded into: s is where the signal ends, counted
\* from the time of the first of them.
LEMMA DecodeHears ==
  ASSUME Inv, Paced, NEW noise, NEW op, NEW n, NEW base, NEW done,
         Takes(Fresh(noise), op, n, base, done)
  PROVE  LET buffer == Fresh(noise)
             x == buffer[1].at
         IN  \E k \in 0 .. n, s \in -Lead .. n, goes_on \in BOOLEAN :
               /\ n <= Lead + 1 /\ s <= k
               /\ \A i \in 1 .. n : buffer[i].at = x + i - 1
               /\ end_timestamp' = Ts(x + s)
               /\ HeardBy(decoded', x, s, goes_on)
               /\ goes_on => s >= 0
               /\ goes_on /\ decoded # <<>> => x > Last(decoded)
               /\ \/ s \in {0, k}
                  \/ /\ ~new_codec
                     /\ \E d \in -Lead .. 0 : end_timestamp = Ts(x + d) /\ s \in {d, d + k}
<1> DEFINE buffer  == Fresh(noise)
           p       == Head(buffer)
           x       == buffer[1].at
           start   == IF Restarts(op) THEN Ts(p.at) ELSE end_timestamp
           changed == p.pt \in registered \ Comfort /\ active_decoder # p.pt
           goes_on == ~(\/ new_codec \/ last_mode = "Error" \/ changed
                        \/ /\ Newer(end_timestamp, Ts(p.at))
                           /\ ~IsObsolete(Ts(p.at), end_timestamp, Horizon))
           taken   == SubSeq(buffer, 1, n)
<1>1. /\ buffer # <<>> /\ n \in 1 .. Len(buffer)
      /\ \A i \in 1 .. n - 1 : Continues(buffer[i], buffer[i + 1])
      /\ base = IF changed THEN start ELSE Ts(p.at)
      /\ DecodedFrom(done, taken, base)
      /\ end_timestamp' = done.end
      /\ decoded' = Heard(done.ats, done.end, goes_on)
  BY Zenon DEF Takes
<1>2. Part(buffer, packet_buffer)
  BY InvTypes, FreshPart
<1>3. /\ buffer \in Seq(Packet) /\ Len(buffer) \in Nat
      /\ Ordered(buffer) /\ Apart(buffer)
  <2>1. buffer \in Seq(Packet)
    BY <1>2 DEF Part
  <2> QED
    BY <1>2, <2>1 DEF Part, Paced, Apart
<1>4. ~new_codec => \E d \in -Lead .. 0 : end_timestamp = Ts(buffer[1].at + d)
  <2>1. buffer[1] \in ToSet(Fresh(noise))
    BY <1>1, <1>3, Members
  <2> HIDE DEF buffer
  <2> QED
    BY <2>1, FreshAhead
<1> HIDE DEF buffer
<1>5. p = buffer[1] /\ p \in Packet /\ x \in Nat
  <2>1. p = buffer[1] /\ p \in Packet
    BY <1>1, <1>3
  <2> QED
    BY <2>1 DEF Packet
<1>6. (\A i \in 1 .. n : buffer[i].at = x + i - 1) /\ n <= Lead + 1
  BY <1>1, <1>3, Gapless
<1>7. taken \in Seq(Packet) /\ Len(taken) = n /\ \A i \in 1 .. n : taken[i] = buffer[i]
  <2>1. 1 \in 1 .. Len(buffer) + 1 /\ n \in 1 - 1 .. Len(buffer) /\ n - 1 + 1 = n
    BY <1>1, <1>3
  <2>2. \A i \in 1 .. n : 1 + i - 1 = i
    OBVIOUS
  <2>3. /\ taken \in Seq(Packet) /\ Len(taken) = n - 1 + 1
        /\ \A i \in 1 .. n - 1 + 1 : taken[i] = buffer[1 + i - 1]
    BY <1>3, <2>1, Stretch
  <2> QED
    BY <2>1, <2>2, <2>3
<1> HIDE DEF taken
<1>8. PICK k \in 0 .. n :
        /\ done.ats = [i \in 1 .. k |-> taken[i].at]
        /\ (done.end = base \/ (k > 0 /\ done.end = Plus(base, k, HalfTs)))
  BY <1>1, <1>7 DEF DecodedFrom
<1>9. done.ats = [i \in 1 .. k |-> x + i - 1]
  <2>1. \A i \in 1 .. k : taken[i].at = x + i - 1
    BY <1>1, <1>6, <1>7, <1>8
  <2> HIDE DEF x
  <2> QED
    BY <1>8, <2>1
<1>10. \E c \in -Lead .. 0 :
         /\ base = Ts(x + c)
         /\ \/ c = 0
            \/ changed /\ ~new_codec /\ end_timestamp = Ts(x + c)
  <2>1. CASE changed /\ ~Restarts(op)
    <3>1. ~new_codec /\ base = end_timestamp
      BY <1>1, <2>1 DEF Restarts
    <3> HIDE DEF changed
    <3>2. PICK d \in -Lead .. 0 : end_timestamp = Ts(x + d)
      BY <1>4, <3>1
    <3> QED
      BY <2>1, <3>1, <3>2
  <2>2. CASE ~(changed /\ ~Restarts(op))
    <3>1. base = Ts(p.at)
      BY <1>1, <2>2
    <3>2. base = Ts(x + 0) /\ 0 \in -Lead .. 0
      BY <1>5, <3>1, Bounds
    <3> QED
      BY <3>2
  <2> QED
    BY <2>1, <2>2
<1>11. PICK c \in -Lead .. 0 :
         /\ base = Ts(x + c)
         /\ \/ c = 0
            \/ changed /\ ~new_codec /\ end_timestamp = Ts(x + c)
  BY <1>10
<1> HIDE DEF x
<1>12. /\ Lead \in Nat /\ HalfTs \in Nat /\ 2 * Lead < HalfTs /\ Lead < HalfTs - 1
       /\ k \in Nat /\ n \in Nat /\ n \in 1 .. Lead + 1 /\ k <= n /\ c \in Int
  BY <1>1, <1>3, <1>6, <1>8, Bounds
<1>13. \E m \in {0, k} : done.end = Ts(x + (c + m))
  <2>1. CASE done.end = base
    <3>1. done.end = Ts(x + (c + 0))
      BY <1>5, <1>11, <1>12, <2>1
    <3> QED
      BY <3>1
  <2>2. CASE done.end = Plus(base, k, HalfTs)
    <3> DEFINE y == x + c
    <3>1. y \in Int /\ k \in 0 .. 2 * HalfTs - 1 /\ base = Ts(y)
      BY <1>5, <1>11, <1>12
    <3> HIDE DEF y
    <3>2. Plus(Ts(y), k, HalfTs) = Ts(y + k)
      BY <3>1, TsPlus
    <3>3. y + k = x + (c + k)
      BY <1>5, <1>12 DEF y
    <3> QED
      BY <2>2, <3>1, <3>2, <3>3
  <2> QED
    BY <1>8, <2>1, <2>2
<1>14. PICK m \in {0, k} : done.end = Ts(x + (c + m))
  BY <1>13
<1> DEFINE s == c + m
<1>15. s \in -Lead .. k /\ s \in -Lead .. n /\ k \in 0 .. Lead + 1 /\ s <= k
  BY <1>11, <1>12, <1>14
<1>16. goes_on \in BOOLEAN /\ (goes_on => c = 0 /\ ~new_codec)
  BY <1>11
<1>17. ASSUME goes_on, decoded # <<>> PROVE x > Last(decoded)
  <2> DEFINE l == Last(decoded)
  <2>1. PICK d \in -Lead .. 0 : end_timestamp = Ts(x + d)
    BY <1>4, <1>16, <1>17 DEF x
  <2>2. PICK e \in 1 .. HalfTs : end_timestamp = Ts(l + e)
    BY <1>17 DEF Paced, EndsBehind
  <2>3. l \in Nat
    BY <1>17, InvTypes DEF Last
  <2>4. x - l \in -(2 * Lag) .. Lead
    <3>1. p \in ToSet(packet_buffer)
      <4>1. buffer[1] \in ToSet(buffer)
        BY <1>1, <1>3, Members
      <4> QED
        BY <1>2, <1>5, <4>1 DEF Part
    <3> QED
      BY <1>5, <1>17, <3>1 DEF Paced, NearLast, x
  <2> HIDE DEF l
  <2> DEFINE y == x + d
             z == l + e
  <2>5. y \in Int /\ z \in Int /\ y - z \in -(2 * HalfTs - 1) .. 2 * HalfTs - 1
    BY <1>5, <1>12, <2>1, <2>2, <2>3, <2>4, Bounds
  <2>6. Ts(y) = Ts(z)
    BY <2>1, <2>2
  <2> HIDE DEF y, z
  <2>7. y = z
    BY <2>5, <2>6, TsSame
  <2>8. x > l
    BY <1>5, <1>12, <2>1, <2>2, <2>3, <2>7 DEF y, z
  <2> QED
    BY <2>8 DEF l
<1> HIDE DEF goes_on, s
<1>18. HeardBy(decoded', x, s, goes_on)
  <2>1. decoded \in Seq(Nat)
    BY InvTypes
  <2>2. goes_on /\ decoded # <<>> => Last(decoded) < x
    <3>1. decoded # <<>> => Last(decoded) \in Nat
      BY <2>1 DEF Last
    <3> QED
      BY <1>5, <1>17, <3>1
  <2>3. HeardBy(Heard(done.ats, Ts(x + s), goes_on), x, s, goes_on)
    BY <1>5, <1>9, <1>15, <1>16, <2>1, <2>2, HeardGoesOn
  <2>4. done.end = Ts(x + s)
    BY <1>14 DEF s
  <2>5. decoded' = Heard(done.ats, Ts(x + s), goes_on)
    BY <1>1, <2>4
  <2> QED
    BY <2>3, <2>5, Zenon
<1>19. end_timestamp' = Ts(x + s)
  BY <1>1, <1>14 DEF s
<1>20. goes_on => s >= 0
  BY <1>12, <1>14, <1>16 DEF s
<1>21. \/ s \in {0, k}
       \/ /\ ~new_codec
          /\ \E d \in -Lead .. 0 : end_timestamp = Ts(x + d) /\ s \in {d, d + k}
  <2>1. CASE c = 0
    BY <1>12, <1>14, <2>1 DEF s
  <2>2. CASE ~new_codec /\ end_timestamp = Ts(x + c)
    <3>1. s \in {c, c + k}
      BY <1>12, <1>14 DEF s
    <3> QED
      BY <1>11, <2>2, <3>1
  <2> QED
    BY <1>11, <2>1, <2>2
<1> DEFINE Found(j, t, g) ==
             /\ n <= Lead + 1 /\ t <= j
             /\ \A i \in 1 .. n : buffer[i].at = x + i - 1
             /\ end_timestamp' = Ts(x + t)
             /\ HeardBy(decoded', x, t, g)
             /\ g => t >= 0
             /\ g /\ decoded # <<>> => x > Last(decoded)
             /\ \/ t \in {0, j}
                \/ /\ ~new_codec
                   /\ \E d \in -Lead .. 0 : end_timestamp = Ts(x + d) /\ t \in {d, d + j}
<1>22. k \in 0 .. n /\ s \in -Lead .. n /\ goes_on \in BOOLEAN
  BY <1>8, <1>15, <1>16
<1>23. Found(k, s, goes_on)
  BY <1>6, <1>15, <1>17, <1>18, <1>19, <1>20, <1>21
<1>24. \E j \in 0 .. n, t \in -Lead .. n, g \in BOOLEAN : Found(j, t, g)
  <2> HIDE DEF Found
  <2> QED
    BY <1>22, <1>23
<1> QED
  BY <1>24, Zenon DEF x, buffer
-----------------------------------------------------------------------------
(* Every step keeps the invariant *)

\* A step that only takes packets away, and may move the end of the signal.
LEMMA LessPaced ==
  ASSUME Paced, packet_buffer \in Seq(Packet), Part(packet_buffer', packet_buffer),
         UNCHANGED <<first_packet, new_codec, decoded>>,
         EndsBehind(decoded, end_timestamp'),
         ~new_codec => NearEnd(packet_buffer', end_timestamp')
  PROVE  Paced'
<1>1. /\ ToSet(packet_buffer') \subseteq ToSet(packet_buffer) /\ Ordered(packet_buffer')
      /\ packet_buffer' \in Seq(Packet)
  BY DEF Paced, Part
<1>2. Apart(packet_buffer') /\ NearLast(packet_buffer', decoded)
  BY <1>1 DEF Paced, Apart, NearLast
<1>3. first_packet => packet_buffer' = <<>>
  <2>1. CASE first_packet
    <3>1. Len(packet_buffer) = 0
      BY <2>1 DEF Paced
    <3>2. Len(packet_buffer') \in Nat /\ Len(packet_buffer') <= 0
      BY <1>1, <3>1 DEF Part
    <3> QED
      BY <1>1, <3>2
  <2> QED
    BY <2>1
<1>4. /\ first_packet' => packet_buffer' = <<>> /\ decoded' = <<>>
      /\ Rising(decoded')
  BY <1>3 DEF Paced
<1>5. /\ EndsBehind(decoded', end_timestamp') /\ NearLast(packet_buffer', decoded')
      /\ ~new_codec' => NearEnd(packet_buffer', end_timestamp')
  BY <1>2, Zenon
<1> QED
  BY <1>1, <1>2, <1>4, <1>5 DEF Paced

LEMMA EndSame ==
  ASSUME Paced, Part(packet_buffer', packet_buffer), UNCHANGED end_timestamp
  PROVE  /\ EndsBehind(decoded, end_timestamp')
         /\ ~new_codec => NearEnd(packet_buffer', end_timestamp')
BY DEF Paced, Part, NearEnd

\* The comfort noise of a codec moves the end of the signal by one packet.
LEMMA EndFurther ==
  ASSUME Inv, Paced, ~new_codec, NEW noise, packet_buffer' = Fresh(noise),
         LET further == Plus(end_timestamp, 1, HalfTs)
         IN  /\ end_timestamp' = further
             /\ decoded # <<>> => Minus(further, Ts(Last(decoded)), HalfTs) <= Drift
  PROVE  /\ EndsBehind(decoded, end_timestamp')
         /\ NearEnd(packet_buffer', end_timestamp')
<1>1. /\ HalfTs \in Nat \ {0} /\ HalfTs >= 2 /\ 1 \in 0 .. 2 * HalfTs - 1 /\ Lead \in Nat
      /\ Drift \in Nat /\ Drift < HalfTs /\ Horizon \in 2 .. HalfTs - 1
  BY Bounds
<1>2. ASSUME NEW x \in Int, end_timestamp = Ts(x) PROVE end_timestamp' = Ts(x + 1)
  BY <1>1, <1>2, TsPlus
<1>3. ASSUME decoded # <<>> PROVE \E e \in 1 .. HalfTs : end_timestamp' = Ts(Last(decoded) + e)
  <2> DEFINE l == Last(decoded)
  <2>1. PICK e \in 1 .. HalfTs : end_timestamp = Ts(l + e)
    BY <1>3 DEF Paced, EndsBehind
  <2>2. l \in Nat
    BY <1>3, InvTypes DEF Last
  <2>3. Minus(end_timestamp', Ts(l), HalfTs) <= Drift
    BY <1>3
  <2> HIDE DEF l
  <2> DEFINE y == l + (e + 1)
  <2>4. l + e \in Int /\ (l + e) + 1 = y
    BY <2>2
  <2>5. end_timestamp' = Ts(y)
    BY <1>2, <2>1, <2>4
  <2>6. y \in Int /\ l \in Int /\ y - l \in 0 .. 2 * HalfTs - 1 /\ y - l = e + 1
    BY <1>1, <2>2
  <2> HIDE DEF y
  <2>7. Minus(Ts(y), Ts(l), HalfTs) = e + 1
    BY <2>6, Distance
  <2>8. e + 1 \in 1 .. HalfTs
    BY <1>1, <2>3, <2>5, <2>7
  <2> QED
    BY <2>5, <2>8 DEF y, l
<1>4. ASSUME NEW p \in ToSet(packet_buffer')
      PROVE  \E d \in -Lead .. Horizon - 1 : end_timestamp' = Ts(p.at + d)
  <2>1. p \in ToSet(Fresh(noise))
    BY <1>4
  <2>2. PICK d \in -Lead .. 0 : end_timestamp = Ts(p.at + d)
    BY <2>1, FreshAhead
  <2>3. p.at \in Nat
    <3>1. Fresh(noise) \in Seq(Packet)
      BY InvTypes, FreshPart DEF Part
    <3>2. p \in Packet
      BY <2>1, <3>1, Members
    <3> QED
      BY <3>2 DEF Packet
  <2>4. /\ p.at + d \in Int /\ (p.at + d) + 1 = p.at + (d + 1)
        /\ d + 1 \in -Lead .. Horizon - 1
    BY <1>1, <2>3
  <2> QED
    BY <1>2, <2>2, <2>4
<1> QED
  BY <1>3, <1>4 DEF EndsBehind, NearEnd

LEMMA WithoutPacketPaced ==
  ASSUME Inv, Paced, NEW noise, NEW op, UNCHANGED first_packet,
         \/ GetAudioLeft(Fresh(noise), op)
         \/ GetAudioMissing(Fresh(noise), op)
         \/ GetAudioWithoutPacket(Fresh(noise), op)
  PROVE  Paced'
<1>1. /\ packet_buffer' = Fresh(noise)
      /\ UNCHANGED <<new_codec, decoded, first_packet>>
  BY DEF GetAudioLeft, GetAudioMissing, GetAudioWithoutPacket
<1>2. Part(packet_buffer', packet_buffer) /\ packet_buffer \in Seq(Packet)
  BY <1>1, InvTypes, FreshPart
<1> DEFINE further == Plus(end_timestamp, 1, HalfTs)
           near == decoded # <<>> => Minus(further, Ts(Last(decoded)), HalfTs) <= Drift
<1>3. end_timestamp' = end_timestamp \/ (~new_codec /\ end_timestamp' = further /\ near)
  <2>1. CASE GetAudioLeft(Fresh(noise), op) \/ GetAudioMissing(Fresh(noise), op)
    BY <2>1 DEF GetAudioLeft, GetAudioMissing
  <2>2. CASE GetAudioWithoutPacket(Fresh(noise), op)
    <3>1. InternalCng => end_timestamp' = end_timestamp \/ (end_timestamp' = further /\ near)
      BY DEF InternalCng
    <3> HIDE DEF further, near
    <3>2. ~new_codec /\ (end_timestamp' = end_timestamp \/ InternalCng)
      BY <2>2 DEF GetAudioWithoutPacket, Restarts
    <3> QED
      BY <3>1, <3>2
  <2> QED
    BY <2>1, <2>2
<1>4. CASE end_timestamp' = end_timestamp
  BY <1>1, <1>2, <1>4, EndSame, LessPaced
<1>5. CASE ~new_codec /\ end_timestamp' = further /\ near
  <2>1. EndsBehind(decoded, end_timestamp') /\ NearEnd(packet_buffer', end_timestamp')
    BY <1>1, <1>5, EndFurther
  <2> QED
    BY <1>1, <1>2, <2>1, LessPaced
<1> QED
  BY <1>3, <1>4, <1>5

\* A call that decodes.
LEMMA DecodePaced ==
  ASSUME Inv, Paced, NEW noise, NEW op, NEW n, NEW base, NEW done,
         Takes(Fresh(noise), op, n, base, done), UNCHANGED first_packet
  PROVE  Paced'
<1> DEFINE buffer == Fresh(noise)
           x == buffer[1].at
<1>1. /\ Part(buffer, packet_buffer) /\ buffer \in Seq(Packet) /\ Len(buffer) \in Nat
      /\ packet_buffer \in Seq(Packet) /\ Ordered(buffer) /\ Apart(buffer)
  <2>1. Part(buffer, packet_buffer) /\ packet_buffer \in Seq(Packet)
    BY InvTypes, FreshPart
  <2>2. buffer \in Seq(Packet) /\ Ordered(buffer) /\ Apart(buffer)
    BY <2>1 DEF Part, Paced, Apart
  <2>3. Len(buffer) \in Nat
    BY <2>2
  <2> QED
    BY <2>1, <2>2, <2>3
<1>2. buffer # <<>> /\ n \in 1 .. Len(buffer) /\ new_codec' = FALSE
  BY DEF Takes
<1>3. PICK k \in 0 .. n, s \in -Lead .. n, goes_on \in BOOLEAN :
        /\ n <= Lead + 1 /\ s <= k
        /\ \A i \in 1 .. n : buffer[i].at = x + i - 1
        /\ end_timestamp' = Ts(x + s)
        /\ HeardBy(decoded', x, s, goes_on)
        /\ goes_on => s >= 0
        /\ goes_on /\ decoded # <<>> => x > Last(decoded)
        /\ \/ s \in {0, k}
           \/ /\ ~new_codec
              /\ \E d \in -Lead .. 0 : end_timestamp = Ts(x + d) /\ s \in {d, d + k}
  BY DecodeHears
<1>4. /\ Part(packet_buffer', packet_buffer)
      /\ \A q \in ToSet(packet_buffer') : \E j \in n + 1 .. Len(buffer) : q = buffer[j]
  BY <1>1, TakenRest
<1>5. ASSUME ~new_codec, NEW q \in ToSet(buffer)
      PROVE  \E d \in -Lead .. 0 : end_timestamp = Ts(q.at + d)
  BY <1>5, FreshAhead
<1> HIDE DEF buffer
<1>6. /\ \A i \in 1 .. Len(buffer) : buffer[i] \in ToSet(buffer) /\ buffer[i].at \in Nat
      /\ x \in Nat /\ buffer[n].at = x + n - 1 /\ n \in Nat
  <2>1. \A i \in 1 .. Len(buffer) : buffer[i] \in Packet
    BY <1>1
  <2>2. 1 \in 1 .. Len(buffer) /\ n \in 1 .. n /\ n \in Nat
    BY <1>1, <1>2
  <2>3. \A i \in 1 .. Len(buffer) : buffer[i] \in ToSet(buffer) /\ buffer[i].at \in Nat
    BY <1>1, <2>1, Members DEF Packet
  <2> QED
    BY <1>3, <2>2, <2>3
<1>7. /\ Lead \in Nat /\ Lag \in Nat /\ HalfTs \in Nat \ {0} /\ 2 * Lead < HalfTs
      /\ Horizon \in 2 .. HalfTs - 1 /\ s \in Int /\ k \in Nat /\ s <= n
  BY <1>2, <1>3, <1>6, Bounds
<1>8. ASSUME NEW q \in ToSet(packet_buffer')
      PROVE  /\ q \in ToSet(buffer) /\ q \in ToSet(packet_buffer)
             /\ q.at \in Nat /\ q.at - x \in n .. Lead
  <2>1. PICK j \in n + 1 .. Len(buffer) : q = buffer[j]
    BY <1>4, <1>8
  <2>2. j \in 1 .. Len(buffer) /\ 1 \in 1 .. Len(buffer) /\ n < j
    BY <1>1, <1>2, <1>6
  <2>3. q \in ToSet(buffer) /\ q.at \in Nat
    BY <1>6, <2>1, <2>2
  <2>4. buffer[n].at < q.at
    BY <1>1, <1>2, <2>1, <2>2 DEF Ordered
  <2>5. q.at - x \in -Lead .. Lead
    BY <1>1, <1>6, <2>2, <2>3 DEF Apart
  <2>6. q \in ToSet(packet_buffer)
    BY <1>1, <2>3 DEF Part
  <2>7. q.at - x \in n .. Lead
    <3> DEFINE at == q.at
    <3>1. at \in Nat /\ x + n - 1 < at /\ at - x \in -Lead .. Lead
      BY <1>6, <2>3, <2>4, <2>5
    <3> HIDE DEF at, x
    <3>2. at - x \in n .. Lead
      BY <1>6, <1>7, <3>1
    <3> QED
      BY <3>2 DEF at
  <2> QED
    BY <2>3, <2>6, <2>7
<1>9. PICK d0 \in -Lead .. 0 :
        \/ s >= 0
        \/ ~new_codec /\ end_timestamp = Ts(x + d0) /\ s >= d0
  <2>1. CASE s \in {0, k}
    <3>1. s >= 0 /\ 0 \in -Lead .. 0
      BY <1>7, <2>1
    <3> QED
      BY <3>1
  <2>2. CASE /\ ~new_codec
             /\ \E d \in -Lead .. 0 : end_timestamp = Ts(x + d) /\ s \in {d, d + k}
    <3>1. PICK d \in -Lead .. 0 : end_timestamp = Ts(x + d) /\ s \in {d, d + k}
      BY <2>2
    <3>2. s >= d
      BY <1>7, <3>1
    <3> QED
      BY <2>2, <3>1, <3>2
  <2> QED
    BY <1>3, <2>1, <2>2
<1> HIDE DEF x
<1>10. /\ Ordered(packet_buffer') /\ Apart(packet_buffer')
       /\ first_packet' => packet_buffer' = <<>> /\ decoded' = <<>>
  <2>1. Ordered(packet_buffer') /\ Apart(packet_buffer')
    BY <1>4 DEF Part, Paced, Apart
  <2>2. ~first_packet
    <3>1. ASSUME packet_buffer = <<>> PROVE FALSE
      <4>1. Len(packet_buffer) = 0
        BY <3>1
      <4>2. Len(buffer) <= 0
        BY <1>1, <4>1 DEF Part
      <4> QED
        BY <1>1, <1>2, <4>2
    <3> QED
      BY <3>1 DEF Paced
  <2> QED
    BY <2>1, <2>2
<1>11. Rising(decoded')
  BY <1>3 DEF HeardBy
<1>12. ASSUME decoded' # <<>>
       PROVE  \/ s >= 1 /\ Last(decoded') = x + s - 1
              \/ s = 0 /\ decoded # <<>> /\ Last(decoded') = Last(decoded) /\ x > Last(decoded)
  <2>1. \/ s >= 1 /\ Last(decoded') = x + s - 1
        \/ s < 1 /\ goes_on /\ decoded # <<>> /\ Last(decoded') = Last(decoded)
    BY <1>3, <1>12 DEF HeardBy
  <2> QED
    BY <1>3, <1>7, <2>1
<1>13. decoded # <<>> => Last(decoded) \in Nat
  BY InvTypes DEF Last
<1>14. EndsBehind(decoded', end_timestamp')
  <2>1. CASE decoded' = <<>>
    BY <2>1 DEF EndsBehind
  <2>2. CASE s >= 1 /\ Last(decoded') = x + s - 1
    <3>1. Last(decoded') + 1 = x + s /\ 1 \in 1 .. HalfTs
      BY <1>6, <1>7, <2>2
    <3> QED
      BY <1>3, <3>1 DEF EndsBehind
  <2>3. CASE s = 0 /\ decoded # <<>> /\ Last(decoded') = Last(decoded) /\ x > Last(decoded)
    <3> DEFINE l == Last(decoded)
    <3>1. x - l \in -(2 * Lag) .. Lead
      <4>1. buffer[1] \in ToSet(packet_buffer)
        <5>1. 1 \in 1 .. Len(buffer)
          BY <1>1, <1>2
        <5> QED
          BY <1>1, <1>6, <5>1 DEF Part
      <4> QED
        BY <2>3, <4>1 DEF Paced, NearLast, x
    <3>2. l \in Nat /\ Last(decoded') = l /\ l < x /\ s = 0
      BY <1>13, <1>6, <2>3
    <3> HIDE DEF l
    <3>3. x - l \in 1 .. HalfTs /\ x + s = l + (x - l)
      BY <1>6, <1>7, <3>1, <3>2
    <3> QED
      BY <1>3, <3>2, <3>3 DEF EndsBehind
  <2> QED
    BY <1>12, <2>1, <2>2, <2>3
<1>15. NearLast(packet_buffer', decoded')
  <2>1. ASSUME decoded' # <<>>, NEW q \in ToSet(packet_buffer')
        PROVE  q.at - Last(decoded') \in -(2 * Lag) .. Lead
    <3>1. q.at \in Nat /\ q.at - x \in n .. Lead /\ q \in ToSet(packet_buffer)
      BY <1>8, <2>1
    <3>2. CASE s >= 1 /\ Last(decoded') = x + s - 1
      <4> DEFINE l == Last(decoded')
      <4>1. l = x + s - 1
        BY <3>2
      <4> HIDE DEF l
      <4>2. q.at - l \in -(2 * Lag) .. Lead
        BY <1>6, <1>7, <3>1, <3>2, <4>1
      <4> QED
        BY <4>2 DEF l
    <3>3. CASE decoded # <<>> /\ Last(decoded') = Last(decoded)
      BY <3>1, <3>3 DEF Paced, NearLast
    <3> QED
      BY <1>12, <2>1, <3>2, <3>3
  <2> QED
    BY <2>1 DEF NearLast
<1>16. NearEnd(packet_buffer', end_timestamp')
  <2>1. ASSUME NEW q \in ToSet(packet_buffer')
        PROVE  \E d \in -Lead .. Horizon - 1 : end_timestamp' = Ts(q.at + d)
    <3> DEFINE d == x + s - q.at
               at == q.at
    <3>1. at \in Nat /\ at - x \in n .. Lead /\ q \in ToSet(buffer)
      BY <1>8, <2>1
    <3>2. d >= -Lead
      <4>1. CASE s >= 0
        <5> HIDE DEF at
        <5> QED
          BY <1>6, <1>7, <3>1, <4>1 DEF at
      <4>2. CASE ~new_codec /\ end_timestamp = Ts(x + d0) /\ s >= d0
        <5>1. PICK dq \in -Lead .. 0 : end_timestamp = Ts(at + dq)
          BY <1>5, <3>1, <4>2
        <5> HIDE DEF at
        <5> DEFINE y == x + d0
                   z == at + dq
        <5>2. y \in Int /\ z \in Int /\ y - z \in -(2 * HalfTs - 1) .. 2 * HalfTs - 1
          BY <1>6, <1>7, <3>1
        <5>3. Ts(y) = Ts(z)
          BY <4>2, <5>1
        <5> HIDE DEF y, z
        <5>4. y = z
          BY <5>2, <5>3, TsSame
        <5>5. x + s - at >= -Lead
          BY <1>6, <1>7, <3>1, <4>2, <5>4 DEF y, z
        <5> QED
          BY <5>5 DEF at
      <4> QED
        BY <1>9, <4>1, <4>2
    <3> HIDE DEF at
    <3>3. x + s = at + d /\ d \in -Lead .. Horizon - 1
      BY <1>6, <1>7, <3>1, <3>2 DEF at
    <3> HIDE DEF d
    <3> QED
      BY <1>3, <3>3 DEF at
  <2> QED
    BY <2>1 DEF NearEnd
<1> QED
  BY <1>10, <1>11, <1>14, <1>15, <1>16 DEF Paced

\* Of the packets an arrival is split into only the first may be empty.
EmptyFirst == \A a \in Arrivals : \A i \in 2 .. Len(a.packets) : ~a.packets[i].empty

\* One turn of the loop of InsertPacketList puts a packet into the buffer, or
\* into none, unless there is nothing in the packet.
LEMMA AdmitAdds ==
  ASSUME NEW s \in States, NEW p \in Packet, NEW set
  PROVE  LET new == Admit(s, p, set)
         IN  /\ s.result = "kInvalidPacket" => new = s
             /\ s.result # "kInvalidPacket" =>
                  \E before \in {s.buffer, <<>>} :
                    /\ Keeps(before, p, new.buffer)
                    /\ new.result = "kInvalidPacket" => p.empty /\ new.buffer = before
                    /\ new.result # "kInvalidPacket" => new.buffer # <<>>
<1> DEFINE change == ChangesCodec(p, s.rtp, s.cng, set)
           before == IF change THEN <<>> ELSE s.buffer
           done   == InsertPacket(before, p)
           types0 == TypesAfter(p, s.rtp, s.cng, change)
           new    == Admit(s, p, set)
<1>1. new = IF s.result = "kInvalidPacket" THEN s
            ELSE [buffer |-> done.buffer, result |-> done.result,
                  flushed |-> s.flushed \/ change \/ done.result = "kFlushed",
                  rtp |-> types0.rtp, cng |-> types0.cng]
  BY Zenon DEF Admit
<1>2. before \in {s.buffer, <<>>}
  OBVIOUS
<1>3. before \in Seq(Packet) /\ Len(before) <= MaxPackets
  <2>1. s.buffer \in Seq(Packet) /\ Len(s.buffer) <= MaxPackets
    BY DEF States
  <2>2. <<>> \in Seq(Packet) /\ Len(<<>>) <= MaxPackets
    BY Bounds
  <2> QED
    BY <1>2, <2>1, <2>2
<1> HIDE DEF new, types0, before, change
<1>4. /\ Keeps(before, p, done.buffer)
      /\ done.result # "kInvalidPacket" => done.buffer # <<>>
  BY <1>3, InsertKeeps
<1>5. done.result = "kInvalidPacket" => p.empty /\ done.buffer = before
  BY DEF InsertPacket
<1> HIDE DEF done
<1>6. s.result # "kInvalidPacket" => new.buffer = done.buffer /\ new.result = done.result
  BY <1>1
<1>7. s.result = "kInvalidPacket" => new = s
  BY <1>1
<1> QED
  BY <1>2, <1>4, <1>5, <1>6, <1>7 DEF new

\* An arrival comes close to the packets held and to what was heard.
LEMMA ArrivesClose ==
  ASSUME Inv, Paced, NEW a \in Arrivals, Timely(a)
  PROVE  /\ \A p, q \in ToSet(Held) \cup ToSet(a.packets) :
              p.at \in Nat /\ p.at - q.at \in -Lead .. Lead
         /\ decoded # <<>> =>
              \A p \in ToSet(a.packets) : p.at - Last(decoded) \in -(2 * Lag) .. Lead
         /\ ~first_packet /\ ~new_codec =>
              \A p \in ToSet(a.packets) : \E d \in -Lead .. Horizon - 1 :
                end_timestamp = Ts(p.at + d)
<1> DEFINE x == a.at
<1>1. /\ x \in Nat /\ \A p \in ToSet(a.packets) : p.at \in Nat /\ x - p.at \in 0 .. Lag
  <2>1. x \in Nat /\ a.packets \in Seq(Packet)
    BY ArrivalAssumption
  <2>2. \A p \in ToSet(a.packets) : p \in Packet
    BY <2>1, Members
  <2> QED
    BY <2>1, <2>2, ArrivalAssumption DEF Packet
<1>2. \A p \in ToSet(Held) : p.at \in Nat /\ x - p.at \in -Lag .. Lead /\ p \in ToSet(packet_buffer)
  <2>1. Part(Held, packet_buffer) /\ packet_buffer \in Seq(Packet)
    BY InvTypes, HeldPart
  <2>2. \A p \in ToSet(packet_buffer) : p \in Packet
    BY <2>1, Members
  <2> QED
    BY <2>1, <2>2 DEF Part, Timely, Packet
<1>3. decoded # <<>> => Last(decoded) \in Nat /\ x - Last(decoded) \in -Lag .. Lead
  BY InvTypes DEF Last, Timely
<1>4. ~first_packet /\ ~new_codec => Minus(Plus(Ts(x), Lag, HalfTs), end_timestamp, HalfTs) <= Lag + Lead
  BY DEF Timely
<1> HIDE DEF x
<1>5. /\ Lead \in Nat /\ Lag \in Nat /\ 2 * Lag <= Lead /\ Lead + Lag < HalfTs - 1
      /\ HalfTs \in Nat /\ Horizon \in 2 .. HalfTs - 1 /\ 2 * Lag < Horizon
  BY Bounds
<1>6. ASSUME NEW p \in ToSet(Held) \cup ToSet(a.packets), NEW q \in ToSet(Held) \cup ToSet(a.packets)
      PROVE  p.at \in Nat /\ p.at - q.at \in -Lead .. Lead
  <2>1. CASE p \in ToSet(Held) /\ q \in ToSet(Held)
    <3>1. p.at - q.at \in -Lead .. Lead
      BY <1>2, <2>1 DEF Paced, Apart
    <3> QED
      BY <1>2, <2>1, <3>1
  <2>2. CASE p \in ToSet(a.packets) \/ q \in ToSet(a.packets)
    <3> DEFINE y == p.at
               z == q.at
    <3>1. /\ y \in Nat /\ z \in Nat
          /\ x - y \in 0 .. Lag \/ x - y \in -Lag .. Lead
          /\ x - z \in 0 .. Lag \/ x - z \in -Lag .. Lead
          /\ x - y \in 0 .. Lag \/ x - z \in 0 .. Lag
      BY <1>1, <1>2, <2>2
    <3> HIDE DEF y, z
    <3>2. y - z \in -Lead .. Lead
      BY <1>1, <1>5, <3>1
    <3> QED
      BY <3>1, <3>2 DEF y, z
  <2> QED
    BY <2>1, <2>2
<1>7. ASSUME decoded # <<>>, NEW p \in ToSet(a.packets)
      PROVE  p.at - Last(decoded) \in -(2 * Lag) .. Lead
  <2> DEFINE y == p.at
             l == Last(decoded)
  <2>1. y \in Nat /\ l \in Nat /\ x - y \in 0 .. Lag /\ x - l \in -Lag .. Lead
    BY <1>1, <1>3, <1>7
  <2> HIDE DEF y, l
  <2>2. y - l \in -(2 * Lag) .. Lead
    BY <1>1, <1>5, <2>1
  <2> QED
    BY <2>2 DEF y, l
<1>8. ASSUME ~first_packet, ~new_codec, NEW p \in ToSet(a.packets)
      PROVE  \E d \in -Lead .. Horizon - 1 : end_timestamp = Ts(p.at + d)
  <2> DEFINE y == p.at
             z == x + Lag
             g == Minus(Ts(z), end_timestamp, HalfTs)
             d == x - y + Lag - g
  <2>1. y \in Nat /\ x - y \in 0 .. Lag
    BY <1>1
  <2> HIDE DEF y
  <2>2. z \in Int /\ Lag \in 0 .. 2 * HalfTs - 1 /\ Plus(Ts(x), Lag, HalfTs) = Ts(z)
    <3>1. Lag \in 0 .. 2 * HalfTs - 1 /\ x \in Int /\ x + Lag \in Int
      BY <1>1, <1>5
    <3>2. Plus(Ts(x), Lag, HalfTs) = Ts(x + Lag)
      BY <3>1, TsPlus
    <3> QED
      BY <3>1, <3>2
  <2>3. g <= Lag + Lead
    BY <1>4, <1>8, <2>2
  <2> HIDE DEF z
  <2>4. end_timestamp \in Serial(HalfTs)
    BY InvTypes
  <2>5. g \in Int /\ end_timestamp = Ts(z - g) /\ g >= 0
    <3>1. Ts(z) \in Serial(HalfTs)
      <4>1. z - z \in 0 .. 2 * HalfTs - 1
        BY <1>5, <2>2
      <4> QED
        BY <2>2, <4>1, Distance
    <3>2. g >= 0
      <4> DEFINE t == Ts(z)
      <4>1. t \in Serial(HalfTs)
        BY <3>1
      <4> HIDE DEF t
      <4>2. Minus(t, end_timestamp, HalfTs) >= 0
        BY <1>5, <2>4, <4>1 DEF Minus, Serial
      <4> QED
        BY <4>2 DEF t
    <3> QED
      BY <2>2, <2>4, <3>2, TsBack
  <2> HIDE DEF g
  <2>6. z - g = y + d /\ d \in -Lead .. Horizon - 1
    BY <1>1, <1>5, <2>1, <2>3, <2>5 DEF z
  <2> HIDE DEF d
  <2>7. end_timestamp = Ts(y + d)
    BY <2>5, <2>6
  <2> QED
    BY <2>6, <2>7 DEF y
<1> QED
  BY <1>6, <1>7, <1>8

\* The buffer in between: in order, and of nothing but what was held and arrived.
Arrived(a) ==
  {s \in States : Ordered(s.buffer) /\ ToSet(s.buffer) \subseteq ToSet(Held) \cup ToSet(a.packets)}

LEMMA AdmitArrived ==
  ASSUME Inv, Paced, NEW a \in Arrivals, Timely(a), NEW s \in Arrived(a),
         NEW i \in 1 .. Len(a.packets)
  PROVE  Admit(s, a.packets[i], registered) \in Arrived(a)
<1> DEFINE p == a.packets[i]
           new == Admit(s, p, registered)
<1>1. p \in Packet /\ p \in ToSet(a.packets) /\ s \in States
  <2>1. a.packets \in Seq(Packet)
    BY ArrivalAssumption
  <2> QED
    BY <2>1, Members DEF Arrived
<1> HIDE DEF p
<1>2. /\ s.result = "kInvalidPacket" => new = s
      /\ s.result # "kInvalidPacket" =>
           \E before \in {s.buffer, <<>>} : Keeps(before, p, new.buffer)
  BY <1>1, AdmitAdds
<1>3. new \in States
  BY <1>1, AdmitKeeps
<1> HIDE DEF new
<1>4. CASE s.result = "kInvalidPacket"
  BY <1>2, <1>4 DEF new, p
<1>5. CASE s.result # "kInvalidPacket"
  <2>1. PICK before \in {s.buffer, <<>>} : Keeps(before, p, new.buffer)
    BY <1>2, <1>5
  <2>2. Ordered(before) /\ ToSet(before) \subseteq ToSet(Held) \cup ToSet(a.packets)
    <3>1. Ordered(<<>>) /\ ToSet(<<>>) = {}
      BY DEF Ordered, ToSet
    <3> QED
      BY <3>1 DEF Arrived
  <2>3. AllClose(before, p.at)
    <3>1. ASSUME NEW q \in ToSet(before) PROVE Close(p.at, q.at)
      <4>1. p.at - q.at \in -Lead .. Lead
        BY <1>1, <2>2, ArrivesClose
      <4>2. -Lead .. Lead \subseteq -(HalfTs - 2) .. HalfTs - 2
        BY Bounds
      <4> QED
        BY <4>1, <4>2 DEF Close
    <3> QED
      BY <3>1 DEF AllClose
  <2>4. Ordered(new.buffer) /\ ToSet(new.buffer) \subseteq ToSet(Held) \cup ToSet(a.packets)
    BY <1>1, <2>1, <2>2, <2>3 DEF Keeps
  <2> QED
    BY <1>3, <2>4 DEF Arrived, new, p
<1> QED
  BY <1>4, <1>5

LEMMA InsertedArrived ==
  ASSUME EmptyFirst, Inv, Paced, NEW a \in Arrivals, Timely(a)
  PROVE  LET done == InsertPacketList(Held, a.packets, current_rtp_payload_type,
                                      current_cng_rtp_payload_type, registered)
         IN  /\ done \in Arrived(a)
             /\ done.result = "kInvalidPacket" => ToSet(done.buffer) \subseteq ToSet(Held)
<1> DEFINE packets == a.packets
           rtp == current_rtp_payload_type
           cng == current_cng_rtp_payload_type
           n == Len(packets)
           done == InsertPacketList(Held, packets, rtp, cng, registered)
<1>1. Untouched \in Arrived(a)
  <2>1. Untouched.buffer = Held
    BY DEF Untouched
  <2>2. Ordered(Held)
    BY InvTypes, HeldPart DEF Part, Paced
  <2> QED
    BY <2>1, <2>2, UntouchedState DEF Arrived
<1>2. \A s \in Arrived(a) : \A i \in 1 .. Len(a.packets) :
        Admit(s, a.packets[i], registered) \in Arrived(a)
  BY AdmitArrived
<1>3. PICK after : Turns(after, Arrived(a), Held, packets, rtp, cng, registered)
  BY <1>1, <1>2, InsertedList
<1>4. done \in Arrived(a)
  BY <1>1, <1>2, InsertedList
<1>5. packets \in Seq(Packet) /\ n \in Nat /\ \A i \in 2 .. n : ~packets[i].empty
  <2>1. packets \in Seq(Packet)
    BY ArrivalAssumption
  <2>2. Len(packets) \in Nat
    BY <2>1
  <2> QED
    BY <2>1, <2>2 DEF EmptyFirst
<1> HIDE DEF packets, rtp, cng
<1>6. /\ after \in [0 .. n -> Arrived(a)]
      /\ after[0] = [buffer |-> Held, result |-> "kOK", flushed |-> FALSE, rtp |-> rtp,
                     cng |-> cng]
      /\ \A i \in 1 .. n : after[i] = Admit(after[i - 1], packets[i], registered)
      /\ done = after[n]
  BY <1>3, Zenon DEF Turns
<1> HIDE DEF done, n
<1> DEFINE T == {i \in 0 .. n : after[i].result = "kInvalidPacket"
                                => ToSet(after[i].buffer) \subseteq ToSet(Held)}
<1>7. 0 \in T
  BY <1>5, <1>6
<1>8. ASSUME NEW i \in 0 .. n - 1, i \in T PROVE i + 1 \in T
  <2> DEFINE j == i + 1
             p == packets[j]
             s == after[i]
             new == after[j]
  <2>1. j \in 1 .. n /\ j - 1 = i /\ i \in 0 .. n /\ j \in 0 .. n /\ (j = 1 => i = 0)
        /\ (j # 1 => j \in 2 .. n)
    BY <1>5
  <2> HIDE DEF j
  <2>2. p \in Packet /\ s \in Arrived(a) /\ new = Admit(s, p, registered)
    BY <1>5, <1>6, <2>1 DEF n
  <2>3. s \in States
    BY <2>2 DEF Arrived
  <2>4. i = 0 => s.buffer = Held
    BY <1>6
  <2>5. s.result = "kInvalidPacket" => ToSet(s.buffer) \subseteq ToSet(Held)
    BY <1>8
  <2>6. p.empty => j = 1
    BY <1>5, <2>1
  <2> HIDE DEF p, s, new
  <2>7. /\ s.result = "kInvalidPacket" => new = s
        /\ s.result # "kInvalidPacket" =>
             \E before \in {s.buffer, <<>>} :
               new.result = "kInvalidPacket" => p.empty /\ new.buffer = before
    BY <2>2, <2>3, AdmitAdds
  <2>8. new.result = "kInvalidPacket" => ToSet(new.buffer) \subseteq ToSet(Held)
    <3>1. ToSet(<<>>) = {}
      BY DEF ToSet
    <3> QED
      BY <2>1, <2>4, <2>5, <2>6, <2>7, <3>1
  <2> QED
    BY <2>1, <2>8 DEF new, j
<1> HIDE DEF T
<1>9. n \in T
  <2>1. 0 .. n \subseteq T
    BY <1>5, <1>7, <1>8, Induction
  <2> QED
    BY <1>5, <2>1
<1>10. done.result = "kInvalidPacket" => ToSet(done.buffer) \subseteq ToSet(Held)
  BY <1>6, <1>9 DEF T
<1> QED
  BY <1>4, <1>10 DEF done, packets, rtp, cng

LEMMA ArrivalPaced ==
  ASSUME Inv, Paced, NEW a \in Arrivals, Timely(a),
         packet_buffer' \in Seq(Packet), Ordered(packet_buffer'),
         ToSet(packet_buffer') \subseteq ToSet(Held) \cup ToSet(a.packets),
         first_packet' => ToSet(packet_buffer') \subseteq ToSet(Held),
         \/ decoded' = <<>> /\ new_codec' /\ ~first_packet'
         \/ /\ UNCHANGED <<first_packet, new_codec, decoded>>
            /\ ~first_packet => UNCHANGED end_timestamp
  PROVE  Paced'
<1>1. Apart(packet_buffer')
  BY ArrivesClose DEF Apart
<1>2. Part(Held, packet_buffer) /\ packet_buffer \in Seq(Packet)
  BY InvTypes, HeldPart
<1>3. CASE decoded' = <<>> /\ new_codec' /\ ~first_packet'
  <2>1. Rising(decoded')
    <3>1. Len(<<>>) = 0 /\ 2 .. 0 = {}
      OBVIOUS
    <3> QED
      BY <1>3, <3>1 DEF Rising
  <2> QED
    BY <1>1, <1>3, <2>1 DEF Paced, EndsBehind, NearLast
<1>4. CASE ~first_packet /\ UNCHANGED <<first_packet, new_codec, decoded, end_timestamp>>
  <2>1. /\ ~first_packet' /\ Rising(decoded') /\ EndsBehind(decoded', end_timestamp')
    BY <1>4 DEF Paced
  <2>2. NearLast(packet_buffer', decoded')
    <3>1. ASSUME decoded # <<>>, NEW p \in ToSet(packet_buffer')
          PROVE  p.at - Last(decoded) \in -(2 * Lag) .. Lead
      <4>1. CASE p \in ToSet(Held)
        BY <1>2, <3>1, <4>1 DEF Paced, NearLast, Part
      <4>2. CASE p \in ToSet(a.packets)
        BY <3>1, <4>2, ArrivesClose
      <4> QED
        BY <4>1, <4>2
    <3> QED
      BY <1>4, <3>1 DEF NearLast
  <2>3. ~new_codec' => NearEnd(packet_buffer', end_timestamp')
    <3>1. ASSUME ~new_codec, NEW p \in ToSet(packet_buffer')
          PROVE  \E d \in -Lead .. Horizon - 1 : end_timestamp = Ts(p.at + d)
      <4>1. CASE p \in ToSet(Held)
        BY <1>2, <3>1, <4>1 DEF Paced, NearEnd, Part
      <4>2. CASE p \in ToSet(a.packets)
        BY <1>4, <3>1, <4>2, ArrivesClose
      <4> QED
        BY <4>1, <4>2
    <3> QED
      BY <1>4, <3>1 DEF NearEnd
  <2> QED
    BY <1>1, <2>1, <2>2, <2>3 DEF Paced
<1>5. CASE first_packet /\ UNCHANGED <<first_packet, new_codec, decoded>>
  <2>1. packet_buffer' = <<>> /\ ToSet(packet_buffer') = {}
    <3> DEFINE list == packet_buffer'
    <3>1. Held = <<>> /\ ToSet(<<>>) = {}
      BY <1>5 DEF Held, ToSet
    <3>2. ToSet(list) = {} /\ list \in Seq(Packet)
      BY <1>5, <3>1
    <3> HIDE DEF list
    <3>3. \A i \in 1 .. Len(list) : list[i] \in ToSet(list)
      BY <3>2, Members
    <3>4. Len(list) = 0
      <4>1. Len(list) \in Nat
        BY <3>2
      <4> QED
        BY <3>2, <3>3, <4>1
    <3> QED
      BY <3>2, <3>4 DEF list
  <2>2. decoded' = <<>> /\ Rising(decoded')
    BY <1>5 DEF Paced
  <2> QED
    BY <1>1, <2>1, <2>2 DEF Paced, EndsBehind, NearLast, NearEnd
<1> QED
  BY <1>3, <1>4, <1>5

LEMMA InsertPaced ==
  ASSUME EmptyFirst, Inv, Paced, NEW a \in Arrivals, InsertPacketInternal(a)
  PROVE  Paced'
<1> DEFINE done == InsertPacketList(Held, a.packets, current_rtp_payload_type,
                                    current_cng_rtp_payload_type, registered)
<1>1. Timely(a)
  BY DEF InsertPacketInternal
<1>2. first_packet \in BOOLEAN /\ new_codec \in BOOLEAN
  BY InvTypes
<1>3. ~first_packet => EndAtInsert(a) = end_timestamp
  BY DEF EndAtInsert
<1>4. CASE RejectPacket(a)
  <2>1. Part(Held, packet_buffer)
    BY InvTypes, HeldPart
  <2>2. /\ packet_buffer' \in Seq(Packet) /\ Ordered(packet_buffer')
        /\ ToSet(packet_buffer') \subseteq ToSet(Held)
    BY <1>4, <2>1 DEF RejectPacket, Part, Paced
  <2>3. /\ UNCHANGED <<first_packet, new_codec, decoded>>
        /\ ~first_packet => UNCHANGED end_timestamp
    BY <1>3, <1>4 DEF RejectPacket
  <2> QED
    BY <1>1, <2>2, <2>3, ArrivalPaced
<1>5. CASE AcceptPacket(a)
  <2>1. /\ packet_buffer' = done.buffer
        /\ \/ done.result # "kInvalidPacket" /\ Accept(a, done)
           \/ /\ done.result = "kInvalidPacket"
              /\ end_timestamp' = EndAtInsert(a)
              /\ UNCHANGED <<first_packet, new_codec, decoded>>
    BY <1>5 DEF AcceptPacket
  <2>2. /\ done \in Arrived(a)
        /\ done.result = "kInvalidPacket" => ToSet(done.buffer) \subseteq ToSet(Held)
    BY <1>1, InsertedArrived
  <2> HIDE DEF done
  <2>3. /\ packet_buffer' \in Seq(Packet) /\ Ordered(packet_buffer')
        /\ ToSet(packet_buffer') \subseteq ToSet(Held) \cup ToSet(a.packets)
        /\ done.flushed \in BOOLEAN
    BY <2>1, <2>2 DEF Arrived, States
  <2>4. CASE done.result = "kInvalidPacket"
    <3>1. /\ UNCHANGED <<first_packet, new_codec, decoded>>
          /\ ~first_packet => UNCHANGED end_timestamp
          /\ ToSet(packet_buffer') \subseteq ToSet(Held)
      BY <1>3, <2>1, <2>2, <2>4
    <3> QED
      BY <1>1, <2>3, <3>1, ArrivalPaced
  <2>5. CASE Accept(a, done)
    <3> DEFINE flushed == first_packet \/ done.flushed
               rate == IF flushed /\ done.buffer # <<>>
                         THEN Rate[Head(done.buffer).pt] ELSE fs
    <3>1. /\ first_packet' = FALSE
          /\ new_codec' = (new_codec \/ flushed)
          /\ end_timestamp' = IF rate = fs THEN EndAtInsert(a) ELSE 0
          /\ decoded' = IF flushed THEN <<>> ELSE decoded
      BY <2>5, Zenon DEF Accept
    <3>2. ~flushed => rate = fs
      OBVIOUS
    <3>3. flushed \in BOOLEAN
      BY <1>2, <2>3
    <3>4. CASE flushed
      <4>1. decoded' = <<>> /\ new_codec' /\ ~first_packet'
        BY <3>1, <3>4
      <4> QED
        BY <1>1, <2>3, <4>1, ArrivalPaced
    <3>5. CASE ~flushed
      <4>1. /\ ~first_packet
            /\ UNCHANGED <<first_packet, new_codec, decoded, end_timestamp>>
        <5> HIDE DEF rate
        <5> QED
          BY <1>2, <1>3, <3>1, <3>2, <3>5
      <4> QED
        BY <1>1, <2>3, <4>1, ArrivalPaced
    <3> QED
      BY <3>4, <3>5
  <2> QED
    BY <2>1, <2>4, <2>5
<1> QED
  BY <1>4, <1>5 DEF InsertPacketInternal

LEMMA GetAudioPaced ==
  ASSUME Inv, Paced, GetAudio
  PROVE  Paced'
<1>1. PICK noise \in 0 .. MaxNoise :
        LET buffer == Fresh(IF noise = 0 THEN 0 ELSE noise - 1)
        IN  \E op \in Operations(buffer, noise) : GetAudioBy(buffer, op)
  BY DEF GetAudio, GetAudioBy
<1> DEFINE before == IF noise = 0 THEN 0 ELSE noise - 1
           buffer == Fresh(before)
<1>2. PICK op \in Operations(buffer, noise) : GetAudioBy(buffer, op)
  BY <1>1
<1>3. UNCHANGED first_packet
  BY DEF GetAudio
<1> HIDE DEF before
<1>4. CASE GetAudioLeft(buffer, op) \/ GetAudioMissing(buffer, op)
             \/ GetAudioWithoutPacket(buffer, op)
  BY <1>3, <1>4, WithoutPacketPaced
<1>5. CASE \E required \in 1 .. MaxRequired : GetAudioDecode(buffer, op, required)
  <2>1. PICK required \in 1 .. MaxRequired : GetAudioDecode(buffer, op, required)
    BY <1>5
  <2>2. Part(buffer, packet_buffer)
    BY InvTypes, FreshPart
  <2>3. PICK n, base, done : Takes(buffer, op, n, base, done)
    <3> HIDE DEF buffer
    <3> QED
      BY <2>1, <2>2, DecodeTakes
  <2> QED
    BY <1>3, <2>3, DecodePaced
<1> QED
  BY <1>2, <1>4, <1>5 DEF GetAudioBy

LEMMA ApplicationPaced ==
  ASSUME Inv, Paced,
         \/ FlushBuffers
         \/ \E dropped : DropTypes(dropped)
         \/ RemoveAllPayloadTypes
         \/ UNCHANGED vars
  PROVE  Paced'
<1>1. packet_buffer \in Seq(Packet)
  BY InvTypes
<1>2. CASE FlushBuffers
  <2>1. packet_buffer' = <<>> /\ decoded' = <<>>
    BY <1>2 DEF FlushBuffers
  <2>2. /\ ToSet(packet_buffer') = {} /\ Ordered(packet_buffer') /\ Rising(decoded')
    BY <2>1 DEF ToSet, Ordered, Rising
  <2> QED
    BY <2>1, <2>2 DEF Paced, Apart, EndsBehind, NearLast, NearEnd
<1>3. ASSUME NEW dropped, DropTypes(dropped) PROVE Paced'
  <2> DEFINE S == {p \in ToSet(packet_buffer) : p.pt \notin dropped}
  <2>1. packet_buffer' = Those(S, packet_buffer)
    BY <1>3 DEF DropTypes, DiscardTypes
  <2> HIDE DEF S
  <2>2. Part(packet_buffer', packet_buffer)
    BY <1>1, <2>1, ThosePart
  <2>3. UNCHANGED <<first_packet, new_codec, decoded, end_timestamp>>
    BY <1>3 DEF DropTypes
  <2> QED
    BY <1>1, <2>2, <2>3, EndSame, LessPaced
<1>4. CASE RemoveAllPayloadTypes \/ UNCHANGED vars
  BY <1>4 DEF RemoveAllPayloadTypes, vars, Paced, Apart, Ordered, EndsBehind, NearLast, NearEnd,
              Rising
<1> QED
  BY <1>2, <1>3, <1>4

LEMMA InitPaced == Init => Paced
<1> SUFFICES ASSUME Init PROVE Paced
  OBVIOUS
<1>1. packet_buffer = <<>> /\ decoded = <<>>
  BY DEF Init
<1>2. ToSet(packet_buffer) = {} /\ Ordered(packet_buffer) /\ Rising(decoded)
  BY <1>1 DEF ToSet, Ordered, Rising
<1> QED
  BY <1>1, <1>2 DEF Paced, Apart, EndsBehind, NearLast, NearEnd

LEMMA NextPaced == EmptyFirst /\ Inv /\ Paced /\ [Next]_vars => Paced'
<1> SUFFICES ASSUME EmptyFirst, Inv, Paced, [Next]_vars PROVE Paced'
  OBVIOUS
<1>1. ASSUME NEW a \in Arrivals, InsertPacketInternal(a) PROVE Paced'
  BY <1>1, InsertPaced
<1>2. CASE GetAudio
  BY <1>2, GetAudioPaced
<1>3. CASE FlushBuffers
  BY <1>3, ApplicationPaced
<1>4. ASSUME NEW pt \in Changeable, RegisterPayloadType(pt) \/ RemovePayloadType(pt)
      PROVE  Paced'
  BY <1>4, ApplicationPaced DEF RegisterPayloadType, RemovePayloadType
<1>5. ASSUME NEW S \in SUBSET Changeable, NEW changed \in SUBSET (S \cap registered),
             SetCodecs(S \cup (registered \ Changeable), changed)
      PROVE  Paced'
  BY <1>5, ApplicationPaced DEF SetCodecs
<1>6. CASE RemoveAllPayloadTypes
  BY <1>6, ApplicationPaced
<1>7. CASE UNCHANGED vars
  BY <1>7, ApplicationPaced
<1> QED
  BY <1>1, <1>2, <1>3, <1>4, <1>5, <1>6, <1>7 DEF Next

\* The signal goes forward and nothing is decoded into it twice, however packets
\* are duplicated, delayed and mixed with redundant copies, however GetAudio
\* conceals and plays noise between them, and whatever the application does; if
\* an arrival holds no empty packet behind another one.  (With one, a packet can
\* be in the buffer while NetEq still waits for its first: MCNetEqFlushError.)
THEOREM NetEqDecodedOnce == EmptyFirst => (Spec => []DecodedOnce)
<1>1. Paced => DecodedOnce
  BY DEF Paced, DecodedOnce, Rising
<1> SUFFICES ASSUME EmptyFirst PROVE Spec => []DecodedOnce
  OBVIOUS
<1>2. Init => Inv /\ Paced
  BY InitKeeps, InitPaced
<1>3. Inv /\ Paced /\ [Next]_vars => (Inv /\ Paced)'
  BY NextKeeps, NextPaced
<1> QED
  BY <1>1, <1>2, <1>3, PTL DEF Spec
-----------------------------------------------------------------------------
(* The rate of the signal                                                    *)
(*                                                                           *)
(* After a flush the signal has the rate of the packet that is next, and the *)
(* decoder that was active may be one of another rate.  What keeps it from   *)
(* decoding into this signal is that none of its packets can be in the       *)
(* buffer, and that a new one would be taken for another codec.              *)

OtherRate == active_decoder # NoType /\ fs # Rate[active_decoder]
NoneActive(list) == \A p \in ToSet(list) : p.pt # active_decoder
Guarded(rtp, cng) ==
  rtp \notin {NoType, active_decoder} \/ (cng # NoType /\ Rate[cng] # Rate[active_decoder])

Rated ==
  /\ active_decoder \notin Comfort
  /\ current_cng_rtp_payload_type \in Comfort \cup {NoType}
  /\ OtherRate =>
       /\ decoded = <<>> /\ NoneActive(packet_buffer)
       /\ Guarded(current_rtp_payload_type, current_cng_rtp_payload_type)

\* The blocks of an arrival come from one packet, whose timestamps count by one
\* clock (RFC 2198).
OneClock ==
  \A a \in Arrivals : \A p, q \in ToSet(a.packets) : Rate[p.pt] = Rate[q.pt]

\* An empty packet comes first in its arrival, and agrees with the comfort noise
\* of the buffer as there is one type of it only.
EmptyAgrees ==
  \A a \in Arrivals : \A i \in 1 .. Len(a.packets) :
    a.packets[i].empty => i = 1 /\ Comfort = {a.packets[i].pt}

\* The buffer in between: after a flush of packets of the arrival only, and
\* else none of the active type.
Rating(a) ==
  {s \in States :
     /\ s.cng \in Comfort \cup {NoType}
     /\ s.flushed \/ first_packet =>
          /\ ToSet(s.buffer) \subseteq ToSet(a.packets)
          /\ s.buffer # <<>> => \E p \in ToSet(a.packets) : p.pt \in {s.rtp, s.cng}
     /\ OtherRate /\ ~s.flushed => NoneActive(s.buffer) /\ Guarded(s.rtp, s.cng)}

LEMMA NoRate == NoType \notin DOMAIN Rate /\ Comfort \subseteq DOMAIN Rate
BY RateAssumption, ComfortAssumption

\* A full buffer is left with the new packet alone.
LEMMA FlushLeaves ==
  ASSUME NEW buffer, NEW p \in Packet, InsertPacket(buffer, p).result = "kFlushed"
  PROVE  ToSet(InsertPacket(buffer, p).buffer) \subseteq {p}
<1>1. InsertPacket(buffer, p) = [buffer |-> Place(<<>>, p), result |-> "kFlushed"]
  BY DEF InsertPacket
<1>2. InsertPacket(buffer, p).buffer = Place(<<>>, p)
  BY <1>1
<1>3. <<>> \in Seq(Packet) /\ ToSet(<<>>) = {}
  BY DEF ToSet
<1>4. ToSet(Place(<<>>, p)) \subseteq ToSet(<<>>) \cup {p}
  BY <1>3, PlaceMembers
<1> QED
  BY <1>2, <1>3, <1>4

LEMMA AdmitRating ==
  ASSUME NEW a \in Arrivals, NEW s \in Rating(a), NEW i \in 1 .. Len(a.packets),
         active_decoder \notin Comfort
  PROVE  Admit(s, a.packets[i], registered) \in Rating(a)
<1> DEFINE p == a.packets[i]
           change == ChangesCodec(p, s.rtp, s.cng, registered)
           before == IF change THEN <<>> ELSE s.buffer
           done   == InsertPacket(before, p)
           after  == TypesAfter(p, s.rtp, s.cng, change)
           new    == Admit(s, p, registered)
<1>1. p \in Packet /\ p \in ToSet(a.packets) /\ s \in States
  <2>1. a.packets \in Seq(Packet)
    BY ArrivalAssumption
  <2> QED
    BY <2>1, Members DEF Rating
<1>2. p.pt \in DOMAIN Rate /\ p.pt # NoType
  BY <1>1, NoRate DEF Packet
<1> HIDE DEF p
<1>3. new = IF s.result = "kInvalidPacket" THEN s
            ELSE [buffer |-> done.buffer, result |-> done.result,
                  flushed |-> s.flushed \/ change \/ done.result = "kFlushed",
                  rtp |-> after.rtp, cng |-> after.cng]
  BY Zenon DEF Admit
<1>4. new \in States
  BY <1>1, AdmitKeeps
<1>5. /\ change \in BOOLEAN /\ s.flushed \in BOOLEAN /\ s.buffer \in Seq(Packet)
      /\ Len(s.buffer) <= MaxPackets
  <2>1. change \in BOOLEAN
    BY DEF ChangesCodec
  <2> QED
    BY <1>1, <2>1 DEF States
<1>6. before \in Seq(Packet) /\ Len(before) <= MaxPackets /\ (change => before = <<>>)
      /\ (~change => before = s.buffer)
  BY <1>5, Bounds
<1>7. /\ after.rtp = IF p.pt \in Comfort THEN (IF change THEN NoType ELSE s.rtp) ELSE p.pt
      /\ after.cng = IF p.pt \in Comfort THEN p.pt ELSE (IF change THEN NoType ELSE s.cng)
  BY Zenon DEF TypesAfter
<1>8. ~change => IF p.pt \in Comfort
                   THEN s.cng \in {NoType, p.pt}
                   ELSE /\ s.rtp \in {NoType, p.pt}
                        /\ s.cng # NoType => Rate[s.cng] = Rate[p.pt]
  BY DEF ChangesCodec
<1> HIDE DEF change, before, after
<1>9. /\ ToSet(done.buffer) \subseteq ToSet(before) \cup {p}
      /\ done.result = "kFlushed" => ToSet(done.buffer) \subseteq {p}
  <2>1. Keeps(before, p, done.buffer)
    BY <1>1, <1>6, InsertKeeps
  <2>2. done.result = "kFlushed" => ToSet(done.buffer) \subseteq {p}
    BY <1>1, FlushLeaves
  <2> QED
    BY <2>1, <2>2 DEF Keeps
<1> HIDE DEF done
<1>10. CASE s.result = "kInvalidPacket"
  BY <1>3, <1>10 DEF p
<1>11. CASE s.result # "kInvalidPacket"
  <2>1. /\ new.buffer = done.buffer /\ new.rtp = after.rtp /\ new.cng = after.cng
        /\ new.flushed = (s.flushed \/ change \/ done.result = "kFlushed")
    BY <1>3, <1>11
  <2> HIDE DEF new
  <2>2. new.cng \in Comfort \cup {NoType}
    BY <1>7, <2>1 DEF Rating
  <2>3. p.pt \in {new.rtp, new.cng}
    BY <1>7, <2>1
  <2>4. ASSUME new.flushed \/ first_packet PROVE ToSet(new.buffer) \subseteq ToSet(a.packets)
    <3>1. CASE s.flushed \/ first_packet
      <4>1. ToSet(s.buffer) \subseteq ToSet(a.packets)
        BY <3>1 DEF Rating
      <4>2. ToSet(before) \subseteq ToSet(s.buffer)
        <5>1. ToSet(<<>>) = {}
          BY DEF ToSet
        <5> QED
          BY <1>5, <1>6, <5>1
      <4> QED
        BY <1>1, <1>9, <2>1, <4>1, <4>2
    <3>2. CASE change
      <4>1. ToSet(before) = {}
        BY <1>6, <3>2 DEF ToSet
      <4> QED
        BY <1>1, <1>9, <2>1, <4>1
    <3>3. CASE done.result = "kFlushed"
      BY <1>1, <1>9, <2>1, <3>3
    <3> QED
      BY <2>1, <2>4, <3>1, <3>2, <3>3
  <2>5. ASSUME OtherRate, ~new.flushed
        PROVE  NoneActive(new.buffer) /\ Guarded(new.rtp, new.cng)
    <3>1. ~change /\ ~s.flushed
      BY <1>5, <2>1, <2>5
    <3>2. NoneActive(s.buffer) /\ Guarded(s.rtp, s.cng)
      BY <2>5, <3>1 DEF Rating
    <3>3. p.pt # active_decoder
      BY <1>2, <1>8, <3>1, <3>2 DEF Guarded
    <3>4. NoneActive(new.buffer)
      BY <1>6, <1>9, <2>1, <3>1, <3>2, <3>3 DEF NoneActive
    <3>5. Guarded(new.rtp, new.cng)
      BY <1>2, <1>7, <1>8, <2>1, <3>1, <3>2, <3>3 DEF Guarded
    <3> QED
      BY <3>4, <3>5
  <2> QED
    BY <1>1, <1>4, <2>2, <2>3, <2>4, <2>5 DEF Rating, new, p
<1> QED
  BY <1>10, <1>11

LEMMA InsertedRating ==
  ASSUME Inv, Rated, NEW a \in Arrivals
  PROVE  LET done == InsertPacketList(Held, a.packets, current_rtp_payload_type,
                                      current_cng_rtp_payload_type, registered)
         IN  /\ done \in Rating(a)
             /\ done.result # "kInvalidPacket" => done.buffer # <<>> \/ ~done.flushed
             /\ EmptyAgrees => (done.result = "kInvalidPacket" => ~done.flushed)
<1> DEFINE packets == a.packets
           rtp == current_rtp_payload_type
           cng == current_cng_rtp_payload_type
           n == Len(packets)
           done == InsertPacketList(Held, packets, rtp, cng, registered)
<1>1. Untouched \in Rating(a)
  <2>1. /\ Untouched.buffer = Held /\ Untouched.flushed = FALSE
        /\ Untouched.rtp = rtp /\ Untouched.cng = cng
    BY DEF Untouched
  <2>2. Untouched \in States
    BY UntouchedState
  <2>3. first_packet => Held = <<>> /\ ToSet(Held) = {}
    BY DEF Held, ToSet
  <2>4. ToSet(Held) \subseteq ToSet(packet_buffer)
    BY InvTypes, HeldPart DEF Part
  <2>5. OtherRate => NoneActive(Held) /\ Guarded(rtp, cng)
    BY <2>4 DEF Rated, NoneActive
  <2>6. cng \in Comfort \cup {NoType}
    BY DEF Rated
  <2> HIDE DEF rtp, cng
  <2> QED
    BY <2>1, <2>2, <2>3, <2>5, <2>6 DEF Rating
<1>2. \A s \in Rating(a) : \A i \in 1 .. Len(a.packets) :
        Admit(s, a.packets[i], registered) \in Rating(a)
  BY AdmitRating DEF Rated
<1>3. PICK after : Turns(after, Rating(a), Held, packets, rtp, cng, registered)
  BY <1>1, <1>2, InsertedList
<1>4. packets \in Seq(Packet) /\ n \in Nat
  <2>1. packets \in Seq(Packet)
    BY ArrivalAssumption
  <2> HIDE DEF packets
  <2> QED
    BY <2>1
<1>5. EmptyAgrees => \A i \in 1 .. n : packets[i].empty => i = 1 /\ Comfort = {packets[i].pt}
  BY DEF EmptyAgrees
<1> HIDE DEF packets, rtp, cng
<1>6. /\ after \in [0 .. n -> Rating(a)]
      /\ after[0] = [buffer |-> Held, result |-> "kOK", flushed |-> FALSE, rtp |-> rtp,
                     cng |-> cng]
      /\ \A i \in 1 .. n : after[i] = Admit(after[i - 1], packets[i], registered)
      /\ done = after[n]
  BY <1>3, Zenon DEF Turns
<1> HIDE DEF done, n
<1>7. ASSUME NEW i \in 1 .. n
      PROVE  /\ i - 1 \in 0 .. n /\ i \in 0 .. n
             /\ packets[i] \in Packet /\ after[i - 1] \in States
             /\ after[i] = Admit(after[i - 1], packets[i], registered)
  <2>1. i - 1 \in 0 .. n /\ i \in 0 .. n
    BY <1>4
  <2>2. packets[i] \in Packet
    BY <1>4 DEF n
  <2> QED
    BY <1>6, <2>1, <2>2 DEF Rating
<1>8. done.result # "kInvalidPacket" => done.buffer # <<>> \/ ~done.flushed
  <2>1. CASE n = 0
    BY <1>6, <2>1
  <2>2. CASE n # 0
    <3>1. n \in 1 .. n
      BY <1>4, <2>2
    <3> DEFINE s == after[n - 1]
               p == packets[n]
               new == Admit(s, p, registered)
    <3>2. s \in States /\ p \in Packet /\ done = new
      BY <1>6, <1>7, <2>2, <3>1
    <3> HIDE DEF s, p, new
    <3>3. /\ s.result = "kInvalidPacket" => new = s
          /\ s.result # "kInvalidPacket" =>
               (new.result # "kInvalidPacket" => new.buffer # <<>>)
      <4>1. LET m == Admit(s, p, registered)
            IN  /\ s.result = "kInvalidPacket" => m = s
                /\ s.result # "kInvalidPacket" =>
                     \E before \in {s.buffer, <<>>} :
                       m.result # "kInvalidPacket" => m.buffer # <<>>
        BY <3>2, AdmitAdds
      <4> QED
        BY <4>1 DEF new
    <3> QED
      BY <3>2, <3>3
  <2> QED
    BY <2>1, <2>2
<1> DEFINE T == {i \in 0 .. n : after[i].result = "kInvalidPacket" => ~after[i].flushed}
<1>9. 0 \in T
  BY <1>4, <1>6
<1>10. ASSUME EmptyAgrees, NEW i \in 0 .. n - 1, i \in T PROVE i + 1 \in T
  <2> DEFINE j == i + 1
             p == packets[j]
             s == after[i]
             new == after[j]
             change == ChangesCodec(p, s.rtp, s.cng, registered)
             done0 == InsertPacket(IF change THEN <<>> ELSE s.buffer, p)
             types0 == TypesAfter(p, s.rtp, s.cng, change)
  <2>1. j \in 1 .. n /\ j - 1 = i /\ j \in 0 .. n /\ (j = 1 => i = 0)
    BY <1>4
  <2> HIDE DEF j
  <2>2. s \in States /\ new = Admit(s, p, registered) /\ s \in Rating(a)
    BY <1>6, <1>7, <2>1
  <2>3. p.empty => j = 1 /\ Comfort = {p.pt}
    BY <1>5, <1>10, <2>1
  <2>4. j = 1 => s.flushed = FALSE
    BY <1>6, <2>1
  <2>5. s.result = "kInvalidPacket" => ~s.flushed
    BY <1>10
  <2>6. new = IF s.result = "kInvalidPacket" THEN s
              ELSE [buffer |-> done0.buffer, result |-> done0.result,
                    flushed |-> s.flushed \/ change \/ done0.result = "kFlushed",
                    rtp |-> types0.rtp, cng |-> types0.cng]
    BY <2>2, Zenon DEF Admit
  <2>7. done0.result = "kInvalidPacket" => p.empty
    BY DEF InsertPacket
  <2>8. s.cng \in Comfort \cup {NoType}
    BY <2>2 DEF Rating
  <2> HIDE DEF p, s, new
  <2>9. p.empty => ~change
    BY <2>3, <2>8 DEF ChangesCodec
  <2> HIDE DEF done0, types0, change
  <2>10. s.result # "kInvalidPacket" =>
          /\ new.result = done0.result
          /\ new.flushed = (s.flushed \/ change \/ done0.result = "kFlushed")
    BY <2>6
  <2>11. s.result = "kInvalidPacket" => new = s
    BY <2>6
  <2>12. new.result = "kInvalidPacket" => ~new.flushed
    <3>1. CASE s.result = "kInvalidPacket"
      BY <2>5, <2>11, <3>1
    <3>2. CASE s.result # "kInvalidPacket"
      <4> SUFFICES ASSUME new.result = "kInvalidPacket" PROVE ~new.flushed
        OBVIOUS
      <4>1. done0.result = "kInvalidPacket"
        BY <2>10, <3>2
      <4>2. ~s.flushed /\ ~change
        BY <2>3, <2>4, <2>7, <2>9, <4>1
      <4>3. done0.result # "kFlushed"
        BY <4>1
      <4> QED
        BY <2>10, <3>2, <4>2, <4>3
    <3> QED
      BY <3>1, <3>2
  <2> QED
    BY <2>1, <2>12 DEF new, j
<1> HIDE DEF T
<1>11. EmptyAgrees => (done.result = "kInvalidPacket" => ~done.flushed)
  <2>1. ASSUME EmptyAgrees PROVE 0 .. n \subseteq T
    BY <1>4, <1>9, <1>10, <2>1, Induction
  <2>2. ASSUME EmptyAgrees PROVE n \in T
    BY <1>4, <2>1, <2>2
  <2> QED
    BY <1>6, <2>2 DEF T
<1>12. done \in Rating(a)
  <2>1. n \in 0 .. n
    BY <1>4
  <2> QED
    BY <1>6, <2>1
<1> QED
  BY <1>8, <1>11, <1>12 DEF done, packets, rtp, cng

LEMMA InsertRated ==
  ASSUME OneClock, EmptyAgrees, Inv, Rated, NEW a \in Arrivals, InsertPacketInternal(a)
  PROVE  Rated'
<1> DEFINE done == InsertPacketList(Held, a.packets, current_rtp_payload_type,
                                    current_cng_rtp_payload_type, registered)
<1>1. CASE RejectPacket(a)
  <2>1. ToSet(packet_buffer') \subseteq ToSet(packet_buffer)
    BY <1>1, InvTypes, HeldPart DEF RejectPacket, Part
  <2>2. UNCHANGED <<active_decoder, types, fs, decoded>>
    BY <1>1 DEF RejectPacket
  <2> QED
    BY <2>1, <2>2 DEF Rated, OtherRate, NoneActive, Guarded, types
<1>2. CASE AcceptPacket(a)
  <2>1. /\ packet_buffer' = done.buffer
        /\ current_rtp_payload_type' = done.rtp
        /\ current_cng_rtp_payload_type' = done.cng
        /\ UNCHANGED active_decoder
        /\ \/ done.result # "kInvalidPacket" /\ Accept(a, done)
           \/ done.result = "kInvalidPacket" /\ UNCHANGED <<fs, decoded>>
    BY <1>2 DEF AcceptPacket
  <2>2. /\ done \in Rating(a)
        /\ done.result # "kInvalidPacket" => done.buffer # <<>> \/ ~done.flushed
        /\ done.result = "kInvalidPacket" => ~done.flushed
    BY InsertedRating
  <2> HIDE DEF done
  <2>3. /\ done.cng \in Comfort \cup {NoType}
        /\ done.flushed \/ first_packet =>
             /\ ToSet(done.buffer) \subseteq ToSet(a.packets)
             /\ done.buffer # <<>> => \E p \in ToSet(a.packets) : p.pt \in {done.rtp, done.cng}
        /\ OtherRate /\ ~done.flushed =>
             NoneActive(done.buffer) /\ Guarded(done.rtp, done.cng)
        /\ done.buffer \in Seq(Packet) /\ done.flushed \in BOOLEAN
    BY <2>2 DEF Rating, States
  <2>4. ASSUME ~done.flushed, UNCHANGED <<fs, decoded>> PROVE Rated'
    BY <2>1, <2>3, <2>4 DEF Rated, OtherRate, NoneActive, Guarded
  <2>5. CASE done.result = "kInvalidPacket"
    BY <2>1, <2>2, <2>4, <2>5
  <2>6. CASE done.result # "kInvalidPacket"
    <3> DEFINE flushed == first_packet \/ done.flushed
               next == Head(done.buffer)
    <3>1. /\ fs' = IF flushed /\ done.buffer # <<>> THEN Rate[next.pt] ELSE fs
          /\ decoded' = IF flushed THEN <<>> ELSE decoded
      BY <2>1, <2>6, Zenon DEF Accept
    <3>2. CASE ~flushed
      BY <2>4, <3>1, <3>2
    <3>4. CASE done.buffer = <<>>
      <4>1. fs' = fs /\ decoded' \in {decoded, <<>>} /\ ~done.flushed
        BY <2>2, <2>6, <3>1, <3>4
      <4> QED
        BY <2>1, <2>3, <4>1 DEF Rated, OtherRate, NoneActive, Guarded
    <3>3. CASE flushed /\ done.buffer # <<>>
      <4>1. fs' = Rate[next.pt] /\ decoded' = <<>> /\ next \in ToSet(a.packets)
        <5>1. done.buffer[1] \in ToSet(done.buffer)
          BY <2>3, <3>3, Members
        <5> QED
          BY <2>2, <2>3, <2>6, <3>1, <3>3, <5>1
      <4> HIDE DEF next
      <4>2. \A p \in ToSet(a.packets) : Rate[p.pt] = fs' /\ p.pt # NoType
        <5>1. \A p \in ToSet(a.packets) : Rate[p.pt] = Rate[next.pt]
          BY <4>1 DEF OneClock
        <5>2. a.packets \in Seq(Packet)
          BY ArrivalAssumption
        <5>3. \A p \in ToSet(a.packets) : p \in Packet
          BY <5>2, Members
        <5> QED
          BY <4>1, <5>1, <5>3, NoRate DEF Packet
      <4>3. ASSUME OtherRate' PROVE NoneActive(packet_buffer)'
        BY <2>1, <2>3, <3>3, <4>2, <4>3 DEF OtherRate, NoneActive
      <4>4. ASSUME OtherRate'
            PROVE  Guarded(current_rtp_payload_type, current_cng_rtp_payload_type)'
        <5>1. PICK p \in ToSet(a.packets) : p.pt \in {done.rtp, done.cng}
          BY <2>2, <2>3, <2>6, <3>3
        <5>2. p.pt # active_decoder /\ Rate[p.pt] # Rate[active_decoder] /\ p.pt # NoType
          BY <2>1, <4>2, <4>4 DEF OtherRate
        <5> QED
          BY <2>1, <5>1, <5>2 DEF Guarded
      <4> QED
        BY <2>1, <2>3, <4>1, <4>3, <4>4 DEF Rated
    <3> QED
      BY <3>2, <3>3, <3>4
  <2> QED
    BY <2>5, <2>6
<1> QED
  BY <1>1, <1>2 DEF InsertPacketInternal

\* A step that takes packets away, or the decoder or what was heard.
LEMMA LessRated ==
  ASSUME Rated, ToSet(packet_buffer') \subseteq ToSet(packet_buffer),
         UNCHANGED <<types, fs>>, active_decoder' \in {active_decoder, NoType},
         decoded' \in {decoded, <<>>}
  PROVE  Rated'
BY NoRate DEF Rated, OtherRate, NoneActive, Guarded, types

\* Nothing is heard of what leaves the end of the signal where it was.
LEMMA HeardNothing ==
  ASSUME Inv, Paced, NEW noise, NEW op, NEW n, NEW base, NEW done,
         Takes(Fresh(noise), op, n, base, done), done.end = base,
         base = Ts(Head(Fresh(noise)).at), decoded = <<>>
  PROVE  decoded' = <<>>
<1> DEFINE buffer == Fresh(noise)
           x == buffer[1].at
<1>1. PICK k \in 0 .. n, s \in -Lead .. n, goes_on \in BOOLEAN :
        /\ n <= Lead + 1
        /\ end_timestamp' = Ts(x + s)
        /\ HeardBy(decoded', x, s, goes_on)
  <2>1. n <= Lead + 1 => TRUE
    OBVIOUS
  <2> QED
    BY DecodeHears
<1>2. /\ buffer # <<>> /\ end_timestamp' = done.end /\ buffer \in Seq(Packet)
      /\ n \in 1 .. Len(buffer)
  <2>1. buffer \in Seq(Packet)
    BY InvTypes, FreshPart DEF Part
  <2> QED
    BY <2>1 DEF Takes
<1> HIDE DEF buffer
<1>3. x \in Nat /\ Head(buffer) = buffer[1] /\ n \in Nat
  <2>1. 1 \in 1 .. Len(buffer) /\ n \in Nat
    BY <1>2
  <2>2. buffer[1] \in Packet
    BY <1>2, <2>1
  <2> QED
    BY <1>2, <2>1, <2>2 DEF Packet
<1>4. end_timestamp' = Ts(x)
  BY <1>2, <1>3 DEF buffer
<1> HIDE DEF x
<1>5. s \in Int /\ x + s \in Int /\ (x + s) - x \in -(2 * HalfTs - 1) .. 2 * HalfTs - 1
  BY <1>1, <1>3, Bounds
<1>6. x + s = x
  <2> DEFINE y == x + s
  <2>1. y \in Int /\ x \in Int /\ y - x \in -(2 * HalfTs - 1) .. 2 * HalfTs - 1 /\ Ts(y) = Ts(x)
    BY <1>1, <1>3, <1>4, <1>5
  <2> HIDE DEF y
  <2>2. y = x
    BY <2>1, TsSame
  <2> QED
    BY <2>2 DEF y
<1>7. s < 1
  BY <1>3, <1>5, <1>6
<1> QED
  BY <1>1, <1>5, <1>7 DEF HeardBy

LEMMA DecodeRated ==
  ASSUME Inv, Paced, Rated, NEW noise, NEW op, NEW n, NEW base, NEW done,
         Takes(Fresh(noise), op, n, base, done), UNCHANGED types
  PROVE  Rated'
<1> DEFINE buffer == Fresh(noise)
           p == Head(buffer)
           start == IF Restarts(op) THEN Ts(p.at) ELSE end_timestamp
           changed == p.pt \in registered \ Comfort /\ active_decoder # p.pt
<1>1. /\ buffer # <<>>
      /\ base = IF changed THEN start ELSE Ts(p.at)
      /\ fs' = IF changed THEN Rate[p.pt] ELSE fs
      /\ active_decoder' = IF changed THEN p.pt ELSE active_decoder
      /\ p.pt \notin registered \ Comfort => done.end = base
  BY Zenon DEF Takes
<1>2. /\ Part(buffer, packet_buffer) /\ buffer \in Seq(Packet) /\ Len(buffer) \in Nat
      /\ packet_buffer \in Seq(Packet)
  <2>1. Part(buffer, packet_buffer) /\ packet_buffer \in Seq(Packet)
    BY InvTypes, FreshPart
  <2>2. buffer \in Seq(Packet)
    BY <2>1 DEF Part
  <2> QED
    BY <2>1, <2>2
<1>3. p \in ToSet(packet_buffer)
  <2>1. buffer[1] \in ToSet(buffer)
    BY <1>1, <1>2, Members
  <2> QED
    BY <1>1, <1>2, <2>1 DEF Part
<1>4. ToSet(packet_buffer') \subseteq ToSet(packet_buffer)
  <2>1. Part(packet_buffer', packet_buffer)
    BY <1>2, TakenRest
  <2> QED
    BY <2>1 DEF Part
<1>5. current_cng_rtp_payload_type' \in Comfort \cup {NoType}
  BY DEF Rated, types
<1>6. CASE changed
  <2>1. active_decoder' = p.pt /\ fs' = Rate[p.pt] /\ p.pt \notin Comfort
    BY <1>1, <1>6
  <2>2. ~OtherRate'
    BY <2>1 DEF OtherRate
  <2> QED
    BY <1>5, <2>1, <2>2 DEF Rated
<1>7. CASE ~changed
  <2>1. UNCHANGED <<fs, active_decoder>> /\ base = Ts(p.at)
    BY <1>1, <1>7
  <2>2. CASE OtherRate
    <3>1. decoded = <<>> /\ p.pt # active_decoder
      BY <1>3, <2>2 DEF Rated, NoneActive
    <3>2. done.end = base
      BY <1>1, <1>7, <3>1
    <3>3. decoded' = <<>>
      BY <2>1, <3>1, <3>2, HeardNothing
    <3> QED
      BY <1>4, <2>1, <3>1, <3>3, LessRated
  <2>3. CASE ~OtherRate
    BY <1>5, <2>1, <2>3 DEF Rated, OtherRate
  <2> QED
    BY <2>2, <2>3
<1> QED
  BY <1>6, <1>7

LEMMA GetAudioRated ==
  ASSUME Inv, Paced, Rated, GetAudio
  PROVE  Rated'
<1>1. PICK noise \in 0 .. MaxNoise :
        LET buffer == Fresh(IF noise = 0 THEN 0 ELSE noise - 1)
        IN  \E op \in Operations(buffer, noise) : GetAudioBy(buffer, op)
  BY DEF GetAudio, GetAudioBy
<1> DEFINE before == IF noise = 0 THEN 0 ELSE noise - 1
           buffer == Fresh(before)
<1>2. PICK op \in Operations(buffer, noise) : GetAudioBy(buffer, op)
  BY <1>1
<1>3. UNCHANGED types
  BY DEF GetAudio
<1>4. Part(buffer, packet_buffer)
  BY InvTypes, FreshPart
<1> HIDE DEF before
<1>5. CASE GetAudioLeft(buffer, op) \/ GetAudioMissing(buffer, op)
             \/ GetAudioWithoutPacket(buffer, op)
  <2>1. packet_buffer' = buffer /\ UNCHANGED <<fs, active_decoder, decoded>>
    BY <1>5 DEF GetAudioLeft, GetAudioMissing, GetAudioWithoutPacket
  <2>2. ToSet(packet_buffer') \subseteq ToSet(packet_buffer)
    BY <1>4, <2>1 DEF Part
  <2> QED
    BY <1>3, <2>1, <2>2, LessRated
<1>6. CASE \E required \in 1 .. MaxRequired : GetAudioDecode(buffer, op, required)
  <2>1. PICK required \in 1 .. MaxRequired : GetAudioDecode(buffer, op, required)
    BY <1>6
  <2>2. PICK n, base, done : Takes(buffer, op, n, base, done)
    <3> HIDE DEF buffer
    <3> QED
      BY <1>4, <2>1, DecodeTakes
  <2> QED
    BY <1>3, <2>2, DecodeRated
<1> QED
  BY <1>2, <1>5, <1>6 DEF GetAudioBy

LEMMA ApplicationRated ==
  ASSUME Inv, Rated,
         \/ FlushBuffers
         \/ \E dropped : DropTypes(dropped)
         \/ RemoveAllPayloadTypes
         \/ UNCHANGED vars
  PROVE  Rated'
<1>1. CASE FlushBuffers
  <2>1. ToSet(packet_buffer') = {}
    BY <1>1 DEF FlushBuffers, ToSet
  <2>2. UNCHANGED <<types, fs, active_decoder>> /\ decoded' = <<>>
    BY <1>1 DEF FlushBuffers
  <2> QED
    BY <2>1, <2>2, LessRated
<1>2. ASSUME NEW dropped, DropTypes(dropped) PROVE Rated'
  <2> DEFINE S == {p \in ToSet(packet_buffer) : p.pt \notin dropped}
  <2>1. packet_buffer' = Those(S, packet_buffer)
    BY <1>2 DEF DropTypes, DiscardTypes
  <2> HIDE DEF S
  <2>2. ToSet(packet_buffer') \subseteq ToSet(packet_buffer)
    BY <2>1, InvTypes, ThosePart DEF Part
  <2>3. UNCHANGED <<types, fs, decoded>> /\ active_decoder' \in {active_decoder, NoType}
    BY <1>2 DEF DropTypes
  <2> QED
    BY <2>2, <2>3, LessRated
<1>3. CASE RemoveAllPayloadTypes \/ UNCHANGED vars
  <2>1. /\ UNCHANGED <<packet_buffer, types, fs, decoded>>
        /\ active_decoder' \in {active_decoder, NoType}
    BY <1>3 DEF RemoveAllPayloadTypes, vars, types
  <2> QED
    BY <2>1, LessRated
<1> QED
  BY <1>1, <1>2, <1>3

LEMMA NextRated ==
  OneClock /\ EmptyAgrees /\ Inv /\ Paced /\ Rated /\ [Next]_vars => Rated'
<1> SUFFICES ASSUME OneClock, EmptyAgrees, Inv, Paced, Rated, [Next]_vars PROVE Rated'
  OBVIOUS
<1>1. ASSUME NEW a \in Arrivals, InsertPacketInternal(a) PROVE Rated'
  BY <1>1, InsertRated
<1>2. CASE GetAudio
  BY <1>2, GetAudioRated
<1>3. CASE FlushBuffers
  BY <1>3, ApplicationRated
<1>4. ASSUME NEW pt \in Changeable, RegisterPayloadType(pt) \/ RemovePayloadType(pt)
      PROVE  Rated'
  BY <1>4, ApplicationRated DEF RegisterPayloadType, RemovePayloadType
<1>5. ASSUME NEW S \in SUBSET Changeable, NEW changed \in SUBSET (S \cap registered),
             SetCodecs(S \cup (registered \ Changeable), changed)
      PROVE  Rated'
  BY <1>5, ApplicationRated DEF SetCodecs
<1>6. CASE RemoveAllPayloadTypes
  BY <1>6, ApplicationRated
<1>7. CASE UNCHANGED vars
  BY <1>7, ApplicationRated
<1> QED
  BY <1>1, <1>2, <1>3, <1>4, <1>5, <1>6, <1>7 DEF Next

\* A packet of speech is decoded at the rate of its codec: whatever is flushed,
\* by the application or by a new codec, and whichever decoder was active, the
\* signal never keeps the rate of another.  This needs that the blocks of an
\* arrival have one rate, and that no empty packet hides the flush it causes.
THEOREM NetEqDecodesAtItsRate == OneClock /\ EmptyAgrees => (Spec => DecodedAtItsRate)
<1> SUFFICES ASSUME OneClock, EmptyAgrees PROVE Spec => DecodedAtItsRate
  OBVIOUS
<1>1. EmptyFirst
  <2> SUFFICES ASSUME NEW a \in Arrivals, NEW i \in 2 .. Len(a.packets)
               PROVE  ~a.packets[i].empty
    BY DEF EmptyFirst
  <2>1. Len(a.packets) \in Nat
    BY ArrivalAssumption
  <2>2. i \in 1 .. Len(a.packets) /\ i # 1
    BY <2>1
  <2> QED
    BY <2>2 DEF EmptyAgrees
<1>2. Init => Inv /\ Paced /\ Rated
  <2> SUFFICES ASSUME Init PROVE Rated
    BY InitKeeps, InitPaced
  <2> QED
    BY NoRate DEF Init, Rated, OtherRate
<1>3. Inv /\ Paced /\ Rated /\ [Next]_vars => (Inv /\ Paced /\ Rated)'
  BY <1>1, NextKeeps, NextPaced, NextRated
<1>4. (Rated)' => (decoded' \notin {decoded, <<>>} /\ active_decoder' # NoType
                     => fs' = Rate[active_decoder'])
  BY DEF Rated, OtherRate
<1> QED
  BY <1>2, <1>3, <1>4, PTL DEF Spec, DecodedAtItsRate

-----------------------------------------------------------------------------
(* The delays of NetEq.  First sums: what is added up, and what is lost.     *)

Histograms == [1 .. NumBuckets -> Nat]

Sums(b, n, sum) ==
  /\ sum \in [0 .. n -> Int]
  /\ sum[0] = 0
  /\ \A i \in 1 .. n : sum[i] = sum[i - 1] + b[i]
  /\ Delays!Total(b) = sum[n]

LEMMA ArrivalNumbers ==
  /\ One \in Nat \ {0} /\ FactorOne \in Nat \ {0} /\ NumBuckets \in Nat \ {0}
  /\ BucketSize \in Nat \ {0}
  /\ One % FactorOne = 0 /\ 32 * NumBuckets <= One
  /\ BaseFactor \in 0 .. FactorOne
  /\ MaxHistory \in Nat \ {0} /\ MaxBase \in Nat /\ BufferPackets \in Nat
  /\ AskedDelays \subseteq Nat
  /\ HalfCount \in Nat /\ HalfCount > 1 /\ HalfClock \in Nat \ {0}
  /\ PacketLengths \subseteq Nat \ {0}
BY DelayAssumption

LEMMA Distributes ==
  ASSUME NEW x \in Int, NEW y \in Int, NEW z \in Int
  PROVE  x * (y + z) = (x * y) + (x * z) /\ x * (y - z) = (x * y) - (x * z)
OBVIOUS

LEMMA ProductTyped ==
  ASSUME NEW x \in Int, NEW y \in Int
  PROVE  x * y \in Int
OBVIOUS

LEMMA ScaleCompares ==
  ASSUME NEW n \in Nat \ {0}, NEW x \in Int, NEW y \in Int, n * x <= n * y
  PROVE  x <= y
OBVIOUS

LEMMA SumUnfolds ==
  ASSUME NEW n \in Nat, NEW b \in [1 .. n -> Int]
  PROVE  \E sum : Sums(b, n, sum)
<1> DEFINE Steps(f) == f = [i \in 0 .. Len(b) |-> IF i = 0 THEN 0 ELSE f[i - 1] + b[i]]
           step == [i \in 1 .. n |-> [x \in Int |-> x + b[i]]]
<1>1. Len(b) = n
  OBVIOUS
<1>2. step \in [1 .. n -> [Int -> Int]]
  OBVIOUS
<1>3. PICK f \in [0 .. n -> Int] : f[0] = 0 /\ \A i \in 1 .. n : f[i] = step[i][f[i - 1]]
  <2> HIDE DEF step
  <2> DEFINE base == 0
  <2>1. base \in Int
    OBVIOUS
  <2> HIDE DEF base
  <2>2. Definable(n, Int, base, step)
    BY <1>2, <2>1, Recursion
  <2> QED
    BY <2>2 DEF Definable, base
<1>4. \A i \in 1 .. n : f[i] = f[i - 1] + b[i]
  <2>1. ASSUME NEW i \in 1 .. n PROVE f[i] = f[i - 1] + b[i]
    <3>1. f[i - 1] \in Int
      <4>1. i - 1 \in 0 .. n
        OBVIOUS
      <4> QED
        BY <4>1
    <3> QED
      BY <1>3, <3>1
  <2> QED
    BY <2>1
<1>5. Steps(f)
  <2>1. \A i \in 0 .. n : f[i] = IF i = 0 THEN 0 ELSE f[i - 1] + b[i]
    BY <1>3, <1>4
  <2>2. f = [i \in 0 .. n |-> f[i]]
    OBVIOUS
  <2> QED
    BY <1>1, <2>1, <2>2, Zenon
<1> DEFINE sum == CHOOSE g : Steps(g)
<1>6. Steps(sum)
  <2> HIDE DEF Steps
  <2> QED
    BY <1>5
<1>7. Delays!Total(b) = sum[n]
  BY <1>1 DEF Delays!Total
<1> HIDE DEF sum
<1>8. /\ DOMAIN sum = 0 .. n /\ sum[0] = 0
      /\ \A i \in 1 .. n : sum[i] = sum[i - 1] + b[i]
  BY <1>1, <1>6
<1> DEFINE T == {i \in 0 .. n : sum[i] \in Int}
<1>9. 0 .. n \subseteq T
  <2>1. 0 \in T
    BY <1>8
  <2>2. ASSUME NEW i \in 0 .. n - 1, i \in T PROVE i + 1 \in T
    <3>1. i + 1 \in 1 .. n /\ (i + 1) - 1 = i
      OBVIOUS
    <3> QED
      BY <1>8, <2>2, <3>1
  <2> HIDE DEF T
  <2> QED
    BY <2>1, <2>2, Induction
<1>10. sum \in [0 .. n -> Int]
  <2>1. sum = [i \in 0 .. n |-> sum[i]]
    BY <1>1, <1>6
  <2>2. \A i \in 0 .. n : sum[i] \in Int
    BY <1>9
  <2> QED
    BY <2>1, <2>2
<1> QED
  BY <1>7, <1>8, <1>10 DEF Sums

\* What goes from zero by the elements of a sequence comes to their total.
LEMMA TotalIs ==
  ASSUME NEW n \in Nat, NEW b \in [1 .. n -> Int], NEW g \in [0 .. n -> Int],
         g[0] = 0, \A i \in 1 .. n : g[i] = g[i - 1] + b[i]
  PROVE  Delays!Total(b) = g[n]
<1>1. PICK sum : Sums(b, n, sum)
  BY SumUnfolds
<1> DEFINE T == {i \in 0 .. n : sum[i] = g[i]}
<1>2. 0 .. n \subseteq T
  <2>1. 0 \in T
    BY <1>1 DEF Sums
  <2>2. ASSUME NEW i \in 0 .. n - 1, i \in T PROVE i + 1 \in T
    <3>1. i + 1 \in 1 .. n /\ (i + 1) - 1 = i
      OBVIOUS
    <3> QED
      BY <1>1, <2>2, <3>1 DEF Sums
  <2> HIDE DEF T
  <2> QED
    BY <2>1, <2>2, Induction
<1> QED
  BY <1>1, <1>2 DEF Sums

LEMMA TotalTyped ==
  ASSUME NEW n \in Nat, NEW b \in [1 .. n -> Int]
  PROVE  Delays!Total(b) \in Int
BY SumUnfolds DEF Sums

\* A bound of each element, less a rest, is one of the total.
LEMMA TotalsCompare ==
  ASSUME NEW n \in Nat, NEW a \in [1 .. n -> Int], NEW b \in [1 .. n -> Int],
         NEW p \in Int, NEW q \in Int, NEW r \in Int,
         \A i \in 1 .. n : q * b[i] <= (p * a[i]) + r
  PROVE  q * Delays!Total(b) <= (p * Delays!Total(a)) + (r * n)
<1>1. PICK f : Sums(a, n, f)
  BY SumUnfolds
<1>2. PICK g : Sums(b, n, g)
  BY SumUnfolds
<1> DEFINE T == {i \in 0 .. n : q * g[i] <= (p * f[i]) + (r * i)}
<1>3. 0 .. n \subseteq T
  <2>1. 0 \in T
    BY <1>1, <1>2 DEF Sums
  <2>2. ASSUME NEW i \in 0 .. n - 1, i \in T PROVE i + 1 \in T
    <3>1. i + 1 \in 1 .. n /\ (i + 1) - 1 = i /\ i \in 0 .. n /\ i + 1 \in 0 .. n
      OBVIOUS
    <3>2. f[i + 1] = f[i] + a[i + 1] /\ g[i + 1] = g[i] + b[i + 1]
      BY <1>1, <1>2, <3>1 DEF Sums
    <3>3. f[i] \in Int /\ g[i] \in Int /\ a[i + 1] \in Int /\ b[i + 1] \in Int
      BY <1>1, <1>2, <3>1 DEF Sums
    <3>4. /\ q * g[i + 1] = (q * g[i]) + (q * b[i + 1])
          /\ p * f[i + 1] = (p * f[i]) + (p * a[i + 1])
      BY <3>2, <3>3, Distributes
    <3>5. r * (i + 1) = (r * i) + r
      <4> DEFINE unit == 1
      <4>1. unit \in Int /\ r * unit = r
        OBVIOUS
      <4>2. i \in Int
        OBVIOUS
      <4> HIDE DEF unit
      <4>3. r * (i + unit) = (r * i) + (r * unit)
        BY <4>1, <4>2, Distributes
      <4> QED
        BY <4>1, <4>3 DEF unit
    <3>6. /\ q * g[i] \in Int /\ q * b[i + 1] \in Int /\ p * f[i] \in Int
          /\ p * a[i + 1] \in Int /\ r * i \in Int
      BY <3>3, ProductTyped
    <3>7. q * b[i + 1] <= (p * a[i + 1]) + r
      BY <3>1
    <3>8. q * g[i] <= (p * f[i]) + (r * i)
      BY <2>2
    <3>9. q * g[i + 1] <= (p * f[i + 1]) + (r * (i + 1))
      <4> DEFINE x == q * g[i]
                 y == q * b[i + 1]
                 u == p * f[i]
                 v == p * a[i + 1]
                 w == r * i
      <4>1. /\ x \in Int /\ y \in Int /\ u \in Int /\ v \in Int /\ w \in Int
            /\ x <= u + w /\ y <= v + r
        BY <3>6, <3>7, <3>8
      <4>2. /\ q * g[i + 1] = x + y /\ p * f[i + 1] = u + v
            /\ r * (i + 1) = w + r
        BY <3>4, <3>5
      <4> HIDE DEF x, y, u, v, w
      <4>3. x + y <= (u + v) + (w + r)
        BY <4>1
      <4> QED
        BY <4>2, <4>3
    <3> QED
      BY <3>1, <3>9
  <2> HIDE DEF T
  <2> QED
    BY <2>1, <2>2, Induction
<1>4. n \in T
  BY <1>3
<1> QED
  BY <1>1, <1>2, <1>4 DEF Sums

LEMMA ZerosTotal ==
  ASSUME NEW n \in Nat
  PROVE  Delays!Total([i \in 1 .. n |-> 0]) = 0
<1> DEFINE zeros == [i \in 1 .. n |-> 0]
           none == [i \in 0 .. n |-> 0]
<1>1. /\ zeros \in [1 .. n -> Int] /\ none \in [0 .. n -> Int]
      /\ none[0] = 0 /\ none[n] = 0
      /\ \A i \in 1 .. n : none[i] = none[i - 1] + zeros[i]
  OBVIOUS
<1> HIDE DEF none, zeros
<1>2. Delays!Total(zeros) = 0
  BY <1>1, TotalIs
<1> QED
  BY <1>2 DEF zeros

LEMMA TotalIsPositive ==
  ASSUME NEW n \in Nat, NEW b \in [1 .. n -> Nat]
  PROVE  Delays!Total(b) \in Nat
<1> DEFINE zeros == [i \in 1 .. n |-> 0]
<1>1. b \in [1 .. n -> Int] /\ zeros \in [1 .. n -> Int]
  OBVIOUS
<1>2. Delays!Total(zeros) = 0
  BY ZerosTotal
<1>3. \A i \in 1 .. n : 1 * zeros[i] <= (1 * b[i]) + 0
  OBVIOUS
<1>4. Delays!Total(b) \in Int
  BY <1>1, TotalTyped
<1> HIDE DEF zeros
<1> DEFINE p == 1
           r == 0
<1>5. \A i \in 1 .. n : p * zeros[i] <= (p * b[i]) + r
  BY <1>3
<1>6. p \in Int /\ r \in Int
  OBVIOUS
<1> HIDE DEF p, r
<1>7. p * Delays!Total(zeros) <= (p * Delays!Total(b)) + (r * n)
  BY <1>1, <1>5, <1>6, TotalsCompare
<1> QED
  BY <1>2, <1>4, <1>7 DEF p, r

\* One element is more by some.
More(b, c, n, k, by) ==
  /\ k \in 1 .. n /\ c[k] = b[k] + by
  /\ \A i \in 1 .. n : i # k => c[i] = b[i]

LEMMA TotalPlus ==
  ASSUME NEW n \in Nat, NEW b \in [1 .. n -> Int], NEW c \in [1 .. n -> Int],
         NEW k, NEW by \in Int, More(b, c, n, k, by)
  PROVE  Delays!Total(c) = Delays!Total(b) + by
<1>1. PICK sum : Sums(b, n, sum)
  BY SumUnfolds
<1> DEFINE g == [i \in 0 .. n |-> IF i < k THEN sum[i] ELSE sum[i] + by]
<1>2. /\ sum \in [0 .. n -> Int] /\ sum[0] = 0 /\ Delays!Total(b) = sum[n]
      /\ \A i \in 1 .. n : sum[i] = sum[i - 1] + b[i]
  BY <1>1 DEF Sums
<1>3. /\ c \in [1 .. n -> Int] /\ k \in 1 .. n
      /\ \A i \in 1 .. n : c[i] = IF i = k THEN b[i] + by ELSE b[i]
  BY DEF More
<1>4. /\ g \in [0 .. n -> Int] /\ g[0] = 0 /\ g[n] = sum[n] + by
  <2>1. \A i \in 0 .. n : sum[i] \in Int
    BY <1>2
  <2>2. 0 \in 0 .. n /\ n \in 0 .. n /\ 0 < k /\ ~(n < k)
    BY <1>3
  <2>3. g[0] = sum[0] /\ g[n] = sum[n] + by
    BY <2>2
  <2>4. g \in [0 .. n -> Int]
    BY <2>1
  <2> QED
    BY <1>2, <2>3, <2>4
<1>5. ASSUME NEW i \in 1 .. n PROVE g[i] = g[i - 1] + c[i]
  <2>1. i - 1 \in 0 .. n /\ i \in 0 .. n /\ sum[i - 1] \in Int /\ b[i] \in Int
    BY <1>2
  <2>2. g[i] = IF i < k THEN sum[i] ELSE sum[i] + by
    BY <2>1
  <2>3. g[i - 1] = IF i - 1 < k THEN sum[i - 1] ELSE sum[i - 1] + by
    BY <2>1
  <2> HIDE DEF g
  <2>7. i \in Int /\ k \in Int
    BY <1>3
  <2>4. CASE i < k
    BY <1>2, <1>3, <2>1, <2>2, <2>3, <2>4, <2>7
  <2>5. CASE i = k
    BY <1>2, <1>3, <2>1, <2>2, <2>3, <2>5, <2>7
  <2>6. CASE i > k
    BY <1>2, <1>3, <2>1, <2>2, <2>3, <2>6, <2>7
  <2> QED
    BY <2>4, <2>5, <2>6, <2>7
<1> HIDE DEF g
<1>6. Delays!Total(c) = g[n]
  BY <1>3, <1>4, <1>5, TotalIs
<1> QED
  BY <1>2, <1>4, <1>6

-----------------------------------------------------------------------------
(* What rounding lost is made up for by the first buckets.                   *)

By(left, b) ==
  (IF left > 0 THEN -1 ELSE 1) * Delays!Lesser(Delays!Magnitude(left), b \div 16)

\* While something is left, each bucket has given its sixteenth.
LEMMA ByGives ==
  ASSUME NEW left \in Int, left <= 0, NEW b \in Nat
  PROVE  /\ By(left, b) \in Nat
         /\ left + By(left, b) <= 0
         /\ left + By(left, b) = 0 \/ 16 * By(left, b) >= b - 15
<1> DEFINE part == b \div 16
<1>1. part \in Nat /\ 16 * part <= b /\ 16 * part >= b - 15
  OBVIOUS
<1>2. By(left, b) = IF -left < part THEN -left ELSE part
  <2>1. Delays!Magnitude(left) = -left
    BY DEF Delays!Magnitude
  <2>2. Delays!Lesser(-left, part) = IF -left < part THEN -left ELSE part
    BY DEF Delays!Lesser
  <2> HIDE DEF part
  <2>3. Delays!Lesser(-left, part) \in Int
    BY <1>1, <2>2
  <2> QED
    BY <2>1, <2>2, <2>3 DEF By, part
<1> HIDE DEF part
<1> QED
  BY <1>1, <1>2

LEMMA CorrectMakesOne ==
  ASSUME NEW b \in Histograms, Delays!Total(b) \in One - NumBuckets .. One
  PROVE  Delays!Correct(b) \in Histograms /\ Delays!Total(Delays!Correct(b)) = One
<1> DEFINE n == NumBuckets
           first == Delays!Total(b) - One
           Steps(f) == f = [i \in 0 .. Len(b) |-> IF i = 0 THEN Delays!Total(b) - One
                                                ELSE f[i - 1] + By(f[i - 1], b[i])]
           step == [i \in 1 .. n |-> [x \in Int |-> x + By(x, b[i])]]
           c == Delays!Correct(b)
<1>1. Len(b) = n /\ DOMAIN b = 1 .. n /\ n \in Nat /\ b \in [1 .. n -> Int]
      /\ Delays!Total(b) \in Int /\ first \in Int /\ first <= 0 /\ first >= -n
  BY ArrivalNumbers DEF Histograms
<1>2. ASSUME NEW x \in Int, NEW i \in 1 .. n PROVE By(x, b[i]) \in Int
  <2>1. b[i] \div 16 \in Int
    BY <1>1
  <2> QED
    BY <2>1 DEF By, Delays!Lesser, Delays!Magnitude
<1>3. step \in [1 .. n -> [Int -> Int]]
  BY <1>2
<1>4. PICK f \in [0 .. n -> Int] : f[0] = first /\ \A i \in 1 .. n : f[i] = step[i][f[i - 1]]
  <2> HIDE DEF step, first, n
  <2>1. Definable(n, Int, first, step)
    BY <1>1, <1>3, Recursion
  <2> QED
    BY <2>1 DEF Definable
<1>5. \A i \in 1 .. n : f[i] = f[i - 1] + By(f[i - 1], b[i])
  <2>1. ASSUME NEW i \in 1 .. n PROVE f[i] = f[i - 1] + By(f[i - 1], b[i])
    <3>1. f[i - 1] \in Int
      <4>1. i - 1 \in 0 .. n
        BY <1>1
      <4> QED
        BY <4>1
    <3> QED
      BY <1>4, <3>1
  <2> QED
    BY <2>1
<1>6. Steps(f)
  <2>1. \A i \in 0 .. n : f[i] = IF i = 0 THEN Delays!Total(b) - One
                                 ELSE f[i - 1] + By(f[i - 1], b[i])
    <3>1. \A i \in 0 .. n : i = 0 \/ i \in 1 .. n
      BY <1>1
    <3> HIDE DEF n
    <3> QED
      BY <1>4, <1>5, <3>1
  <2>2. f = [i \in 0 .. n |-> f[i]]
    OBVIOUS
  <2> HIDE DEF n
  <2> QED
    BY <1>1, <2>1, <2>2, Zenon
<1> DEFINE excess == CHOOSE g : Steps(g)
<1>7. Steps(excess)
  <2> HIDE DEF Steps
  <2> QED
    BY <1>6
<1>8. c = [i \in 1 .. n |-> b[i] + By(excess[i - 1], b[i])]
  <2>1. c = [i \in DOMAIN b |-> b[i] + By(excess[i - 1], b[i])]
    BY DEF Delays!Correct, By
  <2> QED
    BY <1>1, <2>1
<1> HIDE DEF excess, c
<1>9. /\ DOMAIN excess = 0 .. n /\ excess[0] = first
      /\ \A i \in 1 .. n : excess[i] = excess[i - 1] + By(excess[i - 1], b[i])
  <2>1. excess = [i \in 0 .. n |-> IF i = 0 THEN Delays!Total(b) - One
                                    ELSE excess[i - 1] + By(excess[i - 1], b[i])]
    BY <1>1, <1>7
  <2>2. DOMAIN excess = 0 .. n
    BY <2>1
  <2>3. 0 \in 0 .. n /\ \A i \in 1 .. n : i \in 0 .. n /\ i # 0
    BY <1>1
  <2> HIDE DEF n
  <2> QED
    BY <2>1, <2>2, <2>3
<1>10. PICK sum : Sums(b, n, sum)
  BY <1>1, SumUnfolds
<1>11. /\ sum \in [0 .. n -> Int] /\ sum[0] = 0 /\ Delays!Total(b) = sum[n]
       /\ \A i \in 1 .. n : sum[i] = sum[i - 1] + b[i]
  BY <1>10 DEF Sums
<1> DEFINE Gave(i) == /\ excess[i] \in Int /\ excess[i] <= 0
                      /\ excess[i] = 0 \/ 16 * excess[i] >= 16 * first + (sum[i] - 15 * i)
           T == {i \in 0 .. n : Gave(i)}
<1>12. 0 .. n \subseteq T
  <2>1. Gave(0)
    BY <1>1, <1>9, <1>11
  <2>2. 0 \in T
    BY <1>1, <2>1
  <2>3. ASSUME NEW i \in 0 .. n - 1, Gave(i) PROVE Gave(i + 1)
    <3>1. i + 1 \in 1 .. n /\ (i + 1) - 1 = i /\ i \in 0 .. n /\ i \in Int
      BY <1>1
    <3>2. excess[i + 1] = excess[i] + By(excess[i], b[i + 1])
      BY <1>9, <3>1
    <3>3. sum[i + 1] = sum[i] + b[i + 1] /\ sum[i] \in Int /\ b[i + 1] \in Nat
      BY <1>11, <3>1 DEF Histograms
    <3>4. excess[i] \in Int /\ excess[i] <= 0
          /\ (excess[i] = 0 \/ 16 * excess[i] >= 16 * first + (sum[i] - 15 * i))
      BY <2>3
    <3> DEFINE by == By(excess[i], b[i + 1])
    <3>5. /\ by \in Nat /\ excess[i] + by <= 0
          /\ excess[i] + by = 0 \/ 16 * by >= b[i + 1] - 15
      BY <3>3, <3>4, ByGives
    <3>6. excess[i + 1] = excess[i] + by
      BY <3>2
    <3> HIDE DEF by, first
    <3> DEFINE now1 == excess[i]
               then == excess[i + 1]
               was == sum[i]
               more == b[i + 1]
    <3>7. /\ now1 \in Int /\ now1 <= 0 /\ was \in Int /\ more \in Nat
          /\ now1 = 0 \/ 16 * now1 >= 16 * first + (was - 15 * i)
          /\ now1 + by <= 0 /\ (now1 + by = 0 \/ 16 * by >= more - 15)
          /\ then = now1 + by /\ sum[i + 1] = was + more
      BY <3>3, <3>4, <3>5, <3>6
    <3> HIDE DEF now1, then, was, more
    <3>8. then \in Int /\ then <= 0
      BY <3>5, <3>7
    <3>9. then = 0 \/ 16 * then >= 16 * first + ((was + more) - 15 * (i + 1))
      BY <1>1, <3>1, <3>5, <3>7
    <3> QED
      BY <3>7, <3>8, <3>9 DEF then
  <2> HIDE DEF Gave, n
  <2> USE DEF T
  <2>4. \A i \in 0 .. n - 1 : i \in T => i + 1 \in T
    <3>1. \A i \in 0 .. n - 1 : i + 1 \in 0 .. n
      BY <1>1
    <3> QED
      BY <2>3, <3>1
  <2> HIDE DEF T
  <2> QED
    BY <1>1, <2>2, <2>4, Induction
<1>13. excess[n] = 0
  <2>1. Gave(n)
    BY <1>1, <1>12
  <2>2. sum[n] = first + One /\ 32 * n <= One /\ One \in Nat
    BY <1>1, <1>11, ArrivalNumbers
  <2> HIDE DEF first, n
  <2>3. 16 * first + ((first + One) - 15 * n) >= 0
    BY <1>1, <2>2
  <2> QED
    BY <1>1, <2>1, <2>2, <2>3
<1>14. \A i \in 0 .. n : excess[i] \in Int /\ excess[i] <= 0
  BY <1>12
<1>15. \A i \in 1 .. n : c[i] \in Nat
  <2>1. ASSUME NEW i \in 1 .. n PROVE c[i] \in Nat
    <3>1. i - 1 \in 0 .. n
      BY <1>1
    <3>2. By(excess[i - 1], b[i]) \in Nat /\ b[i] \in Nat
      BY <1>14, <3>1, ByGives DEF Histograms
    <3> QED
      BY <1>8, <3>2
  <2> QED
    BY <2>1
<1>16. c \in Histograms
  <2> HIDE DEF n
  <2>1. c = [i \in 1 .. n |-> c[i]]
    BY <1>8
  <2> QED
    BY <1>15, <2>1 DEF Histograms, n
<1> DEFINE g == [i \in 0 .. n |-> sum[i] + (excess[i] - first)]
<1>17. g \in [0 .. n -> Int] /\ g[0] = 0 /\ g[n] = One
  <2>1. \A i \in 0 .. n : sum[i] \in Int /\ excess[i] \in Int
    BY <1>11, <1>14
  <2>2. g[0] = sum[0] + (excess[0] - first) /\ g[n] = sum[n] + (excess[n] - first)
    BY <1>1
  <2>3. sum[n] = first + One /\ One \in Int
    BY <1>1, <1>11, ArrivalNumbers
  <2> HIDE DEF first, n
  <2>4. g \in [0 .. n -> Int]
    BY <1>1, <2>1
  <2> QED
    BY <1>1, <1>9, <1>11, <1>13, <2>2, <2>3, <2>4
<1>18. \A i \in 1 .. n : g[i] = g[i - 1] + c[i]
  <2>1. ASSUME NEW i \in 1 .. n PROVE g[i] = g[i - 1] + c[i]
    <3>1. i - 1 \in 0 .. n /\ i \in 0 .. n
      BY <1>1
    <3>2. g[i] = sum[i] + (excess[i] - first)
          /\ g[i - 1] = sum[i - 1] + (excess[i - 1] - first)
      BY <3>1
    <3>3. /\ sum[i] = sum[i - 1] + b[i] /\ sum[i - 1] \in Int /\ b[i] \in Int
          /\ excess[i] = excess[i - 1] + By(excess[i - 1], b[i])
          /\ excess[i] \in Int /\ excess[i - 1] \in Int
          /\ c[i] = b[i] + By(excess[i - 1], b[i])
      BY <1>1, <1>8, <1>9, <1>11, <1>14, <3>1
    <3>4. By(excess[i - 1], b[i]) \in Int
      BY <1>2, <3>3
    <3> DEFINE by == By(excess[i - 1], b[i])
               was == sum[i - 1]
               left == excess[i - 1]
    <3>5. /\ by \in Int /\ was \in Int /\ left \in Int /\ b[i] \in Int
          /\ g[i] = (was + b[i]) + ((left + by) - first)
          /\ g[i - 1] = was + (left - first) /\ c[i] = b[i] + by
      BY <3>2, <3>3, <3>4
    <3> HIDE DEF g, first, by, was, left
    <3> QED
      BY <1>1, <3>5
  <2> QED
    BY <2>1
<1> HIDE DEF g
<1>19. c \in [1 .. n -> Int]
  BY <1>16 DEF Histograms
<1> HIDE DEF n
<1>20. Delays!Total(c) = g[n]
  BY <1>1, <1>17, <1>18, <1>19, TotalIs
<1> QED
  BY <1>16, <1>17, <1>20 DEF c

\* What a bucket loses to the factor is made up for.
LEMMA AddKeepsOne ==
  ASSUME NEW b \in Histograms, NEW factor \in 0 .. FactorOne,
         NEW value \in 0 .. NumBuckets - 1, Delays!Total(b) = One
  PROVE  /\ Delays!Add(b, factor, value) \in Histograms
         /\ Delays!Total(Delays!Add(b, factor, value)) = One
<1> DEFINE n == NumBuckets
           unit == One \div FactorOne
           kept == Delays!Forget(b, factor)
           by == (FactorOne - factor) * unit
           k == value + 1
           fed == [kept EXCEPT ![k] = @ + by]
<1>1. /\ n \in Nat /\ unit \in Nat /\ One = FactorOne * unit /\ by \in Nat
      /\ factor \in Nat /\ k \in 1 .. n /\ FactorOne \in Nat \ {0}
  <2>1. unit \in Nat /\ One = FactorOne * unit
    BY ArrivalNumbers
  <2>2. FactorOne - factor \in Nat
    BY ArrivalNumbers
  <2> HIDE DEF unit
  <2> QED
    BY <2>1, <2>2, ArrivalNumbers
<1> HIDE DEF unit
<1>2. b \in [1 .. n -> Int] /\ DOMAIN b = 1 .. n /\ \A i \in 1 .. n : b[i] \in Nat
  BY DEF Histograms
<1>3. ASSUME NEW i \in 1 .. n
      PROVE  /\ kept[i] \in Nat
             /\ FactorOne * kept[i] <= factor * b[i]
             /\ factor * b[i] <= (FactorOne * kept[i]) + FactorOne
  <2> DEFINE m == b[i] * factor
  <2>1. kept[i] = m \div FactorOne
    BY <1>2 DEF Delays!Forget
  <2>2. m \in Nat /\ m = factor * b[i]
    BY <1>1, <1>2
  <2> HIDE DEF m, kept
  <2>3. /\ m \div FactorOne \in Nat
        /\ FactorOne * (m \div FactorOne) <= m
        /\ m <= (FactorOne * (m \div FactorOne)) + FactorOne
    BY <1>1, <2>2
  <2> QED
    BY <2>1, <2>2, <2>3
<1>4. kept \in Histograms /\ kept \in [1 .. n -> Int]
  <2>1. kept = [i \in 1 .. n |-> kept[i]]
    BY <1>2 DEF Delays!Forget
  <2> HIDE DEF kept
  <2>2. \A i \in 1 .. n : kept[i] \in Nat
    BY <1>3
  <2> QED
    BY <2>1, <2>2 DEF Histograms
<1>5. FactorOne * Delays!Total(kept) <= factor * One
  <2> DEFINE r == 0
  <2>1. r \in Int /\ \A i \in 1 .. n : FactorOne * kept[i] <= (factor * b[i]) + r
    <3>1. ASSUME NEW i \in 1 .. n PROVE FactorOne * kept[i] <= (factor * b[i]) + 0
      <4>1. factor * b[i] \in Int
        BY <1>1, <1>2
      <4> HIDE DEF kept
      <4> QED
        BY <1>3, <4>1
    <3> QED
      BY <3>1
  <2>2. FactorOne \in Int /\ factor \in Int
    BY <1>1
  <2>3. r * n = 0 /\ factor * One \in Int
    BY <1>1 DEF r
  <2> HIDE DEF kept, r, n
  <2>4. FactorOne * Delays!Total(kept) <= (factor * Delays!Total(b)) + (r * n)
    BY <1>1, <1>2, <1>4, <2>1, <2>2, TotalsCompare
  <2> QED
    BY <2>3, <2>4
<1>6. factor * One <= (FactorOne * Delays!Total(kept)) + (FactorOne * n)
  <2>1. \A i \in 1 .. n : factor * b[i] <= (FactorOne * kept[i]) + FactorOne
    BY <1>3
  <2> HIDE DEF kept, n
  <2>2. FactorOne \in Int /\ factor \in Int
    BY <1>1
  <2>3. factor * Delays!Total(b) <= (FactorOne * Delays!Total(kept)) + (FactorOne * n)
    BY <1>1, <1>2, <1>4, <2>1, <2>2, TotalsCompare
  <2> QED
    BY <2>3
<1>7. Delays!Total(kept) \in Int
  BY <1>1, <1>4, TotalTyped
<1>8. Delays!Total(kept) <= factor * unit /\ factor * unit <= Delays!Total(kept) + n
  <2> DEFINE part == factor * unit
  <2>1. part \in Int /\ factor * One = FactorOne * part
    BY <1>1
  <2> HIDE DEF part, n, kept
  <2>2. FactorOne * Delays!Total(kept) <= FactorOne * part
    BY <1>5, <2>1
  <2>3. FactorOne * part <= FactorOne * (Delays!Total(kept) + n)
    <3>1. FactorOne * (Delays!Total(kept) + n) = (FactorOne * Delays!Total(kept)) + (FactorOne * n)
      BY <1>1, <1>7, Distributes
    <3> QED
      BY <1>6, <2>1, <3>1
  <2>4. Delays!Total(kept) + n \in Int
    BY <1>1, <1>7
  <2>5. Delays!Total(kept) <= part
    BY <1>1, <1>7, <2>1, <2>2, ScaleCompares
  <2>6. part <= Delays!Total(kept) + n
    BY <1>1, <2>1, <2>3, <2>4, ScaleCompares
  <2> QED
    BY <2>5, <2>6 DEF part
<1>9. by + (factor * unit) = One
  <2>1. unit * (FactorOne - factor) = (unit * FactorOne) - (unit * factor)
    BY <1>1, Distributes
  <2>2. by = unit * (FactorOne - factor) /\ factor * unit = unit * factor
    BY <1>1
  <2>3. unit * FactorOne = One /\ unit * factor \in Int
    BY <1>1
  <2> HIDE DEF by
  <2> QED
    BY <1>1, <2>1, <2>2, <2>3
<1>10. Delays!Total(fed) = Delays!Total(kept) + by
  <2>1. fed \in [1 .. n -> Int] /\ by \in Int
        /\ More(kept, fed, n, k, by)
    <3> HIDE DEF kept, by, k, n
    <3> QED
      BY <1>1, <1>4 DEF More
  <2> HIDE DEF fed, kept, by, k, n
  <2> QED
    BY <1>1, <1>4, <2>1, TotalPlus
<1>11. Delays!Total(fed) \in One - n .. One
  <2> DEFINE part == factor * unit
  <2>1. part \in Int
    BY <1>1
  <2>2. Delays!Total(kept) <= part /\ part <= Delays!Total(kept) + n /\ by + part = One
    BY <1>8, <1>9
  <2> HIDE DEF kept, by, n, part, fed
  <2> QED
    BY <1>1, <1>7, <1>10, <2>1, <2>2, ArrivalNumbers
<1>12. fed \in Histograms
  <2> HIDE DEF kept, by, k
  <2> QED
    BY <1>1, <1>4 DEF Histograms
<1>13. Delays!Add(b, factor, value) = Delays!Correct(fed)
  BY DEF Delays!Add, unit
<1>14. Delays!Total(fed) \in One - NumBuckets .. One
  BY <1>11
<1> HIDE DEF fed
<1>15. /\ Delays!Correct(fed) \in Histograms
       /\ Delays!Total(Delays!Correct(fed)) = One
  BY <1>12, <1>14, CorrectMakesOne
<1> QED
  BY <1>13, <1>15

-----------------------------------------------------------------------------
(* A change of the packets' length spreads what is in the buckets anew.      *)

Weight(top, from, n, i) ==
  IF i = top THEN Delays!Greater(0, from + n - Delays!Greater(from, top))
  ELSE IF i \in from .. from + n - 1 THEN 1 ELSE 0

Weighed(from, n, i) ==
  IF i = NumBuckets THEN n
  ELSE IF i < from THEN 0 ELSE IF i < from + n THEN (i - from) + 1 ELSE n

WrittenOut(top, out, from, n, amount) ==
  [i \in DOMAIN out |-> out[i] + amount * Weight(top, from, n, i)]

Spreads(width) ==
  [out : Histograms, to : 1 .. NumBuckets, held : Nat, time : 0 .. width - 1]

Collected(top, s, b, old, new) ==
  LET time == s.time + old
      n == time \div new
      amount == ((s.held + b) * new) \div time
  IN  [out |-> WrittenOut(top, s.out, s.to, n, amount),
       to |-> Delays!Lesser(s.to + n, top),
       held |-> s.held + b - n * amount,
       time |-> time - n * new]

\* As many buckets are written, or the last as often, as end.
LEMMA WeightsAddUp ==
  ASSUME NEW from \in 1 .. NumBuckets, NEW n \in Nat
  PROVE  /\ Weighed(from, n, 0) = 0 /\ Weighed(from, n, NumBuckets) = n
         /\ \A i \in 0 .. NumBuckets : Weighed(from, n, i) \in Nat
         /\ \A i \in 1 .. NumBuckets :
              /\ Weight(NumBuckets, from, n, i) \in Nat
              /\ Weighed(from, n, i) = Weighed(from, n, i - 1) + Weight(NumBuckets, from, n, i)
<1>1. NumBuckets \in Nat \ {0} /\ from \in Nat /\ from >= 1 /\ from <= NumBuckets
  BY ArrivalNumbers
<1>2. Weighed(from, n, 0) = 0 /\ Weighed(from, n, NumBuckets) = n
  BY <1>1 DEF Weighed
<1>3. \A i \in 0 .. NumBuckets : Weighed(from, n, i) \in Nat
  BY <1>1 DEF Weighed
<1>4. ASSUME NEW i \in 1 .. NumBuckets
      PROVE  /\ Weight(NumBuckets, from, n, i) \in Nat
             /\ Weighed(from, n, i) = Weighed(from, n, i - 1) + Weight(NumBuckets, from, n, i)
  <2>1. Weighed(from, n, i - 1) =
          IF i - 1 < from THEN 0 ELSE IF i - 1 < from + n THEN (i - 1) - from + 1 ELSE n
    BY <1>1 DEF Weighed
  <2>2. CASE i = NumBuckets
    <3>1. Delays!Greater(from, NumBuckets) = NumBuckets
      BY <1>1 DEF Delays!Greater
    <3>2. Weight(NumBuckets, from, n, i) = IF 0 < (from + n) - NumBuckets THEN (from + n) - NumBuckets ELSE 0
      BY <1>1, <2>2, <3>1 DEF Weight, Delays!Greater
    <3>3. Weighed(from, n, i) = n
      BY <2>2 DEF Weighed
    <3> QED
      BY <1>1, <2>1, <2>2, <3>2, <3>3
  <2>3. CASE i # NumBuckets
    <3>1. Weight(NumBuckets, from, n, i) = IF i >= from /\ i < from + n THEN 1 ELSE 0
      BY <1>1, <2>3 DEF Weight
    <3>2. Weighed(from, n, i) =
            IF i < from THEN 0 ELSE IF i < from + n THEN (i - from) + 1 ELSE n
      BY <2>3 DEF Weighed
    <3> QED
      BY <1>1, <2>1, <3>1, <3>2
  <2> QED
    BY <2>2, <2>3
<1> QED
  BY <1>2, <1>3, <1>4

LEMMA WrittenAddsUp ==
  ASSUME NEW out \in Histograms, NEW from \in 1 .. NumBuckets,
         NEW n \in Nat, NEW amount \in Nat
  PROVE  /\ WrittenOut(NumBuckets, out, from, n, amount) \in Histograms
         /\ Delays!Total(WrittenOut(NumBuckets, out, from, n, amount))
              = Delays!Total(out) + (n * amount)
<1> DEFINE N == NumBuckets
           w == WrittenOut(NumBuckets, out, from, n, amount)
           W(i) == Weighed(from, n, i)
<1>1. N \in Nat /\ out \in [1 .. N -> Int] /\ \A i \in 1 .. N : out[i] \in Nat
  BY ArrivalNumbers DEF Histograms
<1>2. /\ W(0) = 0 /\ W(N) = n /\ \A i \in 0 .. N : W(i) \in Nat
      /\ \A i \in 1 .. N : Weight(NumBuckets, from, n, i) \in Nat
                         /\ W(i) = W(i - 1) + Weight(NumBuckets, from, n, i)
  BY WeightsAddUp
<1>3. ASSUME NEW i \in 1 .. N
      PROVE  w[i] \in Nat /\ w[i] = out[i] + (amount * Weight(NumBuckets, from, n, i))
  <2>1. amount * Weight(NumBuckets, from, n, i) \in Nat
    <3>1. Weight(NumBuckets, from, n, i) \in Nat
      BY <1>2
    <3> QED
      BY <3>1
  <2>2. w[i] = out[i] + (amount * Weight(NumBuckets, from, n, i))
    BY <1>1 DEF WrittenOut
  <2> QED
    BY <1>1, <2>1, <2>2
<1>4. w \in Histograms /\ w \in [1 .. N -> Int]
  <2>1. w = [i \in 1 .. N |-> w[i]]
    BY <1>1 DEF WrittenOut
  <2>2. \A i \in 1 .. N : w[i] \in Nat
    BY <1>3
  <2> HIDE DEF w
  <2> QED
    BY <2>1, <2>2 DEF Histograms
<1>5. PICK sum : Sums(out, N, sum)
  BY <1>1, SumUnfolds
<1>6. /\ sum \in [0 .. N -> Int] /\ sum[0] = 0 /\ Delays!Total(out) = sum[N]
      /\ \A i \in 1 .. N : sum[i] = sum[i - 1] + out[i]
  BY <1>5 DEF Sums
<1> DEFINE g == [i \in 0 .. N |-> sum[i] + (amount * W(i))]
<1> HIDE DEF W, w
<1>7. ASSUME NEW i \in 0 .. N
      PROVE  sum[i] \in Int /\ amount * W(i) \in Int /\ g[i] = sum[i] + (amount * W(i))
  <2>1. W(i) \in Nat
    BY <1>2
  <2>2. amount * W(i) \in Int
    BY <2>1
  <2> QED
    BY <1>6, <2>2
<1>8. g \in [0 .. N -> Int]
  BY <1>7
<1>9. g[0] = 0 /\ g[N] = sum[N] + (n * amount)
  <2>1. 0 \in 0 .. N /\ N \in 0 .. N
    BY <1>1
  <2>2. g[0] = sum[0] + (amount * W(0)) /\ g[N] = sum[N] + (amount * W(N))
    BY <1>7, <2>1
  <2> HIDE DEF g
  <2> QED
    BY <1>2, <1>6, <2>2
<1>10. ASSUME NEW i \in 1 .. N PROVE g[i] = g[i - 1] + w[i]
  <2>1. i - 1 \in 0 .. N /\ i \in 0 .. N
    BY <1>1
  <2>2. /\ g[i] = sum[i] + (amount * W(i))
        /\ g[i - 1] = sum[i - 1] + (amount * W(i - 1))
        /\ sum[i - 1] \in Int /\ amount * W(i - 1) \in Int
    BY <1>7, <2>1
  <2> HIDE DEF g
  <2> DEFINE more == Weight(NumBuckets, from, n, i)
             was == W(i - 1)
  <2>3. W(i) = was + more /\ more \in Int /\ was \in Int
    BY <1>2, <2>1
  <2> HIDE DEF more, was
  <2>4. amount * (was + more) = (amount * was) + (amount * more)
    BY <2>3, Distributes
  <2>5. w[i] = out[i] + (amount * more) /\ amount * more \in Int /\ out[i] \in Int
    BY <1>1, <1>3, <2>3 DEF more
  <2>6. sum[i] = sum[i - 1] + out[i]
    BY <1>6
  <2>7. g[i - 1] = sum[i - 1] + (amount * was) /\ amount * was \in Int
    BY <2>2 DEF was
  <2>8. g[i] = sum[i] + ((amount * was) + (amount * more))
    BY <2>2, <2>3, <2>4
  <2> QED
    BY <2>2, <2>5, <2>6, <2>7, <2>8
<1> HIDE DEF g
<1>11. Delays!Total(w) = g[N]
  BY <1>1, <1>4, <1>8, <1>9, <1>10, TotalIs
<1> QED
  BY <1>4, <1>6, <1>9, <1>11 DEF w

\* What is shared out by rounding down is no more than there is.
LEMMA SharesFit ==
  ASSUME NEW m \in Nat, NEW time \in Nat \ {0}, NEW new \in Nat \ {0}
  PROVE  LET n == time \div new
             amount == (m * new) \div time
         IN  /\ n \in Nat /\ amount \in Nat /\ n * amount <= m
             /\ time - (n * new) \in 0 .. new - 1
<1> DEFINE n == time \div new
           whole == m * new
           amount == whole \div time
<1>1. n \in Nat /\ n * new <= time /\ time - (n * new) \in 0 .. new - 1
  OBVIOUS
<1>2. whole \in Nat
  OBVIOUS
<1>3. amount \in Nat /\ amount * time <= whole
  <2> HIDE DEF whole
  <2> QED
    BY <1>2
<1> HIDE DEF n, amount
<1> DEFINE over == time - (n * new)
<1>4. over \in Nat /\ time = (n * new) + over /\ n * new \in Nat
  BY <1>1
<1>5. amount * time = (amount * (n * new)) + (amount * over)
  <2> DEFINE part == n * new
  <2>1. part \in Int /\ over \in Int /\ time = part + over
    BY <1>4
  <2> HIDE DEF part, over
  <2>2. amount * (part + over) = (amount * part) + (amount * over)
    BY <1>3, <2>1, Distributes
  <2> QED
    BY <2>1, <2>2 DEF part
<1>6. amount * over \in Nat
  <2> HIDE DEF over
  <2> QED
    BY <1>3, <1>4
<1>7. amount * (n * new) = new * (n * amount) /\ whole = new * m
  BY <1>1, <1>3
<1>8. n * amount \in Nat
  BY <1>1, <1>3
<1> DEFINE share == n * amount
<1>9. new * share <= new * m
  <2> DEFINE x == amount * (n * new)
             y == amount * over
             z == amount * time
  <2>1. x \in Int
    <3>1. new * share \in Int
      <4> HIDE DEF share
      <4> QED
        BY <1>8 DEF share
    <3> QED
      BY <1>7, <3>1
  <2>2. z = x + y /\ y \in Nat /\ z <= whole /\ x = new * share /\ whole = new * m
    BY <1>3, <1>5, <1>6, <1>7
  <2> HIDE DEF x, y, z, share
  <2> QED
    BY <1>2, <2>1, <2>2
<1>10. share <= m
  <2>1. share \in Int
    BY <1>8
  <2> HIDE DEF share
  <2> QED
    BY <1>9, <2>1, ScaleCompares
<1> QED
  BY <1>1, <1>3, <1>10 DEF n, amount

LEMMA CollectKeeps ==
  ASSUME NEW old \in Nat \ {0}, NEW new \in Nat \ {0}, NEW s \in Spreads(new),
         NEW b \in Nat
  PROVE  /\ Collected(NumBuckets, s, b, old, new) \in Spreads(new)
         /\ Delays!Total(Collected(NumBuckets, s, b, old, new).out) + Collected(NumBuckets, s, b, old, new).held
              = Delays!Total(s.out) + s.held + b
<1> DEFINE time == s.time + old
           m == s.held + b
           n == time \div new
           amount == (m * new) \div time
           c == Collected(NumBuckets, s, b, old, new)
           out == WrittenOut(NumBuckets, s.out, s.to, n, amount)
<1>1. /\ s.out \in Histograms /\ s.to \in 1 .. NumBuckets /\ s.held \in Nat
      /\ s.time \in Nat
  BY DEF Spreads
<1>2. m \in Nat /\ time \in Nat \ {0}
  BY <1>1
<1>3. c = [out |-> out, to |-> Delays!Lesser(s.to + n, NumBuckets),
           held |-> s.held + (b - n * amount), time |-> time - n * new]
  BY DEF Collected
<1>12. s.held + (b - n * amount) = m - n * amount
  <2> DEFINE share == n * amount
  <2>1. share \in Int
    <3>1. n \in Nat /\ amount \in Nat
      BY <1>2, SharesFit
    <3> HIDE DEF n, amount
    <3> QED
      BY <3>1
  <2>2. (n * amount) = share
    OBVIOUS
  <2> HIDE DEF share, n, amount
  <2>3. s.held + (b - share) = (s.held + b) - share
    BY <1>1, <2>1
  <2> QED
    BY <2>2, <2>3 DEF m
<1> HIDE DEF m, time
<1>4. /\ n \in Nat /\ amount \in Nat /\ n * amount <= m
      /\ time - (n * new) \in 0 .. new - 1
  BY <1>2, SharesFit
<1> HIDE DEF n, amount
<1>5. /\ out \in Histograms
      /\ Delays!Total(out) = Delays!Total(s.out) + (n * amount)
  BY <1>1, <1>4, WrittenAddsUp
<1>6. Delays!Lesser(s.to + n, NumBuckets) \in 1 .. NumBuckets
  BY <1>1, <1>4, ArrivalNumbers DEF Delays!Lesser
<1>7. n * amount \in Nat /\ m - (n * amount) \in Nat
  BY <1>2, <1>4
<1> HIDE DEF c, out
<1>8. c \in Spreads(new)
  <2> DEFINE to == Delays!Lesser(s.to + n, NumBuckets)
             held == m - (n * amount)
             rest == time - (n * new)
  <2>1. /\ c = [out |-> out, to |-> to, held |-> held, time |-> rest]
        /\ to \in 1 .. NumBuckets /\ held \in Nat /\ rest \in 0 .. new - 1
    BY <1>3, <1>4, <1>6, <1>7, <1>12
  <2> HIDE DEF to, held, rest
  <2> QED
    BY <1>5, <2>1 DEF Spreads
<1>9. Delays!Total(s.out) \in Int
  <2>1. NumBuckets \in Nat /\ s.out \in [1 .. NumBuckets -> Int]
    BY <1>1, ArrivalNumbers DEF Histograms
  <2> QED
    BY <2>1, TotalTyped
<1>10. Delays!Total(c.out) + c.held = Delays!Total(s.out) + m
  <2> DEFINE share == n * amount
  <2>1. /\ c.out = out /\ c.held = m - share /\ share \in Nat
        /\ Delays!Total(out) = Delays!Total(s.out) + share
    BY <1>3, <1>5, <1>7, <1>12
  <2> HIDE DEF share
  <2> QED
    BY <1>2, <1>9, <2>1
<1>11. Delays!Total(s.out) + m = Delays!Total(s.out) + s.held + b
  BY <1>1, <1>9 DEF m
<1> QED
  BY <1>8, <1>10, <1>11 DEF c

LEMMA ScaledKeeps ==
  ASSUME NEW b \in Histograms, NEW old \in Nat \ {0}, NEW new \in Nat \ {0}
  PROVE  /\ Delays!Scaled(b, old, new) \in Histograms
         /\ Delays!Total(Delays!Scaled(b, old, new)) = Delays!Total(b)
<1> DEFINE N == NumBuckets
           zeros == [j \in 1 .. Len(b) |-> 0]
           base == [out |-> zeros, to |-> 1, held |-> 0, time |-> 0]
           Stages == Spreads(new)
           Steps(f) == f = [i \in 0 .. Len(b) |-> IF i = 0 THEN base
                                                ELSE Collected(Len(b), f[i - 1], b[i], old, new)]
           step == [i \in 1 .. N |-> [s \in Stages |-> Collected(N, s, b[i], old, new)]]
<1>1. Len(b) = N /\ N \in Nat \ {0} /\ b \in [1 .. N -> Int]
      /\ DOMAIN b = 1 .. N /\ \A i \in 1 .. N : b[i] \in Nat
  BY ArrivalNumbers DEF Histograms
<1>2. base \in Stages
  BY <1>1 DEF Spreads, Histograms
<1>3. step \in [1 .. N -> [Stages -> Stages]]
  <2>1. \A i \in 1 .. N : \A s \in Stages : Collected(N, s, b[i], old, new) \in Stages
    BY <1>1, CollectKeeps
  <2> HIDE DEF Stages
  <2> QED
    BY <2>1
<1>4. PICK f \in [0 .. N -> Stages] : f[0] = base /\ \A i \in 1 .. N : f[i] = step[i][f[i - 1]]
  <2> HIDE DEF step, base, Stages, N
  <2>1. Definable(N, Stages, base, step)
    BY <1>1, <1>2, <1>3, Recursion
  <2> QED
    BY <2>1 DEF Definable
<1> HIDE DEF Stages
<1>5. ASSUME NEW i \in 1 .. N
      PROVE  f[i - 1] \in Stages /\ f[i] = Collected(N, f[i - 1], b[i], old, new)
  <2>1. i - 1 \in 0 .. N
    BY <1>1
  <2>2. f[i - 1] \in Stages
    BY <1>4, <2>1
  <2> HIDE DEF base
  <2> QED
    BY <1>4, <2>2
<1>6. Steps(f)
  <2> HIDE DEF base
  <2>1. \A i \in 0 .. N : f[i] = IF i = 0 THEN base
                                 ELSE Collected(N, f[i - 1], b[i], old, new)
    <3>1. \A i \in 0 .. N : i = 0 \/ i \in 1 .. N
      BY <1>1
    <3> QED
      BY <1>4, <1>5, <3>1
  <2>2. f = [i \in 0 .. N |-> f[i]]
    OBVIOUS
  <2> HIDE DEF N
  <2>3. \A i \in 0 .. Len(b) : f[i] = IF i = 0 THEN base
                                      ELSE Collected(Len(b), f[i - 1], b[i], old, new)
    BY <1>1, <2>1
  <2>4. f = [i \in 0 .. Len(b) |-> f[i]]
    BY <1>1, <2>2
  <2> QED
    BY <2>3, <2>4, Zenon
<1> DEFINE after == CHOOSE g : Steps(g)
           end == after[Len(b)]
           result == Delays!Scaled(b, old, new)
<1>7. Steps(after)
  <2> HIDE DEF Steps
  <2> QED
    BY <1>6
<1>8. result = [end.out EXCEPT ![end.to] = @ + end.held]
  BY DEF Delays!Scaled, Collected, WrittenOut, Weight
<1> HIDE DEF after, result
<1>9. /\ after[0] = base
      /\ \A i \in 1 .. N : after[i] = Collected(N, after[i - 1], b[i], old, new)
  <2> HIDE DEF base
  <2>1. after = [i \in 0 .. N |-> IF i = 0 THEN base
                                ELSE Collected(N, after[i - 1], b[i], old, new)]
    BY <1>1, <1>7
  <2>2. 0 \in 0 .. N /\ \A i \in 1 .. N : i \in 0 .. N /\ i # 0
    BY <1>1
  <2> HIDE DEF N
  <2> QED
    BY <2>1, <2>2
<1>10. PICK sum : Sums(b, N, sum)
  BY <1>1, SumUnfolds
<1>11. /\ sum[0] = 0 /\ Delays!Total(b) = sum[N]
       /\ \A i \in 1 .. N : sum[i] = sum[i - 1] + b[i]
  BY <1>10 DEF Sums
<1> DEFINE Full(i) == /\ after[i] \in Stages
                      /\ Delays!Total(after[i].out) + after[i].held = sum[i]
           T == {i \in 0 .. N : Full(i)}
<1>12. 0 .. N \subseteq T
  <2>1. Full(0)
    <3>1. Delays!Total(zeros) = 0
      BY <1>1, ZerosTotal
    <3>2. base.out = zeros /\ base.held = 0
      OBVIOUS
    <3> HIDE DEF zeros, base
    <3> QED
      BY <1>2, <1>9, <1>11, <3>1, <3>2
  <2>2. ASSUME NEW i \in 0 .. N - 1, Full(i) PROVE Full(i + 1)
    <3>1. i + 1 \in 1 .. N /\ (i + 1) - 1 = i
      BY <1>1
    <3> DEFINE s == after[i]
               x == b[i + 1]
    <3>2. /\ after[i + 1] = Collected(N, s, x, old, new)
          /\ sum[i + 1] = sum[i] + x /\ x \in Nat
      BY <1>1, <1>9, <1>11, <3>1
    <3>3. s \in Spreads(new) /\ Delays!Total(s.out) + s.held = sum[i]
      BY <2>2 DEF Stages
    <3> HIDE DEF s, x
    <3>4. /\ Collected(N, s, x, old, new) \in Spreads(new)
          /\ Delays!Total(Collected(N, s, x, old, new).out)
               + Collected(N, s, x, old, new).held
               = Delays!Total(s.out) + s.held + x
      BY <3>2, <3>3, CollectKeeps
    <3> QED
      BY <3>2, <3>3, <3>4 DEF Stages
  <2>3. \A i \in 0 .. N - 1 : i \in 0 .. N /\ i + 1 \in 0 .. N
    BY <1>1
  <2> HIDE DEF Full
  <2>4. 0 \in T /\ \A i \in 0 .. N - 1 : i \in T => i + 1 \in T
    BY <1>1, <2>1, <2>2, <2>3
  <2> HIDE DEF T, N
  <2> QED
    BY <1>1, <2>4, Induction
<1>13. end \in Spreads(new) /\ Delays!Total(end.out) + end.held = Delays!Total(b)
  <2>1. Full(N)
    BY <1>1, <1>12
  <2> QED
    BY <1>1, <1>11, <2>1 DEF Stages
<1> HIDE DEF end
<1>14. /\ end.out \in [1 .. N -> Nat] /\ end.to \in 1 .. N /\ end.held \in Nat
       /\ N \in Nat
  BY <1>1, <1>13 DEF Spreads, Histograms
<1>15. result \in Histograms
  BY <1>8, <1>14 DEF Histograms
<1>16. Delays!Total(result) = Delays!Total(end.out) + end.held
  <2> DEFINE out == end.out
             to == end.to
             held == end.held
  <2>1. /\ out \in [1 .. N -> Nat] /\ to \in 1 .. N /\ held \in Nat /\ N \in Nat
        /\ result = [out EXCEPT ![to] = @ + held]
    BY <1>8, <1>14
  <2> HIDE DEF out, to, held, N
  <2>3. out \in [1 .. N -> Int] /\ result \in [1 .. N -> Int] /\ held \in Int
    <3>1. /\ DOMAIN result = 1 .. N
          /\ \A i \in 1 .. N : result[i] = IF i = to THEN out[i] + held ELSE out[i]
      BY <2>1
    <3>2. result = [i \in 1 .. N |-> result[i]]
      BY <2>1
    <3>3. \A i \in 1 .. N : result[i] \in Int
      BY <2>1, <3>1
    <3> QED
      BY <2>1, <3>2, <3>3
  <2>4. More(out, result, N, to, held)
    BY <2>1 DEF More
  <2>2. Delays!Total(result) = Delays!Total(out) + held
    <3>1. N \in Nat
      BY <2>1
    <3> QED
      BY <2>3, <2>4, <3>1, TotalPlus
  <2> QED
    BY <2>2 DEF out, held
<1> QED
  BY <1>13, <1>15, <1>16 DEF result

-----------------------------------------------------------------------------
(* What a packet does to the estimate, piece by piece.                       *)

Comers == {Arriving[i] : i \in DOMAIN Arriving}
DueStamp(p) == p.due % (2 * HalfClock)
SeqNewer(p) == Delays!Sn!IsNewer(p.seq, last_seq_no, HalfCount)
Ahead(p) == Delays!Sn!Minus(p.seq, last_seq_no, HalfCount)
TimeApart(p) == Delays!Sn!Minus(DueStamp(p), last_timestamp, HalfClock)
Measured(p, length) ==
  IF SeqNewer(p) /\ Delays!Sn!IsNewer(DueStamp(p), last_timestamp, HalfClock)
  THEN TimeApart(p) \div Ahead(p) ELSE length
DelayOf(p, length, elapsed) ==
  elapsed + Delays!Offset(p.seq) * Measured(p, length) - Measured(p, length)
HistoryWith(p, length, elapsed) ==
  IF Delays!Reordered(p.seq) THEN delay_history
  ELSE Delays!Latest(Append(delay_history, DelayOf(p, length, elapsed)), MaxHistory)
RelativeDelay(p, length, elapsed) ==
  IF Delays!Reordered(p.seq) THEN Delays!Greater(DelayOf(p, length, elapsed), 0)
  ELSE Delays!CalculateRelativePacketArrivalDelay(HistoryWith(p, length, elapsed))
BucketOf(p, length, elapsed) ==
  IF config.relative THEN RelativeDelay(p, length, elapsed) \div BucketSize
  ELSE Delays!Greater(Delays!Lesser(elapsed \div Measured(p, length) + Delays!Offset(p.seq),
                                    NumBuckets - 1), 0)
Kept(p, length) ==
  /\ Measured(p, length) > 0 /\ config.rtx /\ Delays!Reordered(p.seq)
  /\ num_reordered_packets < MaxReordered

\* The buckets and the factor, where the packet is counted and where not.
Fed(histogram, bucket) ==
  \/ /\ bucket < NumBuckets
     /\ buckets' = Delays!Add(histogram, forget_factor, bucket)
     /\ forget_factor' = Delays!NextFactor(forget_factor, BaseFactor)
  \/ buckets' = histogram /\ forget_factor' = forget_factor

LEMMA UpdateIs ==
  ASSUME NEW p, NEW length, NEW elapsed, NEW histogram, NEW observed, NEW late,
         Delays!Update(p, length, elapsed, histogram, observed, late)
  PROVE  /\ \/ /\ Measured(p, length) > 0
               /\ Fed(histogram, BucketOf(p, length, elapsed))
            \/ buckets' = histogram /\ forget_factor' = forget_factor
         /\ delay_history' = IF Measured(p, length) > 0 THEN HistoryWith(p, length, elapsed)
                             ELSE delay_history
         /\ Kept(p, length) =>
              /\ UNCHANGED <<last_seq_no, last_timestamp>>
              /\ lateness' = late /\ packet_iat_stopwatch' = now - elapsed
         /\ ~Kept(p, length) =>
              /\ last_seq_no' = p.seq /\ last_timestamp' = DueStamp(p)
              /\ packet_iat_stopwatch' = now
              /\ lateness' = IF \/ Delays!Reordered(p.seq)
                                \/ Measured(p, length) * Ahead(p) # TimeApart(p)
                             THEN <<Delays!Lateness(p)>>
                             ELSE Delays!Latest(Append(late, Delays!Lateness(p)),
                                                MaxHistory + 1)
<1>1. buckets' = IF Measured(p, length) > 0 /\ BucketOf(p, length, elapsed) < NumBuckets
                 THEN Delays!Add(histogram, forget_factor, BucketOf(p, length, elapsed))
                 ELSE histogram
  BY DEF Delays!Update, Measured, BucketOf, SeqNewer, Ahead, TimeApart, DueStamp,
         RelativeDelay, HistoryWith, DelayOf
<1>2. forget_factor' = IF Measured(p, length) > 0 /\ BucketOf(p, length, elapsed) < NumBuckets
                       THEN Delays!NextFactor(forget_factor, BaseFactor) ELSE forget_factor
  BY DEF Delays!Update, Measured, BucketOf, SeqNewer, Ahead, TimeApart, DueStamp,
         RelativeDelay, HistoryWith, DelayOf
<1>3. delay_history' = IF Measured(p, length) > 0 THEN HistoryWith(p, length, elapsed)
                       ELSE delay_history
  BY DEF Delays!Update, Measured, SeqNewer, Ahead, TimeApart, DueStamp, HistoryWith, DelayOf
<1>4. Kept(p, length) =>
        /\ UNCHANGED <<last_seq_no, last_timestamp>>
        /\ lateness' = late /\ packet_iat_stopwatch' = now - elapsed
  BY DEF Delays!Update, Measured, SeqNewer, Ahead, TimeApart, DueStamp, Kept
<1>5. ~Kept(p, length) =>
        /\ last_seq_no' = p.seq /\ last_timestamp' = DueStamp(p)
        /\ packet_iat_stopwatch' = now
        /\ lateness' = IF \/ Delays!Reordered(p.seq)
                          \/ Measured(p, length) * Ahead(p) # TimeApart(p)
                       THEN <<Delays!Lateness(p)>>
                       ELSE Delays!Latest(Append(late, Delays!Lateness(p)), MaxHistory + 1)
  BY DEF Delays!Update, Measured, SeqNewer, Ahead, TimeApart, DueStamp, Kept
<1> QED
  BY <1>1, <1>2, <1>3, <1>4, <1>5 DEF Fed

LEMMA SerialsDiffer ==
  ASSUME NEW h \in Nat \ {0}, NEW v \in 0 .. 2 * h - 1, NEW p \in 0 .. 2 * h - 1
  PROVE  /\ Delays!Sn!Minus(v, p, h) \in 0 .. 2 * h - 1
         /\ Delays!Sn!IsNewer(v, p, h) => Delays!Sn!Minus(v, p, h) \in 1 .. h
BY DEF Delays!Sn!Minus, Delays!Sn!IsNewer

LEMMA SerialNext ==
  ASSUME NEW h \in Nat \ {0}, NEW v \in 0 .. 2 * h - 1
  PROVE  Delays!Sn!Plus(v, 1, h) \in 0 .. 2 * h - 1
BY DEF Delays!Sn!Plus

LEMMA ComersTyped ==
  ASSUME NEW p \in Comers
  PROVE  /\ p.seq \in 0 .. 2 * HalfCount - 1 /\ p.due \in Int
         /\ DueStamp(p) \in 0 .. 2 * HalfClock - 1
<1>1. PICK i \in DOMAIN Arriving : p = Arriving[i]
  BY DEF Comers
<1>2. p.seq \in 0 .. 2 * HalfCount - 1 /\ p.due \in Int
  BY <1>1, DelayAssumption
<1>3. HalfClock \in Nat \ {0}
  BY ArrivalNumbers
<1> QED
  BY <1>2, <1>3 DEF DueStamp

SerialsTyped ==
  last_seq_no \in 0 .. 2 * HalfCount - 1 /\ last_timestamp \in 0 .. 2 * HalfClock - 1

LEMMA OffsetTyped ==
  ASSUME SerialsTyped, NEW seq \in 0 .. 2 * HalfCount - 1
  PROVE  Delays!Offset(seq) \in Int
<1>1. HalfCount \in Nat \ {0}
  BY ArrivalNumbers
<1>2. Delays!NextSeq \in 0 .. 2 * HalfCount - 1
  BY <1>1, SerialNext DEF SerialsTyped, Delays!NextSeq
<1>3. /\ Delays!Sn!Minus(seq, Delays!NextSeq, HalfCount) \in Int
      /\ Delays!Sn!Minus(Delays!NextSeq, seq, HalfCount) \in Int
  <2>1. /\ Delays!Sn!Minus(seq, Delays!NextSeq, HalfCount) \in 0 .. 2 * HalfCount - 1
        /\ Delays!Sn!Minus(Delays!NextSeq, seq, HalfCount) \in 0 .. 2 * HalfCount - 1
    BY <1>1, <1>2, SerialsDiffer
  <2> QED
    BY <2>1
<1> QED
  BY <1>3 DEF Delays!Offset

LEMMA MeasuredTyped ==
  ASSUME SerialsTyped, NEW p \in Comers, NEW length \in Nat
  PROVE  /\ Measured(p, length) \in Nat
         /\ Ahead(p) \in Nat /\ TimeApart(p) \in Nat
         /\ SeqNewer(p) => Ahead(p) > 0
<1>1. /\ HalfCount \in Nat \ {0} /\ HalfClock \in Nat \ {0}
      /\ p.seq \in 0 .. 2 * HalfCount - 1 /\ DueStamp(p) \in 0 .. 2 * HalfClock - 1
  BY ArrivalNumbers, ComersTyped
<1>2. /\ Ahead(p) \in 0 .. 2 * HalfCount - 1
      /\ SeqNewer(p) => Ahead(p) \in 1 .. HalfCount
  BY <1>1, SerialsDiffer DEF SerialsTyped, Ahead, SeqNewer
<1>3. TimeApart(p) \in 0 .. 2 * HalfClock - 1
  BY <1>1, SerialsDiffer DEF SerialsTyped, TimeApart
<1>4. Ahead(p) \in Nat /\ TimeApart(p) \in Nat /\ (SeqNewer(p) => Ahead(p) > 0)
  BY <1>2, <1>3
<1>5. Ahead(p) > 0 => TimeApart(p) \div Ahead(p) \in Nat
  BY <1>4
<1> QED
  BY <1>4, <1>5 DEF Measured

LEMMA DelayTyped ==
  ASSUME SerialsTyped, NEW p \in Comers, NEW length \in Nat, NEW elapsed \in Int
  PROVE  DelayOf(p, length, elapsed) \in Int
<1> DEFINE offset == Delays!Offset(p.seq)
           measured == Measured(p, length)
<1>1. offset \in Int /\ measured \in Int
  BY ComersTyped, OffsetTyped, MeasuredTyped
<1>2. DelayOf(p, length, elapsed) = elapsed + offset * measured - measured
  BY DEF DelayOf
<1> HIDE DEF offset, measured
<1>3. offset * measured \in Int
  BY <1>1
<1> QED
  BY <1>1, <1>2, <1>3

\* The latest of a history.
LEMMA LatestIs ==
  ASSUME NEW s \in Seq(Int), NEW n \in Nat
  PROVE  /\ Delays!Latest(s, n) \in Seq(Int)
         /\ Len(Delays!Latest(s, n)) = Delays!Lesser(Len(s), n)
         /\ \A j \in 0 .. Len(Delays!Latest(s, n)) - 1 :
              Delays!Latest(s, n)[Len(Delays!Latest(s, n)) - j] = s[Len(s) - j]
<1>1. CASE Len(s) <= n
  <2>1. Delays!Latest(s, n) = s
    BY <1>1 DEF Delays!Latest
  <2>2. Delays!Lesser(Len(s), n) = Len(s)
    BY <1>1 DEF Delays!Lesser
  <2> QED
    BY <2>1, <2>2
<1>2. CASE Len(s) > n
  <2> DEFINE from == Len(s) - n + 1
             t == SubSeq(s, from, Len(s))
  <2>1. Delays!Latest(s, n) = t
    BY <1>2 DEF Delays!Latest
  <2>2. from \in 1 .. Len(s) + 1 /\ Len(s) - from + 1 = n /\ from = (Len(s) - n) + 1
    BY <1>2
  <2>3. t \in Seq(Int) /\ Len(t) = n /\ \A i \in 1 .. n : t[i] = s[from + i - 1]
    BY <1>2, <2>2
  <2>4. Delays!Lesser(Len(s), n) = n
    BY <1>2 DEF Delays!Lesser
  <2>5. ASSUME NEW j \in 0 .. n - 1 PROVE t[n - j] = s[Len(s) - j]
    <3>1. n - j \in 1 .. n /\ from + (n - j) - 1 = Len(s) - j
      BY <2>2
    <3> HIDE DEF t, from
    <3> QED
      BY <2>3, <3>1
  <2> HIDE DEF t
  <2> QED
    BY <2>1, <2>3, <2>4, <2>5
<1> QED
  BY <1>1, <1>2

LatestAre(t, s, m, n) ==
  /\ t \in Seq(Int) /\ Len(t) = IF m < n THEN m ELSE n
  /\ \A j \in 0 .. Len(t) - 1 : t[Len(t) - j] = s[m - j]

LEMMA LatestOf ==
  ASSUME NEW s \in Seq(Int), NEW n \in Nat, NEW m, m = Len(s), NEW t, t = Delays!Latest(s, n)
  PROVE  LatestAre(t, s, m, n)
BY LatestIs DEF Delays!Lesser, LatestAre

\* The relative delay after each element of a history.
Scan(h, rel) ==
  /\ rel \in [0 .. Len(h) -> Nat]
  /\ rel[0] = 0
  /\ \A i \in 1 .. Len(h) : rel[i] = Delays!Greater(rel[i - 1] + h[i], 0)
  /\ Delays!CalculateRelativePacketArrivalDelay(h) = rel[Len(h)]

LEMMA ScanUnfolds ==
  ASSUME NEW h \in Seq(Int)
  PROVE  \E rel : Scan(h, rel)
<1> DEFINE n == Len(h)
           Steps(f) == f = [i \in 0 .. Len(h) |->
                              IF i = 0 THEN 0 ELSE Delays!Greater(f[i - 1] + h[i], 0)]
           step == [i \in 1 .. n |-> [x \in Nat |-> Delays!Greater(x + h[i], 0)]]
<1>1. n \in Nat /\ \A i \in 1 .. n : h[i] \in Int
  OBVIOUS
<1>2. \A x \in Int : Delays!Greater(x, 0) \in Nat
  BY DEF Delays!Greater
<1>3. step \in [1 .. n -> [Nat -> Nat]]
  <2>1. ASSUME NEW i \in 1 .. n, NEW x \in Nat
        PROVE  Delays!Greater(x + h[i], 0) \in Nat
    <3>1. x + h[i] \in Int
      BY <1>1
    <3> QED
      BY <1>2, <3>1
  <2>2. \A i \in 1 .. n : \A x \in Nat : Delays!Greater(x + h[i], 0) \in Nat
    BY <2>1
  <2> HIDE DEF n
  <2> QED
    BY <2>2
<1>4. PICK f \in [0 .. n -> Nat] : f[0] = 0 /\ \A i \in 1 .. n : f[i] = step[i][f[i - 1]]
  <2> DEFINE base == 0
  <2>1. base \in Nat
    OBVIOUS
  <2> HIDE DEF step, base, n
  <2>2. Definable(n, Nat, base, step)
    BY <1>1, <1>3, <2>1, Recursion
  <2> QED
    BY <2>2 DEF Definable, base
<1>5. \A i \in 1 .. n : f[i] = Delays!Greater(f[i - 1] + h[i], 0)
  <2>1. ASSUME NEW i \in 1 .. n PROVE f[i] = Delays!Greater(f[i - 1] + h[i], 0)
    <3>1. f[i - 1] \in Nat
      <4>1. i - 1 \in 0 .. n
        BY <1>1
      <4> HIDE DEF n
      <4> QED
        BY <1>2, <1>4, <4>1
    <3> HIDE DEF n
    <3> QED
      BY <1>4, <3>1
  <2> QED
    BY <2>1
<1>6. Steps(f)
  <2>1. \A i \in 0 .. n : f[i] = IF i = 0 THEN 0 ELSE Delays!Greater(f[i - 1] + h[i], 0)
    <3>1. \A i \in 0 .. n : i = 0 \/ i \in 1 .. n
      BY <1>1
    <3> HIDE DEF n
    <3> QED
      BY <1>4, <1>5, <3>1
  <2>2. f = [i \in 0 .. n |-> f[i]]
    OBVIOUS
  <2> QED
    BY <2>1, <2>2, Zenon
<1> DEFINE relative == CHOOSE g : Steps(g)
<1>7. Steps(relative)
  <2> HIDE DEF Steps
  <2> QED
    BY <1>6
<1>8. Delays!CalculateRelativePacketArrivalDelay(h) = relative[n]
  BY DEF Delays!CalculateRelativePacketArrivalDelay
<1> HIDE DEF relative
<1>9. /\ relative = [i \in 0 .. n |-> relative[i]] /\ relative[0] = 0
      /\ \A i \in 1 .. n : relative[i] = Delays!Greater(relative[i - 1] + h[i], 0)
  <2>1. relative = [i \in 0 .. n |-> IF i = 0 THEN 0
                                    ELSE Delays!Greater(relative[i - 1] + h[i], 0)]
    BY <1>7
  <2>2. 0 \in 0 .. n /\ \A i \in 1 .. n : i \in 0 .. n /\ i # 0
    BY <1>1
  <2> HIDE DEF n
  <2> QED
    BY <2>1, <2>2
<1> DEFINE T == {i \in 0 .. n : relative[i] \in Nat}
<1>10. 0 .. n \subseteq T
  <2>1. 0 \in T
    BY <1>1, <1>9
  <2>2. ASSUME NEW i \in 0 .. n - 1, i \in T PROVE i + 1 \in T
    <3>1. i + 1 \in 1 .. n /\ (i + 1) - 1 = i /\ i + 1 \in 0 .. n
      BY <1>1
    <3>2. relative[i + 1] = Delays!Greater(relative[i] + h[i + 1], 0)
      BY <1>9, <3>1
    <3>3. relative[i] + h[i + 1] \in Int
      BY <1>1, <2>2, <3>1
    <3>4. relative[i + 1] \in Nat
      BY <1>2, <3>2, <3>3
    <3> QED
      BY <3>1, <3>4
  <2> HIDE DEF T, n
  <2> QED
    BY <1>1, <2>1, <2>2, Induction
<1>11. relative \in [0 .. n -> Nat]
  <2>1. \A i \in 0 .. n : relative[i] \in Nat
    BY <1>10
  <2> HIDE DEF n
  <2> QED
    BY <1>9, <2>1
<1>12. Scan(h, relative)
  BY <1>8, <1>9, <1>11 DEF Scan
<1> QED
  BY <1>12

LEMMA HistoryTyped ==
  ASSUME SerialsTyped, NEW p \in Comers, NEW length \in Nat, NEW elapsed \in Int,
         delay_history \in Seq(Int), Len(delay_history) <= MaxHistory
  PROVE  /\ HistoryWith(p, length, elapsed) \in Seq(Int)
         /\ Len(HistoryWith(p, length, elapsed)) <= MaxHistory
<1> DEFINE wait == DelayOf(p, length, elapsed)
           longer == Append(delay_history, wait)
<1>1. wait \in Int
  BY DelayTyped
<1>2. longer \in Seq(Int) /\ MaxHistory \in Nat
  <2> HIDE DEF wait
  <2> QED
    BY <1>1, ArrivalNumbers
<1> HIDE DEF longer
<1>3. /\ Delays!Latest(longer, MaxHistory) \in Seq(Int)
      /\ Len(Delays!Latest(longer, MaxHistory)) <= MaxHistory
  BY <1>2, LatestIs DEF Delays!Lesser
<1> QED
  BY <1>3 DEF HistoryWith, longer

LEMMA BucketTyped ==
  ASSUME SerialsTyped, NEW p \in Comers, NEW length \in Nat, NEW elapsed \in Int,
         delay_history \in Seq(Int), Len(delay_history) <= MaxHistory,
         Measured(p, length) > 0
  PROVE  BucketOf(p, length, elapsed) \in Nat
<1> DEFINE relative == RelativeDelay(p, length, elapsed)
           history == HistoryWith(p, length, elapsed)
           iat == elapsed \div Measured(p, length) + Delays!Offset(p.seq)
<1>1. relative \in Nat
  <2>1. Delays!Greater(DelayOf(p, length, elapsed), 0) \in Nat
    <3> DEFINE wait == DelayOf(p, length, elapsed)
    <3>1. wait \in Int
      BY DelayTyped
    <3> HIDE DEF wait
    <3>2. Delays!Greater(wait, 0) \in Nat
      BY <3>1 DEF Delays!Greater
    <3> QED
      BY <3>2 DEF wait
  <2>2. history \in Seq(Int)
    BY HistoryTyped
  <2>3. Delays!CalculateRelativePacketArrivalDelay(history) \in Nat
    <3> HIDE DEF history
    <3>1. PICK rel : Scan(history, rel)
      BY <2>2, ScanUnfolds
    <3>2. Len(history) \in 0 .. Len(history)
      BY <2>2
    <3> QED
      BY <3>1, <3>2 DEF Scan
  <2> QED
    BY <2>1, <2>3 DEF RelativeDelay
<1>2. relative \div BucketSize \in Nat
  <2> HIDE DEF relative
  <2> QED
    BY <1>1, ArrivalNumbers
<1>3. iat \in Int
  <2> DEFINE measured == Measured(p, length)
             offset == Delays!Offset(p.seq)
  <2>1. measured \in Nat /\ measured > 0 /\ offset \in Int
    BY ComersTyped, OffsetTyped, MeasuredTyped
  <2> HIDE DEF measured, offset
  <2>2. elapsed \div measured + offset \in Int
    BY <2>1
  <2> QED
    BY <2>2 DEF measured, offset
<1>4. Delays!Greater(Delays!Lesser(iat, NumBuckets - 1), 0) \in Nat
  <2> HIDE DEF iat
  <2> QED
    BY <1>3, ArrivalNumbers DEF Delays!Greater, Delays!Lesser
<1> QED
  BY <1>2, <1>4 DEF BucketOf

LEMMA FactorNears ==
  ASSUME NEW factor \in 0 .. FactorOne
  PROVE  Delays!NextFactor(factor, BaseFactor) \in 0 .. FactorOne
<1> DEFINE gap == BaseFactor - factor
           part == (gap + 3) \div 4
<1>1. /\ factor \in Int /\ BaseFactor \in 0 .. FactorOne /\ FactorOne \in Nat
      /\ gap \in Int
  BY ArrivalNumbers
<1>2. Delays!NextFactor(factor, BaseFactor) = factor + part
  BY DEF Delays!NextFactor
<1>3. part \in Int /\ (gap >= 0 => part >= 0 /\ part <= gap)
      /\ (gap < 0 => part <= 0 /\ part >= gap)
  <2> HIDE DEF gap
  <2> QED
    BY <1>1
<1> HIDE DEF part
<1> QED
  BY <1>1, <1>2, <1>3

\* A packet in order is as many packets after the last one as its number says.
LEMMA OffsetInOrder ==
  ASSUME SerialsTyped, NEW p \in Comers, ~Delays!Reordered(p.seq)
  PROVE  /\ Ahead(p) \in 1 .. HalfCount + 1
         /\ Delays!Offset(p.seq) = 1 - Ahead(p)
<1> DEFINE v == p.seq
           next == Delays!NextSeq
<1>1. /\ HalfCount \in Nat /\ HalfCount > 1 /\ v \in 0 .. 2 * HalfCount - 1
      /\ last_seq_no \in 0 .. 2 * HalfCount - 1
  BY ArrivalNumbers, ComersTyped DEF SerialsTyped
<1>2. next = IF last_seq_no + 1 < 2 * HalfCount THEN last_seq_no + 1 ELSE 0
  BY <1>1 DEF Delays!NextSeq, Delays!Sn!Plus
<1>3. Ahead(p) = IF v >= last_seq_no THEN v - last_seq_no
                 ELSE (v - last_seq_no) + 2 * HalfCount
  BY <1>1 DEF Ahead, Delays!Sn!Minus
<1> DEFINE ahead == IF v >= next THEN v - next ELSE (v - next) + 2 * HalfCount
<1>4. Delays!Gap(v) <=>
        ((ahead = HalfCount /\ v > next) \/ (v # next /\ ahead < HalfCount))
  BY <1>1, <1>2 DEF Delays!Gap, Delays!Sn!IsNewer, Delays!Sn!Minus
<1>5. Delays!Gap(v) \/ SeqNewer(p)
  BY DEF Delays!Reordered, SeqNewer
<1>6. SeqNewer(p) <=> ((Ahead(p) = HalfCount /\ v > last_seq_no)
                        \/ (v # last_seq_no /\ Ahead(p) < HalfCount))
  BY DEF SeqNewer, Ahead, Delays!Sn!IsNewer
<1>7. Delays!Offset(v) = IF Delays!Gap(v) THEN -ahead ELSE 0
  <2>1. Delays!Sn!Minus(v, next, HalfCount) = ahead
    BY <1>1, <1>2 DEF Delays!Sn!Minus
  <2>2. CASE Delays!Gap(v)
    BY <2>1, <2>2 DEF Delays!Offset
  <2>3. CASE ~Delays!Gap(v)
    BY <2>3 DEF Delays!Offset
  <2> QED
    BY <2>2, <2>3
<1> HIDE DEF v, next
<1>8. /\ Ahead(p) \in 1 .. HalfCount + 1
      /\ (IF Delays!Gap(v) THEN -ahead ELSE 0) = 1 - Ahead(p)
  <2>1. CASE Delays!Gap(v)
    BY <1>1, <1>2, <1>3, <1>4, <2>1
  <2>2. CASE ~Delays!Gap(v)
    BY <1>1, <1>2, <1>3, <1>4, <1>5, <1>6, <2>2
  <2> QED
    BY <2>1, <2>2
<1> QED
  BY <1>7, <1>8 DEF v

LEMMA DividesUp ==
  ASSUME NEW x \in Int, NEW w \in Nat \ {0}
  PROVE  x = (w * (x \div w)) + (x % w) /\ x \div w \in Int
OBVIOUS

\* Of two times of the stream, less than half of the circle apart, the stamps
\* tell how far.
LEMMA StampsTell ==
  ASSUME NEW p \in Comers, NEW q \in Comers,
         Delays!Sn!Minus(DueStamp(p), DueStamp(q), HalfClock) <= HalfClock
  PROVE  Delays!Sn!Minus(DueStamp(p), DueStamp(q), HalfClock) = p.due - q.due
<1> DEFINE h == HalfClock
           w == 2 * h
           a == p.due \div w
           b == q.due \div w
           r == DueStamp(p)
           s == DueStamp(q)
           apart == Delays!Sn!Minus(r, s, h)
<1>1. h \in Nat \ {0} /\ w \in Nat \ {0} /\ p.due \in Int /\ q.due \in Int
      /\ r \in 0 .. w - 1 /\ s \in 0 .. w - 1
  BY ArrivalNumbers, ComersTyped
<1>2. /\ p.due = (w * a) + r /\ q.due = (w * b) + s /\ a \in Int /\ b \in Int
  <2>1. r = p.due % w /\ s = q.due % w
    BY DEF DueStamp
  <2> HIDE DEF w, r, s
  <2> QED
    BY <1>1, <2>1, DividesUp
<1>9. apart <= h
  OBVIOUS
<1>3. p.due - q.due < h /\ q.due - p.due < h
  <2>1. PICK i \in DOMAIN Arriving : p = Arriving[i]
    BY DEF Comers
  <2>2. PICK j \in DOMAIN Arriving : q = Arriving[j]
    BY DEF Comers
  <2> QED
    BY <2>1, <2>2, DelayAssumption
<1>4. apart = IF r >= s THEN r - s ELSE (r - s) + w
  BY <1>1 DEF Delays!Sn!Minus
<1> HIDE DEF a, b, r, s
<1>5. (w * a) - (w * b) = w * (a - b)
  <2> HIDE DEF w
  <2> QED
    BY <1>1, <1>2, Distributes
<1> DEFINE turns == a - b
<1>6. turns \in Int /\ (turns = 1 => w * turns = w) /\ (turns >= 2 => w * turns >= 2 * w)
      /\ (turns <= -1 => w * turns <= -w) /\ (turns = 0 => w * turns = 0)
  <2>1. turns \in Int
    BY <1>2
  <2> HIDE DEF turns, w
  <2> QED
    BY <1>1, <2>1
<1> DEFINE round == w * turns
<1>7. round \in Int /\ p.due - q.due = round + (r - s)
  <2>1. round \in Int
    <3> HIDE DEF turns, w
    <3> QED
      BY <1>1, <1>6
  <2> DEFINE x == w * a
             y == w * b
  <2>2. x \in Int /\ y \in Int
    <3> HIDE DEF w
    <3> QED
      BY <1>1, <1>2
  <2>3. p.due = x + r /\ q.due = y + s /\ x - y = round
    BY <1>2, <1>5
  <2> HIDE DEF x, y, round
  <2> QED
    BY <1>1, <2>1, <2>2, <2>3
<1>8. /\ turns >= 2 \/ turns = 1 \/ turns <= -1 \/ turns = 0
      /\ turns >= 2 => round >= 2 * w
      /\ turns = 1 => round = w
      /\ turns <= -1 => round <= -w
      /\ turns = 0 => round = 0
  BY <1>6
<1> HIDE DEF round, turns
<1>10. apart = p.due - q.due
  <2> DEFINE d == p.due - q.due
  <2>1. d \in Int /\ d < h /\ -h < d /\ d = round + (r - s)
    BY <1>1, <1>3, <1>7
  <2> HIDE DEF d, apart
  <2>2. apart = d
    BY <1>1, <1>4, <1>7, <1>8, <1>9, <2>1
  <2> QED
    BY <2>2 DEF d
<1> QED
  BY <1>10 DEF r, s

\* A packet in order that is counted from the one before it has the delay that
\* the times of the two in the stream make.
LEMMA DelayTells ==
  ASSUME SerialsTyped, NEW p \in Comers, NEW q \in Comers,
         last_timestamp = DueStamp(q), NEW length \in PacketLengths, NEW elapsed \in Int,
         ~Delays!Reordered(p.seq), Measured(p, length) * Ahead(p) = TimeApart(p)
  PROVE  /\ Measured(p, length) > 0
         /\ DelayOf(p, length, elapsed) = elapsed - (p.due - q.due)
<1> DEFINE m == Measured(p, length)
           k == Ahead(p)
           time == TimeApart(p)
<1>1. length \in Nat \ {0} /\ length * (HalfCount + 1) <= HalfClock
      /\ HalfClock \in Nat \ {0} /\ HalfCount \in Nat
  BY DelayAssumption
<1>2. m \in Nat /\ k \in 1 .. HalfCount + 1 /\ k \in Nat /\ time \in Nat /\ m * k = time
      /\ Delays!Offset(p.seq) = 1 - k
  BY <1>1, MeasuredTyped, OffsetInOrder
<1>3. time <= HalfClock /\ time > 0
  <2>1. CASE /\ SeqNewer(p)
             /\ Delays!Sn!IsNewer(DueStamp(p), last_timestamp, HalfClock)
    <3>1. DueStamp(p) \in 0 .. 2 * HalfClock - 1
          /\ last_timestamp \in 0 .. 2 * HalfClock - 1
      BY ComersTyped DEF SerialsTyped
    <3>2. time \in 1 .. HalfClock
      BY <1>1, <2>1, <3>1, SerialsDiffer DEF TimeApart
    <3> HIDE DEF time
    <3> QED
      BY <1>1, <3>2
  <2>2. CASE ~(/\ SeqNewer(p)
               /\ Delays!Sn!IsNewer(DueStamp(p), last_timestamp, HalfClock))
    <3>1. m = length
      BY <2>2 DEF Measured
    <3>2. time = length * k
      BY <1>2, <3>1
    <3> HIDE DEF m, k, time
    <3>3. length * k <= length * (HalfCount + 1) /\ length * k > 0
      <4> DEFINE rest == (HalfCount + 1) - k
      <4>1. rest \in Nat /\ HalfCount + 1 = k + rest
        BY <1>1, <1>2
      <4> HIDE DEF rest
      <4>2. length * (k + rest) = (length * k) + (length * rest)
        BY <1>1, <1>2, <4>1, Distributes
      <4>3. length * rest \in Nat /\ length * k \in Nat /\ length * k > 0
        BY <1>1, <1>2, <4>1
      <4> QED
        BY <4>1, <4>2, <4>3
    <3>4. length * k \in Int /\ length * (HalfCount + 1) \in Int
      BY <1>1, <1>2
    <3> QED
      BY <1>1, <3>2, <3>3, <3>4
  <2> QED
    BY <2>1, <2>2
<1>4. time = p.due - q.due
  BY <1>3, StampsTell DEF TimeApart
<1>5. m > 0
  <2> HIDE DEF m, k, time
  <2>1. m = 0 => m * k = 0
    BY <1>2
  <2> QED
    BY <1>2, <1>3, <2>1
<1>6. DelayOf(p, length, elapsed) = elapsed + ((1 - k) * m - m)
  BY <1>2 DEF DelayOf
<1>7. (1 - k) * m - m = -time
  <2> HIDE DEF m, k
  <2> DEFINE one == 1
  <2>1. one \in Int /\ m * one = m
    BY <1>2
  <2> HIDE DEF one
  <2>2. m * (one - k) = (m * one) - (m * k)
    BY <1>2, <2>1, Distributes
  <2>3. (1 - k) * m = m * (one - k)
    BY <1>2 DEF one
  <2>4. (1 - k) * m = m - (m * k) /\ m * k \in Int
    BY <1>2, <2>1, <2>2, <2>3
  <2> QED
    BY <1>2, <2>4
<1> HIDE DEF m, k, time
<1>8. DelayOf(p, length, elapsed) = elapsed - (p.due - q.due)
  <2> DEFINE span == p.due - q.due
  <2>1. span = time
    BY <1>4
  <2> HIDE DEF span
  <2> QED
    BY <1>2, <1>6, <1>7, <2>1 DEF span
<1> QED
  BY <1>5, <1>8 DEF m

-----------------------------------------------------------------------------
(* What makes the two inductive: that the last lateness is that of the       *)
(* packet whose number and time were kept, and that the delays in the window *)
(* are what one lateness is more than the one before it.                     *)

Mass ==
  /\ buckets \in Histograms /\ Delays!Total(buckets) = One
  /\ forget_factor \in 0 .. FactorOne
  /\ packet_len \in PacketLengths \cup {0}

Intaken ==
  /\ SerialsTyped
  /\ now \in Int /\ packet_iat_stopwatch \in Int
  /\ delay_history \in Seq(Int) /\ Len(delay_history) <= MaxHistory

Followed ==
  /\ lateness \in Seq(Int)
  /\ Len(lateness) > 0 =>
       \E p \in Comers : /\ last_timestamp = DueStamp(p)
                       /\ lateness[Len(lateness)] = packet_iat_stopwatch - p.due

Links(history, late) ==
  /\ Len(late) <= MaxHistory + 1 /\ Len(late) <= Len(history) + 1
  /\ \A j \in 0 .. Len(late) - 2 :
       history[Len(history) - j] = late[Len(late) - j] - late[Len(late) - (j + 1)]

Linked == Links(delay_history, lateness)

DelaysInv == Mass /\ Intaken /\ Followed /\ Linked

\* What the packets before tell: nothing after a change of their length, or
\* what was kept.
Told(late, elapsed) ==
  \/ late = <<>>
  \/ late = lateness /\ elapsed = now - packet_iat_stopwatch

\* One more of each, and no more of them than the window holds.
LEMMA LinksAppend ==
  ASSUME NEW H \in Seq(Int), NEW L \in Seq(Int), Len(H) <= MaxHistory, Len(L) > 0,
         Links(H, L), NEW x \in Int, NEW d \in Int, d = x - L[Len(L)]
  PROVE  Links(Delays!Latest(Append(H, d), MaxHistory),
               Delays!Latest(Append(L, x), MaxHistory + 1))
<1> DEFINE h == Len(H)
           n == Len(L)
           A == Append(L, x)
           B == Append(H, d)
           L2 == Delays!Latest(A, MaxHistory + 1)
           H2 == Delays!Latest(B, MaxHistory)
<1>1. /\ MaxHistory \in Nat \ {0} /\ h \in Nat /\ n \in Nat \ {0} /\ h <= MaxHistory
      /\ n <= MaxHistory + 1 /\ n <= h + 1
  BY ArrivalNumbers DEF Links
<1>2. /\ A \in Seq(Int) /\ Len(A) = n + 1 /\ A[n + 1] = x
      /\ \A i \in 1 .. n : A[i] = L[i] /\ L[i] \in Int
      /\ B \in Seq(Int) /\ Len(B) = h + 1 /\ B[h + 1] = d
      /\ \A i \in 1 .. h : B[i] = H[i]
  OBVIOUS
<1>3. \A j \in 0 .. n - 2 : H[h - j] = L[n - j] - L[n - (j + 1)]
  BY DEF Links
<1> HIDE DEF A, B
<1> DEFINE full == MaxHistory + 1
           n1 == n + 1
           h1 == h + 1
<1>9. n1 = Len(A) /\ h1 = Len(B) /\ full \in Nat /\ MaxHistory \in Nat
      /\ L2 = Delays!Latest(A, full) /\ n1 = n + 1 /\ h1 = h + 1 /\ full = MaxHistory + 1
  BY <1>1, <1>2
<1> HIDE DEF L2, H2, h, n, full, n1, h1
<1>4. /\ L2 \in Seq(Int) /\ Len(L2) = IF n1 < full THEN n1 ELSE full
      /\ \A j \in 0 .. Len(L2) - 1 : L2[Len(L2) - j] = A[n1 - j]
  <2>1. A \in Seq(Int) /\ full \in Nat /\ n1 = Len(A) /\ L2 = Delays!Latest(A, full)
    BY <1>2, <1>9
  <2>2. LatestAre(L2, A, n1, full)
    BY <2>1, LatestOf
  <2> QED
    BY <2>2 DEF LatestAre
<1>5. /\ H2 \in Seq(Int) /\ Len(H2) = IF h1 < MaxHistory THEN h1 ELSE MaxHistory
      /\ \A j \in 0 .. Len(H2) - 1 : H2[Len(H2) - j] = B[h1 - j]
  <2>1. B \in Seq(Int) /\ h1 = Len(B) /\ H2 = Delays!Latest(B, MaxHistory)
        /\ MaxHistory \in Nat
    BY <1>2, <1>9 DEF H2
  <2>2. LatestAre(H2, B, h1, MaxHistory)
    BY <2>1, LatestOf
  <2> QED
    BY <2>2 DEF LatestAre
<1>6. Len(L2) <= MaxHistory + 1 /\ Len(L2) <= Len(H2) + 1 /\ Len(L2) <= n + 1
      /\ Len(L2) \in Nat /\ Len(H2) \in Nat
  <2>1. /\ Len(L2) = (IF n1 < full THEN n1 ELSE full)
        /\ Len(H2) = (IF h1 < MaxHistory THEN h1 ELSE MaxHistory)
    BY <1>4, <1>5
  <2>2. /\ n1 = n + 1 /\ h1 = h + 1 /\ full = MaxHistory + 1 /\ MaxHistory \in Nat
        /\ h \in Nat /\ n \in Nat /\ h <= MaxHistory /\ n <= h + 1
    BY <1>1, <1>9
  <2> QED
    BY <2>1, <2>2
<1>7. ASSUME NEW j \in 0 .. Len(L2) - 2
      PROVE  H2[Len(H2) - j] = L2[Len(L2) - j] - L2[Len(L2) - (j + 1)]
  <2>1. /\ j \in 0 .. Len(H2) - 1 /\ j \in 0 .. Len(L2) - 1 /\ j + 1 \in 0 .. Len(L2) - 1
        /\ j \in Nat /\ j <= n - 1 /\ (n + 1) - (j + 1) = n - j
    BY <1>1, <1>6
  <2>2. /\ H2[Len(H2) - j] = B[(h + 1) - j] /\ L2[Len(L2) - j] = A[(n + 1) - j]
        /\ L2[Len(L2) - (j + 1)] = A[n - j]
    <3> DEFINE k == j + 1
    <3>1. L2[Len(L2) - k] = A[n1 - k]
      BY <1>4, <2>1
    <3>2. n1 - k = n - j /\ n1 = n + 1 /\ h1 = h + 1
      BY <1>1, <1>9, <2>1
    <3> QED
      BY <1>4, <1>5, <2>1, <3>1, <3>2
  <2>3. CASE j = 0
    <3>1. B[(h + 1) - j] = d /\ A[(n + 1) - j] = x /\ A[n - j] = L[n]
      BY <1>1, <1>2, <2>3
    <3>2. d = x - L[n]
      BY DEF n
    <3> QED
      BY <2>2, <3>1, <3>2
  <2>4. CASE j > 0
    <3> DEFINE k == j - 1
    <3>1. /\ k \in 0 .. n - 2 /\ (h + 1) - j = h - k /\ (n + 1) - j = n - k
          /\ n - j = n - (k + 1) /\ h - k \in 1 .. h /\ n - k \in 1 .. n /\ n - j \in 1 .. n
      BY <1>1, <2>1, <2>4
    <3> HIDE DEF k
    <3>2. H[h - k] = L[n - k] - L[n - (k + 1)]
      BY <1>3, <3>1
    <3>3. B[h - k] = H[h - k] /\ A[n - k] = L[n - k] /\ A[n - j] = L[n - j]
      BY <1>2, <3>1
    <3> QED
      BY <2>2, <3>1, <3>2, <3>3
  <2> QED
    BY <2>1, <2>3, <2>4
<1>8. Links(H2, L2)
  BY <1>6, <1>7 DEF Links
<1> QED
  BY <1>8 DEF H2, L2, A, B

LEMMA UpdateMass ==
  ASSUME DelaysInv, NEW p \in Comers, NEW length \in PacketLengths,
         NEW elapsed \in Int, NEW histogram \in Histograms,
         Delays!Total(histogram) = One, NEW observed, NEW late,
         Delays!Update(p, length, elapsed, histogram, observed, late)
  PROVE  /\ buckets' \in Histograms /\ Delays!Total(buckets') = One
         /\ forget_factor' \in 0 .. FactorOne
<1> DEFINE bucket == BucketOf(p, length, elapsed)
<1>1. /\ \/ Measured(p, length) > 0 /\ Fed(histogram, bucket)
         \/ buckets' = histogram /\ forget_factor' = forget_factor
  BY UpdateIs
<1>2. forget_factor \in 0 .. FactorOne
  BY DEF DelaysInv, Mass
<1>3. ASSUME Measured(p, length) > 0, bucket < NumBuckets,
             buckets' = Delays!Add(histogram, forget_factor, bucket),
             forget_factor' = Delays!NextFactor(forget_factor, BaseFactor)
      PROVE  /\ buckets' \in Histograms /\ Delays!Total(buckets') = One
             /\ forget_factor' \in 0 .. FactorOne
  <2>1. length \in Nat
    BY ArrivalNumbers
  <2>2. bucket \in Nat
    BY <1>3, <2>1, BucketTyped DEF DelaysInv, Intaken
  <2> HIDE DEF bucket
  <2>3. bucket \in 0 .. NumBuckets - 1
    BY <1>3, <2>2, ArrivalNumbers
  <2>4. /\ Delays!Add(histogram, forget_factor, bucket) \in Histograms
        /\ Delays!Total(Delays!Add(histogram, forget_factor, bucket)) = One
    BY <1>2, <2>3, AddKeepsOne
  <2>5. Delays!NextFactor(forget_factor, BaseFactor) \in 0 .. FactorOne
    BY <1>2, FactorNears
  <2> QED
    BY <1>3, <2>4, <2>5
<1> HIDE DEF bucket
<1>4. CASE buckets' = histogram /\ forget_factor' = forget_factor
  BY <1>2, <1>4
<1> QED
  BY <1>1, <1>3, <1>4 DEF Fed

LEMMA UpdateIntakes ==
  ASSUME DelaysInv, NEW p \in Comers, NEW length \in PacketLengths,
         NEW elapsed \in Int, NEW histogram, NEW observed, NEW late, now' = now,
         Delays!Update(p, length, elapsed, histogram, observed, late)
  PROVE  Intaken'
<1>1. /\ SerialsTyped /\ now \in Int /\ packet_iat_stopwatch \in Int
      /\ delay_history \in Seq(Int) /\ Len(delay_history) <= MaxHistory
      /\ length \in Nat
  BY ArrivalNumbers DEF DelaysInv, Intaken
<1>2. delay_history' \in Seq(Int) /\ Len(delay_history') <= MaxHistory
  BY <1>1, UpdateIs, HistoryTyped
<1>3. SerialsTyped'
  <2>1. p.seq \in 0 .. 2 * HalfCount - 1 /\ DueStamp(p) \in 0 .. 2 * HalfClock - 1
    BY ComersTyped
  <2>2. \/ last_seq_no' = last_seq_no /\ last_timestamp' = last_timestamp
        \/ last_seq_no' = p.seq /\ last_timestamp' = DueStamp(p)
    BY UpdateIs
  <2> QED
    BY <1>1, <2>1, <2>2 DEF SerialsTyped
<1>4. packet_iat_stopwatch' \in Int
  <2>1. packet_iat_stopwatch' = now - elapsed \/ packet_iat_stopwatch' = now
    BY UpdateIs
  <2> QED
    BY <1>1, <2>1
<1> QED
  BY <1>1, <1>2, <1>3, <1>4 DEF Intaken

LEMMA UpdateFollows ==
  ASSUME DelaysInv, NEW p \in Comers, NEW length \in PacketLengths,
         NEW elapsed \in Int, NEW histogram, NEW observed, NEW late, now' = now,
         Told(late, elapsed),
         Delays!Update(p, length, elapsed, histogram, observed, late)
  PROVE  Followed' /\ Linked'
<1> DEFINE H == delay_history
           L == lateness
           x == now - p.due
<1>1. /\ SerialsTyped /\ now \in Int /\ packet_iat_stopwatch \in Int
      /\ H \in Seq(Int) /\ Len(H) <= MaxHistory /\ L \in Seq(Int)
      /\ Len(L) <= MaxHistory + 1 /\ Len(L) <= Len(H) + 1
      /\ MaxHistory \in Nat \ {0} /\ length \in Nat /\ x \in Int /\ p.due \in Int
  BY ArrivalNumbers, ComersTyped DEF DelaysInv, Intaken, Followed, Linked, Links
<1>2. late \in Seq(Int) /\ Len(late) <= Len(H) + 1 /\ Len(late) <= MaxHistory + 1
  <2>1. CASE late = <<>>
    BY <1>1, <2>1
  <2>2. CASE late = lateness
    BY <1>1, <2>2
  <2> QED
    BY <2>1, <2>2 DEF Told
<1>3. delay_history' \in Seq(Int)
  BY UpdateIntakes DEF Intaken
<1>4. CASE Kept(p, length)
  <2>1. /\ Delays!Reordered(p.seq) /\ Measured(p, length) > 0
        /\ last_timestamp' = last_timestamp
        /\ lateness' = late /\ packet_iat_stopwatch' = now - elapsed
    BY <1>4, UpdateIs DEF Kept
  <2>2. delay_history' = H
    BY <2>1, UpdateIs DEF HistoryWith
  <2>3. CASE late = <<>>
    BY <1>1, <2>1, <2>2, <2>3 DEF Followed, Linked, Links
  <2>4. CASE late = lateness /\ elapsed = now - packet_iat_stopwatch
    <3>1. packet_iat_stopwatch' = packet_iat_stopwatch
      BY <1>1, <2>1, <2>4
    <3> QED
      BY <2>1, <2>2, <2>4, <3>1 DEF DelaysInv, Followed, Linked
  <2> QED
    BY <2>3, <2>4 DEF Told
<1>5. CASE ~Kept(p, length)
  <2>1. /\ last_timestamp' = DueStamp(p) /\ packet_iat_stopwatch' = now
        /\ lateness' = IF \/ Delays!Reordered(p.seq)
                          \/ Measured(p, length) * Ahead(p) # TimeApart(p)
                       THEN <<x>>
                       ELSE Delays!Latest(Append(late, x), MaxHistory + 1)
    BY <1>5, UpdateIs DEF Delays!Lateness
  <2>2. CASE lateness' = <<x>>
    <3>1. /\ lateness' \in Seq(Int) /\ Len(lateness') = 1 /\ lateness'[1] = x
          /\ Len(delay_history') \in Nat
      BY <1>1, <1>3, <2>2
    <3>2. Followed'
      BY <2>1, <3>1 DEF Followed
    <3>3. Linked'
      BY <1>1, <3>1 DEF Linked, Links
    <3> QED
      BY <3>2, <3>3
  <2>3. CASE /\ ~Delays!Reordered(p.seq)
             /\ Measured(p, length) * Ahead(p) = TimeApart(p)
             /\ lateness' = Delays!Latest(Append(late, x), MaxHistory + 1)
    <3> DEFINE A == Append(late, x)
               n == Len(late)
               full == MaxHistory + 1
    <3>1. /\ A \in Seq(Int) /\ Len(A) = n + 1 /\ A[n + 1] = x /\ n \in Nat
          /\ full \in Nat /\ full >= 1
      BY <1>1, <1>2
    <3> HIDE DEF A, full
    <3> DEFINE m == n + 1
               L2 == lateness'
    <3>8. /\ m = Len(A) /\ L2 = Delays!Latest(A, full) /\ m \in Nat /\ m > 0 /\ A[m] = x
          /\ m = n + 1
      BY <2>3, <3>1 DEF A, full
    <3> HIDE DEF m, L2
    <3>9. /\ L2 \in Seq(Int) /\ Len(L2) = IF m < full THEN m ELSE full
          /\ \A j \in 0 .. Len(L2) - 1 : L2[Len(L2) - j] = A[m - j]
      <4>1. A \in Seq(Int) /\ full \in Nat /\ m = Len(A) /\ L2 = Delays!Latest(A, full)
        BY <3>1, <3>8
      <4>2. LatestAre(L2, A, m, full)
        BY <4>1, LatestOf
      <4> QED
        BY <4>2 DEF LatestAre
    <3>2. /\ lateness' \in Seq(Int) /\ Len(lateness') = IF m < full THEN m ELSE full
          /\ \A j \in 0 .. Len(lateness') - 1 : lateness'[Len(lateness') - j] = A[m - j]
      BY <3>9 DEF L2
    <3>3. Len(lateness') \in Nat /\ Len(lateness') > 0
      BY <3>1, <3>2, <3>8
    <3>4. lateness'[Len(lateness')] = x
      <4> DEFINE j == 0
      <4>1. j \in 0 .. Len(lateness') - 1 /\ Len(lateness') - j = Len(lateness')
            /\ m - j = m
        BY <3>3, <3>8
      <4> HIDE DEF j
      <4> QED
        BY <3>2, <3>8, <4>1
    <3>5. Followed'
      BY <2>1, <3>2, <3>4 DEF Followed
    <3>6. CASE n = 0
      <4>1. Len(lateness') = 1
        BY <3>1, <3>2, <3>6, <3>8
      <4>2. Len(delay_history') \in Nat
        BY <1>3
      <4>3. Linked'
        BY <1>1, <4>1, <4>2 DEF Linked, Links
      <4> QED
        BY <3>5, <4>3
    <3>7. CASE n > 0
      <4>1. late = L /\ elapsed = now - packet_iat_stopwatch /\ Len(L) > 0
        <5>1. late # <<>>
          BY <3>7
        <5> QED
          BY <3>7, <5>1 DEF Told
      <4>2. PICK q \in Comers : /\ last_timestamp = DueStamp(q)
                               /\ L[Len(L)] = packet_iat_stopwatch - q.due
        BY <4>1 DEF DelaysInv, Followed
      <4> DEFINE d == DelayOf(p, length, elapsed)
      <4>3. Measured(p, length) > 0 /\ d = elapsed - (p.due - q.due)
        BY <1>1, <2>3, <4>2, DelayTells
      <4>4. q.due \in Int
        BY <4>2, ComersTyped
      <4>5. d = x - L[Len(L)] /\ d \in Int
        <5> DEFINE stopped == packet_iat_stopwatch
                   mine == p.due
                   other == q.due
        <5>1. /\ d = (now - stopped) - (mine - other) /\ L[Len(L)] = stopped - other
              /\ stopped \in Int /\ mine \in Int /\ other \in Int /\ x = now - mine
              /\ now \in Int
          BY <1>1, <4>1, <4>2, <4>3, <4>4
        <5> HIDE DEF stopped, mine, other, d, x
        <5>2. d = x - (stopped - other) /\ d \in Int
          BY <5>1
        <5> QED
          BY <5>1, <5>2 DEF d, x
      <4>6. delay_history' = Delays!Latest(Append(H, d), MaxHistory)
        BY <2>3, <4>3, UpdateIs DEF HistoryWith
      <4>7. lateness' = Delays!Latest(Append(L, x), MaxHistory + 1)
        BY <2>3, <4>1
      <4>8. Links(H, L)
        BY DEF DelaysInv, Linked
      <4> HIDE DEF d, x, H, L
      <4>9. Links(Delays!Latest(Append(H, d), MaxHistory),
                  Delays!Latest(Append(L, x), MaxHistory + 1))
        BY <1>1, <4>1, <4>5, <4>8, LinksAppend
      <4>10. Linked'
        BY <4>6, <4>7, <4>9 DEF Linked
      <4> QED
        BY <3>5, <4>10
    <3> QED
      BY <3>1, <3>6, <3>7
  <2> QED
    BY <2>1, <2>2, <2>3
<1> QED
  BY <1>4, <1>5

LEMMA DelaysStay ==
  ASSUME DelaysInv,
         UNCHANGED <<buckets, forget_factor, packet_len, last_seq_no, last_timestamp, now,
                     packet_iat_stopwatch, delay_history, lateness>>
  PROVE  DelaysInv'
BY DEF DelaysInv, Mass, Intaken, SerialsTyped, Followed, Linked, Links

\* Nothing is known of the packets before.
LEMMA NothingFollows ==
  ASSUME Intaken', lateness' = <<>>
  PROVE  Followed' /\ Linked'
<1>1. lateness' \in Seq(Int) /\ Len(lateness') = 0
  OBVIOUS
<1>2. delay_history' \in Seq(Int) /\ MaxHistory \in Nat
  BY ArrivalNumbers DEF Intaken
<1> QED
  BY <1>1, <1>2 DEF Followed, Linked, Links

LEMMA SpeechKeeps ==
  ASSUME DelaysInv, NEW i \in DOMAIN Arriving, NEW length \in PacketLengths,
         NEW old \in BOOLEAN, Delays!InsertSpeech(i, length, old)
  PROVE  DelaysInv'
<1> DEFINE p == Arriving[i]
           counted == (config.rtx \/ ~old) /\ ~renewed
           changed == length # packet_len
           histogram == IF /\ changed /\ packet_len > 0
                           /\ ~config.relative /\ config.experiment
                        THEN Delays!Scaled(buckets, packet_len, length) ELSE buckets
           observed == IF changed THEN Delays!SetPeakLength(peaks, length) ELSE peaks
           elapsed == IF changed THEN 0 ELSE now - packet_iat_stopwatch
           late == IF changed THEN <<>> ELSE lateness
<1>1. /\ now' = now /\ packet_len' = length
      /\ IF counted /\ first_packet_received
         THEN Delays!Update(p, length, elapsed, histogram, observed, late)
         ELSE /\ buckets' = histogram
              /\ packet_iat_stopwatch' = IF counted THEN now ELSE now - elapsed
              /\ last_seq_no' = IF counted THEN p.seq ELSE last_seq_no
              /\ last_timestamp' = IF counted THEN DueStamp(p) ELSE last_timestamp
              /\ lateness' = IF counted THEN <<Delays!Lateness(p)>> ELSE late
              /\ UNCHANGED <<delay_history, forget_factor>>
  BY DEF Delays!InsertSpeech, Delays!Arrive, DueStamp
<1>2. p \in Comers /\ length \in Nat \ {0}
  BY ArrivalNumbers DEF Comers
<1>3. /\ Mass /\ Intaken /\ Followed /\ Linked
      /\ now \in Int /\ packet_iat_stopwatch \in Int /\ elapsed \in Int
  BY DEF DelaysInv, Intaken
<1>4. histogram \in Histograms /\ Delays!Total(histogram) = One
  <2>1. CASE /\ changed /\ packet_len > 0
             /\ ~config.relative /\ config.experiment
    <3>1. packet_len \in Nat \ {0} /\ buckets \in Histograms
      BY <1>3, <2>1, ArrivalNumbers DEF Mass
    <3>2. histogram = Delays!Scaled(buckets, packet_len, length)
      BY <2>1
    <3> HIDE DEF histogram
    <3> QED
      BY <1>2, <1>3, <3>1, <3>2, ScaledKeeps DEF Mass
  <2>2. CASE ~(/\ changed /\ packet_len > 0
               /\ ~config.relative /\ config.experiment)
    <3>1. histogram = buckets
      BY <2>2
    <3> HIDE DEF histogram
    <3> QED
      BY <1>3, <3>1 DEF Mass
  <2> QED
    BY <2>1, <2>2
<1>5. Told(late, elapsed)
  BY DEF Told
<1> HIDE DEF histogram, observed
<1>6. CASE counted /\ first_packet_received
  <2> HIDE DEF p, elapsed, late, counted
  <2>1. Delays!Update(p, length, elapsed, histogram, observed, late)
    BY <1>1, <1>6
  <2>2. /\ buckets' \in Histograms /\ Delays!Total(buckets') = One
        /\ forget_factor' \in 0 .. FactorOne
    BY <1>2, <1>3, <1>4, <2>1, UpdateMass
  <2>3. Mass'
    BY <1>1, <2>2 DEF Mass
  <2>4. Intaken'
    BY <1>1, <1>2, <1>3, <2>1, UpdateIntakes
  <2>5. Followed' /\ Linked'
    BY <1>1, <1>2, <1>3, <1>5, <2>1, UpdateFollows
  <2> QED
    BY <2>3, <2>4, <2>5 DEF DelaysInv
<1>7. CASE ~(counted /\ first_packet_received)
  <2>1. /\ buckets' = histogram /\ forget_factor' = forget_factor
        /\ packet_iat_stopwatch' = IF counted THEN now ELSE now - elapsed
        /\ last_seq_no' = IF counted THEN p.seq ELSE last_seq_no
        /\ last_timestamp' = IF counted THEN DueStamp(p) ELSE last_timestamp
        /\ lateness' = IF counted THEN <<Delays!Lateness(p)>> ELSE late
        /\ delay_history' = delay_history
    BY <1>1, <1>7
  <2>2. Mass'
    BY <1>1, <1>3, <1>4, <2>1 DEF Mass
  <2>3. Intaken'
    <3>1. p.seq \in 0 .. 2 * HalfCount - 1 /\ DueStamp(p) \in 0 .. 2 * HalfClock - 1
      BY <1>2, ComersTyped
    <3> HIDE DEF p, elapsed, counted
    <3>2. SerialsTyped'
      BY <1>3, <2>1, <3>1 DEF Intaken, SerialsTyped
    <3>3. packet_iat_stopwatch' \in Int
      BY <1>3, <2>1
    <3> QED
      BY <1>1, <1>3, <2>1, <3>2, <3>3 DEF Intaken
  <2>4. CASE counted
    <3> DEFINE x == now - p.due
    <3>1. p.due \in Int /\ x \in Int
      BY <1>2, <1>3, ComersTyped
    <3>2. /\ lateness' = <<x>> /\ packet_iat_stopwatch' = now
          /\ last_timestamp' = DueStamp(p)
      BY <2>1, <2>4 DEF Delays!Lateness
    <3>3. /\ lateness' \in Seq(Int) /\ Len(lateness') = 1 /\ lateness'[1] = x
          /\ Len(delay_history') \in Nat /\ MaxHistory \in Nat
      BY <2>3, <3>1, <3>2, ArrivalNumbers DEF Intaken
    <3>4. Followed'
      BY <1>2, <3>2, <3>3 DEF Followed
    <3>5. Linked'
      BY <3>3 DEF Linked, Links
    <3> QED
      BY <2>2, <2>3, <3>4, <3>5 DEF DelaysInv
  <2>5. CASE ~counted /\ changed
    <3>1. lateness' = <<>>
      BY <2>1, <2>5
    <3> QED
      BY <2>2, <2>3, <3>1, NothingFollows DEF DelaysInv
  <2>6. CASE ~counted /\ ~changed
    <3>1. /\ lateness' = lateness /\ last_timestamp' = last_timestamp
          /\ delay_history' = delay_history
          /\ packet_iat_stopwatch' = now - (now - packet_iat_stopwatch)
      BY <2>1, <2>6
    <3>2. packet_iat_stopwatch' = packet_iat_stopwatch
      BY <1>3, <3>1
    <3>3. Followed' /\ Linked'
      BY <1>3, <3>1, <3>2 DEF Followed, Linked, Links
    <3> QED
      BY <2>2, <2>3, <3>3 DEF DelaysInv
  <2> QED
    BY <2>4, <2>5, <2>6
<1> QED
  BY <1>6, <1>7

LEMMA StartIsOne ==
  Delays!Start(NumBuckets) \in Histograms /\ Delays!Total(Delays!Start(NumBuckets)) = One
<1> DEFINE start == Delays!Start(NumBuckets)
<1>1. start = [i \in 1 .. NumBuckets |-> start[i]]
  BY DEF Delays!Start
<1>2. (\A i \in 1 .. NumBuckets : start[i] \in Nat) /\ Delays!Total(start) = One
  BY DelayAssumption
<1> HIDE DEF start
<1>3. start \in Histograms
  BY <1>1, <1>2 DEF Histograms
<1> QED
  BY <1>2, <1>3 DEF start

LEMMA DelaysInit == Delays!Init => DelaysInv
<1> SUFFICES ASSUME Delays!Init PROVE DelaysInv
  OBVIOUS
<1>1. /\ last_seq_no = 0 /\ last_timestamp = 0 /\ packet_iat_stopwatch = 0 /\ packet_len = 0
      /\ delay_history = <<>> /\ buckets = Delays!Start(NumBuckets) /\ forget_factor = 0
      /\ now = 0 /\ lateness = <<>>
  BY DEF Delays!Init
<1>2. Mass
  BY <1>1, StartIsOne, ArrivalNumbers DEF Mass
<1>3. Intaken
  BY <1>1, ArrivalNumbers DEF Intaken, SerialsTyped
<1>4. Followed /\ Linked
  BY <1>1, ArrivalNumbers DEF Followed, Linked, Links
<1> QED
  BY <1>2, <1>3, <1>4 DEF DelaysInv

LEMMA DelaysStep ==
  ASSUME DelaysInv, [Delays!Next]_(Delays!vars)
  PROVE  DelaysInv'
<1> USE DEF Delays!vars, Delays!intake, Delays!estimate, Delays!limits, Delays!stream
<1>0. Mass /\ Intaken /\ Followed /\ Linked
  BY DEF DelaysInv
<1>1. CASE UNCHANGED Delays!vars
  BY <1>1, DelaysStay
<1>2. ASSUME NEW i \in DOMAIN Arriving, Delays!InsertOther(i) PROVE DelaysInv'
  BY <1>2, DelaysStay DEF Delays!InsertOther, Delays!Arrive
<1>3. ASSUME NEW i \in DOMAIN Arriving, Delays!InsertFirst(i) PROVE DelaysInv'
  <2>1. /\ UNCHANGED <<buckets, forget_factor, packet_len, last_seq_no, last_timestamp, now,
                       delay_history>>
        /\ packet_iat_stopwatch' = now /\ lateness' = <<>>
    BY <1>3 DEF Delays!InsertFirst, Delays!Arrive
  <2>2. Mass' /\ Intaken'
    BY <1>0, <2>1 DEF Mass, Intaken, SerialsTyped
  <2> QED
    BY <2>1, <2>2, NothingFollows DEF DelaysInv
<1>4. ASSUME NEW i \in DOMAIN Arriving, Delays!RegisterEmptyPacket(i) PROVE DelaysInv'
  <2>1. /\ UNCHANGED <<buckets, forget_factor, packet_len, last_timestamp, now,
                       packet_iat_stopwatch, delay_history>>
        /\ last_seq_no' = Delays!Sn!Plus(last_seq_no, 1, HalfCount) /\ lateness' = <<>>
    BY <1>4 DEF Delays!RegisterEmptyPacket, Delays!Arrive
  <2>2. last_seq_no' \in 0 .. 2 * HalfCount - 1
    <3>1. HalfCount \in Nat \ {0} /\ last_seq_no \in 0 .. 2 * HalfCount - 1
      BY <1>0, ArrivalNumbers DEF Intaken, SerialsTyped
    <3> QED
      BY <2>1, <3>1, SerialNext
  <2>3. Mass' /\ Intaken'
    BY <1>0, <2>1, <2>2 DEF Mass, Intaken, SerialsTyped
  <2> QED
    BY <2>1, <2>3, NothingFollows DEF DelaysInv
<1>5. ASSUME NEW i \in DOMAIN Arriving, NEW length \in PacketLengths, NEW old \in BOOLEAN,
             Delays!InsertSpeech(i, length, old)
      PROVE  DelaysInv'
  BY <1>5, SpeechKeeps
<1>6. CASE Delays!Flush
  BY <1>6, DelaysStay DEF Delays!Flush
<1>7. CASE Delays!Reset
  <2>1. /\ UNCHANGED <<last_seq_no, last_timestamp, now, delay_history>>
        /\ packet_len' = 0 /\ buckets' = Delays!Start(NumBuckets) /\ forget_factor' = 0
        /\ packet_iat_stopwatch' = now /\ lateness' = <<>>
    BY <1>7 DEF Delays!Reset
  <2>2. Mass'
    BY <2>1, StartIsOne, ArrivalNumbers DEF Mass
  <2>3. Intaken'
    BY <1>0, <2>1 DEF Intaken, SerialsTyped
  <2> QED
    BY <2>1, <2>2, <2>3, NothingFollows DEF DelaysInv
<1>8. CASE Delays!Tick
  <2>1. /\ UNCHANGED <<buckets, forget_factor, packet_len, last_seq_no, last_timestamp,
                       packet_iat_stopwatch, delay_history, lateness>>
        /\ now' = now + 1
    BY <1>8 DEF Delays!Tick
  <2> QED
    BY <1>0, <2>1 DEF DelaysInv, Mass, Intaken, SerialsTyped, Followed, Linked, Links
<1>9. ASSUME NEW d \in AskedDelays,
             Delays!SetMinimumDelay(d) \/ Delays!SetMaximumDelay(d)
               \/ Delays!SetBaseMinimumDelay(d)
      PROVE  DelaysInv'
  BY <1>9, DelaysStay DEF Delays!SetMinimumDelay, Delays!SetMaximumDelay,
     Delays!SetBaseMinimumDelay, Delays!SetLimits
<1> QED
  BY <1>1, <1>2, <1>3, <1>4, <1>5, <1>6, <1>7, <1>8, <1>9 DEF Delays!Next

-----------------------------------------------------------------------------
(* What the invariant says of the two properties.                            *)

\* The e-th is the least of the first k of L.
IsMin(L, e, k) == e \in 1 .. k /\ \A i \in 1 .. k : L[e] <= L[i]

Ints(L, k) == \A i \in 1 .. k : L[i] \in Int

\* By how much the last of the first k is more than the least of them.
LessBy(L, k, x) == \E f \in 1 .. k : IsMin(L, f, k) /\ x = L[k] - L[f]

\* One more is the least, or the least stays.
LEMMA LeastGoesOn ==
  ASSUME NEW m \in Nat \ {0}, NEW L, Ints(L, m + 1),
         NEW e \in 1 .. m, IsMin(L, e, m)
  PROVE  LessBy(L, m + 1, IF L[m + 1] - L[e] < 0 THEN 0 ELSE L[m + 1] - L[e])
<1> DEFINE k == m + 1
           last == L[k]
           low == L[e]
<1>1. Ints(L, k) /\ e \in 1 .. k
  OBVIOUS
<1>2. /\ k \in 1 .. k /\ e \in 1 .. k /\ L[k] = last /\ L[e] = low
      /\ \A i \in 1 .. k : i \in 1 .. m \/ i = k
  OBVIOUS
<1>3. (\A i \in 1 .. k : L[i] \in Int) /\ last \in Int /\ low \in Int
  BY <1>1, <1>2 DEF Ints
<1>4. \A i \in 1 .. m : low <= L[i]
  BY DEF IsMin
<1>5. SUFFICES LessBy(L, k, IF last - low < 0 THEN 0 ELSE last - low)
  OBVIOUS
<1> HIDE DEF k, last, low
<1>6. CASE last < low
  <2>1. ASSUME NEW i \in 1 .. k PROVE last <= L[i]
    <3>1. CASE i = k
      BY <1>2, <1>3, <3>1
    <3>2. CASE i \in 1 .. m
      <4>1. low <= L[i] /\ L[i] \in Int
        BY <1>3, <1>4, <3>2
      <4> QED
        BY <1>3, <1>6, <4>1
    <3> QED
      BY <1>2, <3>1, <3>2
  <2>2. IsMin(L, k, k)
    BY <1>2, <2>1 DEF IsMin
  <2>3. (IF last - low < 0 THEN 0 ELSE last - low) = last - L[k]
    BY <1>2, <1>3, <1>6
  <2> QED
    BY <1>2, <2>2, <2>3 DEF LessBy
<1>7. CASE ~(last < low)
  <2>1. ASSUME NEW i \in 1 .. k PROVE low <= L[i]
    <3>1. CASE i = k
      BY <1>2, <1>3, <1>7, <3>1
    <3>2. CASE i \in 1 .. m
      BY <1>4, <3>2
    <3> QED
      BY <1>2, <3>1, <3>2
  <2>2. IsMin(L, e, k)
    BY <1>2, <2>1 DEF IsMin, low
  <2>3. (IF last - low < 0 THEN 0 ELSE last - low) = last - L[e]
    BY <1>3, <1>7 DEF low
  <2> QED
    BY <1>2, <2>2, <2>3 DEF LessBy
<1> QED
  BY <1>6, <1>7

\* By the end of a history whose elements are what each lateness is more than
\* the one before, the relative delay is that to the earliest.
Attained(L, rel, k) == LessBy(L, k + 1, rel[k])

LEMMA ScanFindsEarliest ==
  ASSUME NEW H \in Seq(Int), NEW L \in Seq(Int), Len(L) = Len(H) + 1, Links(H, L)
  PROVE  \E earliest \in DOMAIN L :
           /\ \A i \in DOMAIN L : L[earliest] <= L[i]
           /\ Delays!CalculateRelativePacketArrivalDelay(H) = L[Len(L)] - L[earliest]
<1> DEFINE n == Len(H)
<1>1. PICK rel : Scan(H, rel)
  BY ScanUnfolds
<1>2. /\ n \in Nat /\ DOMAIN L = 1 .. n + 1 /\ (\A i \in 1 .. n + 1 : L[i] \in Int)
      /\ rel \in [0 .. n -> Nat] /\ rel[0] = 0
      /\ \A i \in 1 .. n : rel[i] = Delays!Greater(rel[i - 1] + H[i], 0)
      /\ Delays!CalculateRelativePacketArrivalDelay(H) = rel[n]
  BY <1>1 DEF Scan
<1>3. \A k \in 1 .. n : H[k] = L[k + 1] - L[k]
  <2>1. ASSUME NEW k \in 1 .. n PROVE H[k] = L[k + 1] - L[k]
    <3> DEFINE j == n - k
    <3>1. j \in 0 .. Len(L) - 2 /\ Len(H) - j = k /\ Len(L) - j = k + 1
          /\ Len(L) - (j + 1) = k
      BY <1>2
    <3> HIDE DEF j
    <3> QED
      BY <3>1 DEF Links
  <2> QED
    BY <2>1
<1>4. Len(L) = n + 1
  OBVIOUS
<1> HIDE DEF n
<1> DEFINE T == {k \in 0 .. n : Attained(L, rel, k)}
<1>5. Attained(L, rel, 0)
  <2>1. 1 \in 1 .. 0 + 1 /\ \A i \in 1 .. 0 + 1 : i = 1
    OBVIOUS
  <2>2. 1 \in 1 .. n + 1
    BY <1>2
  <2>3. L[1] \in Int
    BY <1>2, <2>2
  <2>4. IsMin(L, 1, 0 + 1) /\ rel[0] = L[0 + 1] - L[1]
    BY <1>2, <2>1, <2>3 DEF IsMin
  <2> QED
    BY <2>1, <2>4 DEF Attained, LessBy
<1>6. ASSUME NEW k \in 0 .. n - 1, Attained(L, rel, k) PROVE Attained(L, rel, k + 1)
  <2>1. PICK e \in 1 .. k + 1 : IsMin(L, e, k + 1) /\ rel[k] = L[k + 1] - L[e]
    BY <1>6 DEF Attained, LessBy
  <2> DEFINE m == k + 1
  <2>2. /\ m \in Nat \ {0} /\ m \in 1 .. n /\ m + 1 \in 1 .. n + 1 /\ m \in 1 .. n + 1
        /\ m - 1 = k /\ e \in 1 .. n + 1 /\ e \in 1 .. m
        /\ \A i \in 1 .. m + 1 : i \in 1 .. n + 1
    BY <1>2
  <2>3. IsMin(L, e, m) /\ rel[k] = L[m] - L[e]
    BY <2>1
  <2> HIDE DEF m
  <2> DEFINE last == L[m + 1]
             low == L[e]
             r == rel[k]
             h == H[m]
             l == L[m]
  <2>4. last \in Int /\ low \in Int /\ l \in Int
    BY <1>2, <2>2
  <2>5. r = l - low /\ h = last - l /\ rel[m] = Delays!Greater(r + h, 0)
    <3>1. h = last - l
      BY <1>3, <2>2
    <3>2. rel[m] = Delays!Greater(rel[m - 1] + H[m], 0)
      BY <1>2, <2>2
    <3> QED
      BY <2>2, <2>3, <3>1, <3>2
  <2>6. Ints(L, m + 1)
    <3>1. ASSUME NEW i \in 1 .. m + 1 PROVE L[i] \in Int
      <4>1. i \in 1 .. n + 1
        BY <2>2
      <4>2. \A a \in 1 .. n + 1 : L[a] \in Int
        BY <1>2
      <4> QED
        BY <4>1, <4>2
    <3> QED
      BY <3>1 DEF Ints
  <2>7. LessBy(L, m + 1, IF L[m + 1] - L[e] < 0 THEN 0 ELSE L[m + 1] - L[e])
    BY <2>2, <2>3, <2>6, LeastGoesOn
  <2>8. rel[m] = IF last - low < 0 THEN 0 ELSE last - low
    <3> HIDE DEF last, low, r, h, l
    <3>1. r + h = last - low
      BY <2>4, <2>5
    <3> QED
      BY <2>4, <2>5, <3>1 DEF Delays!Greater
  <2>9. Attained(L, rel, m)
    BY <2>7, <2>8 DEF Attained
  <2> QED
    BY <2>9 DEF m
<1>7. 0 .. n \subseteq T
  <2>1. \A k \in 0 .. n - 1 : k \in 0 .. n /\ k + 1 \in 0 .. n
    BY <1>2
  <2>2. 0 \in T /\ \A k \in 0 .. n - 1 : k \in T => k + 1 \in T
    BY <1>2, <1>5, <1>6, <2>1
  <2> HIDE DEF T
  <2> QED
    BY <1>2, <2>2, Induction
<1>8. Attained(L, rel, n)
  <2>1. n \in 0 .. n
    BY <1>2
  <2> QED
    BY <1>7, <2>1
<1>9. PICK e \in 1 .. n + 1 : IsMin(L, e, n + 1) /\ rel[n] = L[n + 1] - L[e]
  BY <1>8 DEF Attained, LessBy
<1> QED
  BY <1>2, <1>4, <1>9 DEF IsMin

\* The probabilities of NetEq's delays add up to one after any sequence of
\* packets, resets and changes of their length: what Histogram::Add loses to
\* rounding, its correction gives back, and ScaleBuckets loses nothing.
THEOREM ProbabilitiesMakeOne == Delays!Spec => []MassIsOne
<1>1. DelaysInv => MassIsOne
  BY DEF DelaysInv, Mass, MassIsOne, Delays!MassIsOne
<1> QED
  BY <1>1, DelaysInit, DelaysStep, PTL DEF Delays!Spec

\* RelativeArrivalDelayTracker's sum, as DelayManager::Update keeps it, is how
\* much later the last packet in order came than the earliest in the window,
\* whatever was lost, reordered or wrapped since.
THEOREM RelativeDelayIsTrue == Delays!Spec => []RelativeDelayTrue
<1>1. DelaysInv => RelativeDelayTrue
  <2> SUFFICES ASSUME DelaysInv, Len(lateness) = Len(delay_history) + 1
               PROVE  \E earliest \in DOMAIN lateness :
                        /\ \A i \in DOMAIN lateness : lateness[earliest] <= lateness[i]
                        /\ Delays!CalculateRelativePacketArrivalDelay(delay_history)
                             = lateness[Len(lateness)] - lateness[earliest]
    BY DEF RelativeDelayTrue, Delays!RelativeDelayTrue
  <2>1. delay_history \in Seq(Int) /\ lateness \in Seq(Int)
        /\ Links(delay_history, lateness)
    BY DEF DelaysInv, Intaken, Followed, Linked
  <2> QED
    BY <2>1, ScanFindsEarliest
<1> QED
  BY <1>1, DelaysInit, DelaysStep, PTL DEF Delays!Spec

-----------------------------------------------------------------------------
(* The limits of NetEq's delay.                                              *)

Limited ==
  /\ {minimum_delay, maximum_delay, base_minimum_delay, effective_minimum_delay} \subseteq Nat
  /\ LimitsOrdered

LEMMA UpperBound ==
  ASSUME NEW length \in Nat, NEW maximum \in Nat
  PROVE  /\ Delays!MinimumDelayUpperBound(length, maximum) \in Nat
         /\ maximum > 0 => Delays!MinimumDelayUpperBound(length, maximum) <= maximum
<1> DEFINE time == Delays!MaxBufferTimeQ75(length)
<1>1. MaxBase \in Nat /\ BufferPackets \in Nat
  BY ArrivalNumbers
<1>2. time \in Nat
  <2> DEFINE audio == 3 * BufferPackets * length
  <2>1. audio \in Nat
    BY <1>1
  <2> HIDE DEF audio
  <2>2. audio \div 4 \in Nat
    BY <2>1
  <2> QED
    BY <2>2 DEF audio, Delays!MaxBufferTimeQ75
<1>3. Delays!MinimumDelayUpperBound(length, maximum)
        = Delays!Lesser(IF maximum > 0 THEN maximum ELSE MaxBase,
                        IF time > 0 THEN time ELSE MaxBase)
  BY DEF Delays!MinimumDelayUpperBound
<1> HIDE DEF time
<1> QED
  BY <1>1, <1>2, <1>3 DEF Delays!Lesser

\* What is set is a limit still, and the effective minimum is made of it.
LEMMA EffectiveLimited ==
  ASSUME packet_len \in Nat, {minimum_delay', maximum_delay', base_minimum_delay'} \subseteq Nat,
         maximum_delay' > 0 => minimum_delay' <= maximum_delay',
         Delays!UpdateEffective
  PROVE  Limited'
<1> DEFINE bound == Delays!MinimumDelayUpperBound(packet_len, maximum_delay')
           low == minimum_delay'
           high == maximum_delay'
           base == base_minimum_delay'
<1>1. /\ low \in Nat /\ high \in Nat /\ base \in Nat
      /\ high > 0 => low <= high
  OBVIOUS
<1>2. bound \in Nat /\ (high > 0 => bound <= high)
  BY <1>1, UpperBound
<1>3. effective_minimum_delay' = Delays!Greater(low, Delays!Lesser(base, bound))
  BY DEF Delays!UpdateEffective
<1> HIDE DEF bound, low, high, base
<1>4. effective_minimum_delay' \in Nat /\ (high > 0 => effective_minimum_delay' <= high)
  BY <1>1, <1>2, <1>3 DEF Delays!Greater, Delays!Lesser
<1> QED
  BY <1>1, <1>4 DEF low, high, base, Limited, LimitsOrdered, Delays!LimitsOrdered

LEMMA LimitedInit == Delays!Init => Limited
BY DEF Delays!Init, Limited, LimitsOrdered, Delays!LimitsOrdered

LEMMA LimitedStep ==
  ASSUME Mass, Limited, [Delays!Next]_(Delays!vars)
  PROVE  Limited'
<1>1. /\ packet_len \in Nat
      /\ {minimum_delay, maximum_delay, base_minimum_delay, effective_minimum_delay} \subseteq Nat
      /\ maximum_delay > 0 => minimum_delay <= maximum_delay
  BY ArrivalNumbers DEF Mass, Limited, LimitsOrdered, Delays!LimitsOrdered
<1>2. ASSUME UNCHANGED Delays!limits PROVE Limited'
  BY <1>2 DEF Delays!limits, Limited, LimitsOrdered, Delays!LimitsOrdered
<1>3. CASE UNCHANGED Delays!vars
  BY <1>2, <1>3 DEF Delays!vars
<1>4. ASSUME NEW i \in DOMAIN Arriving,
             \/ Delays!InsertOther(i) \/ Delays!InsertFirst(i)
             \/ Delays!RegisterEmptyPacket(i)
             \/ \E length \in PacketLengths, old \in BOOLEAN :
                  Delays!InsertSpeech(i, length, old)
      PROVE  Limited'
  <2>1. \E kind \in {"other", "speech", "empty"} : Delays!Arrive(i, kind)
    BY <1>4 DEF Delays!InsertOther, Delays!InsertFirst, Delays!RegisterEmptyPacket,
       Delays!InsertSpeech
  <2> QED
    BY <1>2, <2>1 DEF Delays!Arrive
<1>5. CASE Delays!Flush \/ Delays!Reset \/ Delays!Tick
  BY <1>2, <1>5 DEF Delays!Flush, Delays!Reset, Delays!Tick
<1>6. ASSUME NEW d \in AskedDelays, Delays!SetMinimumDelay(d) PROVE Limited'
  <2>1. /\ d <= Delays!MinimumDelayUpperBound(packet_len, maximum_delay)
        /\ minimum_delay' = d
        /\ UNCHANGED <<maximum_delay, base_minimum_delay>> /\ Delays!UpdateEffective
    BY <1>6 DEF Delays!SetMinimumDelay, Delays!SetLimits
  <2>2. d \in Nat /\ maximum_delay \in Nat
    BY <1>1, ArrivalNumbers
  <2>3. /\ Delays!MinimumDelayUpperBound(packet_len, maximum_delay) \in Nat
        /\ maximum_delay > 0 =>
             Delays!MinimumDelayUpperBound(packet_len, maximum_delay) <= maximum_delay
    BY <1>1, <2>2, UpperBound
  <2>4. maximum_delay > 0 => d <= maximum_delay
    BY <2>1, <2>2, <2>3
  <2> QED
    BY <1>1, <2>1, <2>2, <2>4, EffectiveLimited
<1>7. ASSUME NEW d \in AskedDelays, Delays!SetMaximumDelay(d) PROVE Limited'
  <2>1. /\ d = 0 \/ d >= Delays!Greater(minimum_delay, packet_len)
        /\ maximum_delay' = d
        /\ UNCHANGED <<minimum_delay, base_minimum_delay>> /\ Delays!UpdateEffective
    BY <1>7 DEF Delays!SetMaximumDelay, Delays!SetLimits
  <2>2. d \in Nat /\ (d > 0 => minimum_delay <= d)
    BY <1>1, <2>1, ArrivalNumbers DEF Delays!Greater
  <2> QED
    BY <1>1, <2>1, <2>2, EffectiveLimited
<1>8. ASSUME NEW d \in AskedDelays, Delays!SetBaseMinimumDelay(d) PROVE Limited'
  <2>1. /\ base_minimum_delay' = d /\ d \in Nat
        /\ UNCHANGED <<minimum_delay, maximum_delay>> /\ Delays!UpdateEffective
    BY <1>8, ArrivalNumbers DEF Delays!SetBaseMinimumDelay, Delays!SetLimits
  <2> QED
    BY <1>1, <2>1, EffectiveLimited
<1> QED
  BY <1>3, <1>4, <1>5, <1>6, <1>7, <1>8 DEF Delays!Next

\* DelayManager's SetMinimumDelay, SetMaximumDelay and SetBaseMinimumDelay, each
\* of which looks at the others when it is called and none of which is asked
\* again, leave no minimum above the maximum, in whatever order they are called
\* and however the length of a packet, which bounds the minimum too, changes.
THEOREM LimitsStayOrdered == Delays!Spec => []LimitsOrdered
<1> DEFINE LimitsInv == DelaysInv /\ Limited
<1>1. Delays!Init => LimitsInv
  BY DelaysInit, LimitedInit
<1>2. LimitsInv /\ [Delays!Next]_(Delays!vars) => LimitsInv'
  <2> SUFFICES ASSUME DelaysInv, Limited, [Delays!Next]_(Delays!vars)
               PROVE  DelaysInv' /\ Limited'
    OBVIOUS
  <2>1. Mass
    BY DEF DelaysInv
  <2> QED
    BY <2>1, DelaysStep, LimitedStep
<1>3. LimitsInv => LimitsOrdered
  BY DEF Limited
<1> HIDE DEF LimitsInv
<1> QED
  BY <1>1, <1>2, <1>3, PTL DEF Delays!Spec
=============================================================================
