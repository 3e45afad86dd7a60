------------------------- MODULE NackTrackerProofs -------------------------
(***************************************************************************)
(* For every modulus, list limit, threshold and stream that satisfy the    *)
(* assumptions of NackTracker: the list's order is the order of age, what  *)
(* is flagged missing is late, and what has been received is not listed.   *)
(*                                                                         *)
(* All of it rests on one fact that is inductive: the list never reaches   *)
(* further behind the newest packet than its limit, so that everything a   *)
(* comparison meets lies within half a circle.  With it, each step of the  *)
(* tracker is one of the gap tracker, whose numbers never wrap.            *)
(***************************************************************************)
EXTENDS NackTracker, TLAPS

\* Elements lie between one and max_nack_list_size_ behind the newest packet.
ListWindow ==
  \A k \in DOMAIN nack_list : Age(k) \in 1 .. max_nack_list_size

ReceivedWindow == \A p \in received : Age(p.seq) <= MaxLag

EmptyBeforeFirst ==
  ~any_rtp_received => nack_list = EmptyList /\ received = {}

IInv ==
  /\ TypeOK
  /\ ListWindow
  /\ ReceivedWindow
  /\ EmptyBeforeFirst
  /\ ReceivedNotListed
  /\ MissingIffLate

-----------------------------------------------------------------------------
(* Arithmetic on the circle. *)

LEMMA Circle == HalfSeq \in Nat /\ HalfSeq > 0 /\ HalfTs \in Nat /\ HalfTs > 0
  BY ModuliAssumption

LEMMA MinusType ==
  ASSUME NEW h \in Nat, NEW v \in Serial(h), NEW p \in Serial(h)
  PROVE  Minus(v, p, h) \in Serial(h)
  BY DEF Minus, Serial

\* Within half a circle behind a number n, newer means less far behind.
LEMMA NewerByAge ==
  ASSUME NEW n \in Seqs, NEW j \in Seqs, NEW k \in Seqs,
         SeqMinus(n, j) < HalfSeq, SeqMinus(n, k) < HalfSeq
  PROVE  NewerSeq(k, j) <=> SeqMinus(n, j) > SeqMinus(n, k)
  BY Circle DEF Seqs, Serial, SeqMinus, NewerSeq, Minus, IsNewer

\* The newest number moves on to p: ages grow by the distance.
LEMMA AgeGrows ==
  ASSUME NEW last \in Seqs, NEW p \in Seqs, NEW k \in Seqs,
         NewerSeq(p, last), SeqMinus(last, k) < HalfSeq
  PROVE  /\ SeqMinus(p, last) \in 1 .. HalfSeq
         /\ SeqMinus(p, k) = SeqMinus(p, last) + SeqMinus(last, k)
  BY Circle DEF Seqs, Serial, SeqMinus, NewerSeq, Minus, IsNewer

\* LimitNackListSize keeps what is at most max behind the newest number.
LEMMA LimitedByAge ==
  ASSUME NEW keys \in SUBSET Seqs, NEW newest \in Seqs,
         NEW max \in 1 .. SizeLimit, NEW k \in keys,
         SeqMinus(newest, k) <= HalfSeq + max
  PROVE  k \in Limited(keys, newest, max) <=> SeqMinus(newest, k) <= max
<1> DEFINE first == SeqMinus(newest, max)
           limit == SeqMinus(first, 1)
<1>1. max \in Nat /\ max < HalfSeq /\ max > 0
  BY Circle, WindowAssumption, SizeLimitAssumption, ThresholdAssumption
<1>2. first \in Seqs /\ limit \in Seqs
  BY <1>1, Circle DEF Seqs, Serial, SeqMinus, Minus
<1>3. limit = IF newest >= max + 1 THEN newest - max - 1
                                   ELSE newest - max - 1 + 2 * HalfSeq
  BY <1>1, Circle DEF Seqs, Serial, SeqMinus, Minus
<1> DEFINE age == SeqMinus(newest, k)
<1>4. age \in Seqs /\ k \in Seqs
  BY Circle DEF Seqs, Serial, SeqMinus, Minus
<1> HIDE DEF limit, first
<1>5. SeqMinus(k, limit) = IF age <= max + 1
                             THEN max + 1 - age
                             ELSE 2 * HalfSeq + max + 1 - age
  BY <1>1, <1>2, <1>3, <1>4, Circle DEF Seqs, Serial, SeqMinus, Minus
<1>6. NewerSeq(k, limit) <=> age <= max
  <2>1. max + 1 < HalfSeq
    BY <1>1, Circle, WindowAssumption, SizeLimitAssumption,
       ThresholdAssumption
  <2>2. k = limit <=> SeqMinus(k, limit) = 0
    BY <1>2, <1>4, Circle DEF Seqs, Serial, SeqMinus, Minus
  <2>3. NewerSeq(k, limit) <=>
          \/ SeqMinus(k, limit) = HalfSeq /\ k > limit
          \/ k # limit /\ SeqMinus(k, limit) < HalfSeq
    BY DEF NewerSeq, IsNewer, SeqMinus
  <2>4. CASE age <= max + 1
    BY <1>1, <1>4, <1>5, <2>1, <2>2, <2>3, <2>4, Circle DEF Seqs, Serial
  <2>5. CASE age > max + 1 /\ age < HalfSeq + max + 1
    BY <1>1, <1>4, <1>5, <2>1, <2>2, <2>3, <2>5, Circle DEF Seqs, Serial
  <2> QED
    BY <1>1, <1>4, <2>4, <2>5, Circle DEF Seqs, Serial
<1> QED
  BY <1>6 DEF Limited, limit, first

\* The numbers skipped are those between the last number and the current one.
LEMMA SkippedByAge ==
  ASSUME NEW current \in Seqs, sequence_num_last_received_rtp \in Seqs,
         NewerSeq(current, sequence_num_last_received_rtp), NEW n \in Seqs
  PROVE  n \in Skipped(current)
           <=> SeqMinus(current, n) \in
                 1 .. SeqMinus(current, sequence_num_last_received_rtp) - 1
  BY Circle
     DEF Skipped, Seqs, Serial, SeqMinus, NewerSeq, Minus, IsNewer

\* Older than Threshold behind current, for what is less than half a circle
\* behind it.
LEMMA LateByAge ==
  ASSUME NEW current \in Seqs, NEW n \in Seqs,
         SeqMinus(current, n) <= 2 * SizeLimit
  PROVE  NewerSeq(SeqMinus(current, Threshold), n)
           <=> SeqMinus(current, n) > Threshold
<1>1. /\ Threshold \in Nat
      /\ SizeLimit \in Nat
      /\ 2 * SizeLimit + Threshold < HalfSeq
  BY WindowAssumption, SizeLimitAssumption, ThresholdAssumption
<1> QED
  BY <1>1, Circle DEF Seqs, Serial, SeqMinus, NewerSeq, Minus, IsNewer

LEMMA DivNat == \A a \in Nat, b \in Nat \ {0} : a \div b \in Nat
  OBVIOUS

LEMMA ModRange == \A a \in Int, b \in Nat \ {0} : a % b \in 0 .. b - 1
  OBVIOUS

-----------------------------------------------------------------------------
(* The initial state and the steps, one lemma each. *)

LEMMA EmptyListType == DOMAIN EmptyList = {} /\ EmptyList \in [{} -> NackElement]
  BY DEF EmptyList

LEMMA InitIInv == Init => IInv
<1> SUFFICES ASSUME Init PROVE IInv
  OBVIOUS
<1>1. TypeOK
  <2>1. DefaultRate * 20 \in Nat
    BY RateAssumption
  <2> QED
    <3>1. /\ nack_list \in [DOMAIN nack_list -> NackElement]
          /\ DOMAIN nack_list \subseteq Seqs
      BY EmptyListType DEF Init
    <3>2. 0 \in Seqs /\ 0 \in Serial(HalfTs)
      BY Circle DEF Seqs, Serial
    <3>3. samples_per_packet \in Nat
      BY <2>1 DEF Init, kDefaultPacketSizeMs
    <3>4. max_nack_list_size \in 1 .. SizeLimit
      BY SizeLimitAssumption DEF Init
    <3>5. /\ any_rtp_received = FALSE /\ any_rtp_decoded = FALSE
          /\ sample_rate_khz = DefaultRate /\ received = {}
          /\ ext_received = 0 /\ ext_decoded = 0
          /\ sequence_num_last_received_rtp = 0
          /\ sequence_num_last_decoded_rtp = 0
          /\ timestamp_last_received_rtp = 0
          /\ timestamp_last_decoded_rtp = 0
      BY DEF Init
    <3>6. sample_rate_khz \in Rates \cup {DefaultRate}
      BY <3>5
    <3>7. any_rtp_received \in BOOLEAN /\ any_rtp_decoded \in BOOLEAN
      BY <3>5
    <3>8. /\ received \subseteq Stream
          /\ ext_received \in Int /\ ext_decoded \in Int
      BY <3>5
    <3>9. /\ sequence_num_last_received_rtp \in Seqs
          /\ sequence_num_last_decoded_rtp \in Seqs
          /\ timestamp_last_received_rtp \in Serial(HalfTs)
          /\ timestamp_last_decoded_rtp \in Serial(HalfTs)
      BY <3>2, <3>5
    <3> QED
      BY <3>1, <3>3, <3>4, <3>6, <3>7, <3>8, <3>9 DEF TypeOK
<1>2. DOMAIN nack_list = {} /\ received = {}
  BY EmptyListType DEF Init
<1> QED
  BY <1>1, <1>2
     DEF Init, IInv, ListWindow, ReceivedWindow, EmptyBeforeFirst,
         ReceivedNotListed, MissingIffLate

LEMMA UpdateSampleRateIInv ==
  ASSUME IInv, NEW rate \in Rates, UpdateSampleRate(rate)
  PROVE  IInv'
<1> USE DEF UpdateSampleRate, receivedVars, decodedVars, IInv
<1>1. TypeOK'
  BY DEF TypeOK
<1> QED
  BY <1>1 DEF ListWindow, ReceivedWindow, EmptyBeforeFirst,
              ReceivedNotListed, MissingIffLate, Age

LEMMA ResetIInv == ASSUME IInv, Reset PROVE IInv'
<1>1. TypeOK'
  <2>1. DefaultRate * 20 \in Nat
    BY RateAssumption
  <2> QED
    <3>1. /\ nack_list' \in [DOMAIN nack_list' -> NackElement]
          /\ DOMAIN nack_list' \subseteq Seqs
      BY EmptyListType DEF Reset
    <3>2. 0 \in Seqs /\ 0 \in Serial(HalfTs)
      BY Circle DEF Seqs, Serial
    <3>3. samples_per_packet' \in Nat
      BY <2>1 DEF Reset, kDefaultPacketSizeMs
    <3>5. /\ any_rtp_received' = FALSE /\ any_rtp_decoded' = FALSE
          /\ sample_rate_khz' = DefaultRate /\ received' = {}
          /\ ext_received' = 0 /\ ext_decoded' = 0
          /\ sequence_num_last_received_rtp' = 0
          /\ sequence_num_last_decoded_rtp' = 0
          /\ timestamp_last_received_rtp' = 0
          /\ timestamp_last_decoded_rtp' = 0
      BY DEF Reset
    <3>6. sample_rate_khz' \in Rates \cup {DefaultRate}
      BY <3>5
    <3>7. any_rtp_received' \in BOOLEAN /\ any_rtp_decoded' \in BOOLEAN
      BY <3>5
    <3>8. /\ received' \subseteq Stream
          /\ ext_received' \in Int /\ ext_decoded' \in Int
      BY <3>5
    <3>9. /\ sequence_num_last_received_rtp' \in Seqs
          /\ sequence_num_last_decoded_rtp' \in Seqs
          /\ timestamp_last_received_rtp' \in Serial(HalfTs)
          /\ timestamp_last_decoded_rtp' \in Serial(HalfTs)
      BY <3>2, <3>5
    <3>10. max_nack_list_size' \in 1 .. SizeLimit
      BY DEF Reset, IInv, TypeOK
    <3> QED
      BY <3>1, <3>3, <3>10, <3>6, <3>7, <3>8, <3>9 DEF TypeOK
<1>2. nack_list' = EmptyList /\ DOMAIN nack_list' = {} /\ received' = {}
  BY EmptyListType DEF Reset
<1> QED
  BY <1>1, <1>2 DEF IInv, ListWindow, ReceivedWindow, EmptyBeforeFirst,
                    ReceivedNotListed, MissingIffLate

\* Dropping elements, with the newest number and the flags left alone,
\* disturbs nothing.
LEMMA ShorterListIInv ==
  ASSUME IInv,
         UNCHANGED <<sequence_num_last_received_rtp, any_rtp_received,
                     received>>,
         max_nack_list_size' \in Nat,
         any_rtp_received,
         DOMAIN nack_list' \subseteq DOMAIN nack_list,
         \A k \in DOMAIN nack_list' :
            /\ nack_list'[k].is_missing = nack_list[k].is_missing
            /\ Age(k) <= max_nack_list_size'
  PROVE  /\ ListWindow'
         /\ ReceivedWindow'
         /\ EmptyBeforeFirst'
         /\ ReceivedNotListed'
         /\ MissingIffLate'
<1>1. \A k : Age(k)' = Age(k)
  BY DEF Age
<1>2. ListWindow'
  <2>1. ASSUME NEW k \in DOMAIN nack_list'
        PROVE  Age(k)' \in 1 .. max_nack_list_size'
    BY <1>1, <2>1 DEF IInv, ListWindow, TypeOK
  <2> QED
    BY <2>1 DEF ListWindow
<1>3. ReceivedWindow'
  BY <1>1 DEF IInv, ReceivedWindow, Age
<1>4. ReceivedNotListed'
  BY DEF IInv, ReceivedNotListed
<1>5. MissingIffLate'
  <2>1. ASSUME NEW k \in DOMAIN nack_list'
        PROVE  nack_list'[k].is_missing <=> Age(k)' > Threshold
    BY <1>1, <2>1 DEF IInv, MissingIffLate
  <2> QED
    BY <2>1 DEF MissingIffLate
<1> QED
  BY <1>2, <1>3, <1>4, <1>5 DEF EmptyBeforeFirst

LEMMA SetMaxNackListSizeIInv ==
  ASSUME IInv, NEW size \in 1 .. SizeLimit, SetMaxNackListSize(size)
  PROVE  IInv'
<1> DEFINE kept == Limited(DOMAIN nack_list, sequence_num_last_received_rtp, size)
<1>1. /\ nack_list' = [k \in kept |-> nack_list[k]]
      /\ kept \subseteq DOMAIN nack_list
      /\ max_nack_list_size' = size
      /\ UNCHANGED <<receivedVars, received>>
  BY DEF SetMaxNackListSize, Limited, Keep
<1>2. ASSUME NEW k \in kept PROVE Age(k) <= size
  <2>1. /\ k \in DOMAIN nack_list
        /\ DOMAIN nack_list \in SUBSET Seqs
        /\ sequence_num_last_received_rtp \in Seqs
    BY <1>1 DEF IInv, TypeOK
  <2>2. Age(k) <= HalfSeq + size
    BY <2>1, Circle, WindowAssumption, SizeLimitAssumption,
       ThresholdAssumption DEF IInv, ListWindow, TypeOK
  <2> QED
    BY <1>2, <2>1, <2>2, LimitedByAge DEF Age
<1>3. TypeOK'
  BY <1>1 DEF IInv, TypeOK, SetMaxNackListSize, receivedVars, decodedVars
<1>4. CASE any_rtp_received
  <2>1. /\ ListWindow' /\ ReceivedWindow' /\ EmptyBeforeFirst'
        /\ ReceivedNotListed' /\ MissingIffLate'
    BY <1>1, <1>2, <1>4, ShorterListIInv DEF receivedVars
  <2> QED
    BY <1>3, <2>1 DEF IInv
<1>5. CASE ~any_rtp_received
  <2>1. DOMAIN nack_list = {} /\ received = {}
    BY <1>5, EmptyListType DEF IInv, EmptyBeforeFirst
  <2>2. nack_list' = EmptyList /\ DOMAIN nack_list' = {} /\ received' = {}
    <3>1. kept = {}
      BY <1>1, <2>1
    <3> QED
      BY <1>1, <2>1, <3>1 DEF EmptyList
  <2> QED
    BY <1>3, <2>2 DEF IInv, ListWindow, ReceivedWindow, EmptyBeforeFirst,
                      ReceivedNotListed, MissingIffLate
<1> QED
  BY <1>4, <1>5

LEMMA UpdateLastDecodedPacketIInv ==
  ASSUME IInv, NEW p \in Stream, UpdateLastDecodedPacket(p)
  PROVE  IInv'
<1>1. /\ p \in received
      /\ any_rtp_received
      /\ UNCHANGED <<receivedVars, received, max_nack_list_size>>
  BY DEF UpdateLastDecodedPacket, IInv, EmptyBeforeFirst
<1>2. p.seq \in Seqs /\ p.ts \in Serial(HalfTs)
  BY StreamAssumption DEF Seqs
<1>3. sample_rate_khz \in Nat \ {0} /\ sample_rate_khz * 10 < HalfTs
  BY RateAssumption DEF IInv, TypeOK
<1>4. CASE DecodeNext(p)
  <2> DEFINE kept == {k \in DOMAIN nack_list : NewerSeq(k, p.seq)}
             time(k) == TimeToPlay(nack_list[k].estimated_timestamp, p.ts,
                                   sample_rate_khz)
  <2>1. nack_list' = [k \in kept |->
                        [nack_list[k] EXCEPT !.time_to_play_ms = time(k)]]
    BY <1>4 DEF DecodeNext
  <2>2. ASSUME NEW k \in kept PROVE nack_list[k] \in NackElement /\ time(k) \in Int
    <3>1. nack_list[k] \in NackElement
      BY DEF IInv, TypeOK
    <3>2. Minus(nack_list[k].estimated_timestamp, p.ts, HalfTs) \in Nat
      BY <1>2, <3>1, Circle DEF NackElement, Minus, Serial
    <3> QED
      BY <1>3, <3>1, <3>2, DivNat DEF TimeToPlay
  <2>3. ASSUME NEW k \in kept
        PROVE  /\ [nack_list[k] EXCEPT !.time_to_play_ms = time(k)]
                     \in NackElement
               /\ [nack_list[k] EXCEPT !.time_to_play_ms = time(k)].is_missing
                     = nack_list[k].is_missing
    BY <2>2 DEF NackElement
  <2> HIDE DEF time
  <2>4. TypeOK'
    <3>1. /\ DOMAIN nack_list' \subseteq Seqs
          /\ nack_list' \in [DOMAIN nack_list' -> NackElement]
      BY <2>1, <2>3 DEF IInv, TypeOK
    <3>2. ext_decoded' \in Int
      BY <1>2, <1>4, Circle
         DEF IInv, TypeOK, DecodeNext, SeqMinus, Minus, Seqs, Serial
    <3> QED
      BY <1>2, <1>4, <3>1, <3>2
         DEF IInv, TypeOK, DecodeNext, UpdateLastDecodedPacket, receivedVars
  <2>5. \A k \in DOMAIN nack_list' :
            /\ nack_list'[k].is_missing = nack_list[k].is_missing
            /\ Age(k) <= max_nack_list_size'
    <3>1. ASSUME NEW k \in kept PROVE Age(k) <= max_nack_list_size'
      BY <1>1, SizeLimitAssumption DEF IInv, ListWindow, TypeOK
    <3>2. ASSUME NEW k \in kept
          PROVE  nack_list'[k].is_missing = nack_list[k].is_missing
      BY <2>1, <2>3
    <3> QED
      BY <2>1, <3>1, <3>2
  <2>6. /\ ListWindow' /\ ReceivedWindow' /\ EmptyBeforeFirst'
        /\ ReceivedNotListed' /\ MissingIffLate'
    BY <1>1, <2>1, <2>5, ShorterListIInv DEF receivedVars, IInv, TypeOK
  <2> QED
    BY <2>4, <2>6 DEF IInv
<1>5. CASE DecodeSame(p)
  <2> DEFINE kept == DOMAIN nack_list \ OutOfTime
  <2>1. nack_list' = [k \in kept |-> [nack_list[k] EXCEPT !.time_to_play_ms =
                                        nack_list[k].time_to_play_ms - 10]]
    BY <1>5 DEF DecodeSame
  <2>2. ASSUME NEW k \in kept
        PROVE  /\ [nack_list[k] EXCEPT !.time_to_play_ms =
                     nack_list[k].time_to_play_ms - 10] \in NackElement
               /\ [nack_list[k] EXCEPT !.time_to_play_ms =
                     nack_list[k].time_to_play_ms - 10].is_missing
                     = nack_list[k].is_missing
    <3>1. nack_list[k] \in NackElement
      BY DEF IInv, TypeOK
    <3> QED
      BY <3>1 DEF NackElement
  <2>3. TypeOK'
    <3>1. /\ DOMAIN nack_list' \subseteq Seqs
          /\ nack_list' \in [DOMAIN nack_list' -> NackElement]
      BY <2>1, <2>2 DEF IInv, TypeOK
    <3>2. timestamp_last_decoded_rtp' \in Serial(HalfTs)
      BY <1>3, <1>5, Circle DEF DecodeSame, IInv, TypeOK, Plus, Serial
    <3> QED
      BY <1>5, <3>1, <3>2
         DEF IInv, TypeOK, DecodeSame, UpdateLastDecodedPacket, receivedVars
  <2>4. \A k \in DOMAIN nack_list' :
            /\ nack_list'[k].is_missing = nack_list[k].is_missing
            /\ Age(k) <= max_nack_list_size'
    <3>1. ASSUME NEW k \in kept PROVE Age(k) <= max_nack_list_size'
      BY <1>1, SizeLimitAssumption DEF IInv, ListWindow, TypeOK
    <3>2. ASSUME NEW k \in kept
          PROVE  nack_list'[k].is_missing = nack_list[k].is_missing
      BY <2>1, <2>2
    <3> QED
      BY <2>1, <3>1, <3>2
  <2>5. /\ ListWindow' /\ ReceivedWindow' /\ EmptyBeforeFirst'
        /\ ReceivedNotListed' /\ MissingIffLate'
    BY <1>1, <2>1, <2>4, ShorterListIInv DEF receivedVars, IInv, TypeOK
  <2> QED
    BY <2>3, <2>5 DEF IInv
<1> QED
  BY <1>4, <1>5 DEF UpdateLastDecodedPacket

-----------------------------------------------------------------------------
(* A received packet. *)

LEMMA UpdateFirstIInv ==
  ASSUME IInv, NEW p \in Stream, UpdateFirst(p),
         UNCHANGED <<sample_rate_khz, max_nack_list_size>>
  PROVE  IInv'
<1>1. p.seq \in Seqs /\ p.ts \in Serial(HalfTs)
  BY StreamAssumption DEF Seqs
<1>2. /\ nack_list' = EmptyList /\ received' = {p}
      /\ any_rtp_received' = TRUE
      /\ sequence_num_last_received_rtp' = p.seq
      /\ DOMAIN nack_list' = {}
  BY EmptyListType DEF UpdateFirst, IInv, EmptyBeforeFirst
<1>3. TypeOK'
  <2>1. /\ DOMAIN nack_list' \subseteq Seqs
        /\ nack_list' \in [DOMAIN nack_list' -> NackElement]
    BY <1>2, EmptyListType
  <2>2. p.seq \in Int
    BY <1>1, Circle DEF Seqs, Serial
  <2>3. /\ sequence_num_last_decoded_rtp' \in Seqs
        /\ timestamp_last_decoded_rtp' \in Serial(HalfTs)
        /\ any_rtp_decoded' \in BOOLEAN
    BY <1>1 DEF UpdateFirst, IInv, TypeOK, decodedVars
  <2> QED
    BY <1>1, <1>2, <2>1, <2>2, <2>3 DEF UpdateFirst, IInv, TypeOK
<1>4. ReceivedWindow'
  <2>1. Age(p.seq)' = 0
    BY <1>1, <1>2, Circle DEF Age, SeqMinus, Minus, Seqs, Serial
  <2> QED
    BY <1>2, <2>1, LagAssumption DEF ReceivedWindow
<1> QED
  BY <1>2, <1>3, <1>4 DEF IInv, ListWindow, EmptyBeforeFirst,
                          ReceivedNotListed, MissingIffLate

LEMMA UpdateOlderIInv ==
  ASSUME IInv, NEW p \in Stream, UpdateOlder(p),
         UNCHANGED <<sample_rate_khz, max_nack_list_size>>
  PROVE  IInv'
<1> DEFINE kept == DOMAIN nack_list \ {p.seq}
<1>1. /\ nack_list' = [k \in kept |-> nack_list[k]]
      /\ UNCHANGED <<receivedVars, max_nack_list_size>>
      /\ any_rtp_received
      /\ received' \subseteq received \cup {p}
      /\ p \in received' => p \in received \/ Age(p.seq) <= MaxLag
  BY DEF UpdateOlder, Keep, Age
<1>2. \A k : Age(k)' = Age(k)
  BY <1>1 DEF Age, receivedVars
<1>3. TypeOK'
  BY <1>1 DEF IInv, TypeOK, UpdateOlder, receivedVars, decodedVars
<1>4. ListWindow'
  BY <1>1, <1>2 DEF IInv, ListWindow
<1>5. ReceivedWindow'
  BY <1>1, <1>2 DEF IInv, ReceivedWindow
<1>6. ReceivedNotListed'
  BY <1>1 DEF IInv, ReceivedNotListed
<1>7. MissingIffLate'
  BY <1>1, <1>2 DEF IInv, MissingIffLate
<1> QED
  BY <1>1, <1>3, <1>4, <1>5, <1>6, <1>7 DEF IInv, EmptyBeforeFirst, receivedVars

\* If an element of the list survives packet p, then the bound of
\* ChangeFromLateToMissing cuts the list where the threshold says.
LEMMA LateAreABeginning ==
  ASSUME IInv, NEW p \in Stream,
         NewerSeq(p.seq, sequence_num_last_received_rtp),
         NEW known \in SUBSET DOMAIN nack_list,
         NEW k \in known, SeqMinus(p.seq, k) <= max_nack_list_size,
         NEW missing \in BeforeLowerBound(known, SeqMinus(p.seq, Threshold))
  PROVE  k \in missing <=> SeqMinus(p.seq, k) > Threshold
<1> DEFINE bound == SeqMinus(p.seq, Threshold)
           older == {j \in known : NewerSeq(bound, j)}
<1>1. /\ p.seq \in Seqs
      /\ sequence_num_last_received_rtp \in Seqs
      /\ known \subseteq Seqs
      /\ max_nack_list_size \in Nat
      /\ max_nack_list_size <= SizeLimit
      /\ SizeLimit \in Nat
      /\ 2 * SizeLimit < HalfSeq
  BY StreamAssumption, SizeLimitAssumption, WindowAssumption,
     ThresholdAssumption, Circle DEF IInv, TypeOK, Seqs
<1>2. ASSUME NEW j \in known
      PROVE  /\ SeqMinus(p.seq, j) \in Nat
             /\ SeqMinus(p.seq, j) <= 2 * SizeLimit
  <2>1. \A i \in known : Age(i) \in 1 .. max_nack_list_size
    BY DEF IInv, ListWindow
  <2>2. ASSUME NEW i \in known
        PROVE  /\ SeqMinus(p.seq, sequence_num_last_received_rtp)
                       \in 1 .. HalfSeq
               /\ SeqMinus(p.seq, i) =
                     SeqMinus(p.seq, sequence_num_last_received_rtp) + Age(i)
    <3>1. i \in Seqs /\ Age(i) < HalfSeq
      BY <1>1, <2>1, Circle
    <3> QED
      BY <1>1, <3>1, AgeGrows DEF Age
  <2> QED
    BY <1>1, <2>1, <2>2, Circle
<1>3. \A j \in known : j \in older <=> SeqMinus(p.seq, j) > Threshold
  BY <1>1, <1>2, LateByAge
<1>4. \A j \in older, i \in known : NewerSeq(j, i) => i \in older
  <2> SUFFICES ASSUME NEW j \in older, NEW i \in known, NewerSeq(j, i)
               PROVE  i \in older
    OBVIOUS
  <2>1. SeqMinus(p.seq, j) < HalfSeq /\ SeqMinus(p.seq, i) < HalfSeq
    BY <1>1, <1>2, Circle
  <2>2. SeqMinus(p.seq, i) > SeqMinus(p.seq, j)
    BY <1>1, <2>1, NewerByAge
  <2> QED
    BY <1>2, <1>3, <2>2, ThresholdAssumption
<1>5. missing = older
  BY <1>4 DEF BeforeLowerBound
<1> QED
  BY <1>3, <1>5

\* The ages of what is received or listed, before and after packet p.
LEMMA AgesAt ==
  ASSUME IInv, NEW p \in Stream,
         NewerSeq(p.seq, sequence_num_last_received_rtp),
         NEW k \in Seqs, Age(k) \in Int, Age(k) < HalfSeq
  PROVE  /\ SeqMinus(p.seq, sequence_num_last_received_rtp) \in 1 .. HalfSeq
         /\ SeqMinus(p.seq, k)
              = SeqMinus(p.seq, sequence_num_last_received_rtp) + Age(k)
<1>1. p.seq \in Seqs /\ sequence_num_last_received_rtp \in Seqs
  BY StreamAssumption DEF IInv, TypeOK, Seqs
<1>2. SeqMinus(sequence_num_last_received_rtp, k) < HalfSeq
  BY DEF Age
<1> QED
  BY <1>1, <1>2, AgeGrows DEF Age

LEMMA UpdateNewerIInv ==
  ASSUME IInv, NEW p \in Stream, UpdateNewer(p),
         UNCHANGED <<sample_rate_khz, max_nack_list_size>>
  PROVE  IInv'
<1> DEFINE last == sequence_num_last_received_rtp
           known == DOMAIN nack_list \ {p.seq}
           kept == Limited(known \cup Skipped(p.seq), p.seq, max_nack_list_size)
           spp == Minus(p.ts, timestamp_last_received_rtp, HalfTs)
                    \div SeqMinus(p.seq, last)
<1>1. PICK missing \in BeforeLowerBound(known, SeqMinus(p.seq, Threshold)) :
        nack_list' = ListAfter(p, known, missing)
  BY DEF UpdateNewer
<1> DEFINE element(k) == IF k \in known
                        THEN [nack_list[k] EXCEPT !.is_missing =
                                nack_list[k].is_missing \/ k \in missing]
                        ELSE NewElement(k, p.seq, spp)
<1>2. nack_list' = [k \in kept |-> element(k)]
  BY <1>1 DEF ListAfter
<1>3. /\ p.seq \in Seqs /\ last \in Seqs
      /\ p.ts \in Serial(HalfTs)
      /\ timestamp_last_received_rtp \in Serial(HalfTs)
      /\ known \subseteq Seqs
      /\ Skipped(p.seq) \subseteq Seqs
      /\ NewerSeq(p.seq, last)
      /\ max_nack_list_size \in 1 .. SizeLimit
      /\ SizeLimit \in Nat /\ 2 * SizeLimit < HalfSeq
      /\ SizeLimit + MaxLag < HalfSeq
      /\ MaxLag \in Nat /\ Threshold \in Nat
  BY StreamAssumption, SizeLimitAssumption, WindowAssumption,
     ThresholdAssumption, LagAssumption, Circle
     DEF UpdateNewer, IInv, TypeOK, Seqs, Skipped
<1>num. /\ max_nack_list_size \in Nat /\ max_nack_list_size <= SizeLimit
        /\ SizeLimit \in Nat /\ 2 * SizeLimit < HalfSeq
        /\ HalfSeq \in Nat
        /\ MaxLag \in Nat /\ MaxLag < HalfSeq
  BY <1>3, Circle
<1>seqs. p.seq \in Seqs /\ last \in Seqs /\ NewerSeq(p.seq, last)
  BY <1>3
<1>4. ASSUME NEW k \in kept
      PROVE  /\ k \in Seqs
             /\ k \in known \/ k \in Skipped(p.seq)
             /\ SeqMinus(p.seq, k) \in 1 .. max_nack_list_size
  <2>1. k \in known \/ k \in Skipped(p.seq)
    BY DEF Limited
  <2>2. k \in Seqs /\ SeqMinus(p.seq, k) \in Nat
    BY <1>3, <2>1, Circle DEF SeqMinus, Minus, Seqs, Serial
  <2>3. SeqMinus(p.seq, k) <= HalfSeq + max_nack_list_size /\ SeqMinus(p.seq, k) > 0
    <3>1. SeqMinus(p.seq, last) \in 1 .. HalfSeq
      BY <1>3, Circle DEF SeqMinus, Minus, Seqs, Serial, NewerSeq, IsNewer
    <3>2. CASE k \in known
      <4>1. Age(k) \in 1 .. max_nack_list_size
        BY <3>2 DEF IInv, ListWindow
      <4>2. SeqMinus(p.seq, k) = SeqMinus(p.seq, last) + Age(k)
        BY <1>3, <2>2, <4>1, Circle, AgeGrows DEF Age
      <4> QED
        BY <1>3, <3>1, <4>1, <4>2, Circle
    <3>3. CASE k \in Skipped(p.seq)
      <4>1. SeqMinus(p.seq, k) \in 1 .. SeqMinus(p.seq, last) - 1
        BY <1>3, <2>2, <3>3, SkippedByAge
      <4> QED
        BY <1>3, <3>1, <4>1, Circle
    <3> QED
      BY <2>1, <3>2, <3>3
  <2>4. SeqMinus(p.seq, k) <= max_nack_list_size
    <3>1. known \cup Skipped(p.seq) \in SUBSET Seqs
      BY <1>3
    <3>2. k \in known \cup Skipped(p.seq)
      BY <2>1
    <3> QED
      BY <1>3, <2>3, <3>1, <3>2, LimitedByAge
  <2> QED
    BY <1>3, <2>1, <2>2, <2>3, <2>4
<1> HIDE DEF kept
<1>5. spp \in Nat
  <2>1. SeqMinus(p.seq, last) \in Nat \ {0}
    BY <1>3, Circle DEF SeqMinus, Minus, Seqs, Serial, NewerSeq, IsNewer
  <2>2. Minus(p.ts, timestamp_last_received_rtp, HalfTs) \in Nat
    BY <1>3, Circle DEF Minus, Serial
  <2> QED
    BY <2>1, <2>2, DivNat
<1> HIDE DEF spp
<1>6. ASSUME NEW k \in kept
      PROVE  /\ element(k) \in NackElement
             /\ element(k).is_missing <=> SeqMinus(p.seq, k) > Threshold
  <2>1. CASE k \in known
    <3>1. nack_list[k] \in NackElement
      BY <2>1 DEF IInv, TypeOK
    <3>2. k \in missing <=> SeqMinus(p.seq, k) > Threshold
      <4>1. known \in SUBSET DOMAIN nack_list
        OBVIOUS
      <4>2. SeqMinus(p.seq, k) <= max_nack_list_size
        BY <1>num, <1>4
      <4>3. NewerSeq(p.seq, sequence_num_last_received_rtp)
        BY <1>3
      <4> HIDE DEF known
      <4> QED
        BY <1>1, <2>1, <4>1, <4>2, <4>3, LateAreABeginning
    <3>3. nack_list[k].is_missing => SeqMinus(p.seq, k) > Threshold
      <4>1. nack_list[k].is_missing => Age(k) > Threshold
        BY <2>1 DEF IInv, MissingIffLate
      <4>2. Age(k) \in 1 .. max_nack_list_size
        BY <2>1 DEF IInv, ListWindow
      <4>3. /\ SeqMinus(p.seq, last) \in 1 .. HalfSeq
            /\ SeqMinus(p.seq, k) = SeqMinus(p.seq, last) + Age(k)
        <5>1. Age(k) \in Int /\ Age(k) < HalfSeq
          BY <1>num, <4>2
        <5>2. k \in Seqs
          BY <1>4
        <5> QED
          BY <1>seqs, <5>1, <5>2, AgesAt
      <4> QED
        BY <1>3, <4>1, <4>2, <4>3, Circle
    <3>4. element(k) = [nack_list[k] EXCEPT !.is_missing =
                          nack_list[k].is_missing \/ k \in missing]
      BY <2>1
    <3>5. (nack_list[k].is_missing \/ k \in missing) \in BOOLEAN
      OBVIOUS
    <3>6. element(k).is_missing = (nack_list[k].is_missing \/ k \in missing)
      BY <3>1, <3>4 DEF NackElement
    <3>7. element(k) \in NackElement
      BY <3>1, <3>4, <3>5 DEF NackElement
    <3> QED
      BY <3>2, <3>3, <3>6, <3>7
  <2>2. CASE k \notin known
    <3> DEFINE ts == EstimateTimestamp(k, spp)
               time == TimeToPlay(ts, timestamp_last_decoded_rtp,
                                  sample_rate_khz)
    <3>1. ts \in Serial(HalfTs)
      <4>1. 2 * HalfTs \in Nat \ {0}
        BY Circle
      <4>2. SeqMinus(k, last) * spp + timestamp_last_received_rtp \in Int
        <5>1. SeqMinus(k, last) \in Int
          <6>1. k \in Seqs /\ last \in Seqs
            BY <1>3, <1>4
          <6> HIDE DEF last
          <6> QED
            BY <6>1, Circle, MinusType DEF SeqMinus, Seqs, Serial
        <5> QED
          BY <1>3, <1>5, <5>1 DEF Serial
      <4> QED
        BY <4>1, <4>2, ModRange DEF EstimateTimestamp, Serial
    <3>2. time \in Int
      <4>1. sample_rate_khz \in Nat \ {0}
        BY RateAssumption DEF IInv, TypeOK
      <4>2. Minus(ts, timestamp_last_decoded_rtp, HalfTs) \in Nat
        BY <3>1, Circle DEF IInv, TypeOK, Minus, Serial
      <4> QED
        BY <4>1, <4>2, DivNat DEF TimeToPlay
    <3> HIDE DEF ts, time
    <3>3. element(k) = [time_to_play_ms |-> time, estimated_timestamp |-> ts,
                        is_missing |-> NewerSeq(SeqMinus(p.seq, Threshold), k)]
      BY <2>2 DEF NewElement, ts, time
    <3>4. NewerSeq(SeqMinus(p.seq, Threshold), k) \in BOOLEAN
      BY DEF NewerSeq, IsNewer
    <3>5. NewerSeq(SeqMinus(p.seq, Threshold), k)
            <=> SeqMinus(p.seq, k) > Threshold
      <4>1. k \in Seqs /\ p.seq \in Seqs
        BY <1>3, <1>4
      <4>2. SeqMinus(p.seq, k) <= 2 * SizeLimit
        BY <1>num, <1>4
      <4> QED
        BY <4>1, <4>2, LateByAge
    <3> QED
      BY <3>1, <3>2, <3>3, <3>4, <3>5 DEF NackElement
  <2> QED
    BY <2>1, <2>2
<1> HIDE DEF element
<1>7. /\ sequence_num_last_received_rtp' = p.seq
      /\ \A k : Age(k)' = SeqMinus(p.seq, k)
      /\ received' = {r \in received : SeqMinus(p.seq, r.seq) <= MaxLag} \cup {p}
      /\ any_rtp_received'
  BY DEF UpdateNewer, Age
<1>8. TypeOK'
  <2>1. /\ DOMAIN nack_list' \subseteq Seqs
        /\ nack_list' \in [DOMAIN nack_list' -> NackElement]
    BY <1>2, <1>4, <1>6
  <2>2. samples_per_packet' \in Nat
    BY <1>5 DEF UpdateNewer, spp
  <2>3. ext_received' \in Int
    BY <1>3, Circle
       DEF UpdateNewer, IInv, TypeOK, SeqMinus, Minus, Seqs, Serial
  <2> QED
    BY <1>3, <1>7, <2>1, <2>2, <2>3
       DEF UpdateNewer, IInv, TypeOK, decodedVars
<1>9. ListWindow'
  BY <1>2, <1>4, <1>7 DEF ListWindow
<1>10. ReceivedWindow'
  <2>1. SeqMinus(p.seq, p.seq) = 0
    BY <1>3, Circle DEF SeqMinus, Minus, Seqs, Serial
  <2> QED
    BY <1>3, <1>7, <2>1 DEF ReceivedWindow
<1>11. MissingIffLate'
  BY <1>2, <1>6, <1>7 DEF MissingIffLate
<1>12. ReceivedNotListed'
  <2> SUFFICES ASSUME NEW r \in received', r.seq \in kept PROVE FALSE
    BY <1>2 DEF ReceivedNotListed
  <2>1. CASE r = p
    <3>1. SeqMinus(p.seq, p.seq) = 0
      BY <1>3, Circle DEF SeqMinus, Minus, Seqs, Serial
    <3>2. SeqMinus(p.seq, p.seq) \in 1 .. max_nack_list_size
      BY <1>4, <2>1
    <3> QED
      BY <1>3, <3>1, <3>2
  <2>2. CASE r # p
    <3>1. r \in received /\ Age(r.seq) <= MaxLag
      BY <1>7, <2>2 DEF IInv, ReceivedWindow
    <3>2. r.seq \in Skipped(p.seq)
      BY <1>4, <3>1 DEF IInv, ReceivedNotListed
    <3>3. SeqMinus(p.seq, r.seq) \in 1 .. SeqMinus(p.seq, last) - 1
      BY <1>3, <3>2, SkippedByAge
    <3>4. /\ SeqMinus(p.seq, last) \in 1 .. HalfSeq
          /\ SeqMinus(p.seq, r.seq) = SeqMinus(p.seq, last) + Age(r.seq)
      <4>1. r.seq \in Seqs
        BY <1>3, <3>2
      <4>2. Age(r.seq) \in Serial(HalfSeq)
        BY <4>1, <1>seqs, Circle, MinusType DEF Age, SeqMinus, Seqs
      <4>3. Age(r.seq) \in Int /\ Age(r.seq) < HalfSeq
        BY <1>num, <3>1, <4>2 DEF Serial
      <4> QED
        BY <1>seqs, <4>1, <4>3, AgesAt
    <3>5. Age(r.seq) \in Nat
      <4>1. Age(r.seq) \in Serial(HalfSeq)
        BY <3>2, <1>3, <1>seqs, Circle, MinusType DEF Age, SeqMinus, Seqs
      <4> QED
        BY <4>1 DEF Serial
    <3> QED
      BY <3>3, <3>4, <3>5, Circle
  <2> QED
    BY <2>1, <2>2
<1> QED
  BY <1>7, <1>8, <1>9, <1>10, <1>11, <1>12 DEF IInv, EmptyBeforeFirst

LEMMA UpdateLastReceivedPacketIInv ==
  ASSUME IInv, NEW p \in Stream, UpdateLastReceivedPacket(p)
  PROVE  IInv'
<1>1. CASE UpdateFirst(p)
  BY <1>1, UpdateFirstIInv DEF UpdateLastReceivedPacket
<1>2. CASE UpdateSame(p)
  BY <1>2 DEF UpdateLastReceivedPacket, UpdateSame, receivedVars, decodedVars,
              IInv, TypeOK, ListWindow, ReceivedWindow, EmptyBeforeFirst,
              ReceivedNotListed, MissingIffLate, Age
<1>3. CASE UpdateOlder(p)
  BY <1>3, UpdateOlderIInv DEF UpdateLastReceivedPacket
<1>4. CASE UpdateNewer(p)
  BY <1>4, UpdateNewerIInv DEF UpdateLastReceivedPacket
<1> QED
  BY <1>1, <1>2, <1>3, <1>4 DEF UpdateLastReceivedPacket

LEMMA NextIInv == IInv /\ [Next]_vars => IInv'
<1> SUFFICES ASSUME IInv, [Next]_vars PROVE IInv'
  OBVIOUS
<1>1. ASSUME NEW p \in Stream, UpdateLastReceivedPacket(p) PROVE IInv'
  BY <1>1, UpdateLastReceivedPacketIInv
<1>2. ASSUME NEW p \in Stream, UpdateLastDecodedPacket(p) PROVE IInv'
  BY <1>2, UpdateLastDecodedPacketIInv
<1>3. ASSUME NEW rate \in Rates, UpdateSampleRate(rate) PROVE IInv'
  BY <1>3, UpdateSampleRateIInv
<1>4. ASSUME NEW size \in 1 .. SizeLimit, SetMaxNackListSize(size)
      PROVE  IInv'
  BY <1>4, SetMaxNackListSizeIInv
<1>5. CASE Reset
  BY <1>5, ResetIInv
<1>6. CASE UNCHANGED vars
  BY <1>6 DEF vars, receivedVars, decodedVars, IInv, TypeOK, ListWindow,
              ReceivedWindow, EmptyBeforeFirst, ReceivedNotListed,
              MissingIffLate, Age
<1> QED
  BY <1>1, <1>2, <1>3, <1>4, <1>5, <1>6 DEF Next

-----------------------------------------------------------------------------
\* The list and the received packets keep within half a circle of the newest
\* number; no step of NackTracker's callers leads out of it.
THEOREM WindowKept == Spec => []IInv
  BY InitIInv, NextIInv, PTL DEF Spec

\* Every variable of the tracker keeps its type, the times to play and the
\* unwrapped numbers among them, whatever is received and decoded.
THEOREM TypeCorrect == Spec => []TypeOK
<1>1. IInv => TypeOK
  BY DEF IInv
<1> QED
  BY <1>1, WindowKept, PTL

\* The order of nack_list_'s std::map, which RTC's header says must not be
\* used for one, is a strict total order on what the list ever holds.
THEOREM ListStaysOrdered == Spec => []KeysOrdered
<1>1. IInv => KeysOrdered
  <2> SUFFICES ASSUME IInv, NEW j \in DOMAIN nack_list,
                      NEW k \in DOMAIN nack_list
               PROVE  NewerSeq(k, j) <=> Age(j) > Age(k)
    BY DEF KeysOrdered
  <2>1. /\ j \in Seqs /\ k \in Seqs
        /\ sequence_num_last_received_rtp \in Seqs
    BY DEF IInv, TypeOK
  <2>2. /\ Age(j) \in 1 .. max_nack_list_size
        /\ Age(k) \in 1 .. max_nack_list_size
        /\ max_nack_list_size \in 1 .. SizeLimit
    BY DEF IInv, ListWindow, TypeOK
  <2>3. Age(j) < HalfSeq /\ Age(k) < HalfSeq
    BY <2>2, Circle, WindowAssumption, SizeLimitAssumption,
       ThresholdAssumption
  <2> QED
    BY <2>1, <2>3, NewerByAge DEF Age
<1> QED
  BY <1>1, WindowKept, PTL

\* An element of the list is requested exactly when it is late: the lazy
\* marking of ChangeFromLateToMissing never misses one or marks one early.
THEOREM MissingExactlyWhenLate == Spec => []MissingIffLate
<1>1. IInv => MissingIffLate
  BY DEF IInv
<1> QED
  BY <1>1, WindowKept, PTL

\* GetNackList never names a packet the caller has received.
THEOREM NothingReceivedIsListed == Spec => []ReceivedNotListed
<1>1. IInv => ReceivedNotListed
  BY DEF IInv
<1> QED
  BY <1>1, WindowKept, PTL


-----------------------------------------------------------------------------
(* The refinement: a number listed stands for the gap that lies its age      *)
(* behind the newest number, counted without wrapping.                       *)

Listed == {ext_received - Age(k) : k \in DOMAIN nack_list}

\* The ages of what is listed and of what is in the packet buffer.
LEMMA AgesShort ==
  ASSUME IInv
  PROVE  /\ sequence_num_last_received_rtp \in Seqs /\ ext_received \in Int
         /\ \A k \in DOMAIN nack_list : k \in Seqs /\ Age(k) \in 1 .. HalfSeq - 1
         /\ \A p \in received : p.seq \in Seqs /\ Age(p.seq) \in 0 .. HalfSeq - 1
<1>1. /\ sequence_num_last_received_rtp \in Seqs /\ ext_received \in Int
      /\ DOMAIN nack_list \subseteq Seqs /\ received \subseteq Stream
  BY DEF IInv, TypeOK
<1>2. ASSUME NEW k \in DOMAIN nack_list PROVE Age(k) \in 1 .. HalfSeq - 1
  BY Circle, WindowAssumption, SizeLimitAssumption, ThresholdAssumption
     DEF IInv, TypeOK, ListWindow
<1>3. ASSUME NEW p \in received PROVE p.seq \in Seqs /\ Age(p.seq) \in 0 .. HalfSeq - 1
  <2>1. p.seq \in Seqs
    BY <1>1, StreamAssumption DEF Seqs
  <2>2. Age(p.seq) \in Serial(HalfSeq)
    BY <1>1, <2>1, Circle, MinusType DEF Age, SeqMinus, Seqs
  <2>3. Age(p.seq) <= MaxLag
    BY DEF IInv, ReceivedWindow
  <2> QED
    BY <2>1, <2>2, <2>3, Circle, WindowAssumption, LagAssumption, SizeLimitAssumption
       DEF Serial
<1> QED
  BY <1>1, <1>2, <1>3

\* Numbers of one age are the same.
LEMMA SameAge ==
  ASSUME NEW n \in Seqs, NEW j \in Seqs, NEW k \in Seqs, SeqMinus(n, j) = SeqMinus(n, k)
  PROVE  j = k
  BY Circle DEF Seqs, Serial, SeqMinus, Minus

\* Every age below the modulus is that of a number.
LEMMA OfAge ==
  ASSUME NEW n \in Seqs, NEW a \in Seqs
  PROVE  \E k \in Seqs : SeqMinus(n, k) = a
<1> DEFINE k == SeqMinus(n, a)
<1>1. k \in Seqs /\ SeqMinus(n, k) = a
  BY Circle DEF Seqs, Serial, SeqMinus, Minus
<1> QED
  BY <1>1

\* The list after a step that leaves the newest number alone.
LEMMA ListedLater ==
  ASSUME UNCHANGED <<sequence_num_last_received_rtp, ext_received>>
  PROVE  Listed' = {ext_received - Age(k) : k \in DOMAIN nack_list'}
<1>1. \A k : Age(k)' = Age(k)
  BY DEF Age
<1> QED
  BY <1>1 DEF Listed

LEMMA FirstStarts ==
  ASSUME IInv, NEW p \in Stream, UpdateFirst(p), UNCHANGED max_nack_list_size
  PROVE  Gaps!Start
<1>1. DOMAIN nack_list = {} /\ nack_list' = nack_list
  BY EmptyListType DEF UpdateFirst, IInv, EmptyBeforeFirst
<1>2. Listed = {} /\ Listed' = {}
  BY <1>1 DEF Listed
<1>3. p.seq \in Int
  BY StreamAssumption, Circle DEF Serial
<1> QED
  BY <1>2, <1>3 DEF Gaps!Start, UpdateFirst, Listed

LEMMA OlderFills ==
  ASSUME IInv, NEW p \in Stream, UpdateOlder(p), UNCHANGED max_nack_list_size
  PROVE  Gaps!Fill \/ UNCHANGED Gaps!vars
<1>1. /\ any_rtp_received
      /\ UNCHANGED <<any_rtp_received, sequence_num_last_received_rtp, ext_received, ext_decoded,
                     max_nack_list_size>>
      /\ DOMAIN nack_list' = DOMAIN nack_list \ {p.seq}
  BY DEF UpdateOlder, Keep, receivedVars
<1>2. Listed' = {ext_received - Age(k) : k \in DOMAIN nack_list \ {p.seq}}
  BY <1>1, ListedLater
<1>3. CASE p.seq \in DOMAIN nack_list
  <2> DEFINE n == ext_received - Age(p.seq)
  <2>1. n \in Listed
    BY <1>3 DEF Listed
  <2>2. ASSUME NEW k \in DOMAIN nack_list, k # p.seq PROVE ext_received - Age(k) # n
    <3>1. Age(k) # Age(p.seq)
      BY <1>3, <2>2, AgesShort, SameAge DEF Age
    <3> QED
      BY <1>3, <3>1, AgesShort
  <2>3. Listed' = Listed \ {n}
    BY <1>2, <2>2 DEF Listed
  <2> QED
    BY <1>1, <2>1, <2>3 DEF Gaps!Fill, Listed
<1>4. CASE p.seq \notin DOMAIN nack_list
  <2>1. Listed' = Listed
    BY <1>2, <1>4 DEF Listed
  <2> QED
    BY <1>1, <2>1 DEF Gaps!vars, Listed
<1> QED
  BY <1>3, <1>4

LEMMA NewerAdvances ==
  ASSUME IInv, NEW p \in Stream, UpdateNewer(p), UNCHANGED max_nack_list_size
  PROVE  Gaps!Advance
<1> DEFINE last == sequence_num_last_received_rtp
           d == SeqMinus(p.seq, last)
           known == DOMAIN nack_list \ {p.seq}
           kept == Limited(known \cup Skipped(p.seq), p.seq, max_nack_list_size)
           newest == ext_received + d
           skipped == ext_received + 1 .. newest - 1
<1>1. /\ p.seq \in Seqs /\ last \in Seqs /\ NewerSeq(p.seq, last)
      /\ ext_received \in Int /\ max_nack_list_size \in 1 .. SizeLimit
      /\ any_rtp_received /\ any_rtp_received' = any_rtp_received
      /\ ext_decoded' = ext_decoded /\ ext_received' = newest
      /\ sequence_num_last_received_rtp' = p.seq
      /\ DOMAIN nack_list \subseteq Seqs
  BY StreamAssumption DEF UpdateNewer, IInv, TypeOK, Seqs
<1>2. d \in 1 .. HalfSeq
  BY <1>1, Circle DEF SeqMinus, Minus, Seqs, Serial, NewerSeq, IsNewer
<1>3. DOMAIN nack_list' = kept
  BY DEF UpdateNewer, ListAfter
<1>4. \A k : Age(k)' = SeqMinus(p.seq, k)
  BY <1>1 DEF Age
<1>5. Listed' = {newest - SeqMinus(p.seq, k) : k \in kept}
  BY <1>1, <1>3, <1>4 DEF Listed
<1>6. ASSUME NEW k \in DOMAIN nack_list
      PROVE  /\ k \in known
             /\ SeqMinus(p.seq, k) = d + Age(k) /\ Age(k) \in 1 .. HalfSeq - 1
  <2>1. k \in Seqs /\ Age(k) \in 1 .. HalfSeq - 1
    BY AgesShort
  <2>2. SeqMinus(p.seq, k) = d + Age(k)
    BY <1>1, <2>1, AgeGrows, Circle DEF Age
  <2>3. SeqMinus(p.seq, p.seq) = 0
    BY <1>1, Circle DEF SeqMinus, Minus, Seqs, Serial
  <2>4. k # p.seq
    BY <1>2, <2>1, <2>2, <2>3, Circle
  <2> QED
    BY <2>1, <2>2, <2>4
<1>7. ASSUME NEW k \in Skipped(p.seq) PROVE k \in Seqs /\ SeqMinus(p.seq, k) \in 1 .. d - 1
  <2>1. k \in Seqs
    BY DEF Skipped
  <2> QED
    BY <1>1, <2>1, SkippedByAge
<1>8. ASSUME NEW k \in known \cup Skipped(p.seq)
      PROVE  /\ SeqMinus(p.seq, k) \in Nat
             /\ k \in kept <=> SeqMinus(p.seq, k) <= max_nack_list_size
  <2>1. known \cup Skipped(p.seq) \in SUBSET Seqs
    BY <1>1 DEF Skipped
  <2>2. SeqMinus(p.seq, k) \in Nat /\ SeqMinus(p.seq, k) <= HalfSeq + max_nack_list_size
    <3>1. CASE k \in known
      <4>1. Age(k) \in 1 .. max_nack_list_size
        BY <3>1 DEF IInv, ListWindow
      <4> QED
        BY <1>1, <1>2, <1>6, <3>1, <4>1, Circle, SizeLimitAssumption
    <3>2. CASE k \in Skipped(p.seq)
      BY <1>1, <1>2, <1>7, <3>2, Circle, SizeLimitAssumption
    <3> QED
      BY <3>1, <3>2
  <2> QED
    BY <1>1, <2>1, <2>2, LimitedByAge
<1>9. kept \subseteq known \cup Skipped(p.seq)
  BY DEF Limited
<1> HIDE DEF d, kept, last
<1>10. SizeLimit \in Nat /\ max_nack_list_size \in Int /\ newest \in Int /\ d \in Int
  BY <1>1, <1>2, SizeLimitAssumption, Circle
<1>11. ASSUME NEW g \in Listed'
       PROVE  g \in Listed \cup skipped /\ g >= newest - max_nack_list_size
  <2>1. PICK k \in kept : g = newest - SeqMinus(p.seq, k)
    BY <1>5, <1>11
  <2>2. SeqMinus(p.seq, k) \in Nat /\ SeqMinus(p.seq, k) <= max_nack_list_size
    BY <1>8, <1>9
  <2>3. CASE k \in known
    <3>1. g = ext_received - Age(k)
      BY <1>1, <1>6, <1>10, <2>1, <2>3
    <3> QED
      BY <1>10, <2>1, <2>2, <2>3, <3>1 DEF Listed
  <2>4. CASE k \in Skipped(p.seq)
    BY <1>1, <1>7, <1>10, <2>1, <2>2, <2>4
  <2> QED
    BY <1>9, <2>3, <2>4
<1>12. ASSUME NEW g \in Listed \cup skipped, g >= newest - max_nack_list_size
       PROVE  g \in Listed'
  <2>1. CASE g \in Listed
    <3>1. PICK k \in DOMAIN nack_list : g = ext_received - Age(k)
      BY <2>1 DEF Listed
    <3>2. k \in known /\ g = newest - SeqMinus(p.seq, k) /\ SeqMinus(p.seq, k) \in Int
      BY <1>1, <1>6, <1>8, <1>10, <3>1
    <3>3. k \in kept
      BY <1>8, <1>10, <1>12, <3>2
    <3> QED
      BY <1>5, <3>2, <3>3
  <2>2. CASE g \in skipped
    <3> DEFINE a == newest - g
    <3>1. a \in 1 .. d - 1 /\ a \in Seqs
      BY <1>1, <1>2, <2>2, Circle DEF Seqs, Serial
    <3>2. PICK k \in Seqs : SeqMinus(p.seq, k) = a
      BY <1>1, <3>1, OfAge
    <3>3. k \in Skipped(p.seq)
      BY <1>1, <3>1, <3>2, SkippedByAge DEF d, last
    <3>4. g = newest - SeqMinus(p.seq, k) /\ SeqMinus(p.seq, k) <= max_nack_list_size
      BY <1>1, <1>10, <1>12, <2>2, <3>2
    <3> QED
      BY <1>5, <1>8, <3>3, <3>4
  <2> QED
    BY <1>12, <2>1, <2>2
<1>13. Listed' = {g \in Listed \cup skipped : g >= newest - max_nack_list_size}
  BY <1>11, <1>12
<1>14. newest > ext_received
  BY <1>1, <1>2, Circle
<1> QED
  BY <1>1, <1>13, <1>14 DEF Gaps!Advance, Gaps!Recent, Listed

LEMMA DecodedPlays ==
  ASSUME IInv, NEW p \in received, DecodeNext(p),
         UNCHANGED <<receivedVars, max_nack_list_size, ext_received>>
  PROVE  Gaps!Play
<1>1. any_rtp_received
  BY DEF IInv, EmptyBeforeFirst
<1>2. /\ UNCHANGED <<sequence_num_last_received_rtp, any_rtp_received, ext_received>>
      /\ DOMAIN nack_list' = {k \in DOMAIN nack_list : NewerSeq(k, p.seq)}
      /\ ext_decoded' = ext_received - Age(p.seq)
  BY DEF DecodeNext, receivedVars, Age
<1>3. ASSUME NEW k \in DOMAIN nack_list
      PROVE  NewerSeq(k, p.seq) <=> ext_received - Age(k) > ext_decoded'
  <2>1. NewerSeq(k, p.seq) <=> Age(p.seq) > Age(k)
    BY AgesShort, NewerByAge, Circle DEF Age
  <2> QED
    BY <1>2, <2>1, AgesShort
<1>4. Listed' = {ext_received - Age(k) : k \in {k \in DOMAIN nack_list : NewerSeq(k, p.seq)}}
  BY <1>2, ListedLater
<1>5. Listed' = {g \in Listed : g > ext_decoded'}
  BY <1>3, <1>4 DEF Listed
<1> QED
  BY <1>1, <1>2, <1>5 DEF Gaps!Play, Listed

LEMMA DecodedExpires ==
  ASSUME IInv, NEW p, DecodeSame(p),
         UNCHANGED <<receivedVars, max_nack_list_size, ext_received>>
  PROVE  Gaps!Expire
<1>1. /\ UNCHANGED <<sequence_num_last_received_rtp, any_rtp_received, ext_received, ext_decoded>>
      /\ DOMAIN nack_list' = DOMAIN nack_list \ OutOfTime
  BY DEF DecodeSame, receivedVars
<1>2. Listed' = {ext_received - Age(k) : k \in DOMAIN nack_list \ OutOfTime}
  BY <1>1, ListedLater
<1>3. ASSUME NEW k \in OutOfTime, NEW j \in DOMAIN nack_list \ OutOfTime
      PROVE  Age(k) > Age(j)
  <2> SUFFICES ASSUME ~(Age(k) > Age(j)) PROVE FALSE
    OBVIOUS
  <2>1. PICK i \in DOMAIN nack_list : /\ i = j \/ NewerSeq(j, i)
                                      /\ ~(nack_list[i].time_to_play_ms <= 10)
    BY <1>3 DEF OutOfTime
  <2>2. k \in DOMAIN nack_list
    BY <1>3 DEF OutOfTime
  <2>3. /\ i \in Seqs /\ Age(i) \in 1 .. HalfSeq - 1
        /\ j \in Seqs /\ Age(j) \in 1 .. HalfSeq - 1
        /\ k \in Seqs /\ Age(k) \in 1 .. HalfSeq - 1
    BY <2>2, AgesShort
  <2>4. NewerSeq(j, i) <=> Age(i) > Age(j)
    BY <2>3, AgesShort, NewerByAge, Circle DEF Age
  <2>5. NewerSeq(k, i) <=> Age(i) > Age(k)
    BY <2>3, AgesShort, NewerByAge, Circle DEF Age
  <2>6. Age(i) = Age(k) => i = k
    BY <2>3, AgesShort, SameAge DEF Age
  <2>7. i = k \/ NewerSeq(k, i)
    BY <2>1, <2>3, <2>4, <2>5, <2>6
  <2> QED
    BY <1>3, <2>1, <2>7 DEF OutOfTime
<1>4. Listed' \subseteq Listed
  BY <1>2 DEF Listed
<1>5. ASSUME NEW g \in Listed \ Listed', NEW r \in Listed' PROVE g < r
  <2>1. PICK k \in DOMAIN nack_list : g = ext_received - Age(k)
    BY DEF Listed
  <2>2. PICK j \in DOMAIN nack_list \ OutOfTime : r = ext_received - Age(j)
    BY <1>2
  <2>3. k \in OutOfTime
    BY <1>2, <2>1
  <2>4. Age(k) > Age(j)
    BY <1>3, <2>3
  <2> QED
    BY <2>1, <2>2, <2>4, AgesShort
<1> QED
  BY <1>1, <1>4, <1>5 DEF Gaps!Expire, Listed

LEMMA LimitTakesEffect ==
  ASSUME IInv, NEW size \in 1 .. SizeLimit, SetMaxNackListSize(size)
  PROVE  Gaps!SetLimit
<1> DEFINE last == sequence_num_last_received_rtp
           kept == Limited(DOMAIN nack_list, last, size)
<1>1. /\ UNCHANGED <<sequence_num_last_received_rtp, any_rtp_received, ext_received, ext_decoded>>
      /\ DOMAIN nack_list' = kept /\ max_nack_list_size' = size
  BY DEF SetMaxNackListSize, Keep, receivedVars
<1>2. Listed' = {ext_received - Age(k) : k \in kept}
  BY <1>1, ListedLater
<1>3. ASSUME NEW k \in DOMAIN nack_list
      PROVE  k \in kept <=> ext_received - Age(k) >= ext_received - size
  <2>1. /\ DOMAIN nack_list \in SUBSET Seqs /\ last \in Seqs
        /\ Age(k) \in 1 .. HalfSeq - 1 /\ size \in Nat /\ ext_received \in Int
    BY AgesShort, SizeLimitAssumption
  <2>2. SeqMinus(last, k) <= HalfSeq + size
    BY <2>1, Circle DEF Age
  <2>3. k \in kept <=> Age(k) <= size
    BY <2>1, <2>2, LimitedByAge DEF Age
  <2> QED
    BY <2>1, <2>3, Circle
<1>4. kept \subseteq DOMAIN nack_list
  BY DEF Limited
<1> HIDE DEF kept
<1>5. Listed' = {g \in Listed : g >= ext_received - size}
  BY <1>2, <1>3, <1>4 DEF Listed
<1> QED
  BY <1>1, <1>5 DEF Gaps!SetLimit, Gaps!Recent, Listed

\* What the tracker does with numbers that wrap, the gap tracker does with
\* numbers that do not: new gaps open, late packets fill them, what is played,
\* runs out of time or falls behind the limit goes, and nothing else does.
THEOREM ImplementsGapTracker == Spec => GapSpec
<1>1. Init => Gaps!Init
  <2> SUFFICES ASSUME Init PROVE Gaps!Init
    OBVIOUS
  <2>1. Listed = {}
    BY EmptyListType DEF Init, Listed
  <2> QED
    BY <2>1 DEF Init, Gaps!Init, Listed
<1>2. IInv /\ [Next]_vars => [Gaps!Next]_(Gaps!vars)
  <2> SUFFICES ASSUME IInv, [Next]_vars PROVE [Gaps!Next]_(Gaps!vars)
    OBVIOUS
  <2>1. ASSUME NEW p \in Stream, UpdateLastReceivedPacket(p) PROVE [Gaps!Next]_(Gaps!vars)
    <3>1. UNCHANGED max_nack_list_size
      BY <2>1 DEF UpdateLastReceivedPacket
    <3>2. CASE UpdateFirst(p)
      BY <3>1, <3>2, FirstStarts DEF Gaps!Next
    <3>3. CASE UpdateSame(p)
      <4>1. Listed' = Listed
        BY <3>3 DEF UpdateSame, receivedVars, Listed, Age
      <4> QED
        BY <3>1, <3>3, <4>1 DEF Gaps!vars, UpdateSame, receivedVars, Listed
    <3>4. CASE UpdateOlder(p)
      BY <3>1, <3>4, OlderFills DEF Gaps!Next
    <3>5. CASE UpdateNewer(p)
      BY <3>1, <3>5, NewerAdvances DEF Gaps!Next
    <3> QED
      BY <2>1, <3>2, <3>3, <3>4, <3>5 DEF UpdateLastReceivedPacket
  <2>2. ASSUME NEW p \in Stream, UpdateLastDecodedPacket(p) PROVE [Gaps!Next]_(Gaps!vars)
    <3>1. p \in received /\ UNCHANGED <<receivedVars, max_nack_list_size, ext_received>>
      BY <2>2 DEF UpdateLastDecodedPacket
    <3>2. CASE DecodeNext(p)
      BY <3>1, <3>2, DecodedPlays DEF Gaps!Next
    <3>3. CASE DecodeSame(p)
      BY <3>1, <3>3, DecodedExpires DEF Gaps!Next
    <3> QED
      BY <2>2, <3>2, <3>3 DEF UpdateLastDecodedPacket
  <2>3. ASSUME NEW rate \in Rates, UpdateSampleRate(rate) PROVE [Gaps!Next]_(Gaps!vars)
    <3>1. Listed' = Listed
      BY <2>3 DEF UpdateSampleRate, receivedVars, Listed, Age
    <3> QED
      BY <2>3, <3>1 DEF Gaps!vars, UpdateSampleRate, receivedVars, Listed
  <2>4. ASSUME NEW size \in 1 .. SizeLimit, SetMaxNackListSize(size)
        PROVE  [Gaps!Next]_(Gaps!vars)
    BY <2>4, LimitTakesEffect DEF Gaps!Next
  <2>5. CASE Reset
    <3>1. Listed' = {}
      BY <2>5, EmptyListType DEF Reset, Listed
    <3> QED
      BY <2>5, <3>1 DEF Reset, Gaps!Next, Gaps!Restart, Listed
  <2>6. CASE UNCHANGED vars
    <3>1. Listed' = Listed
      BY <2>6 DEF vars, receivedVars, Listed, Age
    <3> QED
      BY <2>6, <3>1 DEF Gaps!vars, vars, receivedVars, Listed
  <2> QED
    BY <2>1, <2>2, <2>3, <2>4, <2>5, <2>6 DEF Next
<1> QED
  BY <1>1, <1>2, WindowKept, PTL DEF Spec, GapSpec, Gaps!Spec
=============================================================================
