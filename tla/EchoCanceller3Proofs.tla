------------------------ MODULE EchoCanceller3Proofs ------------------------
(***************************************************************************)
(* The buffers of the echo canceller keep their types and sizes, the way   *)
(* of the captured samples through delay buffer, blocker and framer is a   *)
(* delay line, and the render frames come out of the queue as a stream of  *)
(* blocks.  Two ideas carry the proof of the first way.  In the ring of    *)
(* the delay buffer, the unit met at a position is the one put there one   *)
(* turn ago.  Between blocker and framer, four units are held after every  *)
(* frame, and cutting and joining only move the border between them.  The  *)
(* other way rests on the blocker's half block and the frames in the queue *)
(* being one sequence, from the front of which whole blocks are taken.     *)
(***************************************************************************)
EXTENDS EchoCanceller3, SequenceTheorems, TLAPS

-----------------------------------------------------------------------------
(* Remainders *)

\* A whole turn leaves the position in the ring.
LEMMA OneTurn ==
  ASSUME NEW d \in Nat \ {0}, NEW x \in Nat
  PROVE  (x + d) % d = x % d
<1> DEFINE q == x \div d
           p == (x + d) \div d
<1>1. /\ x = (d * q) + (x % d) /\ x % d \in 0 .. d - 1 /\ q \in Int
      /\ x + d = (d * p) + ((x + d) % d) /\ (x + d) % d \in 0 .. d - 1 /\ p \in Int
  OBVIOUS
<1> HIDE DEF p, q
<1>2. p = q + 1
  <2>1. CASE p > q + 1
    <3>1. d * p >= d * (q + 2)
      BY <1>1, <2>1
    <3>2. d * (q + 2) = d * q + d + d
      BY <1>1
    <3> QED
      BY <1>1, <3>1, <3>2
  <2>2. CASE p < q + 1
    <3>1. d * p <= d * q
      BY <1>1, <2>2
    <3> QED
      BY <1>1, <3>1
  <2> QED
    BY <1>1, <2>1, <2>2
<1>3. d * (q + 1) = d * q + d
  BY <1>1
<1> QED
  BY <1>1, <1>2, <1>3

\* Positions less than a turn apart differ.
LEMMA WithinOneTurn ==
  ASSUME NEW d \in Nat \ {0}, NEW x \in Nat, NEW y \in Nat, x < y, y < x + d
  PROVE  x % d # y % d
<1> DEFINE q == x \div d
           p == y \div d
<1>1. /\ x = (d * q) + (x % d) /\ x % d \in 0 .. d - 1 /\ q \in Int
      /\ y = (d * p) + (y % d) /\ y % d \in 0 .. d - 1 /\ p \in Int
  OBVIOUS
<1> HIDE DEF p, q
<1> SUFFICES ASSUME x % d = y % d PROVE FALSE
  OBVIOUS
<1>2. CASE p > q
  <2>1. d * p >= d * (q + 1)
    BY <1>1, <1>2
  <2>2. d * (q + 1) = d * q + d
    BY <1>1
  <2> QED
    BY <1>1, <2>1, <2>2
<1>3. CASE p <= q
  <2>1. d * p <= d * q
    BY <1>1, <1>3
  <2> QED
    BY <1>1, <2>1
<1> QED
  BY <1>1, <1>2, <1>3

\* The choice of the latest is that of the greatest.
LEMMA LatestOf ==
  ASSUME NEW S \in SUBSET Nat, NEW m \in S, \A other \in S : other <= m
  PROVE  Latest(S) = m
<1>1. \E x \in S : \A other \in S : other <= x
  OBVIOUS
<1>2. Latest(S) \in S /\ \A other \in S : other <= Latest(S)
  BY <1>1, Zenon DEF Latest
<1>3. \A x \in S : (\A other \in S : other <= x) => x = m
  OBVIOUS
<1> QED
  BY <1>2, <1>3, Zenon

\* The remainder may be taken of a part first.
LEMMA PartFirst ==
  ASSUME NEW d \in Nat \ {0}, NEW x \in Nat, NEW y \in Nat
  PROVE  ((x % d) + y) % d = (x + y) % d
<1> DEFINE q == x \div d
           z == (x % d) + y
           p == z \div d
           r == (x + y) \div d
<1>1. /\ x = (d * q) + (x % d) /\ x % d \in 0 .. d - 1 /\ q \in Int
      /\ z = (d * p) + (z % d) /\ z % d \in 0 .. d - 1 /\ p \in Int
      /\ x + y = (d * r) + ((x + y) % d) /\ (x + y) % d \in 0 .. d - 1 /\ r \in Int
  OBVIOUS
<1>2. d * (q + p) = d * q + d * p
  BY <1>1
<1>3. x + y = (d * (q + p)) + (z % d)
  BY <1>1, <1>2
<1> HIDE DEF p, q, r
<1>4. r = q + p
  <2>1. CASE r > q + p
    <3>1. d * r >= d * (q + p + 1) /\ d * (q + p + 1) = d * (q + p) + d
      BY <1>1, <2>1
    <3> QED
      BY <1>1, <1>3, <3>1
  <2>2. CASE r < q + p
    <3>1. d * (q + p) >= d * (r + 1) /\ d * (r + 1) = d * r + d
      BY <1>1, <2>2
    <3> QED
      BY <1>1, <1>3, <3>1
  <2> QED
    BY <1>1, <2>1, <2>2
<1> QED
  BY <1>1, <1>3, <1>4 DEF z

-----------------------------------------------------------------------------
(* The delay buffer *)

\* What a position meets was put there one turn ago, or before the frame.
LEMMA MetOneTurnAgo ==
  ASSUME Delay > 0, last_insert \in Nat, NEW k \in Nat
  PROVE  /\ k < Delay => Met(k) = {}
         /\ k >= Delay => Met(k) # {} /\ Latest(Met(k)) = k - Delay
<1>1. Delay \in Nat \ {0}
  BY DelayAssumption
<1>2. ASSUME NEW m \in 0 .. k - 1, k < m + Delay
      PROVE  (last_insert + m) % Delay # (last_insert + k) % Delay
  <2>1. /\ last_insert + m \in Nat /\ last_insert + k \in Nat
        /\ last_insert + m < last_insert + k
        /\ last_insert + k < last_insert + m + Delay
    BY <1>1, <1>2
  <2> QED
    BY <1>1, <2>1, WithinOneTurn
<1>3. CASE k < Delay
  <2>1. \A m \in 0 .. k - 1 : k < m + Delay
    BY <1>1, <1>3
  <2>2. Met(k) = {}
    BY <1>2, <2>1 DEF Met
  <2> QED
    BY <1>1, <1>3, <2>2
<1>4. CASE k >= Delay
  <2>1. k - Delay \in 0 .. k - 1 /\ last_insert + (k - Delay) \in Nat
        /\ last_insert + (k - Delay) + Delay = last_insert + k
    BY <1>1, <1>4
  <2>2. k - Delay \in Met(k)
    BY <1>1, <2>1, OneTurn DEF Met
  <2>3. ASSUME NEW m \in Met(k) PROVE m <= k - Delay
    <3>1. m \in 0 .. k - 1 /\ (last_insert + m) % Delay = (last_insert + k) % Delay
      BY <2>3 DEF Met
    <3> QED
      BY <1>1, <1>2, <3>1
  <2>4. Met(k) \in SUBSET Nat
    BY DEF Met
  <2>5. Latest(Met(k)) = k - Delay
    BY <2>2, <2>3, <2>4, LatestOf
  <2> QED
    BY <1>1, <1>4, <2>2, <2>5
<1> QED
  BY <1>1, <1>3, <1>4

\* A function on 1 .. n is a sequence of that length.
LEMMA SeqOfFunction ==
  ASSUME NEW S, NEW n \in Nat, NEW f \in [1 .. n -> S]
  PROVE  f \in Seq(S) /\ Len(f) = n
OBVIOUS

\* The content of the ring, oldest first, is a sequence of units.
LEMMA RingIsSeq ==
  ASSUME delay_buf \in [0 .. Delay - 1 -> Unit], last_insert \in Nat
  PROVE  /\ Ring \in Seq(Unit) /\ Len(Ring) = Delay
         /\ \A i \in 1 .. Delay : Ring[i] = delay_buf[(last_insert + i - 1) % Delay]
<1>1. ASSUME NEW i \in 1 .. Delay
      PROVE  delay_buf[(last_insert + i - 1) % Delay] \in Unit
  BY DelayAssumption
<1>2. Ring \in [1 .. Delay -> Unit]
  BY <1>1 DEF Ring
<1>3. \A i \in 1 .. Delay : Ring[i] = delay_buf[(last_insert + i - 1) % Delay]
  BY DEF Ring
<1> HIDE DEF Ring
<1> QED
  BY <1>2, <1>3, SeqOfFunction, DelayAssumption

\* What comes out of the ring and what is in it afterwards is what was in it
\* and what came in.
LEMMA DelayedWhole ==
  ASSUME delay_buf \in [0 .. Delay - 1 -> Unit], last_insert \in {0} \cup 0 .. Delay - 1,
         NEW f \in Seq(Unit), DelaySignal(f)
  PROVE  /\ capture' \in Seq(Unit) /\ Len(capture') = Len(f)
         /\ delay_buf' \in [0 .. Delay - 1 -> Unit]
         /\ last_insert' \in {0} \cup 0 .. Delay - 1
         /\ capture' \o Ring' = Ring \o f
<1> DEFINE n == Len(f)
           w == Ring \o f
<1>0. last_insert \in Nat /\ n \in Nat /\ Delay \in Nat
  BY DelayAssumption
<1>1. /\ Ring \in Seq(Unit) /\ Len(Ring) = Delay
      /\ \A i \in 1 .. Delay : Ring[i] = delay_buf[(last_insert + i - 1) % Delay]
  BY <1>0, RingIsSeq
<1>2. /\ w \in Seq(Unit) /\ Len(w) = Delay + n
      /\ \A i \in 1 .. Delay : w[i] = Ring[i]
      /\ \A i \in Delay + 1 .. Delay + n : w[i] = f[i - Delay]
  <2>1. /\ w \in Seq(Unit) /\ Len(w) = Delay + n
        /\ \A i \in 1 .. Delay + n : w[i] = IF i <= Delay THEN Ring[i] ELSE f[i - Delay]
    BY <1>1, ConcatProperties
  <2> HIDE DEF w, n
  <2> QED
    BY <1>0, <2>1
<1>f. f \in Seq(Unit) /\ Len(f) = n /\ DOMAIN f = 1 .. n /\ w = Ring \o f
  OBVIOUS
<1> HIDE DEF w, n
<1>3. CASE Delay = 0
  <2>1. capture' = f /\ delay_buf' = delay_buf /\ last_insert' = last_insert
    BY <1>3 DEF DelaySignal
  <2>2. Ring' = Ring
    BY <2>1 DEF Ring
  <2>3. Ring = <<>>
    BY <1>1, <1>3
  <2> QED
    BY <1>f, <2>1, <2>2, <2>3, ConcatEmptySeq
<1>4. CASE Delay > 0
  <2> USE <1>4
  <2>1. /\ capture' = Delayed(f) /\ delay_buf' = RingAfter(f)
        /\ last_insert' = (last_insert + n) % Delay
    BY <1>0, <1>f DEF DelaySignal
  <2>2. last_insert' \in 0 .. Delay - 1
    BY <1>0, <2>1
  <2>3. ASSUME NEW i \in 1 .. n PROVE Delayed(f)[i] = w[i]
    <3>1. i \in DOMAIN f
      BY <1>f
    <3>2. Delayed(f)[i] = IF Met(i - 1) = {} THEN delay_buf[(last_insert + i - 1) % Delay]
                                             ELSE f[Latest(Met(i - 1)) + 1]
      BY <3>1 DEF Delayed
    <3>3. CASE i <= Delay
      <4>1. Met(i - 1) = {}
        BY <1>0, <3>3, MetOneTurnAgo
      <4> QED
        BY <1>0, <1>1, <1>2, <3>2, <3>3, <4>1
    <3>4. CASE i > Delay
      <4>1. Met(i - 1) # {} /\ Latest(Met(i - 1)) = i - 1 - Delay
        BY <1>0, <3>4, MetOneTurnAgo
      <4>2. Delayed(f)[i] = f[i - Delay]
        BY <1>0, <3>2, <3>4, <4>1
      <4>3. i \in Delay + 1 .. Delay + n
        BY <1>0, <3>4
      <4> QED
        BY <1>2, <4>2, <4>3
    <3> QED
      BY <1>0, <3>3, <3>4
  <2>4. Delayed(f) \in [1 .. n -> Unit]
    <3>1. DOMAIN Delayed(f) = 1 .. n /\ Delayed(f) = [i \in 1 .. n |-> Delayed(f)[i]]
      BY <1>f DEF Delayed
    <3>2. \A i \in 1 .. n : w[i] \in Unit
      BY <1>0, <1>2
    <3> QED
      BY <2>3, <3>1, <3>2
  <2>5. ASSUME NEW i \in 1 .. Delay
        PROVE  LET j == (last_insert' + (i - 1)) % Delay
               IN  j \in DOMAIN delay_buf /\ RingAfter(f)[j] = w[n + i]
    <3> DEFINE j == (last_insert' + (i - 1)) % Delay
               x == n + (i - 1)
               here == {k \in 0 .. n - 1 : (last_insert + k) % Delay = j}
    <3>1. j = (last_insert + x) % Delay
      <4>1. last_insert + n \in Nat /\ i - 1 \in Nat /\ Delay \in Nat \ {0}
        BY <1>0
      <4>2. (((last_insert + n) % Delay) + (i - 1)) % Delay
              = ((last_insert + n) + (i - 1)) % Delay
        BY <4>1, PartFirst
      <4>3. (last_insert + n) + (i - 1) = last_insert + x
        BY <1>0
      <4> QED
        BY <2>1, <4>2, <4>3
    <3>2. j \in 0 .. Delay - 1
      BY <1>0, <3>1
    <3>3. RingAfter(f)[j] = IF here = {} THEN delay_buf[j] ELSE f[Latest(here) + 1]
      BY <1>f, <3>2 DEF RingAfter
    <3>4. ASSUME NEW k \in 0 .. n - 1, x < k + Delay
          PROVE  (last_insert + k) % Delay # (last_insert + x) % Delay
      <4>1. /\ last_insert + k \in Nat /\ last_insert + x \in Nat
            /\ last_insert + k < last_insert + x
            /\ last_insert + x < last_insert + k + Delay
            /\ Delay \in Nat \ {0}
        BY <1>0, <3>4
      <4> QED
        BY <4>1, WithinOneTurn
    <3>5. CASE x < Delay
      <4>1. \A k \in 0 .. n - 1 : x < k + Delay
        BY <1>0, <3>5
      <4>2. here = {}
        BY <3>1, <3>4, <4>1
      <4>3. n + i \in 1 .. Delay /\ last_insert + (n + i) - 1 = last_insert + x
        BY <1>0, <3>5
      <4>4. w[n + i] = delay_buf[(last_insert + (n + i) - 1) % Delay]
        BY <1>1, <1>2, <4>3
      <4> QED
        BY <3>1, <3>2, <3>3, <4>2, <4>3, <4>4
    <3>6. CASE x >= Delay
      <4>1. /\ x - Delay \in 0 .. n - 1 /\ last_insert + (x - Delay) \in Nat
            /\ last_insert + (x - Delay) + Delay = last_insert + x
            /\ Delay \in Nat \ {0}
        BY <1>0, <3>6
      <4>2. (last_insert + (x - Delay)) % Delay = (last_insert + x) % Delay
        BY <4>1, OneTurn
      <4>3. x - Delay \in here
        BY <3>1, <4>1, <4>2
      <4>4. ASSUME NEW k \in here PROVE k <= x - Delay
        <5>1. k \in 0 .. n - 1 /\ (last_insert + k) % Delay = (last_insert + x) % Delay
          BY <3>1, <4>4
        <5> QED
          BY <1>0, <3>4, <5>1
      <4>5. here \in SUBSET Nat
        OBVIOUS
      <4>6. Latest(here) = x - Delay
        <5> HIDE DEF here, x
        <5> QED
          BY <4>3, <4>4, <4>5, LatestOf
      <4>7. RingAfter(f)[j] = f[x - Delay + 1]
        BY <3>3, <4>3, <4>6
      <4>8. n + i \in Delay + 1 .. Delay + n /\ (n + i) - Delay = x - Delay + 1
        BY <1>0, <3>6
      <4> QED
        BY <1>2, <3>2, <4>7, <4>8
    <3> QED
      BY <1>0, <3>5, <3>6
  <2>6. RingAfter(f) \in [0 .. Delay - 1 -> Unit]
    <3>1. ASSUME NEW j \in 0 .. Delay - 1 PROVE RingAfter(f)[j] \in Unit
      <4>1. \A x \in 0 .. Delay - 1 : x % Delay = x
        BY <1>0
      <4>2. PICK i \in 1 .. Delay : (last_insert' + (i - 1)) % Delay = j
        <5>1. CASE j >= last_insert'
          <6>1. /\ j - last_insert' + 1 \in 1 .. Delay
                /\ last_insert' + ((j - last_insert' + 1) - 1) = j
            BY <1>0, <2>2, <5>1
          <6> QED
            BY <4>1, <6>1
        <5>2. CASE j < last_insert'
          <6>1. /\ j - last_insert' + Delay + 1 \in 1 .. Delay
                /\ last_insert' + ((j - last_insert' + Delay + 1) - 1) = j + Delay
            BY <1>0, <2>2, <5>2
          <6>2. j \in Nat /\ Delay \in Nat \ {0}
            BY <1>0
          <6>3. (j + Delay) % Delay = j
            BY <4>1, <6>2, OneTurn
          <6> QED
            BY <6>1, <6>3
        <5> QED
          BY <1>0, <2>2, <5>1, <5>2
      <4>3. RingAfter(f)[j] = w[n + i]
        BY <2>5, <4>2
      <4>4. n + i \in 1 .. Len(w)
        BY <1>0, <1>2
      <4> QED
        BY <1>2, <4>3, <4>4, ElementOfSeq
    <3>2. RingAfter(f) = [j \in 0 .. Delay - 1 |-> RingAfter(f)[j]]
      BY DEF RingAfter
    <3> QED
      BY <3>1, <3>2
  <2>7. /\ Ring' \in Seq(Unit) /\ Len(Ring') = Delay
        /\ \A i \in 1 .. Delay : Ring'[i] = w[n + i]
    <3>1. ASSUME NEW i \in 1 .. Delay
          PROVE  delay_buf'[(last_insert' + i - 1) % Delay] = w[n + i]
      <4>1. last_insert' + i - 1 = last_insert' + (i - 1)
        BY <1>0, <2>2
      <4> QED
        BY <2>1, <2>5, <4>1
    <3>2. \A i \in 1 .. Delay : Ring'[i] = w[n + i]
      BY <3>1 DEF Ring
    <3>3. \A i \in 1 .. Delay : w[n + i] \in Unit
      BY <1>0, <1>2
    <3>4. Ring' = [i \in 1 .. Delay |-> Ring'[i]]
      BY DEF Ring
    <3>5. Ring' \in [1 .. Delay -> Unit]
      BY <3>2, <3>3, <3>4
    <3> QED
      BY <1>0, <3>2, <3>5, SeqOfFunction
  <2>8. capture' \in Seq(Unit) /\ Len(capture') = n
    BY <1>0, <2>1, <2>4, SeqOfFunction
  <2>9. capture' \o Ring' = w
    <3> DEFINE both == capture' \o Ring'
    <3>1. /\ both \in Seq(Unit) /\ Len(both) = n + Delay
          /\ \A i \in 1 .. n + Delay :
               both[i] = IF i <= n THEN capture'[i] ELSE Ring'[i - n]
      <4>1. /\ both \in Seq(Unit) /\ Len(both) = Len(capture') + Len(Ring')
            /\ \A i \in 1 .. Len(capture') + Len(Ring') :
                 both[i] = IF i <= Len(capture') THEN capture'[i]
                           ELSE Ring'[i - Len(capture')]
        <5> HIDE DEF n, w
        <5>1. capture' \in Seq(Unit) /\ Ring' \in Seq(Unit)
          BY <2>7, <2>8
        <5> QED
          BY <5>1, ConcatProperties, Zenon
      <4>2. Len(capture') = n /\ Len(Ring') = Delay
        BY <2>7, <2>8
      <4> HIDE DEF both, n, w
      <4> QED
        BY <4>1, <4>2, Zenon
    <3> HIDE DEF both
    <3>2. ASSUME NEW i \in 1 .. n + Delay PROVE both[i] = w[i]
      <4>0. both[i] = IF i <= n THEN capture'[i] ELSE Ring'[i - n]
        BY <3>1, Zenon
      <4>1. CASE i <= n
        <5>1. i \in 1 .. n
          BY <1>0, <4>1
        <5>2. both[i] = capture'[i]
          BY <4>0, <4>1, Zenon
        <5>3. capture'[i] = Delayed(f)[i]
          BY <2>1, Zenon
        <5>4. Delayed(f)[i] = w[i]
          BY <2>3, <5>1, Zenon
        <5> QED
          BY <5>2, <5>3, <5>4, Zenon
      <4>2. CASE ~ (i <= n)
        <5>1. i - n \in 1 .. Delay /\ n + (i - n) = i
          BY <1>0, <4>2
        <5>2. Ring'[i - n] = w[i]
          BY <2>7, <5>1
        <5> QED
          BY <4>0, <4>2, <5>2, Zenon
      <4> QED
        BY <4>1, <4>2
    <3> HIDE DEF w, n
    <3>3. \A i \in 1 .. Len(both) : both[i] = w[i]
      BY <3>1, <3>2
    <3>4. Len(both) = Len(w)
      BY <1>0, <1>2, <3>1
    <3>5. both = w
      BY <1>2, <3>1, <3>3, <3>4, SeqEqual
    <3> QED
      BY <3>5 DEF both
  <2> QED
    BY <1>f, <2>1, <2>2, <2>6, <2>8, <2>9
<1>5. Delay = 0 \/ Delay > 0
  BY <1>0
<1> QED
  BY <1>3, <1>4, <1>5

-----------------------------------------------------------------------------
(* Concatenation, first part and rest, under names that the provers do not *)
(* unfold.                                                                 *)
Cat(s, t) == s \o t
First(s, k) == SubSeq(s, 1, k)
Rest(s, k) == SubSeq(s, k + 1, Len(s))

\* Lengths add up.
LEMMA CatSeq ==
  ASSUME NEW S, NEW s \in Seq(S), NEW t \in Seq(S)
  PROVE  Cat(s, t) \in Seq(S) /\ Len(Cat(s, t)) = Len(s) + Len(t)
BY ConcatProperties DEF Cat

LEMMA CatAssociative ==
  ASSUME NEW S, NEW s \in Seq(S), NEW t \in Seq(S), NEW u \in Seq(S)
  PROVE  Cat(Cat(s, t), u) = Cat(s, Cat(t, u))
BY ConcatAssociative DEF Cat

LEMMA CatEmpty ==
  ASSUME NEW S, NEW s \in Seq(S)
  PROVE  Cat(s, <<>>) = s /\ Cat(<<>>, s) = s
BY ConcatEmptySeq DEF Cat

\* A part within a sequence is one, as long as its indices say.
LEMMA Part ==
  ASSUME NEW S, NEW s \in Seq(S), NEW m \in 1 .. Len(s) + 1, NEW n \in m - 1 .. Len(s)
  PROVE  SubSeq(s, m, n) \in Seq(S) /\ Len(SubSeq(s, m, n)) = n - m + 1
<1>1. \A i \in m .. n : s[i] \in S
  OBVIOUS
<1> QED
  BY <1>1, SubSeqProperties

\* A sequence is its first k units and the others.
LEMMA TwoParts ==
  ASSUME NEW S, NEW s \in Seq(S), NEW k \in 0 .. Len(s)
  PROVE  /\ First(s, k) \in Seq(S) /\ Len(First(s, k)) = k
         /\ Rest(s, k) \in Seq(S) /\ Len(Rest(s, k)) = Len(s) - k
         /\ Cat(First(s, k), Rest(s, k)) = s
<1>1. SubSeq(s, 1, k) \in Seq(S) /\ Len(SubSeq(s, 1, k)) = k
  BY Part
<1>2. SubSeq(s, k + 1, Len(s)) \in Seq(S) /\ Len(SubSeq(s, k + 1, Len(s))) = Len(s) - k
  BY Part
<1>3. SubSeq(s, 1, k) \o SubSeq(s, k + 1, Len(s)) = SubSeq(s, 1, Len(s))
  <2>1. /\ 1 \in 1 .. Len(s) + 1 /\ k \in 1 - 1 .. Len(s)
        /\ Len(s) \in k .. Len(s)
    OBVIOUS
  <2> QED
    BY <2>1, ConcatAdjacentSubSeq
<1> QED
  BY <1>1, <1>2, <1>3, SubSeqFull DEF Cat, First, Rest

\* Where the units of the two parts come from.
LEMMA UnitOfPart ==
  ASSUME NEW S, NEW s \in Seq(S), NEW k \in 0 .. Len(s)
  PROVE  /\ \A i \in 1 .. k : First(s, k)[i] = s[i]
         /\ \A i \in 1 .. Len(s) - k : Rest(s, k)[i] = s[k + i]
BY DEF First, Rest

\* Two sequences joined come apart again.
LEMMA PartsOfCat ==
  ASSUME NEW S, NEW s \in Seq(S), NEW t \in Seq(S)
  PROVE  First(Cat(s, t), Len(s)) = s /\ Rest(Cat(s, t), Len(s)) = t
<1>1. /\ Cat(s, t) \in Seq(S) /\ Len(Cat(s, t)) = Len(s) + Len(t)
      /\ \A i \in 1 .. Len(s) + Len(t) :
           Cat(s, t)[i] = IF i <= Len(s) THEN s[i] ELSE t[i - Len(s)]
  BY ConcatProperties DEF Cat
<1>2. Len(s) \in 0 .. Len(Cat(s, t))
  BY <1>1
<1>3. First(Cat(s, t), Len(s)) = s
  <2>1. First(Cat(s, t), Len(s)) \in Seq(S) /\ Len(First(Cat(s, t), Len(s))) = Len(s)
    BY <1>1, <1>2, TwoParts
  <2>2. \A i \in 1 .. Len(s) : First(Cat(s, t), Len(s))[i] = s[i]
    <3>1. \A i \in 1 .. Len(s) : First(Cat(s, t), Len(s))[i] = Cat(s, t)[i]
      BY <1>1, <1>2, UnitOfPart
    <3> QED
      BY <1>1, <3>1
  <2> QED
    BY <2>1, <2>2, SeqEqual
<1>4. Rest(Cat(s, t), Len(s)) = t
  <2>1. Len(Cat(s, t)) - Len(s) = Len(t)
    BY <1>1
  <2>2. Rest(Cat(s, t), Len(s)) \in Seq(S) /\ Len(Rest(Cat(s, t), Len(s))) = Len(t)
    BY <1>1, <1>2, <2>1, TwoParts
  <2>3. ASSUME NEW i \in 1 .. Len(t) PROVE Rest(Cat(s, t), Len(s))[i] = t[i]
    <3>1. Rest(Cat(s, t), Len(s))[i] = Cat(s, t)[Len(s) + i]
      BY <1>1, <1>2, <2>1, UnitOfPart
    <3>2. /\ Len(s) + i \in 1 .. Len(s) + Len(t) /\ ~(Len(s) + i <= Len(s))
          /\ (Len(s) + i) - Len(s) = i
      OBVIOUS
    <3> QED
      BY <1>1, <3>1, <3>2
  <2> QED
    BY <2>2, <2>3, SeqEqual
<1> QED
  BY <1>3, <1>4

(* The framing: nothing is lost where blocks are cut and joined. *)

\* A sub-frame into the blocker: a whole block comes out, one unit more stays.
LEMMA Cut ==
  ASSUME NEW S, NEW buffer \in Seq(S), NEW sub \in Seq(S),
         Len(buffer) <= 3, Len(sub) = 5
  PROVE  LET cut == InsertSubFrameAndExtractBlock(buffer, sub)
         IN  /\ cut.block \in Seq(S) /\ Len(cut.block) = 4
             /\ cut.buffer \in Seq(S) /\ Len(cut.buffer) = Len(buffer) + 1
             /\ Cat(cut.block, cut.buffer) = Cat(buffer, sub)
<1> DEFINE k == 4 - Len(buffer)
           head == First(sub, k)
           rest == Rest(sub, k)
<1>1. k \in 0 .. Len(sub) /\ Len(buffer) \in Nat /\ k = 4 - Len(buffer)
  OBVIOUS
<1>2. InsertSubFrameAndExtractBlock(buffer, sub)
        = [block |-> Cat(buffer, head), buffer |-> rest]
  BY DEF InsertSubFrameAndExtractBlock, kBlockSize, Cat, First, Rest
<1> HIDE DEF k
<1>3. /\ head \in Seq(S) /\ Len(head) = k
      /\ rest \in Seq(S) /\ Len(rest) = 5 - k
      /\ Cat(head, rest) = sub
  <2>1. /\ head \in Seq(S) /\ Len(head) = k
        /\ rest \in Seq(S) /\ Len(rest) = Len(sub) - k
        /\ Cat(head, rest) = sub
    BY <1>1, TwoParts, Zenon
  <2> QED
    BY <2>1
<1> HIDE DEF head, rest
<1>4. /\ Cat(buffer, head) \in Seq(S)
      /\ Len(Cat(buffer, head)) = Len(buffer) + Len(head)
  BY <1>3, CatSeq
<1>5. Cat(Cat(buffer, head), rest) = Cat(buffer, sub)
  BY <1>3, CatAssociative
<1>6. Len(buffer) + Len(head) = 4 /\ Len(rest) = Len(buffer) + 1
  BY <1>1, <1>3
<1>7. /\ InsertSubFrameAndExtractBlock(buffer, sub).block = Cat(buffer, head)
      /\ InsertSubFrameAndExtractBlock(buffer, sub).buffer = rest
  BY <1>2
<1> QED
  BY <1>3, <1>4, <1>5, <1>6, <1>7, Zenon

\* A block into the framer: a whole sub-frame comes out, one unit less stays.
LEMMA Framed ==
  ASSUME NEW S, NEW buffer \in Seq(S), NEW block \in Seq(S),
         Len(buffer) >= 1, Len(buffer) <= 4, Len(block) = 4
  PROVE  LET framed == InsertBlockAndExtractSubFrame(buffer, block)
         IN  /\ framed.sub \in Seq(S) /\ Len(framed.sub) = 5
             /\ framed.buffer \in Seq(S) /\ Len(framed.buffer) = Len(buffer) - 1
             /\ Cat(framed.sub, framed.buffer) = Cat(buffer, block)
<1> DEFINE k == 5 - Len(buffer)
           head == First(block, k)
           rest == Rest(block, k)
<1>1. k \in 0 .. Len(block) /\ Len(buffer) \in Nat /\ k = 5 - Len(buffer)
  OBVIOUS
<1>2. InsertBlockAndExtractSubFrame(buffer, block)
        = [sub |-> Cat(buffer, head), buffer |-> rest]
  BY DEF InsertBlockAndExtractSubFrame, kBlockSize, kSubFrameLength, Cat, First, Rest
<1> HIDE DEF k
<1>3. /\ head \in Seq(S) /\ Len(head) = k
      /\ rest \in Seq(S) /\ Len(rest) = 4 - k
      /\ Cat(head, rest) = block
  <2>1. /\ head \in Seq(S) /\ Len(head) = k
        /\ rest \in Seq(S) /\ Len(rest) = Len(block) - k
        /\ Cat(head, rest) = block
    BY <1>1, TwoParts, Zenon
  <2> QED
    BY <2>1
<1> HIDE DEF head, rest
<1>4. /\ Cat(buffer, head) \in Seq(S)
      /\ Len(Cat(buffer, head)) = Len(buffer) + Len(head)
  BY <1>3, CatSeq
<1>5. Cat(Cat(buffer, head), rest) = Cat(buffer, block)
  BY <1>3, CatAssociative
<1>6. Len(buffer) + Len(head) = 5 /\ Len(rest) = Len(buffer) - 1
  BY <1>1, <1>3
<1>7. /\ InsertBlockAndExtractSubFrame(buffer, block).sub = Cat(buffer, head)
      /\ InsertBlockAndExtractSubFrame(buffer, block).buffer = rest
  BY <1>2
<1> QED
  BY <1>3, <1>4, <1>5, <1>6, <1>7, Zenon

\* One sub-frame through blocker and framer: what they hold between them and
\* what comes in is what comes out and what they hold then.
Turned(framer, blocker, sub) ==
  LET cut    == InsertSubFrameAndExtractBlock(blocker, sub)
      framed == InsertBlockAndExtractSubFrame(framer, cut.block)
  IN  /\ framed.sub \in Seq(Unit) /\ Len(framed.sub) = 5
      /\ framed.buffer \in Seq(Unit) /\ Len(framed.buffer) = 3 - Len(blocker)
      /\ cut.buffer \in Seq(Unit) /\ Len(cut.buffer) = Len(blocker) + 1
      /\ Cat(framed.sub, Cat(framed.buffer, cut.buffer))
           = Cat(Cat(framer, blocker), sub)

LEMMA Turn ==
  ASSUME NEW framer \in Seq(Unit), NEW blocker \in Seq(Unit), NEW sub \in Seq(Unit),
         Len(blocker) <= 3, Len(framer) = 4 - Len(blocker), Len(sub) = 5
  PROVE  Turned(framer, blocker, sub)
<1> DEFINE cut    == InsertSubFrameAndExtractBlock(blocker, sub)
           framed == InsertBlockAndExtractSubFrame(framer, cut.block)
<1>1. /\ cut.block \in Seq(Unit) /\ Len(cut.block) = 4
      /\ cut.buffer \in Seq(Unit) /\ Len(cut.buffer) = Len(blocker) + 1
      /\ Cat(cut.block, cut.buffer) = Cat(blocker, sub)
  BY Cut
<1>2. Len(framer) >= 1 /\ Len(framer) <= 4 /\ Len(framer) - 1 = 3 - Len(blocker)
  OBVIOUS
<1>3. /\ framed.sub \in Seq(Unit) /\ Len(framed.sub) = 5
      /\ framed.buffer \in Seq(Unit) /\ Len(framed.buffer) = Len(framer) - 1
      /\ Cat(framed.sub, framed.buffer) = Cat(framer, cut.block)
  <2> HIDE DEF cut
  <2> QED
    BY <1>1, <1>2, Framed
<1> HIDE DEF cut, framed
<1>4. Cat(framed.sub, Cat(framed.buffer, cut.buffer)) = Cat(Cat(framer, blocker), sub)
  <2>1. Cat(framed.sub, Cat(framed.buffer, cut.buffer))
          = Cat(Cat(framed.sub, framed.buffer), cut.buffer)
    BY <1>1, <1>3, CatAssociative
  <2>2. Cat(Cat(framer, cut.block), cut.buffer) = Cat(framer, Cat(cut.block, cut.buffer))
    BY <1>1, CatAssociative
  <2>3. Cat(framer, Cat(blocker, sub)) = Cat(Cat(framer, blocker), sub)
    BY CatAssociative
  <2> QED
    BY <1>1, <1>3, <2>1, <2>2, <2>3
<1> QED
  BY <1>1, <1>2, <1>3, <1>4 DEF cut, framed, Turned

\* The last block is taken only if it is whole.
LEMMA Remaining ==
  ASSUME NEW S, NEW buffer \in Seq(S)
  PROVE  LET remaining == ExtractBlock(buffer)
         IN  /\ remaining.block \in Seq(S) /\ remaining.buffer \in Seq(S)
             /\ Len(buffer) = 4 => remaining.block = buffer /\ remaining.buffer = <<>>
             /\ Len(buffer) # 4 => remaining.block = <<>> /\ remaining.buffer = buffer
<1>1. <<>> \in Seq(S)
  OBVIOUS
<1>2. CASE Len(buffer) = 4
  <2>1. ExtractBlock(buffer) = [block |-> buffer, buffer |-> <<>>]
    BY <1>2 DEF ExtractBlock, kBlockSize
  <2> QED
    BY <1>1, <1>2, <2>1
<1>3. CASE Len(buffer) # 4
  <2>1. ExtractBlock(buffer) = [block |-> <<>>, buffer |-> buffer]
    BY <1>3 DEF ExtractBlock, kBlockSize
  <2> QED
    BY <1>1, <1>3, <2>1
<1> QED
  BY <1>2, <1>3

\* What becomes of what framer and blocker hold when a last block is looked for.
Settles(framer, blocker, remaining) ==
  /\ Cat(remaining.block, framer) \in Seq(Unit) /\ remaining.buffer \in Seq(Unit)
  /\ Cat(Cat(remaining.block, framer), remaining.buffer) = Cat(framer, blocker)
  /\ Len(Cat(remaining.block, framer)) = 4 - Len(remaining.buffer)
  /\ Len(blocker) = 4 => Len(remaining.buffer) = 0
  /\ Len(blocker) # 4 => Len(remaining.buffer) = Len(blocker)

\* Where a whole block is left with the blocker, the framer has nothing left,
\* and the block goes there.
LEMMA Settled ==
  ASSUME NEW framer \in Seq(Unit), NEW blocker \in Seq(Unit),
         Len(framer) = 4 - Len(blocker)
  PROVE  Settles(framer, blocker, ExtractBlock(blocker))
<1> DEFINE remaining == ExtractBlock(blocker)
<1>1. Len(<<>>) = 0
  OBVIOUS
<1>2. CASE Len(blocker) = 4
  <2>1. remaining.block = blocker /\ remaining.buffer = <<>>
    BY <1>2, Remaining
  <2>2. framer = <<>>
    <3>1. Len(framer) = 0
      BY <1>2
    <3> QED
      BY <3>1, EmptySeq
  <2>3. /\ <<>> \in Seq(Unit) /\ Cat(blocker, <<>>) = blocker /\ Cat(<<>>, blocker) = blocker
    BY CatEmpty
  <2> QED
    BY <1>1, <1>2, <2>1, <2>2, <2>3 DEF Settles
<1>3. CASE Len(blocker) # 4
  <2>1. remaining.block = <<>> /\ remaining.buffer = blocker
    BY <1>3, Remaining
  <2>2. Cat(<<>>, framer) = framer
    BY CatEmpty
  <2> HIDE DEF remaining
  <2> QED
    BY <1>3, <2>1, <2>2 DEF Settles, remaining
<1> QED
  BY <1>2, <1>3

\* A frame is its one sub-frame, or its two in order.
LEMMA SubFrames ==
  ASSUME NEW S, NEW frame \in Seq(S)
  PROVE  /\ Len(frame) = 5 => SubFrame(frame, 0) = frame
         /\ Len(frame) = 10 =>
              /\ SubFrame(frame, 0) \in Seq(S) /\ Len(SubFrame(frame, 0)) = 5
              /\ SubFrame(frame, 1) \in Seq(S) /\ Len(SubFrame(frame, 1)) = 5
              /\ Cat(SubFrame(frame, 0), SubFrame(frame, 1)) = frame
<1>1. CASE Len(frame) = 5
  BY <1>1, SubSeqFull DEF SubFrame, kSubFrameLength
<1>2. CASE Len(frame) = 10
  <2>1. SubFrame(frame, 0) = First(frame, 5) /\ SubFrame(frame, 1) = Rest(frame, 5)
    BY <1>2 DEF SubFrame, kSubFrameLength, First, Rest
  <2>2. 5 \in 0 .. Len(frame)
    BY <1>2
  <2>3. /\ First(frame, 5) \in Seq(S) /\ Len(First(frame, 5)) = 5
        /\ Rest(frame, 5) \in Seq(S) /\ Len(Rest(frame, 5)) = Len(frame) - 5
        /\ Cat(First(frame, 5), Rest(frame, 5)) = frame
    BY <2>2, TwoParts
  <2> QED
    BY <1>2, <2>1, <2>3
<1> QED
  BY <1>1, <1>2

-----------------------------------------------------------------------------
(* The invariant *)

\* What is in a blocker between two frames.
Half(buffer) ==
  /\ buffer \in Seq(Unit)
  /\ Len(buffer) <= 3
  /\ sub_frames = 2 => Len(buffer) = 0 \/ Len(buffer) = 2

Typed ==
  /\ sub_frames \in SubFrameCounts
  /\ render_transfer_queue \in Seq(Label) /\ Len(render_transfer_queue) <= QueueSize
  /\ render_queue_output_frame \in Label \cup {Quiet}
  /\ output_framer \in Seq(Unit) /\ capture \in Seq(Unit) /\ rendered \in Seq(Unit)
  /\ delay_buf \in [0 .. Delay - 1 -> Unit]
  /\ last_insert \in {0} \cup 0 .. Delay - 1
  /\ processing \in BOOLEAN

Inv ==
  /\ Typed
  /\ Half(render_blocker) /\ Half(capture_blocker)
  /\ Len(output_framer) = 4 - Len(capture_blocker)
  /\ Len(capture) = 0 \/ Len(capture) = FrameLength
  /\ processing => Len(capture) = FrameLength

\* Frames have one sub-frame or two.
LEMMA FrameLengths ==
  ASSUME sub_frames \in SubFrameCounts
  PROVE  /\ sub_frames = 1 \/ sub_frames = 2
         /\ sub_frames = 1 => FrameLength = 5
         /\ sub_frames = 2 => FrameLength = 10
BY SubFrameAssumption DEF FrameLength, kSubFrameLength

\* A captured frame: what framer and blocker held and the frame are what comes
\* out and what they hold now.
LEMMA CaptureWhole ==
  ASSUME Inv, EndProcessCapture
  PROVE  /\ capture' \in Seq(Unit) /\ Len(capture') = FrameLength
         /\ output_framer' \in Seq(Unit)
         /\ Half(capture_blocker)'
         /\ Len(output_framer') = 4 - Len(capture_blocker')
         /\ Cat(capture', Cat(output_framer', capture_blocker'))
              = Cat(Cat(output_framer, capture_blocker), capture)
<1> DEFINE block1 == InsertSubFrameAndExtractBlock(capture_blocker, SubFrame(capture, 0))
           frame1 == InsertBlockAndExtractSubFrame(output_framer, block1.block)
           block2 == InsertSubFrameAndExtractBlock(block1.buffer, SubFrame(capture, 1))
           frame2 == InsertBlockAndExtractSubFrame(frame1.buffer, block2.block)
<1>1. /\ capture \in Seq(Unit) /\ Len(capture) = FrameLength
      /\ output_framer \in Seq(Unit) /\ capture_blocker \in Seq(Unit)
      /\ Len(capture_blocker) <= 3 /\ Len(output_framer) = 4 - Len(capture_blocker)
      /\ sub_frames' = sub_frames /\ sub_frames \in SubFrameCounts
      /\ sub_frames = 2 => Len(capture_blocker) = 0 \/ Len(capture_blocker) = 2
  BY DEF Inv, Typed, Half, EndProcessCapture
<1> DEFINE last_blocker == IF sub_frames = 1 THEN block1.buffer ELSE block2.buffer
           last_framer == IF sub_frames = 1 THEN frame1.buffer ELSE frame2.buffer
<1>ends. /\ capture' = Joined(frame1, frame2)
      /\ capture_blocker' = ExtractBlock(last_blocker).buffer
      /\ output_framer' = ExtractBlock(last_blocker).block \o last_framer
  BY Zenon DEF EndProcessCapture
<1>2. CASE sub_frames = 1
  <2>1. SubFrame(capture, 0) = capture /\ Len(capture) = 5
    BY <1>1, <1>2, FrameLengths, SubFrames
  <2>2. /\ frame1.sub \in Seq(Unit) /\ Len(frame1.sub) = 5
        /\ frame1.buffer \in Seq(Unit) /\ Len(frame1.buffer) = 3 - Len(capture_blocker)
        /\ block1.buffer \in Seq(Unit) /\ Len(block1.buffer) = Len(capture_blocker) + 1
        /\ Cat(frame1.sub, Cat(frame1.buffer, block1.buffer))
             = Cat(Cat(output_framer, capture_blocker), capture)
    <3>1. Turned(output_framer, capture_blocker, capture)
      BY <1>1, <2>1, Turn
    <3> QED
      BY <2>1, <3>1, Zenon DEF Turned
  <2> DEFINE remaining == ExtractBlock(block1.buffer)
  <2>3. /\ capture' = frame1.sub /\ capture_blocker' = remaining.buffer
        /\ output_framer' = Cat(remaining.block, frame1.buffer)
    <3> HIDE DEF block1, frame1, block2, frame2
    <3>1. last_blocker = block1.buffer /\ last_framer = frame1.buffer
      BY <1>2
    <3> QED
      BY <1>2, <1>ends, <3>1, Zenon DEF Joined, Cat
  <2> HIDE DEF block1, frame1
  <2>4. Len(frame1.buffer) = 4 - Len(block1.buffer)
    BY <1>1, <2>2
  <2>5. /\ Cat(remaining.block, frame1.buffer) \in Seq(Unit)
        /\ remaining.buffer \in Seq(Unit)
        /\ Cat(Cat(remaining.block, frame1.buffer), remaining.buffer)
             = Cat(frame1.buffer, block1.buffer)
        /\ Len(Cat(remaining.block, frame1.buffer)) = 4 - Len(remaining.buffer)
        /\ Len(block1.buffer) = 4 => Len(remaining.buffer) = 0
        /\ Len(block1.buffer) # 4 => Len(remaining.buffer) = Len(block1.buffer)
    <3>1. frame1.buffer \in Seq(Unit) /\ block1.buffer \in Seq(Unit)
      BY <2>2
    <3>2. Settles(frame1.buffer, block1.buffer, remaining)
      BY <2>4, <3>1, Settled
    <3> HIDE DEF remaining
    <3> QED
      BY <3>2 DEF Settles
  <2>6. Len(remaining.buffer) <= 3
    BY <1>1, <2>2, <2>5
  <2> HIDE DEF remaining
  <2>7. Half(capture_blocker)'
    BY <1>1, <1>2, <2>3, <2>5, <2>6 DEF Half
  <2> QED
    BY <1>1, <2>1, <2>2, <2>3, <2>5, <2>7
<1>3. CASE sub_frames = 2
  <2> DEFINE one == SubFrame(capture, 0)
             two == SubFrame(capture, 1)
  <2>1. /\ Len(capture) = 10
        /\ one \in Seq(Unit) /\ Len(one) = 5 /\ two \in Seq(Unit) /\ Len(two) = 5
        /\ Cat(one, two) = capture
    BY <1>1, <1>3, FrameLengths, SubFrames
  <2> HIDE DEF one, two
  <2>2. /\ frame1.sub \in Seq(Unit) /\ Len(frame1.sub) = 5
        /\ frame1.buffer \in Seq(Unit) /\ Len(frame1.buffer) = 3 - Len(capture_blocker)
        /\ block1.buffer \in Seq(Unit) /\ Len(block1.buffer) = Len(capture_blocker) + 1
        /\ Cat(frame1.sub, Cat(frame1.buffer, block1.buffer))
             = Cat(Cat(output_framer, capture_blocker), one)
    <3>1. Turned(output_framer, capture_blocker, one)
      BY <1>1, <2>1, Turn
    <3> QED
      BY <3>1, Zenon DEF Turned, one
  <2> HIDE DEF block1, frame1
  <2>3. Len(block1.buffer) <= 3 /\ Len(frame1.buffer) = 4 - Len(block1.buffer)
    <3>1. /\ Len(block1.buffer) = Len(capture_blocker) + 1
          /\ Len(frame1.buffer) = 3 - Len(capture_blocker)
      BY <2>2
    <3>2. Len(capture_blocker) = 0 \/ Len(capture_blocker) = 2
      BY <1>1, <1>3
    <3>3. CASE Len(capture_blocker) = 0
      BY <3>1, <3>3
    <3>4. CASE Len(capture_blocker) = 2
      BY <3>1, <3>4
    <3> QED
      BY <3>2, <3>3, <3>4
  <2>4. /\ frame2.sub \in Seq(Unit) /\ Len(frame2.sub) = 5
        /\ frame2.buffer \in Seq(Unit) /\ Len(frame2.buffer) = 3 - Len(block1.buffer)
        /\ block2.buffer \in Seq(Unit) /\ Len(block2.buffer) = Len(block1.buffer) + 1
        /\ Cat(frame2.sub, Cat(frame2.buffer, block2.buffer))
             = Cat(Cat(frame1.buffer, block1.buffer), two)
    <3>1. Turned(frame1.buffer, block1.buffer, two)
      BY <2>1, <2>2, <2>3, Turn
    <3> QED
      BY <3>1, Zenon DEF Turned, two
  <2> DEFINE remaining == ExtractBlock(block2.buffer)
  <2>5. /\ capture' = Cat(frame1.sub, frame2.sub) /\ capture_blocker' = remaining.buffer
        /\ output_framer' = Cat(remaining.block, frame2.buffer)
    <3> HIDE DEF block2, frame2
    <3>1. last_blocker = block2.buffer /\ last_framer = frame2.buffer
      BY <1>3
    <3>2. Joined(frame1, frame2) = Cat(frame1.sub, frame2.sub)
      BY <1>3 DEF Joined, Cat
    <3> QED
      BY <1>ends, <3>1, <3>2, Zenon DEF Cat
  <2> HIDE DEF block2, frame2
  <2>6. Len(frame2.buffer) = 4 - Len(block2.buffer)
    BY <2>2, <2>4
  <2>7. /\ Cat(remaining.block, frame2.buffer) \in Seq(Unit)
        /\ remaining.buffer \in Seq(Unit)
        /\ Cat(Cat(remaining.block, frame2.buffer), remaining.buffer)
             = Cat(frame2.buffer, block2.buffer)
        /\ Len(Cat(remaining.block, frame2.buffer)) = 4 - Len(remaining.buffer)
        /\ Len(block2.buffer) = 4 => Len(remaining.buffer) = 0
        /\ Len(block2.buffer) # 4 => Len(remaining.buffer) = Len(block2.buffer)
    <3>1. frame2.buffer \in Seq(Unit) /\ block2.buffer \in Seq(Unit)
      BY <2>4
    <3>2. Settles(frame2.buffer, block2.buffer, remaining)
      BY <2>6, <3>1, Settled
    <3> HIDE DEF remaining
    <3> QED
      BY <3>2 DEF Settles
  <2>8. Len(remaining.buffer) = 0 \/ Len(remaining.buffer) = 2
    <3>1. /\ Len(block1.buffer) = Len(capture_blocker) + 1
          /\ Len(block2.buffer) = Len(block1.buffer) + 1
          /\ Len(block2.buffer) = 4 => Len(remaining.buffer) = 0
          /\ Len(block2.buffer) # 4 => Len(remaining.buffer) = Len(block2.buffer)
      BY <2>2, <2>4, <2>7
    <3>2. Len(capture_blocker) = 0 \/ Len(capture_blocker) = 2
      BY <1>1, <1>3
    <3> HIDE DEF remaining
    <3>3. CASE Len(capture_blocker) = 0
      BY <3>1, <3>3
    <3>4. CASE Len(capture_blocker) = 2
      BY <3>1, <3>4
    <3> QED
      BY <3>2, <3>3, <3>4
  <2> HIDE DEF remaining
  <2>9. Half(capture_blocker)'
    <3>1. Len(remaining.buffer) <= 3
      <4>1. CASE Len(remaining.buffer) = 0
        BY <4>1
      <4>2. CASE Len(remaining.buffer) = 2
        BY <4>2
      <4> QED
        BY <2>8, <4>1, <4>2
    <3>2. capture_blocker' = remaining.buffer /\ remaining.buffer \in Seq(Unit)
      BY <2>5, <2>7
    <3> QED
      BY <2>8, <3>1, <3>2 DEF Half
  <2>10. capture' \in Seq(Unit) /\ Len(capture') = 10
    <3>1. frame1.sub \in Seq(Unit) /\ frame2.sub \in Seq(Unit)
          /\ Len(frame1.sub) = 5 /\ Len(frame2.sub) = 5
      BY <2>2, <2>4
    <3> QED
      <4>1. /\ Cat(frame1.sub, frame2.sub) \in Seq(Unit)
            /\ Len(Cat(frame1.sub, frame2.sub)) = Len(frame1.sub) + Len(frame2.sub)
        BY <3>1, CatSeq
      <4> QED
        BY <2>5, <3>1, <4>1
  <2>11. Cat(capture', Cat(frame2.buffer, block2.buffer))
           = Cat(Cat(output_framer, capture_blocker), capture)
    <3> DEFINE held == Cat(frame2.buffer, block2.buffer)
               half == Cat(frame1.buffer, block1.buffer)
               before == Cat(output_framer, capture_blocker)
    <3>1. held \in Seq(Unit) /\ half \in Seq(Unit) /\ before \in Seq(Unit)
      BY <1>1, <2>2, <2>4, CatSeq
    <3> HIDE DEF held, half, before
    <3>2. Cat(capture', held) = Cat(frame1.sub, Cat(frame2.sub, held))
      BY <2>2, <2>4, <2>5, <3>1, CatAssociative
    <3>3. Cat(frame1.sub, Cat(half, two)) = Cat(Cat(frame1.sub, half), two)
      BY <2>1, <2>2, <3>1, CatAssociative
    <3>4. Cat(Cat(before, one), two) = Cat(before, Cat(one, two))
      BY <2>1, <3>1, CatAssociative
    <3>5. Cat(frame2.sub, held) = Cat(half, two) /\ Cat(frame1.sub, half) = Cat(before, one)
      BY <2>2, <2>4 DEF held, half, before
    <3> QED
      BY <2>1, <3>2, <3>3, <3>4, <3>5 DEF held, before
  <2> QED
    BY <1>1, <2>1, <2>5, <2>7, <2>9, <2>10, <2>11
<1> QED
  BY <1>1, <1>2, <1>3, FrameLengths

\* A frame rendered or captured is a sequence of units.
LEMMA UnitsAre ==
  ASSUME NEW label \in Label, sub_frames \in SubFrameCounts
  PROVE  UnitsOf(label, FrameLength) \in Seq(Unit) /\ Len(UnitsOf(label, FrameLength)) = FrameLength
<1>1. FrameLength \in 5 .. 10
  BY FrameLengths
<1>2. \A i \in 1 .. FrameLength : <<label, i>> \in Unit
  BY <1>1 DEF Unit, kSubFrameLength
<1>3. UnitsOf(label, FrameLength) \in [1 .. FrameLength -> Unit]
  BY <1>2 DEF UnitsOf
<1> QED
  BY <1>1, <1>3, SeqOfFunction

\* The buffers start empty, framer and ring with silence.
LEMMA InitKeeps == Init => Inv
<1> SUFFICES ASSUME Init PROVE Inv
  OBVIOUS
<1>1. Silence \in Unit
  BY DEF Unit
<1>2. /\ <<>> \in Seq(Unit) /\ <<>> \in Seq(Label) /\ Len(<<>>) = 0
  OBVIOUS
<1>3. Silent(kBlockSize) \in Seq(Unit) /\ Len(Silent(kBlockSize)) = 4
  <2>1. Silent(kBlockSize) \in [1 .. 4 -> Unit]
    BY <1>1 DEF Silent, kBlockSize
  <2> QED
    BY <2>1, SeqOfFunction
<1>4. [i \in 0 .. Delay - 1 |-> Silence] \in [0 .. Delay - 1 -> Unit]
  BY <1>1
<1>5. Half(<<>>)
  BY <1>2 DEF Half
<1>6. Typed
  <2>1. render_transfer_queue \in Seq(Label) /\ Len(render_transfer_queue) <= QueueSize
    BY <1>2, QueueAssumption DEF Init, Queue!Init
  <2>2. output_framer \in Seq(Unit) /\ capture \in Seq(Unit) /\ rendered \in Seq(Unit)
    BY <1>2, <1>3 DEF Init
  <2>3. delay_buf \in [0 .. Delay - 1 -> Unit] /\ last_insert \in {0} \cup 0 .. Delay - 1
    BY <1>4 DEF Init
  <2> QED
    BY <2>1, <2>2, <2>3 DEF Init, Typed
<1> QED
  BY <1>2, <1>3, <1>5, <1>6 DEF Init, Inv

\* The render thread touches nothing but the queue.
LEMMA AnalyzeRenderKeeps ==
  ASSUME Inv, NEW label \in Label, AnalyzeRender(label)
  PROVE  Inv'
<1>1. /\ render_transfer_queue' \in Seq(Label)
      /\ Len(render_transfer_queue') <= QueueSize
      /\ render_queue_output_frame' = render_queue_output_frame
  <2>1. CASE Queue!Put(label)
    BY <2>1, QueueAssumption DEF Inv, Typed, Queue!Put
  <2>2. CASE UNCHANGED queueVars
    BY <2>2 DEF Inv, Typed, queueVars
  <2> QED
    BY <2>1, <2>2 DEF AnalyzeRender
<1>2. UNCHANGED <<sub_frames, render_blocker, rendered, capture_blocker, output_framer,
                  delay_buf, last_insert, processing, capture>>
  BY DEF AnalyzeRender, renderVars, captureVars
<1> QED
  BY <1>1, <1>2 DEF Inv, Typed, Half, FrameLength

\* The delay changes neither the length of the frame nor the ring's.
LEMMA BeginKeeps ==
  ASSUME Inv, NEW label \in Label, BeginProcessCapture(label)
  PROVE  Inv'
<1> DEFINE f == UnitsOf(label, FrameLength)
<1>1. f \in Seq(Unit) /\ Len(f) = FrameLength
  BY UnitsAre DEF Inv, Typed
<1>2. /\ delay_buf \in [0 .. Delay - 1 -> Unit] /\ last_insert \in {0} \cup 0 .. Delay - 1
      /\ DelaySignal(f)
  BY DEF Inv, Typed, BeginProcessCapture
<1> HIDE DEF f
<1>3. /\ capture' \in Seq(Unit) /\ Len(capture') = FrameLength
      /\ delay_buf' \in [0 .. Delay - 1 -> Unit]
      /\ last_insert' \in {0} \cup 0 .. Delay - 1
  BY <1>1, <1>2, DelayedWhole
<1>4. /\ UNCHANGED <<sub_frames, render_transfer_queue, render_queue_output_frame,
                     render_blocker, rendered, capture_blocker, output_framer>>
      /\ processing' = TRUE
  BY DEF BeginProcessCapture, renderVars, queueVars
<1>5. Typed'
  BY <1>3, <1>4 DEF Inv, Typed
<1>6. Half(render_blocker)' /\ Half(capture_blocker)' /\ FrameLength' = FrameLength
  BY <1>4 DEF Inv, Half, FrameLength
<1> QED
  BY <1>3, <1>4, <1>5, <1>6 DEF Inv

\* What is left in a blocker after the sub-frames: a block taken, or nothing.
LEMMA LastBlock ==
  ASSUME NEW S, NEW buffer \in Seq(S), Len(buffer) <= 4
  PROVE  LET remaining == ExtractBlock(buffer)
         IN  /\ remaining.block \in Seq(S) /\ remaining.buffer \in Seq(S)
             /\ Cat(remaining.block, remaining.buffer) = buffer
             /\ Len(remaining.block) = 0 \/ Len(remaining.block) = 4
             /\ Len(remaining.buffer) = (IF Len(buffer) = 4 THEN 0 ELSE Len(buffer))
<1> DEFINE remaining == ExtractBlock(buffer)
<1>1. /\ remaining.block \in Seq(S) /\ remaining.buffer \in Seq(S)
      /\ Len(buffer) = 4 => remaining.block = buffer /\ remaining.buffer = <<>>
      /\ Len(buffer) # 4 => remaining.block = <<>> /\ remaining.buffer = buffer
  BY Remaining
<1>2. /\ Len(<<>>) = 0 /\ Cat(buffer, <<>>) = buffer /\ Cat(<<>>, buffer) = buffer
  BY CatEmpty
<1> HIDE DEF remaining
<1>3. /\ remaining.block \in Seq(S) /\ remaining.buffer \in Seq(S)
      /\ Cat(remaining.block, remaining.buffer) = buffer
      /\ Len(remaining.block) = 0 \/ Len(remaining.block) = 4
      /\ Len(remaining.buffer) = (IF Len(buffer) = 4 THEN 0 ELSE Len(buffer))
  BY <1>1, <1>2
<1> QED
  BY <1>3 DEF remaining

\* A rendered frame: what the blocker held and the frame are whole blocks and
\* what it holds now, less than a block.
LEMMA RenderWhole ==
  ASSUME Inv, BufferRenderFrame, render_queue_output_frame' \in Label
  PROVE  /\ rendered' \in Seq(Unit) /\ Half(render_blocker)'
         /\ Len(rendered') = 4 \/ Len(rendered') = 8 \/ Len(rendered') = 12
         /\ Cat(rendered', render_blocker')
              = Cat(render_blocker, UnitsOf(render_queue_output_frame', FrameLength))
<1> DEFINE frame == UnitsOf(render_queue_output_frame', FrameLength)
           one == SubFrame(frame, 0)
           two == SubFrame(frame, 1)
           first == InsertSubFrameAndExtractBlock(render_blocker, one)
           second == IF sub_frames = 1 THEN [first EXCEPT !.block = <<>>]
                     ELSE InsertSubFrameAndExtractBlock(first.buffer, two)
           remaining == ExtractBlock(second.buffer)
<1>1. /\ sub_frames' = sub_frames
      /\ rendered' = Cat(Cat(first.block, second.block), remaining.block)
      /\ render_blocker' = remaining.buffer
  <2>1. UNCHANGED <<sub_frames, captureVars>>
    BY Zenon DEF BufferRenderFrame
  <2>2. /\ rendered' = first.block \o second.block \o remaining.block
        /\ render_blocker' = remaining.buffer
    BY Zenon DEF BufferRenderFrame
  <2> HIDE DEF first, second, remaining
  <2> QED
    BY <2>1, <2>2 DEF captureVars, Cat
<1>2. frame \in Seq(Unit) /\ Len(frame) = FrameLength /\ sub_frames \in SubFrameCounts
  BY UnitsAre DEF Inv, Typed
<1>3. /\ render_blocker \in Seq(Unit) /\ Len(render_blocker) <= 3
      /\ sub_frames = 2 => Len(render_blocker) = 0 \/ Len(render_blocker) = 2
  BY DEF Inv, Half
<1> HIDE DEF frame
<1>4. CASE sub_frames = 1
  <2>1. one = frame /\ Len(frame) = 5
    BY <1>2, <1>4, FrameLengths, SubFrames
  <2> HIDE DEF one
  <2>2. /\ first.block \in Seq(Unit) /\ Len(first.block) = 4
        /\ first.buffer \in Seq(Unit) /\ Len(first.buffer) = Len(render_blocker) + 1
        /\ Cat(first.block, first.buffer) = Cat(render_blocker, frame)
    BY <1>2, <1>3, <2>1, Cut
  <2>3. second.block = <<>> /\ second.buffer = first.buffer
    BY <1>4 DEF InsertSubFrameAndExtractBlock
  <2> HIDE DEF first, second
  <2>4. Len(first.buffer) <= 4
    BY <1>3, <2>2
  <2>5. /\ remaining.block \in Seq(Unit) /\ remaining.buffer \in Seq(Unit)
        /\ Cat(remaining.block, remaining.buffer) = first.buffer
        /\ Len(remaining.block) = 0 \/ Len(remaining.block) = 4
        /\ Len(remaining.buffer) = (IF Len(first.buffer) = 4 THEN 0 ELSE Len(first.buffer))
    BY <2>2, <2>3, <2>4, LastBlock
  <2> HIDE DEF remaining
  <2>6. rendered' = Cat(first.block, remaining.block)
    BY <1>1, <2>2, <2>3, CatEmpty
  <2>7. /\ Cat(first.block, remaining.block) \in Seq(Unit)
        /\ Len(Cat(first.block, remaining.block)) = Len(first.block) + Len(remaining.block)
    BY <2>2, <2>5, CatSeq
  <2>8. Cat(Cat(first.block, remaining.block), remaining.buffer)
          = Cat(first.block, Cat(remaining.block, remaining.buffer))
    BY <2>2, <2>5, CatAssociative
  <2>9. Len(remaining.buffer) <= 3
    BY <1>3, <2>2, <2>5
  <2>10. Half(render_blocker)'
    BY <1>1, <1>4, <2>5, <2>9 DEF Half
  <2>11. Len(rendered') = 4 \/ Len(rendered') = 8
    <3>1. CASE Len(remaining.block) = 0
      BY <2>2, <2>6, <2>7, <3>1
    <3>2. CASE Len(remaining.block) = 4
      BY <2>2, <2>6, <2>7, <3>2
    <3> QED
      BY <2>5, <3>1, <3>2
  <2>12. Cat(rendered', render_blocker') = Cat(render_blocker, frame)
    BY <1>1, <2>2, <2>5, <2>6, <2>8
  <2> QED
    BY <2>6, <2>7, <2>10, <2>11, <2>12 DEF frame
<1>5. CASE sub_frames = 2
  <2>1. /\ one \in Seq(Unit) /\ Len(one) = 5 /\ two \in Seq(Unit) /\ Len(two) = 5
        /\ Cat(one, two) = frame
    BY <1>2, <1>5, FrameLengths, SubFrames
  <2> HIDE DEF one, two
  <2>2. /\ first.block \in Seq(Unit) /\ Len(first.block) = 4
        /\ first.buffer \in Seq(Unit) /\ Len(first.buffer) = Len(render_blocker) + 1
        /\ Cat(first.block, first.buffer) = Cat(render_blocker, one)
    BY <1>3, <2>1, Cut
  <2> HIDE DEF first
  <2>3. Len(first.buffer) <= 3 /\ (Len(first.buffer) = 1 \/ Len(first.buffer) = 3)
    <3>1. CASE Len(render_blocker) = 0
      BY <2>2, <3>1
    <3>2. CASE Len(render_blocker) = 2
      BY <2>2, <3>2
    <3> QED
      BY <1>3, <1>5, <3>1, <3>2
  <2>4. second = InsertSubFrameAndExtractBlock(first.buffer, two)
    BY <1>5
  <2> HIDE DEF second
  <2>5. /\ second.block \in Seq(Unit) /\ Len(second.block) = 4
        /\ second.buffer \in Seq(Unit) /\ Len(second.buffer) = Len(first.buffer) + 1
        /\ Cat(second.block, second.buffer) = Cat(first.buffer, two)
    BY <2>1, <2>2, <2>3, <2>4, Cut
  <2>6. Len(second.buffer) <= 4 /\ (Len(second.buffer) = 2 \/ Len(second.buffer) = 4)
    <3>1. CASE Len(first.buffer) = 1
      <4>1. Len(second.buffer) = 2
        BY <2>5, <3>1
      <4> QED
        BY <4>1
    <3>2. CASE Len(first.buffer) = 3
      <4>1. Len(second.buffer) = 4
        BY <2>5, <3>2
      <4> QED
        BY <4>1
    <3> QED
      BY <2>3, <3>1, <3>2
  <2>7. /\ remaining.block \in Seq(Unit) /\ remaining.buffer \in Seq(Unit)
        /\ Cat(remaining.block, remaining.buffer) = second.buffer
        /\ Len(remaining.block) = 0 \/ Len(remaining.block) = 4
        /\ Len(remaining.buffer) = (IF Len(second.buffer) = 4 THEN 0 ELSE Len(second.buffer))
    BY <2>5, <2>6, LastBlock
  <2> HIDE DEF remaining
  <2> DEFINE blocks == Cat(first.block, second.block)
  <2>8. blocks \in Seq(Unit) /\ Len(blocks) = 8
    <3>1. /\ Cat(first.block, second.block) \in Seq(Unit)
          /\ Len(Cat(first.block, second.block)) = Len(first.block) + Len(second.block)
      BY <2>2, <2>5, CatSeq
    <3> QED
      BY <2>2, <2>5, <3>1
  <2>9. Cat(blocks, second.buffer) = Cat(first.block, Cat(second.block, second.buffer))
    BY <2>2, <2>5, CatAssociative
  <2> HIDE DEF blocks
  <2>10. rendered' = Cat(blocks, remaining.block)
    BY <1>1 DEF blocks
  <2>11. /\ Cat(blocks, remaining.block) \in Seq(Unit)
         /\ Len(Cat(blocks, remaining.block)) = Len(blocks) + Len(remaining.block)
    BY <2>7, <2>8, CatSeq
  <2>12. Cat(Cat(blocks, remaining.block), remaining.buffer)
           = Cat(blocks, Cat(remaining.block, remaining.buffer))
    BY <2>7, <2>8, CatAssociative
  <2>13. Cat(first.block, Cat(first.buffer, two)) = Cat(Cat(first.block, first.buffer), two)
    BY <2>1, <2>2, CatAssociative
  <2>14. Cat(Cat(render_blocker, one), two) = Cat(render_blocker, Cat(one, two))
    BY <1>3, <2>1, CatAssociative
  <2>15. Cat(rendered', render_blocker') = Cat(render_blocker, frame)
    BY <1>1, <2>1, <2>2, <2>5, <2>7, <2>9, <2>10, <2>12, <2>13, <2>14
  <2>16. Len(remaining.buffer) <= 3 /\ (Len(remaining.buffer) = 0 \/ Len(remaining.buffer) = 2)
    <3>1. CASE Len(second.buffer) = 4
      <4>1. Len(remaining.buffer) = 0
        BY <2>7, <3>1
      <4> QED
        BY <4>1
    <3>2. CASE Len(second.buffer) = 2
      <4>1. Len(remaining.buffer) = 2
        BY <2>7, <3>2
      <4> QED
        BY <4>1
    <3> QED
      BY <2>6, <3>1, <3>2
  <2>17. Half(render_blocker)'
    BY <1>1, <2>7, <2>16 DEF Half
  <2>18. Len(rendered') = 8 \/ Len(rendered') = 12
    <3>1. CASE Len(remaining.block) = 0
      BY <2>8, <2>10, <2>11, <3>1
    <3>2. CASE Len(remaining.block) = 4
      BY <2>8, <2>10, <2>11, <3>2
    <3> QED
      BY <2>7, <3>1, <3>2
  <2> QED
    BY <2>10, <2>11, <2>15, <2>17, <2>18 DEF frame
<1> QED
  BY <1>2, <1>4, <1>5, FrameLengths

\* A rendered frame leaves the blocker with less than a block.
LEMMA BufferRenderFrameKeeps ==
  ASSUME Inv, BufferRenderFrame
  PROVE  /\ Inv' /\ render_transfer_queue # <<>>
         /\ render_transfer_queue' = Tail(render_transfer_queue)
         /\ render_queue_output_frame' = Head(render_transfer_queue)
         /\ render_queue_output_frame' \in Label
<1>1. /\ render_transfer_queue # <<>>
      /\ render_transfer_queue' = Tail(render_transfer_queue)
      /\ render_queue_output_frame' = Head(render_transfer_queue)
  <2>1. Queue!Take
    BY Zenon DEF BufferRenderFrame
  <2> QED
    BY <2>1, Zenon DEF Queue!Take
<1>2. /\ render_transfer_queue' \in Seq(Label)
      /\ Len(render_transfer_queue') <= QueueSize
      /\ render_queue_output_frame' \in Label
  <2>1. render_transfer_queue \in Seq(Label) /\ Len(render_transfer_queue) <= QueueSize
    BY DEF Inv, Typed
  <2> QED
    BY <1>1, <2>1, HeadTailProperties, QueueAssumption
<1>3. UNCHANGED <<sub_frames, capture_blocker, output_framer, delay_buf, last_insert,
                  processing, capture>>
  <2>1. UNCHANGED <<sub_frames, captureVars>>
    BY Zenon DEF BufferRenderFrame
  <2> QED
    BY <2>1 DEF captureVars
<1>4. rendered' \in Seq(Unit) /\ Half(render_blocker)'
  BY <1>2, RenderWhole
<1>5. Half(capture_blocker)' /\ FrameLength' = FrameLength
  BY <1>3 DEF Inv, Half, FrameLength
<1>6. Typed'
  BY <1>2, <1>3, <1>4 DEF Inv, Typed
<1>7. Inv'
  BY <1>3, <1>4, <1>5, <1>6 DEF Inv
<1> QED
  BY <1>1, <1>2, <1>7

\* A captured frame leaves framer and blocker with one block between them.
LEMMA EndKeeps ==
  ASSUME Inv, EndProcessCapture
  PROVE  Inv'
<1>1. /\ UNCHANGED <<sub_frames, render_transfer_queue, render_queue_output_frame,
                     render_blocker, rendered, delay_buf, last_insert>>
      /\ processing' = FALSE
  BY DEF EndProcessCapture, queueVars, renderVars
<1>2. /\ capture' \in Seq(Unit) /\ Len(capture') = FrameLength
      /\ output_framer' \in Seq(Unit)
      /\ Half(capture_blocker)'
      /\ Len(output_framer') = 4 - Len(capture_blocker')
  BY CaptureWhole
<1>3. Half(render_blocker)' /\ FrameLength' = FrameLength
  BY <1>1 DEF Inv, Half, FrameLength
<1>4. Typed'
  BY <1>1, <1>2 DEF Inv, Typed
<1> QED
  BY <1>1, <1>2, <1>3, <1>4 DEF Inv

\* The invariant holds in every state reached.
LEMMA Invariance == Spec => []Inv
<1>1. Inv /\ [Next]_vars => Inv'
  <2> SUFFICES ASSUME Inv, [Next]_vars PROVE Inv'
    OBVIOUS
  <2>1. ASSUME NEW label \in Label, AnalyzeRender(label) PROVE Inv'
    BY <2>1, AnalyzeRenderKeeps
  <2>2. ASSUME NEW label \in Label, BeginProcessCapture(label) PROVE Inv'
    BY <2>2, BeginKeeps
  <2>3. CASE BufferRenderFrame
    BY <2>3, BufferRenderFrameKeeps
  <2>4. CASE EndProcessCapture
    BY <2>4, EndKeeps
  <2>5. CASE UNCHANGED vars
    BY <2>5 DEF vars, queueVars, renderVars, captureVars, Inv, Typed, Half, FrameLength
  <2> QED
    BY <2>1, <2>2, <2>3, <2>4, <2>5 DEF Next
<1> QED
  BY <1>1, InitKeeps, PTL DEF Spec

\* Every buffer holds units, as many as its place allows, for every size of
\* the queue and every fixed delay.
THEOREM BuffersTyped == Spec => []TypeOK
<1>1. Inv => TypeOK
  BY DEF Inv, Typed, Half, TypeOK
<1> QED
  BY <1>1, Invariance, PTL

-----------------------------------------------------------------------------
(* The way of the captured samples is a delay line. *)

\* The frame and the line of DelayLine, as CaptureSpec maps them.
TheFrame == IF processing THEN SubSeq(Inside, Delay + 1, Len(Inside)) ELSE capture
TheLine == output_framer \o capture_blocker \o SubSeq(Inside, 1, Delay)

\* The mapping, in terms of Cat, First and Rest.
LEMMA Names ==
  /\ Inside = IF processing THEN Cat(capture, Ring) ELSE Ring
  /\ TheFrame = IF processing THEN Rest(Inside, Delay) ELSE capture
  /\ TheLine = Cat(Cat(output_framer, capture_blocker), First(Inside, Delay))
BY DEF Inside, TheFrame, TheLine, Cat, First, Rest

LEMMA NamesNext ==
  /\ Inside' = IF processing' THEN Cat(capture', Ring') ELSE Ring'
  /\ TheFrame' = IF processing' THEN Rest(Inside', Delay) ELSE capture'
  /\ TheLine' = Cat(Cat(output_framer', capture_blocker'), First(Inside', Delay))
BY DEF Inside, TheFrame, TheLine, Cat, First, Rest

\* Delay units of the ring are all of it.
LEMMA WholeRing ==
  ASSUME NEW ring \in Seq(Unit), Len(ring) = Delay
  PROVE  First(ring, Delay) = ring
BY SubSeqFull DEF First

\* At first the line holds silence, a block and the fixed delay of it.
LEMMA InitMaps == Init => Capture!Init
<1> SUFFICES ASSUME Init PROVE Capture!Init
  OBVIOUS
<1> DEFINE line == [i \in 1 .. Delay + kBlockSize |-> Silence]
<1>1. Silence \in Unit /\ Delay \in Nat
  BY DelayAssumption DEF Unit
<1>2. Ring \in Seq(Unit) /\ Len(Ring) = Delay /\ \A i \in 1 .. Delay : Ring[i] = Silence
  <2>1. /\ delay_buf \in [0 .. Delay - 1 -> Unit] /\ last_insert = 0
        /\ \A j \in 0 .. Delay - 1 : delay_buf[j] = Silence
    BY <1>1 DEF Init
  <2>2. /\ Ring \in Seq(Unit) /\ Len(Ring) = Delay
        /\ \A i \in 1 .. Delay : Ring[i] = delay_buf[(last_insert + i - 1) % Delay]
    BY <2>1, RingIsSeq
  <2>3. \A i \in 1 .. Delay : (last_insert + i - 1) % Delay \in 0 .. Delay - 1
    BY <1>1, <2>1
  <2> QED
    BY <2>1, <2>2, <2>3
<1>3. /\ Silent(kBlockSize) \in Seq(Unit) /\ Len(Silent(kBlockSize)) = 4
      /\ \A i \in 1 .. 4 : Silent(kBlockSize)[i] = Silence
  <2>1. Silent(kBlockSize) \in [1 .. 4 -> Unit]
    BY <1>1 DEF Silent, kBlockSize
  <2>2. \A i \in 1 .. 4 : Silent(kBlockSize)[i] = Silence
    BY DEF Silent, kBlockSize
  <2> QED
    BY <2>1, <2>2, SeqOfFunction
<1>4. TheLine = Cat(Silent(kBlockSize), Ring)
  <2>1. TheLine = Cat(Cat(Silent(kBlockSize), <<>>), First(Ring, Delay))
    BY Names DEF Init
  <2>2. Cat(Silent(kBlockSize), <<>>) = Silent(kBlockSize)
    BY <1>3, CatEmpty
  <2>3. First(Ring, Delay) = Ring
    BY <1>2, WholeRing
  <2> QED
    BY <2>1, <2>2, <2>3
<1>5. line \in Seq(Unit) /\ Len(line) = 4 + Delay /\ \A i \in 1 .. 4 + Delay : line[i] = Silence
  <2>1. line \in [1 .. 4 + Delay -> Unit] /\ \A i \in 1 .. 4 + Delay : line[i] = Silence
    BY <1>1 DEF kBlockSize
  <2> HIDE DEF line
  <2> QED
    BY <1>1, <2>1, SeqOfFunction
<1>6. /\ TheLine \in Seq(Unit) /\ Len(TheLine) = 4 + Delay
      /\ \A i \in 1 .. 4 + Delay : TheLine[i] = Silence
  <2>1. /\ TheLine \in Seq(Unit) /\ Len(TheLine) = 4 + Delay
        /\ \A i \in 1 .. 4 + Delay :
             TheLine[i] = IF i <= 4 THEN Silent(kBlockSize)[i] ELSE Ring[i - 4]
    <3> DEFINE silent == Silent(kBlockSize)
    <3>1. /\ Cat(silent, Ring) \in Seq(Unit) /\ Len(Cat(silent, Ring)) = Len(silent) + Len(Ring)
          /\ \A i \in 1 .. Len(silent) + Len(Ring) :
               Cat(silent, Ring)[i] = IF i <= Len(silent) THEN silent[i] ELSE Ring[i - Len(silent)]
      BY <1>2, <1>3, ConcatProperties DEF Cat
    <3> HIDE DEF silent
    <3>2. Len(silent) = 4 /\ Len(Ring) = Delay
      BY <1>2, <1>3 DEF silent
    <3> QED
      BY <1>4, <3>1, <3>2 DEF silent
  <2>2. ASSUME NEW i \in 1 .. 4 + Delay PROVE TheLine[i] = Silence
    <3>1. CASE i <= 4
      BY <1>3, <2>1, <3>1
    <3>2. CASE i > 4
      <4>1. i - 4 \in 1 .. Delay
        BY <1>1, <3>2
      <4> QED
        BY <1>2, <2>1, <3>2, <4>1
    <3> QED
      BY <1>1, <3>1, <3>2
  <2> QED
    BY <2>1, <2>2
<1>7. TheLine = line
  <2> HIDE DEF line
  <2>1. Len(TheLine) = Len(line) /\ \A i \in 1 .. Len(TheLine) : TheLine[i] = line[i]
    BY <1>5, <1>6
  <2> QED
    BY <1>5, <1>6, <2>1, SeqEqual
<1>8. TheFrame = <<>> /\ processing = FALSE
  BY Names DEF Init
<1> QED
  BY <1>7, <1>8 DEF Capture!Init, TheFrame, TheLine

\* Where the frame was delayed, the ring and the frame hold what they held before.
LEMMA BeginMaps ==
  ASSUME Inv, NEW label \in Label, BeginProcessCapture(label)
  PROVE  Capture!Begin(UnitsOf(label, FrameLength))
<1> DEFINE f == UnitsOf(label, FrameLength)
<1>1. f \in Seq(Unit)
  BY UnitsAre DEF Inv, Typed
<1>2. /\ delay_buf \in [0 .. Delay - 1 -> Unit] /\ last_insert \in {0} \cup 0 .. Delay - 1
      /\ DelaySignal(f) /\ ~processing /\ processing' = TRUE
      /\ output_framer' = output_framer /\ capture_blocker' = capture_blocker
  BY DEF Inv, Typed, BeginProcessCapture
<1> HIDE DEF f
<1>3. Ring \in Seq(Unit) /\ Len(Ring) = Delay
  <2>1. last_insert \in Nat
    BY <1>2, DelayAssumption
  <2> QED
    BY <1>2, <2>1, RingIsSeq
<1>4. Cat(capture', Ring') = Cat(Ring, f)
  BY <1>1, <1>2, DelayedWhole DEF Cat
<1>5. Inside = Ring /\ Inside' = Cat(Ring, f)
  BY <1>2, <1>4, Names, NamesNext
<1>6. First(Cat(Ring, f), Delay) = Ring /\ Rest(Cat(Ring, f), Delay) = f
  BY <1>1, <1>3, PartsOfCat
<1>7. TheFrame' = f
  BY <1>2, <1>5, <1>6, NamesNext
<1>8. TheLine' = TheLine
  BY <1>2, <1>3, <1>5, <1>6, Names, NamesNext, WholeRing
<1> QED
  BY <1>2, <1>7, <1>8 DEF Capture!Begin, TheFrame, TheLine, f

\* Where the frame is through, the line has moved on by one frame.
LEMMA EndMaps ==
  ASSUME Inv, EndProcessCapture
  PROVE  Capture!End
<1> DEFINE held  == Cat(output_framer, capture_blocker)
           after == Cat(output_framer', capture_blocker')
           out   == Cat(TheLine, TheFrame)
<1>1. /\ processing /\ processing' = FALSE /\ Ring' = Ring
      /\ Delay \in Nat /\ FrameLength \in Nat
      /\ output_framer \in Seq(Unit) /\ capture_blocker \in Seq(Unit)
      /\ capture \in Seq(Unit) /\ Len(capture) = FrameLength
  <2>1. FrameLength \in Nat
    BY FrameLengths DEF Inv, Typed
  <2> QED
    BY <2>1, DelayAssumption DEF EndProcessCapture, Inv, Typed, Half, Ring
<1>2. Ring \in Seq(Unit) /\ Len(Ring) = Delay
  <2>1. delay_buf \in [0 .. Delay - 1 -> Unit] /\ last_insert \in Nat
    BY DelayAssumption DEF Inv, Typed
  <2> QED
    BY <2>1, RingIsSeq
<1>3. /\ capture' \in Seq(Unit) /\ Len(capture') = FrameLength
      /\ output_framer' \in Seq(Unit) /\ capture_blocker' \in Seq(Unit)
      /\ Len(output_framer') = 4 - Len(capture_blocker')
      /\ Cat(capture', after) = Cat(held, capture)
  BY CaptureWhole DEF Half
<1>4. Inside = Cat(capture, Ring) /\ Inside \in Seq(Unit) /\ Len(Inside) = FrameLength + Delay
  BY <1>1, <1>2, Names, CatSeq
<1>5. /\ First(Inside, Delay) \in Seq(Unit)
      /\ Rest(Inside, Delay) \in Seq(Unit) /\ Len(Rest(Inside, Delay)) = FrameLength
      /\ Cat(First(Inside, Delay), Rest(Inside, Delay)) = Cat(capture, Ring)
  <2>1. Delay \in 0 .. Len(Inside)
    BY <1>1, <1>4
  <2>2. Len(Inside) - Delay = FrameLength
    BY <1>1, <1>4
  <2> QED
    BY <1>4, <2>1, <2>2, TwoParts
<1>6. TheFrame = Rest(Inside, Delay) /\ TheLine = Cat(held, First(Inside, Delay))
  BY <1>1, Names
<1>7. held \in Seq(Unit) /\ after \in Seq(Unit) /\ Len(after) = 4
  <2>1. held \in Seq(Unit)
    BY <1>1, CatSeq
  <2>2. after \in Seq(Unit) /\ Len(after) = Len(output_framer') + Len(capture_blocker')
    BY <1>3, CatSeq
  <2>3. Len(output_framer') + Len(capture_blocker') = 4
    BY <1>3
  <2> QED
    BY <2>1, <2>2, <2>3
<1> HIDE DEF held, after
<1>8. out = Cat(capture', Cat(after, Ring))
  <2>1. out = Cat(held, Cat(First(Inside, Delay), Rest(Inside, Delay)))
    BY <1>5, <1>6, <1>7, CatAssociative
  <2>2. Cat(held, Cat(capture, Ring)) = Cat(Cat(held, capture), Ring)
    BY <1>1, <1>2, <1>7, CatAssociative
  <2>3. Cat(Cat(capture', after), Ring) = Cat(capture', Cat(after, Ring))
    BY <1>2, <1>3, <1>7, CatAssociative
  <2> QED
    BY <1>3, <1>5, <2>1, <2>2, <2>3
<1>9. Cat(after, Ring) \in Seq(Unit) /\ Len(Cat(after, Ring)) = 4 + Delay
  BY <1>2, <1>7, CatSeq
<1>10. First(out, FrameLength) = capture' /\ Rest(out, FrameLength) = Cat(after, Ring)
  BY <1>3, <1>8, <1>9, PartsOfCat
<1>11. Len(out) = Delay + kBlockSize + FrameLength
  <2>1. Len(out) = Len(capture') + Len(Cat(after, Ring))
    BY <1>3, <1>8, <1>9, CatSeq
  <2> QED
    BY <1>1, <1>3, <1>9, <2>1 DEF kBlockSize
<1>12. TheFrame' = capture' /\ TheLine' = Cat(after, Ring)
  BY <1>1, <1>2, NamesNext, WholeRing DEF after
<1>13. Len(TheFrame) = FrameLength
  BY <1>5, <1>6
<1>14. /\ TheFrame' = SubSeq(TheLine \o TheFrame, 1, Len(TheFrame))
       /\ TheLine' = SubSeq(TheLine \o TheFrame, Len(TheFrame) + 1,
                            Delay + kBlockSize + Len(TheFrame))
  BY <1>10, <1>11, <1>12, <1>13 DEF First, Rest, Cat
<1> QED
  BY <1>1, <1>14 DEF Capture!End, TheFrame, TheLine

\* A captured frame leaves ProcessCapture whole and in order, delayed by the
\* fixed delay and one block, for every delay: also where the ring of the delay
\* buffer is shorter than a frame and passed several times.
THEOREM CaptureIsDelayed == Spec => CaptureSpec
<1>1. Inv /\ [Next]_vars => [Capture!Next]_Capture!vars
  <2> SUFFICES ASSUME Inv, [Next]_vars PROVE [Capture!Next]_Capture!vars
    OBVIOUS
  <2>1. ASSUME UNCHANGED captureVars PROVE UNCHANGED Capture!vars
    BY <2>1 DEF captureVars, Capture!vars, Inside, Ring
  <2>2. ASSUME NEW label \in Label, AnalyzeRender(label) PROVE UNCHANGED captureVars
    BY <2>2 DEF AnalyzeRender
  <2>3. ASSUME NEW label \in Label, BeginProcessCapture(label) PROVE Capture!Next
    <3>1. UnitsOf(label, FrameLength) \in {UnitsOf(any, FrameLength) : any \in Label}
      OBVIOUS
    <3> QED
      BY <2>3, <3>1, BeginMaps DEF Capture!Next
  <2>4. CASE BufferRenderFrame
    BY <2>1, <2>4 DEF BufferRenderFrame
  <2>5. CASE EndProcessCapture
    BY <2>5, EndMaps DEF Capture!Next
  <2>6. CASE UNCHANGED vars
    BY <2>1, <2>6 DEF vars
  <2> QED
    BY <2>1, <2>2, <2>3, <2>4, <2>5, <2>6 DEF Next
<1> QED
  BY <1>1, InitMaps, Invariance, PTL DEF Spec, CaptureSpec, Capture!Spec


-----------------------------------------------------------------------------
(* The way of the rendered samples: what the queue holds, unit by unit. *)

UnitsIn(queue, n) ==
  [i \in 1 .. Len(queue) * n |-> <<queue[((i - 1) \div n) + 1], ((i - 1) % n) + 1>>]

\* Positions in a row of frames.
LEMMA Positions ==
  ASSUME NEW n \in {5, 10}, NEW m \in Nat
  PROVE  /\ m * n \in Nat /\ (m + 1) * n = m * n + n
         /\ \A i \in 0 .. m * n - 1 : i \div n \in 0 .. m - 1 /\ i % n \in 0 .. n - 1
         /\ \A i \in 0 .. n - 1 : (m * n + i) \div n = m /\ (m * n + i) % n = i
         /\ \A i \in Nat : (n + i) \div n = (i \div n) + 1 /\ (n + i) % n = i % n
<1>1. CASE n = 5
  BY <1>1
<1>2. CASE n = 10
  BY <1>2
<1> QED
  BY <1>1, <1>2

LEMMA UnitsInSeq ==
  ASSUME NEW queue \in Seq(Label), NEW n \in {5, 10}
  PROVE  /\ UnitsIn(queue, n) \in Seq(Unit) /\ Len(UnitsIn(queue, n)) = Len(queue) * n
         /\ \A i \in 1 .. Len(queue) * n :
              UnitsIn(queue, n)[i] = <<queue[((i - 1) \div n) + 1], ((i - 1) % n) + 1>>
<1>1. Len(queue) * n \in Nat
  BY Positions
<1>2. ASSUME NEW i \in 1 .. Len(queue) * n
      PROVE  <<queue[((i - 1) \div n) + 1], ((i - 1) % n) + 1>> \in Unit
  <2>1. i - 1 \in 0 .. Len(queue) * n - 1
    BY <1>1
  <2>2. (i - 1) \div n \in 0 .. Len(queue) - 1 /\ (i - 1) % n \in 0 .. n - 1
    BY <2>1, Positions
  <2>3. ((i - 1) \div n) + 1 \in 1 .. Len(queue) /\ ((i - 1) % n) + 1 \in 1 .. 10
    BY <2>2
  <2> QED
    BY <2>3 DEF Unit, kSubFrameLength
<1>3. UnitsIn(queue, n) \in [1 .. Len(queue) * n -> Unit]
  BY <1>2 DEF UnitsIn
<1>4. \A i \in 1 .. Len(queue) * n :
        UnitsIn(queue, n)[i] = <<queue[((i - 1) \div n) + 1], ((i - 1) % n) + 1>>
  BY DEF UnitsIn
<1> QED
  BY <1>1, <1>3, <1>4, SeqOfFunction

\* The units of a frame.
LEMMA UnitsOfSeq ==
  ASSUME NEW label \in Label, NEW n \in {5, 10}
  PROVE  /\ UnitsOf(label, n) \in Seq(Unit) /\ Len(UnitsOf(label, n)) = n
         /\ \A i \in 1 .. n : UnitsOf(label, n)[i] = <<label, i>>
<1>1. \A i \in 1 .. n : <<label, i>> \in Unit
  BY DEF Unit, kSubFrameLength
<1>2. UnitsOf(label, n) \in [1 .. n -> Unit] /\ n \in Nat
  BY <1>1 DEF UnitsOf
<1> QED
  BY <1>2, SeqOfFunction DEF UnitsOf

\* A unit of two sequences joined.
LEMMA UnitOfCat ==
  ASSUME NEW S, NEW s \in Seq(S), NEW t \in Seq(S)
  PROVE  \A i \in 1 .. Len(s) + Len(t) :
           Cat(s, t)[i] = IF i <= Len(s) THEN s[i] ELSE t[i - Len(s)]
BY ConcatProperties DEF Cat

\* A frame more in the queue, its units behind the others.
LEMMA UnitsPut ==
  ASSUME NEW queue \in Seq(Label), NEW label \in Label, NEW n \in {5, 10}
  PROVE  UnitsIn(Append(queue, label), n) = Cat(UnitsIn(queue, n), UnitsOf(label, n))
<1> DEFINE new == Append(queue, label)
           s == UnitsIn(queue, n)
           t == UnitsOf(label, n)
           m == Len(queue)
<1>1. /\ new \in Seq(Label) /\ Len(new) = m + 1 /\ m \in Nat
      /\ \A i \in 1 .. m : new[i] = queue[i]
      /\ new[m + 1] = label
  BY AppendProperties
<1> HIDE DEF new
<1>2. /\ s \in Seq(Unit) /\ Len(s) = m * n
      /\ \A i \in 1 .. m * n : s[i] = <<queue[((i - 1) \div n) + 1], ((i - 1) % n) + 1>>
  BY UnitsInSeq
<1>3. /\ t \in Seq(Unit) /\ Len(t) = n /\ \A i \in 1 .. n : t[i] = <<label, i>>
  BY UnitsOfSeq
<1>4. /\ UnitsIn(new, n) \in Seq(Unit) /\ Len(UnitsIn(new, n)) = m * n + n
      /\ \A i \in 1 .. m * n + n :
           UnitsIn(new, n)[i] = <<new[((i - 1) \div n) + 1], ((i - 1) % n) + 1>>
  <2>1. Len(new) * n = m * n + n
    BY <1>1, Positions
  <2>2. /\ UnitsIn(new, n) \in Seq(Unit) /\ Len(UnitsIn(new, n)) = Len(new) * n
        /\ \A i \in 1 .. Len(new) * n :
             UnitsIn(new, n)[i] = <<new[((i - 1) \div n) + 1], ((i - 1) % n) + 1>>
    BY <1>1, UnitsInSeq
  <2> QED
    BY <2>1, <2>2, Zenon
<1>5. m * n \in Nat /\ n \in Nat
  BY <1>1, Positions
<1> HIDE DEF s, t
<1>6. /\ Cat(s, t) \in Seq(Unit) /\ Len(Cat(s, t)) = m * n + n
      /\ \A i \in 1 .. m * n + n : Cat(s, t)[i] = IF i <= m * n THEN s[i] ELSE t[i - m * n]
  <2>1. /\ Cat(s, t) \in Seq(Unit) /\ Len(Cat(s, t)) = Len(s) + Len(t)
        /\ \A i \in 1 .. Len(s) + Len(t) :
             Cat(s, t)[i] = IF i <= Len(s) THEN s[i] ELSE t[i - Len(s)]
    BY <1>2, <1>3, CatSeq, UnitOfCat
  <2>2. Len(s) = m * n /\ Len(t) = n
    BY <1>2, <1>3
  <2> QED
    BY <2>1, <2>2, Zenon
<1>7. ASSUME NEW i \in 1 .. m * n + n PROVE UnitsIn(new, n)[i] = Cat(s, t)[i]
  <2>1. CASE i \in 1 .. m * n
    <3>1. (i - 1) \div n \in 0 .. m - 1
      <4>1. i - 1 \in 0 .. m * n - 1
        BY <1>5, <2>1
      <4> QED
        BY <1>1, <4>1, Positions
    <3>2. ((i - 1) \div n) + 1 \in 1 .. m
      BY <1>1, <3>1
    <3>3. i <= m * n
      BY <1>5, <2>1
    <3> QED
      BY <1>1, <1>2, <1>4, <1>6, <2>1, <3>2, <3>3
  <2>2. CASE i \in m * n + 1 .. m * n + n
    <3> DEFINE j == i - m * n
    <3>1. j \in 1 .. n /\ j - 1 \in 0 .. n - 1 /\ ~(i <= m * n) /\ i - 1 = m * n + (j - 1)
          /\ (j - 1) + 1 = j
      BY <1>5, <2>2
    <3>2. (i - 1) \div n = m /\ (i - 1) % n = j - 1
      BY <1>1, <3>1, Positions
    <3> HIDE DEF j
    <3>3. UnitsIn(new, n)[i] = <<label, j>>
      BY <1>1, <1>4, <3>1, <3>2
    <3>4. Cat(s, t)[i] = t[j]
      BY <1>6, <3>1 DEF j
    <3> QED
      BY <1>3, <3>1, <3>3, <3>4
  <2> QED
    BY <1>5, <2>1, <2>2
<1> QED
  BY <1>4, <1>6, <1>7, SeqEqual DEF new, s, t

\* A frame less, its units before the others.
LEMMA UnitsTaken ==
  ASSUME NEW queue \in Seq(Label), queue # <<>>, NEW n \in {5, 10}
  PROVE  UnitsIn(queue, n) = Cat(UnitsOf(Head(queue), n), UnitsIn(Tail(queue), n))
<1> DEFINE label == Head(queue)
           rest == Tail(queue)
           s == UnitsOf(label, n)
           t == UnitsIn(rest, n)
           m == Len(rest)
<1>1. /\ rest \in Seq(Label) /\ Len(queue) = m + 1 /\ m \in Nat
      /\ label \in Label /\ label = queue[1]
      /\ \A i \in 1 .. m : rest[i] = queue[i + 1]
  BY HeadTailProperties
<1> HIDE DEF label, rest
<1>2. /\ t \in Seq(Unit) /\ Len(t) = m * n
      /\ \A i \in 1 .. m * n : t[i] = <<rest[((i - 1) \div n) + 1], ((i - 1) % n) + 1>>
  BY <1>1, UnitsInSeq
<1>3. /\ s \in Seq(Unit) /\ Len(s) = n /\ \A i \in 1 .. n : s[i] = <<label, i>>
  BY <1>1, UnitsOfSeq
<1>4. /\ UnitsIn(queue, n) \in Seq(Unit) /\ Len(UnitsIn(queue, n)) = m * n + n
      /\ \A i \in 1 .. m * n + n :
           UnitsIn(queue, n)[i] = <<queue[((i - 1) \div n) + 1], ((i - 1) % n) + 1>>
  <2>1. Len(queue) * n = m * n + n
    BY <1>1, Positions
  <2>2. /\ UnitsIn(queue, n) \in Seq(Unit) /\ Len(UnitsIn(queue, n)) = Len(queue) * n
        /\ \A i \in 1 .. Len(queue) * n :
             UnitsIn(queue, n)[i] = <<queue[((i - 1) \div n) + 1], ((i - 1) % n) + 1>>
    BY UnitsInSeq
  <2> QED
    BY <2>1, <2>2, Zenon
<1>5. m * n \in Nat /\ n \in Nat
  BY <1>1, Positions
<1> HIDE DEF s, t
<1>6. /\ Cat(s, t) \in Seq(Unit) /\ Len(Cat(s, t)) = n + m * n
      /\ \A i \in 1 .. n + m * n : Cat(s, t)[i] = IF i <= n THEN s[i] ELSE t[i - n]
  <2>1. /\ Cat(s, t) \in Seq(Unit) /\ Len(Cat(s, t)) = Len(s) + Len(t)
        /\ \A i \in 1 .. Len(s) + Len(t) :
             Cat(s, t)[i] = IF i <= Len(s) THEN s[i] ELSE t[i - Len(s)]
    BY <1>2, <1>3, CatSeq, UnitOfCat
  <2>2. Len(s) = n /\ Len(t) = m * n
    BY <1>2, <1>3
  <2> QED
    BY <2>1, <2>2, Zenon
<1>7. ASSUME NEW i \in 1 .. m * n + n PROVE UnitsIn(queue, n)[i] = Cat(s, t)[i]
  <2>1. CASE i \in 1 .. n
    <3>1. (i - 1) \div n = 0 /\ (i - 1) % n = i - 1
      BY <2>1
    <3>2. UnitsIn(queue, n)[i] = <<label, i>>
      BY <1>1, <1>4, <2>1, <3>1
    <3>3. i <= n /\ i \in 1 .. n + m * n
      BY <1>5, <2>1
    <3> QED
      BY <1>3, <1>6, <2>1, <3>2, <3>3
  <2>2. CASE i \in n + 1 .. m * n + n
    <3> DEFINE j == i - n
    <3>1. /\ j \in 1 .. m * n /\ j - 1 \in 0 .. m * n - 1 /\ j - 1 \in Nat /\ ~(i <= n)
          /\ i - 1 = n + (j - 1) /\ i \in 1 .. n + m * n
      <4> DEFINE k == m * n
      <4>1. k \in Nat /\ i \in n + 1 .. k + n
        BY <1>5, <2>2
      <4> HIDE DEF k
      <4>2. /\ j \in 1 .. k /\ j - 1 \in 0 .. k - 1 /\ j - 1 \in Nat /\ ~(i <= n)
            /\ i - 1 = n + (j - 1) /\ i \in 1 .. n + k
        BY <1>5, <4>1
      <4> QED
        BY <4>2 DEF k
    <3>2. t[j] = Cat(s, t)[i]
      BY <1>6, <3>1
    <3> HIDE DEF j
    <3>3. (i - 1) \div n = ((j - 1) \div n) + 1 /\ (i - 1) % n = (j - 1) % n
      <4>1. /\ (n + (j - 1)) \div n = ((j - 1) \div n) + 1
            /\ (n + (j - 1)) % n = (j - 1) % n
        BY <1>1, <3>1, Positions
      <4> QED
        BY <3>1, <4>1
    <3>4. (j - 1) \div n \in 0 .. m - 1
      BY <1>1, <3>1, Positions
    <3>5. ((j - 1) \div n) + 1 \in 1 .. m
      BY <1>1, <3>4
    <3>6. rest[((j - 1) \div n) + 1] = queue[((i - 1) \div n) + 1]
      BY <1>1, <3>3, <3>5
    <3>7. UnitsIn(queue, n)[i] = t[j]
      BY <1>2, <1>4, <3>1, <3>3, <3>6
    <3> QED
      BY <3>2, <3>7
  <2> QED
    BY <1>5, <2>1, <2>2
<1>8. n + m * n = m * n + n
  BY <1>5
<1> QED
  BY <1>4, <1>6, <1>7, <1>8, SeqEqual DEF label, rest, s, t

\* The stream of BlockStream, as RenderSpec maps it.
TheStream == render_blocker \o Accepted

LEMMA StreamIs ==
  ASSUME Inv
  PROVE  /\ FrameLength \in {5, 10}
         /\ Accepted = UnitsIn(render_transfer_queue, FrameLength)
         /\ Accepted \in Seq(Unit) /\ render_blocker \in Seq(Unit)
         /\ TheStream = Cat(render_blocker, Accepted)
<1>1. FrameLength \in {5, 10}
  BY FrameLengths DEF Inv, Typed
<1>2. Accepted = UnitsIn(render_transfer_queue, FrameLength)
  BY DEF Accepted, UnitsIn
<1>3. render_transfer_queue \in Seq(Label)
  BY DEF Inv, Typed
<1>4. Accepted \in Seq(Unit)
  BY <1>1, <1>2, <1>3, UnitsInSeq
<1> QED
  BY <1>1, <1>2, <1>4 DEF Inv, Half, TheStream, Cat

\* A frame accepted comes last in the stream.
LEMMA PutMaps ==
  ASSUME Inv, Inv', NEW label \in Label, Queue!Put(label),
         UNCHANGED <<sub_frames, renderVars>>
  PROVE  Render!Accept(UnitsOf(label, FrameLength))
<1> DEFINE f == UnitsOf(label, FrameLength)
           A == Accepted
           B == Accepted'
<1>1. /\ FrameLength' = FrameLength /\ render_blocker' = render_blocker /\ rendered' = rendered
      /\ render_transfer_queue' = Append(render_transfer_queue, label)
  BY DEF Queue!Put, FrameLength, renderVars
<1>2. /\ FrameLength \in {5, 10} /\ A \in Seq(Unit) /\ render_blocker \in Seq(Unit)
      /\ A = UnitsIn(render_transfer_queue, FrameLength)
      /\ TheStream = Cat(render_blocker, A)
  BY StreamIs
<1>3. B = UnitsIn(render_transfer_queue', FrameLength) /\ TheStream' = Cat(render_blocker, B)
  BY <1>1, StreamIs DEF Accepted, UnitsIn, TheStream, Cat
<1>4. B = Cat(A, f)
  <2>1. render_transfer_queue \in Seq(Label)
    BY DEF Inv, Typed
  <2> QED
    BY <1>1, <1>2, <1>3, <2>1, UnitsPut
<1>5. f \in Seq(Unit)
  BY <1>2, UnitsOfSeq
<1> HIDE DEF f, A, B
<1>6. Cat(render_blocker, Cat(A, f)) = Cat(Cat(render_blocker, A), f)
  BY <1>2, <1>5, CatAssociative
<1>7. TheStream' = TheStream \o f
  BY <1>2, <1>3, <1>4, <1>6 DEF Cat
<1> QED
  BY <1>1, <1>7 DEF Render!Accept, TheStream, f

\* The blocks of a frame taken come first in it.
LEMMA TakeMaps ==
  ASSUME Inv, BufferRenderFrame
  PROVE  Render!Deliver
<1> DEFINE f == UnitsOf(render_queue_output_frame', FrameLength)
           A == Accepted
           B == Accepted'
           blocker == render_blocker'
           blocks == rendered'
<1>1. /\ render_transfer_queue # <<>>
      /\ render_transfer_queue' = Tail(render_transfer_queue)
      /\ render_queue_output_frame' = Head(render_transfer_queue)
      /\ render_queue_output_frame' \in Label
      /\ Inv'
  BY BufferRenderFrameKeeps
<1>2. /\ blocks \in Seq(Unit) /\ blocker \in Seq(Unit)
      /\ Len(blocks) = 4 \/ Len(blocks) = 8 \/ Len(blocks) = 12
      /\ Cat(blocks, blocker) = Cat(render_blocker, f)
  BY <1>1, RenderWhole DEF Half
<1>3. FrameLength' = FrameLength
  BY Zenon DEF BufferRenderFrame, FrameLength
<1>4. /\ FrameLength \in {5, 10} /\ A \in Seq(Unit) /\ render_blocker \in Seq(Unit)
      /\ A = UnitsIn(render_transfer_queue, FrameLength)
      /\ TheStream = Cat(render_blocker, A)
  BY StreamIs
<1>5. /\ B = UnitsIn(render_transfer_queue', FrameLength)
      /\ TheStream' = Cat(blocker, B)
  BY <1>3 DEF Accepted, UnitsIn, TheStream, Cat
<1>6. render_transfer_queue \in Seq(Label) /\ render_transfer_queue' \in Seq(Label)
  BY <1>1 DEF Inv, Typed
<1>7. A = Cat(f, B)
  BY <1>1, <1>4, <1>5, <1>6, UnitsTaken
<1>8. f \in Seq(Unit) /\ B \in Seq(Unit)
  BY <1>1, <1>4, <1>5, <1>6, UnitsOfSeq, UnitsInSeq
<1> HIDE DEF f, A, B, blocker, blocks
<1>9. /\ Cat(render_blocker, Cat(f, B)) = Cat(Cat(render_blocker, f), B)
      /\ Cat(Cat(blocks, blocker), B) = Cat(blocks, Cat(blocker, B))
  BY <1>2, <1>4, <1>8, CatAssociative
<1>10. TheStream = Cat(blocks, TheStream')
  BY <1>2, <1>4, <1>5, <1>7, <1>9
<1>11. TheStream' \in Seq(Unit)
  BY <1>2, <1>5, <1>8, CatSeq
<1> DEFINE n == Len(blocks)
           s == TheStream
           t == TheStream'
<1>12. /\ First(Cat(blocks, t), n) = blocks /\ Rest(Cat(blocks, t), n) = t
       /\ Len(Cat(blocks, t)) = n + Len(t)
  BY <1>2, <1>11, PartsOfCat, CatSeq
<1>13. blocks = SubSeq(s, 1, n) /\ t = SubSeq(s, n + 1, Len(s)) /\ Len(s) = n + Len(t)
  BY <1>10, <1>12 DEF First, Rest
<1>14. Len(t) \in Nat
  BY <1>11
<1> HIDE DEF t, s
<1>15. n \in 1 .. Len(s) /\ n % kBlockSize = 0
  <2>1. n \in 1 .. 12 /\ n % 4 = 0
    <3> HIDE DEF n
    <3>1. n = 4 \/ n = 8 \/ n = 12
      BY <1>2 DEF n
    <3>2. 4 % 4 = 0 /\ 8 % 4 = 0 /\ 12 % 4 = 0
      OBVIOUS
    <3> QED
      BY <3>1, <3>2
  <2> HIDE DEF n
  <2> QED
    BY <1>13, <1>14, <2>1 DEF kBlockSize
<1>16. \E k \in 1 .. Len(s) : /\ k % kBlockSize = 0
                               /\ blocks = SubSeq(s, 1, k)
                               /\ t = SubSeq(s, k + 1, Len(s))
  BY <1>13, <1>15
<1> QED
  BY <1>16 DEF Render!Deliver, TheStream, blocks, s, t

\* The block processor gets the render frames that the queue accepted whole
\* and in order, in whole blocks, and nothing else, for every size of the queue
\* and however the two threads interleave.
THEOREM RenderIsCut == Spec => RenderSpec
<1>1. Init => Render!Init
  <2> SUFFICES ASSUME Init PROVE Render!Init
    OBVIOUS
  <2>1. render_blocker = <<>> /\ rendered = <<>> /\ render_transfer_queue = <<>>
    BY DEF Init, Queue!Init
  <2>2. FrameLength \in {5, 10} /\ Accepted \in Seq(Unit)
        /\ Accepted = UnitsIn(render_transfer_queue, FrameLength)
    BY InitKeeps, StreamIs
  <2>3. <<>> \in Seq(Label) /\ Len(<<>>) = 0
    OBVIOUS
  <2>4. Len(Accepted) = 0
    <3>1. Len(UnitsIn(<<>>, FrameLength)) = 0 * FrameLength
      BY <2>2, <2>3, UnitsInSeq
    <3> QED
      BY <2>1, <2>2, <3>1
  <2>5. Accepted = <<>>
    BY <2>2, <2>4, EmptySeq
  <2>6. <<>> \o <<>> = <<>>
    OBVIOUS
  <2> QED
    BY <2>1, <2>5, <2>6 DEF Render!Init
<1>2. Inv /\ Inv' /\ [Next]_vars => [Render!Next]_Render!vars
  <2> SUFFICES ASSUME Inv, Inv', [Next]_vars PROVE [Render!Next]_Render!vars
    OBVIOUS
  <2>1. ASSUME UNCHANGED <<sub_frames, queueVars, renderVars>> PROVE UNCHANGED Render!vars
    BY <2>1 DEF queueVars, renderVars, Render!vars, Accepted, FrameLength
  <2>2. ASSUME NEW label \in Label, AnalyzeRender(label) PROVE [Render!Next]_Render!vars
    <3>1. CASE Queue!Put(label)
      <4>1. UNCHANGED <<sub_frames, renderVars>>
        BY <2>2 DEF AnalyzeRender
      <4>2. Render!Accept(UnitsOf(label, FrameLength))
        BY <3>1, <4>1, PutMaps
      <4>3. UnitsOf(label, FrameLength) \in {UnitsOf(any, FrameLength) : any \in Label}
        OBVIOUS
      <4> QED
        BY <4>2, <4>3 DEF Render!Next
    <3>2. CASE UNCHANGED queueVars
      BY <2>1, <2>2, <3>2 DEF AnalyzeRender
    <3> QED
      BY <2>2, <3>1, <3>2 DEF AnalyzeRender
  <2>3. ASSUME NEW label \in Label, BeginProcessCapture(label) PROVE UNCHANGED Render!vars
    BY <2>1, <2>3 DEF BeginProcessCapture
  <2>4. CASE BufferRenderFrame
    BY <2>4, TakeMaps DEF Render!Next
  <2>5. CASE EndProcessCapture
    BY <2>1, <2>5 DEF EndProcessCapture
  <2>6. CASE UNCHANGED vars
    BY <2>1, <2>6 DEF vars
  <2> QED
    BY <2>2, <2>3, <2>4, <2>5, <2>6 DEF Next
<1> QED
  BY <1>1, <1>2, Invariance, PTL DEF Spec, RenderSpec, Render!Spec
=============================================================================
