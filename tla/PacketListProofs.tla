-------------------------- MODULE PacketListProofs --------------------------
(***************************************************************************)
(* What the operations of the list of packets keep and lose, for lists of  *)
(* any length: the facts about packet_buffer.cc that the proofs about      *)
(* NetEq and about the buffer on its own rest on.  The functions the list  *)
(* is recursively defined by are reasoned about by induction, which is     *)
(* stated here of sets of numbers.                                         *)
(***************************************************************************)
EXTENDS PacketList, SequenceTheorems, WellFoundedInduction, TLAPS

(* Induction *)

Less == {mn \in Nat \X Nat : mn[1] < mn[2]}

LEMMA LessWellFounded == IsWellFoundedOn(Less, Nat)
BY NatLessThanWellFounded DEF OpToRel, Less

\* A set of numbers that is not empty has a smallest.
LEMMA Smallest ==
  ASSUME NEW T \in SUBSET Nat, T # {}
  PROVE  \E n \in T : \A m \in T : n <= m
<1>1. PICK n \in T : \A m \in T : ~ (<<m, n>> \in Less)
  BY LessWellFounded, WFMin
<1>2. ASSUME NEW m \in T PROVE n <= m
  <2>1. <<m, n>> \notin Less
    BY <1>1
  <2>2. <<m, n>> \in Nat \X Nat /\ <<m, n>>[1] = m /\ <<m, n>>[2] = n
    OBVIOUS
  <2>3. ~(m < n)
    BY <2>1, <2>2 DEF Less
  <2> QED
    BY <2>3
<1> QED
  BY <1>2

\* A set that holds 0 and with every number up to n the next holds all of them.
LEMMA Induction ==
  ASSUME NEW n \in Nat, NEW T, 0 \in T, \A i \in 0 .. n - 1 : i \in T => i + 1 \in T
  PROVE  0 .. n \subseteq T
<1>1. SUFFICES ASSUME (0 .. n) \ T # {} PROVE FALSE
  OBVIOUS
<1>2. (0 .. n) \ T \in SUBSET Nat
  OBVIOUS
<1>3. PICK k \in (0 .. n) \ T : \A m \in (0 .. n) \ T : k <= m
  BY <1>1, <1>2, Smallest
<1>4. k # 0 /\ k - 1 \in 0 .. n - 1 /\ (k - 1) + 1 = k
  BY <1>3
<1>5. k - 1 \notin (0 .. n) \ T
  BY <1>3, <1>4
<1> QED
  BY <1>3, <1>4, <1>5

\* A function over 0 .. n can be defined by its first value and its steps.
Definable(k, S, base, step) ==
  \E f \in [0 .. k -> S] : f[0] = base /\ \A i \in 1 .. k : f[i] = step[i][f[i - 1]]

LEMMA Recursion ==
  ASSUME NEW n \in Nat, NEW S, NEW base \in S, NEW step \in [1 .. n -> [S -> S]]
  PROVE  Definable(n, S, base, step)
<1> DEFINE Upto(k) == \E f \in [0 .. k -> S] :
                        f[0] = base /\ \A i \in 1 .. k : f[i] = step[i][f[i - 1]]
           T == {k \in 0 .. n : Upto(k)}
<1>1. 0 \in T
  <2> DEFINE f == [i \in 0 .. 0 |-> base]
  <2>1. f \in [0 .. 0 -> S] /\ f[0] = base
    OBVIOUS
  <2>2. \A i \in 1 .. 0 : f[i] = step[i][f[i - 1]]
    OBVIOUS
  <2> HIDE DEF f
  <2>3. Upto(0)
    BY <2>1, <2>2, Zenon
  <2> QED
    BY <2>3
<1>2. ASSUME NEW k \in 0 .. n - 1, k \in T PROVE k + 1 \in T
  <2>1. PICK f \in [0 .. k -> S] :
          f[0] = base /\ \A i \in 1 .. k : f[i] = step[i][f[i - 1]]
    BY <1>2
  <2> DEFINE g == [i \in 0 .. k + 1 |-> IF i = k + 1 THEN step[k + 1][f[k]] ELSE f[i]]
  <2>2. step[k + 1][f[k]] \in S
    <3>1. k + 1 \in 1 .. n /\ f[k] \in S
      BY <2>1
    <3> QED
      BY <3>1
  <2>3. g \in [0 .. k + 1 -> S]
    BY <2>1, <2>2
  <2>4. g[0] = base
    BY <2>1
  <2>5. ASSUME NEW i \in 1 .. k + 1 PROVE g[i] = step[i][g[i - 1]]
    <3>1. CASE i = k + 1
      BY <3>1
    <3>2. CASE i \in 1 .. k
      <4>1. g[i] = f[i] /\ g[i - 1] = f[i - 1]
        BY <3>2
      <4> QED
        BY <2>1, <3>2, <4>1
    <3> QED
      BY <3>1, <3>2
  <2>6. Upto(k + 1)
    <3> HIDE DEF g
    <3> QED
      BY <2>3, <2>4, <2>5
  <2> QED
    BY <2>6
<1> HIDE DEF T
<1>3. 0 .. n \subseteq T
  BY <1>1, <1>2, Induction
<1>4. n \in T
  BY <1>3
<1> QED
  BY <1>4 DEF T, Definable

-----------------------------------------------------------------------------
(* The members of a set in a list *)

LEMMA Members ==
  ASSUME NEW T, NEW list \in Seq(T)
  PROVE  /\ ToSet(list) \subseteq T
         /\ \A x : x \in ToSet(list) <=> \E i \in 1 .. Len(list) : x = list[i]
BY DEF ToSet

\* Function f finds the first i members of the list that are in S again, in
\* their order, in sub.
Finds(f, sub, S, list, i) ==
  /\ f \in [1 .. Len(sub) -> 1 .. i]
  /\ \A j, k \in 1 .. Len(sub) : j < k => f[j] < f[k]
  /\ \A k \in 1 .. Len(sub) : sub[k] = list[f[k]] /\ sub[k] \in S
  /\ \A j \in 1 .. i : list[j] \in S => \E k \in 1 .. Len(sub) : f[k] = j

\* The recursive function of Those exists.
LEMMA ThoseUnfolds ==
  ASSUME NEW T, NEW list \in Seq(T), NEW S
  PROVE  \E those :
           /\ Those(S, list) = those[Len(list)]
           /\ those[0] = <<>>
           /\ \A i \in 1 .. Len(list) :
                those[i] = IF list[i] \in S THEN Append(those[i - 1], list[i])
                                            ELSE those[i - 1]
<1> DEFINE n == Len(list)
           Steps(f) == f = [i \in 0 .. n |->
                              IF i = 0 THEN <<>>
                              ELSE IF list[i] \in S THEN Append(f[i - 1], list[i])
                                                    ELSE f[i - 1]]
           step == [i \in 1 .. n |-> [x \in Seq(T) |->
                      IF list[i] \in S THEN Append(x, list[i]) ELSE x]]
<1>1. n \in Nat /\ <<>> \in Seq(T) /\ \A i \in 1 .. n : list[i] \in T
  OBVIOUS
<1>2. step \in [1 .. n -> [Seq(T) -> Seq(T)]]
  BY <1>1
<1>3. PICK f \in [0 .. n -> Seq(T)] :
        f[0] = <<>> /\ \A i \in 1 .. n : f[i] = step[i][f[i - 1]]
  <2> DEFINE Lists == Seq(T)
  <2>1. n \in Nat /\ <<>> \in Lists /\ step \in [1 .. n -> [Lists -> Lists]]
    BY <1>1, <1>2
  <2> HIDE DEF n, step, Lists
  <2>2. Definable(n, Lists, <<>>, step)
    BY <2>1, Recursion
  <2> QED
    BY <2>2 DEF Definable, Lists
<1>4. Steps(f)
  <2>1. ASSUME NEW i \in 1 .. n
        PROVE  f[i] = IF list[i] \in S THEN Append(f[i - 1], list[i]) ELSE f[i - 1]
    <3>1. f[i - 1] \in Seq(T)
      BY <1>1
    <3> QED
      BY <1>3, <3>1
  <2> HIDE DEF n
  <2>2. \A i \in 0 .. n : i = 0 \/ i \in 1 .. n
    BY <1>1
  <2>3. f = [i \in 0 .. n |-> f[i]]
    OBVIOUS
  <2>4. \A i \in 0 .. n : f[i] = IF i = 0 THEN <<>>
                                 ELSE IF list[i] \in S THEN Append(f[i - 1], list[i])
                                                       ELSE f[i - 1]
    BY <1>3, <2>1, <2>2
  <2> QED
    BY <2>3, <2>4, Zenon
<1> HIDE DEF Steps
<1> DEFINE those == CHOOSE g : Steps(g)
<1>5. Steps(those)
  BY <1>4
<1>6. Those(S, list) = those[n]
  BY DEF Those, Steps
<1> HIDE DEF those
<1>7. \A i \in 0 .. n : those[i] = IF i = 0 THEN <<>>
                                  ELSE IF list[i] \in S THEN Append(those[i - 1], list[i])
                                                        ELSE those[i - 1]
  BY <1>5, Zenon DEF Steps
<1>8. 0 \in 0 .. n /\ \A i \in 1 .. n : i \in 0 .. n /\ i # 0
  BY <1>1
<1> QED
  BY <1>6, <1>7, <1>8

\* One member more of the list, taken or left.
LEMMA FindsMore ==
  ASSUME NEW T, NEW list \in Seq(T), NEW S, NEW i \in Nat, i + 1 <= Len(list),
         NEW sub \in Seq(T), NEW f, Finds(f, sub, S, list, i), Len(sub) <= i
  PROVE  LET more == IF list[i + 1] \in S THEN Append(sub, list[i + 1]) ELSE sub
         IN  /\ more \in Seq(T) /\ Len(more) <= i + 1
             /\ \E g : Finds(g, more, S, list, i + 1)
<1>1. list[i + 1] \in T /\ Len(sub) \in Nat
  OBVIOUS
<1>2. CASE list[i + 1] \notin S
  <2>1. f \in [1 .. Len(sub) -> 1 .. i + 1]
    BY <1>1 DEF Finds
  <2>2. \A j \in 1 .. i + 1 : list[j] \in S => j \in 1 .. i
    BY <1>2
  <2>3. Finds(f, sub, S, list, i + 1)
    BY <2>1, <2>2 DEF Finds
  <2> QED
    BY <1>2, <2>3
<1>3. CASE list[i + 1] \in S
  <2> DEFINE more == Append(sub, list[i + 1])
             n == Len(sub) + 1
             g == [k \in 1 .. n |-> IF k = n THEN i + 1 ELSE f[k]]
  <2>1. /\ more \in Seq(T) /\ Len(more) = n /\ more[n] = list[i + 1]
        /\ \A k \in 1 .. Len(sub) : more[k] = sub[k]
    BY <1>1, AppendProperties
  <2>2. \A k \in 1 .. n : k = n \/ k \in 1 .. Len(sub)
    BY <1>1
  <2>3. /\ \A k \in 1 .. Len(sub) : f[k] \in 1 .. i /\ g[k] = f[k]
        /\ g[n] = i + 1 /\ n \in 1 .. n
    BY <1>1 DEF Finds
  <2>4. g \in [1 .. n -> 1 .. i + 1]
    <3>1. ASSUME NEW k \in 1 .. n PROVE g[k] \in 1 .. i + 1
      <4> HIDE DEF g
      <4>1. CASE k = n
        BY <2>3, <4>1
      <4>2. CASE k \in 1 .. Len(sub)
        BY <2>3, <4>2
      <4> QED
        BY <2>2, <4>1, <4>2
    <3> QED
      BY <3>1, Zenon
  <2> HIDE DEF g, more
  <2>5. \A j, k \in 1 .. n : j < k => g[j] < g[k]
    <3> SUFFICES ASSUME NEW j \in 1 .. n, NEW k \in 1 .. n, j < k PROVE g[j] < g[k]
      OBVIOUS
    <3>1. j \in 1 .. Len(sub)
      BY <1>1
    <3>2. CASE k = n
      BY <2>3, <3>1, <3>2
    <3>3. CASE k \in 1 .. Len(sub)
      BY <2>3, <3>1, <3>3 DEF Finds
    <3> QED
      BY <2>2, <3>2, <3>3
  <2>6. \A k \in 1 .. n : more[k] = list[g[k]] /\ more[k] \in S
    <3> SUFFICES ASSUME NEW k \in 1 .. n PROVE more[k] = list[g[k]] /\ more[k] \in S
      OBVIOUS
    <3>1. CASE k = n
      BY <1>3, <2>1, <2>3, <3>1
    <3>2. CASE k \in 1 .. Len(sub)
      BY <2>1, <2>3, <3>2 DEF Finds
    <3> QED
      BY <2>2, <3>1, <3>2
  <2>7. \A j \in 1 .. i + 1 : list[j] \in S => \E k \in 1 .. n : g[k] = j
    <3> SUFFICES ASSUME NEW j \in 1 .. i + 1, list[j] \in S
                 PROVE  \E k \in 1 .. n : g[k] = j
      OBVIOUS
    <3>1. CASE j = i + 1
      BY <2>3, <3>1
    <3>2. CASE j \in 1 .. i
      <4>1. PICK k \in 1 .. Len(sub) : f[k] = j
        BY <3>2 DEF Finds
      <4> QED
        BY <1>1, <2>3, <4>1
    <3> QED
      BY <3>1, <3>2
  <2>8. Finds(g, more, S, list, i + 1)
    BY <2>1, <2>4, <2>5, <2>6, <2>7 DEF Finds
  <2> QED
    BY <1>1, <1>3, <2>1, <2>8 DEF more
<1> QED
  BY <1>2, <1>3

\* The members of a set in a list are found at places of it, in their order.
LEMMA ThoseFound ==
  ASSUME NEW T, NEW list \in Seq(T), NEW S
  PROVE  /\ Those(S, list) \in Seq(T) /\ Len(Those(S, list)) <= Len(list)
         /\ \E f : Finds(f, Those(S, list), S, list, Len(list))
<1>1. PICK those :
        /\ Those(S, list) = those[Len(list)]
        /\ those[0] = <<>>
        /\ \A i \in 1 .. Len(list) :
             those[i] = IF list[i] \in S THEN Append(those[i - 1], list[i])
                                         ELSE those[i - 1]
  BY ThoseUnfolds
<1> DEFINE Found(i) == /\ those[i] \in Seq(T) /\ Len(those[i]) <= i
                       /\ \E f : Finds(f, those[i], S, list, i)
           F == {i \in 0 .. Len(list) : Found(i)}
<1>2. 0 \in F
  <2> DEFINE f == [k \in 1 .. 0 |-> 0]
  <2>1. Len(those[0]) = 0 /\ those[0] \in Seq(T)
    BY <1>1
  <2>2. Finds(f, those[0], S, list, 0)
    BY <2>1 DEF Finds
  <2> HIDE DEF f
  <2> QED
    BY <2>1, <2>2
<1>3. ASSUME NEW i \in 0 .. Len(list) - 1, i \in F PROVE i + 1 \in F
  <2>1. i \in Nat /\ i + 1 <= Len(list) /\ i + 1 \in 1 .. Len(list) /\ (i + 1) - 1 = i
    OBVIOUS
  <2>2. those[i + 1] = IF list[i + 1] \in S THEN Append(those[i], list[i + 1]) ELSE those[i]
    BY <1>1, <2>1
  <2>3. PICK f : Finds(f, those[i], S, list, i)
    BY <1>3
  <2>4. those[i] \in Seq(T) /\ Len(those[i]) <= i
    BY <1>3
  <2> DEFINE more == IF list[i + 1] \in S THEN Append(those[i], list[i + 1])
                                         ELSE those[i]
  <2>5. /\ more \in Seq(T) /\ Len(more) <= i + 1
        /\ \E g : Finds(g, more, S, list, i + 1)
    BY <2>1, <2>3, <2>4, FindsMore
  <2> HIDE DEF more
  <2>6. those[i + 1] = more
    BY <2>2 DEF more
  <2>7. Found(i + 1)
    BY <2>5, <2>6
  <2> QED
    BY <2>1, <2>7
<1> HIDE DEF F
<1>4. 0 .. Len(list) \subseteq F
  BY <1>2, <1>3, Induction
<1>5. Len(list) \in 0 .. Len(list)
  OBVIOUS
<1>6. Found(Len(list))
  BY <1>4, <1>5 DEF F
<1> QED
  BY <1>1, <1>6

\* They are the members of both.
LEMMA ThoseMembers ==
  ASSUME NEW T, NEW list \in Seq(T), NEW S
  PROVE  ToSet(Those(S, list)) = ToSet(list) \cap S
<1>1. PICK f : Finds(f, Those(S, list), S, list, Len(list))
  BY ThoseFound
<1>2. Those(S, list) \in Seq(T)
  BY ThoseFound
<1>3. ASSUME NEW x \in ToSet(Those(S, list)) PROVE x \in ToSet(list) \cap S
  <2>1. PICK k \in 1 .. Len(Those(S, list)) : x = Those(S, list)[k]
    BY <1>2, Members
  <2>2. x = list[f[k]] /\ x \in S /\ f[k] \in 1 .. Len(list)
    BY <1>1, <2>1 DEF Finds
  <2> QED
    BY <2>2, Members
<1>4. ASSUME NEW x \in ToSet(list), x \in S PROVE x \in ToSet(Those(S, list))
  <2>1. PICK j \in 1 .. Len(list) : x = list[j]
    BY Members
  <2>2. PICK k \in 1 .. Len(Those(S, list)) : f[k] = j
    BY <1>1, <1>4, <2>1 DEF Finds
  <2>3. Those(S, list)[k] = x
    BY <1>1, <2>1, <2>2 DEF Finds
  <2> QED
    BY <1>2, <2>3, Members
<1> QED
  BY <1>3, <1>4

-----------------------------------------------------------------------------
(* Times and timestamps *)

LEMMA Times ==
  ASSUME NEW d \in Nat, NEW a \in Int, NEW b \in Int, a <= b
  PROVE  d * a <= d * b
<1>1. b - a \in Nat /\ b = a + (b - a)
  OBVIOUS
<1>2. d * (b - a) \in Nat
  BY <1>1
<1>3. d * (a + (b - a)) = d * a + d * (b - a)
  OBVIOUS
<1> QED
  BY <1>1, <1>2, <1>3

\* Remainders of numbers less than one turn apart.
LEMMA Remainders ==
  ASSUME NEW d \in Nat \ {0}, NEW x \in Int, NEW y \in Int, x - y \in 0 .. d - 1
  PROVE  /\ x % d \in 0 .. d - 1 /\ y % d \in 0 .. d - 1
         /\ \/ x % d >= y % d /\ (x % d) - (y % d) = x - y
            \/ x % d < y % d /\ (x % d) - (y % d) + d = x - y
<1> DEFINE q == x \div d
           p == y \div d
           r == x % d
           s == y % d
<1>1. /\ x = (d * q) + r /\ r \in 0 .. d - 1 /\ q \in Int
      /\ y = (d * p) + s /\ s \in 0 .. d - 1 /\ p \in Int
  OBVIOUS
<1> HIDE DEF p, q, r, s
<1>2. q = p \/ q = p + 1
  <2>1. CASE q > p + 1
    <3>1. d * (p + 2) <= d * q
      BY <1>1, <2>1, Times
    <3>2. d * (p + 2) = d * p + d + d
      BY <1>1
    <3> QED
      BY <1>1, <3>1, <3>2
  <2>2. CASE q < p
    <3>1. d * q <= d * (p - 1)
      BY <1>1, <2>2, Times
    <3>2. d * (p - 1) = d * p - d
      BY <1>1
    <3> QED
      BY <1>1, <3>1, <3>2
  <2> QED
    BY <1>1, <2>1, <2>2
<1>3. CASE q = p
  <2>1. r - s = x - y
    BY <1>1, <1>3
  <2> QED
    BY <1>1, <2>1 DEF r, s
<1>4. CASE q = p + 1
  <2>1. d * (p + 1) = d * p + d
    BY <1>1
  <2>2. r - s + d = x - y
    BY <1>1, <1>4, <2>1
  <2> QED
    BY <1>1, <2>2 DEF r, s
<1> QED
  BY <1>2, <1>3, <1>4

\* Of times less than one turn apart the timestamps tell the distance.
LEMMA Distance ==
  ASSUME NEW x \in Int, NEW y \in Int, x - y \in 0 .. 2 * HalfTs - 1
  PROVE  /\ Ts(x) \in Serial(HalfTs) /\ Ts(y) \in Serial(HalfTs)
         /\ Minus(Ts(x), Ts(y), HalfTs) = x - y
         /\ x # y => /\ Ts(x) # Ts(y)
                     /\ Minus(Ts(y), Ts(x), HalfTs) = y - x + 2 * HalfTs
         /\ x = y => Minus(Ts(y), Ts(x), HalfTs) = 0
<1> DEFINE d == 2 * HalfTs
           r == x % d
           s == y % d
<1>1. d \in Nat \ {0} /\ HalfTs \in Nat /\ x - y \in 0 .. d - 1
  BY CircleAssumption
<1> HIDE DEF d
<1>2. /\ r \in 0 .. d - 1 /\ s \in 0 .. d - 1
      /\ \/ r >= s /\ r - s = x - y
         \/ r < s /\ r - s + d = x - y
  BY <1>1, Remainders
<1>3. Ts(x) = r /\ Ts(y) = s
  BY DEF Ts, d
<1> HIDE DEF r, s
<1>4. /\ Minus(r, s, HalfTs) = IF r >= s THEN r - s ELSE r - s + d
      /\ Minus(s, r, HalfTs) = IF s >= r THEN s - r ELSE s - r + d
      /\ Serial(HalfTs) = 0 .. d - 1
  BY DEF Minus, Serial, d
<1>5. Minus(r, s, HalfTs) = x - y
  BY <1>1, <1>2, <1>4
<1>6. x # y => r # s /\ Minus(s, r, HalfTs) = y - x + d
  BY <1>1, <1>2, <1>4
<1>7. x = y => Minus(s, r, HalfTs) = 0
  BY <1>1, <1>2, <1>4
<1> QED
  BY <1>2, <1>3, <1>4, <1>5, <1>6, <1>7 DEF d

\* The timestamps of times less than half the circle apart are ordered as the
\* times are.
LEMMA NewerTimes ==
  ASSUME NEW x \in Int, NEW y \in Int, y - x \in 1 - HalfTs .. HalfTs - 1
  PROVE  IsNewer(Ts(y), Ts(x), HalfTs) <=> x < y
<1> DEFINE m == Minus(Ts(y), Ts(x), HalfTs)
<1>1. HalfTs \in Nat \ {0}
  BY CircleAssumption
<1>2. IsNewer(Ts(y), Ts(x), HalfTs)
        <=> (m = HalfTs /\ Ts(y) > Ts(x)) \/ (Ts(y) # Ts(x) /\ m < HalfTs)
  BY Zenon DEF IsNewer
<1>3. CASE y - x \in 0 .. HalfTs - 1
  <2>1. y - x \in 0 .. 2 * HalfTs - 1
    BY <1>1, <1>3
  <2>2. m = y - x /\ (x # y => Ts(x) # Ts(y))
    BY <2>1, Distance
  <2>3. m < HalfTs /\ m # HalfTs /\ (x < y <=> x # y)
    BY <1>1, <1>3, <2>2
  <2> HIDE DEF m
  <2> QED
    BY <1>2, <2>2, <2>3
<1>4. CASE x - y \in 1 .. HalfTs - 1
  <2>1. x - y \in 0 .. 2 * HalfTs - 1 /\ x # y
    BY <1>1, <1>4
  <2>2. m = y - x + 2 * HalfTs
    BY <2>1, Distance
  <2> HIDE DEF m
  <2>3. ~(m = HalfTs \/ m < HalfTs) /\ ~(x < y)
    BY <1>1, <1>4, <2>2
  <2> QED
    BY <1>2, <2>3
<1> QED
  BY <1>1, <1>3, <1>4

\* What lies k behind a timestamp.
LEMMA TsMinus ==
  ASSUME NEW x \in Int, NEW k \in 0 .. 2 * HalfTs - 1
  PROVE  Minus(Ts(x), k, HalfTs) = Ts(x - k)
<1> DEFINE y == x - k
           a == Ts(x)
           b == Ts(y)
<1>1. y \in Int /\ x - y \in 0 .. 2 * HalfTs - 1 /\ x - y = k /\ HalfTs \in Nat /\ k \in Int
  BY CircleAssumption
<1> HIDE DEF y
<1>2. /\ a \in Serial(HalfTs) /\ b \in Serial(HalfTs) /\ Minus(a, b, HalfTs) = k
  BY <1>1, Distance
<1> HIDE DEF a, b
<1>3. Minus(a, k, HalfTs) = b
  BY <1>1, <1>2 DEF Minus, Serial
<1> QED
  BY <1>3 DEF a, b, y

\* Times within half the circle of one another.
Close(x, y) == x - y \in -(HalfTs - 2) .. HalfTs - 2

\* Their timestamps are equal, and ordered, as they are.
LEMMA NearTimes ==
  ASSUME NEW x \in Nat, NEW y \in Nat, Close(x, y)
  PROVE  /\ Ts(x) = Ts(y) <=> x = y
         /\ x < y => Minus(Ts(y), Ts(x), HalfTs) < HalfTs - 1
         /\ y < x => ~(Minus(Ts(y), Ts(x), HalfTs) < HalfTs - 1)
<1>1. HalfTs \in Nat \ {0}
  BY CircleAssumption
<1>2. CASE x < y
  <2>1. y - x \in 0 .. 2 * HalfTs - 1
    BY <1>1, <1>2 DEF Close
  <2>2. Minus(Ts(y), Ts(x), HalfTs) = y - x /\ Ts(x) # Ts(y)
    BY <1>2, <2>1, Distance
  <2> QED
    BY <1>1, <1>2, <2>2 DEF Close
<1>3. CASE y < x
  <2>1. x - y \in 0 .. 2 * HalfTs - 1
    BY <1>1, <1>3 DEF Close
  <2>2. Minus(Ts(y), Ts(x), HalfTs) = y - x + 2 * HalfTs /\ Ts(x) # Ts(y)
    BY <1>3, <2>1, Distance
  <2> QED
    BY <1>1, <1>3, <2>2 DEF Close
<1> QED
  BY <1>2, <1>3

-----------------------------------------------------------------------------
(* Where a packet is placed *)

\* A set of numbers up to n that is not empty has a largest.
LEMMA Largest ==
  ASSUME NEW n \in Nat, NEW T \in SUBSET (1 .. n), T # {}
  PROVE  Max(T) \in T /\ \A i \in T : i <= Max(T)
<1> DEFINE U == {n - i : i \in T}
<1>1. U \in SUBSET Nat /\ U # {}
  <2>1. \A i \in T : n - i \in Nat
    OBVIOUS
  <2>2. U \subseteq Nat
    BY <2>1
  <2>3. PICK i : i \in T
    OBVIOUS
  <2>4. n - i \in U
    BY <2>3
  <2> QED
    BY <2>2, <2>4
<1>2. PICK u \in U : \A v \in U : u <= v
  <2> HIDE DEF U
  <2> QED
    BY <1>1, Smallest
<1>3. PICK k \in T : u = n - k
  OBVIOUS
<1>4. ASSUME NEW i \in T PROVE k >= i
  <2>1. n - i \in U
    OBVIOUS
  <2> QED
    BY <1>2, <1>3, <2>1
<1>5. Max(T) \in T /\ \A i \in T : Max(T) >= i
  BY <1>4, Zenon DEF Max
<1>6. T \subseteq Int
  OBVIOUS
<1> QED
  BY <1>5, <1>6

\* A list with one member more.
\* The list new of members of T is the list with e put at place i.
InsertedAt(T, list, i, e, new) ==
  /\ new \in Seq(T) /\ Len(new) = Len(list) + 1
  /\ \A j \in 1 .. Len(list) + 1 :
       new[j] = IF j < i THEN list[j] ELSE IF j = i THEN e ELSE list[j - 1]

LEMMA Inserted ==
  ASSUME NEW T, NEW list \in Seq(T), NEW i \in 1 .. Len(list) + 1, NEW e \in T
  PROVE  InsertedAt(T, list, i, e, InsertAt(list, i, e))
<1> DEFINE head == SubSeq(list, 1, i - 1)
           rest == SubSeq(list, i, Len(list))
           upto == head \o <<e>>
<1>0. /\ \A j \in 1 .. i - 1 : list[j] \in T
      /\ \A j \in i .. Len(list) : list[j] \in T
  OBVIOUS
<1>1. /\ head \in Seq(T) /\ Len(head) = i - 1
      /\ \A j \in 1 .. i - 1 : head[j] = list[j]
  <2>1. /\ head \in Seq(T)
        /\ Len(head) = IF 1 <= i - 1 THEN (i - 1) - 1 + 1 ELSE 0
        /\ \A j \in 1 .. (i - 1) - 1 + 1 : head[j] = list[1 + j - 1]
    BY <1>0, SubSeqProperties
  <2> HIDE DEF head
  <2> QED
    BY <2>1
<1>2. /\ rest \in Seq(T) /\ Len(rest) = Len(list) - i + 1
      /\ \A j \in 1 .. Len(list) - i + 1 : rest[j] = list[i + j - 1]
  <2>1. /\ rest \in Seq(T)
        /\ Len(rest) = IF i <= Len(list) THEN Len(list) - i + 1 ELSE 0
        /\ \A j \in 1 .. Len(list) - i + 1 : rest[j] = list[i + j - 1]
    BY <1>0, SubSeqProperties
  <2> HIDE DEF rest
  <2> QED
    BY <2>1
<1> HIDE DEF head, rest
<1>3. /\ upto \in Seq(T) /\ Len(upto) = i
      /\ \A j \in 1 .. i : upto[j] = IF j <= i - 1 THEN list[j] ELSE e
  <2>1. /\ <<e>> \in Seq(T) /\ Len(<<e>>) = 1 /\ <<e>>[1] = e
    OBVIOUS
  <2>2. /\ upto \in Seq(T) /\ Len(upto) = Len(head) + Len(<<e>>)
        /\ \A j \in 1 .. Len(head) + Len(<<e>>) :
             upto[j] = IF j <= Len(head) THEN head[j] ELSE <<e>>[j - Len(head)]
    BY <1>1, <2>1, ConcatProperties
  <2> HIDE DEF upto
  <2>3. ASSUME NEW j \in 1 .. i PROVE upto[j] = IF j <= i - 1 THEN list[j] ELSE e
    <3>1. upto[j] = IF j <= i - 1 THEN head[j] ELSE <<e>>[j - (i - 1)]
      <4>1. j \in 1 .. Len(head) + Len(<<e>>) /\ Len(head) = i - 1
        BY <1>1, <2>1
      <4>2. upto[j] = IF j <= Len(head) THEN head[j] ELSE <<e>>[j - Len(head)]
        BY <2>2, <4>1, Zenon
      <4> QED
        BY <4>1, <4>2, Zenon
    <3>2. CASE j <= i - 1
      <4>1. j \in 1 .. i - 1
        BY <3>2
      <4> QED
        BY <1>1, <3>1, <3>2, <4>1
    <3>3. CASE ~(j <= i - 1)
      <4>1. j - (i - 1) = 1
        BY <1>1, <3>3
      <4>2. <<e>>[j - (i - 1)] = e
        BY <2>1, <4>1, Zenon
      <4> QED
        BY <3>1, <3>3, <4>2, Zenon
    <3> QED
      BY <3>2, <3>3
  <2> QED
    BY <1>1, <2>1, <2>2, <2>3
<1>4. InsertAt(list, i, e) = upto \o rest
  BY DEF InsertAt, upto, head, rest
<1> HIDE DEF upto
<1>5. /\ upto \o rest \in Seq(T) /\ Len(upto \o rest) = Len(upto) + Len(rest)
      /\ \A j \in 1 .. Len(upto) + Len(rest) :
           (upto \o rest)[j] = IF j <= Len(upto) THEN upto[j] ELSE rest[j - Len(upto)]
  BY <1>2, <1>3, ConcatProperties
<1> DEFINE new == upto \o rest
<1> HIDE DEF new
<1>6. /\ new \in Seq(T) /\ Len(new) = Len(list) + 1
      /\ \A j \in 1 .. Len(list) + 1 : new[j] = IF j <= i THEN upto[j] ELSE rest[j - i]
  BY <1>2, <1>3, <1>5 DEF new
<1>7. ASSUME NEW j \in 1 .. Len(list) + 1
      PROVE  new[j] = IF j < i THEN list[j] ELSE IF j = i THEN e ELSE list[j - 1]
  <2>1. new[j] = IF j <= i THEN upto[j] ELSE rest[j - i]
    BY <1>6
  <2>2. CASE j <= i
    <3>1. j \in 1 .. i /\ (j <= i - 1 <=> j < i)
      BY <2>2
    <3> QED
      BY <1>3, <2>1, <2>2, <3>1
  <2>3. CASE ~(j <= i)
    <3>1. j - i \in 1 .. Len(list) - i + 1 /\ i + (j - i) - 1 = j - 1 /\ ~(j < i) /\ j # i
      BY <2>3
    <3> QED
      BY <1>2, <2>1, <2>3, <3>1
  <2> QED
    BY <2>2, <2>3
<1> QED
  BY <1>4, <1>6, <1>7 DEF new, InsertedAt

LEMMA InsertedMembers ==
  ASSUME NEW T, NEW list \in Seq(T), NEW e \in T, NEW i \in 1 .. Len(list) + 1, NEW new,
         InsertedAt(T, list, i, e, new)
  PROVE  ToSet(new) = ToSet(list) \cup {e}
<1>1. /\ new \in Seq(T)
      /\ \A j \in 1 .. Len(list) + 1 :
           new[j] = IF j < i THEN list[j] ELSE IF j = i THEN e ELSE list[j - 1]
      /\ Len(new) = Len(list) + 1
  BY DEF InsertedAt
<1>2. /\ \A x : x \in ToSet(new) <=> \E j \in 1 .. Len(list) + 1 : x = new[j]
      /\ \A x : x \in ToSet(list) <=> \E j \in 1 .. Len(list) : x = list[j]
  <2>1. \A x : x \in ToSet(new) <=> \E j \in 1 .. Len(new) : x = new[j]
    BY <1>1, Members
  <2>2. \A x : x \in ToSet(list) <=> \E j \in 1 .. Len(list) : x = list[j]
    BY Members
  <2> QED
    BY <1>1, <2>1, <2>2
<1>3. ASSUME NEW j \in 1 .. Len(list) + 1 PROVE new[j] \in ToSet(list) \cup {e}
  <2>1. CASE j < i
    <3>1. j \in 1 .. Len(list) /\ new[j] = list[j]
      BY <1>1, <2>1
    <3> QED
      BY <1>2, <3>1
  <2>2. CASE j = i
    BY <1>1, <2>2
  <2>3. CASE j > i
    <3>1. j - 1 \in 1 .. Len(list) /\ new[j] = list[j - 1]
      BY <1>1, <2>3
    <3> QED
      BY <1>2, <3>1
  <2> QED
    BY <2>1, <2>2, <2>3
<1>4. e \in ToSet(new)
  <2>1. new[i] = e
    BY <1>1
  <2> QED
    BY <1>2, <2>1
<1>5. ASSUME NEW j \in 1 .. Len(list) PROVE list[j] \in ToSet(new)
  <2>1. CASE j < i
    <3>1. j \in 1 .. Len(list) + 1 /\ new[j] = list[j]
      BY <1>1, <2>1
    <3> QED
      BY <1>2, <3>1
  <2>2. CASE ~(j < i)
    <3>1. j + 1 \in 1 .. Len(list) + 1 /\ new[j + 1] = list[j]
      BY <1>1, <2>2
    <3> QED
      BY <1>2, <3>1
  <2> QED
    BY <2>1, <2>2
<1> QED
  BY <1>2, <1>3, <1>4, <1>5

\* Packet p does not come before the one at place left, but before all behind
\* it; new is what the list becomes.
PlacedAt(left, buffer, p, new) ==
  LET same(i) == i \in 1 .. Len(buffer) /\ Ts(buffer[i].at) = Ts(p.at)
  IN  /\ left \in 0 .. Len(buffer)
      /\ left > 0 => ~Before(p, buffer[left])
      /\ \A i \in 1 .. Len(buffer) : i > left => Before(p, buffer[i])
      /\ \/ same(left) /\ new = buffer
         \/ ~same(left) /\ same(left + 1) /\ new = [buffer EXCEPT ![left + 1] = p]
         \/ ~same(left) /\ ~same(left + 1) /\ new = InsertAt(buffer, left + 1, p)

LEMMA Placed ==
  ASSUME NEW T, NEW buffer \in Seq(T), NEW p
  PROVE  \E left : PlacedAt(left, buffer, p, Place(buffer, p))
<1> DEFINE I == {i \in 1 .. Len(buffer) : ~Before(p, buffer[i])}
           left == IF I # {} THEN Max(I) ELSE 0
           same(i) == i \in 1 .. Len(buffer) /\ Ts(buffer[i].at) = Ts(p.at)
<1>1. Place(buffer, p) = CASE same(left) -> buffer
                           [] ~same(left) /\ same(left + 1) -> ReplaceAt(buffer, left + 1, p)
                           [] OTHER -> InsertAt(buffer, left + 1, p)
  <2>1. DOMAIN buffer = 1 .. Len(buffer)
    OBVIOUS
  <2> QED
    BY <2>1, Zenon DEF Place, SelectLastInSeq
<1>2. /\ left \in 0 .. Len(buffer)
      /\ left > 0 => ~Before(p, buffer[left])
      /\ \A i \in 1 .. Len(buffer) : i > left => Before(p, buffer[i])
  <2>1. CASE I = {}
    <3>1. left = 0
      BY <2>1
    <3> HIDE DEF left
    <3> QED
      BY <2>1, <3>1
  <2>2. CASE I # {}
    <3>1. I \in SUBSET (1 .. Len(buffer)) /\ Len(buffer) \in Nat
      OBVIOUS
    <3> HIDE DEF I
    <3>2. Max(I) \in I /\ \A i \in I : i <= Max(I)
      BY <2>2, <3>1, Largest
    <3>3. left = Max(I)
      BY <2>2
    <3> HIDE DEF left
    <3>4. left \in 1 .. Len(buffer) /\ ~Before(p, buffer[left])
      BY <3>2, <3>3 DEF I
    <3>5. ASSUME NEW i \in 1 .. Len(buffer), i > left PROVE Before(p, buffer[i])
      <4>1. i \notin I
        BY <3>2, <3>3, <3>4, <3>5
      <4> QED
        BY <4>1 DEF I
    <3> QED
      BY <3>4, <3>5
  <2> QED
    BY <2>1, <2>2
<1> HIDE DEF left
<1>3. PlacedAt(left, buffer, p, Place(buffer, p))
  BY <1>1, <1>2, Zenon DEF PlacedAt, ReplaceAt
<1> QED
  BY <1>3

\* Placing loses no more than a copy, and adds nothing but the packet.
LEMMA PlaceMembers ==
  ASSUME NEW T, NEW buffer \in Seq(T), NEW p \in T
  PROVE  /\ Place(buffer, p) \in Seq(T)
         /\ Len(Place(buffer, p)) \in 1 .. Len(buffer) + 1
         /\ ToSet(Place(buffer, p)) \subseteq ToSet(buffer) \cup {p}
<1> DEFINE new == Place(buffer, p)
<1>1. PICK left : PlacedAt(left, buffer, p, new)
  BY Placed
<1> HIDE DEF new
<1> DEFINE same(i) == i \in 1 .. Len(buffer) /\ Ts(buffer[i].at) = Ts(p.at)
<1>2. /\ left \in 0 .. Len(buffer)
      /\ \/ same(left) /\ new = buffer
         \/ same(left + 1) /\ new = [buffer EXCEPT ![left + 1] = p]
         \/ new = InsertAt(buffer, left + 1, p)
  BY <1>1, Zenon DEF PlacedAt
<1>3. CASE same(left) /\ new = buffer
  <2>1. Len(buffer) \in 1 .. Len(buffer) + 1
    BY <1>3
  <2> QED
    BY <1>3, <2>1 DEF new
<1>4. CASE same(left + 1) /\ new = [buffer EXCEPT ![left + 1] = p]
  <2>1. left + 1 \in 1 .. Len(buffer)
    BY <1>4
  <2>2. new \in Seq(T) /\ Len(new) = Len(buffer)
    BY <1>4, <2>1, ExceptSeq
  <2>3. \A i \in 1 .. Len(buffer) : new[i] \in {p, buffer[i]}
    BY <1>4
  <2>4. ToSet(new) \subseteq ToSet(buffer) \cup {p}
    <3>1. \A x \in ToSet(new) : \E i \in 1 .. Len(buffer) : x = new[i]
      BY <2>2, Members
    <3>2. \A i \in 1 .. Len(buffer) : buffer[i] \in ToSet(buffer)
      BY Members
    <3> QED
      BY <2>3, <3>1, <3>2
  <2> QED
    BY <2>1, <2>2, <2>4 DEF new
<1>5. CASE new = InsertAt(buffer, left + 1, p)
  <2> DEFINE place == left + 1
  <2>1. place \in 1 .. Len(buffer) + 1 /\ new = InsertAt(buffer, place, p)
    BY <1>2, <1>5
  <2> HIDE DEF place
  <2>2. InsertedAt(T, buffer, place, p, InsertAt(buffer, place, p))
    BY <2>1, Inserted
  <2>3. /\ new \in Seq(T) /\ Len(new) = Len(buffer) + 1
        /\ ToSet(new) = ToSet(buffer) \cup {p}
    <3>1. InsertedAt(T, buffer, place, p, new)
      BY <2>1, <2>2
    <3>2. ToSet(new) = ToSet(buffer) \cup {p}
      BY <2>1, <3>1, InsertedMembers
    <3> QED
      BY <3>1, <3>2 DEF InsertedAt
  <2> QED
    BY <2>3 DEF new
<1> QED
  BY <1>2, <1>3, <1>4, <1>5 DEF new

-----------------------------------------------------------------------------
(* Lists in the order of time *)

\* The times of the packets in a list increase.
Ordered(list) == \A i, j \in 1 .. Len(list) : i < j => list[i].at < list[j].at

\* All packets of a list come from times close to x.
AllClose(list, x) == \A q \in ToSet(list) : Close(x, q.at)

LEMMA ThoseOrdered ==
  ASSUME NEW T, NEW list \in Seq(T), NEW S, Ordered(list)
  PROVE  Ordered(Those(S, list))
<1> DEFINE sub == Those(S, list)
<1>1. PICK f : Finds(f, sub, S, list, Len(list))
  BY ThoseFound
<1> HIDE DEF sub
<1>2. ASSUME NEW i \in 1 .. Len(sub), NEW j \in 1 .. Len(sub), i < j
      PROVE  sub[i].at < sub[j].at
  <2>1. /\ f[i] \in 1 .. Len(list) /\ f[j] \in 1 .. Len(list) /\ f[i] < f[j]
        /\ sub[i] = list[f[i]] /\ sub[j] = list[f[j]]
    BY <1>1, <1>2 DEF Finds
  <2> QED
    BY <2>1 DEF Ordered
<1> QED
  BY <1>2 DEF Ordered, sub

\* A stretch of a list.
LEMMA Stretch ==
  ASSUME NEW T, NEW list \in Seq(T), NEW m \in 1 .. Len(list) + 1, NEW n \in m - 1 .. Len(list)
  PROVE  /\ SubSeq(list, m, n) \in Seq(T) /\ Len(SubSeq(list, m, n)) = n - m + 1
         /\ \A i \in 1 .. n - m + 1 : SubSeq(list, m, n)[i] = list[m + i - 1]
         /\ ToSet(SubSeq(list, m, n)) \subseteq ToSet(list)
         /\ Ordered(list) => Ordered(SubSeq(list, m, n))
<1> DEFINE sub == SubSeq(list, m, n)
<1>1. /\ sub \in Seq(T) /\ Len(sub) = n - m + 1
      /\ \A i \in 1 .. n - m + 1 : sub[i] = list[m + i - 1]
  <2>1. \A i \in m .. n : list[i] \in T
    OBVIOUS
  <2>2. /\ sub \in Seq(T) /\ Len(sub) = IF m <= n THEN n - m + 1 ELSE 0
        /\ \A i \in 1 .. n - m + 1 : sub[i] = list[m + i - 1]
    BY <2>1, SubSeqProperties
  <2> HIDE DEF sub
  <2>3. (IF m <= n THEN n - m + 1 ELSE 0) = n - m + 1
    OBVIOUS
  <2> QED
    BY <2>2, <2>3
<1> HIDE DEF sub
<1>2. ToSet(sub) \subseteq ToSet(list)
  <2>1. \A x \in ToSet(sub) : \E i \in 1 .. Len(sub) : x = sub[i]
    BY <1>1, Members
  <2>2. \A i \in 1 .. Len(list) : list[i] \in ToSet(list)
    BY Members
  <2>3. \A i \in 1 .. n - m + 1 : m + i - 1 \in 1 .. Len(list)
    OBVIOUS
  <2> QED
    BY <1>1, <2>1, <2>2, <2>3
<1>3. ASSUME Ordered(list) PROVE Ordered(sub)
  <2>1. ASSUME NEW i \in 1 .. Len(sub), NEW j \in 1 .. Len(sub), i < j
        PROVE  sub[i].at < sub[j].at
    <3>1. /\ m + i - 1 \in 1 .. Len(list) /\ m + j - 1 \in 1 .. Len(list)
          /\ m + i - 1 < m + j - 1
      BY <1>1, <2>1
    <3>2. sub[i] = list[m + i - 1] /\ sub[j] = list[m + j - 1]
      BY <1>1
    <3> QED
      BY <1>3, <3>1, <3>2 DEF Ordered
  <2> QED
    BY <2>1 DEF Ordered
<1> QED
  BY <1>1, <1>2, <1>3 DEF sub

\* Packets of close times are placed by their times.
LEMMA BeforeByTime ==
  ASSUME NEW p, NEW q, p.at \in Nat, q.at \in Nat, Close(p.at, q.at)
  PROVE  /\ Ts(p.at) = Ts(q.at) <=> p.at = q.at
         /\ p.at < q.at => Before(p, q)
         /\ q.at < p.at => ~Before(p, q)
<1>1. /\ Ts(p.at) = Ts(q.at) <=> p.at = q.at
      /\ p.at < q.at => Minus(Ts(q.at), Ts(p.at), HalfTs) < HalfTs - 1
      /\ q.at < p.at => ~(Minus(Ts(q.at), Ts(p.at), HalfTs) < HalfTs - 1)
  BY NearTimes
<1> QED
  BY <1>1, Zenon DEF Before

\* What placing p among packets of close times comes to: of the copies of its
\* time one is left, the better one.
PlacedInOrder(buffer, p, new) ==
  /\ Ordered(new)
  /\ \/ /\ new = buffer
        /\ \E q \in ToSet(buffer) : q.at = p.at /\ ~Before(p, q)
     \/ /\ ToSet(new) = {q \in ToSet(buffer) : q.at # p.at} \cup {p}
        /\ \A q \in ToSet(buffer) : q.at = p.at => Before(p, q)

LEMMA PlaceOrdered ==
  ASSUME NEW buffer \in Seq(Packet), NEW p \in Packet, Ordered(buffer), AllClose(buffer, p.at)
  PROVE  PlacedInOrder(buffer, p, Place(buffer, p))
<1> DEFINE new == Place(buffer, p)
           at(i) == buffer[i].at
<1>1. PICK left : PlacedAt(left, buffer, p, new)
  BY Placed
<1> HIDE DEF new
<1>2. /\ p.at \in Nat
      /\ \A i \in 1 .. Len(buffer) : buffer[i] \in ToSet(buffer) /\ buffer[i].at \in Nat
      /\ \A q \in ToSet(buffer) : \E i \in 1 .. Len(buffer) : q = buffer[i]
  <2>1. \A i \in 1 .. Len(buffer) : buffer[i] \in Packet
    OBVIOUS
  <2> QED
    BY <2>1, Members DEF Packet
<1>3. ASSUME NEW i \in 1 .. Len(buffer)
      PROVE  /\ Ts(at(i)) = Ts(p.at) <=> at(i) = p.at
             /\ p.at < at(i) => Before(p, buffer[i])
             /\ at(i) < p.at => ~Before(p, buffer[i])
  <2>1. Close(p.at, buffer[i].at)
    BY <1>2 DEF AllClose
  <2> QED
    BY <1>2, <2>1, BeforeByTime
<1>4. /\ left \in 0 .. Len(buffer)
      /\ left > 0 => ~Before(p, buffer[left])
      /\ \A i \in 1 .. Len(buffer) : i > left => Before(p, buffer[i])
  BY <1>1 DEF PlacedAt
<1>5. \A i \in 1 .. Len(buffer) : i > left => at(i) >= p.at
  BY <1>2, <1>3, <1>4
<1>6. \A i \in 1 .. Len(buffer) : i < left => at(i) < p.at
  <2>1. ASSUME NEW i \in 1 .. Len(buffer), i < left PROVE at(i) < p.at
    <3>1. left \in 1 .. Len(buffer) /\ ~Before(p, buffer[left])
      BY <1>4, <2>1
    <3>2. at(left) <= p.at /\ at(i) < at(left)
      BY <1>2, <1>3, <2>1, <3>1 DEF Ordered
    <3> QED
      BY <1>2, <3>1, <3>2
  <2> QED
    BY <2>1
<1>7. left > 0 => left \in 1 .. Len(buffer) /\ at(left) <= p.at
  <2>1. ASSUME left > 0 PROVE left \in 1 .. Len(buffer) /\ at(left) <= p.at
    <3>1. left \in 1 .. Len(buffer) /\ ~Before(p, buffer[left])
      BY <1>4, <2>1
    <3> QED
      BY <1>2, <1>3, <3>1
  <2> QED
    BY <2>1
<1> DEFINE same(i) == i \in 1 .. Len(buffer) /\ Ts(buffer[i].at) = Ts(p.at)
<1>8. \/ same(left) /\ new = buffer
      \/ ~same(left) /\ same(left + 1) /\ new = [buffer EXCEPT ![left + 1] = p]
      \/ ~same(left) /\ ~same(left + 1) /\ new = InsertAt(buffer, left + 1, p)
  BY <1>1, Zenon DEF PlacedAt
<1>9. CASE same(left) /\ new = buffer
  <2>1. at(left) = p.at /\ left \in 1 .. Len(buffer) /\ ~Before(p, buffer[left])
    BY <1>3, <1>4, <1>9
  <2>2. \E q \in ToSet(buffer) : q.at = p.at /\ ~Before(p, q)
    BY <1>2, <2>1
  <2> QED
    BY <1>9, <2>2, Zenon DEF PlacedInOrder, new
<1>10. ASSUME ~same(left)
       PROVE  \A i \in 1 .. Len(buffer) : i <= left => at(i) < p.at
  <2>1. ASSUME NEW i \in 1 .. Len(buffer), i <= left PROVE at(i) < p.at
    <3>1. CASE i < left
      BY <1>6, <3>1
    <3>2. CASE i = left
      <4>1. at(left) # p.at /\ at(left) <= p.at
        BY <1>3, <1>4, <1>7, <1>10, <3>2
      <4> QED
        BY <1>2, <3>2, <4>1
    <3> QED
      BY <1>4, <2>1, <3>1, <3>2
  <2> QED
    BY <2>1
<1> DEFINE place == left + 1
<1>11. place \in 1 .. Len(buffer) + 1 /\ \A i \in 1 .. Len(buffer) : i < place <=> i <= left
  BY <1>4
<1>12. CASE ~same(left) /\ same(left + 1) /\ new = [buffer EXCEPT ![left + 1] = p]
  <2>1. /\ place \in 1 .. Len(buffer) /\ at(place) = p.at /\ Before(p, buffer[place])
        /\ new = [buffer EXCEPT ![place] = p]
    BY <1>3, <1>4, <1>12
  <2>2. /\ \A i \in 1 .. Len(buffer) : i < place => at(i) < p.at
        /\ \A i \in 1 .. Len(buffer) : i > place => at(i) > p.at
    BY <1>2, <1>10, <1>11, <1>12, <2>1 DEF Ordered
  <2> HIDE DEF place
  <2>3. /\ new \in Seq(Packet) /\ Len(new) = Len(buffer)
        /\ \A i \in 1 .. Len(buffer) : new[i] = IF i = place THEN p ELSE buffer[i]
    BY <2>1, ExceptSeq
  <2>4. Ordered(new)
    <3>1. ASSUME NEW i \in 1 .. Len(new), NEW j \in 1 .. Len(new), i < j
          PROVE  new[i].at < new[j].at
      <4>1. at(i) < at(j)
        BY <2>3, <3>1 DEF Ordered
      <4>2. CASE i = place
        BY <2>1, <2>2, <2>3, <3>1, <4>2
      <4>3. CASE j = place
        BY <2>1, <2>2, <2>3, <3>1, <4>3
      <4>4. CASE i # place /\ j # place
        BY <2>3, <4>1, <4>4
      <4> QED
        BY <4>2, <4>3, <4>4
    <3> QED
      BY <3>1 DEF Ordered
  <2>5. ToSet(new) = {q \in ToSet(buffer) : q.at # p.at} \cup {p}
    <3>1. \A x : x \in ToSet(new) <=> \E i \in 1 .. Len(buffer) : x = new[i]
      BY <2>3, Members
    <3>2. \A i \in 1 .. Len(buffer) : i # place => at(i) # p.at /\ new[i] = buffer[i]
      BY <1>2, <2>1, <2>2, <2>3
    <3>3. new[place] = p /\ p.at = at(place)
      BY <2>1, <2>3
    <3>4. ASSUME NEW x \in ToSet(new) PROVE x \in {q \in ToSet(buffer) : q.at # p.at} \cup {p}
      BY <1>2, <3>1, <3>2, <3>3, <3>4
    <3>5. ASSUME NEW x \in ToSet(buffer), x.at # p.at PROVE x \in ToSet(new)
      <4>1. PICK i \in 1 .. Len(buffer) : x = buffer[i]
        BY <1>2
      <4> QED
        BY <3>1, <3>2, <3>3, <3>5, <4>1
    <3>6. p \in ToSet(new)
      BY <2>1, <3>1, <3>3
    <3> QED
      BY <3>4, <3>5, <3>6
  <2>6. \A q \in ToSet(buffer) : q.at = p.at => Before(p, q)
    BY <1>2, <2>1, <2>2
  <2> QED
    BY <2>4, <2>5, <2>6, Zenon DEF PlacedInOrder, new
<1>13. CASE ~same(left) /\ ~same(left + 1) /\ new = InsertAt(buffer, left + 1, p)
  <2>1. /\ \A i \in 1 .. Len(buffer) : i < place => at(i) < p.at
        /\ \A i \in 1 .. Len(buffer) : i >= place => at(i) > p.at
    <3>1. ASSUME NEW i \in 1 .. Len(buffer), i >= place PROVE at(i) > p.at
      <4>1. place \in 1 .. Len(buffer) /\ at(place) >= p.at /\ at(place) # p.at
        BY <1>3, <1>4, <1>5, <1>11, <1>13, <3>1
      <4>2. CASE i = place
        BY <1>2, <4>1, <4>2
      <4>3. CASE i > place
        BY <1>2, <4>1, <4>3 DEF Ordered
      <4> QED
        BY <3>1, <4>1, <4>2, <4>3
    <3> QED
      BY <1>10, <1>11, <1>13, <3>1
  <2>2. new = InsertAt(buffer, place, p)
    BY <1>13
  <2> HIDE DEF place
  <2>3. InsertedAt(Packet, buffer, place, p, InsertAt(buffer, place, p))
    BY <1>11, Inserted
  <2>4. InsertedAt(Packet, buffer, place, p, new)
    BY <2>2, <2>3
  <2>5. ToSet(new) = ToSet(buffer) \cup {p}
    BY <1>11, <2>4, InsertedMembers
  <2>6. /\ new \in Seq(Packet) /\ Len(new) = Len(buffer) + 1
        /\ \A j \in 1 .. Len(buffer) + 1 :
             new[j] = IF j < place THEN buffer[j] ELSE IF j = place THEN p ELSE buffer[j - 1]
    BY <2>4 DEF InsertedAt
  <2>7. Ordered(new)
    <3>1. ASSUME NEW i \in 1 .. Len(new), NEW j \in 1 .. Len(new), i < j
          PROVE  new[i].at < new[j].at
      <4>1. /\ i < place => i \in 1 .. Len(buffer) /\ new[i] = buffer[i]
            /\ i = place => new[i] = p
            /\ i > place => i - 1 \in 1 .. Len(buffer) /\ new[i] = buffer[i - 1]
        BY <1>11, <2>6
      <4>2. /\ j < place => j \in 1 .. Len(buffer) /\ new[j] = buffer[j]
            /\ j = place => new[j] = p
            /\ j > place => j - 1 \in 1 .. Len(buffer) /\ new[j] = buffer[j - 1]
        BY <1>11, <2>6
      <4>3. CASE j < place
        BY <1>11, <2>6, <3>1, <4>1, <4>2, <4>3 DEF Ordered
      <4>4. CASE j = place
        BY <1>11, <2>1, <2>6, <3>1, <4>1, <4>2, <4>4
      <4>5. CASE j > place /\ i = place
        BY <1>11, <2>1, <2>6, <4>1, <4>2, <4>5
      <4>6. CASE j > place /\ i < place
        <5>1. at(i) < p.at /\ p.at < at(j - 1)
          BY <1>11, <2>1, <2>6, <4>1, <4>2, <4>6
        <5> QED
          BY <1>2, <4>1, <4>2, <4>6, <5>1
      <4>7. CASE j > place /\ i > place
        <5>1. /\ i - 1 \in 1 .. Len(buffer) /\ j - 1 \in 1 .. Len(buffer) /\ i - 1 < j - 1
              /\ new[i] = buffer[i - 1] /\ new[j] = buffer[j - 1]
          BY <2>6, <3>1, <4>1, <4>2, <4>7
        <5> QED
          BY <5>1 DEF Ordered
      <4> QED
        BY <1>11, <2>6, <4>3, <4>4, <4>5, <4>6, <4>7
    <3> QED
      BY <3>1 DEF Ordered
  <2>8. \A q \in ToSet(buffer) : q.at # p.at
    BY <1>2, <1>11, <2>1
  <2>9. ToSet(new) = {q \in ToSet(buffer) : q.at # p.at} \cup {p}
    BY <2>5, <2>8
  <2> QED
    BY <2>7, <2>8, <2>9, Zenon DEF PlacedInOrder, new
<1> QED
  BY <1>8, <1>9, <1>12, <1>13

-----------------------------------------------------------------------------
(* InsertPacket and InsertPacketList *)

Result == {"kOK", "kFlushed", "kInvalidPacket"}

\* Inserting packet p into the buffer makes it new: a list that is no longer
\* than the maximum, of nothing but what was there and p.
Keeps(buffer, p, new) ==
  /\ new \in Seq(Packet) /\ Len(new) <= MaxPackets
  /\ ToSet(new) \subseteq ToSet(buffer) \cup {p}
  /\ Ordered(buffer) /\ AllClose(buffer, p.at) => Ordered(new)

LEMMA InsertKeeps ==
  ASSUME NEW buffer \in Seq(Packet), NEW p \in Packet, Len(buffer) <= MaxPackets
  PROVE  /\ Keeps(buffer, p, InsertPacket(buffer, p).buffer)
         /\ InsertPacket(buffer, p).result \in Result
         /\ InsertPacket(buffer, p).result # "kInvalidPacket"
              => InsertPacket(buffer, p).buffer # <<>>
<1> DEFINE done == InsertPacket(buffer, p)
<1>1. Ordered(<<>>) /\ AllClose(<<>>, p.at) /\ ToSet(<<>>) = {} /\ <<>> \in Seq(Packet)
  BY DEF Ordered, AllClose, ToSet
<1>2. MaxPackets \in Nat \ {0}
  BY CapacityAssumption
<1>3. CASE p.empty
  <2>1. done = [buffer |-> buffer, result |-> "kInvalidPacket"]
    BY <1>3 DEF InsertPacket
  <2> HIDE DEF done
  <2>2. done.buffer = buffer /\ done.result = "kInvalidPacket"
    BY <2>1
  <2> QED
    BY <2>2 DEF Keeps, Result, done
<1>4. CASE ~p.empty /\ Len(buffer) >= MaxPackets
  <2>1. done = [buffer |-> Place(<<>>, p), result |-> "kFlushed"]
    BY <1>4 DEF InsertPacket
  <2> HIDE DEF done
  <2>2. done.buffer = Place(<<>>, p) /\ done.result = "kFlushed"
    BY <2>1
  <2>3. /\ Place(<<>>, p) \in Seq(Packet) /\ Len(Place(<<>>, p)) \in 1 .. Len(<<>>) + 1
        /\ ToSet(Place(<<>>, p)) \subseteq ToSet(<<>>) \cup {p}
    BY <1>1, PlaceMembers
  <2>4. PlacedInOrder(<<>>, p, Place(<<>>, p))
    BY <1>1, PlaceOrdered
  <2>5. Ordered(Place(<<>>, p))
    BY <2>4 DEF PlacedInOrder
  <2>6. Len(Place(<<>>, p)) = 1 /\ Place(<<>>, p) # <<>>
    <3> DEFINE one == Place(<<>>, p)
               none == Len(<<>>)
    <3>1. one \in Seq(Packet) /\ Len(one) \in 1 .. none + 1
      BY <2>3, Zenon
    <3>2. none = 0
      OBVIOUS
    <3> HIDE DEF one, none
    <3>3. Len(one) = 1
      BY <3>1, <3>2
    <3>4. 0 # 1
      OBVIOUS
    <3> QED
      BY <3>2, <3>3, <3>4, Zenon DEF one, none
  <2>7. Keeps(buffer, p, Place(<<>>, p))
    BY <1>1, <1>2, <2>3, <2>5, <2>6 DEF Keeps
  <2> QED
    BY <2>2, <2>6, <2>7 DEF Result, done
<1>5. CASE ~p.empty /\ ~(Len(buffer) >= MaxPackets)
  <2>1. done = [buffer |-> Place(buffer, p), result |-> "kOK"]
    BY <1>5 DEF InsertPacket
  <2> HIDE DEF done
  <2>2. done.buffer = Place(buffer, p) /\ done.result = "kOK"
    BY <2>1
  <2>3. /\ Place(buffer, p) \in Seq(Packet) /\ Len(Place(buffer, p)) \in 1 .. Len(buffer) + 1
        /\ ToSet(Place(buffer, p)) \subseteq ToSet(buffer) \cup {p}
    BY PlaceMembers
  <2>4. ASSUME Ordered(buffer), AllClose(buffer, p.at) PROVE Ordered(Place(buffer, p))
    <3>1. PlacedInOrder(buffer, p, Place(buffer, p))
      BY <2>4, PlaceOrdered
    <3> QED
      BY <3>1 DEF PlacedInOrder
  <2>5. Place(buffer, p) # <<>> /\ Len(Place(buffer, p)) <= MaxPackets
    BY <1>2, <1>5, <2>3
  <2>6. Keeps(buffer, p, Place(buffer, p))
    BY <2>3, <2>4, <2>5 DEF Keeps
  <2> QED
    BY <2>2, <2>5, <2>6 DEF Result, done
<1> QED
  BY <1>3, <1>4, <1>5

\* The states before, between and after the turns of the loop of
\* InsertPacketList, all of which are in S.
Turns(after, S, buffer, packets, rtp, cng, registered) ==
  /\ after \in [0 .. Len(packets) -> S]
  /\ after[0] = [buffer |-> buffer, result |-> "kOK", flushed |-> FALSE, rtp |-> rtp,
                 cng |-> cng]
  /\ \A i \in 1 .. Len(packets) : after[i] = Admit(after[i - 1], packets[i], registered)
  /\ InsertPacketList(buffer, packets, rtp, cng, registered) = after[Len(packets)]

\* What holds before the loop, and every turn of it keeps, holds after it.
LEMMA InsertLoop ==
  ASSUME NEW S, NEW T, NEW buffer, NEW packets \in Seq(T), NEW rtp, NEW cng, NEW registered,
         [buffer |-> buffer, result |-> "kOK", flushed |-> FALSE, rtp |-> rtp,
          cng |-> cng] \in S,
         \A s \in S : \A i \in 1 .. Len(packets) : Admit(s, packets[i], registered) \in S
  PROVE  /\ InsertPacketList(buffer, packets, rtp, cng, registered) \in S
         /\ \E after : Turns(after, S, buffer, packets, rtp, cng, registered)
<1> DEFINE n == Len(packets)
           base == [buffer |-> buffer, result |-> "kOK", flushed |-> FALSE, rtp |-> rtp,
                    cng |-> cng]
           Steps(f) == f = [i \in 0 .. n |->
                              IF i = 0
                                THEN [buffer |-> buffer, result |-> "kOK",
                                      flushed |-> FALSE, rtp |-> rtp, cng |-> cng]
                                ELSE Admit(f[i - 1], packets[i], registered)]
           step == [i \in 1 .. n |-> [s \in S |-> Admit(s, packets[i], registered)]]
<1>1. n \in Nat /\ base \in S
  OBVIOUS
<1>2. step \in [1 .. n -> [S -> S]]
  OBVIOUS
<1>3. PICK f \in [0 .. n -> S] :
        f[0] = base /\ \A i \in 1 .. n : f[i] = step[i][f[i - 1]]
  <2> HIDE DEF n, step, base
  <2>1. Definable(n, S, base, step)
    BY <1>1, <1>2, Recursion
  <2> QED
    BY <2>1 DEF Definable
<1>4. Steps(f)
  <2> HIDE DEF n, base
  <2>1. \A i \in 0 .. n : f[i] = IF i = 0 THEN base
                                 ELSE Admit(f[i - 1], packets[i], registered)
    <3>1. ASSUME NEW i \in 0 .. n, i # 0
          PROVE  f[i] = Admit(f[i - 1], packets[i], registered)
      <4>1. i \in 1 .. n /\ f[i - 1] \in S
        BY <1>1, <3>1
      <4> QED
        BY <1>3, <4>1
    <3> QED
      BY <1>3, <3>1
  <2>2. f = [i \in 0 .. n |-> f[i]]
    OBVIOUS
  <2> QED
    BY <2>1, <2>2, Zenon DEF base
<1> HIDE DEF Steps
<1> DEFINE after == CHOOSE g : Steps(g)
<1>5. Steps(after)
  BY <1>4
<1>6. InsertPacketList(buffer, packets, rtp, cng, registered) = after[n]
  BY DEF InsertPacketList, Steps
<1> HIDE DEF after
<1>7. after = [i \in 0 .. n |-> IF i = 0 THEN base
                               ELSE Admit(after[i - 1], packets[i], registered)]
  BY <1>5, Zenon DEF Steps
<1> HIDE DEF base
<1>8. after[0] = base /\ \A i \in 1 .. n : after[i] = Admit(after[i - 1], packets[i], registered)
  <2>1. \A i \in 0 .. n : after[i] = IF i = 0 THEN base
                                     ELSE Admit(after[i - 1], packets[i], registered)
    BY <1>7, Zenon
  <2>2. 0 \in 0 .. n /\ \A i \in 1 .. n : i \in 0 .. n /\ i # 0
    BY <1>1
  <2> QED
    BY <2>1, <2>2
<1> DEFINE F == {i \in 0 .. n : after[i] \in S}
<1>9. 0 \in F
  BY <1>1, <1>8
<1>10. ASSUME NEW i \in 0 .. n - 1, i \in F PROVE i + 1 \in F
  <2>1. i + 1 \in 0 .. n /\ i + 1 # 0 /\ i + 1 \in 1 .. Len(packets) /\ (i + 1) - 1 = i
    BY <1>1
  <2>2. after[i + 1] = Admit(after[i], packets[i + 1], registered)
    BY <1>8, <2>1
  <2> QED
    BY <1>10, <2>1, <2>2
<1>11. 0 .. n \subseteq F
  <2> HIDE DEF F, n
  <2> QED
    BY <1>1, <1>9, <1>10, Induction
<1>12. \A i \in 0 .. n : after[i] \in S
  BY <1>11
<1>13. after \in [0 .. n -> S]
  <2> HIDE DEF n
  <2>1. after = [i \in 0 .. n |-> after[i]]
    BY <1>7, Zenon
  <2> QED
    BY <1>12, <2>1
<1>14. Turns(after, S, buffer, packets, rtp, cng, registered)
  BY <1>6, <1>8, <1>13, Zenon DEF Turns, base
<1>15. n \in 0 .. n
  BY <1>1
<1> QED
  BY <1>6, <1>12, <1>14, <1>15
=============================================================================
