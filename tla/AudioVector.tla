---------------------------- MODULE AudioVector ----------------------------
(***************************************************************************)
(* audio_vector.cc: samples in a ring that grows.  A vector is its array,  *)
(* begin_index_ and end_index_; one cell is always free, so that a full    *)
(* ring is told from an empty one.  One channel of audio_multi_vector.cc,  *)
(* which does the same to each.                                            *)
(***************************************************************************)
EXTENDS Integers, Sequences

Lesser(x, y) == IF x < y THEN x ELSE y
Greater(x, y) == IF x < y THEN y ELSE x
Zeros(n) == [i \in 1 .. n |-> 0]
Take(s, n) == SubSeq(s, 1, n)
Skip(s, n) == SubSeq(s, n + 1, Len(s))

Vector(capacity, begin, end) ==
  [array |-> [i \in 0 .. capacity - 1 |-> 0], begin |-> begin, end |-> end,
   capacity |-> capacity]

\* A vector made with a size holds that many zeros.
NewVector(size) == Vector(size + 1, 0, size)

Size(v) == (v.end + v.capacity - v.begin) % v.capacity

\* CopyTo and operator[]: the samples from a position on, no more than there are.
CopyTo(v, length, position) ==
  [i \in 1 .. Lesser(length, Size(v) - position) |->
     v.array[(v.begin + position + i - 1) % v.capacity]]

Contents(v) == CopyTo(v, Size(v), 0)

memcpy(array, at, s) ==
  [i \in DOMAIN array |-> IF i - at + 1 \in DOMAIN s THEN s[i - at + 1] ELSE array[i]]

\* In two chunks when the end of the array comes between.
Wrapped(v, at, s) ==
  LET first == Lesser(Len(s), v.capacity - at)
  IN  memcpy(memcpy(v.array, at, Take(s, first)), 0, Skip(s, first))

\* Mutant: a full ring needs no free cell.
ReserveFewer(v, n) ==
  IF v.capacity >= n THEN v
  ELSE [array |-> memcpy([i \in 0 .. n |-> 0], 0, Contents(v)),
        begin |-> 0, end |-> Size(v), capacity |-> n + 1]

Reserve(v, n) ==
  IF v.capacity > n THEN v
  ELSE [array |-> memcpy([i \in 0 .. n |-> 0], 0, Contents(v)),
        begin |-> 0, end |-> Size(v), capacity |-> n + 1]

Clear(v) == [v EXCEPT !.begin = 0, !.end = 0]

PushBack(v, s) ==
  LET r == Reserve(v, Size(v) + Len(s))
  IN  [r EXCEPT !.array = Wrapped(r, r.end, s), !.end = (@ + Len(s)) % r.capacity]

PushFront(v, s) ==
  LET r == Reserve(v, Size(v) + Len(s))
      rest == Len(s) - Lesser(Len(s), r.begin)
  IN  [r EXCEPT !.array = memcpy(memcpy(@, Greater(r.begin - Len(s), 0), Skip(s, rest)),
                                 r.capacity - rest, Take(s, rest)),
                !.begin = (@ + r.capacity - Len(s)) % r.capacity]

PopFront(v, n) == [v EXCEPT !.begin = (@ + Lesser(n, Size(v))) % v.capacity]
PopBack(v, n) == [v EXCEPT !.end = (@ + v.capacity - Lesser(n, Size(v))) % v.capacity]

\* InsertAt and InsertZerosAt: what lies on the shorter side is taken out and
\* pushed again, behind or in front of what is inserted.
InsertByPushBack(v, s, position) ==
  LET moved == CopyTo(v, Size(v) - position, position)
      room == Reserve(PopBack(v, Len(moved)), Size(v) + Len(s))
  IN  PushBack(PushBack(room, s), moved)

InsertByPushFront(v, s, position) ==
  LET moved == CopyTo(v, position, 0)
      room == Reserve(PopFront(v, position), Size(v) + Len(s))
  IN  PushFront(PushFront(room, s), moved)

InsertAt(v, s, at) ==
  LET position == Lesser(Size(v), at)
  IN  CASE s = <<>> -> v
        [] s # <<>> /\ position <= Size(v) - position -> InsertByPushFront(v, s, position)
        [] OTHER -> InsertByPushBack(v, s, position)

InsertZerosAt(v, n, at) == InsertAt(v, Zeros(n), at)
Extend(v, n) == IF n = 0 THEN v ELSE InsertByPushBack(v, Zeros(n), Size(v))

OverwriteAt(v, s, at) ==
  LET position == Lesser(Size(v), at)
      size == Greater(Size(v), position + Len(s))
      r == Reserve(v, size)
  IN  IF s = <<>> THEN v
      ELSE [r EXCEPT !.array = Wrapped(r, (r.begin + position) % r.capacity, s),
                     !.end = (r.begin + size) % r.capacity]

\* The mix of the i-th of n samples that overlap.
Faded(old, new, i, n) ==
  LET alpha == 16384 - i * (16384 \div (n + 1))
  IN  (alpha * old + (16384 - alpha) * new + 8192) \div 16384

CrossFade(v, s, n) ==
  LET position == Size(v) - n + v.begin
      mixed == [j \in DOMAIN v.array |->
                  LET i == ((j + v.capacity - (position % v.capacity)) % v.capacity) + 1
                  IN  IF i <= n THEN Faded(v.array[j], s[i], i, n) ELSE v.array[j]]
  IN  PushBack([v EXCEPT !.array = mixed], Skip(s, n))

-----------------------------------------------------------------------------
\* A vector and its operations.
CONSTANTS
  Values,     \* what a sample may be
  MaxSize,    \* bound: the samples a vector holds,
  MaxPiece    \* and those given to one operation

VARIABLES
  vector,
  samples     \* history: what the operations make of a list

List == INSTANCE SampleList

Init ==
  /\ vector = Vector(1, 0, 0)
  /\ samples = <<>>

Pieces == UNION {[1 .. n -> Values] : n \in 0 .. MaxPiece}

\* An operation and what it is on a list.
Next ==
  \/ \E s \in Pieces :
       /\ Size(vector) + Len(s) <= MaxSize
       /\ \/ vector' = PushBack(vector, s) /\ List!PushBack(s)
          \/ vector' = PushFront(vector, s) /\ List!PushFront(s)
          \/ \E at \in 0 .. MaxSize :
               \/ vector' = InsertAt(vector, s, at) /\ List!InsertAt(s, at)
               \/ vector' = OverwriteAt(vector, s, at) /\ List!OverwriteAt(s, at)
          \/ \E n \in 0 .. Lesser(Len(s), Size(vector)) :
               vector' = CrossFade(vector, s, n) /\ List!CrossFade(s, n)
  \/ \E n \in 0 .. MaxSize + 1 :
       \/ vector' = PopFront(vector, n) /\ List!PopFront(n)
       \/ vector' = PopBack(vector, n) /\ List!PopBack(n)
       \/ Size(vector) + n <= MaxSize /\ vector' = Extend(vector, n) /\ List!PushBack(Zeros(n))
  \/ vector' = Clear(vector) /\ List!PopFront(Len(samples))

Spec == Init /\ [][Next]_<<vector, samples>>

\* The free cell is there and the indices are in the array.
TypeOK ==
  /\ vector.capacity \in 1 .. MaxSize + 1
  /\ vector.array \in [0 .. vector.capacity - 1 -> Values \cup {0}]
  /\ {vector.begin, vector.end} \subseteq 0 .. vector.capacity - 1

\* A vector is the list of its samples, wherever the ring begins and however
\* often it was made larger.
VectorIsList == Contents(vector) = samples
=============================================================================
