----------------------------- MODULE SyncBuffer -----------------------------
(***************************************************************************)
(* sync_buffer.cc: the audio played and to be played, a vector of fixed    *)
(* size with the index of the sample to play next and that up to which a   *)
(* tone is laid over it.  end_timestamp_ is in NetEq.                      *)
(***************************************************************************)
EXTENDS Integers, Sequences

CONSTANTS
  Values,
  Length,     \* the samples of the buffer
  MaxPiece    \* bound: the samples given to one operation

VARIABLES
  channel, next_index, dtmf_index,
  past, future, mark    \* history: what the operations make of the samples
                        \* played and to be played

vars == <<channel, next_index, dtmf_index, past, future, mark>>

V == INSTANCE AudioVector WITH MaxSize <- Length + MaxPiece, vector <- channel,
                               samples <- past \o future
Window == INSTANCE PlayWindow

Lesser(x, y) == IF x < y THEN x ELSE y
Less(x, y) == x - Lesser(x, y)

Init ==
  /\ channel = V!NewVector(Length)
  /\ next_index = Length
  /\ dtmf_index = 0
  /\ Window!Init

FutureLength == V!Size(channel) - next_index

\* Mutant: the mark of the tone does not move with the samples.
PushBackBelowMark(s) ==
  /\ channel' = V!PopFront(V!PushBack(channel, s), Len(s))
  /\ next_index' = Less(next_index, Len(s))
  /\ UNCHANGED dtmf_index

\* PushBack and PushBackInterleaved.
PushBack(s) ==
  /\ channel' = V!PopFront(V!PushBack(channel, s), Len(s))
  /\ next_index' = Less(next_index, Len(s))
  /\ dtmf_index' = Less(dtmf_index, Len(s))

set_next_index(value) == next_index' = Lesser(value, V!Size(channel'))
set_dtmf_index(value) == dtmf_index' = Lesser(value, V!Size(channel'))

\* PushFrontZeros inserts at 0.
InsertZerosAtIndex(length, index) ==
  LET position == Lesser(index, V!Size(channel))
      n == Lesser(length, V!Size(channel) - position)
  IN  /\ channel' = V!InsertZerosAt(V!PopBack(channel, n), n, position)
      /\ IF next_index >= position THEN set_next_index(next_index + n)
         ELSE UNCHANGED next_index
      /\ IF dtmf_index > 0 /\ dtmf_index >= position THEN set_dtmf_index(dtmf_index + n)
         ELSE UNCHANGED dtmf_index

ReplaceAtIndex(s, index) ==
  LET position == Lesser(index, V!Size(channel))
      n == Lesser(Len(s), V!Size(channel) - position)
  IN  /\ channel' = V!OverwriteAt(channel, V!Take(s, n), position)
      /\ UNCHANGED <<next_index, dtmf_index>>

GetNextAudioInterleaved(length) ==
  /\ next_index' = next_index + Lesser(FutureLength, length)
  /\ UNCHANGED <<channel, dtmf_index>>

\* What is played and to be played does not change with the indices.
Seek(value) == UNCHANGED <<channel, dtmf_index>> /\ set_next_index(value)
Mark(value) == UNCHANGED <<channel, next_index>> /\ set_dtmf_index(value)

Flush ==
  /\ channel' = V!Extend(V!Clear(channel), V!Size(channel))
  /\ next_index' = V!Size(channel)
  /\ dtmf_index' = 0

Next ==
  \/ \E n \in 0 .. MaxPiece : \E s \in [1 .. n -> Values] :
       \/ PushBack(s) /\ Window!Add(s)
       \/ \E at \in 0 .. Length : ReplaceAtIndex(s, at) /\ Window!Replace(s, at)
  \/ \E n \in 0 .. Length :
       \/ GetNextAudioInterleaved(n) /\ Window!Play(n)
       \/ Seek(n) /\ Window!Seek(n)
       \/ Mark(n) /\ Window!Mark(n)
       \/ \E at \in 0 .. Length : InsertZerosAtIndex(n, at) /\ Window!Insert(n, at)
  \/ Flush /\ Window!Flush

Spec == Init /\ [][Next]_vars

-----------------------------------------------------------------------------
TypeOK ==
  /\ V!TypeOK
  /\ next_index \in 0 .. Length
  /\ dtmf_index \in 0 .. Length

\* The buffer keeps its length and its place: whatever is pushed, inserted or
\* exchanged, no sample is played twice, passed over or moved away from its
\* mark, except where there is no room for it.
WindowKept ==
  /\ past = V!CopyTo(channel, next_index, 0)
  /\ future = V!CopyTo(channel, FutureLength, next_index)
  /\ mark = dtmf_index
=============================================================================
