----------------------------- MODULE PlayWindow -----------------------------
(* What the sync buffer promises: as many samples as ever, those that were  *)
(* played and those still to be, and a mark that tells how far tones go.    *)
EXTENDS Integers, Sequences

CONSTANT Length

VARIABLES past, future, mark

Init ==
  /\ past = [i \in 1 .. Length |-> 0]
  /\ future = <<>>
  /\ mark = 0

Cut(s, n) == SubSeq(s, 1, n)
Rest(s, n) == SubSeq(s, n + 1, Len(s))
Most(n, most) == IF n < most THEN n ELSE most
Floor(n) == IF n < 0 THEN 0 ELSE n

\* Samples are added and the oldest leave: played ones first.
Add(s) ==
  /\ past' = Rest(past, Most(Len(s), Len(past)))
  /\ future' = LET f == future \o s IN Rest(f, Floor(Len(f) - (Length - Len(past'))))
  /\ mark' = Floor(mark - Len(s))

Play(n) ==
  LET k == Most(n, Len(future))
  IN  /\ past' = past \o Cut(future, k)
      /\ future' = Rest(future, k)
      /\ UNCHANGED mark

\* Zeros are put in and the newest samples leave; what is to be played next,
\* and what is marked, stay so as long as they are there.
Insert(zeros, at) ==
  LET n == Most(zeros, Length - at)
      kept == Cut(past \o future, Length - n)
      new == Cut(kept, at) \o [i \in 1 .. n |-> 0] \o Rest(kept, at)
      next == IF Len(past) >= at THEN Most(Len(past) + n, Length) ELSE Len(past)
  IN  /\ past' = Cut(new, next) /\ future' = Rest(new, next)
      /\ mark' = IF mark > 0 /\ mark >= at THEN Most(mark + n, Length) ELSE mark

\* Samples are exchanged in place.
Replace(s, at) ==
  LET n == Most(Len(s), Length - at)
      new == Cut(past \o future, at) \o Cut(s, n) \o Rest(past \o future, at + n)
  IN  /\ past' = Cut(new, Len(past)) /\ future' = Rest(new, Len(past))
      /\ UNCHANGED mark

Seek(n) ==
  /\ past' = Cut(past \o future, n) /\ future' = Rest(past \o future, n)
  /\ UNCHANGED mark

Mark(n) == mark' = n /\ UNCHANGED <<past, future>>

Flush == past' = [i \in 1 .. Length |-> 0] /\ future' = <<>> /\ mark' = 0
=============================================================================
