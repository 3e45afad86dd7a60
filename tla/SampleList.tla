----------------------------- MODULE SampleList -----------------------------
(* What a vector of samples promises: each operation, on a list.            *)
EXTENDS Integers, Sequences

VARIABLE samples

Front(n) == SubSeq(samples, 1, n)
Behind(n) == SubSeq(samples, n + 1, Len(samples))
Capped(n) == IF n < Len(samples) THEN n ELSE Len(samples)

PushBack(s) == samples' = samples \o s
PushFront(s) == samples' = s \o samples
PopFront(n) == samples' = Behind(Capped(n))
PopBack(n) == samples' = Front(Len(samples) - Capped(n))
InsertAt(s, at) == samples' = Front(Capped(at)) \o s \o Behind(Capped(at))
OverwriteAt(s, at) ==
  samples' = Front(Capped(at)) \o s \o Behind(Capped(Capped(at) + Len(s)))

\* The last n samples are faded into the first n of s.
CrossFade(s, n) ==
  LET weight(i) == 16384 - i * (16384 \div (n + 1))
      mix(i) == (weight(i) * samples[Len(samples) - n + i]
                  + (16384 - weight(i)) * s[i] + 8192) \div 16384
  IN  samples' = Front(Len(samples) - n) \o [i \in 1 .. n |-> mix(i)]
                 \o SubSeq(s, n + 1, Len(s))
=============================================================================
