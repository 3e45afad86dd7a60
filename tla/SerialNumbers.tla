--------------------------- MODULE SerialNumbers ---------------------------
(***************************************************************************)
(* modules/include/module_common_types_public.h: comparison of unsigned    *)
(* counters that wrap.  h is half the modulus: 2^15 for RTP sequence       *)
(* numbers, 2^31 for RTP timestamps.                                       *)
(***************************************************************************)
EXTENDS Integers

\* The values of the counter.
Serial(h) == 0 .. 2 * h - 1

\* static_cast<U>(v - p), for v and p of type U.
Minus(v, p, h) == IF v >= p THEN v - p ELSE v - p + 2 * h

\* Mutant: the sum is not cut to the width of U.
PlusWider(v, k, h) == v + k

\* static_cast<U>(v + k), for v of type U and k no larger than the modulus.
Plus(v, k, h) == IF v + k < 2 * h THEN v + k ELSE v + k - 2 * h

\* IsNewer: v lies in the half of the circle ahead of p; of two values exactly
\* half the modulus apart the larger one is the newer one.
IsNewer(v, p, h) ==
  \/ Minus(v, p, h) = h /\ v > p
  \/ v # p /\ Minus(v, p, h) < h
=============================================================================
