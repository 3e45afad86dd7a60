----------------------------- MODULE Histogram -----------------------------
(***************************************************************************)
(* histogram.cc: probabilities in fixed point, one bucket per delay, that  *)
(* are kept adding up to one.  Buckets are a sequence: bucket i of the     *)
(* code is element i + 1.                                                  *)
(***************************************************************************)
EXTENDS Integers, Sequences

CONSTANTS
  One,         \* of what a probability counts the parts (2^30 in the code),
  FactorOne,   \* of what a forgetting factor does (2^15),
  StartOne     \* and the start distribution (2^14)

Total(buckets) ==
  LET sum[i \in 0 .. Len(buckets)] == IF i = 0 THEN 0 ELSE sum[i - 1] + buckets[i]
  IN  sum[Len(buckets)]
Magnitude(x) == IF x < 0 THEN -x ELSE x
Lesser(x, y) == IF x < y THEN x ELSE y
Greater(x, y) == IF x < y THEN y ELSE x

\* Reset: bucket i is 2^-(i+1), and the two units above one in temp_prob
\* make up for those that the shifts lose.
Start(size) ==
  [i \in 1 .. size |-> ((StartOne + 2) \div 2 ^ i) * (One \div StartOne)]

\* Mutant: rounding errors are left in.
Uncorrected(buckets) == buckets

\* What rounding left over or took away is taken from, or given to, the first
\* buckets, a sixteenth of each at most.
Correct(buckets) ==
  LET By(left, b) == (IF left > 0 THEN -1 ELSE 1) * Lesser(Magnitude(left), b \div 16)
      excess[i \in 0 .. Len(buckets)] ==
        IF i = 0 THEN Total(buckets) - One
        ELSE excess[i - 1] + By(excess[i - 1], buckets[i])
  IN  [i \in DOMAIN buckets |-> buckets[i] + By(excess[i - 1], buckets[i])]

Forget(buckets, factor) ==
  [i \in DOMAIN buckets |-> (buckets[i] * factor) \div FactorOne]

Add(buckets, factor, value) ==
  Correct([Forget(buckets, factor) EXCEPT
             ![value + 1] = @ + (FactorOne - factor) * (One \div FactorOne)])

\* forget_factor_ goes a quarter of the way to base_forget_factor_.
NextFactor(factor, base) == factor + (base - factor + 3) \div 4

\* The first bucket, 0 apart, with no more than 1 - probability above it.
Quantile(buckets, probability) ==
  LET Top == Len(buckets) - 1
      Above(i) == One - Total(SubSeq(buckets, 1, i + 1))
      Enough == {i \in 1 .. Top : Above(i) <= One - probability}
  IN  IF Enough = {} THEN Top
      ELSE CHOOSE i \in Enough : \A j \in Enough : i <= j

\* ScaleBuckets: each bucket is collected, and what is there by the time a new
\* bucket ends is spread over those that end; what is left goes to the next.
Scaled(buckets, old_width, new_width) ==
  LET Top == Len(buckets)
      Write(out, from, n, amount) ==
        [i \in DOMAIN out |->
           out[i] + amount * (IF i = Top THEN Greater(0, from + n - Greater(from, Top))
                              ELSE IF i \in from .. from + n - 1 THEN 1 ELSE 0)]
      Collect(acc, b) ==
        LET time == acc.time + old_width
            n == time \div new_width
            amount == ((acc.held + b) * new_width) \div time
        IN  [out |-> Write(acc.out, acc.to, n, amount),
             to |-> Lesser(acc.to + n, Top),
             held |-> acc.held + b - n * amount,
             time |-> time - n * new_width]
      after[i \in 0 .. Top] ==
        IF i = 0 THEN [out |-> [j \in 1 .. Top |-> 0], to |-> 1, held |-> 0, time |-> 0]
        ELSE Collect(after[i - 1], buckets[i])
      end == after[Top]
  IN  [end.out EXCEPT ![end.to] = @ + end.held]
=============================================================================
