------------------------------ MODULE Metrics ------------------------------
(***************************************************************************)
(* system_wrappers/source/metrics.cc and the macros of metrics.h: threads  *)
(* add samples to named histograms, each place in the code remembering the *)
(* histogram it found, while another thread collects them.  A section      *)
(* under a lock is one step, as CriticalSection justifies; only the        *)
(* collection, which takes the lock of every histogram in turn, is many.   *)
(***************************************************************************)
EXTENDS Naturals, Sequences, FiniteSets

CONSTANTS
  Thread,
  Site,               \* the macros in the code,
  Name,               \* the histogram each names,
  Fast,               \* and those that remember it
  Samples,            \* what is added,
  Lowest, Highest,    \* and the bounds of the histograms
  kMaxSampleMapSize,
  MaxCalls            \* bound: how many samples are added

VARIABLES
  enabled, called,    \* g_rtc_histogram_map is there, g_rtc_histogram_called
  map,                \* the histogram of each name, 0 for none
  samples,            \* info_.samples of each histogram that was made
  atomic_histogram_pointer,
  pc,                 \* where each thread is in a macro, with what it holds
  calls,
  collecting,         \* the histograms GetAndReset has still to visit
  added, reported, dropped    \* history: the samples by name and value

history == <<added, reported, dropped>>
vars == <<enabled, called, map, samples, atomic_histogram_pointer, pc, calls, collecting, history>>

Names == {Name[p] : p \in Site}
Values == Lowest - 1 .. Highest
NoSamples == [v \in Values |-> 0]
Out == [at |-> "out"]

Init ==
  /\ enabled = FALSE /\ called = FALSE
  /\ map = [n \in Names |-> 0]
  /\ samples = <<>>
  /\ atomic_histogram_pointer = [p \in Fast |-> 0]
  /\ pc = [t \in Thread |-> Out]
  /\ collecting = {} /\ calls = 0
  /\ added = [n \in Names |-> NoSamples]
  /\ reported = added /\ dropped = added

-----------------------------------------------------------------------------
\* Enable, once, before any histogram was asked for (the checks of l.285-287).
Enable ==
  /\ ~enabled /\ ~called
  /\ enabled' = TRUE
  /\ UNCHANGED <<called, map, samples, atomic_histogram_pointer, pc, calls, collecting, history>>

\* A macro begins: the place may remember its histogram.
Call(t, p, sample) ==
  LET pointer == IF p \in Fast THEN atomic_histogram_pointer[p] ELSE 0
  IN  /\ pc[t] = Out /\ calls < MaxCalls
      /\ calls' = calls + 1
      /\ pc' = [pc EXCEPT ![t] = [at |-> IF pointer = 0 THEN "get" ELSE "add",
                                  place |-> p, sample |-> sample, histogram |-> pointer]]
      /\ UNCHANGED <<enabled, called, map, samples, atomic_histogram_pointer, collecting, history>>

\* Mutant: a place that does not remember a histogram makes one.
FindNothing(name) == Len(samples) + 1

\* HistogramFactoryGet: the histogram of this name is found, or made, under
\* the lock of the map.
Find(name) == IF map[name] # 0 THEN map[name] ELSE Len(samples) + 1

\* The histogram the thread goes on with: to be remembered, or added to.
Get(t) ==
  LET p == pc[t].place
      n == Name[p]
  IN  /\ pc[t].at = "get"
      /\ called' = TRUE
      /\ IF ~enabled
         THEN /\ pc' = [pc EXCEPT ![t] = Out]
              /\ UNCHANGED <<map, samples>>
         ELSE /\ collecting = {}
              /\ map' = [map EXCEPT ![n] = Find(n)]
              /\ samples' = IF Find(n) \in DOMAIN samples THEN samples
                            ELSE Append(samples, NoSamples)
              /\ pc' = [pc EXCEPT ![t].at = IF p \in Fast THEN "swap" ELSE "add",
                                  ![t].histogram = Find(n)]
      /\ UNCHANGED <<enabled, atomic_histogram_pointer, calls, collecting, history>>

\* CompareAndSwapPtr: the first to come is remembered.
Swap(t) ==
  LET p == pc[t].place
  IN  /\ pc[t].at = "swap"
      /\ atomic_histogram_pointer' =
           [atomic_histogram_pointer EXCEPT ![p] = IF @ = 0 THEN pc[t].histogram ELSE @]
      /\ pc' = [pc EXCEPT ![t].at = "add"]
      /\ UNCHANGED <<enabled, called, map, samples, calls, collecting, history>>

Clamped(sample) ==
  CASE sample > Highest -> Highest [] sample < Lowest - 1 -> Lowest - 1 [] OTHER -> sample

\* RtcHistogram::Add, with the lock of the histogram alone.
Add(t) ==
  LET h == pc[t].histogram
      n == Name[pc[t].place]
      v == Clamped(pc[t].sample)
      full == /\ Cardinality({w \in Values : samples[h][w] > 0}) = kMaxSampleMapSize
              /\ samples[h][v] = 0
      More(count) == [count EXCEPT ![n][v] = @ + 1]
  IN  /\ pc[t].at = "add"
      /\ pc' = [pc EXCEPT ![t] = Out]
      /\ added' = More(added)
      /\ IF full THEN dropped' = More(dropped) /\ UNCHANGED samples
         ELSE samples' = [samples EXCEPT ![h][v] = @ + 1] /\ UNCHANGED dropped
      /\ UNCHANGED <<enabled, called, map, atomic_histogram_pointer, calls, collecting, reported>>

\* GetAndReset takes the lock of the map, and gives it up after the last.
GetAndReset ==
  /\ collecting = {}
  /\ called' = TRUE
  /\ collecting' = {n \in Names : map[n] # 0}
  /\ UNCHANGED <<enabled, map, samples, atomic_histogram_pointer, pc, calls, history>>

GetAndResetOne(n) ==
  /\ n \in collecting
  /\ collecting' = collecting \ {n}
  /\ reported' = [reported EXCEPT ![n] = [v \in Values |-> @[v] + samples[map[n]][v]]]
  /\ samples' = [samples EXCEPT ![map[n]] = NoSamples]
  /\ UNCHANGED <<enabled, called, map, atomic_histogram_pointer, pc, calls, added, dropped>>

Next ==
  \/ Enable
  \/ \E t \in Thread :
       \/ Get(t) \/ Swap(t) \/ Add(t)
       \/ \E p \in Site, sample \in Samples : Call(t, p, sample)
  \/ GetAndReset
  \/ \E n \in Names : GetAndResetOne(n)

Spec == Init /\ [][Next]_vars

-----------------------------------------------------------------------------
TypeOK ==
  /\ map \in [Names -> 0 .. Len(samples)]
  /\ atomic_histogram_pointer \in [Fast -> 0 .. Len(samples)]
  /\ Len(samples) <= Cardinality(Names)
  /\ \A h \in DOMAIN samples :
       Cardinality({v \in Values : samples[h][v] > 0}) <= kMaxSampleMapSize
  /\ collecting \subseteq Names

\* No sample is lost or counted twice, whichever threads meet at the first
\* use of a histogram and whatever is added while it is collected: what was
\* added under a name was reported, waits, or found no room; and a place
\* remembers the one histogram of its name (the check of metrics.h:171).
SamplesConserved ==
  /\ \A p \in Fast : atomic_histogram_pointer[p] \in {0, map[Name[p]]}
  /\ \A n \in Names, v \in Values :
       added[n][v] = reported[n][v] + dropped[n][v]
                       + IF map[n] = 0 THEN 0 ELSE samples[map[n]][v]
=============================================================================
