----------------------------- MODULE GapTracker -----------------------------
(***************************************************************************)
(* What the NACK tracker promises, told with sequence numbers that never   *)
(* wrap: the packets worth asking for again are the numbers skipped by the *)
(* stream, less those that arrived after all, those no longer playable and *)
(* those too far behind the newest packet.                                 *)
(***************************************************************************)
EXTENDS Integers

CONSTANT SizeLimit   \* the largest value limit can be set to

VARIABLES started,   \* a packet has been received since the last restart
          highest,   \* the highest number received
          played,    \* the number of the packet played last
          limit,     \* how far behind highest a gap is remembered
          gaps       \* the numbers worth asking for

vars == <<started, highest, played, limit, gaps>>

Recent(S, n, m) == {g \in S : g >= n - m}

Init ==
  /\ started = FALSE
  /\ highest \in Int
  /\ played \in Int
  /\ limit = SizeLimit
  /\ gaps = {}

\* The first packet after a restart starts the count, whatever its number.
Start ==
  /\ ~started
  /\ started' = TRUE
  /\ highest' \in Int
  /\ played' \in Int
  /\ UNCHANGED <<limit, gaps>>

\* A packet newer than all before: the numbers it skips are new gaps.
Advance ==
  /\ started
  /\ highest' > highest
  /\ gaps' = Recent(gaps \cup highest + 1 .. highest' - 1, highest', limit)
  /\ UNCHANGED <<started, played, limit>>

\* A late packet fills its gap.
Fill ==
  /\ started
  /\ \E n \in gaps : gaps' = gaps \ {n}
  /\ UNCHANGED <<started, highest, played, limit>>

\* A packet is played: nothing up to it can be used any more.
Play ==
  /\ started
  /\ gaps' = {g \in gaps : g > played'}
  /\ UNCHANGED <<started, highest, limit>>

\* The oldest gaps have run out of time; the others stay.
Expire ==
  /\ gaps' \subseteq gaps
  /\ \A g \in gaps \ gaps', r \in gaps' : g < r
  /\ UNCHANGED <<started, highest, played, limit>>

\* A new limit takes effect at once.
SetLimit ==
  /\ limit' \in 1 .. SizeLimit
  /\ gaps' = Recent(gaps, highest, limit')
  /\ UNCHANGED <<started, highest, played>>

Restart ==
  /\ started' = FALSE
  /\ gaps' = {}
  /\ UNCHANGED limit

Next ==
  \/ Start \/ Advance \/ Fill \/ Play \/ Expire \/ SetLimit \/ Restart

Spec == Init /\ [][Next]_vars
=============================================================================
