------------------------------ MODULE MCAudio ------------------------------
(* The audio buffers of NetEq: a vector and a sync buffer, of few samples    *)
(* that are told apart.                                                      *)
EXTENDS Integers

CONSTANTS AudioValue, SyncValue, MaxSize, MaxPiece, Length

\* Samples are numbers.
ASSUME AudioAssumption ==
  AudioValue \cup SyncValue \subseteq Int /\ MaxSize \in Nat /\ MaxPiece \in Nat /\ Length \in Nat

VARIABLES
  vector, samples,
  channel, next_index, dtmf_index, past, future, mark

Audio == INSTANCE AudioVector WITH Values <- AudioValue
Sync == INSTANCE SyncBuffer WITH Values <- SyncValue

\* The ring of an audio vector is the list of its samples (AudioVector).
VectorIsList == Audio!VectorIsList

\* No sample is moved away from its place in the sync buffer (SyncBuffer).
WindowKept == Sync!WindowKept
=============================================================================
