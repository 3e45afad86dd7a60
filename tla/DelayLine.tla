----------------------------- MODULE DelayLine -----------------------------
(***************************************************************************)
(* A delay line that works in place: what goes in as a frame comes out     *)
(* Length units later, in frames of the same length, with nothing lost,    *)
(* repeated or moved.  The frame is handed over when a call begins and is  *)
(* the delayed one when the call ends.                                     *)
(***************************************************************************)
EXTENDS Naturals, Sequences

CONSTANTS Length,    \* the delay
          Frames,    \* what can be handed over, sequences of units
          Silence    \* the unit the line is filled with

VARIABLES busy,      \* a call is under way
          frame,     \* the caller's frame
          line       \* the units inside, oldest first

vars == <<busy, frame, line>>

Init ==
  /\ busy = FALSE
  /\ frame = <<>>
  /\ line = [i \in 1 .. Length |-> Silence]

Begin(f) ==
  /\ ~busy
  /\ busy' = TRUE
  /\ frame' = f
  /\ UNCHANGED line

End ==
  /\ busy
  /\ busy' = FALSE
  /\ frame' = SubSeq(line \o frame, 1, Len(frame))
  /\ line' = SubSeq(line \o frame, Len(frame) + 1, Length + Len(frame))

Next == End \/ \E f \in Frames : Begin(f)

Spec == Init /\ [][Next]_vars
=============================================================================
