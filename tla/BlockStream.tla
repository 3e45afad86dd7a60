---------------------------- MODULE BlockStream ----------------------------
(***************************************************************************)
(* Frames go in, blocks of another length come out: the units of the       *)
(* frames accepted, in order, each once, cut into blocks.                  *)
(***************************************************************************)
EXTENDS Naturals, Sequences

CONSTANTS BlockLength,   \* the units of a block
          Frames         \* what can be accepted, sequences of units

VARIABLES stream,        \* the units accepted and not delivered
          blocks         \* the blocks delivered last, joined

vars == <<stream, blocks>>

Init == stream = <<>> /\ blocks = <<>>

Accept(f) ==
  /\ stream' = stream \o f
  /\ UNCHANGED blocks

Deliver ==
  \E n \in 1 .. Len(stream) :
    /\ n % BlockLength = 0
    /\ blocks' = SubSeq(stream, 1, n)
    /\ stream' = SubSeq(stream, n + 1, Len(stream))

Next == Deliver \/ \E f \in Frames : Accept(f)

Spec == Init /\ [][Next]_vars
=============================================================================
