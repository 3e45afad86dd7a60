---------------------------- MODULE BoundedFifo ----------------------------
(***************************************************************************)
(* What a bounded queue between two threads promises: items leave in the   *)
(* order they entered, each once; an item is refused when the queue is     *)
(* full and only then, and the producer keeps it; the consumer comes back  *)
(* without one when the queue is empty and only then; and nothing but an   *)
(* explicit Clear loses one.  The caller is told which.                    *)
(*                                                                         *)
(* fifo is the content of the queue, oldest first; got is the item the     *)
(* consumer holds since its last successful Remove.  Every call changes    *)
(* last, so that none passes for a step in which nothing happens.          *)
(***************************************************************************)
EXTENDS Naturals, Sequences

CONSTANTS Size,   \* the capacity
          Item    \* what is passed

VARIABLES fifo, got,
          given,  \* what the producer called Insert with
          mine,   \* and what it has after the call
          last    \* the last call, what it returned, and a bit that each call turns

vars == <<fifo, got, given, mine, last>>

Answer(call, ok) == last' = [call |-> call, ok |-> ok, odd |-> ~last.odd]

(* The queue *)

Put(v) ==
  /\ Len(fifo) < Size
  /\ fifo' = Append(fifo, v)
  /\ UNCHANGED got

Take ==
  /\ fifo # <<>>
  /\ got' = Head(fifo)
  /\ fifo' = Tail(fifo)

(* The calls *)

Init ==
  /\ fifo = <<>>
  /\ got \in Item /\ given \in Item /\ mine \in Item
  /\ last = [call |-> "none", ok |-> TRUE, odd |-> FALSE]

\* The producer gets another item in exchange.
Insert(v) ==
  /\ given' = v
  /\ Put(v)
  /\ mine' \in Item
  /\ Answer("Insert", TRUE)

Refuse(v) ==
  /\ given' = v
  /\ Len(fifo) = Size
  /\ mine' = v
  /\ UNCHANGED <<fifo, got>>
  /\ Answer("Insert", FALSE)

Remove ==
  /\ Take
  /\ UNCHANGED <<given, mine>>
  /\ Answer("Remove", TRUE)

RemoveNothing ==
  /\ fifo = <<>>
  /\ UNCHANGED <<fifo, got, given, mine>>
  /\ Answer("Remove", FALSE)

Clear ==
  /\ fifo' = <<>>
  /\ UNCHANGED <<got, given, mine>>
  /\ Answer("Clear", TRUE)

Next ==
  \/ \E v \in Item : Insert(v) \/ Refuse(v)
  \/ Remove \/ RemoveNothing \/ Clear

Spec == Init /\ [][Next]_vars
=============================================================================
