----------------------------- MODULE SwapQueue -----------------------------
(***************************************************************************)
(* rtc_base/swap_queue.h: the fixed-size queue that hands render frames    *)
(* from the render thread to the capture thread of the echo canceller.     *)
(*                                                                         *)
(* An element T owns heap storage.  Insert and Remove exchange elements    *)
(* with std::swap, so storage travels in both directions; an element is    *)
(* modelled as a pair of the storage it owns and what is written in it.    *)
(* Every operation holds crit_queue_ from its first to its last access of  *)
(* the queue: one operation is one step.                                   *)
(***************************************************************************)
EXTENDS Naturals, Sequences

CONSTANTS Size,   \* the number of slots, queue_.size()
          Item,   \* the contents an element can have
          Blank   \* the content of the prototype the slots are copied from

ASSUME SizeAssumption == Size \in Nat \ {0}
ASSUME BlankAssumption == Blank \in Item

VARIABLES queue,              \* queue_
          next_write_index,   \* next_write_index_
          next_read_index,    \* next_read_index_
          num_elements,       \* num_elements_
          input,              \* the producer's T (*input of Insert)
          output,             \* the consumer's T (*output of Remove)
          given,              \* history: what Insert was called with, and
          last                \* the last call with what it returned; its bit
                              \* odd is turned by every call

indices == <<next_write_index, next_read_index, num_elements>>
vars == <<queue, indices, input, output, given, last>>

SlotIndex == 0 .. Size - 1

\* Every T in existence owns storage of its own: one per slot, one for the
\* producer and one for the consumer.
Storage == 0 .. Size + 1
Element == [storage : Storage, content : Item]

\* The constructor: Size copies of the prototype.
Init ==
  /\ queue = [i \in SlotIndex |-> [storage |-> i, content |-> Blank]]
  /\ next_write_index = 0
  /\ next_read_index = 0
  /\ num_elements = 0
  /\ input = [storage |-> Size, content |-> Blank]
  /\ output = [storage |-> Size + 1, content |-> Blank]
  /\ given = Blank
  /\ last = [call |-> "none", ok |-> TRUE, odd |-> FALSE]

\* The call returns ok.
Returns(call, ok) == last' = [call |-> call, ok |-> ok, odd |-> ~last.odd]

\* Mutants of the operations, each a plausible slip in the code.
AdvanceTooFar(i) == IF i = Size THEN 0 ELSE i + 1

\* The index after i, wrapping at the end of queue_.
Advance(i) == IF i + 1 = Size THEN 0 ELSE i + 1

InsertByCopy(v) ==
  /\ num_elements # Size
  /\ given' = v /\ input' = [input EXCEPT !.content = v]
  /\ queue' = [queue EXCEPT ![next_write_index] = input']
  /\ next_write_index' = Advance(next_write_index)
  /\ num_elements' = num_elements + 1
  /\ UNCHANGED <<next_read_index, output>>
  /\ Returns("Insert", TRUE)

\* One slot is kept free, as in a ring without a count of its elements.
InsertLeavingOne(v) ==
  LET filled == [input EXCEPT !.content = v] IN
  /\ given' = v
  /\ UNCHANGED <<next_read_index, output>>
  /\ \/ /\ num_elements + 1 >= Size
        /\ input' = filled
        /\ UNCHANGED <<queue, next_write_index, num_elements>>
        /\ Returns("Insert", FALSE)
     \/ /\ num_elements + 1 < Size
        /\ input' = queue[next_write_index]
        /\ queue' = [queue EXCEPT ![next_write_index] = filled]
        /\ next_write_index' = Advance(next_write_index)
        /\ num_elements' = num_elements + 1
        /\ Returns("Insert", TRUE)

\* The producer writes v in its element and calls Insert: the element goes
\* into the slot at next_write_index and the slot's one comes back, unless the
\* queue is full, when Insert returns false and moves nothing.
Insert(v) ==
  LET filled == [input EXCEPT !.content = v] IN
  /\ given' = v
  /\ UNCHANGED <<next_read_index, output>>
  /\ \/ /\ num_elements = Size
        /\ input' = filled
        /\ UNCHANGED <<queue, next_write_index, num_elements>>
        /\ Returns("Insert", FALSE)
     \/ /\ num_elements # Size
        /\ input' = queue[next_write_index]
        /\ queue' = [queue EXCEPT ![next_write_index] = filled]
        /\ next_write_index' = Advance(next_write_index)
        /\ num_elements' = num_elements + 1
        /\ Returns("Insert", TRUE)

\* Remove: the frontmost element is exchanged with the consumer's one; on an
\* empty queue it returns false and moves nothing.
Remove ==
  /\ UNCHANGED <<next_write_index, input, given>>
  /\ \/ /\ num_elements = 0
        /\ UNCHANGED <<queue, next_read_index, num_elements, output>>
        /\ Returns("Remove", FALSE)
     \/ /\ num_elements # 0
        /\ output' = queue[next_read_index]
        /\ queue' = [queue EXCEPT ![next_read_index] = output]
        /\ next_read_index' = Advance(next_read_index)
        /\ num_elements' = num_elements - 1
        /\ Returns("Remove", TRUE)

\* Clear forgets the elements; their storage stays in the slots.
Clear ==
  /\ next_write_index' = 0
  /\ next_read_index' = 0
  /\ num_elements' = 0
  /\ UNCHANGED <<queue, input, output, given>>
  /\ Returns("Clear", TRUE)

Next == Remove \/ Clear \/ \E v \in Item : Insert(v)

Spec == Init /\ [][Next]_vars

-----------------------------------------------------------------------------
(***************************************************************************)
(* Properties                                                              *)
(***************************************************************************)
TypeOK ==
  /\ queue \in [SlotIndex -> Element]
  /\ next_write_index \in SlotIndex
  /\ next_read_index \in SlotIndex
  /\ num_elements \in 0 .. Size
  /\ {input, output} \subseteq Element
  /\ given \in Item
  /\ last \in [call : {"none", "Insert", "Remove", "Clear"}, ok : BOOLEAN, odd : BOOLEAN]

\* The slot of the k-th oldest element, k counting from 0 (k <= Size).
Slot(k) == IF next_read_index + k < Size THEN next_read_index + k
                                         ELSE next_read_index + k - Size

\* The member comment of swap_queue.h: next_read_index_ + num_elements_,
\* modulo the size, is next_write_index_.  Three counters are kept by two
\* operations; if they drift apart, elements are lost or read twice.
IndexRelation == next_write_index = Slot(num_elements)

\* No two holders of an element own the same storage: the exchange neither
\* copies nor drops storage, so the two threads never share a frame that one
\* of them is writing outside the lock.
StorageNotShared ==
  /\ \A i, j \in SlotIndex :
        i # j => queue[i].storage # queue[j].storage
  /\ \A i \in SlotIndex :
        queue[i].storage \notin {input.storage, output.storage}
  /\ input.storage # output.storage

\* What the queue holds, oldest first.
Content == [k \in 1 .. num_elements |-> queue[Slot(k - 1)].content]

\* The ring of swapped slots is a bounded FIFO queue: order, no duplication,
\* no loss but by Clear; Insert returns false when the queue is full and only
\* then, and the producer keeps what it has; Remove does when it is empty and
\* only then.  Every call shows, for it changes last.
Fifo == INSTANCE BoundedFifo WITH
          fifo <- Content, got <- output.content, mine <- input.content
FifoSpec == Fifo!Spec
=============================================================================
