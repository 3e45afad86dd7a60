---------------------------- MODULE RingProofs -----------------------------
(***************************************************************************)
(* Theorems about the two rings: the swap queue and the audio vector, with *)
(* the sync buffer made of it.                                             *)
(*                                                                         *)
(* The swap queue is a bounded FIFO queue for every size and every set of  *)
(* contents.  The refinement rests on the index relation, which with the   *)
(* types is inductive; that storage is never shared is inductive with the  *)
(* types alone.                                                            *)
(***************************************************************************)
EXTENDS SwapQueue, MCAudio, FiniteSetTheorems, SequenceTheorems, TLAPS

IInv == TypeOK /\ IndexRelation

\* Slot is one-to-one on the offsets below the size, and stays in range.
LEMMA SlotInjective ==
  ASSUME TypeOK, NEW j \in 0 .. Size - 1, NEW k \in 0 .. Size - 1
  PROVE  /\ Slot(j) \in SlotIndex
         /\ Slot(j) = Slot(k) => j = k
  BY SizeAssumption DEF TypeOK, Slot, SlotIndex

\* The slots of a full queue start over: the write index meets the read index.
LEMMA SlotNext ==
  ASSUME TypeOK, NEW k \in 0 .. Size - 1
  PROVE  Advance(Slot(k)) = Slot(k + 1)
  BY SizeAssumption DEF TypeOK, Slot, SlotIndex, Advance

\* The types without the history of calls.
Holds ==
  /\ queue \in [SlotIndex -> Element]
  /\ next_write_index \in SlotIndex
  /\ next_read_index \in SlotIndex
  /\ num_elements \in 0 .. Size
  /\ input \in Element /\ output \in Element
  /\ given \in Item

Calls == [call : {"none", "Insert", "Remove", "Clear"}, ok : BOOLEAN, odd : BOOLEAN]

LEMMA LastTyped ==
  ASSUME TypeOK, NEW call \in {"Insert", "Remove", "Clear"}, NEW ok \in BOOLEAN,
         Returns(call, ok)
  PROVE  last' \in Calls
  BY DEF TypeOK, Calls, Returns

\* What Insert does to a queue with room, and Remove to one with elements.
LEMMA Inserted ==
  ASSUME NEW v, Insert(v), num_elements # Size
  PROVE  /\ queue' = [queue EXCEPT ![next_write_index] = [input EXCEPT !.content = v]]
         /\ input' = queue[next_write_index]
         /\ next_write_index' = Advance(next_write_index)
         /\ num_elements' = num_elements + 1
         /\ given' = v
         /\ UNCHANGED <<next_read_index, output>>
         /\ Returns("Insert", TRUE)
  BY DEF Insert

LEMMA Removed ==
  ASSUME Remove, num_elements # 0
  PROVE  /\ output' = queue[next_read_index]
         /\ queue' = [queue EXCEPT ![next_read_index] = output]
         /\ next_read_index' = Advance(next_read_index)
         /\ num_elements' = num_elements - 1
         /\ UNCHANGED <<next_write_index, input, given>>
         /\ Returns("Remove", TRUE)
  BY DEF Remove

\* Every operation of the queue keeps its indices in range and its slots and
\* the two threads' elements well formed.
THEOREM TypeCorrect == Spec => []TypeOK
<1>1. Init => TypeOK
  BY SizeAssumption, BlankAssumption
     DEF Init, TypeOK, Element, Storage, SlotIndex
<1>2. TypeOK /\ [Next]_vars => TypeOK'
  <2> SUFFICES ASSUME TypeOK, [Next]_vars PROVE TypeOK'
    OBVIOUS
  <2> Holds
    BY DEF TypeOK, Holds
  <2>1. ASSUME NEW v \in Item, Insert(v) PROVE TypeOK'
    <3>1. [input EXCEPT !.content = v] \in Element
      BY DEF Element, TypeOK
    <3>2. last' \in Calls
      BY <2>1, LastTyped DEF Insert
    <3>3. Holds'
      <4>1. CASE num_elements = Size
        BY <2>1, <3>1, <4>1 DEF Insert, Holds
      <4>2. CASE num_elements # Size
        <5>1. /\ next_write_index' \in SlotIndex /\ next_read_index' \in SlotIndex
              /\ num_elements' \in 0 .. Size
          <6>1. /\ next_write_index' = Advance(next_write_index)
                /\ num_elements' = num_elements + 1
                /\ next_read_index' = next_read_index
            BY <2>1, <4>2, Inserted
          <6> QED
            BY <4>2, <6>1, SizeAssumption DEF Holds, Advance, SlotIndex
        <5>2. queue' \in [SlotIndex -> Element]
          <6>1. queue' = [queue EXCEPT ![next_write_index] = [input EXCEPT !.content = v]]
            BY <2>1, <4>2, Inserted
          <6> QED
            BY <3>1, <6>1 DEF Holds
        <5> QED
          <6>1. input' = queue[next_write_index] /\ output' = output /\ given' = v
            BY <2>1, <4>2, Inserted
          <6>2. queue[next_write_index] \in Element
            BY DEF Holds
          <6> QED
            BY <5>1, <5>2, <6>1, <6>2 DEF Holds
      <4> QED
        BY <4>1, <4>2
    <3> QED
      BY <3>2, <3>3 DEF TypeOK, Holds, Calls
  <2>2. CASE Remove
    <3>1. last' \in Calls
      BY <2>2, LastTyped DEF Remove
    <3>2. Holds'
      <4>1. CASE num_elements = 0
        BY <2>2, <4>1 DEF Remove, Holds
      <4>2. CASE num_elements # 0
        <5>1. /\ next_write_index' \in SlotIndex /\ next_read_index' \in SlotIndex
              /\ num_elements' \in 0 .. Size
          <6>1. /\ next_write_index' = next_write_index
                /\ num_elements' = num_elements - 1
                /\ next_read_index' = Advance(next_read_index)
            BY <2>2, <4>2, Removed
          <6> QED
            BY <4>2, <6>1, SizeAssumption DEF Holds, Advance, SlotIndex
        <5>2. queue' \in [SlotIndex -> Element]
          BY <2>2, <4>2, Removed DEF Holds
        <5> QED
          BY <2>2, <4>2, <5>1, <5>2, Removed DEF Holds
      <4> QED
        BY <4>1, <4>2
    <3> QED
      BY <3>1, <3>2 DEF TypeOK, Holds, Calls
  <2>3. CASE Clear
    <3>1. last' \in Calls
      BY <2>3, LastTyped DEF Clear
    <3>2. Holds'
      BY <2>3, SizeAssumption DEF Clear, Holds, SlotIndex
    <3> QED
      BY <3>1, <3>2 DEF TypeOK, Holds, Calls
  <2>4. CASE UNCHANGED vars
    BY <2>4 DEF vars, indices, TypeOK
  <2> QED
    BY <2>1, <2>2, <2>3, <2>4 DEF Next
<1> QED
  BY <1>1, <1>2, PTL DEF Spec

\* The three counters never drift apart: the write index is the read index
\* moved on by the number of elements.
THEOREM IndicesAgree == Spec => []IndexRelation
<1>1. Init => IndexRelation
  BY SizeAssumption DEF Init, IndexRelation, Slot
<1>2. TypeOK /\ IndexRelation /\ [Next]_vars => IndexRelation'
  <2> SUFFICES ASSUME TypeOK, IndexRelation, [Next]_vars PROVE IndexRelation'
    OBVIOUS
  <2> Holds
    BY DEF TypeOK, Holds
  <2> USE SizeAssumption DEF Holds, SlotIndex, IndexRelation, Slot
  <2>1. ASSUME NEW v \in Item, Insert(v) PROVE IndexRelation'
    <3>1. CASE num_elements = Size
      BY <2>1, <3>1 DEF Insert
    <3>2. CASE num_elements # Size
      <4>1. /\ next_write_index' = Advance(next_write_index)
            /\ num_elements' = num_elements + 1
            /\ next_read_index' = next_read_index
        BY <2>1, <3>2, Inserted
      <4> QED
        BY <3>2, <4>1 DEF Advance
    <3> QED
      BY <3>1, <3>2
  <2>2. CASE Remove
    <3>1. CASE num_elements = 0
      BY <2>2, <3>1 DEF Remove
    <3>2. CASE num_elements # 0
      <4>1. /\ next_write_index' = next_write_index
            /\ num_elements' = num_elements - 1
            /\ next_read_index' = Advance(next_read_index)
        BY <2>2, <3>2, Removed
      <4> QED
        BY <3>2, <4>1 DEF Advance
    <3> QED
      BY <3>1, <3>2
  <2>3. CASE Clear
    BY <2>3 DEF Clear
  <2>4. CASE UNCHANGED vars
    BY <2>4 DEF vars, indices
  <2> QED
    BY <2>1, <2>2, <2>3, <2>4 DEF Next
<1> QED
  BY <1>1, <1>2, TypeCorrect, PTL DEF Spec

\* The exchange of elements never leaves one piece of storage with two
\* holders, so neither thread can write what the other one reads.
THEOREM NoSharing == Spec => []StorageNotShared
<1>1. Init => StorageNotShared
  BY SizeAssumption DEF Init, StorageNotShared, SlotIndex
<1>2. TypeOK /\ StorageNotShared /\ [Next]_vars => StorageNotShared'
  <2> SUFFICES ASSUME TypeOK, StorageNotShared, [Next]_vars
               PROVE  StorageNotShared'
    OBVIOUS
  <2> Holds
    BY DEF TypeOK, Holds
  <2> USE DEF Holds, StorageNotShared
  <2>1. ASSUME NEW v \in Item, Insert(v) PROVE StorageNotShared'
    <3>1. [input EXCEPT !.content = v].storage = input.storage
      BY DEF Element
    <3>2. CASE num_elements = Size
      BY <2>1, <3>1, <3>2 DEF Insert
    <3>3. CASE num_elements # Size
      <4> DEFINE filled == [input EXCEPT !.content = v]
      <4>1. /\ input' = queue[next_write_index] /\ output' = output
            /\ queue' = [queue EXCEPT ![next_write_index] = filled]
        <5> HIDE DEF Holds, StorageNotShared
        <5> QED
          BY <2>1, <3>3 DEF Insert
      <4>2. /\ queue'[next_write_index].storage = input.storage
            /\ \A i \in SlotIndex \ {next_write_index} : queue'[i] = queue[i]
        <5> HIDE DEF filled
        <5> QED
          BY <3>1, <4>1 DEF filled
      <4> HIDE DEF filled
      <4>3. \A i \in SlotIndex : \A j \in SlotIndex \ {i} :
               queue'[i].storage # queue'[j].storage
        BY <4>2
      <4>4. \A i \in SlotIndex : queue'[i].storage \notin {input'.storage, output'.storage}
        BY <4>1, <4>2
      <4> QED
        BY <4>1, <4>3, <4>4
    <3> QED
      BY <3>2, <3>3
  <2>2. CASE Remove
    BY <2>2 DEF Remove
  <2>3. CASE Clear
    BY <2>3 DEF Clear
  <2>4. CASE UNCHANGED vars
    BY <2>4 DEF vars, indices
  <2> QED
    BY <2>1, <2>2, <2>3, <2>4 DEF Next
<1> QED
  BY <1>1, <1>2, TypeCorrect, PTL DEF Spec

-----------------------------------------------------------------------------
LEMMA ContentSeq ==
  ASSUME TypeOK
  PROVE  /\ Content \in Seq(Item)
         /\ Len(Content) = num_elements
         /\ \A k \in 1 .. num_elements :
               Content[k] = queue[Slot(k - 1)].content
<1>1. ASSUME NEW k \in 1 .. num_elements
      PROVE  queue[Slot(k - 1)].content \in Item
  <2>1. Slot(k - 1) \in SlotIndex
    BY SlotInjective, SizeAssumption DEF TypeOK
  <2> QED
    BY <2>1 DEF TypeOK, Element
<1>2. num_elements \in Nat
  BY SizeAssumption DEF TypeOK
<1> QED
  BY <1>1, <1>2 DEF Content

\* A call changes last, whatever it returns.
LEMMA CallShows ==
  ASSUME NEW call, NEW ok \in BOOLEAN, Returns(call, ok)
  PROVE  Fifo!Answer(call, ok)
  BY DEF Returns, Fifo!Answer

\* Insert appends to the abstract queue, or the queue is full and the
\* producer keeps its element.
LEMMA InsertRefines ==
  ASSUME IInv, TypeOK', NEW v \in Item, Insert(v)
  PROVE  Fifo!Insert(v) \/ Fifo!Refuse(v)
<1> USE SizeAssumption DEF IInv
<1>1. CASE num_elements = Size
  <2>1. /\ UNCHANGED <<queue, next_read_index, num_elements, output>>
        /\ given' = v /\ input' = [input EXCEPT !.content = v]
        /\ Returns("Insert", FALSE)
    BY <1>1 DEF Insert
  <2>2. UNCHANGED <<Content, output.content>>
    BY <2>1 DEF Content, Slot
  <2>3. input'.content = v
    BY <2>1 DEF TypeOK, Element
  <2>4. Len(Content) = Size
    BY <1>1, ContentSeq
  <2> QED
    BY <2>1, <2>2, <2>3, <2>4, CallShows DEF Fifo!Refuse
<1>2. CASE num_elements # Size
  <2>1. /\ num_elements' = num_elements + 1
        /\ queue' = [queue EXCEPT ![next_write_index] =
                        [input EXCEPT !.content = v]]
        /\ next_read_index' = next_read_index
        /\ output' = output
        /\ given' = v
        /\ Returns("Insert", TRUE)
    BY <1>2 DEF Insert
  <2>2. num_elements \in 0 .. Size - 1
    BY <1>2 DEF TypeOK
  <2>3. [input EXCEPT !.content = v].content = v
    BY DEF TypeOK, Element
  <2>9. ASSUME NEW k \in 1 .. num_elements + 1
         PROVE  Content'[k] = queue'[Slot(k - 1)].content
    BY <2>1 DEF Content, Slot
  <2>4. ASSUME NEW k \in 1 .. num_elements
        PROVE  Content'[k] = Content[k]
    <3>1. /\ Slot(k - 1) \in SlotIndex
          /\ Slot(k - 1) # next_write_index
      <4>1. k - 1 \in 0 .. Size - 1 /\ k - 1 # num_elements
        BY <2>2
      <4> QED
        BY <2>2, <4>1, SlotInjective DEF IndexRelation
    <3>2. queue'[Slot(k - 1)] = queue[Slot(k - 1)]
      BY <2>1, <3>1 DEF TypeOK
    <3>3. k \in 1 .. num_elements + 1
      BY <2>2
    <3> QED
      BY <2>9, <3>2, <3>3 DEF Content
  <2>5. Content'[num_elements + 1] = v
    <3>1. /\ num_elements + 1 \in 1 .. num_elements + 1
          /\ (num_elements + 1) - 1 = num_elements
      BY <2>2
    <3>2. Content'[num_elements + 1] = queue'[next_write_index].content
      BY <2>9, <3>1 DEF IndexRelation
    <3> QED
      BY <2>1, <2>3, <3>2 DEF TypeOK
  <2>6. Content \in Seq(Item) /\ Len(Content) = num_elements
    BY ContentSeq
  <2>7. /\ Content' \in Seq(Item)
        /\ Len(Content') = num_elements + 1
    <3>1. ASSUME NEW k \in 1 .. num_elements + 1
          PROVE  queue'[Slot(k - 1)].content \in Item
      <4>1. CASE k = num_elements + 1
        BY <2>5, <2>9, <4>1
      <4>2. CASE k # num_elements + 1
        <5>1. k \in 1 .. num_elements
          BY <2>2, <4>2
        <5>2. Content[k] \in Item
          BY <2>6, <5>1, ElementOfSeq
        <5> QED
          BY <2>4, <2>9, <5>1, <5>2
      <4> QED
        BY <4>1, <4>2
    <3>2. Content' = [k \in 1 .. num_elements + 1 |->
                         queue'[Slot(k - 1)].content]
      BY <2>1 DEF Content, Slot
    <3> QED
      BY <2>2, <3>1, <3>2
  <2>8. Content' = Append(Content, v)
    <3>1. Len(Append(Content, v)) = num_elements + 1
      BY <2>6
    <3>2. ASSUME NEW k \in 1 .. num_elements + 1
          PROVE  Content'[k] = Append(Content, v)[k]
      BY <2>2, <2>4, <2>5, <2>6
    <3> QED
      BY <2>6, <2>7, <3>1, <3>2, AppendProperties, SeqEqual
  <2>10. Fifo!Put(v)
    BY <2>1, <2>2, <2>6, <2>8 DEF Fifo!Put
  <2>11. input'.content \in Item
    BY DEF TypeOK, Element
  <2> QED
    BY <2>1, <2>10, <2>11, CallShows DEF Fifo!Insert
<1> QED
  BY <1>1, <1>2

\* A successful Remove takes the head of the abstract queue.
LEMMA RemoveTakes ==
  ASSUME IInv, Remove, num_elements # 0
  PROVE  Fifo!Take
<1> USE SizeAssumption DEF IInv
<1>1. /\ num_elements' = num_elements - 1
      /\ queue' = [queue EXCEPT ![next_read_index] = output]
      /\ next_read_index' = Slot(1)
      /\ output' = queue[next_read_index]
  <2>1. Advance(next_read_index) = Slot(1)
    BY DEF TypeOK, SlotIndex, Advance, Slot
  <2> QED
    BY <2>1, Removed
<1>2. num_elements \in 1 .. Size
  BY DEF Remove, TypeOK
<1>3. Slot(0) = next_read_index
  BY DEF Slot, TypeOK, SlotIndex
<1>4. Content \in Seq(Item) /\ Len(Content) = num_elements
  BY ContentSeq
<1>5. output'.content = Head(Content)
  <2>1. Content[1] = queue[Slot(0)].content
    BY <1>2, ContentSeq
  <2> QED
    BY <1>1, <1>2, <1>3, <1>4, <2>1
<1>6. ASSUME NEW k \in 1 .. num_elements - 1
      PROVE  queue'[Slot(k)] = queue[Slot(k)]
  <2>1. /\ k \in 0 .. Size - 1
        /\ 0 \in 0 .. Size - 1
        /\ k # 0
    BY <1>2
  <2>2. Slot(k) # next_read_index
    BY <1>3, <2>1, SlotInjective
  <2> QED
    BY <1>1, <2>2 DEF TypeOK
<1>7. ASSUME NEW k \in 1 .. num_elements - 1
      PROVE  /\ k - 1 \in 0 .. Size - 1
             /\ (IF Slot(1) + (k - 1) < Size THEN Slot(1) + (k - 1)
                                             ELSE Slot(1) + (k - 1) - Size)
                = Slot(k)
  BY <1>2 DEF Slot, TypeOK, SlotIndex
<1>8. Content' = [k \in 1 .. num_elements - 1 |-> queue[Slot(k)].content]
  <2>1. Content' = [k \in 1 .. num_elements - 1 |->
                      queue'[IF Slot(1) + (k - 1) < Size
                               THEN Slot(1) + (k - 1)
                               ELSE Slot(1) + (k - 1) - Size].content]
    BY <1>1 DEF Content, Slot
  <2> QED
    BY <2>1, <1>6, <1>7
<1>9. Content' = Tail(Content)
  <2>1. /\ Tail(Content) \in Seq(Item)
        /\ Len(Tail(Content)) = num_elements - 1
        /\ \A k \in 1 .. num_elements - 1 : Tail(Content)[k] = Content[k + 1]
    BY <1>2, <1>4
  <2>2. ASSUME NEW k \in 1 .. num_elements - 1
        PROVE  Content[k + 1] = queue[Slot(k)].content
    <3>1. k + 1 \in 1 .. num_elements /\ (k + 1) - 1 = k
      BY <1>2
    <3> QED
      BY <3>1, ContentSeq
  <2>3. ASSUME NEW k \in 1 .. num_elements - 1
        PROVE  Content'[k] = Tail(Content)[k]
    BY <1>8, <2>1, <2>2
  <2>4. Content' \in Seq(Item) /\ Len(Content') = num_elements - 1
    BY <1>2, <1>8, <2>1, <2>3, ElementOfSeq
  <2> QED
    BY <2>1, <2>3, <2>4, SeqEqual
<1> QED
  BY <1>2, <1>4, <1>5, <1>9 DEF Fifo!Take

\* Remove succeeds unless the abstract queue is empty.
LEMMA RemoveRefines ==
  ASSUME IInv, Remove
  PROVE  Fifo!Remove \/ Fifo!RemoveNothing
<1>1. UNCHANGED <<given, input>>
  BY DEF Remove
<1>2. CASE num_elements = 0
  <2>1. /\ UNCHANGED <<queue, next_read_index, num_elements, output>>
        /\ Returns("Remove", FALSE)
    BY <1>2 DEF Remove
  <2>2. UNCHANGED <<Content, output.content>>
    BY <2>1 DEF Content, Slot
  <2>3. Content = <<>>
    BY <1>2 DEF Content
  <2> QED
    BY <1>1, <2>1, <2>2, <2>3, CallShows DEF Fifo!RemoveNothing
<1>3. CASE num_elements # 0
  <2>1. Returns("Remove", TRUE)
    BY <1>3 DEF Remove
  <2> QED
    BY <1>1, <1>3, <2>1, RemoveTakes, CallShows DEF Fifo!Remove
<1> QED
  BY <1>2, <1>3

\* For every size and every set of contents, the ring of swapped slots
\* implements the bounded FIFO queue of BoundedFifo: each call is one of its
\* calls, with the same answer.
THEOREM ImplementsFifo == Spec => FifoSpec
<1>1. Init => Fifo!Init
  <2> SUFFICES ASSUME Init PROVE Fifo!Init
    OBVIOUS
  <2>1. /\ num_elements = 0 /\ output.content = Blank /\ input.content = Blank
        /\ given = Blank /\ last = [call |-> "none", ok |-> TRUE, odd |-> FALSE]
    BY DEF Init
  <2>2. Content = <<>>
    BY <2>1 DEF Content
  <2> QED
    BY <2>1, <2>2, BlankAssumption DEF Fifo!Init
<1>2. ASSUME IInv, TypeOK', [Next]_vars
      PROVE  [Fifo!Next]_Fifo!vars
  <2>1. ASSUME NEW v \in Item, Insert(v) PROVE [Fifo!Next]_Fifo!vars
    BY <1>2, <2>1, InsertRefines DEF Fifo!Next
  <2>2. CASE Remove
    BY <1>2, <2>2, RemoveRefines DEF Fifo!Next
  <2>3. CASE Clear
    <3>1. /\ num_elements' = 0 /\ UNCHANGED <<input, output, given>>
          /\ Returns("Clear", TRUE)
      BY <2>3 DEF Clear
    <3>2. Content' = <<>>
      BY <3>1 DEF Content
    <3> QED
      BY <3>1, <3>2, CallShows DEF Fifo!Clear, Fifo!Next
  <2>4. CASE UNCHANGED vars
    BY <2>4 DEF vars, indices, Content, Slot, Fifo!vars
  <2> QED
    BY <1>2, <2>1, <2>2, <2>3, <2>4 DEF Next
<1> QED
  BY <1>1, <1>2, TypeCorrect, IndicesAgree, PTL
     DEF Spec, FifoSpec, Fifo!Spec, IInv


-----------------------------------------------------------------------------
(* The ring of audio_vector.cc.  Each operation is shown to do to the        *)
(* contents what SampleList does to a list, cell by cell: Tells, below,      *)
(* reduces the contents of a ring to its cells, and the arithmetic of the    *)
(* indices, which % turns at most once, to cases.                            *)

\* A function over 1 .. n is a sequence.
LEMMA SeqOfFunction ==
  ASSUME NEW S, NEW n \in Nat, NEW f \in [1 .. n -> S]
  PROVE  f \in Seq(S) /\ Len(f) = n
OBVIOUS

\* Lists joined, from either side.
LEMMA JoinedThree ==
  \A x, y, z \in Seq(Int) : (x \o y) \o z = x \o (y \o z)
<1> TAKE x, y, z \in Seq(Int)
<1> QED
  BY ConcatAssociative

\* The two parts of a list.
LEMMA Parted ==
  ASSUME NEW s \in Seq(Int), NEW n \in 0 .. Len(s)
  PROVE  /\ Audio!Take(s, n) \in Seq(Int) /\ Len(Audio!Take(s, n)) = n
         /\ \A i \in 1 .. n : Audio!Take(s, n)[i] = s[i]
         /\ Audio!Skip(s, n) \in Seq(Int) /\ Len(Audio!Skip(s, n)) = Len(s) - n
         /\ \A i \in 1 .. Len(s) - n : Audio!Skip(s, n)[i] = s[n + i]
         /\ Audio!Take(s, n) \o Audio!Skip(s, n) = s
<1>1. Len(s) \in Nat /\ n \in Nat /\ s \in [1 .. Len(s) -> Int]
  OBVIOUS
<1>2. /\ SubSeq(s, 1, n) \in Seq(Int) /\ Len(SubSeq(s, 1, n)) = n
      /\ \A i \in 1 .. n : SubSeq(s, 1, n)[i] = s[i]
  <2>1. \A i \in 1 .. n : s[i] \in Int
    BY <1>1
  <2> QED
    BY <1>1, <2>1, SubSeqProperties
<1>3. /\ SubSeq(s, n + 1, Len(s)) \in Seq(Int) /\ Len(SubSeq(s, n + 1, Len(s))) = Len(s) - n
      /\ \A i \in 1 .. Len(s) - n : SubSeq(s, n + 1, Len(s))[i] = s[n + i]
  <2> DEFINE m == n + 1
             l == Len(s)
  <2>1. \A i \in m .. l : s[i] \in Int
    BY <1>1
  <2>2. m \in Int /\ l \in Int /\ n \in 0 .. l
    BY <1>1
  <2> HIDE DEF l
  <2>3. /\ SubSeq(s, m, l) \in Seq(Int) /\ Len(SubSeq(s, m, l)) = (IF m <= l THEN l - m + 1 ELSE 0)
        /\ \A i \in 1 .. l - m + 1 : SubSeq(s, m, l)[i] = s[m + i - 1]
    BY <2>1, <2>2, SubSeqProperties
  <2>4. \A i \in 1 .. l - n : i \in 1 .. l - m + 1 /\ m + i - 1 = n + i
    BY <2>2
  <2>5. (IF m <= l THEN l - m + 1 ELSE 0) = l - n
    BY <2>2
  <2> HIDE DEF m
  <2>6. \A i \in 1 .. l - n : SubSeq(s, m, l)[i] = s[n + i]
    BY <2>3, <2>4
  <2> QED
    BY <2>3, <2>5, <2>6 DEF l, m
<1>4. SubSeq(s, 1, n) \o SubSeq(s, n + 1, Len(s)) = s
  <2>1. SubSeq(s, 1, n) \o SubSeq(s, n + 1, Len(s)) = SubSeq(s, 1, Len(s))
    <3>1. 1 \in 1 .. Len(s) + 1 /\ n \in 1 - 1 .. Len(s) /\ Len(s) \in n .. Len(s)
      BY <1>1
    <3> QED
      BY <3>1, ConcatAdjacentSubSeq
  <2> QED
    BY <2>1, SubSeqFull
<1> QED
  BY <1>2, <1>3, <1>4 DEF Audio!Take, Audio!Skip

-----------------------------------------------------------------------------
\* A ring with all its parts.
Ring(v) ==
  /\ v = [array |-> v.array, begin |-> v.begin, end |-> v.end, capacity |-> v.capacity]
  /\ v.capacity \in Nat \ {0}
  /\ v.begin \in 0 .. v.capacity - 1 /\ v.end \in 0 .. v.capacity - 1
  /\ v.array \in [0 .. v.capacity - 1 -> Int]

\* What % gives within two turns.
Turned(x, c) == IF x < c THEN x ELSE x - c

LEMMA Times ==
  ASSUME NEW d \in Nat, NEW a \in Int, NEW b \in Int, a <= b
  PROVE  d * a <= d * b
<1>1. b - a \in Nat /\ b = a + (b - a)
  OBVIOUS
<1>2. d * (b - a) \in Nat
  BY <1>1
<1>3. d * (a + (b - a)) = d * a + d * (b - a)
  OBVIOUS
<1> QED
  BY <1>1, <1>2, <1>3

LEMMA TwoTurns ==
  ASSUME NEW c \in Nat \ {0}, NEW x \in 0 .. 2 * c - 1
  PROVE  x % c = Turned(x, c) /\ Turned(x, c) \in 0 .. c - 1
<1> DEFINE q == x \div c
           r == x % c
<1>1. r \in 0 .. c - 1 /\ x = (c * q) + r /\ q \in Int
  OBVIOUS
<1> HIDE DEF q, r
<1>2. q \in {0, 1}
  <2>1. CASE q < 0
    <3>1. c * q <= c * (-1)
      BY <1>1, <2>1, Times
    <3> QED
      BY <1>1, <3>1
  <2>2. CASE q > 1
    <3>1. c * 2 <= c * q
      BY <1>1, <2>2, Times
    <3> QED
      BY <1>1, <3>1
  <2> QED
    BY <1>1, <2>1, <2>2
<1>3. CASE q = 0
  <2>1. c * q = 0
    BY <1>3
  <2> QED
    BY <1>1, <2>1 DEF Turned, r
<1>4. CASE q = 1
  <2>1. c * q = c
    BY <1>4
  <2> QED
    BY <1>1, <2>1 DEF Turned, r
<1> QED
  BY <1>2, <1>3, <1>4

\* The size of a ring, within its capacity.
LEMMA RingSize ==
  ASSUME NEW v, Ring(v)
  PROVE  /\ Audio!Size(v) = Turned(v.end - v.begin + v.capacity, v.capacity)
         /\ Audio!Size(v) \in 0 .. v.capacity - 1 /\ Audio!Size(v) \in Nat
<1> DEFINE x == v.end - v.begin + v.capacity
<1>1. x \in 0 .. 2 * v.capacity - 1 /\ v.end + v.capacity - v.begin = x
  BY DEF Ring
<1>2. v.capacity \in Nat \ {0}
  BY DEF Ring
<1> HIDE DEF x
<1>3. x % v.capacity = Turned(x, v.capacity) /\ Turned(x, v.capacity) \in 0 .. v.capacity - 1
  BY <1>1, <1>2, TwoTurns
<1>4. Turned(x, v.capacity) \in Nat
  <2> DEFINE y == Turned(x, v.capacity)
  <2>1. y \in 0 .. v.capacity - 1
    BY <1>3
  <2> HIDE DEF y
  <2> QED
    BY <1>2, <2>1 DEF y
<1> QED
  BY <1>1, <1>3, <1>4 DEF Audio!Size, x

\* The k-th cell of a ring behind its first one.
Cell(v, k) == v.array[Turned(v.begin + k, v.capacity)]

\* What CopyTo copies: cell by cell, no more than there are.
LEMMA Copied ==
  ASSUME NEW v, Ring(v), NEW position \in 0 .. Audio!Size(v), NEW length \in Nat
  PROVE  LET m == IF length < Audio!Size(v) - position THEN length
                  ELSE Audio!Size(v) - position
             s == Audio!CopyTo(v, length, position)
         IN  /\ m \in Nat /\ s \in Seq(Int) /\ Len(s) = m
             /\ \A i \in 1 .. m : s[i] = Cell(v, position + i - 1)
<1> DEFINE size == Audio!Size(v)
           m == IF length < size - position THEN length ELSE size - position
           s == Audio!CopyTo(v, length, position)
           b == v.begin
           c == v.capacity
<1>1. c \in Nat \ {0} /\ b \in 0 .. c - 1 /\ v.array \in [0 .. c - 1 -> Int]
  BY DEF Ring
<1>2. size \in 0 .. c - 1
  BY RingSize
<1>3. s = [i \in 1 .. m |-> v.array[(b + position + i - 1) % c]]
  BY DEF Audio!CopyTo, Audio!Lesser
<1>4. position \in 0 .. size
  OBVIOUS
<1> HIDE DEF size, b, c, s
<1>5. m \in Nat /\ m <= size - position
  BY <1>2, <1>4
<1> HIDE DEF m
<1>6. ASSUME NEW i \in 1 .. m
      PROVE  /\ v.array[(b + position + i - 1) % c] = Cell(v, position + i - 1)
             /\ Cell(v, position + i - 1) \in Int
  <2> DEFINE x == b + (position + i - 1)
  <2>1. x \in 0 .. 2 * c - 1 /\ b + position + i - 1 = x
    BY <1>1, <1>2, <1>4, <1>5
  <2> HIDE DEF x
  <2>2. x % c = Turned(x, c) /\ Turned(x, c) \in 0 .. c - 1
    BY <1>1, <2>1, TwoTurns
  <2>3. v.array[Turned(x, c)] \in Int
    BY <1>1, <2>2
  <2>4. Cell(v, position + i - 1) = v.array[Turned(x, c)]
    BY DEF Cell, b, c, x
  <2> QED
    BY <2>1, <2>2, <2>3, <2>4
<1>7. s \in [1 .. m -> Int] /\ \A i \in 1 .. m : s[i] = Cell(v, position + i - 1)
  BY <1>3, <1>6
<1>8. s \in Seq(Int) /\ Len(s) = m
  BY <1>5, <1>7, SeqOfFunction
<1> QED
  BY <1>5, <1>7, <1>8 DEF m, s, size

\* The contents, cell by cell.
LEMMA ContentsOf ==
  ASSUME NEW v, Ring(v)
  PROVE  /\ Audio!Contents(v) \in Seq(Int) /\ Len(Audio!Contents(v)) = Audio!Size(v)
         /\ \A i \in 1 .. Audio!Size(v) : Audio!Contents(v)[i] = Cell(v, i - 1)
<1> DEFINE size == Audio!Size(v)
           s == Audio!CopyTo(v, size, 0)
<1>1. size \in Nat /\ 0 \in 0 .. size
  BY RingSize DEF Ring
<1>2. LET m == IF size < size - 0 THEN size ELSE size - 0
      IN  /\ m \in Nat /\ s \in Seq(Int) /\ Len(s) = m
          /\ \A i \in 1 .. m : s[i] = Cell(v, 0 + i - 1)
  BY <1>1, Copied
<1> HIDE DEF size, s
<1>3. /\ s \in Seq(Int) /\ Len(s) = size /\ \A i \in 1 .. size : s[i] = Cell(v, i - 1)
  <2>1. \A i \in 1 .. size : 0 + i - 1 = i - 1
    BY <1>1
  <2>2. (IF size < size - 0 THEN size ELSE size - 0) = size
    BY <1>1
  <2> QED
    BY <1>2, <2>1, <2>2
<1> QED
  BY <1>3 DEF Audio!Contents, size, s

\* A copy is a part of the contents.
LEMMA CopyIsPart ==
  ASSUME NEW v, Ring(v), NEW n \in 0 .. Audio!Size(v)
  PROVE  /\ Audio!CopyTo(v, n, 0) = Audio!Take(Audio!Contents(v), n)
         /\ Audio!CopyTo(v, Audio!Size(v) - n, n) = Audio!Skip(Audio!Contents(v), n)
<1> DEFINE size == Audio!Size(v)
           list == Audio!Contents(v)
           s == Audio!CopyTo(v, n, 0)
           t == Audio!CopyTo(v, size - n, n)
<1>1. list \in Seq(Int) /\ Len(list) = size /\ \A i \in 1 .. size : list[i] = Cell(v, i - 1)
  BY ContentsOf
<1>2. size \in Nat /\ n \in Nat /\ size - n \in Nat /\ n <= size
  BY RingSize DEF Ring
<1>3. LET m == IF n < size - 0 THEN n ELSE size - 0
      IN  /\ m \in Nat /\ s \in Seq(Int) /\ Len(s) = m
          /\ \A i \in 1 .. m : s[i] = Cell(v, 0 + i - 1)
  <2>1. 0 \in 0 .. size
    BY <1>2
  <2> QED
    BY <1>2, <2>1, Copied
<1>4. t \in Seq(Int) /\ Len(t) = size - n /\ \A i \in 1 .. size - n : t[i] = Cell(v, n + i - 1)
  <2> DEFINE k == size - n
             u == Audio!CopyTo(v, k, n)
  <2>1. k \in Nat /\ n \in 0 .. size
    BY <1>2
  <2> HIDE DEF k
  <2>2. LET m == IF k < size - n THEN k ELSE size - n
        IN  m \in Nat /\ u \in Seq(Int) /\ Len(u) = m /\ \A i \in 1 .. m : u[i] = Cell(v, n + i - 1)
    BY <2>1, Copied
  <2>3. u = t
    BY DEF k
  <2> HIDE DEF u, t, size
  <2>4. (IF k < size - n THEN k ELSE size - n) = size - n
    BY <1>2 DEF k
  <2>5. u \in Seq(Int) /\ Len(u) = size - n /\ \A i \in 1 .. size - n : u[i] = Cell(v, n + i - 1)
    BY <2>2, <2>4, Zenon
  <2> QED
    BY <2>3, <2>5
<1> HIDE DEF size, list, s, t
<1>5. /\ Audio!Take(list, n) \in Seq(Int) /\ Len(Audio!Take(list, n)) = n
      /\ \A i \in 1 .. n : Audio!Take(list, n)[i] = list[i]
      /\ Audio!Skip(list, n) \in Seq(Int) /\ Len(Audio!Skip(list, n)) = size - n
      /\ \A i \in 1 .. size - n : Audio!Skip(list, n)[i] = list[n + i]
  <2>1. list \in Seq(Int) /\ n \in 0 .. Len(list) /\ Len(list) = size
    BY <1>1, <1>2
  <2> QED
    BY <2>1, Parted
<1>6. s = Audio!Take(list, n)
  <2>1. Len(s) = n /\ s \in Seq(Int) /\ \A i \in 1 .. n : s[i] = Cell(v, i - 1)
    <3>1. (IF n < size - 0 THEN n ELSE size - 0) = n /\ \A i \in 1 .. n : 0 + i - 1 = i - 1
      BY <1>2
    <3> QED
      BY <1>3, <3>1
  <2>2. \A i \in 1 .. n : list[i] = Cell(v, i - 1)
    BY <1>1, <1>2
  <2> QED
    BY <1>5, <2>1, <2>2, SeqEqual
<1>7. t = Audio!Skip(list, n)
  <2>1. Len(t) = size - n /\ t \in Seq(Int) /\ \A i \in 1 .. size - n : t[i] = Cell(v, n + i - 1)
    BY <1>4
  <2>2. \A i \in 1 .. size - n : list[n + i] = Cell(v, n + i - 1)
    <3>1. \A i \in 1 .. size - n : n + i \in 1 .. size
      BY <1>2
    <3> QED
      BY <1>1, <3>1
  <2> QED
    BY <1>5, <2>1, <2>2, SeqEqual
<1> QED
  BY <1>6, <1>7 DEF size, list, s, t

\* A ring whose cells are those of a list has the list as its contents.
LEMMA Tells ==
  ASSUME NEW v, Ring(v), NEW list \in Seq(Int), Audio!Size(v) = Len(list),
         \A i \in 1 .. Len(list) : Cell(v, i - 1) = list[i]
  PROVE  Audio!Contents(v) = list
BY ContentsOf, SeqEqual

-----------------------------------------------------------------------------
\* An array of c cells that is the old one, with s laid over it from a cell on.
Over(new, c, old, at, s) ==
  /\ new \in [0 .. c - 1 -> Int]
  /\ \A i \in 0 .. c - 1 :
       new[i] = IF at <= i /\ i < at + Len(s) THEN s[i - at + 1] ELSE old[i]

\* What memcpy does.
LEMMA Overlaid ==
  ASSUME NEW c \in Nat, NEW array \in [0 .. c - 1 -> Int], NEW at \in Int, NEW s \in Seq(Int)
  PROVE  Over(Audio!memcpy(array, at, s), c, array, at, s)
<1>1. DOMAIN array = 0 .. c - 1 /\ DOMAIN s = 1 .. Len(s) /\ Len(s) \in Nat
      /\ \A j \in 1 .. Len(s) : s[j] \in Int
  OBVIOUS
<1> DEFINE n == Len(s)
           new == Audio!memcpy(array, at, s)
<1>2. new = [i \in 0 .. c - 1 |-> IF i - at + 1 \in 1 .. n THEN s[i - at + 1] ELSE array[i]]
  BY <1>1 DEF Audio!memcpy
<1> HIDE DEF n, new
<1>3. ASSUME NEW i \in 0 .. c - 1
      PROVE  /\ new[i] = IF at <= i /\ i < at + n THEN s[i - at + 1] ELSE array[i]
             /\ (IF i - at + 1 \in 1 .. n THEN s[i - at + 1] ELSE array[i]) \in Int
  <2>1. i - at + 1 \in 1 .. n <=> at <= i /\ i < at + n
    BY <1>1 DEF n
  <2>2. new[i] = IF i - at + 1 \in 1 .. n THEN s[i - at + 1] ELSE array[i]
    BY <1>2
  <2>3. i - at + 1 \in 1 .. n => s[i - at + 1] \in Int
    BY <1>1 DEF n
  <2> QED
    BY <2>1, <2>2, <2>3
<1>4. new \in [0 .. c - 1 -> Int]
  BY <1>2, <1>3
<1> QED
  BY <1>3, <1>4 DEF n, new, Over

\* What is written around the ring from a cell on.
LEMMA Written ==
  ASSUME NEW v, Ring(v), NEW at \in 0 .. v.capacity - 1, NEW s \in Seq(Int),
         Len(s) <= v.capacity
  PROVE  /\ Audio!Wrapped(v, at, s) \in [0 .. v.capacity - 1 -> Int]
         /\ \A i \in 0 .. v.capacity - 1 :
              Audio!Wrapped(v, at, s)[i] =
                IF at <= i /\ i < at + Len(s) THEN s[i - at + 1]
                ELSE IF i < at + Len(s) - v.capacity THEN s[i - at + v.capacity + 1]
                ELSE v.array[i]
<1> DEFINE n == Len(s)
           c == v.capacity
           first == IF n < c - at THEN n ELSE c - at
           a == Audio!Take(s, first)
           b == Audio!Skip(s, first)
           half == Audio!memcpy(v.array, at, a)
           new == Audio!memcpy(half, 0, b)
<1>1. n \in Nat /\ c \in Nat \ {0} /\ at \in 0 .. c - 1 /\ n <= c
      /\ v.array \in [0 .. c - 1 -> Int]
  BY DEF Ring
<1>2. Audio!Wrapped(v, at, s) = new
  BY DEF Audio!Wrapped, Audio!Lesser
<1> HIDE DEF n, c
<1>3. first \in 0 .. n /\ first \in Int
  BY <1>1
<1>4. first = (IF n < c - at THEN n ELSE c - at)
  OBVIOUS
<1> HIDE DEF first
<1>5. /\ a \in Seq(Int) /\ Len(a) = first /\ \A i \in 1 .. first : a[i] = s[i]
      /\ b \in Seq(Int) /\ Len(b) = n - first /\ \A i \in 1 .. n - first : b[i] = s[first + i]
  BY <1>3, Parted DEF n
<1> HIDE DEF a, b
<1>6. Over(half, c, v.array, at, a)
  <2>1. c \in Nat /\ v.array \in [0 .. c - 1 -> Int] /\ at \in Int /\ a \in Seq(Int)
    BY <1>1, <1>5
  <2> QED
    BY <2>1, Overlaid
<1> HIDE DEF half
<1>7. Over(new, c, half, 0, b)
  <2>1. c \in Nat /\ half \in [0 .. c - 1 -> Int] /\ 0 \in Int /\ b \in Seq(Int)
    BY <1>1, <1>5, <1>6 DEF Over
  <2> QED
    BY <2>1, Overlaid
<1> HIDE DEF new
<1>8. ASSUME NEW i \in 0 .. c - 1
      PROVE  new[i] = IF at <= i /\ i < at + n THEN s[i - at + 1]
                      ELSE IF i < at + n - c THEN s[i - at + c + 1]
                      ELSE v.array[i]
  <2>1. half[i] = IF at <= i /\ i < at + first THEN s[i - at + 1] ELSE v.array[i]
    <3>1. at <= i /\ i < at + first => i - at + 1 \in 1 .. first
      BY <1>1, <1>3
    <3> QED
      BY <1>5, <1>6, <3>1 DEF Over
  <2>2. new[i] = IF i < n - first THEN s[first + (i + 1)] ELSE half[i]
    <3>1. 0 <= i /\ 0 + (n - first) = n - first /\ i - 0 + 1 = i + 1
      BY <1>1, <1>3
    <3>2. i < n - first => i + 1 \in 1 .. n - first
      BY <1>1, <1>3
    <3> QED
      BY <1>5, <1>7, <3>1, <3>2 DEF Over
  <2>3. CASE n < c - at
    <3>1. first = n
      BY <1>4, <2>3
    <3>2. ~(i < n - first) /\ ~(i < at + n - c)
      BY <1>1, <2>3, <3>1
    <3> QED
      BY <2>1, <2>2, <3>1, <3>2
  <2>4. CASE ~(n < c - at)
    <3>1. first = c - at
      BY <1>4, <2>4
    <3>2. /\ i < n - first <=> i < at + n - c
          /\ first + (i + 1) = i - at + c + 1
          /\ at + first = c
          /\ i < at + n - c => ~(at <= i)
          /\ i < at + first /\ i < at + n
      BY <1>1, <2>4, <3>1
    <3> QED
      BY <2>1, <2>2, <3>2
  <2> QED
    BY <2>3, <2>4
<1> QED
  BY <1>2, <1>7, <1>8 DEF n, c, Over

\* A ring is made larger without losing a sample.
LEMMA Reserved ==
  ASSUME NEW v, Ring(v), NEW n \in Nat
  PROVE  LET r == Audio!Reserve(v, n)
         IN  /\ Ring(r) /\ r.capacity > n /\ Audio!Size(r) = Audio!Size(v)
             /\ Audio!Contents(r) = Audio!Contents(v)
<1> DEFINE r == Audio!Reserve(v, n)
           size == Audio!Size(v)
           list == Audio!Contents(v)
           zeros == [i \in 0 .. n |-> 0]
           array == Audio!memcpy(zeros, 0, list)
<1>1. CASE v.capacity > n
  <2>1. r = v
    BY <1>1 DEF Audio!Reserve
  <2> QED
    BY <1>1, <2>1
<1>2. CASE ~(v.capacity > n)
  <2>1. r = [array |-> array, begin |-> 0, end |-> size, capacity |-> n + 1]
    BY <1>2 DEF Audio!Reserve
  <2>2. list \in Seq(Int) /\ Len(list) = size /\ size \in 0 .. v.capacity - 1
    BY ContentsOf, RingSize
  <2>3. v.capacity \in Nat
    BY DEF Ring
  <2> HIDE DEF list, size, r
  <2>4. size \in 0 .. n
    BY <1>2, <2>2, <2>3
  <2> DEFINE c == n + 1
  <2>5. c \in Nat \ {0} /\ c - 1 = n
    OBVIOUS
  <2>6. zeros \in [0 .. c - 1 -> Int]
    BY <2>5
  <2> HIDE DEF zeros, c
  <2>7. Over(array, c, zeros, 0, list)
    <3>1. c \in Nat /\ zeros \in [0 .. c - 1 -> Int] /\ 0 \in Int /\ list \in Seq(Int)
      BY <2>2, <2>5, <2>6
    <3> QED
      BY <3>1, Overlaid
  <2> HIDE DEF array
  <2>8. r.array = array /\ r.begin = 0 /\ r.end = size /\ r.capacity = c
    BY <2>1 DEF c
  <2>9. Ring(r)
    BY <2>1, <2>4, <2>5, <2>7, <2>8 DEF Ring, Over
  <2>10. Audio!Size(r) = size
    <3>1. Audio!Size(r) = Turned(size - 0 + c, c)
      BY <2>8, <2>9, RingSize
    <3> QED
      BY <2>4, <2>5, <3>1 DEF Turned
  <2>11. ASSUME NEW i \in 1 .. Len(list) PROVE Cell(r, i - 1) = list[i]
    <3>1. i - 1 \in 0 .. c - 1 /\ i - 1 < Len(list) /\ 0 <= i - 1 /\ i - 1 - 0 + 1 = i
          /\ 0 + Len(list) = Len(list)
      BY <2>2, <2>4, <2>5
    <3>2. array[i - 1] = list[i]
      BY <2>7, <3>1 DEF Over
    <3>3. Turned(0 + (i - 1), c) = i - 1
      BY <2>5, <3>1 DEF Turned
    <3> QED
      BY <2>8, <3>2, <3>3 DEF Cell
  <2>12. Audio!Contents(r) = list
    BY <2>2, <2>9, <2>10, <2>11, Tells
  <2>13. r.capacity > n
    BY <2>5, <2>8
  <2> QED
    BY <2>9, <2>10, <2>12, <2>13 DEF r, size, list
<1> QED
  BY <1>1, <1>2

\* The k-th cell from the first on, where n are written from the p-th on.
LEMMA CellsFrom ==
  ASSUME NEW c \in Nat \ {0}, NEW b \in 0 .. c - 1, NEW p \in Nat, NEW n \in Nat, p + n < c,
         NEW at, at = Turned(b + p, c), NEW k \in 0 .. c - 1, NEW x, x = Turned(b + k, c)
  PROVE  /\ x \in 0 .. c - 1 /\ at \in 0 .. c - 1
         /\ k < p \/ k >= p + n => ~(at <= x /\ x < at + n) /\ ~(x < at + n - c)
         /\ k >= p /\ k < p + n =>
              \/ at <= x /\ x < at + n /\ x - at + 1 = k + 1 - p
              \/ ~(at <= x) /\ x < at + n - c /\ x - at + c + 1 = k + 1 - p
BY DEF Turned

\* PushBack puts a list behind the contents, wherever the ring wraps and whether
\* or not it was made larger.
LEMMA PushedBack ==
  ASSUME NEW v, Ring(v), NEW s \in Seq(Int)
  PROVE  LET w == Audio!PushBack(v, s)
         IN  Ring(w) /\ Audio!Contents(w) = Audio!Contents(v) \o s
<1> DEFINE n == Len(s)
           list == Audio!Contents(v)
           size == Audio!Size(v)
           r == Audio!Reserve(v, size + n)
           b == r.begin
           e == r.end
           c == r.capacity
           array == Audio!Wrapped(r, e, s)
           w == Audio!PushBack(v, s)
           joined == list \o s
<1>1. size \in Nat /\ n \in Nat /\ size + n \in Nat
  <2>1. size \in Nat
    BY RingSize
  <2>2. n \in Nat
    OBVIOUS
  <2> HIDE DEF size, n
  <2> QED
    BY <2>1, <2>2
<1>2. Ring(r) /\ c > size + n /\ Audio!Size(r) = size /\ Audio!Contents(r) = list
  BY <1>1, Reserved
<1>3. w = [r EXCEPT !.array = array, !.end = (e + n) % c]
  BY DEF Audio!PushBack
<1>4. list \in Seq(Int) /\ Len(list) = size
  BY ContentsOf
<1> HIDE DEF r, list, size, n, w, array
<1>5. /\ c \in Nat \ {0} /\ b \in 0 .. c - 1 /\ e \in 0 .. c - 1
      /\ r = [array |-> r.array, begin |-> b, end |-> e, capacity |-> c]
  BY <1>2 DEF Ring
<1>b. /\ c \in Nat \ {0} /\ b \in 0 .. c - 1 /\ e \in 0 .. c - 1
      /\ size \in Nat /\ n \in Nat /\ size + n < c
  BY <1>1, <1>2, <1>5
<1>6. e + n \in 0 .. 2 * c - 1
  BY <1>b
<1>7. (e + n) % c = Turned(e + n, c) /\ Turned(e + n, c) \in 0 .. c - 1
  BY <1>b, <1>6, TwoTurns
<1>8. /\ array \in [0 .. c - 1 -> Int]
      /\ \A i \in 0 .. c - 1 :
           array[i] = IF e <= i /\ i < e + n THEN s[i - e + 1]
                      ELSE IF i < e + n - c THEN s[i - e + c + 1]
                      ELSE r.array[i]
  <2>1. Len(s) <= r.capacity /\ r.end \in 0 .. r.capacity - 1
    BY <1>1, <1>2, <1>5 DEF n
  <2> QED
    BY <1>2, <2>1, Written DEF n, array
<1>9. w = [array |-> array, begin |-> b, end |-> Turned(e + n, c), capacity |-> c]
  BY <1>3, <1>5, <1>7
<1>10. w.array = array /\ w.begin = b /\ w.end = Turned(e + n, c) /\ w.capacity = c
  BY <1>9
<1>11. Ring(w)
  BY <1>5, <1>7, <1>8, <1>9, <1>10 DEF Ring
<1>12. size = Turned(e - b + c, c)
  BY <1>2, RingSize
<1> HIDE DEF b, e, c
<1>13. Audio!Size(w) = size + n
  <2>1. Audio!Size(w) = Turned(Turned(e + n, c) - b + c, c)
    BY <1>10, <1>11, RingSize
  <2> QED
    BY <1>b, <1>12, <2>1 DEF Turned
<1>14. /\ joined \in Seq(Int) /\ Len(joined) = size + n
       /\ \A i \in 1 .. size + n : joined[i] = IF i <= size THEN list[i] ELSE s[i - size]
  BY <1>1, <1>4, ConcatProperties DEF n
<1> HIDE DEF joined
<1>15. ASSUME NEW i \in 1 .. size + n PROVE Cell(w, i - 1) = joined[i]
  <2> DEFINE k == i - 1
             x == Turned(b + k, c)
  <2>1. i \in Int /\ k \in 0 .. size + n - 1 /\ k + 1 = i
    BY <1>1
  <2>2. Cell(w, k) = array[x] /\ Cell(r, k) = r.array[x]
    BY <1>10 DEF Cell, b, c
  <2> HIDE DEF k, x
  <2>3. /\ x \in 0 .. c - 1
        /\ k < size => ~(e <= x /\ x < e + n) /\ ~(x < e + n - c)
        /\ k >= size => \/ e <= x /\ x < e + n /\ x - e + 1 = k + 1 - size
                        \/ ~(e <= x) /\ x < e + n - c /\ x - e + c + 1 = k + 1 - size
    <3>1. size + n < c
      BY <1>b DEF c
    <3>2. x = Turned(b + k, c)
      BY DEF x
    <3>3. e = Turned(b + size, c)
      BY <1>b, <1>12 DEF Turned
    <3>4. k \in 0 .. c - 1 /\ (k >= size => k < size + n)
      BY <1>b, <2>1, <3>1
    <3> QED
      BY <1>b, <3>2, <3>3, <3>4 DEF Turned
  <2>4. CASE k < size
    <3>1. array[x] = r.array[x]
      BY <1>8, <2>3, <2>4
    <3>2. i \in 1 .. size /\ i \in 1 .. size + n /\ i <= size
      BY <1>1, <2>1, <2>4
    <3>3. list[i] = Cell(r, k)
      <4>1. \A j \in 1 .. size : list[j] = Cell(r, j - 1)
        BY <1>2, ContentsOf
      <4> QED
        BY <3>2, <4>1 DEF k
    <3> QED
      BY <1>14, <2>2, <3>1, <3>2, <3>3 DEF k
  <2>5. CASE k >= size
    <3>1. array[x] = s[i - size]
      <4>1. k + 1 - size = i - size
        BY <1>1, <2>1
      <4>2. array[x] = IF e <= x /\ x < e + n THEN s[x - e + 1]
                       ELSE IF x < e + n - c THEN s[x - e + c + 1] ELSE r.array[x]
        BY <1>8, <2>3
      <4>3. CASE e <= x /\ x < e + n /\ x - e + 1 = k + 1 - size
        BY <4>1, <4>2, <4>3
      <4>4. CASE ~(e <= x) /\ x < e + n - c /\ x - e + c + 1 = k + 1 - size
        BY <4>1, <4>2, <4>4
      <4> QED
        BY <2>3, <2>5, <4>3, <4>4
    <3>2. ~(i <= size)
      BY <1>1, <2>1, <2>5
    <3> QED
      BY <1>14, <2>2, <3>1, <3>2 DEF k
  <2> QED
    BY <1>1, <2>1, <2>4, <2>5
<1>16. Audio!Contents(w) = joined
  BY <1>11, <1>13, <1>14, <1>15, Tells
<1> QED
  BY <1>11, <1>16 DEF w, list, joined

\* The old array with s written in front of cell b, what finds no room there
\* at the end of the ring.
OverBefore(new, c, b, old, s, rest, low) ==
  /\ new \in [0 .. c - 1 -> Int]
  /\ \A x \in 0 .. c - 1 :
       new[x] = IF c - rest <= x THEN s[x - (c - rest) + 1]
                ELSE IF low <= x /\ x < b THEN s[rest + (x - low + 1)]
                ELSE old[x]

\* What the two memcpy of PushFront do.
LEMMA WrittenBefore ==
  ASSUME NEW c \in Nat \ {0}, NEW b \in 0 .. c - 1, NEW old \in [0 .. c - 1 -> Int],
         NEW s \in Seq(Int), Len(s) < c,
         NEW rest \in 0 .. Len(s), NEW low \in Nat, low + (Len(s) - rest) = b
  PROVE  OverBefore(Audio!memcpy(Audio!memcpy(old, low, Audio!Skip(s, rest)), c - rest,
                                 Audio!Take(s, rest)),
                    c, b, old, s, rest, low)
<1> DEFINE n == Len(s)
           at == c - rest
           a1 == Audio!Skip(s, rest)
           a2 == Audio!Take(s, rest)
           half == Audio!memcpy(old, low, a1)
           new == Audio!memcpy(half, at, a2)
<1>1. n \in Nat /\ n < c
  OBVIOUS
<1>2. /\ rest \in 0 .. n /\ low \in Int /\ low + (n - rest) = b
      /\ at \in Int /\ at + rest = c
  OBVIOUS
<1>3. /\ a2 \in Seq(Int) /\ Len(a2) = rest /\ \A i \in 1 .. rest : a2[i] = s[i]
      /\ a1 \in Seq(Int) /\ Len(a1) = n - rest /\ \A i \in 1 .. n - rest : a1[i] = s[rest + i]
  BY <1>2, Parted
<1> HIDE DEF n, a1, a2
<1>4. Over(half, c, old, low, a1)
  <2>1. c \in Nat /\ old \in [0 .. c - 1 -> Int] /\ low \in Int /\ a1 \in Seq(Int)
    BY <1>3
  <2> QED
    BY <2>1, Overlaid
<1> HIDE DEF at, half
<1>5. Over(new, c, half, at, a2)
  <2>1. half \in [0 .. c - 1 -> Int]
    BY <1>4 DEF Over
  <2> QED
    BY <1>2, <1>3, <2>1, Overlaid
<1> HIDE DEF new
<1>6. ASSUME NEW x \in 0 .. c - 1
      PROVE  new[x] = IF at <= x THEN s[x - at + 1]
                      ELSE IF low <= x /\ x < b THEN s[rest + (x - low + 1)]
                      ELSE old[x]
  <2>1. at + Len(a2) = c /\ x < c /\ low + Len(a1) = b
    BY <1>1, <1>2, <1>3
  <2>2. at <= x => x - at + 1 \in 1 .. rest
    BY <1>1, <1>2
  <2>3. low <= x /\ x < b => x - low + 1 \in 1 .. n - rest
    BY <1>1, <1>2
  <2>4. new[x] = IF at <= x THEN s[x - at + 1] ELSE half[x]
    <3>1. new[x] = IF at <= x /\ x < at + Len(a2) THEN a2[x - at + 1] ELSE half[x]
      BY <1>5 DEF Over
    <3>2. at <= x => a2[x - at + 1] = s[x - at + 1]
      BY <1>3, <2>2
    <3> QED
      BY <2>1, <3>1, <3>2
  <2>5. half[x] = IF low <= x /\ x < b THEN s[rest + (x - low + 1)] ELSE old[x]
    <3>1. half[x] = IF low <= x /\ x < low + Len(a1) THEN a1[x - low + 1] ELSE old[x]
      BY <1>4 DEF Over
    <3>2. low <= x /\ x < b => a1[x - low + 1] = s[rest + (x - low + 1)]
      BY <1>3, <2>3
    <3> QED
      BY <2>1, <3>1, <3>2
  <2> QED
    BY <2>4, <2>5
<1> QED
  BY <1>5, <1>6 DEF new, half, a1, a2, at, Over, OverBefore

\* PushFront puts it in front.
LEMMA PushedFront ==
  ASSUME NEW v, Ring(v), NEW s \in Seq(Int)
  PROVE  LET w == Audio!PushFront(v, s)
         IN  Ring(w) /\ Audio!Contents(w) = s \o Audio!Contents(v)
<1> DEFINE n == Len(s)
           list == Audio!Contents(v)
           size == Audio!Size(v)
           r == Audio!Reserve(v, size + n)
           b == r.begin
           e == r.end
           c == r.capacity
           rest == n - (IF n < b THEN n ELSE b)
           low == IF b - n < 0 THEN 0 ELSE b - n
           half == Audio!memcpy(r.array, low, Audio!Skip(s, rest))
           array == Audio!memcpy(half, c - rest, Audio!Take(s, rest))
           w == Audio!PushFront(v, s)
           joined == s \o list
<1>1. size \in Nat /\ n \in Nat /\ size + n \in Nat
  <2>1. size \in Nat
    BY RingSize
  <2>2. n \in Nat
    OBVIOUS
  <2> HIDE DEF size, n
  <2> QED
    BY <2>1, <2>2
<1>2. Ring(r) /\ c > size + n /\ Audio!Size(r) = size /\ Audio!Contents(r) = list
  BY <1>1, Reserved
<1>3. w = [r EXCEPT !.array = array, !.begin = (b + c - n) % c]
  BY DEF Audio!PushFront, Audio!Lesser, Audio!Greater
<1>4. list \in Seq(Int) /\ Len(list) = size
  BY ContentsOf
<1> HIDE DEF r, list, size, n, w, array, half
<1>5. /\ c \in Nat \ {0} /\ b \in 0 .. c - 1 /\ e \in 0 .. c - 1
      /\ r = [array |-> r.array, begin |-> b, end |-> e, capacity |-> c]
      /\ r.array \in [0 .. c - 1 -> Int]
  BY <1>2 DEF Ring
<1>b. /\ c \in Nat \ {0} /\ b \in 0 .. c - 1 /\ e \in 0 .. c - 1
      /\ size \in Nat /\ n \in Nat /\ size + n < c
  BY <1>1, <1>2, <1>5
<1>6. b + c - n \in 0 .. 2 * c - 1
  BY <1>b
<1>7. (b + c - n) % c = Turned(b + c - n, c) /\ Turned(b + c - n, c) \in 0 .. c - 1
  BY <1>b, <1>6, TwoTurns
<1>8. rest \in 0 .. n /\ low \in Nat /\ rest = (IF n < b THEN 0 ELSE n - b)
      /\ low + (n - rest) = b /\ rest < c
  <2>1. CASE n < b
    <3>1. rest = 0 /\ low = b - n
      BY <1>b, <2>1
    <3> QED
      BY <1>b, <2>1, <3>1
  <2>2. CASE n >= b
    <3>1. rest = n - b /\ low = 0
      BY <1>b, <2>2
    <3> QED
      BY <1>b, <2>2, <3>1
  <2> QED
    BY <1>b, <2>1, <2>2
<1> DEFINE first == Turned(b + c - n, c)
<1>9. w = [array |-> array, begin |-> first, end |-> e, capacity |-> c]
  BY <1>3, <1>5, <1>7
<1>10. w.array = array /\ w.begin = first /\ w.end = e /\ w.capacity = c
  BY <1>9
<1>l. low = (IF b - n < 0 THEN 0 ELSE b - n)
  OBVIOUS
<1> HIDE DEF rest, low
<1>11. OverBefore(array, c, b, r.array, s, rest, low)
  <2>1. /\ c \in Nat \ {0} /\ b \in 0 .. c - 1 /\ r.array \in [0 .. c - 1 -> Int]
        /\ s \in Seq(Int) /\ Len(s) < c
    BY <1>1, <1>2, <1>5 DEF n
  <2>2. array = Audio!memcpy(Audio!memcpy(r.array, low, Audio!Skip(s, rest)), c - rest,
                             Audio!Take(s, rest))
    BY DEF array, half
  <2>3. rest \in 0 .. Len(s) /\ low \in Nat /\ low + (Len(s) - rest) = b
    BY <1>8 DEF n
  <2> HIDE DEF b, c
  <2> QED
    BY <2>1, <2>2, <2>3, WrittenBefore
<1>12. Ring(w)
  BY <1>5, <1>7, <1>9, <1>10, <1>11 DEF Ring, OverBefore
<1>13. size = Turned(e - b + c, c)
  BY <1>2, RingSize
<1>14. size + n < c
  BY <1>1, <1>2, <1>5
<1> HIDE DEF b, e, c
<1>15. Audio!Size(w) = size + n
  <2>1. Audio!Size(w) = Turned(e - first + c, c)
    BY <1>10, <1>12, RingSize
  <2>2. c \in Nat \ {0} /\ b \in 0 .. c - 1 /\ e \in 0 .. c - 1 /\ size \in Nat /\ n \in Nat
    BY <1>1, <1>5
  <2>3. first = Turned(b + c - n, c)
    OBVIOUS
  <2> HIDE DEF first
  <2> QED
    BY <1>13, <1>14, <2>1, <2>2, <2>3 DEF Turned
<1>16. /\ joined \in Seq(Int) /\ Len(joined) = size + n
       /\ \A i \in 1 .. size + n : joined[i] = IF i <= n THEN s[i] ELSE list[i - n]
  <2>1. /\ joined \in Seq(Int) /\ Len(joined) = n + size
        /\ \A i \in 1 .. n + size : joined[i] = IF i <= n THEN s[i] ELSE list[i - n]
    BY <1>1, <1>4, ConcatProperties DEF n
  <2> HIDE DEF joined
  <2> QED
    BY <1>1, <2>1
<1> HIDE DEF joined
<1>17. first = Turned(b + c - n, c)
  OBVIOUS
<1> HIDE DEF first
<1>18. ASSUME NEW i \in 1 .. size + n PROVE Cell(w, i - 1) = joined[i]
  <2> DEFINE k == i - 1
             x == Turned(first + k, c)
  <2>1. i \in Int /\ k \in 0 .. size + n - 1 /\ k + 1 = i
    BY <1>1
  <2>2. Cell(w, k) = array[x]
    BY <1>10 DEF Cell
  <2>x. x = Turned(first + k, c)
    OBVIOUS
  <2> HIDE DEF k, x
  <2>3. /\ x \in 0 .. c - 1
        /\ k < n => \/ c - rest <= x /\ x - (c - rest) + 1 = k + 1
                    \/ ~(c - rest <= x) /\ low <= x /\ x < b /\ rest + (x - low + 1) = k + 1
        /\ k >= n => ~(c - rest <= x) /\ ~(low <= x /\ x < b) /\ x = Turned(b + (k - n), c)
    <3>1. c \in Nat \ {0} /\ b \in 0 .. c - 1
      BY <1>5
    <3>2. rest = (IF n < b THEN 0 ELSE n - b)
      BY <1>8
    <3> QED
      BY <1>1, <1>14, <1>17, <1>l, <2>1, <2>x, <3>1, <3>2 DEF Turned
  <2>4. array[x] = IF c - rest <= x THEN s[x - (c - rest) + 1]
                   ELSE IF low <= x /\ x < b THEN s[rest + (x - low + 1)]
                   ELSE r.array[x]
    BY <1>11, <2>3 DEF OverBefore
  <2>5. CASE k < n
    <3>1. array[x] = s[k + 1]
      BY <2>3, <2>4, <2>5
    <3>2. i <= n
      BY <1>1, <2>1, <2>5
    <3> QED
      BY <1>16, <2>1, <2>2, <3>1, <3>2 DEF k
  <2>6. CASE k >= n
    <3>1. array[x] = r.array[Turned(b + (k - n), c)]
      BY <2>3, <2>4, <2>6
    <3>2. array[x] = Cell(r, k - n)
      BY <3>1 DEF Cell, b, c
    <3>3. ~(i <= n) /\ i - n \in 1 .. size /\ (i - n) - 1 = k - n
      BY <1>1, <2>1, <2>6
    <3>4. list[i - n] = Cell(r, k - n)
      <4>1. \A j \in 1 .. size : list[j] = Cell(r, j - 1)
        BY <1>2, ContentsOf
      <4> QED
        BY <3>3, <4>1
    <3> QED
      BY <1>16, <2>2, <3>2, <3>3, <3>4 DEF k
  <2> QED
    BY <1>1, <2>1, <2>5, <2>6
<1>19. Audio!Contents(w) = joined
  BY <1>12, <1>15, <1>16, <1>18, Tells
<1> QED
  BY <1>12, <1>19 DEF w, list, joined

\* n taken off the front, or all there are.
\* Where the first cell is, and where the others are, when m are taken off it.
LEMMA CellsBehind ==
  ASSUME NEW c \in Nat \ {0}, NEW b \in 0 .. c - 1, NEW e \in 0 .. c - 1,
         NEW size \in Nat, size = Turned(e - b + c, c), NEW m \in 0 .. size,
         NEW first, first = Turned(b + m, c)
  PROVE  /\ Turned(e - first + c, c) = size - m
         /\ \A k \in 0 .. size - m - 1 : Turned(first + k, c) = Turned(b + (m + k), c)
BY DEF Turned

\* Where the end is when m are taken off it.
LEMMA CellsBefore ==
  ASSUME NEW c \in Nat \ {0}, NEW b \in 0 .. c - 1, NEW e \in 0 .. c - 1,
         NEW size \in Nat, size = Turned(e - b + c, c), NEW m \in 0 .. size,
         NEW final, final = Turned(e + c - m, c)
  PROVE  Turned(final - b + c, c) = size - m
BY DEF Turned

\* PopFront takes n off the front, or all there are.
LEMMA PoppedFront ==
  ASSUME NEW v, Ring(v), NEW n \in Nat
  PROVE  LET w == Audio!PopFront(v, n)
             m == IF n < Audio!Size(v) THEN n ELSE Audio!Size(v)
         IN  Ring(w) /\ Audio!Contents(w) = Audio!Skip(Audio!Contents(v), m)
<1> DEFINE list == Audio!Contents(v)
           size == Audio!Size(v)
           m == IF n < size THEN n ELSE size
           b == v.begin
           e == v.end
           c == v.capacity
           first == Turned(b + m, c)
           w == Audio!PopFront(v, n)
           rest == Audio!Skip(list, m)
<1>1. /\ c \in Nat \ {0} /\ b \in 0 .. c - 1 /\ e \in 0 .. c - 1
      /\ v = [array |-> v.array, begin |-> b, end |-> e, capacity |-> c]
      /\ v.array \in [0 .. c - 1 -> Int]
  BY DEF Ring
<1>2. size \in 0 .. c - 1 /\ size = Turned(e - b + c, c)
  BY RingSize
<1>t. size \in Nat /\ size <= c - 1
  BY <1>1, <1>2
<1>3. w = [v EXCEPT !.begin = (b + m) % c]
  BY DEF Audio!PopFront, Audio!Lesser
<1>4. list \in Seq(Int) /\ Len(list) = size /\ \A i \in 1 .. size : list[i] = Cell(v, i - 1)
  BY ContentsOf
<1> HIDE DEF list, size, w, b, e, c
<1>5. m \in 0 .. size /\ m \in Nat /\ size - m \in Nat
  BY <1>1, <1>2
<1> HIDE DEF m
<1>6. (b + m) % c = first /\ first \in 0 .. c - 1
  <2>1. b \in 0 .. c - 1 /\ c \in Nat /\ m \in 0 .. size
    BY <1>1, <1>5
  <2>2. b + m \in 0 .. 2 * c - 1
    BY <1>t, <2>1
  <2> QED
    BY <1>1, <2>2, TwoTurns
<1>7. w = [array |-> v.array, begin |-> first, end |-> e, capacity |-> c]
  BY <1>1, <1>3, <1>6
<1>8. first = Turned(b + m, c)
  OBVIOUS
<1> HIDE DEF first
<1>9. w.array = v.array /\ w.begin = first /\ w.end = e /\ w.capacity = c
  BY <1>7
<1>10. Ring(w)
  BY <1>1, <1>6, <1>7, <1>9 DEF Ring
<1>b. /\ Turned(e - first + c, c) = size - m
      /\ \A k \in 0 .. size - m - 1 : Turned(first + k, c) = Turned(b + (m + k), c)
  BY <1>1, <1>2, <1>t, <1>5, <1>8, CellsBehind
<1>11. Audio!Size(w) = size - m
  <2>1. Audio!Size(w) = Turned(e - first + c, c)
    BY <1>9, <1>10, RingSize
  <2> QED
    BY <1>b, <2>1
<1>12. /\ rest \in Seq(Int) /\ Len(rest) = size - m
       /\ \A i \in 1 .. size - m : rest[i] = list[m + i]
  <2>1. list \in Seq(Int) /\ m \in 0 .. Len(list)
    BY <1>4, <1>5
  <2> QED
    BY <1>4, <2>1, Parted
<1> HIDE DEF rest
<1>13. ASSUME NEW i \in 1 .. size - m PROVE Cell(w, i - 1) = rest[i]
  <2>1. i \in Int /\ m + i \in 1 .. size
    BY <1>1, <1>2, <1>5
  <2>2. Turned(first + (i - 1), c) = Turned(b + (m + i - 1), c)
    <3>1. i - 1 \in 0 .. size - m - 1 /\ m + (i - 1) = m + i - 1
      BY <1>5, <1>t, <2>1
    <3> QED
      BY <1>b, <3>1
  <2>3. Cell(w, i - 1) = Cell(v, m + i - 1)
    BY <1>9, <2>2 DEF Cell, b, c
  <2>4. list[m + i] = Cell(v, m + i - 1)
    <3>1. \A j \in 1 .. size : list[j] = Cell(v, j - 1)
      BY <1>4
    <3>2. m + i \in 1 .. size /\ (m + i) - 1 = m + (i - 1)
      BY <1>5, <2>1
    <3> QED
      BY <3>1, <3>2
  <2> QED
    BY <1>12, <2>3, <2>4
<1>14. Audio!Contents(w) = rest
  BY <1>10, <1>11, <1>12, <1>13, Tells
<1> QED
  BY <1>10, <1>14 DEF w, rest, list, m, size

\* PopBack takes them off the end.
LEMMA PoppedBack ==
  ASSUME NEW v, Ring(v), NEW n \in Nat
  PROVE  LET w == Audio!PopBack(v, n)
             m == IF n < Audio!Size(v) THEN n ELSE Audio!Size(v)
         IN  /\ Ring(w)
             /\ Audio!Contents(w) = Audio!Take(Audio!Contents(v), Audio!Size(v) - m)
<1> DEFINE list == Audio!Contents(v)
           size == Audio!Size(v)
           m == IF n < size THEN n ELSE size
           b == v.begin
           e == v.end
           c == v.capacity
           final == Turned(e + c - m, c)
           w == Audio!PopBack(v, n)
           left == size - m
           rest == Audio!Take(list, left)
<1>1. /\ c \in Nat \ {0} /\ b \in 0 .. c - 1 /\ e \in 0 .. c - 1
      /\ v = [array |-> v.array, begin |-> b, end |-> e, capacity |-> c]
      /\ v.array \in [0 .. c - 1 -> Int]
  BY DEF Ring
<1>2. size \in 0 .. c - 1 /\ size = Turned(e - b + c, c)
  BY RingSize
<1>t. size \in Nat /\ size <= c - 1
  BY <1>1, <1>2
<1>3. w = [v EXCEPT !.end = (e + c - m) % c]
  BY DEF Audio!PopBack, Audio!Lesser
<1>4. list \in Seq(Int) /\ Len(list) = size /\ \A i \in 1 .. size : list[i] = Cell(v, i - 1)
  BY ContentsOf
<1> HIDE DEF list, size, w, b, e, c
<1>5. m \in 0 .. size /\ m \in Nat /\ left \in 0 .. size /\ left = size - m
  BY <1>1, <1>2
<1> HIDE DEF m, left
<1>6. (e + c - m) % c = final /\ final \in 0 .. c - 1
  <2>1. e \in 0 .. c - 1 /\ c \in Nat /\ m \in 0 .. size
    BY <1>1, <1>5
  <2>2. e + c - m \in 0 .. 2 * c - 1
    BY <1>t, <2>1
  <2> QED
    BY <1>1, <2>2, TwoTurns
<1>7. w = [array |-> v.array, begin |-> b, end |-> final, capacity |-> c]
  BY <1>1, <1>3, <1>6
<1>8. final = Turned(e + c - m, c)
  OBVIOUS
<1> HIDE DEF final
<1>9. w.array = v.array /\ w.begin = b /\ w.end = final /\ w.capacity = c
  BY <1>7
<1>10. Ring(w)
  BY <1>1, <1>6, <1>7, <1>9 DEF Ring
<1>11. Audio!Size(w) = left
  <2>1. Audio!Size(w) = Turned(final - b + c, c)
    BY <1>9, <1>10, RingSize
  <2> QED
    BY <1>1, <1>2, <1>t, <1>5, <1>8, <2>1, CellsBefore
<1>12. rest \in Seq(Int) /\ Len(rest) = left /\ \A i \in 1 .. left : rest[i] = list[i]
  <2>1. list \in Seq(Int) /\ left \in 0 .. Len(list)
    BY <1>4, <1>5
  <2> QED
    BY <1>4, <2>1, Parted
<1> HIDE DEF rest
<1>13. ASSUME NEW i \in 1 .. left PROVE Cell(w, i - 1) = rest[i]
  <2>1. i \in 1 .. size
    BY <1>2, <1>5
  <2>2. Cell(w, i - 1) = Cell(v, i - 1)
    BY <1>9 DEF Cell, b, c
  <2> QED
    BY <1>4, <1>12, <2>1, <2>2
<1>14. Audio!Contents(w) = rest
  BY <1>10, <1>11, <1>12, <1>13, Tells
<1> QED
  BY <1>10, <1>14 DEF w, rest, list, m, left, size

\* What lies in front of a place and behind it, with s in between.
Between(list, s, p) == Audio!Take(list, p) \o s \o Audio!Skip(list, p)

\* InsertAt by way of the end, what lies there taken out and pushed again.
LEMMA InsertedByBack ==
  ASSUME NEW v, Ring(v), NEW s \in Seq(Int), NEW p \in 0 .. Audio!Size(v)
  PROVE  LET w == Audio!InsertByPushBack(v, s, p)
         IN  Ring(w) /\ Audio!Contents(w) = Between(Audio!Contents(v), s, p)
<1> DEFINE list == Audio!Contents(v)
           size == Audio!Size(v)
           moved == Audio!CopyTo(v, size - p, p)
           short == Audio!PopBack(v, Len(moved))
           n == size + Len(s)
           room == Audio!Reserve(short, n)
           half == Audio!PushBack(room, s)
           w == Audio!PushBack(half, moved)
<1>1. size \in Nat /\ p \in 0 .. size /\ n \in Nat /\ p \in Nat
  <2>1. size \in Nat /\ p \in 0 .. size
    BY RingSize DEF Ring
  <2> HIDE DEF size
  <2> QED
    BY <2>1
<1>2. list \in Seq(Int) /\ Len(list) = size
  BY ContentsOf
<1>3. moved = Audio!Skip(list, p)
  BY CopyIsPart
<1>4. w = Audio!InsertByPushBack(v, s, p)
  BY DEF Audio!InsertByPushBack
<1>5. /\ Ring(short)
      /\ Audio!Contents(short)
           = Audio!Take(list, size - (IF Len(moved) < size THEN Len(moved) ELSE size))
  <2>1. Len(moved) \in Nat
    <3> HIDE DEF list, moved
    <3>1. p \in 0 .. Len(list)
      BY <1>1, <1>2
    <3> QED
      BY <1>1, <1>2, <1>3, <3>1, Parted
  <2> HIDE DEF moved
  <2> QED
    BY <2>1, PoppedBack
<1> HIDE DEF list, size, moved, short, n
<1>6. moved \in Seq(Int) /\ Len(moved) = size - p
  <2>1. p \in 0 .. Len(list)
    BY <1>1, <1>2
  <2> QED
    BY <1>2, <1>3, <2>1, Parted
<1>7. Audio!Contents(short) = Audio!Take(list, p)
  <2>1. size - (IF Len(moved) < size THEN Len(moved) ELSE size) = p
    BY <1>1, <1>6
  <2> QED
    BY <1>5, <2>1
<1>8. Ring(room) /\ Audio!Contents(room) = Audio!Contents(short)
  BY <1>1, <1>5, Reserved
<1> HIDE DEF room
<1>9. Ring(half) /\ Audio!Contents(half) = Audio!Contents(room) \o s
  BY <1>8, PushedBack
<1> HIDE DEF half
<1>10. Ring(w) /\ Audio!Contents(w) = Audio!Contents(half) \o moved
  BY <1>6, <1>9, PushedBack
<1> HIDE DEF w
<1> QED
  BY <1>3, <1>4, <1>7, <1>8, <1>9, <1>10 DEF Between, list

\* InsertAt by way of the front.
LEMMA InsertedByFront ==
  ASSUME NEW v, Ring(v), NEW s \in Seq(Int), NEW p \in 0 .. Audio!Size(v)
  PROVE  LET w == Audio!InsertByPushFront(v, s, p)
         IN  Ring(w) /\ Audio!Contents(w) = Between(Audio!Contents(v), s, p)
<1> DEFINE list == Audio!Contents(v)
           size == Audio!Size(v)
           moved == Audio!CopyTo(v, p, 0)
           short == Audio!PopFront(v, p)
           n == size + Len(s)
           room == Audio!Reserve(short, n)
           half == Audio!PushFront(room, s)
           w == Audio!PushFront(half, moved)
<1>1. size \in Nat /\ p \in 0 .. size /\ n \in Nat /\ p \in Nat
  <2>1. size \in Nat /\ p \in 0 .. size
    BY RingSize DEF Ring
  <2> HIDE DEF size
  <2> QED
    BY <2>1
<1>2. list \in Seq(Int) /\ Len(list) = size
  BY ContentsOf
<1>3. moved = Audio!Take(list, p)
  BY CopyIsPart
<1>4. w = Audio!InsertByPushFront(v, s, p)
  BY DEF Audio!InsertByPushFront
<1>5. /\ Ring(short)
      /\ Audio!Contents(short) = Audio!Skip(list, IF p < size THEN p ELSE size)
  BY <1>1, PoppedFront
<1> HIDE DEF list, size, moved, short, n
<1>6. moved \in Seq(Int) /\ Audio!Skip(list, p) \in Seq(Int)
  <2>1. p \in 0 .. Len(list)
    BY <1>1, <1>2
  <2> QED
    BY <1>2, <1>3, <2>1, Parted
<1>7. Audio!Contents(short) = Audio!Skip(list, p)
  <2>1. (IF p < size THEN p ELSE size) = p
    BY <1>1
  <2> QED
    BY <1>5, <2>1
<1>8. Ring(room) /\ Audio!Contents(room) = Audio!Contents(short)
  BY <1>1, <1>5, Reserved
<1> HIDE DEF room
<1>9. Ring(half) /\ Audio!Contents(half) = s \o Audio!Contents(room)
  BY <1>8, PushedFront
<1> HIDE DEF half
<1>10. Ring(w) /\ Audio!Contents(w) = moved \o Audio!Contents(half)
  BY <1>6, <1>9, PushedFront
<1> HIDE DEF w
<1>11. moved \o (s \o Audio!Skip(list, p)) = (moved \o s) \o Audio!Skip(list, p)
  <2> DEFINE behind == Audio!Skip(list, p)
  <2>1. moved \in Seq(Int) /\ s \in Seq(Int) /\ behind \in Seq(Int)
    BY <1>6
  <2> HIDE DEF behind
  <2>2. (moved \o s) \o behind = moved \o (s \o behind)
    BY <2>1, JoinedThree
  <2> QED
    BY <2>2 DEF behind
<1> QED
  BY <1>3, <1>4, <1>7, <1>8, <1>9, <1>10, <1>11 DEF Between, list

\* InsertAt, whichever way it takes.
LEMMA PutAt ==
  ASSUME NEW v, Ring(v), NEW s \in Seq(Int), NEW at \in Nat
  PROVE  LET w == Audio!InsertAt(v, s, at)
             p == IF Audio!Size(v) < at THEN Audio!Size(v) ELSE at
         IN  Ring(w) /\ Audio!Contents(w) = Between(Audio!Contents(v), s, p)
<1> DEFINE list == Audio!Contents(v)
           size == Audio!Size(v)
           p == IF size < at THEN size ELSE at
           w == Audio!InsertAt(v, s, at)
<1>1. size \in Nat
  BY RingSize DEF Ring
<1>2. w = CASE s = <<>> -> v
            [] s # <<>> /\ p <= size - p -> Audio!InsertByPushFront(v, s, p)
            [] OTHER -> Audio!InsertByPushBack(v, s, p)
  BY DEF Audio!InsertAt, Audio!Lesser
<1>3. list \in Seq(Int) /\ Len(list) = size
  BY ContentsOf
<1>s. p \in 0 .. Audio!Size(v)
  BY <1>1
<1> HIDE DEF size, w, list
<1>4. p \in 0 .. size
  BY <1>1
<1> HIDE DEF p
<1>5. CASE s = <<>>
  <2>1. w = v
    BY <1>2, <1>5
  <2>2. p \in 0 .. Len(list)
    BY <1>3, <1>4
  <2>3. Audio!Take(list, p) \in Seq(Int) /\ Audio!Take(list, p) \o Audio!Skip(list, p) = list
    BY <1>3, <2>2, Parted
  <2>4. Between(list, s, p) = list
    BY <1>5, <2>3, ConcatEmptySeq DEF Between
  <2> QED
    BY <2>1, <2>4 DEF w, list, p, size
<1>6. CASE s # <<>> /\ p <= size - p
  <2>1. w = Audio!InsertByPushFront(v, s, p)
    BY <1>2, <1>6
  <2>2. Ring(w) /\ Audio!Contents(w) = Between(list, s, p)
    BY <1>s, <2>1, InsertedByFront DEF list
  <2> QED
    BY <2>2 DEF w, list, p, size
<1>7. CASE s # <<>> /\ ~(p <= size - p)
  <2>1. w = Audio!InsertByPushBack(v, s, p)
    BY <1>2, <1>7
  <2>2. Ring(w) /\ Audio!Contents(w) = Between(list, s, p)
    BY <1>s, <2>1, InsertedByBack DEF list
  <2> QED
    BY <2>2 DEF w, list, p, size
<1> QED
  BY <1>5, <1>6, <1>7

\* Extend puts zeros at the end.
LEMMA Extended ==
  ASSUME NEW v, Ring(v), NEW n \in Nat
  PROVE  LET w == Audio!Extend(v, n)
         IN  /\ Ring(w) /\ Audio!Contents(w) = Audio!Contents(v) \o Audio!Zeros(n)
             /\ Audio!Zeros(n) \in Seq(Int) /\ Len(Audio!Zeros(n)) = n
<1> DEFINE list == Audio!Contents(v)
           size == Audio!Size(v)
           s == Audio!Zeros(n)
           w == Audio!Extend(v, n)
<1>1. s \in Seq(Int) /\ Len(s) = n /\ (n = 0 => s = <<>>)
  BY DEF Audio!Zeros
<1>2. list \in Seq(Int) /\ Len(list) = size
  BY ContentsOf
<1>3. size \in Nat /\ size \in 0 .. size
  BY RingSize DEF Ring
<1>4. CASE n = 0
  <2>1. w = v
    BY <1>4 DEF Audio!Extend
  <2> HIDE DEF list, s, w
  <2>2. list \o s = list
    BY <1>1, <1>2, <1>4, ConcatEmptySeq
  <2> QED
    BY <1>1, <2>1, <2>2 DEF list, s, w
<1>5. CASE n # 0
  <2>1. w = Audio!InsertByPushBack(v, s, size)
    BY <1>5 DEF Audio!Extend
  <2> HIDE DEF w, s
  <2>2. Ring(w) /\ Audio!Contents(w) = Between(list, s, size)
    BY <1>1, <1>3, <2>1, InsertedByBack
  <2> HIDE DEF size, list
  <2>3. /\ Audio!Take(list, size) \in Seq(Int) /\ Len(Audio!Take(list, size)) = size
        /\ \A i \in 1 .. size : Audio!Take(list, size)[i] = list[i]
        /\ Audio!Skip(list, size) \in Seq(Int) /\ Len(Audio!Skip(list, size)) = size - size
    <3>1. size \in 0 .. Len(list)
      BY <1>2, <1>3
    <3> QED
      BY <1>2, <3>1, Parted
  <2>4. Audio!Take(list, size) = list
    BY <1>2, <2>3, SeqEqual
  <2>5. Audio!Skip(list, size) = <<>>
    BY <1>3, <2>3, EmptySeq
  <2>6. list \o s \in Seq(Int)
    BY <1>1, <1>2, ConcatProperties
  <2>7. Between(list, s, size) = list \o s
    BY <2>4, <2>5, <2>6, ConcatEmptySeq DEF Between
  <2> QED
    BY <1>1, <2>2, <2>7 DEF list, s, w
<1> QED
  BY <1>4, <1>5

\* Clear leaves nothing.
LEMMA Cleared ==
  ASSUME NEW v, Ring(v)
  PROVE  Ring(Audio!Clear(v)) /\ Audio!Contents(Audio!Clear(v)) = <<>>
<1> DEFINE w == Audio!Clear(v)
<1>1. w = [array |-> v.array, begin |-> 0, end |-> 0, capacity |-> v.capacity]
  <2>1. v = [array |-> v.array, begin |-> v.begin, end |-> v.end, capacity |-> v.capacity]
    BY DEF Ring
  <2>2. w = [v EXCEPT !.begin = 0, !.end = 0]
    BY DEF Audio!Clear
  <2> HIDE DEF w
  <2> QED
    BY <2>1, <2>2
<1>2. w.array = v.array /\ w.begin = 0 /\ w.end = 0 /\ w.capacity = v.capacity
  BY <1>1
<1> HIDE DEF w
<1>3. Ring(w)
  BY <1>1, <1>2 DEF Ring
<1>4. Audio!Size(w) = 0
  <2>1. Audio!Size(w) = Turned(0 - 0 + v.capacity, v.capacity) /\ v.capacity \in Nat
    BY <1>2, <1>3, RingSize DEF Ring
  <2> QED
    BY <2>1 DEF Turned
<1>5. Audio!Contents(w) = <<>>
  BY <1>3, <1>4, ContentsOf, EmptySeq
<1> QED
  BY <1>3, <1>5 DEF w

\* A list with s laid over it from behind p of its samples on.
Laid(list, s, p) ==
  Audio!Take(list, p) \o s
    \o Audio!Skip(list, IF p + Len(s) < Len(list) THEN p + Len(s) ELSE Len(list))

\* The samples of a list laid over another.
LEMMA LaidSamples ==
  ASSUME NEW list \in Seq(Int), NEW s \in Seq(Int), NEW p \in 0 .. Len(list)
  PROVE  LET size == IF Len(list) < p + Len(s) THEN p + Len(s) ELSE Len(list)
         IN  /\ Laid(list, s, p) \in Seq(Int) /\ Len(Laid(list, s, p)) = size
             /\ \A i \in 1 .. size :
                  Laid(list, s, p)[i] =
                    IF i > p /\ i <= p + Len(s) THEN s[i - p] ELSE list[i]
<1> DEFINE l == Len(list)
           n == Len(s)
           q == IF p + n < l THEN p + n ELSE l
           size == IF l < p + n THEN p + n ELSE l
           a == Audio!Take(list, p)
           b == Audio!Skip(list, q)
           joined == (a \o s) \o b
<1>1. l \in Nat /\ n \in Nat /\ p \in 0 .. l
  OBVIOUS
<1>2. joined = Laid(list, s, p)
  BY DEF Laid
<1> HIDE DEF l, n
<1>3. q \in 0 .. l /\ size \in Nat /\ p + n + (l - q) = size /\ p + n \in Nat
      /\ (q < l => q = p + n)
  BY <1>1
<1> HIDE DEF q, size
<1>4. a \in Seq(Int) /\ Len(a) = p /\ \A i \in 1 .. p : a[i] = list[i]
  BY <1>1, Parted DEF l
<1>5. b \in Seq(Int) /\ Len(b) = l - q /\ \A i \in 1 .. l - q : b[i] = list[q + i]
  BY <1>3, Parted DEF l
<1> HIDE DEF a, b
<1>6. /\ a \o s \in Seq(Int) /\ Len(a \o s) = p + n
      /\ \A i \in 1 .. p + n : (a \o s)[i] = IF i <= p THEN a[i] ELSE s[i - p]
  BY <1>4, ConcatProperties DEF n
<1> DEFINE front == a \o s
<1>7. /\ front \in Seq(Int) /\ Len(front) = p + n
      /\ \A i \in 1 .. p + n : front[i] = IF i <= p THEN a[i] ELSE s[i - p]
  BY <1>6
<1> HIDE DEF front
<1>8. /\ front \o b \in Seq(Int) /\ Len(front \o b) = p + n + (l - q)
      /\ \A i \in 1 .. p + n + (l - q) :
           (front \o b)[i] = IF i <= p + n THEN front[i] ELSE b[i - (p + n)]
  <2> DEFINE m == p + n
  <2>1. front \in Seq(Int) /\ b \in Seq(Int) /\ Len(front) = m /\ Len(b) = l - q
    BY <1>5, <1>7
  <2> HIDE DEF m
  <2>2. /\ front \o b \in Seq(Int) /\ Len(front \o b) = Len(front) + Len(b)
        /\ \A i \in 1 .. Len(front) + Len(b) :
             (front \o b)[i] = IF i <= Len(front) THEN front[i] ELSE b[i - Len(front)]
    BY <2>1, ConcatProperties
  <2> QED
    BY <2>1, <2>2 DEF m
<1>9. joined \in Seq(Int) /\ Len(joined) = size
      /\ \A i \in 1 .. size : joined[i] = IF i <= p + n THEN front[i] ELSE b[i - (p + n)]
  BY <1>3, <1>8 DEF front
<1> HIDE DEF joined
<1>10. ASSUME NEW i \in 1 .. size
       PROVE  joined[i] = IF i > p /\ i <= p + n THEN s[i - p] ELSE list[i]
  <2>1. i \in Int
    BY <1>3
  <2>2. CASE i <= p
    <3>1. i \in 1 .. p /\ i \in 1 .. p + n /\ i <= p + n /\ ~(i > p)
      BY <1>1, <2>1, <2>2
    <3> QED
      BY <1>4, <1>7, <1>9, <2>2, <3>1
  <2>3. CASE ~(i <= p) /\ i <= p + n
    <3>1. i \in 1 .. p + n /\ i > p
      BY <1>1, <2>1, <2>3
    <3> QED
      BY <1>7, <1>9, <2>3, <3>1
  <2>4. CASE ~(i <= p + n)
    <3>1. i - (p + n) \in 1 .. l - q /\ q + (i - (p + n)) = i
      BY <1>1, <1>3, <2>1, <2>4
    <3>2. b[i - (p + n)] = list[i]
      BY <1>5, <3>1
    <3> QED
      BY <1>9, <2>4, <3>2
  <2> QED
    BY <1>1, <2>1, <2>2, <2>3, <2>4
<1> QED
  BY <1>2, <1>9, <1>10 DEF l, n, size

\* OverwriteAt lays a list over the contents, longer than these if need be.
LEMMA Overwritten ==
  ASSUME NEW v, Ring(v), NEW s \in Seq(Int), NEW at \in Nat
  PROVE  LET w == Audio!OverwriteAt(v, s, at)
             p == IF Audio!Size(v) < at THEN Audio!Size(v) ELSE at
         IN  Ring(w) /\ Audio!Contents(w) = Laid(Audio!Contents(v), s, p)
<1> DEFINE n == Len(s)
           list == Audio!Contents(v)
           old == Audio!Size(v)
           p == IF old < at THEN old ELSE at
           size == IF old < p + n THEN p + n ELSE old
           r == Audio!Reserve(v, size)
           b == r.begin
           c == r.capacity
           from == Turned(b + p, c)
           end == Turned(b + size, c)
           w == Audio!OverwriteAt(v, s, at)
           laid == Laid(list, s, p)
<1>1. list \in Seq(Int) /\ Len(list) = old /\ \A i \in 1 .. old : list[i] = Cell(v, i - 1)
  BY ContentsOf
<1>2. old \in Nat /\ n \in Nat
  <2>1. old \in Nat
    BY RingSize DEF Ring
  <2>2. n \in Nat
    OBVIOUS
  <2> QED
    BY <2>1, <2>2
<1>3. s = <<>> => w = v
  BY DEF Audio!OverwriteAt
<1>4. s # <<>> => w = [r EXCEPT !.array = Audio!Wrapped(r, (b + p) % c, s),
                                !.end = (b + size) % c]
  BY DEF Audio!OverwriteAt, Audio!Lesser, Audio!Greater
<1>e. s = <<>> <=> n = 0
  BY EmptySeq
<1> HIDE DEF n, list, old, w
<1>5. p \in 0 .. old /\ p \in Nat
  BY <1>2
<1> HIDE DEF p
<1>6. size \in Nat /\ old <= size /\ p + n <= size /\ (p + n <= old => size = old)
      /\ size = (IF old < p + n THEN p + n ELSE old)
  BY <1>2, <1>5
<1> HIDE DEF size
<1>7. /\ laid \in Seq(Int) /\ Len(laid) = size
      /\ \A i \in 1 .. size : laid[i] = IF i > p /\ i <= p + n THEN s[i - p] ELSE list[i]
  BY <1>1, <1>5, <1>6, LaidSamples DEF n
<1> HIDE DEF laid
<1>8. CASE s = <<>>
  <2>1. w = v /\ n = 0
    BY <1>3, <1>8, <1>e
  <2>2. size = old
    BY <1>2, <1>5, <1>6, <2>1
  <2>3. \A i \in 1 .. size : laid[i] = list[i]
    BY <1>2, <1>5, <1>7, <2>1, <2>2
  <2>4. laid = list
    BY <1>1, <1>7, <2>2, <2>3, SeqEqual
  <2> QED
    BY <2>1, <2>4 DEF w, laid, list, p, old
<1>9. CASE s # <<>>
  <2>1. Ring(r) /\ c > size /\ Audio!Size(r) = old /\ Audio!Contents(r) = list
    BY <1>6, Reserved DEF old, list
  <2> HIDE DEF r
  <2>2. /\ c \in Nat \ {0} /\ b \in 0 .. c - 1 /\ r.end \in 0 .. c - 1
        /\ r = [array |-> r.array, begin |-> b, end |-> r.end, capacity |-> c]
    BY <2>1 DEF Ring
  <2>3. \A i \in 1 .. old : list[i] = Cell(r, i - 1)
    BY <2>1, ContentsOf
  <2>4. (b + p) % c = from /\ (b + size) % c = end /\ from \in 0 .. c - 1 /\ end \in 0 .. c - 1
    <3>1. b + p \in 0 .. 2 * c - 1 /\ b + size \in 0 .. 2 * c - 1
      <4>1. p \in Nat /\ size \in Nat /\ p <= size /\ size < c /\ c \in Nat /\ b \in 0 .. c - 1
        BY <1>2, <1>5, <1>6, <2>1, <2>2
      <4> QED
        BY <4>1
    <3> QED
      BY <2>2, <3>1, TwoTurns
  <2>5. w = [r EXCEPT !.array = Audio!Wrapped(r, from, s), !.end = end]
    BY <1>4, <1>9, <2>4
  <2> DEFINE array == Audio!Wrapped(r, from, s)
  <2>6. /\ array \in [0 .. c - 1 -> Int]
        /\ \A i \in 0 .. c - 1 :
             array[i] = IF from <= i /\ i < from + n THEN s[i - from + 1]
                        ELSE IF i < from + n - c THEN s[i - from + c + 1]
                        ELSE r.array[i]
    <3>1. Len(s) <= r.capacity /\ from \in 0 .. r.capacity - 1
      BY <1>2, <1>5, <1>6, <2>1, <2>2, <2>4 DEF n
    <3> QED
      BY <2>1, <3>1, Written DEF n
  <2> HIDE DEF array
  <2>7. w = [array |-> array, begin |-> b, end |-> end, capacity |-> c]
    BY <2>2, <2>5 DEF array
  <2>8. w.array = array /\ w.begin = b /\ w.end = end /\ w.capacity = c
    BY <2>7
  <2>9. Ring(w)
    BY <2>2, <2>4, <2>6, <2>7, <2>8 DEF Ring
  <2>10. from = Turned(b + p, c) /\ end = Turned(b + size, c)
    OBVIOUS
  <2> HIDE DEF b, c, from, end
  <2>11. Audio!Size(w) = size
    <3>1. Audio!Size(w) = Turned(end - b + c, c)
      BY <2>8, <2>9, RingSize
    <3>2. size \in Nat /\ size < c
      BY <1>6, <2>1, <2>2
    <3> QED
      BY <2>2, <2>10, <3>1, <3>2 DEF Turned
  <2>12. ASSUME NEW i \in 1 .. size PROVE Cell(w, i - 1) = laid[i]
    <3> DEFINE k == i - 1
               x == Turned(b + k, c)
    <3>1. i \in Int /\ k \in 0 .. size - 1 /\ k + 1 = i
      BY <1>6
    <3>2. Cell(w, k) = array[x] /\ Cell(r, k) = r.array[x]
      BY <2>8 DEF Cell, b, c
    <3>3. x = Turned(b + k, c)
      OBVIOUS
    <3> HIDE DEF k, x
    <3>4. /\ x \in 0 .. c - 1
          /\ k < p \/ k >= p + n => ~(from <= x /\ x < from + n) /\ ~(x < from + n - c)
          /\ k >= p /\ k < p + n =>
               \/ from <= x /\ x < from + n /\ x - from + 1 = k + 1 - p
               \/ ~(from <= x) /\ x < from + n - c /\ x - from + c + 1 = k + 1 - p
      <4>1. p + n < c /\ k \in 0 .. c - 1
        BY <1>2, <1>5, <1>6, <2>1, <2>2, <3>1
      <4> QED
        BY <1>2, <1>5, <2>2, <2>10, <3>3, <4>1, CellsFrom
    <3>5. array[x] = IF from <= x /\ x < from + n THEN s[x - from + 1]
                     ELSE IF x < from + n - c THEN s[x - from + c + 1]
                     ELSE r.array[x]
      BY <2>6, <3>4
    <3>6. CASE k < p \/ k >= p + n
      <4>1. array[x] = r.array[x]
        BY <3>4, <3>5, <3>6
      <4>2. i \in 1 .. old /\ ~(i > p /\ i <= p + n)
        BY <1>2, <1>5, <1>6, <3>1, <3>6
      <4>3. list[i] = Cell(r, k)
        BY <2>3, <4>2 DEF k
      <4> QED
        BY <1>7, <3>2, <4>1, <4>2, <4>3 DEF k
    <3>7. CASE k >= p /\ k < p + n
      <4>1. k + 1 - p = i - p /\ i > p /\ i <= p + n
        BY <1>2, <1>5, <3>1, <3>7
      <4>2. array[x] = s[i - p]
        <5>1. CASE from <= x /\ x < from + n /\ x - from + 1 = k + 1 - p
          BY <3>5, <4>1, <5>1
        <5>2. CASE ~(from <= x) /\ x < from + n - c /\ x - from + c + 1 = k + 1 - p
          BY <3>5, <4>1, <5>2
        <5> QED
          BY <3>4, <3>7, <5>1, <5>2
      <4> QED
        BY <1>7, <3>2, <4>1, <4>2 DEF k
    <3> QED
      BY <1>2, <1>5, <3>1, <3>6, <3>7
  <2>13. Audio!Contents(w) = laid
    BY <1>7, <2>9, <2>11, <2>12, Tells
  <2> QED
    BY <2>9, <2>13 DEF w, laid, list, p, old
<1> QED
  BY <1>8, <1>9

\* A mix of numbers is a number.
LEMMA FadedIsNumber ==
  ASSUME NEW x \in Int, NEW y \in Int, NEW i \in Nat, NEW n \in Nat
  PROVE  Audio!Faded(x, y, i, n) \in Int
<1> DEFINE share == 16384 \div (n + 1)
           alpha == 16384 - i * share
           all == alpha * x + (16384 - alpha) * y + 8192
<1>1. share \in Int
  OBVIOUS
<1> HIDE DEF share
<1>2. alpha \in Int
  <2>1. i * share \in Int
    BY <1>1
  <2> QED
    BY <2>1
<1>a. alpha = 16384 - i * share
  OBVIOUS
<1> HIDE DEF alpha
<1>3. all \in Int
  <2>1. alpha * x \in Int /\ (16384 - alpha) * y \in Int
    BY <1>2
  <2> QED
    BY <2>1
<1>4. Audio!Faded(x, y, i, n) = all \div 16384
  BY DEF Audio!Faded, alpha, share
<1> HIDE DEF all
<1>5. all \div 16384 \in Int
  BY <1>3
<1> QED
  BY <1>4, <1>5

\* The last n samples of a list, faded into the first n of s.
Mix(list, s, n) ==
  [i \in 1 .. n |-> Audio!Faded(list[Len(list) - n + i], s[i], i, n)]
Mixed(list, s, n) == Audio!Take(list, Len(list) - n) \o Mix(list, s, n)

\* The samples of a list after the fade.
LEMMA MixedSamples ==
  ASSUME NEW list \in Seq(Int), NEW s \in Seq(Int), NEW n \in Nat,
         n <= Len(list), n <= Len(s)
  PROVE  /\ Mixed(list, s, n) \in Seq(Int) /\ Len(Mixed(list, s, n)) = Len(list)
         /\ \A i \in 1 .. Len(list) :
              Mixed(list, s, n)[i] =
                IF i <= Len(list) - n THEN list[i]
                ELSE Audio!Faded(list[i], s[i - (Len(list) - n)], i - (Len(list) - n), n)
<1> DEFINE l == Len(list)
           m == l - n
           a == Audio!Take(list, m)
           b == Mix(list, s, n)
           joined == a \o b
           Fade(x, y, i) == Audio!Faded(x, y, i, n)
<1>1. l \in Nat /\ m \in 0 .. l /\ l = m + n /\ m \in Nat
  OBVIOUS
<1>2. \A x \in Int, y \in Int, i \in Nat : Fade(x, y, i) \in Int
  BY FadedIsNumber
<1>3. b = [i \in 1 .. n |-> Fade(list[m + i], s[i], i)]
  BY DEF Mix
<1>4. \A i \in 1 .. n : list[m + i] \in Int /\ s[i] \in Int /\ i \in Nat
  <2>1. \A i \in 1 .. n : m + i \in 1 .. Len(list) /\ i \in 1 .. Len(s)
    BY <1>1
  <2> QED
    BY <2>1
<1>5. a \in Seq(Int) /\ Len(a) = m /\ \A i \in 1 .. m : a[i] = list[i]
  BY <1>1, Parted
<1> HIDE DEF l, m, Fade, a, b
<1>6. b \in Seq(Int) /\ Len(b) = n /\ \A i \in 1 .. n : b[i] = Fade(list[m + i], s[i], i)
  <2>1. b \in [1 .. n -> Int]
    BY <1>2, <1>3, <1>4
  <2> QED
    BY <1>3, <2>1, SeqOfFunction
<1>7. /\ joined \in Seq(Int) /\ Len(joined) = m + n
      /\ \A i \in 1 .. m + n : joined[i] = IF i <= m THEN a[i] ELSE b[i - m]
  BY <1>5, <1>6, ConcatProperties
<1> HIDE DEF joined
<1>8. ASSUME NEW i \in 1 .. l
      PROVE  joined[i] = IF i <= m THEN list[i] ELSE Fade(list[i], s[i - m], i - m)
  <2>1. i \in 1 .. m + n /\ i \in Int
    BY <1>1
  <2>2. CASE i <= m
    BY <1>1, <1>5, <1>7, <2>1, <2>2
  <2>3. CASE ~(i <= m)
    <3>1. i - m \in 1 .. n /\ m + (i - m) = i
      BY <1>1, <2>1, <2>3
    <3> QED
      BY <1>6, <1>7, <2>1, <2>3, <3>1
  <2> QED
    BY <2>2, <2>3
<1>9. joined = Mixed(list, s, n)
  BY DEF Mixed, joined, a, b, m, l
<1> QED
  BY <1>1, <1>7, <1>8, <1>9 DEF l, m, Fade

\* CrossFade mixes the last n samples with the first n given and pushes the others.
LEMMA CrossFaded ==
  ASSUME NEW v, Ring(v), NEW s \in Seq(Int), NEW n \in Nat,
         n <= Len(s), n <= Audio!Size(v)
  PROVE  LET w == Audio!CrossFade(v, s, n)
         IN  /\ Ring(w)
             /\ Audio!Contents(w) = Mixed(Audio!Contents(v), s, n) \o Audio!Skip(s, n)
<1> DEFINE list == Audio!Contents(v)
           size == Audio!Size(v)
           b == v.begin
           e == v.end
           c == v.capacity
           q == (size - n + b) % c
           I(j) == ((j + c - q) % c) + 1
           Fade(x, y, i) == Audio!Faded(x, y, i, n)
           mixed == [j \in DOMAIN v.array |->
                       IF I(j) <= n THEN Fade(v.array[j], s[I(j)], I(j)) ELSE v.array[j]]
           u == [v EXCEPT !.array = mixed]
           w == Audio!CrossFade(v, s, n)
           rest == Audio!Skip(s, n)
           new == Mixed(list, s, n)
<1>1. w = Audio!PushBack(u, rest)
  BY DEF Audio!CrossFade
<1>2. /\ c \in Nat \ {0} /\ b \in 0 .. c - 1 /\ e \in 0 .. c - 1
      /\ v = [array |-> v.array, begin |-> b, end |-> e, capacity |-> c]
      /\ v.array \in [0 .. c - 1 -> Int]
  BY DEF Ring
<1>3. size \in 0 .. c - 1 /\ size = Turned(e - b + c, c)
  BY RingSize
<1>4. list \in Seq(Int) /\ Len(list) = size /\ \A i \in 1 .. size : list[i] = Cell(v, i - 1)
  BY ContentsOf
<1>5. /\ new \in Seq(Int) /\ Len(new) = size
      /\ \A i \in 1 .. size :
           new[i] = IF i <= size - n THEN list[i]
                    ELSE Fade(list[i], s[i - (size - n)], i - (size - n))
  <2>1. n <= Len(list)
    BY <1>4
  <2> HIDE DEF list, size
  <2> QED
    BY <1>4, <2>1, MixedSamples
<1>6. \A x \in Int, y \in Int, i \in Nat : Fade(x, y, i) \in Int
  BY FadedIsNumber
<1>7. rest \in Seq(Int)
  <2>1. n \in 0 .. Len(s)
    OBVIOUS
  <2> QED
    BY <2>1, Parted
<1>8. DOMAIN v.array = 0 .. c - 1 /\ n <= size
  BY <1>2
<1> HIDE DEF list, size, b, e, c, Fade, u, w, rest, new
<1>9. q = Turned(size - n + b, c) /\ q \in 0 .. c - 1
  <2>1. size - n + b \in 0 .. 2 * c - 1
    <3>1. size \in Nat /\ size < c /\ c \in Nat /\ b \in 0 .. c - 1 /\ n <= size
      BY <1>2, <1>3, <1>8
    <3> QED
      BY <3>1
  <2> QED
    BY <1>2, <2>1, TwoTurns
<1> HIDE DEF q
<1>10. \A j \in 0 .. c - 1 : I(j) = Turned(j + c - q, c) + 1 /\ I(j) \in Nat /\ I(j) >= 1
  <2> TAKE j \in 0 .. c - 1
  <2>1. j + c - q \in 0 .. 2 * c - 1
    <3>1. c \in Nat /\ q \in 0 .. c - 1
      BY <1>2, <1>9
    <3> QED
      BY <3>1
  <2>2. (j + c - q) % c = Turned(j + c - q, c) /\ Turned(j + c - q, c) \in 0 .. c - 1
    BY <1>2, <2>1, TwoTurns
  <2> QED
    BY <1>2, <2>2
<1> HIDE DEF I
<1>11. /\ mixed \in [0 .. c - 1 -> Int]
       /\ \A j \in 0 .. c - 1 :
            mixed[j] = IF I(j) <= n THEN Fade(v.array[j], s[I(j)], I(j)) ELSE v.array[j]
  <2>1. ASSUME NEW j \in 0 .. c - 1, I(j) <= n PROVE Fade(v.array[j], s[I(j)], I(j)) \in Int
    <3>1. I(j) \in 1 .. Len(s) /\ I(j) \in Nat
      BY <1>10, <2>1
    <3>2. s[I(j)] \in Int /\ v.array[j] \in Int
      BY <1>2, <3>1
    <3> QED
      BY <1>6, <3>1, <3>2
  <2> QED
    BY <1>2, <1>8, <2>1
<1> HIDE DEF mixed
<1>12. u = [array |-> mixed, begin |-> b, end |-> e, capacity |-> c]
  BY <1>2 DEF u
<1>13. u.array = mixed /\ u.begin = b /\ u.end = e /\ u.capacity = c
  BY <1>12
<1>14. Ring(u)
  BY <1>2, <1>11, <1>12, <1>13 DEF Ring
<1>15. Audio!Size(u) = size
  BY <1>3, <1>13, <1>14, RingSize
<1>16. ASSUME NEW i \in 1 .. size PROVE Cell(u, i - 1) = new[i]
  <2> DEFINE k == i - 1
             x == Turned(b + k, c)
  <2>1. i \in Int /\ k \in 0 .. size - 1 /\ k + 1 = i /\ size \in Nat /\ size < c
    BY <1>2, <1>3
  <2>2. Cell(u, k) = mixed[x] /\ Cell(v, k) = v.array[x]
    BY <1>13 DEF Cell, b, c
  <2>3. x = Turned(b + k, c)
    OBVIOUS
  <2>4. list[i] = v.array[x]
    BY <1>4, <2>2
  <2> HIDE DEF k, x
  <2>5. /\ x \in 0 .. c - 1
        /\ k < size - n => Turned(x + c - q, c) = k - (size - n) + c
        /\ ~(k < size - n) => Turned(x + c - q, c) = k - (size - n)
    <3>1. n \in 0 .. size /\ size \in Nat /\ size < c /\ q = Turned(size - n + b, c)
          /\ k \in 0 .. size - 1
      BY <1>8, <1>9, <2>1
    <3>2. c \in Nat \ {0} /\ b \in 0 .. c - 1
      BY <1>2
    <3>3. /\ c \in Nat \ {0} /\ b \in 0 .. c - 1 /\ size \in Nat /\ size < c
          /\ n \in 0 .. size /\ q = Turned(size - n + b, c)
          /\ k \in 0 .. size - 1 /\ x = Turned(b + k, c)
      BY <2>3, <3>1, <3>2
    <3> HIDE DEF size
    <3>4. x \in 0 .. c - 1
      BY <3>3 DEF Turned
    <3>5. k < size - n => Turned(x + c - q, c) = k - (size - n) + c
      BY <3>3 DEF Turned
    <3>6. ~(k < size - n) => Turned(x + c - q, c) = k - (size - n)
      BY <3>3 DEF Turned
    <3> QED
      BY <3>4, <3>5, <3>6
  <2>6. mixed[x] = IF I(x) <= n THEN Fade(v.array[x], s[I(x)], I(x)) ELSE v.array[x]
    BY <1>11, <2>5
  <2>7. I(x) = Turned(x + c - q, c) + 1
    BY <1>10, <2>5
  <2>n. n \in Nat /\ n <= size /\ size \in Nat /\ size < c /\ c \in Nat
        /\ k \in 0 .. size - 1 /\ k + 1 = i /\ i \in Int
    BY <1>2, <1>8, <2>1
  <2>8. CASE k < size - n
    <3>2. I(x) = k - (size - n) + c + 1
      <4>1. Turned(x + c - q, c) = k - (size - n) + c
        BY <2>5, <2>8
      <4> QED
        BY <2>7, <2>n, <4>1
    <3>1. ~(I(x) <= n) /\ i <= size - n
      BY <2>8, <2>n, <3>2
    <3> QED
      BY <1>5, <2>2, <2>4, <2>6, <3>1 DEF k
  <2>9. CASE ~(k < size - n)
    <3>1. I(x) = k - (size - n) + 1
      <4>1. Turned(x + c - q, c) = k - (size - n)
        BY <2>5, <2>9
      <4> QED
        BY <2>7, <4>1
    <3>2. k - (size - n) + 1 = i - (size - n) /\ i - (size - n) <= n /\ ~(i <= size - n)
      BY <2>9, <2>n
    <3> QED
      BY <1>5, <2>2, <2>4, <2>6, <3>1, <3>2 DEF k
  <2> QED
    BY <2>8, <2>9
<1>17. Audio!Contents(u) = new
  BY <1>5, <1>14, <1>15, <1>16, Tells
<1>18. Ring(w) /\ Audio!Contents(w) = new \o rest
  BY <1>1, <1>7, <1>14, <1>17, PushedBack
<1> QED
  BY <1>18 DEF w, new, rest, list

-----------------------------------------------------------------------------
(* The invariant of the ring: what it holds is the list, and its indices are *)
(* in its array.  TypeOK is no part of it: a mix of samples need not be one  *)
(* of those given.                                                           *)

VectorInv == Ring(vector) /\ Audio!VectorIsList

\* A piece is a list of numbers.
LEMMA PieceIsList == ASSUME NEW s \in Audio!Pieces PROVE s \in Seq(Int)
<1>1. PICK n \in 0 .. MaxPiece : s \in [1 .. n -> AudioValue]
  BY DEF Audio!Pieces
<1>2. n \in Nat /\ AudioValue \subseteq Int
  BY AudioAssumption
<1>3. s \in [1 .. n -> Int]
  BY <1>1, <1>2
<1> QED
  BY <1>2, <1>3, SeqOfFunction

\* The first vector holds nothing.
LEMMA VectorIsEmpty == Audio!Init => VectorInv
<1> SUFFICES ASSUME Audio!Init PROVE VectorInv
  OBVIOUS
<1>1. /\ vector = [array |-> [i \in 0 .. 1 - 1 |-> 0], begin |-> 0, end |-> 0, capacity |-> 1]
      /\ samples = <<>>
  BY DEF Audio!Init, Audio!Vector
<1>2. /\ vector.array = [i \in 0 .. 1 - 1 |-> 0]
      /\ vector.begin = 0 /\ vector.end = 0 /\ vector.capacity = 1
  BY <1>1
<1>3. Ring(vector)
  BY <1>1, <1>2 DEF Ring
<1>4. Audio!Size(vector) = 0
  BY <1>2, <1>3, RingSize DEF Turned
<1>5. Audio!Contents(vector) = <<>>
  BY <1>3, <1>4, ContentsOf, EmptySeq
<1> QED
  BY <1>1, <1>3, <1>5 DEF VectorInv, Audio!VectorIsList

\* Each operation keeps the ring and its list the same.
LEMMA VectorInductive == VectorInv /\ [Audio!Next]_<<vector, samples>> => VectorInv'
<1> SUFFICES ASSUME VectorInv, [Audio!Next]_<<vector, samples>> PROVE VectorInv'
  OBVIOUS
<1>1. /\ Ring(vector) /\ Audio!Contents(vector) = samples
      /\ samples \in Seq(Int) /\ Len(samples) = Audio!Size(vector)
      /\ Audio!Size(vector) \in Nat
  <2>1. Ring(vector) /\ Audio!Contents(vector) = samples
    BY DEF VectorInv, Audio!VectorIsList
  <2>2. vector.capacity \in Nat
    BY <2>1 DEF Ring
  <2> QED
    BY <2>1, <2>2, ContentsOf, RingSize
<1>2. SUFFICES Ring(vector') /\ Audio!Contents(vector') = samples'
  BY DEF VectorInv, Ring, Audio!VectorIsList, Audio!Contents, Audio!CopyTo, Audio!Size
<1>3. \A n \in Nat : Audio!List!Capped(n) = IF n < Audio!Size(vector) THEN n ELSE Audio!Size(vector)
  BY <1>1 DEF Audio!List!Capped
<1>4. /\ \A n \in Int : Audio!List!Front(n) = Audio!Take(samples, n)
      /\ \A n \in Int : Audio!List!Behind(n) = Audio!Skip(samples, n)
  BY DEF Audio!List!Front, Audio!List!Behind, Audio!Take, Audio!Skip
<1>5. ASSUME NEW s \in Audio!Pieces, vector' = Audio!PushBack(vector, s), Audio!List!PushBack(s)
      PROVE  Ring(vector') /\ Audio!Contents(vector') = samples'
  BY <1>1, <1>5, PieceIsList, PushedBack DEF Audio!List!PushBack
<1>6. ASSUME NEW s \in Audio!Pieces, vector' = Audio!PushFront(vector, s), Audio!List!PushFront(s)
      PROVE  Ring(vector') /\ Audio!Contents(vector') = samples'
  BY <1>1, <1>6, PieceIsList, PushedFront DEF Audio!List!PushFront
<1>7. ASSUME NEW s \in Audio!Pieces, NEW at \in 0 .. MaxSize,
             vector' = Audio!InsertAt(vector, s, at), Audio!List!InsertAt(s, at)
      PROVE  Ring(vector') /\ Audio!Contents(vector') = samples'
  <2> DEFINE p == IF Audio!Size(vector) < at THEN Audio!Size(vector) ELSE at
  <2>1. at \in Nat /\ s \in Seq(Int)
    BY AudioAssumption, PieceIsList
  <2>2. p \in Int /\ Audio!List!Capped(at) = p
    BY <1>1, <1>3, <2>1
  <2>3. samples' = Audio!Take(samples, p) \o s \o Audio!Skip(samples, p)
    BY <1>4, <1>7, <2>2 DEF Audio!List!InsertAt
  <2>4. Ring(vector') /\ Audio!Contents(vector') = Between(samples, s, p)
    BY <1>1, <1>7, <2>1, PutAt
  <2> QED
    BY <2>3, <2>4 DEF Between
<1>8. ASSUME NEW s \in Audio!Pieces, NEW at \in 0 .. MaxSize,
             vector' = Audio!OverwriteAt(vector, s, at), Audio!List!OverwriteAt(s, at)
      PROVE  Ring(vector') /\ Audio!Contents(vector') = samples'
  <2> DEFINE size == Audio!Size(vector)
             p == IF size < at THEN size ELSE at
             q == IF p + Len(s) < Len(samples) THEN p + Len(s) ELSE Len(samples)
  <2>1. at \in Nat /\ s \in Seq(Int) /\ Len(s) \in Nat
    BY AudioAssumption, PieceIsList
  <2>2. p \in Nat /\ Audio!List!Capped(at) = p
    BY <1>1, <1>3, <2>1
  <2>3. q \in Int /\ Audio!List!Capped(p + Len(s)) = q
    BY <1>1, <2>1, <2>2 DEF Audio!List!Capped
  <2>4. samples' = Audio!Take(samples, p) \o s \o Audio!Skip(samples, q)
    <3> HIDE DEF p, q
    <3>1. samples' = Audio!List!Front(p) \o s \o Audio!List!Behind(q)
      BY <1>8, <2>2, <2>3 DEF Audio!List!OverwriteAt
    <3>2. /\ Audio!List!Front(p) = Audio!Take(samples, p)
          /\ Audio!List!Behind(q) = Audio!Skip(samples, q)
      BY <1>4, <2>2, <2>3
    <3> QED
      BY <3>1, <3>2
  <2>5. Ring(vector') /\ Audio!Contents(vector') = Laid(samples, s, p)
    BY <1>1, <1>8, <2>1, Overwritten
  <2> QED
    BY <2>4, <2>5 DEF Laid
<1>9. ASSUME NEW s \in Audio!Pieces, NEW n \in 0 .. Audio!Lesser(Len(s), Audio!Size(vector)),
             vector' = Audio!CrossFade(vector, s, n), Audio!List!CrossFade(s, n)
      PROVE  Ring(vector') /\ Audio!Contents(vector') = samples'
  <2>1. s \in Seq(Int) /\ Len(s) \in Nat
    BY PieceIsList
  <2>2. n \in Nat /\ n <= Len(s) /\ n <= Audio!Size(vector)
    BY <1>1, <2>1 DEF Audio!Lesser
  <2>3. Ring(vector') /\ Audio!Contents(vector') = Mixed(samples, s, n) \o Audio!Skip(s, n)
    BY <1>1, <1>9, <2>1, <2>2, CrossFaded
  <2>4. samples' = (Audio!List!Front(Len(samples) - n) \o Mix(samples, s, n)) \o Audio!Skip(s, n)
    BY <1>9 DEF Audio!List!CrossFade, Mix, Audio!Faded, Audio!Skip
  <2>5. Audio!List!Front(Len(samples) - n) = Audio!Take(samples, Len(samples) - n)
    BY DEF Audio!List!Front, Audio!Take
  <2> QED
    BY <2>3, <2>4, <2>5 DEF Mixed
<1>10. ASSUME NEW n \in 0 .. MaxSize + 1,
              vector' = Audio!PopFront(vector, n), Audio!List!PopFront(n)
       PROVE  Ring(vector') /\ Audio!Contents(vector') = samples'
  <2> DEFINE m == IF n < Audio!Size(vector) THEN n ELSE Audio!Size(vector)
  <2>1. n \in Nat
    BY AudioAssumption
  <2>2. m \in Int /\ Audio!List!Capped(n) = m
    BY <1>1, <1>3, <2>1
  <2>3. samples' = Audio!Skip(samples, m)
    BY <1>4, <1>10, <2>2 DEF Audio!List!PopFront
  <2> QED
    BY <1>1, <1>10, <2>1, <2>3, PoppedFront
<1>11. ASSUME NEW n \in 0 .. MaxSize + 1,
              vector' = Audio!PopBack(vector, n), Audio!List!PopBack(n)
       PROVE  Ring(vector') /\ Audio!Contents(vector') = samples'
  <2> DEFINE size == Audio!Size(vector)
             m == IF n < size THEN n ELSE size
             left == size - m
  <2>1. n \in Nat
    BY AudioAssumption
  <2>2. left \in Int /\ Audio!List!Capped(n) = m
    BY <1>1, <1>3, <2>1
  <2>3. samples' = Audio!Take(samples, left)
    <3>1. samples' = Audio!List!Front(left)
      BY <1>1, <1>11, <2>2 DEF Audio!List!PopBack
    <3> QED
      BY <1>4, <2>2, <3>1
  <2> QED
    BY <1>1, <1>11, <2>1, <2>3, PoppedBack
<1>12. ASSUME NEW n \in 0 .. MaxSize + 1,
              vector' = Audio!Extend(vector, n), Audio!List!PushBack(Audio!Zeros(n))
       PROVE  Ring(vector') /\ Audio!Contents(vector') = samples'
  <2>1. n \in Nat
    BY AudioAssumption
  <2> QED
    BY <1>1, <1>12, <2>1, Extended DEF Audio!List!PushBack
<1>13. ASSUME vector' = Audio!Clear(vector), Audio!List!PopFront(Len(samples))
       PROVE  Ring(vector') /\ Audio!Contents(vector') = samples'
  <2> DEFINE l == Len(samples)
  <2>1. l \in Nat /\ l \in 0 .. l
    BY <1>1
  <2>2. samples' = Audio!Skip(samples, l)
    <3>1. Audio!List!Capped(l) = l
      BY <1>1, <2>1 DEF Audio!List!Capped
    <3> QED
      BY <1>4, <1>13, <2>1, <3>1 DEF Audio!List!PopFront
  <2>3. Audio!Skip(samples, l) \in Seq(Int) /\ Len(Audio!Skip(samples, l)) = l - l
    BY <1>1, <2>1, Parted
  <2>4. samples' = <<>>
    BY <2>1, <2>2, <2>3, EmptySeq
  <2> QED
    BY <1>1, <1>13, <2>4, Cleared
<1>14. CASE UNCHANGED <<vector, samples>>
  BY <1>1, <1>14
<1> QED
  BY <1>5, <1>6, <1>7, <1>8, <1>9, <1>10, <1>11, <1>12, <1>13, <1>14 DEF Audio!Next

\* A vector is the list its operations make: none of PushBack, PushFront, InsertAt,
\* OverwriteAt, CrossFade, Extend, the Pops and Clear of audio_vector.cc loses, repeats
\* or moves a sample, for samples and pieces of any number and size.
THEOREM VectorIsItsSamples == Audio!Spec => []VectorIsList
<1>1. Audio!Spec => []VectorInv
  BY VectorIsEmpty, VectorInductive, PTL DEF Audio!Spec
<1>2. VectorInv => VectorIsList
  BY DEF VectorInv, VectorIsList
<1> QED
  BY <1>1, <1>2, PTL

-----------------------------------------------------------------------------
(* sync_buffer.cc.  Its ring is that of audio_vector.cc again, under other   *)
(* constants, on which the operations do not depend.                         *)

\* The vector inside the sync buffer is the same.
LEMMA SameCopies ==
  /\ \A v : Sync!V!Size(v) = Audio!Size(v)
  /\ \A v, length, position : Sync!V!CopyTo(v, length, position) = Audio!CopyTo(v, length, position)
  /\ \A v : Sync!V!Contents(v) = Audio!Contents(v)
  /\ \A s, n : Sync!V!Take(s, n) = Audio!Take(s, n)
  /\ \A s, n : Sync!V!Skip(s, n) = Audio!Skip(s, n)
  /\ \A n : Sync!V!Zeros(n) = Audio!Zeros(n)
  /\ \A v, n : Sync!V!Reserve(v, n) = Audio!Reserve(v, n)
  /\ \A v, n : Sync!V!PopFront(v, n) = Audio!PopFront(v, n)
  /\ \A v, n : Sync!V!PopBack(v, n) = Audio!PopBack(v, n)
  /\ \A v : Sync!V!Clear(v) = Audio!Clear(v)
  /\ \A n : Sync!V!NewVector(n) = Audio!NewVector(n)
<1>1. \A v : Sync!V!Size(v) = Audio!Size(v)
  BY DEF Sync!V!Size, Audio!Size
<1>2. \A v, length, position :
        Sync!V!CopyTo(v, length, position) = Audio!CopyTo(v, length, position)
  BY DEF Sync!V!CopyTo, Audio!CopyTo, Sync!V!Size, Audio!Size, Sync!V!Lesser, Audio!Lesser
<1>3. \A v : Sync!V!Contents(v) = Audio!Contents(v)
  BY <1>1, <1>2 DEF Sync!V!Contents, Audio!Contents
<1>4. /\ \A s, n : Sync!V!Take(s, n) = Audio!Take(s, n)
      /\ \A s, n : Sync!V!Skip(s, n) = Audio!Skip(s, n)
  BY DEF Sync!V!Take, Audio!Take, Sync!V!Skip, Audio!Skip
<1>5. \A n : Sync!V!Zeros(n) = Audio!Zeros(n)
  BY DEF Sync!V!Zeros, Audio!Zeros
<1>6. \A v, n : Sync!V!Reserve(v, n) = Audio!Reserve(v, n)
  BY DEF Sync!V!Reserve, Audio!Reserve, Sync!V!Contents, Audio!Contents,
         Sync!V!CopyTo, Audio!CopyTo, Sync!V!Size, Audio!Size, Sync!V!Lesser, Audio!Lesser,
         Sync!V!memcpy, Audio!memcpy
<1>7. /\ \A v, n : Sync!V!PopFront(v, n) = Audio!PopFront(v, n)
      /\ \A v, n : Sync!V!PopBack(v, n) = Audio!PopBack(v, n)
      /\ \A v : Sync!V!Clear(v) = Audio!Clear(v)
  BY DEF Sync!V!PopFront, Audio!PopFront, Sync!V!PopBack, Audio!PopBack, Sync!V!Size, Audio!Size,
         Sync!V!Lesser, Audio!Lesser, Sync!V!Clear, Audio!Clear
<1>8. \A n : Sync!V!NewVector(n) = Audio!NewVector(n)
  BY DEF Sync!V!NewVector, Audio!NewVector, Sync!V!Vector, Audio!Vector
<1> QED
  BY <1>1, <1>2, <1>3, <1>4, <1>5, <1>6, <1>7, <1>8

\* And so do those that put samples in.
LEMMA SameVector ==
  /\ \A v, s : Sync!V!PushBack(v, s) = Audio!PushBack(v, s)
  /\ \A v, s : Sync!V!PushFront(v, s) = Audio!PushFront(v, s)
  /\ \A v, s, at : Sync!V!InsertAt(v, s, at) = Audio!InsertAt(v, s, at)
  /\ \A v, n, at : Sync!V!InsertZerosAt(v, n, at) = Audio!InsertZerosAt(v, n, at)
  /\ \A v, n : Sync!V!Extend(v, n) = Audio!Extend(v, n)
  /\ \A v, s, at : Sync!V!OverwriteAt(v, s, at) = Audio!OverwriteAt(v, s, at)
<1>1. \A v, s : Sync!V!PushBack(v, s) = Audio!PushBack(v, s)
  <2> TAKE v, s
  <2> DEFINE n == Audio!Size(v) + Len(s)
             r == Audio!Reserve(v, n)
             put == [r EXCEPT !.array = Audio!Wrapped(r, r.end, s),
                              !.end = (@ + Len(s)) % r.capacity]
  <2>1. Audio!PushBack(v, s) = put
    BY DEF Audio!PushBack
  <2>2. Sync!V!Reserve(v, Sync!V!Size(v) + Len(s)) = r
    BY SameCopies
  <2> HIDE DEF n, r
  <2>3. Sync!V!PushBack(v, s) = [r EXCEPT !.array = Sync!V!Wrapped(r, r.end, s),
                                          !.end = (@ + Len(s)) % r.capacity]
    BY <2>2 DEF Sync!V!PushBack
  <2>4. Sync!V!Wrapped(r, r.end, s) = Audio!Wrapped(r, r.end, s)
    BY DEF Sync!V!Wrapped, Audio!Wrapped, Sync!V!Lesser, Audio!Lesser, Sync!V!memcpy, Audio!memcpy,
           Sync!V!Take, Audio!Take, Sync!V!Skip, Audio!Skip
  <2> QED
    BY <2>1, <2>3, <2>4
<1>2. \A v, s : Sync!V!PushFront(v, s) = Audio!PushFront(v, s)
  <2> TAKE v, s
  <2> DEFINE n == Audio!Size(v) + Len(s)
             r == Audio!Reserve(v, n)
             rest == Len(s) - Audio!Lesser(Len(s), r.begin)
             low == Audio!Greater(r.begin - Len(s), 0)
  <2>1. Audio!PushFront(v, s)
          = [r EXCEPT !.array = Audio!memcpy(Audio!memcpy(@, low, Audio!Skip(s, rest)),
                                             r.capacity - rest, Audio!Take(s, rest)),
                      !.begin = (@ + r.capacity - Len(s)) % r.capacity]
    BY DEF Audio!PushFront
  <2>2. Sync!V!Reserve(v, Sync!V!Size(v) + Len(s)) = r
    BY SameCopies
  <2> HIDE DEF n, r
  <2>3. Sync!V!PushFront(v, s)
          = [r EXCEPT !.array = Sync!V!memcpy(Sync!V!memcpy(@, low, Sync!V!Skip(s, rest)),
                                              r.capacity - rest, Sync!V!Take(s, rest)),
                      !.begin = (@ + r.capacity - Len(s)) % r.capacity]
    BY <2>2 DEF Sync!V!PushFront, Sync!V!Lesser, Sync!V!Greater, Audio!Lesser, Audio!Greater
  <2> QED
    BY <2>1, <2>3 DEF Sync!V!memcpy, Audio!memcpy, Sync!V!Take, Audio!Take, Sync!V!Skip, Audio!Skip
<1>3. \A v, s, p : Sync!V!InsertByPushBack(v, s, p) = Audio!InsertByPushBack(v, s, p)
  BY <1>1, SameCopies DEF Sync!V!InsertByPushBack, Audio!InsertByPushBack
<1>4. \A v, s, p : Sync!V!InsertByPushFront(v, s, p) = Audio!InsertByPushFront(v, s, p)
  BY <1>2, SameCopies DEF Sync!V!InsertByPushFront, Audio!InsertByPushFront
<1>5. \A v, s, at : Sync!V!InsertAt(v, s, at) = Audio!InsertAt(v, s, at)
  BY <1>3, <1>4, SameCopies DEF Sync!V!InsertAt, Audio!InsertAt, Sync!V!Lesser, Audio!Lesser
<1>6. \A v, n, at : Sync!V!InsertZerosAt(v, n, at) = Audio!InsertZerosAt(v, n, at)
  BY <1>5, SameCopies DEF Sync!V!InsertZerosAt, Audio!InsertZerosAt
<1>7. \A v, n : Sync!V!Extend(v, n) = Audio!Extend(v, n)
  BY <1>3, SameCopies DEF Sync!V!Extend, Audio!Extend
<1>8. \A v, s, at : Sync!V!OverwriteAt(v, s, at) = Audio!OverwriteAt(v, s, at)
  <2> TAKE v, s, at
  <2> DEFINE p == Audio!Lesser(Audio!Size(v), at)
             size == Audio!Greater(Audio!Size(v), p + Len(s))
             r == Audio!Reserve(v, size)
             from == (r.begin + p) % r.capacity
  <2>1. Audio!OverwriteAt(v, s, at)
          = IF s = <<>> THEN v
            ELSE [r EXCEPT !.array = Audio!Wrapped(r, from, s),
                           !.end = (r.begin + size) % r.capacity]
    BY DEF Audio!OverwriteAt
  <2>2. Sync!V!OverwriteAt(v, s, at)
          = IF s = <<>> THEN v
            ELSE [r EXCEPT !.array = Sync!V!Wrapped(r, from, s),
                           !.end = (r.begin + size) % r.capacity]
    <3>1. Sync!V!Lesser(Sync!V!Size(v), at) = p
      BY SameCopies DEF Sync!V!Lesser, Audio!Lesser
    <3> HIDE DEF p
    <3>2. Sync!V!Greater(Sync!V!Size(v), p + Len(s)) = size
      BY SameCopies DEF Sync!V!Greater, Audio!Greater
    <3> HIDE DEF size
    <3>3. Sync!V!Reserve(v, size) = r
      BY SameCopies
    <3> HIDE DEF r
    <3> QED
      BY <3>1, <3>2, <3>3 DEF Sync!V!OverwriteAt
  <2> HIDE DEF r, from, size
  <2>3. Sync!V!Wrapped(r, from, s) = Audio!Wrapped(r, from, s)
    BY DEF Sync!V!Wrapped, Audio!Wrapped, Sync!V!Lesser, Audio!Lesser, Sync!V!memcpy, Audio!memcpy,
           Sync!V!Take, Audio!Take, Sync!V!Skip, Audio!Skip
  <2> QED
    BY <2>1, <2>2, <2>3
<1> QED
  BY <1>1, <1>2, <1>5, <1>6, <1>7, <1>8

\* What is taken off the front of two lists joined.
LEMMA SkipJoined ==
  ASSUME NEW a \in Seq(Int), NEW b \in Seq(Int), NEW n \in 0 .. Len(a) + Len(b)
  PROVE  Audio!Skip(a \o b, n) =
           IF n <= Len(a) THEN Audio!Skip(a, n) \o b ELSE Audio!Skip(b, n - Len(a))
<1> DEFINE la == Len(a)
           lb == Len(b)
           joined == a \o b
           rest == Audio!Skip(joined, n)
<1>1. la \in Nat /\ lb \in Nat /\ n \in 0 .. la + lb /\ n \in Nat
  OBVIOUS
<1>2. /\ joined \in Seq(Int) /\ Len(joined) = la + lb
      /\ \A i \in 1 .. la + lb : joined[i] = IF i <= la THEN a[i] ELSE b[i - la]
  BY ConcatProperties
<1> HIDE DEF la, lb, joined
<1>3. /\ rest \in Seq(Int) /\ Len(rest) = (la + lb) - n
      /\ \A i \in 1 .. (la + lb) - n : rest[i] = joined[n + i]
  <2>1. n \in 0 .. Len(joined)
    BY <1>1, <1>2
  <2>2. /\ rest \in Seq(Int) /\ Len(rest) = Len(joined) - n
        /\ \A i \in 1 .. Len(joined) - n : rest[i] = joined[n + i]
    BY <1>2, <2>1, Parted
  <2> HIDE DEF rest
  <2> QED
    BY <1>2, <2>2
<1> HIDE DEF rest
<1>4. CASE n <= la
  <2> DEFINE front == Audio!Skip(a, n)
             new == front \o b
  <2>1. /\ front \in Seq(Int) /\ Len(front) = la - n
        /\ \A i \in 1 .. la - n : front[i] = a[n + i]
    <3>1. n \in 0 .. Len(a)
      BY <1>1, <1>4 DEF la
    <3> QED
      BY <3>1, Parted DEF la
  <2> HIDE DEF front
  <2>2. /\ new \in Seq(Int) /\ Len(new) = Len(front) + lb
        /\ \A i \in 1 .. Len(front) + lb :
             new[i] = IF i <= Len(front) THEN front[i] ELSE b[i - Len(front)]
    BY <2>1, ConcatProperties DEF lb
  <2> HIDE DEF new
  <2>3. Len(new) = Len(rest) /\ Len(front) + lb = (la + lb) - n
    BY <1>1, <1>3, <1>4, <2>1, <2>2
  <2>4. ASSUME NEW i \in 1 .. (la + lb) - n PROVE rest[i] = new[i]
    <3>1. i \in Int /\ n + i \in 1 .. la + lb
      BY <1>1
    <3>2. rest[i] = IF n + i <= la THEN a[n + i] ELSE b[(n + i) - la]
      BY <1>2, <1>3, <3>1
    <3>3. new[i] = IF i <= la - n THEN front[i] ELSE b[i - (la - n)]
      BY <2>1, <2>2, <2>3
    <3>4. CASE n + i <= la
      <4>1. i \in 1 .. la - n
        BY <1>1, <3>1, <3>4
      <4> QED
        BY <2>1, <3>2, <3>3, <3>4, <4>1
    <3>5. CASE ~(n + i <= la)
      <4>1. ~(i <= la - n) /\ i - (la - n) = (n + i) - la
        BY <1>1, <3>1, <3>5
      <4> QED
        BY <3>2, <3>3, <3>5, <4>1
    <3> QED
      BY <3>4, <3>5
  <2>5. rest = new
    BY <1>3, <2>2, <2>3, <2>4, SeqEqual
  <2> QED
    BY <1>4, <2>5 DEF rest, joined, la, new, front
<1>5. CASE ~(n <= la)
  <2> DEFINE m == n - la
             new == Audio!Skip(b, m)
  <2>1. m \in 0 .. lb /\ lb - m = (la + lb) - n /\ m \in Nat
    BY <1>1, <1>5
  <2>m. m = n - la
    OBVIOUS
  <2> HIDE DEF m
  <2>2. /\ new \in Seq(Int) /\ Len(new) = lb - m
        /\ \A i \in 1 .. lb - m : new[i] = b[m + i]
    BY <2>1, Parted DEF lb
  <2> HIDE DEF new
  <2>3. ASSUME NEW i \in 1 .. (la + lb) - n PROVE rest[i] = new[i]
    <3>1. n + i \in 1 .. la + lb /\ ~(n + i <= la) /\ (n + i) - la = m + i /\ i \in 1 .. lb - m
      BY <1>1, <1>5, <2>1, <2>m
    <3>2. joined[n + i] = b[(n + i) - la]
      BY <1>2, <3>1
    <3> QED
      BY <1>3, <2>2, <3>1, <3>2
  <2>4. rest = new
    BY <1>3, <2>1, <2>2, <2>3, SeqEqual
  <2> QED
    BY <1>5, <2>4 DEF rest, joined, la, new, m
<1> QED
  BY <1>4, <1>5

-----------------------------------------------------------------------------
(* The invariant of the buffer: its ring holds what was played and, behind   *)
(* it, what is to be played, and the index is where they meet.               *)

WindowInv ==
  /\ Ring(channel)
  /\ past \in Seq(Int) /\ future \in Seq(Int)
  /\ Len(past) = next_index
  /\ Audio!Contents(channel) = past \o future
  /\ Audio!Size(channel) = Length
  /\ dtmf_index \in 0 .. Length
  /\ mark = dtmf_index

LEMMA WindowNumbers ==
  ASSUME WindowInv
  PROVE  LET list == past \o future
         IN  /\ list \in Seq(Int) /\ Len(list) = Length
             /\ Length \in Nat /\ MaxPiece \in Nat /\ SyncValue \subseteq Int
             /\ next_index \in 0 .. Length
             /\ Len(future) = Length - next_index /\ Len(future) \in Nat
<1>1. past \o future \in Seq(Int) /\ Len(past \o future) = Len(past) + Len(future)
  BY ConcatProperties DEF WindowInv
<1>2. Len(past \o future) = Length
  BY ContentsOf DEF WindowInv
<1>3. Len(past) \in Nat /\ Len(future) \in Nat /\ Len(past) = next_index
  BY DEF WindowInv
<1> QED
  BY <1>1, <1>2, <1>3, AudioAssumption

\* What is left of the invariant when the samples are those of a ring.
LEMMA WindowFrom ==
  ASSUME NEW w, NEW list \in Seq(Int), Ring(w), Audio!Contents(w) = list, Len(list) = Length,
         channel' = w, past' \in Seq(Int), future' \in Seq(Int), past' \o future' = list,
         Len(past') = next_index', dtmf_index' \in 0 .. Length, mark' = dtmf_index'
  PROVE  WindowInv'
<1>1. Audio!Size(w) = Length
  BY ContentsOf
<1>2. Ring(channel)' = Ring(w)
  BY DEF Ring
<1>3. Audio!Contents(channel)' = Audio!Contents(w) /\ Audio!Size(channel)' = Audio!Size(w)
  BY DEF Audio!Contents, Audio!CopyTo, Audio!Size
<1> QED
  BY <1>1, <1>2, <1>3 DEF WindowInv

\* The same with a list parted at the index.
LEMMA WindowParted ==
  ASSUME NEW w, NEW list \in Seq(Int), Ring(w), Audio!Contents(w) = list, Len(list) = Length,
         channel' = w, NEW n \in 0 .. Length, next_index' = n,
         past' = Audio!Take(list, n), future' = Audio!Skip(list, n),
         dtmf_index' \in 0 .. Length, mark' = dtmf_index'
  PROVE  WindowInv'
<1>1. n \in 0 .. Len(list)
  OBVIOUS
<1>2. /\ Audio!Take(list, n) \in Seq(Int) /\ Len(Audio!Take(list, n)) = n
      /\ Audio!Skip(list, n) \in Seq(Int) /\ Audio!Take(list, n) \o Audio!Skip(list, n) = list
  BY <1>1, Parted
<1> QED
  BY <1>2, WindowFrom

\* The little operators of the buffer and of what it promises.
LEMMA WindowOperators ==
  /\ \A s, n : Sync!Window!Cut(s, n) = Audio!Take(s, n) /\ Sync!Window!Rest(s, n) = Audio!Skip(s, n)
  /\ \A m, n : Sync!Window!Most(m, n) = IF m < n THEN m ELSE n
  /\ \A m, n : Sync!Lesser(m, n) = IF m < n THEN m ELSE n
  /\ \A n : Sync!Window!Floor(n) = IF n < 0 THEN 0 ELSE n
  /\ \A m, n : Sync!Less(m, n) = m - (IF m < n THEN m ELSE n)
BY DEF Sync!Window!Cut, Sync!Window!Rest, Audio!Take, Audio!Skip, Sync!Window!Most, Sync!Window!Floor,
       Sync!Lesser, Sync!Less

\* As many zeros as were asked for.
LEMMA ZerosMany ==
  ASSUME NEW n \in Nat
  PROVE  Audio!Zeros(n) \in Seq(Int) /\ Len(Audio!Zeros(n)) = n
BY DEF Audio!Zeros

\* The first buffer has played zeros and has nothing to play.
LEMMA WindowIsEmpty == Sync!Init => WindowInv
<1> SUFFICES ASSUME Sync!Init PROVE WindowInv
  OBVIOUS
<1> DEFINE v == Audio!NewVector(Length)
           zeros == [i \in 0 .. Length |-> 0]
<1>1. Length \in Nat
  BY AudioAssumption
<1>2. v = [array |-> zeros, begin |-> 0, end |-> Length, capacity |-> Length + 1]
  <2>1. (Length + 1) - 1 = Length
    BY <1>1
  <2> QED
    BY <2>1 DEF Audio!NewVector, Audio!Vector
<1>3. v.array = zeros /\ v.begin = 0 /\ v.end = Length /\ v.capacity = Length + 1
  BY <1>2
<1>4. zeros \in [0 .. (Length + 1) - 1 -> Int]
  BY <1>1
<1>z. \A k \in 0 .. Length : zeros[k] = 0
  OBVIOUS
<1> HIDE DEF v, zeros
<1>5. Ring(v)
  BY <1>1, <1>2, <1>3, <1>4 DEF Ring
<1>6. Audio!Size(v) = Length
  BY <1>1, <1>3, <1>5, RingSize DEF Turned
<1> DEFINE list == Audio!Zeros(Length)
<1>7. list \in Seq(Int) /\ Len(list) = Length /\ \A i \in 1 .. Length : list[i] = 0
  BY <1>1 DEF Audio!Zeros
<1>8. list = [i \in 1 .. Length |-> 0]
  BY DEF Audio!Zeros
<1> HIDE DEF list
<1>9. ASSUME NEW i \in 1 .. Len(list) PROVE Cell(v, i - 1) = list[i]
  <2>1. i - 1 \in 0 .. Length /\ 0 + (i - 1) = i - 1 /\ i - 1 < Length + 1 /\ i \in 1 .. Length
    BY <1>1, <1>7
  <2>2. Cell(v, i - 1) = zeros[i - 1]
    BY <1>3, <2>1 DEF Cell, Turned
  <2> QED
    BY <1>7, <1>z, <2>1, <2>2
<1>10. Audio!Contents(v) = list
  BY <1>5, <1>6, <1>7, <1>9, Tells
<1>11. /\ channel = v /\ next_index = Length /\ dtmf_index = 0
       /\ past = list /\ future = <<>> /\ mark = 0
  BY <1>8, SameCopies DEF Sync!Init, Sync!Window!Init, v
<1>12. list \o <<>> = list
  BY <1>7, ConcatEmptySeq
<1> QED
  BY <1>1, <1>5, <1>6, <1>7, <1>10, <1>11, <1>12, EmptySeq DEF WindowInv

\* A piece given to the buffer is a list of numbers.
LEMMA SyncPieceIsList ==
  ASSUME NEW n \in Nat, NEW s \in [1 .. n -> SyncValue]
  PROVE  s \in Seq(Int) /\ Len(s) = n
<1>1. s \in [1 .. n -> Int]
  BY AudioAssumption
<1> QED
  BY <1>1, SeqOfFunction

\* PushBack: the oldest samples leave, played ones first.
LEMMA PushBackKeepsWindow ==
  ASSUME WindowInv, NEW s \in Seq(Int), Sync!PushBack(s), Sync!Window!Add(s)
  PROVE  WindowInv'
<1> DEFINE n == Len(s)
           u == Audio!PushBack(channel, s)
           w == Audio!PopFront(u, n)
           f == future \o s
           all == past \o f
           new == Audio!Skip(all, n)
           cut == IF n < next_index THEN n ELSE next_index
           gone == Len(f) - (Length - Len(past'))
<1>1. n \in Nat
  OBVIOUS
<1>2. /\ Length \in Nat /\ next_index \in 0 .. Length /\ next_index \in Nat
      /\ Len(future) = Length - next_index
      /\ past \in Seq(Int) /\ future \in Seq(Int) /\ Len(past) = next_index
      /\ dtmf_index \in 0 .. Length /\ mark = dtmf_index
      /\ Ring(channel) /\ Audio!Contents(channel) = past \o future
  BY WindowNumbers DEF WindowInv
<1>3. f \in Seq(Int) /\ Len(f) = (Length - next_index) + n
  BY <1>2, ConcatProperties
<1>4. (past \o future) \o s = all
  <2>1. past \in Seq(Int) /\ future \in Seq(Int) /\ s \in Seq(Int)
    BY <1>2
  <2>2. (past \o future) \o s = past \o (future \o s)
    BY <2>1, JoinedThree
  <2> QED
    BY <2>2
<1>5. channel' = w
  BY SameCopies, SameVector DEF Sync!PushBack
<1>6. next_index' = next_index - (IF next_index < n THEN next_index ELSE n)
      /\ dtmf_index' = dtmf_index - (IF dtmf_index < n THEN dtmf_index ELSE n)
  BY WindowOperators DEF Sync!PushBack
<1>7. /\ past' = Audio!Skip(past, cut)
      /\ future' = Audio!Skip(f, IF gone < 0 THEN 0 ELSE gone)
      /\ mark' = IF mark - n < 0 THEN 0 ELSE mark - n
  BY <1>2, WindowOperators DEF Sync!Window!Add
<1>8. Ring(u) /\ Audio!Contents(u) = all
  BY <1>2, <1>4, PushedBack
<1> HIDE DEF n, f, u
<1>9. all \in Seq(Int) /\ Len(all) = Length + n
  <2>1. all \in Seq(Int) /\ Len(all) = Len(past) + Len(f)
    BY <1>2, <1>3, ConcatProperties
  <2> HIDE DEF all
  <2> QED
    BY <1>1, <1>2, <1>3, <2>1
<1>10. Audio!Size(u) = Length + n
  BY <1>8, <1>9, ContentsOf
<1>11. Ring(w) /\ Audio!Contents(w) = new
  <2>1. (IF n < Audio!Size(u) THEN n ELSE Audio!Size(u)) = n
    BY <1>1, <1>2, <1>10
  <2>2. Ring(w) /\ Audio!Contents(w)
          = Audio!Skip(Audio!Contents(u), IF n < Audio!Size(u) THEN n ELSE Audio!Size(u))
    BY <1>1, <1>8, PoppedFront
  <2> QED
    BY <1>8, <2>1, <2>2
<1> HIDE DEF w
<1>12. new \in Seq(Int) /\ Len(new) = Length
  <2>1. n \in 0 .. Len(all)
    BY <1>1, <1>2, <1>9
  <2>2. new \in Seq(Int) /\ Len(new) = Len(all) - n
    BY <1>9, <2>1, Parted
  <2> HIDE DEF all, new
  <2> QED
    BY <1>1, <1>2, <1>9, <2>2
<1>13. new = IF n <= next_index THEN Audio!Skip(past, n) \o f ELSE Audio!Skip(f, n - next_index)
  <2>1. n \in 0 .. Len(past) + Len(f)
    BY <1>1, <1>2, <1>3
  <2> QED
    BY <1>2, <1>3, <2>1, SkipJoined
<1> HIDE DEF new, all
<1>14. dtmf_index' \in 0 .. Length /\ mark' = dtmf_index'
  BY <1>1, <1>2, <1>6, <1>7
<1>15. cut \in 0 .. Len(past) /\ cut \in Nat
  BY <1>1, <1>2
<1>16. past' \in Seq(Int) /\ Len(past') = next_index - cut
  BY <1>2, <1>7, <1>15, Parted
<1>17. CASE n <= next_index
  <2>1. cut = n /\ next_index' = next_index - n
    BY <1>1, <1>2, <1>6, <1>17
  <2> HIDE DEF cut
  <2>2. gone = 0
    BY <1>1, <1>2, <1>3, <1>16, <2>1
  <2> HIDE DEF gone
  <2>3. future' = Audio!Skip(f, 0)
    BY <1>7, <2>2
  <2>4. Audio!Skip(f, 0) = f
    BY <1>3, SubSeqFull DEF Audio!Skip
  <2>5. past' \o future' = new
    BY <1>7, <1>13, <1>17, <2>1, <2>3, <2>4
  <2> QED
    BY <1>3, <1>5, <1>11, <1>12, <1>14, <1>16, <2>1, <2>3, <2>4, <2>5, WindowFrom
<1>18. CASE ~(n <= next_index)
  <2>1. cut = next_index /\ next_index' = 0
    BY <1>1, <1>2, <1>6, <1>18
  <2> HIDE DEF cut
  <2>2. gone = n - next_index /\ n - next_index \in 0 .. Len(f) /\ Len(past') = 0
    BY <1>1, <1>2, <1>3, <1>16, <1>18, <2>1
  <2> HIDE DEF gone
  <2>3. future' = Audio!Skip(f, n - next_index)
    BY <1>7, <2>2
  <2>4. future' \in Seq(Int)
    BY <1>3, <2>2, <2>3, Parted
  <2>5. past' = <<>>
    BY <1>16, <2>2, EmptySeq
  <2>6. past' \o future' = new
    BY <1>13, <1>18, <2>3, <2>4, <2>5, ConcatEmptySeq
  <2> QED
    BY <1>5, <1>11, <1>12, <1>14, <1>16, <2>1, <2>2, <2>4, <2>6, WindowFrom
<1> QED
  BY <1>17, <1>18

\* ReplaceAtIndex: in place, as far as there is room.
LEMMA ReplaceKeepsWindow ==
  ASSUME WindowInv, NEW s \in Seq(Int), NEW at \in 0 .. Length,
         Sync!ReplaceAtIndex(s, at), Sync!Window!Replace(s, at)
  PROVE  WindowInv'
<1> DEFINE list == past \o future
           n == IF Len(s) < Length - at THEN Len(s) ELSE Length - at
           t == Audio!Take(s, n)
           w == Audio!OverwriteAt(channel, t, at)
           new == Audio!Take(list, at) \o t \o Audio!Skip(list, at + n)
<1>1. /\ Length \in Nat /\ next_index \in 0 .. Length
      /\ list \in Seq(Int) /\ Len(list) = Length
      /\ dtmf_index \in 0 .. Length /\ mark = dtmf_index
      /\ Ring(channel) /\ Audio!Contents(channel) = list /\ Audio!Size(channel) = Length
      /\ Len(past) = next_index
  BY WindowNumbers DEF WindowInv
<1>2. Len(s) \in Nat /\ at \in Nat
  BY <1>1
<1>3. (IF at < Length THEN at ELSE Length) = at /\ (IF Length < at THEN Length ELSE at) = at
  BY <1>1
<1>4. Sync!Lesser(at, Sync!V!Size(channel)) = at
  BY <1>1, <1>3, SameCopies, WindowOperators
<1>5. channel' = w /\ next_index' = next_index /\ dtmf_index' = dtmf_index
  <2>1. Sync!Lesser(Len(s), Sync!V!Size(channel) - at) = n
    BY <1>1, SameCopies, WindowOperators
  <2> HIDE DEF n
  <2> QED
    BY <1>4, <2>1, SameCopies, SameVector DEF Sync!ReplaceAtIndex
<1>6. /\ past' = Audio!Take(new, Len(past)) /\ future' = Audio!Skip(new, Len(past))
      /\ mark' = mark
  <2>1. Sync!Window!Most(Len(s), Length - at) = n
    BY WindowOperators
  <2> HIDE DEF n
  <2> QED
    BY <2>1, WindowOperators DEF Sync!Window!Replace
<1>7. n \in 0 .. Len(s) /\ n \in Nat /\ at + n <= Length
  BY <1>1, <1>2
<1> HIDE DEF n, list
<1>8. t \in Seq(Int) /\ Len(t) = n
  BY <1>7, Parted
<1> HIDE DEF t, w
<1>9. Ring(w) /\ Audio!Contents(w) = Laid(list, t, at)
  BY <1>1, <1>2, <1>3, <1>8, Overwritten DEF w
<1>10. Laid(list, t, at) = new
  <2>1. (IF at + Len(t) < Len(list) THEN at + Len(t) ELSE Len(list)) = at + n
    BY <1>1, <1>2, <1>7, <1>8
  <2> QED
    BY <2>1 DEF Laid
<1> HIDE DEF new
<1>11. new \in Seq(Int) /\ Len(new) = Length
  <2>1. at \in 0 .. Len(list) /\ ~(Len(list) < at + Len(t))
    BY <1>1, <1>2, <1>7, <1>8
  <2>2. Len(Laid(list, t, at)) = IF Len(list) < at + Len(t) THEN at + Len(t) ELSE Len(list)
    BY <1>1, <1>8, <2>1, LaidSamples
  <2>3. Laid(list, t, at) \in Seq(Int)
    BY <1>1, <1>8, <2>1, LaidSamples
  <2> QED
    BY <1>1, <1>10, <2>1, <2>2, <2>3
<1> QED
  BY <1>1, <1>5, <1>6, <1>9, <1>10, <1>11, WindowParted

\* GetNextAudioInterleaved moves the place alone.
LEMMA PlayKeepsWindow ==
  ASSUME WindowInv, NEW n \in Nat, Sync!GetNextAudioInterleaved(n), Sync!Window!Play(n)
  PROVE  WindowInv'
<1> DEFINE l == Len(future)
           k == IF n < l THEN n ELSE l
           a == Audio!Take(future, k)
           b == Audio!Skip(future, k)
<1>1. /\ Length \in Nat /\ next_index \in 0 .. Length /\ l = Length - next_index /\ l \in Nat
      /\ past \in Seq(Int) /\ future \in Seq(Int) /\ Len(past) = next_index
      /\ past \o future \in Seq(Int) /\ Len(past \o future) = Length
      /\ dtmf_index \in 0 .. Length /\ mark = dtmf_index
      /\ Ring(channel) /\ Audio!Contents(channel) = past \o future /\ Audio!Size(channel) = Length
  BY WindowNumbers DEF WindowInv
<1>2. channel' = channel /\ dtmf_index' = dtmf_index /\ mark' = mark
  BY DEF Sync!GetNextAudioInterleaved, Sync!Window!Play
<1>3. past' = past \o a /\ future' = b
  BY WindowOperators DEF Sync!Window!Play
<1>4. next_index' = next_index + k
  <2>1. Sync!FutureLength = l
    BY <1>1, SameCopies DEF Sync!FutureLength
  <2>2. (IF l < n THEN l ELSE n) = k
    BY <1>1
  <2>3. Sync!Lesser(l, n) = k
    BY <2>2, WindowOperators
  <2> QED
    BY <2>1, <2>3 DEF Sync!GetNextAudioInterleaved
<1>5. k \in 0 .. Len(future) /\ k \in Nat
  BY <1>1
<1> HIDE DEF k, l
<1>6. a \in Seq(Int) /\ b \in Seq(Int) /\ Len(a) = k /\ a \o b = future
  BY <1>1, <1>5, Parted
<1> HIDE DEF a, b
<1>7. past \o a \in Seq(Int) /\ Len(past \o a) = next_index + k
  <2>1. past \in Seq(Int) /\ a \in Seq(Int) /\ Len(past) = next_index /\ Len(a) = k
    BY <1>1, <1>6
  <2>2. past \o a \in Seq(Int) /\ Len(past \o a) = Len(past) + Len(a)
    BY <2>1, ConcatProperties
  <2> QED
    BY <2>1, <2>2
<1>8. (past \o a) \o b = past \o future
  <2>1. past \in Seq(Int) /\ a \in Seq(Int) /\ b \in Seq(Int)
    BY <1>1, <1>6
  <2>2. (past \o a) \o b = past \o (a \o b)
    BY <2>1, JoinedThree
  <2> QED
    BY <1>6, <2>2
<1> QED
  BY <1>1, <1>2, <1>3, <1>4, <1>6, <1>7, <1>8, WindowFrom

\* So does set_next_index.
LEMMA SeekKeepsWindow ==
  ASSUME WindowInv, NEW n \in 0 .. Length, Sync!Seek(n), Sync!Window!Seek(n)
  PROVE  WindowInv'
<1> DEFINE list == past \o future
<1>1. /\ Length \in Nat /\ list \in Seq(Int) /\ Len(list) = Length
      /\ dtmf_index \in 0 .. Length /\ mark = dtmf_index
      /\ Ring(channel) /\ Audio!Contents(channel) = list /\ Audio!Size(channel) = Length
  BY WindowNumbers DEF WindowInv
<1>2. channel' = channel /\ dtmf_index' = dtmf_index /\ mark' = mark
  BY DEF Sync!Seek, Sync!Window!Seek
<1>3. next_index' = n
  <2>1. (IF n < Length THEN n ELSE Length) = n
    BY <1>1
  <2>2. Sync!V!Size(channel') = Length
    BY <1>1, <1>2, SameCopies
  <2> QED
    BY <2>1, <2>2, WindowOperators DEF Sync!Seek, Sync!set_next_index
<1>4. past' = Audio!Take(list, n) /\ future' = Audio!Skip(list, n)
  BY WindowOperators DEF Sync!Window!Seek
<1> QED
  BY <1>1, <1>2, <1>3, <1>4, WindowParted

\* set_dtmf_index moves the mark alone.
LEMMA MarkKeepsWindow ==
  ASSUME WindowInv, NEW n \in 0 .. Length, Sync!Mark(n), Sync!Window!Mark(n)
  PROVE  WindowInv'
<1>1. /\ Length \in Nat /\ Ring(channel) /\ Audio!Size(channel) = Length
      /\ past \in Seq(Int) /\ future \in Seq(Int) /\ Len(past) = next_index
      /\ past \o future \in Seq(Int) /\ Len(past \o future) = Length
      /\ Audio!Contents(channel) = past \o future
  BY WindowNumbers DEF WindowInv
<1>2. channel' = channel /\ next_index' = next_index /\ mark' = n
      /\ past' = past /\ future' = future
  BY DEF Sync!Mark, Sync!Window!Mark
<1>3. dtmf_index' = n
  <2>1. (IF n < Length THEN n ELSE Length) = n
    BY <1>1
  <2>2. Sync!V!Size(channel') = Length
    BY <1>1, <1>2, SameCopies
  <2> QED
    BY <2>1, <2>2, WindowOperators DEF Sync!Mark, Sync!set_dtmf_index
<1> QED
  BY <1>1, <1>2, <1>3, WindowFrom

\* InsertZerosAtIndex: the newest leave for the zeros, and the place and the mark
\* go with their samples.
LEMMA InsertKeepsWindow ==
  ASSUME WindowInv, NEW zeros \in Nat, NEW at \in 0 .. Length,
         Sync!InsertZerosAtIndex(zeros, at), Sync!Window!Insert(zeros, at)
  PROVE  WindowInv'
<1> DEFINE list == past \o future
           n == IF zeros < Length - at THEN zeros ELSE Length - at
           left == Length - n
           short == Audio!PopBack(channel, n)
           w == Audio!InsertZerosAt(short, n, at)
           kept == Audio!Take(list, left)
           new == Audio!Take(kept, at) \o Audio!Zeros(n) \o Audio!Skip(kept, at)
           At(i) == IF i + n < Length THEN i + n ELSE Length
<1>1. /\ Length \in Nat /\ next_index \in 0 .. Length
      /\ list \in Seq(Int) /\ Len(list) = Length
      /\ dtmf_index \in 0 .. Length /\ mark = dtmf_index
      /\ Ring(channel) /\ Audio!Contents(channel) = list /\ Audio!Size(channel) = Length
      /\ Len(past) = next_index
  BY WindowNumbers DEF WindowInv
<1>2. at \in Nat /\ n \in Nat /\ n <= Length - at /\ left \in 0 .. Length /\ at <= left
  BY <1>1
<1>3. Sync!Lesser(at, Sync!V!Size(channel)) = at
  <2>1. (IF at < Length THEN at ELSE Length) = at
    BY <1>1
  <2> QED
    BY <1>1, <2>1, SameCopies, WindowOperators
<1>4. Sync!Lesser(zeros, Sync!V!Size(channel) - at) = n
  BY <1>1, SameCopies, WindowOperators
<1>5. Sync!Window!Most(zeros, Length - at) = n
  BY WindowOperators
<1> HIDE DEF n
<1>6. /\ channel' = w
      /\ IF next_index >= at THEN Sync!set_next_index(next_index + n)
         ELSE next_index' = next_index
      /\ IF dtmf_index > 0 /\ dtmf_index >= at THEN Sync!set_dtmf_index(dtmf_index + n)
         ELSE dtmf_index' = dtmf_index
  BY <1>3, <1>4, SameCopies, SameVector DEF Sync!InsertZerosAtIndex
<1> DEFINE next == IF Len(past) >= at THEN Sync!Window!Most(Len(past) + n, Length) ELSE Len(past)
<1>7. /\ past' = Audio!Take(new, next) /\ future' = Audio!Skip(new, next)
      /\ mark' = IF mark > 0 /\ mark >= at THEN Sync!Window!Most(mark + n, Length) ELSE mark
  BY <1>5, WindowOperators DEF Sync!Window!Insert, Audio!Zeros
<1>8. \A i \in Int : Sync!Window!Most(i + n, Length) = At(i)
  BY WindowOperators
<1> HIDE DEF list
<1>9. Ring(short) /\ Audio!Contents(short) = kept
  <2>1. Length - (IF n < Length THEN n ELSE Length) = left
    BY <1>1, <1>2
  <2>2. Ring(short) /\ Audio!Contents(short)
          = Audio!Take(Audio!Contents(channel),
                       Audio!Size(channel) - (IF n < Audio!Size(channel) THEN n ELSE Audio!Size(channel)))
    BY <1>1, <1>2, PoppedBack
  <2> QED
    BY <1>1, <2>1, <2>2
<1>10. kept \in Seq(Int) /\ Len(kept) = left
  BY <1>1, <1>2, Parted
<1>z. Audio!Zeros(n) \in Seq(Int) /\ Len(Audio!Zeros(n)) = n
  BY <1>2, ZerosMany
<1> HIDE DEF short, kept
<1>11. Audio!Size(short) = left
  BY <1>9, <1>10, ContentsOf
<1> DEFINE z == Audio!Zeros(n)
<1>12. Ring(w) /\ Audio!Contents(w) = new
  <2>1. (IF left < at THEN left ELSE at) = at
    BY <1>1, <1>2
  <2>2. w = Audio!InsertAt(short, z, at)
    BY DEF Audio!InsertZerosAt
  <2> HIDE DEF w, z
  <2>3. z \in Seq(Int)
    BY <1>z DEF z
  <2>4. Ring(w) /\ Audio!Contents(w) = Between(Audio!Contents(short), z,
                                        IF Audio!Size(short) < at THEN Audio!Size(short) ELSE at)
    BY <1>2, <1>9, <2>2, <2>3, PutAt
  <2> QED
    BY <1>9, <1>11, <2>1, <2>4 DEF Between, z
<1>13. new \in Seq(Int) /\ Len(new) = Length
  <2> DEFINE a == Audio!Take(kept, at)
             b == Audio!Skip(kept, at)
  <2>1. at \in 0 .. Len(kept)
    BY <1>1, <1>2, <1>10
  <2>2. a \in Seq(Int) /\ Len(a) = at /\ b \in Seq(Int) /\ Len(b) = left - at
    BY <1>10, <2>1, Parted
  <2> HIDE DEF a, b, z
  <2>3. z \in Seq(Int) /\ Len(z) = n
    BY <1>z DEF z
  <2>4. a \o z \in Seq(Int) /\ Len(a \o z) = at + n
    BY <2>2, <2>3, ConcatProperties
  <2> DEFINE front == a \o z
  <2> HIDE DEF front
  <2>5. front \in Seq(Int) /\ Len(front) = at + n
    BY <2>4 DEF front
  <2>6. front \o b \in Seq(Int) /\ Len(front \o b) = Len(front) + Len(b)
    BY <2>2, <2>5, ConcatProperties
  <2>7. Len(front) + Len(b) = Length
    BY <1>1, <1>2, <2>2, <2>5
  <2> QED
    BY <2>6, <2>7 DEF front, a, b, z
<1> HIDE DEF new, w, left
<1>14. Sync!V!Size(channel') = Length
  BY <1>6, <1>12, <1>13, ContentsOf, SameCopies
<1>15. \A i \in Int : Sync!Lesser(i + n, Sync!V!Size(channel')) = At(i)
  BY <1>14, WindowOperators
<1>16. next_index' = next /\ next \in 0 .. Length
  <2>1. next_index \in Int
    BY <1>1
  <2>2. next = IF next_index >= at THEN At(next_index) ELSE next_index
    BY <1>1, <1>8, <2>1
  <2> HIDE DEF next
  <2>3. next_index' = IF next_index >= at THEN At(next_index) ELSE next_index
    BY <1>6, <1>15, <2>1 DEF Sync!set_next_index
  <2>4. At(next_index) \in 0 .. Length
    BY <1>1, <1>2
  <2> HIDE DEF At
  <2> QED
    BY <1>1, <2>2, <2>3, <2>4
<1>17. dtmf_index' \in 0 .. Length /\ mark' = dtmf_index'
  <2>1. dtmf_index \in Int /\ mark = dtmf_index
    BY <1>1
  <2>2. mark' = IF dtmf_index > 0 /\ dtmf_index >= at THEN At(dtmf_index) ELSE dtmf_index
    BY <1>7, <1>8, <2>1
  <2>3. dtmf_index' = IF dtmf_index > 0 /\ dtmf_index >= at THEN At(dtmf_index) ELSE dtmf_index
    BY <1>6, <1>15, <2>1 DEF Sync!set_dtmf_index
  <2>4. At(dtmf_index) \in 0 .. Length
    BY <1>1, <1>2
  <2> HIDE DEF At
  <2> QED
    BY <1>1, <2>2, <2>3, <2>4
<1> HIDE DEF next
<1> QED
  BY <1>6, <1>7, <1>12, <1>13, <1>16, <1>17, WindowParted

\* Flush: a buffer as at first, its samples played.
LEMMA FlushKeepsWindow ==
  ASSUME WindowInv, Sync!Flush, Sync!Window!Flush
  PROVE  WindowInv'
<1> DEFINE empty == Audio!Clear(channel)
           w == Audio!Extend(empty, Length)
           zeros == Audio!Zeros(Length)
<1>1. Length \in Nat /\ Ring(channel) /\ Audio!Size(channel) = Length
  BY WindowNumbers DEF WindowInv
<1>2. channel' = w /\ next_index' = Length /\ dtmf_index' = 0
  BY <1>1, SameCopies, SameVector DEF Sync!Flush
<1>3. past' = zeros /\ future' = <<>> /\ mark' = 0
  BY DEF Sync!Window!Flush, Audio!Zeros
<1>4. Ring(empty) /\ Audio!Contents(empty) = <<>>
  BY <1>1, Cleared
<1> HIDE DEF empty
<1>5. /\ Ring(w) /\ Audio!Contents(w) = Audio!Contents(empty) \o zeros
      /\ zeros \in Seq(Int) /\ Len(zeros) = Length
  BY <1>1, <1>4, Extended
<1> HIDE DEF w, zeros
<1>6. <<>> \o zeros = zeros /\ zeros \o <<>> = zeros
  BY <1>5, ConcatEmptySeq
<1>7. Audio!Contents(w) = zeros /\ past' \o future' = zeros /\ <<>> \in Seq(Int)
  BY <1>3, <1>4, <1>5, <1>6, EmptySeq
<1> QED
  BY <1>1, <1>2, <1>3, <1>5, <1>7, WindowFrom

LEMMA WindowInductive == WindowInv /\ [Sync!Next]_(Sync!vars) => WindowInv'
<1> SUFFICES ASSUME WindowInv, [Sync!Next]_(Sync!vars) PROVE WindowInv'
  OBVIOUS
<1>1. Length \in Nat /\ MaxPiece \in Nat
  BY AudioAssumption
<1>2. \A n \in 0 .. MaxPiece : \A s \in [1 .. n -> SyncValue] : s \in Seq(Int)
  BY <1>1, SyncPieceIsList
<1>3. CASE UNCHANGED Sync!vars
  <2>1. /\ channel' = channel /\ next_index' = next_index /\ dtmf_index' = dtmf_index
        /\ past' = past /\ future' = future /\ mark' = mark
    BY <1>3 DEF Sync!vars
  <2> QED
    BY <2>1 DEF WindowInv, Ring, Audio!Contents, Audio!CopyTo, Audio!Size
<1>4. CASE Sync!Flush /\ Sync!Window!Flush
  BY <1>4, FlushKeepsWindow
<1>5. ASSUME NEW n \in 0 .. MaxPiece, NEW s \in [1 .. n -> SyncValue],
             \/ Sync!PushBack(s) /\ Sync!Window!Add(s)
             \/ \E at \in 0 .. Length : Sync!ReplaceAtIndex(s, at) /\ Sync!Window!Replace(s, at)
      PROVE  WindowInv'
  <2>1. s \in Seq(Int)
    BY <1>2
  <2> QED
    BY <1>5, <2>1, PushBackKeepsWindow, ReplaceKeepsWindow
<1>6. ASSUME NEW n \in 0 .. Length,
             \/ Sync!GetNextAudioInterleaved(n) /\ Sync!Window!Play(n)
             \/ Sync!Seek(n) /\ Sync!Window!Seek(n)
             \/ Sync!Mark(n) /\ Sync!Window!Mark(n)
             \/ \E at \in 0 .. Length :
                  Sync!InsertZerosAtIndex(n, at) /\ Sync!Window!Insert(n, at)
      PROVE  WindowInv'
  <2>1. n \in Nat
    BY <1>1
  <2> QED
    BY <1>6, <2>1, PlayKeepsWindow, SeekKeepsWindow, MarkKeepsWindow, InsertKeepsWindow
<1> QED
  BY <1>3, <1>4, <1>5, <1>6 DEF Sync!Next

\* The sync buffer keeps its length and its place: PushBack, InsertZerosAtIndex,
\* ReplaceAtIndex and the setters of sync_buffer.cc play no sample twice, pass over
\* none and leave the mark of a tone where it was among them, for any length of the
\* buffer and any sequence of calls.
THEOREM WindowStays == Sync!Spec => []WindowKept
<1>1. Sync!Spec => []WindowInv
  BY WindowIsEmpty, WindowInductive, PTL DEF Sync!Spec
<1>2. WindowInv => WindowKept
  <2> SUFFICES ASSUME WindowInv PROVE WindowKept
    OBVIOUS
  <2> DEFINE list == past \o future
             size == Audio!Size(channel)
  <2>1. /\ Length \in Nat /\ next_index \in 0 .. Length
        /\ past \in Seq(Int) /\ future \in Seq(Int) /\ Len(past) = next_index
        /\ Ring(channel) /\ Audio!Contents(channel) = list /\ Len(list) = Length
        /\ size = Length /\ list \in Seq(Int) /\ Len(future) = Length - next_index
    BY WindowNumbers DEF WindowInv
  <2>2. /\ Audio!CopyTo(channel, next_index, 0) = Audio!Take(list, next_index)
        /\ Audio!CopyTo(channel, size - next_index, next_index) = Audio!Skip(list, next_index)
    BY <2>1, CopyIsPart
  <2>3. Audio!Skip(list, next_index) = future
    <3>1. next_index \in 0 .. Len(past) + Len(future) /\ next_index <= Len(past)
      BY <2>1
    <3>2. Audio!Skip(list, next_index) = Audio!Skip(past, next_index) \o future
      BY <2>1, <3>1, SkipJoined
    <3>3. Audio!Skip(past, next_index) = <<>>
      <4>1. next_index \in 0 .. Len(past)
        BY <2>1
      <4>2. Audio!Skip(past, next_index) \in Seq(Int)
            /\ Len(Audio!Skip(past, next_index)) = Len(past) - next_index
        BY <2>1, <4>1, Parted
      <4>3. Len(past) - next_index = 0
        BY <2>1
      <4> QED
        BY <4>2, <4>3, EmptySeq
    <3> QED
      BY <2>1, <3>2, <3>3, ConcatEmptySeq
  <2>4. Audio!Take(list, next_index) = past
    <3>1. next_index \in 0 .. Len(list)
      BY <2>1
    <3>2. /\ Audio!Take(list, next_index) \in Seq(Int)
          /\ Len(Audio!Take(list, next_index)) = next_index
          /\ \A i \in 1 .. next_index : Audio!Take(list, next_index)[i] = list[i]
      BY <2>1, <3>1, Parted
    <3>3. \A i \in 1 .. next_index : list[i] = past[i]
      <4>1. \A i \in 1 .. Len(past) + Len(future) :
              list[i] = IF i <= Len(past) THEN past[i] ELSE future[i - Len(past)]
        BY <2>1, ConcatProperties
      <4>2. \A i \in 1 .. next_index : i \in 1 .. Len(past) + Len(future) /\ i <= Len(past)
        BY <2>1
      <4> QED
        BY <4>1, <4>2
    <3> QED
      BY <2>1, <3>2, <3>3, SeqEqual
  <2>5. Sync!FutureLength = size - next_index
    BY SameCopies DEF Sync!FutureLength
  <2>6. mark = dtmf_index
    BY DEF WindowInv
  <2> QED
    BY <2>2, <2>3, <2>4, <2>5, <2>6, SameCopies DEF WindowKept, Sync!WindowKept
<1> QED
  BY <1>1, <1>2, PTL
=============================================================================
