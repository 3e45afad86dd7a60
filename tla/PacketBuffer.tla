---------------------------- MODULE PacketBuffer ----------------------------
(***************************************************************************)
(* neteq/packet_buffer.cc as an object of its own: any caller, any order   *)
(* of its calls.  offered is a history variable: the copies of packets     *)
(* given to the buffer whose turn has not come.                            *)
(***************************************************************************)
EXTENDS PacketList

CONSTANTS
  Copy,        \* the copies of packets that can be offered
  Limits,      \* the timestamps packets are discarded by
  Horizons     \* how far behind the limit that reaches, in samples

ASSUME LimitAssumption == Limits \subseteq Serial(HalfTs)
ASSUME HorizonAssumption == \A h \in Horizons : h \in 0 .. HalfTs - 1

\* q is preferred to p: it comes from an earlier packet of the stream, or
\* from the same packet with a higher priority.
Preferred(q, p) ==
  \/ Minus(p.seq, q.seq, HalfSeq) \in 1 .. HalfSeq - 2
  \/ q.seq = p.seq /\ q.level < p.level
  \/ q.seq = p.seq /\ q.level = p.level /\ q.red < p.red

\* The copies of one time come with packets of the stream less than a quarter
\* of the circle apart, and no two of them from one packet with one priority.
ASSUME CopyAssumption ==
  /\ Copy \subseteq Packet
  /\ \A p, q \in Copy : p.at = q.at =>
       \/ 2 * Minus(p.seq, q.seq, HalfSeq) <= HalfSeq - 2
       \/ 2 * Minus(q.seq, p.seq, HalfSeq) <= HalfSeq - 2
  /\ \A p, q \in {r \in Copy : ~r.empty} :
       p.at = q.at /\ p.seq = q.seq /\ p.level = q.level /\ p.red = q.red => p = q

VARIABLES buffer, offered

vars == <<buffer, offered>>

\* Of the copies of one time, those the buffer still stands for.
Remaining(list) == {p \in offered : \E q \in ToSet(list) : q.at = p.at}

Init == buffer = <<>> /\ offered = {}

\* The sender's clock does not jump by half the circle while packets wait.
Near(p) == \A q \in offered : p.at - q.at \in -(HalfTs - 2) .. HalfTs - 2

Insert(p) ==
  /\ p \in Copy /\ Near(p)
  /\ buffer' = InsertPacket(buffer, p).buffer
  /\ offered' = CASE p.empty -> offered
                  [] ~p.empty /\ Len(buffer) >= MaxPackets -> {p}
                  [] OTHER -> offered \cup {p}

\* GetNextPacket and DiscardNextPacket.
GetNextPacket ==
  /\ buffer # <<>>
  /\ buffer' = Tail(buffer)
  /\ offered' = Remaining(Tail(buffer))

\* DiscardOldPackets, and DiscardAllOldPackets for the horizon 0.
DiscardOld(limit, horizon) ==
  /\ buffer' = DiscardOldPackets(buffer, limit, horizon)
  /\ offered' = Remaining(buffer')

DiscardPacketsWithPayloadType(pt) ==
  /\ buffer' = DiscardTypes(buffer, {pt})
  /\ offered' = Remaining(buffer')

Flush ==
  /\ buffer' = <<>>
  /\ offered' = {}

Next ==
  \/ \E p \in Copy : Insert(p)
  \/ GetNextPacket
  \/ \E limit \in Limits, horizon \in Horizons : DiscardOld(limit, horizon)
  \/ \E pt \in DOMAIN Rate : DiscardPacketsWithPayloadType(pt)
  \/ Flush

Spec == Init /\ [][Next]_vars

-----------------------------------------------------------------------------
TypeOK ==
  /\ buffer \in Seq(Copy)
  /\ offered \subseteq Copy
  /\ Len(buffer) <= MaxPackets

\* However the copies were ordered, repeated and interleaved with discards,
\* and wherever the timestamps wrap, the buffer holds for every time offered
\* the preferred copy, no other, and in the order of time.
HoldsTheBest ==
  /\ ToSet(buffer) = {p \in offered : \A q \in offered :
                        q.at = p.at => ~Preferred(q, p)}
  /\ \A i, j \in DOMAIN buffer : i < j => buffer[i].at < buffer[j].at

\* What a discard takes lies before the limit, within the horizon; nothing
\* that lies there stays.  Told with times that do not wrap, for limits that
\* are within half the circle of what is held.
DiscardsWhatIsOld ==
  LET held == ToSet(buffer)
      near(limit) == \A p \in held : limit - p.at \in 1 - HalfTs .. HalfTs - 1
      limits == {p.at + back : p \in held, back \in 1 - HalfTs .. HalfTs - 1}
  IN  \A limit \in {l \in limits : near(l)}, horizon \in Horizons :
        ToSet(DiscardOldPackets(buffer, Ts(limit), horizon))
          = {p \in held : \/ p.at >= limit
                          \/ horizon # 0 /\ p.at <= limit - horizon}
=============================================================================
