------------------------------ MODULE MCNetEq -------------------------------
(***************************************************************************)
(* NetEq with two speech codecs of different rates and one kind of comfort *)
(* noise.  Time runs across the wrap of the timestamps; sequence numbers   *)
(* count the packets.                                                      *)
(***************************************************************************)
EXTENDS NetEq

CONSTANTS FirstAt, LastAt

MCRate == [speech |-> 16, other |-> 8, noise |-> 16]
MCComfort == {"noise"}

MCPacket(at, pt) ==
  [at |-> at, pt |-> pt, seq |-> at % (2 * HalfSeq), level |-> 0, red |-> 0,
   empty |-> FALSE]

\* The packet before at as a RED block of the packet at, whose sequence number
\* it gets.
MCRed(at, pt) == [MCPacket(at, pt) EXCEPT !.at = at - 1, !.red = 1]

\* An arrival is named after the type of its first packet.
MCArrival(packets) ==
  [at |-> Head(packets).at, pt |-> Head(packets).pt, packets |-> packets]
MCEmpty(p) == [p EXCEPT !.empty = TRUE]

\* Plain packets of the first codec and of comfort noise, one packet of the
\* other codec, a packet with the previous one as a RED block, one whose
\* first block is an empty one of comfort noise, and one of which parsing makes
\* nothing, as of tones alone.
MCArrivals ==
  {MCArrival(<<MCPacket(at, pt)>>) :
     at \in FirstAt .. LastAt, pt \in {"speech", "noise"}}
  \cup
  {MCArrival(<<MCPacket(LastAt - 1, "other")>>),
   MCArrival(<<MCPacket(LastAt, "speech"), MCRed(LastAt, "speech")>>),
   MCArrival(<<MCEmpty(MCPacket(LastAt, "noise")), MCRed(LastAt, "speech")>>),
   [at |-> LastAt, pt |-> "speech", packets |-> <<>>]}

\* The same, and a packet of speech before an empty block.
MCArrivalsThenEmpty ==
  MCArrivals \cup {MCArrival(<<MCPacket(LastAt, "speech"),
                              MCEmpty(MCRed(LastAt, "noise"))>>)}
=============================================================================
