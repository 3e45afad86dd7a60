----------------------------- MODULE DtmfBuffer -----------------------------
(***************************************************************************)
(* dtmf_buffer.cc with LEGACY_BITEXACT: tone events as packets tell of     *)
(* them, piece by piece, and which of them sounds when a frame is played.  *)
(* The rate is that of the constructor: nothing calls SetSampleRate when   *)
(* NetEq changes its own, so that frames need not have the length that the *)
(* buffer takes them to have.                                              *)
(***************************************************************************)
EXTENDS Integers, SequencesExt

CONSTANTS
  Modulus,         \* of a timestamp
  Start,           \* the timestamp at which time is 0
  Tones,           \* number, time and length of the tones sent, one by one
  FrameLen,        \* frame_len_samples_
  Extrapolation,   \* max_extrapolation_samples_
  Steps,           \* by how much the clock goes on from frame to frame
  Lead,            \* bound: how early before its time a packet comes,
  Lag,             \* how late after its tone,
  MaxTime          \* and how long it goes on

VARIABLES
  buffer,
  time,        \* of the frame that is played
  heard,       \* the tone that sounds in it, or none
  reach,       \* history: how long each tone is, of what was received,
  open,        \* the tones whose last packet was not the end,
  fresh,       \* those that a packet came of since they were heard,
  straddled    \* and whether times on both sides of the wrap met

vars == <<buffer, time, heard, reach, open, fresh, straddled>>

Tone == DOMAIN Tones
Timestamp(t) == (Start + t) % Modulus
Turn(t) == (Start + t) \div Modulus

Init ==
  /\ buffer = <<>>
  /\ time = 0
  /\ heard = {}
  /\ reach = [i \in Tone |-> 0]
  /\ open = {} /\ fresh = {}
  /\ straddled = FALSE

-----------------------------------------------------------------------------
SameEvent(a, b) == a.no = b.no /\ a.timestamp = b.timestamp

CompareEvents(a, b) ==
  IF a.timestamp = b.timestamp THEN a.no < b.no
  ELSE (b.timestamp + Modulus - a.timestamp) % Modulus < (Modulus - 1) \div 2

\* Mutant: a tone is as long as the packet that came last says.
MergedAsLast(a, b) ==
  [a EXCEPT !.duration = IF ~a.end THEN b.duration ELSE @, !.end = @ \/ b.end]

Merged(a, b) ==
  [a EXCEPT !.duration = IF ~a.end /\ b.duration > @ THEN b.duration ELSE @,
            !.end = @ \/ b.end]

\* An event that is new is pushed back and the list sorted, which takes it
\* before the first that comes after it.
Inserted(event) ==
  LET behind == {i \in DOMAIN buffer : CompareEvents(event, buffer[i])}
  IN  IF \E i \in DOMAIN buffer : SameEvent(buffer[i], event)
      THEN [i \in DOMAIN buffer |->
              IF SameEvent(buffer[i], event) THEN Merged(buffer[i], event) ELSE buffer[i]]
      ELSE InsertAt(buffer, Min(behind \cup {Len(buffer) + 1}), event)

\* A packet tells that a tone has sounded so long; one without a duration is
\* refused.
InsertEvent(i, duration) ==
  LET tone == Tones[i]
      end == duration = tone.length
  IN  /\ time >= tone.at - Lead /\ time <= tone.at + tone.length + Lag
      /\ buffer' = Inserted([tone |-> i, no |-> tone.no, timestamp |-> Timestamp(tone.at),
                             duration |-> duration, end |-> end])
      /\ reach' = [reach EXCEPT ![i] = IF duration > @ THEN duration ELSE @]
      /\ open' = IF end THEN open \ {i} ELSE open \cup {i}
      /\ fresh' = fresh \cup {i}
      /\ straddled' = (straddled \/ Turn(tone.at) # Turn(time)
                       \/ Turn(tone.at + tone.length + Extrapolation) # Turn(time))
      /\ UNCHANGED <<time, heard>>

\* What GetEvent takes to be the end of the i-th event.
EventEnd(i) ==
  LET event == buffer[i]
      known == (event.timestamp + event.duration) % Modulus
      longer == (known + Extrapolation) % Modulus
  IN  CASE event.end -> known
        [] ~event.end /\ i < Len(buffer) /\ buffer[i + 1].timestamp < longer ->
             buffer[i + 1].timestamp
        [] OTHER -> longer

\* The i-th event sounds, or is over, or is still to come.  The numbers are
\* compared as they are.
Sounds(i, now) == buffer[i].timestamp <= now /\ now <= EventEnd(i)
Over(i, now) == now > EventEnd(i)

\* An event that is over sounds once more before it leaves, unless it is open
\* and another follows it; one that sounds leaves with its last frame.
Found(i, now) ==
  \/ Sounds(i, now)
  \/ Over(i, now) /\ (buffer[i].end \/ i = Len(buffer))
Leaves(i, now) ==
  \/ Sounds(i, now) /\ buffer[i].end /\ (now + FrameLen) % Modulus >= EventEnd(i)
  \/ Over(i, now)

\* The members of S in a list, in its order.
Those(S, list) ==
  LET those[i \in 0 .. Len(list)] ==
        IF i = 0 THEN <<>>
        ELSE IF list[i] \in S THEN Append(those[i - 1], list[i]) ELSE those[i - 1]
  IN  those[Len(list)]

\* GetEvent, for the next frame: the events are gone through up to the first
\* that sounds.
GetEvent(step) ==
  LET now == Timestamp(time + step)
      found == {i \in DOMAIN buffer :
                  Found(i, now) /\ \A j \in 1 .. i - 1 : ~Found(j, now)}
      passed == {i \in DOMAIN buffer : \A j \in found : i <= j}
  IN  /\ time + step <= MaxTime
      /\ time' = time + step
      /\ heard' = {buffer[i].tone : i \in found}
      /\ buffer' = Those({buffer[i] : i \in DOMAIN buffer \ {j \in passed : Leaves(j, now)}},
                         buffer)
      /\ fresh' = fresh \ heard'
      /\ straddled' = (straddled \/ (buffer # <<>> /\ Turn(time') # Turn(time)))
      /\ UNCHANGED <<reach, open>>

\* A new stream.
Flush ==
  /\ buffer' = <<>>
  /\ heard' = {}
  /\ reach' = [i \in Tone |-> 0]
  /\ open' = {} /\ fresh' = {}
  /\ straddled' = FALSE
  /\ UNCHANGED time

Next ==
  \/ \E i \in Tone : \E duration \in 1 .. Tones[i].length : InsertEvent(i, duration)
  \/ \E step \in Steps : GetEvent(step)
  \/ Flush

Spec == Init /\ [][Next]_vars

-----------------------------------------------------------------------------
TypeOK ==
  /\ Len(buffer) <= Len(Tones)
  /\ \A i \in DOMAIN buffer : /\ buffer[i].timestamp \in 0 .. Modulus - 1
                              /\ buffer[i].duration \in 1 .. Tones[buffer[i].tone].length
  /\ time \in 0 .. MaxTime
  /\ heard \subseteq Tone

\* Tones sound in their time, however their packets are lost, repeated and
\* reordered: never before they begin; after their end as far as it is known,
\* extrapolated while it is open, in one frame more, once for a packet that
\* came late, or when the frame before was another tone's; and there is no
\* silence inside one, its last frame apart.
\* Not so where a tone meets the wrap of the timestamps.
ToneInTime ==
  [][time' # time /\ ~straddled' =>
       /\ \A i \in heard' :
            /\ Tones[i].at <= time'
            /\ \/ time <= Tones[i].at + reach[i] + IF i \in open THEN Extrapolation ELSE 0
               \/ i \in fresh \/ heard \ {i} # {}
       /\ \A i \in Tone :
            Tones[i].at <= time' /\ time' + FrameLen < Tones[i].at + reach[i]
              => heard' # {}]_vars
=============================================================================
