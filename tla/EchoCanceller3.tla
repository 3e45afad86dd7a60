--------------------------- MODULE EchoCanceller3 ---------------------------
(***************************************************************************)
(* aec3/echo_canceller3.cc: the two threads of the echo canceller and the  *)
(* way of the samples through it.  The render thread puts frames into the  *)
(* transfer queue; a call of ProcessCapture empties the queue, cuts the    *)
(* render frames and then its own frame into blocks for the block          *)
(* processor, and puts the capture frame together again.                   *)
(*                                                                         *)
(* Samples are counted in units of 16, the common divisor of a block (64)  *)
(* and a sub-frame (80).  A frame is a label, its units the label with a   *)
(* position, so that a unit lost, repeated or moved shows.  The block      *)
(* processor may change what is in a block but not which unit it is.  All  *)
(* bands go the same way and one stands for them.                          *)
(*                                                                         *)
(* The queue is BoundedFifo, which SwapQueue implements, without its       *)
(* callers' side: nothing looks at what Insert returns, and the render     *)
(* frame is written anew for each.  Its lock is taken for one Insert or    *)
(* Remove only: the render thread may insert between any two steps of a    *)
(* call of ProcessCapture.                                                 *)
(***************************************************************************)
EXTENDS Integers, Sequences

CONSTANTS
  QueueSize,        \* kRenderTransferQueueSizeFrames
  Label,            \* the frames that can be rendered and captured
  Quiet,            \* the label of the frames of zeros the buffers start with
  SubFrameCounts,   \* the sub-frames of a frame: 1 at 8 kHz, else 2
  Delay             \* fixed_capture_delay_samples, in units

ASSUME QueueAssumption == QueueSize \in Nat \ {0}
ASSUME QuietAssumption == Quiet \notin Label
ASSUME SubFrameAssumption == SubFrameCounts \subseteq {1, 2}
ASSUME DelayAssumption == Delay \in Nat

kBlockSize == 4
kSubFrameLength == 5

VARIABLES
  sub_frames,                    \* from sample_rate_hz_, never changes
  render_transfer_queue, render_queue_output_frame,
  render_blocker, capture_blocker, output_framer,
  delay_buf, last_insert,        \* block_delay_buffer_
  processing,                    \* a call of ProcessCapture is under way
  capture,                       \* its argument, changed in place
  rendered                       \* the render blocks of the last frame taken

queueVars == <<render_transfer_queue, render_queue_output_frame>>
renderVars == <<render_blocker, rendered>>
captureVars == <<capture_blocker, output_framer, delay_buf, last_insert,
                 processing, capture>>
vars == <<sub_frames, queueVars, renderVars, captureVars>>

Queue == INSTANCE BoundedFifo
           WITH Size <- QueueSize, Item <- Label \cup {Quiet},
                fifo <- render_transfer_queue, got <- render_queue_output_frame,
                given <- Quiet, mine <- Quiet,
                last <- [call |-> "none", ok |-> TRUE, odd |-> FALSE]

FrameLength == sub_frames * kSubFrameLength
Silence == <<Quiet, 0>>
Silent(n) == [i \in 1 .. n |-> Silence]
UnitsOf(label, n) == [i \in 1 .. n |-> <<label, i>>]

\* Mutant: the first sub-frame in place of the second.
SubFrameFirst(frame, k) == SubSeq(frame, 1, kSubFrameLength)

\* FillSubFrameView, k counting from 0.
SubFrame(frame, k) ==
  SubSeq(frame, k * kSubFrameLength + 1, (k + 1) * kSubFrameLength)

Init ==
  /\ sub_frames \in SubFrameCounts
  /\ Queue!Init /\ render_queue_output_frame = Quiet
  /\ render_blocker = <<>>
  /\ capture_blocker = <<>>
  /\ output_framer = Silent(kBlockSize)
  /\ delay_buf = [i \in 0 .. Delay - 1 |-> Silence]
  /\ last_insert = 0
  /\ processing = FALSE
  /\ capture = <<>>
  /\ rendered = <<>>

-----------------------------------------------------------------------------
(* FrameBlocker, BlockFramer and BlockDelayBuffer *)

InsertSubFrameAndExtractBlock(buffer, sub) ==
  LET samples_to_block == kBlockSize - Len(buffer)
  IN  [block |-> buffer \o SubSeq(sub, 1, samples_to_block),
       buffer |-> SubSeq(sub, samples_to_block + 1, Len(sub))]

\* The block left when the sub-frames are through, if one is available.
ExtractBlock(buffer) ==
  IF Len(buffer) = kBlockSize THEN [block |-> buffer, buffer |-> <<>>]
                              ELSE [block |-> <<>>, buffer |-> buffer]

\* Mutant: the new block goes out before what was left of the last one.
FramedNewFirst(buffer, block) ==
  LET samples_to_frame == kSubFrameLength - Len(buffer)
  IN  [sub |-> SubSeq(block, 1, samples_to_frame) \o buffer,
       buffer |-> SubSeq(block, samples_to_frame + 1, kBlockSize)]

InsertBlockAndExtractSubFrame(buffer, block) ==
  LET samples_to_frame == kSubFrameLength - Len(buffer)
  IN  [sub |-> buffer \o SubSeq(block, 1, samples_to_frame),
       buffer |-> SubSeq(block, samples_to_frame + 1, kBlockSize)]

\* DelaySignal exchanges the units of the frame one by one with those of the
\* ring, from last_insert_ on; a ring shorter than the frame is passed several
\* times.  Met are the positions before k that met the same unit of the ring.
Met(k) == {m \in 0 .. k - 1 : (last_insert + m) % Delay
                                = (last_insert + k) % Delay}
Latest(S) == CHOOSE m \in S : \A other \in S : other <= m

Delayed(frame) ==
  [i \in DOMAIN frame |->
     IF Met(i - 1) = {} THEN delay_buf[(last_insert + i - 1) % Delay]
                        ELSE frame[Latest(Met(i - 1)) + 1]]
RingAfter(frame) ==
  [j \in DOMAIN delay_buf |->
     LET here == {k \in 0 .. Len(frame) - 1 : (last_insert + k) % Delay = j}
     IN  IF here = {} THEN delay_buf[j] ELSE frame[Latest(here) + 1]]

DelaySignal(frame) ==
  IF Delay = 0
    THEN /\ capture' = frame
         /\ UNCHANGED <<delay_buf, last_insert>>
    ELSE /\ capture' = Delayed(frame)
         /\ delay_buf' = RingAfter(frame)
         /\ last_insert' = (last_insert + Len(frame)) % Delay

-----------------------------------------------------------------------------
(* The render thread *)

\* AnalyzeRender: a frame that finds the queue full is dropped.
AnalyzeRender(label) ==
  /\ \/ Queue!Put(label)
     \/ /\ Len(render_transfer_queue) = QueueSize
        /\ UNCHANGED queueVars
  /\ UNCHANGED <<sub_frames, renderVars, captureVars>>

-----------------------------------------------------------------------------
(* The capture thread *)

\* ProcessCapture begins: the frame is delayed.
BeginProcessCapture(label) ==
  /\ ~processing
  /\ processing' = TRUE
  /\ DelaySignal(UnitsOf(label, FrameLength))
  /\ UNCHANGED <<sub_frames, queueVars, renderVars, capture_blocker,
                 output_framer>>

\* One turn of the loop of EmptyRenderQueue: a frame is taken and its blocks
\* go to the block processor.
BufferRenderFrame ==
  LET frame  == UnitsOf(render_queue_output_frame', FrameLength)
      first  == InsertSubFrameAndExtractBlock(render_blocker, SubFrame(frame, 0))
      second == IF sub_frames = 1 THEN [first EXCEPT !.block = <<>>]
                ELSE InsertSubFrameAndExtractBlock(first.buffer,
                                                   SubFrame(frame, 1))
      remaining == ExtractBlock(second.buffer)
  IN  /\ processing
      /\ Queue!Take
      /\ rendered' = first.block \o second.block \o remaining.block
      /\ render_blocker' = remaining.buffer
      /\ UNCHANGED <<sub_frames, captureVars>>

\* Mutant: the capture frame is processed whether or not frames are left.
EmptiedOrNot == TRUE

\* The loop of EmptyRenderQueue is through.
Emptied == render_transfer_queue = <<>>

\* Mutant: the second sub-frame does not get back into the frame.
JoinedFirstOnly(frame1, frame2) == frame1.sub

Joined(frame1, frame2) ==
  IF sub_frames = 1 THEN frame1.sub ELSE frame1.sub \o frame2.sub

\* The queue is empty, the rest of ProcessCapture follows: the frame is cut
\* into blocks, the blocks are processed and joined to sub-frames.
EndProcessCapture ==
  LET block1 == InsertSubFrameAndExtractBlock(capture_blocker,
                                              SubFrame(capture, 0))
      frame1 == InsertBlockAndExtractSubFrame(output_framer, block1.block)
      block2 == InsertSubFrameAndExtractBlock(block1.buffer,
                                              SubFrame(capture, 1))
      frame2 == InsertBlockAndExtractSubFrame(frame1.buffer, block2.block)
      remaining == ExtractBlock(IF sub_frames = 1 THEN block1.buffer
                                                  ELSE block2.buffer)
  IN  /\ processing
      /\ Emptied
      /\ capture' = Joined(frame1, frame2)
      /\ capture_blocker' = remaining.buffer
      /\ output_framer' = remaining.block \o (IF sub_frames = 1
                                                THEN frame1.buffer
                                                ELSE frame2.buffer)
      /\ processing' = FALSE
      /\ UNCHANGED <<sub_frames, queueVars, renderVars, delay_buf, last_insert>>

Next ==
  \/ \E label \in Label : AnalyzeRender(label) \/ BeginProcessCapture(label)
  \/ BufferRenderFrame
  \/ EndProcessCapture

\* A call that has begun goes on, and the audio device keeps calling.  Nothing
\* is asked of the render thread.
Fairness ==
  /\ WF_vars(BufferRenderFrame \/ EndProcessCapture)
  /\ WF_vars(\E label \in Label : BeginProcessCapture(label))

Spec == Init /\ [][Next]_vars
FairSpec == Spec /\ Fairness

-----------------------------------------------------------------------------
(* Properties *)

Unit == {Silence} \cup (Label \X (1 .. 2 * kSubFrameLength))

\* Every variable holds a value of its type, and every buffer its size.
TypeOK ==
  /\ sub_frames \in SubFrameCounts
  /\ render_transfer_queue \in Seq(Label)
  /\ Len(render_transfer_queue) <= QueueSize
  /\ render_queue_output_frame \in Label \cup {Quiet}
  /\ {render_blocker, capture_blocker, output_framer, capture, rendered}
       \subseteq Seq(Unit)
  /\ Len(capture) \in {0, FrameLength}
  /\ delay_buf \in [0 .. Delay - 1 -> Unit]
  /\ last_insert \in {0} \cup 0 .. Delay - 1
  /\ processing \in BOOLEAN

\* What the ring of the delay buffer holds, oldest first.
Ring == [i \in 1 .. Delay |-> delay_buf[(last_insert + i - 1) % Delay]]

\* A captured frame leaves ProcessCapture delayed by the fixed delay and one
\* block, unit by unit, through three buffers of different lengths.  The
\* mapping undoes what BeginProcessCapture has done of a call under way.
Inside == IF processing THEN capture \o Ring ELSE Ring
Capture == INSTANCE DelayLine WITH
             Length <- Delay + kBlockSize,
             Frames <- {UnitsOf(label, FrameLength) : label \in Label},
             busy   <- processing,
             frame  <- IF processing THEN SubSeq(Inside, Delay + 1, Len(Inside))
                                     ELSE capture,
             line   <- output_framer \o capture_blocker
                         \o SubSeq(Inside, 1, Delay)
CaptureSpec == Capture!Spec

\* The block processor gets the render frames accepted whole and in order,
\* cut into blocks across the borders of frames.
Accepted ==
  [i \in 1 .. Len(render_transfer_queue) * FrameLength |->
     <<render_transfer_queue[((i - 1) \div FrameLength) + 1], ((i - 1) % FrameLength) + 1>>]
Render == INSTANCE BlockStream WITH
            BlockLength <- kBlockSize,
            Frames <- {UnitsOf(label, FrameLength) : label \in Label},
            stream <- render_blocker \o Accepted,
            blocks <- rendered
RenderSpec == Render!Spec

\* Every render frame that the queue accepted reaches the block processor,
\* though the render thread may keep the queue full for ever.
AcceptedIsHeard ==
  \A label \in Label :
    (\E i \in DOMAIN render_transfer_queue : render_transfer_queue[i] = label)
      ~> (\E i \in DOMAIN rendered : rendered[i] = <<label, 1>>)
=============================================================================
