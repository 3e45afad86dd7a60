--------------------------- MODULE DelayEstimator ---------------------------
(***************************************************************************)
(* How AEC3 finds the delay of the echo from the lags of its matched       *)
(* filters: matched_filter_lag_aggregator.cc, echo_path_delay_estimator.cc *)
(* with clockdrift_detector.cc, and render_delay_controller.cc.  Which lag *)
(* the filters find reliable is open; the consistency counter, which only  *)
(* resets them, is left out.                                               *)
(***************************************************************************)
EXTENDS Integers, Sequences, SequencesExt, FiniteSets

CONSTANTS
  Lags,                \* the lags found, 3 at least (matched_filter.cc)
  Window,              \* the size of histogram_data_,
  Initial, Converged,  \* and how many of them a lag must have more than
  StableBlocks,        \* blocks after which a stable delay ends a drift
  BlockLag,            \* the lags of a block,
  Headroom, Hysteresis \* delay_headroom in lags and hysteresis in blocks

VARIABLES
  histogram, histogram_data, histogram_data_index, significant_candidate_found,
  delay_history, level, stability_counter,
  delay_samples, delay, last_quality,
  recent,    \* history: the last lags that were found, a window of them,
  support,   \* how often that of the last estimate was, when it was made,
  drift      \* and the estimates on which the level rests, as they came

aggregator == <<histogram, histogram_data, histogram_data_index, significant_candidate_found>>
detector == <<delay_history, level, stability_counter, drift>>
controller == <<delay_samples, delay, last_quality>>
vars == <<aggregator, detector, controller, recent, support>>

None == -1
NoEstimate == [lag |-> None, refined |-> FALSE]
MostLag == CHOOSE l \in Lags : \A k \in Lags : k <= l
Empty == [l \in 0 .. MostLag |-> 0]
NoData == [i \in 0 .. Window - 1 |-> 0]

Init ==
  /\ histogram = Empty /\ histogram_data = NoData /\ histogram_data_index = 0
  /\ significant_candidate_found = FALSE
  /\ delay_history = <<0, 0, 0>> /\ level = "none" /\ stability_counter = 0
  /\ delay_samples = NoEstimate /\ delay = None /\ last_quality = "coarse"
  /\ recent = <<>> /\ support = 0 /\ drift = <<>>

-----------------------------------------------------------------------------
\* MatchedFilterLagAggregator.  The window begins full of zeros that the
\* histogram does not count, so that its element 0 stays behind.
Exchanged(lag) ==
  [[histogram EXCEPT ![histogram_data[histogram_data_index]] = @ - 1] EXCEPT ![lag] = @ + 1]

\* The first of the most frequent lags.
Candidate(h) == CHOOSE l \in DOMAIN h : \A k \in DOMAIN h : h[k] < h[l] \/ (h[k] = h[l] /\ l <= k)

Aggregate(lag) ==
  LET candidate == Candidate(Exchanged(lag))
      count == Exchanged(lag)[candidate]
      significant == significant_candidate_found \/ count > Converged
  IN  [histogram |-> Exchanged(lag),
       significant |-> significant,
       estimate |-> IF count > Converged \/ (count > Initial /\ ~significant)
                    THEN [lag |-> candidate, refined |-> significant] ELSE NoEstimate]

Moves(estimate) == [i \in 1 .. 3 |-> delay_history[i] - estimate]

\* Mutant: the oldest of the estimates is not looked at.
SeesDriftEarly(estimate) ==
  IF {Moves(estimate)[1], Moves(estimate)[2]} \in {{-1, -2}, {1, 2}} THEN "verified" ELSE level

\* ClockdriftDetector, for a refined estimate; estimates that do not change
\* are not in its history.
SeesDrift(estimate) ==
  LET d == Moves(estimate)
      up == {d[1], d[2]} = {-1, -2}
      down == {d[1], d[2]} = {1, 2}
      further == (up /\ d[3] = -3) \/ (down /\ d[3] = 3)
  IN  CASE further -> "verified"
        [] (up \/ down) /\ ~further /\ level = "none" -> "probable"
        [] OTHER -> level

UpdateClockdrift(estimate) ==
  IF estimate = delay_history[1]
  THEN /\ stability_counter' =
            IF stability_counter > StableBlocks THEN stability_counter ELSE stability_counter + 1
       /\ level' = IF stability_counter' > StableBlocks THEN "none" ELSE level
       /\ drift' = IF level' = "none" THEN <<>> ELSE drift
       /\ UNCHANGED delay_history
  ELSE /\ stability_counter' = 0
       /\ level' = SeesDrift(estimate)
       /\ drift' = IF level' = level THEN drift ELSE <<estimate>> \o delay_history
       /\ delay_history' = <<estimate, delay_history[1], delay_history[2]>>

-----------------------------------------------------------------------------
\* RenderDelayController.
Blocks(lag) == (IF lag > Headroom THEN lag - Headroom ELSE 0) \div BlockLag

\* A small increase over the delay in use is not followed.
ComputeBufferDelay(limit, lag) ==
  IF delay # None /\ Blocks(lag) > delay /\ Blocks(lag) <= delay + limit
  THEN delay ELSE Blocks(lag)

\* Without a new estimate the last one is used again.
UpdateDelay(estimate) ==
  LET used == IF estimate # NoEstimate THEN estimate ELSE delay_samples
      refined == last_quality = "refined" /\ used.refined
  IN  IF used = NoEstimate THEN UNCHANGED <<delay_samples, delay, last_quality>>
      ELSE /\ delay_samples' = used
           /\ delay' = ComputeBufferDelay(IF refined THEN Hysteresis ELSE 0, used.lag)
           /\ last_quality' = IF used.refined THEN "refined" ELSE "coarse"

\* A block of capture, in which the filters find a lag reliable, or none.
GetDelay(lag) ==
  LET found == IF lag = None THEN NoEstimate ELSE Aggregate(lag).estimate
  IN  /\ IF lag = None THEN UNCHANGED <<aggregator, recent>>
         ELSE /\ histogram' = Aggregate(lag).histogram
              /\ histogram_data' = [histogram_data EXCEPT ![histogram_data_index] = lag]
              /\ histogram_data_index' = (histogram_data_index + 1) % Window
              /\ significant_candidate_found' = Aggregate(lag).significant
              /\ recent' = IF Len(recent) < Window THEN Append(recent, lag)
                           ELSE Append(Tail(recent), lag)
      /\ IF found.refined THEN UpdateClockdrift(found.lag)
         ELSE UNCHANGED <<delay_history, level, stability_counter, drift>>
      /\ UpdateDelay(found)
      /\ support' = IF found = NoEstimate THEN support
                    ELSE Cardinality({i \in DOMAIN recent' : recent'[i] = found.lag})

\* Reset, of the confidence too when the render buffer was reset.
Reset(reset_delay_confidence) ==
  /\ histogram' = Empty /\ histogram_data' = NoData /\ histogram_data_index' = 0
  /\ significant_candidate_found' = (significant_candidate_found /\ ~reset_delay_confidence)
  /\ delay_samples' = NoEstimate /\ delay' = None
  /\ last_quality' = IF reset_delay_confidence THEN "coarse" ELSE last_quality
  /\ recent' = <<>> /\ support' = 0
  /\ UNCHANGED <<delay_history, level, stability_counter, drift>>

Next ==
  \/ \E lag \in Lags \cup {None} : GetDelay(lag)
  \/ \E reset_delay_confidence \in BOOLEAN : Reset(reset_delay_confidence)

Spec == Init /\ [][Next]_vars

-----------------------------------------------------------------------------
TypeOK ==
  /\ histogram \in [0 .. MostLag -> -Window .. Window]
  /\ histogram_data \in [0 .. Window - 1 -> Lags \cup {0}]
  /\ histogram_data_index \in 0 .. Window - 1
  /\ level \in {"none", "probable", "verified"}
  /\ delay \in {None} \cup 0 .. Blocks(MostLag)

\* The delay in use is one that was found often: its estimate had more than
\* the threshold of the last lags, a window of them since the last reset, no
\* drift of estimates takes it further below them than the hysteresis, and a
\* clock drift is reported when four estimates moved by one, two and three,
\* or probable when three did, and none of them was made up.
DelayFounded ==
  /\ delay # None => /\ support > IF delay_samples.refined THEN Converged ELSE Initial
                     /\ delay <= Blocks(delay_samples.lag)
                     /\ Blocks(delay_samples.lag) <= delay + Hysteresis
  /\ level # "none" =>
       LET n == IF level = "verified" THEN 4 ELSE 3
           moved == {drift[i] : i \in 1 .. n}
       IN  /\ moved \subseteq Lags /\ Cardinality(moved) = n
           /\ \/ \A l \in moved : drift[1] - l \in 0 .. n - 1
              \/ \A l \in moved : l - drift[1] \in 0 .. n - 1
=============================================================================
