------------------------------- MODULE Latch -------------------------------
(* What an event promises: a signal that lets waiters through, one of them  *)
(* or all until it is reset, and a wait that gives up only when it may.     *)
CONSTANT Thread

VARIABLES manual, signaled, waits, result

state == <<signaled, waits, result>>
vars == <<manual, state>>

Init ==
  /\ manual \in BOOLEAN
  /\ signaled \in BOOLEAN
  /\ waits = [t \in Thread |-> "out"]
  /\ result = [t \in Thread |-> FALSE]

Set == signaled' = TRUE /\ UNCHANGED <<waits, result>>
Reset == signaled' = FALSE /\ UNCHANGED <<waits, result>>

Wait(t, how) ==
  /\ waits[t] = "out" /\ how \in {"timed", "forever"}
  /\ waits' = [waits EXCEPT ![t] = how]
  /\ UNCHANGED <<signaled, result>>

Leave(t, passed) ==
  /\ waits' = [waits EXCEPT ![t] = "out"]
  /\ result' = [result EXCEPT ![t] = passed]

Pass(t) ==
  /\ waits[t] # "out" /\ signaled
  /\ signaled' = manual
  /\ Leave(t, TRUE)

\* A wait for a signal that is there already.
PassAtOnce(t) ==
  /\ waits[t] = "out" /\ signaled
  /\ signaled' = manual
  /\ result' = [result EXCEPT ![t] = TRUE]
  /\ UNCHANGED waits

GiveUp(t) ==
  /\ waits[t] = "timed"
  /\ Leave(t, FALSE)
  /\ UNCHANGED signaled

Next ==
  /\ \/ Set \/ Reset
     \/ \E t \in Thread : \/ Pass(t) \/ PassAtOnce(t) \/ GiveUp(t)
                          \/ \E how \in {"timed", "forever"} : Wait(t, how)
  /\ UNCHANGED manual

\* Nobody waits for ever beside a signal, and a timed wait ends.
Spec ==
  /\ Init /\ [][Next]_vars
  /\ \A t \in Thread : WF_state(Pass(t)) /\ WF_state(Pass(t) \/ GiveUp(t))
=============================================================================
