------------------------------- MODULE Event -------------------------------
(***************************************************************************)
(* rtc_base/event.cc on POSIX: a flag, a mutex and a condition variable.   *)
(* Everything between taking the mutex and giving it up, by unlocking or   *)
(* by blocking, is one step.  A wait for ever is a wait of three seconds   *)
(* followed by one without a limit.                                        *)
(***************************************************************************)
CONSTANT Thread

VARIABLES
  is_manual_reset,
  event_status,
  asked,       \* what a thread asked for: "timed" or "forever"
  at,          \* where it is: "out", blocked in one of two waits, or woken
  result       \* what its last Wait returned

state == <<event_status, asked, at, result>>
vars == <<is_manual_reset, state>>

Init ==
  /\ is_manual_reset \in BOOLEAN
  /\ event_status \in BOOLEAN
  /\ asked = [t \in Thread |-> "timed"]
  /\ at = [t \in Thread |-> "out"]
  /\ result = [t \in Thread |-> FALSE]

\* pthread_cond_broadcast: the blocked threads go for the mutex.
Woken == [t \in Thread |-> CASE at[t] = "timedwait" -> "woken"
                             [] at[t] = "wait" -> "rewoken"
                             [] OTHER -> at[t]]

\* Mutant: the test is turned around, and Set wakes nobody unless the event is
\* set already.
SetQuietly ==
  /\ event_status' = TRUE
  /\ at' = IF event_status THEN Woken ELSE at
  /\ UNCHANGED <<asked, result>>

Set ==
  /\ event_status' = TRUE
  /\ at' = Woken
  /\ UNCHANGED <<asked, result>>

Reset ==
  /\ event_status' = FALSE
  /\ UNCHANGED <<asked, at, result>>

\* Wait returns true: an event that resets itself lets one thread through.
Pass(t) ==
  /\ event_status
  /\ event_status' = is_manual_reset
  /\ at' = [at EXCEPT ![t] = "out"]
  /\ result' = [result EXCEPT ![t] = TRUE]

Block(t, where) ==
  /\ ~event_status
  /\ at' = [at EXCEPT ![t] = where]
  /\ UNCHANGED <<event_status, result>>

Wait(t, how) ==
  /\ at[t] = "out"
  /\ asked' = [asked EXCEPT ![t] = how]
  /\ Pass(t) \/ Block(t, "timedwait")

\* The time is up; a thread already woken finds that out when it waits again.
Expire(t) ==
  /\ at[t] = "timedwait"
  /\ at' = [at EXCEPT ![t] = "expired"]
  /\ UNCHANGED <<event_status, asked, result>>

Resume(t) ==
  /\ at[t] = "woken"
  /\ Pass(t) \/ Block(t, "timedwait")
  /\ UNCHANGED asked

\* Mutant: a wait that gives up resets the event.
TimedOutResets(t) ==
  /\ at[t] = "expired" /\ asked[t] = "timed"
  /\ at' = [at EXCEPT ![t] = "out"]
  /\ result' = [result EXCEPT ![t] = FALSE]
  /\ event_status' = FALSE
  /\ UNCHANGED asked

\* ETIMEDOUT ends a timed wait, whatever the flag says by now.
TimedOut(t) ==
  /\ at[t] = "expired" /\ asked[t] = "timed"
  /\ at' = [at EXCEPT ![t] = "out"]
  /\ result' = [result EXCEPT ![t] = FALSE]
  /\ UNCHANGED <<event_status, asked>>

WaitOn(t) ==
  /\ \/ at[t] = "expired" /\ asked[t] = "forever"
     \/ at[t] = "rewoken"
  /\ Pass(t) \/ Block(t, "wait")
  /\ UNCHANGED asked

Go(t) == Resume(t) \/ TimedOut(t) \/ WaitOn(t)

Next ==
  /\ \/ Set \/ Reset
     \/ \E t \in Thread : Expire(t) \/ Go(t) \/ Wait(t, "timed") \/ Wait(t, "forever")
  /\ UNCHANGED is_manual_reset

\* Every thread that can run runs, and time passes: a wait that is woken in
\* vain again and again comes to its end.
Fairness == \A t \in Thread : WF_state(Go(t)) /\ SF_state(Expire(t))

Spec == Init /\ [][Next]_vars /\ Fairness

-----------------------------------------------------------------------------
TypeOK ==
  /\ is_manual_reset \in BOOLEAN
  /\ event_status \in BOOLEAN
  /\ asked \in [Thread -> {"timed", "forever"}]
  /\ at \in [Thread -> {"out", "timedwait", "woken", "expired", "wait", "rewoken"}]
  /\ result \in [Thread -> BOOLEAN]

\* The flag, the mutex and the condition variable are an event: one thread
\* gets through for a signal, a wait for ever never gives up although it is
\* made of a timed one, and no thread sleeps beside a signal.
Waits == [t \in Thread |-> IF at[t] = "out" THEN "out" ELSE asked[t]]
Abstract == INSTANCE Latch
              WITH manual <- is_manual_reset, signaled <- event_status, waits <- Waits
EventSpec == Abstract!Spec
=============================================================================
