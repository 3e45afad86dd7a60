----------------------------- MODULE MCThreads -----------------------------
(* The lock, the event and the trace log, each on its own: a behaviour is   *)
(* one of the component chosen at its beginning.  They share no state (the  *)
(* trace log has an event of its own and takes a section under a lock as    *)
(* one step), so that behaviours of several at once would show no more.     *)
EXTENDS CriticalSection, Sequences

CONSTANTS
  Waiter,                                 \* the threads of the event,
  Tracer, Main, MaxEvents, MaxSessions    \* and the trace log

\* One thread starts and stops sessions; it is none of those that trace, nor the
\* logging thread.
ASSUME LogAssumption == Main \notin Tracer \cup {"logger"} /\ MaxSessions \in Nat

VARIABLES
  component,
  is_manual_reset, event_status, asked, at, result,
  active, trace_events, output_file, inside, main_pc, shutting_down, events,
  shutdown_status, shutdown_at, shutdown_result, session, traced, due

Flag == INSTANCE Event WITH Thread <- Waiter
Logger == INSTANCE EventLogger WITH pc <- main_pc

flag == <<is_manual_reset, event_status, asked, at, result>>
logger == <<active, trace_events, output_file, inside, main_pc, shutting_down, events,
            shutdown_status, shutdown_at, shutdown_result, session, traced, due>>

MCInit ==
  /\ component \in {"lock", "event", "log"}
  /\ Init /\ Logger!Init
  /\ Flag!Init /\ (component = "event" \/ (~is_manual_reset /\ ~event_status))

MCNext ==
  /\ UNCHANGED component
  /\ \/ component = "lock" /\ Next /\ UNCHANGED <<flag, logger>>
     \/ component = "event" /\ Flag!Next /\ UNCHANGED <<vars, logger>>
     \/ component = "log" /\ Logger!Next /\ UNCHANGED <<vars, flag>>

MCSpec ==
  /\ MCInit /\ [][MCNext]_<<component, vars, flag, logger>>
  /\ Fairness /\ Flag!Fairness /\ Logger!Fairness

\* The components' variables keep their types.
TypesOK == TypeOK /\ Flag!TypeOK /\ Logger!TypeOK

\* The event of event.cc is a latch that waiters take or give up on (Event).
EventSpec == Flag!EventSpec

\* The file of a session holds what was put into the queue since it began, in
\* order, of an earlier session one event of a thread at most (EventLogger).
SessionLogged == Logger!SessionLogged

\* StopInternalCapture comes back (EventLogger).
StopReturns == Logger!StopReturns
=============================================================================
