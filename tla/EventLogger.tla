---------------------------- MODULE EventLogger ----------------------------
(***************************************************************************)
(* The trace log of rtc_base/event_tracer.cc: any thread traces events,    *)
(* one thread starts and stops sessions, and a thread of the logger's own, *)
(* woken by the shutdown event (Event) or every 100 ms, writes them to the *)
(* session's file.  A section under the lock of the queue is one step, as  *)
(* CriticalSection justifies.                                              *)
(***************************************************************************)
EXTENDS Naturals, Sequences, SequencesExt

CONSTANTS
  Tracer,      \* the threads that trace, the one that starts and stops apart
  Main,
  MaxEvents,   \* bound: how many events are traced,
  MaxSessions  \* and in how many sessions

VARIABLES
  active,        \* g_event_logging_active
  trace_events,
  output_file,   \* what the file of the session holds
  inside,        \* the session each tracer found under way, 0 when it is
                 \* not about to put its event into the queue
  pc,            \* where Main and the logging thread are
  shutting_down, events,                 \* the logging thread's locals
  shutdown_status, shutdown_at, shutdown_result,     \* the shutdown event
  session, traced, due                   \* history: the session, what was put
                                         \* into the queue since it was cleared,
                                         \* how much of it before the stop

queue == <<trace_events, traced>>
event == <<shutdown_status, shutdown_at, shutdown_result>>
logging == <<output_file, shutting_down, events>>
vars == <<active, queue, inside, pc, logging, event, session, due>>

Logger == "logger"
shutdown_event ==
  INSTANCE Event WITH Thread <- {Logger}, is_manual_reset <- FALSE,
                      event_status <- shutdown_status, at <- shutdown_at,
                      result <- shutdown_result, asked <- [t \in {Logger} |-> "timed"]

Init ==
  /\ active = FALSE
  /\ trace_events = <<>> /\ traced = <<>>
  /\ output_file = <<>> /\ shutting_down = FALSE /\ events = <<>>
  /\ inside = [t \in Tracer |-> 0]
  /\ pc = [t \in {Main, Logger} |-> IF t = Logger THEN "none" ELSE "idle"]
  /\ shutdown_status = FALSE
  /\ shutdown_at = [t \in {Logger} |-> "out"] /\ shutdown_result = [t \in {Logger} |-> FALSE]
  /\ session = 0 /\ due = 0

-----------------------------------------------------------------------------
Step(t, from, to) == pc[t] = from /\ pc' = [pc EXCEPT ![t] = to]

Enqueue(t, of) ==
  /\ trace_events' = Append(trace_events, <<t, of>>)
  /\ traced' = Append(traced, <<t, of>>)
  /\ UNCHANGED <<active, logging, event, session, due>>

\* TRACE_EVENT: the flag is read, and only later the queue is locked.
Trace(t) ==
  /\ inside[t] = 0 /\ active
  /\ Len(traced) < MaxEvents
  /\ inside' = [inside EXCEPT ![t] = session]
  /\ UNCHANGED <<active, queue, pc, logging, event, session, due>>

Push(t) ==
  /\ inside[t] # 0
  /\ inside' = [inside EXCEPT ![t] = 0]
  /\ Enqueue(t, inside[t])
  /\ UNCHANGED pc

\* Start, called by one thread and never twice (the checks of l.190 and 192):
\* the file is set and the queue cleared,
Start ==
  /\ pc[Logger] = "none" /\ session < MaxSessions
  /\ Step(Main, "idle", "activate")
  /\ session' = session + 1
  /\ output_file' = <<>>
  /\ trace_events' = <<>> /\ traced' = <<>> /\ due' = 0
  /\ UNCHANGED <<active, inside, shutting_down, events, event>>

\* then events are let in,
Activate ==
  /\ Step(Main, "activate", "spawn")
  /\ active' = TRUE
  /\ UNCHANGED <<inside, queue, logging, event, session, due>>

\* and the logging thread is started.
StartThread ==
  /\ pc[Main] = "spawn"
  /\ pc' = [pc EXCEPT ![Main] = "traceStart", ![Logger] = "call"]
  /\ UNCHANGED <<active, inside, queue, logging, event, session, due>>

TraceStart ==
  /\ Step(Main, "traceStart", "idle")
  /\ Enqueue(Main, session)
  /\ UNCHANGED inside

\* Stop traces that it was called, if that is still to be logged.
Stop ==
  /\ Step(Main, "idle", IF active THEN "traceStop" ELSE "deactivate")
  /\ UNCHANGED <<active, inside, queue, logging, event, session, due>>

TraceStop ==
  /\ Step(Main, "traceStop", "deactivate")
  /\ Enqueue(Main, session)
  /\ UNCHANGED inside

Deactivate ==
  /\ Step(Main, "deactivate", IF active THEN "wake" ELSE "idle")
  /\ due' = IF active THEN Len(traced) ELSE due
  /\ active' = FALSE
  /\ UNCHANGED <<inside, queue, logging, event, session>>

Wake ==
  /\ Step(Main, "wake", "join")
  /\ shutdown_event!Set
  /\ UNCHANGED <<active, inside, queue, logging, session, due>>

Join ==
  /\ pc[Logger] = "ended"
  /\ pc[Main] = "join"
  /\ pc' = [pc EXCEPT ![Main] = "idle", ![Logger] = "none"]
  /\ UNCHANGED <<active, inside, queue, logging, event, session, due>>

\* Log, on the logging thread.
Wait ==
  /\ Step(Logger, "call", "waits")
  /\ shutdown_event!Wait(Logger, "timed")
  /\ UNCHANGED <<active, inside, queue, logging, session, due>>

Waits ==
  /\ shutdown_event!Expire(Logger) \/ shutdown_event!Go(Logger)
  /\ UNCHANGED <<active, inside, queue, pc, logging, session, due>>

Swap ==
  /\ shutdown_at[Logger] = "out"
  /\ Step(Logger, "waits", "write")
  /\ shutting_down' = shutdown_result[Logger]
  /\ events' = trace_events
  /\ trace_events' = <<>>
  /\ UNCHANGED <<active, inside, traced, output_file, event, session, due>>

\* Mutant: the thread ends before it writes what came last.
WriteUnlessDown ==
  /\ Step(Logger, "write", IF shutting_down THEN "ended" ELSE "call")
  /\ output_file' = IF shutting_down THEN output_file ELSE output_file \o events
  /\ events' = <<>>
  /\ UNCHANGED <<active, inside, queue, shutting_down, event, session, due>>

Write ==
  /\ Step(Logger, "write", IF shutting_down THEN "ended" ELSE "call")
  /\ output_file' = output_file \o events
  /\ events' = <<>>
  /\ UNCHANGED <<active, inside, queue, shutting_down, event, session, due>>

Running ==
  \/ Activate \/ StartThread \/ TraceStart
  \/ TraceStop \/ Deactivate \/ Wake \/ Join
Logs == Wait \/ Swap \/ Write
Next ==
  \/ \E t \in Tracer : Trace(t) \/ Push(t)
  \/ Start \/ Stop \/ Running
  \/ Logs \/ Waits

\* Every thread runs and the 100 ms pass; nobody is made to trace.
Fairness == WF_vars(Running) /\ WF_vars(Logs) /\ WF_vars(Waits)

Spec == Init /\ [][Next]_vars /\ Fairness

-----------------------------------------------------------------------------
TypeOK ==
  LET Events == Seq((Tracer \cup {Main}) \X (1 .. MaxSessions))
  IN  /\ active \in BOOLEAN /\ shutting_down \in BOOLEAN
      /\ {trace_events, traced, output_file, events} \subseteq Events
      /\ inside \in [Tracer -> 0 .. MaxSessions]
      /\ session \in 0 .. MaxSessions /\ due \in 0 .. Len(traced)
      /\ shutdown_event!TypeOK

\* The file of a session holds what was put into the queue since it began, in
\* order, nothing twice; when Stop has returned, everything that was in the
\* queue before it began is there.  What of an earlier session comes with it is, contrary to the
\* comment at event_tracer.cc:199-203, not nothing but one event of a thread:
\* the one it had begun to trace before that session was over.
SessionLogged ==
  /\ IsPrefix(output_file, traced)
  /\ pc[Main] = "idle" /\ ~active => Len(output_file) >= due
  /\ \A i, j \in DOMAIN output_file :
       /\ output_file[i][1] = output_file[j][1]
       /\ session \notin {output_file[i][2], output_file[j][2]}
       => i = j

\* Stop returns: whatever the thread is doing and however its 100 ms end, it
\* hears of the shutdown.
StopReturns == pc[Main] = "wake" ~> pc[Main] = "idle"
=============================================================================
