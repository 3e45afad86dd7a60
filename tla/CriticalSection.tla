-------------------------- MODULE CriticalSection --------------------------
(***************************************************************************)
(* rtc_base/critical_section.cc without a native mutex: the recursive lock *)
(* of NetEq, the metrics and the tracer made of one atomic counter, two    *)
(* plain fields and a semaphore.  lock_queue counts the claims on the      *)
(* lock: every nested Enter of its owner and every thread that waits.  One *)
(* step is one atomic operation, or a write only its owner reads.          *)
(***************************************************************************)
EXTENDS Naturals, FiniteSets

CONSTANTS
  Thread,
  NoThread,    \* the null thread reference
  MaxSpin,     \* how often Enter tries before it waits (3000 in the code)
  MaxDepth     \* bound: how deep one thread nests its critical sections

ASSUME ThreadAssumption == IsFiniteSet(Thread) /\ NoThread \notin Thread
ASSUME SpinAssumption == MaxSpin \in Nat \ {0} /\ MaxDepth \in Nat \ {0}

VARIABLES
  lock_queue,
  owning_thread,
  recursion,
  semaphore,   \* signals of the dispatch semaphore not yet waited for
  pc,          \* where each thread is in Enter, TryEnter or Leave
  spin,        \* the tries left of the Enter under way
  held         \* how many critical sections each thread is inside

vars == <<lock_queue, owning_thread, recursion, semaphore, pc, spin, held>>

Init ==
  /\ lock_queue = 0
  /\ owning_thread = NoThread
  /\ recursion = 0
  /\ semaphore = 0
  /\ pc = [t \in Thread |-> "run"]
  /\ spin = [t \in Thread |-> 0]
  /\ held = [t \in Thread |-> 0]

-----------------------------------------------------------------------------
Goto(t, label) == pc' = [pc EXCEPT ![t] = label]

Enter(t) ==
  /\ pc[t] = "run" /\ held[t] < MaxDepth
  /\ Goto(t, "spin")
  /\ spin' = [spin EXCEPT ![t] = MaxSpin]
  /\ UNCHANGED <<lock_queue, owning_thread, recursion, semaphore, held>>

\* The owner claims the lock once more; anyone else only when nobody does.
TryClaim(t) ==
  /\ owning_thread = t \/ lock_queue = 0
  /\ lock_queue' = lock_queue + 1
  /\ Goto(t, "own")
  /\ UNCHANGED <<owning_thread, recursion, semaphore, spin, held>>

TryEnter(t) ==
  /\ pc[t] = "run" /\ held[t] < MaxDepth
  /\ TryClaim(t)

SpinClaim(t) == pc[t] = "spin" /\ TryClaim(t)

\* Mutant: the tries are not counted.
SpinYieldForever(t) ==
  /\ pc[t] = "spin"
  /\ owning_thread # t /\ lock_queue # 0
  /\ UNCHANGED vars

\* Mutant: the thread goes on after its last try.
SpinYieldLate(t) ==
  /\ pc[t] = "spin"
  /\ owning_thread # t /\ lock_queue # 0
  /\ spin' = [spin EXCEPT ![t] = @ - 1]
  /\ Goto(t, IF spin[t] = 0 THEN "claim" ELSE "spin")
  /\ UNCHANGED <<lock_queue, owning_thread, recursion, semaphore, held>>

SpinYield(t) ==
  /\ pc[t] = "spin"
  /\ owning_thread # t /\ lock_queue # 0
  /\ spin' = [spin EXCEPT ![t] = @ - 1]
  /\ Goto(t, IF spin[t] = 1 THEN "claim" ELSE "spin")
  /\ UNCHANGED <<lock_queue, owning_thread, recursion, semaphore, held>>

Claim(t) ==
  /\ pc[t] = "claim"
  /\ lock_queue' = lock_queue + 1
  /\ Goto(t, IF lock_queue' > 1 THEN "wait" ELSE "own")
  /\ UNCHANGED <<owning_thread, recursion, semaphore, spin, held>>

Wait(t) ==
  /\ pc[t] = "wait" /\ semaphore > 0
  /\ semaphore' = semaphore - 1
  /\ Goto(t, "own")
  /\ UNCHANGED <<lock_queue, owning_thread, recursion, spin, held>>

Own(t) ==
  /\ pc[t] = "own"
  /\ owning_thread' = t
  /\ recursion' = recursion + 1
  /\ held' = [held EXCEPT ![t] = @ + 1]
  /\ Goto(t, "run")
  /\ UNCHANGED <<lock_queue, semaphore, spin>>

Leave(t) ==
  /\ pc[t] = "run" /\ held[t] > 0
  /\ recursion' = recursion - 1
  /\ owning_thread' = IF recursion' = 0 THEN NoThread ELSE owning_thread
  /\ held' = [held EXCEPT ![t] = @ - 1]
  /\ Goto(t, "leave")
  /\ UNCHANGED <<lock_queue, semaphore, spin>>

Release(t) ==
  /\ pc[t] = "leave"
  /\ lock_queue' = lock_queue - 1
  /\ Goto(t, IF lock_queue' > 0 THEN "signal" ELSE "run")
  /\ UNCHANGED <<owning_thread, recursion, semaphore, spin, held>>

\* Mutant: the end of a nested section signals, too.
SignalAlways(t) ==
  /\ pc[t] = "signal"
  /\ semaphore' = semaphore + 1
  /\ Goto(t, "run")
  /\ UNCHANGED <<lock_queue, owning_thread, recursion, spin, held>>

\* recursion is read again, after the claim was given up.
Signal(t) ==
  /\ pc[t] = "signal"
  /\ semaphore' = IF recursion = 0 THEN semaphore + 1 ELSE semaphore
  /\ Goto(t, "run")
  /\ UNCHANGED <<lock_queue, owning_thread, recursion, spin, held>>

\* What a thread inside Enter, TryEnter or Leave does next, the wait apart.
Run(t) ==
  \/ SpinClaim(t)
  \/ SpinYield(t)
  \/ Claim(t)
  \/ Own(t)
  \/ Release(t)
  \/ Signal(t)

Next == \E t \in Thread : Enter(t) \/ TryEnter(t) \/ Run(t) \/ Wait(t) \/ Leave(t)

Spec == Init /\ [][Next]_vars

\* Every thread runs; the outermost CritScope of a thread ends, however often
\* it nests others; the semaphore does not pass over a waiter for ever.
Fairness ==
  \A t \in Thread : /\ WF_vars(Run(t))
                    /\ SF_vars(Wait(t))
                    /\ WF_vars(Leave(t))
                    /\ SF_vars(held[t] = 1 /\ Leave(t))

FairSpec == Spec /\ Fairness

-----------------------------------------------------------------------------
Label == {"run", "spin", "claim", "wait", "own", "leave", "signal"}

TypeOK ==
  /\ lock_queue \in Nat
  /\ owning_thread \in Thread \cup {NoThread}
  /\ recursion \in Nat
  /\ semaphore \in Nat
  /\ pc \in [Thread -> Label]
  /\ spin \in [Thread -> 0 .. MaxSpin]
  /\ held \in [Thread -> 0 .. MaxDepth]

\* Two threads are never inside a critical section together, and a thread
\* that was let in finds the lock without an owner (the checks of Enter,
\* critical_section.cc:98-102, and of Leave, l.171).
MutualExclusion ==
  \A t, u \in Thread :
    /\ held[t] > 0 /\ held[u] > 0 => t = u
    /\ held[t] > 0 => owning_thread = t
    /\ pc[t] = "own" => owning_thread \in {t, NoThread}

\* A thread that calls Enter gets in: no signal is lost between the counter
\* and the semaphore, and none is given while a nested scope goes on.
EnterReturns ==
  \A t \in Thread : pc[t] \in {"spin", "claim", "wait"} ~> pc[t] = "own"
=============================================================================
