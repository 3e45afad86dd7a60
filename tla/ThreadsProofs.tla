--------------------------- MODULE ThreadsProofs ---------------------------
(***************************************************************************)
(* The lock, the event and the trace log, for every number of threads.     *)
(*                                                                         *)
(* The lock of critical_section.cc excludes, at every depth of nesting and *)
(* with every number of tries.  At any moment at most one thread holds it, *)
(* from its claim to its last signal; the counter is its claims plus the   *)
(* waiters, and the semaphore is signalled exactly when somebody waits and *)
(* nobody holds.                                                           *)
(*                                                                         *)
(* The event of event.cc is a latch: a flag, a mutex and a condition       *)
(* variable let exactly one waiter through for a signal, or all until it   *)
(* is reset, and a wait without a limit does not give up although it       *)
(* begins as a timed one.                                                  *)
(*                                                                         *)
(* The log of event_tracer.cc loses nothing: what was put into its queue   *)
(* is in the file, in the hands of the logging thread or in the queue, and *)
(* when Stop is back the file holds all that was there before.             *)
(*                                                                         *)
(* What they promise of progress needs fairness and is left to the model   *)
(* checker.                                                                *)
(***************************************************************************)
EXTENDS MCThreads, FiniteSetTheorems, SequenceTheorems, TLAPS

(* The lock *)

Waiting == {t \in Thread : pc[t] = "wait"}

Holds(t) == held[t] > 0 \/ pc[t] \in {"own", "leave", "signal"}

Claims(t) == held[t] + IF pc[t] \in {"own", "leave"} THEN 1 ELSE 0

Local ==
  \A t \in Thread :
    /\ pc[t] \in {"claim", "wait"} => held[t] = 0
    /\ pc[t] = "spin" => spin[t] > 0
    /\ pc[t] \in {"spin", "own"} => held[t] < MaxDepth

OneHolder == \A t, u \in Thread : Holds(t) /\ Holds(u) => t = u

Free ==
  (\A t \in Thread : ~Holds(t)) =>
    /\ recursion = 0
    /\ owning_thread = NoThread
    /\ lock_queue = Cardinality(Waiting)
    /\ semaphore = IF Waiting = {} THEN 0 ELSE 1

Held ==
  \A t \in Thread : Holds(t) =>
    /\ recursion = held[t]
    /\ owning_thread = IF held[t] > 0 THEN t ELSE NoThread
    /\ lock_queue = Cardinality(Waiting) + Claims(t)
    /\ semaphore = 0
    /\ pc[t] = "signal" /\ held[t] = 0 => Waiting # {}

LockInv == TypeOK /\ Local /\ OneHolder /\ Free /\ Held

\* The waiters are finitely many; one more adds one, one less takes one.
LEMMA WaitingCount ==
  ASSUME TypeOK
  PROVE  /\ Cardinality(Waiting) \in Nat
         /\ Waiting = {} <=> Cardinality(Waiting) = 0
         /\ \A t \in Thread : t \notin Waiting
              => Cardinality(Waiting \cup {t}) = Cardinality(Waiting) + 1
         /\ \A t \in Waiting : Cardinality(Waiting \ {t}) = Cardinality(Waiting) - 1
<1>1. IsFiniteSet(Waiting)
  BY FS_Subset, ThreadAssumption DEF Waiting
<1> QED
  BY <1>1, FS_CardinalityType, FS_EmptySet, FS_AddElement, FS_RemoveElement

\* The claim of a thread that finds the counter 0, or owns the lock.
LEMMA TryClaimStep ==
  ASSUME LockInv, NEW t \in Thread, pc[t] \in {"run", "spin"}, held[t] < MaxDepth,
         TryClaim(t)
  PROVE  LockInv'
<1>1. Waiting' = Waiting
  BY DEF Waiting, TryClaim, Goto, LockInv, TypeOK
<1>2. \A u \in Thread : u # t => /\ Holds(u)' <=> Holds(u)
                                 /\ pc'[u] = pc[u]
  BY DEF Holds, TryClaim, Goto, LockInv, TypeOK
<1>3. \A u \in Thread : Holds(u) => u = t
  <2> SUFFICES ASSUME NEW u \in Thread, Holds(u), u # t PROVE FALSE
    OBVIOUS
  <2>1. lock_queue = Cardinality(Waiting) + Claims(u) /\ owning_thread # t
    BY ThreadAssumption DEF LockInv, Held, TypeOK
  <2>2. lock_queue = 0
    BY <2>1 DEF TryClaim
  <2>3. Claims(u) = 0 /\ Cardinality(Waiting) = 0
    BY <2>1, <2>2, WaitingCount DEF LockInv, TypeOK, Claims
  <2>4. pc[u] = "signal" /\ held[u] = 0
    BY <2>3 DEF Claims, Holds, LockInv, TypeOK
  <2> QED
    BY <2>3, <2>4, WaitingCount DEF LockInv, Held
<1>4. TypeOK' /\ Local'
  BY <1>2 DEF LockInv, TypeOK, Local, TryClaim, Goto, Label
<1>5. OneHolder' /\ Free'
  BY <1>2, <1>3 DEF OneHolder, Free, Holds, TryClaim, Goto, LockInv, TypeOK
<1>6. Held'
  <2>1. Holds(t) => lock_queue = Cardinality(Waiting) + held[t]
    <3>1. Claims(t) = held[t]
      BY DEF Claims, LockInv, TypeOK
    <3> QED
      BY <3>1 DEF LockInv, Held
  <2>2. ~Holds(t) => held[t] = 0 /\ lock_queue = Cardinality(Waiting) /\ recursion = 0
    BY <1>3 DEF LockInv, Free, Holds, TypeOK
  <2>3. semaphore = 0
    BY <1>3, <2>2, WaitingCount, ThreadAssumption
       DEF LockInv, Free, Held, TryClaim, TypeOK
  <2>4. Claims(t)' = held[t] + 1
    BY DEF Claims, TryClaim, Goto, LockInv, TypeOK
  <2>5. lock_queue' = Cardinality(Waiting)' + Claims(t)'
    BY <2>1, <2>2, <2>4, <1>1, WaitingCount DEF TryClaim, LockInv, TypeOK
  <2>6. recursion' = held'[t] /\ owning_thread' = IF held'[t] > 0 THEN t ELSE NoThread
    BY <1>3, <2>2 DEF LockInv, Held, Free, TryClaim, TypeOK
  <2> QED
    BY <1>2, <1>3, <2>3, <2>5, <2>6 DEF Held, TryClaim, Goto, LockInv, TypeOK
<1> QED
  BY <1>4, <1>5, <1>6 DEF LockInv

\* A step of t that leaves the waiters, the claims and the lock as they are.
LEMMA QuietStep ==
  ASSUME LockInv, NEW t \in Thread, NEW l \in {"spin", "claim"},
         pc[t] \in {"run", "spin"}, Goto(t, l),
         l = "claim" => held[t] = 0,
         l = "spin" => spin'[t] > 0 /\ held[t] < MaxDepth,
         spin' \in [Thread -> 0 .. MaxSpin], \A u \in Thread \ {t} : spin'[u] = spin[u],
         UNCHANGED <<lock_queue, owning_thread, recursion, semaphore, held>>
  PROVE  LockInv'
<1>1. Waiting' = Waiting
  BY DEF Waiting, Goto, LockInv, TypeOK
<1>2. \A u \in Thread : /\ Holds(u)' <=> Holds(u)
                        /\ Claims(u)' = Claims(u)
  BY DEF Holds, Claims, Goto, LockInv, TypeOK
<1>3. TypeOK' /\ Local'
  BY DEF LockInv, TypeOK, Local, Goto, Label
<1>4. OneHolder' /\ Free'
  BY <1>1, <1>2 DEF OneHolder, Free, LockInv
<1>5. \A u \in Thread : pc'[u] = "signal" => pc[u] = "signal"
  BY DEF Goto, LockInv, TypeOK
<1>6. Held'
  BY <1>1, <1>2, <1>5 DEF Held, LockInv
<1> QED
  BY <1>3, <1>4, <1>6 DEF LockInv

LEMMA ClaimStep ==
  ASSUME LockInv, NEW t \in Thread, Claim(t)
  PROVE  LockInv'
<1>1. /\ pc[t] = "claim" /\ held[t] = 0 /\ ~Holds(t)
  BY DEF LockInv, Local, Claim, Holds, TypeOK
<1>2. \A u \in Thread : u # t => /\ Holds(u)' <=> Holds(u)
                                 /\ Claims(u)' = Claims(u)
                                 /\ pc'[u] = pc[u]
  BY DEF Holds, Claims, Claim, Goto, LockInv, TypeOK
<1>3. CASE lock_queue' > 1
  <2>1. Waiting' = Waiting \cup {t} /\ t \notin Waiting /\ ~Holds(t)'
    BY <1>1, <1>3 DEF Waiting, Claim, Goto, Holds, LockInv, TypeOK
  <2>2. Cardinality(Waiting') = Cardinality(Waiting) + 1
    BY <2>1, WaitingCount DEF LockInv
  <2>3. TypeOK' /\ Local'
    BY <1>1, <1>3 DEF LockInv, TypeOK, Local, Claim, Goto, Label
  <2>4. OneHolder'
    BY <1>2, <2>1 DEF OneHolder, LockInv
  <2>5. Free'
    <3> SUFFICES ASSUME \A u \in Thread : ~Holds(u)
                 PROVE  /\ recursion' = 0
                        /\ owning_thread' = NoThread
                        /\ lock_queue' = Cardinality(Waiting)'
                        /\ semaphore' = 1
      BY <1>1, <1>2, <2>1 DEF Free
    <3>1. lock_queue = Cardinality(Waiting) /\ Waiting # {}
      BY <1>3, WaitingCount DEF LockInv, Free, Claim, TypeOK
    <3> QED
      BY <2>2, <3>1 DEF LockInv, Free, Claim
  <2>6. Held'
    <3> SUFFICES ASSUME NEW u \in Thread, Holds(u)'
                 PROVE  /\ recursion' = held'[u]
                        /\ owning_thread' = IF held'[u] > 0 THEN u ELSE NoThread
                        /\ lock_queue' = Cardinality(Waiting)' + Claims(u)'
                        /\ semaphore' = 0
                        /\ Waiting' # {}
      BY DEF Held
    <3>1. u # t /\ Holds(u) /\ Claims(u)' = Claims(u) /\ Claims(u) \in Nat
      BY <1>2, <2>1 DEF Claims, LockInv, TypeOK
    <3> QED
      BY <2>1, <2>2, <3>1, WaitingCount DEF LockInv, Held, Claim, TypeOK
  <2> QED
    BY <2>3, <2>4, <2>5, <2>6 DEF LockInv
<1>4. CASE ~(lock_queue' > 1)
  <2>1. Waiting' = Waiting /\ lock_queue = 0 /\ pc'[t] = "own" /\ Holds(t)'
    BY <1>1, <1>4 DEF Waiting, Claim, Goto, Holds, LockInv, TypeOK
  <2>2. \A u \in Thread : ~Holds(u)
    <3> SUFFICES ASSUME NEW u \in Thread, Holds(u) PROVE FALSE
      OBVIOUS
    <3>1. Claims(u) = 0 /\ Cardinality(Waiting) = 0
      BY <2>1, WaitingCount DEF LockInv, Held, TypeOK, Claims
    <3>2. pc[u] = "signal" /\ held[u] = 0
      BY <3>1 DEF Claims, Holds, LockInv, TypeOK
    <3> QED
      BY <3>1, <3>2, WaitingCount DEF LockInv, Held
  <2>3. TypeOK' /\ Local'
    BY <1>1, <1>4, SpinAssumption DEF LockInv, TypeOK, Local, Claim, Goto, Label
  <2>4. OneHolder' /\ Free'
    BY <1>2, <2>1, <2>2 DEF OneHolder, Free
  <2>5. Claims(t)' = 1
    BY <1>1, <2>1 DEF Claims, Claim
  <2>6. /\ recursion = 0 /\ owning_thread = NoThread /\ semaphore = 0
        /\ Cardinality(Waiting) = 0
    BY <2>1, <2>2, WaitingCount DEF LockInv, Free
  <2>7. \A u \in Thread : Holds(u)' => u = t
    BY <1>2, <2>2
  <2> QED
    BY <1>1, <2>1, <2>3, <2>4, <2>5, <2>6, <2>7 DEF LockInv, Held, Claim
<1> QED
  BY <1>3, <1>4

\* The signal hands the lock to one waiter, whichever it is.
LEMMA WaitStep ==
  ASSUME LockInv, NEW t \in Thread, Wait(t)
  PROVE  LockInv'
<1>1. t \in Waiting /\ held[t] = 0 /\ ~Holds(t)
  BY DEF LockInv, Local, Wait, Holds, TypeOK, Waiting
<1>2. \A u \in Thread : ~Holds(u)
  BY DEF LockInv, Held, Wait, TypeOK
<1>3. /\ Waiting' = Waiting \ {t} /\ pc'[t] = "own" /\ Holds(t)' /\ Claims(t)' = 1
  BY <1>1 DEF Waiting, Wait, Goto, Holds, Claims, LockInv, TypeOK
<1>4. Cardinality(Waiting') = Cardinality(Waiting) - 1
  BY <1>1, <1>3, WaitingCount DEF LockInv
<1>5. \A u \in Thread : Holds(u)' => u = t
  BY <1>2 DEF Holds, Wait, Goto, LockInv, TypeOK
<1>6. TypeOK' /\ Local'
  BY <1>1, SpinAssumption DEF LockInv, TypeOK, Local, Wait, Goto, Label
<1>7. OneHolder' /\ Free'
  BY <1>3, <1>5 DEF OneHolder, Free
<1>8. /\ recursion = 0 /\ owning_thread = NoThread /\ semaphore = 1
      /\ lock_queue = Cardinality(Waiting)
  BY <1>1, <1>2 DEF LockInv, Free
<1>9. Held'
  BY <1>1, <1>3, <1>4, <1>5, <1>8, WaitingCount DEF Held, Wait, LockInv
<1> QED
  BY <1>6, <1>7, <1>9 DEF LockInv

LEMMA OwnStep ==
  ASSUME LockInv, NEW t \in Thread, Own(t)
  PROVE  LockInv'
<1>1. Waiting' = Waiting
  BY DEF Waiting, Own, Goto, LockInv, TypeOK
<1>2. Holds(t) /\ Holds(t)' /\ Claims(t)' = Claims(t) /\ pc'[t] = "run"
  BY DEF Holds, Claims, Own, Goto, LockInv, TypeOK
<1>3. \A u \in Thread : Holds(u)' => u = t
  BY <1>2 DEF Holds, Own, Goto, LockInv, TypeOK, OneHolder
<1>4. TypeOK' /\ Local'
  <2>1. held[t] \in 0 .. MaxDepth - 1
    BY SpinAssumption DEF LockInv, TypeOK, Local, Own
  <2> QED
    BY <2>1, SpinAssumption DEF LockInv, TypeOK, Local, Own, Goto, Label
<1>5. OneHolder' /\ Free'
  BY <1>2, <1>3 DEF OneHolder, Free
<1>6. recursion' = held'[t] /\ held'[t] > 0
  BY <1>2 DEF LockInv, Held, Own, TypeOK
<1>7. semaphore' = 0 /\ lock_queue' = Cardinality(Waiting)' + Claims(t)'
  BY <1>1, <1>2 DEF LockInv, Held, Own
<1>8. Held'
  BY <1>2, <1>3, <1>6, <1>7 DEF Held, Own
<1> QED
  BY <1>4, <1>5, <1>8 DEF LockInv

LEMMA LeaveStep ==
  ASSUME LockInv, NEW t \in Thread, Leave(t)
  PROVE  LockInv'
<1>1. Waiting' = Waiting
  BY DEF Waiting, Leave, Goto, LockInv, TypeOK
<1>2. Holds(t) /\ Holds(t)' /\ Claims(t)' = Claims(t) /\ pc'[t] = "leave"
  BY DEF Holds, Claims, Leave, Goto, LockInv, TypeOK
<1>3. \A u \in Thread : Holds(u)' => u = t
  BY <1>2 DEF Holds, Leave, Goto, LockInv, TypeOK, OneHolder
<1>4. recursion = held[t] /\ owning_thread = t
  BY <1>2 DEF LockInv, Held, Leave
<1>5. TypeOK' /\ Local'
  <2>1. held[t] \in 1 .. MaxDepth /\ recursion - 1 \in Nat
    BY <1>4 DEF LockInv, TypeOK, Leave
  <2>2. held[t] - 1 \in 0 .. MaxDepth
    BY <2>1, SpinAssumption
  <2>3. TypeOK'
    BY <2>1, <2>2 DEF LockInv, TypeOK, Leave, Goto, Label
  <2>4. Local'
    BY <2>1 DEF LockInv, TypeOK, Local, Leave, Goto
  <2> QED
    BY <2>3, <2>4
<1>6. OneHolder' /\ Free'
  BY <1>2, <1>3 DEF OneHolder, Free
<1>7. recursion' = held'[t] /\ held'[t] \in Nat
  BY <1>4 DEF LockInv, Leave, TypeOK
<1>8. owning_thread' = IF held'[t] > 0 THEN t ELSE NoThread
  <2>1. owning_thread' = IF recursion' = 0 THEN NoThread ELSE t
    BY <1>4 DEF Leave
  <2> QED
    BY <1>7, <2>1
<1>9. semaphore' = 0 /\ lock_queue' = Cardinality(Waiting)' + Claims(t)'
  BY <1>1, <1>2 DEF LockInv, Held, Leave
<1>10. Held'
  BY <1>2, <1>3, <1>7, <1>8, <1>9 DEF Held
<1> QED
  BY <1>5, <1>6, <1>10 DEF LockInv

LEMMA ReleaseStep ==
  ASSUME LockInv, NEW t \in Thread, Release(t)
  PROVE  LockInv'
<1>1. Waiting' = Waiting
  BY DEF Waiting, Release, Goto, LockInv, TypeOK
<1>2. Holds(t) /\ Claims(t) = held[t] + 1
  BY DEF Holds, Claims, Release, LockInv, TypeOK
<1>3. \A u \in Thread : Holds(u)' => u = t
  BY <1>2 DEF Holds, Release, Goto, LockInv, TypeOK, OneHolder
<1>4. /\ lock_queue' = Cardinality(Waiting) + held[t] /\ lock_queue' \in Nat
      /\ semaphore = 0 /\ recursion = held[t]
      /\ owning_thread = IF held[t] > 0 THEN t ELSE NoThread
  BY <1>2, WaitingCount DEF LockInv, Held, Release, TypeOK
<1>5. TypeOK' /\ Local'
  BY <1>4 DEF LockInv, TypeOK, Local, Release, Goto, Label
<1>6. OneHolder'
  BY <1>3 DEF OneHolder
<1>7. CASE Holds(t)'
  <2>1. Claims(t)' = held[t]
    BY DEF Claims, Release, Goto, LockInv, TypeOK
  <2>2. pc'[t] = "signal" /\ held[t] = 0 => Waiting # {}
    BY <1>4, WaitingCount DEF Release, Goto, LockInv, TypeOK
  <2> QED
    BY <1>1, <1>3, <1>4, <1>5, <1>6, <1>7, <2>1, <2>2
       DEF LockInv, Held, Free, Release
<1>8. CASE ~Holds(t)'
  <2>1. held[t] = 0 /\ lock_queue' = 0
    BY <1>8, <1>4 DEF Holds, Release, Goto, LockInv, TypeOK
  <2>2. Waiting = {} /\ Cardinality(Waiting) = 0
    BY <2>1, <1>4, WaitingCount DEF LockInv
  <2> QED
    BY <1>1, <1>3, <1>4, <1>5, <1>6, <1>8, <2>1, <2>2
       DEF LockInv, Held, Free, Release
<1> QED
  BY <1>7, <1>8

LEMMA SignalStep ==
  ASSUME LockInv, NEW t \in Thread, Signal(t)
  PROVE  LockInv'
<1>1. Waiting' = Waiting
  BY DEF Waiting, Signal, Goto, LockInv, TypeOK
<1>2. Holds(t) /\ Claims(t) = held[t] /\ Claims(t)' = held[t] /\ pc'[t] = "run"
  BY DEF Holds, Claims, Signal, Goto, LockInv, TypeOK
<1>3. \A u \in Thread : Holds(u)' => u = t
  BY <1>2 DEF Holds, Signal, Goto, LockInv, TypeOK, OneHolder
<1>4. /\ lock_queue = Cardinality(Waiting) + held[t]
      /\ semaphore = 0 /\ recursion = held[t]
      /\ owning_thread = IF held[t] > 0 THEN t ELSE NoThread
      /\ held[t] = 0 => Waiting # {}
  BY <1>2 DEF LockInv, Held, Signal
<1>5. TypeOK' /\ Local'
  BY DEF LockInv, TypeOK, Local, Signal, Goto, Label
<1>6. OneHolder'
  BY <1>3 DEF OneHolder
<1>7. held[t] > 0 <=> Holds(t)'
  BY <1>2 DEF Holds, Signal
<1>8. CASE held[t] > 0
  BY <1>1, <1>2, <1>3, <1>4, <1>5, <1>6, <1>7, <1>8 DEF LockInv, Held, Free, Signal
<1>9. CASE held[t] = 0
  <2>1. \A u \in Thread : ~Holds(u)'
    BY <1>3, <1>7, <1>9
  <2> QED
    BY <1>1, <1>4, <1>5, <1>6, <1>9, <2>1, WaitingCount DEF LockInv, Held, Free, Signal
<1> QED
  BY <1>8, <1>9 DEF LockInv, TypeOK

LEMMA LockInductive == LockInv /\ [Next]_vars => LockInv'
<1> SUFFICES ASSUME LockInv, [Next]_vars PROVE LockInv'
  OBVIOUS
<1>1. ASSUME NEW t \in Thread, Enter(t) PROVE LockInv'
  BY <1>1, QuietStep, SpinAssumption DEF Enter, LockInv, TypeOK
<1>2. ASSUME NEW t \in Thread, TryEnter(t) PROVE LockInv'
  BY <1>2, TryClaimStep DEF TryEnter
<1>3. ASSUME NEW t \in Thread, SpinClaim(t) PROVE LockInv'
  BY <1>3, TryClaimStep DEF SpinClaim, LockInv, Local
<1>4. ASSUME NEW t \in Thread, SpinYield(t) PROVE LockInv'
  <2>1. spin[t] \in 1 .. MaxSpin /\ held[t] < MaxDepth
    BY <1>4 DEF SpinYield, LockInv, Local, TypeOK
  <2>2. held[t] = 0
    BY <1>4 DEF SpinYield, LockInv, Held, Holds, TypeOK
  <2>3. /\ spin' \in [Thread -> 0 .. MaxSpin]
        /\ \A u \in Thread \ {t} : spin'[u] = spin[u]
        /\ spin'[t] = spin[t] - 1
    <3>1. spin[t] - 1 \in 0 .. MaxSpin
      BY <2>1, SpinAssumption
    <3>2. spin \in [Thread -> 0 .. MaxSpin] /\ spin' = [spin EXCEPT ![t] = spin[t] - 1]
      BY <1>4 DEF SpinYield, LockInv, TypeOK
    <3> QED
      BY <3>1, <3>2
  <2>4. CASE spin[t] = 1
    <3>1. Goto(t, "claim")
      BY <1>4, <2>4 DEF SpinYield
    <3> QED
      BY <1>4, <2>2, <2>3, <3>1, QuietStep DEF SpinYield
  <2>5. CASE spin[t] # 1
    <3>1. Goto(t, "spin") /\ spin'[t] > 0
      BY <1>4, <2>1, <2>3, <2>5 DEF SpinYield
    <3> QED
      BY <1>4, <2>1, <2>3, <3>1, QuietStep DEF SpinYield
  <2> QED
    BY <2>4, <2>5
<1>5. ASSUME NEW t \in Thread, Claim(t) PROVE LockInv'
  BY <1>5, ClaimStep
<1>6. ASSUME NEW t \in Thread, Wait(t) PROVE LockInv'
  BY <1>6, WaitStep
<1>7. ASSUME NEW t \in Thread, Own(t) PROVE LockInv'
  BY <1>7, OwnStep
<1>8. ASSUME NEW t \in Thread, Leave(t) PROVE LockInv'
  BY <1>8, LeaveStep
<1>9. ASSUME NEW t \in Thread, Release(t) PROVE LockInv'
  BY <1>9, ReleaseStep
<1>10. ASSUME NEW t \in Thread, Signal(t) PROVE LockInv'
  BY <1>10, SignalStep
<1>11. CASE UNCHANGED vars
  BY <1>11 DEF vars, LockInv, TypeOK, Local, OneHolder, Free, Held, Holds, Claims, Waiting
<1> QED
  BY <1>1, <1>2, <1>3, <1>4, <1>5, <1>6, <1>7, <1>8, <1>9, <1>10, <1>11 DEF Next, Run

LEMMA LockInitial == Init => LockInv
<1> SUFFICES ASSUME Init PROVE LockInv
  OBVIOUS
<1>1. Waiting = {} /\ \A t \in Thread : ~Holds(t)
  BY DEF Init, Waiting, Holds
<1>2. TypeOK /\ Local
  BY SpinAssumption DEF Init, TypeOK, Local, Label
<1> QED
  BY <1>1, <1>2, FS_EmptySet DEF Init, LockInv, OneHolder, Free, Held

LEMMA LockInvariance == Spec => []LockInv
BY LockInitial, LockInductive, PTL DEF Spec

\* Every field stays in its range: the counter and the semaphore never go
\* below zero, and no thread is inside more often than it nests.
THEOREM CriticalSectionTypes == Spec => []TypeOK
<1>1. LockInv => TypeOK
  BY DEF LockInv
<1> QED
  BY <1>1, LockInvariance, PTL

\* Mutual exclusion and the checks of Enter and Leave, for every number of
\* threads and every depth of nesting.
THEOREM CriticalSectionExcludes == Spec => []MutualExclusion
<1>1. LockInv => MutualExclusion
  <2> SUFFICES ASSUME LockInv, NEW t \in Thread, NEW u \in Thread
               PROVE  /\ held[t] > 0 /\ held[u] > 0 => t = u
                      /\ held[t] > 0 => owning_thread = t
                      /\ pc[t] = "own" => owning_thread \in {t, NoThread}
    BY DEF MutualExclusion
  <2>1. held[t] > 0 \/ pc[t] = "own" => Holds(t)
    BY DEF Holds
  <2>2. held[u] > 0 => Holds(u)
    BY DEF Holds
  <2> QED
    BY <2>1, <2>2 DEF LockInv, OneHolder, Held
<1> QED
  BY <1>1, LockInvariance, PTL

\* No claim is ever forgotten: as long as anybody waits and nobody holds the
\* lock, the semaphore is signalled.
THEOREM NoLostSignal ==
  Spec => [](Waiting # {} /\ (\A t \in Thread : ~Holds(t)) => semaphore = 1)
<1>1. LockInv => (Waiting # {} /\ (\A t \in Thread : ~Holds(t)) => semaphore = 1)
  BY DEF LockInv, Free
<1> QED
  BY <1>1, LockInvariance, PTL

-----------------------------------------------------------------------------
(* The event *)

\* Where a thread is woken a second time, or waits without a limit, it asked
\* for that.
ForeverAsked == \A t \in Waiter : at[t] \in {"wait", "rewoken"} => asked[t] = "forever"

FlagInv == Flag!TypeOK /\ ForeverAsked

\* The steps of one thread, each on its own.
LEMMA FlagInductive == FlagInv /\ [Flag!Next]_(Flag!vars) => FlagInv'
<1> SUFFICES ASSUME FlagInv, [Flag!Next]_(Flag!vars) PROVE FlagInv'
  OBVIOUS
<1> USE DEF FlagInv, Flag!TypeOK, ForeverAsked
<1>1. CASE UNCHANGED Flag!vars
  BY <1>1 DEF Flag!vars, Flag!state
<1>2. CASE UNCHANGED is_manual_reset /\ Flag!Set
  BY <1>2 DEF Flag!Set, Flag!Woken
<1>3. CASE UNCHANGED is_manual_reset /\ Flag!Reset
  BY <1>3 DEF Flag!Reset
<1>4. ASSUME NEW t \in Waiter, UNCHANGED is_manual_reset, Flag!Expire(t) PROVE FlagInv'
  BY <1>4 DEF Flag!Expire
<1>5. ASSUME NEW t \in Waiter, UNCHANGED is_manual_reset, Flag!Resume(t) PROVE FlagInv'
  BY <1>5 DEF Flag!Resume, Flag!Pass, Flag!Block
<1>6. ASSUME NEW t \in Waiter, UNCHANGED is_manual_reset, Flag!TimedOut(t) PROVE FlagInv'
  BY <1>6 DEF Flag!TimedOut
<1>7. ASSUME NEW t \in Waiter, UNCHANGED is_manual_reset, Flag!WaitOn(t) PROVE FlagInv'
  BY <1>7 DEF Flag!WaitOn, Flag!Pass, Flag!Block
<1>8. ASSUME NEW t \in Waiter, NEW how \in {"timed", "forever"},
             UNCHANGED is_manual_reset, Flag!Wait(t, how)
      PROVE  FlagInv'
  BY <1>8 DEF Flag!Wait, Flag!Pass, Flag!Block
<1> QED
  BY <1>1, <1>2, <1>3, <1>4, <1>5, <1>6, <1>7, <1>8 DEF Flag!Next, Flag!Go

LEMMA FlagInitial == Flag!Init => FlagInv
BY DEF Flag!Init, FlagInv, Flag!TypeOK, ForeverAsked

LEMMA FlagInvariance == Flag!Init /\ [][Flag!Next]_(Flag!vars) => []FlagInv
BY FlagInitial, FlagInductive, PTL

-----------------------------------------------------------------------------
(* Each step is one of the latch, or none. *)

\* A thread that moves from one wait to another waits as before.
LEMMA StillWaiting ==
  ASSUME FlagInv, NEW t \in Waiter, NEW place \in {"timedwait", "wait", "expired"},
         at[t] # "out", at' = [at EXCEPT ![t] = place],
         UNCHANGED <<is_manual_reset, event_status, asked, result>>
  PROVE  UNCHANGED Flag!Abstract!vars
<1>1. Flag!Waits' = Flag!Waits
  BY DEF Flag!Waits, FlagInv, Flag!TypeOK
<1> QED
  BY <1>1 DEF Flag!Abstract!vars, Flag!Abstract!state

LEMMA PassIsPass ==
  ASSUME FlagInv, NEW t \in Waiter, at[t] # "out", Flag!Pass(t),
         UNCHANGED <<is_manual_reset, asked>>
  PROVE  Flag!Abstract!Pass(t)
<1>1. Flag!Waits[t] # "out"
  BY DEF Flag!Waits, FlagInv, Flag!TypeOK
<1>2. Flag!Waits' = [Flag!Waits EXCEPT ![t] = "out"]
  BY DEF Flag!Waits, Flag!Pass, FlagInv, Flag!TypeOK
<1> QED
  BY <1>1, <1>2 DEF Flag!Pass, Flag!Abstract!Pass, Flag!Abstract!Leave

LEMMA StepIsLatchStep ==
  ASSUME FlagInv, [Flag!Next]_(Flag!vars)
  PROVE  [Flag!Abstract!Next]_(Flag!Abstract!vars)
<1>1. CASE UNCHANGED Flag!vars
  BY <1>1 DEF Flag!vars, Flag!state, Flag!Waits, Flag!Abstract!vars, Flag!Abstract!state
<1>2. CASE UNCHANGED is_manual_reset /\ Flag!Set
  <2>1. Flag!Waits' = Flag!Waits
    BY <1>2 DEF Flag!Set, Flag!Woken, Flag!Waits, FlagInv, Flag!TypeOK
  <2> QED
    BY <1>2, <2>1 DEF Flag!Set, Flag!Abstract!Next, Flag!Abstract!Set
<1>3. CASE UNCHANGED is_manual_reset /\ Flag!Reset
  <2>1. Flag!Waits' = Flag!Waits
    BY <1>3 DEF Flag!Reset, Flag!Waits
  <2> QED
    BY <1>3, <2>1 DEF Flag!Reset, Flag!Abstract!Next, Flag!Abstract!Reset
<1>4. ASSUME NEW t \in Waiter, UNCHANGED is_manual_reset, Flag!Expire(t)
      PROVE  UNCHANGED Flag!Abstract!vars
  BY <1>4, StillWaiting DEF Flag!Expire
<1>5. ASSUME NEW t \in Waiter, UNCHANGED is_manual_reset, Flag!Resume(t)
      PROVE  [Flag!Abstract!Next]_(Flag!Abstract!vars)
  <2>1. CASE Flag!Pass(t)
    BY <1>5, <2>1, PassIsPass DEF Flag!Resume, Flag!Abstract!Next
  <2>2. CASE Flag!Block(t, "timedwait")
    BY <1>5, <2>2, StillWaiting DEF Flag!Resume, Flag!Block
  <2> QED
    BY <1>5, <2>1, <2>2 DEF Flag!Resume
<1>6. ASSUME NEW t \in Waiter, UNCHANGED is_manual_reset, Flag!TimedOut(t)
      PROVE  Flag!Abstract!GiveUp(t)
  <2>1. Flag!Waits[t] = "timed" /\ Flag!Waits' = [Flag!Waits EXCEPT ![t] = "out"]
    BY <1>6 DEF Flag!TimedOut, Flag!Waits, FlagInv, Flag!TypeOK
  <2> QED
    BY <1>6, <2>1 DEF Flag!TimedOut, Flag!Abstract!GiveUp, Flag!Abstract!Leave
<1>7. ASSUME NEW t \in Waiter, UNCHANGED is_manual_reset, Flag!WaitOn(t)
      PROVE  [Flag!Abstract!Next]_(Flag!Abstract!vars)
  <2>1. at[t] # "out"
    BY <1>7 DEF Flag!WaitOn
  <2>2. CASE Flag!Pass(t)
    BY <1>7, <2>1, <2>2, PassIsPass DEF Flag!WaitOn, Flag!Abstract!Next
  <2>3. CASE Flag!Block(t, "wait")
    BY <1>7, <2>1, <2>3, StillWaiting DEF Flag!WaitOn, Flag!Block
  <2> QED
    BY <1>7, <2>2, <2>3 DEF Flag!WaitOn
<1>8. ASSUME NEW t \in Waiter, NEW how \in {"timed", "forever"},
             UNCHANGED is_manual_reset, Flag!Wait(t, how)
      PROVE  Flag!Abstract!PassAtOnce(t) \/ Flag!Abstract!Wait(t, how)
  <2>1. at[t] = "out" /\ Flag!Waits[t] = "out"
    BY <1>8 DEF Flag!Wait, Flag!Waits, FlagInv, Flag!TypeOK
  <2>2. CASE Flag!Pass(t)
    <3>1. Flag!Waits' = Flag!Waits
      BY <1>8, <2>1, <2>2 DEF Flag!Wait, Flag!Pass, Flag!Waits, FlagInv, Flag!TypeOK
    <3> QED
      BY <1>8, <2>1, <2>2, <3>1 DEF Flag!Pass, Flag!Abstract!PassAtOnce
  <2>3. CASE Flag!Block(t, "timedwait")
    <3>1. Flag!Waits' = [Flag!Waits EXCEPT ![t] = how]
      BY <1>8, <2>1, <2>3 DEF Flag!Wait, Flag!Block, Flag!Waits, FlagInv, Flag!TypeOK
    <3> QED
      BY <1>8, <2>1, <2>3, <3>1 DEF Flag!Block, Flag!Abstract!Wait
  <2> QED
    BY <1>8, <2>2, <2>3 DEF Flag!Wait
<1> QED
  <2>1. CASE \E t \in Waiter : \/ Flag!Expire(t) \/ Flag!Go(t)
                               \/ Flag!Wait(t, "timed") \/ Flag!Wait(t, "forever")
    <3>1. CASE ~UNCHANGED Flag!vars /\ UNCHANGED is_manual_reset
      <4>1. PICK t \in Waiter : Flag!Expire(t) \/ Flag!Go(t) \/ Flag!Wait(t, "timed") \/ Flag!Wait(t, "forever")
        BY <2>1
      <4>2. Flag!Abstract!GiveUp(t) => Flag!Abstract!Next
        BY <3>1 DEF Flag!Abstract!Next
      <4>3. \A how \in {"timed", "forever"} :
              Flag!Abstract!PassAtOnce(t) \/ Flag!Abstract!Wait(t, how) => Flag!Abstract!Next
        BY <3>1 DEF Flag!Abstract!Next
      <4> QED
        BY <1>4, <1>5, <1>6, <1>7, <1>8, <3>1, <4>1, <4>2, <4>3 DEF Flag!Go
    <3> QED
      BY <1>1, <3>1 DEF Flag!Next
  <2> QED
    BY <1>1, <1>2, <1>3, <2>1 DEF Flag!Next

\* Whatever threads set, reset and wait, and whichever waits run out, the flag
\* with its mutex and its condition variable behaves as a latch does.
THEOREM EventIsLatch ==
  Flag!Init /\ [][Flag!Next]_(Flag!vars) => Flag!Abstract!Init /\ [][Flag!Abstract!Next]_(Flag!Abstract!vars)
<1>1. Flag!Init => Flag!Abstract!Init
  BY DEF Flag!Init, Flag!Waits, Flag!Abstract!Init
<1> QED
  BY <1>1, FlagInvariance, StepIsLatchStep, PTL
-----------------------------------------------------------------------------
(* The trace log *)

Events == (Tracer \cup {Main}) \X (1 .. MaxSessions)

\* What was put into the queue is in the file, with the logging thread or in
\* the queue, in this order.
Queued == traced = (output_file \o events) \o trace_events

Places == {"none", "call", "waits", "write", "ended", "idle", "activate", "spawn",
           "traceStart", "traceStop", "deactivate", "wake", "join"}

\* Where the two threads are together, and what they hold there.
Phases ==
  /\ main_pc \in [{Main, "logger"} -> Places]
  /\ main_pc["logger"] \in {"none", "call", "waits", "write", "ended"}
  /\ main_pc[Main] \in {"idle", "activate", "spawn", "traceStart", "traceStop",
                        "deactivate", "wake", "join"}
  /\ active <=> \/ main_pc[Main] \in {"spawn", "traceStart", "traceStop"}
                \/ main_pc[Main] \in {"idle", "deactivate"} /\ main_pc["logger"] # "none"
  /\ main_pc[Main] \in {"activate", "spawn"} => main_pc["logger"] = "none"
  /\ main_pc[Main] \in {"traceStart", "traceStop"} => main_pc["logger"] # "none"
  /\ active \/ main_pc[Main] = "activate" => session # 0
  /\ main_pc["logger"] # "write" => events = <<>>
  /\ shutdown_at["logger"] \in {"out", "timedwait", "woken", "expired"}
  /\ main_pc["logger"] # "waits" => shutdown_at["logger"] = "out"

\* The logging thread heard of the shutdown.
Down ==
  \/ /\ main_pc["logger"] = "waits" /\ shutdown_at["logger"] = "out"
     /\ shutdown_result["logger"]
  \/ main_pc["logger"] = "write" /\ shutting_down
  \/ main_pc["logger"] = "ended"

\* The shutdown event is set once per session and taken once, and what is due
\* is saved by then.
Stopping ==
  /\ Down \/ shutdown_status => main_pc[Main] = "join"
  /\ ~(Down /\ shutdown_status)
  /\ main_pc["logger"] = "write" /\ shutting_down => Len(output_file \o events) >= due
  /\ main_pc["logger"] = "ended" => Len(output_file) >= due
  /\ main_pc[Main] \in {"idle", "deactivate"} /\ ~active => Len(output_file) >= due

\* A thread has one event of an earlier session at most, in the queue or to be
\* put there.
Old(i) == traced[i][2] # session
OldOnce ==
  \A i \in 1 .. Len(traced) : Old(i) =>
    /\ traced[i][1] \in Tracer
    /\ inside[traced[i][1]] \in {0, session}
    /\ \A j \in 1 .. Len(traced) : Old(j) /\ traced[j][1] = traced[i][1] => i = j

LogInv == Logger!TypeOK /\ Queued /\ Phases /\ Stopping /\ OldOnce

LEMMA LogTypes ==
  ASSUME Logger!TypeOK
  PROVE  /\ {trace_events, traced, output_file, events} \subseteq Seq(Events)
         /\ active \in BOOLEAN /\ shutting_down \in BOOLEAN
         /\ inside \in [Tracer -> 0 .. MaxSessions]
         /\ session \in 0 .. MaxSessions /\ due \in 0 .. Len(traced)
         /\ shutdown_status \in BOOLEAN
         /\ shutdown_at \in [{"logger"} -> {"out", "timedwait", "woken", "expired", "wait",
                                           "rewoken"}]
         /\ shutdown_result \in [{"logger"} -> BOOLEAN]
BY DEF Logger!TypeOK, Logger!shutdown_event!TypeOK, Logger!Logger, Events

LEMMA LogTyped ==
  ASSUME {trace_events, traced, output_file, events} \subseteq Seq(Events),
         active \in BOOLEAN, shutting_down \in BOOLEAN,
         inside \in [Tracer -> 0 .. MaxSessions],
         session \in 0 .. MaxSessions, due \in 0 .. Len(traced),
         shutdown_status \in BOOLEAN,
         shutdown_at \in [{"logger"} -> {"out", "timedwait", "woken", "expired", "wait",
                                        "rewoken"}],
         shutdown_result \in [{"logger"} -> BOOLEAN]
  PROVE  Logger!TypeOK
BY DEF Logger!TypeOK, Logger!shutdown_event!TypeOK, Logger!Logger, Events

LEMMA LogInit == Logger!Init => LogInv
<1> SUFFICES ASSUME Logger!Init PROVE LogInv
  OBVIOUS
<1> DEFINE none == <<>>
<1>1. none \in Seq(Events) /\ Len(none) = 0 /\ (none \o none) \o none = none
  OBVIOUS
<1>2. Main # "logger" /\ MaxSessions \in Nat
  BY LogAssumption
<1>3. /\ trace_events = none /\ traced = none /\ output_file = none /\ events = none
      /\ active = FALSE /\ shutting_down = FALSE /\ shutdown_status = FALSE
      /\ session = 0 /\ due = 0
      /\ inside = [t \in Tracer |-> 0]
      /\ main_pc = [t \in {Main, "logger"} |-> IF t = "logger" THEN "none" ELSE "idle"]
      /\ shutdown_at = [t \in {"logger"} |-> "out"]
      /\ shutdown_result = [t \in {"logger"} |-> FALSE]
  BY DEF Logger!Init, Logger!Logger
<1> HIDE DEF none
<1>4. /\ main_pc[Main] = "idle" /\ main_pc["logger"] = "none"
      /\ shutdown_at["logger"] = "out" /\ shutdown_result["logger"] = FALSE
  BY <1>2, <1>3
<1>5. Logger!TypeOK
  <2>1. inside \in [Tracer -> 0 .. MaxSessions] /\ due \in 0 .. Len(traced) /\ session \in 0 .. MaxSessions
    BY <1>1, <1>2, <1>3
  <2>2. shutdown_at \in [{"logger"} -> {"out", "timedwait", "woken", "expired", "wait",
                                        "rewoken"}]
        /\ shutdown_result \in [{"logger"} -> BOOLEAN]
    BY <1>3
  <2> QED
    BY <1>1, <1>3, <2>1, <2>2, LogTyped
<1>6. Queued
  BY <1>1, <1>3 DEF Queued
<1>7. Phases
  <2>1. main_pc \in [{Main, "logger"} -> Places]
    BY <1>3 DEF Places
  <2>2. ~active /\ events = <<>> /\ session = 0
    BY <1>3 DEF none
  <2> QED
    BY <1>4, <2>1, <2>2 DEF Phases
<1>8. Stopping
  BY <1>1, <1>3, <1>4 DEF Stopping, Down
<1>9. OldOnce
  BY <1>1, <1>3 DEF OldOnce
<1> QED
  BY <1>5, <1>6, <1>7, <1>8, <1>9 DEF LogInv

\* Where the two threads are after a step of one of them.
LEMMA LogSteps ==
  ASSUME Phases, NEW from, NEW to \in Places
  PROVE  /\ Logger!Step(Main, from, to) =>
              /\ main_pc[Main] = from /\ main_pc'[Main] = to
              /\ main_pc'["logger"] = main_pc["logger"]
              /\ main_pc' \in [{Main, "logger"} -> Places]
         /\ Logger!Step("logger", from, to) =>
              /\ main_pc["logger"] = from /\ main_pc'["logger"] = to
              /\ main_pc'[Main] = main_pc[Main]
              /\ main_pc' \in [{Main, "logger"} -> Places]
<1>1. Main # "logger" /\ main_pc \in [{Main, "logger"} -> Places]
  BY LogAssumption DEF Phases
<1> QED
  BY <1>1 DEF Logger!Step

\* What an event put into the queue changes.
LEMMA Enqueued ==
  ASSUME Logger!TypeOK, Queued, NEW t \in Tracer \cup {Main}, NEW of \in 1 .. MaxSessions,
         Logger!Enqueue(t, of)
  PROVE  /\ traced' \in Seq(Events) /\ trace_events' \in Seq(Events)
         /\ Len(traced') = Len(traced) + 1 /\ traced'[Len(traced) + 1] = <<t, of>>
         /\ \A i \in 1 .. Len(traced) : traced'[i] = traced[i]
         /\ due \in 0 .. Len(traced')
         /\ Queued'
         /\ UNCHANGED <<active, output_file, shutting_down, events, session, due,
                        shutdown_status, shutdown_at, shutdown_result>>
<1> DEFINE e == <<t, of>>
<1>1. e \in Events
  BY DEF Events
<1>2. /\ traced' = Append(traced, e) /\ trace_events' = Append(trace_events, e)
      /\ UNCHANGED <<active, output_file, shutting_down, events, session, due,
                     shutdown_status, shutdown_at, shutdown_result>>
  BY DEF Logger!Enqueue, Logger!logging, Logger!event
<1>3. {trace_events, traced, output_file, events} \subseteq Seq(Events) /\ due \in 0 .. Len(traced)
  BY LogTypes
<1>4. Queued'
  <2> DEFINE before == output_file \o events
  <2>1. before \in Seq(Events) /\ <<e>> \in Seq(Events)
    BY <1>1, <1>3
  <2>2. traced = before \o trace_events
    BY DEF Queued
  <2> HIDE DEF before, e
  <2>3. Append(traced, e) = traced \o <<e>> /\ Append(trace_events, e) = trace_events \o <<e>>
    BY <1>1, <1>3, AppendIsConcat
  <2>4. (before \o trace_events) \o <<e>> = before \o (trace_events \o <<e>>)
    <3> DEFINE last == <<e>>
    <3>1. trace_events \in Seq(Events) /\ last \in Seq(Events)
      BY <1>3, <2>1
    <3> HIDE DEF last
    <3>2. (before \o trace_events) \o last = before \o (trace_events \o last)
      BY <2>1, <3>1, ConcatAssociative
    <3> QED
      BY <3>2 DEF last
  <2>5. before' = before
    BY <1>2 DEF before
  <2>6. traced' = before' \o trace_events'
    BY <1>2, <2>2, <2>3, <2>4, <2>5
  <2> QED
    BY <2>6 DEF Queued, before
<1> HIDE DEF e
<1> QED
  <2>1. traced' \in Seq(Events) /\ trace_events' \in Seq(Events) /\ Len(traced') = Len(traced) + 1
        /\ traced'[Len(traced) + 1] = e
        /\ \A i \in 1 .. Len(traced) : traced'[i] = traced[i]
    BY <1>1, <1>2, <1>3
  <2>2. due \in 0 .. Len(traced')
    BY <1>3, <2>1
  <2> QED
    BY <1>2, <1>4, <2>1, <2>2 DEF e

LEMMA LogTrace ==
  ASSUME LogInv, NEW t \in Tracer, Logger!Trace(t) PROVE LogInv'
<1>1. /\ inside[t] = 0 /\ active /\ inside' = [inside EXCEPT ![t] = session]
      /\ UNCHANGED <<active, trace_events, traced, main_pc, output_file, shutting_down, events,
                     shutdown_status, shutdown_at, shutdown_result, session, due>>
  BY DEF Logger!Trace, Logger!queue, Logger!logging, Logger!event
<1>2. Logger!TypeOK'
  BY <1>1, LogTypes, LogTyped DEF LogInv, Logger!TypeOK, Logger!shutdown_event!TypeOK
<1>3. (Queued /\ Phases /\ Stopping)'
  BY <1>1 DEF LogInv, Queued, Phases, Stopping, Down
<1>4. OldOnce'
  BY <1>1, LogTypes DEF LogInv, OldOnce, Old
<1> QED
  BY <1>2, <1>3, <1>4 DEF LogInv

LEMMA LogPush ==
  ASSUME LogInv, NEW t \in Tracer, Logger!Push(t) PROVE LogInv'
<1> DEFINE of == inside[t]  n == Len(traced)
<1>1. /\ inside[t] # 0 /\ inside' = [inside EXCEPT ![t] = 0]
      /\ Logger!Enqueue(t, of) /\ main_pc' = main_pc
  BY DEF Logger!Push
<1>2. of \in 1 .. MaxSessions /\ session \in 0 .. MaxSessions /\ n \in Nat
      /\ inside \in [Tracer -> 0 .. MaxSessions] /\ traced \in Seq(Events)
  BY <1>1, LogTypes, LogAssumption DEF LogInv
<1>3. /\ traced' \in Seq(Events) /\ trace_events' \in Seq(Events)
      /\ Len(traced') = n + 1 /\ traced'[n + 1] = <<t, of>>
      /\ \A i \in 1 .. n : traced'[i] = traced[i]
      /\ due \in 0 .. Len(traced')
      /\ Queued'
      /\ UNCHANGED <<active, output_file, shutting_down, events, session, due,
                     shutdown_status, shutdown_at, shutdown_result>>
  BY <1>1, <1>2, Enqueued DEF LogInv
<1>4. inside' \in [Tracer -> 0 .. MaxSessions] /\ inside'[t] = 0
      /\ \A s \in Tracer \ {t} : inside'[s] = inside[s]
  <2>1. 0 \in 0 .. MaxSessions
    BY LogAssumption
  <2> QED
    BY <1>1, <1>2, <2>1
<1>5. Logger!TypeOK'
  BY <1>3, <1>4, LogTypes DEF LogInv, Logger!TypeOK, Logger!shutdown_event!TypeOK, Events
<1>6. (Phases /\ Stopping)'
  BY <1>1, <1>3 DEF LogInv, Phases, Stopping, Down
<1>7. OldOnce'
  <2> SUFFICES ASSUME NEW i \in 1 .. n + 1, traced'[i][2] # session
               PROVE  /\ traced'[i][1] \in Tracer
                      /\ inside'[traced'[i][1]] \in {0, session}
                      /\ \A j \in 1 .. n + 1 :
                           traced'[j][2] # session /\ traced'[j][1] = traced'[i][1] => i = j
    BY <1>3 DEF OldOnce, Old
  <2>1. \A k \in 1 .. n : traced[k][2] # session =>
          /\ traced[k][1] \in Tracer /\ inside[traced[k][1]] \in {0, session}
          /\ \A j \in 1 .. n : traced[j][2] # session /\ traced[j][1] = traced[k][1] => k = j
    BY DEF LogInv, OldOnce, Old
  <2>2. traced'[n + 1][1] = t /\ traced'[n + 1][2] = of
    BY <1>3
  <2>3. \A k \in 1 .. n : traced[k][2] # session /\ traced[k][1] = t => of = session
    BY <1>1, <2>1
  <2>4. CASE i = n + 1
    <3>1. \A j \in 1 .. n : ~(traced'[j][2] # session /\ traced'[j][1] = t)
      BY <1>3, <2>2, <2>3, <2>4
    <3>2. \A j \in 1 .. n + 1 : j \in 1 .. n \/ j = n + 1
      BY <1>2
    <3> QED
      BY <1>4, <2>2, <2>4, <3>1, <3>2
  <2>5. CASE i \in 1 .. n
    <3> DEFINE s == traced[i][1]
    <3>1. traced'[i] = traced[i] /\ s \in Tracer /\ inside[s] \in {0, session}
      BY <1>3, <2>1, <2>5
    <3>2. inside'[s] \in {0, session}
      BY <1>4, <3>1
    <3>3. \A j \in 1 .. n + 1 : traced'[j][2] # session /\ traced'[j][1] = s => i = j
      <4> SUFFICES ASSUME NEW j \in 1 .. n + 1, traced'[j][2] # session, traced'[j][1] = s
                   PROVE  i = j
        OBVIOUS
      <4>1. CASE j = n + 1
        BY <2>2, <2>3, <2>5, <3>1, <4>1
      <4>2. CASE j \in 1 .. n
        BY <1>3, <2>1, <2>5, <3>1, <4>2
      <4> QED
        BY <1>2, <4>1, <4>2
    <3> QED
      BY <3>1, <3>2, <3>3
  <2> QED
    BY <1>2, <2>4, <2>5
<1> QED
  BY <1>3, <1>5, <1>6, <1>7 DEF LogInv

LEMMA LogTraceCall ==
  ASSUME LogInv, NEW from \in {"traceStart", "traceStop"}, NEW to \in {"idle", "deactivate"},
         (from = "traceStart") <=> (to = "idle"),
         Logger!Step(Main, from, to), Logger!Enqueue(Main, session), UNCHANGED inside
  PROVE  LogInv'
<1> DEFINE n == Len(traced)
<1>1. /\ main_pc[Main] = from /\ main_pc'[Main] = to
      /\ main_pc'["logger"] = main_pc["logger"]
      /\ main_pc' \in [{Main, "logger"} -> Places]
  BY LogSteps DEF LogInv, Places
<1>2. session \in 1 .. MaxSessions /\ n \in Nat
  BY <1>1, LogTypes, LogAssumption DEF LogInv, Phases
<1>3. /\ traced' \in Seq(Events) /\ trace_events' \in Seq(Events)
      /\ Len(traced') = n + 1 /\ traced'[n + 1] = <<Main, session>>
      /\ \A i \in 1 .. n : traced'[i] = traced[i]
      /\ due \in 0 .. Len(traced')
      /\ Queued'
      /\ UNCHANGED <<active, output_file, shutting_down, events, session, due,
                     shutdown_status, shutdown_at, shutdown_result>>
  BY <1>2, Enqueued DEF LogInv
<1>4. Logger!TypeOK'
  <2>1. inside \in [Tracer -> 0 .. MaxSessions]
    BY LogTypes DEF LogInv
  <2> QED
    BY <1>3, <2>1 DEF LogInv, Logger!TypeOK, Logger!shutdown_event!TypeOK, Events
<1>5. Phases'
  BY <1>1, <1>3 DEF LogInv, Phases
<1>6. Stopping'
  BY <1>1, <1>3 DEF LogInv, Phases, Stopping, Down
<1>7. OldOnce'
  <2>1. \A i \in 1 .. n + 1 : i \in 1 .. n \/ (i = n + 1 /\ traced'[i][2] = session)
    BY <1>2, <1>3
  <2> QED
    BY <1>3, <2>1 DEF LogInv, OldOnce, Old
<1> QED
  BY <1>3, <1>4, <1>5, <1>6, <1>7 DEF LogInv

LEMMA LogStart ==
  ASSUME LogInv, Logger!Start PROVE LogInv'
<1> DEFINE none == <<>>
<1>1. none \in Seq(Events) /\ Len(none) = 0 /\ (none \o none) \o none = none
  OBVIOUS
<1>2. /\ main_pc["logger"] = "none" /\ session < MaxSessions
      /\ Logger!Step(Main, "idle", "activate")
      /\ session' = session + 1 /\ due' = 0
      /\ output_file' = none /\ trace_events' = none /\ traced' = none
      /\ UNCHANGED <<active, inside, shutting_down, events, shutdown_status, shutdown_at,
                     shutdown_result>>
  BY DEF Logger!Start, Logger!event, Logger!Logger
<1>3. /\ main_pc[Main] = "idle" /\ main_pc'[Main] = "activate"
      /\ main_pc'["logger"] = "none"
      /\ main_pc' \in [{Main, "logger"} -> Places]
  BY <1>2, LogSteps DEF LogInv, Places
<1>4. events = none /\ ~active
  BY <1>2, <1>3 DEF LogInv, Phases
<1> HIDE DEF none
<1>5. Logger!TypeOK'
  <2>1. session' \in 0 .. MaxSessions /\ due' \in 0 .. Len(traced')
    BY <1>1, <1>2, LogTypes, LogAssumption DEF LogInv
  <2> QED
    BY <1>1, <1>2, <1>4, <2>1, LogTypes DEF LogInv, Logger!TypeOK, Logger!shutdown_event!TypeOK, Events
<1>6. Queued'
  BY <1>1, <1>2, <1>4 DEF Queued
<1>7. Phases'
  <2>1. session' # 0
    BY <1>2, LogTypes, LogAssumption DEF LogInv
  <2> QED
    BY <1>2, <1>3, <1>4, <2>1 DEF LogInv, Phases, none
<1>8. Stopping'
  BY <1>2, <1>3 DEF LogInv, Stopping, Down
<1>9. OldOnce'
  BY <1>1, <1>2 DEF OldOnce
<1> QED
  BY <1>5, <1>6, <1>7, <1>8, <1>9 DEF LogInv

\* A step of one of the two threads that leaves the queue, the file and the
\* event alone.
LEMMA LogControl ==
  ASSUME LogInv,
         UNCHANGED <<trace_events, traced, output_file, shutting_down, events, inside,
                     session, shutdown_status, shutdown_at, shutdown_result>>,
         active' \in BOOLEAN, due' \in 0 .. Len(traced), Phases', Stopping'
  PROVE  LogInv'
<1>1. Logger!TypeOK'
  BY DEF LogInv, Logger!TypeOK, Logger!shutdown_event!TypeOK
<1>2. (Queued /\ OldOnce)'
  BY DEF LogInv, Queued, OldOnce, Old
<1> QED
  BY <1>1, <1>2 DEF LogInv

LEMMA LogActivate ==
  ASSUME LogInv, Logger!Activate PROVE LogInv'
<1>1. /\ Logger!Step(Main, "activate", "spawn") /\ active' = TRUE
      /\ UNCHANGED <<trace_events, traced, output_file, shutting_down, events, inside,
                     session, shutdown_status, shutdown_at, shutdown_result, due>>
  BY DEF Logger!Activate, Logger!queue, Logger!logging, Logger!event
<1>2. /\ main_pc[Main] = "activate" /\ main_pc'[Main] = "spawn"
      /\ main_pc'["logger"] = main_pc["logger"]
      /\ main_pc' \in [{Main, "logger"} -> Places]
  BY <1>1, LogSteps DEF LogInv, Places
<1>3. Phases'
  BY <1>1, <1>2 DEF LogInv, Phases
<1>4. Stopping'
  BY <1>1, <1>2 DEF LogInv, Stopping, Down
<1> QED
  BY <1>1, <1>3, <1>4, LogTypes, LogControl DEF LogInv

LEMMA LogStartThread ==
  ASSUME LogInv, Logger!StartThread PROVE LogInv'
<1>1. /\ main_pc[Main] = "spawn"
      /\ main_pc' = [main_pc EXCEPT ![Main] = "traceStart", !["logger"] = "call"]
      /\ UNCHANGED <<active, trace_events, traced, output_file, shutting_down, events, inside,
                     session, shutdown_status, shutdown_at, shutdown_result, due>>
  BY DEF Logger!StartThread, Logger!queue, Logger!logging, Logger!event, Logger!Logger
<1>2. /\ main_pc'[Main] = "traceStart" /\ main_pc'["logger"] = "call"
      /\ main_pc' \in [{Main, "logger"} -> Places]
  BY <1>1, LogAssumption DEF LogInv, Phases, Places
<1>3. Phases'
  BY <1>1, <1>2 DEF LogInv, Phases
<1>4. Stopping'
  BY <1>1, <1>2 DEF LogInv, Stopping, Down
<1> QED
  BY <1>1, <1>3, <1>4, LogTypes, LogControl DEF LogInv

LEMMA LogStop ==
  ASSUME LogInv, Logger!Stop PROVE LogInv'
<1> DEFINE to == IF active THEN "traceStop" ELSE "deactivate"
<1>1. /\ Logger!Step(Main, "idle", to)
      /\ UNCHANGED <<active, trace_events, traced, output_file, shutting_down, events, inside,
                     session, shutdown_status, shutdown_at, shutdown_result, due>>
  BY DEF Logger!Stop, Logger!queue, Logger!logging, Logger!event
<1>2. to \in Places /\ to \in {"traceStop", "deactivate"} /\ (active <=> to = "traceStop")
  BY LogTypes DEF LogInv, Places
<1> HIDE DEF to
<1>3. /\ main_pc[Main] = "idle" /\ main_pc'[Main] = to
      /\ main_pc'["logger"] = main_pc["logger"]
      /\ main_pc' \in [{Main, "logger"} -> Places]
  BY <1>1, <1>2, LogSteps DEF LogInv
<1>4. Phases'
  BY <1>1, <1>2, <1>3 DEF LogInv, Phases
<1>5. Stopping'
  BY <1>1, <1>2, <1>3 DEF LogInv, Stopping, Down
<1> QED
  BY <1>1, <1>4, <1>5, LogTypes, LogControl DEF LogInv

LEMMA LogDeactivate ==
  ASSUME LogInv, Logger!Deactivate PROVE LogInv'
<1> DEFINE to == IF active THEN "wake" ELSE "idle"
<1>1. /\ Logger!Step(Main, "deactivate", to) /\ active' = FALSE
      /\ due' = IF active THEN Len(traced) ELSE due
      /\ UNCHANGED <<trace_events, traced, output_file, shutting_down, events, inside,
                     session, shutdown_status, shutdown_at, shutdown_result>>
  BY DEF Logger!Deactivate, Logger!queue, Logger!logging, Logger!event
<1>2. to \in Places /\ to \in {"wake", "idle"} /\ (active <=> to = "wake")
  BY LogTypes DEF LogInv, Places
<1> HIDE DEF to
<1>3. /\ main_pc[Main] = "deactivate" /\ main_pc'[Main] = to
      /\ main_pc'["logger"] = main_pc["logger"]
      /\ main_pc' \in [{Main, "logger"} -> Places]
  BY <1>1, <1>2, LogSteps DEF LogInv
<1>4. Phases'
  BY <1>1, <1>2, <1>3 DEF LogInv, Phases
<1>5. Stopping'
  <2>1. ~Down' /\ ~shutdown_status'
    BY <1>1, <1>3 DEF LogInv, Stopping, Down
  <2>2. to = "idle" => Len(output_file) >= due'
    BY <1>1, <1>2, <1>3 DEF LogInv, Stopping
  <2> QED
    BY <1>1, <1>2, <1>3, <2>1, <2>2 DEF Stopping, Down
<1>6. due' \in 0 .. Len(traced)
  <2>1. due \in 0 .. Len(traced) /\ Len(traced) \in Nat
    BY LogTypes DEF LogInv
  <2> QED
    BY <1>1, <2>1
<1> QED
  BY <1>1, <1>4, <1>5, <1>6, LogControl

LEMMA LogJoin ==
  ASSUME LogInv, Logger!Join PROVE LogInv'
<1>1. /\ main_pc["logger"] = "ended" /\ main_pc[Main] = "join"
      /\ main_pc' = [main_pc EXCEPT ![Main] = "idle", !["logger"] = "none"]
      /\ UNCHANGED <<active, trace_events, traced, output_file, shutting_down, events, inside,
                     session, shutdown_status, shutdown_at, shutdown_result, due>>
  BY DEF Logger!Join, Logger!queue, Logger!logging, Logger!event, Logger!Logger
<1>2. /\ main_pc'[Main] = "idle" /\ main_pc'["logger"] = "none"
      /\ main_pc' \in [{Main, "logger"} -> Places]
  BY <1>1, LogAssumption DEF LogInv, Phases, Places
<1>3. Phases'
  BY <1>1, <1>2 DEF LogInv, Phases
<1>4. Stopping'
  BY <1>1, <1>2 DEF LogInv, Stopping, Down
<1> QED
  BY <1>1, <1>3, <1>4, LogTypes, LogControl DEF LogInv

\* A step of the event, whatever else.
LEMMA LogEvent ==
  ASSUME LogInv,
         UNCHANGED <<active, trace_events, traced, output_file, shutting_down, events, inside,
                     session, due>>,
         (Logger!shutdown_event!TypeOK)', Phases', Stopping'
  PROVE  LogInv'
<1>1. Logger!TypeOK'
  BY DEF LogInv, Logger!TypeOK
<1>2. (Queued /\ OldOnce)'
  BY DEF LogInv, Queued, OldOnce, Old
<1> QED
  BY <1>1, <1>2 DEF LogInv

LEMMA LogWake ==
  ASSUME LogInv, Logger!Wake PROVE LogInv'
<1>1. /\ Logger!Step(Main, "wake", "join")
      /\ shutdown_status' = TRUE /\ shutdown_result' = shutdown_result
      /\ shutdown_at' = Logger!shutdown_event!Woken
      /\ UNCHANGED <<active, trace_events, traced, output_file, shutting_down, events, inside,
                     session, due>>
  BY DEF Logger!Wake, Logger!shutdown_event!Set, Logger!queue, Logger!logging
<1>2. /\ main_pc[Main] = "wake" /\ main_pc'[Main] = "join"
      /\ main_pc'["logger"] = main_pc["logger"]
      /\ main_pc' \in [{Main, "logger"} -> Places]
  BY <1>1, LogSteps DEF LogInv, Places
<1>3. shutdown_at["logger"] \in {"out", "timedwait", "woken", "expired"}
      /\ shutdown_at \in [{"logger"} -> {"out", "timedwait", "woken", "expired", "wait",
                                           "rewoken"}]
      /\ shutdown_result \in [{"logger"} -> BOOLEAN]
  BY LogTypes DEF LogInv, Phases
<1>4. /\ shutdown_at'["logger"] \in {"out", "woken", "expired"}
      /\ shutdown_at["logger"] = "out" <=> shutdown_at'["logger"] = "out"
      /\ shutdown_at' \in [{"logger"} -> {"out", "timedwait", "woken", "expired", "wait",
                                           "rewoken"}]
  BY <1>1, <1>3 DEF Logger!shutdown_event!Woken, Logger!Logger
<1>5. (Logger!shutdown_event!TypeOK)'
  BY <1>1, <1>3, <1>4 DEF Logger!shutdown_event!TypeOK, Logger!Logger
<1>6. Phases'
  BY <1>1, <1>2, <1>4 DEF LogInv, Phases
<1>7. Stopping'
  BY <1>1, <1>2, <1>4 DEF LogInv, Stopping, Down
<1> QED
  BY <1>1, <1>5, <1>6, <1>7, LogEvent

LEMMA LogWait ==
  ASSUME LogInv, Logger!Wait PROVE LogInv'
<1> USE DEF Logger!Logger
<1>1. /\ Logger!Step("logger", "call", "waits")
      /\ shutdown_at["logger"] = "out"
      /\ \/ /\ shutdown_status /\ shutdown_status' = FALSE
            /\ shutdown_at' = [shutdown_at EXCEPT !["logger"] = "out"]
            /\ shutdown_result' = [shutdown_result EXCEPT !["logger"] = TRUE]
         \/ /\ ~shutdown_status /\ shutdown_status' = shutdown_status
            /\ shutdown_at' = [shutdown_at EXCEPT !["logger"] = "timedwait"]
            /\ shutdown_result' = shutdown_result
      /\ UNCHANGED <<active, trace_events, traced, output_file, shutting_down, events, inside,
                     session, due>>
  BY DEF Logger!Wait, Logger!shutdown_event!Wait, Logger!shutdown_event!Pass,
         Logger!shutdown_event!Block, Logger!queue, Logger!logging
<1>2. /\ main_pc["logger"] = "call" /\ main_pc'["logger"] = "waits"
      /\ main_pc'[Main] = main_pc[Main]
      /\ main_pc' \in [{Main, "logger"} -> Places]
  BY <1>1, LogSteps DEF LogInv, Places
<1>3. /\ shutdown_at \in [{"logger"} -> {"out", "timedwait", "woken", "expired", "wait",
                                           "rewoken"}]
      /\ shutdown_result \in [{"logger"} -> BOOLEAN] /\ shutdown_status \in BOOLEAN
  BY LogTypes DEF LogInv
<1>4. /\ shutdown_at'["logger"] = (IF shutdown_status THEN "out" ELSE "timedwait")
      /\ ~shutdown_status'
  BY <1>1, <1>3
<1>5. (Logger!shutdown_event!TypeOK)'
  BY <1>1, <1>3 DEF Logger!shutdown_event!TypeOK
<1>6. Phases'
  BY <1>1, <1>2, <1>4 DEF LogInv, Phases
<1>7. Stopping'
  BY <1>1, <1>2, <1>4 DEF LogInv, Stopping, Down
<1> QED
  BY <1>1, <1>5, <1>6, <1>7, LogEvent

LEMMA LogWaits ==
  ASSUME LogInv, Logger!Waits PROVE LogInv'
<1> USE DEF Logger!Logger
<1>1. /\ shutdown_at \in [{"logger"} -> {"out", "timedwait", "woken", "expired", "wait",
                                           "rewoken"}]
      /\ shutdown_result \in [{"logger"} -> BOOLEAN] /\ shutdown_status \in BOOLEAN
      /\ shutdown_at["logger"] \in {"out", "timedwait", "woken", "expired"}
  BY LogTypes DEF LogInv, Phases
<1>2. UNCHANGED <<active, trace_events, traced, output_file, shutting_down, events, inside,
                  main_pc, session, due>>
  BY DEF Logger!Waits, Logger!queue, Logger!logging
<1>3. /\ shutdown_at["logger"] # "out"
      /\ \/ /\ shutdown_status' = shutdown_status
            /\ \/ /\ shutdown_at' = [shutdown_at EXCEPT !["logger"] = "expired"]
                  /\ shutdown_result' = shutdown_result
               \/ /\ shutdown_at' = [shutdown_at EXCEPT !["logger"] = "timedwait"]
                  /\ shutdown_result' = shutdown_result
               \/ /\ shutdown_at' = [shutdown_at EXCEPT !["logger"] = "out"]
                  /\ shutdown_result' = [shutdown_result EXCEPT !["logger"] = FALSE]
         \/ /\ shutdown_status /\ shutdown_status' = FALSE
            /\ shutdown_at' = [shutdown_at EXCEPT !["logger"] = "out"]
            /\ shutdown_result' = [shutdown_result EXCEPT !["logger"] = TRUE]
  <2>1. CASE Logger!shutdown_event!Expire("logger")
    BY <2>1 DEF Logger!shutdown_event!Expire
  <2>2. CASE Logger!shutdown_event!Resume("logger")
    BY <2>2 DEF Logger!shutdown_event!Resume, Logger!shutdown_event!Pass,
                Logger!shutdown_event!Block
  <2>3. CASE Logger!shutdown_event!TimedOut("logger")
    BY <2>3 DEF Logger!shutdown_event!TimedOut
  <2>4. ~Logger!shutdown_event!WaitOn("logger")
    BY <1>1 DEF Logger!shutdown_event!WaitOn
  <2> QED
    BY <2>1, <2>2, <2>3, <2>4 DEF Logger!Waits, Logger!shutdown_event!Go
<1>4. main_pc["logger"] = "waits" /\ ~Down
  BY <1>3 DEF LogInv, Phases, Down
<1>5. (Logger!shutdown_event!TypeOK)'
  BY <1>1, <1>3 DEF Logger!shutdown_event!TypeOK
<1>6. shutdown_at'["logger"] \in {"out", "timedwait", "expired"}
      /\ (Down' => shutdown_status /\ ~shutdown_status')
      /\ (shutdown_status' => shutdown_status)
  BY <1>1, <1>2, <1>3, <1>4 DEF Down
<1>7. Phases'
  BY <1>2, <1>4, <1>6 DEF LogInv, Phases
<1>8. Stopping'
  <2>1. ~(main_pc["logger"] \in {"write", "ended"})
    BY <1>4
  <2>2. (Down' \/ shutdown_status' => main_pc[Main] = "join") /\ ~(Down' /\ shutdown_status')
    BY <1>6 DEF LogInv, Stopping
  <2> QED
    BY <1>2, <2>1, <2>2 DEF LogInv, Stopping
<1> QED
  BY <1>2, <1>5, <1>7, <1>8, LogEvent

LEMMA LogSwap ==
  ASSUME LogInv, Logger!Swap PROVE LogInv'
<1> DEFINE none == <<>>
<1>1. /\ shutdown_at["logger"] = "out" /\ Logger!Step("logger", "waits", "write")
      /\ shutting_down' = shutdown_result["logger"]
      /\ events' = trace_events /\ trace_events' = none
      /\ UNCHANGED <<active, inside, traced, output_file, shutdown_status, shutdown_at,
                     shutdown_result, session, due>>
  BY DEF Logger!Swap, Logger!event, Logger!Logger
<1>2. /\ main_pc["logger"] = "waits" /\ main_pc'["logger"] = "write"
      /\ main_pc'[Main] = main_pc[Main]
      /\ main_pc' \in [{Main, "logger"} -> Places]
  BY <1>1, LogSteps DEF LogInv, Places
<1>3. /\ trace_events \in Seq(Events) /\ output_file \in Seq(Events) /\ none \in Seq(Events)
      /\ due <= Len(traced)
      /\ shutdown_result["logger"] \in BOOLEAN
  BY LogTypes DEF LogInv
<1>4. events = none
  BY <1>2 DEF LogInv, Phases
<1> HIDE DEF none
<1>5. Logger!TypeOK'
  BY <1>1, <1>3 DEF LogInv, Logger!TypeOK, Logger!shutdown_event!TypeOK, Events
<1>6. traced = output_file \o trace_events
  <2>1. output_file \o none = output_file
    BY <1>3, ConcatEmptySeq DEF none
  <2> QED
    BY <1>4, <2>1 DEF LogInv, Queued
<1>7. Queued'
  <2> DEFINE all == output_file \o trace_events
  <2>1. all \in Seq(Events)
    BY <1>3
  <2> HIDE DEF all
  <2>2. all \o none = all
    BY <2>1, ConcatEmptySeq DEF none
  <2>3. traced' = (output_file' \o events') \o trace_events'
    BY <1>1, <1>6, <2>2 DEF all
  <2> QED
    BY <2>3 DEF Queued
<1>8. Phases'
  BY <1>1, <1>2 DEF LogInv, Phases
<1>9. Stopping'
  <2>1. shutting_down' => Down
    BY <1>1, <1>2 DEF Down
  <2>2. Len(output_file' \o events') >= due'
    BY <1>1, <1>3, <1>6
  <2> QED
    BY <1>1, <1>2, <2>1, <2>2 DEF LogInv, Stopping, Down
<1>10. OldOnce'
  BY <1>1 DEF LogInv, OldOnce, Old
<1> QED
  BY <1>5, <1>7, <1>8, <1>9, <1>10 DEF LogInv

LEMMA LogWrite ==
  ASSUME LogInv, Logger!Write PROVE LogInv'
<1> DEFINE none == <<>>  to == IF shutting_down THEN "ended" ELSE "call"
           file == output_file \o events
<1>1. /\ Logger!Step("logger", "write", to)
      /\ output_file' = file /\ events' = none
      /\ UNCHANGED <<active, inside, trace_events, traced, shutting_down, shutdown_status,
                     shutdown_at, shutdown_result, session, due>>
  BY DEF Logger!Write, Logger!event, Logger!Logger, Logger!queue
<1>2. to \in Places /\ to \in {"ended", "call"} /\ (shutting_down <=> to = "ended")
  BY LogTypes DEF LogInv, Places
<1>3. file \in Seq(Events) /\ none \in Seq(Events) /\ trace_events \in Seq(Events)
  BY LogTypes DEF LogInv
<1>4. Len(file) >= due \/ ~shutting_down \/ main_pc["logger"] # "write"
  BY DEF LogInv, Stopping
<1>5. traced = file \o trace_events
  BY DEF LogInv, Queued
<1> HIDE DEF none, to, file
<1>6. /\ main_pc["logger"] = "write" /\ main_pc'["logger"] = to
      /\ main_pc'[Main] = main_pc[Main]
      /\ main_pc' \in [{Main, "logger"} -> Places]
  BY <1>1, <1>2, LogSteps DEF LogInv
<1>7. Logger!TypeOK'
  BY <1>1, <1>3 DEF LogInv, Logger!TypeOK, Logger!shutdown_event!TypeOK, Events
<1>8. Queued'
  <2>1. file \o none = file
    BY <1>3, ConcatEmptySeq DEF none
  <2>2. traced' = (output_file' \o events') \o trace_events'
    BY <1>1, <1>5, <2>1
  <2> QED
    BY <2>2 DEF Queued
<1>9. Phases'
  <2>1. events' = <<>>
    BY <1>1 DEF none
  <2> QED
    BY <1>1, <1>2, <1>6, <2>1 DEF LogInv, Phases
<1>10. Stopping'
  <2>1. Down' => Down
    BY <1>1, <1>2, <1>6 DEF Down
  <2>2. to = "ended" => Len(output_file') >= due'
    BY <1>1, <1>2, <1>4, <1>6
  <2>3. ~(main_pc[Main] \in {"idle", "deactivate"} /\ ~active)
    BY <1>6 DEF LogInv, Phases, Stopping, Down
  <2> QED
    BY <1>1, <1>2, <1>6, <2>1, <2>2, <2>3 DEF LogInv, Stopping
<1>11. OldOnce'
  BY <1>1 DEF LogInv, OldOnce, Old
<1> QED
  BY <1>7, <1>8, <1>9, <1>10, <1>11 DEF LogInv

LEMMA LogStep == LogInv /\ [Logger!Next]_(Logger!vars) => LogInv'
<1> SUFFICES ASSUME LogInv, [Logger!Next]_(Logger!vars) PROVE LogInv'
  OBVIOUS
<1>1. CASE UNCHANGED Logger!vars
  <2>1. UNCHANGED <<active, trace_events, traced, output_file, shutting_down, events, inside,
                    main_pc, session, due, shutdown_status, shutdown_at, shutdown_result>>
    BY <1>1 DEF Logger!vars, Logger!queue, Logger!logging, Logger!event
  <2>2. (Logger!TypeOK)'
    BY <2>1 DEF LogInv, Logger!TypeOK, Logger!shutdown_event!TypeOK
  <2> QED
    BY <2>1, <2>2 DEF LogInv, Queued, Phases, Stopping, Down, OldOnce, Old
<1>2. CASE Logger!TraceStart
  BY <1>2, LogTraceCall DEF Logger!TraceStart
<1>3. CASE Logger!TraceStop
  BY <1>3, LogTraceCall DEF Logger!TraceStop
<1> QED
  BY <1>1, <1>2, <1>3, LogTrace, LogPush, LogStart, LogStop, LogActivate, LogStartThread,
     LogDeactivate, LogWake, LogJoin, LogWait, LogWaits, LogSwap, LogWrite
     DEF Logger!Next, Logger!Running, Logger!Logs

\* What the invariant says of the file.
LEMMA LogSays == LogInv => Logger!SessionLogged
<1> SUFFICES ASSUME LogInv PROVE Logger!SessionLogged
  OBVIOUS
<1> DEFINE rest == events \o trace_events  n == Len(output_file)
<1>1. {trace_events, traced, output_file, events} \subseteq Seq(Events)
  BY LogTypes DEF LogInv
<1>2. rest \in Seq(Events) /\ n \in Nat /\ DOMAIN output_file = 1 .. n
  BY <1>1
<1>3. traced = output_file \o rest
  <2>1. output_file \in Seq(Events) /\ events \in Seq(Events) /\ trace_events \in Seq(Events)
    BY <1>1
  <2>2. (output_file \o events) \o trace_events = output_file \o (events \o trace_events)
    BY <2>1, ConcatAssociative
  <2> QED
    BY <2>2 DEF LogInv, Queued
<1> HIDE DEF rest
<1>4. n <= Len(traced) /\ \A i \in 1 .. n : traced[i] = output_file[i]
  <2>1. output_file \in Seq(Events)
    BY <1>1
  <2>2. Len(traced) = n + Len(rest) /\ Len(rest) \in Nat
        /\ \A i \in 1 .. n + Len(rest) :
             traced[i] = IF i <= n THEN output_file[i] ELSE rest[i - n]
    BY <1>2, <1>3, <2>1, ConcatProperties
  <2> QED
    BY <1>2, <2>2
<1>5. SubSeq(output_file, 1, n) = SubSeq(traced, 1, n)
  <2> DEFINE s == SubSeq(output_file, 1, n)  t == SubSeq(traced, 1, n)
  <2>1. /\ \A i \in 1 .. n : output_file[i] \in Events
        /\ \A i \in 1 .. n : traced[i] \in Events
    BY <1>1, <1>2, <1>4
  <2>2. /\ s \in Seq(Events) /\ Len(s) = n /\ \A i \in 1 .. n : s[i] = output_file[i]
        /\ t \in Seq(Events) /\ Len(t) = n /\ \A i \in 1 .. n : t[i] = traced[i]
    BY <1>1, <1>2, <1>4, <2>1
  <2> HIDE DEF s, t
  <2>3. s = t
    BY <1>4, <2>2, SeqEqual
  <2> QED
    BY <2>3 DEF s, t
<1>6. Logger!IsPrefix(output_file, traced)
  BY <1>4, <1>5 DEF Logger!IsPrefix
<1>7. main_pc[Main] = "idle" /\ ~active => Len(output_file) >= due
  BY DEF LogInv, Stopping
<1>8. ASSUME NEW i \in DOMAIN output_file, NEW j \in DOMAIN output_file,
             output_file[i][1] = output_file[j][1],
             session \notin {output_file[i][2], output_file[j][2]}
      PROVE  i = j
  <2>1. i \in 1 .. Len(traced) /\ j \in 1 .. Len(traced)
        /\ traced[i] = output_file[i] /\ traced[j] = output_file[j]
    BY <1>1, <1>2, <1>4
  <2> QED
    BY <1>8, <2>1 DEF LogInv, OldOnce, Old
<1> QED
  BY <1>6, <1>7, <1>8 DEF Logger!SessionLogged

LEMMA LogInvariance == Logger!Init /\ [][Logger!Next]_(Logger!vars) => []LogInv
BY LogInit, LogStep, PTL

\* Whatever threads trace while sessions begin and end, the file holds what was
\* put into the queue, in order and nothing twice; when Stop has returned it
\* holds all that was there before it; of an earlier session it holds one event
\* of a thread at most.
THEOREM TraceLogKeeps ==
  Logger!Init /\ [][Logger!Next]_(Logger!vars) => []SessionLogged
<1>1. LogInv => SessionLogged
  BY LogSays DEF SessionLogged
<1> QED
  BY <1>1, LogInvariance, PTL

\* The lock's, the event's and the trace log's variables keep their types.
THEOREM ThreadsTypeCorrect == MCSpec => []TypesOK
<1> DEFINE Parts == LockInv /\ FlagInv /\ LogInv
<1>1. MCInit => Parts
  <2> SUFFICES ASSUME MCInit PROVE Parts
    OBVIOUS
  <2>1. Init => LockInv
    BY LockInitial
  <2>2. Flag!Init => FlagInv
    BY FlagInitial
  <2> QED
    BY <2>1, <2>2, LogInit DEF MCInit
<1>2. Parts /\ [MCNext]_<<component, vars, flag, logger>> => Parts'
  <2> SUFFICES ASSUME Parts, [MCNext]_<<component, vars, flag, logger>> PROVE Parts'
    OBVIOUS
  <2>1. [Next]_vars /\ [Flag!Next]_(Flag!vars) /\ [Logger!Next]_(Logger!vars)
    <3>1. UNCHANGED flag => UNCHANGED Flag!vars
      BY DEF flag, Flag!vars, Flag!state
    <3>2. UNCHANGED logger => UNCHANGED Logger!vars
      BY DEF logger, Logger!vars, Logger!queue, Logger!logging, Logger!event
    <3> QED
      BY <3>1, <3>2 DEF MCNext
  <2> QED
    BY <2>1, LockInductive, FlagInductive, LogStep
<1>3. Parts => TypesOK
  BY DEF LockInv, FlagInv, LogInv, TypesOK
<1> QED
  BY <1>1, <1>2, <1>3, PTL DEF MCSpec
=============================================================================
