------------------------------ MODULE LockCond ------------------------------
(***************************************************************************)
(* bb_lock_cond, ESP-IDF backend: a condition variable built from a guarded *)
(* LIFO list of stack-allocated waiters, each with its own binary           *)
(* semaphore.  Around it, the client bb_lock.h prescribes: waiters loop on  *)
(* a predicate under the caller's lock (here: some work is available, and   *)
(* a waiter takes one unit) and give up on BB_ERR_TIMEOUT; signallers add   *)
(* work and signal or broadcast under the same lock.                        *)
(***************************************************************************)
EXTENDS Integers, Sequences, FiniteSets, SequencesExt

CONSTANTS
    Waiters, Signallers,
    None,       \* nobody holds the lock or the guard
    MaxWork     \* bound: units of work outstanding

ASSUME LockCondAssumption ==
    /\ IsFiniteSet(Waiters) /\ IsFiniteSet(Signallers) /\ Waiters \cap Signallers = {}
    /\ None \notin Waiters \cup Signallers
    /\ MaxWork \in Nat

VARIABLES
    lock,       \* the caller's bb_lock_t: its holder
    guard,      \* impl->guard: its holder
    waiters,    \* impl->waiters, head first
    sem,        \* each waiter's semaphore: "dead" (not on a live stack frame), "empty", "full"
    pc,         \* position of each thread
    timed,      \* the waiter's wait has a finite timeout
    rc,         \* what bb_lock_cond_wait last decided for the waiter
    victim,     \* the node a signaller has popped and will give to
    work,       \* the client's predicate state
    popped      \* history: the waiter was taken off the list by a signaller during this wait

cond == <<guard, waiters, sem, victim, popped>>
vars == <<lock, pc, timed, rc, work, cond>>

Linked(w) == Contains(waiters, w)

Init ==
    /\ lock = None
    /\ guard = None
    /\ waiters = <<>>
    /\ sem = [w \in Waiters |-> "dead"]
    /\ pc = [t \in Waiters \cup Signallers |-> "out"]
    /\ timed = [w \in Waiters |-> FALSE]
    /\ rc = [w \in Waiters |-> "OK"]
    /\ victim = [s \in Signallers |-> None]
    /\ work = 0
    /\ popped = [w \in Waiters |-> FALSE]

Goto(t, l) == pc' = [pc EXCEPT ![t] = l]

-----------------------------------------------------------------------------
\* The waiting client.

WaiterLocks(w) ==
    /\ pc[w] = "out"
    /\ lock = None
    /\ lock' = w
    /\ rc' = [rc EXCEPT ![w] = "OK"]
    /\ \E b \in BOOLEAN : timed' = [timed EXCEPT ![w] = b]
    /\ Goto(w, "locked")
    /\ UNCHANGED <<work, cond>>

\* while (!pred) ...; the predicate holds and the waiter takes its unit.
WaiterServed(w) ==
    /\ pc[w] = "locked"
    /\ rc[w] = "OK"
    /\ work > 0
    /\ work' = work - 1
    /\ lock' = None
    /\ Goto(w, "out")
    /\ UNCHANGED <<timed, rc, cond>>

\* if (rc == BB_ERR_TIMEOUT) break.
WaiterGivesUp(w) ==
    /\ pc[w] = "locked"
    /\ rc[w] = "TIMEOUT"
    /\ lock' = None
    /\ Goto(w, "out")
    /\ UNCHANGED <<timed, rc, work, cond>>

-----------------------------------------------------------------------------
\* bb_lock_cond_wait.

\* Mutant: the lock is released before the waiter is on the list.
WaitLink_UnlockFirst(w) ==
    /\ \/ /\ pc[w] = "locked" /\ rc[w] = "OK" /\ work = 0
          /\ lock' = None
          /\ Goto(w, "link")
          /\ UNCHANGED cond
       \/ /\ pc[w] = "link" /\ guard = None
          /\ sem' = [sem EXCEPT ![w] = "empty"]
          /\ waiters' = <<w>> \o waiters
          /\ popped' = [popped EXCEPT ![w] = FALSE]
          /\ Goto(w, "take")
          /\ UNCHANGED <<lock, guard, victim>>
    /\ UNCHANGED <<timed, rc, work>>

\* The semaphore is created and the node pushed under the guard, lock still held.
WaitLink(w) ==
    /\ pc[w] = "locked"
    /\ rc[w] = "OK"
    /\ work = 0
    /\ guard = None
    /\ sem' = [sem EXCEPT ![w] = "empty"]
    /\ waiters' = <<w>> \o waiters
    /\ popped' = [popped EXCEPT ![w] = FALSE]
    /\ Goto(w, "unlock")
    /\ UNCHANGED <<lock, timed, rc, work, guard, victim>>

WaitUnlock(w) ==
    /\ pc[w] = "unlock"
    /\ lock' = None
    /\ Goto(w, "take")
    /\ UNCHANGED <<timed, rc, work, cond>>

\* xSemaphoreTake succeeds, or its ticks run out.
WaitTake(w) ==
    /\ pc[w] = "take"
    /\ \/ /\ sem[w] = "full"
          /\ sem' = [sem EXCEPT ![w] = "empty"]
          /\ Goto(w, "gotIt")
       \/ /\ timed[w] /\ sem[w] = "empty"
          /\ Goto(w, "gotNot")
          /\ UNCHANGED sem
    /\ UNCHANGED <<lock, timed, rc, work, guard, waiters, victim, popped>>

decide_result(wasLinked, taken) == IF ~ wasLinked \/ taken THEN "OK" ELSE "TIMEOUT"

\* Mutant: a waiter that took its semaphore skips the guard.
WaitUnlink_NoGuard(w) ==
    /\ pc[w] \in {"gotIt", "gotNot"}
    /\ rc' = [rc EXCEPT ![w] = decide_result(Linked(w), pc[w] = "gotIt")]
    /\ waiters' = RemoveFirst(waiters, w)
    /\ sem' = [sem EXCEPT ![w] = "dead"]
    /\ Goto(w, "relock")
    /\ UNCHANGED <<lock, timed, work, guard, victim, popped>>

\* waiter_unlink under the guard, vSemaphoreDelete, and the decision.
WaitUnlink(w) ==
    /\ pc[w] \in {"gotIt", "gotNot"}
    /\ guard = None
    /\ rc' = [rc EXCEPT ![w] = decide_result(Linked(w), pc[w] = "gotIt")]
    /\ waiters' = RemoveFirst(waiters, w)
    /\ sem' = [sem EXCEPT ![w] = "dead"]
    /\ Goto(w, "relock")
    /\ UNCHANGED <<lock, timed, work, guard, victim, popped>>

\* The caller's lock is re-acquired before wait returns.
WaitRelock(w) ==
    /\ pc[w] = "relock"
    /\ lock = None
    /\ lock' = w
    /\ Goto(w, "locked")
    /\ UNCHANGED <<timed, rc, work, cond>>

-----------------------------------------------------------------------------
\* The signalling client and bb_lock_cond_signal / bb_lock_cond_broadcast.

\* One unit of work and a signal, or work for everyone and a broadcast.
SignallerLocks(s) ==
    /\ pc[s] = "out"
    /\ lock = None
    /\ lock' = s
    /\ \/ work + 1 <= MaxWork /\ work' = work + 1 /\ Goto(s, "signal")
       \/ work < MaxWork /\ work' = MaxWork /\ Goto(s, "broadcast")
    /\ UNCHANGED <<timed, rc, cond>>

\* The guard is taken (or still held, in broadcast's loop) and the head popped.
Pop(s) ==
    /\ pc[s] \in {"signal", "broadcast"}
    /\ guard \in {None, s}
    /\ victim[s] = None
    /\ waiters # <<>>
    /\ guard' = s
    /\ victim' = [victim EXCEPT ![s] = Head(waiters)]
    /\ popped' = [popped EXCEPT ![Head(waiters)] = TRUE]
    /\ waiters' = Tail(waiters)
    /\ UNCHANGED <<lock, pc, timed, rc, work, sem>>

\* Mutant: the popped waiter's semaphore is not given.
Give_Forgotten(s) ==
    /\ victim[s] # None
    /\ victim' = [victim EXCEPT ![s] = None]
    /\ IF pc[s] = "signal" THEN guard' = None /\ Goto(s, "done")
       ELSE UNCHANGED <<guard, pc>>
    /\ UNCHANGED <<lock, timed, rc, work, waiters, sem, popped>>

\* xSemaphoreGive with the guard still held; signal then releases it.
Give(s) ==
    /\ victim[s] # None
    /\ sem' = [sem EXCEPT ![victim[s]] = IF @ = "dead" THEN "dead" ELSE "full"]
    /\ victim' = [victim EXCEPT ![s] = None]
    /\ IF pc[s] = "signal" THEN guard' = None /\ Goto(s, "done")
       ELSE UNCHANGED <<guard, pc>>
    /\ UNCHANGED <<lock, timed, rc, work, waiters, popped>>

\* The list is empty: the guard is released.
NoMoreWaiters(s) ==
    /\ pc[s] \in {"signal", "broadcast"}
    /\ guard \in {None, s}
    /\ victim[s] = None
    /\ waiters = <<>>
    /\ guard' = None
    /\ Goto(s, "done")
    /\ UNCHANGED <<lock, timed, rc, work, waiters, sem, victim, popped>>

SignallerUnlocks(s) ==
    /\ pc[s] = "done"
    /\ lock' = None
    /\ Goto(s, "out")
    /\ UNCHANGED <<timed, rc, work, cond>>

WaiterStep(w) == \/ WaiterServed(w) \/ WaiterGivesUp(w) \/ WaitLink(w) \/ WaitUnlock(w)
                 \/ WaitTake(w) \/ WaitUnlink(w) \/ WaitRelock(w)

SignallerStep(s) == Pop(s) \/ Give(s) \/ NoMoreWaiters(s) \/ SignallerUnlocks(s)

Next == \/ \E w \in Waiters : WaiterLocks(w) \/ WaiterStep(w)
        \/ \E s \in Signallers : SignallerLocks(s) \/ SignallerStep(s)

Spec == Init /\ [][Next]_vars

\* FreeRTOS mutexes hand over by priority, so a thread that keeps asking for the lock
\* or the guard gets it: strong fairness.  Nobody is obliged to start a call.
FairSpec ==
    /\ Spec
    /\ \A w \in Waiters : SF_vars(WaiterStep(w))
    /\ \A s \in Signallers : SF_vars(SignallerStep(s))

-----------------------------------------------------------------------------
Inside(w) == pc[w] \in {"unlock", "take", "gotIt", "gotNot", "relock"}

\* The list holds each waiter at most once, only waiters inside wait, and only with a
\* live semaphore: no node outlives the stack frame it lives in.
TypeOK ==
    /\ lock \in Waiters \cup Signallers \cup {None}
    /\ guard \in Signallers \cup {None}
    /\ waiters \in Seq(Waiters)
    /\ IsInjective(waiters)
    /\ \A w \in Waiters : Linked(w) => pc[w] \in {"unlock", "take", "gotIt", "gotNot"}
                                       /\ sem[w] # "dead"
    /\ work \in 0..MaxWork

\* A signaller never gives to a semaphore whose waiter has already torn down its
\* stack frame, though the waiter may time out between the pop and the give.
NoUseAfterFree == \A s \in Signallers : victim[s] # None => sem[victim[s]] # "dead"

\* On its way to look at the predicate again.
Awake(w) == (Inside(w) /\ popped[w]) \/ (pc[w] = "locked" /\ rc[w] = "OK")

\* No lost wakeup: while somebody sleeps on the list, every unit of work has a woken
\* waiter or a signaller on its way, so work never sits beside sleepers for ever.
NoLostWakeup ==
    waiters # <<>> =>
      work <= Cardinality({w \in Waiters : Awake(w)})
              + Cardinality({s \in Signallers : pc[s] = "signal" /\ victim[s] = None})
              + MaxWork * Cardinality({s \in Signallers : pc[s] = "broadcast"})

\* A waiter taken off the list gets out of wait, timed or not.
PoppedReturns == \A w \in Waiters : (Inside(w) /\ popped[w]) ~> pc[w] = "locked"

=============================================================================
