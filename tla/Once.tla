-------------------------------- MODULE Once --------------------------------
(***************************************************************************)
(* The run-once guard of bb_core (bb_once.h) as every lazily created lock   *)
(* of breadboard uses it: bb_lock_once_ensure() runs bb_lock_init() through *)
(* bb_once_run_fallible().  With Fallible = FALSE the module is the older   *)
(* bb_once_run(), which has no failure channel.                             *)
(*                                                                          *)
(* One step is one atomic operation on bb_once_state, or the body fn().     *)
(* The specification's names are OnceInit, OnceNext, ... so that a module   *)
(* can extend it beside LockCond: Sync_proofs proves about both.            *)
(***************************************************************************)
EXTENDS Naturals, FiniteSets

CONSTANTS
    Callers,    \* the tasks that share one bb_once_t
    Fallible,   \* TRUE: bb_once_run_fallible, FALSE: bb_once_run
    MaxFails    \* bound: how often fn() may fail (heap pressure is transient)

ASSUME OnceAssumption == /\ Fallible \in BOOLEAN
                         /\ MaxFails \in Nat

VARIABLES
    bb_once_state,  \* the guard's atomic word
    initialized,    \* what fn() creates exists (bb_lock_initialized)
    at,             \* where each caller is
    ok,             \* fn()'s outcome for the caller that ran it
    created,        \* history: how often fn() succeeded
    fails,          \* history: how often fn() failed
    sawFail         \* history: a failed attempt ended during this call

onceVars == <<bb_once_state, initialized, at, ok, created, fails, sawFail>>

GuardStates == {"IDLE", "RUNNING", "DONE"}

\* "out": not in a call; "cas": about to compare-exchange; "fn": won, inside the
\* body; "store": won, about to publish the outcome; "spin": lost, polling.
\* "true"/"false": the call has just returned that value.
PCs == {"out", "cas", "fn", "store", "spin", "true", "false"}

Active(c) == at[c] \in {"cas", "fn", "store", "spin"}

OnceInit ==
    /\ bb_once_state = "IDLE"
    /\ initialized = FALSE
    /\ at = [c \in Callers |-> "out"]
    /\ ok = [c \in Callers |-> FALSE]
    /\ created = 0
    /\ fails = 0
    /\ sawFail = [c \in Callers |-> FALSE]

\* A task calls the primitive (for the first time or again).
Call(c) ==
    /\ ~ Active(c)
    /\ at' = [at EXCEPT ![c] = "cas"]
    /\ sawFail' = [sawFail EXCEPT ![c] = FALSE]
    /\ UNCHANGED <<bb_once_state, initialized, ok, created, fails>>

\* atomic_compare_exchange_strong(IDLE -> RUNNING): the winner runs fn.
CompareExchange(c) ==
    /\ at[c] = "cas"
    /\ IF bb_once_state = "IDLE"
         THEN /\ bb_once_state' = "RUNNING"
              /\ at' = [at EXCEPT ![c] = "fn"]
         ELSE /\ at' = [at EXCEPT ![c] = "spin"]
              /\ UNCHANGED bb_once_state
    /\ UNCHANGED <<initialized, ok, created, fails, sawFail>>

\* fn(ctx): bb_lock_init() creates the platform mutex, or fails without one.
RunSucceeds(c) ==
    /\ at[c] = "fn"
    /\ initialized' = TRUE
    /\ ok' = [ok EXCEPT ![c] = TRUE]
    /\ created' = created + 1
    /\ at' = [at EXCEPT ![c] = "store"]
    /\ UNCHANGED <<bb_once_state, fails, sawFail>>

RunFails(c) ==
    /\ at[c] = "fn"
    /\ fails < MaxFails
    /\ ok' = [ok EXCEPT ![c] = FALSE]
    /\ fails' = fails + 1
    /\ at' = [at EXCEPT ![c] = "store"]
    /\ UNCHANGED <<bb_once_state, initialized, created, sawFail>>

\* Mutants: the failure is latched as DONE; the guard is always reset.
Outcome_Latched(c) == "DONE"
Outcome_Reset(c) == "IDLE"

\* What the winner publishes: bb_once_run latches DONE whatever happened.
Outcome(c) == IF ok[c] \/ ~ Fallible THEN "DONE" ELSE "IDLE"

Returned(b) == IF b THEN "true" ELSE "false"

Publish(c) ==
    /\ at[c] = "store"
    /\ bb_once_state' = Outcome(c)
    /\ at' = [at EXCEPT ![c] = Returned(Outcome(c) = "DONE")]
    /\ sawFail' = [d \in Callers |-> sawFail[d] \/ (~ ok[c] /\ Active(d))]
    /\ UNCHANGED <<initialized, ok, created, fails>>

\* Mutants: a loser gives up while the winner still runs; a loser ignores a reset.
Poll_GivesUp(c) ==
    /\ at[c] = "spin"
    /\ at' = [at EXCEPT ![c] = Returned(bb_once_state = "DONE")]
    /\ UNCHANGED <<bb_once_state, initialized, ok, created, fails, sawFail>>
Poll_OnlyDone(c) ==
    /\ at[c] = "spin"
    /\ bb_once_state = "DONE"
    /\ at' = [at EXCEPT ![c] = "true"]
    /\ UNCHANGED <<bb_once_state, initialized, ok, created, fails, sawFail>>

\* A loser's poll: DONE -> true, IDLE -> false without retrying, RUNNING -> yield.
\* bb_once_run's loop only leaves at DONE.
Poll(c) ==
    /\ at[c] = "spin"
    /\ \/ bb_once_state = "DONE"
       \/ Fallible /\ bb_once_state = "IDLE"
    /\ at' = [at EXCEPT ![c] = Returned(bb_once_state = "DONE")]
    /\ UNCHANGED <<bb_once_state, initialized, ok, created, fails, sawFail>>

Step(c) ==
    \/ CompareExchange(c)
    \/ RunSucceeds(c)
    \/ RunFails(c)
    \/ Publish(c)
    \/ Poll(c)

OnceNext == \E c \in Callers : Call(c) \/ Step(c)

OnceSpec == OnceInit /\ [][OnceNext]_onceVars

\* A caller inside the primitive keeps running: the loser's vTaskDelay(1) hands
\* the CPU to the winner whatever their priorities.  Nobody is obliged to call.
FairOnceSpec == OnceSpec /\ \A c \in Callers : WF_onceVars(Step(c))

-----------------------------------------------------------------------------
\* Every variable keeps the type bb_once.h gives it.
OnceTypeOK ==
    /\ bb_once_state \in GuardStates
    /\ initialized \in BOOLEAN
    /\ at \in [Callers -> PCs]
    /\ ok \in [Callers -> BOOLEAN]
    /\ created \in Nat
    /\ fails \in 0..MaxFails
    /\ sawFail \in [Callers -> BOOLEAN]

Winner(c) == at[c] \in {"fn", "store"}

\* At most one caller is between its winning compare-exchange and its store, and
\* the guard says RUNNING exactly while there is one: a later failed attempt of
\* another caller never resets a guard somebody is running under.
OneRunner ==
    /\ \A c, d \in Callers : Winner(c) /\ Winner(d) => c = d
    /\ (\E c \in Callers : Winner(c)) <=> bb_once_state = "RUNNING"

\* bb_lock_once_ensure's recheck "can never actually trigger": a call that
\* returned true may use the lock, because DONE is only ever published after a
\* successful bb_lock_init.
TrueMeansCreated ==
    Fallible => /\ bb_once_state = "DONE" => initialized
                /\ \A c \in Callers : at[c] = "true" => initialized

\* The body never succeeds twice: bb_lock_init is not run on a live lock.
CreatedOnce == created <= 1

\* bb_once_run_fallible returns false only if an attempt that failed ended while
\* this call was in progress: no caller gets a spurious BB_ERR_NO_MEM, and no
\* caller is told of a failure that was over before it called.
FalseIsHonest == \A c \in Callers : at[c] = "false" => sawFail[c]

\* Once fn() fails only finitely often, every call returns: neither the winner
\* nor a loser polling through RUNNING -> IDLE -> RUNNING cycles waits for ever.
EveryCallReturns == \A c \in Callers : Active(c) ~> ~ Active(c)

=============================================================================
