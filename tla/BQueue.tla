------------------------------- MODULE BQueue -------------------------------
(***************************************************************************)
(* bb_bqueue, host backend: a ring of Capacity slots under one bb_lock_t    *)
(* with two condition variables.  Capacity = 1 selects mailbox mode         *)
(* (overwrite/reset), a larger one bounded-MPSC mode (send/dropped).        *)
(*                                                                          *)
(* A step is what a thread does between acquiring and releasing the lock;   *)
(* bb_bqueue_wait_until releases it while its thread sleeps.                *)
(***************************************************************************)
EXTENDS Integers, Sequences, FiniteSets

CONSTANTS
    Threads,    \* producers, consumers and peekers
    Items,      \* values sent
    Capacity,   \* cfg->capacity
    DroppedMod  \* the dropped counter is a size_t: it wraps here

ASSUME BQueueAssumption == /\ Capacity \in Nat \ {0}
                           /\ DroppedMod \in Nat \ {0}

VARIABLES
    storage, head, count, dropped,  \* bb_bqueue_inst_t
    th      \* per thread: what it is doing and the operands of its call

inst == <<storage, head, count, dropped>>
vars == <<inst, th>>

Index == 0..(Capacity - 1)
Unset == 0      \* create() zeroes the storage
Mailbox == Capacity = 1

Ops == {"send", "receive", "peek"}
Timeouts == {"zero", "finite", "forever"}
Results == {"none", "OK", "NOT_FOUND", "NO_SPACE", "TIMEOUT"}

\* st: "out" of any call; asleep in bb_lock_cond_wait; "woken" (it will return
\* BB_OK) or "timedout" (it will return BB_ERR_TIMEOUT) and queued for the lock.
\* late: the call's absolute deadline has passed.
Thread == [st : {"out", "asleep", "woken", "timedout"}, op : Ops,
           item : Items \cup {Unset}, timeout : Timeouts, late : BOOLEAN,
           res : Results, out : Items \cup {Unset}]

\* Outside a call: the last result is all that is left of it.
Out(r, x) == [st |-> "out", op |-> "peek", item |-> Unset, timeout |-> "zero",
              late |-> FALSE, res |-> r, out |-> x]

\* Which count blocks the operation: wait_until's blocked_at.
BlockedAt(op) == IF op = "send" THEN Capacity ELSE 0

\* The condition variable an operation waits on, and who sleeps on one.
WaitsOn(op) == IF op = "send" THEN "not_full" ELSE "not_empty"
Sleepers(cond) == {t \in Threads : th[t].st = "asleep" /\ WaitsOn(th[t].op) = cond}

Init ==
    /\ storage = [i \in Index |-> Unset]
    /\ head = 0
    /\ count = 0
    /\ dropped = 0
    /\ th = [t \in Threads |-> Out("none", Unset)]

\* Mutant: signal instead of broadcast.
Broadcast_Signals(others, cond) ==
    LET lucky == IF Sleepers(cond) = {} THEN {}
                 ELSE {CHOOSE t \in Sleepers(cond) : TRUE}
    IN  [t \in Threads |-> IF t \in lucky THEN [others[t] EXCEPT !.st = "woken"] ELSE others[t]]

\* bb_lock_cond_broadcast: every sleeper of the condition variable is woken; others
\* is th with the calling thread's own change.
Broadcast(others, cond) ==
    [t \in Threads |-> IF t \in Sleepers(cond) THEN [others[t] EXCEPT !.st = "woken"]
                       ELSE others[t]]

Return(t, r, x) == [th EXCEPT ![t] = Out(r, x)]

-----------------------------------------------------------------------------
\* What each operation does once wait_until has returned BB_OK.

\* Mutant: the tail is one slot off.
TailIndex_OffByOne == (head + count + 1) % Capacity

TailIndex == (head + count) % Capacity

SendItem(t) ==
    /\ storage' = [storage EXCEPT ![TailIndex] = th[t].item]
    /\ count' = count + 1
    /\ th' = Broadcast(Return(t, "OK", Unset), "not_empty")
    /\ UNCHANGED <<head, dropped>>

PeekItem(t) ==
    /\ th' = Return(t, "OK", storage[head])
    /\ UNCHANGED inst

\* The mailbox forgets its item; the ring advances and wakes blocked producers.
ReceiveItem(t) ==
    /\ IF Mailbox
         THEN /\ count' = 0
              /\ th' = Return(t, "OK", storage[head])
              /\ UNCHANGED head
         ELSE /\ head' = (head + 1) % Capacity
              /\ count' = count - 1
              /\ th' = Broadcast(Return(t, "OK", storage[head]), "not_full")
    /\ UNCHANGED <<storage, dropped>>

Perform(t) ==
    \/ th[t].op = "send" /\ SendItem(t)
    \/ th[t].op = "receive" /\ ReceiveItem(t)
    \/ th[t].op = "peek" /\ PeekItem(t)

\* wait_until returned an error: send counts the drop.
Fail(t, err) ==
    /\ th' = Return(t, err, Unset)
    /\ IF th[t].op = "send" THEN dropped' = (dropped + 1) % DroppedMod
       ELSE UNCHANGED dropped
    /\ UNCHANGED <<storage, head, count>>

-----------------------------------------------------------------------------
\* A thread calls send, receive or peek; the mode check comes first.
Call(t, op, x, timeout) ==
    /\ th[t].st = "out"
    /\ op = "send" => ~ Mailbox
    /\ th' = [th EXCEPT ![t] = [st |-> "woken", op |-> op, item |-> x, timeout |-> timeout,
                                late |-> FALSE, res |-> "none", out |-> Unset]]
    /\ UNCHANGED inst

\* The thread holds the lock and the predicate holds: the operation completes.
Proceed(t) ==
    /\ th[t].st = "woken"
    /\ count # BlockedAt(th[t].op)
    /\ Perform(t)

\* timeout_ms == 0 and the predicate does not hold.
TryFails(t) ==
    /\ th[t].st = "woken"
    /\ count = BlockedAt(th[t].op)
    /\ th[t].timeout = "zero"
    /\ Fail(t, IF th[t].op = "send" THEN "NO_SPACE" ELSE "NOT_FOUND")

\* Mutant: every trip round the loop re-arms the full timeout.
Sleep_Rearms(t) ==
    /\ th[t].st = "woken"
    /\ count = BlockedAt(th[t].op)
    /\ th[t].timeout # "zero"
    /\ th' = [th EXCEPT ![t].st = "asleep", ![t].late = FALSE]
    /\ UNCHANGED inst

\* One trip round wait_until's loop: sleep, unless the deadline has passed.
Sleep(t) ==
    /\ th[t].st = "woken"
    /\ count = BlockedAt(th[t].op)
    /\ th[t].timeout # "zero"
    /\ ~ th[t].late
    /\ th' = [th EXCEPT ![t].st = "asleep"]
    /\ UNCHANGED inst

\* The loop finds the deadline in the past.
DeadlinePassed(t) ==
    /\ th[t].st = "woken"
    /\ count = BlockedAt(th[t].op)
    /\ th[t].late
    /\ Fail(t, "TIMEOUT")

\* bb_lock_cond_wait returned BB_ERR_TIMEOUT: wait_until returns it at once,
\* whatever count is by now.
WaitTimedOut(t) ==
    /\ th[t].st = "timedout"
    /\ Fail(t, "TIMEOUT")

\* The call's deadline passes; a sleeper times out.
Expire(t) ==
    /\ th[t].timeout = "finite"
    /\ th[t].st \in {"asleep", "woken"}
    /\ ~ th[t].late
    /\ th' = [th EXCEPT ![t].late = TRUE,
                        ![t].st = IF @ = "asleep" THEN "timedout" ELSE @]
    /\ UNCHANGED inst

\* pthread_cond_wait may return without a signal.
SpuriousWakeup(t) ==
    /\ th[t].st = "asleep"
    /\ th' = [th EXCEPT ![t].st = "woken"]
    /\ UNCHANGED inst

\* Mutant: overwrite counts a second item.
Overwrite_Counts(x) ==
    /\ Mailbox
    /\ storage' = [storage EXCEPT ![0] = x]
    /\ count < 2 /\ count' = count + 1
    /\ th' = Broadcast(th, "not_empty")
    /\ UNCHANGED <<head, dropped>>

\* bb_bqueue_overwrite.
Overwrite(x) ==
    /\ Mailbox
    /\ storage' = [storage EXCEPT ![0] = x]
    /\ count' = 1
    /\ th' = Broadcast(th, "not_empty")
    /\ UNCHANGED <<head, dropped>>

\* bb_bqueue_reset.
Reset ==
    /\ Mailbox
    /\ count' = 0
    /\ UNCHANGED <<storage, head, dropped, th>>

Locked(t) == Proceed(t) \/ TryFails(t) \/ Sleep(t) \/ DeadlinePassed(t) \/ WaitTimedOut(t)

Next ==
    \/ \E t \in Threads :
         \/ \E timeout \in Timeouts :
              \/ \E x \in Items : Call(t, "send", x, timeout)
              \/ \E op \in {"receive", "peek"} : Call(t, op, Unset, timeout)
         \/ Locked(t)
         \/ Expire(t)
         \/ SpuriousWakeup(t)
    \/ \E x \in Items : Overwrite(x)
    \/ Reset

Spec == Init /\ [][Next]_vars

\* Threads get the lock they queue for, and time passes.
FairSpec == Spec /\ \A t \in Threads : WF_vars(Locked(t)) /\ WF_vars(Expire(t))

-----------------------------------------------------------------------------
\* The instance stays a ring of Capacity slots.
TypeOK ==
    /\ storage \in [Index -> Items \cup {Unset}]
    /\ head \in Index
    /\ count \in 0..Capacity
    /\ dropped \in 0..(DroppedMod - 1)
    /\ th \in [Threads -> Thread]

\* No lost wakeup: nobody sleeps on not_empty while there is an item, or on not_full
\* while there is room.  peek does not consume, so one signal per item would not do.
NoSleeperWithWork ==
    /\ count > 0 => Sleepers("not_empty") = {}
    /\ count < Capacity => Sleepers("not_full") = {}

\* The ring as the sequence it stands for, oldest item first.
Contents == [k \in 1..count |-> storage[(head + k - 1) % Capacity]]

\* A thread's call as its caller sees it: under way, or what it returned.
Calls == [t \in Threads |->
            [op |-> IF th[t].st = "out" THEN "none" ELSE th[t].op, item |-> th[t].item,
             timeout |-> th[t].timeout, res |-> th[t].res, out |-> th[t].out]]

\* Under any interleaving of sleepers, wakeups and timeouts the ring under its lock is
\* the bounded FIFO (or mailbox) it advertises: a receive returns the oldest item sent
\* and not received, a failed send is counted, a call fails only for its reason.
Fifo == INSTANCE BoundedFifo WITH buf <- Contents, call <- Calls
ImplementsFifo == Fifo!Spec

\* A call with a finite timeout returns, however often it is woken in vain while
\* other threads take the item (or the room) it was woken for.
TimedCallReturns ==
    \A t \in Threads : (th[t].st # "out" /\ th[t].timeout = "finite") ~> (th[t].st = "out")

=============================================================================
