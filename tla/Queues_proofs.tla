---------------------------- MODULE Queues_proofs ----------------------------
(***************************************************************************)
(* Proofs about the two queues that threads share: BQueue, whose every     *)
(* access is under a lock, and the event ring of DataPush, which is fed    *)
(* under a lock and drained without one.  Nothing but a home is common to  *)
(* the two parts.                                                          *)
(*                                                                         *)
(* BQueue: no lost wakeup, for every capacity, any set of threads and any  *)
(* interleaving of sends, receives, peeks, overwrites, resets, timeouts    *)
(* and spurious wakeups.  NoSleeperWithWork is not inductive alone: a      *)
(* mailbox empties itself without waking senders, which is right only      *)
(* because a mailbox never has a sender (the mode check comes before the   *)
(* wait).  The ring also implements the FIFO of BoundedFifo: the slots     *)
(* read from head, count of them, are the queue, and a thread's record,    *)
(* without where it waits, is the call its caller sees.  That needs one    *)
(* fact more: only a call with a finite timeout can be late or time out    *)
(* (OnlyFiniteExpires).                                                    *)
(*                                                                         *)
(* DataPush: its invariant is described where it is defined, below.        *)
(***************************************************************************)
EXTENDS BQueue, DataPush, TLAPS, FiniteSetTheorems, SequenceTheorems, WellFoundedInduction

NoMailboxSender == Mailbox => \A t \in Threads : th[t].st # "out" => th[t].op # "send"

BInv == TypeOK /\ NoSleeperWithWork /\ NoMailboxSender

\* A ring index stays a ring index.
LEMMA RingIndex ==
  ASSUME NEW a \in Nat
  PROVE  a % Capacity \in Index
BY BQueueAssumption DEF Index

\* What a thread looks like after a call.
LEMMA OutType ==
  ASSUME NEW r \in Results, NEW x \in Items \cup {Unset}
  PROVE  Out(r, x) \in Thread /\ Out(r, x).st = "out"
BY DEF Out, Thread, Ops, Timeouts

\* A call that returns takes its own thread out of the queue and no other.
LEMMA ReturnType ==
  ASSUME TypeOK, NEW t \in Threads, NEW r \in Results, NEW x \in Items \cup {Unset}
  PROVE  /\ Return(t, r, x) \in [Threads -> Thread]
         /\ Return(t, r, x)[t].st = "out"
         /\ \A u \in Threads \ {t} : Return(t, r, x)[u] = th[u]
BY OutType DEF Return, TypeOK

\* A broadcast leaves its condition variable without sleepers and every other
\* thread as it was.
LEMMA BroadcastType ==
  ASSUME NEW f \in [Threads -> Thread], NEW cond
  PROVE  /\ Broadcast(f, cond) \in [Threads -> Thread]
         /\ \A u \in Threads :
              /\ u \in Sleepers(cond) => Broadcast(f, cond)[u].st = "woken"
              /\ u \notin Sleepers(cond) => Broadcast(f, cond)[u] = f[u]
              /\ Broadcast(f, cond)[u].op = f[u].op
<1>1. \A u \in Threads : [f[u] EXCEPT !.st = "woken"] \in Thread
                          /\ [f[u] EXCEPT !.st = "woken"].st = "woken"
                          /\ [f[u] EXCEPT !.st = "woken"].op = f[u].op
  BY DEF Thread
<1> QED
  BY <1>1 DEF Broadcast

\* bb_bqueue_create hands out an empty queue with nobody waiting.
LEMMA InitBInv == Init => BInv
<1> SUFFICES ASSUME Init PROVE BInv
  OBVIOUS
<1>1. \A t \in Threads : th[t] \in Thread /\ th[t].st = "out"
  BY OutType DEF Init, Results
<1>2. TypeOK
  BY <1>1, BQueueAssumption DEF Init, TypeOK, Index
<1>3. NoSleeperWithWork
  BY <1>1 DEF NoSleeperWithWork, WaitsOn, Sleepers
<1> QED
  BY <1>1, <1>2, <1>3 DEF BInv, NoMailboxSender

\* A step that touches neither the ring nor who sleeps and does not start a send in
\* a mailbox keeps the invariant.
LEMMA RestBInv ==
  ASSUME BInv, TypeOK', UNCHANGED count,
         \A u \in Threads : th'[u].st = "asleep" => th[u].st = "asleep" /\ th'[u].op = th[u].op,
         \A u \in Threads : th'[u].st # "out" => th[u].st # "out" /\ th'[u].op = th[u].op
  PROVE  BInv'
BY DEF BInv, NoSleeperWithWork, WaitsOn, Sleepers, NoMailboxSender, Mailbox

\* The three operations that complete under the lock.
LEMMA PerformBInv ==
  ASSUME BInv, NEW t \in Threads, Proceed(t)
  PROVE  BInv'
<1> USE DEF BInv
<1>0. /\ count \in 0..Capacity /\ head \in Index /\ Capacity \in Nat \ {0}
      /\ th[t] \in Thread /\ th[t].st = "woken" /\ count # BlockedAt(th[t].op)
      /\ storage \in [Index -> Items \cup {Unset}] /\ 0 \in Index
  BY BQueueAssumption DEF TypeOK, Proceed, Index
<1>1. CASE th[t].op = "send" /\ SendItem(t)
  <2> DEFINE r == Return(t, "OK", Unset)
  <2>1. r \in [Threads -> Thread] /\ r[t].st = "out" /\ \A u \in Threads \ {t} : r[u] = th[u]
    BY ReturnType DEF Results
  <2>2. th' = Broadcast(r, "not_empty") /\ count' = count + 1 /\ UNCHANGED <<head, dropped>>
        /\ storage' = [storage EXCEPT ![TailIndex] = th[t].item]
    BY <1>1 DEF SendItem
  <2> HIDE DEF r
  <2>3. count < Capacity /\ ~ Mailbox
    BY <1>0, <1>1 DEF BlockedAt, NoMailboxSender
  <2>4. storage' \in [Index -> Items \cup {Unset}]
    BY <2>2, <1>0 DEF Thread
  <2>5. th' \in [Threads -> Thread]
    BY <2>1, <2>2, BroadcastType
  <2>6. TypeOK'
    BY <2>2, <2>3, <2>4, <2>5, <1>0 DEF TypeOK
  <2>7. \A u \in Threads : th'[u].st = "asleep" => th[u].st = "asleep" /\ th[u].op = "send"
                                                    /\ th'[u].op = "send"
    BY <2>1, <2>2, BroadcastType DEF WaitsOn, Sleepers
  <2>8. Sleepers("not_full") = {}
    BY <2>3 DEF NoSleeperWithWork
  <2>9. NoSleeperWithWork'
    BY <2>7, <2>8 DEF NoSleeperWithWork, WaitsOn, Sleepers
  <2> QED BY <2>3, <2>6, <2>9 DEF NoMailboxSender, Mailbox
<1>2. CASE th[t].op = "receive" /\ ReceiveItem(t)
  <2> DEFINE r == Return(t, "OK", storage[head])
  <2>1. r \in [Threads -> Thread] /\ r[t].st = "out" /\ \A u \in Threads \ {t} : r[u] = th[u]
    BY <1>0, ReturnType DEF Results
  <2>2. count > 0
    BY <1>0, <1>2 DEF BlockedAt
  <2>3. Sleepers("not_empty") = {}
    BY <2>2 DEF NoSleeperWithWork
  <2>4. CASE Mailbox
    <3>1. th' = r /\ count' = 0 /\ UNCHANGED <<storage, head, dropped>>
      BY <1>2, <2>4 DEF ReceiveItem
    <3> HIDE DEF r
    <3>2. TypeOK'
      BY <3>1, <2>1, <1>0 DEF TypeOK
    <3>3. \A u \in Threads : th'[u].st # "out" => th'[u] = th[u] /\ u # t
      BY <3>1, <2>1
    <3>4. NoMailboxSender'
      BY <3>3 DEF NoMailboxSender, Mailbox
    <3>5. Sleepers("not_full")' = {}
      BY <3>4, <2>4 DEF WaitsOn, Sleepers, NoMailboxSender, Mailbox
    <3> QED BY <3>1, <3>2, <3>4, <3>5 DEF NoSleeperWithWork
  <2>5. CASE ~ Mailbox
    <3>1. th' = Broadcast(r, "not_full") /\ count' = count - 1 /\ head' = (head + 1) % Capacity
          /\ UNCHANGED <<storage, dropped>>
      BY <1>2, <2>5 DEF ReceiveItem
    <3> HIDE DEF r
    <3>2. head' \in Index
      <4>1. head + 1 \in Nat
        BY <1>0 DEF Index
      <4> QED BY <3>1, <4>1, RingIndex
    <3>3. th' \in [Threads -> Thread]
      BY <3>1, <2>1, BroadcastType
    <3>4. TypeOK'
      BY <3>1, <3>2, <3>3, <2>2, <1>0 DEF TypeOK
    <3>5. \A u \in Threads : th'[u].st # "asleep"
      BY <3>1, <2>1, <2>3, BroadcastType DEF WaitsOn, Sleepers, TypeOK, Thread
    <3> QED BY <3>4, <3>5, <2>5 DEF NoSleeperWithWork, WaitsOn, Sleepers, NoMailboxSender, Mailbox
  <2> QED BY <2>4, <2>5
<1>3. CASE th[t].op = "peek" /\ PeekItem(t)
  <2>1. /\ th' \in [Threads -> Thread] /\ th'[t].st = "out"
        /\ \A u \in Threads \ {t} : th'[u] = th[u]
    BY <1>0, <1>3, ReturnType DEF PeekItem, Results
  <2>2. TypeOK' /\ UNCHANGED count
    BY <2>1, <1>3 DEF PeekItem, TypeOK, inst
  <2> QED BY <2>1, <2>2, RestBInv
<1> QED BY <1>1, <1>2, <1>3 DEF Proceed, Perform

\* A failed wait returns and, for a send, counts the drop.
LEMMA FailBInv ==
  ASSUME BInv, NEW t \in Threads, NEW err \in Results, Fail(t, err)
  PROVE  BInv'
<1>1. /\ th' \in [Threads -> Thread] /\ th'[t].st = "out"
      /\ \A u \in Threads \ {t} : th'[u] = th[u]
  BY ReturnType DEF Fail, BInv
<1>2. dropped' \in 0..(DroppedMod - 1)
  BY BQueueAssumption DEF Fail, BInv, TypeOK
<1>3. TypeOK' /\ UNCHANGED count
  BY <1>1, <1>2 DEF Fail, BInv, TypeOK
<1> QED BY <1>1, <1>3, RestBInv

\* A step that only changes one thread's record, and neither its operation nor puts
\* it to sleep.
LEMMA ThreadOnlyBInv ==
  ASSUME BInv, NEW t \in Threads, NEW r \in Thread, UNCHANGED inst,
         th' = [th EXCEPT ![t] = r], r.st # "asleep",
         r.st # "out" => th[t].st # "out" /\ r.op = th[t].op
  PROVE  BInv'
<1>1. TypeOK' /\ UNCHANGED count
  BY DEF BInv, TypeOK, inst
<1>2. \A u \in Threads : u # t => th'[u] = th[u]
  BY DEF BInv, TypeOK
<1>3. th'[t] = r
  BY DEF BInv, TypeOK
<1> QED BY <1>1, <1>2, <1>3, RestBInv

\* Every step of every thread keeps the inductive invariant.
LEMMA NextBInv == BInv /\ [Next]_vars => BInv'
<1> SUFFICES ASSUME BInv, [Next]_vars PROVE BInv'
  OBVIOUS
<1> USE DEF BInv
<1>1. ASSUME NEW t \in Threads, NEW timeout \in Timeouts, NEW op \in Ops,
             NEW x \in Items \cup {Unset}, Call(t, op, x, timeout)
      PROVE  BInv'
  <2> DEFINE r == [st |-> "woken", op |-> op, item |-> x, timeout |-> timeout,
                   late |-> FALSE, res |-> "none", out |-> Unset]
  <2>1. r \in Thread /\ r.st = "woken" /\ r.op = op
    BY DEF Thread, Results
  <2>2. th' = [th EXCEPT ![t] = r] /\ UNCHANGED inst /\ (op = "send" => ~ Mailbox)
    BY <1>1 DEF Call
  <2> HIDE DEF r
  <2>3. TypeOK' /\ UNCHANGED count
    BY <2>1, <2>2 DEF TypeOK, inst
  <2>4. th'[t] = r /\ \A u \in Threads : u # t => th'[u] = th[u]
    BY <2>2 DEF TypeOK
  <2>5. NoSleeperWithWork'
    BY <2>1, <2>3, <2>4 DEF NoSleeperWithWork, WaitsOn, Sleepers
  <2>6. NoMailboxSender'
    BY <2>1, <2>2, <2>4 DEF NoMailboxSender, Mailbox
  <2> QED BY <2>3, <2>5, <2>6
<1>2. ASSUME NEW t \in Threads, Locked(t) PROVE BInv'
  <2>1. CASE Proceed(t)
    BY <2>1, PerformBInv
  <2>2. CASE TryFails(t)
    BY <2>2, FailBInv DEF TryFails, Results
  <2>3. CASE DeadlinePassed(t)
    BY <2>3, FailBInv DEF DeadlinePassed, Results
  <2>4. CASE WaitTimedOut(t)
    BY <2>4, FailBInv DEF WaitTimedOut, Results
  <2>5. CASE Sleep(t)
    <3>1. /\ UNCHANGED inst /\ count = BlockedAt(th[t].op) /\ th[t].st = "woken"
          /\ th' = [th EXCEPT ![t].st = "asleep"]
      BY <2>5 DEF Sleep
    <3>2. th[t] \in Thread
      BY DEF TypeOK
    <3>3. th' \in [Threads -> Thread] /\ th'[t].op = th[t].op
          /\ \A u \in Threads : u # t => th'[u] = th[u]
      BY <3>1, <3>2 DEF TypeOK, Thread
    <3>4. TypeOK' /\ UNCHANGED count
      BY <3>1, <3>3 DEF TypeOK, inst
    <3>5. Sleepers("not_full")' \subseteq Sleepers("not_full") \cup {t} /\ Sleepers("not_empty")' \subseteq Sleepers("not_empty") \cup {t}
      BY <3>3 DEF WaitsOn, Sleepers
    <3>6. CASE th[t].op = "send"
      <4>1. count = Capacity /\ t \notin Sleepers("not_empty")'
        BY <3>1, <3>3, <3>6 DEF BlockedAt, WaitsOn, Sleepers
      <4> QED BY <3>1, <3>3, <3>4, <3>5, <4>1, BQueueAssumption
              DEF NoSleeperWithWork, NoMailboxSender, Mailbox
    <3>7. CASE th[t].op # "send"
      <4>1. count = 0 /\ t \notin Sleepers("not_full")'
        BY <3>1, <3>3, <3>7 DEF BlockedAt, WaitsOn, Sleepers
      <4> QED BY <3>1, <3>3, <3>4, <3>5, <4>1, BQueueAssumption
              DEF NoSleeperWithWork, NoMailboxSender, Mailbox
    <3> QED BY <3>6, <3>7
  <2> QED BY <1>2, <2>1, <2>2, <2>3, <2>4, <2>5 DEF Locked
<1>3. ASSUME NEW t \in Threads, Expire(t) PROVE BInv'
  <2> DEFINE r == [th[t] EXCEPT !.late = TRUE,
                                !.st = IF @ = "asleep" THEN "timedout" ELSE @]
  <2>1. th[t] \in Thread /\ th[t].st \in {"asleep", "woken"}
    BY <1>3 DEF Expire, TypeOK
  <2>2. r \in Thread /\ r.st # "asleep" /\ r.op = th[t].op /\ th[t].st # "out"
    BY <2>1 DEF Thread
  <2>3. th' = [th EXCEPT ![t] = r] /\ UNCHANGED inst
    BY <1>3 DEF Expire
  <2> HIDE DEF r
  <2> QED BY <2>2, <2>3, ThreadOnlyBInv
<1>4. ASSUME NEW t \in Threads, SpuriousWakeup(t) PROVE BInv'
  <2> DEFINE r == [th[t] EXCEPT !.st = "woken"]
  <2>1. th[t] \in Thread /\ th[t].st = "asleep"
    BY <1>4 DEF SpuriousWakeup, TypeOK
  <2>2. r \in Thread /\ r.st = "woken" /\ r.op = th[t].op
    BY <2>1 DEF Thread
  <2>3. th' = [th EXCEPT ![t] = r] /\ UNCHANGED inst
    BY <1>4 DEF SpuriousWakeup
  <2> HIDE DEF r
  <2> QED BY <2>1, <2>2, <2>3, ThreadOnlyBInv
<1>5. ASSUME NEW x \in Items, Overwrite(x) PROVE BInv'
  <2>1. /\ Mailbox /\ storage' = [storage EXCEPT ![0] = x] /\ count' = 1
        /\ th' = Broadcast(th, "not_empty") /\ UNCHANGED <<head, dropped>>
    BY <1>5 DEF Overwrite
  <2>2. th \in [Threads -> Thread] /\ 0 \in Index /\ Capacity = 1
    BY <2>1, BQueueAssumption DEF TypeOK, Index, Mailbox
  <2>3. /\ th' \in [Threads -> Thread]
        /\ \A u \in Threads : th'[u].op = th[u].op
        /\ \A u \in Threads : th'[u].st = "asleep" => th[u].op = "send" /\ th[u].st = "asleep"
        /\ \A u \in Threads : th'[u].st # "out" => th[u].st # "out"
    BY <2>1, <2>2, BroadcastType DEF WaitsOn, Sleepers
  <2>4. TypeOK'
    BY <2>1, <2>2, <2>3 DEF TypeOK, Index
  <2>5. NoMailboxSender'
    <3>1. \A u \in Threads : th[u].st # "out" => th[u].op # "send"
      BY <2>1 DEF NoMailboxSender
    <3> QED BY <2>3, <3>1 DEF NoMailboxSender
  <2>6. NoSleeperWithWork'
    BY <2>1, <2>2, <2>3 DEF NoSleeperWithWork, WaitsOn, Sleepers
  <2> QED BY <2>4, <2>5, <2>6
<1>6. CASE Reset
  <2>1. Mailbox /\ count' = 0 /\ UNCHANGED <<storage, head, dropped, th>>
    BY <1>6 DEF Reset
  <2>2. TypeOK' /\ NoMailboxSender'
    BY <2>1, BQueueAssumption DEF TypeOK, NoMailboxSender, Mailbox
  <2>3. Sleepers("not_full")' = {}
    BY <2>1, <2>2 DEF WaitsOn, Sleepers, NoMailboxSender, Mailbox
  <2> QED BY <2>1, <2>2, <2>3 DEF NoSleeperWithWork
<1>7. CASE UNCHANGED vars
  BY <1>7 DEF vars, inst, TypeOK, NoSleeperWithWork, WaitsOn, Sleepers, NoMailboxSender, Mailbox
<1> QED
  BY <1>1, <1>2, <1>3, <1>4, <1>5, <1>6, <1>7 DEF Next, Ops

\* The inductive invariant holds in every reachable state.
LEMMA BInvHolds == Spec => []BInv
BY InitBInv, NextBInv, PTL DEF Spec

\* The ring keeps its bounds for every capacity: count never exceeds it and both
\* ends stay inside the storage.
THEOREM TypeCorrect == Spec => []TypeOK
<1>1. BInv => TypeOK
  BY DEF BInv
<1> QED BY BInvHolds, <1>1, PTL

\* No thread sleeps in bb_lock_cond_wait while the queue could serve it, for every
\* capacity and any number of senders, receivers and peekers.
THEOREM NoSleeperWithWorkHolds == Spec => []NoSleeperWithWork
<1>1. BInv => NoSleeperWithWork
  BY DEF BInv
<1> QED BY BInvHolds, <1>1, PTL

-----------------------------------------------------------------------------
\* The refinement: the ring, read from head for count slots, is the sequence of
\* BoundedFifo.

\* A deadline passes only for a call that has one.
OnlyFiniteExpires ==
    \A t \in Threads : (th[t].late \/ th[t].st = "timedout") => th[t].timeout = "finite"

\* A ring index wraps at most once.
LEMMA ModOnce ==
  \A a \in Nat : a < 2 * Capacity =>
      a % Capacity = IF a < Capacity THEN a ELSE a - Capacity
BY BQueueAssumption

\* A ring of n items from slot h is a sequence of n items.
Ring(st, h, n) == [k \in 1..n |-> st[(h + k - 1) % Capacity]]

\* The ring read from head for count slots is a sequence of that length.
LEMMA RingSeq ==
  ASSUME NEW st \in [Index -> Items \cup {Unset}], NEW h \in Index, NEW n \in 0..Capacity
  PROVE  /\ Ring(st, h, n) \in Seq(Items \cup {Unset}) /\ Len(Ring(st, h, n)) = n
         /\ \A k \in 1..n : Ring(st, h, n)[k] = st[(h + k - 1) % Capacity]
<1>1. n \in Nat /\ h \in Nat /\ h < Capacity /\ Capacity \in Nat
  BY BQueueAssumption DEF Index
<1>2. ASSUME NEW k \in 1..n PROVE st[(h + k - 1) % Capacity] \in Items \cup {Unset}
  <2>1. h + k - 1 \in Nat
    BY <1>1
  <2> QED BY <2>1, RingIndex
<1> QED BY <1>1, <1>2 DEF Ring

\* What a caller sees of a thread's record.
AsCall(c) == [op |-> IF c.st = "out" THEN "none" ELSE c.op, item |-> c.item,
              timeout |-> c.timeout, res |-> c.res, out |-> c.out]

\* Going to sleep, waking and expiring are invisible to callers.
LEMMA WaitingUnseen ==
  ASSUME \A u \in Threads : AsCall(th'[u]) = AsCall(th[u])
  PROVE  Calls' = Calls
BY DEF Calls, AsCall

\* A broadcast wakes sleepers, and no caller sees it.
LEMMA BroadcastUnseen ==
  ASSUME NEW f \in [Threads -> Thread], NEW cond, NEW u \in Threads,
         u \in Sleepers(cond) => f[u].st # "out"
  PROVE  /\ AsCall(Broadcast(f, cond)[u]) = AsCall(f[u])
         /\ Broadcast(f, cond)[u].late = f[u].late
         /\ Broadcast(f, cond)[u].timeout = f[u].timeout
         /\ Broadcast(f, cond)[u].st = "timedout" => f[u].st = "timedout"
<1>1. f[u] \in Thread
  OBVIOUS
<1>2. Broadcast(f, cond)[u] = IF u \in Sleepers(cond) THEN [f[u] EXCEPT !.st = "woken"] ELSE f[u]
  BY DEF Broadcast
<1>3. CASE u \in Sleepers(cond)
  <2> DEFINE w == [f[u] EXCEPT !.st = "woken"]
  <2>1. /\ w.st = "woken" /\ w.op = f[u].op /\ w.item = f[u].item
        /\ w.timeout = f[u].timeout /\ w.late = f[u].late
        /\ w.res = f[u].res /\ w.out = f[u].out
    BY <1>1 DEF Thread
  <2>2. Broadcast(f, cond)[u] = w /\ f[u].st # "out"
    BY <1>2, <1>3
  <2> HIDE DEF w
  <2> QED BY <2>1, <2>2 DEF AsCall
<1>4. CASE u \notin Sleepers(cond)
  BY <1>2, <1>4
<1> QED BY <1>3, <1>4

\* A call that returns shows its caller the result, and the other callers nothing.
LEMMA ReturnSeen ==
  ASSUME TypeOK, NEW t \in Threads, NEW r \in Results, NEW x \in Items \cup {Unset},
         th[t].st # "asleep",
         \/ th' = Return(t, r, x)
         \/ \E cond \in {"not_empty", "not_full"} : th' = Broadcast(Return(t, r, x), cond)
  PROVE  /\ Calls' = [Calls EXCEPT ![t] = Fifo!Returned(r, x)]
         /\ OnlyFiniteExpires => OnlyFiniteExpires'
<1> DEFINE f == Return(t, r, x)
<1>1. f \in [Threads -> Thread] /\ f[t] = Out(r, x) /\ \A u \in Threads \ {t} : f[u] = th[u]
  BY ReturnType, OutType DEF Return, TypeOK
<1>2. th' = f \/ \E cond \in {"not_empty", "not_full"} : th' = Broadcast(f, cond)
  OBVIOUS
<1> HIDE DEF f
<1>3. \A cond \in {"not_empty", "not_full"}, u \in Threads : u \in Sleepers(cond) => f[u].st # "out"
  BY <1>1 DEF Sleepers
<1>4. \A u \in Threads : /\ AsCall(th'[u]) = AsCall(f[u])
                         /\ th'[u].late = f[u].late /\ th'[u].timeout = f[u].timeout
                         /\ th'[u].st = "timedout" => f[u].st = "timedout"
  <2>1. CASE th' = f
    BY <2>1
  <2>2. CASE \E cond \in {"not_empty", "not_full"} : th' = Broadcast(f, cond)
    <3>1. PICK cond \in {"not_empty", "not_full"} : th' = Broadcast(f, cond)
      BY <2>2
    <3> QED BY <1>1, <1>3, <3>1, BroadcastUnseen
  <2> QED BY <1>2, <2>1, <2>2
<1>5. AsCall(Out(r, x)) = Fifo!Returned(r, x)
  BY DEF AsCall, Out, Fifo!Returned
<1>6. Calls = [u \in Threads |-> AsCall(th[u])] /\ Calls' = [u \in Threads |-> AsCall(th'[u])]
  BY DEF Calls, AsCall
<1>7. \A u \in Threads : AsCall(th'[u]) = IF u = t THEN Fifo!Returned(r, x) ELSE AsCall(th[u])
  BY <1>1, <1>4, <1>5
<1>8. Calls' = [Calls EXCEPT ![t] = Fifo!Returned(r, x)]
  BY <1>6, <1>7
<1>9. OnlyFiniteExpires => OnlyFiniteExpires'
  BY <1>1, <1>4 DEF OnlyFiniteExpires, Out
<1> QED BY <1>8, <1>9

\* How the caller of a thread inside a call sees it.
LEMMA SeenInCall ==
  ASSUME NEW t \in Threads
  PROVE  /\ th[t].st # "out" => Calls[t].op = th[t].op
         /\ th[t].st = "out" => Calls[t].op = "none"
         /\ Calls[t].item = th[t].item /\ Calls[t].timeout = th[t].timeout
BY DEF Calls

\* A send that finds room appends its item.
LEMMA SendRefines ==
  ASSUME BInv, TypeOK', NEW t \in Threads, Proceed(t), th[t].op = "send"
  PROVE  Fifo!Send(t) /\ (OnlyFiniteExpires => OnlyFiniteExpires')
<1>1. /\ storage' = [storage EXCEPT ![TailIndex] = th[t].item] /\ count' = count + 1
      /\ UNCHANGED <<head, dropped>> /\ th[t].st = "woken" /\ count # Capacity
  BY DEF Proceed, Perform, SendItem, BlockedAt
<1>2. /\ count \in Nat /\ count < Capacity /\ head \in Nat /\ head < Capacity
      /\ Capacity \in Nat /\ storage \in [Index -> Items \cup {Unset}]
  BY <1>1, BQueueAssumption DEF BInv, TypeOK, Index
<1>3. th[t].item \in Items \cup {Unset}
  BY DEF BInv, TypeOK, Thread
<1>4. TailIndex \in Index
  BY <1>2, RingIndex DEF TailIndex
<1>5. ASSUME NEW k \in 1..count
      PROVE  (head + k - 1) % Capacity # TailIndex /\ (head + k - 1) % Capacity \in Index
  <2> DEFINE a == head + k - 1
             b == head + count
  <2>1. a \in Nat /\ a < 2 * Capacity /\ b \in Nat /\ b < 2 * Capacity
    BY <1>2
  <2>2. a < b /\ b - a <= count
    BY <1>2
  <2> HIDE DEF a, b
  <2>3. a % Capacity \in Index
    BY <2>1, RingIndex
  <2>4. /\ a % Capacity = IF a < Capacity THEN a ELSE a - Capacity
        /\ b % Capacity = IF b < Capacity THEN b ELSE b - Capacity
    BY <2>1, ModOnce
  <2>5. a % Capacity # b % Capacity
    BY <1>2, <2>1, <2>2, <2>4
  <2> QED BY <2>3, <2>5 DEF a, b, TailIndex
<1>6. Contents' = Append(Contents, th[t].item)
  <2> DEFINE S == Items \cup {Unset}
             a == Append(Contents, th[t].item)
  <2>1. Contents \in Seq(S) /\ Len(Contents) = count
        /\ \A k \in 1..count : Contents[k] = storage[(head + k - 1) % Capacity]
    BY RingSeq DEF BInv, TypeOK, Contents, Ring
  <2>2. Contents' \in Seq(S) /\ Len(Contents') = count + 1
        /\ \A k \in 1..(count + 1) : Contents'[k] = storage'[(head + k - 1) % Capacity]
    <3> DEFINE d == Ring(storage', head, count + 1)
    <3>1. storage' \in [Index -> S] /\ head \in Index /\ count + 1 \in 0..Capacity
      BY <1>1 DEF BInv, TypeOK
    <3>2. d \in Seq(S) /\ Len(d) = count + 1
          /\ \A k \in 1..(count + 1) : d[k] = storage'[(head + k - 1) % Capacity]
      BY <3>1, RingSeq
    <3>3. Contents' = d
      BY <1>1 DEF Contents, Ring
    <3> QED BY <3>2, <3>3
  <2>3. a \in Seq(S) /\ Len(a) = count + 1 /\ a[count + 1] = th[t].item
        /\ \A k \in 1..count : a[k] = Contents[k]
    BY <1>3, <2>1, AppendProperties
  <2>4. ASSUME NEW k \in 1..count PROVE Contents'[k] = a[k]
    <3> DEFINE i == (head + k - 1) % Capacity
    <3>1. k \in 1..(count + 1)
      BY <1>2
    <3>2. i # TailIndex /\ i \in Index
      BY <1>5
    <3>3. Contents'[k] = storage'[i] /\ a[k] = storage[i]
      BY <2>1, <2>2, <2>3, <3>1
    <3> HIDE DEF i, a
    <3>4. storage'[i] = storage[i]
      BY <1>1, <1>2, <3>2
    <3> QED BY <3>3, <3>4
  <2>5. Contents'[count + 1] = a[count + 1]
    <3>1. count + 1 \in 1..(count + 1) /\ head + (count + 1) - 1 = head + count
      BY <1>2
    <3>2. storage'[TailIndex] = th[t].item
      BY <1>1, <1>2, <1>4
    <3> QED BY <2>2, <2>3, <3>1, <3>2 DEF TailIndex
  <2> HIDE DEF a, S
  <2>6. ASSUME NEW k \in 1..Len(Contents') PROVE Contents'[k] = a[k]
    <3>1. k \in 1..count \/ k = count + 1
      BY <1>2, <2>2
    <3> QED BY <2>4, <2>5, <3>1
  <2>7. Contents' = a
    BY <2>2, <2>3, <2>6, SeqEqual
  <2> QED BY <2>7 DEF a
<1>7. Len(Contents) = count
  BY RingSeq DEF BInv, TypeOK, Contents, Ring
<1>8. th' = Broadcast(Return(t, "OK", Unset), "not_empty")
  BY DEF Proceed, Perform, SendItem
<1>9. /\ Calls' = [Calls EXCEPT ![t] = Fifo!Returned("OK", Unset)]
      /\ OnlyFiniteExpires => OnlyFiniteExpires'
  BY <1>1, <1>8, ReturnSeen DEF BInv, Results
<1>10. Calls[t].op = "send" /\ Calls[t].item = th[t].item
  BY <1>1, SeenInCall
<1>11. UNCHANGED dropped /\ Len(Contents) < Capacity
  BY <1>1, <1>2, <1>7
<1> QED BY <1>6, <1>9, <1>10, <1>11 DEF Fifo!Send, Fifo!Returns

\* A receive returns the oldest item and takes it; the mailbox is left empty.
LEMMA ReceiveRefines ==
  ASSUME BInv, TypeOK', NEW t \in Threads, Proceed(t), th[t].op = "receive"
  PROVE  Fifo!Receive(t) /\ (OnlyFiniteExpires => OnlyFiniteExpires')
<1>1. /\ UNCHANGED <<storage, dropped>> /\ count # 0
      /\ IF Mailbox THEN count' = 0 /\ UNCHANGED head
         ELSE count' = count - 1 /\ head' = (head + 1) % Capacity
  BY DEF Proceed, Perform, ReceiveItem, BlockedAt
<1>2. /\ count \in Nat /\ count <= Capacity /\ count > 0 /\ head \in Nat /\ head < Capacity
      /\ Capacity \in Nat /\ storage \in [Index -> Items \cup {Unset}]
  BY <1>1, BQueueAssumption DEF BInv, TypeOK, Index
<1>3. count' = count - 1
  BY <1>1, <1>2 DEF Mailbox
<1> DEFINE S == Items \cup {Unset}
           c == Ring(storage, head, count)
           d == Ring(storage, head', count')
<1>4. Contents = c /\ Contents' = d
  BY <1>1 DEF Contents, Ring
<1>5. c \in Seq(S) /\ Len(c) = count
      /\ \A k \in 1..count : c[k] = storage[(head + k - 1) % Capacity]
  BY RingSeq DEF BInv, TypeOK
<1>6. d \in Seq(S) /\ Len(d) = count - 1
      /\ \A k \in 1..(count - 1) : d[k] = storage[(head' + k - 1) % Capacity]
  BY <1>3, RingSeq DEF BInv, TypeOK
<1> HIDE DEF c, d, S
<1>7. c # <<>> /\ Tail(c) \in Seq(S) /\ Len(Tail(c)) = count - 1
      /\ \A k \in 1..(count - 1) : Tail(c)[k] = c[k + 1]
  BY <1>2, <1>5, HeadTailProperties
<1>8. ASSUME NEW k \in 1..(count - 1)
      PROVE  (head' + k - 1) % Capacity = (head + (k + 1) - 1) % Capacity
  <2>1. head' = IF head + 1 < Capacity THEN head + 1 ELSE head + 1 - Capacity
    BY <1>1, <1>2, <1>8, ModOnce DEF Mailbox
  <2> DEFINE a == head' + k - 1
             b == head + (k + 1) - 1
  <2>2. a \in Nat /\ a < 2 * Capacity /\ b \in Nat /\ b < 2 * Capacity
    BY <1>2, <2>1
  <2>3. a = IF head + 1 < Capacity THEN b ELSE b - Capacity
    BY <1>2, <2>1
  <2>4. a < Capacity \/ (a = b /\ head + 1 < Capacity)
    BY <1>2, <2>1
  <2>5. head + 1 >= Capacity => b >= Capacity
    BY <1>2
  <2> HIDE DEF a, b
  <2>6. /\ a % Capacity = IF a < Capacity THEN a ELSE a - Capacity
        /\ b % Capacity = IF b < Capacity THEN b ELSE b - Capacity
    BY <2>2, ModOnce
  <2>7. a % Capacity = b % Capacity
    BY <1>2, <2>2, <2>3, <2>4, <2>5, <2>6
  <2> QED BY <2>7 DEF a, b
<1>9. \A k \in 1..Len(d) : d[k] = Tail(c)[k]
  <2>1. \A k \in 1..(count - 1) : k + 1 \in 1..count
    BY <1>2
  <2> QED BY <1>5, <1>6, <1>7, <1>8, <2>1
<1>10. d = Tail(c)
  BY <1>6, <1>7, <1>9, SeqEqual
<1>11. storage[head] \in Items \cup {Unset} /\ Head(c) = storage[head]
  <2>1. 1 \in 1..count /\ head + 1 - 1 = head /\ head % Capacity = head
    BY <1>2
  <2>2. Head(c) = c[1]
    BY <1>5, <1>7, HeadTailProperties
  <2>3. head \in Index
    BY DEF BInv, TypeOK
  <2> QED BY <1>2, <1>5, <2>1, <2>2, <2>3
<1>12. /\ Calls' = [Calls EXCEPT ![t] = Fifo!Returned("OK", storage[head])]
       /\ OnlyFiniteExpires => OnlyFiniteExpires'
  <2>1. th[t].st = "woken"
    BY DEF Proceed
  <2>2. th' = Return(t, "OK", storage[head]) \/ th' = Broadcast(Return(t, "OK", storage[head]), "not_full")
    BY DEF Proceed, Perform, ReceiveItem
  <2> QED BY <1>11, <2>1, <2>2, ReturnSeen DEF BInv, Results
<1>13. Calls[t].op = "receive"
  BY SeenInCall DEF Proceed
<1> QED BY <1>1, <1>4, <1>7, <1>10, <1>11, <1>12, <1>13 DEF Fifo!Receive, Fifo!Returns

\* A peek returns the oldest item and leaves it.
LEMMA PeekRefines ==
  ASSUME BInv, NEW t \in Threads, Proceed(t), th[t].op = "peek"
  PROVE  Fifo!Peek(t) /\ (OnlyFiniteExpires => OnlyFiniteExpires')
<1>1. /\ th[t].st = "woken" /\ count # 0
      /\ th' = Return(t, "OK", storage[head]) /\ UNCHANGED inst
  BY DEF Proceed, Perform, PeekItem, BlockedAt
<1>2. /\ count \in Nat /\ count <= Capacity /\ count > 0 /\ head \in Nat /\ head < Capacity
      /\ Capacity \in Nat /\ head \in Index /\ storage \in [Index -> Items \cup {Unset}]
  BY <1>1, BQueueAssumption DEF BInv, TypeOK, Index
<1>3. UNCHANGED <<Contents, dropped>>
  BY <1>1 DEF inst, Contents
<1>4. /\ Contents \in Seq(Items \cup {Unset}) /\ Len(Contents) = count
      /\ \A k \in 1..count : Contents[k] = storage[(head + k - 1) % Capacity]
  BY RingSeq DEF BInv, TypeOK, Contents, Ring
<1>5. Contents # <<>> /\ Head(Contents) = storage[head]
  <2>1. 1 \in 1..count /\ head + 1 - 1 = head /\ head % Capacity = head
    BY <1>2
  <2>2. Contents # <<>> /\ Head(Contents) = Contents[1]
    BY <1>2, <1>4, HeadTailProperties
  <2> QED BY <1>4, <2>1, <2>2
<1>6. /\ Calls' = [Calls EXCEPT ![t] = Fifo!Returned("OK", storage[head])]
      /\ OnlyFiniteExpires => OnlyFiniteExpires'
  BY <1>1, <1>2, ReturnSeen DEF BInv, Results
<1>7. Calls[t].op = "peek"
  BY <1>1, SeenInCall
<1> QED BY <1>3, <1>5, <1>6, <1>7 DEF Fifo!Peek, Fifo!Returns

\* A failed call leaves the queue as it is and, if it was a send, is counted.
LEMMA FailRefines ==
  ASSUME BInv, NEW t \in Threads, NEW err \in Results, Fail(t, err),
         th[t].st \in {"woken", "timedout"}
  PROVE  Fifo!Fails(t, err) /\ (OnlyFiniteExpires => OnlyFiniteExpires')
<1>1. UNCHANGED Contents
  BY DEF Fail, Contents
<1>2. /\ Calls' = [Calls EXCEPT ![t] = Fifo!Returned(err, Unset)]
      /\ OnlyFiniteExpires => OnlyFiniteExpires'
  BY ReturnSeen DEF Fail, BInv
<1>3. Calls[t].op = th[t].op
  BY SeenInCall
<1>4. dropped' = IF Calls[t].op = "send" THEN (dropped + 1) % DroppedMod ELSE dropped
  BY <1>3 DEF Fail
<1> QED BY <1>1, <1>2, <1>4 DEF Fifo!Fails, Fifo!Returns

\* A step that only changes how a thread waits is none of the FIFO.
LEMMA WaitRefines ==
  ASSUME BInv, OnlyFiniteExpires, NEW t \in Threads, NEW c \in Thread,
         th' = [th EXCEPT ![t] = c], UNCHANGED inst, AsCall(c) = AsCall(th[t]),
         c.late \/ c.st = "timedout" => c.timeout = "finite"
  PROVE  UNCHANGED <<Contents, dropped, Calls>> /\ OnlyFiniteExpires'
<1>1. th'[t] = c /\ \A u \in Threads : u # t => th'[u] = th[u]
  BY DEF BInv, TypeOK
<1>2. \A u \in Threads : AsCall(th'[u]) = AsCall(th[u])
  BY <1>1
<1>3. Calls' = Calls
  BY <1>2, WaitingUnseen
<1>4. OnlyFiniteExpires'
  BY <1>1 DEF OnlyFiniteExpires
<1> QED BY <1>3, <1>4 DEF inst, Contents

\* Every step of the ring is a step of the bounded FIFO, or leaves it alone.
LEMMA NextRefines ==
  ASSUME BInv, OnlyFiniteExpires, BInv', [Next]_vars
  PROVE  [Fifo!Next]_(Fifo!vars) /\ OnlyFiniteExpires'
<1> DEFINE Same == UNCHANGED <<Contents, dropped, Calls>>
<1> SUFFICES (Fifo!Next \/ Same) /\ OnlyFiniteExpires'
  BY Zenon DEF Fifo!vars
<1>0. TypeOK' /\ TypeOK /\ \A u \in Threads : th[u] \in Thread
  BY DEF BInv, TypeOK
<1>1. ASSUME NEW t \in Threads, NEW timeout \in Timeouts, NEW op \in Ops, NEW x,
             Call(t, op, x, timeout),
             IF op = "send" THEN x \in Items ELSE x = Unset
      PROVE  Fifo!Begin(t) /\ OnlyFiniteExpires'
  <2> DEFINE c == [st |-> "woken", op |-> op, item |-> x, timeout |-> timeout,
                   late |-> FALSE, res |-> "none", out |-> Unset]
  <2>1. /\ th[t].st = "out" /\ (op = "send" => Capacity > 1)
        /\ th' = [th EXCEPT ![t] = c] /\ UNCHANGED inst
    BY <1>1, BQueueAssumption DEF Call, Mailbox
  <2>2. AsCall(c) = Fifo!UnderWay(op, x, timeout) /\ ~ c.late /\ c.st # "timedout"
    BY DEF AsCall, Fifo!UnderWay
  <2> HIDE DEF c
  <2>3. th'[t] = c /\ \A u \in Threads : u # t => th'[u] = th[u]
    BY <1>0, <2>1 DEF TypeOK
  <2>4. Calls = [u \in Threads |-> AsCall(th[u])] /\ Calls' = [u \in Threads |-> AsCall(th'[u])]
    BY DEF Calls, AsCall
  <2>5. Calls' = [Calls EXCEPT ![t] = Fifo!UnderWay(op, x, timeout)]
    BY <2>2, <2>3, <2>4
  <2>6. Calls[t].op = "none"
    BY <2>1, SeenInCall
  <2>7. UNCHANGED <<Contents, dropped>>
    BY <2>1 DEF inst, Contents
  <2>8. OnlyFiniteExpires'
    BY <2>2, <2>3 DEF OnlyFiniteExpires
  <2>9. CASE op = "send"
    BY <1>1, <2>1, <2>5, <2>6, <2>7, <2>8, <2>9 DEF Fifo!Begin, Timeouts
  <2>10. CASE op # "send"
    BY <1>1, <2>5, <2>6, <2>7, <2>8, <2>10 DEF Fifo!Begin, Timeouts, Ops
  <2> QED BY <2>9, <2>10
<1>2. ASSUME NEW t \in Threads, Proceed(t)
      PROVE  (Fifo!Send(t) \/ Fifo!Receive(t) \/ Fifo!Peek(t)) /\ OnlyFiniteExpires'
  BY <1>0, <1>2, SendRefines, ReceiveRefines, PeekRefines DEF Proceed, Perform
<1>3. Len(Contents) = count /\ (count = 0 => Contents = <<>>)
  BY RingSeq, EmptySeq DEF BInv, TypeOK, Contents, Ring
<1>4. ASSUME NEW t \in Threads, TryFails(t) PROVE Fifo!Refuse(t) /\ OnlyFiniteExpires'
  <2>1. /\ th[t].st = "woken" /\ th[t].timeout = "zero" /\ count = BlockedAt(th[t].op)
        /\ Fail(t, IF th[t].op = "send" THEN "NO_SPACE" ELSE "NOT_FOUND")
    BY <1>4 DEF TryFails
  <2>2. Calls[t].op = th[t].op /\ Calls[t].timeout = "zero" /\ th[t].op \in Ops
    BY <1>0, <2>1, SeenInCall DEF Thread
  <2>3. CASE th[t].op = "send"
    <3>1. Fifo!Fails(t, "NO_SPACE") /\ OnlyFiniteExpires'
      BY <2>1, <2>3, FailRefines DEF Results
    <3> QED BY <1>3, <2>1, <2>2, <2>3, <3>1 DEF Fifo!Refuse, BlockedAt
  <2>4. CASE th[t].op # "send"
    <3>1. Fifo!Fails(t, "NOT_FOUND") /\ OnlyFiniteExpires'
      BY <2>1, <2>4, FailRefines DEF Results
    <3> QED BY <1>3, <2>1, <2>2, <2>4, <3>1 DEF Fifo!Refuse, BlockedAt, Ops
  <2> QED BY <2>3, <2>4
<1>5. ASSUME NEW t \in Threads, DeadlinePassed(t) \/ WaitTimedOut(t)
      PROVE  Fifo!TimeOut(t) /\ OnlyFiniteExpires'
  <2>1. /\ th[t].st \in {"woken", "timedout"} /\ Fail(t, "TIMEOUT")
        /\ th[t].late \/ th[t].st = "timedout"
    BY <1>5 DEF DeadlinePassed, WaitTimedOut
  <2>2. Fifo!Fails(t, "TIMEOUT") /\ OnlyFiniteExpires'
    BY <2>1, FailRefines DEF Results
  <2>3. Calls[t].op # "none" /\ Calls[t].timeout = "finite"
    BY <1>0, <2>1, SeenInCall DEF OnlyFiniteExpires, Thread, Ops
  <2> QED BY <2>2, <2>3 DEF Fifo!TimeOut
<1>6. ASSUME NEW t \in Threads, Sleep(t) PROVE Same /\ OnlyFiniteExpires'
  <2> DEFINE c == [th[t] EXCEPT !.st = "asleep"]
  <2>1. c \in Thread /\ AsCall(c) = AsCall(th[t]) /\ ~ c.late /\ c.st = "asleep"
    BY <1>0, <1>6 DEF Sleep, Thread, AsCall
  <2>2. th' = [th EXCEPT ![t] = c] /\ UNCHANGED inst
    BY <1>6 DEF Sleep
  <2> HIDE DEF c
  <2> QED BY <2>1, <2>2, WaitRefines
<1>7. ASSUME NEW t \in Threads, Expire(t) PROVE Same /\ OnlyFiniteExpires'
  <2> DEFINE c == [th[t] EXCEPT !.late = TRUE,
                                !.st = IF @ = "asleep" THEN "timedout" ELSE @]
  <2>1. c \in Thread /\ AsCall(c) = AsCall(th[t]) /\ c.timeout = "finite"
    BY <1>0, <1>7 DEF Expire, Thread, AsCall
  <2>2. th' = [th EXCEPT ![t] = c] /\ UNCHANGED inst
    BY <1>7 DEF Expire
  <2> HIDE DEF c
  <2> QED BY <2>1, <2>2, WaitRefines
<1>8. ASSUME NEW t \in Threads, SpuriousWakeup(t) PROVE Same /\ OnlyFiniteExpires'
  <2> DEFINE c == [th[t] EXCEPT !.st = "woken"]
  <2>1. /\ c \in Thread /\ AsCall(c) = AsCall(th[t]) /\ c.st = "woken"
        /\ c.late = th[t].late /\ c.timeout = th[t].timeout
    BY <1>0, <1>8 DEF SpuriousWakeup, Thread, AsCall
  <2>2. th' = [th EXCEPT ![t] = c] /\ UNCHANGED inst
    BY <1>8 DEF SpuriousWakeup
  <2>3. c.late => c.timeout = "finite"
    BY <2>1 DEF OnlyFiniteExpires
  <2> HIDE DEF c
  <2> QED BY <2>1, <2>2, <2>3, WaitRefines
<1>9. ASSUME NEW x \in Items, Overwrite(x) PROVE Fifo!Overwrite /\ OnlyFiniteExpires'
  <2>1. /\ Capacity = 1 /\ count' = 1 /\ UNCHANGED <<head, dropped>>
        /\ storage' = [storage EXCEPT ![0] = x] /\ th' = Broadcast(th, "not_empty")
    BY <1>9 DEF Overwrite, Mailbox
  <2>2. head = 0 /\ storage' \in [Index -> Items \cup {Unset}] /\ storage'[0] = x
    BY <1>0, <2>1 DEF TypeOK, Index
  <2>3. Contents' = <<x>>
    <3>1. Contents' \in Seq(Items \cup {Unset}) /\ Len(Contents') = 1
          /\ Contents'[1] = storage'[(0 + 1 - 1) % 1]
      BY <1>0, <2>1, <2>2, RingSeq DEF TypeOK, Contents, Ring
    <3>2. (0 + 1 - 1) % 1 = 0
      OBVIOUS
    <3> QED BY <2>2, <3>1, <3>2
  <2>4. \A u \in Threads : u \in Sleepers("not_empty") => th[u].st # "out"
    BY DEF Sleepers
  <2>5. \A u \in Threads : /\ AsCall(th'[u]) = AsCall(th[u])
                           /\ th'[u].late = th[u].late /\ th'[u].timeout = th[u].timeout
                           /\ th'[u].st = "timedout" => th[u].st = "timedout"
    BY <1>0, <2>1, <2>4, BroadcastUnseen DEF TypeOK
  <2>6. Calls' = Calls
    BY <2>5, WaitingUnseen
  <2>7. OnlyFiniteExpires'
    BY <2>5 DEF OnlyFiniteExpires
  <2> QED BY <2>1, <2>3, <2>6, <2>7 DEF Fifo!Overwrite
<1>10. CASE Reset
  <2>1. Capacity = 1 /\ count' = 0 /\ UNCHANGED <<storage, head, dropped, th>>
    BY <1>10 DEF Reset, Mailbox
  <2>2. Contents' = <<>>
    BY <1>0, <2>1, RingSeq, EmptySeq DEF TypeOK, Contents, Ring
  <2>3. Calls' = Calls /\ OnlyFiniteExpires'
    BY <2>1 DEF Calls, OnlyFiniteExpires
  <2> QED BY <2>1, <2>2, <2>3 DEF Fifo!Next, Fifo!Reset
<1>11. CASE UNCHANGED vars
  BY <1>11 DEF vars, inst, Contents, Calls, OnlyFiniteExpires
<1>12. ASSUME NEW t \in Threads, Locked(t) PROVE (Fifo!Next \/ Same) /\ OnlyFiniteExpires'
  BY <1>2, <1>4, <1>5, <1>6, <1>12, Zenon DEF Locked, Fifo!Next
<1>13. ASSUME NEW t \in Threads, NEW timeout \in Timeouts,
              \/ \E x \in Items : Call(t, "send", x, timeout)
              \/ \E op \in {"receive", "peek"} : Call(t, op, Unset, timeout)
       PROVE  Fifo!Next /\ OnlyFiniteExpires'
  <2>1. CASE \E x \in Items : Call(t, "send", x, timeout)
    BY <1>1, <2>1 DEF Ops, Fifo!Next
  <2>2. CASE \E op \in {"receive", "peek"} : Call(t, op, Unset, timeout)
    BY <1>1, <2>2 DEF Ops, Fifo!Next
  <2> QED BY <1>13, <2>1, <2>2
<1>14. ASSUME NEW x \in Items, Overwrite(x) PROVE Fifo!Next /\ OnlyFiniteExpires'
  BY <1>9, <1>14 DEF Fifo!Next
<1> HIDE DEF Same
<1> QED BY <1>7, <1>8, <1>10, <1>11, <1>12, <1>13, <1>14, Zenon DEF Next

\* bb_bqueue is the bounded FIFO (or mailbox) it advertises: for every capacity, any
\* threads and any interleaving of sleeps, wakeups and timeouts, each call takes effect
\* in one step of BoundedFifo: a receive returns the oldest item sent and neither
\* received, overwritten nor reset, a failed send is counted and leaves the items alone,
\* and a call that does not wait fails only on a full, or an empty, queue.
THEOREM ImplementsFifoHolds == Spec => ImplementsFifo
<1>1. Init => Fifo!Init /\ OnlyFiniteExpires
  <2> SUFFICES ASSUME Init PROVE Fifo!Init /\ OnlyFiniteExpires
    OBVIOUS
  <2>1. Contents = <<>>
    BY BQueueAssumption DEF Init, Contents
  <2>2. Calls = [t \in Threads |-> Fifo!Returned("none", Unset)]
    BY DEF Init, Calls, Out, Fifo!Returned
  <2>3. OnlyFiniteExpires
    BY DEF Init, OnlyFiniteExpires, Out
  <2> QED BY <2>1, <2>2, <2>3 DEF Init, Fifo!Init
<1>2. /\ BInv /\ OnlyFiniteExpires /\ BInv' /\ [Next]_vars => [Fifo!Next]_(Fifo!vars)
      /\ BInv /\ OnlyFiniteExpires /\ BInv' /\ [Next]_vars => OnlyFiniteExpires'
  BY NextRefines
<1> QED BY <1>1, <1>2, BInvHolds, PTL DEF Spec, ImplementsFifo, Fifo!Spec

-----------------------------------------------------------------------------
(* DataPush: bb_data_http's event ring and the client it feeds.            *)
(*                                                                         *)
(* What the argument rests on, a part of PushInv for each:                 *)
(*   PumpInv    while the forwarder is in push_pump no other line is       *)
(*              stashed, so that it renders the newest one; the            *)
(*              broadcaster may render a line newer than it claimed        *)
(*   RingInv    the ring ends with a line newer than the one the           *)
(*              broadcaster is about to commit only if the claim was       *)
(*              replaced too, and then the commit is discarded             *)
(*   NewestInv  a generation marked handled is in the ring or in the hands *)
(*              of the task that claimed it                                *)
(*   SeenInv    what was seen was queued, or the dirty bit is still set    *)
(*   SeqInv     the entries of the ring are numbered without a gap, and a  *)
(*              drain finds what it counted, but for the one entry a push  *)
(*              under way may have evicted                                 *)
(*   CountInv   how far the two unlocked reads of a drain can be apart is  *)
(*              covered by the pushes that overlapped it                   *)
(* CountInv is what makes SilentLossBounded and OnceInOrderUnlessRaced     *)
(* inductive: at the second read the error becomes the client's cursor,    *)
(* and during the drain the client reads entry e of the stream while its   *)
(* cursor claims another.                                                  *)

\* The domains of the variables: where a task is in push_pump, where the sweep is.
PumpPCs == {"out", "claim", "render", "commit", "revoke", "append", "count"}
SweepPCs == {"idle", "pump", "client", "release", "total", "entries", "flush"}
\* A ring entry and a queued frame.
Entries == [line : Nat, seq : Nat]
Frames == [kind : {"event", "state", "dropped"}, v : 0 .. MaxValue]
PumpType == [pc : PumpPCs, gen : Nat, prev : Nat, line : Nat]
DrainType == [count : Nat, oldest : Int, idx : Int]
SlotType == [in_use : BOOLEAN, pending_release : BOOLEAN, seen_gen : Nat, dirty : BOOLEAN,
             cursor : Int, dropped : Int, drop_marker_pending : BOOLEAN,
             outbound : Seq(Frames), send_fail_count : Nat,
             start : Int, got : SUBSET Int, last : Int, raced : Nat, left : Int]

\* The types the proofs use; PushTypeCorrect, at the end, adds the bounds.
PushTypes ==
    /\ {gen, stash, vgen, total, lastGen} \subseteq Nat /\ value \in 0 .. MaxValue
    /\ pump \in [Tasks -> PumpType] /\ sweep \in SweepPCs
    /\ ring \in Seq(Entries) /\ drain \in DrainType /\ slot \in SlotType
    /\ building \in BOOLEAN /\ backwards \in BOOLEAN

\* A task holds a claim from the lock's first section to its second one.
Holding == {"render", "commit", "revoke"}
\* It stores its frame: it holds the lock again, and its claim stands.
Pushing(t) == pump[t].pc \in {"append", "count"}

\* A producer stashes first and touches after; no claim is beyond the generation.
KeyInv == stash \in {gen, gen + 1} /\ value \in {vgen, vgen + 1} /\ lastGen <= gen

\* The forwarder claims its own line's generation and stashes no other line before it is
\* out of push_pump: what it renders is the newest line.
FwdInv ==
    /\ pump["fwd"].pc # "out" => stash = gen /\ pump["fwd"].gen = gen
    /\ pump["fwd"].pc = "commit" \/ Pushing("fwd") => pump["fwd"].line = stash

\* The broadcaster is in push_pump only in that part of its sweep.
SweepInv == sweep # "pump" => pump["sweep"].pc = "out"

\* Generations only grow after a task read one: a frame is at least as new as the
\* claim it was rendered for, and a push under way holds the standing claim.
TaskInv(t) ==
    /\ pump[t].gen <= gen /\ pump[t].prev <= gen
    /\ pump[t].pc = "commit" \/ Pushing(t)
          => pump[t].gen <= pump[t].line /\ pump[t].line <= stash
    /\ Pushing(t) => lastGen = pump[t].gen

\* The lock admits one push at a time.
OnePush == ~ (Pushing("fwd") /\ Pushing("sweep"))

\* What both tasks rely on in push_pump.
PumpInv == KeyInv /\ FwdInv /\ SweepInv /\ TaskInv("fwd") /\ TaskInv("sweep") /\ OnePush

\* A frame that was added and not counted yet is the ring's last.
Counted(t) == pump[t].pc = "count" => ring # <<>> /\ Last(ring).line = pump[t].line

\* The ring holds a newer line than the one the broadcaster is about to commit only if
\* the forwarder's claim replaced the broadcaster's: the commit will be discarded, and
\* a revoked claim of the forwarder does not bring the old one back.
AheadInv ==
    pump["sweep"].pc = "commit" /\ ring # <<>> /\ Last(ring).line > pump["sweep"].line
       => /\ lastGen > pump["sweep"].gen
          /\ pump["fwd"].pc \in Holding => pump["fwd"].prev > pump["sweep"].gen

\* No line of the ring is newer than the stash, and a push under way adds the newest.
RingInv ==
    /\ ring # <<>> => Last(ring).line <= stash
    /\ Counted("fwd") /\ Counted("sweep")
    /\ pump["sweep"].pc = "append" /\ ring # <<>> => Last(ring).line <= pump["sweep"].line
    /\ AheadInv

\* A claim that did not go backwards.
Forward(t) == pump[t].pc \in Holding => pump[t].prev < pump[t].gen
\* The newest line is in the ring, or task t is on its way to push it.
NewestInRing == ring # <<>> /\ Last(ring).line >= gen
Newest(t) == (pump[t].pc \in Holding \/ Pushing(t)) /\ pump[t].gen = gen

\* A generation marked handled is in the ring or on its way there.
NewestInv ==
    ~backwards =>
       /\ Forward("fwd") /\ Forward("sweep")
       /\ lastGen = gen /\ gen > 0
             => Newest("fwd") \/ Newest("sweep") \/ NewestInRing

\* A value at least as new as g left the client's queue or is in it.
Holds(s, g) ==
    \/ s.left >= g
    \/ \E i \in 1 .. Len(s.outbound) : s.outbound[i].kind = "state" /\ s.outbound[i].v >= g

\* What was seen was queued, or the key is dirty; a client being built is dirty.
SeenInv ==
    /\ slot.seen_gen <= vgen
    /\ slot.in_use /\ ~slot.dirty => Holds(slot, slot.seen_gen)
    /\ building => ~slot.in_use /\ slot.dirty
    /\ sweep \in {"total", "entries", "flush"} => slot.in_use
    /\ sweep = "flush" => slot.outbound # <<>> /\ drain = NoDrain

\* The two steps of a push that an unlocked reader can see.
Adding == \E t \in Tasks : pump[t].pc = "append"
Counting == \E t \in Tasks : pump[t].pc = "count"
\* The sequence number of the ring's first entry: an entry is added before it is counted.
Base == (total + (IF Counting THEN 1 ELSE 0)) - Len(ring)

\* The numbering of the ring, and what an unlocked drain may find of it.
SeqInv ==
    /\ \A i \in 1 .. Len(ring) : ring[i].seq = Base + (i - 1)
    /\ Len(ring) <= RingCap
    /\ Adding => Len(ring) < RingCap
    /\ Draining => /\ Len(ring) >= drain.count - 1
                   /\ ~Adding => Len(ring) >= drain.count

\* How many of the pushes before the n-th were not queued for the client.
MissedTo(s, n) == Cardinality((s.start .. (n - 1)) \ s.got)

\* How far the numbers a drain computes from its two reads, the ring's count and then
\* the total, are off: Shift now, and one less once a push under way has been counted.
Shift == Base - (total - drain.count)
\* By how much a drain may skip pushes, or see them again.
Slips == {Shift, 0 - Shift} \cup IF Unlocked THEN {} ELSE {Shift - 1, 1 - Shift}

\* Between drains: what the client missed is counted or paid for, and nothing is queued
\* from beyond the cursor but for raced pushes.
Settled(s) == MissedTo(s, s.cursor) <= s.dropped + s.raced /\ s.last < s.cursor + s.raced

\* The same with room for d more.
Within(s, d) ==
    /\ MissedTo(s, s.cursor) + d <= s.dropped + s.raced
    /\ s.last + d < s.cursor + s.raced /\ d <= s.raced

\* While the drain is about to read entry e of the stream: every push before e is
\* accounted for, and so is the stretch between e and where the cursor thinks it is.
Reading(s, e) ==
    /\ MissedTo(s, e) <= s.dropped + s.raced
    /\ MissedTo(s, e) + (s.cursor - e) <= s.dropped + s.raced
    /\ s.last < e + s.raced /\ s.last < s.cursor + s.raced
    /\ e <= s.cursor + s.raced

\* The client's account between drains, between the two reads, and entry by entry.
CountInv ==
    /\ ~Draining => Settled(slot)
    /\ sweep = "total" => \A d \in Slips : Within(slot, d)
    /\ sweep = "entries" => /\ drain.idx \in 0 .. (drain.count - 1)
                            /\ slot.cursor = drain.oldest + drain.idx
                            /\ Reading(slot, Base + drain.idx)

\* The inductive invariant.
PushInv == PushTypes /\ PumpInv /\ RingInv /\ NewestInv /\ SeenInv /\ SeqInv /\ CountInv

-----------------------------------------------------------------------------
\* A step of t leaves the other task where it is.
Others(t) == \A u \in Tasks : u # t => pump'[u] = pump[u]

\* What each of the stores to pump makes of it.
LEMMA PumpMoves ==
    ASSUME pump \in [Tasks -> PumpType], NEW t \in Tasks
    PROVE  /\ \A g \in Nat : pump' = EnterPump(t, g) =>
                 /\ pump' \in [Tasks -> PumpType] /\ Others(t)
                 /\ pump'[t].pc = "claim" /\ pump'[t].gen = g /\ pump'[t].prev = pump[t].prev
           /\ \A l \in PumpPCs : pump' = [pump EXCEPT ![t].pc = l] =>
                 /\ pump' \in [Tasks -> PumpType] /\ Others(t)
                 /\ pump'[t].pc = l /\ pump'[t].gen = pump[t].gen /\ pump'[t].prev = pump[t].prev
                 /\ pump'[t].line = pump[t].line
           /\ \A l \in PumpPCs, g \in Nat : pump' = [pump EXCEPT ![t].pc = l, ![t].prev = g] =>
                 /\ pump' \in [Tasks -> PumpType] /\ Others(t)
                 /\ pump'[t].pc = l /\ pump'[t].gen = pump[t].gen /\ pump'[t].prev = g
           /\ \A l \in PumpPCs, g \in Nat : pump' = [pump EXCEPT ![t].pc = l, ![t].line = g] =>
                 /\ pump' \in [Tasks -> PumpType] /\ Others(t)
                 /\ pump'[t].pc = l /\ pump'[t].gen = pump[t].gen /\ pump'[t].prev = pump[t].prev
                 /\ pump'[t].line = g
           /\ pump' = [pump EXCEPT ![t] = NoPump] =>
                 /\ pump' \in [Tasks -> PumpType] /\ Others(t)
                 /\ pump'[t].pc = "out" /\ pump'[t].gen = 0 /\ pump'[t].prev = 0
<1>1. ASSUME NEW g \in Nat, pump' = EnterPump(t, g)
      PROVE  /\ pump' \in [Tasks -> PumpType] /\ Others(t)
             /\ pump'[t].pc = "claim" /\ pump'[t].gen = g /\ pump'[t].prev = pump[t].prev
  BY <1>1 DEF EnterPump, PumpType, PumpPCs, Others
<1>2. ASSUME NEW l \in PumpPCs, pump' = [pump EXCEPT ![t].pc = l]
      PROVE  /\ pump' \in [Tasks -> PumpType] /\ Others(t)
             /\ pump'[t].pc = l /\ pump'[t].gen = pump[t].gen /\ pump'[t].prev = pump[t].prev
             /\ pump'[t].line = pump[t].line
  BY <1>2 DEF PumpType, Others
<1>3. ASSUME NEW l \in PumpPCs, NEW g \in Nat, pump' = [pump EXCEPT ![t].pc = l, ![t].prev = g]
      PROVE  /\ pump' \in [Tasks -> PumpType] /\ Others(t)
             /\ pump'[t].pc = l /\ pump'[t].gen = pump[t].gen /\ pump'[t].prev = g
  BY <1>3 DEF PumpType, Others
<1>4. ASSUME NEW l \in PumpPCs, NEW g \in Nat, pump' = [pump EXCEPT ![t].pc = l, ![t].line = g]
      PROVE  /\ pump' \in [Tasks -> PumpType] /\ Others(t)
             /\ pump'[t].pc = l /\ pump'[t].gen = pump[t].gen /\ pump'[t].prev = pump[t].prev
             /\ pump'[t].line = g
  BY <1>4 DEF PumpType, Others
<1>5. ASSUME pump' = [pump EXCEPT ![t] = NoPump]
      PROVE  /\ pump' \in [Tasks -> PumpType] /\ Others(t)
             /\ pump'[t].pc = "out" /\ pump'[t].gen = 0 /\ pump'[t].prev = 0
  BY <1>5 DEF NoPump, PumpType, PumpPCs, Others
<1> QED BY <1>1, <1>2, <1>3, <1>4, <1>5

\* The fields of a slot.
SlotFields == {"in_use", "pending_release", "seen_gen", "dirty", "cursor",
               "dropped", "drop_marker_pending", "outbound", "send_fail_count", "start",
               "got", "last", "raced", "left"}

(* r is a slot that differs from s in the fields F at most.                *)
Only(r, s, F) == r \in SlotType /\ \A f \in SlotFields \ F : r[f] = s[f]

(* Storing into one field of a slot gives a slot that differs from it there *)
(* only.  One lemma per field: the steps below are chains of such stores.   *)
LEMMA Set_in_use ==
    ASSUME NEW s \in SlotType, NEW x \in BOOLEAN
    PROVE  Only([s EXCEPT !.in_use = x], s, {"in_use"}) /\ [s EXCEPT !.in_use = x].in_use = x
BY DEF SlotType, SlotFields, Only

LEMMA Set_pending_release ==
    ASSUME NEW s \in SlotType, NEW x \in BOOLEAN
    PROVE  Only([s EXCEPT !.pending_release = x], s, {"pending_release"})
           /\ [s EXCEPT !.pending_release = x].pending_release = x
BY DEF SlotType, SlotFields, Only

LEMMA Set_seen_gen ==
    ASSUME NEW s \in SlotType, NEW x \in Nat
    PROVE  Only([s EXCEPT !.seen_gen = x], s, {"seen_gen"})
           /\ [s EXCEPT !.seen_gen = x].seen_gen = x
BY DEF SlotType, SlotFields, Only

LEMMA Set_dirty ==
    ASSUME NEW s \in SlotType, NEW x \in BOOLEAN
    PROVE  Only([s EXCEPT !.dirty = x], s, {"dirty"}) /\ [s EXCEPT !.dirty = x].dirty = x
BY DEF SlotType, SlotFields, Only

LEMMA Set_cursor ==
    ASSUME NEW s \in SlotType, NEW x \in Int
    PROVE  Only([s EXCEPT !.cursor = x], s, {"cursor"}) /\ [s EXCEPT !.cursor = x].cursor = x
BY DEF SlotType, SlotFields, Only

LEMMA Set_dropped ==
    ASSUME NEW s \in SlotType, NEW x \in Int
    PROVE  Only([s EXCEPT !.dropped = x], s, {"dropped"}) /\ [s EXCEPT !.dropped = x].dropped = x
BY DEF SlotType, SlotFields, Only

LEMMA Set_drop_marker_pending ==
    ASSUME NEW s \in SlotType, NEW x \in BOOLEAN
    PROVE  Only([s EXCEPT !.drop_marker_pending = x], s, {"drop_marker_pending"})
           /\ [s EXCEPT !.drop_marker_pending = x].drop_marker_pending = x
BY DEF SlotType, SlotFields, Only

LEMMA Set_outbound ==
    ASSUME NEW s \in SlotType, NEW x \in Seq(Frames)
    PROVE  Only([s EXCEPT !.outbound = x], s, {"outbound"})
           /\ [s EXCEPT !.outbound = x].outbound = x
BY DEF SlotType, SlotFields, Only

LEMMA Set_send_fail_count ==
    ASSUME NEW s \in SlotType, NEW x \in Nat
    PROVE  Only([s EXCEPT !.send_fail_count = x], s, {"send_fail_count"})
           /\ [s EXCEPT !.send_fail_count = x].send_fail_count = x
BY DEF SlotType, SlotFields, Only

LEMMA Set_start ==
    ASSUME NEW s \in SlotType, NEW x \in Int
    PROVE  Only([s EXCEPT !.start = x], s, {"start"}) /\ [s EXCEPT !.start = x].start = x
BY DEF SlotType, SlotFields, Only

LEMMA Set_got ==
    ASSUME NEW s \in SlotType, NEW x \in SUBSET Int
    PROVE  Only([s EXCEPT !.got = x], s, {"got"}) /\ [s EXCEPT !.got = x].got = x
BY DEF SlotType, SlotFields, Only

LEMMA Set_last ==
    ASSUME NEW s \in SlotType, NEW x \in Int
    PROVE  Only([s EXCEPT !.last = x], s, {"last"}) /\ [s EXCEPT !.last = x].last = x
BY DEF SlotType, SlotFields, Only

LEMMA Set_raced ==
    ASSUME NEW s \in SlotType, NEW x \in Nat
    PROVE  Only([s EXCEPT !.raced = x], s, {"raced"}) /\ [s EXCEPT !.raced = x].raced = x
BY DEF SlotType, SlotFields, Only

LEMMA Set_left ==
    ASSUME NEW s \in SlotType, NEW x \in Int
    PROVE  Only([s EXCEPT !.left = x], s, {"left"}) /\ [s EXCEPT !.left = x].left = x
BY DEF SlotType, SlotFields, Only

\* The types of a slot's fields.
LEMMA SlotTypes ==
    ASSUME NEW s \in SlotType
    PROVE  /\ {s.in_use, s.dirty, s.pending_release, s.drop_marker_pending} \subseteq BOOLEAN
           /\ {s.cursor, s.dropped, s.start, s.last, s.left} \subseteq Int
           /\ {s.seen_gen, s.raced, s.send_fail_count} \subseteq Nat
           /\ s.outbound \in Seq(Frames) /\ s.got \subseteq Int
BY DEF SlotType

\* A free slot is a slot.
LEMMA FreeSlotType == FreeSlot \in SlotType
BY EmptySeq DEF FreeSlot, SlotType

-----------------------------------------------------------------------------
\* Max, which is a CHOOSE, of two integers is the larger one.
LEMMA MaxPair ==
    ASSUME NEW a \in Int, NEW b \in Int
    PROVE  Max({a, b}) \in Int /\ Max({a, b}) >= a /\ Max({a, b}) >= b
<1>1. PICK m \in {a, b} : \A y \in {a, b} : m >= y
  <2>1. a >= b \/ b >= a
    OBVIOUS
  <2> QED BY <2>1
<1>2. Max({a, b}) \in {a, b} /\ \A y \in {a, b} : Max({a, b}) >= y
  BY <1>1 DEF Max
<1> QED BY <1>2

\* The order of the naturals is well founded.
LEMMA NatLess == IsWellFoundedOn({p \in Nat \X Nat : p[1] < p[2]}, Nat)
BY NatLessThanWellFounded, Zenon DEF OpToRel

\* A set of integers with an upper bound k has a Max: k - Max is the least distance.
LEMMA MaxBounded ==
    ASSUME NEW S, S \subseteq Int, NEW k \in Int, \A x \in S : x <= k, S # {}
    PROVE  Max(S) \in S /\ \A x \in S : Max(S) >= x
<1> DEFINE T == {n \in Nat : k - n \in S}
           Less == {p \in Nat \X Nat : p[1] < p[2]}
<1>1. T # {}
  <2>1. PICK x \in S : TRUE
    OBVIOUS
  <2>2. x \in Int /\ x <= k
    BY <2>1
  <2>3. k - x \in Nat /\ k - (k - x) = x
    BY <2>2
  <2> QED BY <2>1, <2>3
<1>2. PICK n \in T : \A m \in T : ~(<<m, n>> \in Less)
  <2>1. T \subseteq Nat
    OBVIOUS
  <2> HIDE DEF T, Less
  <2>2. IsWellFoundedOn(Less, Nat)
    BY NatLess DEF Less
  <2> QED BY <1>1, <2>1, <2>2, WFMin
<1>3. ASSUME NEW x \in S PROVE k - n >= x
  <2>1. x \in Int /\ x <= k /\ n \in Nat
    BY <1>2
  <2>2. k - x \in Nat /\ k - (k - x) = x
    BY <2>1
  <2>3. k - x \in T
    BY <2>2
  <2>4. ~(k - x < n)
    BY <1>2, <2>1, <2>2, <2>3
  <2> QED BY <2>1, <2>4
<1>4. k - n \in S
  BY <1>2
<1> QED BY <1>3, <1>4 DEF Max

\* NewestValue of a queue is at least the value of each of its STATE frames.
LEMMA NewestAll ==
    ASSUME NEW q \in Seq(Frames)
    PROVE  /\ NewestValue(q) \in Int
           /\ \A i \in 1 .. Len(q) : q[i].kind = "state" => NewestValue(q) >= q[i].v
<1> DEFINE S == {-1} \cup {h.v : h \in {g \in Range(q) : g.kind = "state"}}
<1>1. \A h \in Range(q) : h \in Frames
  BY DEF Range
<1>2. S \subseteq Int /\ \A x \in S : x <= MaxValue
  <2>1. MaxValue \in Nat
    BY DataPushAssumption
  <2>2. \A h \in Frames : h.v \in 0 .. MaxValue
    BY DEF Frames
  <2> QED BY <1>1, <2>1, <2>2
<1>3. Max(S) \in S /\ \A x \in S : Max(S) >= x
  <2>1. S # {} /\ MaxValue \in Int
    BY DataPushAssumption
  <2> HIDE DEF S
  <2> QED BY <1>2, <2>1, MaxBounded
<1>4. ASSUME NEW i \in 1 .. Len(q), q[i].kind = "state" PROVE q[i].v \in S
  BY <1>4 DEF Range
<1> QED BY <1>2, <1>3, <1>4 DEF NewestValue

\* NewestValue of one frame is at least its value, if it is a STATE frame.
LEMMA NewestOne ==
    ASSUME NEW f \in Frames
    PROVE  NewestValue(<<f>>) \in Int /\ (f.kind = "state" => NewestValue(<<f>>) >= f.v)
<1> DEFINE q == <<f>>
<1>1. q \in Seq(Frames) /\ Len(q) = 1 /\ q[1] = f
  OBVIOUS
<1> HIDE DEF q
<1>2. NewestValue(q) \in Int /\ (q[1].kind = "state" => NewestValue(q) >= q[1].v)
  BY <1>1, NewestAll
<1> QED BY <1>1, <1>2 DEF q

\* NewestValue of an empty queue is a number.
LEMMA NewestNone == NewestValue(<< >>) \in Int
<1>1. << >> \in Seq(Frames)
  OBVIOUS
<1> QED BY <1>1, NewestAll

\* The frames the code builds are frames.
LEMMA FrameTypes ==
    Event \in Frames /\ Marker \in Frames /\ \A x \in 0 .. MaxValue : State(x) \in Frames
BY DataPushAssumption DEF Event, Marker, State, Frame, Frames

-----------------------------------------------------------------------------
\* Holds reads the queue and what left it only.
LEMMA HoldsSame ==
    ASSUME NEW s, NEW r, r.outbound = s.outbound, r.left = s.left, NEW g
    PROVE  Holds(r, g) <=> Holds(s, g)
BY DEF Holds

\* A value as new as g is as new as any older one.
LEMMA HoldsLess ==
    ASSUME NEW s \in SlotType, NEW g \in Nat, NEW h \in Nat, h <= g, Holds(s, g)
    PROVE  Holds(s, h)
<1>1. s.left \in Int /\ s.outbound \in Seq(Frames)
  BY SlotTypes
<1>2. CASE s.left >= g
  BY <1>1, <1>2 DEF Holds
<1>3. CASE \E i \in 1 .. Len(s.outbound) : s.outbound[i].kind = "state" /\ s.outbound[i].v >= g
  <2>1. PICK i \in 1 .. Len(s.outbound) : s.outbound[i].kind = "state" /\ s.outbound[i].v >= g
    BY <1>3
  <2>2. s.outbound[i] \in Frames
    BY <1>1
  <2>3. s.outbound[i].v \in Int
    BY <2>2, DataPushAssumption DEF Frames
  <2>4. s.outbound[i].v >= h
    BY <2>1, <2>3
  <2> QED BY <2>1, <2>4 DEF Holds
<1> QED BY <1>2, <1>3 DEF Holds

\* A frame added to the queue loses no value, and a STATE frame brings its own.
LEMMA HoldsAppend ==
    ASSUME NEW s \in SlotType, NEW r \in SlotType, NEW f \in Frames,
           r.outbound = Append(s.outbound, f), r.left >= s.left
    PROVE  /\ \A g \in Nat : Holds(s, g) => Holds(r, g)
           /\ f.kind = "state" => Holds(r, f.v)
<1>1. s.left \in Int /\ s.outbound \in Seq(Frames) /\ r.left \in Int
  BY SlotTypes
<1>2. /\ Len(r.outbound) = Len(s.outbound) + 1 /\ r.outbound[Len(s.outbound) + 1] = f
      /\ \A i \in 1 .. Len(s.outbound) : r.outbound[i] = s.outbound[i]
  BY <1>1
<1>3. ASSUME NEW g \in Nat, Holds(s, g) PROVE Holds(r, g)
  <2>1. CASE s.left >= g
    BY <1>1, <2>1 DEF Holds
  <2>2. CASE \E i \in 1 .. Len(s.outbound) : s.outbound[i].kind = "state" /\ s.outbound[i].v >= g
    BY <1>1, <1>2, <2>2 DEF Holds
  <2> QED BY <1>3, <2>1, <2>2 DEF Holds
<1>4. f.kind = "state" => Holds(r, f.v)
  <2>1. f.v \in Int /\ Len(s.outbound) + 1 \in 1 .. Len(r.outbound)
    BY <1>1, <1>2, DataPushAssumption DEF Frames
  <2>2. f.v >= f.v
    BY <2>1
  <2> QED BY <1>2, <2>1, <2>2 DEF Holds
<1> QED BY <1>3, <1>4

\* A frame that leaves the queue is remembered in left.
LEMMA HoldsPop ==
    ASSUME NEW s \in SlotType, s.outbound # <<>>, NEW r,
           r.outbound = Tail(s.outbound), r.left = Max({s.left, NewestValue(<<Head(s.outbound)>>)})
    PROVE  r.left \in Int /\ r.left >= s.left /\ \A g \in Nat : Holds(s, g) => Holds(r, g)
<1> DEFINE f == Head(s.outbound)
<1>1. s.left \in Int /\ s.outbound \in Seq(Frames) /\ f \in Frames
  BY SlotTypes
<1>2. f = s.outbound[1] /\ f.v \in Int
  BY <1>1, DataPushAssumption DEF Frames
<1>3. NewestValue(<<f>>) \in Int /\ (f.kind = "state" => NewestValue(<<f>>) >= f.v)
  BY <1>1, NewestOne
<1>4. r.left \in Int /\ r.left >= s.left /\ r.left >= NewestValue(<<f>>)
  BY <1>1, <1>3, MaxPair
<1>5. /\ Len(r.outbound) = Len(s.outbound) - 1 /\ Len(s.outbound) >= 1
      /\ \A i \in 2 .. Len(s.outbound) : i - 1 \in 1 .. Len(r.outbound)
         /\ r.outbound[i - 1] = s.outbound[i]
  BY <1>1
<1> HIDE DEF f
<1>6. ASSUME NEW g \in Nat, Holds(s, g) PROVE Holds(r, g)
  <2>1. CASE s.left >= g
    BY <1>1, <1>4, <2>1 DEF Holds
  <2>2. CASE \E i \in 1 .. Len(s.outbound) : s.outbound[i].kind = "state" /\ s.outbound[i].v >= g
    <3>1. PICK i \in 1 .. Len(s.outbound) : s.outbound[i].kind = "state" /\ s.outbound[i].v >= g
      BY <2>2
    <3>2. CASE i = 1
      <4>1. NewestValue(<<f>>) >= f.v /\ f.v >= g
        BY <1>2, <1>3, <3>1, <3>2
      <4>2. r.left >= g
        BY <1>2, <1>3, <1>4, <4>1
      <4> QED BY <4>2 DEF Holds
    <3>3. CASE i # 1
      <4>1. i \in 2 .. Len(s.outbound)
        BY <1>1, <3>3
      <4>2. i - 1 \in 1 .. Len(r.outbound) /\ r.outbound[i - 1] = s.outbound[i]
        BY <1>5, <4>1
      <4> QED BY <3>1, <4>2 DEF Holds
    <3> QED BY <3>2, <3>3
  <2> QED BY <1>6, <2>1, <2>2 DEF Holds
<1> QED BY <1>4, <1>6

\* try_flush_event_drop_marker touches the queue and the marker flag only.
LEMMA FlushEffect ==
    ASSUME NEW s \in SlotType
    PROVE  /\ Only(FlushMarker(s), s, {"outbound", "drop_marker_pending"})
           /\ \A g \in Nat : Holds(s, g) => Holds(FlushMarker(s), g)
<1>1. CASE s.drop_marker_pending /\ HasRoom(s)
  <2> DEFINE q == Append(s.outbound, Marker)
             a == [s EXCEPT !.outbound = q]
             r == [a EXCEPT !.drop_marker_pending = FALSE]
  <2>1. q \in Seq(Frames)
    BY SlotTypes, FrameTypes
  <2>2. Only(a, s, {"outbound"}) /\ a.outbound = q
    BY <2>1, Set_outbound
  <2>3. Only(r, a, {"drop_marker_pending"})
    <3>1. a \in SlotType
      BY <2>2 DEF Only
    <3> QED BY <3>1, Set_drop_marker_pending
  <2>4. Only(r, s, {"outbound", "drop_marker_pending"}) /\ r.outbound = q /\ r.left = s.left
    BY <2>2, <2>3 DEF Only, SlotFields
  <2>5. FlushMarker(s) = r
    BY <1>1 DEF FlushMarker, SlotType
  <2> HIDE DEF r
  <2>6. r \in SlotType /\ r.left >= s.left
    BY <2>4, SlotTypes DEF Only
  <2>7. \A g \in Nat : Holds(s, g) => Holds(r, g)
    BY <2>4, <2>6, HoldsAppend, FrameTypes
  <2> QED BY <2>4, <2>5, <2>7
<1>2. CASE ~(s.drop_marker_pending /\ HasRoom(s))
  BY <1>2 DEF FlushMarker, Only
<1> QED BY <1>1, <1>2

\* A gap moves the cursor and counts its width as dropped.
LEMMA SkipEffect ==
    ASSUME NEW s \in SlotType, NEW o \in Int
    PROVE  /\ Only(SkipGap(s, o), s, {"dropped", "drop_marker_pending", "cursor"})
           /\ SkipGap(s, o).cursor = IF s.cursor < o THEN o ELSE s.cursor
           /\ SkipGap(s, o).dropped = IF s.cursor < o THEN s.dropped + (o - s.cursor) ELSE s.dropped
<1>1. CASE s.cursor < o
  <2> DEFINE n == s.dropped + (o - s.cursor)
             a == [s EXCEPT !.dropped = n]
             b == [a EXCEPT !.drop_marker_pending = TRUE]
             r == [b EXCEPT !.cursor = o]
  <2>1. n \in Int
    BY SlotTypes
  <2>2. Only(a, s, {"dropped"}) /\ a.dropped = n
    BY <2>1, Set_dropped
  <2>3. Only(b, a, {"drop_marker_pending"})
    <3>1. a \in SlotType
      BY <2>2 DEF Only
    <3> QED BY <3>1, Set_drop_marker_pending
  <2>4. Only(r, b, {"cursor"}) /\ r.cursor = o
    <3>1. b \in SlotType
      BY <2>3 DEF Only
    <3> QED BY <3>1, Set_cursor
  <2>5. Only(r, s, {"dropped", "drop_marker_pending", "cursor"}) /\ r.dropped = n
    BY <2>2, <2>3, <2>4 DEF Only, SlotFields
  <2>6. SkipGap(s, o) = r
    BY <1>1 DEF SkipGap, SlotType
  <2> QED BY <1>1, <2>4, <2>5, <2>6
<1>2. CASE ~(s.cursor < o)
  BY <1>2 DEF SkipGap, Only
<1> QED BY <1>1, <1>2

\* An entry is queued for the client or counted as dropped, and the cursor moves past it.
LEMMA DrainedEffect ==
    ASSUME NEW s \in SlotType, NEW e \in Entries, NEW n \in Int
    PROVE  /\ Only(Drained(s, e, n), s,
                   {"outbound", "cursor", "got", "last", "dropped", "drop_marker_pending"})
           /\ Drained(s, e, n).cursor = n
           /\ \/ /\ Drained(s, e, n).dropped = s.dropped
                 /\ Drained(s, e, n).got = s.got \cup {e.seq} /\ Drained(s, e, n).last = e.seq
              \/ /\ Drained(s, e, n).dropped = s.dropped + 1
                 /\ Drained(s, e, n).got = s.got /\ Drained(s, e, n).last = s.last
           /\ \A g \in Nat : Holds(s, g) => Holds(Drained(s, e, n), g)
<1>0. e.seq \in Int
  BY DEF Entries
<1>1. CASE HasRoom(s)
  <2> DEFINE q == Append(s.outbound, Event)
             w == s.got \cup {e.seq}
             a == [s EXCEPT !.outbound = q]
             b == [a EXCEPT !.cursor = n]
             c == [b EXCEPT !.got = w]
             r == [c EXCEPT !.last = e.seq]
  <2>1. q \in Seq(Frames) /\ w \in SUBSET Int
    BY <1>0, SlotTypes, FrameTypes
  <2>2. Only(a, s, {"outbound"}) /\ a.outbound = q
    BY <2>1, Set_outbound
  <2>3. Only(b, a, {"cursor"}) /\ b.cursor = n
    <3>1. a \in SlotType
      BY <2>2 DEF Only
    <3> QED BY <3>1, Set_cursor
  <2>4. Only(c, b, {"got"}) /\ c.got = w
    <3>1. b \in SlotType
      BY <2>3 DEF Only
    <3> QED BY <2>1, <3>1, Set_got
  <2>5. Only(r, c, {"last"}) /\ r.last = e.seq
    <3>1. c \in SlotType
      BY <2>4 DEF Only
    <3> QED BY <1>0, <3>1, Set_last
  <2>6. /\ Only(r, s, {"outbound", "cursor", "got", "last"})
        /\ r.outbound = q /\ r.cursor = n /\ r.got = w /\ r.left = s.left /\ r.dropped = s.dropped
    BY <2>2, <2>3, <2>4, <2>5 DEF Only, SlotFields
  <2>7. Drained(s, e, n) = r
    BY <1>1 DEF Drained, SlotType
  <2> HIDE DEF r
  <2>8. r \in SlotType /\ r.left >= s.left
    BY <2>6, SlotTypes DEF Only
  <2>9. \A g \in Nat : Holds(s, g) => Holds(r, g)
    BY <2>6, <2>8, HoldsAppend, FrameTypes
  <2>10. Only(r, s, {"outbound", "cursor", "got", "last", "dropped", "drop_marker_pending"})
    BY <2>6 DEF Only
  <2> QED BY <2>5, <2>6, <2>7, <2>9, <2>10
<1>2. CASE ~HasRoom(s)
  <2> DEFINE m == s.dropped + 1
             a == [s EXCEPT !.dropped = m]
             b == [a EXCEPT !.drop_marker_pending = TRUE]
             r == [b EXCEPT !.cursor = n]
  <2>1. m \in Int
    BY SlotTypes
  <2>2. Only(a, s, {"dropped"}) /\ a.dropped = m
    BY <2>1, Set_dropped
  <2>3. Only(b, a, {"drop_marker_pending"})
    <3>1. a \in SlotType
      BY <2>2 DEF Only
    <3> QED BY <3>1, Set_drop_marker_pending
  <2>4. Only(r, b, {"cursor"}) /\ r.cursor = n
    <3>1. b \in SlotType
      BY <2>3 DEF Only
    <3> QED BY <3>1, Set_cursor
  <2>5. /\ Only(r, s, {"dropped", "drop_marker_pending", "cursor"}) /\ r.dropped = m
        /\ r.got = s.got /\ r.last = s.last /\ r.outbound = s.outbound /\ r.left = s.left
    BY <2>2, <2>3, <2>4 DEF Only, SlotFields
  <2>6. Drained(s, e, n) = r
    BY <1>2 DEF Drained, SlotType
  <2> HIDE DEF r
  <2>7. \A g \in Nat : Holds(s, g) => Holds(r, g)
    BY <2>5, HoldsSame
  <2>8. Only(r, s, {"outbound", "cursor", "got", "last", "dropped", "drop_marker_pending"})
    BY <2>5 DEF Only
  <2> QED BY <2>4, <2>5, <2>6, <2>7, <2>8
<1> QED BY <1>1, <1>2

\* A STATE frame is queued whether or not there was room; what it evicts is remembered.
LEMMA QueueStateEffect ==
    ASSUME NEW s \in SlotType, value \in 0 .. MaxValue
    PROVE  /\ Only(QueueState(s), s, {"outbound", "left"})
           /\ Holds(QueueState(s), value)
<1> DEFINE full == Len(s.outbound) = OutCap
           evicted == IF full THEN <<Head(s.outbound)>> ELSE <<>>
           l == Max({s.left, NewestValue(evicted)})
           rest == IF full THEN Tail(s.outbound) ELSE s.outbound
           q == Append(rest, State(value))
           a == [s EXCEPT !.outbound = q]
           r == [a EXCEPT !.left = l]
<1>1. s.outbound \in Seq(Frames) /\ s.left \in Int /\ OutCap \in Nat \ {0}
      /\ State(value) \in Frames
  BY SlotTypes, FrameTypes, DataPushAssumption
<1>2. rest \in Seq(Frames) /\ q \in Seq(Frames)
  BY <1>1
<1>3. NewestValue(evicted) \in Int
  <2>1. full => Head(s.outbound) \in Frames
    BY <1>1
  <2> QED BY <2>1, NewestOne, NewestNone
<1>4. l \in Int /\ l >= s.left
  BY <1>1, <1>3, MaxPair
<1>5. Only(a, s, {"outbound"}) /\ a.outbound = q
  <2> HIDE DEF q
  <2> QED BY <1>2, Set_outbound
<1>6. Only(r, a, {"left"}) /\ r.left = l
  <2>1. a \in SlotType
    BY <1>5 DEF Only
  <2> HIDE DEF a, l
  <2> QED BY <1>4, <2>1, Set_left
<1>7. Only(r, s, {"outbound", "left"}) /\ r.outbound = q
  <2> HIDE DEF a, r, l, q
  <2> QED BY <1>5, <1>6 DEF Only, SlotFields
<1>8. QueueState(s) = r
  BY DEF QueueState, PushOldestOut, SlotType
<1>9. Holds(r, value)
  <2>1. Len(q) \in 1 .. Len(q) /\ q[Len(q)] = State(value)
    <3> HIDE DEF rest
    <3> QED BY <1>1, <1>2
  <2>2. value >= value /\ State(value).kind = "state" /\ State(value).v = value
    BY DataPushAssumption DEF State, Frame
  <2> HIDE DEF q, r
  <2> QED BY <1>7, <2>1, <2>2 DEF Holds
<1> QED BY <1>7, <1>8, <1>9

(* What each step that touches the client does to it.                      *)
LEMMA StartPushEffect ==
    ASSUME PushTypes, NEW t \in Tasks, StartPush(t)
    PROVE  /\ Only(slot', slot, {"raced"}) /\ sweep' = sweep
           /\ slot'.raced = (IF Draining THEN slot.raced + 1 ELSE slot.raced)
           /\ ring' \in Seq(Entries)
           /\ ring' = (IF Len(ring) = RingCap THEN Tail(ring) ELSE ring)
           /\ pump' = [pump EXCEPT ![t].pc = "append"]
<1>1. slot \in SlotType /\ ring \in Seq(Entries) /\ RingCap \in Nat \ {0}
  BY DataPushAssumption DEF PushTypes
<1>2. ring' \in Seq(Entries)
  BY <1>1 DEF StartPush
<1>3. Only(slot', slot, {"raced"}) /\ slot'.raced = IF Draining THEN slot.raced + 1 ELSE slot.raced
  <2>1. CASE Draining
    <3>1. slot.raced + 1 \in Nat
      BY <1>1, SlotTypes
    <3>2. slot' = [slot EXCEPT !.raced = slot.raced + 1]
      BY <2>1 DEF StartPush
    <3> QED BY <1>1, <2>1, <3>1, <3>2, Set_raced
  <2>2. CASE ~Draining
    BY <1>1, <2>2 DEF StartPush, Only
  <2> QED BY <2>1, <2>2
<1> QED BY <1>2, <1>3 DEF StartPush

\* Detection marks the key dirty whenever it records a new generation as seen.
LEMMA DetectEffect ==
    ASSUME PushTypes, Detect
    PROVE  /\ Only(slot', slot, {"seen_gen", "dirty"})
           /\ slot' # slot => slot'.seen_gen = vgen /\ slot'.dirty = TRUE
<1>1. slot \in SlotType /\ vgen \in Nat
  BY DEF PushTypes
<1>2. CASE slot.in_use /\ slot.seen_gen # vgen
  <2> DEFINE a == [slot EXCEPT !.seen_gen = vgen]
             r == [a EXCEPT !.dirty = TRUE]
  <2>1. Only(a, slot, {"seen_gen"}) /\ a.seen_gen = vgen
    BY <1>1, Set_seen_gen
  <2>2. Only(r, a, {"dirty"}) /\ r.dirty = TRUE
    <3>1. a \in SlotType
      BY <2>1 DEF Only
    <3> QED BY <3>1, Set_dirty
  <2>3. Only(r, slot, {"seen_gen", "dirty"}) /\ r.seen_gen = vgen
    BY <2>1, <2>2 DEF Only, SlotFields
  <2>4. slot' = r
    BY <1>1, <1>2 DEF Detect, SlotType
  <2> HIDE DEF r
  <2> QED BY <2>2, <2>3, <2>4
<1>3. CASE ~(slot.in_use /\ slot.seen_gen # vgen)
  BY <1>1, <1>3 DEF Detect, Only
<1> QED BY <1>2, <1>3

\* A released slot is a free one but for the release request.
LEMMA ReleaseEffect ==
    ASSUME PushTypes, Release
    PROVE  Only(slot', FreeSlot, {"pending_release"}) /\ sweep' = "release"
<1>1. slot \in SlotType
  BY DEF PushTypes
<1>2. slot.pending_release \in BOOLEAN
  BY <1>1, SlotTypes
<1> QED BY <1>2, FreeSlotType, Set_pending_release DEF Release

\* The client's part begins: the dirty bit is cleared only if the value was queued.
LEMMA DrainStateEffect ==
    ASSUME PushTypes, DrainState
    PROVE  /\ Only(slot', slot, {"dirty", "outbound", "left", "raced"})
           /\ slot'.raced = (IF Unlocked THEN slot.raced ELSE slot.raced + 1)
           /\ \/ slot'.dirty = slot.dirty /\ slot'.outbound = slot.outbound
                 /\ slot'.left = slot.left
              \/ Holds(slot', value)
           /\ drain' \in DrainType /\ drain'.count = Len(ring) /\ sweep' = "total"
<1>1. slot \in SlotType /\ value \in 0 .. MaxValue /\ ring \in Seq(Entries)
  BY DEF PushTypes
<1>2. ASSUME NEW s \in SlotType, DrainCount(s)
      PROVE  /\ Only(slot', s, {"raced"})
             /\ slot'.raced = (IF Unlocked THEN s.raced ELSE s.raced + 1)
             /\ drain' \in DrainType /\ drain'.count = Len(ring) /\ sweep' = "total"
  <2>1. drain' \in DrainType /\ drain'.count = Len(ring) /\ sweep' = "total"
    BY <1>1, <1>2 DEF DrainCount, NoDrain, DrainType
  <2>2. CASE Unlocked
    BY <1>2, <2>1, <2>2 DEF DrainCount, Only
  <2>3. CASE ~Unlocked
    <3>1. s.raced + 1 \in Nat
      BY SlotTypes
    <3>2. slot' = [s EXCEPT !.raced = s.raced + 1]
      BY <1>2, <2>3 DEF DrainCount
    <3>3. Only(slot', s, {"raced"}) /\ slot'.raced = s.raced + 1
      BY <3>1, <3>2, Set_raced
    <3> QED BY <2>1, <2>3, <3>3
  <2> QED BY <2>2, <2>3
<1>3. CASE DrainCount(QueueState([slot EXCEPT !.dirty = FALSE]))
  <2> DEFINE a == [slot EXCEPT !.dirty = FALSE]
             b == QueueState(a)
  <2>1. Only(a, slot, {"dirty"})
    BY <1>1, Set_dirty
  <2>2. a \in SlotType
    BY <2>1 DEF Only
  <2>3. Only(b, a, {"outbound", "left"}) /\ Holds(b, value)
    <3> HIDE DEF a
    <3> QED BY <1>1, <2>2, QueueStateEffect
  <2>4. b \in SlotType
    BY <2>3 DEF Only
  <2> HIDE DEF a, b
  <2>5. /\ Only(slot', b, {"raced"}) /\ slot'.raced = IF Unlocked THEN b.raced ELSE b.raced + 1
        /\ drain' \in DrainType /\ drain'.count = Len(ring) /\ sweep' = "total"
    BY <1>2, <1>3, <2>4 DEF a, b
  <2>6. Only(slot', slot, {"dirty", "outbound", "left", "raced"}) /\ b.raced = slot.raced
    BY <2>1, <2>3, <2>5 DEF Only, SlotFields
  <2>7. slot'.outbound = b.outbound /\ slot'.left = b.left
    BY <2>5 DEF Only, SlotFields
  <2>8. Holds(slot', value)
    BY <2>3, <2>7, HoldsSame
  <2> QED BY <2>5, <2>6, <2>8
<1>4. CASE DrainCount(slot)
  <2>1. /\ Only(slot', slot, {"raced"})
        /\ slot'.raced = IF Unlocked THEN slot.raced ELSE slot.raced + 1
        /\ drain' \in DrainType /\ drain'.count = Len(ring) /\ sweep' = "total"
    BY <1>1, <1>2, <1>4
  <2>2. Only(slot', slot, {"dirty", "outbound", "left", "raced"})
    BY <2>1 DEF Only
  <2>3. slot'.dirty = slot.dirty /\ slot'.outbound = slot.outbound /\ slot'.left = slot.left
    BY <2>1 DEF Only, SlotFields
  <2> QED BY <2>1, <2>2, <2>3
<1> QED BY <1>3, <1>4 DEF DrainState

\* After the drain the sweep goes on to the flush or is over.
LEMMA GoOnEffect ==
    ASSUME NEW s, NEW d \in DrainType, GoOn(s, d)
    PROVE  /\ slot' = s /\ drain' \in DrainType
           /\ \/ d.idx < d.count /\ sweep' = "entries" /\ drain' = d
              \/ ~(d.idx < d.count) /\ sweep' = "idle"
              \/ ~(d.idx < d.count) /\ sweep' = "flush" /\ slot'.outbound # <<>> /\ drain' = NoDrain
<1>1. NoDrain \in DrainType
  BY DEF NoDrain, DrainType
<1> QED BY <1>1 DEF GoOn

\* The second read of the drain: a gap before the oldest entry is counted as dropped.
LEMMA DrainTotalEffect ==
    ASSUME PushTypes, DrainTotal
    PROVE  LET o == total - drain.count
           IN  /\ Only(slot', slot, {"outbound", "drop_marker_pending", "dropped", "cursor"})
               /\ slot'.cursor = (IF slot.cursor < o THEN o ELSE slot.cursor)
               /\ slot'.dropped = slot.dropped + (slot'.cursor - slot.cursor)
               /\ \A g \in Nat : Holds(slot, g) => Holds(slot', g)
               /\ drain' \in DrainType
               /\ \/ /\ slot'.cursor - o < drain.count /\ sweep' = "entries"
                     /\ drain'.count = drain.count /\ drain'.oldest = o
                     /\ drain'.idx = slot'.cursor - o
                  \/ slot'.cursor - o >= drain.count /\ sweep' = "idle"
                  \/ slot'.cursor - o >= drain.count /\ sweep' = "flush" /\ slot'.outbound # <<>>
                     /\ drain' = NoDrain
<1> DEFINE o == total - drain.count
           f == FlushMarker(slot)
           s == SkipGap(f, o)
           d == [drain EXCEPT !.oldest = o, !.idx = s.cursor - o]
<1>1. slot \in SlotType /\ drain \in DrainType /\ drain.count \in Nat /\ o \in Int
  BY DEF PushTypes, DrainType
<1>2. Only(f, slot, {"outbound", "drop_marker_pending"})
      /\ \A g \in Nat : Holds(slot, g) => Holds(f, g)
  BY <1>1, FlushEffect
<1>3. f \in SlotType
  BY <1>2 DEF Only
<1>4. /\ Only(s, f, {"dropped", "drop_marker_pending", "cursor"})
      /\ s.cursor = IF f.cursor < o THEN o ELSE f.cursor
      /\ s.dropped = IF f.cursor < o THEN f.dropped + (o - f.cursor) ELSE f.dropped
  <2> HIDE DEF f, o
  <2> QED BY <1>1, <1>3, SkipEffect
<1>5. Only(s, slot, {"outbound", "drop_marker_pending", "dropped", "cursor"})
  <2> HIDE DEF f, s, o
  <2> QED BY <1>2, <1>4 DEF Only
<1>6. f.cursor = slot.cursor /\ f.dropped = slot.dropped /\ s.outbound = f.outbound
      /\ s.left = f.left
  <2> HIDE DEF f, s, o
  <2> QED BY <1>2, <1>4 DEF Only, SlotFields
<1>7. s \in SlotType /\ s.cursor \in Int /\ slot.cursor \in Int /\ slot.dropped \in Int
  <2>1. s \in SlotType
    BY <1>4 DEF Only
  <2> HIDE DEF f, s, o
  <2> QED BY <2>1, <1>1, SlotTypes
<1>8. d \in DrainType /\ d.count = drain.count /\ d.oldest = o /\ d.idx = s.cursor - o
  <2>1. \A x, y \in Int : LET e == [drain EXCEPT !.oldest = x, !.idx = y]
                           IN  e \in DrainType /\ e.count = drain.count /\ e.oldest = x /\ e.idx = y
    BY <1>1 DEF DrainType
  <2>2. s.cursor - o \in Int
    BY <1>1, <1>7
  <2> HIDE DEF s, o
  <2> QED BY <1>1, <2>1, <2>2
<1>9. GoOn(s, d) /\ d \in DrainType
  <2>1. GoOn(s, d)
    BY DEF DrainTotal
  <2> QED BY <2>1, <1>8
<1>10. \A g \in Nat : Holds(slot, g) => Holds(s, g)
  BY <1>2, <1>6, HoldsSame
<1> HIDE DEF s, d, f, o
<1>11. /\ slot' = s /\ drain' \in DrainType
       /\ \/ d.idx < d.count /\ sweep' = "entries" /\ drain' = d
          \/ ~(d.idx < d.count) /\ sweep' = "idle"
          \/ ~(d.idx < d.count) /\ sweep' = "flush" /\ slot'.outbound # <<>> /\ drain' = NoDrain
  BY <1>9, GoOnEffect
<1>12. slot'.dropped = slot.dropped + (slot'.cursor - slot.cursor)
  BY <1>1, <1>4, <1>6, <1>7, <1>11
<1>13. slot'.cursor = IF slot.cursor < o THEN o ELSE slot.cursor
  BY <1>4, <1>6, <1>11
<1>14. s.cursor - o \in Int
  BY <1>1, <1>7
<1> QED BY <1>1, <1>5, <1>8, <1>10, <1>11, <1>12, <1>13, <1>14 DEF o

\* One entry of the drain: found and drained, or not there.
LEMMA DrainEntryEffect ==
    ASSUME PushTypes, DrainEntry, drain.idx \in Nat
    PROVE  /\ Only(slot', slot,
                   {"outbound", "cursor", "got", "last", "dropped", "drop_marker_pending"})
           /\ \/ drain.idx >= Len(ring) /\ slot' = slot
              \/ /\ drain.idx < Len(ring) /\ ring[drain.idx + 1] \in Entries
                 /\ slot'.cursor = drain.oldest + drain.idx + 1
                 /\ \/ /\ slot'.dropped = slot.dropped
                       /\ slot'.got = slot.got \cup {ring[drain.idx + 1].seq}
                       /\ slot'.last = ring[drain.idx + 1].seq
                    \/ /\ slot'.dropped = slot.dropped + 1
                       /\ slot'.got = slot.got /\ slot'.last = slot.last
           /\ \A g \in Nat : Holds(slot, g) => Holds(slot', g)
           /\ drain' \in DrainType
           /\ \/ /\ drain.idx + 1 < drain.count /\ sweep' = "entries"
                 /\ drain'.count = drain.count /\ drain'.oldest = drain.oldest
                 /\ drain'.idx = drain.idx + 1
              \/ drain.idx + 1 >= drain.count /\ sweep' = "idle"
              \/ drain.idx + 1 >= drain.count /\ sweep' = "flush" /\ slot'.outbound # <<>>
                 /\ drain' = NoDrain
<1> DEFINE n == drain.oldest + drain.idx + 1
           e == ring[drain.idx + 1]
           f == FlushMarker(slot)
           s == IF drain.idx < Len(ring) THEN Drained(f, e, n) ELSE slot
           d == [drain EXCEPT !.idx = drain.idx + 1]
           F == {"outbound", "cursor", "got", "last", "dropped", "drop_marker_pending"}
<1>1. slot \in SlotType /\ drain \in DrainType /\ drain.count \in Nat /\ n \in Int
      /\ ring \in Seq(Entries)
  BY DEF PushTypes, DrainType
<1>2. d \in DrainType /\ d.count = drain.count /\ d.oldest = drain.oldest /\ d.idx = drain.idx + 1
  BY <1>1 DEF DrainType
<1>3. GoOn(s, d)
  BY DEF DrainEntry
<1>4. Only(f, slot, {"outbound", "drop_marker_pending"})
      /\ \A g \in Nat : Holds(slot, g) => Holds(f, g)
  BY <1>1, FlushEffect
<1>5. f \in SlotType
  BY <1>4 DEF Only
<1>6. CASE drain.idx < Len(ring)
  <2>1. e \in Entries
    BY <1>1, <1>6
  <2>2. /\ Only(s, f, F) /\ s.cursor = n
        /\ \/ s.dropped = f.dropped /\ s.got = f.got \cup {e.seq} /\ s.last = e.seq
           \/ s.dropped = f.dropped + 1 /\ s.got = f.got /\ s.last = f.last
        /\ \A g \in Nat : Holds(f, g) => Holds(s, g)
    <3>1. s = Drained(f, e, n)
      BY <1>6
    <3> HIDE DEF f, s, n, e
    <3> QED BY <1>1, <1>5, <2>1, <3>1, DrainedEffect
  <2>3. Only(s, slot, F)
    <3> HIDE DEF f, s
    <3> QED BY <1>4, <2>2 DEF Only
  <2>4. f.dropped = slot.dropped /\ f.got = slot.got /\ f.last = slot.last
    <3> HIDE DEF f
    <3> QED BY <1>4 DEF Only, SlotFields
  <2> HIDE DEF s, d, f
  <2>5. /\ slot' = s /\ drain' \in DrainType
        /\ \/ d.idx < d.count /\ sweep' = "entries" /\ drain' = d
           \/ ~(d.idx < d.count) /\ sweep' = "idle"
           \/ ~(d.idx < d.count) /\ sweep' = "flush" /\ slot'.outbound # <<>> /\ drain' = NoDrain
    BY <1>2, <1>3, GoOnEffect
  <2> QED BY <1>1, <1>2, <1>4, <1>6, <2>1, <2>2, <2>3, <2>4, <2>5
<1>7. CASE ~(drain.idx < Len(ring))
  <2>1. s = slot /\ drain.idx >= Len(ring)
    BY <1>1, <1>7
  <2>2. Only(s, slot, F)
    BY <1>1, <2>1 DEF Only
  <2> HIDE DEF s, d
  <2>3. /\ slot' = s /\ drain' \in DrainType
        /\ \/ d.idx < d.count /\ sweep' = "entries" /\ drain' = d
           \/ ~(d.idx < d.count) /\ sweep' = "idle"
           \/ ~(d.idx < d.count) /\ sweep' = "flush" /\ slot'.outbound # <<>> /\ drain' = NoDrain
    BY <1>2, <1>3, GoOnEffect
  <2> QED BY <1>1, <1>2, <2>1, <2>2, <2>3
<1> QED BY <1>6, <1>7

\* A frame leaves the queue.
LEMMA PopType ==
    ASSUME NEW s \in SlotType, s.outbound # <<>>, NEW n \in Nat,
           NEW r, r = [s EXCEPT !.outbound = Tail(@), !.send_fail_count = n,
                                !.left = Max({@, NewestValue(<<Head(s.outbound)>>)})]
    PROVE  /\ Only(r, s, {"outbound", "send_fail_count", "left"})
           /\ \A g \in Nat : Holds(s, g) => Holds(r, g)
<1> DEFINE q == Tail(s.outbound)
           l == Max({s.left, NewestValue(<<Head(s.outbound)>>)})
           a == [s EXCEPT !.outbound = q]
           b == [a EXCEPT !.send_fail_count = n]
           c == [b EXCEPT !.left = l]
<1>1. s.outbound \in Seq(Frames) /\ s.left \in Int /\ Head(s.outbound) \in Frames
  BY SlotTypes
<1>2. q \in Seq(Frames)
  BY <1>1
<1>3. l \in Int
  BY <1>1, NewestOne, MaxPair
<1>4. Only(a, s, {"outbound"}) /\ a.outbound = q
  BY <1>2, Set_outbound
<1>5. Only(b, a, {"send_fail_count"})
  <2>1. a \in SlotType
    BY <1>4 DEF Only
  <2> QED BY <2>1, Set_send_fail_count
<1>6. Only(c, b, {"left"}) /\ c.left = l
  <2>1. b \in SlotType
    BY <1>5 DEF Only
  <2> HIDE DEF b, l
  <2> QED BY <1>3, <2>1, Set_left
<1>7. Only(c, s, {"outbound", "send_fail_count", "left"}) /\ c.outbound = q
  <2> HIDE DEF a, b, c, q, l
  <2> QED BY <1>4, <1>5, <1>6 DEF Only, SlotFields
<1>8. r = c
  BY DEF SlotType
<1> HIDE DEF c
<1>9. \A g \in Nat : Holds(s, g) => Holds(c, g)
  BY <1>6, <1>7, HoldsPop
<1> QED BY <1>7, <1>8, <1>9

\* A send, or a timeout, loses no value.
LEMMA SendEffect ==
    ASSUME PushTypes, SeenInv, SendOk \/ SendTimeout
    PROVE  /\ Only(slot', slot, {"outbound", "send_fail_count", "left"})
           /\ \A g \in Nat : Holds(slot, g) => Holds(slot', g)
           /\ drain' \in DrainType
           /\ \/ sweep' = "idle"
              \/ sweep' = "flush" /\ slot'.outbound # <<>> /\ drain' = NoDrain
<1>1. slot \in SlotType /\ drain \in DrainType /\ slot.outbound # <<>> /\ sweep = "flush"
      /\ drain = NoDrain
  <2>1. sweep = "flush"
    BY DEF SendOk, SendTimeout
  <2> QED BY <2>1 DEF PushTypes, SeenInv
<1>2. CASE SendOk
  <2> DEFINE r == [slot EXCEPT !.outbound = Tail(@), !.send_fail_count = 0,
                               !.left = Max({@, NewestValue(<<Head(slot.outbound)>>)})]
  <2>1. GoOn(r, drain)
    BY <1>2 DEF SendOk
  <2>2. /\ Only(r, slot, {"outbound", "send_fail_count", "left"})
        /\ \A g \in Nat : Holds(slot, g) => Holds(r, g)
    BY <1>1, PopType
  <2> HIDE DEF r
  <2>3. ~(drain.idx < drain.count)
    BY <1>1 DEF NoDrain
  <2> QED BY <1>1, <2>1, <2>2, <2>3, GoOnEffect
<1>3. CASE SendTimeout /\ slot.send_fail_count + 1 < FailMax
  <2>1. slot.send_fail_count + 1 \in Nat
    BY <1>1, SlotTypes
  <2>2. slot' = [slot EXCEPT !.send_fail_count = slot.send_fail_count + 1]
    BY <1>3 DEF SendTimeout
  <2>3. Only(slot', slot, {"send_fail_count"})
    BY <1>1, <2>1, <2>2, Set_send_fail_count
  <2>4. slot'.outbound = slot.outbound /\ slot'.left = slot.left
    BY <2>3 DEF Only, SlotFields
  <2>5. Only(slot', slot, {"outbound", "send_fail_count", "left"})
    BY <2>3 DEF Only
  <2>6. \A g \in Nat : Holds(slot, g) => Holds(slot', g)
    BY <2>4, HoldsSame
  <2> QED BY <1>1, <1>3, <2>5, <2>6 DEF SendTimeout
<1>4. CASE SendTimeout /\ ~(slot.send_fail_count + 1 < FailMax)
  <2> DEFINE r == [slot EXCEPT !.outbound = Tail(@), !.send_fail_count = 0,
                               !.left = Max({@, NewestValue(<<Head(slot.outbound)>>)})]
  <2>1. slot' = r
    BY <1>1, <1>4 DEF SendTimeout, SlotType
  <2>2. /\ Only(r, slot, {"outbound", "send_fail_count", "left"})
        /\ \A g \in Nat : Holds(slot, g) => Holds(r, g)
    BY <1>1, PopType
  <2> HIDE DEF r
  <2> QED BY <1>1, <1>4, <2>1, <2>2 DEF SendTimeout
<1> QED BY <1>2, <1>3, <1>4

\* A new client starts at the count of pushes with its STATE key dirty.
LEMMA AcquireEffect ==
    ASSUME PushTypes, Acquire
    PROVE  /\ Only(slot', FreeSlot, {"dirty", "cursor", "start"})
           /\ slot'.dirty = TRUE /\ slot'.cursor = total /\ slot'.start = total
<1> DEFINE a == [FreeSlot EXCEPT !.dirty = TRUE]
           b == [a EXCEPT !.cursor = total]
           c == [b EXCEPT !.start = total]
<1>1. FreeSlot \in SlotType /\ total \in Int
  BY FreeSlotType DEF PushTypes
<1>2. Only(a, FreeSlot, {"dirty"}) /\ a.dirty = TRUE
  BY <1>1, Set_dirty
<1>3. Only(b, a, {"cursor"}) /\ b.cursor = total
  <2>1. a \in SlotType
    BY <1>2 DEF Only
  <2> QED BY <1>1, <2>1, Set_cursor
<1>4. Only(c, b, {"start"}) /\ c.start = total
  <2>1. b \in SlotType
    BY <1>3 DEF Only
  <2> HIDE DEF b
  <2> QED BY <1>1, <2>1, Set_start
<1>5. Only(c, FreeSlot, {"dirty", "cursor", "start"}) /\ c.dirty = TRUE /\ c.cursor = total
  <2> HIDE DEF a, b, c
  <2> QED BY <1>2, <1>3, <1>4 DEF Only, SlotFields
<1>6. slot' = c
  BY <1>1 DEF Acquire, SlotType
<1> HIDE DEF c
<1> QED BY <1>4, <1>5, <1>6

\* The steps that store one flag of the slot.
LEMMA SmallEffects ==
    ASSUME PushTypes
    PROVE  /\ Released => Only(slot', slot, {"pending_release"})
           /\ RequestRelease => Only(slot', slot, {"pending_release"})
           /\ Publish => Only(slot', slot, {"in_use"}) /\ slot'.in_use = TRUE
<1>1. slot \in SlotType
  BY DEF PushTypes
<1> QED BY <1>1, Set_pending_release, Set_in_use DEF Released, RequestRelease, Publish

\* The producers' steps.
KeysNext == StashLine \/ TouchLine \/ StashValue \/ TouchValue

\* The two tasks.
LEMMA TasksDiffer ==
    "fwd" \in Tasks /\ "sweep" \in Tasks /\ \A t \in Tasks : t = "fwd" \/ t = "sweep"
BY DEF Tasks

\* The producers' steps keep the types.
LEMMA TypesKeys == ASSUME PushTypes, KeysNext PROVE PushTypes'
<1>1. CASE StashLine
  BY <1>1 DEF PushTypes, StashLine, ringVars
<1>2. CASE TouchLine
  <2>1. gen + 1 \in Nat
    BY DEF PushTypes
  <2>2. pump' \in [Tasks -> PumpType]
    BY <1>2, <2>1, PumpMoves, TasksDiffer DEF PushTypes, TouchLine
  <2> QED BY <1>2, <2>1, <2>2 DEF PushTypes, TouchLine, ringVars
<1>3. CASE StashValue
  <2>1. value' \in 0 .. MaxValue
    BY <1>3, DataPushAssumption DEF PushTypes, StashValue
  <2> QED BY <1>3, <2>1 DEF PushTypes, StashValue, ringVars
<1>4. CASE TouchValue
  BY <1>4 DEF PushTypes, TouchValue, ringVars
<1> QED BY <1>1, <1>2, <1>3, <1>4 DEF KeysNext

\* A task that leaves push_pump has an empty record, and the broadcaster a client to serve.
LEMMA PumpDoneType ==
    ASSUME PushTypes, NEW t \in Tasks, PumpDone(t)
    PROVE  /\ pump' \in [Tasks -> PumpType] /\ sweep' \in SweepPCs
           /\ Others(t) /\ pump'[t].pc = "out" /\ pump'[t].gen = 0 /\ pump'[t].prev = 0
<1>1. sweep' \in SweepPCs
  BY DEF PumpDone, PushTypes, SweepPCs
<1> QED BY <1>1, PumpMoves DEF PumpDone, PushTypes

\* The steps of push_pump keep the types.
LEMMA TypesPump == ASSUME PushTypes, NEW t \in Tasks, PushPump(t) PROVE PushTypes'
<1>1. pump[t] \in PumpType
  BY DEF PushTypes
<1>2. pump[t].gen \in Nat /\ pump[t].prev \in Nat /\ pump[t].line \in Nat
  BY <1>1 DEF PumpType
<1>3. {"append", "count", "render", "commit", "revoke"} \subseteq PumpPCs
  BY DEF PumpPCs
<1>4. CASE Claim(t)
  <2>1. pump' \in [Tasks -> PumpType] /\ sweep' \in SweepPCs
    <3>1. CASE pump[t].gen = lastGen
      BY <1>4, <3>1, PumpDoneType DEF Claim
    <3>2. CASE pump[t].gen # lastGen
      BY <1>3, <1>4, <3>2, PumpMoves DEF Claim, PushTypes
    <3> QED BY <3>1, <3>2
  <2>2. lastGen' \in Nat /\ backwards' \in BOOLEAN
    BY <1>2, <1>4 DEF Claim, PushTypes
  <2> QED BY <1>4, <2>1, <2>2 DEF PushTypes, Claim, keyVars
<1>5. CASE Render(t)
  <2>1. pump' \in [Tasks -> PumpType]
    BY <1>3, <1>5, PumpMoves DEF Render, PushTypes
  <2> QED BY <1>5, <2>1 DEF PushTypes, Render, keyVars, ringVars
<1>6. CASE Revoke(t)
  <2>1. pump' \in [Tasks -> PumpType] /\ sweep' \in SweepPCs
    BY <1>6, PumpDoneType DEF Revoke
  <2> QED BY <1>2, <1>6, <2>1 DEF PushTypes, Revoke, keyVars
<1>7. CASE Commit(t)
  <2>1. CASE lastGen = pump[t].gen
    <3>1. StartPush(t)
      BY <1>7, <2>1 DEF Commit
    <3>2. /\ slot' \in SlotType /\ sweep' = sweep /\ ring' \in Seq(Entries)
          /\ pump' = [pump EXCEPT ![t].pc = "append"]
      BY <3>1, StartPushEffect DEF Only
    <3>3. pump' \in [Tasks -> PumpType]
      BY <1>3, <3>2, PumpMoves DEF PushTypes
    <3> QED BY <1>7, <3>2, <3>3 DEF PushTypes, Commit, keyVars
  <2>2. CASE lastGen # pump[t].gen
    <3>1. pump' \in [Tasks -> PumpType] /\ sweep' \in SweepPCs
      BY <1>7, <2>2, PumpDoneType DEF Commit
    <3> QED BY <1>7, <2>2, <3>1 DEF PushTypes, Commit, keyVars
  <2> QED BY <2>1, <2>2
<1>8. CASE AppendFrame(t)
  <2>1. pump' \in [Tasks -> PumpType]
    BY <1>3, <1>8, PumpMoves DEF AppendFrame, PushTypes
  <2>2. [line |-> pump[t].line, seq |-> total] \in Entries
    BY <1>2 DEF PushTypes, Entries
  <2>3. ring' \in Seq(Entries)
    BY <1>8, <2>2 DEF AppendFrame, PushTypes
  <2> QED BY <1>8, <2>1, <2>3 DEF PushTypes, AppendFrame, keyVars
<1>9. CASE CountPush(t)
  <2>1. pump' \in [Tasks -> PumpType] /\ sweep' \in SweepPCs
    BY <1>9, PumpDoneType DEF CountPush
  <2> QED BY <1>9, <2>1 DEF PushTypes, CountPush, keyVars
<1> QED BY <1>4, <1>5, <1>6, <1>7, <1>8, <1>9 DEF PushPump

\* The steps of the sweep keep the types.
LEMMA TypesSweep ==
    ASSUME PushTypes, SeenInv, sweep = "entries" => drain.idx \in Nat, SweepStep
    PROVE  PushTypes'
<1>1. CASE Detect
  <2>1. pump' \in [Tasks -> PumpType]
    BY <1>1, PumpMoves, TasksDiffer DEF Detect, PushTypes
  <2>2. slot' \in SlotType
    BY <1>1, DetectEffect DEF Only
  <2> QED BY <1>1, <2>1, <2>2 DEF Detect, PushTypes, SweepPCs, keyVars, ringVars
<1>2. CASE NoClient
  BY <1>2 DEF NoClient, PushTypes, SweepPCs, keyVars, ringVars
<1>3. CASE Reap \/ SendFatal
  <2>1. slot' \in SlotType /\ sweep' = "release"
    BY <1>3, ReleaseEffect DEF Reap, SendFatal, Only
  <2> QED BY <1>3, <2>1 DEF Reap, SendFatal, PushTypes, SweepPCs, keyVars, ringVars
<1>4. CASE Released
  <2>1. slot' \in SlotType
    BY <1>4, SmallEffects DEF Only
  <2> QED BY <1>4, <2>1 DEF Released, PushTypes, SweepPCs, keyVars, ringVars
<1>5. CASE DrainState
  <2>1. slot' \in SlotType /\ drain' \in DrainType /\ sweep' = "total"
    BY <1>5, DrainStateEffect DEF Only
  <2>2. UNCHANGED <<keyVars, ringVars, pump, building>>
    BY <1>5 DEF DrainState
  <2> QED BY <2>1, <2>2 DEF PushTypes, SweepPCs, keyVars, ringVars
<1>6. CASE DrainTotal
  <2>1. slot' \in SlotType /\ drain' \in DrainType /\ sweep' \in {"entries", "idle", "flush"}
    BY <1>6, DrainTotalEffect DEF Only
  <2>2. UNCHANGED <<keyVars, ringVars, pump, building>>
    BY <1>6 DEF DrainTotal
  <2> QED BY <2>1, <2>2 DEF PushTypes, SweepPCs, keyVars, ringVars
<1>7. CASE DrainEntry
  <2>1. sweep = "entries"
    BY <1>7 DEF DrainEntry
  <2>2. slot' \in SlotType /\ drain' \in DrainType /\ sweep' \in {"entries", "idle", "flush"}
    BY <1>7, <2>1, DrainEntryEffect DEF Only
  <2>3. UNCHANGED <<keyVars, ringVars, pump, building>>
    BY <1>7 DEF DrainEntry
  <2> QED BY <2>2, <2>3 DEF PushTypes, SweepPCs, keyVars, ringVars
<1>8. CASE SendOk \/ SendTimeout
  <2>1. slot' \in SlotType /\ drain' \in DrainType /\ sweep' \in {"idle", "flush"}
    BY <1>8, SendEffect DEF Only
  <2>2. UNCHANGED <<keyVars, ringVars, pump, building>>
    BY <1>8 DEF SendOk, SendTimeout
  <2> QED BY <2>1, <2>2 DEF PushTypes, SweepPCs, keyVars, ringVars
<1> QED BY <1>1, <1>2, <1>3, <1>4, <1>5, <1>6, <1>7, <1>8 DEF SweepStep

\* The connection's steps keep the types.
LEMMA TypesOthers ==
    ASSUME PushTypes, Acquire \/ Publish \/ RequestRelease PROVE PushTypes'
<1>1. slot' \in SlotType
  BY AcquireEffect, SmallEffects DEF Only
<1> QED BY <1>1 DEF Acquire, Publish, RequestRelease, PushTypes, keyVars, ringVars

\* Every step keeps the types.
LEMMA TypesNext ==
    ASSUME PushTypes, SeenInv, sweep = "entries" => drain.idx \in Nat, [PushNext]_pushVars
    PROVE  PushTypes'
<1>1. CASE KeysNext
  BY <1>1, TypesKeys
<1>2. ASSUME NEW t \in Tasks, PushPump(t) PROVE PushTypes'
  BY <1>2, TypesPump
<1>3. CASE SweepStep
  BY <1>3, TypesSweep
<1>4. CASE Acquire \/ Publish \/ RequestRelease
  BY <1>4, TypesOthers
<1>5. CASE UNCHANGED pushVars
  BY <1>5 DEF pushVars, keyVars, ringVars, PushTypes
<1> QED BY <1>1, <1>2, <1>3, <1>4, <1>5 DEF PushNext, KeysNext

-----------------------------------------------------------------------------
(* What a step of a task does to its own record; the other's is unchanged. *)
LEMMA PumpEffect ==
    ASSUME PushTypes, NEW t \in Tasks
    PROVE  /\ PushPump(t) => /\ UNCHANGED <<keyVars, drain, building>> /\ Others(t)
                             /\ sweep' # sweep => t = "sweep" /\ sweep' = "client"
                                /\ pump'[t].pc = "out"
                             /\ pump'[t].pc = "out" /\ t = "sweep" => sweep' = "client"
           /\ Claim(t) => /\ pump[t].pc = "claim" /\ Unlocked /\ UNCHANGED <<ring, total, slot>>
                          /\ \/ /\ pump[t].gen = lastGen /\ UNCHANGED <<lastGen, backwards>>
                                /\ pump'[t].pc = "out" /\ pump'[t].gen = 0 /\ pump'[t].prev = 0
                             \/ /\ pump[t].gen # lastGen /\ lastGen' = pump[t].gen
                                /\ backwards' = (backwards \/ pump[t].gen < lastGen)
                                /\ pump'[t].pc = "render" /\ pump'[t].gen = pump[t].gen
                                /\ pump'[t].prev = lastGen
           /\ Render(t) => /\ pump[t].pc = "render" /\ UNCHANGED <<ringVars, sweep, slot>>
                           /\ pump'[t].gen = pump[t].gen /\ pump'[t].prev = pump[t].prev
                           /\ \/ pump'[t].pc = "commit" /\ pump'[t].line = stash
                              \/ pump'[t].pc = "revoke"
           /\ Revoke(t) => /\ pump[t].pc = "revoke" /\ Unlocked
                           /\ UNCHANGED <<ring, total, backwards, slot>>
                           /\ pump'[t].pc = "out" /\ pump'[t].gen = 0 /\ pump'[t].prev = 0
                           /\ lastGen' = IF lastGen = pump[t].gen THEN pump[t].prev ELSE lastGen
           /\ Commit(t) => /\ pump[t].pc = "commit" /\ Unlocked
                           /\ UNCHANGED <<lastGen, total, backwards>>
                           /\ \/ /\ lastGen = pump[t].gen /\ pump'[t].pc = "append"
                                 /\ pump'[t].gen = pump[t].gen /\ pump'[t].prev = pump[t].prev
                                 /\ pump'[t].line = pump[t].line
                                 /\ ring' = IF Len(ring) = RingCap THEN Tail(ring) ELSE ring
                                 /\ Only(slot', slot, {"raced"}) /\ sweep' = sweep
                                 /\ slot'.raced = (IF Draining THEN slot.raced + 1 ELSE slot.raced)
                              \/ /\ lastGen # pump[t].gen /\ UNCHANGED <<ring, slot>>
                                 /\ pump'[t].pc = "out" /\ pump'[t].gen = 0 /\ pump'[t].prev = 0
           /\ AppendFrame(t) => /\ pump[t].pc = "append"
                                /\ UNCHANGED <<lastGen, total, backwards, sweep, slot>>
                                /\ pump'[t].pc = "count" /\ pump'[t].gen = pump[t].gen
                                /\ pump'[t].prev = pump[t].prev /\ pump'[t].line = pump[t].line
                                /\ ring' = Append(ring, [line |-> pump[t].line, seq |-> total])
           /\ CountPush(t) => /\ pump[t].pc = "count"
                              /\ UNCHANGED <<lastGen, ring, backwards, slot>>
                              /\ total' = total + 1
                              /\ pump'[t].pc = "out" /\ pump'[t].gen = 0 /\ pump'[t].prev = 0
<1>1. /\ pump \in [Tasks -> PumpType] /\ lastGen \in Nat /\ stash \in Nat
      /\ {"append", "count", "render", "commit", "revoke"} \subseteq PumpPCs
  BY DEF PushTypes, PumpPCs
<1>2. ASSUME PumpDone(t)
      PROVE  /\ Others(t) /\ pump'[t].pc = "out" /\ pump'[t].gen = 0 /\ pump'[t].prev = 0
             /\ sweep' # sweep => t = "sweep" /\ sweep' = "client"
             /\ t = "sweep" => sweep' = "client"
  BY <1>2, PumpDoneType DEF PumpDone
<1>3. ASSUME Claim(t)
      PROVE  /\ pump[t].pc = "claim" /\ Unlocked
             /\ UNCHANGED <<keyVars, drain, building, ring, total, slot>>
             /\ \/ /\ pump[t].gen = lastGen /\ UNCHANGED <<lastGen, backwards>> /\ PumpDone(t)
                \/ /\ pump[t].gen # lastGen /\ lastGen' = pump[t].gen
                   /\ backwards' = (backwards \/ pump[t].gen < lastGen)
                   /\ Others(t) /\ pump'[t].pc = "render" /\ pump'[t].gen = pump[t].gen
                   /\ pump'[t].prev = lastGen /\ sweep' = sweep
  <2>1. CASE pump[t].gen = lastGen
    BY <1>3, <2>1 DEF Claim
  <2>2. CASE pump[t].gen # lastGen
    <3>1. Others(t) /\ pump'[t].pc = "render" /\ pump'[t].gen = pump[t].gen
          /\ pump'[t].prev = lastGen
      BY <1>1, <1>3, <2>2, PumpMoves DEF Claim
    <3> QED BY <1>3, <2>2, <3>1 DEF Claim
  <2> QED BY <2>1, <2>2
<1>4. ASSUME Render(t)
      PROVE  /\ pump[t].pc = "render"
             /\ UNCHANGED <<keyVars, drain, building, ringVars, sweep, slot>>
             /\ Others(t) /\ pump'[t].gen = pump[t].gen /\ pump'[t].prev = pump[t].prev
             /\ \/ pump'[t].pc = "commit" /\ pump'[t].line = stash
                \/ pump'[t].pc = "revoke"
  BY <1>1, <1>4, PumpMoves DEF Render
<1>5. ASSUME Revoke(t)
      PROVE  /\ pump[t].pc = "revoke" /\ Unlocked
             /\ UNCHANGED <<keyVars, drain, building, ring, total, backwards, slot>> /\ PumpDone(t)
             /\ lastGen' = IF lastGen = pump[t].gen THEN pump[t].prev ELSE lastGen
  BY <1>5 DEF Revoke
<1>6. ASSUME Commit(t)
      PROVE  /\ pump[t].pc = "commit" /\ Unlocked
             /\ UNCHANGED <<keyVars, drain, building, lastGen, total, backwards>>
             /\ \/ /\ lastGen = pump[t].gen /\ pump'[t].pc = "append" /\ Others(t)
                   /\ pump'[t].gen = pump[t].gen /\ pump'[t].prev = pump[t].prev
                   /\ pump'[t].line = pump[t].line
                   /\ ring' = IF Len(ring) = RingCap THEN Tail(ring) ELSE ring
                   /\ Only(slot', slot, {"raced"}) /\ sweep' = sweep
                   /\ slot'.raced = (IF Draining THEN slot.raced + 1 ELSE slot.raced)
                \/ lastGen # pump[t].gen /\ UNCHANGED <<ring, slot>> /\ PumpDone(t)
  <2>1. CASE lastGen = pump[t].gen
    <3>1. StartPush(t)
      BY <1>6, <2>1 DEF Commit
    <3>2. /\ Only(slot', slot, {"raced"}) /\ sweep' = sweep
          /\ slot'.raced = (IF Draining THEN slot.raced + 1 ELSE slot.raced)
          /\ ring' = (IF Len(ring) = RingCap THEN Tail(ring) ELSE ring)
          /\ pump' = [pump EXCEPT ![t].pc = "append"]
      BY <3>1, StartPushEffect
    <3>3. /\ pump'[t].pc = "append" /\ Others(t) /\ pump'[t].gen = pump[t].gen
          /\ pump'[t].prev = pump[t].prev /\ pump'[t].line = pump[t].line
      BY <1>1, <3>2, PumpMoves
    <3> QED BY <1>6, <2>1, <3>2, <3>3 DEF Commit
  <2>2. CASE lastGen # pump[t].gen
    BY <1>6, <2>2 DEF Commit
  <2> QED BY <2>1, <2>2
<1>7. ASSUME AppendFrame(t)
      PROVE  /\ pump[t].pc = "append"
             /\ UNCHANGED <<keyVars, drain, building, lastGen, total, backwards, sweep, slot>>
             /\ Others(t) /\ pump'[t].pc = "count" /\ pump'[t].gen = pump[t].gen
             /\ pump'[t].prev = pump[t].prev /\ pump'[t].line = pump[t].line
             /\ ring' = Append(ring, [line |-> pump[t].line, seq |-> total])
  BY <1>1, <1>7, PumpMoves DEF AppendFrame
<1>8. ASSUME CountPush(t)
      PROVE  /\ pump[t].pc = "count"
             /\ UNCHANGED <<keyVars, drain, building, lastGen, ring, backwards, slot>>
             /\ total' = total + 1 /\ PumpDone(t)
  BY <1>8 DEF CountPush
<1>9. ASSUME PushPump(t)
      PROVE  /\ UNCHANGED <<keyVars, drain, building>> /\ Others(t)
             /\ sweep' # sweep => t = "sweep" /\ sweep' = "client" /\ pump'[t].pc = "out"
             /\ pump'[t].pc = "out" /\ t = "sweep" => sweep' = "client"
  BY <1>2, <1>3, <1>4, <1>5, <1>6, <1>7, <1>8, <1>9 DEF PushPump
<1>10. Claim(t) => /\ pump[t].pc = "claim" /\ Unlocked /\ UNCHANGED <<ring, total, slot>>
                   /\ \/ /\ pump[t].gen = lastGen /\ UNCHANGED <<lastGen, backwards>>
                         /\ pump'[t].pc = "out" /\ pump'[t].gen = 0 /\ pump'[t].prev = 0
                      \/ /\ pump[t].gen # lastGen /\ lastGen' = pump[t].gen
                         /\ backwards' = (backwards \/ pump[t].gen < lastGen)
                         /\ pump'[t].pc = "render" /\ pump'[t].gen = pump[t].gen
                         /\ pump'[t].prev = lastGen
  BY <1>2, <1>3
<1>11. Revoke(t) => /\ pump[t].pc = "revoke" /\ Unlocked
                    /\ UNCHANGED <<ring, total, backwards, slot>>
                    /\ pump'[t].pc = "out" /\ pump'[t].gen = 0 /\ pump'[t].prev = 0
                    /\ lastGen' = IF lastGen = pump[t].gen THEN pump[t].prev ELSE lastGen
  BY <1>2, <1>5
<1>12. Commit(t) => /\ pump[t].pc = "commit" /\ Unlocked /\ UNCHANGED <<lastGen, total, backwards>>
                    /\ \/ /\ lastGen = pump[t].gen /\ pump'[t].pc = "append"
                          /\ pump'[t].gen = pump[t].gen /\ pump'[t].prev = pump[t].prev
                          /\ pump'[t].line = pump[t].line
                          /\ ring' = IF Len(ring) = RingCap THEN Tail(ring) ELSE ring
                          /\ Only(slot', slot, {"raced"}) /\ sweep' = sweep
                          /\ slot'.raced = (IF Draining THEN slot.raced + 1 ELSE slot.raced)
                       \/ /\ lastGen # pump[t].gen /\ UNCHANGED <<ring, slot>>
                          /\ pump'[t].pc = "out" /\ pump'[t].gen = 0 /\ pump'[t].prev = 0
  BY <1>2, <1>6
<1>13. CountPush(t) => /\ pump[t].pc = "count" /\ UNCHANGED <<lastGen, ring, backwards, slot>>
                       /\ total' = total + 1
                       /\ pump'[t].pc = "out" /\ pump'[t].gen = 0 /\ pump'[t].prev = 0
  BY <1>2, <1>8
<1> QED BY <1>4, <1>7, <1>9, <1>10, <1>11, <1>12, <1>13

\* The numbers the arguments about push_pump are about.
LEMMA PumpNums ==
    ASSUME PushTypes
    PROVE  /\ {stash, gen, vgen, lastGen, total, value} \subseteq Nat
           /\ \A t \in Tasks : pump[t].gen \in Nat /\ pump[t].prev \in Nat /\ pump[t].line \in Nat
           /\ ring \in Seq(Entries)
           /\ ring # <<>> => Last(ring).line \in Nat
           /\ RingCap \in Nat \ {0}
<1>1. \A t \in Tasks : pump[t] \in PumpType
  BY DEF PushTypes
<1>2. ring # <<>> => Last(ring) \in Entries
  BY DEF PushTypes, Last
<1> QED BY <1>1, <1>2, DataPushAssumption DEF PushTypes, PumpType, Entries

\* The last entry of a ring that grew is the one added.
LEMMA LastAppend ==
    ASSUME NEW q \in Seq(Entries), NEW e \in Entries
    PROVE  Append(q, e) # <<>> /\ Last(Append(q, e)) = e
BY DEF Last

\* A ring that loses its oldest entry keeps its last, if any entry is left.
LEMMA LastTail ==
    ASSUME NEW q \in Seq(Entries), Tail(q) # <<>>, Len(q) > 0
    PROVE  q # <<>> /\ Last(Tail(q)) = Last(q)
<1>1. Len(Tail(q)) = Len(q) - 1 /\ Len(Tail(q)) > 0
  BY DEF Last
<1>2. Tail(q)[Len(q) - 1] = q[Len(q)]
  BY <1>1
<1> QED BY <1>1, <1>2 DEF Last

\* A new line, or a new generation, only makes the standing claim an old one.
LEMMA KeysPump ==
    ASSUME PushTypes, PumpInv, RingInv, NewestInv, KeysNext
    PROVE  PumpInv' /\ RingInv' /\ NewestInv'
<1> DEFINE f == pump["fwd"]
           s == pump["sweep"]
<1>0. "fwd" \in Tasks /\ "sweep" \in Tasks /\ \A t \in Tasks : t = "fwd" \/ t = "sweep"
  BY TasksDiffer
<1>1. CASE StashLine
  <2>1. /\ f.pc = "out" /\ stash = gen /\ stash' = stash + 1
        /\ UNCHANGED <<gen, value, vgen, ringVars, pump, sweep>>
    BY <1>1 DEF StashLine
  <2>2. PumpInv'
    BY <1>0, <2>1, PumpNums
       DEF PumpInv, KeyInv, FwdInv, SweepInv, TaskInv, OnePush, Pushing, ringVars
  <2>3. RingInv'
    BY <1>0, <2>1, PumpNums DEF RingInv, AheadInv, Counted, ringVars, Holding
  <2>4. NewestInv'
    BY <2>1 DEF NewestInv, NewestInRing, Forward, Newest, ringVars, Holding, Pushing
  <2> QED BY <2>2, <2>3, <2>4
<1>2. CASE TouchLine
  <2>1. /\ stash = gen + 1 /\ gen' = gen + 1 /\ UNCHANGED <<stash, value, vgen, ringVars, sweep>>
        /\ pump' = EnterPump("fwd", gen + 1)
    BY <1>2 DEF TouchLine
  <2>2. /\ pump'["fwd"].pc = "claim" /\ pump'["fwd"].gen = gen + 1 /\ pump'["fwd"].prev = f.prev
        /\ pump'["sweep"] = s
    <3>1. gen + 1 \in Nat /\ pump \in [Tasks -> PumpType]
      BY PumpNums DEF PushTypes
    <3>2. /\ pump'["fwd"].pc = "claim" /\ pump'["fwd"].gen = gen + 1 /\ pump'["fwd"].prev = f.prev
          /\ Others("fwd")
      BY <1>0, <2>1, <3>1, PumpMoves
    <3> QED BY <1>0, <3>2 DEF Others
  <2>3. f.pc = "out"
    BY <2>1, PumpNums DEF PumpInv, FwdInv
  <2>4. PumpInv'
    <3>1. KeyInv' /\ SweepInv'
      BY <1>0, <2>1, <2>2, PumpNums DEF PumpInv, KeyInv, SweepInv, ringVars
    <3>2. FwdInv' /\ OnePush'
      BY <2>1, <2>2 DEF FwdInv, OnePush, Pushing
    <3>3. TaskInv("fwd")'
      <4>1. f.prev <= gen /\ f.prev \in Nat /\ gen \in Nat
        BY <1>0, PumpNums DEF PumpInv, TaskInv
      <4> QED BY <2>1, <2>2, <4>1 DEF TaskInv, Pushing
    <3>4. TaskInv("sweep")'
      <4>1. s.gen \in Nat /\ s.prev \in Nat /\ gen \in Nat /\ TaskInv("sweep")
        BY <1>0, PumpNums DEF PumpInv
      <4> QED BY <2>1, <2>2, <4>1 DEF TaskInv, Pushing, ringVars
    <3> QED BY <3>1, <3>2, <3>3, <3>4 DEF PumpInv
  <2>5. RingInv'
    BY <1>0, <2>1, <2>2, <2>3, PumpNums DEF RingInv, AheadInv, Counted, ringVars, Holding
  <2>6. NewestInv'
    <3> SUFFICES ASSUME ~ backwards'
                 PROVE  Forward("fwd")' /\ Forward("sweep")' /\ lastGen' # gen'
      BY DEF NewestInv
    <3>1. ~ backwards /\ lastGen' = lastGen /\ ring' = ring
      BY <2>1, <2>2 DEF ringVars
    <3>2. Forward("fwd")' /\ Forward("sweep")'
      BY <2>1, <2>2, <3>1 DEF NewestInv, Forward, Holding
    <3>3. lastGen' # gen'
      BY <1>0, <2>1, <2>2, <3>1, PumpNums DEF PumpInv, KeyInv
    <3> QED BY <3>2, <3>3
  <2> QED BY <2>4, <2>5, <2>6
<1>3. CASE StashValue \/ TouchValue
  <2>1. UNCHANGED <<gen, stash, ringVars, pump, sweep>> /\ value' \in {vgen', vgen' + 1}
    BY <1>3, PumpNums DEF StashValue, TouchValue
  <2> QED BY <2>1
              DEF PumpInv, KeyInv, FwdInv, SweepInv, TaskInv, OnePush, RingInv, AheadInv, Counted,
                  NewestInv, NewestInRing,
                     Forward, Newest, ringVars, Holding, Pushing
<1> QED BY <1>1, <1>2, <1>3 DEF KeysNext

(* One task's step keeps PumpInv if it keeps the parts that speak of it.   *)
LEMMA ClaimPump ==
    ASSUME PushTypes, PumpInv, RingInv, NewestInv, NEW t \in Tasks, Claim(t)
    PROVE  PumpInv' /\ RingInv' /\ NewestInv'
<1>1. /\ UNCHANGED <<stash, gen, value, vgen, drain, building>> /\ Others(t)
      /\ sweep' # sweep => t = "sweep" /\ sweep' = "client" /\ pump'[t].pc = "out"
      /\ pump'[t].pc = "out" /\ t = "sweep" => sweep' = "client"
  <2>1. PushPump(t)
    BY DEF PushPump
  <2> QED BY <2>1, PumpEffect DEF keyVars
<1>2. /\ pump[t].pc = "claim" /\ Unlocked /\ UNCHANGED <<ring, total, slot>>
      /\ \/ /\ pump[t].gen = lastGen /\ UNCHANGED <<lastGen, backwards>>
            /\ pump'[t].pc = "out" /\ pump'[t].gen = 0 /\ pump'[t].prev = 0
         \/ /\ pump[t].gen # lastGen /\ lastGen' = pump[t].gen
            /\ backwards' = (backwards \/ pump[t].gen < lastGen)
            /\ pump'[t].pc = "render" /\ pump'[t].gen = pump[t].gen
            /\ pump'[t].prev = lastGen
  BY PumpEffect
<1>3. ~Pushing("fwd") /\ ~Pushing("sweep")
  BY <1>2, TasksDiffer DEF Unlocked, Pushing
<1>4. /\ {stash, gen, vgen, lastGen} \subseteq Nat
      /\ pump["fwd"].gen \in Nat /\ pump["fwd"].prev \in Nat /\ pump["fwd"].line \in Nat
      /\ pump["sweep"].gen \in Nat /\ pump["sweep"].prev \in Nat /\ pump["sweep"].line \in Nat
      /\ ring # <<>> => Last(ring).line \in Nat
  BY PumpNums, TasksDiffer
<1>5. CASE t = "fwd"
  <2>1. pump'["sweep"] = pump["sweep"]
    BY <1>1, <1>5, TasksDiffer DEF Others
  <2>2. PumpInv'
    BY <1>1, <1>2, <1>3, <1>4, <1>5, <2>1
       DEF PumpInv, KeyInv, FwdInv, SweepInv, TaskInv, OnePush, Pushing
  <2>3. RingInv'
    <3>1. ring' = ring /\ stash' = stash
      BY <1>1, <1>2
    <3>2. (ring # <<>> => Last(ring).line <= stash)'
      BY <3>1 DEF RingInv
    <3>3. Counted("fwd")' /\ Counted("sweep")'
      BY <1>2, <1>5, <2>1, <3>1 DEF RingInv, Counted
    <3>4. (pump["sweep"].pc = "append" /\ ring # <<>> => Last(ring).line <= pump["sweep"].line)'
      BY <1>2, <1>5, <2>1, <3>1 DEF RingInv
    <3>5. AheadInv'
      BY <1>2, <1>4, <1>5, <2>1, <3>1 DEF RingInv, AheadInv, Holding, PumpInv, KeyInv, FwdInv
    <3> QED BY <3>2, <3>3, <3>4, <3>5 DEF RingInv
  <2>4. NewestInv'
    <3>1. SUFFICES ASSUME ~backwards'
                   PROVE  /\ Forward("fwd")' /\ Forward("sweep")'
                          /\ (lastGen = gen /\ gen > 0)' =>
                                \/ Newest("fwd")' \/ Newest("sweep")'
                                \/ NewestInRing'
      BY DEF NewestInv
    <3>2. ~backwards /\ ring' = ring /\ gen' = gen /\ (NewestInRing => NewestInRing')
      <4>1. backwards \in BOOLEAN
        BY DEF PushTypes
      <4> QED BY <1>1, <1>2, <3>1, <4>1 DEF NewestInRing
    <3>3. /\ Forward("fwd") /\ Forward("sweep")
          /\ lastGen = gen /\ gen > 0 =>
                Newest("fwd") \/ Newest("sweep") \/ NewestInRing
      BY <3>2 DEF NewestInv
    <3>4. ~Newest("fwd")
      BY <1>2, <1>5 DEF Newest, Pushing, Holding
    <3>5. Forward("sweep")' /\ (Newest("sweep") => Newest("sweep")')
      BY <2>1, <3>2, <3>3 DEF Forward, Newest, Pushing
    <3>6. CASE pump[t].gen = lastGen
      <4>1. lastGen' = lastGen /\ pump'[t].pc = "out"
        BY <1>2, <3>6
      <4>2. Forward("fwd")'
        BY <1>5, <4>1 DEF Forward, Holding
      <4> QED BY <3>2, <3>3, <3>4, <3>5, <4>1, <4>2
    <3>7. CASE pump[t].gen # lastGen
      <4>1. /\ lastGen' = pump[t].gen /\ pump'[t].pc = "render" /\ pump'[t].gen = pump[t].gen
            /\ pump'[t].prev = lastGen /\ ~(pump[t].gen < lastGen)
        BY <1>2, <3>1, <3>7
      <4>2. Forward("fwd")'
        BY <1>4, <1>5, <3>7, <4>1 DEF Forward, Holding
      <4>3. lastGen' = gen' => Newest("fwd")'
        BY <1>5, <4>1 DEF Newest, Holding
      <4> QED BY <3>5, <4>2, <4>3
    <3> QED BY <3>6, <3>7
  <2> QED BY <2>2, <2>3, <2>4
<1>6. CASE t = "sweep"
  <2>1. pump'["fwd"] = pump["fwd"]
    BY <1>1, <1>6, TasksDiffer DEF Others
  <2>2. PumpInv'
    BY <1>1, <1>2, <1>3, <1>4, <1>6, <2>1
       DEF PumpInv, KeyInv, FwdInv, SweepInv, TaskInv, OnePush, Pushing
  <2>3. RingInv'
    <3>1. ring' = ring /\ stash' = stash
      BY <1>1, <1>2
    <3>2. (ring # <<>> => Last(ring).line <= stash)'
      BY <3>1 DEF RingInv
    <3>3. Counted("fwd")' /\ Counted("sweep")'
      BY <1>2, <1>6, <2>1, <3>1 DEF RingInv, Counted
    <3>4. (pump["sweep"].pc = "append" /\ ring # <<>> => Last(ring).line <= pump["sweep"].line)'
      BY <1>2, <1>6, <2>1, <3>1 DEF RingInv
    <3>5. AheadInv'
      BY <1>2, <1>4, <1>6, <2>1, <3>1 DEF RingInv, AheadInv, Holding, PumpInv, KeyInv, FwdInv
    <3> QED BY <3>2, <3>3, <3>4, <3>5 DEF RingInv
  <2>4. NewestInv'
    <3>1. SUFFICES ASSUME ~backwards'
                   PROVE  /\ Forward("fwd")' /\ Forward("sweep")'
                          /\ (lastGen = gen /\ gen > 0)' =>
                                \/ Newest("fwd")' \/ Newest("sweep")'
                                \/ NewestInRing'
      BY DEF NewestInv
    <3>2. ~backwards /\ ring' = ring /\ gen' = gen /\ (NewestInRing => NewestInRing')
      <4>1. backwards \in BOOLEAN
        BY DEF PushTypes
      <4> QED BY <1>1, <1>2, <3>1, <4>1 DEF NewestInRing
    <3>3. /\ Forward("fwd") /\ Forward("sweep")
          /\ lastGen = gen /\ gen > 0 =>
                Newest("fwd") \/ Newest("sweep") \/ NewestInRing
      BY <3>2 DEF NewestInv
    <3>4. ~Newest("sweep")
      BY <1>2, <1>6 DEF Newest, Pushing, Holding
    <3>5. Forward("fwd")' /\ (Newest("fwd") => Newest("fwd")')
      BY <2>1, <3>2, <3>3 DEF Forward, Newest, Pushing
    <3>6. CASE pump[t].gen = lastGen
      <4>1. lastGen' = lastGen /\ pump'[t].pc = "out"
        BY <1>2, <3>6
      <4>2. Forward("sweep")'
        BY <1>6, <4>1 DEF Forward, Holding
      <4> QED BY <3>2, <3>3, <3>4, <3>5, <4>1, <4>2
    <3>7. CASE pump[t].gen # lastGen
      <4>1. /\ lastGen' = pump[t].gen /\ pump'[t].pc = "render" /\ pump'[t].gen = pump[t].gen
            /\ pump'[t].prev = lastGen /\ ~(pump[t].gen < lastGen)
        BY <1>2, <3>1, <3>7
      <4>2. Forward("sweep")'
        BY <1>4, <1>6, <3>7, <4>1 DEF Forward, Holding
      <4>3. lastGen' = gen' => Newest("sweep")'
        BY <1>6, <4>1 DEF Newest, Holding
      <4> QED BY <3>5, <4>2, <4>3
    <3> QED BY <3>6, <3>7
  <2> QED BY <2>2, <2>3, <2>4
<1> QED BY <1>5, <1>6, TasksDiffer

\* A render reads the newest line: at least as new as the generation claimed.
LEMMA RenderPump ==
    ASSUME PushTypes, PumpInv, RingInv, NewestInv, NEW t \in Tasks, Render(t)
    PROVE  PumpInv' /\ RingInv' /\ NewestInv'
<1>1. /\ UNCHANGED <<stash, gen, value, vgen, lastGen, ring, backwards, sweep>> /\ Others(t)
      /\ pump[t].pc = "render"
      /\ pump'[t].gen = pump[t].gen /\ pump'[t].prev = pump[t].prev
      /\ \/ pump'[t].pc = "commit" /\ pump'[t].line = stash
         \/ pump'[t].pc = "revoke"
  <2>1. PushPump(t)
    BY DEF PushPump
  <2> QED BY <2>1, PumpEffect DEF keyVars, ringVars
<1>2. /\ {stash, gen, vgen, lastGen} \subseteq Nat
      /\ pump["fwd"].gen \in Nat /\ pump["fwd"].prev \in Nat /\ pump["fwd"].line \in Nat
      /\ pump["sweep"].gen \in Nat /\ pump["sweep"].prev \in Nat /\ pump["sweep"].line \in Nat
      /\ ring # <<>> => Last(ring).line \in Nat
  BY PumpNums, TasksDiffer
<1>3. NewestInRing => NewestInRing'
  BY <1>1 DEF NewestInRing
<1>4. CASE t = "fwd"
  <2>1. pump'["sweep"] = pump["sweep"]
    BY <1>1, <1>4, TasksDiffer DEF Others
  <2>2. PumpInv'
    BY <1>1, <1>2, <1>4, <2>1 DEF PumpInv, KeyInv, FwdInv, SweepInv, TaskInv, OnePush, Pushing
  <2>3. RingInv'
    <3>1. AheadInv'
      BY <1>1, <1>2, <1>4, <2>1 DEF RingInv, AheadInv, Holding, PumpInv, KeyInv, FwdInv
    <3> QED BY <1>1, <1>4, <2>1, <3>1 DEF RingInv, Counted
  <2>4. NewestInv'
    BY <1>1, <1>3, <1>4, <2>1 DEF NewestInv, Forward, Newest, Pushing, Holding
  <2> QED BY <2>2, <2>3, <2>4
<1>5. CASE t = "sweep"
  <2>1. pump'["fwd"] = pump["fwd"]
    BY <1>1, <1>5, TasksDiffer DEF Others
  <2>2. PumpInv'
    BY <1>1, <1>2, <1>5, <2>1 DEF PumpInv, KeyInv, FwdInv, SweepInv, TaskInv, OnePush, Pushing
  <2>3. RingInv'
    <3>1. AheadInv'
      BY <1>1, <1>2, <1>5, <2>1 DEF RingInv, AheadInv, Holding, PumpInv, KeyInv, FwdInv
    <3> QED BY <1>1, <1>5, <2>1, <3>1 DEF RingInv, Counted
  <2>4. NewestInv'
    BY <1>1, <1>3, <1>5, <2>1 DEF NewestInv, Forward, Newest, Pushing, Holding
  <2> QED BY <2>2, <2>3, <2>4
<1> QED BY <1>4, <1>5, TasksDiffer

\* A claim given back puts the previous one in its place, unless it was replaced.
LEMMA RevokePump ==
    ASSUME PushTypes, PumpInv, RingInv, NewestInv, NEW t \in Tasks, Revoke(t)
    PROVE  PumpInv' /\ RingInv' /\ NewestInv'
<1>1. /\ UNCHANGED <<stash, gen, value, vgen, ring, backwards>> /\ Others(t)
      /\ sweep' # sweep => t = "sweep" /\ sweep' = "client" /\ pump'[t].pc = "out"
      /\ t = "sweep" => sweep' = "client"
      /\ pump[t].pc = "revoke" /\ Unlocked
      /\ pump'[t].pc = "out" /\ pump'[t].gen = 0 /\ pump'[t].prev = 0
      /\ lastGen' = IF lastGen = pump[t].gen THEN pump[t].prev ELSE lastGen
  <2>1. PushPump(t)
    BY DEF PushPump
  <2>2. /\ UNCHANGED <<stash, gen, value, vgen>> /\ Others(t)
        /\ sweep' # sweep => t = "sweep" /\ sweep' = "client" /\ pump'[t].pc = "out"
        /\ pump'[t].pc = "out" /\ t = "sweep" => sweep' = "client"
    BY <2>1, PumpEffect DEF keyVars
  <2> QED BY <2>2, PumpEffect
<1>2. /\ {stash, gen, vgen, lastGen} \subseteq Nat
      /\ pump["fwd"].gen \in Nat /\ pump["fwd"].prev \in Nat /\ pump["fwd"].line \in Nat
      /\ pump["sweep"].gen \in Nat /\ pump["sweep"].prev \in Nat /\ pump["sweep"].line \in Nat
      /\ ring # <<>> => Last(ring).line \in Nat
  BY PumpNums, TasksDiffer
<1>3. (NewestInRing => NewestInRing') /\ ~Pushing("fwd") /\ ~Pushing("sweep")
  BY <1>1, TasksDiffer DEF NewestInRing, Unlocked, Pushing
<1>4. CASE t = "fwd"
  <2>1. pump'["sweep"] = pump["sweep"]
    BY <1>1, <1>4, TasksDiffer DEF Others
  <2>2. PumpInv'
    BY <1>1, <1>2, <1>3, <1>4, <2>1 DEF PumpInv, KeyInv, FwdInv, SweepInv, TaskInv, OnePush, Pushing
  <2>3. RingInv'
    <3>1. AheadInv'
      BY <1>1, <1>2, <1>4, <2>1 DEF RingInv, AheadInv, Holding, PumpInv, KeyInv, FwdInv
    <3> QED BY <1>1, <1>4, <2>1, <3>1 DEF RingInv, Counted
  <2>4. NewestInv'
    BY <1>1, <1>2, <1>3, <1>4, <2>1
       DEF NewestInv, Forward, Newest, Pushing, Holding, PumpInv, KeyInv, TaskInv
  <2> QED BY <2>2, <2>3, <2>4
<1>5. CASE t = "sweep"
  <2>1. pump'["fwd"] = pump["fwd"]
    BY <1>1, <1>5, TasksDiffer DEF Others
  <2>2. PumpInv'
    BY <1>1, <1>2, <1>3, <1>5, <2>1 DEF PumpInv, KeyInv, FwdInv, SweepInv, TaskInv, OnePush, Pushing
  <2>3. RingInv'
    <3>1. AheadInv'
      BY <1>1, <1>2, <1>5, <2>1 DEF RingInv, AheadInv, Holding, PumpInv, KeyInv, FwdInv
    <3> QED BY <1>1, <1>5, <2>1, <3>1 DEF RingInv, Counted
  <2>4. NewestInv'
    BY <1>1, <1>2, <1>3, <1>5, <2>1
       DEF NewestInv, Forward, Newest, Pushing, Holding, PumpInv, KeyInv, TaskInv
  <2> QED BY <2>2, <2>3, <2>4
<1> QED BY <1>4, <1>5, TasksDiffer

\* A frame is pushed only under the claim it was rendered for: the claim check of
\* push_pump, without which an older line could follow a newer one.
LEMMA CommitPump ==
    ASSUME PushTypes, PumpInv, RingInv, NewestInv, NEW t \in Tasks, Commit(t)
    PROVE  PumpInv' /\ RingInv' /\ NewestInv'
<1>1. /\ UNCHANGED <<stash, gen, value, vgen, lastGen, backwards>> /\ Others(t)
      /\ sweep' # sweep => t = "sweep" /\ sweep' = "client" /\ pump'[t].pc = "out"
      /\ pump'[t].pc = "out" /\ t = "sweep" => sweep' = "client"
      /\ pump[t].pc = "commit" /\ Unlocked
      /\ \/ /\ lastGen = pump[t].gen /\ pump'[t].pc = "append"
            /\ pump'[t].gen = pump[t].gen /\ pump'[t].prev = pump[t].prev
            /\ pump'[t].line = pump[t].line
            /\ ring' = IF Len(ring) = RingCap THEN Tail(ring) ELSE ring
         \/ /\ lastGen # pump[t].gen /\ ring' = ring
            /\ pump'[t].pc = "out" /\ pump'[t].gen = 0 /\ pump'[t].prev = 0
  <2>1. PushPump(t)
    BY DEF PushPump
  <2>2. /\ UNCHANGED <<stash, gen, value, vgen>> /\ Others(t)
        /\ sweep' # sweep => t = "sweep" /\ sweep' = "client" /\ pump'[t].pc = "out"
        /\ pump'[t].pc = "out" /\ t = "sweep" => sweep' = "client"
    BY <2>1, PumpEffect DEF keyVars
  <2> QED BY <2>2, PumpEffect
<1>2. /\ {stash, gen, vgen, lastGen} \subseteq Nat
      /\ pump["fwd"].gen \in Nat /\ pump["fwd"].prev \in Nat /\ pump["fwd"].line \in Nat
      /\ pump["sweep"].gen \in Nat /\ pump["sweep"].prev \in Nat /\ pump["sweep"].line \in Nat
      /\ ring # <<>> => Last(ring).line \in Nat
  BY PumpNums, TasksDiffer
<1>3. ~Pushing("fwd") /\ ~Pushing("sweep") /\ pump["fwd"].pc # "count" /\ pump["sweep"].pc # "count"
  BY <1>1, TasksDiffer DEF Unlocked, Pushing
<1>4. ring' # <<>> => ring # <<>> /\ Last(ring') = Last(ring)
  <2>1. ring \in Seq(Entries) /\ RingCap \in Nat \ {0}
    BY PumpNums
  <2>2. Len(ring) = RingCap => Len(ring) > 0
    BY <2>1
  <2> QED BY <1>1, <2>1, <2>2, LastTail
<1>5. CASE t = "fwd"
  <2>1. pump'["sweep"] = pump["sweep"]
    BY <1>1, <1>5, TasksDiffer DEF Others
  <2>2. PumpInv'
    BY <1>1, <1>2, <1>3, <1>5, <2>1 DEF PumpInv, KeyInv, FwdInv, SweepInv, TaskInv, OnePush, Pushing
  <2>3. RingInv'
    <3>1. AheadInv'
      BY <1>1, <1>2, <1>4, <1>5, <2>1 DEF RingInv, AheadInv, Holding
    <3> QED BY <1>1, <1>3, <1>4, <1>5, <2>1, <3>1 DEF RingInv, Counted, Pushing
  <2>4. NewestInv'
    <3>1. CASE lastGen = pump[t].gen
      BY <1>1, <1>3, <1>5, <2>1, <3>1 DEF NewestInv, Forward, Newest, Pushing, Holding
    <3>2. CASE lastGen # pump[t].gen
      <4>1. (NewestInRing => NewestInRing') /\ ~(lastGen = gen /\ Newest("fwd"))
        BY <1>1, <1>5, <3>2 DEF NewestInRing, Newest
      <4> QED BY <1>1, <1>3, <1>5, <2>1, <3>2, <4>1
                  DEF NewestInv, Forward, Newest, Pushing, Holding
    <3> QED BY <3>1, <3>2
  <2> QED BY <2>2, <2>3, <2>4
<1>6. CASE t = "sweep"
  <2>1. pump'["fwd"] = pump["fwd"]
    BY <1>1, <1>6, TasksDiffer DEF Others
  <2>2. PumpInv'
    BY <1>1, <1>2, <1>3, <1>6, <2>1 DEF PumpInv, KeyInv, FwdInv, SweepInv, TaskInv, OnePush, Pushing
  <2>3. RingInv'
    <3>1. AheadInv' /\ Counted("fwd")' /\ Counted("sweep")'
      BY <1>1, <1>3, <1>6, <2>1 DEF AheadInv, Counted
    <3>2. ring' # <<>> => Last(ring').line <= stash
      BY <1>4 DEF RingInv
    <3>3. pump'["sweep"].pc = "append" /\ ring' # <<>> => Last(ring').line <= pump'["sweep"].line
      BY <1>1, <1>2, <1>4, <1>6 DEF RingInv, AheadInv
    <3> QED BY <1>1, <3>1, <3>2, <3>3 DEF RingInv
  <2>4. NewestInv'
    <3>1. CASE lastGen = pump[t].gen
      BY <1>1, <1>3, <1>6, <2>1, <3>1 DEF NewestInv, Forward, Newest, Pushing, Holding
    <3>2. CASE lastGen # pump[t].gen
      <4>1. (NewestInRing => NewestInRing') /\ ~(lastGen = gen /\ Newest("sweep"))
        BY <1>1, <1>6, <3>2 DEF NewestInRing, Newest
      <4> QED BY <1>1, <1>3, <1>6, <2>1, <3>2, <4>1
                  DEF NewestInv, Forward, Newest, Pushing, Holding
    <3> QED BY <3>1, <3>2
  <2> QED BY <2>2, <2>3, <2>4
<1> QED BY <1>5, <1>6, TasksDiffer

\* The frame added is at least as new as the ring's last.
LEMMA AppendPump ==
    ASSUME PushTypes, PumpInv, RingInv, NewestInv, NEW t \in Tasks, AppendFrame(t)
    PROVE  PumpInv' /\ RingInv' /\ NewestInv'
<1>1. /\ UNCHANGED <<stash, gen, value, vgen, lastGen, backwards, sweep>> /\ Others(t)
      /\ pump[t].pc = "append" /\ pump'[t].pc = "count" /\ pump'[t].gen = pump[t].gen
      /\ pump'[t].prev = pump[t].prev /\ pump'[t].line = pump[t].line
      /\ ring' = Append(ring, [line |-> pump[t].line, seq |-> total])
  <2>1. PushPump(t)
    BY DEF PushPump
  <2> QED BY <2>1, PumpEffect DEF keyVars
<1>2. /\ {stash, gen, vgen, lastGen} \subseteq Nat
      /\ pump["fwd"].gen \in Nat /\ pump["fwd"].prev \in Nat /\ pump["fwd"].line \in Nat
      /\ pump["sweep"].gen \in Nat /\ pump["sweep"].prev \in Nat /\ pump["sweep"].line \in Nat
  BY PumpNums, TasksDiffer
<1>3. ring' # <<>> /\ Last(ring').line = pump[t].line
  <2>1. ring \in Seq(Entries) /\ [line |-> pump[t].line, seq |-> total] \in Entries
    BY PumpNums DEF Entries
  <2> QED BY <1>1, <2>1, LastAppend
<1>4. Pushing(t) /\ Pushing(t)'
  BY <1>1 DEF Pushing
<1>5. TaskInv(t) /\ lastGen = pump[t].gen /\ pump[t].gen <= pump[t].line /\ pump[t].line <= stash
  BY <1>4, TasksDiffer DEF PumpInv, TaskInv
<1>6. lastGen = gen => NewestInRing'
  BY <1>1, <1>3, <1>5 DEF NewestInRing
<1>7. CASE t = "fwd"
  <2>1. pump'["sweep"] = pump["sweep"]
    BY <1>1, <1>7, TasksDiffer DEF Others
  <2>2. PumpInv' /\ ~Pushing("sweep")
    BY <1>1, <1>2, <1>7, <2>1 DEF PumpInv, KeyInv, FwdInv, SweepInv, TaskInv, OnePush, Pushing
  <2>3. RingInv'
    <3>1. AheadInv'
      <4>1. pump["fwd"].line = stash /\ stash = gen /\ pump["fwd"].gen = gen
        BY <1>1, <1>4, <1>7 DEF PumpInv, FwdInv
      <4>2. pump["sweep"].pc = "commit" => pump["sweep"].gen <= pump["sweep"].line
        BY DEF PumpInv, TaskInv
      <4> QED BY <1>1, <1>2, <1>3, <1>5, <1>7, <2>1, <4>1, <4>2 DEF AheadInv, Holding
    <3> QED BY <1>1, <1>3, <1>5, <1>7, <2>1, <2>2, <3>1 DEF RingInv, Counted, Pushing
  <2>4. NewestInv'
    BY <1>1, <1>6, <1>7, <2>1 DEF NewestInv, Forward, Holding
  <2> QED BY <2>2, <2>3, <2>4
<1>8. CASE t = "sweep"
  <2>1. pump'["fwd"] = pump["fwd"]
    BY <1>1, <1>8, TasksDiffer DEF Others
  <2>2. PumpInv' /\ ~Pushing("fwd")
    BY <1>1, <1>2, <1>8, <2>1 DEF PumpInv, KeyInv, FwdInv, SweepInv, TaskInv, OnePush, Pushing
  <2>3. RingInv'
    BY <1>1, <1>3, <1>5, <1>8, <2>1, <2>2 DEF RingInv, AheadInv, Counted, Pushing
  <2>4. NewestInv'
    BY <1>1, <1>6, <1>8, <2>1 DEF NewestInv, Forward, Holding
  <2> QED BY <2>2, <2>3, <2>4
<1> QED BY <1>7, <1>8, TasksDiffer

\* Once it is counted, the newest line is in the ring and the task may leave.
LEMMA CountPump ==
    ASSUME PushTypes, PumpInv, RingInv, NewestInv, NEW t \in Tasks, CountPush(t)
    PROVE  PumpInv' /\ RingInv' /\ NewestInv'
<1>1. /\ UNCHANGED <<stash, gen, value, vgen, lastGen, ring, backwards>> /\ Others(t)
      /\ sweep' # sweep => t = "sweep" /\ sweep' = "client" /\ pump'[t].pc = "out"
      /\ t = "sweep" => sweep' = "client"
      /\ pump[t].pc = "count" /\ pump'[t].pc = "out" /\ pump'[t].gen = 0 /\ pump'[t].prev = 0
  <2>1. PushPump(t)
    BY DEF PushPump
  <2>2. /\ UNCHANGED <<stash, gen, value, vgen>> /\ Others(t)
        /\ sweep' # sweep => t = "sweep" /\ sweep' = "client" /\ pump'[t].pc = "out"
        /\ pump'[t].pc = "out" /\ t = "sweep" => sweep' = "client"
    BY <2>1, PumpEffect DEF keyVars
  <2> QED BY <2>2, PumpEffect
<1>2. /\ {stash, gen, vgen, lastGen} \subseteq Nat
      /\ pump["fwd"].gen \in Nat /\ pump["fwd"].prev \in Nat /\ pump["fwd"].line \in Nat
      /\ pump["sweep"].gen \in Nat /\ pump["sweep"].prev \in Nat /\ pump["sweep"].line \in Nat
      /\ ring # <<>> => Last(ring).line \in Nat
  BY PumpNums, TasksDiffer
<1>3. Pushing(t)
  BY <1>1 DEF Pushing
<1>4. lastGen = pump[t].gen /\ pump[t].gen <= pump[t].line /\ ring # <<>>
      /\ Last(ring).line = pump[t].line
  BY <1>1, <1>3, TasksDiffer DEF PumpInv, TaskInv, RingInv, Counted
<1>5. lastGen = gen => NewestInRing'
  BY <1>1, <1>4 DEF NewestInRing
<1>6. CASE t = "fwd"
  <2>1. pump'["sweep"] = pump["sweep"]
    BY <1>1, <1>6, TasksDiffer DEF Others
  <2>2. PumpInv'
    BY <1>1, <1>2, <1>6, <2>1 DEF PumpInv, KeyInv, FwdInv, SweepInv, TaskInv, OnePush, Pushing
  <2>3. RingInv'
    <3>1. AheadInv'
      BY <1>1, <1>2, <1>6, <2>1 DEF RingInv, AheadInv, Holding
    <3> QED BY <1>1, <1>6, <2>1, <3>1 DEF RingInv, Counted
  <2>4. NewestInv'
    BY <1>1, <1>5, <1>6, <2>1 DEF NewestInv, Forward, Holding
  <2> QED BY <2>2, <2>3, <2>4
<1>7. CASE t = "sweep"
  <2>1. pump'["fwd"] = pump["fwd"]
    BY <1>1, <1>7, TasksDiffer DEF Others
  <2>2. PumpInv'
    BY <1>1, <1>2, <1>7, <2>1 DEF PumpInv, KeyInv, FwdInv, SweepInv, TaskInv, OnePush, Pushing
  <2>3. RingInv'
    BY <1>1, <1>7, <2>1 DEF RingInv, AheadInv, Counted
  <2>4. NewestInv'
    BY <1>1, <1>5, <1>7, <2>1 DEF NewestInv, Forward, Holding
  <2> QED BY <2>2, <2>3, <2>4
<1> QED BY <1>6, <1>7, TasksDiffer

\* The broadcaster enters push_pump with the generation of the moment.
LEMMA DetectPump ==
    ASSUME PushTypes, PumpInv, RingInv, NewestInv, Detect
    PROVE  PumpInv' /\ RingInv' /\ NewestInv'
<1>1. /\ UNCHANGED <<stash, gen, value, vgen, lastGen, ring, backwards>>
      /\ sweep = "idle" /\ sweep' = "pump" /\ pump' = EnterPump("sweep", gen)
  BY DEF Detect, keyVars, ringVars
<1>2. /\ pump'["sweep"].pc = "claim" /\ pump'["sweep"].gen = gen
      /\ pump'["sweep"].prev = pump["sweep"].prev /\ pump'["fwd"] = pump["fwd"]
  <2>1. gen \in Nat /\ pump \in [Tasks -> PumpType]
    BY DEF PushTypes
  <2>2. /\ pump'["sweep"].pc = "claim" /\ pump'["sweep"].gen = gen
        /\ pump'["sweep"].prev = pump["sweep"].prev /\ Others("sweep")
    BY <1>1, <2>1, TasksDiffer, PumpMoves
  <2> QED BY <2>2, TasksDiffer DEF Others
<1>3. pump["sweep"].pc = "out"
  BY <1>1 DEF PumpInv, SweepInv
<1>4. gen \in Nat
  BY PumpNums
<1>5. PumpInv'
  BY <1>1, <1>2, <1>4 DEF PumpInv, KeyInv, FwdInv, SweepInv, TaskInv, OnePush, Pushing
<1>6. RingInv'
  BY <1>1, <1>2, <1>3 DEF RingInv, AheadInv, Counted
<1>7. NewestInv'
  <2>1. (NewestInRing => NewestInRing') /\ ~Newest("sweep")
    BY <1>1, <1>3 DEF NewestInRing, Newest, Pushing, Holding
  <2> QED BY <1>1, <1>2, <2>1 DEF NewestInv, Forward, Newest, Pushing, Holding
<1> QED BY <1>5, <1>6, <1>7

\* The other steps do not touch the ring, the key or push_pump.
LEMMA ElsePump ==
    ASSUME PumpInv, RingInv, NewestInv, UNCHANGED <<keyVars, ringVars, pump>>,
           sweep' = sweep \/ sweep # "pump"
    PROVE  PumpInv' /\ RingInv' /\ NewestInv'
<1>1. UNCHANGED <<stash, gen, value, vgen, lastGen, ring, backwards, pump>>
  BY DEF keyVars, ringVars
<1>2. PumpInv'
  BY <1>1 DEF PumpInv, KeyInv, FwdInv, SweepInv, TaskInv, OnePush, Pushing
<1>3. RingInv'
  BY <1>1 DEF RingInv, AheadInv, Counted, Holding
<1>4. NewestInv'
  BY <1>1 DEF NewestInv, NewestInRing, Forward, Newest, Pushing, Holding
<1> QED BY <1>2, <1>3, <1>4

\* What push_pump relies on is kept by every step.
LEMMA PumpNext ==
    ASSUME PushTypes, PumpInv, RingInv, NewestInv, [PushNext]_pushVars
    PROVE  PumpInv' /\ RingInv' /\ NewestInv'
<1>1. CASE KeysNext
  BY <1>1, KeysPump
<1>2. ASSUME NEW t \in Tasks, PushPump(t) PROVE PumpInv' /\ RingInv' /\ NewestInv'
  BY <1>2, ClaimPump, RenderPump, RevokePump, CommitPump, AppendPump, CountPump DEF PushPump
<1>3. CASE Detect
  BY <1>3, DetectPump
<1>4. CASE SweepStep /\ ~Detect
  <2>1. UNCHANGED <<keyVars, ringVars, pump>> /\ sweep # "pump"
    BY <1>4
       DEF SweepStep, NoClient, Reap, Released, DrainState, DrainTotal, DrainEntry, SendOk,
           SendTimeout, SendFatal
  <2> QED BY <2>1, ElsePump
<1>5. CASE Acquire \/ Publish \/ RequestRelease \/ UNCHANGED pushVars
  <2>1. UNCHANGED <<keyVars, ringVars, pump, sweep>>
    BY <1>5 DEF Acquire, Publish, RequestRelease, pushVars
  <2> QED BY <2>1, ElsePump
<1> QED BY <1>1, <1>2, <1>3, <1>4, <1>5 DEF PushNext, KeysNext

-----------------------------------------------------------------------------
\* No value has been seen at the start.
LEMMA InitSeen == PushInit => SeenInv
BY DEF PushInit, SeenInv, FreeSlot

\* Detect before render: the generation recorded as seen was read before the dirty bit
\* was set, and the render that clears the bit reads a value at least as new.
LEMMA SeenNext ==
    ASSUME PushTypes, KeyInv, SeenInv, sweep = "entries" => drain.idx \in Nat, [PushNext]_pushVars
    PROVE  SeenInv'
<1>0. slot \in SlotType /\ vgen \in Nat /\ slot.seen_gen \in Nat /\ PushTypes'
  <2>1. slot \in SlotType /\ vgen \in Nat
    BY DEF PushTypes
  <2> QED BY <2>1, SlotTypes, TypesNext
<1>1. CASE KeysNext
  <2>1. UNCHANGED <<slot, sweep, drain, building>> /\ vgen' >= vgen
    BY <1>0, <1>1 DEF KeysNext, StashLine, TouchLine, StashValue, TouchValue
  <2>2. vgen' \in Nat
    BY <1>0 DEF PushTypes
  <2>3. slot'.seen_gen <= vgen'
    BY <1>0, <2>1, <2>2 DEF SeenInv
  <2> QED BY <2>1, <2>3 DEF SeenInv
<1>2. ASSUME NEW t \in Tasks, PushPump(t) PROVE SeenInv'
  <2>1. UNCHANGED <<vgen, drain, building>>
    BY <1>2, PumpEffect DEF keyVars
  <2>2. sweep' # sweep => sweep' = "client"
    BY <1>2, PumpEffect
  <2>3. CASE Commit(t)
    <3>1. Only(slot', slot, {"raced"}) \/ slot' = slot
      BY <2>3, PumpEffect
    <3>2. /\ slot'.seen_gen = slot.seen_gen /\ slot'.in_use = slot.in_use
          /\ slot'.dirty = slot.dirty
          /\ slot'.outbound = slot.outbound /\ slot'.left = slot.left
      BY <3>1 DEF Only, SlotFields
    <3>3. \A g \in Nat : Holds(slot, g) => Holds(slot', g)
      BY <3>2, HoldsSame
    <3> QED BY <1>0, <2>1, <2>2, <3>2, <3>3 DEF SeenInv
  <2>4. CASE ~Commit(t)
    <3>1. slot' = slot
      BY <1>2, <2>4, PumpEffect DEF PushPump
    <3> QED BY <2>1, <2>2, <3>1 DEF SeenInv
  <2> QED BY <2>3, <2>4
<1>3. CASE Detect
  <2>1. /\ Only(slot', slot, {"seen_gen", "dirty"})
        /\ slot' # slot => slot'.seen_gen = vgen /\ slot'.dirty = TRUE
    BY <1>3, DetectEffect
  <2>2. UNCHANGED <<vgen, building>> /\ sweep' = "pump" /\ slot'.in_use = slot.in_use
    BY <1>3, <2>1 DEF Detect, keyVars, Only, SlotFields
  <2>3. building => slot' = slot
    BY <1>3 DEF Detect, SeenInv
  <2> QED BY <1>0, <2>1, <2>2, <2>3 DEF SeenInv
<1>4. CASE NoClient
  BY <1>4 DEF NoClient, SeenInv, keyVars
<1>5. CASE Reap \/ SendFatal
  <2>1. Only(slot', FreeSlot, {"pending_release"}) /\ sweep' = "release"
    BY <1>5, ReleaseEffect DEF Reap, SendFatal
  <2>2. slot'.in_use = FALSE /\ slot'.seen_gen = 0
    BY <2>1 DEF Only, SlotFields, FreeSlot
  <2>3. UNCHANGED <<vgen, building>> /\ slot.in_use
    BY <1>5 DEF Reap, SendFatal, keyVars, SeenInv
  <2> QED BY <1>0, <2>1, <2>2, <2>3 DEF SeenInv
<1>6. CASE Released
  <2>1. Only(slot', slot, {"pending_release"}) /\ sweep' = "idle" /\ UNCHANGED <<vgen, building>>
    BY <1>6, SmallEffects DEF Released, keyVars
  <2>2. /\ slot'.seen_gen = slot.seen_gen /\ slot'.in_use = slot.in_use /\ slot'.dirty = slot.dirty
        /\ slot'.outbound = slot.outbound /\ slot'.left = slot.left
    BY <2>1 DEF Only, SlotFields
  <2>3. \A g \in Nat : Holds(slot, g) => Holds(slot', g)
    BY <2>2, HoldsSame
  <2> QED BY <1>0, <2>1, <2>2, <2>3 DEF SeenInv
<1>7. CASE DrainState
  <2>1. /\ Only(slot', slot, {"dirty", "outbound", "left", "raced"}) /\ sweep' = "total"
        /\ \/ slot'.dirty = slot.dirty /\ slot'.outbound = slot.outbound /\ slot'.left = slot.left
           \/ Holds(slot', value)
    BY <1>7, DrainStateEffect
  <2>2. UNCHANGED <<vgen, building>> /\ slot.in_use
    BY <1>7 DEF DrainState, keyVars
  <2>3. slot' \in SlotType /\ slot'.seen_gen = slot.seen_gen /\ slot'.in_use = slot.in_use
    BY <2>1 DEF Only, SlotFields
  <2>4. ~slot'.dirty => Holds(slot', slot.seen_gen)
    <3>1. CASE slot'.dirty = slot.dirty /\ slot'.outbound = slot.outbound /\ slot'.left = slot.left
      BY <2>2, <3>1, HoldsSame DEF SeenInv
    <3>2. CASE Holds(slot', value)
      <4>1. value \in Nat /\ slot.seen_gen <= value
        BY <1>0 DEF KeyInv, SeenInv
      <4> QED BY <1>0, <2>3, <3>2, <4>1, HoldsLess
    <3> QED BY <2>1, <3>1, <3>2
  <2> QED BY <1>0, <2>1, <2>2, <2>3, <2>4 DEF SeenInv
<1>8. CASE DrainTotal
  <2>1. /\ Only(slot', slot, {"outbound", "drop_marker_pending", "dropped", "cursor"})
        /\ \A g \in Nat : Holds(slot, g) => Holds(slot', g)
        /\ sweep' \in {"entries", "idle", "flush"}
        /\ sweep' = "flush" => slot'.outbound # <<>> /\ drain' = NoDrain
    BY <1>8, DrainTotalEffect
  <2>2. UNCHANGED <<vgen, building>> /\ sweep = "total"
    BY <1>8 DEF DrainTotal, keyVars
  <2>3. slot'.seen_gen = slot.seen_gen /\ slot'.in_use = slot.in_use /\ slot'.dirty = slot.dirty
    BY <2>1 DEF Only, SlotFields
  <2> QED BY <1>0, <2>1, <2>2, <2>3 DEF SeenInv
<1>9. CASE DrainEntry
  <2>0. sweep = "entries"
    BY <1>9 DEF DrainEntry
  <2>1. /\ Only(slot', slot,
                {"outbound", "cursor", "got", "last", "dropped", "drop_marker_pending"})
        /\ \A g \in Nat : Holds(slot, g) => Holds(slot', g)
        /\ sweep' \in {"entries", "idle", "flush"}
        /\ sweep' = "flush" => slot'.outbound # <<>> /\ drain' = NoDrain
    BY <1>9, <2>0, DrainEntryEffect
  <2>2. UNCHANGED <<vgen, building>>
    BY <1>9 DEF DrainEntry, keyVars
  <2>3. slot'.seen_gen = slot.seen_gen /\ slot'.in_use = slot.in_use /\ slot'.dirty = slot.dirty
    BY <2>1 DEF Only, SlotFields
  <2> QED BY <1>0, <2>0, <2>1, <2>2, <2>3 DEF SeenInv
<1>10. CASE SendOk \/ SendTimeout
  <2>1. /\ Only(slot', slot, {"outbound", "send_fail_count", "left"})
        /\ \A g \in Nat : Holds(slot, g) => Holds(slot', g)
        /\ \/ sweep' = "idle"
           \/ sweep' = "flush" /\ slot'.outbound # <<>> /\ drain' = NoDrain
    BY <1>10, SendEffect
  <2>2. UNCHANGED <<vgen, building>> /\ sweep = "flush"
    BY <1>10 DEF SendOk, SendTimeout, keyVars
  <2>3. slot'.seen_gen = slot.seen_gen /\ slot'.in_use = slot.in_use /\ slot'.dirty = slot.dirty
    BY <2>1 DEF Only, SlotFields
  <2> QED BY <1>0, <2>1, <2>2, <2>3 DEF SeenInv
<1>11. CASE Acquire
  <2>1. Only(slot', FreeSlot, {"dirty", "cursor", "start"}) /\ slot'.dirty = TRUE
    BY <1>11, AcquireEffect
  <2>2. slot'.in_use = FALSE /\ slot'.seen_gen = 0 /\ UNCHANGED <<vgen, sweep, drain>>
        /\ ~slot.in_use
    BY <1>11, <2>1 DEF Only, SlotFields, FreeSlot, Acquire, keyVars
  <2> QED BY <1>0, <2>1, <2>2 DEF SeenInv
<1>12. CASE Publish
  <2>1. Only(slot', slot, {"in_use"}) /\ slot'.in_use = TRUE /\ building /\ building' = FALSE
        /\ UNCHANGED <<vgen, sweep, drain>>
    BY <1>12, SmallEffects DEF Publish, keyVars
  <2>2. slot'.seen_gen = slot.seen_gen /\ slot'.dirty = slot.dirty
        /\ slot'.outbound = slot.outbound
    BY <2>1 DEF Only, SlotFields
  <2> QED BY <1>0, <2>1, <2>2 DEF SeenInv
<1>13. CASE RequestRelease
  <2>1. Only(slot', slot, {"pending_release"}) /\ UNCHANGED <<vgen, sweep, drain, building>>
    BY <1>13, SmallEffects DEF RequestRelease, keyVars
  <2>2. /\ slot'.seen_gen = slot.seen_gen /\ slot'.in_use = slot.in_use /\ slot'.dirty = slot.dirty
        /\ slot'.outbound = slot.outbound /\ slot'.left = slot.left
    BY <2>1 DEF Only, SlotFields
  <2>3. \A g \in Nat : Holds(slot, g) => Holds(slot', g)
    BY <2>2, HoldsSame
  <2> QED BY <1>0, <2>1, <2>2, <2>3 DEF SeenInv
<1>14. CASE UNCHANGED pushVars
  BY <1>14 DEF pushVars, keyVars, SeenInv
<1> QED BY <1>1, <1>2, <1>3, <1>4, <1>5, <1>6, <1>7, <1>8, <1>9, <1>10, <1>11, <1>12, <1>13, <1>14
         DEF PushNext, KeysNext, SweepStep

-----------------------------------------------------------------------------
\* The pushes missed are finitely many, and none before the client's start.
LEMMA MissedNat ==
    ASSUME NEW s \in SlotType, NEW n \in Int
    PROVE  /\ IsFiniteSet((s.start .. (n - 1)) \ s.got) /\ MissedTo(s, n) \in Nat
           /\ n <= s.start => MissedTo(s, n) = 0
<1>1. s.start \in Int /\ n - 1 \in Int
  BY SlotTypes
<1>2. IsFiniteSet(s.start .. (n - 1))
  BY <1>1, FS_Interval, Zenon
<1>3. IsFiniteSet((s.start .. (n - 1)) \ s.got)
  BY <1>2, FS_Subset
<1>4. MissedTo(s, n) \in Nat
  BY <1>3, FS_CardinalityType DEF MissedTo
<1>5. ASSUME n <= s.start PROVE MissedTo(s, n) = 0
  <2>1. (s.start .. (n - 1)) \ s.got = {}
    BY <1>1, <1>5
  <2> QED BY <2>1, FS_EmptySet DEF MissedTo
<1> QED BY <1>3, <1>4, <1>5

\* They depend on start and got only.
LEMMA MissedSame ==
    ASSUME NEW s, NEW r, r.start = s.start, r.got = s.got, NEW n
    PROVE  MissedTo(r, n) = MissedTo(s, n)
BY DEF MissedTo

\* A cursor that moves forward by k misses no fewer pushes, and at most k more.
LEMMA MissedMono ==
    ASSUME NEW s \in SlotType, NEW n \in Int, NEW m \in Int, n <= m
    PROVE  MissedTo(s, n) <= MissedTo(s, m) /\ MissedTo(s, m) <= MissedTo(s, n) + (m - n)
<1> DEFINE N == (s.start .. (n - 1)) \ s.got
           M == (s.start .. (m - 1)) \ s.got
           I == n .. (m - 1)
<1>1. s.start \in Int
  BY SlotTypes
<1>2. IsFiniteSet(N) /\ IsFiniteSet(M)
  BY MissedNat
<1>3. IsFiniteSet(I) /\ Cardinality(I) = m - n
  <2>1. m - 1 \in Int
    OBVIOUS
  <2>2. IsFiniteSet(I) /\ Cardinality(I) = IF n > m - 1 THEN 0 ELSE ((m - 1) - n) + 1
    BY <2>1, FS_Interval, Zenon
  <2> HIDE DEF I
  <2> QED BY <2>2
<1>4. N \subseteq M /\ M \subseteq N \cup I
  BY <1>1
<1> HIDE DEF N, M, I
<1>5. Cardinality(N) <= Cardinality(M)
  BY <1>2, <1>4, FS_Subset
<1>6. IsFiniteSet(N \cup I)
      /\ Cardinality(N \cup I) = Cardinality(N) + Cardinality(I) - Cardinality(N \cap I)
  BY <1>2, <1>3, FS_Union
<1>7. Cardinality(N \cap I) \in Nat
  <2>1. IsFiniteSet(N \cap I)
    BY <1>2, FS_Subset
  <2> QED BY <2>1, FS_CardinalityType
<1>8. Cardinality(M) <= Cardinality(N \cup I)
  BY <1>4, <1>6, FS_Subset
<1>9. Cardinality(N) \in Nat /\ Cardinality(M) \in Nat
  BY <1>2, FS_CardinalityType
<1>10. Cardinality(M) <= Cardinality(N) + (m - n)
  BY <1>3, <1>6, <1>7, <1>8, <1>9
<1> QED BY <1>5, <1>10 DEF MissedTo, N, M

\* A cursor that moves over a push that was queued misses no more.
LEMMA MissedGot ==
    ASSUME NEW s \in SlotType, NEW r \in SlotType, NEW e \in Int,
           r.start = s.start, r.got = s.got \cup {e}
    PROVE  MissedTo(r, e + 1) <= MissedTo(s, e)
<1>1. s.start \in Int
  BY SlotTypes
<1>2. (r.start .. ((e + 1) - 1)) \ r.got \subseteq (s.start .. (e - 1)) \ s.got
  BY <1>1
<1> QED BY <1>2, MissedNat, FS_Subset DEF MissedTo

\* The numbers the accounts are about.
LEMMA BaseInt ==
    ASSUME PushTypes
    PROVE  /\ total \in Nat /\ Len(ring) \in Nat /\ Base \in Int /\ RingCap \in Nat \ {0}
           /\ drain.count \in Nat /\ drain.oldest \in Int /\ drain.idx \in Int
           /\ Counting \in BOOLEAN /\ Adding \in BOOLEAN
           /\ Base = IF Counting THEN (total + 1) - Len(ring) ELSE total - Len(ring)
           /\ Unlocked <=> ~Adding /\ ~Counting
<1>1. total \in Nat /\ Len(ring) \in Nat /\ RingCap \in Nat \ {0} /\ drain \in DrainType
  BY DataPushAssumption DEF PushTypes
<1>2. Counting \in BOOLEAN /\ Adding \in BOOLEAN
  BY DEF Counting, Adding
<1>3. Unlocked <=> ~Adding /\ ~Counting
  BY DEF Unlocked, Adding, Counting
<1>4. Base = IF Counting THEN (total + 1) - Len(ring) ELSE total - Len(ring)
  BY <1>1 DEF Base
<1> QED BY <1>1, <1>2, <1>3, <1>4 DEF DrainType

(* What a step does to the ring: nothing, or one of the three stores of a  *)
(* push.                                                                   *)
RingSame == ring' = ring /\ (Adding' <=> Adding) /\ (Counting' <=> Counting) /\ Base' = Base

\* A push, as its ring sees it: it evicts the oldest entry of a full ring,
PushBegins ==
    /\ ~Adding /\ ~Counting /\ Adding' /\ ~Counting'
    /\ \/ Len(ring) # RingCap /\ ring' = ring /\ Base' = Base
       \/ Len(ring) = RingCap /\ ring' = Tail(ring) /\ Base' = Base + 1

\* adds its own,
PushAdds ==
    /\ Adding /\ ~Counting /\ ~Adding' /\ Counting' /\ Base' = Base
    /\ \E e \in Entries : e.seq = total /\ ring' = Append(ring, e)

\* and counts it, which leaves the number of the first entry as it was.
PushCounts == ~Adding /\ Counting /\ ~Adding' /\ ~Counting' /\ Base' = Base /\ ring' = ring

\* Another task stays in the part of push_pump it was in.
LEMMA OthersPCs ==
    ASSUME NEW t \in Tasks, Others(t)
    PROVE  /\ Adding => pump[t].pc = "append" \/ Adding'
           /\ Adding' => pump'[t].pc = "append" \/ Adding
           /\ Counting => pump[t].pc = "count" \/ Counting'
           /\ Counting' => pump'[t].pc = "count" \/ Counting
           /\ pump'[t].pc = "append" => Adding'
           /\ pump'[t].pc = "count" => Counting'
           /\ pump[t].pc = "append" => Adding
           /\ pump[t].pc = "count" => Counting
BY DEF Others, Adding, Counting

\* With one push at a time, the task that pushes is the one the ring is waiting for.
LEMMA OnlyOne ==
    ASSUME PumpInv, NEW t \in Tasks, Others(t), Pushing(t)
    PROVE  /\ pump[t].pc = "append" => ~Counting
           /\ pump[t].pc = "count" => ~Adding
           /\ ~Pushing(t)' => ~Adding' /\ ~Counting'
           /\ pump'[t].pc = "count" => ~Adding'
<1>1. \A u \in Tasks : u # t => ~Pushing(u) /\ pump'[u] = pump[u]
  BY TasksDiffer DEF PumpInv, OnePush, Others
<1> QED BY <1>1 DEF Pushing, Adding, Counting

\* A step of push_pump leaves the ring alone or is one of the three steps of a push.
LEMMA RingStep ==
    ASSUME PushTypes, PushTypes', PumpInv, NEW t \in Tasks, PushPump(t)
    PROVE  /\ UNCHANGED drain
           /\ \/ /\ RingSame /\ UNCHANGED <<total, slot>>
              \/ /\ PushBegins /\ UNCHANGED total /\ sweep' = sweep /\ Only(slot', slot, {"raced"})
                 /\ slot'.raced = (IF Draining THEN slot.raced + 1 ELSE slot.raced)
              \/ PushAdds /\ UNCHANGED <<total, slot, sweep>>
              \/ PushCounts /\ total' = total + 1 /\ UNCHANGED slot
           /\ sweep' # sweep => sweep = "pump" /\ sweep' = "client"
<1>1. UNCHANGED drain /\ Others(t)
      /\ (sweep' # sweep => t = "sweep" /\ sweep' = "client" /\ pump'[t].pc = "out")
  BY PumpEffect
<1>2. sweep' # sweep => sweep = "pump" /\ sweep' = "client"
  <2>1. pump[t].pc # "out"
    BY PumpEffect DEF PushPump
  <2> QED BY <1>1, <2>1 DEF PumpInv, SweepInv
<1>3. /\ total \in Nat /\ Len(ring) \in Nat
      /\ Base = IF Counting THEN (total + 1) - Len(ring) ELSE total - Len(ring)
      /\ Base' = IF Counting' THEN (total' + 1) - Len(ring') ELSE total' - Len(ring')
      /\ Unlocked <=> ~Adding /\ ~Counting
  <2>1. total' \in Nat /\ Len(ring') \in Nat
    BY DEF PushTypes
  <2>2. Base' = IF Counting' THEN (total' + 1) - Len(ring') ELSE total' - Len(ring')
    BY <2>1 DEF Base
  <2> QED BY <2>2, BaseInt
<1>4. CASE Claim(t) \/ Render(t) \/ Revoke(t) \/ (Commit(t) /\ lastGen # pump[t].gen)
  <2>1. /\ UNCHANGED <<ring, total, slot>>
        /\ pump[t].pc # "append" /\ pump[t].pc # "count" /\ pump'[t].pc # "append"
        /\ pump'[t].pc # "count"
    BY <1>4, PumpEffect DEF ringVars
  <2>2. (Adding' <=> Adding) /\ (Counting' <=> Counting)
    BY <1>1, <2>1, OthersPCs
  <2>3. Base' = Base
    BY <1>3, <2>1, <2>2
  <2> QED BY <1>1, <1>2, <2>1, <2>2, <2>3 DEF RingSame
<1>5. CASE Commit(t) /\ lastGen = pump[t].gen
  <2>1. /\ pump[t].pc = "commit" /\ Unlocked /\ UNCHANGED total /\ pump'[t].pc = "append"
        /\ ring' = IF Len(ring) = RingCap THEN Tail(ring) ELSE ring
        /\ Only(slot', slot, {"raced"}) /\ sweep' = sweep
        /\ slot'.raced = (IF Draining THEN slot.raced + 1 ELSE slot.raced)
    BY <1>5, PumpEffect
  <2>2. ~Adding /\ ~Counting /\ Adding' /\ ~Counting'
    BY <1>1, <1>3, <2>1, OthersPCs
  <2>3. PushBegins
    <3>1. CASE Len(ring) = RingCap
      <4>1. ring \in Seq(Entries) /\ RingCap \in Nat \ {0}
        BY PumpNums
      <4>2. ring' = Tail(ring) /\ Len(ring') = Len(ring) - 1
        BY <2>1, <3>1, <4>1
      <4>3. Base' = Base + 1
        BY <1>3, <2>1, <2>2, <4>2
      <4> QED BY <2>2, <3>1, <4>2, <4>3 DEF PushBegins
    <3>2. CASE Len(ring) # RingCap
      BY <1>3, <2>1, <2>2, <3>2 DEF PushBegins
    <3> QED BY <3>1, <3>2
  <2> QED BY <1>1, <1>2, <2>1, <2>3
<1>6. CASE AppendFrame(t)
  <2>1. /\ pump[t].pc = "append" /\ UNCHANGED <<total, sweep, slot>> /\ pump'[t].pc = "count"
        /\ ring' = Append(ring, [line |-> pump[t].line, seq |-> total])
    BY <1>6, PumpEffect
  <2>2. Adding /\ ~Counting /\ ~Adding' /\ Counting'
    BY <1>1, <2>1, OthersPCs, OnlyOne DEF Pushing
  <2>3. ring \in Seq(Entries) /\ [line |-> pump[t].line, seq |-> total] \in Entries
    BY PumpNums DEF Entries
  <2>4. Len(ring') = Len(ring) + 1
    BY <2>1, <2>3
  <2>5. Base' = Base
    BY <1>3, <2>1, <2>2, <2>4
  <2>6. PushAdds
    BY <2>1, <2>2, <2>3, <2>5 DEF PushAdds
  <2> QED BY <1>1, <2>1, <2>6
<1>7. CASE CountPush(t)
  <2>1. pump[t].pc = "count" /\ UNCHANGED <<ring, slot>> /\ total' = total + 1
        /\ pump'[t].pc = "out"
    BY <1>7, PumpEffect
  <2>2. ~Adding /\ Counting /\ ~Adding' /\ ~Counting'
    BY <1>1, <2>1, OthersPCs, OnlyOne DEF Pushing
  <2>3. Base' = Base
    BY <1>3, <2>1, <2>2
  <2> QED BY <1>1, <1>2, <2>1, <2>2, <2>3 DEF PushCounts
<1> QED BY <1>4, <1>5, <1>6, <1>7 DEF PushPump

\* The ring is the same while nothing of it is stored.
LEMMA RingKept ==
    ASSUME PushTypes, UNCHANGED <<ring, total, pump>> PROVE RingSame
BY DEF RingSame, Adding, Counting, Base

\* The ring's entries stay numbered one by one, and a drain never finds fewer than it
\* counted but for the one a push under way has evicted.
LEMMA SeqPush ==
    ASSUME PushTypes, SeqInv, UNCHANGED drain, sweep' # sweep => ~Draining',
           RingSame \/ PushBegins \/ PushAdds \/ PushCounts
    PROVE  SeqInv'
<1>1. /\ total \in Nat /\ Len(ring) \in Nat /\ Base \in Int /\ RingCap \in Nat \ {0}
      /\ drain.count \in Nat /\ ring \in Seq(Entries)
      /\ Base = IF Counting THEN (total + 1) - Len(ring) ELSE total - Len(ring)
  BY BaseInt DEF PushTypes
<1>2. Draining' => Draining
  BY DEF Draining
<1>3. CASE RingSame \/ PushCounts
  BY <1>1, <1>2, <1>3 DEF SeqInv, RingSame, PushCounts
<1>4. CASE PushBegins /\ Len(ring) # RingCap
  BY <1>1, <1>2, <1>4 DEF SeqInv, PushBegins
<1>5. CASE PushBegins /\ Len(ring) = RingCap
  <2>1. ring' = Tail(ring) /\ Base' = Base + 1 /\ ~Adding /\ Adding'
    BY <1>5 DEF PushBegins
  <2>2. Len(ring') = Len(ring) - 1 /\ \A i \in 1 .. Len(ring') : i + 1 \in 1 .. Len(ring)
        /\ ring'[i] = ring[i + 1]
    BY <1>1, <1>5, <2>1
  <2>3. \A i \in 1 .. Len(ring') : ring'[i].seq = Base' + (i - 1)
    <3>1. SUFFICES ASSUME NEW i \in 1 .. Len(ring') PROVE ring'[i].seq = Base' + (i - 1)
      OBVIOUS
    <3>2. i + 1 \in 1 .. Len(ring) /\ ring'[i] = ring[i + 1]
      BY <2>2
    <3>3. ring[i + 1].seq = Base + ((i + 1) - 1)
      BY <3>2 DEF SeqInv
    <3>4. i \in Int /\ Base \in Int
      BY <1>1, <3>2
    <3>5. Base + ((i + 1) - 1) = (Base + 1) + (i - 1)
      BY <3>4
    <3> QED BY <2>1, <3>2, <3>3, <3>5
  <2>4. Len(ring') <= RingCap /\ Len(ring') < RingCap
    BY <1>1, <1>5, <2>2
  <2>5. Draining' => Len(ring') >= drain'.count - 1
    BY <1>1, <1>2, <2>1, <2>2 DEF SeqInv
  <2> QED BY <2>1, <2>3, <2>4, <2>5 DEF SeqInv
<1>6. CASE PushAdds
  <2>1. PICK e \in Entries : e.seq = total /\ ring' = Append(ring, e)
    BY <1>6 DEF PushAdds
  <2>2. Adding /\ ~Counting /\ ~Adding' /\ Counting' /\ Base' = Base
    BY <1>6 DEF PushAdds
  <2>3. /\ Len(ring') = Len(ring) + 1 /\ ring'[Len(ring) + 1] = e
        /\ \A i \in 1 .. Len(ring) : ring'[i] = ring[i]
    BY <1>1, <2>1
  <2>4. Base = total - Len(ring)
    BY <1>1, <2>2
  <2>5. \A i \in 1 .. Len(ring') : ring'[i].seq = Base' + (i - 1)
    <3>1. SUFFICES ASSUME NEW i \in 1 .. Len(ring') PROVE ring'[i].seq = Base' + (i - 1)
      OBVIOUS
    <3>2. CASE i \in 1 .. Len(ring)
      BY <2>2, <2>3, <3>2 DEF SeqInv
    <3>3. CASE i = Len(ring) + 1
      BY <1>1, <2>1, <2>2, <2>3, <2>4, <3>3
    <3> QED BY <1>1, <2>3, <3>2, <3>3
  <2>6. Len(ring) < RingCap /\ (Draining' => Len(ring) >= drain.count - 1)
    BY <1>2, <2>2 DEF SeqInv
  <2> QED BY <1>1, <2>2, <2>3, <2>5, <2>6 DEF SeqInv
<1> QED BY <1>3, <1>4, <1>5, <1>6

-----------------------------------------------------------------------------
\* The slips are integers.
SlipInt == \A d \in Slips : d \in Int

\* The slips are integers: Shift both ways, and one less while a push is under way.
LEMMA SlipTypes ==
    ASSUME PushTypes
    PROVE  /\ Shift \in Int /\ SlipInt /\ Shift \in Slips /\ 0 - Shift \in Slips
           /\ Slips =
                IF Unlocked THEN {Shift, 0 - Shift} ELSE {Shift, 0 - Shift, Shift - 1, 1 - Shift}
<1>1. Shift \in Int
  BY BaseInt DEF Shift
<1> QED BY <1>1 DEF Slips, SlipInt

\* The numbers of a client's account.
LEMMA SlotInts ==
    ASSUME NEW s \in SlotType
    PROVE  /\ s.cursor \in Int /\ s.dropped \in Int /\ s.last \in Int /\ s.raced \in Nat
           /\ s.start \in Int
           /\ \A n \in Int : MissedTo(s, n) \in Nat
BY SlotTypes, MissedNat

(* The accounts only look at these fields.                                 *)
SameAccount(r, s) ==
    /\ r.start = s.start /\ r.got = s.got /\ r.cursor = s.cursor
    /\ r.dropped = s.dropped /\ r.last = s.last /\ r.raced = s.raced

\* The bounds depend on the account only.
LEMMA AccountSame ==
    ASSUME NEW s, NEW r, SameAccount(r, s)
    PROVE  /\ Settled(r) <=> Settled(s)
           /\ \A d : Within(r, d) <=> Within(s, d)
           /\ \A e : Reading(r, e) <=> Reading(s, e)
<1>1. \A n : MissedTo(r, n) = MissedTo(s, n)
  BY MissedSame DEF SameAccount
<1> QED BY <1>1 DEF SameAccount, Settled, Within, Reading

\* A step that touches neither the ring nor the account keeps the bounds.
LEMMA CountSame ==
    ASSUME CountInv, SameAccount(slot', slot), UNCHANGED drain, Base' = Base, total' = total,
           Unlocked' <=> Unlocked, sweep' = sweep \/ (~Draining /\ ~Draining')
    PROVE  CountInv'
<1>1. /\ Settled(slot)' <=> Settled(slot)
      /\ \A d : Within(slot', d) <=> Within(slot, d)
      /\ \A e : Reading(slot', e) <=> Reading(slot, e)
  BY AccountSame
<1>2. Slips' = Slips
  BY DEF Slips, Shift
<1>3. slot'.cursor = slot.cursor
  BY DEF SameAccount
<1>4. CASE sweep' = sweep
  <2>1. Draining' <=> Draining
    BY <1>4 DEF Draining
  <2> QED BY <1>1, <1>2, <1>3, <1>4, <2>1 DEF CountInv
<1>5. CASE ~Draining /\ ~Draining'
  BY <1>1, <1>5 DEF CountInv, Draining
<1> QED BY <1>4, <1>5

(* A push that begins while the client is drained pays for itself.         *)
LEMMA CountBegins ==
    ASSUME PushTypes, PushTypes', CountInv, PushBegins, UNCHANGED <<drain, total, sweep>>,
           Only(slot', slot, {"raced"}),
           slot'.raced = (IF Draining THEN slot.raced + 1 ELSE slot.raced)
    PROVE  CountInv'
<1>1. slot \in SlotType /\ slot' \in SlotType
  BY DEF PushTypes
<1>2. /\ slot'.start = slot.start /\ slot'.got = slot.got /\ slot'.cursor = slot.cursor
      /\ slot'.dropped = slot.dropped /\ slot'.last = slot.last
  BY DEF Only, SlotFields
<1>3. \A n : MissedTo(slot', n) = MissedTo(slot, n)
  BY <1>2, MissedSame
<1>4. /\ slot.cursor \in Int /\ slot.dropped \in Int /\ slot.last \in Int /\ slot.raced \in Nat
      /\ slot.start \in Int
      /\ \A n \in Int : MissedTo(slot, n) \in Nat
  BY <1>1, SlotInts
<1>5. Base \in Int /\ drain.idx \in Int /\ drain.oldest \in Int
      /\ (Base' = Base \/ Base' = Base + 1)
  BY BaseInt DEF PushBegins
<1>6. CASE ~Draining
  <2>1. SameAccount(slot', slot)
    BY <1>2, <1>6 DEF SameAccount
  <2>2. Settled(slot)' <=> Settled(slot)
    BY <2>1, AccountSame
  <2> QED BY <1>6, <2>2 DEF CountInv, Draining
<1>7. CASE sweep = "total"
  <2>1. slot'.raced = slot.raced + 1 /\ ~Draining' = FALSE /\ sweep' # "entries"
    BY <1>7 DEF Draining
  <2>2. Within(slot, Shift) /\ Within(slot, 0 - Shift) /\ Shift \in Int
    BY <1>7, SlipTypes DEF CountInv
  <2>3. Shift' \in {Shift, Shift + 1}
    <3>1. Shift = Base - (total - drain.count) /\ Shift' = Base' - (total - drain.count)
      BY DEF Shift
    <3>2. total - drain.count \in Int
      BY BaseInt
    <3> QED BY <1>5, <3>1, <3>2
  <2>4. Slips' \subseteq {Shift', 0 - Shift', Shift' - 1, 1 - Shift'}
    BY DEF Slips
  <2>5. ASSUME NEW d \in Int, d <= Shift + 1 \/ d <= 1 - Shift PROVE Within(slot', d)
    <3>1. /\ MissedTo(slot, slot.cursor) + d <= (slot.dropped + slot.raced) + 1
          /\ slot.last + d < (slot.cursor + slot.raced) + 1 /\ d <= slot.raced + 1
      <4>1. MissedTo(slot, slot.cursor) \in Nat
        BY <1>4
      <4> QED BY <1>4, <2>2, <2>5, <4>1 DEF Within
    <3>2. /\ slot.dropped + (slot.raced + 1) = (slot.dropped + slot.raced) + 1
          /\ slot.cursor + (slot.raced + 1) = (slot.cursor + slot.raced) + 1
      BY <1>4
    <3> QED BY <1>2, <1>3, <2>1, <3>1, <3>2 DEF Within
  <2>6. \A d \in Slips' : d \in Int /\ (d <= Shift + 1 \/ d <= 1 - Shift)
    <3>1. SUFFICES ASSUME NEW d \in {Shift', 0 - Shift', Shift' - 1, 1 - Shift'}
                   PROVE d \in Int /\ (d <= Shift + 1 \/ d <= 1 - Shift)
      BY <2>4
    <3>2. CASE Shift' = Shift
      BY <2>2, <3>1, <3>2
    <3>3. CASE Shift' = Shift + 1
      BY <2>2, <3>1, <3>3
    <3> QED BY <2>3, <3>2, <3>3
  <2> QED BY <1>7, <2>1, <2>5, <2>6 DEF CountInv
<1>8. CASE sweep = "entries"
  <2>1. slot'.raced = slot.raced + 1 /\ Draining' /\ sweep' = "entries"
    BY <1>8 DEF Draining
  <2> DEFINE e == Base + drain.idx
             f == Base' + drain.idx
  <2>2. /\ drain.idx \in 0 .. (drain.count - 1) /\ slot.cursor = drain.oldest + drain.idx
        /\ Reading(slot, e)
    BY <1>8 DEF CountInv
  <2>3. e \in Int /\ f \in Int /\ (f = e \/ f = e + 1)
    BY <1>5
  <2> HIDE DEF e, f
  <2>4. MissedTo(slot, e) \in Nat /\ MissedTo(slot, f) \in Nat
        /\ MissedTo(slot, f) <= MissedTo(slot, e) + (f - e)
    <3>1. MissedTo(slot, e) \in Nat /\ MissedTo(slot, f) \in Nat /\ e <= f
      BY <1>4, <2>3
    <3> QED BY <1>1, <2>3, <3>1, MissedMono
  <2>5. /\ MissedTo(slot, f) <= slot.dropped + (slot.raced + 1)
        /\ MissedTo(slot, f) + (slot.cursor - f) <= slot.dropped + (slot.raced + 1)
    BY <1>4, <2>2, <2>3, <2>4 DEF Reading
  <2>6. /\ slot.last < f + (slot.raced + 1) /\ slot.last < slot.cursor + (slot.raced + 1)
        /\ f <= slot.cursor + (slot.raced + 1)
    BY <1>4, <2>2, <2>3 DEF Reading
  <2>7. Reading(slot', f)
    BY <1>2, <1>3, <2>1, <2>5, <2>6 DEF Reading
  <2> QED BY <1>2, <1>8, <2>1, <2>2, <2>7 DEF CountInv, f
<1> QED BY <1>6, <1>7, <1>8 DEF Draining

\* A push that is counted between the two reads of a drain was counted as raced.
LEMMA CountCounts ==
    ASSUME PushTypes, PushTypes', CountInv, PushCounts, UNCHANGED <<drain, slot>>,
           total' = total + 1,
           sweep' = sweep \/ (~Draining /\ ~Draining')
    PROVE  CountInv'
<1>1. CASE sweep' = sweep /\ sweep = "total"
  <2>1. ~Unlocked
    BY BaseInt DEF PushCounts
  <2>2. Slips = {Shift, 0 - Shift, Shift - 1, 1 - Shift} /\ Shift \in Int
    BY <2>1, SlipTypes
  <2>3. Unlocked'
    BY DEF PushCounts, Unlocked, Adding, Counting
  <2>4. Slips' = {Shift', 0 - Shift'}
    BY <2>3 DEF Slips
  <2>5. Shift' = Shift - 1
    <3>1. Shift = Base - (total - drain.count) /\ Shift' = Base - ((total + 1) - drain.count)
      BY DEF Shift, PushCounts
    <3>2. Base \in Int /\ total \in Int /\ drain.count \in Int
      BY BaseInt
    <3> QED BY <3>1, <3>2
  <2>6. Slips' \subseteq Slips
    BY <2>2, <2>4, <2>5
  <2> QED BY <1>1, <2>6 DEF CountInv, Draining
<1>2. CASE sweep' = sweep /\ sweep # "total"
  BY <1>2 DEF CountInv, Draining, PushCounts
<1>3. CASE ~Draining /\ ~Draining'
  BY <1>3 DEF CountInv, Draining
<1> QED BY <1>1, <1>2, <1>3

\* A store to another field leaves the account alone.
LEMMA OnlyAccount ==
    ASSUME NEW r, NEW s, NEW F, Only(r, s, F),
           F \cap {"start", "got", "cursor", "dropped", "last", "raced"} = {}
    PROVE  SameAccount(r, s)
<1>1. {"start", "got", "cursor", "dropped", "last", "raced"} \subseteq SlotFields \ F
  BY DEF SlotFields
<1> QED BY <1>1 DEF Only, SameAccount

(* The drain begins by reading the ring's count.                           *)
LEMMA CountDrainState ==
    ASSUME PushTypes, PumpInv, CountInv, DrainState PROVE CountInv'
<1>1. /\ Only(slot', slot, {"dirty", "outbound", "left", "raced"})
      /\ slot'.raced = (IF Unlocked THEN slot.raced ELSE slot.raced + 1)
      /\ drain'.count = Len(ring) /\ sweep' = "total"
  BY DrainStateEffect
<1>2. UNCHANGED <<ring, total, pump>> /\ sweep = "client"
  BY DEF DrainState, ringVars
<1>3. Base' = Base /\ Counting' = Counting /\ Adding' = Adding /\ (Unlocked' <=> Unlocked)
  BY <1>2 DEF Base, Counting, Adding, Unlocked
<1>4. slot \in SlotType
  BY DEF PushTypes
<1>5. /\ slot'.start = slot.start /\ slot'.got = slot.got /\ slot'.cursor = slot.cursor
      /\ slot'.dropped = slot.dropped /\ slot'.last = slot.last
  BY <1>1 DEF Only, SlotFields
<1>6. \A n : MissedTo(slot', n) = MissedTo(slot, n)
  BY <1>5, MissedSame
<1>7. /\ slot.cursor \in Int /\ slot.dropped \in Int /\ slot.last \in Int /\ slot.raced \in Nat
      /\ MissedTo(slot, slot.cursor) \in Nat
  BY <1>4, SlotInts
<1>8. Settled(slot)
  BY <1>2 DEF CountInv, Draining
<1>9. Shift' = IF Counting THEN 1 ELSE 0
  <2>1. Shift' = Base - (total - Len(ring))
    BY <1>1, <1>2, <1>3 DEF Shift
  <2>2. total \in Int /\ Len(ring) \in Int
        /\ Base = IF Counting THEN (total + 1) - Len(ring) ELSE total - Len(ring)
    BY BaseInt
  <2> QED BY <2>1, <2>2
<1>10. CASE Unlocked
  <2>1. ~Counting /\ slot'.raced = slot.raced
    BY <1>1, <1>10, BaseInt
  <2>2. Slips' \subseteq {0}
    <3>1. Shift' = 0 /\ Unlocked'
      BY <1>3, <1>9, <1>10, <2>1
    <3>2. Slips' = {Shift', 0 - Shift'}
      BY <3>1 DEF Slips
    <3> QED BY <3>1, <3>2
  <2>3. Within(slot', 0)
    BY <1>5, <1>6, <1>7, <1>8, <2>1 DEF Settled, Within
  <2> QED BY <1>1, <2>2, <2>3 DEF CountInv, Draining
<1>11. CASE ~Unlocked
  <2>1. slot'.raced = slot.raced + 1
    BY <1>1, <1>11
  <2>2. Slips' \subseteq {0, 1, -1}
    <3>1. Slips' \subseteq {Shift', 0 - Shift', Shift' - 1, 1 - Shift'}
      BY DEF Slips
    <3>2. CASE Shift' = 0
      BY <3>1, <3>2
    <3>3. CASE Shift' = 1
      BY <3>1, <3>3
    <3> QED BY <1>9, <3>2, <3>3
  <2>3. ASSUME NEW d \in {0, 1, -1} PROVE Within(slot', d)
    BY <1>5, <1>6, <1>7, <1>8, <2>1 DEF Settled, Within
  <2> QED BY <1>1, <2>2, <2>3 DEF CountInv, Draining
<1> QED BY <1>10, <1>11

(* Then it reads the total, and settles what it missed before.             *)
LEMMA CountDrainTotal ==
    ASSUME PushTypes, CountInv, DrainTotal PROVE CountInv'
<1> DEFINE o == total - drain.count
           c == slot'.cursor
           n == slot.dropped + slot.raced
<1>1. /\ Only(slot', slot, {"outbound", "drop_marker_pending", "dropped", "cursor"})
      /\ c = (IF slot.cursor < o THEN o ELSE slot.cursor)
      /\ slot'.dropped = slot.dropped + (c - slot.cursor)
      /\ \/ /\ c - o < drain.count /\ sweep' = "entries"
            /\ drain'.count = drain.count /\ drain'.oldest = o /\ drain'.idx = c - o
         \/ c - o >= drain.count /\ sweep' \in {"idle", "flush"}
  BY DrainTotalEffect
<1>2. UNCHANGED <<ring, total, pump>> /\ sweep = "total"
  BY DEF DrainTotal, ringVars
<1>3. Base' = Base
  BY <1>2 DEF Base, Counting
<1>4. slot \in SlotType
  BY DEF PushTypes
<1>5. /\ slot'.start = slot.start /\ slot'.got = slot.got /\ slot'.raced = slot.raced
      /\ slot'.last = slot.last
  BY <1>1 DEF Only, SlotFields
<1>6. \A m : MissedTo(slot', m) = MissedTo(slot, m)
  BY <1>5, MissedSame
<1>7. /\ slot.cursor \in Int /\ slot.dropped \in Int /\ slot.last \in Int /\ slot.raced \in Nat
      /\ \A m \in Int : MissedTo(slot, m) \in Nat
  BY <1>4, SlotInts
<1>8. o \in Int /\ Base \in Int /\ drain.count \in Nat /\ total \in Int
  BY BaseInt
<1>9. c \in Int /\ c >= o /\ c >= slot.cursor
  BY <1>1, <1>7, <1>8
<1>10. Shift \in Int /\ Within(slot, Shift) /\ Within(slot, 0 - Shift)
  BY <1>2, SlipTypes DEF CountInv
<1>11. MissedTo(slot, c) \in Nat
       /\ MissedTo(slot, c) <= MissedTo(slot, slot.cursor) + (c - slot.cursor)
  BY <1>4, <1>7, <1>9, MissedMono
<1>12. slot'.dropped + slot'.raced = n + (c - slot.cursor)
  BY <1>1, <1>5, <1>7, <1>9
<1>13. MissedTo(slot, slot.cursor) \in Nat
  BY <1>7
<1> HIDE DEF o, c
<1>14. /\ MissedTo(slot, c) + Shift <= slot'.dropped + slot'.raced
       /\ MissedTo(slot, c) - Shift <= slot'.dropped + slot'.raced
  BY <1>7, <1>9, <1>10, <1>11, <1>12, <1>13 DEF Within
<1>15. slot.last + Shift < c + slot.raced /\ slot.last - Shift < c + slot.raced
       /\ Shift <= slot.raced
  BY <1>7, <1>9, <1>10 DEF Within
<1>16. slot'.dropped + slot'.raced \in Int
  BY <1>7, <1>9, <1>12
<1>17. Settled(slot')
  <2>1. MissedTo(slot, c) <= slot'.dropped + slot'.raced
    BY <1>10, <1>11, <1>14, <1>16
  <2>2. slot.last < c + slot.raced
    BY <1>7, <1>9, <1>10, <1>15
  <2> QED BY <1>5, <1>6, <2>1, <2>2 DEF Settled, c
<1>18. CASE sweep' = "entries"
  <2> DEFINE e == c + Shift
  <2>1. drain'.count = drain.count /\ drain'.oldest = o /\ drain'.idx = c - o /\ c - o < drain.count
    BY <1>1, <1>18
  <2>2. drain'.idx \in 0 .. (drain'.count - 1) /\ c = drain'.oldest + drain'.idx
    BY <1>8, <1>9, <2>1
  <2>3. Base' + drain'.idx = e
    <3>1. Shift = Base - o
      BY DEF Shift, o
    <3> QED BY <1>3, <1>8, <1>9, <2>1, <3>1
  <2>4. e \in Int /\ e - c = Shift /\ c - e = 0 - Shift
    BY <1>9, <1>10
  <2>5. MissedTo(slot, e) \in Nat
    BY <1>7, <2>4
  <2> HIDE DEF e
  <2>6. /\ MissedTo(slot, e) <= slot'.dropped + slot'.raced
        /\ MissedTo(slot, e) + (c - e) <= slot'.dropped + slot'.raced
    <3>1. CASE Shift >= 0
      <4>1. MissedTo(slot, e) <= MissedTo(slot, c) + (e - c)
        BY <1>4, <1>9, <1>10, <2>4, <3>1, MissedMono
      <4> QED BY <1>10, <1>11, <1>14, <1>16, <2>4, <2>5, <3>1, <4>1
    <3>2. CASE Shift < 0
      <4>1. MissedTo(slot, e) <= MissedTo(slot, c)
        BY <1>4, <1>9, <1>10, <2>4, <3>2, MissedMono
      <4> QED BY <1>10, <1>11, <1>14, <1>16, <2>4, <2>5, <3>2, <4>1
    <3> QED BY <1>10, <3>1, <3>2
  <2>7. slot.last < e + slot.raced /\ slot.last < c + slot.raced /\ e <= c + slot.raced
    BY <1>7, <1>9, <1>10, <1>15, <2>4
  <2>8. Reading(slot', e)
    BY <1>5, <1>6, <2>6, <2>7 DEF Reading, c
  <2> QED BY <1>18, <2>2, <2>3, <2>8 DEF CountInv, Draining, c
<1>19. CASE sweep' # "entries"
  <2>1. ~Draining'
    BY <1>1, <1>19 DEF Draining
  <2> QED BY <1>17, <2>1 DEF CountInv, Draining
<1> QED BY <1>18, <1>19

(* Each entry in its turn.                                                 *)
LEMMA CountDrainEntry ==
    ASSUME PushTypes, PushTypes', SeqInv, CountInv, DrainEntry PROVE CountInv'
<1> DEFINE e == Base + drain.idx
           c == slot.cursor
           n == slot.dropped + slot.raced
<1>1. UNCHANGED <<ring, total, pump>> /\ sweep = "entries"
  BY DEF DrainEntry, ringVars
<1>2. drain.idx \in 0 .. (drain.count - 1) /\ c = drain.oldest + drain.idx /\ Reading(slot, e)
  BY <1>1 DEF CountInv
<1>3. Base \in Int /\ drain.count \in Nat /\ drain.oldest \in Int /\ Len(ring) \in Nat
  BY BaseInt
<1>4. drain.idx \in Nat /\ drain.idx < drain.count /\ e \in Int
  BY <1>2, <1>3
<1>5. /\ Only(slot', slot,
              {"outbound", "cursor", "got", "last", "dropped", "drop_marker_pending"})
      /\ \/ drain.idx >= Len(ring) /\ slot' = slot
         \/ /\ drain.idx < Len(ring) /\ ring[drain.idx + 1] \in Entries
            /\ slot'.cursor = c + 1
            /\ \/ /\ slot'.dropped = slot.dropped
                  /\ slot'.got = slot.got \cup {ring[drain.idx + 1].seq}
                  /\ slot'.last = ring[drain.idx + 1].seq
               \/ /\ slot'.dropped = slot.dropped + 1
                  /\ slot'.got = slot.got /\ slot'.last = slot.last
      /\ \/ /\ drain.idx + 1 < drain.count /\ sweep' = "entries"
            /\ drain'.count = drain.count /\ drain'.oldest = drain.oldest
            /\ drain'.idx = drain.idx + 1
         \/ drain.idx + 1 >= drain.count /\ sweep' \in {"idle", "flush"}
  <2>1. (drain.oldest + drain.idx) + 1 = c + 1
    BY <1>2
  <2> QED BY <1>4, <2>1, DrainEntryEffect
<1>6. Base' = Base
  BY <1>1 DEF Base, Counting
<1>7. slot \in SlotType /\ slot' \in SlotType
  BY DEF PushTypes
<1>8. slot'.start = slot.start /\ slot'.raced = slot.raced
  BY <1>5 DEF Only, SlotFields
<1>9. /\ c \in Int /\ slot.dropped \in Int /\ slot.last \in Int /\ slot.raced \in Nat
      /\ \A m \in Int : MissedTo(slot, m) \in Nat /\ MissedTo(slot', m) \in Nat
  BY <1>7, SlotInts
<1>10. /\ MissedTo(slot, e) <= n /\ MissedTo(slot, e) + (c - e) <= n
       /\ slot.last < e + slot.raced /\ slot.last < c + slot.raced /\ e <= c + slot.raced
  BY <1>2 DEF Reading
<1>11. MissedTo(slot, e) \in Nat /\ n \in Int
  BY <1>4, <1>9
<1> HIDE DEF e, c
<1>12. CASE drain.idx >= Len(ring) /\ slot' = slot
  <2>1. drain.idx + 1 >= drain.count
    BY <1>1, <1>3, <1>4, <1>12 DEF SeqInv, Draining
  <2>2. ~Draining'
    BY <1>3, <1>4, <1>5, <2>1 DEF Draining
  <2>3. MissedTo(slot, c) <= n
    <3>1. CASE c <= e
      <4>1. MissedTo(slot, c) <= MissedTo(slot, e)
        BY <1>4, <1>7, <1>9, <3>1, MissedMono
      <4> QED BY <1>9, <1>10, <1>11, <4>1
    <3>2. CASE e <= c
      <4>1. MissedTo(slot, c) <= MissedTo(slot, e) + (c - e)
        BY <1>4, <1>7, <1>9, <3>2, MissedMono
      <4> QED BY <1>4, <1>9, <1>10, <1>11, <4>1
    <3> QED BY <1>4, <1>9, <3>1, <3>2
  <2>4. Settled(slot')
    BY <1>10, <1>12, <2>3 DEF Settled, c
  <2> QED BY <2>2, <2>4 DEF CountInv, Draining
<1>13. CASE ~(drain.idx >= Len(ring) /\ slot' = slot)
  <2> DEFINE m == slot'.dropped + slot'.raced
  <2>1. drain.idx < Len(ring) /\ slot'.cursor = c + 1
    BY <1>5, <1>13
  <2>2. ring[drain.idx + 1].seq = e
    <3>1. drain.idx + 1 \in 1 .. Len(ring) /\ (drain.idx + 1) - 1 = drain.idx
      BY <1>3, <1>4, <2>1
    <3> QED BY <3>1 DEF SeqInv, e
  <2>3. \/ slot'.dropped = slot.dropped /\ slot'.got = slot.got \cup {e} /\ slot'.last = e
        \/ slot'.dropped = slot.dropped + 1 /\ slot'.got = slot.got /\ slot'.last = slot.last
    BY <1>5, <1>13, <2>2
  <2>4. /\ MissedTo(slot', e + 1) <= m /\ MissedTo(slot', e + 1) + (c - e) <= m
        /\ slot'.last < (e + 1) + slot.raced /\ slot'.last < (c + 1) + slot.raced
        /\ MissedTo(slot', e + 1) \in Nat /\ m \in Int
    <3>0. MissedTo(slot', e + 1) \in Nat
      <4>1. e + 1 \in Int
        BY <1>4
      <4> QED BY <1>9, <4>1
    <3>1. CASE slot'.dropped = slot.dropped /\ slot'.got = slot.got \cup {e} /\ slot'.last = e
      <4>1. MissedTo(slot', e + 1) <= MissedTo(slot, e)
        BY <1>4, <1>7, <1>8, <3>1, MissedGot
      <4>2. m = n
        BY <1>8, <3>1
      <4> HIDE DEF m, n
      <4> QED BY <1>4, <1>9, <1>10, <1>11, <3>0, <3>1, <4>1, <4>2
    <3>2. CASE slot'.dropped = slot.dropped + 1 /\ slot'.got = slot.got /\ slot'.last = slot.last
      <4>1. MissedTo(slot', e + 1) = MissedTo(slot, e + 1)
        BY <1>8, <3>2, MissedSame
      <4>2. MissedTo(slot, e + 1) <= MissedTo(slot, e) + ((e + 1) - e)
        <5>1. e + 1 \in Int /\ e <= e + 1
          BY <1>4
        <5> QED BY <1>4, <1>7, <5>1, MissedMono
      <4>3. m = n + 1
        BY <1>8, <1>9, <3>2
      <4> HIDE DEF m, n
      <4> QED BY <1>4, <1>9, <1>10, <1>11, <3>0, <3>2, <4>1, <4>2, <4>3
    <3> QED BY <2>3, <3>1, <3>2
  <2> HIDE DEF m
  <2>5. CASE sweep' = "entries"
    <3>1. drain'.count = drain.count /\ drain'.oldest = drain.oldest /\ drain'.idx = drain.idx + 1
          /\ drain.idx + 1 < drain.count
      BY <1>5, <2>5
    <3>2. Base' + drain'.idx = e + 1
      BY <1>3, <1>4, <1>6, <3>1 DEF e
    <3>3. drain'.idx \in 0 .. (drain'.count - 1) /\ slot'.cursor = drain'.oldest + drain'.idx
      BY <1>2, <1>3, <1>4, <2>1, <3>1 DEF c
    <3>4. (c + 1) - (e + 1) = c - e /\ e + 1 <= (c + 1) + slot.raced
      BY <1>4, <1>9, <1>10
    <3>5. Reading(slot', e + 1)
      BY <1>8, <2>1, <2>4, <3>4 DEF Reading, m
    <3> QED BY <2>5, <3>2, <3>3, <3>5 DEF CountInv, Draining
  <2>6. CASE sweep' # "entries"
    <3>1. ~Draining'
      BY <1>5, <2>6 DEF Draining
    <3>2. MissedTo(slot', c + 1) \in Nat /\ e + 1 \in Int /\ c + 1 \in Int
      <4>1. e + 1 \in Int /\ c + 1 \in Int
        BY <1>4, <1>9
      <4> QED BY <1>9, <4>1
    <3>3. MissedTo(slot', c + 1) <= m
      <4>1. CASE c <= e
        <5>1. MissedTo(slot', c + 1) <= MissedTo(slot', e + 1)
          <6>1. c + 1 <= e + 1
            BY <1>4, <1>9, <4>1
          <6> QED BY <1>7, <3>2, <6>1, MissedMono
        <5> QED BY <2>4, <3>2, <5>1
      <4>2. CASE e <= c
        <5>1. MissedTo(slot', c + 1) <= MissedTo(slot', e + 1) + ((c + 1) - (e + 1))
          <6>1. e + 1 <= c + 1
            BY <1>4, <1>9, <4>2
          <6> QED BY <1>7, <3>2, <6>1, MissedMono
        <5>2. (c + 1) - (e + 1) = c - e
          BY <1>4, <1>9
        <5> QED BY <1>4, <1>9, <2>4, <3>2, <5>1, <5>2
      <4> QED BY <1>4, <1>9, <4>1, <4>2
    <3>4. Settled(slot')
      BY <1>8, <2>1, <2>4, <3>3 DEF Settled, m
    <3> QED BY <3>1, <3>4 DEF CountInv, Draining
  <2> QED BY <2>5, <2>6
<1> QED BY <1>12, <1>13

\* A new client has missed nothing.
LEMMA FreshCount ==
    ASSUME NEW s \in SlotType, s.start = s.cursor, s.dropped = 0, s.raced = 0, s.last < s.cursor
    PROVE  Settled(s)
<1>1. s.cursor \in Int /\ s.last \in Int
  BY SlotTypes
<1>2. s.cursor <= s.start
  BY <1>1
<1>3. MissedTo(s, s.cursor) = 0
  BY <1>1, <1>2, MissedNat
<1> QED BY <1>1, <1>3 DEF Settled

\* Every step keeps the ring numbered and the account within its bounds.
LEMMA SeqCountNext ==
    ASSUME PushTypes, PumpInv, SeenInv, SeqInv, CountInv, [PushNext]_pushVars
    PROVE  SeqInv' /\ CountInv'
<1>0. PushTypes'
  <2>1. sweep = "entries" => drain.idx \in Nat
    BY BaseInt DEF CountInv
  <2> QED BY <2>1, TypesNext
<1>1. CASE KeysNext
  <2>1. UNCHANGED <<ring, total, slot, sweep, drain>>
    BY <1>1 DEF KeysNext, StashLine, TouchLine, StashValue, TouchValue, ringVars
  <2>2. RingSame
    <3>1. CASE pump' = pump
      BY <2>1, <3>1, RingKept
    <3>2. CASE TouchLine
      <4>1. pump["fwd"].pc = "out" /\ pump' = EnterPump("fwd", gen + 1)
        BY <3>2, PumpNums DEF TouchLine, PumpInv, FwdInv
      <4>2. Others("fwd") /\ pump'["fwd"].pc = "claim"
        <5>1. gen + 1 \in Nat /\ pump \in [Tasks -> PumpType]
          BY DEF PushTypes
        <5> QED BY <4>1, <5>1, TasksDiffer, PumpMoves
      <4>3. (Adding' <=> Adding) /\ (Counting' <=> Counting)
        BY <4>1, <4>2, TasksDiffer, OthersPCs
      <4> QED BY <2>1, <4>3 DEF RingSame, Base
    <3> QED BY <1>1, <3>1, <3>2 DEF KeysNext, StashLine, StashValue, TouchValue
  <2>3. SeqInv'
    BY <2>1, <2>2, SeqPush
  <2>4. Unlocked' <=> Unlocked
    BY <2>2 DEF RingSame, Unlocked, Adding, Counting
  <2>5. CountInv'
    BY <2>1, <2>2, <2>4, CountSame DEF RingSame, SameAccount
  <2> QED BY <2>3, <2>5
<1>2. ASSUME NEW t \in Tasks, PushPump(t) PROVE SeqInv' /\ CountInv'
  <2>1. /\ UNCHANGED drain
        /\ \/ /\ RingSame /\ UNCHANGED <<total, slot>>
           \/ /\ PushBegins /\ UNCHANGED total /\ sweep' = sweep /\ Only(slot', slot, {"raced"})
              /\ slot'.raced = (IF Draining THEN slot.raced + 1 ELSE slot.raced)
           \/ PushAdds /\ UNCHANGED <<total, slot, sweep>>
           \/ PushCounts /\ total' = total + 1 /\ UNCHANGED slot
        /\ sweep' # sweep => sweep = "pump" /\ sweep' = "client"
    BY <1>0, <1>2, RingStep
  <2>2. sweep' # sweep => ~Draining /\ ~Draining'
    BY <2>1 DEF Draining
  <2>3. SeqInv'
    BY <2>1, <2>2, SeqPush
  <2>4. CASE (RingSame \/ PushAdds) /\ UNCHANGED <<total, slot>>
    <3>1. Unlocked' <=> Unlocked
      BY <2>4 DEF RingSame, PushAdds, Unlocked, Adding, Counting
    <3>2. Base' = Base
      BY <2>4 DEF RingSame, PushAdds
    <3> QED BY <2>1, <2>2, <2>3, <2>4, <3>1, <3>2, CountSame DEF SameAccount
  <2>5. CASE /\ PushBegins /\ UNCHANGED total /\ sweep' = sweep /\ Only(slot', slot, {"raced"})
             /\ slot'.raced = (IF Draining THEN slot.raced + 1 ELSE slot.raced)
    BY <1>0, <2>1, <2>3, <2>5, CountBegins
  <2>6. CASE PushCounts /\ total' = total + 1 /\ UNCHANGED slot
    BY <1>0, <2>1, <2>2, <2>3, <2>6, CountCounts
  <2> QED BY <2>1, <2>4, <2>5, <2>6
<1>3. CASE DrainState
  <2>1. UNCHANGED <<ring, total, pump>> /\ drain'.count = Len(ring)
    BY <1>3, DrainStateEffect DEF DrainState, ringVars
  <2>2. RingSame /\ Len(ring) \in Nat
    BY <2>1, RingKept, BaseInt
  <2>3. SeqInv'
    BY <2>1, <2>2 DEF SeqInv, RingSame
  <2> QED BY <1>3, <2>3, CountDrainState
<1>4. CASE DrainTotal \/ DrainEntry
  <2>1. UNCHANGED <<ring, total, pump>> /\ Draining
    BY <1>4 DEF DrainTotal, DrainEntry, ringVars, Draining
  <2>2. RingSame
    BY <2>1, RingKept
  <2>3. sweep' = "entries" => drain'.count = drain.count
    <3>1. sweep = "entries" => drain.idx \in Nat
      BY BaseInt DEF CountInv
    <3> QED BY <1>4, <3>1, DrainTotalEffect, DrainEntryEffect DEF DrainEntry
  <2>4. sweep' # "total"
    <3>1. sweep = "entries" => drain.idx \in Nat
      BY BaseInt DEF CountInv
    <3> QED BY <1>4, <3>1, DrainTotalEffect, DrainEntryEffect DEF DrainEntry
  <2>5. SeqInv'
    BY <2>1, <2>2, <2>3, <2>4 DEF SeqInv, RingSame, Draining
  <2> QED BY <1>0, <1>4, <2>5, CountDrainTotal, CountDrainEntry
<1>5. CASE \/ Detect \/ NoClient \/ Released \/ SendOk \/ SendTimeout \/ Publish \/ RequestRelease
           \/ Reap \/ SendFatal \/ Acquire \/ UNCHANGED pushVars
  <2>1. UNCHANGED <<ring, total>> /\ RingSame /\ (Unlocked' <=> Unlocked)
    <3>1. UNCHANGED <<ring, total>>
      BY <1>5 DEF Detect, NoClient, Released, SendOk, SendTimeout, Publish, RequestRelease,
                  Reap, SendFatal, Acquire, pushVars, ringVars
    <3>2. CASE pump' = pump
      BY <3>1, <3>2, RingKept DEF Unlocked
    <3>3. CASE Detect
      <4>1. pump["sweep"].pc = "out" /\ pump' = EnterPump("sweep", gen)
        BY <3>3 DEF Detect, PumpInv, SweepInv
      <4>2. Others("sweep") /\ pump'["sweep"].pc = "claim"
        <5>1. gen \in Nat /\ pump \in [Tasks -> PumpType]
          BY DEF PushTypes
        <5> QED BY <4>1, <5>1, TasksDiffer, PumpMoves
      <4>3. (Adding' <=> Adding) /\ (Counting' <=> Counting)
        BY <4>1, <4>2, TasksDiffer, OthersPCs
      <4>4. Unlocked' <=> Unlocked
        BY <4>3 DEF Unlocked, Adding, Counting
      <4> QED BY <3>1, <4>3, <4>4 DEF RingSame, Base
    <3> QED BY <1>5, <3>1, <3>2, <3>3
             DEF NoClient, Released, SendOk, SendTimeout, Publish, RequestRelease,
                 Reap, SendFatal, Acquire, pushVars
  <2>2. CASE ~Draining /\ ~Draining'
    <3>1. SeqInv'
      BY <2>1, <2>2 DEF SeqInv, RingSame
    <3>2. CASE SameAccount(slot', slot)
      <4>1. Settled(slot)' <=> Settled(slot)
        BY <3>2, AccountSame
      <4> QED BY <2>2, <3>1, <4>1 DEF CountInv, Draining
    <3>3. CASE Reap \/ SendFatal
      <4>1. Only(slot', FreeSlot, {"pending_release"})
        BY <3>3, ReleaseEffect DEF Reap, SendFatal
      <4>2. /\ slot' \in SlotType /\ slot'.start = slot'.cursor /\ slot'.dropped = 0
            /\ slot'.raced = 0
            /\ slot'.last < slot'.cursor
        BY <4>1 DEF Only, SlotFields, FreeSlot
      <4>3. Settled(slot')
        BY <4>2, FreshCount
      <4> QED BY <2>2, <3>1, <4>3 DEF CountInv, Draining
    <3>4. CASE Acquire
      <4>1. /\ Only(slot', FreeSlot, {"dirty", "cursor", "start"})
            /\ slot'.cursor = total /\ slot'.start = total /\ total \in Nat
        BY <3>4, AcquireEffect, BaseInt
      <4>2. /\ slot' \in SlotType /\ slot'.dropped = 0 /\ slot'.raced = 0 /\ slot'.last = -1
        BY <4>1 DEF Only, SlotFields, FreeSlot
      <4>3. Settled(slot')
        BY <4>1, <4>2, FreshCount
      <4> QED BY <2>2, <3>1, <4>3 DEF CountInv, Draining
    <3>5. CASE ~(Reap \/ SendFatal \/ Acquire)
      <4>1. Detect => SameAccount(slot', slot)
        BY DetectEffect, OnlyAccount
      <4>2. Released \/ RequestRelease \/ Publish => SameAccount(slot', slot)
        BY SmallEffects, OnlyAccount
      <4>3. SendOk \/ SendTimeout => SameAccount(slot', slot)
        BY SendEffect, OnlyAccount
      <4>4. NoClient \/ UNCHANGED pushVars => SameAccount(slot', slot)
        BY DEF NoClient, pushVars, SameAccount
      <4> QED BY <1>5, <3>2, <3>5, <4>1, <4>2, <4>3, <4>4
    <3> QED BY <3>2, <3>3, <3>4, <3>5
  <2>3. CASE Draining
    <3>1. slot.in_use /\ UNCHANGED <<drain, sweep>> /\ SameAccount(slot', slot)
      <4>1. slot.in_use /\ ~building
        BY <2>3 DEF Draining, SeenInv
      <4>2. CASE RequestRelease
        <5>1. SameAccount(slot', slot)
          BY <4>2, SmallEffects, OnlyAccount
        <5> QED BY <4>1, <4>2, <5>1 DEF RequestRelease
      <4>3. CASE UNCHANGED pushVars
        BY <4>1, <4>3 DEF pushVars, SameAccount
      <4> QED BY <1>5, <2>3, <4>1, <4>2, <4>3
              DEF Detect, NoClient, Released, SendOk, SendTimeout, Publish,
                   Reap, SendFatal, Acquire, Draining
    <3>2. SeqInv'
      BY <2>1, <3>1, SeqPush
    <3>3. CountInv'
      BY <2>1, <3>1, CountSame DEF RingSame
    <3> QED BY <3>2, <3>3
  <2>4. ~Draining => ~Draining'
    <3>1. CASE SendOk \/ SendTimeout
      BY <3>1, SendEffect DEF Draining
    <3>2. CASE Reap \/ SendFatal
      BY <3>2, ReleaseEffect DEF Reap, SendFatal, Draining
    <3> QED BY <1>5, <3>1, <3>2
             DEF Detect, NoClient, Released, Publish, RequestRelease, Acquire, pushVars, Draining
  <2> QED BY <2>2, <2>3, <2>4
<1> QED BY <1>1, <1>2, <1>3, <1>4, <1>5 DEF PushNext, KeysNext, SweepStep

-----------------------------------------------------------------------------
\* The invariant holds initially.
LEMMA InitPushInv == PushInit => PushInv
<1> SUFFICES ASSUME PushInit PROVE PushInv
  OBVIOUS
<1>1. /\ stash = 0 /\ gen = 0 /\ value = 0 /\ vgen = 0 /\ lastGen = 0 /\ ring = <<>> /\ total = 0
      /\ backwards = FALSE /\ sweep = "idle" /\ drain = NoDrain /\ slot = FreeSlot
      /\ building = FALSE
      /\ \A t \in Tasks : pump[t].pc = "out" /\ pump[t].gen = 0 /\ pump[t].prev = 0
  BY DEF PushInit, NoPump
<1>2. PushTypes
  <2>1. pump \in [Tasks -> PumpType]
    BY DEF PushInit, NoPump, PumpType, PumpPCs
  <2>2. drain \in DrainType /\ sweep \in SweepPCs /\ ring \in Seq(Entries)
    BY <1>1 DEF NoDrain, DrainType, SweepPCs
  <2>3. slot \in SlotType /\ value \in 0 .. MaxValue
    BY <1>1, FreeSlotType, DataPushAssumption
  <2>4. building \in BOOLEAN /\ backwards \in BOOLEAN
    BY <1>1
  <2>5. {gen, stash, vgen, total, lastGen} \subseteq Nat
    BY <1>1
  <2> QED BY <2>1, <2>2, <2>3, <2>4, <2>5 DEF PushTypes
<1>3. PumpInv
  BY <1>1, TasksDiffer DEF PumpInv, KeyInv, FwdInv, SweepInv, TaskInv, OnePush, Pushing
<1>4. RingInv /\ NewestInv
  BY <1>1, TasksDiffer DEF RingInv, AheadInv, Counted, NewestInv, Forward, Holding
<1>5. SeenInv
  BY InitSeen
<1>6. SeqInv
  <2>1. ~Adding /\ Len(ring) = 0 /\ RingCap \in Nat \ {0} /\ ~Draining
    BY <1>1, DataPushAssumption DEF Adding, Draining
  <2> QED BY <2>1 DEF SeqInv
<1>7. CountInv
  <2>1. slot.start = slot.cursor /\ slot.dropped = 0 /\ slot.raced = 0 /\ slot.last < slot.cursor
    BY <1>1 DEF FreeSlot
  <2>2. Settled(slot)
    BY <1>1, <2>1, FreshCount, FreeSlotType
  <2> QED BY <1>1, <2>2 DEF CountInv, Draining
<1> QED BY <1>2, <1>3, <1>4, <1>5, <1>6, <1>7 DEF PushInv

\* Every step keeps the invariant.
LEMMA NextPushInv == PushInv /\ [PushNext]_pushVars => PushInv'
<1> SUFFICES ASSUME PushInv, [PushNext]_pushVars PROVE PushInv'
  OBVIOUS
<1>1. sweep = "entries" => drain.idx \in Nat
  BY BaseInt DEF PushInv, CountInv
<1>2. PushTypes'
  BY <1>1, TypesNext DEF PushInv
<1>3. PumpInv' /\ RingInv' /\ NewestInv'
  BY PumpNext DEF PushInv
<1>4. SeenInv'
  BY <1>1, SeenNext DEF PushInv, PumpInv
<1>5. SeqInv' /\ CountInv'
  BY SeqCountNext DEF PushInv
<1> QED BY <1>2, <1>3, <1>4, <1>5 DEF PushInv

\* The invariant holds in every reachable state.
LEMMA AlwaysPushInv == PushSpec => []PushInv
BY InitPushInv, NextPushInv, PTL DEF PushSpec

(* The newest line is in the ring once both tasks have left push_pump with *)
(* its generation marked handled, whatever renders failed and whichever    *)
(* frame was discarded, unless a claim went backwards: what the claim      *)
(* check and the revoke of bb_data_http_push_pump are for.                 *)
THEOREM NewestIsPushedHolds == PushSpec => []NewestIsPushed
<1>1. PushInv => NewestIsPushed
  <2> SUFFICES ASSUME PushInv, \A t \in Tasks : pump[t].pc = "out", stash = gen, lastGen = gen,
                      gen > 0,
                      ~backwards
               PROVE  ring # <<>> /\ Last(ring).line = gen
    BY DEF NewestIsPushed
  <2>1. ~Newest("fwd") /\ ~Newest("sweep")
    BY TasksDiffer DEF Newest, Holding, Pushing
  <2>2. NewestInRing
    BY <2>1 DEF PushInv, NewestInv
  <2>3. Last(ring).line <= stash /\ Last(ring).line \in Nat /\ gen \in Nat
    BY <2>2, PumpNums DEF PushInv, RingInv, NewestInRing
  <2> QED BY <2>2, <2>3 DEF NewestInRing
<1> QED BY <1>1, AlwaysPushInv, PTL

(* A generation of the STATE key a client is recorded as having seen was   *)
(* queued for it, or a newer one: detect_dirty_keys records it before the  *)
(* render, and the dirty bit is cleared only by a render that succeeded.   *)
THEOREM SeenIsRenderedHolds == PushSpec => []SeenIsRendered
<1>1. PushInv => SeenIsRendered
  <2> SUFFICES ASSUME PushInv, slot.in_use, ~slot.dirty
               PROVE  Max({slot.left, NewestValue(slot.outbound)}) >= slot.seen_gen
    BY DEF SeenIsRendered
  <2>1. slot.left \in Int /\ slot.outbound \in Seq(Frames) /\ slot.seen_gen \in Nat
    BY SlotTypes DEF PushInv, PushTypes
  <2>2. /\ NewestValue(slot.outbound) \in Int
        /\ \A i \in 1 .. Len(slot.outbound) :
              slot.outbound[i].kind = "state" => NewestValue(slot.outbound) >= slot.outbound[i].v
    BY <2>1, NewestAll
  <2>3. Holds(slot, slot.seen_gen)
    BY DEF PushInv, SeenInv
  <2>4. slot.left >= slot.seen_gen \/ NewestValue(slot.outbound) >= slot.seen_gen
    <3>1. CASE slot.left >= slot.seen_gen
      BY <3>1
    <3>2. CASE \E i \in 1 .. Len(slot.outbound) :
                  slot.outbound[i].kind = "state" /\ slot.outbound[i].v >= slot.seen_gen
      <4>1. PICK i \in 1 .. Len(slot.outbound) :
                    slot.outbound[i].kind = "state" /\ slot.outbound[i].v >= slot.seen_gen
        BY <3>2
      <4>2. slot.outbound[i].v \in Int
        <5>1. slot.outbound[i] \in Frames
          BY <2>1
        <5> QED BY <5>1, DataPushAssumption DEF Frames
      <4> QED BY <2>1, <2>2, <4>1, <4>2
    <3> QED BY <2>3, <3>1, <3>2 DEF Holds
  <2>5. /\ Max({slot.left, NewestValue(slot.outbound)}) \in Int
        /\ Max({slot.left, NewestValue(slot.outbound)}) >= slot.left
        /\ Max({slot.left, NewestValue(slot.outbound)}) >= NewestValue(slot.outbound)
    BY <2>1, <2>2, MaxPair
  <2> QED BY <2>1, <2>2, <2>4, <2>5
<1> QED BY <1>1, AlwaysPushInv, PTL

(* What a client misses of the ring without being told is at most one push *)
(* for each push that overlapped one of its drains: drain_client_events    *)
(* reads the ring's count, the total and the entries without the lock.     *)
THEOREM SilentLossBoundedHolds == PushSpec => []SilentLossBounded
<1>1. PushInv => SilentLossBounded
  <2> SUFFICES ASSUME PushInv PROVE Cardinality(Missed(slot)) <= slot.dropped + slot.raced
    BY DEF SilentLossBounded
  <2>0. slot \in SlotType
    BY DEF PushInv, PushTypes
  <2>1. Cardinality(Missed(slot)) = MissedTo(slot, slot.cursor)
    BY DEF Missed, MissedTo
  <2>2. /\ slot.cursor \in Int /\ slot.dropped \in Int /\ slot.raced \in Nat
        /\ MissedTo(slot, slot.cursor) \in Nat
    BY <2>0, SlotInts
  <2>3. CASE ~Draining
    BY <2>1, <2>3 DEF PushInv, CountInv, Settled
  <2>4. CASE sweep = "total"
    <3>1. Shift \in Int /\ Within(slot, Shift) /\ Within(slot, 0 - Shift)
      BY <2>4, SlipTypes DEF PushInv, CountInv
    <3> QED BY <2>1, <2>2, <3>1 DEF Within
  <2>5. CASE sweep = "entries"
    <3> DEFINE e == Base + drain.idx
    <3>1. Reading(slot, e) /\ e \in Int
      BY <2>5, BaseInt DEF PushInv, CountInv
    <3> HIDE DEF e
    <3>2. MissedTo(slot, e) \in Nat
      BY <2>0, <3>1, MissedNat
    <3>3. CASE slot.cursor <= e
      <4>1. MissedTo(slot, slot.cursor) <= MissedTo(slot, e)
        BY <2>0, <2>2, <3>1, <3>3, MissedMono
      <4> QED BY <2>1, <2>2, <3>1, <3>2, <4>1 DEF Reading
    <3>4. CASE e <= slot.cursor
      <4>1. MissedTo(slot, slot.cursor) <= MissedTo(slot, e) + (slot.cursor - e)
        BY <2>0, <2>2, <3>1, <3>4, MissedMono
      <4> QED BY <2>1, <2>2, <3>1, <3>2, <4>1 DEF Reading
    <3> QED BY <2>2, <3>1, <3>3, <3>4
  <2> QED BY <2>3, <2>4, <2>5 DEF Draining
<1> QED BY <1>1, AlwaysPushInv, PTL

(* No push puts an older line after a newer one: the second lock section   *)
(* of bb_data_http_push_pump discards a frame whose claim was replaced.    *)
THEOREM RingNeverGoesBackHolds == PushSpec => RingNeverGoesBack
<1>1. ASSUME PushInv, [PushNext]_pushVars, Len(ring') > Len(ring), ring # <<>>
      PROVE  Last(ring').line >= Last(ring).line
  <2>1. PICK t \in Tasks : AppendFrame(t)
    <3>1. ring' # ring
      BY <1>1
    <3>2. PICK t \in Tasks : PushPump(t)
      <4>1. SweepStep => ring' = ring
        BY DEF SweepStep, Detect, NoClient, Reap, Released, DrainState, DrainTotal, DrainEntry,
               SendOk, SendTimeout, SendFatal, ringVars
      <4> QED BY <1>1, <3>1, <4>1
              DEF PushNext, StashLine, TouchLine, StashValue, TouchValue,
                   Acquire, Publish, RequestRelease, pushVars, ringVars
    <3>3. PushTypes
      BY <1>1 DEF PushInv
    <3>4. ~Commit(t)
      <4>1. Commit(t) => ring' = ring \/ (Len(ring) = RingCap /\ ring' = Tail(ring))
        BY <3>3, PumpEffect
      <4>2. ring \in Seq(Entries) /\ RingCap \in Nat \ {0}
        BY <3>3, PumpNums
      <4>3. Len(ring) = RingCap /\ ring' = Tail(ring) => Len(ring') = Len(ring) - 1
        BY <4>2
      <4>4. Len(ring) \in Nat
        BY <4>2
      <4> QED BY <1>1, <3>1, <4>1, <4>3, <4>4
    <3> QED BY <3>1, <3>2, <3>3, <3>4, PumpEffect DEF PushPump, ringVars
  <2>2. /\ pump[t].pc = "append" /\ ring' = Append(ring, [line |-> pump[t].line, seq |-> total])
    BY <1>1, <2>1, PumpEffect DEF PushInv
  <2>3. ring \in Seq(Entries) /\ [line |-> pump[t].line, seq |-> total] \in Entries
    BY <1>1, PumpNums DEF PushInv, Entries
  <2>4. Last(ring').line = pump[t].line
    BY <2>2, <2>3, LastAppend
  <2>5. CASE t = "sweep"
    BY <1>1, <2>2, <2>4, <2>5 DEF PushInv, RingInv
  <2>6. CASE t = "fwd"
    <3>1. pump["fwd"].line = stash
      BY <1>1, <2>2, <2>6 DEF PushInv, PumpInv, FwdInv, Pushing
    <3> QED BY <1>1, <2>4, <2>6, <3>1 DEF PushInv, RingInv
  <2> QED BY <2>5, <2>6, TasksDiffer
<1>2. PushInv /\ [PushNext]_pushVars
         => [Len(ring') > Len(ring) /\ ring # <<>> => Last(ring').line >= Last(ring).line]_pushVars
  BY <1>1
<1> QED BY <1>2, AlwaysPushInv, PTL DEF PushSpec, RingNeverGoesBack

(* A client is handed pushes in order and once, up to as many as overlapped *)
(* its drains: the numbers drain_client_events computes for the entries    *)
(* are off by no more than that.                                           *)
THEOREM OnceInOrderUnlessRacedHolds == PushSpec => OnceInOrderUnlessRaced
<1>1. ASSUME PushInv, [PushNext]_pushVars, sweep = "entries", drain.idx < Len(ring)
      PROVE  ring[drain.idx + 1].seq > slot.last - slot.raced
  <2>1. /\ Base \in Int /\ drain.count \in Nat /\ Len(ring) \in Nat /\ drain.idx \in Int
        /\ slot.last \in Int /\ slot.raced \in Nat
    BY <1>1, BaseInt, SlotTypes DEF PushInv, PushTypes
  <2>2. drain.idx \in Nat /\ Reading(slot, Base + drain.idx)
    BY <1>1, <2>1 DEF PushInv, CountInv
  <2>3. drain.idx + 1 \in 1 .. Len(ring) /\ (drain.idx + 1) - 1 = drain.idx
    BY <1>1, <2>1, <2>2
  <2>4. ring[drain.idx + 1].seq = Base + drain.idx
    BY <1>1, <2>3 DEF PushInv, SeqInv
  <2> QED BY <2>1, <2>2, <2>4 DEF Reading
<1>2. PushInv /\ [PushNext]_pushVars
         => [(/\ sweep = "entries" /\ drain' # drain
              /\ drain.idx < Len(ring) /\ slot'.dropped = slot.dropped)
               => ring[drain.idx + 1].seq > slot.last - slot.raced]_pushVars
  BY <1>1
<1> QED BY <1>2, AlwaysPushInv, PTL DEF PushSpec, OnceInOrderUnlessRaced


-----------------------------------------------------------------------------
\* The client's queue and its count of failed sends keep to their limits.
Fits(s) == Len(s.outbound) <= OutCap /\ s.send_fail_count < FailMax

(* What the type invariant says beyond PushInv: the bounds, and that a     *)
(* client's cursor never passes the count of pushes, because a drain takes *)
(* the ring's count before the total.                                      *)
BoundInv ==
    /\ stash <= MaxLine /\ Fits(slot) /\ slot.cursor <= total
    /\ sweep = "entries" => drain.oldest + drain.count <= total

\* A store that leaves the queue and the failures alone leaves them within limits.
LEMMA FitsSame ==
    ASSUME NEW s, NEW r, NEW F, Only(r, s, F), F \cap {"outbound", "send_fail_count"} = {}
    PROVE  Fits(r) <=> Fits(s)
<1>1. r.outbound = s.outbound /\ r.send_fail_count = s.send_fail_count
  BY DEF Only, SlotFields
<1> QED BY <1>1 DEF Fits

\* The marker is queued only when there is room.
LEMMA FitsFlush ==
    ASSUME NEW s \in SlotType, Fits(s)
    PROVE  Fits(FlushMarker(s))
<1>1. s.outbound \in Seq(Frames) /\ OutCap \in Nat
  BY SlotTypes, DataPushAssumption
<1>2. CASE s.drop_marker_pending /\ HasRoom(s)
  <2>1. /\ FlushMarker(s).outbound = Append(s.outbound, Marker)
        /\ FlushMarker(s).send_fail_count = s.send_fail_count
    BY <1>2 DEF FlushMarker, SlotType
  <2>2. Len(Append(s.outbound, Marker)) = Len(s.outbound) + 1 /\ Len(s.outbound) \in Nat
    BY <1>1, FrameTypes
  <2> QED BY <1>1, <1>2, <2>1, <2>2 DEF Fits, HasRoom
<1>3. CASE ~(s.drop_marker_pending /\ HasRoom(s))
  BY <1>3 DEF FlushMarker
<1> QED BY <1>2, <1>3

\* So is an event.
LEMMA FitsDrained ==
    ASSUME NEW s \in SlotType, Fits(s), NEW e \in Entries, NEW n \in Int
    PROVE  Fits(Drained(s, e, n))
<1>1. s.outbound \in Seq(Frames) /\ OutCap \in Nat
  BY SlotTypes, DataPushAssumption
<1>2. CASE HasRoom(s)
  <2>1. /\ Drained(s, e, n).outbound = Append(s.outbound, Event)
        /\ Drained(s, e, n).send_fail_count = s.send_fail_count
    BY <1>2 DEF Drained, SlotType
  <2>2. Len(Append(s.outbound, Event)) = Len(s.outbound) + 1 /\ Len(s.outbound) \in Nat
    BY <1>1, FrameTypes
  <2> QED BY <1>1, <1>2, <2>1, <2>2 DEF Fits, HasRoom
<1>3. CASE ~HasRoom(s)
  <2>1. /\ Drained(s, e, n).outbound = s.outbound
        /\ Drained(s, e, n).send_fail_count = s.send_fail_count
    BY <1>3 DEF Drained, SlotType
  <2> QED BY <2>1 DEF Fits
<1> QED BY <1>2, <1>3

\* A STATE frame takes the oldest frame's place when there is none.
LEMMA FitsQueueState ==
    ASSUME NEW s \in SlotType, Fits(s), value \in 0 .. MaxValue
    PROVE  Fits(QueueState(s))
<1>1. s.outbound \in Seq(Frames) /\ OutCap \in Nat \ {0} /\ State(value) \in Frames
  BY SlotTypes, FrameTypes, DataPushAssumption
<1>2. /\ QueueState(s).outbound = PushOldestOut(s.outbound, OutCap, State(value))
      /\ QueueState(s).send_fail_count = s.send_fail_count
  BY DEF QueueState, SlotType
<1>3. Len(PushOldestOut(s.outbound, OutCap, State(value))) <= OutCap
  <2>1. Len(s.outbound) \in Nat /\ Len(s.outbound) <= OutCap
    BY <1>1 DEF Fits
  <2>2. CASE Len(s.outbound) = OutCap
    <3>1. Tail(s.outbound) \in Seq(Frames) /\ Len(Tail(s.outbound)) = OutCap - 1
      BY <1>1, <2>2
    <3>2. Len(Append(Tail(s.outbound), State(value))) = Len(Tail(s.outbound)) + 1
      BY <1>1, <3>1
    <3> QED BY <1>1, <2>2, <3>1, <3>2 DEF PushOldestOut
  <2>3. CASE Len(s.outbound) # OutCap
    <3>1. Len(Append(s.outbound, State(value))) = Len(s.outbound) + 1
      BY <1>1
    <3> QED BY <1>1, <2>1, <2>3, <3>1 DEF PushOldestOut
  <2> QED BY <2>2, <2>3
<1> QED BY <1>2, <1>3 DEF Fits

\* A sent frame leaves the queue and resets the failures; a retry counts one more.
LEMMA FitsSend ==
    ASSUME PushTypes, SeenInv, Fits(slot), SendOk \/ SendTimeout
    PROVE  Fits(slot')
<1>1. /\ slot \in SlotType /\ slot.outbound \in Seq(Frames) /\ slot.outbound # <<>>
      /\ slot.send_fail_count \in Nat /\ FailMax \in Nat \ {0} /\ OutCap \in Nat
  <2>1. slot \in SlotType /\ slot.outbound # <<>>
    BY DEF PushTypes, SeenInv, SendOk, SendTimeout
  <2> QED BY <2>1, SlotTypes, DataPushAssumption
<1>2. Len(Tail(slot.outbound)) <= OutCap
  <2>1. Len(Tail(slot.outbound)) = Len(slot.outbound) - 1 /\ Len(slot.outbound) \in Nat
    BY <1>1
  <2> QED BY <1>1, <2>1 DEF Fits
<1>3. CASE SendOk
  <2>1. slot' = [slot EXCEPT !.outbound = Tail(@), !.send_fail_count = 0,
                             !.left = Max({@, NewestValue(<<Head(slot.outbound)>>)})]
    BY <1>3 DEF SendOk, GoOn
  <2>2. slot'.outbound = Tail(slot.outbound) /\ slot'.send_fail_count = 0
    BY <1>1, <2>1 DEF SlotType
  <2> QED BY <1>1, <1>2, <2>2 DEF Fits
<1>4. CASE SendTimeout /\ slot.send_fail_count + 1 < FailMax
  <2>1. slot' = [slot EXCEPT !.send_fail_count = @ + 1]
    BY <1>4 DEF SendTimeout
  <2>2. slot'.outbound = slot.outbound /\ slot'.send_fail_count = slot.send_fail_count + 1
    BY <1>1, <2>1 DEF SlotType
  <2> QED BY <1>4, <2>2 DEF Fits
<1>5. CASE SendTimeout /\ ~(slot.send_fail_count + 1 < FailMax)
  <2>1. slot' = [slot EXCEPT !.send_fail_count = 0, !.outbound = Tail(@),
                             !.left = Max({@, NewestValue(<<Head(slot.outbound)>>)})]
    BY <1>5 DEF SendTimeout
  <2>2. slot'.outbound = Tail(slot.outbound) /\ slot'.send_fail_count = 0
    BY <1>1, <2>1 DEF SlotType
  <2> QED BY <1>1, <1>2, <2>2 DEF Fits
<1> QED BY <1>3, <1>4, <1>5

\* Every step keeps the client's queue and failures within their limits.
LEMMA FitsNext ==
    ASSUME PushTypes, SeenInv, sweep = "entries" => drain.idx \in Nat, Fits(slot),
           [PushNext]_pushVars
    PROVE  Fits(slot')
<1>0. slot \in SlotType /\ drain \in DrainType /\ ring \in Seq(Entries) /\ value \in 0 .. MaxValue
  BY DEF PushTypes
<1>1. CASE slot' = slot
  BY <1>1
<1>2. ASSUME NEW t \in Tasks, Commit(t) PROVE Fits(slot')
  <2>1. Only(slot', slot, {"raced"}) \/ slot' = slot
    BY <1>2, PumpEffect
  <2> QED BY <2>1, FitsSame
<1>3. CASE Detect
  <2>1. Only(slot', slot, {"seen_gen", "dirty"})
    BY <1>3, DetectEffect
  <2> QED BY <2>1, FitsSame
<1>4. CASE Reap \/ SendFatal
  <2>1. Only(slot', FreeSlot, {"pending_release"})
    BY <1>4, ReleaseEffect DEF Reap, SendFatal
  <2>2. Fits(FreeSlot)
    BY DataPushAssumption DEF Fits, FreeSlot
  <2> QED BY <2>1, <2>2, FitsSame
<1>5. CASE Released \/ Publish \/ RequestRelease
  <2>1. Only(slot', slot, {"pending_release"}) \/ Only(slot', slot, {"in_use"})
    BY <1>5, SmallEffects
  <2> QED BY <2>1, FitsSame
<1>6. CASE DrainState
  <2>1. ASSUME NEW s \in SlotType, Fits(s), DrainCount(s) PROVE Fits(slot')
    <3>1. CASE Unlocked
      BY <2>1, <3>1 DEF DrainCount
    <3>2. CASE ~Unlocked
      <4>1. s.raced + 1 \in Nat /\ slot' = [s EXCEPT !.raced = s.raced + 1]
        BY <2>1, <3>2, SlotTypes DEF DrainCount
      <4>2. Only(slot', s, {"raced"})
        BY <4>1, Set_raced
      <4> QED BY <2>1, <4>2, FitsSame
    <3> QED BY <3>1, <3>2
  <2>2. CASE DrainCount(slot)
    BY <1>0, <2>1, <2>2
  <2>3. CASE DrainCount(QueueState([slot EXCEPT !.dirty = FALSE]))
    <3> DEFINE a == [slot EXCEPT !.dirty = FALSE]
               b == QueueState(a)
    <3>1. Only(a, slot, {"dirty"})
      BY <1>0, Set_dirty
    <3>2. a \in SlotType /\ Fits(a)
      <4>1. Fits(a)
        <5> HIDE DEF a
        <5> QED BY <3>1, FitsSame
      <4> QED BY <3>1, <4>1 DEF Only
    <3> HIDE DEF a
    <3>3. b \in SlotType
      BY <1>0, <3>2, QueueStateEffect DEF Only
    <3>4. Fits(b)
      BY <1>0, <3>2, FitsQueueState
    <3> HIDE DEF b
    <3> QED BY <2>1, <2>3, <3>3, <3>4 DEF a, b
  <2> QED BY <1>6, <2>2, <2>3 DEF DrainState
<1>7. CASE DrainTotal
  <2> DEFINE o == total - drain.count
             f == FlushMarker(slot)
  <2>1. slot' = SkipGap(f, o)
    BY <1>7 DEF DrainTotal, GoOn
  <2>2. f \in SlotType /\ Fits(f)
    BY <1>0, FlushEffect, FitsFlush DEF Only
  <2>3. o \in Int
    BY DEF PushTypes, DrainType
  <2> HIDE DEF f, o
  <2>4. Only(slot', f, {"dropped", "drop_marker_pending", "cursor"})
    BY <2>1, <2>2, <2>3, SkipEffect
  <2> QED BY <2>2, <2>4, FitsSame
<1>8. CASE DrainEntry
  <2> DEFINE n == drain.oldest + drain.idx + 1
             e == ring[drain.idx + 1]
             f == FlushMarker(slot)
  <2>1. f \in SlotType /\ Fits(f)
    BY <1>0, FlushEffect, FitsFlush DEF Only
  <2>2. slot' = IF drain.idx < Len(ring) THEN Drained(f, e, n) ELSE slot
    BY <1>8 DEF DrainEntry, GoOn
  <2>3. drain.idx < Len(ring) => e \in Entries /\ n \in Int
    BY <1>0, <1>8 DEF DrainEntry, DrainType
  <2> HIDE DEF e, f, n
  <2>4. drain.idx < Len(ring) => Fits(Drained(f, e, n))
    BY <2>1, <2>3, FitsDrained
  <2> QED BY <2>2, <2>4
<1>9. CASE SendOk \/ SendTimeout
  BY <1>9, FitsSend
<1>10. CASE Acquire
  <2>1. Only(slot', FreeSlot, {"dirty", "cursor", "start"})
    BY <1>10, AcquireEffect
  <2>2. Fits(FreeSlot)
    BY DataPushAssumption DEF Fits, FreeSlot
  <2> QED BY <2>1, <2>2, FitsSame
<1>11. CASE KeysNext \/ NoClient \/ UNCHANGED pushVars
  BY <1>11 DEF KeysNext, StashLine, TouchLine, StashValue, TouchValue, NoClient, pushVars
<1>12. ASSUME NEW t \in Tasks, PushPump(t), ~Commit(t) PROVE Fits(slot')
  BY <1>1, <1>12, PumpEffect DEF PushPump
<1> QED BY <1>2, <1>3, <1>4, <1>5, <1>6, <1>7, <1>8, <1>9, <1>10, <1>11, <1>12
         DEF PushNext, KeysNext, SweepStep

\* A step leaves the cursor alone, resets it to the count of pushes at hand, or moves
\* it along the part of the ring that was counted when the drain began.
LEMMA CursorNext ==
    ASSUME PushTypes, SeenInv, sweep = "entries" => drain.idx \in Nat /\ drain.idx < drain.count,
           BoundInv, [PushNext]_pushVars
    PROVE  /\ total' >= total
           /\ slot'.cursor <= total'
           /\ sweep' = "entries" => drain'.oldest + drain'.count <= total'
<1>0. /\ slot \in SlotType /\ drain \in DrainType /\ ring \in Seq(Entries)
      /\ slot.cursor \in Int /\ slot.cursor <= total /\ total \in Nat
      /\ drain.count \in Nat /\ drain.oldest \in Int /\ drain.idx \in Int
  BY SlotInts, BaseInt DEF PushTypes, BoundInv
<1>1. ASSUME slot'.cursor = slot.cursor, total' \in {total, total + 1},
             UNCHANGED drain, sweep' = "entries" => sweep = "entries"
      PROVE  /\ total' >= total /\ slot'.cursor <= total'
             /\ sweep' = "entries" => drain'.oldest + drain'.count <= total'
  BY <1>0, <1>1 DEF BoundInv
<1>2. ASSUME NEW t \in Tasks, PushPump(t)
      PROVE  /\ slot'.cursor = slot.cursor /\ total' \in {total, total + 1}
             /\ UNCHANGED drain /\ (sweep' = "entries" => sweep = "entries")
  <2>1. UNCHANGED drain /\ (sweep' = "entries" => sweep = "entries")
    BY <1>2, PumpEffect
  <2>2. CASE Commit(t)
    <3>1. (Only(slot', slot, {"raced"}) \/ slot' = slot) /\ total' = total
      BY <2>2, PumpEffect
    <3>2. slot'.cursor = slot.cursor
      BY <3>1 DEF Only, SlotFields
    <3> QED BY <2>1, <3>1, <3>2
  <2>3. CASE ~Commit(t)
    <3>1. slot' = slot /\ total' \in {total, total + 1}
      BY <1>2, <2>3, PumpEffect DEF PushPump, ringVars
    <3> QED BY <2>1, <3>1
  <2> QED BY <2>2, <2>3
<1>3. CASE KeysNext \/ NoClient \/ UNCHANGED pushVars
  <2>1. UNCHANGED <<slot, total, drain>> /\ (sweep' = "entries" => sweep = "entries")
    BY <1>3 DEF KeysNext, StashLine, TouchLine, StashValue, TouchValue, NoClient, pushVars, ringVars
  <2> QED BY <1>1, <2>1
<1>4. CASE Detect \/ Released \/ Publish \/ RequestRelease \/ DrainState
  <2>1. /\ UNCHANGED total
        /\ drain' = drain \/ sweep' # "entries"
        /\ sweep' = "entries" => sweep = "entries"
    BY <1>4, DrainStateEffect
       DEF Detect, Released, Publish, RequestRelease, DrainState, ringVars
  <2>2. \/ Only(slot', slot, {"seen_gen", "dirty"}) \/ Only(slot', slot, {"pending_release"})
        \/ Only(slot', slot, {"in_use"})
           \/ Only(slot', slot, {"dirty", "outbound", "left", "raced"})
    BY <1>4, DetectEffect, SmallEffects, DrainStateEffect
  <2>3. slot'.cursor = slot.cursor
    BY <2>2 DEF Only, SlotFields
  <2> QED BY <1>0, <2>1, <2>3 DEF BoundInv
<1>5. CASE Reap \/ SendFatal
  <2>1. Only(slot', FreeSlot, {"pending_release"}) /\ sweep' = "release" /\ UNCHANGED total
    BY <1>5, ReleaseEffect DEF Reap, SendFatal, ringVars
  <2>2. slot'.cursor = 0
    BY <2>1 DEF Only, SlotFields, FreeSlot
  <2> QED BY <1>0, <2>1, <2>2
<1>6. CASE SendOk \/ SendTimeout
  <2>1. Only(slot', slot, {"outbound", "send_fail_count", "left"}) /\ sweep' # "entries"
    BY <1>6, SendEffect
  <2>2. UNCHANGED total
    BY <1>6 DEF SendOk, SendTimeout, ringVars
  <2>3. slot'.cursor = slot.cursor
    BY <2>1 DEF Only, SlotFields
  <2> QED BY <1>0, <2>1, <2>2, <2>3
<1>7. CASE Acquire
  <2>1. slot'.cursor = total /\ UNCHANGED <<total, drain, sweep>>
    BY <1>7, AcquireEffect DEF Acquire, ringVars
  <2> QED BY <1>0, <2>1 DEF BoundInv
<1>8. CASE DrainTotal
  <2> DEFINE o == total - drain.count
  <2>1. /\ slot'.cursor = (IF slot.cursor < o THEN o ELSE slot.cursor)
        /\ sweep' = "entries" => drain'.count = drain.count /\ drain'.oldest = o
    BY <1>8, DrainTotalEffect
  <2>2. total' = total
    BY <1>8 DEF DrainTotal, ringVars
  <2>3. o \in Int /\ o <= total /\ o + drain.count = total
    BY <1>0
  <2> HIDE DEF o
  <2> QED BY <1>0, <2>1, <2>2, <2>3
<1>9. CASE DrainEntry
  <2>0. sweep = "entries" /\ total' = total
    BY <1>9 DEF DrainEntry, ringVars
  <2>1. /\ slot' = slot \/ slot'.cursor = drain.oldest + drain.idx + 1
        /\ sweep' = "entries" => drain'.count = drain.count /\ drain'.oldest = drain.oldest
    BY <1>9, <2>0, DrainEntryEffect
  <2>2. drain.oldest + drain.count <= total /\ drain.idx + 1 <= drain.count
    BY <1>0, <2>0 DEF BoundInv
  <2>3. drain.oldest + drain.idx + 1 <= total
    BY <1>0, <2>2
  <2> QED BY <1>0, <2>0, <2>1, <2>2, <2>3
<1> QED BY <1>1, <1>2, <1>3, <1>4, <1>5, <1>6, <1>7, <1>8, <1>9 DEF PushNext, KeysNext, SweepStep

(* The variables keep their types and bounds: the ring and the client's    *)
(* queue their capacities, the failures their limit, and the cursor of a   *)
(* client stays within the pushes counted.                                 *)
THEOREM PushTypeCorrect == PushSpec => []PushTypeOK
<1>1. PushInit => BoundInv
  <2> SUFFICES ASSUME PushInit PROVE BoundInv
    OBVIOUS
  <2> QED BY DataPushAssumption DEF PushInit, BoundInv, Fits, FreeSlot
<1>2. PushInv /\ BoundInv /\ [PushNext]_pushVars => BoundInv'
  <2> SUFFICES ASSUME PushInv, BoundInv, [PushNext]_pushVars PROVE BoundInv'
    OBVIOUS
  <2>1. sweep = "entries" => drain.idx \in Nat /\ drain.idx < drain.count
    BY BaseInt DEF PushInv, CountInv
  <2>2. Fits(slot')
    BY <2>1, FitsNext DEF PushInv, BoundInv
  <2>3. slot'.cursor <= total' /\ (sweep' = "entries" => drain'.oldest + drain'.count <= total')
    BY <2>1, CursorNext DEF PushInv
  <2>4. stash' <= MaxLine
    <3>1. stash \in Nat /\ MaxLine \in Nat /\ stash <= MaxLine
      BY PumpNums, DataPushAssumption DEF PushInv, BoundInv
    <3>2. stash' = stash \/ (stash < MaxLine /\ stash' = stash + 1)
      BY PumpEffect DEF PushInv, PushNext, StashLine, TouchLine, StashValue, TouchValue, SweepStep,
         Detect, NoClient, Reap, Released, DrainState, DrainTotal, DrainEntry, SendOk, SendTimeout,
         SendFatal, Acquire, Publish, RequestRelease, pushVars, keyVars
    <3> QED BY <3>1, <3>2
  <2> QED BY <2>2, <2>3, <2>4 DEF BoundInv, Fits
<1>3. PushInv /\ BoundInv => PushTypeOK
  <2> SUFFICES ASSUME PushInv, BoundInv PROVE PushTypeOK
    OBVIOUS
  <2>1. /\ {stash, gen, vgen, lastGen} \subseteq Nat /\ value \in 0 .. MaxValue
        /\ {MaxLine, MaxValue} \subseteq Nat
    BY PumpNums, DataPushAssumption DEF PushInv, PushTypes
  <2>2. gen \in 0 .. MaxLine /\ vgen \in 0 .. MaxValue /\ lastGen \in 0 .. gen
    BY <2>1 DEF PushInv, PumpInv, KeyInv, BoundInv
  <2>3. \A t \in Tasks : pump[t].pc \in PumpPCs
    BY DEF PushInv, PushTypes, PumpType
  <2>4. sweep \in SweepPCs
    BY DEF PushInv, PushTypes
  <2>5. stash \in {gen, gen + 1} /\ value \in {vgen, vgen + 1}
    BY DEF PushInv, PumpInv, KeyInv
  <2>6. Len(ring) <= RingCap
    BY DEF PushInv, SeqInv
  <2> QED BY <2>2, <2>3, <2>4, <2>5, <2>6 DEF PushTypeOK, PumpPCs, SweepPCs, BoundInv, Fits
<1> QED BY <1>1, <1>2, <1>3, AlwaysPushInv, PTL DEF PushSpec

=============================================================================
