----------------------------- MODULE Sync_proofs -----------------------------
(***************************************************************************)
(* The synchronisation every component stands on: the run-once guard for   *)
(* any callers, any number of failures and both primitives of bb_once.h,   *)
(* and bb_lock_cond for any waiters and signallers and any amount of work. *)
(*                                                                         *)
(* Once.  AttemptInv is what the return values need to be inductive: the   *)
(* winner's position tells whether the lock exists, and a loser that can   *)
(* see IDLE has lived through the failed attempt that reset the guard.     *)
(*                                                                         *)
(* LockCond.  NoUseAfterFree needs GuardInv: a signaller has the guard for *)
(* as long as it holds a popped node, and the guard is what a waiter takes *)
(* before it deletes its semaphore.  NoLostWakeup needs that the list      *)
(* holds nobody twice and nobody who was popped (ListInv), so that a pop   *)
(* wakes somebody who was not awake, and that a popped waiter answers OK   *)
(* however its own timeout fell out (WokenInv).                            *)
(***************************************************************************)
EXTENDS Once, LockCond, TLAPS, FiniteSetTheorems, SequenceTheorems

(***************************************************************************)
(* The run-once guard.                                                     *)
(***************************************************************************)

\* What OneRunner and the return-value properties need to be inductive: the
\* winner's position tells whether the lock exists, and a loser that can see
\* IDLE has lived through the failed attempt that reset the guard.
AttemptInv ==
    /\ \A c \in Callers : at[c] = "fn" => ~ initialized
    /\ \A c \in Callers : at[c] = "store" => (ok[c] <=> initialized)
    /\ bb_once_state = "IDLE" => ~ initialized
    /\ created = IF initialized THEN 1 ELSE 0
    /\ \A c \in Callers : at[c] = "spin" /\ bb_once_state = "IDLE" => sawFail[c]

OnceInv == OnceTypeOK /\ OneRunner /\ AttemptInv /\ TrueMeansCreated /\ FalseIsHonest

\* Before any call the guard is IDLE and nothing exists.
LEMMA InitOnceInv == OnceInit => OnceInv
<1> SUFFICES ASSUME OnceInit PROVE OnceInv
  OBVIOUS
<1>1. OnceTypeOK
  <2>1. created \in Nat /\ fails \in 0..MaxFails
    BY OnceAssumption DEF OnceInit
  <2>2. at \in [Callers -> PCs] /\ bb_once_state \in GuardStates
    BY DEF OnceInit, PCs, GuardStates
  <2>3. ok \in [Callers -> BOOLEAN] /\ sawFail \in [Callers -> BOOLEAN] /\ initialized \in BOOLEAN
    BY DEF OnceInit
  <2> QED BY <2>1, <2>2, <2>3 DEF OnceTypeOK
<1>2. bb_once_state = "IDLE" /\ initialized = FALSE /\ created = 0
      /\ \A c \in Callers : at[c] = "out"
  BY DEF OnceInit
<1>3. OneRunner /\ TrueMeansCreated /\ FalseIsHonest
  BY <1>2 DEF OneRunner, TrueMeansCreated, FalseIsHonest, Winner
<1>4. AttemptInv
  BY <1>2 DEF AttemptInv
<1> QED BY <1>1, <1>3, <1>4 DEF OnceInv

\* Each atomic step of the primitive keeps the invariant.
LEMMA NextOnceInv == OnceInv /\ [OnceNext]_onceVars => OnceInv'
<1> SUFFICES ASSUME OnceInv, [OnceNext]_onceVars PROVE OnceInv'
  OBVIOUS
<1> USE OnceAssumption
<1>1. CASE UNCHANGED onceVars
  BY <1>1 DEF onceVars, OnceInv, OnceTypeOK, OneRunner, AttemptInv, TrueMeansCreated,
              FalseIsHonest, Winner
<1>2. ASSUME NEW c \in Callers, Call(c) PROVE OnceInv'
  BY <1>2 DEF Call, Active, OnceInv, OnceTypeOK, OneRunner, AttemptInv, TrueMeansCreated,
              FalseIsHonest, Winner, PCs
<1>3. ASSUME NEW c \in Callers, CompareExchange(c) PROVE OnceInv'
  <2>1. CASE bb_once_state = "IDLE"
    BY <1>3, <2>1 DEF CompareExchange, OnceInv, OnceTypeOK, OneRunner, AttemptInv,
       TrueMeansCreated, FalseIsHonest, Winner, PCs, GuardStates
  <2>2. CASE bb_once_state # "IDLE"
    BY <1>3, <2>2 DEF CompareExchange, OnceInv, OnceTypeOK, OneRunner, AttemptInv,
       TrueMeansCreated, FalseIsHonest, Winner, PCs
  <2> QED BY <2>1, <2>2
<1>4. ASSUME NEW c \in Callers, RunSucceeds(c) PROVE OnceInv'
  BY <1>4 DEF RunSucceeds, OnceInv, OnceTypeOK, OneRunner, AttemptInv, TrueMeansCreated,
              FalseIsHonest, Winner, PCs
<1>5. ASSUME NEW c \in Callers, RunFails(c) PROVE OnceInv'
  BY <1>5 DEF RunFails, OnceInv, OnceTypeOK, OneRunner, AttemptInv, TrueMeansCreated,
              FalseIsHonest, Winner, PCs
<1>6. ASSUME NEW c \in Callers, Publish(c) PROVE OnceInv'
  <2>1. bb_once_state = "RUNNING" /\ \A d \in Callers : Winner(d) => d = c
    BY <1>6 DEF Publish, OnceInv, OneRunner, Winner
  <2>2. CASE ok[c]
    BY <1>6, <2>1, <2>2 DEF Publish, Outcome, Returned, OnceInv, OnceTypeOK, OneRunner,
       AttemptInv, TrueMeansCreated, FalseIsHonest, Winner, PCs, GuardStates, Active
  <2>3. CASE ~ ok[c] /\ Fallible
    BY <1>6, <2>1, <2>3 DEF Publish, Outcome, Returned, OnceInv, OnceTypeOK, OneRunner,
       AttemptInv, TrueMeansCreated, FalseIsHonest, Winner, PCs, GuardStates, Active
  <2>4. CASE ~ ok[c] /\ ~ Fallible
    BY <1>6, <2>1, <2>4 DEF Publish, Outcome, Returned, OnceInv, OnceTypeOK, OneRunner,
       AttemptInv, TrueMeansCreated, FalseIsHonest, Winner, PCs, GuardStates, Active
  <2> QED BY <2>2, <2>3, <2>4
<1>7. ASSUME NEW c \in Callers, Poll(c) PROVE OnceInv'
  BY <1>7 DEF Poll, Returned, OnceInv, OnceTypeOK, OneRunner, AttemptInv,
              TrueMeansCreated, FalseIsHonest, Winner, PCs
<1> QED
  BY <1>1, <1>2, <1>3, <1>4, <1>5, <1>6, <1>7 DEF OnceNext, Step

\* The inductive invariant holds in every reachable state.
LEMMA AlwaysOnceInv == OnceSpec => []OnceInv
  BY InitOnceInv, NextOnceInv, PTL DEF OnceSpec

\* bb_once_run/bb_once_run_fallible admit one runner at a time.
THEOREM OneRunnerHolds == OnceSpec => []OneRunner
<1>1. OnceInv => OneRunner
  BY DEF OnceInv
<1> QED BY <1>1, AlwaysOnceInv, PTL

\* bb_lock_once_ensure's OK really means the lock is initialized.
THEOREM TrueMeansCreatedHolds == OnceSpec => []TrueMeansCreated
<1>1. OnceInv => TrueMeansCreated
  BY DEF OnceInv
<1> QED BY <1>1, AlwaysOnceInv, PTL

\* bb_lock_init succeeds at most once per guard.
THEOREM CreatedOnceHolds == OnceSpec => []CreatedOnce
<1>1. OnceInv => CreatedOnce
  BY DEF OnceInv, AttemptInv, CreatedOnce, OnceTypeOK
<1> QED BY <1>1, AlwaysOnceInv, PTL

\* A false result always has a failed attempt behind it.
THEOREM FalseIsHonestHolds == OnceSpec => []FalseIsHonest
<1>1. OnceInv => FalseIsHonest
  BY DEF OnceInv
<1> QED BY <1>1, AlwaysOnceInv, PTL

(***************************************************************************)
(* The condition variable.                                                 *)
(***************************************************************************)

(* The positions a waiter's and a signaller's program can be at.           *)
WaiterPC == {"out", "locked", "unlock", "take", "gotIt", "gotNot", "relock"}
SignallerPC == {"out", "signal", "broadcast", "done"}

TypeInv ==
    /\ waiters \in Seq(Waiters)
    /\ guard \in Signallers \cup {None}
    /\ lock \in Waiters \cup Signallers \cup {None}
    /\ sem \in [Waiters -> {"dead", "empty", "full"}]
    /\ pc \in [Waiters \cup Signallers -> WaiterPC \cup SignallerPC]
    /\ \A x \in Waiters : pc[x] \in WaiterPC
    /\ \A s \in Signallers : pc[s] \in SignallerPC
    /\ rc \in [Waiters -> {"OK", "TIMEOUT"}]
    /\ victim \in [Signallers -> Waiters \cup {None}]
    /\ popped \in [Waiters -> BOOLEAN]
    /\ work \in 0 .. MaxWork

(* Who is on the list sleeps in wait, on a live semaphore, not yet popped; *)
(* nobody is on it twice.                                                  *)
ListInv ==
    /\ IsInjective(waiters)
    /\ \A x \in Waiters : Linked(x) => /\ pc[x] \in {"unlock", "take", "gotIt", "gotNot"}
                                       /\ sem[x] # "dead" /\ ~popped[x]

(* A signaller with a node in hand has the guard, and the node is live.    *)
GuardInv ==
    \A s \in Signallers : victim[s] # None =>
        guard = s /\ pc[s] \in {"signal", "broadcast"} /\ sem[victim[s]] # "dead"

(* A popped waiter answers OK.                                             *)
WokenInv == \A x \in Waiters : pc[x] = "relock" /\ popped[x] => rc[x] = "OK"

(* While somebody sleeps, every unit of work has somebody on its way.      *)
AwakeSet == {w \in Waiters : Awake(w)}
SignalSet == {s \in Signallers : pc[s] = "signal" /\ victim[s] = None}
Enough == work <= Cardinality(AwakeSet) + Cardinality(SignalSet)
WakeInv == waiters # <<>> => (\E s \in Signallers : pc[s] = "broadcast") \/ Enough

IInv == TypeInv /\ ListInv /\ GuardInv /\ WokenInv /\ WakeInv

-----------------------------------------------------------------------------
(* bb_lock_cond_waiterlist_remove on a list that holds nobody twice takes  *)
(* off exactly the one it was asked for.                                   *)
LEMMA RemoveFirstProps ==
    ASSUME NEW S, NEW s \in Seq(S), IsInjective(s), NEW e
    PROVE  /\ RemoveFirst(s, e) \in Seq(S)
           /\ IsInjective(RemoveFirst(s, e))
           /\ \A x : Contains(RemoveFirst(s, e), x) <=> Contains(s, x) /\ x # e
<1>1. CASE ~ \E i \in 1 .. Len(s) : s[i] = e
  BY <1>1 DEF RemoveFirst, Contains
<1>2. CASE \E i \in 1 .. Len(s) : s[i] = e
  <2>1. PICK k \in 1 .. Len(s) : s[k] = e
    BY <1>2
  <2>2. {i \in 1 .. Len(s) : s[i] = e} = {k}
    BY <2>1 DEF IsInjective
  <2>3. SelectInSeq(s, LAMBDA v : v = e) = Min({k})
    BY <2>2 DEF SelectInSeq
  <2>4. Min({k}) = k
    BY <2>1 DEF Min
  <2>5. RemoveFirst(s, e) = RemoveAt(s, k)
    BY <1>2, <2>3, <2>4 DEF RemoveFirst
  <2> DEFINE a == SubSeq(s, 1, k - 1)
             b == SubSeq(s, k + 1, Len(s))
             r == a \o b
  <2>6. /\ a \in Seq(S) /\ Len(a) = k - 1 /\ \A i \in 1 .. k - 1 : a[i] = s[i]
        /\ b \in Seq(S) /\ Len(b) = Len(s) - k /\ \A i \in 1 .. Len(s) - k : b[i] = s[k + i]
    BY <2>1, SubSeqProperties
  <2> HIDE DEF a, b
  <2>7. /\ r \in Seq(S) /\ Len(r) = Len(s) - 1
        /\ \A i \in 1 .. Len(s) - 1 : r[i] = IF i < k THEN s[i] ELSE s[i + 1]
    <3>1. /\ r \in Seq(S) /\ Len(r) = Len(a) + Len(b)
          /\ \A i \in 1 .. Len(a) + Len(b) :
                 r[i] = IF i <= Len(a) THEN a[i] ELSE b[i - Len(a)]
      BY <2>6, ConcatProperties
    <3> HIDE DEF r
    <3>2. Len(s) \in Nat /\ Len(a) + Len(b) = Len(s) - 1
      BY <2>1, <2>6, LenProperties
    <3>3. \A i \in 1 .. Len(s) - 1 : r[i] = IF i <= k - 1 THEN a[i] ELSE b[i - (k - 1)]
      BY <2>6, <3>1, <3>2
    <3>4. ASSUME NEW i \in 1 .. Len(s) - 1
          PROVE  r[i] = IF i < k THEN s[i] ELSE s[i + 1]
      <4>1. CASE i < k
        <5>1. i \in 1 .. k - 1 /\ r[i] = a[i]
          BY <2>1, <3>2, <3>3, <4>1
        <5> QED  BY <2>6, <4>1, <5>1
      <4>2. CASE i >= k
        <5>1. r[i] = b[i - (k - 1)] /\ i - (k - 1) \in 1 .. Len(s) - k
          BY <2>1, <3>2, <3>3, <4>2
        <5>2. b[i - (k - 1)] = s[k + (i - (k - 1))]
          BY <2>6, <5>1
        <5>3. k + (i - (k - 1)) = i + 1
          BY <2>1
        <5> QED  BY <2>1, <4>2, <5>1, <5>2, <5>3
      <4> QED  BY <2>1, <4>1, <4>2
    <3> QED  BY <3>1, <3>2, <3>4
  <2> HIDE DEF r
  <2>8. IsInjective(r)
    <3>1. DOMAIN r = 1 .. Len(s) - 1
      BY <2>7
    <3>2. ASSUME NEW i \in 1 .. Len(s) - 1, NEW j \in 1 .. Len(s) - 1, r[i] = r[j]
          PROVE  i = j
      <4> DEFINE p(n) == IF n < k THEN n ELSE n + 1
      <4>1. p(i) \in DOMAIN s /\ p(j) \in DOMAIN s
        BY <2>1
      <4>2. s[p(i)] = s[p(j)]
        BY <2>7, <3>2
      <4>3. p(i) = p(j)
        BY <4>1, <4>2 DEF IsInjective
      <4> QED  BY <2>1, <4>3
    <3> QED  BY <3>1, <3>2 DEF IsInjective
  <2>9. ASSUME NEW x PROVE Contains(r, x) <=> Contains(s, x) /\ x # e
    <3>1. ASSUME Contains(r, x) PROVE Contains(s, x) /\ x # e
      <4>1. PICK j \in 1 .. Len(s) - 1 : r[j] = x
        BY <2>7, <3>1 DEF Contains
      <4>2. PICK i \in 1 .. Len(s) : i # k /\ s[i] = x
        BY <2>1, <2>7, <4>1
      <4> QED  BY <2>1, <4>2 DEF Contains, IsInjective
    <3>2. ASSUME Contains(s, x), x # e PROVE Contains(r, x)
      <4>1. PICK i \in 1 .. Len(s) : s[i] = x
        BY <3>2 DEF Contains
      <4>2. i # k
        BY <2>1, <3>2, <4>1
      <4>3. CASE i < k
        BY <2>1, <2>7, <4>1, <4>3 DEF Contains
      <4>4. CASE i > k
        <5>1. i - 1 \in 1 .. Len(s) - 1 /\ r[i - 1] = s[i]
          BY <2>1, <2>7, <4>1, <4>4
        <5> QED  BY <2>7, <4>1, <5>1 DEF Contains
      <4> QED  BY <4>2, <4>3, <4>4
    <3> QED  BY <3>1, <3>2
  <2>10. RemoveFirst(s, e) = r
    BY <2>5 DEF RemoveAt, r, a, b
  <2> QED  BY <2>7, <2>8, <2>9, <2>10
<1> QED  BY <1>1, <1>2

(* waiter_link puts somebody new in front.                                 *)
LEMMA PushProps ==
    ASSUME NEW S, NEW s \in Seq(S), IsInjective(s), NEW e \in S, ~ Contains(s, e)
    PROVE  /\ <<e>> \o s \in Seq(S)
           /\ IsInjective(<<e>> \o s)
           /\ \A x : Contains(<<e>> \o s, x) <=> Contains(s, x) \/ x = e
<1> DEFINE r == <<e>> \o s
<1>1. /\ r \in Seq(S) /\ Len(r) = Len(s) + 1
      /\ \A i \in 1 .. Len(s) + 1 : r[i] = IF i = 1 THEN e ELSE s[i - 1]
  BY ConcatProperties
<1> HIDE DEF r
<1>2. IsInjective(r)
  <2>1. DOMAIN r = 1 .. Len(s) + 1 /\ DOMAIN s = 1 .. Len(s) /\ Len(s) \in Nat
    BY <1>1, LenProperties
  <2> SUFFICES ASSUME NEW i \in 1 .. Len(s) + 1, NEW j \in 1 .. Len(s) + 1, r[i] = r[j]
               PROVE  i = j
    BY <2>1 DEF IsInjective
  <2>2. CASE i = 1 \/ j = 1
    <3>1. ASSUME NEW n \in 1 .. Len(s) + 1, n # 1 PROVE r[n] # e
      <4>1. n - 1 \in DOMAIN s /\ r[n] = s[n - 1]
        BY <1>1, <2>1, <3>1
      <4> QED  BY <4>1 DEF Contains
    <3>2. r[1] = e
      BY <1>1, <2>1
    <3> QED  BY <2>2, <3>1, <3>2
  <2>3. CASE i # 1 /\ j # 1
    <3>1. i - 1 \in DOMAIN s /\ j - 1 \in DOMAIN s /\ s[i - 1] = s[j - 1]
      BY <1>1, <2>1, <2>3
    <3>2. i - 1 = j - 1
      BY <3>1 DEF IsInjective
    <3> QED  BY <3>2
  <2> QED  BY <2>2, <2>3
<1>3. ASSUME NEW x PROVE Contains(r, x) <=> Contains(s, x) \/ x = e
  <2>1. ASSUME Contains(r, x) PROVE Contains(s, x) \/ x = e
    BY <1>1, <2>1 DEF Contains
  <2>2. ASSUME Contains(s, x) PROVE Contains(r, x)
    <3>1. PICK i \in 1 .. Len(s) : s[i] = x
      BY <2>2 DEF Contains
    <3>2. i + 1 \in 1 .. Len(s) + 1 /\ r[i + 1] = x
      BY <1>1, <3>1
    <3> QED  BY <1>1, <3>2 DEF Contains
  <2>3. ASSUME x = e PROVE Contains(r, x)
    BY <1>1, <2>3 DEF Contains
  <2> QED  BY <2>1, <2>2, <2>3
<1> QED  BY <1>1, <1>2, <1>3 DEF r

(* bb_lock_cond_waiterlist_pop takes off the head.                         *)
LEMMA PopProps ==
    ASSUME NEW S, NEW s \in Seq(S), IsInjective(s), s # <<>>
    PROVE  /\ Head(s) \in S /\ Contains(s, Head(s)) /\ Tail(s) \in Seq(S)
           /\ IsInjective(Tail(s))
           /\ \A x : Contains(Tail(s), x) <=> Contains(s, x) /\ x # Head(s)
<1> DEFINE r == Tail(s)
<1>1. /\ Head(s) = s[1] /\ Len(s) \in Nat \ {0} /\ s[1] \in S
      /\ r \in Seq(S) /\ Len(r) = Len(s) - 1 /\ \A i \in 1 .. Len(s) - 1 : r[i] = s[i + 1]
  BY HeadTailProperties, LenProperties, EmptySeq
<1> HIDE DEF r
<1>2. Contains(s, s[1])
  BY <1>1 DEF Contains
<1>3. IsInjective(r)
  <2>1. DOMAIN r = 1 .. Len(s) - 1 /\ DOMAIN s = 1 .. Len(s)
    BY <1>1, LenProperties
  <2> SUFFICES ASSUME NEW i \in 1 .. Len(s) - 1, NEW j \in 1 .. Len(s) - 1, r[i] = r[j]
               PROVE  i = j
    BY <2>1 DEF IsInjective
  <2>2. i + 1 \in DOMAIN s /\ j + 1 \in DOMAIN s /\ s[i + 1] = s[j + 1]
    BY <1>1, <2>1
  <2>3. i + 1 = j + 1
    BY <2>2 DEF IsInjective
  <2> QED  BY <2>3
<1>4. ASSUME NEW x PROVE Contains(r, x) <=> Contains(s, x) /\ x # s[1]
  <2>1. ASSUME Contains(r, x) PROVE Contains(s, x) /\ x # s[1]
    <3>1. PICK i \in DOMAIN r : r[i] = x
      BY <2>1 DEF Contains
    <3>2. i + 1 \in DOMAIN s /\ 1 \in DOMAIN s /\ s[i + 1] = x /\ i + 1 # 1
      BY <1>1, <3>1
    <3>3. x # s[1]
      BY <3>2 DEF IsInjective
    <3> QED  BY <3>2, <3>3 DEF Contains
  <2>2. ASSUME Contains(s, x), x # s[1] PROVE Contains(r, x)
    <3>1. PICK i \in 1 .. Len(s) : s[i] = x
      BY <2>2 DEF Contains
    <3>2. i - 1 \in 1 .. Len(s) - 1 /\ r[i - 1] = x
      BY <1>1, <2>2, <3>1
    <3> QED  BY <1>1, <3>2 DEF Contains
  <2> QED  BY <2>1, <2>2
<1> QED  BY <1>1, <1>2, <1>3, <1>4 DEF r

-----------------------------------------------------------------------------
PcType == /\ pc \in [Waiters \cup Signallers -> WaiterPC \cup SignallerPC]
          /\ \A x \in Waiters : pc[x] \in WaiterPC
          /\ \A s \in Signallers : pc[s] \in SignallerPC

(* One thread moves.                                                       *)
LEMMA WaiterMoves ==
    ASSUME TypeInv, NEW w \in Waiters, NEW l \in WaiterPC, Goto(w, l)
    PROVE  /\ PcType' /\ pc'[w] = l
           /\ \A x \in Waiters \ {w} : pc'[x] = pc[x]
           /\ \A s \in Signallers : pc'[s] = pc[s]
  BY LockCondAssumption DEF TypeInv, PcType, Goto

(* So with a signaller.                                                    *)
LEMMA SignallerMoves ==
    ASSUME TypeInv, NEW s \in Signallers, NEW l \in SignallerPC, Goto(s, l)
    PROVE  /\ PcType' /\ pc'[s] = l
           /\ \A x \in Waiters : pc'[x] = pc[x]
           /\ \A z \in Signallers \ {s} : pc'[z] = pc[z]
  BY LockCondAssumption DEF TypeInv, PcType, Goto

(* The sets NoLostWakeup counts are finite, before and after a step.       *)
LEMMA CountsFinite ==
    /\ IsFiniteSet(AwakeSet) /\ IsFiniteSet(SignalSet)
    /\ IsFiniteSet(AwakeSet') /\ IsFiniteSet(SignalSet')
<1>1. AwakeSet \subseteq Waiters /\ AwakeSet' \subseteq Waiters
  BY DEF AwakeSet
<1>2. SignalSet \subseteq Signallers /\ SignalSet' \subseteq Signallers
  BY DEF SignalSet
<1> QED  BY <1>1, <1>2, FS_Subset, LockCondAssumption

(* A step that puts nobody to sleep, adds no work and sends nobody away    *)
(* loses no wakeup.                                                        *)
LEMMA WakeKept ==
    ASSUME TypeInv, WakeInv, waiters' # <<>> => waiters # <<>>, work' = work,
           AwakeSet \subseteq AwakeSet', SignalSet \subseteq SignalSet',
           \A s \in Signallers : pc[s] = "broadcast" => pc'[s] = "broadcast"
    PROVE  WakeInv'
<1>1. /\ Cardinality(AwakeSet) <= Cardinality(AwakeSet')
      /\ Cardinality(SignalSet) <= Cardinality(SignalSet')
      /\ Cardinality(AwakeSet) \in Nat /\ Cardinality(AwakeSet') \in Nat
      /\ Cardinality(SignalSet) \in Nat /\ Cardinality(SignalSet') \in Nat
  BY CountsFinite, FS_Subset, FS_CardinalityType
<1>2. Enough => Enough'
  BY <1>1 DEF Enough, TypeInv
<1> QED  BY <1>2 DEF WakeInv

-----------------------------------------------------------------------------
(* The waiting client.                                                     *)
LEMMA WaiterLocksStep == ASSUME IInv, NEW w \in Waiters, WaiterLocks(w) PROVE IInv'
<1>1. /\ pc[w] = "out" /\ lock' = w /\ rc' = [rc EXCEPT ![w] = "OK"] /\ Goto(w, "locked")
      /\ UNCHANGED <<work, guard, waiters, sem, victim, popped>>
  BY DEF WaiterLocks, cond
<1>2. /\ PcType' /\ pc'[w] = "locked"
      /\ \A x \in Waiters \ {w} : pc'[x] = pc[x]
      /\ \A s \in Signallers : pc'[s] = pc[s]
  BY <1>1, WaiterMoves DEF IInv, WaiterPC
<1>3. rc' \in [Waiters -> {"OK", "TIMEOUT"}] /\ rc'[w] = "OK"
      /\ \A x \in Waiters \ {w} : rc'[x] = rc[x]
  BY <1>1 DEF IInv, TypeInv
<1>4. TypeInv'
  BY <1>1, <1>2, <1>3 DEF IInv, TypeInv, PcType
<1>5. ListInv'
  BY <1>1, <1>2 DEF IInv, ListInv, Linked
<1>6. GuardInv'
  BY <1>1, <1>2 DEF IInv, GuardInv
<1>7. WokenInv'
  BY <1>1, <1>2, <1>3 DEF IInv, WokenInv
<1>8. AwakeSet \subseteq AwakeSet' /\ SignalSet \subseteq SignalSet'
  BY <1>1, <1>2, <1>3 DEF AwakeSet, SignalSet, Awake, Inside
<1>9. WakeInv'
  BY <1>1, <1>2, <1>8, WakeKept DEF IInv
<1> QED  BY <1>4, <1>5, <1>6, <1>7, <1>9 DEF IInv

(* The unit of work and the waiter that was awake for it go together.      *)
LEMMA WaiterServedStep == ASSUME IInv, NEW w \in Waiters, WaiterServed(w) PROVE IInv'
<1>1. /\ pc[w] = "locked" /\ rc[w] = "OK" /\ work > 0 /\ work' = work - 1 /\ lock' = None
      /\ Goto(w, "out")
      /\ UNCHANGED <<rc, guard, waiters, sem, victim, popped>>
  BY DEF WaiterServed, cond
<1>2. /\ PcType' /\ pc'[w] = "out"
      /\ \A x \in Waiters \ {w} : pc'[x] = pc[x]
      /\ \A s \in Signallers : pc'[s] = pc[s]
  BY <1>1, WaiterMoves DEF IInv, WaiterPC
<1>3. TypeInv'
  <2>1. work' \in 0 .. MaxWork
    BY <1>1, LockCondAssumption DEF IInv, TypeInv
  <2> QED  BY <1>1, <1>2, <2>1 DEF IInv, TypeInv, PcType
<1>4. ListInv'
  BY <1>1, <1>2 DEF IInv, ListInv, Linked
<1>5. GuardInv' /\ WokenInv'
  BY <1>1, <1>2 DEF IInv, GuardInv, WokenInv
<1>6. w \in AwakeSet /\ AwakeSet' = AwakeSet \ {w} /\ SignalSet' = SignalSet
  BY <1>1, <1>2 DEF AwakeSet, SignalSet, Awake, Inside
<1>7. /\ Cardinality(AwakeSet') = Cardinality(AwakeSet) - 1
      /\ Cardinality(AwakeSet) \in Nat /\ Cardinality(SignalSet) \in Nat
  BY <1>6, CountsFinite, FS_RemoveElement, FS_CardinalityType
<1>8. Enough => Enough'
  BY <1>1, <1>6, <1>7 DEF Enough, IInv, TypeInv
<1>9. WakeInv'
  BY <1>1, <1>2, <1>8 DEF IInv, WakeInv
<1> QED  BY <1>3, <1>4, <1>5, <1>9 DEF IInv

(* A waiter that timed out was not awake for any work.                     *)
LEMMA WaiterGivesUpStep == ASSUME IInv, NEW w \in Waiters, WaiterGivesUp(w) PROVE IInv'
<1>1. /\ pc[w] = "locked" /\ rc[w] = "TIMEOUT" /\ lock' = None /\ Goto(w, "out")
      /\ UNCHANGED <<work, rc, guard, waiters, sem, victim, popped>>
  BY DEF WaiterGivesUp, cond
<1>2. /\ PcType' /\ pc'[w] = "out"
      /\ \A x \in Waiters \ {w} : pc'[x] = pc[x]
      /\ \A s \in Signallers : pc'[s] = pc[s]
  BY <1>1, WaiterMoves DEF IInv, WaiterPC
<1>3. TypeInv'
  BY <1>1, <1>2 DEF IInv, TypeInv, PcType
<1>4. ListInv'
  BY <1>1, <1>2 DEF IInv, ListInv, Linked
<1>5. GuardInv' /\ WokenInv'
  BY <1>1, <1>2 DEF IInv, GuardInv, WokenInv
<1>6. AwakeSet \subseteq AwakeSet' /\ SignalSet \subseteq SignalSet'
  BY <1>1, <1>2 DEF AwakeSet, SignalSet, Awake, Inside
<1>7. WakeInv'
  BY <1>1, <1>2, <1>6, WakeKept DEF IInv
<1> QED  BY <1>3, <1>4, <1>5, <1>7 DEF IInv

-----------------------------------------------------------------------------
(* bb_lock_cond_wait.  A waiter goes to sleep only when there is no work.  *)
LEMMA WaitLinkStep == ASSUME IInv, NEW w \in Waiters, WaitLink(w) PROVE IInv'
<1>1. /\ pc[w] = "locked" /\ work = 0 /\ guard = None /\ Goto(w, "unlock")
      /\ sem' = [sem EXCEPT ![w] = "empty"] /\ waiters' = <<w>> \o waiters
      /\ popped' = [popped EXCEPT ![w] = FALSE]
      /\ UNCHANGED <<lock, rc, work, guard, victim>>
  BY DEF WaitLink
<1>2. /\ PcType' /\ pc'[w] = "unlock"
      /\ \A x \in Waiters \ {w} : pc'[x] = pc[x]
      /\ \A s \in Signallers : pc'[s] = pc[s]
  BY <1>1, WaiterMoves DEF IInv, WaiterPC
<1>3. ~ Contains(waiters, w)
  BY <1>1 DEF IInv, ListInv, Linked
<1>4. /\ waiters' \in Seq(Waiters) /\ IsInjective(waiters')
      /\ \A x : Contains(waiters', x) <=> Contains(waiters, x) \/ x = w
  BY <1>1, <1>3, PushProps DEF IInv, TypeInv, ListInv
<1>5. /\ sem' \in [Waiters -> {"dead", "empty", "full"}] /\ sem'[w] = "empty"
      /\ \A x \in Waiters \ {w} : sem'[x] = sem[x]
  BY <1>1 DEF IInv, TypeInv
<1>6. /\ popped' \in [Waiters -> BOOLEAN] /\ ~popped'[w]
      /\ \A x \in Waiters \ {w} : popped'[x] = popped[x]
  BY <1>1 DEF IInv, TypeInv
<1>7. TypeInv'
  BY <1>1, <1>2, <1>4, <1>5, <1>6 DEF IInv, TypeInv, PcType
<1>8. ListInv'
  BY <1>2, <1>4, <1>5, <1>6 DEF IInv, ListInv, Linked
<1>9. GuardInv'
  BY <1>1, <1>2, LockCondAssumption DEF IInv, GuardInv
<1>10. WokenInv'
  BY <1>1, <1>2, <1>6 DEF IInv, WokenInv
<1>11. Cardinality(AwakeSet') \in Nat /\ Cardinality(SignalSet') \in Nat
  BY CountsFinite, FS_CardinalityType
<1>12. WakeInv'
  BY <1>1, <1>11 DEF WakeInv, Enough
<1> QED  BY <1>7, <1>8, <1>9, <1>10, <1>12 DEF IInv

(* The lock is released with the waiter on the list.                       *)
LEMMA WaitUnlockStep == ASSUME IInv, NEW w \in Waiters, WaitUnlock(w) PROVE IInv'
<1>1. /\ pc[w] = "unlock" /\ lock' = None /\ Goto(w, "take")
      /\ UNCHANGED <<work, rc, guard, waiters, sem, victim, popped>>
  BY DEF WaitUnlock, cond
<1>2. /\ PcType' /\ pc'[w] = "take"
      /\ \A x \in Waiters \ {w} : pc'[x] = pc[x]
      /\ \A s \in Signallers : pc'[s] = pc[s]
  BY <1>1, WaiterMoves DEF IInv, WaiterPC
<1>3. TypeInv'
  BY <1>1, <1>2 DEF IInv, TypeInv, PcType
<1>4. ListInv'
  BY <1>1, <1>2 DEF IInv, ListInv, Linked
<1>5. GuardInv' /\ WokenInv'
  BY <1>1, <1>2 DEF IInv, GuardInv, WokenInv
<1>6. AwakeSet \subseteq AwakeSet' /\ SignalSet \subseteq SignalSet'
  BY <1>1, <1>2 DEF AwakeSet, SignalSet, Awake, Inside
<1>7. WakeInv'
  BY <1>1, <1>2, <1>6, WakeKept DEF IInv
<1> QED  BY <1>3, <1>4, <1>5, <1>7 DEF IInv

(* The semaphore is taken or times out; it stays alive either way.         *)
LEMMA WaitTakeStep == ASSUME IInv, NEW w \in Waiters, WaitTake(w) PROVE IInv'
<1>1. /\ pc[w] = "take" /\ (Goto(w, "gotIt") \/ Goto(w, "gotNot"))
      /\ sem' = [sem EXCEPT ![w] = "empty"] \/ sem' = sem
      /\ UNCHANGED <<lock, rc, work, guard, waiters, victim, popped>>
  BY DEF WaitTake
<1>2. /\ PcType' /\ pc'[w] \in {"gotIt", "gotNot"}
      /\ \A x \in Waiters \ {w} : pc'[x] = pc[x]
      /\ \A s \in Signallers : pc'[s] = pc[s]
  BY <1>1, WaiterMoves DEF IInv, WaiterPC
<1>3. /\ sem' \in [Waiters -> {"dead", "empty", "full"}]
      /\ \A x \in Waiters : sem[x] # "dead" => sem'[x] # "dead"
  BY <1>1 DEF IInv, TypeInv
<1>4. TypeInv'
  BY <1>1, <1>2, <1>3 DEF IInv, TypeInv, PcType
<1>5. ListInv'
  BY <1>1, <1>2, <1>3 DEF IInv, ListInv, Linked
<1>6. GuardInv'
  BY <1>1, <1>2, <1>3 DEF IInv, TypeInv, GuardInv
<1>7. WokenInv'
  BY <1>1, <1>2 DEF IInv, WokenInv
<1>8. AwakeSet \subseteq AwakeSet' /\ SignalSet \subseteq SignalSet'
  BY <1>1, <1>2 DEF AwakeSet, SignalSet, Awake, Inside
<1>9. WakeInv'
  BY <1>1, <1>2, <1>8, WakeKept DEF IInv
<1> QED  BY <1>4, <1>5, <1>6, <1>7, <1>9 DEF IInv

(* The guard is free, so no signaller has this waiter in hand when its     *)
(* semaphore is deleted; and was_still_linked, not the semaphore, decides. *)
LEMMA WaitUnlinkStep == ASSUME IInv, NEW w \in Waiters, WaitUnlink(w) PROVE IInv'
<1>1. /\ pc[w] \in {"gotIt", "gotNot"} /\ guard = None /\ Goto(w, "relock")
      /\ rc' = [rc EXCEPT ![w] = decide_result(Linked(w), pc[w] = "gotIt")]
      /\ sem' = [sem EXCEPT ![w] = "dead"] /\ waiters' = RemoveFirst(waiters, w)
      /\ UNCHANGED <<lock, work, guard, victim, popped>>
  BY DEF WaitUnlink
<1>2. /\ PcType' /\ pc'[w] = "relock"
      /\ \A x \in Waiters \ {w} : pc'[x] = pc[x]
      /\ \A s \in Signallers : pc'[s] = pc[s]
  BY <1>1, WaiterMoves DEF IInv, WaiterPC
<1>3. /\ waiters' \in Seq(Waiters) /\ IsInjective(waiters')
      /\ \A x : Contains(waiters', x) <=> Contains(waiters, x) /\ x # w
  BY <1>1, RemoveFirstProps DEF IInv, TypeInv, ListInv
<1>4. /\ sem' \in [Waiters -> {"dead", "empty", "full"}]
      /\ \A x \in Waiters \ {w} : sem'[x] = sem[x]
  BY <1>1 DEF IInv, TypeInv
<1>5. /\ rc' \in [Waiters -> {"OK", "TIMEOUT"}] /\ (~ Linked(w) => rc'[w] = "OK")
      /\ \A x \in Waiters \ {w} : rc'[x] = rc[x]
  BY <1>1 DEF IInv, TypeInv, decide_result
<1>6. TypeInv'
  BY <1>1, <1>2, <1>3, <1>4, <1>5 DEF IInv, TypeInv, PcType
<1>7. ListInv'
  BY <1>1, <1>2, <1>3, <1>4 DEF IInv, ListInv, Linked
<1>8. GuardInv'
  BY <1>1, <1>2, LockCondAssumption DEF IInv, GuardInv
<1>9. popped[w] => ~ Linked(w)
  BY DEF IInv, ListInv
<1>10. WokenInv'
  BY <1>1, <1>2, <1>5, <1>9 DEF IInv, WokenInv
<1>11. AwakeSet \subseteq AwakeSet' /\ SignalSet \subseteq SignalSet'
  BY <1>1, <1>2, <1>5 DEF AwakeSet, SignalSet, Awake, Inside
<1>12. waiters' # <<>> => waiters # <<>>
  <2> SUFFICES ASSUME waiters = <<>> PROVE waiters' = <<>>
    OBVIOUS
  <2> QED  BY <1>1 DEF RemoveFirst
<1>13. WakeInv'
  BY <1>1, <1>2, <1>11, <1>12, WakeKept DEF IInv
<1> QED  BY <1>6, <1>7, <1>8, <1>10, <1>13 DEF IInv

(* A popped waiter comes back to look at the predicate.                    *)
LEMMA WaitRelockStep == ASSUME IInv, NEW w \in Waiters, WaitRelock(w) PROVE IInv'
<1>1. /\ pc[w] = "relock" /\ lock' = w /\ Goto(w, "locked")
      /\ UNCHANGED <<work, rc, guard, waiters, sem, victim, popped>>
  BY DEF WaitRelock, cond
<1>2. /\ PcType' /\ pc'[w] = "locked"
      /\ \A x \in Waiters \ {w} : pc'[x] = pc[x]
      /\ \A s \in Signallers : pc'[s] = pc[s]
  BY <1>1, WaiterMoves DEF IInv, WaiterPC
<1>3. TypeInv'
  BY <1>1, <1>2 DEF IInv, TypeInv, PcType
<1>4. ListInv'
  BY <1>1, <1>2 DEF IInv, ListInv, Linked
<1>5. GuardInv' /\ WokenInv'
  BY <1>1, <1>2 DEF IInv, GuardInv, WokenInv
<1>6. popped[w] => rc[w] = "OK"
  BY <1>1 DEF IInv, WokenInv
<1>7. AwakeSet \subseteq AwakeSet' /\ SignalSet \subseteq SignalSet'
  BY <1>1, <1>2, <1>6 DEF AwakeSet, SignalSet, Awake, Inside
<1>8. WakeInv'
  BY <1>1, <1>2, <1>7, WakeKept DEF IInv
<1> QED  BY <1>3, <1>4, <1>5, <1>8 DEF IInv

-----------------------------------------------------------------------------
(* The signalling client: work comes with a signal, or with a broadcast.   *)
LEMMA SignallerLocksStep == ASSUME IInv, NEW s \in Signallers, SignallerLocks(s) PROVE IInv'
<1>1. /\ pc[s] = "out" /\ lock' = s
      /\ UNCHANGED <<rc, guard, waiters, sem, victim, popped>>
  BY DEF SignallerLocks, cond
<1>2. victim[s] = None
  BY <1>1 DEF IInv, GuardInv
<1>3. CASE work + 1 <= MaxWork /\ work' = work + 1 /\ Goto(s, "signal")
  <2>1. /\ PcType' /\ pc'[s] = "signal"
        /\ \A x \in Waiters : pc'[x] = pc[x]
        /\ \A z \in Signallers \ {s} : pc'[z] = pc[z]
    BY <1>3, SignallerMoves DEF IInv, SignallerPC
  <2>2. TypeInv'
    BY <1>1, <1>3, <2>1, LockCondAssumption DEF IInv, TypeInv, PcType
  <2>3. ListInv'
    BY <1>1, <2>1 DEF IInv, ListInv, Linked
  <2>4. GuardInv' /\ WokenInv'
    BY <1>1, <1>2, <2>1 DEF IInv, GuardInv, WokenInv
  <2>5. s \notin SignalSet /\ SignalSet' = SignalSet \cup {s} /\ AwakeSet' = AwakeSet
    BY <1>1, <1>2, <2>1 DEF AwakeSet, SignalSet, Awake, Inside
  <2>6. /\ Cardinality(SignalSet') = Cardinality(SignalSet) + 1
        /\ Cardinality(AwakeSet) \in Nat /\ Cardinality(SignalSet) \in Nat
    BY <2>5, CountsFinite, FS_AddElement, FS_CardinalityType
  <2>7. Enough => Enough'
    BY <1>3, <2>5, <2>6 DEF Enough, IInv, TypeInv
  <2>8. \A z \in Signallers : pc[z] = "broadcast" => pc'[z] = "broadcast"
    BY <1>1, <2>1
  <2>9. WakeInv'
    BY <1>1, <2>7, <2>8 DEF IInv, WakeInv
  <2> QED  BY <2>2, <2>3, <2>4, <2>9 DEF IInv
<1>4. CASE work < MaxWork /\ work' = MaxWork /\ Goto(s, "broadcast")
  <2>1. /\ PcType' /\ pc'[s] = "broadcast"
        /\ \A x \in Waiters : pc'[x] = pc[x]
        /\ \A z \in Signallers \ {s} : pc'[z] = pc[z]
    BY <1>4, SignallerMoves DEF IInv, SignallerPC
  <2>2. TypeInv'
    BY <1>1, <1>4, <2>1, LockCondAssumption DEF IInv, TypeInv, PcType
  <2>3. ListInv'
    BY <1>1, <2>1 DEF IInv, ListInv, Linked
  <2>4. GuardInv' /\ WokenInv'
    BY <1>1, <1>2, <2>1 DEF IInv, GuardInv, WokenInv
  <2>5. WakeInv'
    BY <2>1 DEF WakeInv
  <2> QED  BY <2>2, <2>3, <2>4, <2>5 DEF IInv
<1> QED  BY <1>3, <1>4 DEF SignallerLocks

(* The head was asleep: popping it makes somebody awake who was not, in    *)
(* exchange for the signal.                                                *)
LEMMA PopStep == ASSUME IInv, NEW s \in Signallers, Pop(s) PROVE IInv'
<1> DEFINE hd == Head(waiters)
<1>1. /\ pc[s] \in {"signal", "broadcast"} /\ guard \in {None, s} /\ victim[s] = None
      /\ waiters # <<>> /\ guard' = s /\ victim' = [victim EXCEPT ![s] = hd]
      /\ popped' = [popped EXCEPT ![hd] = TRUE] /\ waiters' = Tail(waiters)
      /\ UNCHANGED <<lock, pc, rc, work, sem>>
  BY DEF Pop
<1>2. /\ hd \in Waiters /\ Contains(waiters, hd) /\ waiters' \in Seq(Waiters)
      /\ IsInjective(waiters')
      /\ \A x : Contains(waiters', x) <=> Contains(waiters, x) /\ x # hd
  BY <1>1, PopProps DEF IInv, TypeInv, ListInv
<1> HIDE DEF hd
<1>3. /\ pc[hd] \in {"unlock", "take", "gotIt", "gotNot"} /\ sem[hd] # "dead" /\ ~popped[hd]
  BY <1>2 DEF IInv, ListInv, Linked
<1>4. /\ victim' \in [Signallers -> Waiters \cup {None}] /\ victim'[s] = hd
      /\ \A z \in Signallers \ {s} : victim'[z] = victim[z]
  BY <1>1, <1>2 DEF IInv, TypeInv
<1>5. /\ popped' \in [Waiters -> BOOLEAN] /\ popped'[hd]
      /\ \A x \in Waiters \ {hd} : popped'[x] = popped[x]
  BY <1>1, <1>2 DEF IInv, TypeInv
<1>6. TypeInv'
  BY <1>1, <1>2, <1>4, <1>5 DEF IInv, TypeInv
<1>7. ListInv'
  BY <1>1, <1>2, <1>5 DEF IInv, ListInv, Linked
<1>8. GuardInv'
  BY <1>1, <1>3, <1>4, LockCondAssumption DEF IInv, GuardInv
<1>9. WokenInv'
  BY <1>1, <1>3, <1>5 DEF IInv, WokenInv
<1>10. CASE pc[s] = "broadcast"
  BY <1>1, <1>6, <1>7, <1>8, <1>9, <1>10 DEF IInv, WakeInv
<1>11. CASE pc[s] = "signal"
  <2>1. hd \notin AwakeSet
    BY <1>3 DEF AwakeSet, Awake
  <2>2. AwakeSet' = AwakeSet \cup {hd}
    BY <1>1, <1>2, <1>3, <1>5 DEF AwakeSet, Awake, Inside
  <2>3. s \in SignalSet /\ SignalSet' = SignalSet \ {s}
    BY <1>1, <1>2, <1>4, <1>11, LockCondAssumption DEF SignalSet
  <2>4. /\ Cardinality(AwakeSet') = Cardinality(AwakeSet) + 1
        /\ Cardinality(SignalSet') = Cardinality(SignalSet) - 1
        /\ Cardinality(AwakeSet) \in Nat /\ Cardinality(SignalSet) \in Nat
    BY <2>1, <2>2, <2>3, CountsFinite, FS_AddElement, FS_RemoveElement, FS_CardinalityType
  <2>5. Enough => Enough'
    BY <1>1, <2>4 DEF Enough, IInv, TypeInv
  <2>6. WakeInv'
    BY <1>1, <2>5 DEF IInv, WakeInv
  <2> QED  BY <1>6, <1>7, <1>8, <1>9, <2>6 DEF IInv
<1> QED  BY <1>1, <1>10, <1>11

(* The node in hand is given to, and let go of.                            *)
LEMMA GiveStep == ASSUME IInv, NEW s \in Signallers, Give(s) PROVE IInv'
<1>1. /\ victim[s] # None /\ victim' = [victim EXCEPT ![s] = None]
      /\ sem' = [sem EXCEPT ![victim[s]] = IF @ = "dead" THEN "dead" ELSE "full"]
      /\ UNCHANGED <<lock, rc, work, waiters, popped>>
  BY DEF Give
<1>2. /\ victim[s] \in Waiters /\ guard = s /\ pc[s] \in {"signal", "broadcast"}
  BY <1>1 DEF IInv, TypeInv, GuardInv
<1>3. /\ sem' \in [Waiters -> {"dead", "empty", "full"}]
      /\ \A x \in Waiters : sem[x] # "dead" => sem'[x] # "dead"
  BY <1>1, <1>2 DEF IInv, TypeInv
<1>4. /\ victim' \in [Signallers -> Waiters \cup {None}] /\ victim'[s] = None
      /\ \A z \in Signallers \ {s} : victim'[z] = victim[z]
  BY <1>1 DEF IInv, TypeInv
<1>5. /\ PcType' /\ guard' \in {None, s}
      /\ \A x \in Waiters : pc'[x] = pc[x]
      /\ \A z \in Signallers \ {s} : pc'[z] = pc[z]
      /\ pc[s] = "broadcast" => pc'[s] = "broadcast"
  <2>1. CASE pc[s] = "signal"
    <3>1. guard' = None /\ Goto(s, "done")
      BY <2>1 DEF Give
    <3> QED  BY <2>1, <3>1, SignallerMoves DEF IInv, SignallerPC
  <2>2. CASE pc[s] = "broadcast"
    <3>1. UNCHANGED <<guard, pc>>
      BY <2>2 DEF Give
    <3> QED  BY <1>2, <3>1 DEF IInv, TypeInv, PcType
  <2> QED  BY <1>2, <2>1, <2>2
<1>6. TypeInv'
  BY <1>1, <1>3, <1>4, <1>5 DEF IInv, TypeInv, PcType
<1>7. ListInv'
  BY <1>1, <1>3, <1>5 DEF IInv, ListInv, Linked
<1>8. \A z \in Signallers \ {s} : victim[z] = None
  BY <1>2 DEF IInv, GuardInv
<1>9. GuardInv'
  BY <1>4, <1>8 DEF GuardInv
<1>10. WokenInv'
  BY <1>1, <1>5 DEF IInv, WokenInv
<1>11. AwakeSet \subseteq AwakeSet' /\ SignalSet \subseteq SignalSet'
  BY <1>1, <1>4, <1>5 DEF AwakeSet, SignalSet, Awake, Inside
<1>12. WakeInv'
  BY <1>1, <1>5, <1>11, WakeKept DEF IInv
<1> QED  BY <1>6, <1>7, <1>9, <1>10, <1>12 DEF IInv

(* Signal or broadcast ends with nobody on the list.                       *)
LEMMA NoMoreWaitersStep == ASSUME IInv, NEW s \in Signallers, NoMoreWaiters(s) PROVE IInv'
<1>1. /\ pc[s] \in {"signal", "broadcast"} /\ guard \in {None, s} /\ victim[s] = None
      /\ waiters = <<>> /\ guard' = None /\ Goto(s, "done")
      /\ UNCHANGED <<lock, rc, work, waiters, sem, victim, popped>>
  BY DEF NoMoreWaiters
<1>2. /\ PcType'
      /\ \A x \in Waiters : pc'[x] = pc[x]
  BY <1>1, SignallerMoves DEF IInv, SignallerPC
<1>3. TypeInv'
  BY <1>1, <1>2 DEF IInv, TypeInv, PcType
<1>4. ListInv'
  BY <1>1, <1>2 DEF IInv, ListInv, Linked
<1>5. \A z \in Signallers : victim[z] = None
  BY <1>1, LockCondAssumption DEF IInv, GuardInv
<1>6. GuardInv' /\ WokenInv' /\ WakeInv'
  BY <1>1, <1>2, <1>5 DEF IInv, GuardInv, WokenInv, WakeInv
<1> QED  BY <1>3, <1>4, <1>6 DEF IInv

(* The caller's lock is released after the signal.                         *)
LEMMA SignallerUnlocksStep ==
    ASSUME IInv, NEW s \in Signallers, SignallerUnlocks(s) PROVE IInv'
<1>1. /\ pc[s] = "done" /\ lock' = None /\ Goto(s, "out")
      /\ UNCHANGED <<work, rc, guard, waiters, sem, victim, popped>>
  BY DEF SignallerUnlocks, cond
<1>2. /\ PcType' /\ pc'[s] = "out"
      /\ \A x \in Waiters : pc'[x] = pc[x]
      /\ \A z \in Signallers \ {s} : pc'[z] = pc[z]
  BY <1>1, SignallerMoves DEF IInv, SignallerPC
<1>3. TypeInv'
  BY <1>1, <1>2 DEF IInv, TypeInv, PcType
<1>4. ListInv'
  BY <1>1, <1>2 DEF IInv, ListInv, Linked
<1>5. GuardInv' /\ WokenInv'
  BY <1>1, <1>2 DEF IInv, GuardInv, WokenInv
<1>6. AwakeSet \subseteq AwakeSet' /\ SignalSet \subseteq SignalSet'
  BY <1>1, <1>2 DEF AwakeSet, SignalSet, Awake, Inside
<1>7. WakeInv'
  BY <1>1, <1>2, <1>6, WakeKept DEF IInv
<1> QED  BY <1>3, <1>4, <1>5, <1>7 DEF IInv

-----------------------------------------------------------------------------
(* Nobody waits and there is no work at first.                             *)
LEMMA InitIInv == Init => IInv
<1> SUFFICES ASSUME Init PROVE IInv
  OBVIOUS
<1>1. TypeInv
  BY LockCondAssumption DEF Init, TypeInv, WaiterPC, SignallerPC
<1>2. ListInv /\ GuardInv
  BY DEF Init, ListInv, GuardInv, Linked, Contains, IsInjective
<1>3. WokenInv /\ WakeInv
  BY DEF Init, WokenInv, WakeInv
<1> QED  BY <1>1, <1>2, <1>3 DEF IInv

(* The invariant is inductive.                                             *)
LEMMA NextIInv == IInv /\ [Next]_vars => IInv'
<1> SUFFICES ASSUME IInv, [Next]_vars PROVE IInv'
  OBVIOUS
<1>1. ASSUME NEW w \in Waiters, WaiterLocks(w) \/ WaiterStep(w) PROVE IInv'
  BY <1>1, WaiterLocksStep, WaiterServedStep, WaiterGivesUpStep, WaitLinkStep, WaitUnlockStep,
     WaitTakeStep, WaitUnlinkStep, WaitRelockStep DEF WaiterStep
<1>2. ASSUME NEW s \in Signallers, SignallerLocks(s) \/ SignallerStep(s) PROVE IInv'
  BY <1>2, SignallerLocksStep, PopStep, GiveStep, NoMoreWaitersStep, SignallerUnlocksStep
  DEF SignallerStep
<1>3. CASE UNCHANGED vars
  BY <1>3 DEF vars, cond, IInv, TypeInv, ListInv, GuardInv, WokenInv, WakeInv, Linked, Enough,
     AwakeSet, SignalSet, Awake, Inside
<1> QED  BY <1>1, <1>2, <1>3 DEF Next

(* So it always holds.                                                     *)
LEMMA AlwaysIInv == Spec => []IInv
<1> QED  BY InitIInv, NextIInv, PTL DEF Spec

(* The list holds each waiter at most once, only waiters inside wait, and  *)
(* only with a live semaphore: no node of impl->waiters outlives the stack *)
(* frame it lives in.                                                      *)
THEOREM TypeCorrect == Spec => []TypeOK
<1>1. IInv => TypeOK
  BY DEF IInv, TypeInv, ListInv, TypeOK
<1> QED  BY <1>1, AlwaysIInv, PTL

(* bb_lock_cond_signal and _broadcast never give to a semaphore that its   *)
(* waiter has already deleted, whenever that waiter's timeout strikes.     *)
THEOREM NoUseAfterFreeHolds == Spec => []NoUseAfterFree
<1>1. IInv => NoUseAfterFree
  BY DEF IInv, GuardInv, NoUseAfterFree
<1> QED  BY <1>1, AlwaysIInv, PTL

(* While somebody sleeps on the list, every unit of work has a woken       *)
(* waiter or a signaller on its way to it.                                 *)
THEOREM NoLostWakeupHolds == Spec => []NoLostWakeup
<1>1. IInv => NoLostWakeup
  <2> DEFINE B == {s \in Signallers : pc[s] = "broadcast"}
  <2> SUFFICES ASSUME IInv, waiters # <<>>
               PROVE  work <= Cardinality(AwakeSet) + Cardinality(SignalSet)
                              + MaxWork * Cardinality(B)
    BY DEF NoLostWakeup, AwakeSet, SignalSet
  <2>1. IsFiniteSet(B)
    BY FS_Subset, LockCondAssumption
  <2>2. /\ Cardinality(AwakeSet) \in Nat /\ Cardinality(SignalSet) \in Nat
        /\ Cardinality(B) \in Nat
    BY <2>1, CountsFinite, FS_CardinalityType
  <2>3. work \in 0 .. MaxWork /\ MaxWork \in Nat
    BY LockCondAssumption DEF IInv, TypeInv
  <2>4. CASE Enough
    <3>1. MaxWork * Cardinality(B) \in Nat
      BY <2>2, <2>3
    <3> QED  BY <2>2, <2>3, <2>4, <3>1 DEF Enough
  <2>5. CASE \E s \in Signallers : pc[s] = "broadcast"
    <3>1. Cardinality(B) # 0
      BY <2>1, <2>5, FS_EmptySet
    <3>2. \A m, c \in Nat : c # 0 => m * c >= m /\ m * c \in Nat
      OBVIOUS
    <3>3. MaxWork * Cardinality(B) >= MaxWork /\ MaxWork * Cardinality(B) \in Nat
      BY <2>2, <2>3, <3>1, <3>2
    <3> QED  BY <2>2, <2>3, <3>3
  <2> QED  BY <2>4, <2>5 DEF IInv, WakeInv
<1> QED  BY <1>1, AlwaysIInv, PTL

=============================================================================
