-------------------------- MODULE CacheSlots_proofs --------------------------
(***************************************************************************)
(* The four invariants of CacheSlots for any number of slots, keys and     *)
(* tasks.                                                                  *)
(*                                                                         *)
(* What the generations are for is RefInv: a captured reference is either  *)
(* still the incarnation that was looked up, owned and under its key, or   *)
(* the slot's generation has moved past it.  It needs to know that a slot  *)
(* whose key is set but which is not owned is in the hands of the holder   *)
(* of s_reg_lock (SlotInv, HeldInv), because bb_cache_register writes the  *)
(* key before the rest and the teardown frees the key last.                *)
(***************************************************************************)
EXTENDS CacheSlots, TLAPS, WellFoundedInduction

(* The records of the two tables.                                          *)
SlotRec == [key : Keys \cup {None}, gen : Nat, owned : BOOLEAN, ver : Nat, age : Ages,
            judged : BOOLEAN]
TaskRec == [pc : PCs, op : Ops, key : Keys \cup {None}, ref : Slots \cup {NoSlot}, gen : Nat,
            from : Slots \cup {NoSlot}]

(* Who holds s_reg_lock, and each slot's lock, is where the tasks stand.   *)
RegInv == \A t \in Threads : th[t].pc \in {"fill", "tear", "clear"} <=> reg = t
LockInv == \A t \in Threads, s \in Slots :
               lock[s] = t <=> th[t].pc = "use" /\ th[t].ref = s

(* What a task at each place has in its hands.                             *)
TaskInv == \A t \in Threads :
    /\ th[t].pc # "idle" => th[t].key \in Keys
    /\ th[t].pc \in {"fill", "lock", "use", "evict", "tear", "clear"} => th[t].ref \in Slots
    /\ th[t].pc = "delete" => th[t].op = "delete"

(* A key is in one slot; a free slot owns nothing; a slot that has a key   *)
(* and owns nothing is being filled or cleared.                            *)
SlotInv ==
    /\ \A s \in Slots : slots[s].key = None => ~slots[s].owned
    /\ \A s, r \in Slots : slots[s].key = slots[r].key /\ slots[s].key # None => s = r
    /\ \A s \in Slots : slots[s].key # None /\ ~slots[s].owned =>
           \E t \in Threads : th[t].pc \in {"fill", "clear"} /\ th[t].ref = s

HeldInv == \A t \in Threads :
    /\ th[t].pc \in {"fill", "tear", "clear"} => slots[th[t].ref].key = th[t].key
    /\ th[t].pc \in {"fill", "clear"} => ~slots[th[t].ref].owned

(* A captured reference is current, or its generation is over.             *)
Current(t) == th[t].gen = slots[th[t].ref].gen
RefInv == \A t \in Threads : th[t].pc \in {"lock", "use", "evict"} =>
    /\ th[t].gen <= slots[th[t].ref].gen
    /\ Current(t) => slots[th[t].ref].owned /\ slots[th[t].ref].key = th[t].key
    /\ th[t].pc = "use" => Current(t)

JudgeInv == \A t \in Threads :
    /\ th[t].pc = "evict" => /\ th[t].from = th[t].ref
                             /\ Current(t) => slots[th[t].ref].judged
    /\ th[t].pc = "tear" /\ th[t].op # "delete" =>
           slots[th[t].ref].judged \/ th[t].ref # th[t].from

TableInv == TypeOK /\ RegInv /\ LockInv /\ TaskInv /\ SlotInv /\ HeldInv /\ RefInv /\ JudgeInv

(* The history of a lookup holds what its key holds now, and an absence if *)
(* the incarnation it looked up is gone.                                   *)
Told == {"upsert", "read", "probe"}
SeenInv == \A t \in Threads : th[t].pc # "idle" =>
    /\ th[t].op \in {"read", "probe"} => Observed(slots, th[t].key) \in seen[t]
    /\ th[t].op = "upsert" /\ Observed(slots, th[t].key) = Absent => Absent \in seen[t]
    /\ th[t].pc \in {"lock", "evict"} /\ th[t].op \in Told /\ ~Current(t) => Absent \in seen[t]

IInv == TableInv /\ SeenInv /\ ResultWasTrue

-----------------------------------------------------------------------------
(* Less-than on the naturals is well-founded, as a plain set of pairs.     *)
LEMMA NatLess == IsWellFoundedOn({p \in Nat \X Nat : p[1] < p[2]}, Nat)
BY NatLessThanWellFounded, Zenon DEF OpToRel

(* The first slot with a key exists whenever some slot has it.             *)
LEMMA FindEntry ==
  ASSUME NEW k
  PROVE  /\ Holding(k) # {} => find_entry(k) \in Holding(k)
         /\ find_entry(k) = NoSlot <=> Holding(k) = {}
<1>1. ASSUME Holding(k) # {} PROVE find_entry(k) \in Holding(k)
  <2> DEFINE Less == {p \in Nat \X Nat : p[1] < p[2]}
  <2>1. Holding(k) \subseteq Nat
    BY CacheAssumption DEF Holding
  <2>2. PICK s \in Holding(k) : \A r \in Holding(k) : ~(<<r, s>> \in Less)
    <3> HIDE DEF Less
    <3>1. IsWellFoundedOn(Less, Nat)
      BY NatLess DEF Less
    <3> QED BY <1>1, <2>1, <3>1, WFMin
  <2>3. ASSUME NEW r \in Holding(k) PROVE s <= r
    <3>1. r \in Nat /\ s \in Nat
      BY <2>1
    <3>2. r < s => <<r, s>> \in Less
      BY <3>1
    <3>3. ~(r < s)
      BY <2>2, <3>2
    <3> QED BY <3>1, <3>3
  <2> QED BY <1>1, <2>3 DEF find_entry
<1> QED BY <1>1, NoneAssumption DEF find_entry, Holding

(* A slot that holds a key of a task, and no other slot, is what a caller  *)
(* may observe.                                                            *)
LEMMA ObservedFacts ==
  ASSUME TypeOK, SlotInv, NEW k \in Keys
  PROVE  /\ Observed(slots, k) \in Nat \X Nat
         /\ \A s \in Slots : slots[s].key = k =>
                Observed(slots, k) = IF slots[s].owned THEN <<slots[s].gen, slots[s].ver>>
                                     ELSE Absent
         /\ Holding(k) = {} => Observed(slots, k) = Absent
<1>1. k # None
  BY NoneAssumption
<1>2. ASSUME NEW s \in Slots, slots[s].key = k
      PROVE  Observed(slots, k) = IF slots[s].owned THEN <<slots[s].gen, slots[s].ver>>
                                  ELSE Absent
  <2>1. \A r \in Slots : slots[r].key = k => r = s
    BY <1>1, <1>2 DEF SlotInv
  <2>2. CASE slots[s].owned
    <3>1. (CHOOSE i \in Slots : slots[i].key = k /\ slots[i].owned) = s
      BY <1>2, <2>1, <2>2
    <3> QED BY <1>2, <2>2, <3>1 DEF Observed
  <2>3. CASE ~slots[s].owned
    BY <1>2, <2>1, <2>3 DEF Observed
  <2> QED BY <2>2, <2>3
<1>3. Holding(k) = {} => Observed(slots, k) = Absent
  BY DEF Holding, Observed
<1>4. Observed(slots, k) \in Nat \X Nat
  <2>1. Absent \in Nat \X Nat
    BY DEF Absent
  <2>2. \A s \in Slots : <<slots[s].gen, slots[s].ver>> \in Nat \X Nat
    BY DEF TypeOK
  <2>3. CASE Holding(k) = {}
    BY <1>3, <2>1, <2>3
  <2>4. CASE Holding(k) # {}
    BY <1>2, <2>1, <2>2, <2>4 DEF Holding
  <2> QED BY <2>3, <2>4
<1> QED BY <1>2, <1>3, <1>4

\* The empty table satisfies the invariant.
LEMMA InitTableInv == Init => TableInv
BY NoneAssumption, CacheAssumption
   DEF Init, TableInv, TypeOK, RegInv, LockInv, TaskInv, SlotInv, HeldInv, RefInv, JudgeInv,
       EmptySlot, IdleThread, PCs, Ops, Ages, Threads

(* A task that ends its call, or begins one, while it holds no lock.       *)
LEMMA IdleStep ==
  ASSUME TableInv, NEW t \in Threads, th[t].pc \notin {"fill", "use", "tear", "clear"},
         th' = [th EXCEPT ![t] = IdleThread], UNCHANGED <<slots, reg, lock>>, TypeOK'
  PROVE  TableInv'
<1> USE DEF TableInv, TypeOK, IdleThread
<1>1. RegInv' /\ LockInv' /\ TaskInv'
  BY DEF RegInv, LockInv, TaskInv
<1>2. SlotInv' /\ HeldInv'
  BY DEF SlotInv, HeldInv
<1>3. RefInv' /\ JudgeInv'
  BY DEF RefInv, JudgeInv, Current
<1> QED BY <1>1, <1>2, <1>3

\* A call enters holding nothing, so it disturbs no slot.
LEMMA EnterStep ==
  ASSUME TableInv, NEW t \in Threads, th[t].pc = "idle",
         NEW k \in Keys, NEW op \in Ops, NEW pc \in {"register", "find", "delete"},
         pc = "delete" => op = "delete",
         th' = [th EXCEPT ![t] = [IdleThread EXCEPT !.pc = pc, !.op = op, !.key = k]],
         UNCHANGED <<slots, reg, lock>>, TypeOK'
  PROVE  TableInv'
<1> USE DEF TableInv, TypeOK, IdleThread
<1>1. RegInv' /\ LockInv' /\ TaskInv'
  BY DEF RegInv, LockInv, TaskInv
<1>2. SlotInv' /\ HeldInv'
  BY DEF SlotInv, HeldInv
<1>3. RefInv' /\ JudgeInv'
  BY DEF RefInv, JudgeInv, Current
<1> QED BY <1>1, <1>2, <1>3

\* Claiming a slot under the registry lock: the new key is in no other slot.
LEMMA RegisterStep ==
  ASSUME TableInv, NEW t \in Threads, Register(t), TypeOK'
  PROVE  TableInv'
<1> USE DEF TableInv
<1>1. CASE Holding(th[t].key) # {}
  <2>0. /\ th' = [th EXCEPT ![t].pc = "find"] /\ UNCHANGED <<slots, reg, lock>>
        /\ th[t].pc = "register"
    BY <1>1 DEF Register, Goto
  <2>1. RegInv' /\ LockInv' /\ TaskInv'
    BY <2>0 DEF TypeOK, RegInv, LockInv, TaskInv
  <2>2. SlotInv' /\ HeldInv'
    BY <2>0 DEF TypeOK, SlotInv, HeldInv
  <2>3. RefInv' /\ JudgeInv'
    BY <2>0 DEF TypeOK, RefInv, JudgeInv, Current
  <2> QED BY <2>1, <2>2, <2>3
<1>2. CASE Return(t) /\ UNCHANGED <<slots, reg>>
  <2>0. /\ th' = [th EXCEPT ![t] = IdleThread] /\ UNCHANGED <<slots, reg, lock>>
        /\ th[t].pc = "register"
    BY <1>2 DEF Register, Return
  <2> QED BY <2>0, IdleStep
<1>3. CASE Holding(th[t].key) = {} /\ ~(Return(t) /\ UNCHANGED <<slots, reg>>)
  <2> DEFINE s == find_entry(None)
  <2>0. /\ slots' = [slots EXCEPT ![s].gen = @ + 1, ![s].key = th[t].key]
        /\ th' = [th EXCEPT ![t].pc = "fill", ![t].ref = s] /\ reg' = t
        /\ UNCHANGED lock /\ th[t].pc = "register" /\ reg = None /\ Holding(None) # {}
    BY <1>3 DEF Register
  <2>1. s \in Slots /\ slots[s].key = None /\ th[t].key \in Keys /\ th[t].key # None
        /\ \A r \in Slots : slots[r].key # th[t].key
    BY <1>3, <2>0, FindEntry, NoneAssumption DEF Holding, TaskInv
  <2>2. ~slots[s].owned /\ slots[s].gen \in Nat
    BY <2>1 DEF SlotInv, TypeOK
  <2> HIDE DEF s
  <2>3. RegInv'
    BY <2>0, <2>1, NoneAssumption DEF TypeOK, RegInv
  <2>4. LockInv' /\ TaskInv'
    BY <2>0, <2>1 DEF TypeOK, LockInv, TaskInv
  <2>5. SlotInv'
    BY <2>0, <2>1, <2>2 DEF TypeOK, SlotInv
  <2>6. \A u \in Threads : u # t => th[u].pc \notin {"fill", "tear", "clear"} /\ th'[u] = th[u]
    BY <2>0, NoneAssumption DEF TypeOK, RegInv
  <2>7. HeldInv'
    BY <2>0, <2>1, <2>2, <2>6 DEF TypeOK, HeldInv
  <2>8. RefInv'
    BY <2>0, <2>1, <2>2, <2>6 DEF TypeOK, RefInv, TaskInv, Current
  <2>9. JudgeInv'
    BY <2>0, <2>1, <2>2, <2>6 DEF TypeOK, RefInv, TaskInv, Current, JudgeInv
  <2> QED BY <2>3, <2>4, <2>5, <2>7, <2>8, <2>9
<1> QED BY <1>1, <1>2, <1>3

\* Filling the claimed slot finishes the registration under the same lock.
LEMMA RegisterFillStep ==
  ASSUME TableInv, NEW t \in Threads, RegisterFill(t), TypeOK'
  PROVE  TableInv'
<1> USE DEF TableInv
<1> DEFINE s == th[t].ref
<1>0. PICK age \in Ages :
        /\ slots' = [slots EXCEPT ![s] =
                       [@ EXCEPT !.owned = TRUE, !.ver = 0, !.age = age, !.judged = FALSE]]
        /\ reg' = None /\ UNCHANGED lock
        /\ th' = [th EXCEPT ![t].pc = "find"] /\ th[t].pc = "fill"
  BY DEF RegisterFill, Goto
<1>1. s \in Slots /\ reg = t /\ slots[s].key = th[t].key /\ ~slots[s].owned
      /\ th[t].key \in Keys /\ th[t].key # None
  BY <1>0, NoneAssumption DEF RegInv, TaskInv, HeldInv
<1>2. \A u \in Threads : u # t => th[u].pc \notin {"fill", "tear", "clear"} /\ th'[u] = th[u]
  BY <1>0, <1>1 DEF TypeOK, RegInv
<1>3. \A r \in Slots : slots'[r].key = slots[r].key /\ slots'[r].gen = slots[r].gen
         /\ (r = s => slots'[r].owned) /\ (r # s => slots'[r] = slots[r])
  BY <1>0, <1>1 DEF TypeOK
<1> HIDE DEF s
<1>4. RegInv' /\ LockInv' /\ TaskInv'
  BY <1>0, <1>1, <1>2, NoneAssumption DEF TypeOK, RegInv, LockInv, TaskInv
<1>5. SlotInv'
  BY <1>0, <1>1, <1>2, <1>3 DEF TypeOK, SlotInv, s
<1>6. HeldInv'
  BY <1>0, <1>1, <1>2, <1>3 DEF TypeOK, HeldInv
<1>7. RefInv'
  BY <1>0, <1>1, <1>2, <1>3 DEF TypeOK, RefInv, TaskInv, Current
<1>8. JudgeInv'
  BY <1>0, <1>1, <1>2, <1>3 DEF TypeOK, RefInv, TaskInv, Current, JudgeInv
<1> QED BY <1>4, <1>5, <1>6, <1>7, <1>8

\* The lookup names a slot and the generation it has, while the registry is free.
LEMMA FindStep ==
  ASSUME TableInv, NEW t \in Threads, find_entry_locked_ref(t), TypeOK'
  PROVE  TableInv'
<1> USE DEF TableInv
<1> DEFINE s == find_entry(th[t].key)
<1>1. CASE s = NoSlot
  <2>1. /\ th' = [th EXCEPT ![t] = IdleThread] /\ UNCHANGED <<slots, reg, lock>>
        /\ th[t].pc = "find"
    BY <1>1 DEF find_entry_locked_ref, Report
  <2> QED BY <2>1, IdleStep
<1>2. CASE s # NoSlot
  <2>1. /\ th' = [th EXCEPT ![t].pc = "lock", ![t].ref = s, ![t].gen = slots[s].gen]
        /\ UNCHANGED <<slots, reg, lock>> /\ th[t].pc = "find" /\ reg = None
    BY <1>2 DEF find_entry_locked_ref
  <2>2. s \in Slots /\ slots[s].key = th[t].key /\ th[t].key \in Keys /\ th[t].key # None
    BY <1>2, <2>1, FindEntry, NoneAssumption DEF Holding, TaskInv
  <2> HIDE DEF s
  <2>3. slots[s].owned /\ slots[s].gen \in Nat
    BY <2>1, <2>2, NoneAssumption DEF SlotInv, RegInv, TypeOK
  <2>4. RegInv' /\ LockInv' /\ TaskInv'
    BY <2>1, <2>2 DEF TypeOK, RegInv, LockInv, TaskInv
  <2>5. SlotInv' /\ HeldInv'
    BY <2>1, <2>2 DEF TypeOK, SlotInv, HeldInv
  <2>6. /\ th'[t].pc = "lock" /\ th'[t].ref = s /\ th'[t].key = th[t].key
        /\ th'[t].gen = slots[s].gen
        /\ \A u \in Threads : u # t => th'[u] = th[u]
        /\ slots' = slots
    BY <2>1 DEF TypeOK
  <2>7. RefInv'
    BY <2>2, <2>3, <2>6 DEF RefInv, Current
  <2>8. JudgeInv'
    BY <2>6 DEF JudgeInv, Current
  <2> QED BY <2>4, <2>5, <2>7, <2>8
<1> QED BY <1>1, <1>2

\* Taking the slot's lock, and comparing key and generation again under it.
LEMMA LockEntryStep ==
  ASSUME TableInv, NEW t \in Threads, LockEntry(t), TypeOK'
  PROVE  TableInv'
<1> USE DEF TableInv
<1>1. CASE entry_matches_locked(t)
  <2>1. /\ lock' = [lock EXCEPT ![th[t].ref] = t] /\ th' = [th EXCEPT ![t].pc = "use"]
        /\ UNCHANGED <<slots, reg>> /\ th[t].pc = "lock" /\ lock[th[t].ref] = None
    BY <1>1 DEF LockEntry, Goto
  <2>2. th[t].ref \in Slots /\ Current(t)
    BY <1>1, <2>1 DEF TaskInv, Current, entry_matches_locked
  <2>3. RegInv' /\ TaskInv'
    BY <2>1, <2>2 DEF TypeOK, RegInv, TaskInv
  <2>4. LockInv'
    BY <2>1, <2>2, NoneAssumption DEF TypeOK, LockInv
  <2>5. SlotInv' /\ HeldInv'
    BY <2>1, <2>2 DEF TypeOK, SlotInv, HeldInv
  <2>6. RefInv' /\ JudgeInv'
    BY <2>1, <2>2 DEF TypeOK, RefInv, JudgeInv, Current
  <2> QED BY <2>3, <2>4, <2>5, <2>6
<1>2. CASE ~entry_matches_locked(t)
  <2>1. /\ th' = [th EXCEPT ![t] = IdleThread] /\ UNCHANGED <<slots, reg, lock>>
        /\ th[t].pc = "lock"
    BY <1>2 DEF LockEntry, Report
  <2> QED BY <2>1, IdleStep
<1> QED BY <1>1, <1>2

(* A task in "use" gives the slot's lock back; what it wrote is not what   *)
(* references are compared with.                                           *)
LEMMA UnlockStep ==
  ASSUME TableInv, NEW t \in Threads, th[t].pc = "use", TypeOK', UNCHANGED reg,
         lock' = [lock EXCEPT ![th[t].ref] = None],
         \A u \in Threads : u # t => th'[u] = th[u],
         th'[t].pc \in {"idle", "evict"},
         th'[t].pc = "evict" => /\ th'[t].key = th[t].key /\ th'[t].gen = th[t].gen
                                /\ th'[t].ref = th[t].ref /\ th'[t].from = th[t].ref
                                /\ slots'[th[t].ref].judged,
         \A r \in Slots : /\ slots'[r].key = slots[r].key /\ slots'[r].gen = slots[r].gen
                          /\ slots'[r].owned <=> slots[r].owned
                          /\ slots[r].judged => slots'[r].judged
  PROVE  TableInv'
<1> USE DEF TableInv
<1>1. th[t].ref \in Slots /\ lock[th[t].ref] = t
  BY DEF TaskInv, LockInv
<1>2. \A u \in Threads : /\ th'[u].pc \in {"fill", "tear", "clear"} => u # t /\ th'[u] = th[u]
                         /\ th[u].pc \in {"fill", "tear", "clear"} => u # t /\ th'[u] = th[u]
  OBVIOUS
<1>3. RegInv' /\ TaskInv'
  BY <1>1, <1>2 DEF RegInv, TaskInv
<1>4. LockInv'
  <2>1. lock'[th[t].ref] = None /\ \A s \in Slots : s # th[t].ref => lock'[s] = lock[s]
    BY <1>1 DEF TypeOK
  <2> QED BY <1>1, <2>1, NoneAssumption DEF LockInv
<1>5. SlotInv' /\ HeldInv'
  BY <1>1, <1>2 DEF SlotInv, HeldInv, TaskInv
<1>6. RefInv'
  BY <1>1, <1>2 DEF RefInv, Current, TaskInv
<1>7. JudgeInv'
  BY <1>1, <1>2 DEF JudgeInv, Current, TaskInv
<1> QED BY <1>3, <1>4, <1>5, <1>6, <1>7

\* The work on the entry, done under its lock.
LEMMA UseStep ==
  ASSUME TableInv, NEW t \in Threads, Update(t) \/ EvictDue(t) \/ Copy(t), TypeOK'
  PROVE  TableInv'
<1> USE DEF TableInv
<1>1. /\ th[t].pc = "use" /\ lock' = [lock EXCEPT ![th[t].ref] = None] /\ UNCHANGED reg
  BY DEF Update, EvictDue, Copy, Unlock
<1>2. th[t].ref \in Slots
  BY <1>1 DEF TaskInv
<1>3. CASE Update(t)
  <2>1. /\ th' = [th EXCEPT ![t] = IdleThread]
        /\ slots' = [slots EXCEPT ![th[t].ref].ver = @ + 1, ![th[t].ref].age = "kept"]
    BY <1>3 DEF Update, Return
  <2>2. th'[t].pc = "idle" /\ \A u \in Threads : u # t => th'[u] = th[u]
    BY <2>1 DEF TypeOK, IdleThread
  <2>3. /\ \A r \in Slots : r # th[t].ref => slots'[r] = slots[r]
        /\ LET old == slots[th[t].ref]
               new == slots'[th[t].ref]
           IN  new.key = old.key /\ new.gen = old.gen /\ new.owned = old.owned
               /\ new.judged = old.judged
    BY <1>2, <2>1 DEF TypeOK
  <2> QED BY <1>1, <2>2, <2>3, UnlockStep
<1>4. CASE EvictDue(t)
  <2>1. /\ th' = [th EXCEPT ![t].pc = "evict", ![t].from = th[t].ref]
        /\ slots' = [slots EXCEPT ![th[t].ref].judged = TRUE]
    BY <1>4 DEF EvictDue
  <2>2. /\ th'[t].pc = "evict" /\ th'[t].key = th[t].key /\ th'[t].gen = th[t].gen
        /\ th'[t].ref = th[t].ref /\ th'[t].from = th[t].ref
        /\ \A u \in Threads : u # t => th'[u] = th[u]
    BY <2>1 DEF TypeOK
  <2>3. /\ slots'[th[t].ref].judged
        /\ \A r \in Slots : /\ slots'[r].key = slots[r].key /\ slots'[r].gen = slots[r].gen
                            /\ slots'[r].owned <=> slots[r].owned
                            /\ slots[r].judged => slots'[r].judged
    BY <1>2, <2>1 DEF TypeOK
  <2> QED BY <1>1, <2>2, <2>3, UnlockStep
<1>5. CASE Copy(t)
  <2>1. th' = [th EXCEPT ![t] = IdleThread] /\ UNCHANGED slots
    BY <1>5 DEF Copy, Return, Report
  <2>2. th'[t].pc = "idle" /\ \A u \in Threads : u # t => th'[u] = th[u]
    BY <2>1 DEF TypeOK, IdleThread
  <2> QED BY <1>1, <2>1, <2>2, UnlockStep
<1> QED BY <1>3, <1>4, <1>5

(* Both kinds of delete end, or take s_reg_lock for the slot they found.   *)
LEMMA DeleteStep ==
  ASSUME TableInv, NEW t \in Threads, DeleteFind(t) \/ delete_if_generation(t), TypeOK'
  PROVE  TableInv'
<1> USE DEF TableInv
<1> DEFINE s == find_entry(th[t].key)
<1>1. /\ th[t].pc \in {"delete", "evict"} /\ reg = None /\ UNCHANGED <<slots, lock>>
      /\ th[t].key \in Keys /\ th[t].key # None
  BY NoneAssumption DEF DeleteFind, delete_if_generation, TaskInv
<1>2. CASE th' = [th EXCEPT ![t] = IdleThread] /\ UNCHANGED reg
  BY <1>1, <1>2, IdleStep
<1>3. CASE ~(th' = [th EXCEPT ![t] = IdleThread] /\ UNCHANGED reg)
  <2>1. /\ th' = [th EXCEPT ![t].pc = "tear", ![t].ref = s] /\ reg' = t /\ s # NoSlot
        /\ th[t].pc = "evict" => slots[s].gen = th[t].gen
    BY <1>3 DEF DeleteFind, delete_if_generation, Report
  <2>2. s \in Slots /\ slots[s].key = th[t].key
    BY <2>1, FindEntry DEF Holding
  <2> HIDE DEF s
  <2>3. \A u \in Threads : u # t => th[u].pc \notin {"fill", "tear", "clear"} /\ th'[u] = th[u]
    BY <1>1, <2>1, NoneAssumption DEF TypeOK, RegInv
  <2>4. RegInv' /\ LockInv' /\ TaskInv'
    BY <1>1, <2>1, <2>2, <2>3, NoneAssumption DEF TypeOK, RegInv, LockInv, TaskInv
  <2>5. SlotInv' /\ HeldInv'
    BY <1>1, <2>1, <2>2, <2>3 DEF TypeOK, SlotInv, HeldInv
  <2>6. RefInv'
    BY <1>1, <2>1, <2>2, <2>3 DEF TypeOK, RefInv, Current
  <2>7. JudgeInv'
    BY <1>1, <2>1, <2>2, <2>3 DEF TypeOK, JudgeInv, Current, TaskInv
  <2> QED BY <2>4, <2>5, <2>6, <2>7
<1> QED BY <1>2, <1>3

\* Tearing an entry down waits for the slot's lock and moves the generation, so no
\* task that found the entry earlier still takes it for its own.
LEMMA TeardownStep ==
  ASSUME TableInv, NEW t \in Threads, Teardown(t), TypeOK'
  PROVE  TableInv'
<1> USE DEF TableInv
<1> DEFINE s == th[t].ref
<1>0. /\ slots' = [slots EXCEPT ![s].owned = FALSE, ![s].ver = 0, ![s].gen = @ + 1]
      /\ UNCHANGED <<reg, lock>> /\ lock[s] = None
      /\ th' = [th EXCEPT ![t].pc = "clear"] /\ th[t].pc = "tear"
  BY DEF Teardown, Goto
<1>1. s \in Slots /\ reg = t /\ slots[s].key = th[t].key
      /\ th[t].key \in Keys /\ th[t].key # None
  BY <1>0, NoneAssumption DEF RegInv, TaskInv, HeldInv
<1>2. \A u \in Threads : u # t => th[u].pc \notin {"fill", "tear", "clear"} /\ th'[u] = th[u]
  BY <1>0, <1>1 DEF TypeOK, RegInv
<1>3. /\ slots'[s].key = slots[s].key /\ ~slots'[s].owned /\ slots'[s].gen = slots[s].gen + 1
      /\ slots[s].gen \in Nat
      /\ \A r \in Slots : r # s => slots'[r] = slots[r]
  BY <1>0, <1>1 DEF TypeOK
<1>4. \A u \in Threads : th[u].pc = "use" => th[u].ref # s
  BY <1>0, <1>1, NoneAssumption DEF LockInv
<1>5. th'[t].ref = s /\ th'[t].pc = "clear" /\ th'[t].key = th[t].key
  BY <1>0 DEF TypeOK
<1> HIDE DEF s
<1>6. RegInv' /\ LockInv' /\ TaskInv'
  BY <1>0, <1>1, <1>2, <1>5 DEF TypeOK, RegInv, LockInv, TaskInv
<1>7. SlotInv'
  <2>1. \A r \in Slots : slots'[r].key = slots[r].key
    BY <1>3
  <2>2. \A r \in Slots : slots'[r].key = None => ~slots'[r].owned
    BY <1>3 DEF SlotInv
  <2>3. \A r \in Slots : slots'[r].key # None /\ ~slots'[r].owned =>
            \E u \in Threads : th'[u].pc \in {"fill", "clear"} /\ th'[u].ref = r
    BY <1>2, <1>3, <1>5, <1>0 DEF SlotInv
  <2> QED BY <2>1, <2>2, <2>3 DEF SlotInv
<1>8. HeldInv'
  <2>1. ASSUME NEW u \in Threads, th'[u].pc \in {"fill", "tear", "clear"} PROVE u = t
    BY <1>2, <2>1
  <2> QED BY <1>1, <1>3, <1>5, <2>1 DEF HeldInv
<1>9. RefInv'
  <2> SUFFICES ASSUME NEW u \in Threads, th'[u].pc \in {"lock", "use", "evict"}
               PROVE  /\ th'[u].gen <= slots'[th'[u].ref].gen
                      /\ Current(u)' => slots'[th'[u].ref].owned
                                        /\ slots'[th'[u].ref].key = th'[u].key
                      /\ th'[u].pc = "use" => Current(u)'
    BY DEF RefInv
  <2>1. u # t /\ th'[u] = th[u]
    BY <1>2, <1>5
  <2>2. th[u].ref \in Slots /\ th[u].gen \in Nat
    BY <2>1 DEF TaskInv, TypeOK
  <2>3. th[u].gen <= slots[th[u].ref].gen
    BY <2>1 DEF RefInv
  <2>4. CASE th[u].ref = s
    <3>1. slots'[th'[u].ref].gen > th'[u].gen
      BY <1>3, <2>1, <2>2, <2>3, <2>4
    <3>2. th'[u].pc # "use"
      BY <1>4, <2>1, <2>4
    <3>3. slots'[th'[u].ref].gen \in Nat
      BY <1>3, <2>1, <2>4
    <3> QED BY <2>1, <2>2, <3>1, <3>2, <3>3 DEF Current
  <2>5. CASE th[u].ref # s
    BY <1>3, <2>1, <2>2, <2>5 DEF RefInv, Current
  <2> QED BY <2>4, <2>5
<1>10. JudgeInv'
  BY <1>1, <1>2, <1>3, <1>4, <1>5 DEF RefInv, TaskInv, Current, JudgeInv
<1> QED BY <1>6, <1>7, <1>8, <1>9, <1>10

\* Emptying the slot, after which it can be claimed again.
LEMMA ClearKeyStep ==
  ASSUME TableInv, NEW t \in Threads, ClearKey(t), TypeOK'
  PROVE  TableInv'
<1> USE DEF TableInv
<1> DEFINE s == th[t].ref
<1>0. /\ slots' = [slots EXCEPT ![s].key = None] /\ reg' = None
      /\ UNCHANGED lock /\ th' = [th EXCEPT ![t] = IdleThread] /\ th[t].pc = "clear"
  BY DEF ClearKey, Return, Report
<1>1. s \in Slots /\ reg = t /\ slots[s].key = th[t].key /\ ~slots[s].owned
      /\ th[t].key \in Keys /\ th[t].key # None
  BY <1>0, NoneAssumption DEF RegInv, TaskInv, HeldInv
<1>2. \A u \in Threads : u # t => th[u].pc \notin {"fill", "tear", "clear"} /\ th'[u] = th[u]
  BY <1>0, <1>1 DEF TypeOK, RegInv
<1>3. /\ slots'[s].key = None /\ ~slots'[s].owned /\ slots'[s].gen = slots[s].gen
      /\ \A r \in Slots : r # s => slots'[r] = slots[r]
  BY <1>0, <1>1 DEF TypeOK
<1>4. th'[t].pc = "idle"
  BY <1>0 DEF TypeOK, IdleThread
<1>5. \A u \in Threads : th[u].pc \in {"lock", "use", "evict"} /\ th[u].ref = s => ~Current(u)
  BY <1>1 DEF RefInv
<1> HIDE DEF s
<1>6. RegInv' /\ LockInv' /\ TaskInv'
  BY <1>0, <1>1, <1>2, <1>4, NoneAssumption DEF TypeOK, RegInv, LockInv, TaskInv
<1>7. SlotInv'
  BY <1>1, <1>2, <1>3, <1>4, <1>0 DEF TypeOK, SlotInv, s
<1>8. HeldInv'
  <2>1. \A u \in Threads : th'[u].pc \notin {"fill", "tear", "clear"}
    BY <1>2, <1>4
  <2> QED BY <2>1 DEF HeldInv
<1>9. RefInv'
  BY <1>1, <1>2, <1>3, <1>4, <1>5 DEF TypeOK, RefInv, TaskInv, Current
<1>10. JudgeInv'
  BY <1>1, <1>2, <1>3, <1>4, <1>5 DEF TaskInv, Current, JudgeInv
<1> QED BY <1>6, <1>7, <1>8, <1>9, <1>10

\* Time makes an entry due; it touches no lock, key or reference.
LEMMA OlderStep ==
  ASSUME TableInv, NEW s \in Slots, Older(s), TypeOK'
  PROVE  TableInv'
<1> USE DEF TableInv
<1>1. UNCHANGED <<th, reg, lock>> /\ slots' = [slots EXCEPT ![s].age = "due"]
  BY DEF Older
<1>2. \A r \in Slots : /\ slots'[r].key = slots[r].key /\ slots'[r].gen = slots[r].gen
                       /\ slots'[r].owned = slots[r].owned /\ slots'[r].judged = slots[r].judged
  BY <1>1 DEF TypeOK
<1>3. RegInv' /\ LockInv' /\ TaskInv' /\ SlotInv'
  BY <1>1, <1>2 DEF RegInv, LockInv, TaskInv, SlotInv
<1>4. HeldInv' /\ RefInv' /\ JudgeInv'
  BY <1>1, <1>2 DEF TaskInv, HeldInv, RefInv, JudgeInv, Current
<1> QED BY <1>3, <1>4

\* What a key's entry looks like from outside is a pair of numbers.
LEMMA ObservedType ==
  ASSUME NEW table \in [Slots -> SlotRec], NEW k
  PROVE  Observed(table, k) \in Nat \X Nat
<1>1. CASE \E i \in Slots : table[i].key = k /\ table[i].owned
  <2> DEFINE i == CHOOSE i \in Slots : table[i].key = k /\ table[i].owned
  <2>1. i \in Slots
    BY <1>1
  <2> HIDE DEF i
  <2>2. <<table[i].gen, table[i].ver>> \in Nat \X Nat
    BY <2>1 DEF SlotRec
  <2> QED BY <1>1, <2>2 DEF Observed, i
<1>2. CASE ~\E i \in Slots : table[i].key = k /\ table[i].owned
  BY <1>2 DEF Observed, Absent
<1> QED BY <1>1, <1>2

\* The history of what was observed keeps its type.
LEMMA WitnessType ==
  ASSUME slots \in [Slots -> SlotRec], slots' \in [Slots -> SlotRec],
         seen \in [Threads -> SUBSET (Nat \X Nat)], Witness
  PROVE  seen' \in [Threads -> SUBSET (Nat \X Nat)]
<1> SUFFICES ASSUME NEW t \in Threads PROVE seen'[t] \in SUBSET (Nat \X Nat)
  BY DEF Witness
<1>1. Observed(slots', th'[t].key) \in Nat \X Nat /\ Observed(slots, th'[t].key) \in Nat \X Nat
  BY ObservedType
<1> DEFINE all == seen[t] \cup {Observed(slots', th'[t].key)}
                    \cup (IF th[t].pc # "idle" THEN {} ELSE {Observed(slots, th'[t].key)})
<1>2. all \in SUBSET (Nat \X Nat)
  BY <1>1
<1>3. seen'[t] \in {{}, all, all \cap {Absent}}
  BY Zenon DEF Witness
<1> HIDE DEF all
<1> QED BY <1>2, <1>3

(* The history of a call that goes on is not forgotten, and takes in what  *)
(* the step leaves under its key.                                          *)
LEMMA WitnessFacts ==
  ASSUME Witness, NEW t \in Threads, th'[t].pc # "idle"
  PROVE  /\ th'[t].op \in {"read", "probe"} =>
                Observed(slots', th'[t].key) \in seen'[t] /\ seen[t] \subseteq seen'[t]
         /\ th'[t].op = "upsert" =>
                /\ Observed(slots', th'[t].key) = Absent => Absent \in seen'[t]
                /\ Absent \in seen[t] => Absent \in seen'[t]
<1> DEFINE all == seen[t] \cup {Observed(slots', th'[t].key)}
                    \cup (IF th[t].pc # "idle" THEN {} ELSE {Observed(slots, th'[t].key)})
<1>1. seen'[t] = CASE th'[t].op \in {"read", "probe"} -> all
                   [] th'[t].op = "upsert" -> all \cap {Absent}
                   [] OTHER -> {}
  BY DEF Witness
<1>2. Observed(slots', th'[t].key) \in all /\ seen[t] \subseteq all
  OBVIOUS
<1> HIDE DEF all
<1> QED BY <1>1, <1>2

\* A task's step keeps the types.
LEMMA StepType ==
  ASSUME TableInv, NEW t \in Threads, Step(t), Witness
  PROVE  TypeOK'
<1> USE DEF TableInv
<1>0. /\ slots \in [Slots -> SlotRec] /\ th \in [Threads -> TaskRec] /\ todo \subseteq Keys
      /\ reg \in Threads \cup {None} /\ lock \in [Slots -> Threads \cup {None}]
      /\ calls \in 0 .. MaxCalls /\ untrue \subseteq Threads
      /\ seen \in [Threads -> SUBSET (Nat \X Nat)]
  BY DEF TypeOK, SlotRec, TaskRec
<1>1. UNCHANGED <<todo, calls>>
  BY DEF Step, Register, RegisterFill, find_entry_locked_ref, LockEntry, Update, EvictDue,
         Copy, DeleteFind, delete_if_generation, Teardown, ClearKey
<1>2. IdleThread \in TaskRec
  BY DEF IdleThread, TaskRec, PCs, Ops
<1>3. untrue' \in {untrue, untrue \cup {t}}
  BY DEF Step, Register, RegisterFill, find_entry_locked_ref, LockEntry, Update, EvictDue,
         Copy, DeleteFind, delete_if_generation, Teardown, ClearKey, Report, Return, Goto
<1>4. reg' \in Threads \cup {None}
  BY <1>0 DEF Step, Register, RegisterFill, find_entry_locked_ref, LockEntry, Update,
         EvictDue, Copy, DeleteFind, delete_if_generation, Teardown, ClearKey
<1>5. lock' \in [Slots -> Threads \cup {None}]
  BY <1>0 DEF Step, Register, RegisterFill, find_entry_locked_ref, LockEntry, Update,
         EvictDue, Copy, DeleteFind, delete_if_generation, Teardown, ClearKey, Unlock
<1>6. \A k : find_entry(k) \in Slots \cup {NoSlot}
  BY FindEntry DEF Holding
<1>7. th' \in [Threads -> TaskRec] /\ slots' \in [Slots -> SlotRec]
  <2>0. /\ th[t].pc \in {"fill", "use", "tear", "clear"} =>
               th[t].ref \in Slots /\ slots[th[t].ref] \in SlotRec
        /\ th[t] \in TaskRec
    BY <1>0 DEF TaskInv
  <2>1. CASE Register(t)
    <3> DEFINE s == find_entry(None)
    <3>1. Holding(None) # {} => s \in Slots /\ slots[s] \in SlotRec
      BY <1>0, FindEntry DEF Holding
    <3>2. \/ th' = [th EXCEPT ![t].pc = "find"] /\ slots' = slots
          \/ th' = [th EXCEPT ![t] = IdleThread] /\ slots' = slots
          \/ /\ th' = [th EXCEPT ![t].pc = "fill", ![t].ref = s] /\ Holding(None) # {}
             /\ slots' = [slots EXCEPT ![s].gen = @ + 1, ![s].key = th[t].key]
      BY <2>1 DEF Register, Goto, Return
    <3> HIDE DEF s
    <3>3. slots' \in [Slots -> SlotRec]
      <4>1. CASE slots' = slots
        BY <1>0, <4>1
      <4>2. CASE Holding(None) # {}
                 /\ slots' = [slots EXCEPT ![s].gen = @ + 1, ![s].key = th[t].key]
        <5>1. th[t].key \in Keys \cup {None} /\ s \in Slots
          BY <2>0, <3>1, <4>2 DEF TaskRec
        <5> DEFINE bumped == [slots EXCEPT ![s].gen = @ + 1]
        <5>2. bumped \in [Slots -> SlotRec]
          BY <1>0, <5>1 DEF SlotRec
        <5>3. slots' = [bumped EXCEPT ![s].key = th[t].key]
          BY <1>0, <4>2, <5>1
        <5> HIDE DEF bumped
        <5> QED BY <5>1, <5>2, <5>3 DEF SlotRec
      <4> QED BY <3>2, <4>1, <4>2
    <3>4. th' \in [Threads -> TaskRec]
      <4>1. CASE th' = [th EXCEPT ![t].pc = "find"]
        BY <1>0, <4>1 DEF TaskRec, PCs
      <4>2. CASE th' = [th EXCEPT ![t] = IdleThread]
        BY <1>0, <1>2, <4>2
      <4>3. CASE Holding(None) # {} /\ th' = [th EXCEPT ![t].pc = "fill", ![t].ref = s]
        <5>1. [th[t] EXCEPT !.pc = "fill", !.ref = s] \in TaskRec
          BY <2>0, <3>1, <4>3 DEF TaskRec, PCs
        <5>2. th' = [th EXCEPT ![t] = [@ EXCEPT !.pc = "fill", !.ref = s]]
          BY <1>0, <4>3
        <5> QED BY <1>0, <5>1, <5>2
      <4> QED BY <3>2, <4>1, <4>2, <4>3
    <3> QED BY <3>3, <3>4
  <2>2. CASE RegisterFill(t)
    <3>1. PICK age \in Ages :
            slots' = [slots EXCEPT ![th[t].ref] =
                        [@ EXCEPT !.owned = TRUE, !.ver = 0, !.age = age, !.judged = FALSE]]
      BY <2>2 DEF RegisterFill
    <3>2. [slots[th[t].ref] EXCEPT !.owned = TRUE, !.ver = 0, !.age = age, !.judged = FALSE]
            \in SlotRec
      BY <2>0, <2>2 DEF RegisterFill, SlotRec
    <3>3. th' \in [Threads -> TaskRec]
      BY <1>0, <2>2 DEF RegisterFill, Goto, TaskRec, PCs
    <3> QED BY <1>0, <3>1, <3>2, <3>3
  <2>3. CASE find_entry_locked_ref(t)
    <3>1. find_entry(th[t].key) # NoSlot => slots[find_entry(th[t].key)] \in SlotRec
      BY <1>0, <1>6
    <3> QED BY <1>0, <1>2, <1>6, <2>3, <3>1
            DEF find_entry_locked_ref, Report, TaskRec, SlotRec, PCs
  <2>4. CASE LockEntry(t)
    BY <1>0, <1>2, <2>4 DEF LockEntry, Goto, Report, TaskRec, PCs
  <2>5. CASE Update(t)
    <3>1. /\ th[t].pc = "use" /\ th' = [th EXCEPT ![t] = IdleThread]
          /\ slots' = [slots EXCEPT ![th[t].ref].ver = @ + 1, ![th[t].ref].age = "kept"]
      BY <2>5 DEF Update, Return
    <3>2. th' \in [Threads -> TaskRec]
      BY <1>0, <1>2, <3>1
    <3>3. th[t].ref \in Slots
      BY <2>0, <3>1
    <3> DEFINE next == [slots EXCEPT ![th[t].ref].ver = @ + 1]
    <3>4. next \in [Slots -> SlotRec]
      BY <1>0, <3>3 DEF SlotRec
    <3>5. slots' = [next EXCEPT ![th[t].ref].age = "kept"]
      BY <1>0, <3>1, <3>3
    <3> HIDE DEF next
    <3>6. slots' \in [Slots -> SlotRec]
      BY <3>3, <3>4, <3>5 DEF SlotRec, Ages
    <3> QED BY <3>2, <3>6
  <2>6. CASE EvictDue(t)
    BY <1>0, <2>0, <2>6 DEF EvictDue, TaskRec, SlotRec, PCs
  <2>7. CASE Copy(t)
    BY <1>0, <1>2, <2>7 DEF Copy, Return, Report
  <2>8. CASE DeleteFind(t)
    BY <1>0, <1>2, <1>6, <2>8 DEF DeleteFind, Report, TaskRec, PCs
  <2>9. CASE delete_if_generation(t)
    BY <1>0, <1>2, <1>6, <2>9 DEF delete_if_generation, Report, TaskRec, PCs
  <2>10. CASE Teardown(t)
    <3>1. slots' = [slots EXCEPT ![th[t].ref].owned = FALSE, ![th[t].ref].ver = 0,
                                 ![th[t].ref].gen = @ + 1]
      BY <2>10 DEF Teardown
    <3>2. slots' \in [Slots -> SlotRec]
      BY <1>0, <2>0, <2>10, <3>1 DEF Teardown, SlotRec
    <3>3. th' \in [Threads -> TaskRec]
      BY <1>0, <2>10 DEF Teardown, Goto, TaskRec, PCs
    <3> QED BY <3>2, <3>3
  <2>11. CASE ClearKey(t)
    <3>1. /\ th[t].pc = "clear" /\ th' = [th EXCEPT ![t] = IdleThread]
          /\ slots' = [slots EXCEPT ![th[t].ref].key = None]
      BY <2>11 DEF ClearKey, Report, Return
    <3>2. th' \in [Threads -> TaskRec]
      BY <1>0, <1>2, <3>1
    <3>3. slots' \in [Slots -> SlotRec]
      BY <1>0, <2>0, <3>1 DEF SlotRec
    <3> QED BY <3>2, <3>3
  <2> QED BY <2>1, <2>2, <2>3, <2>4, <2>5, <2>6, <2>7, <2>8, <2>9, <2>10, <2>11 DEF Step
<1>8. seen' \in [Threads -> SUBSET (Nat \X Nat)]
  BY <1>0, <1>7, WitnessType
<1> QED BY <1>0, <1>1, <1>3, <1>4, <1>5, <1>7, <1>8 DEF TypeOK, SlotRec, TaskRec

\* Entering a call, the sweep and the clock keep the types.
LEMMA OtherType ==
  ASSUME TableInv, Witness,
         \/ \E t \in Threads, k \in Keys : Enter(t, k)
         \/ Sweep \/ (\E k \in Keys : sweep_cb(k)) \/ (\E s \in Slots : Older(s))
  PROVE  TypeOK'
<1> USE DEF TableInv
<1>0. /\ slots \in [Slots -> SlotRec] /\ th \in [Threads -> TaskRec] /\ todo \subseteq Keys
      /\ calls \in 0 .. MaxCalls /\ MaxCalls \in Nat
      /\ seen \in [Threads -> SUBSET (Nat \X Nat)]
  BY CacheAssumption DEF TypeOK, SlotRec, TaskRec
<1>1. \A op \in Ops, k \in Keys, pc \in PCs :
          [IdleThread EXCEPT !.pc = pc, !.op = op, !.key = k] \in TaskRec
  BY DEF IdleThread, TaskRec
<1>2. /\ UNCHANGED <<reg, lock, untrue>> /\ todo' \subseteq Keys /\ calls' \in 0 .. MaxCalls
      /\ th' \in [Threads -> TaskRec] /\ slots' \in [Slots -> SlotRec]
  <2>1. CASE \E t \in Threads, k \in Keys : Enter(t, k)
    <3>1. PICK t \in Threads, k \in Keys, op \in Ops, pc \in PCs : Call(t, op, k, pc)
      BY <2>1 DEF Enter, cache_upsert, bb_cache_get_raw, bb_cache_is_stale,
                  bb_cache_delete, Ops, PCs
    <3>2. calls' \in 0 .. MaxCalls /\ UNCHANGED <<slots, reg, lock, todo, untrue>>
      BY <1>0, <3>1 DEF Call
    <3>3. th' \in [Threads -> TaskRec]
      BY <1>0, <1>1, <3>1 DEF Call
    <3> QED BY <1>0, <3>2, <3>3
  <2>2. CASE Sweep
    BY <1>0, <2>2 DEF Sweep
  <2>3. ASSUME NEW k \in Keys, sweep_cb(k)
        PROVE  /\ UNCHANGED <<reg, lock, untrue, slots, calls>> /\ todo' \subseteq Keys
               /\ th' \in [Threads -> TaskRec]
    <3>1. /\ UNCHANGED <<reg, lock, untrue, slots, calls>> /\ todo' = todo \ {k}
          /\ th' = [th EXCEPT ![Sweeper] = [IdleThread EXCEPT !.pc = "find", !.op = "sweep",
                                                              !.key = k]]
      BY <2>3 DEF sweep_cb
    <3>2. [IdleThread EXCEPT !.pc = "find", !.op = "sweep", !.key = k] \in TaskRec
      BY <1>1 DEF Ops, PCs
    <3> QED BY <1>0, <3>1, <3>2
  <2>4. ASSUME NEW s \in Slots, Older(s)
        PROVE  UNCHANGED <<reg, lock, untrue, todo, calls, th>> /\ slots' \in [Slots -> SlotRec]
    BY <1>0, <2>4 DEF Older, SlotRec, Ages
  <2> QED BY <1>0, <2>1, <2>2, <2>3, <2>4
<1>3. seen' \in [Threads -> SUBSET (Nat \X Nat)]
  BY <1>0, <1>2, WitnessType
<1> QED BY <1>2, <1>3 DEF TypeOK, SlotRec, TaskRec

\* Every step keeps the table's invariant.
LEMMA NextTableInv == TableInv /\ [Next]_vars => TableInv'
<1> SUFFICES ASSUME TableInv, [Next]_vars PROVE TableInv'
  OBVIOUS
<1>1. ASSUME NEW t \in Threads, Step(t), Witness PROVE TableInv'
  <2>1. TypeOK'
    BY <1>1, StepType
  <2> QED BY <1>1, <2>1, RegisterStep, RegisterFillStep, FindStep, LockEntryStep, UseStep,
             DeleteStep, TeardownStep, ClearKeyStep DEF Step
<1>2. ASSUME NEW t \in Threads, NEW k \in Keys, Enter(t, k), Witness PROVE TableInv'
  <2>1. TypeOK'
    BY <1>2, OtherType
  <2>2. PICK op \in Ops, pc \in {"register", "find", "delete"} :
            Call(t, op, k, pc) /\ (pc = "delete" => op = "delete")
    BY <1>2 DEF Enter, cache_upsert, bb_cache_get_raw, bb_cache_is_stale, bb_cache_delete, Ops
  <2> QED BY <2>1, <2>2, EnterStep DEF Call
<1>3. ASSUME Sweep, Witness PROVE TableInv'
  <2>1. TypeOK'
    BY <1>3, OtherType
  <2>2. UNCHANGED <<slots, reg, lock, th>>
    BY <1>3 DEF Sweep
  <2> QED BY <2>1, <2>2 DEF TableInv, RegInv, LockInv, TaskInv, SlotInv, HeldInv, RefInv,
                            JudgeInv, Current
<1>4. ASSUME NEW k \in Keys, sweep_cb(k), Witness PROVE TableInv'
  <2>1. TypeOK'
    BY <1>4, OtherType
  <2> QED BY <1>4, <2>1, EnterStep DEF sweep_cb, Threads, Ops
<1>5. ASSUME NEW s \in Slots, Older(s), Witness PROVE TableInv'
  <2>1. TypeOK'
    BY <1>5, OtherType
  <2> QED BY <1>5, <2>1, OlderStep
<1>6. CASE UNCHANGED vars
  BY <1>6 DEF vars, TableInv, TypeOK, RegInv, LockInv, TaskInv, SlotInv, HeldInv, RefInv,
              JudgeInv, Current
<1> QED BY <1>1, <1>2, <1>3, <1>4, <1>5, <1>6 DEF Next

-----------------------------------------------------------------------------
(* The histories.                                                          *)

(* A generation moves only when a slot is taken or torn down, and a task   *)
(* arrives at "lock" or "evict" with a current reference.                  *)
Moves ==
    /\ \A r \in Slots : slots'[r].gen # slots[r].gen =>
           slots[r].key = None \/ (slots'[r].key = slots[r].key /\ ~slots'[r].owned)
    /\ \A t \in Threads : th'[t].pc \in {"lock", "evict"} => th'[t] = th[t] \/ Current(t)'

\* A generation moves only where a slot is claimed or torn down, and a task waits
\* only for a slot whose generation it has just read.
LEMMA StepMoves ==
  ASSUME TableInv, NEW t \in Threads, Step(t)
  PROVE  Moves
<1> USE DEF TableInv
<1>0. /\ slots \in [Slots -> SlotRec] /\ th \in [Threads -> TaskRec] /\ th[t] \in TaskRec
      /\ th[t].pc \in {"fill", "use", "tear", "clear"} => th[t].ref \in Slots
      /\ th[t].pc = "use" => Current(t)
  BY DEF TypeOK, SlotRec, TaskRec, TaskInv, RefInv
<1>1. CASE Register(t)
  <2> DEFINE s == find_entry(None)
  <2>1. \/ th' = [th EXCEPT ![t].pc = "find"] /\ slots' = slots
        \/ th' = [th EXCEPT ![t] = IdleThread] /\ slots' = slots
        \/ /\ th' = [th EXCEPT ![t].pc = "fill", ![t].ref = s] /\ Holding(None) # {}
           /\ slots' = [slots EXCEPT ![s].gen = @ + 1, ![s].key = th[t].key]
    BY <1>1 DEF Register, Goto, Return
  <2>2. Holding(None) # {} => s \in Slots /\ slots[s].key = None
    BY FindEntry DEF Holding
  <2> HIDE DEF s
  <2> QED BY <1>0, <2>1, <2>2 DEF Moves, TaskRec, IdleThread
<1>2. CASE RegisterFill(t)
  <2>1. /\ th' = [th EXCEPT ![t].pc = "find"]
        /\ \A r \in Slots : slots'[r].gen = slots[r].gen
    BY <1>0, <1>2 DEF RegisterFill, Goto, SlotRec
  <2> QED BY <1>0, <2>1 DEF Moves, TaskRec
<1>3. CASE find_entry_locked_ref(t)
  <2> DEFINE s == find_entry(th[t].key)
  <2>1. /\ \/ th' = [th EXCEPT ![t] = IdleThread]
           \/ s # NoSlot
              /\ th' = [th EXCEPT ![t].pc = "lock", ![t].ref = s, ![t].gen = slots[s].gen]
        /\ slots' = slots
    BY <1>3 DEF find_entry_locked_ref, Report
  <2> HIDE DEF s
  <2> QED BY <1>0, <2>1 DEF Moves, TaskRec, IdleThread, Current
<1>4. CASE LockEntry(t)
  BY <1>0, <1>4 DEF LockEntry, Goto, Report, Moves, TaskRec, IdleThread
<1>5. CASE Update(t)
  <2>1. /\ th' = [th EXCEPT ![t] = IdleThread]
        /\ \A r \in Slots : slots'[r].gen = slots[r].gen
    BY <1>0, <1>5 DEF Update, Return, SlotRec
  <2> QED BY <1>0, <2>1 DEF Moves, IdleThread
<1>6. CASE EvictDue(t)
  <2>1. /\ th' = [th EXCEPT ![t].pc = "evict", ![t].from = th[t].ref] /\ th[t].pc = "use"
        /\ \A r \in Slots : slots'[r].gen = slots[r].gen
    BY <1>0, <1>6 DEF EvictDue, SlotRec
  <2> QED BY <1>0, <2>1 DEF Moves, TaskRec, Current
<1>7. CASE Copy(t)
  BY <1>0, <1>7 DEF Copy, Report, Return, Moves, IdleThread
<1>8. CASE DeleteFind(t)
  BY <1>0, <1>8 DEF DeleteFind, Report, Moves, TaskRec, IdleThread
<1>9. CASE delete_if_generation(t)
  BY <1>0, <1>9 DEF delete_if_generation, Report, Moves, TaskRec, IdleThread
<1>10. CASE Teardown(t)
  <2>1. /\ slots' = [slots EXCEPT ![th[t].ref].owned = FALSE, ![th[t].ref].ver = 0,
                                  ![th[t].ref].gen = @ + 1]
        /\ th' = [th EXCEPT ![t].pc = "clear"] /\ th[t].pc = "tear"
    BY <1>10 DEF Teardown, Goto
  <2>2. \A r \in Slots : slots'[r].gen # slots[r].gen =>
            slots'[r].key = slots[r].key /\ ~slots'[r].owned
    BY <1>0, <2>1 DEF SlotRec
  <2> QED BY <1>0, <2>1, <2>2 DEF Moves, TaskRec
<1>11. CASE ClearKey(t)
  <2>1. /\ th' = [th EXCEPT ![t] = IdleThread]
        /\ \A r \in Slots : slots'[r].gen = slots[r].gen
    BY <1>0, <1>11 DEF ClearKey, Return, Report, SlotRec
  <2> QED BY <1>0, <2>1 DEF Moves, IdleThread
<1> QED BY <1>1, <1>2, <1>3, <1>4, <1>5, <1>6, <1>7, <1>8, <1>9, <1>10, <1>11 DEF Step

\* The same for every other step.
LEMMA NextMoves ==
  ASSUME TableInv, Next
  PROVE  Moves
<1>0. slots \in [Slots -> SlotRec] /\ th \in [Threads -> TaskRec]
  BY DEF TableInv, TypeOK, SlotRec, TaskRec
<1>1. ASSUME NEW t \in Threads, NEW k \in Keys, Enter(t, k) PROVE Moves
  <2>1. PICK op \in Ops, pc \in {"register", "find", "delete"} : Call(t, op, k, pc)
    BY <1>1 DEF Enter, cache_upsert, bb_cache_get_raw, bb_cache_is_stale, bb_cache_delete, Ops
  <2> QED BY <1>0, <2>1 DEF Call, Moves, IdleThread
<1>2. ASSUME NEW k \in Keys, sweep_cb(k) PROVE Moves
  BY <1>0, <1>2 DEF sweep_cb, Moves, IdleThread
<1>3. ASSUME NEW s \in Slots, Older(s) PROVE Moves
  <2>1. UNCHANGED th /\ \A r \in Slots : slots'[r].gen = slots[r].gen
    BY <1>0, <1>3 DEF Older, SlotRec
  <2> QED BY <2>1 DEF Moves
<1>4. CASE Sweep
  BY <1>4 DEF Sweep, Moves
<1> QED BY <1>1, <1>2, <1>3, <1>4, StepMoves DEF Next

\* A call in progress has seen the table as it is now: the history follows every
\* change made by anybody while it runs.
LEMMA NextSeenInv ==
  ASSUME TableInv, SeenInv, Next
  PROVE  SeenInv'
<1>1. Moves /\ Witness /\ TableInv'
  BY NextMoves, NextTableInv DEF Next
<1> SUFFICES ASSUME NEW t \in Threads, th'[t].pc # "idle"
             PROVE  /\ th'[t].op \in {"read", "probe"} => Observed(slots', th'[t].key) \in seen'[t]
                    /\ th'[t].op = "upsert" /\ Observed(slots', th'[t].key) = Absent =>
                           Absent \in seen'[t]
                    /\ th'[t].pc \in {"lock", "evict"} /\ th'[t].op \in Told /\ ~Current(t)' =>
                           Absent \in seen'[t]
  BY DEF SeenInv
<1>2. ASSUME th'[t].pc \in {"lock", "evict"}, th'[t].op \in Told, ~Current(t)'
      PROVE  Absent \in seen[t] \/ Observed(slots', th'[t].key) = Absent
  <2>1. th'[t] = th[t]
    BY <1>1, <1>2 DEF Moves
  <2>2. CASE ~Current(t)
    BY <1>2, <2>1, <2>2 DEF SeenInv
  <2>3. CASE Current(t)
    <3> DEFINE r == th[t].ref
    <3>1. r \in Slots /\ slots[r].key = th[t].key /\ th[t].key \in Keys /\ th[t].key # None
      BY <1>2, <2>1, <2>3, NoneAssumption DEF TableInv, RefInv, TaskInv
    <3>2. slots'[r].gen # slots[r].gen
      BY <1>2, <2>1, <2>3 DEF Current
    <3>3. slots'[r].key = th[t].key /\ ~slots'[r].owned
      BY <1>1, <3>1, <3>2 DEF Moves
    <3>4. TypeOK' /\ SlotInv'
      BY <1>1 DEF TableInv
    <3>5. \A i \in Slots : slots'[i].key = th[t].key => i = r
      BY <3>1, <3>3, <3>4 DEF SlotInv
    <3> QED BY <2>1, <3>3, <3>5 DEF Observed
  <2> QED BY <2>2, <2>3
<1> QED BY <1>1, <1>2, WitnessFacts DEF Told

(* A caller is told only what its history holds.                           *)
LEMMA NextTrue ==
  ASSUME TableInv, SeenInv, ResultWasTrue, Next
  PROVE  ResultWasTrue'
<1> USE DEF TableInv, ResultWasTrue
<1>0. slots \in [Slots -> SlotRec] /\ th \in [Threads -> TaskRec]
  BY DEF TypeOK, SlotRec, TaskRec
<1>1. ASSUME NEW t \in Threads, th[t].pc # "idle", Holding(th[t].key) = {}, th[t].op \in Told
      PROVE  Absent \in seen[t]
  <2>1. th[t].key \in Keys
    BY <1>1 DEF TaskInv
  <2>2. Observed(slots, th[t].key) = Absent
    BY <1>1, <2>1, ObservedFacts
  <2> QED BY <1>1, <2>2 DEF SeenInv, Told
<1>2. ASSUME NEW t \in Threads, Step(t) PROVE untrue' = {}
  <2>1. CASE find_entry_locked_ref(t)
    <3>1. CASE find_entry(th[t].key) = NoSlot
      BY <1>1, <2>1, <3>1, FindEntry DEF find_entry_locked_ref, Report, Told
    <3>2. CASE find_entry(th[t].key) # NoSlot
      BY <2>1, <3>2 DEF find_entry_locked_ref
    <3> QED BY <3>1, <3>2
  <2>2. CASE LockEntry(t)
    <3>1. CASE entry_matches_locked(t)
      BY <2>2, <3>1 DEF LockEntry, Goto
    <3>2. CASE ~entry_matches_locked(t)
      <4>1. th[t].pc = "lock" /\ Report(t, Absent)
        BY <2>2, <3>2 DEF LockEntry
      <4>2. th[t].key \in Keys /\ th[t].key # None
        BY <4>1, NoneAssumption DEF TaskInv
      <4>3. ~Current(t)
        BY <3>2, <4>1, <4>2 DEF RefInv, Current, entry_matches_locked
      <4> QED BY <4>1, <4>3 DEF SeenInv, Told, Report
    <3> QED BY <3>1, <3>2
  <2>3. CASE Copy(t)
    <3>1. th[t].pc = "use" /\ th[t].op \in {"read", "sweep", "probe"}
      BY <2>3 DEF Copy
    <3>2. /\ th[t].key \in Keys /\ th[t].ref \in Slots
          /\ slots[th[t].ref].key = th[t].key /\ slots[th[t].ref].owned
      BY <3>1 DEF TaskInv, RefInv
    <3>3. Observed(slots, th[t].key) = <<slots[th[t].ref].gen, slots[th[t].ref].ver>>
      BY <3>2, ObservedFacts
    <3> QED BY <2>3, <3>1, <3>3 DEF Copy, Return, Report, SeenInv
  <2>4. CASE DeleteFind(t)
    BY <2>4 DEF DeleteFind, Report, TaskInv
  <2>5. CASE delete_if_generation(t)
    <3> DEFINE s == find_entry(th[t].key)
    <3>1. CASE s = NoSlot
      BY <1>1, <2>5, <3>1, FindEntry DEF delete_if_generation, Report, Told
    <3>2. CASE s # NoSlot /\ slots[s].gen # th[t].gen
      <4>1. th[t].pc = "evict" /\ Report(t, Absent)
        BY <2>5, <3>2 DEF delete_if_generation
      <4>2. s \in Slots /\ slots[s].key = th[t].key /\ th[t].key \in Keys /\ th[t].key # None
            /\ th[t].ref \in Slots
        BY <3>2, <4>1, FindEntry, NoneAssumption DEF Holding, TaskInv
      <4> HIDE DEF s
      <4>3. ~Current(t)
        BY <3>2, <4>1, <4>2 DEF RefInv, Current, SlotInv
      <4> QED BY <4>1, <4>3 DEF SeenInv, Told, Report
    <3>3. CASE s # NoSlot /\ slots[s].gen = th[t].gen
      BY <2>5, <3>3 DEF delete_if_generation
    <3> QED BY <3>1, <3>2, <3>3
  <2>6. CASE ClearKey(t)
    <3>1. th[t].pc = "clear"
      BY <2>6 DEF ClearKey
    <3>2. /\ th[t].key \in Keys /\ th[t].ref \in Slots
          /\ slots[th[t].ref].key = th[t].key /\ ~slots[th[t].ref].owned
      BY <3>1 DEF TaskInv, HeldInv
    <3>3. Observed(slots, th[t].key) = Absent
      BY <3>2, ObservedFacts
    <3> QED BY <2>6, <3>1, <3>3 DEF ClearKey, Return, Report, SeenInv
  <2>7. CASE \/ Register(t) \/ RegisterFill(t) \/ Update(t) \/ EvictDue(t) \/ Teardown(t)
    BY <2>7 DEF Register, RegisterFill, Update, EvictDue, Teardown, Goto, Return
  <2> QED BY <1>2, <2>1, <2>2, <2>3, <2>4, <2>5, <2>6, <2>7 DEF Step
<1> QED BY <1>2 DEF Next, Enter, cache_upsert, bb_cache_get_raw, bb_cache_is_stale,
           bb_cache_delete, Call, Sweep, sweep_cb, Older

-----------------------------------------------------------------------------
(* The inductive invariant holds in every reachable state.                 *)
LEMMA IInvHolds == Spec => []IInv
<1>1. Init => IInv
  <2>1. Init => SeenInv /\ ResultWasTrue
    BY DEF Init, SeenInv, ResultWasTrue, IdleThread
  <2> QED BY <2>1, InitTableInv DEF IInv
<1>2. IInv /\ [Next]_vars => IInv'
  <2>1. ASSUME IInv, Next PROVE IInv'
    BY <2>1, NextTableInv, NextSeenInv, NextTrue DEF IInv
  <2>2. ASSUME IInv, UNCHANGED vars PROVE IInv'
    <3>1. TableInv'
      BY <2>2, NextTableInv DEF IInv
    <3> QED BY <2>2, <3>1 DEF IInv, vars, SeenInv, ResultWasTrue, Current, Observed
  <2> QED BY <2>1, <2>2
<1> QED BY <1>1, <1>2, PTL DEF Spec

(* A task that passed the check under a slot's lock uses the incarnation it *)
(* looked up, for any number of slots, keys and tasks.                      *)
THEOREM NoStaleUseHolds == Spec => []NoStaleUse
<1>1. IInv => NoStaleUse
  BY DEF IInv, TableInv, RefInv, NoStaleUse, Current
<1> QED BY IInvHolds, <1>1, PTL

(* What a call returns was true of its key at some moment of the call.     *)
THEOREM ResultWasTrueHolds == Spec => []ResultWasTrue
<1>1. IInv => ResultWasTrue
  BY DEF IInv
<1> QED BY IInvHolds, <1>1, PTL

(* An eviction never frees an incarnation registered since the judgement,  *)
(* in the slot that was judged.                                            *)
THEOREM EvictsWhatItJudgedHolds == Spec => []EvictsWhatItJudged
<1>1. IInv => EvictsWhatItJudged
  BY DEF IInv, TableInv, JudgeInv, EvictsWhatItJudged
<1> QED BY IInvHolds, <1>1, PTL

(* The two levels of locks never close a cycle: whoever waits waits for a  *)
(* slot's lock whose holder waits for nothing, or for s_reg_lock whose     *)
(* holder waits at most for such a slot.                                   *)
THEOREM NoDeadlockHolds == Spec => []NoDeadlock
<1>1. IInv => NoDeadlock
  <2> SUFFICES ASSUME IInv, NEW t \in Threads, th[t].pc # "idle"
               PROVE  \E u \in Threads : th[u].pc # "idle" /\ ~Blocked(u)
    BY DEF NoDeadlock
  <2>1. ASSUME NEW v \in Threads, th[v].pc \in {"lock", "tear"}
        PROVE  \E u \in Threads : th[u].pc # "idle" /\ ~Blocked(u)
    <3>1. th[v].ref \in Slots
      BY <2>1 DEF IInv, TableInv, TaskInv
    <3>2. CASE lock[th[v].ref] = None
      BY <2>1, <3>2 DEF Blocked
    <3>3. CASE lock[th[v].ref] # None
      <4>1. PICK u \in Threads : lock[th[v].ref] = u
        BY <3>1, <3>3 DEF IInv, TableInv, TypeOK
      <4>2. th[u].pc = "use"
        BY <3>1, <4>1 DEF IInv, TableInv, LockInv
      <4> QED BY <4>2 DEF Blocked
    <3> QED BY <3>2, <3>3
  <2>2. CASE reg = None
    BY <2>1, <2>2 DEF Blocked
  <2>3. CASE reg # None
    <3>1. PICK v \in Threads : reg = v
      BY <2>3 DEF IInv, TableInv, TypeOK
    <3>2. th[v].pc \in {"fill", "tear", "clear"}
      BY <3>1 DEF IInv, TableInv, RegInv
    <3> QED BY <2>1, <3>2 DEF Blocked
  <2> QED BY <2>2, <2>3
<1> QED BY IInvHolds, <1>1, PTL
=============================================================================
