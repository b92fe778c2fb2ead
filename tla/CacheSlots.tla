----------------------------- MODULE CacheSlots -----------------------------
(***************************************************************************)
(* bb_cache's registry of owned AGE_OUT entries, driven as bb_mdns_cache   *)
(* drives it: the mDNS dispatch task and the re-query worker upsert peers, *)
(* any task reads, probes or deletes, and the sweep worker ages out.       *)
(*                                                                         *)
(* A slot is found under s_reg_lock and used under its own lock; both are  *)
(* modelled, and bb_cache_register, which fills a slot without taking the  *)
(* slot's lock, is split at each write a stale reader could meet.          *)
(* The bytes of an entry are represented by the pair (generation,          *)
(* state_version), which no two writes share.                              *)
(***************************************************************************)
EXTENDS Naturals, FiniteSets

CONSTANTS
    Slots,          \* 1 .. BB_CACHE_MAX_TOPICS
    Keys,
    Upserters,      \* the dispatch task's on_hello, requery_work_fn
    Clients,        \* tasks that read, probe and delete
    Sweeper,        \* the bb_cache_evict worker
    MaxCalls        \* bound: calls and sweeps

ASSUME CacheAssumption ==
    /\ Slots \subseteq Nat /\ IsFiniteSet(Slots)
    /\ MaxCalls \in Nat
    /\ Sweeper \notin Upserters \cup Clients
    /\ Upserters \cap Clients = {}

Threads == Upserters \cup Clients \cup {Sweeper}
None == "none"      \* no key, no lock holder
NoSlot == 0
Absent == <<0, 0>>
ASSUME NoneAssumption == None \notin Keys \cup Threads /\ NoSlot \notin Slots

VARIABLES
    slots,          \* s_entries
    reg,            \* who holds s_reg_lock
    lock,           \* who holds each slot's lock
    th,             \* the tasks: pc, operation, key, captured reference
    todo,           \* bb_cache_foreach's copy of the keys, for the sweep
    calls,          \* bound
    seen,           \* history: what a call's key held since the call began
    untrue          \* history: tasks that were told what never held

vars == <<slots, reg, lock, th, todo, calls, seen, untrue>>

Ages == {"kept", "due"}     \* what bb_cache_evaluate_age finds
Ops == {"none", "upsert", "read", "probe", "delete", "sweep"}
PCs == {"idle", "register", "fill", "find", "lock", "use", "evict",
        "delete", "tear", "clear"}

EmptySlot == [key |-> None, gen |-> 0, owned |-> FALSE, ver |-> 0, age |-> "kept",
              judged |-> FALSE]
IdleThread == [pc |-> "idle", op |-> "none", key |-> None, ref |-> NoSlot, gen |-> 0,
               from |-> NoSlot]

TypeOK ==
    /\ slots \in [Slots -> [key : Keys \cup {None}, gen : Nat, owned : BOOLEAN,
                            ver : Nat, age : Ages, judged : BOOLEAN]]
    /\ reg \in Threads \cup {None}
    /\ lock \in [Slots -> Threads \cup {None}]
    /\ th \in [Threads -> [pc : PCs, op : Ops, key : Keys \cup {None},
                           ref : Slots \cup {NoSlot}, gen : Nat,
                           from : Slots \cup {NoSlot}]]
    /\ todo \subseteq Keys
    /\ calls \in 0 .. MaxCalls
    /\ seen \in [Threads -> SUBSET (Nat \X Nat)]
    /\ untrue \subseteq Threads

Init ==
    /\ slots = [s \in Slots |-> EmptySlot]
    /\ reg = None /\ lock = [s \in Slots |-> None]
    /\ th = [t \in Threads |-> IdleThread]
    /\ todo = {} /\ calls = 0
    /\ seen = [t \in Threads |-> {}] /\ untrue = {}

-----------------------------------------------------------------------------
Holding(k) == {s \in Slots : slots[s].key = k}

(* find_entry scans from slot 0 and takes the first match; a free slot is  *)
(* chosen the same way.                                                    *)
find_entry(k) ==
    IF Holding(k) = {} THEN NoSlot
    ELSE CHOOSE s \in Holding(k) : \A r \in Holding(k) : s <= r

(* What a caller of the cache may observe under key k in table s.          *)
Observed(s, k) ==
    IF \E i \in Slots : s[i].key = k /\ s[i].owned
    THEN LET i == CHOOSE i \in Slots : s[i].key = k /\ s[i].owned
         IN  <<s[i].gen, s[i].ver>>
    ELSE Absent

(* Every step extends the history of the lookups under way: a reader may   *)
(* be told any content of its key, an updater only that it was absent.     *)
Witness ==
    seen' = [t \in Threads |->
               IF th'[t].pc = "idle" THEN {}
               ELSE LET all == seen[t] \cup {Observed(slots', th'[t].key)}
                                       \cup (IF th[t].pc # "idle" THEN {}
                                             ELSE {Observed(slots, th'[t].key)})
                    IN  CASE th'[t].op \in {"read", "probe"} -> all
                          [] th'[t].op = "upsert" -> all \cap {Absent}
                          [] OTHER -> {}]

Goto(t, pc) == th' = [th EXCEPT ![t].pc = pc] /\ UNCHANGED untrue
Return(t) == th' = [th EXCEPT ![t] = IdleThread] /\ UNCHANGED untrue

(* A return that tells the caller what its key held.                       *)
Report(t, val) ==
    /\ th' = [th EXCEPT ![t] = IdleThread]
    /\ untrue' = IF th[t].op \in {"upsert", "read", "probe"} /\ val \notin seen[t]
                 THEN untrue \cup {t} ELSE untrue

-----------------------------------------------------------------------------
(* Entry points.                                                           *)
Call(t, op, k, pc) ==
    /\ th[t].pc = "idle" /\ calls < MaxCalls
    /\ calls' = calls + 1
    /\ th' = [th EXCEPT ![t] = [IdleThread EXCEPT !.pc = pc, !.op = op, !.key = k]]
    /\ UNCHANGED <<slots, reg, lock, todo, untrue>>

cache_upsert(t, k) == t \in Upserters /\ Call(t, "upsert", k, "register")
bb_cache_get_raw(t, k) == t \in Clients /\ Call(t, "read", k, "find")
bb_cache_is_stale(t, k) == t \in Clients /\ Call(t, "probe", k, "find")
bb_cache_delete(t, k) == t \in Clients /\ Call(t, "delete", k, "delete")

(* sweep_work_fn: bb_cache_foreach copies the keys under s_reg_lock and    *)
(* then calls sweep_cb for each.                                           *)
Sweep ==
    /\ th[Sweeper].pc = "idle" /\ todo = {} /\ calls < MaxCalls
    /\ reg = None
    /\ \E k \in Keys : Holding(k) # {}
    /\ calls' = calls + 1
    /\ todo' = {k \in Keys : Holding(k) # {}}
    /\ UNCHANGED <<slots, reg, lock, th, untrue>>

sweep_cb(k) ==
    /\ th[Sweeper].pc = "idle" /\ k \in todo
    /\ todo' = todo \ {k}
    /\ th' = [th EXCEPT ![Sweeper] = [IdleThread EXCEPT !.pc = "find", !.op = "sweep",
                                                        !.key = k]]
    /\ UNCHANGED <<slots, reg, lock, calls, untrue>>

-----------------------------------------------------------------------------
(* bb_cache_register.  Registered already, no room, or the first free      *)
(* slot, whose generation and key are written first.                       *)
Register(t) ==
    /\ th[t].pc = "register" /\ reg = None
    /\ IF Holding(th[t].key) # {} THEN Goto(t, "find") /\ UNCHANGED <<slots, reg>>
       ELSE \/ Return(t) /\ UNCHANGED <<slots, reg>>     \* full, or no memory
            \/ /\ Holding(None) # {}
               /\ LET s == find_entry(None)
                  IN  /\ slots' = [slots EXCEPT ![s].gen = @ + 1, ![s].key = th[t].key]
                      /\ th' = [th EXCEPT ![t].pc = "fill", ![t].ref = s]
               /\ reg' = t
               /\ UNCHANGED untrue
    /\ UNCHANGED <<lock, todo, calls>>

(* ts_ms is 0 until the first update, so the age of a new entry is the     *)
(* uptime: past evict_age_ms, unless the device has just booted.           *)
RegisterFill(t) ==
    /\ th[t].pc = "fill"
    /\ \E age \in Ages :
           slots' = [slots EXCEPT ![th[t].ref] =
                       [@ EXCEPT !.owned = TRUE, !.ver = 0, !.age = age, !.judged = FALSE]]
    /\ reg' = None
    /\ Goto(t, "find")
    /\ UNCHANGED <<lock, todo, calls>>

-----------------------------------------------------------------------------
(* find_entry_locked_ref: the slot and its generation, under s_reg_lock.   *)
find_entry_locked_ref(t) ==
    /\ th[t].pc = "find" /\ reg = None
    /\ LET s == find_entry(th[t].key)
       IN  IF s = NoSlot THEN Report(t, Absent)
           ELSE th' = [th EXCEPT ![t].pc = "lock", ![t].ref = s, ![t].gen = slots[s].gen]
                /\ UNCHANGED untrue
    /\ UNCHANGED <<slots, reg, lock, todo, calls>>

\* Mutant: the key alone identifies the entry.
entry_matches_locked_KeyOnly(t) == slots[th[t].ref].key = th[t].key

entry_matches_locked(t) ==
    LET e == slots[th[t].ref]
    IN  e.key # None /\ e.gen = th[t].gen /\ e.key = th[t].key

LockEntry(t) ==
    /\ th[t].pc = "lock" /\ lock[th[t].ref] = None
    /\ IF entry_matches_locked(t)
       THEN lock' = [lock EXCEPT ![th[t].ref] = t] /\ Goto(t, "use")
       ELSE UNCHANGED lock /\ Report(t, Absent)
    /\ UNCHANGED <<slots, reg, todo, calls>>

Unlock(t) == lock' = [lock EXCEPT ![th[t].ref] = None]

(* bb_cache_update under the slot's lock.                                  *)
Update(t) ==
    /\ th[t].pc = "use" /\ th[t].op = "upsert"
    /\ slots' = [slots EXCEPT ![th[t].ref].ver = @ + 1, ![th[t].ref].age = "kept"]
    /\ Unlock(t)
    /\ Return(t)
    /\ UNCHANGED <<reg, todo, calls>>

(* evict_if_aged_out_locked: the entry is due; its generation is captured, *)
(* and the lock released before the delete takes s_reg_lock.               *)
\* Mutant: the slot's lock is kept across the delete.
EvictDue_KeepsLock(t) ==
    /\ th[t].pc = "use" /\ th[t].op \in {"read", "sweep"}
    /\ slots[th[t].ref].age = "due"
    /\ slots' = [slots EXCEPT ![th[t].ref].judged = TRUE]
    /\ th' = [th EXCEPT ![t].pc = "evict", ![t].from = th[t].ref]
    /\ UNCHANGED untrue
    /\ UNCHANGED <<reg, lock, todo, calls>>

EvictDue(t) ==
    /\ th[t].pc = "use" /\ th[t].op \in {"read", "sweep"}
    /\ slots[th[t].ref].age = "due"
    /\ slots' = [slots EXCEPT ![th[t].ref].judged = TRUE]
    /\ Unlock(t)
    /\ th' = [th EXCEPT ![t].pc = "evict", ![t].from = th[t].ref]
    /\ UNCHANGED untrue
    /\ UNCHANGED <<reg, todo, calls>>

(* copy_owned_and_capture_locked; the sweep only looks, and a probe        *)
(* (bb_cache_is_stale, bb_cache_state_version) never evicts.               *)
Copy(t) ==
    /\ th[t].pc = "use" /\ th[t].op \in {"read", "sweep", "probe"}
    /\ th[t].op # "probe" => slots[th[t].ref].age # "due"
    /\ Unlock(t)
    /\ IF th[t].op = "sweep" THEN Return(t)
       ELSE Report(t, <<slots[th[t].ref].gen, slots[th[t].ref].ver>>)
    /\ UNCHANGED <<slots, reg, todo, calls>>

-----------------------------------------------------------------------------
(* bb_cache_delete and bb_cache_delete_if_generation hold s_reg_lock from  *)
(* the lookup to the end.                                                  *)
DeleteFind(t) ==
    /\ th[t].pc = "delete" /\ reg = None
    /\ LET s == find_entry(th[t].key)
       IN  IF s = NoSlot THEN Report(t, Absent) /\ UNCHANGED reg
           ELSE th' = [th EXCEPT ![t].pc = "tear", ![t].ref = s] /\ reg' = t
                /\ UNCHANGED untrue
    /\ UNCHANGED <<slots, lock, todo, calls>>

\* Mutant: the eviction deletes by key, whatever is registered by now.
delete_if_generation_ByKey(t) ==
    /\ th[t].pc = "evict" /\ reg = None
    /\ LET s == find_entry(th[t].key)
       IN  IF s = NoSlot
           THEN Report(t, Absent) /\ UNCHANGED reg
           ELSE th' = [th EXCEPT ![t].pc = "tear", ![t].ref = s] /\ reg' = t
                /\ UNCHANGED untrue
    /\ UNCHANGED <<slots, lock, todo, calls>>

delete_if_generation(t) ==
    /\ th[t].pc = "evict" /\ reg = None
    /\ LET s == find_entry(th[t].key)
       IN  IF s = NoSlot \/ slots[s].gen # th[t].gen
           THEN Report(t, Absent) /\ UNCHANGED reg
           ELSE th' = [th EXCEPT ![t].pc = "tear", ![t].ref = s] /\ reg' = t
                /\ UNCHANGED untrue
    /\ UNCHANGED <<slots, lock, todo, calls>>

(* teardown_found_entry_locked waits for the slot's lock, ...              *)
\* Mutant: the teardown does not wait for the slot's lock.
Teardown_NoLock(t) ==
    /\ th[t].pc = "tear"
    /\ slots' = [slots EXCEPT ![th[t].ref].owned = FALSE, ![th[t].ref].ver = 0,
                              ![th[t].ref].gen = @ + 1]
    /\ Goto(t, "clear")
    /\ UNCHANGED <<reg, lock, todo, calls>>

Teardown(t) ==
    /\ th[t].pc = "tear" /\ lock[th[t].ref] = None
    /\ slots' = [slots EXCEPT ![th[t].ref].owned = FALSE, ![th[t].ref].ver = 0,
                              ![th[t].ref].gen = @ + 1]
    /\ Goto(t, "clear")
    /\ UNCHANGED <<reg, lock, todo, calls>>

(* ... and frees the slot last.  The evict-notify hook, called outside all *)
(* locks, is on_peer_evicted, which only logs.                             *)
ClearKey(t) ==
    /\ th[t].pc = "clear"
    /\ slots' = [slots EXCEPT ![th[t].ref].key = None]
    /\ reg' = None
    /\ IF th[t].op = "read" THEN Report(t, Absent) ELSE Return(t)
    /\ UNCHANGED <<lock, todo, calls>>

-----------------------------------------------------------------------------
(* Time passes: the age bb_cache_evaluate_age finds grows.                 *)
Older(s) ==
    /\ slots[s].owned /\ slots[s].age = "kept"
    /\ slots' = [slots EXCEPT ![s].age = "due"]
    /\ UNCHANGED <<reg, lock, th, todo, calls, untrue>>

Step(t) ==
    \/ Register(t) \/ RegisterFill(t) \/ find_entry_locked_ref(t)
    \/ LockEntry(t) \/ Update(t) \/ EvictDue(t) \/ Copy(t) \/ DeleteFind(t)
    \/ delete_if_generation(t) \/ Teardown(t) \/ ClearKey(t)

Enter(t, k) ==
    \/ cache_upsert(t, k) \/ bb_cache_get_raw(t, k)
    \/ bb_cache_is_stale(t, k) \/ bb_cache_delete(t, k)

Next ==
    /\ \/ \E t \in Threads : Step(t)
       \/ \E t \in Threads, k \in Keys : Enter(t, k)
       \/ Sweep
       \/ \E k \in Keys : sweep_cb(k)
       \/ \E s \in Slots : Older(s)
    /\ Witness

Spec == Init /\ [][Next]_vars

-----------------------------------------------------------------------------
(* A task that has checked a slot under its lock still holds the           *)
(* incarnation it looked up when it reads or writes it, never a freed, a   *)
(* half-initialised or another key's one (the tombstone invariant of       *)
(* find_entry_locked_ref).                                                 *)
NoStaleUse ==
    \A t \in Threads : th[t].pc = "use" =>
        LET e == slots[th[t].ref]
        IN  e.owned /\ e.key = th[t].key /\ e.gen = th[t].gen

(* What a call returns was true of its key at some moment of the call: the *)
(* bytes of a read, the absence a not-found reports.                       *)
ResultWasTrue == untrue = {}

(* An age-out frees only an incarnation some task has found due, never one *)
(* registered since, as long as the key is still in the slot it was judged *)
(* in (the generation check of bb_cache_delete_if_generation).             *)
EvictsWhatItJudged ==
    \A t \in Threads : th[t].pc = "tear" /\ th[t].op # "delete" =>
        slots[th[t].ref].judged \/ th[t].ref # th[t].from

(* Some task under way can always go on: the orders in which the sweep,    *)
(* the evictions, deletes and registrations take s_reg_lock and the slots' *)
(* locks never close a cycle.  A call has finitely many steps, so every    *)
(* call returns.                                                           *)
Blocked(t) ==
    \/ th[t].pc \in {"register", "find", "evict", "delete"} /\ reg # None
    \/ th[t].pc \in {"lock", "tear"} /\ lock[th[t].ref] # None

NoDeadlock ==
    (\E t \in Threads : th[t].pc # "idle")
        => \E t \in Threads : th[t].pc # "idle" /\ ~Blocked(t)

=============================================================================
