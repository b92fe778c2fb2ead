--------------------------- MODULE Reboots_proofs ---------------------------
(***************************************************************************)
(* What a restart leaves behind, for every threshold, interval, cap and    *)
(* ring, any number of outages, requests and faults.                       *)
(*                                                                         *)
(* Three arguments, independent of each other but for the types:           *)
(*   StreakInv   the boot-fail counter is not behind the streak of safe-   *)
(*               guard reboots it has to stop;                             *)
(*   TimesInv    the ring of the reboot budget covers the reboots that     *)
(*               count, so that the limits it enforces are theirs;         *)
(*   ReportInv, CreditInv   the reboot record and the boot-mode flag in    *)
(*               NVS have somebody behind them.                            *)
(* For each: the few steps that matter, and a lemma that no other step     *)
(* touches what it is about.                                               *)
(***************************************************************************)
EXTENDS Reboots, TLAPS, FiniteSetTheorems, SequenceTheorems

-----------------------------------------------------------------------------
(* The statics of the running boot, the record of NVS and the history.     *)
RamType == [sw : BOOLEAN, synced : BOOLEAN, loaded : BOOLEAN, cache : Budgets,
            pending : BOOLEAN, marked : BOOLEAN, cached : BOOLEAN, validated : BOOLEAN,
            cleared : BOOLEAN, persist : BOOLEAN, armed : BOOLEAN,
            pendingSrc : Srcs \cup {None}, report : Srcs \cup {None, Unknown},
            erased : BOOLEAN, resetArmed : BOOLEAN,
            cnt : 0..255, bySync : BOOLEAN, inBudget : BOOLEAN]
NvsType == [cnt : 0..255, budget : Budgets, last : Srcs \cup {None}, flag : BOOLEAN]
HistType == [asked : SUBSET (Srcs \cup {None}), prev : SUBSET (Srcs \cup {None}),
             unsaved : BOOLEAN, streak : Int, lost : Nat, times : Seq(Times), credit : Int]
(* Where a task is between a decision to restart and the reset.            *)
PCs == {"idle", "account", "increment", "record", "save", "retry", "reset", "clear"}

(* TypeOK with every field of every record, and a clock past zero, which   *)
(* the budget reads as "never".                                            *)
TypeInv ==
    /\ nvs \in NvsType /\ ram \in RamType /\ hist \in HistType
    /\ img \in {"pending", "valid", "undefined"} /\ selected \in BOOLEAN /\ now \in Times /\ now > 0
    /\ pc \in [Tasks -> PCs] /\ src \in [Tasks -> Srcs \cup {None}]
    /\ boot \in {"start", "boot_mode", "init", "load", "up"}
    /\ faults \in Nat /\ outages \in Nat /\ requests \in Nat

(* The boot-fail counter is never behind the streak of reboots it has to   *)
(* bound, but for the counts that were lost: a reboot that was let pass    *)
(* finds the streak below the threshold, and once it has been counted the  *)
(* counter is ahead of the streak by the reboot under way.  A set clock    *)
(* takes the reboot out of this account: the budget will record it, and    *)
(* inBudget says it has.                                                   *)
StreakInv ==
    LET s == hist.streak - hist.lost IN
    /\ s <= nvs.cnt /\ s <= Threshold
    /\ pc["reconn"] \in {"account", "increment"} /\ ~ram.synced => s < Threshold
    /\ pc["reconn"] = "record" /\ ~ram.synced => s < Threshold /\ s < nvs.cnt
    /\ pc["reconn"] \in {"save", "retry", "reset"} /\ ~ram.inBudget => s < Threshold /\ s < nvs.cnt

(* An armed boot-mode flag has a request, or a failed clearing, behind     *)
(* it.                                                                     *)
CreditInv == hist.credit >= 0 /\ (nvs.flag => hist.credit > 0)

(* Until the next boot has read it, the saved record is one that asked     *)
(* for this restart, unless both of its writes failed.  A task that may    *)
(* have written it is among those that asked.                              *)
ReportInv ==
    /\ \A t \in Tasks : pc[t] \in {"retry", "reset"} => src[t] \in hist.asked
    /\ (\E t \in Tasks : pc[t] = "reset")
          => hist.unsaved \/ nvs.last \in {None} \cup hist.asked
    /\ boot # "up" /\ ram.sw
          => hist.unsaved \/ nvs.last \in {None} \cup hist.asked \cup hist.prev

(* The slot of the k-th latest entry of a ring whose head is h.            *)
Back(h, k) == IF k <= h THEN h - k ELSE h - k + CapMax

(* The ring knows of the reboots the history counts: its j-th latest       *)
(* entry is no earlier than the j-th latest of them, for as many as it     *)
(* has room for, and none is later than the last one.  A reboot the        *)
(* counter allowed and the budget recorded may stand between two of them,  *)
(* so the ring holds later times, never fewer.                             *)
RingCovers(b, times) ==
    /\ b.last > 0
    /\ \A j \in 1 .. Len(times) : j <= CapMax =>
          /\ j <= b.count
          /\ times[Len(times) + 1 - j] <= b.ring[Back(b.head, j)]
          /\ b.ring[Back(b.head, j)] <= b.last

(* A reboot at t keeps both limits against those before it.                *)
Spaced(times, t) ==
    /\ times # <<>> => t - times[Len(times)] >= MinInterval
    /\ Len(times) >= DailyCap => t - times[Len(times) + 1 - DailyCap] >= Day

(* RebootsThrottled's second part, of a sequence of times.                 *)
InOrder(times) ==
    \A i \in DOMAIN times :
        /\ i > 1 => times[i] - times[i - 1] >= MinInterval
        /\ i > DailyCap => times[i] - times[i - DailyCap] >= Day

Sorted(times) == \A i, j \in DOMAIN times : i <= j => times[i] <= times[j]

(* A ring that has not been filled is filled from slot 0 up.               *)
RingType(b) == b.count < CapMax => b.head = b.count

(* What makes the budget keep its limits: the one in NVS covers the        *)
(* history, and from a decision by that budget until it is recorded the    *)
(* clock has not come closer to the reboots before.  Of a cache that is    *)
(* not what NVS holds (the read or the last write failed, or NVS was       *)
(* erased) nothing is asked: what is recorded from it starts the history   *)
(* afresh.                                                                 *)
TimesInv ==
    /\ RingType(nvs.budget) /\ RingType(ram.cache)
    /\ InOrder(hist.times) /\ Sorted(hist.times)
    /\ ram.bySync => ram.loaded /\ ram.synced
    /\ hist.times # <<>> =>
          /\ RingCovers(nvs.budget, hist.times)
          /\ pc["reconn"] \in {"account", "increment", "record"} /\ ram.bySync
             /\ ram.cache = nvs.budget
                => Spaced(hist.times, now) /\ now >= nvs.budget.last

(* The inductive invariant: no part needs another one but TypeInv.         *)
IInv == TypeInv /\ StreakInv /\ CreditInv /\ ReportInv /\ TimesInv

-----------------------------------------------------------------------------
(* Changing one static of a boot keeps the type of the record.             *)
LEMMA RamUpdate ==
    ASSUME NEW r \in RamType
    PROVE  /\ \A x \in BOOLEAN : [r EXCEPT !.sw = x] \in RamType
           /\ \A x \in BOOLEAN : [r EXCEPT !.synced = x] \in RamType
           /\ \A x \in BOOLEAN : [r EXCEPT !.loaded = x] \in RamType
           /\ \A x \in BOOLEAN : [r EXCEPT !.pending = x] \in RamType
           /\ \A x \in BOOLEAN : [r EXCEPT !.marked = x] \in RamType
           /\ \A x \in BOOLEAN : [r EXCEPT !.cached = x] \in RamType
           /\ \A x \in BOOLEAN : [r EXCEPT !.validated = x] \in RamType
           /\ \A x \in BOOLEAN : [r EXCEPT !.cleared = x] \in RamType
           /\ \A x \in BOOLEAN : [r EXCEPT !.persist = x] \in RamType
           /\ \A x \in BOOLEAN : [r EXCEPT !.armed = x] \in RamType
           /\ \A x \in BOOLEAN : [r EXCEPT !.bySync = x] \in RamType
           /\ \A x \in BOOLEAN : [r EXCEPT !.inBudget = x] \in RamType
           /\ \A x \in BOOLEAN : [r EXCEPT !.erased = x] \in RamType
           /\ \A x \in BOOLEAN : [r EXCEPT !.resetArmed = x] \in RamType
           /\ \A x \in Budgets : [r EXCEPT !.cache = x] \in RamType
           /\ \A x \in Srcs \cup {None} : [r EXCEPT !.pendingSrc = x] \in RamType
           /\ \A x \in Srcs \cup {None, Unknown} : [r EXCEPT !.report = x] \in RamType
           /\ \A x \in 0..255 : [r EXCEPT !.cnt = x] \in RamType
<1>1. \A x \in BOOLEAN : [r EXCEPT !.sw = x] \in RamType
  BY DEF RamType
<1>2. \A x \in BOOLEAN : [r EXCEPT !.synced = x] \in RamType
  BY DEF RamType
<1>3. \A x \in BOOLEAN : [r EXCEPT !.loaded = x] \in RamType
  BY DEF RamType
<1>4. \A x \in BOOLEAN : [r EXCEPT !.pending = x] \in RamType
  BY DEF RamType
<1>5. \A x \in BOOLEAN : [r EXCEPT !.marked = x] \in RamType
  BY DEF RamType
<1>6. \A x \in BOOLEAN : [r EXCEPT !.cached = x] \in RamType
  BY DEF RamType
<1>7. \A x \in BOOLEAN : [r EXCEPT !.validated = x] \in RamType
  BY DEF RamType
<1>8. \A x \in BOOLEAN : [r EXCEPT !.cleared = x] \in RamType
  BY DEF RamType
<1>9. \A x \in BOOLEAN : [r EXCEPT !.persist = x] \in RamType
  BY DEF RamType
<1>10. \A x \in BOOLEAN : [r EXCEPT !.armed = x] \in RamType
  BY DEF RamType
<1>11. \A x \in BOOLEAN : [r EXCEPT !.bySync = x] \in RamType
  BY DEF RamType
<1>12. \A x \in BOOLEAN : [r EXCEPT !.inBudget = x] \in RamType
  BY DEF RamType
<1>13. \A x \in Budgets : [r EXCEPT !.cache = x] \in RamType
  BY DEF RamType
<1>14. \A x \in Srcs \cup {None} : [r EXCEPT !.pendingSrc = x] \in RamType
  BY DEF RamType
<1>15. \A x \in Srcs \cup {None, Unknown} : [r EXCEPT !.report = x] \in RamType
  BY DEF RamType
<1>16. \A x \in 0..255 : [r EXCEPT !.cnt = x] \in RamType
  BY DEF RamType
<1>17. \A x \in BOOLEAN : [r EXCEPT !.erased = x] \in RamType
  BY DEF RamType
<1>18. \A x \in BOOLEAN : [r EXCEPT !.resetArmed = x] \in RamType
  BY DEF RamType
<1> QED
  BY <1>1, <1>2, <1>3, <1>4, <1>5, <1>6, <1>7, <1>8,
     <1>9, <1>10, <1>11, <1>12, <1>13, <1>14, <1>15, <1>16, <1>17, <1>18

(* The types of the statics the steps read.                                *)
LEMMA RamFields ==
    ASSUME TypeInv
    PROVE  /\ ram \in RamType /\ nvs.budget \in Budgets /\ nvs.cnt \in 0..255 /\ nvs.last \in Srcs \cup {None}
           /\ ram.cache \in Budgets /\ ram.pendingSrc \in Srcs \cup {None} /\ ram.cnt \in 0..255
           /\ {ram.synced, ram.loaded, ram.cached, ram.validated} \subseteq BOOLEAN
<1>1. ram \in RamType /\ nvs \in NvsType
  BY DEF TypeInv
<1>2. /\ ram.cache \in Budgets /\ ram.pendingSrc \in Srcs \cup {None} /\ ram.cnt \in 0..255
      /\ {ram.synced, ram.loaded, ram.cached, ram.validated} \subseteq BOOLEAN
  BY <1>1 DEF RamType
<1> QED  BY <1>1, <1>2 DEF NvsType

(* Changing one part of the history keeps its type.                        *)
LEMMA HistUpdate ==
    ASSUME NEW h \in HistType
    PROVE  /\ \A x \in Int : [h EXCEPT !.streak = x] \in HistType /\ [h EXCEPT !.credit = x] \in HistType
           /\ \A x \in Nat : [h EXCEPT !.lost = x] \in HistType
           /\ \A x \in Seq(Times) : [h EXCEPT !.times = x] \in HistType
           /\ \A x \in BOOLEAN : [h EXCEPT !.unsaved = x] \in HistType
           /\ \A x \in SUBSET (Srcs \cup {None}) :
                 [h EXCEPT !.asked = x] \in HistType /\ [h EXCEPT !.prev = x] \in HistType
<1>1. \A x \in Int : [h EXCEPT !.streak = x] \in HistType /\ [h EXCEPT !.credit = x] \in HistType
  BY DEF HistType
<1>2. \A x \in Nat : [h EXCEPT !.lost = x] \in HistType
  BY DEF HistType
<1>3. \A x \in Seq(Times) : [h EXCEPT !.times = x] \in HistType
  BY DEF HistType
<1>4. \A x \in BOOLEAN : [h EXCEPT !.unsaved = x] \in HistType
  BY DEF HistType
<1>5. \A x \in SUBSET (Srcs \cup {None}) :
         [h EXCEPT !.asked = x] \in HistType /\ [h EXCEPT !.prev = x] \in HistType
  BY DEF HistType
<1> QED  BY <1>1, <1>2, <1>3, <1>4, <1>5

(* The types of the history's parts.                                       *)
LEMMA HistFields ==
    ASSUME TypeInv
    PROVE  /\ hist \in HistType /\ hist.streak \in Int /\ hist.credit \in Int /\ hist.lost \in Nat
           /\ hist.times \in Seq(Times) /\ hist.unsaved \in BOOLEAN
           /\ hist.asked \in SUBSET (Srcs \cup {None}) /\ hist.prev \in SUBSET (Srcs \cup {None})
<1>1. hist \in HistType
  BY DEF TypeInv
<1> QED  BY <1>1 DEF HistType

(* HistUpdate, of the current history.                                     *)
LEMMA HistTyped ==
    ASSUME TypeInv
    PROVE  /\ \A x \in Int : [hist EXCEPT !.streak = x] \in HistType
           /\ \A x \in Int : [hist EXCEPT !.credit = x] \in HistType
           /\ \A x \in Seq(Times) : [hist EXCEPT !.times = x] \in HistType
<1>1. hist \in HistType
  BY DEF TypeInv
<1> QED  BY <1>1, HistUpdate

(* Ending a streak keeps the type of the history.                          *)
LEMMA StreakEndsType == TypeInv => StreakEnds \in HistType
<1> SUFFICES ASSUME TypeInv PROVE StreakEnds \in HistType
  OBVIOUS
<1>1. (IF pc["reconn"] \in {"record", "save", "retry", "reset"} THEN -1 ELSE 0) \in Int
  OBVIOUS
<1> QED  BY <1>1, HistTyped, Zenon DEF StreakEnds

(* The counts an increment loses when it raises a instead of b.            *)
LEMMA CountsLost ==
    ASSUME NEW a \in 0..255, NEW b \in 0..255, NEW l \in Nat
    PROVE  l + 1 \in Nat /\ (IF a < b THEN l + (b - a) ELSE l) \in Nat
<1>1. CASE a < b
  BY <1>1
<1>2. CASE ~(a < b)
  BY <1>2
<1> QED  BY <1>1, <1>2

(* A board that has never rebooted is well typed.                          *)
LEMMA TypesInit == Init => TypeInv
<1> SUFFICES ASSUME Init PROVE TypeInv
  OBVIOUS
<1>1. NoBudget \in Budgets
  BY ThrottleAssumption, BoundAssumption DEF NoBudget, Budgets, Times
<1>2. None \in Srcs \cup {None}
  OBVIOUS
<1>3. FreshRam \in RamType
  BY <1>1 DEF FreshRam, RamType
<1>4. nvs \in NvsType
  BY <1>1 DEF Init, ErasedNvs, NvsType
<1>5. hist \in HistType
  BY DEF Init, HistType
<1>6. pc \in [Tasks -> PCs] /\ src \in [Tasks -> Srcs \cup {None}]
  BY <1>2 DEF Init, PCs
<1>7. now \in Times /\ now > 0
  BY BoundAssumption DEF Init, Times
<1> QED  BY <1>3, <1>4, <1>5, <1>6, <1>7 DEF Init, TypeInv

(* The cached budget, the one in NVS and the empty one are well formed.    *)
LEMMA CacheType == TypeInv => cache_get \in Budgets /\ \A st \in cache_reads : st \in Budgets
<1> SUFFICES ASSUME TypeInv PROVE cache_get \in Budgets /\ \A st \in cache_reads : st \in Budgets
  OBVIOUS
<1>1. ram.cache \in Budgets /\ nvs.budget \in Budgets
  BY RamFields
<1>2. NoBudget \in Budgets
  BY ThrottleAssumption, BoundAssumption DEF NoBudget, Budgets, Times
<1> QED  BY <1>1, <1>2 DEF cache_get, cache_reads

(* Faults are counted.                                                     *)
LEMMA FaultsType ==
    ASSUME TypeInv
    PROVE  /\ \A c : One(c) \in Nat
           /\ \A n \in Nat : Faults(n) => faults' \in Nat
           /\ PutFails => faults' \in Nat
  BY DEF TypeInv, One, Faults, PutFails

(* bb_system_reboot_budget_state_record keeps head and count in their      *)
(* ranges.                                                                 *)
LEMMA RecordType ==
    ASSUME NEW b \in Budgets, NEW t \in Times
    PROVE  state_record(b, t) \in Budgets
<1>1. CapMax \in Nat \ {0}
  BY ThrottleAssumption
<1>2. b.head \in 0 .. CapMax - 1 /\ b.count \in 0 .. CapMax /\ b.ring \in [0 .. CapMax - 1 -> Times]
  BY DEF Budgets
<1>3. (b.head + 1) % CapMax \in 0 .. CapMax - 1
  BY <1>1, <1>2
<1>4. (IF b.count < CapMax THEN b.count + 1 ELSE b.count) \in 0 .. CapMax
  BY <1>1, <1>2
<1>5. [b.ring EXCEPT ![b.head] = t] \in [0 .. CapMax - 1 -> Times]
  BY <1>2
<1> QED  BY <1>3, <1>4, <1>5 DEF state_record, Budgets

(* bb_ota_is_validated fills its cache and nothing else.                   *)
LEMMA AskType == TypeInv => AskValidated(ram) \in RamType
<1> SUFFICES ASSUME TypeInv PROVE AskValidated(ram) \in RamType
  OBVIOUS
<1>1. ram \in RamType /\ is_validated \in BOOLEAN
  BY RamFields DEF is_validated
<1>2. [ram EXCEPT !.cached = TRUE] \in RamType
  BY <1>1, RamUpdate
<1> QED  BY <1>1, <1>2, RamUpdate DEF AskValidated

(* The statics of a boot that has just begun are well typed.               *)
LEMMA FreshType == \A sw \in BOOLEAN : [FreshRam EXCEPT !.sw = sw] \in RamType
<1>1. NoBudget \in Budgets
  BY ThrottleAssumption, BoundAssumption DEF NoBudget, Budgets, Times
<1>2. FreshRam \in RamType
  BY <1>1 DEF FreshRam, RamType
<1> QED  BY <1>2, RamUpdate

(* A reset, with or without power lost, leaves a well-typed board.         *)
LEMMA TypesResetBoard ==
    ASSUME TypeInv, NEW sw \in BOOLEAN, NEW h \in HistType, ResetBoard(sw, h), faults' \in Nat
    PROVE  TypeInv'
<1>1. ram' \in RamType
  BY FreshType DEF ResetBoard
<1>2. hist' \in HistType
  BY DEF ResetBoard, HistType
<1>3. pc' \in [Tasks -> PCs] /\ src' \in [Tasks -> Srcs \cup {None}]
  BY DEF ResetBoard, PCs
<1> QED  BY <1>1, <1>2, <1>3 DEF ResetBoard, Bootloader, TypeInv

(* A write to NVS lands with a typed value or changes nothing.             *)
LEMMA TypesPut ==
    ASSUME TypeInv
    PROVE  /\ \A v \in 0..255 : PutOrFail("cnt", v) => nvs' \in NvsType /\ faults' \in Nat
           /\ \A v \in Budgets : PutOrFail("budget", v) => nvs' \in NvsType /\ faults' \in Nat
           /\ \A v \in Srcs \cup {None} : PutOrFail("last", v) => nvs' \in NvsType /\ faults' \in Nat
           /\ \A v \in BOOLEAN : PutOrFail("flag", v) => nvs' \in NvsType /\ faults' \in Nat
<1>1. nvs \in NvsType /\ faults \in Nat
  BY DEF TypeInv
<1>2. \A key, v : PutOrFail(key, v) => /\ nvs' = nvs \/ nvs' = [nvs EXCEPT ![key] = v]
                                      /\ faults' \in Nat
  <2> SUFFICES ASSUME NEW key, NEW v, PutOrFail(key, v)
               PROVE  /\ nvs' = nvs \/ nvs' = [nvs EXCEPT ![key] = v]
                      /\ faults' \in Nat
    OBVIOUS
  <2>1. CASE Put(key, v)
    BY <1>1, <2>1 DEF Put
  <2>2. CASE PutFails
    BY <2>2, FaultsType DEF PutFails
  <2> QED  BY <2>1, <2>2 DEF PutOrFail
<1>3. \A v \in 0..255 : [nvs EXCEPT !["cnt"] = v] \in NvsType
  BY <1>1 DEF NvsType
<1>4. \A v \in Budgets : [nvs EXCEPT !["budget"] = v] \in NvsType
  BY <1>1 DEF NvsType
<1>5. \A v \in Srcs \cup {None} : [nvs EXCEPT !["last"] = v] \in NvsType
  BY <1>1 DEF NvsType
<1>6. \A v \in BOOLEAN : [nvs EXCEPT !["flag"] = v] \in NvsType
  BY <1>1 DEF NvsType
<1>7. \A v \in 0..255 : PutOrFail("cnt", v) => nvs' \in NvsType /\ faults' \in Nat
  BY <1>1, <1>2, <1>3
<1>8. \A v \in Budgets : PutOrFail("budget", v) => nvs' \in NvsType /\ faults' \in Nat
  BY <1>1, <1>2, <1>4
<1>9. \A v \in Srcs \cup {None} : PutOrFail("last", v) => nvs' \in NvsType /\ faults' \in Nat
  BY <1>1, <1>2, <1>5
<1>10. \A v \in BOOLEAN : PutOrFail("flag", v) => nvs' \in NvsType /\ faults' \in Nat
  BY <1>1, <1>2, <1>6
<1> QED  BY <1>7, <1>8, <1>9, <1>10

(* bb_system_restart_reason starts at the save of its record.              *)
LEMMA TypesBegin ==
    ASSUME TypeInv, NEW t \in Tasks, NEW s \in Srcs \cup {None}, BeginRestart(t, s)
    PROVE  pc' \in [Tasks -> PCs] /\ src' \in [Tasks -> Srcs \cup {None}]
  BY DEF TypeInv, BeginRestart, Goto, PCs

(* A task moves between its positions.                                     *)
LEMMA TypesGoto ==
    ASSUME TypeInv, NEW t \in Tasks, NEW l \in PCs, Goto(t, l)
    PROVE  pc' \in [Tasks -> PCs]
  BY DEF TypeInv, Goto

(* bb_system_boot_count_reset keeps the types.                             *)
LEMMA TypesClear ==
    ASSUME TypeInv, BootCountReset
    PROVE  nvs' \in NvsType /\ faults' \in Nat /\ hist' \in HistType
<1>1. PutOrFail("cnt", 0)
  BY DEF BootCountReset, PutOrFail
<1>2. nvs' \in NvsType /\ faults' \in Nat
  BY <1>1, TypesPut
<1>3. hist' \in HistType
  <2>1. hist \in HistType /\ \A x \in Int : [hist EXCEPT !.streak = x] \in HistType
    BY HistTyped DEF TypeInv
  <2>2. (IF pc["reconn"] \in {"record", "save", "retry", "reset"} THEN -1 ELSE 0) \in Int
    OBVIOUS
  <2> QED  BY <2>1, <2>2 DEF BootCountReset, StreakEnds
<1> QED  BY <1>2, <1>3

(* Every step keeps every field of every record in its type.               *)
LEMMA TypesNext == TypeInv /\ [Next]_vars => TypeInv'
<1> SUFFICES ASSUME TypeInv, [Next]_vars PROVE TypeInv'
  OBVIOUS
<1>1. ASSUME Escalate PROVE TypeInv'
  <2>1. ram' \in RamType /\ hist' \in HistType /\ faults' \in Nat
    <3>1. CASE AllowedByCount
      <4>1. PICK count \in boot_count_reads : Faults(One(count # nvs.cnt))
        BY <3>1 DEF AllowedByCount
      <4>2. hist \in HistType /\ hist.lost + One(nvs.cnt >= Threshold) \in Nat
        BY HistFields, FaultsType
      <4>3. hist' \in HistType
        BY <3>1, <4>2, HistUpdate DEF AllowedByCount
      <4> QED  BY <3>1, <4>1, <4>3, FaultsType DEF AllowedByCount, TypeInv
    <3>2. CASE AllowedByBudget
      <4>1. PICK st \in cache_reads :
               /\ Faults(One(st # cache_get))
               /\ ram' = [ram EXCEPT !.bySync = TRUE, !.loaded = TRUE, !.cache = st]
        BY <3>2 DEF AllowedByBudget
      <4>2. st \in Budgets /\ TRUE \in BOOLEAN /\ ram \in RamType
        BY CacheType, RamFields
      <4>3. [ram EXCEPT !.bySync = TRUE, !.loaded = TRUE] \in RamType
        BY <4>2, RamUpdate
      <4>4. ram' \in RamType
        BY <4>1, <4>2, <4>3, RamUpdate
      <4> QED  BY <3>2, <4>1, <4>4, FaultsType DEF AllowedByBudget, TypeInv
    <3> QED  BY <1>1, <3>1, <3>2 DEF Escalate
  <2>2. pc' \in [Tasks -> PCs]
    BY <1>1 DEF Escalate, Goto, TypeInv, PCs
  <2>3. outages' \in Nat
    BY <1>1 DEF Escalate, TypeInv
  <2> QED  BY <1>1, <2>1, <2>2, <2>3 DEF Escalate, TypeInv
<1>25. ASSUME Refused PROVE TypeInv'
  <2>1. ram \in RamType /\ nvs.budget \in Budgets /\ TRUE \in BOOLEAN
    BY RamFields
  <2>2. [ram EXCEPT !.loaded = TRUE] \in RamType
    BY <2>1, RamUpdate
  <2>3. ram' \in RamType
    BY <1>25, <2>1, <2>2, RamUpdate DEF Refused
  <2> QED  BY <1>25, <2>3 DEF Refused, TypeInv
<1>2. ASSUME Account PROVE TypeInv'
  <2>1. ram' \in RamType /\ faults' \in Nat
    <3>1. AskValidated(ram) \in RamType /\ nvs.cnt \in 0..255 /\ 0 \in 0..255
      BY AskType, RamFields
    <3>2. CASE should_increment(is_validated, ram.synced)
      <4>1. PICK count \in boot_count_reads :
               /\ ram' = [AskValidated(ram) EXCEPT !.cnt = count]
               /\ Faults(One(count # nvs.cnt))
        BY <1>2, <3>2 DEF Account
      <4>2. count \in 0..255
        BY <3>1 DEF boot_count_reads
      <4> QED  BY <3>1, <4>1, <4>2, RamUpdate, FaultsType
    <3>3. CASE ~should_increment(is_validated, ram.synced)
      BY <1>2, <3>1, <3>3 DEF Account, TypeInv
    <3> QED  BY <3>2, <3>3
  <2>2. pc' \in [Tasks -> PCs]
    BY <1>2 DEF Account, Goto, TypeInv, PCs
  <2> QED  BY <1>2, <2>1, <2>2 DEF Account, TypeInv
<1>3. ASSUME Increment PROVE TypeInv'
  <2>1. (IF ram.cnt < 255 THEN ram.cnt + 1 ELSE ram.cnt) \in 0..255
    BY DEF TypeInv, RamType
  <2>2. nvs' \in NvsType /\ faults' \in Nat
    BY <1>3, <2>1, TypesPut DEF Increment, PutOrFail
  <2>3. hist' \in HistType
    <3>1. /\ hist \in HistType /\ hist.lost \in Nat
          /\ ram.cnt \in 0..255 /\ nvs.cnt \in 0..255
      BY HistFields, RamFields
    <3>2. /\ hist.lost + 1 \in Nat
          /\ (IF ram.cnt < nvs.cnt THEN hist.lost + (nvs.cnt - ram.cnt) ELSE hist.lost) \in Nat
      BY <3>1, CountsLost
    <3> QED  BY <1>3, <3>1, <3>2, HistUpdate DEF Increment
  <2>4. pc' \in [Tasks -> PCs]
    BY <1>3, TypesGoto DEF Increment, PCs, Tasks
  <2> QED  BY <1>3, <2>2, <2>3, <2>4 DEF Increment, TypeInv
<1>4. ASSUME Record PROVE TypeInv'
  <2>1. pc' \in [Tasks -> PCs] /\ src' \in [Tasks -> Srcs \cup {None}]
    BY <1>4, TypesBegin DEF Record, Tasks, Srcs
  <2>2. ram' \in RamType /\ nvs' \in NvsType /\ hist' \in HistType /\ faults' \in Nat
    <3>1. CASE ~ram.synced
      BY <1>4, <3>1 DEF Record, TypeInv
    <3>2. CASE ram.synced
      <4>1. PICK st \in cache_reads, saved \in BOOLEAN :
               /\ IF ram.erased THEN ~saved /\ UNCHANGED faults
                                ELSE Faults(One(st # cache_get) + One(~saved))
               /\ ram' = [ram EXCEPT !.loaded = TRUE, !.cache = state_record(st, now),
                                     !.inBudget = TRUE]
               /\ IF saved THEN /\ nvs' = [nvs EXCEPT !.budget = state_record(st, now)]
                                /\ hist' = [hist EXCEPT !.times = Counted(@, st)]
                           ELSE UNCHANGED <<nvs, hist>>
        BY <1>4, <3>2 DEF Record
      <4> DEFINE new == state_record(st, now)
      <4>2. new \in Budgets
        BY CacheType, RecordType DEF TypeInv
      <4>3. ram \in RamType /\ nvs \in NvsType /\ TRUE \in BOOLEAN /\ hist \in HistType
            /\ hist.times \in Seq(Times) /\ now \in Times
        BY HistFields DEF TypeInv
      <4> HIDE DEF new
      <4>4. ram' \in RamType
        <5>1. [ram EXCEPT !.loaded = TRUE] \in RamType
          BY <4>3, RamUpdate
        <5>2. [ram EXCEPT !.loaded = TRUE, !.cache = new] \in RamType
          BY <4>2, <5>1, RamUpdate
        <5>3. [ram EXCEPT !.loaded = TRUE, !.cache = new, !.inBudget = TRUE] \in RamType
          BY <4>3, <5>2, RamUpdate
        <5> QED  BY <4>1, <5>3 DEF new
      <4>5. nvs' \in NvsType
        <5>1. [nvs EXCEPT !.budget = new] \in NvsType
          BY <4>2, <4>3 DEF NvsType
        <5> QED  BY <4>1, <4>3, <5>1 DEF new
      <4>6. hist' \in HistType
        <5>1. Counted(hist.times, st) \in Seq(Times)
          BY <4>3 DEF Counted
        <5> QED  BY <4>1, <4>3, <5>1, HistUpdate
      <4>7. faults' \in Nat
        <5>1. One(st # cache_get) + One(~saved) \in Nat
          BY DEF One
        <5> QED  BY <4>1, <5>1, FaultsType DEF TypeInv
      <4> QED  BY <4>4, <4>5, <4>6, <4>7
    <3> QED  BY <3>1, <3>2
  <2> QED  BY <1>4, <2>1, <2>2 DEF Record, TypeInv
<1>5. ASSUME NEW t \in Tasks, SaveRecord(t) PROVE TypeInv'
  <2>1. src[t] \in Srcs \cup {None}
    BY DEF TypeInv
  <2>2. nvs' \in NvsType /\ faults' \in Nat
    BY <1>5, <2>1, TypesPut DEF SaveRecord, PutOrFail
  <2>3. pc' \in [Tasks -> PCs]
    BY <1>5, TypesGoto DEF SaveRecord, PCs
  <2>4. hist' \in HistType
    BY <1>5, <2>1 DEF SaveRecord, TypeInv, HistType
  <2> QED  BY <1>5, <2>2, <2>3, <2>4 DEF SaveRecord, TypeInv
<1>6. ASSUME NEW t \in Tasks, RetryRecord(t) PROVE TypeInv'
  <2>1. src[t] \in Srcs \cup {None}
    BY DEF TypeInv
  <2>2. nvs' \in NvsType /\ faults' \in Nat
    BY <1>6, <2>1, TypesPut DEF RetryRecord, PutOrFail
  <2>3. pc' \in [Tasks -> PCs]
    BY <1>6, TypesGoto DEF RetryRecord, PCs
  <2>4. hist' \in HistType
    BY <1>6 DEF RetryRecord, TypeInv, HistType
  <2> QED  BY <1>6, <2>2, <2>3, <2>4 DEF RetryRecord, TypeInv
<1>7. ASSUME NEW t \in Tasks, Restart(t) PROVE TypeInv'
  <2>1. hist \in HistType /\ [hist EXCEPT !.streak = @ + 1] \in HistType
    BY HistFields, HistTyped
  <2> QED  BY <1>7, <2>1, TypesResetBoard DEF Restart, TypeInv
<1>8. ASSUME PowerCut PROVE TypeInv'
  <2>1. [hist EXCEPT !.streak = IF @ < 0 THEN 0 ELSE @] \in HistType
    BY HistTyped, HistFields
  <2>2. faults' \in Nat
    BY <1>8, FaultsType DEF PowerCut
  <2> QED  BY <1>8, <2>1, <2>2, TypesResetBoard DEF PowerCut
<1>9. ASSUME GotIp PROVE TypeInv'
  <2>1. ram' \in RamType
    BY <1>9, RamFields, RamUpdate DEF GotIp
  <2> QED  BY <1>9, <2>1 DEF GotIp, TypeInv
<1>10. ASSUME PersistGotIp PROVE TypeInv'
  <2>1. ram' \in RamType
    BY <1>10, RamFields, RamUpdate DEF PersistGotIp
  <2> QED  BY <1>10, <2>1, TypesClear DEF PersistGotIp, TypeInv
<1>11. ASSUME NEW s \in {"WIFI_RECONFIGURE", "WIFI_PROVISIONED"}, RestartDeferred(s) PROVE TypeInv'
  <2>1. ram' \in RamType
    <3>1. [ram EXCEPT !.armed = TRUE] \in RamType /\ s \in Srcs \cup {None} /\ ram \in RamType
      BY RamFields, RamUpdate DEF Srcs
    <3>2. [ram EXCEPT !.pendingSrc = s] \in RamType
      BY <3>1, RamUpdate
    <3>3. [[ram EXCEPT !.armed = TRUE] EXCEPT !.pendingSrc = s] \in RamType
      BY <3>1, RamUpdate
    <3>4. [ram EXCEPT !.armed = TRUE, !.pendingSrc = s]
             = [[ram EXCEPT !.armed = TRUE] EXCEPT !.pendingSrc = s]
      OBVIOUS
    <3> QED  BY <1>11, <3>2, <3>3, <3>4 DEF RestartDeferred
  <2>2. faults' \in Nat
    BY <1>11, FaultsType DEF RestartDeferred, TypeInv
  <2> QED  BY <1>11, <2>1, <2>2 DEF RestartDeferred, Request, TypeInv
<1>12. ASSUME DeferredFires PROVE TypeInv'
  <2>1. ram' \in RamType /\ ram.pendingSrc \in Srcs \cup {None}
    BY <1>12, RamFields, RamUpdate DEF DeferredFires
  <2>2. pc' \in [Tasks -> PCs] /\ src' \in [Tasks -> Srcs \cup {None}]
    BY <1>12, <2>1, TypesBegin DEF DeferredFires, Tasks
  <2> QED  BY <1>12, <2>1, <2>2 DEF DeferredFires, TypeInv
<1>26. ASSUME FactoryResetFires PROVE TypeInv'
  <2>1. ram' \in RamType
    BY <1>26, RamFields, RamUpdate DEF FactoryResetFires
  <2>2. pc' \in [Tasks -> PCs] /\ src' \in [Tasks -> Srcs \cup {None}]
    BY <1>26, TypesBegin DEF FactoryResetFires, Tasks, Srcs
  <2> QED  BY <1>26, <2>1, <2>2 DEF FactoryResetFires, TypeInv
<1>27. ASSUME FlagUnread PROVE TypeInv'
  BY <1>27, FaultsType DEF FlagUnread, TypeInv
<1>28. ASSUME FactoryReset PROVE TypeInv'
  <2>1. ram' \in RamType
    <3>1. [ram EXCEPT !.erased = TRUE] \in RamType /\ TRUE \in BOOLEAN
      BY RamFields, RamUpdate
    <3> QED  BY <1>28, <3>1, RamUpdate DEF FactoryReset
  <2>2. nvs' \in NvsType
    <3>1. NoBudget \in Budgets
      BY ThrottleAssumption, BoundAssumption DEF NoBudget, Budgets, Times
    <3> QED  BY <1>28, <3>1 DEF FactoryReset, ErasedNvs, NvsType
  <2>3. hist' \in HistType
    <3>1. << >> \in Seq(Times)
      OBVIOUS
    <3> QED  BY <1>28, <3>1, StreakEndsType, HistUpdate DEF FactoryReset
  <2>4. faults' \in Nat
    BY <1>28, FaultsType DEF FactoryReset, TypeInv
  <2> QED  BY <1>28, <2>1, <2>2, <2>3, <2>4 DEF FactoryReset, Request, TypeInv
<1>13. ASSUME RunIfPending PROVE TypeInv'
  <2>1. nvs' \in NvsType /\ faults' \in Nat
    BY <1>13, TypesPut DEF RunIfPending, PutOrFail, TypeInv
  <2>2. hist' \in HistType
    <3>1. hist \in HistType /\ [hist EXCEPT !.credit = hist.credit - 1] \in HistType
      BY HistFields, HistTyped
    <3> QED  BY <1>13, <3>1 DEF RunIfPending
  <2> QED  BY <1>13, <2>1, <2>2 DEF RunIfPending, TypeInv
<1>14. ASSUME BootModeAborts \/ BootModeInstalls PROVE TypeInv'
  <2>1. pc' \in [Tasks -> PCs] /\ src' \in [Tasks -> Srcs \cup {None}]
    BY <1>14, TypesBegin DEF BootModeAborts, BootModeInstalls, Tasks, Srcs
  <2> QED  BY <1>14, <2>1 DEF BootModeAborts, BootModeInstalls, TypeInv
<1>15. ASSUME ValidatorInit PROVE TypeInv'
  <2>1. ram' \in RamType
    <3>1. TRUE \in BOOLEAN /\ (img = "pending") \in BOOLEAN /\ ram \in RamType
      BY RamFields
    <3>2. [ram EXCEPT !.marked = TRUE] \in RamType /\ [ram EXCEPT !.pending = (img = "pending")] \in RamType
      BY <3>1, RamUpdate
    <3> QED  BY <1>15, <3>2 DEF ValidatorInit
  <2>2. nvs' \in NvsType /\ faults' \in Nat /\ hist' \in HistType
    BY <1>15, TypesClear DEF ValidatorInit, TypeInv
  <2> QED  BY <1>15, <2>1, <2>2 DEF ValidatorInit, TypeInv
<1>16. ASSUME DiagInit PROVE TypeInv'
  <2>0. PICK read \in BOOLEAN, erased \in BOOLEAN :
           /\ ram' = [AskValidated(ram) EXCEPT
                         !.report = IF read /\ ram.sw /\ nvs.last # None THEN nvs.last ELSE Unknown]
           /\ nvs' = IF erased THEN [nvs EXCEPT !.last = None] ELSE nvs
           /\ Faults(One(~read) + One(~erased))
    BY <1>16 DEF DiagInit
  <2>1. ram' \in RamType
    <3>1. (IF read /\ ram.sw /\ nvs.last # None THEN nvs.last ELSE Unknown)
             \in Srcs \cup {None, Unknown}
      BY RamFields
    <3> QED  BY <2>0, <3>1, AskType, RamUpdate
  <2>2. nvs' \in NvsType /\ faults' \in Nat
    <3>1. One(~read) + One(~erased) \in Nat
      BY DEF One
    <3> QED  BY <2>0, <3>1, FaultsType DEF TypeInv, NvsType
  <2>3. hist' \in HistType
    BY <1>16 DEF DiagInit, TypeInv, HistType
  <2> QED  BY <1>16, <2>1, <2>2, <2>3 DEF DiagInit, TypeInv
<1>17. ASSUME RebootHandler PROVE TypeInv'
  <2>1. pc' \in [Tasks -> PCs] /\ src' \in [Tasks -> Srcs \cup {None}]
    BY <1>17, TypesBegin DEF RebootHandler, Tasks, Srcs
  <2> QED  BY <1>17, <2>1 DEF RebootHandler, Request, TypeInv
<1>18. ASSUME ApplyHandler PROVE TypeInv'
  <2>1. pc' \in [Tasks -> PCs] /\ src' \in [Tasks -> Srcs \cup {None}]
    BY <1>18, TypesBegin DEF ApplyHandler, Tasks, Srcs, TypeInv
  <2>2. nvs' \in NvsType /\ faults' \in Nat
    BY <1>18, TypesPut DEF ApplyHandler, PutOrFail
  <2>3. hist' \in HistType
    <3>1. hist \in HistType /\ [hist EXCEPT !.credit = hist.credit + 1] \in HistType
      BY HistFields, HistTyped
    <3> QED  BY <1>18, <3>1 DEF ApplyHandler
  <2> QED  BY <1>18, <2>1, <2>2, <2>3 DEF ApplyHandler, Request, TypeInv
<1>19. ASSUME MarkValid PROVE TypeInv'
  <2>1. ram' \in RamType
    BY <1>19, RamFields, RamUpdate DEF MarkValid
  <2>2. pc' \in [Tasks -> PCs]
    BY <1>19, TypesGoto DEF MarkValid, PCs, Tasks
  <2> QED  BY <1>19, <2>1, <2>2 DEF MarkValid, TypeInv
<1>20. ASSUME MarkedValid PROVE TypeInv'
  <2>1. pc' \in [Tasks -> PCs]
    BY <1>20, TypesGoto DEF MarkedValid, PCs, Tasks
  <2>2. ram' \in RamType
    BY <1>20, AskType DEF MarkedValid
  <2> QED  BY <1>20, <2>1, <2>2, TypesClear DEF MarkedValid, TypeInv
<1>21. ASSUME Synchronised PROVE TypeInv'
  <2>1. ram' \in RamType
    BY <1>21, RamFields, RamUpdate DEF Synchronised
  <2> QED  BY <1>21, <2>1 DEF Synchronised, TypeInv
<1>22. ASSUME Tick PROVE TypeInv'
  BY <1>22, BoundAssumption DEF Tick, TypeInv, Times
<1>23. ASSUME StepBack PROVE TypeInv'
  <2>1. now' \in Times /\ now' > 0 /\ faults' \in Nat
    BY <1>23, BoundAssumption, FaultsType DEF StepBack, TypeInv, Times
  <2>2. hist' \in HistType
    <3>1. hist \in HistType /\ [hist EXCEPT !.times = << >>] \in HistType
      <4>1. << >> \in Seq(Times)
        OBVIOUS
      <4> QED  BY <4>1, HistTyped DEF TypeInv
    <3> QED  BY <1>23, <3>1 DEF StepBack
  <2> QED  BY <1>23, <2>1, <2>2 DEF StepBack, TypeInv
<1>24. ASSUME UNCHANGED vars PROVE TypeInv'
  BY <1>24 DEF vars, TypeInv
<1> QED
  BY <1>1, <1>2, <1>3, <1>4, <1>5, <1>6, <1>7, <1>8, <1>9, <1>10, <1>11, <1>12, <1>13, <1>14,
     <1>15, <1>16, <1>17, <1>18, <1>19, <1>20, <1>21, <1>22, <1>23, <1>24, <1>25, <1>26, <1>27,
     <1>28
     DEF Next, Safeguard, StartUp, Http, Dispatcher, Environment, Restarting

-----------------------------------------------------------------------------
(* bb_system_boot_count_reset touches the counter and the streak only.     *)
LEMMA ClearFrame ==
    ASSUME TypeInv, BootCountReset
    PROVE  /\ nvs'.budget = nvs.budget /\ nvs'.last = nvs.last /\ nvs'.flag = nvs.flag
           /\ hist'.credit = hist.credit /\ hist'.lost = hist.lost /\ hist'.times = hist.times
           /\ hist'.asked = hist.asked /\ hist'.prev = hist.prev /\ hist'.unsaved = hist.unsaved
<1>1. nvs \in NvsType /\ hist \in HistType
  BY DEF TypeInv
<1>2. nvs'.budget = nvs.budget /\ nvs'.last = nvs.last /\ nvs'.flag = nvs.flag
  BY <1>1 DEF BootCountReset, Put, PutFails, NvsType
<1>3. /\ hist'.credit = hist.credit /\ hist'.lost = hist.lost /\ hist'.times = hist.times
      /\ hist'.asked = hist.asked /\ hist'.prev = hist.prev /\ hist'.unsaved = hist.unsaved
  BY <1>1 DEF BootCountReset, StreakEnds, HistType
<1> QED  BY <1>2, <1>3

(* A reset loses the statics, keeps NVS, and makes those that asked for    *)
(* it the askers of the boot that follows.                                 *)
LEMMA ResetFrame ==
    ASSUME TypeInv, NEW t \in Tasks, Restart(t) \/ PowerCut
    PROVE  /\ nvs' = nvs /\ now' = now /\ boot' = "start" /\ pc' = [u \in Tasks |-> "idle"]
           /\ ram' = [FreshRam EXCEPT !.sw = ram'.sw] /\ ram'.sw \in BOOLEAN
           /\ hist'.credit = hist.credit /\ hist'.lost = hist.lost /\ hist'.times = hist.times
           /\ hist'.unsaved = hist.unsaved /\ hist'.prev = hist.asked /\ hist'.asked = {}
<1>1. hist \in HistType
  BY DEF TypeInv
<1>2. PICK sw \in BOOLEAN, x \in Int :
         ResetBoard(sw, [hist EXCEPT !.streak = x]) \/ ResetBoard(sw, hist)
  <2>1. CASE Restart(t)
    <3>1. hist.streak + 1 \in Int
      BY <1>1 DEF HistType
    <3> QED  BY <2>1, <3>1 DEF Restart
  <2>2. CASE PowerCut
    <3>1. (IF hist.streak < 0 THEN 0 ELSE hist.streak) \in Int
      BY <1>1 DEF HistType
    <3> QED  BY <2>2, <3>1 DEF PowerCut
  <2> QED  BY <2>1, <2>2
<1>3. ram' = [FreshRam EXCEPT !.sw = sw]
  BY <1>2 DEF ResetBoard
<1>4. ram'.sw = sw
  BY <1>3 DEF FreshRam
<1>5. nvs' = nvs /\ now' = now /\ boot' = "start" /\ pc' = [u \in Tasks |-> "idle"]
  BY <1>2 DEF ResetBoard
<1>6. /\ hist'.credit = hist.credit /\ hist'.lost = hist.lost /\ hist'.times = hist.times
      /\ hist'.unsaved = hist.unsaved /\ hist'.prev = hist.asked /\ hist'.asked = {}
  BY <1>1, <1>2 DEF ResetBoard, HistType
<1> QED  BY <1>3, <1>4, <1>5, <1>6

-----------------------------------------------------------------------------
(* bb_ota_boot_run_if_pending spends what ota_boot_arm paid in: the flag   *)
(* is cleared before anything else, or its failed write excuses one more   *)
(* run.                                                                    *)
LEMMA CreditNext == TypeInv /\ CreditInv /\ [Next]_vars => CreditInv'
<1> SUFFICES ASSUME TypeInv, CreditInv, [Next]_vars PROVE CreditInv'
  OBVIOUS
<1>0. nvs \in NvsType /\ hist \in HistType /\ hist.credit \in Int
  BY HistFields DEF TypeInv
<1>1. CASE RunIfPending
  BY <1>0, <1>1 DEF RunIfPending, CreditInv, NvsType, HistType, Put, PutFails
<1>2. CASE ApplyHandler
  BY <1>0, <1>2 DEF ApplyHandler, CreditInv, NvsType, HistType, Put, PutFails
<1>4. CASE FactoryReset
  <2>1. nvs'.flag = FALSE
    BY <1>4 DEF FactoryReset, ErasedNvs
  <2>2. hist'.credit = hist.credit
    BY <1>0, <1>4 DEF FactoryReset, StreakEnds, HistType
  <2> QED  BY <2>1, <2>2 DEF CreditInv
<1>3. ASSUME ~RunIfPending, ~ApplyHandler, ~FactoryReset
      PROVE  nvs'.flag = nvs.flag /\ hist'.credit = hist.credit
  <2>1. CASE Increment
    BY <1>0, <2>1 DEF Increment, NvsType, HistType, Put, PutFails
  <2>2. CASE Record
    BY <1>0, <2>2 DEF Record, NvsType, HistType, Put, PutFails
  <2>3. ASSUME NEW t \in Tasks, SaveRecord(t) PROVE nvs'.flag = nvs.flag /\ hist'.credit = hist.credit
    BY <1>0, <2>3 DEF SaveRecord, NvsType, HistType, Put, PutFails
  <2>4. ASSUME NEW t \in Tasks, RetryRecord(t) PROVE nvs'.flag = nvs.flag /\ hist'.credit = hist.credit
    BY <1>0, <2>4 DEF RetryRecord, NvsType, HistType, Put, PutFails
  <2>5. ASSUME NEW t \in Tasks, Restart(t) \/ PowerCut
        PROVE  nvs'.flag = nvs.flag /\ hist'.credit = hist.credit
    BY <2>5, ResetFrame
  <2>6. CASE PersistGotIp \/ ValidatorInit \/ MarkedValid
    <3>1. BootCountReset \/ UNCHANGED <<nvs, hist>>
      BY <2>6 DEF PersistGotIp, ValidatorInit, MarkedValid
    <3> QED  BY <3>1, ClearFrame
  <2>7. CASE DiagInit
    BY <1>0, <2>7 DEF DiagInit, NvsType, HistType
  <2>8. CASE StepBack
    BY <1>0, <2>8 DEF StepBack, HistType
  <2>12. CASE Escalate
    BY <1>0, <2>12 DEF Escalate, AllowedByCount, AllowedByBudget, HistType
  <2>9. CASE \/ Refused \/ FlagUnread \/ FactoryResetFires \/ Account \/ BootModeAborts \/ BootModeInstalls \/ RebootHandler
             \/ MarkValid \/ DeferredFires \/ GotIp \/ Synchronised \/ Tick
             \/ UNCHANGED vars
    BY <2>9 DEF Refused, FlagUnread, FactoryResetFires, Account, BootModeAborts, BootModeInstalls, RebootHandler,
                MarkValid, DeferredFires, GotIp, Synchronised, Tick, vars
  <2>10. ASSUME NEW s \in {"WIFI_RECONFIGURE", "WIFI_PROVISIONED"}, RestartDeferred(s)
         PROVE  nvs'.flag = nvs.flag /\ hist'.credit = hist.credit
    BY <2>10 DEF RestartDeferred
  <2>11. "boot" \in Tasks
    BY DEF Tasks
  <2> QED
    BY <1>3, <2>1, <2>2, <2>3, <2>4, <2>5, <2>6, <2>7, <2>8, <2>9, <2>10, <2>11, <2>12
       DEF Next, Safeguard, StartUp, Http, Dispatcher, Environment, Restarting
<1> QED  BY <1>1, <1>2, <1>3, <1>4 DEF CreditInv

(* A task's move leaves the other tasks where they are.                    *)
LEMMA GotoFrame ==
    ASSUME TypeInv, NEW t \in Tasks, NEW l, Goto(t, l)
    PROVE  pc'[t] = l /\ \A u \in Tasks : u # t => pc'[u] = pc[u]
  BY DEF TypeInv, Goto

(* The same for the beginning of a restart.                                *)
LEMMA BeginFrame ==
    ASSUME TypeInv, NEW t \in Tasks, NEW s, BeginRestart(t, s)
    PROVE  pc'[t] = "save" /\ \A u \in Tasks : u # t => pc'[u] = pc[u] /\ src'[u] = src[u]
<1>1. Goto(t, "save") /\ src' = [src EXCEPT ![t] = s] /\ src \in [Tasks -> Srcs \cup {None}]
  BY DEF BeginRestart, TypeInv
<1>2. \A u \in Tasks : u # t => src'[u] = src[u]
  BY <1>1
<1> QED  BY <1>1, <1>2, GotoFrame

(* A step that leaves alone what the reboot record depends on.             *)
Aside ==
    /\ \A t \in Tasks : pc'[t] \in {"retry", "reset"} => pc'[t] = pc[t] /\ src'[t] = src[t]
    /\ nvs'.last = nvs.last /\ ram'.sw = ram.sw
    /\ boot' # "up" => boot # "up"
    /\ hist'.asked = hist.asked /\ hist'.prev = hist.prev /\ hist'.unsaved = hist.unsaved

(* Such a step keeps ReportInv.                                            *)
LEMMA AsideReport == ASSUME ReportInv, Aside PROVE ReportInv'
  BY DEF ReportInv, Aside

(* bb_ota_is_validated leaves every static but its own cache alone.        *)
LEMMA AskFrame ==
    ASSUME TypeInv
    PROVE  \A f \in {"sw", "synced", "loaded", "cache", "cnt", "bySync", "inBudget"} :
              AskValidated(ram)[f] = ram[f]
  BY DEF TypeInv, RamType, AskValidated

(* Only saving the record, reading it and a reset are other steps.         *)
LEMMA OthersStandAside ==
    ASSUME TypeInv, [Next]_vars,
           ~ \E t \in Tasks : SaveRecord(t) \/ RetryRecord(t) \/ Restart(t),
           ~PowerCut, ~DiagInit, ~FactoryReset
    PROVE  Aside
<1>0. nvs \in NvsType /\ hist \in HistType /\ ram \in RamType /\ Tasks = {"boot", "reconn", "http", "apply", "disp"}
  BY DEF TypeInv, Tasks
<1>1. CASE Escalate
  <2>1. ram'.sw = ram.sw
    BY <1>0, <1>1 DEF Escalate, AllowedByCount, AllowedByBudget, RamType
  <2>2. hist'.asked = hist.asked /\ hist'.prev = hist.prev /\ hist'.unsaved = hist.unsaved
    BY <1>0, <1>1 DEF Escalate, AllowedByCount, AllowedByBudget, HistType
  <2> QED  BY <1>0, <1>1, <2>1, <2>2, GotoFrame DEF Escalate, Aside
<1>18. CASE Refused \/ FlagUnread
  <2>1. ram'.sw = ram.sw
    BY <1>0, <1>18 DEF Refused, FlagUnread, RamType
  <2> QED  BY <1>18, <2>1 DEF Refused, FlagUnread, Aside
<1>19. CASE FactoryResetFires
  <2>1. ram'.sw = ram.sw
    BY <1>0, <1>19 DEF FactoryResetFires, RamType
  <2> QED  BY <1>0, <1>19, <2>1, BeginFrame DEF FactoryResetFires, Aside
<1>2. CASE Account
  <2>1. ram'.sw = ram.sw
    <3>1. AskValidated(ram) \in RamType /\ AskValidated(ram).sw = ram.sw
      BY AskType, AskFrame
    <3> QED  BY <1>2, <3>1 DEF Account, RamType
  <2>2. Goto("reconn", "increment") \/ Goto("reconn", "record")
    BY <1>2 DEF Account
  <2> QED  BY <1>0, <1>2, <2>1, <2>2, GotoFrame DEF Account, Aside
<1>3. CASE Increment
  <2>1. nvs'.last = nvs.last
    BY <1>0, <1>3 DEF Increment, NvsType, Put, PutFails
  <2>2. hist'.asked = hist.asked /\ hist'.prev = hist.prev /\ hist'.unsaved = hist.unsaved
    BY <1>0, <1>3 DEF Increment, HistType
  <2> QED  BY <1>0, <1>3, <2>1, <2>2, GotoFrame DEF Increment, Aside
<1>4. CASE Record
  <2>1. nvs'.last = nvs.last
    BY <1>0, <1>4 DEF Record, NvsType, Put, PutFails
  <2>2. hist'.asked = hist.asked /\ hist'.prev = hist.prev /\ hist'.unsaved = hist.unsaved
    BY <1>0, <1>4 DEF Record, HistType
  <2>3. ram'.sw = ram.sw
    BY <1>0, <1>4 DEF Record, RamType
  <2> QED  BY <1>0, <1>4, <2>1, <2>2, <2>3, BeginFrame DEF Record, Aside
<1>5. CASE GotIp \/ Synchronised
  <2>1. ram'.sw = ram.sw
    BY <1>0, <1>5 DEF GotIp, Synchronised, RamType
  <2> QED  BY <1>5, <2>1 DEF GotIp, Synchronised, Aside
<1>6. CASE PersistGotIp
  <2>1. ram'.sw = ram.sw
    BY <1>0, <1>6 DEF PersistGotIp, RamType
  <2> QED  BY <1>6, <2>1, ClearFrame DEF PersistGotIp, Aside
<1>7. ASSUME NEW s \in {"WIFI_RECONFIGURE", "WIFI_PROVISIONED"}, RestartDeferred(s) PROVE Aside
  <2>1. ram'.sw = ram.sw
    BY <1>0, <1>7 DEF RestartDeferred, RamType
  <2> QED  BY <1>7, <2>1 DEF RestartDeferred, Aside
<1>8. CASE DeferredFires
  <2>1. ram'.sw = ram.sw
    BY <1>0, <1>8 DEF DeferredFires, RamType
  <2> QED  BY <1>0, <1>8, <2>1, BeginFrame DEF DeferredFires, Aside
<1>9. CASE RunIfPending
  <2>1. nvs'.last = nvs.last
    BY <1>0, <1>9 DEF RunIfPending, NvsType, Put, PutFails
  <2>2. hist'.asked = hist.asked /\ hist'.prev = hist.prev /\ hist'.unsaved = hist.unsaved
    BY <1>0, <1>9 DEF RunIfPending, HistType
  <2> QED  BY <1>9, <2>1, <2>2 DEF RunIfPending, Aside
<1>10. CASE BootModeAborts \/ BootModeInstalls
  BY <1>0, <1>10, BeginFrame DEF BootModeAborts, BootModeInstalls, Aside
<1>11. CASE ValidatorInit
  <2>1. ram'.sw = ram.sw
    BY <1>0, <1>11 DEF ValidatorInit, RamType
  <2>2. BootCountReset \/ UNCHANGED <<nvs, hist>>
    BY <1>11 DEF ValidatorInit
  <2> QED  BY <1>11, <2>1, <2>2, ClearFrame DEF ValidatorInit, Aside
<1>12. CASE RebootHandler
  BY <1>0, <1>12, BeginFrame DEF RebootHandler, Aside
<1>13. CASE ApplyHandler
  <2>1. nvs'.last = nvs.last
    BY <1>0, <1>13 DEF ApplyHandler, NvsType, Put, PutFails
  <2>2. hist'.asked = hist.asked /\ hist'.prev = hist.prev /\ hist'.unsaved = hist.unsaved
    BY <1>0, <1>13 DEF ApplyHandler, HistType
  <2> QED  BY <1>0, <1>13, <2>1, <2>2, BeginFrame DEF ApplyHandler, Aside
<1>14. CASE MarkValid
  <2>1. ram'.sw = ram.sw
    BY <1>0, <1>14 DEF MarkValid, RamType
  <2> QED  BY <1>0, <1>14, <2>1, GotoFrame DEF MarkValid, Aside
<1>15. CASE MarkedValid
  <2>1. ram'.sw = ram.sw
    BY <1>15, AskFrame DEF MarkedValid
  <2> QED  BY <1>0, <1>15, <2>1, GotoFrame, ClearFrame DEF MarkedValid, Aside
<1>16. CASE Tick \/ UNCHANGED vars
  BY <1>16 DEF Tick, vars, Aside
<1>17. CASE StepBack
  <2>1. hist'.asked = hist.asked /\ hist'.prev = hist.prev /\ hist'.unsaved = hist.unsaved
    BY <1>0, <1>17 DEF StepBack, HistType
  <2> QED  BY <1>17, <2>1 DEF StepBack, Aside
<1> QED
  BY <1>1, <1>2, <1>3, <1>4, <1>5, <1>6, <1>7, <1>8, <1>9, <1>10, <1>11, <1>12, <1>13, <1>14,
     <1>15, <1>16, <1>17, <1>18, <1>19
     DEF Next, Safeguard, StartUp, Http, Dispatcher, Environment, Restarting

(* bb_system_reboot_record_save_retry, a reset and load_reboot_record      *)
(* keep the record and its askers together.                                *)
LEMMA ReportNext == TypeInv /\ ReportInv /\ [Next]_vars => ReportInv'
<1> SUFFICES ASSUME TypeInv, ReportInv, [Next]_vars PROVE ReportInv'
  OBVIOUS
<1>0. nvs \in NvsType /\ hist \in HistType /\ ram \in RamType
  BY DEF TypeInv
<1>1. ASSUME NEW t \in Tasks, SaveRecord(t) PROVE ReportInv'
  <2>1. /\ pc'[t] \in {"retry", "reset"} /\ \A u \in Tasks : u # t => pc'[u] = pc[u]
        /\ src' = src /\ ram' = ram /\ boot' = boot
    BY <1>1, GotoFrame DEF SaveRecord
  <2>2. hist'.asked = hist.asked \cup {src[t]} /\ hist'.prev = hist.prev
    BY <1>0, <1>1 DEF SaveRecord, HistType
  <2>3. \/ pc'[t] = "reset" /\ nvs'.last = src[t]
        \/ pc'[t] = "retry" /\ nvs'.last = nvs.last
    BY <1>0, <1>1, GotoFrame DEF SaveRecord, Put, PutFails, NvsType
  <2>4. pc'[t] = "retry" => (hist'.unsaved <=> hist.unsaved)
    <3>1. hist' = [hist EXCEPT !.asked = hist.asked \cup {src[t]},
                               !.unsaved = hist.unsaved /\ pc'[t] = "retry"]
      BY <1>1 DEF SaveRecord
    <3> QED  BY <1>0, <3>1 DEF HistType
  <2> QED  BY <2>1, <2>2, <2>3, <2>4 DEF ReportInv
<1>2. ASSUME NEW t \in Tasks, RetryRecord(t) PROVE ReportInv'
  <2>1. /\ pc[t] = "retry" /\ pc'[t] = "reset" /\ \A u \in Tasks : u # t => pc'[u] = pc[u]
        /\ src' = src /\ ram' = ram /\ boot' = boot
    BY <1>2, GotoFrame DEF RetryRecord, At
  <2>2. hist'.asked = hist.asked /\ hist'.prev = hist.prev
    BY <1>0, <1>2 DEF RetryRecord, HistType
  <2>3. nvs'.last = src[t] \/ hist'.unsaved
    BY <1>0, <1>2 DEF RetryRecord, Put, PutFails, NvsType, HistType
  <2> QED  BY <2>1, <2>2, <2>3 DEF ReportInv
<1>3. ASSUME NEW t \in Tasks, Restart(t) \/ PowerCut PROVE ReportInv'
  <2>1. /\ nvs' = nvs /\ hist'.unsaved = hist.unsaved /\ hist'.prev = hist.asked
        /\ \A u \in Tasks : pc'[u] = "idle"
    BY <1>3, ResetFrame
  <2>2. CASE Restart(t)
    BY <2>1, <2>2 DEF Restart, At, ReportInv
  <2>3. CASE PowerCut
    <3>1. ram'.sw = FALSE
      BY <2>3 DEF PowerCut, ResetBoard, FreshRam
    <3> QED  BY <2>1, <3>1 DEF ReportInv
  <2> QED  BY <1>3, <2>2, <2>3
<1>4. CASE DiagInit
  <2>1. pc' = pc /\ src' = src /\ boot' = "up"
    BY <1>4 DEF DiagInit
  <2>2. hist'.asked = hist.asked /\ hist'.unsaved = hist.unsaved
    BY <1>0, <1>4 DEF DiagInit, HistType
  <2>3. nvs'.last \in {nvs.last, None}
    BY <1>0, <1>4 DEF DiagInit, NvsType
  <2> QED  BY <2>1, <2>2, <2>3 DEF ReportInv
<1>6. CASE FactoryReset
  <2>1. pc' = pc /\ src' = src /\ boot' = boot /\ nvs'.last = None
    BY <1>6 DEF FactoryReset, ErasedNvs
  <2>2. ram'.sw = ram.sw
    BY <1>0, <1>6 DEF FactoryReset, RamType
  <2>3. hist'.asked = hist.asked /\ hist'.prev = hist.prev /\ hist'.unsaved = hist.unsaved
    BY <1>0, <1>6 DEF FactoryReset, StreakEnds, HistType
  <2> QED  BY <2>1, <2>2, <2>3 DEF ReportInv
<1>5. "boot" \in Tasks
  BY DEF Tasks
<1> QED  BY <1>1, <1>2, <1>3, <1>4, <1>5, <1>6, OthersStandAside, AsideReport

(* The boot that reads the record reports a source that asked.             *)
LEMMA ReportStep ==
    ASSUME TypeInv, ReportInv, [Next]_vars, boot = "load", boot' = "up"
    PROVE  ram'.report \in {Unknown} \cup hist.prev \cup hist.asked \/ hist.unsaved
<1>1. DiagInit
  BY DEF Next, Safeguard, StartUp, Http, Dispatcher, Environment, Restarting, vars,
         Escalate, Account, Increment, Record, SaveRecord, RetryRecord, Restart, PowerCut, ResetBoard,
         GotIp, PersistGotIp, RestartDeferred, DeferredFires, RunIfPending, BootModeAborts,
         BootModeInstalls, ValidatorInit, RebootHandler, ApplyHandler, MarkValid, MarkedValid,
         Synchronised, Tick, StepBack, Refused, FlagUnread, FactoryReset, FactoryResetFires
<1>2. ram'.report = Unknown \/ (ram'.report = nvs.last /\ ram.sw /\ nvs.last # None)
  <2>1. AskValidated(ram) \in RamType
    BY AskType
  <2> QED  BY <1>1, <2>1 DEF DiagInit, RamType
<1> QED  BY <1>2 DEF ReportInv

-----------------------------------------------------------------------------
(* A step that leaves the boot-fail counter and its streak alone.  The     *)
(* clock may be set meanwhile: that only weakens what StreakInv demands.   *)
Uncounted ==
    /\ \/ pc'["reconn"] = pc["reconn"]
       \/ {pc["reconn"], pc'["reconn"]} \subseteq {"save", "retry", "reset"}
    /\ ram.synced => ram'.synced
    /\ ram'.cnt = ram.cnt /\ ram'.inBudget = ram.inBudget
    /\ nvs'.cnt = nvs.cnt /\ hist'.streak = hist.streak /\ hist'.lost = hist.lost

(* Such a step keeps StreakInv.                                            *)
LEMMA UncountedStreak == ASSUME StreakInv, Uncounted PROVE StreakInv'
<1>1. CASE pc'["reconn"] = pc["reconn"]
  BY <1>1 DEF StreakInv, Uncounted
<1>2. CASE {pc["reconn"], pc'["reconn"]} \subseteq {"save", "retry", "reset"}
  BY <1>2 DEF StreakInv, Uncounted
<1> QED  BY <1>1, <1>2 DEF Uncounted

(* Only the safeguard's steps, a reset and the three clearings are         *)
(* others.                                                                 *)
LEMMA OthersUncounted ==
    ASSUME TypeInv, [Next]_vars, ~Escalate, ~Account, ~Increment, ~Record,
           ~ \E t \in Tasks : Restart(t),
           ~PowerCut, ~PersistGotIp, ~ValidatorInit, ~MarkedValid, ~FactoryReset
    PROVE  Uncounted
<1>0. nvs \in NvsType /\ hist \in HistType /\ ram \in RamType /\ Tasks = {"boot", "reconn", "http", "apply", "disp"}
  BY DEF TypeInv, Tasks
<1>1. ASSUME NEW t \in Tasks, SaveRecord(t) PROVE Uncounted
  <2>1. nvs'.cnt = nvs.cnt
    BY <1>0, <1>1 DEF SaveRecord, NvsType, Put, PutFails
  <2>2. hist'.streak = hist.streak /\ hist'.lost = hist.lost
    BY <1>0, <1>1 DEF SaveRecord, HistType
  <2>3. pc'["reconn"] = pc["reconn"] \/ {pc["reconn"], pc'["reconn"]} \subseteq {"save", "retry", "reset"}
    BY <1>0, <1>1, GotoFrame DEF SaveRecord, At
  <2> QED  BY <1>1, <2>1, <2>2, <2>3 DEF SaveRecord, Uncounted
<1>2. ASSUME NEW t \in Tasks, RetryRecord(t) PROVE Uncounted
  <2>1. nvs'.cnt = nvs.cnt
    BY <1>0, <1>2 DEF RetryRecord, NvsType, Put, PutFails
  <2>2. hist'.streak = hist.streak /\ hist'.lost = hist.lost
    BY <1>0, <1>2 DEF RetryRecord, HistType
  <2>3. pc'["reconn"] = pc["reconn"] \/ {pc["reconn"], pc'["reconn"]} \subseteq {"save", "retry", "reset"}
    BY <1>0, <1>2, GotoFrame DEF RetryRecord, At
  <2> QED  BY <1>2, <2>1, <2>2, <2>3 DEF RetryRecord, Uncounted
<1>3. CASE GotIp \/ Synchronised
  <2>1. ram.synced => ram'.synced
    BY <1>0, <1>3 DEF GotIp, Synchronised, RamType
  <2>2. ram'.cnt = ram.cnt /\ ram'.inBudget = ram.inBudget
    BY <1>0, <1>3 DEF GotIp, Synchronised, RamType
  <2> QED  BY <1>3, <2>1, <2>2 DEF GotIp, Synchronised, Uncounted
<1>4. ASSUME NEW s \in {"WIFI_RECONFIGURE", "WIFI_PROVISIONED"}, RestartDeferred(s) PROVE Uncounted
  <2>1. ram'.synced = ram.synced /\ ram'.cnt = ram.cnt /\ ram'.inBudget = ram.inBudget
    BY <1>0, <1>4 DEF RestartDeferred, RamType
  <2> QED  BY <1>4, <2>1 DEF RestartDeferred, Uncounted
<1>5. CASE DeferredFires
  <2>1. ram'.synced = ram.synced /\ ram'.cnt = ram.cnt /\ ram'.inBudget = ram.inBudget
    BY <1>0, <1>5 DEF DeferredFires, RamType
  <2> QED  BY <1>0, <1>5, <2>1, BeginFrame DEF DeferredFires, Uncounted
<1>6. CASE RunIfPending
  <2>1. nvs'.cnt = nvs.cnt
    BY <1>0, <1>6 DEF RunIfPending, NvsType, Put, PutFails
  <2>2. hist'.streak = hist.streak /\ hist'.lost = hist.lost
    BY <1>0, <1>6 DEF RunIfPending, HistType
  <2> QED  BY <1>6, <2>1, <2>2 DEF RunIfPending, Uncounted
<1>13. CASE Refused \/ FlagUnread
  <2>1. ram'.synced = ram.synced /\ ram'.cnt = ram.cnt /\ ram'.inBudget = ram.inBudget
    BY <1>0, <1>13 DEF Refused, FlagUnread, RamType
  <2> QED  BY <1>13, <2>1 DEF Refused, FlagUnread, Uncounted
<1>14. CASE FactoryResetFires
  <2>1. ram'.synced = ram.synced /\ ram'.cnt = ram.cnt /\ ram'.inBudget = ram.inBudget
    BY <1>0, <1>14 DEF FactoryResetFires, RamType
  <2> QED  BY <1>0, <1>14, <2>1, BeginFrame DEF FactoryResetFires, Uncounted
<1>7. CASE BootModeAborts \/ BootModeInstalls \/ RebootHandler
  BY <1>0, <1>7, BeginFrame DEF BootModeAborts, BootModeInstalls, RebootHandler, Uncounted
<1>8. CASE DiagInit
  <2>1. nvs'.cnt = nvs.cnt
    BY <1>0, <1>8 DEF DiagInit, NvsType
  <2>2. hist'.streak = hist.streak /\ hist'.lost = hist.lost
    BY <1>0, <1>8 DEF DiagInit, HistType
  <2>3. ram'.synced = ram.synced /\ ram'.cnt = ram.cnt /\ ram'.inBudget = ram.inBudget
    <3>1. AskValidated(ram) \in RamType
      BY AskType
    <3> QED  BY <1>8, <3>1, AskFrame DEF DiagInit, RamType
  <2> QED  BY <1>8, <2>1, <2>2, <2>3 DEF DiagInit, Uncounted
<1>9. CASE ApplyHandler
  <2>1. nvs'.cnt = nvs.cnt
    BY <1>0, <1>9 DEF ApplyHandler, NvsType, Put, PutFails
  <2>2. hist'.streak = hist.streak /\ hist'.lost = hist.lost
    BY <1>0, <1>9 DEF ApplyHandler, HistType
  <2> QED  BY <1>0, <1>9, <2>1, <2>2, BeginFrame DEF ApplyHandler, Uncounted
<1>10. CASE MarkValid
  <2>1. ram'.synced = ram.synced /\ ram'.cnt = ram.cnt /\ ram'.inBudget = ram.inBudget
    BY <1>0, <1>10 DEF MarkValid, RamType
  <2> QED  BY <1>0, <1>10, <2>1, GotoFrame DEF MarkValid, Uncounted
<1>11. CASE Tick \/ UNCHANGED vars
  BY <1>11 DEF Tick, vars, Uncounted
<1>12. CASE StepBack
  <2>1. hist'.streak = hist.streak /\ hist'.lost = hist.lost
    BY <1>0, <1>12 DEF StepBack, HistType
  <2> QED  BY <1>12, <2>1 DEF StepBack, Uncounted
<1> QED
  BY <1>1, <1>2, <1>3, <1>4, <1>5, <1>6, <1>7, <1>8, <1>9, <1>10, <1>11, <1>12, <1>13, <1>14
     DEF Next, Safeguard, StartUp, Http, Dispatcher, Environment, Restarting

(* What Increment writes when it read a, and what is lost by then when NVS *)
(* holds b and l were lost before.                                         *)
Raised(a) == IF a < 255 THEN a + 1 ELSE a
LostBy(a, b, l) == IF a < b THEN l + (b - a) ELSE l

(* The counter and the losses of an increment keep up with a streak s.     *)
LEMMA IncrementBounds ==
    ASSUME NEW a \in 0..255, NEW b \in 0..255, NEW l \in Nat, NEW s \in Int,
           s - l <= b, s - l <= Threshold
    PROVE  /\ s - (l + 1) < b /\ s - (l + 1) < Threshold
           /\ s - LostBy(a, b, l) <= Raised(a) /\ s - LostBy(a, b, l) <= Threshold
           /\ s - l < Threshold => s - LostBy(a, b, l) < Raised(a) /\ s - LostBy(a, b, l) < Threshold
<1>1. Threshold \in Nat /\ Threshold <= 255
  BY ThrottleAssumption
<1>2. CASE a < b
  BY <1>1, <1>2 DEF Raised, LostBy
<1>3. CASE ~(a < b) /\ a < 255
  BY <1>1, <1>3 DEF Raised, LostBy
<1>4. CASE ~(a < b) /\ a = 255
  BY <1>1, <1>4 DEF Raised, LostBy
<1> QED  BY <1>2, <1>3, <1>4

(* Between two clearings every reboot the budget does not know of has      *)
(* first raised the counter, or lost a count.                              *)
LEMMA StreakNext == TypeInv /\ StreakInv /\ [Next]_vars => StreakInv'
<1> SUFFICES ASSUME TypeInv, StreakInv, [Next]_vars PROVE StreakInv'
  OBVIOUS
<1>0. /\ nvs \in NvsType /\ hist \in HistType /\ ram \in RamType /\ "reconn" \in Tasks
      /\ Threshold \in Nat /\ Threshold > 0 /\ Threshold <= 255
      /\ nvs.cnt \in 0..255 /\ ram.cnt \in 0..255 /\ hist.streak \in Int /\ hist.lost \in Nat
  BY ThrottleAssumption, RamFields, HistFields DEF TypeInv, Tasks
<1>1. CASE Escalate
  <2>1. pc["reconn"] = "idle" /\ pc'["reconn"] = "account" /\ nvs' = nvs
    BY <1>0, <1>1, GotoFrame DEF Escalate, At
  <2>2. ram'.synced = ram.synced
    BY <1>0, <1>1 DEF Escalate, AllowedByCount, AllowedByBudget, RamType
  <2>3. hist'.streak = hist.streak /\ hist'.lost >= hist.lost /\ hist'.lost \in Nat
        /\ (~ram.synced /\ nvs.cnt >= Threshold => hist'.lost = hist.lost + 1)
    <3>1. CASE AllowedByCount
      <4>1. hist' = [hist EXCEPT !.lost = @ + One(nvs.cnt >= Threshold)]
        BY <3>1 DEF AllowedByCount
      <4>2. hist'.streak = hist.streak /\ hist'.lost = hist.lost + One(nvs.cnt >= Threshold)
        BY <1>0, <4>1 DEF HistType
      <4> QED  BY <1>0, <4>2 DEF One
    <3>2. CASE AllowedByBudget
      BY <1>0, <3>2 DEF AllowedByBudget
    <3> QED  BY <1>1, <3>1, <3>2 DEF Escalate
  <2>4. hist.streak - hist.lost <= nvs.cnt /\ hist.streak - hist.lost <= Threshold
    BY DEF StreakInv
  <2>5. /\ hist'.streak - hist'.lost <= nvs.cnt /\ hist'.streak - hist'.lost <= Threshold
        /\ ~ram.synced => hist'.streak - hist'.lost < Threshold
    BY <1>0, <2>3, <2>4
  <2> QED  BY <2>1, <2>2, <2>5 DEF StreakInv
<1>2. CASE Account
  <2>1. pc["reconn"] = "account" /\ nvs' = nvs /\ hist' = hist
    BY <1>2 DEF Account, At
  <2>2. /\ AskValidated(ram) \in RamType
        /\ AskValidated(ram).synced = ram.synced
    BY AskType, AskFrame
  <2>3. ram'.synced = ram.synced
    BY <1>2, <2>2 DEF Account, RamType
  <2>4. CASE pc'["reconn"] = "increment"
    BY <1>0, <2>1, <2>3, <2>4 DEF StreakInv
  <2>5. CASE pc'["reconn"] = "record"
    <3>1. ram.synced
      BY <1>0, <1>2, <2>5, GotoFrame DEF Account, should_increment
    <3> QED  BY <1>0, <2>1, <2>3, <2>5, <3>1 DEF StreakInv
  <2> QED  BY <1>0, <1>2, <2>4, <2>5, GotoFrame DEF Account
<1>3. CASE Increment
  <2>1. pc["reconn"] = "increment" /\ pc'["reconn"] = "record" /\ ram' = ram
    BY <1>0, <1>3, GotoFrame DEF Increment, At
  <2>2. /\ hist'.streak = hist.streak
        /\ \/ nvs'.cnt = Raised(ram.cnt) /\ hist'.lost = LostBy(ram.cnt, nvs.cnt, hist.lost)
           \/ nvs'.cnt = nvs.cnt /\ hist'.lost = hist.lost + 1
    BY <1>0, <1>3 DEF Increment, Put, PutFails, NvsType, HistType, Raised, LostBy
  <2>3. /\ hist.streak - hist.lost <= nvs.cnt /\ hist.streak - hist.lost <= Threshold
        /\ ~ram.synced => hist.streak - hist.lost < Threshold
    BY <2>1 DEF StreakInv
  <2>4. /\ hist'.streak - hist'.lost <= nvs'.cnt
        /\ hist'.streak - hist'.lost <= Threshold
        /\ ~ram.synced => /\ hist'.streak - hist'.lost < Threshold
                          /\ hist'.streak - hist'.lost < nvs'.cnt
    <3>1. /\ hist.streak - (hist.lost + 1) < nvs.cnt /\ hist.streak - (hist.lost + 1) < Threshold
          /\ hist.streak - LostBy(ram.cnt, nvs.cnt, hist.lost) <= Raised(ram.cnt)
          /\ hist.streak - LostBy(ram.cnt, nvs.cnt, hist.lost) <= Threshold
          /\ hist.streak - hist.lost < Threshold =>
                /\ hist.streak - LostBy(ram.cnt, nvs.cnt, hist.lost) < Raised(ram.cnt)
                /\ hist.streak - LostBy(ram.cnt, nvs.cnt, hist.lost) < Threshold
      <4>1. /\ ram.cnt \in 0..255 /\ nvs.cnt \in 0..255 /\ hist.lost \in Nat /\ hist.streak \in Int
            /\ hist.streak - hist.lost <= nvs.cnt /\ hist.streak - hist.lost <= Threshold
        BY <1>0, <2>3
      <4> QED  BY <4>1, IncrementBounds
    <3>2. CASE nvs'.cnt = Raised(ram.cnt) /\ hist'.lost = LostBy(ram.cnt, nvs.cnt, hist.lost)
      BY <2>2, <2>3, <3>1, <3>2
    <3>3. CASE nvs'.cnt = nvs.cnt /\ hist'.lost = hist.lost + 1
      BY <1>0, <2>2, <2>3, <3>1, <3>3
    <3> QED  BY <2>2, <3>2, <3>3
  <2> QED  BY <2>1, <2>4 DEF StreakInv
<1>4. CASE Record
  <2>1. pc["reconn"] = "record" /\ pc'["reconn"] = "save"
    BY <1>0, <1>4, BeginFrame DEF Record, At
  <2>2. hist'.streak = hist.streak /\ hist'.lost = hist.lost
    BY <1>0, <1>4 DEF Record, HistType
  <2>3. nvs'.cnt = nvs.cnt
    BY <1>0, <1>4 DEF Record, NvsType, Put, PutFails
  <2>4. IF ram.synced THEN ram'.inBudget ELSE ram' = ram
    BY <1>0, <1>4 DEF Record, RamType
  <2>5. /\ hist.streak - hist.lost <= nvs.cnt /\ hist.streak - hist.lost <= Threshold
        /\ ~ram.synced => /\ hist.streak - hist.lost < Threshold
                          /\ hist.streak - hist.lost < nvs.cnt
    BY <2>1 DEF StreakInv
  <2>6. CASE ram.synced
    BY <2>1, <2>2, <2>3, <2>4, <2>5, <2>6 DEF StreakInv
  <2>7. CASE ~ram.synced
    BY <2>1, <2>2, <2>3, <2>4, <2>5, <2>7 DEF StreakInv
  <2> QED  BY <2>6, <2>7
<1>5. ASSUME NEW t \in Tasks, Restart(t) PROVE StreakInv'
  <2>1. nvs' = nvs /\ pc'["reconn"] = "idle" /\ hist'.lost = hist.lost
    BY <1>0, <1>5, ResetFrame
  <2>2. hist'.streak = IF t = "reconn" /\ ~ram.inBudget THEN hist.streak + 1 ELSE hist.streak
    BY <1>0, <1>5 DEF Restart, ResetBoard, HistType
  <2>3. t = "reconn" => pc["reconn"] = "reset"
    BY <1>5 DEF Restart, At
  <2> QED  BY <1>0, <2>1, <2>2, <2>3 DEF StreakInv
<1>6. CASE PowerCut
  <2>1. nvs' = nvs /\ pc'["reconn"] = "idle" /\ hist'.lost = hist.lost
    BY <1>0, <1>6, ResetFrame
  <2>2. hist'.streak = IF hist.streak < 0 THEN 0 ELSE hist.streak
    BY <1>0, <1>6 DEF PowerCut, ResetBoard, HistType
  <2> QED  BY <1>0, <2>1, <2>2 DEF StreakInv
<1>7. ASSUME BootCountReset, pc'["reconn"] = pc["reconn"], ram'.synced = ram.synced,
             ram'.cnt = ram.cnt, ram'.inBudget = ram.inBudget
      PROVE  StreakInv'
  <2>1. \/ /\ nvs'.cnt = 0 /\ hist'.lost = hist.lost
           /\ hist'.streak = IF pc["reconn"] \in {"record", "save", "retry", "reset"} THEN -1 ELSE 0
        \/ nvs' = nvs /\ hist' = hist
    BY <1>0, <1>7 DEF BootCountReset, StreakEnds, Put, PutFails, NvsType, HistType
  <2> QED  BY <1>0, <1>7, <2>1 DEF StreakInv
<1>11. CASE FactoryReset
  <2>1. pc' = pc /\ nvs'.cnt = 0
    BY <1>11 DEF FactoryReset, ErasedNvs
  <2>2. ram'.synced = ram.synced /\ ram'.cnt = ram.cnt /\ ram'.inBudget = ram.inBudget
    BY <1>0, <1>11 DEF FactoryReset, RamType
  <2>3. /\ hist'.lost = hist.lost
        /\ hist'.streak = IF pc["reconn"] \in {"record", "save", "retry", "reset"} THEN -1 ELSE 0
    BY <1>0, <1>11 DEF FactoryReset, StreakEnds, HistType
  <2> QED  BY <1>0, <2>1, <2>2, <2>3 DEF StreakInv
<1>8. CASE PersistGotIp
  <2>1. ram'.synced = ram.synced /\ ram'.cnt = ram.cnt /\ ram'.inBudget = ram.inBudget
    BY <1>0, <1>8 DEF PersistGotIp, RamType
  <2> QED  BY <1>7, <1>8, <2>1 DEF PersistGotIp
<1>9. CASE ValidatorInit
  <2>1. ram'.synced = ram.synced /\ ram'.cnt = ram.cnt /\ ram'.inBudget = ram.inBudget
    BY <1>0, <1>9 DEF ValidatorInit, RamType
  <2>2. pc' = pc /\ (BootCountReset \/ UNCHANGED <<nvs, hist>>)
    BY <1>9 DEF ValidatorInit
  <2>3. CASE UNCHANGED <<nvs, hist>>
    BY <2>1, <2>2, <2>3, UncountedStreak DEF Uncounted
  <2> QED  BY <1>7, <2>1, <2>2, <2>3
<1>10. CASE MarkedValid
  <2>1. ram'.synced = ram.synced /\ ram'.cnt = ram.cnt /\ ram'.inBudget = ram.inBudget
    BY <1>10, AskFrame DEF MarkedValid
  <2>2. pc'["reconn"] = pc["reconn"]
    BY <1>0, <1>10, GotoFrame DEF MarkedValid, Tasks
  <2> QED  BY <1>7, <1>10, <2>1, <2>2 DEF MarkedValid
<1> QED
  BY <1>1, <1>2, <1>3, <1>4, <1>5, <1>6, <1>8, <1>9, <1>10, <1>11, OthersUncounted, UncountedStreak

-----------------------------------------------------------------------------
(* The ring's indices: recording moves the head on, and the k-th latest    *)
(* entry becomes the (k+1)-th.                                             *)
LEMMA BackProps ==
    ASSUME NEW h \in 0 .. CapMax - 1
    PROVE  /\ (h + 1) % CapMax = IF h + 1 = CapMax THEN 0 ELSE h + 1
           /\ Back((h + 1) % CapMax, 1) = h
           /\ \A k \in 1 .. CapMax - 1 :
                 Back((h + 1) % CapMax, k + 1) = Back(h, k) /\ Back(h, k) # h
           /\ \A k \in 1 .. CapMax : Back(h, k) \in 0 .. CapMax - 1
<1>0. CapMax \in Nat \ {0}
  BY ThrottleAssumption
<1>1. (h + 1) % CapMax = IF h + 1 = CapMax THEN 0 ELSE h + 1
  BY <1>0
<1>2. Back((h + 1) % CapMax, 1) = h
  BY <1>0, <1>1 DEF Back
<1>3. \A k \in 1 .. CapMax - 1 : Back((h + 1) % CapMax, k + 1) = Back(h, k) /\ Back(h, k) # h
  BY <1>0, <1>1 DEF Back
<1>4. \A k \in 1 .. CapMax : Back(h, k) \in 0 .. CapMax - 1
  BY <1>0 DEF Back
<1> QED  BY <1>1, <1>2, <1>3, <1>4

(* BackProps, the part about the range, for every head.                    *)
LEMMA BackRange == \A h \in 0 .. CapMax - 1, k \in 1 .. CapMax : Back(h, k) \in 0 .. CapMax - 1
<1>0. CapMax \in Nat \ {0}
  BY ThrottleAssumption
<1> QED  BY <1>0 DEF Back

(* Finite intervals and their size.                                        *)
LEMMA Intervals ==
    ASSUME NEW n \in Nat
    PROVE  IsFiniteSet(1 .. n) /\ Cardinality(1 .. n) = n /\ IsFiniteSet(0 .. n - 1)
<1>1. 0 \in Int /\ 1 \in Int /\ n \in Int /\ n - 1 \in Int
  OBVIOUS
<1>2. IsFiniteSet(0 .. n - 1)
  BY <1>1, FS_Interval, Zenon
<1>3. IsFiniteSet(1 .. n) /\ Cardinality(1 .. n) = IF 1 > n THEN 0 ELSE n - 1 + 1
  BY <1>1, FS_Interval, Zenon
<1>4. (IF 1 > n THEN 0 ELSE n - 1 + 1) = n
  OBVIOUS
<1> QED  BY <1>2, <1>3, <1>4

(* What lies between an old reboot and now is no further from now.         *)
LEMMA Between ==
    ASSUME NEW a \in Nat, NEW x \in Nat, NEW y \in Nat, NEW l \in Nat, NEW t \in Nat, NEW d \in Nat,
           a <= x, x <= y, y <= l, l <= t
    PROVE  /\ a <= t /\ y <= t /\ x <= l
           /\ t - a < d => t - y < d
           /\ t - l >= d => t - x >= d
OBVIOUS

(* bb_system_reboot_budget_state_record puts the new time in front and     *)
(* drops the oldest entry of a full ring.                                  *)
LEMMA RecordRing ==
    ASSUME NEW b \in Budgets, RingType(b), NEW t \in Times
    PROVE  LET c == state_record(b, t) IN
           /\ RingType(c) /\ c.last = t
           /\ c.count = IF b.count < CapMax THEN b.count + 1 ELSE b.count
           /\ c.ring[Back(c.head, 1)] = t
           /\ \A k \in 1 .. CapMax - 1 : c.ring[Back(c.head, k + 1)] = b.ring[Back(b.head, k)]
<1> DEFINE c == state_record(b, t)
<1>1. CapMax \in Nat \ {0} /\ b.head \in 0 .. CapMax - 1 /\ b.count \in 0 .. CapMax
      /\ b.ring \in [0 .. CapMax - 1 -> Times]
  BY ThrottleAssumption DEF Budgets
<1>2. /\ c.last = t /\ c.head = (b.head + 1) % CapMax
      /\ c.count = IF b.count < CapMax THEN b.count + 1 ELSE b.count
      /\ c.ring = [b.ring EXCEPT ![b.head] = t]
  BY DEF state_record
<1> HIDE DEF c
<1>6. /\ (b.head + 1) % CapMax = IF b.head + 1 = CapMax THEN 0 ELSE b.head + 1
      /\ Back((b.head + 1) % CapMax, 1) = b.head
      /\ \A k \in 1 .. CapMax - 1 :
            /\ Back((b.head + 1) % CapMax, k + 1) = Back(b.head, k) /\ Back(b.head, k) # b.head
      /\ \A k \in 1 .. CapMax : Back(b.head, k) \in 0 .. CapMax - 1
  BY <1>1, BackProps
<1>3. RingType(c)
  BY <1>1, <1>2, <1>6 DEF RingType
<1>4. c.ring[Back(c.head, 1)] = t
  BY <1>1, <1>2, <1>6
<1>5. \A k \in 1 .. CapMax - 1 : c.ring[Back(c.head, k + 1)] = b.ring[Back(b.head, k)]
  <2> TAKE k \in 1 .. CapMax - 1
  <2>1. /\ Back(c.head, k + 1) = Back(b.head, k) /\ Back(b.head, k) # b.head
        /\ Back(b.head, k) \in 0 .. CapMax - 1
    <3>1. k \in 1 .. CapMax /\ c.head = (b.head + 1) % CapMax
      BY <1>1, <1>2
    <3> QED  BY <3>1, <1>6
  <2> QED  BY <1>1, <1>2, <2>1
<1> QED  BY <1>2, <1>3, <1>4, <1>5 DEF c

(* A reboot that is recorded and counted: the ring covers it too.          *)
LEMMA CoversAppend ==
    ASSUME NEW b \in Budgets, RingType(b), NEW times \in Seq(Times), NEW t \in Times, t > 0,
           times = << >> \/ (RingCovers(b, times) /\ t >= b.last)
    PROVE  RingCovers(state_record(b, t), Append(times, t))
<1> DEFINE c == state_record(b, t)
           s == Append(times, t)
<1>1. /\ s \in Seq(Times) /\ Len(s) = Len(times) + 1 /\ Len(times) \in Nat /\ s[Len(s)] = t
      /\ \A i \in 1 .. Len(times) : s[i] = times[i]
  OBVIOUS
<1>2. CapMax \in Nat \ {0} /\ b.head \in 0 .. CapMax - 1 /\ b.count \in 0 .. CapMax
      /\ b.last \in Times /\ b.ring \in [0 .. CapMax - 1 -> Times] /\ Times \subseteq Nat
  BY ThrottleAssumption, BoundAssumption DEF Budgets, Times
<1>3. /\ c.last = t /\ c.count = IF b.count < CapMax THEN b.count + 1 ELSE b.count
      /\ c.ring[Back(c.head, 1)] = t
      /\ \A k \in 1 .. CapMax - 1 : c.ring[Back(c.head, k + 1)] = b.ring[Back(b.head, k)]
  BY RecordRing
<1> HIDE DEF c, s
<1>4. ASSUME NEW j \in 1 .. Len(s), j <= CapMax
      PROVE  /\ j <= c.count /\ s[Len(s) + 1 - j] <= c.ring[Back(c.head, j)]
             /\ c.ring[Back(c.head, j)] <= c.last
  <2>1. CASE j = 1
    <3>1. s[Len(s) + 1 - j] = t /\ c.ring[Back(c.head, j)] = t
      BY <1>1, <1>3, <2>1
    <3>2. c.count >= 1
      BY <1>2, <1>3
    <3> QED  BY <1>2, <1>3, <2>1, <3>1, <3>2
  <2>2. CASE j # 1
    <3>1. PICK k \in 1 .. CapMax - 1 : j = k + 1 /\ k \in 1 .. Len(times)
      <4>1. j - 1 \in 1 .. CapMax - 1 /\ j - 1 \in 1 .. Len(times) /\ j = (j - 1) + 1
        BY <1>1, <1>2, <1>4, <2>2
      <4> QED  BY <4>1
    <3>2. times # << >>
      BY <3>1
    <3>3. /\ k <= b.count /\ times[Len(times) + 1 - k] <= b.ring[Back(b.head, k)]
          /\ b.ring[Back(b.head, k)] <= b.last /\ t >= b.last
      BY <1>1, <1>2, <3>1, <3>2 DEF RingCovers
    <3>4. s[Len(s) + 1 - j] = times[Len(times) + 1 - k]
      BY <1>1, <3>1
    <3>5. c.ring[Back(c.head, j)] = b.ring[Back(b.head, k)]
      BY <1>3, <3>1
    <3>6. b.ring[Back(b.head, k)] \in Nat /\ t \in Nat /\ b.last \in Nat
      <4>1. Back(b.head, k) \in 0 .. CapMax - 1
        <5>1. b.head \in 0 .. CapMax - 1 /\ k \in 1 .. CapMax
          BY <1>2
        <5> QED  BY <5>1, BackRange
      <4> QED  BY <1>2, <4>1
    <3>7. j <= c.count
      BY <1>2, <1>3, <1>4, <3>1, <3>3
    <3> QED  BY <1>3, <3>3, <3>4, <3>5, <3>6, <3>7
  <2> QED  BY <2>1, <2>2
<1> QED  BY <1>3, <1>4 DEF RingCovers, c, s

(* A reboot that is recorded but not counted, because the boot-fail        *)
(* counter had allowed it, only makes the ring's times later.              *)
LEMMA CoversKeep ==
    ASSUME NEW b \in Budgets, RingType(b), NEW times \in Seq(Times), NEW t \in Times, t > 0,
           times # << >>, Sorted(times), RingCovers(b, times), t >= b.last
    PROVE  RingCovers(state_record(b, t), times)
<1> DEFINE c == state_record(b, t)
<1>1. /\ Len(times) \in Nat /\ \A i \in 1 .. Len(times) : times[i] \in Times
  OBVIOUS
<1>2. CapMax \in Nat \ {0} /\ b.head \in 0 .. CapMax - 1 /\ b.count \in 0 .. CapMax
      /\ b.last \in Times /\ b.ring \in [0 .. CapMax - 1 -> Times] /\ Times \subseteq Nat
  BY ThrottleAssumption, BoundAssumption DEF Budgets, Times
<1>3. /\ c.last = t /\ c.count = IF b.count < CapMax THEN b.count + 1 ELSE b.count
      /\ c.ring[Back(c.head, 1)] = t
      /\ \A k \in 1 .. CapMax - 1 : c.ring[Back(c.head, k + 1)] = b.ring[Back(b.head, k)]
  BY RecordRing
<1> HIDE DEF c
<1>4. ASSUME NEW k \in 1 .. Len(times), k <= CapMax
      PROVE  /\ k <= b.count /\ times[Len(times) + 1 - k] <= b.ring[Back(b.head, k)]
             /\ b.ring[Back(b.head, k)] <= b.last
             /\ b.ring[Back(b.head, k)] \in Nat
  <2>1. Back(b.head, k) \in 0 .. CapMax - 1
    <3>1. b.head \in 0 .. CapMax - 1 /\ k \in 1 .. CapMax
      BY <1>2, <1>4
    <3> QED  BY <3>1, BackRange
  <2>2. b.ring[Back(b.head, k)] \in Nat
    BY <1>2, <2>1
  <2> QED  BY <1>4, <2>2 DEF RingCovers
<1>5. ASSUME NEW j \in 1 .. Len(times), j <= CapMax
      PROVE  /\ j <= c.count /\ times[Len(times) + 1 - j] <= c.ring[Back(c.head, j)]
             /\ c.ring[Back(c.head, j)] <= c.last
  <2>1. CASE j = 1
    <3>1. times[Len(times)] <= t
      <4>1. times[Len(times)] \in Nat /\ b.last \in Nat /\ t \in Nat
        BY <1>1, <1>2, <1>5, Len(times) \in 1 .. Len(times)
      <4>3. Len(times) + 1 - 1 = Len(times)
        BY <1>1
      <4>2. times[Len(times)] <= b.ring[Back(b.head, 1)] /\ b.ring[Back(b.head, 1)] <= b.last
            /\ b.ring[Back(b.head, 1)] \in Nat
        BY <1>2, <1>4, <1>5, <2>1, <4>3
      <4> QED  BY <4>1, <4>2
    <3>2. c.count >= 1
      BY <1>2, <1>3
    <3> QED  BY <1>1, <1>2, <1>3, <2>1, <3>1, <3>2
  <2>2. CASE j # 1
    <3>1. PICK k \in 1 .. CapMax - 1 : j = k + 1 /\ k \in 1 .. Len(times)
      <4>1. j - 1 \in 1 .. CapMax - 1 /\ j - 1 \in 1 .. Len(times) /\ j = (j - 1) + 1
        BY <1>1, <1>2, <1>5, <2>2
      <4> QED  BY <4>1
    <3>3. /\ k <= b.count /\ times[Len(times) + 1 - k] <= b.ring[Back(b.head, k)]
          /\ b.ring[Back(b.head, k)] <= b.last /\ b.ring[Back(b.head, k)] \in Nat
      BY <1>2, <1>4, <3>1
    <3>4. times[Len(times) + 1 - j] <= times[Len(times) + 1 - k]
      <4>1. Len(times) + 1 - j \in 1 .. Len(times) /\ Len(times) + 1 - k \in 1 .. Len(times)
            /\ Len(times) + 1 - j <= Len(times) + 1 - k
        BY <1>1, <3>1
      <4> QED  BY <4>1 DEF Sorted
    <3>5. c.ring[Back(c.head, j)] = b.ring[Back(b.head, k)]
      BY <1>3, <3>1
    <3>6. t \in Nat /\ b.last \in Nat /\ times[Len(times) + 1 - j] \in Nat
          /\ times[Len(times) + 1 - k] \in Nat
      <4>1. Len(times) + 1 - j \in 1 .. Len(times) /\ Len(times) + 1 - k \in 1 .. Len(times)
        BY <1>1, <3>1
      <4> QED  BY <1>1, <1>2, <4>1
    <3>7. j <= c.count
      BY <1>2, <1>3, <1>5, <3>1, <3>3
    <3>8. times[Len(times) + 1 - j] <= b.ring[Back(b.head, k)]
      BY <3>3, <3>4, <3>6
    <3>9. b.ring[Back(b.head, k)] <= t
      BY <3>3, <3>6
    <3>10. c.last = t
      BY <1>3
    <3> QED  BY <3>5, <3>7, <3>8, <3>9, <3>10, Zenon
  <2> QED  BY <2>1, <2>2
<1> QED  BY <1>3, <1>5 DEF RingCovers, c

(* bb_system_reboot_budget_state_should_allow: with the ring covering the  *)
(* history, an allowed reboot keeps MinInterval to the last one and finds  *)
(* fewer than DailyCap within a Day.  Were there DailyCap of them, their   *)
(* entries of the ring would all lie in the window the function counts.    *)
LEMMA AllowedIsSpaced ==
    ASSUME NEW b \in Budgets, RingType(b), NEW times \in Seq(Times), NEW t \in Times,
           times # << >>, Sorted(times), RingCovers(b, times), should_allow(t, b)
    PROVE  Spaced(times, t) /\ t >= b.last
<1>1. /\ Len(times) \in Nat /\ Len(times) > 0 /\ \A i \in 1 .. Len(times) : times[i] \in Nat
      /\ t \in Nat
  BY BoundAssumption DEF Times
<1>2. /\ CapMax \in Nat /\ CapMax > 0 /\ b.head \in 0 .. CapMax - 1 /\ b.count \in 0 .. CapMax
      /\ b.last \in Nat /\ b.ring \in [0 .. CapMax - 1 -> Times] /\ Times \subseteq Nat
      /\ DailyCap \in Nat /\ DailyCap > 0 /\ DailyCap <= CapMax
      /\ MinInterval \in Nat /\ MinInterval > 0 /\ Day \in Nat
  BY ThrottleAssumption, BoundAssumption DEF Budgets, Times
<1>3. ASSUME NEW k \in 1 .. Len(times), k <= CapMax
      PROVE  /\ k <= b.count /\ times[Len(times) + 1 - k] <= b.ring[Back(b.head, k)]
             /\ b.ring[Back(b.head, k)] <= b.last
             /\ b.ring[Back(b.head, k)] \in Nat
  <2>1. Back(b.head, k) \in 0 .. CapMax - 1
    <3>1. b.head \in 0 .. CapMax - 1 /\ k \in 1 .. CapMax
      BY <1>2, <1>3
    <3> QED  BY <3>1, BackRange
  <2>2. b.ring[Back(b.head, k)] \in Nat
    BY <1>2, <2>1
  <2> QED  BY <1>3, <2>2 DEF RingCovers
<1>4. t >= b.last /\ t - b.last >= MinInterval
  <2>1. b.last > 0 /\ elapsed_epoch_s(t, b.last) >= MinInterval
    BY <1>2 DEF RingCovers, should_allow
  <2> QED  BY <1>1, <1>2, <2>1 DEF elapsed_epoch_s
<1>5. t - times[Len(times)] >= MinInterval
  <2>1. Len(times) + 1 - 1 = Len(times) /\ times[Len(times)] \in Nat
    BY <1>1
  <2>2. times[Len(times)] <= b.ring[Back(b.head, 1)] /\ b.ring[Back(b.head, 1)] <= b.last
        /\ b.ring[Back(b.head, 1)] \in Nat
    BY <1>1, <1>2, <1>3, <2>1
  <2>3. times[Len(times)] <= b.last
    BY <1>2, <2>1, <2>2
  <2> QED  BY <1>1, <1>2, <1>4, <2>1, <2>3
<1>6. ASSUME Len(times) >= DailyCap, t - times[Len(times) + 1 - DailyCap] < Day PROVE FALSE
  <2> DEFINE first == times[Len(times) + 1 - DailyCap]
             f == [j \in 1 .. DailyCap |-> Back(b.head, j)]
             W == InWindow(b, t)
  <2>1. first \in Nat /\ t - first < Day
    BY <1>1, <1>2, <1>6
  <2>2. ASSUME NEW j \in 1 .. DailyCap PROVE Back(b.head, j) \in W
    <3>1. /\ j \in 1 .. Len(times) /\ j <= CapMax
          /\ Len(times) + 1 - j \in 1 .. Len(times)
          /\ Len(times) + 1 - DailyCap \in 1 .. Len(times)
          /\ Len(times) + 1 - DailyCap <= Len(times) + 1 - j
      BY <1>1, <1>2, <1>6
    <3>2. first <= times[Len(times) + 1 - j] /\ times[Len(times) + 1 - j] \in Nat
      BY <1>1, <3>1 DEF Sorted
    <3>3. /\ j <= b.count /\ times[Len(times) + 1 - j] <= b.ring[Back(b.head, j)]
          /\ b.ring[Back(b.head, j)] <= b.last /\ b.ring[Back(b.head, j)] \in Nat
      BY <1>3, <3>1
    <3>4. t >= b.ring[Back(b.head, j)] /\ t - b.ring[Back(b.head, j)] < Day
      <4> HIDE DEF first
      <4>1. b.ring[Back(b.head, j)] <= t
        BY <1>1, <1>2, <1>4, <2>1, <3>2, <3>3, Between
      <4>3. first <= b.ring[Back(b.head, j)]
        BY <2>1, <3>2, <3>3
      <4>2. t - b.ring[Back(b.head, j)] < Day
        BY <1>1, <1>2, <2>1, <3>3, <4>3
      <4> QED  BY <1>1, <3>3, <4>1, <4>2
    <3>5. Back(b.head, j) \in 0 .. b.count - 1
      <4>1. b.head \in Int /\ b.count \in Int /\ j \in 1 .. b.count /\ b.count <= CapMax
        BY <1>2, <3>1, <3>3
      <4>2. CASE b.count < CapMax
        BY <4>1, <4>2 DEF Back, RingType
      <4>3. CASE b.count = CapMax
        BY <1>2, <3>1, <4>1, <4>3 DEF Back
      <4> QED  BY <1>2, <4>1, <4>2, <4>3
    <3> QED  BY <3>4, <3>5 DEF InWindow
  <2>3. IsFiniteSet(W)
    <3>1. IsFiniteSet(0 .. b.count - 1)
      <4>1. b.count \in Nat
        BY <1>2
      <4> QED  BY <4>1, Intervals
    <3> QED  BY <3>1, FS_Subset DEF InWindow
  <2>4. f \in Injection(1 .. DailyCap, W)
    <3>1. f \in [1 .. DailyCap -> W]
      BY <2>2
    <3>2. ASSUME NEW i \in 1 .. DailyCap, NEW j \in 1 .. DailyCap, f[i] = f[j] PROVE i = j
      BY <1>2, <3>2 DEF Back
    <3> QED  BY <3>1, <3>2 DEF Injection, IsInjective
  <2>5. IsFiniteSet(1 .. DailyCap) /\ Cardinality(1 .. DailyCap) = DailyCap
    BY <1>2, Intervals
  <2>6. Cardinality(1 .. DailyCap) <= Cardinality(W)
    BY <2>3, <2>4, FS_Injection DEF ExistsInjection
  <2>7. Cardinality(W) < DailyCap /\ Cardinality(W) \in Nat
    BY <2>3, FS_CardinalityType DEF should_allow
  <2> QED  BY <1>2, <2>5, <2>6, <2>7
<1>7. Len(times) >= DailyCap => t - times[Len(times) + 1 - DailyCap] >= Day
  <2>1. SUFFICES ASSUME Len(times) >= DailyCap
                 PROVE  t - times[Len(times) + 1 - DailyCap] >= Day
    OBVIOUS
  <2>2. Len(times) + 1 - DailyCap \in 1 .. Len(times)
    BY <1>1, <1>2, <2>1
  <2>3. times[Len(times) + 1 - DailyCap] \in Nat
    BY <1>1, <2>2
  <2> QED  BY <1>1, <1>2, <1>6, <2>1, <2>3
<1> QED  BY <1>4, <1>5, <1>7 DEF Spaced

(* From the decision that a reboot is allowed to its record.               *)
Deciding == {"account", "increment", "record"}

(* A step that leaves the budget, its cache, the clock and the history of  *)
(* times alone.                                                            *)
TimesAside ==
    /\ nvs'.budget = nvs.budget /\ hist'.times = hist.times /\ now' = now
    /\ ram'.cache = ram.cache /\ ram'.loaded = ram.loaded /\ ram'.bySync = ram.bySync
    /\ ram.synced => ram'.synced
    /\ pc'["reconn"] \in Deciding => pc["reconn"] \in Deciding

(* Such a step keeps TimesInv.                                             *)
LEMMA TimesAsideKeeps == ASSUME TimesInv, TimesAside PROVE TimesInv'
  BY DEF TimesInv, TimesAside, Deciding

(* Only the decision, the record, the clock and a reset are other steps.   *)
LEMMA OthersLeaveTimes ==
    ASSUME TypeInv, [Next]_vars, ~Escalate, ~Refused, ~Record, ~FactoryReset, ~Tick, ~StepBack,
           ~PowerCut, ~ \E t \in Tasks : Restart(t)
    PROVE  TimesAside
<1>0. nvs \in NvsType /\ hist \in HistType /\ ram \in RamType /\ Tasks = {"boot", "reconn", "http", "apply", "disp"}
  BY DEF TypeInv, Tasks
<1>1. ASSUME NEW t \in Tasks, SaveRecord(t) \/ RetryRecord(t) PROVE TimesAside
  <2>1. nvs'.budget = nvs.budget
    BY <1>0, <1>1 DEF SaveRecord, RetryRecord, NvsType, Put, PutFails
  <2>2. hist'.times = hist.times
    BY <1>0, <1>1 DEF SaveRecord, RetryRecord, HistType
  <2>3. pc'["reconn"] \in Deciding => pc["reconn"] \in Deciding
    BY <1>0, <1>1, GotoFrame DEF SaveRecord, RetryRecord, Deciding
  <2> QED  BY <1>1, <2>1, <2>2, <2>3 DEF SaveRecord, RetryRecord, TimesAside
<1>2. CASE GotIp \/ Synchronised
  <2>1. /\ ram'.cache = ram.cache /\ ram'.loaded = ram.loaded /\ ram'.bySync = ram.bySync
        /\ ram.synced => ram'.synced
    BY <1>0, <1>2 DEF GotIp, Synchronised, RamType
  <2> QED  BY <1>2, <2>1 DEF GotIp, Synchronised, TimesAside
<1>3. ASSUME NEW s \in {"WIFI_RECONFIGURE", "WIFI_PROVISIONED"}, RestartDeferred(s) PROVE TimesAside
  <2>1. /\ ram'.cache = ram.cache /\ ram'.loaded = ram.loaded /\ ram'.bySync = ram.bySync
        /\ ram.synced => ram'.synced
    BY <1>0, <1>3 DEF RestartDeferred, RamType
  <2> QED  BY <1>3, <2>1 DEF RestartDeferred, TimesAside
<1>4. CASE DeferredFires
  <2>1. /\ ram'.cache = ram.cache /\ ram'.loaded = ram.loaded /\ ram'.bySync = ram.bySync
        /\ ram.synced => ram'.synced
    BY <1>0, <1>4 DEF DeferredFires, RamType
  <2> QED  BY <1>0, <1>4, <2>1, BeginFrame DEF DeferredFires, TimesAside
<1>5. CASE RunIfPending
  <2>1. nvs'.budget = nvs.budget
    BY <1>0, <1>5 DEF RunIfPending, NvsType, Put, PutFails
  <2>2. hist'.times = hist.times
    BY <1>0, <1>5 DEF RunIfPending, HistType
  <2> QED  BY <1>5, <2>1, <2>2 DEF RunIfPending, TimesAside
<1>16. CASE FlagUnread
  BY <1>16 DEF FlagUnread, TimesAside
<1>17. CASE FactoryResetFires
  <2>1. /\ ram'.cache = ram.cache /\ ram'.loaded = ram.loaded /\ ram'.bySync = ram.bySync
        /\ ram.synced => ram'.synced
    BY <1>0, <1>17 DEF FactoryResetFires, RamType
  <2> QED  BY <1>0, <1>17, <2>1, BeginFrame DEF FactoryResetFires, TimesAside
<1>6. CASE BootModeAborts \/ BootModeInstalls \/ RebootHandler
  BY <1>0, <1>6, BeginFrame DEF BootModeAborts, BootModeInstalls, RebootHandler, TimesAside
<1>7. CASE DiagInit
  <2>1. nvs'.budget = nvs.budget
    BY <1>0, <1>7 DEF DiagInit, NvsType
  <2>2. hist'.times = hist.times
    BY <1>0, <1>7 DEF DiagInit, HistType
  <2>3. /\ ram'.cache = ram.cache /\ ram'.loaded = ram.loaded /\ ram'.bySync = ram.bySync
        /\ ram.synced => ram'.synced
    <3>1. AskValidated(ram) \in RamType
      BY AskType
    <3> QED  BY <1>7, <3>1, AskFrame DEF DiagInit, RamType
  <2> QED  BY <1>7, <2>1, <2>2, <2>3 DEF DiagInit, TimesAside
<1>8. CASE ApplyHandler
  <2>1. nvs'.budget = nvs.budget
    BY <1>0, <1>8 DEF ApplyHandler, NvsType, Put, PutFails
  <2>2. hist'.times = hist.times
    BY <1>0, <1>8 DEF ApplyHandler, HistType
  <2> QED  BY <1>0, <1>8, <2>1, <2>2, BeginFrame DEF ApplyHandler, TimesAside
<1>9. CASE MarkValid
  <2>1. /\ ram'.cache = ram.cache /\ ram'.loaded = ram.loaded /\ ram'.bySync = ram.bySync
        /\ ram.synced => ram'.synced
    BY <1>0, <1>9 DEF MarkValid, RamType
  <2> QED  BY <1>0, <1>9, <2>1, GotoFrame DEF MarkValid, TimesAside
<1>10. CASE UNCHANGED vars
  BY <1>10 DEF vars, TimesAside
<1>11. CASE Account
  <2>1. /\ AskValidated(ram) \in RamType
        /\ AskValidated(ram).cache = ram.cache /\ AskValidated(ram).loaded = ram.loaded
        /\ AskValidated(ram).bySync = ram.bySync /\ AskValidated(ram).synced = ram.synced
    BY AskType, AskFrame
  <2>2. /\ ram'.cache = ram.cache /\ ram'.loaded = ram.loaded /\ ram'.bySync = ram.bySync
        /\ ram.synced => ram'.synced
    BY <1>11, <2>1 DEF Account, RamType
  <2> QED  BY <1>11, <2>2 DEF Account, TimesAside, At, Deciding
<1>12. CASE Increment
  <2>1. nvs'.budget = nvs.budget
    BY <1>0, <1>12 DEF Increment, NvsType, Put, PutFails
  <2>2. hist'.times = hist.times
    BY <1>0, <1>12 DEF Increment, HistType
  <2> QED  BY <1>12, <2>1, <2>2 DEF Increment, TimesAside, At, Deciding
<1>13. CASE PersistGotIp
  <2>1. /\ ram'.cache = ram.cache /\ ram'.loaded = ram.loaded /\ ram'.bySync = ram.bySync
        /\ ram.synced => ram'.synced
    BY <1>0, <1>13 DEF PersistGotIp, RamType
  <2> QED  BY <1>13, <2>1, ClearFrame DEF PersistGotIp, TimesAside
<1>14. CASE ValidatorInit
  <2>1. /\ ram'.cache = ram.cache /\ ram'.loaded = ram.loaded /\ ram'.bySync = ram.bySync
        /\ ram.synced => ram'.synced
    BY <1>0, <1>14 DEF ValidatorInit, RamType
  <2>2. BootCountReset \/ UNCHANGED <<nvs, hist>>
    BY <1>14 DEF ValidatorInit
  <2> QED  BY <1>14, <2>1, <2>2, ClearFrame DEF ValidatorInit, TimesAside
<1>15. CASE MarkedValid
  <2>1. /\ ram'.cache = ram.cache /\ ram'.loaded = ram.loaded /\ ram'.bySync = ram.bySync
        /\ ram.synced => ram'.synced
    BY <1>15, AskFrame DEF MarkedValid
  <2> QED  BY <1>0, <1>15, <2>1, GotoFrame, ClearFrame DEF MarkedValid, TimesAside
<1> QED
  BY <1>1, <1>2, <1>3, <1>4, <1>5, <1>6, <1>7, <1>8, <1>9, <1>10, <1>11, <1>12, <1>13, <1>14, <1>15,
     <1>16, <1>17
     DEF Next, Safeguard, StartUp, Http, Dispatcher, Environment, Restarting

(* Counting a reboot that keeps both limits keeps them everywhere.         *)
LEMMA OrderAppend ==
    ASSUME NEW times \in Seq(Times), NEW t \in Times, InOrder(times), Sorted(times),
           Spaced(times, t)
    PROVE  InOrder(Append(times, t)) /\ Sorted(Append(times, t))
<1> DEFINE s == Append(times, t)
<1>1. /\ s \in Seq(Times) /\ Len(s) = Len(times) + 1 /\ Len(times) \in Nat /\ s[Len(s)] = t
      /\ DOMAIN s = 1 .. Len(times) + 1 /\ DOMAIN times = 1 .. Len(times)
      /\ \A i \in 1 .. Len(times) : s[i] = times[i]
  OBVIOUS
<1>2. /\ MinInterval \in Nat /\ MinInterval > 0 /\ Day \in Nat /\ DailyCap \in Nat /\ DailyCap > 0
      /\ t \in Nat /\ \A i \in 1 .. Len(times) : times[i] \in Nat
  BY ThrottleAssumption, BoundAssumption DEF Times
<1> HIDE DEF s
<1>3. times # << >> => t - times[Len(times)] >= MinInterval
  BY DEF Spaced
<1>4. Len(times) >= DailyCap => t - times[Len(times) + 1 - DailyCap] >= Day
  BY DEF Spaced
<1>5. ASSUME NEW i \in 1 .. Len(times) + 1
      PROVE  /\ i > 1 => s[i] - s[i - 1] >= MinInterval
             /\ i > DailyCap => s[i] - s[i - DailyCap] >= Day
  <2>1. CASE i \in 1 .. Len(times)
    <3>1. /\ i > 1 => i - 1 \in 1 .. Len(times)
          /\ i > DailyCap => i - DailyCap \in 1 .. Len(times)
      BY <1>1, <1>2, <2>1
    <3>2. s[i] = times[i]
      BY <1>1, <2>1
    <3>3. i > 1 => s[i - 1] = times[i - 1]
      BY <1>1, <3>1
    <3>4. i > DailyCap => s[i - DailyCap] = times[i - DailyCap]
      BY <1>1, <3>1
    <3> QED  BY <1>1, <2>1, <3>2, <3>3, <3>4 DEF InOrder
  <2>2. CASE i = Len(times) + 1
    <3>1. s[i] = t
      BY <1>1, <2>2
    <3>2. ASSUME i > 1 PROVE s[i] - s[i - 1] >= MinInterval
      <4>1. i - 1 = Len(times) /\ Len(times) \in 1 .. Len(times) /\ times # << >>
        BY <1>1, <2>2, <3>2
      <4> QED  BY <1>1, <1>3, <3>1, <4>1
    <3>3. ASSUME i > DailyCap PROVE s[i] - s[i - DailyCap] >= Day
      <4>1. i - DailyCap = Len(times) + 1 - DailyCap /\ i - DailyCap \in 1 .. Len(times)
            /\ Len(times) >= DailyCap
        BY <1>1, <1>2, <2>2, <3>3
      <4> QED  BY <1>1, <1>4, <3>1, <4>1
    <3> QED  BY <3>2, <3>3
  <2> QED  BY <1>1, <2>1, <2>2
<1>6. ASSUME NEW i \in 1 .. Len(times) + 1, NEW j \in 1 .. Len(times) + 1, i <= j
      PROVE  s[i] <= s[j]
  <2>1. CASE j \in 1 .. Len(times)
    <3>1. i \in 1 .. Len(times)
      BY <1>1, <1>6, <2>1
    <3> QED  BY <1>1, <1>6, <2>1, <3>1 DEF Sorted
  <2>2. CASE j = Len(times) + 1 /\ i = j
    BY <1>1, <1>2, <2>2
  <2>3. CASE j = Len(times) + 1 /\ i # j
    <3>1. i \in 1 .. Len(times) /\ Len(times) \in 1 .. Len(times) /\ i <= Len(times) /\ times # << >>
      BY <1>1, <1>6, <2>3
    <3>2. times[i] <= times[Len(times)] /\ times[i] \in Nat /\ times[Len(times)] \in Nat
      BY <1>1, <1>2, <3>1 DEF Sorted
    <3>3. times[Len(times)] <= t
      BY <1>2, <1>3, <3>1, <3>2
    <3> QED  BY <1>1, <1>2, <2>3, <3>1, <3>2, <3>3
  <2> QED  BY <1>1, <2>1, <2>2, <2>3
<1> QED  BY <1>1, <1>5, <1>6 DEF InOrder, Sorted, s

(* A history that starts afresh keeps every limit.                         *)
LEMMA EmptyOrder == InOrder(<< >>) /\ Sorted(<< >>)
  BY DEF InOrder, Sorted

(* A decision waits for its record while time passes, the clock may be     *)
(* set or step back, power may go, a read or a write may fail and NVS may  *)
(* be erased: the ring still covers what the history counts.               *)
LEMMA TimesNext == TypeInv /\ TimesInv /\ [Next]_vars => TimesInv'
<1> SUFFICES ASSUME TypeInv, TimesInv, [Next]_vars PROVE TimesInv'
  OBVIOUS
<1>0. /\ nvs \in NvsType /\ hist \in HistType /\ ram \in RamType /\ "reconn" \in Tasks
      /\ now \in Times /\ now > 0 /\ now \in Nat
      /\ nvs.budget \in Budgets /\ ram.cache \in Budgets /\ hist.times \in Seq(Times)
  BY BoundAssumption, RamFields, HistFields DEF TypeInv, Tasks, Times
<1>1. /\ RingType(nvs.budget) /\ RingType(ram.cache)
      /\ InOrder(hist.times) /\ Sorted(hist.times) /\ (ram.bySync => ram.loaded /\ ram.synced)
      /\ hist.times # << >> => /\ RingCovers(nvs.budget, hist.times)
                               /\ pc["reconn"] \in Deciding /\ ram.bySync /\ ram.cache = nvs.budget
                                     => Spaced(hist.times, now) /\ now >= nvs.budget.last
  BY DEF TimesInv, Deciding
<1>8. \A st \in cache_reads : st \in Budgets /\ RingType(st)
  <2>1. RingType(NoBudget)
    BY DEF RingType, NoBudget
  <2> QED  BY <1>1, <2>1, CacheType DEF cache_reads
<1>2. CASE Escalate
  <2>1. nvs' = nvs /\ now' = now /\ hist'.times = hist.times
    BY <1>0, <1>2 DEF Escalate, AllowedByCount, AllowedByBudget, HistType
  <2>2. CASE AllowedByCount
    <3>1. ram' = ram /\ ~ram.synced /\ pc["reconn"] = "idle"
      BY <1>2, <2>2 DEF Escalate, AllowedByCount, At
    <3> QED  BY <1>1, <2>1, <3>1 DEF TimesInv
  <2>3. CASE AllowedByBudget
    <3>1. PICK st \in cache_reads :
             /\ should_allow(now, st)
             /\ ram' = [ram EXCEPT !.bySync = TRUE, !.loaded = TRUE, !.cache = st]
      BY <2>3 DEF AllowedByBudget
    <3>2. /\ ram'.loaded /\ ram'.cache = st /\ ram'.synced /\ st \in Budgets /\ RingType(st)
      <4>1. ram.synced
        BY <2>3 DEF AllowedByBudget
      <4> QED  BY <1>0, <1>8, <3>1, <4>1 DEF RamType
    <3>3. ASSUME hist.times # << >>, ram'.cache = nvs.budget
          PROVE  Spaced(hist.times, now) /\ now >= nvs.budget.last
      <4>1. should_allow(now, nvs.budget)
        BY <3>1, <3>2, <3>3
      <4> QED  BY <1>0, <1>1, <3>3, <4>1, AllowedIsSpaced
    <3> QED  BY <1>1, <2>1, <3>2, <3>3 DEF TimesInv
  <2> QED  BY <1>2, <2>2, <2>3 DEF Escalate
<1>9. CASE Refused
  <2>1. nvs' = nvs /\ hist' = hist /\ pc' = pc /\ pc["reconn"] = "idle"
    BY <1>9 DEF Refused, At
  <2>2. ram'.loaded /\ ram'.synced /\ ram'.cache = nvs.budget
    BY <1>0, <1>9 DEF Refused, RamType
  <2> QED  BY <1>1, <2>1, <2>2 DEF TimesInv
<1>10. CASE FactoryReset
  <2>1. nvs'.budget = NoBudget
    BY <1>10 DEF FactoryReset, ErasedNvs
  <2>2. hist'.times = << >>
    <3>1. StreakEnds \in HistType
      BY StreakEndsType
    <3> QED  BY <1>10, <3>1 DEF FactoryReset, HistType
  <2>3. /\ ram'.cache = ram.cache /\ ram'.loaded = ram.loaded /\ ram'.bySync = ram.bySync
        /\ ram'.synced = ram.synced
    BY <1>0, <1>10 DEF FactoryReset, RamType
  <2>4. RingType(NoBudget)
    BY DEF RingType, NoBudget
  <2> QED  BY <1>1, <2>1, <2>2, <2>3, <2>4, EmptyOrder DEF TimesInv
<1>3. CASE Record
  <2>1. pc["reconn"] = "record" /\ pc'["reconn"] = "save" /\ now' = now
    BY <1>0, <1>3, BeginFrame DEF Record, At
  <2>2. CASE ~ram.synced
    <3>1. nvs' = nvs /\ hist' = hist /\ ram' = ram
      BY <1>3, <2>2 DEF Record
    <3> QED  BY <1>1, <2>1, <3>1 DEF TimesInv
  <2>3. CASE ram.synced
    <3>1. PICK st \in cache_reads, saved \in BOOLEAN :
             /\ ram' = [ram EXCEPT !.loaded = TRUE, !.cache = state_record(st, now), !.inBudget = TRUE]
             /\ IF saved THEN /\ nvs' = [nvs EXCEPT !.budget = state_record(st, now)]
                              /\ hist' = [hist EXCEPT !.times = Counted(@, st)]
                         ELSE UNCHANGED <<nvs, hist>>
      BY <1>3, <2>3 DEF Record
    <3> DEFINE new == state_record(st, now)
    <3>2. st \in Budgets /\ RingType(st) /\ RingType(new)
      BY <1>0, <1>8, RecordRing
    <3>3. ram'.loaded /\ ram'.cache = new /\ ram'.synced
      BY <1>0, <2>3, <3>1 DEF RamType
    <3> HIDE DEF new
    <3>4. CASE ~saved
      <4>1. nvs' = nvs /\ hist' = hist
        BY <3>1, <3>4
      <4> QED  BY <1>1, <2>1, <3>2, <3>3, <4>1 DEF TimesInv
    <3>5. CASE saved
      <4>1. nvs'.budget = new /\ hist'.times = Counted(hist.times, st)
        BY <1>0, <3>1, <3>5 DEF NvsType, HistType, new
      <4> DEFINE kept == IF st = nvs.budget /\ now >= st.last THEN hist.times ELSE << >>
      <4>2. /\ kept \in Seq(Times) /\ InOrder(kept) /\ Sorted(kept)
            /\ kept = << >> \/ (RingCovers(st, kept) /\ now >= st.last)
        BY <1>0, <1>1, EmptyOrder
      <4>3. ram.bySync => Spaced(kept, now)
        <5>1. CASE kept = << >>
          <6>1. Len(kept) = 0
            BY <5>1
          <6> HIDE DEF kept
          <6> QED  BY <5>1, <6>1, ThrottleAssumption DEF Spaced
        <5>2. CASE kept # << >> /\ ram.bySync
          <6>1. kept = hist.times /\ st = nvs.budget
            BY <5>2
          <6>2. ram.cache = nvs.budget
            BY <1>1, <5>2, <6>1 DEF cache_reads
          <6> QED  BY <1>1, <2>1, <5>2, <6>1, <6>2 DEF Deciding
        <5> QED  BY <5>1, <5>2
      <4>4. hist'.times = IF ram.bySync THEN Append(kept, now) ELSE kept
        BY <4>1 DEF Counted
      <4> HIDE DEF kept
      <4>5. CASE ram.bySync
        <5>1. RingCovers(new, Append(kept, now))
          BY <1>0, <3>2, <4>2, CoversAppend DEF new
        <5>2. InOrder(Append(kept, now)) /\ Sorted(Append(kept, now))
          BY <1>0, <4>2, <4>3, <4>5, OrderAppend
        <5> QED  BY <2>1, <3>2, <3>3, <4>1, <4>4, <4>5, <5>1, <5>2 DEF TimesInv
      <4>6. CASE ~ram.bySync
        <5>1. kept # << >> => RingCovers(new, kept)
          BY <1>0, <3>2, <4>2, CoversKeep DEF new
        <5> QED  BY <2>1, <3>2, <3>3, <4>1, <4>2, <4>4, <4>6, <5>1 DEF TimesInv
      <4> QED  BY <4>5, <4>6
    <3> QED  BY <3>4, <3>5
  <2> QED  BY <2>2, <2>3
<1>4. CASE Tick
  <2>1. nvs' = nvs /\ hist' = hist /\ ram' = ram /\ pc' = pc /\ now' = now + 1
    BY <1>4 DEF Tick
  <2>2. ASSUME hist.times # << >>, Spaced(hist.times, now), now >= nvs.budget.last
        PROVE  Spaced(hist.times, now + 1) /\ now + 1 >= nvs.budget.last
    <3>1. /\ Len(hist.times) \in Nat /\ Len(hist.times) > 0
          /\ \A i \in 1 .. Len(hist.times) : hist.times[i] \in Nat
      BY <1>0, <2>2, BoundAssumption DEF Times
    <3>2. /\ MinInterval \in Nat /\ Day \in Nat /\ DailyCap \in Nat /\ DailyCap > 0
          /\ nvs.budget.last \in Nat
      <4>1. nvs.budget.last \in Nat
        BY <1>0, BoundAssumption DEF Budgets, Times
      <4> QED  BY <4>1, ThrottleAssumption
    <3>3. (now + 1) - hist.times[Len(hist.times)] >= MinInterval
      <4>1. hist.times[Len(hist.times)] \in Nat
        BY <3>1
      <4> QED  BY <1>0, <2>2, <3>2, <4>1 DEF Spaced
    <3>4. ASSUME Len(hist.times) >= DailyCap
          PROVE  (now + 1) - hist.times[Len(hist.times) + 1 - DailyCap] >= Day
      <4>1. hist.times[Len(hist.times) + 1 - DailyCap] \in Nat
        <5>1. Len(hist.times) + 1 - DailyCap \in 1 .. Len(hist.times)
          BY <3>1, <3>2, <3>4
        <5> QED  BY <3>1, <5>1
      <4>2. now - hist.times[Len(hist.times) + 1 - DailyCap] >= Day
        BY <2>2, <3>4 DEF Spaced
      <4>3. now \in Nat
        BY <1>0
      <4> QED  BY <3>2, <4>1, <4>2, <4>3
    <3>5. now + 1 >= nvs.budget.last
      BY <1>0, <2>2, <3>2
    <3>6. Spaced(hist.times, now + 1)
      BY <3>3, <3>4 DEF Spaced
    <3> QED  BY <3>5, <3>6
  <2> QED  BY <1>1, <2>1, <2>2 DEF TimesInv, Deciding
<1>5. CASE StepBack
  <2>1. nvs' = nvs /\ ram' = ram /\ pc' = pc
    BY <1>5 DEF StepBack
  <2>2. IF pc["reconn"] = "idle" THEN hist' = hist ELSE hist'.times = << >>
    BY <1>0, <1>5 DEF StepBack, At, HistType
  <2>3. CASE pc["reconn"] = "idle"
    BY <1>1, <2>1, <2>2, <2>3 DEF TimesInv
  <2>4. CASE hist'.times = << >>
    BY <1>1, <2>1, <2>4, EmptyOrder DEF TimesInv
  <2> QED  BY <2>2, <2>3, <2>4
<1>6. ASSUME NEW t \in Tasks, Restart(t) \/ PowerCut PROVE TimesInv'
  <2>1. nvs' = nvs /\ pc'["reconn"] = "idle" /\ hist'.times = hist.times
    BY <1>0, <1>6, ResetFrame
  <2>2. ~ram'.bySync /\ ram'.cache = NoBudget
    <3>1. ram' = [FreshRam EXCEPT !.sw = ram'.sw]
      BY <1>6, ResetFrame
    <3>2. \A x : [FreshRam EXCEPT !.sw = x].bySync = FALSE /\ [FreshRam EXCEPT !.sw = x].cache = NoBudget
      BY DEF FreshRam
    <3> QED  BY <3>1, <3>2, Zenon
  <2>3. RingType(NoBudget)
    BY DEF RingType, NoBudget
  <2> QED  BY <1>1, <2>1, <2>2, <2>3 DEF TimesInv
<1>7. "boot" \in Tasks
  BY DEF Tasks
<1> QED
  BY <1>2, <1>3, <1>4, <1>5, <1>6, <1>7, <1>9, <1>10, OthersLeaveTimes, TimesAsideKeeps

-----------------------------------------------------------------------------
(* Before the first boot there is no history.                              *)
LEMMA InitIInv == Init => IInv
<1> SUFFICES ASSUME Init PROVE IInv
  OBVIOUS
<1>1. TypeInv
  BY TypesInit
<1>2. StreakInv
  BY ThrottleAssumption DEF Init, ErasedNvs, StreakInv, Tasks
<1>3. CreditInv
  BY DEF Init, ErasedNvs, CreditInv
<1>4. ReportInv
  BY DEF Init, ReportInv, FreshRam
<1>5. TimesInv
  <2>1. RingType(NoBudget)
    BY DEF RingType, NoBudget
  <2>2. nvs.budget = NoBudget /\ ram.cache = NoBudget /\ hist.times = << >>
    BY DEF Init, ErasedNvs, FreshRam
  <2>3. ~ram.bySync
    BY DEF Init, FreshRam
  <2> QED  BY <2>1, <2>2, <2>3, EmptyOrder DEF TimesInv
<1> QED  BY <1>1, <1>2, <1>3, <1>4, <1>5 DEF IInv

(* The inductive invariant holds in every reachable state.                 *)
LEMMA IInvHolds == Spec => []IInv
<1>1. IInv /\ [Next]_vars => IInv'
  BY TypesNext, StreakNext, CreditNext, ReportNext, TimesNext DEF IInv
<1> QED  BY <1>1, InitIInv, PTL DEF Spec

(* Safeguard reboots are throttled for every threshold, interval, daily    *)
(* cap and ring the options allow, across boots, reads and writes that     *)
(* fail, factory resets, power cuts and corrections of the clock:          *)
(* StreakInv bounds those the counter has to stop by the threshold and     *)
(* the counts that were lost, TimesInv orders those a budget knows of.     *)
THEOREM RebootsThrottledHolds == Spec => []RebootsThrottled
<1>1. IInv => RebootsThrottled
  <2> SUFFICES ASSUME IInv PROVE RebootsThrottled
    OBVIOUS
  <2>1. hist.streak <= Threshold + hist.lost
    <3>1. hist.streak - hist.lost <= Threshold
      BY DEF IInv, StreakInv
    <3> QED  BY <3>1, HistFields, ThrottleAssumption DEF IInv
  <2> QED  BY <2>1 DEF IInv, TimesInv, InOrder, RebootsThrottled
<1> QED  BY <1>1, IInvHolds, PTL

(* A request to apply an update leads to at most one boot in boot mode.    *)
THEOREM NoBootModeLoopHolds == Spec => []NoBootModeLoop
<1>1. IInv => NoBootModeLoop
  BY DEF IInv, CreditInv, NoBootModeLoop
<1> QED  BY <1>1, IInvHolds, PTL

(* load_reboot_record never reports a source that did not ask for the      *)
(* restart, unless a restart failed twice to save its own.                 *)
THEOREM ReportIsTrueHolds == Spec => ReportIsTrue
<1>1. IInv /\ [Next]_vars =>
         [boot = "load" /\ boot' = "up" =>
                   \/ ram'.report \in {Unknown} \cup hist.prev \cup hist.asked
                   \/ hist.unsaved]_vars
  BY ReportStep DEF IInv
<1> QED  BY <1>1, IInvHolds, PTL DEF Spec, ReportIsTrue

(* The counter stays a uint8_t and the budget a ring of CapMax entries.    *)
THEOREM TypeCorrect == Spec => []TypeOK
<1>1. IInv => TypeOK
  <2> SUFFICES ASSUME IInv PROVE TypeOK
    OBVIOUS
  <2>1. /\ nvs.cnt \in 0..255 /\ nvs.budget \in Budgets /\ nvs.flag \in BOOLEAN
        /\ nvs.last \in Srcs \cup {None}
    BY DEF IInv, TypeInv, NvsType
  <2>2. ram.cache \in Budgets /\ ram.report \in Srcs \cup {None, Unknown}
    BY DEF IInv, TypeInv, RamType
  <2> QED  BY <2>1, <2>2 DEF IInv, TypeInv, TypeOK, PCs
<1> QED  BY <1>1, IInvHolds, PTL

=============================================================================
