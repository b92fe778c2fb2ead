------------------------------ MODULE Reboots -------------------------------
(***************************************************************************)
(* What a restart leaves behind and what the next boot makes of it:        *)
(*   - the safeguard reboot of the reconnect task and its two throttles,   *)
(*     the boot-fail counter and the reboot budget (bb_system);            *)
(*   - the reboot record, written before a restart and consumed once by    *)
(*     the next boot (bb_system, bb_diag_http);                            *)
(*   - the one-shot flag of a boot-mode update (bb_ota_boot);              *)
(*   - the verification of a new image (bb_ota_validator).                 *)
(*                                                                         *)
(* Every call to NVS, a read too, may fail, a write is a step, and power   *)
(* may be lost before and after it.  The tasks are                         *)
(*   boot    start-up: bb_ota_boot_run_if_pending and its worker, then     *)
(*           bb_ota_validator_init and bb_diag_routes_init                 *)
(*   reconn  wifi_reconn's task (module WifiReconn decides to escalate)    *)
(*   http    POST /api/reboot, /api/update/apply, /api/update/mark-valid   *)
(*           and the factory reset, which erases all of NVS                *)
(*   apply   ota_boot_reboot_task, which restarts after the response       *)
(*   disp    bb_timer's dispatcher: the deferred restart, that of the      *)
(*           factory reset, and the deferred clearing of the counter       *)
(* The budget is kept for each cause apart and only one cause has a        *)
(* caller, so the model keeps one.                                         *)
(***************************************************************************)
EXTENDS Integers, Sequences, FiniteSets

CONSTANTS
    Threshold,      \* BB_SYSTEM_BOOT_FAIL_THRESHOLD
    MinInterval,    \* BB_SYSTEM_REBOOT_BUDGET_MIN_INTERVAL_S
    DailyCap,       \* BB_SYSTEM_REBOOT_BUDGET_DAILY_CAP
    CapMax,         \* BB_SYSTEM_REBOOT_BUDGET_CAP_MAX, the ring's length
    Day,            \* 86400
    MaxTime,        \* bound: the wall clock
    MaxOutages,     \* bound: how often the reconnect task escalates
    MaxRequests,    \* bound: requests over HTTP and deferred restarts
    MaxFaults,      \* bound: failed calls, power cuts, clock steps back
    MaxEvents       \* bound: all of these together

ASSUME ThrottleAssumption ==
    /\ Threshold \in Nat \ {0} /\ MinInterval \in Nat \ {0} /\ Day \in Nat \ {0}
    /\ DailyCap \in Nat \ {0} /\ CapMax \in Nat /\ DailyCap <= CapMax
    /\ Threshold <= 255     \* the option's range, and that of the uint8_t it is compared with
ASSUME BoundAssumption ==
    /\ MaxTime \in Nat \ {0} /\ MaxOutages \in Nat
    /\ MaxRequests \in Nat /\ MaxFaults \in Nat /\ MaxEvents \in Nat

VARIABLES
    nvs,        \* cnt, budget, last (namespace "bb_reboot"), flag (ota_boot_mode)
    img,        \* the running image's state in the OTA data
    selected,   \* another image is to be booted next
    now,        \* time(NULL) once the clock is set
    ram,        \* everything a reset clears
    pc, src,    \* per task: where it is, the reset source it will record
    boot,       \* the boot task
    outages, requests, faults,
    hist        \* history

vars == <<nvs, img, selected, now, ram, pc, src, boot, outages, requests, faults, hist>>

-----------------------------------------------------------------------------
None == "none"
Unknown == "BB_RESET_SRC_UNKNOWN"
Srcs == {"WIFI_SAFEGUARD", "API_REBOOT", "WIFI_RECONFIGURE", "WIFI_PROVISIONED",
         "OTA_BOOT_APPLY", "OTA_BOOT_ABORT", "OTA_BOOT_DONE", "FACTORY_RESET"}
Tasks == {"boot", "reconn", "http", "apply", "disp"}

(* bb_system_reboot_budget_state_t and its zero value.                     *)
NoBudget == [last |-> 0, head |-> 0, count |-> 0,
             ring |-> [i \in 0..(CapMax - 1) |-> 0]]

(* The statics of a boot that has just begun.                              *)
FreshRam == [sw |-> FALSE,                          \* reset by software
             synced |-> FALSE,                      \* bb_ntp's s_synced
             loaded |-> FALSE, cache |-> NoBudget,  \* s_loaded, s_cache
             pending |-> FALSE, marked |-> FALSE,   \* the validator's flags
             cached |-> FALSE, validated |-> FALSE, \* s_validated_cached, s_is_validated
             cleared |-> FALSE, persist |-> FALSE,  \* s_boot_count_cleared, clear_boot_count
             armed |-> FALSE, pendingSrc |-> None,  \* the deferred restart
             erased |-> FALSE, resetArmed |-> FALSE,    \* the factory reset
             report |-> None,                       \* s_reboot_src
             cnt |-> 0,                             \* the counter as increment read it
             bySync |-> FALSE,                      \* the throttle that let it pass
             inBudget |-> FALSE]                    \* the budget recorded it

ErasedNvs == [cnt |-> 0, budget |-> NoBudget, last |-> None, flag |-> FALSE]

(* The first image was flashed over the wire and has no state in the OTA   *)
(* data, or was marked valid once.                                         *)
Init ==
    /\ nvs = ErasedNvs
    /\ img \in {"valid", "undefined"} /\ selected = FALSE /\ now = 1 /\ ram = FreshRam
    /\ pc = [t \in Tasks |-> "idle"] /\ src = [t \in Tasks |-> None]
    /\ boot = "start" /\ outages = 0 /\ requests = 0 /\ faults = 0
    /\ hist = [asked |-> {}, prev |-> {}, unsaved |-> FALSE,
               streak |-> 0, lost |-> 0, times |-> <<>>, credit |-> 0]

-----------------------------------------------------------------------------
Room(n) == outages + requests + faults + n <= MaxEvents

(* Calls that fail, n of them.                                             *)
Faults(n) == faults + n <= MaxFaults /\ Room(n) /\ faults' = faults + n
One(c) == IF c THEN 1 ELSE 0

(* A write to NVS either lands or reports an error.  A factory reset takes *)
(* NVS down until the next boot, and every write fails.                    *)
Put(key, v) == ~ram.erased /\ nvs' = [nvs EXCEPT ![key] = v] /\ UNCHANGED faults
PutFails == (IF ram.erased THEN UNCHANGED faults ELSE Faults(1)) /\ UNCHANGED nvs
PutOrFail(key, v) == Put(key, v) \/ PutFails

Goto(t, l) == pc' = [pc EXCEPT ![t] = l]
At(t, l) == pc[t] = l

(* bb_system_restart_reason: task t begins to restart the board.           *)
BeginRestart(t, s) ==
    /\ Goto(t, "save")
    /\ src' = [src EXCEPT ![t] = s]

Request == requests < MaxRequests /\ Room(1) /\ requests' = requests + 1

-----------------------------------------------------------------------------
(* The two throttles of a safeguard reboot.                                *)
elapsed_epoch_s(t, since) == IF t >= since THEN t - since ELSE 0

InWindow(st, t) ==
    {i \in 0..(st.count - 1) : t >= st.ring[i] /\ t - st.ring[i] < Day}

should_allow(t, st) ==
    /\ st.last # 0 => elapsed_epoch_s(t, st.last) >= MinInterval
    /\ Cardinality(InWindow(st, t)) < DailyCap

state_record(st, t) ==
    [ring |-> [st.ring EXCEPT ![st.head] = t],
     head |-> (st.head + 1) % CapMax,
     count |-> IF st.count < CapMax THEN st.count + 1 ELSE st.count,
     last |-> t]

(* The budget is read once a boot.  One that cannot be read, or makes no   *)
(* sense, is an empty one.                                                 *)
cache_get == IF ram.loaded THEN ram.cache ELSE nvs.budget
cache_reads == IF ram.loaded THEN {ram.cache} ELSE {nvs.budget, NoBudget}

(* A boot-fail counter that cannot be read is 0.                           *)
boot_count_reads == {nvs.cnt, 0}

should_increment_UnlessValidated(validated, synced) == ~validated

should_increment(validated, synced) == ~(synced /\ validated)

(* bb_ota_is_validated answers from its cache once it has been asked.  An  *)
(* image without a state that can be read is not validated.                *)
is_validated == IF ram.cached THEN ram.validated ELSE img = "valid"
AskValidated(r) == [r EXCEPT !.cached = TRUE, !.validated = is_validated]

(* bb_system_safeguard_reboot_allowed.                                     *)
AllowedByCount ==
    /\ ~ram.synced
    /\ \E count \in boot_count_reads : count < Threshold /\ Faults(One(count # nvs.cnt))
    /\ hist' = [hist EXCEPT !.lost = @ + One(nvs.cnt >= Threshold)]
    /\ UNCHANGED ram

AllowedByBudget ==
    /\ ram.synced
    /\ \E st \in cache_reads :
        /\ should_allow(now, st) /\ Faults(One(st # cache_get))
        /\ ram' = [ram EXCEPT !.bySync = TRUE, !.loaded = TRUE, !.cache = st]
    /\ UNCHANGED hist

(* The reconnect machine finds the outage persistent and asks.             *)
Escalate ==
    /\ At("reconn", "idle") /\ Goto("reconn", "account")
    /\ outages < MaxOutages /\ Room(1) /\ outages' = outages + 1
    /\ AllowedByCount \/ AllowedByBudget
    /\ UNCHANGED <<nvs, img, selected, now, src, boot, requests>>

(* A refusal sends it back to its backoff, with the budget in the cache.   *)
Refused ==
    /\ At("reconn", "idle") /\ ram.synced /\ ~ram.loaded
    /\ ~should_allow(now, nvs.budget)
    /\ ram' = [ram EXCEPT !.loaded = TRUE, !.cache = nvs.budget]
    /\ UNCHANGED <<nvs, img, selected, now, pc, src, boot, outages, requests, faults, hist>>

(* bb_system_safeguard_reboot asks whether the image is validated and      *)
(* whether the clock is set, then reads the counter it may increment.      *)
Account ==
    /\ At("reconn", "account")
    /\ IF should_increment(is_validated, ram.synced)
       THEN \E count \in boot_count_reads :
                /\ ram' = [AskValidated(ram) EXCEPT !.cnt = count]
                /\ Goto("reconn", "increment") /\ Faults(One(count # nvs.cnt))
       ELSE ram' = AskValidated(ram) /\ Goto("reconn", "record") /\ UNCHANGED faults
    /\ UNCHANGED <<nvs, img, selected, now, src, boot, outages, requests, hist>>

(* The counter is a uint8_t that saturates.  One that was read as 0 is     *)
(* written over with 1.                                                    *)
Increment ==
    /\ At("reconn", "increment") /\ Goto("reconn", "record")
    /\ \/ /\ Put("cnt", IF ram.cnt < 255 THEN ram.cnt + 1 ELSE ram.cnt)
          /\ hist' = [hist EXCEPT
                        !.lost = IF ram.cnt < nvs.cnt THEN @ + (nvs.cnt - ram.cnt) ELSE @]
       \/ PutFails /\ hist' = [hist EXCEPT !.lost = @ + 1]
    /\ UNCHANGED <<img, selected, now, ram, src, boot, outages, requests>>

(* History: the reboots the budget allowed and recorded.  A record that    *)
(* follows a failed read writes over those before it, and one the counter  *)
(* allowed takes the place of a later one when the clock had been behind.  *)
Counted(times, st) ==
    LET kept == IF st = nvs.budget /\ now >= st.last THEN times ELSE <<>>
    IN  IF ram.bySync THEN Append(kept, now) ELSE kept

(* bb_system_reboot_budget_record asks for the clock once more; the cache  *)
(* is updated and written through, which nothing checks.                   *)
Record ==
    /\ At("reconn", "record") /\ BeginRestart("reconn", "WIFI_SAFEGUARD")
    /\ IF ram.synced
       THEN \E st \in cache_reads, saved \in BOOLEAN :
                LET new == state_record(st, now) IN
                /\ IF ram.erased THEN ~saved /\ UNCHANGED faults
                                 ELSE Faults(One(st # cache_get) + One(~saved))
                /\ ram' = [ram EXCEPT !.loaded = TRUE, !.cache = new, !.inBudget = TRUE]
                /\ IF saved THEN /\ nvs' = [nvs EXCEPT !.budget = new]
                                 /\ hist' = [hist EXCEPT !.times = Counted(@, st)]
                            ELSE UNCHANGED <<nvs, hist>>
       ELSE UNCHANGED <<ram, nvs, faults, hist>>
    /\ UNCHANGED <<img, selected, now, boot, outages, requests>>

-----------------------------------------------------------------------------
(* bb_system_reboot_record_save_retry, then esp_restart.                   *)
SaveRecord(t) ==
    /\ At(t, "save")
    /\ \/ Put("last", src[t]) /\ Goto(t, "reset")
       \/ PutFails /\ Goto(t, "retry")
    /\ hist' = [hist EXCEPT !.asked = @ \cup {src[t]},
                            !.unsaved = @ /\ pc'[t] = "retry"]
    /\ UNCHANGED <<img, selected, now, ram, src, boot, outages, requests>>

RetryRecord(t) ==
    /\ At(t, "retry") /\ Goto(t, "reset")
    /\ \/ Put("last", src[t]) /\ hist' = [hist EXCEPT !.unsaved = FALSE]
       \/ PutFails /\ hist' = [hist EXCEPT !.unsaved = TRUE]
    /\ UNCHANGED <<img, selected, now, ram, src, boot, outages, requests>>

(* A reset clears the memory.  The bootloader takes an image that is       *)
(* booted for the second time without having been marked valid out of use  *)
(* and goes back to the one before.                                        *)
Bootloader ==
    /\ selected' = FALSE
    /\ img' \in IF selected THEN {"pending"}
               ELSE IF img = "pending" THEN {"valid", "undefined"} ELSE {img}

ResetBoard(sw, h) ==
    /\ Bootloader /\ ram' = [FreshRam EXCEPT !.sw = sw] /\ boot' = "start"
    /\ pc' = [t \in Tasks |-> "idle"] /\ src' = [t \in Tasks |-> None]
    /\ hist' = [h EXCEPT !.prev = h.asked, !.asked = {}]
    /\ UNCHANGED <<nvs, now, outages, requests>>

(* A safeguard reboot the budget knows nothing of continues the streak the *)
(* boot-fail counter must bound.                                           *)
Restart(t) ==
    /\ At(t, "reset")
    /\ LET more == t = "reconn" /\ ~ram.inBudget IN
       ResetBoard(TRUE, IF more THEN [hist EXCEPT !.streak = @ + 1] ELSE hist)
    /\ UNCHANGED faults

PowerCut ==
    /\ Faults(1)
    /\ ResetBoard(FALSE, [hist EXCEPT !.streak = IF @ < 0 THEN 0 ELSE @])

-----------------------------------------------------------------------------
(* An address clears the boot-fail counter, once per boot and later, on    *)
(* the dispatcher: event_handler decides, got_ip_persist_work_fn writes.   *)
GotIp ==
    /\ ~ram.cleared
    /\ ram' = [ram EXCEPT !.cleared = TRUE, !.persist = TRUE]
    /\ UNCHANGED <<nvs, img, selected, now, pc, src, boot, outages, requests, faults, hist>>

(* bb_system_boot_count_reset, by whichever task.  A reboot that has been  *)
(* counted and is still under way belongs to the streak that ends here.    *)
StreakEnds ==
    [hist EXCEPT !.streak = IF pc["reconn"] \in {"record", "save", "retry", "reset"}
                            THEN -1 ELSE 0]

BootCountReset ==
    \/ Put("cnt", 0) /\ hist' = StreakEnds
    \/ PutFails /\ UNCHANGED hist

PersistGotIp ==
    /\ At("disp", "idle") /\ ram.persist
    /\ ram' = [ram EXCEPT !.persist = FALSE]
    /\ BootCountReset
    /\ UNCHANGED <<img, selected, now, pc, src, boot, outages, requests>>

(* bb_system_restart_deferred: the last caller before the timer fires wins.*)
(* When the timer cannot be created the request has no effect.             *)
RestartDeferred(s) ==
    /\ Request
    /\ \/ ram' = [ram EXCEPT !.armed = TRUE, !.pendingSrc = s] /\ UNCHANGED faults
       \/ ram' = [ram EXCEPT !.pendingSrc = s] /\ ~ram.armed /\ Faults(1)
    /\ UNCHANGED <<nvs, img, selected, now, pc, src, boot, outages, hist>>

DeferredFires ==
    /\ At("disp", "idle") /\ ram.armed
    /\ BeginRestart("disp", ram.pendingSrc)
    /\ ram' = [ram EXCEPT !.armed = FALSE]
    /\ UNCHANGED <<nvs, img, selected, now, boot, outages, requests, faults, hist>>

(* factory_reset_reboot_work_fn.                                           *)
FactoryResetFires ==
    /\ At("disp", "idle") /\ ram.resetArmed
    /\ BeginRestart("disp", "FACTORY_RESET")
    /\ ram' = [ram EXCEPT !.resetArmed = FALSE]
    /\ UNCHANGED <<nvs, img, selected, now, boot, outages, requests, faults, hist>>

-----------------------------------------------------------------------------
RunIfPending_KeepsFlag ==
    /\ boot = "start"
    /\ boot' = IF nvs.flag THEN "boot_mode" ELSE "init"
    /\ hist' = IF nvs.flag THEN [hist EXCEPT !.credit = @ - 1] ELSE hist
    /\ UNCHANGED <<nvs, img, selected, now, ram, pc, src, outages, requests, faults>>

(* Start-up.  bb_ota_boot_run_if_pending clears the flag before it does    *)
(* anything else, whether or not the write lands.  A flag that cannot be   *)
(* read is not set.                                                        *)
RunIfPending ==
    /\ boot = "start"
    /\ IF nvs.flag
       THEN /\ boot' = "boot_mode"
            /\ \/ Put("flag", FALSE) /\ hist' = [hist EXCEPT !.credit = @ - 1]
               \/ PutFails /\ UNCHANGED hist      \* minus this run, plus one excused
       ELSE boot' = "init" /\ UNCHANGED <<nvs, faults, hist>>
    /\ UNCHANGED <<img, selected, now, ram, pc, src, outages, requests>>

FlagUnread ==
    /\ boot = "start" /\ nvs.flag /\ boot' = "init" /\ Faults(1)
    /\ UNCHANGED <<nvs, img, selected, now, ram, pc, src, outages, requests, hist>>

(* Boot mode ends in a restart on every path: no address, no worker, no    *)
(* manifest, nothing newer and a failed pull are one case here.            *)
BootModeAborts ==
    /\ boot = "boot_mode" /\ At("boot", "idle")
    /\ BeginRestart("boot", "OTA_BOOT_ABORT")
    /\ UNCHANGED <<nvs, img, selected, now, ram, boot, outages, requests, faults, hist>>

BootModeInstalls ==
    /\ boot = "boot_mode" /\ At("boot", "idle")
    /\ BeginRestart("boot", "OTA_BOOT_DONE")
    /\ selected' = TRUE
    /\ UNCHANGED <<nvs, img, now, ram, boot, outages, requests, faults, hist>>

(* bb_ota_validator_init: an image on trial waits to be marked valid,      *)
(* unless there is nothing to roll back to: the other slot is empty on a   *)
(* board that ran its factory image.  Nothing checks that it is marked.    *)
ValidatorInit ==
    /\ boot = "init" /\ boot' = "load"
    /\ \/ /\ img = "pending"
          /\ img' \in {"valid", "pending"} /\ ram' = [ram EXCEPT !.marked = TRUE]
          /\ BootCountReset
       \/ /\ ram' = [ram EXCEPT !.pending = (img = "pending")]
          /\ UNCHANGED <<img, nvs, faults, hist>>
    /\ UNCHANGED <<selected, now, pc, src, outages, requests>>

DiagInit_AnyReset ==
    /\ boot = "load" /\ boot' = "up"
    /\ ram' = [AskValidated(ram) EXCEPT
                  !.report = IF nvs.last # None THEN nvs.last ELSE Unknown]
    /\ PutOrFail("last", None)
    /\ hist' = [hist EXCEPT !.prev = {}]
    /\ UNCHANGED <<img, selected, now, pc, src, outages, requests>>

(* load_reboot_record reads and erases the record and trusts it only after *)
(* a software reset; diag_boot_publish then asks for the image's state.    *)
(* A restart that began before this point has already replaced the record. *)
DiagInit ==
    /\ boot = "load" /\ boot' = "up"
    /\ \E read, erased \in BOOLEAN :
        /\ ram' = [AskValidated(ram) EXCEPT
                      !.report = IF read /\ ram.sw /\ nvs.last # None THEN nvs.last ELSE Unknown]
        /\ nvs' = IF erased THEN [nvs EXCEPT !.last = None] ELSE nvs
        /\ Faults(One(~read) + One(~erased))
    /\ hist' = [hist EXCEPT !.prev = {}]
    /\ UNCHANGED <<img, selected, now, pc, src, outages, requests>>

-----------------------------------------------------------------------------
(* POST /api/reboot.                                                       *)
RebootHandler ==
    /\ boot = "up" /\ At("http", "idle") /\ Request
    /\ BeginRestart("http", "API_REBOOT")
    /\ UNCHANGED <<nvs, img, selected, now, ram, boot, outages, faults, hist>>

(* POST /api/update/apply on a boot-mode board: arm, answer, restart by a  *)
(* task.  Neither the write nor the creation of the task is checked.       *)
ApplyHandler ==
    /\ boot = "up" /\ At("http", "idle") /\ At("apply", "idle") /\ Request
    /\ \/ Put("flag", TRUE) /\ hist' = [hist EXCEPT !.credit = @ + 1]
       \/ PutFails /\ UNCHANGED hist
    /\ \/ BeginRestart("apply", "OTA_BOOT_APPLY")
       \/ UNCHANGED <<pc, src>>
    /\ UNCHANGED <<img, selected, now, ram, boot, outages>>

(* POST /api/update/mark-valid: bb_ota_mark_valid marks the image, which   *)
(* nothing checks, then clears the boot-fail counter.                      *)
MarkValid ==
    /\ boot = "up" /\ At("http", "idle") /\ ram.pending /\ ~ram.marked
    /\ ram' = [ram EXCEPT !.marked = TRUE]
    /\ img' \in {"valid", "pending"} /\ Goto("http", "clear")
    /\ UNCHANGED <<nvs, selected, now, src, boot, outages, requests, faults, hist>>

(* ... and calls diag_boot_publish.                                        *)
MarkedValid ==
    /\ At("http", "clear") /\ Goto("http", "idle")
    /\ BootCountReset /\ ram' = AskValidated(ram)
    /\ UNCHANGED <<img, selected, now, src, boot, outages, requests>>

(* The factory reset: everything in NVS goes, and a timer restarts the     *)
(* board if it can be created.                                             *)
FactoryReset ==
    /\ boot = "up" /\ At("http", "idle") /\ ~ram.erased /\ Request
    /\ nvs' = ErasedNvs /\ hist' = [StreakEnds EXCEPT !.times = <<>>]
    /\ \/ ram' = [ram EXCEPT !.erased = TRUE, !.resetArmed = TRUE] /\ UNCHANGED faults
       \/ ram' = [ram EXCEPT !.erased = TRUE] /\ Faults(1)
    /\ UNCHANGED <<img, selected, now, pc, src, boot, outages>>

-----------------------------------------------------------------------------
(* SNTP sets the clock, time passes, and a correction may step it back.    *)
Synchronised ==
    /\ ~ram.synced /\ ram' = [ram EXCEPT !.synced = TRUE]
    /\ UNCHANGED <<nvs, img, selected, now, pc, src, boot, outages, requests, faults, hist>>

Tick ==
    /\ now < MaxTime /\ now' = now + 1
    /\ UNCHANGED <<nvs, img, selected, ram, pc, src, boot, outages, requests, faults, hist>>

(* A budget recorded with a clock that went back since the decision has    *)
(* lost its order: the count of reboots starts again.                      *)
StepBack ==
    /\ ram.synced /\ Faults(1)
    /\ now' \in 1..(now - 1)
    /\ hist' = IF At("reconn", "idle") THEN hist ELSE [hist EXCEPT !.times = <<>>]
    /\ UNCHANGED <<nvs, img, selected, ram, pc, src, boot, outages, requests>>

-----------------------------------------------------------------------------
Safeguard == Escalate \/ Refused \/ Account \/ Increment \/ Record
Restarting(t) == SaveRecord(t) \/ RetryRecord(t) \/ Restart(t)
StartUp == RunIfPending \/ FlagUnread \/ BootModeAborts \/ BootModeInstalls
           \/ ValidatorInit \/ DiagInit
Http == RebootHandler \/ ApplyHandler \/ MarkValid \/ MarkedValid \/ FactoryReset
Dispatcher == PersistGotIp \/ DeferredFires \/ FactoryResetFires
Environment == GotIp \/ Synchronised \/ Tick \/ StepBack \/ PowerCut

Next ==
    \/ Safeguard \/ StartUp \/ Http \/ Dispatcher \/ Environment
    \/ \E t \in Tasks : Restarting(t)
    \/ \E s \in {"WIFI_RECONFIGURE", "WIFI_PROVISIONED"} : RestartDeferred(s)

Spec == Init /\ [][Next]_vars

-----------------------------------------------------------------------------
Times == 0..MaxTime
Budgets == [last : Times, head : 0..(CapMax - 1), count : 0..CapMax,
            ring : [0..(CapMax - 1) -> Times]]

(* The counter stays a uint8_t and the budget a ring of CapMax entries.    *)
TypeOK ==
    /\ nvs.cnt \in 0..255 /\ nvs.budget \in Budgets /\ nvs.flag \in BOOLEAN
    /\ nvs.last \in Srcs \cup {None}
    /\ img \in {"pending", "valid", "undefined"} /\ selected \in BOOLEAN /\ now \in Times
    /\ ram.cache \in Budgets /\ ram.report \in Srcs \cup {None, Unknown}
    /\ pc \in [Tasks -> {"idle", "account", "increment", "record", "save",
                         "retry", "reset", "clear"}]
    /\ src \in [Tasks -> Srcs \cup {None}]
    /\ boot \in {"start", "boot_mode", "init", "load", "up"}

(* Safeguard reboots are throttled, across boots and whatever was lost on  *)
(* the way.  A board whose clock is not set reboots itself at most         *)
(* Threshold times between two clearings of the boot-fail counter (a       *)
(* factory reset is one), whatever the state of its image, and once more   *)
(* for each count that was lost: a write that failed loses one, a decision *)
(* that could not read a counter at the threshold lets one pass, and an    *)
(* increment that could not read the counter loses what had been counted.  *)
(* With the clock set, those the budget allowed and saved are at least     *)
(* MinInterval apart and at most DailyCap of them fall into one Day, from  *)
(* one that could not be read, or was erased, to the next.                 *)
RebootsThrottled ==
    /\ hist.streak <= Threshold + hist.lost
    /\ \A i \in DOMAIN hist.times :
        /\ i > 1 => hist.times[i] - hist.times[i - 1] >= MinInterval
        /\ i > DailyCap => hist.times[i] - hist.times[i - DailyCap] >= Day

(* What a boot reports as its reset source is one that asked for the       *)
(* restart it comes from (or for the next one, when that began before the  *)
(* record was read), or unknown; only a restart that failed twice to save  *)
(* its record may be reported as an older one (load_reboot_record).        *)
ReportIsTrue ==
    [][boot = "load" /\ boot' = "up" =>
                   \/ ram'.report \in {Unknown} \cup hist.prev \cup hist.asked
                   \/ hist.unsaved]_vars

(* A request to apply an update leads to at most one boot in boot mode,    *)
(* however that boot ends: one more takes one more request, or a write     *)
(* that failed to clear the flag.                                          *)
NoBootModeLoop == hist.credit >= 0

=============================================================================
