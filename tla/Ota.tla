-------------------------------- MODULE Ota --------------------------------
(***************************************************************************)
(* Firmware updates on a running board: the update-check worker            *)
(* (bb_ota_check), the pull worker behind POST /api/update/apply           *)
(* (bb_ota_pull), the push handler (bb_ota_push), and what they share: the *)
(* in-progress flag, the OTA claim (bb_claim), the check's status, the     *)
(* consumer's pause (bb_ota_hooks), the watchdog period (bb_wdt) and the   *)
(* update partition.                                                       *)
(*                                                                         *)
(* The httpd task serves one request at a time.  Timers, the check worker  *)
(* and pull workers run beside it; a worker's task may outlive the         *)
(* in-progress flag it clears.  An image is a number of chunks with one    *)
(* writer; times are ticks of the monotonic clock, to which the wall clock *)
(* adds Epoch: nothing until SNTP has answered, decades afterwards.        *)
(***************************************************************************)
EXTENDS Integers, FiniteSets

CONSTANTS
    Workers,        \* pull worker tasks that may exist at once
    Chunks,         \* chunks of an image
    MaxAttempts,    \* CONFIG_BB_OTA_PULL_DL_MAX_ATTEMPTS
    Window,         \* CONFIG_BB_OTA_PULL_APPLY_CACHE_FRESH_S
    Epoch,          \* wall time minus uptime
    MaxUp           \* bound: uptime

ASSUME OtaAssumption ==
    /\ IsFiniteSet(Workers) /\ Chunks \in Nat \ {0} /\ MaxAttempts \in Nat \ {0}
    /\ Window \in Nat /\ MaxUp \in Nat /\ Epoch \in Nat
    /\ Workers \cap {"push", "old", "blank", "spoiled", "create"} = {}

VARIABLES
    inProgress,     \* s_ota_in_progress
    claim,          \* s_ota_claim.holder
    inFlight,       \* s_check_in_flight
    status,         \* bb_ota_check's s_status
    up,             \* the monotonic clock, esp_timer_get_time
    h,              \* the httpd task: position, what it read of the status, s_paused
    sp,             \* try_spawn past its guards, per caller
    chk,            \* the one-shot check task
    w,              \* the pull workers: position, attempt
    paused,         \* the consumer's work is paused
    wdt,            \* the task watchdog's period
    slot, boot,     \* the update partition, and what the bootloader will run
    overlap,        \* history: a pull worker or its request beside another worker
    crossed,        \* history: a push beside a pull worker, since all was idle
    leaked          \* history: a check could not be started, and none has run since

vars == <<inProgress, claim, inFlight, status, up, h, sp, chk, w, paused,
          wdt, slot, boot, overlap, crossed, leaked>>

check == <<inFlight, status, sp, chk>>
device == <<paused, wdt, slot, boot>>

ApplyPC == {"status", "refresh", "kick", "poll", "reread", "decide", "acquire", "create", "fail"}
PushPC == {"extend", "begin", "recv", "end", "select", "unextend", "resume",
           "restart"}
WorkerPC == {"pause", "extend", "begin", "perform", "finish", "unextend", "restart",
             "clear", "resume", "release", "exit"}
NoStatus == [ok |-> FALSE, at |-> 0, avail |-> FALSE]

(* The update partition, chunk by chunk.  esp_ota_begin erases it whole;   *)
(* esp_https_ota erases each part as it gets there.  Writing over what was *)
(* not erased spoils it.                                                   *)
Blank == [c \in 1 .. Chunks |-> "blank"]
Image(who) == [c \in 1 .. Chunks |-> who]
WriteErased(c, who) == slot' = [slot EXCEPT ![c] = who]
WriteOver(c, who) == slot' = [slot EXCEPT ![c] = IF @ = "blank" THEN who ELSE "spoiled"]
Verified == slot \in {Image(who) : who \in Workers \cup {"push", "old"}}

IdleHttpd == [pc |-> "idle", avail |-> FALSE, pre |-> 0, paused |-> FALSE, n |-> 0]
IdleWorker == [pc |-> "off", dl |-> 0, n |-> 0, ok |-> FALSE]

Init ==
    /\ inProgress = FALSE /\ claim = "none" /\ inFlight = FALSE
    /\ status = NoStatus /\ up = 0
    /\ h = IdleHttpd /\ sp = [c \in {"httpd", "timer"} |-> "no"] /\ chk = "off"
    /\ w = [i \in Workers |-> IdleWorker]
    /\ paused = FALSE /\ wdt = "normal"
    /\ slot = Image("old") /\ boot = "running"
    /\ overlap = FALSE /\ crossed = FALSE /\ leaked = FALSE

wall == up + Epoch

-----------------------------------------------------------------------------
(* bb_claim: a holder may acquire again; only the holder releases.         *)
Acquirable(id) == claim \in {"none", id}
bb_claim_release(id) == claim' = IF claim = id THEN "none" ELSE claim

(* bb_ota_pull_apply_cache_is_fresh, given the monotonic clock.            *)
apply_cache_is_fresh(st) ==
    Window > 0 /\ st.ok /\ st.at > 0 /\ up - st.at <= Window

-----------------------------------------------------------------------------
(* try_spawn, called by the timer's work function and by the httpd task:   *)
(* the in-flight flag, then the claim; without the claim the flag is given *)
(* back, so taking both in one step loses nothing.                         *)
TrySpawn(c) ==
    /\ sp[c] = "no"
    /\ IF ~inFlight /\ Acquirable("upd_check")
       THEN inFlight' = TRUE /\ claim' = "upd_check" /\ sp' = [sp EXCEPT ![c] = "create"]
       ELSE UNCHANGED <<inFlight, claim, sp>>
    /\ UNCHANGED <<inProgress, status, up, chk, w, device>>

timer_work_fn == TrySpawn("timer") /\ UNCHANGED h

SpawnCreate(c) ==
    /\ sp[c] = "create"
    /\ sp' = [sp EXCEPT ![c] = "no"]
    /\ \/ chk' = "run" /\ UNCHANGED inFlight
       \/ inFlight' = FALSE /\ UNCHANGED chk           \* bb_task_create failed
    /\ UNCHANGED <<inProgress, claim, status, up, h, w, device>>

-----------------------------------------------------------------------------
(* ondemand_task: bb_ota_check_run_one stamps the wall clock; a disabled   *)
(* check or a refused pause returns without a stamp.                       *)
Stamp(st) == [st EXCEPT !.at = wall]

bb_ota_check_run_one ==
    /\ chk = "run"
    /\ chk' = "release"
    /\ status' \in {status, Stamp([status EXCEPT !.ok = FALSE])} \cup
                   {Stamp([status EXCEPT !.ok = TRUE, !.avail = a]) : a \in BOOLEAN}
    /\ UNCHANGED <<inProgress, claim, inFlight, up, h, sp, w, device>>

CheckRelease ==
    /\ chk = "release"
    /\ chk' = "clear"
    /\ bb_claim_release("upd_check")
    /\ UNCHANGED <<inProgress, inFlight, status, up, h, sp, w, device>>

CheckClear ==
    /\ chk = "clear"
    /\ chk' = "off" /\ inFlight' = FALSE
    /\ UNCHANGED <<inProgress, claim, status, up, h, sp, w, device>>

-----------------------------------------------------------------------------
(* The httpd task: POST /api/update/check and /api/update/apply.  "fail"   *)
(* is any answer that gives the in-progress flag back.                     *)
Httpd(from) == h.pc = from /\ sp["httpd"] = "no"
Goto(pc) == h' = [h EXCEPT !.pc = pc]

ota_check_handler == Httpd("idle") /\ TrySpawn("httpd") /\ UNCHANGED h

\* Mutant: the in-progress flag is not tested.
ApplyEnter_Unchecked ==
    /\ Httpd("idle")
    /\ inProgress' = TRUE
    /\ Goto("status")
    /\ UNCHANGED <<claim, check, up, w, device>>

ApplyEnter ==
    /\ Httpd("idle") /\ ~inProgress
    /\ inProgress' = TRUE
    /\ Goto("status")
    /\ UNCHANGED <<claim, check, up, w, device>>

ApplyStatus ==
    /\ Httpd("status")
    /\ h' = [h EXCEPT !.pc = IF apply_cache_is_fresh(status) THEN "decide" ELSE "refresh",
                      !.avail = status.avail]
    /\ UNCHANGED <<inProgress, claim, check, up, w, device>>

(* bb_ota_check_run_blocking: sample, kick, poll until it moves.           *)
RunBlocking ==
    /\ Httpd("refresh")
    /\ h' = [h EXCEPT !.pc = "kick", !.pre = status.at]
    /\ UNCHANGED <<inProgress, claim, check, up, w, device>>

RunBlockingKick == Httpd("kick") /\ Goto("poll") /\ TrySpawn("httpd")

Poll ==
    /\ Httpd("poll")
    /\ \/ status.at # h.pre /\ Goto("reread")
       \/ Goto("fail")                                 \* the 30 s are over
    /\ UNCHANGED <<inProgress, claim, check, up, w, device>>

Reread ==
    /\ Httpd("reread")
    /\ h' = [h EXCEPT !.pc = IF status.ok THEN "decide" ELSE "fail",
                      !.avail = status.avail, !.pre = 0]
    /\ UNCHANGED <<inProgress, claim, check, up, w, device>>

ApplyDecide ==
    /\ Httpd("decide")
    /\ \/ h.avail /\ Goto("acquire")
       \/ Goto("fail")                                 \* up to date, or no memory
    /\ UNCHANGED <<inProgress, claim, check, up, w, device>>

ApplyAcquire ==
    /\ Httpd("acquire")
    /\ IF Acquirable("ota_pull")
       THEN claim' = "ota_pull" /\ Goto("create")
       ELSE Goto("fail") /\ UNCHANGED claim
    /\ UNCHANGED <<inProgress, check, up, w, device>>

\* Mutant: the claim is kept when the task cannot be created.
ApplyCreate_ClaimKept ==
    /\ Httpd("create")
    /\ \/ /\ \E i \in Workers : w[i].pc = "off" /\ w' = [w EXCEPT ![i].pc = "pause"]
          /\ h' = IdleHttpd
       \/ Goto("fail") /\ UNCHANGED w
    /\ UNCHANGED <<inProgress, claim, check, up, device>>

ApplyCreate ==
    /\ Httpd("create")
    /\ \/ /\ \E i \in Workers : w[i].pc = "off" /\ w' = [w EXCEPT ![i].pc = "pause"]
          /\ h' = IdleHttpd /\ UNCHANGED claim
       \/ bb_claim_release("ota_pull") /\ Goto("fail") /\ UNCHANGED w
    /\ UNCHANGED <<inProgress, check, up, device>>

ApplyFail ==
    /\ Httpd("fail")
    /\ inProgress' = FALSE
    /\ h' = IdleHttpd
    /\ UNCHANGED <<claim, check, up, w, device>>

-----------------------------------------------------------------------------
(* ota_worker_task, with ota_download_and_flash inside it.                 *)
Worker(i, from) == w[i].pc = from
Step(i, pc) == w' = [w EXCEPT ![i].pc = pc]
Leave(i, pc, ok) == w' = [w EXCEPT ![i] = [IdleWorker EXCEPT !.pc = pc, !.ok = ok]]

\* Mutant: the flag is not given back when the pause is refused.
PullPause_FlagKept(i) ==
    /\ Worker(i, "pause")
    /\ \/ paused' = TRUE /\ Step(i, "extend")
       \/ Step(i, "release") /\ UNCHANGED paused
    /\ UNCHANGED <<inProgress, claim, check, up, h, wdt, slot, boot>>

\* Mutant: the download goes on when the pause is refused, as a push does.
PullPause_GoesOn(i) ==
    /\ Worker(i, "pause")
    /\ paused' \in {paused, TRUE}
    /\ Step(i, "extend")
    /\ UNCHANGED <<inProgress, claim, check, up, h, wdt, slot, boot>>

\* A consumer's pause hook is installed (without one the worker goes on unpaused).
PullPause(i) ==
    /\ Worker(i, "pause")
    /\ \/ paused' = TRUE /\ Step(i, "extend") /\ UNCHANGED inProgress
       \/ inProgress' = FALSE /\ Step(i, "release")    \* the pause hook refused
          /\ UNCHANGED paused
    /\ UNCHANGED <<claim, check, up, h, wdt, slot, boot>>

PullExtend(i) ==
    /\ Worker(i, "extend")
    /\ wdt' = "extended"
    /\ \/ Step(i, "begin")
       \/ Step(i, "unextend")                          \* heap guard, no IP, no partition
    /\ UNCHANGED <<inProgress, claim, check, up, h, paused, slot, boot>>

(* A failed attempt is repeated until the attempts are used up; an image   *)
(* for another board is not.                                               *)
Retry(i) == IF w[i].dl + 1 < MaxAttempts
            THEN w' = [w EXCEPT ![i].pc = "begin", ![i].dl = @ + 1]
            ELSE Leave(i, "unextend", FALSE)

PullBegin(i) ==
    /\ Worker(i, "begin")
    /\ \/ w' = [w EXCEPT ![i].pc = "perform", ![i].n = 0]
       \/ Retry(i)
       \/ Leave(i, "unextend", FALSE)                  \* board mismatch
    /\ UNCHANGED <<inProgress, claim, check, up, h, device>>

PullPerform(i) ==
    /\ Worker(i, "perform")
    /\ \/ /\ WriteErased(w[i].n + 1, i)
          /\ w' = [w EXCEPT ![i].n = @ + 1,
                            ![i].pc = IF w[i].n + 1 = Chunks THEN "finish" ELSE @]
       \/ Retry(i) /\ UNCHANGED slot
    /\ UNCHANGED <<inProgress, claim, check, up, h, paused, wdt, boot>>

(* esp_https_ota_finish verifies the partition and selects it; either may  *)
(* fail on a whole image too.                                              *)
PullFinish(i) ==
    /\ Worker(i, "finish")
    /\ \/ Verified /\ boot' = "slot" /\ Leave(i, "unextend", TRUE)
       \/ Leave(i, "unextend", FALSE) /\ UNCHANGED boot
    /\ UNCHANGED <<inProgress, claim, check, up, h, paused, wdt, slot>>

PullUnextend(i) ==
    /\ Worker(i, "unextend")
    /\ wdt' = "normal"
    /\ Step(i, IF w[i].ok THEN "restart" ELSE "clear")
    /\ UNCHANGED <<inProgress, claim, check, up, h, paused, slot, boot>>

PullClear(i) ==
    /\ Worker(i, "clear")
    /\ inProgress' = FALSE
    /\ Step(i, "resume")
    /\ UNCHANGED <<claim, check, up, h, device>>

PullResume(i) ==
    /\ Worker(i, "resume")
    /\ paused' = FALSE
    /\ Step(i, "release")
    /\ UNCHANGED <<inProgress, claim, check, up, h, wdt, slot, boot>>

(* ota_task_exit *)
PullRelease(i) ==
    /\ Worker(i, "release")
    /\ bb_claim_release("ota_pull")
    /\ Step(i, "exit")
    /\ UNCHANGED <<inProgress, check, up, h, device>>

PullExit(i) ==
    /\ Worker(i, "exit")
    /\ wdt' = "normal"
    /\ w' = [w EXCEPT ![i] = IdleWorker]
    /\ UNCHANGED <<inProgress, claim, check, up, h, paused, slot, boot>>

-----------------------------------------------------------------------------
(* ota_push_handler: the httpd task flashes by itself, under neither the   *)
(* in-progress flag nor the claim.                                         *)
PushPause ==
    /\ Httpd("idle")
    /\ \E p \in BOOLEAN :
          /\ paused' = (paused \/ p)                   \* it goes on either way
          /\ h' = [IdleHttpd EXCEPT !.pc = "extend", !.paused = p]
    /\ UNCHANGED <<inProgress, claim, check, up, w, wdt, slot, boot>>

PushExtend ==
    /\ Httpd("extend")
    /\ wdt' = "extended"
    /\ Goto("begin")
    /\ UNCHANGED <<inProgress, claim, check, up, w, paused, slot, boot>>

PushBegin ==
    /\ Httpd("begin")
    /\ \/ slot' = Blank /\ Goto("recv")
       \/ Goto("unextend") /\ slot' \in {slot, Blank}  \* esp_ota_begin, or the malloc after
    /\ UNCHANGED <<inProgress, claim, check, up, w, paused, wdt, boot>>

PushRecv ==
    /\ Httpd("recv")
    /\ \/ /\ WriteOver(h.n + 1, "push")
          /\ h' = [h EXCEPT !.n = @ + 1, !.pc = IF h.n + 1 = Chunks THEN "end" ELSE @]
       \/ Goto("unextend") /\ UNCHANGED slot           \* too slow, lost, wrong board
    /\ UNCHANGED <<inProgress, claim, check, up, w, paused, wdt, boot>>

PushEnd ==
    /\ Httpd("end")
    /\ \/ Verified /\ Goto("select")
       \/ Goto("unextend")                             \* not valid, or not readable
    /\ UNCHANGED <<inProgress, claim, check, up, w, device>>

PushSelect ==
    /\ Httpd("select")
    /\ \/ Verified /\ boot' = "slot" /\ Goto("restart")
       \/ Goto("unextend") /\ UNCHANGED boot           \* esp_ota_set_boot_partition failed
    /\ UNCHANGED <<inProgress, claim, check, up, w, paused, wdt, slot>>

PushUnextend ==
    /\ Httpd("unextend")
    /\ wdt' = "normal"
    /\ Goto("resume")
    /\ UNCHANGED <<inProgress, claim, check, up, w, paused, slot, boot>>

PushResume ==
    /\ Httpd("resume")
    /\ paused' = (paused /\ ~h.paused)
    /\ h' = IdleHttpd
    /\ UNCHANGED <<inProgress, claim, check, up, w, wdt, slot, boot>>

-----------------------------------------------------------------------------
(* Half a second after success a worker or the push handler restarts the   *)
(* board; a power cut may do so at any moment.  A verified selection runs, *)
(* and the slot it replaced is the next update partition.                  *)
Reboot ==
    /\ inProgress' = FALSE /\ claim' = "none" /\ inFlight' = FALSE
    /\ status' = NoStatus /\ up' = 0
    /\ h' = IdleHttpd /\ sp' = [c \in {"httpd", "timer"} |-> "no"] /\ chk' = "off"
    /\ w' = [i \in Workers |-> IdleWorker]
    /\ paused' = FALSE /\ wdt' = "normal"
    /\ boot' = "running"
    /\ slot' = IF boot = "slot" /\ Verified THEN Image("old") ELSE slot

Tick ==
    /\ up < MaxUp
    /\ up' = up + 1
    /\ UNCHANGED <<inProgress, claim, check, h, w, device>>

-----------------------------------------------------------------------------
Live == {i \in Workers : w[i].pc # "off"} \cup (IF h.pc = "create" THEN {"create"} ELSE {})
Downloading == {i \in Workers : w[i].pc \in {"begin", "perform", "finish"}}
Pushing == h.pc \in PushPC

History ==
    /\ overlap' = (Live' # {} /\ (overlap \/ Cardinality(Live') > 1))
    /\ crossed' = /\ Live' # {} \/ Pushing'
                  /\ crossed \/ (Live' # {} /\ Pushing')
    /\ leaked' = /\ claim' = "upd_check" /\ chk' = "off"
                 /\ leaked \/ \E c \in DOMAIN sp : sp[c] = "create" /\ sp'[c] = "no"

CheckNext ==
    \/ timer_work_fn
    \/ \E c \in {"httpd", "timer"} : SpawnCreate(c)
    \/ bb_ota_check_run_one \/ CheckRelease \/ CheckClear

ApplyNext ==
    \/ ota_check_handler \/ ApplyEnter \/ ApplyStatus \/ RunBlocking \/ RunBlockingKick \/ Poll \/ Reread
    \/ ApplyDecide \/ ApplyAcquire \/ ApplyCreate \/ ApplyFail

PullNext(i) ==
    \/ PullPause(i) \/ PullExtend(i) \/ PullBegin(i) \/ PullPerform(i) \/ PullFinish(i)
    \/ PullUnextend(i) \/ PullClear(i) \/ PullResume(i) \/ PullRelease(i) \/ PullExit(i)

PushNext ==
    \/ PushPause \/ PushExtend \/ PushBegin \/ PushRecv \/ PushEnd \/ PushSelect
    \/ PushUnextend \/ PushResume

Next ==
    /\ CheckNext \/ ApplyNext \/ PushNext \/ Reboot \/ Tick
       \/ \E i \in Workers : PullNext(i)
    /\ History

Spec == Init /\ [][Next]_vars

-----------------------------------------------------------------------------
TypeOK ==
    /\ inProgress \in BOOLEAN /\ claim \in {"none", "ota_pull", "upd_check"}
    /\ inFlight \in BOOLEAN /\ up \in 0 .. MaxUp
    /\ h.pc \in {"idle"} \cup ApplyPC \cup PushPC /\ h.n \in 0 .. Chunks
    /\ sp \in [{"httpd", "timer"} -> {"no", "create"}]
    /\ chk \in {"off", "run", "release", "clear"}
    /\ w \in [Workers -> [pc : {"off"} \cup WorkerPC, dl : 0 .. MaxAttempts - 1,
                          n : 0 .. Chunks, ok : BOOLEAN]]
    /\ paused \in BOOLEAN /\ wdt \in {"normal", "extended"} /\ boot \in {"running", "slot"}
    /\ slot \in [1 .. Chunks -> Workers \cup {"push", "old", "blank", "spoiled"}]

(* An update is accepted again as soon as nobody is applying one, and never *)
(* before: the flag is up exactly while one request or one worker still     *)
(* has to lower it, on every early return of ota_update_handler and of      *)
(* ota_worker_task.                                                         *)
Applying == {i \in Workers : w[i].pc \in WorkerPC \ {"resume", "release", "exit"}}
OneUpdate ==
    Cardinality(Applying) + (IF h.pc \in ApplyPC THEN 1 ELSE 0)
        = IF inProgress THEN 1 ELSE 0

(* The claim belongs to a request or task that will release it, and a       *)
(* manifest fetch and a download hold it, so they keep apart                *)
(* (bb_ota_check.h: "at most one OTA-class operation ... runs at a time").  *)
(* Two exceptions: try_spawn leaves "upd_check" behind when the task cannot *)
(* be created, until a later check releases it, and refuses every apply     *)
(* meanwhile; and an apply accepted while the last worker was on its way    *)
(* out shares its name with that worker, which releases the newer claim.    *)
ClaimIsOwned ==
    /\ claim = "upd_check" => (\E c \in DOMAIN sp : sp[c] = "create")
                              \/ chk \in {"run", "release"} \/ leaked
    /\ claim = "ota_pull" => h.pc = "create" \/ \E i \in Workers : w[i].pc \in WorkerPC \ {"exit"}
    /\ chk = "run" => claim = "upd_check"
    /\ Downloading # {} => claim = "ota_pull" \/ overlap

(* A download runs with the consumer paused and the watchdog extended,      *)
(* unless an older worker's exit or a push undid them.                      *)
Sheltered ==
    Downloading # {} => (paused /\ wdt = "extended") \/ overlap \/ crossed

(* What the bootloader was told to run is one writer's whole image, unless  *)
(* a push ran beside a pull: push takes neither the flag nor the claim.     *)
SelectedIsWhole ==
    boot = "slot" => Verified \/ crossed

=============================================================================
