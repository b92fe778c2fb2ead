----------------------------- MODULE WifiCreds ------------------------------
(***************************************************************************)
(* The WiFi credentials across requests, deferred writes, boots and power  *)
(* failures: the keys bb_settings keeps in NVS, their mirror in RTC        *)
(* memory, and the five tasks that touch them:                             *)
(*   boot     bb_settings_creds_boot_init, then bb_wifi_autoinit           *)
(*   sys_evt  the IP_EVENT_STA_GOT_IP branch of bb_wifi's event_handler    *)
(*   disp     bb_timer's dispatcher, which runs the deferred persist and   *)
(*            the deferred restart in FIFO order                           *)
(*   http     PATCH /api/wifi, factory reset and the portal's POST /save   *)
(*   portal   the provisioning manager of module WifiProv                  *)
(*                                                                         *)
(* Every NVS operation is a step of its own, and a warm reset or a power   *)
(* failure may come between any two of them.  NVS keys survive both, the   *)
(* RTC mirror only the warm reset.  A bb_config_staged commit is one step: *)
(* the code relies on nvs_commit for that, as this model does.  Any of them *)
(* may also fail, as may the creation of a timer and the fresh connect.    *)
(***************************************************************************)
EXTENDS WifiProv, FiniteSets, SequencesExt

CONSTANTS
    Creds,          \* credentials a user may enter (ssid and password)
    Good,           \* the ones an access point accepts
    DispQueueLen,   \* BB_TIMER_DISP_QUEUE_DEPTH, as left by other timers
    MaxRequests,    \* bound: portal saves, reconfigures, factory resets
    MaxFaults       \* bound: resets nobody asked for, corrupt NVS at boot,
                    \* failed reads, writes, timer creations and connects

ASSUME CredsAssumption == Good \subseteq Creds /\ "" \notin Creds
ASSUME BoundsAssumption ==
    DispQueueLen \in Nat \ {0} /\ MaxRequests \in Nat /\ MaxFaults \in Nat

VARIABLES
    nvs, nvsUp,                     \* namespace "bb_cfg"; NVS initialised
    mirror,                         \* the "rtc" backend's region
    boot, s_pending_try,            \* the boot task; a pending try is under way
    link, bit,                      \* the station; WIFI_CONNECTED_BIT
    persist, persistMode,           \* s_got_ip_persist_pending and its timer
    created, armed, dispq,          \* one-shot timers, s_disp_queue
    apply, http,                    \* got_ip_persist_apply; the httpd task
    requests, faults,               \* bounds
    hist                            \* history, see HistTypeOK

credVars == <<nvs, nvsUp, mirror>>
dispVars == <<persist, persistMode, created, armed, dispq>>
bootVars == <<boot, s_pending_try>>
linkVars == <<link, bit>>
bounds == <<requests, faults>>
vars == <<nvs, nvsUp, mirror, boot, s_pending_try, link, bit, persist,
          persistMode, created, armed, dispq, apply, http, requests, faults, hist, provVars>>

-----------------------------------------------------------------------------
(* A credential is its ssid and its password; "" is an absent or empty     *)
(* key.  The two halves of credential c are both written c, so a torn pair *)
(* has two different halves, and only a whole good pair gets an address.   *)
Text == Creds \cup {""}
Pair(s, p) == [ssid |-> s, pass |-> p]
NoPair == Pair("", "")
Whole(c) == Pair(c, c)

Live == Pair(nvs.ssid, nvs.pass)
has_creds == nvs.ssid # ""
pending_active == nvs.try /\ nvs.ssid_p # ""

ErasedNvs == [ssid |-> "", pass |-> "", ssid_p |-> "", pass_p |-> "",
              try |-> FALSE, provisioned |-> FALSE]

IdleApply == [pc |-> "idle", todo |-> {}, ssid |-> "", pass |-> "", inline |-> FALSE]
IdleHttp == [pc |-> "idle", cred |-> ""]
NoLink == [cfg |-> NoPair, up |-> FALSE, ip |-> FALSE]

Decisions == {"promote", "mark_connected"}
Timers == {"persist", "restart", "fr_restart"}

(* Two requests restart the board, each by a timer of its own.             *)
RestartTimer == [arm |-> "restart", frArm |-> "fr_restart"]

(* What went wrong since the last reset: a timer found the dispatcher full, *)
(* a restart timer could not be created, a promotion failed after its try  *)
(* was consumed, autoinit could not read the keys.                         *)
Excuses == {"post", "timer", "promote", "unread"}

HistTypeOK ==
    /\ hist.trusted \subseteq [ssid : Text, pass : Text]    \* saved or connected
    /\ hist.excused \subseteq [ssid : Text, pass : Text]    \* staged keys changed
                                                            \* under a promote
    /\ hist.wiped \in BOOLEAN            \* factory reset, nothing saved since
    /\ hist.revived \in BOOLEAN          \* ... but the mirror outlived it
    /\ hist.staleMirror \in BOOLEAN      \* reset between commit and mirror
    /\ hist.excuses \subseteq Excuses    \* what may leave staged keys behind
    /\ hist.unheard \in BOOLEAN          \* CREDS_ARRIVED without a connect

TypeOK ==
    /\ ProvTypeOK /\ HistTypeOK
    /\ nvs \in [ssid : Text, pass : Text, ssid_p : Text, pass_p : Text,
                try : BOOLEAN, provisioned : BOOLEAN]
    /\ mirror \in [ssid : Text, pass : Text]
    /\ boot \in {"init", "stamp", "autoinit", "parked", "try", "connect", "run",
                 "unregister", "clear", "erase1", "erase2", "restart"}
    /\ link \in [cfg : [ssid : Text, pass : Text], up : BOOLEAN, ip : BOOLEAN]
    /\ {nvsUp, s_pending_try, bit} \subseteq BOOLEAN
    /\ persist \subseteq Decisions /\ persistMode \in {"none", "timer", "inline"}
    /\ created \subseteq Timers
    /\ armed \in Seq(Timers) /\ dispq \in Seq(Timers) /\ Len(dispq) <= DispQueueLen
    /\ apply.pc \in {"idle", "next", "ssid", "pass", "commit", "mirror",
                     "erase1", "erase2", "mark"}
    /\ http.pc \in {"idle", "save", "saveMirror", "savePost", "arm", "frClear",
                   "frArm"}

Init ==
    /\ ProvInit
    /\ nvs = ErasedNvs /\ nvsUp = TRUE /\ mirror = NoPair
    /\ boot = "init" /\ s_pending_try = FALSE
    /\ link = NoLink /\ bit = FALSE
    /\ persist = {} /\ persistMode = "none"
    /\ created = {} /\ armed = << >> /\ dispq = << >>
    /\ apply = IdleApply /\ http = IdleHttp
    /\ requests = 0 /\ faults = 0
    /\ hist = [trusted |-> {}, excused |-> {}, wiped |-> FALSE,
               revived |-> FALSE, staleMirror |-> FALSE, excuses |-> {},
               unheard |-> FALSE]

-----------------------------------------------------------------------------
(* Resets.  RAM is lost, NVS is kept, the RTC region is kept unless the    *)
(* power went.                                                             *)
MirrorOutstanding == http.pc = "saveMirror" \/ apply.pc = "mirror"

Reset(cold) ==
    /\ ProvReset
    /\ boot' = "init" /\ s_pending_try' = FALSE
    /\ link' = NoLink /\ bit' = FALSE
    /\ persist' = {} /\ persistMode' = "none"
    /\ created' = {} /\ armed' = << >> /\ dispq' = << >>
    /\ apply' = IdleApply /\ http' = IdleHttp
    /\ nvsUp' = TRUE
    /\ mirror' = IF cold THEN NoPair ELSE mirror
    /\ hist' = [hist EXCEPT
                  !.staleMirror = ~cold /\ (@ \/ MirrorOutstanding),
                  !.revived = @ \/ (~cold /\ http.pc = "frClear"),
                  !.excuses = {},
                  !.unheard = FALSE]
    /\ UNCHANGED nvs

(* A panic, a watchdog, a brown-out or the plug, at any moment.            *)
Fault(cold) ==
    /\ faults < MaxFaults
    /\ faults' = faults + 1
    /\ Reset(cold)
    /\ UNCHANGED requests

(* A flash operation, an allocation or a driver call that fails.           *)
CallFails == faults < MaxFaults /\ faults' = faults + 1

-----------------------------------------------------------------------------
(* bb_settings_wifi_rtc_mirror_write: one commit of ssid, pass and the     *)
(* flag, which is 1 in every write, so the region is the pair.             *)
rtc_mirror_write(s, p) == mirror' = Pair(s, p)

(* bb_settings_creds_boot_init.  flash_init_once erases a corrupt          *)
(* partition; then the heal, the seed or nothing.  A read that fails finds *)
(* no live credentials; a heal or a seed that fails leaves things alone.   *)
creds_boot_decide(live_present, mirror_present) ==
    IF ~live_present /\ mirror_present THEN "HEAL"
    ELSE IF live_present /\ ~mirror_present THEN "SEED" ELSE "NONE"

CredsBootInit(corrupt, failed) ==
    LET start == IF corrupt THEN ErasedNvs ELSE nvs
        present == start.ssid # "" /\ failed # "decision"
        action == creds_boot_decide(present, mirror.ssid # "")
        done(a) == action = a /\ failed # "action"
    IN  /\ boot = "init"
        /\ faults' = faults + Cardinality({c \in {"corrupt"} : corrupt})
                             + Cardinality({failed} \ {"none"})
        /\ faults' <= MaxFaults
        /\ nvs' = IF done("HEAL")
                  THEN [start EXCEPT !.ssid = mirror.ssid, !.pass = mirror.pass]
                  ELSE start
        /\ IF done("SEED") THEN rtc_mirror_write(start.ssid, start.pass)
                           ELSE UNCHANGED mirror
        /\ boot' = IF done("HEAL") THEN "stamp" ELSE "autoinit"
        /\ UNCHANGED <<nvsUp, s_pending_try, linkVars, dispVars, apply,
                       http, requests, hist, provVars>>

(* The rest of the heal: wifi_set's own mirror write and the re-stamp of   *)
(* provisioned from the mirror's copy, always set.                         *)
HealStamp ==
    /\ boot = "stamp"
    /\ \/ nvs' = [nvs EXCEPT !.provisioned = TRUE] /\ UNCHANGED faults
       \/ CallFails /\ UNCHANGED nvs
    /\ rtc_mirror_write(nvs.ssid, nvs.pass)
    /\ hist' = [hist EXCEPT !.staleMirror = FALSE]
    /\ boot' = "autoinit"
    /\ UNCHANGED <<nvsUp, s_pending_try, linkVars, dispVars, apply, http,
                   requests, provVars>>

(* bb_wifi_autoinit.  wifi_connect_sta_ex configures the station and waits *)
(* for the bit; without credentials the portal is offered instead.         *)
Autoinit ==
    /\ boot = "autoinit"
    /\ boot' = IF ~has_creds THEN "parked" ELSE IF pending_active THEN "try" ELSE "connect"
    /\ s_pending_try' = (has_creds /\ pending_active)
    /\ link' = CASE ~has_creds     -> link
                 [] pending_active -> [cfg |-> Pair(nvs.ssid_p, nvs.pass_p),
                                       up |-> TRUE, ip |-> FALSE]
                 [] OTHER          -> [cfg |-> Live, up |-> TRUE, ip |-> FALSE]
    /\ IF has_creds THEN UNCHANGED provVars
                    ELSE wifi_prov_autoinit(has_creds, nvs.provisioned)
    /\ UNCHANGED <<credVars, bit, dispVars, apply, http, bounds, hist>>

(* The same with a key that cannot be read, which counts as absent: the    *)
(* board parks beside its credentials, or never notices what was staged.   *)
AutoinitUnread ==
    /\ boot = "autoinit" /\ has_creds /\ CallFails
    /\ \/ boot' = "parked" /\ UNCHANGED link /\ wifi_prov_autoinit(FALSE, nvs.provisioned)
       \/ /\ pending_active
          /\ boot' = "connect" /\ link' = [cfg |-> Live, up |-> TRUE, ip |-> FALSE]
          /\ UNCHANGED provVars
    /\ hist' = [hist EXCEPT !.excuses = @ \cup {"unread"}]
    /\ UNCHANGED <<credVars, s_pending_try, bit, dispVars, apply, http, requests>>

(* xEventGroupWaitBits answers the bit, or its timeout.                    *)
ConnectReturns ==
    /\ \/ boot \in {"try", "connect"} /\ bit
       \/ boot = "connect"
    /\ boot' = "run"
    /\ bit' = FALSE
    /\ UNCHANGED <<credVars, s_pending_try, link, dispVars, apply, http,
                   bounds, hist, provVars>>

TryTimesOut ==
    /\ boot = "try" /\ ~bit
    /\ boot' = "unregister"
    /\ UNCHANGED <<credVars, s_pending_try, linkVars, dispVars, apply,
                   http, bounds, hist, provVars>>

(* A promotion of staged keys is decided and has not read both of them.    *)
PromoteOutstanding ==
    \/ "promote" \in persist
    \/ "promote" \in apply.todo /\ apply.pc \in {"next", "ssid", "pass"}

(* Stop the driver and unregister the handlers (which waits for a running  *)
(* one), then the revert: forget the try, discard the staged keys, restart.*)
Revert ==
    /\ \/ /\ boot = "unregister" /\ ~apply.inline
          /\ boot' = "clear"
          /\ link' = [link EXCEPT !.up = FALSE, !.ip = FALSE]
          /\ UNCHANGED <<nvs, s_pending_try, hist>>
       \/ /\ boot = "clear"
          /\ boot' = "erase1" /\ s_pending_try' = FALSE
          /\ nvs' = [nvs EXCEPT !.try = FALSE]
          /\ UNCHANGED <<link, hist>>
       \/ /\ boot = "erase1"
          /\ boot' = "erase2"
          /\ nvs' = [nvs EXCEPT !.ssid_p = ""]
          /\ UNCHANGED <<s_pending_try, link, hist>>
       \/ /\ boot = "erase2"
          /\ boot' = "restart"
          /\ nvs' = [nvs EXCEPT !.pass_p = ""]
          /\ hist' = IF PromoteOutstanding
                     THEN [hist EXCEPT !.excused = @ \cup {Pair(apply.ssid, ""),
                                                           Pair(nvs.ssid_p, "")}]
                     ELSE hist
          /\ UNCHANGED <<s_pending_try, link>>
    /\ UNCHANGED <<nvsUp, mirror, bit, dispVars, apply, http, bounds,
                   provVars>>

(* A write of the revert fails: logged or ignored, and the revert goes on. *)
RevertFails ==
    /\ CallFails
    /\ \/ boot = "clear" /\ boot' = "erase1" /\ s_pending_try' = FALSE
       \/ boot = "erase1" /\ boot' = "erase2" /\ UNCHANGED s_pending_try
       \/ boot = "erase2" /\ boot' = "restart" /\ UNCHANGED s_pending_try
    /\ UNCHANGED <<credVars, linkVars, dispVars, apply, http, requests, hist, provVars>>

RevertRestart == boot = "restart" /\ Reset(FALSE) /\ UNCHANGED bounds

-----------------------------------------------------------------------------
(* sys_evt.  The access point hands out an address to a whole good pair.   *)
(* Starting a timer stops it first, so it is armed at most once.           *)
ArmTimer(timer) == Append(RemoveFirst(armed, timer), timer)

(* bb_wifi_got_ip_persist_decide.                                          *)
got_ip_persist_decide(pending_try) ==
    IF pending_try THEN "promote" ELSE "mark_connected"

GroupExists == boot \in {"try", "connect"}

(* got_ip_persist_arm by a working timer: merge and re-arm.                *)
MergedDecision(decision) == persist \cup {decision}

PersistByTimer(decision) ==
    /\ persistMode # "inline" /\ persistMode' = "timer"
    /\ persist' = MergedDecision(decision)
    /\ created' = created \cup {"persist"} /\ armed' = ArmTimer("persist")
    /\ bit' = (bit \/ GroupExists)
    /\ UNCHANGED apply

(* ... and without one: the timer could not be created, once and for the   *)
(* boot, so the handler applies the decision itself before it goes on.     *)
PersistInline(decision) ==
    /\ persistMode # "timer" /\ persistMode' = "inline"
    /\ apply' = [IdleApply EXCEPT !.pc = "next", !.todo = {decision}, !.inline = TRUE]
    /\ UNCHANGED <<persist, created, armed, bit>>

GotIp ==
    /\ link.up /\ ~apply.inline
    /\ \E c \in Good : link.cfg = Whole(c)
    /\ link' = [link EXCEPT !.ip = TRUE]
    /\ s_pending_try' = FALSE
    /\ LET decision == got_ip_persist_decide(s_pending_try)
       IN  PersistByTimer(decision) \/ PersistInline(decision)
    /\ hist' = [hist EXCEPT !.trusted = @ \cup {link.cfg}]
    /\ UNCHANGED <<credVars, boot, dispq, http, bounds, provVars>>

LostIp ==
    /\ link.ip /\ ~apply.inline
    /\ link' = [link EXCEPT !.ip = FALSE]
    /\ UNCHANGED <<credVars, bootVars, bit, dispVars, apply, http, bounds, hist, provVars>>

-----------------------------------------------------------------------------
(* bb_timer.  The persist delay is 100 ms, the restart delays 500 ms, so a *)
(* restart never overtakes what was armed before it.  The dispatcher's     *)
(* queue is shared: the post may find it full of other work, and is lost.  *)
TimerFires(timer) ==
    /\ \E i \in 1 .. Len(armed) : armed[i] = timer /\ (timer # "persist" => i = 1)
    /\ armed' = RemoveFirst(armed, timer)
    /\ \/ Len(dispq) < DispQueueLen /\ dispq' = Append(dispq, timer) /\ UNCHANGED hist
       \/ UNCHANGED dispq
          /\ hist' = [hist EXCEPT !.excuses = @ \cup {"post"}]
    /\ UNCHANGED <<credVars, bootVars, linkVars, persist, persistMode, created, apply,
                   http, bounds, provVars>>

DispFree == apply.pc = "idle" \/ apply.inline

(* got_ip_persist_work_fn: snapshot and clear, then apply.                 *)
DispPersist ==
    /\ dispq # << >> /\ Head(dispq) = "persist" /\ apply.pc = "idle"
    /\ dispq' = Tail(dispq)
    /\ apply' = [IdleApply EXCEPT !.pc = "next", !.todo = persist]
    /\ persist' = {}
    /\ UNCHANGED <<credVars, bootVars, linkVars, persistMode, created, armed, http,
                   bounds, hist, provVars>>

(* restart_deferred_work_fn and factory_reset_reboot_work_fn.              *)
DispRestart ==
    /\ dispq # << >> /\ Head(dispq) # "persist" /\ DispFree
    /\ Reset(FALSE)
    /\ UNCHANGED bounds

-----------------------------------------------------------------------------
(* got_ip_persist_apply, one NVS operation at a time.  The first step      *)
(* dispatches on what is left to do and ends the call when nothing is; an  *)
(* inline call then sets the bit, if the boot task still waits for it.     *)
ApplyDone ==
    /\ apply' = IdleApply
    /\ bit' = (bit \/ (apply.inline /\ GroupExists))

ApplyNext ==
    /\ apply.pc = "next"
    /\ IF apply.todo = {} THEN ApplyDone
       ELSE /\ apply' = [apply EXCEPT !.pc = IF "promote" \in apply.todo THEN "ssid" ELSE "mark"]
            /\ UNCHANGED bit
    /\ UNCHANGED <<credVars, bootVars, link, dispVars, http, bounds, hist, provVars>>

Promoted == [apply EXCEPT !.pc = "next", !.todo = @ \ {"promote"}]

(* bb_settings_wifi_pending_promote: the two reads, ...                    *)
PromoteReadSsid ==
    /\ apply.pc = "ssid"
    /\ apply' = IF nvsUp /\ nvs.ssid_p # ""
                THEN [apply EXCEPT !.pc = "pass", !.ssid = nvs.ssid_p]
                ELSE Promoted                     \* BB_ERR_INVALID_STATE
    /\ UNCHANGED <<credVars, bootVars, linkVars, dispVars, http, bounds, hist, provVars>>

PromoteReadPass ==
    /\ apply.pc = "pass"
    /\ apply' = [apply EXCEPT !.pc = "commit", !.pass = IF nvsUp THEN nvs.pass_p ELSE ""]
    /\ UNCHANGED <<credVars, bootVars, linkVars, dispVars, http, bounds, hist, provVars>>

(* ... the commit of four keys, ...                                        *)
PromoteCommit ==
    /\ apply.pc = "commit"
    /\ nvs' = IF nvsUp THEN [nvs EXCEPT !.ssid = apply.ssid, !.pass = apply.pass,
                                        !.try = FALSE, !.provisioned = TRUE]
                       ELSE nvs
    /\ apply' = IF nvsUp THEN [apply EXCEPT !.pc = "mirror"] ELSE Promoted
    /\ UNCHANGED <<nvsUp, mirror, bootVars, linkVars, dispVars, http, bounds, hist,
                   provVars>>

(* ... the mirror, and the two best-effort erases.                         *)
\* Mutant: the promotion does not refresh the mirror.
PromoteMirror_Skipped ==
    /\ apply.pc = "mirror"
    /\ apply' = [apply EXCEPT !.pc = "erase1"]
    /\ UNCHANGED <<credVars, bootVars, linkVars, dispVars, http, bounds, hist, provVars>>

PromoteMirror ==
    /\ apply.pc = "mirror"
    /\ rtc_mirror_write(apply.ssid, apply.pass)
    /\ hist' = [hist EXCEPT !.staleMirror = FALSE,
                            !.revived = @ \/ hist.wiped]
    /\ apply' = [apply EXCEPT !.pc = "erase1"]
    /\ UNCHANGED <<nvs, nvsUp, bootVars, linkVars, dispVars, http, bounds, provVars>>

PromoteErase ==
    /\ \/ /\ apply.pc = "erase1"
          /\ nvs' = IF nvsUp THEN [nvs EXCEPT !.ssid_p = ""] ELSE nvs
          /\ apply' = [apply EXCEPT !.pc = "erase2"]
       \/ /\ apply.pc = "erase2"
          /\ nvs' = IF nvsUp THEN [nvs EXCEPT !.pass_p = ""] ELSE nvs
          /\ apply' = Promoted
    /\ UNCHANGED <<nvsUp, mirror, bootVars, linkVars, dispVars, http, bounds, hist,
                   provVars>>

(* bb_settings_wifi_provisioned_mark_connected: already set is an early    *)
(* return, which the same value covers.                                    *)
MarkConnected ==
    /\ apply.pc = "mark"
    /\ nvs' = IF nvsUp THEN [nvs EXCEPT !.provisioned = TRUE] ELSE nvs
    /\ apply' = [apply EXCEPT !.pc = "next", !.todo = @ \ {"mark_connected"}]
    /\ UNCHANGED <<nvsUp, mirror, bootVars, linkVars, dispVars, http, bounds, hist,
                   provVars>>

(* A failed read or commit ends the promotion.  The try has been consumed, *)
(* so the staged keys stay as they are until the next boot.                *)
PromoteFails ==
    /\ apply.pc \in {"ssid", "pass", "commit"} /\ CallFails
    /\ apply' = Promoted
    /\ hist' = [hist EXCEPT !.excuses = @ \cup {"promote"}]
    /\ UNCHANGED <<credVars, bootVars, linkVars, dispVars, http, requests, provVars>>

(* An erase or the mark fails, which nothing checks.                       *)
CleanupFails ==
    /\ CallFails
    /\ \/ apply.pc = "erase1" /\ apply' = [apply EXCEPT !.pc = "erase2"]
       \/ apply.pc = "erase2" /\ apply' = Promoted
       \/ apply.pc = "mark"
          /\ apply' = [apply EXCEPT !.pc = "next", !.todo = @ \ {"mark_connected"}]
    /\ UNCHANGED <<credVars, bootVars, linkVars, dispVars, http, requests, hist, provVars>>

ApplyStep ==
    \/ ApplyNext \/ PromoteReadSsid \/ PromoteReadPass \/ PromoteCommit
    \/ PromoteMirror \/ PromoteErase \/ MarkConnected \/ PromoteFails \/ CleanupFails

-----------------------------------------------------------------------------
(* httpd, one handler at a time.                                           *)
Request == http = IdleHttp /\ requests < MaxRequests /\ requests' = requests + 1

(* bb_wifi_reconfigure: bb_settings_wifi_pending_set, ...                  *)
\* Mutant: the request replaces the live credentials as well.
pending_set_WritesLive(c) ==
    nvs' = [nvs EXCEPT !.ssid_p = c, !.pass_p = c, !.try = TRUE,
                       !.ssid = c, !.pass = c]

pending_set(c) ==
    nvs' = [nvs EXCEPT !.ssid_p = c, !.pass_p = c, !.try = TRUE]

Reconfigure(c) ==
    /\ Request /\ boot = "run" /\ link.ip /\ nvsUp
    /\ pending_set(c)
    /\ http' = [pc |-> "arm", cred |-> c]
    /\ hist' = IF PromoteOutstanding
               THEN [hist EXCEPT !.excused = @ \cup {Whole(c), Pair(nvs.ssid_p, c),
                                                     Pair(apply.ssid, c)}]
               ELSE hist
    /\ UNCHANGED <<nvsUp, mirror, bootVars, linkVars, dispVars, apply, faults, provVars>>

(* ... then bb_system_restart_deferred; the factory reset ends the same.   *)
\* Mutant: the request only stages, and leaves the restart to the user.
ArmRestart_Forgotten ==
    /\ http.pc \in DOMAIN RestartTimer
    /\ http' = IdleHttp
    /\ UNCHANGED <<credVars, bootVars, linkVars, dispVars, apply, bounds, hist, provVars>>

ArmRestart ==
    /\ http.pc \in DOMAIN RestartTimer
    /\ LET timer == RestartTimer[http.pc]
       IN  created' = created \cup {timer} /\ armed' = ArmTimer(timer)
    /\ http' = IdleHttp
    /\ UNCHANGED <<credVars, bootVars, linkVars, persist, persistMode, dispq, apply,
                   bounds, hist, provVars>>

(* ... unless its timer cannot be created: the stop and the start that     *)
(* follow do nothing, and the board goes on without a restart.             *)
ArmRestartFails ==
    /\ http.pc \in DOMAIN RestartTimer /\ RestartTimer[http.pc] \notin created
    /\ CallFails
    /\ http' = IdleHttp
    /\ hist' = [hist EXCEPT !.excuses = @ \cup {"timer"}]
    /\ UNCHANGED <<credVars, bootVars, linkVars, dispVars, apply, requests, provVars>>

(* factory_reset_apply: nvs_flash_erase, which also takes NVS down until   *)
(* the next boot, then the mirror.                                         *)
\* Mutant: the mirror is left alone.
FactoryReset_KeepsMirror ==
    /\ Request /\ boot = "run" /\ link.ip /\ nvsUp
    /\ nvs' = ErasedNvs /\ nvsUp' = FALSE
    /\ hist' = [hist EXCEPT !.wiped = TRUE, !.revived = FALSE]
    /\ http' = [pc |-> "frArm", cred |-> ""]
    /\ UNCHANGED <<mirror, bootVars, linkVars, dispVars, apply, faults, provVars>>

FactoryReset ==
    /\ Request /\ boot = "run" /\ link.ip /\ nvsUp
    /\ nvs' = ErasedNvs /\ nvsUp' = FALSE
    /\ hist' = [hist EXCEPT !.wiped = TRUE, !.revived = FALSE]
    /\ http' = [pc |-> "frClear", cred |-> ""]
    /\ UNCHANGED <<mirror, bootVars, linkVars, dispVars, apply, faults, provVars>>

FactoryResetMirror ==
    /\ http.pc = "frClear"
    /\ mirror' = NoPair
    /\ hist' = [hist EXCEPT !.staleMirror = FALSE]
    /\ http' = [http EXCEPT !.pc = "frArm"]
    /\ UNCHANGED <<nvs, nvsUp, bootVars, linkVars, dispVars, apply, bounds, provVars>>

(* prov_save_handler: enter while the route is registered, commit, mirror, *)
(* respond and notify the manager.                                         *)
SaveEnter(c) ==
    /\ Request /\ "save" \in routes
    /\ http' = [pc |-> "save", cred |-> c]
    /\ UNCHANGED <<credVars, bootVars, linkVars, dispVars, apply, faults, hist, provVars>>

(* bb_settings_wifi_set, the commit of two keys.                           *)
wifi_set(c) == nvs' = [nvs EXCEPT !.ssid = c, !.pass = c]

SaveCommit ==
    /\ http.pc = "save"
    /\ IF nvsUp
       THEN /\ wifi_set(http.cred)
            /\ http' = [http EXCEPT !.pc = "saveMirror"]
            /\ hist' = [hist EXCEPT !.trusted = @ \cup {Whole(http.cred)},
                                    !.wiped = FALSE, !.revived = FALSE]
       ELSE http' = IdleHttp /\ UNCHANGED <<nvs, hist>>
    /\ UNCHANGED <<nvsUp, mirror, bootVars, linkVars, dispVars, apply, bounds, provVars>>

(* A commit that fails is answered with an error.                          *)
SaveFails ==
    /\ http.pc = "save" /\ CallFails
    /\ http' = IdleHttp
    /\ UNCHANGED <<credVars, bootVars, linkVars, dispVars, apply, requests, hist, provVars>>

SaveMirror ==
    /\ http.pc = "saveMirror"
    /\ rtc_mirror_write(http.cred, http.cred)
    /\ hist' = [hist EXCEPT !.staleMirror = FALSE]
    /\ http' = [http EXCEPT !.pc = "savePost"]
    /\ UNCHANGED <<nvs, nvsUp, bootVars, linkVars, dispVars, apply, bounds, provVars>>

SavePost ==
    /\ http.pc = "savePost"
    /\ on_save \/ SaveUnheard
    /\ http' = IdleHttp
    /\ UNCHANGED <<credVars, bootVars, linkVars, dispVars, apply, bounds, hist>>

RequestPortal ==
    /\ Request /\ request_portal
    /\ http' = http
    /\ UNCHANGED <<credVars, bootVars, linkVars, dispVars, apply, faults, hist>>

-----------------------------------------------------------------------------
Portal ==
    /\ ManagerStep
    /\ UNCHANGED <<credVars, bootVars, linkVars, dispVars, apply, http, bounds, hist>>

(* The reconnect manager's CREDS_ARRIVED row, from NO_CREDS only:          *)
(* bb_wifi_internal_connect_fresh reads the live keys.                     *)
ConnectFresh ==
    /\ arrived
    /\ arrived' = FALSE
    /\ IF boot = "parked"
       THEN /\ link' = [cfg |-> Live, up |-> TRUE, ip |-> FALSE]
            /\ boot' = "run"
            /\ UNCHANGED hist
       ELSE hist' = [hist EXCEPT !.unheard = TRUE] /\ UNCHANGED <<link, boot>>
    /\ UNCHANGED <<credVars, s_pending_try, bit, dispVars, apply, http,
                   bounds, wp, settle, mgr, provq, ap, routes, s_prov_active,
                   saveLost>>

(* A failing net stack, mode, handler or configuration call: the manager   *)
(* has left WR_NO_CREDS, and the driver has nothing to connect to.         *)
ConnectFreshFails ==
    /\ arrived /\ boot = "parked" /\ CallFails
    /\ arrived' = FALSE
    /\ boot' = "run"
    /\ hist' = [hist EXCEPT !.unheard = TRUE]
    /\ UNCHANGED <<credVars, s_pending_try, linkVars, dispVars, apply, http, requests,
                   wp, settle, mgr, provq, ap, routes, s_prov_active, saveLost>>

BootStep ==
    \/ \E corrupt \in BOOLEAN, failed \in {"none", "decision", "action"} :
           CredsBootInit(corrupt, failed)
    \/ HealStamp \/ Autoinit \/ AutoinitUnread \/ ConnectReturns \/ TryTimesOut
    \/ Revert \/ RevertFails \/ RevertRestart

HttpStep ==
    \/ ArmRestart \/ ArmRestartFails \/ FactoryResetMirror
    \/ SaveCommit \/ SaveFails \/ SaveMirror \/ SavePost

DispStep == DispPersist \/ DispRestart

CredsArrived == ConnectFresh \/ ConnectFreshFails

Next ==
    \/ BootStep \/ HttpStep \/ DispStep \/ ApplyStep \/ Portal \/ CredsArrived
    \/ \E timer \in Timers : TimerFires(timer)
    \/ \E c \in Creds : Reconfigure(c) \/ SaveEnter(c)
    \/ FactoryReset \/ RequestPortal \/ GotIp \/ LostIp
    \/ \E cold \in BOOLEAN : Fault(cold)

(* Every task runs; timers expire.  Requests, addresses and faults are the *)
(* environment's and need not happen.                                      *)
Fairness ==
    /\ WF_vars(BootStep) /\ WF_vars(HttpStep) /\ WF_vars(DispStep)
    /\ WF_vars(ApplyStep) /\ WF_vars(Portal) /\ WF_vars(CredsArrived)
    /\ \A timer \in Timers : WF_vars(TimerFires(timer))

Spec == Init /\ [][Next]_vars /\ Fairness

-----------------------------------------------------------------------------
(* Credentials become live only by the portal or by an address obtained    *)
(* with them: bb_settings_wifi_pending_promote never commits a pair that   *)
(* was not tried.  The one way around is to stage others, or to discard    *)
(* them, while a promotion is decided and has not read both keys.          *)
LiveIsProven ==
    has_creds => Live \in hist.trusted \cup hist.excused

(* Whenever no write is under way the mirror holds the live pair, so a     *)
(* heal brings back the credentials that were lost and no older ones,      *)
(* unless a reset fell between a commit and its mirror write.              *)
Quiet == http = IdleHttp /\ apply.pc = "idle" /\ boot \notin {"init", "stamp"}

MirrorFollowsLive ==
    Quiet /\ has_creds /\ mirror # NoPair => mirror = Live \/ hist.staleMirror

(* Credentials erased by a factory reset do not come back until new ones   *)
(* are saved, unless the reset was cut before the mirror's turn or a       *)
(* promotion refreshed the mirror behind it.                               *)
ErasedStaysErased == hist.wiped /\ has_creds => hist.revived

(* Credentials saved on the portal are handed to the driver once portal    *)
(* and reconnect manager are at rest, in the same boot, unless the save's  *)
(* event was not sent, found no room or no row (the save outlived the      *)
(* portal, or its start failed), the portal was reopened on a board that   *)
(* has left WR_NO_CREDS, where CREDS_ARRIVED has no row, the connect       *)
(* failed, or a failed read hid the credentials from this boot.            *)
PortalAtRest == mgr = "idle" /\ provq = << >> /\ ~settle /\ ~arrived /\ http = IdleHttp

SavedCredsReachDriver ==
    PortalAtRest /\ has_creds /\ nvsUp => link.cfg = Live \/ saveLost \/ hist.unheard
                                             \/ "unread" \in hist.excuses

(* A staged reconfigure is settled, one way or the other: promoted or      *)
(* discarded, unless in this boot the deferred restart or persist found    *)
(* the queue full, the restart's timer could not be created, a read or the *)
(* commit of the promotion failed, or autoinit could not read the keys.    *)
StagedIsSettled == pending_active ~> (~pending_active \/ hist.excuses # {})

=============================================================================
