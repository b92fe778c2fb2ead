----------------------------- MODULE WifiReconn -----------------------------
(***************************************************************************)
(* The STA reconnect manager: the bb_fsm table and retry policy of         *)
(* wifi_reconn_policy.c, the FreeRTOS shell of wifi_reconn.c (one queue,   *)
(* one task) and the event-loop handler and boot sequence of bb_wifi.c.    *)
(*                                                                         *)
(* Three tasks touch this state: the reconn task steps the FSM, the        *)
(* event-loop task ("sys_evt") handles driver events, and the boot task    *)
(* seeds the manager.  The esp_wifi driver is external: it associates,     *)
(* fails, stalls without an address, gets one, or drops the link, and it   *)
(* posts its events asynchronously to the event loop.                      *)
(*                                                                         *)
(* Time is abstract.  The policy's clock only matters through "has the     *)
(* persistent-fail window passed since the first failure", so              *)
(* first_fail_us is none, fresh or old; the window may pass between steps  *)
(* (Age) and also between the clock readings inside one step.              *)
(***************************************************************************)
EXTENDS Fsm, FiniteSets

CONSTANTS
    HandshakeFast,      \* WIFI_RECONN_HANDSHAKE_FAST_RETRY_LIMIT
    HandshakeTier2,     \* WIFI_RECONN_HANDSHAKE_TIER2_LIMIT
    SlowTier1,          \* WIFI_RECONN_SLOW_TIER1_LIMIT
    GenericFast,        \* WIFI_RECONN_GENERIC_FAST_RETRY_LIMIT
    HandshakeMs2, HandshakeMs3, SlowMs1, SlowMs2, PauseMs, ConnectingMs,
    QueueLen,           \* RECONN_QUEUE_LEN
    MaxEvents,          \* bound: driver events not yet handled
    ConnectMayFail      \* esp_wifi_connect() may return an error

ASSUME LimitsAssumption ==
    {HandshakeFast, HandshakeTier2, SlowTier1, GenericFast} \subseteq Nat

(* The Kconfig ranges of every delay start above zero.                     *)
ASSUME DelaysAssumption ==
    {HandshakeMs2, HandshakeMs3, SlowMs1, SlowMs2, PauseMs, ConnectingMs}
        \subseteq Nat \ {0}

ASSUME QueueAssumption == QueueLen \in Nat \ {0} /\ MaxEvents \in Nat

VARIABLES
    current, timer,                \* s_ctx.fsm
    policy, pending_backoff_ms,    \* s_ctx.policy and the stashed delay
    self_disconnect,               \* s_ctx.self_disconnect
    s_queue, seeded,               \* the queue, and whether it exists
    task,                          \* where the reconn task is
    absorbing,                     \* the handler read the flag as true
    boot,                          \* where bb_wifi_autoinit is
    link, evq,                     \* the driver and its posted events
    cause, parkedBySelf            \* history: what was lost

ctxVars == <<policy, pending_backoff_ms>>
vars == <<current, timer, policy, pending_backoff_ms, self_disconnect, s_queue,
          seeded, task, absorbing, boot, link, evq, cause, parkedBySelf>>

-----------------------------------------------------------------------------
(* Disconnect reasons as the policy tells them apart: SLOW stands for      *)
(* AUTH_FAIL and NO_AP_FOUND, OTHER for every reason of the generic ladder.*)
Reasons == {"HANDSHAKE", "SLOW", "LEAVE", "OTHER"}

Disconnected(reason, self) ==
    [event |-> "STA_DISCONNECTED", reason |-> reason, self |-> self]
Plain(event) == [event |-> event, reason |-> "OTHER", self |-> FALSE]

States == {"UNSEEDED", "NO_CREDS", "CONNECTING", "CONNECTED", "BACKOFF",
           "ESCALATE_REBOOT", "LEFT"}

(* The fail counters only matter up to one past the last limit they are    *)
(* compared with, so they saturate there.                                  *)
HandshakeCap == IF HandshakeFast > HandshakeTier2 THEN HandshakeFast + 1
                                                  ELSE HandshakeTier2 + 1
Saturating(n, cap) == IF n < cap THEN n + 1 ELSE n

state_reset == [handshake |-> 0, slow |-> 0, generic |-> 0, first |-> "none"]

(* The bucket a failure is counted in.                                     *)
Counted(p, reason) ==
    CASE reason = "HANDSHAKE" ->
            [p EXCEPT !.handshake = Saturating(@, HandshakeCap)]
      [] reason = "SLOW" -> [p EXCEPT !.slow = Saturating(@, SlowTier1 + 1)]
      [] OTHER -> [p EXCEPT !.generic = Saturating(@, GenericFast + 1)]

compute_backoff_ms(p, reason) ==
    CASE reason = "HANDSHAKE" ->
            IF p.handshake <= HandshakeFast THEN 0
            ELSE IF p.handshake <= HandshakeTier2 THEN HandshakeMs2
            ELSE HandshakeMs3
      [] reason = "SLOW" -> IF p.slow <= SlowTier1 THEN SlowMs1 ELSE SlowMs2
      [] OTHER -> IF p.generic <= GenericFast THEN 0 ELSE PauseMs

(* One FSM step reads the clock up to three times, in this order: the      *)
(* escalate-allowed guard, the escalate-denied guard, the policy call.     *)
(* cross is the first reading past the window, 4 when none is.             *)
Crossings == 1 .. 4
WindowPassed(reading, cross) ==
    \/ policy.first = "old"
    \/ policy.first = "fresh" /\ cross <= reading

(* wifi_reconn_policy_on_disconnect and _on_connect_timeout: the counted   *)
(* failure, and the delay they report (0 when they answer REBOOT).         *)
PolicyAfter(reason, cross) ==
    [Counted(policy, reason) EXCEPT
        !.first = IF WindowPassed(3, cross) THEN "old" ELSE "fresh"]

PolicyDelay(reason, cross) ==
    IF WindowPassed(3, cross)
    THEN 0
    ELSE compute_backoff_ms(PolicyAfter(reason, cross), reason)

\* Mutant: the address resets the counters and leaves the window running.
policy_on_got_ip_KeepsWindow == [state_reset EXCEPT !.first = policy.first]

policy_on_got_ip == state_reset

-----------------------------------------------------------------------------
Row(state, event, guard, action, next) ==
    [state |-> state, event |-> event, guard |-> guard,
     action |-> action, next |-> next]

wr_rows == <<
  Row("NO_CREDS", "CREDS_ARRIVED", "none", "creds_arrived_connect", "CONNECTING"),
  Row("CONNECTING", "GOT_IP", "none", "on_got_ip", "CONNECTED"),
  Row("CONNECTING", "STA_DISCONNECTED", "is_assoc_leave", "park", "LEFT"),
  Row("CONNECTING", "STA_DISCONNECTED", "escalate_allowed", "note", "ESCALATE_REBOOT"),
  Row("CONNECTING", "STA_DISCONNECTED", "escalate_denied", "denied", "BACKOFF"),
  Row("CONNECTING", "STA_DISCONNECTED", "reconnect_now", "reconnect_now", "SAME"),
  Row("CONNECTING", "STA_DISCONNECTED", "none", "backoff", "BACKOFF"),
  Row("CONNECTING", "CONNECTING_TIMEOUT", "escalate_allowed", "note", "ESCALATE_REBOOT"),
  Row("CONNECTING", "CONNECTING_TIMEOUT", "escalate_denied", "denied", "BACKOFF"),
  Row("CONNECTING", "CONNECTING_TIMEOUT", "none", "timeout_reattempt", "SAME"),
  Row("CONNECTED", "STA_DISCONNECTED", "is_assoc_leave", "park", "LEFT"),
  Row("CONNECTED", "STA_DISCONNECTED", "reconnect_now", "reconnect_now", "CONNECTING"),
  Row("CONNECTED", "STA_DISCONNECTED", "none", "backoff", "BACKOFF"),
  Row("BACKOFF", "BACKOFF_TIMEOUT", "none", "backoff_elapsed", "CONNECTING"),
  Row("BACKOFF", "STA_DISCONNECTED", "none", "nothing", "SAME"),
  Row("LEFT", "RECONNECT_REQUESTED", "none", "reset_state", "CONNECTING") >>

(* The guards.  allowed is the answer of bb_system_safeguard_reboot_allowed. *)
(* The peek of reconnect_now counts the failure it is about to record.     *)
PeekedPolicy(reason) == Counted(policy, reason)

Guards == {"none", "is_assoc_leave", "escalate_allowed", "escalate_denied", "reconnect_now"}

GuardHolds(guard, reason, allowed, cross) ==
    CASE guard = "is_assoc_leave"   -> reason = "LEAVE"
      [] guard = "escalate_allowed" -> WindowPassed(1, cross) /\ allowed
      [] guard = "escalate_denied"  -> WindowPassed(2, cross)
      [] guard = "reconnect_now"    ->
            compute_backoff_ms(PeekedPolicy(reason), reason) = 0
      [] OTHER                      -> TRUE

-----------------------------------------------------------------------------
(* The driver (external).  connect() starts an attempt from an idle        *)
(* station; disconnect() tears down an attempt or a link and posts an      *)
(* ASSOC_LEAVE event for it, and does nothing on an idle station.          *)
ConnectCall ==
    \/ link' = IF link = "down" THEN "trying" ELSE link
    \/ ConnectMayFail /\ link' = link

DisconnectCall ==
    /\ link' = "down"
    /\ evq' = IF link = "down" THEN evq
                               ELSE Append(evq, Disconnected("LEAVE", TRUE))

-----------------------------------------------------------------------------
(* What each row's action does to the policy, the stashed delay, the       *)
(* driver and the flag.  act_timeout_reattempt calls the driver twice, so  *)
(* only its first part is here; the task continues with the two calls.     *)
CountsFailure(action) ==
    action \in {"park", "note", "denied", "reconnect_now", "backoff",
                "timeout_reattempt"}

ActionPolicy(action, reason, cross) ==
    IF CountsFailure(action) THEN PolicyAfter(reason, cross)
    ELSE IF action = "on_got_ip" THEN policy_on_got_ip
    ELSE IF action \in {"creds_arrived_connect", "reset_state"} THEN state_reset
    ELSE policy

ActionPendingMs(action, reason, cross) ==
    CASE action = "denied"    -> PauseMs
      [] action = "backoff"   -> PolicyDelay(reason, cross)
      [] action = "on_got_ip" -> 0
      [] OTHER                -> pending_backoff_ms

\* Mutant: the reattempt does not announce its own disconnect.
ActionFlag_NoAbsorb(action) ==
    IF action \in {"creds_arrived_connect", "reset_state"}
    THEN FALSE ELSE self_disconnect

ActionFlag(action) ==
    CASE action \in {"creds_arrived_connect", "reset_state"} -> FALSE
      [] action = "timeout_reattempt"                        -> TRUE
      [] OTHER                                               -> self_disconnect

ActionDriver(action) ==
    IF action \in {"creds_arrived_connect", "reset_state", "reconnect_now",
                   "backoff_elapsed"}
    THEN ConnectCall ELSE link' = link

ActionTimer(action) ==
    IF action = "reconnect_now"
    THEN ArmTimer(timer, "CONNECTING_TIMEOUT", ConnectingMs) ELSE timer

(* The entry hooks, run with the timers already cleared.                   *)
EntryTimer(state, pendingMs) ==
    CASE state = "CONNECTING" ->
            ArmTimer(NoTimer, "CONNECTING_TIMEOUT", ConnectingMs)
      [] state = "BACKOFF" -> ArmTimer(NoTimer, "BACKOFF_TIMEOUT", pendingMs)
      [] OTHER -> NoTimer

(* History: whether a default-row backoff lost its delay to the window.    *)
CauseAfter(action, reason, cross) ==
    IF action = "backoff" /\ WindowPassed(3, cross) /\ policy.first = "fresh"
    THEN cause \cup {"windowCrossed"} ELSE cause

(* bb_fsm_step on event e; an event no row matches changes nothing.        *)
TakeRow(row, e, cross) ==
    /\ policy' = ActionPolicy(row.action, e.reason, cross)
    /\ pending_backoff_ms' = ActionPendingMs(row.action, e.reason, cross)
    /\ self_disconnect' = ActionFlag(row.action)
    /\ ActionDriver(row.action)
    /\ current' = NextState(row, current)
    /\ timer' = NextTimer(row, ActionTimer(row.action),
                          EntryTimer(row.next, pending_backoff_ms'))
    /\ cause' = CauseAfter(row.action, e.reason, cross)
    /\ parkedBySelf' = (parkedBySelf \/ (row.action = "park" /\ e.self))
    /\ task' = IF row.action = "timeout_reattempt" THEN "disconnect" ELSE "wait"

FsmStep(e) ==
    \E allowed \in BOOLEAN, cross \in Crossings :
        LET holding == {g \in Guards : GuardHolds(g, e.reason, allowed, cross)}
        IN \/ \E i \in 1 .. Len(wr_rows) :
                /\ FirstMatch(wr_rows, i, current, e.event, holding)
                /\ TakeRow(wr_rows[i], e, cross)
           \/ /\ \A i \in 1 .. Len(wr_rows) :
                    ~RowMatches(wr_rows[i], current, e.event, holding)
              /\ task' = "wait"
              /\ UNCHANGED <<current, timer, ctxVars, self_disconnect, link,
                             cause, parkedBySelf>>

-----------------------------------------------------------------------------
(* The reconn task.  ESCALATE_REBOOT's entry hook does not return.         *)
TaskRuns == seeded /\ current # "ESCALATE_REBOOT"

Receive ==
    /\ TaskRuns /\ task = "wait" /\ s_queue # <<>>
    /\ s_queue' = Tail(s_queue)
    /\ FsmStep(Head(s_queue))
    /\ UNCHANGED <<seeded, absorbing, boot, evq>>

(* xQueueReceive times out.  The armed delays are seconds: by then the     *)
(* event loop has handled what the driver had posted and the station has   *)
(* been started.                                                           *)
Expire ==
    /\ TaskRuns /\ task = "wait" /\ s_queue = <<>> /\ Armed(timer)
    /\ evq = <<>> /\ ~absorbing /\ boot = "run"
    /\ task' = "expired"
    /\ UNCHANGED <<current, timer, ctxVars, self_disconnect, s_queue, seeded,
                   absorbing, boot, link, evq, cause, parkedBySelf>>

(* The FSM step of an expiry: what arrived since is still in the queue.    *)
ExpireStep ==
    /\ task = "expired"
    /\ FsmStep(Plain(timer.event))
    /\ UNCHANGED <<s_queue, seeded, absorbing, boot, evq>>

(* The rest of act_timeout_reattempt: disconnect_fn, connect_fn, re-arm.   *)
GotIpPending == \E q \in {evq, s_queue} : \E i \in 1 .. Len(q) : q[i].event = "GOT_IP"

ReattemptDisconnect ==
    /\ task = "disconnect"
    /\ DisconnectCall
    /\ cause' = IF GotIpPending THEN cause \cup {"staleGotIp"} ELSE cause
    /\ task' = "connect"
    /\ UNCHANGED <<current, timer, ctxVars, self_disconnect, s_queue, seeded,
                   absorbing, boot, parkedBySelf>>

ReattemptConnect ==
    /\ task = "connect"
    /\ ConnectCall
    /\ timer' = ArmTimer(timer, "CONNECTING_TIMEOUT", ConnectingMs)
    /\ task' = "wait"
    /\ UNCHANGED <<current, ctxVars, self_disconnect, s_queue, seeded, absorbing,
                   boot, evq, cause, parkedBySelf>>

-----------------------------------------------------------------------------
(* The event-loop task.  wifi_reconn_on_disconnect reads self_disconnect   *)
(* and clears it in a second step; a full or missing queue drops events.   *)
\* Mutant: a disconnect goes to the front of the queue.
Enqueue_DisconnectFirst(e) ==
    s_queue' = IF ~seeded \/ Len(s_queue) >= QueueLen THEN s_queue
               ELSE IF e.event = "STA_DISCONNECTED" THEN <<e>> \o s_queue
               ELSE Append(s_queue, e)

Enqueue(e) ==
    s_queue' = IF seeded /\ Len(s_queue) < QueueLen THEN Append(s_queue, e)
                                                    ELSE s_queue

Dropped(e) ==
    IF e.event = "STA_DISCONNECTED" /\ ~(seeded /\ Len(s_queue) < QueueLen)
    THEN cause \cup {"lostDisconnect"} ELSE cause

Handle ==
    /\ evq # <<>> /\ ~absorbing
    /\ ~(seeded /\ self_disconnect /\ Head(evq).event = "STA_DISCONNECTED")
    /\ evq' = Tail(evq)
    /\ Enqueue(Head(evq))
    /\ cause' = Dropped(Head(evq))
    /\ boot' = IF Head(evq).event = "GOT_IP" /\ boot = "trying" THEN "gotip" ELSE boot
    /\ UNCHANGED <<current, timer, ctxVars, self_disconnect, seeded, task,
                   absorbing, link, parkedBySelf>>

AbsorbRead ==
    /\ evq # <<>> /\ ~absorbing
    /\ seeded /\ self_disconnect /\ Head(evq).event = "STA_DISCONNECTED"
    /\ absorbing' = TRUE
    /\ UNCHANGED <<current, timer, ctxVars, self_disconnect, s_queue, seeded, task,
                   boot, link, evq, cause, parkedBySelf>>

AbsorbClear ==
    /\ absorbing
    /\ absorbing' = FALSE
    /\ self_disconnect' = FALSE
    /\ evq' = Tail(evq)
    /\ cause' = IF Head(evq).self THEN cause ELSE cause \cup {"lostDisconnect"}
    /\ UNCHANGED <<current, timer, ctxVars, s_queue, seeded, task, boot, link,
                   parkedBySelf>>

(* bb_wifi_on_creds_arrived, called by provisioning on a parked manager.   *)
CredsArrived ==
    /\ boot = "parked"
    /\ boot' = "run"
    /\ Enqueue(Plain("CREDS_ARRIVED"))
    /\ UNCHANGED <<current, timer, ctxVars, self_disconnect, seeded, task, absorbing,
                   link, evq, cause, parkedBySelf>>

(* The WR_LEFT resume event: its row ships without a production poster.    *)

-----------------------------------------------------------------------------
(* bb_wifi_autoinit.  Three boots: no credentials (manager parked), live   *)
(* credentials (manager seeded, then the station is started), and pending  *)
(* credentials (the station is started and gets an address first).         *)
StaStart ==
    /\ boot \in {"start", "try"}
    /\ boot' = IF boot = "start" THEN "run" ELSE "trying"
    /\ ConnectCall
    /\ UNCHANGED <<current, timer, ctxVars, self_disconnect, s_queue, seeded, task,
                   absorbing, evq, cause, parkedBySelf>>

PendingCommitted ==
    /\ boot = "gotip"
    /\ boot' = "run"
    /\ seeded' = TRUE
    /\ current' = "CONNECTING"
    /\ timer' = EntryTimer("CONNECTING", 0)
    /\ UNCHANGED <<ctxVars, self_disconnect, s_queue, task, absorbing, link, evq,
                   cause, parkedBySelf>>

(* The bounded wait ends without an address: revert and reboot.            *)
PendingReverted ==
    /\ boot = "trying"
    /\ boot' = "reverted"
    /\ link' = "down" /\ evq' = <<>>
    /\ UNCHANGED <<current, timer, ctxVars, self_disconnect, s_queue, seeded, task,
                   absorbing, cause, parkedBySelf>>

-----------------------------------------------------------------------------
(* The driver's own steps (external).                                      *)
Post(e) ==
    /\ Len(evq) < MaxEvents
    /\ evq' = Append(evq, e)
    /\ UNCHANGED <<current, timer, ctxVars, self_disconnect, s_queue, seeded, task,
                   absorbing, boot, cause, parkedBySelf>>

LinkLost ==
    /\ link # "down"
    /\ link' = "down"
    /\ \E reason \in Reasons : Post(Disconnected(reason, FALSE))

LinkUp ==
    /\ link \in {"trying", "stalled"}
    /\ link' = "up"
    /\ Post(Plain("GOT_IP"))

LinkStalls ==
    /\ link = "trying"
    /\ link' = "stalled"
    /\ UNCHANGED <<current, timer, ctxVars, self_disconnect, s_queue, seeded, task,
                   absorbing, boot, evq, cause, parkedBySelf>>

(* The persistent-fail window passes between two steps.                    *)
Age ==
    /\ policy.first = "fresh"
    /\ policy' = [policy EXCEPT !.first = "old"]
    /\ UNCHANGED <<current, timer, pending_backoff_ms, self_disconnect, s_queue,
                   seeded, task, absorbing, boot, link, evq, cause, parkedBySelf>>

Init ==
    /\ policy = state_reset /\ pending_backoff_ms = 0
    /\ self_disconnect = FALSE /\ absorbing = FALSE
    /\ s_queue = <<>> /\ evq = <<>> /\ link = "down" /\ task = "wait"
    /\ cause = {} /\ parkedBySelf = FALSE
    /\ \/ boot = "parked" /\ seeded = TRUE /\ current = "NO_CREDS" /\ timer = NoTimer
       \/ boot = "start" /\ seeded = TRUE /\ current = "CONNECTING"
          /\ timer = EntryTimer("CONNECTING", 0)
       \/ boot = "try" /\ seeded = FALSE /\ current = "UNSEEDED" /\ timer = NoTimer

Task == Receive \/ Expire \/ ExpireStep \/ ReattemptDisconnect \/ ReattemptConnect
Handler == Handle \/ AbsorbRead \/ AbsorbClear
Boot == StaStart \/ PendingCommitted \/ PendingReverted \/ CredsArrived
Driver == LinkLost \/ LinkUp \/ LinkStalls
Next == Task \/ Handler \/ Boot \/ Driver \/ Age

Spec == Init /\ [][Next]_vars
FairSpec == Spec /\ WF_vars(Task) /\ WF_vars(Handler) /\ WF_vars(StaStart)

-----------------------------------------------------------------------------
(* Types and the bounds of the two queues.                                 *)
TypeOK ==
    /\ current \in States
    /\ timer \in [event : {"none", "CONNECTING_TIMEOUT", "BACKOFF_TIMEOUT"}, ms : Nat]
    /\ policy \in [handshake : 0 .. HandshakeCap, slow : 0 .. SlowTier1 + 1,
                   generic : 0 .. GenericFast + 1, first : {"none", "fresh", "old"}]
    /\ pending_backoff_ms \in Nat
    /\ self_disconnect \in BOOLEAN /\ seeded \in BOOLEAN /\ absorbing \in BOOLEAN
    /\ parkedBySelf \in BOOLEAN
    /\ Len(s_queue) <= QueueLen
    /\ task \in {"wait", "expired", "disconnect", "connect"}
    /\ boot \in {"parked", "start", "try", "trying", "gotip", "run", "reverted"}
    /\ link \in {"down", "trying", "stalled", "up"}
    /\ Len(evq) <= MaxEvents + 1
    /\ cause \subseteq {"lostDisconnect", "staleGotIp", "windowCrossed"}

(* The retrying states are never left without a timer: reconn_task waits   *)
(* forever when none is armed, so this is what keeps a failed connection   *)
(* being retried.  CONNECTING always has its watchdog.  BACKOFF always has *)
(* its timer but for one case, the window passing between the guards and   *)
(* the policy call of the same step.                                       *)
TimedWhileRetrying ==
    /\ current = "CONNECTING" => timer.event = "CONNECTING_TIMEOUT"
    /\ current = "BACKOFF" /\ "windowCrossed" \notin cause
          => timer.event = "BACKOFF_TIMEOUT"

(* The FSM believes in a link that is gone (or has no address), and        *)
(* nothing is under way that would tell it otherwise.                      *)
Stranded ==
    /\ current = "CONNECTED" /\ link \in {"down", "stalled"}
    /\ s_queue = <<>> /\ evq = <<>> /\ task = "wait"

(* The only ways to strand the manager: a disconnect of the link itself    *)
(* was discarded (absorbed in place of the manager's own, or dropped at a  *)
(* full queue), or the watchdog tore down a link whose GOT_IP was queued.  *)
StrandedOnlyByLoss ==
    Stranded => cause \cap {"lostDisconnect", "staleGotIp"} # {}

(* WR_LEFT, which nothing in production leaves, is entered only for a      *)
(* departure the peer or the driver reported, never for the disconnect     *)
(* act_timeout_reattempt caused itself.                                    *)
ParkedOnlyByPeer == ~parkedBySelf

(* While the manager is retrying, an idle station is eventually asked to   *)
(* connect again, whatever was dropped on the way; the exceptions are the  *)
(* two states no timer gets it out of.                                     *)
SelfHeals ==
    (link = "down" /\ current \in {"CONNECTING", "BACKOFF"})
        ~> (\/ link # "down"
            \/ current \in {"LEFT", "ESCALATE_REBOOT"}
            \/ Stranded \/ "windowCrossed" \in cause)
=============================================================================
