-------------------------- MODULE WifiReconn_proofs --------------------------
(***************************************************************************)
(* The reconnect manager for every choice of limits, delays and queue      *)
(* bounds.                                                                 *)
(*                                                                         *)
(* TimedWhileRetrying is not inductive alone.  A backoff entered from      *)
(* CONNECTED consults no escalation guard, so its delay is positive only   *)
(* because CONNECTED implies that no failure window is running; and the    *)
(* second half of act_timeout_reattempt re-arms the watchdog only because  *)
(* the FSM cannot have left CONNECTING in between.                         *)
(*                                                                         *)
(* ParkedOnlyByPeer rests on SelfInv: the disconnect the manager causes    *)
(* itself is the first one in the event loop's queue and finds the flag    *)
(* set, because the watchdog fires on an empty event loop and the driver   *)
(* reports one departure of a link only once.  StrandedOnlyByLoss rests on *)
(* ToldInv: as long as nothing was lost, a GOT_IP under way is true or     *)
(* followed by the disconnect that corrects it.                            *)
(***************************************************************************)
EXTENDS WifiReconn, TLAPS

Policies == [handshake : Nat, slow : Nat, generic : Nat,
             first : {"none", "fresh", "old"}]

TInv ==
    /\ policy \in Policies
    /\ TimedWhileRetrying
    /\ current = "CONNECTED" => policy.first = "none"
    /\ task \in {"disconnect", "connect"} => current = "CONNECTING"

(* The sixteen rows of wr_rows, one by one.                                *)
LEMMA RowTable ==
    /\ Len(wr_rows) = 16
    /\ wr_rows[1] = Row("NO_CREDS", "CREDS_ARRIVED", "none", "creds_arrived_connect", "CONNECTING")
    /\ wr_rows[2] = Row("CONNECTING", "GOT_IP", "none", "on_got_ip", "CONNECTED")
    /\ wr_rows[3] = Row("CONNECTING", "STA_DISCONNECTED", "is_assoc_leave", "park", "LEFT")
    /\ wr_rows[4] = Row("CONNECTING", "STA_DISCONNECTED", "escalate_allowed", "note", "ESCALATE_REBOOT")
    /\ wr_rows[5] = Row("CONNECTING", "STA_DISCONNECTED", "escalate_denied", "denied", "BACKOFF")
    /\ wr_rows[6] = Row("CONNECTING", "STA_DISCONNECTED", "reconnect_now", "reconnect_now", "SAME")
    /\ wr_rows[7] = Row("CONNECTING", "STA_DISCONNECTED", "none", "backoff", "BACKOFF")
    /\ wr_rows[8] = Row("CONNECTING", "CONNECTING_TIMEOUT", "escalate_allowed", "note", "ESCALATE_REBOOT")
    /\ wr_rows[9] = Row("CONNECTING", "CONNECTING_TIMEOUT", "escalate_denied", "denied", "BACKOFF")
    /\ wr_rows[10] = Row("CONNECTING", "CONNECTING_TIMEOUT", "none", "timeout_reattempt", "SAME")
    /\ wr_rows[11] = Row("CONNECTED", "STA_DISCONNECTED", "is_assoc_leave", "park", "LEFT")
    /\ wr_rows[12] = Row("CONNECTED", "STA_DISCONNECTED", "reconnect_now", "reconnect_now", "CONNECTING")
    /\ wr_rows[13] = Row("CONNECTED", "STA_DISCONNECTED", "none", "backoff", "BACKOFF")
    /\ wr_rows[14] = Row("BACKOFF", "BACKOFF_TIMEOUT", "none", "backoff_elapsed", "CONNECTING")
    /\ wr_rows[15] = Row("BACKOFF", "STA_DISCONNECTED", "none", "nothing", "SAME")
    /\ wr_rows[16] = Row("LEFT", "RECONNECT_REQUESTED", "none", "reset_state", "CONNECTING")
  BY DEF wr_rows

(* Every row's guard is one of the guards.                                 *)
LEMMA RowGuards == \A i \in 1 .. 16 : wr_rows[i].guard \in Guards
  BY RowTable DEF Row, Guards

(* Counting a failure keeps the policy state well typed.                   *)
LEMMA CountedType ==
  ASSUME NEW p \in Policies, NEW r
  PROVE  /\ Counted(p, r) \in Policies
         /\ \A f \in {"none", "fresh", "old"} :
                /\ [Counted(p, r) EXCEPT !.first = f] \in Policies
                /\ compute_backoff_ms([Counted(p, r) EXCEPT !.first = f], r)
                      = compute_backoff_ms(Counted(p, r), r)
                /\ [Counted(p, r) EXCEPT !.first = f].first = f
<1> DEFINE q == Counted(p, r)
<1>1. HandshakeCap \in Nat /\ SlowTier1 + 1 \in Nat /\ GenericFast + 1 \in Nat
  BY LimitsAssumption DEF HandshakeCap
<1>2. \A n, cap \in Nat : Saturating(n, cap) \in Nat
  BY DEF Saturating
<1>3. q \in Policies
  <2>1. CASE r = "HANDSHAKE"
    BY <2>1, <1>1, <1>2 DEF Counted, Policies
  <2>2. CASE r = "SLOW"
    BY <2>2, <1>1, <1>2 DEF Counted, Policies
  <2>3. CASE r # "HANDSHAKE" /\ r # "SLOW"
    BY <2>3, <1>1, <1>2 DEF Counted, Policies
  <2> QED BY <2>1, <2>2, <2>3
<1> HIDE DEF q
<1>4. ASSUME NEW f \in {"none", "fresh", "old"}
      PROVE  /\ [q EXCEPT !.first = f] \in Policies
             /\ compute_backoff_ms([q EXCEPT !.first = f], r) = compute_backoff_ms(q, r)
             /\ [q EXCEPT !.first = f].first = f
  BY <1>3 DEF Policies, compute_backoff_ms
<1> QED BY <1>3, <1>4 DEF q

(* A non-zero delay arms the entered state's timer.                        *)
LEMMA EntryTimers ==
  /\ \A ms : EntryTimer("CONNECTING", ms).event = "CONNECTING_TIMEOUT"
  /\ \A ms : ms # 0 => EntryTimer("BACKOFF", ms).event = "BACKOFF_TIMEOUT"
BY DelaysAssumption DEF EntryTimer, ArmTimer, NoTimer, Armed

(* What one FSM step does to the facts of TInv: one case per row.          *)
LEMMA FsmStepTInv ==
  ASSUME TInv, NEW e, FsmStep(e)
  PROVE  TInv'
<1> PICK allowed \in BOOLEAN, cross \in Crossings :
      \/ \E i \in 1 .. Len(wr_rows) :
            /\ FirstMatch(wr_rows, i, current, e.event,
                          {g \in Guards : GuardHolds(g, e.reason, allowed, cross)})
            /\ TakeRow(wr_rows[i], e, cross)
      \/ /\ task' = "wait"
         /\ UNCHANGED <<current, timer, ctxVars, self_disconnect, link,
                        cause, parkedBySelf>>
  BY DEF FsmStep
<1>1. CASE /\ task' = "wait"
           /\ UNCHANGED <<current, timer, ctxVars, self_disconnect, link,
                          cause, parkedBySelf>>
  BY <1>1 DEF TInv, TimedWhileRetrying, ctxVars
<1>2. ASSUME NEW i \in 1 .. 16,
             FirstMatch(wr_rows, i, current, e.event,
                        {g \in Guards : GuardHolds(g, e.reason, allowed, cross)}),
             TakeRow(wr_rows[i], e, cross)
      PROVE  TInv'
  <2> DEFINE row == wr_rows[i]
             pol == PolicyAfter(e.reason, cross)
  <2>1. /\ row.state = current /\ row.event = e.event
        /\ GuardHolds(row.guard, e.reason, allowed, cross)
        /\ \A j \in 1 .. (i - 1) :
             ~(/\ wr_rows[j].state = current /\ wr_rows[j].event = e.event
               /\ GuardHolds(wr_rows[j].guard, e.reason, allowed, cross))
    <3> DEFINE holding == {g \in Guards : GuardHolds(g, e.reason, allowed, cross)}
    <3>1. /\ RowMatches(wr_rows[i], current, e.event, holding)
          /\ \A j \in 1 .. (i - 1) : ~RowMatches(wr_rows[j], current, e.event, holding)
      BY <1>2 DEF FirstMatch
    <3>2. \A j \in 1 .. 16 :
            wr_rows[j].guard \in holding <=> GuardHolds(wr_rows[j].guard, e.reason, allowed, cross)
      BY RowGuards, Zenon
    <3>3. \A j \in 1 .. (i - 1) : j \in 1 .. 16
      OBVIOUS
    <3> HIDE DEF holding
    <3> QED BY <3>1, <3>2, <3>3 DEF RowMatches
  <2>2. /\ policy' = ActionPolicy(row.action, e.reason, cross)
        /\ pending_backoff_ms' = ActionPendingMs(row.action, e.reason, cross)
        /\ current' = NextState(row, current)
        /\ timer' = NextTimer(row, ActionTimer(row.action),
                              EntryTimer(row.next, pending_backoff_ms'))
        /\ cause' = CauseAfter(row.action, e.reason, cross)
        /\ task' = IF row.action = "timeout_reattempt" THEN "disconnect" ELSE "wait"
    BY <1>2 DEF TakeRow
  <2>3. policy \in Policies /\ TimedWhileRetrying
        /\ (current = "CONNECTED" => policy.first = "none")
    BY DEF TInv
  <2>4. /\ pol \in Policies
        /\ compute_backoff_ms(pol, e.reason)
             = compute_backoff_ms(PeekedPolicy(e.reason), e.reason)
    BY <2>3, CountedType DEF PolicyAfter, PeekedPolicy
  <2>5. state_reset \in Policies /\ state_reset.first = "none"
    BY DEF state_reset, Policies
  <2>6. policy' \in Policies
    BY <2>2, <2>3, <2>4, <2>5 DEF ActionPolicy, policy_on_got_ip
  <2> HIDE DEF pol
  <2>7. PauseMs # 0
    BY DelaysAssumption
  <2>10. CASE i \in {1, 12, 14, 16}
    <3>1. row.next = "CONNECTING" /\ row.action # "timeout_reattempt"
      BY <2>10, RowTable DEF Row
    <3>2. current' = "CONNECTING" /\ timer'.event = "CONNECTING_TIMEOUT" /\ task' = "wait"
      BY <3>1, <2>2, EntryTimers DEF NextState, NextTimer, StateSame
    <3> QED BY <3>2, <2>6 DEF TInv, TimedWhileRetrying
  <2>11. CASE i = 2
    <3>1. row.next = "CONNECTED" /\ row.action = "on_got_ip"
      BY <2>11, RowTable DEF Row
    <3>2. current' = "CONNECTED" /\ policy' = state_reset /\ task' = "wait"
      BY <3>1, <2>2 DEF NextState, StateSame, ActionPolicy, CountsFailure, policy_on_got_ip
    <3> QED BY <3>2, <2>5, <2>6 DEF TInv, TimedWhileRetrying
  <2>12. CASE i \in {3, 4, 8, 11}
    <3>1. row.next \in {"LEFT", "ESCALATE_REBOOT"} /\ row.action \in {"park", "note"}
      BY <2>12, RowTable DEF Row
    <3>2. current' \in {"LEFT", "ESCALATE_REBOOT"} /\ task' = "wait"
      BY <3>1, <2>2 DEF NextState, StateSame
    <3> QED BY <3>2, <2>6 DEF TInv, TimedWhileRetrying
  <2>13. CASE i \in {5, 9}
    <3>1. row.next = "BACKOFF" /\ row.action = "denied"
      BY <2>13, RowTable DEF Row
    <3>2. pending_backoff_ms' = PauseMs
      BY <3>1, <2>2 DEF ActionPendingMs
    <3>3. current' = "BACKOFF" /\ timer'.event = "BACKOFF_TIMEOUT" /\ task' = "wait"
      BY <3>1, <3>2, <2>2, <2>7, EntryTimers DEF NextState, NextTimer, StateSame
    <3> QED BY <3>3, <2>6 DEF TInv, TimedWhileRetrying
  <2>14. CASE i \in {6, 10}
    <3>1. /\ row.next = "SAME" /\ row.state = "CONNECTING"
          /\ row.action \in {"reconnect_now", "timeout_reattempt"}
      BY <2>14, RowTable DEF Row
    <3>2. current = "CONNECTING" /\ timer.event = "CONNECTING_TIMEOUT"
      BY <3>1, <2>1, <2>3 DEF TimedWhileRetrying
    <3>3. ActionTimer(row.action).event = "CONNECTING_TIMEOUT"
      BY <3>2, DelaysAssumption DEF ActionTimer, ArmTimer, Armed
    <3>4. current' = "CONNECTING" /\ timer'.event = "CONNECTING_TIMEOUT"
      BY <3>1, <3>2, <3>3, <2>2 DEF NextState, NextTimer, StateSame
    <3> QED BY <3>4, <2>6 DEF TInv, TimedWhileRetrying
  <2>15. CASE i = 7
    <3>1. row.next = "BACKOFF" /\ row.action = "backoff" /\ row.state = "CONNECTING"
          /\ row.event = "STA_DISCONNECTED"
      BY <2>15, RowTable DEF Row
    <3>2. /\ ~GuardHolds("escalate_denied", e.reason, allowed, cross)
          /\ ~GuardHolds("reconnect_now", e.reason, allowed, cross)
      <4>1. 5 \in 1 .. (i - 1) /\ 6 \in 1 .. (i - 1)
        BY <2>15
      <4>2. /\ wr_rows[5].state = "CONNECTING" /\ wr_rows[5].event = "STA_DISCONNECTED"
            /\ wr_rows[6].state = "CONNECTING" /\ wr_rows[6].event = "STA_DISCONNECTED"
            /\ wr_rows[5].guard = "escalate_denied" /\ wr_rows[6].guard = "reconnect_now"
        BY RowTable DEF Row
      <4> QED BY <4>1, <4>2, <3>1, <2>1
    <3>3. policy.first # "old"
      BY <3>2 DEF GuardHolds, WindowPassed
    <3>4. compute_backoff_ms(pol, e.reason) # 0
      BY <3>2, <2>4 DEF GuardHolds
    <3>5. current' = "BACKOFF" /\ task' = "wait"
          /\ timer' = EntryTimer("BACKOFF", pending_backoff_ms')
      BY <3>1, <2>2 DEF NextState, NextTimer, StateSame
    <3>6. CASE WindowPassed(3, cross)
      <4>1. policy.first = "fresh"
        BY <3>3, <3>6 DEF WindowPassed
      <4>2. cause' = cause \cup {"windowCrossed"}
        BY <3>1, <3>6, <4>1, <2>2 DEF CauseAfter
      <4> QED BY <4>2, <3>5, <2>6 DEF TInv, TimedWhileRetrying
    <3>7. CASE ~WindowPassed(3, cross)
      <4>1. pending_backoff_ms' # 0
        BY <3>1, <3>4, <3>7, <2>2 DEF ActionPendingMs, PolicyDelay, pol
      <4>2. timer'.event = "BACKOFF_TIMEOUT"
        BY <4>1, <3>5, EntryTimers
      <4> QED BY <4>2, <3>5, <2>6 DEF TInv, TimedWhileRetrying
    <3> QED BY <3>6, <3>7
  <2>16. CASE i = 13
    <3>1. row.next = "BACKOFF" /\ row.action = "backoff" /\ row.state = "CONNECTED"
          /\ row.event = "STA_DISCONNECTED"
      BY <2>16, RowTable DEF Row
    <3>2. ~GuardHolds("reconnect_now", e.reason, allowed, cross)
      <4>1. 12 \in 1 .. (i - 1)
        BY <2>16
      <4>2. /\ wr_rows[12].state = "CONNECTED" /\ wr_rows[12].event = "STA_DISCONNECTED"
            /\ wr_rows[12].guard = "reconnect_now"
        BY RowTable DEF Row
      <4> QED BY <4>1, <4>2, <3>1, <2>1
    <3>3. ~WindowPassed(3, cross)
      BY <3>1, <2>1, <2>3 DEF WindowPassed
    <3>4. pending_backoff_ms' # 0
      BY <3>1, <3>2, <3>3, <2>2, <2>4
      DEF ActionPendingMs, PolicyDelay, GuardHolds, pol
    <3>5. current' = "BACKOFF" /\ task' = "wait" /\ timer'.event = "BACKOFF_TIMEOUT"
      BY <3>1, <3>4, <2>2, EntryTimers DEF NextState, NextTimer, StateSame
    <3> QED BY <3>5, <2>6 DEF TInv, TimedWhileRetrying
  <2>17. CASE i = 15
    <3>1. row.next = "SAME" /\ row.action = "nothing" /\ row.state = "BACKOFF"
      BY <2>17, RowTable DEF Row
    <3>2. current' = current /\ timer' = timer /\ cause' = cause /\ policy' = policy
          /\ task' = "wait"
      BY <3>1, <2>2
      DEF NextState, NextTimer, StateSame, ActionTimer, CauseAfter, ActionPolicy, CountsFailure
    <3> QED BY <3>2, <2>3, <2>6 DEF TInv, TimedWhileRetrying
  <2> QED
    BY <2>10, <2>11, <2>12, <2>13, <2>14, <2>15, <2>16, <2>17
<1> QED BY <1>1, <1>2, RowTable

(* TInv holds initially.                                                   *)
LEMMA InitTInv == Init => TInv
BY EntryTimers DEF Init, TInv, TimedWhileRetrying, state_reset, Policies, NoTimer

(* Every step preserves TInv.                                              *)
LEMMA NextTInv == TInv /\ [Next]_vars => TInv'
<1> SUFFICES ASSUME TInv, [Next]_vars PROVE TInv'
  OBVIOUS
<1>1. CASE Receive
  BY <1>1, FsmStepTInv DEF Receive
<1>2. CASE ExpireStep
  BY <1>2, FsmStepTInv DEF ExpireStep
<1>3. CASE ReattemptDisconnect
  BY <1>3 DEF ReattemptDisconnect, TInv, TimedWhileRetrying, ctxVars
<1>4. CASE ReattemptConnect
  <2>1. current = "CONNECTING" /\ timer.event = "CONNECTING_TIMEOUT"
    BY <1>4 DEF ReattemptConnect, TInv, TimedWhileRetrying
  <2>2. timer'.event = "CONNECTING_TIMEOUT" /\ current' = current
        /\ policy' = policy /\ task' = "wait"
    BY <1>4, <2>1, DelaysAssumption DEF ReattemptConnect, ArmTimer, Armed, ctxVars
  <2> QED BY <2>1, <2>2 DEF TInv, TimedWhileRetrying
<1>5. CASE PendingCommitted
  <2>1. current' = "CONNECTING" /\ timer'.event = "CONNECTING_TIMEOUT"
        /\ policy' = policy
    BY <1>5, EntryTimers DEF PendingCommitted, ctxVars
  <2> QED BY <2>1 DEF TInv, TimedWhileRetrying
<1>6. CASE Age
  <2>1. policy' \in Policies /\ current # "CONNECTED"
    BY <1>6 DEF Age, TInv, Policies
  <2> QED BY <1>6, <2>1 DEF Age, TInv, TimedWhileRetrying
<1>7. CASE Expire
  BY <1>7 DEF Expire, TInv, TimedWhileRetrying, ctxVars
<1>8. ASSUME \/ Handle \/ AbsorbRead \/ AbsorbClear \/ CredsArrived \/ StaStart
             \/ PendingReverted \/ LinkLost \/ LinkUp \/ LinkStalls \/ UNCHANGED vars
      PROVE  TInv'
  <2>1. UNCHANGED <<current, timer, policy, task>> /\ cause \subseteq cause'
    BY <1>8
    DEF Handle, AbsorbRead, AbsorbClear, CredsArrived, StaStart, PendingReverted,
        LinkLost, LinkUp, LinkStalls, Post, Dropped, vars, ctxVars
  <2> QED BY <2>1 DEF TInv, TimedWhileRetrying
<1> QED
  BY <1>1, <1>2, <1>3, <1>4, <1>5, <1>6, <1>7, <1>8
  DEF Next, Task, Handler, Boot, Driver

(* A retrying manager always has a timer (or met the one known exception), *)
(* for every Kconfig choice of limits and delays and every queue length.   *)
THEOREM TimedWhileRetryingHolds == Spec => []TimedWhileRetrying
<1>1. TInv => TimedWhileRetrying
  BY DEF TInv
<1> QED
  BY InitTInv, NextTInv, <1>1, PTL DEF Spec

-----------------------------------------------------------------------------
(* What travels through the event loop and the manager's queue.            *)
Msgs == [event : {"STA_DISCONNECTED", "GOT_IP", "CREDS_ARRIVED"}, reason : Reasons,
         self : BOOLEAN]
IsDisc(m) == m.event = "STA_DISCONNECTED"
FromLink(m) == IsDisc(m) /\ ~m.self

MsgInv ==
    /\ evq \in Seq(Msgs) /\ s_queue \in Seq(Msgs)
    /\ \A i \in 1 .. Len(evq) : evq[i].self => IsDisc(evq[i])
    /\ \A i \in 1 .. Len(s_queue) : ~s_queue[i].self
    /\ timer.event \in {"none", "CONNECTING_TIMEOUT", "BACKOFF_TIMEOUT"}
    /\ self_disconnect \in BOOLEAN

(* Who may be where: the watchdog runs only on a started station, and      *)
(* nothing runs before the manager is seeded.                              *)
PhaseInv ==
    /\ task # "wait" => boot = "run" /\ seeded
    /\ boot \in {"try", "trying", "gotip"} => ~seeded
    /\ ~seeded => current = "UNSEEDED" /\ s_queue = << >>
    /\ current = "NO_CREDS" => timer = NoTimer /\ task = "wait"
    /\ absorbing => seeded /\ evq # << >> /\ IsDisc(Head(evq))

(* The manager's own disconnect is the first in the event loop's queue and *)
(* the flag is set for it.  From the watchdog's expiry to disconnect_fn no *)
(* such event is under way, and a disconnect under way leaves disconnect_fn*)
(* nothing to tear down.                                                   *)
SelfInv ==
    /\ \A i \in 1 .. Len(evq) : evq[i].self =>
          /\ self_disconnect /\ seeded /\ current # "NO_CREDS"
          /\ \A j \in 1 .. Len(evq) : IsDisc(evq[j]) => i <= j
    /\ task \in {"expired", "disconnect"} =>
          \A i \in 1 .. Len(evq) : ~evq[i].self /\ (IsDisc(evq[i]) => link = "down")
    /\ task = "disconnect" => self_disconnect \/ link = "down"
    /\ ~parkedBySelf

(* As long as nothing was lost, who believes in the link, or is about to,  *)
(* will be told of its end.                                                *)
Lost == cause \cap {"lostDisconnect", "staleGotIp"} # {}
Told(q, i) == \E j \in 1 .. Len(q) : i < j /\ FromLink(q[j])
ToldInv ==
    Lost \/ link = "up" \/
        /\ current = "CONNECTED" => Told(s_queue, 0) \/ Told(evq, 0)
        /\ \A i \in 1 .. Len(s_queue) : s_queue[i].event = "GOT_IP" =>
              Told(s_queue, i) \/ Told(evq, 0)
        /\ \A i \in 1 .. Len(evq) : evq[i].event = "GOT_IP" => Told(evq, i)

QInv == TInv /\ MsgInv /\ PhaseInv /\ SelfInv /\ ToldInv

(* Queues of messages: what append and removing the head do, by position.  *)
LEMMA AppendFacts ==
  ASSUME NEW q \in Seq(Msgs), NEW m \in Msgs
  PROVE  /\ Append(q, m) \in Seq(Msgs) /\ Len(q) \in Nat
         /\ Len(Append(q, m)) = Len(q) + 1 /\ Append(q, m)[Len(q) + 1] = m
         /\ \A i \in 1 .. Len(q) : Append(q, m)[i] = q[i]
  OBVIOUS

\* What taking the head off the event queue leaves.
LEMMA TailFacts ==
  ASSUME NEW q \in Seq(Msgs), q # << >>
  PROVE  /\ Tail(q) \in Seq(Msgs) /\ Len(q) \in Nat /\ Len(q) > 0
         /\ Head(q) = q[1] /\ Head(q) \in Msgs
         /\ Len(Tail(q)) = Len(q) - 1
         /\ \A i \in 1 .. (Len(q) - 1) : Tail(q)[i] = q[i + 1]
  OBVIOUS

(* What was told stays told when the queue grows, and when its head goes   *)
(* for whoever stood behind it.                                            *)
LEMMA ToldAppend ==
  ASSUME NEW q \in Seq(Msgs), NEW m \in Msgs, NEW i \in Nat
  PROVE  /\ Told(q, i) => Told(Append(q, m), i)
         /\ FromLink(m) /\ i <= Len(q) => Told(Append(q, m), i)
  BY AppendFacts DEF Told

\* Taking the head off the queue shifts what is told behind a position by one.
LEMMA ToldTail ==
  ASSUME NEW q \in Seq(Msgs), q # << >>, NEW i \in Nat
  PROVE  /\ Told(q, i + 1) => Told(Tail(q), i)
         /\ Told(q, i) /\ ~FromLink(Head(q)) => Told(Tail(q), i) \/ i > 0
         /\ Told(Tail(q), i) => Told(q, i + 1)
<1>1. ASSUME Told(q, i + 1) PROVE Told(Tail(q), i)
  <2>1. PICK j \in 1 .. Len(q) : i + 1 < j /\ FromLink(q[j])
    BY <1>1 DEF Told
  <2>2. j - 1 \in 1 .. (Len(q) - 1) /\ i < j - 1 /\ (j - 1) + 1 = j
    BY <2>1, TailFacts
  <2>3. Tail(q)[j - 1] = q[j] /\ j - 1 \in 1 .. Len(Tail(q))
    BY <2>2, TailFacts
  <2> QED  BY <2>1, <2>2, <2>3 DEF Told
<1>2. ASSUME Told(q, i), ~FromLink(Head(q)), i = 0 PROVE Told(Tail(q), i)
  <2>1. PICK j \in 1 .. Len(q) : i < j /\ FromLink(q[j])
    BY <1>2 DEF Told
  <2>2. j # 1
    BY <1>2, <2>1, TailFacts
  <2>3. Told(q, i + 1)
    BY <1>2, <2>1, <2>2 DEF Told
  <2> QED  BY <1>1, <2>3
<1>3. ASSUME Told(Tail(q), i) PROVE Told(q, i + 1)
  <2>1. PICK j \in 1 .. Len(Tail(q)) : i < j /\ FromLink(Tail(q)[j])
    BY <1>3 DEF Told
  <2>2. j + 1 \in 1 .. Len(q) /\ i + 1 < j + 1 /\ Tail(q)[j] = q[j + 1]
    BY <2>1, TailFacts
  <2> QED  BY <2>1, <2>2 DEF Told
<1> QED  BY <1>1, <1>2, <1>3

(* What the rows have in common.                                           *)
LEMMA RowShape ==
  \A i \in 1 .. 16 :
    /\ wr_rows[i].next # "NO_CREDS" /\ wr_rows[i].next # "UNSEEDED"
    /\ wr_rows[i].next = "CONNECTED" =>
          wr_rows[i].event = "GOT_IP" /\ wr_rows[i].action = "on_got_ip"
    /\ wr_rows[i].next = "SAME" => wr_rows[i].state \in {"CONNECTING", "BACKOFF"}
    /\ wr_rows[i].action = "creds_arrived_connect" =>
          wr_rows[i].state = "NO_CREDS" /\ wr_rows[i].event = "CREDS_ARRIVED"
    /\ wr_rows[i].action = "reset_state" => wr_rows[i].event = "RECONNECT_REQUESTED"
    /\ wr_rows[i].action = "timeout_reattempt" => wr_rows[i].event = "CONNECTING_TIMEOUT"
    /\ wr_rows[i].state # "UNSEEDED"
  BY RowTable DEF Row

(* One bb_fsm_step, as far as the two queues and the flag are concerned.   *)
LEMMA FsmEffect ==
  ASSUME NEW e, FsmStep(e), e.event # "RECONNECT_REQUESTED", ~e.self, ~parkedBySelf,
         self_disconnect \in BOOLEAN,
         timer.event \in {"none", "CONNECTING_TIMEOUT", "BACKOFF_TIMEOUT"}
  PROVE  /\ ~parkedBySelf'
         /\ link' = link \/ (link = "down" /\ link' = "trying")
         /\ self_disconnect' \in BOOLEAN
         /\ ~self_disconnect' => ~self_disconnect \/
               (current = "NO_CREDS" /\ e.event = "CREDS_ARRIVED")
         /\ task' = "wait" \/ /\ task' = "disconnect" /\ self_disconnect'
                              /\ link' = link /\ e.event = "CONNECTING_TIMEOUT"
         /\ current' = "CONNECTED" =>
               /\ link' = link
               /\ \/ current = "CONNECTED" /\ e.event # "STA_DISCONNECTED"
                  \/ e.event = "GOT_IP"
         /\ current' = "NO_CREDS" => current = "NO_CREDS" /\ timer' = timer /\ task' = "wait"
         /\ timer'.event \in {"none", "CONNECTING_TIMEOUT", "BACKOFF_TIMEOUT"}
         /\ Lost' <=> Lost
<1> PICK allowed \in BOOLEAN, cross \in Crossings :
      LET holding == {g \in Guards : GuardHolds(g, e.reason, allowed, cross)}
      IN \/ \E i \in 1 .. Len(wr_rows) :
                /\ FirstMatch(wr_rows, i, current, e.event, holding)
                /\ TakeRow(wr_rows[i], e, cross)
         \/ /\ \A i \in 1 .. Len(wr_rows) :
                  ~RowMatches(wr_rows[i], current, e.event, holding)
            /\ task' = "wait"
            /\ UNCHANGED <<current, timer, ctxVars, self_disconnect, link,
                           cause, parkedBySelf>>
  BY DEF FsmStep
<1> DEFINE holding == {g \in Guards : GuardHolds(g, e.reason, allowed, cross)}
<1>1. "none" \in holding
  BY DEF Guards, GuardHolds
<1> HIDE DEF holding
<1>2. CASE /\ \A i \in 1 .. Len(wr_rows) : ~RowMatches(wr_rows[i], current, e.event, holding)
           /\ task' = "wait"
           /\ UNCHANGED <<current, timer, ctxVars, self_disconnect, link, cause, parkedBySelf>>
  <2>1. ~(current = "CONNECTED" /\ e.event = "STA_DISCONNECTED")
    <3>1. 13 \in 1 .. Len(wr_rows) /\ wr_rows[13].state = "CONNECTED"
          /\ wr_rows[13].event = "STA_DISCONNECTED" /\ wr_rows[13].guard = "none"
      BY RowTable DEF Row
    <3> QED  BY <1>1, <1>2, <3>1 DEF RowMatches
  <2> QED  BY <1>2, <2>1 DEF Lost
<1>3. ASSUME NEW i \in 1 .. 16, FirstMatch(wr_rows, i, current, e.event, holding),
             TakeRow(wr_rows[i], e, cross)
      PROVE  /\ ~parkedBySelf'
             /\ link' = link \/ (link = "down" /\ link' = "trying")
             /\ self_disconnect' \in BOOLEAN
             /\ ~self_disconnect' => ~self_disconnect \/
                   (current = "NO_CREDS" /\ e.event = "CREDS_ARRIVED")
             /\ task' = "wait" \/ /\ task' = "disconnect" /\ self_disconnect'
                                  /\ link' = link /\ e.event = "CONNECTING_TIMEOUT"
             /\ current' = "CONNECTED" => link' = link /\ e.event = "GOT_IP"
             /\ current' # "NO_CREDS"
             /\ timer'.event \in {"none", "CONNECTING_TIMEOUT", "BACKOFF_TIMEOUT"}
             /\ Lost' <=> Lost
  <2> DEFINE row == wr_rows[i]
  <2>1. row.state = current /\ row.event = e.event
    BY <1>3 DEF FirstMatch, RowMatches
  <2>2. /\ self_disconnect' = ActionFlag(row.action)
        /\ ActionDriver(row.action)
        /\ current' = NextState(row, current)
        /\ timer' = NextTimer(row, ActionTimer(row.action),
                              EntryTimer(row.next, pending_backoff_ms'))
        /\ cause' = CauseAfter(row.action, e.reason, cross)
        /\ parkedBySelf' = (parkedBySelf \/ (row.action = "park" /\ e.self))
        /\ task' = IF row.action = "timeout_reattempt" THEN "disconnect" ELSE "wait"
    BY <1>3 DEF TakeRow
  <2>3. /\ row.next # "NO_CREDS"
        /\ row.next = "CONNECTED" => row.event = "GOT_IP" /\ row.action = "on_got_ip"
        /\ row.next = "SAME" => row.state \in {"CONNECTING", "BACKOFF"}
        /\ row.action = "creds_arrived_connect" =>
              row.state = "NO_CREDS" /\ row.event = "CREDS_ARRIVED"
        /\ row.action # "reset_state"
        /\ row.action = "timeout_reattempt" => row.event = "CONNECTING_TIMEOUT"
    BY <2>1, RowShape
  <2> HIDE DEF row
  <2>4. ~parkedBySelf'
    BY <2>2
  <2>5. link' = link \/ (link = "down" /\ link' = "trying")
    BY <2>2 DEF ActionDriver, ConnectCall
  <2>6. row.action \in {"timeout_reattempt", "on_got_ip"} => link' = link
    BY <2>2 DEF ActionDriver
  <2>7. /\ self_disconnect' \in BOOLEAN
        /\ ~self_disconnect' => ~self_disconnect \/
              (current = "NO_CREDS" /\ e.event = "CREDS_ARRIVED")
        /\ row.action = "timeout_reattempt" => self_disconnect'
    BY <2>1, <2>2, <2>3 DEF ActionFlag
  <2>8. task' = "wait" \/ /\ task' = "disconnect" /\ self_disconnect'
                          /\ link' = link /\ e.event = "CONNECTING_TIMEOUT"
    BY <2>1, <2>2, <2>3, <2>6, <2>7
  <2>9. current' # "NO_CREDS" /\ (current' = "CONNECTED" => link' = link /\ e.event = "GOT_IP")
    BY <2>1, <2>2, <2>3, <2>6 DEF NextState, StateSame
  <2>10. timer'.event \in {"none", "CONNECTING_TIMEOUT", "BACKOFF_TIMEOUT"}
    <3>1. ActionTimer(row.action).event \in {"none", "CONNECTING_TIMEOUT", "BACKOFF_TIMEOUT"}
      BY DEF ActionTimer, ArmTimer, NoTimer
    <3>2. EntryTimer(row.next, pending_backoff_ms').event
             \in {"none", "CONNECTING_TIMEOUT", "BACKOFF_TIMEOUT"}
      BY DEF EntryTimer, ArmTimer, NoTimer
    <3> QED  BY <2>2, <3>1, <3>2 DEF NextTimer
  <2>11. Lost' <=> Lost
    BY <2>2 DEF Lost, CauseAfter
  <2> QED  BY <2>4, <2>5, <2>7, <2>8, <2>9, <2>10, <2>11
<1> QED  BY <1>2, <1>3, RowTable DEF holding

-----------------------------------------------------------------------------
(* QInv is kept, action by action: first the reconn task.                  *)
LEMMA ReceiveQInv ==
  ASSUME QInv, Receive PROVE MsgInv' /\ PhaseInv' /\ SelfInv' /\ ToldInv'
<1> DEFINE e == Head(s_queue)
<1>1. /\ task = "wait" /\ seeded /\ s_queue # << >> /\ s_queue' = Tail(s_queue) /\ FsmStep(e)
      /\ UNCHANGED <<seeded, absorbing, boot, evq>>
  BY DEF Receive, TaskRuns
<1>2. /\ evq \in Seq(Msgs) /\ s_queue \in Seq(Msgs) /\ self_disconnect \in BOOLEAN
      /\ \A i \in 1 .. Len(s_queue) : ~s_queue[i].self
      /\ timer.event \in {"none", "CONNECTING_TIMEOUT", "BACKOFF_TIMEOUT"}
  BY DEF QInv, MsgInv
<1>3. /\ s_queue' \in Seq(Msgs) /\ Len(s_queue) \in Nat /\ Len(s_queue) > 0 /\ e = s_queue[1]
      /\ e \in Msgs /\ Len(s_queue') = Len(s_queue) - 1
      /\ \A i \in 1 .. (Len(s_queue) - 1) : s_queue'[i] = s_queue[i + 1]
  BY <1>1, <1>2, TailFacts
<1>4. e.event \in {"STA_DISCONNECTED", "GOT_IP", "CREDS_ARRIVED"} /\ ~e.self /\ ~parkedBySelf
  BY <1>2, <1>3 DEF Msgs, QInv, SelfInv
<1> HIDE DEF e
<1>5. /\ ~parkedBySelf'
      /\ link' = link \/ (link = "down" /\ link' = "trying")
      /\ self_disconnect' \in BOOLEAN
      /\ ~self_disconnect' => ~self_disconnect \/
            (current = "NO_CREDS" /\ e.event = "CREDS_ARRIVED")
      /\ task' = "wait" \/ /\ task' = "disconnect" /\ self_disconnect'
                           /\ link' = link /\ e.event = "CONNECTING_TIMEOUT"
      /\ current' = "CONNECTED" =>
            /\ link' = link
            /\ \/ current = "CONNECTED" /\ e.event # "STA_DISCONNECTED"
               \/ e.event = "GOT_IP"
      /\ current' = "NO_CREDS" => current = "NO_CREDS" /\ timer' = timer /\ task' = "wait"
      /\ timer'.event \in {"none", "CONNECTING_TIMEOUT", "BACKOFF_TIMEOUT"}
      /\ Lost' <=> Lost
  BY <1>1, <1>2, <1>4, FsmEffect
<1>6. task' = "wait"
  BY <1>4, <1>5
<1>7. MsgInv'
  BY <1>1, <1>2, <1>3, <1>5 DEF QInv, MsgInv
<1>8. PhaseInv'
  BY <1>1, <1>5, <1>6 DEF QInv, PhaseInv
<1>9. SelfInv'
  BY <1>1, <1>5, <1>6 DEF QInv, SelfInv
<1>10. ToldInv'
  <2> SUFFICES ASSUME ~Lost', link' # "up" PROVE ToldInv'
    BY DEF ToldInv
  <2>1. /\ current = "CONNECTED" => Told(s_queue, 0) \/ Told(evq, 0)
        /\ \A i \in 1 .. Len(s_queue) : s_queue[i].event = "GOT_IP" =>
              Told(s_queue, i) \/ Told(evq, 0)
        /\ \A i \in 1 .. Len(evq) : evq[i].event = "GOT_IP" => Told(evq, i)
    BY <1>5 DEF QInv, ToldInv
  <2>2. \A i \in Nat : Told(s_queue, i + 1) => Told(s_queue', i)
    BY <1>1, <1>2, ToldTail
  <2>3. ~FromLink(e) /\ Told(s_queue, 0) => Told(s_queue', 0)
    BY <1>1, <1>2, ToldTail DEF e
  <2>4. current' = "CONNECTED" => Told(s_queue', 0) \/ Told(evq', 0)
    <3>1. CASE e.event = "GOT_IP"
      <4>1. Told(s_queue, 0 + 1) \/ Told(evq, 0)
        BY <1>3, <2>1, <3>1
      <4> QED  BY <1>1, <2>2, <4>1
    <3>2. CASE current = "CONNECTED" /\ e.event # "STA_DISCONNECTED"
      BY <1>1, <2>1, <2>3, <3>2 DEF FromLink, IsDisc
    <3> QED  BY <1>5, <3>1, <3>2
  <2>5. ASSUME NEW i \in 1 .. Len(s_queue'), s_queue'[i].event = "GOT_IP"
        PROVE  Told(s_queue', i) \/ Told(evq', 0)
    <3>1. i + 1 \in 1 .. Len(s_queue) /\ s_queue'[i] = s_queue[i + 1] /\ i \in Nat
      BY <1>3
    <3> QED  BY <1>1, <2>1, <2>2, <2>5, <3>1
  <2>6. \A i \in 1 .. Len(evq') : evq'[i].event = "GOT_IP" => Told(evq', i)
    BY <1>1, <2>1
  <2> QED  BY <2>4, <2>5, <2>6 DEF ToldInv
<1> QED  BY <1>7, <1>8, <1>9, <1>10

(* The watchdog's or the backoff's expiry steps the FSM.                   *)
LEMMA ExpireStepQInv ==
  ASSUME QInv, ExpireStep PROVE MsgInv' /\ PhaseInv' /\ SelfInv' /\ ToldInv'
<1>1. PICK e : e = Plain(timer.event)
  OBVIOUS
<1>2. /\ task = "expired" /\ FsmStep(e) /\ UNCHANGED <<s_queue, seeded, absorbing, boot, evq>>
  BY <1>1 DEF ExpireStep
<1>3. /\ self_disconnect \in BOOLEAN /\ ~parkedBySelf
      /\ timer.event \in {"none", "CONNECTING_TIMEOUT", "BACKOFF_TIMEOUT"}
  BY DEF QInv, MsgInv, SelfInv
<1>4. e.event \in {"none", "CONNECTING_TIMEOUT", "BACKOFF_TIMEOUT"} /\ ~e.self
  BY <1>1, <1>3 DEF Plain
<1>5. /\ ~parkedBySelf'
      /\ link' = link \/ (link = "down" /\ link' = "trying")
      /\ self_disconnect' \in BOOLEAN
      /\ ~self_disconnect' => ~self_disconnect \/
            (current = "NO_CREDS" /\ e.event = "CREDS_ARRIVED")
      /\ task' = "wait" \/ /\ task' = "disconnect" /\ self_disconnect'
                           /\ link' = link /\ e.event = "CONNECTING_TIMEOUT"
      /\ current' = "CONNECTED" =>
            /\ link' = link
            /\ \/ current = "CONNECTED" /\ e.event # "STA_DISCONNECTED"
               \/ e.event = "GOT_IP"
      /\ current' = "NO_CREDS" => current = "NO_CREDS" /\ timer' = timer /\ task' = "wait"
      /\ timer'.event \in {"none", "CONNECTING_TIMEOUT", "BACKOFF_TIMEOUT"}
      /\ Lost' <=> Lost
  BY <1>2, <1>3, <1>4, FsmEffect
<1>6. current # "NO_CREDS" /\ seeded /\ boot = "run"
  BY <1>2 DEF QInv, PhaseInv
<1>7. MsgInv'
  BY <1>2, <1>5 DEF QInv, MsgInv
<1>8. PhaseInv'
  BY <1>2, <1>5, <1>6 DEF QInv, PhaseInv
<1>9. SelfInv'
  BY <1>2, <1>5, <1>6 DEF QInv, SelfInv
<1>10. ToldInv'
  BY <1>2, <1>4, <1>5 DEF QInv, ToldInv
<1> QED  BY <1>7, <1>8, <1>9, <1>10

(* xQueueReceive times out, on an event loop that has nothing to handle.   *)
LEMMA ExpireQInv ==
  ASSUME QInv, Expire PROVE MsgInv' /\ PhaseInv' /\ SelfInv' /\ ToldInv'
<1>1. /\ seeded /\ boot = "run" /\ evq = << >> /\ Armed(timer) /\ task' = "expired"
      /\ UNCHANGED <<current, timer, self_disconnect, s_queue, seeded, absorbing, boot, link,
                     evq, cause, parkedBySelf>>
  BY DEF Expire, TaskRuns
<1>2. Len(evq) = 0
  BY <1>1
<1>3. current # "NO_CREDS"
  BY <1>1 DEF QInv, PhaseInv, Armed, NoTimer
<1>4. MsgInv'
  BY <1>1 DEF QInv, MsgInv
<1>5. PhaseInv'
  BY <1>1, <1>3 DEF QInv, PhaseInv
<1>6. SelfInv'
  BY <1>1, <1>2 DEF QInv, SelfInv
<1>7. ToldInv'
  BY <1>1 DEF QInv, ToldInv, Lost
<1> QED  BY <1>4, <1>5, <1>6, <1>7

(* disconnect_fn: what it posts is the first disconnect under way.         *)
LEMMA ReattemptDisconnectQInv ==
  ASSUME QInv, ReattemptDisconnect PROVE MsgInv' /\ PhaseInv' /\ SelfInv' /\ ToldInv'
<1> DEFINE m == Disconnected("LEAVE", TRUE)
<1>1. /\ task = "disconnect" /\ task' = "connect" /\ link' = "down"
      /\ evq' = IF link = "down" THEN evq ELSE Append(evq, m)
      /\ cause' = IF GotIpPending THEN cause \cup {"staleGotIp"} ELSE cause
      /\ UNCHANGED <<current, timer, self_disconnect, s_queue, seeded, absorbing, boot,
                     parkedBySelf>>
  BY DEF ReattemptDisconnect, DisconnectCall
<1>2. m \in Msgs /\ m.self /\ IsDisc(m) /\ m.event # "GOT_IP"
  BY DEF Disconnected, Msgs, Reasons, IsDisc
<1> HIDE DEF m
<1>3. /\ seeded /\ boot = "run" /\ current = "CONNECTING"
      /\ self_disconnect \/ link = "down"
      /\ \A i \in 1 .. Len(evq) : ~evq[i].self /\ (IsDisc(evq[i]) => link = "down")
  BY <1>1 DEF QInv, TInv, PhaseInv, SelfInv
<1>4. evq \in Seq(Msgs) /\ Len(evq) \in Nat
  BY DEF QInv, MsgInv
<1>5. link # "down" =>
        /\ evq' \in Seq(Msgs) /\ Len(evq') = Len(evq) + 1 /\ evq'[Len(evq) + 1] = m
        /\ \A i \in 1 .. Len(evq) : evq'[i] = evq[i]
  BY <1>1, <1>2, <1>4, AppendFacts
<1>6. link # "down" => ~absorbing
  <2>1. absorbing => 1 \in 1 .. Len(evq) /\ IsDisc(evq[1])
    BY <1>4, TailFacts DEF QInv, PhaseInv
  <2> QED  BY <1>3, <2>1
<1>7. MsgInv'
  <2>1. CASE link = "down"
    BY <1>1, <2>1 DEF QInv, MsgInv
  <2>2. CASE link # "down"
    <3>1. \A i \in 1 .. Len(evq') : i \in 1 .. Len(evq) \/ i = Len(evq) + 1
      BY <1>4, <1>5, <2>2
    <3> QED  BY <1>1, <1>2, <1>3, <1>5, <2>2, <3>1 DEF QInv, MsgInv
  <2> QED  BY <2>1, <2>2
<1>8. PhaseInv'
  BY <1>1, <1>3, <1>6 DEF QInv, PhaseInv
<1>9. SelfInv'
  <2>1. CASE link = "down"
    BY <1>1, <1>3, <2>1 DEF QInv, SelfInv
  <2>2. CASE link # "down"
    <3>1. \A i \in 1 .. Len(evq') : i = Len(evq) + 1 \/
              (i \in 1 .. Len(evq) /\ ~evq'[i].self /\ ~IsDisc(evq'[i]))
      BY <1>3, <1>4, <1>5, <2>2
    <3>2. \A i \in 1 .. Len(evq') : evq'[i].self =>
              \A j \in 1 .. Len(evq') : IsDisc(evq'[j]) => i <= j
      BY <1>4, <3>1
    <3> QED  BY <1>1, <1>3, <2>2, <3>2 DEF QInv, SelfInv
  <2> QED  BY <2>1, <2>2
<1>10. ToldInv'
  <2> SUFFICES ASSUME ~Lost' PROVE ToldInv'
    BY DEF ToldInv
  <2>1. ~GotIpPending
    BY <1>1 DEF Lost
  <2>2. /\ \A i \in 1 .. Len(evq) : evq[i].event # "GOT_IP"
        /\ \A i \in 1 .. Len(s_queue) : s_queue[i].event # "GOT_IP"
    BY <2>1 DEF GotIpPending
  <2>3. \A i \in 1 .. Len(evq') : evq'[i].event # "GOT_IP"
    <3>1. CASE link = "down"
      BY <1>1, <2>2, <3>1
    <3>2. CASE link # "down"
      <4>1. \A i \in 1 .. Len(evq') : i \in 1 .. Len(evq) \/ i = Len(evq) + 1
        BY <1>4, <1>5, <3>2
      <4> QED  BY <1>2, <1>5, <2>2, <3>2, <4>1
    <3> QED  BY <3>1, <3>2
  <2> QED  BY <1>1, <1>3, <2>2, <2>3 DEF ToldInv
<1> QED  BY <1>7, <1>8, <1>9, <1>10

(* connect_fn and the re-armed watchdog.                                   *)
LEMMA ReattemptConnectQInv ==
  ASSUME QInv, ReattemptConnect PROVE MsgInv' /\ PhaseInv' /\ SelfInv' /\ ToldInv'
<1>1. /\ task = "connect" /\ task' = "wait"
      /\ link' = link \/ (link = "down" /\ link' = "trying")
      /\ timer' = ArmTimer(timer, "CONNECTING_TIMEOUT", ConnectingMs)
      /\ UNCHANGED <<current, self_disconnect, s_queue, seeded, absorbing, boot, evq, cause,
                     parkedBySelf>>
  BY DEF ReattemptConnect, ConnectCall
<1>2. current = "CONNECTING"
  BY <1>1 DEF QInv, TInv
<1>3. timer'.event \in {"none", "CONNECTING_TIMEOUT", "BACKOFF_TIMEOUT"}
  BY <1>1 DEF ArmTimer, NoTimer, QInv, MsgInv
<1>4. MsgInv'
  BY <1>1, <1>3 DEF QInv, MsgInv
<1>5. PhaseInv'
  BY <1>1, <1>2 DEF QInv, PhaseInv
<1>6. SelfInv'
  BY <1>1 DEF QInv, SelfInv
<1>7. ToldInv'
  BY <1>1, <1>2 DEF QInv, ToldInv, Lost
<1> QED  BY <1>4, <1>5, <1>6, <1>7

-----------------------------------------------------------------------------
(* The event-loop task.                                                    *)
LEMMA HandleQInv ==
  ASSUME QInv, Handle PROVE MsgInv' /\ PhaseInv' /\ SelfInv' /\ ToldInv'
<1> DEFINE m == Head(evq)
           room == seeded /\ Len(s_queue) < QueueLen
<1>1. /\ evq # << >> /\ ~absorbing
      /\ ~(seeded /\ self_disconnect /\ IsDisc(m))
      /\ evq' = Tail(evq)
      /\ room => s_queue' = Append(s_queue, m)
      /\ ~room => s_queue' = s_queue
      /\ cause' = IF IsDisc(m) /\ ~room THEN cause \cup {"lostDisconnect"} ELSE cause
      /\ boot' = boot \/ (boot = "trying" /\ boot' = "gotip")
      /\ UNCHANGED <<current, timer, self_disconnect, seeded, task, absorbing, link,
                     parkedBySelf>>
  BY DEF Handle, Enqueue, Dropped, IsDisc
<1>2. /\ evq \in Seq(Msgs) /\ s_queue \in Seq(Msgs) /\ Len(s_queue) \in Nat
      /\ \A i \in 1 .. Len(evq) : evq[i].self => IsDisc(evq[i])
      /\ \A i \in 1 .. Len(s_queue) : ~s_queue[i].self
  BY DEF QInv, MsgInv
<1>3. /\ evq' \in Seq(Msgs) /\ Len(evq) \in Nat /\ Len(evq) > 0 /\ m = evq[1] /\ m \in Msgs
      /\ Len(evq') = Len(evq) - 1
      /\ \A i \in 1 .. (Len(evq) - 1) : evq'[i] = evq[i + 1]
  BY <1>1, <1>2, TailFacts
<1>4. \A i \in 1 .. Len(evq') : i + 1 \in 1 .. Len(evq) /\ evq'[i] = evq[i + 1] /\ i \in Nat
  BY <1>3
<1>5. ~m.self
  BY <1>1, <1>2, <1>3 DEF QInv, SelfInv
<1>6. \A i \in Nat : Told(evq, i + 1) => Told(evq', i)
  BY <1>1, <1>2, ToldTail
<1>7. ~FromLink(m) /\ Told(evq, 0) => Told(evq', 0)
  BY <1>1, <1>2, ToldTail
<1> HIDE DEF m, room
<1>8. room => /\ s_queue' \in Seq(Msgs) /\ Len(s_queue') = Len(s_queue) + 1
              /\ s_queue'[Len(s_queue) + 1] = m
              /\ \A i \in 1 .. Len(s_queue) : s_queue'[i] = s_queue[i]
  <2>1. m \in Msgs /\ s_queue \in Seq(Msgs) /\ (room => s_queue' = Append(s_queue, m))
    BY <1>1, <1>2, <1>3
  <2> QED  BY <2>1, AppendFacts
<1>9. MsgInv'
  <2>1. \A i \in 1 .. Len(evq') : evq'[i].self => IsDisc(evq'[i])
    BY <1>2, <1>4
  <2>2. s_queue' \in Seq(Msgs) /\ \A i \in 1 .. Len(s_queue') : ~s_queue'[i].self
    <3>1. CASE ~room
      BY <1>1, <1>2, <3>1
    <3>2. CASE room
      <4>1. \A i \in 1 .. Len(s_queue') : i \in 1 .. Len(s_queue) \/ i = Len(s_queue) + 1
        BY <1>2, <1>8, <3>2
      <4> QED  BY <1>2, <1>5, <1>8, <3>2, <4>1
    <3> QED  BY <3>1, <3>2
  <2> QED  BY <1>1, <1>3, <2>1, <2>2 DEF QInv, MsgInv
<1>10. PhaseInv'
  <2>1. ~seeded => s_queue' = s_queue
    BY <1>1 DEF room
  <2> QED  BY <1>1, <2>1 DEF QInv, PhaseInv
<1>11. SelfInv'
  <2>1. ASSUME NEW i \in 1 .. Len(evq'), evq'[i].self
        PROVE  /\ self_disconnect /\ seeded /\ current # "NO_CREDS"
               /\ \A j \in 1 .. Len(evq') : IsDisc(evq'[j]) => i <= j
    <3>1. evq[i + 1].self /\ i + 1 \in 1 .. Len(evq)
      BY <1>4, <2>1
    <3>2. /\ self_disconnect /\ seeded /\ current # "NO_CREDS"
          /\ \A j \in 1 .. Len(evq) : IsDisc(evq[j]) => i + 1 <= j
      BY <3>1 DEF QInv, SelfInv
    <3> QED  BY <1>3, <1>4, <3>2
  <2>2. task \in {"expired", "disconnect"} =>
          \A i \in 1 .. Len(evq') : ~evq'[i].self /\ (IsDisc(evq'[i]) => link = "down")
    BY <1>4 DEF QInv, SelfInv
  <2> QED  BY <1>1, <2>1, <2>2 DEF QInv, SelfInv
<1>12. ToldInv'
  <2> SUFFICES ASSUME ~Lost', link' # "up" PROVE ToldInv'
    BY DEF ToldInv
  <2>1. ~Lost /\ (IsDisc(m) => room)
    BY <1>1 DEF Lost
  <2>2. /\ current = "CONNECTED" => Told(s_queue, 0) \/ Told(evq, 0)
        /\ \A i \in 1 .. Len(s_queue) : s_queue[i].event = "GOT_IP" =>
              Told(s_queue, i) \/ Told(evq, 0)
        /\ \A i \in 1 .. Len(evq) : evq[i].event = "GOT_IP" => Told(evq, i)
    BY <1>1, <2>1 DEF QInv, ToldInv
  <2>3. \A i \in 0 .. Len(s_queue) : Told(s_queue, i) \/ Told(evq, 0) =>
            Told(s_queue', i) \/ Told(evq', 0)
    <3>1. CASE ~room
      BY <1>1, <1>7, <2>1, <3>1 DEF FromLink
    <3>2. CASE room
      <4>0. m \in Msgs /\ s_queue \in Seq(Msgs) /\ s_queue' = Append(s_queue, m)
        BY <1>1, <1>2, <1>3, <3>2
      <4>1. \A i \in 0 .. Len(s_queue) : Told(s_queue, i) => Told(s_queue', i)
        BY <4>0, ToldAppend
      <4>2. \A i \in 0 .. Len(s_queue) : FromLink(m) => Told(s_queue', i)
        BY <4>0, ToldAppend
      <4> QED  BY <1>7, <4>1, <4>2
    <3> QED  BY <3>1, <3>2
  <2>4. current' = "CONNECTED" => Told(s_queue', 0) \/ Told(evq', 0)
    BY <1>1, <1>2, <2>2, <2>3
  <2>5. ASSUME NEW i \in 1 .. Len(s_queue'), s_queue'[i].event = "GOT_IP"
        PROVE  Told(s_queue', i) \/ Told(evq', 0)
    <3>1. CASE i \in 1 .. Len(s_queue)
      <4>1. s_queue'[i] = s_queue[i] /\ i \in 0 .. Len(s_queue)
        BY <1>1, <1>8, <3>1
      <4> QED  BY <2>2, <2>3, <2>5, <3>1, <4>1
    <3>2. CASE i \notin 1 .. Len(s_queue)
      <4>1. s_queue'[i] = m
        BY <1>1, <1>2, <1>8, <3>2
      <4>2. Told(evq, 0 + 1)
        BY <1>3, <2>2, <2>5, <4>1
      <4> QED  BY <1>6, <4>2
    <3> QED  BY <3>1, <3>2
  <2>6. ASSUME NEW i \in 1 .. Len(evq'), evq'[i].event = "GOT_IP" PROVE Told(evq', i)
    BY <1>4, <1>6, <2>2, <2>6
  <2> QED  BY <2>4, <2>5, <2>6 DEF ToldInv
<1> QED  BY <1>9, <1>10, <1>11, <1>12

(* wifi_reconn_on_disconnect reads the flag.                               *)
LEMMA AbsorbReadQInv ==
  ASSUME QInv, AbsorbRead PROVE MsgInv' /\ PhaseInv' /\ SelfInv' /\ ToldInv'
<1>1. /\ evq # << >> /\ seeded /\ IsDisc(Head(evq)) /\ absorbing' = TRUE
      /\ UNCHANGED <<current, timer, self_disconnect, s_queue, seeded, task, boot, link, evq,
                     cause, parkedBySelf>>
  BY DEF AbsorbRead, IsDisc
<1>2. MsgInv' /\ PhaseInv'
  BY <1>1 DEF QInv, MsgInv, PhaseInv
<1>3. SelfInv' /\ ToldInv'
  BY <1>1 DEF QInv, SelfInv, ToldInv, Lost
<1> QED  BY <1>2, <1>3

(* ... and clears it: the event it drops is the only one of its own.       *)
LEMMA AbsorbClearQInv ==
  ASSUME QInv, AbsorbClear PROVE MsgInv' /\ PhaseInv' /\ SelfInv' /\ ToldInv'
<1> DEFINE m == Head(evq)
<1>1. /\ absorbing /\ absorbing' = FALSE /\ self_disconnect' = FALSE /\ evq' = Tail(evq)
      /\ cause' = IF m.self THEN cause ELSE cause \cup {"lostDisconnect"}
      /\ UNCHANGED <<current, timer, s_queue, seeded, task, boot, link, parkedBySelf>>
  BY DEF AbsorbClear
<1>2. evq \in Seq(Msgs) /\ evq # << >> /\ IsDisc(m)
  BY <1>1 DEF QInv, MsgInv, PhaseInv
<1>3. /\ evq' \in Seq(Msgs) /\ Len(evq) \in Nat /\ Len(evq) > 0 /\ m = evq[1]
      /\ Len(evq') = Len(evq) - 1
      /\ \A i \in 1 .. (Len(evq) - 1) : evq'[i] = evq[i + 1]
  BY <1>1, <1>2, TailFacts
<1>4. \A i \in 1 .. Len(evq') : i + 1 \in 1 .. Len(evq) /\ evq'[i] = evq[i + 1] /\ i \in Nat
                                /\ ~(i + 1 <= 1)
  BY <1>3
<1>5. \A i \in Nat : Told(evq, i + 1) => Told(evq', i)
  BY <1>1, <1>2, ToldTail
<1>6. ~FromLink(m) /\ Told(evq, 0) => Told(evq', 0)
  BY <1>1, <1>2, ToldTail
<1> HIDE DEF m
<1>7. \A i \in 1 .. Len(evq') : ~evq'[i].self
  <2>1. ASSUME NEW i \in 1 .. Len(evq'), evq'[i].self PROVE FALSE
    <3>1. evq[i + 1].self /\ i + 1 \in 1 .. Len(evq) /\ 1 \in 1 .. Len(evq)
      BY <1>3, <1>4, <2>1
    <3>2. i + 1 <= 1
      BY <1>2, <1>3, <3>1 DEF QInv, SelfInv
    <3> QED  BY <1>4, <3>2
  <2> QED  BY <2>1
<1>8. MsgInv'
  BY <1>1, <1>3, <1>7 DEF QInv, MsgInv
<1>9. PhaseInv'
  BY <1>1 DEF QInv, PhaseInv
<1>10. SelfInv'
  <2>1. task \in {"expired", "disconnect"} => link = "down"
    BY <1>2, <1>3 DEF QInv, SelfInv
  <2> QED  BY <1>1, <1>7, <2>1 DEF QInv, SelfInv
<1>11. ToldInv'
  <2> SUFFICES ASSUME ~Lost', link' # "up" PROVE ToldInv'
    BY DEF ToldInv
  <2>1. m.self /\ ~Lost
    BY <1>1 DEF Lost
  <2>2. /\ current = "CONNECTED" => Told(s_queue, 0) \/ Told(evq, 0)
        /\ \A i \in 1 .. Len(s_queue) : s_queue[i].event = "GOT_IP" =>
              Told(s_queue, i) \/ Told(evq, 0)
        /\ \A i \in 1 .. Len(evq) : evq[i].event = "GOT_IP" => Told(evq, i)
    BY <1>1, <2>1 DEF QInv, ToldInv
  <2>3. Told(evq, 0) => Told(evq', 0)
    BY <1>6, <2>1 DEF FromLink
  <2>4. ASSUME NEW i \in 1 .. Len(evq'), evq'[i].event = "GOT_IP" PROVE Told(evq', i)
    BY <1>4, <1>5, <2>2, <2>4
  <2> QED  BY <1>1, <2>2, <2>3, <2>4 DEF ToldInv
<1> QED  BY <1>8, <1>9, <1>10, <1>11

-----------------------------------------------------------------------------
(* bb_wifi_autoinit and provisioning.                                      *)
LEMMA CredsArrivedQInv ==
  ASSUME QInv, CredsArrived PROVE MsgInv' /\ PhaseInv' /\ SelfInv' /\ ToldInv'
<1> DEFINE room == seeded /\ Len(s_queue) < QueueLen
<1>0. PICK m : m = Plain("CREDS_ARRIVED")
  OBVIOUS
<1>1. /\ boot = "parked" /\ boot' = "run"
      /\ room => s_queue' = Append(s_queue, m)
      /\ ~room => s_queue' = s_queue
      /\ UNCHANGED <<current, timer, self_disconnect, seeded, task, absorbing, link, evq, cause,
                     parkedBySelf>>
  BY <1>0 DEF CredsArrived, Enqueue
<1>2. m \in Msgs /\ ~m.self /\ m.event # "GOT_IP"
  BY <1>0 DEF Plain, Msgs, Reasons
<1>3. s_queue \in Seq(Msgs) /\ Len(s_queue) \in Nat
  BY DEF QInv, MsgInv
<1>4. room => /\ s_queue' \in Seq(Msgs) /\ Len(s_queue') = Len(s_queue) + 1
              /\ s_queue'[Len(s_queue) + 1] = m
              /\ \A i \in 1 .. Len(s_queue) : s_queue'[i] = s_queue[i]
  BY <1>1, <1>2, <1>3, AppendFacts
<1>5. ~seeded => s_queue' = s_queue
  BY <1>1
<1> HIDE DEF room
<1>6. /\ s_queue' \in Seq(Msgs)
      /\ \A i \in 1 .. Len(s_queue') : s_queue'[i] = m \/
             (i \in 1 .. Len(s_queue) /\ s_queue'[i] = s_queue[i])
  BY <1>1, <1>3, <1>4
<1>7. \A i \in 0 .. Len(s_queue) : Told(s_queue, i) => Told(s_queue', i)
  <2>1. \A i \in 0 .. Len(s_queue) : Told(s_queue, i) => Told(Append(s_queue, m), i)
    BY <1>2, <1>3, ToldAppend
  <2> QED  BY <1>1, <2>1
<1>8. MsgInv'
  BY <1>1, <1>2, <1>6 DEF QInv, MsgInv
<1>9. PhaseInv'
  BY <1>1, <1>5 DEF QInv, PhaseInv
<1>10. SelfInv'
  BY <1>1 DEF QInv, SelfInv
<1>11. ToldInv'
  <2> SUFFICES ASSUME ~Lost', link' # "up" PROVE ToldInv'
    BY DEF ToldInv
  <2>1. /\ current = "CONNECTED" => Told(s_queue, 0) \/ Told(evq, 0)
        /\ \A i \in 1 .. Len(s_queue) : s_queue[i].event = "GOT_IP" =>
              Told(s_queue, i) \/ Told(evq, 0)
        /\ \A i \in 1 .. Len(evq) : evq[i].event = "GOT_IP" => Told(evq, i)
    BY <1>1 DEF QInv, ToldInv, Lost
  <2>2. current' = "CONNECTED" => Told(s_queue', 0) \/ Told(evq', 0)
    BY <1>1, <1>3, <1>7, <2>1
  <2>3. ASSUME NEW i \in 1 .. Len(s_queue'), s_queue'[i].event = "GOT_IP"
        PROVE  Told(s_queue', i) \/ Told(evq', 0)
    <3>1. i \in 1 .. Len(s_queue) /\ s_queue'[i] = s_queue[i] /\ i \in 0 .. Len(s_queue)
      BY <1>2, <1>3, <1>6, <2>3
    <3> QED  BY <1>1, <1>7, <2>1, <2>3, <3>1
  <2> QED  BY <1>1, <2>1, <2>2, <2>3 DEF ToldInv
<1> QED  BY <1>8, <1>9, <1>10, <1>11

(* The three other boot steps come before the task may have expired.       *)
LEMMA BootQInv ==
  ASSUME QInv, StaStart \/ PendingCommitted \/ PendingReverted
  PROVE  MsgInv' /\ PhaseInv' /\ SelfInv' /\ ToldInv'
<1>1. task = "wait"
  BY DEF StaStart, PendingCommitted, PendingReverted, QInv, PhaseInv
<1>2. CASE StaStart
  <2>1. /\ (boot = "start" /\ boot' = "run") \/ (boot = "try" /\ boot' = "trying")
        /\ link' = link \/ (link = "down" /\ link' = "trying")
        /\ UNCHANGED <<current, timer, self_disconnect, s_queue, seeded, task, absorbing, evq,
                       cause, parkedBySelf>>
    BY <1>2 DEF StaStart, ConnectCall
  <2>2. MsgInv' /\ PhaseInv'
    BY <2>1 DEF QInv, MsgInv, PhaseInv
  <2>3. SelfInv'
    BY <1>1, <2>1 DEF QInv, SelfInv
  <2>4. ToldInv'
    BY <2>1 DEF QInv, ToldInv, Lost
  <2> QED  BY <2>2, <2>3, <2>4
<1>3. CASE PendingCommitted
  <2>1. /\ boot = "gotip" /\ boot' = "run" /\ seeded' = TRUE /\ current' = "CONNECTING"
        /\ timer' = EntryTimer("CONNECTING", 0)
        /\ UNCHANGED <<self_disconnect, s_queue, task, absorbing, link, evq, cause,
                       parkedBySelf>>
    BY <1>3 DEF PendingCommitted
  <2>2. ~seeded /\ ~absorbing
    BY <2>1 DEF QInv, PhaseInv
  <2>3. \A i \in 1 .. Len(evq) : ~evq[i].self
    BY <2>2 DEF QInv, SelfInv
  <2>4. MsgInv'
    BY <2>1, EntryTimers DEF QInv, MsgInv
  <2>5. PhaseInv'
    BY <1>1, <2>1, <2>2 DEF QInv, PhaseInv
  <2>6. SelfInv'
    BY <1>1, <2>1, <2>3 DEF QInv, SelfInv
  <2>7. ToldInv'
    BY <2>1 DEF QInv, ToldInv, Lost
  <2> QED  BY <2>4, <2>5, <2>6, <2>7
<1>4. CASE PendingReverted
  <2>1. /\ boot = "trying" /\ boot' = "reverted" /\ link' = "down" /\ evq' = << >>
        /\ UNCHANGED <<current, timer, self_disconnect, s_queue, seeded, task, absorbing, cause,
                       parkedBySelf>>
    BY <1>4 DEF PendingReverted
  <2>2. ~seeded /\ ~absorbing /\ current = "UNSEEDED" /\ s_queue = << >>
    BY <2>1 DEF QInv, PhaseInv
  <2>3. Len(evq') = 0 /\ Len(s_queue') = 0 /\ evq' \in Seq(Msgs)
    BY <2>1, <2>2
  <2>4. MsgInv'
    BY <2>1, <2>3 DEF QInv, MsgInv
  <2>5. PhaseInv'
    BY <1>1, <2>1, <2>2 DEF QInv, PhaseInv
  <2>6. SelfInv'
    BY <1>1, <2>1, <2>3 DEF QInv, SelfInv
  <2>7. ToldInv'
    BY <2>1, <2>2, <2>3 DEF ToldInv
  <2> QED  BY <2>4, <2>5, <2>6, <2>7
<1> QED  BY <1>2, <1>3, <1>4

-----------------------------------------------------------------------------
(* The driver.  A message that is not the manager's own is posted.         *)
LEMMA PostKeeps ==
  ASSUME QInv, NEW m \in Msgs, ~m.self, Post(m)
  PROVE  /\ MsgInv' /\ PhaseInv'
         /\ Len(evq) \in Nat /\ Len(evq') = Len(evq) + 1 /\ evq'[Len(evq) + 1] = m
         /\ \A i \in 1 .. Len(evq') : i = Len(evq) + 1 \/
                (i \in 1 .. Len(evq) /\ evq'[i] = evq[i])
         /\ \A i \in 0 .. Len(evq) : Told(evq, i) => Told(evq', i)
         /\ \A i \in 0 .. Len(evq) : FromLink(m) => Told(evq', i)
<1>1. /\ evq' = Append(evq, m)
      /\ UNCHANGED <<current, timer, self_disconnect, s_queue, seeded, task, absorbing, boot,
                     cause, parkedBySelf>>
  BY DEF Post
<1>2. evq \in Seq(Msgs)
  BY DEF QInv, MsgInv
<1>3. /\ evq' \in Seq(Msgs) /\ Len(evq) \in Nat /\ Len(evq') = Len(evq) + 1
      /\ evq'[Len(evq) + 1] = m /\ \A i \in 1 .. Len(evq) : evq'[i] = evq[i]
  BY <1>1, <1>2, AppendFacts
<1>4. \A i \in 1 .. Len(evq') : i = Len(evq) + 1 \/ (i \in 1 .. Len(evq) /\ evq'[i] = evq[i])
  BY <1>3
<1>5. /\ \A i \in 0 .. Len(evq) : Told(evq, i) => Told(evq', i)
      /\ \A i \in 0 .. Len(evq) : FromLink(m) => Told(evq', i)
  BY <1>1, <1>2, <1>3, ToldAppend
<1>6. MsgInv'
  BY <1>1, <1>3, <1>4 DEF QInv, MsgInv
<1>7. PhaseInv'
  <2>1. absorbing => evq' # << >> /\ IsDisc(Head(evq'))
    <3> SUFFICES ASSUME absorbing PROVE evq' # << >> /\ IsDisc(Head(evq'))
      OBVIOUS
    <3>1. evq # << >> /\ IsDisc(evq[1]) /\ Len(evq) > 0
      BY <1>2, TailFacts DEF QInv, PhaseInv
    <3>2. evq'[1] = evq[1] /\ evq' # << >>
      BY <1>1, <1>3, <3>1
    <3>3. Head(evq') = evq'[1]
      BY <1>3, <3>2, TailFacts
    <3> QED  BY <3>1, <3>2, <3>3
  <2> QED  BY <1>1, <2>1 DEF QInv, PhaseInv
<1> QED  BY <1>3, <1>4, <1>5, <1>6, <1>7

(* The link goes down, and the driver says so once.                        *)
LEMMA LinkLostQInv ==
  ASSUME QInv, LinkLost PROVE MsgInv' /\ PhaseInv' /\ SelfInv' /\ ToldInv'
<1>1. PICK reason \in Reasons : Post(Disconnected(reason, FALSE))
  BY DEF LinkLost
<1>2. PICK m : m = Disconnected(reason, FALSE)
  OBVIOUS
<1>3. m \in Msgs /\ ~m.self /\ FromLink(m) /\ m.event # "GOT_IP" /\ Post(m)
  BY <1>1, <1>2 DEF Disconnected, Msgs, FromLink, IsDisc
<1>4. /\ MsgInv' /\ PhaseInv'
      /\ Len(evq) \in Nat /\ Len(evq') = Len(evq) + 1 /\ evq'[Len(evq) + 1] = m
      /\ \A i \in 1 .. Len(evq') : i = Len(evq) + 1 \/
             (i \in 1 .. Len(evq) /\ evq'[i] = evq[i])
      /\ \A i \in 0 .. Len(evq) : FromLink(m) => Told(evq', i)
  BY <1>3, PostKeeps
<1>5. /\ link # "down" /\ link' = "down"
      /\ UNCHANGED <<current, self_disconnect, s_queue, seeded, task, cause, parkedBySelf>>
  BY <1>3 DEF LinkLost, Post
<1>6. SelfInv'
  <2>1. ASSUME NEW i \in 1 .. Len(evq'), evq'[i].self
        PROVE  /\ self_disconnect /\ seeded /\ current # "NO_CREDS"
               /\ \A j \in 1 .. Len(evq') : IsDisc(evq'[j]) => i <= j
    <3>1. i \in 1 .. Len(evq) /\ evq[i].self
      BY <1>3, <1>4, <2>1
    <3>2. /\ self_disconnect /\ seeded /\ current # "NO_CREDS"
          /\ \A j \in 1 .. Len(evq) : IsDisc(evq[j]) => i <= j
      BY <3>1 DEF QInv, SelfInv
    <3> QED  BY <1>4, <3>1, <3>2
  <2>2. task \in {"expired", "disconnect"} => \A i \in 1 .. Len(evq') : ~evq'[i].self
    BY <1>3, <1>4 DEF QInv, SelfInv
  <2> QED  BY <1>5, <2>1, <2>2 DEF QInv, SelfInv
<1>7. ToldInv'
  <2>1. \A i \in 0 .. Len(evq) : Told(evq', i)
    BY <1>3, <1>4
  <2>2. Told(evq', 0)
    BY <1>4, <2>1
  <2>3. \A i \in 1 .. Len(evq') : evq'[i].event = "GOT_IP" => Told(evq', i)
    BY <1>3, <1>4, <2>1
  <2> QED  BY <2>2, <2>3 DEF ToldInv
<1> QED  BY <1>4, <1>6, <1>7

(* The station gets an address.                                            *)
LEMMA LinkUpQInv ==
  ASSUME QInv, LinkUp PROVE MsgInv' /\ PhaseInv' /\ SelfInv' /\ ToldInv'
<1>1. PICK m : m = Plain("GOT_IP")
  OBVIOUS
<1>2. m \in Msgs /\ ~m.self /\ ~IsDisc(m) /\ Post(m)
  BY <1>1 DEF Plain, Msgs, Reasons, IsDisc, LinkUp
<1>3. /\ MsgInv' /\ PhaseInv'
      /\ Len(evq) \in Nat /\ Len(evq') = Len(evq) + 1 /\ evq'[Len(evq) + 1] = m
      /\ \A i \in 1 .. Len(evq') : i = Len(evq) + 1 \/
             (i \in 1 .. Len(evq) /\ evq'[i] = evq[i])
  BY <1>2, PostKeeps
<1>4. /\ link \in {"trying", "stalled"} /\ link' = "up"
      /\ UNCHANGED <<current, self_disconnect, s_queue, seeded, task, cause, parkedBySelf>>
  BY <1>2 DEF LinkUp, Post
<1>5. SelfInv'
  <2>1. \A i \in 1 .. Len(evq') : evq'[i].self \/ IsDisc(evq'[i]) =>
            i \in 1 .. Len(evq) /\ evq'[i] = evq[i]
    BY <1>2, <1>3
  <2>2. \A i \in 1 .. Len(evq') : evq'[i].self =>
            /\ self_disconnect /\ seeded /\ current # "NO_CREDS"
            /\ \A j \in 1 .. Len(evq') : IsDisc(evq'[j]) => i <= j
    BY <2>1 DEF QInv, SelfInv
  <2>3. task \in {"expired", "disconnect"} =>
            \A i \in 1 .. Len(evq') : ~evq'[i].self /\ ~IsDisc(evq'[i])
    BY <1>4, <2>1 DEF QInv, SelfInv
  <2> QED  BY <1>4, <2>2, <2>3 DEF QInv, SelfInv
<1>6. ToldInv'
  BY <1>4 DEF ToldInv
<1> QED  BY <1>3, <1>5, <1>6

(* The link stalls, the window passes, or nothing happens.                 *)
LEMMA QuietQInv ==
  ASSUME QInv, LinkStalls \/ Age \/ UNCHANGED vars
  PROVE  MsgInv' /\ PhaseInv' /\ SelfInv' /\ ToldInv'
<1>1. /\ link' = link \/ (link = "trying" /\ link' = "stalled")
      /\ UNCHANGED <<current, timer, self_disconnect, s_queue, seeded, task, absorbing, boot,
                     evq, cause, parkedBySelf>>
  BY DEF LinkStalls, Age, vars, ctxVars
<1>2. MsgInv' /\ PhaseInv'
  BY <1>1 DEF QInv, MsgInv, PhaseInv
<1>3. SelfInv'
  BY <1>1 DEF QInv, SelfInv
<1>4. ToldInv'
  BY <1>1 DEF QInv, ToldInv, Lost
<1> QED  BY <1>2, <1>3, <1>4

(* QInv holds initially.                                                   *)
LEMMA InitQInv == Init => QInv
<1> SUFFICES ASSUME Init PROVE QInv
  OBVIOUS
<1>1. evq = << >> /\ s_queue = << >> /\ Len(evq) = 0 /\ Len(s_queue) = 0
      /\ evq \in Seq(Msgs) /\ s_queue \in Seq(Msgs)
  BY DEF Init
<1>2. MsgInv
  <2>1. timer.event \in {"none", "CONNECTING_TIMEOUT", "BACKOFF_TIMEOUT"}
    BY EntryTimers DEF Init, NoTimer
  <2>2. self_disconnect = FALSE
    BY DEF Init
  <2>3. (1 .. Len(evq)) = {} /\ (1 .. Len(s_queue)) = {}
    BY <1>1
  <2> QED  BY <1>1, <2>1, <2>2, <2>3 DEF MsgInv
<1>3. PhaseInv /\ SelfInv /\ ToldInv
  BY <1>1 DEF Init, PhaseInv, SelfInv, ToldInv
<1> QED  BY <1>2, <1>3, InitTInv DEF QInv

(* Every step preserves QInv.                                              *)
LEMMA NextQInv == QInv /\ [Next]_vars => QInv'
<1> SUFFICES ASSUME QInv, [Next]_vars PROVE QInv'
  OBVIOUS
<1>1. TInv'
  BY NextTInv DEF QInv
<1>2. MsgInv' /\ PhaseInv' /\ SelfInv' /\ ToldInv'
  <2>1. CASE Task
    BY <2>1, ReceiveQInv, ExpireQInv, ExpireStepQInv, ReattemptDisconnectQInv,
       ReattemptConnectQInv DEF Task
  <2>2. CASE Handler
    BY <2>2, HandleQInv, AbsorbReadQInv, AbsorbClearQInv DEF Handler
  <2>3. CASE Boot
    BY <2>3, BootQInv, CredsArrivedQInv DEF Boot
  <2>4. CASE Driver
    BY <2>4, LinkLostQInv, LinkUpQInv, QuietQInv DEF Driver
  <2>5. CASE Age \/ UNCHANGED vars
    BY <2>5, QuietQInv
  <2> QED  BY <2>1, <2>2, <2>3, <2>4, <2>5 DEF Next
<1> QED  BY <1>1, <1>2 DEF QInv

(* WR_LEFT is never entered for the disconnect act_timeout_reattempt       *)
(* caused itself: the event handler absorbs that one, in every             *)
(* interleaving of the two tasks with the driver.                          *)
THEOREM ParkedOnlyByPeerHolds == Spec => []ParkedOnlyByPeer
<1>1. QInv => ParkedOnlyByPeer
  BY DEF QInv, SelfInv, ParkedOnlyByPeer
<1> QED
  BY InitQInv, NextQInv, <1>1, PTL DEF Spec

(* A manager that believes in a link that is gone, with nothing under way  *)
(* to tell it, has lost a disconnect (absorbed, or dropped at a full       *)
(* queue) or tore the link down with its GOT_IP queued: there is no other  *)
(* way, for any queue length.                                              *)
THEOREM StrandedOnlyByLossHolds == Spec => []StrandedOnlyByLoss
<1>1. QInv => StrandedOnlyByLoss
  <2> SUFFICES ASSUME QInv, Stranded PROVE Lost
    BY DEF StrandedOnlyByLoss, Lost
  <2>1. ~Told(s_queue, 0) /\ ~Told(evq, 0)
    BY DEF Stranded, Told
  <2> QED  BY <2>1 DEF Stranded, QInv, ToldInv
<1> QED
  BY InitQInv, NextQInv, <1>1, PTL DEF Spec
=============================================================================
