-------------------------------- MODULE Fsm --------------------------------
(***************************************************************************)
(* bb_fsm, the table-driven state machine other components instantiate:    *)
(* the order in which rows match and the timer slot the owner's task reads *)
(* back.  A row is a record [state, event, guard, action, next]; guards    *)
(* and actions are named, and the instantiating module gives them meaning. *)
(* BB_FSM_MAX_TIMERS is 1, so the timers array is one slot.                *)
(***************************************************************************)
EXTENDS Naturals, Sequences

StateSame == "SAME"

NoTimer == [event |-> "none", ms |-> 0]

Armed(timer) == timer.event # "none"

(* bb_fsm_arm_timer: 0 ms disarms the event's own timer, a slot held by    *)
(* another event is BB_ERR_NO_SPACE and nothing changes.                   *)
ArmTimer(timer, event, ms) ==
    IF ms = 0
    THEN IF timer.event = event THEN NoTimer ELSE timer
    ELSE IF Armed(timer) /\ timer.event # event
         THEN timer
         ELSE [event |-> event, ms |-> ms]

(* find_row: row i is taken when it matches and no earlier row does;       *)
(* holding is the set of guards that hold.                                 *)
RowMatches(row, state, event, holding) ==
    row.state = state /\ row.event = event /\ row.guard \in holding

FirstMatch(rows, i, state, event, holding) ==
    /\ RowMatches(rows[i], state, event, holding)
    /\ \A j \in 1 .. (i - 1) : ~RowMatches(rows[j], state, event, holding)

(* bb_fsm_step after the row's action: SAME runs no hook and keeps the     *)
(* timers, any other next state clears them and runs its entry hook.       *)
NextState(row, state) == IF row.next = StateSame THEN state ELSE row.next

\* Mutant: SAME clears the timers like any other transition.
NextTimer_SameClears(row, afterAction, afterEntry) ==
    IF row.next = StateSame THEN NoTimer ELSE afterEntry

NextTimer(row, afterAction, afterEntry) ==
    IF row.next = StateSame THEN afterAction ELSE afterEntry
=============================================================================
