----------------------------- MODULE BoundedFifo -----------------------------
(***************************************************************************)
(* What bb_bqueue promises its callers, without locks, waiters or a ring:   *)
(* every call that is under way takes effect at one instant between its     *)
(* begin and its return, on a FIFO of at most Capacity items (a mailbox     *)
(* when Capacity is 1), and returns what it found at that instant.          *)
(***************************************************************************)
EXTENDS Naturals, Sequences

CONSTANTS
    Threads, Items,
    Capacity,
    DroppedMod, \* the count of refused sends is a size_t: it wraps here
    Unset       \* no item

VARIABLES
    buf,        \* the items, oldest first
    dropped,    \* how many sends were refused or timed out
    call        \* per thread: the call under way, or what the last one returned

vars == <<buf, dropped, call>>

UnderWay(op, x, timeout) ==
    [op |-> op, item |-> x, timeout |-> timeout, res |-> "none", out |-> Unset]

Returned(r, x) ==
    [op |-> "none", item |-> Unset, timeout |-> "zero", res |-> r, out |-> x]

Init == /\ buf = <<>>
        /\ dropped = 0
        /\ call = [t \in Threads |-> Returned("none", Unset)]

Returns(t, r, x) == call' = [call EXCEPT ![t] = Returned(r, x)]

Begin(t) ==
    /\ call[t].op = "none"
    /\ \E timeout \in {"zero", "finite", "forever"} :
         \/ \E x \in Items : /\ Capacity > 1
                             /\ call' = [call EXCEPT ![t] = UnderWay("send", x, timeout)]
         \/ \E op \in {"receive", "peek"} :
              call' = [call EXCEPT ![t] = UnderWay(op, Unset, timeout)]
    /\ UNCHANGED <<buf, dropped>>

\* A send that finds room appends the caller's item.
Send(t) ==
    /\ call[t].op = "send"
    /\ Len(buf) < Capacity
    /\ buf' = Append(buf, call[t].item)
    /\ Returns(t, "OK", Unset)
    /\ UNCHANGED dropped

\* A receive returns the oldest item and removes it, a peek only returns it.
Receive(t) ==
    /\ call[t].op = "receive"
    /\ buf # <<>>
    /\ buf' = Tail(buf)
    /\ Returns(t, "OK", Head(buf))
    /\ UNCHANGED dropped

Peek(t) ==
    /\ call[t].op = "peek"
    /\ buf # <<>>
    /\ Returns(t, "OK", Head(buf))
    /\ UNCHANGED <<buf, dropped>>

\* A failed call leaves the items alone; of a failed send it is counted.
Fails(t, r) ==
    /\ Returns(t, r, Unset)
    /\ dropped' = IF call[t].op = "send" THEN (dropped + 1) % DroppedMod ELSE dropped
    /\ UNCHANGED buf

\* A call that does not wait fails only when the buffer is full, or empty.
Refuse(t) ==
    /\ call[t].timeout = "zero"
    /\ \/ call[t].op = "send" /\ Len(buf) = Capacity /\ Fails(t, "NO_SPACE")
       \/ call[t].op \in {"receive", "peek"} /\ buf = <<>> /\ Fails(t, "NOT_FOUND")

\* A call with a deadline may fail for that alone, one that waits for ever does not.
TimeOut(t) ==
    /\ call[t].op # "none"
    /\ call[t].timeout = "finite"
    /\ Fails(t, "TIMEOUT")

\* The mailbox operations: the item replaced or dropped is counted nowhere.
Overwrite == /\ Capacity = 1
             /\ \E x \in Items : buf' = <<x>>
             /\ UNCHANGED <<dropped, call>>

Reset == Capacity = 1 /\ buf' = <<>> /\ UNCHANGED <<dropped, call>>

Next == \/ \E t \in Threads : \/ Begin(t)
                              \/ Send(t) \/ Receive(t) \/ Peek(t)
                              \/ Refuse(t) \/ TimeOut(t)
        \/ Overwrite
        \/ Reset

Spec == Init /\ [][Next]_vars
=============================================================================
