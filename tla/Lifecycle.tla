------------------------------ MODULE Lifecycle ------------------------------
(***************************************************************************)
(* bb_lifecycle: the run-state authority.  Services, the reason-intern      *)
(* table and the observer table live under one lock (s_lock); every real    *)
(* transition commits under that lock and is delivered after it is released *)
(* (notify_all): to the synchronous observers in slot order, once to the    *)
(* bounded queue the asynchronous observers are drained from, and to the    *)
(* emit sink.                                                               *)
(*                                                                          *)
(* A critical section is one step.  Delivery is one step per slot, so the   *)
(* deliveries of two tasks, registrations and the drain task interleave.    *)
(***************************************************************************)
EXTENDS Integers, Sequences, FiniteSets

CONSTANTS
    Tasks,          \* tasks that call the API
    Names,          \* service names callers pass
    Reasons,        \* pause reasons callers pass
    Trunc,          \* copy_truncated: what a name or reason becomes in its fixed buffer
    MaxServices,    \* CONFIG_BB_LIFECYCLE_MAX_SERVICES
    MaxReasons,     \* CONFIG_BB_LIFECYCLE_MAX_REASONS
    WordBits,       \* bits of the one inhibit word an event carries (32)
    MaxObservers,   \* CONFIG_BB_LIFECYCLE_MAX_OBSERVERS
    QueueDepth,     \* CONFIG_BB_LIFECYCLE_ASYNC_QUEUE_DEPTH (range 1 to 64)
    MaxVersion      \* bound: transitions of one service

Slots == 0..(MaxServices - 1)
Bits == 0..(MaxReasons - 1)
ObserverSlots == 0..(MaxObservers - 1)

ASSUME LifecycleAssumption ==
    /\ MaxServices \in Nat \ {0}
    /\ MaxReasons \in Nat \ {0}
    /\ WordBits \in Nat \ {0}
    /\ MaxObservers \in Nat \ {0}
    /\ QueueDepth \in Nat \ {0}
    /\ MaxVersion \in Nat
    /\ DOMAIN Trunc = Names \cup Reasons

Truncated == {Trunc[x] : x \in Names \cup Reasons}
Unused == ""     \* a zeroed slot
NoBit == -1     \* BB_LIFECYCLE_REASON_NONE

VARIABLES
    s_services, s_service_count,
    s_reasons, s_reason_count,
    s_observers, s_observer_count,  \* slot |-> is it asynchronous?
    asyncLive,      \* s_async_q is not NULL
    s_async_q,      \* the events in the queue, oldest first
    s_async_ready,
    asyncLock,      \* holder of s_async_lock
    drain,          \* the drain task: what it dispatches and to which slots
    call,           \* what each task is doing
    events,         \* history: every event committed
    got,            \* history: the events each observer slot was called with
    emitted,        \* history: the events the emit sink was called with
    dropped,        \* history: the events the full queue refused
    base,           \* history: every service's version when a slot was registered
    held            \* history: <<svc, reason>> asserted OK, not cleared or stopped since

tables == <<s_services, s_service_count, s_reasons, s_reason_count>>
observers == <<s_observers, s_observer_count, base>>
async == <<asyncLive, s_async_q, s_async_ready, asyncLock, drain>>
deliveries == <<got, emitted, dropped>>
vars == <<tables, observers, async, call, events, deliveries, held>>

States == {"STOPPED", "PAUSED", "RUNNING"}

Event == [svc : Slots, version : 1..MaxVersion, old : States, new : States,
          reason : Bits \cup {NoBit}, inhibits : SUBSET Bits]
NoEvent == [svc |-> NoBit]

Service == [name : Truncated \cup {Unused}, started : BOOLEAN,
            inhibits : SUBSET Bits, version : 0..MaxVersion]

EmptyService == [name |-> Unused, started |-> FALSE, inhibits |-> {}, version |-> 0]

\* "load": committed, notify_all not begun; "loop": at observer slot i of the n
\* it loaded; the "async" positions are inside bb_lifecycle_observe_async.
CallPCs == {"idle", "load", "loop", "asyncLock", "asyncQueue", "asyncTask", "asyncSlot"}
Idle == [pc |-> "idle", evt |-> NoEvent, i |-> 0, n |-> 0]

Parked == [pc |-> "none", evt |-> NoEvent, i |-> 0, n |-> 0]

-----------------------------------------------------------------------------
\* Pure helpers.

\* STOPPED dominates PAUSED dominates RUNNING; never stored.
compute_state(s) ==
    IF ~ s.started THEN "STOPPED"
    ELSE IF s.inhibits # {} THEN "PAUSED" ELSE "RUNNING"

svc_valid(svc) == svc \in 0..(s_service_count - 1)

\* bb_lifecycle_state / is_paused / version, the query side of the API.
bb_lifecycle_state(svc) ==
    IF svc_valid(svc) THEN compute_state(s_services[svc]) ELSE "STOPPED"

\* The bits whose slot holds the truncated reason: a set of at most one.
reason_lookup(reason) ==
    {b \in Bits : b < s_reason_count /\ s_reasons[b] = Trunc[reason]}

-----------------------------------------------------------------------------
Init ==
    /\ s_services = [s \in Slots |-> EmptyService]
    /\ s_service_count = 0
    /\ s_reasons = [b \in Bits |-> Unused]
    /\ s_reason_count = 0
    /\ s_observers = [o \in ObserverSlots |-> FALSE]
    /\ s_observer_count = 0
    /\ asyncLive = FALSE
    /\ s_async_q = <<>>
    /\ s_async_ready = FALSE
    /\ asyncLock = "free"
    /\ drain = Parked
    /\ call = [t \in Tasks |-> Idle]
    /\ events = {}
    /\ got = [o \in ObserverSlots |-> {}]
    /\ emitted = {}
    /\ dropped = {}
    /\ base = [o \in ObserverSlots |-> [s \in Slots |-> 0]]
    /\ held = {}

\* bb_lifecycle_register: duplicate (truncated) name and full table return early.
Register(t, name) ==
    /\ call[t].pc = "idle"
    /\ \A s \in Slots : svc_valid(s) => s_services[s].name # Trunc[name]
    /\ s_service_count < MaxServices
    /\ s_services' = [s_services EXCEPT ![s_service_count] =
                        [EmptyService EXCEPT !.name = Trunc[name]]]
    /\ s_service_count' = s_service_count + 1
    /\ UNCHANGED <<s_reasons, s_reason_count, observers, async, call, events,
                   deliveries, held>>

\* Mutant: the snapshot carries the inhibits from before the change.
Committed_OldInhibits(svc, s, reason) ==
    [svc |-> svc, version |-> s.version, old |-> compute_state(s_services[svc]),
     new |-> compute_state(s), reason |-> reason,
     inhibits |-> {b \in s_services[svc].inhibits : b < WordBits}]

\* commit_and_snapshot: the event for the service record s that replaces svc's.
Committed(svc, s, reason) ==
    [svc |-> svc, version |-> s.version, old |-> compute_state(s_services[svc]),
     new |-> compute_state(s), reason |-> reason,
     inhibits |-> {b \in s.inhibits : b < WordBits}]

\* The tail all four mutators share: the changed service is committed with its
\* version bumped, the lock is released, and t goes on to notify_all.
Commit(t, svc, changed, reason) ==
    LET s == [changed EXCEPT !.version = @ + 1]
        e == Committed(svc, s, reason)
    IN  /\ s_services[svc].version < MaxVersion
        /\ s_services' = [s_services EXCEPT ![svc] = s]
        /\ events' = events \cup {e}
        /\ call' = [call EXCEPT ![t] = [pc |-> "load", evt |-> e, i |-> 0, n |-> 0]]
        /\ UNCHANGED <<s_service_count, observers, async, deliveries>>

\* bb_lifecycle_start (an already started service returns early).
Start(t, svc) ==
    /\ call[t].pc = "idle"
    /\ svc_valid(svc)
    /\ ~ s_services[svc].started
    /\ Commit(t, svc, [s_services[svc] EXCEPT !.started = TRUE], NoBit)
    /\ UNCHANGED <<s_reasons, s_reason_count, held>>

\* bb_lifecycle_stop clears every inhibit (an already stopped service keeps its own).
Stop(t, svc) ==
    /\ call[t].pc = "idle"
    /\ svc_valid(svc)
    /\ s_services[svc].started
    /\ Commit(t, svc, [s_services[svc] EXCEPT !.started = FALSE, !.inhibits = {}], NoBit)
    /\ held' = {h \in held : h[1] # svc}
    /\ UNCHANGED <<s_reasons, s_reason_count>>

\* Mutant: the lookup is skipped.
InternedBit_NoLookup(reason, bit) ==
    /\ s_reason_count < MaxReasons
    /\ bit = s_reason_count
    /\ s_reasons' = [s_reasons EXCEPT ![bit] = Trunc[reason]]
    /\ s_reason_count' = s_reason_count + 1
\* reason_intern_locked for a reason that has a bit, or a free slot: the table
\* after it and the bit.
InternedBit(reason, bit) ==
    IF reason_lookup(reason) # {}
      THEN /\ bit \in reason_lookup(reason)
           /\ UNCHANGED <<s_reasons, s_reason_count>>
      ELSE /\ s_reason_count < MaxReasons
           /\ bit = s_reason_count
           /\ s_reasons' = [s_reasons EXCEPT ![bit] = Trunc[reason]]
           /\ s_reason_count' = s_reason_count + 1

\* bb_lifecycle_pause_assert.  A full intern table returns BB_ERR_NO_SPACE; a bit
\* already set is a silent success; otherwise the bit is committed, started or not.
PauseAssert(t, svc, reason) ==
    /\ call[t].pc = "idle"
    /\ svc_valid(svc)
    /\ held' = held \cup {<<svc, reason>>}
    /\ \E bit \in Bits :
         /\ InternedBit(reason, bit)
         /\ IF bit \in s_services[svc].inhibits
              THEN UNCHANGED <<s_services, s_service_count, observers, async, call,
                               events, deliveries>>
              ELSE Commit(t, svc,
                          [s_services[svc] EXCEPT !.inhibits = @ \cup {bit}], bit)

\* bb_lifecycle_pause_clear looks the reason up and never interns it; an unknown
\* reason and a clear bit are silent successes.
PauseClear(t, svc, reason) ==
    /\ call[t].pc = "idle"
    /\ svc_valid(svc)
    /\ held' = held \ {<<svc, reason>>}
    /\ UNCHANGED <<s_reasons, s_reason_count>>
    /\ LET bits == reason_lookup(reason) \cap s_services[svc].inhibits
       IN  IF bits = {}
             THEN UNCHANGED <<s_services, s_service_count, observers, async, call,
                              events, deliveries>>
             ELSE \E bit \in bits :
                    Commit(t, svc,
                           [s_services[svc] EXCEPT !.inhibits = @ \ {bit}], bit)

-----------------------------------------------------------------------------
\* Observer registration.

\* bb_lifecycle_priv_observe_slot: the slot is filled, then the count published.
ObserveSlot(isAsync) ==
    /\ s_observer_count < MaxObservers
    /\ s_observers' = [s_observers EXCEPT ![s_observer_count] = isAsync]
    /\ s_observer_count' = s_observer_count + 1
    /\ base' = [base EXCEPT ![s_observer_count] = [s \in Slots |-> s_services[s].version]]

\* bb_lifecycle_observe.
Observe(t) ==
    /\ call[t].pc = "idle"
    /\ ObserveSlot(FALSE)
    /\ UNCHANGED <<tables, async, call, events, deliveries, held>>

\* bb_lifecycle_observe_async begins: ensure_async_started.
ObserveAsync(t) ==
    /\ call[t].pc = "idle"
    /\ call' = [call EXCEPT ![t].pc = "asyncLock"]
    /\ UNCHANGED <<tables, observers, async, events, deliveries, held>>

\* s_async_lock is taken; an earlier success makes the rest unnecessary, and the
\* lock is released again at once.
AsyncLock(t) ==
    /\ call[t].pc = "asyncLock"
    /\ asyncLock = "free"
    /\ IF s_async_ready
         THEN /\ call' = [call EXCEPT ![t].pc = "asyncSlot"]
              /\ UNCHANGED asyncLock
         ELSE /\ call' = [call EXCEPT ![t].pc = "asyncQueue"]
              /\ asyncLock' = t
    /\ UNCHANGED <<tables, observers, asyncLive, s_async_q, s_async_ready, drain, events,
                   deliveries, held>>

\* async_init, first half: bb_bqueue_create, or its failure (pool exhausted).
AsyncCreateQueue(t) ==
    /\ call[t].pc = "asyncQueue"
    /\ \/ /\ asyncLive' = TRUE
          /\ s_async_q' = <<>>
          /\ call' = [call EXCEPT ![t].pc = "asyncTask"]
          /\ UNCHANGED asyncLock
       \/ /\ call' = [call EXCEPT ![t].pc = "idle"]
          /\ asyncLock' = "free"
          /\ UNCHANGED <<asyncLive, s_async_q>>
    /\ UNCHANGED <<tables, observers, s_async_ready, drain, events, deliveries, held>>

\* Mutant: the flag is set although the task could not be created.
AsyncCreateTask_LatchesFailure(t) ==
    /\ call[t].pc = "asyncTask"
    /\ asyncLock' = "free"
    /\ s_async_ready' = TRUE
    /\ \/ /\ drain' = [drain EXCEPT !.pc = "wait"]
          /\ call' = [call EXCEPT ![t].pc = "asyncSlot"]
          /\ UNCHANGED asyncLive
       \/ /\ asyncLive' = FALSE
          /\ call' = [call EXCEPT ![t].pc = "idle"]
          /\ UNCHANGED drain
    /\ UNCHANGED <<tables, observers, s_async_q, events, deliveries, held>>
\* async_init, second half: bb_task_create starts the drain task, or fails and the
\* queue is destroyed again.  Only success makes s_async_ready true.
AsyncCreateTask(t) ==
    /\ call[t].pc = "asyncTask"
    /\ asyncLock' = "free"
    /\ \/ /\ drain' = [drain EXCEPT !.pc = "wait"]
          /\ s_async_ready' = TRUE
          /\ call' = [call EXCEPT ![t].pc = "asyncSlot"]
          /\ UNCHANGED asyncLive
       \/ /\ asyncLive' = FALSE
          /\ call' = [call EXCEPT ![t].pc = "idle"]
          /\ UNCHANGED <<drain, s_async_ready>>
    /\ UNCHANGED <<tables, observers, s_async_q, events, deliveries, held>>

\* ... and the slot is appended, or the observer table is full.
AsyncSlot(t) ==
    /\ call[t].pc = "asyncSlot"
    /\ call' = [call EXCEPT ![t].pc = "idle"]
    /\ \/ ObserveSlot(TRUE)
       \/ s_observer_count = MaxObservers /\ UNCHANGED observers
    /\ UNCHANGED <<tables, async, events, deliveries, held>>

-----------------------------------------------------------------------------
\* notify_all, after the lock is released.

\* atomic_load(&s_observer_count), once per transition.
NotifyLoad(t) ==
    /\ call[t].pc = "load"
    /\ call' = [call EXCEPT ![t].pc = "loop", ![t].n = s_observer_count]
    /\ UNCHANGED <<tables, observers, async, events, deliveries, held>>

\* Mutant: the walk stops one slot early.
Visiting_OneShort(c) == c.pc = "loop" /\ c.i + 1 < c.n

Visiting(c) == c.pc = "loop" /\ c.i < c.n

\* An observer slot is called with an event.
Called(o, e) == got' = [got EXCEPT ![o] = @ \cup {e}]

\* One slot of the walk: a synchronous observer is called, an asynchronous skipped.
NotifySlot(t) ==
    /\ Visiting(call[t])
    /\ call' = [call EXCEPT ![t].i = @ + 1]
    /\ IF s_observers[call[t].i] THEN UNCHANGED got
       ELSE Called(call[t].i, call[t].evt)
    /\ UNCHANGED <<tables, observers, async, events, emitted, dropped, held>>

AnyAsync(t) == \E o \in ObserverSlots : o < call[t].n /\ s_observers[o]

\* A queue of one is a mailbox, which bb_bqueue_send refuses with INVALID_STATE and
\* keeps no drop count of; a queue that is not there it refuses with INVALID_ARG.
AsyncSendable == asyncLive /\ QueueDepth > 1

\* bb_lifecycle_priv_async_notify: a send that never blocks; full means dropped and
\* counted, any other refusal loses the event and counts nothing.
AsyncSend(e) ==
    \/ /\ AsyncSendable
       /\ Len(s_async_q) < QueueDepth
       /\ s_async_q' = Append(s_async_q, e)
       /\ UNCHANGED dropped
    \/ /\ AsyncSendable
       /\ Len(s_async_q) = QueueDepth
       /\ dropped' = dropped \cup {e}
       /\ UNCHANGED s_async_q
    \/ /\ ~ AsyncSendable
       /\ UNCHANGED <<s_async_q, dropped>>

\* The end of the walk: one send if a slot was asynchronous, then the emit sink.
NotifyEnd(t) ==
    /\ call[t].pc = "loop"
    /\ ~ Visiting(call[t])
    /\ IF AnyAsync(t) THEN AsyncSend(call[t].evt) ELSE UNCHANGED <<s_async_q, dropped>>
    /\ emitted' = emitted \cup {call[t].evt}
    /\ call' = [call EXCEPT ![t] = Idle]
    /\ UNCHANGED <<tables, observers, asyncLive, s_async_ready, asyncLock, drain, events,
                   got, held>>

\* drain_once: receive the oldest event and load the number of slots to walk.
DrainReceive ==
    /\ drain.pc = "wait"
    /\ asyncLive
    /\ s_async_q # <<>>
    /\ drain' = [pc |-> "loop", evt |-> Head(s_async_q), i |-> 0, n |-> s_observer_count]
    /\ s_async_q' = Tail(s_async_q)
    /\ UNCHANGED <<tables, observers, asyncLive, s_async_ready, asyncLock, call, events,
                   deliveries, held>>

\* bb_lifecycle_priv_invoke_async_slots: only asynchronous slots are called.
DrainSlot ==
    /\ Visiting(drain)
    /\ drain' = [drain EXCEPT !.i = @ + 1]
    /\ IF s_observers[drain.i] THEN Called(drain.i, drain.evt) ELSE UNCHANGED got
    /\ UNCHANGED <<tables, observers, asyncLive, s_async_q, s_async_ready, asyncLock, call,
                   events, emitted, dropped, held>>

\* drain_task_entry's loop goes back to bb_bqueue_receive.
DrainEnd ==
    /\ drain.pc = "loop"
    /\ ~ Visiting(drain)
    /\ drain' = [Parked EXCEPT !.pc = "wait"]
    /\ UNCHANGED <<tables, observers, asyncLive, s_async_q, s_async_ready, asyncLock, call,
                   events, deliveries, held>>

-----------------------------------------------------------------------------
Mutator(t) ==
    \/ \E name \in Names : Register(t, name)
    \/ \E svc \in Slots :
         \/ Start(t, svc)
         \/ Stop(t, svc)
         \/ \E r \in Reasons : PauseAssert(t, svc, r) \/ PauseClear(t, svc, r)
    \/ Observe(t)
    \/ ObserveAsync(t)

Continue(t) ==
    \/ AsyncLock(t)
    \/ AsyncCreateQueue(t)
    \/ AsyncCreateTask(t)
    \/ AsyncSlot(t)
    \/ NotifyLoad(t)
    \/ NotifySlot(t)
    \/ NotifyEnd(t)

Drain == DrainReceive \/ DrainSlot \/ DrainEnd

Next == Drain \/ \E t \in Tasks : Mutator(t) \/ Continue(t)

Spec == Init /\ [][Next]_vars

\* A task inside a call returns (no lock is held across a callback) and the drain
\* task, which blocks only on an empty queue, is scheduled again.
FairSpec == /\ Spec
            /\ WF_vars(Drain)
            /\ \A t \in Tasks : WF_vars(Continue(t))

-----------------------------------------------------------------------------
\* Properties.

Frame == [pc : CallPCs \cup {"none", "wait"}, evt : Event \cup {NoEvent},
          i : 0..MaxObservers, n : 0..MaxObservers]

\* The tables stay within their compiled sizes and the queue within its depth.
TypeOK ==
    /\ s_services \in [Slots -> Service]
    /\ s_service_count \in 0..MaxServices
    /\ s_reasons \in [Bits -> Truncated \cup {Unused}]
    /\ s_reason_count \in 0..MaxReasons
    /\ s_observers \in [ObserverSlots -> BOOLEAN]
    /\ s_observer_count \in 0..MaxObservers
    /\ asyncLive \in BOOLEAN
    /\ s_async_q \in Seq(Event) /\ Len(s_async_q) <= QueueDepth
    /\ s_async_ready \in BOOLEAN
    /\ asyncLock \in Tasks \cup {"free"}
    /\ drain \in Frame /\ drain.pc \in {"none", "wait", "loop"}
    /\ call \in [Tasks -> Frame] /\ \A t \in Tasks : call[t].pc \in CallPCs
    /\ events \subseteq Event
    /\ got \in [ObserverSlots -> SUBSET Event]
    /\ emitted \subseteq Event
    /\ dropped \subseteq Event
    /\ base \in [ObserverSlots -> [Slots -> 0..MaxVersion]]
    /\ held \subseteq Slots \X Reasons

Registered(o) == o \in ObserverSlots /\ o < s_observer_count

\* t still has to walk past slot o with its event.
PendingAt(t, o) == \/ call[t].pc = "load"
                   \/ Visiting(call[t]) /\ call[t].i <= o /\ o < call[t].n

InFlight(svc) == \E t \in Tasks : call[t].pc \in {"load", "loop"} /\ call[t].evt.svc = svc

\* A synchronous observer misses nothing that commits after its registration: each
\* such event has reached it or some task is still on its way to its slot, although
\* registration, other tasks' deliveries and later commits interleave freely.  The
\* same holds of the emit sink, which comes last in every walk.
NoLostNotification ==
    /\ \A o \in ObserverSlots : Registered(o) /\ ~ s_observers[o] =>
         \A e \in events : e.version > base[o][e.svc] =>
           \/ e \in got[o]
           \/ \E t \in Tasks : call[t].evt = e /\ PendingAt(t, o)
    /\ \A e \in events : e \notin emitted =>
         \E t \in Tasks : call[t].pc \in {"load", "loop"} /\ call[t].evt = e

\* When nothing of a service is in flight, every synchronous observer that saw a
\* transition holds the event of the newest version, and it tells the truth: state
\* and inhibits as a query would return them, in whatever order events arrived.
ObserverConverges ==
    \A o \in ObserverSlots, svc \in Slots :
      (Registered(o) /\ ~ s_observers[o] /\ ~ InFlight(svc)
         /\ s_services[svc].version > base[o][svc]) =>
        \E e \in got[o] :
          /\ e.svc = svc /\ e.version = s_services[svc].version
          /\ e.new = bb_lifecycle_state(svc)
          /\ e.inhibits = {b \in s_services[svc].inhibits : b < WordBits}

\* A reason asserted and not cleared since (nor swept by a stop) keeps a started
\* service paused, whatever other subsystems assert and clear; and no service is left
\* paused, or about to come up paused, by a reason nobody holds.  Both depend on a
\* reason keeping its bit at the limit of the intern table.
PauseExact ==
    /\ \A h \in held : s_services[h[1]].started => bb_lifecycle_state(h[1]) = "PAUSED"
    /\ \A svc \in Slots : s_services[svc].inhibits # {} => \E r \in Reasons : <<svc, r>> \in held

\* Every event an asynchronous observer is due reaches it or is counted as dropped:
\* no full queue, failed start of the drain task or send to a queue that was destroyed
\* again makes one disappear.  A queue of one is excepted: see AsyncSendable.
AsyncEventuallyDelivered ==
    \A o \in ObserverSlots, svc \in Slots, v \in 1..MaxVersion :
      (QueueDepth > 1 /\ \E e \in events : e.svc = svc /\ e.version = v
          /\ Registered(o) /\ s_observers[o] /\ v > base[o][svc])
      ~> (\E e \in got[o] \cup dropped : e.svc = svc /\ e.version = v)

=============================================================================
