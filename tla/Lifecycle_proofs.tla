-------------------------- MODULE Lifecycle_proofs --------------------------
(***************************************************************************)
(* bb_lifecycle for any number of tasks, services, reasons and observers.  *)
(*                                                                         *)
(* NoLostNotification is nearly inductive: it needs that no event is newer *)
(* than its service (EventInv), so that a slot registered now is due none  *)
(* of the events committed so far, and that a walk begins at slot 0.       *)
(* ObserverConverges follows from it with NewestInv: the newest version of *)
(* a service has an event that tells the truth.  PauseExact needs PauseInv,*)
(* the correspondence between the reasons held and the bits set, which     *)
(* rests on the intern table giving each reason one bit: it holds when no  *)
(* two reasons are cut to the same text.                                   *)
(***************************************************************************)
EXTENDS Lifecycle, TLAPS

CoreType ==
    /\ s_services \in [Slots -> Service]
    /\ s_service_count \in 0 .. MaxServices
    /\ s_observers \in [ObserverSlots -> BOOLEAN]
    /\ s_observer_count \in 0 .. MaxObservers
    /\ call \in [Tasks -> Frame] /\ \A t \in Tasks : call[t].pc \in CallPCs
    /\ events \subseteq Event
    /\ got \in [ObserverSlots -> SUBSET Event]
    /\ emitted \subseteq Event
    /\ base \in [ObserverSlots -> [Slots -> 0 .. MaxVersion]]
AsyncType ==
    /\ asyncLive \in BOOLEAN
    /\ s_async_q \in Seq(Event) /\ Len(s_async_q) <= QueueDepth
    /\ s_async_ready \in BOOLEAN
    /\ asyncLock \in Tasks \cup {"free"}
    /\ drain \in Frame /\ drain.pc \in {"none", "wait", "loop"}
    /\ drain.pc = "loop" => drain.evt \in Event
    /\ dropped \subseteq Event
ReasonType ==
    /\ s_reasons \in [Bits -> Truncated \cup {Unused}]
    /\ s_reason_count \in 0 .. MaxReasons
    /\ held \subseteq Slots \X Reasons

(* A walk starts at slot 0, with an event.                                 *)
WalkInv ==
    \A t \in Tasks :
        /\ call[t].pc \in {"load", "loop"} => call[t].evt \in Event
        /\ call[t].pc = "load" => call[t].i = 0

(* No event is newer than its service, and a slot not yet registered has   *)
(* no history.                                                             *)
EventInv ==
    /\ \A e \in events : svc_valid(e.svc) /\ e.version <= s_services[e.svc].version
    /\ \A s \in Slots : s >= s_service_count => s_services[s] = EmptyService

(* The newest version of a service has an event, and it tells the truth.   *)
Truthful(e, s) ==
    /\ e.svc = s /\ e.version = s_services[s].version
    /\ e.new = compute_state(s_services[s])
    /\ e.inhibits = {b \in s_services[s].inhibits : b < WordBits}
NewestInv ==
    \A s \in Slots : s_services[s].version > 0 => \E e \in events : Truthful(e, s)

IInv ==
    /\ CoreType /\ AsyncType /\ ReasonType
    /\ WalkInv /\ EventInv /\ NewestInv /\ NoLostNotification

(* The reasons held and the bits set correspond, and the intern table has  *)
(* no reason twice.                                                        *)
BitOf(r, b) == b < s_reason_count /\ s_reasons[b] = Trunc[r]
PauseInv ==
    /\ \A s \in Slots, r \in Reasons : <<s, r>> \in held =>
           svc_valid(s) /\ \E b \in s_services[s].inhibits : BitOf(r, b)
    /\ \A s \in Slots : \A b \in s_services[s].inhibits :
           \E r \in Reasons : <<s, r>> \in held /\ BitOf(r, b)
    /\ \A b, c \in Bits : b < s_reason_count /\ c < s_reason_count /\ s_reasons[b] = s_reasons[c]
           => b = c

-----------------------------------------------------------------------------
(* A task's position changes and its event does not, or it does not move:  *)
(* what is committed and what is due stay as they are as long as no one    *)
(* turns away from a slot it has not served.                               *)
Same == UNCHANGED <<s_services, s_service_count, s_observers, s_observer_count, base, events>>

\* A notification that was due stays due until it is delivered: the frame under
\* which no step of another task loses one.
LEMMA DueKept ==
    ASSUME IInv, Same,
           \A o \in ObserverSlots : got[o] \subseteq got'[o],
           emitted \subseteq emitted',
           \A t \in Tasks, o \in ObserverSlots :
               PendingAt(t, o) /\ Registered(o) /\ ~s_observers[o] =>
                   (call'[t].evt = call[t].evt /\ PendingAt(t, o)') \/ call[t].evt \in got'[o],
           \A t \in Tasks : call[t].pc \in {"load", "loop"} =>
                   (call'[t].evt = call[t].evt /\ call'[t].pc \in {"load", "loop"})
                   \/ call[t].evt \in emitted'
    PROVE  EventInv' /\ NewestInv' /\ NoLostNotification'
<1>1. EventInv'
  BY DEF IInv, EventInv, Same, svc_valid
<1>2. NewestInv'
  BY DEF IInv, NewestInv, Truthful, Same
<1>3. ASSUME NEW o \in ObserverSlots, Registered(o)', ~s_observers'[o],
             NEW e \in events', e.version > base'[o][e.svc]
      PROVE  e \in got'[o] \/ \E t \in Tasks : call'[t].evt = e /\ PendingAt(t, o)'
  <2>1. Registered(o) /\ ~s_observers[o] /\ e \in events /\ e.version > base[o][e.svc]
    BY <1>3 DEF Same, Registered
  <2>2. CASE e \in got[o]
    BY <2>2
  <2>3. CASE \E t \in Tasks : call[t].evt = e /\ PendingAt(t, o)
    BY <2>1, <2>3
  <2> QED  BY <2>1, <2>2, <2>3 DEF IInv, NoLostNotification
<1>4. ASSUME NEW e \in events', e \notin emitted'
      PROVE  \E t \in Tasks : call'[t].pc \in {"load", "loop"} /\ call'[t].evt = e
  <2>1. e \in events /\ e \notin emitted
    BY <1>4 DEF Same
  <2>2. PICK t \in Tasks : call[t].pc \in {"load", "loop"} /\ call[t].evt = e
    BY <2>1 DEF IInv, NoLostNotification
  <2> QED  BY <1>4, <2>2
<1>5. NoLostNotification'
  BY <1>3, <1>4 DEF NoLostNotification
<1> QED  BY <1>1, <1>2, <1>5

(* A task outside notify_all, or the drain task, moves.                    *)
LEMMA AsideKept ==
    ASSUME IInv, Same, UNCHANGED emitted,
           \A o \in ObserverSlots : got[o] \subseteq got'[o],
           \A t \in Tasks : call'[t] = call[t]
                            \/ /\ call[t].pc \notin {"load", "loop"}
                               /\ call'[t].pc \notin {"load", "loop"}
    PROVE  WalkInv' /\ EventInv' /\ NewestInv' /\ NoLostNotification'
<1>1. \A t \in Tasks, o \in ObserverSlots : PendingAt(t, o) =>
          call'[t].evt = call[t].evt /\ PendingAt(t, o)'
  BY DEF PendingAt, Visiting
<1>2. WalkInv'
  BY DEF IInv, WalkInv
<1>3. EventInv' /\ NewestInv' /\ NoLostNotification'
  BY <1>1, DueKept
<1> QED  BY <1>2, <1>3

(* One task moves.                                                         *)
LEMMA TaskMoves ==
    ASSUME call \in [Tasks -> Frame], \A t \in Tasks : call[t].pc \in CallPCs,
           NEW t \in Tasks, NEW l \in CallPCs, call' = [call EXCEPT ![t].pc = l]
    PROVE  /\ call' \in [Tasks -> Frame] /\ \A z \in Tasks : call'[z].pc \in CallPCs
           /\ call'[t].pc = l /\ \A z \in Tasks \ {t} : call'[z] = call[z]
  BY DEF Frame

-----------------------------------------------------------------------------
(* Commit: the new event is due to everybody, and its task is at "load".   *)
LEMMA CommitKeeps ==
    ASSUME IInv, NEW t \in Tasks, call[t].pc = "idle", NEW svc \in Slots, svc_valid(svc),
           NEW changed \in Service, changed.version = s_services[svc].version,
           NEW reason \in Bits \cup {NoBit}, Commit(t, svc, changed, reason)
    PROVE  /\ CoreType' /\ AsyncType' /\ WalkInv' /\ EventInv' /\ NewestInv'
           /\ NoLostNotification'
           /\ s_service_count' = s_service_count
           /\ s_services'[svc].inhibits = changed.inhibits
           /\ s_services'[svc].started = changed.started
           /\ \A z \in Slots \ {svc} : s_services'[z] = s_services[z]
<1>1. PICK s : s = [changed EXCEPT !.version = @ + 1]
  OBVIOUS
<1>2. PICK e : e = Committed(svc, s, reason)
  OBVIOUS
<1>3. /\ s_services[svc].version < MaxVersion
      /\ s_services' = [s_services EXCEPT ![svc] = s]
      /\ events' = events \cup {e}
      /\ call' = [call EXCEPT ![t] = [pc |-> "load", evt |-> e, i |-> 0, n |-> 0]]
      /\ UNCHANGED <<s_service_count, s_observers, s_observer_count, base, got, emitted, dropped>>
      /\ UNCHANGED <<asyncLive, s_async_q, s_async_ready, asyncLock, drain>>
  BY <1>1, <1>2 DEF Commit, observers, async, deliveries
<1>4. s_services[svc] \in Service /\ s_services[svc].version \in 0 .. MaxVersion
  BY DEF IInv, CoreType, Service
<1>5. /\ s.version = s_services[svc].version + 1 /\ s.inhibits = changed.inhibits
      /\ s.started = changed.started /\ s \in Service
  BY <1>1, <1>3, <1>4, LifecycleAssumption DEF Service
<1>6. /\ e \in Event /\ e.svc = svc /\ e.version = s.version /\ e.new = compute_state(s)
      /\ e.inhibits = {b \in s.inhibits : b < WordBits}
  <2>1. e = [svc |-> svc, version |-> s.version, old |-> compute_state(s_services[svc]),
             new |-> compute_state(s), reason |-> reason,
             inhibits |-> {b \in s.inhibits : b < WordBits}]
    BY <1>2 DEF Committed
  <2>2. compute_state(s) \in States /\ compute_state(s_services[svc]) \in States
    BY DEF compute_state, States
  <2>3. {b \in s.inhibits : b < WordBits} \in SUBSET Bits
    BY <1>5 DEF Service
  <2>4. s.version \in 1 .. MaxVersion
    BY <1>3, <1>4, <1>5, LifecycleAssumption
  <2> QED  BY <2>1, <2>2, <2>3, <2>4 DEF Event
<1>7. /\ s_services' \in [Slots -> Service] /\ s_services'[svc] = s
      /\ \A z \in Slots \ {svc} : s_services'[z] = s_services[z]
  BY <1>3, <1>5 DEF IInv, CoreType
<1>8. /\ call' \in [Tasks -> Frame] /\ \A z \in Tasks : call'[z].pc \in CallPCs
      /\ call'[t].pc = "load" /\ call'[t].evt = e /\ call'[t].i = 0
      /\ \A z \in Tasks \ {t} : call'[z] = call[z]
  <2>1. [pc |-> "load", evt |-> e, i |-> 0, n |-> 0] \in Frame
    BY <1>6, LifecycleAssumption DEF Frame, CallPCs
  <2> QED  BY <1>3, <2>1 DEF IInv, CoreType, CallPCs
<1>9. CoreType'
  BY <1>3, <1>6, <1>7, <1>8 DEF IInv, CoreType
<1>10. AsyncType'
  BY <1>3 DEF IInv, AsyncType
<1>11. WalkInv'
  BY <1>6, <1>8 DEF IInv, WalkInv
<1>12. EventInv'
  <2>1. \A x \in events : x.svc \in Slots /\ svc_valid(x.svc)
                          /\ x.version <= s_services'[x.svc].version
    BY <1>3, <1>4, <1>5, <1>7 DEF IInv, CoreType, EventInv, Event
  <2>2. svc_valid(svc)' /\ e.version <= s_services'[svc].version
    BY <1>3, <1>4, <1>5, <1>6, <1>7 DEF svc_valid
  <2>3. \A z \in Slots : z >= s_service_count => s_services'[z] = EmptyService
    BY <1>7, LifecycleAssumption DEF IInv, CoreType, EventInv, svc_valid, Slots
  <2> QED  BY <1>3, <1>6, <2>1, <2>2, <2>3 DEF EventInv, svc_valid
<1>13. NewestInv'
  <2>1. ASSUME NEW z \in Slots, s_services'[z].version > 0
        PROVE  \E x \in events' : Truthful(x, z)'
    <3>1. CASE z = svc
      BY <1>3, <1>6, <1>7, <3>1 DEF Truthful
    <3>2. CASE z # svc
      BY <1>3, <1>7, <2>1, <3>2 DEF IInv, NewestInv, Truthful
    <3> QED  BY <3>1, <3>2
  <2> QED  BY <2>1 DEF NewestInv
<1>14. NoLostNotification'
  <2>1. ASSUME NEW o \in ObserverSlots, Registered(o)', ~s_observers'[o],
               NEW x \in events', x.version > base'[o][x.svc]
        PROVE  x \in got'[o] \/ \E z \in Tasks : call'[z].evt = x /\ PendingAt(z, o)'
    <3>1. CASE x = e
      BY <1>8, <3>1 DEF PendingAt
    <3>2. CASE x # e
      <4>1. Registered(o) /\ ~s_observers[o] /\ x \in events /\ x.version > base[o][x.svc]
        BY <1>3, <2>1, <3>2 DEF Registered
      <4>2. x \in got[o] \/ \E z \in Tasks : call[z].evt = x /\ PendingAt(z, o)
        BY <4>1 DEF IInv, NoLostNotification
      <4>3. ASSUME NEW z \in Tasks, PendingAt(z, o)
            PROVE  call'[z] = call[z] /\ PendingAt(z, o)'
        BY <1>8, <4>3 DEF PendingAt, Visiting
      <4> QED  BY <1>3, <4>2, <4>3
    <3> QED  BY <3>1, <3>2
  <2>2. ASSUME NEW x \in events', x \notin emitted'
        PROVE  \E z \in Tasks : call'[z].pc \in {"load", "loop"} /\ call'[z].evt = x
    <3>1. CASE x = e
      BY <1>8, <3>1
    <3>2. CASE x # e
      <4>1. PICK z \in Tasks : call[z].pc \in {"load", "loop"} /\ call[z].evt = x
        BY <1>3, <2>2, <3>2 DEF IInv, NoLostNotification
      <4>2. call'[z] = call[z]
        BY <1>8, <4>1
      <4> QED  BY <4>1, <4>2
    <3> QED  BY <3>1, <3>2
  <2> QED  BY <2>1, <2>2 DEF NoLostNotification
<1> QED  BY <1>3, <1>5, <1>7, <1>9, <1>10, <1>11, <1>12, <1>13, <1>14

(* A slot registered now is due none of the events committed so far.       *)
LEMMA ObserveSlotKeeps ==
    ASSUME IInv, NEW isAsync \in BOOLEAN, ObserveSlot(isAsync),
           UNCHANGED <<s_services, s_service_count, events, got, emitted>>,
           \A t \in Tasks : call'[t] = call[t]
                            \/ /\ call[t].pc \notin {"load", "loop"}
                               /\ call'[t].pc \notin {"load", "loop"}
    PROVE  /\ s_observers' \in [ObserverSlots -> BOOLEAN]
           /\ s_observer_count' \in 0 .. MaxObservers
           /\ base' \in [ObserverSlots -> [Slots -> 0 .. MaxVersion]]
           /\ WalkInv' /\ EventInv' /\ NewestInv' /\ NoLostNotification'
<1> DEFINE k == s_observer_count
           now == [s \in Slots |-> s_services[s].version]
<1>1. /\ k < MaxObservers /\ k \in ObserverSlots /\ s_observer_count' = k + 1
      /\ s_observers' = [s_observers EXCEPT ![k] = isAsync]
      /\ base' = [base EXCEPT ![k] = now]
  BY LifecycleAssumption DEF ObserveSlot, IInv, CoreType, ObserverSlots
<1>2. now \in [Slots -> 0 .. MaxVersion]
  BY DEF IInv, CoreType, Service
<1>3. \A s \in Slots : now[s] = s_services[s].version
  OBVIOUS
<1> HIDE DEF now
<1>4. /\ s_observers' \in [ObserverSlots -> BOOLEAN] /\ s_observer_count' \in 0 .. MaxObservers
      /\ base' \in [ObserverSlots -> [Slots -> 0 .. MaxVersion]] /\ base'[k] = now
      /\ \A o \in ObserverSlots \ {k} : base'[o] = base[o] /\ s_observers'[o] = s_observers[o]
  BY <1>1, <1>2, LifecycleAssumption DEF IInv, CoreType
<1>5. WalkInv' /\ EventInv'
  BY DEF IInv, WalkInv, EventInv, svc_valid
<1>6. NewestInv'
  BY DEF IInv, NewestInv, Truthful
<1>7. ASSUME NEW o \in ObserverSlots, Registered(o)', ~s_observers'[o],
             NEW e \in events', e.version > base'[o][e.svc]
      PROVE  e \in got'[o] \/ \E t \in Tasks : call'[t].evt = e /\ PendingAt(t, o)'
  <2>1. e \in events /\ e \in Event /\ e.svc \in Slots /\ e.version \in Int
    BY DEF IInv, CoreType, Event
  <2>2. o # k
    <3>1. e.version <= s_services[e.svc].version /\ s_services[e.svc].version \in Int
      BY <2>1 DEF IInv, EventInv, CoreType, Service
    <3> QED  BY <1>3, <1>4, <1>7, <2>1, <3>1
  <2>3. Registered(o) /\ ~s_observers[o] /\ e.version > base[o][e.svc]
    BY <1>1, <1>4, <1>7, <2>2 DEF Registered, ObserverSlots, IInv, CoreType
  <2>4. e \in got[o] \/ \E t \in Tasks : call[t].evt = e /\ PendingAt(t, o)
    BY <2>1, <2>3 DEF IInv, NoLostNotification
  <2>5. ASSUME NEW t \in Tasks, PendingAt(t, o) PROVE call'[t] = call[t] /\ PendingAt(t, o)'
    BY <2>5 DEF PendingAt, Visiting
  <2> QED  BY <2>4, <2>5
<1>8. ASSUME NEW e \in events', e \notin emitted'
      PROVE  \E t \in Tasks : call'[t].pc \in {"load", "loop"} /\ call'[t].evt = e
  <2>1. PICK t \in Tasks : call[t].pc \in {"load", "loop"} /\ call[t].evt = e
    BY <1>8 DEF IInv, NoLostNotification
  <2>2. call'[t] = call[t]
    BY <2>1
  <2> QED  BY <2>1, <2>2
<1>9. NoLostNotification'
  BY <1>7, <1>8 DEF NoLostNotification
<1> QED  BY <1>4, <1>5, <1>6, <1>9

-----------------------------------------------------------------------------
(* The tables of reasons: nothing but bb_lifecycle_pause_assert adds a     *)
(* reason.                                                                 *)
LEMMA InternKeeps ==
    ASSUME ReasonType, NEW reason \in Reasons, NEW bit \in Bits, InternedBit(reason, bit)
    PROVE  /\ s_reasons' \in [Bits -> Truncated \cup {Unused}]
           /\ s_reason_count' \in 0 .. MaxReasons
<1>1. CASE reason_lookup(reason) # {}
  BY <1>1 DEF InternedBit, ReasonType
<1>2. CASE reason_lookup(reason) = {}
  <2>1. /\ s_reason_count < MaxReasons /\ s_reason_count' = s_reason_count + 1
        /\ s_reasons' = [s_reasons EXCEPT ![bit] = Trunc[reason]]
    BY <1>2 DEF InternedBit
  <2>2. Trunc[reason] \in Truncated
    BY DEF Truncated
  <2> QED  BY <2>1, <2>2, LifecycleAssumption DEF ReasonType
<1> QED  BY <1>1, <1>2

(* bb_lifecycle_register: a fresh slot has no history.                     *)
LEMMA RegisterStep ==
    ASSUME IInv, NEW t \in Tasks, NEW name \in Names, Register(t, name) PROVE IInv'
<1> DEFINE k == s_service_count
<1>0. PICK r : r = [EmptyService EXCEPT !.name = Trunc[name]]
  OBVIOUS
<1>1. /\ k < MaxServices /\ s_service_count' = k + 1
      /\ s_services' = [s_services EXCEPT ![k] = r]
      /\ UNCHANGED <<s_observers, s_observer_count, base, call, events, got, emitted>>
      /\ UNCHANGED <<asyncLive, s_async_q, s_async_ready, asyncLock, drain, dropped>>
      /\ UNCHANGED <<s_reasons, s_reason_count, held>>
  BY <1>0 DEF Register, observers, async, deliveries
<1>2. r \in Service /\ r.version = 0
  <2>1. Trunc[name] \in Truncated
    BY DEF Truncated
  <2>2. r = [name |-> Trunc[name], started |-> FALSE, inhibits |-> {}, version |-> 0]
    BY <1>0 DEF EmptyService
  <2> QED  BY <2>1, <2>2, LifecycleAssumption DEF Service
<1>3. k \in Slots /\ k \in Nat
  BY <1>1, LifecycleAssumption DEF IInv, CoreType, Slots
<1>4. /\ s_services' \in [Slots -> Service] /\ s_services'[k] = r
      /\ \A z \in Slots \ {k} : s_services'[z] = s_services[z]
  BY <1>1, <1>2, <1>3 DEF IInv, CoreType
<1>5. CoreType'
  BY <1>1, <1>3, <1>4, LifecycleAssumption DEF IInv, CoreType
<1>6. AsyncType' /\ ReasonType' /\ WalkInv'
  BY <1>1 DEF IInv, AsyncType, ReasonType, WalkInv
<1>7. \A e \in events : e.svc \in Slots /\ e.svc # k
  BY <1>3 DEF IInv, EventInv, svc_valid, CoreType, Event
<1>8. EventInv'
  BY <1>1, <1>3, <1>4, <1>7 DEF IInv, EventInv, svc_valid, Slots
<1>9. NewestInv'
  BY <1>1, <1>2, <1>4 DEF IInv, NewestInv, Truthful
<1>10. NoLostNotification'
  BY <1>1 DEF IInv, NoLostNotification, Registered, PendingAt, Visiting
<1> QED  BY <1>5, <1>6, <1>8, <1>9, <1>10 DEF IInv

(* bb_lifecycle_start.                                                     *)
LEMMA StartStep ==
    ASSUME IInv, NEW t \in Tasks, NEW svc \in Slots, Start(t, svc) PROVE IInv'
<1>1. PICK c : c = [s_services[svc] EXCEPT !.started = TRUE]
  OBVIOUS
<1>2. c \in Service /\ c.version = s_services[svc].version
  BY <1>1 DEF IInv, CoreType, Service
<1>3. /\ call[t].pc = "idle" /\ svc_valid(svc) /\ Commit(t, svc, c, NoBit)
      /\ UNCHANGED <<s_reasons, s_reason_count, held>>
  BY <1>1 DEF Start
<1>4. CoreType' /\ AsyncType' /\ WalkInv' /\ EventInv' /\ NewestInv' /\ NoLostNotification'
  BY <1>2, <1>3, CommitKeeps
<1>5. ReasonType'
  BY <1>3 DEF IInv, ReasonType
<1> QED  BY <1>4, <1>5 DEF IInv

(* bb_lifecycle_stop.                                                      *)
LEMMA StopStep ==
    ASSUME IInv, NEW t \in Tasks, NEW svc \in Slots, Stop(t, svc) PROVE IInv'
<1>1. PICK c : c = [s_services[svc] EXCEPT !.started = FALSE, !.inhibits = {}]
  OBVIOUS
<1>2. c \in Service /\ c.version = s_services[svc].version
  <2>1. s_services[svc] \in Service
    BY DEF IInv, CoreType
  <2>2. c = [name |-> s_services[svc].name, started |-> FALSE, inhibits |-> {},
             version |-> s_services[svc].version]
    BY <1>1, <2>1 DEF Service
  <2> QED  BY <2>1, <2>2 DEF Service
<1>3. /\ call[t].pc = "idle" /\ svc_valid(svc) /\ Commit(t, svc, c, NoBit)
      /\ held' \subseteq held /\ UNCHANGED <<s_reasons, s_reason_count>>
  BY <1>1 DEF Stop
<1>4. CoreType' /\ AsyncType' /\ WalkInv' /\ EventInv' /\ NewestInv' /\ NoLostNotification'
  BY <1>2, <1>3, CommitKeeps
<1>5. ReasonType'
  BY <1>3 DEF IInv, ReasonType
<1> QED  BY <1>4, <1>5 DEF IInv

(* A change of one bit.                                                    *)
LEMMA BitChange ==
    ASSUME CoreType, NEW svc \in Slots, NEW I \in SUBSET Bits
    PROVE  /\ [s_services[svc] EXCEPT !.inhibits = I] \in Service
           /\ [s_services[svc] EXCEPT !.inhibits = I].version = s_services[svc].version
           /\ [s_services[svc] EXCEPT !.inhibits = I].inhibits = I
           /\ [s_services[svc] EXCEPT !.inhibits = I].started = s_services[svc].started
<1>1. s_services[svc] \in Service
  BY DEF CoreType
<1> QED  BY <1>1 DEF Service

(* bb_lifecycle_pause_assert, with or without a commit.                    *)
LEMMA PauseAssertStep ==
    ASSUME IInv, NEW t \in Tasks, NEW svc \in Slots, NEW reason \in Reasons,
           PauseAssert(t, svc, reason)
    PROVE  IInv'
<1>1. PICK bit \in Bits :
         /\ InternedBit(reason, bit)
         /\ IF bit \in s_services[svc].inhibits
              THEN UNCHANGED <<s_services, s_service_count, observers, async, call,
                               events, deliveries>>
              ELSE Commit(t, svc,
                          [s_services[svc] EXCEPT !.inhibits = @ \cup {bit}], bit)
  BY DEF PauseAssert
<1>2. call[t].pc = "idle" /\ svc_valid(svc) /\ held' = held \cup {<<svc, reason>>}
  BY DEF PauseAssert
<1>3. ReasonType'
  BY <1>1, <1>2, InternKeeps DEF IInv, ReasonType
<1>4. CASE bit \in s_services[svc].inhibits
  <2>1. /\ Same /\ UNCHANGED <<call, got, emitted>>
        /\ UNCHANGED <<asyncLive, s_async_q, s_async_ready, asyncLock, drain, dropped>>
    BY <1>1, <1>4 DEF observers, async, deliveries, Same
  <2>2. CoreType' /\ AsyncType'
    BY <2>1 DEF IInv, CoreType, AsyncType, Same
  <2>3. WalkInv' /\ EventInv' /\ NewestInv' /\ NoLostNotification'
    BY <2>1, AsideKept
  <2> QED  BY <1>3, <2>2, <2>3 DEF IInv
<1>5. CASE bit \notin s_services[svc].inhibits
  <2>1. s_services[svc].inhibits \cup {bit} \in SUBSET Bits
    BY DEF IInv, CoreType, Service
  <2>2. PICK c : c = [s_services[svc] EXCEPT !.inhibits = s_services[svc].inhibits \cup {bit}]
    OBVIOUS
  <2>3. Commit(t, svc, c, bit)
    BY <1>1, <1>5, <2>2
  <2>4. c \in Service /\ c.version = s_services[svc].version
    BY <2>1, <2>2, BitChange DEF IInv
  <2>5. CoreType' /\ AsyncType' /\ WalkInv' /\ EventInv' /\ NewestInv' /\ NoLostNotification'
    BY <1>2, <2>3, <2>4, CommitKeeps
  <2> QED  BY <1>3, <2>5 DEF IInv
<1> QED  BY <1>4, <1>5

(* bb_lifecycle_pause_clear, with or without a commit.                     *)
LEMMA PauseClearStep ==
    ASSUME IInv, NEW t \in Tasks, NEW svc \in Slots, NEW reason \in Reasons,
           PauseClear(t, svc, reason)
    PROVE  IInv'
<1> DEFINE bits == reason_lookup(reason) \cap s_services[svc].inhibits
<1>1. /\ call[t].pc = "idle" /\ svc_valid(svc) /\ held' = held \ {<<svc, reason>>}
      /\ UNCHANGED <<s_reasons, s_reason_count>>
  BY DEF PauseClear
<1>2. ReasonType'
  BY <1>1 DEF IInv, ReasonType
<1>3. CASE bits = {}
  <2>1. /\ Same /\ UNCHANGED <<call, got, emitted>>
        /\ UNCHANGED <<asyncLive, s_async_q, s_async_ready, asyncLock, drain, dropped>>
    BY <1>3 DEF PauseClear, observers, async, deliveries, Same
  <2>2. CoreType' /\ AsyncType'
    BY <2>1 DEF IInv, CoreType, AsyncType, Same
  <2>3. WalkInv' /\ EventInv' /\ NewestInv' /\ NoLostNotification'
    BY <2>1, AsideKept
  <2> QED  BY <1>2, <2>2, <2>3 DEF IInv
<1>4. CASE bits # {}
  <2>1. PICK bit \in bits :
            Commit(t, svc, [s_services[svc] EXCEPT !.inhibits = @ \ {bit}], bit)
    BY <1>4 DEF PauseClear
  <2>2. bit \in Bits
    BY <2>1 DEF reason_lookup
  <2>3. s_services[svc].inhibits \ {bit} \in SUBSET Bits
    BY DEF IInv, CoreType, Service
  <2>4. PICK c : c = [s_services[svc] EXCEPT !.inhibits = s_services[svc].inhibits \ {bit}]
    OBVIOUS
  <2>5. Commit(t, svc, c, bit)
    BY <2>1, <2>4
  <2>6. c \in Service /\ c.version = s_services[svc].version
    BY <2>3, <2>4, BitChange DEF IInv
  <2>7. CoreType' /\ AsyncType' /\ WalkInv' /\ EventInv' /\ NewestInv' /\ NoLostNotification'
    BY <1>1, <2>2, <2>5, <2>6, CommitKeeps
  <2> QED  BY <1>2, <2>7 DEF IInv
<1> QED  BY <1>3, <1>4
-----------------------------------------------------------------------------
(* bb_lifecycle_observe.                                                   *)
LEMMA ObserveStep ==
    ASSUME IInv, NEW t \in Tasks, Observe(t) PROVE IInv'
<1>1. /\ ObserveSlot(FALSE)
      /\ UNCHANGED <<s_services, s_service_count, events, got, emitted, call, dropped>>
      /\ UNCHANGED <<asyncLive, s_async_q, s_async_ready, asyncLock, drain>>
      /\ UNCHANGED <<s_reasons, s_reason_count, held>>
  BY DEF Observe, tables, async, deliveries
<1>2. /\ s_observers' \in [ObserverSlots -> BOOLEAN]
      /\ s_observer_count' \in 0 .. MaxObservers
      /\ base' \in [ObserverSlots -> [Slots -> 0 .. MaxVersion]]
      /\ WalkInv' /\ EventInv' /\ NewestInv' /\ NoLostNotification'
  BY <1>1, ObserveSlotKeeps
<1>3. CoreType'
  BY <1>1, <1>2 DEF IInv, CoreType
<1>4. AsyncType' /\ ReasonType'
  BY <1>1 DEF IInv, AsyncType, ReasonType
<1> QED  BY <1>2, <1>3, <1>4 DEF IInv

(* The steps of bb_lifecycle_observe_async move one task outside notify_all*)
(* and touch neither the tables nor the histories.                         *)
LEMMA AsyncMoves ==
    ASSUME IInv, NEW t \in Tasks, NEW l \in CallPCs,
           call[t].pc \notin {"load", "loop"}, l \notin {"load", "loop"},
           call' = [call EXCEPT ![t].pc = l],
           Same, UNCHANGED <<got, emitted>>, UNCHANGED <<s_reasons, s_reason_count, held>>,
           AsyncType'
    PROVE  IInv'
<1>1. /\ call' \in [Tasks -> Frame] /\ \A z \in Tasks : call'[z].pc \in CallPCs
      /\ call'[t].pc = l /\ \A z \in Tasks \ {t} : call'[z] = call[z]
  BY TaskMoves DEF IInv, CoreType
<1>2. \A z \in Tasks : call'[z] = call[z] \/ (/\ call[z].pc \notin {"load", "loop"}
                                              /\ call'[z].pc \notin {"load", "loop"})
  BY <1>1
<1>3. WalkInv' /\ EventInv' /\ NewestInv' /\ NoLostNotification'
  BY <1>2, AsideKept
<1>4. CoreType'
  BY <1>1 DEF IInv, CoreType, Same
<1>5. ReasonType'
  BY DEF IInv, ReasonType
<1> QED  BY <1>3, <1>4, <1>5 DEF IInv

(* bb_lifecycle_observe_async begins.                                      *)
LEMMA ObserveAsyncStep ==
    ASSUME IInv, NEW t \in Tasks, ObserveAsync(t) PROVE IInv'
<1>1. /\ call[t].pc = "idle" /\ call' = [call EXCEPT ![t].pc = "asyncLock"]
      /\ Same /\ UNCHANGED <<got, emitted>> /\ UNCHANGED <<s_reasons, s_reason_count, held>>
      /\ UNCHANGED <<asyncLive, s_async_q, s_async_ready, asyncLock, drain, dropped>>
  BY DEF ObserveAsync, tables, observers, async, deliveries, Same
<1>2. AsyncType'
  BY <1>1 DEF IInv, AsyncType
<1>3. "asyncLock" \in CallPCs
  BY DEF CallPCs
<1> QED  BY <1>1, <1>2, <1>3, AsyncMoves

(* ensure_async_started takes s_async_lock.                                *)
LEMMA AsyncLockStep ==
    ASSUME IInv, NEW t \in Tasks, AsyncLock(t) PROVE IInv'
<1>1. /\ call[t].pc = "asyncLock"
      /\ Same /\ UNCHANGED <<got, emitted>> /\ UNCHANGED <<s_reasons, s_reason_count, held>>
      /\ UNCHANGED <<asyncLive, s_async_q, s_async_ready, drain, dropped>>
      /\ asyncLock' \in {asyncLock, t}
  BY DEF AsyncLock, tables, observers, deliveries, Same
<1>2. PICK l \in {"asyncSlot", "asyncQueue"} : call' = [call EXCEPT ![t].pc = l]
  BY DEF AsyncLock
<1>3. AsyncType'
  BY <1>1 DEF IInv, AsyncType
<1>4. l \in CallPCs /\ l \notin {"load", "loop"}
  BY <1>2 DEF CallPCs
<1> QED  BY <1>1, <1>2, <1>3, <1>4, AsyncMoves

(* A new queue is within its depth.                                        *)
LEMMA EmptyQueue == << >> \in Seq(Event) /\ Len(<< >>) <= QueueDepth
<1>1. Len(<< >>) = 0 /\ << >> \in Seq(Event)
  OBVIOUS
<1>2. 0 <= QueueDepth
  BY LifecycleAssumption
<1> QED  BY <1>1, <1>2

(* async_init: bb_bqueue_create.                                           *)
LEMMA AsyncCreateQueueStep ==
    ASSUME IInv, NEW t \in Tasks, AsyncCreateQueue(t) PROVE IInv'
<1>1. /\ call[t].pc = "asyncQueue"
      /\ Same /\ UNCHANGED <<got, emitted>> /\ UNCHANGED <<s_reasons, s_reason_count, held>>
      /\ UNCHANGED <<s_async_ready, drain, dropped>>
      /\ asyncLock' \in {asyncLock, "free"} /\ asyncLive' \in {asyncLive, TRUE}
      /\ s_async_q' = s_async_q \/ s_async_q' = <<>>
  BY DEF AsyncCreateQueue, tables, observers, deliveries, Same
<1>2. PICK l \in {"asyncTask", "idle"} : call' = [call EXCEPT ![t].pc = l]
  BY DEF AsyncCreateQueue
<1>3. s_async_q' \in Seq(Event) /\ Len(s_async_q') <= QueueDepth
  <2>1. CASE s_async_q' = s_async_q
    BY <2>1 DEF IInv, AsyncType
  <2>2. CASE s_async_q' = <<>>
    BY <2>2, EmptyQueue
  <2> QED  BY <1>1, <2>1, <2>2
<1>4. AsyncType'
  BY <1>1, <1>3 DEF IInv, AsyncType
<1>5. l \in CallPCs /\ l \notin {"load", "loop"}
  BY <1>2 DEF CallPCs
<1> QED  BY <1>1, <1>2, <1>4, <1>5, AsyncMoves

(* async_init: bb_task_create.                                             *)
LEMMA AsyncCreateTaskStep ==
    ASSUME IInv, NEW t \in Tasks, AsyncCreateTask(t) PROVE IInv'
<1>1. /\ call[t].pc = "asyncTask"
      /\ Same /\ UNCHANGED <<got, emitted>> /\ UNCHANGED <<s_reasons, s_reason_count, held>>
      /\ UNCHANGED <<s_async_q, dropped>>
      /\ asyncLock' = "free" /\ asyncLive' \in {asyncLive, FALSE}
      /\ s_async_ready' \in {s_async_ready, TRUE}
      /\ drain' = drain \/ drain' = [drain EXCEPT !.pc = "wait"]
  BY DEF AsyncCreateTask, tables, observers, deliveries, Same
<1>2. PICK l \in {"asyncSlot", "idle"} : call' = [call EXCEPT ![t].pc = l]
  BY DEF AsyncCreateTask
<1>3. drain' \in Frame /\ (drain' = drain \/ drain'.pc = "wait")
  BY <1>1 DEF IInv, AsyncType, Frame
<1>4. AsyncType'
  BY <1>1, <1>3 DEF IInv, AsyncType
<1>5. l \in CallPCs /\ l \notin {"load", "loop"}
  BY <1>2 DEF CallPCs
<1> QED  BY <1>1, <1>2, <1>4, <1>5, AsyncMoves

(* The asynchronous observer's slot is appended, or the table is full.     *)
LEMMA AsyncSlotStep ==
    ASSUME IInv, NEW t \in Tasks, AsyncSlot(t) PROVE IInv'
<1>1. /\ call[t].pc = "asyncSlot" /\ call' = [call EXCEPT ![t].pc = "idle"]
      /\ UNCHANGED <<s_services, s_service_count, events, got, emitted, dropped>>
      /\ UNCHANGED <<asyncLive, s_async_q, s_async_ready, asyncLock, drain>>
      /\ UNCHANGED <<s_reasons, s_reason_count, held>>
      /\ ObserveSlot(TRUE) \/ UNCHANGED <<s_observers, s_observer_count, base>>
  BY DEF AsyncSlot, tables, async, deliveries, observers
<1>2. AsyncType' /\ ReasonType'
  BY <1>1 DEF IInv, AsyncType, ReasonType
<1>3. "idle" \in CallPCs
  BY DEF CallPCs
<1>4. CASE UNCHANGED <<s_observers, s_observer_count, base>>
  BY <1>1, <1>2, <1>3, <1>4, AsyncMoves DEF Same
<1>5. CASE ObserveSlot(TRUE)
  <2>1. /\ call' \in [Tasks -> Frame] /\ \A z \in Tasks : call'[z].pc \in CallPCs
        /\ call'[t].pc = "idle" /\ \A z \in Tasks \ {t} : call'[z] = call[z]
    BY <1>1, <1>3, TaskMoves DEF IInv, CoreType
  <2>2. \A z \in Tasks : call'[z] = call[z] \/ (/\ call[z].pc \notin {"load", "loop"}
                                                /\ call'[z].pc \notin {"load", "loop"})
    BY <1>1, <2>1
  <2>3. /\ s_observers' \in [ObserverSlots -> BOOLEAN]
        /\ s_observer_count' \in 0 .. MaxObservers
        /\ base' \in [ObserverSlots -> [Slots -> 0 .. MaxVersion]]
        /\ WalkInv' /\ EventInv' /\ NewestInv' /\ NoLostNotification'
    BY <1>1, <1>5, <2>2, ObserveSlotKeeps
  <2>4. CoreType'
    BY <1>1, <2>1, <2>3 DEF IInv, CoreType
  <2> QED  BY <1>2, <2>3, <2>4 DEF IInv
<1> QED  BY <1>1, <1>4, <1>5

-----------------------------------------------------------------------------
(* notify_all loads the number of slots: every registered slot is ahead.   *)
LEMMA NotifyLoadStep ==
    ASSUME IInv, NEW t \in Tasks, NotifyLoad(t) PROVE IInv'
<1>1. /\ call[t].pc = "load"
      /\ call' = [call EXCEPT ![t].pc = "loop", ![t].n = s_observer_count]
      /\ Same /\ UNCHANGED <<got, emitted>> /\ UNCHANGED <<s_reasons, s_reason_count, held>>
      /\ UNCHANGED <<asyncLive, s_async_q, s_async_ready, asyncLock, drain, dropped>>
  BY DEF NotifyLoad, tables, observers, async, deliveries, Same
<1>2. call[t] \in Frame /\ call[t].evt \in Event /\ call[t].i = 0
      /\ s_observer_count \in 0 .. MaxObservers
  BY <1>1 DEF IInv, CoreType, WalkInv
<1>3. PICK f : f = [pc |-> "loop", evt |-> call[t].evt, i |-> 0, n |-> s_observer_count]
  OBVIOUS
<1>4. f \in Frame
  BY <1>2, <1>3, LifecycleAssumption DEF Frame, CallPCs
<1>5. call'[t] = f /\ \A z \in Tasks \ {t} : call'[z] = call[z]
  BY <1>1, <1>2, <1>3 DEF IInv, CoreType, Frame
<1>6. call' \in [Tasks -> Frame] /\ \A z \in Tasks : call'[z].pc \in CallPCs
  <2>1. DOMAIN call' = Tasks /\ call' = [z \in Tasks |-> call'[z]]
    BY <1>1 DEF IInv, CoreType
  <2>2. \A z \in Tasks : call'[z] \in Frame /\ call'[z].pc \in CallPCs
    BY <1>3, <1>4, <1>5 DEF IInv, CoreType, CallPCs
  <2> QED  BY <2>1, <2>2
<1>7. CoreType'
  BY <1>1, <1>6 DEF IInv, CoreType, Same
<1>8. AsyncType' /\ ReasonType'
  BY <1>1 DEF IInv, AsyncType, ReasonType
<1>9. WalkInv'
  BY <1>2, <1>3, <1>5 DEF IInv, WalkInv
<1>10. \A z \in Tasks, o \in ObserverSlots : PendingAt(z, o) /\ Registered(o) =>
           call'[z].evt = call[z].evt /\ PendingAt(z, o)'
  BY <1>2, <1>3, <1>5 DEF PendingAt, Visiting, Registered, ObserverSlots
<1>11. \A z \in Tasks : call[z].pc \in {"load", "loop"} =>
           call'[z].evt = call[z].evt /\ call'[z].pc \in {"load", "loop"}
  BY <1>3, <1>5
<1>12. EventInv' /\ NewestInv' /\ NoLostNotification'
  BY <1>1, <1>10, <1>11, DueKept
<1> QED  BY <1>7, <1>8, <1>9, <1>12 DEF IInv

(* One slot: a synchronous observer is called before the walk passes it.   *)
LEMMA NotifySlotStep ==
    ASSUME IInv, NEW t \in Tasks, NotifySlot(t) PROVE IInv'
<1> DEFINE k == call[t].i
           e == call[t].evt
<1>1. /\ call[t].pc = "loop" /\ k < call[t].n
      /\ call' = [call EXCEPT ![t].i = k + 1]
      /\ Same /\ UNCHANGED emitted /\ UNCHANGED <<s_reasons, s_reason_count, held>>
      /\ UNCHANGED <<asyncLive, s_async_q, s_async_ready, asyncLock, drain, dropped>>
      /\ IF s_observers[k] THEN UNCHANGED got ELSE got' = [got EXCEPT ![k] = @ \cup {e}]
  BY DEF NotifySlot, Visiting, Called, tables, observers, async, Same
<1>2. call[t] \in Frame /\ e \in Event /\ k \in 0 .. MaxObservers
      /\ call[t].n \in 0 .. MaxObservers
  BY <1>1 DEF IInv, CoreType, WalkInv, Frame
<1>3. k \in ObserverSlots /\ k + 1 \in 0 .. MaxObservers
  BY <1>1, <1>2, LifecycleAssumption DEF ObserverSlots
<1>4. /\ call'[t] = [call[t] EXCEPT !.i = k + 1] /\ \A z \in Tasks \ {t} : call'[z] = call[z]
      /\ DOMAIN call' = Tasks /\ call' = [z \in Tasks |-> call'[z]]
  BY <1>1 DEF IInv, CoreType
<1>5. /\ call'[t].pc = "loop" /\ call'[t].evt = e /\ call'[t].i = k + 1
      /\ call'[t].n = call[t].n /\ call'[t] \in Frame
  BY <1>1, <1>2, <1>3, <1>4 DEF Frame
<1>6. call' \in [Tasks -> Frame] /\ \A z \in Tasks : call'[z].pc \in CallPCs
  <2>1. call'[t].pc \in CallPCs
    BY <1>5 DEF CallPCs
  <2>2. \A z \in Tasks : call'[z] \in Frame /\ call'[z].pc \in CallPCs
    BY <1>4, <1>5, <2>1 DEF IInv, CoreType
  <2> QED  BY <1>4, <2>2
<1>7. /\ got' \in [ObserverSlots -> SUBSET Event]
      /\ \A o \in ObserverSlots : got[o] \subseteq got'[o]
      /\ ~s_observers[k] => e \in got'[k]
  <2>1. CASE s_observers[k]
    BY <1>1, <2>1 DEF IInv, CoreType
  <2>2. CASE ~s_observers[k]
    <3>1. got' = [got EXCEPT ![k] = got[k] \cup {e}]
      BY <1>1, <2>2
    <3>2. got \in [ObserverSlots -> SUBSET Event]
      BY DEF IInv, CoreType
    <3> HIDE DEF k, e
    <3> QED  BY <1>2, <1>3, <3>1, <3>2
  <2> QED  BY <2>1, <2>2
<1>8. CoreType'
  BY <1>1, <1>6, <1>7 DEF IInv, CoreType, Same
<1>9. AsyncType' /\ ReasonType'
  BY <1>1 DEF IInv, AsyncType, ReasonType
<1>10. WalkInv'
  <2>1. call'[t].pc = "loop" /\ call'[t].evt \in Event
    BY <1>2, <1>5
  <2>2. \A z \in Tasks \ {t} : call'[z] = call[z]
    BY <1>4
  <2> QED  BY <2>1, <2>2 DEF IInv, WalkInv
<1>11. ASSUME NEW z \in Tasks, NEW o \in ObserverSlots, PendingAt(z, o), Registered(o),
              ~s_observers[o]
       PROVE  (call'[z].evt = call[z].evt /\ PendingAt(z, o)') \/ call[z].evt \in got'[o]
  <2>1. CASE z # t
    BY <1>4, <1>11, <2>1 DEF PendingAt, Visiting
  <2>2. CASE z = t /\ o = k
    BY <1>7, <1>11, <2>2
  <2>3. CASE z = t /\ o # k
    BY <1>1, <1>2, <1>5, <1>11, <2>3 DEF PendingAt, Visiting, ObserverSlots
  <2> QED  BY <2>1, <2>2, <2>3
<1>12. \A z \in Tasks : call[z].pc \in {"load", "loop"} =>
           call'[z].evt = call[z].evt /\ call'[z].pc \in {"load", "loop"}
  BY <1>4, <1>5
<1>13. EventInv' /\ NewestInv' /\ NoLostNotification'
  BY <1>1, <1>7, <1>11, <1>12, DueKept
<1> QED  BY <1>8, <1>9, <1>10, <1>13 DEF IInv

(* The end of the walk: nothing is pending, and the emit sink is called.   *)
LEMMA NotifyEndStep ==
    ASSUME IInv, NEW t \in Tasks, NotifyEnd(t) PROVE IInv'
<1> DEFINE e == call[t].evt
<1>1. /\ call[t].pc = "loop" /\ ~ Visiting(call[t])
      /\ call' = [call EXCEPT ![t] = Idle] /\ emitted' = emitted \cup {e}
      /\ Same /\ UNCHANGED got /\ UNCHANGED <<s_reasons, s_reason_count, held>>
      /\ UNCHANGED <<asyncLive, s_async_ready, asyncLock, drain>>
      /\ AsyncSend(e) \/ UNCHANGED <<s_async_q, dropped>>
  BY DEF NotifyEnd, tables, observers, Same
<1>2. e \in Event
  BY <1>1 DEF IInv, WalkInv
<1>3. Idle \in Frame /\ Idle.pc = "idle" /\ "idle" \in CallPCs
  BY LifecycleAssumption DEF Idle, Frame, CallPCs
<1>4. /\ call' \in [Tasks -> Frame] /\ \A z \in Tasks : call'[z].pc \in CallPCs
      /\ call'[t] = Idle /\ \A z \in Tasks \ {t} : call'[z] = call[z]
  BY <1>1, <1>3 DEF IInv, CoreType
<1>5. CoreType'
  BY <1>1, <1>2, <1>4 DEF IInv, CoreType, Same
<1>6. /\ s_async_q' \in Seq(Event) /\ Len(s_async_q') <= QueueDepth
      /\ dropped' \subseteq Event
  <2>1. s_async_q \in Seq(Event) /\ Len(s_async_q) <= QueueDepth /\ dropped \subseteq Event
    BY DEF IInv, AsyncType
  <2>2. CASE UNCHANGED <<s_async_q, dropped>>
    BY <2>1, <2>2
  <2>3. CASE AsyncSend(e)
    BY <1>2, <2>1, <2>3, LifecycleAssumption DEF AsyncSend
  <2> QED  BY <1>1, <2>2, <2>3
<1>7. AsyncType' /\ ReasonType'
  BY <1>1, <1>6 DEF IInv, AsyncType, ReasonType
<1>8. WalkInv'
  BY <1>3, <1>4 DEF IInv, WalkInv
<1>9. \A z \in Tasks, o \in ObserverSlots : PendingAt(z, o) =>
          call'[z].evt = call[z].evt /\ PendingAt(z, o)'
  BY <1>1, <1>4 DEF PendingAt, Visiting
<1>10. \A z \in Tasks : call[z].pc \in {"load", "loop"} =>
           (call'[z].evt = call[z].evt /\ call'[z].pc \in {"load", "loop"})
           \/ call[z].evt \in emitted'
  BY <1>1, <1>4
<1>11. EventInv' /\ NewestInv' /\ NoLostNotification'
  BY <1>1, <1>9, <1>10, DueKept
<1> QED  BY <1>5, <1>7, <1>8, <1>11 DEF IInv

-----------------------------------------------------------------------------
(* The drain task touches nothing a synchronous observer depends on.       *)
LEMMA DrainStep ==
    ASSUME IInv, Drain PROVE IInv'
<1>1. /\ Same /\ UNCHANGED <<call, emitted, dropped>>
      /\ UNCHANGED <<s_reasons, s_reason_count, held>>
      /\ UNCHANGED <<asyncLive, s_async_ready, asyncLock>>
  BY DEF Drain, DrainReceive, DrainSlot, DrainEnd, tables, observers, deliveries, Same
<1>2. /\ drain \in Frame /\ drain.i \in 0 .. MaxObservers /\ drain.n \in 0 .. MaxObservers
      /\ s_async_q \in Seq(Event) /\ Len(s_async_q) <= QueueDepth
      /\ got \in [ObserverSlots -> SUBSET Event]
      /\ drain.pc \in {"none", "wait", "loop"} /\ drain.pc = "loop" => drain.evt \in Event
  BY DEF IInv, AsyncType, CoreType, Frame
<1>3. /\ drain' \in Frame /\ drain'.pc \in {"none", "wait", "loop"}
      /\ drain'.pc = "loop" => drain'.evt \in Event
      /\ s_async_q' \in Seq(Event) /\ Len(s_async_q') <= QueueDepth
      /\ got' \in [ObserverSlots -> SUBSET Event]
      /\ \A o \in ObserverSlots : got[o] \subseteq got'[o]
  <2>1. CASE DrainReceive
    <3>1. /\ drain' = [pc |-> "loop", evt |-> Head(s_async_q), i |-> 0, n |-> s_observer_count]
          /\ s_async_q # <<>> /\ s_async_q' = Tail(s_async_q) /\ UNCHANGED got
      BY <2>1 DEF DrainReceive, deliveries
    <3>2. Head(s_async_q) \in Event /\ Tail(s_async_q) \in Seq(Event)
          /\ Len(Tail(s_async_q)) <= QueueDepth
      BY <1>2, <3>1, LifecycleAssumption
    <3>3. drain' \in Frame /\ drain'.pc = "loop" /\ drain'.evt \in Event
      BY <3>1, <3>2, LifecycleAssumption DEF IInv, CoreType, Frame, CallPCs
    <3> QED  BY <1>2, <3>1, <3>2, <3>3
  <2>2. CASE DrainSlot
    <3>1. /\ drain.pc = "loop" /\ drain.i < drain.n /\ UNCHANGED s_async_q
          /\ drain' = [drain EXCEPT !.i = drain.i + 1]
          /\ UNCHANGED got \/ got' = [got EXCEPT ![drain.i] = @ \cup {drain.evt}]
      BY <2>2 DEF DrainSlot, Visiting, Called
    <3>2. drain.i \in ObserverSlots /\ drain.i + 1 \in 0 .. MaxObservers
      <4>1. drain.i < drain.n
        BY <3>1
      <4> QED  BY <1>2, <4>1, LifecycleAssumption DEF ObserverSlots
    <3>3. drain' \in Frame /\ drain'.pc = "loop" /\ drain'.evt = drain.evt
      BY <1>2, <3>1, <3>2 DEF Frame
    <3>4. got' \in [ObserverSlots -> SUBSET Event]
          /\ \A o \in ObserverSlots : got[o] \subseteq got'[o]
      BY <1>2, <3>1, <3>2
    <3> QED  BY <1>2, <3>1, <3>3, <3>4
  <2>3. CASE DrainEnd
    <3>1. UNCHANGED <<s_async_q, got>> /\ drain' = [Parked EXCEPT !.pc = "wait"]
      BY <2>3 DEF DrainEnd, deliveries
    <3>2. drain' = [pc |-> "wait", evt |-> NoEvent, i |-> 0, n |-> 0]
      BY <3>1 DEF Parked
    <3>3. drain' \in Frame /\ drain'.pc = "wait"
      BY <3>2, LifecycleAssumption DEF Frame
    <3> QED  BY <1>2, <3>1, <3>3
  <2> QED  BY <2>1, <2>2, <2>3 DEF Drain
<1>4. CoreType'
  BY <1>1, <1>3 DEF IInv, CoreType, Same
<1>5. AsyncType' /\ ReasonType'
  BY <1>1, <1>3 DEF IInv, AsyncType, ReasonType
<1>6. WalkInv' /\ EventInv' /\ NewestInv' /\ NoLostNotification'
  BY <1>1, <1>3, AsideKept
<1> QED  BY <1>4, <1>5, <1>6 DEF IInv

-----------------------------------------------------------------------------
(* The initial state.                                                      *)
LEMMA InitIInv == Init => IInv
<1> SUFFICES ASSUME Init PROVE IInv
  OBVIOUS
<1>1. EmptyService \in Service /\ EmptyService.version = 0
  BY LifecycleAssumption DEF EmptyService, Service
<1>2. Idle \in Frame /\ Idle.pc = "idle" /\ "idle" \in CallPCs
  BY LifecycleAssumption DEF Idle, Frame, CallPCs
<1>3. Parked \in Frame /\ Parked.pc = "none"
  BY LifecycleAssumption DEF Parked, Frame
<1>4. CoreType
  BY <1>1, <1>2, LifecycleAssumption DEF Init, CoreType
<1>5. AsyncType
  BY <1>3, EmptyQueue DEF Init, AsyncType
<1>6. ReasonType
  BY LifecycleAssumption DEF Init, ReasonType
<1>7. WalkInv /\ EventInv /\ NewestInv
  BY <1>1, <1>2 DEF Init, WalkInv, EventInv, NewestInv
<1>8. NoLostNotification
  BY DEF Init, NoLostNotification
<1> QED  BY <1>4, <1>5, <1>6, <1>7, <1>8 DEF IInv

(* Every step keeps the invariant.                                         *)
LEMMA NextIInv == IInv /\ [Next]_vars => IInv'
<1> SUFFICES ASSUME IInv, [Next]_vars PROVE IInv'
  OBVIOUS
<1>1. CASE UNCHANGED vars
  <2>1. /\ Same /\ UNCHANGED <<call, got, emitted, dropped>>
        /\ UNCHANGED <<s_reasons, s_reason_count, held>>
        /\ UNCHANGED <<asyncLive, s_async_q, s_async_ready, asyncLock, drain>>
    BY <1>1 DEF vars, tables, observers, async, deliveries, Same
  <2>2. CoreType' /\ AsyncType' /\ ReasonType'
    BY <2>1 DEF IInv, CoreType, AsyncType, ReasonType, Same
  <2>3. WalkInv' /\ EventInv' /\ NewestInv' /\ NoLostNotification'
    BY <2>1, AsideKept
  <2> QED  BY <2>2, <2>3 DEF IInv
<1>2. CASE Drain
  BY <1>2, DrainStep
<1>3. ASSUME NEW t \in Tasks, Mutator(t) PROVE IInv'
  BY <1>3, RegisterStep, StartStep, StopStep, PauseAssertStep, PauseClearStep, ObserveStep,
     ObserveAsyncStep DEF Mutator
<1>4. ASSUME NEW t \in Tasks, Continue(t) PROVE IInv'
  BY <1>4, AsyncLockStep, AsyncCreateQueueStep, AsyncCreateTaskStep, AsyncSlotStep,
     NotifyLoadStep, NotifySlotStep, NotifyEndStep DEF Continue
<1> QED  BY <1>1, <1>2, <1>3, <1>4 DEF Next

(* The inductive invariant holds.                                          *)
THEOREM AlwaysIInv == Spec => []IInv
  BY InitIInv, NextIInv, PTL DEF Spec

(* The tables of bb_lifecycle.c stay within their compiled sizes, the walk *)
(* of notify_all within the observer table and the queue within its depth. *)
THEOREM TypeCorrect == Spec => []TypeOK
<1>1. IInv => TypeOK
  BY DEF IInv, CoreType, AsyncType, ReasonType, TypeOK
<1> QED  BY <1>1, AlwaysIInv, PTL

(* notify_all loses nothing: an event committed after a synchronous        *)
(* observer's registration has reached it, or a task is still on its way   *)
(* to its slot with it; and so for the emit sink.                          *)
THEOREM NoLostNotificationHolds == Spec => []NoLostNotification
<1>1. IInv => NoLostNotification
  BY DEF IInv
<1> QED  BY <1>1, AlwaysIInv, PTL

(* With nothing of a service in flight, a synchronous observer that saw a  *)
(* transition holds the newest event, and it agrees with a query.          *)
THEOREM ObserverConvergesHolds == Spec => []ObserverConverges
<1>1. ASSUME IInv PROVE ObserverConverges
  <2>1. ASSUME NEW o \in ObserverSlots, NEW svc \in Slots, Registered(o), ~s_observers[o],
               ~InFlight(svc), s_services[svc].version > base[o][svc]
        PROVE  \E e \in got[o] :
                  /\ e.svc = svc /\ e.version = s_services[svc].version
                  /\ e.new = bb_lifecycle_state(svc)
                  /\ e.inhibits = {b \in s_services[svc].inhibits : b < WordBits}
    <3>1. base[o][svc] \in 0 .. MaxVersion /\ s_services[svc].version \in 0 .. MaxVersion
      BY <1>1 DEF IInv, CoreType, Service
    <3>2. s_services[svc].version > 0
      BY <2>1, <3>1, LifecycleAssumption
    <3>3. PICK e \in events : Truthful(e, svc)
      BY <1>1, <3>2 DEF IInv, NewestInv
    <3>4. e.version > base[o][e.svc] /\ svc_valid(svc)
      BY <1>1, <2>1, <3>3 DEF Truthful, IInv, EventInv
    <3>5. ASSUME NEW t \in Tasks, call[t].evt = e, PendingAt(t, o) PROVE FALSE
      BY <2>1, <3>3, <3>5 DEF InFlight, PendingAt, Visiting, Truthful
    <3>6. e \in got[o]
      BY <1>1, <2>1, <3>4, <3>5 DEF IInv, NoLostNotification
    <3> QED  BY <3>3, <3>4, <3>6 DEF Truthful, bb_lifecycle_state
  <2> QED  BY <2>1 DEF ObserverConverges
<1> QED  BY <1>1, AlwaysIInv, PTL

-----------------------------------------------------------------------------
(* PauseInv.  No two reasons are cut to the same text by copy_truncated:   *)
(* two that were would share a bit, and clearing one would resume a        *)
(* service the other still holds.                                          *)
Distinct == \A r1, r2 \in Reasons : Trunc[r1] = Trunc[r2] => r1 = r2

(* A step that changes no reason, no inhibit and no registration.          *)
LEMMA PauseKept ==
    ASSUME PauseInv, UNCHANGED <<held, s_reasons, s_reason_count>>,
           \A s \in Slots : s_services'[s].inhibits = s_services[s].inhibits,
           \A s \in Slots : svc_valid(s) => svc_valid(s)'
    PROVE  PauseInv'
  BY DEF PauseInv, BitOf

(* bb_lifecycle_register: a fresh slot has no bit set.                     *)
LEMMA RegisterPause ==
    ASSUME IInv, PauseInv, NEW t \in Tasks, NEW name \in Names, Register(t, name)
    PROVE  PauseInv'
<1>1. PICK r : r = [EmptyService EXCEPT !.name = Trunc[name]]
  OBVIOUS
<1>2. /\ s_service_count < MaxServices /\ s_service_count' = s_service_count + 1
      /\ s_services' = [s_services EXCEPT ![s_service_count] = r]
      /\ UNCHANGED <<held, s_reasons, s_reason_count>>
  BY <1>1 DEF Register
<1>3. r.inhibits = EmptyService.inhibits
  BY <1>1 DEF EmptyService
<1>4. s_service_count \in Slots /\ s_services[s_service_count] = EmptyService
  BY <1>2, LifecycleAssumption DEF IInv, CoreType, EventInv, Slots
<1>5. \A s \in Slots : s_services'[s].inhibits = s_services[s].inhibits
  BY <1>2, <1>3, <1>4 DEF IInv, CoreType
<1>6. \A s \in Slots : svc_valid(s) => svc_valid(s)'
  BY <1>2, LifecycleAssumption DEF IInv, CoreType, svc_valid, Slots
<1> QED  BY <1>2, <1>5, <1>6, PauseKept

(* bb_lifecycle_start leaves the inhibits alone.                           *)
LEMMA StartPause ==
    ASSUME IInv, PauseInv, NEW t \in Tasks, NEW svc \in Slots, Start(t, svc)
    PROVE  PauseInv'
<1>1. PICK c : c = [s_services[svc] EXCEPT !.started = TRUE]
  OBVIOUS
<1>2. c \in Service /\ c.version = s_services[svc].version
      /\ c.inhibits = s_services[svc].inhibits
  BY <1>1 DEF IInv, CoreType, Service
<1>3. /\ call[t].pc = "idle" /\ svc_valid(svc) /\ Commit(t, svc, c, NoBit)
      /\ UNCHANGED <<s_reasons, s_reason_count, held>>
  BY <1>1 DEF Start
<1>4. /\ s_service_count' = s_service_count /\ s_services'[svc].inhibits = c.inhibits
      /\ \A z \in Slots \ {svc} : s_services'[z] = s_services[z]
  BY <1>2, <1>3, CommitKeeps
<1> QED  BY <1>2, <1>3, <1>4, PauseKept DEF svc_valid

(* bb_lifecycle_stop sweeps every reason of its service.                   *)
LEMMA StopPause ==
    ASSUME IInv, PauseInv, NEW t \in Tasks, NEW svc \in Slots, Stop(t, svc)
    PROVE  PauseInv'
<1>1. PICK c : c = [s_services[svc] EXCEPT !.started = FALSE, !.inhibits = {}]
  OBVIOUS
<1>2. c \in Service /\ c.version = s_services[svc].version /\ c.inhibits = {}
  <2>1. s_services[svc] \in Service
    BY DEF IInv, CoreType
  <2>2. c = [name |-> s_services[svc].name, started |-> FALSE, inhibits |-> {},
             version |-> s_services[svc].version]
    BY <1>1, <2>1 DEF Service
  <2> QED  BY <2>1, <2>2 DEF Service
<1>3. /\ call[t].pc = "idle" /\ svc_valid(svc) /\ Commit(t, svc, c, NoBit)
      /\ UNCHANGED <<s_reasons, s_reason_count>> /\ held' = {h \in held : h[1] # svc}
  BY <1>1 DEF Stop
<1>4. /\ s_service_count' = s_service_count /\ s_services'[svc].inhibits = {}
      /\ \A z \in Slots \ {svc} : s_services'[z] = s_services[z]
  BY <1>2, <1>3, CommitKeeps
<1>5. \A s, r : <<s, r>> \in held' <=> <<s, r>> \in held /\ s # svc
  BY <1>3
<1> QED  BY <1>3, <1>4, <1>5 DEF PauseInv, BitOf, svc_valid

(* reason_intern_locked: the bit is the reason's, no reason loses its own  *)
(* and no text gets a second one.                                          *)
LEMMA InternGives ==
    ASSUME ReasonType, PauseInv, NEW reason \in Reasons, NEW bit \in Bits,
           InternedBit(reason, bit)
    PROVE  /\ BitOf(reason, bit)'
           /\ \A r \in Reasons, b \in Bits : BitOf(r, b) => BitOf(r, b)'
           /\ \A b, c \in Bits : b < s_reason_count' /\ c < s_reason_count'
                                 /\ s_reasons'[b] = s_reasons'[c] => b = c
<1>1. CASE reason_lookup(reason) # {}
  <2>1. bit \in reason_lookup(reason) /\ UNCHANGED <<s_reasons, s_reason_count>>
    BY <1>1 DEF InternedBit
  <2> QED  BY <2>1 DEF reason_lookup, BitOf, PauseInv
<1>2. CASE reason_lookup(reason) = {}
  <2>1. /\ s_reason_count < MaxReasons /\ s_reason_count' = s_reason_count + 1
        /\ bit = s_reason_count /\ s_reasons' = [s_reasons EXCEPT ![bit] = Trunc[reason]]
    BY <1>2 DEF InternedBit
  <2>2. s_reasons'[bit] = Trunc[reason] /\ \A b \in Bits \ {bit} : s_reasons'[b] = s_reasons[b]
    BY <2>1 DEF ReasonType
  <2>3. \A b \in Bits : b < s_reason_count => b # bit /\ s_reasons[b] # Trunc[reason]
    BY <1>2, <2>1 DEF reason_lookup, Bits
  <2>4. s_reason_count \in Nat /\ \A b \in Bits : b < s_reason_count' <=> b < s_reason_count \/ b = bit
    BY <2>1, LifecycleAssumption DEF ReasonType, Bits
  <2>5. BitOf(reason, bit)'
    BY <2>2, <2>4 DEF BitOf
  <2>6. \A r \in Reasons, b \in Bits : BitOf(r, b) => BitOf(r, b)'
    BY <2>2, <2>3, <2>4 DEF BitOf
  <2>7. ASSUME NEW b \in Bits, NEW c \in Bits, b < s_reason_count', c < s_reason_count',
               s_reasons'[b] = s_reasons'[c]
        PROVE  b = c
    BY <2>2, <2>3, <2>4, <2>7 DEF PauseInv
  <2> QED  BY <2>5, <2>6, <2>7
<1> QED  BY <1>1, <1>2

(* bb_lifecycle_pause_assert: the reason's bit is set when it returns OK.  *)
LEMMA PauseAssertPause ==
    ASSUME IInv, PauseInv, NEW t \in Tasks, NEW svc \in Slots, NEW reason \in Reasons,
           PauseAssert(t, svc, reason)
    PROVE  PauseInv'
<1> DEFINE I == s_services[svc].inhibits
<1>1. PICK bit \in Bits :
         /\ InternedBit(reason, bit)
         /\ IF bit \in I
              THEN UNCHANGED <<s_services, s_service_count, observers, async, call,
                               events, deliveries>>
              ELSE Commit(t, svc, [s_services[svc] EXCEPT !.inhibits = @ \cup {bit}], bit)
  BY DEF PauseAssert
<1>2. call[t].pc = "idle" /\ svc_valid(svc) /\ held' = held \cup {<<svc, reason>>}
  BY DEF PauseAssert
<1>3. /\ BitOf(reason, bit)'
      /\ \A r \in Reasons, b \in Bits : BitOf(r, b) => BitOf(r, b)'
      /\ \A b, c \in Bits : b < s_reason_count' /\ c < s_reason_count'
                            /\ s_reasons'[b] = s_reasons'[c] => b = c
  BY <1>1, InternGives DEF IInv
<1>4. /\ s_service_count' = s_service_count /\ s_services'[svc].inhibits = I \cup {bit}
      /\ \A z \in Slots \ {svc} : s_services'[z] = s_services[z]
  <2>1. CASE bit \in I
    BY <1>1, <2>1
  <2>2. CASE bit \notin I
    <3>1. I \cup {bit} \in SUBSET Bits
      BY DEF IInv, CoreType, Service
    <3>2. PICK c : c = [s_services[svc] EXCEPT !.inhibits = I \cup {bit}]
      OBVIOUS
    <3>3. Commit(t, svc, c, bit)
      BY <1>1, <2>2, <3>2
    <3>4. c \in Service /\ c.version = s_services[svc].version /\ c.inhibits = I \cup {bit}
      BY <3>1, <3>2, BitChange DEF IInv
    <3> QED  BY <1>2, <3>3, <3>4, CommitKeeps
  <2> QED  BY <2>1, <2>2
<1>5. \A s \in Slots : s_services[s].inhibits \subseteq Bits
  BY DEF IInv, CoreType, Service
<1>6. \A s, r : <<s, r>> \in held' <=> <<s, r>> \in held \/ (s = svc /\ r = reason)
  BY <1>2
<1> HIDE DEF I
<1>7. ASSUME NEW s \in Slots, NEW r \in Reasons, <<s, r>> \in held'
      PROVE  svc_valid(s)' /\ \E b \in s_services'[s].inhibits : BitOf(r, b)'
  <2>1. CASE s = svc /\ r = reason
    BY <1>2, <1>3, <1>4, <2>1 DEF svc_valid
  <2>2. CASE <<s, r>> \in held
    <3>1. svc_valid(s) /\ \E b \in s_services[s].inhibits : BitOf(r, b)
      BY <2>2 DEF PauseInv
    <3>2. s_services[s].inhibits \subseteq s_services'[s].inhibits
      BY <1>4 DEF I
    <3> QED  BY <1>3, <1>4, <1>5, <3>1, <3>2 DEF svc_valid
  <2> QED  BY <1>6, <1>7, <2>1, <2>2
<1>8. ASSUME NEW s \in Slots, NEW b \in s_services'[s].inhibits
      PROVE  \E r \in Reasons : <<s, r>> \in held' /\ BitOf(r, b)'
  <2>1. CASE b \in s_services[s].inhibits
    <3>1. PICK r \in Reasons : <<s, r>> \in held /\ BitOf(r, b)
      BY <2>1 DEF PauseInv
    <3>2. BitOf(r, b)'
      BY <1>3, <1>5, <2>1, <3>1
    <3> QED  BY <1>6, <3>1, <3>2
  <2>2. CASE b \notin s_services[s].inhibits
    <3>1. s = svc /\ b = bit
      BY <1>4, <1>8, <2>2 DEF I
    <3> QED  BY <1>3, <1>6, <3>1
  <2> QED  BY <2>1, <2>2
<1> QED  BY <1>3, <1>7, <1>8 DEF PauseInv

(* bb_lifecycle_pause_clear: only the reason's own bit is cleared.         *)
LEMMA PauseClearPause ==
    ASSUME Distinct, IInv, PauseInv, NEW t \in Tasks, NEW svc \in Slots,
           NEW reason \in Reasons, PauseClear(t, svc, reason)
    PROVE  PauseInv'
<1> DEFINE I == s_services[svc].inhibits
           bits == reason_lookup(reason) \cap I
<1>1. /\ call[t].pc = "idle" /\ svc_valid(svc) /\ held' = held \ {<<svc, reason>>}
      /\ UNCHANGED <<s_reasons, s_reason_count>>
  BY DEF PauseClear
<1>2. \A s \in Slots : s_services[s].inhibits \subseteq Bits
  BY DEF IInv, CoreType, Service
<1>3. CASE bits = {}
  <2>1. UNCHANGED <<s_services, s_service_count>>
    BY <1>3 DEF PauseClear
  <2>2. <<svc, reason>> \notin held
    BY <1>2, <1>3 DEF PauseInv, BitOf, reason_lookup
  <2>3. held' = held
    BY <1>1, <2>2
  <2> QED  BY <1>1, <2>1, <2>3, PauseKept DEF svc_valid
<1>4. CASE bits # {}
  <2>1. PICK bit \in bits :
            Commit(t, svc, [s_services[svc] EXCEPT !.inhibits = @ \ {bit}], bit)
    BY <1>4 DEF PauseClear
  <2>2. bit \in Bits /\ BitOf(reason, bit)
    BY <2>1 DEF reason_lookup, BitOf
  <2>3. I \ {bit} \in SUBSET Bits
    BY DEF IInv, CoreType, Service
  <2>4. PICK c : c = [s_services[svc] EXCEPT !.inhibits = I \ {bit}]
    OBVIOUS
  <2>5. Commit(t, svc, c, bit)
    BY <2>1, <2>4
  <2>6. c \in Service /\ c.version = s_services[svc].version /\ c.inhibits = I \ {bit}
    BY <2>3, <2>4, BitChange DEF IInv
  <2>7. /\ s_service_count' = s_service_count /\ s_services'[svc].inhibits = I \ {bit}
        /\ \A z \in Slots \ {svc} : s_services'[z] = s_services[z]
    BY <1>1, <2>2, <2>5, <2>6, CommitKeeps
  <2>8. \A s, r : <<s, r>> \in held' <=> <<s, r>> \in held /\ ~(s = svc /\ r = reason)
    BY <1>1
  <2>9. \A r, b : BitOf(r, b)' <=> BitOf(r, b)
    BY <1>1 DEF BitOf
  <2>10. \A s \in Slots : svc_valid(s)' <=> svc_valid(s)
    BY <2>7 DEF svc_valid
  <2> HIDE DEF I
  <2>11. ASSUME NEW s \in Slots, NEW r \in Reasons, <<s, r>> \in held'
         PROVE  svc_valid(s)' /\ \E b \in s_services'[s].inhibits : BitOf(r, b)'
    <3>1. <<s, r>> \in held /\ ~(s = svc /\ r = reason)
      BY <2>8, <2>11
    <3>2. svc_valid(s)
      BY <3>1 DEF PauseInv
    <3>3. PICK b \in s_services[s].inhibits : BitOf(r, b)
      BY <3>1 DEF PauseInv
    <3>4. s = svc => b # bit
      BY <2>2, <3>1, <3>3 DEF BitOf, Distinct
    <3>5. b \in s_services'[s].inhibits
      BY <2>7, <3>3, <3>4 DEF I
    <3> QED  BY <2>9, <2>10, <3>2, <3>3, <3>5
  <2>12. ASSUME NEW s \in Slots, NEW b \in s_services'[s].inhibits
         PROVE  \E r \in Reasons : <<s, r>> \in held' /\ BitOf(r, b)'
    <3>1. b \in s_services[s].inhibits /\ (s = svc => b # bit)
      BY <2>7, <2>12 DEF I
    <3>2. PICK r \in Reasons : <<s, r>> \in held /\ BitOf(r, b)
      BY <3>1 DEF PauseInv
    <3>3. ~(s = svc /\ r = reason)
      BY <1>2, <2>2, <3>1, <3>2 DEF BitOf, PauseInv
    <3> QED  BY <2>8, <2>9, <3>2, <3>3
  <2>13. \A b, d \in Bits : b < s_reason_count' /\ d < s_reason_count'
                            /\ s_reasons'[b] = s_reasons'[d] => b = d
    BY <1>1 DEF PauseInv
  <2> QED  BY <2>11, <2>12, <2>13 DEF PauseInv
<1> QED  BY <1>3, <1>4

(* Every step keeps the correspondence.                                    *)
LEMMA NextPause ==
    ASSUME Distinct PROVE IInv /\ PauseInv /\ [Next]_vars => PauseInv'
<1> SUFFICES ASSUME IInv, PauseInv, [Next]_vars PROVE PauseInv'
  OBVIOUS
<1>1. ASSUME UNCHANGED <<s_services, s_service_count, held, s_reasons, s_reason_count>>
      PROVE  PauseInv'
  BY <1>1, PauseKept DEF svc_valid
<1>2. CASE UNCHANGED vars
  BY <1>1, <1>2 DEF vars, tables
<1>3. CASE Drain
  BY <1>1, <1>3 DEF Drain, DrainReceive, DrainSlot, DrainEnd, tables
<1>4. ASSUME NEW t \in Tasks, Mutator(t) PROVE PauseInv'
  <2>1. CASE Observe(t) \/ ObserveAsync(t)
    BY <1>1, <2>1 DEF Observe, ObserveAsync, tables
  <2> QED  BY <1>4, <2>1, RegisterPause, StartPause, StopPause, PauseAssertPause,
              PauseClearPause DEF Mutator
<1>5. ASSUME NEW t \in Tasks, Continue(t) PROVE PauseInv'
  BY <1>1, <1>5 DEF Continue, AsyncLock, AsyncCreateQueue, AsyncCreateTask, AsyncSlot,
     NotifyLoad, NotifySlot, NotifyEnd, tables
<1> QED  BY <1>2, <1>3, <1>4, <1>5 DEF Next

(* As long as no two reasons are cut to the same text, a reason asserted   *)
(* with bb_lifecycle_pause_assert and neither cleared nor swept by a stop  *)
(* keeps a started service paused, and no service has a bit set that       *)
(* nobody holds.                                                           *)
THEOREM PauseExactHolds ==
    ASSUME Distinct PROVE Spec => []PauseExact
<1>1. Init => PauseInv
  <2> SUFFICES ASSUME Init PROVE PauseInv
    OBVIOUS
  <2>1. EmptyService.inhibits = {}
    BY DEF EmptyService
  <2>2. held = {} /\ \A s \in Slots : s_services[s].inhibits = {}
    BY <2>1 DEF Init
  <2>3. \A b \in Bits : ~(b < s_reason_count)
    BY LifecycleAssumption DEF Init, Bits
  <2> QED  BY <2>2, <2>3 DEF PauseInv
<1>2. IInv /\ PauseInv /\ [Next]_vars => PauseInv'
  BY NextPause
<1>3. IInv /\ PauseInv => PauseExact
  <2> SUFFICES ASSUME IInv, PauseInv PROVE PauseExact
    OBVIOUS
  <2>1. ASSUME NEW h \in held, s_services[h[1]].started
        PROVE  bb_lifecycle_state(h[1]) = "PAUSED"
    <3>1. PICK s \in Slots, r \in Reasons : h = <<s, r>>
      BY DEF IInv, ReasonType
    <3>2. h[1] = s /\ svc_valid(s) /\ s_services[s].inhibits # {}
      BY <3>1 DEF PauseInv
    <3> QED  BY <2>1, <3>2 DEF bb_lifecycle_state, compute_state
  <2>2. \A svc \in Slots : s_services[svc].inhibits # {} =>
            \E r \in Reasons : <<svc, r>> \in held
    BY DEF PauseInv
  <2> QED  BY <2>1, <2>2 DEF PauseExact
<1> QED  BY <1>1, <1>2, <1>3, AlwaysIInv, PTL DEF Spec

====
