------------------------------ MODULE DataPush ------------------------------
(***************************************************************************)
(* bb_data_http: how a changed value reaches a connected client.  The      *)
(* broadcaster task sweeps: it detects STATE keys whose generation moved,  *)
(* feeds the shared EVENT ring (push_pump), renders, drains the ring and   *)
(* flushes the client.  The log forwarder stashes a line, bumps its        *)
(* generation and feeds the ring itself, concurrently with the sweep.      *)
(*                                                                         *)
(* One EVENT key ("log"), one STATE key and one client slot: keys and      *)
(* clients share nothing but the ring.  A frame carries the line, or the   *)
(* version of the value, its render read.  A step is what a task does      *)
(* between two reads or writes of what another task may change.            *)
(* The specification's names are PushInit, PushNext, ... so that a module  *)
(* can extend it beside BQueue: Queues_proofs proves about both.           *)
(***************************************************************************)
EXTENDS Integers, Sequences, FiniteSets, FiniteSetsExt, SequencesExt

CONSTANTS
    MaxLine,    \* bound: log lines forwarded
    MaxValue,   \* bound: changes of the STATE key
    RingCap,    \* CONFIG_BB_DATA_HTTP_EVENT_RING_CAPACITY
    OutCap,     \* CONFIG_BB_DATA_HTTP_OUTBOUND_CAPACITY
    FailMax     \* CONFIG_BB_DATA_HTTP_SEND_FAIL_MAX

ASSUME DataPushAssumption ==
    /\ {MaxLine, MaxValue} \subseteq Nat
    /\ {RingCap, OutCap, FailMax} \subseteq Nat \ {0}

Tasks == {"sweep", "fwd"}

VARIABLES
    stash, gen,     \* s_last_log_json, and the "log" key's generation
    value, vgen,    \* the STATE key's value, and its generation
    lastGen,        \* s_event_last_gen["log"]
    ring, total,    \* s_event_ring and s_event_total_pushed
    pump,           \* where each task is in push_pump, and its locals
    sweep,          \* where the broadcaster is in sweep_step
    drain,          \* drain_client_events' locals: ring_count, oldest_seq, idx
    slot,           \* the client: s_clients[], its poll and push blocks
    building,       \* s_client_reserved: an acquire is under way
    backwards       \* history: a claim replaced a newer generation

keyVars == <<stash, gen, value, vgen>>
ringVars == <<lastGen, ring, total, backwards>>
pushVars == <<keyVars, ringVars, pump, sweep, drain, slot, building>>

-----------------------------------------------------------------------------
Frame(kind, v) == [kind |-> kind, v |-> v]
Event == Frame("event", 0)
State(v) == Frame("state", v)
Marker == Frame("dropped", 0)

NoPump == [pc |-> "out", gen |-> 0, prev |-> 0, line |-> 0]
NoDrain == [count |-> 0, oldest |-> 0, idx |-> 0]

(* A free slot.  The history fields say what became of the occupant's      *)
(* stream: start, where its cursor began; got, the pushes queued for it,   *)
(* and last, the latest of them; raced, how many pushes overlapped one of  *)
(* its drains.  left: the newest value that left its queue, sent, evicted  *)
(* or given up.                                                            *)
FreeSlot ==
    [in_use |-> FALSE, pending_release |-> FALSE,
     seen_gen |-> 0, dirty |-> FALSE,
     cursor |-> 0, dropped |-> 0, drop_marker_pending |-> FALSE,
     outbound |-> <<>>, send_fail_count |-> 0,
     start |-> 0, got |-> {}, last |-> -1, raced |-> 0, left |-> -1]

PushInit ==
    /\ stash = 0 /\ gen = 0 /\ value = 0 /\ vgen = 0
    /\ lastGen = 0 /\ ring = <<>> /\ total = 0 /\ backwards = FALSE
    /\ pump = [t \in Tasks |-> NoPump]
    /\ sweep = "idle"
    /\ drain = NoDrain
    /\ slot = FreeSlot
    /\ building = FALSE

-----------------------------------------------------------------------------
\* push_pump reads the key's generation before it takes the lock.
EnterPump(t, g) == [pump EXCEPT ![t].pc = "claim", ![t].gen = g]

(* Producers: stash first, then bb_data_touch.                             *)
StashLine ==
    /\ pump["fwd"].pc = "out"
    /\ stash = gen /\ stash < MaxLine
    /\ stash' = stash + 1
    /\ UNCHANGED <<gen, value, vgen, ringVars, pump, sweep, drain, slot, building>>

(* bb_data_touch("log"), then bb_data_http_notify_push(): the broadcaster  *)
(* it also wakes sweeps on its own period anyway.                          *)
TouchLine ==
    /\ stash = gen + 1
    /\ gen' = gen + 1
    /\ pump' = EnterPump("fwd", gen + 1)
    /\ UNCHANGED <<stash, value, vgen, ringVars, sweep, drain, slot, building>>

StashValue ==
    /\ value = vgen /\ value < MaxValue
    /\ value' = value + 1
    /\ UNCHANGED <<stash, gen, vgen, ringVars, pump, sweep, drain, slot, building>>

TouchValue ==
    /\ value = vgen + 1
    /\ vgen' = vgen + 1
    /\ UNCHANGED <<stash, gen, value, ringVars, pump, sweep, drain, slot, building>>

-----------------------------------------------------------------------------
(* bb_data_http_push_pump, run by either task.                             *)

\* s_event_ring_mux is free: no commit is under way.
Unlocked == \A t \in Tasks : pump[t].pc \notin {"append", "count"}

\* A task leaves push_pump: the broadcaster goes on to its client.
PumpDone(t) ==
    /\ pump' = [pump EXCEPT ![t] = NoPump]
    /\ sweep' = IF t = "sweep" THEN "client" ELSE sweep

Claim(t) ==
    /\ pump[t].pc = "claim" /\ Unlocked
    /\ IF pump[t].gen = lastGen
         THEN PumpDone(t) /\ UNCHANGED <<lastGen, backwards>>
         ELSE /\ lastGen' = pump[t].gen
              /\ backwards' = (backwards \/ pump[t].gen < lastGen)
              /\ pump' = [pump EXCEPT ![t].pc = "render", ![t].prev = lastGen]
              /\ UNCHANGED sweep
    /\ UNCHANGED <<keyVars, ring, total, drain, slot, building>>

\* render_fn reads the key's current value, whatever was claimed; it may fail.
Render(t) ==
    /\ pump[t].pc = "render"
    /\ \/ pump' = [pump EXCEPT ![t].pc = "commit", ![t].line = stash]
       \/ pump' = [pump EXCEPT ![t].pc = "revoke"]
    /\ UNCHANGED <<keyVars, ringVars, sweep, drain, slot, building>>

\* bb_queue_push under BB_QUEUE_EVICT_OLDEST.
PushOldestOut(q, cap, x) == Append(IF Len(q) = cap THEN Tail(q) ELSE q, x)

Draining == sweep \in {"total", "entries"}

\* A push is three stores, the last one outside the queue, and the drain takes no
\* lock: evict the oldest entry, add the new one, count it.
StartPush(t) ==
    /\ pump' = [pump EXCEPT ![t].pc = "append"]
    /\ ring' = IF Len(ring) = RingCap THEN Tail(ring) ELSE ring
    /\ slot' = IF Draining THEN [slot EXCEPT !.raced = @ + 1] ELSE slot
    /\ UNCHANGED sweep

\* Mutant: the rendered frame is pushed whoever claimed since.
Commit_Unchecked(t) ==
    /\ pump[t].pc = "commit" /\ Unlocked
    /\ StartPush(t)
    /\ UNCHANGED <<keyVars, lastGen, total, backwards, drain, building>>

\* The frame is pushed if the claim still stands and discarded otherwise.
Commit(t) ==
    /\ pump[t].pc = "commit" /\ Unlocked
    /\ IF lastGen = pump[t].gen
         THEN StartPush(t)
         ELSE PumpDone(t) /\ UNCHANGED <<ring, slot>>
    /\ UNCHANGED <<keyVars, lastGen, total, backwards, drain, building>>

AppendFrame(t) ==
    /\ pump[t].pc = "append"
    /\ ring' = Append(ring, [line |-> pump[t].line, seq |-> total])
    /\ pump' = [pump EXCEPT ![t].pc = "count"]
    /\ UNCHANGED <<keyVars, lastGen, total, backwards, sweep, drain, slot, building>>

CountPush(t) ==
    /\ pump[t].pc = "count"
    /\ total' = total + 1
    /\ PumpDone(t)
    /\ UNCHANGED <<keyVars, lastGen, ring, backwards, drain, slot, building>>

\* Mutant: a failed render keeps its claim.
Revoke_KeepsClaim(t) ==
    /\ pump[t].pc = "revoke" /\ Unlocked
    /\ PumpDone(t)
    /\ UNCHANGED <<keyVars, ringVars, drain, slot, building>>

\* A failed render gives its claim back, unless a later one has replaced it.
Revoke(t) ==
    /\ pump[t].pc = "revoke" /\ Unlocked
    /\ PumpDone(t)
    /\ lastGen' = IF lastGen = pump[t].gen THEN pump[t].prev ELSE lastGen
    /\ UNCHANGED <<keyVars, ring, total, backwards, drain, slot, building>>

PushPump(t) ==
    \/ Claim(t) \/ Render(t) \/ Revoke(t)
    \/ Commit(t) \/ AppendFrame(t) \/ CountPush(t)

-----------------------------------------------------------------------------
(* bb_data_http_sweep_step.                                                *)

\* Detect: before anything is rendered.
Detect ==
    /\ sweep = "idle"
    /\ slot' = IF slot.in_use /\ slot.seen_gen # vgen
               THEN [slot EXCEPT !.seen_gen = vgen, !.dirty = TRUE] ELSE slot
    /\ sweep' = "pump"
    /\ pump' = EnterPump("sweep", gen)
    /\ UNCHANGED <<keyVars, ringVars, drain, building>>

NoClient ==
    /\ sweep = "client" /\ ~ slot.in_use
    /\ sweep' = "idle"
    /\ UNCHANGED <<keyVars, ringVars, pump, drain, slot, building>>

\* bb_data_http_client_release up to its store of in_use; Released is the last store.
Release ==
    /\ slot' = [FreeSlot EXCEPT !.pending_release = slot.pending_release]
    /\ sweep' = "release"

Reap ==
    /\ sweep = "client" /\ slot.in_use /\ slot.pending_release
    /\ Release
    /\ UNCHANGED <<keyVars, ringVars, pump, drain, building>>

Released ==
    /\ sweep = "release"
    /\ slot' = [slot EXCEPT !.pending_release = FALSE]
    /\ sweep' = "idle"
    /\ UNCHANGED <<keyVars, ringVars, pump, drain, building>>

\* The newest value among frames, -1 if there is none.
NewestValue(frames) == Max({-1} \cup {f.v : f \in {g \in Range(frames) : g.kind = "state"}})

\* A STATE frame is pushed whether or not there is room: the oldest frame gives way.
QueueState(s) ==
    LET evicted == IF Len(s.outbound) = OutCap THEN <<Head(s.outbound)>> ELSE <<>>
    IN  [s EXCEPT !.outbound = PushOldestOut(@, OutCap, State(value)),
                  !.left = Max({@, NewestValue(evicted)})]

\* drain_client_events reads the ring's count and then the total, without the lock.
DrainCount(s) ==
    /\ slot' = IF Unlocked THEN s ELSE [s EXCEPT !.raced = @ + 1]
    /\ drain' = [NoDrain EXCEPT !.count = Len(ring)]
    /\ sweep' = "total"

\* Mutant: the dirty bit is cleared whether or not the render succeeded.
DrainState_ClearsFirst ==
    /\ sweep = "client" /\ slot.in_use /\ ~ slot.pending_release
    /\ \/ slot.dirty /\ DrainCount(QueueState([slot EXCEPT !.dirty = FALSE]))
       \/ DrainCount([slot EXCEPT !.dirty = FALSE])
    /\ UNCHANGED <<keyVars, ringVars, pump, building>>

\* The dirty bit is cleared once the value has been rendered; it stays set when the
\* render fails and while the key's min_interval_ms has not passed.
DrainState ==
    /\ sweep = "client" /\ slot.in_use /\ ~ slot.pending_release
    /\ \/ slot.dirty /\ DrainCount(QueueState([slot EXCEPT !.dirty = FALSE]))
       \/ DrainCount(slot)
    /\ UNCHANGED <<keyVars, ringVars, pump, building>>

HasRoom(s) == Len(s.outbound) < OutCap

\* try_flush_event_drop_marker.
FlushMarker(s) ==
    IF s.drop_marker_pending /\ HasRoom(s)
    THEN [s EXCEPT !.outbound = Append(@, Marker), !.drop_marker_pending = FALSE]
    ELSE s

\* Mutant: a gap is skipped without being counted.
SkipGap_Uncounted(s, oldest) ==
    IF s.cursor < oldest THEN [s EXCEPT !.cursor = oldest] ELSE s

\* What the ring evicted before this client drained it is counted as dropped.
SkipGap(s, oldest) ==
    IF s.cursor < oldest
    THEN [s EXCEPT !.dropped = @ + (oldest - s.cursor), !.drop_marker_pending = TRUE,
                   !.cursor = oldest]
    ELSE s

\* The client's part of the sweep goes on with s: more entries, its flush, or nothing.
GoOn(s, d) ==
    /\ slot' = s
    /\ IF d.idx < d.count THEN drain' = d /\ sweep' = "entries"
       ELSE drain' = NoDrain /\ sweep' = (IF s.outbound = <<>> THEN "idle" ELSE "flush")

\* Mutant: the drain always starts at the ring's oldest entry.
DrainTotal_FromOldest ==
    /\ sweep = "total"
    /\ LET oldest == total - drain.count
       IN  GoOn(SkipGap(FlushMarker(slot), oldest), [drain EXCEPT !.oldest = oldest])
    /\ UNCHANGED <<keyVars, ringVars, pump, building>>

\* idx starts past the entries drained by an earlier sweep.
DrainTotal ==
    /\ sweep = "total"
    /\ LET oldest == total - drain.count
           s == SkipGap(FlushMarker(slot), oldest)
       IN  GoOn(s, [drain EXCEPT !.oldest = oldest, !.idx = s.cursor - oldest])
    /\ UNCHANGED <<keyVars, ringVars, pump, building>>

\* An entry, numbered by its place in the ring whatever was pushed since.
Drained(s, entry, to) ==
    IF HasRoom(s)
    THEN [s EXCEPT !.outbound = Append(@, Event), !.cursor = to,
                   !.got = @ \cup {entry.seq}, !.last = entry.seq]
    ELSE [s EXCEPT !.dropped = @ + 1, !.drop_marker_pending = TRUE, !.cursor = to]

\* bb_queue_peek_at finds nothing while a push has evicted and not yet added.
DrainEntry ==
    /\ sweep = "entries"
    /\ GoOn(IF drain.idx < Len(ring)
            THEN Drained(FlushMarker(slot), ring[drain.idx + 1], drain.oldest + drain.idx + 1)
            ELSE slot,
            [drain EXCEPT !.idx = @ + 1])
    /\ UNCHANGED <<keyVars, ringVars, pump, building>>

\* send_fn answered BB_OK: on to the next frame.
SendOk ==
    /\ sweep = "flush"
    /\ GoOn([slot EXCEPT !.outbound = Tail(@), !.send_fail_count = 0,
                         !.left = Max({@, NewestValue(<<Head(slot.outbound)>>)})], drain)
    /\ UNCHANGED <<keyVars, ringVars, pump, building>>

\* BB_ERR_TIMEOUT: retried next sweep; after FailMax in a row the frame is given up.
SendTimeout ==
    /\ sweep = "flush"
    /\ slot' = IF slot.send_fail_count + 1 < FailMax
               THEN [slot EXCEPT !.send_fail_count = @ + 1]
               ELSE [slot EXCEPT !.send_fail_count = 0, !.outbound = Tail(@),
                                 !.left = Max({@, NewestValue(<<Head(slot.outbound)>>)})]
    /\ sweep' = "idle"
    /\ UNCHANGED <<keyVars, ringVars, pump, drain, building>>

\* Any other error: the client is aborted (SSE and WebSocket clients are ephemeral).
SendFatal ==
    /\ sweep = "flush"
    /\ Release
    /\ UNCHANGED <<keyVars, ringVars, pump, drain, building>>

SweepStep ==
    \/ Detect \/ NoClient \/ Reap \/ Released \/ DrainState
    \/ DrainTotal \/ DrainEntry \/ SendOk \/ SendTimeout \/ SendFatal

-----------------------------------------------------------------------------
(* The connection's own task.                                              *)

\* bb_data_http_client_acquire reserves the slot and builds the client, unlocked: it
\* starts at the ring's head with its STATE key dirty.
Acquire ==
    /\ ~ slot.in_use /\ ~ building
    /\ slot' = [FreeSlot EXCEPT !.dirty = TRUE, !.cursor = total, !.start = total]
    /\ building' = TRUE
    /\ UNCHANGED <<keyVars, ringVars, pump, sweep, drain>>

Publish ==
    /\ building
    /\ slot' = [slot EXCEPT !.in_use = TRUE]
    /\ building' = FALSE
    /\ UNCHANGED <<keyVars, ringVars, pump, sweep, drain>>

RequestRelease ==
    /\ slot.in_use /\ ~ slot.pending_release
    /\ slot' = [slot EXCEPT !.pending_release = TRUE]
    /\ UNCHANGED <<keyVars, ringVars, pump, sweep, drain, building>>

PushNext ==
    \/ StashLine \/ TouchLine \/ StashValue \/ TouchValue
    \/ \E t \in Tasks : PushPump(t)
    \/ SweepStep
    \/ Acquire \/ Publish \/ RequestRelease

PushSpec == PushInit /\ [][PushNext]_pushVars

-----------------------------------------------------------------------------
(* Types.                                                                  *)
PushTypeOK ==
    /\ gen \in 0..MaxLine /\ stash \in {gen, gen + 1}
    /\ vgen \in 0..MaxValue /\ value \in {vgen, vgen + 1}
    /\ lastGen \in 0..gen
    /\ Len(ring) <= RingCap
    /\ \A t \in Tasks : pump[t].pc \in {"out", "claim", "render", "commit", "revoke",
                                     "append", "count"}
    /\ sweep \in {"idle", "pump", "client", "release", "total", "entries", "flush"}
    /\ Len(slot.outbound) <= OutCap /\ slot.send_fail_count < FailMax
    /\ slot.cursor <= total

(* The ring never goes back: a render that was slow or a claim that was    *)
(* lost may repeat a line, never push an older one after a newer one.      *)
RingNeverGoesBack ==
    [][Len(ring') > Len(ring) /\ ring # <<>>
         => Last(ring').line >= Last(ring).line]_pushVars

(* A client is handed each push once, in order; it sees one again, or      *)
(* after a later one, only as far back as pushes overlapped its drains.    *)
OnceInOrderUnlessRaced ==
    [][(/\ sweep = "entries" /\ drain' # drain
        /\ drain.idx < Len(ring) /\ slot'.dropped = slot.dropped)
         => ring[drain.idx + 1].seq > slot.last - slot.raced]_pushVars

(* Once both tasks have left push_pump with the latest generation marked   *)
(* handled, the newest line is in the ring: a failed render or a discarded *)
(* frame never retires it.  The exception is a claim that went backwards.  *)
NewestIsPushed ==
    (/\ \A t \in Tasks : pump[t].pc = "out"
     /\ stash = gen /\ lastGen = gen /\ gen > 0)
        => backwards \/ (ring # <<>> /\ Last(ring).line = gen)

(* Whatever generation of the STATE key the client is recorded as having   *)
(* seen, a value at least as new was sent, is queued, or went down with a  *)
(* frame evicted or given up: detect-then-render never absorbs a change.   *)
SeenIsRendered ==
    slot.in_use /\ ~ slot.dirty
        => Max({slot.left, NewestValue(slot.outbound)}) >= slot.seen_gen

\* The pushes behind the client's cursor that were never queued for it.
Missed(s) == (s.start .. (s.cursor - 1)) \ s.got

(* Every event behind the client's cursor was queued for it or counted in  *)
(* its dropped counter; an event it misses silently is paid for by a push  *)
(* that overlapped one of its unlocked drains, never more than one each.   *)
SilentLossBounded ==
    slot.in_use => Cardinality(Missed(slot)) <= slot.dropped + slot.raced

=============================================================================
