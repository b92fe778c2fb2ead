# A TLA+ development of breadboard

breadboard is a C framework for ESP32 firmware: some eighty components under
`components/`, each portable, with backends under `platform/espidf`,
`platform/host` and `platform/arduino`.  The host backends are production code
for the portable parts and the ESP-IDF ones run on the device; where the two
differ, each section below says which one is modelled.

1. [The system](#1-the-system) - parts, how they interact, what is hard
2. [The modules](#2-the-modules) - and how they correspond to the code
3. [The runs](#3-the-runs) - bounds, fairness, results
4. [The proofs](#4-the-proofs)
5. [Where code and documentation disagree](#5-where-code-and-documentation-disagree)
6. [What is not modelled](#6-what-is-not-modelled)
7. [Plan](#7-plan)

To check a run: `tlc -config <run>.cfg <module>`; to check proofs: `tlapm` on one of
the `*_proofs.tla` (section 4 says which theorem is where).  `PROJECT.json` holds the same information
for tools: components, runs, mutants (a plausible bug for each property, which
the run must catch), the definition-to-source map, hazards, theorems.

## 1. The system

### Parts and their interaction

```
 application, HTTP routes, OTA, provisioning
      |  calls                     ^ callbacks
      v                            |
 bb_lifecycle ---- events ----> observers (synchronous, or drained by a task)
      |                             ^
      | lock, once, queue           | bb_bqueue_receive
      v                             |
 bb_core: bb_once, bb_lock, bb_lock_cond  <----  bb_bqueue

 esp_wifi driver --events--> event-loop handler (bb_wifi.c) --queue--> reconn task
      ^                                                                    |
      +----------------- esp_wifi_connect / disconnect --------------------+
                                       bb_fsm table + wifi_reconn_policy
 bb_settings (credentials) <-- bb_timer dispatcher <-- GOT_IP
      |
 bb_storage: NVS, RTC memory, RAM
```

* **Concurrency primitives (`bb_core`).**  Every shared table of the framework is
  guarded by a lock that is created on first use through `bb_once_run_fallible`.
  `bb_lock_cond` is a condition variable; on ESP-IDF it is built from a guarded
  list of stack-allocated waiters.
* **`bb_bqueue`** is the blocking queue: a ring (several producers) or, with
  capacity one, a mailbox.
* **`bb_lifecycle`** is the run-state authority: services are started, stopped and
  paused for open-vocabulary reasons by independent subsystems (an OTA, a thermal
  guard, the user); observers hear of every transition.
* **`bb_fsm`** is a table-driven state machine with one timer slot, used by the
  WiFi reconnect manager and by provisioning.
* **`bb_wifi`** keeps the station connected: the driver posts events to the event
  loop, its handler forwards them through a queue to one task, which steps the FSM
  and asks the retry policy whether to reconnect at once, back off or reboot.
* **`bb_wifi_prov`** opens a portal (soft AP and HTTP routes) on a board without
  credentials; a save closes it and wakes the reconnect manager.
* **`bb_settings` / `bb_storage` / `bb_config`** persist credentials with an atomic
  multi-key commit, a staged "try" and an RTC mirror that survives warm resets.
* **`bb_timer`** runs deferred work on one shared dispatcher task: the write that
  follows an address and the restart that follows a request.
* **OTA**: `bb_ota_check` asks whether there is an update, `bb_ota_pull` downloads and
  flashes it on a worker task, `bb_ota_push` takes one from a request.  They share a
  claim, a pause of the application's work, the watchdog and the update partition.
* **`bb_cache`** holds entries by key in slots with a generation and a lock each, under
  a registry lock; `bb_mdns_cache` upserts peers into it and a worker ages them out.
* **`bb_data` / `bb_data_http`** push values to SSE and WebSocket clients: a writer
  bumps a key's generation, a broadcaster task detects, renders and flushes; event
  keys (the log) go through one ring which the log forwarder feeds as well.
* **Restarts** (`bb_system`, `bb_ota_boot`, `bb_ota_validator`, `bb_diag_http`): any task
  may restart the board.  What it leaves in NVS (the boot-fail counter, the reboot budget,
  the reboot record, the one-shot flag of a boot-mode update) decides what the next boot
  does and reports.
* **HTTP, MQTT, diagnostics, drivers**: see `PROJECT.json`.

### Inventory of the concurrent and failure-prone parts

| component | state | operations | what is hard | what makes it correct |
|---|---|---|---|---|
| run-once guard | one atomic word | `bb_once_run`, `bb_once_run_fallible`, `bb_lock_once_ensure` | racing callers, a body that fails, polling losers | one runner; success latched once; honest results; every call returns |
| `bb_lock_cond` | waiter list, guard, a semaphore per waiter | wait, signal, broadcast | a timeout racing the pop; a semaphore on a stack that may be gone | no use after free; no lost wakeup; whoever is popped returns |
| `bb_bqueue` | ring, head, count, drop counter | send, receive, peek, overwrite, reset, dropped | non-consuming peekers, timeouts, spurious wakeups, wrap-around | it is a bounded FIFO; nobody sleeps beside work; timed calls return |
| `bb_lifecycle` | service, reason and observer tables; async queue | register, start, stop, pause_assert, pause_clear, observe, observe_async, notify | events delivered outside the lock; registration meanwhile; a full queue; half-failed start-up; full intern tables | no event is lost or undelivered without a count; a service is paused exactly while a reason is held |
| `bb_fsm` | current state, one timer slot | step, arm_timer, disarm | row order, SAME transitions, timer cleared on a change of state | the owner never waits for ever in a retrying state |
| `bb_wifi` reconnect | FSM, policy counters and window, self-disconnect flag, queue | driver events, timeouts, boot, credentials arriving | three tasks and a driver; a flag set by one task and consumed by another; a clock read three times in a step; a full queue | retries never stop; only a peer parks the manager |
| `bb_wifi_prov` | FSM, queue, settle timer, soft AP, routes | first boot, request portal, save | a route answers before the portal is up; a start that half fails; a full queue | what is saved reaches the driver |
| `bb_settings` | live, staged and mirrored credentials, provisioned flag | set, stage, promote, clear, heal, mark connected, factory reset | a reset between any two writes; a deferred promote racing a new request | credentials in use were tried or chosen; erased ones stay erased; a staged try is settled |
| `bb_timer` | dispatcher queue, pending flags, worker tasks | create, start, stop, delete, dispatch | coalescing, a full queue, delete against a running callback | deferred work runs, once, on a live timer |
| `bb_system` | boot-fail count, reboot budget, reboot record | allowed, account, record, restart, deferred restart | resets between the writes; writes that fail; a clock set late or stepped back | reboots are throttled; a boot reports what really restarted it |
| OTA (`check`, `pull`, `push`) | in-progress flag, claim, check status, pause, watchdog, partition | check, apply, pull, push, reboot | a worker that outlives its flag; task creation that fails; a push beside a pull; a reboot anywhere | one update at a time; the claim has an owner; what boots is one whole image |
| OTA (`boot`, `validator`) | one-shot boot flag, image state and its cache | arm, run, mark valid, roll back | a reset at any point; cached validation | no boot-mode loop |
| `bb_cache` | slots with generations, two levels of lock | register, update, read, probe, delete, age out | a slot reused between look-up and use | nobody uses another incarnation; results were true; no cycle of locks |
| `bb_data_http` | event ring, claims, per-client dirty bits, cursor, queue | touch, push, sweep, acquire, release, request release | two tasks feed one ring; an unlocked drain; a client that leaves while it is served | nothing is absorbed; what a race repeats or loses is bounded |
| `bb_ws_server` | client descriptors | send, close | descriptor reuse | a client gets its own frames |
| `bb_mqtt_client` | session, reassembly buffer | connect, publish, event, destroy | destroy inside a callback, fragments | no use after destroy |

The hazards these columns name are listed line by line in `PROJECT.json`.

## 2. The modules

Every step of a module is one atomic piece of the code: an atomic operation, or
what happens between acquiring and releasing a lock.  Data is reduced to what the
properties distinguish.  The control that changes state is kept, failing calls
included, but for these error paths, which are taken not to occur:

* `wifi_reconn_start` creates its FSM, its queue and its task (`wifi_reconn.c:139-168`):
  a board on which one of them fails has no reconnect manager, and nothing in
  `WifiReconn` would hold of it;
* `bb_wifi_prov`'s own look at the credentials and the provisioned flag
  (`bb_wifi_prov.c:479-480`) answers as `bb_wifi_autoinit`'s did a moment before;
* NVS itself comes up at boot, and `nvs_flash_erase` does what it is asked for;
* the application installs a pause hook; without one `bb_ota_pull.c:932` goes on
  unpaused, and the half of `Sheltered` that speaks of the pause means nothing.

Early returns that change nothing (an unknown handle, a duplicate name) are simply not
steps.  Definitions whose name ends in `_Something` are deliberately wrong variants for
the mutants, not part of the specification.

### Once - `bb_once.h`, `bb_lock_once.c`

`bb_once_state` is the atomic word; `initialized` is what the body creates; `at`
is each caller's position.  `CompareExchange`, `RunSucceeds`/`RunFails`, `Publish`
and `Poll` are the winner's and the losers' steps.  With `Fallible = FALSE` the
module is `bb_once_run`.  `sawFail` is history: a failed attempt ended during this
call.  `MaxFails` bounds how often the body may fail.  The specification is named
`OnceInit`, `OnceNext`, `OnceSpec`, so that `Sync_proofs` can extend it beside `LockCond`.

### LockCond - `platform/espidf/bb_core/bb_lock_cond.c`, `bb_lock_cond_waiterlist.c`

`waiters` is the list (head first), `guard` the list's mutex, `sem[w]` the
waiter's binary semaphore, `"dead"` when the waiter's stack frame is gone.
`WaitLink .. WaitRelock` are the parts of `bb_lock_cond_wait`; `Pop`, `Give` and
`NoMoreWaiters` those of signal and broadcast, with the guard held across the give
as in the code.  The code around them is the client loop that `bb_lock.h`
prescribes: wait while the predicate is false, break on a timeout, signal under the
lock.  Sections under the guard that contain no other blocking call (`WaitLink`,
`WaitUnlink`) are one step.

### BQueue - `platform/host/bb_bqueue/bb_bqueue.c`; BoundedFifo - its promise

`storage`, `head`, `count`, `dropped` are the instance; `th[t]` is what thread `t`
does: outside, asleep on a condition variable, woken, or timed out and queueing
for the lock.  `Proceed`, `TryFails`, `Sleep`, `DeadlinePassed`, `WaitTimedOut` are
the exits of one trip round `bb_bqueue_wait_until`; `Expire` and `SpuriousWakeup`
are what the platform does to a sleeper.  Time is a flag (`late`: the absolute
deadline has passed).  `Capacity = 1` selects the mailbox, as `cfg->capacity` does.
`BoundedFifo` has no locks, waiters or ring.  It keeps the items (`buf`), the count of
refused sends, and for each thread the call under way, then what it returned (`call`):
a send appends the item its caller passed, a receive returns the oldest one and removes
it, a call that does not wait fails only on a full or an empty buffer, and only a call
with a deadline times out.  `BQueue!ImplementsFifo` is the refinement, with `buf` mapped
to the ring's contents, oldest first, and `call` to what `th` says of the call.  What
`bb_bqueue_overwrite` replaces and `bb_bqueue_reset` drops is counted nowhere, in the
promise as in the code.

### Lifecycle - `bb_lifecycle.c`, `bb_lifecycle_async.c`

One step per critical section under `s_lock` (`Register`, `Start`, `Stop`,
`PauseAssert`, `PauseClear`, `ObserveSlot`), then the delivery outside it, one step
per observer slot (`NotifyLoad`, `NotifySlot`, `NotifyEnd`).  `ObserveAsync`
onwards is the fallible start-up of the queue and its drain task under
`s_async_lock`; `Drain*` is that task.  `asyncLive` is whether the queue exists: a send
or a receive on a queue that is gone fails.  So does a send to a queue of one, which is
a mailbox to `bb_bqueue` (`AsyncSendable`), and then nothing is counted either (section
5).  An inhibit word is a set of bit numbers, of
which an event carries those below `WordBits`.  `Trunc` is `copy_truncated`: what a
name or reason becomes in its fixed buffer, so two callers' strings may collide.
History: `events` (all committed), `got`, `emitted`, `dropped` (where each went),
`base` (what an observer could not have seen) and `held` (who asserted what).

### Fsm and WifiReconn - `bb_fsm.c`, `wifi_reconn_policy.c`, `wifi_reconn.c`, `bb_wifi.c`

`Fsm` holds `bb_fsm`'s operators: first matching row, next state, the timer slot
(arming with 0 ms disarms, as in the code).  `WifiReconn` extends it with

* the table `wr_rows`, row for row, its guards and actions;
* the retry policy: three failure counters (saturating one past the last limit they
  are compared with) and the persistent-fail window, which is none, fresh or old;
* the task: `Receive`, `Expire`/`ExpireStep`, and the two driver calls of
  `act_timeout_reattempt`, which are separate steps since the event loop runs in
  between;
* the event-loop handler: `Handle`, and `AbsorbRead`/`AbsorbClear`, the unlocked
  read-then-clear of `self_disconnect`;
* `bb_wifi_autoinit` from its three starting points: no credentials, live
  credentials, a pending try;
* the driver, which is external: it connects, stalls, loses the link for a reason,
  and posts events asynchronously.

One FSM step reads the clock up to three times; `cross` says from which reading on
the window has passed.  `cause` records losses that later properties name.

Two facts about time are built in.  A timer only expires once the event loop has
handled what the driver had posted (`Expire`): timers are seconds, the handler runs
in microseconds at high priority.  What arrives between the timeout and the FSM
step it leads to is still modelled.  And a call of the driver takes effect at once,
while its event is handled later.

### WifiProv and WifiCreds - `bb_wifi_prov`, `bb_settings`, `bb_storage`, `bb_timer`

`WifiProv` is the portal: the FSM of `wifi_prov_policy.c`, the manager's task and
queue, and the routes and soft AP it brings up in up to three hops, each of which may
fail.  POST /save is served from the moment its route exists.

`WifiCreds` extends it with what the credentials go through.  `nvs` are the keys of
the credentials namespace, `mirror` the RTC region.  One step per storage write:
`PromoteReadSsid .. PromoteErase` is `bb_settings_wifi_pending_promote`,
`CredsBootInit`/`HealStamp` the boot-time heal, `SaveEnter .. SavePost` the portal's
handler, `FactoryReset`/`FactoryResetMirror` the erase.  `Autoinit` onwards is the boot
task; `GotIp` merges what an address persists into the pending decision and arms a
timer or, when that fails, writes inline; `TimerFires` posts to the dispatcher's queue
with the coalescing flag; `Fault` is a warm reset or a power failure, at any moment.
A call that may fail has a step for it (`AutoinitUnread`, `PromoteFails`, `CleanupFails`,
`RevertFails`, `ArmRestartFails`, `SaveFails`, `ConnectFreshFails`), within the same bound
as the resets: a promotion that cannot read or commit has used up its try and leaves the
keys staged, and a restart timer that cannot be created is never retried in that boot.
A credential's two halves are separate keys, so a torn pair is visible.

Assumed: `CONFIG_BB_SETTINGS_CREDS_RTC_BACKUP` and `CONFIG_BB_WIFI_RECONFIGURE` are on;
a staged commit is atomic (the code relies on `nvs_commit` for it); the boot-fail
counter's answer is a free choice.  `hist` is history: what the user chose or an
address proved, and the losses the properties name; `hist.excuses` has what may leave
staged keys behind in this boot.

### CacheSlots - `bb_cache_espidf.c`, driven as `bb_mdns_cache.c` drives it

A look-up finds a slot under `s_reg_lock` (`find_entry_locked_ref`), drops it, takes the
slot's lock (`LockEntry`) and checks that key and generation are still the ones found
(`entry_matches_locked`).  `Register` and `RegisterFill` are the two halves of
registration, which fills a slot without its lock; `DeleteFind`, `Teardown`, `ClearKey`
those of deletion; `Sweep`, `sweep_cb`, `EvictDue`, `delete_if_generation` the age-out.
Only owned entries with the AGE_OUT policy; the bytes of an entry are its generation and
version, which no two writes share.  `seen` collects what a key held during a call, so
`ResultWasTrue` says that calls are linearizable.

### Ota - `bb_ota_check`, `bb_ota_pull`, `bb_ota_push`, `bb_claim`

`h` is the httpd task, which serves one request at a time (apply, check or push), `sp`
and `chk` the on-demand check, `w` the pull workers: a worker that has cleared the
in-progress flag still has to resume, release and exit, so two may exist.  Every
failure of begin, perform, finish, end, select, pause and task creation is a branch (a
whole image may fail to finish or to be selected), and `Reboot` may come at any moment.
The partition is a sequence of chunks with a writer each; `esp_ota_begin` erases,
`esp_https_ota` erases as it goes, writing over what was not erased spoils a chunk.
`overlap`, `crossed` and `leaked` are history: the three situations of section 5 that
the properties name.

Left out: the pause hooks of `bb_ota_check` itself, power management, progress text,
boot mode and validation, the inner retry of the TLS handshake (part of an attempt), and
jumps of the wall clock.  The clock is coarse: one tick is the freshness window.

### DataPush - `bb_data_http_common.c`, with `bb_data`, `bb_queue`, `bb_log_event`

One event key ("log"), one state key and one client slot: keys and clients share only the
ring.  `StashLine`/`TouchLine` is the forwarder's line, `Claim`, `Render`, `Commit`,
`Revoke` the parts of `push_pump`, which both tasks run; `Detect` to `SendFatal` is the
broadcaster's sweep; `Acquire`, `Publish`, `RequestRelease` the connection's task.  A
push into the ring is three stores under the ring's lock (evict, add, count), and
`drain_client_events` reads count, total and entries without it, so every intermediate
state is met.  `Release` and `Released` are the two stores that free a slot.

The outcome of `send_fn` is a free choice, and a state key whose interval has not passed
is one that is not rendered in this sweep.  Left out: half-copied payloads (the render
scratch and the stash are read while written, but no property tells frames apart by
their bytes), the wrap of 32-bit sequence numbers, the byte budget of a queue,
subscription filters, durable clients (nothing acquires one), and the degraded modes
without render, generation or send callbacks (always installed at start).  `slot.start`,
`got`, `last`, `raced`, `left` and `backwards` are history: where the client's cursor
began, which pushes were queued for it and the latest of them, how many pushes overlapped
its drains, and the newest value that left its queue.  The specification is named
`PushInit`, `PushNext`, `PushSpec`, so that `Queues_proofs` can extend it beside `BQueue`.

### Reboots - `bb_system`, `bb_ota_boot`, `bb_ota_validator`, `load_reboot_record`

`nvs` is what survives a reset, `ram` what does not.  A restart is three steps for
whichever task asks (`SaveRecord`, `RetryRecord`, `Restart`), and tasks may race for it:
the reconnect task's safeguard (`Escalate`, `Account`, `Increment`, `Record`), a request
(`RebootHandler`, `ApplyHandler`), the dispatcher's deferred restart, boot mode.  The
start-up sequence is `RunIfPending`, then boot mode or `ValidatorInit` and `DiagInit`.
`PowerCut` comes between any two writes.  The wall clock runs on, is trusted once
`Synchronised`, and may step back.

Each call to NVS may fail.  A write that fails changes nothing and is mostly not noticed.
A read that fails answers what the code makes of it: a boot-fail counter of 0
(`boot_count_reads`), an empty budget, which then stays in the cache for the boot
(`cache_reads`), no boot-mode flag (`FlagUnread`), no record.  A decision may thus be made
on nothing and its result written over what was there.  `FactoryReset` erases all of it
and takes NVS down until the next boot, so that no later write of that boot lands, its own
record included; a timer that cannot be created leaves the board in that state.  Marking an
image valid may fail unnoticed (`MarkValid`, `ValidatorInit`), a deferred restart may fail
to get its timer, and an image flashed over the wire has no state (`"undefined"`).

`WifiReconn` decides when to escalate; here that is a free choice, and a refusal changes
no more than the budget's cache (`Refused`).  Both causes of the budget have their own
state and only one has a caller, so there is one.  The bootloader's rollback of an image
booted twice without being marked valid is external.  Left out: the reboot history ring,
the record's detail and epoch, the recover route.  An image on trial whose other slot is
empty is a choice of `ValidatorInit`.
`hist` is history: who asked for this restart and for the last one, the safeguard reboots
since the counter was cleared (`streak`) with the counts lost meanwhile (`lost`), those the
budget allowed and saved (`times`, which `Counted` starts afresh where a budget was lost),
and boots in boot mode still owed.

## 3. The runs

All runs pass, with a complete search of the instance.  `CHECK_DEADLOCK FALSE` is
set where the system may legitimately stop (histories are bounded, nobody is
obliged to call, a waiter may wait for ever).

| run | instance | distinct states | question |
|---|---|---|---|
| `once` | 3 callers, 2 failures, with fairness | 2,814 | can a lock be created twice, used before it exists, be reported as failed when it was not, or polled for ever? |
| `lock_cond` | 3 waiters, 1 signaller, 2 units of work, with fairness | 50,738 | does a timeout at any point of the hand-over lose a signal, touch a dead stack frame or strand a popped waiter? |
| `bqueue_mpsc` | 3 threads, 2 values, capacity 3, symmetry | 453,160 | does somebody sleep beside work; is the ring a FIFO across wrap-around, and does each call return what it should? |
| `bqueue_mailbox` | 3 threads, 2 values, capacity 1, with fairness | 25,381 | the same against overwrite and reset; do timed calls return? |
| `lifecycle` | 2 tasks, 1 service, 3 reasons for 2 bits, 1-bit event word, 1 observer slot, queue of 2, 3 transitions, with fairness | 304,152 | does an observer miss an event or end with a stale state; do pause reasons hold at the table's limit; does every event reach an asynchronous observer or the drop count? |
| `wifi_reconn` | ladders of 1-2 retries, event queue of 2, 2 driver events in flight, connect may fail | 367,659 | do retrying states keep their timer, what strands or parks the manager? |
| `wifi_reconn_live` | shortest ladders, 1 driver event in flight, with fairness | 120,149 | does a retrying manager always ask the driver again? |
| `wifi_creds` | 2 credentials, one good, queues of 1, 3 requests, 2 resets or failed calls, with fairness | 930,718 | what may become live or mirrored; does what is erased come back, what is saved get used, what is staged get settled? |
| `cache_slots` | 2 slots, 2 keys, 2 upserters, 1 client, the sweeper, 4 calls | 489,051 | is a slot used for what it no longer holds; are results true; can the locks close a cycle? |
| `ota` | 2 workers, 2 chunks, 2 attempts, window 1, uptime to 1, symmetry | 1,961,530 | can two updates run, a claim be orphaned, a download run unsheltered, a broken image be selected? |
| `data_push` | 2 lines, 1 change, ring of 2, client queue of 2, 2 timeouts per frame | 5,146,550 | does the ring go back; is a value or the newest line absorbed; what can the unlocked drain repeat or lose? |
| `reboots` | threshold 1, interval 1, cap 2 per day of 3, ring of 2, clock to 4; up to 3 escalations, 2 requests and 2 faults, 3 in all | 6,430,114 | can a board reboot past its throttles, pull updates in a loop, or report a restart nobody asked for? |

**Why these bounds.**  Three callers give a winner, a loser and a caller that comes
between a failure and a retry; two failures give the RUNNING-IDLE-RUNNING-IDLE
cycle.  Three waiters and three threads are the least with a waiter served, one
timing out and one left behind.  Capacity 3 wraps at a size that is neither one nor
a power of two.  Two tasks are the least that deliver out of order; every table is
smaller than the number of things callers put into it, so each limit is met.  Each
retry ladder has a step below, at and above its limits; the delays are distinct
numbers and only compared with zero.  A queue of two fills with one event handled
and two in flight.  `DroppedMod` makes the size_t drop counter wrap at 2.
An asynchronous queue of two keeps an order and overflows at the third transition.
Three requests are stage, stage again and reset, or save, reset and save; two faults
are a reset inside a write and one inside the recovery from it, or a failed call and a
reset.  Two slots and two keys
let a slot change its key and a key its slot; four calls are enough for find, delete,
register and use.  Two chunks are the least an interrupted write leaves half done; two
workers one that exits while the next one starts.  Two lines and the broadcaster give a
claim that goes backwards and then a third push, which evicts from a ring of two; a
queue of two holds a value and an event, and overflows.  The threshold of 1 is passed by the second
escalation.  With an interval of 1 and two reboots in a day of 3, three reboots one tick
apart keep the interval and exceed the cap, so the two clauses differ; a clock to 4 lets
the first one leave the window, and the ring of two wraps at the third.  Two faults are a
record that fails twice, or a failed read and a failed write.  `MaxEvents` bounds
escalations, requests and faults together, three of any kind: an escalation with two
faults, two escalations with a factory reset between them, and so on.

**Fairness.**  `Once`: a caller inside the primitive keeps running (the loser's
`vTaskDelay(1)` yields whatever the priorities).  `BQueue`: threads get the mutex
they queue for, and time passes.  `LockCond`: strong fairness of each thread's
steps, since a FreeRTOS mutex is handed to a waiting task while others keep taking
it.  `Lifecycle`: a task inside a call returns and the drain task is scheduled; no
lock is held across a callback.  `WifiReconn`: the reconn task, the event loop and
the start of the station; the driver owes nothing, it may never answer, and
`wifi_reconn_live` lets `esp_wifi_connect` succeed because a failing one is retried
only by the next timeout.  `WifiCreds`: the boot, httpd, dispatcher and portal tasks
run and armed timers expire; requests, addresses and faults owe nothing.  No fairness
is ever assumed of callers.  `EveryCallReturns` is shown with `MaxFails` failing
attempts: with a body that fails for ever a loser may poll for ever, as `bb_once.h` says.

**What the properties say.**

* `TrueMeansCreated`, `CreatedOnce`, `FalseIsHonest`, `EveryCallReturns` (Once):
  section 1's row, including that the recheck which `bb_lock_once_ensure` calls
  unreachable is so.
* `NoUseAfterFree`, `NoLostWakeup`, `PoppedReturns` (LockCond): list membership, not
  the semaphore's return code, decides; the guard held across the give is what keeps
  the stack frame alive.
* `NoSleeperWithWork`, `ImplementsFifo`, `TimedCallReturns` (BQueue): broadcast is
  needed because peek consumes nothing; every call takes effect at one instant, on the
  right item, and returns the right item and error (`BoundedFifo`); the deadline is
  absolute, so vain wakeups cannot extend it.
* `NoLostNotification`, `ObserverConverges`, `PauseExact`, `AsyncEventuallyDelivered`
  (Lifecycle): delivery may be out of order, but an observer that keeps the highest
  version per service ends with the truth; a failed start of the drain task is retried
  and loses nothing uncounted, unless the queue was configured with one place (section 5).
* `TimedWhileRetrying`, `StrandedOnlyByLoss`, `ParkedOnlyByPeer`,
  `SelfHeals` (WifiReconn): `reconn_task` blocks without limit
  when no timer is armed, so a retrying state without one ends the retries; the
  causes of the two known ways out are named in the property and nothing else is
  excused.
* `LiveIsProven`, `MirrorFollowsLive`, `ErasedStaysErased`,
  `SavedCredsReachDriver`, `StagedIsSettled` (WifiCreds): each names the windows in
  which the code does not keep it (section 5), and shows there is no other.  A saved
  pair is not handed over when a failed read hid it from this boot or the driver refused
  it; a staged one is not settled in this boot when the dispatcher's queue was full, the
  restart's timer could not be created, the promotion could not read or commit, or
  autoinit could not read the keys.
* `NoStaleUse`, `ResultWasTrue`, `EvictsWhatItJudged`, `NoDeadlock` (CacheSlots): the
  generation check is what makes the two-level locking sound; delete nests the locks
  the other way round and is saved by nobody holding a slot's lock while asking for the
  registry's.
* `OneUpdate`, `ClaimIsOwned`, `Sheltered`, `SelectedIsWhole` (Ota): flag, claim, pause
  and watchdog are released one by one, so each is stated against who may still rely
  on it.
* `RingNeverGoesBack`, `NewestIsPushed` (DataPush): the commit's check of its claim
  keeps an old render behind a newer one, and the revoke's check keeps a failed one from
  retiring a line.  `SeenIsRendered`: recording a generation before the render, and
  clearing the dirty bit after it, absorbs no change.  `OnceInOrderUnlessRaced`,
  `SilentLossBounded`: a client's stream is exactly once and in order but for the pushes
  that overlap its drain, and each of those costs at most one line.
* `RebootsThrottled` (Reboots): with the clock unset the counter bounds the reboots
  whatever the image's state, with the clock set the budget does, and no order of setting
  the clock, losing power and failing calls gets past both.  What is forgiven is counted:
  one reboot for each count that was lost, by a write that failed, by a decision that
  could not read a counter at the threshold, or by an increment that could not read what
  had been counted and stored 1.  A factory reset clears the counter as an address does.
  A budget that could not be read, saved or compared with the clock, or was erased,
  starts a new account: its two clauses speak of the reboots from one such loss to the
  next.  `NoBootModeLoop`: the flag is cleared before anything can go wrong, so one
  request means one boot in boot mode, and one more for each clearing that fails.
  `ReportIsTrue`: the record is trusted only after a software reset, consumed once, and
  rewritten by each restart.

## 4. The proofs

TLAPS checks these for every value of the constants that satisfies the named
assumptions.  Each is Init => IInv, IInv /\ [Next]_vars => IInv' with one lemma per
action (or group of actions that touch the same state), and a temporal step.  Every
`IInv` was first an invariant of the corresponding run.

| theorem | from | why the inductive invariant is needed |
|---|---|---|
| `Sync_proofs!OneRunnerHolds`, `TrueMeansCreatedHolds`, `CreatedOnceHolds`, `FalseIsHonestHolds` | `OnceAssumption` | `AttemptInv`: inside the body the lock does not exist yet; after it, the outcome says whether it does; an IDLE guard means no lock; and a loser that can see IDLE has lived through the failure that reset it.  Without the last part `FalseIsHonest` is not inductive. |
| `Queues_proofs!TypeCorrect`, `NoSleeperWithWorkHolds` | `BQueueAssumption` (capacity and the counter's modulus are positive) | `NoMailboxSender`: a mailbox empties itself without waking senders, which is right only because the mode check keeps senders out. |
| `Queues_proofs!ImplementsFifoHolds` | the same | The refinement, down to the item and the error each call returns.  `SendsItems` (a send that waits still carries the item it was called with) and `RingSeq`, what the `count` slots from `head` on are as a sequence: a receive's output is its head and a send appends to it.  Then each step is one operation of `BoundedFifo`, at the instant the call takes effect, or a stutter. |
| `Sync_proofs!TypeCorrect`, `NoUseAfterFreeHolds`, `NoLostWakeupHolds` | `LockCondAssumption` (finitely many tasks) | `ListInv`: who is listed sleeps on a live semaphore and is not yet popped, and is listed once, so that removing one node removes the waiter.  `GuardInv`: a node in hand means the guard in hand.  `WokenInv`: a popped waiter answers OK even if its own wait timed out.  `WakeInv` counts without the factor `MaxWork` of the property: one broadcast in progress covers everything. |
| `Lifecycle_proofs!TypeCorrect`, `NoLostNotificationHolds`, `ObserverConvergesHolds` | `LifecycleAssumption` (table sizes are positive) | `WalkInv`: a walk starts at slot 0.  `EventInv`: no event is newer than its service.  `NewestInv`: the newest version has an event that tells the truth; with `NoLostNotification` it is where the observer's last news comes from. |
| `Lifecycle_proofs!PauseExactHolds` | the same and `Distinct` | `PauseInv`: reasons held and bits set correspond, through an intern table without duplicates.  `Distinct` says that no two reasons are cut to the same text; without it the property is false, since two such reasons share a bit (section 5).  The run's reasons are distinct. |
| `WifiReconn_proofs!TimedWhileRetryingHolds` | `LimitsAssumption`, `DelaysAssumption` (the Kconfig ranges start above zero) | `TInv`: CONNECTED has no failure window running (a backoff entered from there passes no escalation guard), and the second half of the watchdog's reattempt runs in CONNECTING.  The FSM step is one lemma (`FsmStepTInv`), used by the queue and by the timer path. |
| `WifiReconn_proofs!ParkedOnlyByPeerHolds`, `StrandedOnlyByLossHolds` | the same | `SelfInv`: the manager's own disconnect is the first in the event loop's queue, with the flag set for it.  `ToldInv`: as long as nothing was lost, a GOT_IP under way is true or followed by the disconnect that corrects it.  `PhaseInv`: what may run before the manager is seeded. |
| `WifiCreds_proofs!TypeCorrect`, `LiveIsProvenHolds`, `MirrorFollowsLiveHolds`, `ErasedStaysErasedHolds` | `CredsAssumption`, `BoundsAssumption`, `ProvQueueAssumption` | `ControlInv` (`EarlyInv`, `BootInv`, `PortalInv`, `PromoteInv`, `ApplyInv`) says who can be running: a promotion, from the try to its end, excludes the portal, and a timer's persist excludes an inline one.  `CredInv`: every pair a step may yet write, or heal from, is proven (`TrustInv`); a mirror that is not the live pair is about to become it (`MirrorInv`); nothing is left that could bring an erased pair back (`EraseInv`). |
| `WifiCreds_proofs!SavedCredsReachDriverHolds` | the same | `DriverInv`: while the driver lacks the live pair, the news of it is in the handler, the queue, the settle timer or `arrived`, or was lost in one of the named ways, a failed connect or a failed read of this boot among them. |
| `CacheSlots_proofs!NoStaleUseHolds`, `EvictsWhatItJudgedHolds`, `NoDeadlockHolds` | `CacheAssumption`, `NoneAssumption` | `TableInv`.  `SlotInv` and `HeldInv`: a slot whose key is set but which is not owned is in the hands of the holder of `s_reg_lock`, since registration writes the key first and teardown frees it last.  `RefInv`: a reference is current or its generation is over.  `JudgeInv`: what an eviction found due.  `RegInv` and `LockInv`: who holds the registry waits for a slot's lock at most, and who holds a slot's lock waits for nothing. |
| `CacheSlots_proofs!ResultWasTrueHolds` | the same | `SeenInv`: the history of a call holds what its key holds now, and an absence if the incarnation it looked up is gone. |
| `Ota_proofs!TypeCorrect`, `OneUpdateHolds`, `ClaimIsOwnedHolds`, `ShelteredHolds`, `SelectedIsWholeHolds` | `OtaAssumption` (finitely many workers, at least one chunk and attempt) | `ApplyInv`, `CheckInv`, `ClaimInv`, `ShelterInv`: flag, claim, pause and watchdog each against those who will give them back.  `BesideInv`: two workers, a worker beside a request about to create one, and a worker beside a push are on record in `overlap` and `crossed`, which is what makes the exceptions of the properties exact.  `BootInv`: whoever selected the slot still waits for the restart. |
| `Queues_proofs!NewestIsPushedHolds`, `RingNeverGoesBackHolds` | `DataPushAssumption` (capacities and the failure limit are positive) | `PumpInv`: while the forwarder is in `push_pump` no other line is stashed, so it renders the newest one, and a frame is never older than its claim.  `AheadInv`: the ring ends with a newer line than the one the broadcaster is about to commit only if its claim was replaced, and giving back the claim that replaced it does not restore it; so the commit is discarded.  `NewestInv`: a generation marked handled is in the ring or in the hands of the task that claimed it. |
| `Queues_proofs!SeenIsRenderedHolds` | the same | `SeenInv`: a client that is not dirty has the value in its queue or behind it, and a client still being built is dirty. |
| `Queues_proofs!SilentLossBoundedHolds`, `OnceInOrderUnlessRacedHolds` | the same | `SeqInv`: the ring's entries are numbered without a gap from `Base` on, and a drain finds what it counted but for one entry a push under way may have evicted.  `CountInv`: between the two reads of a drain the account has room for the amount (`Slips`) by which they may disagree; during it, entry `e` of the stream is read while the cursor claims another, and both are within the account. |
| `Queues_proofs!PushTypeCorrect` | the same | `BoundInv`: the cursor stays behind the total because a drain takes the ring's count first; the bounds of the queue and of the failed sends. |
| `Reboots_proofs!TypeCorrect`, `RebootsThrottledHolds`, `NoBootModeLoopHolds`, `ReportIsTrueHolds` | `ThrottleAssumption` (the threshold fits the counter's `uint8_t`), `BoundAssumption` | `StreakInv`: the safeguard reboots without those whose count was lost are at most what the stored counter says, also while one is between its decision and its increment.  `TimesInv`: the stored ring covers the reboots counted, each further from the next than the interval and the cap allow; a decision under way keeps that distance only as long as the cache is what NVS holds, which is where a failed read comes in.  The budget's throttle implies that the cache is loaded and the clock set. `CreditInv`: whoever may still owe a boot in boot mode.  `ReportInv`: what the record holds is what the restart under way, or the one before, was asked for. |

Only model-checked is what is temporal (`EveryCallReturns`, `TimedCallReturns`,
`PoppedReturns`, `AsyncEventuallyDelivered`, `SelfHeals`, `StagedIsSettled`): liveness
under fairness is out of reach of the installed provers.  Every invariant and every
action property that a run checks is proved.

## 5. Where code and documentation disagree

Met while modelling.  The properties name each of these situations as their exception,
in a history variable or in their wording, so that a passing run shows there is no other.

**Reconnect manager.**
* WR_BACKOFF "backoff timer armed; expiry -> WR_CONNECTING" (`wifi_reconn_policy.h:219`).
  The escalation guards and the policy read the clock separately
  (`wifi_reconn_policy.c:355`): if the persistent-fail window passes in between, the
  policy answers REBOOT with a delay of 0, arming 0 ms arms nothing, and the task waits
  for ever.
* It "recovers from disconnects and no-IP stalls without a reboot"
  (`components/bb_wifi/README.md:4`).  The watchdog sets `self_disconnect` before a
  `disconnect()` that posts no event on an idle station (`wifi_reconn.c:189`); the flag
  then absorbs the next genuine disconnect and the manager stays CONNECTED over a dead
  link.
* The watchdog acts if neither GOT_IP nor DISCONNECT arrives (`bb_wifi/Kconfig:84`).
  After a successful pending try the FSM is seeded CONNECTING although its GOT_IP was
  already handled (`bb_wifi.c:1376`), so the watchdog tears down a healthy link.

**Lifecycle.**  Independent subsystems do not step on each other (`bb_lifecycle.h:5`).
Reasons that agree in their first `CONFIG_BB_LIFECYCLE_REASON_MAX - 1` characters share a
bit (`bb_lifecycle.c:179`), and clearing one resumes a service the other holds.  A full
queue drops the event and counts it (`components/bb_lifecycle/Kconfig:47-50`), for a depth
whose range starts at 1.  With a depth of 1 `bb_bqueue` is a mailbox, whose send and drop
count both answer INVALID_STATE (`bb_bqueue.c:178`, `:202`): every event is lost, and
none is counted.

**Credentials.**
* A revert keeps the live credentials (`bb_wifi.c:1362`), unless a late address promotes
  the staged ones while the revert is under way.  Staging others while a promote is
  between its two reads promotes a pair nobody tried.
* A heal stamps the board provisioned from a mirror that any save writes.
* A factory reset cut between NVS and the mirror brings the credentials back at the next
  boot.
* A portal whose start fails half-way leaves POST /save registered, and a portal reopened
  on a provisioned board posts CREDS_ARRIVED to a state that has no row for it: the save
  is stored and not used until the next boot.
* A full dispatcher queue drops the deferred persist or restart for good, and a restart
  whose timer cannot be created never comes (`bb_wifi.c:503-506`,
  `bb_system_restart_deferred.c:169-182`): the caller is told it will, and what it staged
  waits for the next boot.
* A promotion whose read or commit fails (`bb_settings.c:639`, `:657`, `:665`) has used up
  its try: the pair the board is connected with stays staged until the next boot.

**Cache.**  Generations are per slot, not unique per key (`bb_cache_espidf.c:708-719`
argues as if they were); a new entry has time stamp 0 until it is filled, so a sweep in
between finds it due; and an entry refreshed after it was judged may still be evicted.

**OTA.**
* `bb_ota_pull.c:383`: "the check must be younger than window_s seconds".  The age is
  uptime minus a `gettimeofday` stamp (`bb_ota_pull.c:1040`,
  `bb_ota_check_common.c:536`): once SNTP has set the clock it is negative and a cached
  check is fresh for ever.  The run's `Epoch` is 0, the time before SNTP answers.
* "At most one OTA-class operation" (`bb_ota_check.h:205`): an apply accepted while the
  last worker is exiting shares its claim's name, and that worker releases it; and
  `try_spawn` keeps "upd_check" when its task cannot be created
  (`bb_ota_check_espidf.c:141-147`), which refuses every apply until a later check.
* A push takes neither the flag nor the claim, so it may write the partition a pull is
  writing.
* `bb_ota_check_run_blocking` relies on a run that "always writes a non-zero
  last_check_us" (`bb_ota_check_espidf.c:183-185`); a disabled check or a refused pause
  returns without.

**Data push.**
* "Only one caller ever wins the claim for a given" generation (`bb_data_http_common.c:1104`).  The
  generation is read before the lock, so a stale reader replaces a newer claim by its
  older one and the newer generation is claimed a second time: frames repeat, and with
  one failed render the newest line is never pushed (`backwards`).
* The forwarder's push is "guaranteed to read exactly this line's stash"
  (`bb_log_event.c:177-182`).  The broadcaster may win the claim and render later: that
  line is skipped and the next one pushed twice.
* `drain_client_events` reads the ring unlocked: a push inside it misnumbers entries, and
  two of them have made a client receive lines as 2, 1, 2.
* The event path "must never silently evict an already-queued frame"
  (`bb_data_http_common.c:951`), but the state path, which pushes without a room check,
  evicts event frames that are then counted nowhere.
* `bb_data_http_client_release` frees the slot before it clears `pending_release`: a new
  client that disconnects in between is not reaped (`Release`, `Released`).

**Restarts.**
* A failed read is meant to be harmless: the count is 0 (`bb_system.h:273`), the budget
  empty (`bb_system.h:439-441`).  Both are the answers that allow a reboot, and neither is
  only an answer: the increment after an unread counter stores 1 over the real count, and
  the record after an unread budget stores a ring of one over the real ring.  So one
  failed read forgets every reboot before it.
* A factory reset (`bb_storage_http_routes.c:840`) erases counter, budget and boot-mode
  flag with the rest of NVS, and leaves NVS down: the record it then writes for its own
  restart is not saved, and the next boot reports an unknown source.
* "A failed pull falls back to a normal boot on the next reset (no boot loop)"
  (`bb_ota_boot.c:386-387`), provided the write that clears the flag lands, which the
  line after it does not check.
* The validator caches its answer "since it's immutable post-boot for the running
  partition" (`bb_ota_validator.c:86`).  Marking the image valid changes it in the same
  boot: `diag_boot_publish` asks at start-up, so the snapshot it publishes "when the image
  self-validates" (`bb_diag_http_routes.c:1234`) still says `pending_verify`, and every
  safeguard reboot of that boot is counted as one of an unproven image.
* A restart that begins before `load_reboot_record` runs replaces the record of the one
  before, and the boot in between reports the later source.
* Only an image marked valid with a set clock stays out of the boot-fail counter, but the
  throttle is chosen without asking for the image: a reboot the budget allows may be
  counted as a failed boot as well.

## 6. What is not modelled

Within the modelled components: the arguments' NULL checks; `bb_lock_cond_destroy`
and `bb_bqueue_destroy` (a caller's contract); the static pool behind
`bb_bqueue_create`; the rate limit of one log line in `bb_lifecycle_async.c`;
`bb_wifi_restart_sta` (no caller in production), scanning and the event group of the
blocking connect; borrowed cache entries; periodic and worker timers; the SSE and WebSocket side tables behind `send_fn`.
`RECONNECT_REQUESTED` has a row in the table and no poster in production, so no step
posts it.

`PROJECT.json` lists every component with the reason it is left out.  In short:
character-level text (JSON, logfmt, OpenAPI, release manifests), register-level drivers,
floating-point control, read-only reports and thin wrappers will stay out; they are
most of the repository's lines.  The parts with a protocol are in the plan.

## 7. Plan

In order of what a failure would cost in the field:

1. `Reboots` composed with `WifiReconn`, whose `escalate_allowed` is now a free choice,
   and with `Ota`, whose selected image is what boot mode installs.
2. `Mqtt`: the deferred start against got-IP and stop, subscriptions restored on every
   connect, destroy against a publish, reassembly.
3. The SSE and WebSocket side tables and `bb_ws_server`'s deferred sends against reused
   descriptors, as `DataPush`'s `send_fn`.
4. `TimerDispatch`: periodic and worker timers, delete against a running callback.
5. `Pool`: `bb_bqueue_create`, `bb_pool`, `bb_task_registry`.
