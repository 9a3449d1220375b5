# Verification of the YoC SDK core

TLA+ models of the core of this SDK (AliOS/YoC for Sophgo CV181x/CV180x), the
TLC runs that check them on small instances, and TLAPS proofs for every
instance. `PROJECT.json` maps each definition to the source lines it stands
for.

## 1. Inventory

The tree holds about 130 components under `src/components`. Most are vendored
libraries, drivers and binary codecs. The code that decides whether a product
built on it behaves is small:

| part | state | operations | what is hard |
| :--- | :--- | :--- | :--- |
| Rhino kernel, `rhino` | task control blocks, ready queue, tick list, blocked list per object, mutex owner and list of held mutexes, semaphore counts, scheduler lock | task create, delete, suspend, resume, sleep, yield, priority change, abort, cancel; mutex and semaphore calls; tick interrupt | any call may interleave with any wait; timeouts race wake-ups; priority inheritance along chains; deletion of owners and waiters |
| Rhino queues, events, timers, work queues, `rhino` | message rings, flag groups, sorted timer list, work list | send/receive, get/set, start/stop/change, run/cancel | commands travel through a queue to the timer task; check-then-act over two critical sections |
| key-value store, `kv` | nodes on flash; per block `write_offset`, `count`, `ro_count`, `kv_size`; `bid`, `gc_bid` | `kv_init`, `kv_set`, `kv_get`, `kv_rm`, `kv_reset`, garbage collection | power loss anywhere, bad flash, 8-bit versions that wrap, factory data |
| uService, `uservice` | per service task a queue of RPCs, subscriptions | call, reply, subscribe, publish | an RPC is destroyed while it is answered; asynchronous publication |
| boot table and update, `bootab`, `fota`, `ota_module`, `tiny_bbm` | A/B flags in two copies, download offset | switch, confirm, roll back, download, resume | power loss between two copies |
| logging, `ulog` | asynchronous message queue | write, filter | queue full |

How they interact: application tasks call the kernel; the tick interrupt wakes
sleepers and timeouts; `kv_aos.c` takes one kernel mutex (`kv_lock`) around
each call of the store; uService and `ulog` run tasks that wait on kernel
queues and semaphores; the update writes partitions and, through `bootab`, the
table the boot loader reads. `PROJECT.json` lists every component, also those
that are not modelled, with the reason.

What makes each part correct:

* kernel: the ready queue, the blocked lists and the tick list agree with the
  state of every task; the highest ready task runs; nobody waits for something
  that cannot happen; a lock that reports success is owned; priorities are
  inherited exactly; timed waits end;
* timers: the list holds exactly the active timers; none is called before its
  time, none is slept past or waits for ever;
* work queues: a token for each work, none queued twice, a cancelled one does
  not run, an accepted one does;
* services: an answer reaches the caller that waits for it, buffers are freed
  once, by whoever is last;
* boot table: a slot that starts up is always left to fall back to;
* store: a call either happened or did not, whenever the power fails; nodes
  do not overlap; factory data stays; calls end.

## 2. Plan

1. *(done)* `KList`, `RhinoState`, `RhinoPriority`, `RhinoKernel`: scheduler,
   tasks, mutexes, semaphores, tick; `KListProofs`, `RhinoProofs`: its types, its
   three kinds of list; `RhinoMutexProofs`: who owns which mutex, what a lock
   tells its caller, that priorities are inherited exactly, and that the highest
   one runs.
2. *(done)* `KvStore` against `KvSpec`, with power loss and bad flash;
   `KvStoreProofs`: types, nodes apart, exact counters, one node per erase,
   copies in order, the refinement.
3. *(done)* `RhinoTimer`: software timers that take commands from a bounded
   queue; `TimerProofs`: its list, that no callback comes early, and when the list
   is sorted and the task woken in time.
4. *(done)* `BootAb` against `SlotSpec`: the A/B table with power loss;
   `BootAbProofs`: its invariants and the refinement.
5. *(done)* `UService` against `CallSpec`: request, answer, timeout and the
   buffer they share; `UServiceProofs`: its safety and the refinement.
6. *(done)* `WorkQueue`, on timers and semaphores; `WorkQueueProofs`.
7. Left: queues (`k_queue.c`, `k_buf_queue.c`) and event flags on
   `RhinoState`; the download state machine (`fota`) above `BootAb`; the event
   broker above `UService`; the receive requests of the AT parser.
8. Left to prove: nothing that the runs check as an invariant; liveness stays
   with TLC (section 9).

Runs stay below a million states: two to three tasks, two mutexes, one
semaphore; two keys, two or three blocks; two slots; one caller and two
services; three works.

## 3. The kernel: KList, RhinoState, RhinoPriority, RhinoKernel

`KList` is the intrusive list of `k_list.h` as the kernel uses it: insertion
before an element (`InsertBefore`) and removal (`Unlink`).

`RhinoState` holds the data: `tcb` (`ktask_t`), `ready` (`g_ready_queue`, one
sequence per priority that starts at `cur_list_item`), `tick` (`g_tick_head`,
with the ticks still to go in place of the absolute `tick_match`), `waitq`
(`blk_list`), `mtx` (`kmutex_t`), `count` (`ksem_t`), `active`, `sched_lock`,
and `call`, what the unfinished blocking call of a task waits for. Kernel calls
run with interrupts disabled and call several list helpers one after the other,
so the helpers (`ReadyAdd`, `PendListAdd`, `Unpend`, ...) are functions from one
kernel state to the next and an action makes the last of them the next state.

`RhinoPriority` holds `mutex_pri_look`, `mutex_release`,
`mutex_task_pri_reset`, the loop of `task_pri_change`, the hand-over of a
mutex, `task_mutex_free`, `tick_list_update` and the time slice. The links of
`mutex_list` are kept as links, since the code reads them after the list has
changed. A loop of the code is a function of the number of its rounds
(`PriRounds`, `FreeRounds`, ...), so that what one round keeps can be proved and
then holds after any number of them.

`RhinoKernel` has one action per call. A blocking call is two actions: the
call, and `PendEnd` when the task runs again and `pend_state_end_proc` reads
why. Anything may happen between. A call that returns an error before it
changes anything has no action. `SemGive`, `SemGiveAll` and `Tick` may come
from an interrupt at any moment; the rest needs a running task.

Not in it: more than one CPU (and with it `dis_sched`), the CFS class, hooks,
statistics, and objects with dynamic memory.

`krhino_task_pri_change` tests its task before it locks the scheduler, so it is
two actions, `TaskPriChangeCall` and `TaskPriChangeMake`, with what was tested in
`change`. `k_err_proc` ends in an endless loop (`soc_err_proc`, yoc_impl.c:85):
`kerr` holds its reason, and the only step left is `Stopped`. `Changes` says who
changes whose priority to what.

`krhino_task_create` is one step, although it fills the control block before the
critical section that makes the task ready: nobody has the handle of the task
then, unless the memory of a deleted one is used again while an old handle
is still about.

Bounds: `MaxNested` is the bound of recursive locking (255 in the code), at which
the call stops the system (`MutexLockOverflow`, k_mutex.c:310), `MaxSuspend` that of
`suspend_count`, `MaxCount` that of a semaphore, `MaxLock` that of
`g_sched_lock`. `Calls` says which optional calls an instance makes, so that
each run asks one question within its state budget. Three tasks and two mutexes
are enough for chains (a task waits for a mutex whose owner waits for another),
for two waiters of one mutex in both orders, and for circles. `PriFuel` bounds
the loop of `task_pri_change`; reaching the bound sets `kerr` to `ENDLESS`, and
`StopsOnlyOnMisuse` shows that it is not reached.

Fairness: only `TickGoesOn`, the timer interrupt. Nothing is assumed of tasks.

| run | asks |
| :--- | :--- |
| `MCRhinoMutex` | with inheritance: exact priorities, sorted blocked lists, a clean tick list, true lock results, under timeouts, aborts, suspension, priority changes, circles |
| `MCRhinoDelete` | with inheritance: deletion and re-creation of tasks and mutexes: `OwnersSound` ties owners, their lists of held mutexes and the waiters together, `StopsOnlyOnMisuse` says when the system stops |
| `MCRhinoSem` | with the default configuration (`INHERIT` is `FALSE`, k_default_config.h:69): semaphores, time slices, scheduler lock, cancel, delete, timed waits that end |
| `MCRhinoDelBuild` | violated: in the default configuration a deleted task keeps its mutexes |

Not a run of its own: with inheritance, a mutex that its deleted owner had
locked twice is passed on with the count 2 (`task_mutex_free` leaves
`owner_nested`). `LockResultTrue`, which asks that the new owner holds a mutex
once, does not hold where `task_del` and nested locking meet; it is checked in
`MCRhinoMutex`, where no task is deleted.

Not a run of its own either, and the reason for the hypothesis of `HighestAlwaysRuns`
(section 9): in the default build (`INHERIT` is `FALSE`) a task that waits for a
mutex and is given a higher priority hands it on to the owner
(`task_pri_change`, k_task.c:683-705, does not ask for `RHINO_CONFIG_MUTEX_INHERIT`).
`krhino_mutex_unlock` without waiters then lowers the owner in `mutex_release`
and returns without rescheduling (k_mutex.c:404-426): a task of lower priority
runs on while a higher one is ready. `RunsHighest` is checked in `MCRhinoSem`
without priority changes; with two tasks, one mutex and three priorities TLC
finds the violation in eight steps.

Nor a run of its own: `krhino_task_pri_change` stops the system where it means to
return `RHINO_INV_TASK_STATE` (k_task.c:732). A task checks another one, the tick
wakes that one, which has a higher priority by inheritance and deletes itself,
and the first task goes on with its change: `task_pri_change` finds a deleted
task and calls `k_err_proc` (k_task.c:711). `MCRhinoDelete` reaches this; it and the
nesting count are what `StopsOnlyOnMisuse` allows.

## 4. Software timers: RhinoTimer, TimerProperties

Callers and callbacks only send commands (`BufQueueSend`: straight to the timer
task when it waits, else into the queue, which may be full). The timer task
owns the list and is modelled at the points where it reads the tick, receives
or calls back (`Recv`, `Got` or `TimedOut`, `Fire` per expired timer, `CbEnd`,
`Cmd`, `Look`); ticks and commands fall between any two of them. `pc`, `inner`,
`msg` and `cur` are its place in `timer_task` and `timer_cb_proc`. A callback is
the time at which its `Fire` is pending: what it sends is a `Send`.

The tick counter is 64 bits wide and never compared but by difference, so the
model keeps `due` (`match - g_tick_count`) and `behind`
(`g_tick_count - g_timer_count`). `timer_list_pri_insert` compares without a
sign; a negative difference is therefore larger than every number of ticks
(`PriInsert`). A timer has `to_head` exactly while it is in the list.

`age` is history: how long ago the pending start was asked for. Callers are
taken to keep to this: a timer is created again only when its deletion was
carried out, and one from the heap is not used after `krhino_timer_dyn_del`.

Bounds: two timers with two settings each (periodic, one-shot), one place in the
queue besides the message that is handed over, `MaxLag`, the ticks the ready
task may lose between two readings of the tick, 1. `TIMER_ARG_CHG`, which only
replaces the argument of a callback, is in the module and left out of the run.

Fairness: `WF(TimerTask)`, since the timer task has priority 5, above all
application tasks, and `WF(Tick)`.

| run | asks |
| :--- | :--- |
| `MCTimer` | two timers, all interleavings of commands, callbacks and ticks: list and state agree, woken for the earliest (not so for three, see the next run), never early, never starved |
| `MCTimerLate` | violated: three timers and one late tick leave the list unsorted, and the task sleeps past a timer that is due |

## 5. The key-value store: KvSpec, KvStore, KvProperties

`KvStore` models kvset.c and block.c. The flash is the set of nodes whose erase
flag is unwritten (`nodes`), per block the end of the last node (`tail`) and of
everything not blank (`used`), and headers of torn nodes (`torn`). The RAM is
what `kvblock_t` and `kv_t` hold, set to zero by a power loss and computed anew
by `KvInit`. `op` is the call in progress: `kv_set` is `KvSet` (look up),
`TryOk`, `TryRejected` or `TrySkip` for each block it tries, `RmOld`; between
them `kv_gc` is `GcPick`, one `MoveOk` or `MoveFailed` and one
`RmMoved` per node, `MoveEnd`, `GcEnd`. Each flash write or erase is one step.

Lengths are in words; the last word of a node is its erase flag. A read-only
node has version 0, as `kvblock_search` reads it. An erase is atomic. A write
cut by a power loss leaves, by `Torn`, nothing that parses, or a whole header
without its end. A write that fails verification (`BadFlash`, or over junk)
keeps its space. Finding a node by its key in the RAM cache or at start-up is
taken to agree with a search of the flash. Two things are simpler than the code.
The write of an erase flag never fails (block.c:156 does not look at the
result; counters and flash would disagree until the next start), also with
`BadFlash`; and `KvInit` is one step, with the erases of several blocks in it.
`KvVerify` removes older copies until one is left; in the build with
`CONFIG_KV_START_OPT` 0 one pass may leave two behind when a factory node is met
first (kvset.c:59-103). `kv_lock` (kv_aos.c) makes calls
atomic to each other, so there is one call at a time.

`KvSpec` is what README.md of the component promises: a store of values, and a
call that takes effect at once, or not at all when the power fails. `Value`
maps nodes to the value a reader finds; `PromiseKept` is the refinement.

Bounds: two keys, values of two and three words, two or three blocks of five
words, so that a block holds two nodes, garbage collection runs within a few
calls and several power losses fit in one call; `MaxVer` is 3, the least for
which the wrap-around is unambiguous, in place of 255. `Scan` is below `Words`,
so junk can be overlooked as in `kvblock_calc`.

Fairness: `WF(Work)`, the task inside the call keeps running.

| run | asks |
| :--- | :--- |
| `MCKvPower` | power loss anywhere: the promise, the counters, the types |
| `MCKvBad` | writes that fail: nodes apart, copies ordered, one node per erase, calls end |
| `MCKvTornHeader` | violated: a torn header is completed by a later node |

Two more disagreements have no run. A block of factory nodes that is the
emptiest one is chosen as gc block after a power loss and erased
(kvset.c:135). When every block is full none is chosen, and `kv_gc` uses
`kv->blocks[-1]` (kvset.c:255). The runs have
no factory nodes (`Factory` is empty); on bad flash they reach the second case,
which the module ends in `GcWild`.

## 6. The A/B boot table: SlotSpec, BootAb, BootAbProperties

`BootAb` is bootab.c and ota_ab.c together with the part of the loader that
decides (boot_main.c, boot_virtual.c). `flags` holds for each slot what its
sector of `envab` says: the version, the rollback marker, the finish word, and
the number of boots, which the code counts by clearing one word per boot
(`cnt`). `image` is what the slot holds: `PART`, or a whole image that starts
up or does not. `pc` is where the device is: off, jumped to an application, in
the application, or inside `otaab_finish` or `otaab_upgrade_end`, each flash
operation of which is a step. `Boot` is the loader as a whole: it selects, counts
the boot, gives a slot up after `BOOT_LIMIT` of them. `PowerLoss` and
`SoftReset` may come at any point, and `TornValid` is the write of
`bootab_set_valid` cut after some of its words. Versions count down
from `Erased`, the value of an erased sector.

`SlotSpec` is what ota_ab.h promises: a next slot, possibly on trial, and a
slot to rely on that nothing writes. `SlotsKept` is the refinement. `KeptWorks`:
the slot that is relied on is valid and starts up. `PresentKept`: a running slot
stays selected until the other one is made valid.

The instance calls `otaab_finish(0)` and does not cut that call between its
two writes (`Fallbacks = {0}`, `FinishWhole`). Without these the promise is not
kept:

* after `otaab_finish(1)` the boots of a healthy slot go on being counted.
  After `BOOT_LIMIT` soft resets it is given up although it works; the other
  slot, whose flags are erased (version 0xFFFFFFFF), runs, and its
  `otaab_finish` erases the flags of the first. The versions tie and the
  abandoned slot a is selected again, against ota_ab.h:84;
* cut between the two writes, or torn in the write of `bootab_set_valid` that
  follows, both sectors may be left invalid.

Bounds: `Erased = 6` gives five updates before versions reach zero, where the
code has 2^32; `Limit` is 3 in place of the `BOOT_LIMIT` of a board (5 by default); three power losses are
enough to cut an installation, its repetition and the boot after.

Fairness: the loader runs, and the watchdog ends an application that hangs
(`WF(~Works /\ SoftReset)`). A healthy application may run for ever. `StartsUp`:
a device that stays powered starts up again and again.

External: who calls `otaab_finish` and `otaab_upgrade_end` is not in this
repository, and `CONFIG_OTA_AB` is off in the solutions that are built from it.

| run | asks |
| :--- | :--- |
| `MCBootAb` | power losses, watchdog resets and torn writes between and inside updates: the four properties above |

## 7. Service calls: CallSpec, UService, UServiceProperties

`UService` is uservice.c, utask.c and rpc.c: tasks send requests into the
bounded queue of a service task, some wait on the semaphore in the request's
buffer, and both sides give the buffer up with `rpc_deinit`; the second one
frees it. `heap` holds the buffers, `queue` the requests, `cur` what
`utask_entry` handles, `kept` what a handler kept in order to answer later,
`dropped` what it left unanswered and nobody has a copy of, `call` how far the call of each task has come: get a buffer, send up to
`Tries` times, wait, give up. A call that times out races the answer; an answer
to a request nobody waits for any more is the interesting case.

A handler that returns has answered (`Reply`); or it returned a negative value and
a copy of the request is kept (`Keep`); or nobody has one (`Drop`): a command
that is not in the table is logged and no more (uservice.c:169). A copy that is
kept may be answered (`KeptReply`, `KeptDeinit`) or overwritten by the next one
(`Forget`, atparser.c:899). An answer that has begun is not overwritten in the
model; the AT parser, which copies outside its lock, may do that too.

`CallSpec` is what a caller may rely on: a refused request is never carried
out, an accepted one at most once, and "ok" is told only to the caller whose own
request was carried out. `CallsKept` is the refinement; a dropped request that had
no buffer counts as carried out there, of which no caller hears anything.
`HeldIsLive` says that neither side uses a buffer that is freed.
`LostOnlyUnanswered`: a buffer is lost in two ways only, by a call whose request
is refused and by a request that is dropped; each gives it up once, where two
are expected. A timeout and a late answer lose none.

Bounds: an application task that calls a service with and without a
timeout, the service, which waits for a second one and also calls itself (refused where it would wait), and the
second one, which tells the first something without waiting; two buffers, so that memory runs out; a queue of two,
so that it fills up; two tries for the ten of the code.

Fairness: tasks run and handlers return. Nothing says that what is kept is ever
answered: the answer to a kept request depends on what comes in from outside.
`CallsReturn`: every call returns, unless from some time on its caller is
`Stranded`. That is the least set of tasks that wait without a timeout and whose
request is kept or dropped, or is with a task of the set. So a task never waits
for ever for itself or for a task that works, and one that has a timeout or
does not wait returns in any case. That needs calls whose waiting forms no
circle of two, as in the instance; services that wait for each other stay
blocked, in the model as in the code. The run does not check for deadlock: when
every task is stranded or out of buffers the system does stop.

| run | asks |
| :--- | :--- |
| `MCUService` | one caller, two services, all interleavings of calls, timeouts, refusals, late answers, and requests that are kept, overwritten or dropped |

## 8. Work queues: WorkQueue, WorkQueueProperties

`WorkQueue` is k_workqueue.c. `krhino_work_run` appends in one critical section
and gives the semaphore after it; `worker_task` takes a token and then the first
entry without looking whether there is one; `krhino_work_cancel` reads
`work->wq` outside the critical section and takes a token back without
waiting; `krhino_workqueue_del` tests that the queue is idle in one critical
section and deletes in others. Each of these is a step. A delayed work is
handed over by its timer; commands to the timer are carried out in the order
they were sent (`TimerCmd`), as `RhinoTimer` has it in detail.

`TokensMatch`: tokens, and those about to be given, match the works in the list.
`QueuedOnce`: a work is in the lists as often as `work_exit` says.
`CancelHolds`: a cancelled work does not run. `AcceptedIsDone`: an accepted work
is run or cancelled.

What the module shows the code does not keep, so that the properties exempt it:

* a delayed work may run after a successful cancel: cancelling only sends a
  command to the timer, or nothing once the work has been on a queue before;
* a delayed run is dropped when the work is running at the moment the timer
  calls back;
* cancelling a delayed work reports success also when the full queue of the
  timers refuses the command (k_workqueue.c:289);
* `krhino_workqueue_del` may delete the worker in the middle of a handler, and
  a work that is queued between the test and the deletion stays queued for
  ever; a worker that was itself about to give a semaphore takes the token along;
* a work that is used on two queues may run on both: `Home` gives each one.

Bounds: two queues, one of which may be deleted at any time; two works on the
queue that stays, one of them delayed, one on the other; `MaxCmd`, commands on
their way to one timer, 2. Handlers of the queue that stays run and cancel works.

Fairness: every ready task runs and handlers return. Work queues are off in
k_default_config.h; a board may enable them.

| run | asks |
| :--- | :--- |
| `MCWorkQueue` | one task, handlers, the timer task and a deletion interleaved: the four properties above |

## 9. Proofs

### The kernel: RhinoProofs

For any tasks, mutexes, semaphores, priorities, timeouts, bounds and any choice
of optional calls that satisfy `RhinoAssumption` and `KernelAssumption`, with
and without inheritance:

* `KernelTypeCorrect`: `Spec => []TypeOK`;
* `ReadyQueueHoldsReadyTasks`: `Spec => []ReadyQueueSound`;
* `WaitListsHoldWaiters`: `Spec => []WaitListsSound`;
* `TickListHoldsSleepers`: `Spec => []TickListSound`;
* `GiveIsNotLost`: `Spec => []NoLostGive`.

None of them is inductive, nor are they together. The invariant is `Inv`; TLC
checked it on the instance of `MCRhinoDelete` before it was proved. `Good` says
that the three kinds of list hold exactly the tasks whose state says so, each
once, the blocked and the tick lists sorted. `Timed` and `CallOk` tie the state
of a task to the blocking call it has not returned from: without them a task
that is woken could be taken for one that was never told why. `WaitOk` says
that who waits, waits for something that exists and, of a semaphore, has none
to take. That is what `NoLostGive` needs. `Plain => Flat` says that without
inheritance and changes nobody runs at another priority than its own, so that
an unlock never lowers its caller, `Plain => RunsHighest` that the processor
is then the highest ready task's (`HighestRuns`).

The proof follows the code in three layers.

1. *Helpers.* In the middle of a kernel call one task is on no list, or on a list
   that its state denies. `But(k, h)` is `Good` for all tasks except `h`;
   `ReadyAdd`, `ReadyRm`, `PendListAdd`, `TickListInsert`, ... lead from `But(k, t)`
   to `But(k', t)` and say what lists `t` is on, and the last write to the task's
   state closes the gap to `Good` (`WakeupOf`, `TaskPriChangeOf`, `ExpireOf`).
2. *What a helper may do to others.* `Softer` compares a task before and after:
   it may be woken, reprioritised or given a mutex, but never be put to sleep or
   made to wait for something else. `Onward` says so of all tasks at once; it is
   transitive, so a loop only needs it of one round (the bounded loops of
   `KListProofs`).
3. *Actions.* One lemma per action (`MutexLockPendKeeps`, `TickKeeps`, ...). While
   an object is deleted its waiters wait for something that is no longer live;
   `SoundBut(k, c, x)` says nothing of them and the loop that wakes them
   restores `Sound`.

`KListProofs` has what these and the timers need of lists: the elements, the
order and the absence of repetition after `InsertBefore`, `Unlink` and `Remove`,
and a loop with a bounded number of rounds (`LoopExists`).

### Mutex owners and priorities: RhinoMutexProofs

In the generality of `RhinoProofs`, each with the hypothesis that is named:

* `OwnersAlwaysSound`: `Spec => []OwnersSound`, and
* `DeletedNeverOwns`: `Spec => []DeletedOwnsNothing`, for `INHERIT` or without
  `krhino_task_del`: `MCRhinoDelBuild` shows that they need it;
* `MutexReleasedByOwner`: `Spec => ReleasedByOwner`, without any hypothesis;
* `LockAlwaysTruthful`: `Spec => LockResultTrue`, where no task is deleted and no
  mutex made again. Section 3 has the reason for the first; for the second,
  a mutex that is deleted and made again before the waiter runs is free, and the
  waiter was told of the old one.

`OwnersSound` asks that `Held(t)`, what a walk along `mutex_list` meets, is what
`t` owns. A walk says nothing about a list that is broken, so the invariant
does not speak of walks: `Linked(k, h, S)` says that the mutexes of `S` can be
ranked such that each link leads to one of the next lower rank, the lowest to
`NULL`, and `h` has the highest. `LinkedPush`, `LinkedRest` and `LinkedOut` say
what pushing and unlinking do to it, at the head and further down, and
`LinksAre` that the walk then meets `S`, each mutex once, within as many rounds
as there are mutexes.

`OwnInv` is, on top of `Inv`: the list of every task that is not deleted links
the mutexes that exist and name it (`Lists`), none of these tasks is deleted
(`OwnersAlive`), and `Claim`, what a task was told: a mutex it waits for has an
owner, which is somebody else; a call that locks waits for that mutex or is
over; and if it is over, the reason is `FINISH` exactly when the mutex names
the task, with the count 1 (`Told`). `mutex_list` of a deleted task and links of
mutexes that nobody owns are garbage in the code and left open by `OwnInv`.

Between the steps of a hand-over the lists do not agree with the owners yet.
`Lists(k, own, h)` therefore takes the owners as an argument and can leave out
one task: `MutexRelease` leads from the old owners to the old owners without the
mutex, `HandOver` from there to the new ones (`ReleaseIs`, `HandOverIs`,
`OwnPassed`). `task_mutex_free` reads the next link before it hands the mutex on
and so before that link is overwritten; `Freeing` is the invariant of its loop,
with the rest of the list linking what is still to be freed, and the number of
those falls with every round (`FreeStepIs`, `TaskMutexFreeIs`). Everything that
concerns no mutex is one lemma: `Eased` says what may happen to a control block
without changing a `Claim` (`ClaimEased`, `SettledNear`), and one lemma per
action shows that it does no more, together with its step of `ReleasedByOwner`.

The second half of the module is about priorities:

* `PriorityAlwaysInherited`: `Spec => []PriorityInherited`;
* `InversionIsBounded`: `Spec => []NoInversion`;
* `KernelStopsOnlyOnMisuse`: `Spec => []StopsOnlyOnMisuse`, for `INHERIT` or without
  `krhino_task_del`. Without either, a task may wait for an owner that is
  deleted, and `task_pri_change` calls `k_err_proc` when it gets there (TLC finds
  that in five steps);
* `HighestAlwaysRuns`: `Spec => []RunsHighest`, for `INHERIT` or `Changes = {}`;
  section 3 says why it needs one of them.

`PriorityInherited` is nearly inductive as it stands: `PriInv` says of each task
only what it owes to those directly behind it, so no chain is ever followed.
`Due(k, own, V, t, p)` says that `p` is that priority, where `V` holds waits that
are about to begin: `krhino_mutex_lock` raises the owner before it puts the
caller on the blocked list. `Exact(k, own, V, x)` says so of every task but `x`.
What makes it hold again after a call is the loop of `task_pri_change`, and
both questions about it are answered by its rounds.

1. *It ends.* `Rank` falls with every round (`WalkStep`): while the loop raises
   tasks to one priority it counts those that are still worse, and while it
   lowers them, those that have the priority that is given up; a loop that
   raises never lowers again. The rank is at most twice the number of tasks, less
   than `PriFuel`. The waits may form a circle; a task is met again at most as
   long as its priority still has to change. `Waited`, that a mutex somebody waits
   for has an owner which is alive and somebody else, comes from `OwnInv`, and it
   is why no round meets a task in a wrong state.
2. *It leaves nothing behind.* In `Chain`, the invariant of the loop, only the
   task of the round may have a priority that is not due, and the priority
   the round gives it is. Setting it concerns one other task at most, the
   owner it waits for (`ExactReset`): that is the next round, or its priority
   was due all along. `NextInChain` skips an owner that is neither worse than
   the new priority nor had the old one, and `ExactReset` shows that rightly
   so. `TaskPriChangeIs` is the result.

A waiter that leaves its list (`DepartsEven`) makes nobody's priority wrong but
the owner's, and `MutexTaskPriReset` looks at that one anew exactly when the waiter
had its priority (`LookIsDue`, `ReleaseEven`); a mutex that is handed on
(`HandOverEven`) takes its waiters' claims from one owner to the next, who was
the best of them. One lemma per action follows (`MutexLockPendPri`,
`TaskDelPri`, `TickPri`, ...).

`RunsHighest` is then a matter of the calls that return without `core_sched`.
With inheritance two of them might touch the ready queue. One is
`krhino_mutex_unlock` when nobody waits: as the priority of its caller was exact
and nobody waited for this mutex, it is the same without it (`MutexUnlockPri`).
The other, the error exit of `krhino_task_pri_change`, is taken for a deleted
task only, which is not in the queue, and stops the system (`TaskPriChangeMakePri`). `NoInversion` follows
from both: the owner is as good as its waiters, and what runs as good as the owner.

### The store: KvStoreProofs

For all constants that satisfy `KvAssumption`:

* `TypeCorrect`: `Spec => []TypeOK`. `TypeOK` is not inductive: `kv_set`
  removes the node it found earlier, and the garbage collection the node it has
  just copied. `TypeInv` adds that the remembered node is a node, that the
  victim is not the gc block (so that writing the copy leaves the victim as it
  was, `VisibleType`), and that a node is still ahead of the cursor after its
  copy was written. One lemma per action, over lemmas for the flash operations
  (`EraseBlockType`, `MarkErasedType`, `WriteVerifiedType`, ...). `count` never
  goes below zero because `kvnode_rm` only counts down above `ro_count` + 1.
* `WritesApart`: `Spec => []NodesApart`, and
* `CountersExact`: `Spec => []CountersMatch`, for every factory image, assuming
  only `Torn # "header"`. Neither is inductive. `SafeInv` says of the flash
  that nodes are apart and below `tail` (`FlashSafe`); of the RAM, while the
  power is on, that `tail` is at most `write_offset`, that `count` is the number
  of nodes in each block and `kv_size` the number of their words (`RamSafe`);
  and that the node a call is going to remove is on the flash, without which
  counting it down would be wrong. Being apart is what makes `kv_size` exact:
  the words of a node that goes or comes are in no other node (`RemovedWords`,
  `AddedWords`), and their total fits a block, so 16 bits never wrap.
* `ErasesOne`: `Spec => EraseTakesOne`, assuming `Factory = {}` as well.
  `RwInv` adds that no node is read-only and `ro_count` is 0; every step keeps
  the nodes, adds one, removes one by `kvnode_rm` or is `kv_init`
  (`StepKinds`). `KvnodeRmOne` is the heart: a block is erased only when its
  count is at most 1, and the node to be removed is in it, so nothing else is.
* `CopiesAlwaysOrdered`: `Spec => []CopiesOrdered`, and
* `StoreImplements`: `Spec => PromiseKept`, that is `Promise!Spec`, under the
  two assumptions of `ErasesOne`. They share the invariant `KeyInv`, which TLC
  checked on the instances of `MCKvPower` and `MCKvBad` before it was proved. It
  says of every key that it has at most one node (`Single`) or two of which one
  has the next version (`Pair`), and which keys may be a `Pair` at each point of
  a call: only `op.key` before its old node is removed, only the key of the node
  just copied while garbage is collected, any key before `kv_verify` is through;
  and it ties what the call remembers to the flash: the node it found is still
  the only one (`Holds`), the value at the start is still there through a
  garbage collection, and what is about to be returned is true. `Versions` is
  why a `Pair` is ordered: with `MaxVer` at least 3 the successor of a version
  is never older, wrapped or not, so `kv_verify` removes the right one. Each
  `...Mapped` lemma shows that an action keeps `KeyInv` and is a step of
  `KvSpec` or none: the new node decides a set (`TryOkMapped`), removing the
  node a deletion (`RmFoundMapped`), each node a reset (`ResetNodeMapped`); all
  else of the flash work, and recovery, leaves every value as it is.

The assumptions are needed: `MCKvTornHeader` shows what happens without the
first; section 5 says how factory nodes are erased. Without the second the
refinement does not hold either: with one factory node TLC finds `MCKvPower`
reach an erase that takes it along and so changes a value nobody set.

### The boot table: BootAbProofs

For every limit of boots, range of versions and number of power losses that
satisfy `BootAbAssumption`, under the hypothesis
`Calm == Fallbacks = {0} /\ FinishWhole = TRUE` of section 6: `TypeCorrect`,
`KeptAlways` (`Spec => []KeptWorks`), `PresentAlways` (`Spec => PresentKept`)
and `TableImplementsSlots` (`Spec => SlotsKept`): initial states map to initial
states, and each action to a step of `SlotSpec` or to none. The invariant
they share, `IInv`, adds to these what holds of both sectors at rest (`Steady`),
between the two writes of `otaab_finish` (`Finishing`) and before
`bootab_set_valid` (`Ending`), and that the slot that runs is the one relied on
once `otaab_finish` has returned. Without the last an update might write it.

### Services: UServiceProofs

For any sets of tasks, calls and buffers, any `Depth` and `Tries`:
`TypeCorrect`, `BuffersLive` (`Spec => []HeldIsLive`),
`OnlyUnansweredLost` (`Spec => LostOnlyUnanswered`), and
`CallsImplement` (`Spec => CallsKept`), the last for finitely many service tasks.
`HeldIsLive` is not inductive. `Inv` adds that two holders on the same side
never have the same buffer (`Apart`), that the semaphore of a request that is
not yet answered has not been given (`Silent`), what a call in progress has in
hand (`Underway`), and that a buffer both sides hold is not yet in the cache
that marks the first `rpc_deinit` (`Shared`). Whether a request is kept or dropped
makes no difference to any of these: they speak of `Left`, both sets together, so
that `Keep` and `Drop` are one lemma and `Forget` changes nothing. `OnceLeft`, that
no request is in both and no dropped one is answered, makes `KeptReply`
a step on `Left` too.

The refinement needs more (`RefInv`): nothing in a queue has been answered
(`Fresh`), the result of a call is set when it ends and not before (`Told`), and
while the semaphore a caller waits for has not been given, its request is still to be
answered (`Attended`). The converse, that a semaphore is only given for
an answered request, is `Silent`: together they say that `rpc_wait` returns
"ok" exactly when CallSpec may. `OneOpen` says that an open request is at one
place only, so that `LooseCount` goes up by one when its caller gives up, and
a request that moves from the queue to the handler and on to `kept`
is counted once (`RecvMapped`, `KeepMapped`). `Stutters` and `Steps` turn what a
step does to the three variables of CallSpec into a step of CallSpec.

### Work queues: WorkQueueProofs

For any tasks, timer, works and queues: `QueuedAtMostOnce` and
`CancelAlwaysHolds`, with `Inv`: every entry of a list is a work of that
queue, entered once and with `work_exit` 1 (`Lists`), what a pending cancel has
read (`Cancels`), and which queue a pending give is for (`Gives`).
`TokensAlwaysMatch` has the hypothesis `NoCallerDeleted`: no queue that may be
deleted has handlers that run or cancel works, and there are finitely many
callers. It is needed: a worker that is deleted between its insertion and its
`krhino_sem_give` takes the token along.

### Timers: TimerProofs

For any timers and settings, any `MsgNum`, `MaxTicks` and `MaxLag`:
`ListAlwaysMatches` (`Spec => []ListMatchesState`) and `NeverCalledEarly`
(`Spec => NeverEarly`). Lemmas say what insertion and removal do to the
elements of a list and to its being free of repetition (`Inserting`,
`Removing`, `PriInsertOf`, `UnlinkOf`). `Inv` adds to `ListMatchesState` that
the place of `timer_cb_proc` is in the list (`Place`), so that what it takes out
is there; that a start still to come, once due, has waited `first` ticks
(`OldEnough`); and, for that, that a command in hand is at least as old as the
tick the task last read (`Comm`): the time the match is set back by is never
more than the command has waited. `TypesAlwaysHold` (`Spec => []Typed`) adds
the types, with the bounds of the counts and that the task never waits for no
ticks (`Bounds`).

The order of the list, and with it when the task is woken, is another matter:
`MCTimerLate` refutes it. It is proved under each of two hypotheses that the run's
counterexample breaks.

* `MaxLag = 0`, any number of timers: no tick passes while the task is ready.
  Then no timer is due before the tick the task last read, so the unsigned
  comparison of `timer_list_pri_insert` compares what it should
  (`PutInOrder`, `Requeued`), and the list is sorted in every state
  (`Punctual`): `SortedWhenPunctual`, `WokenWhenPunctual`, `TypeOKWhenPunctual`.
* `TwoTimers` and `Seldom` (`3 * MaxLag <= MaxTicks`, for the counts of the model
  not to end), the setting of `MCTimer`, with a task that may be late: a timer
  that was overtaken by the tick and passed by the one put back is the very next
  that `timer_cb_proc` calls (`Overtaken`), and when that ends none is overdue
  (`Paired`), so that commands are carried out on a sorted list. `Late` bounds
  how late everything is, place by place: `WokenForTwo`, `SortedForTwo`,
  `TypeOKForTwo`.

With three timers and a late task `WokenInTime` is false, as `SortedByMatch` is: the
one that is put back before an overdue timer hides a third from the head.

### Only model-checked

Liveness: `TimedWaitEnds` of the kernel, `ActiveIsCalled` of the timers,
`CallsReturn` of the store and of the services, `StartsUp` of the boot table,
`AcceptedIsDone` of the work queues. No prover here handles fairness. Every invariant that a passing run checks is stated by a
theorem, some under hypotheses that the run does not need or does not have;
they stand with the theorems above.

## 10. Findings

Three runs are violated: `MCKvTornHeader` in the store, `MCRhinoDelBuild` in
`krhino_task_del`, `MCTimerLate` in the sorting of software timers; `findings`
in PROJECT.json quotes the lines. What was met without a run of its own stands in
sections 3 (`owner_nested`, the priority that is handed on without inheritance, the change of a
deleted task's priority), 5 (factory block, no gc block), 6
(`otaab_finish(1)`) and 8 (cancel and deletion).

## 11. Not modelled

* Rhino events and queues of their own: planned; they wait on the blocked lists
  that are modelled. Memory allocators: sequential code under a lock.
* `utask_join`, which nothing may overlap; the event broker, whose core is
  lists that only the service task of `UService` touches.
* The AT parser: text, around receive requests much like the kept requests of
  `UService`.
* `fota`, `tiny_bbm`, `ulog`: planned. The downloader keeps its offset in the
  store of section 5.
* SMP, the CFS class, tickless idle: no board here enables them.
* Drivers, codecs, media, vision, vendored libraries, boards: register access,
  binary libraries or third-party code. They are nearly all of the tree's
  lines, and their share of what decides a product's behaviour is small.

## 12. Faults

Definitions marked "Fault" are not used by any specification. Each is a
plausible mistake in the definition after it, and a property is only kept when
some fault breaks it (`mutants` in PROJECT.json).
