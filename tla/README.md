# A TLA+ verification of the HaaS mini-program framework

The repository is the light-application framework of HaaS: a JavaScript engine
(`engine/`), the task that drives it (`main/`), C components for storage, logging,
update and cloud access (`components/`), services (`services/`) and the platform
adapters (`adapter/`).  This directory models the parts whose behaviour depends on
interleaving, power failure or long histories, checks them with TLC on small
instances and proves the central facts with TLAPS for every instance.

Modelled are the key-value store (`components/kv`), where every other component keeps its
settings and which is written on flash under power failures; the task that runs the
JavaScript engine with its queue, its timers and the restart after an application update;
the MQTT client; the requests of the linkkit device model; and the update of the firmware.

## Inventory

| Part | State it keeps | Operations | Talks to | What is hard | What makes it correct |
|---|---|---|---|---|---|
| KV store, `components/kv/kv.c` | blocks of flash with a header and a log of items; `block_info[]`, `clean_blk_nums`, `write_pos` in RAM | set, get, delete, delete by prefix, collection, recovery at init | flash HAL; callers: uND, OTA, linkkit, JS `kv` module | power failure in any write or erase; the collector moves live data; space accounting at block limits | it is a map; acknowledged data survives; nothing superseded returns; writes never overlap |
| KV synchronisation, `kv.c`, `kv_adapt.c` | `lock`, `gc_trigger`, `gc_waiter`, `gc_sem` | waiting for a collection, starting the task, waking the waiters | threads and semaphores of the adapter | tests outside the lock, a non-atomic counter, one post for many | one collection at a time, every request served, every waiter woken |
| JS task queue, `main/amp_task.c` | queue of 10 messages, list of timers, the mutex | schedule_call, exit_call, timers, yield, init, deinit | every asynchronous add-on | a send with time-out 0 on a full queue, timers that fire after cancel, deinit under senders | one engine at a time; a queued callback runs with what belongs to it; an exit request ends in a restart |
| Engine boot, `main/amp_engine.c`, `amp_main.c` | run flags | start, restart after an application update | the task queue | restart while callbacks are pending | a clean state after each restart |
| uND, `components/und` | captures per target, write-back flags, save timer, report state | update, save, clear, report | KV store, MQTT | timer against clear and deinit, failed saves | no capture lost between save and report |
| ulog, `components/ulog` | ring FIFO, sessions, file rotation | produce, consume, rotate | file system, UDP | a producer overtakes the reader | what is read was written, in order |
| OTA, `components/ota` | parameter partition, OTA partition, write cache, crc and hash, tries | message, download, resume, verify, arm, rollback | flash HAL, HTTP, MQTT | power failure between two steps, broken connections, failed writes, a message during a download | the boot loader only gets the announced image; every service ends |
| linkkit MQTT, `components/linkkit/mqtt` | publish list, subscribe list, connection state | publish, ack, republish, keep-alive, reconnect | TCP/TLS | lost and duplicated packets, node states in shared lists | an accepted QoS 1 message is repeated until acknowledged; a lost connection is restored |
| linkkit device model, `components/linkkit/dev_model` | message cache with time-outs, bounded ipc queue | insert, reply, tick, send, receive | MQTT | time-out against a late reply, queue at its limit | each request answered or timed out once |
| HTTP client, das, app_mgr, board_mgr, recovery | per-call state | requests, downloads, parsing | network, file system | mostly sequential | see PROJECT.json |
| Duktape, lite engine, xz, JSON, TLS, peripheral HAL, libjs | - | - | - | vendored, pure or I/O | not modelled |

## Modules

| Module | Models |
|---|---|
| `KVStore` | `kv.c`: the flash log, every operation, the collector, `kv_init`, power failures |
| `KVMap` | what `include/kv_api.h` promises: a map, until the power fails |
| `KVLayout` | the inductive invariant of `KVStore` |
| `KVStoreProofs` | its proof and the theorems that follow |
| `KVRecovery` | the invariants about what the items mean: in operation, in a collection, in recovery |
| `KVMapProofs` | proofs: the reserve of a store of two blocks, the refinement of `KVMap`, recovery after power failures |
| `KVGcSync` | threads, lock, semaphore and counters around the collection |
| `KVGcSyncProofs` | its theorems |
| `AmpTask` | the engine task, its queue, the timers of scripts, restarts for an update |
| `MqttClient` | publishers, the yielding thread, a connection that fails, the broker |
| `DmRequest` | requests of the device model, their time-outs, answers and events |
| `OtaService` | the firmware update across broken connections and power failures |
| `AmpTaskProofs`, `MqttClientProofs`, `DmRequestProofs`, `OtaServiceProofs` | their theorems |
| `SequenceLemmas` | what appending to and removing from a list does to its elements |
| `MC...` | instances for TLC |

### KVStore

The flash is `hdr` (the state byte of each block header) and `log` (for each offset of
each block the cell that starts there: erased, an item, or the junk of a torn header).
The RAM is `state`, `space`, `clean`, `wpos`, `gc_trigger` of `kv_mgr_t`.  All operations
hold the lock from search to return, so one is in progress at a time; `pc` is where it
is, `ret` what `kv_item_del` and `kv_block_format` return to, `op` and `cur` its locals.

Offsets and lengths are in units of the write alignment; an item is its key, its value,
the state byte, whether its crc is right, and `origin_off`.  `ItemLen` gives the length of
an item by its value, so values of different length meet block limits in different ways.

| Action | Code |
|---|---|
| `ItemSet`, `CalcSkip`, `CalcTake`, `CalcFull`, `ItemStore`, `Ack` | `kv_item_set`, `kv_item_update`, `kv_item_store`, `kv_calc_position` |
| `ItemDel`, `ItemDelDirty` | `kv_item_del`: two flash writes |
| `ItemDelete`, `DeleteByPrefix`, `PrefixItem`, `PrefixNextBlock` | `kv_item_delete`, `kv_item_delete_by_prefix` |
| `SkipGarbage` | `kv_item_traverse` over deleted items and junk |
| `BlockErase`, `BlockFormat` | `kv_block_format`: two flash operations |
| `GcStart`, `GcCopy`, `GcCopied`, `GcMark` | `kv_gc_task`, `__item_gc_cb` |
| `ScanHeader`, `ScanItem`, `ScanEnd`, `ScanNext`, `UncleanBlock`, `UncleanDone`, `ChooseWritePos` | `kv_init_internal`, `__item_recovery_cb`, the end of `kv_init` |
| `PowerFail` | the device: RAM lost, a write torn, an erase half done |

`kv_item_get` only reads; it is the operator `Value`.  A search marks USED blocks DIRTY
when it passes garbage; those idempotent marks are one step with the search.
Atomicity: one flash operation per step, and the power may fail before, after or inside it.

`want`, `gcCut` and `crashes` are history variables; no guard but the bound on crashes
reads them.

### KVGcSync

One process per calling thread and per collection task.  `kv_item_set` tests
`gc_trigger`, increments `gc_waiter` (a load and a store, a `uint8_t`) and waits before it
takes the lock; the task clears `gc_trigger` under the lock and looks at `gc_waiter` after
it.  `kv_start_task` may fail and its result is ignored.  The mutex, the semaphore and the
threads are the adapter's, modelled from their use.  `Tasks` bounds how many collection
tasks exist at one time.

### AmpTask

`mq` is the queue and whether `amp_task_mq` is not NULL; `engine` numbers the queues, so
that a sender which read the handle before the queue was deleted, and sends to its
successor, can be told apart.  `heap` gives for each memory block the timer whose wrap it
holds: `clear_timer` frees a block while an expiry with a pointer to it is queued, and the
next `setTimeout` may get the same block.

| Action | Code |
|---|---|
| `Boot`, `Yield`, `Deinit` | `amp_task_main`: `amp_task_init`, `amp_task_yield`, `amp_task_deinit`, the exit semaphore |
| `SetTimer`, `LinkTimer` | `setTimeout`, `setInterval`: `amp_task_timer_action` up to `amp_timer_start`, then `dlist_add_tail` |
| `UnlinkTimer`, `ClearTimer`, `ScriptEnd` | `clear_timer`: the loop of `amp_task_cancel_timer`, then the deletion; the end of `timer_action` |
| `Expire`, `TimerSend` | the timer service: it reads the handle, then sends |
| `ScheduleCall`, `DriverSend` | `amp_task_schedule_call` in a driver thread, in the same two steps |
| `Upgrade`, `ClearNode`, `TestUpdateDone`, `CreateDownload` | `apppack_upgrade` in the thread that asks for it: `timer_list_clear` node by node, the unguarded test of `update_done`, the creation of the thread, which may fail |
| `Downloaded`, `ExitCall`, `EngineGone`, `Restart` | `download_work`, `amp_task_exit_call`; the creation of the new engine's thread may fail (`js` is then "dead") |

`app`, a member of the constant `Apps`, says who asks for updates, which drivers call back, how much
memory there is for wraps, how many timers the scripts set and whether they clear any.  The
adapters differ: at a full queue `amp_queue_send` waits on Linux (the step is not taken) and fails
on haas100 (it is taken and nothing is queued); both are always possible.

`g_timer_list` (`link`) has no lock.  The engine task adds to it and removes from it while one or
more update threads walk over it; `walk` holds the nodes each walk has still to visit, and
`Held` the two that `dlist_for_each_entry_safe` has pointers to.  A step that leaves a walker with a
pointer to a freed node tears the list; a step during another thread's walk, and the read of the
freed node in the loop of `amp_task_cancel_timer`, may tear it or go well (`Access`).  What the
program does with a torn list is undefined, so `torn` ends the behaviour: no action is taken
from there.  The visit of one node is one step.  Not modelled: a failing allocation of a node of
the list (the code does not look at it), `hw_timer_clear`, `app_js_restart` (called by
`ota_reboot_module`; it starts an engine without having stopped one) and `app_js_stop`, which nothing
calls.

### MqttClient

All callers of `wrapper_mqtt_yield` are one process because of `lock_yield`; each message has
a publisher of its own, or shares one (`Publisher`).  What is done under `lock_list_pub` and
`lock_write_buf` is one step.  `net` is the socket (closed, a TCP connection before CONNECT,
up, dead without anyone having noticed, or reset) and the packets under way in it.

| Action | Code |
|---|---|
| `CheckState`, `PublishSent`, `PublishFails`, `PublishOffline` | `wrapper_mqtt_publish`, `MQTTPublish` |
| `KeepalivePing`, `KeepaliveQuiet`, `React...`, `Reconnect...` | `iotx_mc_keepalive`, `iotx_mc_keepalive_sub` |
| `ConnectDone`, `ConnectFails`, `Reconnected` | `iotx_mc_handle_reconnect`, `iotx_mc_attempt_reconnect` |
| `CycleOffline`, `CycleNoAnswer`, `ReadError`, `ReadNothing`, `ReadPacket` | `iotx_mc_cycle` |
| `ProcRemove`, `ProcSkip`, `Republish`, `ProcEnd` | `MQTTPubInfoProc` |
| `TimeOut`, `BrokerStep`, `NetFails` | the clock, the broker and the network |

### DmRequest

`IOT_Linkkit_Report` and `IOT_Linkkit_TriggerEvent` hold a mutex for the whole request, so the
callers exclude each other (`lock`); the yielding thread does not take it.  A cached request
is its id and whether its ten seconds are over.  The event queue of `dm_ipc.c` holds, of each
message, the request it answers.

| Action | Code |
|---|---|
| `Report`, `CheckRoom`, `Insert`, `SendOk`, `SendFails`, `Undo` | `dm_mgr_upstream_thing_property_post` and the others of its form, `dm_msg_cache_insert`, `dm_msg_request`, `dm_msg_cache_remove` |
| `ReadReply`, `DeliverReply`, `RemoveReplied` | `dm_msg_proc_thing_event_post_reply` and the others of its form |
| `ReadDown` | any other message of the cloud that is queued for the application |
| `ReadEnd`, `FadeOut`, `TickEnd` | `dm_msg_cache_tick`, one time-out a step |
| `Dispatch`, `DispatchEnd` | `iotx_dm_yield`, `iotx_dm_dispatch` |
| `Age` | the clock |

`dm_msg_cache_tick` holds the mutex of the cache for its whole loop: `Insert` and `Undo` wait
meanwhile (`CacheFree`), `Report` and the sends do not.  It reads the clock once, so no request
ages during the loop.

An answer may never come: `ReadReply` is not fair.

### OtaService

`prm` is the parameter sector, `part` the OTA partition as a function from offset to unit (a
fraction of the write cache), `hal` the cache, the counters, the crc and the hash.  A crc or a
hash is the sequence of units it was computed from: two are equal when the data are.

| Action | Code |
|---|---|
| `Announce`, `SaveParam`, `OnUpgrade`, `Stop` | `ota_sevice_parse_msg`, `ota_service_deinit` |
| `BootLoader`, `RollbackRead`, `RollbackErase`, `RollbackWrite` | the boot loader, `ota_hal_rollback` |
| `ReadParam`, `DownloadHeader`, `InitPartition` | the beginning of `ota_service_start`, `ota_int` |
| `Request`, `Receive`, `WildWrite`, `WriteFails` (`FlushFails`, `LastFails`), `Break`, `EndTry` | `ota_download_start` with its tries, `ota_hal_write` with either of its writes failing, `amp_hal_flash_write` (`Fits`, `Program`) |
| `Verify`, `ArmErase`, `ArmWrite`, `Clear`, `Reboot` | `ota_check_image`, `ota_hal_boot`, the end of the service |
| `PowerFail` | at any step; RAM is lost |

Assumed: the application runs one service thread at a time; `on_boot` restarts the device, as
`ota_agent.h` says; the erase of the parameter sector succeeds; the boot loader, which is not in
the repository, at most counts boots.

## Runs

| Run | Instance | Shows |
|---|---|---|
| `kv_crash` | 2 blocks of 8, two failures, fair | `ImplementsMap` until the first failure, `Returns`, `Reserved`, `DurableOutsideGc`, `NoStale`, `OneCopy`, `CleanExact`, `WriteErased`, types |
| `kv_crash3` | 3 blocks of 5, one failure | the inductive invariants `StoreInv` and `RecoveryInv`, `ImplementsMap` when the write block changes, `NoStale`, `OneCopy` |
| `kv_gc_crash` | 2 blocks, one failure | violates `Durable` |
| `kv_calc_loop` | 3 blocks, one key, fair | violates `Returns` |
| `sync` | 2 callers, 2 tasks, one failed start, fair | `OneCollector`, `TriggerServed`, `CollectionEnds`, types |
| `sync_wake` | one caller, fair | violates `WaitersWake` |
| `task` | four scenarios (`MCApps`) with up to 2 timers, 2 blocks, a driver, 2 overlapping updates; a queue of 2, 3 engines, fair | `OneEngineTask`, `UnclearedTimersSound`, `ListExact`, `AcceptedExitRestarts`, `ExpiryServed`, types |
| `task_clear` | 2 timers in one block, no driver, no update | violates `ClearedTimersSeen` |
| `mqtt` | 4 messages, a wait list of 2, ids at their wrap, one network failure, fair | `AcceptedKept`, `ConnectedOnMqtt`, `EventsPaired`, `ConnectionRestored`, `Acknowledged`, types |
| `dm` | 2 callers, 3 requests, cache and queue of 2, fair | `OneEvent`, `CacheBounded`, `Answered`, types |
| `ota` | an image of 3 units and a patch of 4, cache of 2, 3 tries, fair | `ReadyImageIntact`, `ResumesInPlace`, `CacheHeldInUse`, `ServiceEnds`, types |
| `ota_crc` | an image of 4 units | violates `BootCrc` |

Bounds.  Two keys and two values of different length are enough for an update, a delete
and a bystander.  Two blocks are the smallest store `kv_init` accepts and compile out the
loop of `kv_calc_position`; three compile it in.  The block sizes are such that a block fills
after two to four items, so filling, collecting, refilling and collecting again all happen;
the two lengths make an item fit exactly, or leave a tail shorter than a header.  Two
failures are needed to cut a recovery; `MaxCrashes` is the bound.  In `KVGcSync` two tasks
overlap when one is past its unlock and the next has started; `WaiterMod` 3 stands for 256
so that the counter wraps; `SemMax` bounds the tokens, `MaxSpawnFails` the failed starts.
In `AmpTask` one memory block is what makes a second timer get the memory of the first; two
let two timers be in the list.  `MaxTimers` and `MaxEngines` are the bounds: two engines are needed
for a sender with the handle of the first, three for a second update after the first restart.
The scenarios of `task` are two updates at once with a script that sets and clears a timer;
callbacks, expiries and an update that compete for the queue; an update that walks over two
running timers; and a script that sets and clears timers under such a walk.  In `MqttClient` `MaxDrops` bounds network failures and `MaxEarly` the
republish timers that run out while an answer is under way; the packet ids begin at 65534.
In `DmRequest` three requests overfill a cache of two; `MaxId` is the bound.  `OtaService` needs
none: tries, partition and cache are finite, messages and power failures are not bounded.
The image of 3 ends inside a cache block, the patch of 4 and the image of `ota_crc` at the end
of one.

The deadlock check is off in the sync and task runs: when wake-ups, or the request to exit,
are lost, all threads block for good, and when the bounds are used up a script has nothing
left to do.

Fairness.  `FairSpec` of `KVStore` is weak fairness of the steps of an operation that has
begun: a thread in the middle of a call keeps running.  New calls are never forced.
`FairSpec` of `KVGcSync` adds strong fairness of taking the lock: a thread that asks again
and again gets the mutex in the end (the FIFO mutex of AliOS; a host mutex gives this in
practice only).  In `AmpTask` the engine task and the download threads run, scripts end, and a
sender blocked on a full queue gets room in turn (strong fairness of `ExitCall`: the queues
of the adapters serve waiting senders).  In `MqttClient` and `DmRequest` the threads run and
time passes; in `MqttClient` also, the application keeps calling yield, pings fall due, the
broker answers on a live connection, and of infinitely many attempts to connect one succeeds
(the network of the run fails finitely often).  In `OtaService` the threads run, and a request or a receive ends by an answer or by
its time-out; power failures and messages are never forced.

### What the violations say

* `kv_gc_crash`: a collection copies items with their old header, so a copy of an item that
  was once an update still has its `origin_off`.  When the power fails during the copying,
  recovery follows `origin_off` from the half-filled block and deletes live originals;
  that block is then formatted because it was the only spare one.
* `kv_calc_loop`: `i` is set to 0 inside the loop and incremented before the test, so with
  the write block 0 the loop has no end when no block has room.
* `sync_wake`: a caller that counts itself too late, or is forgotten by a reset of
  `gc_waiter`, is never woken.
* `task_clear`: `timer_action` recognises a cleared timer by a magic number in the freed block.
  When the block has been given to another timer the number is right again and the wrong
  callback runs; and a timer cleared in its own callback is freed twice.
* `ota_crc`: when the last data fills the cache exactly, the block is written and added to the
  crc a second time; the crc handed to the boot loader is not that of the file.

`DurableOutsideGc` and `NoStale` delimit the first: all other failure points lose nothing,
and even the bad one never brings back an old value.  `UnclearedTimersSound` does so for
`task_clear`: an application that clears no timer has sound ones.

Seen while modelling, and inside the models, but stated by no run of their own:

* KV: with three or more blocks `kv_calc_position` takes the last CLEAN block, "the reserved
  block for garbage collection" of `kv_types.h`; the collector then gives up at once.
  `kv_sem_post_all`, which by `kv_adapt.h` is to "wakeup all waiting task", posts once.
* Engine task: a request to exit that finds the queue full (haas100) or gone is lost, and the
  update thread waits for ever; `AcceptedExitRestarts` speaks of accepted ones only, and says
  nothing against this.  When the thread of the new engine cannot be created the device is left
  without one.  The list of timers can be torn by an update that comes while a script sets or
  clears a timer; a timer that is started and not yet listed is missed by `timer_list_clear`.
  `amp_task_deinit` clears no timers: those set during a download survive the restart.
* MQTT: a publisher whose send failed sets DISCONNECTED late and causes a needless
  reconnection with a second DISCONNECT event.
* Device model: `dm_msg_cache_tick` does not reduce `dmc_list_size`, so after 50 time-outs nothing is cached any more; the result of
  `dm_msg_cache_insert` is ignored and such requests are sent without hope of an event.  A send
  slower than ten seconds that then fails gives both a time-out event and an error.
* OTA: `off_size` counts the bytes of the last try only, so a second break resumes at the
  wrong offset, which can end in writing through the released cache (`ResumesInPlace`,
  `CacheHeldInUse` state where this begins); a failed write releases the cache and the next
  try uses it, and the crc counts the last block also when its write failed; the partition digest is not compared for a patch, so one that fills the cache
  exactly is armed although its last block stands twice in the partition; stopping ends
  one try only; `ota_update_parameter` returns 0 whatever happened.

## Proofs

`KVStoreProofs` proves `BookkeepingIsExact: Spec => []StoreInv` for any constants that satisfy
`KVAssumption` (more than one block, positive header sizes, a maximal item fits in an empty
block).  From it follow `StoreTypes`, `WritesGoToErasedFlash` and `CleanBlocksAreCounted`.

`WriteErased` and `CleanExact` are not inductive.  The invariant adds, in `KVLayout`:

* `PackedLogs`: the cells of each block stand one behind the other and have one end.  A
  traversal that starts at the header therefore reaches exactly that end.
* `SpaceExact`: `BSize - space[b]` is that end, except for the blocks kv_init has not scanned
  and the one being formatted (`Unmeasured`).
* `WritePosOk`: `wpos` is the end of its block and the item about to be written fits.
* `CollectOk`: the destination of a collection is at or behind its source offset, so the copies
  of a block always fit in the spare one.
* `CleanEmpty`, `CountOk`: CLEAN blocks are empty, and counted, except those recovery has
  still to deal with (`Uncounted`).
* `CursorOk`, `ControlOk`, `UncleanOk`, `HeadersRead`: where the cursor, the caller and the scan are.

The proof has one lemma per action.  The lemmas about one log (`PackedEnd`, `PackedGrow`,
`PackedDelete`, `PackedAtStart`) carry the argument: a packed log has a unique end, writing at
the end moves it by the length of the cell, a torn write moves it by at most that, and
deletion does not move it.  That `ChooseWritePos` always finds a block (`WriteBlockExists`)
uses the least CLEAN and the greatest busy block.

`KVMapProofs` proves what the items of the store mean.  Its invariants are in `KVRecovery`.

`ReserveIsKept: Spec => []Reserved` for two blocks (`NB = KV_RESERVED_BLOCKS + 1`), with any number
of power failures.  With more blocks it is false: `kv_calc_position` takes any block with room,
the last CLEAN one too.  `ReserveInv` adds that its loop is never entered and that the collector has
one block more before it marks its destination.

`StoreIsMap: Spec => ImplementsMap`, the refinement of `KVMap`, for any constants: every step of
kv.c is one step of the map or none until the power fails.  The abstract value of a key is that of
a live item, so the argument is about how many there are (`MapInv`):

* `Single`: a key has at most one live item that a search would see; two, the old and the new one,
  only between the two writes of an update.
* `CallOk`: what the operation under way remembers of its search is still so when it writes: `op.old`
  is the live item of its key, or there is none.  `Ack` then returns when the key has its value
  and `CalcFull` when it has not.
* `Cleared`: the prefix delete has left nothing it selects behind its cursor.
* `Copied`: the copies in the destination of a collection are those of the source's live items up
  to the cursor, one each and with their values.  The erase of the source shows them in its place;
  no other step of the collection changes what is read.
* `Apart`: no cell begins inside another, so a traversal does not jump over one.  `PackedLogs` does
  not say that.
* `BootEmpty`: the first kv_init finds an empty flash.

`StoreInv` supplies the rest: CLEAN blocks hold nothing (so a block may be taken or formatted without
a change) and writes go behind what is there.

Three theorems are about power failures, at any step, inside writes and erases, in `kv_init` too,
and any number of them, for any constants: `RecoveryIsSound: Spec => []RecoveryInv`, and from it
`OneItemPerKey: Spec => []OneCopy` and `NothingComesBack: Spec => []NoStale`.  A live item on the
flash does not say whether it counts after a failure, so the invariant first says which do:

* `Doomed`, `Kept`: a block without a header will be formatted, and so will the only spare block,
  whatever it holds.  The live items of the other blocks are kept.
* `HeaderOk`: the headers on the flash are the states in RAM, so that `Doomed` can be told from
  either.  `SpareOk`: a collection begins only when no block but its destination is CLEAN, so that a
  half-filled destination is doomed if the power fails.
* `Sound`: outside recovery no live item is torn, and the new item of an update refers to the old
  one.  `Wanted`: the values of the items are those the callers may expect.  With the parts of
  `MapInv`, now after failures as well, this is `RunInv`.
* `BootInv`, during `kv_init`: two kept items of a key are an update and the item its `origin_off`
  refers to, and the scan has still to come to the newer (`Ahead`) or is about to delete one of them
  (`Condemned`); together `Tied`.  A torn item that is kept is ahead or condemned too.  At most one
  block with a CLEAN header holds data (`Full`), and a block the scan found unclean does hold some.

The argument goes round: outside recovery the items a search reads are the kept ones, so a failure
leaves a state of `BootInv`; the scan keeps it; and when `kv_init` chooses its write position nothing
is ahead, so every key has one intact item or none and `RunInv` holds again.  That `origin_off` may
refer to a position rewritten since does no harm between kept items: `ScanItem` deletes only a live
item of the same key there, and two kept items of a key are the tied pair.

`NothingIsLostWithReserve: Spec /\ []ReserveHeld => []DurableOutsideGc`, for any constants: as long as
a CLEAN block is left whenever `kv_init` is not running, no acknowledged value is lost by a failure
outside the copying of a collection.  `NothingIsLost` states it without the hypothesis for two
blocks, where `ReserveIsKept` supplies it.  It is not claimed for more blocks: once the writer has
taken the last CLEAN block, `kv_init` finds none and formats block 0.  `LossInv` adds that there is a
spare block at every start, that the doomed CLEAN block is then empty, that each key that must have
a value has an intact kept item, and that the scan never condemns the last one.

`KVGcSyncProofs` proves `OneCollector`, `TriggerServed` and the types for any number of callers
and tasks.

The other four components have a proof module each.  Each proves the type invariant first
(`TypeInv`, with the facts about control the types need) and then every safety invariant of its
run, one lemma per action or per group of actions that disturb the same conjuncts.  `MaxCrashes`
and the like are arbitrary there, so failures, repetitions, timers and restarts are unbounded.

`MqttClientProofs`: `MqttTypes`, `EventsArePaired`, `ConnectedMeansMqtt`, `AcceptedAreKept`.

* `StateInv` relates `client_state`, the socket, the place of the yielding thread and the last
  event: a publisher may set DISCONNECTED between any two of its steps.
* `KeptInv`: no packet id is given to two messages (`IdsUnique`, which counts the ids given so
  far); a node of the list carries the id of its own message and is masked only when that message
  has reached the broker (`NodesCarry`); a PUBLISH under way carries its message's id and a PUBACK
  that of a message the broker has (`OutCarries`, `InCarries`).  Without these a PUBACK could mask
  another message's node.
* `AcceptedAreKept` assumes `MsgNum <= PacketIdMax`.  It is false without: when the ids come
  round, `iotx_mc_get_next_packetid` does not look at the list and gives the id of a node that
  still waits to another message; one PUBACK masks both.

`AmpTaskProofs`: `TaskTypes`, `ListIsExact`, `AtMostOneEngine`, `UnclearedTimersAreSound`.

* `EngineInv`: `OneEngineTask` with the finiteness of the set it counts.  It rests on the
  semaphore alone: several updates may wait, and one token wakes one of them.
* `ListExact` as long as the list is not torn needs what the script is doing with the one timer
  that is not listed (`BusyInv`), and that a walk is within the list (`WalkInv`): every removal, by a
  script or by another walk, takes the node from all walks.  The walks are steps of their own,
  so the theorem covers every interleaving of them with scripts and expiries up to the
  first meeting of two threads; what then happens is outside it.
* `TimersInv`, for scripts that clear nothing: the wrap of a timer that is armed, about to send or
  queued is its own (`WrapKept`), and a wrap that is allocated is its timer's (`WrapOwned`); a
  one-shot timer is armed, or its handler is sending, or one expiry is queued, or its callback
  runs, and never two of these (`HeardOnce`, `CallbackAlone`), so that its wrap is freed after
  its last use.

`DmRequestProofs`: `DmTypes`, `CacheIsBounded`, `OneEventEach`.

* `CallerAlone` and `RoomKept`: the room `dm_msg_cache_insert` saw before it took the mutex is still
  there because only one caller is between the test and the insertion.  Nobody else adds;
  the yielding thread only removes.  The counter is never below the length of the list, and
  `CacheBounded` is not inductive without these.
* `EventInv`: an id is in the event queue, delivered, lost or none of them (`Once`, `QueuedOnce`),
  in the cache once (`CachedOnce`), and a cached request has no event yet (`CachedNew`) except
  between the delivery of its answer and its removal.  The last needs that the yielding thread
  does both, so that a tick never comes between them.

`OtaServiceProofs`: `OtaTypes`, `ReadyImages`, `DownloadsResume`, `CacheHeld`.

* `ReadyInv`: while a service is under way, or a message waits for an idle one, the parameters
  are not "ready" (`NoneReady`), so the partition is never written under armed parameters; what
  the service is about to arm is intact (`ArmedIntact`).
* `PlaceInv`, until data is lost a second time: what was hashed is a prefix of the image
  (`HashIsPrefix`), the request asks for what follows it (`RequestInPlace`), and what arrives is
  that (`RecvInPlace`).
* `CacheInv`, until then or until a write fails: the cache is held during the download, the
  counted bytes are the hashed ones and `ota_fw_size` is the length of the image, so the release
  at the last byte is really at the last.

Each of these invariants was an invariant of the run's instance before it was proved.

Only model-checked: everything with fairness (`Returns`, `CollectionEnds`, `AcceptedExitRestarts`,
`ExpiryServed`, `ConnectionRestored`, `Acknowledged`, `Answered`, `ServiceEnds`), which is out of the
prover's reach.

## Seeded faults

Operators marked "seeded fault" (`HasRoomOrFull`, `OriginIgnored`, ...) are wrong versions of the
definition that follows them.  No specification uses them; put in its place, each breaks the
property PROJECT.json names.

## Not modelled, and the plan

1. Failing flash calls and allocations in `KVStore` (a failed copy in a collection, a search that
   fails and looks like a missing key, a failed mark in `kv_calc_position`); they take the
   proofs of `StoreInv` and `RecoveryInv` with them.  The secure variants, which leave the lock
   held on two error paths, and `kv_deinit` in `KVGcSync`.
2. uND (`und_manage.c`) with its report state machine over the abstract `KVMap`, and ulog: the
   ring buffer and the rotation of session files.
3. MQTT subscriptions and the delivery of messages, which releases `lock_generic` for a callback
   and goes on from a node that may be gone; partial packets, which leave the stream
   misaligned.  In the device model `IOT_Linkkit_Close` under running reports, and the list of
   service contexts: `IOT_Linkkit_AnswerService` deletes a context it looked up before, which
   `iotx_linkkit_service_list_overtime_handle` may have freed.
4. OTA to a file (it closes the file at each try and writes to it in the next), sub-devices,
   uAgent and the status reports; the ymodem receiver.

Left out for good: the interpreters (Duktape, the lite engine), vendored libraries (mbedTLS,
xz, cJSON), peripheral drivers, JSON and board description parsing, the HTTP parser and
JavaScript wrappers.  They are most of the repository's lines; none of them has concurrency or
persistence of its own, or it is third-party code.
