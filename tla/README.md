# TLA+ models of HomeStore

These are TLA+ models of the HomeStore storage engine under `src/`, checked with TLC. The engine has these parts:

- volumes, with an index from LBAs to physical blocks;
- a journal (LogDev) on an append-only virtual device;
- a device manager that persists the layout of chunks and virtual devices;
- a checkpoint (CP) protocol that ties them together.

The index, the block allocator and the superblocks are made durable by checkpoints, not by each write.

## 1. Inventory of the system

### Parts and how they interact

| Part | Source | State | Operations |
|---|---|---|---|
| Checkpoint epoch barrier | `src/src/engine/checkpoint/checkpoint.hpp` | `m_cur_cp_id` (RCU-protected), `in_cp_phase`; per epoch `cp_state`, `enter_cnt`, `cp_trigger_waiting` | `cp_io_enter`, `cp_io_exit`, `trigger_cp()`, `trigger_cp(id)`, `cp_end`; virtual `cp_attach_prepare`, `cp_start` |
| IndxCP orchestration | `src/src/homeblks/volume/indx_mgr.cpp` (`IndxCP`, static `IndxMgr` parts) | per epoch `ref_cnt`, `snt_cnt`, `vol_id_list`, `blkalloc_id`, `try_blkalloc_checkpoint`, `blkalloc_checkpoint`, `cb_list`; `m_shutdown_started` | `cp_start`, `indx_tbl_cp_done`, `blkalloc_cp`, `cp_attach_prepare`, `trigger_homeblks_cp`, `attach_prepare_vol_cp`, `write_homeblks_cp_sb`, `destroy`, `shutdown` |
| IndxMgr write path | `indx_mgr.cpp`, `src/src/homeblks/volume/volume.cpp` | per request `cp_id`, `first_cp_id`, `lastCommited_seqId`, free-block entries | `update_indx`, `update_indx_tbl`, `retry_update_indx`, `journal_write`, `journal_comp_cb`, `free_blk` |
| Mapping range put | `src/src/to_move_out/homeblks/volume/mapping.hpp` | btree of `MappingKey [start,end] -> ValueEntry(seq, blkid, offset, nlba)` | `put`, `match_item_cb_put`, `compute_and_add_overlap`, `add_new_interval`, `get_start_end_lba` |
| Volume lifecycle | `volume.cpp` | volume state, outstanding I/O count, destroy flags | `write`, `check_and_complete_req`, `destroy`, `destroy_internal`, `shutdown_if_needed`, `set_state` |
| HomeBlks lifecycle | `src/src/homeblks/home_blks.cpp` | volume map, shutdown flags, CP init | `create_volume`, `remove_volume_internal`, `trigger_shutdown`, `do_shutdown`, `do_volume_shutdown`, `trigger_cp_init`, `meta_blk_recovery_comp` |
| Device manager | `src/src/engine/device/device_manager.cpp` | DM info (pdev, chunk and vdev tables), `m_gen_cnt`, `m_last_vdevid` | `alloc_chunk`, `free_chunk`, `alloc_vdev`, `free_vdev`, `write_info_blocks`, `load_and_repair_devices`, `handle_error` |
| Append-log virtual device | `src/src/engine/device/virtual_dev.hpp` | `m_write_sz_in_total`, `m_data_start_offset`, reserved offset, chunk ring | `alloc_next_append_blk`, `write`, `truncate`, `update_data_start_offset`, `get_tail_offset`, `get_used_space` |
| Block-mode virtual device I/O | `virtual_dev.hpp`, `device_manager.cpp` | per request: intrusive refcount, `outstanding_cb`, `err`; per pdev `m_error_cnt` | `write`, `read`, `readv`, `pwritev`, `virtual_dev_process_completions`, `process_completions`, `handle_error` |
| LogDev | `src/src/logdev/log_dev.cpp` | last crc, pending completions | `append_write`, `process_logdev_completions` |
| Btree write-back cache | `src/src/index/btree_wb_cache.hpp` | per-CP dirty lists (at most `MAX_CP_CNT` = 2), dependency counts | `prepare_cp`, `write`, `cp_start`, `flush_buffers`, `writeBack_completion` |

These parts interact in five ways:

- **Index update.** A write enters the current CP epoch in `IndxMgr::update_indx` and updates the index. It writes a journal record. In `journal_comp_cb` it exits the epoch, together with the first epoch of a partial write.
- **CP trigger.** A checkpoint is triggered by the timer in `IndxMgr::init` (`trigger_homeblks_cp`) and by `mapping::cp_done` (`trigger_vol_cp`). `cp_end` triggers again when the current epoch was flagged. `trigger_cp` publishes a new epoch with `rcu_xchg_pointer` and waits in `synchronize_rcu`. When the last holder of the old epoch exits, `cp_start` runs `IndxCP::cp_start` on the `indx_mgr` thread.
- **CP flush and end.** `IndxCP::cp_start` flushes the btrees. It may also take a block-allocator checkpoint and truncate the journal. It then runs the callbacks and calls `cp_end`.
- **Device I/O.** The blkstores and the append log hand a `virtualdev_req` to a vdev call. Each pdev I/O holds a reference; its completion reports errors to `DeviceManager::handle_error` and calls the owner's `m_comp_cb`.
- **Shutdown and destroy.** Volume destroy and HomeBlks shutdown ride on checkpoints through `cb_list`.

### Hard behaviours

- Threads interleave around the epoch counter. The decrement in `cp_io_exit` and its state test are two separate steps.
- RCU publication must be followed by a grace period before the old epoch is reclaimed.
- A `trigger_cp` request made during a running CP must be served afterwards.
- A partial write can be retried under a new epoch.
- Index updates can be applied out of sequence order.
- A crash between the per-device writes of the DM info.
- The append log wraps around at chunk boundaries.

`PROJECT.json` lists each hazard at its source line, with the property that covers it or the reason none does yet.

## 2. Modules

### `CheckPoint.tla`

This module models `checkpoint.hpp` together with the callers that drive it.

State:

- The pointed-to objects live in a small set of addresses `CpIds`. `"free"` stands for an object that has not been allocated or has been deleted, so `cp_end` followed by `new` can reuse an address.
- `cpState`, `enterCnt` and `waiting` are the fields of `cp_id_base`.
- `cur` is `m_cur_cp_id`, `inCpPhase` is `in_cp_phase`, and `startQ` counts the `cp_start(id)` hand-offs to the flush thread.
- Each thread has a program counter `pc`, a return stack, and the locals of the running call.

Actions:

- **`cp_io_enter`:**
  - `EnterRead`: `rcu_read_lock` and the dereference.
  - `EnterInc`: `enter_cnt++` and `rcu_read_unlock`. The thread leaves every grace set.
- **`cp_io_exit`:**
  - `ExitDec`: the `fetch_sub`.
  - `ExitCheck`: the `cnt == 1 && cp_prepare` test, with `cp_start`.
  - With the constant `ExitTestAtomic = TRUE` both happen in `ExitDec`. This stands for one possible correction of the code.
- **`EpochOwnRef`** is another possible correction, which keeps the test separate. A new epoch is created with `enter_cnt = 1` (`FreshCnt`), and `trigger_cp` gives that reference back with its `cp_io_exit(prev)`. `TriggerEnter` then reads `m_cur_cp_id` without its own `cp_io_enter` (it tests `FreshCnt = 1`, so the one definition carries the whole correction). With `EpochOwnRef = FALSE` the module is the code as written, and the mutant `FreshCntAsWritten` (a new `cp_id_base` at `enter_cnt` 0, `checkpoint.hpp:55`) restores it inside the `checkpoint` run: TLC then finds `ImplementsAbstract` violated.
- **`trigger_cp()`:**
  - `TriggerCas`: the `in_cp_phase` compare-exchange, then `cp_io_enter`.
  - `TriggerMark`: `cp_trigger`.
  - `TriggerPublish`: `new`, `cp_io_ready` and `rcu_xchg_pointer`. It records the threads then inside a read-side section as the grace set.
  - `TriggerSync`: `synchronize_rcu` returns, then `cp_prepare` and `cp_io_exit(prev)`.
- **Callers:**
  - `BeginIo`/`IoDone`: `update_indx` … `journal_comp_cb`.
  - `BeginTimer`: `trigger_vol_cp`.
  - `BeginRequest`/`RequestFlag`/`RequestExit`: the checkpoint part of `trigger_homeblks_cp`, with `trigger_cp(id)` setting `cp_trigger_waiting`.
  - `BeginEnd`/`EndCheck`/`EndExit`: `cp_end` on the `indx_mgr` thread. It clears `in_cp_phase`, deletes the epoch, enters the current one, triggers again if it is flagged, and exits.
  - The flush between `cp_start` and `cp_end` belongs to IndxCP and is one step here.

### `CheckPointAbstract.tla` and the refinement

This module states the design requirements at the top of `checkpoint.hpp` as an epoch protocol whose steps are atomic. It has no RCU, no compare-exchange and no threads. Its state:

- `epoch`: each epoch's state, with the names of `cp_status_t`;
- `holders`: the entries that have not left;
- `current`: the epoch new I/O enters;
- `handed`: the hand-overs to the flush.

Its steps:

- `Enter`: entry into an epoch that is still open, or closed but not yet sealed.
- `Leave`: leaving an epoch. The last leave of a sealed epoch may hand it to the flush in the same step.
- `Flush`: hands a sealed, empty epoch to the flush.
- `Close`, `Publish`, `Seal`: one checkpoint at a time.
- `Delete`: deletes an epoch that has been flushed and is empty.

Fairness makes a closed epoch drain and move on. Entering and closing are left to the callers.

`CheckPoint` instantiates the module as `Abstract`, with this mapping:

| Abstract | CheckPoint |
|---|---|
| `epoch` | `cpState` |
| `holders` | `enterCnt` |
| `current` | `cur` |
| `handed` | `startQ` |
| `Fresh` | `FreshCnt` |

The property `ImplementsAbstract == Abstract!ASpec` states the refinement. Each step of CheckPoint maps to an abstract step or to a stutter:

- `EnterInc` is `Enter`.
- `ExitDec` is `Leave`.
- `ExitCheck` is `Flush`.
- The three trigger steps are `Close`, `Publish` and `Seal`.
- `BeginEnd` is `Delete`.

### `MappingPut.tla`

This module models the range put of the volume index (`mapping.hpp`): `mapping::put` and its update callback `match_item_cb_put`.

- `index` is the set of btree entries `[s, e] -> (seq, blkid, blk_offset)`. A blkid is named by the sequence number of the request that allocated it.
- `Put(s, e, q)` collects the overlapping entries in key order (`MatchKv`, the btree's `match_kv`). It runs the callback loop as the RECURSIVE operator `PutLoop` and replaces `match_kv` by `replace_kv`. It also counts the blocks handed to `free_blk` through the free-block entries (fbe).
- The loop's branches are separate operators:
  - `ExistingWins`: the existing seq is at least the new one.
  - `AddMissing`: the gap before an existing entry.
  - `SplitOverlap`, with `ComputeAndAddOverlap`: head split, overlap and tail split.
  - `Interval`: `add_new_interval`.
- `applied` records the puts. The reference `NewestAt(l)` is "the block of the newest request covering l". `MappingGet` models the read path: `mapping::get` with `match_item_cb_get`, which cuts the first and last matched entries and skips entries above `lastCommited_seqId`, and `fill_gaps`. `GetReturnsNewest` compares what a get returns, LBA by LBA, against the reference. `BlocksFreedOnce` says every overwritten block is freed exactly once, and no live block is freed.
- The whole range lies in one leaf node, so `get_start_end_lba` returns the input range and `compute_val_offset` is 0.

### `IndxCP.tla`

This module extends `CheckPoint` with the homeblks checkpoint of `indx_mgr.cpp`.

New state:

- per epoch: `try_blkalloc_checkpoint` (`tryBlk`), `blkalloc_checkpoint` (`blkCp`), `cb_list` (`cbs`), `ref_cnt` (`refCnt`), and the volumes whose btree cp has not called back yet (`btPending`);
- `m_shutdown_started` (`shutStarted`), plus the callbacks issued and called.

Actions:

- `TriggerPublish` of CheckPoint is conjoined with `AttachPrepare` (`cp_attach_prepare`).
- `trigger_homeblks_cp` is `StartHbRequest` followed by `RequestCasFail` or `RequestCasOk`. `RequestCasOk` conjoins CheckPoint's `RequestFlag`.
- The flush replaces CheckPoint's single `BeginEnd` step:
  - `FlushStart`/`FlushLoop`/`FlushDec`: `IndxCP::cp_start` on the `indx_mgr` thread.
  - `BtDone`: btree cp completions on their own thread.
  - `TblCpDone`: `indx_tbl_cp_done`'s `ref_cnt` test.
  - `FlushBlkalloc`: `blkalloc_cp`, which runs `cb_list`.
  - `FlushRetrigger`/`FlushPlain`/`FlushEnd`: the non-blkalloc branch.
  - All of them end in CheckPoint's `CpEnd`.
- Callers:
  - `IoThreads` call `trigger_vol_cp` (the mapping's trigger).
  - The other threads call `trigger_homeblks_cp`: the timer without a callback, `trigger_cp_init` with one, and `IndxMgr::shutdown` with `ShutCb` and `shutdown = true`.

### `DeviceManager.tla`

This module models `device_manager.cpp`.

State:

- The in-memory DM info: the vdev slot table (`vdevs`, with prev/next links, a context value and `failed`), `first_vdev_id`, `num_vdevs`, the chunk slot table (`chunks`, each with pdev, start, size, vdev) and `num_chunks`.
- `m_last_vdevid` (`lastVdev`), which is kept in memory only, and `m_gen_cnt` (`genCnt`).
- `disk[p]`: the generation and DM info on pdev `p`, or `Uninit` for an unformatted spare.
- `phase`: one of `run`, `write` (inside `write_info_blocks`' loop), `rwrite` (the rewrite in `load_and_repair_devices`) or `down`.

Actions:

- `AllocVdev`, `FreeVdev`, `UpdateVbContext`, `AllocChunk` (with `create_new_chunk` and `alloc_new_chunk_slot`) and `FreeChunk` (with `merge_free_chunks` and `remove_chunk`). Each is the whole locked operation, ending in `write_info_blocks`' generation bump.
- `WriteDm`: one pdev write of the loop.
- `Crash` may fall anywhere, including between two pdev writes.
- `Replace` swaps a disk for a spare while the system is down.
- `Recover`: `load_and_repair_devices`.

`VdevLinkFix = TRUE` makes `free_vdev` move `m_last_vdevid` back to the freed vdev's `prev_vdev_id` when the freed vdev was the last one (`LastVdevAfterFree`). The passing run uses it. `MCDeviceManagerVdevList.cfg` and the mutant `LastVdevAfterFreeAsWritten` keep the code as written.

`ChunkSlotFix = TRUE` makes `alloc_chunk` throw `no_space_avail` before it changes anything when a split needs a chunk slot and every slot is allocated (`FullTable`). As written, `num_chunks` then equals `max_chunks`, and `alloc_new_chunk_slot` reads `m_chunk_info[max_chunks]`, past the table. Its wrap test never fires after that. This undefined behaviour is recorded as `overrun` and takes the process down (mutant `FullTableAsWritten`). A search that returned nullptr would not be enough either: `create_new_chunk` would throw after `alloc_chunk`'s `set_vdev_id`, leaving the chunk given to the vdev in memory but not on disk (mutant `FullTableThrowLate`).

Chunk sizes are in units. The superblock chunk of each pdev is left out, since it is busy for good. `PhysicalDev`'s chunk list is not under `src/`, so best-fit and merging follow the spec's contract.

### `AppendLogVDev.tla`

This module models the append-log mode of `virtual_dev.hpp`, driven by `LogDev::append_write` in `log_dev.cpp`. The vdev's primary chunks form one logical ring of `NumChunks * ChunkSize` units.

State:

- `ds` is `data_start_offset` and `wsz` is `m_write_sz_in_total`. `eoc[c]` is chunk `c`'s `end_of_chunk`. `ds` and `eoc` survive a crash, because the DM persists them.
- `truncDone` is `m_truncate_done`, and `lastCrc` is LogDev's `m_last_crc`.
- `log` is the sequence of records from the data start. Each record has:
  - an id, which is its crc;
  - the crc its header chains to;
  - where the tail was when it was reserved (`pad`), its offset and size;
  - whether its write completed.
- `tr` is a truncating thread between its two steps.
- `m_reserved_sz` is raised by `alloc_next_append_blk` and lowered by the `pwritev` that follows it on the same thread. Other threads always see it at 0, so it is folded into the append step.

Actions:

- `AppendWrite(size)`: `append_write` with `alloc_next_append_blk`, `update_end_of_chunk` on a boundary crossing, `high_watermark_check` and `pwritev`'s `process_pwrite_offset`. A refused append is `AppendFailed`. As written, `m_last_crc` has already moved to the refused record's crc.
- `WriteDone(i)`: the completion of record `i`.
- `TruncBegin(k)`: `truncate`'s size computation, with the loop-back case and its two RELEASE asserts, and the `fetch_sub`. Its argument is the start of record `k`, all of whose predecessors are durable.
- `TruncEnd`: `update_data_start_offset` and `m_truncate_done = true`.
- `PwritevAt` is `pwritev` with `process_pwrite_offset`: the length added to `m_write_sz_in_total`, and the RELEASE assert that the write stays in its chunk, which sets `halted` when it fails. `NextChunk` is `get_next_chunk`, and `UpdateDataStartOffset` is `update_data_start_offset`, which `TruncEnd` uses.
- `LogDevHdr` and `LogDevAdvanceCrc` are `append_write`'s header (`m_prev_crc = m_last_crc`) and its advance of `m_last_crc`, which `AppendWrite` uses.
- `VdevRead(cur, count)` is `read()` with its `pread`. The read is cut at the chunk's `end_of_chunk`, and the cursor moves past the chunk's tail. `DevOffset` is `logical_to_dev_offset`, which maps an offset at or past `get_size()` to chunk 0 offset 0. `ScanFrom` is the log store's scan (the log store is not in this repository): `lseek` to the data start, then one `read()` per record, repeated after a zero-byte read. `ScanReadsLog` says the scan returns every record whole, at its offset.
- `Crash`: drops the incomplete writes. `Restart` is `init()` on the persisted start and chunk ends, a new LogDev, and `update_tail_offset` with the end of the durable prefix the log store's scan finds.

Three constants fix the places where the code breaks the properties:

- `TruncAtomic = TRUE` serialises truncate with appends: `AppendMayRun` keeps an append out of a half-done truncate. The mutant `AppendMayRunAsWritten` lets it in, as truncate's comment allows.
- `FullTailFix = TRUE` makes `update_tail_offset` take `tail == start` with records present as a full ring.
- `CrcFix = TRUE` moves `m_last_crc` only after the blkstore accepted the record.

The passing run uses all three. The reproduction cfgs set `FullTailFix = FALSE`. The mutant `AppendFailedAsWritten` restores the code as written for `m_last_crc`.

### `VdevBlockIo.tla`

This module models the asynchronous block-mode calls of `virtual_dev.hpp` and the error path into `device_manager.cpp`. Each request in `Reqs` has a kind: `write`, `read`, `readv` or `pwritev`.

State:

- `pc[r]`: the issuing thread: `idle`, `mirror` (inside `do_preadv_internal`'s mirror loop), `ret`, `done`.
- `ref[r]`: the intrusive refcount. It starts at 1, the caller's pointer. `freed[r]` records `free_yourself`.
- `ocb[r]`: `outstanding_cb`. `zeroed[r]`: the copies whose `fetch_sub` took it to 0.
- `io[r][k]`: copy `k` (0 the primary chunk, 1 the mirror chunk): `none`, `flight`, `cb` (inside `process_completions`), `gone`.
- `err[r]`: `req->err`. `comp[r]`: the number of `m_comp_cb` calls.
- `errCnt[p]`: the pdev's error count. `errCb[p][t]`: the `m_vdev_error_cb` calls for vdev id `t`, which may be `INVALID_VDEV_ID`.
- `fails[p]`: a history variable, not in the code. It counts the pdev I/Os on `p` that completed with an error. No action reads it.

Actions:

- `Issue(r)`: the call up to the primary's pdev I/O: `inc_ref` and the I/O. `pwritev` first stores `outstanding_cb = 1` (`process_pwrite_offset`).
- `OutstandingAtIssue` is the value of `outstanding_cb` at issue. `PdevIo(r, k)` is the async branch of `do_read_internal`, `do_pwritev_internal` and `do_preadv_internal`: `inc_ref` and the pdev I/O of copy `k`.
- `IssueMirror(r)`: one turn of readv's mirror loop: `inc_ref` and a readv on the mirror chunk into the same buffers.
- `Return(r)`: the call returns and the caller drops its pointer.
- `DeviceDone(r, k, fail)`: `virtual_dev_process_completions` up to `process_completions`' `fetch_sub`. A failed I/O sets `err`. `ErrorPdevs(r, k, fail)` names the pdev `handle_error` runs on. As written, this is the pdev of `req->chunk` (the primary chunk) whenever `err` is set.
- `CompCheck(r, k)`: `process_completions`' separate load of `outstanding_cb`, `m_comp_cb` when due, and the completion's release.
- `HandleError(p)` is `handle_error`: `inc_error_cnt`, then below the limit nothing, else the callback for every chunk slot on the pdev.

The `DEBUG` asserts that async writes and reads go only to unmirrored vdevs are an `ASSUME`. Synchronous calls, used in recovery, are left out.

Two constants fix the code:

- `OutstandingFix`: readv counts its copies in `outstanding_cb`, and `m_comp_cb` is called by the completion whose `fetch_sub` reached 0.
- `ErrorCbFix`: `handle_error` notifies each allocated vdev with a chunk on the pdev once, when the count reaches the limit, like the loop at `device_manager.cpp:273`. `vdev_block_io` runs with it off, as written; `MCVdevBlockIoErrorCb.cfg` shows the bug.
- `ErrorPdevFix`: a completion calls `handle_error` only when its own I/O failed, and on the pdev of the copy it is for.

The mutants `ReadvOutstandingAsWritten`, `CompCbDueAsWritten` and `ErrorPdevsAsWritten` restore the code as written inside `vdev_block_io`.

### `HomeBlksShutdown.tla`

This module models how volumes and HomeBlks are created, removed and shut down (`home_blks.cpp`, `volume.cpp`), together with the parts of `IndxMgr` they use (`trigger_homeblks_cp`, `attach_prepare_vol_cp`, `destroy`, `destroy_indx_tbl`, `volume_destroy_cp`, `shutdown`).

**State.**

- `hbRef` and `volRef` are `home_blks_ref_cnt` and `vol_ref_cnt`. They are kept modulo `RefMod`, because both are unsigned 64-bit and a second decrement wraps around.
- `vstate` is `m_state`. `volMap` is `m_volume_map`. `attached` is the set of volumes that have joined a CP (`attach_prepare_volume_cp_id`).
- `dstage` is the stage a volume's index destroy has reached:
  1. journal write;
  2. first prepare callback;
  3. `destroy_indx_tbl`;
  4. second prepare callback;
  5. destroy callback.
- HomeBlks flags: `rdy`, `shutTime` (`m_shutdown_start_time` non-zero), `shutForce`, `startShutdown`, `volShutCmpltd` and `cleanFlag`.
- `shutStarted` is `m_shutdown_started`. `cpTimer` is the CP timer handle.
- `cpTrig`, `cpPhase`, `cbs`, `runCbs` and `runDcbs` are one homeblks CP: a trigger, then a prepare, then the callbacks that run at its end.
- The thread locals are `iopc`/`iovol` for user requests and `rpc`/`rvol` for `remove_volume` callers and the init thread `Rec`.
- Boot: `found` is the set of recovered volumes `vol_found_cb` accepts, chosen in `Init`. `scanLeft`, `mntCnt` and `recPc` are `meta_blk_recovery_comp`'s loop, its `vol_mnt_cnt`, and where the init thread is.

**Actions.**

- I/O is split into three steps: `HomeBlks::write`'s admission test, the two `++` counts, and the `is_offline` test. `CompleteReq` is `check_and_complete_req` together with `shutdown_if_needed`.
- Create is the `++home_blks_ref_cnt` in `create_volume`, then the constructor's `is_shutdown` test.
- `Volume::destroy` is split at each atomic access: ref increment, shutdown test, `set_state` exchange, the second-destroy path, and `fetch_sub`.
- Boot: `RecScan(v)` is one pass of `meta_blk_recovery_comp`'s loop. A refused volume is removed with `remove_volume_internal(uuid, true)`, which is busy once `is_shutdown()`, and the init thread runs `Volume::destroy` as a remover until `RecDestroyReturned`. `RecTriggerCpInit` is `trigger_cp_init`. `CpInitDone` is its callback, which triggers again while the map holds more than `vol_mnt_cnt` volumes. The volumes' `is_recovery_done` is taken as true.
- The CP is abstracted to a prepare step and an end step, and every CP is assumed to be a blkalloc CP. The callbacks may still be lost in the code, as `indxcp_lost_callback` shows, but this module assumes they are not.

**Constant `Fixes`.** `Fixes` switches on corrections of five bugs found while modelling:

| Fix | What it changes |
|---|---|
| `CbChecksShutdown` | the destroy callback tests `is_shutdown()` |
| `DestroyReturns` | `destroy` returns after giving its ref back |
| `OfflineDestroyed` | `is_offline` includes DESTROYED |
| `RedestroyGuard` | a destroy of a DESTROYED volume is a second destroy |
| `InitYieldsToShutdown` | `trigger_cp_init` and its callback finish init at once when `is_shutdown()` |

`hb_lifecycle` runs with all five fixes. Each fix has a mutant of `hb_lifecycle` that takes it back out, and TLC finds a property violated, so each mutant reproduces one of the bugs. `RecTriggerCpInitAsWritten` takes out `InitYieldsToShutdown` and breaks both `InitCpNeverRefused` and `ShutdownCompletes`. `MCHomeBlksShutdownBootShutdown.cfg` reproduces the same bug on its own.

**The refused callback.** `trigger_homeblks_cp` calls `cb(false)` at once when its compare-exchange on `m_shutdown_started` fails (`indx_mgr.cpp:659-662`). The only callback that can meet this is `trigger_cp_init`'s. The shutdown callback is pushed by the one caller that sets the flag. `trigger_cp_init`'s callback asserts `success` in release builds (`home_blks.cpp:805`), so the process aborts. The model records this as `initAbort`, and no step follows it.

### `BtreeWbCache.tla`

This module models one btree's `WriteBackCache` (`btree_wb_cache.hpp`) with its single flusher thread.

**State.**

- `req[s][n]` is node `n`'s write-back request in CP slot `s` (`m_slot_cnt` slots, indexed by `cp_id % 2`). It holds:
  - the request state;
  - its CP;
  - the buffer it writes;
  - `dependent_cnt`;
  - the requests queued on it (`req_q`).
- `dirty[s]` is the per-slot dirty list. `bcpOf[n]` is `bn->bcp`. `buf[n]` is the node's current buffer, and `content` is what each buffer holds.
- `mods`, `snap` and `disk` compare the data with the CPs:
  - `mods` is the node's logical content;
  - `snap[c]` is what CP `c` must persist;
  - `disk` is what has been written.
- `fq` is the flusher's queue of lambdas (`iomanager.run_on`), `fpc` the flusher's phase, `cont` the pause flag, and `outst` the number of writes in flight.

**Actions.**

- `Modify(n, d)`: `refresh_buf` followed by `write`. `NeedCopy` is the test for whether the previous CP's request still uses the buffer. If it does, the buffer is copied.
- `CloseCp`: a new CP takes the other slot, whose previous CP must have finished.
- `FlushBuffers`: starts walking the dirty list.
- `RunListItem` and `RunDepsItem`: the two lambdas of the walk.
  - `RunListItem` sends a request, or pauses at the throttle.
  - `RunDepsItem` sends a request whose dependencies completed.
- `LambdaDone`: the end of a lambda.
- `WriteBackCompletion(n)`: `writeBack_completion`. It decrements the dependents, queues the ready ones and resumes a paused walk.
- `CompletionDone`: frees the request.

The flusher's steps and the completions are weakly fair.

### `IndxWrite.tla`

This module models one volume write's index update in `indx_mgr.cpp`:

- `update_indx`;
- `update_indx_tbl`, with its skip-written and partial-blkid branches;
- `retry_update_indx`;
- `journal_write` and `journal_comp_cb`.

A range put stops at the first leaf whose `bcp` is newer than the request's btree CP (`refresh_buf`'s `cp_mismatch`). `mapping::put` then reports the first unwritten LBA.

**Environment.** `OtherWrite(n)` is another request moving a leaf to the current CP. `CloseCp` is a CP switch. A CP switch waits for the previous epoch to drain, which keeps at most two CPs pending.

**State.**

- `index` maps each LBA to a blkid and an offset.
- `leafCp` is each leaf's CP.
- `cpInfo` is `cp_info_list`.
- `holds` counts the `cp_io_enter` calls not yet exited, per epoch.

**Constant `Fixes`.** `Fixes` switches on corrections of two bugs found while modelling:

| Fix | What it changes |
|---|---|
| `VolIdRefresh` | `retry_update_indx` refreshes `vreq->vol_id` for the new CP |
| `PartialOffset` | `blk_offset`, `nlbas` and `csum_indx` are computed before `start_lba` is moved |

`indxwrite` runs with both fixes. The mutants `RetryStaleVolId` and `KeyOffAsWritten` restore the code as written.

### `VolumeIo.tla`

This module models a volume request's life in `volume.cpp`:

- admission in `Volume::write` and `Volume::read`;
- `alloc_blk` or `read_indx`;
- the child I/Os that `create_vol_child_req` counts in `outstanding_io_cnt`;
- their completions (`process_data_completions`);
- the journal completion (`process_indx_completions`);
- `check_and_complete_req` and `shutdown_if_needed`.

`check_and_complete_req` is called at once by the submitting thread, by every child completion and by the journal completion. The model gives each caller its own position. The following are separate steps:

1. `set_error`'s first-error test (`SetError`);
2. the read of `vreq->state` (`CheckState`);
3. `decrement_testz` (`DecrementTestz`), whose zero starts `update_indx` for a write and completes a read;
4. the completion with `interface_req_done` (`Complete`);
5. the two `fetch_sub`s (`ShutdownIfNeeded`).

HomeBlks' graceful shutdown is reduced to two things:

- `is_shutdown()` (`TriggerShutdown`);
- `do_volume_shutdown`, which starts the volume shutdown when `home_blks_ref_cnt` is 0, or from `shutdown_if_needed`.

`outstanding_io_cnt` starts at 1, the submitting thread's own count. It is set in `volume.hpp`, which is not in the repository. That value is the one the decrements in `volume.cpp` balance against.


## 3. Runs

The project check allows at most twelve runs. Related properties therefore share a run, and each violation run states one bug.

| Run | Cfg | Bounds | Result |
|---|---|---|---|
| `checkpoint` | `MCCheckPointLive.cfg` | 1 I/O thread + trigger callers + flush thread, 2 addresses, decrement and test separate as in the code, `EpochOwnRef = TRUE` | pass, about 25k distinct states |
| `mapping_put_in_order` | `MCMappingPut.cfg` | 4 LBAs, sequence numbers 1..4, updates in seq order | pass, 14,641 distinct states |
| `indxcp_safety` | `MCIndxCP.cfg` | 1 homeblks caller, 1 I/O thread, btree thread, flush thread, 2 volumes, 2 addresses, shutdown callback, `ExitTestAtomic = TRUE` | pass, about 758k distinct states |
| `indxcp_liveness` | `MCIndxCPLive.cfg` | as safety, 1 volume, no callbacks, no shutdown | pass, about 217k distinct states |
| `indxcp_lost_callback` | `MCIndxCPLostCb.cfg` | as safety, the `trigger_cp_init` callback | violation of `CallbacksNotDropped` in 30 steps |
| `dm_safety` | `MCDeviceManager.cfg` | 2 pdevs of 3 units, 4 chunk slots, 2 vdev slots, 1 crash, 1 spare, `m_gen_cnt <= 9` | pass, about 172k distinct states, `VdevLinkFix = TRUE`, `ChunkSlotFix = TRUE` |
| `alv_safety` | `MCAppendLogVDev.cfg` | 3 chunks of 2 units, record sizes 1 and 2, 7 records, 2 crashes, all three fixes | pass, about 393k distinct states |
| `hb_lifecycle` | `MCHomeBlksShutdown.cfg` | 2 volumes (1 recovered at boot, accepted or refused by `vol_found_cb`), 1 I/O thread, 2 `remove_volume` callers and the init thread, `RefMod = 8`, all fixes | pass, about 147k distinct states |
| `btree_wb_cache` | `MCBtreeWbCache.cfg` | 3 nodes (a parent and two children), 6 buffers, 3 CPs, 2 modifications per node per CP, throttle 1 | pass, about 146k distinct states |
| `vio_lifecycle` | `MCVolumeIo.cfg` | one write of up to 2 children, one read of up to 1, child, allocation and journal errors, a graceful shutdown | pass, 62,700 distinct states |
| `vdev_block_io` | `MCVdevBlockIo.cfg` | 2 pdevs; a mirrored vdev, an unmirrored one and a freed one with a stale removed slot; a superblock and a free chunk; a readv, a write, a pwritev and a read; error limit 2; `OutstandingFix` and `ErrorPdevFix` on, `handle_error` as written | pass, about 117k distinct states |
| `indxwrite` | `MCIndxWrite.cfg` | LBAs 0..7 on 3 leaves, a request of two 2-LBA blkids at LBA 2, 4 CPs, both fixes | pass, 418 distinct states |

Nine bugs have no run of their own, because of the run limit. Their cfgs are kept, and `tlc -config <cfg> <MC module>` reproduces each one:

- `MCCheckPointRace.cfg` (module `MCCheckPoint`) gives the `cp_io_exit` race, a violation of `FlushStartsDrained` in 14 steps. `MCCheckPointLive.cfg` with `EpochOwnRef = FALSE` shows the same race as a violation of `ImplementsAbstract`, with a single I/O thread.
- `MCAppendLogVDevChunkEnd.cfg` (module `MCAppendLogVDev`) gives the stale chunk end, a violation of `ScanReadsLog`.
- `MCHomeBlksShutdownDestroyCb.cfg` (module `MCHomeBlksShutdown`) gives the destroy callback that shuts HomeBlks down, a violation of `VolShutdownOnlyOnRequest`. The mutant `CpDestroyDoneAsWritten` of `hb_lifecycle` shows the same bug.
- `MCHomeBlksShutdownBootShutdown.cfg` (module `MCHomeBlksShutdown`) gives a shutdown requested during boot recovery, a violation of `ShutdownCompletes` (deadlock checking off, so the hang shows as a liveness violation).
- `MCDeviceManagerVdevList.cfg` (module `MCDeviceManager`) gives the stale `m_last_vdevid`, a violation of `VdevListConsistent` in 6 steps. The mutant `LastVdevAfterFreeAsWritten` of `dm_safety` shows the same bug.
- `MCVolumeIoDrain.cfg` (module `MCVolumeIo`) gives a shutdown drained while a sibling child write is in flight, a violation of `VolShutdownDrained` in 11 states.
- `MCMappingPutOutOfOrder.cfg` (module `MCMappingPut`) gives the out-of-order put, a violation of `GetReturnsNewest`.
- `MCAppendLogVDevFullRestart.cfg` (module `MCAppendLogVDev`) gives the restart with a full ring, a violation of `NoOverwrite`. The mutant `RestartAsWritten` of `alv_safety` shows the same bug.
- `MCVdevBlockIoErrorCb.cfg` (module `MCVdevBlockIo`) gives `handle_error`'s callback on unallocated and freed slots, a violation of `VdevErrorCbValid`.

`checkpoint` checks the following:

- `ImplementsAbstract`: CheckPoint refines CheckPointAbstract. This covers the following:
  - no entry into a sealed or deleted epoch (the RCU grace period);
  - one checkpoint at a time (`in_cp_phase`);
  - `cp_start` exactly once, and only when the epoch is drained;
  - deletion only after the flush, with nobody inside;
  - every closed epoch eventually flushed and deleted.
- `FlaggedEpochIsCheckpointed`: an epoch flagged by `trigger_cp(id)` is eventually flushed and deleted, even when the flag was set while another checkpoint ran.

`indxcp_safety` runs IndxCP, which extends CheckPoint, with `cp_io_exit`'s decrement and test made one step (`ExitTestAtomic`, one possible correction; the code as written is the mutant `ExitDecAsWritten`). It checks these properties:

- `FlushStartsDrained`: an epoch is in `cp_start` only with `enter_cnt = 0`.
- `NoUseAfterFree`: no thread increments or decrements a deleted epoch.
- `FlushDoneOnce`: `indx_tbl_cp_done` finishes an epoch exactly once, after every btree cp called back. `cp_start`'s own `++ref_cnt` before its loop keeps an early completion from finishing it.

`MCCheckPointRace.cfg` runs the code as written and shows the race in `cp_io_exit`, lines 111-112:

1. An I/O's `fetch_sub` takes an io_ready epoch to 0.
2. The I/O is delayed before its state load.
3. A timer's `trigger_cp` enters the epoch and moves it to `cp_prepare`.
4. The delayed I/O then sees `cp_prepare` with `cnt == 1` and calls `cp_start`, while the trigger thread still holds its count.

5. The trigger thread's `cp_io_exit` then trips `assert(cp_state != cp_start)`. In a release build it decrements an epoch that `cp_end` may already have deleted.

The mutant `ExitDecAsWritten` puts the code's separate test back into `indxcp_safety`, and TLC finds both `FlushStartsDrained` and `NoUseAfterFree` violated. So the two invariants of that run do speak about the line the run itself makes atomic.

The refinement finds the same race with one I/O thread. In that case the delayed exit is the flush thread's `cp_io_exit` at the end of `cp_end`. Under `EpochOwnRef` a fresh epoch's count cannot reach 0 before `cp_prepare`. A `fetch_sub` that returns 1 is then the last one, so the separate test is safe, and `checkpoint` passes. The mutant `FreshCntAsWritten` takes the correction out again, and `ImplementsAbstract` fails.

`mapping_put_in_order` checks these properties:

- `GetReturnsNewest`: after every series of puts, a get of any range with any `lastCommited_seqId` returns, LBA by LBA and in order, the block of the newest visible request that wrote that LBA, or an empty entry.
- `BlocksFreedOnce`: the fbes free each overwritten block exactly once.

`MCMappingPutOutOfOrder.cfg` shows the existing-wins branch (`mapping.hpp:1207-1223`) when updates arrive out of order. They do arrive out of order: `volume.cpp` calls `update_indx` when a request's data writes complete, and sequence numbers were assigned before that. Take an existing `[0,1]` with seq 2 and a late put of `[1,2]` with seq 1. The put advances `start_lba` by the existing entry's length, so LBA 2 is never mapped.

`indxcp_liveness` checks `BlkallocRequestServed`: a requested blkalloc checkpoint is eventually taken. When the request came too late for its epoch, the re-trigger in `indx_tbl_cp_done` takes it.

`indxcp_lost_callback` shows the callback race at `indx_mgr.cpp:662-673`:

1. Thread A's `trigger_homeblks_cp` enters epoch E.
2. An I/O thread's `trigger_vol_cp` runs `cp_attach_prepare(E, N)` while `E.try_blkalloc_checkpoint` is still false.
3. A then sets the flag and pushes its callback on `E.cb_list`.
4. E is flushed without a blkalloc checkpoint. The re-trigger asks N for one, and `cp_end` deletes E with the callback never called.

`trigger_cp_init` and `IndxMgr::shutdown` wait for that callback.

`dm_safety` checks these properties:

- `ChunkTableWellFormed`: `alloc_new_chunk_slot` never indexes past the table, `num_chunks` counts the allocated slots, each pdev's chunks tile it, and no two free chunks are neighbours.
- `DiskInSync`: when no operation or recovery is under way, every pdev holds the current DM info at the current generation. This includes a spare and a pdev a crash left behind.
- `VdevListConsistent`: outside a crash, the walk from `first_vdev_id` along `next_vdev_id` visits `num_vdevs` allocated vdevs, and every allocated vdev is on it. It holds with `VdevLinkFix`.
- `RecoveredIsLastOrInflight` (an action property): recovery after a crash at any point of `write_info_blocks`, and after a disk replacement, loads the last completed DM info or the interrupted one, never an older one. Failed marks are ignored in the comparison.

`MCDeviceManagerVdevList.cfg` shows this sequence:

1. `alloc_vdev` creates vdev 0.
2. `free_vdev` frees it, and `m_last_vdevid` stays 0.
3. `alloc_vdev` reuses slot 0 with `prev_vdev_id = 0`. It skips `first_vdev_id`, because `m_last_vdevid` is valid.

The new vdev is then unreachable from the list head. The next start's walk counts fewer vdevs than `num_vdevs` and fails the assert at line 329.

`alv_safety` checks `LogContiguous`. Whenever no truncate is half done, two things hold:

- the records lie back to back from `data_start_offset`, each after the chunk tail it skipped;
- `get_tail_offset()` is the end of the last record.

So the counter stays exact through several kinds of steps: `alloc_next_append_blk`'s skipped tails and `pwritev`, loop-back truncates, and `update_tail_offset` after a restart with a wrapped tail.

`alv_safety` also checks `LogChained`: each record's header `m_prev_crc` is the crc of the record before it in the log. The first record after a restart is the exception: it chains to `INVALID_CRC`, the LogDev constructor's value. The spec says a journal scan drops a record whose crc does not match, and everything after it.

The code as written (mutant `AppendFailedAsWritten`) breaks this property:

1. The ring is full and `append_write` is refused.
2. `m_last_crc` already holds the refused record's crc.
3. A truncate makes room, and the next record is written chained to that crc, which is on no record.

A recovery scan would therefore drop every record from there on.

`alv_safety` also checks `NoOverwrite`: no append overwrites a durable record that is not truncated. `MCAppendLogVDevFullRestart.cfg` shows the code as written. The durable records fill the ring exactly (`tail == start`), and `update_tail_offset` stores 0. The vdev then takes the log for empty and appends over durable records. A later truncate also underflows `m_write_sz_in_total`.

`MCAppendLogVDevChunkEnd.cfg` shows this sequence:

1. On one lap a record crosses out of chunk 0, and `end_of_chunk` of chunk 0 is lowered.
2. On the next lap a record ends exactly at the end of chunk 2.
3. The next record starts at offset 0 of chunk 0 without crossing a boundary, so `alloc_next_append_blk` never resets chunk 0's end.
4. The recovery scan's `read()` stops at chunk 0's stale `end_of_chunk` and returns the record torn: one unit of two.

`hb_lifecycle` checks these properties:

- `VolShutdownQuiescent`: once a graceful volume shutdown has started, no request is past admission, no destroy is in progress, no constructor is under way, and every volume in the map has joined a CP.
- `NoIoOnDestroyedIndex`: no request runs against a volume whose index destroy has begun.
- `VolShutdownOnlyOnRequest`: the volume shutdown starts only after `trigger_shutdown`.
- `ShutdownCompletes`: a requested shutdown eventually finishes `do_shutdown`. This holds under any interleaving of removes, creates and I/O.
- `InitCpNeverRefused`: no init CP is triggered after a shutdown CP set `m_shutdown_started`, so the assert in `trigger_cp_init`'s callback never fails.

`MCHomeBlksShutdownBootShutdown.cfg` shows a shutdown that never completes. The recovered volume is refused by `vol_found_cb`, and `shutdown` is called before `meta_blk_recovery_comp`'s loop reaches it. `remove_volume_internal(uuid, true)` answers busy, so the volume stays in `m_volume_map`. Every `trigger_cp_init` callback then finds the map larger than `vol_mnt_cnt` and triggers another CP. `m_init_finished` is never set, and `do_shutdown` waits on it forever. A shutdown that comes after the destroy's `++home_blks_ref_cnt` ends differently. The destroy gives the last ref back and starts the volume shutdown. `trigger_cp_init`'s CP is then refused, and the process aborts at the RELEASE assert at `home_blks.cpp:805`.

`MCHomeBlksShutdownDestroyCb.cfg` shows the following on an idle system. `remove_volume` holds the only home_blks ref, and the destroy callback's `fetch_sub` returns 1. `do_volume_shutdown(true)` then runs with no shutdown requested: it cancels the CP timer, sets `m_shutdown_started` and clears the volume map. No homeblks CP runs after that.

`btree_wb_cache` checks these properties:

- `CpPersisted`: when a flush finishes, the disk holds exactly what every node contained when that CP closed. Modifications made in the next CP while the old request is still being written are excluded by `refresh_buf`'s copy.
- `DependencyOrder`: a parent's request is never sent while a child it depends on is not yet written.
- `SlotHoldsOpenCp`: a slot's dirty list and requests belong only to the CP that owns the slot.
- `FlushCompletes`: a posted flush always finishes, including when the walk paused.

`vio_lifecycle` checks these properties:

- `AckedOnce`: `interface_req_done` is called at most once per request, whatever mix of child errors and journal errors arrives.
- `DataBeforeJournal`: a write reaches `update_indx` only after every child write completed without an error. Spec section 5 requires that the data write completes before the journal append.
- `NoEarlySuccess`: a request is completed without an error only after all its children were issued, and a write only after its journal completed. The count of 1 that the submitting thread holds keeps the success path clear of the TODO at `volume.cpp:310`: `verify_csum` cannot run while `read_buf` is still being filled. The error path is not covered by that count. A child read that fails completes the request at once (`check_and_complete_req`'s first-error branch), and the user's completion can then read `read_buf` while the issue loop is still adding to it. The model has no `read_buf`, so this race is not checked.
- `RequestCompletes`: every admitted request is completed and gives its refs back.

`MCVolumeIoDrain.cfg` shows the error path:

1. A write issues two children.
2. One child fails. Its `check_and_complete_req` wins `set_error` and completes the request.
3. A shutdown is requested.
4. The same completion's `fetch_sub` takes `home_blks_ref_cnt` to 0 and starts `do_volume_shutdown(true)`.

At that point the other child write is still in flight, and the submitting thread is still in its issue loop. `can_all_vols_shutdown` takes the ref count as the drain, so the volume shutdown starts with data I/O outstanding.

`indxwrite` checks these properties:

- `RetryResolvesMismatch`: after the retry the put does not fail with `cp_mismatch` again, which is what the assert at line 625 claims.
- `IndexMatchesRequest`: the index maps only the request's LBAs, each to its own blkid and offset. A write reported ok maps all of them.

The code as written breaks two of these:

- `retry_update_indx` keeps the old `vol_id` (mutant `RetryStaleVolId`).
- `update_indx_tbl` moves `start_lba` before computing the remaining part's offset and length (mutant `KeyOffAsWritten`). The resumed put then maps LBAs beyond the request.

`vdev_block_io` checks these properties:

- `CompletionAfterLastIo`: `m_comp_cb` runs at most once per request, and only when no pdev I/O of the request is still to be issued or in flight. A request is freed only after its caller returned and every completion let it go.
- `ErrorCountMatchesFailures`: each pdev's `m_error_cnt` equals the number of its I/Os that failed. This count decides when `handle_error` marks the device down.

The code as written breaks both:

- `do_preadv_internal` issues the mirror reads without counting them in `outstanding_cb` (mutant `ReadvOutstandingAsWritten`). The primary's completion calls `m_comp_cb` while the mirror read still fills the buffer, and the mirror's calls it again. Counting the copies is not enough on its own: `process_completions` loads `outstanding_cb` again after its `fetch_sub`, so two completions can both see 0 (mutant `CompCbDueAsWritten`).
- `req->err` is sticky and the pdev comes from `req->chunk` (mutant `ErrorPdevsAsWritten`). When a mirrored readv's primary read fails, the successful mirror completion counts a second error against the primary's pdev. A failed mirror read is counted against the primary's pdev, not its own.

`MCVdevBlockIoErrorCb.cfg` checks `VdevErrorCbValid`: every `m_vdev_error_cb` call is for an allocated vdev with a chunk on the failing pdev, at most once per pdev. `handle_error`'s loop as written has neither the `slot_allocated` nor the `INVALID_VDEV_ID` test, and TLC finds the property violated. A superblock or free chunk indexes `m_vdev_info` with `UINT32_MAX`, a removed slot names a freed vdev, and each error past the limit notifies again.

The truncate/append race at `virtual_dev.hpp:462` is the mutant `AppendMayRunAsWritten` of `alv_safety`.

### Why the bounds are enough

- **Two addresses.** They give address reuse: one epoch is flushing while the other is current, and cp_end deletes before trigger_cp allocates.
- **One I/O/trigger thread in the `checkpoint` run.** Beside the flush thread it still lets an I/O race a trigger while `cp_end` runs, and it can flag the current epoch while a checkpoint is in flight. That is the case `cp_trigger_waiting` exists for. Two such threads with the liveness property do not finish in ten minutes; they are used only in the reproduction `MCCheckPointRace.cfg`.
- **MappingPut.** Four LBAs and four requests give every relative position of two or three overlapping ranges: gap, head split, tail split, containment and exact cover.
- **IndxCP.** Two volumes let a btree completion overtake `cp_start`'s loop. An I/O thread beside a homeblks caller gives a `trigger_cp` that is not the caller's own.
- **AppendLogVDev.** Three chunks of two units with records of one and two units give every placement: a record that fits, one that skips a one-unit chunk tail, a wrap from the last chunk to the first, and a truncation point below the data start. Seven records fill the six-unit ring more than once, and two crashes restart it with the tail on either side of the start.
- **DeviceManager.** With two pdevs, a crash can leave them at different generations, and replacing one makes recovery read the other. Four slots on three units per pdev allow a split and a merge on both sides. Three one-unit allocations fill the table, so the next split finds no slot. The generation bound allows about eight operations or writes.
- **HomeBlksShutdown.** One volume recovered at boot and one that can be created let a create, a remove and I/O race a shutdown. `Init` lets `vol_found_cb` accept or refuse the recovered volume, so boot's forced removal and the retrying init CP race a shutdown too. Two `remove_volume` callers can remove the same volume twice. `RefMod = 8` is larger than any count the model reaches, so a wrap can only come from a double decrement.
- **BtreeWbCache.** A parent with two children gives a dependency with more than one child. Three CPs reuse a slot. Two modifications per node per CP let a node be modified again while its previous CP's request is in flight. A throttle of 1 makes the walk pause.
- **IndxWrite.** Two blkids of two LBAs each, spread over three leaves, let a put stop between blkids and inside one. Four CPs allow a leaf to move ahead of the request both before and after its retry.
- **VdevBlockIo.** One mirrored readv gives the uncounted mirror copy. The three other kinds cover the paths with one copy. Every completion may fail, and an error limit of 2 lets a pdev reach the limit and pass it. The chunk table holds every kind of slot `handle_error` meets on a pdev: a live vdev's primary and mirror, the superblock chunk, a free chunk and a removed slot.
- **VolumeIo.** A write with two children lets one child fail while the other is in flight. A read with at most one child includes a read with no valid entry. The two requests share the ref counts and the shutdown.
- **`MCView`.** It drops locals of idle threads and the counters of deleted epochs. Every operation writes these before reading them.

### Fairness

- Every step of an operation already under way is weakly fair: threads are not descheduled forever.
- The `indx_mgr` thread serves each `cp_start` hand-off (`IndxCP::cp_start` posts to it with `run_on`), so `BeginEnd` is weakly fair.
- CheckPointAbstract's fairness asks less than CheckPoint provides. A leave is forced only from an epoch already closed: with `EpochOwnRef`, an open epoch's own reference stays until a trigger. Publish, seal, flush and delete are forced too. CheckPoint's weakly fair thread steps and flush thread give all of these.
- In IndxCP, btree cp completions are weakly fair: a started btree cp completes. The indx_mgr thread serves every `cp_start` post.
- In HomeBlksShutdown, the CP steps, the destroy stages, the CP timer and `do_shutdown`'s timer re-run are weakly fair. They run on the `indx_mgr` thread and on iomanager timers, which keep firing. The init thread's recovery steps are weakly fair too: `meta_blk_recovery_comp` runs to its end on that thread.
- In BtreeWbCache, the flusher's lambdas and the write completions are weakly fair. The flusher is an iomanager thread, and every issued write completes.
- In VolumeIo, every step of a started request and every I/O and journal completion is weakly fair, and so is `do_shutdown`'s timer re-run of `do_volume_shutdown`. Starting a request or a shutdown is not fair.
- IndxWrite and VdevBlockIo check no liveness and assume no fairness. `MCVdevBlockIo.cfg` turns deadlock checking off, because its finite requests all finish.
- Starting an I/O, a timer trigger or a request is not fair. Liveness does not depend on new work arriving.

## 4. Not modelled

- The drive interface (`device.h`, `PhysicalDev`): pure I/O. The synchronous vdev calls, used in recovery, and `write_nmirror`'s synchronous mirror writes.
- Configuration: it only supplies bounds.
- Test drivers and the load generator.
- The btree internals below `cp_start`: each volume's btree cp is one pending completion.
- `btree_internal.h`: it holds the btree node, key and value type declarations, with no protocol state of its own.
- The rest of `device.h`: the on-disk header structs and accessors. Only `chunk_info_block`, `vdev_info_block` and the invalid ids appear in DeviceManager, as its record types.
- The run, property and hazard limits: the stale chunk end at `virtual_dev.hpp:531`, and the re-trigger refused after shutdown at `indx_mgr.cpp:658` have no passing property. PROJECT.json gives the reason for each.
- In IndxCP: the volume lists of `attach_prepare_vol_cp_id_list`, volume destroy's callbacks, free-block flushing and superblock contents.
- MappingPut's `CHECK_DEADLOCK FALSE`: the finite set of requests runs out.
- Logging, metrics and memory release in `cp_end`.
- Everything listed as `not_modelled` in `PROJECT.json`, with its reason or plan.
