---------------------------- MODULE DeviceManager ----------------------------
(***************************************************************************)
(* The device manager of src/src/engine/device/device_manager.cpp: the    *)
(* DM info (the vdev slot table with its doubly linked vdev list and the  *)
(* chunk slot table), m_last_vdevid, m_gen_cnt, and the copy of the DM     *)
(* info each physical device holds.                                        *)
(*   - alloc_vdev / free_vdev / update_vb_context / alloc_chunk /           *)
(*     free_chunk change the in-memory DM info under m_dev_mutex and end   *)
(*     with write_info_blocks, which bumps m_gen_cnt and writes the DM     *)
(*     info to every pdev in turn;                                         *)
(*   - the process may crash at any point, also between two pdev writes;  *)
(*     a failed disk may be replaced by an unformatted one while down;    *)
(*   - load_and_repair_devices rebuilds the DM info from the pdev with    *)
(*     the highest generation, replaces missing pdevs by spares (marking   *)
(*     the vdevs with chunks there failed) and rewrites every pdev.       *)
(* A pdev's chunks are ordered by offset, which stands for the chunk list *)
(* of PhysicalDev (physical_dev.cpp, not part of src/): find_free_chunk,   *)
(* attach_chunk and merge_free_chunks follow the chunk-table contract.    *)
(***************************************************************************)
EXTENDS Integers, Sequences, FiniteSets

CONSTANTS
  NumPdevs,    \* physical devices 0 .. NumPdevs-1
  PdevSize,    \* capacity of a pdev in chunk units
  MaxChunks,   \* HS_STATIC_CONFIG(engine.max_chunks)
  MaxVdevs,    \* HS_STATIC_CONFIG(engine.max_vdevs)
  MaxGen,      \* bound on m_gen_cnt (number of DM info writes)
  MaxCrashes,  \* bound on crashes
  MaxReplaced, \* bound on disks replaced by spares
  VdevLinkFix, \* TRUE: free_vdev moves m_last_vdevid back to the previous
               \* vdev when it frees the last one; FALSE: as written
  ChunkSlotFix \* TRUE: with every chunk slot in use, alloc_chunk throws
               \* no_space_avail before it changes anything; FALSE: as written

ASSUME VdevLinkFix \in BOOLEAN /\ ChunkSlotFix \in BOOLEAN

Pdevs == 0 .. NumPdevs - 1
ChunkSlots == 0 .. MaxChunks - 1
VdevSlots == 0 .. MaxVdevs - 1
Invalid == -1   \* INVALID_VDEV_ID / INVALID_CHUNK_ID
Uninit == [gen |-> 0]   \* a pdev without a superblock

VdevInfo == [alloc : BOOLEAN, prev : VdevSlots \cup {Invalid},
             next : VdevSlots \cup {Invalid}, ctx : 0 .. 1, failed : BOOLEAN]
ChunkInfo == [alloc : BOOLEAN, pdev : Pdevs, start : 0 .. PdevSize,
              size : 0 .. PdevSize, vdev : VdevSlots \cup {Invalid}]

VARIABLES
  vdevs,      \* m_vdev_info[]
  firstVdev,  \* m_vdev_hdr->first_vdev_id
  numVdevs,   \* m_vdev_hdr->num_vdevs
  lastVdev,   \* m_last_vdevid (in memory only)
  chunks,     \* m_chunk_info[]
  numChunks,  \* m_chunk_hdr->num_chunks
  genCnt,     \* m_gen_cnt
  phase,      \* "run", "write" (inside write_info_blocks' loop), "down"
  wi,         \* the pdev write_info_blocks writes next
  disk,       \* per pdev: the generation and DM info of its superblock
  overrun,    \* alloc_new_chunk_slot indexed past the chunk table
  crashes, replaced,
  lastDone,   \* DM info of the last write_info_blocks that completed
  inflight    \* DM info of the write_info_blocks under way

vars == <<vdevs, firstVdev, numVdevs, lastVdev, chunks, numChunks, genCnt,
          phase, wi, disk, overrun, crashes, replaced, lastDone, inflight>>
memVars == <<vdevs, firstVdev, numVdevs, lastVdev, chunks, numChunks>>
histVars == <<crashes, replaced, lastDone, inflight>>

\* The DM info written to the pdevs (all but m_last_vdevid).
Info(vd, fv, nv, ch, nc) == [vdevs |-> vd, first |-> fv, num |-> nv,
                             chunks |-> ch, nchunks |-> nc]
MemInfo == Info(vdevs, firstVdev, numVdevs, chunks, numChunks)

-----------------------------------------------------------------------------
(* The vdev list from first_vdev_id, following next_vdev_id (at most      *)
(* MaxVdevs + 1 hops, so that a cycle shows as a too-long walk).           *)
RECURSIVE WalkFrom(_, _, _)
WalkFrom(vd, id, n) ==
  IF id = Invalid \/ n > MaxVdevs THEN <<>>
  ELSE <<id>> \o WalkFrom(vd, vd[id].next, n + 1)

VdevWalk(vd, fv) == WalkFrom(vd, fv, 0)

\* Free chunks of pdev p, and the chunks adjacent to chunk c.
FreeChunks(ch, p) == {c \in ChunkSlots : ch[c].alloc /\ ch[c].pdev = p /\ ch[c].vdev = Invalid}
PrevOf(ch, c) == {d \in ChunkSlots : ch[d].alloc /\ ch[d].pdev = ch[c].pdev
                                      /\ ch[d].start + ch[d].size = ch[c].start}
NextOf(ch, c) == {d \in ChunkSlots : ch[d].alloc /\ ch[d].pdev = ch[c].pdev
                                      /\ ch[c].start + ch[c].size = ch[d].start}

(* write_info_blocks: if (!m_scan_cmpltd) return; m_gen_cnt++; then the   *)
(* loop over the pdevs (WriteDm).  inflight records what is being written.*)
WriteInfoBlocks ==
  /\ genCnt' = genCnt + 1
  /\ phase' = "write"
  /\ wi' = 0
  /\ inflight' = Info(vdevs', firstVdev', numVdevs', chunks', numChunks')

\* Operations run only when no other holds m_dev_mutex.
Idle == phase = "run"

-----------------------------------------------------------------------------
(* The DM info after init_devices and its first write_info_blocks: each    *)
(* pdev has one free chunk over its whole size (slot p for pdev p).  The   *)
(* superblock chunk each PhysicalDev puts first is busy for good and never *)
(* merged, so it is left out together with its slot: MaxChunks counts the *)
(* slots beyond the superblock chunks.                                      *)
Init ==
  LET vd == [v \in VdevSlots |-> [alloc |-> FALSE, prev |-> Invalid, next |-> Invalid,
                                  ctx |-> 0, failed |-> FALSE]]
      ch == [c \in ChunkSlots |-> [alloc |-> c < NumPdevs, pdev |-> IF c < NumPdevs THEN c ELSE 0,
                                   start |-> 0, size |-> IF c < NumPdevs THEN PdevSize ELSE 0,
                                   vdev |-> Invalid]]
  IN /\ vdevs = vd /\ firstVdev = Invalid /\ numVdevs = 0 /\ lastVdev = Invalid
     /\ chunks = ch /\ numChunks = NumPdevs
     /\ genCnt = 1 /\ phase = "run" /\ wi = 0
     /\ disk = [p \in Pdevs |-> [gen |-> 1, info |-> Info(vd, Invalid, 0, ch, NumPdevs)]]
     /\ overrun = FALSE /\ crashes = 0 /\ replaced = 0
     /\ lastDone = Info(vd, Invalid, 0, ch, NumPdevs)
     /\ inflight = lastDone

(* alloc_vdev: vb = alloc_new_vdev_slot() (the lowest free slot; none:     *)
(* exception, nothing changed); vb->prev_vdev_id = m_last_vdevid; link it  *)
(* after m_last_vdevid or as first_vdev_id; m_last_vdevid = vb->vdev_id;  *)
(* vb->next_vdev_id = INVALID; num_vdevs++; write_info_blocks().          *)
(* The context blob is 0 and failed is not reset.                          *)
AllocVdev ==
  /\ Idle
  /\ \E v \in VdevSlots : ~vdevs[v].alloc
  /\ LET id == CHOOSE v \in VdevSlots : ~vdevs[v].alloc /\ \A u \in VdevSlots : u < v => vdevs[u].alloc
         vb == [alloc |-> TRUE, prev |-> lastVdev, next |-> Invalid, ctx |-> 0,
                failed |-> vdevs[id].failed]
     IN /\ vdevs' = IF lastVdev = Invalid THEN [vdevs EXCEPT ![id] = vb]
                    ELSE [vdevs EXCEPT ![lastVdev].next = id, ![id] = vb]
        /\ firstVdev' = IF lastVdev = Invalid THEN id ELSE firstVdev
        /\ lastVdev' = id
  /\ numVdevs' = numVdevs + 1
  /\ UNCHANGED <<chunks, numChunks, disk, overrun, crashes, replaced, lastDone>>
  /\ WriteInfoBlocks

\* Mutant: free_vdev of a slot that is not allocated.
FreeVdevUnchecked(v) ==
  /\ Idle
  /\ LET pv == vdevs[v].prev
         nv == vdevs[v].next
         v1 == IF pv # Invalid THEN [vdevs EXCEPT ![pv].next = nv] ELSE vdevs
         v2 == IF nv # Invalid THEN [v1 EXCEPT ![nv].prev = pv] ELSE v1
     IN /\ vdevs' = [v2 EXCEPT ![v].alloc = FALSE]
        /\ firstVdev' = IF pv # Invalid THEN firstVdev ELSE nv
  /\ numVdevs' = numVdevs - 1
  /\ UNCHANGED <<lastVdev, chunks, numChunks, disk, overrun, crashes, replaced, lastDone>>
  /\ WriteInfoBlocks

\* Mutant: m_last_vdevid is left as it was (the code as written).
LastVdevAfterFreeAsWritten(v) == lastVdev

(* m_last_vdevid after free_vdev(v): free_vdev leaves it as it was; with   *)
(* VdevLinkFix it moves to v's prev_vdev_id when v was the last vdev.      *)
LastVdevAfterFree(v) ==
  IF VdevLinkFix /\ lastVdev = v THEN vdevs[v].prev ELSE lastVdev

(* free_vdev(vb): unlink vb between prev_vdev_id and next_vdev_id (or     *)
(* move first_vdev_id); slot_allocated = false; num_vdevs--;               *)
(* write_info_blocks().                                                    *)
FreeVdev(v) ==
  /\ Idle
  /\ vdevs[v].alloc
  /\ LET pv == vdevs[v].prev
         nv == vdevs[v].next
         v1 == IF pv # Invalid THEN [vdevs EXCEPT ![pv].next = nv] ELSE vdevs
         v2 == IF nv # Invalid THEN [v1 EXCEPT ![nv].prev = pv] ELSE v1
     IN /\ vdevs' = [v2 EXCEPT ![v].alloc = FALSE]
        /\ firstVdev' = IF pv # Invalid THEN firstVdev ELSE nv
  /\ lastVdev' = LastVdevAfterFree(v)
  /\ numVdevs' = numVdevs - 1
  /\ UNCHANGED <<chunks, numChunks, disk, overrun, crashes, replaced, lastDone>>
  /\ WriteInfoBlocks

(* update_vb_context / update_vb_data_start_offset / update_end_of_chunk: *)
(* change a field of the DM info and write_info_blocks().                  *)
UpdateVbContext(v, x) ==
  /\ Idle
  /\ vdevs[v].alloc /\ vdevs[v].ctx # x
  /\ vdevs' = [vdevs EXCEPT ![v].ctx = x]
  /\ UNCHANGED <<firstVdev, numVdevs, lastVdev, chunks, numChunks, disk, overrun,
                 crashes, replaced, lastDone>>
  /\ WriteInfoBlocks

(* alloc_new_chunk_slot: search the chunk slots circularly from           *)
(* num_chunks for one not allocated; k-th slot of that search.             *)
SlotOrder(k) == (numChunks + k) % MaxChunks

NewChunkSlot ==
  SlotOrder(CHOOSE k \in 0 .. MaxChunks - 1 :
              /\ ~chunks[SlotOrder(k)].alloc
              /\ \A j \in 0 .. k - 1 : chunks[SlotOrder(j)].alloc)

(* PhysicalDev::find_free_chunk: the smallest free chunk of p of at least  *)
(* req units, the lowest offset among equals.                              *)
BestFit(p, req) ==
  LET fit == {c \in FreeChunks(chunks, p) : chunks[c].size >= req}
  IN CHOOSE c \in fit :
       \A d \in fit : \/ chunks[c].size < chunks[d].size
                      \/ /\ chunks[c].size = chunks[d].size
                         /\ chunks[c].start <= chunks[d].start

(* alloc_chunk's split with every slot allocated, as written: num_chunks *)
(* is max_chunks, and alloc_new_chunk_slot starts at m_chunk_info[max_    *)
(* chunks], past the table, and its wrap test (cur_slot == max_chunks     *)
(* after the increment) never fires: undefined behaviour, recorded as    *)
(* overrun; the process is taken down.                                    *)
FullTableAsWritten(c, v) ==
  /\ overrun' = TRUE
  /\ phase' = "down"
  /\ UNCHANGED <<memVars, genCnt, wi, disk, histVars>>

(* Mutant: alloc_new_chunk_slot wraps and returns nullptr, so              *)
(* create_new_chunk throws no_space_avail, but after alloc_chunk's         *)
(* set_vdev_id: the chunk stays given to the vdev in memory, with no       *)
(* write_info_blocks.                                                      *)
FullTableThrowLate(c, v) ==
  /\ chunks' = [chunks EXCEPT ![c].vdev = v]
  /\ UNCHANGED <<vdevs, firstVdev, numVdevs, lastVdev, numChunks, genCnt, phase, wi, disk,
                 overrun, histVars>>

(* alloc_chunk when the split finds no slot: as written the read past the *)
(* table; with ChunkSlotFix the exception is thrown before anything       *)
(* changed, a step that changes nothing.                                  *)
FullTable(c, v) == IF ChunkSlotFix THEN FALSE ELSE FullTableAsWritten(c, v)

(* alloc_chunk(pdev, vdev_id, req_size): chunk = find_free_chunk (none:   *)
(* exception); set_vdev_id; if the chunk is larger, create_new_chunk for   *)
(* the rest after it (alloc_new_chunk_slot; num_chunks++) and shrink it;   *)
(* write_info_blocks().                                                    *)
AllocChunk(p, v, req) ==
  /\ Idle
  /\ vdevs[v].alloc
  /\ \E c \in FreeChunks(chunks, p) : chunks[c].size >= req
  /\ LET c == BestFit(p, req) IN
       IF chunks[c].size > req /\ numChunks = MaxChunks
         THEN FullTable(c, v)
         ELSE /\ chunks' =
                   IF chunks[c].size > req
                     THEN [chunks EXCEPT ![c].vdev = v, ![c].size = req,
                                         ![NewChunkSlot] = [alloc |-> TRUE, pdev |-> p,
                                            start |-> chunks[c].start + req,
                                            size |-> chunks[c].size - req, vdev |-> Invalid]]
                     ELSE [chunks EXCEPT ![c].vdev = v]
              /\ numChunks' = IF chunks[c].size > req THEN numChunks + 1 ELSE numChunks
              /\ UNCHANGED <<vdevs, firstVdev, numVdevs, lastVdev, disk, overrun, crashes,
                             replaced, lastDone>>
              /\ WriteInfoBlocks

\* Mutant: a freed chunk is not merged with a free chunk after it.
FreeChunkNoMergeNext(c) ==
  /\ Idle
  /\ chunks[c].alloc /\ chunks[c].vdev # Invalid
  /\ LET pf  == {d \in PrevOf(chunks, c) : chunks[d].vdev = Invalid}
         keep == IF pf = {} THEN c ELSE CHOOSE d \in pf : TRUE
         gone == {c} \ {keep}
         span == chunks[c].size
     IN /\ chunks' = [d \in ChunkSlots |->
                        IF d = keep THEN [chunks[d] EXCEPT !.vdev = Invalid,
                                                            !.size = IF d = c THEN span ELSE @ + span]
                        ELSE IF d \in gone THEN [chunks[d] EXCEPT !.alloc = FALSE]
                        ELSE chunks[d]]
        /\ numChunks' = numChunks - Cardinality(gone)
  /\ UNCHANGED <<vdevs, firstVdev, numVdevs, lastVdev, disk, overrun, crashes,
                 replaced, lastDone>>
  /\ WriteInfoBlocks

(* free_chunk(chunk): set_free; merge_free_chunks coalesces it with a     *)
(* free chunk before and after it on the pdev and returns the ids that    *)
(* disappear; remove_chunk frees their slots (num_chunks--);               *)
(* write_info_blocks().                                                    *)
FreeChunk(c) ==
  /\ Idle
  /\ chunks[c].alloc /\ chunks[c].vdev # Invalid
  /\ LET pf  == {d \in PrevOf(chunks, c) : chunks[d].vdev = Invalid}
         nf  == {d \in NextOf(chunks, c) : chunks[d].vdev = Invalid}
         keep == IF pf = {} THEN c ELSE CHOOSE d \in pf : TRUE
         gone == ({c} \cup nf) \ {keep}
         span == chunks[c].size + (IF nf = {} THEN 0 ELSE chunks[CHOOSE d \in nf : TRUE].size)
     IN /\ chunks' = [d \in ChunkSlots |->
                        IF d = keep THEN [chunks[d] EXCEPT !.vdev = Invalid,
                                                            !.size = IF d = c THEN span ELSE @ + span]
                        ELSE IF d \in gone THEN [chunks[d] EXCEPT !.alloc = FALSE]
                        ELSE chunks[d]]
        /\ numChunks' = numChunks - Cardinality(gone)
  /\ UNCHANGED <<vdevs, firstVdev, numVdevs, lastVdev, disk, overrun, crashes,
                 replaced, lastDone>>
  /\ WriteInfoBlocks


-----------------------------------------------------------------------------
(* The vdev walk of load_and_repair_devices succeeds: it visits num_vdevs *)
(* slots, every one slot_allocated (else HS_ASSERT_CMP fails, or a cycle  *)
(* makes it loop, both ending the start).                                  *)
WalkOk(vd, fv, nv) ==
  LET w == VdevWalk(vd, fv)
  IN Len(w) = nv /\ \A i \in 1 .. Len(w) : vd[w[i]].alloc

\* Mutant: the loop over the pdevs stops one short of the last pdev.
WriteDmSkipLast ==
  /\ phase \in {"write", "rwrite"}
  /\ disk' = IF wi < NumPdevs - 1 THEN [disk EXCEPT ![wi] = [gen |-> genCnt, info |-> MemInfo]]
             ELSE disk
  /\ IF wi = NumPdevs - 1
       THEN /\ lastDone' = MemInfo
            /\ phase' = IF phase = "rwrite" /\ ~WalkOk(vdevs, firstVdev, numVdevs)
                          THEN "down" ELSE "run"
            /\ wi' = wi
       ELSE /\ wi' = wi + 1 /\ UNCHANGED <<phase, lastDone>>
  /\ UNCHANGED <<memVars, genCnt, overrun, crashes, replaced, inflight>>

(* One iteration of write_info_blocks' loop: m_pdevs[i]->write_dm_chunk   *)
(* (m_gen_cnt, DM info).  After the last pdev the operation returns; at    *)
(* the end of load_and_repair_devices the vdev walk follows the rewrite.  *)
WriteDm ==
  /\ phase \in {"write", "rwrite"}
  /\ disk' = [disk EXCEPT ![wi] = [gen |-> genCnt, info |-> MemInfo]]
  /\ IF wi = NumPdevs - 1
       THEN /\ lastDone' = MemInfo
            /\ phase' = IF phase = "rwrite" /\ ~WalkOk(vdevs, firstVdev, numVdevs)
                          THEN "down" ELSE "run"
            /\ wi' = wi
       ELSE /\ wi' = wi + 1 /\ UNCHANGED <<phase, lastDone>>
  /\ UNCHANGED <<memVars, genCnt, overrun, crashes, replaced, inflight>>

(* The process stops at any point, also between two pdev writes.          *)
Crash ==
  /\ phase # "down" /\ ~overrun
  /\ crashes < MaxCrashes
  /\ phase' = "down"
  /\ crashes' = crashes + 1
  /\ UNCHANGED <<memVars, genCnt, wi, disk, overrun, replaced, lastDone, inflight>>

(* While down, a pdev is swapped for an unformatted one of the same size; *)
(* one formatted pdev remains (else load_and_repair throws               *)
(* no_valid_device_found).                                                 *)
Replace(p) ==
  /\ phase = "down" /\ ~overrun
  /\ replaced < MaxReplaced
  /\ disk[p] # Uninit
  /\ \E q \in Pdevs \ {p} : disk[q] # Uninit
  /\ disk' = [disk EXCEPT ![p] = Uninit]
  /\ replaced' = replaced + 1
  /\ UNCHANGED <<memVars, genCnt, phase, wi, overrun, crashes, lastDone, inflight>>

Formatted == {p \in Pdevs : disk[p] # Uninit}
MaxGenOnDisk == CHOOSE g \in {disk[p].gen : p \in Formatted} : \A q \in Formatted : disk[q].gen <= g
\* The first pdev scanned whose gen is above m_gen_cnt so far (strict <).
SourcePdev == CHOOSE p \in Formatted : disk[p].gen = MaxGenOnDisk
                                      /\ \A q \in Formatted : disk[q].gen = MaxGenOnDisk => p <= q

\* Mutant: no rewrite after recovery (as with input.is_read_only).
RecoverNoRewrite ==
  /\ phase = "down" /\ ~overrun
  /\ LET info == disk[SourcePdev].info
         w == VdevWalk(info.vdevs, info.first)
     IN /\ vdevs' = info.vdevs /\ firstVdev' = info.first /\ numVdevs' = info.num
        /\ chunks' = info.chunks /\ numChunks' = info.nchunks
        /\ lastVdev' = IF w = <<>> THEN Invalid ELSE w[Len(w)]
        /\ genCnt' = MaxGenOnDisk
        /\ phase' = "run"
        /\ UNCHANGED <<wi, inflight>>
  /\ UNCHANGED <<disk, overrun, crashes, replaced, lastDone>>

(* load_and_repair_devices with the disks' DM info: read_info_blocks of   *)
(* the pdev with the highest generation (m_gen_cnt becomes it); every pdev *)
(* id without a formatted disk gets a spare and the vdevs with a chunk    *)
(* there are marked failed; rewrite is TRUE (m_gen_cnt starts at 0), so   *)
(* write_info_blocks bumps the generation and rewrites every pdev; the     *)
(* vdev walk sets m_last_vdevid to the last vdev of the list.            *)
Recover ==
  /\ phase = "down" /\ ~overrun
  /\ LET info == disk[SourcePdev].info
         missing == Pdevs \ Formatted
         vd == [v \in VdevSlots |->
                 IF \E c \in ChunkSlots : /\ info.chunks[c].alloc
                                          /\ info.chunks[c].pdev \in missing
                                          /\ info.chunks[c].vdev = v
                   THEN [info.vdevs[v] EXCEPT !.failed = TRUE] ELSE info.vdevs[v]]
         w == VdevWalk(vd, info.first)
     IN /\ vdevs' = vd /\ firstVdev' = info.first /\ numVdevs' = info.num
        /\ chunks' = info.chunks /\ numChunks' = info.nchunks
        /\ lastVdev' = IF w = <<>> THEN Invalid ELSE w[Len(w)]
        /\ genCnt' = MaxGenOnDisk + 1
        /\ phase' = "rwrite"
        /\ wi' = 0
        /\ inflight' = Info(vd, info.first, info.num, info.chunks, info.nchunks)
  /\ UNCHANGED <<disk, overrun, crashes, replaced, lastDone>>


CONSTANT ReqSizes   \* chunk sizes requested of alloc_chunk

Next ==
  \/ AllocVdev
  \/ \E v \in VdevSlots : FreeVdev(v)
  \/ \E v \in VdevSlots, x \in 0 .. 1 : UpdateVbContext(v, x)
  \/ \E p \in Pdevs, v \in VdevSlots, req \in ReqSizes : AllocChunk(p, v, req)
  \/ \E c \in ChunkSlots : FreeChunk(c)
  \/ WriteDm
  \/ Crash
  \/ \E p \in Pdevs : Replace(p)
  \/ Recover

Spec == Init /\ [][Next]_vars

-----------------------------------------------------------------------------
DmTypeOK ==
  /\ vdevs \in [VdevSlots -> VdevInfo]
  /\ firstVdev \in VdevSlots \cup {Invalid} /\ lastVdev \in VdevSlots \cup {Invalid}
  /\ numVdevs \in 0 .. MaxVdevs
  /\ chunks \in [ChunkSlots -> ChunkInfo] /\ numChunks \in 0 .. MaxChunks
  /\ phase \in {"run", "write", "rwrite", "down"} /\ wi \in Pdevs
  /\ \A p \in Pdevs : disk[p] = Uninit \/ disk[p].gen \in 1 .. genCnt

(* The chunk table after every alloc_chunk / free_chunk: alloc_new_chunk_ *)
(* slot never indexes past m_chunk_info (a split with the table full);     *)
(* num_chunks counts the allocated slots; the chunks of each pdev tile it  *)
(* without overlap; no two free chunks are adjacent (merge_free_chunks     *)
(* coalesced them), so find_free_chunk sees every free extent whole.       *)
ChunkTableWellFormed ==
  /\ ~overrun
  /\ phase # "down" =>
    /\ numChunks = Cardinality({c \in ChunkSlots : chunks[c].alloc})
    /\ \A p \in Pdevs, u \in 0 .. PdevSize - 1 :
         Cardinality({c \in ChunkSlots : /\ chunks[c].alloc /\ chunks[c].pdev = p
                                         /\ chunks[c].start <= u
                                         /\ u < chunks[c].start + chunks[c].size}) = 1
    /\ \A c \in ChunkSlots : chunks[c].alloc /\ chunks[c].vdev = Invalid =>
         \A d \in NextOf(chunks, c) : chunks[d].vdev # Invalid

(* Whenever no operation or recovery is under way, every pdev holds the    *)
(* current DM info at the current m_gen_cnt: a replaced spare and a pdev  *)
(* a crash left behind were both rewritten by load_and_repair_devices.    *)
DiskInSync ==
  phase = "run" => \A p \in Pdevs : disk[p] = [gen |-> genCnt, info |-> MemInfo]

\* The DM info without the failed marks recovery adds.
Strip(i) == [i EXCEPT !.vdevs = [v \in VdevSlots |-> [i.vdevs[v] EXCEPT !.failed = FALSE]]]

(* Recovery after a crash at any point of write_info_blocks, and after    *)
(* pdevs were replaced, loads the DM info of the last write that finished *)
(* or of the one the crash interrupted, never an older one.               *)
RecoveredIsLastOrInflight ==
  [][phase = "down" /\ phase' = "rwrite" =>
       Strip(inflight') \in {Strip(lastDone), Strip(inflight)}]_vars

(* The vdev list from first_vdev_id that load_and_repair_devices walks    *)
(* holds exactly the allocated vdevs, num_vdevs of them: alloc_vdev links *)
(* a new vdev after m_last_vdevid.                                         *)
VdevListConsistent ==
  (phase # "down" /\ ~overrun) =>
    /\ WalkOk(vdevs, firstVdev, numVdevs)
    /\ \A v \in VdevSlots : vdevs[v].alloc =>
         \E i \in 1 .. Len(VdevWalk(vdevs, firstVdev)) : VdevWalk(vdevs, firstVdev)[i] = v

=============================================================================
