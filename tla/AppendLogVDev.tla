---------------------------- MODULE AppendLogVDev ----------------------------
(***************************************************************************)
(* The append-log mode of VirtualDev (src/src/engine/device/              *)
(* virtual_dev.hpp) driven by LogDev::append_write (src/src/logdev/       *)
(* log_dev.cpp).  The vdev's primary chunks form a logical ring of        *)
(* NumChunks * ChunkSize units, chunks in the order of                     *)
(* m_primary_pdev_chunks_list (logical_to_dev_offset, get_next_chunk).    *)
(*   - the log writer appends a record: LogDev chains the header to       *)
(*     m_last_crc, the blkstore reserves space with alloc_next_append_blk *)
(*     (skipping the tail of a chunk the record does not fit in) and     *)
(*     issues pwritev on it; the write completes later;                    *)
(*   - a truncating thread calls truncate(offset) with the start of a     *)
(*     record all of whose predecessors are durable; the comment above    *)
(*     truncate allows it to run concurrently with writes;               *)
(*   - the process may crash; on restart the log store's scan hands the   *)
(*     tail of the durable records to update_tail_offset.                 *)
(* m_reserved_sz is raised by alloc_next_append_blk and lowered by the     *)
(* pwritev that follows it on the same thread, so other threads always    *)
(* see it at 0 and it is folded into the append step.                     *)
(***************************************************************************)
EXTENDS Integers, Sequences, FiniteSets

CONSTANTS
  NumChunks,    \* m_num_chunks (primary chunks)
  ChunkSize,    \* m_chunk_size, in units
  Sizes,        \* record sizes (header and data) the log writer appends
  MaxRecs,      \* bound on the records appended (a state constraint)
  MaxCrashes,   \* bound on crashes
  TruncAtomic,  \* TRUE: no append runs inside a truncate (a lock around
                \* both); FALSE: the code as written
  FullTailFix,  \* TRUE: update_tail_offset takes a tail equal to the start
                \* with records found as a full ring; FALSE: as written
  CrcFix        \* TRUE: m_last_crc moves to a record's crc only once the
                \* blkstore accepted the record; FALSE: as written

ASSUME Sizes \subseteq 1 .. ChunkSize

Size == NumChunks * ChunkSize          \* get_size()
Chunks == 0 .. NumChunks - 1
Units == 0 .. Size - 1
HighWatermarkPer == 80                 \* vdev_high_watermark_per
InvalidCrc == 0                        \* INVALID_CRC32_VALUE

VARIABLES
  ds,         \* m_vb->data_start_offset (persisted through the DM)
  wsz,        \* m_write_sz_in_total
  eoc,        \* end_of_chunk offset of each chunk (persisted through the DM)
  truncDone,  \* m_truncate_done
  lastCrc,    \* LogDev::m_last_crc; the crc of record i is i
  nextId,     \* the next record to append
  log,        \* the records between the data start and the tail
  tr,         \* the truncating thread: idle, or between its two steps
  up, crashes,
  halted      \* a RELEASE assert failed

vars == <<ds, wsz, eoc, truncDone, lastCrc, nextId, log, tr, up, crashes, halted>>

(* A record of the log: its id (its crc), the crc its header chains to,   *)
(* where the tail was when it was reserved (pad), its offset and size,   *)
(* and whether its write completed.                                       *)
Rec == [id : 1 .. MaxRecs + 1, prev : 0 .. MaxRecs + 1, pad : Units, off : Units,
        size : Sizes, dur : BOOLEAN]

Dist(a, b) == (b - a + Size) % Size
End(r) == (r.off + r.size) % Size
\* The units a record takes: the skipped tail of a chunk, then its data.
Extent(r) == {(r.pad + i) % Size : i \in 0 .. Dist(r.pad, r.off) + r.size - 1}

RECURSIVE ExtentTotal(_)
ExtentTotal(s) == IF s = <<>> THEN 0
                  ELSE Cardinality(Extent(Head(s))) + ExtentTotal(Tail(s))

\* get_tail_offset(): data start plus the bytes written, wrapped once.
TailOffset == IF ds + wsz >= Size THEN ds + wsz - Size ELSE ds + wsz

ChunkOf(off) == off \div ChunkSize
OffInChunk(off) == off % ChunkSize

-----------------------------------------------------------------------------
(* A fresh vdev: init() zeroes the counters, the constructor sets every   *)
(* chunk's end_of_chunk to m_chunk_size; LogDev starts with an invalid    *)
(* crc.                                                                    *)
Init ==
  /\ ds = 0 /\ wsz = 0
  /\ eoc = [c \in Chunks |-> ChunkSize]
  /\ truncDone = TRUE
  /\ lastCrc = InvalidCrc /\ nextId = 1
  /\ log = <<>>
  /\ tr = [st |-> "idle", off |-> 0]
  /\ up = TRUE /\ crashes = 0 /\ halted = FALSE

Running == up /\ ~halted

(* high_watermark_check after a reservation: the callback is sent, and    *)
(* m_truncate_done cleared, once the used share reaches the watermark.   *)
HighWatermarkCheck(used) ==
  truncDone' = IF (100 * used) \div Size >= HighWatermarkPer THEN FALSE ELSE truncDone

(* The tail after a reservation that skips pad units: get_tail_offset()   *)
(* recomputed once m_write_sz_in_total holds the skipped chunk tail.      *)
TailAfter(pad) == IF ds + wsz + pad >= Size THEN ds + wsz + pad - Size ELSE ds + wsz + pad

(* logical_to_dev_offset: an offset at or past get_size() matches no      *)
(* chunk and leaves chunk and offset at 0 (only a DEBUG assert).          *)
DevOffset(off) == IF off < Size THEN [c |-> ChunkOf(off), o |-> OffInChunk(off)]
                  ELSE [c |-> 0, o |-> 0]

(* VirtualDev::read(count) at m_seek_cursor = cur: the read is cut at the  *)
(* chunk's end_of_chunk, pread reads it at the chunk offset, and the      *)
(* cursor moves past what was read and, when cut, past the chunk's tail;  *)
(* ok is the RELEASE assert that the cursor is not beyond end_of_chunk.   *)
VdevRead(cur, count) ==
  LET d == DevOffset(cur)
      e == eoc[d.c]
      across == count > e - d.o
      n == IF across THEN e - d.o ELSE count
  IN [ok |-> d.o <= e, at |-> d.c * ChunkSize + d.o, n |-> n,
      cur |-> cur + n + (IF across THEN ChunkSize - e ELSE 0)]

(* The log store's scan (its reader is not part of this repository): from *)
(* cursor cur, read record k on; zero-byte reads are retried, at most     *)
(* fuel times in a row.  A failed assert ends the scan with at = -1.      *)
RECURSIVE ScanFrom(_, _, _)
ScanFrom(cur, k, fuel) ==
  IF k > Len(log) \/ fuel = 0 THEN <<>>
  ELSE LET r == VdevRead(cur, log[k].size)
       IN IF ~r.ok THEN <<[at |-> -1, n |-> 0]>>
          ELSE IF r.n = 0 THEN ScanFrom(r.cur, k, fuel - 1)
          ELSE <<[at |-> r.at, n |-> r.n]>> \o ScanFrom(r.cur, k + 1, NumChunks)

(* get_next_chunk: the next primary chunk, the first after the last.     *)
NextChunk(c) == (c + 1) % NumChunks

\* Mutant: an append may run between truncate's two steps (as written).
AppendMayRunAsWritten == Running

(* When the log writer's append may run: truncate's comment allows it     *)
(* concurrently with writes; with TruncAtomic a lock keeps it out of a    *)
(* truncate half done.                                                     *)
AppendMayRun == Running /\ (TruncAtomic => tr.st = "idle")

(* pwritev at off, the offset alloc_next_append_blk returned: it gives the *)
(* reservation back and process_pwrite_offset adds the length to          *)
(* m_write_sz_in_total after a RELEASE assert that the write stays in its  *)
(* chunk.                                                                  *)
PwritevAt(w, off, size) == /\ wsz' = w + size
                           /\ halted' = (OffInChunk(off) + size > ChunkSize)

(* update_data_start_offset: the new start, persisted through the DM.     *)
UpdateDataStartOffset(off) == ds' = off

(* LogDev::append_write's header: get_crc_and_len's crc of the buffers    *)
(* (a record's crc is its id) and m_prev_crc = m_last_crc.                *)
LogDevHdr == [id |-> nextId, prev |-> lastCrc]

(* LogDev::append_write sets m_last_crc to the new header's crc before    *)
(* the blkstore append, whether or not that append succeeds.             *)
LogDevAdvanceCrc == /\ lastCrc' = nextId
                    /\ nextId' = nextId + 1

\* Mutant: the code as written whatever CrcFix says.
AppendFailedAsWritten == LogDevAdvanceCrc

(* An append the blkstore refuses (append_write returns false): as written *)
(* m_last_crc already holds the refused record's crc.                     *)
AppendFailed == IF CrcFix THEN UNCHANGED <<lastCrc, nextId>> ELSE LogDevAdvanceCrc

\* Mutant: the skipped tail of the chunk is not added to m_write_sz_in_total.
AppendNoPadCount(size) ==
  /\ AppendMayRun
  /\ LET tail == TailOffset
         c == ChunkOf(tail)
         oic == OffInChunk(tail)
         inChunk == oic + size <= ChunkSize
         pad == IF inChunk THEN 0 ELSE ChunkSize - oic
         ok == /\ wsz + size <= Size
               /\ inChunk \/ wsz + pad + size <= Size
     IN IF ok
             THEN /\ LogDevAdvanceCrc
                  /\ PwritevAt(wsz, TailAfter(pad), size)
                  /\ eoc' = IF inChunk THEN eoc
                            ELSE [eoc EXCEPT ![c] = oic, ![NextChunk(c)] = ChunkSize]
                  /\ HighWatermarkCheck(wsz + pad + size)
                  /\ log' = Append(log, [id |-> LogDevHdr.id, prev |-> LogDevHdr.prev, pad |-> tail,
                                         off |-> TailAfter(pad), size |-> size, dur |-> FALSE])
             ELSE /\ AppendFailed
                  /\ UNCHANGED <<wsz, eoc, truncDone, log, halted>>
  /\ UNCHANGED <<ds, tr, up, crashes>>

\* Mutant: a record that skips a chunk tail is checked without the tail.
AppendNoPadCheck(size) ==
  /\ AppendMayRun
  /\ LET tail == TailOffset
         c == ChunkOf(tail)
         oic == OffInChunk(tail)
         inChunk == oic + size <= ChunkSize
         pad == IF inChunk THEN 0 ELSE ChunkSize - oic
         ok == wsz + size <= Size
     IN IF ok
             THEN /\ LogDevAdvanceCrc
                  /\ PwritevAt(wsz + pad, TailAfter(pad), size)
                  /\ eoc' = IF inChunk THEN eoc
                            ELSE [eoc EXCEPT ![c] = oic, ![NextChunk(c)] = ChunkSize]
                  /\ HighWatermarkCheck(wsz + pad + size)
                  /\ log' = Append(log, [id |-> LogDevHdr.id, prev |-> LogDevHdr.prev, pad |-> tail,
                                         off |-> TailAfter(pad), size |-> size, dur |-> FALSE])
             ELSE /\ AppendFailed
                  /\ UNCHANGED <<wsz, eoc, truncDone, log, halted>>
  /\ UNCHANGED <<ds, tr, up, crashes>>

(* LogDev::append_write of a record of size units, with the blkstore's    *)
(* append_write under it:                                                  *)
(*  - the header's m_prev_crc is m_last_crc, and m_last_crc becomes the    *)
(*    record's crc before the append is tried;                             *)
(*  - alloc_next_append_blk: no space (used + size > size) fails; a record *)
(*    that fits in the tail's chunk is placed at the tail; otherwise, if   *)
(*    space allows, the rest of the chunk is added to m_write_sz_in_total, *)
(*    update_end_of_chunk records where the chunk's data ends and resets   *)
(*    the next chunk's end to m_chunk_size, and the record goes at the     *)
(*    next chunk's start; else it fails; m_reserved_sz += size and         *)
(*    high_watermark_check;                                                *)
(*  - pwritev: m_reserved_sz -= size and, in process_pwrite_offset,        *)
(*    m_write_sz_in_total += size; the write is issued.                   *)
AppendWrite(size) ==
  /\ AppendMayRun
  /\ LET tail == TailOffset
         c == ChunkOf(tail)
         oic == OffInChunk(tail)
         inChunk == oic + size <= ChunkSize
         pad == IF inChunk THEN 0 ELSE ChunkSize - oic
         ok == /\ wsz + size <= Size
               /\ inChunk \/ wsz + pad + size <= Size
     IN IF ok
             THEN /\ LogDevAdvanceCrc
                  /\ PwritevAt(wsz + pad, TailAfter(pad), size)
                  /\ eoc' = IF inChunk THEN eoc
                            ELSE [eoc EXCEPT ![c] = oic, ![NextChunk(c)] = ChunkSize]
                  /\ HighWatermarkCheck(wsz + pad + size)
                  /\ log' = Append(log, [id |-> LogDevHdr.id, prev |-> LogDevHdr.prev, pad |-> tail,
                                         off |-> TailAfter(pad), size |-> size, dur |-> FALSE])
             ELSE /\ AppendFailed
                  /\ UNCHANGED <<wsz, eoc, truncDone, log, halted>>
  /\ UNCHANGED <<ds, tr, up, crashes>>

(* The pwritev of record i completes (process_completions).              *)
WriteDone(i) ==
  /\ Running
  /\ ~log[i].dur
  /\ log' = [log EXCEPT ![i].dur = TRUE]
  /\ UNCHANGED <<ds, wsz, eoc, truncDone, lastCrc, nextId, tr, up, crashes, halted>>

\* The truncation point for keeping records k.. of the log (k = Len + 1:
\* none), the records before k being durable.
TruncTarget(k) == IF k <= Len(log) THEN log[k].off ELSE End(log[Len(log)])
TruncOk(k) == /\ log # <<>> /\ k \in 1 .. Len(log) + 1
              /\ \A j \in 1 .. k - 1 : log[j].dur

\* The records kept, the first starting at the truncation point.
Kept(k) == LET s == SubSeq(log, k, Len(log))
           IN IF s = <<>> THEN s ELSE [s EXCEPT ![1].pad = s[1].off]

\* Mutant: a truncation point below the data start is not wrapped.
TruncBeginNoWrap(k) ==
  /\ Running /\ tr.st = "idle" /\ TruncOk(k)
  /\ LET o == TruncTarget(k)
         t == o - ds
     IN /\ wsz' = wsz - t
        /\ log' = Kept(k)
        /\ tr' = [st |-> "mid", off |-> o]
        /\ UNCHANGED <<ds, truncDone>>
        /\ UNCHANGED halted
  /\ UNCHANGED <<eoc, lastCrc, nextId, up, crashes>>

(* truncate(offset), first part: read data_start_offset; the size to       *)
(* truncate is offset - start, or size - (start - offset) when the offset  *)
(* lies below the start (loop-back, with two RELEASE asserts); then        *)
(* m_write_sz_in_total.fetch_sub.  Second part (TruncEnd):                 *)
(* update_data_start_offset(offset) and m_truncate_done = true.            *)
TruncBegin(k) ==
  /\ Running /\ tr.st = "idle" /\ TruncOk(k)
  /\ LET o == TruncTarget(k)
         loop == o < ds
         t == IF loop THEN Size - (ds - o) ELSE o - ds
     IN IF loop /\ (wsz < t \/ TailOffset < o)
          THEN /\ halted' = TRUE
               /\ UNCHANGED <<ds, wsz, truncDone, log, tr>>
          ELSE /\ wsz' = wsz - t
               /\ log' = Kept(k)
               /\ tr' = [st |-> "mid", off |-> o]
               /\ UNCHANGED <<ds, truncDone>>
               /\ UNCHANGED halted
  /\ UNCHANGED <<eoc, lastCrc, nextId, up, crashes>>

TruncEnd ==
  /\ Running /\ tr.st = "mid"
  /\ UpdateDataStartOffset(tr.off)
  /\ truncDone' = TRUE
  /\ tr' = [st |-> "idle", off |-> 0]
  /\ UNCHANGED <<wsz, eoc, lastCrc, nextId, log, up, crashes, halted>>


(* The process stops; writes not completed are lost.                      *)
Crash ==
  /\ Running /\ tr.st = "idle"
  /\ crashes < MaxCrashes
  /\ up' = FALSE
  /\ crashes' = crashes + 1
  /\ UNCHANGED <<ds, wsz, eoc, truncDone, lastCrc, nextId, log, tr, halted>>

\* The records from the data start up to the first write that did not complete.
DurablePrefix ==
  LET n == CHOOSE k \in 0 .. Len(log) :
             /\ \A j \in 1 .. k : log[j].dur
             /\ k < Len(log) => ~log[k + 1].dur
  IN SubSeq(log, 1, n)

\* Mutant: update_tail_offset without the wrapped case.
RestartNoWrap ==
  /\ ~up
  /\ LET p == DurablePrefix
         tail == IF p = <<>> THEN ds ELSE End(p[Len(p)])
     IN /\ log' = p
        /\ wsz' = tail - ds
  /\ up' = TRUE
  /\ lastCrc' = InvalidCrc
  /\ truncDone' = TRUE
  /\ UNCHANGED <<ds, eoc, nextId, tr, crashes, halted>>

(* Mutant: update_tail_offset as written, a tail equal to the start is an *)
(* empty log.                                                              *)
RestartAsWritten ==
  /\ ~up
  /\ LET p == DurablePrefix
         tail == IF p = <<>> THEN ds ELSE End(p[Len(p)])
     IN /\ log' = p
        /\ wsz' = IF tail >= ds THEN tail - ds ELSE Size - ds + tail
  /\ up' = TRUE
  /\ lastCrc' = InvalidCrc
  /\ truncDone' = TRUE
  /\ UNCHANGED <<ds, eoc, nextId, tr, crashes, halted>>

(* Restart: a new VirtualDev (init() zeroes the counters) over the        *)
(* persisted data start and chunk ends, a new LogDev (m_last_crc         *)
(* invalid); the log store's scan finds the durable records from the data *)
(* start and calls update_tail_offset(tail): m_write_sz_in_total is tail - *)
(* start, or size - start + tail when the tail wrapped below the start.   *)
Restart ==
  /\ ~up
  /\ LET p == DurablePrefix
         tail == IF p = <<>> THEN ds ELSE End(p[Len(p)])
     IN /\ log' = p
        /\ wsz' = IF FullTailFix /\ p # <<>> /\ tail = ds THEN Size
                  ELSE IF tail >= ds THEN tail - ds ELSE Size - ds + tail
  /\ up' = TRUE
  /\ lastCrc' = InvalidCrc
  /\ truncDone' = TRUE
  /\ UNCHANGED <<ds, eoc, nextId, tr, crashes, halted>>

Next ==
  \/ \E size \in Sizes : AppendWrite(size)
  \/ \E i \in 1 .. Len(log) : WriteDone(i)
  \/ \E k \in 1 .. Len(log) + 1 : TruncBegin(k)
  \/ TruncEnd
  \/ Crash
  \/ Restart

Spec == Init /\ [][Next]_vars

-----------------------------------------------------------------------------
AlvTypeOK ==
  /\ ds \in Units /\ wsz \in 0 .. Size
  /\ eoc \in [Chunks -> 0 .. ChunkSize]
  /\ truncDone \in BOOLEAN /\ lastCrc \in 0 .. MaxRecs + 1
  /\ log \in Seq(Rec) /\ Len(log) <= Size
  /\ tr \in [st : {"idle", "mid"}, off : Units]

(* While the process is up and no truncate is half done, the records lie  *)
(* back to back from data_start_offset (each after the chunk tail it      *)
(* skipped) and get_tail_offset() is the end of the last one: the counter *)
(* m_write_sz_in_total, raised by alloc_next_append_blk's skipped tails    *)
(* and pwritev and lowered by truncate, with its wrap-around, and         *)
(* rebuilt by update_tail_offset after a restart, tracks the log.         *)
LogContiguous ==
  (up /\ ~halted /\ tr.st = "idle") =>
    IF log = <<>> THEN TailOffset = ds
    ELSE /\ log[1].pad = ds
         /\ \A i \in 1 .. Len(log) - 1 : log[i + 1].pad = End(log[i])
         /\ TailOffset = End(log[Len(log)])

(* Each record's header chains to the record before it in the log:      *)
(* m_prev_crc is that record's crc, or INVALID_CRC for the first record   *)
(* appended after a restart (the LogDev constructor's m_last_crc).  A     *)
(* journal scan drops a record whose chain does not match and everything *)
(* after it, so a link to a record that was never written loses the rest *)
(* of the log.                                                             *)
LogChained ==
  \A i \in 1 .. Len(log) - 1 : log[i + 1].prev \in {log[i].id, InvalidCrc}

(* alloc_next_append_blk never hands out space holding a record that was  *)
(* not truncated: the records' extents in the ring are disjoint.          *)
NoOverwrite ==
  \A i, j \in 1 .. Len(log) : i # j => Extent(log[i]) \cap Extent(log[j]) = {}

(* The log store's recovery scan reads the log through the vdev's cursor:   *)
(* lseek(data_start_offset), then one read() per record; a read that       *)
(* returns 0 bytes has hit an end of chunk and moved the cursor to the     *)
(* next chunk, and is repeated.  Whatever the chunk ends and the ring's    *)
(* wrap, it returns each record whole, at its offset, in log order.        *)
ScanReadsLog ==
  (up /\ ~halted /\ tr.st = "idle") =>
    ScanFrom(ds, 1, NumChunks) = [k \in 1 .. Len(log) |-> [at |-> log[k].off, n |-> log[k].size]]

=============================================================================
