----------------------------- MODULE VdevBlockIo -----------------------------
(***************************************************************************)
(* Asynchronous I/O through a VirtualDev (src/src/engine/device/           *)
(* virtual_dev.hpp) and the error path it takes into the DeviceManager     *)
(* (device_manager.cpp).  Each request is a virtualdev_req the blkstore   *)
(* hands to one of the vdev's calls:                                       *)
(*   - write(BlkId, iov) and read(BlkId) issue one pdev I/O on the primary *)
(*     chunk (do_pwritev_internal, do_read_internal);                      *)
(*   - pwritev (append-log mode) sets outstanding_cb to 1 in               *)
(*     process_pwrite_offset and issues one pdev I/O;                      *)
(*   - readv issues an async readv on the primary chunk and then one on    *)
(*     each mirror chunk, into the same buffers (do_preadv_internal).      *)
(* Every issued pdev I/O holds a reference on the request (inc_ref) that  *)
(* its completion, virtual_dev_process_completions, adopts and drops; the *)
(* caller drops its own reference when its call returns.  A completion    *)
(* sets req->err on a failed I/O, calls DeviceManager::handle_error for   *)
(* the pdev of req->chunk when req->err is set, and calls                  *)
(* process_completions, which calls the owner's m_comp_cb when             *)
(* outstanding_cb reads 0.                                                 *)
(* The asserts of do_pwritev_internal and do_read_internal (async I/O      *)
(* with mirrors is not supported) are DEBUG only; requests keep to them.   *)
(* Synchronous calls (recovery only) and the byte counters are left out.   *)
(***************************************************************************)
EXTENDS Integers, FiniteSets

CONSTANTS
  Reqs,           \* the requests
  Kind,           \* [Reqs -> {"write", "read", "readv", "pwritev"}]
  VdevOf,         \* [Reqs -> Vdevs]
  Vdevs,          \* vdev ids (slots of m_vdev_info)
  LiveVdevs,      \* the allocated vdevs
  InvalidVdev,    \* INVALID_VDEV_ID
  Mirrors,        \* [Vdevs -> 0 .. 1]: get_nmirrors()
  Pdevs,
  ChunkTab,       \* m_chunk_info: [slot -> [alloc, pdev, vdev, prim]]
  MaxErrorCnt,    \* max_error_before_marking_dev_down
  OutstandingFix, \* TRUE: readv counts its mirror reads in outstanding_cb and
                  \* m_comp_cb is called by the completion whose fetch_sub
                  \* took it to 0; FALSE: as written
  ErrorCbFix,     \* TRUE: handle_error notifies each vdev with a chunk on the
                  \* pdev once, when the count reaches the limit; FALSE: as
                  \* written
  ErrorPdevFix    \* TRUE: a completion blames the pdev of the copy it is for,
                  \* and only when that I/O failed; FALSE: as written

ChunkSlots == DOMAIN ChunkTab
Copies == 0 .. 1          \* 0: the primary chunk, 1: the mirror chunk

ASSUME /\ \A r \in Reqs : Kind[r] # "readv" => Mirrors[VdevOf[r]] = 0
       /\ OutstandingFix \in BOOLEAN /\ ErrorCbFix \in BOOLEAN /\ ErrorPdevFix \in BOOLEAN

\* The pdev of copy k of vdev v: its primary chunk, or the mirror chunk.
CopyPdev(v, k) ==
  ChunkTab[CHOOSE c \in ChunkSlots : /\ ChunkTab[c].alloc /\ ChunkTab[c].vdev = v
                                     /\ ChunkTab[c].prim = (k = 0)].pdev

\* The pdev I/Os a request issues.
CopiesOf(r) == IF Kind[r] = "readv" THEN 0 .. Mirrors[VdevOf[r]] ELSE {0}

VARIABLES
  pc,       \* the issuing thread: idle, mirror (readv's mirror loop), ret, done
  ref,      \* the intrusive refcount
  ocb,      \* outstanding_cb
  io,       \* per copy: none, flight, cb (inside process_completions), gone
  zeroed,   \* the copies whose fetch_sub took outstanding_cb to 0
  err,      \* req->err is set
  comp,     \* m_comp_cb calls
  freed,    \* free_yourself ran
  errCnt,   \* PhysicalDev::m_error_cnt
  errCb,    \* m_vdev_error_cb calls, per pdev and vdev_id passed
  fails     \* history: the pdev I/Os on each pdev that completed with res != 0

vars == <<pc, ref, ocb, io, zeroed, err, comp, freed, errCnt, errCb, fails>>

Targets == Vdevs \cup {InvalidVdev}

Init ==
  /\ pc = [r \in Reqs |-> "idle"]
  /\ ref = [r \in Reqs |-> 1]
  /\ ocb = [r \in Reqs |-> 0]
  /\ io = [r \in Reqs |-> [k \in Copies |-> "none"]]
  /\ zeroed = [r \in Reqs |-> {}]
  /\ err = [r \in Reqs |-> FALSE]
  /\ comp = [r \in Reqs |-> 0]
  /\ freed = [r \in Reqs |-> FALSE]
  /\ errCnt = [p \in Pdevs |-> 0]
  /\ errCb = [p \in Pdevs |-> [t \in Targets |-> 0]]
  /\ fails = [p \in Pdevs |-> 0]

\* The intrusive_ptr's release: free_yourself when the count reaches 0.
Release(r) == /\ ref' = [ref EXCEPT ![r] = @ - 1]
              /\ freed' = [freed EXCEPT ![r] = (ref[r] = 1)]

\* Mutant: readv leaves outstanding_cb as it was (as written).
ReadvOutstandingAsWritten(r) == ocb[r]

(* outstanding_cb before the first pdev I/O: process_pwrite_offset stores *)
(* 1 for pwritev; with OutstandingFix readv stores one per copy; write    *)
(* and read leave it at 0.                                                 *)
ReadvOutstanding(r) ==
  IF OutstandingFix THEN 1 + Mirrors[VdevOf[r]] ELSE ReadvOutstandingAsWritten(r)

(* outstanding_cb when the call issues its first pdev I/O.               *)
OutstandingAtIssue(r) ==
  CASE Kind[r] = "pwritev" -> 1
    [] Kind[r] = "readv" -> ReadvOutstanding(r)
    [] OTHER -> ocb[r]

(* The async branch of do_read_internal, do_pwritev_internal and           *)
(* do_preadv_internal: req->inc_ref() and the pdev I/O of copy k with the  *)
(* request as its cookie.                                                  *)
PdevIo(r, k) ==
  /\ ref' = [ref EXCEPT ![r] = @ + 1]
  /\ io' = [io EXCEPT ![r][k] = "flight"]

(* write / read / readv / pwritev with a request: set req->cb, size and   *)
(* chunk (the primary chunk), inc_ref and issue the pdev I/O on the       *)
(* primary chunk.  readv goes on with its mirror loop.                     *)
Issue(r) ==
  /\ pc[r] = "idle"
  /\ ocb' = [ocb EXCEPT ![r] = OutstandingAtIssue(r)]
  /\ PdevIo(r, 0)
  /\ pc' = [pc EXCEPT ![r] = IF CopiesOf(r) = {0} THEN "ret" ELSE "mirror"]
  /\ UNCHANGED <<zeroed, err, comp, freed, errCnt, errCb, fails>>

(* do_preadv_internal's mirror loop: req->inc_ref() and an async readv of *)
(* the mirror chunk at the same chunk offset, into the same iovecs.       *)
IssueMirror(r) ==
  /\ pc[r] = "mirror"
  /\ PdevIo(r, 1)
  /\ pc' = [pc EXCEPT ![r] = "ret"]
  /\ UNCHANGED <<ocb, zeroed, err, comp, freed, errCnt, errCb, fails>>

(* The call returns (do_pwritev_internal, do_read_internal and           *)
(* do_preadv_internal take the request by value and give that copy back)  *)
(* and the caller drops its intrusive_ptr.                                 *)
Return(r) ==
  /\ pc[r] = "ret"
  /\ pc' = [pc EXCEPT ![r] = "done"]
  /\ Release(r)
  /\ UNCHANGED <<ocb, io, zeroed, err, comp, errCnt, errCb, fails>>

\* As written (ErrorCbFix = FALSE): every chunk slot on the pdev, on every error past
\* the limit.
HandleErrorAsWritten(p) ==
  LET cnt == errCnt[p] + 1
      hit == {c \in ChunkSlots : ChunkTab[c].pdev = p}
  IN /\ errCnt' = [errCnt EXCEPT ![p] = cnt]
     /\ errCb' = IF cnt < MaxErrorCnt THEN errCb
                 ELSE [errCb EXCEPT ![p] = [t \in Targets |->
                         @[t] + Cardinality({c \in hit : ChunkTab[c].vdev = t})]]

(* DeviceManager::handle_error(pdev): cnt = inc_error_cnt(); below        *)
(* max_error_before_marking_dev_down return; else m_vdev_error_cb(        *)
(* &m_vdev_info[vdev_id]) for every slot of m_chunk_info whose pdev_id is *)
(* the pdev, allocated or not, hosting a vdev or free (INVALID_VDEV_ID).  *)
(* With ErrorCbFix: once, at the limit, for each allocated vdev hosted.   *)
HandleError(p) ==
  IF ErrorCbFix
    THEN LET cnt == errCnt[p] + 1
             hosted == {ChunkTab[c].vdev : c \in {d \in ChunkSlots :
                          ChunkTab[d].alloc /\ ChunkTab[d].pdev = p /\ ChunkTab[d].vdev # InvalidVdev}}
         IN /\ errCnt' = [errCnt EXCEPT ![p] = cnt]
            /\ errCb' = IF cnt # MaxErrorCnt THEN errCb
                        ELSE [errCb EXCEPT ![p] = [t \in Targets |-> @[t] + (IF t \in hosted THEN 1 ELSE 0)]]
    ELSE HandleErrorAsWritten(p)

\* Mutant: as written, the pdev of req->chunk (the primary chunk) whenever
\* req->err is set, by this I/O or by an earlier copy's.
ErrorPdevsAsWritten(r, k, fail) ==
  IF err[r] \/ fail THEN {CopyPdev(VdevOf[r], 0)} ELSE {}

(* The pdev virtual_dev_process_completions passes to handle_error for    *)
(* the completion of copy k, as a set of at most one.                     *)
ErrorPdevs(r, k, fail) ==
  IF ErrorPdevFix THEN IF fail THEN {CopyPdev(VdevOf[r], k)} ELSE {}
                  ELSE ErrorPdevsAsWritten(r, k, fail)

(* virtual_dev_process_completions(res, cookie) for copy k: the request's *)
(* err is set by a failed I/O (when not set yet); handle_error on the     *)
(* pdev ErrorPdevs names; then req->cb, process_completions: when          *)
(* outstanding_cb.load() > 0, fetch_sub(1).                                *)
DeviceDone(r, k, fail) ==
  /\ io[r][k] = "flight"
  /\ err' = [err EXCEPT ![r] = @ \/ fail]
  /\ IF ErrorPdevs(r, k, fail) = {} THEN UNCHANGED <<errCnt, errCb>>
     ELSE HandleError(CHOOSE p \in ErrorPdevs(r, k, fail) : TRUE)
  /\ fails' = IF fail THEN [fails EXCEPT ![CopyPdev(VdevOf[r], k)] = @ + 1] ELSE fails
  /\ ocb' = [ocb EXCEPT ![r] = IF @ > 0 THEN @ - 1 ELSE @]
  /\ zeroed' = [zeroed EXCEPT ![r] = IF ocb[r] <= 1 THEN @ \cup {k} ELSE @]
  /\ io' = [io EXCEPT ![r][k] = "cb"]
  /\ UNCHANGED <<pc, ref, comp, freed>>

\* Mutant: the separate load of outstanding_cb decides (as written).
CompCbDueAsWritten(r, k) == ocb[r] = 0

(* process_completions' test for m_comp_cb: outstanding_cb.load() == 0,   *)
(* a load of its own after the fetch_sub; with OutstandingFix, whether    *)
(* this completion's fetch_sub reached 0 (or found it 0).                 *)
CompCbDue(r, k) == IF OutstandingFix THEN k \in zeroed[r] ELSE CompCbDueAsWritten(r, k)

(* The rest of process_completions: m_comp_cb(req) when due; then the     *)
(* completion's intrusive_ptr is dropped.                                  *)
CompCheck(r, k) ==
  /\ io[r][k] = "cb"
  /\ comp' = [comp EXCEPT ![r] = IF CompCbDue(r, k) THEN @ + 1 ELSE @]
  /\ io' = [io EXCEPT ![r][k] = "gone"]
  /\ Release(r)
  /\ UNCHANGED <<pc, ocb, zeroed, err, errCnt, errCb, fails>>

Next ==
  \E r \in Reqs :
    \/ Issue(r) \/ IssueMirror(r) \/ Return(r)
    \/ \E k \in Copies : CompCheck(r, k) \/ \E fail \in BOOLEAN : DeviceDone(r, k, fail)

Spec == Init /\ [][Next]_vars

-----------------------------------------------------------------------------
(* The owner's completion, m_comp_cb, runs once per request and only      *)
(* after every pdev I/O the request issues has completed, so nothing      *)
(* writes into the request's buffers after it was completed; and the      *)
(* request is freed only after its caller returned and its last           *)
(* completion let go of it.  At stake: readv's mirror reads into the same *)
(* buffers, outstanding_cb's load after its fetch_sub, and the inc_ref    *)
(* each pdev I/O takes.                                                    *)
CompletionAfterLastIo ==
  \A r \in Reqs :
    /\ comp[r] <= 1
    /\ comp[r] = 1 => pc[r] # "mirror" /\ \A k \in CopiesOf(r) : io[r][k] # "flight"
    /\ freed[r] => pc[r] = "done" /\ \A k \in CopiesOf(r) : io[r][k] = "gone"

(* PhysicalDev::m_error_cnt, which handle_error compares with             *)
(* max_error_before_marking_dev_down to mark the device down, counts the  *)
(* failed I/Os of that pdev: every completion with res != 0 on it, and    *)
(* nothing else.  At stake: req->err is sticky across a readv's copies    *)
(* and the pdev is taken from req->chunk, the primary chunk.               *)
ErrorCountMatchesFailures ==
  \A p \in Pdevs : errCnt[p] = fails[p]

(* handle_error's comment: when the error count reaches the limit, the    *)
(* vdevs are notified once.  Every m_vdev_error_cb call is for an          *)
(* allocated vdev with a chunk on the failing pdev, and each such vdev is *)
(* notified at most once per pdev.                                         *)
VdevErrorCbValid ==
  \A p \in Pdevs, t \in Targets :
    errCb[p][t] > 0 =>
      /\ errCb[p][t] = 1
      /\ t \in LiveVdevs
      /\ \E c \in ChunkSlots : ChunkTab[c].alloc /\ ChunkTab[c].pdev = p /\ ChunkTab[c].vdev = t

=============================================================================
