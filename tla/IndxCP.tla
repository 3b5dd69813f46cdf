------------------------------- MODULE IndxCP -------------------------------
(***************************************************************************)
(* The homeblks checkpoint of src/src/homeblks/volume/indx_mgr.cpp: class  *)
(* IndxCP (a CheckPoint<homeblks_cp_id>) and the static IndxMgr parts that  *)
(* drive it.  It extends the epoch barrier of CheckPoint with the fields   *)
(* of homeblks_cp_id that decide the blkalloc checkpoint and its callbacks:*)
(*   - trigger_homeblks_cp enters the current epoch, checks                *)
(*     m_shutdown_started, sets try_blkalloc_checkpoint, pushes its        *)
(*     callback on cb_list and flags the epoch with trigger_cp(id);       *)
(*   - trigger_cp's cp_attach_prepare turns try_blkalloc_checkpoint of the *)
(*     closing epoch into blkalloc_checkpoint;                             *)
(*   - cp_start posts to the indx_mgr thread, which starts the btree cp of *)
(*     every volume; indx_tbl_cp_done runs on each completion and, for the *)
(*     last one (ref_cnt), takes the blkalloc checkpoint and calls cb_list,*)
(*     or re-triggers a homeblks cp when the blkalloc checkpoint was asked *)
(*     for too late; then it calls cp_end.                                 *)
(* Btree cp completions run on BtThread.  Every volume is in active_cp.    *)
(* I/O does not touch these fields and is left to CheckPoint's model.     *)
(***************************************************************************)
EXTENDS CheckPoint

CONSTANTS
  BtThread,   \* the thread btree cp completions call indx_tbl_cp_done on
  Vols,       \* volumes whose btree cp a checkpoint starts
  Callbacks,  \* cp_done_cb arguments of trigger_homeblks_cp (each used once)
  ShutCb,     \* the callback of IndxMgr::shutdown (trigger with shutdown = true)
  NoCb,       \* a null callback
  IoThreads   \* callers on the I/O path, whose mapping calls trigger_vol_cp

ASSUME BtThread \in Threads /\ NoCb \notin Callbacks /\ IoThreads \subseteq Threads

\* Threads calling trigger_homeblks_cp: the timer of IndxMgr::init, init
\* (trigger_cp_init) and shutdown.
Callers == Threads \ ({BtThread} \cup IoThreads)

VARIABLES
  tryBlk,     \* homeblks_cp_id::try_blkalloc_checkpoint
  blkCp,      \* homeblks_cp_id::blkalloc_checkpoint
  cbs,        \* homeblks_cp_id::cb_list
  refCnt,     \* homeblks_cp_id::ref_cnt
  btPending,  \* volumes whose btree cp_start has not called back yet
  doneCnt,    \* times indx_tbl_cp_done saw ref_cnt reach 0 for the epoch
  shutStarted,\* IndxMgr::m_shutdown_started
  issued,     \* callbacks handed to trigger_homeblks_cp so far
  called,     \* callbacks called so far
  blkReq,     \* a blkalloc checkpoint was asked for and not yet taken
  rcb,        \* the callback of the running trigger_homeblks_cp
  fid,        \* the epoch a flush step works on
  todo        \* volumes cp_start's loop has not reached yet

ixVars == <<tryBlk, blkCp, cbs, refCnt, btPending, doneCnt, shutStarted, issued,
            called, blkReq, rcb, fid, todo>>
allVars == <<vars, ixVars>>

-----------------------------------------------------------------------------
(* IndxCP(): the constructor's cp_attach_prepare(nullptr, cur) gives the   *)
(* first epoch a fresh blkalloc id and clear flags.                        *)
IxInit ==
  /\ Init
  /\ tryBlk = [i \in CpIds |-> FALSE]
  /\ blkCp = [i \in CpIds |-> FALSE]
  /\ cbs = [i \in CpIds |-> {}]
  /\ refCnt = [i \in CpIds |-> 0]
  /\ btPending = [i \in CpIds |-> {}]
  /\ doneCnt = [i \in CpIds |-> 0]
  /\ shutStarted = FALSE
  /\ issued = {}
  /\ called = {}
  /\ blkReq = FALSE
  /\ rcb = [t \in Procs |-> NoCb]
  /\ fid = [t \in Procs |-> NoId]
  /\ todo = [t \in Procs |-> {}]

(* cp_attach_prepare(prev, new), inside trigger_cp's TriggerPublish step:  *)
(* if prev->try_blkalloc_checkpoint, prev->blkalloc_checkpoint = true; the *)
(* new homeblks_cp_id starts with clear fields.                            *)
AttachPrepare(t) ==
  LET p == prev[t]
      n == cur'
  IN /\ blkCp' = [blkCp EXCEPT ![p] = @ \/ tryBlk[p], ![n] = FALSE]
     /\ tryBlk' = [tryBlk EXCEPT ![n] = FALSE]
     /\ cbs' = [cbs EXCEPT ![n] = {}]
     /\ refCnt' = [refCnt EXCEPT ![n] = 0]
     /\ btPending' = [btPending EXCEPT ![n] = {}]
     /\ doneCnt' = [doneCnt EXCEPT ![n] = 0]
     /\ UNCHANGED <<shutStarted, issued, called, blkReq, rcb, fid, todo>>

-----------------------------------------------------------------------------
(* trigger_homeblks_cp(cb, shutdown): cp_id = cp_io_enter(); ...; called  *)
(* so that it returns to label ret.                                         *)
StartHbRequest(t, cb, ret) ==
  /\ StartRequest(t, ret)
  /\ rcb' = [rcb EXCEPT ![t] = cb]
  /\ issued' = issued \cup ({cb} \ {NoCb})
  /\ UNCHANGED <<tryBlk, blkCp, cbs, refCnt, btPending, doneCnt, shutStarted,
                 called, blkReq, fid, todo>>

(* The timer of IndxMgr::init and do_volume_shutdown call it without a    *)
(* callback; trigger_cp_init and IndxMgr::shutdown with one.              *)
BeginHbRequest(t) ==
  /\ t \in Callers /\ pc[t] = "idle"
  /\ \E cb \in (Callbacks \ issued) \cup {NoCb} : StartHbRequest(t, cb, "idle")

(* ... if (!m_shutdown_started.compare_exchange_strong(false, shutdown))  *)
(* { if (cb) cb(false); cp_io_exit(cp_id); return; }                       *)
RequestCasFail(t) ==
  /\ pc[t] = "req_flag"
  /\ shutStarted
  /\ called' = called \cup ({rcb[t]} \ {NoCb})
  /\ xid' = [xid EXCEPT ![t] = ptr[t]]
  /\ Goto(t, "ex_dec")
  /\ UNCHANGED <<cpVars, op, ptr, own, prev, cnt, grace>>
  /\ UNCHANGED <<tryBlk, blkCp, cbs, refCnt, btPending, doneCnt, shutStarted,
                 issued, blkReq, rcb, fid, todo>>

(* ... cp_id->try_blkalloc_checkpoint = true; cb_list.push_back(cb);      *)
(* trigger_cp(cp_id); cp_io_exit(cp_id).                                   *)
RequestCasOk(t) ==
  /\ ~shutStarted
  /\ RequestFlag(t)
  /\ shutStarted' = (rcb[t] = ShutCb)
  /\ tryBlk' = [tryBlk EXCEPT ![ptr[t]] = TRUE]
  /\ cbs' = [cbs EXCEPT ![ptr[t]] = @ \cup ({rcb[t]} \ {NoCb})]
  /\ blkReq' = TRUE
  /\ UNCHANGED <<blkCp, refCnt, btPending, doneCnt, issued, called, rcb, fid, todo>>

-----------------------------------------------------------------------------
(* indx_tbl_cp_done(id): if (id->ref_cnt.fetch_sub(1) != 1) return; ...    *)
TblCpDone(t, i) ==
  /\ refCnt' = [refCnt EXCEPT ![i] = @ - 1]
  /\ IF refCnt[i] = 1
       THEN /\ pc' = [pc EXCEPT ![t] = "fl_body"]
            /\ fid' = [fid EXCEPT ![t] = i]
            /\ doneCnt' = [doneCnt EXCEPT ![i] = @ + 1]
       ELSE /\ pc' = [pc EXCEPT ![t] = "idle"]
            /\ UNCHANGED <<fid, doneCnt>>
  /\ UNCHANGED <<cpVars, stack, op, ptr, own, prev, xid, cnt, grace>>

\* Mutant: cp_start without its own ++ref_cnt before the loop.
FlushStartNoRef(t) ==
  /\ t = FlushThread /\ pc[t] = "idle"
  /\ \E i \in CpIds :
       /\ startQ[i] > 0
       /\ startQ' = [startQ EXCEPT ![i] = @ - 1]
       /\ fid' = [fid EXCEPT ![t] = i]
  /\ todo' = [todo EXCEPT ![t] = Vols]
  /\ Goto(t, "fl_loop")
  /\ UNCHANGED <<cpState, enterCnt, waiting, cur, inCpPhase, locals>>
  /\ UNCHANGED <<tryBlk, blkCp, cbs, refCnt, btPending, doneCnt, shutStarted,
                 issued, called, blkReq, rcb>>

(* IndxCP::cp_start(id), run_on the indx_mgr thread: ++id->ref_cnt; ...   *)
FlushStart(t) ==
  /\ t = FlushThread /\ pc[t] = "idle"
  /\ \E i \in CpIds :
       /\ startQ[i] > 0
       /\ startQ' = [startQ EXCEPT ![i] = @ - 1]
       /\ refCnt' = [refCnt EXCEPT ![i] = @ + 1]
       /\ fid' = [fid EXCEPT ![t] = i]
  /\ todo' = [todo EXCEPT ![t] = Vols]
  /\ Goto(t, "fl_loop")
  /\ UNCHANGED <<cpState, enterCnt, waiting, cur, inCpPhase, locals>>
  /\ UNCHANGED <<tryBlk, blkCp, cbs, btPending, doneCnt, shutStarted, issued,
                 called, blkReq, rcb>>

(* ... for each active volume: ++snt_cnt; ++ref_cnt; btree cp_start(...,  *)
(* indx_tbl_cp_done(id)); after the loop, indx_tbl_cp_done(id) itself.     *)
FlushLoop(t) ==
  /\ pc[t] = "fl_loop"
  /\ LET i == fid[t] IN
       IF todo[t] = {}
         THEN /\ Goto(t, "fl_dec")
              /\ UNCHANGED <<refCnt, btPending, todo>>
         ELSE \E v \in todo[t] :
                /\ refCnt' = [refCnt EXCEPT ![i] = @ + 1]
                /\ btPending' = [btPending EXCEPT ![i] = @ \cup {v}]
                /\ todo' = [todo EXCEPT ![t] = @ \ {v}]
                /\ Goto(t, "fl_loop")
  /\ UNCHANGED <<cpVars, locals>>
  /\ UNCHANGED <<tryBlk, blkCp, cbs, doneCnt, shutStarted, issued, called,
                 blkReq, rcb, fid>>

FlushDec(t) ==
  /\ pc[t] = "fl_dec"
  /\ TblCpDone(t, fid[t])
  /\ UNCHANGED <<tryBlk, blkCp, cbs, btPending, shutStarted, issued, called,
                 blkReq, rcb, todo>>

\* Mutant: a btree cp completion that is not waited for (a duplicated or
\* stray callback) also runs indx_tbl_cp_done.
BtDoneAnyVol(t) ==
  /\ t = BtThread /\ pc[t] = "idle"
  /\ \E i \in CpIds, v \in Vols :
       /\ cpState[i] = "start"
       /\ btPending' = [btPending EXCEPT ![i] = @ \ {v}]
       /\ TblCpDone(t, i)
  /\ UNCHANGED <<tryBlk, blkCp, cbs, shutStarted, issued, called, blkReq, rcb,
                 todo>>

(* The btree cp of volume v of epoch i completes and calls back.           *)
BtDone(t) ==
  /\ t = BtThread /\ pc[t] = "idle"
  /\ \E i \in CpIds, v \in Vols :
       /\ v \in btPending[i]
       /\ btPending' = [btPending EXCEPT ![i] = @ \ {v}]
       /\ TblCpDone(t, i)
  /\ UNCHANGED <<tryBlk, blkCp, cbs, shutStarted, issued, called, blkReq, rcb,
                 todo>>

(* ... blkalloc_cp(id): blkalloc_cp_start, superblock, truncate; call     *)
(* every callback of cb_list with true; blkalloc_cp_done; cp_end(id).     *)
FlushBlkalloc(t) ==
  /\ pc[t] = "fl_body"
  /\ blkCp[fid[t]]
  /\ called' = called \cup cbs[fid[t]]
  /\ blkReq' = FALSE
  /\ CpEnd(t, fid[t])
  /\ UNCHANGED startQ
  /\ UNCHANGED <<tryBlk, blkCp, cbs, refCnt, btPending, doneCnt, shutStarted,
                 issued, rcb, fid, todo>>

\* Mutant: the epoch that missed its blkalloc checkpoint ends without
\* asking for one in the next epoch.
FlushRetriggerSkip(t) ==
  /\ pc[t] = "fl_body"
  /\ ~blkCp[fid[t]] /\ tryBlk[fid[t]]
  /\ CpEnd(t, fid[t])
  /\ UNCHANGED startQ
  /\ UNCHANGED ixVars

(* ... else { if (try_blkalloc_checkpoint != blkalloc_checkpoint)          *)
(* IndxMgr::trigger_homeblks_cp(); write_homeblks_cp_sb; cp_end(id); }    *)
(* mapping::cp_done's trigger_vol_cp finds in_cp_phase set and returns.   *)
FlushRetrigger(t) ==
  /\ pc[t] = "fl_body"
  /\ ~blkCp[fid[t]] /\ tryBlk[fid[t]]
  /\ StartHbRequest(t, NoCb, "fl_end")

FlushPlain(t) ==
  /\ pc[t] = "fl_body"
  /\ ~blkCp[fid[t]] /\ ~tryBlk[fid[t]]
  /\ CpEnd(t, fid[t])
  /\ UNCHANGED startQ
  /\ UNCHANGED ixVars

FlushEnd(t) ==
  /\ pc[t] = "fl_end"
  /\ CpEnd(t, fid[t])
  /\ UNCHANGED startQ
  /\ UNCHANGED ixVars

-----------------------------------------------------------------------------
\* CheckPoint's steps leave the homeblks_cp_id fields alone, except
\* trigger_cp's publication, which runs cp_attach_prepare.
CpStep(t) ==
  \/ (EnterRead(t) \/ EnterInc(t) \/ ExitDec(t) \/ ExitCheck(t) \/ TriggerCas(t)
      \/ TriggerMark(t) \/ TriggerSync(t) \/ RequestExit(t) \/ EndCheck(t)
      \/ EndExit(t)) /\ UNCHANGED ixVars
  \/ TriggerPublish(t) /\ AttachPrepare(t)

IxContinue(t) ==
  \/ CpStep(t)
  \/ RequestCasFail(t) \/ RequestCasOk(t)
  \/ FlushLoop(t) \/ FlushDec(t)
  \/ FlushBlkalloc(t) \/ FlushRetrigger(t) \/ FlushPlain(t) \/ FlushEnd(t)

\* trigger_vol_cp (mapping's dirty-buffer trigger) and trigger_homeblks_cp.
IxBegin(t) ==
  \/ t \in IoThreads /\ BeginTimer(t) /\ UNCHANGED ixVars
  \/ BeginHbRequest(t)

IxNext ==
  \E t \in Procs : IxBegin(t) \/ IxContinue(t) \/ FlushStart(t) \/ BtDone(t)

\* Threads finish what they started; the indx_mgr thread serves every
\* cp_start post and every btree cp completes.
IxFairness ==
  /\ \A t \in Procs : WF_allVars(IxContinue(t))
  /\ WF_allVars(FlushStart(FlushThread))
  /\ WF_allVars(BtDone(BtThread))

IxSpec == IxInit /\ [][IxNext]_allVars /\ IxFairness

-----------------------------------------------------------------------------
IxLabels == Labels \cup {"fl_loop", "fl_dec", "fl_body", "fl_end"}

IxTypeOK ==
  /\ cpState \in [CpIds -> CpStatus]
  /\ pc \in [Procs -> IxLabels]
  /\ tryBlk \in [CpIds -> BOOLEAN]
  /\ blkCp \in [CpIds -> BOOLEAN]
  /\ cbs \in [CpIds -> SUBSET Callbacks]
  /\ refCnt \in [CpIds -> Nat]
  /\ btPending \in [CpIds -> SUBSET Vols]
  /\ doneCnt \in [CpIds -> Nat]
  /\ shutStarted \in BOOLEAN
  /\ issued \subseteq Callbacks /\ called \subseteq Callbacks
  /\ blkReq \in BOOLEAN
  /\ rcb \in [Procs -> Callbacks \cup {NoCb}]
  /\ fid \in [Procs -> CpIds \cup {NoId}]
  /\ todo \in [Procs -> SUBSET Vols]

\* indx_tbl_cp_done's ref_cnt (indx_mgr.cpp:93-128): the flush of an epoch
\* is finished (superblock, blkalloc checkpoint, cb_list, cp_end) exactly
\* once, and only after cp_start has started the btree cp of every volume
\* and every one of them has called back, whatever order the btree
\* completions and the indx_mgr thread's loop interleave in.
FlushDoneOnce ==
  \A i \in CpIds :
    /\ doneCnt[i] <= 1
    /\ doneCnt[i] = 1 =>
         /\ btPending[i] = {}
         /\ \A t \in Procs : pc[t] \in {"fl_loop", "fl_dec"} => fid[t] # i

\* trigger_homeblks_cp's callback (trigger_cp_init, IndxMgr::shutdown) waits
\* for a blkalloc checkpoint: when cp_end deletes an epoch, every callback
\* pushed on its cb_list has been called.
CallbacksNotDropped ==
  \A i \in CpIds : cpState[i] = "free" => cbs[i] \subseteq called

\* trigger_homeblks_cp asks for a blkalloc checkpoint; when the request
\* lands on an epoch whose cp_attach_prepare has already run,
\* indx_tbl_cp_done asks again in the next epoch (indx_mgr.cpp:118-121), so
\* a blkalloc checkpoint is eventually taken.
BlkallocRequestServed == blkReq ~> ~blkReq

=============================================================================
