------------------------------ MODULE MCIndxCP ------------------------------
(* Model-checking instance of IndxCP: two caller threads, the indx_mgr    *)
(* thread, a btree completion thread, two volumes and two addresses for   *)
(* homeblks_cp_id objects.                                                 *)
EXTENDS IndxCP, TLC

CONSTANTS t1, t2, bt, ft, c1, c2, v1, v2, cbInit, cbShut, noCb

\* t1 calls trigger_homeblks_cp, t2 is an I/O thread calling trigger_vol_cp.
MCThreads == {t1, t2, bt}
MCIoThreads == {t2}

MCCpIds == {c1, c2}

\* Two volumes: a btree cp can call back before cp_start's loop reaches
\* the next volume.
MCVols == {v1, v2}

\* One volume, where the order of btree completions is not the question.
MCVols1 == {v1}

\* The callbacks of trigger_cp_init and of IndxMgr::shutdown.
MCCallbacks == {cbInit, cbShut}
MCShutCallbacks == {cbShut}
MCInitCallbacks == {cbInit}
MCNoCallbacks == {}

\* Locals of an idle thread and the fields of a deleted epoch are dead.
MCIxView ==
  <<cpState, [i \in CpIds |-> IF cpState[i] = "free" THEN <<>>
              ELSE <<enterCnt[i], tryBlk[i], blkCp[i], cbs[i], refCnt[i],
                     btPending[i], doneCnt[i]>>],
    waiting, cur, inCpPhase, startQ, pc, stack, shutStarted, issued, called,
    blkReq,
    [t \in Procs |-> IF pc[t] = "idle" THEN <<>>
                     ELSE <<op[t], ptr[t], own[t], prev[t], xid[t], cnt[t],
                            grace[t], rcb[t], fid[t], todo[t]>>]>>

=============================================================================
