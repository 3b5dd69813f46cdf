---------------------------- MODULE MCCheckPoint ----------------------------
(* Model-checking instance of CheckPoint: one or two I/O/trigger threads, *)
(* indx_mgr flush thread and two addresses for cp_id objects, so that a  *)
(* deleted epoch's address can be reused by a later trigger_cp.            *)
EXTENDS CheckPoint, TLC

CONSTANTS t1, t2, ft, c1, c2

MCThreads == {t1, t2}

\* One I/O/trigger thread beside the flush thread: enough for a flag set
\* on the current epoch while another checkpoint is being flushed.
MCThreads1 == {t1}

\* Two addresses: while one epoch is being flushed the other is current, and
\* cp_end deletes the flushed one before trigger_cp allocates again, so the
\* next epoch reuses a deleted address.
MCCpIds == {c1, c2}

\* Locals of a thread that is idle are dead (every operation writes them
\* before reading them), as is the enter count of a deleted epoch (the
\* constructor resets it); they are left out of the state's identity.
MCView ==
  <<cpState, [i \in CpIds |-> IF cpState[i] = "free" THEN 0 ELSE enterCnt[i]],
    waiting, cur, inCpPhase, startQ, pc, stack,
    [t \in Procs |-> IF pc[t] = "idle" THEN <<>>
                     ELSE <<op[t], ptr[t], own[t], prev[t], xid[t], cnt[t], grace[t]>>]>>


=============================================================================
