------------------------------ MODULE VolumeIo ------------------------------
(***************************************************************************)
(* The life of a volume read or write request in volume.cpp: admission    *)
(* (Volume::write / Volume::read), the child data I/Os made by             *)
(* create_vol_child_req, their completions (process_data_completions),     *)
(* the journal completion that reaches the volume through                  *)
(* process_indx_completions, and check_and_complete_req with               *)
(* shutdown_if_needed, which every one of them calls.                      *)
(*                                                                         *)
(* check_and_complete_req runs concurrently on the submitting thread, on   *)
(* the completion thread of every child and on the journal completion      *)
(* thread.  Its atomic accesses are separate steps: set_error's CAS, the   *)
(* read of vreq->state, outstanding_io_cnt.decrement_testz, the write of   *)
(* state = completed with the user completion, and the two fetch_subs of   *)
(* shutdown_if_needed.                                                     *)
(*                                                                         *)
(* HomeBlks' graceful shutdown is reduced to what the request sees: the    *)
(* is_shutdown() flag, and do_volume_shutdown, which starts the volume     *)
(* shutdown when home_blks_ref_cnt is 0 (do_shutdown's test through        *)
(* can_all_vols_shutdown) or from shutdown_if_needed (force = true).       *)
(***************************************************************************)
EXTENDS Naturals, FiniteSets

CONSTANTS
    Reqs,          \* the requests
    IsRead,        \* IsRead[r]: vreq->is_read_op()
    MaxKids,       \* most blkids an allocation, or valid entries a read_indx, returns
    KidsOf,        \* KidsOf[r] <= MaxKids: the most children request r has
    IoErrors,      \* a child I/O may complete with an error
    AllocErrors,   \* alloc_blk / read_indx may fail
    JournalErrors  \* journal_comp_cb may report a partial index write

Kids == 1 .. MaxKids
\* the threads that call check_and_complete_req for one request: the
\* submitting thread, the children and the journal completion
Sub == 0
Jr == MaxKids + 1
Callers == Sub .. Jr

VARIABLES
    hbRef,    \* Volume::home_blks_ref_cnt
    volRef,   \* Volume::vol_ref_cnt
    shut,     \* HomeBlks::is_shutdown()
    volShut,  \* HomeBlks::m_start_shutdown: the volume shutdown has started
    spc,      \* the submitting thread's place in Volume::write / Volume::read
    st,       \* vreq->state
    cnt,      \* vreq->outstanding_io_cnt
    err,      \* the error recorded by iface_req->set_error
    nk,       \* the number of child requests the request needs
    issued,   \* the number of child requests created and issued
    cpc,      \* cpc[r][c]: caller c's place in its I/O and check_and_complete_req
    ce,       \* ce[r][c]: the error caller c passes to check_and_complete_req
    acked,    \* the number of interface_req_done calls for the request
    rel       \* shutdown_if_needed has given the request's refs back

vars == <<hbRef, volRef, shut, volShut, spc, st, cnt, err, nk, issued, cpc, ce, acked, rel>>

\* Mutant: the request starts with no count of its own
InitialIoCntZero == 0

\* volume_req::make (volume.hpp): outstanding_io_cnt starts at 1, the
\* submitting thread's own count
InitialIoCnt == 1

Init ==
    /\ hbRef = 0 /\ volRef = 0
    /\ shut = FALSE /\ volShut = FALSE
    /\ spc = [r \in Reqs |-> "idle"]
    /\ st = [r \in Reqs |-> "init"]
    /\ cnt = [r \in Reqs |-> InitialIoCnt]
    /\ err = [r \in Reqs |-> FALSE]
    /\ nk = [r \in Reqs |-> 0]
    /\ issued = [r \in Reqs |-> 0]
    /\ cpc = [r \in Reqs |-> [c \in Callers |-> "idle"]]
    /\ ce = [r \in Reqs |-> [c \in Callers |-> FALSE]]
    /\ acked = [r \in Reqs |-> 0]
    /\ rel = [r \in Reqs |-> FALSE]

\* The submitting thread jumps to done: check_and_complete_req(vreq, ret)
Call(r, e) ==
    /\ spc' = [spc EXCEPT ![r] = "done"]
    /\ cpc' = [cpc EXCEPT ![r][Sub] = "call"]
    /\ ce' = [ce EXCEPT ![r][Sub] = e]

\* ++home_blks_ref_cnt; ++vol_ref_cnt at the start of write and read
Admit(r) ==
    /\ spc[r] = "idle"
    /\ hbRef' = hbRef + 1 /\ volRef' = volRef + 1
    /\ spc' = [spc EXCEPT ![r] = "offline"]
    /\ UNCHANGED <<shut, volShut, st, cnt, err, nk, issued, cpc, ce, acked, rel>>

\* is_offline(): the volume is ONLINE here, so only is_shutdown() counts
Offline(r) ==
    /\ spc[r] = "offline"
    /\ IF shut
       THEN Call(r, TRUE)
       ELSE /\ spc' = [spc EXCEPT ![r] = "prep"]
            /\ UNCHANGED <<cpc, ce>>
    /\ UNCHANGED <<hbRef, volRef, shut, volShut, st, cnt, err, nk, issued, acked, rel>>

\* alloc_blk for a write, read_indx for a read; on success the request
\* enters data_io with one child per blkid (write) or per valid entry
\* (read, which may have none)
Prep(r) ==
    /\ spc[r] = "prep"
    /\ \/ /\ AllocErrors
          /\ Call(r, TRUE)
          /\ UNCHANGED <<st, nk>>
       \/ \E n \in (IF IsRead[r] THEN 0 ELSE 1) .. KidsOf[r] :
            /\ nk' = [nk EXCEPT ![r] = n]
            /\ st' = [st EXCEPT ![r] = "data_io"]
            /\ spc' = [spc EXCEPT ![r] = "issue"]
            /\ UNCHANGED <<cpc, ce>>
    /\ UNCHANGED <<hbRef, volRef, shut, volShut, cnt, err, issued, acked, rel>>

\* Mutant: the child is issued without outstanding_io_cnt.increment
IssueNoCount(r) ==
    /\ spc[r] = "issue"
    /\ IF issued[r] < nk[r]
       THEN LET k == issued[r] + 1 IN
            /\ issued' = [issued EXCEPT ![r] = k]
            /\ cpc' = [cpc EXCEPT ![r][k] = "io"]
            /\ UNCHANGED <<spc, ce, cnt>>
       ELSE /\ Call(r, FALSE)
            /\ UNCHANGED <<cnt, issued>>
    /\ UNCHANGED <<hbRef, volRef, shut, volShut, st, err, nk, acked, rel>>

\* one turn of the issue loop: create_vol_child_req (outstanding_io_cnt
\* + 1) and the blkstore write or read; after the last, the submitting
\* thread calls check_and_complete_req(vreq, no_error)
Issue(r) ==
    /\ spc[r] = "issue"
    /\ IF issued[r] < nk[r]
       THEN LET k == issued[r] + 1 IN
            /\ cnt' = [cnt EXCEPT ![r] = @ + 1]
            /\ issued' = [issued EXCEPT ![r] = k]
            /\ cpc' = [cpc EXCEPT ![r][k] = "io"]
            /\ UNCHANGED <<spc, ce>>
       ELSE /\ Call(r, FALSE)
            /\ UNCHANGED <<cnt, issued>>
    /\ UNCHANGED <<hbRef, volRef, shut, volShut, st, err, nk, acked, rel>>

\* process_data_completions: check_and_complete_req(vreq, vc_req->err)
IoDone(r, k) ==
    /\ cpc[r][k] = "io"
    /\ \E e \in IF IoErrors THEN BOOLEAN ELSE {FALSE} :
         /\ cpc' = [cpc EXCEPT ![r][k] = "call"]
         /\ ce' = [ce EXCEPT ![r][k] = e]
    /\ UNCHANGED <<hbRef, volRef, shut, volShut, spc, st, cnt, err, nk, issued, acked, rel>>

\* journal_comp_cb's m_io_cb (process_indx_completions): no_error, or
\* btree_write_failed when fewer lbas than the request's were written
JournalDone(r) ==
    /\ cpc[r][Jr] = "io"
    /\ \E e \in IF JournalErrors THEN BOOLEAN ELSE {FALSE} :
         /\ cpc' = [cpc EXCEPT ![r][Jr] = "call"]
         /\ ce' = [ce EXCEPT ![r][Jr] = e]
    /\ UNCHANGED <<hbRef, volRef, shut, volShut, spc, st, cnt, err, nk, issued, acked, rel>>

(***************************************************************************)
(* check_and_complete_req, by caller c of request r                        *)
(***************************************************************************)
Goto(r, c, p) == cpc' = [cpc EXCEPT ![r][c] = p]

\* Mutant: set_error reports every error as the first one
SetErrorAlwaysFirst(r, c) ==
    /\ cpc[r][c] = "call" /\ ce[r][c]
    /\ err' = [err EXCEPT ![r] = TRUE] /\ Goto(r, c, "complete")
    /\ UNCHANGED <<hbRef, volRef, shut, volShut, spc, st, cnt, nk, issued, ce, acked, rel>>

\* if (err): iface_req->set_error(err) is true only for the first error
SetError(r, c) ==
    /\ cpc[r][c] = "call" /\ ce[r][c]
    /\ IF ~err[r]
       THEN err' = [err EXCEPT ![r] = TRUE] /\ Goto(r, c, "complete")
       ELSE UNCHANGED err /\ Goto(r, c, "ret")
    /\ UNCHANGED <<hbRef, volRef, shut, volShut, spc, st, cnt, nk, issued, ce, acked, rel>>

\* Mutant: a completion in journal_io is not taken as the request's end
CheckStateNoJournal(r, c) ==
    /\ cpc[r][c] = "call" /\ ~ce[r][c]
    /\ Goto(r, c, IF st[r] = "data_io" THEN "dec" ELSE "ret")
    /\ UNCHANGED <<hbRef, volRef, shut, volShut, spc, st, cnt, err, nk, issued, ce, acked, rel>>

\* without an error: the read of vreq->state
CheckState(r, c) ==
    /\ cpc[r][c] = "call" /\ ~ce[r][c]
    /\ Goto(r, c, CASE st[r] = "data_io"    -> "dec"
                    [] st[r] = "journal_io" -> "complete"
                    [] OTHER                -> "ret")
    /\ UNCHANGED <<hbRef, volRef, shut, volShut, spc, st, cnt, err, nk, issued, ce, acked, rel>>

\* Mutant: the test after the decrement is off by one
DecrementTestzOffByOne(r, c) ==
    /\ cpc[r][c] = "dec"
    /\ cnt' = [cnt EXCEPT ![r] = @ - 1]
    /\ IF cnt[r] <= 2
       THEN IF IsRead[r]
            THEN Goto(r, c, "complete") /\ UNCHANGED st
            ELSE /\ st' = [st EXCEPT ![r] = "journal_io"]
                 /\ cpc' = [cpc EXCEPT ![r][c] = "ret", ![r][Jr] = "io"]
       ELSE Goto(r, c, "ret") /\ UNCHANGED st
    /\ UNCHANGED <<hbRef, volRef, shut, volShut, spc, err, nk, issued, ce, acked, rel>>

\* outstanding_io_cnt.decrement_testz(1); the last one verifies the
\* checksums and completes a read, or moves a write to journal_io and
\* calls update_indx, whose journal write completes later
DecrementTestz(r, c) ==
    /\ cpc[r][c] = "dec"
    /\ cnt' = [cnt EXCEPT ![r] = @ - 1]
    /\ IF cnt[r] = 1
       THEN IF IsRead[r]
            THEN Goto(r, c, "complete") /\ UNCHANGED st
            ELSE /\ st' = [st EXCEPT ![r] = "journal_io"]
                 /\ cpc' = [cpc EXCEPT ![r][c] = "ret", ![r][Jr] = "io"]
       ELSE Goto(r, c, "ret") /\ UNCHANGED st
    /\ UNCHANGED <<hbRef, volRef, shut, volShut, spc, err, nk, issued, ce, acked, rel>>

\* completed: state = completed, safe_remove_blks and interface_req_done
Complete(r, c) ==
    /\ cpc[r][c] = "complete"
    /\ st' = [st EXCEPT ![r] = "completed"]
    /\ acked' = [acked EXCEPT ![r] = @ + 1]
    /\ Goto(r, c, "rel")
    /\ UNCHANGED <<hbRef, volRef, shut, volShut, spc, cnt, err, nk, issued, ce, rel>>

\* Mutant: only vol_ref_cnt is given back
ShutdownIfNeededVolOnly(r, c) ==
    /\ cpc[r][c] = "rel"
    /\ volRef' = volRef - 1
    /\ rel' = [rel EXCEPT ![r] = TRUE]
    /\ Goto(r, c, "ret")
    /\ UNCHANGED <<hbRef, volShut, shut, spc, st, cnt, err, nk, issued, ce, acked>>

\* shutdown_if_needed: both fetch_subs; do_volume_shutdown(true) when the
\* last home_blks ref goes while a shutdown is requested
ShutdownIfNeeded(r, c) ==
    /\ cpc[r][c] = "rel"
    /\ hbRef' = hbRef - 1 /\ volRef' = volRef - 1
    /\ volShut' = (volShut \/ (hbRef = 1 /\ shut))
    /\ rel' = [rel EXCEPT ![r] = TRUE]
    /\ Goto(r, c, "ret")
    /\ UNCHANGED <<shut, spc, st, cnt, err, nk, issued, ce, acked>>

\* check_and_complete_req returns; the submitting thread leaves write/read
Return(r) ==
    /\ spc[r] = "done" /\ cpc[r][Sub] = "ret"
    /\ spc' = [spc EXCEPT ![r] = "finished"]
    /\ UNCHANGED <<hbRef, volRef, shut, volShut, st, cnt, err, nk, issued, cpc, ce, acked, rel>>

(***************************************************************************)
(* HomeBlks' graceful shutdown                                             *)
(***************************************************************************)
\* HomeBlks::shutdown sets m_shutdown_start_time
TriggerShutdown ==
    /\ ~shut
    /\ shut' = TRUE
    /\ UNCHANGED <<hbRef, volRef, volShut, spc, st, cnt, err, nk, issued, cpc, ce, acked, rel>>

\* do_shutdown's do_volume_shutdown(false): can_all_vols_shutdown, then
\* the CAS of m_start_shutdown
DoVolumeShutdown ==
    /\ shut /\ ~volShut /\ hbRef = 0
    /\ volShut' = TRUE
    /\ UNCHANGED <<hbRef, volRef, shut, spc, st, cnt, err, nk, issued, cpc, ce, acked, rel>>

Quiet ==
    /\ \A r \in Reqs : spc[r] \in {"idle", "finished"}
                       /\ \A c \in Callers : cpc[r][c] \in {"idle", "ret"}

Terminated == Quiet /\ (volShut \/ ~shut) /\ UNCHANGED vars

Step(r, c) ==
    SetError(r, c) \/ CheckState(r, c) \/ DecrementTestz(r, c)
    \/ Complete(r, c) \/ ShutdownIfNeeded(r, c)

Next ==
    \/ \E r \in Reqs :
         \/ Admit(r) \/ Offline(r) \/ Prep(r) \/ Issue(r) \/ Return(r)
         \/ JournalDone(r)
         \/ \E k \in Kids : IoDone(r, k)
         \/ \E c \in Callers : Step(r, c)
    \/ TriggerShutdown \/ DoVolumeShutdown
    \/ Terminated

\* Every started thread keeps running, every issued I/O and journal write
\* completes, and do_shutdown's timer keeps re-running do_volume_shutdown.
\* Starting a request or a shutdown is not fair.
Fairness ==
    /\ \A r \in Reqs :
         /\ WF_vars(Offline(r)) /\ WF_vars(Prep(r)) /\ WF_vars(Issue(r))
         /\ WF_vars(Return(r)) /\ WF_vars(JournalDone(r))
         /\ \A k \in Kids : WF_vars(IoDone(r, k))
         /\ \A c \in Callers : WF_vars(Step(r, c))
    /\ WF_vars(DoVolumeShutdown)

Spec == Init /\ [][Next]_vars /\ Fairness

(***************************************************************************)
(* Properties                                                              *)
(***************************************************************************)
VioTypeOK ==
    /\ hbRef \in 0 .. Cardinality(Reqs) /\ volRef \in 0 .. Cardinality(Reqs)
    /\ shut \in BOOLEAN /\ volShut \in BOOLEAN
    /\ \A r \in Reqs :
         /\ spc[r] \in {"idle", "offline", "prep", "issue", "done", "finished"}
         /\ st[r] \in {"init", "data_io", "journal_io", "completed"}
         /\ cnt[r] \in 0 .. MaxKids + 1
         /\ nk[r] \in 0 .. MaxKids /\ issued[r] \in 0 .. nk[r]
         /\ \A c \in Callers :
              cpc[r][c] \in {"idle", "io", "call", "dec", "complete", "rel", "ret"}

\* Whatever mix of child errors, journal errors and late completions
\* arrives, interface_req_done is called for a request exactly once, and
\* only after it was admitted (set_error's first-error test and the
\* data_io / journal_io tests of check_and_complete_req).
AckedOnce == \A r \in Reqs : acked[r] <= 1

\* A write reaches update_indx (and its journal write) only after every
\* child data write completed without an error (spec: data write
\* completes before journal append begins).
DataBeforeJournal ==
    \A r \in Reqs :
        cpc[r][Jr] # "idle" =>
            /\ issued[r] = nk[r]
            /\ \A k \in 1 .. nk[r] : cpc[r][k] = "ret" /\ ~ce[r][k]

\* A request is completed without an error only after all its child
\* requests were issued; in particular a read's verify_csum never runs
\* while the submitting thread is still filling read_buf (the TODO at
\* Volume::read).
NoEarlySuccess ==
    \A r \in Reqs :
        acked[r] > 0 /\ ~err[r] =>
            /\ issued[r] = nk[r]
            /\ ~IsRead[r] => cpc[r][Jr] \notin {"idle", "io"}

\* home_blks_ref_cnt counts exactly the admitted requests that have not
\* given their refs back in shutdown_if_needed.
RefsMatchRequests ==
    hbRef = Cardinality({r \in Reqs : spc[r] # "idle" /\ ~rel[r]})

\* Every admitted request is completed to the user and gives its refs back.
RequestCompletes ==
    \A r \in Reqs : spc[r] # "idle" ~> (acked[r] = 1 /\ rel[r])

\* Once the volume shutdown has started, no child data I/O and no journal
\* write of any request is still in flight: the graceful shutdown drains
\* the I/O through home_blks_ref_cnt.
VolShutdownDrained ==
    volShut =>
        \A r \in Reqs : \A c \in Callers : cpc[r][c] # "io"

=============================================================================
