------------------------------ MODULE CheckPoint ------------------------------
(***************************************************************************)
(* The epoch barrier of src/src/engine/checkpoint/checkpoint.hpp           *)
(* (class CheckPoint<cp_id_type>) with the callers that drive it:          *)
(*   - I/O requests bracket their index update with cp_io_enter and       *)
(*     cp_io_exit (IndxMgr::update_indx / IndxMgr::journal_comp_cb);      *)
(*   - a timer calls trigger_cp();                                         *)
(*   - trigger_homeblks_cp enters the current epoch, flags it with        *)
(*     trigger_cp(id) and exits again;                                     *)
(*   - the dedicated index-manager thread receives cp_start(id) and, once  *)
(*     the flush is done, calls cp_end(id).                                *)
(* Each cp_id object is an element of CpIds; cpState[i] = "free" means    *)
(* the object is not allocated (never created, or deleted by cp_end).     *)
(* m_cur_cp_id is read under rcu_read_lock; trigger_cp publishes a new    *)
(* epoch with rcu_xchg_pointer and waits in synchronize_rcu for every     *)
(* reader that was inside its read-side section at that moment.           *)
(* Every thread runs one operation at a time; its program counter pc and  *)
(* a return stack model the nested calls (trigger_cp calls cp_io_enter,   *)
(* cp_end calls trigger_cp, ...).                                          *)
(***************************************************************************)
EXTENDS Integers, Sequences, FiniteSets

CONSTANTS
  Threads,        \* threads issuing I/O, timer triggers and trigger_cp(id)
  FlushThread,    \* the "indx_mgr" thread that runs cp_start and cp_end
  CpIds,          \* addresses a cp_id_type object can be allocated at
  NoId,           \* nullptr
  ExitTestAtomic, \* TRUE: cp_io_exit's fetch_sub and its state test are one step
  EpochOwnRef     \* TRUE: the fix in which an epoch is created holding one
                  \* reference of its own, which trigger_cp gives back

ASSUME FlushThread \notin Threads /\ NoId \notin CpIds
ASSUME ExitTestAtomic \in BOOLEAN /\ EpochOwnRef \in BOOLEAN

Procs == Threads \cup {FlushThread}

\* Mutant: a new cp_id starts at enter_cnt 0 (cp_id_base() as written).
FreshCntAsWritten == 0

\* enter_cnt of a newly constructed cp_id (0 in the code as written).
FreshCnt == IF EpochOwnRef THEN 1 ELSE 0

\* cp_status_t (checkpoint.hpp:37-44); cp_done is declared but never assigned.
CpStatus == {"free", "io_ready", "trigger", "prepare", "start"}

Labels == {"idle", "en_rd", "en_inc", "ex_dec", "ex_chk", "io_cs", "req_flag",
           "req_exit", "tr_cas", "tr_mark", "tr_publish", "tr_sync", "end_chk",
           "end_exit"}

VARIABLES
  cpState,    \* cp_id_base::cp_state
  enterCnt,   \* cp_id_base::enter_cnt
  waiting,    \* cp_id_base::cp_trigger_waiting
  cur,        \* CheckPoint::m_cur_cp_id
  inCpPhase,  \* CheckPoint::in_cp_phase
  startQ,     \* cp_start(id) calls not yet followed by cp_end(id)
  pc, stack,  \* per-thread program counter and return labels
  op,         \* the operation a thread is running
  ptr,        \* the pointer read by cp_io_enter
  own,        \* the epoch an operation entered (trigger_homeblks_cp, cp_end)
  prev,       \* trigger_cp's prev_cp_id
  xid,        \* the id argument of the running cp_io_exit
  cnt,        \* cp_io_exit's fetch_sub result
  grace       \* readers synchronize_rcu still waits for

vars == <<cpState, enterCnt, waiting, cur, inCpPhase, startQ, pc, stack, op,
          ptr, own, prev, xid, cnt, grace>>
cpVars == <<cpState, enterCnt, waiting, cur, inCpPhase, startQ>>
locals == <<op, ptr, own, prev, xid, cnt, grace>>

-----------------------------------------------------------------------------
(* Calls and returns between the labels of one thread.                    *)

Goto(t, l) == pc' = [pc EXCEPT ![t] = l] /\ UNCHANGED stack
Call(t, l, ret) == /\ pc' = [pc EXCEPT ![t] = l]
                   /\ stack' = [stack EXCEPT ![t] = <<ret>> \o @]
Return(t) == /\ pc' = [pc EXCEPT ![t] = Head(stack[t])]
             /\ stack' = [stack EXCEPT ![t] = Tail(@)]

\* Threads inside an RCU read-side section (between rcu_read_lock and
\* rcu_read_unlock of cp_io_enter).
RcuReaders == {t \in Procs : pc[t] = "en_inc"}

-----------------------------------------------------------------------------
(* The constructor: one current epoch in state cp_io_ready.               *)
Init ==
  \E c0 \in CpIds :
    /\ cpState = [i \in CpIds |-> IF i = c0 THEN "io_ready" ELSE "free"]
    /\ enterCnt = [i \in CpIds |-> IF i = c0 THEN FreshCnt ELSE 0]
    /\ waiting = [i \in CpIds |-> FALSE]
    /\ cur = c0
    /\ inCpPhase = FALSE
    /\ startQ = [i \in CpIds |-> 0]
    /\ pc = [t \in Procs |-> "idle"]
    /\ stack = [t \in Procs |-> <<>>]
    /\ op = [t \in Procs |-> "none"]
    /\ ptr = [t \in Procs |-> NoId]
    /\ own = [t \in Procs |-> NoId]
    /\ prev = [t \in Procs |-> NoId]
    /\ xid = [t \in Procs |-> NoId]
    /\ cnt = [t \in Procs |-> 0]
    /\ grace = [t \in Procs |-> {}]

-----------------------------------------------------------------------------
(* cp_io_enter: rcu_read_lock; p = rcu_dereference(m_cur_cp_id) ...       *)
EnterRead(t) ==
  /\ pc[t] = "en_rd"
  /\ ptr' = [ptr EXCEPT ![t] = cur]
  /\ Goto(t, "en_inc")
  /\ UNCHANGED <<cpVars, op, own, prev, xid, cnt, grace>>

(* ... p->enter_cnt++; rcu_read_unlock; return p.                         *)
EnterInc(t) ==
  /\ pc[t] = "en_inc"
  /\ enterCnt' = [enterCnt EXCEPT ![ptr[t]] = @ + 1]
  /\ grace' = [u \in Procs |-> grace[u] \ {t}]
  /\ Return(t)
  /\ UNCHANGED <<cpState, waiting, cur, inCpPhase, startQ, op, ptr, own, prev,
                 xid, cnt>>

\* Mutant: the flush starts on the last exit seen in prepare, whatever the
\* count fetch_sub returned.
ExitTestAnyCnt(t, c) ==
  IF cpState[xid[t]] = "prepare"
    THEN /\ cpState' = [cpState EXCEPT ![xid[t]] = "start"]
         /\ startQ' = [startQ EXCEPT ![xid[t]] = @ + 1]
    ELSE UNCHANGED <<cpState, startQ>>

(* cp_io_exit's test: if (cnt == 1 && id->cp_state == cp_prepare)        *)
(* { id->cp_state = cp_start; cp_start(id); }; cp_start hands the epoch    *)
(* to the flush thread.  c is the value fetch_sub returned.                *)
ExitTest(t, c) ==
  IF c = 1 /\ cpState[xid[t]] = "prepare"
    THEN /\ cpState' = [cpState EXCEPT ![xid[t]] = "start"]
         /\ startQ' = [startQ EXCEPT ![xid[t]] = @ + 1]
    ELSE UNCHANGED <<cpState, startQ>>

\* Mutant: cp_io_exit as written: cnt = id->enter_cnt.fetch_sub(1), and
\* the test of cp_state as a later step.
ExitDecAsWritten(t) ==
  /\ pc[t] = "ex_dec"
  /\ enterCnt' = [enterCnt EXCEPT ![xid[t]] = @ - 1]
  /\ cnt' = [cnt EXCEPT ![t] = enterCnt[xid[t]]]
  /\ Goto(t, "ex_chk")
  /\ UNCHANGED <<cpState, startQ, waiting, cur, inCpPhase, op, ptr, own, prev,
                 xid, grace>>

(* cp_io_exit(id): cnt = id->enter_cnt.fetch_sub(1); then the test, in    *)
(* the same step when ExitTestAtomic, else as a later step.               *)
ExitDec(t) ==
  IF ExitTestAtomic
    THEN /\ pc[t] = "ex_dec"
         /\ enterCnt' = [enterCnt EXCEPT ![xid[t]] = @ - 1]
         /\ ExitTest(t, enterCnt[xid[t]])
         /\ Return(t)
         /\ UNCHANGED <<cnt, waiting, cur, inCpPhase, op, ptr, own, prev, xid,
                        grace>>
    ELSE ExitDecAsWritten(t)

(* The test of a cp_io_exit whose fetch_sub is already done.               *)
ExitCheck(t) ==
  /\ pc[t] = "ex_chk"
  /\ ExitTest(t, cnt[t])
  /\ Return(t)
  /\ UNCHANGED <<enterCnt, waiting, cur, inCpPhase, locals>>

-----------------------------------------------------------------------------
(* prev_cp_id = cp_io_enter(); when an epoch is created holding its own  *)
(* reference (EpochOwnRef) that reference pins it instead, and trigger_cp *)
(* takes m_cur_cp_id as it is.                                             *)
TriggerEnter(t) ==
  IF FreshCnt = 1
    THEN /\ ptr' = [ptr EXCEPT ![t] = cur]
         /\ Goto(t, "tr_mark")
    ELSE /\ Call(t, "en_rd", "tr_mark")
         /\ UNCHANGED ptr

\* Mutant: trigger_cp without the in_cp_phase compare-exchange.
TriggerCasNoPhase(t) ==
  /\ pc[t] = "tr_cas"
  /\ inCpPhase' = TRUE
  /\ TriggerEnter(t)
  /\ UNCHANGED <<cpState, enterCnt, waiting, cur, startQ, op, own, prev, xid,
                 cnt, grace>>

(* trigger_cp(): if (!in_cp_phase.compare_exchange_strong(false, true))  *)
(* return; prev_cp_id = cp_io_enter(); ...                                *)
TriggerCas(t) ==
  /\ pc[t] = "tr_cas"
  /\ IF inCpPhase
       THEN /\ Return(t)
            /\ UNCHANGED inCpPhase
            /\ UNCHANGED ptr
       ELSE /\ inCpPhase' = TRUE
            /\ TriggerEnter(t)
  /\ UNCHANGED <<cpState, enterCnt, waiting, cur, startQ, op, own, prev, xid,
                 cnt, grace>>

(* ... prev_cp_id->cp_state = cp_trigger;                                 *)
TriggerMark(t) ==
  /\ pc[t] = "tr_mark"
  /\ prev' = [prev EXCEPT ![t] = ptr[t]]
  /\ cpState' = [cpState EXCEPT ![ptr[t]] = "trigger"]
  /\ Goto(t, "tr_publish")
  /\ UNCHANGED <<enterCnt, waiting, cur, inCpPhase, startQ, op, ptr, own, xid,
                 cnt, grace>>

\* Mutant: rcu_xchg_pointer without synchronize_rcu.
TriggerPublishNoSync(t) ==
  /\ pc[t] = "tr_publish"
  /\ \E n \in CpIds :
       /\ cpState[n] = "free"
       /\ cpState' = [cpState EXCEPT ![n] = "io_ready"]
       /\ enterCnt' = [enterCnt EXCEPT ![n] = FreshCnt]
       /\ waiting' = [waiting EXCEPT ![n] = FALSE]
       /\ cur' = n
  /\ grace' = [grace EXCEPT ![t] = {}]
  /\ Goto(t, "tr_sync")
  /\ UNCHANGED <<inCpPhase, startQ, op, ptr, own, prev, xid, cnt>>

(* ... new_cp_id = new cp_id_type(); cp_attach_prepare(prev, new);        *)
(* new_cp_id->cp_state = cp_io_ready; rcu_xchg_pointer(&m_cur_cp_id, new);*)
(* synchronize_rcu() then waits for the readers inside their section.     *)
TriggerPublish(t) ==
  /\ pc[t] = "tr_publish"
  /\ \E n \in CpIds :
       /\ cpState[n] = "free"
       /\ cpState' = [cpState EXCEPT ![n] = "io_ready"]
       /\ enterCnt' = [enterCnt EXCEPT ![n] = FreshCnt]
       /\ waiting' = [waiting EXCEPT ![n] = FALSE]
       /\ cur' = n
  /\ grace' = [grace EXCEPT ![t] = RcuReaders]
  /\ Goto(t, "tr_sync")
  /\ UNCHANGED <<inCpPhase, startQ, op, ptr, own, prev, xid, cnt>>

(* ... (synchronize_rcu returns) prev_cp_id->cp_state = cp_prepare;       *)
(* cp_io_exit(prev_cp_id).                                                 *)
TriggerSync(t) ==
  /\ pc[t] = "tr_sync"
  /\ grace[t] = {}
  /\ cpState' = [cpState EXCEPT ![prev[t]] = "prepare"]
  /\ xid' = [xid EXCEPT ![t] = prev[t]]
  /\ Goto(t, "ex_dec")
  /\ UNCHANGED <<enterCnt, waiting, cur, inCpPhase, startQ, op, ptr, own, prev,
                 cnt, grace>>

-----------------------------------------------------------------------------
(* An I/O (IndxMgr::update_indx) enters the current epoch; its journal    *)
(* completion (IndxMgr::journal_comp_cb) exits it.                        *)
BeginIo(t) ==
  /\ t \in Threads /\ pc[t] = "idle"
  /\ op' = [op EXCEPT ![t] = "io"]
  /\ pc' = [pc EXCEPT ![t] = "en_rd"]
  /\ stack' = [stack EXCEPT ![t] = <<"io_cs", "idle">>]
  /\ UNCHANGED <<cpVars, ptr, own, prev, xid, cnt, grace>>

IoDone(t) ==
  /\ pc[t] = "io_cs"
  /\ xid' = [xid EXCEPT ![t] = ptr[t]]
  /\ Goto(t, "ex_dec")
  /\ UNCHANGED <<cpVars, op, ptr, own, prev, cnt, grace>>

(* The timer of IndxMgr::init calls trigger_cp().                         *)
BeginTimer(t) ==
  /\ t \in Threads /\ pc[t] = "idle"
  /\ op' = [op EXCEPT ![t] = "timer"]
  /\ pc' = [pc EXCEPT ![t] = "tr_cas"]
  /\ stack' = [stack EXCEPT ![t] = <<"idle">>]
  /\ UNCHANGED <<cpVars, ptr, own, prev, xid, cnt, grace>>

(* IndxMgr::trigger_homeblks_cp: cp_id = cp_io_enter(); ..., called so    *)
(* that it returns to label ret.                                           *)
StartRequest(t, ret) ==
  /\ op' = [op EXCEPT ![t] = "req"]
  /\ pc' = [pc EXCEPT ![t] = "en_rd"]
  /\ stack' = [stack EXCEPT ![t] = <<"req_flag", ret>>]
  /\ UNCHANGED <<cpVars, ptr, own, prev, xid, cnt, grace>>

BeginRequest(t) ==
  /\ t \in Threads /\ pc[t] = "idle"
  /\ StartRequest(t, "idle")

(* ... trigger_cp(cp_id): id->cp_trigger_waiting = true; trigger_cp();    *)
RequestFlag(t) ==
  /\ pc[t] = "req_flag"
  /\ own' = [own EXCEPT ![t] = ptr[t]]
  /\ waiting' = [waiting EXCEPT ![ptr[t]] = TRUE]
  /\ Call(t, "tr_cas", "req_exit")
  /\ UNCHANGED <<cpState, enterCnt, cur, inCpPhase, startQ, op, ptr, prev, xid,
                 cnt, grace>>

(* ... cp_io_exit(cp_id).                                                  *)
RequestExit(t) ==
  /\ pc[t] = "req_exit"
  /\ xid' = [xid EXCEPT ![t] = own[t]]
  /\ Goto(t, "ex_dec")
  /\ UNCHANGED <<cpVars, op, ptr, own, prev, cnt, grace>>

-----------------------------------------------------------------------------
(* cp_end(id): in_cp_phase = false; delete id; cur = cp_io_enter(); ...  *)
(* startQ is left to the caller.                                           *)
CpEnd(t, i) ==
  /\ cpState' = [cpState EXCEPT ![i] = "free"]
  /\ waiting' = [waiting EXCEPT ![i] = FALSE]
  /\ inCpPhase' = FALSE
  /\ op' = [op EXCEPT ![t] = "end"]
  /\ pc' = [pc EXCEPT ![t] = "en_rd"]
  /\ stack' = [stack EXCEPT ![t] = <<"end_chk", "idle">>]
  /\ UNCHANGED <<enterCnt, cur, ptr, own, prev, xid, cnt, grace>>

\* Mutant: cp_end run for an epoch that cp_start never handed over.
BeginEndUnguarded(t) ==
  /\ t = FlushThread /\ pc[t] = "idle"
  /\ \E i \in CpIds :
       /\ startQ' = [startQ EXCEPT ![i] = @ - 1]
       /\ CpEnd(t, i)

(* The flush thread calls cp_end(id) once the flush started by cp_start(id) *)
(* is done (the flush itself is IndxCP's).                                 *)
BeginEnd(t) ==
  /\ t = FlushThread /\ pc[t] = "idle"
  /\ \E i \in CpIds :
       /\ startQ[i] > 0
       /\ startQ' = [startQ EXCEPT ![i] = @ - 1]
       /\ CpEnd(t, i)

\* Mutant: cp_end without the follow-up trigger.
EndCheckNoFollowUp(t) ==
  /\ pc[t] = "end_chk"
  /\ own' = [own EXCEPT ![t] = ptr[t]]
  /\ Goto(t, "end_exit")
  /\ UNCHANGED <<cpVars, op, ptr, prev, xid, cnt, grace>>

(* ... if (cur->cp_trigger_waiting) trigger_cp(); ...                     *)
EndCheck(t) ==
  /\ pc[t] = "end_chk"
  /\ own' = [own EXCEPT ![t] = ptr[t]]
  /\ IF waiting[ptr[t]]
       THEN Call(t, "tr_cas", "end_exit")
       ELSE Goto(t, "end_exit")
  /\ UNCHANGED <<cpVars, op, ptr, prev, xid, cnt, grace>>

(* ... cp_io_exit(cur).                                                    *)
EndExit(t) ==
  /\ pc[t] = "end_exit"
  /\ xid' = [xid EXCEPT ![t] = own[t]]
  /\ Goto(t, "ex_dec")
  /\ UNCHANGED <<cpVars, op, ptr, own, prev, cnt, grace>>

-----------------------------------------------------------------------------
\* Steps of an operation already under way.
Continue(t) ==
  \/ EnterRead(t) \/ EnterInc(t) \/ ExitDec(t) \/ ExitCheck(t)
  \/ TriggerCas(t) \/ TriggerMark(t) \/ TriggerPublish(t) \/ TriggerSync(t)
  \/ IoDone(t) \/ RequestFlag(t) \/ RequestExit(t) \/ EndCheck(t) \/ EndExit(t)

\* Starting an operation: up to the users of the engine, never forced.
Begin(t) == BeginIo(t) \/ BeginTimer(t) \/ BeginRequest(t) \/ BeginEnd(t)

Next == \E t \in Procs : Begin(t) \/ Continue(t)

\* Every thread finishes what it started; the indx_mgr thread serves every
\* cp_start it is handed.
Fairness ==
  /\ \A t \in Procs : WF_vars(Continue(t))
  /\ WF_vars(BeginEnd(FlushThread))

Spec == Init /\ [][Next]_vars /\ Fairness

-----------------------------------------------------------------------------
TypeOK ==
  /\ cpState \in [CpIds -> CpStatus]
  /\ enterCnt \in [CpIds -> Int]
  /\ waiting \in [CpIds -> BOOLEAN]
  /\ cur \in CpIds
  /\ inCpPhase \in BOOLEAN
  /\ startQ \in [CpIds -> Nat]
  /\ pc \in [Procs -> Labels]
  /\ stack \in [Procs -> Seq(Labels)]
  /\ op \in [Procs -> {"none", "io", "timer", "req", "end"}]
  /\ ptr \in [Procs -> CpIds \cup {NoId}]
  /\ own \in [Procs -> CpIds \cup {NoId}]
  /\ prev \in [Procs -> CpIds \cup {NoId}]
  /\ xid \in [Procs -> CpIds \cup {NoId}]
  /\ cnt \in [Procs -> Int]
  /\ grace \in [Procs -> SUBSET Procs]

\* Design requirement 2 of checkpoint.hpp and spec section 8.5: at most one
\* checkpoint is between trigger_cp and cp_end, and cp_start is called once
\* for it (cp_io_exit's "cnt == 1 && cp_prepare" test must pick exactly one
\* exiting thread).
SingleCheckpoint ==
  /\ Cardinality({i \in CpIds : cpState[i] \in {"trigger", "prepare", "start"}}) <= 1
  /\ \A i \in CpIds : startQ[i] <= 1

\* Design requirement 1 of checkpoint.hpp and spec section 5: cp_start(id)
\* hands an epoch to the flush only when it is drained, i.e. no thread that
\* did cp_io_enter on it is still short of its fetch_sub in cp_io_exit
\* (I/Os, trigger_cp's own enter, trigger_homeblks_cp, cp_end).
FlushStartsDrained ==
  \A i \in CpIds : cpState[i] = "start" => enterCnt[i] = 0

\* Spec section 8.6 (epoch reclamation safety): no thread dereferences a
\* deleted epoch, neither the pointer cp_io_enter read under rcu_read_lock
\* (synchronize_rcu in trigger_cp keeps cp_end from deleting it before the
\* increment) nor the id cp_io_exit decrements and tests.
NoUseAfterFree ==
  \A t \in Procs :
    /\ pc[t] = "en_inc" => cpState[ptr[t]] # "free"
    /\ pc[t] \in {"ex_dec", "ex_chk"} => cpState[xid[t]] # "free"

\* cp_end's follow-up (checkpoint.hpp:135-137): an epoch flagged by
\* trigger_cp(id) is eventually checkpointed (flushed and deleted), even
\* when the flag was set while another checkpoint was running.
FlaggedEpochIsCheckpointed ==
  \A i \in CpIds : waiting[i] ~> ~waiting[i]

\* The barrier implements its abstract specification: cp_state is the
\* abstract epoch state, enter_cnt counts the entries not yet left,
\* m_cur_cp_id is the current epoch and the cp_start calls not yet ended
\* are the hand-overs to the flush.
Abstract == INSTANCE CheckPointAbstract
              WITH Fresh <- FreshCnt, epoch <- cpState, holders <- enterCnt, current <- cur,
                   handed <- startQ

\* Every behaviour of trigger_cp, cp_io_enter, cp_io_exit and cp_end, with
\* the callers that drive them, is a behaviour of the abstract barrier:
\* no entry into a sealed or deleted epoch (the RCU grace period of
\* trigger_cp), one checkpoint at a time (in_cp_phase), cp_start exactly
\* once and only for a drained epoch (cp_io_exit's "cnt == 1 &&
\* cp_prepare" test), delete only after the flush with nobody inside, and
\* every closed epoch eventually flushed and deleted.
ImplementsAbstract == Abstract!ASpec

=============================================================================
