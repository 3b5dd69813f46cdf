---------------------------- MODULE BtreeWbCache ----------------------------
(***************************************************************************)
(* The write-back cache of the SSD btree (src/src/index/btree_wb_cache.hpp) *)
(* for one btree and one flusher thread.                                   *)
(*                                                                         *)
(* Btree I/O threads modify nodes in the current CP: refresh_buf gives the  *)
(* node a private copy of its buffer when the previous CP still has to     *)
(* write the old one, then write() queues a writeback_req in the CP's slot *)
(* (cp_id % MAX_CP_CNT), optionally behind the req of a node it depends    *)
(* on.  When a CP closes, cp_start posts flush_buffers to the flusher      *)
(* thread.  The flusher runs the lambdas of its thread-local stack         *)
(* flush_buffer_q from the back: the list lambda walks m_req_list, the      *)
(* deps lambda of a completed req walks its req_q; each sends the reqs     *)
(* whose dependent_cnt drops to zero and stops (returns false) when the    *)
(* outstanding count exceeds cache_max_throttle_cnt.  writeBack_completion *)
(* runs on the same thread, pushes the deps lambda or resumes the stack    *)
(* below cache_min_throttle_cnt, and calls the CP-done callback when the   *)
(* slot's dirty count reaches zero.                                        *)
(*                                                                         *)
(* A buffer's content is the node's modification count, so a CP's          *)
(* snapshot is comparable with what reached the disk.                      *)
(***************************************************************************)
EXTENDS Naturals, Sequences, FiniteSets, SequencesExt

CONSTANTS
    Nodes,        \* btree nodes
    NoNode,       \* write() without a dependent_bn
    Deps,         \* <<bn, dependent_bn>> pairs the btree writes (acyclic)
    Bufs,         \* memvec buffers
    MaxCp,        \* highest CP id
    MaxMods,      \* modifications per node
    MaxThrottle,  \* cache_max_throttle_cnt
    MinThrottle   \* cache_min_throttle_cnt

ASSUME /\ Deps \subseteq Nodes \X Nodes
       /\ \A p \in Deps : p[1] # p[2]
       /\ NoNode \notin Nodes
       /\ MaxCp >= 2 /\ MinThrottle >= 1

VARIABLES
    cur,       \* id of the current (open) CP
    fl,        \* id of the CP being flushed, 0 if none
    flPhase,   \* "idle" | "posted" (cp_start posted) | "flushing"
    req,       \* req[s][n]: bn->req[s] (st "NONE" is nullptr)
    lst,       \* m_req_list[s]
    dirty,     \* m_dirty_buf_cnt[s]
    bcpOf,     \* bn->bcp's cp_id, 0 if none
    buf,       \* the node's memvec
    content,   \* what each buffer holds
    mods,      \* modifications of each node so far
    snap,      \* snap[c][n]: the node's content when CP c closed
    disk,      \* the node's content on disk
    fq,        \* flush_buffer_q of the flusher thread
    fpc,       \* flusher: "idle" | "drain" (queue_flush_buffers) | "finish"
    cont,      \* <<s, n>> of the completion whose tail is still to run
    outst      \* wb_cache_outstanding_cnt

vars == <<cur, fl, flPhase, req, lst, dirty, bcpOf, buf, content, mods, snap,
          disk, fq, fpc, cont, outst>>

Slots == {0, 1}
Slot(c) == c % 2
ReqStates == {"NONE", "WAITING", "SENT", "COMPL"}
NoReq == [st |-> "NONE", cp |-> 0, mem |-> CHOOSE b \in Bufs : TRUE,
          cnt |-> 0, q |-> <<>>]
InitBuf == CHOOSE f \in [Nodes -> Bufs] :
               \A m, n \in Nodes : f[m] = f[n] => m = n

(* Buffers held by neither a node nor a request. *)
FreeBufs == Bufs \ ({buf[n] : n \in Nodes} \cup
                    {req[p[1]][p[2]].mem :
                        p \in {p \in Slots \X Nodes : req[p[1]][p[2]].st # "NONE"}})

Init ==
    /\ cur = 1 /\ fl = 0 /\ flPhase = "idle"
    /\ req = [s \in Slots |-> [n \in Nodes |-> NoReq]]
    /\ lst = [s \in Slots |-> <<>>]
    /\ dirty = [s \in Slots |-> 0]
    /\ bcpOf = [n \in Nodes |-> 0]
    /\ buf = InitBuf
    /\ content = [b \in Bufs |-> 0]
    /\ mods = [n \in Nodes |-> 0]
    /\ snap = [c \in 1..MaxCp |-> [n \in Nodes |-> 0]]
    /\ disk = [n \in Nodes |-> 0]
    /\ fq = <<>> /\ fpc = "idle" /\ cont = <<>> /\ outst = 0

-----------------------------------------------------------------------------
(* Mutant: refresh_buf copies only while the old request is being written. *)
NeedCopyOnlySent(n) ==
    /\ bcpOf[n] # 0 /\ bcpOf[n] < cur
    /\ req[Slot(cur - 1)][n].st = "SENT"

(* refresh_buf(bn, true, bcp): a copy is needed when bn was last written in *)
(* an older CP whose request has not completed.                            *)
NeedCopy(n) ==
    /\ bcpOf[n] # 0 /\ bcpOf[n] < cur
    /\ req[Slot(cur - 1)][n].st \notin {"NONE", "COMPL"}

(* Mutant: a new request starts with dependent_cnt 0. *)
WriteReqCntZero(s, n, b) ==
    IF req[s][n].st = "NONE"
    THEN [st |-> "WAITING", cp |-> cur, mem |-> b, cnt |-> 0, q |-> <<>>]
    ELSE [req[s][n] EXCEPT !.mem = b]

(* write(bn, dependent_bn, bcp): create the request or point it at the     *)
(* node's buffer, then queue it behind dependent_bn's request.             *)
WriteReq(s, n, b) ==
    IF req[s][n].st = "NONE"
    THEN [st |-> "WAITING", cp |-> cur, mem |-> b, cnt |-> 1, q |-> <<>>]
    ELSE [req[s][n] EXCEPT !.mem = b]

Modify(n, d) ==
    LET s == Slot(cur)
        b == IF NeedCopy(n) THEN CHOOSE x \in FreeBufs : TRUE ELSE buf[n]
        r == WriteReq(s, n, b)
        r1 == IF d = NoNode THEN r ELSE [r EXCEPT !.cnt = @ + 1]
        q1 == [req EXCEPT ![s][n] = r1]
    IN
    /\ mods[n] < MaxMods
    /\ d = NoNode \/ (<<n, d>> \in Deps /\ req[s][d].st # "NONE")
    /\ NeedCopy(n) => FreeBufs # {}
    /\ buf' = [buf EXCEPT ![n] = b]
    /\ content' = [content EXCEPT ![b] = mods[n] + 1]
    /\ mods' = [mods EXCEPT ![n] = @ + 1]
    /\ req' = IF d = NoNode THEN q1 ELSE [q1 EXCEPT ![s][d].q = Append(@, n)]
    /\ IF req[s][n].st = "NONE"
       THEN /\ bcpOf' = [bcpOf EXCEPT ![n] = cur]
            /\ lst' = [lst EXCEPT ![s] = Append(@, n)]
            /\ dirty' = [dirty EXCEPT ![s] = @ + 1]
       ELSE UNCHANGED <<bcpOf, lst, dirty>>
    /\ UNCHANGED <<cur, fl, flPhase, snap, disk, fq, fpc, cont, outst>>

(* The CP closes (its btree cp id is fixed, prepare_cp makes the next one) *)
(* and cp_start posts flush_buffers to the flusher thread.                 *)
CloseCp ==
    /\ flPhase = "idle" /\ cur < MaxCp
    /\ snap' = [snap EXCEPT ![cur] = [n \in Nodes |-> content[buf[n]]]]
    /\ fl' = cur /\ cur' = cur + 1 /\ flPhase' = "posted"
    /\ UNCHANGED <<req, lst, dirty, bcpOf, buf, content, mods, disk, fq, fpc, cont, outst>>

(* m_cp_comp_cb: the btree cp of CP fl is done. *)
CpDone == fl' = 0 /\ flPhase' = "idle"

(* flush_buffers(bcp) on the flusher thread. *)
FlushBuffers ==
    /\ fpc = "idle" /\ flPhase = "posted"
    /\ IF dirty[Slot(fl)] = 0
       THEN CpDone /\ UNCHANGED <<fq, fpc>>
       ELSE /\ fq' = Append(fq, [kind |-> "list", s |-> Slot(fl), i |-> 1, q |-> <<>>])
            /\ fpc' = "drain" /\ flPhase' = "flushing" /\ UNCHANGED fl
    /\ UNCHANGED <<cur, req, lst, dirty, bcpOf, buf, content, mods, snap, disk, cont, outst>>

(* queue_flush_buffers returns: the completion, if one called it, goes on. *)
EndDrain == IF cont = <<>> THEN "idle" ELSE "finish"

(* dependent_cnt.decrement_testz(1) on n's request and, at zero, the write *)
(* to the blkstore; past cache_max_throttle_cnt the lambda returns false.  *)
Send(s, n, fq2) ==
    LET ready == req[s][n].cnt = 1 IN
    /\ req' = [req EXCEPT ![s][n] = [@ EXCEPT !.cnt = @ - 1,
                                              !.st = IF ready THEN "SENT" ELSE @]]
    /\ outst' = IF ready THEN outst + 1 ELSE outst
    /\ fq' = fq2
    /\ fpc' = IF ready /\ outst + 1 > MaxThrottle THEN EndDrain ELSE "drain"

Top == fq[Len(fq)]

(* One element of the list lambda of flush_buffers. *)
RunListItem ==
    /\ fpc = "drain" /\ Top.kind = "list" /\ Top.i <= Len(lst[Top.s])
    /\ Send(Top.s, lst[Top.s][Top.i], [fq EXCEPT ![Len(fq)].i = @ + 1])
    /\ UNCHANGED <<cur, fl, flPhase, lst, dirty, bcpOf, buf, content, mods, snap, disk, cont>>

(* One element of the req_q lambda of writeBack_completion_internal,       *)
(* taken from the back.                                                    *)
RunDepsItem ==
    /\ fpc = "drain" /\ Top.kind = "deps" /\ Top.q # <<>>
    /\ Send(Top.s, Last(Top.q), [fq EXCEPT ![Len(fq)].q = Front(@)])
    /\ UNCHANGED <<cur, fl, flPhase, lst, dirty, bcpOf, buf, content, mods, snap, disk, cont>>

(* Mutant: the list lambda does not clear m_req_list. *)
LambdaDoneNoClear ==
    /\ fpc = "drain"
    /\ \/ Top.kind = "list" /\ Top.i > Len(lst[Top.s])
       \/ Top.kind = "deps" /\ Top.q = <<>>
    /\ fq' = Front(fq)
    /\ fpc' = IF Len(fq) = 1 THEN EndDrain ELSE "drain"
    /\ UNCHANGED <<cur, fl, flPhase, lst, req, dirty, bcpOf, buf, content, mods, snap, disk, cont, outst>>

(* A lambda returns true and is popped; the list lambda clears the list.   *)
LambdaDone ==
    /\ fpc = "drain"
    /\ \/ Top.kind = "list" /\ Top.i > Len(lst[Top.s])
       \/ Top.kind = "deps" /\ Top.q = <<>>
    /\ lst' = IF Top.kind = "list" THEN [lst EXCEPT ![Top.s] = <<>>] ELSE lst
    /\ fq' = Front(fq)
    /\ fpc' = IF Len(fq) = 1 THEN EndDrain ELSE "drain"
    /\ UNCHANGED <<cur, fl, flPhase, req, dirty, bcpOf, buf, content, mods, snap, disk, cont, outst>>

(* Mutant: a completion without req_q never resumes the stopped lambdas. *)
WriteBackCompletionNoResume(n) ==
    LET s == Slot(fl)
        r == req[s][n]
    IN
    /\ fpc = "idle" /\ fl # 0 /\ r.st = "SENT"
    /\ req' = [req EXCEPT ![s][n].st = "COMPL"]
    /\ disk' = [disk EXCEPT ![n] = content[r.mem]]
    /\ outst' = outst - 1
    /\ cont' = <<s, n>>
    /\ IF r.q # <<>>
       THEN fq' = Append(fq, [kind |-> "deps", s |-> s, i |-> 0, q |-> r.q]) /\ fpc' = "drain"
       ELSE fpc' = "finish" /\ UNCHANGED fq
    /\ UNCHANGED <<cur, fl, flPhase, lst, dirty, bcpOf, buf, content, mods, snap>>

(* writeBack_completion_internal up to the queue run: the write of n's     *)
(* request reached the disk.                                               *)
WriteBackCompletion(n) ==
    LET s == Slot(fl)
        r == req[s][n]
    IN
    /\ fpc = "idle" /\ fl # 0 /\ r.st = "SENT"
    /\ req' = [req EXCEPT ![s][n].st = "COMPL"]
    /\ disk' = [disk EXCEPT ![n] = content[r.mem]]
    /\ outst' = outst - 1
    /\ cont' = <<s, n>>
    /\ IF r.q # <<>>
       THEN fq' = Append(fq, [kind |-> "deps", s |-> s, i |-> 0, q |-> r.q]) /\ fpc' = "drain"
       ELSE /\ fpc' = IF outst - 1 < MinThrottle /\ fq # <<>> THEN "drain" ELSE "finish"
            /\ UNCHANGED fq
    /\ UNCHANGED <<cur, fl, flPhase, lst, dirty, bcpOf, buf, content, mods, snap>>

(* Mutant: bn->req[cp_id] is not reset. *)
CompletionDoneKeepReq ==
    LET s == cont[1]
    IN
    /\ fpc = "finish"
    /\ dirty' = [dirty EXCEPT ![s] = @ - 1]
    /\ IF dirty[s] = 1 THEN CpDone ELSE UNCHANGED <<fl, flPhase>>
    /\ fpc' = "idle" /\ cont' = <<>>
    /\ UNCHANGED <<cur, req, lst, bcpOf, buf, content, mods, snap, disk, fq, outst>>

(* The rest of writeBack_completion_internal: bn->req[cp_id] = nullptr and *)
(* the dirty count; the last one calls the CP-done callback.               *)
CompletionDone ==
    LET s == cont[1]
        n == cont[2]
    IN
    /\ fpc = "finish"
    /\ req' = [req EXCEPT ![s][n] = NoReq]
    /\ dirty' = [dirty EXCEPT ![s] = @ - 1]
    /\ IF dirty[s] = 1 THEN CpDone ELSE UNCHANGED <<fl, flPhase>>
    /\ fpc' = "idle" /\ cont' = <<>>
    /\ UNCHANGED <<cur, lst, bcpOf, buf, content, mods, snap, disk, fq, outst>>

(* Every CP has been flushed and every node modified as often as allowed. *)
Terminated ==
    /\ cur = MaxCp /\ flPhase = "idle" /\ fpc = "idle"
    /\ \A n \in Nodes : mods[n] = MaxMods
    /\ UNCHANGED vars

FlusherStep ==
    \/ FlushBuffers \/ RunListItem \/ RunDepsItem \/ LambdaDone \/ CompletionDone
    \/ \E n \in Nodes : WriteBackCompletion(n)

Next ==
    \/ \E n \in Nodes, d \in Nodes \cup {NoNode} : Modify(n, d)
    \/ CloseCp
    \/ FlusherStep
    \/ Terminated

(* The flusher is an iomanager thread that runs what is posted to it, and *)
(* the device completes every write it was sent.                          *)
Fairness ==
    /\ WF_vars(FlushBuffers) /\ WF_vars(RunListItem) /\ WF_vars(RunDepsItem)
    /\ WF_vars(LambdaDone) /\ WF_vars(CompletionDone)
    /\ \A n \in Nodes : WF_vars(WriteBackCompletion(n))

Spec == Init /\ [][Next]_vars /\ Fairness

-----------------------------------------------------------------------------
ReqRec == [st : ReqStates, cp : 0..MaxCp, mem : Bufs, cnt : 0..(MaxMods * Cardinality(Nodes) + 1),
           q : Seq(Nodes)]

WbTypeOK ==
    /\ cur \in 1..MaxCp /\ fl \in 0..MaxCp
    /\ flPhase \in {"idle", "posted", "flushing"}
    /\ req \in [Slots -> [Nodes -> ReqRec]]
    /\ dirty \in [Slots -> Nat] /\ buf \in [Nodes -> Bufs]
    /\ content \in [Bufs -> 0..MaxMods] /\ disk \in [Nodes -> 0..MaxMods]
    /\ fpc \in {"idle", "drain", "finish"} /\ outst \in Nat
    /\ \A n \in Nodes : req[Slot(cur)][n].st \in {"NONE", "WAITING"}

(* When no CP is being flushed, the disk holds every node as it was when  *)
(* the last CP closed: refresh_buf's copy keeps later modifications out   *)
(* of the in-flight write, and writeBack_completion ends the CP only after *)
(* every request of the slot was written.                                 *)
CpPersisted == flPhase = "idle" /\ cur > 1 => disk = snap[cur - 1]

(* A request queued behind another one (on its req_q) is not sent before  *)
(* that one completes: dependent_cnt starts at 1 and counts each write()  *)
(* with a dependent_bn.                                                   *)
DependencyOrder ==
    \A s \in Slots, d, n \in Nodes :
        req[s][d].st \in {"WAITING", "SENT"} /\ n \in Range(req[s][d].q)
            => req[s][n].st = "WAITING"

(* The slot of the open CP (cp_id % MAX_CP_CNT) holds only that CP's      *)
(* requests: prepare_cp's asserts that the slot's dirty count and list    *)
(* are empty when it is reused two CPs later.                             *)
SlotHoldsOpenCp ==
    /\ \A n \in Nodes : req[Slot(cur)][n].st # "NONE" => req[Slot(cur)][n].cp = cur
    /\ \A i \in 1..Len(lst[Slot(cur)]) : req[Slot(cur)][lst[Slot(cur)][i]].cp = cur

(* A CP posted to the flusher is eventually done (m_cp_comp_cb), even when *)
(* the flush lambdas were throttled.                                      *)
FlushCompletes == flPhase = "posted" ~> flPhase = "idle"

====
