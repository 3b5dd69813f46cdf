------------------------------ MODULE IndxWrite ------------------------------
(***************************************************************************)
(* The index update of one volume write (IndxMgr::update_indx,             *)
(* update_indx_tbl, retry_update_indx, journal_write and journal_comp_cb   *)
(* in src/src/homeblks/volume/indx_mgr.cpp).                              *)
(*                                                                         *)
(* The request has written its data to the blkids of alloc_blkid_list and  *)
(* now enters the current CP and puts one mapping entry per blkid.  A      *)
(* range put stops at the first btree leaf that a newer CP has already     *)
(* modified (refresh_buf's cp_mismatch) and reports how far it got; the    *)
(* request then enters the new CP and puts the rest again, skipping what   *)
(* is written.  Other requests modify leaves in the current CP; a CP is    *)
(* closed only when the previous one has been flushed, which needs every   *)
(* holder of that CP to have exited.                                       *)
(*                                                                         *)
(* Index entries are reduced to the request's blkid number and the offset  *)
(* in it (0 for data that is not this request's).                          *)
(***************************************************************************)
EXTENDS Naturals, Sequences, SequencesExt

CONSTANTS
    MaxLba,    \* LBAs are 0..MaxLba
    ReqLba,    \* vreq->lba()
    ReqBlks,   \* nlbas of each blkid of alloc_blkid_list
    Leaves,    \* btree leaf nodes
    LeafOf,    \* the leaf holding each LBA
    MaxCp,     \* highest CP id
    Fixes      \* corrections applied, a subset of BugFixes

Plus(a, b) == a + b
NLbas == FoldLeft(Plus, 0, ReqBlks)
ReqRange == ReqLba .. ReqLba + NLbas - 1
Lbas == 0 .. MaxLba

BugFixes == {"VolIdRefresh", "PartialOffset"}
Fixed(f) == f \in Fixes

ASSUME /\ ReqRange \subseteq Lbas /\ NLbas > 0
       /\ LeafOf \in [Lbas -> Leaves]
       /\ Fixes \subseteq BugFixes /\ MaxCp >= 2

VARIABLES
    curCp,    \* id of the open CP
    leafCp,   \* bn->bcp's cp id of each leaf
    index,    \* the active btree: LBA -> [blk, off]
    pc,       \* "idle" | "tbl" | "tblend" | "journal" | "done"
    cpId,     \* vreq->cp_id
    firstCp,  \* vreq->first_cp_id, 0 if none
    volCp,    \* CP of vreq->vol_id, whose btree cp id the puts use
    cpInfo,   \* vreq->cp_info_list: end_lba of each update_indx_tbl
    ti,       \* update_indx_tbl: the blkid being put
    sl,       \* start_lba
    isl,      \* initial_start_lba
    nsl,      \* next_start_lba
    ret,      \* the last put's status
    attempt,  \* 1, or 2 after retry_update_indx
    holds,    \* cp_io_enter counts of this request per CP
    status    \* "none" | "ok" | "failed": m_io_cb's error

vars == <<curCp, leafCp, index, pc, cpId, firstCp, volCp, cpInfo, ti, sl, isl,
          nsl, ret, attempt, holds, status>>

(* First LBA of blkid i and where LBA l belongs in the request. *)
BlkStart(i) == ReqLba + FoldLeft(Plus, 0, SubSeq(ReqBlks, 1, i - 1))
Expected(l) ==
    LET i == CHOOSE k \in 1 .. Len(ReqBlks) :
                 BlkStart(k) <= l /\ l < BlkStart(k) + ReqBlks[k]
    IN [blk |-> i, off |-> l - BlkStart(i)]
Untouched == [blk |-> 0, off |-> 0]

Init ==
    /\ curCp = 1 /\ leafCp = [n \in Leaves |-> 0]
    /\ index = [l \in Lbas |-> Untouched]
    /\ pc = "idle" /\ cpId = 0 /\ firstCp = 0 /\ volCp = 0
    /\ cpInfo = <<>> /\ ti = 1 /\ sl = ReqLba /\ isl = ReqLba /\ nsl = ReqLba
    /\ ret = "success" /\ attempt = 1
    /\ holds = [c \in 0 .. MaxCp |-> 0] /\ status = "none"

-----------------------------------------------------------------------------
(* The state update_indx_tbl starts from: start_lba is the request's lba,  *)
(* initial_start_lba the LBA after the last cp_info entry.                 *)
TblStart(info) ==
    /\ ti' = 1 /\ sl' = ReqLba /\ nsl' = ReqLba
    /\ isl' = IF info = <<>> THEN ReqLba ELSE Last(info) + 1

(* update_indx: enter the current CP and take its volume cp id. *)
UpdateIndx ==
    /\ pc = "idle"
    /\ cpId' = curCp /\ volCp' = curCp
    /\ holds' = [holds EXCEPT ![curCp] = @ + 1]
    /\ TblStart(cpInfo) /\ pc' = "tbl"
    /\ UNCHANGED <<curCp, leafCp, index, firstCp, cpInfo, ret, attempt, status>>

(* The key and value entry update_indx_tbl builds for blkid ti, once the   *)
(* part before initial_start_lba is skipped.                               *)
KeyStart == IF sl < isl THEN isl ELSE sl
(* Mutant: the offset as written, computed after start_lba was moved. *)
KeyOffAsWritten == 0
KeyOff ==
    IF sl < isl /\ Fixed("PartialOffset") THEN isl - sl ELSE 0
KeyLen ==
    IF sl < isl /\ Fixed("PartialOffset") THEN ReqBlks[ti] - (isl - sl)
    ELSE ReqBlks[ti]

(* mapping::put of [s, s + len - 1] with the request's btree cp id: the    *)
(* range put writes up to the first leaf a newer CP modified.              *)
StopAt(s, len) ==
    LET bad == {l \in (s .. s + len - 1) \cap Lbas : leafCp[LeafOf[l]] > volCp}
    IN IF bad = {} THEN s + len ELSE CHOOSE l \in bad : \A k \in bad : l <= k

Put(s, off, len) ==
    LET stop == StopAt(s, len) IN
    /\ index' = [l \in Lbas |-> IF s <= l /\ l < stop
                                 THEN [blk |-> ti, off |-> off + l - s]
                                 ELSE index[l]]
    /\ leafCp' = [n \in Leaves |->
                     IF \E l \in s .. stop - 1 : LeafOf[l] = n
                     THEN IF leafCp[n] < volCp THEN volCp ELSE leafCp[n]
                     ELSE leafCp[n]]
    /\ nsl' = stop
    /\ ret' = IF stop = s + len THEN "success" ELSE "mismatch"
    /\ sl' = s + len
    /\ ti' = ti + 1
    /\ pc' = IF stop = s + len THEN "tbl" ELSE "tblend"

(* One iteration of update_indx_tbl's loop over alloc_blkid_list. *)
TblPut ==
    /\ pc = "tbl" /\ ti <= Len(ReqBlks)
    /\ IF sl < isl /\ isl - sl >= ReqBlks[ti]
       THEN /\ sl' = sl + ReqBlks[ti] /\ ti' = ti + 1
            /\ UNCHANGED <<index, leafCp, nsl, ret, pc>>
       ELSE Put(KeyStart, KeyOff, KeyLen)
    /\ UNCHANGED <<curCp, cpId, firstCp, volCp, cpInfo, isl, attempt, holds, status>>

(* The end of update_indx_tbl: a cp_info entry when anything was written  *)
(* (the fbe count's cp_inc_ref is not modelled); update_indx then retries *)
(* a cp_id_mismatch of the first attempt, and writes the journal.          *)
TblEnd ==
    /\ \/ pc = "tblend"
       \/ pc = "tbl" /\ ti > Len(ReqBlks)
    /\ cpInfo' = IF isl = nsl THEN cpInfo ELSE Append(cpInfo, nsl - 1)
    /\ pc' = IF attempt = 1 /\ ret = "mismatch" THEN "retry" ELSE "journal"
    /\ UNCHANGED <<curCp, leafCp, index, cpId, firstCp, volCp, ti, sl, isl, nsl, ret,
                   attempt, holds, status>>

(* Mutant: retry_update_indx as written, with the old vol_id. *)
RetryStaleVolId ==
    /\ pc = "retry"
    /\ firstCp' = cpId /\ cpId' = curCp
    /\ holds' = [holds EXCEPT ![curCp] = @ + 1]
    /\ attempt' = 2
    /\ TblStart(cpInfo) /\ pc' = "tbl"
    /\ UNCHANGED <<curCp, leafCp, index, cpInfo, ret, status, volCp>>

(* Mutant: first_cp_id is not set. *)
RetryNoFirstCp ==
    /\ pc = "retry"
    /\ cpId' = curCp
    /\ holds' = [holds EXCEPT ![curCp] = @ + 1]
    /\ volCp' = IF Fixed("VolIdRefresh") THEN curCp ELSE volCp
    /\ attempt' = 2
    /\ TblStart(cpInfo) /\ pc' = "tbl"
    /\ UNCHANGED <<curCp, leafCp, index, cpInfo, ret, status, firstCp>>

(* retry_update_indx: keep the first CP, enter the current one and run     *)
(* update_indx_tbl again (vreq->vol_id is not looked up again).            *)
Retry ==
    /\ pc = "retry"
    /\ firstCp' = cpId /\ cpId' = curCp
    /\ holds' = [holds EXCEPT ![curCp] = @ + 1]
    /\ volCp' = IF Fixed("VolIdRefresh") THEN curCp ELSE volCp
    /\ attempt' = 2
    /\ TblStart(cpInfo) /\ pc' = "tbl"
    /\ UNCHANGED <<curCp, leafCp, index, cpInfo, ret, status>>

(* Mutant: first_cp_id is exited without testing it. *)
JournalCompNoFirstTest ==
    LET written == IF cpInfo = <<>> THEN 0 ELSE Last(cpInfo) - ReqLba + 1 IN
    /\ pc = "journal"
    /\ holds' = [c \in DOMAIN holds |->
                    holds[c] - (IF c = cpId THEN 1 ELSE 0)
                             - (IF c = firstCp THEN 1 ELSE 0)]
    /\ status' = IF written = NLbas THEN "ok" ELSE "failed"
    /\ pc' = "done"
    /\ UNCHANGED <<curCp, leafCp, index, cpId, firstCp, volCp, cpInfo, ti, sl, isl, nsl,
                   ret, attempt>>

(* journal_write and journal_comp_cb: exit both CPs and complete the       *)
(* request, as a partial write when cp_info_list does not reach its end.   *)
JournalComp ==
    LET written == IF cpInfo = <<>> THEN 0 ELSE Last(cpInfo) - ReqLba + 1 IN
    /\ pc = "journal"
    /\ holds' = [c \in DOMAIN holds |->
                    holds[c] - (IF c = cpId THEN 1 ELSE 0)
                             - (IF firstCp # 0 /\ c = firstCp THEN 1 ELSE 0)]
    /\ status' = IF written = NLbas THEN "ok" ELSE "failed"
    /\ pc' = "done"
    /\ UNCHANGED <<curCp, leafCp, index, cpId, firstCp, volCp, cpInfo, ti, sl, isl, nsl,
                   ret, attempt>>

(* Another request writes an LBA of leaf n in the open CP. *)
OtherWrite(n) ==
    /\ \E l \in Lbas \ ReqRange : LeafOf[l] = n
    /\ leafCp[n] < curCp
    /\ leafCp' = [leafCp EXCEPT ![n] = curCp]
    /\ UNCHANGED <<curCp, index, pc, cpId, firstCp, volCp, cpInfo, ti, sl, isl, nsl, ret,
                   attempt, holds, status>>

(* trigger_cp opens a new CP; only one CP is in flight, so the previous    *)
(* one must have been flushed, after all its holders exited.               *)
CloseCp ==
    /\ curCp < MaxCp
    /\ curCp = 1 \/ holds[curCp - 1] = 0
    /\ curCp' = curCp + 1
    /\ UNCHANGED <<leafCp, index, pc, cpId, firstCp, volCp, cpInfo, ti, sl, isl, nsl, ret,
                   attempt, holds, status>>

Terminated == pc = "done" /\ UNCHANGED vars

Next ==
    \/ UpdateIndx \/ TblPut \/ TblEnd \/ Retry \/ JournalComp
    \/ \E n \in Leaves : OtherWrite(n)
    \/ CloseCp
    \/ Terminated

Spec == Init /\ [][Next]_vars

-----------------------------------------------------------------------------
IwTypeOK ==
    /\ curCp \in 1 .. MaxCp /\ leafCp \in [Leaves -> 0 .. MaxCp]
    /\ index \in [Lbas -> [blk : 0 .. Len(ReqBlks), off : 0 .. MaxLba]]
    /\ pc \in {"idle", "tbl", "tblend", "retry", "journal", "done"}
    /\ holds \in [0 .. MaxCp -> Nat]
    /\ status \in {"none", "ok", "failed"}

(* retry_update_indx asserts that its update_indx_tbl cannot meet a       *)
(* cp_id_mismatch again, as only two CPs are pending at a time.           *)
RetryResolvesMismatch ==
    attempt = 2 /\ pc \in {"journal", "done"} => ret = "success"

(* The index maps only LBAs of the request, each to its own blkid at its   *)
(* own offset, also after a partial put was resumed from                  *)
(* initial_start_lba; and a write reported done maps all of them.         *)
IndexMatchesRequest ==
    /\ \A l \in Lbas : index[l] # Untouched => l \in ReqRange /\ index[l] = Expected(l)
    /\ status = "ok" => \A l \in ReqRange : index[l] = Expected(l)

(* When the request has completed it holds no CP: journal_comp_cb exits    *)
(* the CP of each update_indx_tbl attempt.                                *)
EpochHoldsReleased == pc = "done" => \A c \in DOMAIN holds : holds[c] = 0

====
