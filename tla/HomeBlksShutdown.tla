--------------------------- MODULE HomeBlksShutdown ---------------------------
(***************************************************************************)
(* The volume lifecycle of HomeBlks as the shutdown protocol sees it: the  *)
(* static counter Volume::home_blks_ref_cnt and the per-volume             *)
(* vol_ref_cnt, user I/O on a volume, volume create and remove/destroy,    *)
(* HomeBlks::trigger_shutdown / do_shutdown / do_volume_shutdown, and the  *)
(* homeblks checkpoint as far as it drives these (first-CP attach of a new *)
(* volume, the destroy prepare callbacks, the CP callback list).           *)
(*                                                                         *)
(* Sources: src/homeblks/home_blks.cpp, src/homeblks/volume/volume.cpp,    *)
(* src/homeblks/volume/indx_mgr.cpp.  A checkpoint is one prepare step     *)
(* followed by its callbacks one at a time; the epoch barrier inside it is *)
(* the subject of CheckPoint.tla and IndxCP.tla.  Every atomic access to a *)
(* counter or flag is its own step where another thread can interleave.    *)
(***************************************************************************)
EXTENDS Naturals, FiniteSets

CONSTANTS
    Vols,        \* volume uuids
    InitVols,    \* volumes found by meta-blk recovery at boot
    Reqs,        \* user I/O requests, each submitted at most once
    Removers,    \* threads calling HomeBlks::remove_volume
    Rec,         \* the init thread running meta_blk_recovery_comp
    RefMod,      \* the range of the uint64 counters (2^64), abstracted
    Fixes        \* which of BugFixes are applied to the code

ASSUME InitVols \subseteq Vols /\ RefMod > 2 /\ Rec \notin Removers

\* the threads that run Volume::destroy
Threads == Removers \cup {Rec}

(* Candidate corrections of the code, each switched on by a cfg:           *)
(*  CbChecksShutdown: destroy_internal's callback tests is_shutdown()      *)
(*                    before do_volume_shutdown(true), like its siblings;  *)
(*  DestroyReturns:   Volume::destroy returns after giving back its ref    *)
(*                    when shutdown has started;                           *)
(*  OfflineDestroyed: Volume::is_offline also refuses a DESTROYED volume;  *)
(*  RedestroyGuard:   Volume::destroy treats DESTROYED like DESTROYING;    *)
(*  InitYieldsToShutdown: trigger_cp_init and its callback finish init    *)
(*                    (m_init_finished) at once when is_shutdown().        *)
BugFixes == {"CbChecksShutdown", "DestroyReturns", "OfflineDestroyed", "RedestroyGuard",
             "InitYieldsToShutdown"}
Fixed(f) == f \in Fixes

VARIABLES
    hbRef,         \* Volume::home_blks_ref_cnt
    volRef,        \* Volume::vol_ref_cnt per volume
    vstate,        \* Volume::m_state; "ABSENT" before construction, "CTOR" inside it
    volMap,        \* HomeBlks::m_volume_map (its keys)
    attached,      \* the volume's m_first_cp_id has joined a homeblks CP
    idxStarted,    \* Volume::m_indx_mgr_destroy_started
    dstage,        \* progress of IndxMgr::destroy of the volume
    rdy,           \* HomeBlks::m_rdy and m_init_finished (set together)
    shutTime,      \* HomeBlks::m_shutdown_start_time # 0, i.e. is_shutdown()
    shutForce,     \* the force argument of trigger_shutdown
    sdPc,          \* the hb_shutdown thread: "none", "run" (do_shutdown due), "done"
    startShutdown, \* HomeBlks::m_start_shutdown
    volShutCmpltd, \* HomeBlks::m_vol_shutdown_cmpltd
    cleanFlag,     \* HOMEBLKS_SB_FLAGS_CLEAN_SHUTDOWN written
    shutStarted,   \* IndxMgr::m_shutdown_started
    initAbort,     \* trigger_cp_init's callback got success = false: the
                   \* HS_ASSERT(RELEASE) aborted the process
    cpTimer,       \* IndxMgr::m_homeblks_cp_timer_hdl armed
    cpTrig,        \* a homeblks CP has been triggered and not yet prepared
    cpPhase,       \* "idle" or "cb": a prepared CP is calling its callbacks
    cbs,           \* callbacks queued on the next CP: "init", "shut"
    runCbs,        \* the same, of the CP being completed
    runDcbs,       \* volumes whose destroy stop callback the CP will call
    iopc, iovol,   \* user I/O requests
    rpc, rvol,     \* remove_volume callers
    found,         \* the recovered volumes m_cfg.vol_found_cb accepts
    scanLeft,      \* volumes meta_blk_recovery_comp's loop has still to visit
    mntCnt,        \* its vol_mnt_cnt
    recPc          \* the init thread: "scan", "wait" (in destroy), "cp"

recVars == <<found, scanLeft, mntCnt, recPc>>
hbVars  == <<recVars, hbRef, rdy, shutTime, shutForce, sdPc, startShutdown, volShutCmpltd, cleanFlag>>
volVars == <<volRef, vstate, volMap, attached, idxStarted, dstage>>
cpVars  == <<shutStarted, initAbort, cpTimer, cpTrig, cpPhase, cbs, runCbs, runDcbs>>
vars    == <<hbVars, volVars, cpVars, iopc, iovol, rpc, rvol>>

VStates == {"ABSENT", "CTOR", "ONLINE", "DESTROYING", "DESTROYED"}
DStages == {"none", "journal", "prep1", "tbl", "prep2", "cb", "done"}

\* fetch_sub(1) on a uint64
Dec(x) == (x + RefMod - 1) % RefMod
Inc(x) == (x + 1) % RefMod

\* HomeBlks::is_shutdown (home_blks.hpp): m_shutdown_start_time was set
IsShutdown == shutTime

\* Volume::can_all_vols_shutdown (volume.hpp): home_blks_ref_cnt == 0
CanAllVolsShutdown == hbRef = 0

\* Mutant: a DESTROYED volume is not offline (the code as written).
IsOfflineNoDestroyed(v) ==
    \/ vstate[v] = "DESTROYING"
    \/ IsShutdown

\* Volume::is_offline
IsOffline(v) ==
    \/ vstate[v] = "DESTROYING"
    \/ IsShutdown
    \/ Fixed("OfflineDestroyed") /\ vstate[v] = "DESTROYED"

\* what IndxMgr::trigger_homeblks_cp writes
cpReq == <<shutStarted, cbs, cpTrig, initAbort>>

(***************************************************************************)
(* IndxMgr::trigger_homeblks_cp(cb, shutdown): the CAS on                 *)
(* m_shutdown_started fails once a shutdown CP was triggered; then no CP   *)
(* is triggered and cb(false) is called at once, which for                 *)
(* trigger_cp_init's callback is HS_ASSERT(RELEASE, success) failing.      *)
(* Otherwise cb joins the current CP.                                      *)
(***************************************************************************)
TriggerHomeblksCp(cb, shutdown) ==
    IF shutStarted
    THEN /\ initAbort' = (initAbort \/ cb = "init")
         /\ UNCHANGED <<shutStarted, cbs, cpTrig>>
    ELSE /\ shutStarted' = shutdown
         /\ cbs' = IF cb = "none" THEN cbs ELSE cbs \cup {cb}
         /\ cpTrig' = TRUE
         /\ UNCHANGED initAbort

vsVars == <<startShutdown, cpTimer, cpReq>>

(***************************************************************************)
(* HomeBlks::do_volume_shutdown(force); the started volume shutdown is     *)
(* Volume::shutdown = IndxMgr::shutdown, which cancels the CP timer and    *)
(* triggers the last CP with the "shut" callback.                          *)
(***************************************************************************)
DoVolumeShutdown(force) ==
    IF ~force /\ ~CanAllVolsShutdown
    THEN /\ TriggerHomeblksCp("none", FALSE)
         /\ UNCHANGED <<startShutdown, cpTimer>>
    ELSE IF startShutdown
    THEN UNCHANGED vsVars
    ELSE /\ startShutdown' = TRUE
         /\ cpTimer' = FALSE
         /\ TriggerHomeblksCp("shut", TRUE)

\* Volume::destroy_internal: the exchange on m_indx_mgr_destroy_started,
\* then IndxMgr::destroy appends the destroying journal entry.
DestroyInternal(v) ==
    IF idxStarted[v]
    THEN UNCHANGED <<idxStarted, dstage>>
    ELSE /\ idxStarted' = [idxStarted EXCEPT ![v] = TRUE]
         /\ dstage' = [dstage EXCEPT ![v] = "journal"]

\* Volume::shutdown_if_needed: both fetch_subs, then the two tests on the
\* values they returned.
ShutdownIfNeeded(v) ==
    /\ hbRef' = Dec(hbRef)
    /\ volRef' = [volRef EXCEPT ![v] = Dec(@)]
    /\ IF hbRef = 1 /\ IsShutdown THEN DoVolumeShutdown(TRUE) ELSE UNCHANGED vsVars
    /\ IF volRef[v] = 1 /\ vstate[v] = "DESTROYING"
       THEN DestroyInternal(v) ELSE UNCHANGED <<idxStarted, dstage>>

Init ==
    /\ hbRef = Cardinality(InitVols)   \* the recovery constructor's ++home_blks_ref_cnt
    /\ volRef = [v \in Vols |-> 0]
    /\ vstate = [v \in Vols |-> IF v \in InitVols THEN "ONLINE" ELSE "ABSENT"]
    /\ volMap = InitVols
    /\ attached = [v \in Vols |-> FALSE]
    /\ idxStarted = [v \in Vols |-> FALSE]
    /\ dstage = [v \in Vols |-> "none"]
    /\ rdy = FALSE
    /\ shutTime = FALSE /\ shutForce = FALSE /\ sdPc = "none"
    /\ startShutdown = FALSE /\ volShutCmpltd = FALSE /\ cleanFlag = FALSE
    /\ shutStarted = FALSE /\ initAbort = FALSE /\ cpTimer = TRUE
    /\ cpTrig = FALSE /\ cbs = {}
    /\ cpPhase = "idle" /\ runCbs = {} /\ runDcbs = {}
    /\ iopc = [r \in Reqs |-> "idle"] /\ iovol = [r \in Reqs |-> CHOOSE v \in Vols : TRUE]
    /\ rpc = [d \in Threads |-> "idle"] /\ rvol = [d \in Threads |-> CHOOSE v \in Vols : TRUE]
    /\ found \in SUBSET InitVols
    /\ scanLeft = InitVols /\ mntCnt = 0 /\ recPc = "scan"

(***************************************************************************)
(* User I/O: HomeBlks::write/read, Volume::write/read, the completion in   *)
(* check_and_complete_req.  Data write, index update and journal append    *)
(* are one step here; their ordering is the subject of IndxCP.tla.         *)
(***************************************************************************)
\* HomeBlks::write: refused while not ready or shutting down
IoSubmit(r, v) ==
    /\ iopc[r] = "idle" /\ rdy /\ ~IsShutdown
    /\ vstate[v] \notin {"ABSENT", "CTOR"}
    /\ iopc' = [iopc EXCEPT ![r] = "inc"] /\ iovol' = [iovol EXCEPT ![r] = v]
    /\ UNCHANGED <<hbVars, volVars, cpVars, rpc, rvol>>

\* Volume::write: ++home_blks_ref_cnt; ++vol_ref_cnt
IoRefInc(r) ==
    /\ iopc[r] = "inc"
    /\ hbRef' = Inc(hbRef)
    /\ volRef' = [volRef EXCEPT ![iovol[r]] = Inc(@)]
    /\ iopc' = [iopc EXCEPT ![r] = "chk"]
    /\ UNCHANGED <<recVars, rdy, shutTime, shutForce, sdPc, startShutdown, volShutCmpltd, cleanFlag,
                   vstate, volMap, attached, idxStarted, dstage, cpVars, iovol, rpc, rvol>>

\* check_and_complete_req on completion: shutdown_if_needed gives both refs back
CompleteReq(r) ==
    /\ iopc' = [iopc EXCEPT ![r] = "done"]
    /\ ShutdownIfNeeded(iovol[r])
    /\ UNCHANGED <<recVars, rdy, shutTime, shutForce, sdPc, volShutCmpltd, cleanFlag,
                   vstate, volMap, attached, cpPhase, runCbs, runDcbs, iovol, rpc, rvol>>

\* the is_offline test: an offline volume completes the request with an error
IoOfflineCheck(r) ==
    /\ iopc[r] = "chk"
    /\ IF IsOffline(iovol[r])
       THEN CompleteReq(r)
       ELSE /\ iopc' = [iopc EXCEPT ![r] = "io"]
            /\ UNCHANGED <<hbVars, volVars, cpVars, iovol, rpc, rvol>>

\* the data write, index update and journal append all completed
IoComplete(r) ==
    /\ iopc[r] = "io"
    /\ CompleteReq(r)

(***************************************************************************)
(* Volume create: HomeBlks::create_volume(params) and the constructor,     *)
(* which holds a home_blks ref until the volume joins its first CP.        *)
(***************************************************************************)
CreateVolume(v) ==
    /\ rdy /\ ~IsShutdown /\ vstate[v] = "ABSENT"
    /\ hbRef' = Inc(hbRef)
    /\ vstate' = [vstate EXCEPT ![v] = "CTOR"]
    /\ UNCHANGED <<recVars, rdy, shutTime, shutForce, sdPc, startShutdown, volShutCmpltd, cleanFlag,
                   volRef, volMap, attached, idxStarted, dstage, cpVars, iopc, iovol, rpc, rvol>>

\* Volume::init of a new volume: its index manager, then set_state(ONLINE)
VolInit(v) == vstate' = [vstate EXCEPT ![v] = "ONLINE"]

\* HomeBlks::create_volume(VolumePtr): the insert into m_volume_map
HbAddVolume(v) == volMap' = volMap \cup {v}

\* the constructor's is_shutdown test; otherwise init() and the map insert
CreateCheck(v) ==
    /\ vstate[v] = "CTOR"
    /\ IF IsShutdown
       THEN /\ hbRef' = Dec(hbRef)
            /\ IF hbRef = 1 THEN DoVolumeShutdown(TRUE) ELSE UNCHANGED vsVars
            /\ vstate' = [vstate EXCEPT ![v] = "ABSENT"]
            /\ UNCHANGED volMap
       ELSE /\ VolInit(v)
            /\ HbAddVolume(v)
            /\ UNCHANGED <<hbRef, vsVars>>
    /\ UNCHANGED <<recVars, rdy, shutTime, shutForce, sdPc, volShutCmpltd, cleanFlag,
                   volRef, attached, idxStarted, dstage, cpPhase, runCbs, runDcbs,
                   iopc, iovol, rpc, rvol>>
(***************************************************************************)
(* Volume remove: HomeBlks::remove_volume_internal(uuid, false) and        *)
(* Volume::destroy.  The map lookup and the destroy call are separate      *)
(* steps: the lock on m_vol_lock is released between them.                 *)
(***************************************************************************)
RemoveVolume(d, v) ==
    /\ rpc[d] = "idle" /\ rdy /\ ~IsShutdown /\ v \in volMap
    /\ rpc' = [rpc EXCEPT ![d] = "inc"] /\ rvol' = [rvol EXCEPT ![d] = v]
    /\ UNCHANGED <<hbVars, volVars, cpVars, iopc, iovol>>

\* Volume::destroy: ++home_blks_ref_cnt
DestroyRefInc(d) ==
    /\ rpc[d] = "inc"
    /\ hbRef' = Inc(hbRef)
    /\ rpc' = [rpc EXCEPT ![d] = "shutchk"]
    /\ UNCHANGED <<recVars, rdy, shutTime, shutForce, sdPc, startShutdown, volShutCmpltd, cleanFlag,
                   volVars, cpVars, iopc, iovol, rvol>>

\* Mutant: destroy goes on after giving its ref back (the code as written).
DestroyShutdownCheckNoReturn(d) ==
    /\ rpc[d] = "shutchk"
    /\ rpc' = [rpc EXCEPT ![d] = "state"]
    /\ IF IsShutdown
       THEN /\ hbRef' = Dec(hbRef)
            /\ IF hbRef = 1 THEN DoVolumeShutdown(TRUE) ELSE UNCHANGED vsVars
       ELSE UNCHANGED <<hbRef, vsVars>>
    /\ UNCHANGED <<recVars, rdy, shutTime, shutForce, sdPc, volShutCmpltd, cleanFlag,
                   volVars, cpPhase, runCbs, runDcbs, iopc, iovol, rvol>>

\* the is_shutdown test: the ref is given back, and the code goes on
DestroyShutdownCheck(d) ==
    /\ rpc[d] = "shutchk"
    /\ IF IsShutdown
       THEN /\ hbRef' = Dec(hbRef)
            /\ IF hbRef = 1 THEN DoVolumeShutdown(TRUE) ELSE UNCHANGED vsVars
            /\ rpc' = [rpc EXCEPT ![d] = IF Fixed("DestroyReturns") THEN "done" ELSE "state"]
       ELSE /\ rpc' = [rpc EXCEPT ![d] = "state"]
            /\ UNCHANGED <<hbRef, vsVars>>
    /\ UNCHANGED <<recVars, rdy, shutTime, shutForce, sdPc, volShutCmpltd, cleanFlag,
                   volVars, cpPhase, runCbs, runDcbs, iopc, iovol, rvol>>

\* Mutant: only DESTROYING counts as a destroy in progress (the code as written).
DestroySetStateNoGuard(d) ==
    LET v == rvol[d] IN
    /\ rpc[d] = "state"
    /\ volRef' = [volRef EXCEPT ![v] = Inc(@)]
    /\ vstate' = [vstate EXCEPT ![v] = "DESTROYING"]
    /\ rpc' = [rpc EXCEPT ![d] = IF vstate[v] = "DESTROYING" THEN "sid" ELSE "dec"]
    /\ UNCHANGED <<hbVars, volMap, attached, idxStarted, dstage, cpVars, iopc, iovol, rvol>>

\* ++vol_ref_cnt; set_state(DESTROYING) exchanges the state (and writes the sb)
DestroySetState(d) ==
    LET v == rvol[d]
        again == \/ vstate[v] = "DESTROYING"
                 \/ Fixed("RedestroyGuard") /\ vstate[v] = "DESTROYED"
    IN /\ rpc[d] = "state"
       /\ volRef' = [volRef EXCEPT ![v] = Inc(@)]
       /\ vstate' = [vstate EXCEPT ![v] = "DESTROYING"]
       /\ rpc' = [rpc EXCEPT ![d] = IF again THEN "sid" ELSE "dec"]
       /\ UNCHANGED <<hbVars, volMap, attached, idxStarted, dstage, cpVars, iopc, iovol, rvol>>

\* destroy already in progress: shutdown_if_needed and return
DestroyAgain(d) ==
    /\ rpc[d] = "sid"
    /\ rpc' = [rpc EXCEPT ![d] = "done"]
    /\ ShutdownIfNeeded(rvol[d])
    /\ UNCHANGED <<recVars, rdy, shutTime, shutForce, sdPc, volShutCmpltd, cleanFlag,
                   vstate, volMap, attached, cpPhase, runCbs, runDcbs, iopc, iovol, rvol>>

\* m_destroy_done_cb = cb; the last vol ref starts destroy_internal
DestroyRefDec(d) ==
    LET v == rvol[d] IN
    /\ rpc[d] = "dec"
    /\ volRef' = [volRef EXCEPT ![v] = Dec(@)]
    /\ IF volRef[v] = 1 THEN DestroyInternal(v) ELSE UNCHANGED <<idxStarted, dstage>>
    /\ rpc' = [rpc EXCEPT ![d] = "done"]
    /\ UNCHANGED <<hbVars, vstate, volMap, attached, cpVars, iopc, iovol, rvol>>

\* the append_async callback of the destroying journal entry adds the
\* first prepare callback
DestroyJournalDone(v) ==
    /\ dstage[v] = "journal"
    /\ dstage' = [dstage EXCEPT ![v] = "prep1"]
    /\ UNCHANGED <<hbVars, volRef, vstate, volMap, attached, idxStarted, cpVars,
                   iopc, iovol, rpc, rvol>>

\* IndxMgr::destroy_indx_tbl on the indx_mgr thread: btree destroy, then
\* the volume_destroy_cp prepare callback
DestroyIndxTbl(v) ==
    /\ dstage[v] = "tbl"
    /\ dstage' = [dstage EXCEPT ![v] = "prep2"]
    /\ UNCHANGED <<hbVars, volRef, vstate, volMap, attached, idxStarted, cpVars,
                   iopc, iovol, rpc, rvol>>
(***************************************************************************)
(* Boot: HomeBlks::meta_blk_recovery_comp, on the init thread, walks the  *)
(* recovered volumes under m_vol_lock; one that vol_found_cb refuses is    *)
(* removed by remove_volume_internal(uuid, true) (busy once is_shutdown(), *)
(* else Volume::destroy, run to its return), the others are counted in     *)
(* vol_mnt_cnt; then trigger_cp_init(vol_mnt_cnt).                         *)
(***************************************************************************)
RecScan(v) ==
    /\ recPc = "scan" /\ v \in scanLeft
    /\ scanLeft' = scanLeft \ {v}
    /\ IF v \in found
       THEN /\ mntCnt' = mntCnt + 1
            /\ UNCHANGED <<recPc, rpc, rvol>>
       ELSE IF IsShutdown \/ v \notin volMap
       THEN UNCHANGED <<mntCnt, recPc, rpc, rvol>>
       ELSE /\ rpc' = [rpc EXCEPT ![Rec] = "inc"] /\ rvol' = [rvol EXCEPT ![Rec] = v]
            /\ recPc' = "wait"
            /\ UNCHANGED mntCnt
    /\ UNCHANGED <<found, hbRef, rdy, shutTime, shutForce, sdPc, startShutdown, volShutCmpltd,
                   cleanFlag, volVars, cpVars, iopc, iovol>>

\* Volume::destroy has returned to the loop
RecDestroyReturned ==
    /\ recPc = "wait" /\ rpc[Rec] = "done"
    /\ rpc' = [rpc EXCEPT ![Rec] = "idle"]
    /\ recPc' = "scan"
    /\ UNCHANGED <<found, scanLeft, mntCnt, hbRef, rdy, shutTime, shutForce, sdPc, startShutdown,
                   volShutCmpltd, cleanFlag, volVars, cpVars, iopc, iovol, rvol>>

\* Mutant: trigger_cp_init as written, whether or not a shutdown started.
RecTriggerCpInitAsWritten ==
    /\ recPc = "scan" /\ scanLeft = {}
    /\ recPc' = "cp"
    /\ TriggerHomeblksCp("init", FALSE)
    /\ UNCHANGED <<found, scanLeft, mntCnt, hbRef, rdy, shutTime, shutForce, sdPc, startShutdown,
                   volShutCmpltd, cleanFlag, volVars, cpTimer, cpPhase, runCbs, runDcbs,
                   iopc, iovol, rpc, rvol>>

\* trigger_cp_init(vol_mnt_cnt) after the loop
RecTriggerCpInit ==
    /\ recPc = "scan" /\ scanLeft = {}
    /\ recPc' = "cp"
    /\ IF Fixed("InitYieldsToShutdown") /\ IsShutdown
       THEN /\ rdy' = TRUE
            /\ UNCHANGED cpReq
       ELSE /\ TriggerHomeblksCp("init", FALSE)
            /\ UNCHANGED rdy
    /\ UNCHANGED <<found, scanLeft, mntCnt, hbRef, shutTime, shutForce, sdPc, startShutdown,
                   volShutCmpltd, cleanFlag, volVars, cpTimer, cpPhase, runCbs, runDcbs,
                   iopc, iovol, rpc, rvol>>

(***************************************************************************)
(* The homeblks CP.  Prepare (IndxCP::cp_attach_prepare): a volume of the  *)
(* map that has not joined a CP yet joins it and gives back the            *)
(* constructor's ref (IndxMgr::attach_prepare_vol_cp with a null           *)
(* cur_vol_id); the others run their prepare callbacks: the first suspends *)
(* the volume and schedules destroy_indx_tbl, the second                   *)
(* (volume_destroy_cp in a blkalloc CP) queues the destroy stop callback.  *)
(* Every CP here is triggered through trigger_homeblks_cp, so it takes the *)
(* blkalloc checkpoint and blkalloc_cp calls its callback list.            *)
(***************************************************************************)
PrepareStage(st) ==
    CASE st = "prep1" -> "tbl"
      [] st = "prep2" -> "cb"
      [] OTHER        -> st

CpPrepare ==
    LET newVols == {v \in volMap : ~attached[v]}
        oldVols == volMap \ newVols
    IN /\ cpPhase = "idle" /\ cpTrig
       /\ attached' = [v \in Vols |-> attached[v] \/ v \in newVols]
       /\ hbRef' = (hbRef + Cardinality(newVols) * (RefMod - 1)) % RefMod
       /\ dstage' = [v \in Vols |-> IF v \in oldVols THEN PrepareStage(dstage[v]) ELSE dstage[v]]
       /\ runDcbs' = {v \in oldVols : dstage[v] = "prep2"}
       /\ runCbs' = cbs
       /\ cbs' = {} /\ cpTrig' = FALSE /\ cpPhase' = "cb"
       /\ UNCHANGED <<recVars, rdy, shutTime, shutForce, sdPc, startShutdown, volShutCmpltd, cleanFlag,
                      volRef, vstate, volMap, idxStarted, shutStarted, initAbort, cpTimer,
                      iopc, iovol, rpc, rvol>>

\* trigger_cp_init's callback: while m_volume_map still holds a volume
\* besides the vol_mnt_cnt mounted ones (a removal at boot not finished),
\* trigger_cp_init again; otherwise init completes (m_rdy,
\* m_init_finished).  The volumes' is_recovery_done is taken as true.
CpInitDone ==
    /\ cpPhase = "cb" /\ "init" \in runCbs
    /\ runCbs' = runCbs \ {"init"}
    /\ IF Cardinality(volMap) # mntCnt /\ ~(Fixed("InitYieldsToShutdown") /\ IsShutdown)
       THEN /\ TriggerHomeblksCp("init", FALSE)
            /\ UNCHANGED rdy
       ELSE /\ rdy' = TRUE
            /\ UNCHANGED cpReq
    /\ UNCHANGED <<recVars, hbRef, shutTime, shutForce, sdPc, startShutdown, volShutCmpltd, cleanFlag,
                   volVars, cpTimer, cpPhase, runDcbs, iopc, iovol, rpc, rvol>>

\* Volume::shutdown's callback in do_volume_shutdown: clear the map and
\* mark the volumes shut down
CpShutdownDone ==
    /\ cpPhase = "cb" /\ "shut" \in runCbs
    /\ runCbs' = runCbs \ {"shut"}
    /\ volMap' = {}
    /\ volShutCmpltd' = TRUE
    /\ UNCHANGED <<recVars, hbRef, rdy, shutTime, shutForce, sdPc, startShutdown, cleanFlag,
                   volRef, vstate, attached, idxStarted, dstage,
                   shutStarted, initAbort, cpTimer, cpTrig, cpPhase, cbs, runDcbs,
                   iopc, iovol, rpc, rvol>>

\* Mutant: the destroy callback as written, without the is_shutdown() test
CpDestroyDoneAsWritten(v) ==
    /\ cpPhase = "cb" /\ v \in runDcbs
    /\ runDcbs' = runDcbs \ {v}
    /\ vstate' = [vstate EXCEPT ![v] = "DESTROYED"]
    /\ dstage' = [dstage EXCEPT ![v] = "done"]
    /\ volMap' = volMap \ {v}
    /\ hbRef' = Dec(hbRef)
    /\ IF hbRef = 1 THEN DoVolumeShutdown(TRUE) ELSE UNCHANGED vsVars
    /\ UNCHANGED <<recVars, rdy, shutTime, shutForce, sdPc, volShutCmpltd, cleanFlag,
                   volRef, attached, idxStarted, cpPhase, runCbs, iopc, iovol, rpc, rvol>>

\* the callback of IndxMgr::destroy set by destroy_internal: state
\* DESTROYED, m_destroy_done_cb (remove_volume's erase from the map), then
\* the fetch_sub of home_blks_ref_cnt and do_volume_shutdown(true) on 1
CpDestroyDone(v) ==
    /\ cpPhase = "cb" /\ v \in runDcbs
    /\ runDcbs' = runDcbs \ {v}
    /\ vstate' = [vstate EXCEPT ![v] = "DESTROYED"]
    /\ dstage' = [dstage EXCEPT ![v] = "done"]
    /\ volMap' = volMap \ {v}
    /\ hbRef' = Dec(hbRef)
    /\ IF hbRef = 1 /\ (Fixed("CbChecksShutdown") => IsShutdown)
       THEN DoVolumeShutdown(TRUE) ELSE UNCHANGED vsVars
    /\ UNCHANGED <<recVars, rdy, shutTime, shutForce, sdPc, volShutCmpltd, cleanFlag,
                   volRef, attached, idxStarted, cpPhase, runCbs, iopc, iovol, rpc, rvol>>

\* cp_end, after blkalloc_cp has called every callback
CpEnd ==
    /\ cpPhase = "cb" /\ runCbs = {} /\ runDcbs = {}
    /\ cpPhase' = "idle"
    /\ UNCHANGED <<hbVars, volVars, shutStarted, initAbort, cpTimer, cpTrig, cbs, runCbs, runDcbs,
                   iopc, iovol, rpc, rvol>>

\* the recurring CP timer armed by IndxMgr::init: trigger_homeblks_cp(nullptr, false)
CpTimer ==
    /\ cpTimer /\ ~cpTrig
    /\ TriggerHomeblksCp("none", FALSE)
    /\ UNCHANGED <<hbVars, volVars, cpTimer, cpPhase, runCbs, runDcbs, iopc, iovol, rpc, rvol>>

(***************************************************************************)
(* Shutdown: HomeBlks::shutdown(force) -> trigger_shutdown, whose thread   *)
(* runs do_shutdown; do_shutdown re-arms a timer to run again until        *)
(* m_vol_shutdown_cmpltd.  The shutdown_timeout_secs assertion is left out *)
(* (it ends the process).                                                  *)
(***************************************************************************)
TriggerShutdown(force) ==
    /\ ~shutTime
    /\ shutTime' = TRUE /\ shutForce' = force /\ sdPc' = "run"
    /\ UNCHANGED <<recVars, hbRef, rdy, startShutdown, volShutCmpltd, cleanFlag, volVars, cpVars,
                   iopc, iovol, rpc, rvol>>

DoShutdown ==
    /\ sdPc = "run" /\ rdy
    /\ DoVolumeShutdown(shutForce)
    /\ IF volShutCmpltd
       THEN /\ sdPc' = "done"
            /\ cleanFlag' = ~shutForce
       ELSE UNCHANGED <<sdPc, cleanFlag>>
    /\ UNCHANGED <<recVars, hbRef, rdy, shutTime, shutForce, volShutCmpltd, volVars,
                   cpPhase, runCbs, runDcbs, iopc, iovol, rpc, rvol>>

\* the io loop is stopped: nothing is left to run
Terminated ==
    /\ sdPc = "done"
    /\ UNCHANGED vars

\* steps of the system's own threads, callbacks and timers
SystemStep ==
    \/ \E r \in Reqs : IoRefInc(r) \/ IoOfflineCheck(r) \/ IoComplete(r)
    \/ \E v \in Vols : CreateCheck(v) \/ DestroyJournalDone(v) \/ DestroyIndxTbl(v)
                       \/ CpDestroyDone(v)
    \/ \E d \in Threads : DestroyRefInc(d) \/ DestroyShutdownCheck(d) \/ DestroySetState(d)
                           \/ DestroyAgain(d) \/ DestroyRefDec(d)
    \/ (\E v \in InitVols : RecScan(v)) \/ RecDestroyReturned \/ RecTriggerCpInit
    \/ CpPrepare \/ CpInitDone \/ CpShutdownDone \/ CpEnd \/ CpTimer \/ DoShutdown

\* calls of the user
UserStep ==
    \/ \E r \in Reqs, v \in Vols : IoSubmit(r, v)
    \/ \E v \in Vols : CreateVolume(v)
    \/ \E d \in Removers, v \in Vols : RemoveVolume(d, v)
    \/ \E f \in BOOLEAN : TriggerShutdown(f)

\* after an abort no thread runs any more
Next == ~initAbort /\ (SystemStep \/ UserStep \/ Terminated)

\* every thread, callback and timer of the system that can run does run
Fairness ==
    /\ \A r \in Reqs : WF_vars(IoRefInc(r)) /\ WF_vars(IoOfflineCheck(r)) /\ WF_vars(IoComplete(r))
    /\ \A v \in Vols : /\ WF_vars(CreateCheck(v)) /\ WF_vars(DestroyJournalDone(v))
                       /\ WF_vars(DestroyIndxTbl(v)) /\ WF_vars(CpDestroyDone(v))
    /\ \A d \in Threads : /\ WF_vars(DestroyRefInc(d)) /\ WF_vars(DestroyShutdownCheck(d))
                           /\ WF_vars(DestroySetState(d)) /\ WF_vars(DestroyAgain(d))
                           /\ WF_vars(DestroyRefDec(d))
    /\ \A v \in InitVols : WF_vars(RecScan(v))
    /\ WF_vars(RecDestroyReturned) /\ WF_vars(RecTriggerCpInit)
    /\ WF_vars(CpPrepare) /\ WF_vars(CpInitDone) /\ WF_vars(CpShutdownDone) /\ WF_vars(CpEnd)
    /\ WF_vars(CpTimer) /\ WF_vars(DoShutdown)

Spec == Init /\ [][Next]_vars /\ Fairness
-----------------------------------------------------------------------------
(***************************************************************************)
(* The init CP is never refused: trigger_cp_init's callback asserts        *)
(* (RELEASE) that it got success, and trigger_homeblks_cp calls it with    *)
(* false once a shutdown CP has set m_shutdown_started.  A shutdown that   *)
(* reaches do_volume_shutdown while boot is still triggering init CPs      *)
(* (after a forced removal, or retrying while the map is not yet down to   *)
(* vol_mnt_cnt) would abort the process.                                   *)
(***************************************************************************)
InitCpNeverRefused ==
    ~initAbort

(***************************************************************************)
(* The point of home_blks_ref_cnt: a graceful shutdown starts the volume   *)
(* shutdown (the last CP, after which the clean-shutdown flag says the     *)
(* journal needs no replay) only when no user I/O has passed is_offline,   *)
(* no volume destroy is under way, and every volume has joined a CP.  It   *)
(* rests on the order of the ++ref and the is_shutdown tests in            *)
(* Volume::write, Volume::destroy and the Volume constructor against       *)
(* trigger_shutdown's store and do_volume_shutdown's read of the counter.  *)
(***************************************************************************)
VolShutdownQuiescent ==
    startShutdown /\ ~shutForce =>
        /\ \A r \in Reqs : iopc[r] # "io"
        /\ \A v \in Vols : /\ dstage[v] \in {"none", "done"}
                           /\ vstate[v] # "CTOR"
                           /\ v \in volMap => attached[v]

(***************************************************************************)
(* A request that passed Volume::is_offline never runs on a volume whose   *)
(* index destroy has started: destroy_internal waits for the volume's last *)
(* vol_ref_cnt, and a volume that is not ONLINE answers Busy (spec §7).    *)
(***************************************************************************)
NoIoOnDestroyedIndex ==
    \A r \in Reqs : iopc[r] = "io" => dstage[iovol[r]] = "none"

(***************************************************************************)
(* The volumes are shut down (m_start_shutdown, and with it the last CP    *)
(* after which trigger_homeblks_cp refuses every CP) only once a shutdown  *)
(* was requested: every do_volume_shutdown(true) call site is reached only *)
(* under is_shutdown().                                                    *)
(***************************************************************************)
VolShutdownOnlyOnRequest ==
    startShutdown => IsShutdown

(***************************************************************************)
(* A requested shutdown completes: do_shutdown's timer keeps re-running    *)
(* until every ref on home_blks_ref_cnt is given back and the last CP has  *)
(* cleared the volume map.                                                 *)
(***************************************************************************)
ShutdownCompletes ==
    IsShutdown ~> sdPc = "done"
=============================================================================
