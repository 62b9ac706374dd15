------------------------- MODULE PhaseSearch_proofs --------------------------
(***************************************************************************)
(* Proofs about PhaseSearch, for any eye, any number of steps, settling,   *)
(* comparison and answer times, and any order of the two clocks and the    *)
(* PLL.  From SearchInv: success is reported only of a phase inside the    *)
(* eye (SuccessIsTrue) and the phase never moves under a comparison        *)
(* (PhaseIsStill).  From ExactInv, with a PLL that answers in time: no     *)
(* step is lost or made twice (StepsAreCounted), and a search ends in the  *)
(* middle of the edges it found (PhasesAreFound).                          *)
(***************************************************************************)
EXTENDS PhaseSearch, TLAPS

-----------------------------------------------------------------------------
(* The comparator reports on the phase the PLL is at.                      *)

\* A host that gives up requests makes no manual shifts.
OneUser == GIVES_UP => MODES \subseteq {"auto"}

HostTypes == host \in [ps_en : BOOLEAN, ps_mode : {"auto", "manual"}, ps_updwn : BOOLEAN,
                       ps_phase : Nat, ps_step_size : Nat]

PllTypes == pll \in [phase : Int, locked : BOOLEAN, phasedone : BOOLEAN]

\* The search has pll_ps to itself: it runs in automatic mode only.
OneMode == host.ps_mode = "auto" \/ (fsm.state = "idle" /\ ~GIVES_UP)

\* A search uses pll_ps in ph_shift only.  It enters with no shift under way and none
\* in the registers of busy, and leaves when one has ended.
NotYetShifted == ~fsm.ps_ctrl_en \/ ~ps.en_reg

ShiftsInTurn ==
    /\ fsm.ps_ctrl_en => fsm.state = "ph_shift" \/ (fsm.state = "wait_after_ph_shift" /\ ps.en_reg)
    /\ AutoMode(host) /\ fsm.state # "ph_shift" => ps.state = "idle"
    /\ fsm.state \notin {"idle", "ph_shift"} => ~ps.busy
    /\ fsm.state \notin {"idle", "rst_pll", "ph_shift"} => ~fsm.ps_ctrl_busy_reg
    /\ fsm.state = "ph_shift" /\ NotYetShifted => ps.state = "idle" /\ ~ps.busy /\ ~fsm.ps_ctrl_busy_reg
    /\ fsm.state = "ph_shift" /\ ShiftDone(ps.busy) => ps.state = "idle"

\* The PLL is reset at the start of a search only.
ResetsFirst ==
    fsm.pll_reset_req => fsm.state = "rst_pll" \/ (fsm.state = "wait_pll_lock" /\ ~pll.locked)

StartSeen == cmp.start_sync[2]
StartComes == cmp.start_sync[1]

\* What the comparator reports is of this phase.
TrueVerdict == cmp.error \/ InEye

\* A comparison: start, comparator and report follow each other.
Comparing ==
    /\ StartSeen => StartComes
    /\ StartComes => fsm.smpl_cmp_en
    /\ sync.done[2] => sync.done[1] /\ (sync.error[2] \/ InEye)
    /\ sync.done[1] => cmp.done /\ (sync.error[1] \/ InEye)
    /\ cmp.done => StartSeen
    /\ cmp.done \/ cmp.state = "compare_done" => TrueVerdict
    /\ ~StartSeen => cmp.state = "idle" /\ ~cmp.start_reg /\ cmp.age = 0
    /\ cmp.done => cmp.state = "idle" /\ cmp.start_reg

\* Between comparisons the comparator is stopped and takes its report back, from
\* itself to the last register of the synchronizer.
Stopped ==
    /\ cmp.state = "idle"
    /\ sync.done[1] => sync.done[2]
    /\ cmp.done => sync.done[1] /\ StartSeen /\ cmp.start_reg
    /\ ~StartComes \/ ~cmp.done => ~fsm.smpl_cmp_en
    /\ ~cmp.done => ~StartComes /\ ~StartSeen /\ ~cmp.start_reg /\ cmp.age = 0

\* The registers that hold no sample yet are passed while the comparator waits.
Filled ==
    /\ cmp.age \in 0 .. SMPL_PIPE /\ cmp.wait_cnt \in Nat
    /\ cmp.state = "wait_cyc" => cmp.age = SMPL_PIPE \/ cmp.age > cmp.wait_cnt
    /\ cmp.state = "compare" => cmp.age = SMPL_PIPE
    /\ cmp.state \in {"idle", "wait_cyc", "compare", "compare_done"}

\* The status of a search is the last report.
StatusIsTrue ==
    /\ fsm.state = "check_max_steps" /\ fsm.find_min =>
          (sync.error[1] \/ InEye) /\ (sync.error[2] \/ InEye)
    /\ fsm.state = "end_srch" => sync.error[2] \/ InEye
    /\ fsm.ps_done => fsm.state = "idle" /\ fsm.ps_en_reg /\ AutoMode(host) /\ (fsm.ps_status \/ InEye)

SearchInv ==
    /\ HostTypes /\ PllTypes /\ OneMode /\ ShiftsInTurn /\ ResetsFirst
    /\ IF fsm.state = "cmp_smpls" THEN Comparing ELSE Stopped
    /\ Filled /\ StatusIsTrue

LEMMA SearchStarts == Init => SearchInv
<1>. SUFFICES ASSUME Init  PROVE SearchInv
  OBVIOUS
<1>1. /\ host = [ps_en |-> FALSE, ps_mode |-> "auto", ps_updwn |-> TRUE, ps_phase |-> 0, ps_step_size |-> 1]
      /\ pll = [phase |-> 0, locked |-> TRUE, phasedone |-> TRUE]
      /\ sync = [done |-> <<FALSE, FALSE>>, error |-> <<FALSE, FALSE>>]
  BY DEF Init
<1>2. /\ fsm.state = "idle" /\ ~fsm.ps_ctrl_en /\ ~fsm.pll_reset_req /\ ~fsm.smpl_cmp_en /\ ~fsm.ps_done
      /\ ps.state = "idle"
  BY DEF Init, FsmInit, PsInit
<1>3. /\ cmp.start_sync = <<FALSE, FALSE>> /\ ~cmp.start_reg /\ cmp.state = "idle" /\ cmp.age = 0
      /\ cmp.wait_cnt = 0 /\ ~cmp.done
  BY DEF Init, CmpInit, CmpReset
<1>4. ~sync.done[1] /\ ~sync.done[2]
  BY <1>1
<1>5. ~StartSeen /\ ~StartComes
  BY <1>3 DEF StartSeen, StartComes
<1>6. HostTypes /\ PllTypes /\ OneMode
  BY <1>1 DEF HostTypes, PllTypes, OneMode
<1>7. ShiftsInTurn /\ ResetsFirst /\ StatusIsTrue
  BY <1>2 DEF ShiftsInTurn, ResetsFirst, StatusIsTrue
<1>8. Stopped
  BY <1>2, <1>3, <1>4, <1>5 DEF Stopped
<1>9. Filled
  BY <1>3 DEF Filled, SMPL_PIPE
<1>. QED  BY <1>2, <1>6, <1>7, <1>8, <1>9 DEF SearchInv

\* The next state of the FSM, as far as it matters here.
LEMMA FsmSteps ==
    ASSUME NEW h, NEW locked, NEW busy, NEW done, NEW error, NEW to,
           to = FsmNextState(h, locked, busy, done, error)
    PROVE  /\ to = "rst_pll" => fsm.state \in {"idle", "rst_pll"}
           /\ to = "wait_pll_lock" => (fsm.state = "rst_pll" \/ fsm.state = "wait_pll_lock") /\ ~locked
           /\ to = "ph_shift" =>
                 \/ fsm.state \in {"check_max_steps", "prep_phase"}
                 \/ fsm.state = "wait_pll_lock" /\ locked
                 \/ fsm.state = "ph_shift" /\ ~ShiftDone(busy)
           /\ to = "wait_after_ph_shift" =>
                 fsm.state = "wait_after_ph_shift" \/ (fsm.state = "ph_shift" /\ ShiftDone(busy))
           /\ to = "cmp_smpls" => fsm.state \in {"check_cmp_status", "cmp_smpls"} /\ ~done
           /\ to = "end_srch" =>
                 (fsm.state = "cmp_smpls" /\ done) \/ (fsm.state = "check_max_steps" /\ fsm.find_min)
           /\ to = "check_max_steps" => (fsm.state = "cmp_smpls" /\ done) \/ fsm.state = "min_found"
           /\ fsm.state = "idle" =>
                 to = "idle" \/ (to = "rst_pll" /\ h.ps_en /\ ~fsm.ps_en_reg /\ h.ps_mode = "auto")
           /\ fsm.state = "ph_shift" => to \in {"ph_shift", "wait_after_ph_shift"}
           /\ fsm.state = "cmp_smpls" => to = "cmp_smpls" \/ done
           /\ fsm.state = "rst_pll" => to \in {"rst_pll", "wait_pll_lock"}
           /\ fsm.state = "wait_pll_lock" => to = "wait_pll_lock" \/ locked
<1>1. CASE fsm.state \in {"idle", "rst_pll", "wait_pll_lock", "check_cmp_status"}
  BY <1>1 DEF FsmNextState
<1>2. CASE fsm.state = "cmp_smpls"
  BY <1>2 DEF FsmNextState, Verdict
<1>3. CASE fsm.state \in {"min_found", "max_found", "check_max_steps", "ph_shift"}
  BY <1>3 DEF FsmNextState
<1>4. CASE fsm.state \in {"wait_after_ph_shift", "prep_phase"}
  BY <1>4 DEF FsmNextState
<1>5. CASE fsm.state \notin {"idle", "rst_pll", "wait_pll_lock", "check_cmp_status", "cmp_smpls", "min_found",
                             "max_found", "check_max_steps", "ph_shift", "wait_after_ph_shift", "prep_phase"}
  BY <1>5 DEF FsmNextState
<1>. QED  BY <1>1, <1>2, <1>3, <1>4, <1>5

\* What a clock of the scan side does.
LEMMA ScanFields ==
    ASSUME ScanClock
    PROVE  /\ fsm'.state = FsmNextState(host, pll.locked, ps.busy, sync.done[2], sync.error[2])
           /\ fsm'.ps_ctrl_busy_reg = ps.busy /\ fsm'.ps_en_reg = host.ps_en
           /\ fsm.state = "min_found" => ~fsm'.find_min
           /\ fsm'.pll_reset_req <=> fsm.state = "rst_pll"
           /\ fsm'.smpl_cmp_en <=> fsm.state = "cmp_smpls"
           /\ fsm'.ps_ctrl_en <=> fsm.state = "ph_shift"
           /\ fsm'.ps_done <=> (host.ps_en /\ (fsm.ps_done \/ fsm.state = "end_srch"))
           /\ fsm'.ps_status <=> (host.ps_en /\ (IF fsm.state = "end_srch" THEN sync.error[2] ELSE fsm.ps_status))
<1>1. FsmClock(host, pll.locked, ps.busy, sync.done[2], sync.error[2])
  BY DEF ScanClock
<1>2. fsm'.state = FsmNextState(host, pll.locked, ps.busy, sync.done[2], sync.error[2])
  BY <1>1 DEF FsmClock
<1>3. fsm'.ps_ctrl_busy_reg = ps.busy /\ fsm'.ps_en_reg = host.ps_en
  BY <1>1 DEF FsmClock
<1>4. fsm.state = "min_found" => ~fsm'.find_min
  BY <1>1 DEF FsmClock, Pick
<1>5. /\ fsm'.pll_reset_req = (fsm.state = "rst_pll")
      /\ fsm'.smpl_cmp_en = (fsm.state = "cmp_smpls")
      /\ fsm'.ps_ctrl_en = (fsm.state = "ph_shift")
  BY <1>1 DEF FsmClock, SmplCmpEn
<1>6. /\ fsm'.ps_done = (host.ps_en /\ (fsm.ps_done \/ fsm.state = "end_srch"))
      /\ fsm'.ps_status = (host.ps_en /\ (IF fsm.state = "end_srch" THEN sync.error[2] ELSE fsm.ps_status))
  BY <1>1 DEF FsmClock
<1>. QED  BY <1>2, <1>3, <1>4, <1>5, <1>6

LEMMA PsFields ==
    ASSUME ScanClock
    PROVE  /\ ps'.state = PsNextState(PsCtrlEn(host), pll.phasedone)
           /\ ps'.en_reg = PsCtrlEn(host)
           /\ ps'.busy <=> ps.state # "idle"
<1>1. PsClock(PsCtrlEn(host), PsCtrlPhase(host), PsCtrlUpdown(host), pll.phasedone)
  BY DEF ScanClock
<1>2. ps'.state = PsNextState(PsCtrlEn(host), pll.phasedone) /\ ps'.en_reg = PsCtrlEn(host)
  BY <1>1 DEF PsClock
<1>3. ps'.busy = (ps.state # "idle")
  BY <1>1 DEF PsClock
<1>. QED  BY <1>2, <1>3

\* A clock of the scan side.
LEMMA ScanShifts ==
    ASSUME SearchInv, ScanClock
    PROVE  OneMode' /\ ShiftsInTurn'
<1>1. host' = host /\ pll' = pll
  BY DEF ScanClock
<1>2. OneMode'
  <2>1. CASE host.ps_mode = "auto"
    BY <1>1, <2>1 DEF OneMode
  <2>2. CASE host.ps_mode # "auto"
    <3>1. fsm.state = "idle" /\ ~GIVES_UP
      BY <2>2 DEF SearchInv, OneMode
    <3>2. fsm'.state = "idle"
      BY <2>2, <3>1, ScanFields DEF FsmNextState
    <3>. QED  BY <3>1, <3>2 DEF OneMode
  <2>. QED  BY <2>1, <2>2
<1>3. CASE ~AutoMode(host)
  <2>1. fsm.state = "idle" /\ ~fsm.ps_ctrl_en
    BY <1>3 DEF SearchInv, OneMode, AutoMode, ShiftsInTurn
  <2>2. fsm'.state = "idle" /\ ~fsm'.ps_ctrl_en
    BY <1>3, <2>1, ScanFields DEF FsmNextState, AutoMode
  <2>3. ~AutoMode(host)'
    BY <1>1, <1>3 DEF AutoMode
  <2>. QED  BY <1>2, <2>2, <2>3 DEF ShiftsInTurn
<1>4. CASE AutoMode(host)
  <2>1. PsCtrlEn(host) = fsm.ps_ctrl_en
    BY <1>4 DEF PsCtrlEn
  <2>2. /\ fsm'.ps_ctrl_busy_reg = ps.busy
        /\ fsm'.ps_ctrl_en <=> fsm.state = "ph_shift"
        /\ ps'.en_reg = fsm.ps_ctrl_en
        /\ ps'.busy <=> ps.state # "idle"
    BY <2>1, ScanFields, PsFields
  <2>3. ps.state = "idle" /\ (fsm.ps_ctrl_en => ps.en_reg) => ps'.state = "idle"
    BY <2>1, PsFields DEF PsNextState
  <2>4. ShiftDone(ps.busy) <=> ~ps.busy /\ fsm.ps_ctrl_busy_reg
    BY DEF ShiftDone
  <2>9. ShiftDone(ps.busy)' <=> ~ps'.busy /\ fsm'.ps_ctrl_busy_reg
    BY DEF ShiftDone
  <2>10. NotYetShifted' <=> ~fsm'.ps_ctrl_en \/ ~ps'.en_reg
    BY DEF NotYetShifted
  <2>. DEFINE to == fsm'.state
  <2>5. /\ to = "rst_pll" => fsm.state \in {"idle", "rst_pll"}
        /\ to = "wait_after_ph_shift" =>
                 fsm.state = "wait_after_ph_shift" \/ (fsm.state = "ph_shift" /\ ShiftDone(ps.busy))
        /\ fsm.state = "ph_shift" => to \in {"ph_shift", "wait_after_ph_shift"}
        /\ fsm.state = "idle" => to \in {"idle", "rst_pll"}
        /\ fsm.state = "rst_pll" => to \in {"rst_pll", "wait_pll_lock"}
        /\ fsm.state = "ph_shift" /\ to = "ph_shift" => ~ShiftDone(ps.busy)
    BY ScanFields, FsmSteps
  <2>. HIDE DEF to
  <2>6. CASE fsm.state # "ph_shift"
    <3>1. ps.state = "idle" /\ (fsm.ps_ctrl_en => ps.en_reg)
      BY <1>4, <2>6 DEF SearchInv, ShiftsInTurn
    <3>2. ps'.state = "idle" /\ ~ps'.busy /\ ~fsm'.ps_ctrl_en
      BY <2>2, <2>3, <2>6, <3>1
    <3>3. fsm.state # "idle" => ~ps.busy
      BY <2>6 DEF SearchInv, ShiftsInTurn
    <3>4. to \notin {"idle", "rst_pll"} => ~fsm'.ps_ctrl_busy_reg
      BY <2>2, <2>5, <3>3
    <3>. QED  BY <1>2, <2>9, <2>10, <3>2, <3>4 DEF ShiftsInTurn, to
  <2>7. CASE fsm.state = "ph_shift" /\ NotYetShifted
    <3>1. ps.state = "idle" /\ ~ps.busy /\ ~fsm.ps_ctrl_busy_reg
      BY <2>7 DEF SearchInv, ShiftsInTurn
    <3>2. to = "ph_shift" /\ fsm'.ps_ctrl_en /\ ~ps'.busy /\ ~fsm'.ps_ctrl_busy_reg
      BY <2>2, <2>4, <2>5, <2>7, <3>1
    <3>3. ~ps'.en_reg => ps'.state = "idle"
      BY <2>1, <2>2, <2>3, <3>1
    <3>. QED  BY <1>2, <2>9, <2>10, <3>2, <3>3 DEF ShiftsInTurn, to
  <2>8. CASE fsm.state = "ph_shift" /\ ~NotYetShifted
    <3>1. fsm.ps_ctrl_en /\ ps.en_reg
      BY <2>8 DEF NotYetShifted
    <3>2. fsm'.ps_ctrl_en /\ ps'.en_reg /\ (ps.state = "idle" => ps'.state = "idle")
      BY <2>2, <2>3, <2>8, <3>1
    <3>3. CASE to = "ph_shift"
      <4>1. ~ps'.busy => ps'.state = "idle"
        BY <2>2, <3>2
      <4>. QED  BY <1>2, <2>9, <2>10, <3>2, <3>3, <4>1 DEF ShiftsInTurn, to
    <3>4. CASE to = "wait_after_ph_shift"
      <4>1. ~ps.busy /\ ps.state = "idle"
        BY <2>4, <2>5, <2>8, <3>4 DEF SearchInv, ShiftsInTurn
      <4>2. ps'.state = "idle" /\ ~ps'.busy /\ ~fsm'.ps_ctrl_busy_reg
        BY <2>2, <3>2, <4>1
      <4>. QED  BY <1>2, <3>2, <3>4, <4>2 DEF ShiftsInTurn, to
    <3>. QED  BY <2>5, <2>8, <3>3, <3>4
  <2>. QED  BY <1>2, <2>6, <2>7, <2>8
<1>. QED  BY <1>2, <1>3, <1>4

LEMMA ScanResets ==
    ASSUME SearchInv, ScanClock
    PROVE  ResetsFirst'
<1>1. pll' = pll /\ (fsm'.pll_reset_req <=> fsm.state = "rst_pll")
  BY ScanFields DEF ScanClock
<1>. DEFINE to == fsm'.state
<1>2. /\ to = "wait_pll_lock" => ~pll.locked
      /\ fsm.state = "rst_pll" => to \in {"rst_pll", "wait_pll_lock"}
  BY ScanFields, FsmSteps
<1>. QED  BY <1>1, <1>2 DEF ResetsFirst

LEMMA ScanCompares ==
    ASSUME SearchInv, ScanClock
    PROVE  /\ IF fsm'.state = "cmp_smpls" THEN Comparing' ELSE Stopped'
           /\ Filled'
<1>1. cmp' = cmp /\ InEye' = InEye
  BY DEF ScanClock, InEye, Distance
<1>2. /\ sync'.done[1] = cmp.done /\ sync'.done[2] = sync.done[1]
      /\ sync'.error[1] = cmp.error /\ sync'.error[2] = sync.error[1]
  <2>1. sync' = [done |-> <<cmp.done, sync.done[1]>>, error |-> <<cmp.error, sync.error[1]>>]
    BY DEF ScanClock
  <2>. QED  BY <2>1
<1>3. fsm'.smpl_cmp_en <=> fsm.state = "cmp_smpls"
  BY ScanFields
<1>4. /\ fsm'.state = "cmp_smpls" => fsm.state \in {"check_cmp_status", "cmp_smpls"} /\ ~sync.done[2]
      /\ fsm.state = "cmp_smpls" => fsm'.state = "cmp_smpls" \/ sync.done[2]
  BY ScanFields, FsmSteps
<1>5. StartSeen' = StartSeen /\ StartComes' = StartComes /\ (TrueVerdict' <=> TrueVerdict)
  BY <1>1 DEF StartSeen, StartComes, TrueVerdict
<1>6. Filled'
  BY <1>1 DEF SearchInv, Filled
<1>7. CASE fsm.state = "cmp_smpls"
  <2>1. Comparing
    BY <1>7 DEF SearchInv
  <2>2. CASE fsm'.state = "cmp_smpls"
    <3>1. Comparing'
      BY <1>1, <1>2, <1>3, <1>5, <1>7, <2>1 DEF Comparing, TrueVerdict
    <3>. QED  BY <1>6, <2>2, <3>1
  <2>3. CASE fsm'.state # "cmp_smpls"
    <3>1. sync.done[2] /\ sync.done[1] /\ cmp.done /\ StartSeen /\ StartComes
      BY <1>4, <1>7, <2>1, <2>3 DEF Comparing
    <3>2. Stopped'
      BY <1>1, <1>2, <1>3, <1>5, <2>1, <3>1 DEF Comparing, Stopped
    <3>. QED  BY <1>6, <2>3, <3>2
  <2>. QED  BY <2>2, <2>3
<1>8. CASE fsm.state # "cmp_smpls"
  <2>1. Stopped /\ ~fsm'.smpl_cmp_en
    BY <1>3, <1>8 DEF SearchInv
  <2>2. CASE fsm'.state = "cmp_smpls"
    <3>1. ~sync.done[2] /\ ~sync.done[1] /\ ~cmp.done
      BY <1>4, <2>1, <2>2 DEF Stopped
    <3>2. Comparing'
      BY <1>1, <1>2, <1>5, <2>1, <3>1 DEF Stopped, Comparing
    <3>. QED  BY <1>6, <2>2, <3>2
  <2>3. CASE fsm'.state # "cmp_smpls"
    <3>1. Stopped'
      BY <1>1, <1>2, <1>5, <2>1 DEF Stopped
    <3>. QED  BY <1>6, <2>3, <3>1
  <2>. QED  BY <2>2, <2>3
<1>. QED  BY <1>7, <1>8

LEMMA ScanReports ==
    ASSUME SearchInv, ScanClock
    PROVE  StatusIsTrue'
<1>1. InEye' = InEye /\ AutoMode(host)' = AutoMode(host)
  BY DEF ScanClock, InEye, Distance, AutoMode
<1>2. sync'.error[1] = cmp.error /\ sync'.error[2] = sync.error[1]
  <2>1. sync' = [done |-> <<cmp.done, sync.done[1]>>, error |-> <<cmp.error, sync.error[1]>>]
    BY DEF ScanClock
  <2>. QED  BY <2>1
<1>. DEFINE to == fsm'.state
<1>3. /\ to = "end_srch" =>
             (fsm.state = "cmp_smpls" /\ sync.done[2]) \/ (fsm.state = "check_max_steps" /\ fsm.find_min)
      /\ to = "check_max_steps" => (fsm.state = "cmp_smpls" /\ sync.done[2]) \/ fsm.state = "min_found"
      /\ fsm.state = "idle" => to = "idle" \/ ~fsm.ps_en_reg
  BY ScanFields, FsmSteps
<1>4. fsm.state = "cmp_smpls" /\ sync.done[2] => (cmp.error \/ InEye) /\ (sync.error[1] \/ InEye)
  BY DEF SearchInv, Comparing, TrueVerdict
<1>5. to = "check_max_steps" /\ fsm'.find_min =>
          (sync'.error[1] \/ InEye') /\ (sync'.error[2] \/ InEye')
  BY <1>1, <1>2, <1>3, <1>4, ScanFields
<1>6. to = "end_srch" => sync'.error[2] \/ InEye'
  BY <1>1, <1>2, <1>3, <1>4 DEF SearchInv, StatusIsTrue
<1>7. fsm'.ps_done => to = "idle" /\ fsm'.ps_en_reg /\ AutoMode(host) /\ (fsm'.ps_status \/ InEye)
  <2>1. /\ fsm'.ps_done <=> (host.ps_en /\ (fsm.ps_done \/ fsm.state = "end_srch"))
        /\ fsm'.ps_status <=> (host.ps_en /\ (IF fsm.state = "end_srch" THEN sync.error[2] ELSE fsm.ps_status))
        /\ fsm'.ps_en_reg = host.ps_en
    BY ScanFields
  <2>2. CASE fsm.state = "end_srch"
    <3>1. to = "idle"
      BY <2>2, ScanFields DEF FsmNextState
    <3>2. AutoMode(host) /\ (sync.error[2] \/ InEye)
      BY <2>2 DEF SearchInv, OneMode, StatusIsTrue, AutoMode
    <3>. QED  BY <2>1, <2>2, <3>1, <3>2
  <2>3. CASE fsm.state # "end_srch"
    <3>1. fsm.ps_done => fsm.state = "idle" /\ fsm.ps_en_reg /\ AutoMode(host) /\ (fsm.ps_status \/ InEye)
      BY DEF SearchInv, StatusIsTrue
    <3>. QED  BY <1>3, <2>1, <2>3, <3>1
  <2>. QED  BY <2>2, <2>3
<1>. QED  BY <1>1, <1>5, <1>6, <1>7 DEF StatusIsTrue

LEMMA ScanKeeps ==
    ASSUME SearchInv, ScanClock
    PROVE  SearchInv'
<1>1. HostTypes' /\ PllTypes'
  BY DEF SearchInv, ScanClock, HostTypes, PllTypes
<1>. QED  BY <1>1, ScanShifts, ScanResets, ScanCompares, ScanReports DEF SearchInv

\* A clock of the comparator.
LEMMA RxFields ==
    ASSUME RxClock
    PROVE  /\ UNCHANGED <<fsm, ps, host, sync, pll, eye>> /\ InEye' = InEye
           /\ cmp'.start_sync[1] = fsm.smpl_cmp_en /\ cmp'.start_sync[2] = StartComes
           /\ StartSeen /\ StartComes =>
                 \E smpl_err \in SmplErr(InEye) :
                    /\ cmp'.start_reg = TRUE /\ cmp'.state = CmpNextState(smpl_err)
                    /\ cmp'.age = (IF cmp.age < SMPL_PIPE THEN cmp.age + 1 ELSE cmp.age)
                    /\ cmp'.wait_cnt = (IF cmp.state = "wait_cyc" THEN cmp.wait_cnt + 1 ELSE 0)
                    /\ cmp'.done = (cmp.done \/ cmp.state = "compare_done")
                    /\ cmp'.error = CmpError(smpl_err)
           /\ ~(StartSeen /\ StartComes) =>
                 /\ cmp'.start_reg = FALSE /\ cmp'.state = "idle" /\ cmp'.age = 0 /\ cmp'.wait_cnt = 0
                 /\ cmp'.done = FALSE
<1>1. UNCHANGED <<fsm, ps, host, sync, pll, eye>> /\ InEye' = InEye
  BY DEF RxClock, InEye, Distance
<1>. DEFINE both == <<fsm.smpl_cmp_en, cmp.start_sync[1]>>
<1>2. PICK smpl_err \in SmplErr(InEye) : CmpClock(fsm.smpl_cmp_en, smpl_err)
  BY DEF RxClock
<1>3. both[1] = fsm.smpl_cmp_en /\ both[2] = cmp.start_sync[1]
  OBVIOUS
<1>. HIDE DEF both
<1>4. cmp' = IF cmp.start_sync[2] /\ both[2] THEN CmpRun(both, smpl_err) ELSE CmpReset(both)
  BY <1>2 DEF CmpClock, both
<1>5. CASE cmp.start_sync[2] /\ cmp.start_sync[1]
  <2>1. cmp' = CmpRun(both, smpl_err)
    BY <1>3, <1>4, <1>5
  <2>2. cmp'.start_sync = both
    BY <2>1 DEF CmpRun
  <2>3. /\ cmp'.start_reg = TRUE /\ cmp'.state = CmpNextState(smpl_err)
        /\ cmp'.age = (IF cmp.age < SMPL_PIPE THEN cmp.age + 1 ELSE cmp.age)
        /\ cmp'.wait_cnt = (IF cmp.state = "wait_cyc" THEN cmp.wait_cnt + 1 ELSE 0)
        /\ cmp'.done = (cmp.done \/ cmp.state = "compare_done")
        /\ cmp'.error = CmpError(smpl_err)
    BY <2>1 DEF CmpRun
  <2>. QED  BY <1>1, <1>2, <1>3, <1>5, <2>2, <2>3 DEF StartSeen, StartComes
<1>6. CASE ~(cmp.start_sync[2] /\ cmp.start_sync[1])
  <2>1. cmp' = CmpReset(both)
    BY <1>3, <1>4, <1>6
  <2>2. /\ cmp'.start_sync = both /\ cmp'.start_reg = FALSE /\ cmp'.state = "idle"
        /\ cmp'.age = 0 /\ cmp'.wait_cnt = 0 /\ cmp'.done = FALSE
    BY <2>1 DEF CmpReset
  <2>. QED  BY <1>1, <1>3, <1>6, <2>2 DEF StartSeen, StartComes
<1>. QED  BY <1>5, <1>6

LEMMA RxFilled ==
    ASSUME SearchInv, RxClock
    PROVE  Filled'
<1>1. Filled
  BY DEF SearchInv
<1>2. CASE ~(StartSeen /\ StartComes)
  BY <1>2, RxFields DEF Filled, SMPL_PIPE
<1>3. CASE StartSeen /\ StartComes
  <2>1. PICK smpl_err \in SmplErr(InEye) :
            /\ cmp'.state = CmpNextState(smpl_err)
            /\ cmp'.age = (IF cmp.age < SMPL_PIPE THEN cmp.age + 1 ELSE cmp.age)
            /\ cmp'.wait_cnt = (IF cmp.state = "wait_cyc" THEN cmp.wait_cnt + 1 ELSE 0)
    BY <1>3, RxFields
  <2>2. cmp'.age \in 0 .. SMPL_PIPE /\ cmp'.wait_cnt \in Nat
    BY <1>1, <2>1 DEF Filled, SMPL_PIPE
  <2>3. CASE cmp.state = "idle"
    <3>1. cmp'.state \in {"idle", "wait_cyc"} /\ cmp'.wait_cnt = 0 /\ cmp'.age > 0
      BY <1>1, <2>1, <2>3 DEF Filled, SMPL_PIPE, CmpNextState
    <3>. QED  BY <2>2, <3>1 DEF Filled
  <2>4. CASE cmp.state = "wait_cyc"
    <3>1. cmp'.state = (IF cmp.wait_cnt > 3 THEN "compare" ELSE "wait_cyc") /\ cmp'.wait_cnt = cmp.wait_cnt + 1
      BY <2>1, <2>4 DEF CmpNextState, CaptureDone
    <3>2. cmp'.age = SMPL_PIPE \/ cmp'.age > cmp'.wait_cnt
      BY <1>1, <2>1, <2>4 DEF Filled, SMPL_PIPE
    <3>3. cmp.wait_cnt > 3 => cmp'.age = SMPL_PIPE
      BY <1>1, <2>1, <2>4 DEF Filled, SMPL_PIPE
    <3>. QED  BY <2>2, <3>1, <3>2, <3>3 DEF Filled
  <2>5. CASE cmp.state = "compare"
    <3>1. cmp'.state \in {"compare", "compare_done"} /\ cmp'.age = SMPL_PIPE
      BY <1>1, <2>1, <2>5 DEF Filled, SMPL_PIPE, CmpNextState
    <3>. QED  BY <2>2, <3>1 DEF Filled
  <2>6. CASE cmp.state = "compare_done"
    <3>1. cmp'.state = "idle"
      BY <2>1, <2>6 DEF CmpNextState
    <3>. QED  BY <2>2, <3>1 DEF Filled
  <2>. QED  BY <1>1, <2>3, <2>4, <2>5, <2>6 DEF Filled
<1>. QED  BY <1>2, <1>3

LEMMA RxStopped ==
    ASSUME SearchInv, RxClock, fsm.state # "cmp_smpls"
    PROVE  Stopped'
<1>1. Stopped
  BY DEF SearchInv
<1>2. /\ fsm' = fsm /\ sync' = sync
      /\ StartComes' = fsm.smpl_cmp_en /\ StartSeen' = StartComes
  BY RxFields DEF StartComes, StartSeen
<1>3. CASE cmp.done /\ StartComes
  <2>1. StartSeen /\ cmp.state = "idle" /\ cmp.start_reg
    BY <1>1, <1>3 DEF Stopped
  <2>2. cmp'.state = "idle" /\ cmp'.start_reg /\ cmp'.done
    BY <1>3, <2>1, RxFields DEF CmpNextState
  <2>. QED  BY <1>1, <1>2, <1>3, <2>2 DEF Stopped
<1>4. CASE ~(cmp.done /\ StartComes)
  <2>1. ~StartComes /\ ~fsm.smpl_cmp_en
    BY <1>1, <1>4 DEF Stopped
  <2>2. ~cmp'.start_reg /\ cmp'.state = "idle" /\ cmp'.age = 0 /\ ~cmp'.done
    BY <2>1, RxFields
  <2>. QED  BY <1>1, <1>2, <2>1, <2>2 DEF Stopped
<1>. QED  BY <1>3, <1>4

\* The last word of a comparison shows whether the phase is in the eye.
LEMMA RxComparing ==
    ASSUME SearchInv, RxClock, fsm.state = "cmp_smpls"
    PROVE  Comparing'
<1>1. Comparing /\ Filled
  BY DEF SearchInv
<1>2. /\ fsm' = fsm /\ sync' = sync /\ InEye' = InEye
      /\ StartComes' = fsm.smpl_cmp_en /\ StartSeen' = StartComes
  BY RxFields DEF StartComes, StartSeen
<1>3. CASE ~StartSeen
  <2>1. ~cmp.done
    BY <1>1, <1>3 DEF Comparing
  <2>2. ~cmp'.start_reg /\ cmp'.state = "idle" /\ cmp'.age = 0 /\ ~cmp'.done
    BY <1>3, RxFields
  <2>. QED  BY <1>1, <1>2, <2>1, <2>2 DEF Comparing
<1>4. CASE StartSeen
  <2>1. StartComes /\ fsm.smpl_cmp_en
    BY <1>1, <1>4 DEF Comparing
  <2>2. PICK smpl_err \in SmplErr(InEye) :
            /\ cmp'.start_reg = TRUE /\ cmp'.state = CmpNextState(smpl_err)
            /\ cmp'.done = (cmp.done \/ cmp.state = "compare_done")
            /\ cmp'.error = CmpError(smpl_err)
    BY <1>4, <2>1, RxFields
  <2>3. cmp'.done => cmp'.state = "idle"
    BY <1>1, <2>2 DEF Comparing, CmpNextState
  <2>4. cmp.error => cmp'.error
    BY <2>2 DEF CmpError
  <2>5. cmp'.state = "compare_done" => cmp'.error \/ InEye
    <3>1. CASE cmp.state = "compare" /\ (cmp.compare_stop \/ smpl_err)
      <4>1. cmp.age = SMPL_PIPE
        BY <1>1, <3>1 DEF Filled
      <4>2. smpl_err \/ InEye
        <5>1. CASE smpl_err
          BY <5>1
        <5>2. CASE ~smpl_err /\ ~InEye
          <6>1. cmp.compare_stop /\ ~(cmp.age < SMPL_PIPE)
            BY <3>1, <4>1, <5>2 DEF SMPL_PIPE
          <6>2. SmplErr(InEye) = {TRUE}
            BY <5>2, <6>1, Zenon DEF SmplErr
          <6>. QED  BY <2>2, <6>2, Zenon
        <5>. QED  BY <5>1, <5>2
      <4>. QED  BY <2>2, <3>1, <4>2 DEF CmpError
    <3>2. CASE ~(cmp.state = "compare" /\ (cmp.compare_stop \/ smpl_err))
      BY <2>2, <3>2 DEF CmpNextState
    <3>. QED  BY <3>1, <3>2
  <2>6. cmp'.done => cmp'.error \/ InEye
    BY <1>1, <2>2, <2>4 DEF Comparing, TrueVerdict
  <2>7. TrueVerdict' <=> cmp'.error \/ InEye
    BY <1>2 DEF TrueVerdict
  <2>8. cmp.done => cmp'.done
    BY <2>2
  <2>. QED  BY <1>1, <1>2, <2>1, <2>2, <2>3, <2>5, <2>6, <2>7, <2>8 DEF Comparing
<1>. QED  BY <1>3, <1>4

LEMMA RxKeeps ==
    ASSUME SearchInv, RxClock
    PROVE  SearchInv'
<1>1. UNCHANGED <<fsm, ps, host, sync, pll, eye>> /\ InEye' = InEye
  BY RxFields
<1>2. HostTypes' /\ PllTypes' /\ OneMode' /\ ResetsFirst'
  BY <1>1 DEF SearchInv, HostTypes, PllTypes, OneMode, ResetsFirst
<1>3. ShiftsInTurn'
  BY <1>1 DEF SearchInv, ShiftsInTurn, NotYetShifted, ShiftDone, AutoMode
<1>4. StatusIsTrue'
  BY <1>1 DEF SearchInv, StatusIsTrue, AutoMode
<1>. QED  BY <1>1, <1>2, <1>3, <1>4, RxFilled, RxStopped, RxComparing DEF SearchInv

\* The PLL makes no step while samples are compared or a report counts.
LEMMA PllMoves ==
    ASSUME SearchInv, PllReset \/ PllLock \/ PllStep \/ PllStepped
    PROVE  /\ UNCHANGED <<fsm, ps, cmp, host, sync, eye>> /\ PllTypes'
           /\ fsm.pll_reset_req => ~pll'.locked \/ pll'.locked = pll.locked
           /\ fsm.state \notin {"idle", "rst_pll", "wait_pll_lock", "ph_shift"} \/ fsm.ps_done =>
                 pll'.phase = pll.phase
<1>1. pll \in [phase : Int, locked : BOOLEAN, phasedone : BOOLEAN]
  BY DEF SearchInv, PllTypes
<1>2. CASE PllReset
  <2>1. fsm.state \in {"rst_pll", "wait_pll_lock"} /\ ~fsm.ps_done
    BY <1>2 DEF PllReset, SearchInv, ResetsFirst, StatusIsTrue
  <2>. QED  BY <1>2, <2>1 DEF PllReset, PllTypes
<1>3. CASE PllLock
  BY <1>1, <1>3 DEF PllLock, PllTypes
<1>4. CASE PllStep
  <2>1. ps.state = "phase_step"
    BY <1>4 DEF PllStep, PllPhasestep
  <2>2. fsm.state \in {"idle", "ph_shift"} /\ ~fsm.ps_done
    BY <2>1 DEF SearchInv, ShiftsInTurn, OneMode, AutoMode, StatusIsTrue
  <2>3. /\ pll' = [pll EXCEPT !.phasedone = FALSE, !.phase = @ + (IF ps.updown_reg THEN 1 ELSE -1)]
        /\ UNCHANGED <<fsm, ps, cmp, host, sync, eye>>
    BY <1>4 DEF PllStep
  <2>4. pll'.locked = pll.locked /\ PllTypes'
    <3>1. PICK step \in {1, -1} :
              pll' = [pll EXCEPT !.phasedone = FALSE, !.phase = @ + step]
      BY <2>3
    <3>2. pll.phase + step \in Int
      BY <1>1, <3>1
    <3>3. pll' = [phase |-> pll.phase + step, locked |-> pll.locked, phasedone |-> FALSE]
      BY <1>1, <3>1
    <3>. QED  BY <1>1, <3>2, <3>3 DEF PllTypes
  <2>. QED  BY <2>2, <2>3, <2>4
<1>5. CASE PllStepped
  BY <1>1, <1>5 DEF PllStepped, PllTypes
<1>. QED  BY <1>2, <1>3, <1>4, <1>5

LEMMA PllKeeps ==
    ASSUME SearchInv, PllReset \/ PllLock \/ PllStep \/ PllStepped
    PROVE  SearchInv'
<1>1. /\ UNCHANGED <<fsm, ps, cmp, host, sync, eye>> /\ PllTypes'
      /\ fsm.pll_reset_req => ~pll'.locked \/ pll'.locked = pll.locked
      /\ fsm.state \notin {"idle", "rst_pll", "wait_pll_lock", "ph_shift"} \/ fsm.ps_done =>
            pll'.phase = pll.phase
  BY PllMoves
<1>2. fsm.state \in {"cmp_smpls", "check_max_steps", "end_srch"} \/ fsm.ps_done => InEye' = InEye
  BY <1>1 DEF InEye
<1>3. HostTypes' /\ OneMode' /\ Filled'
  BY <1>1 DEF SearchInv, HostTypes, OneMode, Filled
<1>4. ShiftsInTurn'
  BY <1>1 DEF SearchInv, ShiftsInTurn, NotYetShifted, ShiftDone, AutoMode
<1>5. ResetsFirst'
  BY <1>1 DEF SearchInv, ResetsFirst
<1>6. StatusIsTrue'
  BY <1>1, <1>2 DEF SearchInv, StatusIsTrue, AutoMode
<1>7. StartSeen' = StartSeen /\ StartComes' = StartComes
  BY <1>1 DEF StartSeen, StartComes
<1>8. fsm.state = "cmp_smpls" => Comparing'
  BY <1>1, <1>2, <1>7 DEF SearchInv, Comparing, TrueVerdict
<1>9. fsm.state # "cmp_smpls" => Stopped'
  BY <1>1, <1>7 DEF SearchInv, Stopped
<1>. QED  BY <1>1, <1>3, <1>4, <1>5, <1>6, <1>8, <1>9 DEF SearchInv

\* The host begins a search, or takes its request back.
LEMMA HostKeeps ==
    ASSUME OneUser, SearchInv, Start \/ Drop
    PROVE  SearchInv'
<1>1. UNCHANGED <<fsm, ps, cmp, sync, pll, eye>> /\ InEye' = InEye
  BY DEF Start, Drop, InEye, Distance
<1>2. /\ HostTypes' /\ OneMode'
      /\ AutoMode(host)' => AutoMode(host) \/ ps.state = "idle"
      /\ fsm.ps_done => AutoMode(host)' = AutoMode(host)
  <2>1. CASE Start
    <3>1. PICK mode \in MODES, up \in UPDOWNS, step \in STEP_SIZES :
              host' = [ps_en |-> TRUE, ps_mode |-> mode, ps_updwn |-> up,
                       ps_phase |-> step, ps_step_size |-> step]
      BY <2>1 DEF Start
    <3>2. mode \in {"auto", "manual"} /\ up \in BOOLEAN /\ step \in Nat
      BY SearchAssumption, FsmAssumption
    <3>3. HostTypes'
      BY <3>1, <3>2 DEF HostTypes
    <3>4. host'.ps_mode = mode /\ (GIVES_UP => mode = "auto")
      BY <3>1 DEF OneUser
    <3>5. ~GIVES_UP => AllIdle
      BY <2>1 DEF Start
    <3>6. OneMode'
      BY <1>1, <3>2, <3>4, <3>5 DEF OneMode, AllIdle
    <3>7. GIVES_UP => AutoMode(host)
      BY DEF SearchInv, OneMode, AutoMode
    <3>8. ~fsm.ps_done
      BY <2>1 DEF Start, SearchInv, StatusIsTrue
    <3>. QED  BY <3>3, <3>5, <3>6, <3>7, <3>8 DEF AllIdle
  <2>2. CASE Drop
    <3>1. host' = [host EXCEPT !.ps_en = FALSE]
      BY <2>2 DEF Drop
    <3>2. HostTypes' /\ host'.ps_mode = host.ps_mode
      BY <3>1 DEF SearchInv, HostTypes
    <3>. QED  BY <1>1, <3>2 DEF SearchInv, OneMode, AutoMode
  <2>. QED  BY <2>1, <2>2
<1>3. PllTypes' /\ Filled' /\ ResetsFirst'
  BY <1>1 DEF SearchInv, PllTypes, Filled, ResetsFirst
<1>4. ShiftsInTurn'
  BY <1>1, <1>2 DEF SearchInv, ShiftsInTurn, NotYetShifted, ShiftDone
<1>5. StatusIsTrue'
  BY <1>1, <1>2 DEF SearchInv, StatusIsTrue
<1>6. StartSeen' = StartSeen /\ StartComes' = StartComes
  BY <1>1 DEF StartSeen, StartComes
<1>7. fsm.state = "cmp_smpls" => Comparing'
  BY <1>1, <1>6 DEF SearchInv, Comparing, TrueVerdict
<1>8. fsm.state # "cmp_smpls" => Stopped'
  BY <1>1, <1>6 DEF SearchInv, Stopped
<1>. QED  BY <1>1, <1>2, <1>3, <1>4, <1>5, <1>7, <1>8 DEF SearchInv

LEMMA SearchRests ==
    ASSUME SearchInv, UNCHANGED vars
    PROVE  SearchInv'
<1>1. UNCHANGED <<fsm, ps, cmp, host, sync, pll, eye>>
  BY DEF vars
<1>2. InEye' = InEye /\ StartSeen' = StartSeen /\ StartComes' = StartComes
  BY <1>1 DEF InEye, StartSeen, StartComes
<1>3. HostTypes' /\ PllTypes' /\ OneMode' /\ ResetsFirst' /\ Filled'
  BY <1>1 DEF SearchInv, HostTypes, PllTypes, OneMode, ResetsFirst, Filled
<1>4. ShiftsInTurn' /\ StatusIsTrue'
  BY <1>1, <1>2 DEF SearchInv, ShiftsInTurn, StatusIsTrue, NotYetShifted, ShiftDone, AutoMode
<1>5. IF fsm.state = "cmp_smpls" THEN Comparing' ELSE Stopped'
  BY <1>1, <1>2 DEF SearchInv, Comparing, Stopped, TrueVerdict
<1>. QED  BY <1>1, <1>3, <1>4, <1>5 DEF SearchInv

LEMMA SearchStep ==
    ASSUME OneUser, SearchInv, [Next]_vars
    PROVE  SearchInv'
BY ScanKeeps, RxKeeps, PllKeeps, HostKeeps, SearchRests DEF Next

LEMMA SearchAlways == ASSUME OneUser PROVE Spec => []SearchInv
<1>1. SearchInv /\ [Next]_vars => SearchInv'
  BY SearchStep
<1>. QED  BY <1>1, SearchStarts, PTL DEF Spec

\* A search reports success only of a phase at which the interface works, for any eye,
\* any counts of steps and clocks, a PLL that answers too late, and a host that gives
\* up searches, unless it gives up manual shifts (ps_done, ps_status of pll_ps_fsm).
THEOREM SuccessIsTrue == ASSUME OneUser PROVE Spec => []SuccessIsInEye
<1>1. SearchInv => SuccessIsInEye
  BY DEF SearchInv, StatusIsTrue, SuccessIsInEye, PsDone, PsStatus, AutoMode
<1>. QED  BY <1>1, SearchAlways, PTL

\* The phase does not move while samples are compared: the comparator runs only in
\* cmp_smpls, where pll_ps makes no step and the PLL is not reset.
THEOREM PhaseIsStill == ASSUME OneUser PROVE Spec => StillWhileComparing
<1>1. ASSUME SearchInv, [Next]_vars
      PROVE  [cmp.state = "compare" => pll'.phase = pll.phase]_vars
  <2>1. CASE cmp.state = "compare"
    <3>1. fsm.state = "cmp_smpls"
      BY <1>1, <2>1 DEF SearchInv, Stopped
    <3>2. CASE PllReset \/ PllLock \/ PllStep \/ PllStepped
      BY <1>1, <3>1, <3>2, PllMoves
    <3>3. CASE ScanClock \/ RxClock \/ Start \/ Drop \/ UNCHANGED vars
      BY <3>3 DEF ScanClock, RxClock, Start, Drop, vars
    <3>. QED  BY <1>1, <3>2, <3>3 DEF Next
  <2>2. CASE cmp.state # "compare"
    BY <2>2
  <2>. QED  BY <2>1, <2>2
<1>. QED  BY <1>1, SearchAlways, PTL DEF Spec, StillWhileComparing

-----------------------------------------------------------------------------
(* The steps of a shift.                                                   *)

\* A PLL in time never lets pll_ps give up: it makes the one step of each phase_step,
\* and pll_ps begins no step before the PLL is done with the last one.
StepTypes ==
    /\ ps.state \in {"idle", "check_phase_step", "phase_step", "check_phase_done", "end_phase"}
    /\ ps.en_reg \in BOOLEAN /\ ps.updown_reg \in BOOLEAN
    /\ ps.phase_reg \in Nat /\ ps.current_phase_step_cnt \in Nat
    /\ ps.wait_cnt \in 0 .. PS_TIMEOUT

OneByOne ==
    /\ ps.state \in {"idle", "check_phase_step", "end_phase"} => pll.phasedone
    /\ ps.state \in {"check_phase_step", "phase_step", "check_phase_done"} =>
          ps.current_phase_step_cnt <= ps.phase_reg
    /\ ps.state \in {"phase_step", "check_phase_done"} => ps.current_phase_step_cnt > 0
    /\ ps.state = "end_phase" => ps.current_phase_step_cnt = ps.phase_reg + 1

\* The steps of this shift that the PLL has still to make.
StepsLeft ==
    IF ps.state = "end_phase" THEN 0
    ELSE ps.phase_reg - ps.current_phase_step_cnt
         + (IF ps.state = "phase_step" /\ pll.phasedone THEN 1 ELSE 0)

-----------------------------------------------------------------------------
(* A shift and what it is to reach.                                        *)

Turned(up, n) == IF up THEN n ELSE -n

FsmTypes ==
    /\ fsm.state \in {"idle", "rst_pll", "wait_pll_lock", "check_cmp_status", "cmp_smpls",
                      "min_found", "max_found", "check_max_steps", "ph_shift",
                      "wait_after_ph_shift", "prep_phase", "end_srch"}
    /\ fsm.ps_ctrl_phase \in Nat /\ fsm.ps_ctrl_updwn \in BOOLEAN /\ fsm.ps_updwn_reg \in BOOLEAN
    /\ fsm.ps_ctrl_en \in BOOLEAN /\ fsm.ps_en_reg \in BOOLEAN
    /\ fsm.find_min \in BOOLEAN /\ fsm.find_max \in BOOLEAN
    /\ fsm.step_cnt \in Nat /\ fsm.step_cnt_min \in Nat /\ fsm.step_cnt_max \in Nat
    /\ fsm.step_cnt_diff \in Nat /\ fsm.step_cnt_middle \in Nat /\ fsm.step_cnt_reverse \in Nat
    /\ fsm.prep_phase_cnt \in Nat /\ fsm.wait_cnt \in Nat /\ fsm.ps_step_size_reg \in Nat

\* What was asked for: a number of steps in range, and the search's copy of it.
Asked ==
    /\ host.ps_en \/ fsm.state # "idle" => host.ps_step_size \in STEP_SIZES
    /\ eye \in EYES
    /\ intact /\ fsm.state # "idle" =>
          /\ fsm.ps_step_size_reg = host.ps_step_size /\ fsm.ps_updwn_reg = host.ps_updwn
          /\ fsm.state # "rst_pll" => fsm.step_cnt_max_reg = StepCntMaxConstant - host.ps_step_size
    /\ fsm.state \notin {"idle", "rst_pll"} => pll.locked \/ fsm.state = "wait_pll_lock"
    /\ fsm.state = "idle" => pll.locked

\* A request is seen by pll_ps: its enable is low before.
Edges ==
    /\ AutoMode(host) /\ fsm.state \notin {"ph_shift", "wait_after_ph_shift"} => ~ps.en_reg
    /\ fsm.state = "wait_after_ph_shift" /\ fsm.wait_cnt > 0 => ~fsm.ps_ctrl_en
    /\ ~AutoMode(host) => (ps.en_reg <=> fsm.ps_en_reg)
    /\ fsm.done_manual => fsm.ps_en_reg /\ (AutoMode(host) \/ ps.state = "idle")

\* The shift is asked for and not yet begun.
Pending == IF AutoMode(host) THEN fsm.state = "ph_shift" /\ NotYetShifted
           ELSE host.ps_en /\ ~ps.en_reg

\* A manual shift begins with no shift under way, and its end is a fall of busy.
ManualInTurn ==
    ~AutoMode(host) =>
        /\ Pending => ps.state = "idle" /\ ~ps.busy /\ ~fsm.ps_ctrl_busy_reg
        /\ ShiftDone(ps.busy) => ps.state = "idle"
        /\ ps.state # "idle" => host.ps_en

\* Both edges of the eye lie where the search compares.
BothEdges == Good # {} /\ Bad # {}

\* Where the shift ends: one step on, or, once the edges are known, the middle.
Goal == IF ~AutoMode(host) THEN from + Signed(host.ps_phase)
        ELSE IF fsm.find_max THEN Signed(fsm.step_cnt) ELSE Signed(Middle)

Aimed == intact /\ (AutoMode(host) /\ ~fsm.find_max => BothEdges)

\* The phase and the steps to make add up to the goal.
OnTheWay ==
    Aimed =>
        /\ Pending => pll.phase + Turned(PsCtrlUpdown(host), PsCtrlPhase(host)) = Goal
        /\ ps.state # "idle" => pll.phase + Turned(ps.updown_reg, StepsLeft) = Goal
        /\ ps.state = "idle" /\ ~Pending =>
              /\ AutoMode(host) /\ fsm.state \in {"wait_pll_lock", "check_cmp_status", "cmp_smpls",
                                                  "ph_shift", "wait_after_ph_shift"} => pll.phase = Goal
              /\ ~AutoMode(host) /\ host.ps_en => pll.phase = Goal

-----------------------------------------------------------------------------
(* The search.                                                             *)

\* Reports also hold the other way: an error means a phase outside the eye.
TrueErrors ==
    /\ ~StartSeen => ~cmp.error
    /\ fsm.state = "cmp_smpls" =>
          /\ cmp.error => ~InEye
          /\ sync.done[1] /\ sync.error[1] => ~InEye
          /\ sync.done[2] /\ sync.error[2] => ~InEye
    /\ fsm.state = "end_srch" /\ ~fsm.find_min /\ sync.error[2] => ~InEye

\* No phase up to hi can be the minimum.
NoGood(hi) == \A p \in Compared : p <= hi /\ p > 2 => p \notin eye

\* No gap of the eye lies between two phases that the search compares one after the other.
NoNarrowGaps ==
    \A e \in EYES, s \in STEP_SIZES, p \in Nat : p > 2 /\ p \in e /\ p + s \in e => p .. p + s \subseteq e

\* m is the minimum, and the eye reaches from there to hi.
EyeTo(m, hi) ==
    /\ m \in Good /\ (\A p \in Good : m <= p) /\ m <= hi
    /\ \A p \in Compared : m <= p /\ p <= hi => p \in eye
    /\ NoNarrowGaps => m .. hi \subseteq eye

\* What is known when all phases up to hi were compared.
Seen(hi) == IF fsm.find_min THEN NoGood(hi) ELSE EyeTo(fsm.step_cnt_min, hi)

\* While the edges are searched.
Searching ==
    intact /\ fsm.find_max /\ fsm.state \notin {"idle", "prep_phase", "end_srch"} =>
        /\ fsm.step_cnt \in Compared
        /\ fsm.ps_ctrl_phase = host.ps_step_size /\ fsm.ps_ctrl_updwn = host.ps_updwn
        /\ Seen(IF fsm.state = "check_max_steps" THEN fsm.step_cnt
                ELSE fsm.step_cnt - host.ps_step_size)
        /\ fsm.state \in {"rst_pll", "wait_pll_lock"} => fsm.step_cnt = 0 /\ fsm.find_min
        /\ fsm.state = "rst_pll" /\ ~pll.locked => pll.phase = 0
        /\ fsm.state \in {"min_found", "max_found", "check_max_steps"} => pll.phase = Signed(fsm.step_cnt)
        /\ fsm.state = "min_found" => fsm.find_min /\ fsm.step_cnt > 2 /\ fsm.step_cnt \in eye
        /\ fsm.state = "max_found" => fsm.step_cnt \notin eye

\* The flags follow the states.
Flags ==
    /\ ~fsm.find_max => fsm.state \in {"idle", "prep_phase", "ph_shift", "wait_after_ph_shift",
                                       "check_cmp_status", "cmp_smpls", "end_srch"}
    /\ ~fsm.find_max \/ fsm.state \in {"max_found", "prep_phase"} => ~fsm.find_min \/ fsm.state = "idle"
    /\ fsm.state = "rst_pll" => fsm.find_min /\ fsm.find_max
    /\ fsm.state = "end_srch" /\ fsm.find_max => fsm.find_min

\* The registers of the final phase become valid one after the other.
Preparing ==
    intact /\ fsm.state = "prep_phase" /\ BothEdges =>
        /\ fsm.step_cnt_min = Min(Good) /\ fsm.step_cnt = Min(Bad)
        /\ fsm.step_cnt_max = fsm.step_cnt - host.ps_step_size
        /\ fsm.step_cnt_min <= fsm.step_cnt_max /\ fsm.step_cnt < PHASE_RANGE
        /\ fsm.prep_phase_cnt > 0 => fsm.step_cnt_diff = fsm.step_cnt_max - fsm.step_cnt_min
        /\ fsm.prep_phase_cnt > 1 => fsm.step_cnt_middle = Middle
        /\ fsm.prep_phase_cnt > 2 => fsm.step_cnt_reverse = fsm.step_cnt - Middle
        /\ pll.phase = Signed(fsm.step_cnt)

MiddleInEye == Middle \in Nat /\ (NoNarrowGaps => Middle \in eye)

\* A search that is over, or about to be.
Ending ==
    intact /\ BothEdges =>
        /\ (fsm.state \notin {"idle", "end_srch"} /\ ~fsm.find_max) \/ fsm.state = "prep_phase" =>
              MiddleInEye
        /\ fsm.state = "end_srch" => ~fsm.find_min /\ MiddleInEye /\ pll.phase = Signed(Middle)
        /\ fsm.ps_done => (NoNarrowGaps => ~fsm.ps_status) /\ pll.phase = Signed(Middle)

ExactInv ==
    /\ StepTypes /\ OneByOne /\ FsmTypes /\ Asked /\ Edges /\ ManualInTurn
    /\ OnTheWay /\ TrueErrors /\ Searching /\ Flags /\ Preparing /\ Ending
-----------------------------------------------------------------------------
(* Counting.                                                               *)

LEMMA WrapIs ==
    ASSUME NEW n \in 0 .. PHASE_RANGE - 1
    PROVE  Wrap(n) = n
BY FsmAssumption DEF Wrap

LEMMA WrapNat ==
    ASSUME NEW n \in Int
    PROVE  Wrap(n) \in 0 .. PHASE_RANGE - 1 /\ Wrap(n) \in Nat
BY FsmAssumption DEF Wrap

LEMMA NextMultiple ==
    ASSUME NEW s \in Nat \ {0}, NEW p \in Nat, p % s = 0
    PROVE  (p + s) % s = 0
<1>. DEFINE k == p \div s
<1>1. p = s * k /\ k \in Nat
  OBVIOUS
<1>. HIDE DEF k
<1>2. s * (k + 1) = s * k + s
  BY <1>1
<1>3. (s * (k + 1)) % s = 0
  BY <1>1
<1>. QED  BY <1>1, <1>2, <1>3

\* Two multiples of a step are a step apart.
LEMMA Apart ==
    ASSUME NEW s \in Nat \ {0}, NEW p \in Nat, NEW q \in Nat, p % s = 0, q % s = 0, q < p
    PROVE  q + s <= p
<1>. DEFINE j == q \div s
            k == p \div s
<1>1. p = s * k /\ k \in Nat
  OBVIOUS
<1>2. q = s * j /\ j \in Nat
  OBVIOUS
<1>. HIDE DEF j, k
<1>3. \A a, b \in Nat : a * b >= 0
  OBVIOUS
<1>4. j < k
  <2>1. ASSUME j >= k  PROVE FALSE
    <3>1. j - k \in Nat /\ s * (j - k) >= 0
      BY <1>1, <1>2, <1>3, <2>1
    <3>2. s * (j - k) = s * j - s * k
      BY <1>1, <1>2
    <3>. QED  BY <1>1, <1>2, <3>1, <3>2
  <2>. QED  BY <1>1, <1>2, <2>1
<1>5. k - j - 1 \in Nat /\ s * (k - j - 1) >= 0
  BY <1>1, <1>2, <1>3, <1>4
<1>6. s * (k - j - 1) = s * k - s * j - s
  BY <1>1, <1>2
<1>. QED  BY <1>1, <1>2, <1>5, <1>6

LEMMA MinIs ==
    ASSUME NEW S \in SUBSET Nat, NEW m \in S, \A p \in S : m <= p
    PROVE  Min(S) = m
<1>1. Min(S) \in S /\ \A p \in S : Min(S) <= p
  BY Zenon DEF Min
<1>. DEFINE least == Min(S)
<1>2. least \in Nat /\ m \in Nat /\ least <= m /\ m <= least
  BY <1>1
<1>. HIDE DEF least
<1>3. least = m
  BY <1>2
<1>. QED  BY <1>3 DEF least

\* The size of the steps of a search, and the phases it compares.
Size == host.ps_step_size

LEMMA SizeIs ==
    ASSUME Asked, host.ps_en \/ fsm.state # "idle"
    PROVE  Size \in STEP_SIZES /\ Size \in Nat \ {0} /\ Size <= PHASE_RANGE - 1 /\ PHASE_RANGE \in Nat
<1>1. host.ps_step_size \in STEP_SIZES
  BY DEF Asked
<1>2. PHASE_RANGE \in Nat /\ STEP_SIZES \subseteq 1 .. PHASE_RANGE - 1
  BY SearchAssumption, FsmAssumption
<1>3. host.ps_step_size \in 1 .. PHASE_RANGE - 1
  BY <1>1, <1>2
<1>4. Size \in Nat \ {0} /\ Size <= PHASE_RANGE - 1
  BY <1>2, <1>3 DEF Size
<1>. QED  BY <1>1, <1>2, <1>4 DEF Size

LEMMA ComparedIs ==
    \A p : p \in Compared <=> p \in Nat /\ p <= PHASE_RANGE - 2 /\ p % Size = 0
BY FsmAssumption DEF Compared, Size

LEMMA ComparedNext ==
    ASSUME Asked, fsm.state # "idle", NEW p \in Compared, p + Size <= PHASE_RANGE - 2
    PROVE  p + Size \in Compared
<1>1. p \in Nat /\ p % Size = 0 /\ Size \in Nat \ {0}
  BY ComparedIs, SizeIs
<1>2. (p + Size) % Size = 0
  BY <1>1, NextMultiple
<1>. QED  BY <1>1, <1>2, ComparedIs

LEMMA ComparedApart ==
    ASSUME Asked, fsm.state # "idle", NEW p \in Compared, NEW q \in Compared, q < p
    PROVE  q <= p - Size
<1>1. p \in Nat /\ p % Size = 0 /\ q \in Nat /\ q % Size = 0 /\ Size \in Nat \ {0}
  BY ComparedIs, SizeIs
<1>2. q + Size <= p
  BY <1>1, Apart
<1>. QED  BY <1>1, <1>2

-----------------------------------------------------------------------------
(* The registers after a clock.                                            *)

LEMMA SearchFields ==
    ASSUME ScanClock
    PROVE  /\ UNCHANGED <<cmp, host, pll, eye, starts, intact, from>>
           /\ fsm'.ps_updwn_reg = (IF host.ps_en /\ ~fsm.ps_en_reg THEN host.ps_updwn ELSE fsm.ps_updwn_reg)
           /\ fsm'.ps_step_size_reg =
                 (IF host.ps_en /\ ~fsm.ps_en_reg THEN host.ps_step_size ELSE fsm.ps_step_size_reg)
           /\ fsm'.step_cnt_max_reg = Wrap(StepCntMaxConstant - fsm.ps_step_size_reg)
           /\ fsm'.done_manual <=> host.ps_en /\ (fsm.done_manual \/ (fsm.ps_ctrl_busy_reg /\ ~ps.busy))
           /\ fsm'.find_min = Pick(TRUE, "min_found", FALSE, fsm.find_min)
           /\ fsm'.find_max =
                 (~(fsm.state = "max_found" \/ fsm.state = "prep_phase") /\ (fsm.state = "idle" \/ fsm.find_max))
           /\ fsm'.step_cnt_min = Pick(0, "min_found", fsm.step_cnt, fsm.step_cnt_min)
           /\ fsm'.step_cnt_max = Pick(StepCntMaxConstant, "max_found", MaxPhase, fsm.step_cnt_max)
           /\ fsm'.step_cnt = Pick(0, "check_max_steps", Wrap(fsm.step_cnt + fsm.ps_step_size_reg), fsm.step_cnt)
           /\ fsm'.step_cnt_diff = Wrap(fsm.step_cnt_max - fsm.step_cnt_min)
           /\ fsm'.step_cnt_middle = Wrap((fsm.step_cnt_diff \div 2) + fsm.step_cnt_min)
           /\ fsm'.step_cnt_reverse = Wrap(fsm.step_cnt - fsm.step_cnt_middle)
           /\ fsm'.prep_phase_cnt = (IF fsm.state = "prep_phase" THEN fsm.prep_phase_cnt + 1 ELSE 0)
           /\ fsm'.wait_cnt = (IF fsm.state = "wait_after_ph_shift" THEN fsm.wait_cnt + 1 ELSE 0)
           /\ fsm'.ps_ctrl_phase = Pick(host.ps_step_size, "prep_phase", fsm.step_cnt_reverse, fsm.ps_ctrl_phase)
           /\ fsm'.ps_ctrl_updwn = Pick(host.ps_updwn, "prep_phase", ~fsm.ps_updwn_reg, fsm.ps_ctrl_updwn)
           /\ fsm'.ps_en_reg = host.ps_en /\ fsm'.ps_ctrl_en = (fsm.state = "ph_shift")
<1>1. FsmClock(host, pll.locked, ps.busy, sync.done[2], sync.error[2])
  BY DEF ScanClock
<1>2. UNCHANGED <<cmp, host, pll, eye, starts, intact, from>>
  BY DEF ScanClock
<1>3. /\ fsm'.ps_updwn_reg = (IF host.ps_en /\ ~fsm.ps_en_reg THEN host.ps_updwn ELSE fsm.ps_updwn_reg)
      /\ fsm'.ps_step_size_reg =
            (IF host.ps_en /\ ~fsm.ps_en_reg THEN host.ps_step_size ELSE fsm.ps_step_size_reg)
      /\ fsm'.step_cnt_max_reg = Wrap(StepCntMaxConstant - fsm.ps_step_size_reg)
  BY <1>1 DEF FsmClock
<1>4. fsm'.done_manual = (host.ps_en /\ (fsm.done_manual \/ (fsm.ps_ctrl_busy_reg /\ ~ps.busy)))
  BY <1>1 DEF FsmClock
<1>5. /\ fsm'.find_min = Pick(TRUE, "min_found", FALSE, fsm.find_min)
      /\ fsm'.find_max =
            (~(fsm.state = "max_found" \/ fsm.state = "prep_phase") /\ (fsm.state = "idle" \/ fsm.find_max))
  BY <1>1 DEF FsmClock
<1>6. /\ fsm'.step_cnt_min = Pick(0, "min_found", fsm.step_cnt, fsm.step_cnt_min)
      /\ fsm'.step_cnt_max = Pick(StepCntMaxConstant, "max_found", MaxPhase, fsm.step_cnt_max)
      /\ fsm'.step_cnt = Pick(0, "check_max_steps", Wrap(fsm.step_cnt + fsm.ps_step_size_reg), fsm.step_cnt)
  BY <1>1 DEF FsmClock
<1>7. /\ fsm'.step_cnt_diff = Wrap(fsm.step_cnt_max - fsm.step_cnt_min)
      /\ fsm'.step_cnt_middle = Wrap((fsm.step_cnt_diff \div 2) + fsm.step_cnt_min)
      /\ fsm'.step_cnt_reverse = Wrap(fsm.step_cnt - fsm.step_cnt_middle)
  BY <1>1 DEF FsmClock
<1>8. /\ fsm'.prep_phase_cnt = (IF fsm.state = "prep_phase" THEN fsm.prep_phase_cnt + 1 ELSE 0)
      /\ fsm'.wait_cnt = (IF fsm.state = "wait_after_ph_shift" THEN fsm.wait_cnt + 1 ELSE 0)
  BY <1>1 DEF FsmClock
<1>9. /\ fsm'.ps_ctrl_phase = Pick(host.ps_step_size, "prep_phase", fsm.step_cnt_reverse, fsm.ps_ctrl_phase)
      /\ fsm'.ps_ctrl_updwn = Pick(host.ps_updwn, "prep_phase", ~fsm.ps_updwn_reg, fsm.ps_ctrl_updwn)
      /\ fsm'.ps_en_reg = host.ps_en /\ fsm'.ps_ctrl_en = (fsm.state = "ph_shift")
  BY <1>1 DEF FsmClock
<1>. QED  BY <1>2, <1>3, <1>4, <1>5, <1>6, <1>7, <1>8, <1>9

\* Where the search goes from each state.
LEMMA ScanGoes ==
    ASSUME ScanClock, FsmTypes
    PROVE  /\ fsm'.state = "idle" => fsm.state \in {"idle", "end_srch"}
           /\ fsm'.state = "rst_pll" =>
                 \/ fsm.state = "idle" /\ host.ps_en /\ ~fsm.ps_en_reg /\ AutoMode(host)
                 \/ fsm.state = "rst_pll" /\ pll.locked
           /\ fsm'.state = "wait_pll_lock" => fsm.state \in {"rst_pll", "wait_pll_lock"} /\ ~pll.locked
           /\ fsm'.state = "check_cmp_status" =>
                 \/ fsm.state = "wait_pll_lock" /\ pll.locked
                 \/ fsm.state = "check_cmp_status" /\ sync.done[2]
                 \/ fsm.state = "wait_after_ph_shift" /\ fsm.wait_cnt > SETTLE
           /\ fsm'.state = "cmp_smpls" => fsm.state \in {"check_cmp_status", "cmp_smpls"} /\ ~sync.done[2]
           /\ fsm'.state = "min_found" =>
                 fsm.state = "cmp_smpls" /\ sync.done[2] /\ fsm.find_min /\ ~sync.error[2] /\ fsm.step_cnt > 2
           /\ fsm'.state = "max_found" =>
                 fsm.state = "cmp_smpls" /\ sync.done[2] /\ ~fsm.find_min /\ fsm.find_max /\ sync.error[2]
           /\ fsm'.state = "check_max_steps" =>
                 \/ fsm.state = "min_found"
                 \/ /\ fsm.state = "cmp_smpls" /\ sync.done[2]
                    /\ IF fsm.find_min THEN sync.error[2] \/ ~(fsm.step_cnt > 2)
                       ELSE fsm.find_max /\ ~sync.error[2]
           /\ fsm'.state = "ph_shift" =>
                 \/ fsm.state = "wait_pll_lock" /\ ~fsm.find_min /\ ~fsm.find_max
                 \/ fsm.state = "check_max_steps" /\ MoreToSearch
                 \/ fsm.state = "ph_shift" /\ ~ShiftDone(ps.busy)
                 \/ fsm.state = "prep_phase" /\ PhasePrepared
           /\ fsm'.state = "wait_after_ph_shift" =>
                 \/ fsm.state = "ph_shift" /\ ShiftDone(ps.busy)
                 \/ fsm.state = "wait_after_ph_shift" /\ ~(fsm.wait_cnt > SETTLE)
           /\ fsm'.state = "prep_phase" =>
                 \/ fsm.state = "max_found"
                 \/ fsm.state = "check_max_steps" /\ ~MoreToSearch /\ ~fsm.find_min
                 \/ fsm.state = "prep_phase" /\ ~PhasePrepared
           /\ fsm'.state = "end_srch" =>
                 \/ fsm.state = "cmp_smpls" /\ sync.done[2] /\ ~fsm.find_min /\ ~fsm.find_max
                 \/ fsm.state = "check_max_steps" /\ ~MoreToSearch /\ fsm.find_min
<1>. DEFINE to == FsmNextState(host, pll.locked, ps.busy, sync.done[2], sync.error[2])
<1>1. fsm'.state = to
  BY ScanFields
<1>2. CASE fsm.state = "idle"
  BY <1>1, <1>2 DEF FsmNextState, AutoMode
<1>3. CASE fsm.state = "rst_pll"
  BY <1>1, <1>3 DEF FsmNextState
<1>4. CASE fsm.state = "wait_pll_lock"
  BY <1>1, <1>4 DEF FsmNextState
<1>5. CASE fsm.state = "check_cmp_status"
  BY <1>1, <1>5 DEF FsmNextState
<1>6. CASE fsm.state = "cmp_smpls"
  BY <1>1, <1>6 DEF FsmNextState, Verdict
<1>7. CASE fsm.state = "min_found" \/ fsm.state = "max_found"
  BY <1>1, <1>7 DEF FsmNextState
<1>8. CASE fsm.state = "check_max_steps"
  BY <1>1, <1>8 DEF FsmNextState
<1>9. CASE fsm.state = "ph_shift"
  BY <1>1, <1>9 DEF FsmNextState
<1>10. CASE fsm.state = "wait_after_ph_shift"
  BY <1>1, <1>10 DEF FsmNextState
<1>11. CASE fsm.state = "prep_phase"
  BY <1>1, <1>11 DEF FsmNextState
<1>12. CASE fsm.state = "end_srch"
  BY <1>1, <1>12 DEF FsmNextState
<1>. QED
  BY <1>2, <1>3, <1>4, <1>5, <1>6, <1>7, <1>8, <1>9, <1>10, <1>11, <1>12 DEF FsmTypes

-----------------------------------------------------------------------------
(* The steps of a shift are made one by one.                               *)

PsTypes == StepTypes /\ OneByOne

\* While a shift is under way its enable was seen: none begins in the middle of it.
LEMMA NoLateRise ==
    ASSUME SearchInv, ManualInTurn, ps.state # "idle"
    PROVE  ps.en_reg /\ ~Pending
<1>1. CASE AutoMode(host)
  <2>1. fsm.state = "ph_shift" /\ ~NotYetShifted
    BY <1>1 DEF SearchInv, ShiftsInTurn
  <2>. QED  BY <1>1, <2>1 DEF NotYetShifted, Pending
<1>2. CASE ~AutoMode(host)
  BY <1>2 DEF ManualInTurn, Pending
<1>. QED  BY <1>1, <1>2

LEMMA StepFields ==
    ASSUME ScanClock
    PROVE  /\ ps'.state = PsNextState(PsCtrlEn(host), pll.phasedone)
           /\ ps'.en_reg = PsCtrlEn(host)
           /\ ps'.busy <=> ps.state # "idle"
           /\ PsCtrlEn(host) /\ ~ps.en_reg =>
                 ps'.phase_reg = PsCtrlPhase(host) /\ ps'.updown_reg = PsCtrlUpdown(host)
           /\ ~(PsCtrlEn(host) /\ ~ps.en_reg) => ps'.phase_reg = ps.phase_reg /\ ps'.updown_reg = ps.updown_reg
           /\ ps.state = "check_phase_step" => ps'.current_phase_step_cnt = ps.current_phase_step_cnt + 1
           /\ ps.state = "idle" => ps'.current_phase_step_cnt = 0
           /\ ps.state \notin {"check_phase_step", "idle"} =>
                 ps'.current_phase_step_cnt = ps.current_phase_step_cnt
           /\ ps'.wait_cnt = (IF ps'.state = ps.state /\ ps.state \in {"phase_step", "check_phase_done"}
                              THEN ps.wait_cnt + 1 ELSE 0)
<1>1. PsClock(PsCtrlEn(host), PsCtrlPhase(host), PsCtrlUpdown(host), pll.phasedone)
  BY DEF ScanClock
<1>. DEFINE rise == PsCtrlEn(host) /\ ~ps.en_reg
<1>2. /\ ps'.phase_reg = IF rise THEN PsCtrlPhase(host) ELSE ps.phase_reg
      /\ ps'.updown_reg = IF rise THEN PsCtrlUpdown(host) ELSE ps.updown_reg
  BY <1>1 DEF PsClock
<1>3. ps'.current_phase_step_cnt = CASE ps.state = "check_phase_step" -> ps.current_phase_step_cnt + 1
                                     [] ps.state = "idle" -> 0
                                     [] OTHER -> ps.current_phase_step_cnt
  BY <1>1 DEF PsClock
<1>4. ps'.wait_cnt = (IF ps'.state = ps.state /\ ps.state \in {"phase_step", "check_phase_done"}
                      THEN ps.wait_cnt + 1 ELSE 0)
  BY <1>1 DEF PsClock
<1>5. /\ ps.state = "check_phase_step" => ps'.current_phase_step_cnt = ps.current_phase_step_cnt + 1
      /\ ps.state = "idle" => ps'.current_phase_step_cnt = 0
      /\ ps.state \notin {"check_phase_step", "idle"} =>
            ps'.current_phase_step_cnt = ps.current_phase_step_cnt
  BY <1>3
<1>6. /\ rise => ps'.phase_reg = PsCtrlPhase(host) /\ ps'.updown_reg = PsCtrlUpdown(host)
      /\ ~rise => ps'.phase_reg = ps.phase_reg /\ ps'.updown_reg = ps.updown_reg
  BY <1>2
<1>. QED  BY <1>4, <1>5, <1>6, PsFields

\* What the enable, the number and the direction of a shift can be.
LEMMA CtrlTypes ==
    ASSUME SearchInv, FsmTypes
    PROVE  PsCtrlEn(host) \in BOOLEAN /\ PsCtrlPhase(host) \in Nat /\ PsCtrlUpdown(host) \in BOOLEAN
<1>1. host.ps_en \in BOOLEAN /\ host.ps_phase \in Nat /\ host.ps_updwn \in BOOLEAN
  BY DEF SearchInv, HostTypes
<1>. QED  BY <1>1 DEF FsmTypes, PsCtrlEn, PsCtrlPhase, PsCtrlUpdown

\* A clock of pll_ps: a shift begins, goes on with as many steps left, or ends with none.
LEMMA ScanSteps ==
    ASSUME ~SLOW_PLL, SearchInv, FsmTypes, ManualInTurn, PsTypes, ScanClock
    PROVE  /\ PsTypes'
           /\ ps.state # "idle" /\ ps'.state # "idle" =>
                 ps'.updown_reg = ps.updown_reg /\ StepsLeft' = StepsLeft
           /\ ps.state # "idle" /\ ps'.state = "idle" => StepsLeft = 0
           /\ ps.state = "idle" /\ ps'.state # "idle" =>
                 /\ PsCtrlEn(host) /\ ~ps.en_reg
                 /\ ps'.updown_reg = PsCtrlUpdown(host) /\ StepsLeft' = PsCtrlPhase(host)
           /\ ps.state = "idle" /\ PsCtrlEn(host) /\ ~ps.en_reg => ps'.state # "idle"
<1>. DEFINE n == ps.current_phase_step_cnt
<1>. DEFINE N == ps.phase_reg
<1>1. pll' = pll /\ pll.phasedone \in BOOLEAN
  BY DEF ScanClock, SearchInv, PllTypes
<1>2. n \in Nat /\ N \in Nat /\ ps.wait_cnt \in Nat /\ ps.wait_cnt <= PS_TIMEOUT /\ PS_TIMEOUT \in Nat
  BY PsTimeoutAssumption DEF PsTypes, StepTypes
<1>3. ps.wait_cnt < PS_TIMEOUT \/ pll.phasedone = (ps.state = "check_phase_done")
  BY DEF ScanClock, PllInTime
<1>4. ~TimedOut
  BY <1>2 DEF TimedOut
<1>5. /\ ps'.en_reg \in BOOLEAN /\ ps'.updown_reg \in BOOLEAN /\ ps'.phase_reg \in Nat
      /\ ps'.current_phase_step_cnt \in Nat
  <2>1. ps.en_reg \in BOOLEAN /\ ps.updown_reg \in BOOLEAN
    BY DEF PsTypes, StepTypes
  <2>2. ps'.en_reg \in BOOLEAN
    BY StepFields, CtrlTypes
  <2>3. ps'.updown_reg \in BOOLEAN /\ ps'.phase_reg \in Nat
    BY <1>2, <2>1, StepFields, CtrlTypes
  <2>4. ps'.current_phase_step_cnt \in Nat
    <3>1. CASE ps.state = "check_phase_step"
      BY <1>2, <3>1, StepFields
    <3>2. CASE ps.state = "idle"
      BY <3>2, StepFields
    <3>3. CASE ps.state \notin {"check_phase_step", "idle"}
      BY <1>2, <3>3, StepFields
    <3>. QED  BY <3>1, <3>2, <3>3
  <2>. QED  BY <2>2, <2>3, <2>4
<1>6. StepsLeft = IF ps.state = "end_phase" THEN 0
                  ELSE N - n + (IF ps.state = "phase_step" /\ pll.phasedone THEN 1 ELSE 0)
  BY DEF StepsLeft
<1>7. StepsLeft' = IF ps'.state = "end_phase" THEN 0
                   ELSE ps'.phase_reg - ps'.current_phase_step_cnt
                        + (IF ps'.state = "phase_step" /\ pll.phasedone THEN 1 ELSE 0)
  BY <1>1 DEF StepsLeft
<1>8. ps.state # "idle" => ps'.phase_reg = N /\ ps'.updown_reg = ps.updown_reg
  BY NoLateRise, StepFields
<1>9. MoreSteps <=> n < N
  BY DEF MoreSteps
<1>. HIDE DEF n, N
<1>10. CASE ps.state = "idle"
  <2>1. ps'.wait_cnt = 0 /\ ps'.current_phase_step_cnt = 0
    BY <1>10, StepFields
  <2>2. pll.phasedone
    BY <1>10 DEF PsTypes, OneByOne
  <2>3. CASE PsCtrlEn(host) /\ ~ps.en_reg
    <3>1. ps'.state = "check_phase_step"
      BY <1>10, <2>3, StepFields DEF PsNextState
    <3>2. ps'.phase_reg = PsCtrlPhase(host) /\ ps'.updown_reg = PsCtrlUpdown(host)
      BY <2>3, StepFields
    <3>3. PsTypes'
      BY <1>1, <1>2, <1>5, <2>1, <2>2, <3>1 DEF PsTypes, StepTypes, OneByOne
    <3>4. StepsLeft' = PsCtrlPhase(host)
      BY <1>5, <1>7, <2>1, <3>1, <3>2
    <3>. QED  BY <1>10, <2>3, <3>1, <3>2, <3>3, <3>4
  <2>4. CASE ~(PsCtrlEn(host) /\ ~ps.en_reg)
    <3>1. ps'.state = "idle"
      BY <1>10, <2>4, StepFields DEF PsNextState
    <3>2. PsTypes'
      BY <1>1, <1>2, <1>5, <2>1, <2>2, <3>1 DEF PsTypes, StepTypes, OneByOne
    <3>. QED  BY <1>10, <2>4, <3>1, <3>2
  <2>. QED  BY <2>3, <2>4
<1>11. CASE ps.state = "check_phase_step"
  <2>1. ps'.wait_cnt = 0 /\ ps'.current_phase_step_cnt = n + 1
    BY <1>11, StepFields DEF n
  <2>2. pll.phasedone /\ n <= N
    BY <1>11 DEF PsTypes, OneByOne, n, N
  <2>3. CASE n < N
    <3>1. ps'.state = "phase_step"
      BY <1>9, <1>11, <2>3, StepFields DEF PsNextState
    <3>2. PsTypes'
      BY <1>1, <1>2, <1>5, <1>8, <1>11, <2>1, <2>2, <2>3, <3>1 DEF PsTypes, StepTypes, OneByOne
    <3>3. StepsLeft' = StepsLeft
      BY <1>2, <1>6, <1>7, <1>8, <1>11, <2>1, <2>2, <3>1
    <3>. QED  BY <1>8, <1>11, <3>1, <3>2, <3>3
  <2>4. CASE ~(n < N)
    <3>1. ps'.state = "end_phase"
      BY <1>9, <1>11, <2>4, StepFields DEF PsNextState
    <3>2. n = N
      BY <1>2, <2>2, <2>4
    <3>3. PsTypes'
      BY <1>1, <1>2, <1>5, <1>8, <1>11, <2>1, <2>2, <3>1, <3>2 DEF PsTypes, StepTypes, OneByOne
    <3>4. StepsLeft' = StepsLeft
      BY <1>2, <1>6, <1>7, <1>11, <3>1, <3>2
    <3>. QED  BY <1>8, <1>11, <3>1, <3>3, <3>4
  <2>. QED  BY <2>3, <2>4
<1>12. CASE ps.state = "phase_step"
  <2>1. ps'.current_phase_step_cnt = n /\ n <= N /\ n > 0
    BY <1>12, StepFields DEF PsTypes, OneByOne, n, N
  <2>2. CASE pll.phasedone
    <3>1. ps'.state = "phase_step"
      BY <1>4, <1>12, <2>2, StepFields DEF PsNextState
    <3>2. ps'.wait_cnt = ps.wait_cnt + 1 /\ ps.wait_cnt < PS_TIMEOUT
      BY <1>3, <1>12, <2>2, <3>1, StepFields
    <3>3. PsTypes'
      BY <1>1, <1>2, <1>5, <1>8, <1>12, <2>1, <3>1, <3>2 DEF PsTypes, StepTypes, OneByOne
    <3>4. StepsLeft' = StepsLeft
      BY <1>6, <1>7, <1>8, <1>12, <2>1, <3>1
    <3>. QED  BY <1>8, <1>12, <3>1, <3>3, <3>4
  <2>3. CASE ~pll.phasedone
    <3>1. ps'.state = "check_phase_done"
      BY <1>12, <2>3, StepFields DEF PsNextState
    <3>2. ps'.wait_cnt = 0
      BY <1>12, <3>1, StepFields
    <3>3. PsTypes'
      BY <1>1, <1>2, <1>5, <1>8, <1>12, <2>1, <3>1, <3>2 DEF PsTypes, StepTypes, OneByOne
    <3>4. StepsLeft' = StepsLeft
      BY <1>6, <1>7, <1>8, <1>12, <2>1, <2>3, <3>1
    <3>. QED  BY <1>8, <1>12, <3>1, <3>3, <3>4
  <2>. QED  BY <2>2, <2>3
<1>13. CASE ps.state = "check_phase_done"
  <2>1. ps'.current_phase_step_cnt = n /\ n <= N /\ n > 0
    BY <1>13, StepFields DEF PsTypes, OneByOne, n, N
  <2>2. CASE pll.phasedone
    <3>1. ps'.state = "check_phase_step"
      BY <1>13, <2>2, StepFields DEF PsNextState
    <3>2. ps'.wait_cnt = 0
      BY <1>13, <3>1, StepFields
    <3>3. PsTypes'
      BY <1>1, <1>2, <1>5, <1>8, <1>13, <2>1, <2>2, <3>1, <3>2 DEF PsTypes, StepTypes, OneByOne
    <3>4. StepsLeft' = StepsLeft
      BY <1>6, <1>7, <1>8, <1>13, <2>1, <3>1
    <3>. QED  BY <1>8, <1>13, <3>1, <3>3, <3>4
  <2>3. CASE ~pll.phasedone
    <3>1. ps'.state = "check_phase_done"
      BY <1>4, <1>13, <2>3, StepFields DEF PsNextState
    <3>2. ps'.wait_cnt = ps.wait_cnt + 1 /\ ps.wait_cnt < PS_TIMEOUT
      BY <1>3, <1>13, <2>3, <3>1, StepFields
    <3>3. PsTypes'
      BY <1>1, <1>2, <1>5, <1>8, <1>13, <2>1, <3>1, <3>2 DEF PsTypes, StepTypes, OneByOne
    <3>4. StepsLeft' = StepsLeft
      BY <1>6, <1>7, <1>8, <1>13, <2>1, <3>1
    <3>. QED  BY <1>8, <1>13, <3>1, <3>3, <3>4
  <2>. QED  BY <2>2, <2>3
<1>14. CASE ps.state = "end_phase"
  <2>1. ps'.state = "idle" /\ ps'.wait_cnt = 0 /\ pll.phasedone
    BY <1>14, StepFields DEF PsNextState, PsTypes, OneByOne
  <2>2. PsTypes'
    BY <1>1, <1>2, <1>5, <2>1 DEF PsTypes, StepTypes, OneByOne
  <2>. QED  BY <1>6, <1>14, <2>1, <2>2
<1>. QED  BY <1>10, <1>11, <1>12, <1>13, <1>14 DEF PsTypes, StepTypes

\* The PLL makes the step of phase_step once: what it is at and what is left move together.
LEMMA PllSteps ==
    ASSUME SearchInv, PsTypes, PllReset \/ PllLock \/ PllStep \/ PllStepped
    PROVE  /\ PsTypes'
           /\ ps.state # "idle" =>
                 pll'.phase + Turned(ps.updown_reg, StepsLeft') = pll.phase + Turned(ps.updown_reg, StepsLeft)
           /\ ps.state = "idle" => pll'.phase = pll.phase \/ PllReset
           /\ PllReset => ps.state = "idle"
<1>1. ps' = ps /\ PllTypes'
  BY PllMoves
<1>2. pll \in [phase : Int, locked : BOOLEAN, phasedone : BOOLEAN]
  BY DEF SearchInv, PllTypes
<1>3. StepTypes'
  BY <1>1 DEF PsTypes, StepTypes
<1>4. CASE PllReset
  <2>1. fsm.state \in {"rst_pll", "wait_pll_lock"}
    BY <1>4 DEF PllReset, SearchInv, ResetsFirst
  <2>2. ps.state = "idle"
    BY <2>1 DEF SearchInv, OneMode, ShiftsInTurn, AutoMode
  <2>3. pll'.phasedone
    BY <1>4 DEF PllReset
  <2>4. OneByOne'
    BY <1>1, <2>2, <2>3 DEF OneByOne
  <2>. QED  BY <1>3, <1>4, <2>2, <2>4 DEF PsTypes
<1>5. CASE PllLock
  <2>1. pll'.phase = pll.phase /\ pll'.phasedone = pll.phasedone
    BY <1>2, <1>5 DEF PllLock
  <2>2. OneByOne' /\ StepsLeft' = StepsLeft
    BY <1>1, <2>1 DEF PsTypes, OneByOne, StepsLeft
  <2>3. ~PllReset
    BY <1>5 DEF PllLock, PllReset
  <2>. QED  BY <1>3, <2>1, <2>2, <2>3 DEF PsTypes
<1>6. CASE PllStepped
  <2>1. pll'.phase = pll.phase /\ pll'.phasedone /\ ~pll.phasedone /\ ps.state # "phase_step"
    BY <1>2, <1>6 DEF PllStepped, PllPhasestep
  <2>2. OneByOne'
    BY <1>1, <2>1 DEF PsTypes, OneByOne
  <2>3. StepsLeft' = StepsLeft
    BY <1>1, <2>1 DEF StepsLeft
  <2>4. PllReset => FALSE
    <3>1. ASSUME PllReset  PROVE FALSE
      <4>1. fsm.state \in {"rst_pll", "wait_pll_lock"}
        BY <3>1 DEF PllReset, SearchInv, ResetsFirst
      <4>2. ps.state = "idle"
        BY <4>1 DEF SearchInv, OneMode, ShiftsInTurn, AutoMode
      <4>3. pll.phasedone
        BY <4>2 DEF PsTypes, OneByOne
      <4>. QED  BY <2>1, <4>3
    <3>. QED  BY <3>1
  <2>. QED  BY <1>3, <2>1, <2>2, <2>3, <2>4 DEF PsTypes
<1>7. CASE PllStep
  <2>1. ps.state = "phase_step" /\ pll.phasedone
    BY <1>7 DEF PllStep, PllPhasestep
  <2>2. ps.updown_reg \in BOOLEAN /\ ps.phase_reg \in Nat /\ ps.current_phase_step_cnt \in Nat
    BY DEF PsTypes, StepTypes
  <2>3. pll' = [pll EXCEPT !.phasedone = FALSE, !.phase = @ + (IF ps.updown_reg THEN 1 ELSE -1)]
    BY <1>7 DEF PllStep
  <2>4. ~pll'.phasedone
    BY <1>2, <2>3
  <2>5. pll'.phase = pll.phase + (IF ps.updown_reg THEN 1 ELSE -1) /\ pll.phase \in Int
    BY <1>2, <2>3
  <2>6. OneByOne'
    BY <1>1, <2>1 DEF PsTypes, OneByOne
  <2>7. StepsLeft = ps.phase_reg - ps.current_phase_step_cnt + 1
    BY <2>1 DEF StepsLeft
  <2>8. StepsLeft' = ps.phase_reg - ps.current_phase_step_cnt
    BY <1>1, <2>1, <2>2, <2>4 DEF StepsLeft
  <2>9. pll'.phase + Turned(ps.updown_reg, StepsLeft') = pll.phase + Turned(ps.updown_reg, StepsLeft)
    <3>1. CASE ps.updown_reg
      BY <2>2, <2>5, <2>7, <2>8, <3>1 DEF Turned
    <3>2. CASE ~ps.updown_reg
      BY <2>2, <2>5, <2>7, <2>8, <3>2 DEF Turned
    <3>. QED  BY <3>1, <3>2
  <2>10. ~PllReset
    <3>1. ASSUME PllReset  PROVE FALSE
      <4>1. fsm.state \in {"rst_pll", "wait_pll_lock"}
        BY <3>1 DEF PllReset, SearchInv, ResetsFirst
      <4>2. ps.state = "idle"
        BY <4>1 DEF SearchInv, OneMode, ShiftsInTurn, AutoMode
      <4>. QED  BY <2>1, <4>2
    <3>. QED  BY <3>1
  <2>. QED  BY <1>3, <2>1, <2>6, <2>9, <2>10 DEF PsTypes
<1>. QED  BY <1>4, <1>5, <1>6, <1>7

-----------------------------------------------------------------------------
(* A clock of the scan side: registers, enables and reports.               *)

LEMMA ScanTypes ==
    ASSUME SearchInv, FsmTypes, ScanClock
    PROVE  FsmTypes'
<1>1. fsm'.state \in {"idle", "rst_pll", "wait_pll_lock", "check_cmp_status", "cmp_smpls",
                      "min_found", "max_found", "check_max_steps", "ph_shift",
                      "wait_after_ph_shift", "prep_phase", "end_srch"}
  <2>1. fsm'.state = FsmNextState(host, pll.locked, ps.busy, sync.done[2], sync.error[2])
    BY ScanFields
  <2>2. CASE fsm.state \in {"idle", "rst_pll", "wait_pll_lock", "check_cmp_status", "min_found", "max_found"}
    BY <2>1, <2>2 DEF FsmNextState
  <2>3. CASE fsm.state = "cmp_smpls"
    BY <2>1, <2>3 DEF FsmNextState, Verdict
  <2>4. CASE fsm.state \in {"check_max_steps", "ph_shift", "wait_after_ph_shift", "prep_phase", "end_srch"}
    BY <2>1, <2>4 DEF FsmNextState
  <2>. QED  BY <2>2, <2>3, <2>4 DEF FsmTypes
<1>2. host.ps_updwn \in BOOLEAN /\ host.ps_step_size \in Nat /\ host.ps_en \in BOOLEAN
  BY DEF SearchInv, HostTypes
<1>3. StepCntMaxConstant \in Nat
  BY FsmAssumption DEF StepCntMaxConstant
<1>4. /\ fsm'.ps_ctrl_phase \in Nat /\ fsm'.ps_ctrl_updwn \in BOOLEAN /\ fsm'.ps_updwn_reg \in BOOLEAN
  BY <1>2, SearchFields DEF FsmTypes, Pick
<1>5. fsm'.find_min \in BOOLEAN /\ fsm'.find_max \in BOOLEAN
  BY SearchFields DEF FsmTypes, Pick
<1>6. fsm'.ps_en_reg \in BOOLEAN /\ fsm'.ps_ctrl_en \in BOOLEAN
  BY <1>2, SearchFields
<1>7. fsm'.step_cnt_min \in Nat
  BY SearchFields DEF FsmTypes, Pick
<1>12. /\ Wrap(fsm.step_cnt - fsm.ps_step_size_reg) \in Nat
       /\ Wrap(fsm.step_cnt + fsm.ps_step_size_reg) \in Nat
       /\ Wrap(fsm.step_cnt_max - fsm.step_cnt_min) \in Nat
       /\ Wrap((fsm.step_cnt_diff \div 2) + fsm.step_cnt_min) \in Nat
       /\ Wrap(fsm.step_cnt - fsm.step_cnt_middle) \in Nat
  <2>1. /\ fsm.step_cnt - fsm.ps_step_size_reg \in Int /\ fsm.step_cnt + fsm.ps_step_size_reg \in Int
        /\ fsm.step_cnt_max - fsm.step_cnt_min \in Int
        /\ (fsm.step_cnt_diff \div 2) + fsm.step_cnt_min \in Int
        /\ fsm.step_cnt - fsm.step_cnt_middle \in Int
    BY DEF FsmTypes
  <2>. QED  BY <2>1, WrapNat
<1>8. fsm'.step_cnt_max \in Nat
  <2>1. CASE fsm.state = "max_found"
    BY <1>12, <2>1, SearchFields DEF Pick, MaxPhase
  <2>2. CASE fsm.state # "max_found"
    BY <1>3, <2>2, SearchFields DEF FsmTypes, Pick
  <2>. QED  BY <2>1, <2>2
<1>9. fsm'.step_cnt \in Nat
  BY <1>12, SearchFields DEF FsmTypes, Pick
<1>10. fsm'.step_cnt_diff \in Nat /\ fsm'.step_cnt_middle \in Nat /\ fsm'.step_cnt_reverse \in Nat
  BY <1>12, SearchFields
<1>11. fsm'.prep_phase_cnt \in Nat /\ fsm'.wait_cnt \in Nat /\ fsm'.ps_step_size_reg \in Nat
  BY <1>2, SearchFields DEF FsmTypes
<1>. QED  BY <1>1, <1>4, <1>5, <1>6, <1>7, <1>8, <1>9, <1>10, <1>11 DEF FsmTypes

LEMMA ScanAsked ==
    ASSUME SearchInv, FsmTypes, Asked, Searching, Flags, ScanClock
    PROVE  Asked'
<1>1. /\ UNCHANGED <<host, pll, eye, intact>>
      /\ fsm'.ps_updwn_reg = (IF host.ps_en /\ ~fsm.ps_en_reg THEN host.ps_updwn ELSE fsm.ps_updwn_reg)
      /\ fsm'.ps_step_size_reg =
            (IF host.ps_en /\ ~fsm.ps_en_reg THEN host.ps_step_size ELSE fsm.ps_step_size_reg)
      /\ fsm'.step_cnt_max_reg = Wrap(StepCntMaxConstant - fsm.ps_step_size_reg)
  BY SearchFields
<1>2. /\ fsm'.state = "idle" => fsm.state \in {"idle", "end_srch"}
      /\ fsm'.state = "rst_pll" =>
            \/ fsm.state = "idle" /\ host.ps_en /\ ~fsm.ps_en_reg
            \/ fsm.state = "rst_pll"
  BY ScanGoes
<1>3. fsm.state = "idle" => fsm'.state \in {"idle", "rst_pll"}
  BY ScanFields, FsmSteps
<1>4. host'.ps_en \/ fsm'.state # "idle" => host'.ps_step_size \in STEP_SIZES
  BY <1>1, <1>2, <1>3 DEF Asked
<1>5. ASSUME intact, fsm'.state # "idle"
      PROVE  /\ fsm'.ps_step_size_reg = host.ps_step_size /\ fsm'.ps_updwn_reg = host.ps_updwn
             /\ fsm'.state # "rst_pll" => fsm'.step_cnt_max_reg = StepCntMaxConstant - host.ps_step_size
  <2>1. CASE fsm.state = "idle"
    BY <1>1, <1>2, <1>3, <1>5, <2>1
  <2>2. CASE fsm.state # "idle"
    <3>1. fsm.ps_step_size_reg = host.ps_step_size /\ fsm.ps_updwn_reg = host.ps_updwn
      BY <1>5, <2>2 DEF Asked
    <3>2. Size \in Nat \ {0} /\ Size <= PHASE_RANGE - 1 /\ PHASE_RANGE \in Nat
      BY <2>2, SizeIs
    <3>3. PHASE_RANGE - 1 - Size \in 0 .. PHASE_RANGE - 1
      BY <3>2
    <3>4. Wrap(PHASE_RANGE - 1 - Size) = PHASE_RANGE - 1 - Size
      BY <3>3, WrapIs
    <3>. QED  BY <1>1, <3>1, <3>4 DEF StepCntMaxConstant, Size
  <2>. QED  BY <2>1, <2>2
<1>6. fsm'.state \notin {"idle", "rst_pll"} => pll.locked \/ fsm'.state = "wait_pll_lock"
  <2>1. CASE fsm.state = "wait_pll_lock"
    BY <2>1, ScanFields, FsmSteps
  <2>2. CASE fsm.state = "rst_pll"
    BY <2>2, ScanFields, FsmSteps
  <2>3. CASE fsm.state = "idle"
    BY <1>3, <2>3
  <2>4. CASE fsm.state \notin {"idle", "rst_pll", "wait_pll_lock"}
    BY <2>4 DEF Asked
  <2>. QED  BY <2>1, <2>2, <2>3, <2>4
<1>7. fsm'.state = "idle" => pll.locked
  BY <1>2 DEF Asked
<1>. QED  BY <1>1, <1>4, <1>5, <1>6, <1>7 DEF Asked

LEMMA ScanEdges ==
    ASSUME ~SLOW_PLL, SearchInv, SearchInv', FsmTypes, PsTypes, Edges, ManualInTurn, ScanClock
    PROVE  Edges' /\ ManualInTurn'
<1>1. host' = host /\ (AutoMode(host)' <=> AutoMode(host)) /\ host.ps_en \in BOOLEAN
  BY SearchFields DEF AutoMode, SearchInv, HostTypes
<1>2. ps'.en_reg = PsCtrlEn(host) /\ (ps'.busy <=> ps.state # "idle")
  BY StepFields
<1>3. /\ fsm'.ps_ctrl_en = (fsm.state = "ph_shift") /\ fsm'.ps_en_reg = host.ps_en
      /\ fsm'.wait_cnt = (IF fsm.state = "wait_after_ph_shift" THEN fsm.wait_cnt + 1 ELSE 0)
      /\ fsm'.done_manual <=> host.ps_en /\ (fsm.done_manual \/ (fsm.ps_ctrl_busy_reg /\ ~ps.busy))
      /\ fsm'.ps_ctrl_busy_reg = ps.busy
  BY SearchFields, ScanFields
<1>4. ASSUME AutoMode(host), fsm'.state \notin {"ph_shift", "wait_after_ph_shift"}
      PROVE  ~ps'.en_reg
  <2>1. ps'.en_reg = fsm.ps_ctrl_en
    BY <1>2, <1>4 DEF PsCtrlEn
  <2>2. CASE fsm.state = "ph_shift"
    BY <1>4, <2>2, ScanFields, FsmSteps
  <2>3. CASE fsm.state = "wait_after_ph_shift"
    <3>1. fsm.wait_cnt > SETTLE
      BY <1>4, <2>3, ScanFields DEF FsmNextState
    <3>2. fsm.wait_cnt > 0
      BY <3>1, FsmAssumption DEF FsmTypes
    <3>. QED  BY <2>1, <2>3, <3>2 DEF Edges
  <2>4. CASE fsm.state \notin {"ph_shift", "wait_after_ph_shift"}
    BY <2>1, <2>4 DEF SearchInv, ShiftsInTurn
  <2>. QED  BY <2>2, <2>3, <2>4
<1>5. fsm'.state = "wait_after_ph_shift" /\ fsm'.wait_cnt > 0 => ~fsm'.ps_ctrl_en
  <2>1. CASE fsm.state = "wait_after_ph_shift"
    BY <1>3, <2>1
  <2>2. CASE fsm.state # "wait_after_ph_shift"
    <3>1. fsm'.wait_cnt = 0
      BY <1>3, <2>2
    <3>. QED  BY <3>1
  <2>. QED  BY <2>1, <2>2
<1>6. ASSUME ~AutoMode(host)  PROVE ps'.en_reg <=> fsm'.ps_en_reg
  BY <1>2, <1>3, <1>6 DEF PsCtrlEn
<1>7. ~AutoMode(host) => PsCtrlEn(host) = host.ps_en
  BY DEF PsCtrlEn
<1>8. ASSUME ~AutoMode(host), fsm.done_manual \/ ShiftDone(ps.busy)
      PROVE  host.ps_en => ps'.state = "idle"
  <2>1. ps.state = "idle"
    BY <1>8 DEF Edges, ManualInTurn
  <2>2. Pending => ~ps.busy /\ ~fsm.ps_ctrl_busy_reg
    BY <1>8 DEF ManualInTurn
  <2>3. host.ps_en => ps.en_reg
    <3>1. CASE fsm.done_manual
      BY <1>8, <3>1 DEF Edges
    <3>2. CASE ShiftDone(ps.busy)
      BY <1>8, <2>2, <3>2 DEF ShiftDone, Pending
    <3>. QED  BY <1>8, <3>1, <3>2
  <2>. QED  BY <1>7, <1>8, <2>1, <2>3, ScanSteps
<1>9. fsm'.done_manual => fsm'.ps_en_reg /\ (AutoMode(host) \/ ps'.state = "idle")
  BY <1>3, <1>8 DEF ShiftDone
<1>10. Edges'
  BY <1>1, <1>4, <1>5, <1>6, <1>9 DEF Edges
<1>11. ASSUME ~AutoMode(host)
       PROVE  /\ Pending' => ps'.state = "idle" /\ ~ps'.busy /\ ~fsm'.ps_ctrl_busy_reg
              /\ ShiftDone(ps.busy)' => ps'.state = "idle"
              /\ ps'.state # "idle" => host.ps_en
  <2>1. Pending' <=> host.ps_en /\ ~ps'.en_reg
    BY <1>1, <1>11 DEF Pending
  <2>2. ~Pending'
    BY <1>2, <1>7, <1>11, <2>1
  <2>3. ShiftDone(ps.busy)' <=> ~ps'.busy /\ fsm'.ps_ctrl_busy_reg
    BY DEF ShiftDone
  <2>4. ASSUME ~ps'.busy, fsm'.ps_ctrl_busy_reg  PROVE ps'.state = "idle"
    <3>1. ps.state = "idle" /\ ps.busy
      BY <1>2, <1>3, <2>4
    <3>2. ~(PsCtrlEn(host) /\ ~ps.en_reg)
      BY <1>7, <1>11, <3>1 DEF ManualInTurn, Pending
    <3>. QED  BY <3>1, <3>2, ScanSteps
  <2>5. ps'.state # "idle" => host.ps_en
    <3>1. CASE ps.state = "idle"
      BY <1>7, <1>11, <3>1, ScanSteps
    <3>2. CASE ps.state # "idle"
      BY <1>11, <3>2 DEF ManualInTurn
    <3>. QED  BY <3>1, <3>2
  <2>. QED  BY <2>2, <2>3, <2>4, <2>5
<1>12. ManualInTurn'
  BY <1>1, <1>11 DEF ManualInTurn
<1>. QED  BY <1>10, <1>12

LEMMA ScanErrors ==
    ASSUME SearchInv, FsmTypes, TrueErrors, Flags, ScanClock
    PROVE  TrueErrors'
<1>1. cmp' = cmp /\ InEye' = InEye /\ StartSeen' = StartSeen
  BY DEF ScanClock, InEye, Distance, StartSeen
<1>2. /\ sync'.done[1] = cmp.done /\ sync'.done[2] = sync.done[1]
      /\ sync'.error[1] = cmp.error /\ sync'.error[2] = sync.error[1]
  <2>1. sync' = [done |-> <<cmp.done, sync.done[1]>>, error |-> <<cmp.error, sync.error[1]>>]
    BY DEF ScanClock
  <2>. QED  BY <2>1
<1>3. ASSUME fsm'.state = "cmp_smpls"
      PROVE  /\ cmp.error => ~InEye
             /\ sync'.done[1] /\ sync'.error[1] => ~InEye
             /\ sync'.done[2] /\ sync'.error[2] => ~InEye
  <2>1. fsm.state \in {"check_cmp_status", "cmp_smpls"} /\ ~sync.done[2]
    BY <1>3, ScanGoes
  <2>2. CASE fsm.state = "cmp_smpls"
    BY <1>2, <2>2 DEF TrueErrors
  <2>3. CASE fsm.state = "check_cmp_status"
    <3>1. Stopped
      BY <2>3 DEF SearchInv
    <3>2. ~sync.done[1] /\ ~cmp.done /\ ~StartSeen
      BY <2>1, <3>1 DEF Stopped
    <3>. QED  BY <1>2, <3>2 DEF TrueErrors
  <2>. QED  BY <2>1, <2>2, <2>3
<1>4. ASSUME fsm'.state = "end_srch", ~fsm'.find_min, sync'.error[2]
      PROVE  ~InEye
  <2>1. CASE fsm.state = "cmp_smpls" /\ sync.done[2]
    <3>1. sync.done[1]
      BY <2>1 DEF SearchInv, Comparing
    <3>. QED  BY <1>2, <1>4, <2>1, <3>1 DEF TrueErrors
  <2>2. CASE fsm.state = "check_max_steps" /\ fsm.find_min
    <3>1. fsm'.find_min = fsm.find_min
      BY <2>2, SearchFields DEF Pick
    <3>. QED  BY <1>4, <2>2, <3>1
  <2>. QED  BY <1>4, <2>1, <2>2, ScanGoes
<1>. QED  BY <1>1, <1>3, <1>4 DEF TrueErrors

LEMMA ScanFlags ==
    ASSUME SearchInv, FsmTypes, Flags, ScanClock
    PROVE  /\ Flags'
           /\ fsm.state = "idle" => fsm'.find_min
           /\ fsm.state = "min_found" => ~fsm'.find_min
           /\ fsm.state \notin {"idle", "min_found"} => (fsm'.find_min <=> fsm.find_min)
           /\ fsm.state = "idle" => fsm'.find_max
           /\ fsm.state \notin {"idle", "max_found", "prep_phase"} => (fsm'.find_max <=> fsm.find_max)
           /\ fsm.state \in {"max_found", "prep_phase"} => ~fsm'.find_max
<1>1. /\ fsm'.find_min = Pick(TRUE, "min_found", FALSE, fsm.find_min)
      /\ fsm'.find_max =
            (~(fsm.state = "max_found" \/ fsm.state = "prep_phase") /\ (fsm.state = "idle" \/ fsm.find_max))
  BY SearchFields
<1>2. /\ fsm.state = "idle" => fsm'.find_min
      /\ fsm.state = "min_found" => ~fsm'.find_min
      /\ fsm.state \notin {"idle", "min_found"} => (fsm'.find_min <=> fsm.find_min)
      /\ fsm.state = "idle" => fsm'.find_max
      /\ fsm.state \notin {"idle", "max_found", "prep_phase"} => (fsm'.find_max <=> fsm.find_max)
      /\ fsm.state \in {"max_found", "prep_phase"} => ~fsm'.find_max
  BY <1>1 DEF Pick
<1>. DEFINE to == fsm'.state
<1>3. to \in {"idle", "rst_pll", "wait_pll_lock", "check_cmp_status", "cmp_smpls", "min_found", "max_found",
               "check_max_steps", "ph_shift", "wait_after_ph_shift", "prep_phase", "end_srch"}
  BY ScanTypes DEF FsmTypes
<1>4. /\ to = "rst_pll" => fsm.state \in {"idle", "rst_pll"}
      /\ to = "wait_pll_lock" => fsm.state \in {"rst_pll", "wait_pll_lock"}
      /\ to \in {"min_found", "max_found"} => fsm.state = "cmp_smpls"
      /\ to = "min_found" => fsm.find_min
      /\ to = "max_found" => fsm.find_max /\ ~fsm.find_min
      /\ to = "check_max_steps" => fsm.state = "min_found"
                                   \/ (fsm.state = "cmp_smpls" /\ (fsm.find_min \/ fsm.find_max))
      /\ to = "prep_phase" => fsm.state \in {"max_found", "prep_phase"}
                              \/ (fsm.state = "check_max_steps" /\ ~fsm.find_min)
      /\ to = "end_srch" => (fsm.state = "cmp_smpls" /\ ~fsm.find_max)
                            \/ (fsm.state = "check_max_steps" /\ fsm.find_min)
      /\ to = "idle" => fsm.state \in {"idle", "end_srch"}
  BY ScanGoes
<1>5. fsm.state = "max_found" => ~fsm.find_min
  BY DEF Flags
<1>. HIDE DEF to
<1>6. ~fsm'.find_max => to \in {"idle", "prep_phase", "ph_shift", "wait_after_ph_shift",
                                "check_cmp_status", "cmp_smpls", "end_srch"}
  BY <1>2, <1>3, <1>4 DEF Flags
<1>7. ~fsm'.find_max \/ to \in {"max_found", "prep_phase"} => ~fsm'.find_min \/ to = "idle"
  BY <1>2, <1>4, <1>5 DEF Flags
<1>8. to = "rst_pll" => fsm'.find_min /\ fsm'.find_max
  BY <1>2, <1>4 DEF Flags
<1>9. to = "end_srch" /\ fsm'.find_max => fsm'.find_min
  BY <1>2, <1>4 DEF Flags
<1>. QED  BY <1>2, <1>6, <1>7, <1>8, <1>9 DEF Flags, to

-----------------------------------------------------------------------------
(* A clock of the scan side: the search for the edges.                     *)

\* The reference depends on the eye and on what the host asked for.
LEMMA SameTarget ==
    ASSUME host'.ps_step_size = host.ps_step_size, host'.ps_updwn = host.ps_updwn, eye' = eye
    PROVE  /\ Compared' = Compared /\ Good' = Good /\ Bad' = Bad /\ Middle' = Middle
           /\ (BothEdges' <=> BothEdges) /\ (MiddleInEye' <=> MiddleInEye)
<1>1. Compared' = Compared
  BY DEF Compared
<1>2. Good' = Good
  BY <1>1 DEF Good
<1>3. Bad' = Bad
  BY <1>1, <1>2 DEF Bad
<1>4. Middle' = Middle
  BY <1>2, <1>3 DEF Middle
<1>. QED  BY <1>1, <1>2, <1>3, <1>4 DEF BothEdges, MiddleInEye

LEMMA SignedZero ==
    ASSUME NEW n \in Int, n = 0
    PROVE  Signed(n) = 0
<1>1. \A k \in Int : -k \in Int /\ k + -k = 0
  OBVIOUS
<1>2. \A k, m \in Int : k + m = 0 /\ k = 0 => m = 0
  OBVIOUS
<1>3. -n = 0
  BY <1>1, <1>2, Zenon
<1>. QED  BY <1>3, Zenon DEF Signed

LEMMA InEyeIs ==
    ASSUME NEW n \in Nat, pll.phase = Signed(n)
    PROVE  InEye <=> n \in eye
<1>1. Distance(pll.phase) = n
  BY DEF Distance, Signed
<1>. QED  BY <1>1 DEF InEye

\* Outside ph_shift the shifts are done.
LEMMA AtGoal ==
    ASSUME SearchInv, OnTheWay, Aimed,
           fsm.state \in {"wait_pll_lock", "check_cmp_status", "cmp_smpls", "wait_after_ph_shift"}
    PROVE  AutoMode(host) /\ pll.phase = Goal
<1>1. AutoMode(host)
  BY DEF SearchInv, OneMode, AutoMode
<1>2. ps.state = "idle" /\ ~Pending
  BY <1>1 DEF SearchInv, ShiftsInTurn, Pending
<1>. QED  BY <1>1, <1>2 DEF OnTheWay

\* The verdict on a phase tells whether it is in the eye.
LEMMA VerdictIs ==
    ASSUME SearchInv, OnTheWay, Aimed, TrueErrors, FsmTypes, fsm.find_max,
           fsm.state = "cmp_smpls", sync.done[2]
    PROVE  /\ pll.phase = Signed(fsm.step_cnt)
           /\ sync.error[2] => fsm.step_cnt \notin eye
           /\ ~sync.error[2] => fsm.step_cnt \in eye
<1>1. pll.phase = Signed(fsm.step_cnt)
  BY AtGoal DEF Goal
<1>2. InEye <=> fsm.step_cnt \in eye
  BY <1>1, InEyeIs DEF FsmTypes
<1>3. sync.error[2] \/ InEye
  BY DEF SearchInv, Comparing
<1>4. sync.error[2] => ~InEye
  BY DEF TrueErrors
<1>. QED  BY <1>1, <1>2, <1>3, <1>4

\* One more phase without the minimum, the minimum, and one more phase of the eye.
LEMMA StillNoGood ==
    ASSUME Asked, fsm.state # "idle", NEW n \in Compared, NoGood(n - Size), n > 2 => n \notin eye
    PROVE  NoGood(n)
<1>1. SUFFICES ASSUME NEW p \in Compared, p <= n, p > 2, p \in eye  PROVE FALSE
  BY DEF NoGood
<1>2. p \in Nat /\ n \in Nat
  BY ComparedIs
<1>3. CASE p = n
  BY <1>1, <1>3
<1>4. CASE p < n
  <2>1. p <= n - Size
    BY <1>4, ComparedApart
  <2>. QED  BY <1>1, <2>1 DEF NoGood
<1>. QED  BY <1>1, <1>2, <1>3, <1>4

LEMMA FirstGood ==
    ASSUME Asked, fsm.state # "idle", NEW n \in Compared, NoGood(n - Size), n > 2, n \in eye
    PROVE  EyeTo(n, n)
<1>1. n \in Nat /\ n \in Good
  BY ComparedIs DEF Good
<1>2. ASSUME NEW p \in Good  PROVE n <= p
  <2>1. p \in Compared /\ p > 2 /\ p \in eye /\ p \in Nat
    BY ComparedIs DEF Good
  <2>2. CASE p < n
    <3>1. p <= n - Size
      BY <2>1, <2>2, ComparedApart
    <3>. QED  BY <2>1, <3>1 DEF NoGood
  <2>. QED  BY <1>1, <2>1, <2>2
<1>3. \A p \in Compared : n <= p /\ p <= n => p \in eye
  BY <1>1, ComparedIs
<1>4. n .. n \subseteq eye
  BY <1>1
<1>. QED  BY <1>1, <1>2, <1>3, <1>4 DEF EyeTo

LEMMA OneMore ==
    ASSUME Asked, fsm.state # "idle", NEW m, NEW n \in Compared, EyeTo(m, n - Size), n \in eye
    PROVE  EyeTo(m, n)
<1>1. n \in Nat /\ m \in Nat /\ m > 2 /\ Size \in Nat /\ Size > 0 /\ Size \in STEP_SIZES /\ eye \in EYES
  BY ComparedIs, SizeIs DEF EyeTo, Good, Asked
<1>2. m <= n - Size
  BY DEF EyeTo
<1>3. ASSUME NEW p \in Compared, m <= p, p <= n  PROVE p \in eye
  <2>1. p \in Nat
    BY ComparedIs
  <2>2. CASE p < n
    <3>1. p <= n - Size
      BY <2>2, ComparedApart
    <3>. QED  BY <1>3, <3>1 DEF EyeTo
  <2>. QED  BY <1>1, <1>3, <2>1, <2>2
<1>4. ASSUME NoNarrowGaps  PROVE m .. n \subseteq eye
  <2>1. m .. n - Size \subseteq eye
    BY <1>4 DEF EyeTo
  <2>2. n - Size \in Nat /\ n - Size > 2 /\ n - Size \in eye /\ (n - Size) + Size = n
    BY <1>1, <1>2, <2>1
  <2>3. (n - Size) .. n \subseteq eye
    BY <1>1, <1>4, <2>2 DEF NoNarrowGaps
  <2>4. ASSUME NEW p \in m .. n  PROVE p \in m .. n - Size \/ p \in (n - Size) .. n
    BY <1>1, <1>2
  <2>. QED  BY <2>1, <2>3, <2>4
<1>. QED  BY <1>1, <1>2, <1>3, <1>4 DEF EyeTo

\* The next phase is in range, so that its number does not wrap.
LEMMA StepOn ==
    ASSUME FsmTypes, Asked, intact, fsm.state = "check_max_steps", MoreToSearch, ScanClock
    PROVE  fsm'.step_cnt = fsm.step_cnt + Size /\ fsm.step_cnt + Size <= PHASE_RANGE - 2
<1>. DEFINE n == fsm.step_cnt
<1>1. Size \in Nat \ {0} /\ Size <= PHASE_RANGE - 1 /\ PHASE_RANGE \in Nat
  BY SizeIs
<1>2. fsm.ps_step_size_reg = Size /\ fsm.step_cnt_max_reg = PHASE_RANGE - 1 - Size
  BY DEF Asked, Size, StepCntMaxConstant
<1>3. n \in Nat
  BY DEF FsmTypes
<1>4. n + Size <= PHASE_RANGE - 2 /\ n + Size \in 0 .. PHASE_RANGE - 1
  BY <1>1, <1>2, <1>3 DEF MoreToSearch
<1>5. fsm'.step_cnt = Wrap(n + Size)
  BY <1>2, SearchFields DEF Pick
<1>. QED  BY <1>4, <1>5, WrapIs

LEMMA ScanSearching ==
    ASSUME SearchInv, FsmTypes, Asked, Flags, TrueErrors, OnTheWay, Searching, ScanClock
    PROVE  Searching'
<1>. DEFINE to == fsm'.state
            n == fsm.step_cnt
<1>1. UNCHANGED <<host, pll, eye, intact>>
  BY SearchFields
<1>2. Compared' = Compared /\ Good' = Good /\ Size' = Size
  BY <1>1, SameTarget DEF Size
<1>. SUFFICES ASSUME intact, fsm'.find_max, to \notin {"idle", "prep_phase", "end_srch"}
              PROVE  /\ fsm'.step_cnt \in Compared
                     /\ fsm'.ps_ctrl_phase = Size /\ fsm'.ps_ctrl_updwn = host.ps_updwn
                     /\ fsm'.find_min => NoGood(IF to = "check_max_steps" THEN fsm'.step_cnt
                                                ELSE fsm'.step_cnt - Size)
                     /\ ~fsm'.find_min => EyeTo(fsm'.step_cnt_min,
                                                IF to = "check_max_steps" THEN fsm'.step_cnt
                                                ELSE fsm'.step_cnt - Size)
                     /\ to \in {"rst_pll", "wait_pll_lock"} => fsm'.step_cnt = 0 /\ fsm'.find_min
                     /\ to = "rst_pll" => pll.locked \/ pll.phase = 0
                     /\ to \in {"min_found", "max_found", "check_max_steps"} => pll.phase = Signed(fsm'.step_cnt)
                     /\ to = "min_found" => fsm'.find_min /\ fsm'.step_cnt > 2 /\ fsm'.step_cnt \in eye
                     /\ to = "max_found" => fsm'.step_cnt \notin eye
  BY <1>1, <1>2 DEF Searching, Seen, NoGood, EyeTo, Size, Signed
<1>3. /\ fsm'.step_cnt_min = Pick(0, "min_found", n, fsm.step_cnt_min)
      /\ fsm'.step_cnt = Pick(0, "check_max_steps", Wrap(n + fsm.ps_step_size_reg), n)
      /\ fsm'.ps_ctrl_phase = Pick(host.ps_step_size, "prep_phase", fsm.step_cnt_reverse, fsm.ps_ctrl_phase)
      /\ fsm'.ps_ctrl_updwn = Pick(host.ps_updwn, "prep_phase", ~fsm.ps_updwn_reg, fsm.ps_ctrl_updwn)
  BY SearchFields
<1>4. /\ fsm.state = "idle" => fsm'.find_min
      /\ fsm.state = "min_found" => ~fsm'.find_min
      /\ fsm.state \notin {"idle", "min_found"} => (fsm'.find_min <=> fsm.find_min)
      /\ fsm.state \notin {"max_found", "prep_phase"}
      /\ fsm.state # "idle" => fsm.find_max
  BY ScanFlags
<1>5. fsm.state \notin {"idle", "check_max_steps", "min_found"} =>
          /\ fsm'.step_cnt = n /\ fsm'.step_cnt_min = fsm.step_cnt_min
          /\ fsm'.ps_ctrl_phase = fsm.ps_ctrl_phase /\ fsm'.ps_ctrl_updwn = fsm.ps_ctrl_updwn
  BY <1>3, <1>4 DEF Pick
<1>6. CASE fsm.state = "idle"
  <2>1. to = "rst_pll" /\ host.ps_en
    BY <1>6, ScanFields, FsmSteps
  <2>2. fsm'.step_cnt = 0 /\ fsm'.ps_ctrl_phase = Size /\ fsm'.ps_ctrl_updwn = host.ps_updwn
    BY <1>3, <1>6 DEF Pick, Size
  <2>3. Size \in Nat \ {0} /\ Size <= PHASE_RANGE - 1 /\ PHASE_RANGE \in Nat
    BY <2>1, SizeIs
  <2>4. 0 \in Compared
    <3>1. 0 % Size = 0
      BY <2>3
    <3>. QED  BY <2>3, <3>1, ComparedIs
  <2>5. NoGood(0 - Size)
    <3>1. \A p \in Compared : ~(p <= 0 - Size)
      BY <2>3, ComparedIs
    <3>. QED  BY <3>1 DEF NoGood
  <2>6. pll.locked
    BY <1>6 DEF Asked
  <2>. QED  BY <1>4, <1>6, <2>1, <2>2, <2>4, <2>5, <2>6
<1>7. CASE fsm.state # "idle"
  <2>1. fsm.state \notin {"idle", "prep_phase", "end_srch"} /\ fsm.find_max
    BY <1>4, <1>7, ScanFields DEF FsmNextState
  <2>2. /\ n \in Compared
        /\ fsm.ps_ctrl_phase = Size /\ fsm.ps_ctrl_updwn = host.ps_updwn
        /\ Seen(IF fsm.state = "check_max_steps" THEN n ELSE n - Size)
        /\ fsm.state \in {"rst_pll", "wait_pll_lock"} => n = 0 /\ fsm.find_min
        /\ fsm.state = "rst_pll" /\ ~pll.locked => pll.phase = 0
        /\ fsm.state \in {"min_found", "max_found", "check_max_steps"} => pll.phase = Signed(n)
        /\ fsm.state = "min_found" => fsm.find_min /\ n > 2 /\ n \in eye
    BY <2>1 DEF Searching, Size
  <2>3. /\ fsm.find_min => NoGood(IF fsm.state = "check_max_steps" THEN n ELSE n - Size)
        /\ ~fsm.find_min => EyeTo(fsm.step_cnt_min, IF fsm.state = "check_max_steps" THEN n ELSE n - Size)
    BY <2>2 DEF Seen
  <2>4. n \in Nat
    BY DEF FsmTypes
  <2>5. CASE fsm.state \in {"rst_pll", "wait_pll_lock", "check_cmp_status", "ph_shift", "wait_after_ph_shift"}
    <3>1. /\ to \in {"rst_pll", "wait_pll_lock", "check_cmp_status", "cmp_smpls", "ph_shift", "wait_after_ph_shift"}
          /\ to \in {"rst_pll", "wait_pll_lock"} => fsm.state \in {"rst_pll", "wait_pll_lock"}
          /\ to = "rst_pll" => pll.locked
      BY <2>5, ScanGoes, ScanTypes DEF FsmTypes
    <3>. QED  BY <1>4, <1>5, <2>2, <2>3, <2>5, <3>1
  <2>6. CASE fsm.state = "cmp_smpls"
    <3>1. Aimed
      BY <2>1 DEF Aimed
    <3>2. CASE to = "cmp_smpls"
      BY <1>4, <1>5, <2>2, <2>3, <2>6, <3>2
    <3>3. CASE to = "min_found"
      <4>1. sync.done[2] /\ fsm.find_min /\ ~sync.error[2] /\ n > 2
        BY <3>3, ScanGoes
      <4>2. pll.phase = Signed(n) /\ n \in eye
        BY <2>1, <2>6, <3>1, <4>1, VerdictIs
      <4>. QED  BY <1>4, <1>5, <2>2, <2>3, <2>6, <3>3, <4>1, <4>2
    <3>4. CASE to = "max_found"
      <4>1. sync.done[2] /\ ~fsm.find_min /\ sync.error[2]
        BY <3>4, ScanGoes
      <4>2. pll.phase = Signed(n) /\ n \notin eye
        BY <2>1, <2>6, <3>1, <4>1, VerdictIs
      <4>. QED  BY <1>4, <1>5, <2>2, <2>3, <2>6, <3>4, <4>1, <4>2
    <3>5. CASE to = "check_max_steps"
      <4>1. /\ sync.done[2]
            /\ fsm.find_min => sync.error[2] \/ ~(n > 2)
            /\ ~fsm.find_min => ~sync.error[2]
        BY <2>6, <3>5, ScanGoes
      <4>2. pll.phase = Signed(n) /\ (sync.error[2] => n \notin eye) /\ (~sync.error[2] => n \in eye)
        BY <2>1, <2>6, <3>1, <4>1, VerdictIs
      <4>3. fsm.find_min => NoGood(n)
        BY <2>2, <2>3, <2>6, <4>1, <4>2, StillNoGood
      <4>4. ~fsm.find_min => EyeTo(fsm.step_cnt_min, n)
        BY <2>2, <2>3, <2>6, <4>1, <4>2, OneMore
      <4>. QED  BY <1>4, <1>5, <2>2, <2>6, <3>5, <4>2, <4>3, <4>4
    <3>. QED  BY <2>6, <3>2, <3>3, <3>4, <3>5, ScanGoes, ScanTypes DEF FsmTypes
  <2>7. CASE fsm.state = "min_found"
    <3>1. to = "check_max_steps"
      BY <2>7, ScanFields DEF FsmNextState
    <3>2. /\ fsm'.step_cnt = n /\ fsm'.step_cnt_min = n
          /\ fsm'.ps_ctrl_phase = fsm.ps_ctrl_phase /\ fsm'.ps_ctrl_updwn = fsm.ps_ctrl_updwn
      BY <1>3, <2>7 DEF Pick
    <3>3. EyeTo(n, n)
      BY <2>2, <2>3, <2>7, FirstGood
    <3>. QED  BY <1>4, <2>2, <2>7, <3>1, <3>2, <3>3
  <2>8. CASE fsm.state = "check_max_steps"
    <3>1. to = "ph_shift" /\ MoreToSearch
      BY <2>8, ScanFields DEF FsmNextState
    <3>2. Size \in Nat \ {0} /\ Size <= PHASE_RANGE - 1 /\ PHASE_RANGE \in Nat
      BY <2>8, SizeIs
    <3>5. fsm'.step_cnt = n + Size /\ n + Size <= PHASE_RANGE - 2
      BY <2>8, <3>1, StepOn
    <3>6. n + Size \in Compared /\ (n + Size) - Size = n
      BY <2>2, <2>4, <2>8, <3>2, <3>5, ComparedNext
    <3>7. /\ fsm'.step_cnt_min = fsm.step_cnt_min
          /\ fsm'.ps_ctrl_phase = fsm.ps_ctrl_phase /\ fsm'.ps_ctrl_updwn = fsm.ps_ctrl_updwn
      BY <1>3, <2>8 DEF Pick
    <3>. QED  BY <1>4, <2>2, <2>3, <2>8, <3>1, <3>5, <3>6, <3>7
  <2>. QED  BY <1>4, <2>1, <2>5, <2>6, <2>7, <2>8 DEF FsmTypes
<1>. QED  BY <1>6, <1>7

-----------------------------------------------------------------------------
(* A clock of the scan side: the middle of the eye.                        *)

\* The registers of the search hold the edges.
EdgesKnown(m, n) ==
    /\ m \in Nat /\ n \in Nat /\ m <= n - Size /\ n <= PHASE_RANGE - 2
    /\ Min(Good) = m /\ Min(Bad) = n

LEMMA MiddleIs ==
    ASSUME NEW m, NEW n, EdgesKnown(m, n), Size \in Nat
    PROVE  /\ Middle = m + ((n - Size - m) \div 2)
           /\ Middle \in Nat /\ m <= Middle /\ Middle <= n - Size
<1>1. Middle = m + ((n - Size - m) \div 2)
  BY DEF Middle, EdgesKnown, Size
<1>2. m \in Nat /\ n \in Nat /\ n - Size - m \in Nat
  BY DEF EdgesKnown
<1>3. (n - Size - m) \div 2 \in Nat /\ (n - Size - m) \div 2 <= n - Size - m
  BY <1>2
<1>. DEFINE half == (n - Size - m) \div 2
<1>. HIDE DEF half
<1>4. half \in Nat /\ half <= n - Size - m /\ Middle = m + half
  BY <1>1, <1>3 DEF half
<1>5. Middle \in Nat /\ m <= Middle /\ Middle <= n - Size
  BY <1>2, <1>4
<1>. QED  BY <1>1, <1>5

\* The first error after the minimum is the first phase that ends the eye.
LEMMA EdgesFound ==
    ASSUME Asked, fsm.state # "idle", NEW m, NEW n \in Compared, EyeTo(m, n - Size), n \notin eye
    PROVE  EdgesKnown(m, n)
<1>1. /\ n \in Nat /\ n <= PHASE_RANGE - 2 /\ m \in Nat /\ m <= n - Size
      /\ Good \subseteq Nat /\ Bad \subseteq Nat /\ Size \in Nat /\ Size > 0
  BY ComparedIs, SizeIs DEF EyeTo, Good, Bad
<1>2. Min(Good) = m
  BY <1>1, MinIs DEF EyeTo
<1>3. n \in Bad
  BY <1>1, <1>2 DEF Bad
<1>4. ASSUME NEW p \in Bad  PROVE n <= p
  <2>1. p \in Compared /\ p > m /\ p \notin eye /\ p \in Nat
    BY <1>1, <1>2 DEF Bad
  <2>2. CASE p < n
    <3>1. p <= n - Size
      BY <2>1, <2>2, ComparedApart
    <3>2. m <= p
      BY <1>1, <2>1
    <3>. QED  BY <2>1, <3>1, <3>2 DEF EyeTo
  <2>. QED  BY <1>1, <2>1, <2>2
<1>5. Min(Bad) = n
  BY <1>1, <1>3, <1>4, MinIs
<1>. QED  BY <1>1, <1>2, <1>5 DEF EdgesKnown

\* A search that runs out of phases missed no edge.
LEMMA Exhausted ==
    ASSUME FsmTypes, Asked, Flags, Searching, intact,
           fsm.state = "check_max_steps", ~MoreToSearch
    PROVE  ~BothEdges
<1>. DEFINE n == fsm.step_cnt
            m == fsm.step_cnt_min
<1>1. Size \in Nat \ {0} /\ Size <= PHASE_RANGE - 1 /\ PHASE_RANGE \in Nat /\ n \in Nat
  BY SizeIs DEF FsmTypes
<1>2. fsm.step_cnt_max_reg = PHASE_RANGE - 1 - Size
  BY DEF Asked, Size, StepCntMaxConstant
<1>3. n \in Compared /\ (fsm.find_min => NoGood(n)) /\ (~fsm.find_min => EyeTo(m, n))
  BY DEF Flags, Searching, Seen
<1>4. ASSUME NEW p \in Compared  PROVE p <= n
  <2>1. p \in Nat /\ p <= PHASE_RANGE - 2
    BY ComparedIs
  <2>2. CASE n < p
    <3>1. n <= p - Size
      BY <1>3, <2>2, ComparedApart
    <3>2. n < PHASE_RANGE - 1 - Size
      BY <1>1, <2>1, <3>1
    <3>. QED  BY <1>2, <3>2 DEF MoreToSearch
  <2>. QED  BY <1>1, <2>1, <2>2
<1>5. CASE fsm.find_min
  <2>1. Good = {}
    BY <1>3, <1>4, <1>5 DEF NoGood, Good
  <2>. QED  BY <2>1 DEF BothEdges
<1>6. CASE ~fsm.find_min
  <2>1. Good \subseteq Nat /\ m \in Good /\ \A p \in Good : m <= p
    BY <1>3, <1>6, ComparedIs DEF EyeTo, Good
  <2>2. Min(Good) = m
    BY <2>1, MinIs
  <2>3. ASSUME NEW p \in Bad  PROVE FALSE
    <3>1. p \in Compared /\ p > m /\ p \notin eye /\ p <= n
      BY <1>4, <2>2 DEF Bad
    <3>2. m \in Nat /\ p \in Nat
      BY <2>1, <3>1, ComparedIs
    <3>3. m <= p
      BY <3>1, <3>2
    <3>. QED  BY <1>3, <1>6, <3>1, <3>3 DEF EyeTo
  <2>. QED  BY <2>3 DEF BothEdges
<1>. QED  BY <1>5, <1>6

\* What max_found leaves behind.
LEMMA MaxFound ==
    ASSUME FsmTypes, Asked, Flags, Searching, intact, fsm.state = "max_found"
    PROVE  /\ EdgesKnown(fsm.step_cnt_min, fsm.step_cnt)
           /\ EyeTo(fsm.step_cnt_min, fsm.step_cnt - Size)
           /\ pll.phase = Signed(fsm.step_cnt)
<1>1. fsm.find_max /\ ~fsm.find_min
  BY DEF Flags
<1>2. /\ fsm.step_cnt \in Compared /\ EyeTo(fsm.step_cnt_min, fsm.step_cnt - Size)
      /\ fsm.step_cnt \notin eye /\ pll.phase = Signed(fsm.step_cnt)
  BY <1>1 DEF Searching, Seen, Size
<1>. QED  BY <1>2, EdgesFound

LEMMA ScanPreparing ==
    ASSUME SearchInv, FsmTypes, Asked, Flags, Searching, Preparing, ScanClock
    PROVE  Preparing'
<1>. DEFINE n == fsm.step_cnt
            m == fsm.step_cnt_min
<1>1. UNCHANGED <<host, pll, eye, intact>>
  BY SearchFields
<1>2. Good' = Good /\ Bad' = Bad /\ Middle' = Middle /\ (BothEdges' <=> BothEdges)
  BY <1>1, SameTarget
<1>. SUFFICES ASSUME intact, fsm'.state = "prep_phase", BothEdges
              PROVE  /\ fsm'.step_cnt_min = Min(Good) /\ fsm'.step_cnt = Min(Bad)
                     /\ fsm'.step_cnt_max = fsm'.step_cnt - Size
                     /\ fsm'.step_cnt_min <= fsm'.step_cnt_max /\ fsm'.step_cnt < PHASE_RANGE
                     /\ fsm'.prep_phase_cnt > 0 => fsm'.step_cnt_diff = fsm'.step_cnt_max - fsm'.step_cnt_min
                     /\ fsm'.prep_phase_cnt > 1 => fsm'.step_cnt_middle = Middle
                     /\ fsm'.prep_phase_cnt > 2 => fsm'.step_cnt_reverse = fsm'.step_cnt - Middle
                     /\ pll.phase = Signed(fsm'.step_cnt)
  BY <1>1, <1>2 DEF Preparing, Size, Signed
<1>3. fsm.state \in {"max_found", "check_max_steps", "prep_phase"}
  BY ScanGoes
<1>4. Size \in Nat \ {0} /\ Size <= PHASE_RANGE - 1 /\ PHASE_RANGE \in Nat
  BY <1>3, SizeIs
<1>5. CASE fsm.state = "max_found"
  <2>1. EdgesKnown(m, n) /\ pll.phase = Signed(n)
    BY <1>5, MaxFound
  <2>2. m \in Nat /\ n \in Nat /\ m <= n - Size /\ n <= PHASE_RANGE - 2 /\ Min(Good) = m /\ Min(Bad) = n
    BY <2>1 DEF EdgesKnown
  <2>3. n - Size \in 0 .. PHASE_RANGE - 1
    BY <1>4, <2>2
  <2>4. fsm.ps_step_size_reg = Size
    BY <1>5 DEF Asked, Size
  <2>5. fsm'.step_cnt_min = m /\ fsm'.step_cnt = n /\ fsm'.step_cnt_max = Wrap(n - Size) /\ fsm'.prep_phase_cnt = 0
    BY <1>5, <2>4, SearchFields DEF Pick, MaxPhase
  <2>6. fsm'.step_cnt_max = n - Size
    BY <2>3, <2>5, WrapIs
  <2>7. ~(fsm'.prep_phase_cnt > 0) /\ ~(fsm'.prep_phase_cnt > 1) /\ ~(fsm'.prep_phase_cnt > 2)
    BY <2>5
  <2>8. n < PHASE_RANGE
    BY <1>4, <2>2
  <2>. QED  BY <2>1, <2>2, <2>5, <2>6, <2>7, <2>8
<1>6. CASE fsm.state = "check_max_steps"
  <2>1. ~MoreToSearch
    BY <1>6, ScanGoes
  <2>. QED  BY <1>6, <2>1, Exhausted
<1>7. CASE fsm.state = "prep_phase"
  <2>. DEFINE M == fsm.step_cnt_max
              c == fsm.prep_phase_cnt
  <2>1. /\ m = Min(Good) /\ n = Min(Bad) /\ M = n - Size /\ m <= M /\ n < PHASE_RANGE
        /\ c > 0 => fsm.step_cnt_diff = M - m
        /\ c > 1 => fsm.step_cnt_middle = Middle
        /\ pll.phase = Signed(n)
    BY <1>7 DEF Preparing, Size
  <2>2. m \in Nat /\ n \in Nat /\ M \in Nat /\ c \in Nat
    BY DEF FsmTypes
  <2>3. /\ fsm'.step_cnt_min = m /\ fsm'.step_cnt = n /\ fsm'.step_cnt_max = M
        /\ fsm'.prep_phase_cnt = c + 1 /\ fsm'.step_cnt_diff = Wrap(M - m)
        /\ fsm'.step_cnt_middle = Wrap((fsm.step_cnt_diff \div 2) + m)
        /\ fsm'.step_cnt_reverse = Wrap(n - fsm.step_cnt_middle)
    BY <1>7, SearchFields DEF Pick
  <2>4. Middle = m + ((n - Size - m) \div 2)
    BY <2>1 DEF Middle, Size
  <2>5. M - m \in 0 .. PHASE_RANGE - 1
    BY <1>4, <2>1, <2>2
  <2>6. fsm'.step_cnt_diff = M - m
    BY <2>3, <2>5, WrapIs
  <2>. DEFINE half == (M - m) \div 2
  <2>7. half \in Nat /\ half <= M - m
    BY <2>5
  <2>8. Middle = m + half
    BY <2>1, <2>4
  <2>. HIDE DEF half
  <2>9. Middle \in 0 .. PHASE_RANGE - 1 /\ Middle <= M
    BY <1>4, <2>1, <2>2, <2>7, <2>8
  <2>10. ASSUME c > 0  PROVE fsm'.step_cnt_middle = Middle
    <3>1. fsm'.step_cnt_middle = Wrap(half + m)
      BY <2>1, <2>3, <2>10 DEF half
    <3>2. half + m = Middle
      BY <2>2, <2>7, <2>8
    <3>. QED  BY <2>9, <3>1, <3>2, WrapIs
  <2>11. ASSUME c > 1  PROVE fsm'.step_cnt_reverse = n - Middle
    <3>1. n - Middle \in 0 .. PHASE_RANGE - 1
      BY <1>4, <2>1, <2>2, <2>9
    <3>. QED  BY <2>1, <2>3, <2>11, <3>1, WrapIs
  <2>12. (fsm'.prep_phase_cnt > 1 => c > 0) /\ (fsm'.prep_phase_cnt > 2 => c > 1)
    BY <2>2, <2>3
  <2>. QED  BY <2>1, <2>3, <2>6, <2>10, <2>11, <2>12
<1>. QED  BY <1>3, <1>5, <1>6, <1>7

LEMMA ScanEnding ==
    ASSUME SearchInv, FsmTypes, Asked, Flags, TrueErrors, OnTheWay, Searching, Ending, ScanClock
    PROVE  Ending'
<1>. DEFINE to == fsm'.state
<1>1. UNCHANGED <<host, pll, eye, intact>>
  BY SearchFields
<1>2. Middle' = Middle /\ (BothEdges' <=> BothEdges) /\ (MiddleInEye' <=> MiddleInEye)
  BY <1>1, SameTarget
<1>. SUFFICES ASSUME intact, BothEdges
              PROVE  /\ (to \notin {"idle", "end_srch"} /\ ~fsm'.find_max) \/ to = "prep_phase" => MiddleInEye
                     /\ to = "end_srch" => ~fsm'.find_min /\ MiddleInEye /\ pll.phase = Signed(Middle)
                     /\ fsm'.ps_done => (NoNarrowGaps => ~fsm'.ps_status) /\ pll.phase = Signed(Middle)
  BY <1>1, <1>2 DEF Ending, Signed
<1>3. fsm.state = "max_found" => MiddleInEye
  <2>1. SUFFICES ASSUME fsm.state = "max_found"  PROVE MiddleInEye
    OBVIOUS
  <2>2. EdgesKnown(fsm.step_cnt_min, fsm.step_cnt) /\ EyeTo(fsm.step_cnt_min, fsm.step_cnt - Size)
    BY <2>1, MaxFound
  <2>3. Size \in Nat
    BY <2>1, SizeIs
  <2>4. Middle \in Nat /\ fsm.step_cnt_min <= Middle /\ Middle <= fsm.step_cnt - Size
    BY <2>2, <2>3, MiddleIs
  <2>5. Middle \in fsm.step_cnt_min .. fsm.step_cnt - Size
    BY <2>3, <2>4 DEF FsmTypes
  <2>. QED  BY <2>2, <2>4, <2>5 DEF EyeTo, MiddleInEye
<1>4. to = "prep_phase" => MiddleInEye
  <2>1. CASE fsm.state = "prep_phase"
    BY <2>1 DEF Ending
  <2>2. CASE fsm.state = "check_max_steps" /\ ~MoreToSearch
    BY <2>2, Exhausted
  <2>. QED  BY <1>3, <2>1, <2>2, ScanGoes
<1>5. ASSUME to \notin {"idle", "end_srch"}, ~fsm'.find_max  PROVE MiddleInEye
  <2>1. CASE fsm.state \in {"max_found", "prep_phase"}
    BY <1>3, <2>1 DEF Ending
  <2>2. CASE fsm.state \notin {"max_found", "prep_phase"}
    <3>1. fsm.state # "idle" /\ ~fsm.find_max
      BY <1>5, <2>2, ScanFlags
    <3>2. fsm.state # "end_srch"
      BY <1>5, ScanFields DEF FsmNextState
    <3>. QED  BY <3>1, <3>2 DEF Ending
  <2>. QED  BY <2>1, <2>2
<1>6. ASSUME to = "end_srch"  PROVE ~fsm'.find_min /\ MiddleInEye /\ pll.phase = Signed(Middle)
  <2>1. CASE fsm.state = "cmp_smpls" /\ ~fsm.find_min /\ ~fsm.find_max
    <3>1. MiddleInEye
      BY <2>1 DEF Ending
    <3>2. Aimed
      BY DEF Aimed
    <3>3. pll.phase = Signed(Middle)
      BY <2>1, <3>2, AtGoal DEF Goal
    <3>4. ~fsm'.find_min
      BY <2>1, ScanFlags
    <3>. QED  BY <3>1, <3>3, <3>4
  <2>2. CASE fsm.state = "check_max_steps" /\ ~MoreToSearch
    BY <2>2, Exhausted
  <2>. QED  BY <1>6, <2>1, <2>2, ScanGoes
<1>7. ASSUME fsm'.ps_done  PROVE (NoNarrowGaps => ~fsm'.ps_status) /\ pll.phase = Signed(Middle)
  <2>1. /\ fsm.ps_done \/ fsm.state = "end_srch"
        /\ fsm'.ps_status => (IF fsm.state = "end_srch" THEN sync.error[2] ELSE fsm.ps_status)
    BY <1>7, ScanFields
  <2>2. CASE fsm.state = "end_srch"
    <3>1. ~fsm.find_min /\ MiddleInEye /\ pll.phase = Signed(Middle)
      BY <2>2 DEF Ending
    <3>2. InEye <=> Middle \in eye
      BY <3>1, InEyeIs DEF MiddleInEye
    <3>. QED  BY <2>1, <2>2, <3>1, <3>2 DEF TrueErrors, MiddleInEye
  <2>3. CASE fsm.state # "end_srch"
    BY <2>1, <2>3 DEF Ending
  <2>. QED  BY <2>2, <2>3
<1>. QED  BY <1>4, <1>5, <1>6, <1>7

-----------------------------------------------------------------------------
(* A clock of the scan side: the phase and the steps to make.              *)

\* A manual shift.
LEMMA ScanManual ==
    ASSUME ~SLOW_PLL, SearchInv, FsmTypes, PsTypes, ManualInTurn, OnTheWay, ScanClock,
           ~AutoMode(host), intact
    PROVE  /\ ~Pending'
           /\ ps'.state # "idle" => pll.phase + Turned(ps'.updown_reg, StepsLeft') = Goal
           /\ ps'.state = "idle" /\ host.ps_en => pll.phase = Goal
<1>1. Aimed
  BY DEF Aimed
<1>2. /\ Pending => pll.phase + Turned(PsCtrlUpdown(host), PsCtrlPhase(host)) = Goal
      /\ ps.state # "idle" => pll.phase + Turned(ps.updown_reg, StepsLeft) = Goal
      /\ ps.state = "idle" /\ ~Pending /\ host.ps_en => pll.phase = Goal
  BY <1>1 DEF OnTheWay
<1>3. PsCtrlEn(host) = host.ps_en /\ (Pending <=> host.ps_en /\ ~ps.en_reg)
  BY DEF PsCtrlEn, Pending
<1>4. ~Pending'
  <2>1. host' = host
    BY SearchFields
  <2>2. ps'.en_reg = host.ps_en
    BY <1>3, StepFields
  <2>. QED  BY <2>1, <2>2 DEF Pending, AutoMode
<1>5. pll.phase \in Int
  BY DEF SearchInv, PllTypes
<1>6. pll.phase + Turned(ps.updown_reg, 0) = pll.phase
  BY <1>5 DEF Turned
<1>7. ps'.state # "idle" => pll.phase + Turned(ps'.updown_reg, StepsLeft') = Goal
  <2>1. CASE ps.state = "idle"
    BY <1>2, <1>3, <2>1, ScanSteps
  <2>2. CASE ps.state # "idle"
    BY <1>2, <2>2, ScanSteps
  <2>. QED  BY <2>1, <2>2
<1>8. ps'.state = "idle" /\ host.ps_en => pll.phase = Goal
  <2>1. CASE ps.state = "idle"
    BY <1>2, <1>3, <2>1, ScanSteps
  <2>2. CASE ps.state # "idle"
    BY <1>2, <1>6, <2>2, ScanSteps
  <2>. QED  BY <2>1, <2>2
<1>. QED  BY <1>4, <1>7, <1>8

\* A shift of the search.
LEMMA ScanShift ==
    ASSUME ~SLOW_PLL, SearchInv, FsmTypes, PsTypes, ManualInTurn, OnTheWay, ScanClock,
           AutoMode(host), Aimed, fsm.state = "ph_shift"
    PROVE  /\ Pending' => pll.phase + Turned(PsCtrlUpdown(host), PsCtrlPhase(host)) = Goal
           /\ ps'.state # "idle" => pll.phase + Turned(ps'.updown_reg, StepsLeft') = Goal
           /\ ps'.state = "idle" /\ ~Pending' => pll.phase = Goal
<1>1. /\ Pending => pll.phase + Turned(PsCtrlUpdown(host), PsCtrlPhase(host)) = Goal
      /\ ps.state # "idle" => pll.phase + Turned(ps.updown_reg, StepsLeft) = Goal
      /\ ps.state = "idle" /\ ~Pending => pll.phase = Goal
  BY DEF OnTheWay
<1>2. PsCtrlEn(host) = fsm.ps_ctrl_en /\ (Pending <=> ~fsm.ps_ctrl_en \/ ~ps.en_reg)
  BY DEF PsCtrlEn, Pending, NotYetShifted
<1>3. host' = host /\ fsm'.ps_ctrl_en /\ ps'.en_reg = fsm.ps_ctrl_en
  BY <1>2, SearchFields, StepFields
<1>4. Pending' <=> fsm'.state = "ph_shift" /\ ~fsm.ps_ctrl_en
  BY <1>3 DEF Pending, NotYetShifted, AutoMode
<1>5. pll.phase \in Int
  BY DEF SearchInv, PllTypes
<1>6. pll.phase + Turned(ps.updown_reg, 0) = pll.phase
  BY <1>5 DEF Turned
<1>7. Pending' => pll.phase + Turned(PsCtrlUpdown(host), PsCtrlPhase(host)) = Goal
  BY <1>1, <1>2, <1>4
<1>8. ps'.state # "idle" => pll.phase + Turned(ps'.updown_reg, StepsLeft') = Goal
  <2>1. CASE ps.state = "idle"
    BY <1>1, <1>2, <2>1, ScanSteps
  <2>2. CASE ps.state # "idle"
    BY <1>1, <2>2, ScanSteps
  <2>. QED  BY <2>1, <2>2
<1>9. ps'.state = "idle" /\ ~Pending' => pll.phase = Goal
  <2>1. CASE ps.state # "idle"
    BY <1>1, <1>6, <2>1, ScanSteps
  <2>2. CASE ps.state = "idle" /\ ~Pending
    BY <1>1, <2>2
  <2>3. CASE ps.state = "idle" /\ Pending
    <3>1. ASSUME ps'.state = "idle"  PROVE ~fsm.ps_ctrl_en
      <4>1. ~(PsCtrlEn(host) /\ ~ps.en_reg)
        BY <2>3, <3>1, ScanSteps
      <4>. QED  BY <1>2, <2>3, <4>1
    <3>2. ~fsm.ps_ctrl_busy_reg
      BY <2>3 DEF SearchInv, ShiftsInTurn, Pending
    <3>3. fsm'.state = "ph_shift"
      BY <3>2, ScanFields DEF FsmNextState, ShiftDone
    <3>. QED  BY <1>4, <3>1, <3>3
  <2>. QED  BY <2>1, <2>2, <2>3
<1>. QED  BY <1>7, <1>8, <1>9

\* The search asks for a shift: the next phase, or back to the middle.
LEMMA ScanAsks ==
    ASSUME SearchInv, FsmTypes, Asked, Flags, Searching, Preparing, ScanClock,
           intact, fsm.find_max \/ BothEdges, fsm'.find_max \/ BothEdges,
           fsm.state # "ph_shift", fsm'.state = "ph_shift"
    PROVE  pll.phase + Turned(fsm'.ps_ctrl_updwn, fsm'.ps_ctrl_phase) =
               (IF fsm'.find_max THEN Signed(fsm'.step_cnt) ELSE Signed(Middle))
<1>. DEFINE n == fsm.step_cnt
<1>1. n \in Nat /\ pll.phase \in Int /\ host.ps_updwn \in BOOLEAN
  BY DEF FsmTypes, SearchInv, PllTypes, HostTypes
<1>2. \/ fsm.state = "wait_pll_lock" /\ ~fsm.find_min /\ ~fsm.find_max
      \/ fsm.state = "check_max_steps" /\ MoreToSearch
      \/ fsm.state = "prep_phase" /\ PhasePrepared
  BY ScanGoes
<1>3. fsm.state # "wait_pll_lock" \/ fsm.find_max
  BY DEF Flags
<1>4. CASE fsm.state = "check_max_steps" /\ MoreToSearch
  <2>1. fsm.find_max /\ fsm'.find_max
    BY <1>4, ScanFlags DEF Flags
  <2>2. fsm.ps_ctrl_phase = Size /\ fsm.ps_ctrl_updwn = host.ps_updwn /\ pll.phase = Signed(n)
    BY <1>4, <2>1 DEF Searching, Size
  <2>3. fsm'.ps_ctrl_phase = Size /\ fsm'.ps_ctrl_updwn = host.ps_updwn
    BY <1>4, <2>2, SearchFields DEF Pick
  <2>4. fsm'.step_cnt = n + Size
    BY <1>4, StepOn
  <2>5. Size \in Nat
    BY <1>4, SizeIs
  <2>6. Signed(fsm'.step_cnt) = IF host.ps_updwn THEN n + Size ELSE -(n + Size)
    BY <2>4 DEF Signed
  <2>7. pll.phase = IF host.ps_updwn THEN n ELSE -n
    BY <2>2 DEF Signed
  <2>8. Turned(fsm'.ps_ctrl_updwn, fsm'.ps_ctrl_phase) = IF host.ps_updwn THEN Size ELSE -Size
    BY <2>3 DEF Turned
  <2>. HIDE DEF n
  <2>9. pll.phase + Turned(fsm'.ps_ctrl_updwn, fsm'.ps_ctrl_phase) = Signed(fsm'.step_cnt)
    <3>1. CASE host.ps_updwn
      BY <1>1, <2>5, <2>6, <2>7, <2>8, <3>1
    <3>2. CASE ~host.ps_updwn
      BY <1>1, <2>5, <2>6, <2>7, <2>8, <3>2
    <3>. QED  BY <3>1, <3>2
  <2>. QED  BY <2>1, <2>9
<1>5. CASE fsm.state = "prep_phase" /\ PhasePrepared
  <2>1. ~fsm'.find_max /\ BothEdges
    BY <1>5, ScanFlags
  <2>2. fsm.prep_phase_cnt > 2
    BY <1>5 DEF PhasePrepared
  <2>3. fsm.step_cnt_reverse = n - Middle /\ pll.phase = Signed(n)
    BY <1>5, <2>1, <2>2 DEF Preparing
  <2>4. fsm.ps_updwn_reg = host.ps_updwn
    BY <1>5 DEF Asked
  <2>5. fsm'.ps_ctrl_phase = n - Middle /\ fsm'.ps_ctrl_updwn = ~host.ps_updwn
    BY <1>5, <2>3, <2>4, SearchFields DEF Pick
  <2>6. Middle \in Int
    <3>1. /\ fsm.step_cnt_min = Min(Good) /\ n = Min(Bad) /\ fsm.step_cnt_min \in Nat
      BY <1>5, <2>1 DEF Preparing, FsmTypes
    <3>2. Size \in Nat
      BY <1>5, SizeIs
    <3>. QED  BY <1>1, <3>1, <3>2 DEF Middle, Size
  <2>7. pll.phase = IF host.ps_updwn THEN n ELSE -n
    BY <2>3 DEF Signed
  <2>8. Turned(fsm'.ps_ctrl_updwn, fsm'.ps_ctrl_phase) = IF host.ps_updwn THEN -(n - Middle) ELSE n - Middle
    BY <1>1, <2>5 DEF Turned
  <2>9. pll.phase + Turned(fsm'.ps_ctrl_updwn, fsm'.ps_ctrl_phase) = Signed(Middle)
    <3>1. CASE host.ps_updwn
      BY <1>1, <2>6, <2>7, <2>8, <3>1 DEF Signed
    <3>2. CASE ~host.ps_updwn
      BY <1>1, <2>6, <2>7, <2>8, <3>2 DEF Signed
    <3>. QED  BY <3>1, <3>2
  <2>. QED  BY <2>1, <2>9
<1>. QED  BY <1>2, <1>3, <1>4, <1>5

LEMMA ScanOnTheWay ==
    ASSUME ~SLOW_PLL, SearchInv, SearchInv', FsmTypes, PsTypes, Asked, ManualInTurn, Flags,
           Searching, Preparing, OnTheWay, ScanClock
    PROVE  OnTheWay'
<1>1. UNCHANGED <<host, pll, eye, intact, from>>
  BY SearchFields
<1>2. /\ Middle' = Middle /\ (BothEdges' <=> BothEdges) /\ (AutoMode(host)' <=> AutoMode(host))
      /\ PsCtrlUpdown(host)' = (IF AutoMode(host) THEN fsm'.ps_ctrl_updwn ELSE host.ps_updwn)
      /\ PsCtrlPhase(host)' = (IF AutoMode(host) THEN fsm'.ps_ctrl_phase ELSE host.ps_phase)
  BY <1>1, SameTarget DEF AutoMode, PsCtrlUpdown, PsCtrlPhase
<1>3. Aimed' <=> intact /\ (AutoMode(host) /\ ~fsm'.find_max => BothEdges)
  BY <1>1, <1>2 DEF Aimed
<1>. SUFFICES ASSUME Aimed'
              PROVE  /\ Pending' => pll.phase + Turned(PsCtrlUpdown(host)', PsCtrlPhase(host)') = Goal'
                     /\ ps'.state # "idle" => pll.phase + Turned(ps'.updown_reg, StepsLeft') = Goal'
                     /\ ps'.state = "idle" /\ ~Pending' =>
                           /\ AutoMode(host) /\ fsm'.state \in {"wait_pll_lock", "check_cmp_status", "cmp_smpls",
                                                                "ph_shift", "wait_after_ph_shift"}
                                => pll.phase = Goal'
                           /\ ~AutoMode(host) /\ host.ps_en => pll.phase = Goal'
  BY <1>1, <1>2 DEF OnTheWay, Turned
<1>4. CASE ~AutoMode(host)
  <2>1. Goal' = Goal
    BY <1>1, <1>2, <1>4 DEF Goal, Signed
  <2>. QED  BY <1>3, <1>4, <2>1, ScanManual
<1>5. CASE AutoMode(host)
  <2>1. Goal' = IF fsm'.find_max THEN Signed(fsm'.step_cnt) ELSE Signed(Middle)
    BY <1>1, <1>2, <1>5 DEF Goal, Signed
  <2>2. Goal = IF fsm.find_max THEN Signed(fsm.step_cnt) ELSE Signed(Middle)
    BY <1>5 DEF Goal
  <2>3. fsm.state \notin {"idle", "check_max_steps", "max_found", "prep_phase"} =>
            Goal' = Goal /\ (Aimed <=> Aimed')
    <3>1. SUFFICES ASSUME fsm.state \notin {"idle", "check_max_steps", "max_found", "prep_phase"}
                   PROVE  Goal' = Goal /\ (Aimed <=> Aimed')
      OBVIOUS
    <3>2. (fsm'.find_max <=> fsm.find_max) /\ fsm'.step_cnt = fsm.step_cnt
      BY <3>1, ScanFlags, SearchFields DEF Pick
    <3>. QED  BY <1>3, <2>1, <2>2, <3>2 DEF Aimed
  <2>4. CASE fsm.state = "ph_shift"
    <3>1. Goal' = Goal /\ Aimed
      BY <2>3, <2>4
    <3>2. fsm'.ps_ctrl_updwn = PsCtrlUpdown(host) /\ fsm'.ps_ctrl_phase = PsCtrlPhase(host)
      BY <1>5, <2>4, SearchFields DEF Pick, PsCtrlUpdown, PsCtrlPhase
    <3>3. PsCtrlUpdown(host)' = PsCtrlUpdown(host) /\ PsCtrlPhase(host)' = PsCtrlPhase(host)
      BY <1>2, <1>5, <3>2
    <3>. QED  BY <1>5, <2>4, <3>1, <3>3, ScanShift
  <2>5. CASE fsm.state # "ph_shift" /\ fsm'.state = "ph_shift"
    <3>1. ~fsm'.ps_ctrl_en
      BY <2>5, ScanFields
    <3>2. Pending' /\ ps'.state = "idle"
      BY <1>2, <1>5, <2>5, <3>1 DEF Pending, NotYetShifted, SearchInv, ShiftsInTurn
    <3>3. fsm.find_max \/ BothEdges
      <4>1. CASE fsm.state = "prep_phase"
        BY <1>3, <1>5, <4>1, ScanFlags
      <4>2. CASE fsm.state # "prep_phase"
        <5>1. fsm.state \in {"wait_pll_lock", "check_max_steps"}
          BY <2>5, <4>2, ScanGoes
        <5>. QED  BY <5>1 DEF Flags
      <4>. QED  BY <4>1, <4>2
    <3>4. pll.phase + Turned(fsm'.ps_ctrl_updwn, fsm'.ps_ctrl_phase) = Goal'
      BY <1>3, <1>5, <2>1, <2>5, <3>3, ScanAsks
    <3>. QED  BY <1>2, <1>5, <3>2, <3>4
  <2>6. CASE fsm.state # "ph_shift" /\ fsm'.state # "ph_shift"
    <3>1. ps'.state = "idle"
      BY <1>2, <1>5, <2>6 DEF SearchInv, ShiftsInTurn
    <3>2. ~Pending'
      BY <1>2, <1>5, <2>6 DEF Pending
    <3>3. ASSUME fsm'.state \in {"wait_pll_lock", "check_cmp_status", "cmp_smpls", "wait_after_ph_shift"}
          PROVE  pll.phase = Goal'
      <4>1. CASE fsm.state \in {"wait_pll_lock", "check_cmp_status", "cmp_smpls", "wait_after_ph_shift"}
        BY <2>3, <4>1, AtGoal
      <4>2. CASE fsm.state = "rst_pll"
        <5>1. ~pll.locked
          BY <2>6, <3>3, <4>2, ScanGoes
        <5>2. fsm.find_max /\ intact
          BY <1>3, <4>2 DEF Flags
        <5>3. fsm.step_cnt = 0 /\ pll.phase = 0
          BY <4>2, <5>1, <5>2 DEF Searching
        <5>4. Goal = 0
          <6>1. Goal = Signed(fsm.step_cnt)
            BY <2>2, <5>2
          <6>. QED  BY <5>3, <6>1, SignedZero
        <5>. QED  BY <2>3, <4>2, <5>3, <5>4
      <4>. QED  BY <2>6, <3>3, <4>1, <4>2, ScanGoes
    <3>. QED  BY <1>5, <2>6, <3>1, <3>2, <3>3
  <2>. QED  BY <2>4, <2>5, <2>6
<1>. QED  BY <1>4, <1>5

LEMMA ScanExact ==
    ASSUME ~SLOW_PLL, SearchInv, SearchInv', ExactInv, ScanClock
    PROVE  ExactInv'
<1>. USE DEF ExactInv
<1>1. PsTypes
  BY DEF PsTypes
<1>2. StepTypes' /\ OneByOne'
  BY <1>1, ScanSteps DEF PsTypes
<1>3. FsmTypes' /\ Asked' /\ TrueErrors' /\ Flags'
  BY ScanTypes, ScanAsked, ScanErrors, ScanFlags
<1>4. Edges' /\ ManualInTurn'
  BY <1>1, ScanEdges
<1>5. Searching' /\ Preparing' /\ Ending'
  BY ScanSearching, ScanPreparing, ScanEnding
<1>6. OnTheWay'
  BY <1>1, ScanOnTheWay
<1>. QED  BY <1>2, <1>3, <1>4, <1>5, <1>6

-----------------------------------------------------------------------------
(* The comparator, the PLL and the host.                                   *)

\* What does not change with the comparator or the PLL.
LEMMA SameHost ==
    ASSUME UNCHANGED <<fsm, ps, host, eye, intact, from>>
    PROVE  /\ Goal' = Goal /\ (Aimed' <=> Aimed) /\ (Pending' <=> Pending)
           /\ (MiddleInEye' <=> MiddleInEye) /\ (BothEdges' <=> BothEdges)
           /\ Compared' = Compared /\ Good' = Good /\ Bad' = Bad /\ Middle' = Middle
<1>1. /\ Compared' = Compared /\ Good' = Good /\ Bad' = Bad /\ Middle' = Middle
      /\ (BothEdges' <=> BothEdges) /\ (MiddleInEye' <=> MiddleInEye)
  BY SameTarget
<1>2. (AutoMode(host)' <=> AutoMode(host)) /\ Signed(Middle)' = Signed(Middle)
      /\ Signed(fsm.step_cnt)' = Signed(fsm.step_cnt) /\ Signed(host.ps_phase)' = Signed(host.ps_phase)
  BY <1>1 DEF AutoMode, Signed
<1>3. Goal' = Goal /\ (Aimed' <=> Aimed)
  BY <1>1, <1>2 DEF Goal, Aimed
<1>4. Pending' <=> Pending
  BY <1>2 DEF Pending, NotYetShifted
<1>. QED  BY <1>1, <1>3, <1>4

\* The parts that speak neither of the comparator nor of the PLL.
LEMMA SameParts ==
    ASSUME UNCHANGED <<fsm, ps, host, eye, intact, from>>, ExactInv
    PROVE  StepTypes' /\ FsmTypes' /\ Edges' /\ ManualInTurn' /\ Flags'
<1>. USE DEF ExactInv
<1>1. StepTypes' /\ FsmTypes' /\ Flags'
  BY DEF StepTypes, FsmTypes, Flags
<1>2. Edges' /\ ManualInTurn'
  BY DEF Edges, ManualInTurn, AutoMode, Pending, NotYetShifted, ShiftDone
<1>. QED  BY <1>1, <1>2

LEMMA RxExact ==
    ASSUME SearchInv, ExactInv, RxClock
    PROVE  ExactInv'
<1>. USE DEF ExactInv
<1>1. UNCHANGED <<fsm, ps, host, sync, pll, eye>> /\ InEye' = InEye
  BY RxFields
<1>2. UNCHANGED <<intact, from>>
  BY DEF RxClock
<1>3. StepTypes' /\ FsmTypes' /\ Edges' /\ ManualInTurn' /\ Flags'
  BY <1>1, <1>2, SameParts
<1>4. OneByOne' /\ Asked'
  BY <1>1, <1>2 DEF OneByOne, Asked
<1>5. /\ Goal' = Goal /\ (Aimed' <=> Aimed) /\ (Pending' <=> Pending)
      /\ (MiddleInEye' <=> MiddleInEye) /\ (BothEdges' <=> BothEdges)
      /\ Compared' = Compared /\ Good' = Good /\ Bad' = Bad /\ Middle' = Middle
  BY <1>1, <1>2, SameHost
<1>6. OnTheWay'
  BY <1>1, <1>5 DEF OnTheWay, StepsLeft, Turned, PsCtrlUpdown, PsCtrlPhase, AutoMode
<1>7. Searching'
  BY <1>1, <1>2, <1>5 DEF Searching, Seen, NoGood, EyeTo, Signed
<1>8. Preparing' /\ Ending'
  BY <1>1, <1>2, <1>5 DEF Preparing, Ending, Signed
<1>9. TrueErrors'
  <2>1. ASSUME ~StartSeen'  PROVE ~cmp'.error
    <3>1. ~StartComes
      BY <2>1, RxFields DEF StartSeen
    <3>2. ~(cmp.start_sync[2] /\ cmp.start_sync[1])
      BY <3>1 DEF StartComes
    <3>3. PICK smpl_err \in SmplErr(InEye) : CmpClock(fsm.smpl_cmp_en, smpl_err)
      BY DEF RxClock
    <3>. DEFINE both == <<fsm.smpl_cmp_en, cmp.start_sync[1]>>
    <3>4. both[2] = cmp.start_sync[1]
      OBVIOUS
    <3>. HIDE DEF both
    <3>5. cmp' = IF cmp.start_sync[2] /\ both[2] THEN CmpRun(both, smpl_err) ELSE CmpReset(both)
      BY <3>3 DEF CmpClock, both
    <3>6. cmp' = CmpReset(both)
      BY <3>2, <3>4, <3>5
    <3>. QED  BY <3>6 DEF CmpReset
  <2>2. ASSUME fsm.state = "cmp_smpls", cmp'.error  PROVE ~InEye
    <3>1. Comparing /\ Filled
      BY <2>2 DEF SearchInv
    <3>2. StartSeen /\ StartComes
      <4>1. CASE ~(StartSeen /\ StartComes)
        <5>1. ~StartSeen \/ ~StartComes
          BY <4>1
        <5>2. ~cmp'.error
          <6>1. PICK smpl_err \in SmplErr(InEye) : CmpClock(fsm.smpl_cmp_en, smpl_err)
            BY DEF RxClock
          <6>. DEFINE both == <<fsm.smpl_cmp_en, cmp.start_sync[1]>>
          <6>2. both[2] = cmp.start_sync[1]
            OBVIOUS
          <6>. HIDE DEF both
          <6>3. cmp' = IF cmp.start_sync[2] /\ both[2] THEN CmpRun(both, smpl_err) ELSE CmpReset(both)
            BY <6>1 DEF CmpClock, both
          <6>4. cmp' = CmpReset(both)
            BY <5>1, <6>2, <6>3 DEF StartSeen, StartComes
          <6>. QED  BY <6>4 DEF CmpReset
        <5>. QED  BY <2>2, <5>2
      <4>. QED  BY <4>1
    <3>3. PICK smpl_err \in SmplErr(InEye) : cmp'.error = CmpError(smpl_err)
      BY <3>2, RxFields
    <3>4. CASE cmp.error
      BY <2>2, <3>4 DEF TrueErrors
    <3>5. CASE ~cmp.error
      <4>1. smpl_err /\ cmp.state = "compare"
        BY <2>2, <3>3, <3>5 DEF CmpError
      <4>2. ~(cmp.age < SMPL_PIPE)
        BY <3>1, <4>1 DEF Filled, SMPL_PIPE
      <4>3. InEye => SmplErr(InEye) = {FALSE}
        BY <4>2, Zenon DEF SmplErr
      <4>. QED  BY <3>3, <4>1, <4>3, Zenon
    <3>. QED  BY <3>4, <3>5
  <2>. QED  BY <1>1, <2>1, <2>2 DEF TrueErrors
<1>. QED  BY <1>3, <1>4, <1>6, <1>7, <1>8, <1>9

\* The phase moves only in a shift, as far as is left of it, or to 0 at a reset.
LEMMA PllExact ==
    ASSUME SearchInv, SearchInv', ExactInv, PllReset \/ PllLock \/ PllStep \/ PllStepped
    PROVE  ExactInv'
<1>. USE DEF ExactInv
<1>1. UNCHANGED <<fsm, ps, cmp, host, sync, eye>>
  BY PllMoves
<1>2. UNCHANGED <<intact, from>>
  BY DEF PllReset, PllLock, PllStep, PllStepped
<1>3. StepTypes' /\ FsmTypes' /\ Edges' /\ ManualInTurn' /\ Flags'
  BY <1>1, <1>2, SameParts
<1>4. PsTypes
  BY DEF PsTypes
<1>5. /\ OneByOne'
      /\ ps.state # "idle" =>
            pll'.phase + Turned(ps.updown_reg, StepsLeft') = pll.phase + Turned(ps.updown_reg, StepsLeft)
      /\ ps.state = "idle" => pll'.phase = pll.phase \/ PllReset
  BY <1>4, PllSteps DEF PsTypes
<1>6. /\ Goal' = Goal /\ (Aimed' <=> Aimed) /\ (Pending' <=> Pending)
      /\ (MiddleInEye' <=> MiddleInEye) /\ (BothEdges' <=> BothEdges)
      /\ Compared' = Compared /\ Good' = Good /\ Bad' = Bad /\ Middle' = Middle
  BY <1>1, <1>2, SameHost
<1>7. /\ PllReset => fsm.state = "rst_pll" /\ pll'.phase = 0 /\ fsm.pll_reset_req
      /\ ~PllReset => pll'.locked = pll.locked \/ pll'.locked
  <2>1. pll \in [phase : Int, locked : BOOLEAN, phasedone : BOOLEAN]
    BY DEF SearchInv, PllTypes
  <2>2. PllReset => fsm.state = "rst_pll" /\ pll'.phase = 0 /\ fsm.pll_reset_req
    BY DEF PllReset, SearchInv, ResetsFirst
  <2>3. ~PllReset => pll'.locked = pll.locked \/ pll'.locked
    BY <2>1 DEF PllLock, PllStep, PllStepped
  <2>. QED  BY <2>2, <2>3
<1>8. Asked'
  BY <1>1, <1>2, <1>7 DEF Asked
<1>9. fsm.state \notin {"idle", "rst_pll", "ph_shift"} \/ fsm.ps_done => pll'.phase = pll.phase
  <2>1. fsm.state \notin {"idle", "rst_pll", "wait_pll_lock", "ph_shift"} \/ fsm.ps_done => pll'.phase = pll.phase
    BY PllMoves
  <2>2. ASSUME fsm.state = "wait_pll_lock"  PROVE pll'.phase = pll.phase
    <3>1. ps.state = "idle"
      BY <2>2 DEF SearchInv, OneMode, ShiftsInTurn, AutoMode
    <3>. QED  BY <1>5, <1>7, <2>2, <3>1
  <2>. QED  BY <2>1, <2>2
<1>10. OnTheWay'
  <2>1. fsm.state = "rst_pll" => ps.state = "idle" /\ AutoMode(host)
    BY DEF SearchInv, OneMode, ShiftsInTurn, AutoMode
  <2>2. (AutoMode(host)' <=> AutoMode(host)) /\ PsCtrlUpdown(host)' = PsCtrlUpdown(host)
        /\ PsCtrlPhase(host)' = PsCtrlPhase(host)
    BY <1>1 DEF AutoMode, PsCtrlUpdown, PsCtrlPhase
  <2>3. Pending => ps.state = "idle"
    BY DEF Pending, ManualInTurn, SearchInv, ShiftsInTurn
  <2>4. ~PllReset => (ps.state = "idle" => pll'.phase = pll.phase)
    BY <1>5
  <2>5. CASE PllReset
    <3>1. fsm.state = "rst_pll" /\ ps.state = "idle" /\ AutoMode(host)
      BY <1>7, <2>1, <2>5
    <3>2. ~Pending
      BY <3>1 DEF Pending
    <3>. QED  BY <1>1, <1>6, <2>2, <3>1, <3>2 DEF OnTheWay
  <2>6. CASE ~PllReset
    <3>1. Pending => pll'.phase + Turned(PsCtrlUpdown(host), PsCtrlPhase(host))
                       = pll.phase + Turned(PsCtrlUpdown(host), PsCtrlPhase(host))
      BY <2>3, <2>4, <2>6
    <3>2. SUFFICES ASSUME Aimed
                   PROVE  /\ Pending => pll'.phase + Turned(PsCtrlUpdown(host), PsCtrlPhase(host)) = Goal
                          /\ ps.state # "idle" => pll'.phase + Turned(ps.updown_reg, StepsLeft') = Goal
                          /\ ps.state = "idle" /\ ~Pending =>
                                /\ AutoMode(host) /\ fsm.state \in {"wait_pll_lock", "check_cmp_status", "cmp_smpls",
                                                                    "ph_shift", "wait_after_ph_shift"}
                                     => pll'.phase = Goal
                                /\ ~AutoMode(host) /\ host.ps_en => pll'.phase = Goal
      BY <1>1, <1>6, <2>2 DEF OnTheWay, Turned
    <3>. QED  BY <1>5, <2>4, <2>6, <3>1, <3>2 DEF OnTheWay
  <2>. QED  BY <2>5, <2>6
<1>11. TrueErrors'
  <2>1. fsm.state \in {"cmp_smpls", "end_srch"} => InEye' = InEye
    BY <1>1, <1>9 DEF InEye
  <2>2. StartSeen' = StartSeen
    BY <1>1 DEF StartSeen
  <2>. QED  BY <1>1, <2>1, <2>2 DEF TrueErrors
<1>12. Searching'
  <2>1. ASSUME fsm.state = "rst_pll", ~pll'.locked, pll.phase = 0 \/ pll.locked  PROVE pll'.phase = 0
    <3>1. ps.state = "idle"
      BY <2>1 DEF SearchInv, OneMode, ShiftsInTurn, AutoMode
    <3>2. CASE PllReset
      BY <1>7, <3>2
    <3>3. CASE ~PllReset
      BY <1>5, <1>7, <2>1, <3>1, <3>3
    <3>. QED  BY <3>2, <3>3
  <2>. QED  BY <1>1, <1>2, <1>6, <1>9, <2>1 DEF Searching, Seen, NoGood, EyeTo, Signed
<1>13. Preparing' /\ Ending'
  BY <1>1, <1>2, <1>6, <1>9 DEF Preparing, Ending, Signed
<1>. QED  BY <1>3, <1>5, <1>8, <1>10, <1>11, <1>12, <1>13

LEMMA StartExact ==
    ASSUME OneUser, SearchInv, SearchInv', ExactInv, Start
    PROVE  ExactInv'
<1>. USE DEF ExactInv
<1>1. UNCHANGED <<fsm, ps, cmp, sync, pll, eye>>
  BY DEF Start
<1>2. PICK mode \in MODES, up \in UPDOWNS, step \in STEP_SIZES :
         host' = [ps_en |-> TRUE, ps_mode |-> mode, ps_updwn |-> up,
                  ps_phase |-> step, ps_step_size |-> step]
  BY DEF Start
<1>3. /\ host'.ps_en /\ host'.ps_mode = mode /\ host'.ps_updwn = up
      /\ host'.ps_phase = step /\ host'.ps_step_size = step
  BY <1>2
<1>4. ~host.ps_en /\ ~fsm.ps_en_reg /\ (GIVES_UP \/ AllIdle) /\ (intact' <=> AllIdle) /\ from' = pll.phase
  <2>1. intact' = AllIdle
    BY DEF Start
  <2>. QED  BY <2>1 DEF Start
<1>5. ~fsm.done_manual /\ ~fsm.ps_done
  BY <1>4 DEF Edges, SearchInv, StatusIsTrue
<1>6. StepTypes' /\ OneByOne' /\ FsmTypes' /\ Flags'
  BY <1>1 DEF StepTypes, OneByOne, FsmTypes, Flags
<1>7. intact' => fsm.state = "idle" /\ ps.state = "idle" /\ ~ps.busy /\ ~fsm.ps_ctrl_busy_reg
  BY <1>4 DEF AllIdle
<1>8. Asked'
  BY <1>1, <1>3, <1>7 DEF Asked
<1>9. AutoMode(host)' <=> mode = "auto"
  BY <1>3 DEF AutoMode
<1>10. ~AllIdle => AutoMode(host) /\ AutoMode(host)'
  <2>1. ASSUME ~AllIdle  PROVE GIVES_UP
    BY <1>4, <2>1
  <2>2. GIVES_UP => mode = "auto" /\ host.ps_mode = "auto"
    BY DEF OneUser, SearchInv, OneMode
  <2>. QED  BY <1>9, <2>1, <2>2 DEF AutoMode
<1>11. Edges'
  <2>1. ASSUME AutoMode(host)', fsm.state \notin {"ph_shift", "wait_after_ph_shift"}  PROVE ~ps.en_reg
    BY <1>4, <2>1 DEF Edges
  <2>2. ASSUME ~AutoMode(host)'  PROVE ps.en_reg <=> fsm.ps_en_reg
    <3>1. fsm.state = "idle"
      BY <1>10, <2>2 DEF AllIdle
    <3>2. ~ps.en_reg
      BY <1>4, <3>1 DEF Edges
    <3>. QED  BY <1>4, <3>2
  <2>. QED  BY <1>1, <1>5, <2>1, <2>2 DEF Edges
<1>12. ManualInTurn'
  <2>1. SUFFICES ASSUME ~AutoMode(host)'
                 PROVE  ps.state = "idle" /\ ~ps.busy /\ ~fsm.ps_ctrl_busy_reg
    BY <1>1 DEF ManualInTurn, ShiftDone
  <2>. QED  BY <1>10, <2>1 DEF AllIdle
<1>13. OnTheWay'
  <2>1. SUFFICES ASSUME Aimed'
                 PROVE  /\ Pending' => pll.phase + Turned(PsCtrlUpdown(host)', PsCtrlPhase(host)') = Goal'
                        /\ ~Pending' => AutoMode(host)'
    BY <1>1, <1>3, <1>7 DEF OnTheWay, Aimed
  <2>2. fsm.state = "idle" /\ AllIdle
    BY <1>4, <2>1 DEF Aimed, AllIdle
  <2>3. CASE AutoMode(host)'
    BY <1>1, <2>2, <2>3 DEF Pending
  <2>4. CASE ~AutoMode(host)'
    <3>1. PsCtrlUpdown(host)' = up /\ PsCtrlPhase(host)' = step
      BY <1>3, <2>4 DEF PsCtrlUpdown, PsCtrlPhase
    <3>2. Goal' = pll.phase + (IF up THEN step ELSE -step)
      BY <1>3, <1>4, <2>4 DEF Goal, Signed
    <3>3. Pending'
      <4>1. ~ps.en_reg
        BY <1>4, <2>2 DEF Edges
      <4>. QED  BY <1>1, <1>3, <2>4, <4>1 DEF Pending
    <3>. QED  BY <3>1, <3>2, <3>3 DEF Turned
  <2>. QED  BY <2>3, <2>4
<1>14. TrueErrors'
  BY <1>1 DEF TrueErrors, StartSeen, InEye
<1>15. Searching' /\ Preparing'
  BY <1>1, <1>7 DEF Searching, Preparing
<1>16. Ending'
  BY <1>1, <1>5, <1>7 DEF Ending
<1>. QED  BY <1>6, <1>8, <1>11, <1>12, <1>13, <1>14, <1>15, <1>16

LEMMA DropExact ==
    ASSUME OneUser, SearchInv, ExactInv, Drop
    PROVE  ExactInv'
<1>. USE DEF ExactInv
<1>1. UNCHANGED <<fsm, ps, cmp, sync, pll, eye, intact, from>>
  BY DEF Drop
<1>2. /\ host' = [host EXCEPT !.ps_en = FALSE]
      /\ host \in [ps_en : BOOLEAN, ps_mode : {"auto", "manual"}, ps_updwn : BOOLEAN,
                   ps_phase : Nat, ps_step_size : Nat]
  BY DEF Drop, SearchInv, HostTypes
<1>3. /\ host.ps_en /\ ~host'.ps_en /\ host'.ps_mode = host.ps_mode /\ host'.ps_updwn = host.ps_updwn
      /\ host'.ps_phase = host.ps_phase /\ host'.ps_step_size = host.ps_step_size
  BY <1>2 DEF Drop
<1>4. /\ Compared' = Compared /\ Good' = Good /\ Bad' = Bad /\ Middle' = Middle
      /\ (BothEdges' <=> BothEdges) /\ (MiddleInEye' <=> MiddleInEye)
  BY <1>1, <1>3, SameTarget
<1>5. (AutoMode(host)' <=> AutoMode(host)) /\ Signed(Middle)' = Signed(Middle)
      /\ Signed(fsm.step_cnt)' = Signed(fsm.step_cnt) /\ Signed(host.ps_phase)' = Signed(host.ps_phase)
  BY <1>1, <1>3, <1>4 DEF AutoMode, Signed
<1>6. StepTypes' /\ OneByOne' /\ FsmTypes' /\ Flags' /\ Asked'
  BY <1>1, <1>3 DEF StepTypes, OneByOne, FsmTypes, Flags, Asked
<1>7. Edges'
  BY <1>1, <1>5 DEF Edges
<1>8. ~AutoMode(host) => ps.state = "idle" /\ ~Pending'
  <2>1. ASSUME ~AutoMode(host)  PROVE ps.state = "idle"
    <3>1. ~GIVES_UP
      BY <2>1 DEF SearchInv, OneMode, AutoMode
    <3>2. fsm.done_manual
      BY <2>1, <3>1 DEF Drop, PsDone
    <3>. QED  BY <2>1, <3>2 DEF Edges
  <2>2. ~AutoMode(host) => ~Pending'
    BY <1>3, <1>5 DEF Pending
  <2>. QED  BY <2>1, <2>2
<1>9. ManualInTurn'
  BY <1>1, <1>5, <1>8 DEF ManualInTurn, ShiftDone
<1>10. OnTheWay'
  <2>1. Goal' = Goal /\ (Aimed' <=> Aimed)
    BY <1>1, <1>4, <1>5 DEF Goal, Aimed
  <2>2. CASE AutoMode(host)
    <3>1. Pending' <=> Pending
      BY <1>1, <1>5, <2>2 DEF Pending, NotYetShifted
    <3>2. PsCtrlUpdown(host)' = PsCtrlUpdown(host) /\ PsCtrlPhase(host)' = PsCtrlPhase(host)
      BY <1>1, <1>5, <2>2 DEF PsCtrlUpdown, PsCtrlPhase
    <3>3. StepsLeft' = StepsLeft
      BY <1>1 DEF StepsLeft
    <3>. QED  BY <1>1, <1>5, <2>1, <2>2, <3>1, <3>2, <3>3 DEF OnTheWay, Turned
  <2>3. CASE ~AutoMode(host)
    BY <1>1, <1>3, <1>5, <1>8, <2>3 DEF OnTheWay
  <2>. QED  BY <2>2, <2>3
<1>11. TrueErrors'
  BY <1>1 DEF TrueErrors, StartSeen, InEye
<1>12. Searching'
  BY <1>1, <1>3, <1>4, <1>5 DEF Searching, Seen, NoGood, EyeTo, Signed
<1>13. Preparing' /\ Ending'
  BY <1>1, <1>3, <1>4, <1>5 DEF Preparing, Ending, Signed
<1>. QED  BY <1>6, <1>7, <1>9, <1>10, <1>11, <1>12, <1>13

-----------------------------------------------------------------------------
(* The invariant holds.                                                    *)

LEMMA ExactStarts == Init => ExactInv
<1>. SUFFICES ASSUME Init  PROVE ExactInv
  OBVIOUS
<1>1. /\ host = [ps_en |-> FALSE, ps_mode |-> "auto", ps_updwn |-> TRUE, ps_phase |-> 0, ps_step_size |-> 1]
      /\ pll = [phase |-> 0, locked |-> TRUE, phasedone |-> TRUE] /\ eye \in EYES
  BY DEF Init
<1>2. /\ ps.state = "idle" /\ ps.en_reg = FALSE /\ ps.phase_reg = 0 /\ ps.updown_reg = FALSE
      /\ ps.current_phase_step_cnt = 0 /\ ps.wait_cnt = 0
  BY DEF Init, PsInit
<1>3. /\ fsm.state = "idle" /\ fsm.ps_ctrl_phase = 0 /\ fsm.ps_ctrl_updwn = FALSE /\ fsm.ps_updwn_reg = FALSE
      /\ fsm.ps_ctrl_en = FALSE /\ fsm.ps_en_reg = FALSE /\ fsm.find_min = TRUE /\ fsm.find_max = TRUE
      /\ fsm.done_manual = FALSE /\ fsm.ps_done = FALSE
  BY DEF Init, FsmInit
<1>4. /\ fsm.step_cnt = 0 /\ fsm.step_cnt_min = 0 /\ fsm.step_cnt_max = StepCntMaxConstant
      /\ fsm.step_cnt_diff = 0 /\ fsm.step_cnt_middle = 0 /\ fsm.step_cnt_reverse = 0
      /\ fsm.prep_phase_cnt = 0 /\ fsm.wait_cnt = 0 /\ fsm.ps_step_size_reg = 0
  BY DEF Init, FsmInit
<1>5. ~cmp.error
  BY DEF Init, CmpInit, CmpReset
<1>6. AutoMode(host)
  BY <1>1 DEF AutoMode
<1>7. PS_TIMEOUT \in Nat /\ StepCntMaxConstant \in Nat
  BY PsTimeoutAssumption, FsmAssumption DEF StepCntMaxConstant
<1>14. ps.en_reg \in BOOLEAN /\ ps.updown_reg \in BOOLEAN
  BY <1>2, Zenon
<1>15. /\ fsm.ps_ctrl_updwn \in BOOLEAN /\ fsm.ps_updwn_reg \in BOOLEAN /\ fsm.ps_ctrl_en \in BOOLEAN
       /\ fsm.ps_en_reg \in BOOLEAN /\ fsm.find_min \in BOOLEAN /\ fsm.find_max \in BOOLEAN
  BY <1>3, Zenon
<1>8. StepTypes /\ OneByOne
  BY <1>1, <1>2, <1>7, <1>14 DEF StepTypes, OneByOne
<1>9. FsmTypes
  BY <1>3, <1>4, <1>7, <1>15 DEF FsmTypes
<1>10. Asked
  BY <1>1, <1>3 DEF Asked
<1>11. Edges /\ ManualInTurn
  BY <1>2, <1>3, <1>6 DEF Edges, ManualInTurn
<1>12. OnTheWay
  BY <1>2, <1>3, <1>6 DEF OnTheWay, Pending
<1>13. TrueErrors /\ Searching /\ Flags /\ Preparing /\ Ending
  BY <1>3, <1>5 DEF TrueErrors, Searching, Flags, Preparing, Ending
<1>. QED  BY <1>8, <1>9, <1>10, <1>11, <1>12, <1>13 DEF ExactInv

LEMMA ExactRests ==
    ASSUME ExactInv, UNCHANGED vars
    PROVE  ExactInv'
<1>. USE DEF ExactInv
<1>1. UNCHANGED <<fsm, ps, cmp, host, sync, pll, eye, intact, from>>
  BY DEF vars
<1>2. StepTypes' /\ FsmTypes' /\ Edges' /\ ManualInTurn' /\ Flags'
  BY <1>1, SameParts
<1>3. OneByOne' /\ Asked'
  BY <1>1 DEF OneByOne, Asked
<1>4. /\ Goal' = Goal /\ (Aimed' <=> Aimed) /\ (Pending' <=> Pending)
      /\ (MiddleInEye' <=> MiddleInEye) /\ (BothEdges' <=> BothEdges)
      /\ Compared' = Compared /\ Good' = Good /\ Bad' = Bad /\ Middle' = Middle
  BY <1>1, SameHost
<1>5. OnTheWay'
  BY <1>1, <1>4 DEF OnTheWay, StepsLeft, Turned, PsCtrlUpdown, PsCtrlPhase, AutoMode
<1>6. Searching'
  BY <1>1, <1>4 DEF Searching, Seen, NoGood, EyeTo, Signed
<1>7. Preparing' /\ Ending'
  BY <1>1, <1>4 DEF Preparing, Ending, Signed
<1>8. TrueErrors'
  BY <1>1 DEF TrueErrors, StartSeen, InEye
<1>. QED  BY <1>2, <1>3, <1>5, <1>6, <1>7, <1>8

LEMMA ExactStep ==
    ASSUME OneUser, ~SLOW_PLL, SearchInv, SearchInv', ExactInv, [Next]_vars
    PROVE  ExactInv'
BY ScanExact, RxExact, PllExact, StartExact, DropExact, ExactRests DEF Next

LEMMA ExactAlways == ASSUME OneUser, ~SLOW_PLL PROVE Spec => []ExactInv
<1>1. SearchInv /\ SearchInv' /\ ExactInv /\ [Next]_vars => ExactInv'
  BY ExactStep
<1>. QED  BY <1>1, ExactStarts, SearchAlways, PTL DEF Spec

LEMMA CountsAreExact ==
    ASSUME SearchInv, ExactInv
    PROVE  CountIsPhase /\ ManualShift
<1>. USE DEF ExactInv
<1>1. CountIsPhase
  <2>1. SUFFICES ASSUME intact, fsm.state = "cmp_smpls", fsm.find_max  PROVE pll.phase = Signed(fsm.step_cnt)
    BY DEF CountIsPhase
  <2>2. Aimed
    BY <2>1 DEF Aimed
  <2>3. AutoMode(host) /\ pll.phase = Goal
    BY <2>1, <2>2, AtGoal
  <2>. QED  BY <2>1, <2>3 DEF Goal
<1>2. ManualShift
  <2>1. SUFFICES ASSUME intact, host.ps_en, ~AutoMode(host), PsDone(host)
                 PROVE  pll.phase = from + Signed(host.ps_phase)
    BY DEF ManualShift
  <2>2. fsm.done_manual
    BY <2>1 DEF PsDone
  <2>3. ps.state = "idle" /\ ps.en_reg
    BY <2>1, <2>2 DEF Edges
  <2>4. ~Pending /\ Aimed
    BY <2>1, <2>3 DEF Pending, Aimed
  <2>5. pll.phase = Goal
    BY <2>1, <2>3, <2>4 DEF OnTheWay
  <2>. QED  BY <2>1, <2>5 DEF Goal
<1>. QED  BY <1>1, <1>2

\* No step is lost or made twice, for any numbers of steps, clocks and searches and for
\* every eye: when samples are compared during the search for the edges, the counter of
\* pll_ps_fsm is the phase of the PLL, and a manual shift reported as done has moved the
\* phase by what the host asked for, in its direction (pll_ps, done_manual).  The PLL
\* answers pll_ps in time.
THEOREM StepsAreCounted == ASSUME OneUser, ~SLOW_PLL PROVE Spec => [](CountIsPhase /\ ManualShift)
<1>. QED  BY CountsAreExact, SearchAlways, ExactAlways, PTL

\* A search that saw both edges of the eye reports success, and the PLL is in the middle
\* of them (the counters and the registers of the final phase in pll_ps_fsm).  An eye has
\* no gap that fits between two phases the search compares: it could not see that one.
THEOREM PhasesAreFound ==
    ASSUME OneUser, ~SLOW_PLL, NoNarrowGaps
    PROVE  Spec => []PhasesAreExact
<1>1. ASSUME ExactInv  PROVE MiddleFound
  BY <1>1 DEF ExactInv, Ending, BothEdges, MiddleFound, PsDone, PsStatus
<1>2. CountIsPhase /\ ManualShift /\ MiddleFound => PhasesAreExact
  BY DEF PhasesAreExact
<1>3. SearchInv /\ ExactInv => PhasesAreExact
  BY <1>1, <1>2, CountsAreExact
<1>. QED  BY <1>3, SearchAlways, ExactAlways, PTL
=============================================================================
