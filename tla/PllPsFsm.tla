------------------------------ MODULE PllPsFsm ------------------------------
(***************************************************************************)
(* pll_ps_fsm (src/src/dyn_ps/synth/pll_ps_fsm.vhd): searches the phase at *)
(* which the sampling clock of the LMS7002M interface sits in the middle   *)
(* of the data eye.  It resets the PLL and shifts it step by step,         *)
(* comparing samples after each: the first phase without error is the      *)
(* minimum, the last one the maximum, and it then shifts back to their     *)
(* middle and compares again, for the status it reports.  In manual mode   *)
(* the host's request goes to pll_ps directly.                             *)
(***************************************************************************)
EXTENDS Integers

CONSTANTS
    PHASE_RANGE,    \* values of the step counters, 2^10 in the code
    SETTLE          \* last wait_after_ph_shift_cnt, x"FD" in the code

ASSUME FsmAssumption == PHASE_RANGE \in Nat \ {0} /\ SETTLE \in Nat

VARIABLE fsm        \* the registers of pll_ps_fsm

\* step_cnt_max_constant
StepCntMaxConstant == PHASE_RANGE - 1
Wrap(n) == n % PHASE_RANGE

FsmInit ==
    fsm = [ps_ctrl_busy_reg |-> FALSE, ps_en_reg |-> FALSE, ps_updwn_reg |-> FALSE,
           ps_step_size_reg |-> 0, step_cnt_max_reg |-> StepCntMaxConstant,
           done_manual |-> FALSE, state |-> "idle", find_min |-> TRUE, find_max |-> TRUE,
           step_cnt |-> 0, step_cnt_min |-> 0, step_cnt_max |-> StepCntMaxConstant,
           step_cnt_diff |-> 0, step_cnt_middle |-> 0, step_cnt_reverse |-> 0,
           prep_phase_cnt |-> 0, wait_cnt |-> 0, pll_reset_req |-> FALSE,
           smpl_cmp_en |-> FALSE, ps_ctrl_en |-> FALSE, ps_ctrl_phase |-> 0,
           ps_ctrl_updwn |-> FALSE, ps_done |-> FALSE, ps_status |-> FALSE]

\* Fault: no wait for the registers of the final phase.
PhasePrepared_Early == fsm.prep_phase_cnt > 1

PhasePrepared == fsm.prep_phase_cnt > 2

\* where cmp_smpls goes with the verdict of the comparator
Verdict(error) ==
    IF fsm.find_min THEN IF ~error /\ fsm.step_cnt > 2 THEN "min_found" ELSE "check_max_steps"
    ELSE IF fsm.find_max THEN IF error THEN "max_found" ELSE "check_max_steps"
    ELSE "end_srch"

\* Fault: the level of busy is taken, not its falling edge.
ShiftDone_Level(busy) == ~busy

ShiftDone(busy) == ~busy /\ fsm.ps_ctrl_busy_reg

MoreToSearch == fsm.step_cnt < fsm.step_cnt_max_reg

\* ps_reset_at_start is tied to 1 (pll_ps_top.vhd line 229).
FsmNextState(h, locked, busy, done, error) ==
    CASE fsm.state = "idle" ->
            IF h.ps_en /\ ~fsm.ps_en_reg /\ h.ps_mode = "auto" THEN "rst_pll" ELSE "idle"
      [] fsm.state = "rst_pll" ->
            IF ~locked THEN "wait_pll_lock" ELSE "rst_pll"
      [] fsm.state = "wait_pll_lock" ->
            IF ~locked THEN "wait_pll_lock"
            ELSE IF fsm.find_min \/ fsm.find_max THEN "check_cmp_status" ELSE "ph_shift"
      [] fsm.state = "check_cmp_status" ->
            IF ~done THEN "cmp_smpls" ELSE "check_cmp_status"
      [] fsm.state = "cmp_smpls" ->
            IF done THEN Verdict(error) ELSE "cmp_smpls"
      [] fsm.state = "min_found" -> "check_max_steps"
      [] fsm.state = "max_found" -> "prep_phase"
      [] fsm.state = "check_max_steps" ->
            IF MoreToSearch THEN "ph_shift"
            ELSE IF ~fsm.find_min THEN "prep_phase" ELSE "end_srch"
      [] fsm.state = "ph_shift" ->
            IF ShiftDone(busy) THEN "wait_after_ph_shift" ELSE "ph_shift"
      [] fsm.state = "wait_after_ph_shift" ->
            IF fsm.wait_cnt > SETTLE THEN "check_cmp_status" ELSE "wait_after_ph_shift"
      [] fsm.state = "prep_phase" ->
            IF PhasePrepared THEN "ph_shift" ELSE "prep_phase"
      [] OTHER -> "idle"

\* Fault: the comparator is started before it took back its last report.
SmplCmpEn_Early == fsm.state \in {"check_cmp_status", "cmp_smpls"}

SmplCmpEn == fsm.state = "cmp_smpls"

\* "minus 1 step, because last phase step is always invalid"
MaxPhase == Wrap(fsm.step_cnt - fsm.ps_step_size_reg)

Pick(v, first, one, otherwise) ==
    IF fsm.state = first THEN one ELSE IF fsm.state = "idle" THEN v ELSE otherwise

\* One rising edge of the scan clock; h are the ports of the host.
FsmClock(h, locked, busy, done, error) ==
    LET at(s) == fsm.state = s
        latch == h.ps_en /\ ~fsm.ps_en_reg
    IN fsm' =
      [ps_ctrl_busy_reg |-> busy,
       ps_en_reg        |-> h.ps_en,
       ps_updwn_reg     |-> IF latch THEN h.ps_updwn ELSE fsm.ps_updwn_reg,
       ps_step_size_reg |-> IF latch THEN h.ps_step_size ELSE fsm.ps_step_size_reg,
       step_cnt_max_reg |-> Wrap(StepCntMaxConstant - fsm.ps_step_size_reg),
       done_manual      |-> h.ps_en /\ (fsm.done_manual \/ (fsm.ps_ctrl_busy_reg /\ ~busy)),
       state            |-> FsmNextState(h, locked, busy, done, error),
       find_min         |-> Pick(TRUE, "min_found", FALSE, fsm.find_min),
       find_max         |-> ~(at("max_found") \/ at("prep_phase")) /\ (at("idle") \/ fsm.find_max),
       step_cnt_min     |-> Pick(0, "min_found", fsm.step_cnt, fsm.step_cnt_min),
       step_cnt_max     |-> Pick(StepCntMaxConstant, "max_found", MaxPhase, fsm.step_cnt_max),
       step_cnt         |-> Pick(0, "check_max_steps",
                                 Wrap(fsm.step_cnt + fsm.ps_step_size_reg), fsm.step_cnt),
       step_cnt_diff    |-> Wrap(fsm.step_cnt_max - fsm.step_cnt_min),
       step_cnt_middle  |-> Wrap((fsm.step_cnt_diff \div 2) + fsm.step_cnt_min),
       step_cnt_reverse |-> Wrap(fsm.step_cnt - fsm.step_cnt_middle),
       prep_phase_cnt   |-> IF at("prep_phase") THEN fsm.prep_phase_cnt + 1 ELSE 0,
       wait_cnt         |-> IF at("wait_after_ph_shift") THEN fsm.wait_cnt + 1 ELSE 0,
       pll_reset_req    |-> at("rst_pll"),
       smpl_cmp_en      |-> SmplCmpEn,
       ps_ctrl_en       |-> at("ph_shift"),
       ps_ctrl_phase    |-> Pick(h.ps_step_size, "prep_phase", fsm.step_cnt_reverse,
                                 fsm.ps_ctrl_phase),
       ps_ctrl_updwn    |-> Pick(h.ps_updwn, "prep_phase", ~fsm.ps_updwn_reg,
                                 fsm.ps_ctrl_updwn),
       ps_done          |-> h.ps_en /\ (fsm.ps_done \/ at("end_srch")),
       ps_status        |-> h.ps_en /\ (IF at("end_srch") THEN error ELSE fsm.ps_status)]

\* Output ports; ps_mode selects between the host and the search.
AutoMode(h) == h.ps_mode = "auto"
PsCtrlEn(h) == IF AutoMode(h) THEN fsm.ps_ctrl_en ELSE h.ps_en
PsCtrlPhase(h) == IF AutoMode(h) THEN fsm.ps_ctrl_phase ELSE h.ps_phase
PsCtrlUpdown(h) == IF AutoMode(h) THEN fsm.ps_ctrl_updwn ELSE h.ps_updwn
PsDone(h) == IF AutoMode(h) THEN fsm.ps_done ELSE fsm.done_manual
PsStatus(h, busy) == IF AutoMode(h) THEN fsm.ps_status ELSE busy
=============================================================================
