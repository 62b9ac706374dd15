------------------------------- MODULE PllPs --------------------------------
(***************************************************************************)
(* pll_ps (src/src/dyn_ps/synth/pll_ps.vhd): on a rising edge of en it     *)
(* takes phase, the number of steps, and makes them one by one over the    *)
(* phasestep/phasedone handshake of the PLL.  A PLL that does not answer   *)
(* in time is given up on: before its step, the step is counted all the    *)
(* same; in the middle of it, the whole shift ends.                        *)
(*                                                                         *)
(* phase_step_cnt and check_phase_done_cnt each count in one state and are *)
(* clear in all others: wait_cnt is both.                                  *)
(***************************************************************************)
EXTENDS Integers

CONSTANT PS_TIMEOUT     \* timeout, 15 in the code

ASSUME PsTimeoutAssumption == PS_TIMEOUT \in Nat \ {0}

VARIABLE ps             \* the registers of pll_ps

PsInit ==
    ps = [state |-> "idle", en_reg |-> FALSE, phase_reg |-> 0, updown_reg |-> FALSE,
          current_phase_step_cnt |-> 0, wait_cnt |-> 0, busy |-> TRUE]

MoreSteps == ps.current_phase_step_cnt < ps.phase_reg

TimedOut == ps.wait_cnt > PS_TIMEOUT

PsNextState(en, phasedone) ==
    CASE ps.state = "idle" ->
            IF en /\ ~ps.en_reg THEN "check_phase_step" ELSE "idle"
      [] ps.state = "check_phase_step" ->
            IF MoreSteps THEN "phase_step" ELSE "end_phase"
      [] ps.state = "phase_step" ->
            IF ~phasedone \/ TimedOut THEN "check_phase_done" ELSE "phase_step"
      [] ps.state = "check_phase_done" ->
            IF phasedone THEN "check_phase_step"
            ELSE IF TimedOut THEN "idle" ELSE "check_phase_done"
      [] OTHER -> "idle"

PsClock(en, phase, updown, phasedone) ==
    LET rise == en /\ ~ps.en_reg
        next == PsNextState(en, phasedone)
    IN ps' = [state      |-> next,
              en_reg     |-> en,
              phase_reg  |-> IF rise THEN phase ELSE ps.phase_reg,
              updown_reg |-> IF rise THEN updown ELSE ps.updown_reg,
              current_phase_step_cnt |->
                  CASE ps.state = "check_phase_step" -> ps.current_phase_step_cnt + 1
                    [] ps.state = "idle" -> 0
                    [] OTHER -> ps.current_phase_step_cnt,
              wait_cnt   |->
                  IF next = ps.state /\ ps.state \in {"phase_step", "check_phase_done"}
                  THEN ps.wait_cnt + 1 ELSE 0,
              busy       |-> ps.state # "idle"]

PllPhasestep == ps.state = "phase_step"
=============================================================================
