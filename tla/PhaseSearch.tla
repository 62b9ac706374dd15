---------------------------- MODULE PhaseSearch -----------------------------
(***************************************************************************)
(* The phase search of a PLL: pll_ps_fsm with pll_ps (pll_ps_top, in the   *)
(* scan clock), the sample comparator in the RX clock, the synchronizers   *)
(* between the two, the PLL (external) and the host that sets the ports    *)
(* through the pllcfg registers.  The two clocks and the PLL take their    *)
(* steps in any order.                                                     *)
(***************************************************************************)
EXTENDS PllPsFsm, PllPs, SmplCmp, FiniteSetsExt

CONSTANTS
    MODES,          \* modes the host uses
    STEP_SIZES,     \* step sizes the host asks for
    UPDOWNS,        \* directions the host asks for
    EYES,           \* sets of distances from the reset phase without errors
    GIVES_UP,       \* the host may drop ps_en before ps_done
    SLOW_PLL,       \* the PLL may answer later than PS_TIMEOUT
    MAX_STARTS      \* bound: requests of the host

ASSUME SearchAssumption ==
    /\ MODES \subseteq {"auto", "manual"} /\ UPDOWNS \subseteq BOOLEAN
    /\ STEP_SIZES \subseteq 1 .. PHASE_RANGE - 1
    /\ GIVES_UP \in BOOLEAN /\ SLOW_PLL \in BOOLEAN /\ MAX_STARTS \in Nat

VARIABLES
    host,           \* ports ps_en, ps_mode, ps_updwn, ps_phase, ps_step_size
    sync,           \* synchronizers of cmp_done and cmp_error
    pll,            \* external: phase, locked, phasedone
    eye,            \* the eye of this board
    starts, intact, from    \* requests made; the last one found all idle,
                            \* at this phase

vars == <<fsm, ps, cmp, host, sync, pll, eye, starts, intact, from>>

Init ==
    /\ FsmInit /\ PsInit /\ CmpInit
    /\ host = [ps_en |-> FALSE, ps_mode |-> "auto", ps_updwn |-> TRUE,
               ps_phase |-> 0, ps_step_size |-> 1]
    /\ sync = [done |-> <<FALSE, FALSE>>, error |-> <<FALSE, FALSE>>]
    /\ pll = [phase |-> 0, locked |-> TRUE, phasedone |-> TRUE]
    /\ eye \in EYES
    /\ starts = 0 /\ intact = TRUE /\ from = 0

Distance(n) == IF n < 0 THEN -n ELSE n
InEye == Distance(pll.phase) \in eye

-----------------------------------------------------------------------------
(* The two clocks.                                                         *)

\* A PLL that is not slow answers before pll_ps gives up.
PllInTime == SLOW_PLL \/ ps.wait_cnt < PS_TIMEOUT \/ pll.phasedone = (ps.state = "check_phase_done")

ScanClock ==
    /\ PllInTime
    /\ FsmClock(host, pll.locked, ps.busy, sync.done[2], sync.error[2])
    /\ PsClock(PsCtrlEn(host), PsCtrlPhase(host), PsCtrlUpdown(host), pll.phasedone)
    /\ sync' = [done  |-> <<cmp.done, sync.done[1]>>,
                error |-> <<cmp.error, sync.error[1]>>]
    /\ UNCHANGED <<cmp, host, pll, eye, starts, intact, from>>

\* The RX clock comes out of the PLL and rests while that is not locked.
RxClock ==
    /\ pll.locked
    /\ \E smpl_err \in SmplErr(InEye) : CmpClock(fsm.smpl_cmp_en, smpl_err)
    /\ UNCHANGED <<fsm, ps, host, sync, pll, eye, starts, intact, from>>

-----------------------------------------------------------------------------
(* The PLL, external: it is reset and locks again, and takes a step after  *)
(* two clocks of phasestep.                                                *)

PllReset ==
    /\ fsm.pll_reset_req /\ pll.locked
    /\ pll' = [phase |-> 0, locked |-> FALSE, phasedone |-> TRUE]
    /\ UNCHANGED <<fsm, ps, cmp, host, sync, eye, starts, intact, from>>

PllLock ==
    /\ ~fsm.pll_reset_req /\ ~pll.locked
    /\ pll' = [pll EXCEPT !.locked = TRUE]
    /\ UNCHANGED <<fsm, ps, cmp, host, sync, eye, starts, intact, from>>

PllStep ==
    /\ PllPhasestep /\ ps.wait_cnt >= 1 /\ pll.phasedone
    /\ pll' = [pll EXCEPT !.phasedone = FALSE,
                          !.phase = @ + (IF ps.updown_reg THEN 1 ELSE -1)]
    /\ UNCHANGED <<fsm, ps, cmp, host, sync, eye, starts, intact, from>>

PllStepped ==
    /\ ~pll.phasedone /\ ~PllPhasestep
    /\ pll' = [pll EXCEPT !.phasedone = TRUE]
    /\ UNCHANGED <<fsm, ps, cmp, host, sync, eye, starts, intact, from>>

-----------------------------------------------------------------------------
(* The host.                                                               *)

AllIdle == fsm.state = "idle" /\ ps.state = "idle" /\ ~ps.busy /\ ~fsm.ps_ctrl_busy_reg

\* The request is low for long enough to be seen, as SPI writes are slow.
Start ==
    /\ ~host.ps_en /\ ~fsm.ps_en_reg /\ starts < MAX_STARTS
    /\ GIVES_UP \/ AllIdle
    /\ \E mode \in MODES, up \in UPDOWNS, step \in STEP_SIZES :
          host' = [ps_en |-> TRUE, ps_mode |-> mode, ps_updwn |-> up,
                   ps_phase |-> step, ps_step_size |-> step]
    /\ starts' = starts + 1
    /\ intact' = AllIdle /\ from' = pll.phase
    /\ UNCHANGED <<fsm, ps, cmp, sync, pll, eye>>

Drop ==
    /\ host.ps_en
    /\ GIVES_UP \/ PsDone(host)
    /\ host' = [host EXCEPT !.ps_en = FALSE]
    /\ UNCHANGED <<fsm, ps, cmp, sync, pll, eye, starts, intact, from>>

Next == \/ ScanClock \/ RxClock
        \/ PllReset \/ PllLock \/ PllStep \/ PllStepped
        \/ Start \/ Drop

Spec == Init /\ [][Next]_vars

\* The clocks run, and the PLL does what it is asked to.
FairSpec == Spec /\ WF_vars(ScanClock) /\ WF_vars(RxClock)
                 /\ WF_vars(PllReset) /\ WF_vars(PllLock)
                 /\ WF_vars(PllStep) /\ WF_vars(PllStepped)

-----------------------------------------------------------------------------
(* The reference: what the search is to find.                              *)

\* Phases the search compares, those where it may find the minimum, and
\* those that end the eye.
Compared == {p \in 0 .. PHASE_RANGE - 2 : p % host.ps_step_size = 0}
Good == {p \in Compared : p > 2 /\ p \in eye}
Bad == {p \in Compared : p > Min(Good) /\ p \notin eye}

Middle == LET last == Min(Bad) - host.ps_step_size
          IN Min(Good) + ((last - Min(Good)) \div 2)

Signed(n) == IF host.ps_updwn THEN n ELSE -n

-----------------------------------------------------------------------------
(* Properties.                                                             *)

\* Success is reported only of a phase at which the interface works, even if
\* the host gave up an earlier search that was still running, and even if
\* steps of the shift were lost (ps_done, ps_status of pll_ps_fsm).
SuccessIsInEye ==
    (host.ps_en /\ AutoMode(host) /\ PsDone(host) /\ ~PsStatus(host, ps.busy)) => InEye

\* A search that saw both edges of the eye succeeds, and leaves the PLL in
\* the middle of them (the registers of the final phase in pll_ps_fsm).
MiddleFound ==
    (intact /\ host.ps_en /\ AutoMode(host) /\ PsDone(host) /\ Good # {} /\ Bad # {})
        => ~PsStatus(host, ps.busy) /\ pll.phase = Signed(Middle)

\* Whenever samples are compared during the search for the edges, step_cnt
\* is the phase of the PLL: no step was lost or made twice.
CountIsPhase ==
    (intact /\ fsm.state = "cmp_smpls" /\ fsm.find_max)
        => pll.phase = Signed(fsm.step_cnt)

\* A manual shift that is reported as done moved the phase by what the host
\* asked for, in its direction.
ManualShift ==
    (intact /\ host.ps_en /\ ~AutoMode(host) /\ PsDone(host))
        => pll.phase = from + Signed(host.ps_phase)

\* The steps the PLL makes are the steps that are counted, in a search, at its
\* end and in a manual shift (pll_ps_fsm, pll_ps).
PhasesAreExact == MiddleFound /\ CountIsPhase /\ ManualShift

\* The phase never moves while samples are compared.
StillWhileComparing == [][cmp.state = "compare" => pll'.phase = pll.phase]_vars

\* The last request of the host, if kept up, is answered in the end, also when
\* it came in the middle of a search the host gave up.
Answered == (starts = MAX_STARTS) ~> (PsDone(host) \/ ~host.ps_en)
=============================================================================
