------------------------------ MODULE SmplCmp -------------------------------
(***************************************************************************)
(* smpl_cmp (src/src/rx_path_top/smpl_cmp/synth/smpl_cmp.vhd) as diq2fifo  *)
(* connects it, on the RX clock: it compares the samples with the pattern  *)
(* the transceiver sends and is in reset while its start is low.           *)
(*                                                                         *)
(* Of the samples only smpl_err is modelled, whether the comparison of a   *)
(* clock found a wrong bit.  The first SMPL_PIPE clocks out of reset it    *)
(* comes from registers that hold no sample yet.                           *)
(***************************************************************************)
EXTENDS Integers

CONSTANT CMP_LENGTH     \* cmp_length, words to compare

ASSUME CmpAssumption == CMP_LENGTH \in Nat \ {0}

VARIABLE cmp            \* the registers of smpl_cmp and its start synchronizer

SMPL_PIPE == 4          \* clocks from a sample register to smpl_err

CmpReset(start_sync) ==
    [start_sync |-> start_sync, start_reg |-> FALSE, state |-> "idle", age |-> 0,
     wait_cnt |-> 0, compare_cnt |-> 0, compare_stop |-> FALSE,
     done |-> FALSE, error |-> FALSE]

CmpInit == cmp = CmpReset(<<FALSE, FALSE>>)

\* The values smpl_err can have: a phase outside the eye shows at the latest
\* in the last compared word.
SmplErr(inEye) ==
    IF cmp.age < SMPL_PIPE THEN BOOLEAN
    ELSE IF inEye THEN {FALSE}
    ELSE IF cmp.compare_stop THEN {TRUE} ELSE BOOLEAN

CaptureDone == cmp.wait_cnt > 3

CmpNextState(smpl_err) ==
    CASE cmp.state = "idle" ->
            IF ~cmp.start_reg THEN "wait_cyc" ELSE "idle"
      [] cmp.state = "wait_cyc" ->
            IF CaptureDone THEN "compare" ELSE "wait_cyc"
      [] cmp.state = "compare" ->
            IF cmp.compare_stop \/ smpl_err THEN "compare_done" ELSE "compare"
      [] OTHER -> "idle"

\* Fault: an error of the last word, which also ends the comparison, is lost.
CmpError_NotLast(smpl_err) ==
    cmp.error \/ (smpl_err /\ cmp.state = "compare" /\ ~cmp.compare_stop)

CmpError(smpl_err) == cmp.error \/ (smpl_err /\ cmp.state = "compare")

\* A clock out of reset, where cmp_start is up.
CmpRun(start_sync, smpl_err) ==
    [start_sync   |-> start_sync,
     start_reg    |-> TRUE,
     state        |-> CmpNextState(smpl_err),
     age          |-> IF cmp.age < SMPL_PIPE THEN cmp.age + 1 ELSE cmp.age,
     wait_cnt     |-> IF cmp.state = "wait_cyc" THEN cmp.wait_cnt + 1 ELSE 0,
     compare_cnt  |-> IF cmp.state = "compare" THEN cmp.compare_cnt + 1 ELSE 0,
     compare_stop |-> cmp.compare_cnt > CMP_LENGTH - 1,
     done         |-> cmp.done \/ cmp.state = "compare_done",
     error        |-> CmpError(smpl_err)]

\* smpl_cmp_start_sync is the second of two registers; low, it holds the
\* comparator in reset, without waiting for a clock.
CmpClock(start, smpl_err) ==
    LET sync == <<start, cmp.start_sync[1]>>
    IN cmp' = IF cmp.start_sync[2] /\ sync[2] THEN CmpRun(sync, smpl_err)
              ELSE CmpReset(sync)
=============================================================================
