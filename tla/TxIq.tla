-------------------------------- MODULE TxIq --------------------------------
(***************************************************************************)
(* fifo2diq with txiq and txiq_ctrl (src/src/tx_path_top/fifo2diq/synth):  *)
(* takes 64-bit words of four samples out of the sample FIFO and puts them *)
(* on the DIQ bus, in up to four clocks; when the FIFO is empty it sends   *)
(* zeros.  In the mode of external pulses a burst of pct_sync_size words   *)
(* is sent after each pulse; txant_en is to be up around the samples.      *)
(*                                                                         *)
(* The shift registers diq_L_reg and diq_H_reg are the word they were      *)
(* loaded with and the number of shifts since.                             *)
(***************************************************************************)
EXTENDS TxRegs

VARIABLES
    txiq_state,             \* current_state of txiq
    rd_wait_cnt,
    int_fifo_q_valid,
    zero_valid,
    txiq_txant_en,          \* txant_en of txiq
    diq_word, diq_pos,      \* the word in the shift registers, and its shifts
    ctrl_state,             \* current_state of txiq_ctrl
    burst_cnt,              \* cnt
    txant_en_wait_cnt, txant_dis_wait_cnt,
    txant_en_reg,
    txant_en_mux

iqVars == <<txiq_state, rd_wait_cnt, int_fifo_q_valid, zero_valid,
            txiq_txant_en, diq_word, diq_pos, ctrl_state, burst_cnt,
            txant_en_wait_cnt, txant_dis_wait_cnt, txant_en_reg, txant_en_mux>>

Zeros == <<>>

\* Samples of the word on the bus at each position of the shift registers.
Position(p) ==
    LET row == CASE regs.int_mode = "00" -> << {0, 1}, {2, 3}, {}, {}, {} >>
                 [] regs.int_mode = "01" -> << {0, 1}, {}, {2, 3}, {}, {} >>
                 [] regs.int_mode = "10" -> << {}, {0, 1}, {}, {2, 3}, {} >>
                 [] regs.int_mode = "11" -> << {0}, {1}, {2}, {3}, {} >>
    IN row[p + 1]

IqInit ==
    /\ txiq_state = "idle" /\ rd_wait_cnt = 0
    /\ int_fifo_q_valid = FALSE /\ zero_valid = FALSE /\ txiq_txant_en = FALSE
    /\ diq_word = Zeros /\ diq_pos = 4
    /\ ctrl_state = "idle" /\ burst_cnt = 0
    /\ txant_en_wait_cnt = 0 /\ txant_dis_wait_cnt = 0
    /\ txant_en_reg = FALSE /\ txant_en_mux = FALSE

-----------------------------------------------------------------------------
(* txiq.                                                                   *)

\* Fault: the enable goes through a register and falls a clock late.
TxiqEn_Late == ~regs.sync_mode \/ ctrl_state = "rd_samples"
               \/ (ctrl_state = "txant_dis_wait" /\ txant_dis_wait_cnt = regs.after)

\* txiq_en_mux
TxiqEn == ~regs.sync_mode \/ ctrl_state = "rd_samples"

\* Fault: the next word is read one clock early.
RdWaitMax_Short == IF regs.int_mode = "00" THEN 0 ELSE 1

RdWaitMax == IF regs.int_mode = "00" THEN 0 ELSE 2

\* Where txiq goes when it is free for the next word.
NextWord(fifo_rdempty) == IF ~TxiqEn THEN "idle"
                          ELSE IF fifo_rdempty THEN "zero_samples"
                          ELSE "rd_samples"

TxiqFsm(fifo_rdempty) ==
    \/ /\ txiq_state = "idle"
       /\ txiq_state' = NextWord(fifo_rdempty)
    \/ /\ txiq_state \in {"rd_samples", "zero_samples"}
       /\ txiq_state' = "wait_rd_cycles"
    \/ /\ txiq_state = "wait_rd_cycles"
       /\ txiq_state' = IF rd_wait_cnt = RdWaitMax THEN NextWord(fifo_rdempty)
                                                   ELSE "wait_rd_cycles"

FifoRdreq(fifo_rdempty) == txiq_state = "rd_samples" /\ ~fifo_rdempty

TxiqClock(fifo_rdempty, fifo_q) ==
    /\ TxiqFsm(fifo_rdempty)
    /\ rd_wait_cnt' = IF txiq_state = "wait_rd_cycles" THEN rd_wait_cnt + 1 ELSE 0
    /\ int_fifo_q_valid' = (txiq_state = "rd_samples")
    /\ zero_valid' = (txiq_state = "zero_samples")
    /\ txiq_txant_en' = (txiq_state # "idle")
    /\ diq_word' = IF int_fifo_q_valid THEN fifo_q
                   ELSE IF zero_valid \/ diq_pos = 3 THEN Zeros ELSE diq_word
    /\ diq_pos' = IF int_fifo_q_valid \/ zero_valid THEN 0
                  ELSE IF diq_pos < 4 THEN diq_pos + 1 ELSE 4

-----------------------------------------------------------------------------
(* txiq_ctrl.                                                              *)

\* The burst is counted in 16 bits.
LastOfBurst(fifo_rdempty) ==
    burst_cnt >= (regs.sync_size - 1) % 65536 /\ FifoRdreq(fifo_rdempty)

CtrlFsm(pct_buff_rdy, pct_sync_pulse, fifo_rdempty) ==
    \/ /\ ctrl_state = "idle"
       /\ ctrl_state' = IF pct_buff_rdy /\ pct_sync_pulse
                        THEN "txant_enable_wait" ELSE "idle"
    \/ /\ ctrl_state = "txant_enable_wait"
       /\ ctrl_state' = IF txant_en_wait_cnt = 0 THEN "rd_samples"
                                                 ELSE "txant_enable_wait"
    \/ /\ ctrl_state = "rd_samples"
       /\ ctrl_state' = IF LastOfBurst(fifo_rdempty) THEN "txant_dis_wait"
                                                     ELSE "rd_samples"
    \/ /\ ctrl_state = "txant_dis_wait"
       /\ ctrl_state' = IF txant_dis_wait_cnt = 0 THEN "idle" ELSE "txant_dis_wait"

\* Fault: the antenna is released as soon as the burst is read.
TxantReg_Early == txant_en_reg' = (ctrl_state \in {"txant_enable_wait", "rd_samples"})

TxantReg == txant_en_reg' = IF ctrl_state = "txant_enable_wait" THEN TRUE
                            ELSE IF ctrl_state = "idle" THEN FALSE
                            ELSE txant_en_reg

CtrlClock(pct_buff_rdy, pct_sync_pulse, fifo_rdempty) ==
    /\ CtrlFsm(pct_buff_rdy, pct_sync_pulse, fifo_rdempty)
    /\ burst_cnt' = IF ctrl_state # "rd_samples" THEN 0
                    ELSE IF FifoRdreq(fifo_rdempty) THEN burst_cnt + 1 ELSE burst_cnt
    /\ txant_en_wait_cnt' = IF ctrl_state = "txant_enable_wait"
                            THEN (txant_en_wait_cnt - 1) % 65536 ELSE regs.before
    /\ txant_dis_wait_cnt' = IF ctrl_state = "txant_dis_wait"
                             THEN (txant_dis_wait_cnt - 1) % 65536 ELSE regs.after
    /\ TxantReg
    /\ txant_en_mux' = IF regs.sync_mode THEN txant_en_reg ELSE txiq_txant_en

IqClock(pct_buff_rdy, pct_sync_pulse, fifo_rdempty, fifo_q) ==
    /\ TxiqClock(fifo_rdempty, fifo_q)
    /\ CtrlClock(pct_buff_rdy, pct_sync_pulse, fifo_rdempty)
=============================================================================
