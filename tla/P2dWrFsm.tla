------------------------------ MODULE P2dWrFsm ------------------------------
(***************************************************************************)
(* p2d_wr_fsm (src/src/tx_path_top/packets2data/synth/p2d_wr_fsm.vhd): the *)
(* write side of the TX packet buffers.  It takes the packet that          *)
(* one_pct_fifo holds, reads its header word, compares the sample number   *)
(* of the header with the running sample counter, and either has the       *)
(* packet cleared (it came too late) or copies its payload into the        *)
(* current buffer of a ring of BUFF_COUNT dual-clock FIFOs.                *)
(*                                                                         *)
(* The entity is modelled register by register: WrClock is one rising edge *)
(* of clk, its parameters are the entity's input ports, and each variable  *)
(* is the register of the same name.  Registers of the same name in        *)
(* p2d_rd have the prefix rd_, those of this entity the prefix wr_.        *)
(*                                                                         *)
(* The words of a packet are 128 bits wide here: <<packet, k>>, where     *)
(* k = 0 is the header word and k > 0 the payload.                         *)
(***************************************************************************)
EXTENDS TxBuffers

VARIABLES
    wr_state,               \* current_state
    current_buff_cnt,       \* buffer being written
    next_buff_cnt,          \* buffer after it, switched before the payload is read
    current_buff_rdy,       \* registered pct_buff_rdy(current_buff_cnt)
    next_buff_rdy,          \* registered pct_buff_rdy(next_buff_cnt)
    wr_rd_cnt,              \* rd_cnt: words requested from the packet FIFO
    wr_rd_cnt_max,          \* rd_cnt_max: words to request
    pipe_cnt,               \* clocks waited for the comparator
    in_pct_rdreq,           \* in_pct_rdreq_int
    in_pct_data_valid,
    pct_data_wrreq_cnt,     \* words received
    in_pct_reset_n_req,     \* FALSE for one clock: clear the packet FIFO
    pct_hdr,                \* pct_hdr_0_reg and pct_hdr_1_reg
    pct_hdr_valid,          \* one-hot pct_hdr_0_valid = pct_hdr_1_valid, as a set
    pct_data,
    pct_data_wrreq,         \* one-hot write request to the buffers, as a set
    wr_smpl_nr_less         \* pipeline of the comparator hdr.nr < sample_nr

wrVars == <<wr_state, current_buff_cnt, next_buff_cnt, current_buff_rdy,
            next_buff_rdy, wr_rd_cnt, wr_rd_cnt_max, pipe_cnt, in_pct_rdreq,
            in_pct_data_valid, pct_data_wrreq_cnt, in_pct_reset_n_req, pct_hdr,
            pct_hdr_valid, pct_data, pct_data_wrreq, wr_smpl_nr_less>>

WrStates == {"idle", "rd_hdr", "wait_cmpr_pipe", "check_smpl_nr", "clr_fifo",
             "switch_next_buff", "rd_pct", "wait_wr_end", "check_next_buf",
             "switch_current_buff"}

WrInit ==
    /\ wr_state = "idle"
    /\ current_buff_cnt = 0 /\ next_buff_cnt = 0
    /\ current_buff_rdy = FALSE /\ next_buff_rdy = FALSE
    /\ wr_rd_cnt = 0 /\ wr_rd_cnt_max = 0 /\ pipe_cnt = 0
    /\ in_pct_rdreq = FALSE /\ in_pct_data_valid = FALSE
    /\ pct_data_wrreq_cnt = 0
    /\ in_pct_reset_n_req = TRUE
    /\ pct_hdr = NoPacket /\ pct_hdr_valid = {}
    /\ pct_data = <<NoPacket, 0>> /\ pct_data_wrreq = {}
    /\ wr_smpl_nr_less = EmptyPipe

-----------------------------------------------------------------------------
(* The state machine (process fsm), one operator per state.                *)

WrIdle(in_pct_rdy) ==
    /\ wr_state = "idle"
    /\ wr_state' = IF in_pct_rdy THEN "rd_hdr" ELSE "idle"

WrRdHdr ==
    /\ wr_state = "rd_hdr"
    /\ wr_state' = "wait_cmpr_pipe"

\* Fault: the comparator is read one clock too early.
WrWaitCmprPipe_Early ==
    /\ wr_state = "wait_cmpr_pipe"
    /\ wr_state' = IF pipe_cnt > 2 THEN "check_smpl_nr" ELSE "wait_cmpr_pipe"

WrWaitCmprPipe ==
    /\ wr_state = "wait_cmpr_pipe"
    /\ wr_state' = IF pipe_cnt > 3 THEN "check_smpl_nr" ELSE "wait_cmpr_pipe"

\* The packet is late and neither it nor the port disables synchronisation.
WrLate(pct_sync_dis) == PipeOut(wr_smpl_nr_less) /\ ~pct_hdr.dis /\ ~pct_sync_dis

WrCheckSmplNr(pct_sync_dis) ==
    /\ wr_state = "check_smpl_nr"
    /\ \/ WrLate(pct_sync_dis) /\ wr_state' = "clr_fifo"
       \/ /\ ~WrLate(pct_sync_dis)
          /\ wr_state' = IF current_buff_rdy THEN "switch_next_buff"
                                             ELSE "check_smpl_nr"

WrClrFifo ==
    /\ wr_state = "clr_fifo"
    /\ wr_state' = "idle"

WrSwitchNextBuff ==
    /\ wr_state = "switch_next_buff"
    /\ wr_state' = "rd_pct"

WrRdPct ==
    /\ wr_state = "rd_pct"
    /\ wr_state' = IF wr_rd_cnt < wr_rd_cnt_max - 1 THEN "rd_pct"
                                                     ELSE "wait_wr_end"

WrWaitWrEnd ==
    /\ wr_state = "wait_wr_end"
    /\ wr_state' = IF in_pct_data_valid THEN "wait_wr_end" ELSE "check_next_buf"

\* Fault: the next buffer is taken whether it is empty or not.
WrCheckNextBuf_NoWait ==
    /\ wr_state = "check_next_buf"
    /\ wr_state' = "switch_current_buff"

WrCheckNextBuf ==
    /\ wr_state = "check_next_buf"
    /\ wr_state' = IF next_buff_rdy THEN "switch_current_buff"
                                    ELSE "check_next_buf"

WrSwitchCurrentBuff ==
    /\ wr_state = "switch_current_buff"
    /\ wr_state' = "idle"

WrFsm(in_pct_rdy, pct_sync_dis) ==
    \/ WrIdle(in_pct_rdy)
    \/ WrRdHdr
    \/ WrWaitCmprPipe
    \/ WrCheckSmplNr(pct_sync_dis)
    \/ WrClrFifo
    \/ WrSwitchNextBuff
    \/ WrRdPct
    \/ WrWaitWrEnd
    \/ WrCheckNextBuf
    \/ WrSwitchCurrentBuff

-----------------------------------------------------------------------------
(* The registers beside the state machine; every right-hand side reads the *)
(* values before the clock edge.                                           *)

\* next_buff_sel_proc and current_buff_sel_proc; pct_buff_rdy is wrempty of
\* the buffers.
WrBuffSel(pct_buff_rdy) ==
    /\ next_buff_cnt' = IF wr_state = "switch_next_buff"
                        THEN NextBuffer(next_buff_cnt) ELSE next_buff_cnt
    /\ next_buff_rdy' = pct_buff_rdy[next_buff_cnt]
    /\ current_buff_cnt' = IF wr_state = "check_next_buf"
                           THEN next_buff_cnt ELSE current_buff_cnt
    /\ current_buff_rdy' = pct_buff_rdy[current_buff_cnt]

\* rdcnt_proc
WrCounters ==
    /\ wr_rd_cnt' = CASE wr_state \in {"rd_pct", "rd_hdr"} -> wr_rd_cnt + 1
                      [] wr_state = "idle" -> 0
                      [] OTHER -> wr_rd_cnt
    /\ pipe_cnt' = IF wr_state = "wait_cmpr_pipe" THEN pipe_cnt + 1 ELSE 0

\* Write request process and the requests of out_reg to the packet FIFO.
WrRequests ==
    /\ in_pct_rdreq' = (wr_state \in {"rd_pct", "rd_hdr"})
    /\ in_pct_reset_n_req' = (wr_state # "clr_fifo")
    /\ in_pct_data_valid' = in_pct_rdreq
    /\ pct_data_wrreq_cnt' = IF in_pct_data_valid THEN pct_data_wrreq_cnt + 1
                             ELSE IF wr_state = "idle" THEN 0
                             ELSE pct_data_wrreq_cnt

HeaderArrives == in_pct_data_valid /\ pct_data_wrreq_cnt = 0
PayloadArrives == in_pct_data_valid /\ pct_data_wrreq_cnt > 0

\* out_reg: the first word of a packet goes to the header registers, the
\* others to the current buffer.
WrOutReg(in_pct_data) ==
    /\ IF HeaderArrives
       THEN /\ pct_hdr' = in_pct_data[1]
            /\ wr_rd_cnt_max' = PctWords(in_pct_data[1])
            /\ pct_hdr_valid' = {current_buff_cnt}
       ELSE /\ UNCHANGED <<pct_hdr, wr_rd_cnt_max>>
            /\ pct_hdr_valid' = {}
    /\ IF PayloadArrives
       THEN /\ pct_data' = in_pct_data
            /\ pct_data_wrreq' = {current_buff_cnt}
       ELSE /\ UNCHANGED pct_data
            /\ pct_data_wrreq' = {}

\* LPM_COMPARE_component
WrCompare(sample_nr) ==
    wr_smpl_nr_less' = PipeIn(wr_smpl_nr_less, pct_hdr.nr < sample_nr)

WrClock(in_pct_rdy, in_pct_data, sample_nr, pct_sync_dis, pct_buff_rdy) ==
    /\ WrFsm(in_pct_rdy, pct_sync_dis)
    /\ WrBuffSel(pct_buff_rdy)
    /\ WrCounters
    /\ WrRequests
    /\ WrOutReg(in_pct_data)
    /\ WrCompare(sample_nr)
=============================================================================
