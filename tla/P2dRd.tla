-------------------------------- MODULE P2dRd --------------------------------
(***************************************************************************)
(* p2d_rd (src/src/tx_path_top/packets2data/synth/p2d_rd.vhd): the read    *)
(* side of the TX packet buffers.  It walks the ring of buffers, waits     *)
(* until the buffer it stands at holds a whole packet, and then reads it   *)
(* out when its sample number is reached (or at once if synchronisation is *)
(* disabled), or clears the buffer when the sample number has passed.      *)
(*                                                                         *)
(* RdClock is one rising edge of clk; its parameters are the input ports.  *)
(* The header registers hold a packet record.                              *)
(***************************************************************************)
EXTENDS TxBuffers

VARIABLES
    rd_state,               \* current_state
    pct_hdr_array,          \* pct_hdr_0_array and pct_hdr_1_array, per buffer
    rd_smpl_nr_equal,       \* comparator pipelines, per buffer
    rd_smpl_nr_less,
    crnt_buff_cnt,          \* buffer being read
    crnt_buff_rdy,          \* the registered multiplexers of crnt_buff_sel_proc
    crnt_buff_pct_synch_dis,
    crnt_buff_pct_smpl_nr_equal,
    crnt_buff_pct_smpl_nr_less,
    crnt_buff_payload_size,
    rd_cnt,                 \* words requested from the buffer
    rd_cnt_max

rdVars == <<rd_state, pct_hdr_array, rd_smpl_nr_equal, rd_smpl_nr_less,
            crnt_buff_cnt, crnt_buff_rdy, crnt_buff_pct_synch_dis,
            crnt_buff_pct_smpl_nr_equal, crnt_buff_pct_smpl_nr_less,
            crnt_buff_payload_size, rd_cnt, rd_cnt_max>>

RdStates == {"idle", "switch_next_buff", "check_next_buf", "rd_buff",
             "rd_hold", "clr_buff"}

RdInit ==
    /\ rd_state = "idle"
    /\ pct_hdr_array = [i \in Buffers |-> NoPacket]
    /\ rd_smpl_nr_equal = [i \in Buffers |-> EmptyPipe]
    /\ rd_smpl_nr_less = [i \in Buffers |-> EmptyPipe]
    /\ crnt_buff_cnt = 0
    /\ crnt_buff_rdy = FALSE
    /\ crnt_buff_pct_synch_dis = FALSE
    /\ crnt_buff_pct_smpl_nr_equal = FALSE
    /\ crnt_buff_pct_smpl_nr_less = FALSE
    /\ crnt_buff_payload_size = 0
    /\ rd_cnt = 0 /\ rd_cnt_max = 0

-----------------------------------------------------------------------------
(* Combinational outputs.                                                  *)

\* Fault: a request goes out in the clock in which the sample FIFO is full.
RdReq_Ungated(almost_full) == rd_state = "rd_buff"

\* rd_req_int
RdReq(almost_full) == rd_state = "rd_buff" /\ ~almost_full

\* The buffer that pct_buff_clr_n resets in this clock, as a set.
RdClearing == IF rd_state = "clr_buff" THEN {crnt_buff_cnt} ELSE {}

-----------------------------------------------------------------------------
(* The state machine (process fsm), one operator per state.                *)

RdSynchOff(synch_dis) == synch_dis \/ crnt_buff_pct_synch_dis

\* Fault: reading starts before the buffer holds the whole packet.
RdIdle_NotReady(synch_dis) ==
    /\ rd_state = "idle"
    /\ \/ /\ RdSynchOff(synch_dis) \/ crnt_buff_pct_smpl_nr_equal
          /\ rd_state' = "rd_buff"
       \/ /\ ~RdSynchOff(synch_dis) /\ ~crnt_buff_pct_smpl_nr_equal
          /\ rd_state' = IF crnt_buff_pct_smpl_nr_less THEN "clr_buff" ELSE "idle"

\* Fault: a packet whose sample number has passed is sent late.
RdIdle_SendsLate(synch_dis) ==
    /\ rd_state = "idle"
    /\ \/ /\ crnt_buff_rdy
          /\ RdSynchOff(synch_dis) \/ crnt_buff_pct_smpl_nr_equal
             \/ crnt_buff_pct_smpl_nr_less
          /\ rd_state' = "rd_buff"
       \/ /\ ~crnt_buff_rdy
          /\ rd_state' = "idle"
       \/ /\ crnt_buff_rdy
          /\ ~RdSynchOff(synch_dis) /\ ~crnt_buff_pct_smpl_nr_equal
          /\ ~crnt_buff_pct_smpl_nr_less
          /\ rd_state' = "idle"

RdIdle(synch_dis) ==
    /\ rd_state = "idle"
    /\ \/ /\ crnt_buff_rdy
          /\ RdSynchOff(synch_dis) \/ crnt_buff_pct_smpl_nr_equal
          /\ rd_state' = "rd_buff"
       \/ /\ crnt_buff_rdy
          /\ ~RdSynchOff(synch_dis) /\ ~crnt_buff_pct_smpl_nr_equal
          /\ rd_state' = IF crnt_buff_pct_smpl_nr_less THEN "clr_buff" ELSE "idle"
       \/ ~crnt_buff_rdy /\ rd_state' = "idle"

\* Fault: the read side stays at the buffer it has cleared.
RdClrBuff_NoSwitch ==
    /\ rd_state = "clr_buff"
    /\ rd_state' = "idle"

RdClrBuff ==
    /\ rd_state = "clr_buff"
    /\ rd_state' = "switch_next_buff"

\* rd_cnt_max is 16 bits wide: its predecessor at 0 is the largest count.
RdBuff(almost_full) ==
    /\ rd_state = "rd_buff"
    /\ \/ almost_full /\ rd_state' = "rd_hold"
       \/ /\ ~almost_full
          /\ rd_state' = IF rd_cnt < (rd_cnt_max - 1) % 65536
                         THEN "rd_buff" ELSE "switch_next_buff"

RdHold(almost_full) ==
    /\ rd_state = "rd_hold"
    /\ rd_state' = IF almost_full THEN "rd_hold" ELSE "rd_buff"

RdSwitchNextBuff ==
    /\ rd_state = "switch_next_buff"
    /\ rd_state' = "check_next_buf"

RdCheckNextBuf ==
    /\ rd_state = "check_next_buf"
    /\ rd_state' = "idle"

RdFsm(synch_dis, almost_full) ==
    \/ RdIdle(synch_dis)
    \/ RdClrBuff
    \/ RdBuff(almost_full)
    \/ RdHold(almost_full)
    \/ RdSwitchNextBuff
    \/ RdCheckNextBuf

-----------------------------------------------------------------------------
(* The registers beside the state machine.                                 *)

\* The pct_hdr_0 and pct_hdr_1 capture registers.
RdHeaderCapture(hdr, hdr_valid) ==
    pct_hdr_array' = [i \in Buffers |-> IF i \in hdr_valid THEN hdr
                                                           ELSE pct_hdr_array[i]]

\* gen_lpm_compare
RdCompare(sample_nr) ==
    /\ rd_smpl_nr_equal' = [i \in Buffers |->
           PipeIn(rd_smpl_nr_equal[i], pct_hdr_array[i].nr = sample_nr)]
    /\ rd_smpl_nr_less' = [i \in Buffers |->
           PipeIn(rd_smpl_nr_less[i], pct_hdr_array[i].nr < sample_nr)]

\* crnt_buff_sel_proc
RdBuffSel(pct_buff_rdy) ==
    /\ crnt_buff_cnt' = IF rd_state = "switch_next_buff"
                        THEN NextBuffer(crnt_buff_cnt) ELSE crnt_buff_cnt
    /\ crnt_buff_rdy' = pct_buff_rdy[crnt_buff_cnt]
    /\ crnt_buff_pct_synch_dis' = pct_hdr_array[crnt_buff_cnt].dis
    /\ crnt_buff_pct_smpl_nr_equal' = PipeOut(rd_smpl_nr_equal[crnt_buff_cnt])
    /\ crnt_buff_pct_smpl_nr_less' = PipeOut(rd_smpl_nr_less[crnt_buff_cnt])
    /\ crnt_buff_payload_size' = pct_hdr_array[crnt_buff_cnt].size

\* rd_cnt_proc
RdCounters(almost_full) ==
    /\ rd_cnt' = CASE rd_state = "idle" -> 0
                   [] RdReq(almost_full) -> rd_cnt + 1
                   [] OTHER -> rd_cnt
    /\ rd_cnt_max' = PayloadWords(crnt_buff_payload_size)

RdClock(hdr, hdr_valid, sample_nr, synch_dis, pct_buff_rdy, almost_full) ==
    /\ RdFsm(synch_dis, almost_full)
    /\ RdHeaderCapture(hdr, hdr_valid)
    /\ RdCompare(sample_nr)
    /\ RdBuffSel(pct_buff_rdy)
    /\ RdCounters(almost_full)
=============================================================================
