----------------------------- MODULE OnePctFifo -----------------------------
(***************************************************************************)
(* one_pct_fifo and pct_separate_fsm (src/src/tx_path_top/pct_separate):   *)
(* the packet FIFO in front of the TX packet buffers.  pct_separate_fsm    *)
(* cuts one packet out of the word stream of the host and writes it to the *)
(* data FIFO inst1 and its header also to the header FIFO inst2; the read  *)
(* side learns the size from the header and offers the packet once that    *)
(* many words can be read.                                                 *)
(*                                                                         *)
(* OnePctClock is one rising edge of clk, which is also pct_rdclk          *)
(* (tx_path_top connects pct_wrclk to both).  Its parameters are the input *)
(* ports pct_data_rdreq and pct_aclr_n and the word infifo_data that the   *)
(* input FIFO has on its output.  Words are <<packet, k>>, k = 0 the       *)
(* header word.                                                            *)
(***************************************************************************)
EXTENDS TxBuffers, DcFifo

VARIABLES
    (* pct_separate_fsm *)
    sep_state,              \* current_state
    infifo_rdempty,         \* input port: the FIFO of the host has no word
    infifo_data_valid,      \* the same register as pct_wrreq
    sep_rd_cnt, sep_wr_cnt, sep_rd_cnt_max,
    pct_header,             \* header_0 and header_1
    pct_header_valid_wr,    \* header_valid_reg: write request to inst2
    (* inst1: unread words, and the pointers under way to the other side *)
    inst1, inst1_arriving, inst1_leaving, inst1_q,
    (* inst2 *)
    inst2, inst2_arriving, inst2_q,
    (* one_pct_fifo *)
    inst1_reset_sync,       \* sync_reg0
    pct_header_valid,
    pct_words,
    pct_rdy

sepVars == <<sep_state, infifo_data_valid, sep_rd_cnt, sep_wr_cnt,
             sep_rd_cnt_max, pct_header, pct_header_valid_wr>>
fifoVars == <<inst1, inst1_arriving, inst1_leaving, inst1_q,
              inst2, inst2_arriving, inst2_q>>
onePctVars == <<sepVars, fifoVars, inst1_reset_sync, pct_header_valid,
                pct_words, pct_rdy>>

ALL_ONES == 65535           \* (others => '1') of the 16-bit counters

OnePctInit ==
    /\ sep_state = "idle" /\ infifo_data_valid = FALSE
    /\ sep_rd_cnt = 0 /\ sep_wr_cnt = 0 /\ sep_rd_cnt_max = 0
    /\ pct_header = NoPacket /\ pct_header_valid_wr = FALSE
    /\ inst1 = <<>> /\ inst1_arriving = Nothing /\ inst1_leaving = Nothing
    /\ inst1_q = <<NoPacket, 0>>
    /\ inst2 = <<>> /\ inst2_arriving = Nothing /\ inst2_q = NoPacket
    /\ inst1_reset_sync = <<TRUE, TRUE>>
    /\ pct_header_valid = FALSE /\ pct_words = ALL_ONES /\ pct_rdy = FALSE

-----------------------------------------------------------------------------
(* The reset of both FIFOs: asynchronous with pct_aclr_n, released through *)
(* the two flip-flops of sync_reg0.                                        *)

Clearing(pct_aclr_n) == ~pct_aclr_n \/ ~inst1_reset_sync[2]

ResetClock(pct_aclr_n) ==
    inst1_reset_sync' = IF pct_aclr_n THEN <<TRUE, inst1_reset_sync[1]>>
                                      ELSE <<FALSE, FALSE>>

\* What the ports of the FIFOs show; in reset they are empty at once.
inst1_rdusedw(pct_aclr_n) ==
    IF Clearing(pct_aclr_n) THEN 0 ELSE Len(inst1) - InFlight(inst1_arriving)
inst1_wrempty(pct_aclr_n) ==
    Clearing(pct_aclr_n) \/ (inst1 = <<>> /\ InFlight(inst1_leaving) = 0)
inst2_rdreq(pct_aclr_n) ==
    ~Clearing(pct_aclr_n) /\ Len(inst2) > InFlight(inst2_arriving)

-----------------------------------------------------------------------------
(* pct_separate_fsm.                                                       *)

infifo_rdreq == sep_state = "rd_pct" /\ ~infifo_rdempty

SepIdle(pct_wrempty) ==
    /\ sep_state = "idle"
    /\ sep_state' = IF ~infifo_rdempty /\ pct_wrempty THEN "rd_pct" ELSE "idle"

\* Fault: the last word is counted although the input FIFO has none.
SepRdPct_EndsEarly ==
    /\ sep_state = "rd_pct"
    /\ sep_state' = IF sep_rd_cnt < (sep_rd_cnt_max - 1) % 65536
                    THEN "rd_pct" ELSE "rd_done"

SepRdPct ==
    /\ sep_state = "rd_pct"
    /\ LET last == (sep_rd_cnt_max - 1) % 65536
       IN sep_state' = IF \/ sep_rd_cnt < last
                          \/ sep_rd_cnt = last /\ infifo_rdempty
                       THEN "rd_pct" ELSE "rd_done"

\* Fault: the FSM goes on without waiting for the packet to be taken.
SepRdDone_NoWait(pct_wrempty) ==
    /\ sep_state = "rd_done"
    /\ sep_state' = "idle"

SepRdDone(pct_wrempty) ==
    /\ sep_state = "rd_done"
    /\ sep_state' = IF pct_wrempty THEN "idle" ELSE "rd_done"

HeaderWord == sep_wr_cnt = 0 /\ infifo_data_valid

SepCounters(infifo_data) ==
    /\ infifo_data_valid' = infifo_rdreq
    /\ sep_rd_cnt' = IF sep_state = "idle" THEN 0
                     ELSE IF infifo_rdreq THEN sep_rd_cnt + 1 ELSE sep_rd_cnt
    /\ sep_wr_cnt' = IF sep_state = "idle" THEN 0
                     ELSE IF infifo_data_valid THEN sep_wr_cnt + 1 ELSE sep_wr_cnt
    /\ sep_rd_cnt_max' = IF sep_state = "idle" THEN ALL_ONES
                         ELSE IF HeaderWord THEN PctWords(infifo_data[1])
                         ELSE sep_rd_cnt_max
    /\ pct_header' = IF HeaderWord THEN infifo_data[1] ELSE pct_header
    /\ pct_header_valid_wr' = HeaderWord

SepClock(infifo_data, pct_wrempty) ==
    /\ SepIdle(pct_wrempty) \/ SepRdPct \/ SepRdDone(pct_wrempty)
    /\ SepCounters(infifo_data)

-----------------------------------------------------------------------------
(* The FIFOs.  A request on an empty FIFO and a write in reset are lost.   *)

inst1_pop(pct_data_rdreq, pct_aclr_n) ==
    pct_data_rdreq /\ inst1_rdusedw(pct_aclr_n) > 0

FifoClock(infifo_data, pct_data_rdreq, pct_aclr_n) ==
    LET pop == inst1_pop(pct_data_rdreq, pct_aclr_n)
        hdr_pop == inst2_rdreq(pct_aclr_n)
    IN /\ inst1_q' = IF pop THEN Head(inst1) ELSE inst1_q
       /\ inst2_q' = IF hdr_pop THEN Head(inst2) ELSE inst2_q
       /\ IF Clearing(pct_aclr_n)
          THEN /\ inst1' = <<>> /\ inst2' = <<>>
               /\ inst1_arriving' = Nothing /\ inst1_leaving' = Nothing
               /\ inst2_arriving' = Nothing
          ELSE /\ inst1' = (IF pop THEN Tail(inst1) ELSE inst1)
                           \o (IF infifo_data_valid THEN <<infifo_data>> ELSE <<>>)
               /\ inst2' = (IF hdr_pop THEN Tail(inst2) ELSE inst2)
                           \o (IF pct_header_valid_wr THEN <<pct_header>> ELSE <<>>)
               /\ inst1_arriving' = Shift(inst1_arriving, infifo_data_valid)
               /\ inst1_leaving' = Shift(inst1_leaving, pop)
               /\ inst2_arriving' = Shift(inst2_arriving, pct_header_valid_wr)

-----------------------------------------------------------------------------
(* The read side of one_pct_fifo.                                          *)

\* Fault: the size of the packet before stays while the words are read.
PctWordsClock_Kept(pct_data_rdreq, pct_aclr_n) ==
    pct_words' = IF pct_header_valid THEN PctWords(inst2_q) ELSE pct_words

\* pct_words_proc
PctWordsClock(pct_data_rdreq, pct_aclr_n) ==
    pct_words' = IF pct_data_rdreq \/ inst1_rdusedw(pct_aclr_n) = 0 THEN ALL_ONES
                 ELSE IF pct_header_valid THEN PctWords(inst2_q)
                 ELSE pct_words

ReadClock(pct_data_rdreq, pct_aclr_n) ==
    /\ pct_header_valid' = inst2_rdreq(pct_aclr_n)
    /\ PctWordsClock(pct_data_rdreq, pct_aclr_n)
    /\ pct_rdy' = (inst1_rdusedw(pct_aclr_n) = pct_words)

OnePctClock(infifo_data, pct_data_rdreq, pct_aclr_n) ==
    /\ SepClock(infifo_data, inst1_wrempty(pct_aclr_n))
    /\ FifoClock(infifo_data, pct_data_rdreq, pct_aclr_n)
    /\ ReadClock(pct_data_rdreq, pct_aclr_n)
    /\ ResetClock(pct_aclr_n)
=============================================================================
