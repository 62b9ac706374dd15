----------------------------- MODULE RxPackets ------------------------------
(***************************************************************************)
(* Formation of RX packets (src/src/rx_path_top): samples wait in the      *)
(* sample FIFO, data2packets_fsm reads SMPL_RD_SIZE of them in a row,      *)
(* bit_pack packs them, data2packets puts the headers in front, and the    *)
(* words go to the packet FIFO, from which the host reads.  If the FIFO    *)
(* has no room for a whole packet when its reading starts, the packet is   *)
(* formed all the same and its write requests are gated off.               *)
(*                                                                         *)
(* The number in the header comes from a counter of the sample words read, *)
(* delayed by a chain of registers that has to match the latency of the    *)
(* path from the FIFO to the header register.                              *)
(*                                                                         *)
(* All of it runs on rx_clk: Clock is one rising edge.  Both FIFOs are     *)
(* dcfifo megafunctions.  A sample is in smpl_fifo once the read side sees *)
(* it, a word leaves pct_used once the write side sees that it was read;   *)
(* either side sees its own accesses in its word count one or two clocks   *)
(* later.  Samples are numbered by the sample word that carries them.      *)
(***************************************************************************)
EXTENDS Data2Packets

CONSTANTS
    PCT_DEPTH,      \* words of the packet FIFO
    SMPL_DEPTH,     \* words of the sample FIFO
    GAP_PACKED,     \* clocks between two sample words, 12 bits
    GAP_PLAIN,      \* the same, 16 bits
    MAX_SMPL        \* bound on the samples of a behaviour

ASSUME RxAssumption ==
    /\ (PCT_SIZE - 2) % 3 = 0
    /\ PCT_DEPTH \in Nat /\ PCT_DEPTH > PCT_SIZE
    /\ SMPL_DEPTH \in Nat /\ SMPL_DEPTH >= 4 * ((PCT_SIZE - 2) \div 3) + 3
    /\ {GAP_PACKED, GAP_PLAIN} \subseteq Nat \ {0} /\ MAX_SMPL \in Nat
    \* Reading keeps up: the samples of a packet take longer to arrive than the
    \* packet to be formed, 1360 or 1020 clocks against 691 or 518 in the code.
    /\ (GAP_PACKED - 1) * (4 * ((PCT_SIZE - 2) \div 3)) >= 11
    /\ (GAP_PLAIN - 1) * (PCT_SIZE - 2) >= 8

VARIABLES
    packed,         \* sample_width, a SPI register: TRUE is "10", 12-bit samples,
                    \* packed 48 to 64, FALSE is "00", 16 bits; not written
                    \* while RX runs
    (* the sample FIFO *)
    smpl_fifo, smpl_q,
    smpl_rdusedw,           \* its word count as the read side sees it
    written,                \* samples written so far
    since,                  \* clocks since the last one
    (* data2packets_fsm *)
    rx_state,
    pct_buff_wr_en,         \* pct_buff_wr_dis_sig, low active
    smpl_rd_cnt, smpl_rd_done,
    (* registers of data2packets_top *)
    smpl_rdusedw_reg, smpl_buff_rdy, pct_buff_rdy,
    data2packets_done, pct_hdr_cap, data_in_valid,
    pct_buff_wrreq, pct_buff_wrdata,
    (* bit_pack *)
    wr_cnt, data48_in_reg,
    pack_pipe,              \* its registers: words, or NoWord where not valid
    (* smpl_cnt and the delay chain of rx_path_top *)
    smpl_cnt, nr_chain,
    (* the packet FIFO *)
    pct_used, pct_wrusedw,
    (* history *)
    slot                    \* words formed so far, written or not

smplVars == <<smpl_fifo, smpl_q, smpl_rdusedw, written, since>>
fsmVars == <<rx_state, pct_buff_wr_en, smpl_rd_cnt, smpl_rd_done>>
topVars == <<smpl_rdusedw_reg, smpl_buff_rdy, pct_buff_rdy, data2packets_done,
             pct_hdr_cap, data_in_valid, pct_buff_wrreq, pct_buff_wrdata>>
packVars == <<wr_cnt, data48_in_reg, pack_pipe>>
cntVars == <<smpl_cnt, nr_chain>>
fifoVars == <<pct_used, pct_wrusedw>>
vars == <<packed, formVars, smplVars, fsmVars, topVars, packVars, cntVars, fifoVars, slot>>

\* Sample words read for a packet, 680 and 510 in the code.
SMPL_RD_SIZE == IF packed THEN 4 * ((PCT_SIZE - 2) \div 3) ELSE PCT_SIZE - 2

GAP == IF packed THEN GAP_PACKED ELSE GAP_PLAIN

RxStates == {"idle", "check_pct_buff", "rd_smpl_buff", "wait_data2packets_done"}

\* Register stages of bit_pack: word64_x, data64_out_reg and the multiplexer
\* registers for 12-bit samples, the last multiplexer register for 16-bit ones.
PACK_STAGES == IF packed THEN 4 ELSE 1

\* cnt_mux of smpl_cnt and the delay_chain of rx_path_top.
NR_STAGES_Short == 1 + 3
NR_STAGES == 1 + 6

NoSample == -1

Init ==
    /\ packed \in BOOLEAN
    /\ FormInit
    /\ smpl_fifo = <<>> /\ smpl_q = NoSample /\ smpl_rdusedw = 0
    /\ written = 0 /\ since = 0
    /\ rx_state = "idle" /\ pct_buff_wr_en = FALSE
    /\ smpl_rd_cnt = 0 /\ smpl_rd_done = FALSE
    /\ smpl_rdusedw_reg = 0 /\ smpl_buff_rdy = FALSE /\ pct_buff_rdy = FALSE
    /\ data2packets_done = FALSE /\ pct_hdr_cap = FALSE /\ data_in_valid = FALSE
    /\ pct_buff_wrreq = FALSE /\ pct_buff_wrdata = NoWord
    /\ wr_cnt = 0 /\ data48_in_reg = NoSample
    /\ pack_pipe = [i \in 1 .. PACK_STAGES |-> NoWord]
    /\ smpl_cnt = 0 /\ nr_chain = [i \in 1 .. NR_STAGES |-> 0]
    /\ pct_used = 0 /\ pct_wrusedw = 0
    /\ slot = 0

-----------------------------------------------------------------------------
(* data2packets_fsm.                                                       *)

SmplRdreq == rx_state = "rd_smpl_buff"

\* Captured once per packet.
WrEnable == pct_buff_wr_en' = IF rx_state = "check_pct_buff" THEN pct_buff_rdy
                                                            ELSE pct_buff_wr_en

RdCount ==
    /\ smpl_rd_cnt' = IF SmplRdreq THEN smpl_rd_cnt + 1 ELSE 0
    /\ smpl_rd_done' = (smpl_rd_cnt >= SMPL_RD_SIZE - 2)

WaitDone ==
    /\ rx_state = "wait_data2packets_done"
    /\ rx_state' = IF data2packets_done THEN "idle" ELSE "wait_data2packets_done"

RxFsm ==
    \/ /\ rx_state = "idle"
       /\ rx_state' = IF smpl_buff_rdy THEN "check_pct_buff" ELSE "idle"
    \/ rx_state = "check_pct_buff" /\ rx_state' = "rd_smpl_buff"
    \/ /\ rx_state = "rd_smpl_buff"
       /\ rx_state' = IF smpl_rd_done THEN "wait_data2packets_done"
                                      ELSE "rd_smpl_buff"
    \/ WaitDone

FsmClock == RxFsm /\ WrEnable /\ RdCount

-----------------------------------------------------------------------------
(* The sample FIFO and its counter.                                        *)

Reads == SmplRdreq /\ smpl_fifo # <<>>

SampleClock(arrives, early) ==
    /\ arrives => since = 0 /\ written < MAX_SMPL
    /\ since' = IF arrives THEN GAP - 1 ELSE IF since = 0 THEN 0 ELSE since - 1
    /\ written' = IF arrives THEN written + 1 ELSE written
    /\ smpl_fifo' = (IF Reads THEN Tail(smpl_fifo) ELSE smpl_fifo)
                    \o (IF arrives THEN <<written>> ELSE <<>>)
    /\ smpl_q' = IF Reads THEN Head(smpl_fifo) ELSE smpl_q
    /\ smpl_rdusedw' = IF early THEN Len(smpl_fifo') ELSE Len(smpl_fifo)

CountClock ==
    /\ smpl_cnt' = IF SmplRdreq THEN smpl_cnt + 1 ELSE smpl_cnt
    /\ nr_chain' = [i \in 1 .. NR_STAGES |->
                        IF i = 1 THEN smpl_cnt ELSE nr_chain[i - 1]]

-----------------------------------------------------------------------------
(* bit_pack: of four 48-bit words the first is only stored, each of the    *)
(* others completes a 64-bit word.                                         *)

PackedWord ==
    IF packed
    THEN IF data_in_valid /\ wr_cnt > 0 THEN <<"data", data48_in_reg, smpl_q>> ELSE NoWord
    ELSE IF data_in_valid THEN <<"data", smpl_q, smpl_q>> ELSE NoWord

PackClock ==
    /\ data48_in_reg' = IF data_in_valid THEN smpl_q ELSE data48_in_reg
    /\ wr_cnt' = IF data_in_valid THEN (wr_cnt + 1) % 4 ELSE wr_cnt
    /\ pack_pipe' = [i \in 1 .. PACK_STAGES |->
                         IF i = 1 THEN PackedWord ELSE pack_pipe[i - 1]]

PctData == pack_pipe[PACK_STAGES]
PctDataWrreq == PctData # NoWord

-----------------------------------------------------------------------------
(* The registers of data2packets_top.                                      *)

Hdr0 == <<"hdr0", 0, 0>>
Hdr1 == <<"hdr1", nr_chain[NR_STAGES], nr_chain[NR_STAGES]>>

\* Fault: the header words are forgotten.
PctRoom_NoHeaders == pct_buff_rdy' = (pct_wrusedw < PCT_DEPTH - (PCT_SIZE - 2))

PctRoom == pct_buff_rdy' = (pct_wrusedw < PCT_DEPTH - PCT_SIZE)

\* Fault: a packet is started before all its samples are there.
SmplEnough_Early == smpl_buff_rdy' = (smpl_rdusedw_reg > SMPL_RD_SIZE - 6)

SmplEnough == smpl_buff_rdy' = (smpl_rdusedw_reg > SMPL_RD_SIZE)

TopClock ==
    /\ smpl_rdusedw_reg' = smpl_rdusedw
    /\ SmplEnough
    /\ PctRoom
    /\ data2packets_done' = PctIdle
    /\ pct_hdr_cap' = PctCapture(PctDataWrreq)
    /\ data_in_valid' = SmplRdreq
    /\ pct_buff_wrreq' = (pct_wrreq_int /\ pct_buff_wr_en)
    /\ pct_buff_wrdata' = reg_0

(* The packet FIFO: what is written to it counts, what the host takes away *)
(* is open.                                                                *)
PctFifoClock(early) ==
    /\ \E taken \in 0 .. 1 :
          /\ taken <= pct_used
          /\ pct_used' = pct_used - taken + (IF pct_buff_wrreq THEN 1 ELSE 0)
    /\ pct_wrusedw' = IF early THEN pct_used' ELSE pct_used

Clock(arrives, early_rd, early_wr) ==
    /\ UNCHANGED packed
    /\ FsmClock
    /\ SampleClock(arrives, early_rd)
    /\ CountClock
    /\ PackClock
    /\ TopClock
    /\ FormClock(Hdr0, Hdr1, PctData, PctDataWrreq)
    /\ PctFifoClock(early_wr)
    /\ slot' = IF pct_wrreq_int THEN slot + 1 ELSE slot

Next == \E arrives, early_rd, early_wr \in BOOLEAN :
            Clock(arrives, early_rd, early_wr)

Spec == Init /\ [][Next]_vars

(* The clock runs.                                                         *)
FairSpec == Spec /\ WF_vars(Next)

-----------------------------------------------------------------------------
(* Properties.                                                             *)

\* "Do not assert when pct_state=11" (data2packets.vhd): no data word meets the
\* formatter while it flushes the packet before, where it would be lost.
NoDataWhileFlushing == PctDataWrreq => form_state # "s2"

\* A packet whose write requests are let through always fits: the room was
\* measured before its words and the last ones of the packet before arrived.
NoPctOverflow == pct_buff_wrreq => pct_used < PCT_DEPTH

\* No word of a packet is lost on the way to the host (data2packets.vhd, and the
\* limits of data2packets_top.vhd).
NoWordLost == NoDataWhileFlushing /\ NoPctOverflow

\* All samples of a packet are in the sample FIFO before the first is read, and
\* the FIFO never runs full, however slowly the host reads: so the counter of
\* samples read numbers the samples that were received.
SamplesKept ==
    /\ SmplRdreq => smpl_fifo # <<>>
    /\ Len(smpl_fifo) <= SMPL_DEPTH

\* The words on the write port of the packet FIFO are whole packets, the number
\* in each header being that of the first sample of the packet ("There is 6 clock
\* cycle latency from smpl_fifo_inst1 to packet formation and smpl_cnt has to be
\* delayed 6 cycles", rx_path_top.vhd); packets are left out only whole.
Out == IF pct_buff_wrreq THEN pct_buff_wrdata ELSE NoWord
Pos == IF pct_buff_wr_en THEN slot % PCT_SIZE ELSE 0

R == INSTANCE RxStream WITH k <- slot \div PCT_SIZE, pos <- Pos, out <- Out

RefinesRxStream == R!Spec

\* Samples that make a packet do not stay in the sample FIFO: the FSM never
\* waits for a formatter that waits for data.
PacketsFormed == (Len(smpl_fifo) > SMPL_RD_SIZE) ~> (Len(smpl_fifo) <= SMPL_RD_SIZE)
=============================================================================
