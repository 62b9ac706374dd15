------------------------------- MODULE WfmCmd -------------------------------
(***************************************************************************)
(* wfm_player (src/src/wfm_ram_buffer): wfm_wcmd_fsm turns the words of a  *)
(* waveform into write commands, two at a time where it can, and           *)
(* wfm_rcmd_fsm reads them back over and over again.  WcmdClock is a       *)
(* rising edge of wcmd_clk (the TX clock), RcmdClock one of rcmd_clk (the  *)
(* memory's phy_clk); their parameters are the input ports.                *)
(***************************************************************************)
EXTENDS Integers, Sequences

CONSTANT
    ADDRESSES           \* addresses of the memory (2 ^ addr_size)

ASSUME AddressAssumption == ADDRESSES \in Nat /\ ADDRESSES > 1

VARIABLES
    (* wfm_player and wfm_wcmd_fsm *)
    load_wcmd,          \* wfm_load_wcmd0, wfm_load_wcmd1
    load_wcmd2,
    load_reg,           \* wfm_load_reg0, wfm_load_reg1 = wfm_load_ext
    w_state, wrburst_cnt, wr_address,
    wr_address_latch,   \* wcmd_last_addr
    (* wfm_rcmd_fsm *)
    r_load_reg, r_play_reg,             \* wfm_load_reg, wfm_play_stop_reg
    last_addr_regs,     \* wcmd_last_addr_reg0, wcmd_last_addr_reg1
    wcmd_last_addr_latch,
    r_state, rd_addr

wcmdVars == <<load_wcmd, load_wcmd2, load_reg, w_state, wrburst_cnt, wr_address, wr_address_latch>>
rcmdVars == <<r_load_reg, r_play_reg, last_addr_regs, wcmd_last_addr_latch, r_state, rd_addr>>
cmdVars == <<wcmdVars, rcmdVars>>

BURST == 2              \* lcl_burst_length
Addr(n) == n % ADDRESSES

WcmdReset ==
    /\ load_wcmd' = <<FALSE, FALSE>> /\ load_wcmd2' = FALSE /\ load_reg' = <<FALSE, FALSE>>
    /\ w_state' = "idle" /\ wrburst_cnt' = 0 /\ wr_address' = 0 /\ wr_address_latch' = 0

\* wcmd_last_addr_latch has no reset
RcmdReset ==
    /\ r_load_reg' = <<FALSE, FALSE, FALSE>> /\ r_play_reg' = <<FALSE, FALSE, FALSE>>
    /\ last_addr_regs' = <<0, 0>> /\ r_state' = "idle" /\ rd_addr' = 0
    /\ UNCHANGED wcmd_last_addr_latch

CmdInit ==
    /\ load_wcmd = <<FALSE, FALSE>> /\ load_wcmd2 = FALSE /\ load_reg = <<FALSE, FALSE>>
    /\ w_state = "idle" /\ wrburst_cnt = 0 /\ wr_address = 0 /\ wr_address_latch = 0
    /\ r_load_reg = <<FALSE, FALSE, FALSE>> /\ r_play_reg = <<FALSE, FALSE, FALSE>>
    /\ last_addr_regs = <<0, 0>> /\ wcmd_last_addr_latch = 0
    /\ r_state = "idle" /\ rd_addr = 0

-----------------------------------------------------------------------------
(* Write commands.                                                         *)

\* also the read request of the input FIFO
wcmd_wr == w_state \in {"burst_wr", "wr"}
wcmd_brst_en == w_state = "burst_wr"

\* The words of the burst that ends are still in the count.
MoreBursts(rdusedw) == rdusedw > 2 * BURST

WcmdNextState(rdusedw, rdy) ==
    CASE w_state = "idle" -> IF load_wcmd2 THEN "check_burst" ELSE "idle"
      [] w_state = "check_burst" ->
            IF ~rdy THEN "idle"
            ELSE IF rdusedw >= BURST THEN "burst_wr"
            ELSE IF rdusedw = BURST - 1 THEN "check_wr" ELSE "idle"
      [] w_state = "check_wr" -> IF rdusedw = BURST - 1 /\ rdy THEN "wr" ELSE "idle"
      [] w_state = "burst_wr" ->
            IF wrburst_cnt # BURST - 1 \/ (MoreBursts(rdusedw) /\ rdy) THEN "burst_wr" ELSE "idle"
      [] w_state = "wr" -> "idle"

LoadEnds == ~load_reg[1] /\ load_reg[2]

\* Fault: the load ends with the host's request, read or not.
StillLoading_Not(rdempty) == FALSE

\* A load ends when the input FIFO has been read.
StillLoading(rdempty) == load_wcmd2 /\ ~rdempty

WcmdClock(wfm_load, rdusedw, rdempty, rdy) ==
    /\ load_wcmd' = <<wfm_load, load_wcmd[1]>>
    /\ load_wcmd2' = (load_wcmd[2] \/ StillLoading(rdempty))
    /\ load_reg' = <<load_wcmd2, load_reg[1]>>
    /\ w_state' = WcmdNextState(rdusedw, rdy)
    /\ wrburst_cnt' = IF w_state = "burst_wr" THEN (wrburst_cnt + 1) % BURST ELSE 0
    /\ wr_address_latch' = IF LoadEnds THEN wr_address ELSE wr_address_latch
    /\ wr_address' = IF LoadEnds THEN 0
                     ELSE IF wcmd_wr THEN Addr(wr_address + 1) ELSE wr_address

-----------------------------------------------------------------------------
(* Read commands.                                                          *)

rcmd_wr(rdy) == r_state \in {"burst_rd", "rd"} /\ rdy
rcmd_brst_en == r_state = "burst_rd"

LoadFell == ~r_load_reg[2] /\ r_load_reg[3]
LoadRose == r_load_reg[2] /\ ~r_load_reg[3]
playing == r_play_reg[3]

OddLength == wcmd_last_addr_latch % 2 = 1

LastPair == rd_addr >= Addr(wcmd_last_addr_latch - (wcmd_last_addr_latch % 2) - 2)

RcmdNextState(rdy) ==
    CASE r_state = "idle" -> IF LoadFell THEN "check_rdy" ELSE "idle"
      [] r_state = "check_rdy" -> IF rdy /\ playing THEN "burst_rd" ELSE "check_rdy"
      [] r_state = "burst_rd" ->
            IF ~rdy THEN "burst_rd"
            ELSE IF LastPair THEN (IF OddLength THEN "rd" ELSE "last_burst")
            ELSE IF playing THEN "burst_rd" ELSE "rd_stop"
      [] r_state \in {"last_burst", "rd"} ->
            IF ~rdy THEN r_state ELSE IF playing THEN "burst_rd" ELSE "check_rdy"
      [] r_state = "rd_stop" ->
            IF LoadRose THEN "idle" ELSE IF playing THEN "burst_rd" ELSE "rd_stop"

NextRdAddr(rdy) ==
    CASE r_state = "burst_rd" /\ rdy -> Addr(rd_addr + 2)
      [] (r_state = "rd" /\ rdy) \/ r_state = "last_burst" -> 0
      [] OTHER -> rd_addr

RcmdClock(load_ext, last_addr, wfm_play_stop, rdy) ==
    /\ r_load_reg' = <<load_ext, r_load_reg[1], r_load_reg[2]>>
    /\ r_play_reg' = <<wfm_play_stop, r_play_reg[1], r_play_reg[2]>>
    /\ last_addr_regs' = <<last_addr, last_addr_regs[1]>>
    /\ wcmd_last_addr_latch' = IF LoadFell THEN last_addr_regs[2] ELSE wcmd_last_addr_latch
    /\ r_state' = RcmdNextState(rdy)
    /\ rd_addr' = NextRdAddr(rdy)
=============================================================================
