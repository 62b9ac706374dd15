----------------------------- MODULE WfmPlayer ------------------------------
(***************************************************************************)
(* wfm_player_top: a waveform is loaded into the DDR2 memory and played    *)
(* from it, round and round.  WfmCmd gives commands, through two FIFOs of  *)
(* DDR2_ctrl_top, to Ddr2Arb; what is read goes through the output FIFO to *)
(* the transmitter.                                                        *)
(*                                                                         *)
(* Environment: the host, which writes its registers wfm_load and wfm_play *)
(* and the words of a waveform, and ends a load when they have arrived in  *)
(* the input FIFO; the memory controller, ready or not at any clock.  A    *)
(* load resets the controller and with it both FSMs and all FIFOs, which   *)
(* takes less time than the host needs for its first word.                 *)
(***************************************************************************)
EXTENDS WfmCmd, Ddr2Arb

CONSTANTS
    SIZES,              \* words of a waveform
    STEADY,             \* words arrive two by two, but for the last of an odd number
    IDLE_UNREADY,       \* the controller may become unready while nothing is asked of it
    WCMD_LIMIT,         \* commands in the write FIFO above which it is not ready (252)
    RCMD_DEPTH,         \* size of the read FIFO (256)
    MAX_REQUESTS        \* bound: loads and changes of wfm_play

ASSUME PlayerAssumption ==
    /\ \A n \in SIZES : n \in 2 .. ADDRESSES - 1
    /\ {WCMD_LIMIT, RCMD_DEPTH, MAX_REQUESTS} \subseteq Nat
    /\ STEADY \in BOOLEAN /\ IDLE_UNREADY \in BOOLEAN

VARIABLES
    wfm_load, wfm_play, toggles,
    load, size,         \* the waveform: its number and its words
    arrived, taken,     \* words that reached the input FIFO, that were read
    wcmdfifo, rcmdfifo, \* commands
    w_arriving, r_arriving,     \* of them, those the arbiter does not see yet
    pos                 \* history: words played, modulo size

hostVars == <<wfm_load, wfm_play, toggles, load, size, arrived>>
cmdFifoVars == <<wcmdfifo, rcmdfifo, w_arriving, r_arriving>>
wfmVars == <<cmdVars, arbVars, memVars, hostVars, taken, cmdFifoVars, pos>>

\* A write pointer takes two clocks through the synchroniser of a FIFO.
Arriving == <<0, 0>>
Visible(fifo, arriving) == Len(fifo) - arriving[1] - arriving[2]

WfmInit ==
    /\ CmdInit /\ ArbInit(0 .. ADDRESSES - 1)
    /\ wfm_load = FALSE /\ wfm_play = FALSE /\ toggles = 0
    /\ load = 0 /\ size = 0 /\ arrived = 0 /\ taken = 0
    /\ wcmdfifo = <<>> /\ rcmdfifo = <<>> /\ w_arriving = Arriving /\ r_arriving = Arriving
    /\ pos = 0

-----------------------------------------------------------------------------
(* The host.                                                               *)

BeginLoad ==
    /\ ~wfm_load /\ load + toggles < MAX_REQUESTS /\ load' = load + 1
    /\ wfm_load' = TRUE /\ size' \in SIZES /\ arrived' = 0 /\ taken' = 0
    /\ WcmdReset /\ RcmdReset /\ ArbReset
    /\ wcmdfifo' = <<>> /\ rcmdfifo' = <<>> /\ w_arriving' = Arriving /\ r_arriving' = Arriving
    /\ begun' = NotBegun /\ pending' = <<>> /\ outbuf' = <<>> /\ pos' = 0
    /\ UNCHANGED <<mem, wfm_play, toggles>>

HostWords ==
    /\ wfm_load /\ arrived < size
    /\ arrived' = IF STEADY /\ arrived + 2 <= size THEN arrived + 2 ELSE arrived + 1
    /\ UNCHANGED <<wfm_load, wfm_play, toggles, load, size, cmdVars, arbVars, memVars, taken,
                   cmdFifoVars, pos>>

\* Writing a register takes the host longer than the synchronisers.
EndLoad ==
    /\ wfm_load /\ arrived = size /\ r_load_reg[3] /\ wfm_load' = FALSE
    /\ UNCHANGED <<wfm_play, toggles, load, size, arrived, cmdVars, arbVars, memVars, taken,
                   cmdFifoVars, pos>>

PlayOrStop ==
    /\ load + toggles < MAX_REQUESTS /\ toggles' = toggles + 1 /\ wfm_play' = ~wfm_play
    /\ UNCHANGED <<wfm_load, load, size, arrived, cmdVars, arbVars, memVars, taken,
                   cmdFifoVars, pos>>

-----------------------------------------------------------------------------
(* The clocks.                                                             *)

InUsed == arrived - taken

\* The input FIFO shows nothing when it is empty.
InWord == IF InUsed > 0 THEN <<load, taken + 1>> ELSE NoData

WClock ==
    /\ WcmdClock(wfm_load, InUsed, InUsed = 0, Len(wcmdfifo) < WCMD_LIMIT)
    /\ IF wcmd_wr
       THEN /\ wcmdfifo' = Append(wcmdfifo, [brst |-> wcmd_brst_en, addr |-> wr_address, data |-> InWord])
            /\ w_arriving' = [w_arriving EXCEPT ![1] = @ + 1]
            /\ taken' = IF InUsed > 0 THEN taken + 1 ELSE taken
       ELSE UNCHANGED <<wcmdfifo, w_arriving, taken>>
    /\ UNCHANGED <<rcmdVars, arbVars, memVars, hostVars, rcmdfifo, r_arriving, pos>>

\* What the arbiter sees of a FIFO; an empty one shows any command.
Heads(fifo, arriving) ==
    IF Visible(fifo, arriving) > 0
    THEN {[used |-> Visible(fifo, arriving), brst |-> Head(fifo).brst, addr |-> Head(fifo).addr]}
    ELSE {[used |-> 0, brst |-> b, addr |-> 0] : b \in BOOLEAN}

\* The controller is ready unless it is busy with what was asked of it.
MayTick(ready, w, r) ==
    ready \/ IDLE_UNREADY \/ a_state = "idle" \/ write_req(w) \/ read_req(r)

PClock(ready) ==
    LET rdy == Len(rcmdfifo) < RCMD_DEPTH
        given == IF rcmd_wr(rdy) THEN <<[brst |-> rcmd_brst_en, addr |-> rd_addr]>> ELSE <<>>
    IN  \E w \in Heads(wcmdfifo, w_arriving), r \in Heads(rcmdfifo, r_arriving) :
           /\ MayTick(ready, w, r)
           /\ rcmd_rdreq(r, ready) => Len(pending) + ArbBurst <= MAX_PENDING
           /\ ArbClock(w, r, ready)
           /\ MemClock(w, r, IF wcmdfifo = <<>> THEN NoData ELSE Head(wcmdfifo).data, ready)
           /\ RcmdClock(load_reg[2], wr_address_latch, wfm_play, rdy)
           /\ wcmdfifo' = IF wcmd_rdreq(w, ready) THEN Tail(wcmdfifo) ELSE wcmdfifo
           /\ rcmdfifo' = (IF rcmd_rdreq(r, ready) THEN Tail(rcmdfifo) ELSE rcmdfifo) \o given
           /\ w_arriving' = <<0, w_arriving[1]>> /\ r_arriving' = <<Len(given), r_arriving[1]>>
           /\ UNCHANGED <<wcmdVars, hostVars, taken, pos>>

Return ==
    /\ MemReturn
    /\ UNCHANGED <<cmdVars, arbVars, hostVars, taken, cmdFifoVars, pos>>

\* The transmitter takes a word.
PlayWord ==
    /\ outbuf # <<>> /\ outbuf' = Tail(outbuf) /\ pos' = (pos + 1) % size
    /\ UNCHANGED <<cmdVars, arbVars, mem, begun, pending, hostVars, taken, cmdFifoVars>>

WfmNext ==
    \/ BeginLoad \/ HostWords \/ EndLoad \/ PlayOrStop
    \/ WClock \/ (\E ready \in BOOLEAN : PClock(ready)) \/ Return \/ PlayWord

WfmSpec == WfmInit /\ [][WfmNext]_wfmVars

-----------------------------------------------------------------------------

\* What is played is the waveform loaded last, word by word and round and round,
\* although it is stopped and resumed (wfm_rcmd_fsm.vhd lines 164-244), although
\* words are still being written when the first are asked for, and although the
\* clocks of the two sides are not related (DDR2_arb.vhd lines 200-285).
PlaysTheWaveform ==
    \A i \in DOMAIN outbuf : outbuf[i] = <<load, ((pos + i - 1) % size) + 1>>

\* A waveform that is loaded and played goes on playing.
PlaysOn ==
    <>[](wfm_play /\ ~wfm_load /\ load > 0) => []<>(pos = 0) /\ []<>(pos # 0)
=============================================================================
