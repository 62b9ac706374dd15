---------------------------- MODULE Packets2Data ----------------------------
(***************************************************************************)
(* packets2data (src/src/tx_path_top/packets2data/synth/packets2data.vhd): *)
(* the TX packet buffers between one_pct_fifo and the sample unpacker.     *)
(* P2dWrFsm fills a ring of FIFOs, P2dRd empties it; both run on tx_clk    *)
(* (rxtx_top.vhd connects pct_wrclk and iq_rdclk to it), so one Clock is   *)
(* one edge of both.                                                       *)
(*                                                                         *)
(* The buffers are dcfifo_mixed_widths megafunctions: the word count of    *)
(* the read side and the empty flag of the write side follow the other     *)
(* side after a synchroniser delay, which the model leaves open.           *)
(*                                                                         *)
(* Environment: the packet FIFO in front (PctFifo), the sample counter,    *)
(* which counts up by at most one per clock, and the full flag of the      *)
(* sample FIFO behind.                                                     *)
(***************************************************************************)
EXTENDS P2dWrFsm, P2dRd, PctFifo

CONSTANTS
    SYNC_DIS,       \* the configuration bit pct_sync_dis
    MAX_NR          \* bound on the sample counter

ASSUME PortsAssumption == SYNC_DIS \in BOOLEAN /\ MAX_NR \in Nat

VARIABLES
    (* the buffers, one entry for each *)
    buff,                   \* 64-bit words <<id, index>> in the FIFO
    buff_q,                 \* its output register
    rdusedw,                \* its word count as the read side sees it
    wrempty,                \* its empty flag as the write side sees it
    (* registers of packets2data *)
    pct_buff_size,          \* 64-bit words that make the buffer ready; -1: all ones
    pct_buff_rdy,
    smpl_buff_valid_int,
    smpl_buff_valid,
    smpl_buff_q,
    pct_data_clr,           \* inst1_pct_data_clr, as a set
    in_pct_clr_flag,
    (* input ports *)
    sample_nr,
    almost_full,
    landing,                \* words read are still on their way to the sample FIFO
    (* history *)
    queue,                  \* packets committed to the ring and not finished
    emitted                 \* words of Head(queue) already on the output port

buffVars == <<buff, buff_q, rdusedw, wrempty>>
regVars == <<pct_buff_size, pct_buff_rdy, smpl_buff_valid_int, smpl_buff_valid,
             smpl_buff_q, pct_data_clr, in_pct_clr_flag>>
portVars == <<sample_nr, almost_full, landing>>
histVars == <<queue, emitted>>
vars == <<wrVars, rdVars, pctVars, buffVars, regVars, portVars, histVars>>

NoWord == <<0, 0>>

Init ==
    /\ WrInit
    /\ RdInit
    /\ PctFifoInit
    /\ buff = [i \in Buffers |-> <<>>]
    /\ buff_q = [i \in Buffers |-> NoWord]
    /\ rdusedw = [i \in Buffers |-> 0]
    /\ wrempty = [i \in Buffers |-> TRUE]
    /\ pct_buff_size = [i \in Buffers |-> -1]
    /\ pct_buff_rdy = [i \in Buffers |-> FALSE]
    /\ smpl_buff_valid_int = FALSE /\ smpl_buff_valid = FALSE
    /\ smpl_buff_q = NoWord
    /\ pct_data_clr = {} /\ in_pct_clr_flag = FALSE
    /\ sample_nr = 0
    /\ almost_full = FALSE /\ landing = FALSE
    /\ queue = <<>> /\ emitted = 0

-----------------------------------------------------------------------------
(* The buffers.  A write carries one 128-bit word, that is two words of    *)
(* the read side.  synced.rd and synced.wr are the buffers whose pointers   *)
(* reach the read side and the write side in this clock.                   *)

Halves(word) == << <<word[1].id, 2 * (word[2] - 1)>>,
                   <<word[1].id, 2 * (word[2] - 1) + 1>> >>

\* pct_buff_rdreq, as a set; underflow checking ignores it on an empty FIFO.
Reading == IF RdReq(almost_full) THEN {crnt_buff_cnt} ELSE {}
Pops(i) == i \in Reading /\ rdusedw[i] > 0

BuffClock(synced) ==
    /\ buff' = [i \in Buffers |->
           IF i \in RdClearing THEN <<>>
           ELSE (IF Pops(i) THEN Tail(buff[i]) ELSE buff[i])
                \o (IF i \in pct_data_wrreq THEN Halves(pct_data) ELSE <<>>)]
    /\ buff_q' = [i \in Buffers |-> IF Pops(i) THEN Head(buff[i]) ELSE buff_q[i]]
    /\ rdusedw' = [i \in Buffers |->
           IF i \in RdClearing THEN 0
           ELSE IF i \in synced.rd THEN Len(buff[i]) - (IF Pops(i) THEN 1 ELSE 0)
           ELSE rdusedw[i] - (IF Pops(i) THEN 1 ELSE 0)]
    /\ wrempty' = [i \in Buffers |->
           /\ i \notin pct_data_wrreq
           /\ wrempty[i] \/ i \in RdClearing \/ (i \in synced.wr /\ buff[i] = <<>>)]

-----------------------------------------------------------------------------
(* The registers of packets2data.                                          *)

\* The size is tested for 0 in the header register, and taken from the input.
BuffSize == IF pct_hdr.size = 0 THEN MAX_PAYLOAD ELSE in_pct_data[1].size

RegClock ==
    /\ pct_buff_rdy' = [i \in Buffers |->
           i \notin RdClearing /\ rdusedw[i] = pct_buff_size[i]]
    /\ pct_buff_size' = [i \in Buffers |->
           IF i \in pct_hdr_valid THEN BuffSize ELSE pct_buff_size[i]]
    /\ smpl_buff_valid_int' = (Reading # {})
    /\ smpl_buff_valid' = smpl_buff_valid_int
    /\ smpl_buff_q' = buff_q[crnt_buff_cnt]
    /\ pct_data_clr' = RdClearing
    /\ in_pct_clr_flag' = (pct_data_clr # {} \/ ~in_pct_reset_n_req)

(* The sample counter, and the full flag of the sample FIFO, which can     *)
(* rise only while words read from the buffers are on their way to it.     *)
PortClock ==
    /\ \/ UNCHANGED sample_nr
       \/ sample_nr < MAX_NR /\ sample_nr' = sample_nr + 1
    /\ almost_full' \in IF almost_full \/ landing THEN BOOLEAN ELSE {FALSE}
    /\ landing' \in IF smpl_buff_valid THEN {TRUE}
                    ELSE IF landing THEN BOOLEAN ELSE {FALSE}

(* History: a packet joins the queue when the write FSM commits to it and  *)
(* leaves it with its last word on the output port, or when the read FSM   *)
(* clears its buffer.                                                      *)
Finishes == /\ queue # <<>>
            /\ \/ rd_state = "clr_buff"
               \/ /\ smpl_buff_valid'
                  /\ emitted + 1 >= PayloadWords(Head(queue).size)

HistClock ==
    /\ queue' = (IF Finishes THEN Tail(queue) ELSE queue)
                \o (IF wr_state = "switch_next_buff" THEN <<pct_hdr>> ELSE <<>>)
    /\ emitted' = IF Finishes THEN 0
                  ELSE IF smpl_buff_valid' THEN emitted + 1 ELSE emitted

Clock(synced) ==
    /\ WrClock(in_pct_rdy, in_pct_data, sample_nr, SYNC_DIS, wrempty)
    /\ RdClock(pct_hdr, pct_hdr_valid, sample_nr, SYNC_DIS, pct_buff_rdy,
               almost_full)
    /\ PctFifoClock(in_pct_rdreq, in_pct_reset_n_req)
    /\ BuffClock(synced)
    /\ RegClock
    /\ PortClock
    /\ HistClock

\* Each crossing takes its own time; those with nothing to carry are left out.
Crossings == [rd : SUBSET {i \in Buffers : rdusedw[i] # Len(buff[i])},
              wr : SUBSET {i \in Buffers : buff[i] = <<>> /\ ~wrempty[i]}]

Next == \E synced \in Crossings : Clock(synced)

Spec == Init /\ [][Next]_vars

(* The clock runs, the sample counter counts, pointers reach the other     *)
(* side, words land in the sample FIFO and the sample FIFO is drained.     *)
(* The last four are stated as what recurs, since every one of these steps *)
(* is a choice that each clock has.                                        *)
PointersSynced == \A i \in Buffers : /\ rdusedw[i] = Len(buff[i])
                                     /\ buff[i] = <<>> => wrempty[i]

Fairness ==
    /\ WF_vars(Next)
    /\ []<>(sample_nr = MAX_NR)
    /\ []<>PointersSynced
    /\ []<>~landing
    /\ []<>~almost_full

FairSpec == Spec /\ Fairness

-----------------------------------------------------------------------------
(* Properties.                                                             *)

PctType == [id : Nat, nr : Nat, dis : BOOLEAN, size : 0 .. MAX_PAYLOAD]
Pipe == BOOLEAN \X BOOLEAN \X BOOLEAN
WrTypeOK ==
    /\ wr_state \in WrStates
    /\ current_buff_cnt \in Buffers /\ next_buff_cnt \in Buffers
    /\ current_buff_rdy \in BOOLEAN /\ next_buff_rdy \in BOOLEAN
    /\ wr_rd_cnt \in Nat /\ wr_rd_cnt_max \in Nat /\ pipe_cnt \in Nat
    /\ in_pct_rdreq \in BOOLEAN /\ in_pct_data_valid \in BOOLEAN
    /\ pct_data_wrreq_cnt \in Nat /\ in_pct_reset_n_req \in BOOLEAN
    /\ pct_hdr \in PctType /\ pct_hdr_valid \in SUBSET Buffers
    /\ pct_data \in PctType \X Nat /\ pct_data_wrreq \in SUBSET Buffers
    /\ wr_smpl_nr_less \in Pipe

RdTypeOK ==
    /\ rd_state \in RdStates
    /\ pct_hdr_array \in [Buffers -> PctType]
    /\ rd_smpl_nr_equal \in [Buffers -> Pipe]
    /\ rd_smpl_nr_less \in [Buffers -> Pipe]
    /\ crnt_buff_cnt \in Buffers
    /\ crnt_buff_rdy \in BOOLEAN /\ crnt_buff_pct_synch_dis \in BOOLEAN
    /\ crnt_buff_pct_smpl_nr_equal \in BOOLEAN
    /\ crnt_buff_pct_smpl_nr_less \in BOOLEAN
    /\ crnt_buff_payload_size \in 0 .. MAX_PAYLOAD
    /\ rd_cnt \in Nat /\ rd_cnt_max \in 0 .. MAX_PAYLOAD

EnvTypeOK ==
    /\ pct \in PctType /\ pct_used \in Nat /\ next_id \in Nat
    /\ in_pct_rdy \in BOOLEAN /\ in_pct_data \in PctType \X Nat
    /\ sample_nr \in Nat
    /\ almost_full \in BOOLEAN /\ landing \in BOOLEAN

RegTypeOK ==
    /\ pct_buff_size \in [Buffers -> {-1} \cup 0 .. MAX_PAYLOAD]
    /\ pct_buff_rdy \in [Buffers -> BOOLEAN]
    /\ wrempty \in [Buffers -> BOOLEAN]
    /\ smpl_buff_valid_int \in BOOLEAN /\ smpl_buff_valid \in BOOLEAN
    /\ pct_data_clr \in SUBSET Buffers /\ in_pct_clr_flag \in BOOLEAN

\* The type invariant of the registers and the environment.
TypeOK == WrTypeOK /\ RdTypeOK /\ EnvTypeOK /\ RegTypeOK

\* A buffer holds words of one packet, in order and without a gap, and the
\* header slot and the size register of the buffer are those of that packet:
\* the write FSM stores a header before it knows whether the packet is late,
\* and must never do so in a slot whose packet is still to be read.
BufferMatchesHeader ==
    \A i \in Buffers : buff[i] # <<>> =>
        /\ Len(buff[i]) <= pct_buff_size[i]
        /\ pct_buff_size[i] = PayloadWords(pct_hdr_array[i].size)
        /\ \A j \in 1 .. Len(buff[i]) :
               buff[i][j] = <<pct_hdr_array[i].id, Head(buff[i])[2] + j - 1>>

\* Neither FSM relies on the overflow or underflow checking of the FIFOs: the
\* read FSM requests only words that are there (the fifo would repeat its last
\* word), and the packet FIFO has a word for every request of the write FSM.
NoUnderflow ==
    /\ \A i \in Reading : Pops(i)
    /\ in_pct_rdreq => pct # NoPacket

\* No wraparound of the ring: the write FSM never writes into the buffer that
\* the read FSM is reading or clearing.
NoWriteWhileReading ==
    rd_state \in {"rd_buff", "rd_hold", "clr_buff"} => crnt_buff_cnt \notin pct_data_wrreq

\* The ring and the FIFOs are used within their limits (p2d_wr_fsm.vhd and
\* p2d_rd.vhd, which have no logic of their own for an overrun).
RingSafe == NoUnderflow /\ NoWriteWhileReading

\* The write FSM clears the packet FIFO only on account of the packet that is
\* in it, when that packet is synchronised and its sample number has passed:
\* the comparator is three clocks deep, so a decision taken too early would be
\* about the packet before.
WrDropsOnlyLate ==
    [][wr_state' = "clr_fifo" /\ wr_state # "clr_fifo" =>
           /\ pct = pct_hdr /\ pct_used = 1
           /\ ~SYNC_DIS /\ ~pct.dis /\ pct.nr < sample_nr]_vars

(* The invariant behind WrDropsOnlyLate: what the write FSM and the packet *)
(* FIFO know of each other from the offer of a packet to the decision.     *)
WrQuiet == ~in_pct_rdreq /\ ~in_pct_data_valid
Offered == pct # NoPacket /\ pct_used = 0 /\ in_pct_reset_n_req
HeaderRead == pct # NoPacket /\ pct_used = 1 /\ in_pct_reset_n_req
LateFrom(n) == \A k \in 1 .. n : wr_smpl_nr_less[k] => pct_hdr.nr < sample_nr

\* In each state the header word is exactly as far on its way - requested, on
\* the FIFO output, in the header register, k stages into the comparator - as
\* the clock count of the FSM says, and the packet FIFO still holds its packet.
WrHeaderInv ==
    /\ pct.size % 2 = 0
    /\ wr_state = "idle" => WrQuiet /\ (in_pct_rdy => Offered)
    /\ wr_state = "rd_hdr" => WrQuiet /\ pct_data_wrreq_cnt = 0 /\ Offered
    /\ wr_state = "wait_cmpr_pipe" =>
           \/ /\ pipe_cnt = 0 /\ pct_data_wrreq_cnt = 0 /\ Offered
              /\ in_pct_rdreq /\ ~in_pct_data_valid
           \/ /\ pipe_cnt = 1 /\ pct_data_wrreq_cnt = 0 /\ HeaderRead
              /\ ~in_pct_rdreq /\ in_pct_data_valid /\ in_pct_data = <<pct, 0>>
           \/ /\ pipe_cnt \in 2 .. 4 /\ WrQuiet /\ HeaderRead /\ pct_hdr = pct
              /\ LateFrom(pipe_cnt - 2)
    /\ wr_state = "check_smpl_nr" =>
           WrQuiet /\ HeaderRead /\ pct_hdr = pct /\ LateFrom(3)
    /\ wr_state = "clr_fifo" => WrQuiet /\ HeaderRead
    /\ wr_state = "check_next_buf" => ~in_pct_rdreq
    /\ wr_state = "switch_current_buff" => WrQuiet

\* A synchronised packet starts within four clocks of the sample number it
\* asks for (three of the comparator and one of the multiplexer), never before
\* it: the counter is at most four samples further.
StartsOnTime ==
    [][rd_state = "idle" /\ rd_state' = "rd_buff" =>
           LET p == Head(queue)
           IN SYNC_DIS \/ p.dis \/ sample_nr \in p.nr .. p.nr + 4]_vars

\* Every packet that is offered is taken or dropped in the end, and every
\* buffer that is filled is emptied: the two FSMs never wait for each other, for
\* a sample number that has gone by, or for a buffer that has been passed over.
\* The packets of a behaviour are bounded, so this is that all is empty again.
EveryPacketFinishes ==
    []<>(pct = NoPacket /\ \A i \in Buffers : buff[i] = <<>>)

-----------------------------------------------------------------------------
(* The abstract queue that the buffers implement.                          *)

Out == IF smpl_buff_valid THEN smpl_buff_q ELSE <<>>

Q == INSTANCE TxQueue WITH out <- Out, now <- sample_nr

\* The buffers implement the queue: whatever the timing of the two FSMs, the
\* synchronisers and the full flag, the words on smpl_buff_q are those of the
\* accepted packets in order, and packets are only lost whole and late.
RefinesTxQueue == Q!Spec
=============================================================================
