----------------------------- MODULE TxSamples ------------------------------
(***************************************************************************)
(* The back of the TX path, packets2data_top behind packets2data and       *)
(* fifo2diq: words read out of the packet buffers are unpacked (BitUnpack) *)
(* into the sample FIFO, from which TxIq takes them.  The full flag of the *)
(* sample FIFO goes back to p2d_rd, which stops at once; the words already *)
(* on their way must still find room.                                      *)
(*                                                                         *)
(* Environment: p2d_rd reads a word or not in any clock in which the full  *)
(* flag is down (Packets2Data is what it does); the external pulse comes   *)
(* at any time.                                                            *)
(***************************************************************************)
EXTENDS BitUnpack, TxIq, DcFifo, Sequences

CONSTANTS
    FIFO_WORDS,     \* 128-bit words of the sample FIFO, a 2 ** n in the code
    MAX_WORDS       \* bound on the 64-bit words of a behaviour

ASSUME FifoAssumption == FIFO_WORDS \in Nat /\ FIFO_WORDS >= 9 /\ MAX_WORDS \in Nat

VARIABLES
    next_word,          \* number of the next word of the packet buffers
    buff_q,             \* output register of the packet buffers
    smpl_buff_q,        \* smpl_buff_q with smpl_buff_valid
    smpl_fifo,          \* unread 64-bit words <<samples, half>>
    smpl_arriving, smpl_leaving,        \* its pointers under way
    smpl_q,             \* its output register
    fifo_full_sig,
    pct_buff_rdy,       \* inst2_pct_buff_rdy
    popped,             \* history: words taken out of the FIFO
    burst               \* history: of those, since the last pulse

topVars == <<next_word, buff_q, smpl_buff_q, smpl_fifo, smpl_arriving,
             smpl_leaving, smpl_q, fifo_full_sig, pct_buff_rdy>>
vars == <<regs, unpackVars, iqVars, topVars, popped, burst>>

Init ==
    /\ RegsInit /\ UnpackInit /\ IqInit
    /\ next_word = 0 /\ buff_q = None /\ smpl_buff_q = None
    /\ smpl_fifo = <<>> /\ smpl_arriving = Nothing /\ smpl_leaving = Nothing
    /\ smpl_q = Zeros
    /\ fifo_full_sig = FALSE /\ pct_buff_rdy = FALSE
    /\ popped = 0 /\ burst = 0

-----------------------------------------------------------------------------

\* fifo_limit: room for eight words is kept free.
FifoLimit == FIFO_WORDS - 1 - 8

\* Both in words of the side they belong to: 64 bits at the read side, 128 bits
\* at the write side, which counts a word as used until both halves are read.
RdEmpty == Len(smpl_fifo) = 2 * InFlight(smpl_arriving)
WrUsed == (Len(smpl_fifo) + InFlight(smpl_leaving) + 1) \div 2

\* The packet buffers: smpl_buff_almost_full stops the request at once.
SourceClock(reads) ==
    /\ reads => ~fifo_full_sig /\ next_word < MAX_WORDS
    /\ next_word' = IF reads THEN next_word + 1 ELSE next_word
    /\ buff_q' = IF reads THEN next_word ELSE None
    /\ smpl_buff_q' = buff_q

\* A word that finds the FIFO full is lost (overflow_checking is on).
SmplFifoClock ==
    LET write == mux1_data128_reg # NoSamples /\ WrUsed < FIFO_WORDS
        read == FifoRdreq(RdEmpty)
    IN /\ smpl_fifo' = (IF read THEN Tail(smpl_fifo) ELSE smpl_fifo)
                       \o (IF write THEN << <<mux1_data128_reg, 0>>,
                                            <<mux1_data128_reg, 1>> >> ELSE <<>>)
       /\ smpl_q' = IF read THEN Head(smpl_fifo) ELSE smpl_q
       /\ smpl_arriving' = Shift(smpl_arriving, write)
       /\ smpl_leaving' = Shift(smpl_leaving, read)
       /\ popped' = IF read THEN popped + 1 ELSE popped
       /\ burst' = IF ctrl_state = "txant_enable_wait" THEN 0
                   ELSE IF read THEN burst + 1 ELSE burst

\* The other half of inst2_pct_buff_rdy, that the buffers hold the packets which
\* pct_sync_size asks for, is left to the pulse: one that comes too early and one
\* that does not come are the same to txiq_ctrl.
FlagClock ==
    /\ fifo_full_sig' = (WrUsed > FifoLimit)
    /\ pct_buff_rdy' = fifo_full_sig

Clock(reads, pulse) ==
    /\ UNCHANGED regs
    /\ SourceClock(reads)
    /\ UnpackClock(smpl_buff_q)
    /\ SmplFifoClock
    /\ FlagClock
    /\ IqClock(pct_buff_rdy, pulse, RdEmpty, smpl_q)

\* The pulse only matters to bursts.
Next == \E reads \in BOOLEAN, pulse \in IF regs.sync_mode THEN BOOLEAN ELSE {FALSE} :
            Clock(reads, pulse)

Spec == Init /\ [][Next]_vars

-----------------------------------------------------------------------------
(* Properties.                                                             *)

\* The word with number n, counted at the read side of the sample FIFO.
Expected(n) == <<Unpacked(n \div 2), n % 2>>

\* The words of the packet buffers go through the sample FIFO in order, none
\* missing, none twice, and each cut out of the input words it belongs to:
\* whatever gaps the reading of the buffers has, and although words are still
\* under way when the full flag rises.
WordsInOrder ==
    /\ \A j \in 1 .. Len(smpl_fifo) : smpl_fifo[j] = Expected(popped + j - 1)
    /\ int_fifo_q_valid => smpl_q = Expected(popped - 1)

\* The registers are not loaded again before every sample of the word in them
\* has been on the bus.
WordOutBeforeNext ==
    (int_fifo_q_valid \/ zero_valid) /\ diq_word # Zeros =>
        \A p \in diq_pos + 1 .. 4 : Position(p) = {}

\* The samples of the packet buffers reach the bus in order and all of them
\* (packets2data_top.vhd, bit_unpack_64.vhd, txiq.vhd).
SamplesInOrder == WordsInOrder /\ WordOutBeforeNext

\* A burst has exactly the words that were asked for: txiq reads ahead of the
\* state of txiq_ctrl, and must not start another word when the last is counted.
BurstIsExact ==
    regs.sync_mode =>
        /\ burst <= regs.sync_size
        /\ ctrl_state = "txant_dis_wait" => burst = regs.sync_size

\* The antenna is on while a sample of the host is on the bus.
AntennaOn == diq_word # Zeros /\ Position(diq_pos) # {} => txant_en_mux
=============================================================================
