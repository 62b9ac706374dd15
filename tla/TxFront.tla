------------------------------ MODULE TxFront -------------------------------
(***************************************************************************)
(* The front of the TX path: the packet FIFO (OnePctFifo) and the write    *)
(* FSM that takes packets out of it or has it cleared (P2dWrFsm), wired as *)
(* in tx_path_top.  It is shown that the packet FIFO is what Packets2Data  *)
(* takes it for (PctFifo).                                                 *)
(*                                                                         *)
(* Environment: the host, whose words come in order but with gaps of any   *)
(* length; the sample counter and the empty flags of the packet buffers,   *)
(* which are left completely open.                                         *)
(***************************************************************************)
EXTENDS P2dWrFsm, OnePctFifo

CONSTANTS
    PACKETS,        \* packets the host may send: records [nr, dis, size]
    MAX_PKTS,       \* bound on the packets of a behaviour
    SAMPLE_NRS      \* values of the sample counter

ASSUME SampleNrsAssumption == SAMPLE_NRS \subseteq Nat

\* The packets PctFifo assumes: pct_separate_fsm reads two words of a packet before
\* it knows its size, and the FIFO counts whole words of 128 bits.
ASSUME FrontPacketsAssumption ==
    /\ MAX_PKTS \in Nat
    /\ PACKETS \subseteq [nr : Nat, dis : BOOLEAN, size : 0 .. MAX_PAYLOAD]
    /\ \A p \in PACKETS : p.size % 2 = 0 /\ (p.size = 0 \/ p.size >= 4)

VARIABLES
    infifo,         \* next word of the host <<packet, k>>, NoPacket: no more
    infifo_data,    \* output of the FIFO of the host
    wrempty,        \* empty flags of the packet buffers
    offered         \* history: id of the packet offered last

vars == <<wrVars, onePctVars, infifo_rdempty, infifo, infifo_data, wrempty,
          offered>>

WithId(p, id) == [id |-> id, nr |-> p.nr, dis |-> p.dis, size |-> p.size]
NoMore == infifo[1] = NoPacket

FirstWords(id) == IF id > MAX_PKTS THEN {<<NoPacket, 0>>}
                  ELSE {<<WithId(p, id), 0>> : p \in PACKETS}

Init ==
    /\ WrInit
    /\ OnePctInit
    /\ infifo \in FirstWords(1)
    /\ infifo_rdempty = TRUE
    /\ infifo_data = <<NoPacket, 0>>
    /\ wrempty = [i \in Buffers |-> TRUE]
    /\ offered = 0

\* The FIFO of the host gives out the next word when it is asked to; it has one
\* or not, but once it has one it keeps it until it is read.
HostClock ==
    /\ IF infifo_rdreq
       THEN /\ infifo_data' = infifo
            /\ infifo' \in LET p == infifo[1]
                               k == infifo[2] + 1
                           IN IF k < PctWords(p) THEN {<<p, k>>}
                                                 ELSE FirstWords(p.id + 1)
       ELSE UNCHANGED <<infifo, infifo_data>>
    /\ infifo_rdempty' \in
           IF infifo'[1] = NoPacket THEN {TRUE}
           ELSE IF ~infifo_rdempty /\ ~infifo_rdreq THEN {FALSE}
           ELSE BOOLEAN

\* The packet FIFO offers its packet: all its words can be read.
Offering == pct_words # ALL_ONES /\ inst1_rdusedw(in_pct_reset_n_req) = pct_words

Clock(sample_nr) ==
    /\ WrClock(pct_rdy, inst1_q, sample_nr, FALSE, wrempty)
    /\ OnePctClock(infifo_data, in_pct_rdreq, in_pct_reset_n_req)
    /\ HostClock
    /\ wrempty' \in [Buffers -> BOOLEAN]
    /\ offered' = IF Offering THEN Head(inst1)[1].id ELSE offered

Next == \E sample_nr \in SAMPLE_NRS : Clock(sample_nr)

Spec == Init /\ [][Next]_vars

\* The clock runs, a host that has more words sends them, and the packet
\* buffers are emptied.
FairSpec ==
    /\ Spec
    /\ WF_vars(Next)
    /\ []<>(NoMore \/ ~infifo_rdempty)
    /\ []<>(\A i \in Buffers : wrempty[i])

-----------------------------------------------------------------------------
(* Properties.                                                             *)

\* The FIFOs are out of reset before the first word of the next packet is
\* written: nothing in the RTL makes pct_separate_fsm wait for the synchronised
\* release of the reset but the number of clocks its states take.
NoWriteWhileClearing ==
    infifo_data_valid \/ pct_header_valid_wr => ~Clearing(in_pct_reset_n_req)

\* The header of a packet is taken while the data FIFO shows the packet and not
\* yet read from: pct_words would stay at all ones and the packet never be
\* offered if it came before the words, and be wrong if it came after a clear.
HeaderMeetsItsPacket ==
    pct_header_valid =>
        /\ inst1_rdusedw(in_pct_reset_n_req) > 0 /\ ~in_pct_rdreq
        /\ Head(inst1) = <<inst2_q, 0>>

-----------------------------------------------------------------------------
(* The packet FIFO of Packets2Data.                                        *)

HeldWord == IF inst1 = <<>> THEN <<NoPacket, 0>> ELSE Head(inst1)
\* Offered from the clock in which all words can be read, until the last one
\* is read or all are cleared.
Held == IF HeldWord[2] > 0 \/ Offering THEN HeldWord ELSE <<NoPacket, 0>>

P == INSTANCE PctFifo WITH
        pct <- Held[1],
        pct_used <- Held[2],
        in_pct_rdy <- pct_rdy,
        in_pct_data <- inst1_q,
        next_id <- IF Offering THEN Head(inst1)[1].id + 1 ELSE offered + 1

\* With the write FSM behind it, pct_separate_fsm and the two FIFOs are one
\* packet FIFO: every packet of the host is offered once, whole and in order,
\* and its words come out clock by clock as they are asked for.
RefinesPctFifo ==
    P!PctFifoInit /\ [][P!PctFifoClock(in_pct_rdreq, in_pct_reset_n_req)]_vars

\* No packet gets stuck between the three FSMs: all the host has is taken.
AllTaken == <>[](NoMore /\ inst1 = <<>>)
=============================================================================
