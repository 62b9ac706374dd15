----------------------------- MODULE TxBuffers -----------------------------
(***************************************************************************)
(* What the entities of src/src/tx_path_top/packets2data share: the ring   *)
(* of packet buffers, the packets and their words.                         *)
(*                                                                         *)
(* A packet is a record [id, nr, dis, size]: nr is the sample number and   *)
(* dis the "no synchronisation" bit of its header, size the payload size   *)
(* of the header counted in 64-bit words (0: the header carries no size,   *)
(* the payload is MAX_PAYLOAD words).  id only tells packets apart.        *)
(***************************************************************************)
EXTENDS Integers, Sequences

CONSTANTS
    BUFF_COUNT,     \* g_BUFF_COUNT, the number of packet buffers
    MAX_PAYLOAD     \* payload of a packet of g_PCT_MAX_SIZE, in 64-bit words

ASSUME BuffCountAssumption == BUFF_COUNT \in Nat \ {0, 1}
ASSUME MaxPayloadAssumption ==
    /\ MAX_PAYLOAD \in Nat /\ MAX_PAYLOAD % 2 = 0
    \* as of every packet (see PacketsAssumption), and the counters of words have 16 bits
    /\ MAX_PAYLOAD >= 4 /\ MAX_PAYLOAD < 65536

Buffers == 0 .. BUFF_COUNT - 1

\* The counters of both FSMs step round the ring the same way.
NextBuffer(i) == IF i < BUFF_COUNT - 1 THEN i + 1 ELSE 0

\* The header registers after reset.
NoPacket == [id |-> 0, nr |-> 0, dis |-> FALSE, size |-> 0]

\* 64-bit words of payload for the size field of a header.
PayloadWords(size) == IF size = 0 THEN MAX_PAYLOAD ELSE size

\* Words of 128 bits that a packet fills, its header word included.
PctWords(p) == PayloadWords(p.size) \div 2 + 1

\* lpm_compare with lpm_pipeline => 3: the answer comes three clocks later.
EmptyPipe == <<FALSE, FALSE, FALSE>>
PipeIn(pipe, answer) == <<answer, pipe[1], pipe[2]>>
PipeOut(pipe) == pipe[3]
=============================================================================
