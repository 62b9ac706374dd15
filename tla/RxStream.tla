------------------------------ MODULE RxStream ------------------------------
(***************************************************************************)
(* What the RX packet formation promises: the received samples are cut     *)
(* into packets of SMPL_RD_SIZE sample words, packet k from word           *)
(* k * SMPL_RD_SIZE on.  A packet is either written completely - two       *)
(* header words, the second with the number of its first sample, then its  *)
(* data in order - or left out completely.                                 *)
(***************************************************************************)
EXTENDS Integers

CONSTANT PCT_SIZE   \* words of a packet, headers included

VARIABLES
    packed,         \* four 48-bit sample words travel in three 64-bit words
    k,              \* number of the packet
    pos,            \* words of packet k already written
    out             \* word written in this clock, or NoWord

\* Sample words of a packet.
SMPL_RD_SIZE == IF packed THEN 4 * ((PCT_SIZE - 2) \div 3) ELSE PCT_SIZE - 2

NoWord == <<"none", 0, 0>>
Hdr0 == <<"hdr0", 0, 0>>
Hdr1(nr) == <<"hdr1", nr, nr>>

\* Data word j of a packet whose first sample word is n, as the sample words
\* from which its bits come.
DataWord(n, j) ==
    IF packed
    THEN LET first == n + 4 * (j \div 3) + (j % 3)
         IN <<"data", first, first + 1>>
    ELSE <<"data", n + j, n + j>>

WordOf(packet, i) ==
    CASE i = 0 -> Hdr0
      [] i = 1 -> Hdr1(packet * SMPL_RD_SIZE)
      [] OTHER -> DataWord(packet * SMPL_RD_SIZE, i - 2)

Init == packed \in BOOLEAN /\ k = 0 /\ pos = 0 /\ out = NoWord

Write ==
    /\ out' = WordOf(k, pos)
    /\ IF pos + 1 = PCT_SIZE THEN pos' = 0 /\ k' = k + 1
                             ELSE pos' = pos + 1 /\ UNCHANGED k

LeaveOut == pos = 0 /\ k' = k + 1 /\ UNCHANGED pos /\ out' = NoWord

Wait == UNCHANGED <<k, pos>> /\ out' = NoWord

Next == UNCHANGED packed /\ (Write \/ LeaveOut \/ Wait)

Spec == Init /\ [][Next]_<<packed, k, pos, out>>
=============================================================================
