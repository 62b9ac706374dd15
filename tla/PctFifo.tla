------------------------------ MODULE PctFifo -------------------------------
(***************************************************************************)
(* What one_pct_fifo promises to p2d_wr_fsm: it holds at most one packet,  *)
(* offers it (in_pct_rdy) once all its words can be read, withdraws the    *)
(* offer when the first word is read, gives out one word per request, and  *)
(* loses the whole packet when it is told to.  OnePctFifo is the component *)
(* itself; Packets2Data is checked on top of this abstraction of it.       *)
(***************************************************************************)
EXTENDS TxBuffers

CONSTANTS
    PACKETS,        \* packets the host may send: records [nr, dis, size]
    MAX_PKTS        \* bound on the packets of a behaviour

ASSUME PacketsAssumption ==
    /\ MAX_PKTS \in Nat
    /\ PACKETS \subseteq [nr : Nat, dis : BOOLEAN, size : 0 .. MAX_PAYLOAD]
    \* whole 128-bit words: the write side counts in these, the read side in halves
    /\ \A p \in PACKETS : p.size % 2 = 0
    \* pct_separate_fsm reads two words before it knows the size of a packet
    /\ \A p \in PACKETS : p.size = 0 \/ p.size >= 4

VARIABLES
    pct,                    \* the packet it holds, or NoPacket
    pct_used,               \* 128-bit words read from it
    in_pct_rdy,
    in_pct_data,            \* its output register
    next_id                 \* id of the next packet to arrive

pctVars == <<pct, pct_used, in_pct_rdy, in_pct_data, next_id>>

PctFifoInit ==
    /\ pct = NoPacket /\ pct_used = 0 /\ next_id = 1
    /\ in_pct_rdy = FALSE /\ in_pct_data = <<NoPacket, 0>>

WithId(p, id) == [id |-> id, nr |-> p.nr, dis |-> p.dis, size |-> p.size]

PctFifoArrival ==
    \/ UNCHANGED <<pct, next_id>>
    \/ /\ next_id <= MAX_PKTS
       /\ next_id' = next_id + 1
       /\ \E p \in PACKETS : pct' = WithId(p, next_id)

PctFifoClock(rdreq, reset_n_req) ==
    /\ in_pct_rdy' = (pct # NoPacket /\ pct_used = 0 /\ reset_n_req)
    /\ \/ /\ ~reset_n_req
          /\ pct' = NoPacket /\ pct_used' = 0
          /\ UNCHANGED <<in_pct_data, next_id>>
       \/ /\ reset_n_req /\ rdreq /\ pct # NoPacket
          /\ in_pct_data' = <<pct, pct_used>>
          /\ IF pct_used + 1 = PctWords(pct)
             THEN pct' = NoPacket /\ pct_used' = 0
             ELSE pct' = pct /\ pct_used' = pct_used + 1
          /\ UNCHANGED next_id
       \/ /\ reset_n_req /\ ~rdreq /\ pct # NoPacket
          /\ UNCHANGED <<pct, pct_used, in_pct_data, next_id>>
       \/ /\ reset_n_req /\ pct = NoPacket
          /\ PctFifoArrival
          /\ UNCHANGED <<pct_used, in_pct_data>>
=============================================================================
