------------------------------ MODULE TxQueue ------------------------------
(***************************************************************************)
(* What the TX packet buffers promise, without buffers, pipelines or       *)
(* state machines: a bounded queue of packets from which, one clock at a   *)
(* time, either a word of the oldest packet is put on the output port, or  *)
(* the oldest packet is dropped as a whole.                                *)
(*                                                                         *)
(*   - the words of a packet leave in order, none missing, none twice, and *)
(*     never mixed with the words of another packet;                       *)
(*   - a synchronised packet starts only when the sample counter has       *)
(*     reached its sample number, and is dropped only when the counter has *)
(*     passed it and no word of it has left.                               *)
(***************************************************************************)
EXTENDS TxBuffers

CONSTANT SYNC_DIS       \* synchronisation is off for every packet

VARIABLES
    queue,      \* packets accepted and not finished, oldest first
    emitted,    \* words of Head(queue) that have left
    out,        \* the output port: a word <<id, index>>, or NoOut
    now         \* the sample counter

NoOut == <<>>

Synchronised(p) == ~SYNC_DIS /\ ~p.dis

TypeOK ==
    /\ queue \in Seq([id : Nat, nr : Nat, dis : BOOLEAN, size : Nat])
    /\ emitted \in Nat
    /\ now \in Nat

Init == queue = <<>> /\ emitted = 0 /\ out = NoOut /\ now = 0

\* At most one packet is accepted in a clock, and never more than the ring holds.
Accepts(rest) ==
    \/ queue' = rest
    \/ /\ Len(rest) < BUFF_COUNT
       /\ Len(queue') = Len(rest) + 1
       /\ SubSeq(queue', 1, Len(rest)) = rest

Emit ==
    /\ queue # <<>>
    /\ LET p == Head(queue)
       IN /\ emitted = 0 /\ Synchronised(p) => p.nr <= now
          /\ out' = <<p.id, emitted>>
          /\ \/ /\ emitted + 1 < PayloadWords(p.size)
                /\ emitted' = emitted + 1
                /\ Accepts(queue)
             \/ /\ emitted + 1 = PayloadWords(p.size)
                /\ emitted' = 0
                /\ Accepts(Tail(queue))

DropLate ==
    /\ queue # <<>> /\ emitted = 0
    /\ Synchronised(Head(queue)) /\ Head(queue).nr < now
    /\ out' = NoOut /\ UNCHANGED emitted
    /\ Accepts(Tail(queue))

Wait ==
    /\ out' = NoOut /\ UNCHANGED emitted
    /\ Accepts(queue)

Next == (Emit \/ DropLate \/ Wait) /\ now' \in {now, now + 1}

Spec == Init /\ [][Next]_<<queue, emitted, out, now>>
=============================================================================
