------------------------------- MODULE Ddr2Arb ------------------------------
(***************************************************************************)
(* DDR2_arb (src/src/wfm_ram_buffer): takes write and read commands from   *)
(* two FIFOs and gives them to the memory controller, writes first.        *)
(* ArbClock is a rising edge of phy_clk.  With it, external, the memory    *)
(* controller: a transfer starts with local_burstbegin, which it takes     *)
(* whether it is ready or not; what is asked for without one goes to the   *)
(* address on the port or is lost.                                         *)
(***************************************************************************)
EXTENDS Integers, Sequences, FiniteSets

CONSTANTS
    OUT_LIMIT,          \* words in the output FIFO above which nothing is read (128)
    OUT_DEPTH,          \* its size (512)
    MAX_PENDING         \* words of read commands the controller takes

ASSUME ArbAssumption == {OUT_LIMIT, OUT_DEPTH, MAX_PENDING} \subseteq Nat /\ MAX_PENDING > 1

VARIABLES
    a_state, wr_cnt, addr_reg,
    mem,                \* contents, by address
    begun,              \* controller: transfer under way [addr, left]
    pending,            \* words read and under way to the output FIFO
    outbuf

arbVars == <<a_state, wr_cnt, addr_reg>>
memVars == <<mem, begun, pending, outbuf>>

NoData == <<0, 0>>
NotBegun == [addr |-> 0, left |-> 0]
ArbBurst == 2           \* lcl_burst_length

ArbReset == a_state' = "idle" /\ wr_cnt' = 0 /\ addr_reg' = 0

ArbInit(addresses) ==
    /\ a_state = "idle" /\ wr_cnt = 0 /\ addr_reg = 0
    /\ mem = [a \in addresses |-> NoData] /\ begun = NotBegun
    /\ pending = <<>> /\ outbuf = <<>>

-----------------------------------------------------------------------------
(* The outputs.  w and r are the FIFOs as the arbiter sees them: the number *)
(* of commands, and the one at the head.                                   *)

write_req(w) == a_state \in {"burst_wr", "wr", "hold_wr"} /\ w.used > 0
read_req(r) == a_state \in {"burst_rd", "rd_hold"} /\ r.used > 0
local_burstbegin(w, r) == (a_state = "burst_wr" /\ w.used > 0) \/ (a_state = "burst_rd" /\ r.used > 0)
local_size(c) == IF c.brst THEN ArbBurst ELSE 1
local_addr(w, r) ==
    IF ~local_burstbegin(w, r) THEN addr_reg ELSE IF a_state = "burst_wr" THEN w.addr ELSE r.addr

\* Fault: a single word waits for a second one.
MayWrite_Pairs(w) == w.used >= ArbBurst

MayWrite(w) == w.used > 0 /\ (w.brst => w.used >= ArbBurst)

\* Reads wait for all writes, and for room.
MayRead(w, r) == w.used = 0 /\ r.used > 0 /\ Len(outbuf) < OUT_LIMIT

ArbNextState(w, r, ready) ==
    CASE a_state = "idle" ->
            IF ~ready THEN "idle"
            ELSE IF MayWrite(w) THEN "burst_wr"
            ELSE IF MayRead(w, r) THEN "burst_rd" ELSE "idle"
      [] a_state = "burst_wr" ->
            IF w.brst THEN "wr"
            ELSE IF ~ready THEN "hold_wr"
            ELSE IF w.used > 0 THEN "burst_wr" ELSE "idle"
      [] a_state = "hold_wr" ->
            IF ~ready THEN "hold_wr"
            ELSE IF w.used > 0 /\ ~w.brst THEN "burst_wr" ELSE "idle"
      [] a_state = "wr" ->
            IF ~ready \/ wr_cnt # ArbBurst - 1 THEN "wr"
            ELSE IF w.brst /\ w.used > ArbBurst THEN "burst_wr" ELSE "idle"
      [] a_state = "burst_rd" ->
            IF ~ready THEN "rd_hold" ELSE IF MayRead(w, r) THEN "burst_rd" ELSE "idle"
      [] a_state = "rd_hold" ->
            IF ~ready THEN "rd_hold" ELSE IF MayRead(w, r) THEN "burst_rd" ELSE "idle"

ArbClock(w, r, ready) ==
    /\ a_state' = ArbNextState(w, r, ready)
    /\ addr_reg' = local_addr(w, r)
    /\ wr_cnt' = IF ready /\ write_req(w) THEN (wr_cnt + 1) % ArbBurst
                 ELSE IF a_state = "idle" THEN 0 ELSE wr_cnt

-----------------------------------------------------------------------------
(* The memory controller, in the same clock.                               *)

wcmd_rdreq(w, ready) == write_req(w) /\ ready
rcmd_rdreq(r, ready) == read_req(r) /\ ready

At(addr) == addr % Cardinality(DOMAIN mem)
Stored(addr, word) == [mem EXCEPT ![At(addr)] = word]
Words(addr, n) == [i \in 1 .. n |-> mem[At(addr + i - 1)]]

\* the transfer a request of this clock belongs to
Transfer(w, r) ==
    IF ~local_burstbegin(w, r) THEN begun
    ELSE [addr |-> local_addr(w, r),
          left |-> local_size(IF a_state = "burst_wr" THEN w ELSE r)]

MemWrite(w, r, word) ==
    LET t == Transfer(w, r)
    IN  /\ IF t.left > 0
           THEN /\ mem' = Stored(t.addr, word)
                /\ begun' = [addr |-> t.addr + 1, left |-> t.left - 1]
           ELSE mem' \in {mem, Stored(local_addr(w, r), word)} /\ begun' = t
        /\ UNCHANGED pending

MemRead(w, r) ==
    LET t == Transfer(w, r)
    IN  /\ IF t.left > 0
           THEN pending' = pending \o Words(t.addr, t.left) /\ begun' = NotBegun
           ELSE pending' \in {pending, pending \o Words(local_addr(w, r), local_size(r))} /\ begun' = t
        /\ UNCHANGED mem

MemClock(w, r, word, ready) ==
    /\ CASE wcmd_rdreq(w, ready) -> MemWrite(w, r, word)
         [] rcmd_rdreq(r, ready) -> MemRead(w, r)
         [] OTHER -> begun' = Transfer(w, r) /\ UNCHANGED <<mem, pending>>
    /\ UNCHANGED outbuf

\* A word arrives in the output FIFO, and is lost when that is full.
MemReturn ==
    /\ pending # <<>> /\ pending' = Tail(pending)
    /\ outbuf' = IF Len(outbuf) < OUT_DEPTH THEN Append(outbuf, Head(pending)) ELSE outbuf
    /\ UNCHANGED <<mem, begun>>
=============================================================================
