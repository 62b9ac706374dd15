------------------------------- MODULE DcFifo -------------------------------
(***************************************************************************)
(* The dual-clock FIFO megafunction as fifo_inst.vhd instantiates it, with *)
(* both sides on one clock: each side sees the pointer of the other side   *)
(* SYNC_STAGES clocks late.  A pointer under way is a shift register of    *)
(* the steps it took.                                                      *)
(***************************************************************************)
EXTENDS Integers, FiniteSets

CONSTANT SYNC_STAGES    \* clocks a FIFO pointer takes to reach the other side

ASSUME SyncStagesAssumption == SYNC_STAGES \in Nat \ {0}

Stages == 1 .. SYNC_STAGES
Nothing == [k \in Stages |-> FALSE]
Shift(pipe, step) == [k \in Stages |-> IF k = 1 THEN step ELSE pipe[k - 1]]
InFlight(pipe) == Cardinality({k \in Stages : pipe[k]})
=============================================================================
