------------------------------- MODULE TxRegs -------------------------------
(***************************************************************************)
(* The SPI registers (src/src/spi/fpgacfg.vhd) that set up the back of the *)
(* TX path.  The host writes them before it enables TX: they stay as they  *)
(* are in a behaviour.                                                     *)
(***************************************************************************)
EXTENDS Integers

CONSTANT CONFIGS        \* settings

ASSUME ConfigAssumption ==
    CONFIGS \subseteq [packed : BOOLEAN, int_mode : {"00", "01", "10", "11"},
                       sync_mode : BOOLEAN, sync_size : Nat,
                       before : Nat, after : Nat]

VARIABLE regs   \* packed: sample_width is "10", 12 bits, otherwise "00", 16 bits
                \* int_mode: mode of the interface
                \* sync_mode: bursts on external pulses
                \* sync_size: inst3_pct_sync_size, words of a burst
                \* before, after: txant_cyc_before_en, txant_cyc_after_en

RegsInit == regs \in CONFIGS
=============================================================================
