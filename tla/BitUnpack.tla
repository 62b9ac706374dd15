----------------------------- MODULE BitUnpack ------------------------------
(***************************************************************************)
(* bit_unpack_64, unpack_64_to_48 and unpack_64_to_64                      *)
(* (src/src/tx_path_top/bit_unpack/synth): 64-bit words of packed samples  *)
(* in, 128-bit words of eight 16-bit samples out.  Three input words hold  *)
(* sixteen 12-bit samples and make two output words, two input words of    *)
(* 16-bit samples make one.                                                *)
(*                                                                         *)
(* An input word is its number in the stream, an output word is            *)
(* <<which, a, b>>: the samples of word128_0 or word128_1 cut out of the   *)
(* input words a and b.  A register with its valid flag down is None.      *)
(* The width "01" (14 bits) has no unpacker in the code.                  *)
(***************************************************************************)
EXTENDS TxRegs

VARIABLES
    unp_wr_cnt,         \* wr_cnt: input words since the last group began
    data64_in_reg,
    word128,            \* word128_0 and word128_1 behind data128_out_mux
    data128_out_reg,    \* 12 bits only: the registers of unpack_64_to_48
    mux0_data128_reg,   \* and of the first multiplexer of bit_unpack_64
    mux1_data128_reg

unpackVars == <<unp_wr_cnt, data64_in_reg, word128, data128_out_reg,
                mux0_data128_reg, mux1_data128_reg>>

None == -1
NoSamples == <<-1, -1, -1>>

UnpackInit ==
    /\ unp_wr_cnt = 0 /\ data64_in_reg = None /\ word128 = NoSamples
    /\ data128_out_reg = NoSamples /\ mux0_data128_reg = NoSamples
    /\ mux1_data128_reg = NoSamples

\* The n-th output word, as it follows from the stream of input words.
Unpacked(n) ==
    IF regs.packed
    THEN LET k == n % 2
             a == 3 * (n \div 2) + k
         IN <<k, a, a + 1>>
    ELSE <<0, 2 * n, 2 * n + 1>>

\* Input words that make a group.
GROUP == IF regs.packed THEN 3 ELSE 2

\* data_in is None when data_in_valid is down.
UnpackClock(data_in) ==
    LET valid == data_in # None
    IN /\ data64_in_reg' = IF valid THEN data_in ELSE data64_in_reg
       /\ unp_wr_cnt' = IF ~valid THEN unp_wr_cnt
                        ELSE IF unp_wr_cnt < GROUP - 1 THEN unp_wr_cnt + 1 ELSE 0
       /\ word128' = IF valid /\ unp_wr_cnt \in {1, 2}
                     THEN <<unp_wr_cnt - 1, data64_in_reg, data_in>>
                     ELSE NoSamples
       /\ data128_out_reg' = word128
       /\ mux0_data128_reg' = data128_out_reg
       /\ mux1_data128_reg' = IF regs.packed THEN mux0_data128_reg ELSE word128
=============================================================================
