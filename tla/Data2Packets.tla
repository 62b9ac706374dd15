---------------------------- MODULE Data2Packets ----------------------------
(***************************************************************************)
(* data2packets (src/src/rx_path_top/data2packets/synth/data2packets.vhd): *)
(* puts two header words in front of the data words of a packet.  A        *)
(* three-stage shift register takes both headers together with the first   *)
(* data word, moves on with every data word, and is flushed for two clocks *)
(* after the last one.                                                     *)
(*                                                                         *)
(* FormClock is one rising edge of clk; its parameters are the input       *)
(* ports.  The output pct_q is reg_0.                                      *)
(***************************************************************************)
EXTENDS Integers, Sequences

CONSTANT PCT_SIZE       \* words of a packet, headers included

\* data2packets.vhd asks for at least six words.
ASSUME PctSizeAssumption == PCT_SIZE \in Nat /\ PCT_SIZE >= 6

VARIABLES
    form_state,         \* current_state
    reg_0, reg_1, reg_2,
    pct_data_wr_cnt,    \* data words accepted
    pct_end_cnt,
    pct_wrreq_int       \* reg_0 holds a word to write

formVars == <<form_state, reg_0, reg_1, reg_2, pct_data_wr_cnt, pct_end_cnt,
              pct_wrreq_int>>

FormStates == {"idle", "s0", "s1", "s2"}

NoWord == <<"none", 0, 0>>

FormInit ==
    /\ form_state = "idle"
    /\ reg_0 = NoWord /\ reg_1 = NoWord /\ reg_2 = NoWord
    /\ pct_data_wr_cnt = 0 /\ pct_end_cnt = 0
    /\ pct_wrreq_int = FALSE

(* The output pct_state: "00" in idle, "01" while data is captured.        *)
PctIdle == form_state = "idle"
PctCapture(pct_data_wrreq) ==
    form_state = "s0" \/ (form_state = "s1" /\ ~pct_data_wrreq)

\* Fault: the packet ends one word late.
FormS0_OneMore(pct_data_wrreq) ==
    /\ form_state = "s0"
    /\ form_state' = IF pct_data_wr_cnt = PCT_SIZE - 3 /\ pct_data_wrreq
                     THEN "s1" ELSE "s0"

FormS0(pct_data_wrreq) ==
    /\ form_state = "s0"
    /\ form_state' = IF pct_data_wr_cnt = PCT_SIZE - 4 /\ pct_data_wrreq
                     THEN "s1" ELSE "s0"

FormFlush ==
    /\ form_state = "s2"
    /\ form_state' = IF pct_end_cnt = 0 THEN "idle" ELSE "s2"

FormFsm(pct_data_wrreq) ==
    \/ /\ form_state = "idle"
       /\ form_state' = IF pct_data_wrreq THEN "s0" ELSE "idle"
    \/ FormS0(pct_data_wrreq)
    \/ /\ form_state = "s1"
       /\ form_state' = IF pct_data_wrreq THEN "s2" ELSE "s1"
    \/ FormFlush

\* The shift register: headers enter with the first data word.
FormShift(pct_hdr_0, pct_hdr_1, pct_data, pct_data_wrreq) ==
    /\ reg_2' = IF pct_data_wrreq THEN pct_data ELSE reg_2
    /\ IF form_state = "idle" /\ pct_data_wrreq
       THEN reg_0' = pct_hdr_0 /\ reg_1' = pct_hdr_1
       ELSE IF form_state = "s2" \/ pct_data_wrreq
       THEN reg_0' = reg_1 /\ reg_1' = reg_2
       ELSE UNCHANGED <<reg_0, reg_1>>

FormCounters(pct_data_wrreq) ==
    /\ pct_data_wr_cnt' = IF form_state = "s1" THEN 0
                          ELSE IF pct_data_wrreq THEN pct_data_wr_cnt + 1
                          ELSE pct_data_wr_cnt
    /\ pct_end_cnt' = IF form_state = "s2" THEN (pct_end_cnt - 1) % 256 ELSE 1
    /\ pct_wrreq_int' = (pct_data_wrreq \/ form_state = "s2")

FormClock(pct_hdr_0, pct_hdr_1, pct_data, pct_data_wrreq) ==
    /\ FormFsm(pct_data_wrreq)
    /\ FormShift(pct_hdr_0, pct_hdr_1, pct_data, pct_data_wrreq)
    /\ FormCounters(pct_data_wrreq)
=============================================================================
